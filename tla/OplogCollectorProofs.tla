------------------------ MODULE OplogCollectorProofs ------------------------
(***************************************************************************)
(* Proofs about OplogCollector, for every number of positions and events,  *)
(* every distance between entries and every chunk interval: the repository *)
(* is coherent between any two steps (RepoCoherent), what is replayed is   *)
(* an unbroken stretch of one history (ReplayUnbroken), a base that is     *)
(* covered is replayed on the history it was taken from                    *)
(* (CoveredBaseOnChain), and, where the primary's majority view is         *)
(* current, nothing is given up in vain (GivenUpForCause).                 *)
(*                                                                         *)
(* The inductive invariant has three parts.  ServerInv: oplogs that share  *)
(* an entry agree up to it, and where the oplog left one that was lost its *)
(* entries are of a later term or set.  RepoInv: all chunks of a chain are *)
(* stretches of one history.  WorkerInv: the end of the range that is read *)
(* is on a history, and the first chunk of a chain keeps its start.        *)
(***************************************************************************)
EXTENDS OplogCollector, WellFoundedInduction, TLAPS

-----------------------------------------------------------------------------
(* The inductive invariant. *)

Positions == 1..MaxTS
Reasons == {"open", "stopped", "gap", "diverged", "replica_set_changed"}
Whys == {"none", "new", "resume", "gap", "diverged", "replica_set_changed"}
PCs == {"idle", "confirm", "reconfirm", "supersede", "end", "start", "adopt", "read", "commit"}
ChainRows == [start : Positions, end : 0..MaxTS, reason : Reasons]
ChunkRows == [chain : Nat, from : Positions, status : {"committed", "superseded"}, got : SUBSET Entries,
              last : Entries, firstTerm : Nat]
Workers == [up : BOOLEAN, version : Nat, pc : PCs, checked : BOOLEAN, inclusive : BOOLEAN, set : 0..2,
            kind : {"none", "primary", "secondary"}, to : Entries \cup {NoEntry},
            op : [ts : 0..MaxTS, term : 0..MaxEvents + 1, set : 0..2], why : Whys, got : SUBSET Entries]
Servers == [set : {1, 2}, log : SUBSET Entries, term : Nat, commit : Positions, oldest : Positions,
            stale : SUBSET SUBSET Entries]

\* The type of every variable the properties depend on.
Types ==
    /\ rs \in Servers /\ lost \subseteq SUBSET Entries
    /\ events \in 0..MaxEvents /\ rs.term \in 1..(events + 1)
    /\ chains \in Seq(ChainRows) /\ chunks \subseteq ChunkRows
    /\ state \in [chain : Nat, last : Entries \cup {NoEntry}, set : 0..2]
    /\ w \in Workers
    /\ enabled \in [on : BOOLEAN, version : Nat]
    /\ sup \in [pc : {"idle", "listed", "stopped"}, want : [on : BOOLEAN, version : Nat]]

\* An oplog holds one entry at a position, and only those of one replica set.
LogOK(g) == \A e, f \in g : e.set = f.set /\ (e.ts = f.ts => e = f)

\* Two oplogs that share an entry are the same up to it.
Agree(g, h) == \A e \in g \cap h : UpTo(g, e.ts) = UpTo(h, e.ts)

\* Entry f was written before entry e: in an earlier replica set or term.
Older(f, e) == f.set < e.set \/ f.term < e.term

\* A lost oplog agrees with the current one as far as they share entries, all of which
\* are committed; what is and what will be written after that is later than all of it.
LostOK(h) ==
    /\ LogOK(h) /\ Agree(h, rs.log) /\ h \cap rs.log \subseteq Committed
    /\ \A f \in h : f.set <= rs.set /\ (f.set < rs.set \/ f.term < rs.term)
    /\ \A e \in rs.log \ h, f \in h : Older(f, e)

ServerInv ==
    /\ LogOK(rs.log) /\ \A e \in rs.log : e.set = rs.set /\ e.term <= rs.term
    /\ rs.oldest <= rs.commit
    /\ \E e \in rs.log : e.ts = rs.commit
    /\ \E e \in rs.log : e.ts = rs.oldest
    /\ \A h \in lost : LostOK(h)
    /\ \A g, h \in lost : Agree(g, h)
    /\ rs.stale \subseteq lost

\* The last chain is the one of the position, and no other is open.
ChainsInv ==
    /\ state.chain = Len(chains)
    /\ \A c \in 1..Len(chains) : chains[c].reason = "open" => c = Len(chains)
    /\ state.chain # 0 => state.last \in Entries

\* The chunks of the last chain end at the position or before it, and one ends there
\* unless there is none.
PositionInv ==
    /\ \A k \in ChunksOf(state.chain) : k.last.ts <= state.last.ts
    /\ state.chain # 0 =>
         \/ ChunksOf(state.chain) = {} /\ chains[state.chain].start = state.last.ts
         \/ \E k \in ChunksOf(state.chain) : k.last = state.last

\* Chunk k is a stretch of history h: what h has after its start and up to its end, and
\* perhaps the entry at its start.
Stretch(k, h) ==
    /\ k.last \in h /\ k.got \subseteq h
    /\ \A e \in h : k.from < e.ts /\ e.ts <= k.last.ts => e \in k.got
    /\ \A e \in k.got : k.from <= e.ts /\ e.ts <= k.last.ts

\* The chunks of a chain are stretches of one history.
OneHistory == \A c \in 1..Len(chains) : \E h \in Histories : \A k \in ChunksOf(c) : Stretch(k, h)

\* A chunk that keeps the entry it starts at.
HoldsStart(k) == \E e \in k.got : e.ts = k.from

\* Where a chain has a chunk that starts where the chain does, the entry there was kept,
\* by that chunk or by one that ends there too.
StartKept(k) ==
    k.from = chains[k.chain].start =>
      \/ HoldsStart(k)
      \/ \E p \in ChunksOf(k.chain) :
           p.status = "committed" /\ p.from = k.from /\ p.last.ts = k.from /\ HoldsStart(p)

ChunksInv ==
    /\ \A k \in chunks :
         /\ k.chain \in 1..Len(chains)
         /\ chains[k.chain].start <= k.from /\ k.from <= k.last.ts
         /\ k.status = "superseded" => chains[k.chain].start < k.last.ts
         /\ StartKept(k)
    /\ \A k, l \in chunks : k.chain = l.chain /\ k # l => k.got \cap l.got = {}

RepoInv == ChainsInv /\ PositionInv /\ ChunksInv /\ OneHistory

\* What the worker remembers from tick to tick: the next chunk is the first of the chain,
\* and keeps the entry at its start, just when the chain has none.
MemoryInv ==
    /\ w.checked => state.chain # 0 /\ (w.inclusive <=> ChunksOf(state.chain) = {})
    /\ ~w.checked => ~w.inclusive

\* The range of a read ends at an entry of a history, at the position or after it.
ReadInv ==
    w.pc \in {"read", "commit"} =>
      /\ w.checked /\ w.to \in Entries /\ state.last.ts <= w.to.ts
      /\ \E h \in Histories : w.to \in h

\* What was read is what that history has from the position to the end of the range.
GotInv ==
    w.pc = "commit" =>
      \E h \in Histories :
        /\ w.to \in h /\ state.last \in h
        /\ w.got = {e \in h : e.ts <= w.to.ts /\ (state.last.ts < e.ts \/ (w.inclusive /\ e.ts = state.last.ts))}

StepInv ==
    /\ w.pc \notin {"idle", "start"} => state.chain # 0
    /\ w.pc \in {"start", "adopt"} => w.op \in Entries
    /\ w.pc = "supersede" => chains[state.chain].start <= w.op.ts
    /\ w.pc = "start" => w.why # "none"
    /\ w.pc \in {"supersede", "end"} => w.why \in {"gap", "diverged", "replica_set_changed"}

WorkerInv == MemoryInv /\ ReadInv /\ GotInv /\ StepInv

IInv == Types /\ ServerInv /\ RepoInv /\ WorkerInv

\* A decision to give up chunks, or a chain that has some, stays right until it is
\* carried out.
CauseInv ==
    /\ w.pc = "supersede" => \A k \in Live(state.chain) : w.op.ts < k.last.ts => k.last \notin Held
    /\ w.pc \in {"supersede", "end"} /\ w.why \in {"gap", "diverged"} /\ ChunksOf(state.chain) # {}
         => state.last \notin Held

-----------------------------------------------------------------------------
(* Oplogs. *)

\* The newest and the oldest entry of an oplog that is not empty.
LEMMA Extremes ==
  ASSUME NEW log \in SUBSET Entries, log # {}
  PROVE  /\ Newest(log) \in log /\ \A f \in log : f.ts <= Newest(log).ts
         /\ Oldest(log) \in log /\ \A f \in log : f.ts >= Oldest(log).ts
<1> DEFINE Less == {ss \in Nat \X Nat : ss[1] < ss[2]}
           T == {MaxTS - e.ts : e \in log}
           U == {e.ts : e \in log}
<1>0. \A e \in log : e.ts \in Nat /\ e.ts <= MaxTS /\ MaxTS \in Nat
  BY OplogAssumption DEF Entries
<1>1. IsWellFoundedOn(Less, Nat)
  BY NatLessThanWellFounded DEF OpToRel
<1>2. T \in SUBSET Nat /\ T # {} /\ U \in SUBSET Nat /\ U # {}
  <2>1. ASSUME NEW e \in log PROVE MaxTS - e.ts \in Nat
    BY <1>0
  <2>2. PICK e \in log : TRUE
    OBVIOUS
  <2> QED
    BY <1>0, <2>1, <2>2
<1>3. PICK m \in T : \A y \in T : <<y, m>> \notin Less
  <2> HIDE DEF Less, T, U
  <2> QED
    BY <1>1, <1>2, WFMin
<1>4. PICK n \in U : \A y \in U : <<y, n>> \notin Less
  <2> HIDE DEF Less, T, U
  <2> QED
    BY <1>1, <1>2, WFMin
<1>5. PICK x \in log : m = MaxTS - x.ts
  BY <1>3
<1>6. PICK z \in log : n = z.ts
  BY <1>4
<1>7. \A f \in log : f.ts <= x.ts
  <2>1. SUFFICES ASSUME NEW f \in log, x.ts < f.ts PROVE FALSE
    BY <1>0
  <2>2. MaxTS - f.ts \in T /\ MaxTS - f.ts \in Nat /\ m \in Nat /\ MaxTS - f.ts < m
    BY <1>0, <1>5, <2>1
  <2>3. <<MaxTS - f.ts, m>> \in Less
    BY <2>2
  <2> QED
    BY <1>3, <2>2, <2>3
<1>8. \A f \in log : f.ts >= z.ts
  <2>1. SUFFICES ASSUME NEW f \in log, f.ts < z.ts PROVE FALSE
    BY <1>0
  <2>2. f.ts \in U /\ f.ts \in Nat /\ n \in Nat /\ f.ts < n
    BY <1>0, <1>6, <2>1
  <2>3. <<f.ts, n>> \in Less
    BY <2>2
  <2> QED
    BY <1>4, <2>2, <2>3
<1>9. Newest(log) \in log /\ \A f \in log : f.ts <= Newest(log).ts
  BY <1>7 DEF Newest
<1>10. Oldest(log) \in log /\ \A f \in log : f.ts >= Oldest(log).ts
  BY <1>8 DEF Oldest
<1> QED
  BY <1>9, <1>10

\* The oplog up to one of its entries is an oplog, and agrees with whatever agreed with it.
LEMMA UpToOK ==
  ASSUME NEW g \in SUBSET Entries, NEW h \in SUBSET Entries, NEW t \in Nat, LogOK(g)
  PROVE  /\ LogOK(UpTo(g, t)) /\ UpTo(g, t) \subseteq g /\ Agree(UpTo(g, t), g)
         /\ Agree(h, g) => Agree(h, UpTo(g, t)) /\ Agree(UpTo(g, t), h)
<1> \A e \in g \cup h : e.ts \in Nat
  BY DEF Entries
<1>1. LogOK(UpTo(g, t)) /\ UpTo(g, t) \subseteq g
  BY DEF LogOK, UpTo
<1>2. Agree(UpTo(g, t), g)
  BY DEF UpTo, Agree
<1>3. Agree(h, g) => Agree(h, UpTo(g, t)) /\ Agree(UpTo(g, t), h)
  BY DEF UpTo, Agree
<1> QED
  BY <1>1, <1>2, <1>3

\* The fields of an entry are numbers.
LEMMA EntryTypes ==
  \A e \in Entries : /\ e.ts \in Nat /\ 1 <= e.ts /\ e.ts <= MaxTS /\ e.ts \in Positions
                     /\ e.term \in Nat /\ e.term \in 1..MaxEvents + 1 /\ e.set \in Nat /\ e.set \in {1, 2}
BY OplogAssumption DEF Entries, Positions

-----------------------------------------------------------------------------
(* The replica set. *)

\* The types of the replica set's state.
LEMMA ServerTypes ==
  ASSUME Types
  PROVE  /\ rs.log \in SUBSET Entries /\ \A h \in lost : h \in SUBSET Entries
         /\ rs.commit \in Nat /\ rs.term \in Nat /\ rs.set \in Nat /\ rs.oldest \in Nat
         /\ Committed \in SUBSET Entries /\ \A h \in Histories : h \in SUBSET Entries
<1>1. rs.log \in SUBSET Entries /\ \A h \in lost : h \in SUBSET Entries
  BY DEF Types, Servers
<1>2. rs.commit \in Nat /\ rs.term \in Nat /\ rs.set \in Nat /\ rs.oldest \in Nat
  BY OplogAssumption DEF Types, Servers, Positions
<1> QED
  BY <1>1, <1>2 DEF Histories, Committed, UpTo

\* What a step of the replica set does to its oplogs, field by field.
LEMMA WriteEffect ==
  ASSUME Types, ServerInv, Write
  PROVE  /\ lost' = lost /\ events' = events /\ rs'.set = rs.set /\ rs'.term = rs.term
         /\ rs'.commit = rs.commit /\ rs'.oldest = rs.oldest /\ rs'.stale = rs.stale
         /\ rs' \in Servers
         /\ \E ts \in Positions :
              /\ rs'.log = rs.log \cup {Entry(ts, rs.term, rs.set)}
              /\ \A f \in rs.log : f.ts < ts
<1>1. PICK gap \in Gaps :
        Newest(rs.log).ts + gap <= MaxTS
        /\ rs' = [rs EXCEPT !.log = @ \cup {Entry(Newest(rs.log).ts + gap, rs.term, rs.set)}]
  BY DEF Write
<1>2. rs.log \in SUBSET Entries /\ rs.log # {}
  BY DEF Types, Servers, ServerInv
<1>3. Newest(rs.log) \in rs.log /\ \A f \in rs.log : f.ts <= Newest(rs.log).ts
  BY <1>2, Extremes
<1> DEFINE ts == Newest(rs.log).ts + gap
<1>4. ts \in Positions /\ \A f \in rs.log : f.ts < ts
  BY <1>1, <1>2, <1>3, OplogAssumption DEF Positions, Entries
<1>5. rs.term \in 1..MaxEvents + 1 /\ rs.set \in {1, 2}
  BY OplogAssumption DEF Types, Servers
<1>6. Entry(ts, rs.term, rs.set) \in Entries
  <2> HIDE DEF ts
  <2> QED
    BY <1>4, <1>5 DEF Entry, Entries, Positions
<1>7. rs' = [rs EXCEPT !.log = rs.log \cup {Entry(ts, rs.term, rs.set)}]
  BY <1>1
<1> HIDE DEF ts
<1>8. rs'.log = rs.log \cup {Entry(ts, rs.term, rs.set)} /\ rs' \in Servers /\ rs'.set = rs.set /\ rs'.term = rs.term
         /\ rs'.commit = rs.commit /\ rs'.oldest = rs.oldest /\ rs'.stale = rs.stale
  BY <1>2, <1>6, <1>7 DEF Types, Servers
<1> QED
  BY <1>4, <1>8 DEF Write

\* A write keeps the agreement of the oplogs.
LEMMA WriteInv ==
  ASSUME Types, ServerInv, Write
  PROVE  ServerInv'
<1>1. PICK ts \in Positions :
         /\ rs'.log = rs.log \cup {Entry(ts, rs.term, rs.set)}
         /\ \A f \in rs.log : f.ts < ts
  BY WriteEffect
<1> DEFINE n == Entry(ts, rs.term, rs.set)
<1>2. /\ lost' = lost /\ rs'.set = rs.set /\ rs'.term = rs.term
      /\ rs'.commit = rs.commit /\ rs'.oldest = rs.oldest /\ rs'.stale = rs.stale
      /\ rs' \in Servers
  BY WriteEffect
<1>3. n.ts = ts /\ n.term = rs.term /\ n.set = rs.set /\ n \in Entries
  BY <1>1, <1>2 DEF Entry, Servers
<1>4. /\ rs.log \in SUBSET Entries /\ \A h \in lost : h \in SUBSET Entries
      /\ \A e \in Entries : e.ts \in Nat /\ e.term \in Nat /\ e.set \in Nat
      /\ rs.commit \in Nat /\ rs.term \in Nat /\ rs.set \in Nat /\ rs.oldest \in Nat
  BY EntryTypes, ServerTypes
<1>5. rs'.log = rs.log \cup {n} /\ \A f \in rs.log : f.ts < n.ts
  BY <1>1, <1>3
<1> HIDE DEF n
<1>6. LogOK(rs'.log) /\ (\A e \in rs'.log : e.set = rs.set /\ e.term <= rs.term)
  BY <1>3, <1>4, <1>5 DEF ServerInv, LogOK
<1>7. /\ \E e \in rs'.log : e.ts = rs.commit
      /\ \E e \in rs'.log : e.ts = rs.oldest
  BY <1>5 DEF ServerInv
<1>8. rs.commit < n.ts
  BY <1>5 DEF ServerInv
<1>9. UpTo(rs'.log, rs'.commit) = Committed
  BY <1>2, <1>3, <1>4, <1>5, <1>8 DEF UpTo, Committed
<1>10. ASSUME NEW h \in lost PROVE LostOK(h)'
  <2>1. LostOK(h)
    BY DEF ServerInv
  <2>2. n \notin h
    BY <2>1, <1>3, <1>4 DEF LostOK
  <2>3. Agree(h, rs'.log)
    <3>1. SUFFICES ASSUME NEW e \in h \cap rs'.log PROVE UpTo(h, e.ts) = UpTo(rs'.log, e.ts)
      BY DEF Agree
    <3>2. e \in h \cap rs.log
      BY <2>2, <1>5
    <3>3. e.ts < n.ts /\ e.ts \in Nat /\ n.ts \in Nat
      BY <3>2, <1>5, <1>4, <1>3
    <3>4. UpTo(rs'.log, e.ts) = UpTo(rs.log, e.ts)
      BY <3>3, <1>5 DEF UpTo
    <3> QED
      BY <3>2, <3>4, <2>1 DEF LostOK, Agree
  <2>4. h \cap rs'.log \subseteq UpTo(rs'.log, rs'.commit)
    BY <2>1, <2>2, <1>5, <1>9 DEF LostOK
  <2>5. \A e \in rs'.log \ h, f \in h : Older(f, e)
    BY <2>1, <1>3, <1>5 DEF LostOK, Older
  <2> QED
    BY <2>1, <2>3, <2>4, <2>5, <1>2 DEF LostOK, Committed
<1>11. (\A g, h \in lost : Agree(g, h)) /\ rs.stale \subseteq lost /\ rs.oldest <= rs.commit
  BY DEF ServerInv
<1> QED
  BY <1>2, <1>6, <1>7, <1>10, <1>11 DEF ServerInv

\* Committing keeps the agreement of the oplogs.
LEMMA CommitWritesInv ==
  ASSUME Types, ServerInv, CommitWrites
  PROVE  /\ ServerInv' /\ rs' \in Servers /\ lost' = lost /\ events' = events
         /\ rs'.log = rs.log /\ rs'.term = rs.term /\ rs'.oldest = rs.oldest /\ rs'.set = rs.set
         /\ rs.commit < rs'.commit /\ rs'.commit \in Nat
<1>1. PICK e \in rs.log : e.ts > rs.commit /\ rs' = [rs EXCEPT !.commit = e.ts]
  BY DEF CommitWrites
<1>2. e \in Entries /\ e.ts \in Nat /\ e.ts \in Positions
  BY ServerTypes, EntryTypes
<1>3. /\ rs'.log = rs.log /\ rs'.term = rs.term /\ rs'.oldest = rs.oldest /\ rs'.set = rs.set
      /\ rs'.stale = rs.stale /\ rs'.commit = e.ts /\ rs' \in Servers
  BY <1>1, <1>2 DEF Types, Servers
<1>4. lost' = lost /\ events' = events
  BY DEF CommitWrites
<1>5. Committed \subseteq Committed'
  BY <1>1, <1>2, <1>3, ServerTypes, EntryTypes DEF Committed, UpTo
<1>6. \A h \in lost : LostOK(h)'
  BY <1>3, <1>5 DEF ServerInv, LostOK
<1>7. rs'.oldest <= rs'.commit
  BY <1>1, <1>2, <1>3, ServerTypes DEF ServerInv
<1>8. ServerInv'
  BY <1>1, <1>3, <1>4, <1>6, <1>7 DEF ServerInv
<1> QED
  BY <1>1, <1>2, <1>3, <1>4, <1>8

\* An election keeps the agreement of the oplogs, and what is committed.
LEMMA ElectInv ==
  ASSUME Types, ServerInv, Elect
  PROVE  /\ ServerInv' /\ rs' \in Servers /\ lost' = lost /\ events' = events + 1 /\ events < MaxEvents
         /\ rs'.term = rs.term + 1 /\ rs'.oldest = rs.oldest /\ rs'.set = rs.set
         /\ rs'.commit = rs.commit /\ Committed' = Committed /\ rs'.log \subseteq rs.log
<1>1. PICK e \in Since(rs.log, rs.commit) : rs' = [rs EXCEPT !.term = @ + 1, !.log = UpTo(@, e.ts)]
  BY DEF Elect
<1>2. e \in rs.log /\ e.ts >= rs.commit /\ e \in Entries /\ e.ts \in Nat
  BY ServerTypes, EntryTypes DEF Since
<1>3. /\ rs'.log = UpTo(rs.log, e.ts) /\ rs'.term = rs.term + 1 /\ rs'.oldest = rs.oldest /\ rs'.set = rs.set
      /\ rs'.stale = rs.stale /\ rs'.commit = rs.commit
  BY <1>1 DEF Types, Servers
<1>4. rs' \in Servers
  <2>1. UpTo(rs.log, e.ts) \in SUBSET Entries /\ rs.term + 1 \in Nat
    BY ServerTypes DEF UpTo
  <2> QED
    BY <1>1, <2>1 DEF Types, Servers
<1>5. lost' = lost /\ events' = events + 1 /\ events < MaxEvents
  BY DEF Elect, Happens
<1>6. rs'.log \subseteq rs.log /\ \A x \in rs.log : x.ts <= rs.commit => x \in rs'.log
  BY <1>2, <1>3, ServerTypes, EntryTypes DEF UpTo
<1>7. Committed' = Committed
  BY <1>3, <1>6 DEF Committed, UpTo
<1>8. ASSUME NEW h \in lost PROVE LostOK(h)'
  <2>1. LostOK(h)
    BY DEF ServerInv
  <2>2. Agree(h, rs'.log)
    BY <2>1, <1>2, <1>3, ServerTypes, UpToOK DEF LostOK, ServerInv
  <2>3. \A f \in h : f.set <= rs'.set /\ (f.set < rs'.set \/ f.term < rs'.term)
    BY <2>1, <1>3, ServerTypes, EntryTypes DEF LostOK
  <2> QED
    BY <2>1, <2>2, <2>3, <1>6, <1>7 DEF LostOK
<1>9. LogOK(rs'.log) /\ \A x \in rs'.log : x.set = rs'.set /\ x.term <= rs'.term
  BY <1>3, <1>6, ServerTypes, EntryTypes DEF ServerInv, LogOK
<1>10. (\E x \in rs'.log : x.ts = rs'.commit) /\ (\E x \in rs'.log : x.ts = rs'.oldest)
  BY <1>3, <1>6, ServerTypes, EntryTypes DEF ServerInv
<1>11. ServerInv'
  BY <1>3, <1>5, <1>8, <1>9, <1>10 DEF ServerInv
<1> QED
  BY <1>3, <1>4, <1>5, <1>6, <1>7, <1>11

\* Truncation keeps the oplogs.
LEMMA TruncateInv ==
  ASSUME Types, ServerInv, Truncate
  PROVE  /\ ServerInv' /\ rs' \in Servers /\ lost' = lost /\ events' = events + 1 /\ events < MaxEvents
         /\ rs'.term = rs.term /\ rs'.set = rs.set /\ rs'.commit = rs.commit /\ rs'.log = rs.log
         /\ rs.oldest < rs'.oldest /\ Committed' = Committed
<1>1. PICK e \in Committed : e.ts > rs.oldest /\ rs' = [rs EXCEPT !.oldest = e.ts]
  BY DEF Truncate
<1>2. e \in rs.log /\ e.ts <= rs.commit /\ e \in Entries /\ e.ts \in Nat /\ e.ts \in Positions
  BY ServerTypes, EntryTypes DEF Committed, UpTo
<1>3. /\ rs'.log = rs.log /\ rs'.term = rs.term /\ rs'.commit = rs.commit /\ rs'.set = rs.set
      /\ rs'.stale = rs.stale /\ rs'.oldest = e.ts /\ rs' \in Servers
  BY <1>1, <1>2 DEF Types, Servers
<1>4. lost' = lost /\ events' = events + 1 /\ events < MaxEvents
  BY DEF Truncate, Happens
<1>5. Committed' = Committed
  BY <1>3 DEF Committed
<1>6. \A h \in lost : LostOK(h)'
  BY <1>3, <1>5 DEF ServerInv, LostOK
<1>7. ServerInv'
  BY <1>2, <1>3, <1>4, <1>6 DEF ServerInv
<1> QED
  BY <1>1, <1>2, <1>3, <1>4, <1>5, <1>7, ServerTypes

\* A loss of committed entries keeps the agreement of the oplogs.
LEMMA LoseCommittedInv ==
  ASSUME Types, ServerInv, LoseCommitted
  PROVE  /\ ServerInv' /\ rs' \in Servers /\ lost = {} /\ lost' = {Committed} /\ events' = events + 1 /\ events < MaxEvents
         /\ rs'.term = rs.term + 1 /\ rs'.set = rs.set /\ rs'.oldest = rs.oldest
         /\ Committed' \subseteq Committed
<1>1. PICK e \in Committed :
        /\ rs.oldest <= e.ts /\ e.ts < rs.commit
        /\ rs' = [rs EXCEPT !.term = @ + 1, !.log = UpTo(@, e.ts), !.commit = e.ts, !.stale = @ \cup {Committed}]
  BY DEF LoseCommitted
<1>2. e \in rs.log /\ e.ts <= rs.commit /\ e \in Entries /\ e.ts \in Nat /\ e.ts \in Positions
  BY ServerTypes, EntryTypes DEF Committed, UpTo
<1>3. /\ rs'.log = UpTo(rs.log, e.ts) /\ rs'.term = rs.term + 1 /\ rs'.commit = e.ts /\ rs'.set = rs.set
      /\ rs'.stale = rs.stale \cup {Committed} /\ rs'.oldest = rs.oldest
  BY <1>1, <1>2 DEF Types, Servers
<1>4. rs' \in Servers
  <2>1. UpTo(rs.log, e.ts) \in SUBSET Entries /\ rs.term + 1 \in Nat /\ Committed \in SUBSET Entries
    BY ServerTypes DEF UpTo
  <2> QED
    BY <1>1, <1>2, <2>1 DEF Types, Servers
<1>5. lost = {} /\ lost' = {Committed} /\ events' = events + 1 /\ events < MaxEvents
  BY DEF LoseCommitted, Happens
<1>6. Committed' = rs'.log /\ rs'.log = UpTo(Committed, e.ts) /\ rs'.log \subseteq Committed
  BY <1>2, <1>3, ServerTypes, EntryTypes DEF Committed, UpTo
<1>7. LogOK(Committed) /\ LogOK(rs'.log)
  BY <1>6 DEF ServerInv, LogOK, Committed, UpTo
<1>8. Agree(Committed, rs'.log)
  BY <1>2, <1>6, <1>7, ServerTypes, UpToOK DEF Agree
<1>9. \A f \in Committed : f.term < rs'.term /\ f.set = rs.set
  BY <1>3, ServerTypes, EntryTypes DEF ServerInv, Committed, UpTo
<1>10. ASSUME NEW h \in lost' PROVE LostOK(h)'
  <2>1. h = Committed
    BY <1>5
  <2>2. h \cap rs'.log \subseteq Committed' /\ rs'.log \ h = {}
    BY <1>6, <2>1
  <2>3. LogOK(h) /\ Agree(h, rs'.log) /\ \A f \in h : f.set <= rs'.set /\ (f.set < rs'.set \/ f.term < rs'.term)
    BY <1>3, <1>7, <1>8, <1>9, <2>1, ServerTypes
  <2> QED
    BY <2>2, <2>3 DEF LostOK
<1>11. \A g, h \in lost' : Agree(g, h)
  BY <1>5 DEF Agree
<1>12. \A x \in rs'.log : x.set = rs'.set /\ x.term <= rs'.term
  BY <1>3, <1>6, <1>9, ServerTypes, EntryTypes
<1>13. (\E x \in rs'.log : x.ts = rs'.commit) /\ (\E x \in rs'.log : x.ts = rs'.oldest)
  BY <1>1, <1>2, <1>3, ServerTypes, EntryTypes DEF ServerInv, UpTo
<1>14. rs'.stale \subseteq lost' /\ rs'.oldest <= rs'.commit
  BY <1>1, <1>3, <1>5 DEF ServerInv
<1>15. ServerInv'
  BY <1>7, <1>10, <1>11, <1>12, <1>13, <1>14 DEF ServerInv
<1> QED
  BY <1>3, <1>4, <1>5, <1>6, <1>15

\* A member that rolls back shows one lost oplog less.
LEMMA RollBackInv ==
  ASSUME Types, ServerInv, RollBack
  PROVE  /\ ServerInv' /\ rs' \in Servers /\ lost' = lost /\ events' = events
         /\ rs'.term = rs.term /\ rs'.set = rs.set /\ rs'.commit = rs.commit /\ rs'.log = rs.log
         /\ rs'.oldest = rs.oldest
<1>1. PICK h \in rs.stale : rs' = [rs EXCEPT !.stale = @ \ {h}]
  BY DEF RollBack
<1>2. /\ rs'.log = rs.log /\ rs'.term = rs.term /\ rs'.commit = rs.commit /\ rs'.set = rs.set
      /\ rs'.stale \subseteq rs.stale /\ rs'.oldest = rs.oldest /\ rs' \in Servers
  BY <1>1 DEF Types, Servers
<1>3. lost' = lost /\ events' = events
  BY DEF RollBack
<1>4. \A g \in lost : LostOK(g)'
  BY <1>2 DEF ServerInv, LostOK, Committed
<1>5. ServerInv'
  BY <1>2, <1>3, <1>4 DEF ServerInv
<1> QED
  BY <1>2, <1>3, <1>5

\* The oplog of another replica set has nothing in common with what was there before.
LEMMA ReplaceSetInv ==
  ASSUME Types, ServerInv, ReplaceSet
  PROVE  /\ ServerInv' /\ rs' \in Servers /\ lost' = lost \cup {Committed} /\ events' = events + 1 /\ events < MaxEvents
         /\ rs'.term = 1
         /\ \A h \in Histories : h \cap rs'.log = {}
<1>1. PICK ts \in {1, MaxTS} :
         rs' = [set |-> rs.set + 1, log |-> {Entry(ts, 1, rs.set + 1)}, term |-> 1, commit |-> ts, oldest |-> ts, stale |-> {}]
  BY DEF ReplaceSet
<1>2. rs.set = 1 /\ lost' = lost \cup {Committed} /\ events' = events + 1 /\ events < MaxEvents
  BY DEF ReplaceSet, Happens
<1> DEFINE n == Entry(ts, 1, 2)
<1>3. /\ rs'.set = 2 /\ rs'.log = {n} /\ rs'.term = 1 /\ rs'.commit = ts /\ rs'.oldest = ts /\ rs'.stale = {}
      /\ ts \in Positions
  BY <1>1, <1>2, OplogAssumption DEF Positions
<1>4. n \in Entries /\ n.ts = ts /\ n.term = 1 /\ n.set = 2
  BY <1>3, OplogAssumption DEF Entry, Entries, Positions
<1>5. rs' \in Servers
  BY <1>1, <1>2, <1>3, <1>4, OplogAssumption DEF Servers
<1> HIDE DEF n
<1>6. \A h \in lost' : \A f \in h : f.set < 2 /\ f \in Entries
  <2>1. \A f \in Committed : f.set < 2 /\ f \in Entries
    BY <1>2, ServerTypes DEF ServerInv, Committed, UpTo
  <2>2. ASSUME NEW h \in lost, NEW f \in h PROVE f.set < 2 /\ f \in Entries
    <3>1. f.set <= 1
      BY <1>2, <2>2 DEF ServerInv, LostOK
    <3> QED
      BY <2>2, <3>1, ServerTypes, EntryTypes
  <2> QED
    BY <1>2, <2>1, <2>2
<1>7. \A h \in lost' : h \cap rs'.log = {}
  BY <1>3, <1>4, <1>6
<1>8. LogOK(Committed) /\ \A g \in lost : LogOK(g) /\ Agree(g, Committed) /\ Agree(Committed, g)
  BY ServerTypes, UpToOK DEF ServerInv, LostOK, Committed
<1>9. \A h \in lost' : LogOK(h)
  BY <1>2, <1>8
<1>10. \A g, h \in lost' : Agree(g, h)
  <2>1. Agree(Committed, Committed) /\ \A g, h \in lost : Agree(g, h)
    BY DEF Agree, ServerInv
  <2> QED
    BY <1>2, <1>8, <2>1
<1>11. ASSUME NEW h \in lost' PROVE LostOK(h)'
  <2>1. Agree(h, rs'.log) /\ h \cap rs'.log \subseteq Committed'
    BY <1>7 DEF Agree
  <2>2. (\A f \in h : f.set <= rs'.set /\ (f.set < rs'.set \/ f.term < rs'.term)) /\ (\A x \in rs'.log \ h, f \in h : Older(f, x))
    BY <1>3, <1>4, <1>6, EntryTypes DEF Older
  <2> QED
    BY <1>9, <2>1, <2>2 DEF LostOK
<1>12. LogOK(rs'.log) /\ \A x \in rs'.log : x.set = rs'.set /\ x.term <= rs'.term
  BY <1>3, <1>4 DEF LogOK
<1>13. (\E x \in rs'.log : x.ts = rs'.commit) /\ (\E x \in rs'.log : x.ts = rs'.oldest) /\ rs'.oldest <= rs'.commit
  BY <1>3, <1>4 DEF Positions
<1>14. ServerInv'
  BY <1>3, <1>10, <1>11, <1>12, <1>13 DEF ServerInv
<1>15. \A h \in Histories : h \cap rs'.log = {}
  BY <1>2, <1>7 DEF Histories
<1> QED
  BY <1>2, <1>3, <1>5, <1>14, <1>15

\* A step of the replica set keeps the agreement of the oplogs, and the types.
LEMMA ServerStep ==
  ASSUME Types, ServerInv, Server
  PROVE  ServerInv' /\ rs' \in Servers /\ (lost \subseteq SUBSET Entries)' /\ events' \in 0..MaxEvents /\ rs'.term \in 1..(events' + 1)
<1>0. /\ rs \in Servers /\ lost \subseteq SUBSET Entries /\ events \in 0..MaxEvents /\ rs.term \in 1..(events + 1) /\ MaxEvents \in Nat
      /\ Committed \in SUBSET Entries
  BY OplogAssumption, ServerTypes DEF Types
<1>1. CASE Write
  BY <1>0, <1>1, WriteEffect, WriteInv
<1>2. CASE CommitWrites
  BY <1>0, <1>2, CommitWritesInv
<1>3. CASE Elect
  BY <1>0, <1>3, ElectInv
<1>4. CASE Truncate
  BY <1>0, <1>4, TruncateInv
<1>5. CASE LoseCommitted
  BY <1>0, <1>5, LoseCommittedInv
<1>6. CASE RollBack
  BY <1>0, <1>6, RollBackInv
<1>7. CASE ReplaceSet
  BY <1>0, <1>7, ReplaceSetInv
<1> QED
  BY <1>1, <1>2, <1>3, <1>4, <1>5, <1>6, <1>7 DEF Server

\* History g goes on where history h ends.
Extends(g, h) == h \subseteq g /\ \A e \in h : \A f \in g : f.ts <= e.ts => f \in h

\* Every history is still one, or the beginning of one.
LEMMA HistoriesStep ==
  ASSUME Types, ServerInv, Server
  PROVE  \A h \in Histories : \E g \in Histories' : Extends(g, h)
<1>0. \A h : Extends(h, h)
  BY DEF Extends
<1>1. CASE Committed' = Committed /\ lost' = lost
  BY <1>0, <1>1 DEF Histories
<1>2. CASE lost' = lost \cup {Committed}
  BY <1>0, <1>2 DEF Histories
<1>3. CASE CommitWrites
  <2>1. lost' = lost /\ rs'.log = rs.log /\ rs.commit < rs'.commit /\ rs'.commit \in Nat
    BY <1>3, CommitWritesInv
  <2>2. Extends(Committed', Committed)
    BY <2>1, ServerTypes, EntryTypes DEF Extends, Committed, UpTo
  <2> QED
    BY <1>0, <2>1, <2>2 DEF Histories
<1>4. ASSUME Write PROVE Committed' = Committed /\ lost' = lost
  <2>1. PICK ts \in Positions : rs'.log = rs.log \cup {Entry(ts, rs.term, rs.set)} /\ \A f \in rs.log : f.ts < ts
    BY <1>4, WriteEffect
  <2>2. lost' = lost /\ rs'.commit = rs.commit
    BY <1>4, WriteEffect
  <2>3. rs.commit < ts /\ ts \in Nat /\ Entry(ts, rs.term, rs.set).ts = ts
    BY <2>1, OplogAssumption DEF ServerInv, Entry, Positions
  <2>4. ~(ts <= rs.commit)
    BY <2>3, ServerTypes
  <2> QED
    BY <2>1, <2>2, <2>3, <2>4 DEF Committed, UpTo
<1>5. ASSUME Elect PROVE Committed' = Committed /\ lost' = lost
  BY <1>5, ElectInv
<1>6. ASSUME Truncate PROVE Committed' = Committed /\ lost' = lost
  BY <1>6, TruncateInv
<1>7. ASSUME RollBack PROVE Committed' = Committed /\ lost' = lost
  BY <1>7, RollBackInv DEF Committed
<1>8. ASSUME LoseCommitted \/ ReplaceSet PROVE lost' = lost \cup {Committed}
  BY <1>8 DEF LoseCommitted, ReplaceSet
<1> QED
  BY <1>1, <1>2, <1>3, <1>4, <1>5, <1>6, <1>7, <1>8 DEF Server

\* An entry of a history that the replica set no longer has never comes back.
LEMMA HeldStep ==
  ASSUME Types, ServerInv, Server, NEW h \in Histories, NEW e \in h, e \in Held'
  PROVE  e \in Held
<1>0. h \in SUBSET Entries /\ e \in Entries /\ e.ts \in Nat
  BY ServerTypes, EntryTypes
<1>1. e \in rs'.log /\ e.ts <= rs'.commit /\ rs'.oldest <= e.ts
  BY <1>0, ServerStep DEF Held, Since, Committed, UpTo, Servers, Positions
<1>2. ASSUME rs'.oldest = rs.oldest \/ rs.oldest < rs'.oldest, e \in Committed PROVE e \in Held
  <2>1. rs.oldest <= e.ts
    BY <1>0, <1>1, <1>2, ServerTypes, ServerStep, OplogAssumption DEF Servers, Positions
  <2> QED
    BY <1>0, <1>2, <2>1, ServerTypes DEF Held, Since
<1>3. h \in lost /\ e \in rs.log => e \in Committed
  BY DEF ServerInv, LostOK
<1>4. h \notin lost => e \in Committed
  BY DEF Histories
<1>5. CASE Write
  <2>1. PICK ts \in Positions : rs'.log = rs.log \cup {Entry(ts, rs.term, rs.set)} /\ \A f \in rs.log : f.ts < ts
    BY <1>5, WriteEffect
  <2>2. rs'.commit = rs.commit /\ rs'.oldest = rs.oldest
    BY <1>5, WriteEffect
  <2>3. rs.commit < ts /\ ts \in Nat /\ Entry(ts, rs.term, rs.set).ts = ts
    BY <2>1, OplogAssumption DEF ServerInv, Entry, Positions
  <2>4. e \in rs.log
    BY <1>1, <2>1, <2>2, <2>3, ServerTypes
  <2> QED
    BY <1>2, <1>3, <1>4, <2>2, <2>4
<1>6. CASE CommitWrites
  BY <1>1, <1>2, <1>3, <1>4, <1>6, CommitWritesInv
<1>7. CASE Elect
  BY <1>1, <1>2, <1>3, <1>4, <1>7, ElectInv
<1>8. CASE Truncate
  BY <1>1, <1>2, <1>3, <1>4, <1>8, TruncateInv
<1>9. CASE RollBack
  BY <1>1, <1>2, <1>3, <1>4, <1>9, RollBackInv
<1>10. CASE LoseCommitted
  <2>1. e \in Committed'
    BY DEF Held, Since
  <2> QED
    BY <1>2, <1>10, <2>1, LoseCommittedInv
<1>11. CASE ReplaceSet
  BY <1>1, <1>11, ReplaceSetInv
<1> QED
  BY <1>5, <1>6, <1>7, <1>8, <1>9, <1>10, <1>11 DEF Server

\* Two histories that share an entry are the same up to it.
LEMMA HistoriesAgree ==
  ASSUME Types, ServerInv, NEW g \in Histories, NEW h \in Histories
  PROVE  LogOK(g) /\ Agree(g, h)
<1>1. LogOK(Committed) /\ \A x \in lost : LogOK(x) /\ Agree(x, Committed) /\ Agree(Committed, x)
  BY ServerTypes, UpToOK DEF ServerInv, LostOK, Committed
<1>2. Agree(Committed, Committed)
  BY DEF Agree
<1> QED
  BY <1>1, <1>2 DEF Histories, ServerInv

-----------------------------------------------------------------------------
(* What a reader of the oplog sees. *)

Views == PrimaryViews \cup SecondaryViews
Convex(log, g) == log \subseteq g /\ \A a, b \in log : \A x \in g : a.ts <= x.ts /\ x.ts <= b.ts => x \in log

\* What a member shows: a stretch of an oplog, with the majority optime at an entry of it,
\* up to which it is a history's.
ViewOK(v) ==
    /\ v.log \in SUBSET Entries /\ v.log # {} /\ v.set = rs.set /\ v.kind \in {"primary", "secondary"}
    /\ \E m \in v.log : m.ts = v.majority
    /\ \E h \in Histories : UpTo(v.log, v.majority) \subseteq h
    /\ \E g \in lost \cup {rs.log} : Convex(v.log, g)

\* The primary shows the oplog from its oldest entry on.
LEMMA PrimaryOK ==
  ASSUME Types, ServerInv, NEW v \in PrimaryViews
  PROVE  /\ ViewOK(v) /\ v.log = Since(rs.log, rs.oldest)
         /\ PrimaryLags = FALSE => v.majority = rs.commit
<1>1. PICK c \in Majorities :
        v = [kind |-> "primary", set |-> rs.set, log |-> Since(rs.log, rs.oldest), majority |-> c]
  BY DEF PrimaryViews
<1>2. v.kind = "primary" /\ v.set = rs.set /\ v.log = Since(rs.log, rs.oldest) /\ v.majority = c
  BY <1>1
<1>3. PrimaryLags = FALSE => c = rs.commit
  BY <1>1 DEF Majorities
<1>4. PICK m \in Since(Committed, rs.oldest) : m.ts = c
  <2>1. CASE PrimaryLags
    BY <1>1, <2>1 DEF Majorities
  <2>2. CASE ~PrimaryLags
    <3>1. PICK x \in rs.log : x.ts = rs.commit
      BY DEF ServerInv
    <3>2. x \in Since(Committed, rs.oldest)
      BY <3>1, ServerTypes DEF ServerInv, Since, Committed, UpTo
    <3> QED
      BY <1>1, <2>2, <3>1, <3>2 DEF Majorities
  <2> QED
    BY <2>1, <2>2
<1>5. m \in v.log /\ m.ts <= rs.commit /\ m \in Entries /\ m.ts \in Nat
  BY <1>2, <1>4, ServerTypes, EntryTypes DEF Since, Committed, UpTo
<1>6. v.log \in SUBSET Entries /\ v.log \subseteq rs.log
  BY <1>2, ServerTypes DEF Since
<1>7. UpTo(v.log, v.majority) \subseteq Committed
  BY <1>2, <1>4, <1>5, <1>6, ServerTypes, EntryTypes DEF UpTo, Committed
<1>8. Convex(v.log, rs.log)
  BY <1>2, <1>6, ServerTypes, EntryTypes DEF Convex, Since
<1>9. Committed \in Histories
  BY DEF Histories
<1> QED
  BY <1>2, <1>3, <1>4, <1>5, <1>6, <1>7, <1>8, <1>9 DEF ViewOK

\* A secondary shows a stretch of the oplog, or of a lost one.
LEMMA SecondaryOK ==
  ASSUME Types, ServerInv, NEW v \in SecondaryViews
  PROVE  ViewOK(v)
<1>1. PICK r \in Replicated : v \in Shown(r[1], r[2])
  BY DEF SecondaryViews
<1> DEFINE log == r[1]
           commit == r[2]
<1>2. /\ log \in SUBSET Entries /\ log \in lost \cup {rs.log} /\ commit \in Nat
      /\ \E h \in Histories : UpTo(log, commit) \subseteq h
  <2>1. CASE r = <<rs.log, rs.commit>>
    BY <2>1, ServerTypes DEF Histories, Committed
  <2>2. ASSUME NEW h \in rs.stale, r = <<h, MaxTS>> PROVE <1>2!:
    <3>1. h \in lost /\ r[1] = h /\ r[2] = MaxTS
      BY <2>2 DEF ServerInv
    <3>2. UpTo(h, MaxTS) \subseteq h
      BY DEF UpTo
    <3> QED
      BY <3>1, <3>2, ServerTypes, OplogAssumption DEF Histories
  <2> QED
    BY <1>1, <2>1, <2>2 DEF Replicated
<1>3. PICK t \in log \X log \X log :
         /\ t[1].ts <= t[2].ts /\ t[2].ts <= t[3].ts /\ t[2].ts <= commit
         /\ v = [kind |-> "secondary", set |-> rs.set, log |-> {e \in log : t[1].ts <= e.ts /\ e.ts <= t[3].ts}, majority |-> t[2].ts]
  BY <1>1 DEF Shown
<1> HIDE DEF log, commit
<1>4. PICK a \in log, m \in log, b \in log : t = <<a, m, b>>
  BY <1>3
<1>5. /\ a.ts <= m.ts /\ m.ts <= b.ts /\ m.ts <= commit
      /\ v.kind = "secondary" /\ v.set = rs.set /\ v.log = {e \in log : a.ts <= e.ts /\ e.ts <= b.ts} /\ v.majority = m.ts
  BY <1>3, <1>4
<1>6. \A e \in log : e.ts \in Nat
  BY <1>2, EntryTypes
<1>7. m \in v.log /\ v.log \subseteq log
  BY <1>4, <1>5
<1>8. UpTo(v.log, v.majority) \subseteq UpTo(log, commit)
  BY <1>2, <1>4, <1>5, <1>6 DEF UpTo
<1>9. Convex(v.log, log)
  BY <1>4, <1>5, <1>6, <1>7 DEF Convex
<1> QED
  BY <1>2, <1>5, <1>7, <1>8, <1>9 DEF ViewOK

\* The members a tick uses show such views.
LEMMA TickViews ==
  ASSUME Types, ServerInv
  PROVE  /\ \A v \in PrimaryViews : ViewOK(v)
         /\ \A v \in Pin(state.last.ts) : ViewOK(v)
         /\ \A v \in Later : ViewOK(v) /\ At(v.log, w.to.ts) \subseteq {w.to}
<1>1. \A v \in PrimaryViews : ViewOK(v)
  BY PrimaryOK
<1>2. \A v \in SecondaryViews : ViewOK(v)
  BY SecondaryOK
<1> QED
  BY <1>1, <1>2 DEF Pin, Later

\* A stretch of an oplog from s to an entry t of a history is that history's stretch.
LEMMA ReadAgrees ==
  ASSUME Types, ServerInv, NEW v, ViewOK(v), NEW h \in Histories, NEW t \in h, t \in v.log,
         NEW s \in v.log, s.ts <= t.ts
  PROVE  /\ s \in h
         /\ \A e \in h : s.ts <= e.ts /\ e.ts <= t.ts => e \in v.log
         /\ \A e \in v.log : e.ts <= t.ts => e \in h
<1>1. PICK g \in lost \cup {rs.log} : Convex(v.log, g)
  BY DEF ViewOK
<1>2. g \in SUBSET Entries /\ h \in SUBSET Entries
  BY ServerTypes
<1>3. UpTo(g, t.ts) = UpTo(h, t.ts)
  <2>1. t \in g \cap h
    BY <1>1 DEF Convex
  <2>2. CASE g \in lost
    <3>1. g \in Histories
      BY <2>2 DEF Histories
    <3> QED
      BY <2>1, <3>1, HistoriesAgree DEF Agree
  <2>3. CASE g = rs.log /\ h \in lost
    BY <2>1, <2>3 DEF ServerInv, LostOK, Agree
  <2>4. CASE g = rs.log /\ h = Committed
    <3>1. Agree(Committed, rs.log)
      BY ServerTypes, UpToOK DEF ServerInv, Committed
    <3> QED
      BY <2>1, <2>4, <3>1 DEF Agree
  <2> QED
    BY <1>1, <2>2, <2>3, <2>4 DEF Histories
<1>4. \A e : e \in g /\ e.ts <= t.ts <=> e \in h /\ e.ts <= t.ts
  BY <1>3 DEF UpTo
<1> QED
  BY <1>1, <1>4 DEF Convex

-----------------------------------------------------------------------------
(* Steps of the replica set leave the repository and the worker right. *)

\* A chunk that is a stretch of a history is one of what that history becomes.
LEMMA StretchExtends ==
  ASSUME NEW g \in SUBSET Entries, NEW h \in SUBSET Entries, Extends(g, h), NEW k, Stretch(k, h)
  PROVE  Stretch(k, g)
BY DEF Extends, Stretch

LEMMA ServerLeaves ==
  ASSUME Server PROVE UNCHANGED <<chains, chunks, state, w, base, sup, enabled, pause>>
BY DEF Server, Write, CommitWrites, Elect, Truncate, LoseCommitted, RollBack, ReplaceSet, repo, control

LEMMA ServerKeeps ==
  ASSUME IInv, Server PROVE IInv'
<1> USE DEF IInv
<1>1. ServerInv' /\ UNCHANGED <<chains, chunks, state, w, sup, enabled>>
  BY ServerStep, ServerLeaves
<1>2. Types'
  BY <1>1, ServerStep DEF Types
<1>3. \A h \in Histories : h \in SUBSET Entries
  BY ServerTypes
<1>4. \A h \in Histories' : h \in SUBSET Entries
  BY ServerStep DEF Histories, Committed, UpTo, Servers
<1>5. \A h \in Histories : \E g \in Histories' : Extends(g, h)
  BY HistoriesStep
<1>6. OneHistory'
  <2>1. SUFFICES ASSUME NEW c \in 1..Len(chains)
                 PROVE  \E g \in Histories' : \A k \in ChunksOf(c) : Stretch(k, g)
    BY <1>1 DEF OneHistory, ChunksOf
  <2>2. PICK h \in Histories : \A k \in ChunksOf(c) : Stretch(k, h)
    BY DEF RepoInv, OneHistory
  <2>3. PICK g \in Histories' : Extends(g, h)
    BY <1>5
  <2> QED
    BY <1>3, <1>4, <2>2, <2>3, StretchExtends
<1>7. RepoInv'
  BY <1>1, <1>6 DEF RepoInv, ChainsInv, PositionInv, ChunksInv, ChunksOf, StartKept
<1>8. ReadInv'
  BY <1>1, <1>5 DEF WorkerInv, ReadInv, Extends
<1>9. GotInv'
  <2>1. SUFFICES ASSUME w.pc = "commit"
                 PROVE  \E g \in Histories' :
                          /\ w.to \in g /\ state.last \in g
                          /\ w.got = {e \in g : e.ts <= w.to.ts /\ (state.last.ts < e.ts \/ (w.inclusive /\ e.ts = state.last.ts))}
    BY <1>1 DEF GotInv
  <2>2. PICK h \in Histories :
          /\ w.to \in h /\ state.last \in h
          /\ w.got = {e \in h : e.ts <= w.to.ts /\ (state.last.ts < e.ts \/ (w.inclusive /\ e.ts = state.last.ts))}
    BY <2>1 DEF WorkerInv, GotInv
  <2>3. PICK g \in Histories' : Extends(g, h)
    BY <1>5
  <2> QED
    BY <2>2, <2>3 DEF Extends
<1>10. MemoryInv' /\ StepInv'
  BY <1>1 DEF WorkerInv, MemoryInv, StepInv, ChunksOf
<1> QED
  BY <1>1, <1>2, <1>7, <1>8, <1>9, <1>10 DEF WorkerInv

\* What was given up for a cause stays so.
LEMMA ServerKeepsCause ==
  ASSUME IInv, CauseInv, Server PROVE CauseInv'
<1> USE DEF IInv
<1>1. UNCHANGED <<chains, chunks, state, w>>
  BY ServerLeaves
<1>2. ASSUME NEW k \in chunks PROVE \E h \in Histories : k.last \in h
  <2>1. k.chain \in 1..Len(chains)
    BY DEF RepoInv, ChunksInv
  <2> QED
    BY <2>1 DEF RepoInv, OneHistory, ChunksOf, Stretch
<1>3. ASSUME NEW k \in chunks, k.last \notin Held PROVE k.last \notin Held'
  BY <1>2, <1>3, HeldStep
<1>4. ASSUME ChunksOf(state.chain) # {} PROVE \E k \in chunks : k.last = state.last
  <2>1. state.chain # 0
    BY <1>4 DEF RepoInv, ChunksInv, ChainsInv, ChunksOf
  <2> QED
    BY <1>4, <2>1 DEF RepoInv, PositionInv, ChunksOf
<1>5. ChunksOf(state.chain)' = ChunksOf(state.chain) /\ Live(state.chain)' = Live(state.chain) /\ Live(state.chain) \subseteq chunks
  BY <1>1 DEF ChunksOf, Live
<1>6. ASSUME ChunksOf(state.chain) # {}, state.last \notin Held PROVE state.last \notin Held'
  BY <1>3, <1>4, <1>6
<1> QED
  BY <1>1, <1>3, <1>5, <1>6 DEF CauseInv

-----------------------------------------------------------------------------
(* The worker between two ticks, and at the start of one. *)

\* What the replica set shows does not change in a step of the collector.
LEMMA ServerSame ==
  ASSUME UNCHANGED <<rs, lost>>
  PROVE  /\ ServerInv => ServerInv'
         /\ Histories' = Histories /\ Committed' = Committed /\ Held' = Held
<1>1. Histories' = Histories /\ Committed' = Committed /\ Held' = Held
  BY DEF Histories, Committed, Held
<1> QED
  BY <1>1 DEF ServerInv, LostOK

LEMMA NoEntryTypes ==
  NoEntry \in [ts : 0..MaxTS, term : 0..MaxEvents + 1, set : 0..2] /\ NoEntry.ts = 0
BY OplogAssumption DEF NoEntry, Entry

LEMMA EntriesAsOps == Entries \subseteq [ts : 0..MaxTS, term : 0..MaxEvents + 1, set : 0..2]
BY OplogAssumption DEF Entries

LEMMA DownFields ==
  /\ Down \in Workers /\ Down.pc = "idle" /\ ~Down.checked /\ ~Down.inclusive
  /\ \A n \in Nat : Fresh(n) \in Workers /\ Fresh(n).pc = "idle" /\ ~Fresh(n).checked /\ ~Fresh(n).inclusive
<1>1. Down \in Workers /\ Down.pc = "idle" /\ ~Down.checked /\ ~Down.inclusive
  BY NoEntryTypes DEF Down, Workers, PCs, Whys
<1>2. ASSUME NEW n \in Nat
      PROVE  Fresh(n) \in Workers /\ Fresh(n).pc = "idle" /\ ~Fresh(n).checked /\ ~Fresh(n).inclusive
  <2> DEFINE d == Down
  <2>1. d \in Workers /\ d.pc = "idle" /\ ~d.checked /\ ~d.inclusive /\ Fresh(n) = [d EXCEPT !.up = TRUE, !.version = n]
    BY <1>1 DEF Fresh
  <2> HIDE DEF d
  <2> QED
    BY <2>1 DEF Workers
<1> QED
  BY <1>1, <1>2

LEMMA IdleFields ==
  ASSUME NEW x \in Workers
  PROVE  /\ Idle(x) \in Workers /\ Idle(x).pc = "idle" /\ Idle(x).checked = x.checked /\ Idle(x).inclusive = x.inclusive
         /\ Idle(x).set = x.set /\ Idle(x).version = x.version
<1> DEFINE f == Fresh(x.version)
<1>1. x.version \in Nat /\ x.checked \in BOOLEAN /\ x.inclusive \in BOOLEAN /\ x.set \in 0..2
  BY DEF Workers
<1>2. f \in Workers /\ f.pc = "idle" /\ f.version = x.version
  BY <1>1, DownFields DEF Fresh, Down
<1>3. Idle(x) = [f EXCEPT !.checked = x.checked, !.inclusive = x.inclusive, !.set = x.set]
  BY DEF Idle
<1> HIDE DEF f
<1> QED
  BY <1>1, <1>2, <1>3 DEF Workers

LEMMA BeginFields ==
  ASSUME w \in Workers, NEW op \in Entries, NEW why \in Whys, NEW set \in 0..2, Begin(op, why, set)
  PROVE  /\ w' \in Workers /\ w'.pc = "start" /\ w'.op = op /\ w'.why = why
         /\ w'.checked = w.checked /\ w'.inclusive = w.inclusive
<1>1. w' = [Idle(w) EXCEPT !.set = set, !.pc = "start", !.op = op, !.why = why]
  BY DEF Begin
<1>2. Idle(w) \in Workers /\ Idle(w).checked = w.checked /\ Idle(w).inclusive = w.inclusive
  BY IdleFields
<1> DEFINE i == Idle(w)
<1> HIDE DEF i
<1>3. w' = [i EXCEPT !.set = set, !.pc = "start", !.op = op, !.why = why] /\ i \in Workers
      /\ i.checked = w.checked /\ i.inclusive = w.inclusive
  BY <1>1, <1>2 DEF i
<1>4. op \in [ts : 0..MaxTS, term : 0..MaxEvents + 1, set : 0..2]
  BY EntriesAsOps
<1> QED
  BY <1>3, <1>4 DEF Workers, PCs

\* The steps that neither add nor supersede a chunk nor start a chain.
RepoSame ==
    /\ chunks' = chunks /\ state'.chain = state.chain /\ state'.last = state.last /\ Len(chains') = Len(chains)
    /\ \A c \in 1..Len(chains) :
         /\ chains'[c].start = chains[c].start
         /\ chains'[c].reason = "open" => chains[c].reason = "open"

LEMMA RepoSameKeeps ==
  ASSUME Types, RepoInv, UNCHANGED <<rs, lost>>, RepoSame
  PROVE  RepoInv' /\ ChunksOf(state.chain)' = ChunksOf(state.chain)
<1>1. \A c : ChunksOf(c)' = ChunksOf(c)
  BY DEF RepoSame, ChunksOf
<1>2. state.chain = Len(chains) /\ Len(chains) \in Nat
  BY DEF Types, RepoInv, ChainsInv
<1>3. ChainsInv'
  BY DEF RepoInv, ChainsInv, RepoSame
<1>4. PositionInv'
  BY <1>1, <1>2 DEF RepoInv, PositionInv, RepoSame
<1>5. ASSUME NEW k \in chunks PROVE k.chain \in 1..Len(chains) /\ (StartKept(k) => StartKept(k)')
  <2>1. k.chain \in 1..Len(chains)
    BY DEF RepoInv, ChunksInv
  <2> QED
    BY <2>1, <1>1 DEF StartKept, RepoSame
<1>6. ChunksInv'
  BY <1>5 DEF RepoInv, ChunksInv, RepoSame
<1>7. OneHistory'
  BY <1>1, ServerSame DEF RepoInv, OneHistory, RepoSame
<1> QED
  BY <1>1, <1>3, <1>4, <1>6, <1>7 DEF RepoInv, RepoSame

\* A worker that goes idle, remembering what it did, is right.
LEMMA IdleKeeps ==
  ASSUME IInv, UNCHANGED <<rs, lost>>, RepoSame, w'.pc = "idle",
         \/ w'.checked = w.checked /\ w'.inclusive = w.inclusive
         \/ ~w'.checked /\ ~w'.inclusive
  PROVE  RepoInv' /\ ServerInv' /\ WorkerInv'
<1>1. RepoInv' /\ ServerInv' /\ ChunksOf(state.chain)' = ChunksOf(state.chain)
  BY RepoSameKeeps, ServerSame DEF IInv
<1>2. MemoryInv'
  BY <1>1 DEF IInv, WorkerInv, MemoryInv, RepoSame
<1> QED
  BY <1>1, <1>2 DEF WorkerInv, ReadInv, GotInv, StepInv

\* A worker that is about to start a chain is right.
LEMMA BeginKeeps ==
  ASSUME IInv, UNCHANGED <<rs, lost>>, RepoSame,
         NEW op \in Entries, NEW why \in Whys \ {"none"}, NEW set \in 0..2, Begin(op, why, set)
  PROVE  RepoInv' /\ ServerInv' /\ WorkerInv' /\ w' \in Workers
<1>1. RepoInv' /\ ServerInv' /\ ChunksOf(state.chain)' = ChunksOf(state.chain)
  BY RepoSameKeeps, ServerSame DEF IInv
<1>2. /\ w' \in Workers /\ w'.pc = "start" /\ w'.op = op /\ w'.why = why
      /\ w'.checked = w.checked /\ w'.inclusive = w.inclusive
  BY BeginFields DEF IInv, Types
<1>3. MemoryInv'
  BY <1>1, <1>2 DEF IInv, WorkerInv, MemoryInv, RepoSame
<1> QED
  BY <1>1, <1>2, <1>3 DEF WorkerInv, ReadInv, GotInv, StepInv

\* The end of the range is an entry of a history, at the position or after it.
LEMMA RangeEndOK ==
  ASSUME IInv, NEW v, ViewOK(v), state.chain # 0, state.last.ts <= v.majority
  PROVE  /\ RangeEnd(v) \in Entries /\ state.last.ts <= RangeEnd(v).ts
         /\ \E h \in Histories : RangeEnd(v) \in h
<1>1. PICK m \in v.log : m.ts = v.majority
  BY DEF ViewOK
<1>2. v.log \in SUBSET Entries /\ m.ts \in Nat /\ v.majority \in Nat
  BY <1>1, EntryTypes DEF ViewOK
<1>3. state.last.ts \in Nat /\ Interval \in Nat
  BY EntryTypes, OplogAssumption DEF IInv, RepoInv, ChainsInv
<1> DEFINE capped == Oldest(Since(v.log, state.last.ts + Interval))
<1>4. CASE v.majority - state.last.ts > Interval /\ capped.ts < v.majority
  <2>1. RangeEnd(v) = capped
    BY <1>4 DEF RangeEnd
  <2>2. m \in Since(v.log, state.last.ts + Interval)
    BY <1>1, <1>2, <1>3, <1>4 DEF Since
  <2>3. capped \in Since(v.log, state.last.ts + Interval)
    BY <1>2, <2>2, Extremes DEF Since
  <2>4. capped \in v.log /\ capped.ts >= state.last.ts + Interval
    BY <2>3 DEF Since
  <2> HIDE DEF capped
  <2>5. capped \in Entries /\ capped.ts \in Nat
    BY <1>2, <2>4, EntryTypes
  <2>6. capped \in UpTo(v.log, v.majority)
    BY <1>2, <1>4, <2>4, <2>5 DEF UpTo
  <2> QED
    BY <1>3, <2>1, <2>4, <2>5, <2>6 DEF ViewOK
<1>5. CASE ~(v.majority - state.last.ts > Interval /\ capped.ts < v.majority)
  <2>1. RangeEnd(v) = Newest(UpTo(v.log, v.majority))
    BY <1>5 DEF RangeEnd
  <2>2. m \in UpTo(v.log, v.majority) /\ UpTo(v.log, v.majority) \in SUBSET Entries
    BY <1>1, <1>2 DEF UpTo
  <2>3. RangeEnd(v) \in UpTo(v.log, v.majority) /\ m.ts <= RangeEnd(v).ts
    BY <2>1, <2>2, Extremes
  <2>4. RangeEnd(v) \in Entries /\ RangeEnd(v).ts \in Nat
    BY <2>2, <2>3, EntryTypes
  <2> QED
    BY <1>1, <1>2, <1>3, <2>3, <2>4 DEF ViewOK
<1> QED
  BY <1>4, <1>5

States == [chain : Nat, last : Entries \cup {NoEntry}, set : 0..2]

\* The start of a chain is kept by its first chunk: also where the worker restarted.
LEMMA StartCheckedOK ==
  ASSUME IInv, state.chain # 0
  PROVE  StartChecked <=> ChunksOf(state.chain) = {}
<1>1. ASSUME StartChecked, ChunksOf(state.chain) # {} PROVE FALSE
  <2>1. PICK k \in ChunksOf(state.chain) : k.last = state.last
    BY <1>1 DEF IInv, RepoInv, PositionInv
  <2>2. state.last.ts \in Nat
    BY EntryTypes DEF IInv, RepoInv, ChainsInv
  <2> QED
    BY <1>1, <2>1, <2>2 DEF StartChecked
<1>2. ASSUME ChunksOf(state.chain) = {} PROVE StartChecked
  BY <1>2 DEF IInv, RepoInv, PositionInv, StartChecked
<1> QED
  BY <1>1, <1>2

\* A tick that goes on reads a range of a history or goes idle.
LEMMA ProceedKeeps ==
  ASSUME IInv, UNCHANGED <<rs, lost>>, NEW v, ViewOK(v), state.chain # 0, Proceed(v)
  PROVE  RepoInv' /\ ServerInv' /\ WorkerInv' /\ w' \in Workers /\ state' \in States /\ chains' = chains /\ chunks' = chunks
         /\ w'.pc \in {"idle", "read"}
<1> DEFINE inclusive == IF w.checked THEN w.inclusive ELSE StartChecked
           seen == [w EXCEPT !.checked = TRUE, !.inclusive = inclusive, !.set = v.set]
           wait == \/ v.majority < state.last.ts
                   \/ (RangeEnd(v).ts = state.last.ts /\ ~inclusive /\ EmptyChunkExists)
<1>1. /\ w' = IF wait THEN Idle(seen)
              ELSE [Idle(seen) EXCEPT !.pc = "read", !.kind = v.kind, !.to = RangeEnd(v)]
      /\ state' = [state EXCEPT !.set = v.set]
      /\ UNCHANGED <<chains, chunks>>
  BY DEF Proceed
<1>2. w \in Workers /\ state \in States
  BY DEF IInv, Types, States
<1>3. v.set \in 0..2 /\ v.kind \in {"none", "primary", "secondary"}
  BY DEF ViewOK, IInv, Types, Servers
<1>4. inclusive \in BOOLEAN /\ (inclusive <=> ChunksOf(state.chain) = {})
  BY <1>2, StartCheckedOK DEF IInv, WorkerInv, MemoryInv, Workers, StartChecked
<1>5. ~wait => state.last.ts <= v.majority
  <2>1. state.last.ts \in Nat
    BY EntryTypes DEF IInv, RepoInv, ChainsInv
  <2>2. v.majority \in Nat
    BY EntryTypes DEF ViewOK
  <2> QED
    BY <2>1, <2>2
<1> HIDE DEF inclusive, wait
<1>6. seen \in Workers /\ seen.checked = TRUE /\ seen.inclusive = inclusive
  BY <1>2, <1>3, <1>4 DEF Workers
<1> HIDE DEF seen
<1> DEFINE i == Idle(seen)
<1>7. i \in Workers /\ i.pc = "idle" /\ i.checked = TRUE /\ i.inclusive = inclusive
  BY <1>6, IdleFields
<1>8. state' \in States /\ state'.chain = state.chain /\ state'.last = state.last
  BY <1>1, <1>2, <1>3 DEF States
<1>9. RepoSame
  BY <1>1, <1>8 DEF RepoSame
<1>10. RepoInv' /\ ServerInv' /\ ChunksOf(state.chain)' = ChunksOf(state.chain) /\ Histories' = Histories
  BY <1>9, RepoSameKeeps, ServerSame DEF IInv
<1>11. CASE wait
  <2>1. w' = i
    BY <1>1, <1>11
  <2> HIDE DEF i
  <2>2. MemoryInv'
    BY <1>4, <1>7, <1>8, <1>10, <2>1 DEF MemoryInv
  <2>3. WorkerInv'
    BY <1>7, <2>1, <2>2 DEF WorkerInv, ReadInv, GotInv, StepInv
  <2> QED
    BY <1>1, <1>7, <1>8, <1>10, <2>1, <2>3
<1>12. CASE ~wait
  <2>1. w' = [i EXCEPT !.pc = "read", !.kind = v.kind, !.to = RangeEnd(v)]
    BY <1>1, <1>12
  <2> HIDE DEF i
  <2>2. /\ RangeEnd(v) \in Entries /\ state.last.ts <= RangeEnd(v).ts
        /\ \E h \in Histories : RangeEnd(v) \in h
    BY <1>5, <1>12, RangeEndOK
  <2>3. /\ w' \in Workers /\ w'.pc = "read" /\ w'.to = RangeEnd(v) /\ w'.checked = TRUE /\ w'.inclusive = inclusive
    <3> DEFINE r == RangeEnd(v)
    <3>1. r \in Entries /\ w' = [i EXCEPT !.pc = "read", !.kind = v.kind, !.to = r]
      BY <2>1, <2>2
    <3> HIDE DEF r
    <3>2. w' \in Workers /\ w'.pc = "read" /\ w'.to = r /\ w'.checked = i.checked /\ w'.inclusive = i.inclusive
      BY <1>3, <1>7, <3>1 DEF Workers, PCs
    <3> QED
      BY <1>7, <3>2 DEF r
  <2>4. MemoryInv'
    BY <1>4, <1>8, <1>10, <2>3 DEF MemoryInv
  <2>5. ReadInv'
    BY <1>8, <1>10, <2>2, <2>3 DEF ReadInv
  <2>6. WorkerInv'
    BY <1>8, <2>3, <2>4, <2>5 DEF WorkerInv, GotInv, StepInv
  <2> QED
    BY <1>1, <1>8, <1>10, <2>3, <2>6
<1> QED
  BY <1>11, <1>12

\* The first half of a tick keeps the invariant.
LEMMA LookKeeps ==
  ASSUME IInv, NEW v \in Pin(state.last.ts), Look(v)
  PROVE  IInv'
<1>1. ViewOK(v)
  BY TickViews DEF IInv
<1>2. UNCHANGED <<rs, lost, base, sup, enabled, pause, events>>
  BY DEF Look, server, control
<1>3. w \in Workers /\ state \in States
  BY DEF IInv, Types, States
<1>4. v.log \in SUBSET Entries /\ v.log # {} /\ Oldest(v.log) \in Entries
  BY <1>1, Extremes DEF ViewOK
<1>5. Newest(UpTo(v.log, v.majority)) \in Entries
  <2>1. UpTo(v.log, v.majority) \in SUBSET Entries /\ UpTo(v.log, v.majority) # {}
    BY <1>1, EntryTypes DEF ViewOK, UpTo
  <2> QED
    BY <2>1, Extremes
<1>6. ASSUME RepoInv' /\ ServerInv' /\ WorkerInv' /\ w' \in Workers /\ state' \in States /\ chains' = chains /\ chunks' = chunks
      PROVE  IInv'
  BY <1>2, <1>6 DEF IInv, Types, States
<1>7. ASSUME UNCHANGED repo PROVE RepoSame /\ state' \in States /\ chains' = chains /\ chunks' = chunks
  BY <1>3, <1>7 DEF RepoSame, repo
<1>8. ASSUME NEW op \in Entries, NEW why \in Whys \ {"none"}, NEW set \in 0..2, Begin(op, why, set), UNCHANGED repo
      PROVE  IInv'
  BY <1>2, <1>6, <1>7, <1>8, BeginKeeps
<1>9. CASE state.chain = 0
  <2>1. Begin(Newest(UpTo(v.log, v.majority)), "new", 0) /\ UNCHANGED repo
    BY <1>9 DEF Look
  <2> QED
    BY <1>5, <1>8, <2>1 DEF Whys
<1>10. CASE state.chain # 0 /\ EndedChain
  <2> DEFINE c == chains[state.chain]
             there == At(v.log, c.end)
             op == CASE c.reason = "stopped" -> Newest(UpTo(v.log, v.majority))
                     [] c.reason = "diverged" /\ there # {} -> Newest(there)
                     [] OTHER -> Oldest(v.log)
  <2>1. Begin(op, "resume", state.set) /\ UNCHANGED repo
    BY <1>10 DEF Look, Resume
  <2>2. there # {} => Newest(there) \in Entries
    <3>1. there \in SUBSET Entries
      BY <1>4 DEF At
    <3> HIDE DEF there
    <3> QED
      BY <3>1, Extremes
  <2>3. op \in Entries
    BY <1>4, <1>5, <2>2
  <2>4. state.set \in 0..2
    BY <1>3 DEF States
  <2> HIDE DEF op
  <2> QED
    BY <1>8, <2>1, <2>3, <2>4 DEF Whys
<1> DEFINE known == IF w.checked THEN w.set ELSE state.set
           doubt == \/ RSChanged(known, v)
                    \/ Oldest(v.log).ts > state.last.ts
                    \/ (~w.checked /\ state.last \notin v.log)
<1>11. CASE state.chain # 0 /\ ~EndedChain /\ doubt
  <2>1. w' = [Idle(w) EXCEPT !.pc = "confirm", !.set = known] /\ UNCHANGED repo
    BY <1>11 DEF Look
  <2>2. known \in 0..2
    BY <1>3 DEF Workers, States
  <2> HIDE DEF known
  <2> DEFINE i == Idle(w)
  <2>3. i \in Workers /\ i.checked = w.checked /\ i.inclusive = w.inclusive
    BY <1>3, IdleFields
  <2> HIDE DEF i
  <2>4. w' = [i EXCEPT !.pc = "confirm", !.set = known]
    BY <2>1 DEF i
  <2>5. w' \in Workers /\ w'.pc = "confirm" /\ w'.checked = i.checked /\ w'.inclusive = i.inclusive
    BY <2>2, <2>3, <2>4 DEF Workers, PCs
  <2>6. RepoInv' /\ ServerInv' /\ ChunksOf(state.chain)' = ChunksOf(state.chain) /\ state' = state
    BY <1>2, <1>7, <2>1, RepoSameKeeps, ServerSame DEF IInv, repo
  <2>7. MemoryInv'
    BY <2>3, <2>5, <2>6 DEF IInv, WorkerInv, MemoryInv
  <2>8. WorkerInv'
    BY <1>11, <2>5, <2>6, <2>7 DEF WorkerInv, ReadInv, GotInv, StepInv
  <2> QED
    BY <1>6, <1>7, <2>1, <2>5, <2>6, <2>8
<1>12. CASE state.chain # 0 /\ ~EndedChain /\ ~doubt
  <2>1. Proceed(v)
    BY <1>12 DEF Look
  <2> QED
    BY <1>1, <1>2, <1>6, <1>12, <2>1, ProceedKeeps
<1> QED
  BY <1>9, <1>10, <1>11, <1>12

-----------------------------------------------------------------------------
(* The steps in which a chain ends and the next one starts. *)

Good(v) == {k \in Live(state.chain) : k.last.ts < Oldest(v.log).ts \/ k.last \in UpTo(v.log, v.majority)}

\* The chain is kept up to its start or to the last good chunk.
LEMMA DivergenceOK ==
  ASSUME IInv, state.chain # 0, NEW v
  PROVE  /\ DivergencePoint(v) \in Positions /\ chains[state.chain].start <= DivergencePoint(v)
         /\ \A k \in Good(v) : k.last.ts <= DivergencePoint(v)
<1>0. state.chain \in 1..Len(chains) /\ chains[state.chain].start \in Positions
  <2>1. state.chain \in 1..Len(chains)
    BY DEF IInv, Types, RepoInv, ChainsInv
  <2>2. chains[state.chain] \in ChainRows
    BY <2>1 DEF IInv, Types
  <2> QED
    BY <2>1, <2>2 DEF ChainRows
<1>1. CASE Good(v) = {}
  <2>1. DivergencePoint(v) = chains[state.chain].start
    BY <1>1 DEF DivergencePoint, Good
  <2> QED
    BY <1>0, <1>1, <2>1 DEF Positions
<1>2. CASE Good(v) # {}
  <2> DEFINE E == {k.last : k \in Good(v)}
             S == {k.last.ts : k \in Good(v)}
  <2>1. DivergencePoint(v) = CHOOSE ts \in S : \A k \in Good(v) : k.last.ts <= ts
    BY <1>2 DEF DivergencePoint, Good
  <2>2. E \in SUBSET Entries /\ E # {}
    BY <1>2 DEF Good, Live, ChunksOf, IInv, Types, ChunkRows
  <2>3. PICK e \in E : \A f \in E : f.ts <= e.ts
    <3> HIDE DEF E
    <3> QED
      BY <2>2, Extremes
  <2>4. e.ts \in S /\ \A k \in Good(v) : k.last.ts <= e.ts
    BY <2>3
  <2>5. DivergencePoint(v) \in S /\ \A k \in Good(v) : k.last.ts <= DivergencePoint(v)
    BY <2>1, <2>4
  <2>6. PICK k \in Good(v) : DivergencePoint(v) = k.last.ts
    BY <2>5
  <2>7. k \in chunks /\ k \in ChunkRows /\ k.chain = state.chain
    BY DEF Good, Live, ChunksOf, IInv, Types
  <2>8. chains[state.chain].start <= k.from /\ k.from <= k.last.ts
    BY <2>7 DEF IInv, RepoInv, ChunksInv
  <2>9. k.last.ts \in Positions /\ k.from \in Nat
    BY <2>7, EntryTypes, OplogAssumption DEF ChunkRows, Positions
  <2> QED
    BY <1>0, <2>5, <2>6, <2>8, <2>9, OplogAssumption DEF Positions
<1> QED
  BY <1>1, <1>2

\* The effect of a step that leaves the repository and sets the worker to supersede or end.
LEMMA GivingUpKeeps ==
  ASSUME IInv, UNCHANGED <<rs, lost>>, RepoSame, state.chain # 0,
         NEW pc \in {"supersede", "end"}, NEW why \in {"gap", "diverged", "replica_set_changed"},
         NEW op \in [ts : 0..MaxTS, term : 0..MaxEvents + 1, set : 0..2],
         pc = "supersede" => chains[state.chain].start <= op.ts,
         w' = [w EXCEPT !.pc = pc, !.why = why, !.op = op]
  PROVE  RepoInv' /\ ServerInv' /\ WorkerInv' /\ w' \in Workers /\ w'.pc = pc /\ w'.why = why /\ w'.op = op
<1>1. RepoInv' /\ ServerInv' /\ ChunksOf(state.chain)' = ChunksOf(state.chain)
  BY RepoSameKeeps, ServerSame DEF IInv
<1>2. /\ w' \in Workers /\ w'.pc = pc /\ w'.op = op /\ w'.why = why
      /\ w'.checked = w.checked /\ w'.inclusive = w.inclusive
  BY DEF IInv, Types, Workers, PCs, Whys
<1>3. MemoryInv'
  BY <1>1, <1>2 DEF IInv, WorkerInv, MemoryInv, RepoSame
<1>4. state.chain \in 1..Len(chains)
  BY DEF IInv, Types, RepoInv, ChainsInv
<1>5. StepInv'
  BY <1>2, <1>4 DEF StepInv, RepoSame
<1> QED
  BY <1>1, <1>2, <1>3, <1>5 DEF WorkerInv, ReadInv, GotInv

LEMMA ConfirmKeeps ==
  ASSUME IInv, NEW v \in PrimaryViews, Confirm(v)
  PROVE  IInv'
<1>1. ViewOK(v)
  BY TickViews DEF IInv
<1>2. UNCHANGED <<rs, lost, base, sup, enabled, pause, events>> /\ w.pc \in {"confirm", "reconfirm"}
  BY DEF Confirm, server, control
<1>3. w \in Workers /\ state \in States /\ state.chain # 0
  BY <1>2 DEF IInv, Types, States, WorkerInv, StepInv
<1>4. state.last \in [ts : 0..MaxTS, term : 0..MaxEvents + 1, set : 0..2]
  BY <1>3, EntriesAsOps DEF IInv, RepoInv, ChainsInv
<1>5. ASSUME RepoInv' /\ ServerInv' /\ WorkerInv' /\ w' \in Workers /\ state' \in States /\ chains' = chains /\ chunks' = chunks
      PROVE  IInv'
  BY <1>2, <1>5 DEF IInv, Types, States
<1>6. ASSUME UNCHANGED repo PROVE RepoSame /\ state' \in States /\ chains' = chains /\ chunks' = chunks
  BY <1>3, <1>6 DEF RepoSame, repo
<1> DEFINE held == UpTo(v.log, v.majority)
<1>7. ASSUME NEW why \in {"gap", "replica_set_changed"}, w' = [w EXCEPT !.pc = "end", !.why = why, !.op = state.last], UNCHANGED repo
      PROVE  IInv'
  <2>1. w' = [w EXCEPT !.pc = "end", !.why = why, !.op = state.last]
    BY <1>7
  <2>2. RepoInv' /\ ServerInv' /\ WorkerInv' /\ w' \in Workers
    BY <1>2, <1>3, <1>4, <1>6, <1>7, <2>1, GivingUpKeeps
  <2> QED
    BY <1>5, <1>6, <1>7, <2>2
<1>8. ASSUME w' = [w EXCEPT !.pc = "supersede", !.why = "diverged", !.op = [NoEntry EXCEPT !.ts = DivergencePoint(v)]], UNCHANGED repo
      PROVE  IInv'
  <2> DEFINE op == [NoEntry EXCEPT !.ts = DivergencePoint(v)]
  <2>1. DivergencePoint(v) \in Positions /\ chains[state.chain].start <= DivergencePoint(v)
    BY <1>3, DivergenceOK
  <2>2. op \in [ts : 0..MaxTS, term : 0..MaxEvents + 1, set : 0..2] /\ op.ts = DivergencePoint(v)
    BY <2>1, NoEntryTypes, OplogAssumption DEF Positions
  <2>3. w' = [w EXCEPT !.pc = "supersede", !.why = "diverged", !.op = op]
    BY <1>8
  <2> HIDE DEF op
  <2>4. RepoInv' /\ ServerInv' /\ WorkerInv' /\ w' \in Workers
    BY ZenonT(60), <1>2, <1>3, <1>6, <1>8, <2>1, <2>2, <2>3, GivingUpKeeps
  <2> QED
    BY <1>5, <1>6, <1>8, <2>4
<1>9. ASSUME w' = Idle(w), UNCHANGED repo PROVE IInv'
  BY <1>2, <1>3, <1>5, <1>6, <1>9, IdleFields, IdleKeeps
<1>10. ASSUME Proceed(v) PROVE IInv'
  BY <1>1, <1>2, <1>3, <1>5, <1>10, ProceedKeeps
<1> QED
  BY <1>7, <1>8, <1>9, <1>10 DEF Confirm

\* A decision to give up is made on what the replica set holds.
LEMMA ConfirmCause ==
  ASSUME IInv, PrimaryLags = FALSE, NEW v \in PrimaryViews, Confirm(v)
  PROVE  CauseInv'
<1>1. v.log = Since(rs.log, rs.oldest) /\ v.majority = rs.commit
  BY PrimaryOK DEF IInv
<1>2. UNCHANGED <<rs, lost>> /\ w.pc \in {"confirm", "reconfirm"} /\ w \in Workers /\ state.chain # 0
  BY DEF Confirm, server, IInv, Types, WorkerInv, StepInv
<1>3. Held' = Held
  BY <1>2, ServerSame
<1>4. UpTo(v.log, v.majority) = Held
  BY <1>1 DEF UpTo, Since, Held, Committed
<1>6. ASSUME w' = [w EXCEPT !.pc = "end", !.why = "replica_set_changed", !.op = state.last] PROVE CauseInv'
  <2>1. w'.pc = "end" /\ w'.why = "replica_set_changed"
    BY <1>2, <1>6 DEF Workers
  <2> QED
    BY <2>1 DEF CauseInv
<1>7. ASSUME w' = [w EXCEPT !.pc = "end", !.why = "gap", !.op = state.last], At(UpTo(v.log, v.majority), state.last.ts) = {}, UNCHANGED repo
      PROVE  CauseInv'
  <2>1. w'.pc = "end" /\ w'.why = "gap"
    BY <1>2, <1>7 DEF Workers
  <2>2. state.last \notin Held'
    BY <1>3, <1>4, <1>7 DEF At
  <2> QED
    BY <1>7, <2>1, <2>2 DEF CauseInv, repo
<1>8. ASSUME w' = [w EXCEPT !.pc = "supersede", !.why = "diverged", !.op = [NoEntry EXCEPT !.ts = DivergencePoint(v)]],
             state.last \notin UpTo(v.log, v.majority), UNCHANGED repo
      PROVE  CauseInv'
  <2> DEFINE op == [NoEntry EXCEPT !.ts = DivergencePoint(v)]
  <2>1. /\ DivergencePoint(v) \in Nat /\ op.ts = DivergencePoint(v)
        /\ \A k \in Good(v) : k.last.ts <= DivergencePoint(v)
    BY <1>2, DivergenceOK, OplogAssumption DEF Positions, NoEntry, Entry
  <2>2. w' = [w EXCEPT !.pc = "supersede", !.why = "diverged", !.op = op]
    BY <1>8
  <2> HIDE DEF op
  <2>3. w'.pc = "supersede" /\ w'.why = "diverged" /\ w'.op = op
    BY <1>2, <2>2 DEF Workers
  <2>4. state'.last \notin Held' /\ Live(state.chain)' = Live(state.chain)
    BY <1>3, <1>4, <1>8 DEF repo, Live, ChunksOf
  <2>5. ASSUME NEW k \in Live(state.chain), op.ts < k.last.ts PROVE k.last \notin Held
    <3>1. k.last.ts \in Nat
      BY EntryTypes DEF Live, ChunksOf, IInv, Types, ChunkRows
    <3>2. k \notin Good(v)
      BY <2>1, <2>5, <3>1
    <3> QED
      BY <1>4, <2>5, <3>2 DEF Good
  <2> QED
    BY <1>3, <2>3, <2>4, <2>5 DEF CauseInv
<1>9. ASSUME w' = Idle(w) PROVE CauseInv'
  <2>1. w'.pc = "idle"
    BY <1>2, <1>9, IdleFields
  <2> QED
    BY <2>1 DEF CauseInv
<1>10. ASSUME Proceed(v) PROVE CauseInv'
  <2>1. ViewOK(v)
    BY TickViews DEF IInv
  <2>2. w'.pc \in {"idle", "read"}
    BY <1>2, <1>10, <2>1, ProceedKeeps
  <2> QED
    BY <2>2 DEF CauseInv
<1> QED
  BY <1>6, <1>7, <1>8, <1>9, <1>10 DEF Confirm

\* The rows of the chains.
LEMMA ChainTypes ==
  ASSUME IInv
  PROVE  /\ chains \in Seq(ChainRows) /\ Len(chains) \in Nat /\ state.chain = Len(chains)
         /\ state.chain # 0 => state.chain \in 1..Len(chains) /\ state.last \in Entries
         /\ \A d \in 1..Len(chains) : chains[d] \in ChainRows /\ chains[d].start \in Nat /\ chains[d].start \in Positions
<1>1. chains \in Seq(ChainRows) /\ state.chain = Len(chains)
  BY DEF IInv, Types, RepoInv, ChainsInv
<1>2. Len(chains) \in Nat /\ \A d \in 1..Len(chains) : chains[d] \in ChainRows
  BY <1>1
<1>3. \A r \in ChainRows : r.start \in Nat /\ r.start \in Positions
  BY OplogAssumption DEF ChainRows, Positions
<1> QED
  BY <1>1, <1>2, <1>3 DEF IInv, RepoInv, ChainsInv

\* What a chunk becomes when its chain is superseded after a position.
Superseded(k, c, after) == IF k \in Live(c) /\ k.last.ts > after THEN [k EXCEPT !.status = "superseded"] ELSE k

LEMMA SupersededFields ==
  ASSUME NEW k \in ChunkRows, NEW c, NEW after
  PROVE  LET q == Superseded(k, c, after) IN
         /\ q \in ChunkRows /\ q.chain = k.chain /\ q.from = k.from /\ q.got = k.got /\ q.last = k.last
         /\ q.status = "superseded" => k.status = "superseded" \/ k.last.ts > after
         /\ ~(k.last.ts > after) => q = k
BY DEF Superseded, ChunkRows

LEMMA SupersedeKeeps ==
  ASSUME IInv, Supersede PROVE IInv'
<1> DEFINE c == state.chain
           after == w.op.ts
           F(k) == Superseded(k, c, after)
<1>1. /\ UNCHANGED <<rs, lost, chains, state, base, sup, enabled, pause, events>> /\ w.pc = "supersede"
      /\ w' = [w EXCEPT !.pc = "end"] /\ chunks' = {F(k) : k \in chunks}
  BY DEF Supersede, SupersedeChunks, server, control, Superseded
<1>2. \A k \in chunks : /\ F(k) \in ChunkRows /\ F(k).chain = k.chain /\ F(k).from = k.from /\ F(k).got = k.got /\ F(k).last = k.last
                        /\ F(k).status = "superseded" => k.status = "superseded" \/ k.last.ts > after
                        /\ ~(k.last.ts > after) => F(k) = k
                        /\ k \in ChunkRows
  BY SupersededFields DEF IInv, Types
<1> HIDE DEF F
<1>3. \A q \in chunks' : \E k \in chunks : q = F(k)
  BY <1>1
<1>4. state.chain # 0 /\ chains[c].start <= after /\ c \in 1..Len(chains)
  BY <1>1 DEF IInv, Types, WorkerInv, StepInv, RepoInv, ChainsInv
<1>5. w' \in Workers /\ w'.pc = "end" /\ w'.why = w.why /\ w'.checked = w.checked /\ w'.inclusive = w.inclusive /\ w'.op = w.op
  BY <1>1 DEF IInv, Types, Workers, PCs
<1>6. Types'
  BY <1>1, <1>2, <1>3, <1>5 DEF IInv, Types
<1>7. ServerInv' /\ Histories' = Histories
  BY <1>1, ServerSame DEF IInv
<1>8. \A d : \A q \in ChunksOf(d)' : \E k \in ChunksOf(d) : q = F(k)
  BY <1>2, <1>3 DEF ChunksOf
<1>9. \A d : \A k \in ChunksOf(d) : F(k) \in ChunksOf(d)'
  BY <1>1, <1>2 DEF ChunksOf
<1>10. ChainsInv' /\ c' = c
  BY <1>1 DEF IInv, RepoInv, ChainsInv
<1>11. \A d : ChunksOf(d) \subseteq chunks
  BY DEF ChunksOf
<1>12. PositionInv'
  <2>1. \A q \in ChunksOf(c)' : q.last.ts <= state.last.ts
    <3>1. SUFFICES ASSUME NEW q \in ChunksOf(c)' PROVE q.last.ts <= state.last.ts
      OBVIOUS
    <3>2. PICK k \in ChunksOf(c) : q = F(k)
      BY <1>8, <1>10
    <3> QED
      BY <1>2, <1>11, <3>2 DEF IInv, RepoInv, PositionInv
  <2>2. CASE ChunksOf(c) = {} /\ chains[c].start = state.last.ts
    BY <1>1, <1>8, <2>1, <2>2 DEF PositionInv
  <2>3. ASSUME NEW k \in ChunksOf(c), k.last = state.last PROVE \E q \in ChunksOf(c)' : q.last = state.last
    <3>1. F(k) \in ChunksOf(c)' /\ F(k).last = k.last
      BY <1>2, <1>9, <1>10, <1>11
    <3> QED
      BY <2>3, <3>1
  <2> QED
    BY <1>1, <1>4, <2>1, <2>2, <2>3 DEF IInv, RepoInv, PositionInv
<1>13. ASSUME NEW q \in chunks'
       PROVE  /\ q.chain \in 1..Len(chains)
              /\ chains[q.chain].start <= q.from /\ q.from <= q.last.ts
              /\ q.status = "superseded" => chains[q.chain].start < q.last.ts
              /\ StartKept(q)'
  <2>1. PICK k \in chunks : q = F(k)
    BY <1>3
  <2>2. /\ k.chain \in 1..Len(chains)
        /\ chains[k.chain].start <= k.from /\ k.from <= k.last.ts
        /\ k.status = "superseded" => chains[k.chain].start < k.last.ts
        /\ StartKept(k)
    BY DEF IInv, RepoInv, ChunksInv
  <2>3. q.chain = k.chain /\ q.from = k.from /\ q.got = k.got /\ q.last = k.last
    BY <1>2, <2>1
  <2>4. ASSUME NEW d \in 1..Len(chains) PROVE chains[d].start \in Nat
    BY ChainTypes
  <2>5. k.last.ts \in Nat /\ after \in Nat /\ k.from \in Nat
    BY <1>2, EntryTypes, OplogAssumption DEF ChunkRows, Positions, IInv, Types, Workers
  <2>6. k.chain # c => q = k
    BY <2>1 DEF F, Superseded, Live, ChunksOf
  <2>7. q.status = "superseded" => chains[q.chain].start < q.last.ts
    <3>1. CASE k.chain = c
      BY <1>2, <1>4, <2>1, <2>2, <2>3, <2>4, <2>5, <3>1
    <3> QED
      BY <2>2, <2>6, <3>1
  <2>8. StartKept(q)'
    <3>1. SUFFICES ASSUME k.from = chains[k.chain].start, ~HoldsStart(k)
                   PROVE  \E p \in ChunksOf(k.chain)' :
                            p.status = "committed" /\ p.from = k.from /\ p.last.ts = k.from /\ HoldsStart(p)
      BY <1>1, <2>3 DEF StartKept, HoldsStart
    <3>2. PICK p \in ChunksOf(k.chain) : p.status = "committed" /\ p.from = k.from /\ p.last.ts = k.from /\ HoldsStart(p)
      BY <2>2, <3>1 DEF StartKept
    <3>3. F(p) = p
      <4>1. CASE k.chain = c
        BY <1>2, <1>4, <1>11, <2>4, <2>5, <3>1, <3>2, <4>1
      <4>2. CASE k.chain # c
        BY <3>2, <4>2 DEF F, Superseded, Live, ChunksOf
      <4> QED
        BY <4>1, <4>2
    <3> QED
      BY <1>9, <3>2, <3>3
  <2> QED
    BY <2>2, <2>3, <2>7, <2>8
<1>14. ASSUME NEW p \in chunks', NEW q \in chunks', p.chain = q.chain, p # q PROVE p.got \cap q.got = {}
  <2>1. PICK k \in chunks, l \in chunks : p = F(k) /\ q = F(l)
    BY <1>3
  <2>2. k # l /\ k.chain = l.chain /\ p.got = k.got /\ q.got = l.got
    BY <1>2, <1>14, <2>1
  <2> QED
    BY <2>2 DEF IInv, RepoInv, ChunksInv
<1>15. ChunksInv'
  BY <1>1, <1>13, <1>14 DEF ChunksInv
<1>16. OneHistory'
  <2>1. SUFFICES ASSUME NEW d \in 1..Len(chains) PROVE \E h \in Histories : \A q \in ChunksOf(d)' : Stretch(q, h)
    BY <1>1, <1>7 DEF OneHistory
  <2>2. PICK h \in Histories : \A k \in ChunksOf(d) : Stretch(k, h)
    BY DEF IInv, RepoInv, OneHistory
  <2>3. ASSUME NEW q \in ChunksOf(d)' PROVE Stretch(q, h)
    <3>1. PICK k \in ChunksOf(d) : q = F(k)
      BY <1>8
    <3>2. q.from = k.from /\ q.got = k.got /\ q.last = k.last
      BY <1>2, <1>11, <3>1
    <3> QED
      BY <2>2, <3>2 DEF Stretch
  <2> QED
    BY <2>3
<1>17. MemoryInv'
  <2>1. ChunksOf(c)' = {} <=> ChunksOf(c) = {}
    BY <1>8, <1>9, <1>10
  <2> QED
    BY <1>1, <1>5, <2>1 DEF IInv, WorkerInv, MemoryInv
<1>18. WorkerInv'
  BY <1>1, <1>4, <1>5, <1>17 DEF IInv, WorkerInv, ReadInv, GotInv, StepInv
<1> QED
  BY <1>6, <1>7, <1>10, <1>12, <1>15, <1>16, <1>18 DEF IInv, RepoInv

\* The end of a chain, at the primary, and the next one.
LEMMA EndKeeps ==
  ASSUME IInv, NEW v \in PrimaryViews, End(v)
  PROVE  IInv'
<1>1. ViewOK(v)
  BY TickViews DEF IInv
<1>2. UNCHANGED <<rs, lost, base, sup, enabled, pause, events>> /\ w.pc = "end" /\ chunks' = chunks
  BY DEF End, server, control
<1>3. w \in Workers /\ state \in States /\ state.chain # 0 /\ w.why \in {"gap", "diverged", "replica_set_changed"}
      /\ w.op.ts \in 0..MaxTS
  BY <1>2 DEF IInv, Types, States, WorkerInv, StepInv, Workers
<1> DEFINE there == At(UpTo(v.log, v.majority), w.op.ts)
<1>4. v.log \in SUBSET Entries /\ v.log # {} /\ Oldest(v.log) \in Entries
  BY <1>1, Extremes DEF ViewOK
<1>5. there # {} => Newest(there) \in Entries
  <2>1. there \in SUBSET Entries
    BY <1>4 DEF At, UpTo
  <2> HIDE DEF there
  <2> QED
    BY <2>1, Extremes
<1>6. state' \in States /\ state'.chain = state.chain /\ state'.last = state.last
  <2>1. v.set \in 0..2
    BY <1>1 DEF ViewOK, IInv, Types, Servers
  <2> QED
    BY <1>3, <2>1 DEF End, States
<1>7. chains' \in Seq(ChainRows) /\ RepoSame
  <2>0. chains \in Seq(ChainRows) /\ state.chain \in 1..Len(chains) /\ chains[state.chain] \in ChainRows
    BY <1>3, ChainTypes
  <2>1. CASE ~Open(state.chain)
    BY <1>2, <1>6, <2>0, <2>1 DEF End, EndChain, RepoSame
  <2>2. CASE Open(state.chain)
    <3>1. chains' = [chains EXCEPT ![state.chain].end = w.op.ts, ![state.chain].reason = w.why]
      BY <2>2 DEF End, EndChain
    <3> DEFINE row == [chains[state.chain] EXCEPT !.end = w.op.ts, !.reason = w.why]
    <3>2. chains' = [chains EXCEPT ![state.chain] = row]
      BY <2>0, <3>1
    <3>3. row \in ChainRows /\ row.start = chains[state.chain].start /\ row.reason = w.why
      BY <1>3, <2>0 DEF ChainRows, Reasons
    <3> HIDE DEF row
    <3>4. chains' \in Seq(ChainRows) /\ Len(chains') = Len(chains)
      BY <2>0, <3>2, <3>3
    <3>5. \A d \in 1..Len(chains) : chains'[d] = IF d = state.chain THEN row ELSE chains[d]
      BY <2>0, <3>2
    <3> QED
      BY <1>2, <1>3, <1>6, <3>3, <3>4, <3>5 DEF RepoSame
  <2> QED
    BY <2>1, <2>2
<1>8. PICK op \in Entries, set \in 0..2 : Begin(op, w.why, set)
  <2>1. v.set \in 0..2 /\ w.set \in 0..2
    BY <1>1, <1>3 DEF ViewOK, IInv, Types, Servers, Workers
  <2>2. CASE w.why = "diverged"
    BY <1>4, <1>5, <2>1, <2>2 DEF End
  <2>3. CASE w.why # "diverged"
    BY <1>4, <2>1, <2>3 DEF End
  <2> QED
    BY <2>2, <2>3
<1>9. RepoInv' /\ ServerInv' /\ WorkerInv' /\ w' \in Workers
  BY <1>2, <1>3, <1>7, <1>8, BeginKeeps DEF Whys
<1> QED
  BY <1>2, <1>6, <1>7, <1>9 DEF IInv, Types, States

LEMMA StartKeeps ==
  ASSUME IInv, Start PROVE IInv'
<1> DEFINE n == Len(chains) + 1
           row == [start |-> w.op.ts, end |-> 0, reason |-> "open"]
<1>1. /\ UNCHANGED <<rs, lost, base, sup, enabled, pause, events, chunks>> /\ w.pc = "start"
      /\ \A c \in 1..Len(chains) : ~Open(c)
      /\ chains' = Append(chains, row)
      /\ state' = [state EXCEPT !.chain = n, !.last = w.op]
  BY DEF Start, StartChain, server, control
<1>2. w \in Workers /\ state \in States /\ w.op \in Entries
  BY <1>1 DEF IInv, Types, States, WorkerInv, StepInv
<1>3. chains \in Seq(ChainRows) /\ Len(chains) \in Nat /\ \A c \in 1..Len(chains) : chains[c].reason # "open"
  BY <1>1, ChainTypes DEF Open
<1>4. row \in ChainRows
  BY <1>2, EntryTypes, OplogAssumption DEF ChainRows, Reasons
<1>5. /\ chains' \in Seq(ChainRows) /\ Len(chains') = n /\ chains'[n] = row
      /\ \A c \in 1..Len(chains) : chains'[c] = chains[c]
  <2> HIDE DEF row
  <2> QED
    BY <1>1, <1>3, <1>4
<1>6. state' \in States /\ state'.chain = n /\ state'.last = w.op /\ n # 0 /\ n \in Nat
  <2>1. n # 0 /\ n \in Nat
    BY <1>3
  <2> HIDE DEF n
  <2> QED
    BY <1>1, <1>2, <2>1 DEF States
<1>7. \A k \in chunks : k.chain \in 1..Len(chains)
  BY DEF IInv, RepoInv, ChunksInv
<1>8. ChunksOf(n) = {} /\ \A c : ChunksOf(c)' = ChunksOf(c)
  BY <1>1, <1>3, <1>7 DEF ChunksOf
<1>9. ServerInv' /\ Histories' = Histories
  BY <1>1, ServerSame DEF IInv
<1>10. ChainsInv'
  BY <1>2, <1>3, <1>5, <1>6 DEF ChainsInv
<1>11. ChunksOf(state.chain)' = {}
  BY <1>1, <1>6, <1>3, <1>7 DEF ChunksOf
<1>12. PositionInv'
  <2>1. row.start = w.op.ts
    OBVIOUS
  <2> QED
    BY <1>5, <1>6, <1>11, <2>1 DEF PositionInv
<1>13. \A k \in chunks : StartKept(k)'
  <2>1. ASSUME NEW k \in chunks PROVE StartKept(k)'
    <3>1. StartKept(k) /\ chains'[k.chain] = chains[k.chain]
      BY <1>5, <1>7 DEF IInv, RepoInv, ChunksInv
    <3> QED
      BY <1>8, <3>1 DEF StartKept
  <2> QED
    BY <2>1
<1>14. ChunksInv'
  <2>1. ASSUME NEW k \in chunks PROVE k.chain \in 1..Len(chains') /\ chains'[k.chain] = chains[k.chain]
    BY <1>3, <1>5, <1>7
  <2> QED
    BY <1>1, <1>13, <2>1 DEF IInv, RepoInv, ChunksInv
<1>15. OneHistory'
  <2>1. SUFFICES ASSUME NEW c \in 1..Len(chains') PROVE \E h \in Histories : \A k \in ChunksOf(c) : Stretch(k, h)
    BY <1>8, <1>9 DEF OneHistory
  <2>2. CASE c \in 1..Len(chains)
    BY <2>2 DEF IInv, RepoInv, OneHistory
  <2>3. CASE c = n
    <3>1. Committed \in Histories
      BY DEF Histories
    <3> QED
      BY <1>8, <2>3, <3>1
  <2> QED
    BY <1>3, <1>5, <2>2, <2>3
<1>16. /\ w' \in Workers /\ w'.checked /\ w'.inclusive /\ w'.pc \in {"adopt", "idle"}
       /\ w'.pc = "adopt" => w'.op = w.op
  <2> DEFINE started == [w EXCEPT !.checked = TRUE, !.inclusive = TRUE]
  <2>1. started \in Workers /\ started.checked /\ started.inclusive /\ started.op = w.op
    BY <1>2 DEF Workers
  <2>2. w' = [started EXCEPT !.pc = "adopt"] \/ w' = Idle(started)
    BY DEF Start
  <2> HIDE DEF started
  <2>3. CASE w' = [started EXCEPT !.pc = "adopt"]
    BY <2>1, <2>3 DEF Workers, PCs
  <2>4. CASE w' = Idle(started)
    BY <2>1, <2>4, IdleFields
  <2> QED
    BY <2>2, <2>3, <2>4
<1>17. WorkerInv'
  BY <1>2, <1>6, <1>11, <1>16 DEF WorkerInv, MemoryInv, ReadInv, GotInv, StepInv
<1>18. Types'
  BY <1>1, <1>5, <1>6, <1>16 DEF IInv, Types, States
<1> QED
  BY <1>9, <1>10, <1>12, <1>14, <1>15, <1>17, <1>18 DEF IInv, RepoInv

LEMMA AdoptKeeps ==
  ASSUME IInv, Adopt PROVE IInv'
<1>1. /\ UNCHANGED <<rs, lost, chains, chunks, base, sup, enabled, pause, events>> /\ w.pc = "adopt"
      /\ state' = [state EXCEPT !.set = w.op.set]
      /\ w' = Idle([w EXCEPT !.set = w.op.set])
  BY DEF Adopt, server, control
<1>2. w \in Workers /\ state \in States /\ w.op.set \in 0..2
  BY <1>1 DEF IInv, Types, States, Workers
<1> DEFINE x == [w EXCEPT !.set = w.op.set]
<1>3. x \in Workers /\ x.checked = w.checked /\ x.inclusive = w.inclusive
  BY <1>2 DEF Workers
<1> HIDE DEF x
<1>4. w' = Idle(x)
  BY <1>1 DEF x
<1>5. w' \in Workers /\ w'.pc = "idle" /\ w'.checked = w.checked /\ w'.inclusive = w.inclusive
  BY <1>3, <1>4, IdleFields
<1>6. state' \in States /\ RepoSame
  BY <1>1, <1>2 DEF States, RepoSame
<1>7. RepoInv' /\ ServerInv' /\ WorkerInv'
  BY <1>1, <1>5, <1>6, IdleKeeps
<1> QED
  BY <1>1, <1>5, <1>6, <1>7 DEF IInv, Types, States

-----------------------------------------------------------------------------
(* The steps in which a chunk is read and committed. *)

LEMMA ReadOplogKeeps ==
  ASSUME IInv, NEW v \in Later, ReadOplog(v) PROVE IInv'
<1> DEFINE from == state.last.ts
           got == {e \in UpTo(v.log, w.to.ts) : e.ts > from \/ (w.inclusive /\ e.ts = from)}
<1>1. /\ UNCHANGED <<rs, lost, chains, chunks, state, base, sup, enabled, pause, events>> /\ w.pc = "read"
      /\ w' = IF state.last \notin v.log THEN [w EXCEPT !.pc = "reconfirm"]
              ELSE IF Newest(UpTo(v.log, w.to.ts)).ts # w.to.ts THEN Idle(w)
              ELSE [w EXCEPT !.pc = "commit", !.got = got]
  BY DEF ReadOplog, server, repo, control
<1>2. ViewOK(v) /\ At(v.log, w.to.ts) \subseteq {w.to} /\ v.log \in SUBSET Entries
  BY TickViews DEF IInv, ViewOK
<1>3. w \in Workers /\ RepoSame /\ state.chain # 0
  BY <1>1 DEF IInv, Types, RepoSame, WorkerInv, StepInv
<1>4. /\ w.checked /\ w.to \in Entries /\ state.last.ts <= w.to.ts
      /\ \E h \in Histories : w.to \in h
  BY <1>1 DEF IInv, WorkerInv, ReadInv
<1>5. RepoInv' /\ ServerInv' /\ ChunksOf(state.chain)' = ChunksOf(state.chain) /\ Histories' = Histories
  BY <1>1, <1>3, RepoSameKeeps, ServerSame DEF IInv
<1>6. ASSUME WorkerInv', w' \in Workers PROVE IInv'
  BY <1>1, <1>5, <1>6 DEF IInv, Types
<1>7. CASE w' = [w EXCEPT !.pc = "reconfirm"]
  <2>1. w' \in Workers /\ w'.pc = "reconfirm" /\ w'.checked = w.checked /\ w'.inclusive = w.inclusive
    BY <1>3, <1>7 DEF Workers, PCs
  <2>2. MemoryInv'
    BY <1>1, <1>5, <2>1 DEF IInv, WorkerInv, MemoryInv
  <2>3. WorkerInv'
    BY <1>1, <1>3, <2>1, <2>2 DEF WorkerInv, ReadInv, GotInv, StepInv
  <2> QED
    BY <1>6, <2>1, <2>3
<1>8. CASE w' = Idle(w)
  BY <1>1, <1>3, <1>6, <1>8, IdleFields, IdleKeeps
<1>9. CASE state.last \in v.log /\ Newest(UpTo(v.log, w.to.ts)).ts = w.to.ts
  <2>1. w' = [w EXCEPT !.pc = "commit", !.got = got]
    BY <1>1, <1>9
  <2>2. got \in SUBSET Entries
    BY <1>2 DEF UpTo
  <2>3. w' \in Workers /\ w'.pc = "commit" /\ w'.got = got /\ w'.to = w.to /\ w'.checked = w.checked /\ w'.inclusive = w.inclusive
    <3> HIDE DEF got
    <3> QED
      BY <1>3, <2>1, <2>2 DEF Workers, PCs
  <2>4. MemoryInv' /\ ReadInv'
    BY <1>1, <1>4, <1>5, <2>3 DEF IInv, WorkerInv, MemoryInv, ReadInv
  <2>5. PICK h \in Histories : w.to \in h
    BY <1>4
  <2>6. UpTo(v.log, w.to.ts) # {} /\ UpTo(v.log, w.to.ts) \in SUBSET Entries
    BY <1>2, <1>4, <1>9 DEF UpTo
  <2>7. Newest(UpTo(v.log, w.to.ts)) \in v.log
    BY <2>6, Extremes DEF UpTo
  <2>8. w.to \in v.log
    BY <1>2, <1>9, <2>7 DEF At
  <2>9. /\ state.last \in h
        /\ \A e \in h : state.last.ts <= e.ts /\ e.ts <= w.to.ts => e \in v.log
        /\ \A e \in v.log : e.ts <= w.to.ts => e \in h
    BY <1>2, <1>4, <1>9, <2>5, <2>8, ReadAgrees DEF IInv
  <2>10. h \in SUBSET Entries /\ state.last.ts \in Nat
    BY <1>3, ServerTypes, ChainTypes, EntryTypes DEF IInv
  <2>11. \A e \in h : e.ts \in Nat
    BY <2>10, EntryTypes
  <2>12. got = {e \in h : e.ts <= w.to.ts /\ (state.last.ts < e.ts \/ (w.inclusive /\ e.ts = state.last.ts))}
    <3>1. \A e : e \in got <=> e \in v.log /\ e.ts <= w.to.ts /\ (e.ts > state.last.ts \/ (w.inclusive /\ e.ts = state.last.ts))
      BY DEF UpTo
    <3> HIDE DEF got
    <3> QED
      BY <2>9, <2>10, <2>11, <3>1
  <2>13. GotInv'
    <3> HIDE DEF got
    <3> QED
      BY <1>1, <1>5, <2>3, <2>5, <2>9, <2>12 DEF GotInv
  <2>14. StepInv'
    BY <1>1, <1>3, <2>3 DEF StepInv
  <2> QED
    BY <1>6, <2>3, <2>4, <2>13, <2>14 DEF WorkerInv
<1> QED
  BY <1>1, <1>7, <1>8, <1>9

\* A stretch of a history is one of every history that agrees with it past its end.
LEMMA StretchAgrees ==
  ASSUME NEW g \in SUBSET Entries, NEW h \in SUBSET Entries, NEW t \in Nat, UpTo(g, t) = UpTo(h, t),
         NEW k \in ChunkRows, Stretch(k, g), k.last.ts <= t
  PROVE  Stretch(k, h)
<1>1. \A e : e \in g /\ e.ts <= t <=> e \in h /\ e.ts <= t
  BY DEF UpTo
<1>2. k.last \in Entries /\ k.last.ts \in Nat /\ \A e \in g \cup h : e.ts \in Nat
  BY EntryTypes DEF ChunkRows
<1> QED
  BY <1>1, <1>2 DEF Stretch

\* The chunk that is committed is a stretch of the history it was read from, up to the
\* end of its range.
LEMMA ChunkOK ==
  ASSUME IInv, w.pc = "commit"
  PROVE  /\ Chunk \in ChunkRows /\ Chunk.chain = state.chain /\ Chunk.from = state.last.ts
         /\ Chunk.status = "committed" /\ Chunk.got = w.got /\ Chunk.last = w.to
         /\ \E h \in Histories : state.last \in h /\ Stretch(Chunk, h)
         /\ w.inclusive => state.last \in w.got
         /\ ~w.inclusive => \A e \in w.got : state.last.ts < e.ts
<1>1. PICK h \in Histories :
        /\ w.to \in h /\ state.last \in h
        /\ w.got = {e \in h : e.ts <= w.to.ts /\ (state.last.ts < e.ts \/ (w.inclusive /\ e.ts = state.last.ts))}
  BY DEF IInv, WorkerInv, GotInv
<1>2. h \in SUBSET Entries /\ LogOK(h)
  BY ServerTypes, HistoriesAgree DEF IInv
<1>3. state.last \in Entries /\ w.to \in Entries /\ state.last.ts \in Nat /\ w.to.ts \in Nat /\ state.last.ts <= w.to.ts
      /\ state.last.term \in Nat /\ w.got \in SUBSET Entries /\ \A e \in h : e.ts \in Nat
  BY <1>1, <1>2, EntryTypes DEF IInv, WorkerInv, ReadInv
<1> DEFINE last == IF w.got = {} THEN state.last ELSE Newest(w.got)
           term == IF w.got = {} THEN state.last.term ELSE Oldest(w.got).term
<1>4. last = w.to
  <2>1. CASE w.got = {}
    <3>1. ~(state.last.ts < w.to.ts)
      BY <1>1, <1>3, <2>1
    <3>2. state.last.ts = w.to.ts
      BY <1>3, <3>1
    <3> QED
      BY <1>1, <1>2, <2>1, <3>2 DEF LogOK
  <2>2. CASE w.got # {}
    <3>1. Newest(w.got) \in w.got /\ \A f \in w.got : f.ts <= Newest(w.got).ts
      BY <1>3, <2>2, Extremes
    <3>2. Newest(w.got) \in h /\ Newest(w.got).ts <= w.to.ts /\ Newest(w.got).ts >= state.last.ts
      BY <1>1, <1>3, <3>1
    <3>3. Newest(w.got).ts = w.to.ts
      <4>1. CASE state.last.ts < w.to.ts
        BY <1>1, <1>3, <3>1, <3>2, <4>1
      <4>2. CASE state.last.ts = w.to.ts
        BY <1>3, <3>2, <4>2
      <4> QED
        BY <1>3, <4>1, <4>2
    <3> QED
      BY <1>1, <1>2, <2>2, <3>2, <3>3 DEF LogOK
  <2> QED
    BY <2>1, <2>2
<1>5. term \in Nat
  BY <1>3, Extremes, EntryTypes
<1>6. Chunk = [chain |-> state.chain, from |-> state.last.ts, status |-> "committed", got |-> w.got, last |-> last, firstTerm |-> term]
  BY DEF Chunk
<1> HIDE DEF last, term
<1>7. state.chain \in Nat /\ state.last.ts \in Positions
  BY <1>3, EntryTypes DEF IInv, Types
<1>8. Chunk \in ChunkRows /\ Chunk.chain = state.chain /\ Chunk.from = state.last.ts
      /\ Chunk.status = "committed" /\ Chunk.got = w.got /\ Chunk.last = w.to
  BY <1>3, <1>4, <1>5, <1>6, <1>7 DEF ChunkRows
<1>9. Stretch(Chunk, h)
  BY <1>1, <1>3, <1>8 DEF Stretch
<1>10. (w.inclusive => state.last \in w.got) /\ (~w.inclusive => \A e \in w.got : state.last.ts < e.ts)
  BY <1>1, <1>3
<1> QED
  BY <1>1, <1>8, <1>9, <1>10

LEMMA CommitKeeps ==
  ASSUME IInv, Commit PROVE IInv'
<1>0. PICK c, n : c = state.chain /\ n = Chunk
  OBVIOUS
<1>1. /\ UNCHANGED <<rs, lost, chains, base, sup, enabled, pause, events>> /\ w.pc = "commit"
      /\ chunks' = chunks \cup {n} /\ state' = [state EXCEPT !.last = n.last]
      /\ w' = Idle([w EXCEPT !.inclusive = FALSE])
  BY <1>0 DEF Commit, CommitChunk, server, control
<1>2. /\ n \in ChunkRows /\ n.chain = c /\ n.from = state.last.ts
      /\ n.status = "committed" /\ n.got = w.got /\ n.last = w.to
      /\ w.inclusive => state.last \in w.got
      /\ ~w.inclusive => \A e \in w.got : state.last.ts < e.ts
  BY <1>0, <1>1, ChunkOK
<1>3. PICK h \in Histories : state.last \in h /\ Stretch(n, h)
  BY <1>0, <1>1, ChunkOK
<1>4. /\ w \in Workers /\ state \in States /\ c # 0 /\ c \in 1..Len(chains) /\ c \in Nat /\ state.last \in Entries /\ state.last.ts \in Nat
      /\ w.to \in Entries /\ w.to.ts \in Nat /\ state.last.ts <= w.to.ts /\ w.checked /\ w.inclusive \in BOOLEAN
      /\ (w.inclusive <=> ChunksOf(c) = {})
  <2>1. w \in Workers /\ state \in States /\ c # 0 /\ w.to \in Entries /\ state.last.ts <= w.to.ts /\ w.checked
        /\ (w.inclusive <=> ChunksOf(c) = {})
    BY <1>0, <1>1 DEF IInv, Types, States, WorkerInv, StepInv, ReadInv, MemoryInv
  <2>2. c \in 1..Len(chains) /\ c \in Nat /\ state.last \in Entries /\ state.last.ts \in Nat
    BY <1>0, <2>1, ChainTypes, EntryTypes
  <2> QED
    BY <2>1, <2>2, EntryTypes DEF Workers
<1>5. state' \in States /\ state'.chain = c /\ state'.last = w.to
  BY <1>0, <1>1, <1>2, <1>4 DEF States
<1> DEFINE x == [w EXCEPT !.inclusive = FALSE]
<1>6. x \in Workers /\ x.checked = w.checked /\ ~x.inclusive
  BY <1>4 DEF Workers
<1>7. w' \in Workers /\ w'.pc = "idle" /\ w'.checked /\ ~w'.inclusive
  <2>1. w' = Idle(x)
    BY <1>1
  <2> HIDE DEF x
  <2> QED
    BY <1>4, <1>6, <2>1, IdleFields
<1>8. Types'
  BY <1>1, <1>2, <1>5, <1>7 DEF IInv, Types, States
<1>9. ServerInv' /\ Histories' = Histories
  BY <1>1, ServerSame DEF IInv
<1>10. ChunksOf(state.chain)' = ChunksOf(c) \cup {n} /\ \A d : d # c => ChunksOf(d)' = ChunksOf(d)
  BY <1>1, <1>2, <1>5 DEF ChunksOf
<1>11. \A d : ChunksOf(d) \subseteq ChunksOf(d)'
  BY <1>1 DEF ChunksOf
<1>12. ChainsInv'
  BY <1>0, <1>1, <1>4, <1>5 DEF IInv, RepoInv, ChainsInv
<1>13. \A k \in ChunksOf(c) : /\ k \in chunks /\ k \in ChunkRows /\ k.last.ts <= state.last.ts /\ k.last.ts \in Nat
                              /\ k.from \in Nat /\ k.from <= k.last.ts /\ chains[c].start <= k.from
  BY <1>0, EntryTypes, OplogAssumption DEF ChunksOf, IInv, Types, ChunkRows, Positions, RepoInv, PositionInv, ChunksInv
<1>14. PositionInv'
  <2>1. \A k \in ChunksOf(c) \cup {n} : k.last.ts <= w.to.ts
    BY <1>2, <1>4, <1>13
  <2> QED
    BY <1>2, <1>5, <1>10, <2>1 DEF PositionInv
<1>15. PICK g \in Histories : \A k \in ChunksOf(c) : Stretch(k, g)
  BY <1>4 DEF IInv, RepoInv, OneHistory
<1>16. ASSUME NEW k \in ChunksOf(c) PROVE Stretch(k, h)
  <2>1. PICK p \in ChunksOf(c) : p.last = state.last
    BY <1>0, <1>4, <1>16 DEF IInv, RepoInv, PositionInv
  <2>2. state.last \in g \cap h
    BY <1>3, <1>15, <2>1 DEF Stretch
  <2>3. UpTo(g, state.last.ts) = UpTo(h, state.last.ts) /\ g \in SUBSET Entries /\ h \in SUBSET Entries
    BY <1>3, <1>15, <2>2, HistoriesAgree, ServerTypes DEF IInv, Agree
  <2> QED
    BY <1>4, <1>13, <1>15, <2>3, StretchAgrees
<1>17. OneHistory'
  <2>1. SUFFICES ASSUME NEW d \in 1..Len(chains) PROVE \E f \in Histories : \A k \in ChunksOf(d)' : Stretch(k, f)
    BY <1>1, <1>9 DEF OneHistory
  <2>2. CASE d = c
    <3>1. ChunksOf(d)' = ChunksOf(c) \cup {n}
      BY <1>1, <1>2, <2>2 DEF ChunksOf
    <3> QED
      BY <1>3, <1>16, <3>1
  <2>3. CASE d # c
    BY <1>10, <2>3 DEF IInv, RepoInv, OneHistory
  <2> QED
    BY <2>2, <2>3
<1>18. ASSUME NEW k \in chunks PROVE StartKept(k)'
  <2>1. StartKept(k)
    BY DEF IInv, RepoInv, ChunksInv
  <2> QED
    BY <1>1, <1>11, <2>1 DEF StartKept
<1>19. chains[c].start \in Nat /\ chains[c].start <= n.from /\ n.from <= n.last.ts
  <2>1. chains[c].start \in Nat
    BY <1>4, ChainTypes
  <2>2. chains[c].start <= state.last.ts
    BY <1>0, <1>4, <1>13, <2>1 DEF IInv, RepoInv, PositionInv
  <2> QED
    BY <1>2, <1>4, <2>1, <2>2
<1>20. StartKept(n)'
  <2>1. SUFFICES ASSUME n.from = chains[c].start, ~HoldsStart(n)
                 PROVE  \E p \in ChunksOf(c) :
                          p.status = "committed" /\ p.from = n.from /\ p.last.ts = n.from /\ HoldsStart(p)
    <3>1. ChunksOf(c) \subseteq ChunksOf(n.chain)'
      BY <1>2, <1>11
    <3> QED
      BY <1>1, <1>2, <3>1 DEF StartKept
  <2>2. ~w.inclusive
    BY <1>2, <2>1 DEF HoldsStart
  <2>3. PICK p \in ChunksOf(c) : p.last = state.last
    BY <1>0, <1>4, <2>2 DEF IInv, RepoInv, PositionInv
  <2>4. p.from = chains[c].start /\ p.last.ts = chains[c].start /\ p \in chunks /\ p.chain = c
    BY <1>2, <1>13, <1>19, <2>1, <2>3 DEF ChunksOf
  <2>5. StartKept(p) /\ p.status = "committed"
    BY <1>13, <1>19, <2>4 DEF IInv, Types, ChunkRows, RepoInv, ChunksInv
  <2> QED
    BY <2>1, <2>4, <2>5 DEF StartKept
<1>21. ASSUME NEW k \in ChunksOf(c) PROVE k.got \cap n.got = {}
  <2>1. \A e \in n.got : state.last.ts < e.ts /\ e.ts \in Nat
    BY <1>2, <1>4, <1>21, EntryTypes DEF Workers
  <2>2. \A e \in k.got : e.ts <= state.last.ts
    BY SMTT(30), <1>4, <1>13, <1>16, EntryTypes DEF Stretch, ChunkRows
  <2> QED
    BY <1>4, <2>1, <2>2
<1>22. ChunksInv'
  <2>1. ASSUME NEW k \in chunks \cup {n}
        PROVE  /\ k.chain \in 1..Len(chains)
               /\ chains[k.chain].start <= k.from /\ k.from <= k.last.ts
               /\ k.status = "superseded" => chains[k.chain].start < k.last.ts
    BY <1>2, <1>4, <1>19 DEF IInv, RepoInv, ChunksInv
  <2>2. ASSUME NEW k \in chunks \cup {n}, NEW l \in chunks \cup {n}, k.chain = l.chain, k # l
        PROVE  k.got \cap l.got = {}
    <3>1. CASE k \in chunks /\ l \in chunks
      BY <2>2, <3>1 DEF IInv, RepoInv, ChunksInv
    <3>2. CASE k \in chunks /\ l = n
      BY <1>2, <1>21, <2>2, <3>2 DEF ChunksOf
    <3>3. CASE k = n /\ l \in chunks
      BY <1>2, <1>21, <2>2, <3>3 DEF ChunksOf
    <3> QED
      BY <2>2, <3>1, <3>2, <3>3
  <2>3. ASSUME NEW k \in chunks \cup {n} PROVE StartKept(k)'
    BY <1>18, <1>20
  <2> QED
    BY <1>1, <2>1, <2>2, <2>3 DEF ChunksInv
<1>23. WorkerInv'
  BY <1>4, <1>5, <1>7, <1>10 DEF WorkerInv, MemoryInv, ReadInv, GotInv, StepInv
<1> QED
  BY <1>8, <1>9, <1>12, <1>14, <1>17, <1>22, <1>23 DEF IInv, RepoInv

-----------------------------------------------------------------------------
(* The other steps. *)

LEMMA FailKeeps ==
  ASSUME IInv, Fail PROVE IInv'
<1>1. UNCHANGED <<rs, lost, chains, chunks, state, base, sup, enabled, pause>> /\ w' = Idle(w)
  BY DEF Fail, server, repo, control
<1>2. w' \in Workers /\ w'.pc = "idle" /\ w'.checked = w.checked /\ w'.inclusive = w.inclusive
  BY <1>1, IdleFields DEF IInv, Types
<1>3. RepoInv' /\ ServerInv' /\ WorkerInv'
  BY <1>1, <1>2, IdleKeeps DEF RepoSame
<1>4. events' \in 0..MaxEvents /\ rs'.term \in 1..(events' + 1)
  <2>1. events' = events \/ (events < MaxEvents /\ events' = events + 1)
    BY DEF Fail, Happens
  <2> QED
    BY <1>1, <2>1, OplogAssumption DEF IInv, Types
<1> QED
  BY <1>1, <1>2, <1>3, <1>4 DEF IInv, Types

\* A worker that stops, crashes or starts over knows nothing.
LEMMA FreshKeeps ==
  ASSUME IInv, UNCHANGED <<rs, lost, chains, chunks, state>>, NEW v \in Nat, w' \in {Down, Fresh(v), w}
  PROVE  RepoInv' /\ ServerInv' /\ WorkerInv' /\ w' \in Workers
<1>1. RepoSame
  BY DEF RepoSame
<1>2. CASE w' \in {Down, Fresh(v)}
  <2>1. w' \in Workers /\ w'.pc = "idle" /\ ~w'.checked /\ ~w'.inclusive
    BY <1>2, DownFields
  <2> QED
    BY <1>1, <2>1, IdleKeeps
<1>3. CASE w' = w
  <2>1. RepoInv' /\ ServerInv' /\ ChunksOf(state.chain)' = ChunksOf(state.chain) /\ Histories' = Histories
    BY <1>1, RepoSameKeeps, ServerSame DEF IInv
  <2>2. WorkerInv'
    BY <1>3, <2>1 DEF IInv, WorkerInv, MemoryInv, ReadInv, GotInv, StepInv
  <2> QED
    BY <1>3, <2>1, <2>2 DEF IInv, Types
<1> QED
  BY <1>2, <1>3

LEMMA SupervisorKeeps ==
  ASSUME IInv, Supervisor PROVE IInv'
<1>1. UNCHANGED <<rs, lost, chains, chunks, state, enabled, events>>
  BY DEF Supervisor, List, StopWorker, StartWorker, server, repo
<1>2. sup \in [pc : {"idle", "listed", "stopped"}, want : [on : BOOLEAN, version : Nat]] /\ enabled \in [on : BOOLEAN, version : Nat]
  BY DEF IInv, Types
<1>3. sup' \in [pc : {"idle", "listed", "stopped"}, want : [on : BOOLEAN, version : Nat]]
  <2>1. CASE List
    BY <1>2, <2>1 DEF List
  <2>2. CASE StopWorker
    BY <1>2, <2>2 DEF StopWorker
  <2>3. CASE StartWorker
    BY <2>3 DEF StartWorker
  <2> QED
    BY <2>1, <2>2, <2>3 DEF Supervisor
<1>4. w' \in {Down, Fresh(sup.want.version), w}
  BY DEF Supervisor, List, StopWorker, StartWorker
<1>5. RepoInv' /\ ServerInv' /\ WorkerInv' /\ w' \in Workers
  <2>1. sup.want.version \in Nat
    BY <1>2
  <2> QED
    BY <1>1, <1>4, <2>1, FreshKeeps
<1> QED
  BY <1>1, <1>3, <1>5 DEF IInv, Types

\* The steps that only use the enabled flag, the pause or the base.
LEMMA AsideKeeps ==
  ASSUME IInv, DisableStream \/ ResumeStream \/ StartBase \/ EndDump \/ ReadTAfter PROVE IInv'
<1>1. UNCHANGED <<rs, lost, chains, chunks, state, w, sup>>
  BY DEF DisableStream, ResumeStream, StartBase, EndDump, ReadTAfter, server, repo, control
<1>2. RepoInv' /\ ServerInv' /\ WorkerInv' /\ w' \in Workers
  BY <1>1, FreshKeeps
<1>3. events' = events \/ (events < MaxEvents /\ events' = events + 1)
  BY DEF DisableStream, ResumeStream, StartBase, EndDump, ReadTAfter, Happens
<1>4. events' \in 0..MaxEvents /\ rs'.term \in 1..(events' + 1)
  BY <1>1, <1>3, OplogAssumption DEF IInv, Types
<1>5. enabled' \in [on : BOOLEAN, version : Nat]
  <2>1. enabled \in [on : BOOLEAN, version : Nat]
    BY DEF IInv, Types
  <2>2. enabled' = enabled \/ enabled' = [on |-> FALSE, version |-> enabled.version + 1]
          \/ enabled' = [on |-> TRUE, version |-> enabled.version + 1]
    BY DEF DisableStream, ResumeStream, StartBase, EndDump, ReadTAfter, control
  <2>3. enabled.version + 1 \in Nat
    BY <2>1
  <2>4. \A n \in Nat, b \in BOOLEAN : [on |-> b, version |-> n] \in [on : BOOLEAN, version : Nat]
    OBVIOUS
  <2> QED
    BY <2>1, <2>2, <2>3, <2>4
<1> QED
  BY <1>1, <1>2, <1>4, <1>5 DEF IInv, Types

LEMMA PauseStreamKeeps ==
  ASSUME IInv, PauseStream PROVE IInv'
<1>1. UNCHANGED <<rs, lost, chunks, state, w, sup, enabled, events>>
  BY DEF PauseStream, server
<1>2. chains' \in Seq(ChainRows) /\ RepoSame
  <2>0. chains \in Seq(ChainRows)
    BY ChainTypes
  <2>1. CASE ~Open(state.chain)
    BY <1>1, <2>0, <2>1 DEF PauseStream, EndChain, RepoSame
  <2>2. CASE Open(state.chain)
    <3>0. state.chain # 0 /\ state.chain \in 1..Len(chains) /\ chains[state.chain] \in ChainRows /\ state.last.ts \in 0..MaxTS
      BY <2>2, ChainTypes, EntryTypes DEF Open
    <3>1. chains' = [chains EXCEPT ![state.chain].end = state.last.ts, ![state.chain].reason = "stopped"]
      BY <2>2 DEF PauseStream, EndChain
    <3> DEFINE row == [chains[state.chain] EXCEPT !.end = state.last.ts, !.reason = "stopped"]
    <3>2. chains' = [chains EXCEPT ![state.chain] = row]
      BY <2>0, <3>0, <3>1
    <3>3. row \in ChainRows /\ row.start = chains[state.chain].start /\ row.reason = "stopped"
      BY <3>0 DEF ChainRows, Reasons
    <3> HIDE DEF row
    <3>4. chains' \in Seq(ChainRows) /\ Len(chains') = Len(chains)
      BY <2>0, <3>0, <3>2, <3>3
    <3>5. \A d \in 1..Len(chains) : chains'[d] = IF d = state.chain THEN row ELSE chains[d]
      BY <2>0, <3>2
    <3> QED
      BY <1>1, <3>3, <3>4, <3>5 DEF RepoSame
  <2> QED
    BY <2>1, <2>2
<1>3. RepoInv' /\ ServerInv' /\ ChunksOf(state.chain)' = ChunksOf(state.chain) /\ Histories' = Histories
  BY <1>1, <1>2, RepoSameKeeps, ServerSame DEF IInv
<1>4. state.chain # 0 => chains'[state.chain].start = chains[state.chain].start
  BY <1>2, ChainTypes DEF RepoSame
<1>5. WorkerInv'
  BY <1>1, <1>3, <1>4 DEF IInv, WorkerInv, MemoryInv, ReadInv, GotInv, StepInv
<1> QED
  BY <1>1, <1>2, <1>3, <1>5 DEF IInv, Types

LEMMA CrashKeeps ==
  ASSUME IInv, Crash PROVE IInv'
<1>1. UNCHANGED <<rs, lost, chains, chunks, state, enabled>> /\ w' = Down /\ events < MaxEvents /\ events' = events + 1
      /\ sup' = [pc |-> "idle", want |-> [on |-> FALSE, version |-> 0]]
  BY DEF Crash, server, repo, Happens
<1>2. RepoInv' /\ ServerInv' /\ WorkerInv' /\ w' \in Workers
  BY <1>1, FreshKeeps
<1>3. events' \in 0..MaxEvents /\ rs'.term \in 1..(events' + 1)
  BY <1>1, OplogAssumption DEF IInv, Types
<1>4. sup' \in [pc : {"idle", "listed", "stopped"}, want : [on : BOOLEAN, version : Nat]]
  BY <1>1
<1> QED
  BY <1>1, <1>2, <1>3, <1>4 DEF IInv, Types

LEMMA StutterKeeps ==
  ASSUME IInv, UNCHANGED vars PROVE IInv'
<1>1. UNCHANGED <<rs, lost, chains, chunks, state, w, sup, enabled, events>>
  BY DEF vars, server, repo, control
<1>2. RepoInv' /\ ServerInv' /\ WorkerInv' /\ w' \in Workers
  BY <1>1, FreshKeeps
<1> QED
  BY <1>1, <1>2 DEF IInv, Types

LEMMA InitIInv == Init => IInv
<1> SUFFICES ASSUME Init PROVE IInv
  OBVIOUS
<1> DEFINE e == Entry(1, 1, 1)
<1>1. e \in Entries /\ e.ts = 1 /\ e.term = 1 /\ e.set = 1
  BY OplogAssumption DEF Entry, Entries
<1>2. /\ rs = [set |-> 1, log |-> {e}, term |-> 1, commit |-> 1, oldest |-> 1, stale |-> {}] /\ lost = {}
      /\ chains = <<>> /\ chunks = {} /\ state = NoState /\ w = Fresh(0) /\ events = 0
      /\ enabled = [on |-> TRUE, version |-> 0] /\ sup = [pc |-> "idle", want |-> [on |-> FALSE, version |-> 0]]
  BY DEF Init
<1> HIDE DEF e
<1>3. rs \in Servers /\ rs.log = {e} /\ rs.set = 1 /\ rs.term = 1 /\ rs.commit = 1 /\ rs.oldest = 1 /\ rs.stale = {}
  <2>1. {e} \in SUBSET Entries /\ {} \in SUBSET SUBSET Entries /\ 1 \in Positions
    BY <1>1, OplogAssumption DEF Positions
  <2> QED
    BY <1>2, <2>1 DEF Servers
<1>4. w \in Workers /\ w.pc = "idle" /\ ~w.checked /\ ~w.inclusive
  BY <1>2, DownFields
<1>5. state.chain = 0 /\ Len(chains) = 0 /\ chains \in Seq(ChainRows)
  BY <1>2 DEF NoState
<1>6. state \in [chain : Nat, last : Entries \cup {NoEntry}, set : 0..2]
  BY <1>2 DEF NoState
<1>7. Types
  BY <1>2, <1>3, <1>4, <1>5, <1>6, OplogAssumption DEF Types
<1>8. ServerInv
  BY <1>1, <1>2, <1>3 DEF ServerInv, LogOK
<1>9. RepoInv
  BY <1>2, <1>5 DEF RepoInv, ChainsInv, PositionInv, ChunksInv, OneHistory, ChunksOf
<1>10. WorkerInv
  BY <1>4 DEF WorkerInv, MemoryInv, ReadInv, GotInv, StepInv
<1> QED
  BY <1>7, <1>8, <1>9, <1>10 DEF IInv

LEMMA NextIInv == IInv /\ [Next]_vars => IInv'
<1> SUFFICES ASSUME IInv, [Next]_vars PROVE IInv'
  OBVIOUS
<1>1. CASE Server
  BY <1>1, ServerKeeps
<1>2. CASE Tick
  BY <1>2, LookKeeps, ConfirmKeeps, EndKeeps, ReadOplogKeeps, SupersedeKeeps, StartKeeps, AdoptKeeps, CommitKeeps DEF Tick
<1>3. CASE Fail
  BY <1>3, FailKeeps
<1>4. CASE Supervisor
  BY <1>4, SupervisorKeeps
<1>5. CASE DisableStream \/ ResumeStream \/ StartBase \/ EndDump \/ ReadTAfter
  BY <1>5, AsideKeeps
<1>6. CASE PauseStream
  BY <1>6, PauseStreamKeeps
<1>7. CASE Crash
  BY <1>7, CrashKeeps
<1>8. CASE UNCHANGED vars
  BY <1>8, StutterKeeps
<1> QED
  BY <1>1, <1>2, <1>3, <1>4, <1>5, <1>6, <1>7, <1>8 DEF Next

-----------------------------------------------------------------------------
(* The properties. *)

\* The inductive invariant gives the coherence of the repository.
LEMMA CoherentFromIInv == IInv => RepoCoherent
<1> SUFFICES ASSUME IInv PROVE RepoCoherent
  OBVIOUS
<1>1. TypeOK
  <2>1. rs.log \subseteq Entries /\ rs.commit \in 1..MaxTS /\ rs.oldest \in 1..rs.commit
    BY OplogAssumption DEF IInv, Types, Servers, Positions, ServerInv
  <2>2. \A c \in 1..Len(chains) : chains[c].reason \in {"open", "stopped", "gap", "diverged", "replica_set_changed"}
    BY ChainTypes DEF ChainRows, Reasons
  <2>3. \A k \in chunks : k.chain \in 1..Len(chains) /\ k.last \in Entries /\ k.got \subseteq Entries
    BY DEF IInv, Types, ChunkRows, RepoInv, ChunksInv
  <2>4. state.chain \in 0..Len(chains)
    BY ChainTypes
  <2>5. w.pc \in {"idle", "confirm", "reconfirm", "supersede", "end", "start", "adopt", "read", "commit"}
    BY DEF IInv, Types, Workers, PCs
  <2> QED
    BY <2>1, <2>2, <2>3, <2>4, <2>5 DEF TypeOK
<1>2. \A c \in 1..Len(chains) : Open(c) => c = Len(chains) /\ state.chain = c
  BY DEF Open, IInv, RepoInv, ChainsInv
<1>3. Open(state.chain) =>
         /\ \A k \in ChunksOf(state.chain) : k.last.ts <= state.last.ts
         /\ \/ \E k \in ChunksOf(state.chain) : k.last = state.last
            \/ ChunksOf(state.chain) = {} /\ chains[state.chain].start = state.last.ts
  BY DEF Open, IInv, RepoInv, PositionInv
<1> QED
  BY <1>1, <1>2, <1>3 DEF RepoCoherent

\* Of the chunks that fulfil a condition, one starts first.
LEMMA FirstOf ==
  ASSUME NEW R \in SUBSET ChunkRows, R # {}
  PROVE  \E k \in R : \A p \in R : ~(p.from < k.from)
<1> DEFINE Less == {ss \in Nat \X Nat : ss[1] < ss[2]}
           U == {k.from : k \in R}
<1>1. IsWellFoundedOn(Less, Nat)
  BY NatLessThanWellFounded DEF OpToRel
<1>2. U \in SUBSET Nat /\ U # {}
  BY OplogAssumption DEF ChunkRows, Positions
<1>3. PICK n \in U : \A y \in U : <<y, n>> \notin Less
  <2> HIDE DEF Less, U
  <2> QED
    BY <1>1, <1>2, WFMin
<1>4. PICK k \in R : n = k.from
  BY <1>3
<1>5. ASSUME NEW p \in R PROVE ~(p.from < k.from)
  <2>1. p.from \in U /\ k.from \in U /\ p.from \in Nat /\ k.from \in Nat
    BY <1>2
  <2>2. p.from < k.from => <<p.from, n>> \in Less
    BY <1>4, <2>1
  <2> QED
    BY <1>3, <2>1, <2>2
<1> QED
  BY <1>5

\* What is linked from i to j has all of a history between them.
LEMMA LinkedCovers ==
  ASSUME IInv, NEW c, NEW i \in Positions, NEW j \in Positions, Linked(Replay(c, i, j), i, j),
         NEW h \in Histories, \A k \in ChunksOf(c) : Stretch(k, h)
  PROVE  /\ Taken(Replay(c, i, j)) \ At(h, i) = Between(h, i, j)
         /\ \E k \in Replay(c, i, j) : k.from = i
<1> DEFINE R == Replay(c, i, j)
<1>0. i \in Nat /\ j \in Nat
  BY OplogAssumption DEF Positions
<1>1. \A k \in R : /\ k \in ChunkRows /\ Stretch(k, h) /\ i <= k.from /\ k.last.ts <= j
                   /\ k.from \in Nat /\ k.last.ts \in Nat /\ k.from <= k.last.ts
  BY EntryTypes, OplogAssumption DEF Replay, Live, ChunksOf, IInv, Types, ChunkRows, Positions, RepoInv, ChunksInv
<1>2. /\ \E k \in R : k.last.ts = j
      /\ \A k \in R : k.from = i \/ \E p \in R : p.from < k.from /\ p.last.ts = k.from
  BY DEF Linked
<1>3. h \in SUBSET Entries /\ \A e \in h : e.ts \in Nat
  BY ServerTypes, EntryTypes DEF IInv
<1> HIDE DEF R
<1>4. \E k \in R : k.from = i
  <2>1. R \in SUBSET ChunkRows /\ R # {}
    BY <1>1, <1>2
  <2>2. PICK k \in R : \A p \in R : ~(p.from < k.from)
    BY <2>1, FirstOf
  <2> QED
    BY <1>2, <2>2
<1>5. ASSUME NEW e \in UNION {k.got : k \in R}, e \notin At(h, i) PROVE e \in h /\ i < e.ts /\ e.ts <= j
  <2>1. PICK k \in R : e \in k.got
    OBVIOUS
  <2>2. e \in h /\ k.from <= e.ts /\ e.ts <= k.last.ts
    BY <1>1, <2>1 DEF Stretch
  <2>3. e.ts # i
    BY <1>5, <2>2 DEF At
  <2> QED
    BY <1>0, <1>1, <1>3, <2>1, <2>2, <2>3
<1>6. ASSUME NEW e \in h, i < e.ts, e.ts <= j PROVE e \in UNION {k.got : k \in R}
  <2> DEFINE S == {k \in R : e.ts <= k.last.ts}
  <2>1. S \in SUBSET ChunkRows /\ S # {}
    BY <1>1, <1>2, <1>6
  <2>2. PICK k \in S : \A p \in S : ~(p.from < k.from)
    <3> HIDE DEF S
    <3> QED
      BY <2>1, FirstOf
  <2>3. k.from < e.ts
    <3>1. SUFFICES ASSUME ~(k.from < e.ts) PROVE FALSE
      OBVIOUS
    <3>2. k.from # i /\ e.ts <= k.from
      BY <1>0, <1>1, <1>3, <1>6, <2>2, <3>1
    <3>3. PICK p \in R : p.from < k.from /\ p.last.ts = k.from
      BY <1>2, <2>2, <3>2
    <3> QED
      BY <2>2, <3>2, <3>3
  <2>4. e \in k.got
    BY <1>1, <1>6, <2>2, <2>3 DEF Stretch
  <2> QED
    BY <2>2, <2>4
<1>7. \A e \in h : i < e.ts => e \notin At(h, i)
  BY <1>0 DEF At
<1>8. Taken(R) \ At(h, i) = Between(h, i, j)
  <2>1. \A e \in Taken(R) : e \notin At(h, i) => e \in Between(h, i, j)
    BY <1>5 DEF Taken, Between
  <2>2. \A e \in Between(h, i, j) : e \in Taken(R) /\ e \notin At(h, i)
    BY <1>6, <1>7 DEF Taken, Between
  <2> QED
    BY <2>1, <2>2
<1> QED
  BY <1>4, <1>8 DEF R

\* What is replayed is an unbroken stretch of one history.
LEMMA UnbrokenFromIInv == IInv => ReplayUnbroken
<1> SUFFICES ASSUME IInv, NEW c \in 1..Len(chains), NEW i \in 1..MaxTS, NEW j \in 1..MaxTS, Linked(Replay(c, i, j), i, j)
             PROVE  /\ \A k, l \in Replay(c, i, j) : k # l => k.got \cap l.got = {}
                    /\ \E h \in Histories :
                         /\ Taken(Replay(c, i, j)) \ At(h, i) = Between(h, i, j)
                         /\ chains[c].start = i => At(h, i) \subseteq Taken(Replay(c, i, j))
  BY DEF ReplayUnbroken
<1> DEFINE R == Replay(c, i, j)
<1>1. i \in Positions /\ j \in Positions /\ i \in Nat /\ j \in Nat
  BY OplogAssumption DEF Positions
<1>2. PICK h \in Histories : \A k \in ChunksOf(c) : Stretch(k, h)
  BY DEF IInv, RepoInv, OneHistory
<1>3. /\ Taken(R) \ At(h, i) = Between(h, i, j)
      /\ \E k \in R : k.from = i
  BY <1>1, <1>2, LinkedCovers
<1>4. \A k, l \in R : k # l => k.got \cap l.got = {}
  BY DEF Replay, Live, ChunksOf, IInv, RepoInv, ChunksInv
<1>5. ASSUME chains[c].start = i, NEW e \in At(h, i) PROVE e \in Taken(R)
  <2>1. PICK k \in R : k.from = i
    BY <1>3
  <2>2. k \in chunks /\ k.chain = c /\ StartKept(k) /\ k.from <= k.last.ts /\ k.last.ts <= j /\ k.last.ts \in Nat
    BY EntryTypes DEF Replay, Live, ChunksOf, IInv, Types, ChunkRows, RepoInv, ChunksInv
  <2>3. \E p \in R : HoldsStart(p) /\ p.from = i
    <3>1. CASE HoldsStart(k)
      BY <2>1, <3>1
    <3>2. ASSUME NEW p \in ChunksOf(c), p.status = "committed", p.from = i, p.last.ts = i, HoldsStart(p)
          PROVE  p \in R
      BY <1>1, <2>1, <2>2, <3>2 DEF Replay, Live
    <3> QED
      BY <1>5, <2>1, <2>2, <3>1, <3>2 DEF StartKept
  <2>4. PICK p \in R : \E f \in p.got : f.ts = i
    BY <2>3 DEF HoldsStart
  <2> PICK f \in p.got : f.ts = i
    BY <2>4
  <2>5. f \in h
    BY <1>2, <2>4 DEF Replay, Live, Stretch
  <2>6. f = e
    BY <1>5, <2>4, <2>5, HistoriesAgree DEF At, LogOK, IInv
  <2> QED
    BY <2>4, <2>6 DEF Taken
<1> QED
  BY <1>3, <1>4, <1>5

\* A base whose consistent point was never lost is on the history of the chain that covers it.
LEMMA CoveredFromIInv == IInv => CoveredBaseOnChain
<1> SUFFICES ASSUME IInv, base.after \in Committed, NEW c \in 1..Len(chains), NEW i \in 1..MaxTS, NEW j \in 1..MaxTS,
                    Covers(Replay(c, i, j), i, j), \A k \in Replay(c, i, j) : k.last.set = base.after.set,
                    base.after.ts # i
             PROVE  base.after \in Taken(Replay(c, i, j))
  BY DEF CoveredBaseOnChain
<1> DEFINE R == Replay(c, i, j)
           a == base.after
<1>1. PICK k \in R : /\ k.from < a.ts \/ (k.from = a.ts /\ k.from = i)
                     /\ a.ts <= k.last.ts /\ a.term <= k.last.term
  BY DEF Covers
<1>2. PICK h \in Histories : \A q \in ChunksOf(c) : Stretch(q, h)
  BY DEF IInv, RepoInv, OneHistory
<1>3. k \in ChunksOf(c) /\ Stretch(k, h) /\ k.last \in h /\ k.last.set = a.set /\ k.last \in Entries
  BY <1>2 DEF Replay, Live, Stretch, IInv, Types, ChunkRows, ChunksOf
<1>4. a \in rs.log /\ a \in Entries
  BY ServerTypes DEF Committed, UpTo, IInv
<1>5. a \in h
  <2>1. SUFFICES ASSUME a \notin h PROVE FALSE
    OBVIOUS
  <2>2. h \in lost
    BY <2>1 DEF Histories
  <2>3. Older(k.last, a)
    BY <1>3, <1>4, <2>1, <2>2 DEF IInv, ServerInv, LostOK
  <2> QED
    BY <1>1, <1>3, <1>4, <2>3, EntryTypes DEF Older
<1>6. k.from < a.ts
  BY <1>1
<1>7. a \in k.got
  BY <1>1, <1>3, <1>5, <1>6 DEF Stretch
<1> QED
  BY <1>7 DEF Taken

\* The repository is coherent between any two steps of a tick (CommitChunk, StartChain and EndChain
\* are separate transactions), whatever fails, crashes or pauses in between.
THEOREM Coherent == Spec => []RepoCoherent
<1>1. IInv /\ [Next]_vars => IInv'
  BY NextIInv
<1> QED
  BY <1>1, InitIInv, CoherentFromIInv, PTL DEF Spec

\* What a restore replays from a chain is an unbroken stretch of one history: none of its entries
\* is missing, none comes twice and none is of another history.
THEOREM Unbroken == Spec => []ReplayUnbroken
<1>1. IInv /\ [Next]_vars => IInv'
  BY NextIInv
<1> QED
  BY <1>1, InitIInv, UnbrokenFromIInv, PTL DEF Spec

\* A base that the coverage check accepts for a chain is replayed on the history it was taken from.
THEOREM CoveredOnChain == Spec => []CoveredBaseOnChain
<1>1. IInv /\ [Next]_vars => IInv'
  BY NextIInv
<1> QED
  BY <1>1, InitIInv, CoveredFromIInv, PTL DEF Spec

\* The decisions to give up stay right until they are carried out.
LEMMA NextCause == PrimaryLags = FALSE /\ IInv /\ CauseInv /\ [Next]_vars => CauseInv'
<1> SUFFICES ASSUME PrimaryLags = FALSE, IInv, CauseInv, [Next]_vars PROVE CauseInv'
  OBVIOUS
<1>1. CASE Server
  BY <1>1, ServerKeepsCause
<1>2. ASSUME w'.pc \notin {"supersede", "end"} PROVE CauseInv'
  BY <1>2 DEF CauseInv
<1>3. ASSUME UNCHANGED <<rs, lost, chunks, state, w>> PROVE CauseInv'
  BY <1>3, ServerSame DEF CauseInv, Live, ChunksOf
<1>4. w \in Workers /\ Idle(w).pc = "idle" /\ \A n \in Nat : Fresh(n).pc = "idle"
  BY IdleFields, DownFields DEF IInv, Types
<1>5. ASSUME NEW v \in Pin(state.last.ts), Look(v) PROVE CauseInv'
  <2>1. CASE Proceed(v) /\ state.chain # 0
    <3>1. ViewOK(v) /\ UNCHANGED <<rs, lost>>
      BY <1>5, TickViews DEF IInv, Look, server
    <3>2. w'.pc \in {"idle", "read"}
      BY <2>1, <3>1, ProceedKeeps
    <3> QED
      BY <1>2, <3>2
  <2>2. ASSUME NEW s, w' = [Idle(w) EXCEPT !.pc = "confirm", !.set = s] PROVE CauseInv'
    <3>1. w'.pc = "confirm"
      <4> DEFINE i == Idle(w)
      <4>1. i \in Workers /\ w' = [i EXCEPT !.pc = "confirm", !.set = s]
        BY <1>4, <2>2, IdleFields
      <4> HIDE DEF i
      <4> QED
        BY <4>1 DEF Workers
    <3> QED
      BY <1>2, <3>1
  <2>3. ASSUME NEW op, NEW why, NEW s, Begin(op, why, s) PROVE CauseInv'
    <3>1. w'.pc = "start"
      <4> DEFINE i == Idle(w)
      <4>1. i \in Workers /\ w' = [i EXCEPT !.set = s, !.pc = "start", !.op = op, !.why = why]
        BY <1>4, <2>3, IdleFields DEF Begin
      <4> HIDE DEF i
      <4> QED
        BY <4>1 DEF Workers
    <3> QED
      BY <1>2, <3>1
  <2> QED
    BY <1>5, <2>1, <2>2, <2>3 DEF Look, Resume
<1>6. ASSUME NEW v \in PrimaryViews, Confirm(v) PROVE CauseInv'
  BY <1>6, ConfirmCause
<1>7. ASSUME NEW v \in PrimaryViews, End(v) PROVE CauseInv'
  <2>1. \E op, why, s : Begin(op, why, s)
    BY <1>7 DEF End
  <2>2. PICK op, why, s : Begin(op, why, s)
    BY <2>1
  <2>3. w'.pc = "start"
    <3> DEFINE i == Idle(w)
    <3>1. i \in Workers /\ w' = [i EXCEPT !.set = s, !.pc = "start", !.op = op, !.why = why]
      BY <1>4, <2>2, IdleFields DEF Begin
    <3> HIDE DEF i
    <3> QED
      BY <3>1 DEF Workers
  <2> QED
    BY <1>2, <2>3
<1>8. ASSUME NEW v \in Later, ReadOplog(v) PROVE CauseInv'
  <2>1. \/ w' = [w EXCEPT !.pc = "reconfirm"] \/ w' = Idle(w) \/ \E g : w' = [w EXCEPT !.pc = "commit", !.got = g]
    BY <1>8 DEF ReadOplog
  <2>2. w'.pc \in {"reconfirm", "idle", "commit"}
    BY <1>4, <2>1 DEF Workers
  <2> QED
    BY <1>2, <2>2
<1>9. CASE Supersede
  <2>1. /\ UNCHANGED <<rs, lost, chains, state>> /\ w.pc = "supersede" /\ w' = [w EXCEPT !.pc = "end"]
        /\ SupersedeChunks(state.chain, w.op.ts)
    BY <1>9 DEF Supersede, server
  <2>2. w'.pc = "end" /\ w'.why = w.why
    BY <1>4, <2>1 DEF Workers
  <2>3. \A q \in ChunksOf(state.chain)' : ChunksOf(state.chain) # {}
    <3>1. SUFFICES ASSUME NEW q \in ChunksOf(state.chain)' PROVE ChunksOf(state.chain) # {}
      OBVIOUS
    <3>2. PICK k \in chunks : q = Superseded(k, state.chain, w.op.ts)
      BY <2>1 DEF SupersedeChunks, ChunksOf, Superseded
    <3>3. q.chain = k.chain /\ q.chain = state.chain
      BY <2>1, <3>2, SupersededFields DEF ChunksOf, IInv, Types
    <3> QED
      BY <3>3 DEF ChunksOf
  <2> QED
    BY <2>1, <2>2, <2>3, ServerSame DEF CauseInv
<1>10. CASE Start
  <2> DEFINE started == [w EXCEPT !.checked = TRUE, !.inclusive = TRUE]
  <2>1. w' = [started EXCEPT !.pc = "adopt"] \/ w' = Idle(started)
    BY <1>10 DEF Start
  <2>2. started \in Workers
    BY <1>4 DEF Workers
  <2> HIDE DEF started
  <2>3. w'.pc \in {"adopt", "idle"}
    BY <2>1, <2>2, IdleFields DEF Workers
  <2> QED
    BY <1>2, <2>3
<1>11. CASE Adopt \/ Commit
  <2>1. PICK x : w' = Idle(x) /\ x \in Workers
    <3>1. CASE Adopt
      <4>1. w' = Idle([w EXCEPT !.set = w.op.set]) /\ w.op.set \in 0..2
        BY <1>4, <3>1 DEF Adopt, Workers
      <4>2. [w EXCEPT !.set = w.op.set] \in Workers
        BY <1>4, <4>1 DEF Workers
      <4> QED
        BY <4>1, <4>2
    <3>2. CASE Commit
      <4>1. w' = Idle([w EXCEPT !.inclusive = FALSE])
        BY <3>2 DEF Commit
      <4>2. [w EXCEPT !.inclusive = FALSE] \in Workers
        BY <1>4 DEF Workers
      <4> QED
        BY <4>1, <4>2
    <3> QED
      BY <1>11, <3>1, <3>2
  <2> QED
    BY <1>2, <2>1, IdleFields
<1>12. CASE Fail
  BY <1>2, <1>4, <1>12 DEF Fail
<1>13. CASE Supervisor \/ Crash
  <2>1. UNCHANGED <<rs, lost, chunks, state>> /\ w' \in {Down, Fresh(sup.want.version), w}
    BY <1>13 DEF Supervisor, List, StopWorker, StartWorker, Crash, server, repo
  <2>2. sup.want.version \in Nat /\ Down.pc = "idle"
    BY DownFields DEF IInv, Types
  <2> QED
    BY <1>2, <1>3, <1>4, <2>1, <2>2
<1>14. CASE DisableStream \/ ResumeStream \/ PauseStream \/ StartBase \/ EndDump \/ ReadTAfter \/ UNCHANGED vars
  <2>1. UNCHANGED <<rs, lost, chunks, state, w>>
    BY <1>14 DEF DisableStream, ResumeStream, PauseStream, StartBase, EndDump, ReadTAfter, vars, server, repo
  <2> QED
    BY <1>3, <2>1
<1>15. CASE Tick
  BY <1>5, <1>6, <1>7, <1>8, <1>9, <1>10, <1>11, <1>15 DEF Tick
<1> QED
  BY <1>1, <1>12, <1>13, <1>14, <1>15 DEF Next

\* The actions that end a chain or supersede chunks.
LEMMA GivingUp ==
  ASSUME [Next]_vars
  PROVE  \/ \E v \in PrimaryViews : End(v)
         \/ Supersede \/ PauseStream \/ Start \/ Commit \/ UNCHANGED <<chains, chunks>>
<1>1. ASSUME NEW v, Look(v) PROVE UNCHANGED <<chains, chunks>>
  BY <1>1 DEF Look, Proceed, repo
<1>2. ASSUME NEW v, Confirm(v) PROVE UNCHANGED <<chains, chunks>>
  BY <1>2 DEF Confirm, Proceed, repo
<1>3. ASSUME NEW v, ReadOplog(v) PROVE UNCHANGED <<chains, chunks>>
  BY <1>3 DEF ReadOplog, repo
<1>4. ASSUME Adopt \/ Fail \/ Supervisor \/ Crash \/ UNCHANGED vars PROVE UNCHANGED <<chains, chunks>>
  BY <1>4 DEF Adopt, Fail, Supervisor, List, StopWorker, StartWorker, Crash, vars, repo
<1>5. ASSUME DisableStream \/ ResumeStream \/ StartBase \/ EndDump \/ ReadTAfter PROVE UNCHANGED <<chains, chunks>>
  BY <1>5 DEF DisableStream, ResumeStream, StartBase, EndDump, ReadTAfter, repo
<1> QED
  BY <1>1, <1>2, <1>3, <1>4, <1>5, ServerLeaves DEF Next, Tick

\* A step that gives up a chunk or a chain does so for a cause.
GivesUpForCause ==
    /\ \A k \in chunks : k.status = "committed" /\ k \notin chunks' => k.last \notin Held
    /\ \A c \in 1..Len(chains) :
         Open(c) /\ Live(c) # {} /\ chains'[c].reason \in {"gap", "diverged"} => state.last \notin Held

LEMMA StepForCause == IInv /\ CauseInv /\ [Next]_vars => GivesUpForCause
<1> SUFFICES ASSUME IInv, CauseInv, [Next]_vars PROVE GivesUpForCause
  OBVIOUS
<1>1. ASSUME chunks' = chunks, \A c \in 1..Len(chains) : Open(c) => chains'[c].reason \notin {"gap", "diverged"}
      PROVE  GivesUpForCause
  BY <1>1 DEF GivesUpForCause
<1>2. ASSUME UNCHANGED <<chains, chunks>> PROVE GivesUpForCause
  BY <1>1, <1>2 DEF Open
<1>3. ASSUME NEW v \in PrimaryViews, End(v) PROVE GivesUpForCause
  <2>1. chunks' = chunks /\ w.pc = "end" /\ EndChain(state.chain, w.op.ts, w.why)
    BY <1>3 DEF End
  <2>2. ASSUME NEW c \in 1..Len(chains), Open(c), Live(c) # {}, chains'[c].reason \in {"gap", "diverged"}
        PROVE  state.last \notin Held
    <3>1. c = state.chain /\ chains \in Seq(ChainRows)
      BY <2>2, CoherentFromIInv, ChainTypes DEF RepoCoherent
    <3>2. chains' = [chains EXCEPT ![c].end = w.op.ts, ![c].reason = w.why]
      BY <2>1, <2>2, <3>1 DEF EndChain
    <3>3. chains[c] \in ChainRows
      BY <2>2, ChainTypes
    <3>4. chains'[c].reason = w.why
      BY <2>2, <3>1, <3>2, <3>3 DEF ChainRows
    <3>5. ChunksOf(state.chain) # {}
      BY <2>2, <3>1 DEF Live
    <3> QED
      BY <2>1, <2>2, <3>4, <3>5 DEF CauseInv
  <2> QED
    BY <2>1, <2>2 DEF GivesUpForCause
<1>4. CASE Supersede
  <2>1. w.pc = "supersede" /\ chains' = chains
        /\ chunks' = {Superseded(k, state.chain, w.op.ts) : k \in chunks}
    BY <1>4 DEF Supersede, SupersedeChunks, Superseded
  <2>2. ASSUME NEW k \in chunks, k \notin chunks' PROVE k.last \notin Held
    <3>1. Superseded(k, state.chain, w.op.ts) \in chunks'
      BY <2>1
    <3>2. k \in Live(state.chain) /\ k.last.ts > w.op.ts
      BY <2>2, <3>1 DEF Superseded
    <3>3. k.last.ts \in Nat /\ w.op.ts \in Nat
      BY EntryTypes, OplogAssumption DEF IInv, Types, ChunkRows, Workers
    <3> QED
      BY <2>1, <3>2, <3>3 DEF CauseInv
  <2> QED
    BY <2>1, <2>2 DEF GivesUpForCause, Open
<1>5. CASE PauseStream
  <2>1. chunks' = chunks /\ EndChain(state.chain, state.last.ts, "stopped")
    BY <1>5 DEF PauseStream
  <2>2. ASSUME NEW c \in 1..Len(chains), Open(c) PROVE chains'[c].reason \notin {"gap", "diverged"}
    <3>1. c = state.chain
      BY <2>2, CoherentFromIInv DEF RepoCoherent
    <3>2. chains' = [chains EXCEPT ![c].end = state.last.ts, ![c].reason = "stopped"]
      BY <2>1, <2>2, <3>1 DEF EndChain
    <3>3. chains[c] \in ChainRows /\ chains \in Seq(ChainRows)
      BY <2>2, ChainTypes
    <3> QED
      BY <2>2, <3>2, <3>3 DEF ChainRows
  <2> QED
    BY <1>1, <2>1, <2>2
<1>6. CASE Start
  <2>1. chunks' = chunks /\ \A c \in 1..Len(chains) : ~Open(c)
    BY <1>6 DEF Start, StartChain
  <2> QED
    BY <1>1, <2>1
<1>7. CASE Commit
  <2>1. chunks \subseteq chunks' /\ chains' = chains
    BY <1>7 DEF Commit, CommitChunk
  <2> QED
    BY <2>1 DEF GivesUpForCause, Open
<1> QED
  BY <1>2, <1>3, <1>4, <1>5, <1>6, <1>7, GivingUp

\* Where the primary knows what is committed, a chunk is superseded, and a chain with chunks is ended
\* for a gap or a divergence, only when the replica set no longer has the entry it ends with: also when
\* the worker failed, the oplog went on or was truncated between the decision and the step.
THEOREM ForCause == ASSUME PrimaryLags = FALSE PROVE Spec => GivenUpForCause
<1>1. Init => IInv /\ CauseInv
  <2>1. Init => w.pc = "idle"
    BY DownFields DEF Init
  <2> QED
    BY <2>1, InitIInv DEF CauseInv
<1>2. IInv /\ CauseInv /\ [Next]_vars => IInv' /\ CauseInv'
  BY NextIInv, NextCause
<1>3. IInv /\ CauseInv /\ [Next]_vars => [GivesUpForCause]_vars
  BY StepForCause
<1>4. GivenUpForCause <=> [][GivesUpForCause]_vars
  BY DEF GivenUpForCause, GivesUpForCause
<1> QED
  BY <1>1, <1>2, <1>3, <1>4, PTL DEF Spec

=============================================================================
