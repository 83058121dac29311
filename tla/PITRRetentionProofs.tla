------------------------- MODULE PITRRetentionProofs -------------------------
(***************************************************************************)
(* Proofs about PITRRetention, for every number of positions, events,      *)
(* targets, kept bases and attempts: the object of a chunk that is         *)
(* committed and not deleted is there (CommittedStored), a restore that    *)
(* started finds all it planned (PlanReadable), and retention takes no     *)
(* point in time from a base it keeps (WindowsKept).                       *)
(*                                                                         *)
(* The argument goes by variables, not by actions: which actions write     *)
(* one, and how its value may turn (Turned, BaseTurned, StoredNext).  The  *)
(* inductive invariant IInv adds what the three deletions of objects rely  *)
(* on: a chunk that is being stored has a key no row has and an object     *)
(* that no sweep took for an orphan (UploadSafe), a purge only holds keys  *)
(* of rows that are due (DueOnly), and a plan that passed its check keeps  *)
(* its rows and is in no purge's list (PlanKept).  WInv, for WindowsKept,  *)
(* says what remains true, until the deletion, of what retention decided   *)
(* on: a chunk it will delete and that a kept base might need is of a      *)
(* chain that base is not restored from, and never will be (KeptInv).      *)
(***************************************************************************)
EXTENDS PITRRetention, FiniteSetTheorems, SequenceTheorems, WellFoundedInduction, TLAPS

\* A chunk whose object is stored and whose row is not has a key that no row has.
UploadNew == upload # NoChunk => \A r \in rows : r.key # upload.key

\* A chunk whose object is stored and whose row is not: no row has its key, its object is
\* there and young, and no sweep has listed it.
UploadSafe ==
    upload # NoChunk =>
      /\ \A r \in rows : r.key # upload.key
      /\ upload.key \in Stored /\ \A o \in objects : o.key = upload.key => ~o.old
      /\ ret.pc = "sweep" => upload.key \notin ret.keys

\* The purge of chunks holds only keys of rows whose grace period is over.
DueOnly ==
    ret.pc = "purge" => \A k \in ret.keys : \E r \in rows : r.key = k /\ r.life = "due"

\* The base that is being purged is due, so it is no completed one.
PurgeDue == purging # 0 => bases[purging].status = "due"

\* A restore that reads has its base and the object and the row of every chunk it planned,
\* and no purge has any of them in its list.
PlanKept ==
    restore.pc = "reading" =>
      /\ restore.base \in Completed
      /\ \A k \in restore.chunks :
           /\ k.key \in Stored
           /\ \E r \in rows : r.key = k.key /\ r.status # "pruned"
           /\ ret.pc = "purge" => k.key \notin ret.keys

\* The object of a row that is committed and not deleted is there.
LiveStored == \A r \in rows : Live(r) => r.key \in Stored

\* The inductive invariant.
IInv == TypeOK /\ UploadSafe /\ DueOnly /\ PurgeDue /\ PlanKept /\ LiveStored

\* A bounded, nonempty set of numbers has its maximum, and that is Max.
LEMMA MaxIn ==
  ASSUME NEW S \in SUBSET Nat, S # {}, NEW n \in Nat, \A x \in S : x <= n
  PROVE  Max(S) \in S /\ \A x \in S : x <= Max(S)
<1> DEFINE Greater == {ss \in Nat \X Nat : ss[1] < ss[2]}
           T == {n - x : x \in S}
<1>1. IsWellFoundedOn(Greater, Nat)
  BY NatLessThanWellFounded DEF OpToRel
<1>2. T \in SUBSET Nat /\ T # {}
  <2>1. ASSUME NEW x \in S PROVE n - x \in Nat
    OBVIOUS
  <2>2. PICK x \in S : TRUE
    OBVIOUS
  <2> QED
    BY <2>1, <2>2
<1>3. PICK m \in T : \A y \in T : <<y, m>> \notin Greater
  <2> HIDE DEF Greater, T
  <2> QED
    BY <1>1, <1>2, WFMin
<1>4. PICK x \in S : m = n - x
  BY <1>3
<1>5. ASSUME NEW y \in S PROVE y <= x
  <2>1. SUFFICES ASSUME x < y PROVE FALSE
    BY <1>4
  <2>2. n - y \in T /\ n - y \in Nat /\ m \in Nat /\ n - y < m
    BY <1>4, <1>5, <2>1
  <2>3. <<n - y, m>> \in Nat \X Nat /\ <<n - y, m>>[1] = n - y /\ <<n - y, m>>[2] = m
    BY <2>2
  <2>4. <<n - y, m>> \in Greater
    BY <2>2, <2>3
  <2> QED
    BY <1>3, <2>2, <2>4
<1> QED
  BY <1>4, <1>5 DEF Max

\* A nonempty set of numbers has its minimum, and that is Min.
LEMMA MinIn ==
  ASSUME NEW S \in SUBSET Nat, S # {}
  PROVE  Min(S) \in S /\ \A x \in S : Min(S) <= x
<1> DEFINE Less == {ss \in Nat \X Nat : ss[1] < ss[2]}
<1>1. IsWellFoundedOn(Less, Nat)
  BY NatLessThanWellFounded DEF OpToRel
<1>2. PICK m \in S : \A y \in S : <<y, m>> \notin Less
  <2> HIDE DEF Less
  <2> QED
    BY <1>1, WFMin
<1>3. ASSUME NEW y \in S PROVE m <= y
  <2>1. SUFFICES ASSUME y < m PROVE FALSE
    OBVIOUS
  <2>2. <<y, m>> \in Nat \X Nat /\ <<y, m>>[1] = y /\ <<y, m>>[2] = m
    OBVIOUS
  <2>3. <<y, m>> \in Less
    BY <2>1, <2>2
  <2> QED
    BY <1>2, <2>3
<1> QED
  BY <1>3 DEF Min

\* The position of a chain is one the server has reached, at or after every chunk of it.
LEMMA PosIn ==
  ASSUME TypeOK, NEW c \in Chains
  PROVE  Pos(c) \in 1..srv /\ chains[c].start <= Pos(c) /\ \A r \in rows : r.chain = c => r.to <= Pos(c)
<1> DEFINE S == {chains[c].start} \cup {r.to : r \in {q \in rows : q.chain = c}}
<1>1. chains[c].start \in S /\ \A r \in rows : r.chain = c => r.to \in S
  OBVIOUS
<1>2. S \in SUBSET Nat /\ \A x \in S : x \in 1..srv
  BY DEF TypeOK, ChainsOK, RowsOK, ChunkOK, Rows
<1>3. srv \in Nat
  BY DEF TypeOK, ChainsOK
<1>4. Max(S) \in S /\ \A x \in S : x <= Max(S)
  <2> HIDE DEF S
  <2> QED
    BY <1>1, <1>2, <1>3, MaxIn
<1>5. Pos(c) = Max(S)
  BY DEF Pos
<1> HIDE DEF S
<1> QED
  BY <1>1, <1>2, <1>4, <1>5

\* What may become of row r in a step: it stays the same chunk, it never becomes live or good
\* again, only retention or a divergence of its chain ends its life, a row that is due stays
\* due, and only a purge prunes it.
Turned(r) ==
    {q \in Rows : /\ q.chain = r.chain /\ q.from = r.from /\ q.to = r.to /\ q.key = r.key
                  /\ Live(q) => Live(r)
                  /\ Live(r) /\ ~Live(q) => DeleteChunks \/ (Diverge /\ r.chain = Current)
                  /\ ~q.bad => ~r.bad
                  /\ r.life = "due" => q.life = "due"
                  /\ q.status = "pruned" => r.status = "pruned" \/ (ret.pc = "purge" /\ r.key \in ret.keys)}

\* No row is added in this step, and each becomes one of those it may turn into.
RowsTurn == \E f \in [rows -> Rows] : rows' = {f[r] : r \in rows} /\ \A r \in rows : f[r] \in Turned(r)

\* The actions that change the server's position or the chains.
LEMMA ChainsWriters ==
  ASSUME Next PROVE ServerWrites \/ StartStream \/ BreakChain \/ Diverge \/ UNCHANGED <<srv, chains>>
BY DEF Next, Collector, Retention, Restore, Purge, SaveChunk, CommitChunk, FailChunk, VerifyFails, StartBase,
    EndBase, StartRestore, PinPlan, CheckPlan,
  EndRestore, RetainStream, PurgeOrphan, SnapshotPins, PurgeChunk, PlanRetention, DeleteBase, DeleteChunks,
      PurgeBase, DeleteArchive, TimePasses, Crash, stream

\* The count of events stays a number.
LEMMA EventsNext ==
  ASSUME ChainsOK, Next PROVE events' \in Nat
<1>1. Next => events' = events \/ events' = events + 1
  <2>1. Collector \/ ServerWrites => events' = events
    BY DEF Collector, ServerWrites, StartStream, SaveChunk, CommitChunk
  <2>2. Retention \/ Purge \/ TimePasses => events' = events
    BY DEF Retention, RetainStream, PurgeOrphan, SnapshotPins, PurgeChunk, PlanRetention, DeleteBase, DeleteChunks,
           Purge, PurgeBase, DeleteArchive, TimePasses
  <2>3. StartRestore \/ Restore => events' = events
    BY DEF StartRestore, Restore, PinPlan, CheckPlan, EndRestore
  <2>4. FailChunk \/ BreakChain \/ Diverge \/ VerifyFails \/ Crash => events' = events + 1
    BY DEF FailChunk, BreakChain, Diverge, VerifyFails, Crash, Happens
  <2>5. StartBase \/ EndBase => events' = events \/ events' = events + 1
    BY DEF StartBase, EndBase, Happens
  <2> QED
    BY <2>1, <2>2, <2>3, <2>4, <2>5 DEF Next
<1> QED
  BY <1>1 DEF ChainsOK

\* The chain that BreakChain and Diverge end, and the one they start.
LEMMA NextChain ==
  ASSUME ChainsOK, Current # 0, NEW n \in 1..srv,
         chains' = Append([chains EXCEPT ![Current].open = FALSE], [start |-> n, open |-> TRUE]), srv' = srv, events' \in Nat
  PROVE  ChainsOK' /\ Chains \subseteq Chains'
<1> DEFINE cut == [chains EXCEPT ![Current].open = FALSE]
           new == [start |-> n, open |-> TRUE]
<1>1. chains \in Seq(ChainRecords) /\ Len(chains) \in Nat /\ Current \in Chains /\ Current = Len(chains) /\ chains[Current] \in ChainRecords
  BY ElementOfSeq DEF ChainsOK, Current, Chains
<1>2. cut \in Seq(ChainRecords) /\ Len(cut) = Len(chains) /\ \A c \in Chains : cut[c].start = chains[c].start
  <2> DEFINE e == [chains[Current] EXCEPT !.open = FALSE]
  <2>1. e \in ChainRecords /\ e.start = chains[Current].start
    BY <1>1 DEF ChainRecords
  <2>2. cut = [chains EXCEPT ![Current] = e]
    OBVIOUS
  <2> HIDE DEF e, cut
  <2> QED
    BY <1>1, <2>1, <2>2, ExceptSeq DEF Chains
<1>3. new \in ChainRecords /\ new.start = n
  BY DEF ChainsOK, ChainRecords
<1>4. chains' = Append(cut, new)
  OBVIOUS
<1> HIDE DEF cut, new
<1>5. /\ chains' \in Seq(ChainRecords) /\ Len(chains') = Len(chains) + 1 /\ chains'[Len(chains) + 1] = new
      /\ \A c \in Chains : chains'[c] = cut[c]
  <2>0. cut \in Seq(ChainRecords) /\ new \in ChainRecords
    BY <1>2, <1>3
  <2>1. /\ Append(cut, new) \in Seq(ChainRecords) /\ Len(Append(cut, new)) = Len(cut) + 1 /\ Append(cut, new)[Len(cut) + 1] = new
        /\ \A c \in 1..Len(cut) : Append(cut, new)[c] = cut[c]
    BY <2>0, AppendProperties
  <2> QED
    BY <1>2, <1>4, <2>1, Zenon DEF Chains
<1>6. ASSUME NEW c \in Chains' PROVE chains'[c].start \in 1..srv'
  <2>1. c \in Chains \/ c = Len(chains) + 1
    BY <1>1, <1>5 DEF Chains
  <2> QED
    BY <1>2, <1>3, <1>5, <2>1 DEF ChainsOK
<1>7. Chains \subseteq Chains'
  BY <1>1, <1>5 DEF Chains
<1> QED
  BY <1>5, <1>6, <1>7 DEF ChainsOK

\* The server's position and the chains only grow.
LEMMA ChainsNext ==
  ASSUME TypeOK, Next
  PROVE  ChainsOK' /\ srv <= srv' /\ Chains \subseteq Chains'
<1> USE EventsNext
<1>0. ChainsOK
  BY DEF TypeOK
<1>1. CASE ServerWrites
  BY <1>0, <1>1 DEF ServerWrites, ChainsOK, Chains
<1>2. CASE StartStream
  <2>1. chains' = <<[start |-> srv, open |-> TRUE]>> /\ srv' = srv /\ Chains = {} /\ srv \in Nat
    BY <1>0, <1>2 DEF StartStream, ChainsOK, Chains
  <2>2. [start |-> srv, open |-> TRUE] \in ChainRecords
    BY <1>0 DEF ChainsOK, ChainRecords
  <2> QED
    BY <1>0, <2>1, <2>2 DEF ChainsOK, Chains
<1>3. CASE BreakChain
  <2>1. PICK n \in Pos(Current) + 1..srv :
          chains' = Append([chains EXCEPT ![Current].open = FALSE], [start |-> n, open |-> TRUE])
    BY <1>3 DEF BreakChain
  <2>2. Current # 0 /\ srv' = srv /\ Current \in Chains /\ srv \in Nat
    BY <1>0, <1>3 DEF BreakChain, Current, Chains, ChainsOK
  <2>3. n \in 1..srv
    BY <2>1, <2>2, PosIn
  <2> QED
    BY <1>0, <2>1, <2>2, <2>3, NextChain
<1>4. CASE Diverge
  <2>1. PICK n \in {chains[Current].start} \cup {r.to : r \in LiveRows(rows, Current)} :
          chains' = Append([chains EXCEPT ![Current].open = FALSE], [start |-> n, open |-> TRUE])
    BY <1>4 DEF Diverge
  <2>2. Current # 0 /\ srv' = srv /\ Current \in Chains /\ srv \in Nat
    BY <1>0, <1>4 DEF Diverge, Current, Chains, ChainsOK
  <2>3. n \in 1..srv
    BY <2>1, <2>2 DEF TypeOK, ChainsOK, RowsOK, ChunkOK, LiveRows
  <2> QED
    BY <1>0, <2>1, <2>2, <2>3, NextChain
<1>5. CASE UNCHANGED <<srv, chains>>
  BY <1>0, <1>5 DEF ChainsOK, Chains
<1> QED
  BY <1>1, <1>2, <1>3, <1>4, <1>5, ChainsWriters

\* The actions that change the rows.
LEMMA RowsWriters ==
  ASSUME Next PROVE CommitChunk \/ Diverge \/ VerifyFails \/ PurgeChunk \/ DeleteChunks \/ TimePasses \/ UNCHANGED rows
BY DEF Next, Collector, Retention, Restore, Purge, ServerWrites, StartStream, BreakChain, SaveChunk, FailChunk,
    StartBase, EndBase, StartRestore, PinPlan, CheckPlan,
  EndRestore, RetainStream, PurgeOrphan, SnapshotPins, PlanRetention, DeleteBase, PurgeBase, DeleteArchive,
      Crash, stream

\* A step commits a chunk, or turns the rows there are.
LEMMA RowsNext ==
  ASSUME TypeOK, Next
  PROVE  CommitChunk \/ RowsTurn
<1>0. rows \subseteq Rows /\ \A r, q \in rows : r.key = q.key => r = q
  BY DEF TypeOK, RowsOK
<1>1. CASE Diverge
  <2>1. PICK n : rows' = {IF r.chain = Current /\ r.status = "committed" /\ r.to > n
                     THEN [r EXCEPT !.status = "superseded"] ELSE r : r \in rows}
    BY <1>1 DEF Diverge
  <2> DEFINE f == [r \in rows |-> IF r.chain = Current /\ r.status = "committed" /\ r.to > n
                     THEN [r EXCEPT !.status = "superseded"] ELSE r]
  <2>2. \A r \in rows : f[r] \in Turned(r) /\ f[r] \in Rows
    BY <1>0, <1>1 DEF Turned, Rows, Live
  <2>3. rows' = {f[r] : r \in rows} /\ f \in [rows -> Rows]
    BY <2>1, <2>2
  <2> QED
    BY <2>2, <2>3 DEF RowsTurn
<1>2. CASE VerifyFails
  <2>1. PICK x \in rows : Live(x) /\ rows' = (rows \ {x}) \cup {[x EXCEPT !.bad = TRUE]}
    BY <1>2 DEF VerifyFails
  <2> DEFINE f == [r \in rows |-> IF r = x THEN [r EXCEPT !.bad = TRUE] ELSE r]
  <2>2. \A r \in rows : f[r] \in Turned(r) /\ f[r] \in Rows
    BY <1>0 DEF Turned, Rows, Live
  <2>3. rows' = {f[r] : r \in rows} /\ f \in [rows -> Rows]
    BY <2>1, <2>2
  <2> QED
    BY <2>2, <2>3 DEF RowsTurn
<1>3. CASE PurgeChunk
  <2>1. PICK k \in ret.keys : rows' = {IF r.key = k /\ r.life # "live" THEN [r EXCEPT !.status = "pruned"] ELSE r : r \in rows}
    BY <1>3 DEF PurgeChunk
  <2>2. ret.pc = "purge"
    BY <1>3 DEF PurgeChunk
  <2> DEFINE f == [r \in rows |-> IF r.key = k /\ r.life # "live" THEN [r EXCEPT !.status = "pruned"] ELSE r]
  <2>3. \A r \in rows : f[r] \in Turned(r) /\ f[r] \in Rows
    BY <1>0, <2>2 DEF Turned, Rows, Live
  <2>4. rows' = {f[r] : r \in rows} /\ f \in [rows -> Rows]
    BY <2>1, <2>3
  <2> QED
    BY <2>3, <2>4 DEF RowsTurn
<1>4. CASE DeleteChunks
  <2> DEFINE f == [r \in rows |-> IF r.key \in ret.delKeys /\ r.life = "live" /\ r.status # "pruned" THEN [r EXCEPT !.life = "deleted"] ELSE r]
  <2>1. \A r \in rows : f[r] \in Turned(r) /\ f[r] \in Rows
    BY <1>0, <1>4 DEF Turned, Rows, Live
  <2>2. rows' = {f[r] : r \in rows} /\ f \in [rows -> Rows]
    BY <1>4, <2>1 DEF DeleteChunks
  <2> QED
    BY <2>1, <2>2 DEF RowsTurn
<1>5. CASE TimePasses
  <2> DEFINE f == [r \in rows |-> IF r.life = "deleted" THEN [r EXCEPT !.life = "due"] ELSE r]
  <2>1. \A r \in rows : f[r] \in Turned(r) /\ f[r] \in Rows
    BY <1>0 DEF Turned, Rows, Live
  <2>2. rows' = {f[r] : r \in rows} /\ f \in [rows -> Rows]
    BY <1>5, <2>1 DEF TimePasses
  <2> QED
    BY <2>1, <2>2 DEF RowsTurn
<1>6. CASE UNCHANGED rows
  <2> DEFINE f == [r \in rows |-> r]
  <2>1. \A r \in rows : f[r] \in Turned(r) /\ f[r] \in Rows
    BY <1>0 DEF Turned
  <2>2. rows' = {f[r] : r \in rows} /\ f \in [rows -> Rows]
    BY <1>6, <2>1
  <2> QED
    BY <2>1, <2>2 DEF RowsTurn
<1> QED
  BY <1>1, <1>2, <1>3, <1>4, <1>5, <1>6, RowsWriters

\* Every row after such a step was a row before, and the other way round.
LEMMA TurnedRows ==
  ASSUME RowsTurn
  PROVE  /\ \A q \in rows' : \E r \in rows : q \in Turned(r)
         /\ \A r \in rows : \E q \in rows' : q \in Turned(r)
BY DEF RowsTurn

\* Rows that turn stay chunks of their chains with keys of their own.
LEMMA RowsTurnOK ==
  ASSUME RowsOK, RowsTurn, ChainsOK, ChainsOK', srv <= srv', Chains \subseteq Chains'
  PROVE  RowsOK'
<1>1. PICK f \in [rows -> Rows] : rows' = {f[r] : r \in rows} /\ \A r \in rows : f[r] \in Turned(r)
  BY DEF RowsTurn
<1>2. \A r \in rows : f[r] \in Rows /\ f[r].chain = r.chain /\ f[r].from = r.from /\ f[r].to = r.to /\ f[r].key = r.key
  BY <1>1 DEF Turned
<1>3. ASSUME NEW r \in rows PROVE ChunkOK(f[r])'
  <2>1. ChunkOK(r)
    BY DEF RowsOK
  <2>2. f[r].chain \in Chains' /\ f[r].to \in {f[r].from, f[r].from + 1} /\ f[r].key = <<f[r].chain, f[r].from, f[r].to>>
    BY <1>2, <2>1 DEF ChunkOK
  <2>3. f[r].to \in 1..srv'
    BY <1>2, <2>1 DEF ChunkOK, ChainsOK
  <2> QED
    BY <2>2, <2>3 DEF ChunkOK
<1>4. \A r, q \in rows : f[r].key = f[q].key => f[r] = f[q]
  BY <1>2 DEF RowsOK
<1> QED
  BY <1>1, <1>2, <1>3, <1>4 DEF RowsOK

\* So does the row that CommitChunk adds: nobody has its key.
LEMMA CommitOK ==
  ASSUME TypeOK, UploadNew, CommitChunk
  PROVE  RowsOK'
<1> DEFINE new == [chain |-> upload.chain, from |-> upload.from, to |-> upload.to, key |-> upload.key,
                   status |-> "committed", life |-> "live", bad |-> FALSE]
<1>1. rows' = rows \cup {new} /\ srv' = srv /\ chains' = chains
  BY DEF CommitChunk
<1>2. new \in Rows /\ new.chain = upload.chain /\ new.from = upload.from /\ new.to = upload.to /\ new.key = upload.key
  BY DEF TypeOK, ObjectsOK, Rows
<1> HIDE DEF new
<1>3. ChunkOK(upload) /\ \A r \in rows : r.key # new.key
  BY <1>2 DEF TypeOK, ObjectsOK, UploadNew, CommitChunk
<1>4. ChunkOK(new)
  BY <1>2, <1>3 DEF ChunkOK
<1>5. \A r \in rows \cup {new} : ChunkOK(r)'
  BY <1>1, <1>4 DEF TypeOK, RowsOK, ChunkOK, Chains
<1> QED
  BY <1>1, <1>2, <1>3, <1>5 DEF TypeOK, RowsOK

\* The actions that change the objects.
LEMMA ObjectsWriters ==
  ASSUME Next PROVE SaveChunk \/ FailChunk \/ PurgeOrphan \/ PurgeChunk \/ TimePasses \/ UNCHANGED objects
BY DEF Next, Collector, Retention, Restore, Purge, ServerWrites, StartStream, BreakChain, CommitChunk, Diverge,
    VerifyFails, StartBase, EndBase, StartRestore, PinPlan, CheckPlan,
  EndRestore, RetainStream, SnapshotPins, PlanRetention, DeleteBase, DeleteChunks, PurgeBase, DeleteArchive,
      Crash, stream

\* The actions that change which chunk is being stored.
LEMMA UploadWriters ==
  ASSUME Next PROVE SaveChunk \/ upload' = NoChunk \/ UNCHANGED upload
BY DEF Next, Collector, Retention, Restore, Purge, ServerWrites, StartStream, BreakChain, CommitChunk,
    FailChunk, Diverge, VerifyFails, StartBase, EndBase, StartRestore, PinPlan, CheckPlan,
  EndRestore, RetainStream, PurgeOrphan, SnapshotPins, PurgeChunk, PlanRetention, DeleteBase, DeleteChunks,
      PurgeBase, DeleteArchive, TimePasses, Crash, stream

\* The next chunk lies on the current chain and has a key that no row has: its end is past
\* the position, or SaveChunk found no row for the empty chunk.
LEMMA NextChunkOK ==
  ASSUME TypeOK, SaveChunk
  PROVE  /\ NextChunk \in [chain : Nat, from : Nat, to : Nat, key : Keys] /\ ChunkOK(NextChunk)
         /\ NextChunk.chain = Current /\ \A r \in rows : r.key # NextChunk.key
<1> DEFINE pp == Pos(Current)
           tt == IF srv > pp THEN pp + 1 ELSE pp
<1>1. Current \in Chains /\ Current \in Nat /\ Current # 0 /\ srv \in Nat
  BY DEF SaveChunk, TypeOK, ChainsOK, Current, Chains
<1>2. pp \in 1..srv /\ \A r \in rows : r.chain = Current => r.to <= pp
  BY <1>1, PosIn
<1>3. NextChunk = [chain |-> Current, from |-> pp, to |-> tt, key |-> <<Current, pp, tt>>]
  BY DEF NextChunk
<1> HIDE DEF pp
<1>4. tt \in 1..srv /\ tt \in {pp, pp + 1} /\ pp \in Nat /\ tt \in Nat
  BY <1>1, <1>2
<1> HIDE DEF tt
<1>5. /\ NextChunk.chain = Current /\ NextChunk.from = pp /\ NextChunk.to = tt /\ NextChunk.key = <<Current, pp, tt>>
      /\ NextChunk \in [chain : Nat, from : Nat, to : Nat, key : Keys]
  BY <1>1, <1>3, <1>4 DEF Keys
<1>6. ChunkOK(NextChunk)
  BY <1>1, <1>4, <1>5 DEF ChunkOK
<1>7. ASSUME NEW r \in rows, r.key = NextChunk.key PROVE FALSE
  <2>1. r.key = <<r.chain, r.from, r.to>>
    BY DEF TypeOK, RowsOK, ChunkOK
  <2>2. r.chain = Current /\ r.from = pp /\ r.to = tt
    BY <1>5, <1>7, <2>1
  <2>3. tt = pp
    BY <1>2, <1>4, <2>2
  <2> QED
    BY <1>5, <2>2, <2>3 DEF SaveChunk
<1> QED
  BY <1>5, <1>6, <1>7

\* The objects and the chunk being stored keep their types.
LEMMA ObjectsNext ==
  ASSUME TypeOK, Next, ChainsOK', srv <= srv', Chains \subseteq Chains'
  PROVE  ObjectsOK'
<1> DEFINE O == [key : Keys, old : BOOLEAN]
<1>0. objects \subseteq O
  BY DEF TypeOK, ObjectsOK
<1>1. objects' \subseteq O
  <2>1. CASE SaveChunk
    <3>1. [key |-> NextChunk.key, old |-> FALSE] \in O
      BY <2>1, NextChunkOK
    <3> QED
      BY <1>0, <2>1, <3>1 DEF SaveChunk
  <2>2. CASE FailChunk
    BY <1>0, <2>2 DEF FailChunk
  <2>3. CASE PurgeOrphan
    BY <1>0, <2>3 DEF PurgeOrphan
  <2>4. CASE PurgeChunk
    BY <1>0, <2>4 DEF PurgeChunk
  <2>5. CASE TimePasses
    <3>1. ASSUME NEW o \in objects PROVE [o EXCEPT !.old = @ \/ Abandoned(o.key)] \in O
      BY <1>0 DEF Abandoned
    <3> QED
      BY <2>5, <3>1 DEF TimePasses
  <2>6. CASE UNCHANGED objects
    BY <1>0, <2>6
  <2> QED
    BY <2>1, <2>2, <2>3, <2>4, <2>5, <2>6, ObjectsWriters
<1>2. upload' \in [chain : Nat, from : Nat, to : Nat, key : Keys] /\ (upload' # NoChunk => ChunkOK(upload)')
  <2>1. CASE SaveChunk
    <3>1. upload' = NextChunk /\ UNCHANGED <<srv, chains>>
      BY <2>1 DEF SaveChunk
    <3> QED
      BY <2>1, <3>1, NextChunkOK DEF ChunkOK, Chains
  <2>2. CASE upload' = NoChunk
    BY <2>2 DEF NoChunk, Keys
  <2>3. CASE UNCHANGED upload
    <3>1. upload # NoChunk => ChunkOK(upload) /\ upload.to \in 1..srv /\ upload.chain \in Chains
      BY DEF TypeOK, ObjectsOK, ChunkOK
    <3>2. upload # NoChunk => upload.to \in 1..srv' /\ upload.chain \in Chains'
      BY <3>1 DEF TypeOK, ChainsOK
    <3> QED
      BY <2>3, <3>1, <3>2 DEF TypeOK, ObjectsOK, ChunkOK
  <2> QED
    BY <2>1, <2>2, <2>3, UploadWriters
<1> QED
  BY <1>1, <1>2 DEF ObjectsOK

\* How an object can go: with the chunk that failed, by the sweep, which found no row that
\* names it, or by the purge, which had it in its list.
LEMMA StoredNext ==
  ASSUME TypeOK, Next, NEW k \in Stored, k \notin Stored'
  PROVE  \/ FailChunk /\ k = upload.key
         \/ PurgeOrphan /\ k \in ret.keys /\ k \notin Named
         \/ PurgeChunk /\ k \in ret.keys
<1>0. PICK o \in objects : o.key = k
  BY DEF Stored
<1>1. CASE SaveChunk
  <2>1. o \notin objects'
    BY <1>0 DEF Stored
  <2>2. o.key = NextChunk.key /\ [key |-> NextChunk.key, old |-> FALSE] \in objects'
    BY <1>1, <2>1 DEF SaveChunk
  <2> QED
    BY <1>0, <2>2 DEF Stored
<1>2. CASE FailChunk
  BY <1>0, <1>2 DEF FailChunk, Stored
<1>3. CASE PurgeOrphan
  BY <1>0, <1>3 DEF PurgeOrphan, Stored
<1>4. CASE PurgeChunk
  BY <1>0, <1>4 DEF PurgeChunk, Stored
<1>5. CASE TimePasses
  <2>1. [o EXCEPT !.old = @ \/ Abandoned(o.key)] \in objects' /\ [o EXCEPT !.old = @ \/ Abandoned(o.key)].key = k
    BY <1>0, <1>5 DEF TimePasses, TypeOK, ObjectsOK
  <2> QED
    BY <2>1 DEF Stored
<1>6. CASE UNCHANGED objects
  BY <1>6 DEF Stored
<1> QED
  BY <1>1, <1>2, <1>3, <1>4, <1>5, <1>6, ObjectsWriters

\* The actions that change the base backups.
LEMMA BasesWriters ==
  ASSUME Next PROVE StartBase \/ EndBase \/ DeleteBase \/ DeleteArchive \/ TimePasses \/ Crash \/ UNCHANGED bases
BY DEF Next, Collector, Retention, Restore, Purge, ServerWrites, StartStream, BreakChain, SaveChunk,
    CommitChunk, FailChunk, Diverge, VerifyFails, StartRestore, PinPlan, CheckPlan,
  EndRestore, RetainStream, PurgeOrphan, SnapshotPins, PurgeChunk, PlanRetention, DeleteChunks, PurgeBase, stream

\* The actions that change which base is being purged.
LEMMA PurgingWriters ==
  ASSUME Next PROVE PurgeBase \/ purging' = 0 \/ (UNCHANGED purging /\ ~DeleteArchive) \/ (purging = 0 /\ UNCHANGED purging)
BY DEF Next, Collector, Retention, Restore, Purge, ServerWrites, StartStream, BreakChain, SaveChunk,
    CommitChunk, FailChunk, Diverge, VerifyFails, StartBase, EndBase, StartRestore, PinPlan, CheckPlan,
  EndRestore, RetainStream, PurgeOrphan, SnapshotPins, PurgeChunk, PlanRetention, DeleteBase, DeleteChunks,
      DeleteArchive, TimePasses, Crash, stream

\* What may become of base b in a step: a due one stays due until its archive is deleted, a
\* completed one is deleted only while nothing pins it.
BaseTurned(b) ==
    /\ bases[b].before = bases'[b].before
    /\ bases'[b].status = "completed" => bases'[b].stored /\ bases'[b].before <= bases'[b].after
    /\ bases[b].status = "due" => bases'[b].status = "due" \/ DeleteArchive
    /\ bases[b].status = "completed" =>
          \/ bases'[b].status = "completed"
          \/ DeleteBase /\ b \notin PinnedBases
          \/ DeleteArchive /\ b = purging

\* Base b when a grace period passes, or the process stops.
Aged(b, x) == \/ x = bases[b]
              \/ bases[b].status \in {"running", "deleted"} /\ x.status \in {"failed", "due"} /\ x.before = bases[b].before

\* The bases there are turn, and a new one has just started.
BasesTurn ==
    /\ bases' \in Seq(BaseBackups) /\ DOMAIN bases \subseteq DOMAIN bases'
    /\ \A b \in DOMAIN bases : BaseTurned(b)
    /\ \A b \in DOMAIN bases' \ DOMAIN bases : bases'[b].status # "completed" /\ bases'[b].before = srv

\* Every step turns the bases so.
LEMMA BasesNext ==
  ASSUME TypeOK, Next
  PROVE  BasesTurn
<1>0. /\ bases \in Seq(BaseBackups) /\ Len(bases) \in Nat /\ DOMAIN bases = 1..Len(bases) /\ srv \in Nat
      /\ \A b \in DOMAIN bases : bases[b] \in BaseBackups /\ bases[b].before <= srv
      /\ \A b \in DOMAIN bases : bases[b].status = "completed" => bases[b].stored /\ bases[b].before <= bases[b].after
  <2>1. bases \in Seq(BaseBackups) /\ srv \in Nat
    BY DEF TypeOK, BasesOK, ChainsOK
  <2>2. Len(bases) \in Nat /\ DOMAIN bases = 1..Len(bases)
    BY <2>1, LenProperties
  <2> QED
    BY <2>1, <2>2, ElementOfSeq DEF TypeOK, BasesOK, Completed
<1>1. CASE StartBase
  <2> DEFINE new == [status |-> "running", before |-> srv, after |-> 0, stored |-> FALSE]
  <2>1. new \in BaseBackups /\ new.status = "running" /\ new.before = srv
    BY <1>0 DEF BaseBackups
  <2>2. bases' = Append(bases, new)
    BY <1>1 DEF StartBase
  <2> HIDE DEF new
  <2>3. /\ Append(bases, new) \in Seq(BaseBackups) /\ Len(Append(bases, new)) = Len(bases) + 1 /\ Append(bases, new)[Len(bases) + 1] = new
        /\ \A b \in 1..Len(bases) : Append(bases, new)[b] = bases[b]
    BY <1>0, <2>1, AppendProperties
  <2>4. DOMAIN bases' = 1..Len(bases) + 1
    BY <2>2, <2>3, LenProperties
  <2> QED
    BY <1>0, <2>1, <2>2, <2>3, <2>4 DEF BasesTurn, BaseTurned
<1>2. ASSUME NEW x \in DOMAIN bases, NEW e \in BaseBackups, bases' = [bases EXCEPT ![x] = e], BaseTurned(x)
      PROVE  BasesTurn
  <2>1. /\ bases' \in Seq(BaseBackups) /\ Len(bases') = Len(bases)
        /\ \A b \in 1..Len(bases) : bases'[b] = IF b = x THEN e ELSE bases[b]
    BY <1>0, <1>2, ExceptSeq
  <2>2. DOMAIN bases' = DOMAIN bases
    BY <1>0, <2>1, LenProperties
  <2>3. ASSUME NEW b \in DOMAIN bases, b # x PROVE BaseTurned(b)
    BY <1>0, <2>1, <2>3 DEF BaseTurned
  <2> QED
    BY <1>2, <2>1, <2>2, <2>3 DEF BasesTurn
<1>3. CASE EndBase
  <2>1. PICK x \in DOMAIN bases :
          /\ bases[x].status = "running"
          /\ \/ bases' = [bases EXCEPT ![x] = [@ EXCEPT !.status = "completed", !.after = srv, !.stored = TRUE]]
             \/ bases' = [bases EXCEPT ![x].status = "failed"]
    BY <1>3 DEF EndBase
  <2> DEFINE done == [bases[x] EXCEPT !.status = "completed", !.after = srv, !.stored = TRUE]
             failed == [bases[x] EXCEPT !.status = "failed"]
  <2>2. done \in BaseBackups /\ done.status = "completed" /\ done.before = bases[x].before /\ done.after = srv /\ done.stored
    BY <1>0 DEF BaseBackups
  <2>3. failed \in BaseBackups /\ failed.status = "failed" /\ failed.before = bases[x].before
    BY <1>0 DEF BaseBackups
  <2>4. bases' = [bases EXCEPT ![x] = done] \/ bases' = [bases EXCEPT ![x] = failed]
    BY <2>1
  <2> HIDE DEF done, failed
  <2>5. bases'[x] = done \/ bases'[x] = failed
    BY <2>4
  <2>6. BaseTurned(x)
    BY <1>0, <2>1, <2>2, <2>3, <2>5 DEF BaseTurned
  <2> QED
    BY <1>2, <2>2, <2>3, <2>4, <2>6
<1>4. CASE DeleteBase
  <2>1. CASE bases' = bases
    BY <1>0, <2>1 DEF BasesTurn, BaseTurned
  <2>2. CASE bases' # bases
    <3>1. PICK x \in Completed : x \notin PinnedBases /\ bases' = [bases EXCEPT ![x].status = "deleted"]
      BY <1>4, <2>2 DEF DeleteBase
    <3> DEFINE e == [bases[x] EXCEPT !.status = "deleted"]
    <3>2. x \in DOMAIN bases /\ bases[x].status = "completed"
      BY <3>1 DEF Completed
    <3>3. e \in BaseBackups /\ e.status = "deleted" /\ e.before = bases[x].before
      BY <1>0, <3>2 DEF BaseBackups
    <3>4. bases' = [bases EXCEPT ![x] = e]
      BY <3>1
    <3> HIDE DEF e
    <3>5. bases'[x] = e
      BY <3>2, <3>4
    <3>6. BaseTurned(x)
      BY <1>4, <3>1, <3>2, <3>3, <3>5 DEF BaseTurned
    <3> QED
      BY <1>2, <3>2, <3>3, <3>4, <3>6
  <2> QED
    BY <2>1, <2>2
<1>5. CASE DeleteArchive
  <2> DEFINE e == [bases[purging] EXCEPT !.status = "purged", !.stored = FALSE]
  <2>1. purging \in DOMAIN bases /\ bases' = [bases EXCEPT ![purging] = e]
    BY <1>5 DEF DeleteArchive, TypeOK, BasesOK
  <2>2. e \in BaseBackups /\ e.status = "purged" /\ e.before = bases[purging].before
    BY <1>0, <2>1 DEF BaseBackups
  <2> HIDE DEF e
  <2>3. bases'[purging] = e
    BY <2>1
  <2>4. BaseTurned(purging)
    BY <1>5, <2>2, <2>3 DEF BaseTurned
  <2> QED
    BY <1>2, <2>1, <2>2, <2>4
<1>6. ASSUME NEW f \in [DOMAIN bases -> BaseBackups], bases' = f,
             \A b \in DOMAIN bases : Aged(b, f[b])
      PROVE  BasesTurn
  <2>1. bases' \in Seq(BaseBackups) /\ DOMAIN bases' = DOMAIN bases
    BY <1>0, <1>6, SeqDef
  <2>2. ASSUME NEW b \in DOMAIN bases PROVE BaseTurned(b)
    BY <1>0, <1>6, <2>2 DEF BaseTurned, Aged
  <2> QED
    BY <2>1, <2>2 DEF BasesTurn
<1>7. CASE TimePasses
  <2> DEFINE f == [b \in DOMAIN bases |-> IF bases[b].status = "deleted" THEN [bases[b] EXCEPT !.status = "due"] ELSE bases[b]]
  <2>1. bases' = f
    BY <1>7 DEF TimePasses
  <2>2. \A b \in DOMAIN bases : f[b] \in BaseBackups /\ Aged(b, f[b])
    BY <1>0 DEF BaseBackups, Aged
  <2>3. f \in [DOMAIN bases -> BaseBackups]
    BY <2>2
  <2> HIDE DEF f
  <2> QED
    BY <1>6, <2>1, <2>2, <2>3
<1>8. CASE Crash
  <2> DEFINE f == [b \in DOMAIN bases |-> IF bases[b].status = "running" THEN [bases[b] EXCEPT !.status = "failed"] ELSE bases[b]]
  <2>1. bases' = f
    BY <1>8 DEF Crash
  <2>2. \A b \in DOMAIN bases : f[b] \in BaseBackups /\ Aged(b, f[b])
    BY <1>0 DEF BaseBackups, Aged
  <2>3. f \in [DOMAIN bases -> BaseBackups]
    BY <2>2
  <2> HIDE DEF f
  <2> QED
    BY <1>6, <2>1, <2>2, <2>3
<1>9. CASE UNCHANGED bases
  BY <1>0, <1>9 DEF BasesTurn, BaseTurned
<1> QED
  BY <1>1, <1>3, <1>4, <1>5, <1>7, <1>8, <1>9, BasesWriters

\* A completed base keeps its archive, and what is being purged is due.
LEMMA BasesOKNext ==
  ASSUME TypeOK, Next, PurgeDue, BasesTurn, ChainsOK', srv <= srv'
  PROVE  BasesOK' /\ PurgeDue'
<1>1. ASSUME NEW b \in DOMAIN bases'
      PROVE  /\ bases'[b].before <= srv'
             /\ bases'[b].status = "completed" => bases'[b].stored /\ bases'[b].before <= bases'[b].after
  <2>1. CASE b \in DOMAIN bases
    <3>1. BaseTurned(b) /\ bases[b].before <= srv /\ bases[b] \in BaseBackups
      BY <2>1, ElementOfSeq, LenProperties DEF BasesTurn, TypeOK, BasesOK
    <3>2. bases[b].before \in Nat /\ srv \in Nat /\ srv' \in Nat
      BY <3>1 DEF BaseBackups, TypeOK, ChainsOK
    <3> QED
      BY <3>1, <3>2 DEF BaseTurned
  <2>2. CASE b \notin DOMAIN bases
    BY <1>1, <2>2 DEF BasesTurn
  <2> QED
    BY <2>1, <2>2
<1>2. (purging' \in {0} \cup DOMAIN bases') /\ PurgeDue'
  <2>1. CASE PurgeBase
    BY <2>1 DEF PurgeBase, PurgeDue
  <2>2. CASE purging' = 0
    BY <2>2 DEF PurgeDue
  <2>3. CASE UNCHANGED purging /\ ~DeleteArchive
    BY <2>3 DEF PurgeDue, BasesTurn, BaseTurned, TypeOK, BasesOK
  <2>4. CASE purging = 0 /\ UNCHANGED purging
    BY <2>4 DEF PurgeDue
  <2> QED
    BY <2>1, <2>2, <2>3, <2>4, PurgingWriters
<1> QED
  BY <1>1, <1>2 DEF BasesOK, BasesTurn, Completed

\* The actions that change the retention run.
LEMMA RetWriters ==
  ASSUME Next
  PROVE  \/ RetainStream \/ PurgeOrphan \/ SnapshotPins \/ PurgeChunk \/ PlanRetention \/ DeleteBase
         \/ DeleteChunks \/ ret' = Idle \/ UNCHANGED ret
BY DEF Next, Collector, Retention, Restore, Purge, ServerWrites, StartStream, BreakChain, SaveChunk,
    CommitChunk, FailChunk, Diverge, VerifyFails, StartBase, EndBase, StartRestore, PinPlan, CheckPlan,
  EndRestore, PurgeBase, DeleteArchive, TimePasses, Crash, stream

\* The actions that change the restore.
LEMMA RestoreWriters ==
  ASSUME Next PROVE StartRestore \/ PinPlan \/ CheckPlan \/ restore' = Ended \/ UNCHANGED restore
BY DEF Next, Collector, Retention, Restore, Purge, ServerWrites, StartStream, BreakChain, SaveChunk,
    CommitChunk, FailChunk, Diverge, VerifyFails, StartBase, EndBase,
  EndRestore, RetainStream, PurgeOrphan, SnapshotPins, PurgeChunk, PlanRetention, DeleteBase, DeleteChunks,
      PurgeBase, DeleteArchive, TimePasses, Crash, stream

\* The idle retention run.
LEMMA IdleOK == Idle \in Retentions /\ Idle.pc = "idle"
BY DEF Idle, Retentions

\* What is pinned is keys and bases.
LEMMA PinnedKeysOK ==
  ASSUME TypeOK PROVE PinnedKeys \subseteq Keys /\ PinnedBases \subseteq Nat
<1>1. restore \in Restores /\ restore.base \in Nat /\ restore.chunks \subseteq Rows
  BY DEF TypeOK, ActorsOK, Restores
<1>2. \A r \in Rows : r.key \in Keys
  BY DEF Rows
<1> QED
  BY <1>1, <1>2 DEF PinnedKeys, PinnedBases

\* Completed bases are bases, and bases are numbered from one.
LEMMA CompletedNat == ASSUME TypeOK PROVE Completed \subseteq DOMAIN bases /\ DOMAIN bases \subseteq Nat /\ 0 \notin DOMAIN bases
<1>1. DOMAIN bases = 1..Len(bases) /\ Len(bases) \in Nat
  BY LenProperties DEF TypeOK, BasesOK
<1> QED
  BY <1>1 DEF Completed

\* The run that SnapshotPins starts lists what is due and not pinned.
LEMMA SnapshotOK ==
  ASSUME TypeOK
  PROVE  /\ Snapshot \in Retentions /\ Snapshot.pc = "purge"
         /\ Snapshot.keys = DueKeys \ PinnedKeys
<1>1. DueKeys \subseteq Keys
  BY DEF DueKeys, TypeOK, RowsOK, Rows
<1> QED
  BY <1>1, PinnedKeysOK, CompletedNat DEF Snapshot, Idle, Retentions

\* The retention run keeps its type.
LEMMA RetNext ==
  ASSUME TypeOK, Next
  PROVE  ret' \in Retentions
<1>0. ret \in Retentions
  BY DEF TypeOK, ActorsOK
<1>1. CASE RetainStream
  <2>1. Orphans \subseteq Keys
    BY DEF Orphans, TypeOK, ObjectsOK
  <2>2. [Idle EXCEPT !.pc = "sweep", !.keys = Orphans] \in Retentions
    BY <2>1 DEF Idle, Retentions
  <2> QED
    BY <1>1, <2>2, SnapshotOK DEF RetainStream
<1>2. CASE PurgeOrphan
  BY <1>0, <1>2 DEF PurgeOrphan, Retentions
<1>3. CASE SnapshotPins
  BY <1>3, SnapshotOK DEF SnapshotPins
<1>4. CASE PurgeChunk
  BY <1>0, <1>4 DEF PurgeChunk, Retentions
<1>5. CASE PlanRetention
  <2>0. CoveringChains(ret.bases) \subseteq Nat \X Nat
    <3>1. ASSUME NEW b \in ret.bases PROVE b \in Nat /\ ChainOf(rows, bases[b]) \in Nat
      <4>1. CoveredBy(rows, bases[b]) \subseteq Nat
        BY DEF CoveredBy, Chains, TypeOK, ChainsOK
      <4> QED
        BY <1>0, <4>1, MinIn DEF Retentions, ChainOf
    <3> QED
      BY <3>1 DEF CoveringChains, Eligible
  <2>1. /\ KeptBases(ret.bases, ret.basePins) \subseteq Nat
        /\ ret.bases \ KeptBases(ret.bases, ret.basePins) \subseteq Nat
    BY <1>0 DEF KeptBases, Retentions
  <2>2. DeletableKeys(ret.bases, ret.basePins, ret.pins) \subseteq Keys
    BY DEF DeletableKeys, TypeOK, RowsOK, Rows
  <2> QED
    BY <1>0, <1>5, <2>0, <2>1, <2>2 DEF PlanRetention, Retentions
<1>6. CASE DeleteBase
  BY <1>0, <1>6 DEF DeleteBase, Retentions
<1>7. CASE DeleteChunks
  BY <1>7, IdleOK DEF DeleteChunks
<1>8. CASE ret' = Idle
  BY <1>8, IdleOK
<1>9. CASE UNCHANGED ret
  BY <1>0, <1>9
<1> QED
  BY <1>1, <1>2, <1>3, <1>4, <1>5, <1>6, <1>7, <1>8, <1>9, RetWriters

\* A plan names a base there is and rows.
LEMMA PlanOK ==
  ASSUME TypeOK, NEW limit \in Nat, NEW tries \in Nat, Plan(limit, tries)
  PROVE  restore' \in Restores /\ restore'.pc = "planned" /\ restore'.base \in DOMAIN bases
<1>1. PICK b \in Newest(Candidates(limit)) :
        restore' = [pc |-> "planned", base |-> b, chunks |-> PlanFrom(rows, bases[b], limit), limit |-> limit, tries |-> tries]
  BY DEF Plan
<1>2. b \in DOMAIN bases /\ b \in Nat
  BY <1>1, CompletedNat DEF Newest, Candidates
<1>3. PlanFrom(rows, bases[b], limit) \subseteq Rows
  BY DEF PlanFrom, LiveRows, TypeOK, RowsOK
<1> QED
  BY <1>1, <1>2, <1>3 DEF Restores

\* The restore that ended.
LEMMA EndedOK == Ended \in Restores /\ Ended.pc = "ended"
BY DEF Ended, NoRestore, Restores

\* The restore keeps its type and its base.
LEMMA RestoreNext ==
  ASSUME TypeOK, Next, DOMAIN bases \subseteq DOMAIN bases'
  PROVE  restore' \in Restores /\ (restore'.pc \in {"planned", "pinned", "reading"} => restore'.base \in DOMAIN bases')
<1>0. /\ restore \in Restores /\ (restore.pc \in {"planned", "pinned", "reading"} => restore.base \in DOMAIN bases)
      /\ restore.tries \in Nat /\ restore.limit \in Nat
  BY DEF TypeOK, ActorsOK, Restores
<1>1. CASE StartRestore
  BY <1>1, PlanOK, RetentionAssumption DEF StartRestore
<1>2. CASE PinPlan
  BY <1>0, <1>2 DEF PinPlan, Restores
<1>3. CASE CheckPlan
  <2>1. CASE restore' = [restore EXCEPT !.pc = "reading"]
    BY <1>0, <1>3, <2>1 DEF CheckPlan, Restores
  <2>2. CASE Plan(restore.limit, restore.tries + 1)
    BY <1>0, <2>2, PlanOK
  <2>3. CASE restore' = Ended
    BY <2>3, EndedOK
  <2> QED
    BY <1>3, <2>1, <2>2, <2>3 DEF CheckPlan
<1>4. CASE restore' = Ended
  BY <1>4, EndedOK
<1>5. CASE UNCHANGED restore
  BY <1>0, <1>5
<1> QED
  BY <1>1, <1>2, <1>3, <1>4, <1>5, RestoreWriters

\* Every step preserves the types.
LEMMA TypeNext ==
  ASSUME TypeOK, UploadNew, PurgeDue, Next
  PROVE  TypeOK' /\ PurgeDue'
<1>1. ChainsOK' /\ srv <= srv' /\ Chains \subseteq Chains'
  BY ChainsNext
<1>2. RowsOK'
  BY <1>1, RowsNext, RowsTurnOK, CommitOK DEF TypeOK
<1>3. ObjectsOK'
  BY <1>1, ObjectsNext
<1>4. BasesTurn
  BY BasesNext
<1>5. BasesOK' /\ PurgeDue'
  BY <1>1, <1>4, BasesOKNext
<1>6. ActorsOK'
  BY <1>4, RetNext, RestoreNext DEF ActorsOK, BasesTurn
<1> QED
  BY <1>1, <1>2, <1>3, <1>5, <1>6 DEF TypeOK

\* Keys of rows are only added by CommitChunk, and a row that is due stays due.
LEMMA RowKeys ==
  ASSUME TypeOK, Next, NEW k
  PROVE  /\ (~CommitChunk /\ \A r \in rows : r.key # k) => \A q \in rows' : q.key # k
         /\ (\E r \in rows : r.key = k /\ r.life = "due") => \E q \in rows' : q.key = k /\ q.life = "due"
<1>1. CASE CommitChunk
  BY <1>1 DEF CommitChunk
<1>2. CASE RowsTurn
  BY <1>2, TurnedRows DEF Turned
<1> QED
  BY <1>1, <1>2, RowsNext

\* While a chunk is being stored no row takes its key and nobody takes its object.
LEMMA StillUploaded ==
  ASSUME IInv, Next, upload # NoChunk, UNCHANGED upload
  PROVE  /\ \A r \in rows' : r.key # upload.key
         /\ upload.key \in Stored' /\ \A o \in objects' : o.key = upload.key => ~o.old
<1>0. TypeOK /\ UploadSafe /\ DueOnly
  BY DEF IInv
<1>1. ~CommitChunk /\ ~FailChunk /\ ~SaveChunk
  BY DEF CommitChunk, FailChunk, SaveChunk
<1>2. \A r \in rows' : r.key # upload.key
  BY <1>0, <1>1, RowKeys DEF UploadSafe
<1>3. upload.key \in Stored'
  <2>1. SUFFICES ASSUME upload.key \notin Stored' PROVE FALSE
    OBVIOUS
  <2>2. upload.key \in Stored
    BY <1>0 DEF UploadSafe
  <2>3. CASE PurgeOrphan /\ upload.key \in ret.keys
    BY <1>0, <2>3 DEF PurgeOrphan, UploadSafe
  <2>4. CASE PurgeChunk /\ upload.key \in ret.keys
    BY <1>0, <2>4 DEF PurgeChunk, UploadSafe, DueOnly
  <2> QED
    BY <1>0, <1>1, <2>1, <2>2, <2>3, <2>4, StoredNext
<1>4. ASSUME NEW o \in objects', o.key = upload.key PROVE ~o.old
  <2>1. CASE PurgeOrphan
    BY <1>0, <1>4, <2>1 DEF PurgeOrphan, UploadSafe
  <2>2. CASE PurgeChunk
    BY <1>0, <1>4, <2>2 DEF PurgeChunk, UploadSafe
  <2>3. CASE TimePasses
    <3>1. PICK x \in objects : o = [x EXCEPT !.old = @ \/ Abandoned(x.key)]
      BY <1>4, <2>3 DEF TimePasses
    <3>2. x \in [key : Keys, old : BOOLEAN]
      BY <1>0 DEF TypeOK, ObjectsOK
    <3>3. o.key = x.key /\ (o.old <=> x.old \/ Abandoned(x.key))
      BY <3>1, <3>2
    <3> QED
      BY <1>0, <1>4, <3>3 DEF UploadSafe, Abandoned
  <2>4. CASE UNCHANGED objects
    BY <1>0, <1>4, <2>4 DEF UploadSafe
  <2> QED
    BY <1>1, <2>1, <2>2, <2>3, <2>4, ObjectsWriters
<1> QED
  BY <1>2, <1>3, <1>4

\* Every step preserves UploadSafe, unless a chunk may be stored again under a key that the
\* sweep has listed (SweepRaces).
LEMMA UploadNext ==
  ASSUME IInv, Next, SweepRaces = FALSE
  PROVE  UploadSafe'
<1>0. TypeOK /\ UploadSafe
  BY DEF IInv
<1>1. CASE SaveChunk
  <2>1. upload' = NextChunk /\ rows' = rows /\ ret' = ret
    BY <1>1 DEF SaveChunk
  <2>2. \A r \in rows' : r.key # NextChunk.key
    BY <1>0, <1>1, <2>1, NextChunkOK
  <2>3. ret.pc = "sweep" => NextChunk.key \notin ret.keys
    BY <1>1 DEF SaveChunk
  <2>4. NextChunk.key \in Stored' /\ \A o \in objects' : o.key = NextChunk.key => ~o.old
    <3>1. objects' = {o \in objects : o.key # NextChunk.key} \cup {[key |-> NextChunk.key, old |-> FALSE]}
      BY <1>1 DEF SaveChunk
    <3>2. [key |-> NextChunk.key, old |-> FALSE] \in objects'
      BY <3>1
    <3>3. NextChunk.key \in Stored'
      BY <3>2 DEF Stored
    <3> QED
      BY <3>1, <3>3
  <2> QED
    BY <2>1, <2>2, <2>3, <2>4 DEF UploadSafe
<1>2. CASE upload' = NoChunk
  BY <1>2 DEF UploadSafe
<1>3. CASE UNCHANGED upload
  <2>1. SUFFICES ASSUME upload # NoChunk PROVE UploadSafe'
    BY <1>3 DEF UploadSafe
  <2>2. /\ \A r \in rows' : r.key # upload.key
        /\ upload.key \in Stored' /\ \A o \in objects' : o.key = upload.key => ~o.old
    BY <1>3, <2>1, StillUploaded
  <2>3. ret'.pc = "sweep" => upload.key \notin ret'.keys
    <3>1. CASE RetainStream
      <4>1. upload.key \notin Orphans
        BY <1>0, <2>1 DEF Orphans, UploadSafe
      <4> QED
        BY <1>0, <3>1, <4>1, SnapshotOK DEF RetainStream, Idle
    <3>2. CASE PurgeOrphan
      BY <1>0, <2>1, <3>2 DEF PurgeOrphan, UploadSafe, TypeOK, ActorsOK, Retentions
    <3>3. CASE SnapshotPins
      BY <1>0, <3>3, SnapshotOK DEF SnapshotPins
    <3>4. CASE PurgeChunk \/ PlanRetention \/ DeleteBase
      BY <1>0, <3>4 DEF PurgeChunk, PlanRetention, DeleteBase, TypeOK, ActorsOK, Retentions
    <3>5. CASE DeleteChunks \/ ret' = Idle
      BY <3>5, IdleOK DEF DeleteChunks
    <3>6. CASE UNCHANGED ret
      BY <1>0, <2>1, <3>6 DEF UploadSafe
    <3> QED
      BY <3>1, <3>2, <3>3, <3>4, <3>5, <3>6, RetWriters
  <2> QED
    BY <1>3, <2>2, <2>3 DEF UploadSafe
<1> QED
  BY <1>1, <1>2, <1>3, UploadWriters

\* The list of a purge shrinks, or is what is due and not pinned now.
LEMMA RetKeysNext ==
  ASSUME TypeOK, Next, ret'.pc = "purge"
  PROVE  \/ ret.pc = "purge" /\ ret'.keys \subseteq ret.keys
         \/ ret'.keys = DueKeys \ PinnedKeys /\ UNCHANGED <<rows, objects, restore>>
<1>1. CASE RetainStream
  <2>1. UNCHANGED <<rows, objects, restore>>
    BY <1>1 DEF RetainStream, stream
  <2>2. ret' = Snapshot \/ ret' = [Idle EXCEPT !.pc = "sweep", !.keys = Orphans]
    BY <1>1 DEF RetainStream
  <2>3. [Idle EXCEPT !.pc = "sweep", !.keys = Orphans].pc = "sweep"
    BY DEF Idle
  <2> QED
    BY <2>1, <2>2, <2>3, SnapshotOK
<1>2. CASE PurgeOrphan
  BY <1>2 DEF PurgeOrphan, TypeOK, ActorsOK, Retentions
<1>3. CASE SnapshotPins
  BY <1>3, SnapshotOK DEF SnapshotPins, stream
<1>4. CASE PurgeChunk
  BY <1>4 DEF PurgeChunk, TypeOK, ActorsOK, Retentions
<1>5. CASE PlanRetention \/ DeleteBase
  BY <1>5 DEF PlanRetention, DeleteBase, TypeOK, ActorsOK, Retentions
<1>6. CASE DeleteChunks \/ ret' = Idle
  BY <1>6, IdleOK DEF DeleteChunks
<1>7. CASE UNCHANGED ret
  BY <1>7
<1> QED
  BY <1>1, <1>2, <1>3, <1>4, <1>5, <1>6, <1>7, RetWriters

\* Every step preserves DueOnly.
LEMMA DueNext ==
  ASSUME IInv, Next
  PROVE  DueOnly'
<1>0. TypeOK /\ DueOnly
  BY DEF IInv
<1>1. SUFFICES ASSUME ret'.pc = "purge", NEW k \in ret'.keys
               PROVE  \E q \in rows' : q.key = k /\ q.life = "due"
  BY DEF DueOnly
<1>2. \E r \in rows : r.key = k /\ r.life = "due"
  BY <1>0, <1>1, RetKeysNext DEF DueOnly, DueKeys
<1> QED
  BY <1>0, <1>2, RowKeys

\* Every step preserves LiveStored: none of the three deletions takes the object of a live row.
LEMMA LiveNext ==
  ASSUME IInv, Next
  PROVE  LiveStored'
<1>0. TypeOK /\ UploadSafe /\ DueOnly /\ LiveStored
  BY DEF IInv
<1>1. SUFFICES ASSUME NEW q \in rows', Live(q) PROVE q.key \in Stored'
  BY DEF LiveStored, Live
<1>2. CASE CommitChunk
  <2>1. objects' = objects /\ upload # NoChunk
    BY <1>2 DEF CommitChunk
  <2>2. q \in rows \/ q.key = upload.key
    BY <1>2 DEF CommitChunk
  <2> QED
    BY <1>0, <1>1, <2>1, <2>2 DEF LiveStored, UploadSafe, Stored
<1>3. CASE RowsTurn
  <2>1. PICK r \in rows : r.key = q.key /\ Live(r)
    BY <1>1, <1>3, TurnedRows DEF Turned
  <2>2. SUFFICES ASSUME r.key \notin Stored' PROVE FALSE
    BY <2>1
  <2>3. r.key \in Stored
    BY <1>0, <2>1 DEF LiveStored
  <2>4. CASE FailChunk /\ r.key = upload.key
    BY <1>0, <2>4 DEF FailChunk, UploadSafe
  <2>5. CASE r.key \notin Named
    BY <2>1, <2>5 DEF Named, Live
  <2>6. CASE PurgeChunk /\ r.key \in ret.keys
    BY <1>0, <2>1, <2>6 DEF PurgeChunk, DueOnly, TypeOK, RowsOK, Live
  <2> QED
    BY <1>0, <2>2, <2>3, <2>4, <2>5, <2>6, StoredNext
<1> QED
  BY <1>0, <1>2, <1>3, RowsNext

\* Every step preserves PlanKept: the check of the plan finds its rows live, so a purge that
\* listed before the pins was not after them, and one that lists later leaves them out.
LEMMA PlanNext ==
  ASSUME IInv, Next
  PROVE  PlanKept'
<1>0. TypeOK /\ UploadSafe /\ DueOnly /\ LiveStored /\ PlanKept /\ PurgeDue
  BY DEF IInv
<1>1. SUFFICES ASSUME restore'.pc = "reading" PROVE PlanKept'
  BY DEF PlanKept
<1>2. CASE restore.pc # "reading"
  <2>1. CheckPlan /\ PlanIsLive /\ restore' = [restore EXCEPT !.pc = "reading"]
    <3>1. ~StartRestore
      BY <1>0, <1>1, PlanOK, RetentionAssumption DEF StartRestore
    <3>2. ~PinPlan
      BY <1>0, <1>1 DEF PinPlan, TypeOK, ActorsOK, Restores
    <3>3. CheckPlan
      BY <1>1, <1>2, <3>1, <3>2, EndedOK, RestoreWriters
    <3>4. restore.limit \in Nat /\ restore.tries + 1 \in Nat
      BY <1>0 DEF TypeOK, ActorsOK, Restores
    <3>5. ~Plan(restore.limit, restore.tries + 1)
      BY <1>0, <1>1, <3>4, PlanOK
    <3> QED
      BY <1>1, <3>3, <3>5, EndedOK DEF CheckPlan
  <2>2. restore'.base = restore.base /\ restore'.chunks = restore.chunks /\ UNCHANGED <<rows, objects, bases, ret>>
    BY <1>0, <2>1 DEF CheckPlan, TypeOK, ActorsOK, Restores, stream
  <2>3. restore.base \in Completed
    BY <2>1 DEF PlanIsLive
  <2>4. ASSUME NEW k \in restore.chunks
        PROVE  /\ k.key \in Stored /\ (\E r \in rows : r.key = k.key /\ r.status # "pruned")
               /\ ret.pc = "purge" => k.key \notin ret.keys
    <3>1. PICK r \in rows : r.key = k.key /\ Live(r)
      BY <2>1 DEF PlanIsLive
    <3> QED
      BY <1>0, <3>1 DEF LiveStored, Live, DueOnly, TypeOK, RowsOK
  <2> QED
    BY <2>2, <2>3, <2>4 DEF PlanKept, Stored, Completed
<1>3. CASE restore.pc = "reading"
  <2>1. UNCHANGED restore
    BY <1>0, <1>1, <1>3, PlanOK, RetentionAssumption, EndedOK, RestoreWriters DEF StartRestore, PinPlan, CheckPlan
  <2>2. restore.base \in Completed'
    <3>2. BasesTurn
      BY <1>0, BasesNext
    <3>3. restore.base \in Completed /\ restore.base \in PinnedBases
      BY <1>0, <1>3 DEF PlanKept, PinnedBases, Pinned
    <3>4. restore.base \in DOMAIN bases /\ bases[restore.base].status = "completed" /\ restore.base # 0
      BY <1>0, <3>3, CompletedNat DEF Completed
    <3>5. ~(DeleteArchive /\ restore.base = purging)
      BY <1>0, <3>4 DEF PurgeDue
    <3> QED
      BY <3>2, <3>3, <3>4, <3>5 DEF BasesTurn, BaseTurned, Completed
  <2>3. ASSUME NEW k \in restore.chunks
        PROVE  /\ k.key \in Stored' /\ (\E q \in rows' : q.key = k.key /\ q.status # "pruned")
               /\ ret'.pc = "purge" => k.key \notin ret'.keys
    <3>1. k.key \in Stored /\ (ret.pc = "purge" => k.key \notin ret.keys)
      BY <1>0, <1>3 DEF PlanKept
    <3>2. PICK r \in rows : r.key = k.key /\ r.status # "pruned"
      BY <1>0, <1>3 DEF PlanKept
    <3>3. k.key \in Stored'
      <4>1. SUFFICES ASSUME k.key \notin Stored' PROVE FALSE
        OBVIOUS
      <4>2. CASE FailChunk /\ k.key = upload.key
        BY <1>0, <3>2, <4>2 DEF FailChunk, UploadSafe
      <4>3. CASE k.key \notin Named
        BY <3>2, <4>3 DEF Named
      <4>4. CASE PurgeChunk /\ k.key \in ret.keys
        BY <3>1, <4>4 DEF PurgeChunk
      <4> QED
        BY <1>0, <3>1, <4>1, <4>2, <4>3, <4>4, StoredNext
    <3>4. \E q \in rows' : q.key = k.key /\ q.status # "pruned"
      <4>1. CASE CommitChunk
        BY <3>2, <4>1 DEF CommitChunk
      <4>2. CASE RowsTurn
        <5>1. PICK q \in rows' : q \in Turned(r)
          BY <3>2, <4>2, TurnedRows
        <5> QED
          BY <3>1, <3>2, <5>1 DEF Turned
      <4> QED
        BY <1>0, <4>1, <4>2, RowsNext
    <3>5. k.key \in PinnedKeys
      BY <1>3 DEF PinnedKeys, Pinned
    <3>6. ret'.pc = "purge" => k.key \notin ret'.keys
      BY <1>0, <3>1, <3>5, RetKeysNext
    <3> QED
      BY <3>3, <3>4, <3>6
  <2> QED
    BY <2>1, <2>2, <2>3 DEF PlanKept
<1> QED
  BY <1>2, <1>3

\* The invariant holds initially.
LEMMA InitInv == ASSUME Init PROVE IInv
<1>1. ChainsOK
  BY DEF Init, ChainsOK, Chains
<1>2. RowsOK /\ LiveStored
  BY DEF Init, RowsOK, LiveStored
<1>3. ObjectsOK /\ UploadSafe
  BY DEF Init, ObjectsOK, NoChunk, Keys, UploadSafe
<1>4. BasesOK /\ PurgeDue
  BY DEF Init, BasesOK, Completed, PurgeDue
<1>5. NoRestore \in Restores /\ NoRestore.pc = "idle"
  BY DEF NoRestore, Restores
<1>6. ActorsOK /\ DueOnly /\ PlanKept
  BY <1>5, IdleOK DEF Init, ActorsOK, DueOnly, PlanKept
<1> QED
  BY <1>1, <1>2, <1>3, <1>4, <1>6 DEF IInv, TypeOK

\* Every step preserves it.
LEMMA NextInv == ASSUME SweepRaces = FALSE, IInv, [Next]_vars PROVE IInv'
<1>1. CASE Next
  <2>1. TypeOK' /\ PurgeDue'
    BY <1>1, TypeNext DEF IInv, UploadSafe, UploadNew
  <2> QED
    BY <1>1, <2>1, UploadNext, DueNext, LiveNext, PlanNext DEF IInv
<1>2. CASE UNCHANGED vars
  BY <1>2 DEF vars, stream, IInv, TypeOK, ChainsOK, Chains, RowsOK, ChunkOK, ObjectsOK, BasesOK, ActorsOK,
      Completed, UploadSafe, DueOnly, PurgeDue, PlanKept,
              LiveStored, Live, Stored
<1> QED
  BY <1>1, <1>2

\* CommittedStored for all constants, as long as no chunk is stored again under its key
\* between the list of the sweep and its delete (README): committed chunks that are not
\* deleted can be read, whatever collector, retention, purges and crashes do in between.
THEOREM CommittedSafe == SweepRaces = FALSE => (Spec => []CommittedStored)
<1> SUFFICES ASSUME SweepRaces = FALSE PROVE Spec => []CommittedStored
  OBVIOUS
<1>1. IInv => CommittedStored
  BY DEF IInv, CommittedStored, LiveStored
<1>2. Init => IInv
  BY InitInv
<1>3. IInv /\ [Next]_vars => IInv'
  BY NextInv
<1> QED
  BY <1>1, <1>2, <1>3, PTL DEF Spec

\* PlanReadable for all constants, under the same condition: a restore that passed its check
\* reads all it planned, whatever retention decided before it saw the pins.
THEOREM PlanSafe == SweepRaces = FALSE => (Spec => []PlanReadable)
<1> SUFFICES ASSUME SweepRaces = FALSE PROVE Spec => []PlanReadable
  OBVIOUS
<1>1. IInv => PlanReadable
  BY DEF IInv, PlanReadable, PlanKept, TypeOK, BasesOK
<1>2. Init => IInv
  BY InitInv
<1>3. IInv /\ [Next]_vars => IInv'
  BY NextInv
<1> QED
  BY <1>1, <1>2, <1>3, PTL DEF Spec

-----------------------------------------------------------------------------
(* Retention and the windows.  It decides on what it reads at the start, and *)
(* deletes later; meanwhile chunks are added, superseded and found bad.      *)

\* The chunk being stored continues the current chain.
UploadOn ==
    upload # NoChunk =>
      /\ upload.chain = Current /\ Open(Current)
      /\ \A r \in rows : r.chain = upload.chain => r.to <= upload.from

\* Base backups run one after the other.
OrderInv ==
    /\ \A b \in DOMAIN bases : bases[b].status = "running" => b = Len(bases)
    /\ \A b \in Completed : bases[b].after <= srv
    /\ \A b, d \in DOMAIN bases : b < d =>
          bases[b].before <= bases[d].before /\ (b \in Completed => bases[b].after <= bases[d].before)

\* The bases that retention listed, and later those it keeps, are completed.
ListedInv == ret.pc \in {"purge", "delete"} => ret.bases \subseteq Completed

\* A restore of base b replays an earlier chain than c.
Preceded(b, c) == \E q \in rows : Live(q) /\ q.chain < c /\ q.from <= bases[b].before /\ bases[b].before <= q.to

\* Chain c takes no more chunks within base b.
Passed(b, c) == ~Open(c) \/ \E q \in rows : q.chain = c /\ bases[b].after <= q.to /\ bases[b].before < q.to

\* Chain c does not cover base b, and never will.
Short(b, c) == ~Linked(rows, c, bases[b].before, bases[b].after) /\ Passed(b, c)

\* What retention is about to delete: no base it keeps, no chunk of the chain that covers such
\* a base, and of other chains only chunks that no restore of a base it keeps would replay.
KeptInv ==
    ret.pc = "delete" =>
      /\ ret.delBases \cap ret.bases = {}
      /\ \A k \in ret.delKeys : \E r \in rows : r.key = k
      /\ \A e \in ret.eligible : (\A f \in ret.eligible : f[1] <= e[1]) => e[1] \in ret.bases
      /\ \A e \in ret.eligible, r \in rows :
           e[1] \in ret.bases /\ r.chain = e[2] /\ Live(r) /\ bases[e[1]].before <= r.to => r.key \notin ret.delKeys
      /\ \A b \in ret.bases, r \in rows :
           r.key \in ret.delKeys /\ Live(r) /\ bases[b].before <= r.to => Preceded(b, r.chain) \/ Short(b, r.chain)

\* The inductive invariant; whether the sweep may race with an upload does not matter to it.
WInv == TypeOK /\ PurgeDue /\ UploadNew /\ UploadOn /\ OrderInv /\ ListedInv /\ KeptInv

\* Every step preserves UploadNew.
LEMMA UploadNewNext == ASSUME TypeOK, UploadNew, Next PROVE UploadNew'
<1>1. CASE SaveChunk
  BY <1>1, NextChunkOK DEF SaveChunk, UploadNew
<1>2. CASE upload' = NoChunk
  BY <1>2 DEF UploadNew
<1>3. CASE UNCHANGED upload /\ upload # NoChunk
  <2>1. ~CommitChunk
    BY <1>3 DEF CommitChunk
  <2> QED
    BY <1>3, <2>1, RowKeys DEF UploadNew
<1> QED
  BY <1>1, <1>2, <1>3, UploadWriters DEF UploadNew

\* A chain that ended stays ended, and only a divergence or a gap ends one.
LEMMA OpenNext ==
  ASSUME TypeOK, Next, NEW c \in Chains
  PROVE  /\ Open(c)' => Open(c)
         /\ upload # NoChunk => UNCHANGED chains
<1>0. chains \in Seq(ChainRecords) /\ Len(chains) \in Nat /\ Chains = 1..Len(chains) /\ Current = Len(chains)
  BY DEF TypeOK, ChainsOK, Chains, Current
<1>1. ASSUME NEW n \in Nat, chains' = Append([chains EXCEPT ![Current].open = FALSE], [start |-> n, open |-> TRUE])
      PROVE  Open(c)' => Open(c)
  <2> DEFINE e == [chains[Current] EXCEPT !.open = FALSE]
             cut == [chains EXCEPT ![Current] = e]
             new == [start |-> n, open |-> TRUE]
  <2>1. Current \in 1..Len(chains) /\ chains[Current] \in ChainRecords
    BY <1>0, ElementOfSeq
  <2>2. e \in ChainRecords /\ ~e.open
    BY <2>1 DEF ChainRecords
  <2>3. new \in ChainRecords
    BY DEF ChainRecords
  <2>4. chains' = Append(cut, new)
    BY <1>1
  <2> HIDE DEF e, new
  <2>5. cut \in Seq(ChainRecords) /\ Len(cut) = Len(chains) /\ \A x \in 1..Len(chains) : cut[x] = IF x = Current THEN e ELSE chains[x]
    BY <1>0, <2>1, <2>2, ExceptSeq
  <2> HIDE DEF cut
  <2>6. Append(cut, new)[c] = cut[c]
    BY <1>0, <2>3, <2>5, AppendProperties
  <2> QED
    BY <1>0, <2>2, <2>4, <2>5, <2>6 DEF Open
<1>2. CASE BreakChain
  <2>1. PICK n \in Pos(Current) + 1..srv :
          chains' = Append([chains EXCEPT ![Current].open = FALSE], [start |-> n, open |-> TRUE])
    BY <1>2 DEF BreakChain
  <2>2. Current \in Chains /\ srv \in Nat
    BY <1>0 DEF TypeOK, ChainsOK
  <2>3. n \in Nat
    BY <2>1, <2>2, PosIn
  <2> QED
    BY <1>1, <1>2, <2>1, <2>3 DEF BreakChain
<1>3. CASE Diverge
  <2>1. PICK n \in {chains[Current].start} \cup {r.to : r \in LiveRows(rows, Current)} :
          chains' = Append([chains EXCEPT ![Current].open = FALSE], [start |-> n, open |-> TRUE])
    BY <1>3 DEF Diverge
  <2>2. Current \in Chains
    BY <1>0
  <2>3. n \in Nat
    BY <2>1, <2>2 DEF TypeOK, ChainsOK, RowsOK, Rows, LiveRows
  <2> QED
    BY <1>1, <1>3, <2>1, <2>3 DEF Diverge
<1>4. CASE StartStream
  BY <1>0, <1>4 DEF StartStream
<1>5. CASE UNCHANGED chains
  BY <1>5 DEF Open
<1>6. ServerWrites => UNCHANGED chains
  BY DEF ServerWrites
<1> QED
  BY <1>2, <1>3, <1>4, <1>5, <1>6, ChainsWriters

\* Every step preserves UploadOn.
LEMMA UploadOnNext == ASSUME TypeOK, UploadOn, Next PROVE UploadOn'
<1>1. CASE SaveChunk
  <2>1. upload' = NextChunk /\ UNCHANGED <<chains, rows>> /\ Current # 0 /\ Open(Current)
    BY <1>1 DEF SaveChunk
  <2>2. NextChunk.chain = Current /\ NextChunk.from = Pos(Current) /\ Current \in Chains
    BY <2>1 DEF NextChunk, TypeOK, ChainsOK, Chains, Current
  <2>3. \A r \in rows : r.chain = Current => r.to <= Pos(Current)
    BY <2>2, PosIn
  <2> QED
    BY <2>1, <2>2, <2>3 DEF UploadOn, Open, Current
<1>2. CASE upload' = NoChunk
  BY <1>2 DEF UploadOn
<1>3. CASE UNCHANGED upload /\ upload # NoChunk
  <2>1. upload.chain \in Chains
    BY <1>3 DEF TypeOK, ObjectsOK, ChunkOK
  <2>2. UNCHANGED chains
    BY <1>3, <2>1, OpenNext
  <2>3. RowsTurn
    BY <1>3, RowsNext DEF CommitChunk
  <2>4. \A q \in rows' : \E r \in rows : q.chain = r.chain /\ q.to = r.to
    BY <2>3, TurnedRows DEF Turned
  <2> QED
    BY <1>3, <2>2, <2>4 DEF UploadOn, Open, Current
<1> QED
  BY <1>1, <1>2, <1>3, UploadWriters DEF UploadOn

\* The numbering of the bases.
LEMMA BasesDomain ==
  ASSUME TypeOK
  PROVE  /\ bases \in Seq(BaseBackups) /\ Len(bases) \in Nat /\ DOMAIN bases = 1..Len(bases)
         /\ \A b \in DOMAIN bases : bases[b] \in BaseBackups /\ bases[b].before \in Nat /\ bases[b].after \in Nat
<1>1. bases \in Seq(BaseBackups)
  BY DEF TypeOK, BasesOK
<1>2. Len(bases) \in Nat /\ DOMAIN bases = 1..Len(bases)
  BY <1>1, LenProperties
<1>3. \A b \in DOMAIN bases : bases[b] \in BaseBackups
  BY <1>1, <1>2, ElementOfSeq
<1> QED
  BY <1>1, <1>2, <1>3 DEF BaseBackups

\* No base starts while another one runs.
LEMMA NoneRuns ==
  ASSUME TypeOK, OrderInv, StartBase
  PROVE  \A b \in DOMAIN bases : bases[b].status # "running"
<1>1. SUFFICES ASSUME NEW b \in DOMAIN bases, bases[b].status = "running" PROVE FALSE
  OBVIOUS
<1>2. b = Len(bases) /\ b \in NotDeleted /\ NotDeleted \subseteq 1..Len(bases) /\ Len(bases) \in Nat
  BY <1>1, BasesDomain DEF OrderInv, NotDeleted
<1>3. NotDeleted \in SUBSET Nat /\ NotDeleted # {} /\ \A x \in NotDeleted : x <= Len(bases)
  BY <1>2
<1>4. Max(NotDeleted) \in NotDeleted /\ b <= Max(NotDeleted)
  BY <1>2, <1>3, MaxIn
<1>5. Max(NotDeleted) = b
  BY <1>2, <1>3, <1>4
<1>6. ~BaseDue
  BY <1>1, <1>3, <1>5 DEF BaseDue
<1>7. ~CronDue
  BY <1>1, <1>5 DEF CronDue
<1> QED
  BY <1>6, <1>7 DEF StartBase

\* The bases keep their order when none starts or completes.
LEMMA OrderCalm ==
  ASSUME TypeOK, TypeOK', OrderInv, srv <= srv', DOMAIN bases' = DOMAIN bases,
         \A b \in DOMAIN bases : /\ bases'[b].before = bases[b].before /\ bases'[b].after = bases[b].after
                                 /\ bases'[b].status \in {"running", "completed"} => bases'[b].status = bases[b].status
  PROVE  OrderInv'
<1>1. Completed' \subseteq Completed
  BY DEF Completed
<1>2. Len(bases') = Len(bases)
  <2>1. bases' \in Seq(BaseBackups)
    BY DEF TypeOK, BasesOK
  <2>2. Len(bases') \in Nat /\ DOMAIN bases' = 1..Len(bases')
    BY <2>1, LenProperties
  <2> QED
    BY <2>2, BasesDomain
<1>3. \A b \in Completed' : bases'[b].after <= srv'
  BY <1>1, BasesDomain DEF OrderInv, Completed, TypeOK, ChainsOK
<1> QED
  BY <1>1, <1>2, <1>3 DEF OrderInv

\* The base that ends.
LEMMA EndsBase ==
  ASSUME EndBase
  PROVE  \E x \in DOMAIN bases :
           /\ bases[x].status = "running"
           /\ \/ bases' = [bases EXCEPT ![x] = [@ EXCEPT !.status = "completed", !.after = srv, !.stored = TRUE]]
              \/ bases' = [bases EXCEPT ![x].status = "failed"]
BY Zenon DEF EndBase

\* Every step preserves OrderInv.
LEMMA OrderNext ==
  ASSUME TypeOK, TypeOK', OrderInv, srv <= srv', Next
  PROVE  OrderInv'
<1>0. /\ bases \in Seq(BaseBackups) /\ Len(bases) \in Nat /\ DOMAIN bases = 1..Len(bases) /\ srv \in Nat
      /\ \A b \in DOMAIN bases : bases[b] \in BaseBackups /\ bases[b].before \in Nat /\ bases[b].after \in Nat
  BY BasesDomain DEF TypeOK, ChainsOK
<1>1. CASE StartBase
  <2> DEFINE new == [status |-> "running", before |-> srv, after |-> 0, stored |-> FALSE]
  <2>1. new \in BaseBackups /\ new.status = "running" /\ new.before = srv
    BY <1>0 DEF BaseBackups
  <2>2. bases' = Append(bases, new) /\ srv' = srv
    BY <1>1 DEF StartBase, stream
  <2> HIDE DEF new
  <2>3. /\ Append(bases, new) \in Seq(BaseBackups) /\ Len(Append(bases, new)) = Len(bases) + 1 /\ Append(bases, new)[Len(bases) + 1] = new
        /\ \A b \in 1..Len(bases) : Append(bases, new)[b] = bases[b]
    BY <1>0, <2>1, AppendProperties
  <2>4. DOMAIN bases' = 1..Len(bases) + 1 /\ Len(bases') = Len(bases) + 1
    BY <2>2, <2>3, LenProperties
  <2>5. \A b \in DOMAIN bases' : b \in DOMAIN bases \/ b = Len(bases) + 1
    BY <1>0, <2>4
  <2>6. Completed' = Completed
    BY <1>0, <2>1, <2>2, <2>3, <2>4, <2>5 DEF Completed
  <2>7. \A b \in DOMAIN bases' : bases'[b].status = "running" => b = Len(bases')
    BY <1>0, <1>1, <2>2, <2>3, <2>4, <2>5, NoneRuns
  <2>8. \A b \in Completed' : bases'[b].after <= srv'
    BY <1>0, <2>2, <2>3, <2>6 DEF OrderInv, Completed
  <2>9. ASSUME NEW b \in DOMAIN bases', NEW d \in DOMAIN bases', b < d
        PROVE  bases'[b].before <= bases'[d].before /\ (b \in Completed' => bases'[b].after <= bases'[d].before)
    <3>1. b \in DOMAIN bases /\ bases'[b] = bases[b]
      BY <1>0, <2>2, <2>3, <2>4, <2>9
    <3>2. CASE d \in DOMAIN bases
      BY <1>0, <2>2, <2>3, <2>6, <2>9, <3>1, <3>2 DEF OrderInv
    <3>3. CASE d = Len(bases) + 1
      <4>1. bases'[d].before = srv
        BY <2>1, <2>2, <2>3, <3>3
      <4>2. bases[b].before <= srv
        BY <3>1 DEF TypeOK, BasesOK
      <4> QED
        BY <2>6, <3>1, <4>1, <4>2 DEF OrderInv
    <3> QED
      BY <2>5, <3>2, <3>3
  <2> QED
    BY <2>7, <2>8, <2>9 DEF OrderInv
<1>2. CASE EndBase
  <2>1. PICK x \in DOMAIN bases :
          /\ bases[x].status = "running"
          /\ \/ bases' = [bases EXCEPT ![x] = [@ EXCEPT !.status = "completed", !.after = srv, !.stored = TRUE]]
             \/ bases' = [bases EXCEPT ![x].status = "failed"]
    BY <1>2, EndsBase, Zenon
  <2> DEFINE done == [bases[x] EXCEPT !.status = "completed", !.after = srv, !.stored = TRUE]
             failed == [bases[x] EXCEPT !.status = "failed"]
  <2>2. done.status = "completed" /\ done.before = bases[x].before /\ done.after = srv
    BY <1>0 DEF BaseBackups
  <2>3. failed.status = "failed" /\ failed.before = bases[x].before /\ failed.after = bases[x].after
    BY <1>0 DEF BaseBackups
  <2>4. bases' = [bases EXCEPT ![x] = done] \/ bases' = [bases EXCEPT ![x] = failed]
    BY <2>1
  <2> HIDE DEF done, failed
  <2>5. DOMAIN bases' = DOMAIN bases /\ \A b \in DOMAIN bases : b # x => bases'[b] = bases[b]
    BY <2>4
  <2>6. CASE bases' = [bases EXCEPT ![x] = failed]
    <3>1. bases'[x] = failed
      BY <2>6
    <3> QED
      BY <2>3, <2>5, <3>1, OrderCalm
  <2>7. CASE bases' = [bases EXCEPT ![x] = done]
    <3>1. bases'[x] = done /\ x = Len(bases) /\ srv' = srv
      BY <1>2, <2>1, <2>7 DEF OrderInv, EndBase, stream
    <3>2. Len(bases') = Len(bases)
      <4>1. bases' \in Seq(BaseBackups)
        BY DEF TypeOK, BasesOK
      <4>2. Len(bases') \in Nat /\ DOMAIN bases' = 1..Len(bases')
        BY <4>1, LenProperties
      <4> QED
        BY <1>0, <2>5, <4>2
    <3>3. \A b \in Completed' : b = x \/ b \in Completed
      BY <2>5 DEF Completed
    <3>4. \A b, d \in DOMAIN bases : b < d => b # x
      BY <1>0, <3>1
    <3>5. \A b \in DOMAIN bases : bases'[b].before = bases[b].before
      BY <2>2, <2>5, <3>1
    <3>6. \A b \in Completed' : bases'[b].after <= srv'
      BY <1>0, <2>2, <2>5, <3>1, <3>3 DEF OrderInv, Completed
    <3> QED
      BY <2>2, <2>5, <3>1, <3>2, <3>3, <3>4, <3>5, <3>6 DEF OrderInv
  <2> QED
    BY <2>4, <2>6, <2>7
<1>3. ASSUME NEW x \in DOMAIN bases, NEW e, bases' = [bases EXCEPT ![x] = e], e.status \notin {"running", "completed"},
             e.before = bases[x].before, e.after = bases[x].after
      PROVE  OrderInv'
  <2>1. DOMAIN bases' = DOMAIN bases /\ bases'[x] = e /\ \A b \in DOMAIN bases : b # x => bases'[b] = bases[b]
    BY <1>3
  <2> QED
    BY <1>3, <2>1, OrderCalm
<1>4. CASE DeleteBase /\ bases' # bases
  <2>1. PICK x \in Completed : bases' = [bases EXCEPT ![x].status = "deleted"]
    BY <1>4 DEF DeleteBase
  <2> DEFINE e == [bases[x] EXCEPT !.status = "deleted"]
  <2>2. x \in DOMAIN bases
    BY <2>1 DEF Completed
  <2>3. bases' = [bases EXCEPT ![x] = e] /\ e.status = "deleted" /\ e.before = bases[x].before /\ e.after = bases[x].after
    BY <1>0, <2>1, <2>2 DEF BaseBackups
  <2> HIDE DEF e
  <2> QED
    BY <1>3, <2>2, <2>3
<1>5. CASE DeleteArchive
  <2> DEFINE e == [bases[purging] EXCEPT !.status = "purged", !.stored = FALSE]
  <2>1. purging \in DOMAIN bases /\ bases' = [bases EXCEPT ![purging] = e]
    BY <1>5 DEF DeleteArchive, TypeOK, BasesOK
  <2>2. e.status = "purged" /\ e.before = bases[purging].before /\ e.after = bases[purging].after
    BY <1>0, <2>1 DEF BaseBackups
  <2> HIDE DEF e
  <2> QED
    BY <1>3, <2>1, <2>2
<1>6. CASE TimePasses
  <2> DEFINE f == [b \in DOMAIN bases |-> IF bases[b].status = "deleted" THEN [bases[b] EXCEPT !.status = "due"] ELSE bases[b]]
  <2>1. bases' = f
    BY <1>6 DEF TimePasses
  <2>2. \A b \in DOMAIN bases : /\ f[b].before = bases[b].before /\ f[b].after = bases[b].after
                                /\ f[b].status \in {"running", "completed"} => f[b].status = bases[b].status
    BY <1>0 DEF BaseBackups
  <2> QED
    BY <2>1, <2>2, OrderCalm
<1>7. CASE Crash
  <2> DEFINE f == [b \in DOMAIN bases |-> IF bases[b].status = "running" THEN [bases[b] EXCEPT !.status = "failed"] ELSE bases[b]]
  <2>1. bases' = f
    BY <1>7 DEF Crash
  <2>2. \A b \in DOMAIN bases : /\ f[b].before = bases[b].before /\ f[b].after = bases[b].after
                                /\ f[b].status \in {"running", "completed"} => f[b].status = bases[b].status
    BY <1>0 DEF BaseBackups
  <2> QED
    BY <2>1, <2>2, OrderCalm
<1>8. CASE UNCHANGED bases
  BY <1>8, OrderCalm
<1> QED
  BY <1>1, <1>2, <1>4, <1>5, <1>6, <1>7, <1>8, BasesWriters

\* A completed base stays as it is, unless retention has it in its list.
LEMMA CompletedNext ==
  ASSUME TypeOK, PurgeDue, Next, NEW b \in Completed, ~(DeleteBase /\ b \in ret.delBases)
  PROVE  b \in Completed' /\ bases'[b] = bases[b]
<1>0. /\ bases \in Seq(BaseBackups) /\ Len(bases) \in Nat /\ DOMAIN bases = 1..Len(bases)
      /\ b \in DOMAIN bases /\ bases[b].status = "completed"
  BY BasesDomain DEF Completed
<1>1. b \in DOMAIN bases' /\ bases'[b] = bases[b]
  <2>1. CASE StartBase
    <3> DEFINE new == [status |-> "running", before |-> srv, after |-> 0, stored |-> FALSE]
    <3>1. new \in BaseBackups
      BY DEF BaseBackups, TypeOK, ChainsOK
    <3>2. bases' = Append(bases, new)
      BY <2>1 DEF StartBase
    <3> HIDE DEF new
    <3>3. /\ Append(bases, new) \in Seq(BaseBackups) /\ Len(Append(bases, new)) = Len(bases) + 1
          /\ \A x \in 1..Len(bases) : Append(bases, new)[x] = bases[x]
      BY <1>0, <3>1, AppendProperties
    <3>4. DOMAIN bases' = 1..Len(bases) + 1
      BY <3>2, <3>3, LenProperties
    <3> QED
      BY <1>0, <3>2, <3>3, <3>4
  <2>2. CASE EndBase
    BY <1>0, <2>2 DEF EndBase
  <2>3. CASE DeleteBase
    BY <1>0, <2>3 DEF DeleteBase
  <2>4. CASE DeleteArchive
    BY <1>0, <2>4 DEF DeleteArchive, PurgeDue
  <2>5. CASE TimePasses
    BY <1>0, <2>5 DEF TimePasses
  <2>6. CASE Crash
    BY <1>0, <2>6 DEF Crash
  <2>7. CASE UNCHANGED bases
    BY <1>0, <2>7
  <2> QED
    BY <2>1, <2>2, <2>3, <2>4, <2>5, <2>6, <2>7, BasesWriters
<1> QED
  BY <1>0, <1>1 DEF Completed

\* Every step preserves ListedInv: a base that was listed is deleted only when it is on the list.
LEMMA ListedNext ==
  ASSUME TypeOK, PurgeDue, ListedInv, KeptInv, Next
  PROVE  ListedInv'
<1>0. ret \in Retentions
  BY DEF TypeOK, ActorsOK
<1>1. CASE ret' = Snapshot /\ UNCHANGED bases
  BY <1>1 DEF Snapshot, Idle, ListedInv, Completed
<1>2. ASSUME ret.pc \in {"purge", "delete"}, ret'.bases \subseteq ret.bases, ret'.bases \cap ret.delBases = {} \/ ~DeleteBase
      PROVE  ListedInv'
  <2>1. ret.bases \subseteq Completed
    BY <1>2 DEF ListedInv
  <2>2. ASSUME NEW b \in ret'.bases PROVE b \in Completed'
    <3>1. b \in Completed /\ ~(DeleteBase /\ b \in ret.delBases)
      BY <1>2, <2>1, <2>2
    <3> QED
      BY <3>1, CompletedNext
  <2> QED
    BY <2>2 DEF ListedInv
<1>3. CASE RetainStream
  <2>1. ret' = Snapshot \/ ret' = [Idle EXCEPT !.pc = "sweep", !.keys = Orphans]
    BY <1>3 DEF RetainStream
  <2>2. [Idle EXCEPT !.pc = "sweep", !.keys = Orphans].pc = "sweep"
    BY DEF Idle
  <2> QED
    BY <1>1, <1>3, <2>1, <2>2 DEF RetainStream, ListedInv
<1>4. CASE PurgeOrphan
  BY <1>0, <1>4 DEF PurgeOrphan, Retentions, ListedInv
<1>5. CASE SnapshotPins
  BY <1>1, <1>5 DEF SnapshotPins
<1>6. CASE PurgeChunk
  <2>1. ret.pc = "purge" /\ ret'.bases = ret.bases /\ UNCHANGED bases
    BY <1>0, <1>6 DEF PurgeChunk, Retentions
  <2> QED
    BY <2>1 DEF ListedInv, Completed
<1>7. CASE PlanRetention
  <2>1. ret.pc = "purge" /\ ret'.bases = KeptBases(ret.bases, ret.basePins) /\ UNCHANGED bases
    BY <1>0, <1>7 DEF PlanRetention, Retentions
  <2> QED
    BY <2>1 DEF ListedInv, Completed, KeptBases
<1>8. CASE DeleteBase
  <2>1. ret.pc = "delete" /\ ret'.bases = ret.bases /\ ret.delBases \cap ret.bases = {}
    BY <1>0, <1>8 DEF DeleteBase, Retentions, KeptInv
  <2> QED
    BY <1>2, <2>1
<1>9. CASE DeleteChunks \/ ret' = Idle
  BY <1>9, IdleOK DEF DeleteChunks, ListedInv
<1>10. CASE UNCHANGED ret /\ ~DeleteBase
  <2>1. CASE ret.pc \in {"purge", "delete"}
    BY <1>2, <1>10, <2>1
  <2>2. CASE ret.pc \notin {"purge", "delete"}
    BY <1>10, <2>2 DEF ListedInv
  <2> QED
    BY <2>1, <2>2
<1> QED
  BY <1>3, <1>4, <1>5, <1>6, <1>7, <1>8, <1>9, <1>10, RetWriters

-----------------------------------------------------------------------------
(* What a restore of base b replays. *)

\* The chunks of chain c that do not end before base b starts.
From(R, c, b) == {r \in LiveRows(R, c) : r.to >= b.before}

\* The chains with a chunk at the start of base b.
Starts(R, b) == {c \in Chains : \E r \in From(R, c, b) : r.from <= b.before}

\* The chunks of the first of them, up to limit.
PlanOn(R, b, limit) == {r \in From(R, Min(Starts(R, b)), b) : r.from < limit}

\* They reach from the start of the base to limit.
PlanReaches(P, b, limit) ==
    /\ \E r \in P : r.to = limit
    /\ \A r \in P : ~r.bad /\ (r.from <= b.before \/ \E q \in P : q.from < r.from /\ q.to = r.from)

\* PlanFrom, in these terms.
LEMMA PlanForm ==
  ASSUME NEW R, NEW b, NEW limit
  PROVE  PlanFrom(R, b, limit) # {} <=>
           Starts(R, b) # {} /\ b.after < limit /\ PlanReaches(PlanOn(R, b, limit), b, limit)
<1>1. PlanFrom(R, b, limit) =
        IF Starts(R, b) # {} /\ b.after < limit /\ PlanReaches(PlanOn(R, b, limit), b, limit) THEN PlanOn(R, b, limit) ELSE {}
  BY Zenon DEF PlanFrom, PlanReaches, PlanOn, Starts, From
<1>2. PlanReaches(PlanOn(R, b, limit), b, limit) => PlanOn(R, b, limit) # {}
  BY DEF PlanReaches
<1> QED
  BY <1>1, <1>2

\* The first chain is one of them.
LEMMA FirstStart ==
  ASSUME TypeOK, NEW R, NEW b, Starts(R, b) # {}
  PROVE  Min(Starts(R, b)) \in Starts(R, b) /\ \A c \in Starts(R, b) : c \in Nat /\ Min(Starts(R, b)) <= c
<1>1. Starts(R, b) \in SUBSET Nat
  BY DEF Starts, Chains, TypeOK, ChainsOK
<1> QED
  BY <1>1, MinIn

\* The chunks of a plan are linked: the chain that is replayed covers the base.
LEMMA PlanLinked ==
  ASSUME TypeOK, NEW b \in BaseBackups, b.before <= b.after, NEW limit \in Nat, PlanFrom(rows, b, limit) # {}
  PROVE  Linked(rows, Min(Starts(rows, b)), b.before, b.after)
<1> DEFINE m == Min(Starts(rows, b))
           P == PlanOn(rows, b, limit)
           Has(p) == \E r \in P : r.from = p - 1 /\ r.to = p /\ ~r.bad
           Lacks == {p \in b.before + 1..limit : ~Has(p)}
<1>1. Starts(rows, b) # {} /\ b.after < limit /\ PlanReaches(P, b, limit) /\ b.before \in Nat /\ b.after \in Nat
  BY PlanForm DEF BaseBackups
<1>2. m \in Starts(rows, b)
  BY <1>1, FirstStart
<1>3. \A r \in P : r \in LiveRows(rows, m) /\ r.to >= b.before /\ r.from < limit /\ r.from \in Nat /\ r.to \in {r.from, r.from + 1}
  BY DEF PlanOn, From, LiveRows, TypeOK, RowsOK, Rows, ChunkOK
<1>4. CASE b.before = b.after
  <2>1. PICK r \in From(rows, m, b) : r.from <= b.before
    BY <1>2 DEF Starts
  <2>2. r \in LiveRows(rows, m) /\ r.to >= b.before /\ r.to \in Nat /\ r.from \in Nat
    BY <2>1 DEF From, LiveRows, TypeOK, RowsOK, Rows
  <2>3. r \in P
    BY <1>1, <1>4, <2>1, <2>2 DEF PlanOn
  <2>4. ~r.bad
    BY <1>1, <2>3 DEF PlanReaches
  <2> QED
    BY <1>1, <1>4, <2>1, <2>2, <2>4 DEF Linked
<1>5. CASE b.before # b.after
  <2>1. Lacks = {}
    <3>1. SUFFICES ASSUME Lacks # {} PROVE FALSE
      OBVIOUS
    <3>2. Lacks \in SUBSET Nat /\ \A x \in Lacks : x <= limit
      BY <1>1
    <3> DEFINE p == Max(Lacks)
    <3>3. p \in Lacks /\ \A x \in Lacks : x <= p
      <4> HIDE DEF Lacks
      <4> QED
        BY <3>1, <3>2, MaxIn
    <3> HIDE DEF p, P
    <3>4. p \in Nat /\ b.before < p /\ p <= limit /\ ~Has(p)
      BY <1>1, <3>2, <3>3
    <3>5. CASE p = limit
      <4>1. PICK r \in P : r.to = limit /\ ~r.bad
        BY <1>1 DEF PlanReaches
      <4> QED
        BY <1>1, <1>3, <3>4, <3>5, <4>1
    <3>6. CASE p < limit
      <4>1. p + 1 \in b.before + 1..limit /\ p + 1 \notin Lacks
        BY <1>1, <3>3, <3>4, <3>6
      <4>2. PICK r \in P : r.from = (p + 1) - 1
        BY <4>1
      <4>3. r.from = p
        BY <3>4, <4>2
      <4>4. PICK q \in P : q.from < r.from /\ q.to = r.from
        BY <1>1, <3>4, <4>3 DEF PlanReaches
      <4>5. ~q.bad
        BY <1>1 DEF PlanReaches
      <4> QED
        BY <1>3, <3>4, <4>3, <4>4, <4>5
    <3> QED
      BY <3>4, <3>5, <3>6
  <2>2. ASSUME NEW p \in b.before + 1..b.after PROVE Has(p)
    BY <1>1, <2>1
  <2>3. ASSUME NEW p \in b.before + 1..b.after PROVE \E r \in LiveRows(rows, m) : r.from = p - 1 /\ r.to = p /\ ~r.bad
    <3> HIDE DEF P
    <3> QED
      BY <1>3, <2>2
  <2> QED
    BY <1>5, <2>3 DEF Linked
<1> QED
  BY <1>4, <1>5

\* A base that a chain covers has a chunk of that chain at its start and one that ends where
\* it ends or later.
LEMMA LinkedEnds ==
  ASSUME TypeOK, NEW c, NEW i \in Nat, NEW j \in Nat, i <= j, Linked(rows, c, i, j)
  PROVE  /\ \E q \in LiveRows(rows, c) : q.from <= i /\ i <= q.to /\ ~q.bad
         /\ \E q \in LiveRows(rows, c) : j <= q.to
<1>1. CASE i = j
  BY <1>1 DEF Linked
<1>2. CASE i # j
  <2>1. i + 1 \in i + 1..j /\ j \in i + 1..j
    BY <1>2
  <2>2. \A p \in i + 1..j : \E r \in LiveRows(rows, c) : r.from = p - 1 /\ r.to = p /\ ~r.bad
    BY <1>2 DEF Linked
  <2>3. PICK q \in LiveRows(rows, c) : q.from = i /\ q.to = i + 1 /\ ~q.bad
    BY <2>1, <2>2
  <2>4. PICK r \in LiveRows(rows, c) : r.to = j
    BY <2>1, <2>2
  <2> QED
    BY <2>3, <2>4
<1> QED
  BY <1>1, <1>2

\* The chain that covers a base, and no chain covers it earlier.
LEMMA ChainOfIn ==
  ASSUME TypeOK, NEW b
  PROVE  /\ ChainOf(rows, b) \in Nat
         /\ ChainOf(rows, b) # 0 => ChainOf(rows, b) \in CoveredBy(rows, b)
         /\ \A c \in CoveredBy(rows, b) : ChainOf(rows, b) # 0 /\ ChainOf(rows, b) <= c
<1>1. CoveredBy(rows, b) \in SUBSET Nat /\ 0 \notin CoveredBy(rows, b)
  BY DEF CoveredBy, Chains, TypeOK, ChainsOK
<1>2. CASE CoveredBy(rows, b) = {}
  BY <1>2 DEF ChainOf
<1>3. CASE CoveredBy(rows, b) # {}
  <2>1. ChainOf(rows, b) = Min(CoveredBy(rows, b))
    BY <1>3 DEF ChainOf
  <2>2. Min(CoveredBy(rows, b)) \in CoveredBy(rows, b) /\ \A c \in CoveredBy(rows, b) : Min(CoveredBy(rows, b)) <= c
    BY <1>1, <1>3, MinIn
  <2> QED
    BY <1>1, <2>1, <2>2
<1> QED
  BY <1>2, <1>3

-----------------------------------------------------------------------------
(* What retention decides, and what becomes of it until it deletes. *)

\* What PlanRetention decides: the chunks it will delete are not needed by the bases it keeps.
LEMMA PlanDecides ==
  ASSUME TypeOK, OrderInv, ListedInv, PlanRetention
  PROVE  KeptInv'
<1> DEFINE B == ret.bases
           kept == KeptBases(B, ret.basePins)
           del == DeletableKeys(B, ret.basePins, ret.pins)
           On(c) == {bases[b].before : b \in {d \in kept : ChainOf(rows, bases[d]) = c}}
<1>0. ret.pc = "purge" /\ ret \in Retentions /\ B \subseteq Completed
  BY DEF PlanRetention, TypeOK, ActorsOK, ListedInv
<1>1. /\ ret'.bases = kept /\ ret'.delBases = B \ kept /\ ret'.delKeys = del /\ ret'.eligible = CoveringChains(B)
      /\ UNCHANGED <<rows, chains, bases>>
  BY <1>0 DEF PlanRetention, Retentions, stream
<1>2. /\ kept \subseteq B /\ kept \subseteq DOMAIN bases
      /\ \A b \in DOMAIN bases : b \in Nat /\ bases[b].before \in Nat /\ bases[b].after \in Nat
  BY <1>0, BasesDomain DEF KeptBases, Completed
<1>3. \A b \in Completed : bases[b].before <= bases[b].after
  BY DEF TypeOK, BasesOK
<1>4. ASSUME NEW r \in rows, r.key \in del, Live(r)
      PROVE  \/ On(r.chain) # {} /\ r.to < Min(On(r.chain))
             \/ On(r.chain) = {} /\ ~Open(r.chain)
  <2>1. PICK q \in rows : /\ q.key = r.key
                          /\ \/ q.status = "superseded"
                             \/ On(q.chain) # {} /\ q.to < Min(On(q.chain))
                             \/ On(q.chain) = {} /\ ~Open(q.chain)
    BY <1>4, Zenon DEF DeletableKeys
  <2>2. q = r
    BY <2>1 DEF TypeOK, RowsOK
  <2>3. r.status # "superseded"
    BY <1>4 DEF Live
  <2> HIDE DEF On
  <2> QED
    BY <2>1, <2>2, <2>3
<1>5. \A c : On(c) \in SUBSET Nat
  BY <1>2
<1>6. \A b \in kept : bases[b].before \in On(ChainOf(rows, bases[b]))
  OBVIOUS
<1>7. ASSUME NEW c, NEW x \in On(c) PROVE \E d \in kept : ChainOf(rows, bases[d]) = c /\ bases[d].before = x
  BY <1>7
<1>8. \A k \in del : \E r \in rows : r.key = k
  BY DEF DeletableKeys
<1>9. \A e \in CoveringChains(B) : e[1] \in Eligible(B) /\ e[2] = ChainOf(rows, bases[e[1]]) /\ e[2] # 0
  BY DEF CoveringChains, Eligible
<1>10. ASSUME NEW e \in CoveringChains(B), \A f \in CoveringChains(B) : f[1] <= e[1]
       PROVE  e[1] \in kept
  <2> DEFINE E == Eligible(B)
  <2>1. E \in SUBSET Nat /\ e[1] \in E /\ E \subseteq B
    BY <1>0, <1>2, <1>9, <1>10 DEF Eligible, Completed
  <2>2. \A x \in E : x <= e[1]
    <3>1. ASSUME NEW x \in E PROVE <<x, ChainOf(rows, bases[x])>> \in CoveringChains(B)
      BY DEF CoveringChains
    <3> QED
      BY <1>10, <3>1
  <2> HIDE DEF E
  <2>3. Max(E) \in E /\ e[1] <= Max(E) /\ Max(E) <= e[1]
    BY <2>1, <2>2, MaxIn
  <2>4. e[1] = Max(E) /\ E # {}
    <3> DEFINE m == Max(E)
               n == e[1]
    <3>1. m \in Nat /\ n \in Nat /\ n <= m /\ m <= n
      BY <2>1, <2>3
    <3> HIDE DEF m, n
    <3>2. n = m
      BY <3>1
    <3> QED
      BY <2>1, <3>2 DEF m, n
  <2> QED
    BY <2>1, <2>4 DEF KeptBases, E
<1> HIDE DEF On, kept, del
<1>11. ASSUME NEW b \in kept, NEW r \in rows, r.key \in del, Live(r), bases[b].before <= r.to
       PROVE  ChainOf(rows, bases[b]) # r.chain
  <2>1. SUFFICES ASSUME ChainOf(rows, bases[b]) = r.chain PROVE FALSE
    OBVIOUS
  <2>2. bases[b].before \in On(r.chain)
    BY <1>6, <1>11, <2>1
  <2>3. Min(On(r.chain)) \in On(r.chain) /\ Min(On(r.chain)) <= bases[b].before
    BY <1>5, <2>2, MinIn
  <2>4. r.to < Min(On(r.chain)) /\ r.to \in Nat /\ Min(On(r.chain)) \in Nat
    BY <1>4, <1>5, <1>11, <2>2, <2>3 DEF TypeOK, RowsOK, Rows
  <2> QED
    BY <1>2, <1>11, <2>3, <2>4
<1>12. ASSUME NEW b \in kept, NEW r \in rows, r.key \in del, Live(r), bases[b].before <= r.to
       PROVE  Preceded(b, r.chain) \/ Short(b, r.chain)
  <2>0. b \in Completed /\ b \in DOMAIN bases /\ r.chain \in Chains /\ r.chain \in Nat /\ r.to \in Nat
    BY <1>0, <1>2, <1>12 DEF TypeOK, RowsOK, Rows, ChunkOK
  <2>1. CASE r.chain \in CoveredBy(rows, bases[b])
    <3> DEFINE c == ChainOf(rows, bases[b])
    <3>1. c \in Nat /\ c \in CoveredBy(rows, bases[b]) /\ c < r.chain
      BY <1>11, <1>12, <2>0, <2>1, ChainOfIn
    <3>2. Linked(rows, c, bases[b].before, bases[b].after)
      BY <3>1 DEF CoveredBy
    <3> HIDE DEF c
    <3>3. PICK q \in LiveRows(rows, c) : q.from <= bases[b].before /\ bases[b].before <= q.to
      BY <1>2, <1>3, <2>0, <3>2, LinkedEnds
    <3> QED
      BY <3>1, <3>3 DEF Preceded, LiveRows
  <2>2. CASE r.chain \notin CoveredBy(rows, bases[b])
    <3>1. ~Linked(rows, r.chain, bases[b].before, bases[b].after)
      BY <2>0, <2>2 DEF CoveredBy
    <3>2. CASE On(r.chain) = {} /\ ~Open(r.chain)
      BY <3>1, <3>2 DEF Short, Passed
    <3>3. CASE On(r.chain) # {} /\ r.to < Min(On(r.chain))
      <4>1. Min(On(r.chain)) \in On(r.chain)
        BY <1>5, <3>3, MinIn
      <4>2. PICK d \in kept : ChainOf(rows, bases[d]) = r.chain /\ bases[d].before = Min(On(r.chain))
        BY <1>7, <4>1
      <4>3. d \in DOMAIN bases /\ d \in Completed /\ bases[b].before < bases[d].before
        BY <1>0, <1>2, <1>12, <2>0, <3>3, <4>2
      <4>4. b < d
        <5>1. SUFFICES ASSUME ~(b < d) PROVE FALSE
          OBVIOUS
        <5>2. d = b \/ d < b
          BY <1>2, <2>0, <4>3, <5>1
        <5>3. bases[d].before <= bases[b].before
          BY <1>2, <2>0, <4>3, <5>2 DEF OrderInv
        <5> QED
          BY <1>2, <2>0, <4>3, <5>3
      <4>5. bases[b].after <= bases[d].before
        BY <2>0, <4>3, <4>4 DEF OrderInv
      <4>6. Linked(rows, r.chain, bases[d].before, bases[d].after)
        <5>1. r.chain # 0
          BY <2>0 DEF Chains
        <5> QED
          BY <4>2, <5>1, ChainOfIn DEF CoveredBy
      <4>7. PICK q \in LiveRows(rows, r.chain) : q.from <= bases[d].before /\ bases[d].before <= q.to
        BY <1>2, <1>3, <4>3, <4>6, LinkedEnds
      <4>8. q \in rows /\ q.chain = r.chain /\ q.to \in Nat
        BY <4>7 DEF LiveRows, TypeOK, RowsOK, Rows
      <4>9. bases[b].after <= q.to /\ bases[b].before < q.to
        BY <1>2, <2>0, <4>3, <4>5, <4>7, <4>8
      <4> QED
        BY <3>1, <4>8, <4>9 DEF Short, Passed
    <3> QED
      BY <1>4, <1>12, <3>2, <3>3
  <2> QED
    BY <2>1, <2>2
<1>13. \A b, c : (Preceded(b, c) <=> Preceded(b, c)') /\ (Short(b, c) <=> Short(b, c)')
  BY <1>1 DEF Preceded, Short, Passed, Linked, LiveRows, Live, Open
<1>14. ASSUME NEW e \in CoveringChains(B), NEW r \in rows, e[1] \in kept, r.chain = e[2], Live(r), bases[e[1]].before <= r.to
       PROVE  r.key \notin del
  BY <1>9, <1>11, <1>14
<1>15. ret'.delBases \cap ret'.bases = {}
  BY <1>1
<1> QED
  BY <1>1, <1>8, <1>10, <1>12, <1>13, <1>14, <1>15 DEF KeptInv, Live

\* While the rows turn, no chain comes to cover more.
LEMMA LinkedTurn ==
  ASSUME RowsTurn, NEW c, NEW i, NEW j, Linked(rows', c, i, j)
  PROVE  Linked(rows, c, i, j)
<1>1. ASSUME NEW q \in LiveRows(rows', c), ~q.bad
      PROVE  \E r \in LiveRows(rows, c) : r.from = q.from /\ r.to = q.to /\ ~r.bad
  <2>1. q \in rows' /\ q.chain = c /\ Live(q)
    BY DEF LiveRows
  <2>2. PICK r \in rows : q \in Turned(r)
    BY <2>1, TurnedRows
  <2>3. r.chain = c /\ r.from = q.from /\ r.to = q.to /\ Live(r) /\ ~r.bad
    BY <1>1, <2>1, <2>2 DEF Turned
  <2> QED
    BY <2>3 DEF LiveRows
<1>2. CASE i = j
  <2>1. PICK q \in LiveRows(rows', c) : q.from <= i /\ i <= q.to /\ ~q.bad
    BY <1>2 DEF Linked
  <2>2. PICK r \in LiveRows(rows, c) : r.from = q.from /\ r.to = q.to /\ ~r.bad
    BY <1>1, <2>1
  <2> QED
    BY <1>2, <2>1, <2>2 DEF Linked
<1>3. CASE i # j
  <2>1. \A p \in i + 1..j : \E q \in LiveRows(rows', c) : q.from = p - 1 /\ q.to = p /\ ~q.bad
    BY <1>3 DEF Linked
  <2>2. \A p \in i + 1..j : \E r \in LiveRows(rows, c) : r.from = p - 1 /\ r.to = p /\ ~r.bad
    BY <1>1, <2>1
  <2> QED
    BY <1>3, <2>2 DEF Linked
<1> QED
  BY <1>2, <1>3

\* A chunk that is committed adds nothing to a chain that has passed the base.
LEMMA LinkedCommit ==
  ASSUME TypeOK, UploadOn, CommitChunk, NEW c, NEW i \in Nat, NEW j \in Nat, i <= j,
         ~Open(c) \/ \E x \in rows : x.chain = c /\ j <= x.to /\ i < x.to,
         Linked(rows', c, i, j)
  PROVE  Linked(rows, c, i, j)
<1> DEFINE new == [chain |-> upload.chain, from |-> upload.from, to |-> upload.to, key |-> upload.key,
                   status |-> "committed", life |-> "live", bad |-> FALSE]
<1>1. rows' = rows \cup {new} /\ new.chain = upload.chain /\ new.from = upload.from
  BY DEF CommitChunk
<1>2. upload.chain = Current /\ Open(Current) /\ \A r \in rows : r.chain = upload.chain => r.to <= upload.from
  BY DEF UploadOn, CommitChunk
<1>3. upload.from \in Nat /\ \A r \in rows : r.to \in Nat
  BY DEF TypeOK, ObjectsOK, RowsOK, Rows
<1> HIDE DEF new
<1>4. new.chain = c => j <= new.from /\ i < new.from
  <2>1. SUFFICES ASSUME new.chain = c PROVE j <= new.from /\ i < new.from
    OBVIOUS
  <2>2. PICK x \in rows : x.chain = c /\ j <= x.to /\ i < x.to
    BY <1>1, <1>2, <2>1
  <2>3. x.to <= upload.from /\ x.to \in Nat
    BY <1>1, <1>2, <1>3, <2>1, <2>2
  <2> QED
    BY <1>1, <1>3, <2>2, <2>3
<1>5. \A q \in LiveRows(rows', c) : q \in LiveRows(rows, c) \/ (q = new /\ new.chain = c)
  BY <1>1 DEF LiveRows
<1>6. new.from \in Nat
  BY <1>1, <1>3
<1>7. CASE i = j
  <2>1. PICK q \in LiveRows(rows', c) : q.from <= i /\ i <= q.to /\ ~q.bad
    BY <1>7 DEF Linked
  <2>2. q \in LiveRows(rows, c)
    BY <1>4, <1>5, <1>6, <2>1
  <2> QED
    BY <1>7, <2>1, <2>2 DEF Linked
<1>8. CASE i # j
  <2>1. \A p \in i + 1..j : \E q \in LiveRows(rows', c) : q.from = p - 1 /\ q.to = p /\ ~q.bad
    BY <1>8 DEF Linked
  <2>2. ASSUME NEW p \in i + 1..j PROVE \E r \in LiveRows(rows, c) : r.from = p - 1 /\ r.to = p /\ ~r.bad
    <3>1. PICK q \in LiveRows(rows', c) : q.from = p - 1 /\ q.to = p /\ ~q.bad
      BY <2>1
    <3>2. q \in LiveRows(rows, c)
      BY <1>4, <1>5, <1>6, <3>1
    <3> QED
      BY <3>1, <3>2
  <2> QED
    BY <1>8, <2>2 DEF Linked
<1> QED
  BY <1>7, <1>8

\* What becomes of a row: the same chunk is there after the step, and live unless it was
\* deleted or its chain diverged.
LEMMA RowStays ==
  ASSUME TypeOK, Next, ~DeleteChunks, NEW q \in rows
  PROVE  \E x \in rows' : /\ x.chain = q.chain /\ x.from = q.from /\ x.to = q.to /\ x.key = q.key
                          /\ Live(q) /\ q.chain # Current => Live(x)
<1>1. CASE CommitChunk
  <2>1. q \in rows'
    BY <1>1 DEF CommitChunk
  <2> QED
    BY <2>1
<1>2. CASE RowsTurn
  <2>1. PICK x \in rows' : x \in Turned(q)
    BY <1>2, TurnedRows
  <2> QED
    BY <2>1 DEF Turned
<1> QED
  BY <1>1, <1>2, RowsNext

\* What a live row with a key that some row had was: it only turned.
LEMMA RowWas ==
  ASSUME TypeOK, UploadNew, Next, NEW q \in rows', Live(q), \E x \in rows : x.key = q.key
  PROVE  \E r \in rows : r.chain = q.chain /\ r.from = q.from /\ r.to = q.to /\ r.key = q.key /\ Live(r)
<1>1. CASE CommitChunk
  <2> DEFINE new == [chain |-> upload.chain, from |-> upload.from, to |-> upload.to, key |-> upload.key,
                     status |-> "committed", life |-> "live", bad |-> FALSE]
  <2>1. rows' = rows \cup {new} /\ new.key = upload.key /\ upload # NoChunk
    BY <1>1 DEF CommitChunk
  <2> HIDE DEF new
  <2>2. q \in rows
    BY <2>1 DEF UploadNew
  <2> QED
    BY <2>2
<1>2. CASE RowsTurn
  <2>1. PICK r \in rows : q \in Turned(r)
    BY <1>2, TurnedRows
  <2> QED
    BY <2>1 DEF Turned
<1> QED
  BY <1>1, <1>2, RowsNext

\* A chain that does not cover base b and never will stays so, and so does one that a restore
\* of b does not replay.
LEMMA UnneededStays ==
  ASSUME TypeOK, UploadOn, Next, ~DeleteChunks, NEW b \in Completed, bases'[b] = bases[b], NEW c \in Chains,
         Preceded(b, c) \/ Short(b, c)
  PROVE  (Preceded(b, c) \/ Short(b, c))'
<1>0. /\ bases[b].before \in Nat /\ bases[b].after \in Nat /\ bases[b].before <= bases[b].after
      /\ c \in Nat /\ Current \in Nat /\ c <= Current
  BY BasesDomain DEF TypeOK, BasesOK, Completed, Chains, Current, ChainsOK
<1>1. CASE Preceded(b, c)
  <2>1. PICK q \in rows : Live(q) /\ q.chain < c /\ q.from <= bases[b].before /\ bases[b].before <= q.to
    BY <1>1 DEF Preceded
  <2>2. q.chain \in Nat
    BY DEF TypeOK, RowsOK, Rows
  <2>3. q.chain # Current
    BY <1>0, <2>1, <2>2
  <2>4. PICK x \in rows' : x.chain = q.chain /\ x.from = q.from /\ x.to = q.to /\ Live(x)
    BY <2>1, <2>3, RowStays
  <2> QED
    BY <2>1, <2>4 DEF Preceded, Live
<1>2. CASE Short(b, c)
  <2>1. ~Linked(rows, c, bases[b].before, bases[b].after) /\ Passed(b, c)
    BY <1>2 DEF Short
  <2>2. ~Linked(rows', c, bases[b].before, bases[b].after)
    <3>1. CASE CommitChunk
      BY <1>0, <2>1, <3>1, LinkedCommit DEF Passed
    <3>2. CASE RowsTurn
      BY <2>1, <3>2, LinkedTurn
    <3> QED
      BY <3>1, <3>2, RowsNext
  <2>3. Passed(b, c)'
    <3>1. CASE ~Open(c)
      BY <3>1, OpenNext DEF Passed
    <3>2. CASE \E q \in rows : q.chain = c /\ bases[b].after <= q.to /\ bases[b].before < q.to
      <4>1. PICK q \in rows : q.chain = c /\ bases[b].after <= q.to /\ bases[b].before < q.to
        BY <3>2
      <4>2. PICK x \in rows' : x.chain = q.chain /\ x.to = q.to
        BY RowStays
      <4> QED
        BY <4>1, <4>2 DEF Passed
    <3> QED
      BY <2>1, <3>1, <3>2 DEF Passed
  <2>4. (~Linked(rows, c, bases[b].before, bases[b].after))'
    BY <2>2 DEF Linked, LiveRows, Live
  <2> QED
    BY <2>3, <2>4 DEF Short
<1> QED
  BY <1>1, <1>2

\* What a run that is deleting becomes: it is over, or it only has fewer bases to delete.
LEMMA DeletingNext ==
  ASSUME TypeOK, Next
  PROVE  \/ PlanRetention
         \/ ret'.pc # "delete"
         \/ /\ ret.pc = "delete" /\ ~DeleteChunks
            /\ ret'.bases = ret.bases /\ ret'.eligible = ret.eligible /\ ret'.delKeys = ret.delKeys /\ ret'.delBases \subseteq ret.delBases
<1>0. ret \in Retentions
  BY DEF TypeOK, ActorsOK
<1>1. CASE RetainStream
  <2>1. ret' = Snapshot \/ ret' = [Idle EXCEPT !.pc = "sweep", !.keys = Orphans]
    BY <1>1 DEF RetainStream
  <2>2. [Idle EXCEPT !.pc = "sweep", !.keys = Orphans].pc = "sweep"
    BY DEF Idle
  <2> QED
    BY <2>1, <2>2, SnapshotOK
<1>2. CASE PurgeOrphan \/ PurgeChunk
  BY <1>0, <1>2 DEF PurgeOrphan, PurgeChunk, Retentions
<1>3. CASE SnapshotPins
  BY <1>3, SnapshotOK DEF SnapshotPins
<1>4. CASE DeleteBase
  <2>1. ret'.pc = "delete"
    BY <1>0, <1>4 DEF DeleteBase, Retentions
  <2>2. ~DeleteChunks
    BY <2>1, IdleOK DEF DeleteChunks
  <2> QED
    BY <1>0, <1>4, <2>2 DEF DeleteBase, Retentions
<1>5. CASE DeleteChunks \/ ret' = Idle
  BY <1>5, IdleOK DEF DeleteChunks
<1>6. CASE UNCHANGED ret
  BY <1>6, IdleOK DEF DeleteChunks
<1> QED
  BY <1>1, <1>2, <1>3, <1>4, <1>5, <1>6, RetWriters

\* Every step preserves KeptInv.
LEMMA KeptNext ==
  ASSUME WInv, Next
  PROVE  KeptInv'
<1>0. TypeOK /\ PurgeDue /\ UploadNew /\ UploadOn /\ OrderInv /\ ListedInv /\ KeptInv
  BY DEF WInv
<1>1. CASE PlanRetention
  BY <1>0, <1>1, PlanDecides
<1>2. CASE ret'.pc # "delete"
  BY <1>2 DEF KeptInv
<1>3. CASE /\ ret.pc = "delete" /\ ~DeleteChunks
           /\ ret'.bases = ret.bases /\ ret'.eligible = ret.eligible /\ ret'.delKeys = ret.delKeys /\ ret'.delBases \subseteq ret.delBases
  <2>1. \A b \in ret.bases : b \in Completed /\ bases'[b] = bases[b]
    BY <1>0, <1>3, CompletedNext DEF ListedInv, KeptInv
  <2>2. \A k \in ret.delKeys : \E r \in rows : r.key = k
    BY <1>0, <1>3 DEF KeptInv
  <2>3. \A k \in ret.delKeys : \E r \in rows' : r.key = k
    BY <1>0, <1>3, <2>2, RowStays
  <2>4. ASSUME NEW q \in rows', q.key \in ret.delKeys, Live(q)
        PROVE  \E r \in rows : r.chain = q.chain /\ r.to = q.to /\ r.key = q.key /\ Live(r)
    BY <1>0, <2>2, <2>4, RowWas
  <2>5. ASSUME NEW e \in ret.eligible, NEW q \in rows', e[1] \in ret.bases, q.chain = e[2], Live(q), bases'[e[1]].before <= q.to
        PROVE  q.key \notin ret.delKeys
    <3>1. SUFFICES ASSUME q.key \in ret.delKeys PROVE FALSE
      OBVIOUS
    <3>2. PICK r \in rows : r.chain = q.chain /\ r.to = q.to /\ r.key = q.key /\ Live(r)
      BY <2>4, <2>5, <3>1
    <3> QED
      BY <1>0, <1>3, <2>1, <2>5, <3>1, <3>2 DEF KeptInv
  <2>6. ASSUME NEW b \in ret.bases, NEW q \in rows', q.key \in ret.delKeys, Live(q), bases'[b].before <= q.to
        PROVE  (Preceded(b, q.chain) \/ Short(b, q.chain))'
    <3>1. PICK r \in rows : r.chain = q.chain /\ r.to = q.to /\ r.key = q.key /\ Live(r)
      BY <2>4, <2>6
    <3>2. Preceded(b, r.chain) \/ Short(b, r.chain)
      BY <1>0, <1>3, <2>1, <2>6, <3>1 DEF KeptInv
    <3>3. r.chain \in Chains
      BY <1>0 DEF TypeOK, RowsOK, ChunkOK
    <3>4. (Preceded(b, r.chain) \/ Short(b, r.chain))'
      BY <1>0, <1>3, <2>1, <3>2, <3>3, UnneededStays
    <3> QED
      BY <3>1, <3>4
  <2>7. ret'.delBases \cap ret'.bases = {}
    BY <1>0, <1>3 DEF KeptInv
  <2>8. \A e \in ret.eligible : (\A f \in ret.eligible : f[1] <= e[1]) => e[1] \in ret.bases
    BY <1>0, <1>3 DEF KeptInv
  <2> QED
    BY <1>3, <2>3, <2>5, <2>6, <2>7, <2>8 DEF KeptInv, Live
<1> QED
  BY <1>0, <1>1, <1>2, <1>3, DeletingNext

\* Every step preserves the invariant.
LEMMA WInvNext == ASSUME WInv, [Next]_vars PROVE WInv'
<1>1. CASE Next
  <2>0. TypeOK /\ PurgeDue /\ UploadNew /\ UploadOn /\ OrderInv /\ ListedInv /\ KeptInv
    BY DEF WInv
  <2>1. TypeOK' /\ PurgeDue'
    BY <1>1, <2>0, TypeNext
  <2>2. srv <= srv'
    BY <1>1, <2>0, ChainsNext
  <2>3. OrderInv'
    BY <1>1, <2>0, <2>1, <2>2, OrderNext
  <2> QED
    BY <1>1, <2>0, <2>1, <2>3, UploadNewNext, UploadOnNext, ListedNext, KeptNext DEF WInv
<1>2. CASE UNCHANGED vars
  <2>1. UNCHANGED <<srv, chains, rows, objects, upload, bases, ret, purging, restore, events>>
    BY <1>2 DEF vars, stream
  <2>2. TypeOK' /\ PurgeDue'
    BY <2>1 DEF WInv, TypeOK, ChainsOK, Chains, RowsOK, ChunkOK, ObjectsOK, BasesOK, ActorsOK, Completed, PurgeDue
  <2>3. UploadNew' /\ UploadOn' /\ OrderInv' /\ ListedInv'
    BY <2>1 DEF WInv, UploadNew, UploadOn, OrderInv, ListedInv, Completed, Open, Current
  <2>4. \A b, c : (Preceded(b, c) <=> Preceded(b, c)') /\ (Short(b, c) <=> Short(b, c)')
    BY <2>1 DEF Preceded, Short, Passed, Linked, LiveRows, Live, Open
  <2>5. KeptInv'
    BY <2>1, <2>4 DEF WInv, KeptInv, Live
  <2> QED
    BY <2>2, <2>3, <2>5 DEF WInv
<1> QED
  BY <1>1, <1>2

\* It holds initially.
LEMMA WInvInit == ASSUME Init PROVE WInv
<1>1. TypeOK /\ PurgeDue
  BY InitInv DEF IInv
<1>2. ret.pc = "idle" /\ upload = NoChunk /\ bases = <<>>
  BY IdleOK DEF Init
<1>3. OrderInv
  BY <1>2 DEF OrderInv, Completed
<1> QED
  BY <1>1, <1>2, <1>3 DEF WInv, UploadNew, UploadOn, ListedInv, KeptInv

\* What DeleteChunks leaves: every row whose key it does not have, and the others no longer live.
LEMMA DeletedRows ==
  ASSUME TypeOK, DeleteChunks
  PROVE  /\ \A r \in rows : r.key \notin ret.delKeys => r \in rows'
         /\ \A q \in rows' : Live(q) => q \in rows
<1>1. rows' = {IF r.key \in ret.delKeys /\ r.life = "live" /\ r.status # "pruned" THEN [r EXCEPT !.life = "deleted"] ELSE r : r \in rows}
  BY DEF DeleteChunks
<1>2. ASSUME NEW r \in rows, r.key \notin ret.delKeys PROVE r \in rows'
  BY <1>1, <1>2
<1>3. ASSUME NEW q \in rows', Live(q) PROVE q \in rows
  <2>1. PICK r \in rows : q = IF r.key \in ret.delKeys /\ r.life = "live" /\ r.status # "pruned" THEN [r EXCEPT !.life = "deleted"] ELSE r
    BY <1>1
  <2>2. [r EXCEPT !.life = "deleted"].life = "deleted"
    BY DEF TypeOK, RowsOK, Rows
  <2> QED
    BY <1>3, <2>1, <2>2 DEF Live
<1> QED
  BY <1>2, <1>3

\* The deletion of chunks keeps what a base that is kept can be restored to.
LEMMA DeleteKeeps ==
  ASSUME WInv, DeleteChunks, NEW b \in ret.bases, NEW limit \in Nat, PlanFrom(rows, bases[b], limit) # {}
  PROVE  PlanFrom(rows', bases[b], limit) # {}
<1> DEFINE x == bases[b]
           m == Min(Starts(rows, x))
<1>0. TypeOK /\ ListedInv /\ KeptInv /\ ret.pc = "delete"
  BY DEF WInv, DeleteChunks
<1>1. b \in Completed /\ x \in BaseBackups /\ x.before \in Nat /\ x.before <= x.after
  BY <1>0, BasesDomain DEF ListedInv, Completed, TypeOK, BasesOK
<1>2. Linked(rows, m, x.before, x.after)
  BY <1>0, <1>1, PlanLinked
<1>3. Starts(rows, x) # {} /\ x.after < limit /\ PlanReaches(PlanOn(rows, x, limit), x, limit)
  BY PlanForm
<1>4. m \in Starts(rows, x) /\ \A c \in Starts(rows, x) : c \in Nat /\ m <= c
  BY <1>0, <1>3, FirstStart
<1>5. \A r \in rows : x.before <= r.to <=> r.to >= x.before
  BY <1>0, <1>1 DEF TypeOK, RowsOK, Rows
<1>6. ASSUME NEW r \in From(rows, m, x) PROVE r.key \notin ret.delKeys
  <2>1. r \in rows /\ r.chain = m /\ Live(r) /\ x.before <= r.to
    BY <1>5 DEF From, LiveRows
  <2>2. ~Short(b, m)
    BY <1>2 DEF Short
  <2>3. ~Preceded(b, m)
    <3>1. SUFFICES ASSUME NEW q \in rows, Live(q), q.chain < m, q.from <= x.before, x.before <= q.to PROVE FALSE
      BY DEF Preceded
    <3>2. q \in From(rows, q.chain, x) /\ q.chain \in Chains
      BY <1>0, <1>5, <3>1 DEF From, LiveRows, TypeOK, RowsOK, ChunkOK
    <3>3. q.chain \in Starts(rows, x)
      BY <3>1, <3>2 DEF Starts
    <3> QED
      BY <1>4, <3>1, <3>3
  <2> HIDE DEF m, x
  <2> QED
    BY <1>0, <2>1, <2>2, <2>3 DEF KeptInv, x
<1> HIDE DEF m
<1>7. From(rows', m, x) = From(rows, m, x)
  <2>1. ASSUME NEW r \in From(rows, m, x) PROVE r \in From(rows', m, x)
    BY <1>0, <1>6, DeletedRows DEF From, LiveRows
  <2>2. \A c : From(rows', c, x) \subseteq From(rows, c, x)
    BY <1>0, DeletedRows DEF From, LiveRows
  <2> QED
    BY <2>1, <2>2
<1>8. Starts(rows', x) \subseteq Starts(rows, x) /\ m \in Starts(rows', x)
  <2>1. \A c : From(rows', c, x) \subseteq From(rows, c, x)
    BY <1>0, DeletedRows DEF From, LiveRows
  <2> HIDE DEF x
  <2> QED
    BY <1>4, <1>7, <2>1 DEF Starts
<1>9. Min(Starts(rows', x)) = m
  <2>1. Starts(rows', x) # {}
    BY <1>8
  <2>2. Min(Starts(rows', x)) \in Starts(rows', x) /\ Min(Starts(rows', x)) <= m /\ Min(Starts(rows', x)) \in Nat
    BY <1>0, <1>8, <2>1, FirstStart
  <2> DEFINE n == Min(Starts(rows', x))
  <2>3. n \in Nat /\ m \in Nat /\ n <= m /\ m <= n
    BY <1>4, <1>8, <2>2
  <2> HIDE DEF n
  <2>4. n = m
    BY <2>3
  <2> QED
    BY <2>4 DEF n
<1>10. PlanOn(rows', x, limit) = PlanOn(rows, x, limit)
  BY <1>7, <1>9 DEF PlanOn, m
<1> QED
  BY <1>3, <1>8, <1>10, PlanForm

\* The chain that covered the newest base covers it still when chunks are deleted.
LEMMA DeleteCovers ==
  ASSUME WInv, DeleteChunks, NEW e \in ret.eligible, e[1] \in ret.bases,
         Linked(rows, e[2], bases[e[1]].before, bases[e[1]].after)
  PROVE  Linked(rows', e[2], bases[e[1]].before, bases[e[1]].after)
<1> DEFINE x == bases[e[1]]
           c == e[2]
<1>0. TypeOK /\ ListedInv /\ KeptInv /\ ret.pc = "delete"
  BY DEF WInv, DeleteChunks
<1>1. x.before \in Nat /\ x.after \in Nat
  BY <1>0, BasesDomain DEF ListedInv, Completed
<1>2. ASSUME NEW r \in LiveRows(rows, c), x.before <= r.to PROVE r \in LiveRows(rows', c)
  <2>1. r \in rows /\ r.chain = c /\ Live(r)
    BY DEF LiveRows
  <2>2. r.key \notin ret.delKeys
    BY <1>0, <1>2, <2>1 DEF KeptInv
  <2> QED
    BY <1>0, <2>1, <2>2, DeletedRows DEF LiveRows
<1>3. Linked(rows, c, x.before, x.after)
  OBVIOUS
<1> HIDE DEF x, c
<1>4. ASSUME x.before = x.after PROVE Linked(rows', c, x.before, x.after)
  BY <1>2, <1>3, <1>4 DEF Linked
<1>5. ASSUME x.before # x.after PROVE Linked(rows', c, x.before, x.after)
  <2>1. ASSUME NEW p \in x.before + 1..x.after PROVE \E r \in LiveRows(rows', c) : r.from = p - 1 /\ r.to = p /\ ~r.bad
    <3>1. PICK r \in LiveRows(rows, c) : r.from = p - 1 /\ r.to = p /\ ~r.bad
      BY <1>3, <1>5 DEF Linked
    <3>2. x.before <= r.to
      BY <1>1, <3>1
    <3> QED
      BY <1>2, <3>1, <3>2
  <2> QED
    BY <1>5, <2>1 DEF Linked
<1>6. Linked(rows', c, x.before, x.after)
  BY <1>4, <1>5
<1> QED
  BY <1>6 DEF x, c

\* A step of a run that is deleting leaves the rows alone, or deletes its chunks.
LEMMA DeletingRows ==
  ASSUME TypeOK, Next, ret.pc = "delete", ret' # ret
  PROVE  DeleteChunks \/ UNCHANGED rows
<1>1. ~PurgeChunk
  BY DEF PurgeChunk
<1>2. CommitChunk \/ Diverge \/ VerifyFails \/ TimePasses => UNCHANGED ret
  BY DEF CommitChunk, Diverge, VerifyFails, TimePasses
<1> QED
  BY <1>1, <1>2, RowsWriters

\* The step of WindowsKept.
LEMMA WindowsStep ==
  ASSUME WInv, Next, ret.pc = "delete", ret' # ret
  PROVE  /\ \A b \in ret.bases \cap Completed : b \in Completed' => Reachable(rows, b) \subseteq Reachable(rows', b)
         /\ \A e \in ret.eligible :
              (\A f \in ret.eligible : f[1] <= e[1]) /\ e[2] \in CoveredBy(rows, bases[e[1]]) => Covered' # {}
<1>0. TypeOK /\ PurgeDue /\ ListedInv /\ KeptInv
  BY DEF WInv
<1>1. ASSUME NEW b \in ret.bases, NEW limit \in Reachable(rows, b) PROVE limit \in Reachable(rows', b)
  <2>1. limit \in 1..MaxTS /\ limit \in Nat /\ PlanFrom(rows, bases[b], limit) # {}
    BY RetentionAssumption DEF Reachable
  <2>2. PlanFrom(rows', bases[b], limit) # {}
    BY <1>0, <2>1, DeletingRows, DeleteKeeps
  <2> QED
    BY <2>1, <2>2 DEF Reachable
<1>2. ASSUME NEW e \in ret.eligible, \A f \in ret.eligible : f[1] <= e[1], e[2] \in CoveredBy(rows, bases[e[1]])
      PROVE  Covered' # {}
  <2>1. e[1] \in ret.bases /\ e[1] \notin ret.delBases /\ e[1] \in Completed
    BY <1>0, <1>2 DEF KeptInv, ListedInv
  <2>2. e[1] \in Completed' /\ bases'[e[1]] = bases[e[1]]
    BY <1>0, <2>1, CompletedNext
  <2>3. e[2] \in Chains /\ Linked(rows, e[2], bases[e[1]].before, bases[e[1]].after)
    BY <1>2 DEF CoveredBy
  <2>4. Linked(rows', e[2], bases[e[1]].before, bases[e[1]].after)
    BY <1>0, <2>1, <2>3, DeletingRows, DeleteCovers
  <2>5. e[2] \in Chains'
    BY <1>0, <2>3, ChainsNext
  <2>6. CoveredBy(rows, bases[e[1]])' # {}
    BY <2>2, <2>4, <2>5 DEF CoveredBy, Linked, LiveRows, Live
  <2> QED
    BY <2>2, <2>6 DEF Covered
<1> QED
  BY <1>1, <1>2

\* WindowsKept for all constants, and whether or not the sweep races with an upload: whatever
\* is stored, superseded, found bad or backed up between what retention reads and what it
\* deletes, a base that it keeps can be restored to every point it could be restored to, and
\* while the chain it saw covering the newest base still does, some base stays covered.
THEOREM WindowsSafe == Spec => WindowsKept
<1>1. Init => WInv
  BY WInvInit
<1>2. WInv /\ [Next]_vars => WInv'
  BY WInvNext
<1>3. ASSUME WInv, [Next]_vars
      PROVE  [ret.pc = "delete" /\ ret' # ret =>
               /\ \A b \in ret.bases \cap Completed : b \in Completed' => Reachable(rows, b) \subseteq Reachable(rows', b)
               /\ \A e \in ret.eligible :
                    (\A f \in ret.eligible : f[1] <= e[1]) /\ e[2] \in CoveredBy(rows, bases[e[1]]) => Covered' # {}]_vars
  BY <1>3, WindowsStep
<1> QED
  BY <1>1, <1>2, <1>3, PTL DEF Spec, WindowsKept
=============================================================================
