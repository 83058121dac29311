--------------------------- MODULE OplogCollector ---------------------------
(***************************************************************************)
(* Point-in-time recovery: the collector of one stream copies the oplog of *)
(* a replica set into chunks, the chunks form chains, and a chain is       *)
(* replayed on a base backup.  An entry is identified by its position, its *)
(* term and its replica set: two oplogs that hold the same entry agree up  *)
(* to it.  The replica set is external and modelled by what its members    *)
(* may answer: writes, elections that roll back uncommitted entries,       *)
(* truncation, secondaries that lag, are freshly synced or have not rolled *)
(* back yet, a loss of committed entries (a forced reconfiguration, a      *)
(* resync from an old copy) and another replica set behind the connection. *)
(* Every step of a tick that others can see is an action; the worker may   *)
(* fail, be stopped or crash before each.                                  *)
(***************************************************************************)
EXTENDS Integers, Sequences, FiniteSets

CONSTANTS
    MaxTS,       \* bound on the positions of the oplog
    MaxEvents,   \* bound on incidents of the replica set, failures, pauses and bases
    Gaps,        \* the distances between an entry and the next one
    Interval,    \* the chunk interval, in positions
    PrimaryLags  \* the primary's majority view may be behind what others committed

ASSUME OplogAssumption ==
    /\ {MaxTS, Interval} \cup Gaps \subseteq Nat \ {0}
    /\ MaxEvents \in Nat
    /\ PrimaryLags \in BOOLEAN

VARIABLES
    rs,      \* the replica set: its oplog, what of it is committed and kept, what members have not rolled back
    lost,    \* committed oplogs that were lost
    chains,  \* the chains of the stream, in the order they started
    chunks,  \* the rows of oplog_chunks
    state,   \* the row of pitr_state: the chain and the position in it
    w,       \* the worker of the stream
    sup,     \* the supervisor's reconcile
    enabled, \* the stream is enabled
    pause,   \* the caller of PauseStream and ResumeStream
    base,    \* a base backup
    events   \* how many incidents, failures, pauses and bases there were

server == <<rs, lost>>
repo == <<chains, chunks, state>>
control == <<sup, enabled, pause>>
vars == <<server, repo, base, control, w, events>>

\* Something that is bounded happens.
Happens == events < MaxEvents /\ events' = events + 1

Entry(ts, term, set) == [ts |-> ts, term |-> term, set |-> set]
Entries == [ts : 1..MaxTS, term : 1..MaxEvents + 1, set : {1, 2}]
NoEntry == Entry(0, 0, 0)

Newest(log) == CHOOSE e \in log : \A f \in log : f.ts <= e.ts
Oldest(log) == CHOOSE e \in log : \A f \in log : f.ts >= e.ts
UpTo(log, ts) == {e \in log : e.ts <= ts}
Since(log, ts) == {e \in log : e.ts >= ts}
At(log, ts) == {e \in log : e.ts = ts}

\* The majority-committed oplog, truncated entries included.
Committed == UpTo(rs.log, rs.commit)

\* Every history a majority ever committed.
Histories == lost \cup {Committed}

-----------------------------------------------------------------------------
(* The replica set (external). *)

Write ==
    /\ \E gap \in Gaps :
         LET ts == Newest(rs.log).ts + gap IN
         ts <= MaxTS /\ rs' = [rs EXCEPT !.log = @ \cup {Entry(ts, rs.term, rs.set)}]
    /\ UNCHANGED <<lost, repo, base, control, w, events>>

CommitWrites ==
    /\ \E e \in rs.log : e.ts > rs.commit /\ rs' = [rs EXCEPT !.commit = e.ts]
    /\ UNCHANGED <<lost, repo, base, control, w, events>>

\* A new primary has every committed entry and may lack others.
Elect ==
    /\ Happens
    /\ \E e \in Since(rs.log, rs.commit) :
         rs' = [rs EXCEPT !.term = @ + 1, !.log = UpTo(@, e.ts)]
    /\ UNCHANGED <<lost, repo, base, control, w>>

\* The oplog is truncated up to a committed entry.
Truncate ==
    /\ Happens
    /\ \E e \in Committed : e.ts > rs.oldest /\ rs' = [rs EXCEPT !.oldest = e.ts]
    /\ UNCHANGED <<lost, repo, base, control, w>>

\* Committed entries are lost, at most once.
LoseCommitted ==
    /\ Happens /\ lost = {}
    /\ \E e \in Committed :
         /\ rs.oldest <= e.ts /\ e.ts < rs.commit
         /\ rs' = [rs EXCEPT !.term = @ + 1, !.log = UpTo(@, e.ts), !.commit = e.ts, !.stale = @ \cup {Committed}]
    /\ lost' = lost \cup {Committed}
    /\ UNCHANGED <<repo, base, control, w>>

\* A member that still shows a lost oplog rolls back.
RollBack ==
    /\ \E h \in rs.stale : rs' = [rs EXCEPT !.stale = @ \ {h}]
    /\ UNCHANGED <<lost, repo, base, control, w, events>>

\* The connection leads to another replica set, with positions of its own, at most once.
ReplaceSet ==
    /\ Happens /\ rs.set = 1
    /\ \E ts \in {1, MaxTS} :
         rs' = [set |-> rs.set + 1, log |-> {Entry(ts, 1, rs.set + 1)}, term |-> 1, commit |-> ts, oldest |-> ts, stale |-> {}]
    /\ lost' = lost \cup {Committed}
    /\ UNCHANGED <<repo, base, control, w>>

\* What a reader bound to the primary sees: its oplog, and the majority optime,
\* which a primary just elected may not have learned yet.
Majorities == IF PrimaryLags THEN {e.ts : e \in Since(Committed, rs.oldest)} ELSE {rs.commit}
PrimaryViews ==
    {[kind |-> "primary", set |-> rs.set, log |-> Since(rs.log, rs.oldest), majority |-> c] : c \in Majorities}

\* What a secondary may show: the oplog up to where it has replicated, or one that
\* was lost and that it has not rolled back yet, from any entry on.
Replicated == {<<rs.log, rs.commit>>} \cup {<<h, MaxTS>> : h \in rs.stale}
Shown(log, commit) ==
    {[kind |-> "secondary", set |-> rs.set, log |-> {e \in log : t[1].ts <= e.ts /\ e.ts <= t[3].ts}, majority |-> t[2].ts] :
       t \in {u \in log \X log \X log : u[1].ts <= u[2].ts /\ u[2].ts <= u[3].ts /\ u[2].ts <= commit}}
SecondaryViews == UNION {Shown(r[1], r[2]) : r \in Replicated}

\* The member a tick is pinned to: a secondary that is older than the position
\* is passed over for the primary.
Pin(notBefore) ==
    PrimaryViews \cup {v \in SecondaryViews : Newest(v.log).ts >= notBefore}

\* The same reader later in the tick: the oplog may have grown, been truncated or
\* lost entries, but no position was lost and written again in between.
Later ==
    {v \in IF w.kind = "primary" THEN PrimaryViews ELSE SecondaryViews : At(v.log, w.to.ts) \subseteq {w.to}}

-----------------------------------------------------------------------------
(* The repository: one transaction per operation. *)

NoState == [chain |-> 0, last |-> NoEntry, set |-> 0]
Open(c) == c # 0 /\ chains[c].reason = "open"
ChunksOf(c) == {k \in chunks : k.chain = c}
Live(c) == {k \in ChunksOf(c) : k.status = "committed"}

StartChain(op) ==
    /\ \A c \in 1..Len(chains) : ~Open(c)
    /\ chains' = Append(chains, [start |-> op.ts, end |-> 0, reason |-> "open"])
    /\ state' = [state EXCEPT !.chain = Len(chains) + 1, !.last = op]
    /\ UNCHANGED chunks

EndChain(c, end, reason) ==
    chains' = IF Open(c) THEN [chains EXCEPT ![c].end = end, ![c].reason = reason] ELSE chains

\* A chunk is committed only where its chain, still open, has come to.
CommitChunk(k) ==
    /\ Open(k.chain) /\ state.chain = k.chain /\ state.last.ts = k.from
    /\ chunks' = chunks \cup {k}
    /\ state' = [state EXCEPT !.last = k.last]
    /\ UNCHANGED chains

SupersedeChunks(c, after) ==
    chunks' = {IF k \in Live(c) /\ k.last.ts > after THEN [k EXCEPT !.status = "superseded"] ELSE k : k \in chunks}

-----------------------------------------------------------------------------
(* The worker. *)

Down == [up |-> FALSE, version |-> 0, pc |-> "idle", checked |-> FALSE, inclusive |-> FALSE, set |-> 0,
         kind |-> "none", to |-> NoEntry, op |-> NoEntry, why |-> "none", got |-> {}]
Fresh(version) == [Down EXCEPT !.up = TRUE, !.version = version]

\* The end of a tick: what the worker remembers from tick to tick.
Idle(v) == [Fresh(v.version) EXCEPT !.checked = v.checked, !.inclusive = v.inclusive, !.set = v.set]

\* The first chunk of a chain keeps the entry at its start: also after a restart.
StartChecked ==
    /\ \A k \in ChunksOf(state.chain) : k.last.ts < state.last.ts
    /\ chains[state.chain].start = state.last.ts

\* The end of the range: the majority optime, or in a catch-up the first entry
\* one interval on.
RangeEnd(v) ==
    LET capped == Oldest(Since(v.log, state.last.ts + Interval)) IN
    IF v.majority - state.last.ts > Interval /\ capped.ts < v.majority THEN capped ELSE Newest(UpTo(v.log, v.majority))

EmptyChunkExists == \E k \in ChunksOf(state.chain) : k.from = state.last.ts /\ k.last.ts = state.last.ts

\* The tick goes on with member v: read a range, or wait for the majority, or
\* for something new.
Proceed(v) ==
    LET inclusive == IF w.checked THEN w.inclusive ELSE StartChecked
        seen == [w EXCEPT !.checked = TRUE, !.inclusive = inclusive, !.set = v.set]
        wait == \/ v.majority < state.last.ts
                \/ (RangeEnd(v).ts = state.last.ts /\ ~inclusive /\ EmptyChunkExists)
    IN  /\ w' = IF wait THEN Idle(seen)
                ELSE [Idle(seen) EXCEPT !.pc = "read", !.kind = v.kind, !.to = RangeEnd(v)]
        /\ state' = [state EXCEPT !.set = v.set]
        /\ UNCHANGED <<chains, chunks>>

Begin(op, why, set) == w' = [Idle(w) EXCEPT !.set = set, !.pc = "start", !.op = op, !.why = why]

\* A chain that ended while no collector ran is never continued.
EndedChain == ~w.checked /\ ~Open(state.chain)
Resume(v) ==
    LET c == chains[state.chain]
        there == At(v.log, c.end)
    IN  Begin(CASE c.reason = "stopped" -> Newest(UpTo(v.log, v.majority))
                [] c.reason = "diverged" /\ there # {} -> Newest(there)
                [] OTHER -> Oldest(v.log), "resume", state.set)

RSChanged(known, v) == known # 0 /\ v.set # known

\* The first half of a tick: load the position, pin a member, look at its window.
Look(v) ==
    LET known == IF w.checked THEN w.set ELSE state.set
        doubt == \/ RSChanged(known, v)
                 \/ Oldest(v.log).ts > state.last.ts
                 \/ (~w.checked /\ state.last \notin v.log)
    IN  /\ w.up /\ w.pc = "idle"
        /\ IF state.chain = 0 THEN Begin(Newest(UpTo(v.log, v.majority)), "new", 0) /\ UNCHANGED repo
           ELSE IF EndedChain THEN Resume(v) /\ UNCHANGED repo
           ELSE IF doubt THEN w' = [Idle(w) EXCEPT !.pc = "confirm", !.set = known] /\ UNCHANGED repo
           ELSE Proceed(v)
        /\ UNCHANGED <<server, base, control, events>>

\* The newest chunk whose end the primary still has, or can no longer have.
\* (DivergencePointAtStart: gives up the whole chain.)
DivergencePointAtStart(v) == chains[state.chain].start
DivergencePoint(v) ==
    LET good == {k \in Live(state.chain) : k.last.ts < Oldest(v.log).ts \/ k.last \in UpTo(v.log, v.majority)} IN
    IF good = {} THEN chains[state.chain].start
    ELSE CHOOSE ts \in {k.last.ts : k \in good} : \A k \in good : k.last.ts <= ts

\* Only the primary's majority view ends a chain.
Confirm(v) ==
    LET held == UpTo(v.log, v.majority) IN
    /\ w.pc \in {"confirm", "reconfirm"}
    /\ \/ /\ RSChanged(w.set, v)
          /\ w' = [w EXCEPT !.pc = "end", !.why = "replica_set_changed", !.op = state.last]
          /\ UNCHANGED repo
       \/ /\ ~RSChanged(w.set, v) /\ At(held, state.last.ts) = {} /\ Oldest(v.log).ts > state.last.ts
          /\ w' = [w EXCEPT !.pc = "end", !.why = "gap", !.op = state.last]
          /\ UNCHANGED repo
       \/ /\ ~RSChanged(w.set, v) /\ state.last \notin held
          /\ At(held, state.last.ts) # {} \/ Oldest(v.log).ts <= state.last.ts
          /\ w' = [w EXCEPT !.pc = "supersede", !.why = "diverged", !.op = [NoEntry EXCEPT !.ts = DivergencePoint(v)]]
          /\ UNCHANGED repo
       \/ /\ ~RSChanged(w.set, v) /\ state.last \in held
          /\ IF w.pc = "confirm" THEN Proceed(v) ELSE w' = Idle(w) /\ UNCHANGED repo
    /\ UNCHANGED <<server, base, control, events>>

Supersede ==
    /\ w.pc = "supersede"
    /\ SupersedeChunks(state.chain, w.op.ts)
    /\ w' = [w EXCEPT !.pc = "end"]
    /\ UNCHANGED <<server, chains, state, base, control, events>>

\* The chain ends, and the primary says where the next one starts: at the point
\* of the divergence, or at its oldest entry.
End(v) ==
    LET there == At(UpTo(v.log, v.majority), w.op.ts) IN
    /\ w.pc = "end"
    /\ EndChain(state.chain, w.op.ts, w.why)
    /\ IF w.why = "diverged" THEN Begin(IF there # {} THEN Newest(there) ELSE Oldest(v.log), w.why, v.set)
       ELSE Begin(Oldest(v.log), w.why, w.set)
    /\ state' = IF w.why = "diverged" THEN [state EXCEPT !.set = v.set] ELSE state
    /\ UNCHANGED <<server, chunks, base, control, events>>

Start ==
    /\ w.pc = "start"
    /\ StartChain(w.op)
    /\ LET started == [w EXCEPT !.checked = TRUE, !.inclusive = TRUE] IN
       w' = IF w.set = 0 \/ w.why \in {"gap", "replica_set_changed"} THEN [started EXCEPT !.pc = "adopt"] ELSE Idle(started)
    /\ UNCHANGED <<server, base, control, events>>

\* The replica set read from is recorded, in memory and in the state.
Adopt ==
    /\ w.pc = "adopt"
    /\ state' = [state EXCEPT !.set = w.op.set]
    /\ w' = Idle([w EXCEPT !.set = w.op.set])
    /\ UNCHANGED <<server, chains, chunks, base, control, events>>

\* The range is read from the member and stored: its first entry must be the one
\* at the position, its last one the end of the range.
\* (ReadOplogAnyTerm: whatever the term of the first one.)
ReadOplogAnyTerm(v) ==
    LET from == state.last.ts
        got == {e \in UpTo(v.log, w.to.ts) : e.ts > from \/ (w.inclusive /\ e.ts = from)}
    IN  /\ w.pc = "read"
        /\ w' = IF At(v.log, from) = {} THEN [w EXCEPT !.pc = "reconfirm"]
                ELSE IF Newest(UpTo(v.log, w.to.ts)).ts # w.to.ts THEN Idle(w)
                ELSE [w EXCEPT !.pc = "commit", !.got = got]
        /\ UNCHANGED <<server, repo, base, control, events>>

ReadOplog(v) ==
    LET from == state.last.ts
        got == {e \in UpTo(v.log, w.to.ts) : e.ts > from \/ (w.inclusive /\ e.ts = from)}
    IN  /\ w.pc = "read"
        /\ w' = IF state.last \notin v.log THEN [w EXCEPT !.pc = "reconfirm"]
                ELSE IF Newest(UpTo(v.log, w.to.ts)).ts # w.to.ts THEN Idle(w)
                ELSE [w EXCEPT !.pc = "commit", !.got = got]
        /\ UNCHANGED <<server, repo, base, control, events>>

\* An empty chunk keeps the position it was read at.  (ChunkWithoutEnd: keeps none.)
ChunkWithoutEnd ==
    [chain |-> state.chain, from |-> state.last.ts, status |-> "committed", got |-> w.got,
     last |-> IF w.got = {} THEN NoEntry ELSE Newest(w.got), firstTerm |-> state.last.term]
Chunk ==
    [chain |-> state.chain, from |-> state.last.ts, status |-> "committed", got |-> w.got,
     last |-> IF w.got = {} THEN state.last ELSE Newest(w.got),
     firstTerm |-> IF w.got = {} THEN state.last.term ELSE Oldest(w.got).term]

Commit ==
    /\ w.pc = "commit"
    /\ CommitChunk(Chunk)
    /\ w' = Idle([w EXCEPT !.inclusive = FALSE])
    /\ UNCHANGED <<server, base, control, events>>

\* Any call of a tick may fail, and some must: a commit to a chain that has ended,
\* a read from a member that is rolling back.  The tick ends, the next starts over.
Refused == (w.pc = "commit" /\ ~Open(state.chain)) \/ (w.pc = "read" /\ Later = {})
Fail ==
    /\ w.pc # "idle"
    /\ w' = Idle(w)
    /\ IF Refused THEN UNCHANGED events ELSE Happens
    /\ UNCHANGED <<server, repo, base, control>>

-----------------------------------------------------------------------------
(* The supervisor, and a pause of the stream. *)

\* reconcile reads the streams, then stops and starts collectors.  A round that
\* finds the collector as the stream wants it changes nothing and is left out.
\* (ListRunning: looks only at collectors that run.)
ListRunning ==
    /\ sup.pc = "idle" /\ w.up /\ (~enabled.on \/ w.version # enabled.version)
    /\ sup' = [pc |-> "listed", want |-> enabled]
    /\ UNCHANGED <<server, repo, base, w, enabled, pause, events>>

List ==
    /\ sup.pc = "idle"
    /\ w.up # enabled.on \/ (w.up /\ w.version # enabled.version)
    /\ sup' = [pc |-> "listed", want |-> enabled]
    /\ UNCHANGED <<server, repo, base, w, enabled, pause, events>>

StopWorker ==
    /\ sup.pc = "listed"
    /\ w' = IF w.up /\ (~sup.want.on \/ sup.want.version # w.version) THEN Down ELSE w
    /\ sup' = [sup EXCEPT !.pc = "stopped"]
    /\ UNCHANGED <<server, repo, base, enabled, pause, events>>

StartWorker ==
    /\ sup.pc = "stopped"
    /\ w' = IF ~w.up /\ sup.want.on THEN Fresh(sup.want.version) ELSE w
    /\ sup' = [pc |-> "idle", want |-> [on |-> FALSE, version |-> 0]]
    /\ UNCHANGED <<server, repo, base, enabled, pause, events>>

Supervisor == List \/ StopWorker \/ StartWorker

DisableStream ==
    /\ pause = "no" /\ enabled.on /\ Happens
    /\ enabled' = [on |-> FALSE, version |-> enabled.version + 1]
    /\ pause' = "stopping"
    /\ UNCHANGED <<server, repo, base, w, sup>>

\* Once no collector runs, the open chain ends at its position.
PauseStream ==
    /\ pause = "stopping" /\ ~w.up
    /\ EndChain(state.chain, state.last.ts, "stopped")
    /\ pause' = "paused"
    /\ UNCHANGED <<server, chunks, state, base, w, sup, enabled, events>>

ResumeStream ==
    /\ pause \in {"paused", "failed"}
    /\ enabled' = [on |-> TRUE, version |-> enabled.version + 1]
    /\ pause' = "no"
    /\ UNCHANGED <<server, repo, base, w, sup, events>>

-----------------------------------------------------------------------------
(* Base backups: the newest write before and after the dump, then the        *)
(* majority optime once it has reached the latter.                           *)

NoBase == [stage |-> "none", before |-> 0, seen |-> 0, after |-> NoEntry]

StartBase ==
    /\ base.stage = "none" /\ Happens
    /\ base' = [base EXCEPT !.stage = "dumping", !.before = Newest(rs.log).ts]
    /\ UNCHANGED <<server, repo, control, w>>

EndDump ==
    /\ base.stage = "dumping"
    /\ base' = [base EXCEPT !.stage = "dumped", !.seen = Newest(rs.log).ts]
    /\ UNCHANGED <<server, repo, control, w, events>>

ReadTAfter ==
    /\ base.stage = "dumped" /\ rs.commit >= base.seen
    /\ base' = [base EXCEPT !.stage = "completed", !.seen = 0, !.after = Newest(Committed)]
    /\ UNCHANGED <<server, repo, control, w, events>>

\* A segment of a chain: what is replayed from i to j.  It covers the base when it
\* reaches from its start to its consistent point, and the chunk there spans its term.
\* (CoversAnyTerm: does not look at the term.)
CoversAnyTerm(R, i, j) == i <= base.before /\ base.after.ts <= j
Covers(R, i, j) ==
    /\ i <= base.before /\ base.after.ts <= j
    /\ \E k \in R :
         /\ k.from < base.after.ts \/ (k.from = base.after.ts /\ k.from = i)
         /\ base.after.ts <= k.last.ts
         /\ k.firstTerm <= base.after.term /\ base.after.term <= k.last.term

-----------------------------------------------------------------------------

Crash ==
    /\ Happens
    /\ w' = Down /\ sup' = [pc |-> "idle", want |-> [on |-> FALSE, version |-> 0]]
    /\ base' = IF base.stage = "completed" THEN base ELSE NoBase
    /\ pause' = IF pause = "stopping" THEN "failed" ELSE pause
    /\ UNCHANGED <<server, repo, enabled>>

Init ==
    /\ rs = [set |-> 1, log |-> {Entry(1, 1, 1)}, term |-> 1, commit |-> 1, oldest |-> 1, stale |-> {}]
    /\ lost = {}
    /\ chains = <<>> /\ chunks = {} /\ state = NoState
    /\ enabled = [on |-> TRUE, version |-> 0]
    /\ w = Fresh(0) /\ sup = [pc |-> "idle", want |-> [on |-> FALSE, version |-> 0]]
    /\ pause = "no" /\ events = 0
    /\ base = NoBase

Tick ==
    \/ \E v \in Pin(state.last.ts) : Look(v)
    \/ \E v \in PrimaryViews : Confirm(v) \/ End(v)
    \/ \E v \in Later : ReadOplog(v)
    \/ Supersede \/ Start \/ Adopt \/ Commit

Server == Write \/ CommitWrites \/ Elect \/ Truncate \/ LoseCommitted \/ RollBack \/ ReplaceSet
Next ==
    \/ Server \/ Tick \/ Fail \/ Supervisor
    \/ DisableStream \/ PauseStream \/ ResumeStream
    \/ StartBase \/ EndDump \/ ReadTAfter
    \/ Crash

\* The worker and the supervisor are loops that go on until the process stops, whoever
\* paused a stream resumes it, a member that lost entries rolls back, and a tick is
\* pinned to the primary, or to a member as current, again and again.
Continue ==
    \/ \E v \in PrimaryViews : Confirm(v) \/ End(v)
    \/ \E v \in Later : ReadOplog(v)
    \/ Supersede \/ Start \/ Adopt \/ Commit \/ (Refused /\ Fail)
Fairness ==
    /\ WF_vars(RollBack) /\ WF_vars(Continue)
    /\ WF_vars(Supervisor \/ PauseStream \/ ResumeStream)
    /\ SF_vars(\E v \in PrimaryViews : Look(v))

Spec == Init /\ [][Next]_vars /\ Fairness

-----------------------------------------------------------------------------
(* Properties. *)

TypeOK ==
    /\ rs.log \subseteq Entries /\ rs.commit \in 1..MaxTS /\ rs.oldest \in 1..rs.commit
    /\ \A c \in 1..Len(chains) : chains[c].reason \in {"open", "stopped", "gap", "diverged", "replica_set_changed"}
    /\ \A k \in chunks : k.chain \in 1..Len(chains) /\ k.last \in Entries /\ k.got \subseteq Entries
    /\ state.chain \in 0..Len(chains) /\ w.pc \in {"idle", "confirm", "reconfirm", "supersede", "end", "start", "adopt", "read", "commit"}

\* The repository is coherent between any two steps of a tick, whatever failed or
\* crashed there: at most the last chain is open and it is the one of the position,
\* which is the end of its newest chunk or, before there is one, its start.
RepoCoherent ==
    /\ TypeOK
    /\ \A c \in 1..Len(chains) : Open(c) => c = Len(chains) /\ state.chain = c
    /\ Open(state.chain) =>
         /\ \A k \in ChunksOf(state.chain) : k.last.ts <= state.last.ts
         /\ \/ \E k \in ChunksOf(state.chain) : k.last = state.last
            \/ ChunksOf(state.chain) = {} /\ chains[state.chain].start = state.last.ts

\* The chunks a restore replays from position i to position j of chain c, each
\* starting where one before it ends.
Replay(c, i, j) == {k \in Live(c) : i <= k.from /\ k.last.ts <= j}
Linked(R, i, j) ==
    /\ \E k \in R : k.last.ts = j
    /\ \A k \in R : k.from = i \/ \E p \in R : p.from < k.from /\ p.last.ts = k.from
\* The entries some chunks hold, and those of a history after i and up to j.
Taken(R) == UNION {k.got : k \in R}
Between(h, i, j) == {e \in h : i < e.ts /\ e.ts <= j}

\* What is replayed, from any chunk of a chain to any later one without a hole
\* between them, is an unbroken stretch of one history: no entry is missing, none
\* comes twice, and none of another history.
ReplayUnbroken ==
    \A c \in 1..Len(chains), i, j \in 1..MaxTS :
      LET R == Replay(c, i, j) IN
      Linked(R, i, j) =>
        /\ \A k, l \in R : k # l => k.got \cap l.got = {}
        /\ \E h \in Histories :
             /\ Taken(R) \ At(h, i) = Between(h, i, j)
             /\ chains[c].start = i => At(h, i) \subseteq Taken(R)

\* A base whose writes were never lost is replayed on the history it was taken
\* from: the chunks that cover it hold its consistent point.
CoveredBaseOnChain ==
    base.stage = "completed" /\ base.after \in Committed =>
      \A c \in 1..Len(chains), i, j \in 1..MaxTS :
        LET R == Replay(c, i, j) IN
        Linked(R, i, j) /\ Covers(R, i, j) /\ (\A k \in R : k.last.set = base.after.set) =>
          base.after \in Taken(R) \/ base.after.ts = i

\* No part of a window is given up in vain: a chunk is superseded, and a chain that
\* has chunks is ended for a gap or a divergence, only when the replica set no
\* longer has the entry it ends with, whatever the member the tick was pinned to
\* said, and however long the decision took.
Held == Since(Committed, rs.oldest)
GivenUpForCause ==
    [][/\ \A k \in chunks : k.status = "committed" /\ k \notin chunks' => k.last \notin Held
       /\ \A c \in 1..Len(chains) :
            Open(c) /\ Live(c) # {} /\ chains'[c].reason \in {"gap", "diverged"} => state.last \notin Held]_vars

\* The collector never stays behind: once the replica set is quiet its last committed
\* position has been collected, whatever chains had to be given up on the way and
\* wherever a tick failed or the process crashed.
CatchesUp == <>[](state.chain # 0 /\ rs.commit <= state.last.ts)

=============================================================================
