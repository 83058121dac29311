---------------------------- MODULE PITRRetention ----------------------------
(***************************************************************************)
(* What becomes of the chunks and base backups of a point-in-time stream:  *)
(* the collector stores a chunk's object and then commits its row, the     *)
(* base schedule takes a base whenever the current chain has no growing    *)
(* window, retention deletes what no kept base needs and, one grace period *)
(* later, purges it, and a restore plans, pins its plan, checks it and     *)
(* reads it, all at the same time.  A chunk holds one position, (p - 1, p],*)
(* or none, the empty chunk (p, p).  The content of the oplog is the       *)
(* concern of OplogCollector: here a chain only grows and breaks.          *)
(***************************************************************************)
EXTENDS Integers, Sequences, FiniteSets, FiniteSetsExt

CONSTANTS
    MaxTS,      \* bound on the positions of the oplog
    MaxEvents,  \* bound on breaks, failures, crashes and scheduled bases; there is one restore
    Targets,    \* the points in time a restore may ask for
    KeepCount,  \* BaseKeepCount of the stream
    Attempts,   \* pitrPinAttempts
    SweepRaces  \* a chunk may be stored again between the sweep's list and its delete

ASSUME RetentionAssumption ==
    /\ {MaxTS, KeepCount, Attempts} \subseteq Nat \ {0}
    /\ MaxEvents \in Nat /\ Targets \subseteq 1..MaxTS /\ SweepRaces \in BOOLEAN

VARIABLES
    srv,      \* the last committed position of the replica set
    chains,   \* the chains, in order: where each starts, whether it is open
    rows,     \* the rows of oplog_chunks
    objects,  \* the stored chunk objects, by key, and which are past OrphanAge and grace
    upload,   \* the chunk whose object is stored and whose row is not
    bases,    \* the base backups of the stream, in the order they started
    ret,      \* the retention run
    purging,  \* the base backup that the purge of deleted backups is deleting
    restore,  \* a point-in-time restore
    events

stream == <<srv, chains, rows, objects, upload>>
vars == <<stream, bases, ret, purging, restore, events>>

Happens == events < MaxEvents /\ events' = events + 1

Chains == 1..Len(chains)
Open(c) == chains[c].open
Current == Len(chains)
Stored == {o.key : o \in objects}
NoChunk == [chain |-> 0, from |-> 0, to |-> 0, key |-> <<0, 0, 0>>]

\* The position of the collector: where its last chunk ends.
Pos(c) == Max({chains[c].start} \cup {r.to : r \in {q \in rows : q.chain = c}})

-----------------------------------------------------------------------------
(* Windows. *)

Live(r) == r.status = "committed" /\ r.life = "live"
LiveRows(R, c) == {r \in R : r.chain = c /\ Live(r)}

\* One segment of the chain reaches from i to j: each of its chunks starts where the
\* one before it ends, and none failed its verification.
Linked(R, c, i, j) ==
    LET L == LiveRows(R, c) IN
    IF i = j THEN \E r \in L : r.from <= i /\ i <= r.to /\ ~r.bad
    ELSE \A p \in i + 1..j : \E r \in L : r.from = p - 1 /\ r.to = p /\ ~r.bad

\* The chain that covers base b, or 0.
CoveredBy(R, b) == {c \in Chains : Linked(R, c, b.before, b.after)}
ChainOf(R, b) == IF CoveredBy(R, b) = {} THEN 0 ELSE Min(CoveredBy(R, b))

Completed == {b \in DOMAIN bases : bases[b].status = "completed"}
LastTo == Max({r.to : r \in LiveRows(rows, Current)})
HasOpenWindow ==
    /\ Current # 0
    /\ \E b \in Completed : ChainOf(rows, bases[b]) = Current /\ Linked(rows, Current, bases[b].before, LastTo)

\* A completed base that the current chain has yet to reach.
AwaitsCoverage(b) ==
    /\ Current # 0
    /\ IF LiveRows(rows, Current) = {} THEN b.before >= chains[Current].start
       ELSE LastTo < b.after /\ Linked(rows, Current, Min({b.before, LastTo}), LastTo)

\* The chunks that restore base b and replay up to limit, from the first chain with
\* a chunk at its start.
PlanFrom(R, b, limit) ==
    LET from(c) == {r \in LiveRows(R, c) : r.to >= b.before}
        starts == {c \in Chains : \E r \in from(c) : r.from <= b.before}
        plan == {r \in from(Min(starts)) : r.from < limit}
    IN  IF /\ starts # {} /\ b.after < limit
           /\ \E r \in plan : r.to = limit
           /\ \A r \in plan : ~r.bad /\ (r.from <= b.before \/ \E q \in plan : q.from < r.from /\ q.to = r.from)
        THEN plan ELSE {}

\* The newest base from which the target can be reached.
Candidates(limit) == {b \in Completed : PlanFrom(rows, bases[b], limit) # {}}
Newest(B) == {b \in B : \A d \in B : bases[d].after <= bases[b].after}

-----------------------------------------------------------------------------
(* The collector. *)

ServerWrites ==
    /\ srv < MaxTS /\ srv' = srv + 1
    /\ UNCHANGED <<chains, rows, objects, upload, bases, ret, purging, restore, events>>

StartStream ==
    /\ chains = <<>>
    /\ chains' = <<[start |-> srv, open |-> TRUE]>>
    /\ UNCHANGED <<srv, rows, objects, upload, bases, ret, purging, restore, events>>

\* The next chunk: one position on, or empty when there is nothing new.  Its key is
\* made of its chain and its two ends.
NextChunk ==
    LET p == Pos(Current)
        to == IF srv > p THEN p + 1 ELSE p
    IN  [chain |-> Current, from |-> p, to |-> to, key |-> <<Current, p, to>>]

\* The object is stored, or overwritten.
SaveChunk ==
    LET k == NextChunk IN
    /\ Current # 0 /\ upload = NoChunk /\ Open(Current)
    /\ ~SweepRaces => ret.pc # "sweep" \/ k.key \notin ret.keys
    /\ k.to = k.from => \A r \in rows : ~(r.chain = Current /\ r.from = k.from /\ r.to = k.to)
    /\ upload' = k
    /\ objects' = {o \in objects : o.key # k.key} \cup {[key |-> k.key, old |-> FALSE]}
    /\ UNCHANGED <<srv, chains, rows, bases, ret, purging, restore, events>>

CommitChunk ==
    /\ upload # NoChunk
    /\ rows' = rows \cup {[chain |-> upload.chain, from |-> upload.from, to |-> upload.to, key |-> upload.key,
                           status |-> "committed", life |-> "live", bad |-> FALSE]}
    /\ upload' = NoChunk
    /\ UNCHANGED <<srv, chains, objects, bases, ret, purging, restore, events>>

\* What could not be committed is removed again.
FailChunk ==
    /\ upload # NoChunk /\ Happens
    /\ objects' = {o \in objects : o.key # upload.key}
    /\ upload' = NoChunk
    /\ UNCHANGED <<srv, chains, rows, bases, ret, purging, restore>>

\* The oplog was truncated past the position: the chain ends in a gap, and the next one
\* starts at the oldest entry that is left.  After this, as after every other loss of
\* the window, the server still writes (a bound: it would, for ever).
BreakChain ==
    /\ Current # 0 /\ upload = NoChunk /\ srv < MaxTS /\ Happens
    /\ \E oldest \in Pos(Current) + 1..srv :
         chains' = Append([chains EXCEPT ![Current].open = FALSE], [start |-> oldest, open |-> TRUE])
    /\ UNCHANGED <<srv, rows, objects, upload, bases, ret, purging, restore>>

\* The chain diverged after the end of one of its chunks: those after it are superseded.
Diverge ==
    /\ Current # 0 /\ upload = NoChunk /\ srv < MaxTS /\ Happens
    /\ \E p \in {chains[Current].start} \cup {r.to : r \in LiveRows(rows, Current)} :
         /\ p < Pos(Current)
         /\ chains' = Append([chains EXCEPT ![Current].open = FALSE], [start |-> p, open |-> TRUE])
         /\ rows' = {IF r.chain = Current /\ r.status = "committed" /\ r.to > p
                     THEN [r EXCEPT !.status = "superseded"] ELSE r : r \in rows}
    /\ UNCHANGED <<srv, objects, upload, bases, ret, purging, restore>>

\* An object that is not what its row says fails the verification sweep (an empty
\* chunk is left out).
VerifyFails ==
    /\ srv < MaxTS /\ Happens
    /\ \E r \in rows : Live(r) /\ ~r.bad /\ r.from < r.to /\ rows' = (rows \ {r}) \cup {[r EXCEPT !.bad = TRUE]}
    /\ UNCHANGED <<srv, chains, objects, upload, bases, ret, purging, restore>>

-----------------------------------------------------------------------------
(* Base backups. *)

\* The base schedule looks at the newest base that is not deleted; its cron
\* expression may ask for another one at any time.
NotDeleted == {b \in DOMAIN bases : bases[b].status \in {"running", "completed", "failed"}}
\* Mutant: the cron expression alone decides once there is a completed base.
BaseDueByCron == IF NotDeleted = {} THEN TRUE ELSE bases[Max(NotDeleted)].status = "failed"
BaseDue ==
    LET b == bases[Max(NotDeleted)] IN
    IF NotDeleted = {} THEN TRUE
    ELSE CASE b.status = "running" -> FALSE
           [] b.status = "failed" -> TRUE
           [] OTHER -> ~HasOpenWindow /\ ~AwaitsCoverage(b)
CronDue == NotDeleted # {} /\ bases[Max(NotDeleted)].status = "completed" /\ ~BaseDue

\* The server writes between the starts of two bases (its periodic no-op at least).
Wrote == NotDeleted # {} /\ bases[Max(NotDeleted)].status = "completed" => bases[Max(NotDeleted)].before < srv
StartBase ==
    /\ Current # 0
    /\ (BaseDue /\ Wrote /\ UNCHANGED events) \/ (CronDue /\ Happens)
    /\ bases' = Append(bases, [status |-> "running", before |-> srv, after |-> 0, stored |-> FALSE])
    /\ UNCHANGED <<stream, ret, purging, restore>>

EndBase ==
    /\ \E b \in DOMAIN bases :
         /\ bases[b].status = "running"
         /\ \/ /\ bases' = [bases EXCEPT ![b] = [@ EXCEPT !.status = "completed", !.after = srv, !.stored = TRUE]]
               /\ UNCHANGED events
            \/ bases' = [bases EXCEPT ![b].status = "failed"] /\ Happens
    /\ UNCHANGED <<stream, ret, purging, restore>>

-----------------------------------------------------------------------------
(* A restore: it plans, pins what it planned, then checks that all of it is  *)
(* still there.                                                              *)

NoRestore == [pc |-> "idle", base |-> 0, chunks |-> {}, limit |-> 0, tries |-> 0]
Ended == [NoRestore EXCEPT !.pc = "ended"]
Pinned == restore.pc \in {"pinned", "reading"}
PinnedKeys == IF Pinned THEN {r.key : r \in restore.chunks} ELSE {}
PinnedBases == IF Pinned THEN {restore.base} ELSE {}

Plan(limit, tries) ==
    \E b \in Newest(Candidates(limit)) :
      restore' = [pc |-> "planned", base |-> b, chunks |-> PlanFrom(rows, bases[b], limit), limit |-> limit, tries |-> tries]

StartRestore ==
    /\ restore.pc = "idle"
    /\ \E limit \in Targets : Plan(limit, 1)
    /\ UNCHANGED <<stream, bases, ret, purging, events>>

PinPlan ==
    /\ restore.pc = "planned"
    /\ restore' = [restore EXCEPT !.pc = "pinned"]
    /\ UNCHANGED <<stream, bases, ret, purging, events>>

\* A chunk or a base deleted before the pin makes the plan stale: plan again, a few
\* times.
PlanIsLive ==
    /\ \A k \in restore.chunks : \E r \in rows : r.key = k.key /\ Live(r)
    /\ restore.base \in Completed
CheckPlan ==
    /\ restore.pc = "pinned"
    /\ \/ PlanIsLive /\ restore' = [restore EXCEPT !.pc = "reading"]
       \/ /\ ~PlanIsLive /\ restore.tries < Attempts
          /\ \/ Plan(restore.limit, restore.tries + 1)
             \/ Candidates(restore.limit) = {} /\ restore' = Ended
       \/ ~PlanIsLive /\ restore.tries = Attempts /\ restore' = Ended
    /\ UNCHANGED <<stream, bases, ret, purging, events>>

EndRestore ==
    /\ restore.pc = "reading"
    /\ restore' = Ended
    /\ UNCHANGED <<stream, bases, ret, purging, events>>

-----------------------------------------------------------------------------
(* Retention of the stream. *)

Idle == [pc |-> "idle", keys |-> {}, pins |-> {}, basePins |-> {}, bases |-> {}, eligible |-> {}, delBases |-> {}, delKeys |-> {}]
Named == {r.key : r \in {q \in rows : q.status # "pruned"}}
Orphans == {o.key : o \in {p \in objects : p.old}} \ Named
DueKeys == {r.key : r \in {q \in rows : q.life = "due" /\ q.status # "pruned"}}

\* planRetention, with the bases B listed earlier: a base is kept when it is one of
\* the newest, pinned, or the newest that a chain covers.
Eligible(B) == {b \in B : ChainOf(rows, bases[b]) # 0}
\* Which chain covers each of them.
CoveringChains(B) == {<<b, ChainOf(rows, bases[b])>> : b \in Eligible(B)}
\* Mutant: the newest base a chain covers is not kept for being that.
KeptBasesNewest(B, pinned) ==
    {b \in B : Cardinality({d \in B : d > b}) < KeepCount \/ b \in pinned}
KeptBases(B, pinned) ==
    {b \in B : \/ Cardinality({d \in B : d > b}) < KeepCount
               \/ b \in pinned
               \/ Eligible(B) # {} /\ b = Max(Eligible(B))}
\* A chunk goes when it ends before the oldest kept base of its chain starts, when
\* its chain ended and has none, or when it was superseded.
DeletableKeys(B, pinnedBases, pinnedKeys) ==
    LET kept(c) == {bases[b].before : b \in {d \in KeptBases(B, pinnedBases) : ChainOf(rows, bases[d]) = c}} IN
    {r.key : r \in {q \in rows :
       /\ q.life = "live" /\ q.status # "pruned" /\ q.key \notin pinnedKeys
       /\ \/ q.status = "superseded"
          \/ kept(q.chain) # {} /\ q.to < Min(kept(q.chain))
          \/ kept(q.chain) = {} /\ ~Open(q.chain)}}

\* Mutant: the pins are not asked about the chunks that are due.
SnapshotUnpinned == [Idle EXCEPT !.pc = "purge", !.pins = PinnedKeys, !.basePins = PinnedBases,
                                 !.keys = DueKeys, !.bases = Completed]
\* The pins of the run are read once, before the chunks that are due; so are the bases,
\* which the code lists after it purged those chunks (no base depends on them).
Snapshot == [Idle EXCEPT !.pc = "purge", !.pins = PinnedKeys, !.basePins = PinnedBases,
                         !.keys = DueKeys \ PinnedKeys, !.bases = Completed]

\* A run that would find nothing to do changes nothing and is left out.
RetainStream ==
    /\ ret.pc = "idle"
    /\ \/ Orphans # {} \/ DueKeys \ PinnedKeys # {}
       \/ Completed \ KeptBases(Completed, PinnedBases) # {}
       \/ DeletableKeys(Completed, PinnedBases, PinnedKeys) # {}
    /\ ret' = IF Orphans = {} THEN Snapshot ELSE [Idle EXCEPT !.pc = "sweep", !.keys = Orphans]
    /\ UNCHANGED <<stream, bases, purging, restore, events>>

\* Mutant: the sweep takes an object it could not delete for a deleted one.
PurgeOrphanKept ==
    /\ ret.pc = "sweep"
    /\ \E k \in ret.keys : ret' = [ret EXCEPT !.keys = @ \ {k}]
    /\ UNCHANGED <<stream, bases, purging, restore, events>>
\* An orphan is deleted, once a last look finds no row that names it.
PurgeOrphan ==
    /\ ret.pc = "sweep"
    /\ \E k \in ret.keys :
         /\ objects' = IF k \in Named THEN objects ELSE {o \in objects : o.key # k}
         /\ ret' = [ret EXCEPT !.keys = @ \ {k}]
    /\ UNCHANGED <<srv, chains, rows, upload, bases, purging, restore, events>>

SnapshotPins ==
    /\ ret.pc = "sweep" /\ ret.keys = {}
    /\ ret' = Snapshot
    /\ UNCHANGED <<stream, bases, purging, restore, events>>

PurgeChunk ==
    /\ ret.pc = "purge"
    /\ \E k \in ret.keys :
         /\ objects' = {o \in objects : o.key # k}
         /\ rows' = {IF r.key = k /\ r.life # "live" THEN [r EXCEPT !.status = "pruned"] ELSE r : r \in rows}
         /\ ret' = [ret EXCEPT !.keys = @ \ {k}]
    /\ UNCHANGED <<srv, chains, upload, bases, purging, restore, events>>

\* The chains and chunks are listed after the bases.
PlanRetention ==
    /\ ret.pc = "purge" /\ ret.keys = {}
    /\ ret' = [ret EXCEPT !.pc = "delete", !.eligible = CoveringChains(ret.bases), !.bases = KeptBases(ret.bases, ret.basePins),
                          !.delBases = ret.bases \ KeptBases(ret.bases, ret.basePins),
                          !.delKeys = DeletableKeys(ret.bases, ret.basePins, ret.pins)]
    /\ UNCHANGED <<stream, bases, purging, restore, events>>

\* A base that was pinned or has changed since is left alone.
DeleteBase ==
    /\ ret.pc = "delete"
    /\ \E b \in ret.delBases :
         /\ bases' = IF b \in Completed /\ b \notin PinnedBases THEN [bases EXCEPT ![b].status = "deleted"] ELSE bases
         /\ ret' = [ret EXCEPT !.delBases = @ \ {b}]
    /\ UNCHANGED <<stream, purging, restore, events>>

DeleteChunks ==
    /\ ret.pc = "delete" /\ ret.delBases = {}
    /\ rows' = {IF r.key \in ret.delKeys /\ r.life = "live" /\ r.status # "pruned" THEN [r EXCEPT !.life = "deleted"] ELSE r : r \in rows}
    /\ ret' = Idle
    /\ UNCHANGED <<srv, chains, objects, upload, bases, purging, restore, events>>

\* The purge of deleted backups takes a base that is due and not pinned, then deletes
\* its archive.
PurgeBase ==
    /\ purging = 0
    /\ \E b \in DOMAIN bases : bases[b].status = "due" /\ b \notin PinnedBases /\ purging' = b
    /\ UNCHANGED <<stream, bases, ret, restore, events>>

DeleteArchive ==
    /\ purging # 0
    /\ bases' = [bases EXCEPT ![purging] = [@ EXCEPT !.status = "purged", !.stored = FALSE]]
    /\ purging' = 0
    /\ UNCHANGED <<stream, ret, restore, events>>

\* Mutant: an object is old at once, the one being committed included.
AbandonedAtOnce(k) == k \notin Named
\* A grace period passes: what is deleted becomes due, and what no row names old.  A
\* row is committed well within OrphanAge of its object.
Abandoned(k) == k \notin Named /\ k # upload.key
TimePasses ==
    /\ \/ \E r \in rows : r.life = "deleted"
       \/ \E b \in DOMAIN bases : bases[b].status = "deleted"
       \/ \E o \in objects : ~o.old /\ Abandoned(o.key)
    /\ rows' = {IF r.life = "deleted" THEN [r EXCEPT !.life = "due"] ELSE r : r \in rows}
    /\ bases' = [b \in DOMAIN bases |-> IF bases[b].status = "deleted" THEN [bases[b] EXCEPT !.status = "due"] ELSE bases[b]]
    /\ objects' = {[o EXCEPT !.old = @ \/ Abandoned(o.key)] : o \in objects}
    /\ UNCHANGED <<srv, chains, upload, ret, purging, restore, events>>

Crash ==
    /\ Happens
    /\ upload' = NoChunk /\ ret' = Idle /\ purging' = 0
    /\ restore' = IF restore.pc = "idle" THEN restore ELSE Ended
    /\ bases' = [b \in DOMAIN bases |-> IF bases[b].status = "running" THEN [bases[b] EXCEPT !.status = "failed"] ELSE bases[b]]
    /\ UNCHANGED <<srv, chains, rows, objects>>

-----------------------------------------------------------------------------

Init ==
    /\ srv = 1 /\ chains = <<>> /\ rows = {} /\ objects = {} /\ upload = NoChunk
    /\ bases = <<>> /\ ret = Idle /\ purging = 0 /\ restore = NoRestore /\ events = 0

Collector == StartStream \/ SaveChunk \/ CommitChunk
Retention ==
    \/ RetainStream \/ PurgeOrphan \/ SnapshotPins \/ PurgeChunk
    \/ PlanRetention \/ DeleteBase \/ DeleteChunks
Restore == PinPlan \/ CheckPlan \/ EndRestore
Purge == PurgeBase \/ DeleteArchive
Next ==
    \/ ServerWrites \/ Collector \/ FailChunk \/ BreakChain \/ Diverge \/ VerifyFails
    \/ StartBase \/ EndBase \/ StartRestore \/ Restore
    \/ Retention \/ Purge \/ TimePasses \/ Crash

\* The server writes no-ops, the collector, the supervisor and the scheduler are loops
\* that never end, and a base and a restore end: as long as one of them can go on, one
\* does (which of them is left open, and cannot matter for long: see WindowOpens).
Progress ==
    \/ ServerWrites \/ Collector \/ (StartBase /\ BaseDue) \/ EndBase \/ Restore
    \/ Retention \/ Purge \/ TimePasses
Fairness == WF_vars(Progress)

Spec == Init /\ [][Next]_vars /\ Fairness

-----------------------------------------------------------------------------
(* Properties. *)

ChainRecords == [start : Nat, open : BOOLEAN]
Keys == Nat \X Nat \X Nat
Rows == [chain : Nat, from : Nat, to : Nat, key : Keys, status : {"committed", "superseded", "pruned"},
         life : {"live", "deleted", "due"}, bad : BOOLEAN]
BaseBackups == [status : {"running", "completed", "failed", "deleted", "due", "purged"}, before : Nat, after : Nat, stored : BOOLEAN]
Retentions == [pc : {"idle", "sweep", "purge", "delete"}, keys : SUBSET Keys, pins : SUBSET Keys, basePins : SUBSET Nat,
               bases : SUBSET Nat, eligible : SUBSET (Nat \X Nat), delBases : SUBSET Nat, delKeys : SUBSET Keys]
Restores == [pc : {"idle", "planned", "pinned", "reading", "ended"}, base : Nat, chunks : SUBSET Rows, limit : Nat, tries : Nat]

\* What the variables hold: a chunk lies on a chain, holds at most one position that
\* the server has reached and has a key of its own; a completed base has its archive;
\* what is purged or restored is a base there is.
ChainsOK ==
    /\ srv \in Nat \ {0} /\ events \in Nat
    /\ chains \in Seq(ChainRecords) /\ \A c \in Chains : chains[c].start \in 1..srv
ChunkOK(r) ==
    /\ r.chain \in Chains /\ r.to \in {r.from, r.from + 1} /\ r.to \in 1..srv
    /\ r.key = <<r.chain, r.from, r.to>>
RowsOK == rows \subseteq Rows /\ (\A r \in rows : ChunkOK(r)) /\ (\A r, q \in rows : r.key = q.key => r = q)
ObjectsOK ==
    /\ objects \subseteq [key : Keys, old : BOOLEAN]
    /\ upload \in [chain : Nat, from : Nat, to : Nat, key : Keys] /\ (upload # NoChunk => ChunkOK(upload))
BasesOK ==
    /\ bases \in Seq(BaseBackups) /\ \A b \in DOMAIN bases : bases[b].before <= srv
    /\ \A b \in Completed : bases[b].stored /\ bases[b].before <= bases[b].after
    /\ purging \in {0} \cup DOMAIN bases
ActorsOK ==
    /\ ret \in Retentions /\ restore \in Restores
    /\ restore.pc \in {"planned", "pinned", "reading"} => restore.base \in DOMAIN bases
TypeOK == ChainsOK /\ RowsOK /\ ObjectsOK /\ BasesOK /\ ActorsOK

\* A restore that starts finds all it planned until it ends: whatever retention and
\* the purges decided on while it planned and before they saw its pins, no object of
\* a plan that passed its check is gone.
PlanReadable ==
    restore.pc = "reading" => {k.key : k \in restore.chunks} \subseteq Stored /\ bases[restore.base].stored

\* A window shows only what can be read: the object of a chunk that is committed and
\* not deleted exists.
CommittedStored == TypeOK /\ \A r \in rows : Live(r) => r.key \in Stored

\* Retention never takes a point in time away from a base it decided to keep, and never
\* the last base that can be restored: the newest one that a chain covered when it
\* looked is covered by something after each deletion, unless a chunk of that chain
\* went bad or was superseded meanwhile.
Reachable(R, b) == {limit \in 1..MaxTS : PlanFrom(R, bases[b], limit) # {}}
Covered == {b \in Completed : CoveredBy(rows, bases[b]) # {}}
WindowsKept ==
    [][ret.pc = "delete" /\ ret' # ret =>
         /\ \A b \in ret.bases \cap Completed : b \in Completed' => Reachable(rows, b) \subseteq Reachable(rows', b)
         /\ \A e \in ret.eligible :
              (\A f \in ret.eligible : f[1] <= e[1]) /\ e[2] \in CoveredBy(rows, bases[e[1]]) => Covered' # {}]_vars

\* The stream comes back by itself: after the last break, failure or crash the current
\* chain has, and keeps, a window that grows.
WindowOpens == <>[]HasOpenWindow

\* Nothing stays behind for ever: in the end every object is the one of a chunk that
\* is in a window or may be in one, and every deleted base was purged.
NothingLeaks ==
    <>[](/\ \A k \in Stored : k = upload.key \/ \E r \in rows : r.key = k /\ Live(r)
         /\ \A b \in DOMAIN bases : bases[b].status \notin {"deleted", "due"})

=============================================================================
