------------------------------ MODULE JobRuns ------------------------------
(***************************************************************************)
(* The backup runs of one MongoRescue process that read from one           *)
(* connection: runs.Manager (run locks and slots of the connection),       *)
(* runs.Registry (cancellation), the scheduler's job runs and ad-hoc runs  *)
(* of several databases (scheduler/jobrun.go), manual backups              *)
(* (operations), the control flow of backup.Engine.Execute, shutdown, and  *)
(* what a start makes of the runs a crash left behind.                     *)
(*                                                                         *)
(* A backup is a pair of its run and its database; its goroutine is at     *)
(* pc[b].  Databases are numbers: a run takes them in this order.          *)
(***************************************************************************)
EXTENDS Integers, Sequences, FiniteSets, SequencesExt

CONSTANTS
    Databases,   \* the databases of the connection, a set of numbers
    Runs,        \* the runs that may be started, each once
    Kind,        \* Kind[r]: scheduled and ondemand runs are of one job
    Selection,   \* Selection[r]: the databases a run is asked to back up
    Parallelism, \* how many databases of a run are backed up at once
    Limits,      \* values of the connection's max_concurrent_backups
    Requesters,  \* requests to cancel runs, each once
    Windows,     \* the scheduled runs that end with their backup window
    MaxEvents,   \* bound on cancellations, ends of windows, drains, stops and crashes
    NoRun

Kinds == {"scheduled", "ondemand", "adhoc", "manual"}
ASSUME JobRunsConstants ==
    /\ Databases \subseteq Nat /\ IsFiniteSet(Databases) /\ IsFiniteSet(Runs)
    /\ Kind \in [Runs -> Kinds]
    /\ Selection \in [Runs -> (SUBSET Databases) \ {{}}]
    /\ \A r \in Runs : Kind[r] = "manual" => Cardinality(Selection[r]) = 1
    /\ Parallelism \in Nat \ {0} /\ Limits \subseteq Nat /\ MaxEvents \in Nat
    /\ Windows \subseteq {r \in Runs : Kind[r] = "scheduled"}
    /\ NoRun \notin Runs /\ Windows \cap Requesters = {}

Backups == {b \in Runs \X Databases : b[2] \in Selection[b[1]]}
RunOf(b) == b[1]
Database(b) == b[2]
OfJob(r) == Kind[r] \in {"scheduled", "ondemand"}
Multi(r) == Kind[r] # "manual"

VARIABLES
    mgr,      \* runs.Manager: the keys held (active), closed, refusing
    queue,    \* its slotQueue of the connection, and who holds its slots
    sched,    \* Scheduler: stopped, paused, the claimed run of the job (jobRuns)
    stage,    \* stage[r]: where the start of run r has got to
    plan,     \* plan[r]: JobRunPlan.Records, the databases of the run
    limit,    \* limit[r]: BackupOptions.MaxConcurrentBackups of the run
    pc,       \* pc[b]: where the goroutine of backup b is
    locked,   \* locked[b]: it owns the release of its database's run lock
    trk,      \* trk[b]: its runs.Run in the registry
    result,   \* result[b]: the status of its record in memory
    records,  \* the stored backup records
    summary,  \* the stored job runs
    reqs,     \* the cancel requests and the timers of the backup windows
    life      \* the process

vars == <<mgr, queue, sched, stage, plan, limit, pc, locked, trk, result, records, summary, reqs, life>>
runVars == <<stage, plan, limit>>
backupVars == <<pc, locked, trk, result>>
stored == <<records, summary>>

Final == {"completed", "failed", "cancelled"}
NoTracker == [state |-> "none", cancelled |-> FALSE, bound |-> FALSE, finishing |-> FALSE]
NoSummary == [status |-> "none", of |-> [d \in Databases |-> "none"]]
NoRequest == [phase |-> "idle", kind |-> "none", run |-> NoRun, left |-> {}]

NewManager == [active |-> {}, closed |-> FALSE, refusing |-> FALSE]
NewQueue == [held |-> 0, limit |-> 0, waiters |-> <<>>, holders |-> {}]
NewScheduler == [stopped |-> FALSE, paused |-> FALSE, job |-> NoRun]

Init ==
    /\ mgr = NewManager /\ queue = NewQueue /\ sched = NewScheduler
    /\ locked = [b \in Backups |-> FALSE]
    /\ trk = [b \in Backups |-> NoTracker]
    /\ stage = [r \in Runs |-> "idle"]
    /\ plan = [r \in Runs |-> {}]
    /\ limit = [r \in Runs |-> 0]
    /\ pc = [b \in Backups |-> "none"]
    /\ result = [b \in Backups |-> "none"]
    /\ records = [b \in Backups |-> "none"]
    /\ summary = [r \in Runs |-> NoSummary]
    /\ reqs = [q \in Requesters \cup Windows |-> NoRequest]
    /\ life = [state |-> "up", events |-> 0]

-----------------------------------------------------------------------------
(* Contexts and cancellation.                                              *)

\* The context a run was started with has ended: the scheduler's for
\* scheduled runs, the Manager's for the others.
Stopped(r) == IF Kind[r] = "scheduled" THEN sched.stopped ELSE mgr.closed

\* The context of a backup (Run.Bind) has ended.
CtxDone(b) == trk[b].bound /\ (trk[b].cancelled \/ Stopped(RunOf(b)))

\* CancellationOf: it has ended and the backup was cancelled.
CancellationOf(b) == CtxDone(b) /\ trk[b].cancelled

\* Run.cancelRun: nothing once the run has ended, is finishing or its context
\* ended for another reason.
CancelRun(b) ==
    IF trk[b].state = "active" /\ ~trk[b].finishing /\ ~CtxDone(b)
    THEN [trk[b] EXCEPT !.cancelled = TRUE] ELSE trk[b]

\* Engine.fail: a record is cancelled when its backup was, else failed.
FailStatus(b) == IF CancellationOf(b) THEN "cancelled" ELSE "failed"

Up == life.state \in {"up", "stopping"}

\* One more of the events that disturb runs, and what it makes of the process.
Event(state) == life.events < MaxEvents /\ life' = [state |-> state, events |-> life.events + 1]

Accepting == ~mgr.closed /\ ~mgr.refusing

(* The slots of the connection.                                            *)

\* admitLocked: free slots go to the waiters, first come first served.
Admit(q) ==
    LET n == IF q.held >= q.limit THEN 0
             ELSE IF q.limit - q.held < Len(q.waiters) THEN q.limit - q.held ELSE Len(q.waiters)
    IN  [q EXCEPT !.held = @ + n,
                  !.waiters = SubSeq(@, n + 1, Len(@)),
                  !.holders = @ \cup {q.waiters[i] : i \in 1..n}]

\* dropIdleLocked: a queue nobody holds or waits for is forgotten.
DropIdle(q) == IF q.held = 0 /\ q.waiters = <<>> THEN NewQueue ELSE q

\* Mutant of Free: the slot is not handed to the next waiter.
FreeWithoutAdmit(q, b) == DropIdle([q EXCEPT !.held = @ - 1, !.holders = @ \ {b}])

\* freeLocked: one slot is given up, the next waiter gets it.
Free(q, b) == DropIdle(Admit([q EXCEPT !.held = @ - 1, !.holders = @ \ {b}]))

\* The deferred release of the slot when the engine returns.
ReleaseSlot(b) == queue' = IF b \in queue.holders THEN Free(queue, b) ELSE queue

\* The return of Engine.Execute with a status.
Return(b, status) ==
    /\ ReleaseSlot(b)
    /\ result' = [result EXCEPT ![b] = status]
    /\ pc' = [pc EXCEPT ![b] = "returned"]

-----------------------------------------------------------------------------
(* Starting runs.                                                          *)

\* JobRun.Finish: the status of a run from its databases' (Counts).
FinishStatus(of, error) ==
    LET some(s) == \E d \in Databases : of[d] = s
    IN  IF error /\ ~some("completed") THEN "failed"
        ELSE IF ~some("failed") /\ ~some("cancelled") /\ some("completed") THEN "ok"
        ELSE IF ~some("failed") /\ some("cancelled") THEN "cancelled"
        ELSE IF some("completed") THEN "partial" ELSE "failed"

\* A run is over; nothing refers to it any more but the store.
Over(r) ==
    /\ stage' = [stage EXCEPT ![r] = "over"]
    /\ plan' = [plan EXCEPT ![r] = {}] /\ limit' = [limit EXCEPT ![r] = 0]
    /\ trk' = [b \in Backups |-> IF RunOf(b) = r THEN NoTracker ELSE trk[b]]
    /\ result' = [b \in Backups |-> IF RunOf(b) = r THEN "none" ELSE result[b]]

\* claimJobRun
Claimable(r) == sched.job \in {NoRun, r}

\* runScheduled: a cron trigger, unless stopped, paused or a run of the job is
\* going.  The timer of the backup window is armed from here on.
StartScheduled(r) ==
    /\ Up /\ stage[r] = "idle" /\ Kind[r] = "scheduled"
    /\ ~sched.stopped /\ ~sched.paused /\ sched.job = NoRun
    /\ stage' = [stage EXCEPT ![r] = "planning"]
    /\ UNCHANGED <<mgr, queue, sched, plan, limit, backupVars, stored, reqs, life>>

\* StartJobRun: the run is claimed and stored, and planned by a goroutine.
StartJobRun(r) ==
    /\ Up /\ stage[r] = "idle" /\ Kind[r] = "ondemand" /\ sched.job = NoRun
    /\ stage' = [stage EXCEPT ![r] = IF Accepting THEN "planning" ELSE "over"]
    /\ sched' = [sched EXCEPT !.job = IF Accepting THEN r ELSE @]
    /\ summary' = [summary EXCEPT ![r].status = IF Accepting THEN "running" ELSE "failed"]
    /\ UNCHANGED <<mgr, queue, plan, limit, backupVars, records, reqs, life>>

\* planRun resolves the selection and the connection, and BeginJobRun claims the
\* job and stores the run.
PlanRun(r) ==
    /\ stage[r] = "planning" /\ Claimable(r)
    /\ stage' = [stage EXCEPT ![r] = "registering"]
    /\ sched' = [sched EXCEPT !.job = r]
    /\ plan' = [plan EXCEPT ![r] = Selection[r]]
    /\ \E n \in Limits : limit' = [limit EXCEPT ![r] = n]
    /\ summary' = [summary EXCEPT ![r] = [status |-> "running",
                       of |-> [d \in Databases |-> IF d \in Selection[r] THEN "in_progress" ELSE "none"]]]
    /\ UNCHANGED <<mgr, queue, backupVars, records, reqs, life>>

\* The databases of the run cannot be resolved (failRun).
PlanFails(r) ==
    /\ stage[r] = "planning"
    /\ summary' = [summary EXCEPT ![r].status = FinishStatus(summary[r].of, TRUE)]
    /\ stage' = [stage EXCEPT ![r] = "over"]
    /\ sched' = [sched EXCEPT !.job = IF @ = r THEN NoRun ELSE @]
    /\ UNCHANGED <<mgr, queue, plan, limit, backupVars, records, reqs, life>>

\* BeginJobRun finds that another run of the job was claimed meanwhile: nothing of
\* this one is stored.
PlanBusy(r) ==
    /\ stage[r] = "planning" /\ ~Claimable(r)
    /\ stage' = [stage EXCEPT ![r] = "over"]
    /\ UNCHANGED <<mgr, queue, sched, plan, limit, backupVars, stored, reqs, life>>

\* StartBackups, startBackup: a request for an ad-hoc run or a manual backup.
StartBackups(r) ==
    /\ Up /\ stage[r] = "idle" /\ ~OfJob(r)
    /\ stage' = [stage EXCEPT ![r] = "locking"]
    /\ \E n \in Limits : limit' = [limit EXCEPT ![r] = n]
    /\ UNCHANGED <<mgr, queue, sched, plan, backupVars, stored, reqs, life>>

\* Manager.Acquire for the databases of the request in turn: one that another
\* backup holds is left out of the run.
AcquireLock(b) ==
    LET free == Database(b) \notin mgr.active
    IN  /\ stage[RunOf(b)] = "locking" /\ Accepting /\ pc[b] = "none"
        /\ \A d \in Selection[RunOf(b)] : d < Database(b) => pc[<<RunOf(b), d>>] # "none"
        /\ mgr' = [mgr EXCEPT !.active = @ \cup {Database(b)}]
        /\ locked' = [locked EXCEPT ![b] = free]
        /\ pc' = [pc EXCEPT ![b] = IF free THEN "unregistered" ELSE "skipped"]
        /\ UNCHANGED <<queue, sched, runVars, trk, result, stored, reqs, life>>

\* PrepareAdHocRun with the databases that were free ...
PrepareAdHocRun(r) ==
    /\ stage[r] = "locking" /\ \A d \in Selection[r] : pc[<<r, d>>] # "none"
    /\ plan' = [plan EXCEPT ![r] = {d \in Selection[r] : locked[<<r, d>>]}]
    /\ stage' = [stage EXCEPT ![r] = IF plan'[r] = {} THEN "over" ELSE "registering"]
    /\ UNCHANGED <<mgr, queue, sched, limit, backupVars, stored, reqs, life>>

\* Mutant of RefuseRequest: the locks already taken are kept.
RefuseKeepingLocks(r) ==
    /\ stage[r] = "locking" /\ ~Accepting /\ \E d \in Selection[r] : pc[<<r, d>>] = "none"
    /\ Over(r)
    /\ UNCHANGED <<mgr, queue, sched, pc, locked, stored, reqs, life>>

\* ... or the request is refused, and the locks it has taken are released (releaseAll).
RefuseRequest(r) ==
    /\ stage[r] = "locking" /\ ~Accepting /\ \E d \in Selection[r] : pc[<<r, d>>] = "none"
    /\ mgr' = [mgr EXCEPT !.active = @ \ {d \in Selection[r] : locked[<<r, d>>]}]
    /\ locked' = [b \in Backups |-> locked[b] /\ RunOf(b) # r]
    /\ Over(r)
    /\ UNCHANGED <<queue, sched, pc, stored, reqs, life>>

\* BeginJobRun and startBackup: the record of the next database is stored as in
\* progress and the backup is registered.
Unregistered(b) == Database(b) \in plan[RunOf(b)] /\ pc[b] \in {"none", "unregistered"}

Register(b) ==
    /\ stage[RunOf(b)] = "registering" /\ Unregistered(b)
    /\ \A d \in Databases : d < Database(b) /\ <<RunOf(b), d>> \in Backups => ~Unregistered(<<RunOf(b), d>>)
    /\ records' = [records EXCEPT ![b] = "in_progress"]
    /\ result' = [result EXCEPT ![b] = "in_progress"]
    /\ trk' = [trk EXCEPT ![b] = [NoTracker EXCEPT !.state = "active"]]
    /\ pc' = [pc EXCEPT ![b] = "queued"]
    /\ UNCHANGED <<mgr, queue, sched, runVars, locked, summary, reqs, life>>

Registered(r) == stage[r] = "registering" /\ \A d \in plan[r] : ~Unregistered(<<r, d>>)

\* The workers of a job run start; those of other runs when Manager.Go accepts.
Go(r) ==
    /\ Registered(r) /\ (OfJob(r) \/ Accepting)
    /\ \A d \in plan[r] : pc[<<r, d>>] = "queued"
    /\ stage' = [stage EXCEPT ![r] = "running"]
    /\ UNCHANGED <<mgr, queue, sched, plan, limit, backupVars, stored, reqs, life>>

\* Manager.Go refuses a run of StartBackups (AbandonJobRun): every record is stored
\* as failed, then the locks are released (releaseHeld).
AbandonJobRun(r) ==
    /\ Registered(r) /\ Kind[r] = "adhoc" /\ ~Accepting
    /\ LET mine(b) == RunOf(b) = r /\ Database(b) \in plan[r]
       IN  /\ records' = [b \in Backups |-> IF mine(b) THEN "failed" ELSE records[b]]
           /\ pc' = [b \in Backups |-> IF mine(b) THEN "ended" ELSE pc[b]]
           /\ locked' = [b \in Backups |-> locked[b] /\ ~mine(b)]
    /\ mgr' = [mgr EXCEPT !.active = @ \ plan[r]]
    /\ Over(r)
    /\ UNCHANGED <<queue, sched, summary, reqs, life>>

\* The release of the run lock.
ReleaseLock(b) ==
    /\ mgr' = [mgr EXCEPT !.active = IF locked[b] THEN @ \ {Database(b)} ELSE @]
    /\ locked' = [locked EXCEPT ![b] = FALSE]

\* It refuses a manual backup: the run ends and the lock is released first ...
AbandonManual(b) ==
    /\ Registered(RunOf(b)) /\ ~Multi(RunOf(b)) /\ ~Accepting /\ pc[b] = "queued"
    /\ trk' = [trk EXCEPT ![b].state = "ended"]
    /\ ReleaseLock(b)
    /\ pc' = [pc EXCEPT ![b] = "abandoned"]
    /\ UNCHANGED <<queue, sched, runVars, result, stored, reqs, life>>

\* ... then the record is stored as failed (abandonBackup).
AbandonBackup(b) ==
    /\ pc[b] = "abandoned"
    /\ records' = [records EXCEPT ![b] = "failed"]
    /\ pc' = [pc EXCEPT ![b] = "ended"]
    /\ Over(RunOf(b))
    /\ UNCHANGED <<mgr, queue, sched, locked, summary, reqs, life>>

-----------------------------------------------------------------------------
(* One backup: runDatabase, and the goroutine of startBackup.               *)

\* Where a backup is between its start and its end.
Busy == {"lock", "held", "engine", "waiting", "slotted", "dumping", "dumped", "finishing", "returned", "saved"}

\* A worker takes the next database of the run and binds its context.  A lock
\* taken at the start is kept (takeHeld), else the database is waited for.
Take(b) ==
    LET r == RunOf(b)
    IN  /\ stage[r] = "running" /\ pc[b] = "queued"
        /\ \A d \in plan[r] : d < Database(b) => pc[<<r, d>>] # "queued"
        /\ Cardinality({d \in plan[r] : pc[<<r, d>>] \in Busy}) < Parallelism
        /\ trk' = [trk EXCEPT ![b].bound = TRUE]
        /\ pc' = [pc EXCEPT ![b] = IF ~Multi(r) THEN "engine" ELSE IF locked[b] THEN "held" ELSE "lock"]
        /\ UNCHANGED <<mgr, queue, sched, runVars, locked, result, stored, reqs, life>>

\* waitForDatabase: a round of its loop.  When the context has ended the backup
\* goes on without the lock, and the engine records why it did not run.
WaitEnds(b) ==
    /\ pc[b] = "lock" /\ CtxDone(b)
    /\ pc' = [pc EXCEPT ![b] = "held"]
    /\ UNCHANGED <<mgr, queue, sched, runVars, locked, trk, result, stored, reqs, life>>

LockDatabase(b) ==
    /\ pc[b] = "lock" /\ ~CtxDone(b) /\ Accepting /\ Database(b) \notin mgr.active
    /\ mgr' = [mgr EXCEPT !.active = @ \cup {Database(b)}]
    /\ locked' = [locked EXCEPT ![b] = TRUE]
    /\ pc' = [pc EXCEPT ![b] = "held"]
    /\ UNCHANGED <<queue, sched, runVars, trk, result, stored, reqs, life>>

\* The database was busy for lockWait, or the Manager accepts nothing any more.
LockFails(b) ==
    /\ pc[b] = "lock" /\ ~CtxDone(b)
    /\ ~Accepting \/ Database(b) \in mgr.active
    /\ result' = [result EXCEPT ![b] = "failed"]
    /\ pc' = [pc EXCEPT ![b] = "returned"]
    /\ UNCHANGED <<mgr, queue, sched, runVars, locked, trk, stored, reqs, life>>

\* Mutant of Adopt: only its own cancellation ends a backup.
AdoptNothing(b) ==
    /\ pc[b] = "held"
    /\ pc' = [pc EXCEPT ![b] = "engine"]
    /\ UNCHANGED <<mgr, queue, sched, runVars, locked, trk, result, stored, reqs, life>>

\* A cancellation of another database of the run is adopted (plan.cancellation).
Adopt(b) ==
    /\ pc[b] = "held"
    /\ trk' = [trk EXCEPT ![b] = IF \E d \in plan[RunOf(b)] : trk[<<RunOf(b), d>>].cancelled
                                 THEN CancelRun(b) ELSE @]
    /\ pc' = [pc EXCEPT ![b] = "engine"]
    /\ UNCHANGED <<mgr, queue, sched, runVars, locked, result, stored, reqs, life>>

\* Engine.execute before the wait for a slot: cancelled while queued.
CancelledInQueue(b) ==
    /\ pc[b] = "engine" /\ CancellationOf(b)
    /\ Return(b, "cancelled")
    /\ UNCHANGED <<mgr, sched, runVars, locked, trk, stored, reqs, life>>

\* AcquireSlot: with the newest limit, at once or by joining the waiters.
AcquireSlot(b) ==
    LET n == limit[RunOf(b)]
        q == Admit([queue EXCEPT !.limit = n])
        now == q.held < q.limit /\ q.waiters = <<>>
    IN  /\ pc[b] = "engine" /\ ~CancellationOf(b) /\ n > 0 /\ ~mgr.closed
        /\ queue' = IF now THEN [q EXCEPT !.held = @ + 1, !.holders = @ \cup {b}]
                           ELSE [q EXCEPT !.waiters = Append(@, b)]
        /\ pc' = [pc EXCEPT ![b] = IF now THEN "slotted" ELSE "waiting"]
        /\ UNCHANGED <<mgr, sched, runVars, locked, trk, result, stored, reqs, life>>

\* A connection without a limit needs no slot.
NoSlotNeeded(b) ==
    /\ pc[b] = "engine" /\ ~CancellationOf(b) /\ limit[RunOf(b)] = 0
    /\ pc' = [pc EXCEPT ![b] = "slotted"]
    /\ UNCHANGED <<mgr, queue, sched, runVars, locked, trk, result, stored, reqs, life>>

\* AcquireSlot of a Manager that is shut down: the backup is interrupted.
SlotRefused(b) ==
    /\ pc[b] = "engine" /\ ~CancellationOf(b) /\ limit[RunOf(b)] > 0 /\ mgr.closed
    /\ Return(b, "cancelled")
    /\ UNCHANGED <<mgr, sched, runVars, locked, trk, stored, reqs, life>>

\* The wait ends with the slot handed over ...
SlotGranted(b) ==
    /\ pc[b] = "waiting" /\ b \in queue.holders
    /\ pc' = [pc EXCEPT ![b] = "slotted"]
    /\ UNCHANGED <<mgr, queue, sched, runVars, locked, trk, result, stored, reqs, life>>

\* Mutant of LeaveQueue: a slot handed over meanwhile is not passed on.
LeaveQueueWithSlot(b) ==
    /\ pc[b] = "waiting" /\ (CtxDone(b) \/ mgr.closed)
    /\ queue' = DropIdle([queue EXCEPT !.waiters = RemoveFirst(@, b)])
    /\ result' = [result EXCEPT ![b] = "cancelled"]
    /\ pc' = [pc EXCEPT ![b] = "returned"]
    /\ UNCHANGED <<mgr, sched, runVars, locked, trk, stored, reqs, life>>

\* ... or because a context ended: the waiter leaves, and a slot that was handed
\* over meanwhile is passed on.
LeaveQueue(b) ==
    /\ pc[b] = "waiting" /\ (CtxDone(b) \/ mgr.closed)
    /\ queue' = IF b \in queue.holders THEN Free(queue, b)
                                        ELSE DropIdle([queue EXCEPT !.waiters = RemoveFirst(@, b)])
    /\ result' = [result EXCEPT ![b] = "cancelled"]
    /\ pc' = [pc EXCEPT ![b] = "returned"]
    /\ UNCHANGED <<mgr, sched, runVars, locked, trk, stored, reqs, life>>

\* Mutant of StartDump: the context is not looked at.
StartDumpAnyway(b) ==
    /\ pc[b] = "slotted"
    /\ pc' = [pc EXCEPT ![b] = "dumping"]
    /\ UNCHANGED <<mgr, queue, sched, runVars, locked, trk, result, stored, reqs, life>>

\* mongodump starts; a process is not started under a context that has ended.
StartDump(b) ==
    /\ pc[b] = "slotted" /\ ~CtxDone(b)
    /\ pc' = [pc EXCEPT ![b] = "dumping"]
    /\ UNCHANGED <<mgr, queue, sched, runVars, locked, trk, result, stored, reqs, life>>

\* The storage target cannot be used, the preparation, mongodump or the upload fails,
\* or is ended with the context: the partial archive is removed.
DumpFails(b) ==
    /\ pc[b] \in {"engine", "slotted", "dumping"}
    /\ Return(b, FailStatus(b))
    /\ UNCHANGED <<mgr, sched, runVars, locked, trk, stored, reqs, life>>

\* mongodump and the upload end well.
DumpEnds(b) ==
    /\ pc[b] = "dumping" /\ ~CtxDone(b)
    /\ pc' = [pc EXCEPT ![b] = "dumped"]
    /\ UNCHANGED <<mgr, queue, sched, runVars, locked, trk, result, stored, reqs, life>>

\* Run.Finishing, and the record is completed.
Finishing(b) ==
    /\ pc[b] = "dumped"
    /\ trk' = [trk EXCEPT ![b].finishing = TRUE]
    /\ result' = [result EXCEPT ![b] = "completed"]
    /\ pc' = [pc EXCEPT ![b] = "finishing"]
    /\ UNCHANGED <<mgr, queue, sched, runVars, locked, stored, reqs, life>>

\* Verification, synchronous copies and the fence: any of them may fail the backup.
Complete(b) ==
    /\ pc[b] = "finishing"
    /\ \E status \in {"completed", FailStatus(b)} : Return(b, status)
    /\ UNCHANGED <<mgr, sched, runVars, locked, trk, stored, reqs, life>>

\* runDatabase releases the lock before FinishBackup stores the record ...
SaveRecord(b) ==
    /\ pc[b] = "returned" /\ Multi(RunOf(b))
    /\ ReleaseLock(b)
    /\ records' = [records EXCEPT ![b] = result[b]]
    /\ pc' = [pc EXCEPT ![b] = "saved"]
    /\ UNCHANGED <<queue, sched, runVars, trk, result, summary, reqs, life>>

\* ... and stores the run with the outcome of the database before it ends.
End(b) ==
    /\ pc[b] = "saved" /\ Multi(RunOf(b))
    /\ summary' = IF OfJob(RunOf(b)) THEN [summary EXCEPT ![RunOf(b)].of[Database(b)] = result[b]] ELSE summary
    /\ trk' = [trk EXCEPT ![b].state = "ended"]
    /\ pc' = [pc EXCEPT ![b] = "ended"]
    /\ result' = [result EXCEPT ![b] = "none"]
    /\ UNCHANGED <<mgr, queue, sched, runVars, locked, records, reqs, life>>

\* finishBackup of a manual backup, which releases its lock last.
SaveManual(b) ==
    /\ pc[b] = "returned" /\ ~Multi(RunOf(b))
    /\ records' = [records EXCEPT ![b] = result[b]]
    /\ pc' = [pc EXCEPT ![b] = "saved"]
    /\ UNCHANGED <<mgr, queue, sched, runVars, locked, trk, result, summary, reqs, life>>

EndManual(b) ==
    /\ pc[b] = "saved" /\ ~Multi(RunOf(b))
    /\ ReleaseLock(b)
    /\ pc' = [pc EXCEPT ![b] = "ended"]
    /\ Over(RunOf(b))
    /\ UNCHANGED <<queue, sched, stored, reqs, life>>

\* finishMulti once every database has ended, and the release of the job.
FinishRun(r) ==
    /\ stage[r] = "running" /\ Multi(r) /\ \A d \in plan[r] : pc[<<r, d>>] = "ended"
    /\ summary' = IF OfJob(r) THEN [summary EXCEPT ![r].status = FinishStatus(summary[r].of, FALSE)] ELSE summary
    /\ sched' = [sched EXCEPT !.job = IF @ = r THEN NoRun ELSE @]
    /\ Over(r)
    /\ UNCHANGED <<mgr, queue, pc, locked, records, reqs, life>>

-----------------------------------------------------------------------------
(* Cancelling.                                                             *)

\* The backups of some runs that the registry knows as active.
Active(group) == {b \in Backups : trk[b].state = "active" /\ RunOf(b) \in group}

\* CancelBackup of one backup in progress: Registry.Cancel stops it first, then
\* lists the others of its run.
CancelBackup(q, b) ==
    /\ Up /\ Event(life.state) /\ q \in Requesters /\ reqs[q].phase = "idle"
    /\ records[b] = "in_progress" /\ trk[b].state = "active"
    /\ trk' = [trk EXCEPT ![b] = CancelRun(b)]
    /\ reqs' = [reqs EXCEPT ![q] = [phase |-> IF Multi(RunOf(b)) THEN "list" ELSE "done",
                                    kind |-> "one", run |-> RunOf(b), left |-> {}]]
    /\ UNCHANGED <<mgr, queue, sched, runVars, pc, locked, result, stored>>

ListOthers(q) ==
    /\ reqs[q].phase = "list"
    /\ reqs' = [reqs EXCEPT ![q].phase = "each", ![q].left = Active({reqs[q].run})]
    /\ UNCHANGED <<mgr, queue, sched, runVars, backupVars, stored, life>>

\* CancelJobRun (CancelJob) and ForceStop (CancelAll) list first.
CancelJobRun(q, r) ==
    /\ Up /\ Event(life.state) /\ q \in Requesters /\ reqs[q].phase = "idle" /\ OfJob(r)
    /\ Active({r}) # {}
    /\ reqs' = [reqs EXCEPT ![q] = [phase |-> "each", kind |-> "job", run |-> r, left |-> Active({x \in Runs : OfJob(x)})]]
    /\ UNCHANGED <<mgr, queue, sched, runVars, backupVars, stored>>

ForceStop(q) ==
    /\ life.state = "up" /\ Event("up") /\ q \in Requesters /\ reqs[q].phase = "idle"
    /\ reqs' = [reqs EXCEPT ![q] = [phase |-> "each", kind |-> "all", run |-> NoRun,
                                    left |-> Active(Runs)]]
    /\ UNCHANGED <<mgr, queue, sched, runVars, backupVars, stored>>

\* cancelRunAt: the timer of the window fires while the run is going, and cancels
\* its group (CancelGroup).
WindowEnds(w) ==
    /\ Up /\ Event(life.state) /\ w \in Windows /\ reqs[w].phase = "idle" /\ stage[w] \notin {"idle", "over"}
    /\ reqs' = [reqs EXCEPT ![w] = [phase |-> "each", kind |-> "window", run |-> w,
                                    left |-> Active({w})]]
    /\ UNCHANGED <<mgr, queue, sched, runVars, backupVars, stored>>

\* cancelWhere, CancelAll: the listed runs are cancelled one by one.
CancelNext(q, b) ==
    /\ reqs[q].phase = "each" /\ b \in reqs[q].left
    /\ trk' = [trk EXCEPT ![b] = CancelRun(b)]
    /\ reqs' = [reqs EXCEPT ![q].left = @ \ {b}]
    /\ UNCHANGED <<mgr, queue, sched, runVars, pc, locked, result, stored, life>>

\* The request returns; ForceStop goes on to stop the App (stopLocked).
CancelDone(q) ==
    /\ reqs[q].phase = "each" /\ reqs[q].left = {}
    /\ reqs' = [reqs EXCEPT ![q].phase = "done"]
    /\ life' = [life EXCEPT !.state = IF reqs[q].kind = "all" THEN "stopping" ELSE @]
    /\ UNCHANGED <<mgr, queue, sched, runVars, backupVars, stored>>

-----------------------------------------------------------------------------
(* The process.                                                            *)

\* PauseRuns and ResumeRuns: a drain refuses new runs.
PauseRuns ==
    /\ life.state = "up" /\ Event("up") /\ ~mgr.refusing
    /\ mgr' = [mgr EXCEPT !.refusing = TRUE] /\ sched' = [sched EXCEPT !.paused = TRUE]
    /\ UNCHANGED <<queue, runVars, backupVars, stored, reqs>>

ResumeRuns ==
    /\ life.state = "up" /\ mgr.refusing
    /\ mgr' = [mgr EXCEPT !.refusing = FALSE] /\ sched' = [sched EXCEPT !.paused = FALSE]
    /\ UNCHANGED <<queue, runVars, backupVars, stored, reqs, life>>

\* Stop: shutdownRuns ends the Manager and the scheduler side by side.
Stop ==
    /\ life.state = "up" /\ Event("stopping")
    /\ UNCHANGED <<mgr, queue, sched, runVars, backupVars, stored, reqs>>

Shutdown ==
    /\ life.state = "stopping" /\ ~mgr.closed
    /\ mgr' = [mgr EXCEPT !.closed = TRUE]
    /\ UNCHANGED <<queue, sched, runVars, backupVars, stored, reqs, life>>

StopScheduler ==
    /\ life.state = "stopping" /\ ~sched.stopped
    /\ sched' = [sched EXCEPT !.stopped = TRUE]
    /\ UNCHANGED <<mgr, queue, runVars, backupVars, stored, reqs, life>>

\* The process ends, after Stop or at any moment; nothing but the store is left.
Crash ==
    /\ Up /\ Event("down")
    /\ mgr' = NewManager /\ queue' = NewQueue /\ sched' = NewScheduler
    /\ locked' = [b \in Backups |-> FALSE]
    /\ trk' = [b \in Backups |-> NoTracker]
    /\ stage' = [r \in Runs |-> IF stage[r] = "idle" THEN "idle" ELSE "over"]
    /\ pc' = [b \in Backups |-> IF stage[RunOf(b)] = "idle" THEN "none" ELSE "ended"]
    /\ reqs' = [q \in DOMAIN reqs |-> IF reqs[q].phase = "idle" THEN reqs[q] ELSE [NoRequest EXCEPT !.phase = "lost"]]
    /\ plan' = [r \in Runs |-> {}] /\ limit' = [r \in Runs |-> 0]
    /\ result' = [b \in Backups |-> "none"]
    /\ UNCHANGED stored

\* failInterruptedRuns: first the backups in progress, one by one ...
FailInterrupted(b) ==
    /\ life.state = "down" /\ records[b] = "in_progress"
    /\ records' = [records EXCEPT ![b] = "failed"]
    /\ UNCHANGED <<mgr, queue, sched, runVars, backupVars, summary, reqs, life>>

\* Mutant of Rebuilt: the stored run is believed.
RebuiltFromRun(r) ==
    [d \in Databases |-> IF summary[r].of[d] = "in_progress" THEN "failed" ELSE summary[r].of[d]]

\* ... then the job runs, whose databases' outcomes are rebuilt from the records.
Rebuilt(r) ==
    [d \in Databases |->
        LET of == IF <<r, d>> \in Backups /\ summary[r].of[d] # "none" /\ records[<<r, d>>] # "none"
                  THEN records[<<r, d>>] ELSE summary[r].of[d]
        IN  IF of = "in_progress" THEN "failed" ELSE of]

FailInterruptedRun(r) ==
    /\ life.state = "down" /\ \A b \in Backups : records[b] # "in_progress"
    /\ summary[r].status = "running"
    /\ summary' = [summary EXCEPT ![r] = [status |-> FinishStatus(Rebuilt(r), TRUE), of |-> Rebuilt(r)]]
    /\ UNCHANGED <<mgr, queue, sched, runVars, backupVars, records, reqs, life>>

\* The App starts.
Start ==
    /\ life.state = "down"
    /\ \A b \in Backups : records[b] # "in_progress"
    /\ \A r \in Runs : summary[r].status # "running"
    /\ life' = [life EXCEPT !.state = "up"]
    /\ UNCHANGED <<mgr, queue, sched, runVars, backupVars, stored, reqs>>

-----------------------------------------------------------------------------
\* A step of a run, and of the goroutine of a backup.
RunStep(r) ==
    \/ PlanRun(r) \/ PlanFails(r) \/ PlanBusy(r)
    \/ PrepareAdHocRun(r) \/ RefuseRequest(r) \/ Go(r) \/ AbandonJobRun(r) \/ FinishRun(r)
    \/ \E b \in Backups : RunOf(b) = r /\ (AcquireLock(b) \/ Register(b) \/ AbandonManual(b) \/ Take(b))
LockStep(b) == WaitEnds(b) \/ LockDatabase(b) \/ LockFails(b)
EngineStep(b) ==
    \/ Adopt(b) \/ CancelledInQueue(b) \/ AcquireSlot(b) \/ NoSlotNeeded(b) \/ SlotRefused(b)
    \/ SlotGranted(b) \/ LeaveQueue(b)
    \/ StartDump(b) \/ DumpFails(b) \/ DumpEnds(b) \/ Finishing(b) \/ Complete(b)
EndStep(b) == AbandonBackup(b) \/ SaveRecord(b) \/ End(b) \/ SaveManual(b) \/ EndManual(b)
BackupStep(b) == LockStep(b) \/ EngineStep(b) \/ EndStep(b)

Begin(r) == StartScheduled(r) \/ StartJobRun(r) \/ StartBackups(r)
Request(q) ==
    \/ \E b \in Backups : CancelBackup(q, b) \/ CancelNext(q, b)
    \/ \E r \in Runs : CancelJobRun(q, r)
    \/ ForceStop(q) \/ ListOthers(q) \/ WindowEnds(q) \/ CancelDone(q)
Process ==
    \/ PauseRuns \/ ResumeRuns \/ Stop \/ Shutdown \/ StopScheduler \/ Crash \/ Start
    \/ \E b \in Backups : FailInterrupted(b)
    \/ \E r \in Runs : FailInterruptedRun(r)

Next ==
    \/ \E r \in Runs : Begin(r) \/ RunStep(r)
    \/ \E b \in Backups : BackupStep(b)
    \/ \E q \in DOMAIN reqs : Request(q)
    \/ Process

\* Goroutines go on, mongodump ends (its timeouts see to it).
Fairness ==
    /\ \A r \in Runs : WF_vars(RunStep(r))
    /\ \A b \in Backups : WF_vars(BackupStep(b))

Spec == Init /\ [][Next]_vars /\ Fairness

-----------------------------------------------------------------------------
(* Properties.                                                             *)

Stages == {"idle", "planning", "locking", "registering", "running", "over"}
Places == Busy \cup {"none", "unregistered", "skipped", "queued", "abandoned", "ended"}
Statuses == Final \cup {"none", "in_progress"}

Queues == [held : Nat, limit : Limits \cup {0}, waiters : Seq(Backups), holders : SUBSET Backups]
Trackers == [state : {"none", "active", "ended"}, cancelled : BOOLEAN, bound : BOOLEAN, finishing : BOOLEAN]
Summaries == [status : {"none", "running", "ok", "partial", "failed", "cancelled"}, of : [Databases -> Statuses]]
Requests == [phase : {"idle", "list", "each", "done", "lost"}, kind : {"none", "one", "job", "all", "window"},
             run : Runs \cup {NoRun}, left : SUBSET Backups]

TypeOK ==
    /\ mgr \in [active : SUBSET Databases, closed : BOOLEAN, refusing : BOOLEAN]
    /\ queue \in Queues
    /\ sched \in [stopped : BOOLEAN, paused : BOOLEAN, job : Runs \cup {NoRun}]
    /\ stage \in [Runs -> Stages] /\ plan \in [Runs -> SUBSET Databases]
    /\ limit \in [Runs -> Limits \cup {0}]
    /\ pc \in [Backups -> Places] /\ locked \in [Backups -> BOOLEAN]
    /\ trk \in [Backups -> Trackers]
    /\ result \in [Backups -> Statuses] /\ records \in [Backups -> Statuses]
    /\ summary \in [Runs -> Summaries]
    /\ reqs \in [Requesters \cup Windows -> Requests]
    /\ life \in [state : {"up", "stopping", "down"}, events : 0..MaxEvents]

\* The stage of a run agrees with its plan, with where its backups are and with the
\* process: a run is begun, registered and run as a whole.
RunStaged(r) ==
    /\ plan[r] \subseteq Selection[r]
    /\ stage[r] \notin {"registering", "running"} => plan[r] = {}
    /\ stage[r] \in {"registering", "running"} /\ OfJob(r) => plan[r] = Selection[r]
    /\ stage[r] = "planning" => OfJob(r)
    /\ stage[r] = "locking" => ~OfJob(r)
    /\ life.state = "down" => stage[r] \in {"idle", "over"}

BackupStaged(b) ==
    LET s == stage[RunOf(b)]
        planned == Database(b) \in plan[RunOf(b)]
    IN  /\ s \in {"idle", "planning"} => pc[b] = "none"
        /\ s = "locking" => pc[b] \in {"none", "unregistered", "skipped"}
        /\ s = "registering" /\ planned => pc[b] \in {"none", "unregistered", "queued", "abandoned"}
        /\ s = "running" /\ planned => pc[b] \in Busy \cup {"queued", "ended"}
        /\ s \in {"registering", "running"} /\ ~planned => pc[b] = "skipped"
        /\ s = "over" => pc[b] \in {"none", "unregistered", "skipped", "ended"}
        /\ pc[b] = "none" /\ s = "registering" => OfJob(RunOf(b))
        /\ pc[b] \in {"unregistered", "skipped"} => ~OfJob(RunOf(b))
        /\ pc[b] = "abandoned" => ~Multi(RunOf(b))
        /\ pc[b] \in Busy \cup {"queued"} <=> trk[b].state = "active"
        /\ pc[b] \in Busy => trk[b].bound

Staged ==
    /\ \A r \in Runs : RunStaged(r)
    /\ \A b \in Backups : BackupStaged(b)
    /\ life.state = "down" => \A q \in DOMAIN reqs : reqs[q].phase \in {"idle", "lost"}

\* mongodump of a database is running, or its archive being completed.
Dumping(b) == pc[b] \in {"dumping", "dumped", "finishing"}

\* A database is active in the Manager exactly while one backup owns its release.
LocksOwned ==
    /\ mgr.active = {Database(b) : b \in {c \in Backups : locked[c]}}
    /\ \A b, c \in Backups : locked[b] /\ locked[c] /\ Database(b) = Database(c) => b = c

\* A backup that has ended, was left out or was refused owns no lock, and one that is
\* on its way to mongodump owns its own unless its context has ended.
BackupLocked(b) ==
    /\ pc[b] \in {"none", "skipped", "abandoned", "ended"} \/ stage[RunOf(b)] = "over" => ~locked[b]
    /\ pc[b] = "saved" /\ Multi(RunOf(b)) => ~locked[b]
    /\ pc[b] \in {"unregistered", "queued"} /\ stage[RunOf(b)] # "over" /\ ~OfJob(RunOf(b)) => locked[b]
    /\ pc[b] \in {"held", "engine", "waiting", "slotted"} => locked[b] \/ CtxDone(b)
    /\ Dumping(b) => locked[b]

Locked == LocksOwned /\ \A b \in Backups : BackupLocked(b)

\* What is stored of a run agrees with how far it has got: a record in progress with its
\* backup, the outcome of a database in its job run with its record, once the process
\* is up again also after a crash between the two, and a running job run with the
\* claim of the job (claimJobRun).
BackupRecorded(b) ==
    LET r == RunOf(b)
        of == summary[r].of[Database(b)]
    IN  /\ pc[b] \in {"none", "unregistered", "skipped"} => records[b] = "none"
        /\ Up /\ records[b] = "in_progress" => pc[b] \in (Busy \ {"saved"}) \cup {"queued", "abandoned"}
        /\ pc[b] \in {"returned", "saved"} => result[b] \in Final
        /\ pc[b] = "saved" => records[b] = result[b]
        /\ pc[b] = "ended" /\ Up /\ OfJob(r) /\ records[b] # "none" => of = records[b]
        /\ OfJob(r) /\ records[b] # "none" =>
              \/ summary[r].status = "running" /\ of # "none"
              \/ of = records[b] /\ records[b] # "in_progress"

RunRecorded(r) ==
    /\ Up /\ summary[r].status = "running" => stage[r] \notin {"idle", "over"}
    /\ stage[r] \in {"registering", "running"} /\ OfJob(r) =>
          /\ sched.job = r /\ summary[r].status = "running"
          /\ \A d \in Selection[r] : summary[r].of[d] # "none"
    /\ stage[r] = "planning" => IF Kind[r] = "ondemand" THEN sched.job = r ELSE summary[r].status = "none"
    /\ stage[r] = "idle" \/ ~OfJob(r) => summary[r].status = "none"

Recorded == (\A b \in Backups : BackupRecorded(b)) /\ \A r \in Runs : RunRecorded(r)

\* Run locks are neither lost nor handed out twice (Manager.Acquire), and the stored
\* records say what became of their runs, whatever the stage a run is refused,
\* cancelled, stopped or crashes at.
RunsInv == TypeOK /\ Staged /\ Locked /\ Recorded

\* At most one backup of a database runs at a time, whichever way it was started
\* (BackupKey), although a backup whose run was cancelled while it waited for the
\* database goes on into the engine without the run lock (waitForDatabase).
OneBackupPerDatabase ==
    \A b, c \in Backups : Dumping(b) /\ Dumping(c) /\ Database(b) = Database(c) => b = c

\* The slots counted as held are those of backups in the engine, a backup waits in the
\* queue once, and only while the newest limit is used up: no slot stays free behind
\* a waiter that left, or is lost with one that left when it was handed over (AcquireSlot).
SlotsUsed ==
    /\ queue.held = Cardinality(queue.holders)
    /\ \A b \in queue.holders : pc[b] \in {"waiting", "slotted", "dumping", "dumped", "finishing"}
    /\ IsInjective(queue.waiters)
    /\ ToSet(queue.waiters) = {b \in Backups : pc[b] = "waiting"} \ queue.holders
    /\ queue.waiters # <<>> => queue.held >= queue.limit

\* A run stops as a whole: once a request to cancel one of its backups has been
\* answered (Registry.Cancel), mongodump is started for no further database of the
\* run, also for one that was not registered yet when the request listed the others
\* (plan.cancellation).
StopsAsAWhole ==
    [][\A b \in Backups : pc[b] # "dumping" /\ pc'[b] = "dumping" =>
          ~\E q \in Requesters : reqs[q].phase = "done" /\ reqs[q].kind = "one" /\ reqs[q].run = RunOf(b)]_vars

\* While the process is up, a record in progress and a running job run belong to a
\* run that is going on, and a job run that is over says of every database what the
\* record of its backup says, also when the process crashed between the two.
RecordsSettle ==
    /\ \A b \in Backups : /\ Up /\ records[b] = "in_progress" => stage[RunOf(b)] \in {"registering", "running"}
                          /\ pc[b] = "ended" /\ Up => records[b] # "in_progress"
    /\ \A r \in Runs : Up /\ summary[r].status = "running" => stage[r] \notin {"idle", "over"}
    /\ \A b \in Backups : LET r == RunOf(b) IN
          OfJob(r) /\ stage[r] = "over" /\ Up /\ records[b] # "none" => summary[r].of[Database(b)] = records[b]

\* Every run that is started ends, whatever is cancelled, refused or stopped: nobody
\* waits for a lock or a slot for ever.
EventuallyOver == \A r \in Runs : stage[r] # "idle" ~> stage[r] = "over"

=============================================================================
