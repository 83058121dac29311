--------------------------- MODULE JobRunsProofs ---------------------------
(***************************************************************************)
(* Proofs about the backup runs of JobRuns, for any number of runs,        *)
(* databases, cancel requests and events.  The inductive invariant IInv    *)
(* has three parts that are kept together, because the type of the slot    *)
(* queue rests on SlotsUsed, and what a request to cancel still has to     *)
(* reach rests on where RunsInv says that the backups of its run are:      *)
(*                                                                         *)
(*   RunsInv       the stage of a run agrees with its backups, the run     *)
(*                 locks with their owners, the store with the runs;       *)
(*   SlotsUsed     the slots of the connection are used up;                *)
(*   CancelsReach  a cancel request has stopped every backup of its run    *)
(*                 that could still start mongodump, or is yet to do so.   *)
(***************************************************************************)
EXTENDS JobRuns, FiniteSetTheorems, TLAPS

-----------------------------------------------------------------------------
(* The parts of a backup, and the updates of records the actions make.     *)

\* A backup is the pair of its run and of a database that the run was asked for.
LEMMA BackupFacts ==
    /\ \A b \in Backups : RunOf(b) \in Runs /\ Database(b) \in Databases /\ Database(b) \in Selection[RunOf(b)] /\ b = <<RunOf(b), Database(b)>>
    /\ \A r \in Runs : \A d \in Selection[r] : <<r, d>> \in Backups /\ d \in Databases
    /\ \A r, d : RunOf(<<r, d>>) = r /\ Database(<<r, d>>) = d
BY JobRunsConstants DEF Backups, RunOf, Database

\* Registering, binding, cancelling, finishing and ending make trackers of trackers
\* (runs.Run).
LEMMA TrackerUpdates ==
    /\ NoTracker \in Trackers /\ [NoTracker EXCEPT !.state = "active"] \in Trackers
    /\ \A t \in Trackers :
          /\ [t EXCEPT !.state = "ended"] \in Trackers /\ [t EXCEPT !.cancelled = TRUE] \in Trackers
          /\ [t EXCEPT !.bound = TRUE] \in Trackers /\ [t EXCEPT !.finishing = TRUE] \in Trackers
BY DEF Trackers, NoTracker

\* Setting a status or the outcome of a database makes a job run of a job run.
LEMMA SummaryUpdates ==
    /\ \A s \in Summaries :
          /\ s.of \in [Databases -> Statuses]
          /\ \A x \in {"running", "ok", "partial", "failed", "cancelled"} : [s EXCEPT !.status = x] \in Summaries
          /\ \A d \in Databases, x \in Statuses : [s EXCEPT !.of[d] = x] \in Summaries
    /\ \A x \in {"running", "ok", "partial", "failed", "cancelled"}, f \in [Databases -> Statuses] :
          [status |-> x, of |-> f] \in Summaries
BY DEF Summaries

\* Beginning, listing, going on with, ending and losing a cancel request make requests.
LEMMA RequestUpdates ==
    /\ [NoRequest EXCEPT !.phase = "lost"] \in Requests
    /\ \A p \in {"list", "each", "done"}, k \in {"one", "job", "all", "window"}, r \in Runs \cup {NoRun}, S \in SUBSET Backups :
          [phase |-> p, kind |-> k, run |-> r, left |-> S] \in Requests
    /\ \A q \in Requests :
          /\ [q EXCEPT !.phase = "done"] \in Requests
          /\ \A S \in SUBSET Backups : [q EXCEPT !.phase = "each", !.left = S] \in Requests
          /\ \A b \in Backups : [q EXCEPT !.left = @ \ {b}] \in Requests
BY DEF Requests, NoRequest

\* JobRun.Finish gives a run one of the four final statuses.
LEMMA FinishType ==
    ASSUME NEW of, NEW e
    PROVE  FinishStatus(of, e) \in {"ok", "partial", "failed", "cancelled"}
BY DEF FinishStatus

\* The outcomes rebuilt after a crash are statuses of the databases.
LEMMA RebuiltType == ASSUME TypeOK, NEW r \in Runs PROVE Rebuilt(r) \in [Databases -> Statuses]
<1>1. summary[r].of \in [Databases -> Statuses]
  BY SummaryUpdates DEF TypeOK
<1> QED
  BY <1>1 DEF TypeOK, Rebuilt, Statuses, Final

\* An event leaves the process in the state it says, within the bound on events.
LEMMA EventType ==
    ASSUME NEW s \in {"up", "stopping", "down"}, TypeOK, Event(s) 
    PROVE  life' \in [state : {"up", "stopping", "down"}, events : 0..MaxEvents] /\ life'.state = s
BY JobRunsConstants DEF Event, TypeOK

\* A manual backup is the only backup of its run.
LEMMA ManualOne ==
    ASSUME NEW b \in Backups, NEW c \in Backups, ~Multi(RunOf(b)), RunOf(c) = RunOf(b)
    PROVE  c = b
<1>1. Cardinality(Selection[RunOf(b)]) = 1 /\ IsFiniteSet(Selection[RunOf(b)])
  BY BackupFacts, FS_Subset, JobRunsConstants DEF Multi
<1>2. PICK d : Selection[RunOf(b)] = {d}
  BY <1>1, FS_Singleton
<1> QED
  BY <1>2, BackupFacts

\* Run.cancelRun changes nothing but the cancelled flag, never clears it, and sets
\* it for an active backup unless that is finishing or its context has ended.
LEMMA CancelRunKeeps ==
    ASSUME TypeOK, NEW b \in Backups
    PROVE  /\ CancelRun(b) \in Trackers
           /\ CancelRun(b).state = trk[b].state /\ CancelRun(b).bound = trk[b].bound
           /\ CancelRun(b).finishing = trk[b].finishing
           /\ trk[b].cancelled => CancelRun(b).cancelled
           /\ CancelRun(b).cancelled => trk[b].cancelled \/ trk[b].state = "active"
           /\ trk[b].state = "active" => CancelRun(b).cancelled \/ trk[b].finishing \/ CtxDone(b)
<1> DEFINE stops == trk[b].state = "active" /\ ~trk[b].finishing /\ ~CtxDone(b)
<1>1. trk[b] \in Trackers
  BY DEF TypeOK
<1>2. CASE stops
  <2>1. CancelRun(b) = [trk[b] EXCEPT !.cancelled = TRUE]
    BY <1>2 DEF CancelRun
  <2> QED
    BY <1>1, <1>2, <2>1 DEF Trackers
<1>3. CASE ~stops
  <2>1. CancelRun(b) = trk[b]
    BY <1>3 DEF CancelRun
  <2> QED
    BY <1>1, <1>3, <2>1 DEF Trackers, CtxDone
<1> QED
  BY <1>2, <1>3

-----------------------------------------------------------------------------
(* What a step has to show of each part of RunsInv.                        *)

\* A step of one backup keeps the stages when it keeps them for that backup.
LEMMA StagedStep ==
    ASSUME Staged, NEW b \in Backups, UNCHANGED <<stage, plan, life, reqs>>, BackupStaged(b)',
           \A c \in Backups \ {b} : pc'[c] = pc[c] /\ trk'[c].state = trk[c].state /\ trk'[c].bound = trk[c].bound
    PROVE  Staged'
<1>1. \A r \in Runs : RunStaged(r)'
  BY DEF Staged, RunStaged
<1>2. ASSUME NEW c \in Backups, c # b PROVE BackupStaged(c)'
  BY <1>2 DEF Staged, BackupStaged
<1> QED
  BY <1>1, <1>2 DEF Staged

\* A step that moves no backup and leaves the process up keeps the stages.
LEMMA StagedRequest ==
    ASSUME Staged, TypeOK, UNCHANGED <<stage, plan, pc>>, Up, Up',
           \A c \in Backups : trk'[c].state = trk[c].state /\ trk'[c].bound = trk[c].bound
    PROVE  Staged'
BY DEF Staged, RunStaged, BackupStaged, Up, TypeOK

\* A step inside runDatabase keeps the stages: the backup stays busy and bound.
LEMMA StagedMove ==
    ASSUME Staged, TypeOK, NEW b \in Backups, pc[b] \in Busy, NEW p \in Busy, pc' = [pc EXCEPT ![b] = p],
           UNCHANGED <<stage, plan, life, reqs>>,
           \A c \in Backups : trk'[c].state = trk[c].state /\ trk'[c].bound = trk[c].bound
    PROVE  Staged'
<1>1. pc'[b] = p /\ \A c \in Backups \ {b} : pc'[c] = pc[c]
  BY DEF TypeOK
<1>2. BackupStaged(b)'
  BY <1>1 DEF Staged, BackupStaged, Busy, Multi, OfJob
<1> QED
  BY <1>1, <1>2, StagedStep

\* A context that has ended stays ended while the process lives.
LEMMA CtxStays ==
    ASSUME TypeOK, NEW c \in Backups, CtxDone(c), trk[c].bound => trk'[c].bound,
           trk[c].cancelled => trk'[c].cancelled, mgr.closed => mgr'.closed, sched.stopped => sched'.stopped
    PROVE  CtxDone(c)'
BY BackupFacts DEF TypeOK, CtxDone, Stopped, Trackers

\* A step of one backup that leaves the run locks alone keeps Locked when it keeps
\* it for that backup.
LEMMA LockedStep ==
    ASSUME Locked, NEW b \in Backups, mgr'.active = mgr.active, UNCHANGED <<locked, stage>>,
           \A c \in Backups \ {b} : pc'[c] = pc[c] /\ (CtxDone(c) => CtxDone(c)'), BackupLocked(b)'
    PROVE  Locked'
<1>1. LocksOwned'
  BY DEF Locked, LocksOwned
<1>2. ASSUME NEW c \in Backups, c # b PROVE BackupLocked(c)'
  BY <1>2 DEF Locked, BackupLocked, Dumping
<1> QED
  BY <1>1, <1>2 DEF Locked

\* Manager.Acquire of a free database keeps the ownership of locks.
LEMMA LockTaken ==
    ASSUME TypeOK, LocksOwned, NEW b \in Backups, Database(b) \notin mgr.active,
           mgr'.active = mgr.active \cup {Database(b)}, locked' = [locked EXCEPT ![b] = TRUE]
    PROVE  LocksOwned'
BY DEF TypeOK, LocksOwned

\* The release of a lock keeps the ownership of locks, also by a backup that owns none.
LEMMA LockReleased ==
    ASSUME TypeOK, LocksOwned, NEW b \in Backups, ReleaseLock(b)
    PROVE  LocksOwned'
BY DEF TypeOK, LocksOwned, ReleaseLock

\* releaseAll and releaseHeld, which release the locks of several backups at once, keep
\* the ownership of locks.
LEMMA LocksReleased ==
    ASSUME TypeOK, LocksOwned, NEW S \in SUBSET Backups,
           mgr'.active = mgr.active \ {Database(b) : b \in {c \in S : locked[c]}},
           locked' = [c \in Backups |-> locked[c] /\ c \notin S]
    PROVE  LocksOwned'
<1>1. \A c \in Backups : locked'[c] <=> locked[c] /\ c \notin S
  BY DEF TypeOK
<1>2. ASSUME NEW d PROVE d \in mgr'.active <=> \E c \in Backups : locked'[c] /\ Database(c) = d
  <2>1. d \in mgr.active <=> \E c \in Backups : locked[c] /\ Database(c) = d
    BY DEF LocksOwned
  <2>2. d \in mgr'.active <=> d \in mgr.active /\ ~\E c \in S : locked[c] /\ Database(c) = d
    OBVIOUS
  <2> QED
    BY <1>1, <2>1, <2>2 DEF LocksOwned
<1>3. mgr'.active = {Database(b) : b \in {c \in Backups : locked'[c]}}
  BY <1>2
<1> QED
  BY <1>1, <1>3 DEF LocksOwned

\* A step of one backup keeps Recorded when it keeps it for that backup.
LEMMA RecordedStep ==
    ASSUME Recorded, NEW b \in Backups, UNCHANGED <<summary, stage, sched, life>>, BackupRecorded(b)',
           \A c \in Backups \ {b} : pc'[c] = pc[c] /\ records'[c] = records[c] /\ result'[c] = result[c]
    PROVE  Recorded'
<1>1. \A r \in Runs : RunRecorded(r)'
  BY DEF Recorded, RunRecorded, Up
<1>2. ASSUME NEW c \in Backups, c # b PROVE BackupRecorded(c)'
  BY <1>2 DEF Recorded, BackupRecorded, Up
<1> QED
  BY <1>1, <1>2 DEF Recorded

\* A step that moves no backup and stores nothing keeps Recorded.
LEMMA RecordedSame ==
    ASSUME Recorded, UNCHANGED <<pc, records, result, summary, stage>>, Up' => Up, sched'.job = sched.job
    PROVE  Recorded'
BY DEF Recorded, RunRecorded, BackupRecorded

\* A step of one run keeps Recorded when it keeps it for that run and its backups, and
\* takes the job's claim from no other run.
LEMMA RecordedRun ==
    ASSUME Recorded, NEW r \in Runs, UNCHANGED life, RunRecorded(r)',
           \A x \in Runs \ {r} : /\ summary'[x] = summary[x] /\ stage'[x] = stage[x]
                                 /\ sched.job = x => sched'.job = x,
           \A c \in Backups : RunOf(c) # r => pc'[c] = pc[c] /\ records'[c] = records[c] /\ result'[c] = result[c],
           \A c \in Backups : RunOf(c) = r => BackupRecorded(c)'
    PROVE  Recorded'
<1>1. ASSUME NEW x \in Runs, x # r PROVE RunRecorded(x)'
  BY <1>1 DEF Recorded, RunRecorded, Up
<1>2. ASSUME NEW c \in Backups, RunOf(c) # r PROVE BackupRecorded(c)'
  BY <1>2, BackupFacts DEF Recorded, BackupRecorded, Up
<1> QED
  BY <1>1, <1>2 DEF Recorded

\* Storing a run's status leaves its databases' outcomes and the other runs alone.
LEMMA SummaryFields ==
    ASSUME TypeOK, NEW r \in Runs, NEW x, summary' = [summary EXCEPT ![r].status = x]
    PROVE  /\ summary'[r].status = x /\ summary'[r].of = summary[r].of
           /\ \A y \in Runs \ {r} : summary'[y] = summary[y]
BY DEF TypeOK, Summaries

-----------------------------------------------------------------------------
(* The parts of RunsInv are kept by every action.                          *)

\* Every action keeps the types, given that of the slot queue (SlotsNext).
LEMMA TypeNext ==
   ASSUME TypeOK, queue' \in Queues, Next
   PROVE TypeOK'
<1> USE BackupFacts DEF TypeOK, Stages, Places, Busy, Statuses, Final, runVars, backupVars,
   stored

<1>1. ASSUME NEW r \in Runs, StartScheduled(r) PROVE TypeOK'
  BY <1>1 DEF StartScheduled
<1>2. ASSUME NEW r \in Runs, StartJobRun(r) PROVE TypeOK'
  <2>1. summary' \in [Runs -> Summaries]
    BY <1>2, SummaryUpdates DEF StartJobRun
  <2> QED
    BY <1>2, <2>1, TrackerUpdates DEF StartJobRun
<1>3. ASSUME NEW r \in Runs, StartBackups(r) PROVE TypeOK'
  BY <1>3 DEF StartBackups
<1>4. ASSUME NEW r \in Runs, PlanRun(r) PROVE TypeOK'
  <2>1. summary' \in [Runs -> Summaries]
    BY <1>4, SummaryUpdates DEF PlanRun
  <2>2. Selection[r] \subseteq Databases
    BY BackupFacts
  <2>3. limit' \in [Runs -> Limits \cup {0}]
    BY <1>4 DEF PlanRun
  <2> QED
    BY <1>4, <2>1, <2>2, <2>3 DEF PlanRun
<1>5. ASSUME NEW r \in Runs, PlanFails(r) PROVE TypeOK'
  <2>0. FinishStatus(summary[r].of, TRUE) \in {"ok", "partial", "failed", "cancelled"}
    BY FinishType
  <2>1. summary' \in [Runs -> Summaries]
    BY <1>5, <2>0, SummaryUpdates DEF PlanFails
  <2> QED
    BY <1>5, <2>1, TrackerUpdates DEF PlanFails
<1>6. ASSUME NEW r \in Runs, PlanBusy(r) PROVE TypeOK'
  BY <1>6 DEF PlanBusy
<1>7. ASSUME NEW r \in Runs, PrepareAdHocRun(r) PROVE TypeOK'
  BY <1>7 DEF PrepareAdHocRun
<1>8. ASSUME NEW r \in Runs, RefuseRequest(r) PROVE TypeOK'
  BY <1>8, TrackerUpdates DEF RefuseRequest, Over
<1>9. ASSUME NEW r \in Runs, Go(r) PROVE TypeOK'
  BY <1>9 DEF Go, Registered
<1>10. ASSUME NEW r \in Runs, AbandonJobRun(r) PROVE TypeOK'
  BY <1>10, TrackerUpdates DEF AbandonJobRun, Over, Registered
<1>11. ASSUME NEW r \in Runs, FinishRun(r) PROVE TypeOK'
  <2>0. FinishStatus(summary[r].of, FALSE) \in {"ok", "partial", "failed", "cancelled"}
    BY FinishType
  <2>1. summary' \in [Runs -> Summaries]
    BY <1>11, <2>0, SummaryUpdates DEF FinishRun
  <2> QED
    BY <1>11, <2>1, TrackerUpdates DEF FinishRun, Over
<1>12. ASSUME NEW b \in Backups, AcquireLock(b) PROVE TypeOK'
  BY ZenonT(60), <1>12 DEF AcquireLock
<1>13. ASSUME NEW b \in Backups, Register(b) PROVE TypeOK'
  BY <1>13, TrackerUpdates DEF Register
<1>14. ASSUME NEW b \in Backups, AbandonManual(b) PROVE TypeOK'
  BY <1>14, TrackerUpdates DEF AbandonManual, ReleaseLock, Registered
<1>15. ASSUME NEW b \in Backups, Take(b) PROVE TypeOK'
  BY <1>15, TrackerUpdates DEF Take
<1>16. ASSUME NEW b \in Backups, WaitEnds(b) PROVE TypeOK'
  BY <1>16 DEF WaitEnds
<1>17. ASSUME NEW b \in Backups, LockDatabase(b) PROVE TypeOK'
  BY ZenonT(60), <1>17 DEF LockDatabase
<1>18. ASSUME NEW b \in Backups, LockFails(b) PROVE TypeOK'
  BY <1>18 DEF LockFails
<1>19. ASSUME NEW b \in Backups, Adopt(b) PROVE TypeOK'
  BY <1>19, TrackerUpdates DEF Adopt, CancelRun
<1>20. ASSUME NEW b \in Backups, CancelledInQueue(b) PROVE TypeOK'
  BY <1>20 DEF CancelledInQueue, Return
<1>21. ASSUME NEW b \in Backups, AcquireSlot(b) PROVE TypeOK'
  BY <1>21 DEF AcquireSlot
<1>22. ASSUME NEW b \in Backups, NoSlotNeeded(b) PROVE TypeOK'
  BY <1>22 DEF NoSlotNeeded
<1>23. ASSUME NEW b \in Backups, SlotRefused(b) PROVE TypeOK'
  BY <1>23 DEF SlotRefused, Return
<1>24. ASSUME NEW b \in Backups, SlotGranted(b) PROVE TypeOK'
  BY <1>24 DEF SlotGranted
<1>25. ASSUME NEW b \in Backups, LeaveQueue(b) PROVE TypeOK'
  BY <1>25 DEF LeaveQueue
<1>26. ASSUME NEW b \in Backups, StartDump(b) PROVE TypeOK'
  BY <1>26 DEF StartDump
<1>27. ASSUME NEW b \in Backups, DumpFails(b) PROVE TypeOK'
  BY <1>27 DEF DumpFails, Return, FailStatus
<1>28. ASSUME NEW b \in Backups, DumpEnds(b) PROVE TypeOK'
  BY <1>28 DEF DumpEnds
<1>29. ASSUME NEW b \in Backups, Finishing(b) PROVE TypeOK'
  BY <1>29, TrackerUpdates DEF Finishing
<1>30. ASSUME NEW b \in Backups, Complete(b) PROVE TypeOK'
  BY <1>30 DEF Complete, Return, FailStatus
<1>31. ASSUME NEW b \in Backups, AbandonBackup(b) PROVE TypeOK'
  BY <1>31, TrackerUpdates DEF AbandonBackup, Over
<1>32. ASSUME NEW b \in Backups, SaveRecord(b) PROVE TypeOK'
  BY <1>32 DEF SaveRecord, ReleaseLock
<1>33. ASSUME NEW b \in Backups, End(b) PROVE TypeOK'
  <2>1. summary' \in [Runs -> Summaries]
    BY <1>33, SummaryUpdates DEF End
  <2> QED
    BY <1>33, <2>1, TrackerUpdates DEF End
<1>34. ASSUME NEW b \in Backups, SaveManual(b) PROVE TypeOK'
  BY <1>34 DEF SaveManual
<1>35. ASSUME NEW b \in Backups, EndManual(b) PROVE TypeOK'
  BY <1>35, TrackerUpdates DEF EndManual, Over, ReleaseLock
<1>36. ASSUME NEW q \in DOMAIN reqs, NEW b \in Backups, CancelBackup(q, b) PROVE TypeOK'
  <2>1. reqs' \in [Requesters \cup Windows -> Requests]
    BY <1>36, RequestUpdates DEF CancelBackup
  <2> QED
    BY <1>36, <2>1, EventType, TrackerUpdates DEF CancelBackup, CancelRun
<1>37. ASSUME NEW q \in DOMAIN reqs, NEW b \in Backups, CancelNext(q, b) PROVE TypeOK'
  <2>1. reqs' \in [Requesters \cup Windows -> Requests]
    BY <1>37, RequestUpdates DEF CancelNext
  <2> QED
    BY <1>37, <2>1, TrackerUpdates DEF CancelNext, CancelRun
<1>38. ASSUME NEW q \in DOMAIN reqs, NEW r \in Runs, CancelJobRun(q, r) PROVE TypeOK'
  <2>1. reqs' \in [Requesters \cup Windows -> Requests]
    BY <1>38, RequestUpdates DEF CancelJobRun, Active
  <2> QED
    BY <1>38, <2>1, EventType DEF CancelJobRun, Active
<1>39. ASSUME NEW q \in DOMAIN reqs, ForceStop(q) PROVE TypeOK'
  <2>1. reqs' \in [Requesters \cup Windows -> Requests]
    BY <1>39, RequestUpdates DEF ForceStop, Active
  <2> QED
    BY <1>39, <2>1, EventType DEF ForceStop, Active
<1>40. ASSUME NEW q \in DOMAIN reqs, ListOthers(q) PROVE TypeOK'
  <2>1. reqs' \in [Requesters \cup Windows -> Requests]
    BY <1>40, RequestUpdates DEF ListOthers, Active
  <2> QED
    BY <1>40, <2>1 DEF ListOthers, Active
<1>41. ASSUME NEW q \in DOMAIN reqs, WindowEnds(q) PROVE TypeOK'
  <2>1. reqs' \in [Requesters \cup Windows -> Requests]
    BY <1>41, JobRunsConstants, RequestUpdates DEF WindowEnds, Active
  <2> QED
    BY <1>41, <2>1, EventType DEF WindowEnds, Active
<1>42. ASSUME NEW q \in DOMAIN reqs, CancelDone(q) PROVE TypeOK'
  <2>1. reqs' \in [Requesters \cup Windows -> Requests]
    BY <1>42, RequestUpdates DEF CancelDone
  <2> QED
    BY <1>42, <2>1 DEF CancelDone
<1>43. CASE PauseRuns
  BY <1>43, EventType DEF PauseRuns
<1>44. CASE ResumeRuns
  BY <1>44 DEF ResumeRuns
<1>45. CASE Stop
  BY <1>45, EventType DEF Stop
<1>46. CASE Shutdown
  BY <1>46 DEF Shutdown
<1>47. CASE StopScheduler
  BY <1>47 DEF StopScheduler
<1>48. CASE Crash
  <2>1. life' \in [state : {"up", "stopping", "down"}, events : 0..MaxEvents]
    BY <1>48, EventType DEF Crash
  <2>2. trk' \in [Backups -> Trackers] /\ reqs' \in [Requesters \cup Windows -> Requests]
    BY <1>48, TrackerUpdates, RequestUpdates DEF Crash
  <2> QED
    BY <1>48, <2>1, <2>2 DEF Crash, NewManager, NewScheduler
<1>49. CASE Start
  BY <1>49 DEF Start
<1>50. ASSUME NEW b \in Backups, FailInterrupted(b) PROVE TypeOK'
  BY <1>50 DEF FailInterrupted
<1>51. ASSUME NEW r \in Runs, FailInterruptedRun(r) PROVE TypeOK'
  <2>0. FinishStatus(Rebuilt(r), TRUE) \in {"ok", "partial", "failed", "cancelled"}
    BY FinishType
  <2>1. summary' \in [Runs -> Summaries]
    BY <1>51, <2>0, SummaryUpdates, RebuiltType DEF FailInterruptedRun
  <2> QED
    BY <1>51, <2>1, TrackerUpdates DEF FailInterruptedRun
<1> QED
  BY <1>1, <1>2, <1>3, <1>4, <1>5, <1>6, <1>7, <1>8, <1>9, <1>10, <1>11, <1>12, <1>13, <1>14,
     <1>15, <1>16, <1>17, <1>18, <1>19, <1>20, <1>21, <1>22, <1>23, <1>24, <1>25, <1>26, <1>27,
     <1>28, <1>29, <1>30, <1>31, <1>32, <1>33, <1>34, <1>35, <1>36, <1>37, <1>38, <1>39, <1>40,
     <1>41, <1>42, <1>43, <1>44, <1>45, <1>46, <1>47, <1>48, <1>49, <1>50, <1>51
     DEF Next, Begin, RunStep, BackupStep, LockStep, EngineStep, EndStep, Request, Process

\* Every action keeps the stages of the runs in step with their backups: a run is begun,
\* registered and run as a whole, whatever is refused or crashes.
LEMMA StagedNext ==
   ASSUME RunsInv, TypeOK', Next
   PROVE Staged'
<1> USE BackupFacts DEF RunsInv, TypeOK, Staged, RunStaged, BackupStaged, Trackers, Stages,
   Places, Busy, runVars, backupVars, stored, OfJob, Multi, NoTracker

<1>1. ASSUME NEW r \in Runs, StartScheduled(r) PROVE Staged'
  <2>1. \A x \in Runs : RunStaged(x)'
    BY <1>1 DEF StartScheduled, Up
  <2>2. ASSUME NEW c \in Backups PROVE BackupStaged(c)'
    BY <1>1 DEF StartScheduled, Up
  <2> QED
    BY <1>1, <2>1, <2>2 DEF StartScheduled, Up
<1>2. ASSUME NEW r \in Runs, StartJobRun(r) PROVE Staged'
  <2>1. \A x \in Runs : RunStaged(x)'
    BY <1>2 DEF StartJobRun, Up
  <2>2. ASSUME NEW c \in Backups PROVE BackupStaged(c)'
    BY <1>2 DEF StartJobRun, Up
  <2> QED
    BY <1>2, <2>1, <2>2 DEF StartJobRun, Up
<1>3. ASSUME NEW r \in Runs, StartBackups(r) PROVE Staged'
  <2>1. \A x \in Runs : RunStaged(x)'
    BY <1>3 DEF StartBackups, Up
  <2>2. ASSUME NEW c \in Backups PROVE BackupStaged(c)'
    BY <1>3 DEF StartBackups, Up
  <2> QED
    BY <1>3, <2>1, <2>2 DEF StartBackups, Up
<1>4. ASSUME NEW r \in Runs, PlanRun(r) PROVE Staged'
  <2>1. \A x \in Runs : RunStaged(x)'
    BY <1>4 DEF PlanRun
  <2>2. ASSUME NEW c \in Backups PROVE BackupStaged(c)'
    BY <1>4 DEF PlanRun
  <2> QED
    BY <1>4, <2>1, <2>2 DEF PlanRun
<1>5. ASSUME NEW r \in Runs, PlanFails(r) PROVE Staged'
  <2>1. \A x \in Runs : RunStaged(x)'
    BY <1>5 DEF PlanFails
  <2>2. ASSUME NEW c \in Backups PROVE BackupStaged(c)'
    BY <1>5 DEF PlanFails
  <2> QED
    BY <1>5, <2>1, <2>2 DEF PlanFails
<1>6. ASSUME NEW r \in Runs, PlanBusy(r) PROVE Staged'
  <2>1. \A x \in Runs : RunStaged(x)'
    BY <1>6 DEF PlanBusy
  <2>2. ASSUME NEW c \in Backups PROVE BackupStaged(c)'
    BY <1>6 DEF PlanBusy
  <2> QED
    BY <1>6, <2>1, <2>2 DEF PlanBusy
<1>7. ASSUME NEW r \in Runs, PrepareAdHocRun(r) PROVE Staged'
  <2>1. \A x \in Runs : RunStaged(x)'
    BY <1>7 DEF PrepareAdHocRun
  <2>2. ASSUME NEW c \in Backups, RunOf(c) = r PROVE BackupStaged(c)'
    <3>1. c = <<r, Database(c)>> /\ Database(c) \in Selection[r] /\ pc[c] \in {"unregistered", "skipped"}
      BY <1>7, <2>2 DEF PrepareAdHocRun
    <3>2. Database(c) \in plan'[r] <=> locked[c]
      BY <1>7, <3>1 DEF PrepareAdHocRun
    <3>3. locked[c] <=> pc[c] = "unregistered"
      BY <1>7, <2>2, <3>1 DEF PrepareAdHocRun, Locked, BackupLocked
    <3>4. stage'[r] = IF plan'[r] = {} THEN "over" ELSE "registering"
      BY <1>7 DEF PrepareAdHocRun
    <3> QED
      BY <1>7, <2>2, <3>1, <3>2, <3>3, <3>4 DEF PrepareAdHocRun
  <2>3. ASSUME NEW c \in Backups, RunOf(c) # r PROVE BackupStaged(c)'
    BY <1>7, <2>3 DEF PrepareAdHocRun
  <2> QED
    BY <1>7, <2>1, <2>2, <2>3 DEF PrepareAdHocRun
<1>8. ASSUME NEW r \in Runs, RefuseRequest(r) PROVE Staged'
  <2>1. \A x \in Runs : RunStaged(x)'
    BY <1>8 DEF RefuseRequest, Over
  <2>2. ASSUME NEW c \in Backups PROVE BackupStaged(c)'
    BY <1>8 DEF RefuseRequest, Over
  <2> QED
    BY <1>8, <2>1, <2>2 DEF RefuseRequest, Over
<1>9. ASSUME NEW r \in Runs, Go(r) PROVE Staged'
  <2>1. \A x \in Runs : RunStaged(x)'
    BY <1>9 DEF Go, Registered
  <2>2. ASSUME NEW c \in Backups PROVE BackupStaged(c)'
    BY <1>9 DEF Go, Registered
  <2> QED
    BY <1>9, <2>1, <2>2 DEF Go, Registered
<1>10. ASSUME NEW r \in Runs, AbandonJobRun(r) PROVE Staged'
  <2>1. \A x \in Runs : RunStaged(x)'
    BY <1>10 DEF AbandonJobRun, Over, Registered
  <2>2. ASSUME NEW c \in Backups PROVE BackupStaged(c)'
    BY <1>10 DEF AbandonJobRun, Over, Registered
  <2> QED
    BY <1>10, <2>1, <2>2 DEF AbandonJobRun, Over, Registered
<1>11. ASSUME NEW r \in Runs, FinishRun(r) PROVE Staged'
  <2>1. \A x \in Runs : RunStaged(x)'
    BY <1>11 DEF FinishRun, Over
  <2>2. ASSUME NEW c \in Backups PROVE BackupStaged(c)'
    BY <1>11 DEF FinishRun, Over
  <2> QED
    BY <1>11, <2>1, <2>2 DEF FinishRun, Over
<1>12. ASSUME NEW b \in Backups, AcquireLock(b) PROVE Staged'
  <2>1. pc'[b] \in {"unregistered", "skipped"} /\ pc[b] = "none" /\ stage[RunOf(b)] = "locking" /\ UNCHANGED <<trk, stage, plan>>
    BY <1>12 DEF AcquireLock
  <2>2. BackupStaged(b)'
    BY <2>1
  <2> QED
    BY <1>12, <2>2, StagedStep DEF AcquireLock
<1>13. ASSUME NEW b \in Backups, Register(b) PROVE Staged'
  <2>1. /\ pc'[b] = "queued" /\ trk'[b].state = "active" /\ Database(b) \in plan[RunOf(b)]
        /\ stage[RunOf(b)] = "registering" /\ UNCHANGED <<stage, plan>>
    BY <1>13 DEF Register, Unregistered
  <2>2. BackupStaged(b)'
    BY <2>1
  <2> QED
    BY <1>13, <2>2, StagedStep DEF Register
<1>14. ASSUME NEW b \in Backups, AbandonManual(b) PROVE Staged'
  <2>1. BackupStaged(b)'
    BY <1>14 DEF AbandonManual, ReleaseLock, Registered
  <2> QED
    BY <1>14, <2>1, StagedStep DEF AbandonManual, ReleaseLock, Registered
<1>15. ASSUME NEW b \in Backups, Take(b) PROVE Staged'
  <2>1. BackupStaged(b)'
    BY <1>15 DEF Take
  <2> QED
    BY <1>15, <2>1, StagedStep DEF Take
<1>16. ASSUME NEW b \in Backups, WaitEnds(b) PROVE Staged'
  <2>1. \A c \in Backups : trk'[c].state = trk[c].state /\ trk'[c].bound = trk[c].bound
    BY <1>16 DEF WaitEnds
  <2> QED
    BY <1>16, <2>1, StagedMove DEF WaitEnds
<1>17. ASSUME NEW b \in Backups, LockDatabase(b) PROVE Staged'
  <2>1. \A c \in Backups : trk'[c].state = trk[c].state /\ trk'[c].bound = trk[c].bound
    BY <1>17 DEF LockDatabase
  <2> QED
    BY <1>17, <2>1, StagedMove DEF LockDatabase
<1>18. ASSUME NEW b \in Backups, LockFails(b) PROVE Staged'
  <2>1. \A c \in Backups : trk'[c].state = trk[c].state /\ trk'[c].bound = trk[c].bound
    BY <1>18 DEF LockFails
  <2> QED
    BY <1>18, <2>1, StagedMove DEF LockFails
<1>19. ASSUME NEW b \in Backups, Adopt(b) PROVE Staged'
  <2>1. \A c \in Backups : trk'[c].state = trk[c].state /\ trk'[c].bound = trk[c].bound
    BY <1>19, CancelRunKeeps DEF Adopt
  <2> QED
    BY <1>19, <2>1, StagedMove DEF Adopt
<1>20. ASSUME NEW b \in Backups, CancelledInQueue(b) PROVE Staged'
  <2>1. \A c \in Backups : trk'[c].state = trk[c].state /\ trk'[c].bound = trk[c].bound
    BY <1>20 DEF CancelledInQueue
  <2> QED
    BY <1>20, <2>1, StagedMove DEF CancelledInQueue, Return
<1>21. ASSUME NEW b \in Backups, AcquireSlot(b) PROVE Staged'
  <2>1. \A c \in Backups : trk'[c].state = trk[c].state /\ trk'[c].bound = trk[c].bound
    BY <1>21 DEF AcquireSlot
  <2> QED
    BY <1>21, <2>1, StagedMove DEF AcquireSlot
<1>22. ASSUME NEW b \in Backups, NoSlotNeeded(b) PROVE Staged'
  <2>1. \A c \in Backups : trk'[c].state = trk[c].state /\ trk'[c].bound = trk[c].bound
    BY <1>22 DEF NoSlotNeeded
  <2> QED
    BY <1>22, <2>1, StagedMove DEF NoSlotNeeded
<1>23. ASSUME NEW b \in Backups, SlotRefused(b) PROVE Staged'
  <2>1. \A c \in Backups : trk'[c].state = trk[c].state /\ trk'[c].bound = trk[c].bound
    BY <1>23 DEF SlotRefused
  <2> QED
    BY <1>23, <2>1, StagedMove DEF SlotRefused, Return
<1>24. ASSUME NEW b \in Backups, SlotGranted(b) PROVE Staged'
  <2>1. \A c \in Backups : trk'[c].state = trk[c].state /\ trk'[c].bound = trk[c].bound
    BY <1>24 DEF SlotGranted
  <2> QED
    BY <1>24, <2>1, StagedMove DEF SlotGranted
<1>25. ASSUME NEW b \in Backups, LeaveQueue(b) PROVE Staged'
  <2>1. \A c \in Backups : trk'[c].state = trk[c].state /\ trk'[c].bound = trk[c].bound
    BY <1>25 DEF LeaveQueue
  <2> QED
    BY <1>25, <2>1, StagedMove DEF LeaveQueue
<1>26. ASSUME NEW b \in Backups, StartDump(b) PROVE Staged'
  <2>1. \A c \in Backups : trk'[c].state = trk[c].state /\ trk'[c].bound = trk[c].bound
    BY <1>26 DEF StartDump
  <2> QED
    BY <1>26, <2>1, StagedMove DEF StartDump
<1>27. ASSUME NEW b \in Backups, DumpFails(b) PROVE Staged'
  <2>1. \A c \in Backups : trk'[c].state = trk[c].state /\ trk'[c].bound = trk[c].bound
    BY <1>27 DEF DumpFails
  <2> QED
    BY <1>27, <2>1, StagedMove DEF DumpFails, Return
<1>28. ASSUME NEW b \in Backups, DumpEnds(b) PROVE Staged'
  <2>1. \A c \in Backups : trk'[c].state = trk[c].state /\ trk'[c].bound = trk[c].bound
    BY <1>28 DEF DumpEnds
  <2> QED
    BY <1>28, <2>1, StagedMove DEF DumpEnds
<1>29. ASSUME NEW b \in Backups, Finishing(b) PROVE Staged'
  <2>1. \A c \in Backups : trk'[c].state = trk[c].state /\ trk'[c].bound = trk[c].bound
    BY <1>29 DEF Finishing
  <2> QED
    BY <1>29, <2>1, StagedMove DEF Finishing
<1>30. ASSUME NEW b \in Backups, Complete(b) PROVE Staged'
  <2>1. \A c \in Backups : trk'[c].state = trk[c].state /\ trk'[c].bound = trk[c].bound
    BY <1>30 DEF Complete
  <2> QED
    BY SMTT(30), <1>30, <2>1, StagedMove DEF Complete, Return
<1>31. ASSUME NEW b \in Backups, AbandonBackup(b) PROVE Staged'
  <2>1. \A x \in Runs : RunStaged(x)'
    BY <1>31, ManualOne DEF AbandonBackup, Over
  <2>2. ASSUME NEW c \in Backups PROVE BackupStaged(c)'
    BY <1>31, ManualOne DEF AbandonBackup, Over
  <2> QED
    BY <1>31, <2>1, <2>2 DEF AbandonBackup, Over
<1>32. ASSUME NEW b \in Backups, SaveRecord(b) PROVE Staged'
  <2>1. \A c \in Backups : trk'[c].state = trk[c].state /\ trk'[c].bound = trk[c].bound
    BY <1>32 DEF SaveRecord
  <2> QED
    BY <1>32, <2>1, StagedMove DEF SaveRecord
<1>33. ASSUME NEW b \in Backups, End(b) PROVE Staged'
  <2>1. BackupStaged(b)'
    BY <1>33 DEF End
  <2> QED
    BY <1>33, <2>1, StagedStep DEF End
<1>34. ASSUME NEW b \in Backups, SaveManual(b) PROVE Staged'
  <2>1. \A c \in Backups : trk'[c].state = trk[c].state /\ trk'[c].bound = trk[c].bound
    BY <1>34 DEF SaveManual
  <2> QED
    BY <1>34, <2>1, StagedMove DEF SaveManual
<1>35. ASSUME NEW b \in Backups, EndManual(b) PROVE Staged'
  <2>1. \A x \in Runs : RunStaged(x)'
    BY <1>35, ManualOne DEF EndManual, Over, ReleaseLock
  <2>2. ASSUME NEW c \in Backups PROVE BackupStaged(c)'
    BY <1>35, ManualOne DEF EndManual, Over, ReleaseLock
  <2> QED
    BY <1>35, <2>1, <2>2 DEF EndManual, Over, ReleaseLock
<1>36. ASSUME NEW q \in DOMAIN reqs, NEW b \in Backups, CancelBackup(q, b) PROVE Staged'
  <2>1. Up /\ Up'
    BY <1>36, EventType, CancelRunKeeps DEF CancelBackup, Up
  <2> QED
    BY <1>36, <2>1, StagedRequest, EventType, CancelRunKeeps DEF CancelBackup
<1>37. ASSUME NEW q \in DOMAIN reqs, NEW b \in Backups, CancelNext(q, b) PROVE Staged'
  <2>1. Up /\ Up'
    BY <1>37, CancelRunKeeps DEF CancelNext, Up
  <2> QED
    BY <1>37, <2>1, StagedRequest, CancelRunKeeps DEF CancelNext
<1>38. ASSUME NEW q \in DOMAIN reqs, NEW r \in Runs, CancelJobRun(q, r) PROVE Staged'
  <2>1. Up /\ Up'
    BY <1>38, EventType DEF CancelJobRun, Up
  <2> QED
    BY <1>38, <2>1, StagedRequest, EventType DEF CancelJobRun
<1>39. ASSUME NEW q \in DOMAIN reqs, ForceStop(q) PROVE Staged'
  <2>1. Up /\ Up'
    BY <1>39, EventType DEF ForceStop, Up
  <2> QED
    BY <1>39, <2>1, StagedRequest, EventType DEF ForceStop
<1>40. ASSUME NEW q \in DOMAIN reqs, ListOthers(q) PROVE Staged'
  <2>1. Up /\ Up'
    BY <1>40 DEF ListOthers, Up
  <2> QED
    BY <1>40, <2>1, StagedRequest DEF ListOthers
<1>41. ASSUME NEW q \in DOMAIN reqs, WindowEnds(q) PROVE Staged'
  <2>1. Up /\ Up'
    BY <1>41, EventType DEF WindowEnds, Up
  <2> QED
    BY <1>41, <2>1, StagedRequest, EventType DEF WindowEnds
<1>42. ASSUME NEW q \in DOMAIN reqs, CancelDone(q) PROVE Staged'
  <2>1. Up /\ Up'
    BY <1>42 DEF CancelDone, Up
  <2> QED
    BY <1>42, <2>1, StagedRequest DEF CancelDone
<1>43. CASE PauseRuns
  BY <1>43, EventType DEF PauseRuns, Event
<1>44. CASE ResumeRuns
  BY <1>44 DEF ResumeRuns
<1>45. CASE Stop
  BY <1>45, EventType DEF Stop, Event
<1>46. CASE Shutdown
  BY <1>46 DEF Shutdown
<1>47. CASE StopScheduler
  BY <1>47 DEF StopScheduler
<1>48. CASE Crash
  BY <1>48 DEF Crash, Event, NewManager, NewQueue, NewScheduler, NoTracker, NoRequest, Up
<1>49. CASE Start
  BY <1>49 DEF Start
<1>50. ASSUME NEW b \in Backups, FailInterrupted(b) PROVE Staged'
  BY <1>50 DEF FailInterrupted
<1>51. ASSUME NEW r \in Runs, FailInterruptedRun(r) PROVE Staged'
  BY <1>51 DEF FailInterruptedRun
<1> QED
  BY <1>1, <1>2, <1>3, <1>4, <1>5, <1>6, <1>7, <1>8, <1>9, <1>10, <1>11, <1>12, <1>13, <1>14,
     <1>15, <1>16, <1>17, <1>18, <1>19, <1>20, <1>21, <1>22, <1>23, <1>24, <1>25, <1>26, <1>27,
     <1>28, <1>29, <1>30, <1>31, <1>32, <1>33, <1>34, <1>35, <1>36, <1>37, <1>38, <1>39, <1>40,
     <1>41, <1>42, <1>43, <1>44, <1>45, <1>46, <1>47, <1>48, <1>49, <1>50, <1>51
     DEF Next, Begin, RunStep, BackupStep, LockStep, EngineStep, EndStep, Request, Process

\* Every action keeps the run locks with their owners: no lock is lost, given up
\* twice or handed to two backups of a database.
LEMMA LockedNext ==
   ASSUME RunsInv, TypeOK', Next
   PROVE Locked'
<1> USE BackupFacts DEF RunsInv, runVars, backupVars, stored

<1>1. ASSUME NEW r \in Runs, StartScheduled(r) PROVE Locked'
  <2>1. LocksOwned'
    BY <1>1 DEF StartScheduled, TypeOK, Locked, LocksOwned
  <2>2. ASSUME NEW c \in Backups PROVE BackupLocked(c)'
    BY <1>1, CancelRunKeeps, ManualOne DEF StartScheduled, TypeOK, Locked, Staged,
       BackupLocked, Dumping, OfJob, Multi, BackupStaged, Busy, CtxDone, Stopped, Trackers
  <2> QED
    BY <2>1, <2>2 DEF Locked
<1>2. ASSUME NEW r \in Runs, StartJobRun(r) PROVE Locked'
  <2>1. LocksOwned'
    BY <1>2 DEF StartJobRun, TypeOK, Locked, LocksOwned
  <2>2. ASSUME NEW c \in Backups PROVE BackupLocked(c)'
    BY <1>2, CancelRunKeeps, ManualOne DEF StartJobRun, TypeOK, Locked, Staged, BackupLocked,
       Dumping, OfJob, Multi, BackupStaged, Busy, CtxDone, Stopped, Trackers
  <2> QED
    BY <2>1, <2>2 DEF Locked
<1>3. ASSUME NEW r \in Runs, StartBackups(r) PROVE Locked'
  <2>1. LocksOwned'
    BY <1>3 DEF StartBackups, TypeOK, Locked, LocksOwned
  <2>2. ASSUME NEW c \in Backups PROVE BackupLocked(c)'
    BY <1>3, CancelRunKeeps, ManualOne DEF StartBackups, TypeOK, Locked, Staged, BackupLocked,
       Dumping, OfJob, Multi, BackupStaged, Busy, CtxDone, Stopped, Trackers
  <2> QED
    BY <2>1, <2>2 DEF Locked
<1>4. ASSUME NEW r \in Runs, PlanRun(r) PROVE Locked'
  <2>1. LocksOwned'
    BY <1>4 DEF PlanRun, TypeOK, Locked, LocksOwned
  <2>2. ASSUME NEW c \in Backups PROVE BackupLocked(c)'
    BY <1>4, CancelRunKeeps, ManualOne DEF PlanRun, TypeOK, Locked, Staged, BackupLocked,
       Dumping, OfJob, Multi, BackupStaged, Busy, CtxDone, Stopped, Trackers
  <2> QED
    BY <2>1, <2>2 DEF Locked
<1>5. ASSUME NEW r \in Runs, PlanFails(r) PROVE Locked'
  <2>1. LocksOwned'
    BY <1>5 DEF PlanFails, TypeOK, Locked, LocksOwned
  <2>2. ASSUME NEW c \in Backups PROVE BackupLocked(c)'
    BY <1>5, CancelRunKeeps, ManualOne DEF PlanFails, TypeOK, Locked, Staged, BackupLocked,
       Dumping, OfJob, Multi, BackupStaged, Busy, CtxDone, Stopped, Trackers
  <2> QED
    BY <2>1, <2>2 DEF Locked
<1>6. ASSUME NEW r \in Runs, PlanBusy(r) PROVE Locked'
  <2>1. LocksOwned'
    BY <1>6 DEF PlanBusy, TypeOK, Locked, LocksOwned
  <2>2. ASSUME NEW c \in Backups PROVE BackupLocked(c)'
    BY <1>6, CancelRunKeeps, ManualOne DEF PlanBusy, TypeOK, Locked, Staged, BackupLocked,
       Dumping, OfJob, Multi, BackupStaged, Busy, CtxDone, Stopped, Trackers
  <2> QED
    BY <2>1, <2>2 DEF Locked
<1>7. ASSUME NEW r \in Runs, PrepareAdHocRun(r) PROVE Locked'
  <2>1. LocksOwned'
    BY <1>7 DEF PrepareAdHocRun, TypeOK, Locked, LocksOwned
  <2>2. ASSUME NEW c \in Backups PROVE BackupLocked(c)'
    BY <1>7, CancelRunKeeps, ManualOne DEF PrepareAdHocRun, TypeOK, Locked, Staged,
       BackupLocked, Dumping, OfJob, Multi, BackupStaged, Busy, CtxDone, Stopped, Trackers
  <2> QED
    BY <2>1, <2>2 DEF Locked
<1>8. ASSUME NEW r \in Runs, RefuseRequest(r) PROVE Locked'
  <2> DEFINE S == {c \in Backups : RunOf(c) = r}
  <2>1. {d \in Selection[r] : locked[<<r, d>>]} = {Database(b) : b \in {c \in S : locked[c]}}
    OBVIOUS
  <2>2. LocksOwned'
    <3>1. locked' = [c \in Backups |-> locked[c] /\ c \notin S]
      BY <1>8 DEF RefuseRequest, TypeOK
    <3>2. mgr'.active = mgr.active \ {Database(b) : b \in {c \in S : locked[c]}}
      BY <1>8, <2>1 DEF RefuseRequest, TypeOK
    <3>3. S \in SUBSET Backups
      OBVIOUS
    <3> QED
      BY <3>1, <3>2, <3>3, LocksReleased DEF Locked
  <2>3. ASSUME NEW c \in Backups PROVE BackupLocked(c)'
    BY <1>8 DEF RefuseRequest, Over, TypeOK, Locked, Staged, BackupLocked, Dumping, OfJob,
       Multi, BackupStaged, Busy, CtxDone, Stopped, Trackers
  <2> QED
    BY <2>2, <2>3 DEF Locked
<1>9. ASSUME NEW r \in Runs, Go(r) PROVE Locked'
  <2>1. LocksOwned'
    BY <1>9 DEF Go, TypeOK, Locked, LocksOwned
  <2>2. ASSUME NEW c \in Backups PROVE BackupLocked(c)'
    BY <1>9, CancelRunKeeps, ManualOne DEF Go, Registered, TypeOK, Locked, Staged,
       BackupLocked, Dumping, OfJob, Multi, BackupStaged, Busy, CtxDone, Stopped, Trackers
  <2> QED
    BY <2>1, <2>2 DEF Locked
<1>10. ASSUME NEW r \in Runs, AbandonJobRun(r) PROVE Locked'
  <2> DEFINE S == {c \in Backups : RunOf(c) = r /\ Database(c) \in plan[r]}
  <2>1. ASSUME NEW d \in plan[r] PROVE <<r, d>> \in S /\ locked[<<r, d>>]
    <3>1. d \in Selection[r] /\ <<r, d>> \in Backups /\ stage[r] = "registering" /\ Kind[r] = "adhoc"
      BY <1>10, <2>1 DEF AbandonJobRun, Registered, Staged, RunStaged
    <3>2. pc[<<r, d>>] = "queued"
      BY <1>10, <2>1, <3>1 DEF AbandonJobRun, Registered, Unregistered, Staged, BackupStaged,
         Multi
    <3> QED
      BY <2>1, <3>1, <3>2 DEF Locked, BackupLocked, OfJob
  <2>2. plan[r] = {Database(b) : b \in {c \in S : locked[c]}}
    BY <2>1
  <2>3. LocksOwned'
    <3>1. locked' = [c \in Backups |-> locked[c] /\ c \notin S]
      BY <1>10 DEF AbandonJobRun, TypeOK
    <3>2. mgr'.active = mgr.active \ {Database(b) : b \in {c \in S : locked[c]}}
      BY <1>10, <2>2 DEF AbandonJobRun, TypeOK
    <3>3. S \in SUBSET Backups
      OBVIOUS
    <3> QED
      BY <3>1, <3>2, <3>3, LocksReleased DEF Locked
  <2>4. ASSUME NEW c \in Backups PROVE BackupLocked(c)'
    <3>1. CASE RunOf(c) = r /\ Database(c) \in plan[r]
      BY <1>10, <3>1 DEF AbandonJobRun, TypeOK, BackupLocked, Dumping
    <3>2. CASE RunOf(c) = r /\ Database(c) \notin plan[r]
      BY <1>10, <3>2 DEF AbandonJobRun, Registered, TypeOK, Staged, Locked, BackupLocked,
         Dumping, OfJob, Multi, BackupStaged, Busy
    <3>3. CASE RunOf(c) # r
      BY <1>10, <3>3 DEF AbandonJobRun, Over, TypeOK, Locked, BackupLocked, Dumping, CtxDone,
         Stopped
    <3> QED
      BY <3>1, <3>2, <3>3
  <2> QED
    BY <2>3, <2>4 DEF Locked
<1>11. ASSUME NEW r \in Runs, FinishRun(r) PROVE Locked'
  <2>1. LocksOwned'
    BY <1>11 DEF FinishRun, TypeOK, Locked, LocksOwned
  <2>2. ASSUME NEW c \in Backups PROVE BackupLocked(c)'
    BY <1>11, CancelRunKeeps, ManualOne DEF FinishRun, Over, TypeOK, Locked, Staged,
       BackupLocked, Dumping, OfJob, Multi, BackupStaged, Busy, CtxDone, Stopped, Trackers
  <2> QED
    BY <2>1, <2>2 DEF Locked
<1>12. ASSUME NEW b \in Backups, AcquireLock(b) PROVE Locked'
  <2>1. stage[RunOf(b)] = "locking" /\ pc[b] = "none" /\ ~locked[b] /\ UNCHANGED <<trk, stage, sched>>
    BY <1>12 DEF AcquireLock, Locked, BackupLocked
  <2>2. LocksOwned'
    <3>1. CASE Database(b) \in mgr.active
      BY <1>12, <2>1, <3>1 DEF AcquireLock, TypeOK, Locked, LocksOwned
    <3>2. CASE Database(b) \notin mgr.active
      BY <1>12, <3>2, LockTaken DEF AcquireLock, TypeOK, Locked
    <3> QED
      BY <3>1, <3>2
  <2>3. BackupLocked(b)'
    BY <1>12, <2>1 DEF AcquireLock, TypeOK, BackupLocked, Dumping
  <2>4. ASSUME NEW c \in Backups, c # b PROVE BackupLocked(c)'
    <3>1. pc'[c] = pc[c] /\ locked'[c] = locked[c] /\ mgr'.closed = mgr.closed /\ stage' = stage
      BY <1>12, <2>4 DEF AcquireLock, TypeOK
    <3> QED
      BY <2>1, <3>1 DEF Locked, BackupLocked, Dumping, CtxDone, Stopped
  <2> QED
    BY <2>2, <2>3, <2>4 DEF Locked
<1>13. ASSUME NEW b \in Backups, Register(b) PROVE Locked'
  <2>1. \A c \in Backups \ {b} : CtxDone(c) => CtxDone(c)'
    BY ZenonT(60), <1>13, CtxStays, TrackerUpdates DEF Register, TypeOK
  <2>2. BackupLocked(b)'
    BY <1>13, <2>1 DEF Register, Unregistered, TypeOK, Locked, Staged, BackupLocked, Dumping,
       OfJob, Multi, BackupStaged, Busy
  <2> QED
    BY <1>13, <2>1, <2>2, LockedStep DEF Register, Unregistered, TypeOK
<1>14. ASSUME NEW b \in Backups, AbandonManual(b) PROVE Locked'
  <2>1. LocksOwned'
    BY <1>14, LockReleased DEF AbandonManual, TypeOK, Locked, ReleaseLock, Registered
  <2>2. ASSUME NEW c \in Backups PROVE BackupLocked(c)'
    BY <1>14, ManualOne DEF AbandonManual, ReleaseLock, Registered, TypeOK, Locked, Staged,
       BackupLocked, Dumping, OfJob, Multi, BackupStaged, Busy, CtxDone, Stopped, Trackers
  <2> QED
    BY <2>1, <2>2 DEF Locked
<1>15. ASSUME NEW b \in Backups, Take(b) PROVE Locked'
  <2>0. \A c \in Backups : (trk[c].bound => trk'[c].bound) /\ (trk[c].cancelled => trk'[c].cancelled)
    BY <1>15 DEF Take, TypeOK, Trackers
  <2>1. \A c \in Backups : CtxDone(c) => CtxDone(c)'
    BY <1>15, <2>0, CtxStays DEF Take, TypeOK
  <2>2. BackupLocked(b)'
    BY ZenonT(60), <1>15, <2>1 DEF Take, TypeOK, Locked, Staged, BackupLocked, Dumping, OfJob, Multi,
       BackupStaged, Busy
  <2> QED
    BY <1>15, <2>1, <2>2, LockedStep DEF Take, TypeOK
<1>16. ASSUME NEW b \in Backups, WaitEnds(b) PROVE Locked'
  <2>1. \A c \in Backups : CtxDone(c) => CtxDone(c)'
    BY <1>16, CtxStays DEF WaitEnds, TypeOK
  <2>2. BackupLocked(b)'
    BY <1>16, <2>1 DEF WaitEnds, TypeOK, Locked, Staged, BackupLocked, Dumping, OfJob, Multi,
       BackupStaged, Busy
  <2> QED
    BY <1>16, <2>1, <2>2, LockedStep DEF WaitEnds, TypeOK
<1>17. ASSUME NEW b \in Backups, LockDatabase(b) PROVE Locked'
  <2>1. LocksOwned'
    BY <1>17, LockTaken DEF LockDatabase, TypeOK, Locked
  <2>2. ASSUME NEW c \in Backups PROVE BackupLocked(c)'
    BY <1>17, ManualOne DEF LockDatabase, TypeOK, Locked, Staged, BackupLocked, Dumping, OfJob,
       Multi, BackupStaged, Busy, CtxDone, Stopped, Trackers
  <2> QED
    BY <2>1, <2>2 DEF Locked
<1>18. ASSUME NEW b \in Backups, LockFails(b) PROVE Locked'
  <2>1. \A c \in Backups : CtxDone(c) => CtxDone(c)'
    BY <1>18, CtxStays DEF LockFails, TypeOK
  <2>2. BackupLocked(b)'
    BY <1>18, <2>1 DEF LockFails, TypeOK, Locked, Staged, BackupLocked, Dumping, OfJob, Multi,
       BackupStaged, Busy
  <2> QED
    BY <1>18, <2>1, <2>2, LockedStep DEF LockFails, TypeOK
<1>19. ASSUME NEW b \in Backups, Adopt(b) PROVE Locked'
  <2>1. \A c \in Backups : CtxDone(c) => CtxDone(c)'
    BY <1>19, CtxStays, CancelRunKeeps DEF Adopt, TypeOK
  <2>2. BackupLocked(b)'
    BY <1>19, <2>1 DEF Adopt, TypeOK, Locked, Staged, BackupLocked, Dumping, OfJob, Multi,
       BackupStaged, Busy
  <2> QED
    BY <1>19, <2>1, <2>2, LockedStep DEF Adopt, TypeOK
<1>20. ASSUME NEW b \in Backups, CancelledInQueue(b) PROVE Locked'
  <2>1. \A c \in Backups : CtxDone(c) => CtxDone(c)'
    BY <1>20, CtxStays DEF CancelledInQueue, TypeOK
  <2>2. BackupLocked(b)'
    BY <1>20, <2>1 DEF CancelledInQueue, Return, TypeOK, Locked, Staged, BackupLocked, Dumping,
       OfJob, Multi, BackupStaged, Busy
  <2> QED
    BY <1>20, <2>1, <2>2, LockedStep DEF CancelledInQueue, Return, TypeOK
<1>21. ASSUME NEW b \in Backups, AcquireSlot(b) PROVE Locked'
  <2>1. \A c \in Backups : CtxDone(c) => CtxDone(c)'
    BY <1>21, CtxStays DEF AcquireSlot, TypeOK
  <2>2. BackupLocked(b)'
    BY <1>21, <2>1 DEF AcquireSlot, TypeOK, Locked, Staged, BackupLocked, Dumping, OfJob,
       Multi, BackupStaged, Busy
  <2> QED
    BY <1>21, <2>1, <2>2, LockedStep DEF AcquireSlot, TypeOK
<1>22. ASSUME NEW b \in Backups, NoSlotNeeded(b) PROVE Locked'
  <2>1. \A c \in Backups : CtxDone(c) => CtxDone(c)'
    BY <1>22, CtxStays DEF NoSlotNeeded, TypeOK
  <2>2. BackupLocked(b)'
    BY <1>22, <2>1 DEF NoSlotNeeded, TypeOK, Locked, Staged, BackupLocked, Dumping, OfJob,
       Multi, BackupStaged, Busy
  <2> QED
    BY <1>22, <2>1, <2>2, LockedStep DEF NoSlotNeeded, TypeOK
<1>23. ASSUME NEW b \in Backups, SlotRefused(b) PROVE Locked'
  <2>1. \A c \in Backups : CtxDone(c) => CtxDone(c)'
    BY <1>23, CtxStays DEF SlotRefused, TypeOK
  <2>2. BackupLocked(b)'
    BY <1>23, <2>1 DEF SlotRefused, Return, TypeOK, Locked, Staged, BackupLocked, Dumping,
       OfJob, Multi, BackupStaged, Busy
  <2> QED
    BY <1>23, <2>1, <2>2, LockedStep DEF SlotRefused, Return, TypeOK
<1>24. ASSUME NEW b \in Backups, SlotGranted(b) PROVE Locked'
  <2>1. \A c \in Backups : CtxDone(c) => CtxDone(c)'
    BY <1>24, CtxStays DEF SlotGranted, TypeOK
  <2>2. BackupLocked(b)'
    BY <1>24, <2>1 DEF SlotGranted, TypeOK, Locked, Staged, BackupLocked, Dumping, OfJob,
       Multi, BackupStaged, Busy
  <2> QED
    BY <1>24, <2>1, <2>2, LockedStep DEF SlotGranted, TypeOK
<1>25. ASSUME NEW b \in Backups, LeaveQueue(b) PROVE Locked'
  <2>1. \A c \in Backups : CtxDone(c) => CtxDone(c)'
    BY <1>25, CtxStays DEF LeaveQueue, TypeOK
  <2>2. BackupLocked(b)'
    BY <1>25, <2>1 DEF LeaveQueue, TypeOK, Locked, Staged, BackupLocked, Dumping, OfJob, Multi,
       BackupStaged, Busy
  <2> QED
    BY <1>25, <2>1, <2>2, LockedStep DEF LeaveQueue, TypeOK
<1>26. ASSUME NEW b \in Backups, StartDump(b) PROVE Locked'
  <2>1. \A c \in Backups : CtxDone(c) => CtxDone(c)'
    BY <1>26, CtxStays DEF StartDump, TypeOK
  <2>2. BackupLocked(b)'
    BY <1>26, <2>1 DEF StartDump, TypeOK, Locked, Staged, BackupLocked, Dumping, OfJob, Multi,
       BackupStaged, Busy
  <2> QED
    BY <1>26, <2>1, <2>2, LockedStep DEF StartDump, TypeOK
<1>27. ASSUME NEW b \in Backups, DumpFails(b) PROVE Locked'
  <2>1. \A c \in Backups : CtxDone(c) => CtxDone(c)'
    BY <1>27, CtxStays DEF DumpFails, TypeOK
  <2>2. BackupLocked(b)'
    BY <1>27, <2>1 DEF DumpFails, Return, TypeOK, Locked, Staged, BackupLocked, Dumping, OfJob,
       Multi, BackupStaged, Busy
  <2> QED
    BY <1>27, <2>1, <2>2, LockedStep DEF DumpFails, Return, TypeOK
<1>28. ASSUME NEW b \in Backups, DumpEnds(b) PROVE Locked'
  <2>1. \A c \in Backups : CtxDone(c) => CtxDone(c)'
    BY <1>28, CtxStays DEF DumpEnds, TypeOK
  <2>2. BackupLocked(b)'
    BY <1>28, <2>1 DEF DumpEnds, TypeOK, Locked, Staged, BackupLocked, Dumping, OfJob, Multi,
       BackupStaged, Busy
  <2> QED
    BY <1>28, <2>1, <2>2, LockedStep DEF DumpEnds, TypeOK
<1>29. ASSUME NEW b \in Backups, Finishing(b) PROVE Locked'
  <2>0. \A c \in Backups : (trk[c].bound => trk'[c].bound) /\ (trk[c].cancelled => trk'[c].cancelled)
    BY <1>29 DEF Finishing, TypeOK, Trackers
  <2>1. \A c \in Backups : CtxDone(c) => CtxDone(c)'
    BY <1>29, <2>0, CtxStays DEF Finishing, TypeOK
  <2>2. BackupLocked(b)'
    BY <1>29, <2>1 DEF Finishing, TypeOK, Locked, Staged, BackupLocked, Dumping, OfJob, Multi,
       BackupStaged, Busy
  <2> QED
    BY <1>29, <2>1, <2>2, LockedStep DEF Finishing, TypeOK
<1>30. ASSUME NEW b \in Backups, Complete(b) PROVE Locked'
  <2>1. \A c \in Backups : CtxDone(c) => CtxDone(c)'
    BY <1>30, CtxStays DEF Complete, TypeOK
  <2>2. BackupLocked(b)'
    BY <1>30, <2>1 DEF Complete, Return, TypeOK, Locked, Staged, BackupLocked, Dumping, OfJob,
       Multi, BackupStaged, Busy
  <2> QED
    BY <1>30, <2>1, <2>2, LockedStep DEF Complete, Return, TypeOK
<1>31. ASSUME NEW b \in Backups, AbandonBackup(b) PROVE Locked'
  <2>1. LocksOwned'
    BY <1>31 DEF AbandonBackup, TypeOK, Locked, LocksOwned
  <2>2. ASSUME NEW c \in Backups PROVE BackupLocked(c)'
    BY <1>31, CancelRunKeeps, ManualOne DEF AbandonBackup, Over, TypeOK, Locked, Staged,
       BackupLocked, Dumping, OfJob, Multi, BackupStaged, Busy, CtxDone, Stopped, Trackers
  <2> QED
    BY <2>1, <2>2 DEF Locked
<1>32. ASSUME NEW b \in Backups, SaveRecord(b) PROVE Locked'
  <2>1. LocksOwned'
    BY <1>32, LockReleased DEF SaveRecord, TypeOK, Locked, ReleaseLock
  <2>2. ASSUME NEW c \in Backups PROVE BackupLocked(c)'
    BY <1>32, ManualOne DEF SaveRecord, ReleaseLock, TypeOK, Locked, Staged, BackupLocked,
       Dumping, OfJob, Multi, BackupStaged, Busy, CtxDone, Stopped, Trackers
  <2> QED
    BY <2>1, <2>2 DEF Locked
<1>33. ASSUME NEW b \in Backups, End(b) PROVE Locked'
  <2>0. \A c \in Backups : (trk[c].bound => trk'[c].bound) /\ (trk[c].cancelled => trk'[c].cancelled)
    BY <1>33 DEF End, TypeOK, Trackers
  <2>1. \A c \in Backups : CtxDone(c) => CtxDone(c)'
    BY <1>33, <2>0, CtxStays DEF End, TypeOK
  <2>2. BackupLocked(b)'
    BY <1>33, <2>1 DEF End, TypeOK, Locked, Staged, BackupLocked, Dumping, OfJob, Multi,
       BackupStaged, Busy
  <2> QED
    BY <1>33, <2>1, <2>2, LockedStep DEF End, TypeOK
<1>34. ASSUME NEW b \in Backups, SaveManual(b) PROVE Locked'
  <2>1. \A c \in Backups : CtxDone(c) => CtxDone(c)'
    BY <1>34, CtxStays DEF SaveManual, TypeOK
  <2>2. BackupLocked(b)'
    BY <1>34, <2>1 DEF SaveManual, TypeOK, Locked, Staged, BackupLocked, Dumping, OfJob, Multi,
       BackupStaged, Busy
  <2> QED
    BY <1>34, <2>1, <2>2, LockedStep DEF SaveManual, TypeOK
<1>35. ASSUME NEW b \in Backups, EndManual(b) PROVE Locked'
  <2>1. LocksOwned'
    BY <1>35, LockReleased DEF EndManual, TypeOK, Locked, ReleaseLock, Over
  <2>2. ASSUME NEW c \in Backups PROVE BackupLocked(c)'
    BY <1>35, ManualOne DEF EndManual, ReleaseLock, Over, TypeOK, Locked, Staged, BackupLocked,
       Dumping, OfJob, Multi, BackupStaged, Busy, CtxDone, Stopped, Trackers
  <2> QED
    BY <2>1, <2>2 DEF Locked
<1>36. ASSUME NEW q \in DOMAIN reqs, NEW b \in Backups, CancelBackup(q, b) PROVE Locked'
  <2>1. LocksOwned'
    BY <1>36 DEF CancelBackup, TypeOK, Locked, LocksOwned
  <2>2. ASSUME NEW c \in Backups PROVE BackupLocked(c)'
    BY <1>36, CancelRunKeeps, ManualOne DEF CancelBackup, Event, TypeOK, Locked, Staged,
       BackupLocked, Dumping, OfJob, Multi, BackupStaged, Busy, CtxDone, Stopped, Trackers
  <2> QED
    BY <2>1, <2>2 DEF Locked
<1>37. ASSUME NEW q \in DOMAIN reqs, NEW b \in Backups, CancelNext(q, b) PROVE Locked'
  <2>1. LocksOwned'
    BY <1>37 DEF CancelNext, TypeOK, Locked, LocksOwned
  <2>2. ASSUME NEW c \in Backups PROVE BackupLocked(c)'
    BY <1>37, CancelRunKeeps, ManualOne DEF CancelNext, Up, TypeOK, Locked, Staged,
       BackupLocked, Dumping, OfJob, Multi, BackupStaged, Busy, CtxDone, Stopped, Trackers
  <2> QED
    BY <2>1, <2>2 DEF Locked
<1>38. ASSUME NEW q \in DOMAIN reqs, NEW r \in Runs, CancelJobRun(q, r) PROVE Locked'
  <2>1. LocksOwned'
    BY <1>38 DEF CancelJobRun, TypeOK, Locked, LocksOwned
  <2>2. ASSUME NEW c \in Backups PROVE BackupLocked(c)'
    BY <1>38, CancelRunKeeps, ManualOne DEF CancelJobRun, Event, Active, TypeOK, Locked,
       Staged, BackupLocked, Dumping, OfJob, Multi, BackupStaged, Busy, CtxDone, Stopped,
       Trackers
  <2> QED
    BY <2>1, <2>2 DEF Locked
<1>39. ASSUME NEW q \in DOMAIN reqs, ForceStop(q) PROVE Locked'
  <2>1. LocksOwned'
    BY <1>39 DEF ForceStop, TypeOK, Locked, LocksOwned
  <2>2. ASSUME NEW c \in Backups PROVE BackupLocked(c)'
    BY <1>39, CancelRunKeeps, ManualOne DEF ForceStop, Event, Active, TypeOK, Locked, Staged,
       BackupLocked, Dumping, OfJob, Multi, BackupStaged, Busy, CtxDone, Stopped, Trackers
  <2> QED
    BY <2>1, <2>2 DEF Locked
<1>40. ASSUME NEW q \in DOMAIN reqs, ListOthers(q) PROVE Locked'
  <2>1. LocksOwned'
    BY <1>40 DEF ListOthers, TypeOK, Locked, LocksOwned
  <2>2. ASSUME NEW c \in Backups PROVE BackupLocked(c)'
    BY <1>40, CancelRunKeeps, ManualOne DEF ListOthers, Active, TypeOK, Locked, Staged,
       BackupLocked, Dumping, OfJob, Multi, BackupStaged, Busy, CtxDone, Stopped, Trackers
  <2> QED
    BY <2>1, <2>2 DEF Locked
<1>41. ASSUME NEW q \in DOMAIN reqs, WindowEnds(q) PROVE Locked'
  <2>1. LocksOwned'
    BY <1>41 DEF WindowEnds, TypeOK, Locked, LocksOwned
  <2>2. ASSUME NEW c \in Backups PROVE BackupLocked(c)'
    BY <1>41, CancelRunKeeps, ManualOne DEF WindowEnds, Event, Active, TypeOK, Locked, Staged,
       BackupLocked, Dumping, OfJob, Multi, BackupStaged, Busy, CtxDone, Stopped, Trackers
  <2> QED
    BY <2>1, <2>2 DEF Locked
<1>42. ASSUME NEW q \in DOMAIN reqs, CancelDone(q) PROVE Locked'
  <2>1. LocksOwned'
    BY <1>42 DEF CancelDone, TypeOK, Locked, LocksOwned
  <2>2. ASSUME NEW c \in Backups PROVE BackupLocked(c)'
    BY <1>42, CancelRunKeeps, ManualOne DEF CancelDone, TypeOK, Locked, Staged, BackupLocked,
       Dumping, OfJob, Multi, BackupStaged, Busy, CtxDone, Stopped, Trackers
  <2> QED
    BY <2>1, <2>2 DEF Locked
<1>43. CASE PauseRuns
  <2>1. LocksOwned'
    BY <1>43 DEF PauseRuns, TypeOK, Locked, LocksOwned
  <2>2. ASSUME NEW c \in Backups PROVE BackupLocked(c)'
    BY <1>43, CancelRunKeeps, ManualOne DEF PauseRuns, Event, TypeOK, Locked, Staged,
       BackupLocked, Dumping, OfJob, Multi, BackupStaged, Busy, CtxDone, Stopped, Trackers
  <2> QED
    BY <2>1, <2>2 DEF Locked
<1>44. CASE ResumeRuns
  <2>1. LocksOwned'
    BY <1>44 DEF ResumeRuns, TypeOK, Locked, LocksOwned
  <2>2. ASSUME NEW c \in Backups PROVE BackupLocked(c)'
    BY <1>44, CancelRunKeeps, ManualOne DEF ResumeRuns, TypeOK, Locked, Staged, BackupLocked,
       Dumping, OfJob, Multi, BackupStaged, Busy, CtxDone, Stopped, Trackers
  <2> QED
    BY <2>1, <2>2 DEF Locked
<1>45. CASE Stop
  <2>1. LocksOwned'
    BY <1>45 DEF Stop, TypeOK, Locked, LocksOwned
  <2>2. ASSUME NEW c \in Backups PROVE BackupLocked(c)'
    BY <1>45, CancelRunKeeps, ManualOne DEF Stop, Event, TypeOK, Locked, Staged, BackupLocked,
       Dumping, OfJob, Multi, BackupStaged, Busy, CtxDone, Stopped, Trackers
  <2> QED
    BY <2>1, <2>2 DEF Locked
<1>46. CASE Shutdown
  <2>1. LocksOwned'
    BY <1>46 DEF Shutdown, TypeOK, Locked, LocksOwned
  <2>2. ASSUME NEW c \in Backups PROVE BackupLocked(c)'
    BY <1>46, CancelRunKeeps, ManualOne DEF Shutdown, TypeOK, Locked, Staged, BackupLocked,
       Dumping, OfJob, Multi, BackupStaged, Busy, CtxDone, Stopped, Trackers
  <2> QED
    BY <2>1, <2>2 DEF Locked
<1>47. CASE StopScheduler
  <2>1. LocksOwned'
    BY <1>47 DEF StopScheduler, TypeOK, Locked, LocksOwned
  <2>2. ASSUME NEW c \in Backups PROVE BackupLocked(c)'
    BY <1>47, CancelRunKeeps, ManualOne DEF StopScheduler, TypeOK, Locked, Staged,
       BackupLocked, Dumping, OfJob, Multi, BackupStaged, Busy, CtxDone, Stopped, Trackers
  <2> QED
    BY <2>1, <2>2 DEF Locked
<1>48. CASE Crash
  <2>1. LocksOwned'
    BY <1>48 DEF Crash, NewManager, TypeOK, Locked, LocksOwned
  <2>2. ASSUME NEW c \in Backups PROVE BackupLocked(c)'
    BY <1>48, CancelRunKeeps, ManualOne DEF Crash, Event, NewManager, NewQueue, NewScheduler,
       NoTracker, NoRequest, TypeOK, Locked, Staged, BackupLocked, Dumping, OfJob, Multi,
       BackupStaged, Busy, CtxDone, Stopped, Trackers
  <2> QED
    BY <2>1, <2>2 DEF Locked
<1>49. CASE Start
  <2>1. LocksOwned'
    BY <1>49 DEF Start, TypeOK, Locked, LocksOwned
  <2>2. ASSUME NEW c \in Backups PROVE BackupLocked(c)'
    BY <1>49, CancelRunKeeps, ManualOne DEF Start, TypeOK, Locked, Staged, BackupLocked,
       Dumping, OfJob, Multi, BackupStaged, Busy, CtxDone, Stopped, Trackers
  <2> QED
    BY <2>1, <2>2 DEF Locked
<1>50. ASSUME NEW b \in Backups, FailInterrupted(b) PROVE Locked'
  <2>1. LocksOwned'
    BY <1>50 DEF FailInterrupted, TypeOK, Locked, LocksOwned
  <2>2. ASSUME NEW c \in Backups PROVE BackupLocked(c)'
    BY <1>50, CancelRunKeeps, ManualOne DEF FailInterrupted, TypeOK, Locked, Staged,
       BackupLocked, Dumping, OfJob, Multi, BackupStaged, Busy, CtxDone, Stopped, Trackers
  <2> QED
    BY <2>1, <2>2 DEF Locked
<1>51. ASSUME NEW r \in Runs, FailInterruptedRun(r) PROVE Locked'
  <2>1. LocksOwned'
    BY <1>51 DEF FailInterruptedRun, TypeOK, Locked, LocksOwned
  <2>2. ASSUME NEW c \in Backups PROVE BackupLocked(c)'
    BY <1>51, CancelRunKeeps, ManualOne DEF FailInterruptedRun, TypeOK, Locked, Staged,
       BackupLocked, Dumping, OfJob, Multi, BackupStaged, Busy, CtxDone, Stopped, Trackers
  <2> QED
    BY <2>1, <2>2 DEF Locked
<1> QED
  BY <1>1, <1>2, <1>3, <1>4, <1>5, <1>6, <1>7, <1>8, <1>9, <1>10, <1>11, <1>12, <1>13, <1>14,
     <1>15, <1>16, <1>17, <1>18, <1>19, <1>20, <1>21, <1>22, <1>23, <1>24, <1>25, <1>26, <1>27,
     <1>28, <1>29, <1>30, <1>31, <1>32, <1>33, <1>34, <1>35, <1>36, <1>37, <1>38, <1>39, <1>40,
     <1>41, <1>42, <1>43, <1>44, <1>45, <1>46, <1>47, <1>48, <1>49, <1>50, <1>51
     DEF Next, Begin, RunStep, BackupStep, LockStep, EngineStep, EndStep, Request, Process

\* Every action keeps the stored records in step with the runs, also a crash between
\* the store of a record and that of its job run, and the start that repairs it.
LEMMA RecordedNext ==
   ASSUME RunsInv, TypeOK', Next
   PROVE Recorded'
<1> USE BackupFacts DEF RunsInv, runVars, backupVars, stored

<1>1. ASSUME NEW r \in Runs, StartScheduled(r) PROVE Recorded'
  <2>1. \A x \in Runs \ {r} : /\ summary'[x] = summary[x] /\ stage'[x] = stage[x]
                               /\ sched.job = x => sched'.job = x
    BY <1>1 DEF StartScheduled, TypeOK
  <2>2. RunRecorded(r)'
    BY <1>1 DEF StartScheduled, TypeOK, Recorded, RunRecorded, Staged, RunStaged, OfJob, Up
  <2>3. ASSUME NEW c \in Backups, RunOf(c) = r PROVE BackupRecorded(c)'
    BY <1>1, <2>3 DEF StartScheduled, TypeOK, Recorded, Staged, BackupRecorded, Busy, Final,
       OfJob, Multi, BackupStaged, Up
  <2>4. \A c \in Backups : RunOf(c) # r => pc'[c] = pc[c] /\ records'[c] = records[c] /\ result'[c] = result[c]
    BY <1>1 DEF StartScheduled, TypeOK
  <2> QED
    BY <1>1, <2>1, <2>2, <2>3, <2>4, RecordedRun DEF StartScheduled
<1>2. ASSUME NEW r \in Runs, StartJobRun(r) PROVE Recorded'
  <2>0. summary'[r].status = (IF Accepting THEN "running" ELSE "failed") /\ summary'[r].of = summary[r].of
    BY ZenonT(60), <1>2, SummaryFields DEF StartJobRun
  <2>1. \A x \in Runs \ {r} : /\ summary'[x] = summary[x] /\ stage'[x] = stage[x]
                               /\ sched.job = x => sched'.job = x
    BY <1>2, SummaryFields, JobRunsConstants DEF StartJobRun, Accepting, TypeOK
  <2>2. RunRecorded(r)'
    BY <1>2, <2>0 DEF StartJobRun, Accepting, TypeOK, Recorded, RunRecorded, Staged, RunStaged,
       OfJob, Up
  <2>3. ASSUME NEW c \in Backups, RunOf(c) = r PROVE BackupRecorded(c)'
    BY <1>2, <2>3, <2>0 DEF StartJobRun, Accepting, TypeOK, Recorded, Staged, BackupRecorded,
       Busy, Final, OfJob, Multi, BackupStaged, Up
  <2>4. \A c \in Backups : RunOf(c) # r => pc'[c] = pc[c] /\ records'[c] = records[c] /\ result'[c] = result[c]
    BY <1>2 DEF StartJobRun, Accepting, TypeOK
  <2> QED
    BY <1>2, <2>1, <2>2, <2>3, <2>4, RecordedRun DEF StartJobRun, Accepting
<1>3. ASSUME NEW r \in Runs, StartBackups(r) PROVE Recorded'
  <2>1. \A x \in Runs \ {r} : /\ summary'[x] = summary[x] /\ stage'[x] = stage[x]
                               /\ sched.job = x => sched'.job = x
    BY <1>3 DEF StartBackups, TypeOK
  <2>2. RunRecorded(r)'
    BY <1>3 DEF StartBackups, TypeOK, Recorded, RunRecorded, Staged, RunStaged, OfJob, Up
  <2>3. ASSUME NEW c \in Backups, RunOf(c) = r PROVE BackupRecorded(c)'
    BY <1>3, <2>3 DEF StartBackups, TypeOK, Recorded, Staged, BackupRecorded, Busy, Final,
       OfJob, Multi, BackupStaged, Up
  <2>4. \A c \in Backups : RunOf(c) # r => pc'[c] = pc[c] /\ records'[c] = records[c] /\ result'[c] = result[c]
    BY <1>3 DEF StartBackups, TypeOK
  <2> QED
    BY <1>3, <2>1, <2>2, <2>3, <2>4, RecordedRun DEF StartBackups
<1>4. ASSUME NEW r \in Runs, PlanRun(r) PROVE Recorded'
  <2>0. /\ summary'[r].status = "running" /\ sched'.job = r
        /\ \A d \in Selection[r] : summary'[r].of[d] = "in_progress"
    BY <1>4 DEF PlanRun, TypeOK
  <2>1. \A x \in Runs \ {r} : /\ summary'[x] = summary[x] /\ stage'[x] = stage[x]
                               /\ sched.job = x => sched'.job = x
    BY <1>4, SummaryFields, JobRunsConstants DEF PlanRun, Claimable, TypeOK
  <2>2. RunRecorded(r)'
    BY <1>4, <2>0 DEF PlanRun, Claimable, TypeOK, Recorded, RunRecorded, Staged, RunStaged,
       OfJob, Up
  <2>3. ASSUME NEW c \in Backups, RunOf(c) = r PROVE BackupRecorded(c)'
    BY <1>4, <2>3, <2>0 DEF PlanRun, Claimable, TypeOK, Recorded, Staged, BackupRecorded, Busy,
       Final, OfJob, Multi, BackupStaged, Up
  <2>4. \A c \in Backups : RunOf(c) # r => pc'[c] = pc[c] /\ records'[c] = records[c] /\ result'[c] = result[c]
    BY <1>4 DEF PlanRun, Claimable, TypeOK
  <2> QED
    BY <1>4, <2>1, <2>2, <2>3, <2>4, RecordedRun DEF PlanRun, Claimable
<1>5. ASSUME NEW r \in Runs, PlanFails(r) PROVE Recorded'
  <2>0. summary'[r].status = FinishStatus(summary[r].of, TRUE) /\ summary'[r].of = summary[r].of
    BY <1>5, SummaryFields DEF PlanFails
  <2>f. FinishStatus(summary[r].of, TRUE) \in {"ok", "partial", "failed", "cancelled"}
    BY FinishType
  <2>1. \A x \in Runs \ {r} : /\ summary'[x] = summary[x] /\ stage'[x] = stage[x]
                               /\ sched.job = x => sched'.job = x
    BY <1>5, SummaryFields DEF PlanFails, TypeOK
  <2>2. RunRecorded(r)'
    BY ZenonT(60), <1>5, <2>0, <2>f DEF PlanFails, TypeOK, Recorded, RunRecorded, Staged, RunStaged, OfJob,
       Up
  <2>3. ASSUME NEW c \in Backups, RunOf(c) = r PROVE BackupRecorded(c)'
    BY <1>5, <2>3, <2>0, <2>f DEF PlanFails, TypeOK, Recorded, Staged, BackupRecorded, Busy,
       Final, OfJob, Multi, BackupStaged, Up
  <2>4. \A c \in Backups : RunOf(c) # r => pc'[c] = pc[c] /\ records'[c] = records[c] /\ result'[c] = result[c]
    BY <1>5 DEF PlanFails, TypeOK
  <2> QED
    BY <1>5, <2>1, <2>2, <2>3, <2>4, RecordedRun DEF PlanFails
<1>6. ASSUME NEW r \in Runs, PlanBusy(r) PROVE Recorded'
  <2>1. \A x \in Runs \ {r} : /\ summary'[x] = summary[x] /\ stage'[x] = stage[x]
                               /\ sched.job = x => sched'.job = x
    BY <1>6 DEF PlanBusy, Claimable, TypeOK
  <2>2. RunRecorded(r)'
    BY <1>6 DEF PlanBusy, Claimable, TypeOK, Recorded, RunRecorded, Staged, RunStaged, OfJob, Up
  <2>3. ASSUME NEW c \in Backups, RunOf(c) = r PROVE BackupRecorded(c)'
    BY <1>6, <2>3 DEF PlanBusy, Claimable, TypeOK, Recorded, Staged, BackupRecorded, Busy,
       Final, OfJob, Multi, BackupStaged, Up
  <2>4. \A c \in Backups : RunOf(c) # r => pc'[c] = pc[c] /\ records'[c] = records[c] /\ result'[c] = result[c]
    BY <1>6 DEF PlanBusy, Claimable, TypeOK
  <2> QED
    BY <1>6, <2>1, <2>2, <2>3, <2>4, RecordedRun DEF PlanBusy, Claimable
<1>7. ASSUME NEW r \in Runs, PrepareAdHocRun(r) PROVE Recorded'
  <2>1. \A x \in Runs \ {r} : /\ summary'[x] = summary[x] /\ stage'[x] = stage[x]
                               /\ sched.job = x => sched'.job = x
    BY <1>7 DEF PrepareAdHocRun, TypeOK
  <2>2. RunRecorded(r)'
    BY <1>7 DEF PrepareAdHocRun, TypeOK, Recorded, RunRecorded, Staged, RunStaged, OfJob, Up
  <2>3. ASSUME NEW c \in Backups, RunOf(c) = r PROVE BackupRecorded(c)'
    BY <1>7, <2>3 DEF PrepareAdHocRun, TypeOK, Recorded, Staged, BackupRecorded, Busy, Final,
       OfJob, Multi, BackupStaged, Up
  <2>4. \A c \in Backups : RunOf(c) # r => pc'[c] = pc[c] /\ records'[c] = records[c] /\ result'[c] = result[c]
    BY <1>7 DEF PrepareAdHocRun, TypeOK
  <2> QED
    BY <1>7, <2>1, <2>2, <2>3, <2>4, RecordedRun DEF PrepareAdHocRun
<1>8. ASSUME NEW r \in Runs, RefuseRequest(r) PROVE Recorded'
  <2>1. \A x \in Runs \ {r} : /\ summary'[x] = summary[x] /\ stage'[x] = stage[x]
                               /\ sched.job = x => sched'.job = x
    BY <1>8 DEF RefuseRequest, Over, TypeOK
  <2>2. RunRecorded(r)'
    BY <1>8 DEF RefuseRequest, Over, TypeOK, Recorded, RunRecorded, Staged, RunStaged, OfJob, Up
  <2>3. ASSUME NEW c \in Backups, RunOf(c) = r PROVE BackupRecorded(c)'
    BY <1>8, <2>3 DEF RefuseRequest, Over, TypeOK, Recorded, Staged, BackupRecorded, Busy,
       Final, OfJob, Multi, BackupStaged, Up
  <2>4. \A c \in Backups : RunOf(c) # r => pc'[c] = pc[c] /\ records'[c] = records[c] /\ result'[c] = result[c]
    BY <1>8 DEF RefuseRequest, Over, TypeOK
  <2> QED
    BY <1>8, <2>1, <2>2, <2>3, <2>4, RecordedRun DEF RefuseRequest, Over
<1>9. ASSUME NEW r \in Runs, Go(r) PROVE Recorded'
  <2>1. \A x \in Runs \ {r} : /\ summary'[x] = summary[x] /\ stage'[x] = stage[x]
                               /\ sched.job = x => sched'.job = x
    BY <1>9 DEF Go, Registered, TypeOK
  <2>2. RunRecorded(r)'
    BY <1>9 DEF Go, Registered, TypeOK, Recorded, RunRecorded, Staged, RunStaged, OfJob, Up
  <2>3. ASSUME NEW c \in Backups, RunOf(c) = r PROVE BackupRecorded(c)'
    BY <1>9, <2>3 DEF Go, Registered, TypeOK, Recorded, Staged, BackupRecorded, Busy, Final,
       OfJob, Multi, BackupStaged, Up
  <2>4. \A c \in Backups : RunOf(c) # r => pc'[c] = pc[c] /\ records'[c] = records[c] /\ result'[c] = result[c]
    BY <1>9 DEF Go, Registered, TypeOK
  <2> QED
    BY <1>9, <2>1, <2>2, <2>3, <2>4, RecordedRun DEF Go, Registered
<1>10. ASSUME NEW r \in Runs, AbandonJobRun(r) PROVE Recorded'
  <2>1. \A x \in Runs \ {r} : /\ summary'[x] = summary[x] /\ stage'[x] = stage[x]
                               /\ sched.job = x => sched'.job = x
    BY <1>10 DEF AbandonJobRun, Registered, Over, TypeOK
  <2>2. RunRecorded(r)'
    BY <1>10 DEF AbandonJobRun, Registered, Over, TypeOK, Recorded, RunRecorded, Staged,
       RunStaged, OfJob, Up
  <2>3. ASSUME NEW c \in Backups, RunOf(c) = r PROVE BackupRecorded(c)'
    BY <1>10, <2>3 DEF AbandonJobRun, Registered, Over, TypeOK, Recorded, Staged,
       BackupRecorded, Busy, Final, OfJob, Multi, BackupStaged, Up
  <2>4. \A c \in Backups : RunOf(c) # r => pc'[c] = pc[c] /\ records'[c] = records[c] /\ result'[c] = result[c]
    BY <1>10 DEF AbandonJobRun, Registered, Over, TypeOK
  <2> QED
    BY <1>10, <2>1, <2>2, <2>3, <2>4, RecordedRun DEF AbandonJobRun, Registered, Over
<1>11. ASSUME NEW r \in Runs, FinishRun(r) PROVE Recorded'
  <2>0. /\ OfJob(r) => summary'[r].status = FinishStatus(summary[r].of, FALSE) /\ summary'[r].of = summary[r].of
        /\ ~OfJob(r) => summary' = summary
    <3>1. OfJob(r) => summary' = [summary EXCEPT ![r].status = FinishStatus(summary[r].of, FALSE)]
      BY <1>11 DEF FinishRun
    <3>2. ~OfJob(r) => summary' = summary
      BY <1>11 DEF FinishRun
    <3>3. ASSUME OfJob(r) PROVE summary'[r].status = FinishStatus(summary[r].of, FALSE) /\ summary'[r].of = summary[r].of
      BY <1>11, <3>1, <3>3, SummaryFields
    <3> QED
      BY <3>2, <3>3
  <2>f. FinishStatus(summary[r].of, FALSE) \in {"ok", "partial", "failed", "cancelled"}
    BY FinishType
  <2>1. \A x \in Runs \ {r} : /\ summary'[x] = summary[x] /\ stage'[x] = stage[x]
                               /\ sched.job = x => sched'.job = x
    BY <1>11, SummaryFields DEF FinishRun, Over, TypeOK
  <2>2. RunRecorded(r)'
    BY ZenonT(60), <1>11, <2>0, <2>f DEF FinishRun, Over, TypeOK, Recorded, RunRecorded, Staged, RunStaged,
       OfJob, Up
  <2>3. ASSUME NEW c \in Backups, RunOf(c) = r PROVE BackupRecorded(c)'
    <3>1. stage[r] = "running" /\ UNCHANGED <<pc, records, life>> /\ result'[c] = "none" /\ c = <<r, Database(c)>>
      BY <1>11, <2>3 DEF FinishRun, Over
    <3>2. pc[c] \in {"ended", "skipped"}
      BY <1>11, <2>3, <3>1 DEF FinishRun, Staged, BackupStaged
    <3>3. BackupRecorded(c) /\ BackupStaged(c) /\ RunStaged(r)
      BY <2>3 DEF Recorded, Staged
    <3>4. Up
      BY <3>1, <3>3 DEF Up, RunStaged, TypeOK
    <3> QED
      BY <2>0, <2>3, <2>f, <3>1, <3>2, <3>3, <3>4 DEF BackupRecorded, BackupStaged, Busy,
         Final, OfJob, Up
  <2>4. \A c \in Backups : RunOf(c) # r => pc'[c] = pc[c] /\ records'[c] = records[c] /\ result'[c] = result[c]
    BY <1>11 DEF FinishRun, Over, TypeOK
  <2> QED
    BY <1>11, <2>1, <2>2, <2>3, <2>4, RecordedRun DEF FinishRun, Over
<1>12. ASSUME NEW b \in Backups, AcquireLock(b) PROVE Recorded'
  <2>1. BackupRecorded(b)'
    BY <1>12 DEF AcquireLock, TypeOK, Recorded, Staged, BackupRecorded, Busy, Final, OfJob,
       Multi, BackupStaged, Up
  <2> QED
    BY <1>12, <2>1, RecordedStep DEF AcquireLock, TypeOK
<1>13. ASSUME NEW b \in Backups, Register(b) PROVE Recorded'
  <2>1. BackupRecorded(b)'
    BY <1>13 DEF Register, Unregistered, TypeOK, Recorded, RunRecorded, Staged, BackupRecorded,
       Busy, Final, OfJob, Multi, BackupStaged, Up
  <2> QED
    BY <1>13, <2>1, RecordedStep DEF Register, Unregistered, TypeOK
<1>14. ASSUME NEW b \in Backups, AbandonManual(b) PROVE Recorded'
  <2>1. BackupRecorded(b)'
    BY <1>14 DEF AbandonManual, TypeOK, Recorded, Staged, BackupRecorded, Busy, Final, OfJob,
       Multi, BackupStaged, Up
  <2> QED
    BY <1>14, <2>1, RecordedStep DEF AbandonManual, TypeOK
<1>15. ASSUME NEW b \in Backups, Take(b) PROVE Recorded'
  <2>1. BackupRecorded(b)'
    BY <1>15 DEF Take, TypeOK, Recorded, Staged, BackupRecorded, Busy, Final, OfJob, Multi,
       BackupStaged, Up
  <2> QED
    BY <1>15, <2>1, RecordedStep DEF Take, TypeOK
<1>16. ASSUME NEW b \in Backups, WaitEnds(b) PROVE Recorded'
  <2>1. BackupRecorded(b)'
    BY <1>16 DEF WaitEnds, TypeOK, Recorded, Staged, BackupRecorded, Busy, Final, OfJob, Multi,
       BackupStaged, Up
  <2> QED
    BY <1>16, <2>1, RecordedStep DEF WaitEnds, TypeOK
<1>17. ASSUME NEW b \in Backups, LockDatabase(b) PROVE Recorded'
  <2>1. BackupRecorded(b)'
    BY <1>17 DEF LockDatabase, TypeOK, Recorded, Staged, BackupRecorded, Busy, Final, OfJob,
       Multi, BackupStaged, Up
  <2> QED
    BY <1>17, <2>1, RecordedStep DEF LockDatabase, TypeOK
<1>18. ASSUME NEW b \in Backups, LockFails(b) PROVE Recorded'
  <2>1. BackupRecorded(b)'
    BY <1>18 DEF LockFails, TypeOK, Recorded, Staged, BackupRecorded, Busy, Final, OfJob,
       Multi, BackupStaged, Up
  <2> QED
    BY <1>18, <2>1, RecordedStep DEF LockFails, TypeOK
<1>19. ASSUME NEW b \in Backups, Adopt(b) PROVE Recorded'
  <2>1. BackupRecorded(b)'
    BY <1>19 DEF Adopt, TypeOK, Recorded, Staged, BackupRecorded, Busy, Final, OfJob, Multi,
       BackupStaged, Up
  <2> QED
    BY <1>19, <2>1, RecordedStep DEF Adopt, TypeOK
<1>20. ASSUME NEW b \in Backups, CancelledInQueue(b) PROVE Recorded'
  <2>1. BackupRecorded(b)'
    BY <1>20 DEF CancelledInQueue, Return, TypeOK, Recorded, Staged, BackupRecorded, Busy,
       Final, OfJob, Multi, BackupStaged, Up
  <2> QED
    BY <1>20, <2>1, RecordedStep DEF CancelledInQueue, Return, TypeOK
<1>21. ASSUME NEW b \in Backups, AcquireSlot(b) PROVE Recorded'
  <2>1. BackupRecorded(b)'
    BY <1>21 DEF AcquireSlot, TypeOK, Recorded, Staged, BackupRecorded, Busy, Final, OfJob,
       Multi, BackupStaged, Up
  <2> QED
    BY <1>21, <2>1, RecordedStep DEF AcquireSlot, TypeOK
<1>22. ASSUME NEW b \in Backups, NoSlotNeeded(b) PROVE Recorded'
  <2>1. BackupRecorded(b)'
    BY <1>22 DEF NoSlotNeeded, TypeOK, Recorded, Staged, BackupRecorded, Busy, Final, OfJob,
       Multi, BackupStaged, Up
  <2> QED
    BY <1>22, <2>1, RecordedStep DEF NoSlotNeeded, TypeOK
<1>23. ASSUME NEW b \in Backups, SlotRefused(b) PROVE Recorded'
  <2>1. BackupRecorded(b)'
    BY <1>23 DEF SlotRefused, Return, TypeOK, Recorded, Staged, BackupRecorded, Busy, Final,
       OfJob, Multi, BackupStaged, Up
  <2> QED
    BY <1>23, <2>1, RecordedStep DEF SlotRefused, Return, TypeOK
<1>24. ASSUME NEW b \in Backups, SlotGranted(b) PROVE Recorded'
  <2>1. BackupRecorded(b)'
    BY <1>24 DEF SlotGranted, TypeOK, Recorded, Staged, BackupRecorded, Busy, Final, OfJob,
       Multi, BackupStaged, Up
  <2> QED
    BY <1>24, <2>1, RecordedStep DEF SlotGranted, TypeOK
<1>25. ASSUME NEW b \in Backups, LeaveQueue(b) PROVE Recorded'
  <2>1. BackupRecorded(b)'
    BY <1>25 DEF LeaveQueue, TypeOK, Recorded, Staged, BackupRecorded, Busy, Final, OfJob,
       Multi, BackupStaged, Up
  <2> QED
    BY <1>25, <2>1, RecordedStep DEF LeaveQueue, TypeOK
<1>26. ASSUME NEW b \in Backups, StartDump(b) PROVE Recorded'
  <2>1. BackupRecorded(b)'
    BY <1>26 DEF StartDump, TypeOK, Recorded, Staged, BackupRecorded, Busy, Final, OfJob,
       Multi, BackupStaged, Up
  <2> QED
    BY <1>26, <2>1, RecordedStep DEF StartDump, TypeOK
<1>27. ASSUME NEW b \in Backups, DumpFails(b) PROVE Recorded'
  <2>1. BackupRecorded(b)'
    BY <1>27 DEF DumpFails, Return, FailStatus, TypeOK, Recorded, Staged, BackupRecorded, Busy,
       Final, OfJob, Multi, BackupStaged, Up
  <2> QED
    BY <1>27, <2>1, RecordedStep DEF DumpFails, Return, FailStatus, TypeOK
<1>28. ASSUME NEW b \in Backups, DumpEnds(b) PROVE Recorded'
  <2>1. BackupRecorded(b)'
    BY <1>28 DEF DumpEnds, TypeOK, Recorded, Staged, BackupRecorded, Busy, Final, OfJob, Multi,
       BackupStaged, Up
  <2> QED
    BY <1>28, <2>1, RecordedStep DEF DumpEnds, TypeOK
<1>29. ASSUME NEW b \in Backups, Finishing(b) PROVE Recorded'
  <2>1. BackupRecorded(b)'
    BY <1>29 DEF Finishing, TypeOK, Recorded, Staged, BackupRecorded, Busy, Final, OfJob,
       Multi, BackupStaged, Up
  <2> QED
    BY <1>29, <2>1, RecordedStep DEF Finishing, TypeOK
<1>30. ASSUME NEW b \in Backups, Complete(b) PROVE Recorded'
  <2>1. BackupRecorded(b)'
    BY <1>30 DEF Complete, Return, FailStatus, TypeOK, Recorded, Staged, BackupRecorded, Busy,
       Final, OfJob, Multi, BackupStaged, Up
  <2> QED
    BY <1>30, <2>1, RecordedStep DEF Complete, Return, FailStatus, TypeOK
<1>31. ASSUME NEW b \in Backups, AbandonBackup(b) PROVE Recorded'
  <2>1. \A x \in Runs \ {RunOf(b)} : /\ summary'[x] = summary[x] /\ stage'[x] = stage[x]
                               /\ sched.job = x => sched'.job = x
    BY <1>31 DEF AbandonBackup, Over, TypeOK
  <2>2. RunRecorded(RunOf(b))'
    BY <1>31, ManualOne DEF AbandonBackup, Over, TypeOK, Recorded, RunRecorded, Staged,
       RunStaged, BackupStaged, OfJob, Multi, Up
  <2>3. ASSUME NEW c \in Backups, RunOf(c) = RunOf(b) PROVE BackupRecorded(c)'
    BY <1>31, <2>3, ManualOne DEF AbandonBackup, Over, TypeOK, Recorded, Staged,
       BackupRecorded, Busy, Final, OfJob, Multi, BackupStaged, Up
  <2>4. \A c \in Backups : RunOf(c) # RunOf(b) => pc'[c] = pc[c] /\ records'[c] = records[c] /\ result'[c] = result[c]
    BY <1>31 DEF AbandonBackup, Over, TypeOK
  <2> QED
    BY <1>31, <2>1, <2>2, <2>3, <2>4, RecordedRun DEF AbandonBackup, Over
<1>32. ASSUME NEW b \in Backups, SaveRecord(b) PROVE Recorded'
  <2>1. /\ pc[b] = "returned" /\ pc'[b] = "saved" /\ records'[b] = result[b] /\ UNCHANGED <<result, summary, stage>>
        /\ BackupRecorded(b) /\ BackupStaged(b) /\ RunStaged(RunOf(b)) /\ RunRecorded(RunOf(b))
    BY <1>32 DEF SaveRecord, TypeOK, Recorded, Staged
  <2>2. stage[RunOf(b)] = "running"
    BY <2>1 DEF TypeOK, Stages, BackupStaged
  <2>3. OfJob(RunOf(b)) => summary[RunOf(b)].status = "running" /\ summary[RunOf(b)].of[Database(b)] # "none"
    BY <2>1, <2>2 DEF RunRecorded
  <2>4. BackupRecorded(b)'
    BY <2>1, <2>3 DEF BackupRecorded, Final
  <2> QED
    BY <1>32, <2>4, RecordedStep DEF SaveRecord, TypeOK
<1>33. ASSUME NEW b \in Backups, End(b) PROVE Recorded'
  <2> DEFINE r == RunOf(b)
  <2>1. /\ pc[b] = "saved" /\ pc'[b] = "ended" /\ UNCHANGED <<stage, sched, records, life>> /\ records[b] = result[b]
        /\ result'[b] = "none" /\ \A c \in Backups \ {b} : pc'[c] = pc[c] /\ result'[c] = result[c]
        /\ BackupRecorded(b) /\ RunRecorded(r) /\ result[b] \in Final
    BY <1>33 DEF End, TypeOK, Recorded, BackupRecorded
  <2>2. /\ \A x \in Runs : summary'[x].status = summary[x].status
        /\ \A x \in Runs, d \in Databases : <<x, d>> # b => summary'[x].of[d] = summary[x].of[d]
        /\ OfJob(r) => summary'[r].of[Database(b)] = result[b]
        /\ ~OfJob(r) => summary' = summary
    BY <1>33 DEF End, TypeOK, Summaries, OfJob
  <2>3. ASSUME NEW x \in Runs PROVE RunRecorded(x)'
    <3>1. \A d \in Selection[x] : summary[x].of[d] # "none" => summary'[x].of[d] # "none"
      BY <2>1, <2>2 DEF Final
    <3> QED
      BY <2>1, <2>2, <3>1 DEF Recorded, RunRecorded, Up
  <2>4. ASSUME NEW c \in Backups, c # b PROVE BackupRecorded(c)'
    BY <2>1, <2>2, <2>4 DEF Recorded, BackupRecorded, Up
  <2>5. BackupRecorded(b)'
    BY <2>1, <2>2 DEF BackupRecorded, Final, Up
  <2> QED
    BY <2>3, <2>4, <2>5 DEF Recorded
<1>34. ASSUME NEW b \in Backups, SaveManual(b) PROVE Recorded'
  <2>1. BackupRecorded(b)'
    BY <1>34 DEF SaveManual, TypeOK, Recorded, Staged, BackupRecorded, Busy, Final, OfJob,
       Multi, BackupStaged, Up
  <2> QED
    BY <1>34, <2>1, RecordedStep DEF SaveManual, TypeOK
<1>35. ASSUME NEW b \in Backups, EndManual(b) PROVE Recorded'
  <2>1. \A x \in Runs \ {RunOf(b)} : /\ summary'[x] = summary[x] /\ stage'[x] = stage[x]
                               /\ sched.job = x => sched'.job = x
    BY <1>35 DEF EndManual, Over, TypeOK
  <2>2. RunRecorded(RunOf(b))'
    BY <1>35, ManualOne DEF EndManual, Over, TypeOK, Recorded, RunRecorded, Staged, RunStaged,
       OfJob, Multi, Up
  <2>3. ASSUME NEW c \in Backups, RunOf(c) = RunOf(b) PROVE BackupRecorded(c)'
    BY <1>35, <2>3, ManualOne DEF EndManual, Over, TypeOK, Recorded, Staged, BackupRecorded,
       Busy, Final, OfJob, Multi, BackupStaged, Up
  <2>4. \A c \in Backups : RunOf(c) # RunOf(b) => pc'[c] = pc[c] /\ records'[c] = records[c] /\ result'[c] = result[c]
    BY <1>35 DEF EndManual, Over, TypeOK
  <2> QED
    BY <1>35, <2>1, <2>2, <2>3, <2>4, RecordedRun DEF EndManual, Over
<1>36. ASSUME NEW q \in DOMAIN reqs, NEW b \in Backups, CancelBackup(q, b) PROVE Recorded'
  <2>1. Up' => Up
    BY <1>36 DEF CancelBackup, Event, Up, TypeOK, Staged, Requests
  <2> QED
    BY <1>36, <2>1, RecordedSame DEF CancelBackup, TypeOK
<1>37. ASSUME NEW q \in DOMAIN reqs, NEW b \in Backups, CancelNext(q, b) PROVE Recorded'
  <2>1. Up' => Up
    BY <1>37 DEF CancelNext, Event, Up, TypeOK, Staged, Requests
  <2> QED
    BY <1>37, <2>1, RecordedSame DEF CancelNext, TypeOK
<1>38. ASSUME NEW q \in DOMAIN reqs, NEW r \in Runs, CancelJobRun(q, r) PROVE Recorded'
  <2>1. Up' => Up
    BY <1>38 DEF CancelJobRun, Event, Up, TypeOK, Staged, Requests
  <2> QED
    BY <1>38, <2>1, RecordedSame DEF CancelJobRun, TypeOK
<1>39. ASSUME NEW q \in DOMAIN reqs, ForceStop(q) PROVE Recorded'
  <2>1. Up' => Up
    BY <1>39 DEF ForceStop, Event, Up, TypeOK, Staged, Requests
  <2> QED
    BY <1>39, <2>1, RecordedSame DEF ForceStop, TypeOK
<1>40. ASSUME NEW q \in DOMAIN reqs, ListOthers(q) PROVE Recorded'
  <2>1. Up' => Up
    BY <1>40 DEF ListOthers, Event, Up, TypeOK, Staged, Requests
  <2> QED
    BY <1>40, <2>1, RecordedSame DEF ListOthers, TypeOK
<1>41. ASSUME NEW q \in DOMAIN reqs, WindowEnds(q) PROVE Recorded'
  <2>1. Up' => Up
    BY <1>41 DEF WindowEnds, Event, Up, TypeOK, Staged, Requests
  <2> QED
    BY <1>41, <2>1, RecordedSame DEF WindowEnds, TypeOK
<1>42. ASSUME NEW q \in DOMAIN reqs, CancelDone(q) PROVE Recorded'
  <2>1. Up' => Up
    BY <1>42 DEF CancelDone, Event, Up, TypeOK, Staged, Requests
  <2> QED
    BY <1>42, <2>1, RecordedSame DEF CancelDone, TypeOK
<1>43. CASE PauseRuns
  <2>1. Up' => Up
    BY <1>43 DEF PauseRuns, Event, Up, TypeOK, Staged, Requests
  <2> QED
    BY <1>43, <2>1, RecordedSame DEF PauseRuns, TypeOK
<1>44. CASE ResumeRuns
  <2>1. Up' => Up
    BY <1>44 DEF ResumeRuns, Event, Up, TypeOK, Staged, Requests
  <2> QED
    BY <1>44, <2>1, RecordedSame DEF ResumeRuns, TypeOK
<1>45. CASE Stop
  <2>1. Up' => Up
    BY <1>45 DEF Stop, Event, Up, TypeOK, Staged, Requests
  <2> QED
    BY <1>45, <2>1, RecordedSame DEF Stop, TypeOK
<1>46. CASE Shutdown
  <2>1. Up' => Up
    BY <1>46 DEF Shutdown, Event, Up, TypeOK, Staged, Requests
  <2> QED
    BY <1>46, <2>1, RecordedSame DEF Shutdown, TypeOK
<1>47. CASE StopScheduler
  <2>1. Up' => Up
    BY <1>47 DEF StopScheduler, Event, Up, TypeOK, Staged, Requests
  <2> QED
    BY <1>47, <2>1, RecordedSame DEF StopScheduler, TypeOK
<1>48. CASE Crash
  <2>1. ASSUME NEW x \in Runs PROVE RunRecorded(x)'
    BY <1>48 DEF Crash, NewScheduler, Event, TypeOK, Recorded, RunRecorded, Staged, RunStaged,
       OfJob, Up
  <2>2. ASSUME NEW c \in Backups PROVE BackupRecorded(c)'
    BY <1>48 DEF Crash, Event, TypeOK, Recorded, Staged, BackupRecorded, Busy, Final, OfJob,
       Multi, BackupStaged, Up
  <2> QED
    BY <2>1, <2>2 DEF Recorded
<1>49. CASE Start
  <2>1. ASSUME NEW x \in Runs PROVE RunRecorded(x)'
    BY <1>49 DEF Start, NewScheduler, Event, TypeOK, Recorded, RunRecorded, Staged, RunStaged,
       OfJob, Up
  <2>2. ASSUME NEW c \in Backups PROVE BackupRecorded(c)'
    BY <1>49 DEF Start, Event, TypeOK, Recorded, Staged, BackupRecorded, Busy, Final, OfJob,
       Multi, BackupStaged, Up
  <2> QED
    BY <2>1, <2>2 DEF Recorded
<1>50. ASSUME NEW b \in Backups, FailInterrupted(b) PROVE Recorded'
  <2>1. BackupRecorded(b)'
    BY <1>50 DEF FailInterrupted, TypeOK, Recorded, Staged, BackupRecorded, Busy, Final, OfJob,
       Multi, BackupStaged, Up
  <2> QED
    BY <1>50, <2>1, RecordedStep DEF FailInterrupted, TypeOK
<1>51. ASSUME NEW r \in Runs, FailInterruptedRun(r) PROVE Recorded'
  <2>0. summary'[r].status = FinishStatus(Rebuilt(r), TRUE) /\ summary'[r].of = Rebuilt(r)
    BY <1>51 DEF FailInterruptedRun, TypeOK
  <2>f. FinishStatus(Rebuilt(r), TRUE) \in {"ok", "partial", "failed", "cancelled"}
    BY FinishType
  <2>1. \A x \in Runs \ {r} : /\ summary'[x] = summary[x] /\ stage'[x] = stage[x]
                               /\ sched.job = x => sched'.job = x
    BY <1>51, SummaryFields DEF FailInterruptedRun, TypeOK
  <2>2. RunRecorded(r)'
    BY <1>51, <2>0, <2>f DEF FailInterruptedRun, TypeOK, Recorded, RunRecorded, Staged,
       RunStaged, OfJob, Up
  <2>3. ASSUME NEW c \in Backups, RunOf(c) = r PROVE BackupRecorded(c)'
    <3>1. /\ UNCHANGED <<pc, records, result, life>> /\ ~Up /\ records[c] # "in_progress"
          /\ summary[r].status = "running" /\ c = <<r, Database(c)>> /\ Database(c) \in Databases
      BY <1>51, <2>3 DEF FailInterruptedRun, backupVars, Up
    <3>2. BackupRecorded(c)
      BY DEF Recorded
    <3>3. OfJob(r) /\ records[c] # "none" => summary[r].of[Database(c)] # "none"
      BY <2>3, <3>2 DEF BackupRecorded
    <3>4. OfJob(r) /\ records[c] # "none" => Rebuilt(r)[Database(c)] = records[c]
      BY <3>1, <3>3 DEF Rebuilt
    <3> QED
      BY <2>0, <2>3, <3>1, <3>2, <3>4 DEF BackupRecorded, Up
  <2>4. \A c \in Backups : RunOf(c) # r => pc'[c] = pc[c] /\ records'[c] = records[c] /\ result'[c] = result[c]
    BY <1>51 DEF FailInterruptedRun, TypeOK
  <2> QED
    BY <1>51, <2>1, <2>2, <2>3, <2>4, RecordedRun DEF FailInterruptedRun
<1> QED
  BY <1>1, <1>2, <1>3, <1>4, <1>5, <1>6, <1>7, <1>8, <1>9, <1>10, <1>11, <1>12, <1>13, <1>14,
     <1>15, <1>16, <1>17, <1>18, <1>19, <1>20, <1>21, <1>22, <1>23, <1>24, <1>25, <1>26, <1>27,
     <1>28, <1>29, <1>30, <1>31, <1>32, <1>33, <1>34, <1>35, <1>36, <1>37, <1>38, <1>39, <1>40,
     <1>41, <1>42, <1>43, <1>44, <1>45, <1>46, <1>47, <1>48, <1>49, <1>50, <1>51
     DEF Next, Begin, RunStep, BackupStep, LockStep, EngineStep, EndStep, Request, Process

-----------------------------------------------------------------------------
(* The slots of the connection.                                            *)

\* A slot queue that counts its holders, and in which nobody waits twice or waits and
\* holds: what admitLocked and freeLocked are given and leave behind.
QueueOk(q) ==
    /\ q \in Queues /\ q.held = Cardinality(q.holders)
    /\ IsInjective(q.waiters) /\ ToSet(q.waiters) \cap q.holders = {}

\* There are finitely many backups.
LEMMA FiniteBackups == IsFiniteSet(Backups) /\ \A S \in SUBSET Backups : IsFiniteSet(S)
<1>1. IsFiniteSet(Runs \X Databases)
  BY JobRunsConstants, FS_Product
<1> QED
  BY <1>1, FS_Subset DEF Backups

\* Dropping the first n elements of a sequence shifts the others.
LEMMA DropFirst ==
    ASSUME NEW S, NEW s \in Seq(S), NEW n \in 0..Len(s)
    PROVE  /\ SubSeq(s, n + 1, Len(s)) \in Seq(S) /\ Len(SubSeq(s, n + 1, Len(s))) = Len(s) - n
           /\ \A i \in 1..(Len(s) - n) : SubSeq(s, n + 1, Len(s))[i] = s[n + i]
OBVIOUS

\* The first n elements of a sequence without repetitions are n elements.
LEMMA FirstCount ==
    ASSUME NEW S, NEW s \in Seq(S), IsInjective(s), NEW n \in 0..Len(s), NEW F, F = {s[i] : i \in 1..n}
    PROVE  IsFiniteSet(F) /\ Cardinality(F) = n
<1> DEFINE f == [i \in 1..n |-> s[i]]
<1>1. f \in Bijection(1..n, F)
  <2>1. DOMAIN s = 1..Len(s) /\ Len(s) \in Nat /\ \A i \in 1..n : i \in 1..Len(s)
    OBVIOUS
  <2>2. f \in [1..n -> F] /\ \A i \in 1..n : f[i] = s[i]
    OBVIOUS
  <2>3. \A i, j \in 1..n : f[i] = f[j] => i = j
    BY <2>1, <2>2 DEF IsInjective
  <2>4. \A x \in F : \E i \in 1..n : f[i] = x
    BY <2>2
  <2> HIDE DEF f
  <2>5. f \in Injection(1..n, F)
    BY <2>2, <2>3 DEF Injection, IsInjective
  <2>6. f \in Surjection(1..n, F)
    BY <2>2, <2>4 DEF Surjection
  <2> QED
    BY <2>5, <2>6 DEF Bijection
<1>2. IsFiniteSet(1..n) /\ Cardinality(1..n) = n
  BY FS_Interval
<1>3. ExistsBijection(1..n, F)
  BY <1>1 DEF ExistsBijection
<1> QED
  BY <1>2, <1>3, FS_Bijection

\* admitLocked: afterwards nobody waits while a slot is free, whoever waited or held
\* still does one of the two, and no holder lost its slot.
LEMMA AdmitOk ==
    ASSUME NEW q, QueueOk(q)
    PROVE  /\ QueueOk(Admit(q)) /\ Admit(q).limit = q.limit
           /\ Admit(q).waiters # <<>> => Admit(q).held >= Admit(q).limit
           /\ ToSet(Admit(q).waiters) \cup Admit(q).holders = ToSet(q.waiters) \cup q.holders
           /\ q.holders \subseteq Admit(q).holders
<1> DEFINE w == q.waiters
           n == IF q.held >= q.limit THEN 0 ELSE IF q.limit - q.held < Len(w) THEN q.limit - q.held ELSE Len(w)
           F == {w[i] : i \in 1..n}
           v == SubSeq(w, n + 1, Len(w))
           a == Admit(q)
<1>0. /\ q.held \in Nat /\ q.limit \in Nat /\ w \in Seq(Backups) /\ q.holders \in SUBSET Backups
      /\ q.limit \in Limits \cup {0} /\ IsInjective(w) /\ Len(w) \in Nat
      /\ \A i, j \in 1..Len(w) : w[i] = w[j] => i = j
  <2>1. q \in Queues /\ IsInjective(w)
    BY DEF QueueOk
  <2>2. q.limit \in Limits \cup {0} /\ q.held \in Nat /\ w \in Seq(Backups) /\ q.holders \in SUBSET Backups
    BY <2>1 DEF Queues
  <2>3. DOMAIN w = 1..Len(w) /\ Len(w) \in Nat
    BY <2>2
  <2>4. \A i, j \in 1..Len(w) : w[i] = w[j] => i = j
    BY <2>1, <2>3 DEF IsInjective
  <2>5. q.limit \in Nat
    <3>1. \A x \in Limits : x \in Nat
      BY JobRunsConstants
    <3>2. q.limit \in Limits \/ q.limit = 0
      BY <2>2
    <3> QED
      BY <3>1, <3>2
  <2> QED
    BY <2>1, <2>2, <2>3, <2>4, <2>5
<1>1. n \in 0..Len(w)
  BY <1>0
<1> HIDE DEF n
<1>2. a = [held |-> q.held + n, limit |-> q.limit, waiters |-> v, holders |-> q.holders \cup F]
  <2>1. Admit(q) = [q EXCEPT !.held = q.held + n, !.waiters = v, !.holders = q.holders \cup F]
    BY DEF Admit, n
  <2> QED
    BY <2>1 DEF QueueOk, Queues
<1>3. /\ v \in Seq(Backups) /\ Len(v) = Len(w) - n
      /\ \A i \in 1..(Len(w) - n) : v[i] = w[n + i]
  BY <1>0, <1>1, DropFirst
<1>4. IsFiniteSet(F) /\ Cardinality(F) = n
  BY SMTT(30), <1>0, <1>1, FirstCount
<1> HIDE DEF v, a, F, w
<1>5. ToSet(w) = F \cup ToSet(v) /\ F \cap ToSet(v) = {} /\ F \subseteq ToSet(w)
  <2>1. DOMAIN w = 1..Len(w) /\ DOMAIN v = 1..Len(v)
    BY <1>0, <1>1, <1>3
  <2>2. ASSUME NEW i \in 1..Len(w) PROVE w[i] \in F \/ w[i] \in ToSet(v)
    <3>1. CASE i <= n
      BY <1>0, <1>1, <3>1 DEF F
    <3>2. CASE i > n
      <4>1. i - n \in 1..(Len(w) - n) /\ v[i - n] = w[n + (i - n)] /\ n + (i - n) = i
        BY <1>0, <1>1, <1>3, <3>2
      <4> QED
        BY <1>3, <2>1, <4>1 DEF ToSet
    <3> QED
      BY <1>0, <1>1, <3>1, <3>2
  <2>3. ASSUME NEW j \in 1..Len(v) PROVE n + j \in 1..Len(w) /\ v[j] = w[n + j] /\ v[j] \notin F
    <3>1. n + j \in 1..Len(w) /\ v[j] = w[n + j]
      BY <1>0, <1>1, <1>3
    <3>2. ASSUME NEW i \in 1..n PROVE w[i] # w[n + j]
      <4>1. i \in 1..Len(w) /\ i # n + j
        BY <1>0, <1>1
      <4> QED
        BY <1>0, <3>1, <4>1
    <3> QED
      BY <3>1, <3>2 DEF F
  <2>4. F \subseteq ToSet(w)
    BY <1>0, <1>1, <2>1 DEF F, ToSet
  <2>5. \A x : x \in ToSet(w) <=> \E i \in 1..Len(w) : x = w[i]
    BY <2>1 DEF ToSet
  <2>6. \A x : x \in ToSet(v) <=> \E j \in 1..Len(v) : x = v[j]
    BY <2>1 DEF ToSet
  <2> QED
    BY <2>2, <2>3, <2>4, <2>5, <2>6
<1>6. IsInjective(v)
  <2>1. DOMAIN w = 1..Len(w) /\ DOMAIN v = 1..Len(v)
    BY <1>0, <1>3
  <2>2. ASSUME NEW i \in 1..Len(v), NEW j \in 1..Len(v), v[i] = v[j] PROVE i = j
    <3>1. n + i \in 1..Len(w) /\ n + j \in 1..Len(w) /\ w[n + i] = w[n + j]
      BY <1>0, <1>1, <1>3, <2>2
    <3> QED
      BY <1>0, <1>1, <3>1
  <2> QED
    BY <2>1, <2>2 DEF IsInjective
<1>7. IsFiniteSet(q.holders)
  BY <1>0, <1>1, FiniteBackups
<1>8. F \cap q.holders = {} /\ ToSet(w) \subseteq Backups
  BY <1>0, <1>1, <1>5 DEF QueueOk, ToSet, w
<1>9. a.held = Cardinality(a.holders)
  <2>1. Cardinality(q.holders \cup F) = Cardinality(q.holders) + n - Cardinality(q.holders \cap F)
    BY <1>4, <1>7, FS_Union
  <2>2. q.holders \cap F = {} /\ q.held = Cardinality(q.holders)
    BY <1>8 DEF QueueOk
  <2> QED
    <3>1. a.held = q.held + n /\ a.holders = q.holders \cup F
      BY <1>2
    <3>2. Cardinality(q.holders \cap F) = 0
      BY <2>2, FS_EmptySet
    <3> QED
      BY <1>0, <1>1, <2>1, <2>2, <3>1, <3>2
<1>10. QueueOk(a)
  <2>1. a \in Queues
    BY <1>0, <1>1, <1>2, <1>3, <1>5, <1>8 DEF Queues
  <2>2. ToSet(w) \cap q.holders = {}
    BY DEF QueueOk, w
  <2>3. a.waiters = v /\ a.holders = q.holders \cup F
    BY <1>2
  <2>4. ToSet(v) \cap (q.holders \cup F) = {}
    BY <1>5, <2>2
  <2> QED
    BY <1>6, <1>9, <2>1, <2>3, <2>4 DEF QueueOk
<1>11. a.waiters # <<>> => a.held >= a.limit
  BY <1>0, <1>1, <1>2, <1>3 DEF n
<1>12. a.limit = q.limit /\ a.waiters = v /\ a.holders = q.holders \cup F
  BY <1>2
<1>13. ToSet(a.waiters) \cup a.holders = ToSet(q.waiters) \cup q.holders
  BY <1>5, <1>12 DEF w
<1> QED
  BY <1>10, <1>11, <1>12, <1>13 DEF a

\* dropIdleLocked forgets only a queue without holders and waiters.
LEMMA DropIdleOk ==
    ASSUME NEW q, QueueOk(q), q.waiters # <<>> => q.held >= q.limit
    PROVE  LET d == DropIdle(q) IN
           /\ QueueOk(d) /\ (d.waiters # <<>> => d.held >= d.limit)
           /\ d.holders = q.holders /\ ToSet(d.waiters) = ToSet(q.waiters)
<1>1. CASE q.held = 0 /\ q.waiters = <<>>
  <2>1. q.holders = {}
    BY <1>1, FiniteBackups, FS_EmptySet DEF QueueOk, Queues
  <2>2. DropIdle(q) = NewQueue /\ NewQueue.waiters = <<>> /\ NewQueue.holders = {} /\ NewQueue.held = 0 /\ NewQueue.limit = 0
    BY <1>1 DEF DropIdle, NewQueue
  <2>3. NewQueue \in Queues
    BY DEF NewQueue, Queues
  <2> QED
    BY <1>1, <2>1, <2>2, <2>3, FS_EmptySet DEF QueueOk, IsInjective, ToSet
<1>2. CASE ~(q.held = 0 /\ q.waiters = <<>>)
  BY <1>2 DEF DropIdle
<1> QED
  BY <1>1, <1>2

\* freeLocked: the slot of the holder, and of nobody else, is given up, and the next
\* waiter has it.
LEMMA FreeOk ==
    ASSUME NEW q, QueueOk(q), NEW b \in q.holders
    PROVE  LET f == Free(q, b) IN
           /\ QueueOk(f) /\ (f.waiters # <<>> => f.held >= f.limit)
           /\ ToSet(f.waiters) \cup f.holders = (ToSet(q.waiters) \cup q.holders) \ {b}
           /\ q.holders \ {b} \subseteq f.holders
<1> DEFINE p == [q EXCEPT !.held = @ - 1, !.holders = @ \ {b}]
<1>1. p.held = q.held - 1 /\ p.holders = q.holders \ {b} /\ p.waiters = q.waiters /\ p.limit = q.limit
  BY DEF QueueOk, Queues
<1>2. IsFiniteSet(q.holders) /\ Cardinality(q.holders \ {b}) = Cardinality(q.holders) - 1
      /\ Cardinality(q.holders \ {b}) \in Nat
  BY FiniteBackups, FS_RemoveElement, FS_CardinalityType DEF QueueOk, Queues
<1>3. p \in Queues
  BY <1>2 DEF QueueOk, Queues
<1>4. QueueOk(p)
  BY <1>1, <1>2, <1>3 DEF QueueOk
<1>5. Free(q, b) = DropIdle(Admit(p))
  BY DEF Free
<1> HIDE DEF p
<1>6. b \notin ToSet(q.waiters)
  BY DEF QueueOk
<1> QED
  BY <1>1, <1>4, <1>5, <1>6, AdmitOk, DropIdleOk

\* A waiter that leaves is the only one missing afterwards, and the order of the
\* others is kept.
LEMMA LeaveOk ==
    ASSUME NEW s \in Seq(Backups), IsInjective(s), NEW b
    PROVE  /\ RemoveFirst(s, b) \in Seq(Backups) /\ IsInjective(RemoveFirst(s, b))
           /\ ToSet(RemoveFirst(s, b)) = ToSet(s) \ {b}
<1>1. DOMAIN s = 1..Len(s) /\ Len(s) \in Nat
  OBVIOUS
<1>2. CASE \E i \in 1..Len(s) : s[i] = b
  <2>1. PICK k \in 1..Len(s) : s[k] = b
    BY <1>2
  <2> DEFINE t == RemoveAt(s, k)
  <2>2. {i \in 1..Len(s) : s[i] = b} = {k}
    BY <1>1, <2>1 DEF IsInjective
  <2>3. Min({k}) = k
    BY <2>1 DEF Min
  <2>4. RemoveFirst(s, b) = t
    BY <1>2, <2>2, <2>3 DEF RemoveFirst, SelectInSeq
  <2>5. /\ t \in Seq(Backups) /\ Len(t) = Len(s) - 1
        /\ \A i \in 1..Len(t) : t[i] = IF i < k THEN s[i] ELSE s[i + 1]
    <3> DEFINE u == SubSeq(s, 1, k - 1)
               v == SubSeq(s, k + 1, Len(s))
    <3>1. u \in Seq(Backups) /\ Len(u) = k - 1 /\ \A i \in 1..(k - 1) : u[i] = s[i]
      BY <1>1, <2>1
    <3>2. v \in Seq(Backups) /\ Len(v) = Len(s) - k /\ \A i \in 1..(Len(s) - k) : v[i] = s[k + i]
      <4>1. k \in 0..Len(s) /\ s \in Seq(Backups)
        BY <1>1, <2>1
      <4> QED
        BY ONLY <4>1, DropFirst
    <3>3. t = u \o v
      BY DEF RemoveAt
    <3> HIDE DEF u, v, t
    <3>4. t \in Seq(Backups) /\ Len(t) = Len(u) + Len(v)
      <4>1. u \in Seq(Backups) /\ v \in Seq(Backups)
        BY <3>1, <3>2
      <4> QED
        BY <3>3, <4>1
    <3>5. \A i \in 1..Len(t) : t[i] = IF i <= Len(u) THEN u[i] ELSE v[i - Len(u)]
      BY <3>1, <3>2, <3>3
    <3>6. ASSUME NEW i \in 1..Len(t) PROVE t[i] = IF i < k THEN s[i] ELSE s[i + 1]
      <4>1. CASE i < k
        BY <1>1, <2>1, <3>1, <3>5, <4>1
      <4>2. CASE i >= k
        <5>1. i - Len(u) \in 1..(Len(s) - k) /\ k + (i - Len(u)) = i + 1 /\ ~(i <= Len(u))
          BY <1>1, <2>1, <3>1, <3>2, <3>4, <4>2
        <5> QED
          BY <3>2, <3>5, <4>2, <5>1
      <4> QED
        BY <2>1, <4>1, <4>2
    <3> QED
      BY <1>1, <2>1, <3>1, <3>2, <3>4, <3>6
  <2> HIDE DEF t
  <2>6. DOMAIN t = 1..Len(t)
    BY <2>5
  <2>7. IsInjective(t)
    <3>1. ASSUME NEW i \in 1..Len(t), NEW j \in 1..Len(t), t[i] = t[j] PROVE i = j
      <4> DEFINE at(m) == IF m < k THEN m ELSE m + 1
      <4>1. at(i) \in 1..Len(s) /\ at(j) \in 1..Len(s) /\ s[at(i)] = s[at(j)]
        BY <1>1, <2>1, <2>5, <3>1
      <4>2. at(i) = at(j)
        BY <1>1, <4>1 DEF IsInjective
      <4> QED
        BY <2>1, <2>5, <4>2
    <3> QED
      BY <2>6, <3>1 DEF IsInjective
  <2>8. ToSet(t) = ToSet(s) \ {b}
    <3>1. ASSUME NEW i \in 1..Len(t) PROVE t[i] \in ToSet(s) \ {b}
      <4> DEFINE j == IF i < k THEN i ELSE i + 1
      <4>1. j \in 1..Len(s) /\ j # k /\ t[i] = s[j]
        BY <1>1, <2>1, <2>5, <3>1
      <4>2. s[j] # s[k]
        BY <1>1, <2>1, <4>1 DEF IsInjective
      <4> QED
        BY <1>1, <2>1, <4>1, <4>2 DEF ToSet
    <3>2. ASSUME NEW j \in 1..Len(s), j # k PROVE s[j] \in ToSet(t)
      <4>1. CASE j < k
        BY <1>1, <2>1, <2>5, <2>6, <4>1 DEF ToSet
      <4>2. CASE j > k
        <5>1. j - 1 \in 1..Len(t) /\ t[j - 1] = s[j]
          BY <1>1, <2>1, <2>5, <4>2
        <5> QED
          BY <2>6, <5>1 DEF ToSet
      <4> QED
        BY <1>1, <3>2, <4>1, <4>2
    <3>3. \A x : x \in ToSet(t) <=> \E i \in 1..Len(t) : x = t[i]
      BY <2>6 DEF ToSet
    <3>4. \A x : x \in ToSet(s) <=> \E i \in 1..Len(s) : x = s[i]
      BY <1>1 DEF ToSet
    <3> QED
      BY <2>1, <3>1, <3>2, <3>3, <3>4
  <2> QED
    BY <2>4, <2>5, <2>7, <2>8
<1>3. CASE ~\E i \in 1..Len(s) : s[i] = b
  BY <1>1, <1>3 DEF RemoveFirst, ToSet
<1> QED
  BY <1>2, <1>3

\* Where in the engine a backup may hold a slot.
SlotPlaces == {"waiting", "slotted", "dumping", "dumped", "finishing"}

\* SlotsUsed says of the queue what the operations on it need.
LEMMA QueueIsOk == ASSUME TypeOK, SlotsUsed PROVE QueueOk(queue)
BY DEF TypeOK, SlotsUsed, QueueOk

\* A step of one backup keeps SlotsUsed when the new queue counts its holders, keeps the
\* others in it, and agrees with where the backup has gone.
LEMMA SlotsStep ==
    ASSUME TypeOK, SlotsUsed, QueueOk(queue'), queue'.waiters # <<>> => queue'.held >= queue'.limit,
           NEW b \in Backups, \A c \in Backups \ {b} : pc'[c] = pc[c],
           \A c \in Backups \ {b} : c \in ToSet(queue'.waiters) \cup queue'.holders <=> c \in ToSet(queue.waiters) \cup queue.holders,
           queue.holders \ {b} \subseteq queue'.holders,
           b \in queue'.holders => pc'[b] \in SlotPlaces,
           b \in ToSet(queue'.waiters) <=> pc'[b] = "waiting" /\ b \notin queue'.holders
    PROVE  queue' \in Queues /\ SlotsUsed'
<1>1. queue' \in Queues /\ ToSet(queue'.waiters) \cap queue'.holders = {} /\ queue'.holders \subseteq Backups
  BY DEF QueueOk, Queues
<1>2. ToSet(queue'.waiters) \subseteq Backups
  BY <1>1 DEF Queues, ToSet
<1>3. \A c \in ToSet(queue.waiters) : pc[c] = "waiting" /\ c \notin queue.holders
  BY DEF SlotsUsed
<1>4. \A c \in queue'.holders : pc'[c] \in {"waiting", "slotted", "dumping", "dumped", "finishing"}
  BY <1>1, <1>3 DEF SlotsUsed, SlotPlaces
<1>5. ToSet(queue'.waiters) = {c \in Backups : pc'[c] = "waiting"} \ queue'.holders
  BY <1>1, <1>2, <1>3 DEF SlotsUsed
<1> QED
  BY <1>1, <1>4, <1>5 DEF SlotsUsed, QueueOk

\* A step that leaves the queue alone keeps SlotsUsed when no backup leaves the places of
\* a holder or of a waiter.
LEMMA SlotsSame ==
    ASSUME TypeOK, SlotsUsed, UNCHANGED queue,
           \A c \in Backups : pc'[c] # pc[c] =>
              IF c \in queue.holders THEN pc'[c] \in SlotPlaces ELSE pc[c] # "waiting" /\ pc'[c] # "waiting"
    PROVE  queue' \in Queues /\ SlotsUsed'
<1>1. queue.holders \subseteq Backups
  BY DEF TypeOK, Queues
<1>2. \A c \in queue.holders : pc'[c] \in {"waiting", "slotted", "dumping", "dumped", "finishing"}
  BY <1>1 DEF SlotsUsed, SlotPlaces
<1>3. {c \in Backups : pc'[c] = "waiting"} \ queue.holders = {c \in Backups : pc[c] = "waiting"} \ queue.holders
  BY DEF SlotPlaces
<1> QED
  BY <1>2, <1>3 DEF SlotsUsed, TypeOK

\* The deferred release of the slot when Engine.Execute returns keeps SlotsUsed.
LEMMA SlotsReturn ==
    ASSUME TypeOK, SlotsUsed, NEW b \in Backups, pc' = [pc EXCEPT ![b] = "returned"], ReleaseSlot(b), pc[b] # "waiting" \/ b \in queue.holders
    PROVE  queue' \in Queues /\ SlotsUsed'
<1>1. QueueOk(queue) /\ pc'[b] = "returned" /\ \A c \in Backups \ {b} : pc'[c] = pc[c]
  BY QueueIsOk DEF TypeOK
<1>2. CASE b \in queue.holders
  <2>1. queue' = Free(queue, b)
    BY <1>2 DEF ReleaseSlot
  <2>2. /\ QueueOk(queue') /\ (queue'.waiters # <<>> => queue'.held >= queue'.limit)
        /\ ToSet(queue'.waiters) \cup queue'.holders = (ToSet(queue.waiters) \cup queue.holders) \ {b}
        /\ queue.holders \ {b} \subseteq queue'.holders
    BY <1>1, <1>2, <2>1, FreeOk
  <2> QED
    BY <1>1, <2>2, SlotsStep
<1>3. CASE b \notin queue.holders
  BY <1>1, <1>3, SlotsSame DEF ReleaseSlot, SlotsUsed, SlotPlaces
<1> QED
  BY <1>2, <1>3

\* AcquireSlot keeps SlotsUsed, also with a new limit that admits others first.
LEMMA SlotsAcquire ==
    ASSUME TypeOK, SlotsUsed, NEW b \in Backups, AcquireSlot(b)
    PROVE  queue' \in Queues /\ SlotsUsed'
<1> DEFINE n == limit[RunOf(b)]
           l == [queue EXCEPT !.limit = n]
           q == Admit(l)
           now == q.held < q.limit /\ q.waiters = <<>>
<1>1. QueueOk(queue) /\ n \in Limits \cup {0} /\ pc[b] = "engine" /\ b \notin queue.holders /\ b \notin ToSet(queue.waiters)
  BY QueueIsOk, BackupFacts DEF TypeOK, AcquireSlot, SlotsUsed
<1>2. l.held = queue.held /\ l.waiters = queue.waiters /\ l.holders = queue.holders /\ l \in Queues
  BY <1>1 DEF QueueOk, Queues
<1>3. QueueOk(l)
  BY <1>1, <1>2 DEF QueueOk
<1> HIDE DEF l
<1>4. /\ QueueOk(q) /\ (q.waiters # <<>> => q.held >= q.limit)
      /\ ToSet(q.waiters) \cup q.holders = ToSet(queue.waiters) \cup queue.holders /\ queue.holders \subseteq q.holders
  BY <1>2, <1>3, AdmitOk
<1>5. /\ queue' = IF now THEN [q EXCEPT !.held = @ + 1, !.holders = @ \cup {b}] ELSE [q EXCEPT !.waiters = Append(@, b)]
      /\ pc'[b] = (IF now THEN "slotted" ELSE "waiting") /\ \A c \in Backups \ {b} : pc'[c] = pc[c]
  BY DEF AcquireSlot, TypeOK, l
<1> HIDE DEF q
<1>6. b \notin q.holders /\ b \notin ToSet(q.waiters) /\ q \in Queues /\ IsFiniteSet(q.holders)
  BY <1>1, <1>4, FiniteBackups DEF QueueOk, Queues
<1>7. q.held \in Nat /\ q.limit \in Nat /\ q.waiters \in Seq(Backups) /\ q.holders \in SUBSET Backups
  <2>1. \A x \in Limits : x \in Nat
    BY JobRunsConstants
  <2> QED
    <3>1. q.held \in Nat /\ q.limit \in Limits \cup {0} /\ q.waiters \in Seq(Backups) /\ q.holders \in SUBSET Backups
      BY <1>6 DEF Queues
    <3>2. q.limit \in Nat
      BY <2>1, <3>1
    <3> QED
      BY <3>1, <3>2
<1>8. CASE now
  <2>1. queue'.held = q.held + 1 /\ queue'.holders = q.holders \cup {b} /\ queue'.waiters = q.waiters /\ queue'.limit = q.limit /\ queue' \in Queues
    <3>1. queue' = [q EXCEPT !.held = @ + 1, !.holders = @ \cup {b}]
      BY <1>5, <1>8
    <3>2. q.held + 1 \in Nat /\ q.holders \cup {b} \in SUBSET Backups
      BY <1>7
    <3> HIDE DEF now
    <3> QED
      BY <1>6, <3>1, <3>2 DEF Queues
  <2>2. queue'.held = Cardinality(queue'.holders)
    <3>1. Cardinality(q.holders \cup {b}) = Cardinality(q.holders) + 1 /\ q.held = Cardinality(q.holders)
      <4>1. Cardinality(q.holders \cup {b}) = IF b \in q.holders THEN Cardinality(q.holders) ELSE Cardinality(q.holders) + 1
        BY <1>6, FS_AddElement
      <4> QED
        BY <1>4, <1>6, <4>1 DEF QueueOk
    <3> QED
      BY <2>1, <3>1
  <2>3. QueueOk(queue')
    BY <1>4, <1>6, <2>1, <2>2 DEF QueueOk
  <2> QED
    BY <1>4, <1>5, <1>6, <1>8, <2>1, <2>3, SlotsStep DEF SlotPlaces
<1>9. CASE ~now
  <2> DEFINE w == Append(q.waiters, b)
  <2>1. queue'.held = q.held /\ queue'.holders = q.holders /\ queue'.waiters = w /\ queue'.limit = q.limit /\ queue' \in Queues
    <3>1. queue' = [q EXCEPT !.waiters = w]
      BY <1>5, <1>9
    <3>2. w \in Seq(Backups)
      BY <1>7
    <3> HIDE DEF now, w
    <3> QED
      BY <1>6, <3>1, <3>2 DEF Queues
  <2>2. /\ DOMAIN w = 1..(Len(q.waiters) + 1) /\ DOMAIN q.waiters = 1..Len(q.waiters) /\ Len(q.waiters) \in Nat
        /\ w[Len(q.waiters) + 1] = b /\ \A i \in 1..Len(q.waiters) : w[i] = q.waiters[i]
    BY <1>7
  <2> HIDE DEF w
  <2>3. \A i \in 1..Len(q.waiters) : q.waiters[i] # b
    BY <1>6, <2>2 DEF ToSet
  <2>4. IsInjective(w)
    <3>1. \A i, j \in 1..Len(q.waiters) : q.waiters[i] = q.waiters[j] => i = j
      BY <1>4, <2>2 DEF QueueOk, IsInjective
    <3> QED
      BY <2>2, <2>3, <3>1 DEF IsInjective
  <2>5. ToSet(w) = ToSet(q.waiters) \cup {b}
    <3>1. \A x : x \in ToSet(w) <=> \E i \in 1..(Len(q.waiters) + 1) : x = w[i]
      BY <2>2 DEF ToSet
    <3>2. \A x : x \in ToSet(q.waiters) <=> \E i \in 1..Len(q.waiters) : x = q.waiters[i]
      BY <2>2 DEF ToSet
    <3> QED
      BY <2>2, <3>1, <3>2
  <2>6. QueueOk(queue')
    BY <1>4, <1>6, <2>1, <2>4, <2>5 DEF QueueOk
  <2>7. q.held >= q.limit
    BY <1>4, <1>7, <1>9
  <2> QED
    BY <1>4, <1>5, <1>6, <1>9, <2>1, <2>5, <2>6, <2>7, SlotsStep
<1> QED
  BY <1>8, <1>9

\* A waiter that gives up keeps SlotsUsed, also when the slot was handed to it meanwhile.
LEMMA SlotsLeave ==
    ASSUME TypeOK, SlotsUsed, NEW b \in Backups, LeaveQueue(b)
    PROVE  queue' \in Queues /\ SlotsUsed'
<1>1. CASE b \in queue.holders
  BY <1>1, SlotsReturn DEF LeaveQueue, ReleaseSlot
<1>2. CASE b \notin queue.holders
  <2> DEFINE w == RemoveFirst(queue.waiters, b)
             q == [queue EXCEPT !.waiters = w]
  <2>1. QueueOk(queue) /\ queue.waiters \in Seq(Backups) /\ IsInjective(queue.waiters)
    BY QueueIsOk DEF TypeOK, Queues, QueueOk
  <2>2. w \in Seq(Backups) /\ IsInjective(w) /\ ToSet(w) = ToSet(queue.waiters) \ {b}
    BY <2>1, LeaveOk
  <2> HIDE DEF w
  <2>3. q.held = queue.held /\ q.holders = queue.holders /\ q.limit = queue.limit /\ q.waiters = w /\ q \in Queues
    BY <2>1, <2>2 DEF QueueOk, Queues
  <2>4. QueueOk(q)
    BY <2>1, <2>2, <2>3 DEF QueueOk
  <2>5. w # <<>> => queue.waiters # <<>>
    <3>1. ASSUME w # <<>> PROVE ToSet(w) # {}
      <4>1. 1 \in DOMAIN w
        BY <2>2, <3>1
      <4> QED
        BY <4>1 DEF ToSet
    <3>2. queue.waiters = <<>> => ToSet(queue.waiters) = {}
      BY DEF ToSet
    <3> QED
      BY <2>2, <3>1, <3>2
  <2>6. q.waiters # <<>> => q.held >= q.limit
    BY <2>3, <2>5 DEF SlotsUsed
  <2>7. queue' = DropIdle(q) /\ pc'[b] = "returned" /\ \A c \in Backups \ {b} : pc'[c] = pc[c]
    BY <1>2 DEF LeaveQueue, TypeOK, w
  <2> HIDE DEF q
  <2>8. /\ QueueOk(queue') /\ (queue'.waiters # <<>> => queue'.held >= queue'.limit)
        /\ queue'.holders = queue.holders /\ ToSet(queue'.waiters) = ToSet(queue.waiters) \ {b}
    BY <2>2, <2>3, <2>4, <2>6, <2>7, DropIdleOk
  <2> QED
    BY <1>2, <2>7, <2>8, SlotsStep
<1> QED
  BY <1>1, <1>2

\* Every action keeps the type of the queue and SlotsUsed.
LEMMA SlotsNext ==
   ASSUME RunsInv, SlotsUsed, Next
   PROVE queue' \in Queues /\ SlotsUsed'
<1> USE BackupFacts DEF RunsInv, runVars, backupVars, stored

<1>1. ASSUME NEW r \in Runs, StartScheduled(r) PROVE queue' \in Queues /\ SlotsUsed'
  BY <1>1, SlotsSame DEF StartScheduled, SlotPlaces, SlotsUsed, TypeOK
<1>2. ASSUME NEW r \in Runs, StartJobRun(r) PROVE queue' \in Queues /\ SlotsUsed'
  BY <1>2, SlotsSame DEF StartJobRun, SlotPlaces, SlotsUsed, TypeOK
<1>3. ASSUME NEW r \in Runs, StartBackups(r) PROVE queue' \in Queues /\ SlotsUsed'
  BY <1>3, SlotsSame DEF StartBackups, SlotPlaces, SlotsUsed, TypeOK
<1>4. ASSUME NEW r \in Runs, PlanRun(r) PROVE queue' \in Queues /\ SlotsUsed'
  BY <1>4, SlotsSame DEF PlanRun, SlotPlaces, SlotsUsed, TypeOK
<1>5. ASSUME NEW r \in Runs, PlanFails(r) PROVE queue' \in Queues /\ SlotsUsed'
  BY <1>5, SlotsSame DEF PlanFails, SlotPlaces, SlotsUsed, TypeOK
<1>6. ASSUME NEW r \in Runs, PlanBusy(r) PROVE queue' \in Queues /\ SlotsUsed'
  BY <1>6, SlotsSame DEF PlanBusy, SlotPlaces, SlotsUsed, TypeOK
<1>7. ASSUME NEW r \in Runs, PrepareAdHocRun(r) PROVE queue' \in Queues /\ SlotsUsed'
  BY <1>7, SlotsSame DEF PrepareAdHocRun, SlotPlaces, SlotsUsed, TypeOK
<1>8. ASSUME NEW r \in Runs, RefuseRequest(r) PROVE queue' \in Queues /\ SlotsUsed'
  BY <1>8, SlotsSame DEF RefuseRequest, SlotPlaces, SlotsUsed, TypeOK
<1>9. ASSUME NEW r \in Runs, Go(r) PROVE queue' \in Queues /\ SlotsUsed'
  BY <1>9, SlotsSame DEF Go, Registered, SlotPlaces, SlotsUsed, TypeOK
<1>10. ASSUME NEW r \in Runs, AbandonJobRun(r) PROVE queue' \in Queues /\ SlotsUsed'
  <2>1. ASSUME NEW c \in Backups, pc'[c] # pc[c] PROVE pc[c] \in {"none", "unregistered", "queued", "abandoned"} /\ pc'[c] = "ended"
    BY <1>10, <2>1 DEF AbandonJobRun, Registered, TypeOK, Staged, BackupStaged
  <2> QED
    BY <1>10, <2>1, SlotsSame DEF AbandonJobRun, SlotsUsed
<1>11. ASSUME NEW r \in Runs, FinishRun(r) PROVE queue' \in Queues /\ SlotsUsed'
  BY <1>11, SlotsSame DEF FinishRun, SlotPlaces, SlotsUsed, TypeOK
<1>12. ASSUME NEW b \in Backups, AcquireLock(b) PROVE queue' \in Queues /\ SlotsUsed'
  BY <1>12, SlotsSame DEF AcquireLock, SlotPlaces, SlotsUsed, TypeOK
<1>13. ASSUME NEW b \in Backups, Register(b) PROVE queue' \in Queues /\ SlotsUsed'
  BY <1>13, SlotsSame DEF Register, SlotPlaces, SlotsUsed, TypeOK, Unregistered
<1>14. ASSUME NEW b \in Backups, AbandonManual(b) PROVE queue' \in Queues /\ SlotsUsed'
  BY <1>14, SlotsSame DEF AbandonManual, ReleaseLock, Registered, SlotPlaces, SlotsUsed, TypeOK
<1>15. ASSUME NEW b \in Backups, Take(b) PROVE queue' \in Queues /\ SlotsUsed'
  BY <1>15, SlotsSame DEF Take, SlotPlaces, SlotsUsed, TypeOK
<1>16. ASSUME NEW b \in Backups, WaitEnds(b) PROVE queue' \in Queues /\ SlotsUsed'
  BY <1>16, SlotsSame DEF WaitEnds, SlotPlaces, SlotsUsed, TypeOK
<1>17. ASSUME NEW b \in Backups, LockDatabase(b) PROVE queue' \in Queues /\ SlotsUsed'
  BY <1>17, SlotsSame DEF LockDatabase, SlotPlaces, SlotsUsed, TypeOK
<1>18. ASSUME NEW b \in Backups, LockFails(b) PROVE queue' \in Queues /\ SlotsUsed'
  BY <1>18, SlotsSame DEF LockFails, SlotPlaces, SlotsUsed, TypeOK
<1>19. ASSUME NEW b \in Backups, Adopt(b) PROVE queue' \in Queues /\ SlotsUsed'
  BY <1>19, SlotsSame DEF Adopt, CancelRun, SlotPlaces, SlotsUsed, TypeOK
<1>20. ASSUME NEW b \in Backups, CancelledInQueue(b) PROVE queue' \in Queues /\ SlotsUsed'
  BY <1>20, SlotsReturn DEF CancelledInQueue, Return, SlotPlaces, SlotsUsed, TypeOK
<1>21. ASSUME NEW b \in Backups, AcquireSlot(b) PROVE queue' \in Queues /\ SlotsUsed'
  BY <1>21, SlotsAcquire DEF AcquireSlot
<1>22. ASSUME NEW b \in Backups, NoSlotNeeded(b) PROVE queue' \in Queues /\ SlotsUsed'
  BY <1>22, SlotsSame DEF NoSlotNeeded, SlotPlaces, SlotsUsed, TypeOK
<1>23. ASSUME NEW b \in Backups, SlotRefused(b) PROVE queue' \in Queues /\ SlotsUsed'
  BY <1>23, SlotsReturn DEF SlotRefused, Return, SlotPlaces, SlotsUsed, TypeOK
<1>24. ASSUME NEW b \in Backups, SlotGranted(b) PROVE queue' \in Queues /\ SlotsUsed'
  BY <1>24, SlotsSame DEF SlotGranted, SlotPlaces, SlotsUsed, TypeOK
<1>25. ASSUME NEW b \in Backups, LeaveQueue(b) PROVE queue' \in Queues /\ SlotsUsed'
  BY <1>25, SlotsLeave DEF LeaveQueue
<1>26. ASSUME NEW b \in Backups, StartDump(b) PROVE queue' \in Queues /\ SlotsUsed'
  BY <1>26, SlotsSame DEF StartDump, SlotPlaces, SlotsUsed, TypeOK
<1>27. ASSUME NEW b \in Backups, DumpFails(b) PROVE queue' \in Queues /\ SlotsUsed'
  BY <1>27, SlotsReturn DEF DumpFails, Return, SlotPlaces, SlotsUsed, TypeOK
<1>28. ASSUME NEW b \in Backups, DumpEnds(b) PROVE queue' \in Queues /\ SlotsUsed'
  BY <1>28, SlotsSame DEF DumpEnds, SlotPlaces, SlotsUsed, TypeOK
<1>29. ASSUME NEW b \in Backups, Finishing(b) PROVE queue' \in Queues /\ SlotsUsed'
  BY <1>29, SlotsSame DEF Finishing, SlotPlaces, SlotsUsed, TypeOK
<1>30. ASSUME NEW b \in Backups, Complete(b) PROVE queue' \in Queues /\ SlotsUsed'
  BY <1>30, SlotsReturn DEF Complete, Return, SlotPlaces, SlotsUsed, TypeOK
<1>31. ASSUME NEW b \in Backups, AbandonBackup(b) PROVE queue' \in Queues /\ SlotsUsed'
  BY <1>31, SlotsSame DEF AbandonBackup, SlotPlaces, SlotsUsed, TypeOK
<1>32. ASSUME NEW b \in Backups, SaveRecord(b) PROVE queue' \in Queues /\ SlotsUsed'
  BY <1>32, SlotsSame DEF SaveRecord, ReleaseLock, SlotPlaces, SlotsUsed, TypeOK
<1>33. ASSUME NEW b \in Backups, End(b) PROVE queue' \in Queues /\ SlotsUsed'
  BY <1>33, SlotsSame DEF End, SlotPlaces, SlotsUsed, TypeOK
<1>34. ASSUME NEW b \in Backups, SaveManual(b) PROVE queue' \in Queues /\ SlotsUsed'
  BY <1>34, SlotsSame DEF SaveManual, SlotPlaces, SlotsUsed, TypeOK
<1>35. ASSUME NEW b \in Backups, EndManual(b) PROVE queue' \in Queues /\ SlotsUsed'
  BY <1>35, SlotsSame DEF EndManual, ReleaseLock, SlotPlaces, SlotsUsed, TypeOK
<1>36. ASSUME NEW q \in DOMAIN reqs, NEW b \in Backups, CancelBackup(q, b) PROVE queue' \in Queues /\ SlotsUsed'
  BY <1>36, SlotsSame DEF CancelBackup, CancelRun, Event, SlotPlaces, SlotsUsed, TypeOK
<1>37. ASSUME NEW q \in DOMAIN reqs, NEW b \in Backups, CancelNext(q, b) PROVE queue' \in Queues /\ SlotsUsed'
  BY <1>37, SlotsSame DEF CancelNext, CancelRun, SlotPlaces, SlotsUsed, TypeOK
<1>38. ASSUME NEW q \in DOMAIN reqs, NEW r \in Runs, CancelJobRun(q, r) PROVE queue' \in Queues /\ SlotsUsed'
  BY <1>38, SlotsSame DEF CancelJobRun, Event, Active, SlotPlaces, SlotsUsed, TypeOK
<1>39. ASSUME NEW q \in DOMAIN reqs, ForceStop(q) PROVE queue' \in Queues /\ SlotsUsed'
  BY <1>39, SlotsSame DEF ForceStop, Event, Active, SlotPlaces, SlotsUsed, TypeOK
<1>40. ASSUME NEW q \in DOMAIN reqs, ListOthers(q) PROVE queue' \in Queues /\ SlotsUsed'
  BY <1>40, SlotsSame DEF ListOthers, Active, SlotPlaces, SlotsUsed, TypeOK
<1>41. ASSUME NEW q \in DOMAIN reqs, WindowEnds(q) PROVE queue' \in Queues /\ SlotsUsed'
  BY <1>41, SlotsSame DEF WindowEnds, Event, Active, SlotPlaces, SlotsUsed, TypeOK
<1>42. ASSUME NEW q \in DOMAIN reqs, CancelDone(q) PROVE queue' \in Queues /\ SlotsUsed'
  BY <1>42, SlotsSame DEF CancelDone, SlotPlaces, SlotsUsed, TypeOK
<1>43. CASE PauseRuns
  BY <1>43, SlotsSame DEF PauseRuns, Event, SlotPlaces, SlotsUsed, TypeOK
<1>44. CASE ResumeRuns
  BY <1>44, SlotsSame DEF ResumeRuns, SlotPlaces, SlotsUsed, TypeOK
<1>45. CASE Stop
  BY <1>45, SlotsSame DEF Stop, Event, SlotPlaces, SlotsUsed, TypeOK
<1>46. CASE Shutdown
  BY <1>46, SlotsSame DEF Shutdown, SlotPlaces, SlotsUsed, TypeOK
<1>47. CASE StopScheduler
  BY <1>47, SlotsSame DEF StopScheduler, SlotPlaces, SlotsUsed, TypeOK
<1>48. CASE Crash
  BY <1>48, FS_EmptySet DEF Crash, Event, NewManager, NewQueue, NewScheduler, NoTracker,
     NoRequest, SlotsUsed, Queues, IsInjective, ToSet
<1>49. CASE Start
  BY <1>49, SlotsSame DEF Start, SlotPlaces, SlotsUsed, TypeOK
<1>50. ASSUME NEW b \in Backups, FailInterrupted(b) PROVE queue' \in Queues /\ SlotsUsed'
  BY <1>50, SlotsSame DEF FailInterrupted, SlotPlaces, SlotsUsed, TypeOK
<1>51. ASSUME NEW r \in Runs, FailInterruptedRun(r) PROVE queue' \in Queues /\ SlotsUsed'
  BY <1>51, SlotsSame DEF FailInterruptedRun, SlotPlaces, SlotsUsed, TypeOK
<1> QED
  BY <1>1, <1>2, <1>3, <1>4, <1>5, <1>6, <1>7, <1>8, <1>9, <1>10, <1>11, <1>12, <1>13, <1>14,
     <1>15, <1>16, <1>17, <1>18, <1>19, <1>20, <1>21, <1>22, <1>23, <1>24, <1>25, <1>26, <1>27,
     <1>28, <1>29, <1>30, <1>31, <1>32, <1>33, <1>34, <1>35, <1>36, <1>37, <1>38, <1>39, <1>40,
     <1>41, <1>42, <1>43, <1>44, <1>45, <1>46, <1>47, <1>48, <1>49, <1>50, <1>51
     DEF Next, Begin, RunStep, BackupStep, LockStep, EngineStep, EndStep, Request, Process

-----------------------------------------------------------------------------
(* What a request to cancel one backup has reached.                        *)

\* mongodump of the backup was started, or never will be.
Late == {"dumping", "dumped", "finishing", "returned", "saved", "ended", "skipped", "abandoned"}
\* The backup has yet to look at the cancellations of its run (plan.cancellation).
Early == {"none", "unregistered", "queued", "lock", "held"}

\* mongodump will not be started for this backup any more.
NoDumpAhead(b) == trk[b].cancelled \/ Stopped(RunOf(b)) \/ stage[RunOf(b)] = "over" \/ pc[b] \in Late

\* A database of the run was cancelled: plan.cancellation of the others reports it.
SomeCancelled(r) == \E d \in plan[r] : trk[<<r, d>>].cancelled

\* The flags of a tracker are set only where the code sets them.
TrackerPlaced(b) ==
    /\ trk[b].cancelled => pc[b] \in Busy \cup {"queued", "abandoned", "ended"}
    /\ trk[b].bound => pc[b] \in Busy \cup {"ended"}
    /\ trk[b].finishing => pc[b] \in {"finishing", "returned", "saved", "ended"}

\* The request has stopped the backup, has it on its list, or the backup will find
\* the cancellation of another database of the run.
Reaches(q, b) ==
    \/ NoDumpAhead(b)
    \/ reqs[q].phase = "each" /\ b \in reqs[q].left
    \/ SomeCancelled(RunOf(b)) /\ pc[b] \in Early

\* A request to cancel one backup of a run that is going on or over: until the others
\* are listed one of them is cancelled, afterwards the request reaches every backup.
RequestReaches(q) ==
    /\ \A b \in reqs[q].left : pc[b] \notin {"none", "unregistered"}
    /\ reqs[q].kind = "one" /\ reqs[q].phase # "lost" =>
          /\ reqs[q].phase \in {"list", "each", "done"} /\ reqs[q].run \in Runs
          /\ stage[reqs[q].run] \in {"registering", "running", "over"}
          /\ reqs[q].phase = "list" /\ stage[reqs[q].run] = "registering" => SomeCancelled(reqs[q].run)
          /\ reqs[q].phase # "list" => \A b \in Backups : RunOf(b) = reqs[q].run => Reaches(q, b)

\* Every request reaches the backups of its run.
CancelsReach ==
    /\ \A b \in Backups : TrackerPlaced(b)
    /\ \A q \in Requesters \cup Windows : RequestReaches(q)

\* A context that ended with the Manager or the scheduler stays ended.
LEMMA StoppedStays ==
    ASSUME TypeOK, mgr.closed => mgr'.closed, sched.stopped => sched'.stopped, NEW r \in Runs, Stopped(r)
    PROVE  Stopped(r)'
BY DEF Stopped, TypeOK

\* A step of one backup keeps CancelsReach when it clears no cancellation, does not turn
\* back from mongodump, and adopts the cancellation of its run on its way there.
LEMMA CancelsStep ==
    ASSUME TypeOK, CancelsReach, NEW b \in Backups, UNCHANGED <<stage, plan, reqs>>,
           mgr.closed => mgr'.closed, sched.stopped => sched'.stopped,
           \A c \in Backups \ {b} : pc'[c] = pc[c] /\ trk'[c] = trk[c],
           TrackerPlaced(b)', trk[b].cancelled => trk'[b].cancelled, pc[b] \in Late => pc'[b] \in Late,
           pc[b] \notin {"none", "unregistered"} => pc'[b] \notin {"none", "unregistered"},
           SomeCancelled(RunOf(b)) /\ pc[b] \in Early => pc'[b] \in Early \/ NoDumpAhead(b)',
           \A r \in Runs : plan[r] \subseteq Selection[r]
    PROVE  CancelsReach'
<1>1. ASSUME NEW c \in Backups PROVE TrackerPlaced(c)'
  BY DEF CancelsReach, TrackerPlaced
<1>2. ASSUME NEW c \in Backups, NoDumpAhead(c) PROVE NoDumpAhead(c)'
  BY <1>2, StoppedStays, BackupFacts DEF NoDumpAhead
<1>3. ASSUME NEW r \in Runs, SomeCancelled(r) PROVE SomeCancelled(r)'
  BY <1>3, BackupFacts DEF SomeCancelled
<1>4. ASSUME NEW q \in Requesters \cup Windows, NEW c \in Backups, Reaches(q, c) PROVE Reaches(q, c)'
  BY <1>2, <1>3, <1>4, BackupFacts DEF Reaches
<1>5. ASSUME NEW q \in Requesters \cup Windows PROVE RequestReaches(q)'
  <2>1. reqs[q] \in Requests /\ reqs[q].left \subseteq Backups
    BY DEF TypeOK, Requests
  <2>2. \A c \in reqs[q].left : pc'[c] \notin {"none", "unregistered"}
    BY <2>1 DEF CancelsReach, RequestReaches
  <2> QED
    BY <1>3, <1>4, <2>2 DEF CancelsReach, RequestReaches
<1> QED
  BY <1>1, <1>5 DEF CancelsReach

\* A step that moves no backup, run or request keeps CancelsReach.
LEMMA CancelsSame ==
    ASSUME TypeOK, CancelsReach, UNCHANGED <<stage, plan, reqs, pc, trk>>,
           mgr.closed => mgr'.closed, sched.stopped => sched'.stopped
    PROVE  CancelsReach'
<1>1. ASSUME NEW c \in Backups, NoDumpAhead(c) PROVE NoDumpAhead(c)'
  BY <1>1, StoppedStays, BackupFacts DEF NoDumpAhead
<1>2. ASSUME NEW q \in Requesters \cup Windows, NEW c \in Backups, Reaches(q, c) PROVE Reaches(q, c)'
  BY <1>1, <1>2, BackupFacts DEF Reaches, SomeCancelled
<1> QED
  BY <1>2 DEF CancelsReach, RequestReaches, TrackerPlaced, SomeCancelled

\* The start and the end of a run keep CancelsReach.
LEMMA CancelsRun ==
    ASSUME TypeOK, CancelsReach, NEW r \in Runs, UNCHANGED reqs,
           mgr.closed => mgr'.closed, sched.stopped => sched'.stopped,
           \A x \in Runs \ {r} : stage'[x] = stage[x] /\ plan'[x] = plan[x],
           \A c \in Backups : IF RunOf(c) # r THEN pc'[c] = pc[c] /\ trk'[c] = trk[c] ELSE TrackerPlaced(c)',
           \A c \in Backups : pc[c] \notin {"none", "unregistered"} => pc'[c] \notin {"none", "unregistered"},
           \A x \in Runs : plan[x] \subseteq Selection[x],
           \/ stage'[r] = "over"
           \/ stage[r] \notin {"registering", "running", "over"}
           \/ stage[r] # "over" /\ stage'[r] = "running" /\ plan'[r] = plan[r] /\ \A c \in Backups : RunOf(c) = r => pc'[c] = pc[c] /\ trk'[c] = trk[c]
    PROVE  CancelsReach'
<1>1. ASSUME NEW c \in Backups PROVE TrackerPlaced(c)'
  BY DEF CancelsReach, TrackerPlaced
<1>2. ASSUME NEW q \in Requesters \cup Windows PROVE RequestReaches(q)'
  <2>1. reqs[q] \in Requests /\ reqs[q].left \subseteq Backups
    BY DEF TypeOK, Requests
  <2>2. \A c \in reqs[q].left : pc'[c] \notin {"none", "unregistered"}
    BY <2>1 DEF CancelsReach, RequestReaches
  <2> DEFINE x == reqs[q].run
  <2>3. SUFFICES ASSUME reqs[q].kind = "one", reqs[q].phase # "lost"
                 PROVE  /\ reqs[q].phase \in {"list", "each", "done"} /\ x \in Runs
                        /\ stage'[x] \in {"registering", "running", "over"}
                        /\ reqs[q].phase = "list" /\ stage'[x] = "registering" => SomeCancelled(x)'
                        /\ reqs[q].phase # "list" => \A c \in Backups : RunOf(c) = x => Reaches(q, c)'
    BY <2>2 DEF RequestReaches
  <2>4. /\ reqs[q].phase \in {"list", "each", "done"} /\ x \in Runs /\ stage[x] \in {"registering", "running", "over"}
        /\ reqs[q].phase = "list" /\ stage[x] = "registering" => SomeCancelled(x)
        /\ reqs[q].phase # "list" => \A c \in Backups : RunOf(c) = x => Reaches(q, c)
    BY <2>3 DEF CancelsReach, RequestReaches
  <2>5. CASE stage'[x] = "over"
    BY <2>4, <2>5 DEF Reaches, NoDumpAhead
  <2>6. CASE stage'[x] # "over"
    <3>1. /\ plan'[x] = plan[x] /\ stage'[x] \in {stage[x], "running"}
          /\ \A c \in Backups : RunOf(c) = x => pc'[c] = pc[c] /\ trk'[c] = trk[c]
      BY <2>4, <2>6
    <3>2. stage[x] = "over" => stage'[x] = "over"
      BY <2>4, <2>6
    <3>3. ASSUME SomeCancelled(x) PROVE SomeCancelled(x)'
      <4>1. PICK d \in plan[x] : trk[<<x, d>>].cancelled
        BY <3>3 DEF SomeCancelled
      <4>2. <<x, d>> \in Backups /\ RunOf(<<x, d>>) = x
        BY <2>4, <4>1, BackupFacts
      <4> QED
        BY <3>1, <4>1, <4>2 DEF SomeCancelled
    <3>4. ASSUME NEW c \in Backups, RunOf(c) = x, Reaches(q, c) PROVE Reaches(q, c)'
      BY <2>4, <2>6, <3>1, <3>2, <3>3, <3>4, StoppedStays DEF Reaches, NoDumpAhead
    <3> QED
      BY <2>4, <3>1, <3>2, <3>3, <3>4
  <2> QED
    BY <2>5, <2>6
<1> QED
  BY <1>1, <1>2 DEF CancelsReach

\* Run.cancelRun of a registered backup: mongodump will not be started for it.
LEMMA CancelStops ==
    ASSUME RunsInv, CancelsReach, NEW b \in Backups, trk'[b] = CancelRun(b), UNCHANGED <<mgr, sched, pc, stage>>,
           pc[b] \notin {"none", "unregistered"}
    PROVE  NoDumpAhead(b)'
<1>1. TypeOK /\ BackupStaged(b) /\ TrackerPlaced(b)
  BY DEF RunsInv, Staged, CancelsReach
<1>2. CASE trk[b].state = "active"
  <2>1. CancelRun(b).cancelled \/ trk[b].finishing \/ CtxDone(b)
    BY <1>1, <1>2, CancelRunKeeps
  <2>2. trk[b].finishing => pc[b] \in Late
    BY <1>1 DEF TrackerPlaced, Late
  <2>3. CtxDone(b) => CancelRun(b).cancelled \/ Stopped(RunOf(b))
    BY <1>1, CancelRunKeeps DEF CtxDone
  <2>4. Stopped(RunOf(b)) => Stopped(RunOf(b))'
    BY DEF Stopped
  <2> QED
    BY <2>1, <2>2, <2>3, <2>4 DEF NoDumpAhead
<1>3. CASE trk[b].state # "active"
  <2>1. pc[b] \in Late
    BY <1>1, <1>3 DEF TypeOK, Places, BackupStaged, Late
  <2> QED
    BY <2>1 DEF NoDumpAhead
<1> QED
  BY <1>2, <1>3

\* A step of one request keeps CancelsReach when that request reaches its backups.
LEMMA CancelsRequest ==
    ASSUME RunsInv, CancelsReach, NEW q \in Requesters \cup Windows, UNCHANGED <<stage, plan, pc, mgr, sched>>,
           \A x \in (Requesters \cup Windows) \ {q} : reqs'[x] = reqs[x], RequestReaches(q)',
           \A c \in Backups : trk'[c] \in {trk[c], CancelRun(c)}
    PROVE  CancelsReach'
<1> USE DEF RunsInv
<1>0. \A c \in Backups : trk[c].cancelled => trk'[c].cancelled
  BY CancelRunKeeps
<1>1. ASSUME NEW c \in Backups PROVE TrackerPlaced(c)'
  <2>1. TrackerPlaced(c) /\ BackupStaged(c)
    BY DEF CancelsReach, Staged
  <2>2. /\ trk'[c].bound = trk[c].bound /\ trk'[c].finishing = trk[c].finishing
        /\ trk'[c].cancelled => trk[c].cancelled \/ trk[c].state = "active"
    BY CancelRunKeeps
  <2> QED
    BY <2>1, <2>2 DEF TrackerPlaced, BackupStaged
<1>2. ASSUME NEW c \in Backups, NoDumpAhead(c) PROVE NoDumpAhead(c)'
  BY <1>0, <1>2 DEF NoDumpAhead, Stopped
<1>3. ASSUME NEW r \in Runs, SomeCancelled(r) PROVE SomeCancelled(r)'
  BY <1>0, <1>3, BackupFacts DEF SomeCancelled, Staged, RunStaged
<1>4. ASSUME NEW x \in Requesters \cup Windows, x # q PROVE RequestReaches(x)'
  <2>1. RequestReaches(x) /\ reqs'[x] = reqs[x]
    BY <1>4 DEF CancelsReach
  <2>2. ASSUME NEW c \in Backups, Reaches(x, c) PROVE Reaches(x, c)'
    BY <1>2, <1>3, <2>1, <2>2, BackupFacts DEF Reaches
  <2> QED
    BY <1>3, <2>1, <2>2 DEF RequestReaches
<1> QED
  BY <1>1, <1>4 DEF CancelsReach

\* Every action keeps CancelsReach, also the registration of a backup after the request
\* listed the others of its run.
LEMMA CancelsNext ==
   ASSUME RunsInv, CancelsReach, TypeOK', Next
   PROVE CancelsReach'
<1> USE BackupFacts DEF RunsInv, runVars, backupVars, stored
<1>0. \A r \in Runs : plan[r] \subseteq Selection[r]
  BY DEF Staged, RunStaged

<1>1. ASSUME NEW r \in Runs, StartScheduled(r) PROVE CancelsReach'
  <2>1. \A c \in Backups : IF RunOf(c) # r THEN pc'[c] = pc[c] /\ trk'[c] = trk[c] ELSE TrackerPlaced(c)'
    BY <1>1 DEF StartScheduled, TypeOK, NoTracker, CancelsReach, TrackerPlaced
  <2>2. \A x \in Runs \ {r} : stage'[x] = stage[x] /\ plan'[x] = plan[x]
    BY <1>1 DEF StartScheduled, TypeOK
  <2>3. \A c \in Backups : pc[c] \notin {"none", "unregistered"} => pc'[c] \notin {"none", "unregistered"}
    BY <1>1 DEF StartScheduled, TypeOK
  <2>4. (mgr.closed => mgr'.closed) /\ (sched.stopped => sched'.stopped)
    BY <1>1 DEF StartScheduled, TypeOK
  <2> QED
    BY <1>0, <1>1, <2>1, <2>2, <2>3, <2>4, CancelsRun DEF StartScheduled, TypeOK
<1>2. ASSUME NEW r \in Runs, StartJobRun(r) PROVE CancelsReach'
  <2>1. \A c \in Backups : IF RunOf(c) # r THEN pc'[c] = pc[c] /\ trk'[c] = trk[c] ELSE TrackerPlaced(c)'
    BY <1>2 DEF StartJobRun, TypeOK, NoTracker, CancelsReach, TrackerPlaced
  <2>2. \A x \in Runs \ {r} : stage'[x] = stage[x] /\ plan'[x] = plan[x]
    BY <1>2 DEF StartJobRun, TypeOK
  <2>3. \A c \in Backups : pc[c] \notin {"none", "unregistered"} => pc'[c] \notin {"none", "unregistered"}
    BY <1>2 DEF StartJobRun, TypeOK
  <2>4. (mgr.closed => mgr'.closed) /\ (sched.stopped => sched'.stopped)
    BY <1>2 DEF StartJobRun, TypeOK
  <2> QED
    BY <1>0, <1>2, <2>1, <2>2, <2>3, <2>4, CancelsRun DEF StartJobRun, TypeOK
<1>3. ASSUME NEW r \in Runs, StartBackups(r) PROVE CancelsReach'
  <2>1. \A c \in Backups : IF RunOf(c) # r THEN pc'[c] = pc[c] /\ trk'[c] = trk[c] ELSE TrackerPlaced(c)'
    BY <1>3 DEF StartBackups, TypeOK, NoTracker, CancelsReach, TrackerPlaced
  <2>2. \A x \in Runs \ {r} : stage'[x] = stage[x] /\ plan'[x] = plan[x]
    BY <1>3 DEF StartBackups, TypeOK
  <2>3. \A c \in Backups : pc[c] \notin {"none", "unregistered"} => pc'[c] \notin {"none", "unregistered"}
    BY <1>3 DEF StartBackups, TypeOK
  <2>4. (mgr.closed => mgr'.closed) /\ (sched.stopped => sched'.stopped)
    BY <1>3 DEF StartBackups, TypeOK
  <2> QED
    BY <1>0, <1>3, <2>1, <2>2, <2>3, <2>4, CancelsRun DEF StartBackups, TypeOK
<1>4. ASSUME NEW r \in Runs, PlanRun(r) PROVE CancelsReach'
  <2>1. \A c \in Backups : IF RunOf(c) # r THEN pc'[c] = pc[c] /\ trk'[c] = trk[c] ELSE TrackerPlaced(c)'
    BY <1>4 DEF PlanRun, TypeOK, NoTracker, CancelsReach, TrackerPlaced
  <2>2. \A x \in Runs \ {r} : stage'[x] = stage[x] /\ plan'[x] = plan[x]
    BY <1>4 DEF PlanRun, TypeOK
  <2>3. \A c \in Backups : pc[c] \notin {"none", "unregistered"} => pc'[c] \notin {"none", "unregistered"}
    BY <1>4 DEF PlanRun, TypeOK
  <2>4. (mgr.closed => mgr'.closed) /\ (sched.stopped => sched'.stopped)
    BY <1>4 DEF PlanRun, TypeOK
  <2> QED
    BY <1>0, <1>4, <2>1, <2>2, <2>3, <2>4, CancelsRun DEF PlanRun, TypeOK
<1>5. ASSUME NEW r \in Runs, PlanFails(r) PROVE CancelsReach'
  <2>1. \A c \in Backups : IF RunOf(c) # r THEN pc'[c] = pc[c] /\ trk'[c] = trk[c] ELSE TrackerPlaced(c)'
    BY <1>5 DEF PlanFails, TypeOK, NoTracker, CancelsReach, TrackerPlaced
  <2>2. \A x \in Runs \ {r} : stage'[x] = stage[x] /\ plan'[x] = plan[x]
    BY <1>5 DEF PlanFails, TypeOK
  <2>3. \A c \in Backups : pc[c] \notin {"none", "unregistered"} => pc'[c] \notin {"none", "unregistered"}
    BY <1>5 DEF PlanFails, TypeOK
  <2>4. (mgr.closed => mgr'.closed) /\ (sched.stopped => sched'.stopped)
    BY <1>5 DEF PlanFails, TypeOK
  <2> QED
    BY <1>0, <1>5, <2>1, <2>2, <2>3, <2>4, CancelsRun DEF PlanFails, TypeOK
<1>6. ASSUME NEW r \in Runs, PlanBusy(r) PROVE CancelsReach'
  <2>1. \A c \in Backups : IF RunOf(c) # r THEN pc'[c] = pc[c] /\ trk'[c] = trk[c] ELSE TrackerPlaced(c)'
    BY <1>6 DEF PlanBusy, TypeOK, NoTracker, CancelsReach, TrackerPlaced
  <2>2. \A x \in Runs \ {r} : stage'[x] = stage[x] /\ plan'[x] = plan[x]
    BY <1>6 DEF PlanBusy, TypeOK
  <2>3. \A c \in Backups : pc[c] \notin {"none", "unregistered"} => pc'[c] \notin {"none", "unregistered"}
    BY <1>6 DEF PlanBusy, TypeOK
  <2>4. (mgr.closed => mgr'.closed) /\ (sched.stopped => sched'.stopped)
    BY <1>6 DEF PlanBusy, TypeOK
  <2> QED
    BY <1>0, <1>6, <2>1, <2>2, <2>3, <2>4, CancelsRun DEF PlanBusy, TypeOK
<1>7. ASSUME NEW r \in Runs, PrepareAdHocRun(r) PROVE CancelsReach'
  <2>1. \A c \in Backups : IF RunOf(c) # r THEN pc'[c] = pc[c] /\ trk'[c] = trk[c] ELSE TrackerPlaced(c)'
    BY <1>7 DEF PrepareAdHocRun, TypeOK, NoTracker, CancelsReach, TrackerPlaced
  <2>2. \A x \in Runs \ {r} : stage'[x] = stage[x] /\ plan'[x] = plan[x]
    BY <1>7 DEF PrepareAdHocRun, TypeOK
  <2>3. \A c \in Backups : pc[c] \notin {"none", "unregistered"} => pc'[c] \notin {"none", "unregistered"}
    BY <1>7 DEF PrepareAdHocRun, TypeOK
  <2>4. (mgr.closed => mgr'.closed) /\ (sched.stopped => sched'.stopped)
    BY <1>7 DEF PrepareAdHocRun, TypeOK
  <2> QED
    BY <1>0, <1>7, <2>1, <2>2, <2>3, <2>4, CancelsRun DEF PrepareAdHocRun, TypeOK
<1>8. ASSUME NEW r \in Runs, RefuseRequest(r) PROVE CancelsReach'
  <2>1. \A c \in Backups : IF RunOf(c) # r THEN pc'[c] = pc[c] /\ trk'[c] = trk[c] ELSE TrackerPlaced(c)'
    BY <1>8 DEF RefuseRequest, Over, TypeOK, NoTracker, CancelsReach, TrackerPlaced
  <2>2. \A x \in Runs \ {r} : stage'[x] = stage[x] /\ plan'[x] = plan[x]
    BY <1>8 DEF RefuseRequest, Over, TypeOK
  <2>3. \A c \in Backups : pc[c] \notin {"none", "unregistered"} => pc'[c] \notin {"none", "unregistered"}
    BY <1>8 DEF RefuseRequest, Over, TypeOK
  <2>4. (mgr.closed => mgr'.closed) /\ (sched.stopped => sched'.stopped)
    BY <1>8 DEF RefuseRequest, Over, TypeOK
  <2> QED
    BY <1>0, <1>8, <2>1, <2>2, <2>3, <2>4, CancelsRun DEF RefuseRequest, Over, TypeOK
<1>9. ASSUME NEW r \in Runs, Go(r) PROVE CancelsReach'
  <2>1. \A c \in Backups : IF RunOf(c) # r THEN pc'[c] = pc[c] /\ trk'[c] = trk[c] ELSE TrackerPlaced(c)'
    BY <1>9 DEF Go, Registered, TypeOK, NoTracker, CancelsReach, TrackerPlaced
  <2>2. \A x \in Runs \ {r} : stage'[x] = stage[x] /\ plan'[x] = plan[x]
    BY <1>9 DEF Go, Registered, TypeOK
  <2>3. \A c \in Backups : pc[c] \notin {"none", "unregistered"} => pc'[c] \notin {"none", "unregistered"}
    BY <1>9 DEF Go, Registered, TypeOK
  <2>4. (mgr.closed => mgr'.closed) /\ (sched.stopped => sched'.stopped)
    BY <1>9 DEF Go, Registered, TypeOK
  <2> QED
    BY <1>0, <1>9, <2>1, <2>2, <2>3, <2>4, CancelsRun DEF Go, Registered, TypeOK
<1>10. ASSUME NEW r \in Runs, AbandonJobRun(r) PROVE CancelsReach'
  <2>1. \A c \in Backups : IF RunOf(c) # r THEN pc'[c] = pc[c] /\ trk'[c] = trk[c] ELSE TrackerPlaced(c)'
    BY <1>10 DEF AbandonJobRun, Over, TypeOK, NoTracker, CancelsReach, TrackerPlaced
  <2>2. \A x \in Runs \ {r} : stage'[x] = stage[x] /\ plan'[x] = plan[x]
    BY <1>10 DEF AbandonJobRun, Over, TypeOK
  <2>3. \A c \in Backups : pc[c] \notin {"none", "unregistered"} => pc'[c] \notin {"none", "unregistered"}
    BY <1>10 DEF AbandonJobRun, Over, TypeOK
  <2>4. (mgr.closed => mgr'.closed) /\ (sched.stopped => sched'.stopped)
    BY <1>10 DEF AbandonJobRun, Over, TypeOK
  <2> QED
    BY <1>0, <1>10, <2>1, <2>2, <2>3, <2>4, CancelsRun DEF AbandonJobRun, Over, TypeOK
<1>11. ASSUME NEW r \in Runs, FinishRun(r) PROVE CancelsReach'
  <2>1. \A c \in Backups : IF RunOf(c) # r THEN pc'[c] = pc[c] /\ trk'[c] = trk[c] ELSE TrackerPlaced(c)'
    BY <1>11 DEF FinishRun, Over, TypeOK, NoTracker, CancelsReach, TrackerPlaced
  <2>2. \A x \in Runs \ {r} : stage'[x] = stage[x] /\ plan'[x] = plan[x]
    BY <1>11 DEF FinishRun, Over, TypeOK
  <2>3. \A c \in Backups : pc[c] \notin {"none", "unregistered"} => pc'[c] \notin {"none", "unregistered"}
    BY <1>11 DEF FinishRun, Over, TypeOK
  <2>4. (mgr.closed => mgr'.closed) /\ (sched.stopped => sched'.stopped)
    BY <1>11 DEF FinishRun, Over, TypeOK
  <2> QED
    BY <1>0, <1>11, <2>1, <2>2, <2>3, <2>4, CancelsRun DEF FinishRun, Over, TypeOK
<1>12. ASSUME NEW b \in Backups, AcquireLock(b) PROVE CancelsReach'
  <2>1. /\ pc[b] = "none" /\ pc'[b] \in {"unregistered", "skipped"} /\ trk'[b] = trk[b]
        /\ mgr'.closed = mgr.closed /\ UNCHANGED <<stage, plan, reqs, sched>>
        /\ \A c \in Backups \ {b} : pc'[c] = pc[c] /\ trk'[c] = trk[c]
    BY <1>12 DEF AcquireLock, TypeOK
  <2>2. TrackerPlaced(b) /\ BackupStaged(b)
    BY DEF CancelsReach, Staged
  <2>3. TrackerPlaced(b)' /\ (trk[b].cancelled => trk'[b].cancelled)
    BY <2>1, <2>2 DEF TrackerPlaced, Busy
  <2>4. SomeCancelled(RunOf(b)) => pc'[b] \in Early \/ NoDumpAhead(b)'
    BY <2>1 DEF Late, Early, NoDumpAhead
  <2> QED
    BY <1>0, <2>4, <1>12, <2>1, <2>3, CancelsStep DEF AcquireLock, Late, Early
<1>13. ASSUME NEW b \in Backups, Register(b) PROVE CancelsReach'
  <2>1. /\ pc[b] \in {"none", "unregistered"} /\ pc'[b] = "queued" /\ ~trk'[b].cancelled /\ ~trk'[b].bound /\ ~trk'[b].finishing
        /\ \A c \in Backups \ {b} : pc'[c] = pc[c] /\ trk'[c] = trk[c]
    BY <1>13 DEF Register, Unregistered, NoTracker, TypeOK
  <2>2. TrackerPlaced(b) /\ BackupStaged(b)
    BY DEF CancelsReach, Staged
  <2>3. TrackerPlaced(b)' /\ (trk[b].cancelled => trk'[b].cancelled)
    BY <2>1, <2>2 DEF TrackerPlaced, Busy
  <2> QED
    BY <1>0, <1>13, <2>1, <2>3, CancelsStep DEF Register, Late, Early
<1>14. ASSUME NEW b \in Backups, AbandonManual(b) PROVE CancelsReach'
  <2>1. /\ pc[b] = "queued" /\ pc'[b] = "abandoned" /\ trk'[b].cancelled = trk[b].cancelled /\ trk'[b].bound = trk[b].bound
        /\ trk'[b].finishing = trk[b].finishing /\ mgr'.closed = mgr.closed
        /\ \A c \in Backups \ {b} : pc'[c] = pc[c] /\ trk'[c] = trk[c]
    BY <1>14 DEF AbandonManual, ReleaseLock, Trackers, TypeOK
  <2>2. TrackerPlaced(b) /\ BackupStaged(b)
    BY DEF CancelsReach, Staged
  <2>3. TrackerPlaced(b)' /\ (trk[b].cancelled => trk'[b].cancelled)
    BY <2>1, <2>2 DEF TrackerPlaced, Busy
  <2> QED
    BY <1>0, <1>14, <2>1, <2>3, CancelsStep DEF AbandonManual, Late, Early, NoDumpAhead
<1>15. ASSUME NEW b \in Backups, Take(b) PROVE CancelsReach'
  <2>1. TrackerPlaced(b)' /\ (trk[b].cancelled => trk'[b].cancelled)
    <3>1. /\ pc[b] = "queued" /\ pc'[b] \in {"engine", "held", "lock"} /\ trk'[b].cancelled = trk[b].cancelled
          /\ trk'[b].finishing = trk[b].finishing
      BY <1>15 DEF Take, TypeOK, Trackers
    <3>2. TrackerPlaced(b)
      BY DEF CancelsReach
    <3> QED
      BY <3>1, <3>2 DEF TrackerPlaced, Busy
  <2>2. ASSUME SomeCancelled(RunOf(b)) PROVE pc'[b] \in Early \/ NoDumpAhead(b)'
    <3>1. CASE Multi(RunOf(b))
      BY <1>15, <3>1 DEF Take, TypeOK, Early
    <3>2. CASE ~Multi(RunOf(b))
      <4>1. trk[b].cancelled
        BY <1>0, <1>15, <2>2, <3>2, ManualOne DEF SomeCancelled
      <4> QED
        BY <2>1, <4>1 DEF NoDumpAhead
    <3> QED
      BY <3>1, <3>2
  <2>3. pc[b] \notin Late /\ pc'[b] \notin {"none", "unregistered"}
    BY <1>15 DEF Take, TypeOK, Late
  <2>4. \A c \in Backups \ {b} : pc'[c] = pc[c] /\ trk'[c] = trk[c]
    BY <1>15 DEF Take, TypeOK
  <2> QED
    BY <1>0, <1>15, <2>1, <2>2, <2>3, <2>4, CancelsStep DEF Take
<1>16. ASSUME NEW b \in Backups, WaitEnds(b) PROVE CancelsReach'
  <2>1. TrackerPlaced(b)' /\ (trk[b].cancelled => trk'[b].cancelled)
    BY <1>16 DEF WaitEnds, TypeOK, Trackers, CancelsReach, TrackerPlaced, Busy
  <2> QED
    BY <1>0, <1>16, <2>1, CancelsStep DEF WaitEnds, TypeOK, Late, Early
<1>17. ASSUME NEW b \in Backups, LockDatabase(b) PROVE CancelsReach'
  <2>1. TrackerPlaced(b)' /\ (trk[b].cancelled => trk'[b].cancelled)
    BY <1>17 DEF LockDatabase, TypeOK, Trackers, CancelsReach, TrackerPlaced, Busy
  <2> QED
    BY <1>0, <1>17, <2>1, CancelsStep DEF LockDatabase, TypeOK, Late, Early
<1>18. ASSUME NEW b \in Backups, LockFails(b) PROVE CancelsReach'
  <2>1. TrackerPlaced(b)' /\ (trk[b].cancelled => trk'[b].cancelled)
    BY <1>18 DEF LockFails, TypeOK, Trackers, CancelsReach, TrackerPlaced, Busy
  <2> QED
    BY <1>0, <1>18, <2>1, CancelsStep DEF LockFails, TypeOK, Late, Early, NoDumpAhead
<1>19. ASSUME NEW b \in Backups, Adopt(b) PROVE CancelsReach'
  <2>1. TrackerPlaced(b)' /\ (trk[b].cancelled => trk'[b].cancelled)
    <3>1. pc[b] = "held" /\ pc'[b] = "engine" /\ trk'[b] \in {trk[b], CancelRun(b)}
      BY <1>19 DEF Adopt, TypeOK
    <3>2. /\ trk'[b].finishing = trk[b].finishing /\ (trk[b].cancelled => trk'[b].cancelled)
      BY <3>1, CancelRunKeeps
    <3>3. TrackerPlaced(b)
      BY DEF CancelsReach
    <3> QED
      BY <3>1, <3>2, <3>3 DEF TrackerPlaced, Busy
  <2>2. ASSUME SomeCancelled(RunOf(b)) PROVE NoDumpAhead(b)'
    <3>1. trk'[b] = CancelRun(b) /\ trk[b].state = "active" /\ ~trk[b].finishing /\ UNCHANGED <<mgr, sched>>
      <4>1. pc[b] = "held" /\ trk'[b] = CancelRun(b) /\ UNCHANGED <<mgr, sched>>
        BY <1>19, <2>2 DEF Adopt, SomeCancelled, TypeOK
      <4>2. TrackerPlaced(b) /\ BackupStaged(b)
        BY DEF Staged, CancelsReach
      <4>3. trk[b].state = "active" /\ ~trk[b].finishing
        BY <4>1, <4>2 DEF BackupStaged, TrackerPlaced, Busy
      <4> QED
        BY <4>1, <4>3
    <3>2. CancelRun(b).cancelled \/ Stopped(RunOf(b))
      BY <1>19, <3>1, CancelRunKeeps DEF CtxDone
    <3> QED
      BY <3>1, <3>2 DEF NoDumpAhead, Stopped
  <2>3. pc[b] \notin Late /\ pc'[b] = "engine"
    BY <1>19 DEF Adopt, TypeOK, Late
  <2>4. \A c \in Backups \ {b} : pc'[c] = pc[c] /\ trk'[c] = trk[c]
    BY <1>19 DEF Adopt, TypeOK
  <2> QED
    BY <1>0, <1>19, <2>1, <2>2, <2>3, <2>4, CancelsStep DEF Adopt
<1>20. ASSUME NEW b \in Backups, CancelledInQueue(b) PROVE CancelsReach'
  <2>1. TrackerPlaced(b)' /\ (trk[b].cancelled => trk'[b].cancelled)
    BY <1>20 DEF CancelledInQueue, Return, TypeOK, Trackers, CancelsReach, TrackerPlaced, Busy
  <2> QED
    BY <1>0, <1>20, <2>1, CancelsStep DEF CancelledInQueue, Return, TypeOK, Late, Early
<1>21. ASSUME NEW b \in Backups, AcquireSlot(b) PROVE CancelsReach'
  <2>1. TrackerPlaced(b)' /\ (trk[b].cancelled => trk'[b].cancelled)
    BY <1>21 DEF AcquireSlot, TypeOK, Trackers, CancelsReach, TrackerPlaced, Busy
  <2> QED
    BY <1>0, <1>21, <2>1, CancelsStep DEF AcquireSlot, TypeOK, Late, Early
<1>22. ASSUME NEW b \in Backups, NoSlotNeeded(b) PROVE CancelsReach'
  <2>1. TrackerPlaced(b)' /\ (trk[b].cancelled => trk'[b].cancelled)
    BY <1>22 DEF NoSlotNeeded, TypeOK, Trackers, CancelsReach, TrackerPlaced, Busy
  <2> QED
    BY <1>0, <1>22, <2>1, CancelsStep DEF NoSlotNeeded, TypeOK, Late, Early
<1>23. ASSUME NEW b \in Backups, SlotRefused(b) PROVE CancelsReach'
  <2>1. TrackerPlaced(b)' /\ (trk[b].cancelled => trk'[b].cancelled)
    BY <1>23 DEF SlotRefused, Return, TypeOK, Trackers, CancelsReach, TrackerPlaced, Busy
  <2> QED
    BY <1>0, <1>23, <2>1, CancelsStep DEF SlotRefused, Return, TypeOK, Late, Early
<1>24. ASSUME NEW b \in Backups, SlotGranted(b) PROVE CancelsReach'
  <2>1. TrackerPlaced(b)' /\ (trk[b].cancelled => trk'[b].cancelled)
    BY <1>24 DEF SlotGranted, TypeOK, Trackers, CancelsReach, TrackerPlaced, Busy
  <2> QED
    BY <1>0, <1>24, <2>1, CancelsStep DEF SlotGranted, TypeOK, Late, Early
<1>25. ASSUME NEW b \in Backups, LeaveQueue(b) PROVE CancelsReach'
  <2>1. TrackerPlaced(b)' /\ (trk[b].cancelled => trk'[b].cancelled)
    BY <1>25 DEF LeaveQueue, TypeOK, Trackers, CancelsReach, TrackerPlaced, Busy
  <2> QED
    BY <1>0, <1>25, <2>1, CancelsStep DEF LeaveQueue, TypeOK, Late, Early
<1>26. ASSUME NEW b \in Backups, StartDump(b) PROVE CancelsReach'
  <2>1. TrackerPlaced(b)' /\ (trk[b].cancelled => trk'[b].cancelled)
    BY <1>26 DEF StartDump, TypeOK, Trackers, CancelsReach, TrackerPlaced, Busy
  <2> QED
    BY <1>0, <1>26, <2>1, CancelsStep DEF StartDump, TypeOK, Late, Early
<1>27. ASSUME NEW b \in Backups, DumpFails(b) PROVE CancelsReach'
  <2>1. TrackerPlaced(b)' /\ (trk[b].cancelled => trk'[b].cancelled)
    BY <1>27 DEF DumpFails, Return, TypeOK, Trackers, CancelsReach, TrackerPlaced, Busy
  <2> QED
    BY <1>0, <1>27, <2>1, CancelsStep DEF DumpFails, Return, TypeOK, Late, Early
<1>28. ASSUME NEW b \in Backups, DumpEnds(b) PROVE CancelsReach'
  <2>1. TrackerPlaced(b)' /\ (trk[b].cancelled => trk'[b].cancelled)
    BY <1>28 DEF DumpEnds, TypeOK, Trackers, CancelsReach, TrackerPlaced, Busy
  <2> QED
    BY <1>0, <1>28, <2>1, CancelsStep DEF DumpEnds, TypeOK, Late, Early
<1>29. ASSUME NEW b \in Backups, Finishing(b) PROVE CancelsReach'
  <2>1. TrackerPlaced(b)' /\ (trk[b].cancelled => trk'[b].cancelled)
    BY <1>29 DEF Finishing, TypeOK, Trackers, CancelsReach, TrackerPlaced, Busy
  <2> QED
    BY <1>0, <1>29, <2>1, CancelsStep DEF Finishing, TypeOK, Late, Early
<1>30. ASSUME NEW b \in Backups, Complete(b) PROVE CancelsReach'
  <2>1. TrackerPlaced(b)' /\ (trk[b].cancelled => trk'[b].cancelled)
    BY <1>30 DEF Complete, Return, TypeOK, Trackers, CancelsReach, TrackerPlaced, Busy
  <2> QED
    BY <1>0, <1>30, <2>1, CancelsStep DEF Complete, Return, TypeOK, Late, Early
<1>31. ASSUME NEW b \in Backups, AbandonBackup(b) PROVE CancelsReach'
  <2>1. \A c \in Backups : IF RunOf(c) # RunOf(b) THEN pc'[c] = pc[c] /\ trk'[c] = trk[c] ELSE TrackerPlaced(c)'
    BY <1>31 DEF AbandonBackup, Over, TypeOK, NoTracker, CancelsReach, TrackerPlaced
  <2>2. \A x \in Runs \ {RunOf(b)} : stage'[x] = stage[x] /\ plan'[x] = plan[x]
    BY <1>31 DEF AbandonBackup, Over, TypeOK
  <2>3. \A c \in Backups : pc[c] \notin {"none", "unregistered"} => pc'[c] \notin {"none", "unregistered"}
    BY <1>31 DEF AbandonBackup, Over, TypeOK
  <2>4. (mgr.closed => mgr'.closed) /\ (sched.stopped => sched'.stopped)
    BY <1>31 DEF AbandonBackup, Over, TypeOK
  <2> QED
    BY <1>0, <1>31, <2>1, <2>2, <2>3, <2>4, CancelsRun DEF AbandonBackup, Over, TypeOK
<1>32. ASSUME NEW b \in Backups, SaveRecord(b) PROVE CancelsReach'
  <2>1. TrackerPlaced(b)' /\ (trk[b].cancelled => trk'[b].cancelled)
    BY <1>32 DEF SaveRecord, ReleaseLock, TypeOK, Trackers, CancelsReach, TrackerPlaced, Busy
  <2> QED
    BY <1>0, <1>32, <2>1, CancelsStep DEF SaveRecord, ReleaseLock, TypeOK, Late, Early
<1>33. ASSUME NEW b \in Backups, End(b) PROVE CancelsReach'
  <2>1. TrackerPlaced(b)' /\ (trk[b].cancelled => trk'[b].cancelled)
    BY <1>33 DEF End, TypeOK, Trackers, CancelsReach, TrackerPlaced, Busy
  <2> QED
    BY <1>0, <1>33, <2>1, CancelsStep DEF End, TypeOK, Late, Early
<1>34. ASSUME NEW b \in Backups, SaveManual(b) PROVE CancelsReach'
  <2>1. TrackerPlaced(b)' /\ (trk[b].cancelled => trk'[b].cancelled)
    BY <1>34 DEF SaveManual, TypeOK, Trackers, CancelsReach, TrackerPlaced, Busy
  <2> QED
    BY <1>0, <1>34, <2>1, CancelsStep DEF SaveManual, TypeOK, Late, Early
<1>35. ASSUME NEW b \in Backups, EndManual(b) PROVE CancelsReach'
  <2>1. \A c \in Backups : IF RunOf(c) # RunOf(b) THEN pc'[c] = pc[c] /\ trk'[c] = trk[c] ELSE TrackerPlaced(c)'
    BY <1>35 DEF EndManual, Over, ReleaseLock, TypeOK, NoTracker, CancelsReach, TrackerPlaced
  <2>2. \A x \in Runs \ {RunOf(b)} : stage'[x] = stage[x] /\ plan'[x] = plan[x]
    BY <1>35 DEF EndManual, Over, ReleaseLock, TypeOK
  <2>3. \A c \in Backups : pc[c] \notin {"none", "unregistered"} => pc'[c] \notin {"none", "unregistered"}
    BY <1>35 DEF EndManual, Over, ReleaseLock, TypeOK
  <2>4. (mgr.closed => mgr'.closed) /\ (sched.stopped => sched'.stopped)
    BY <1>35 DEF EndManual, Over, ReleaseLock, TypeOK
  <2> QED
    BY <1>0, <1>35, <2>1, <2>2, <2>3, <2>4, CancelsRun DEF EndManual, Over, ReleaseLock, TypeOK
<1>36. ASSUME NEW q \in DOMAIN reqs, NEW b \in Backups, CancelBackup(q, b) PROVE CancelsReach'
  <2> DEFINE r == RunOf(b)
  <2>1. /\ reqs'[q].phase = (IF Multi(r) THEN "list" ELSE "done") /\ reqs'[q].kind = "one"
        /\ reqs'[q].run = r /\ reqs'[q].left = {} /\ trk'[b] = CancelRun(b) /\ UNCHANGED <<pc, stage, plan, mgr, sched>>
    BY <1>36 DEF CancelBackup, TypeOK
  <2>2. pc[b] \in Busy \cup {"queued"} /\ BackupStaged(b) /\ TrackerPlaced(b) /\ trk[b].state = "active"
    BY <1>36 DEF CancelBackup, Staged, BackupStaged, CancelsReach
  <2>3. stage[r] \in {"registering", "running"} /\ Database(b) \in plan[r]
    BY <1>36, <2>2 DEF TypeOK, Stages, BackupStaged, Busy
  <2>4. NoDumpAhead(b)'
    BY <1>36, <2>1, <2>2, CancelStops DEF Busy
  <2>5. stage[r] = "registering" => CancelRun(b).cancelled
    BY <1>36, <2>2, <2>3, CancelRunKeeps DEF BackupStaged, Busy, TrackerPlaced, CtxDone
  <2>6. stage[r] = "registering" => SomeCancelled(r)'
    BY <2>1, <2>3, <2>5 DEF SomeCancelled
  <2>7. ~Multi(r) => \A c \in Backups : RunOf(c) = r => NoDumpAhead(c)'
    BY <1>36, <2>4, ManualOne
  <2>8. RequestReaches(q)'
    BY <1>36, <2>1, <2>3, <2>6, <2>7 DEF RequestReaches, Reaches
  <2>9. /\ \A x \in (Requesters \cup Windows) \ {q} : reqs'[x] = reqs[x] /\ q \in Requesters \cup Windows
        /\ \A c \in Backups : trk'[c] \in {trk[c], CancelRun(c)}
    BY <1>36 DEF CancelBackup, TypeOK
  <2> QED
    BY <1>36, <2>8, <2>9, CancelsRequest DEF CancelBackup, TypeOK
<1>37. ASSUME NEW q \in DOMAIN reqs, NEW b \in Backups, CancelNext(q, b) PROVE CancelsReach'
  <2>1. /\ reqs[q].phase = "each" /\ b \in reqs[q].left /\ reqs'[q].phase = "each" /\ reqs'[q].kind = reqs[q].kind
        /\ reqs'[q].run = reqs[q].run /\ reqs'[q].left = reqs[q].left \ {b} /\ trk'[b] = CancelRun(b)
        /\ UNCHANGED <<pc, stage, plan, mgr, sched>> /\ RequestReaches(q) /\ \A c \in Backups \ {b} : trk'[c] = trk[c]
    BY ZenonT(60), <1>37 DEF CancelNext, TypeOK, Requests, CancelsReach
  <2>2. NoDumpAhead(b)'
    BY <1>37, <2>1, CancelStops DEF RequestReaches
  <2>3. ASSUME NEW c \in Backups, c # b, Reaches(q, c) PROVE Reaches(q, c)'
    <3>1. NoDumpAhead(c) => NoDumpAhead(c)'
      BY <2>1, <2>3 DEF NoDumpAhead, Stopped
    <3>2. SomeCancelled(RunOf(c)) => SomeCancelled(RunOf(c))'
      BY <1>0, <1>37, <2>1, CancelRunKeeps DEF SomeCancelled
    <3> QED
      BY <2>1, <2>3, <3>1, <3>2 DEF Reaches
  <2>8. RequestReaches(q)'
    BY <2>1, <2>2, <2>3 DEF RequestReaches, Reaches
  <2>9. /\ \A x \in (Requesters \cup Windows) \ {q} : reqs'[x] = reqs[x] /\ q \in Requesters \cup Windows
        /\ \A c \in Backups : trk'[c] \in {trk[c], CancelRun(c)}
    BY <1>37 DEF CancelNext, TypeOK
  <2> QED
    BY <1>37, <2>8, <2>9, CancelsRequest DEF CancelNext, TypeOK
<1>38. ASSUME NEW q \in DOMAIN reqs, NEW r \in Runs, CancelJobRun(q, r) PROVE CancelsReach'
  <2>1. reqs'[q].kind # "one" /\ reqs'[q].left \subseteq {c \in Backups : trk[c].state = "active"} /\ pc' = pc
    BY <1>38 DEF CancelJobRun, TypeOK, Active
  <2>2. \A c \in reqs'[q].left : pc'[c] \notin {"none", "unregistered"}
    BY <2>1 DEF Staged, BackupStaged, Busy
  <2>8. RequestReaches(q)'
    BY <2>1, <2>2 DEF RequestReaches
  <2>9. /\ \A x \in (Requesters \cup Windows) \ {q} : reqs'[x] = reqs[x] /\ q \in Requesters \cup Windows
        /\ \A c \in Backups : trk'[c] \in {trk[c], CancelRun(c)}
    BY <1>38 DEF CancelJobRun, TypeOK
  <2> QED
    BY <1>38, <2>8, <2>9, CancelsRequest DEF CancelJobRun, TypeOK
<1>39. ASSUME NEW q \in DOMAIN reqs, ForceStop(q) PROVE CancelsReach'
  <2>1. reqs'[q].kind # "one" /\ reqs'[q].left \subseteq {c \in Backups : trk[c].state = "active"} /\ pc' = pc
    BY <1>39 DEF ForceStop, TypeOK, Active
  <2>2. \A c \in reqs'[q].left : pc'[c] \notin {"none", "unregistered"}
    BY <2>1 DEF Staged, BackupStaged, Busy
  <2>8. RequestReaches(q)'
    BY <2>1, <2>2 DEF RequestReaches
  <2>9. /\ \A x \in (Requesters \cup Windows) \ {q} : reqs'[x] = reqs[x] /\ q \in Requesters \cup Windows
        /\ \A c \in Backups : trk'[c] \in {trk[c], CancelRun(c)}
    BY <1>39 DEF ForceStop, TypeOK
  <2> QED
    BY <1>39, <2>8, <2>9, CancelsRequest DEF ForceStop, TypeOK
<1>40. ASSUME NEW q \in DOMAIN reqs, ListOthers(q) PROVE CancelsReach'
  <2> DEFINE r == reqs[q].run
  <2>1. /\ reqs[q].phase = "list" /\ reqs'[q].phase = "each" /\ reqs'[q].kind = reqs[q].kind /\ reqs'[q].run = r
        /\ reqs'[q].left = Active({r}) /\ UNCHANGED <<pc, stage, plan, trk, mgr, sched>> /\ RequestReaches(q)
    <3>1. q \in Requesters \cup Windows /\ reqs[q] \in Requests /\ DOMAIN reqs = Requesters \cup Windows
      BY <1>40 DEF TypeOK
    <3>2. reqs'[q] = [reqs[q] EXCEPT !.phase = "each", !.left = Active({r})]
      BY <1>40, <3>1 DEF ListOthers
    <3>3. /\ reqs'[q].phase = "each" /\ reqs'[q].kind = reqs[q].kind /\ reqs'[q].run = r
          /\ reqs'[q].left = Active({r})
      BY <3>1, <3>2 DEF Requests
    <3> QED
      BY <1>40, <3>1, <3>3 DEF ListOthers, CancelsReach
  <2>2. \A c \in Active({r}) : pc'[c] \notin {"none", "unregistered"}
    BY <2>1 DEF Active, Staged, BackupStaged, Busy
  <2>3. ASSUME NEW c \in Backups, RunOf(c) = r, r \in Runs, stage[r] \in {"registering", "running", "over"},
               stage[r] = "registering" => SomeCancelled(r)
        PROVE  Reaches(q, c)'
    <3>1. CASE trk[c].state = "active"
      BY <2>1, <2>3, <3>1 DEF Active, Reaches
    <3>2. CASE trk[c].state # "active" /\ pc[c] \in Late
      BY <2>1, <3>2 DEF Reaches, NoDumpAhead
    <3>3. CASE trk[c].state # "active" /\ pc[c] \notin Late
      <4>1. pc[c] \in {"none", "unregistered"} /\ BackupStaged(c)
        BY <3>3 DEF Staged, BackupStaged, Late, TypeOK, Places
      <4>2. stage[r] \in {"registering", "over"}
        BY <2>3, <4>1 DEF BackupStaged, Busy
      <4>3. SomeCancelled(r) => SomeCancelled(r)'
        BY <2>1 DEF SomeCancelled
      <4> QED
        BY <2>1, <2>3, <4>1, <4>2, <4>3 DEF Reaches, NoDumpAhead, Early
    <3> QED
      BY <3>1, <3>2, <3>3
  <2>8. RequestReaches(q)'
    BY <2>1, <2>2, <2>3 DEF RequestReaches
  <2>9. /\ \A x \in (Requesters \cup Windows) \ {q} : reqs'[x] = reqs[x] /\ q \in Requesters \cup Windows
        /\ \A c \in Backups : trk'[c] \in {trk[c], CancelRun(c)}
    BY <1>40 DEF ListOthers, TypeOK
  <2> QED
    BY <1>40, <2>8, <2>9, CancelsRequest DEF ListOthers, TypeOK
<1>41. ASSUME NEW q \in DOMAIN reqs, WindowEnds(q) PROVE CancelsReach'
  <2>1. reqs'[q].kind # "one" /\ reqs'[q].left \subseteq {c \in Backups : trk[c].state = "active"} /\ pc' = pc
    BY <1>41 DEF WindowEnds, TypeOK, Active
  <2>2. \A c \in reqs'[q].left : pc'[c] \notin {"none", "unregistered"}
    BY <2>1 DEF Staged, BackupStaged, Busy
  <2>8. RequestReaches(q)'
    BY <2>1, <2>2 DEF RequestReaches
  <2>9. /\ \A x \in (Requesters \cup Windows) \ {q} : reqs'[x] = reqs[x] /\ q \in Requesters \cup Windows
        /\ \A c \in Backups : trk'[c] \in {trk[c], CancelRun(c)}
    BY <1>41 DEF WindowEnds, TypeOK
  <2> QED
    BY <1>41, <2>8, <2>9, CancelsRequest DEF WindowEnds, TypeOK
<1>42. ASSUME NEW q \in DOMAIN reqs, CancelDone(q) PROVE CancelsReach'
  <2>1. /\ reqs[q].phase = "each" /\ reqs'[q].phase = "done" /\ reqs'[q].kind = reqs[q].kind /\ reqs'[q].run = reqs[q].run
        /\ reqs[q].left = {} /\ reqs'[q].left = {} /\ UNCHANGED <<pc, stage, plan, trk, mgr, sched>> /\ RequestReaches(q)
    <3>1. q \in Requesters \cup Windows /\ reqs[q] \in Requests /\ DOMAIN reqs = Requesters \cup Windows
      BY <1>42 DEF TypeOK
    <3>2. reqs'[q] = [reqs[q] EXCEPT !.phase = "done"]
      BY <1>42, <3>1 DEF CancelDone
    <3>3. /\ reqs'[q].phase = "done" /\ reqs'[q].kind = reqs[q].kind /\ reqs'[q].run = reqs[q].run
          /\ reqs'[q].left = reqs[q].left
      BY <3>1, <3>2 DEF Requests
    <3> QED
      BY <1>42, <3>1, <3>3 DEF CancelDone, CancelsReach
  <2>2. ASSUME NEW c \in Backups, Reaches(q, c) PROVE Reaches(q, c)'
    BY <2>1, <2>2 DEF Reaches, NoDumpAhead, SomeCancelled, Stopped
  <2>8. RequestReaches(q)'
    BY <2>1, <2>2 DEF RequestReaches
  <2>9. /\ \A x \in (Requesters \cup Windows) \ {q} : reqs'[x] = reqs[x] /\ q \in Requesters \cup Windows
        /\ \A c \in Backups : trk'[c] \in {trk[c], CancelRun(c)}
    BY <1>42 DEF CancelDone, TypeOK
  <2> QED
    BY <1>42, <2>8, <2>9, CancelsRequest DEF CancelDone, TypeOK
<1>43. CASE PauseRuns
  BY <1>43, CancelsSame DEF PauseRuns, Event, TypeOK
<1>44. CASE ResumeRuns
  BY <1>44, CancelsSame DEF ResumeRuns, TypeOK
<1>45. CASE Stop
  BY <1>45, CancelsSame DEF Stop, Event, TypeOK
<1>46. CASE Shutdown
  BY <1>46, CancelsSame DEF Shutdown, TypeOK
<1>47. CASE StopScheduler
  BY <1>47, CancelsSame DEF StopScheduler, TypeOK
<1>48. CASE Crash
  <2>1. \A c \in Backups : TrackerPlaced(c)'
    BY <1>48 DEF Crash, NoTracker, TrackerPlaced
  <2>2. ASSUME NEW x \in Requesters \cup Windows 
        PROVE (reqs'[x] = reqs[x] /\ reqs[x].phase = "idle") \/ (reqs'[x].phase = "lost" /\ reqs'[x].left = {})
    <3>1. DOMAIN reqs = Requesters \cup Windows
      BY DEF TypeOK
    <3>2. reqs'[x] = IF reqs[x].phase = "idle" THEN reqs[x] ELSE [NoRequest EXCEPT !.phase = "lost"]
      BY <1>48, <3>1 DEF Crash
    <3>3. [NoRequest EXCEPT !.phase = "lost"].phase = "lost" /\ [NoRequest EXCEPT !.phase = "lost"].left = {}
      BY DEF NoRequest
    <3> QED
      BY <3>2, <3>3
  <2>3. ASSUME NEW x \in Requesters \cup Windows PROVE RequestReaches(x)'
    <3>1. RequestReaches(x) /\ reqs[x].left \subseteq Backups
      BY DEF CancelsReach, TypeOK, Requests
    <3>2. ASSUME NEW c \in Backups, pc[c] \notin {"none", "unregistered"} PROVE pc'[c] = "ended"
      BY <1>48, <3>2 DEF Crash, TypeOK, Staged, BackupStaged
    <3>3. CASE reqs'[x] = reqs[x] /\ reqs[x].phase = "idle"
      BY <3>1, <3>2, <3>3 DEF RequestReaches
    <3>4. CASE reqs'[x].phase = "lost" /\ reqs'[x].left = {}
      BY <3>4 DEF RequestReaches
    <3> QED
      BY <2>2, <3>3, <3>4
  <2> QED
    BY <2>1, <2>3 DEF CancelsReach
<1>49. CASE Start
  BY <1>49, CancelsSame DEF Start, TypeOK
<1>50. ASSUME NEW b \in Backups, FailInterrupted(b) PROVE CancelsReach'
  BY <1>50, CancelsSame DEF FailInterrupted, TypeOK
<1>51. ASSUME NEW r \in Runs, FailInterruptedRun(r) PROVE CancelsReach'
  BY <1>51, CancelsSame DEF FailInterruptedRun, TypeOK
<1> QED
  BY <1>0, <1>1, <1>2, <1>3, <1>4, <1>5, <1>6, <1>7, <1>8, <1>9, <1>10, <1>11, <1>12, <1>13,
     <1>14, <1>15, <1>16, <1>17, <1>18, <1>19, <1>20, <1>21, <1>22, <1>23, <1>24, <1>25, <1>26,
     <1>27, <1>28, <1>29, <1>30, <1>31, <1>32, <1>33, <1>34, <1>35, <1>36, <1>37, <1>38, <1>39,
     <1>40, <1>41, <1>42, <1>43, <1>44, <1>45, <1>46, <1>47, <1>48, <1>49, <1>50, <1>51
     DEF Next, Begin, RunStep, BackupStep, LockStep, EngineStep, EndStep, Request, Process

\* mongodump is started by StartDump and by no other step.
LEMMA DumpStarts ==
    ASSUME TypeOK, Next, NEW x \in Backups, pc[x] # "dumping", pc'[x] = "dumping"
    PROVE  StartDump(x)
<1> USE DEF runVars, backupVars, stored
<1>0. pc \in [Backups -> Places]
  BY DEF TypeOK
<1>1. ASSUME NEW r \in Runs, StartScheduled(r) PROVE StartDump(x)
  BY <1>1, <1>0 DEF StartScheduled, TypeOK
<1>2. ASSUME NEW r \in Runs, StartJobRun(r) PROVE StartDump(x)
  BY <1>2, <1>0 DEF StartJobRun, TypeOK
<1>3. ASSUME NEW r \in Runs, StartBackups(r) PROVE StartDump(x)
  BY <1>3, <1>0 DEF StartBackups, TypeOK
<1>4. ASSUME NEW r \in Runs, PlanRun(r) PROVE StartDump(x)
  BY <1>4, <1>0 DEF PlanRun, TypeOK
<1>5. ASSUME NEW r \in Runs, PlanFails(r) PROVE StartDump(x)
  BY <1>5, <1>0 DEF PlanFails, TypeOK
<1>6. ASSUME NEW r \in Runs, PlanBusy(r) PROVE StartDump(x)
  BY <1>6, <1>0 DEF PlanBusy, TypeOK
<1>7. ASSUME NEW r \in Runs, PrepareAdHocRun(r) PROVE StartDump(x)
  BY <1>7, <1>0 DEF PrepareAdHocRun, TypeOK
<1>8. ASSUME NEW r \in Runs, RefuseRequest(r) PROVE StartDump(x)
  BY <1>8, <1>0 DEF RefuseRequest, TypeOK
<1>9. ASSUME NEW r \in Runs, Go(r) PROVE StartDump(x)
  BY <1>9, <1>0 DEF Go, TypeOK
<1>10. ASSUME NEW r \in Runs, AbandonJobRun(r) PROVE StartDump(x)
  BY <1>10, <1>0 DEF AbandonJobRun, TypeOK
<1>11. ASSUME NEW r \in Runs, FinishRun(r) PROVE StartDump(x)
  BY <1>11, <1>0 DEF FinishRun, TypeOK
<1>12. ASSUME NEW b \in Backups, AcquireLock(b) PROVE StartDump(x)
  BY <1>12, <1>0 DEF AcquireLock, TypeOK
<1>13. ASSUME NEW b \in Backups, Register(b) PROVE StartDump(x)
  BY <1>13, <1>0 DEF Register, TypeOK
<1>14. ASSUME NEW b \in Backups, AbandonManual(b) PROVE StartDump(x)
  BY <1>14, <1>0 DEF AbandonManual, TypeOK
<1>15. ASSUME NEW b \in Backups, Take(b) PROVE StartDump(x)
  BY <1>15, <1>0 DEF Take, TypeOK
<1>16. ASSUME NEW b \in Backups, WaitEnds(b) PROVE StartDump(x)
  BY <1>16, <1>0 DEF WaitEnds, TypeOK
<1>17. ASSUME NEW b \in Backups, LockDatabase(b) PROVE StartDump(x)
  BY <1>17, <1>0 DEF LockDatabase, TypeOK
<1>18. ASSUME NEW b \in Backups, LockFails(b) PROVE StartDump(x)
  BY <1>18, <1>0 DEF LockFails, TypeOK
<1>19. ASSUME NEW b \in Backups, Adopt(b) PROVE StartDump(x)
  BY <1>19, <1>0 DEF Adopt, TypeOK
<1>20. ASSUME NEW b \in Backups, CancelledInQueue(b) PROVE StartDump(x)
  BY <1>20, <1>0 DEF CancelledInQueue, Return, TypeOK
<1>21. ASSUME NEW b \in Backups, AcquireSlot(b) PROVE StartDump(x)
  BY <1>21, <1>0 DEF AcquireSlot, TypeOK
<1>22. ASSUME NEW b \in Backups, NoSlotNeeded(b) PROVE StartDump(x)
  BY <1>22, <1>0 DEF NoSlotNeeded, TypeOK
<1>23. ASSUME NEW b \in Backups, SlotRefused(b) PROVE StartDump(x)
  BY <1>23, <1>0 DEF SlotRefused, Return, TypeOK
<1>24. ASSUME NEW b \in Backups, SlotGranted(b) PROVE StartDump(x)
  BY <1>24, <1>0 DEF SlotGranted, TypeOK
<1>25. ASSUME NEW b \in Backups, LeaveQueue(b) PROVE StartDump(x)
  BY <1>25, <1>0 DEF LeaveQueue, TypeOK
<1>26. ASSUME NEW b \in Backups, StartDump(b) PROVE StartDump(x)
  BY <1>26, <1>0 DEF StartDump, TypeOK
<1>27. ASSUME NEW b \in Backups, DumpFails(b) PROVE StartDump(x)
  BY <1>27, <1>0 DEF DumpFails, Return, TypeOK
<1>28. ASSUME NEW b \in Backups, DumpEnds(b) PROVE StartDump(x)
  BY <1>28, <1>0 DEF DumpEnds, TypeOK
<1>29. ASSUME NEW b \in Backups, Finishing(b) PROVE StartDump(x)
  BY <1>29, <1>0 DEF Finishing, TypeOK
<1>30. ASSUME NEW b \in Backups, Complete(b) PROVE StartDump(x)
  BY <1>30, <1>0 DEF Complete, Return, TypeOK
<1>31. ASSUME NEW b \in Backups, AbandonBackup(b) PROVE StartDump(x)
  BY <1>31, <1>0 DEF AbandonBackup, TypeOK
<1>32. ASSUME NEW b \in Backups, SaveRecord(b) PROVE StartDump(x)
  BY <1>32, <1>0 DEF SaveRecord, TypeOK
<1>33. ASSUME NEW b \in Backups, End(b) PROVE StartDump(x)
  BY <1>33, <1>0 DEF End, TypeOK
<1>34. ASSUME NEW b \in Backups, SaveManual(b) PROVE StartDump(x)
  BY <1>34, <1>0 DEF SaveManual, TypeOK
<1>35. ASSUME NEW b \in Backups, EndManual(b) PROVE StartDump(x)
  BY <1>35, <1>0 DEF EndManual, TypeOK
<1>36. ASSUME NEW q \in DOMAIN reqs, NEW b \in Backups, CancelBackup(q, b) PROVE StartDump(x)
  BY <1>36, <1>0 DEF CancelBackup, TypeOK
<1>37. ASSUME NEW q \in DOMAIN reqs, NEW b \in Backups, CancelNext(q, b) PROVE StartDump(x)
  BY <1>37, <1>0 DEF CancelNext, TypeOK
<1>38. ASSUME NEW q \in DOMAIN reqs, NEW r \in Runs, CancelJobRun(q, r) PROVE StartDump(x)
  BY <1>38, <1>0 DEF CancelJobRun, TypeOK
<1>39. ASSUME NEW q \in DOMAIN reqs, ForceStop(q) PROVE StartDump(x)
  BY <1>39, <1>0 DEF ForceStop, TypeOK
<1>40. ASSUME NEW q \in DOMAIN reqs, ListOthers(q) PROVE StartDump(x)
  BY <1>40, <1>0 DEF ListOthers, TypeOK
<1>41. ASSUME NEW q \in DOMAIN reqs, WindowEnds(q) PROVE StartDump(x)
  BY <1>41, <1>0 DEF WindowEnds, TypeOK
<1>42. ASSUME NEW q \in DOMAIN reqs, CancelDone(q) PROVE StartDump(x)
  BY <1>42, <1>0 DEF CancelDone, TypeOK
<1>43. CASE PauseRuns
  BY <1>43, <1>0 DEF PauseRuns, TypeOK
<1>44. CASE ResumeRuns
  BY <1>44, <1>0 DEF ResumeRuns, TypeOK
<1>45. CASE Stop
  BY <1>45, <1>0 DEF Stop, TypeOK
<1>46. CASE Shutdown
  BY <1>46, <1>0 DEF Shutdown, TypeOK
<1>47. CASE StopScheduler
  BY <1>47, <1>0 DEF StopScheduler, TypeOK
<1>48. CASE Crash
  BY <1>48, <1>0 DEF Crash, TypeOK
<1>49. CASE Start
  BY <1>49, <1>0 DEF Start, TypeOK
<1>50. ASSUME NEW b \in Backups, FailInterrupted(b) PROVE StartDump(x)
  BY <1>50, <1>0 DEF FailInterrupted, TypeOK
<1>51. ASSUME NEW r \in Runs, FailInterruptedRun(r) PROVE StartDump(x)
  BY <1>51, <1>0 DEF FailInterruptedRun, TypeOK
<1> QED
  BY <1>1, <1>2, <1>3, <1>4, <1>5, <1>6, <1>7, <1>8, <1>9, <1>10, <1>11, <1>12, <1>13, <1>14,
     <1>15, <1>16, <1>17, <1>18, <1>19, <1>20, <1>21, <1>22, <1>23, <1>24, <1>25, <1>26, <1>27,
     <1>28, <1>29, <1>30, <1>31, <1>32, <1>33, <1>34, <1>35, <1>36, <1>37, <1>38, <1>39, <1>40,
     <1>41, <1>42, <1>43, <1>44, <1>45, <1>46, <1>47, <1>48, <1>49, <1>50, <1>51
     DEF Next, Begin, RunStep, BackupStep, LockStep, EngineStep, EndStep, Request, Process

\* StartDump cannot happen in a run after a request to cancel one of its backups was
\* answered: the context of every backup that gets so far has ended.
LEMMA RequestStopsDump ==
    ASSUME RunsInv, CancelsReach, NEW b \in Backups, StartDump(b), NEW q \in Requesters,
           reqs[q].phase = "done", reqs[q].kind = "one", reqs[q].run = RunOf(b)
    PROVE  FALSE
<1>1. pc[b] = "slotted" /\ ~CtxDone(b) /\ BackupStaged(b) /\ trk[b].bound
  BY DEF StartDump, RunsInv, Staged, BackupStaged, Busy
<1>2. Reaches(q, b)
  BY DEF CancelsReach, RequestReaches
<1>3. NoDumpAhead(b)
  BY <1>1, <1>2 DEF Reaches, Early
<1>4. stage[RunOf(b)] # "over" /\ pc[b] \notin Late
  BY <1>1 DEF BackupStaged, Late
<1>5. ~trk[b].cancelled /\ ~Stopped(RunOf(b))
  BY <1>1 DEF CtxDone
<1> QED
  BY <1>3, <1>4, <1>5 DEF NoDumpAhead

-----------------------------------------------------------------------------
(* The theorems.                                                           *)

\* The inductive invariant.
IInv == RunsInv /\ SlotsUsed /\ CancelsReach

\* The invariant holds when the App starts for the first time.
LEMMA InvInit == Init => IInv
<1> SUFFICES ASSUME Init PROVE IInv
  OBVIOUS
<1> USE BackupFacts
<1>1. TypeOK
  <2>1. NoSummary \in Summaries
    BY DEF NoSummary, Summaries, Statuses
  <2>2. NoRequest \in Requests
    BY DEF NoRequest, Requests
  <2>3. NewQueue \in Queues
    BY DEF NewQueue, Queues
  <2>4. life \in [state : {"up", "stopping", "down"}, events : 0..MaxEvents]
    BY JobRunsConstants DEF Init
  <2> QED
    BY <2>1, <2>2, <2>3, <2>4, TrackerUpdates DEF Init, TypeOK, NewManager, NewScheduler,
       Stages, Places, Statuses
<1>2. Staged
  BY DEF Init, Staged, RunStaged, BackupStaged, NoTracker, Busy
<1>3. Locked
  BY DEF Init, Locked, LocksOwned, BackupLocked, NewManager, Dumping
<1>4. Recorded
  BY DEF Init, Recorded, BackupRecorded, RunRecorded, NoSummary, Up
<1>5. SlotsUsed
  BY FS_EmptySet DEF Init, SlotsUsed, NewQueue, IsInjective, ToSet
<1>6. CancelsReach
  BY DEF Init, CancelsReach, TrackerPlaced, RequestReaches, NoTracker, NoRequest
<1> QED
  BY <1>1, <1>2, <1>3, <1>4, <1>5, <1>6 DEF IInv, RunsInv

\* A step that changes nothing keeps the invariant.
LEMMA InvStutter == ASSUME IInv, UNCHANGED vars PROVE IInv'
<1> USE DEF vars
<1>1. TypeOK' /\ Staged'
  BY DEF IInv, RunsInv, TypeOK, Staged, RunStaged, BackupStaged
<1>2. Locked'
  BY DEF IInv, RunsInv, Locked, LocksOwned, BackupLocked, Dumping, CtxDone, Stopped
<1>3. Recorded'
  BY DEF IInv, RunsInv, Recorded, BackupRecorded, RunRecorded, Up
<1>4. SlotsUsed'
  BY DEF IInv, SlotsUsed
<1>5. CancelsReach'
  BY CancelsSame DEF IInv, RunsInv
<1> QED
  BY <1>1, <1>2, <1>3, <1>4, <1>5 DEF IInv, RunsInv

\* Every step keeps the invariant.
LEMMA InvNext == IInv /\ [Next]_vars => IInv'
<1>1. ASSUME IInv, Next PROVE IInv'
  <2>1. TypeOK /\ RunsInv /\ SlotsUsed /\ CancelsReach
    BY <1>1 DEF IInv, RunsInv
  <2>2. queue' \in Queues /\ SlotsUsed'
    BY <1>1, <2>1, SlotsNext
  <2>3. TypeOK'
    BY <1>1, <2>1, <2>2, TypeNext
  <2>4. Staged' /\ Locked' /\ Recorded'
    BY <1>1, <2>1, <2>3, StagedNext, LockedNext, RecordedNext
  <2>5. CancelsReach'
    BY <1>1, <2>1, <2>3, CancelsNext
  <2> QED
    BY <2>2, <2>3, <2>4, <2>5 DEF IInv, RunsInv
<1> QED
  BY <1>1, InvStutter

\* Run locks are neither lost nor handed out twice, and stages, stored records and job
\* runs agree, for any number of runs, databases, cancellations and crashes.
THEOREM RunsSafe == Spec => []RunsInv
<1>1. IInv => RunsInv
  BY DEF IInv
<1> QED
  BY <1>1, InvInit, InvNext, PTL DEF Spec

\* Slots (AcquireSlot, freeLocked) are neither lost nor counted twice, and nobody waits
\* while one is free.
THEOREM SlotsSafe == Spec => []SlotsUsed
<1>1. IInv => SlotsUsed
  BY DEF IInv
<1> QED
  BY <1>1, InvInit, InvNext, PTL DEF Spec

\* Two backups of a database that run mongodump would both own its run lock.
LEMMA LocksExclude == RunsInv => OneBackupPerDatabase
BY DEF RunsInv, Locked, LocksOwned, BackupLocked, OneBackupPerDatabase

\* At most one backup of a database runs at a time (BackupKey).
THEOREM DatabaseSafe == Spec => []OneBackupPerDatabase
BY LocksExclude, RunsSafe, PTL

\* RecordsSettle is what RunsInv says of the store while the process is up.
LEMMA RecordsFollow == RunsInv => RecordsSettle
<1> SUFFICES ASSUME RunsInv PROVE RecordsSettle
  OBVIOUS
<1>1. ASSUME NEW b \in Backups
      PROVE  /\ Up /\ records[b] = "in_progress" => stage[RunOf(b)] \in {"registering", "running"}
             /\ pc[b] = "ended" /\ Up => records[b] # "in_progress"
  <2>1. BackupRecorded(b) /\ BackupStaged(b) /\ stage[RunOf(b)] \in Stages
    BY BackupFacts DEF RunsInv, Recorded, Staged, TypeOK
  <2>2. Up /\ records[b] = "in_progress" => pc[b] \in (Busy \ {"saved"}) \cup {"queued", "abandoned"}
    BY <2>1 DEF BackupRecorded
  <2> QED
    BY <2>1, <2>2 DEF BackupStaged, Busy, Stages
<1>2. \A r \in Runs : Up /\ summary[r].status = "running" => stage[r] \notin {"idle", "over"}
  BY DEF RunsInv, Recorded, RunRecorded
<1>3. ASSUME NEW b \in Backups, OfJob(RunOf(b)), stage[RunOf(b)] = "over", Up, records[b] # "none"
      PROVE  summary[RunOf(b)].of[Database(b)] = records[b]
  <2>1. BackupRecorded(b) /\ RunOf(b) \in Runs
    BY BackupFacts DEF RunsInv, Recorded
  <2> QED
    BY <1>2, <1>3, <2>1 DEF BackupRecorded
<1> QED
  BY <1>1, <1>2, <1>3 DEF RecordsSettle

\* While the process is up the store says what became of its runs, also after a crash
\* between two of its writes (failInterruptedRuns).
THEOREM RecordsSafe == Spec => []RecordsSettle
BY RecordsFollow, RunsSafe, PTL

\* Once Registry.Cancel has been answered, mongodump starts for no further database of
\* the run.
THEOREM CancelSafe == Spec => StopsAsAWhole
<1> DEFINE Stops == \A b \in Backups : pc[b] # "dumping" /\ pc'[b] = "dumping" =>
               ~\E q \in Requesters : reqs[q].phase = "done" /\ reqs[q].kind = "one" /\ reqs[q].run = RunOf(b)
<1>1. IInv /\ [Next]_vars => [Stops]_vars
  <2>1. ASSUME IInv, Next PROVE Stops
    BY <2>1, DumpStarts, RequestStopsDump DEF IInv, RunsInv
  <2> QED
    BY <2>1
<1>2. Spec => []IInv
  BY InvInit, InvNext, PTL DEF Spec
<1>3. Spec => [][Stops]_vars
  BY <1>1, <1>2, PTL DEF Spec
<1> QED
  BY <1>3 DEF StopsAsAWhole

=============================================================================
