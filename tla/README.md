# A TLA+ verification of MongoRescue

MongoRescue is a single Go binary that backs MongoDB databases up and restores
them: it runs `mongodump` and `mongorestore`, keeps archives on storage targets
and its own metadata in an SQLite database, and can run as an active-passive
cluster. This directory holds TLA+ models of the parts of it that are hard to
test, the TLC configurations that check them on small instances, and proofs that
TLAPS checks for every instance.

    tlc -workers 2 -config MCHALease.cfg MCHALease      # one run
    tlapm HALeaseProofs.tla                             # one proof module

`PROJECT.json` lists the components, the runs, the mapping of every definition
to the lines of the source it models, the mutants, the hazards and the theorems.

## Inventory

| Part | State it keeps | Operations | What is hard | What makes it correct |
|---|---|---|---|---|
| HA lease (`internal/ha/manager.go`, `lease.go`, `internal/storage/lease*.go`) | the lease object; role, version and ages per instance | renew, observe, acquire, step down, release | two clocks, late and lost writes, suspends, crashes | two instances never work at once; epochs are fencing tokens |
| HA handover (`internal/app/ha.go`, `ha_handover.go`, `internal/ha/state.go`, `override.go`) | database, `ha.json`, forced takeover request | bootstrap, take over, confirm, serve, lose, shut down | crashes between steps, stale roles, tampered objects | what was stored is not rolled back |
| HA snapshots (`internal/ha/snapshot.go`, `snapshotheader.go`) | snapshots on the target | take, upload, record, prune, select | late uploads, retention of a deposed instance | a takeover finds what the lease names |
| Database replacement (`internal/store/replace.go`) | database, journal, kept copies | replace, recover, prune | crash or failure at every step | the previous database is kept, the journal is right |
| Job runs and run control (`internal/runs`, `internal/scheduler/jobrun.go`) | active runs, run locks, slots | start, cancel, wait, finish | cancellation racing completion, waiting for locks | one backup per database, nothing runs on after a cancel, no lock leaks |
| Scheduler and retention (`internal/scheduler`) | cron entries, missed runs, deleted records | schedule, catch up, prune, purge | plans that are stale when carried out, deletion racing restores and copies | the last verified backup stays, nothing leaks |
| Point-in-time recovery (`internal/pitr`, `oplog`, `store/pitr.go`) | streams, chains, chunks, bases, pins | collect, end and start chains, pause, take bases, retain, plan, pin | elections, rollbacks, lagging members, crashes between storage and rows | a plan has no gap and stays readable; no window is given up in vain |
| Restore engine and restores in place (`internal/restore`, `operations/pitrinplace.go`) | restore records, clones, originals, safety backups | restore, replay, swap, resume the stream, recover | crash and shutdown in the middle of a swap, partial failure | no state is lost, records are truthful |
| Backup engine (`internal/backup`) | records, archives, manifests | dump, verify, upload | partial failure, cancellation | one dump per database; records settle |
| Archive copies (`internal/copies`) | copies on the records, queue | attempt, retry, record | deletion while uploading, restarts | every copy is tracked or removed |
| Notifications (`internal/notify`, `events`) | outbox in the store; queue, claims and held rows in memory | publish, store, dispatch, send, settle | settling while the dispatcher reads, failed writes, crashes | in order, not twice in one process, none lost silently |
| Key rotation and re-encryption (`internal/keyrotation`, `reencrypt`) | job and item in the store, key files | copy, hold, swap, resume | crash between archive and record, pins at the same time | every backup keeps its archive, unused ones go |
| Audit log (`internal/auditlog`) | hash chain | append, verify | concurrent appends | the chain verifies |
| The rest of operations, server, auth, CLI, MCP, desktop, settings, metrics | requests, sessions, settings | API | mostly sequential | not modelled; see below |

The supervisor calls the lease manager and reacts to its role; the manager calls
back into `ha.json`; the snapshotter checks the manager's fence and calls its
`RecordSnapshot`; a takeover calls `ReplaceDatabase`, and every start calls
`RecoverReplace`. The runs of the scheduler and of the API check the same fence.
Backups, restores and base backups meet in the run locks of `runs.Manager`. The
collector, the base schedule, retention, the purge of deleted backups and
restores share the chunks and bases of a stream, guarded by pins and by reading
the rows again. The copy queue, retention, the purge, users and a re-encryption
share the archives and records of backups, guarded by deletion locks and by
transactions that check the record again. All of them publish events, which the
notification service stores and delivers.

## Modules

| Module | What it is |
|---|---|
| `HALease` | the lease protocol: managers, their clocks, the conditional writes on their way, the storage |
| `FencingToken` | what the lease promises, in four actions |
| `HAFailover` | takeover, snapshots, rollback checks, with a lease write as one step |
| `DatabaseSwap` | the replacement of the metadata database, step by step |
| `JobRuns` | the backup runs of one process: run locks, slots, cancellation, runs of several databases, shutdown, recovery of interrupted runs |
| `OplogCollector` | the collector of one stream: ticks, chains, divergence, pause and resume, against a replica set that elects, rolls back, truncates and lags |
| `PITRRetention` | the stored chunks and bases of a stream: uploads, base schedule, retention, sweep and purge, and a restore that plans, pins and reads |
| `InPlaceRestore` | a point-in-time restore, into clones or in place, beside a restore of a backup: keys, pause, swap, shutdown, recovery |
| `ArchiveLifecycle` | the archives, copies and records of a job: copy queue, deletion, pins, retention, purge, re-encryption |
| `NotificationOutbox` | bus, outbox, dispatcher and workers of the notifications |
| `MC...` | instances for TLC: two instances or three database contents, symmetry and views |
| `HALeaseProofs`, `JobRunsProofs`, `OplogCollectorProofs`, `PITRRetentionProofs`, `InPlaceRestoreProofs`, `ArchiveLifecycleProofs`, `NotificationOutboxProofs` | inductive invariants, theorems and proofs about the module of that name |
| `TakeoverProofs` | the same for the two modules a takeover consists of, `HAFailover` and `DatabaseSwap` |

### HALease

`store` is the lease object, `wire` the conditional writes on their way to it,
the other variables are the fields of `ha.Manager` of the same names and the lease operation in
progress (`call`: `opMu` is held during one). A renewal is `RenewSend`, then
`Apply`, `Refuse` or `Lose` by the storage, then `RenewOk`, `RenewConflict` or
`RenewError` (also the timeout, whatever became of the write). A standby's step
is `ReadSend`, `ServeRead`, one of the `Observe...` actions, the question for
the epoch floor and `AcquireSend`. The supervisor is reduced to `work`: it is
started some time after the role was gained and stopped some time after it was
lost (`LoseLease`), or before a release (`ReleaseSend`, which may also come before
the work has begun). Left out: a lease that nobody can decode, and the exemption of
leases and instances without a `KeyID` from the key check.

Stamps are kept as ages that saturate at `Horizon`: no decision of the code
reads an absolute time. `Tick` advances the wall clocks of all instances and
the monotonic clocks of those that are not suspended.

The code's assumptions about clocks are the model's: clocks run at the same
rate, and an instance that is suspended does not have its wall clock set back
over the same time (then neither clock would count the suspension).
`AtMostOneWorks` says that no two instances work with a fencing check that
passes. It does not say that an instance stops *at* the deadline: that is what
the fencing check of each run is for.

`FencingTokenSpec` is the refinement: a takeover commits only when the former
holder's check fails already, epochs grow with takeovers, and no check passes
again under a superseded or surrendered epoch.

### HAFailover

A lease write is atomic here and another instance may acquire the lease once
the check of its holder fails, which is what `HALease` establishes. `disk` is
the data directory (the database's content, `ha.json`, `ha-override.json`), `sup`
the phase of the supervisor, `task` the snapshot being taken, `snaps` and
`uploads` the snapshots on the target and on their way there. The content of
the database is the set of changes made to it; `stored` remembers what must
not get lost. `Suspicions` is the list of rollback checks of `prepareTakeover`.
People may delete a snapshot, delete or alter the lease, put an older signed lease
back (`ReplayLease`; `older` remembers the leases that were replaced), and force a
takeover, up to `Hand` times. A cluster with a past starts in its second or third
epoch, so that there is an older lease to put back.

Left out: snapshots that do not authenticate (never candidates), failures to
write `ha.json` (only logged by the code), the import of newer archives after a
takeover, and a re-acquired lease during a takeover unless `Regain`. Retention deletes
any part of its list in one step (`PruneDelete`), which stands for the deletions one by
one that a crash or a lost lease cuts short; headers it cannot read are left out.

### DatabaseSwap

One action per step of `ReplaceDatabase`, each with its failure, and a crash
between any two; a crash during a journal write leaves the journal torn. `new`,
`copies` and `journal` are the files, `prev` remembers the database the last
swap replaced. A hard link shares its content with the database until the
rename (`live`). Removals of files succeed, except that of the journal at the
end (`FinishFails`), which is what the code assumes where it ignores the result of
`removeIfExists`. `Settle` leaves out the I/O errors of `RecoverReplace` itself, a
database that is missing and a journal without a hash: no step of the code leads there.
Its specification is `SwapSpec`; the wall clock, `stamp`, is
what the names of copies are taken from.

### JobRuns

A backup is a pair of a run and a database; `pc` says where its goroutine is.
A run is scheduled or on demand (of the one job), ad hoc, or a manual backup
(`Kind`). `mgr` and `queue` are the fields of `runs.Manager` that concern one
connection, `trk` the runs of `runs.Registry`, `locked` the ownership of a
release function, `records` and `summary` what is stored. Each of
`waitForDatabase`, the adoption of a cancellation, `AcquireSlot`, the start and
the end of mongodump, `Run.Finishing`, the release of the lock and the writes
to the store is a step of its own, as are the list a cancellation makes and each
cancellation of a listed run. The context of a backup has ended
(`CtxDone`) when it was cancelled or when the Manager or the scheduler it was
started under has stopped. Manager.mu makes each of the Manager's operations
one step. The parallelism and the limit of the connection are constants of a
run; different runs may see different limits.

Left out: jobs of a single database, restores (`InPlaceRestore`), failures of the
metadata store, the admission check of the disk guard, and how long a database is
waited for (`LockFails` may happen whenever it is busy). The release of a database's lock
and the write of its record, next to each other in `runDatabase`, are one step
(`SaveRecord`).

### OplogCollector

`rs` is the replica set, an external actor: its oplog (entries with position, term
and set), what is committed, what is truncated, what members have not rolled back
yet. A tick of the worker (`w`) pins a member and sees what that member says
(`Look`; a primary's or a secondary's view), then takes one of the code's
decisions, each in the steps in which it calls the store and the server: read a
range and commit a chunk, confirm a loss with the primary (`Confirm`), find the
divergence point, supersede chunks, end the chain, start the next one, adopt the
replica set. `state`, `chains` and `chunks` are the rows; `Fail` and `Crash` may
cut a tick between any two of them. `sup` is `reconcile`, which works on the list
it read before; `pause` is the caller of `PauseStream` and `ResumeStream`, `base`
a base backup with the optimes it reads before and after its dump.

Left out: lag and headroom alerts, adaptive intervals and the copies of chunks. `End`
takes `EndChain`, the adoption of the replica set and the look at its entry in one step.
Assumed: within one tick no position of a member is lost and written again (`Later`).
`CatchesUp` compares positions: that what is collected is on the right history is
`ReplayUnbroken`.

### PITRRetention

The collector is reduced to its effect on storage and rows (`SaveChunk`,
`CommitChunk`, `BreakChain`, `Diverge`); the base schedule (`BaseDue`), retention
(`PlanRetention`, then base by base and chunk by chunk), the sweep of orphaned
objects, the purge and one restore (`Plan`, `PinPlan`, `CheckPlan`, reading, end)
interleave. The pins and the bases that retention lists are one snapshot (the two
reads commute with every other step). Events that cost a window happen while the
server still writes; the replica set's periodic no-op is `Wrote`.

Left out: `BaseKeepDays`, `OplogMaxDays`, S3 Object Lock, pins set by users and
their expiry, copies of chunks, and, with `SweepRaces = FALSE`, a chunk stored
again under its key between the sweep's list and its delete (see Observations).

### InPlaceRestore

What a database, its clone and its safety backup hold is one of a few contents
(see the module's head). `rec` is the record in memory and `stored` the one in the
store, `p` the goroutine of the point-in-time restore, `bk` the restore of a
backup with its record, `stream` the stream as the restore sees it (`on` remembers
whether the user wants it), `mgr` the keys, the closed flag and the critical steps
of `runs.Manager`, `life` the process and its shutdown or start, `past` what the
properties need of the past. Every save of the progress, the pause, the copy, the
listing after it and the drop of extra collections are steps of their own; the
process may be stopped, forced to stop or lost between any two, and the shutdown
follows `shutdownRuns`: wait, wait for critical steps, kill, exit anyway. `Start`
to `MarkInterrupted` is what the next start does.

The supervisor of the collectors lists the streams and goes by its list afterwards
(`ListStreams`, `CollectorStops`, `CollectorStarts`); a collector that it starts though
the stream was disabled meanwhile is `late`. Three places enable the stream again:
`EnableStream` with an alert when it fails, `EnableInShutdown`, which takes running out
of its second for success (`past.missed` when it was not), and a start
(`EnableLater`), whose goroutine enables it once more (`EnableAgain`, `BaseTimesOut`,
`BaseAfterRecovery`). A restore of a backup of which mongorestore printed no counts
completes with a warning (`uncounted`).

Assumed: the shutdown deadline does not fall between the return of `PauseStream`
and `Critical()` (two saves of at most `persistTimeout` = 5 s against
`shutdownTimeout` = 30 s). The backup and restore keys of a database count as one
key, and so do the base and the connection-wide key. A request is refused or
started in one step. A copy has a pipe of its own between its two tools, so it may
outlive a crash (`OrphanEnds`); what it writes beside the next process is excused.
A reconcile that finds a collector running may keep its list for later, or restart the
collector, whether or not the stream was changed, which allows more than the code. A
clone is full when both passes reported nothing amiss: that a replay of which
mongorestore counted nothing is complete is assumed, as the code does with a warning.

Left out: dry runs, the comparison of the clone with the backup, approvals, chain
tests, users who switch the stream meanwhile, clones that pass 1 creates beyond
the manifest of the base.

### ArchiveLifecycle

`recs` are the records (the tombstone of a re-encrypted backup and the record of
an unused archive included), `arch`, `held` and `copies` the objects. Users delete,
undelete, pin, unpin, verify and retry; retention plans on one state and prunes one by one
in transactions; the purge works on a list; the copy queue uploads and records; a
re-encryption job (`job`, with its goroutine `work`) copies, holds, swaps and
discards, and resumes after a crash. `torn` names the backups that a crash, a race or
a purge that failed half-way left half changed in a way the code does not repair; the
properties excuse exactly those (see Observations). The record of an unused new
archive (`IsPartial`) stands for no backup, so `Restorable` does not ask for its
archive.

`lost` names the objects that the code itself has lost sight of, recorded by the step
that loses them: a copy whose retry was cut by a crash after it had written (`LostNow`),
whose removal failed (`RemoveUntracked`), over which a failure was recorded
(`Forgotten`), or that the purge passed by while a retry was writing it (`Overlooked`);
and a new archive whose one removal failed, which is logged (`RemoveNewFails`) or ends
the job for good (`FailJob`). `CopiesTracked` and `ArchivesSettle` excuse these objects
and no other. `CopiesTracked` goes by what the purge itself asks (`MayExist`): a failed
copy that counts as never written names no object.

Assumed: one job of backups and one re-encryption; every backup beyond the floor is
old enough for retention; an answer of `SetLegalHold` is not lost; the listing of a copy
attempt and the read under its lock are one step.
Left out: failures of the metadata store, Object Lock periods, archives shared
across targets, `cleanupLockedArtifacts`, `CopyAll`, approvals, pins of PITR bases.

### NotificationOutbox

`bus`, `direct`, `queue`, `worker`, `flight`, `settled`, `held` and `disp` are the
memory of a process and are lost in a crash; `rows` is the table, `log` every row
ever stored, `got` what each channel accepted. The dispatcher reads the counters
of its channels (`TakeSnapshot`), then the heads of the outbox, then decides for
each head; workers send and settle meanwhile. Deleting or rescheduling a row may
fail, which holds it in memory. The outbox, the bus and the queue have limits.

Left out: `BroadcastNow`, `TestChannel`, the rules, errors of `ListRules` and
`ListChannels`, the graceful drain, the rendering and the protocols of the channels, and
the reset of `direct` at 1024 alerts whose copy on the bus never came: `Accounted` holds
below that limit.

## Runs

| Run | States | Checks | Shows |
|---|---|---|---|
| `ha_lease` | 963,000 | `LeaseInv`, `AtMostOneWorks`, `FencingTokenSpec` | with late, lost and refused writes, a suspended machine and crashes, two instances never work at once, and the lease implements the fencing token |
| `ha_lease_keys` | 361,000 | `KeyKept` | with different secret keys and moving wall clocks, the lease never passes to the other key |
| `ha_failover` | 222,000 | `FailoverInv`, `StoredKept`, `NamedAvailable` | a new cluster through crashes, takeovers, late uploads and late retention: an epoch has one writer, no stored metadata is lost, and retention leaves what a takeover needs |
| `ha_rollback` | 624,000 | `StoredKept` | a cluster with a past, one object deleted or altered by hand, an older lease put back or one forced takeover: the metadata is not rolled back unnoticed |
| `database_swap` | 168,000 | `SwapInv`, `PreviousKept`, `JournalTruthful` | failures and crashes at every step of repeated replacements: the previous database is kept, the journal claims no more than is on disk |
| `job_runs` | 131,000 | `SlotsUsed`, `StopsAsAWhole`, `EventuallyOver` | a scheduled run of two databases at once and an on-demand run of the job share one slot, with one cancellation, window end, drain, stop or crash at any moment: no slot is lost, a cancelled run stops as a whole, every run ends |
| `run_locks` | 407,000 | `RunsInv`, `OneBackupPerDatabase`, `RecordsSettle` | a scheduled run, an ad-hoc run and a manual backup want the same database: locks are not lost, the database is dumped by one at a time, records and job runs agree after a crash |
| `pitr_collect` | 410,000 | `RepoCoherent`, `ReplayUnbroken`, `CoveredBaseOnChain`, `GivenUpForCause`, `CatchesUp` | against elections, lagging members, lost entries, truncation, another replica set, failures, crashes and pauses: what is replayed is an unbroken stretch of one history, a window is given up only for cause, the collector catches up |
| `pitr_retention` | 139,000 | `PlanReadable`, `CommittedStored`, `WindowsKept`, `WindowOpens`, `NothingLeaks` | a restore that starts reads its plan to the end while retention and purges run; no kept window shrinks, a window opens again by itself, storage is cleaned up |
| `inplace_restore` | 1,065,000 | `StatesKept`, `SwapUndisturbed`, `OutcomeTruthful`, `StreamReturns` | with two failures, cancellations, stops or crashes at any step no state of a database is lost, nothing disturbs the swap but a collector started late, records say what is so, and the stream is collected again, or an alert or a recorded exception says why not |
| `archive_lifecycle` | 317,000 | `Restorable`, `CopiesTracked`, `HoldAgrees`, `RetentionKeepsVerified`, `ArchivesSettle` | copy queue, users, retention, purge and re-encryption at the same time: a restorable backup has its archive, no copy is untracked but those in `lost`, holds and records agree, the last verified backup stays, unwanted archives go unless their removal failed |
| `notify_outbox` | 731,000 | `NotSentAgain`, `InOrder`, `Accounted`, `Drains` | two events for two channels with one failed write, expiry, changed channel or crash: nothing is sent twice by one process, out of order or lost silently, and the outbox drains |

Deadlock is checked, except in the runs of `JobRuns`, `PITRRetention`,
`InPlaceRestore`, `ArchiveLifecycle` and `NotificationOutbox`: once everything is
over and the bounds are used up, these systems have nothing left to do. That nobody
waits for ever is what `EventuallyOver`, `WindowOpens`, `StreamReturns`,
`ArchivesSettle` and `Drains` say. The type invariant of a module is a conjunct of
one of its invariants (`LeaseInv`, `FailoverInv`, `SwapInv`, `RunsInv`,
`RepoCoherent`, `CommittedStored`, `StatesKept`, `Restorable`, `Accounted`).

Every property of a passing run has a mutant in `PROJECT.json`: a definition of
the model changed the way a plausible bug would change the code (an expiry by
the monotonic clock only, a renewal's age counted from its answer, a release
while runs still work, retention that counts per epoch, a journal phase written
before its step, an oplog read that ignores the term, a plan checked before it is
pinned, the clones of any interrupted restore dropped, a purge of what was listed),
under which TLC finds the property violated.

### Bounds

* `MCHALease`: two instances, TTL 3 and renew 1 ticks, so that the step-down
  window is two ticks: a lease can be renewed late, expire, be watched for a TTL
  and be taken over; two pending writes at once, so that a renewal and a takeover,
  or a renewal and its forgotten predecessor, race; two epochs, so that a
  takeover and the return of the former holder happen. `Live` identifies states
  that differ only in version names and in fields nobody reads any more.
* `MCHAFailover`: two instances, one snapshot kept, two epochs (`ha_failover`) or up
  to four (`ha_rollback`, which starts in the second or third), snapshots at two
  times, one change besides the initial one. Two epochs suffice for a takeover with
  late uploads and late retention of the predecessor, one more for what follows a
  forced or a failed takeover. Longer sequences of snapshots are covered by the
  theorems only.
* `MCDatabaseSwap`: three contents, two copies kept, two attempts, four copies
  ever named, so that pruning happens, also after aborted attempts.

* `MCJobRuns`: `MaxEvents` bounds the cancellations, window ends, drains, stops
  and crashes together by one; what is at stake is where among the steps of two
  or three concurrent backups it falls. Two databases are enough for one that is
  registered, or started, when the other is cancelled; three runs for a lock that
  one holds, one is refused and one waits for. The slot of `job_runs` has two
  contenders in the first run and is needed again by the second.

* `MCOplogCollector`: three positions, two incidents (of server, worker, pause or
  process), chunks of at most one position; committed writes are lost, and the
  replica set is replaced, at most once. Three positions suffice for a
  collected entry, one that is rolled back and its successor in another term; the
  view drops what no later step reads.
* `MCPITRRetention`: three positions, one disturbance, one base kept, two attempts
  of a restore to find a plan. Two bases and two chains come about, so that one is
  retained and one is deleted while the restore holds one of them.
* `MCInPlaceRestore`: two databases, so that one is swapped and the next is not;
  two events, so that a crash meets a failure, or two crashes meet the recovery;
  the stream initially on or off. `Live` forgets the details of a backup restore
  that is over and recorded.
* `MCArchiveLifecycle`: two backups, of which one is kept, copied, encrypted and
  pinned, two attempts of a copy, two events, so that an upload that fails meets a
  crash, a purge or a re-encryption of its backup.
* `MCNotificationOutbox`: two events (one an alert) routed to two channels, one
  worker, room for two rows in the outbox and one in the bus and the queue, so that
  every limit is met; two rounds, one fault.

### Fairness

`EventuallyOver` assumes weak fairness of the steps of every run and of every
backup: they are goroutines that never block but on a lock (polled until
`lockWait`), on a slot (which is what the property is about) and on mongodump,
whose end the stall watchdog, the timeout and the context see to. Nothing is
assumed of requests, drains, stops and crashes.

* `CatchesUp`: weak fairness of the worker's steps, of the supervisor and of the
  calls of a pause and resume that have begun, of a member's rollback, and strong
  fairness of ticks pinned to the primary: a tick may meet a secondary any number
  of times, but not every time for ever.
* `WindowOpens`, `NothingLeaks`: weak fairness of the progress of everybody
  together, which is weaker than that of each actor: the collector, the base
  schedule, retention and purge are loops on timers, and time passes.
* `StreamReturns`: weak fairness of the two restores' goroutines, of that of
  `resumeInterrupted` (which has a timeout), of the collector and the base backups, of
  the shutdown, and of the start: a process that is down
  is started again by its supervisor. Nothing is assumed of the shutdown's last
  resort, of requests or of an orphaned tool.
* `ArchivesSettle`: weak fairness of the copy queue, the purge, the re-encryption,
  a pin that has begun, and of the end of the grace period; retention and users may
  do nothing.
* `Drains`: weak fairness of the dispatcher, the workers, the handler of the bus,
  and of the timers the rows wait for.

The other liveness properties worth
stating (a standby takes over after the holder has died; a takeover that is not
suspected ends) need weak fairness of the manager's loop (`Manager.Run` takes a
step every renew interval) and of the storage's answers.

## Proofs

`HALeaseProofs` proves, for every set of instances, every TTL and renew
interval, every set of instances that may be suspended and every bound, from
`LeaseConstants` and `ValidateTiming` (what `Config.validate` demands of the
timing: the TTL leaves room for two renew intervals):

* `LeaseInvariant`, `Spec => []LeaseInv`. Mutual exclusion is not inductive: it
  depends on what may still be on its way. `LeaseInv` therefore says what
  each pending write may be (`WritesFresh`, `Shapes`), what each manager
  remembers of the object (`Knowledge`), that a standby which has watched a
  version for some time has watched it no longer than it was there (`Watched`),
  that a manager whose check passes either holds the object or has its own
  unanswered write there (`Held`), and that a claim excludes every other passing
  check (`ClaimsExclude`). One lemma per action and conjunct leads to
  `NextInv`.
* `TypeCorrect` and `MutualExclusion` (`Spec => []AtMostOneWorks`) follow.
* `Fencing`, `Spec => FencingTokenSpec`: each step of the protocol is a step of
  `FencingToken` or leaves its variables alone.
* `KeySafe`, `Spec => KeyKept`. `KeyInv` carries the key from the observation to the
  write: whoever may still write over the lease in the storage, because its write is on
  its way, its question for the epoch floor is open or it holds the lease, has the key
  of that lease.

`TakeoverProofs` has two parts. About `HAFailover` it proves, for every set of
instances, every number of kept snapshots, every history the cluster may start with and
every bound, with `Hand = 0` (nobody deletes, alters or puts back an object or forces a takeover):

* `OneWriter` (`[]FailoverInv`) and `NewestRetained` (`[]NamedAvailable`), whatever the
  clocks do and even when a lease is regained during a takeover. Neither is inductive.
  `FInv` looks at every snapshot that is stored, on its way or being taken (`Written`):
  those of one epoch are of one instance, and no instance that is active, or may become
  it without acquiring, shares its epoch with another (`EpochInv`, `ActiveInv`); the
  leading snapshot is in no list of what a retention is about to delete, whoever made
  the list and however long ago (`KeepInv`); and every mark on record, in the lease, in
  a manager, in `ha.json` or in a takeover under way, is answered by a snapshot at least
  as new (`MarkInv`).
* `MetadataKept` (`[]StoredKept`), assuming also `SetBack = FALSE` and
  `Regain = FALSE`. `SInv` says that the leading snapshots hold what was stored before
  them, and that the database of an instance holds everything stored, unless a snapshot
  of a later epoch exists (`Has`), in each phase of a takeover and of a snapshot being
  taken. The last exception is void for the active instance, because by `FInv` nothing is
  of a later epoch than the lease.

The three hypotheses exclude exactly what the Observations describe and what TLC shows
to violate the properties. That the checks of `prepareTakeover` keep the metadata when
one object is deleted or altered, one older lease put back, or one takeover forced, is
what run `ha_rollback` checks; it stays with TLC.

About `DatabaseSwap` it proves, for every set of contents, every number of kept copies
and every bound, assuming the wall clock is not set back (`ClockSetBack = FALSE`):
`SwapInvariant` (`SwapInv` is inductive: it relates the phase of the replacement to the
journal, the files and the copies), `PreviousIsKept` and `JournalIsTruthful`. The lemma
`NewCopy` says that the name of a new copy is newer than every existing one, which is
where the clock is needed.

`JobRunsProofs` proves, for every set of runs of every kind, every set of databases,
every selection, parallelism and limit, and every number of cancellations, drains,
stops and crashes, from `JobRunsConstants`:

* `RunsSafe` (`[]RunsInv`), `SlotsSafe` (`[]SlotsUsed`) and `CancelSafe`
  (`StopsAsAWhole`) from one inductive invariant, `RunsInv /\ SlotsUsed /\
  CancelsReach`. The parts need each other: the type of the queue rests on
  `SlotsUsed`, and what a cancellation has still to reach rests on where `RunsInv`
  says the backups of its run are. `CancelsReach` is what makes `StopsAsAWhole`
  inductive: while a request works through its list, every backup of the run that
  could still start mongodump is cancelled, or on the list, or will adopt the
  cancellation of a sibling when it is registered.
* `DatabaseSafe` (`[]OneBackupPerDatabase`): a backup that dumps owns the lock of its
  database (`LocksExclude`). `RecordsSafe` (`[]RecordsSettle`): what `RunsInv` says of
  the store while the process is up.

`PITRRetentionProofs` proves, for every number of positions, targets, kept bases,
attempts and events, `CommittedSafe` (`[]CommittedStored`) and `PlanSafe`
(`[]PlanReadable`). Objects are deleted in three places (sweep, purge of chunks, purge
of bases), each from a list made earlier; the invariant says what each list may
contain: `UploadSafe` (a chunk stored and not yet committed is young and in no sweep's
list), `DueOnly` and `PurgeDue` (a purge holds only what is due), `PlanKept` (a plan
that was checked after it was pinned is in no list, and rows once chosen only turn the
way a pin allows). The argument goes by variable: which way a row or a base may turn in
any step (`Turned`, `BaseTurned`). Both theorems have the hypothesis
`SweepRaces = FALSE`, which excludes exactly the race that the Observations describe
and under which TLC violates `CommittedStored`.
`WindowsSafe` (`WindowsKept`) needs no hypothesis. Retention decides on what it read and
deletes later, so its invariant `WInv` speaks of the decision after the fact. Bases run
one after the other (`OrderInv`), so a chunk that ends before the oldest kept base of its
chain but not before another kept base lies past the end of that one. Hence (`KeptInv`) a
chunk it will delete and that a kept base might need is of a chain that a restore of that
base does not replay, because an earlier chain has a chunk at its start (`Preceded`), or
that does not cover the base and takes no more chunks within it (`Short`); both stay true
while chunks are added, superseded and found bad. The rest is that a plan is linked from
the start of its base to its limit (`PlanLinked`), so that the chain it replays covers the
base. The first attempt failed: as it was stated, `WindowsKept` was too strong, which needs
more than one event to show (see Observations).

`OplogCollectorProofs` proves, for every number of positions, terms and events, every
distance between entries and every chunk interval, `Coherent` (`[]RepoCoherent`),
`Unbroken` (`[]ReplayUnbroken`) and `CoveredOnChain` (`[]CoveredBaseOnChain`), and,
under `PrimaryLags = FALSE`, `ForCause` (`GivenUpForCause`). What a chunk holds was
read from an oplog that may be gone by now, so the invariant speaks of all oplogs that
ever were (`ServerInv`): two that share an entry are the same up to it, what they share
is committed, and what is written after they part is of a later term or set. This is
why comparing one entry with its term is enough for the collector to know that it is
still on its history. `RepoInv` says that all chunks of a chain are stretches of one
history and fit together, `WorkerInv` what the worker remembers between its steps: the
end of the range being read is on a history, what was read is the stretch up to it, and
the state row it will compare and set is at most one step behind. `CauseInv`, for
`ForCause`, says that a verdict (gap, divergence, another set) stays right until the
step that acts on it, also when entries are written or truncated in between; with
`PrimaryLags = TRUE` TLC violates it (see Observations).
`ReplayUnbroken` is stated for any two chunks of a chain that are connected, which is
more than the runs' restores ask for, and which is what makes it follow from the
invariant.

`InPlaceRestoreProofs` proves, for every set of databases and every number of events:

* `SwapSafe` (`[]SwapUndisturbed`), without a hypothesis: also when saves fail, nothing
  disturbs a swap but a collector started late, and the keys held are those of the work
  under way. `LifeInv` relates the goroutine, the stream, the critical step and the
  stages of the shutdown (from the pause on the stream stays disabled, so a collector
  that runs was started from an older list), `DueInv` says when the goroutine of a start
  that enables the stream can be there, `KeysInv` who owns which key.
* `StatesSafe` (`[]StatesKept`), under `SavesFail = FALSE`, without which TLC violates
  it. `DataInv` follows originals, clones and safety backups through the swap;
  `SavedInv` says that the stored record is never behind what the next start must know
  (a swap that began is stored before the first original is written).
* `OutcomeSafe` (`OutcomeTruthful`), an action property, under the same hypothesis,
  which TLC shows to be needed as well: with a record that is behind, a start claims
  "untouched" of an original that was reached. `ClaimInv` says at each place what the
  record that will be stored can claim: the clones a failed or stopped swap leaves are
  complete (`ClonesInv`), a restore that was not swapped has not said that it would be
  and what was swapped is stored (`RunClaims`), a start that finds a swap begun finds
  every clone of an original not yet swapped (`StoredClaims`; unless every database is
  stored as swapped every clone is there, so that "kept" holds but for that case), and what a restore of a
  backup has checked stays so until it is over, since it holds the key (`BkClaims`;
  only a copy that outlived its process can write there, and nothing is said of a
  restore that was not counted).

`ArchiveLifecycleProofs` proves, for every number of backups, kept backups, attempts and
events, `RestorableSafe` (`[]Restorable`), `CopiesSafe` (`[]CopiesTracked`),
`HoldsSafe` (`[]HoldAgrees`) and `RetentionSafe` (`RetentionKeepsVerified`). The
inductive invariant has twenty-two parts, `CopiesTracked` among them. It rests on whose keys are whose (`RecordKeys`,
`StoredKeys`, `ActorKeys`, `ItemKeys`): each record has an archive key of its own, the
one of a new archive is new and known to nobody else until the swap, so that a step on
one key leaves the records of the others alone. `WorkInv`, `TodoInv` and `MovedInv` give
the order of the re-encryption, `PurgeInv` what stays true after the purge's one look at
a record, `CopyInv`, `AttemptInv` and `ObjectsInv` the copies and their objects,
`ArchInv` and `UsableInv` what is in storage, `PinInv` to `MovingInv` the holds during
pins and swaps. The first attempt at `HoldAgrees` failed at `PurgeFails`: three
events are needed to see why, one more than the bound of the run (see Observations), and
the model now has the case.

`NotificationOutboxProofs` proves, for any channels, workers, events, routes, sizes of
the bus, the queue and the outbox, rounds and faults, and without a hypothesis,
`SentOnce` (`[]NotSentAgain`), `Ordered` (`[]InOrder`) and `NothingLost`
(`[]Accounted`) from one inductive invariant (`OutboxInvariant`). The dispatcher decides
on heads it read while workers were settling. What makes this harmless: a channel has at
most one outbox delivery under way, claimed, queued or in the hands of a worker; a head
whose channel has not been settled since the counters were taken is still the oldest row
of its channel, and nothing newer was accepted; and a row that was accepted is being
settled or is held in memory as one to remove, so that it is not sent again when its
deletion failed. Events are stored once, because the copy of an alert on the bus is
known to be in the outbox (`EventInv`). The limit of the outbox needs that no two rows
have the same number of older ones, so that keeping those with few newer ones keeps no
more than the limit.

What stays with TLC:

* liveness (`EventuallyOver`, `CatchesUp`, `WindowOpens`, `NothingLeaks`,
  `StreamReturns`, `ArchivesSettle`, `Drains`), which is out of the prover's reach;
* `StoredKept` with one intervention by hand (`ha_rollback`), with the limits of the
  theorems' hypotheses named above;
* that each property can be violated, which is what the mutants show.

## Observations

Places met while modelling where the code and what the repository says of it
differ, or where a property of a run holds only under an assumption. None has a run
of its own; each can be reproduced by changing the run named.

High availability and the metadata database:

* `internal/app/ha.go:663`: after a takeover the supervisor checks that it is
  active, not that it still has the lease whose takeover it prepared; a lease lost
  and regained in between, with another instance active in the meantime, makes it
  serve metadata older than what was stored (`ha_rollback` with
  `Histories = {"snapshots"}`, `Regain = TRUE`, `Hand = 0`, `MaxEpoch = 5`,
  `MaxTime = 3` violates `StoredKept`; `ha_handover.go:239`, `docs/design/ha.md:101`).
* `internal/app/ha_handover.go:313`: a snapshot that was stored although its upload
  was reported failed, and a crash after the next one, make the lease lag two
  writes, and the takeover is refused as if an older lease had been put back (same
  run with `Regain = FALSE`, `MaxEpoch = 4`, `MaxTime = 4` and the invariant that a
  holder never has the reason `lease_stale`; `docs/design/ha.md:115`).
* `internal/app/ha_handover.go:326`: a forced takeover that dies between replacing
  the database and confirming leaves an older database that the next takeover takes
  for its own newest (same run with `Hand = 1`, `MaxEpoch = 4`, `MaxTime = 2` and
  the invariant that an instance that confirms without having been forced holds at
  least what its snapshot holds; the message at line 329 says so).
* `internal/store/replace.go:193`: when the first write of the journal fails the
  torn journal stays and later starts refuse (`database_swap` with the invariant
  `Reached("aborted") => journal = NoJournal`; comment at line 200). A crash during a
  journal write has the same effect although the database is intact.
* With a wall clock that is set back snapshots of one epoch are ordered wrongly
  (`SetBack = TRUE` violates `StoredKept`) and the newest copy of the database is
  pruned first (`ClockSetBack = TRUE` violates `PreviousKept`). Copies of aborted replacements count among the
  copies kept. A takeover whose confirming renewal is not answered before a crash
  leaves the lease unsigned, and the next takeover is refused.

Run control:

* `internal/backup/engine.go:710`: a cancellation that is accepted after mongodump
  has ended and before `Run.Finishing` is answered as successful and the backup is
  recorded as completed (`job_runs` with the invariant that a cancelled backup is
  never completed; `docs/kubernetes.md:83`, `operations/runs.go:56`). The archive is
  complete; nothing is lost.
* The timer of the backup window cancels nothing when it fires while the databases
  of the run are being resolved, and the run goes on past its window
  (`scheduler.go:911`, `docs/production.md:316`). `CancelJobRun` may miss a database
  that is registered between the list and the first cancellation. A backup on a
  connection without a limit takes no slot and lets no waiter in.

Point-in-time recovery:

* A reconcile on an older list (`collector.go:318`) can start a collector
  (`collector.go:360`) after `PauseStream` has ended the chain; the comment at
  `pause.go:16` rules it out. It opens a new chain and may read the oplog while an
  in-place restore replaces the databases (`inplace_restore` without the exception
  `late` violates `SwapUndisturbed`); the next reconcile stops it.
* `Confirm` does not compare the primary's majority optime with the position: with
  `PrimaryLags = TRUE` (a primary just elected that does not know the majority
  optime yet) `pitr_collect` violates `GivenUpForCause`. `readTAfter` compares
  positions without their terms. After a failed start of a chain the worker waits on
  the ended one until the majority passes the position. A first, inclusive chunk at
  the divergence point is not superseded.
* `ChunkKey` says that a retry does not overwrite, but the end of a catch-up chunk
  is determined by the position: with `SweepRaces = TRUE` `pitr_retention` violates
  `CommittedStored` (the sweep deletes an object that was stored again meanwhile).
  Retention deletes chunk rows by an older snapshot of the pins (the objects stay
  until the purge, which honours the pins). While the newest chunk is bad and the
  server idle, base after base is due. Retention deletes the chunks of an ended
  chain while its base is still running.
* A base whose two optimes are the point at which a chain diverged is covered by the
  chain that ended there and by the next one. Retention looks at the first only
  (`retention.go:66`) and deletes the chunks of the other as not needed; when a chunk of
  the first is found bad between the plan and the deletion, the base is covered by none,
  though it would be had they stayed. This is why `WindowsKept` speaks of the chain that
  was seen covering the base (`MaxTS = 5`, `MaxEvents = 3`, and any covering chain instead
  of `e[2]`, violate it).

Restores:

* A failed save of the progress of an in-place restore is only logged: with
  `SavesFail = TRUE` `inplace_restore` violates `StatesKept` (the start after a crash
  in the copy drops the clones and says that the originals are untouched).
* The stage "resuming" is never stored: a start after a crash there says that the
  clones are kept, though they were dropped (`pitrinplace.go:314`, `495`;
  `inplace_restore` without the exception in `Truthful` violates `OutcomeTruthful`).
* In a shutdown `resumeInPlace` gives the enable one second and takes any deadline for
  "enabled, chain not yet open" (`pitrinplace.go:455`), though `ResumeStream` may run
  out of time before it has stored the stream (`pause.go:67`): the record then says
  that the stream was resumed, no alert is raised and no later start enables it. A
  start does the same (`pitrinplace.go:531`), but its goroutine enables the stream once
  more; only a crash before that loses it (`inplace_restore` without `past.missed`
  violates `StreamReturns`).
* A restore of which mongorestore printed no summary is completed with a warning
  (`restore/engine.go:766`), and a replay whose operations it did not count goes on
  to the swap (`restore/pitr.go:328`): what they wrote was not checked.
* Clones beyond the manifest of the base
  are recorded after pass 1 (`pitrrestore.go:331` says before they are written to).
  A copy that outlives a crash runs on while the stream is resumed and restores are
  accepted. The partial safe clone of a backup restore is not dropped after a crash.

Archives:

* `copies/queue.go:374` says that no object is left untracked. The code loses one in
  four ways (`archive_lifecycle` without the exception `lost` violates `CopiesTracked`):
  a copy that failed without an object counts as never written, so when a retry has
  uploaded and the process dies before it is recorded, a purge skips the object
  (`models/copy.go:113`, `purgecopies.go:26`; the comment at `queue.go:398` speaks of
  pending copies only); a purge that reads such a copy while the retry uploads takes no
  lock and skips it too; a failed attempt recorded on a pending copy whose object is
  there, from an attempt that was cut or from before a verification requeued it, leaves
  `Written` unset (`models/copy.go:126`); and a removal that fails or meets a lock is
  only logged (`queue.go:469`).
* The removal of an unused new archive may fail, which is only logged
  (`reencrypt.go:395`), or ends the job, which is not resumed (`reencrypt.go:349`): the
  archive stays and no record names it (`archive_lifecycle` without `lost` violates
  `ArchivesSettle`).
* A pin that overlaps a re-encryption leaves the record held and the new archive
  not; the tombstone's archive stays held and its purge fails for ever
  (`operations/trust.go:106`). A crash after the hold of the new archive leaves a
  held archive on a record that is not, and a second one overwrites that record.
* The purge lifts the hold of a deleted record before it deletes the archive. When the
  deletion fails, or the process dies, the record still says that it is held; once it
  is undeleted a pin finds `LegalHold` set and sets no hold (`scheduler/purge.go:290`;
  the comment at `operations/trust.go:92` says that the two never disagree).
* A crash of the purge between storage and record leaves a deleted record that can
  be undeleted without an archive (`scheduler/purge.go:325`).
* The floor of retention, the last good backup, is not checked again in the
  transaction: when a user deletes the newest after the plan, retention deletes the
  last completed one.

Notifications: the memory of a held row that was trimmed from the outbox is never
released; deliveries of the in-memory fallback may overtake the outbox and are lost
in a crash (documented).

## Not modelled

* HA front, heartbeat, HTTP API, MCP, CLI, API client, desktop app, settings,
  configuration, metrics: request handling and presentation without shared state a
  property would be about.
* Encryption, key wrapping, secret storage, archive formats, storage adapters,
  process and driver I/O: data transformations and external calls; the models use
  their contracts.
* Authentication and rate limits, the schedule of integrity checks, restore tests and
  readiness, metadata backup and recovery kit: sequential, or guarded by one
  transaction each.
* Audit log, rotation of the key files and the disk guard's admission: they have
  crash windows worth a module each and are next after the proofs.
* The lines these parts take are most of the repository, so the map covers a small
  share of it; it is meant to cover the parts where order, failure and concurrency
  decide.

## Plan

1. `HALease`, `FencingToken`, `DatabaseSwap` and their proofs (done).
2. `HAFailover`, `JobRuns` (done), `OplogCollector`, `PITRRetention`,
   `InPlaceRestore`, `ArchiveLifecycle`, `NotificationOutbox` (done).
3. Proofs: `JobRuns`, `PITRRetention`, `InPlaceRestore`, `ArchiveLifecycle`,
   `HAFailover`, `OplogCollector`, `NotificationOutbox` (done); then `StoredKept` with
   interventions by hand.
4. Audit chain and key rotation with crashes; the disk guard's episodes.
5. Liveness of the lease (a standby takes over), a run with unequal TTLs, several
   events in one run of `JobRuns`.
