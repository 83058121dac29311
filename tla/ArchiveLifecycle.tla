--------------------------- MODULE ArchiveLifecycle ---------------------------
(***************************************************************************)
(* What becomes of the archives of one job's backups after they were       *)
(* stored: the copy queue copies them to a second target, retention and    *)
(* users delete records softly, users undelete, pin (with an S3 legal      *)
(* hold) and unpin them, the purge removes what was deleted once its grace *)
(* period is over, and a re-encryption moves a record to a new archive and *)
(* leaves a tombstone that owns the old one.  Deletions, undeletions, pins *)
(* and the purge take the job's deletion lock, the copy queue and the      *)
(* purge of a copy take the lock of the copied object, the re-encryption   *)
(* takes no lock.  Any step may be cut by a crash.                         *)
(***************************************************************************)
EXTENDS Integers, FiniteSets, FiniteSetsExt

CONSTANTS
    NumBackups,   \* backups of the job, numbered in the order they started
    Copied,       \* the backups with a copy target
    Encrypted,    \* the encrypted ones, which a re-encryption moves
    Pinned,       \* the ones pinned from the start
    Keep,         \* RetentionCount of the job
    MaxAttempts,  \* attempts of the copy queue before it gives a copy up
    MaxEvents     \* bound on what users do, failures and crashes

ASSUME LifecycleAssumption ==
    /\ {NumBackups, MaxAttempts} \subseteq Nat \ {0} /\ {Keep, MaxEvents} \subseteq Nat
    /\ UNION {Copied, Encrypted, Pinned} \subseteq 1..NumBackups

VARIABLES
    recs,     \* the stored backup records
    arch,     \* the keys of the archives on the primary target
    held,     \* those under a legal hold
    copies,   \* the keys of the objects on the copy target
    plan,     \* what a retention run has planned to delete and not yet tried
    purge,    \* the purge run
    pin,      \* a pin or unpin between its record and its legal hold
    attempt,  \* the copy the queue is making
    job,      \* the stored re-encryption job
    work,     \* the goroutine that runs it
    torn,     \* the backups that a crash or a race left half changed, and how
    lost,     \* the keys of the objects that the code itself has lost sight of, and which
    events

storage == <<arch, held, copies>>
actors == <<plan, purge, pin, attempt>>
vars == <<recs, storage, actors, job, work, torn, lost, events>>

Happens == events < MaxEvents /\ events' = events + 1

Backups == 1..NumBackups
\* The tombstone of a re-encrypted backup, and the record of an unused new archive.
Tombstone(b) == b + NumBackups
Partial(b) == b + 2 * NumBackups
Ids == 1..3 * NumBackups
\* The backup a record is about; its number is also when it started.
Of(i) == IF i > 2 * NumBackups THEN i - 2 * NumBackups ELSE IF i > NumBackups THEN i - NumBackups ELSE i
IsPartial(i) == i > 2 * NumBackups

Keys == Nat \ {0}
NoCopy == [status |-> "none", key |-> 0, sha |-> 0, written |-> FALSE, tries |-> 0]
NewCopy(k) == [NoCopy EXCEPT !.status = "pending", !.key = k]
NoRec == [status |-> "none", key |-> 0, due |-> FALSE, pinned |-> FALSE, hold |-> FALSE, check |-> "none", copy |-> NoCopy]

NoPurge == [pc |-> "idle", todo |-> {}, id |-> 0, rec |-> NoRec]
NoPin == [pc |-> "idle", id |-> 0, key |-> 0, hold |-> FALSE, was |-> FALSE]
NoAttempt == [pc |-> "idle", id |-> 0, key |-> 0, src |-> 0, result |-> "none"]
NoItem == [id |-> 0, old |-> 0, new |-> 0]
NoWork == [pc |-> "off", todo |-> {}, seen |-> [i \in Ids |-> NoRec], held |-> FALSE]

\* Two backups were just stored, their copies are queued.
Init ==
    /\ recs = [i \in Ids |-> IF i \in Backups
                             THEN [NoRec EXCEPT !.status = "completed", !.key = i, !.check = "ok",
                                                !.pinned = i \in Pinned, !.hold = i \in Pinned,
                                                !.copy = IF i \in Copied THEN NewCopy(i) ELSE NoCopy]
                             ELSE NoRec]
    /\ arch = Backups /\ held = Pinned /\ copies = {}
    /\ plan = {} /\ purge = NoPurge /\ pin = NoPin /\ attempt = NoAttempt
    /\ job = [status |-> "none", made |-> 0, item |-> NoItem, finished |-> {}]
    /\ work = NoWork /\ torn = {} /\ lost = {} /\ events = 0

Completed(R) == {i \in Ids : R[i].status = "completed"}
\* The deletion lock of the job is free: the purge holds it for one record at a time.
DeletionLockFree == purge.id = 0 /\ pin.pc = "idle"

-----------------------------------------------------------------------------
(* Deletion: by users, by retention, and undone. *)

MarkDeleted(r) == [r EXCEPT !.status = "deleted", !.due = FALSE]

DeleteBackup(i) ==
    /\ DeletionLockFree /\ Happens
    /\ recs[i].status \in {"completed", "failed"} /\ ~recs[i].pinned
    /\ recs' = [recs EXCEPT ![i] = MarkDeleted(@)]
    /\ UNCHANGED <<storage, actors, job, work, torn, lost>>

\* A record gets back the status it had; an unused new archive never completed.
UndeleteBackup(i) ==
    /\ DeletionLockFree /\ Happens
    /\ recs[i].status = "deleted"
    /\ recs' = [recs EXCEPT ![i].status = IF IsPartial(i) THEN "failed" ELSE "completed", ![i].due = FALSE]
    /\ UNCHANGED <<storage, actors, job, work, torn, lost>>

\* The grace period of a deletion ends.
TimePasses(i) ==
    /\ recs[i].status = "deleted" /\ ~recs[i].due
    /\ recs' = [recs EXCEPT ![i].due = TRUE]
    /\ UNCHANGED <<storage, actors, job, work, torn, lost, events>>

\* What a verification says of an archive: nothing yet, or that it could not be read;
\* that it is good; that it is damaged.
Checks == {"none", "ok", "mismatch"}
Verify(i) ==
    /\ Happens /\ recs[i].status = "completed"
    /\ \E v \in Checks \ {recs[i].check} : recs' = [recs EXCEPT ![i].check = v]
    /\ UNCHANGED <<storage, actors, job, work, torn, lost>>

Newer(R, i) == {j \in Completed(R) : Of(j) > Of(i) \/ (Of(j) = Of(i) /\ j < i)}
IsLastVerified(R, i) == R[i].check = "ok" /\ \A j \in Newer(R, i) : R[j].check # "ok"
PlanRetention(R) ==
    {i \in Completed(R) : /\ Cardinality(Newer(R, i)) >= Max({Keep, 1})
                          /\ ~R[i].pinned /\ ~IsLastVerified(R, i)}

PlanPrune ==
    /\ plan = {} /\ Keep > 0 /\ Happens
    /\ PlanRetention(recs) # {} /\ plan' = PlanRetention(recs)
    /\ UNCHANGED <<recs, storage, purge, pin, attempt, job, work, torn, lost>>

\* Mutant: retention trusts its plan.
PruneRefusedAsPlanned(i) == recs[i].pinned \/ recs[i].status # "completed"
\* What PruneBackupRecord checks again in its transaction.
PruneRefused(i) ==
    \/ recs[i].pinned \/ recs[i].status # "completed"
    \/ recs[i].check = "ok" /\ ~\E j \in Completed(recs) : recs[j].check = "ok" /\ Of(j) > Of(i)

\* The planned backups are deleted one by one, the oldest first.
PruneNext ==
    /\ plan # {} /\ DeletionLockFree
    /\ LET i == CHOOSE p \in plan : \A q \in plan : Of(p) <= Of(q) IN
       /\ plan' = plan \ {i}
       /\ recs' = IF PruneRefused(i) THEN recs ELSE [recs EXCEPT ![i] = MarkDeleted(@)]
    /\ UNCHANGED <<storage, purge, pin, attempt, job, work, torn, lost, events>>

-----------------------------------------------------------------------------
(* Pins and their legal holds. *)

\* The re-encryption has read the record of i and not yet moved it to its new archive.
BeingReencrypted(i) == work.pc # "off" /\ i \in work.todo

\* A backup may be pinned again; one that counts as held is not held again.
BeginPin(i) ==
    /\ DeletionLockFree /\ Happens
    /\ recs[i].status \in {"completed", "failed"}
    /\ LET k == recs[i].key
           hold == ~recs[i].hold /\ k \in arch IN
       /\ held' = IF hold THEN held \cup {k} ELSE held
       /\ pin' = [NoPin EXCEPT !.pc = "pin", !.id = i, !.key = k, !.hold = hold]
    /\ torn' = IF BeingReencrypted(i) THEN torn \cup {<<"hold", Of(i)>>} ELSE torn
    /\ UNCHANGED <<recs, arch, copies, plan, purge, attempt, job, work, lost>>

RecordPin ==
    /\ pin.pc = "pin"
    /\ recs' = [recs EXCEPT ![pin.id].pinned = TRUE, ![pin.id].hold = @ \/ pin.hold]
    /\ pin' = NoPin
    /\ UNCHANGED <<storage, plan, purge, attempt, job, work, torn, lost, events>>

\* The record first, then the hold.
BeginUnpin(i) ==
    /\ DeletionLockFree /\ Happens
    /\ recs[i].pinned \/ recs[i].hold
    /\ recs' = [recs EXCEPT ![i].pinned = FALSE, ![i].hold = FALSE]
    /\ pin' = IF recs[i].hold
              THEN [pc |-> "unpin", id |-> i, key |-> recs[i].key, hold |-> TRUE, was |-> recs[i].pinned]
              ELSE NoPin
    /\ torn' = IF BeingReencrypted(i) THEN torn \cup {<<"hold", Of(i)>>} ELSE torn
    /\ UNCHANGED <<storage, plan, purge, attempt, job, work, lost>>

\* A hold that cannot be lifted brings the pin back.
RestorePin == recs' = [recs EXCEPT ![pin.id].pinned = pin.was, ![pin.id].hold = TRUE]

LiftHold ==
    /\ pin.pc = "unpin" /\ pin' = NoPin
    /\ \/ held' = held \ {pin.key} /\ UNCHANGED <<recs, events>>
       \/ Happens /\ RestorePin /\ UNCHANGED held
    /\ UNCHANGED <<arch, copies, plan, purge, attempt, job, work, torn, lost>>

-----------------------------------------------------------------------------
(* The purge.  It lists what is due, then takes the records one by one under the    *)
(* deletion lock: the copies first, then the archive, then the record.              *)

PurgeDue(r) == r.status = "deleted" /\ r.due /\ ~r.pinned
MayExist(c) == c.status \in {"done", "pending"} \/ (c.status = "failed" /\ c.written)
HoldsArchive(r) == r.status \in {"completed", "deleted"}
\* Mutant: the purge of a copy does not take the lock of its object.
CopyUnlocked(k) == FALSE
\* The lock of the copied object k, which the copy queue holds from its second look at
\* the record until the outcome is recorded.
CopyLocked(k) == attempt.pc # "idle" /\ attempt.key = k
\* A copy that counts as never written, so that the purge passes it by, while its next
\* attempt is under way.
Overlooked(c) == c.status = "failed" /\ ~MayExist(c) /\ attempt.pc # "idle" /\ attempt.key = c.key

ListDeleted ==
    /\ purge.pc = "idle"
    /\ LET L == {i \in Ids : PurgeDue(recs[i])} IN
       L # {} /\ purge' = [NoPurge EXCEPT !.pc = "next", !.todo = L]
    /\ UNCHANGED <<recs, storage, plan, pin, attempt, job, work, torn, lost, events>>

PurgeRest == IF purge.todo = {} THEN NoPurge ELSE [NoPurge EXCEPT !.pc = "next", !.todo = purge.todo]

\* Mutant: the record is taken as it was listed.
BeginPurgeAsListed(i) ==
    /\ purge.pc = "next" /\ i \in purge.todo /\ DeletionLockFree
    /\ purge' = [purge EXCEPT !.todo = @ \ {i}, !.pc = "copies", !.id = i, !.rec = recs[i]]
    /\ UNCHANGED <<recs, storage, plan, pin, attempt, job, work, torn, lost, events>>
\* The record is read again under the lock.
BeginPurge(i) ==
    /\ purge.pc = "next" /\ i \in purge.todo /\ DeletionLockFree
    /\ LET rest == [purge EXCEPT !.todo = @ \ {i}] IN
       purge' = IF PurgeDue(recs[i]) THEN [rest EXCEPT !.pc = "copies", !.id = i, !.rec = recs[i]]
                ELSE IF rest.todo = {} THEN NoPurge ELSE rest
    /\ lost' = IF PurgeDue(recs[i]) /\ Overlooked(recs[i].copy) THEN lost \cup {<<"copy", recs[i].copy.key>>} ELSE lost
    /\ UNCHANGED <<recs, storage, plan, pin, attempt, job, work, torn, events>>

PurgeCopy ==
    /\ purge.pc = "copies" /\ MayExist(purge.rec.copy) /\ ~CopyLocked(purge.rec.copy.key)
    /\ copies' = copies \ {purge.rec.copy.key}
    /\ purge' = [purge EXCEPT !.pc = "record"]
    /\ UNCHANGED <<recs, arch, held, plan, pin, attempt, job, work, torn, lost, events>>

RecordCopyPurged ==
    /\ purge.pc = "record"
    /\ recs' = [recs EXCEPT ![purge.id].copy.status = "purged"]
    /\ purge' = [purge EXCEPT !.pc = "lift"]
    /\ UNCHANGED <<storage, plan, pin, attempt, job, work, torn, lost, events>>

\* Another record that owns the archive of i keeps it.
ArchiveHolder(i) == \E j \in Ids \ {i} : recs[j].key = recs[i].key /\ HoldsArchive(recs[j])

\* The hold that a tombstone inherited ends with its purge.
LiftTombstone ==
    /\ purge.pc = "lift" \/ (purge.pc = "copies" /\ ~MayExist(purge.rec.copy))
    /\ held' = IF purge.rec.hold /\ ~ArchiveHolder(purge.id) THEN held \ {purge.rec.key} ELSE held
    /\ purge' = [purge EXCEPT !.pc = "archive"]
    /\ UNCHANGED <<recs, arch, copies, plan, pin, attempt, job, work, torn, lost, events>>

\* A held archive cannot be deleted: its record stays deleted and is tried again.
PurgeArchive ==
    LET k == purge.rec.key
        kept == ArchiveHolder(purge.id) IN
    /\ purge.pc = "archive"
    /\ \/ /\ kept \/ k \notin held
          /\ arch' = IF kept THEN arch ELSE arch \ {k}
          /\ purge' = [purge EXCEPT !.pc = "mark"]
       \/ ~kept /\ k \in held /\ purge' = PurgeRest /\ UNCHANGED arch
    /\ UNCHANGED <<recs, held, copies, plan, pin, attempt, job, work, torn, lost, events>>

MarkPurged ==
    /\ purge.pc = "mark"
    /\ recs' = IF PurgeDue(recs[purge.id]) THEN [recs EXCEPT ![purge.id].status = "purged", ![purge.id].hold = FALSE] ELSE recs
    /\ purge' = PurgeRest
    /\ UNCHANGED <<storage, plan, pin, attempt, job, work, torn, lost, events>>

\* The purge has lifted the hold of an archive whose record still counts as held.
HoldLifted == {<<"hold", Of(i)>> : i \in {purge.id} \cap (IF purge.pc \in {"archive", "mark"} /\ purge.rec.hold THEN Ids ELSE {})}

\* The storage refuses: the record stays deleted and is tried again by the next run.
PurgeFails ==
    /\ purge.pc \in {"copies", "lift", "archive"} /\ Happens
    /\ purge' = PurgeRest
    /\ torn' = torn \cup HoldLifted
    /\ UNCHANGED <<recs, storage, plan, pin, attempt, job, work, lost>>

-----------------------------------------------------------------------------
(* The copy queue. *)

\* Pending, or failed with a next attempt.
Waiting(c) == c.status = "pending" \/ (c.status = "failed" /\ c.tries < MaxAttempts)

\* The record is read again under the lock of the copy's object.  A damaged archive is
\* not copied, one that was not verified is.
BeginAttempt(i) ==
    /\ attempt.pc = "idle"
    /\ recs[i].status = "completed" /\ recs[i].check # "mismatch" /\ Waiting(recs[i].copy)
    /\ attempt' = [NoAttempt EXCEPT !.pc = "upload", !.id = i, !.key = recs[i].copy.key, !.src = recs[i].key]
    /\ UNCHANGED <<recs, storage, plan, purge, pin, job, work, torn, lost, events>>

\* The archive is open for reading: its deletion does not stop the upload.  A target
\* that fails may have stored an object.
Upload ==
    /\ attempt.pc = "upload"
    /\ \E res \in {"ok", "error", "written"} :
       /\ attempt' = [attempt EXCEPT !.pc = "record", !.result = res]
       /\ copies' = IF res = "error" THEN copies ELSE copies \cup {attempt.key}
       /\ IF res = "ok" THEN UNCHANGED events ELSE Happens
    /\ UNCHANGED <<recs, arch, held, plan, purge, pin, job, work, torn, lost>>

Recorded(c) ==
    IF attempt.result = "ok"
    THEN [c EXCEPT !.status = "done", !.sha = attempt.src, !.written = FALSE, !.tries = @ + 1]
    ELSE [c EXCEPT !.status = "failed", !.written = @ \/ attempt.result = "written", !.tries = @ + 1]

CopyGone(c) == c.key # attempt.key \/ c.status = "purged"
\* A failure that stored nothing is recorded on a copy whose object is there, from an
\* attempt that was cut or from before it was found damaged: it counts as never written.
Forgotten(c) == attempt.result = "error" /\ ~c.written /\ c.key \in copies

RecordAttempt ==
    LET c == recs[attempt.id].copy
        skip == attempt.result # "ok" /\ ~Waiting(c) IN
    /\ attempt.pc = "record"
    /\ recs' = IF CopyGone(c) \/ skip THEN recs ELSE [recs EXCEPT ![attempt.id].copy = Recorded(@)]
    /\ attempt' = IF CopyGone(c) /\ attempt.result # "error" THEN [attempt EXCEPT !.pc = "untracked"] ELSE NoAttempt
    /\ lost' = IF ~CopyGone(c) /\ Forgotten(c) THEN lost \cup {<<"copy", c.key>>} ELSE lost
    /\ UNCHANGED <<storage, plan, purge, pin, job, work, torn, events>>

\* An object that cannot be removed, or is locked, is only logged.
RemoveUntracked ==
    /\ attempt.pc = "untracked" /\ attempt' = NoAttempt
    /\ \/ copies' = copies \ {attempt.key} /\ UNCHANGED <<lost, events>>
       \/ Happens /\ lost' = lost \cup {<<"copy", attempt.key>>} /\ UNCHANGED copies
    /\ UNCHANGED <<recs, arch, held, plan, purge, pin, job, work, torn>>

Requeue(i, s) ==
    /\ Happens /\ recs[i].status = "completed" /\ recs[i].copy.status = s
    /\ recs' = [recs EXCEPT ![i].copy.status = "pending", ![i].copy.tries = 0]
    /\ UNCHANGED <<storage, actors, job, work, torn, lost>>
RetryCopies(i) == Requeue(i, "failed")
\* A verification of the copies finds one damaged: it is copied again.
VerifyCopies(i) == Requeue(i, "done")

-----------------------------------------------------------------------------
(* The re-encryption.  The job is stored before and after every backup; its work is *)
(* lost by a crash and resumed, unless the job failed.                              *)

item == job.item
NewKey == NumBackups + job.made + 1

Trigger ==
    /\ job.status = "none" /\ work.pc = "off"
    /\ job' = [job EXCEPT !.status = "running"]
    /\ work' = [NoWork EXCEPT !.pc = "list"]
    /\ UNCHANGED <<recs, storage, actors, torn, lost, events>>

\* The start after a crash resumes the job.
Resume ==
    /\ job.status = "running" /\ work.pc = "off"
    /\ work' = [NoWork EXCEPT !.pc = IF item = NoItem THEN "list" ELSE "cleanup"]
    /\ UNCHANGED <<recs, storage, actors, job, torn, lost, events>>

PartialRec(hold) == [NoRec EXCEPT !.status = "deleted", !.key = item.new, !.hold = hold]

\* Mutant: an unused new archive is left where it is.
DiscardNothing(hold) == UNCHANGED <<recs, arch>>
\* An unused new archive is deleted; one under a legal hold is handed to the purge.
Discard(hold) ==
    IF item.new \in held
    THEN recs' = [recs EXCEPT ![Partial(Of(item.id))] = PartialRec(hold)] /\ UNCHANGED arch
    ELSE arch' = arch \ {item.new} /\ UNCHANGED recs

\* A record that points at the new archive is done; otherwise that archive goes.
CleanUp ==
    /\ work.pc = "cleanup"
    /\ IF recs[item.id].key = item.new
       THEN job' = [job EXCEPT !.item = NoItem, !.finished = @ \cup {item.id}] /\ UNCHANGED <<recs, arch>>
       ELSE job' = [job EXCEPT !.item = NoItem] /\ Discard(FALSE)
    /\ work' = [work EXCEPT !.pc = "list"]
    /\ UNCHANGED <<held, copies, actors, torn, lost, events>>

\* Settling the interrupted backup, or listing, fails: so does the job, which is not
\* resumed, and a new archive that was not removed stays.
FailJob ==
    /\ work.pc \in {"cleanup", "list"} /\ Happens
    /\ job' = [job EXCEPT !.status = "failed"] /\ work' = NoWork
    /\ lost' = IF work.pc = "cleanup" /\ recs[item.id].key # item.new THEN lost \cup {<<"new", item.new>>} ELSE lost
    /\ UNCHANGED <<recs, storage, actors, torn>>

\* The backups to move, as they are now.
ListBackups ==
    LET L == {b \in Encrypted : recs[b].status = "completed" /\ b \notin job.finished} IN
    /\ work.pc = "list"
    /\ work' = [work EXCEPT !.pc = "next", !.todo = L, !.seen = [i \in Ids |-> IF i \in L THEN recs[i] ELSE NoRec]]
    /\ torn' = IF pin.id \in L THEN torn \cup {<<"hold", Of(pin.id)>>} ELSE torn
    /\ UNCHANGED <<recs, storage, actors, job, lost, events>>

Process(i) ==
    /\ work.pc = "next" /\ i \in work.todo
    /\ job' = [job EXCEPT !.made = @ + 1, !.item = [id |-> i, old |-> work.seen[i].key, new |-> NewKey]]
    /\ work' = [work EXCEPT !.pc = "copy"]
    /\ UNCHANGED <<recs, storage, actors, torn, lost, events>>

\* The old archive is read, the new one written and read back.  What does not verify
\* is discarded.
CopyArchive ==
    /\ work.pc = "copy"
    /\ \/ /\ item.old \in arch /\ arch' = arch \cup {item.new}
          /\ \/ work' = [work EXCEPT !.pc = "hold"] /\ UNCHANGED events
             \/ work' = [work EXCEPT !.pc = "discard"] /\ Happens
       \/ item.old \notin arch /\ work' = [work EXCEPT !.pc = "discard"] /\ UNCHANGED <<arch, events>>
    /\ UNCHANGED <<recs, held, copies, actors, job, torn, lost>>

\* A pinned backup's new archive is held before the record names it; one that cannot
\* be held is discarded.
HoldNew ==
    /\ work.pc = "hold"
    /\ \/ /\ held' = IF work.seen[item.id].hold THEN held \cup {item.new} ELSE held
          /\ work' = [work EXCEPT !.pc = "swap", !.held = work.seen[item.id].hold]
          /\ UNCHANGED events
       \/ /\ work.seen[item.id].hold /\ Happens
          /\ work' = [work EXCEPT !.pc = "discard"] /\ UNCHANGED held
    /\ UNCHANGED <<recs, arch, copies, actors, job, torn, lost>>

\* Mutant: the tombstone does not know that its archive is held.
TombstoneUnheld(r) == [MarkDeleted(r) EXCEPT !.pinned = FALSE, !.hold = FALSE, !.copy = recs[item.id].copy]
\* The tombstone of record r as listed, with the copies it has now.
TombstoneOf(r) == [MarkDeleted(r) EXCEPT !.pinned = FALSE, !.copy = recs[item.id].copy]
\* The copies of the new archive are still to be made.
RequeueCopies(c) == IF c.status \in {"none", "purged"} THEN c ELSE NewCopy(item.new)

SwapRefused == recs[item.id].key # item.old \/ recs[item.id].status \in {"deleted", "purged"}

SwapBackupArchive ==
    /\ work.pc = "swap" /\ ~SwapRefused
    /\ recs' = [recs EXCEPT ![item.id].key = item.new, ![item.id].copy = RequeueCopies(@),
                            ![Tombstone(item.id)] = TombstoneOf(work.seen[item.id])]
    /\ work' = [work EXCEPT !.pc = "persist", !.todo = @ \ {item.id}]
    /\ UNCHANGED <<storage, actors, job, torn, lost, events>>

RemoveNew ==
    /\ work.pc = "discard" \/ (work.pc = "swap" /\ SwapRefused)
    /\ Discard(work.held)
    /\ work' = [work EXCEPT !.pc = "persist", !.todo = @ \ {item.id}]
    /\ UNCHANGED <<held, copies, actors, job, torn, lost, events>>

\* A removal that fails is only logged: the archive stays, and nothing names it.
RemoveNewFails ==
    /\ work.pc = "discard" \/ (work.pc = "swap" /\ SwapRefused)
    /\ Happens
    /\ work' = [work EXCEPT !.pc = "persist", !.todo = @ \ {item.id}]
    /\ lost' = lost \cup {<<"new", item.new>>}
    /\ UNCHANGED <<recs, storage, actors, job, torn>>

Persist ==
    /\ work.pc = "persist"
    /\ job' = [job EXCEPT !.item = NoItem, !.finished = @ \cup {item.id}]
    /\ work' = [work EXCEPT !.pc = "next", !.held = FALSE, !.seen[item.id] = NoRec]
    /\ UNCHANGED <<recs, storage, actors, torn, lost, events>>

Finish ==
    /\ work.pc = "next" /\ work.todo = {}
    /\ job' = [job EXCEPT !.status = "finished"] /\ work' = NoWork
    /\ UNCHANGED <<recs, storage, actors, torn, lost, events>>

-----------------------------------------------------------------------------
\* The attempt has written the object k and not yet recorded or removed it.
InHand(k) == attempt.pc \in {"record", "untracked"} /\ attempt.result # "error" /\ attempt.key = k
\* The purge of a record that is not yet purged will find the object k.
Tracked(k) == \E i \in Ids : /\ recs[i].status \notin {"none", "purged"}
                            /\ recs[i].copy.key = k /\ MayExist(recs[i].copy)

\* What a crash leaves half changed: the purge between storage and record, a pin
\* between its hold and its record, a hold on a new archive that no record names.
TornNow ==
    {<<"archive", Of(i)>> : i \in {purge.id} \cap (IF purge.pc \in {"record", "mark"} THEN Ids ELSE {})}
    \cup HoldLifted
    \cup {<<"hold", Of(i)>> : i \in {pin.id} \cap Ids}
    \cup {<<"hold", Of(i)>> : i \in {item.id} \cap (IF item.new \in held /\ work.held THEN Ids ELSE {})}
\* What it loses: an object written by a retry whose copy counts as never written.
LostNow == {<<"copy", k>> : k \in {l \in {attempt.key} : InHand(l) /\ ~Tracked(l)}}

Crash ==
    /\ Happens
    /\ plan' = {} /\ purge' = NoPurge /\ pin' = NoPin /\ attempt' = NoAttempt /\ work' = NoWork
    /\ torn' = torn \cup TornNow /\ lost' = lost \cup LostNow
    /\ UNCHANGED <<recs, storage, job>>

User(i) == DeleteBackup(i) \/ UndeleteBackup(i) \/ Verify(i) \/ BeginPin(i) \/ BeginUnpin(i) \/ RetryCopies(i) \/ VerifyCopies(i)
Pinning == RecordPin \/ LiftHold
Prune == PlanPrune \/ PruneNext
Purge == \/ ListDeleted \/ (\E i \in Ids : BeginPurge(i)) \/ PurgeCopy \/ RecordCopyPurged
         \/ LiftTombstone \/ PurgeArchive \/ MarkPurged
CopyQueue == (\E i \in Ids : BeginAttempt(i)) \/ Upload \/ RecordAttempt \/ RemoveUntracked
Reencrypt == \/ Resume \/ CleanUp \/ ListBackups \/ (\E i \in Ids : Process(i)) \/ CopyArchive \/ HoldNew
             \/ SwapBackupArchive \/ RemoveNew \/ Persist \/ Finish
GraceEnds == \E i \in Ids : TimePasses(i)

Next == \/ \E i \in Ids : User(i)
        \/ Pinning \/ Prune \/ Purge \/ PurgeFails \/ CopyQueue \/ Trigger \/ Reencrypt \/ FailJob \/ RemoveNewFails
        \/ GraceEnds \/ Crash

Fairness == /\ WF_vars(Pinning) /\ WF_vars(Purge) /\ WF_vars(CopyQueue) /\ WF_vars(Reencrypt) /\ WF_vars(GraceEnds)

Spec == Init /\ [][Next]_vars /\ Fairness

-----------------------------------------------------------------------------
(* Properties. *)

Copies == [status : {"none", "pending", "failed", "done", "purged"}, key : Nat, sha : Nat, written : BOOLEAN, tries : 0..MaxAttempts]
Records == [status : {"none", "completed", "failed", "deleted", "purged"}, key : Nat, due : BOOLEAN,
            pinned : BOOLEAN, hold : BOOLEAN, check : Checks, copy : Copies]
Purges == [pc : {"idle", "next", "copies", "record", "lift", "archive", "mark"}, todo : SUBSET Ids, id : Ids \cup {0}, rec : Records]
Pins == [pc : {"idle", "pin", "unpin"}, id : Ids \cup {0}, key : Nat, hold : BOOLEAN, was : BOOLEAN]
Attempts == [pc : {"idle", "upload", "record", "untracked"}, id : Ids \cup {0}, key : Nat, src : Nat,
             result : {"none", "ok", "error", "written"}]
Items == [id : Encrypted \cup {0}, old : Nat, new : Nat]
Jobs == [status : {"none", "running", "failed", "finished"}, made : Nat, item : Items, finished : SUBSET Encrypted]
Works == [pc : {"off", "list", "cleanup", "next", "copy", "hold", "swap", "discard", "persist"}, todo : SUBSET Encrypted,
          seen : [Ids -> Records], held : BOOLEAN]
\* The values of the variables; only an archive that is there is held.
TypeOK ==
    /\ recs \in [Ids -> Records] /\ arch \subseteq Keys /\ held \subseteq arch /\ copies \subseteq Keys
    /\ plan \subseteq Ids /\ purge \in Purges /\ pin \in Pins /\ attempt \in Attempts
    /\ job \in Jobs /\ work \in Works /\ events \in 0..MaxEvents
    /\ torn \subseteq {"archive", "hold"} \X Backups /\ lost \subseteq {"copy", "new"} \X Keys

\* The copy that a restore of r may read in place of its archive.
CopyUsable(r) == r.copy.status = "done" /\ r.copy.sha = r.key
\* The record that an actor works on is a stored one, and no other record names the new
\* archive of the re-encryption.
Identified ==
    /\ \A a \in {purge, pin, attempt} : a.id # 0 => recs[a.id].status # "none"
    /\ \A i \in Ids : item # NoItem /\ i \notin {item.id, Partial(item.id)} => recs[i].key # item.new

\* A backup that is neither purged nor being purged nor was torn by a crash of the purge.
Kept(i) == /\ recs[i].status \in {"completed", "deleted"} /\ ~IsPartial(i)
           /\ purge.id # i /\ <<"archive", Of(i)>> \notin torn
\* "its archive, which the deletion kept, is restorable again": a completed backup, and
\* a deleted one until the purge takes it, has its archive in storage, and a copy that
\* counts as usable is there, whatever deletes, purges, copies and re-encrypts at the
\* same time.  Only a crash of the purge between storage and record breaks it.  The
\* record of an unused new archive is not about a backup: the clean-up after a crash may
\* remove that archive once the purge has lifted its hold.
Restorable ==
    /\ TypeOK /\ Identified
    /\ \A i \in Ids : Kept(i) =>
         /\ recs[i].key \in arch
         /\ CopyUsable(recs[i]) => recs[i].copy.key \in copies

\* "so no object is left untracked": an object on the copy target is in the hands of the
\* attempt that wrote it, or the purge of some record that is still to come finds it: it
\* takes a copy by MayExist, so a failed copy that counts as never written names nothing.
\* This holds while backups are deleted, purged, re-encrypted and undeleted under the
\* upload.  The code loses an object in four ways, each of which is recorded in lost where
\* it happens: a crash after a retry has written it (LostNow), a removal that fails
\* (RemoveUntracked), a failure recorded over an object that is there (Forgotten), and a
\* purge that reads a copy as never written while a retry writes it (Overlooked).
CopiesTracked == \A k \in copies : Tracked(k) \/ InHand(k) \/ <<"copy", k>> \in lost

\* The legal hold in storage and the records agree: a pinned backup that counts as held
\* is held, under whatever key it has now, and a hold is known to the record that names
\* the archive, or nothing would lift it.  A pin that overlaps the re-encryption of its
\* backup, one that is cut by a crash, and a purge that lifted the hold of an archive and
\* could not delete it, break it.
HoldAgrees ==
    \A i \in Ids : <<"hold", Of(i)>> \notin torn /\ pin.id # i =>
        /\ recs[i].pinned /\ recs[i].hold => recs[i].key \in held
        /\ recs[i].status \in {"completed", "failed", "deleted"} /\ recs[i].key \in held => recs[i].hold

Verified(R) == {i \in Completed(R) : R[i].check = "ok"}
\* Retention never leaves a job that has a verified backup without one, even when the
\* verification changed after it planned.
RetentionKeepsVerified == [][PruneNext /\ Verified(recs) # {} => Verified(recs') # {}]_vars

\* An archive that nobody wants: no record but deleted and purged ones names it.  Left
\* out are a new archive whose removal failed, which the code only logs or answers by
\* giving the job up (<<"new", k>>), and what two crashes leave: an archive held by the
\* first, whose partial record the clean-up after the second overwrites.
Unwanted(k) ==
    /\ k \in arch /\ <<"new", k>> \notin lost
    /\ \A i \in Ids : recs[i].key = k => recs[i].status \in {"deleted", "purged"} /\ <<"hold", Of(i)>> \notin torn
    /\ item.new = k => <<"hold", Of(item.id)>> \notin torn
    /\ k \in held /\ (\A i \in Ids : recs[i].key # k) => \A b \in Backups : <<"hold", b>> \notin torn
\* Nothing leaks: an archive that only deleted records name is purged, or undeleted, and
\* the new archive of a re-encryption gets its record or goes, across crashes, unless the
\* one attempt to remove it failed.
ArchivesSettle == []<>(\A k \in arch : ~Unwanted(k))
=============================================================================
