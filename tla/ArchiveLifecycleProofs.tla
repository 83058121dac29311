----------------------- MODULE ArchiveLifecycleProofs -----------------------
(***************************************************************************)
(* Proofs about ArchiveLifecycle, for any number of backups, attempts and  *)
(* events: what counts as restorable has its archive and its copy          *)
(* (Restorable), the purge will find every object of the copy target that  *)
(* the code has not lost (CopiesTracked), the legal holds and the records  *)
(* agree (HoldAgrees) and retention leaves a verified backup               *)
(* (RetentionKeepsVerified).                                               *)
(*                                                                         *)
(* Everything rests on whose keys are whose: every record has an archive   *)
(* key of its own, the re-encryption takes a new one, and until the swap   *)
(* no record and no other actor knows it (RecordKeys to ItemKeys).  With   *)
(* that, a step on one key cannot disturb the record of another.  Then     *)
(* come the order of the re-encryption (WorkInv, TodoInv, MovedInv), what  *)
(* the purge relies on after its one look at the record (PurgeInv), the    *)
(* copies and their objects (CopyInv, AttemptInv, ObjectsInv), what a      *)
(* purge that took no copy may have passed by (PassedInv), what is in      *)
(* storage (ArchInv, UsableInv), and the pins (PinInv to MovingInv).       *)
(*                                                                         *)
(* The lemmas on what each action does to the records, and which actions   *)
(* change which variable, are shown once; each part of the invariant then  *)
(* goes by the actions that can disturb it.                                *)
(***************************************************************************)
EXTENDS ArchiveLifecycle, TLAPS

-----------------------------------------------------------------------------
(* The parts of the inductive invariant. *)

Last == NumBackups + job.made
Live(c) == c.status \in {"pending", "failed", "done"}
\* The steps of the re-encryption at which nothing but the job names its new archive.
Making == work.pc \in {"copy", "hold", "swap", "discard"}
Torn(i) == <<"hold", Of(i)>> \in torn

\* Keys: every record has one of its own, the one of a new archive is new.
RecordKeys ==
    /\ \A i \in Ids : recs[i].key <= Last /\ (recs[i].status = "none" <=> recs[i].key = 0)
    /\ \A i, j \in Ids : recs[i].key = recs[j].key /\ recs[i].key # 0 => i = j
    /\ \A b \in Backups : recs[b].status # "none"
StoredKeys == \A k \in arch : k <= Last
ActorKeys ==
    /\ purge.rec.key <= Last /\ pin.key <= Last /\ attempt.key <= Last /\ item.new <= Last
    /\ Making => item.new \notin {purge.rec.key, pin.key, attempt.key}
ItemKeys ==
    /\ item.id # 0 => item.new # 0
    /\ \A i \in Ids : item.id # 0 /\ recs[i].key = item.new => i \in {item.id, Partial(item.id)}
    /\ item.id # 0 /\ purge.id # 0 /\ purge.rec.key = item.new => purge.id \in {item.id, Partial(item.id)}
    /\ Making => \A i \in Ids : recs[i].key # item.new
    /\ work.pc \in {"hold", "swap"} => item.new \in arch

\* The re-encryption works on one backup at a time and moves each one once.
WorkInv ==
    /\ work.pc # "off" => job.status = "running"
    /\ job.status \notin {"running", "failed"} => item.id = 0
    /\ item.id = 0 <=> item = NoItem
    /\ work.pc \in {"list", "next"} => item.id = 0
    /\ work.pc \in {"cleanup", "copy", "hold", "swap", "discard", "persist"} => item.id # 0
    /\ work.pc \in {"off", "list", "cleanup"} => work.todo = {}
    /\ Making => item.id \in work.todo /\ item.old = work.seen[item.id].key
    /\ work.pc = "persist" => item.id \notin work.todo
TodoInv ==
    \A b \in work.todo : /\ b \notin job.finished /\ recs[Tombstone(b)].status = "none"
                         /\ recs[b].key = work.seen[b].key
MovedInv ==
    \A b \in Backups : recs[Tombstone(b)].status # "none" => b \in job.finished \/ (item.id = b /\ recs[b].key = item.new)

\* The record under the purge stays as it was read, its copy apart; the record of an
\* unused archive may be replaced.
PurgeInv ==
    /\ purge.id # 0 <=> purge.pc \in {"copies", "record", "lift", "archive", "mark"}
    /\ purge.id # 0 =>
        /\ purge.rec.status = "deleted" /\ purge.rec.due /\ ~purge.rec.pinned /\ purge.rec.key # 0
        /\ recs[purge.id].status # "none"
        /\ \A j \in Ids : recs[j].key = purge.rec.key => j = purge.id
        /\ Live(purge.rec.copy) => purge.rec.copy.key = purge.rec.key
        /\ ~IsPartial(purge.id) =>
             /\ recs[purge.id].status = "deleted" /\ recs[purge.id].due /\ ~recs[purge.id].pinned
             /\ recs[purge.id].key = purge.rec.key /\ recs[purge.id].hold = purge.rec.hold
             /\ recs[purge.id].copy.key = purge.rec.copy.key
        /\ IsPartial(purge.id) => purge.rec.copy.status = "none"
    /\ purge.pc = "record" => Live(purge.rec.copy)

\* Copies.
CopyInv ==
    \A i \in Ids : /\ Live(recs[i].copy) => recs[i].copy.key = recs[i].key
                   /\ recs[i].copy.status = "pending" => recs[i].copy.tries = 0
                   /\ recs[i].status = "none" \/ IsPartial(i) => recs[i].copy.status = "none"
Named(k) == \E i \in Ids : Live(recs[i].copy) /\ recs[i].copy.key = k
AttemptInv ==
    /\ attempt.id # 0 <=> attempt.pc # "idle"
    /\ attempt.pc # "idle" =>
        /\ recs[attempt.id].status # "none" /\ attempt.key # 0 /\ Named(attempt.key)
        /\ \A i \in Ids : recs[i].copy.key = attempt.key => recs[i].copy.status # "done"
        /\ attempt.pc = "record" /\ attempt.result # "error" => attempt.key \in copies
        /\ attempt.pc # "untracked" /\ ~CopyGone(recs[attempt.id].copy) => Waiting(recs[attempt.id].copy)
        /\ purge.pc = "record" => attempt.key # purge.rec.copy.key
ObjectsInv ==
    /\ \A k \in copies : Named(k)
    /\ purge.pc = "record" => purge.rec.copy.key \notin copies

\* What the purge has passed by: a copy that it removed is recorded as purged, and one that
\* counts as never written has no object, unless it was lost.
PassedInv ==
    /\ purge.id # 0 /\ ~IsPartial(purge.id) =>
        /\ purge.pc \in {"lift", "archive", "mark"} /\ MayExist(purge.rec.copy) => recs[purge.id].copy.status = "purged"
        /\ purge.pc # "record" /\ ~MayExist(purge.rec.copy) =>
             \/ <<"copy", recs[purge.id].copy.key>> \in lost
             \/ ~MayExist(recs[purge.id].copy) /\ (Live(recs[purge.id].copy) => ~CopyLocked(recs[purge.id].copy.key))
    /\ attempt.pc \in {"upload", "record"} /\ recs[attempt.id].status = "purged" /\ ~CopyGone(recs[attempt.id].copy) =>
         <<"copy", attempt.key>> \in lost
    /\ attempt.pc = "record" => attempt.result # "none"

\* What is restorable.
ArchInv ==
    \A i \in Ids : /\ recs[i].status \in {"completed", "deleted"} /\ ~IsPartial(i) /\ <<"archive", Of(i)>> \notin torn
                   /\ ~(purge.id = i /\ purge.pc = "mark")
                   => recs[i].key \in arch
UsableInv ==
    \A i \in Ids : CopyUsable(recs[i]) /\ <<"archive", Of(i)>> \notin torn /\ ~(purge.id = i /\ purge.pc = "record")
                   => recs[i].copy.key \in copies

\* Pins and holds.
PinInv ==
    /\ pin.pc # "idle" <=> pin.id # 0
    /\ pin.id # 0 => purge.id = 0 /\ recs[pin.id].status # "none"
    /\ pin.id # 0 /\ ~IsPartial(pin.id) =>
        /\ recs[pin.id].status \in {"completed", "deleted"}
        /\ pin.pc = "pin" => recs[pin.id].status = "completed"
        /\ pin.pc = "unpin" => ~recs[pin.id].pinned /\ ~recs[pin.id].hold /\ (pin.was => recs[pin.id].status = "completed")
           /\ (pin.id \in Backups => pin.was)
        /\ pin.id \in work.todo => Torn(pin.id)
        /\ ~Torn(pin.id) =>
             /\ recs[pin.id].key = pin.key
             /\ pin.pc = "pin" => (pin.key \in held <=> pin.hold \/ recs[pin.id].hold)
             /\ pin.pc = "unpin" => pin.key \in held
\* What a pin holds or lifts belongs to its backup, whatever moves meanwhile.
PinKeys ==
    pin.id # 0 => /\ pin.key # 0 /\ \A j \in Ids : recs[j].key = pin.key => Of(j) = Of(pin.id)
                  /\ item.id # 0 /\ item.new = pin.key => Of(pin.id) = item.id
PinnedInv ==
    \A i \in Ids : /\ recs[i].status = "none" => ~recs[i].pinned /\ ~recs[i].hold
                   /\ ~IsPartial(i) =>
                        /\ recs[i].status # "failed" /\ (recs[i].pinned => recs[i].status = "completed")
                        /\ recs[i].hold => recs[i].status \in {"completed", "deleted"}
                        /\ i \in Backups /\ recs[i].hold => recs[i].pinned
HoldInv ==
    \A i \in Ids : ~Torn(i) /\ pin.id # i /\ ~IsPartial(i) =>
        /\ recs[i].hold /\ ~(purge.id = i /\ purge.pc \in {"archive", "mark"}) => recs[i].key \in held
        /\ recs[i].status \in {"completed", "deleted"} /\ recs[i].key \in held => recs[i].hold
\* Only a torn hold leaves the record of an unused archive.
PartialInv == \A b \in Backups : recs[Partial(b)].status # "none" => Torn(b)
MovingInv ==
    /\ \A b \in work.todo : ~Torn(b) => recs[b].hold = work.seen[b].hold
    /\ work.pc \notin {"swap", "persist"} => ~work.held
    /\ work.pc \in {"copy", "hold", "discard"} => item.new \notin held
    /\ work.pc = "swap" => work.held = work.seen[item.id].hold /\ (item.new \in held <=> work.held)
    /\ item.id # 0 /\ item.new \in held /\ recs[item.id].key # item.new /\ work.pc # "swap" => Torn(item.id)

\* The three records of a backup are told apart, and each is about its backup.
LEMMA IdFacts ==
  /\ \A b \in Backups : /\ b \in Ids /\ Tombstone(b) \in Ids /\ Partial(b) \in Ids
                        /\ Of(b) = b /\ Of(Tombstone(b)) = b /\ Of(Partial(b)) = b
                        /\ IsPartial(Partial(b)) /\ ~IsPartial(b) /\ ~IsPartial(Tombstone(b))
                        /\ Tombstone(b) \notin Backups /\ Partial(b) \notin Backups /\ Tombstone(b) # Partial(b)
  /\ \A b, c \in Backups : /\ Tombstone(b) = Tombstone(c) => b = c
                           /\ Partial(b) = Partial(c) => b = c
                           /\ Tombstone(b) # Partial(c)
  /\ \A i \in Ids : /\ Of(i) \in Backups /\ i # 0
                    /\ IsPartial(i) => i = Partial(Of(i))
                    /\ ~IsPartial(i) => i \in Backups \/ i = Tombstone(Of(i))
  /\ 0 \notin Ids /\ 0 \notin Backups /\ Encrypted \subseteq Backups /\ NumBackups \in Nat /\ MaxAttempts \in Nat \ {0}
BY LifecycleAssumption DEF Backups, Ids, Tombstone, Partial, Of, IsPartial

\* An absent record and an absent copy are ones.
LEMMA NoRecType == NoRec \in Records /\ NoCopy \in Copies
BY IdFacts DEF NoRec, NoCopy, Records, Copies, Checks

-----------------------------------------------------------------------------
(* Which actions change which variable. *)

\* The actions that change the records.
LEMMA RecsWriters ==
  ASSUME Next
  PROVE  \/ (\E i \in Ids : DeleteBackup(i)) \/ (\E i \in Ids : UndeleteBackup(i)) \/ (\E i \in Ids : Verify(i)) \/
            (\E i \in Ids : BeginUnpin(i)) \/ (\E i \in Ids, s \in {"failed", "done"} : Requeue(i, s)) \/ RecordPin \/ LiftHold \/ PruneNext \/
            RecordCopyPurged \/ MarkPurged \/ RecordAttempt \/ CleanUp \/ SwapBackupArchive \/ RemoveNew \/
            (\E i \in Ids : TimePasses(i))
         \/ UNCHANGED recs
BY DEF Next, User, RetryCopies, VerifyCopies, FailJob, RemoveNewFails, Pinning, Prune, Purge, CopyQueue, Reencrypt,
   GraceEnds, BeginPin, PlanPrune, ListDeleted, BeginPurge, PurgeCopy, LiftTombstone, PurgeArchive, PurgeFails,
   BeginAttempt, Upload, RemoveUntracked, Trigger, Resume, ListBackups, Process, CopyArchive, HoldNew, Persist,
   Finish, Crash, Happens, storage, actors

\* The actions that change the archives.
LEMMA ArchWriters ==
  ASSUME Next
  PROVE  \/ PurgeArchive \/ CleanUp \/ CopyArchive \/ RemoveNew
         \/ UNCHANGED arch
BY DEF Next, User, Pinning, Prune, Purge, CopyQueue, Reencrypt, GraceEnds, DeleteBackup, UndeleteBackup, Verify,
   BeginPin, BeginUnpin, RetryCopies, VerifyCopies, Requeue, FailJob, RemoveNewFails, RecordPin, LiftHold, PlanPrune,
   PruneNext, ListDeleted, BeginPurge, PurgeCopy, RecordCopyPurged, LiftTombstone, MarkPurged, PurgeFails,
   BeginAttempt, Upload, RecordAttempt, RemoveUntracked, Trigger, Resume, ListBackups, Process, HoldNew,
   SwapBackupArchive, Persist, Finish, TimePasses, Crash, Happens, storage, actors

\* The actions that change the holds.
LEMMA HeldWriters ==
  ASSUME Next
  PROVE  \/ (\E i \in Ids : BeginPin(i)) \/ LiftHold \/ LiftTombstone \/ HoldNew
         \/ UNCHANGED held
BY DEF Next, User, Pinning, Prune, Purge, CopyQueue, Reencrypt, GraceEnds, DeleteBackup, UndeleteBackup, Verify,
   BeginUnpin, RetryCopies, VerifyCopies, Requeue, FailJob, RemoveNewFails, RecordPin, PlanPrune, PruneNext,
   ListDeleted, BeginPurge, PurgeCopy, RecordCopyPurged, PurgeArchive, MarkPurged, PurgeFails, BeginAttempt, Upload,
   RecordAttempt, RemoveUntracked, Trigger, Resume, CleanUp, ListBackups, Process, CopyArchive, SwapBackupArchive,
   RemoveNew, Persist, Finish, TimePasses, Crash, Happens, storage, actors

\* The actions that change the copy target.
LEMMA CopiesWriters ==
  ASSUME Next
  PROVE  \/ PurgeCopy \/ Upload \/ RemoveUntracked
         \/ UNCHANGED copies
BY DEF Next, User, Pinning, Prune, Purge, CopyQueue, Reencrypt, GraceEnds, DeleteBackup, UndeleteBackup, Verify,
   BeginPin, BeginUnpin, RetryCopies, VerifyCopies, Requeue, FailJob, RemoveNewFails, RecordPin, LiftHold, PlanPrune,
   PruneNext, ListDeleted, BeginPurge, RecordCopyPurged, LiftTombstone, PurgeArchive, MarkPurged, PurgeFails,
   BeginAttempt, RecordAttempt, Trigger, Resume, CleanUp, ListBackups, Process, CopyArchive, HoldNew,
   SwapBackupArchive, RemoveNew, Persist, Finish, TimePasses, Crash, Happens, storage, actors

\* The actions that change the plan of retention.
LEMMA PlanWriters ==
  ASSUME Next
  PROVE  \/ PlanPrune \/ PruneNext \/ Crash
         \/ UNCHANGED plan
BY DEF Next, User, Pinning, Prune, Purge, CopyQueue, Reencrypt, GraceEnds, DeleteBackup, UndeleteBackup, Verify,
   BeginPin, BeginUnpin, RetryCopies, VerifyCopies, Requeue, FailJob, RemoveNewFails, RecordPin, LiftHold,
   ListDeleted, BeginPurge, PurgeCopy, RecordCopyPurged, LiftTombstone, PurgeArchive, MarkPurged, PurgeFails,
   BeginAttempt, Upload, RecordAttempt, RemoveUntracked, Trigger, Resume, CleanUp, ListBackups, Process, CopyArchive,
   HoldNew, SwapBackupArchive, RemoveNew, Persist, Finish, TimePasses, Happens, storage, actors

\* The actions that change the purge.
LEMMA PurgeWriters ==
  ASSUME Next
  PROVE  \/ ListDeleted \/ (\E i \in Ids : BeginPurge(i)) \/ PurgeCopy \/ RecordCopyPurged \/ LiftTombstone \/
            PurgeArchive \/ MarkPurged \/ PurgeFails \/ Crash
         \/ UNCHANGED purge
BY DEF Next, User, Pinning, Prune, Purge, CopyQueue, Reencrypt, GraceEnds, DeleteBackup, UndeleteBackup, Verify,
   BeginPin, BeginUnpin, RetryCopies, VerifyCopies, Requeue, FailJob, RemoveNewFails, RecordPin, LiftHold, PlanPrune,
   PruneNext, BeginAttempt, Upload, RecordAttempt, RemoveUntracked, Trigger, Resume, CleanUp, ListBackups, Process,
   CopyArchive, HoldNew, SwapBackupArchive, RemoveNew, Persist, Finish, TimePasses, Happens, storage, actors

\* The actions that change the pin.
LEMMA PinWriters ==
  ASSUME Next
  PROVE  \/ (\E i \in Ids : BeginPin(i)) \/ (\E i \in Ids : BeginUnpin(i)) \/ RecordPin \/ LiftHold \/ Crash
         \/ UNCHANGED pin
BY DEF Next, User, Pinning, Prune, Purge, CopyQueue, Reencrypt, GraceEnds, DeleteBackup, UndeleteBackup, Verify,
   RetryCopies, VerifyCopies, Requeue, FailJob, RemoveNewFails, PlanPrune, PruneNext, ListDeleted, BeginPurge,
   PurgeCopy, RecordCopyPurged, LiftTombstone, PurgeArchive, MarkPurged, PurgeFails, BeginAttempt, Upload,
   RecordAttempt, RemoveUntracked, Trigger, Resume, CleanUp, ListBackups, Process, CopyArchive, HoldNew,
   SwapBackupArchive, RemoveNew, Persist, Finish, TimePasses, Happens, storage, actors

\* The actions that change the attempt of the copy queue.
LEMMA AttemptWriters ==
  ASSUME Next
  PROVE  \/ (\E i \in Ids : BeginAttempt(i)) \/ Upload \/ RecordAttempt \/ RemoveUntracked \/ Crash
         \/ UNCHANGED attempt
BY DEF Next, User, Pinning, Prune, Purge, CopyQueue, Reencrypt, GraceEnds, DeleteBackup, UndeleteBackup, Verify,
   BeginPin, BeginUnpin, RetryCopies, VerifyCopies, Requeue, FailJob, RemoveNewFails, RecordPin, LiftHold, PlanPrune,
   PruneNext, ListDeleted, BeginPurge, PurgeCopy, RecordCopyPurged, LiftTombstone, PurgeArchive, MarkPurged,
   PurgeFails, Trigger, Resume, CleanUp, ListBackups, Process, CopyArchive, HoldNew, SwapBackupArchive, RemoveNew,
   Persist, Finish, TimePasses, Happens, storage, actors

\* The actions that change the stored re-encryption job.
LEMMA JobWriters ==
  ASSUME Next
  PROVE  \/ Trigger \/ CleanUp \/ (\E i \in Ids : Process(i)) \/ Persist \/ Finish \/ FailJob
         \/ UNCHANGED job
BY DEF Next, User, Pinning, Prune, Purge, CopyQueue, Reencrypt, GraceEnds, DeleteBackup, UndeleteBackup, Verify,
   BeginPin, BeginUnpin, RetryCopies, VerifyCopies, Requeue, RemoveNewFails, RecordPin, LiftHold, PlanPrune,
   PruneNext, ListDeleted, BeginPurge, PurgeCopy, RecordCopyPurged, LiftTombstone, PurgeArchive, MarkPurged,
   PurgeFails, BeginAttempt, Upload, RecordAttempt, RemoveUntracked, Resume, ListBackups, CopyArchive, HoldNew,
   SwapBackupArchive, RemoveNew, TimePasses, Crash, Happens, storage, actors

\* The actions that change the re-encryption.
LEMMA WorkWriters ==
  ASSUME Next
  PROVE  \/ Trigger \/ Resume \/ CleanUp \/ ListBackups \/ (\E i \in Ids : Process(i)) \/ CopyArchive \/ HoldNew \/
            SwapBackupArchive \/ RemoveNew \/ Persist \/ Finish \/ FailJob \/ RemoveNewFails \/ Crash
         \/ UNCHANGED work
BY DEF Next, User, Pinning, Prune, Purge, CopyQueue, Reencrypt, GraceEnds, DeleteBackup, UndeleteBackup, Verify,
   BeginPin, BeginUnpin, RetryCopies, VerifyCopies, Requeue, RecordPin, LiftHold, PlanPrune, PruneNext, ListDeleted, BeginPurge,
   PurgeCopy, RecordCopyPurged, LiftTombstone, PurgeArchive, MarkPurged, PurgeFails, BeginAttempt, Upload,
   RecordAttempt, RemoveUntracked, TimePasses, Happens, storage, actors

\* The actions that change what is torn.
LEMMA TornWriters ==
  ASSUME Next
  PROVE  \/ (\E i \in Ids : BeginPin(i)) \/ (\E i \in Ids : BeginUnpin(i)) \/ PurgeFails \/ ListBackups \/ Crash
         \/ UNCHANGED torn
BY DEF Next, User, Pinning, Prune, Purge, CopyQueue, Reencrypt, GraceEnds, DeleteBackup, UndeleteBackup, Verify,
   RetryCopies, VerifyCopies, Requeue, FailJob, RemoveNewFails, RecordPin, LiftHold, PlanPrune, PruneNext,
   ListDeleted, BeginPurge, PurgeCopy, RecordCopyPurged, LiftTombstone, PurgeArchive, MarkPurged, BeginAttempt,
   Upload, RecordAttempt, RemoveUntracked, Trigger, Resume, CleanUp, Process, CopyArchive, HoldNew,
   SwapBackupArchive, RemoveNew, Persist, Finish, TimePasses, Happens, storage, actors

\* The actions that lose sight of an object.
LEMMA LostWriters ==
  ASSUME Next
  PROVE  \/ (\E i \in Ids : BeginPurge(i)) \/ RecordAttempt \/ RemoveUntracked \/ FailJob \/ RemoveNewFails \/ Crash
         \/ UNCHANGED lost
BY DEF Next, User, Pinning, Prune, Purge, CopyQueue, Reencrypt, GraceEnds, DeleteBackup, UndeleteBackup, Verify,
   BeginPin, BeginUnpin, RetryCopies, VerifyCopies, Requeue, RecordPin, LiftHold, PlanPrune, PruneNext, ListDeleted,
   PurgeCopy, RecordCopyPurged, LiftTombstone, PurgeArchive, MarkPurged, PurgeFails, BeginAttempt, Upload, Trigger,
   Resume, CleanUp, ListBackups, Process, CopyArchive, HoldNew, SwapBackupArchive, RemoveNew, Persist, Finish,
   TimePasses, Happens, storage, actors

\* The actions that change the events.
LEMMA EventsWriters ==
  ASSUME Next
  PROVE  \/ (\E i \in Ids : DeleteBackup(i)) \/ (\E i \in Ids : UndeleteBackup(i)) \/ (\E i \in Ids : Verify(i)) \/
            (\E i \in Ids : BeginPin(i)) \/ (\E i \in Ids : BeginUnpin(i)) \/ (\E i \in Ids, s \in {"failed", "done"} : Requeue(i, s)) \/
            LiftHold \/ PlanPrune \/ PurgeFails \/ Upload \/ CopyArchive \/
            RemoveUntracked \/ HoldNew \/ FailJob \/ RemoveNewFails \/ Crash
         \/ UNCHANGED events
BY DEF Next, User, RetryCopies, VerifyCopies, Pinning, Prune, Purge, CopyQueue, Reencrypt, GraceEnds, RecordPin,
   PruneNext, ListDeleted, BeginPurge, PurgeCopy, RecordCopyPurged, LiftTombstone, PurgeArchive, MarkPurged,
   BeginAttempt, RecordAttempt, Trigger, Resume, CleanUp, ListBackups, Process, SwapBackupArchive, RemoveNew,
   Persist, Finish, TimePasses, Happens, storage, actors

-----------------------------------------------------------------------------
(* Types. *)

\* Every step keeps the type of the records.
LEMMA RecsType ==
  ASSUME TypeOK, WorkInv, ItemKeys, CopyInv, AttemptInv, Next
  PROVE  recs' \in [Ids -> Records]
<1>1. CASE UNCHANGED recs
  BY <1>1 DEF TypeOK
<1>2. ASSUME NEW i \in Ids, DeleteBackup(i) PROVE recs' \in [Ids -> Records]
  <2>1. recs \in [Ids -> Records]
    BY DEF TypeOK
  <2> QED
    BY <1>2, <2>1 DEF DeleteBackup, Happens, MarkDeleted, Records
<1>3. ASSUME NEW i \in Ids, UndeleteBackup(i) PROVE recs' \in [Ids -> Records]
  <2> DEFINE r == [recs[i] EXCEPT !.status = IF IsPartial(i) THEN "failed" ELSE "completed", !.due = FALSE]
  <2>1. recs \in [Ids -> Records] /\ i \in Ids \cup {0}
    BY IdFacts DEF TypeOK
  <2>2. i \in Ids => r \in Records
    BY <2>1 DEF Records
  <2>3. recs' = [recs EXCEPT ![i] = r]
    BY <1>3, <2>1 DEF UndeleteBackup
  <2> HIDE DEF r
  <2> QED
    BY <2>1, <2>2, <2>3
<1>4. ASSUME NEW i \in Ids, Verify(i) PROVE recs' \in [Ids -> Records]
  <2>1. recs \in [Ids -> Records]
    BY DEF TypeOK
  <2> QED
    BY ZenonT(60), <1>4, <2>1 DEF Verify, Happens, Records, Checks
<1>5. ASSUME NEW i \in Ids, BeginUnpin(i) PROVE recs' \in [Ids -> Records]
  <2>1. recs \in [Ids -> Records]
    BY DEF TypeOK
  <2> QED
    BY ZenonT(60), <1>5, <2>1 DEF BeginUnpin, Happens, NoPin, Records
<1>6. ASSUME NEW i \in Ids, NEW s \in {"failed", "done"}, Requeue(i, s) PROVE recs' \in [Ids -> Records]
  <2> DEFINE r == [recs[i] EXCEPT !.copy = [recs[i].copy EXCEPT !.status = "pending", !.tries = 0]]
  <2>1. recs \in [Ids -> Records] /\ i \in Ids \cup {0} /\ 0 \in 0..MaxAttempts
    BY IdFacts DEF TypeOK
  <2>2. i \in Ids => r \in Records
    BY ZenonT(60), <2>1 DEF Records, Copies
  <2>3. recs' = [recs EXCEPT ![i] = r]
    BY <1>6, <2>1 DEF Requeue
  <2> HIDE DEF r
  <2> QED
    BY <2>1, <2>2, <2>3
<1>7. CASE RecordPin
  <2> DEFINE h == recs[pin.id].hold \/ pin.hold
               r == [recs[pin.id] EXCEPT !.pinned = TRUE, !.hold = h]
  <2>1. recs \in [Ids -> Records] /\ h \in BOOLEAN
    BY DEF TypeOK
  <2>2. recs' = [recs EXCEPT ![pin.id] = r]
    BY <1>7, <2>1 DEF RecordPin
  <2> HIDE DEF h
  <2>3. pin.id \in Ids => r \in Records
    BY <2>1 DEF Records
  <2> HIDE DEF r
  <2> QED
    BY <2>1, <2>2, <2>3
<1>8. CASE LiftHold
  BY <1>8 DEF LiftHold, RestorePin, TypeOK, Records, Pins
<1>9. CASE PruneNext
  <2>1. recs \in [Ids -> Records]
    BY DEF TypeOK
  <2> QED
    BY ZenonT(60), <1>9, <2>1 DEF PruneNext, MarkDeleted, Records
<1>10. CASE RecordCopyPurged
  <2> DEFINE r == [recs[purge.id] EXCEPT !.copy = [recs[purge.id].copy EXCEPT !.status = "purged"]]
  <2>1. recs \in [Ids -> Records] /\ purge.id \in Ids \cup {0}
    BY IdFacts DEF TypeOK, Purges
  <2>2. purge.id \in Ids => r \in Records
    BY <2>1 DEF Records, Copies
  <2>3. recs' = [recs EXCEPT ![purge.id] = r]
    BY <1>10, <2>1 DEF RecordCopyPurged
  <2> HIDE DEF r
  <2> QED
    BY <2>1, <2>2, <2>3
<1>11. CASE MarkPurged
  <2>1. recs \in [Ids -> Records]
    BY DEF TypeOK
  <2> QED
    BY ZenonT(60), <1>11, <2>1 DEF MarkPurged, PurgeRest, NoPurge, Records
<1>12. CASE RecordAttempt
  <2> DEFINE c == recs[attempt.id].copy
  <2>1. CASE recs' = recs
    BY <2>1 DEF TypeOK
  <2>2. CASE recs' # recs
    <3>1. /\ attempt.pc = "record" /\ ~CopyGone(c) /\ (attempt.result = "ok" \/ Waiting(c))
          /\ recs' = [recs EXCEPT ![attempt.id].copy = Recorded(@)]
      BY <1>12, <2>2 DEF RecordAttempt
    <3>2. attempt.id \in Ids /\ Waiting(c) /\ c \in Copies
      BY <3>1 DEF AttemptInv, TypeOK, Attempts, Records
    <3>3. c.tries + 1 \in 0..MaxAttempts
      BY <3>2, IdFacts DEF Waiting, CopyInv, Copies
    <3>4. attempt.src \in Nat /\ attempt.result \in {"none", "ok", "error", "written"}
      BY DEF TypeOK, Attempts
    <3>5. Recorded(c) \in Copies
      BY <3>2, <3>3, <3>4 DEF Recorded, Copies
    <3>6. recs \in [Ids -> Records]
      BY DEF TypeOK
    <3> QED
      BY <3>1, <3>2, <3>5, <3>6 DEF Records
  <2> QED
    BY <2>1, <2>2
<1>13. CASE CleanUp
  <2>1. PartialRec(FALSE) \in Records
    BY IdFacts, NoRecType DEF PartialRec, NoRec, Records, TypeOK, Works, Jobs, Items, item
  <2> QED
    BY <1>13, <2>1 DEF CleanUp, Discard, TypeOK
<1>14. CASE SwapBackupArchive
  <2>1. item.id \in Ids /\ item.new \in Nat /\ recs[item.id] \in Records /\ recs[item.id].copy \in Copies
        /\ work.seen[item.id] \in Records
    BY <1>14, IdFacts DEF SwapBackupArchive, WorkInv, item, TypeOK, Jobs, Items, Works, Records
  <2>2. TombstoneOf(work.seen[item.id]) \in Records
    BY <2>1 DEF TombstoneOf, MarkDeleted, Records
  <2>3. RequeueCopies(recs[item.id].copy) \in Copies
    BY <2>1, NoRecType DEF RequeueCopies, NewCopy, NoCopy, Copies
  <2> QED
    BY <1>14, <2>1, <2>2, <2>3 DEF SwapBackupArchive, TypeOK, Records
<1>15. CASE RemoveNew
  <2>1. PartialRec(work.held) \in Records
    BY IdFacts, NoRecType DEF PartialRec, NoRec, Records, TypeOK, Works, Jobs, Items, item
  <2> QED
    BY <1>15, <2>1 DEF RemoveNew, Discard, TypeOK
<1>16. ASSUME NEW i \in Ids, TimePasses(i) PROVE recs' \in [Ids -> Records]
  <2>1. recs \in [Ids -> Records]
    BY DEF TypeOK
  <2> QED
    BY <1>16, <2>1 DEF TimePasses, Records
<1> QED
  BY <1>1, <1>2, <1>3, <1>4, <1>5, <1>6, <1>7, <1>8, <1>9, <1>10, <1>11, <1>12, <1>13, <1>14, <1>15, <1>16,
     RecsWriters

\* Every step keeps the type of the archives.
LEMMA ArchType ==
  ASSUME TypeOK, WorkInv, ItemKeys, CopyInv, AttemptInv, Next
  PROVE  arch' \subseteq Keys
<1>1. CASE UNCHANGED arch
  BY <1>1 DEF TypeOK
<1>2. CASE PurgeArchive
  BY <1>2, IdFacts, NoRecType DEF PurgeArchive, PurgeRest, NoPurge, TypeOK
<1>3. CASE CleanUp
  BY <1>3, IdFacts, NoRecType DEF CleanUp, Discard, TypeOK
<1>4. CASE CopyArchive
  BY <1>4 DEF CopyArchive, WorkInv, ItemKeys, TypeOK, Jobs, Items, item, Keys
<1>5. CASE RemoveNew
  BY <1>5, IdFacts, NoRecType DEF RemoveNew, Discard, TypeOK
<1> QED
  BY <1>1, <1>2, <1>3, <1>4, <1>5, ArchWriters

\* Every step keeps the type of the holds.
LEMMA HeldType ==
  ASSUME TypeOK, WorkInv, ItemKeys, CopyInv, AttemptInv, Next
  PROVE  held' \subseteq arch'
<1>1. CASE UNCHANGED <<arch, held>>
  BY <1>1 DEF TypeOK
<1>2. ASSUME NEW i \in Ids, BeginPin(i) PROVE held' \subseteq arch'
  BY <1>2 DEF BeginPin, TypeOK
<1>3. CASE LiftHold
  BY <1>3, IdFacts, NoRecType DEF LiftHold, Happens, RestorePin, NoPin, TypeOK
<1>4. CASE LiftTombstone
  BY <1>4, IdFacts, NoRecType DEF LiftTombstone, TypeOK
<1>5. CASE PurgeArchive
  BY <1>5 DEF PurgeArchive, TypeOK
<1>6. CASE CleanUp
  BY <1>6 DEF CleanUp, Discard, TypeOK
<1>7. CASE CopyArchive
  BY <1>7 DEF CopyArchive, TypeOK
<1>8. CASE HoldNew
  BY <1>8 DEF HoldNew, ItemKeys, TypeOK
<1>9. CASE RemoveNew
  BY <1>9 DEF RemoveNew, Discard, TypeOK
<1> QED
  BY <1>1, <1>2, <1>3, <1>4, <1>5, <1>6, <1>7, <1>8, <1>9, ArchWriters, HeldWriters

\* Every step keeps the type of the copy target.
LEMMA CopiesType ==
  ASSUME TypeOK, WorkInv, ItemKeys, CopyInv, AttemptInv, Next
  PROVE  copies' \subseteq Keys
<1>1. CASE UNCHANGED copies
  BY <1>1 DEF TypeOK
<1>2. CASE PurgeCopy
  BY <1>2, IdFacts, NoRecType DEF PurgeCopy, TypeOK
<1>3. CASE Upload
  BY <1>3 DEF Upload, AttemptInv, TypeOK, Attempts, Keys
<1>4. CASE RemoveUntracked
  BY <1>4, IdFacts, NoRecType DEF RemoveUntracked, NoAttempt, TypeOK
<1> QED
  BY <1>1, <1>2, <1>3, <1>4, CopiesWriters

\* Every step keeps the type of the plan of retention.
LEMMA PlanType ==
  ASSUME TypeOK, WorkInv, ItemKeys, CopyInv, AttemptInv, Next
  PROVE  plan' \subseteq Ids
<1>1. CASE UNCHANGED plan
  BY <1>1 DEF TypeOK
<1>2. CASE PlanPrune
  BY <1>2 DEF PlanPrune, PlanRetention, Completed, Happens
<1>3. CASE PruneNext
  <2>1. plan \subseteq Ids
    BY DEF TypeOK
  <2> QED
    BY <1>3, <2>1 DEF PruneNext, MarkDeleted
<1>4. CASE Crash
  <2>1. plan \subseteq Ids
    BY DEF TypeOK
  <2> QED
    BY <1>4, <2>1 DEF Crash, Happens, NoPurge, NoPin, NoAttempt, NoWork
<1> QED
  BY <1>1, <1>2, <1>3, <1>4, PlanWriters

\* Every step keeps the type of the purge.
LEMMA PurgeType ==
  ASSUME TypeOK, WorkInv, ItemKeys, CopyInv, AttemptInv, Next
  PROVE  purge' \in Purges
<1>1. CASE UNCHANGED purge
  BY <1>1 DEF TypeOK
<1>2. CASE ListDeleted
  <2>1. purge \in Purges
    BY DEF TypeOK
  <2> QED
    BY <1>2, <2>1, IdFacts, NoRecType DEF ListDeleted, NoPurge, Purges
<1>3. ASSUME NEW i \in Ids, BeginPurge(i) PROVE purge' \in Purges
  BY <1>3, IdFacts, NoRecType DEF BeginPurge, NoPurge, TypeOK, Purges
<1>4. CASE PurgeCopy
  <2>1. purge \in Purges
    BY DEF TypeOK
  <2> QED
    BY <1>4, <2>1, IdFacts, NoRecType DEF PurgeCopy, Purges
<1>5. CASE RecordCopyPurged
  <2>1. purge \in Purges
    BY DEF TypeOK
  <2> QED
    BY <1>5, <2>1, IdFacts, NoRecType DEF RecordCopyPurged, Purges
<1>6. CASE LiftTombstone
  <2>1. purge \in Purges
    BY DEF TypeOK
  <2> QED
    BY <1>6, <2>1, IdFacts, NoRecType DEF LiftTombstone, Purges
<1>7. CASE PurgeArchive
  <2>1. purge \in Purges
    BY DEF TypeOK
  <2>2. PurgeRest \in Purges /\ [purge EXCEPT !.pc = "mark"] \in Purges
    BY <2>1, IdFacts, NoRecType DEF PurgeRest, NoPurge, Purges
  <2> QED
    BY <1>7, <2>2 DEF PurgeArchive
<1>8. CASE MarkPurged
  <2>1. purge \in Purges
    BY DEF TypeOK
  <2> QED
    BY <1>8, <2>1, IdFacts, NoRecType DEF MarkPurged, PurgeRest, NoPurge, Purges
<1>9. CASE PurgeFails
  <2>1. purge \in Purges
    BY DEF TypeOK
  <2> QED
    BY <1>9, <2>1, IdFacts, NoRecType DEF PurgeFails, Happens, PurgeRest, NoPurge, Purges
<1>10. CASE Crash
  <2>1. purge \in Purges
    BY DEF TypeOK
  <2> QED
    BY <1>10, <2>1, IdFacts, NoRecType DEF Crash, Happens, NoPurge, NoPin, NoAttempt, NoWork, Purges
<1> QED
  BY <1>1, <1>2, <1>3, <1>4, <1>5, <1>6, <1>7, <1>8, <1>9, <1>10, PurgeWriters

\* Every step keeps the type of the pin.
LEMMA PinType ==
  ASSUME TypeOK, WorkInv, ItemKeys, CopyInv, AttemptInv, Next
  PROVE  pin' \in Pins
<1>1. CASE UNCHANGED pin
  BY <1>1 DEF TypeOK
<1>2. ASSUME NEW i \in Ids, BeginPin(i) PROVE pin' \in Pins
  <2>1. recs[i].key \in Nat
    BY DEF TypeOK, Records
  <2> QED
    BY <1>2, <2>1 DEF BeginPin, NoPin, Pins
<1>3. ASSUME NEW i \in Ids, BeginUnpin(i) PROVE pin' \in Pins
  <2>1. recs[i].key \in Nat /\ recs[i].pinned \in BOOLEAN
    BY DEF TypeOK, Records
  <2> QED
    BY <1>3, <2>1 DEF BeginUnpin, NoPin, Pins
<1>4. CASE RecordPin
  BY <1>4, IdFacts, NoRecType DEF RecordPin, NoPin, TypeOK, Pins
<1>5. CASE LiftHold
  BY <1>5, IdFacts, NoRecType DEF LiftHold, Happens, RestorePin, NoPin, TypeOK, Pins
<1>6. CASE Crash
  BY <1>6, IdFacts, NoRecType DEF Crash, Happens, NoPurge, NoPin, NoAttempt, NoWork, TypeOK, Pins
<1> QED
  BY <1>1, <1>2, <1>3, <1>4, <1>5, <1>6, PinWriters

\* Every step keeps the type of the attempt of the copy queue.
LEMMA AttemptType ==
  ASSUME TypeOK, WorkInv, ItemKeys, CopyInv, AttemptInv, Next
  PROVE  attempt' \in Attempts
<1>1. CASE UNCHANGED attempt
  BY <1>1 DEF TypeOK
<1>2. ASSUME NEW i \in Ids, BeginAttempt(i) PROVE attempt' \in Attempts
  <2>1. recs[i].copy.key \in Nat /\ recs[i].key \in Nat
    BY DEF TypeOK, Records, Copies
  <2> QED
    BY <1>2, <2>1 DEF BeginAttempt, NoAttempt, Attempts
<1>3. CASE Upload
  BY <1>3, IdFacts, NoRecType DEF Upload, Happens, TypeOK, Attempts
<1>4. CASE RecordAttempt
  BY <1>4, IdFacts, NoRecType DEF RecordAttempt, NoAttempt, TypeOK, Attempts
<1>5. CASE RemoveUntracked
  BY <1>5, IdFacts, NoRecType DEF RemoveUntracked, NoAttempt, TypeOK, Attempts
<1>6. CASE Crash
  BY <1>6, IdFacts, NoRecType DEF Crash, Happens, NoPurge, NoPin, NoAttempt, NoWork, TypeOK, Attempts
<1> QED
  BY <1>1, <1>2, <1>3, <1>4, <1>5, <1>6, AttemptWriters

\* Every step keeps the type of the stored re-encryption job.
LEMMA JobType ==
  ASSUME TypeOK, WorkInv, ItemKeys, CopyInv, AttemptInv, Next
  PROVE  job' \in Jobs
<1>1. CASE UNCHANGED job
  BY <1>1 DEF TypeOK
<1>2. CASE Trigger
  <2>1. job \in Jobs
    BY DEF TypeOK
  <2> QED
    BY <1>2, <2>1 DEF Trigger, NoWork, Jobs, Items
<1>3. CASE CleanUp
  <2>1. NoItem \in Items /\ item.id \in Encrypted /\ job \in Jobs
    BY <1>3 DEF NoItem, Items, CleanUp, WorkInv, TypeOK, Jobs, item
  <2>2. [job EXCEPT !.item = NoItem] \in Jobs /\ [job EXCEPT !.item = NoItem, !.finished = @ \cup {item.id}] \in Jobs
    BY <2>1 DEF Jobs
  <2> QED
    BY <1>3, <2>2 DEF CleanUp
<1>4. ASSUME NEW i \in Ids, Process(i) PROVE job' \in Jobs
  <2> DEFINE new == [id |-> i, old |-> work.seen[i].key, new |-> NewKey]
  <2>1. i \in Encrypted /\ work.seen[i].key \in Nat /\ job.made \in Nat
    BY <1>4 DEF Process, TypeOK, Works, Jobs, Records
  <2>2. NewKey \in Nat /\ job.made + 1 \in Nat
    BY <2>1, IdFacts DEF NewKey
  <2>3. new \in Items
    BY <2>1, <2>2 DEF Items
  <2>4. job \in Jobs
    BY DEF TypeOK
  <2>5. job' = [job EXCEPT !.made = @ + 1, !.item = new]
    BY <1>4 DEF Process
  <2> HIDE DEF new
  <2> QED
    BY <2>2, <2>3, <2>4, <2>5 DEF Jobs
<1>5. CASE Persist
  <2>1. NoItem \in Items /\ item.id \in Encrypted /\ job \in Jobs
    BY <1>5 DEF NoItem, Items, Persist, WorkInv, TypeOK, Jobs, item
  <2> QED
    BY <1>5, <2>1 DEF Persist, Jobs
<1>6. CASE Finish
  <2>1. job \in Jobs
    BY DEF TypeOK
  <2> QED
    BY <1>6, <2>1 DEF Finish, NoWork, Jobs, Items
<1>7. CASE FailJob
  <2>1. job \in Jobs
    BY DEF TypeOK
  <2> QED
    BY <1>7, <2>1 DEF FailJob, Jobs, Items
<1> QED
  BY <1>1, <1>2, <1>3, <1>4, <1>5, <1>6, <1>7, JobWriters

\* Every step keeps the type of the re-encryption.
LEMMA WorkType ==
  ASSUME TypeOK, WorkInv, ItemKeys, CopyInv, AttemptInv, Next
  PROVE  work' \in Works
<1>1. CASE UNCHANGED work
  BY <1>1 DEF TypeOK
<1>2. CASE Trigger
  BY <1>2, NoRecType DEF Trigger, NoWork, Works
<1>3. CASE Resume
  BY <1>3, NoRecType DEF Resume, NoWork, Works
<1>4. CASE CleanUp
  BY <1>4 DEF CleanUp, TypeOK, Works
<1>5. CASE ListBackups
  <2> DEFINE L == {b \in Encrypted : recs[b].status = "completed" /\ b \notin job.finished}
  <2>1. [j \in Ids |-> IF j \in L THEN recs[j] ELSE NoRec] \in [Ids -> Records]
    BY NoRecType DEF TypeOK
  <2>2. work' = [work EXCEPT !.pc = "next", !.todo = L, !.seen = [j \in Ids |-> IF j \in L THEN recs[j] ELSE NoRec]]
    BY <1>5 DEF ListBackups
  <2>3. L \in SUBSET Encrypted
    OBVIOUS
  <2> HIDE DEF L
  <2> QED
    BY <2>1, <2>2, <2>3 DEF TypeOK, Works
<1>6. ASSUME NEW i \in Ids, Process(i) PROVE work' \in Works
  BY <1>6 DEF Process, TypeOK, Works
<1>7. CASE CopyArchive
  BY <1>7 DEF CopyArchive, TypeOK, Works
<1>8. CASE HoldNew
  <2>1. work.seen[item.id].hold \in BOOLEAN
    BY <1>8, IdFacts DEF HoldNew, WorkInv, TypeOK, Works, Records, Jobs, Items, item
  <2> QED
    BY <1>8, <2>1 DEF HoldNew, TypeOK, Works
<1>9. CASE SwapBackupArchive
  BY <1>9 DEF SwapBackupArchive, TypeOK, Works
<1>10. CASE RemoveNew
  BY <1>10 DEF RemoveNew, TypeOK, Works
<1>11. CASE Persist
  <2>1. work.seen \in [Ids -> Records]
    BY DEF TypeOK, Works
  <2>2. [work.seen EXCEPT ![item.id] = NoRec] \in [Ids -> Records]
    BY <2>1, NoRecType
  <2>3. work' = [work EXCEPT !.pc = "next", !.held = FALSE, !.seen = [work.seen EXCEPT ![item.id] = NoRec]]
    BY <1>11 DEF Persist, TypeOK, Works
  <2> QED
    BY <2>2, <2>3 DEF TypeOK, Works
<1>12. CASE Finish
  BY <1>12, NoRecType DEF Finish, NoWork, Works
<1>13. CASE Crash
  BY <1>13, NoRecType DEF Crash, NoWork, Works
<1>14. CASE FailJob
  BY <1>14, NoRecType DEF FailJob, NoWork, Works
<1>15. CASE RemoveNewFails
  BY <1>15 DEF RemoveNewFails, TypeOK, Works
<1> QED
  BY <1>1, <1>2, <1>3, <1>4, <1>5, <1>6, <1>7, <1>8, <1>9, <1>10, <1>11, <1>12, <1>13, <1>14, <1>15, WorkWriters

\* Every step keeps the type of what is torn.
LEMMA TornType ==
  ASSUME TypeOK, WorkInv, ItemKeys, CopyInv, AttemptInv, Next
  PROVE  torn' \subseteq {"archive", "hold"} \X Backups
<1>1. CASE UNCHANGED torn
  BY <1>1 DEF TypeOK
<1>2. ASSUME NEW i \in Ids, BeginPin(i) PROVE torn' \subseteq {"archive", "hold"} \X Backups
  BY <1>2, IdFacts DEF BeginPin, TypeOK
<1>3. ASSUME NEW i \in Ids, BeginUnpin(i) PROVE torn' \subseteq {"archive", "hold"} \X Backups
  BY <1>3, IdFacts DEF BeginUnpin, TypeOK
<1>4. CASE PurgeFails
  BY <1>4, IdFacts DEF PurgeFails, HoldLifted, TypeOK
<1>5. CASE ListBackups
  <2>1. CASE UNCHANGED torn
    BY <2>1 DEF TypeOK
  <2>2. CASE ~UNCHANGED torn
    <3>1. torn' = torn \cup {<<"hold", Of(pin.id)>>} /\ pin.id \in Encrypted
      BY <1>5, <2>2 DEF ListBackups
    <3> QED
      BY <3>1, IdFacts DEF TypeOK
  <2> QED
    BY <2>1, <2>2
<1>6. CASE Crash
  BY <1>6, IdFacts DEF Crash, TornNow, HoldLifted, TypeOK
<1> QED
  BY <1>1, <1>2, <1>3, <1>4, <1>5, <1>6, TornWriters

\* Every step keeps the type of what is lost.
LEMMA LostType ==
  ASSUME TypeOK, WorkInv, ItemKeys, CopyInv, AttemptInv, Next
  PROVE  lost' \subseteq {"copy", "new"} \X Keys
<1>0. lost \subseteq {"copy", "new"} \X Keys /\ (item.id # 0 => item.new \in Keys) /\ (attempt.pc # "idle" => attempt.key \in Keys)
  BY DEF TypeOK, Jobs, Items, item, ItemKeys, AttemptInv, Attempts, Keys
<1>1. CASE UNCHANGED lost
  BY <1>0, <1>1
<1>2. ASSUME NEW i \in Ids, BeginPurge(i) PROVE lost' \subseteq {"copy", "new"} \X Keys
  <2>1. CASE lost' = lost
    BY <1>0, <2>1
  <2>2. CASE lost' # lost
    <3>1. lost' = lost \cup {<<"copy", recs[i].copy.key>>} /\ attempt.pc # "idle" /\ attempt.key = recs[i].copy.key
      BY <1>2, <2>2 DEF BeginPurge, Overlooked
    <3> QED
      BY <1>0, <3>1
  <2> QED
    BY <2>1, <2>2
<1>3. CASE RecordAttempt
  <2>1. CASE lost' = lost
    BY <1>0, <2>1
  <2>2. CASE lost' # lost
    <3>1. lost' = lost \cup {<<"copy", recs[attempt.id].copy.key>>} /\ recs[attempt.id].copy.key \in copies
      BY <1>3, <2>2 DEF RecordAttempt, Forgotten
    <3> QED
      BY <1>0, <3>1 DEF TypeOK
  <2> QED
    BY <2>1, <2>2
<1>4. CASE RemoveUntracked
  BY <1>0, <1>4 DEF RemoveUntracked
<1>5. CASE FailJob
  BY <1>0, <1>5 DEF FailJob, WorkInv
<1>6. CASE RemoveNewFails
  BY <1>0, <1>6 DEF RemoveNewFails, WorkInv
<1>7. CASE Crash
  BY <1>0, <1>7 DEF Crash, LostNow, InHand
<1> QED
  BY <1>1, <1>2, <1>3, <1>4, <1>5, <1>6, <1>7, LostWriters

\* Every step keeps the type of the events.
LEMMA EventsType ==
  ASSUME TypeOK, WorkInv, ItemKeys, CopyInv, AttemptInv, Next
  PROVE  events' \in 0..MaxEvents
<1>1. CASE UNCHANGED events
  BY <1>1 DEF TypeOK
<1>2. ASSUME NEW i \in Ids, DeleteBackup(i) PROVE events' \in 0..MaxEvents
  BY <1>2, LifecycleAssumption DEF DeleteBackup, Happens, TypeOK
<1>3. ASSUME NEW i \in Ids, UndeleteBackup(i) PROVE events' \in 0..MaxEvents
  BY <1>3, LifecycleAssumption DEF UndeleteBackup, Happens, TypeOK
<1>4. ASSUME NEW i \in Ids, Verify(i) PROVE events' \in 0..MaxEvents
  BY <1>4, LifecycleAssumption DEF Verify, Happens, TypeOK
<1>5. ASSUME NEW i \in Ids, BeginPin(i) PROVE events' \in 0..MaxEvents
  BY <1>5, LifecycleAssumption DEF BeginPin, Happens, TypeOK
<1>6. ASSUME NEW i \in Ids, BeginUnpin(i) PROVE events' \in 0..MaxEvents
  BY <1>6, LifecycleAssumption DEF BeginUnpin, Happens, TypeOK
<1>7. ASSUME NEW i \in Ids, NEW s \in {"failed", "done"}, Requeue(i, s) PROVE events' \in 0..MaxEvents
  BY <1>7, LifecycleAssumption DEF Requeue, Happens, TypeOK
<1>8. CASE LiftHold
  BY <1>8, LifecycleAssumption DEF LiftHold, Happens, TypeOK
<1>9. CASE PlanPrune
  BY <1>9, LifecycleAssumption DEF PlanPrune, Happens, TypeOK
<1>10. CASE PurgeFails
  BY <1>10, LifecycleAssumption DEF PurgeFails, Happens, TypeOK
<1>11. CASE Upload
  BY <1>11, LifecycleAssumption DEF Upload, Happens, TypeOK
<1>12. CASE CopyArchive
  BY <1>12, LifecycleAssumption DEF CopyArchive, Happens, TypeOK
<1>13. CASE Crash
  BY <1>13, LifecycleAssumption DEF Crash, Happens, TypeOK
<1>14. CASE RemoveUntracked \/ HoldNew
  BY <1>14, LifecycleAssumption DEF RemoveUntracked, HoldNew, Happens, TypeOK
<1>15. CASE FailJob \/ RemoveNewFails
  BY <1>15, LifecycleAssumption DEF FailJob, RemoveNewFails, Happens, TypeOK
<1> QED
  BY <1>1, <1>2, <1>3, <1>4, <1>5, <1>6, <1>7, <1>8, <1>9, <1>10, <1>11, <1>12, <1>13, <1>14, <1>15, EventsWriters

\* Every step keeps the variables in their types.
LEMMA TypeNext ==
  ASSUME TypeOK, WorkInv, ItemKeys, CopyInv, AttemptInv, Next
  PROVE  TypeOK'
BY RecsType, ArchType, HeldType, CopiesType, PlanType, PurgeType, PinType, AttemptType, JobType, WorkType,
   TornType, LostType, EventsType DEF TypeOK

-----------------------------------------------------------------------------
(* What the steps do to the records. *)

Same(i) == recs'[i] = recs[i]
KeepsKeys == \A i \in Ids : recs'[i].key = recs[i].key /\ (recs'[i].status = "none" <=> recs[i].status = "none")
KeepsCopies == \A i \in Ids : recs'[i].copy = recs[i].copy
KeepsHolds == \A i \in Ids : recs'[i].pinned = recs[i].pinned /\ recs'[i].hold = recs[i].hold
KeepsStatus == \A i \in Ids : recs'[i].status = recs[i].status /\ recs'[i].due = recs[i].due

\* What DeleteBackup does to the records.
LEMMA DeleteBackupDoes ==
  ASSUME TypeOK, NEW i \in Ids, DeleteBackup(i)
  PROVE  /\ \A j \in Ids : j # i => Same(j)
         /\ recs'[i].status = "deleted" /\ recs'[i].key = recs[i].key /\ recs'[i].due = FALSE /\ recs'[i].pinned = recs[i].pinned
         /\ recs'[i].hold = recs[i].hold /\ recs'[i].check = recs[i].check /\ recs'[i].copy = recs[i].copy
<1>1. recs \in [Ids -> Records]
  BY DEF TypeOK
<1> QED
  BY <1>1 DEF DeleteBackup, Same, Records, MarkDeleted

\* What UndeleteBackup does to the records.
LEMMA UndeleteBackupDoes ==
  ASSUME TypeOK, NEW i \in Ids, UndeleteBackup(i)
  PROVE  /\ \A j \in Ids : j # i => Same(j)
         /\ recs[i].status = "deleted" /\ (IsPartial(i) => recs'[i].status = "failed")
            /\ (~IsPartial(i) => recs'[i].status = "completed")
         /\ recs'[i].key = recs[i].key /\ recs'[i].due = FALSE /\ recs'[i].pinned = recs[i].pinned
         /\ recs'[i].hold = recs[i].hold /\ recs'[i].check = recs[i].check /\ recs'[i].copy = recs[i].copy
<1>1. recs \in [Ids -> Records]
  BY DEF TypeOK
<1> QED
  BY <1>1 DEF UndeleteBackup, Same, Records

\* What TimePasses does to the records.
LEMMA TimePassesDoes ==
  ASSUME TypeOK, NEW i \in Ids, TimePasses(i)
  PROVE  /\ \A j \in Ids : j # i => Same(j)
         /\ recs'[i].status = recs[i].status /\ recs'[i].key = recs[i].key /\ recs'[i].due = TRUE
            /\ recs'[i].pinned = recs[i].pinned
         /\ recs'[i].hold = recs[i].hold /\ recs'[i].check = recs[i].check /\ recs'[i].copy = recs[i].copy
<1>1. recs \in [Ids -> Records]
  BY DEF TypeOK
<1> QED
  BY <1>1 DEF TimePasses, Same, Records

\* What Verify does to the records.
LEMMA VerifyDoes ==
  ASSUME TypeOK, NEW i \in Ids, Verify(i)
  PROVE  /\ \A j \in Ids : j # i => Same(j)
         /\ recs'[i].status = recs[i].status /\ recs'[i].key = recs[i].key /\ recs'[i].due = recs[i].due
            /\ recs'[i].pinned = recs[i].pinned
         /\ recs'[i].hold = recs[i].hold /\ recs'[i].copy = recs[i].copy
<1>1. recs \in [Ids -> Records]
  BY DEF TypeOK
<1> QED
  BY <1>1 DEF Verify, Same, Records

\* What BeginUnpin does to the records.
LEMMA BeginUnpinDoes ==
  ASSUME TypeOK, NEW i \in Ids, BeginUnpin(i)
  PROVE  /\ \A j \in Ids : j # i => Same(j)
         /\ recs'[i].status = recs[i].status /\ recs'[i].key = recs[i].key /\ recs'[i].due = recs[i].due /\ recs'[i].pinned = FALSE
         /\ recs'[i].hold = FALSE /\ recs'[i].check = recs[i].check /\ recs'[i].copy = recs[i].copy
<1>1. recs \in [Ids -> Records]
  BY DEF TypeOK
<1> QED
  BY <1>1 DEF BeginUnpin, Same, Records

\* What a retry of the copies, or their verification, does to the records.
LEMMA RequeueDoes ==
  ASSUME TypeOK, NEW i \in Ids, NEW s \in {"failed", "done"}, Requeue(i, s)
  PROVE  /\ \A j \in Ids : j # i => Same(j)
         /\ recs'[i].status = recs[i].status /\ recs'[i].key = recs[i].key /\ recs'[i].due = recs[i].due
            /\ recs'[i].pinned = recs[i].pinned
         /\ recs'[i].hold = recs[i].hold /\ recs'[i].check = recs[i].check
            /\ recs'[i].copy = [recs[i].copy EXCEPT !.status = "pending", !.tries = 0]
<1>1. recs \in [Ids -> Records]
  BY DEF TypeOK
<1> QED
  BY <1>1 DEF Requeue, Same, Records, Copies

\* What RecordPin does to the records.
LEMMA RecordPinDoes ==
  ASSUME TypeOK, PinInv, RecordPin
  PROVE  /\ pin.id \in Ids
         /\ \A j \in Ids : j # pin.id => Same(j)
         /\ recs'[pin.id].status = recs[pin.id].status /\ recs'[pin.id].key = recs[pin.id].key
            /\ recs'[pin.id].due = recs[pin.id].due /\ recs'[pin.id].pinned = TRUE
         /\ recs'[pin.id].hold = (recs[pin.id].hold \/ pin.hold) /\ recs'[pin.id].check = recs[pin.id].check
            /\ recs'[pin.id].copy = recs[pin.id].copy
<1>1. recs \in [Ids -> Records] /\ pin.id \in Ids
  BY IdFacts DEF TypeOK, Pins, RecordPin, PinInv
<1> QED
  BY <1>1 DEF RecordPin, Same, Records

\* What RecordCopyPurged does to the records.
LEMMA RecordCopyPurgedDoes ==
  ASSUME TypeOK, PurgeInv, RecordCopyPurged
  PROVE  /\ purge.id \in Ids
         /\ \A j \in Ids : j # purge.id => Same(j)
         /\ recs'[purge.id].status = recs[purge.id].status /\ recs'[purge.id].key = recs[purge.id].key
            /\ recs'[purge.id].due = recs[purge.id].due /\ recs'[purge.id].pinned = recs[purge.id].pinned
         /\ recs'[purge.id].hold = recs[purge.id].hold /\ recs'[purge.id].check = recs[purge.id].check
            /\ recs'[purge.id].copy = [recs[purge.id].copy EXCEPT !.status = "purged"]
<1>1. recs \in [Ids -> Records] /\ purge.id \in Ids
  BY IdFacts DEF TypeOK, Purges, RecordCopyPurged, PurgeInv
<1> QED
  BY <1>1 DEF RecordCopyPurged, Same, Records, Copies

\* What MarkPurged does to the records.
LEMMA MarkPurgedDoes ==
  ASSUME TypeOK, PurgeInv, MarkPurged
  PROVE  /\ purge.id \in Ids /\ \A j \in Ids : j # purge.id => Same(j)
         /\ \/ ~PurgeDue(recs[purge.id]) /\ Same(purge.id)
            \/ /\ PurgeDue(recs[purge.id])
               /\ recs'[purge.id].status = "purged" /\ recs'[purge.id].key = recs[purge.id].key
                  /\ recs'[purge.id].due = recs[purge.id].due
               /\ recs'[purge.id].pinned = recs[purge.id].pinned /\ ~recs'[purge.id].hold
                  /\ recs'[purge.id].copy = recs[purge.id].copy
<1>1. recs \in [Ids -> Records] /\ purge.id \in Ids
  BY IdFacts DEF TypeOK, Purges, MarkPurged, PurgeInv
<1> QED
  BY <1>1 DEF MarkPurged, Same, Records

\* What PruneNext does to the records.
LEMMA PruneNextDoes ==
  ASSUME TypeOK, PruneNext
  PROVE  \/ \A j \in Ids : Same(j)
         \/ \E i \in Ids :
              /\ DeletionLockFree /\ ~PruneRefused(i) /\ \A j \in Ids : j # i => Same(j)
              /\ recs'[i].status = "deleted" /\ recs'[i].key = recs[i].key /\ recs'[i].due = FALSE
                 /\ recs'[i].pinned = recs[i].pinned
              /\ recs'[i].hold = recs[i].hold /\ recs'[i].check = recs[i].check /\ recs'[i].copy = recs[i].copy
<1>1. recs \in [Ids -> Records]
  BY DEF TypeOK
<1> DEFINE i == CHOOSE o \in plan : \A p \in plan : Of(o) <= Of(p)
<1>2. recs' = (IF PruneRefused(i) THEN recs ELSE [recs EXCEPT ![i] = MarkDeleted(@)])
  BY DEF PruneNext
<1> HIDE DEF i
<1>3. CASE i \notin Ids \/ PruneRefused(i)
  <2>1. \A j \in Ids : recs'[j] = recs[j]
    BY <1>1, <1>2, <1>3
  <2> QED
    BY <2>1 DEF Same
<1>4. CASE i \in Ids /\ ~PruneRefused(i)
  <2>1. DeletionLockFree /\ recs' = [recs EXCEPT ![i] = MarkDeleted(recs[i])]
    BY <1>2, <1>4 DEF PruneNext
  <2>2. recs'[i] = MarkDeleted(recs[i]) /\ recs[i] \in Records /\ \A j \in Ids : j # i => Same(j)
    BY <1>1, <1>4, <2>1 DEF Same
  <2>3. /\ recs'[i].status = "deleted" /\ recs'[i].key = recs[i].key /\ recs'[i].due = FALSE /\ recs'[i].pinned = recs[i].pinned
        /\ recs'[i].hold = recs[i].hold /\ recs'[i].check = recs[i].check /\ recs'[i].copy = recs[i].copy
    BY <2>2 DEF MarkDeleted, Records
  <2> QED
    BY <1>4, <2>1, <2>2, <2>3
<1> QED
  BY <1>3, <1>4

\* What LiftHold does to the records.
LEMMA LiftHoldDoes ==
  ASSUME TypeOK, PinInv, LiftHold
  PROVE  /\ pin.pc = "unpin" /\ pin.id \in Ids /\ pin' = NoPin /\ \A j \in Ids : j # pin.id => Same(j)
         /\ \/ Same(pin.id) /\ held' = held \ {pin.key}
            \/ /\ held' = held
               /\ recs'[pin.id].status = recs[pin.id].status /\ recs'[pin.id].key = recs[pin.id].key
                  /\ recs'[pin.id].due = recs[pin.id].due
               /\ recs'[pin.id].pinned = pin.was /\ recs'[pin.id].hold /\ recs'[pin.id].copy = recs[pin.id].copy
<1>1. recs \in [Ids -> Records] /\ pin.pc = "unpin" /\ pin.id \in Ids
  BY IdFacts DEF TypeOK, Pins, LiftHold, PinInv
<1> QED
  BY <1>1 DEF LiftHold, RestorePin, Same, Records

\* What RecordAttempt does to the records.
LEMMA RecordAttemptDoes ==
  ASSUME TypeOK, AttemptInv, RecordAttempt
  PROVE  /\ attempt.id \in Ids /\ attempt.pc = "record" /\ \A j \in Ids : j # attempt.id => Same(j)
         /\ \/ /\ Same(attempt.id) /\ CopyGone(recs[attempt.id].copy)
               /\ attempt' = (IF attempt.result # "error" THEN [attempt EXCEPT !.pc = "untracked"] ELSE NoAttempt)
            \/ /\ ~CopyGone(recs[attempt.id].copy) /\ attempt' = NoAttempt
               /\ recs'[attempt.id].status = recs[attempt.id].status /\ recs'[attempt.id].key = recs[attempt.id].key
               /\ recs'[attempt.id].due = recs[attempt.id].due /\ recs'[attempt.id].pinned = recs[attempt.id].pinned
               /\ recs'[attempt.id].hold = recs[attempt.id].hold
               /\ recs'[attempt.id].copy.key = recs[attempt.id].copy.key
               /\ \/ recs'[attempt.id].copy.status = "done" /\ attempt.result = "ok"
                  \/ recs'[attempt.id].copy.status = "failed"
<1>1. recs \in [Ids -> Records] /\ attempt.id \in Ids /\ attempt.pc = "record" /\ recs[attempt.id].copy \in Copies
  BY IdFacts DEF TypeOK, Attempts, RecordAttempt, AttemptInv, Records
<1> DEFINE c == recs[attempt.id].copy
<1>2. CASE CopyGone(c)
  BY <1>1, <1>2 DEF RecordAttempt, Same
<1>3. CASE ~CopyGone(c)
  <2>1. Waiting(c) /\ attempt' = NoAttempt /\ recs' = [recs EXCEPT ![attempt.id].copy = Recorded(@)]
    BY <1>1, <1>3 DEF RecordAttempt, AttemptInv
  <2>2. Recorded(c).key = c.key /\ ((Recorded(c).status = "done" /\ attempt.result = "ok") \/ Recorded(c).status = "failed")
    BY <1>1 DEF Recorded, Copies
  <2>3. \A j \in Ids : j # attempt.id => Same(j)
    BY <1>1, <2>1 DEF Same
  <2>4. recs'[attempt.id] = [recs[attempt.id] EXCEPT !.copy = Recorded(c)]
    BY <1>1, <2>1
  <2> HIDE DEF c
  <2> QED
    BY <1>1, <1>3, <2>1, <2>2, <2>3, <2>4 DEF Records, c
<1> QED
  BY <1>2, <1>3

\* What SwapBackupArchive does to the records.
LEMMA SwapBackupArchiveDoes ==
  ASSUME TypeOK, WorkInv, TodoInv, SwapBackupArchive
  PROVE  LET b == item.id
             t == Tombstone(b) IN
         /\ work.pc = "swap" /\ b \in Backups /\ b \in work.todo /\ recs[b].status \notin {"deleted", "purged"}
         /\ recs[b].key = item.old /\ recs[t].status = "none" /\ \A j \in Ids : j \notin {b, t} => Same(j)
         /\ recs'[b].status = recs[b].status /\ recs'[b].key = item.new /\ recs'[b].due = recs[b].due
         /\ recs'[b].pinned = recs[b].pinned /\ recs'[b].hold = recs[b].hold /\ recs'[b].copy = RequeueCopies(recs[b].copy)
         /\ recs'[t].status = "deleted" /\ recs'[t].key = recs[b].key /\ recs'[t].due = FALSE
         /\ recs'[t].pinned = FALSE /\ recs'[t].hold = work.seen[b].hold /\ recs'[t].copy = recs[b].copy
<1> DEFINE b == item.id
           t == Tombstone(b)
<1>1. work.pc = "swap" /\ b \in work.todo /\ item.old = work.seen[b].key /\ ~SwapRefused
  BY DEF SwapBackupArchive, WorkInv, Making
<1>2. b \in Backups /\ b \in Ids /\ t \in Ids /\ t # b /\ recs[t].status = "none" /\ recs \in [Ids -> Records]
      /\ work.seen[b] \in Records
  BY <1>1, IdFacts DEF TypeOK, Works, TodoInv
<1>3. recs[b].key = item.old /\ recs[b].status \notin {"deleted", "purged"}
  BY <1>1 DEF SwapRefused
<1>4. recs' = [recs EXCEPT ![b].key = item.new, ![b].copy = RequeueCopies(@), ![t] = TombstoneOf(work.seen[b])]
  BY DEF SwapBackupArchive
<1> HIDE DEF b, t
<1>5. recs'[t] = TombstoneOf(work.seen[b]) /\ \A j \in Ids : j \notin {b, t} => recs'[j] = recs[j]
  BY <1>2, <1>4
<1>6. recs'[b] = [recs[b] EXCEPT !.key = item.new, !.copy = RequeueCopies(recs[b].copy)]
  BY <1>2, <1>4 DEF Records
<1>7. TombstoneOf(work.seen[b]) = [[work.seen[b] EXCEPT !.status = "deleted", !.due = FALSE] EXCEPT !.pinned = FALSE, !.copy = recs[b].copy]
  BY DEF TombstoneOf, MarkDeleted, b
<1>8. /\ recs'[t].status = "deleted" /\ recs'[t].key = recs[b].key /\ recs'[t].due = FALSE
      /\ recs'[t].pinned = FALSE /\ recs'[t].hold = work.seen[b].hold /\ recs'[t].copy = recs[b].copy
  BY <1>1, <1>2, <1>3, <1>5, <1>7 DEF Records
<1>9. /\ recs'[b].status = recs[b].status /\ recs'[b].key = item.new /\ recs'[b].due = recs[b].due
      /\ recs'[b].pinned = recs[b].pinned /\ recs'[b].hold = recs[b].hold /\ recs'[b].copy = RequeueCopies(recs[b].copy)
  BY <1>2, <1>6 DEF Records
<1> QED
  BY <1>1, <1>2, <1>3, <1>5, <1>8, <1>9 DEF b, t, Same

\* Discarding an unused archive removes it, or gives it the record of an unused archive.
LEMMA DiscardDoes ==
  ASSUME TypeOK, WorkInv, item.id # 0, NEW hold \in BOOLEAN, Discard(hold)
  PROVE  LET c == Partial(item.id) IN
         /\ item.id \in Backups /\ c \in Ids /\ \A j \in Ids : j # c => Same(j)
         /\ \/ item.new \notin held /\ Same(c) /\ arch' = arch \ {item.new}
            \/ /\ item.new \in held /\ arch' = arch
               /\ recs'[c].status = "deleted" /\ recs'[c].key = item.new /\ recs'[c].due = FALSE
               /\ recs'[c].pinned = FALSE /\ recs'[c].hold = hold /\ recs'[c].copy = NoCopy
<1>1. item.id \in Backups /\ Of(item.id) = item.id /\ Partial(item.id) \in Ids /\ recs \in [Ids -> Records]
  BY IdFacts DEF TypeOK, Jobs, Items, item
<1>2. /\ PartialRec(hold).status = "deleted" /\ PartialRec(hold).key = item.new /\ PartialRec(hold).due = FALSE
      /\ PartialRec(hold).pinned = FALSE /\ PartialRec(hold).hold = hold /\ PartialRec(hold).copy = NoCopy
  BY DEF PartialRec, NoRec
<1> QED
  BY <1>1, <1>2 DEF Discard, Same

\* What CleanUp does to the records.
LEMMA CleanUpDoes ==
  ASSUME TypeOK, WorkInv, CleanUp
  PROVE  /\ work.pc = "cleanup" /\ item.id # 0 /\ work' = [work EXCEPT !.pc = "list"]
         /\ \/ recs[item.id].key = item.new /\ UNCHANGED <<recs, arch>> /\ job' = [job EXCEPT !.item = NoItem, !.finished = @ \cup {item.id}]
            \/ recs[item.id].key # item.new /\ Discard(FALSE) /\ job' = [job EXCEPT !.item = NoItem]
BY DEF CleanUp, WorkInv

\* What RemoveNew does to the records.
LEMMA RemoveNewDoes ==
  ASSUME TypeOK, WorkInv, TodoInv, RemoveNew
  PROVE  /\ work.pc \in {"discard", "swap"} /\ item.id # 0 /\ item.id \in Backups /\ Discard(work.held) /\ work.held \in BOOLEAN
         /\ work.pc = "swap" => recs[item.id].status \in {"deleted", "purged"}
<1>1. work.held \in BOOLEAN
  BY DEF TypeOK, Works
<1> QED
  BY <1>1, IdFacts DEF RemoveNew, SwapRefused, WorkInv, TodoInv, Making, TypeOK, Works

\* Only the swap of the re-encryption and the record of an unused archive give a record a new key, ...
LEMMA KeysWriters ==
  ASSUME TypeOK, PurgeInv, PinInv, AttemptInv, Next
  PROVE  \/ CleanUp \/ SwapBackupArchive \/ RemoveNew
         \/ KeepsKeys
<1>1. CASE UNCHANGED recs
  BY <1>1 DEF KeepsKeys
<1>2. ASSUME NEW i \in Ids, DeleteBackup(i) PROVE KeepsKeys
  BY <1>2, DeleteBackupDoes DEF Same, KeepsKeys, DeleteBackup
<1>3. ASSUME NEW i \in Ids, UndeleteBackup(i) PROVE KeepsKeys
  BY <1>3, UndeleteBackupDoes DEF Same, KeepsKeys, UndeleteBackup
<1>4. ASSUME NEW i \in Ids, Verify(i) PROVE KeepsKeys
  BY <1>4, VerifyDoes DEF Same, KeepsKeys, Verify
<1>5. ASSUME NEW i \in Ids, BeginUnpin(i) PROVE KeepsKeys
  BY ZenonT(60), <1>5, BeginUnpinDoes DEF Same, KeepsKeys, BeginUnpin
<1>6. ASSUME NEW i \in Ids, NEW s \in {"failed", "done"}, Requeue(i, s) PROVE KeepsKeys
  BY <1>6, RequeueDoes DEF Same, KeepsKeys, Requeue
<1>7. CASE RecordPin
  BY <1>7, RecordPinDoes DEF Same, KeepsKeys, RecordPin
<1>8. CASE LiftHold
  BY <1>8, LiftHoldDoes DEF Same, KeepsKeys
<1>9. CASE PruneNext
  BY <1>9, PruneNextDoes DEF Same, KeepsKeys, PruneRefused
<1>10. CASE RecordCopyPurged
  BY <1>10, RecordCopyPurgedDoes DEF Same, KeepsKeys, RecordCopyPurged
<1>11. CASE MarkPurged
  BY <1>11, MarkPurgedDoes DEF Same, KeepsKeys, MarkPurged, PurgeDue
<1>12. CASE RecordAttempt
  BY <1>12, RecordAttemptDoes DEF Same, KeepsKeys
<1>13. ASSUME NEW i \in Ids, TimePasses(i) PROVE KeepsKeys
  BY <1>13, TimePassesDoes DEF Same, KeepsKeys, TimePasses
<1> QED
  BY <1>1, <1>2, <1>3, <1>4, <1>5, <1>6, <1>7, <1>8, <1>9, <1>10, <1>11, <1>12, <1>13, RecsWriters

\* ... a few actions of copy queue, purge and re-encryption change its copy, ...
LEMMA CopyWriters ==
  ASSUME TypeOK, PurgeInv, PinInv, AttemptInv, Next
  PROVE  \/ (\E i \in Ids, s \in {"failed", "done"} : Requeue(i, s)) \/ RecordCopyPurged \/ RecordAttempt \/ CleanUp \/ SwapBackupArchive \/
            RemoveNew
         \/ KeepsCopies
<1>1. CASE UNCHANGED recs
  BY <1>1 DEF KeepsCopies
<1>2. ASSUME NEW i \in Ids, DeleteBackup(i) PROVE KeepsCopies
  BY <1>2, DeleteBackupDoes DEF Same, KeepsCopies, DeleteBackup
<1>3. ASSUME NEW i \in Ids, UndeleteBackup(i) PROVE KeepsCopies
  BY <1>3, UndeleteBackupDoes DEF Same, KeepsCopies, UndeleteBackup
<1>4. ASSUME NEW i \in Ids, Verify(i) PROVE KeepsCopies
  BY <1>4, VerifyDoes DEF Same, KeepsCopies, Verify
<1>5. ASSUME NEW i \in Ids, BeginUnpin(i) PROVE KeepsCopies
  BY <1>5, BeginUnpinDoes DEF Same, KeepsCopies, BeginUnpin
<1>6. CASE RecordPin
  BY <1>6, RecordPinDoes DEF Same, KeepsCopies, RecordPin
<1>7. CASE LiftHold
  BY <1>7, LiftHoldDoes DEF Same, KeepsCopies
<1>8. CASE PruneNext
  BY <1>8, PruneNextDoes DEF Same, KeepsCopies, PruneRefused
<1>9. CASE MarkPurged
  BY <1>9, MarkPurgedDoes DEF Same, KeepsCopies, MarkPurged, PurgeDue
<1>10. ASSUME NEW i \in Ids, TimePasses(i) PROVE KeepsCopies
  BY <1>10, TimePassesDoes DEF Same, KeepsCopies, TimePasses
<1> QED
  BY <1>1, <1>2, <1>3, <1>4, <1>5, <1>6, <1>7, <1>8, <1>9, <1>10, RecsWriters

\* ... those of pins, purge and re-encryption its pin and hold, ...
LEMMA HoldWriters ==
  ASSUME TypeOK, PurgeInv, PinInv, AttemptInv, Next
  PROVE  \/ (\E i \in Ids : BeginUnpin(i)) \/ RecordPin \/ LiftHold \/ MarkPurged \/ CleanUp \/ SwapBackupArchive \/
            RemoveNew
         \/ KeepsHolds
<1>1. CASE UNCHANGED recs
  BY <1>1 DEF KeepsHolds
<1>2. ASSUME NEW i \in Ids, DeleteBackup(i) PROVE KeepsHolds
  BY <1>2, DeleteBackupDoes DEF Same, KeepsHolds, DeleteBackup
<1>3. ASSUME NEW i \in Ids, UndeleteBackup(i) PROVE KeepsHolds
  BY <1>3, UndeleteBackupDoes DEF Same, KeepsHolds, UndeleteBackup
<1>4. ASSUME NEW i \in Ids, Verify(i) PROVE KeepsHolds
  BY <1>4, VerifyDoes DEF Same, KeepsHolds, Verify
<1>5. ASSUME NEW i \in Ids, NEW s \in {"failed", "done"}, Requeue(i, s) PROVE KeepsHolds
  BY <1>5, RequeueDoes DEF Same, KeepsHolds, Requeue
<1>6. CASE PruneNext
  BY <1>6, PruneNextDoes DEF Same, KeepsHolds, PruneRefused
<1>7. CASE RecordCopyPurged
  BY <1>7, RecordCopyPurgedDoes DEF Same, KeepsHolds, RecordCopyPurged
<1>8. CASE RecordAttempt
  BY <1>8, RecordAttemptDoes DEF Same, KeepsHolds
<1>9. ASSUME NEW i \in Ids, TimePasses(i) PROVE KeepsHolds
  BY <1>9, TimePassesDoes DEF Same, KeepsHolds, TimePasses
<1> QED
  BY <1>1, <1>2, <1>3, <1>4, <1>5, <1>6, <1>7, <1>8, <1>9, RecsWriters

\* ... and those of deletion, purge and re-encryption its status.
LEMMA StatusWriters ==
  ASSUME TypeOK, PurgeInv, PinInv, AttemptInv, Next
  PROVE  \/ (\E i \in Ids : DeleteBackup(i)) \/ (\E i \in Ids : UndeleteBackup(i)) \/ PruneNext \/ MarkPurged \/ CleanUp \/
            SwapBackupArchive \/ RemoveNew \/ (\E i \in Ids : TimePasses(i))
         \/ KeepsStatus
<1>1. CASE UNCHANGED recs
  BY <1>1 DEF KeepsStatus
<1>2. ASSUME NEW i \in Ids, Verify(i) PROVE KeepsStatus
  BY <1>2, VerifyDoes DEF Same, KeepsStatus, Verify
<1>3. ASSUME NEW i \in Ids, BeginUnpin(i) PROVE KeepsStatus
  BY <1>3, BeginUnpinDoes DEF Same, KeepsStatus, BeginUnpin
<1>4. ASSUME NEW i \in Ids, NEW s \in {"failed", "done"}, Requeue(i, s) PROVE KeepsStatus
  BY <1>4, RequeueDoes DEF Same, KeepsStatus, Requeue
<1>5. CASE RecordPin
  BY <1>5, RecordPinDoes DEF Same, KeepsStatus, RecordPin
<1>6. CASE LiftHold
  BY <1>6, LiftHoldDoes DEF Same, KeepsStatus
<1>7. CASE RecordCopyPurged
  BY <1>7, RecordCopyPurgedDoes DEF Same, KeepsStatus, RecordCopyPurged
<1>8. CASE RecordAttempt
  BY <1>8, RecordAttemptDoes DEF Same, KeepsStatus
<1> QED
  BY <1>1, <1>2, <1>3, <1>4, <1>5, <1>6, <1>7, <1>8, RecsWriters

\* The inductive invariant.
Inv ==
    /\ TypeOK /\ RecordKeys /\ StoredKeys /\ ActorKeys /\ ItemKeys /\ WorkInv
    /\ TodoInv /\ MovedInv /\ PurgeInv /\ CopyInv /\ AttemptInv /\ ObjectsInv /\ PassedInv /\ CopiesTracked /\ ArchInv
    /\ UsableInv /\ PinInv /\ PinKeys /\ PinnedInv /\ HoldInv /\ PartialInv /\ MovingInv

-----------------------------------------------------------------------------
(* What the steps of the re-encryption do, and lemmas that several parts share. *)

\* The last key handed out never goes back.
LEMMA LastGrows ==
  ASSUME TypeOK, Next
  PROVE  Last \in Nat /\ Last' \in Nat /\ Last <= Last'
<1>1. job \in Jobs /\ NumBackups \in Nat
  BY IdFacts DEF TypeOK
<1>2. job'.made = job.made \/ job'.made = job.made + 1
  <2>1. CASE UNCHANGED job
    BY <2>1
  <2>2. CASE Trigger \/ CleanUp \/ Persist \/ Finish \/ FailJob
    BY <1>1, <2>2 DEF Trigger, CleanUp, Persist, Finish, FailJob, Jobs
  <2>3. ASSUME NEW i \in Ids, Process(i) PROVE job'.made = job.made + 1
    BY <1>1, <2>3 DEF Process, Jobs
  <2> QED
    BY <2>1, <2>2, <2>3, JobWriters
<1> QED
  BY <1>1, <1>2 DEF Last, Jobs

\* The record of an unused archive has a key of its own.
LEMMA PartialKeys ==
  ASSUME Inv, TypeOK', item.id # 0, recs[item.id].key # item.new, NEW hold \in BOOLEAN, Discard(hold), job'.made = job.made
  PROVE  RecordKeys'
<1> USE DEF Inv
<1> DEFINE c == Partial(item.id)
<1>1. item.id \in Backups /\ c \in Ids /\ IsPartial(c) /\ c \notin Backups /\ \A j \in Ids : j # c => Same(j)
  BY DiscardDoes, IdFacts
<1>2. Same(c) \/ (recs'[c].status = "deleted" /\ recs'[c].key = item.new)
  BY DiscardDoes
<1>3. item.new <= Last /\ item.new # 0 /\ \A j \in Ids : j # c => recs[j].key # item.new
  BY <1>1 DEF ActorKeys, ItemKeys
<1>4. Last' = Last
  BY DEF Last
<1>5. \A j \in Ids : recs'[j].key <= Last /\ (recs'[j].status = "none" <=> recs'[j].key = 0)
  BY <1>1, <1>2, <1>3 DEF RecordKeys, Same
<1>6. \A j, k \in Ids : recs'[j].key = recs'[k].key /\ recs'[j].key # 0 => j = k
  BY <1>1, <1>2, <1>3 DEF RecordKeys, Same
<1>7. \A b \in Backups : recs'[b].status # "none"
  BY <1>1, IdFacts DEF RecordKeys, Same
<1> QED
  BY <1>4, <1>5, <1>6, <1>7 DEF RecordKeys

\* Until the swap the backup under re-encryption has the archive it was listed with and no
\* tombstone.
LEMMA MakingFacts ==
  ASSUME Inv, Making
  PROVE  /\ item.id \in Encrypted /\ item.id \in Backups /\ item.id \in Ids /\ item.id # 0 /\ item.new # 0 /\ item.id \in work.todo
         /\ item.old = work.seen[item.id].key /\ recs[item.id].key = item.old /\ recs[item.id].key # item.new
         /\ recs[Tombstone(item.id)].status = "none" /\ item.id \notin job.finished
BY IdFacts DEF Inv, Making, WorkInv, ItemKeys, TodoInv, TypeOK, Works

\* A purge that is done with a record has none in hand.
LEMMA PurgeRestFacts == PurgeRest.pc \in {"idle", "next"} /\ PurgeRest.id = 0 /\ PurgeRest.rec = NoRec /\ NoRec.key = 0
BY DEF PurgeRest, NoPurge, NoRec

\* The clean-up after a crash: the item is closed, its archive used or discarded.
LEMMA CleanUpMoves ==
  ASSUME Inv, CleanUp
  PROVE  /\ work.pc = "cleanup" /\ item.id \in Backups /\ item.id # 0 /\ item' = NoItem /\ item'.id = 0 /\ item'.new = 0
         /\ job'.made = job.made /\ job'.status = job.status /\ work.todo = {} /\ work'.pc = "list" /\ work'.todo = {}
         /\ work'.seen = work.seen /\ work'.held = work.held /\ UNCHANGED <<held, copies, plan, purge, pin, attempt, torn>>
         /\ \/ recs[item.id].key = item.new /\ UNCHANGED <<recs, arch>> /\ job'.finished = job.finished \cup {item.id}
            \/ recs[item.id].key # item.new /\ Discard(FALSE) /\ job'.finished = job.finished
<1>1. job \in Jobs /\ work \in Works /\ WorkInv
  BY DEF Inv, TypeOK
<1>2. work.pc = "cleanup" /\ item.id # 0 /\ work.todo = {}
  BY <1>1 DEF CleanUp, WorkInv
<1>3. item.id \in Backups
  BY <1>1, <1>2, IdFacts DEF Jobs, Items, item
<1>4. /\ work'.pc = "list" /\ work'.todo = {} /\ work'.seen = work.seen /\ work'.held = work.held
      /\ UNCHANGED <<held, copies, plan, purge, pin, attempt, torn>>
  BY <1>1, <1>2 DEF CleanUp, Works, actors
<1>5. CASE recs[item.id].key = item.new /\ UNCHANGED <<recs, arch>>
      /\ job' = [job EXCEPT !.item = NoItem, !.finished = @ \cup {item.id}]
  <2>1. job'.item = NoItem /\ job'.made = job.made /\ job'.status = job.status /\ job'.finished = job.finished \cup {item.id}
    BY <1>1, <1>5 DEF Jobs
  <2> QED
    BY <1>2, <1>3, <1>4, <1>5, <2>1 DEF item, NoItem
<1>6. CASE recs[item.id].key # item.new /\ Discard(FALSE) /\ job' = [job EXCEPT !.item = NoItem]
  <2>1. job'.item = NoItem /\ job'.made = job.made /\ job'.status = job.status /\ job'.finished = job.finished
    BY <1>1, <1>6 DEF Jobs
  <2>2. item' = NoItem /\ item'.id = 0 /\ item'.new = 0
    BY <2>1 DEF item, NoItem
  <2> QED
    BY <1>2, <1>3, <1>4, <1>6, <2>1, <2>2, Zenon
<1> QED
  BY <1>5, <1>6 DEF CleanUp

\* The next item of the re-encryption takes the next key.
LEMMA ProcessMoves ==
  ASSUME Inv, NEW i \in Ids, Process(i)
  PROVE  /\ work.pc = "next" /\ item.id = 0 /\ i \in work.todo /\ i \in Backups /\ item'.id = i /\ item'.old = work.seen[i].key
         /\ Last \in Nat /\ item'.new = Last + 1 /\ Last' = Last + 1 /\ job'.status = job.status /\ job'.finished = job.finished
         /\ work'.pc = "copy" /\ work'.todo = work.todo /\ work'.seen = work.seen /\ work'.held = work.held
         /\ UNCHANGED <<recs, arch, held, copies, plan, purge, pin, attempt, torn>>
<1>1. job \in Jobs /\ work \in Works /\ WorkInv /\ job.made \in Nat /\ NumBackups \in Nat
  BY IdFacts DEF Inv, TypeOK, Jobs
<1>2. work.pc = "next" /\ item.id = 0 /\ i \in work.todo /\ i \in Backups
  BY <1>1, IdFacts DEF Process, WorkInv, Works
<1>3. job' = [job EXCEPT !.made = @ + 1, !.item = [id |-> i, old |-> work.seen[i].key, new |-> NewKey]]
  BY DEF Process
<1>4. /\ job'.item = [id |-> i, old |-> work.seen[i].key, new |-> NewKey] /\ job'.made = job.made + 1
      /\ job'.status = job.status /\ job'.finished = job.finished
  BY <1>1, <1>3 DEF Jobs
<1>5. Last \in Nat /\ Last' = Last + 1 /\ NewKey = Last + 1
  BY <1>1, <1>4 DEF Last, NewKey
<1>6. /\ work'.pc = "copy" /\ work'.todo = work.todo /\ work'.seen = work.seen /\ work'.held = work.held
      /\ UNCHANGED <<recs, arch, held, copies, plan, purge, pin, attempt, torn>>
  BY <1>1 DEF Process, Works, storage, actors
<1> QED
  BY <1>2, <1>4, <1>5, <1>6 DEF item

\* A persisted item is finished.
LEMMA PersistMoves ==
  ASSUME Inv, Persist
  PROVE  /\ work.pc = "persist" /\ item.id \in Backups /\ item.id # 0 /\ item' = NoItem /\ item'.id = 0 /\ item'.new = 0
         /\ job'.made = job.made /\ job'.status = job.status /\ job'.finished = job.finished \cup {item.id}
         /\ work'.pc = "next" /\ work'.todo = work.todo /\ work'.held = FALSE
            /\ \A j \in Ids : j # item.id => work'.seen[j] = work.seen[j]
         /\ UNCHANGED <<recs, arch, held, copies, plan, purge, pin, attempt, torn>>
<1>1. job \in Jobs /\ work \in Works /\ WorkInv
  BY DEF Inv, TypeOK
<1>2. work.pc = "persist" /\ item.id # 0
  BY <1>1 DEF Persist, WorkInv
<1>3. item.id \in Backups
  BY <1>1, <1>2, IdFacts DEF Jobs, Items, item
<1>4. job'.item = NoItem /\ job'.made = job.made /\ job'.status = job.status /\ job'.finished = job.finished \cup {item.id}
  BY <1>1 DEF Persist, Jobs
<1>5. /\ work'.pc = "next" /\ work'.todo = work.todo /\ work'.held = FALSE /\ \A j \in Ids : j # item.id => work'.seen[j] = work.seen[j]
      /\ UNCHANGED <<recs, arch, held, copies, plan, purge, pin, attempt, torn>>
  BY <1>1 DEF Persist, Works, storage, actors
<1> QED
  BY <1>2, <1>3, <1>4, <1>5 DEF item, NoItem

\* The re-encryption lists the backups as they are.
LEMMA ListBackupsMoves ==
  ASSUME Inv, ListBackups
  PROVE  /\ work.pc = "list" /\ item.id = 0 /\ work'.pc = "next" /\ work'.held = work.held
         /\ work'.todo = {b \in Encrypted : recs[b].status = "completed" /\ b \notin job.finished}
         /\ \A b \in work'.todo : b \in Backups /\ work'.seen[b] = recs[b]
         /\ UNCHANGED <<recs, arch, held, copies, plan, purge, pin, attempt, job>>
         /\ torn' = (IF pin.id \in work'.todo THEN torn \cup {<<"hold", Of(pin.id)>>} ELSE torn)
<1> DEFINE L == {b \in Encrypted : recs[b].status = "completed" /\ b \notin job.finished}
           S == [i \in Ids |-> IF i \in L THEN recs[i] ELSE NoRec]
<1>1. work \in Works /\ WorkInv /\ work.pc = "list"
  BY DEF Inv, TypeOK, ListBackups
<1>2. work' = [work EXCEPT !.pc = "next", !.todo = L, !.seen = S]
      /\ torn' = (IF pin.id \in L THEN torn \cup {<<"hold", Of(pin.id)>>} ELSE torn)
  BY DEF ListBackups
<1>3. \A b \in L : b \in Backups /\ b \in Ids /\ S[b] = recs[b]
  BY IdFacts
<1> HIDE DEF L, S
<1>4. work'.pc = "next" /\ work'.todo = L /\ work'.seen = S /\ work'.held = work.held
  BY <1>1, <1>2 DEF Works
<1>5. UNCHANGED <<recs, arch, held, copies, plan, purge, pin, attempt, job>>
  BY DEF ListBackups, storage, actors
<1>6. item.id = 0
  BY <1>1 DEF WorkInv
<1> QED
  BY <1>1, <1>2, <1>3, <1>4, <1>5, <1>6 DEF L

\* Swap and removal end the work on an item and leave the other actors as they are.
LEMMA SwapMoves ==
  ASSUME Inv, SwapBackupArchive \/ RemoveNew
  PROVE  /\ Making /\ item.id \in Backups /\ item' = item /\ job' = job /\ work'.pc = "persist" /\ work'.todo = work.todo \ {item.id}
         /\ work'.seen = work.seen /\ work'.held = work.held /\ UNCHANGED <<held, copies, plan, purge, pin, attempt, torn>>
<1>1. work \in Works /\ Making
  BY DEF Inv, TypeOK, SwapBackupArchive, RemoveNew, Making
<1>2. /\ work' = [work EXCEPT !.pc = "persist", !.todo = @ \ {item.id}] /\ job' = job
      /\ UNCHANGED <<held, copies, plan, purge, pin, attempt, torn>>
  BY DEF SwapBackupArchive, RemoveNew, storage, actors
<1>3. work'.pc = "persist" /\ work'.todo = work.todo \ {item.id} /\ work'.seen = work.seen /\ work'.held = work.held
  BY <1>1, <1>2 DEF Works
<1> QED
  BY <1>1, <1>2, <1>3, MakingFacts DEF item

\* A job that fails leaves everything but its work as it is.
LEMMA FailJobMoves ==
  ASSUME Inv, FailJob
  PROVE  /\ UNCHANGED <<recs, arch, held, copies, plan, purge, pin, attempt, torn>> /\ item' = item /\ work.pc \in {"cleanup", "list"}
         /\ job'.status = "failed" /\ job'.made = job.made /\ job'.finished = job.finished
         /\ work'.pc = "off" /\ work'.todo = {} /\ ~work'.held
BY DEF Inv, TypeOK, Jobs, FailJob, NoWork, storage, actors, item

\* A removal that fails leaves everything but the work as it is.
LEMMA RemoveNewFailsMoves ==
  ASSUME Inv, RemoveNewFails
  PROVE  /\ Making /\ UNCHANGED <<recs, arch, held, copies, plan, purge, pin, attempt, torn, job>> /\ item' = item
         /\ work'.pc = "persist" /\ work'.todo = work.todo \ {item.id} /\ work'.seen = work.seen /\ work'.held = work.held
BY DEF Inv, TypeOK, Works, RemoveNewFails, storage, actors, item, Making

Busy == {"copies", "record", "lift", "archive", "mark"}
\* A step that leaves what the purge has read of the records as it is.
KeepsRead == \A i \in Ids : /\ recs'[i].status = recs[i].status /\ recs'[i].due = recs[i].due /\ recs'[i].key = recs[i].key
                            /\ recs'[i].pinned = recs[i].pinned /\ recs'[i].hold = recs[i].hold
                               /\ recs'[i].copy.key = recs[i].copy.key

\* The purge keeps its record from step to step, or is done with it.
LEMMA PurgeMoves ==
  ASSUME Inv, Next, PurgeCopy \/ RecordCopyPurged \/ LiftTombstone \/ PurgeArchive
  PROVE  /\ purge.id \in Ids /\ purge.pc \in Busy
         /\ \/ purge'.id = purge.id /\ purge'.rec = purge.rec
            \/ purge'.id = 0 /\ purge'.rec = NoRec /\ purge'.pc \in {"idle", "next"} /\ UNCHANGED <<recs, storage>> /\ PurgeArchive
<1>1. purge \in Purges /\ purge.pc \in Busy /\ purge.id # 0
  BY DEF Inv, PurgeInv, TypeOK, Busy, PurgeCopy, RecordCopyPurged, LiftTombstone, PurgeArchive
<1>2. purge.id \in Ids
  BY <1>1 DEF Purges
<1>3. CASE \E pc : purge' = [purge EXCEPT !.pc = pc]
  BY <1>1, <1>2, <1>3 DEF Purges
<1>4. CASE PurgeArchive /\ purge' = PurgeRest /\ UNCHANGED <<recs, storage>>
  BY <1>1, <1>2, <1>4, PurgeRestFacts
<1> QED
  BY <1>3, <1>4 DEF PurgeCopy, RecordCopyPurged, LiftTombstone, PurgeArchive, storage

\* A step that leaves what the purge has read as it is leaves PurgeInv true.
LEMMA PurgeFrozen ==
  ASSUME Inv, purge.id # 0, purge'.id = purge.id, purge'.rec = purge.rec, purge'.pc \in Busy, KeepsRead,
         purge'.pc = "record" => Live(purge.rec.copy)
  PROVE  PurgeInv'
<1> DEFINE d == purge.id
           r == purge.rec
<1>1. d \in Ids /\ PurgeInv
  BY DEF Inv, TypeOK, Purges
<1>2. /\ r.status = "deleted" /\ r.due /\ ~r.pinned /\ r.key # 0 /\ recs'[d].status # "none"
      /\ \A j \in Ids : recs'[j].key = r.key => j = d
      /\ Live(r.copy) => r.copy.key = r.key
      /\ IsPartial(d) => r.copy.status = "none"
  BY <1>1 DEF PurgeInv, KeepsRead
<1>3. ASSUME ~IsPartial(d)
      PROVE  /\ recs'[d].status = "deleted" /\ recs'[d].due /\ ~recs'[d].pinned
             /\ recs'[d].key = r.key /\ recs'[d].hold = r.hold /\ recs'[d].copy.key = r.copy.key
  BY <1>1, <1>3 DEF PurgeInv, KeepsRead
<1> QED
  BY <1>2, <1>3 DEF PurgeInv, Busy

\* So does one after which it has no record in hand.
LEMMA PurgeAway ==
  ASSUME purge'.id = 0, purge'.pc \in {"idle", "next"}
  PROVE  PurgeInv'
BY DEF PurgeInv

\* So does the record of an unused archive, which may be the one under the purge.
LEMMA PurgePartial ==
  ASSUME Inv, item.id # 0, purge' = purge, recs[item.id].key # item.new, NEW hold \in BOOLEAN, Discard(hold)
  PROVE  PurgeInv'
<1> USE DEF Inv
<1>1. purge' = purge /\ item.id \in Backups /\ item.new # 0 /\ recs[item.id].key # item.new
      /\ (\A j \in Ids : j # Partial(item.id) => Same(j))
  BY DiscardDoes, IdFacts DEF ItemKeys
<1> DEFINE c == Partial(item.id)
<1>2. c \in Ids /\ IsPartial(c) /\ (Same(c) \/ (recs'[c].status = "deleted" /\ recs'[c].key = item.new))
  BY DiscardDoes, IdFacts
<1>3. CASE purge.id = 0
  <2>1. purge'.id = 0 /\ purge'.pc \in {"idle", "next"}
    BY <1>1, <1>3 DEF PurgeInv, TypeOK, Purges
  <2> QED
    BY <2>1, PurgeAway
<1>4. CASE purge.id # 0
  <2> DEFINE d == purge.id
             r == purge.rec
  <2>1. d \in Ids /\ PurgeInv /\ purge.pc \in Busy
    BY <1>4 DEF TypeOK, Purges, PurgeInv, Busy
  <2>2. /\ r.status = "deleted" /\ r.due /\ ~r.pinned /\ r.key # 0 /\ (Live(r.copy) => r.copy.key = r.key)
        /\ (IsPartial(d) => r.copy.status = "none") /\ (purge.pc = "record" => Live(r.copy))
    BY <1>4 DEF PurgeInv
  <2>3. recs'[d].status # "none"
    BY <1>1, <1>2, <1>4, <2>1 DEF PurgeInv, Same
  <2>4. \A j \in Ids : recs'[j].key = r.key => j = d
    BY <1>1, <1>2, <1>4, <2>1, IdFacts DEF PurgeInv, Same, RecordKeys, ItemKeys
  <2>5. ASSUME ~IsPartial(d)
        PROVE  /\ recs'[d].status = "deleted" /\ recs'[d].due /\ ~recs'[d].pinned
               /\ recs'[d].key = r.key /\ recs'[d].hold = r.hold /\ recs'[d].copy.key = r.copy.key
    BY <1>1, <1>2, <1>4, <2>1, <2>5 DEF PurgeInv, Same
  <2> HIDE DEF d, r
  <2> QED
    BY <1>1, <1>4, <2>1, <2>2, <2>3, <2>4, <2>5 DEF PurgeInv, Busy, d, r
<1> QED
  BY <1>3, <1>4

\* The copy of a moved backup is as absent as it was, or pending under the new key.
LEMMA RequeueFacts ==
  ASSUME NEW c
  PROVE  /\ c.status \in {"none", "purged"} => RequeueCopies(c) = c
         /\ c.status \notin {"none", "purged"} =>
              RequeueCopies(c).status = "pending" /\ RequeueCopies(c).key = item.new /\ RequeueCopies(c).tries = 0
BY DEF RequeueCopies, NewCopy, NoCopy

\* What keeps the attempt of the copy queue as it should be when others step.
LEMMA AttemptStays ==
  ASSUME Inv, attempt' = attempt, attempt.key \in copies => attempt.key \in copies',
         purge'.pc = "record" => purge.pc = "record" /\ purge'.rec = purge.rec,
         attempt.pc # "idle" =>
            /\ recs'[attempt.id].status # "none" /\ (\E j \in Ids : Live(recs'[j].copy) /\ recs'[j].copy.key = attempt.key)
            /\ (\A j \in Ids : recs'[j].copy.key = attempt.key => recs'[j].copy.status # "done")
            /\ (attempt.pc # "untracked" /\ ~CopyGone(recs'[attempt.id].copy) => Waiting(recs'[attempt.id].copy))
  PROVE  AttemptInv'
<1>1. /\ attempt.id # 0 <=> attempt.pc # "idle"
      /\ attempt.pc # "idle" => /\ attempt.key # 0
                             /\ (attempt.pc = "record" /\ attempt.result # "error" => attempt.key \in copies)
                             /\ (purge.pc = "record" => attempt.key # purge.rec.copy.key)
  BY DEF Inv, AttemptInv
<1> QED
  BY <1>1 DEF AttemptInv, Named, CopyGone

\* What keeps the objects of the copy target named when the records change.
LEMMA ObjectsStay ==
  ASSUME Inv, copies' \subseteq copies, purge'.pc # "record" \/ (purge.pc = "record" /\ purge'.rec = purge.rec),
         \A n \in Ids : Live(recs[n].copy) /\ recs[n].copy.key \in copies => \E j \in Ids : Live(recs'[j].copy) /\ recs'[j].copy.key = recs[n].copy.key
  PROVE  ObjectsInv'
<1>1. ASSUME NEW k \in copies' PROVE \E j \in Ids : Live(recs'[j].copy) /\ recs'[j].copy.key = k
  <2>1. k \in copies
    OBVIOUS
  <2>2. PICK n \in Ids : Live(recs[n].copy) /\ recs[n].copy.key = k
    BY <2>1 DEF Inv, ObjectsInv, Named
  <2> QED
    BY <2>1, <2>2
<1>2. purge'.pc = "record" => purge'.rec.copy.key \notin copies'
  BY DEF Inv, ObjectsInv
<1> QED
  BY <1>1, <1>2 DEF ObjectsInv, Named, Live

\* No pin is in hand.
LEMMA PinIdle ==
  ASSUME pin'.pc = "idle", pin'.id = 0
  PROVE  PinInv'
BY DEF PinInv

\* What keeps a pin that is in hand as it should be when others step.
LEMMA PinStays ==
  ASSUME Inv, pin' = pin, torn \subseteq torn',
         pin.id # 0 =>
            /\ purge'.id = 0 /\ recs'[pin.id].status # "none"
            /\ ~IsPartial(pin.id) =>
                 /\ recs'[pin.id].status = recs[pin.id].status /\ recs'[pin.id].pinned = recs[pin.id].pinned
                    /\ recs'[pin.id].hold = recs[pin.id].hold
                 /\ pin.id \in work'.todo => Torn(pin.id)'
                 /\ ~Torn(pin.id)' => recs'[pin.id].key = recs[pin.id].key /\ (pin.key \in held' <=> pin.key \in held)
  PROVE  PinInv'
<1>1. Torn(pin.id) => Torn(pin.id)'
  BY DEF Torn
<1> QED
  BY <1>1 DEF Inv, PinInv, Torn

\* What keeps holds and records in agreement when others step.
LEMMA HoldStays ==
  ASSUME Inv, torn \subseteq torn',
         \A i \in Ids : ~Torn(i) /\ ~Torn(i)' /\ pin'.id # i /\ ~IsPartial(i) =>
            /\ pin.id # i /\ recs'[i].key = recs[i].key /\ recs'[i].hold = recs[i].hold
            /\ recs'[i].status \in {"completed", "deleted"} => recs[i].status \in {"completed", "deleted"}
            /\ recs[i].hold /\ ~(purge'.id = i /\ purge'.pc \in {"archive", "mark"})
               /\ recs[i].key \in held => recs[i].key \in held'
            /\ recs[i].hold /\ purge.id = i /\ purge.pc \in {"archive", "mark"} =>
                 (purge'.id = i /\ purge'.pc \in {"archive", "mark"}) \/ recs[i].key \in held'
            /\ recs[i].status # "none" /\ recs[i].key \in held' => recs[i].key \in held
  PROVE  HoldInv'
<1> SUFFICES ASSUME NEW i \in Ids, ~Torn(i)', pin'.id # i, ~IsPartial(i)
             PROVE  /\ recs'[i].hold /\ ~(purge'.id = i /\ purge'.pc \in {"archive", "mark"}) => recs'[i].key \in held'
                    /\ recs'[i].status \in {"completed", "deleted"} /\ recs'[i].key \in held' => recs'[i].hold
  BY DEF HoldInv, Torn
<1>1. ~Torn(i)
  BY DEF Torn
<1>2. /\ recs[i].hold /\ ~(purge.id = i /\ purge.pc \in {"archive", "mark"}) => recs[i].key \in held
      /\ recs[i].status \in {"completed", "deleted"} /\ recs[i].key \in held => recs[i].hold
  BY <1>1 DEF Inv, HoldInv
<1> QED
  BY <1>1, <1>2

\* A swap is refused for a deleted backup; if its new archive is held, a pin overlapped.
LEMMA RefusedTorn ==
  ASSUME Inv, RemoveNew \/ RemoveNewFails, item.new \in held
  PROVE  Torn(item.id)
<1>1. work.pc \in {"discard", "swap"} /\ (work.pc = "swap" => recs[item.id].status \in {"deleted", "purged"})
  <2>1. work.pc = "discard" \/ (work.pc = "swap" /\ SwapRefused)
    BY DEF RemoveNew, RemoveNewFails
  <2> QED
    BY <2>1, MakingFacts DEF Making, SwapRefused
<1>2. item.id \in Backups /\ item.id \in Ids /\ item.id \in work.todo /\ ~IsPartial(item.id)
  BY <1>1, MakingFacts, IdFacts DEF Making
<1>3. work.pc = "swap"
  BY <1>1 DEF Inv, MovingInv
<1>4. ~Torn(item.id) => recs[item.id].hold
  BY <1>2, <1>3 DEF Inv, MovingInv
<1>5. ~recs[item.id].hold
  BY <1>1, <1>2, <1>3 DEF Inv, PinnedInv
<1> QED
  BY <1>4, <1>5

\* What keeps the re-encryption and the holds as they should be when others step.
LEMMA MovingStays ==
  ASSUME Inv, torn \subseteq torn', work' = work, item' = item,
         \A b \in work.todo : ~Torn(b) /\ ~Torn(b)' => recs'[b].hold = recs[b].hold,
         item.id # 0 => recs'[item.id].key = recs[item.id].key,
         Making => (item.new \in held' <=> item.new \in held),
         item.id # 0 /\ ~Making /\ item.new \in held' /\ recs[item.id].key # item.new => item.new \in held \/ Torn(item.id)
  PROVE  MovingInv'
<1>1. \A b : Torn(b) => <<"hold", Of(b)>> \in torn'
  BY DEF Torn
<1>2. \A b \in work.todo : <<"hold", Of(b)>> \notin torn' => recs'[b].hold = work.seen[b].hold
  BY <1>1 DEF Inv, MovingInv, Torn
<1>3. /\ work.pc \notin {"swap", "persist"} => ~work.held
      /\ work.pc \in {"copy", "hold", "discard"} => item.new \notin held'
      /\ work.pc = "swap" => work.held = work.seen[item.id].hold /\ (item.new \in held' <=> work.held)
  BY DEF Inv, MovingInv, Making
<1>4. item.id # 0 /\ item.new \in held' /\ recs'[item.id].key # item.new /\ work.pc # "swap" => <<"hold", Of(item.id)>> \in torn'
  <2>1. CASE Making
    BY <1>3, <2>1 DEF Making
  <2>2. CASE ~Making
    BY <1>1, <2>2 DEF Inv, MovingInv
  <2> QED
    BY <2>1, <2>2
<1> QED
  BY <1>2, <1>3, <1>4 DEF MovingInv, Torn

-----------------------------------------------------------------------------
(* The parts, one by one. *)

\* RecordKeys is preserved: every record has a key of its own.
LEMMA RecordKeysNext ==
  ASSUME Inv, TypeOK', Next
  PROVE  RecordKeys'
<1> USE DEF Inv
<1>1. CASE KeepsKeys
  <2>1. Last \in Nat /\ Last' \in Nat /\ Last <= Last' /\ \A j \in Ids : recs[j].key \in Nat
    BY LastGrows DEF TypeOK, Records
  <2> QED
    BY <1>1, <2>1, IdFacts DEF KeepsKeys, RecordKeys
<1>2. CASE CleanUp
  <2>1. CASE UNCHANGED recs
    BY <2>1, <1>2 DEF RecordKeys, CleanUp, TypeOK, Jobs, Last
  <2>2. CASE recs[item.id].key # item.new /\ Discard(FALSE)
    <3>1. item.id # 0 /\ FALSE \in BOOLEAN /\ job'.made = job.made
      BY <1>2, CleanUpDoes DEF CleanUp, TypeOK, Jobs
    <3> QED
      BY <2>2, <3>1, PartialKeys
  <2> QED
    BY <1>2, <2>1, <2>2, CleanUpDoes
<1>3. CASE SwapBackupArchive
  <2>1. item.new <= Last /\ item.new # 0 /\ \A j \in Ids : recs[j].key # item.new
    BY <1>3 DEF SwapBackupArchive, WorkInv, ActorKeys, ItemKeys, Making
  <2> DEFINE b == item.id
             t == Tombstone(b)
  <2>2. /\ b \in Backups /\ \A j \in Ids : j \notin {b, t} => Same(j)
        /\ recs'[b].status = recs[b].status /\ recs'[b].key = item.new /\ recs'[t].status = "deleted" /\ recs'[t].key = recs[b].key
    BY <1>3, SwapBackupArchiveDoes
  <2>3. b \in Ids /\ t \in Ids /\ recs[b].status # "none" /\ recs[b].key # 0 /\ t \notin Backups
    BY <2>2, IdFacts DEF RecordKeys
  <2>4. \A j \in Ids : recs'[j].key <= Last /\ (recs'[j].status = "none" <=> recs'[j].key = 0)
    BY <2>1, <2>2, <2>3 DEF RecordKeys, Same
  <2>5. \A j, k \in Ids : recs'[j].key = recs'[k].key /\ recs'[j].key # 0 => j = k
    BY <2>1, <2>2, <2>3 DEF RecordKeys, Same
  <2>6. \A j \in Backups : recs'[j].status # "none"
    BY <2>2, <2>3, IdFacts DEF RecordKeys, Same
  <2>7. Last' = Last
    BY <1>3 DEF SwapBackupArchive, Last
  <2> QED
    BY <2>4, <2>5, <2>6, <2>7 DEF RecordKeys
<1>4. CASE RemoveNew
  <2>1. item.id # 0 /\ Discard(work.held) /\ work.held \in BOOLEAN /\ recs[item.id].key # item.new /\ job'.made = job.made
    BY <1>4, RemoveNewDoes, IdFacts DEF ItemKeys, Making, RemoveNew
  <2> QED
    BY <2>1, PartialKeys
<1> QED
  BY <1>1, <1>2, <1>3, <1>4, KeysWriters

\* StoredKeys is preserved: no archive has a key that was not handed out.
LEMMA StoredKeysNext ==
  ASSUME Inv, TypeOK', Next
  PROVE  StoredKeys'
<1> USE DEF Inv
<1>1. CASE UNCHANGED arch
  <2>1. Last \in Nat /\ Last' \in Nat /\ Last <= Last' /\ \A k \in arch : k \in Nat
    BY LastGrows DEF TypeOK, Keys
  <2>2. arch' \subseteq arch
    BY <1>1
  <2> QED
    BY <2>1, <2>2 DEF StoredKeys
<1>2. CASE PurgeArchive
  <2>1. Last \in Nat /\ Last' \in Nat /\ Last <= Last' /\ \A k \in arch : k \in Nat
    BY LastGrows DEF TypeOK, Keys
  <2>2. arch' \subseteq arch
    BY <1>2 DEF PurgeArchive
  <2> QED
    BY <2>1, <2>2 DEF StoredKeys
<1>3. CASE CleanUp
  <2>1. Last \in Nat /\ Last' \in Nat /\ Last <= Last' /\ \A k \in arch : k \in Nat
    BY LastGrows DEF TypeOK, Keys
  <2>2. arch' \subseteq arch
    BY <1>3, CleanUpDoes, DiscardDoes DEF CleanUp
  <2> QED
    BY <2>1, <2>2 DEF StoredKeys
<1>4. CASE CopyArchive
  <2>1. Last \in Nat /\ Last' \in Nat /\ Last <= Last' /\ \A k \in arch : k \in Nat
    BY LastGrows DEF TypeOK, Keys
  <2>2. arch' \subseteq arch \cup {item.new} /\ item.new <= Last /\ item.new \in Nat
    BY <1>4 DEF CopyArchive, ActorKeys, TypeOK, Jobs, Items, item
  <2> QED
    BY <2>1, <2>2 DEF StoredKeys
<1>5. CASE RemoveNew
  <2>1. Last \in Nat /\ Last' \in Nat /\ Last <= Last' /\ \A k \in arch : k \in Nat
    BY LastGrows DEF TypeOK, Keys
  <2>2. arch' \subseteq arch
    BY <1>5, RemoveNewDoes, DiscardDoes DEF RemoveNew
  <2> QED
    BY <2>1, <2>2 DEF StoredKeys
<1> QED
  BY <1>1, <1>2, <1>3, <1>4, <1>5, ArchWriters

\* ActorKeys is preserved: no actor but the re-encryption knows the new key.
LEMMA ActorKeysNext ==
  ASSUME Inv, TypeOK', Next
  PROVE  ActorKeys'
<1> USE DEF Inv
<1>1. CASE UNCHANGED <<purge, pin, attempt, job, work>>
  <2>1. Last \in Nat /\ Last' \in Nat /\ Last <= Last' /\ {purge.rec.key, pin.key, attempt.key, item.new} \subseteq Nat
        /\ {purge'.rec.key, pin'.key, attempt'.key} \subseteq Nat
    BY LastGrows DEF TypeOK, Purges, Records, Pins, Attempts, Jobs, Items, item
  <2>2. UNCHANGED <<purge, pin, attempt, job, work>>
    BY <1>1
  <2> QED
    BY <2>1, <2>2, MakingFacts DEF ActorKeys, item, Making
<1>2. ASSUME NEW i \in Ids, BeginPin(i) PROVE ActorKeys'
  <2>1. Last \in Nat /\ Last' \in Nat /\ Last <= Last' /\ {purge.rec.key, pin.key, attempt.key, item.new} \subseteq Nat
        /\ {purge'.rec.key, pin'.key, attempt'.key} \subseteq Nat
    BY LastGrows DEF TypeOK, Purges, Records, Pins, Attempts, Jobs, Items, item
  <2>2. UNCHANGED <<purge, attempt, job, work>>
        /\ ((pin'.key <= Last /\ (Making => pin'.key # item.new)) \/ pin'.key \in {0, pin.key})
    BY <1>2, IdFacts DEF BeginPin, NoPin, RecordKeys, ItemKeys
  <2> QED
    BY <2>1, <2>2, MakingFacts DEF ActorKeys, item, Making
<1>3. ASSUME NEW i \in Ids, BeginUnpin(i) PROVE ActorKeys'
  <2>1. Last \in Nat /\ Last' \in Nat /\ Last <= Last' /\ {purge.rec.key, pin.key, attempt.key, item.new} \subseteq Nat
        /\ {purge'.rec.key, pin'.key, attempt'.key} \subseteq Nat
    BY LastGrows DEF TypeOK, Purges, Records, Pins, Attempts, Jobs, Items, item
  <2>2. UNCHANGED <<purge, attempt, job, work>>
        /\ ((pin'.key <= Last /\ (Making => pin'.key # item.new)) \/ pin'.key \in {0, pin.key})
    BY <1>3, IdFacts DEF BeginUnpin, NoPin, RecordKeys, ItemKeys
  <2> QED
    BY <2>1, <2>2, MakingFacts DEF ActorKeys, item, Making
<1>4. CASE RecordPin
  <2>1. Last \in Nat /\ Last' \in Nat /\ Last <= Last' /\ {purge.rec.key, pin.key, attempt.key, item.new} \subseteq Nat
        /\ {purge'.rec.key, pin'.key, attempt'.key} \subseteq Nat
    BY LastGrows DEF TypeOK, Purges, Records, Pins, Attempts, Jobs, Items, item
  <2>2. pin'.key \in {0, pin.key} /\ UNCHANGED <<purge, attempt, job, work>>
    BY <1>4 DEF RecordPin, NoPin
  <2> QED
    BY <2>1, <2>2, MakingFacts DEF ActorKeys, item, Making
<1>5. CASE LiftHold
  <2>1. Last \in Nat /\ Last' \in Nat /\ Last <= Last' /\ {purge.rec.key, pin.key, attempt.key, item.new} \subseteq Nat
        /\ {purge'.rec.key, pin'.key, attempt'.key} \subseteq Nat
    BY LastGrows DEF TypeOK, Purges, Records, Pins, Attempts, Jobs, Items, item
  <2>2. pin'.key \in {0, pin.key} /\ UNCHANGED <<purge, attempt, job, work>>
    BY <1>5 DEF LiftHold, NoPin
  <2> QED
    BY <2>1, <2>2, MakingFacts DEF ActorKeys, item, Making
<1>6. CASE ListDeleted
  <2>1. Last \in Nat /\ Last' \in Nat /\ Last <= Last' /\ {purge.rec.key, pin.key, attempt.key, item.new} \subseteq Nat
        /\ {purge'.rec.key, pin'.key, attempt'.key} \subseteq Nat
    BY LastGrows DEF TypeOK, Purges, Records, Pins, Attempts, Jobs, Items, item
  <2>2. purge'.rec.key \in {0, purge.rec.key} /\ UNCHANGED <<pin, attempt, job, work>>
    BY <1>6 DEF ListDeleted, PurgeRest, NoPurge, NoRec, TypeOK, Purges
  <2> QED
    BY <2>1, <2>2, MakingFacts DEF ActorKeys, item, Making
<1>7. ASSUME NEW i \in Ids, BeginPurge(i) PROVE ActorKeys'
  <2>1. Last \in Nat /\ Last' \in Nat /\ Last <= Last' /\ {purge.rec.key, pin.key, attempt.key, item.new} \subseteq Nat
        /\ {purge'.rec.key, pin'.key, attempt'.key} \subseteq Nat
    BY LastGrows DEF TypeOK, Purges, Records, Pins, Attempts, Jobs, Items, item
  <2>2. UNCHANGED <<pin, attempt, job, work>>
        /\ ((purge'.rec.key <= Last /\ (Making => purge'.rec.key # item.new)) \/ purge'.rec.key \in {0, purge.rec.key})
    BY <1>7, IdFacts DEF BeginPurge, NoPurge, NoRec, RecordKeys, ItemKeys, TypeOK, Purges
  <2> QED
    BY <2>1, <2>2, MakingFacts DEF ActorKeys, item, Making
<1>8. CASE PurgeCopy
  <2>1. Last \in Nat /\ Last' \in Nat /\ Last <= Last' /\ {purge.rec.key, pin.key, attempt.key, item.new} \subseteq Nat
        /\ {purge'.rec.key, pin'.key, attempt'.key} \subseteq Nat
    BY LastGrows DEF TypeOK, Purges, Records, Pins, Attempts, Jobs, Items, item
  <2>2. purge'.rec.key \in {0, purge.rec.key} /\ UNCHANGED <<pin, attempt, job, work>>
    BY <1>8 DEF PurgeCopy, TypeOK, Purges
  <2> QED
    BY <2>1, <2>2, MakingFacts DEF ActorKeys, item, Making
<1>9. CASE RecordCopyPurged
  <2>1. Last \in Nat /\ Last' \in Nat /\ Last <= Last' /\ {purge.rec.key, pin.key, attempt.key, item.new} \subseteq Nat
        /\ {purge'.rec.key, pin'.key, attempt'.key} \subseteq Nat
    BY LastGrows DEF TypeOK, Purges, Records, Pins, Attempts, Jobs, Items, item
  <2>2. purge'.rec.key \in {0, purge.rec.key} /\ UNCHANGED <<pin, attempt, job, work>>
    BY <1>9 DEF RecordCopyPurged, TypeOK, Purges
  <2> QED
    BY <2>1, <2>2, MakingFacts DEF ActorKeys, item, Making
<1>10. CASE LiftTombstone
  <2>1. Last \in Nat /\ Last' \in Nat /\ Last <= Last' /\ {purge.rec.key, pin.key, attempt.key, item.new} \subseteq Nat
        /\ {purge'.rec.key, pin'.key, attempt'.key} \subseteq Nat
    BY LastGrows DEF TypeOK, Purges, Records, Pins, Attempts, Jobs, Items, item
  <2>2. purge'.rec.key \in {0, purge.rec.key} /\ UNCHANGED <<pin, attempt, job, work>>
    BY <1>10 DEF LiftTombstone, TypeOK, Purges
  <2> QED
    BY <2>1, <2>2, MakingFacts DEF ActorKeys, item, Making
<1>11. CASE PurgeArchive
  <2>1. Last \in Nat /\ Last' \in Nat /\ Last <= Last' /\ {purge.rec.key, pin.key, attempt.key, item.new} \subseteq Nat
        /\ {purge'.rec.key, pin'.key, attempt'.key} \subseteq Nat
    BY LastGrows DEF TypeOK, Purges, Records, Pins, Attempts, Jobs, Items, item
  <2>2. purge'.rec.key \in {0, purge.rec.key} /\ UNCHANGED <<pin, attempt, job, work>>
    BY <1>11, PurgeRestFacts DEF PurgeArchive, TypeOK, Purges
  <2> QED
    BY <2>1, <2>2, MakingFacts DEF ActorKeys, item, Making
<1>12. CASE MarkPurged
  <2>1. Last \in Nat /\ Last' \in Nat /\ Last <= Last' /\ {purge.rec.key, pin.key, attempt.key, item.new} \subseteq Nat
        /\ {purge'.rec.key, pin'.key, attempt'.key} \subseteq Nat
    BY LastGrows DEF TypeOK, Purges, Records, Pins, Attempts, Jobs, Items, item
  <2>2. purge'.rec.key \in {0, purge.rec.key} /\ UNCHANGED <<pin, attempt, job, work>>
    BY <1>12 DEF MarkPurged, PurgeRest, NoPurge, NoRec, TypeOK, Purges
  <2> QED
    BY <2>1, <2>2, MakingFacts DEF ActorKeys, item, Making
<1>13. CASE PurgeFails
  <2>1. Last \in Nat /\ Last' \in Nat /\ Last <= Last' /\ {purge.rec.key, pin.key, attempt.key, item.new} \subseteq Nat
        /\ {purge'.rec.key, pin'.key, attempt'.key} \subseteq Nat
    BY LastGrows DEF TypeOK, Purges, Records, Pins, Attempts, Jobs, Items, item
  <2>2. purge'.rec.key \in {0, purge.rec.key} /\ UNCHANGED <<pin, attempt, job, work>>
    BY <1>13 DEF PurgeFails, PurgeRest, NoPurge, NoRec, TypeOK, Purges
  <2> QED
    BY <2>1, <2>2, MakingFacts DEF ActorKeys, item, Making
<1>14. ASSUME NEW i \in Ids, BeginAttempt(i) PROVE ActorKeys'
  <2>1. Last \in Nat /\ Last' \in Nat /\ Last <= Last' /\ {purge.rec.key, pin.key, attempt.key, item.new} \subseteq Nat
        /\ {purge'.rec.key, pin'.key, attempt'.key} \subseteq Nat
    BY LastGrows DEF TypeOK, Purges, Records, Pins, Attempts, Jobs, Items, item
  <2>2. UNCHANGED <<purge, pin, job, work>>
        /\ ((attempt'.key <= Last /\ (Making => attempt'.key # item.new)) \/ attempt'.key \in {0, attempt.key})
    BY <1>14, IdFacts DEF BeginAttempt, NoAttempt, Waiting, CopyInv, Live, RecordKeys, ItemKeys
  <2> QED
    BY <2>1, <2>2, MakingFacts DEF ActorKeys, item, Making
<1>15. CASE Upload
  <2>1. Last \in Nat /\ Last' \in Nat /\ Last <= Last' /\ {purge.rec.key, pin.key, attempt.key, item.new} \subseteq Nat
        /\ {purge'.rec.key, pin'.key, attempt'.key} \subseteq Nat
    BY LastGrows DEF TypeOK, Purges, Records, Pins, Attempts, Jobs, Items, item
  <2>2. attempt'.key \in {0, attempt.key} /\ UNCHANGED <<purge, pin, job, work>>
    BY <1>15 DEF Upload, NoAttempt, TypeOK, Attempts
  <2> QED
    BY <2>1, <2>2, MakingFacts DEF ActorKeys, item, Making
<1>16. CASE RecordAttempt
  <2>1. Last \in Nat /\ Last' \in Nat /\ Last <= Last' /\ {purge.rec.key, pin.key, attempt.key, item.new} \subseteq Nat
        /\ {purge'.rec.key, pin'.key, attempt'.key} \subseteq Nat
    BY LastGrows DEF TypeOK, Purges, Records, Pins, Attempts, Jobs, Items, item
  <2>2. attempt'.key \in {0, attempt.key} /\ UNCHANGED <<purge, pin, job, work>>
    BY <1>16 DEF RecordAttempt, NoAttempt, TypeOK, Attempts
  <2> QED
    BY <2>1, <2>2, MakingFacts DEF ActorKeys, item, Making
<1>17. CASE RemoveUntracked
  <2>1. Last \in Nat /\ Last' \in Nat /\ Last <= Last' /\ {purge.rec.key, pin.key, attempt.key, item.new} \subseteq Nat
        /\ {purge'.rec.key, pin'.key, attempt'.key} \subseteq Nat
    BY LastGrows DEF TypeOK, Purges, Records, Pins, Attempts, Jobs, Items, item
  <2>2. attempt'.key \in {0, attempt.key} /\ UNCHANGED <<purge, pin, job, work>>
    BY <1>17 DEF RemoveUntracked, NoAttempt, TypeOK, Attempts
  <2> QED
    BY <2>1, <2>2, MakingFacts DEF ActorKeys, item, Making
<1>18. CASE Trigger
  <2>1. Last \in Nat /\ Last' \in Nat /\ Last <= Last' /\ {purge.rec.key, pin.key, attempt.key, item.new} \subseteq Nat
        /\ {purge'.rec.key, pin'.key, attempt'.key} \subseteq Nat
    BY LastGrows DEF TypeOK, Purges, Records, Pins, Attempts, Jobs, Items, item
  <2>2. UNCHANGED <<purge, pin, attempt>> /\ item'.new \in {0, item.new} /\ ~Making'
    BY <1>18 DEF Trigger, NoWork, NoItem, actors, TypeOK, Jobs, Works, item, Making
  <2> QED
    BY <2>1, <2>2, MakingFacts DEF ActorKeys
<1>19. CASE Resume
  <2>1. Last \in Nat /\ Last' \in Nat /\ Last <= Last' /\ {purge.rec.key, pin.key, attempt.key, item.new} \subseteq Nat
        /\ {purge'.rec.key, pin'.key, attempt'.key} \subseteq Nat
    BY LastGrows DEF TypeOK, Purges, Records, Pins, Attempts, Jobs, Items, item
  <2>2. UNCHANGED <<purge, pin, attempt>> /\ item'.new \in {0, item.new} /\ ~Making'
    BY <1>19 DEF Resume, NoWork, NoItem, actors, TypeOK, Jobs, Works, item, Making
  <2> QED
    BY <2>1, <2>2, MakingFacts DEF ActorKeys
<1>20. CASE CleanUp
  <2>1. Last \in Nat /\ Last' \in Nat /\ Last <= Last' /\ {purge.rec.key, pin.key, attempt.key} \subseteq Nat
    BY LastGrows DEF TypeOK, Purges, Records, Pins, Attempts
  <2>2. item'.new = 0 /\ work'.pc = "list" /\ UNCHANGED <<purge, pin, attempt>>
    BY <1>20, CleanUpMoves
  <2> QED
    BY <2>1, <2>2 DEF ActorKeys, Making
<1>21. CASE ListBackups
  <2>1. Last \in Nat /\ Last' \in Nat /\ Last <= Last' /\ {purge.rec.key, pin.key, attempt.key, item.new} \subseteq Nat
        /\ {purge'.rec.key, pin'.key, attempt'.key} \subseteq Nat
    BY LastGrows DEF TypeOK, Purges, Records, Pins, Attempts, Jobs, Items, item
  <2>2. UNCHANGED <<purge, pin, attempt>> /\ item'.new \in {0, item.new} /\ ~Making'
    BY <1>21 DEF ListBackups, NoWork, NoItem, actors, TypeOK, Jobs, Works, item, Making
  <2> QED
    BY <2>1, <2>2, MakingFacts DEF ActorKeys
<1>22. ASSUME NEW i \in Ids, Process(i) PROVE ActorKeys'
  <2>1. Last \in Nat /\ Last' \in Nat /\ {purge.rec.key, pin.key, attempt.key, item.new} \subseteq Nat /\ job \in Jobs
    BY LastGrows DEF TypeOK, Purges, Records, Pins, Attempts, Jobs, Items, item
  <2>2. UNCHANGED <<purge, pin, attempt>>
    BY <1>22 DEF Process, actors
  <2>3. job' = [job EXCEPT !.made = @ + 1, !.item = [id |-> i, old |-> work.seen[i].key, new |-> NewKey]]
    BY <1>22 DEF Process
  <2>4. item'.new = NewKey /\ job'.made = job.made + 1
    BY <2>1, <2>3 DEF item, Jobs
  <2>5. Last' = Last + 1 /\ item'.new = Last + 1
    BY <2>1, <2>4, IdFacts DEF Last, NewKey, Jobs
  <2> QED
    BY <2>1, <2>2, <2>5 DEF ActorKeys
<1>23. CASE CopyArchive
  <2>1. Last \in Nat /\ Last' \in Nat /\ Last <= Last' /\ {purge.rec.key, pin.key, attempt.key, item.new} \subseteq Nat
        /\ {purge'.rec.key, pin'.key, attempt'.key} \subseteq Nat
    BY LastGrows DEF TypeOK, Purges, Records, Pins, Attempts, Jobs, Items, item
  <2>2. UNCHANGED <<purge, pin, attempt, job>> /\ Making
    BY <1>23 DEF CopyArchive, actors, Making
  <2> QED
    BY <2>1, <2>2, MakingFacts DEF ActorKeys, item
<1>24. CASE HoldNew
  <2>1. Last \in Nat /\ Last' \in Nat /\ Last <= Last' /\ {purge.rec.key, pin.key, attempt.key, item.new} \subseteq Nat
        /\ {purge'.rec.key, pin'.key, attempt'.key} \subseteq Nat
    BY LastGrows DEF TypeOK, Purges, Records, Pins, Attempts, Jobs, Items, item
  <2>2. UNCHANGED <<purge, pin, attempt, job>> /\ Making
    BY <1>24 DEF HoldNew, actors, Making
  <2> QED
    BY <2>1, <2>2, MakingFacts DEF ActorKeys, item
<1>25. CASE SwapBackupArchive
  <2>1. Last \in Nat /\ Last' \in Nat /\ Last <= Last' /\ {purge.rec.key, pin.key, attempt.key, item.new} \subseteq Nat
        /\ {purge'.rec.key, pin'.key, attempt'.key} \subseteq Nat
    BY LastGrows DEF TypeOK, Purges, Records, Pins, Attempts, Jobs, Items, item
  <2>2. UNCHANGED <<purge, pin, attempt>> /\ item'.new \in {0, item.new} /\ ~Making'
    BY <1>25 DEF SwapBackupArchive, NoWork, NoItem, actors, TypeOK, Jobs, Works, item, Making
  <2> QED
    BY <2>1, <2>2, MakingFacts DEF ActorKeys
<1>26. CASE RemoveNew
  <2>1. Last \in Nat /\ Last' \in Nat /\ Last <= Last' /\ {purge.rec.key, pin.key, attempt.key, item.new} \subseteq Nat
        /\ {purge'.rec.key, pin'.key, attempt'.key} \subseteq Nat
    BY LastGrows DEF TypeOK, Purges, Records, Pins, Attempts, Jobs, Items, item
  <2>2. UNCHANGED <<purge, pin, attempt>> /\ item'.new \in {0, item.new} /\ ~Making'
    BY <1>26 DEF RemoveNew, NoWork, NoItem, actors, TypeOK, Jobs, Works, item, Making
  <2> QED
    BY <2>1, <2>2, MakingFacts DEF ActorKeys
<1>27. CASE Persist
  <2>1. Last \in Nat /\ Last' \in Nat /\ Last <= Last' /\ {purge.rec.key, pin.key, attempt.key, item.new} \subseteq Nat
        /\ {purge'.rec.key, pin'.key, attempt'.key} \subseteq Nat
    BY LastGrows DEF TypeOK, Purges, Records, Pins, Attempts, Jobs, Items, item
  <2>2. UNCHANGED <<purge, pin, attempt>> /\ item'.new \in {0, item.new} /\ ~Making'
    BY <1>27 DEF Persist, NoWork, NoItem, actors, TypeOK, Jobs, Works, item, Making
  <2> QED
    BY <2>1, <2>2, MakingFacts DEF ActorKeys
<1>28. CASE Finish
  <2>1. Last \in Nat /\ Last' \in Nat /\ Last <= Last' /\ {purge.rec.key, pin.key, attempt.key, item.new} \subseteq Nat
        /\ {purge'.rec.key, pin'.key, attempt'.key} \subseteq Nat
    BY LastGrows DEF TypeOK, Purges, Records, Pins, Attempts, Jobs, Items, item
  <2>2. UNCHANGED <<purge, pin, attempt>> /\ item'.new \in {0, item.new} /\ ~Making'
    BY <1>28 DEF Finish, NoWork, NoItem, actors, TypeOK, Jobs, Works, item, Making
  <2> QED
    BY <2>1, <2>2, MakingFacts DEF ActorKeys
<1>29. CASE Crash
  <2>1. Last \in Nat /\ Last' \in Nat /\ Last <= Last' /\ item.new \in Nat
    BY LastGrows DEF TypeOK, Jobs, Items, item
  <2>2. purge'.rec.key = 0 /\ pin'.key = 0 /\ attempt'.key = 0 /\ item' = item /\ ~Making'
    BY <1>29 DEF Crash, NoPurge, NoRec, NoPin, NoAttempt, NoWork, Making, item
  <2> QED
    BY <2>1, <2>2 DEF ActorKeys
<1>30. CASE FailJob
  <2>1. ~Making' /\ Last' = Last
    BY <1>30, FailJobMoves DEF Making, Last
  <2> QED
    BY <1>30, <2>1, FailJobMoves DEF ActorKeys
<1>31. CASE RemoveNewFails
  <2>1. ~Making' /\ Last' = Last
    BY <1>31, RemoveNewFailsMoves DEF Making, Last
  <2> QED
    BY <1>31, <2>1, RemoveNewFailsMoves DEF ActorKeys
<1> QED
  BY <1>1, <1>2, <1>3, <1>4, <1>5, <1>6, <1>7, <1>8, <1>9, <1>10, <1>11, <1>12, <1>13, <1>14, <1>15, <1>16, <1>17,
     <1>18, <1>19, <1>20, <1>21, <1>22, <1>23, <1>24, <1>25, <1>26, <1>27, <1>28, <1>29, <1>30, <1>31, PurgeWriters, PinWriters,
     AttemptWriters, JobWriters, WorkWriters

\* WorkInv is preserved: the re-encryption works on one listed backup at a time.
LEMMA WorkInvNext ==
  ASSUME Inv, TypeOK', Next
  PROVE  WorkInv'
<1> USE DEF Inv
<1>1. CASE UNCHANGED <<job, work>>
  BY <1>1 DEF WorkInv, Making, item
<1>2. CASE Trigger
  BY <1>2
     DEF Trigger, NoWork, Jobs, Items, Works, TypeOK, storage, actors, WorkInv, Making, item, NoItem
<1>3. CASE Resume
  BY <1>3
     DEF Resume, NoWork, Works, TypeOK, storage, actors, WorkInv, Making, item, NoItem
<1>4. CASE CleanUp
  <2>1. job' = [job EXCEPT !.item = NoItem] \/ job' = [job EXCEPT !.item = NoItem, !.finished = @ \cup {item.id}]
    BY <1>4 DEF CleanUp
  <2>2. item' = NoItem /\ job'.status = job.status /\ work'.pc = "list" /\ work'.todo = work.todo /\ work.pc = "cleanup"
    BY <1>4, <2>1 DEF CleanUp, TypeOK, Jobs, Works, item
  <2> QED
    BY <2>2 DEF WorkInv, Making, NoItem
<1>5. CASE ListBackups
  BY <1>5
     DEF ListBackups, Works, TypeOK, storage, actors, WorkInv, Making, item, NoItem
<1>6. ASSUME NEW i \in Ids, Process(i) PROVE WorkInv'
  <2>1. item' = [id |-> i, old |-> work.seen[i].key, new |-> NewKey] /\ job'.status = job.status
    BY <1>6 DEF Process, TypeOK, Jobs, item
  <2>2. work'.pc = "copy" /\ work'.todo = work.todo /\ work'.seen = work.seen /\ work.pc = "next" /\ i \in work.todo
    BY <1>6 DEF Process, TypeOK, Works
  <2> QED
    BY <2>1, <2>2, IdFacts DEF WorkInv, Making, NoItem
<1>7. CASE CopyArchive
  BY <1>7
     DEF CopyArchive, Happens, Works, TypeOK, storage, actors, WorkInv, Making, item, NoItem
<1>8. CASE HoldNew
  BY <1>8
     DEF HoldNew, Works, TypeOK, storage, actors, WorkInv, Making, item, NoItem
<1>9. CASE SwapBackupArchive
  BY <1>9, SwapBackupArchiveDoes
     DEF SwapBackupArchive, Works, TypeOK, storage, actors, WorkInv, Making, item, NoItem
<1>10. CASE RemoveNew
  BY <1>10, RemoveNewDoes, DiscardDoes
     DEF RemoveNew, Works, TypeOK, storage, actors, WorkInv, Making, item, NoItem
<1>11. CASE Persist
  BY <1>11
     DEF Persist, Jobs, Items, Works, TypeOK, storage, actors, WorkInv, Making, item, NoItem
<1>12. CASE Finish
  BY <1>12
     DEF Finish, NoWork, Jobs, Items, Works, TypeOK, storage, actors, WorkInv, Making, item, NoItem
<1>13. CASE Crash
  BY <1>13
     DEF Crash, Happens, NoPurge, NoPin, NoAttempt, NoWork, Purges, Pins, Attempts, Works, TypeOK, storage, actors,
         WorkInv, Making, item, NoItem
<1>14. CASE FailJob
  BY <1>14, FailJobMoves DEF WorkInv, Making
<1>15. CASE RemoveNewFails
  BY <1>15, RemoveNewFailsMoves, MakingFacts DEF WorkInv, Making
<1> QED
  BY <1>1, <1>2, <1>3, <1>4, <1>5, <1>6, <1>7, <1>8, <1>9, <1>10, <1>11, <1>12, <1>13, <1>14, <1>15, JobWriters, WorkWriters

\* ItemKeys is preserved: no other record has the key of the new archive.
LEMMA ItemKeysNext ==
  ASSUME Inv, TypeOK', Next
  PROVE  ItemKeys'
<1> USE DEF Inv
<1>1. CASE KeepsKeys /\ UNCHANGED <<job, work, arch, purge>>
  BY <1>1 DEF KeepsKeys, ItemKeys, Making, item
<1>2. CASE ListDeleted
  <2>1. UNCHANGED <<recs, arch, job, work>> /\ (purge'.id # 0 => purge'.id = purge.id /\ purge'.rec = purge.rec)
    BY <1>2, PurgeRestFacts DEF ListDeleted, NoPurge, storage
  <2> QED
    BY <2>1 DEF ItemKeys, Making, item
<1>3. ASSUME NEW i \in Ids, BeginPurge(i) PROVE ItemKeys'
  <2>1. UNCHANGED <<recs, arch, job, work>> /\ (purge'.id = 0 \/ (purge'.id = i /\ purge'.rec = recs[i]))
    BY <1>3 DEF BeginPurge, PurgeInv, NoPurge, storage, TypeOK, Purges
  <2> QED
    BY <2>1 DEF ItemKeys, Making, item
<1>4. CASE PurgeCopy
  <2>1. UNCHANGED <<recs, arch, job, work>> /\ (purge'.id # 0 => purge'.id = purge.id /\ purge'.rec = purge.rec)
    BY <1>4, PurgeMoves DEF PurgeCopy, storage
  <2> QED
    BY <2>1 DEF ItemKeys, Making, item
<1>5. CASE RecordCopyPurged
  <2>1. KeepsKeys /\ UNCHANGED <<arch, job, work>> /\ (purge'.id # 0 => purge'.id = purge.id /\ purge'.rec = purge.rec)
    BY <1>5, RecordCopyPurgedDoes, PurgeMoves DEF RecordCopyPurged, storage, KeepsKeys, Same
  <2> QED
    BY <2>1 DEF ItemKeys, Making, item, KeepsKeys
<1>6. CASE LiftTombstone
  <2>1. UNCHANGED <<recs, arch, job, work>> /\ (purge'.id # 0 => purge'.id = purge.id /\ purge'.rec = purge.rec)
    BY <1>6, PurgeMoves DEF LiftTombstone, storage
  <2> QED
    BY <2>1 DEF ItemKeys, Making, item
<1>7. CASE PurgeArchive
  <2>1. Making => purge.rec.key # item.new
    BY DEF ActorKeys
  <2>2. UNCHANGED <<recs, job, work>> /\ (arch' = arch \/ arch' = arch \ {purge.rec.key})
    BY <1>7 DEF PurgeArchive
  <2>3. purge'.id # 0 => purge'.id = purge.id /\ purge'.rec = purge.rec
    BY <1>7, PurgeMoves
  <2> QED
    BY <2>1, <2>2, <2>3 DEF ItemKeys, Making, item
<1>8. CASE MarkPurged
  <2>1. KeepsKeys /\ UNCHANGED <<arch, job, work>> /\ (purge'.id # 0 => purge'.id = purge.id /\ purge'.rec = purge.rec)
    BY <1>8, MarkPurgedDoes, PurgeRestFacts DEF MarkPurged, storage, KeepsKeys, Same, PurgeDue
  <2> QED
    BY <2>1 DEF ItemKeys, Making, item, KeepsKeys
<1>9. CASE PurgeFails
  <2>1. UNCHANGED <<recs, arch, job, work>> /\ (purge'.id # 0 => purge'.id = purge.id /\ purge'.rec = purge.rec)
    BY <1>9, PurgeRestFacts DEF PurgeFails, NoPurge, storage
  <2> QED
    BY <2>1 DEF ItemKeys, Making, item
<1>10. CASE Trigger
  BY <1>10
     DEF Trigger, NoWork, Jobs, Items, Works, TypeOK, storage, actors, ItemKeys, Making, item
<1>11. CASE Resume
  BY <1>11
     DEF Resume, NoWork, Works, TypeOK, storage, actors, ItemKeys, Making, item
<1>12. CASE CleanUp
  BY <1>12, CleanUpMoves DEF ItemKeys, Making
<1>13. CASE ListBackups
  BY <1>13
     DEF ListBackups, Works, TypeOK, storage, actors, ItemKeys, Making, item
<1>14. ASSUME NEW i \in Ids, Process(i) PROVE ItemKeys'
  <2>1. (\A j \in Ids : recs[j].key <= Last /\ recs[j].key \in Nat) /\ purge.rec.key <= Last /\ purge.rec.key \in Nat
    BY DEF RecordKeys, ActorKeys, TypeOK, Records, Purges
  <2> QED
    BY <1>14, <2>1, ProcessMoves, IdFacts DEF ItemKeys, Making
<1>15. CASE CopyArchive
  BY <1>15
     DEF CopyArchive, Happens, Works, TypeOK, storage, actors, ItemKeys, Making, item
<1>16. CASE HoldNew
  BY <1>16
     DEF HoldNew, Works, TypeOK, storage, actors, ItemKeys, Making, item
<1>17. CASE SwapBackupArchive
  <2>1. item.new # 0 /\ \A j \in Ids : recs[j].key # item.new
    BY <1>17, SwapMoves, MakingFacts DEF ItemKeys
  <2> DEFINE b == item.id
             t == Tombstone(b)
  <2>2. b \in Backups /\ recs'[t].key = recs[b].key /\ \A j \in Ids : j \notin {b, t} => Same(j)
    BY <1>17, SwapBackupArchiveDoes
  <2>3. \A j \in Ids : recs'[j].key = item.new => j = b
    BY <2>1, <2>2, IdFacts DEF Same
  <2> QED
    BY <1>17, <2>3, SwapMoves DEF ItemKeys, Making
<1>18. CASE RemoveNew
  <2>1. item.new # 0 /\ \A j \in Ids : recs[j].key # item.new
    BY <1>18, SwapMoves, MakingFacts DEF ItemKeys
  <2>2. \A j \in Ids : j # Partial(item.id) => Same(j)
    BY <1>18, RemoveNewDoes, DiscardDoes
  <2>3. \A j \in Ids : recs'[j].key = item.new => j = Partial(item.id)
    BY <2>1, <2>2 DEF Same
  <2> QED
    BY <1>18, <2>3, SwapMoves DEF ItemKeys, Making
<1>19. CASE Persist
  BY <1>19, PersistMoves DEF ItemKeys, Making
<1>20. CASE Finish
  BY <1>20
     DEF Finish, NoWork, Jobs, Items, Works, TypeOK, storage, actors, ItemKeys, Making, item
<1>21. CASE Crash
  <2>1. UNCHANGED <<recs, arch, job>> /\ purge'.id = 0 /\ work'.pc = "off"
    BY <1>21 DEF Crash, NoPurge, NoWork, storage
  <2> QED
    BY <2>1 DEF ItemKeys, Making, item
<1>22. CASE FailJob
  BY <1>22, FailJobMoves DEF ItemKeys, Making
<1>23. CASE RemoveNewFails
  BY <1>23, RemoveNewFailsMoves DEF ItemKeys, Making
<1> QED
  BY <1>1, <1>2, <1>3, <1>4, <1>5, <1>6, <1>7, <1>8, <1>9, <1>10, <1>11, <1>12, <1>13, <1>14, <1>15, <1>16, <1>17,
     <1>18, <1>19, <1>20, <1>21, <1>22, <1>23, KeysWriters, JobWriters, WorkWriters, ArchWriters, PurgeWriters

\* TodoInv is preserved: what is still to be moved was not moved.
LEMMA TodoInvNext ==
  ASSUME Inv, TypeOK', Next
  PROVE  TodoInv'
<1> USE DEF Inv
<1>1. CASE KeepsKeys /\ UNCHANGED <<job, work>>
  BY <1>1, IdFacts DEF KeepsKeys, TodoInv, TypeOK, Works
<1>2. CASE Trigger
  BY <1>2
     DEF Trigger, NoWork, Jobs, Items, Works, TypeOK, storage, actors, TodoInv
<1>3. CASE Resume
  BY <1>3
     DEF Resume, NoWork, Works, TypeOK, storage, actors, TodoInv
<1>4. CASE CleanUp
  BY <1>4, CleanUpMoves DEF TodoInv
<1>5. CASE ListBackups
  <2>1. \A b \in work'.todo : recs[Tombstone(b)].status = "none"
    BY <1>5, ListBackupsMoves, IdFacts DEF MovedInv
  <2> QED
    BY <1>5, <2>1, ListBackupsMoves DEF TodoInv
<1>6. ASSUME NEW i \in Ids, Process(i) PROVE TodoInv'
  BY <1>6, ProcessMoves DEF TodoInv
<1>7. CASE CopyArchive
  BY <1>7
     DEF CopyArchive, Happens, Works, TypeOK, storage, actors, TodoInv
<1>8. CASE HoldNew
  BY <1>8
     DEF HoldNew, Works, TypeOK, storage, actors, TodoInv
<1>9. CASE SwapBackupArchive
  <2> DEFINE b == item.id
             t == Tombstone(b)
  <2>1. b \in Backups /\ \A j \in Ids : j \notin {b, t} => Same(j)
    BY <1>9, SwapBackupArchiveDoes
  <2>2. \A c \in work.todo \ {b} : c \in Backups /\ Same(c) /\ Same(Tombstone(c))
    BY <2>1, IdFacts DEF TypeOK, Works
  <2> QED
    BY <1>9, <2>2, SwapMoves DEF TodoInv, Same
<1>10. CASE RemoveNew
  <2>1. item.id \in Backups /\ \A j \in Ids : j # Partial(item.id) => Same(j)
    BY <1>10, RemoveNewDoes, DiscardDoes
  <2>2. \A c \in work.todo \ {item.id} : c \in Backups /\ Same(c) /\ Same(Tombstone(c))
    BY <2>1, IdFacts DEF TypeOK, Works
  <2> QED
    BY <1>10, <2>2, SwapMoves DEF TodoInv, Same
<1>11. CASE Persist
  <2>1. item.id \notin work.todo /\ \A c \in work.todo : c \in Ids
    BY <1>11, PersistMoves, IdFacts DEF WorkInv, TypeOK, Works
  <2> QED
    BY <1>11, <2>1, PersistMoves DEF TodoInv
<1>12. CASE Finish
  BY <1>12
     DEF Finish, NoWork, Jobs, Items, Works, TypeOK, storage, actors, TodoInv
<1>13. CASE Crash
  BY <1>13
     DEF Crash, Happens, NoPurge, NoPin, NoAttempt, NoWork, Purges, Pins, Attempts, Works, TypeOK, storage, actors,
         TodoInv
<1>14. CASE FailJob
  BY <1>14, FailJobMoves DEF TodoInv
<1>15. CASE RemoveNewFails
  BY <1>15, RemoveNewFailsMoves DEF TodoInv
<1> QED
  BY <1>1, <1>2, <1>3, <1>4, <1>5, <1>6, <1>7, <1>8, <1>9, <1>10, <1>11, <1>12, <1>13, <1>14, <1>15, KeysWriters, JobWriters,
     WorkWriters

\* MovedInv is preserved: a tombstone is of a moved backup.
LEMMA MovedInvNext ==
  ASSUME Inv, TypeOK', Next
  PROVE  MovedInv'
<1> USE DEF Inv
<1>1. CASE KeepsKeys /\ UNCHANGED job
  BY <1>1, IdFacts DEF KeepsKeys, MovedInv, item
<1>2. CASE Trigger
  BY <1>2
     DEF Trigger, NoWork, Jobs, Items, Works, TypeOK, storage, actors, MovedInv, item
<1>3. CASE CleanUp
  <2>1. \A b \in Backups : recs'[Tombstone(b)].status = recs[Tombstone(b)].status
    BY <1>3, CleanUpMoves, DiscardDoes, IdFacts DEF Same
  <2> QED
    BY <1>3, <2>1, CleanUpMoves DEF MovedInv
<1>4. ASSUME NEW i \in Ids, Process(i) PROVE MovedInv'
  BY <1>4, ProcessMoves, IdFacts DEF MovedInv
<1>5. CASE SwapBackupArchive
  <2> DEFINE b == item.id
             t == Tombstone(b)
  <2>1. b \in Backups /\ recs'[b].key = item.new /\ \A j \in Ids : j \notin {b, t} => Same(j)
    BY <1>5, SwapBackupArchiveDoes
  <2>2. \A c \in Backups \ {b} : Same(c) /\ Same(Tombstone(c))
    BY <2>1, IdFacts
  <2> QED
    BY <1>5, <2>1, <2>2, SwapMoves DEF MovedInv, Same
<1>6. CASE RemoveNew
  <2>1. item.id \in Backups /\ \A j \in Ids : j # Partial(item.id) => Same(j)
    BY <1>6, RemoveNewDoes, DiscardDoes
  <2>2. \A c \in Backups : Same(c) /\ Same(Tombstone(c))
    BY <2>1, IdFacts
  <2> QED
    BY <1>6, <2>2, SwapMoves DEF MovedInv, Same
<1>7. CASE Persist
  BY <1>7, PersistMoves DEF MovedInv
<1>8. CASE Finish
  BY <1>8
     DEF Finish, NoWork, Jobs, Items, Works, TypeOK, storage, actors, MovedInv, item
<1>9. CASE FailJob
  BY <1>9, FailJobMoves DEF MovedInv
<1> QED
  BY <1>1, <1>2, <1>3, <1>4, <1>5, <1>6, <1>7, <1>8, <1>9, KeysWriters, JobWriters

\* PurgeInv is preserved: the record under the purge is as it was read.
LEMMA PurgeInvNext ==
  ASSUME Inv, TypeOK', Next
  PROVE  PurgeInv'
<1> USE DEF Inv
<1>1. CASE KeepsKeys /\ KeepsCopies /\ KeepsHolds /\ KeepsStatus /\ UNCHANGED purge
  BY <1>1, IdFacts DEF KeepsKeys, KeepsCopies, KeepsHolds, KeepsStatus, PurgeInv, TypeOK, Purges
<1>2. ASSUME NEW i \in Ids, DeleteBackup(i) PROVE PurgeInv'
  <2>1. purge.id = 0 /\ purge' = purge
    BY <1>2 DEF DeleteBackup, DeletionLockFree, actors
  <2>2. purge'.id = 0 /\ purge'.pc \in {"idle", "next"}
    BY <2>1 DEF PurgeInv, TypeOK, Purges
  <2> QED
    BY <2>2, PurgeAway
<1>3. ASSUME NEW i \in Ids, UndeleteBackup(i) PROVE PurgeInv'
  <2>1. purge.id = 0 /\ purge' = purge
    BY <1>3 DEF UndeleteBackup, DeletionLockFree, actors
  <2>2. purge'.id = 0 /\ purge'.pc \in {"idle", "next"}
    BY <2>1 DEF PurgeInv, TypeOK, Purges
  <2> QED
    BY <2>2, PurgeAway
<1>4. ASSUME NEW i \in Ids, BeginUnpin(i) PROVE PurgeInv'
  <2>1. purge.id = 0 /\ purge' = purge
    BY <1>4 DEF BeginUnpin, DeletionLockFree, actors
  <2>2. purge'.id = 0 /\ purge'.pc \in {"idle", "next"}
    BY <2>1 DEF PurgeInv, TypeOK, Purges
  <2> QED
    BY <2>2, PurgeAway
<1>5. ASSUME NEW i \in Ids, NEW s \in {"failed", "done"}, Requeue(i, s) PROVE PurgeInv'
  <2>0. recs[i].copy \in Copies
    BY DEF TypeOK, Records
  <2>1. KeepsRead
    BY ZenonT(60), <1>5, <2>0, RequeueDoes DEF KeepsRead, Same, Copies
  <2>2. purge' = purge
    BY <1>5 DEF Requeue, actors
  <2>3. CASE purge.id = 0
    <3>1. purge'.id = 0 /\ purge'.pc \in {"idle", "next"}
      BY <2>2, <2>3 DEF PurgeInv, TypeOK, Purges
    <3> QED
      BY <3>1, PurgeAway
  <2>4. CASE purge.id # 0
    <3>1. purge.pc \in Busy /\ (purge.pc = "record" => Live(purge.rec.copy))
      BY <2>4 DEF PurgeInv, Busy
    <3> QED
      BY <2>1, <2>2, <2>4, <3>1, PurgeFrozen
  <2> QED
    BY <2>3, <2>4
<1>6. CASE RecordPin
  <2>1. purge.id = 0 /\ purge' = purge
    BY <1>6 DEF RecordPin, PinInv
  <2>2. purge'.id = 0 /\ purge'.pc \in {"idle", "next"}
    BY <2>1 DEF PurgeInv, TypeOK, Purges
  <2> QED
    BY <2>2, PurgeAway
<1>7. CASE LiftHold
  <2>1. purge.id = 0 /\ purge' = purge
    BY <1>7 DEF LiftHold, PinInv
  <2>2. purge'.id = 0 /\ purge'.pc \in {"idle", "next"}
    BY <2>1 DEF PurgeInv, TypeOK, Purges
  <2> QED
    BY <2>2, PurgeAway
<1>8. CASE PruneNext
  <2>1. purge.id = 0 /\ purge' = purge
    BY <1>8 DEF PruneNext, DeletionLockFree, actors
  <2>2. purge'.id = 0 /\ purge'.pc \in {"idle", "next"}
    BY <2>1 DEF PurgeInv, TypeOK, Purges
  <2> QED
    BY <2>2, PurgeAway
<1>9. CASE ListDeleted
  <2>1. purge'.id = 0 /\ purge'.pc = "next"
    BY <1>9 DEF ListDeleted, NoPurge
  <2> QED
    BY <2>1, PurgeAway
<1>10. ASSUME NEW i \in Ids, BeginPurge(i) PROVE PurgeInv'
  <2> DEFINE rest == [purge EXCEPT !.todo = @ \ {i}]
  <2>1. purge \in Purges /\ purge.pc = "next" /\ purge.id = 0 /\ recs[i] \in Records /\ UNCHANGED recs
    BY <1>10 DEF BeginPurge, PurgeInv, TypeOK
  <2>2. CASE purge' \in {NoPurge, rest}
    <3>1. purge'.id = 0 /\ purge'.pc \in {"idle", "next"}
      BY <2>1, <2>2 DEF NoPurge, Purges
    <3> QED
      BY <3>1, PurgeAway
  <2>3. CASE PurgeDue(recs[i]) /\ purge' = [rest EXCEPT !.pc = "copies", !.id = i, !.rec = recs[i]]
    <3>1. purge'.pc = "copies" /\ purge'.id = i /\ purge'.rec = recs[i]
      BY <2>1, <2>3 DEF Purges
    <3>2. i # 0 /\ recs[i].status = "deleted" /\ recs[i].due /\ ~recs[i].pinned
      BY <2>3, IdFacts DEF PurgeDue
    <3>3. recs[i].key # 0 /\ (\A j \in Ids : recs[j].key = recs[i].key => j = i)
          /\ (Live(recs[i].copy) => recs[i].copy.key = recs[i].key)
          /\ (IsPartial(i) => recs[i].copy.status = "none")
      BY <3>2 DEF RecordKeys, CopyInv
    <3> QED
      BY <2>1, <3>1, <3>2, <3>3 DEF PurgeInv
  <2> QED
    BY <1>10, <2>2, <2>3 DEF BeginPurge
<1>11. CASE PurgeCopy
  <2>1. purge.id \in Ids /\ purge.pc \in Busy /\ purge.id # 0 /\ purge'.pc \in Busy /\ purge'.id = purge.id
        /\ purge'.rec = purge.rec /\ Live(purge.rec.copy)
    BY <1>11, IdFacts, PurgeMoves DEF PurgeCopy, MayExist, Live, TypeOK, Purges, Busy
  <2>2. KeepsRead
    BY <1>11 DEF PurgeCopy, KeepsRead
  <2> QED
    BY <2>1, <2>2, PurgeFrozen
<1>12. CASE RecordCopyPurged
  <2>1. purge.id \in Ids /\ purge.pc \in Busy /\ purge.id # 0 /\ purge'.pc \in Busy /\ purge'.id = purge.id
        /\ purge'.rec = purge.rec /\ purge'.pc = "lift"
    BY <1>12, IdFacts, PurgeMoves DEF RecordCopyPurged, TypeOK, Purges, Busy
  <2>2. KeepsRead
    BY <1>12, RecordCopyPurgedDoes DEF RecordCopyPurged, KeepsRead, Same, TypeOK, Records, Copies
  <2> QED
    BY <2>1, <2>2, PurgeFrozen
<1>13. CASE LiftTombstone
  <2>1. purge.id \in Ids /\ purge.pc \in Busy /\ purge.id # 0 /\ purge'.pc \in Busy /\ purge'.id = purge.id
        /\ purge'.rec = purge.rec /\ purge'.pc = "archive"
    BY <1>13, IdFacts, PurgeMoves DEF LiftTombstone, TypeOK, Purges, Busy
  <2>2. KeepsRead
    BY <1>13 DEF LiftTombstone, KeepsRead
  <2> QED
    BY <2>1, <2>2, PurgeFrozen
<1>14. CASE PurgeArchive
  <2>1. CASE purge' = [purge EXCEPT !.pc = "mark"]
    <3>1. purge.id \in Ids /\ purge.pc \in Busy /\ purge.id # 0 /\ purge'.pc = "mark" /\ purge'.id = purge.id
          /\ purge'.rec = purge.rec
      BY <1>14, <2>1, IdFacts, PurgeMoves DEF TypeOK, Purges
    <3>2. KeepsRead
      BY <1>14 DEF PurgeArchive, KeepsRead
    <3> QED
      BY <3>1, <3>2, PurgeFrozen DEF Busy
  <2>2. CASE purge' = PurgeRest
    BY <2>2, PurgeRestFacts, PurgeAway
  <2> QED
    BY <1>14, <2>1, <2>2 DEF PurgeArchive
<1>15. CASE MarkPurged
  BY <1>15, PurgeRestFacts, PurgeAway DEF MarkPurged
<1>16. CASE PurgeFails
  BY <1>16, PurgeRestFacts, PurgeAway DEF PurgeFails
<1>17. CASE RecordAttempt
  <2>1. KeepsRead
    BY <1>17, RecordAttemptDoes DEF KeepsRead, Same
  <2>2. purge' = purge
    BY <1>17 DEF RecordAttempt, actors
  <2>3. CASE purge.id = 0
    <3>1. purge'.id = 0 /\ purge'.pc \in {"idle", "next"}
      BY <2>2, <2>3 DEF PurgeInv, TypeOK, Purges
    <3> QED
      BY <3>1, PurgeAway
  <2>4. CASE purge.id # 0
    <3>1. purge.pc \in Busy /\ (purge.pc = "record" => Live(purge.rec.copy))
      BY <2>4 DEF PurgeInv, Busy
    <3> QED
      BY <2>1, <2>2, <2>4, <3>1, PurgeFrozen
  <2> QED
    BY <2>3, <2>4
<1>18. CASE CleanUp
  <2>1. CASE UNCHANGED recs
    <3>1. KeepsRead /\ purge' = purge
      BY <1>18, <2>1, CleanUpMoves DEF KeepsRead
    <3>2. CASE purge.id = 0
      <4>1. purge'.id = 0 /\ purge'.pc \in {"idle", "next"}
        BY <3>1, <3>2 DEF PurgeInv, TypeOK, Purges
      <4> QED
        BY <4>1, PurgeAway
    <3>3. CASE purge.id # 0
      <4>1. purge.pc \in Busy /\ (purge.pc = "record" => Live(purge.rec.copy))
        BY <3>3 DEF PurgeInv, Busy
      <4> QED
        BY <3>1, <3>3, <4>1, PurgeFrozen
    <3> QED
      BY <3>2, <3>3
  <2>2. CASE recs[item.id].key # item.new /\ Discard(FALSE)
    <3>1. item.id # 0 /\ purge' = purge
      BY <1>18, CleanUpMoves
    <3> QED
      BY <2>2, <3>1, PurgePartial
  <2> QED
    BY <1>18, <2>1, <2>2, CleanUpMoves
<1>19. CASE SwapBackupArchive
  <2> DEFINE b == item.id
             t == Tombstone(b)
  <2>1. /\ b \in Backups /\ recs[b].status \notin {"deleted", "purged"} /\ recs[t].status = "none" /\ \A j \in Ids : j \notin {b, t} => Same(j)
        /\ recs'[b].key = item.new /\ recs'[t].key = recs[b].key
    BY <1>19, SwapBackupArchiveDoes
  <2>2. purge' = purge /\ purge.rec.key # item.new
    BY <1>19, SwapMoves DEF ActorKeys
  <2>3. CASE purge.id = 0
    <3>1. purge'.id = 0 /\ purge'.pc \in {"idle", "next"}
      BY <2>2, <2>3 DEF PurgeInv, TypeOK, Purges
    <3> QED
      BY <3>1, PurgeAway
  <2>4. CASE purge.id # 0
    <3> DEFINE d == purge.id
               r == purge.rec
    <3>1. d \in Ids /\ PurgeInv /\ purge.pc \in Busy /\ d \notin {b, t} /\ recs[b].key # r.key
      BY <2>1, <2>4, IdFacts DEF TypeOK, Purges, PurgeInv, Busy
    <3>2. /\ r.status = "deleted" /\ r.due /\ ~r.pinned /\ r.key # 0 /\ (Live(r.copy) => r.copy.key = r.key)
          /\ (IsPartial(d) => r.copy.status = "none") /\ (purge.pc = "record" => Live(r.copy))
      BY <2>4 DEF PurgeInv
    <3>3. Same(d) /\ recs'[d].status # "none"
      BY <2>1, <2>4, <3>1 DEF PurgeInv, Same
    <3>4. \A j \in Ids : recs'[j].key = r.key => j = d
      BY <2>1, <2>2, <2>4, <3>1 DEF PurgeInv, Same
    <3>5. ASSUME ~IsPartial(d)
          PROVE  /\ recs'[d].status = "deleted" /\ recs'[d].due /\ ~recs'[d].pinned
                 /\ recs'[d].key = r.key /\ recs'[d].hold = r.hold /\ recs'[d].copy.key = r.copy.key
      BY <2>4, <3>1, <3>3, <3>5 DEF PurgeInv, Same
    <3> HIDE DEF d, r
    <3> QED
      BY <2>2, <2>4, <3>1, <3>2, <3>3, <3>4, <3>5 DEF PurgeInv, Busy, d, r
  <2> QED
    BY <2>3, <2>4
<1>20. CASE RemoveNew
  <2>1. item.id # 0 /\ purge' = purge /\ recs[item.id].key # item.new /\ Discard(work.held) /\ work.held \in BOOLEAN
    BY <1>20, RemoveNewDoes, SwapMoves, MakingFacts
  <2> QED
    BY <2>1, PurgePartial
<1>21. ASSUME NEW i \in Ids, TimePasses(i) PROVE PurgeInv'
  <2>1. purge' = purge
    BY <1>21 DEF TimePasses, actors
  <2>2. CASE purge.id = 0
    <3>1. purge'.id = 0 /\ purge'.pc \in {"idle", "next"}
      BY <2>1, <2>2 DEF PurgeInv, TypeOK, Purges
    <3> QED
      BY <3>1, PurgeAway
  <2>3. CASE purge.id # 0
    <3> DEFINE d == purge.id
               r == purge.rec
    <3>1. d \in Ids /\ PurgeInv /\ purge.pc \in Busy
      BY <2>3 DEF TypeOK, Purges, PurgeInv, Busy
    <3>2. /\ r.status = "deleted" /\ r.due /\ ~r.pinned /\ r.key # 0 /\ (Live(r.copy) => r.copy.key = r.key)
          /\ (IsPartial(d) => r.copy.status = "none") /\ (purge.pc = "record" => Live(r.copy))
      BY <2>3 DEF PurgeInv
    <3>3. recs'[d].status # "none" /\ \A j \in Ids : recs'[j].key = r.key => j = d
      BY ZenonT(60), <1>21, <2>3, <3>1, TimePassesDoes DEF PurgeInv, Same
    <3>5. ASSUME ~IsPartial(d)
          PROVE  /\ recs'[d].status = "deleted" /\ recs'[d].due /\ ~recs'[d].pinned
                 /\ recs'[d].key = r.key /\ recs'[d].hold = r.hold /\ recs'[d].copy.key = r.copy.key
      BY <1>21, <2>3, <3>1, <3>5, TimePassesDoes DEF PurgeInv, Same
    <3> HIDE DEF d, r
    <3> QED
      BY <2>1, <2>3, <3>1, <3>2, <3>3, <3>5 DEF PurgeInv, Busy, d, r
  <2> QED
    BY <2>2, <2>3
<1>22. CASE Crash
  <2>1. purge'.id = 0 /\ purge'.pc = "idle"
    BY <1>22 DEF Crash, NoPurge
  <2> QED
    BY <2>1, PurgeAway
<1> QED
  BY <1>1, <1>2, <1>3, <1>4, <1>5, <1>6, <1>7, <1>8, <1>9, <1>10, <1>11, <1>12, <1>13, <1>14, <1>15, <1>16, <1>17,
     <1>18, <1>19, <1>20, <1>21, <1>22, KeysWriters, CopyWriters, HoldWriters, StatusWriters, PurgeWriters

\* CopyInv is preserved: a live copy is under the key of its record.
LEMMA CopyInvNext ==
  ASSUME Inv, TypeOK', Next
  PROVE  CopyInv'
<1> USE DEF Inv
<1>1. CASE KeepsKeys /\ KeepsCopies
  BY <1>1 DEF KeepsKeys, KeepsCopies, CopyInv, Live
<1>2. ASSUME NEW i \in Ids, NEW s \in {"failed", "done"}, Requeue(i, s) PROVE CopyInv'
  <2>0. recs[i].copy \in Copies /\ recs[i].copy.status \in {"failed", "done"} /\ recs[i].status = "completed"
    BY <1>2 DEF Requeue, TypeOK, Records
  <2>1. /\ (\A j \in Ids : j # i => Same(j)) /\ recs'[i].copy.status = "pending" /\ recs'[i].copy.key = recs[i].copy.key /\ recs'[i].copy.tries = 0
        /\ recs'[i].status = recs[i].status /\ recs'[i].key = recs[i].key
    <3>1. /\ (\A j \in Ids : j # i => Same(j)) /\ recs'[i].copy = [recs[i].copy EXCEPT !.status = "pending", !.tries = 0]
          /\ recs'[i].status = recs[i].status /\ recs'[i].key = recs[i].key
      BY <1>2, RequeueDoes, Zenon
    <3> QED
      BY <2>0, <3>1 DEF Copies
  <2> QED
    BY <2>0, <2>1 DEF CopyInv, Live, Same
<1>3. CASE RecordCopyPurged
  <2>0. purge.id \in Ids /\ recs[purge.id].copy \in Copies /\ ~IsPartial(purge.id) /\ recs[purge.id].status = "deleted"
        /\ purge.pc = "record" /\ recs[purge.id].copy.key = purge.rec.copy.key /\ Live(purge.rec.copy)
    BY <1>3, RecordCopyPurgedDoes DEF RecordCopyPurged, TypeOK, Records, PurgeInv, Live
  <2>1. /\ (\A j \in Ids : j # purge.id => Same(j)) /\ recs'[purge.id].copy.status = "purged"
        /\ recs'[purge.id].copy.key = recs[purge.id].copy.key
        /\ recs'[purge.id].status = recs[purge.id].status /\ recs'[purge.id].key = recs[purge.id].key
    BY <1>3, <2>0, RecordCopyPurgedDoes DEF Copies
  <2> QED
    BY <2>0, <2>1 DEF CopyInv, Live, Same
<1>4. CASE RecordAttempt
  <2> DEFINE d == attempt.id
             r == recs[d].copy
  <2>0. d \in Ids /\ attempt.pc = "record" /\ (\A j \in Ids : j # d => Same(j))
    BY <1>4, RecordAttemptDoes
  <2>1. CASE Same(d) /\ CopyGone(r)
        /\ attempt' = (IF attempt.result # "error" THEN [attempt EXCEPT !.pc = "untracked"] ELSE NoAttempt)
    BY <2>0, <2>1 DEF CopyInv, Live, Same
  <2>2. CASE /\ ~CopyGone(r) /\ attempt' = NoAttempt /\ recs'[d].status = recs[d].status /\ recs'[d].key = recs[d].key
             /\ recs'[d].copy.key = r.key
             /\ ((recs'[d].copy.status = "done" /\ attempt.result = "ok") \/ recs'[d].copy.status = "failed")
    <3>1. Waiting(r)
      BY <2>0, <2>2 DEF AttemptInv
    <3> QED
      BY <2>0, <2>2, <3>1 DEF CopyInv, Live, Same, Waiting
  <2> QED
    BY <1>4, <2>1, <2>2, RecordAttemptDoes
<1>5. CASE CleanUp
  <2>1. UNCHANGED <<held, copies, purge, pin, attempt, torn>> /\ item.id # 0
    BY <1>5, CleanUpMoves
  <2>2. CASE UNCHANGED recs
    BY <2>1, <2>2 DEF CopyInv, Live
  <2>3. CASE Discard(FALSE)
    <3> DEFINE c == Partial(item.id)
    <3>0. /\ item.id \in Backups /\ c \in Ids /\ IsPartial(c) /\ (\A j \in Ids : j # c => Same(j))
          /\ (Same(c) \/ (recs'[c].status = "deleted" /\ recs'[c].key = item.new /\ recs'[c].copy = NoCopy))
      BY <2>1, <2>3, DiscardDoes, IdFacts
    <3>1. recs[c].copy.status = "none" /\ recs'[c].copy.status = "none"
      BY <3>0 DEF CopyInv, NoCopy, Same
    <3> QED
      BY <2>1, <3>0, <3>1 DEF CopyInv, Live, Same
  <2> QED
    BY <1>5, <2>2, <2>3, CleanUpMoves
<1>6. CASE SwapBackupArchive
  <2> DEFINE b == item.id
             t == Tombstone(b)
  <2>0. /\ b \in Backups /\ recs[b].status \notin {"deleted", "purged"} /\ recs[t].status = "none" /\ (\A j \in Ids : j \notin {b, t} => Same(j))
        /\ recs'[b].status = recs[b].status /\ recs'[b].key = item.new /\ recs'[b].copy = RequeueCopies(recs[b].copy)
        /\ recs'[t].status = "deleted" /\ recs'[t].key = recs[b].key /\ recs'[t].copy = recs[b].copy
    BY <1>6, SwapBackupArchiveDoes
  <2>1. b \in Ids /\ t \in Ids /\ t # b /\ ~IsPartial(b) /\ ~IsPartial(t) /\ recs[b].status # "none" /\ recs[t].copy.status = "none"
    BY <2>0, IdFacts DEF RecordKeys, CopyInv
  <2>2. item' = item /\ work'.pc = "persist" /\ UNCHANGED <<held, copies, purge, pin, attempt, torn>> /\ Making
    BY <1>6, SwapMoves
  <2> QED
    BY <2>0, <2>1, RequeueFacts DEF CopyInv, Live, Same
<1>7. CASE RemoveNew
  <2> DEFINE c == Partial(item.id)
  <2>0. /\ item.id \in Backups /\ c \in Ids /\ IsPartial(c) /\ (\A j \in Ids : j # c => Same(j))
        /\ (Same(c) \/ (recs'[c].status = "deleted" /\ recs'[c].key = item.new /\ recs'[c].copy = NoCopy))
    BY <1>7, RemoveNewDoes, DiscardDoes, IdFacts
  <2>1. recs[c].copy.status = "none" /\ recs'[c].copy.status = "none"
    BY <2>0 DEF CopyInv, NoCopy, Same
  <2>2. UNCHANGED <<held, copies, purge, pin, attempt, torn>>
    BY <1>7, SwapMoves
  <2> QED
    BY <2>0, <2>1 DEF CopyInv, Live, Same
<1> QED
  BY <1>1, <1>2, <1>3, <1>4, <1>5, <1>6, <1>7, KeysWriters, CopyWriters

\* AttemptInv is preserved: the object that is uploaded is named and not yet done.
LEMMA AttemptInvNext ==
  ASSUME Inv, TypeOK', Next
  PROVE  AttemptInv'
<1> USE DEF Inv
<1>1. CASE KeepsKeys /\ KeepsCopies /\ UNCHANGED <<attempt, purge, copies>>
  BY <1>1, IdFacts DEF KeepsKeys, KeepsCopies, AttemptInv, Named, CopyGone, TypeOK, Attempts
<1>2. ASSUME NEW i \in Ids, NEW s \in {"failed", "done"}, Requeue(i, s) PROVE AttemptInv'
  <2>0. recs[i].copy \in Copies /\ recs[i].copy.status \in {"failed", "done"} /\ recs[i].status = "completed"
    BY <1>2 DEF Requeue, TypeOK, Records
  <2>1. /\ (\A j \in Ids : j # i => Same(j)) /\ recs'[i].copy.status = "pending" /\ recs'[i].copy.key = recs[i].copy.key /\ recs'[i].copy.tries = 0
        /\ recs'[i].status = recs[i].status /\ recs'[i].key = recs[i].key
    <3>1. /\ (\A j \in Ids : j # i => Same(j)) /\ recs'[i].copy = [recs[i].copy EXCEPT !.status = "pending", !.tries = 0]
          /\ recs'[i].status = recs[i].status /\ recs'[i].key = recs[i].key
      BY <1>2, RequeueDoes, Zenon
    <3> QED
      BY <2>0, <3>1 DEF Copies
  <2>20. attempt' = attempt /\ copies' = copies /\ purge'.pc \in {purge.pc, "mark", "lift", "idle", "next", "archive"}
        /\ (purge'.pc = "record" => purge'.rec = purge.rec)
    BY <1>2 DEF Requeue, storage, actors
  <2>21. ASSUME attempt.pc # "idle"
         PROVE  /\ recs'[attempt.id].status # "none" /\ (\E j \in Ids : Live(recs'[j].copy) /\ recs'[j].copy.key = attempt.key)
                /\ (\A j \in Ids : recs'[j].copy.key = attempt.key => recs'[j].copy.status # "done")
                /\ (attempt.pc # "untracked" /\ ~CopyGone(recs'[attempt.id].copy) => Waiting(recs'[attempt.id].copy))
    <3> USE <2>21
    <3>1. attempt.id \in Ids /\ recs[attempt.id].status # "none" /\ attempt.key # 0
      BY DEF AttemptInv, TypeOK, Attempts
    <3>2. PICK n \in Ids : Live(recs[n].copy) /\ recs[n].copy.key = attempt.key
      BY DEF AttemptInv, Named
    <3>3. Live(recs'[n].copy) /\ recs'[n].copy.key = attempt.key
      BY <2>0, <2>1, <3>2 DEF Same, Live
    <3>4. (\A j \in Ids : recs'[j].copy.key = attempt.key => recs'[j].copy.status # "done") /\ recs'[attempt.id].status # "none"
      BY <2>0, <2>1, <3>1 DEF Same, AttemptInv
    <3>5. attempt.pc # "untracked" /\ ~CopyGone(recs'[attempt.id].copy) => Waiting(recs'[attempt.id].copy)
      BY <2>0, <2>1, <3>1 DEF Same, AttemptInv, CopyGone, Waiting
    <3> QED
      BY <3>3, <3>4, <3>5
  <2> QED
    BY <2>20, <2>21, AttemptStays
<1>3. CASE ListDeleted
  BY <1>3, IdFacts
     DEF ListDeleted, NoPurge, Purges, TypeOK, storage, actors, AttemptInv, Named, Live, CopyGone
<1>4. ASSUME NEW i \in Ids, BeginPurge(i) PROVE AttemptInv'
  BY <1>4, IdFacts
     DEF BeginPurge, NoPurge, Purges, TypeOK, storage, actors, AttemptInv, Named, Live, CopyGone
<1>5. CASE PurgeCopy
  <2>1. /\ attempt' = attempt /\ recs' = recs /\ purge'.pc = "record" /\ purge'.rec = purge.rec /\ ~CopyLocked(purge.rec.copy.key)
        /\ copies' = copies \ {purge.rec.copy.key}
    BY <1>5, PurgeMoves DEF PurgeCopy, TypeOK, Purges
  <2>2. attempt.pc # "idle" => attempt.key # purge.rec.copy.key
    BY <2>1 DEF CopyLocked
  <2> QED
    BY <2>1, <2>2 DEF AttemptInv, Named, CopyGone
<1>6. CASE RecordCopyPurged
  <2>0. purge.id \in Ids /\ recs[purge.id].copy \in Copies /\ ~IsPartial(purge.id) /\ recs[purge.id].status = "deleted"
        /\ purge.pc = "record" /\ recs[purge.id].copy.key = purge.rec.copy.key /\ Live(purge.rec.copy)
    BY <1>6, RecordCopyPurgedDoes DEF RecordCopyPurged, TypeOK, Records, PurgeInv, Live
  <2>1. /\ (\A j \in Ids : j # purge.id => Same(j)) /\ recs'[purge.id].copy.status = "purged"
        /\ recs'[purge.id].copy.key = recs[purge.id].copy.key
        /\ recs'[purge.id].status = recs[purge.id].status /\ recs'[purge.id].key = recs[purge.id].key
    BY <1>6, <2>0, RecordCopyPurgedDoes DEF Copies
  <2>20. attempt' = attempt /\ copies' = copies /\ purge'.pc \in {purge.pc, "mark", "lift", "idle", "next", "archive"}
        /\ (purge'.pc = "record" => purge'.rec = purge.rec)
    BY <1>6, PurgeMoves DEF RecordCopyPurged, storage, TypeOK, Purges
  <2>21. ASSUME attempt.pc # "idle"
         PROVE  /\ recs'[attempt.id].status # "none" /\ (\E j \in Ids : Live(recs'[j].copy) /\ recs'[j].copy.key = attempt.key)
                /\ (\A j \in Ids : recs'[j].copy.key = attempt.key => recs'[j].copy.status # "done")
                /\ (attempt.pc # "untracked" /\ ~CopyGone(recs'[attempt.id].copy) => Waiting(recs'[attempt.id].copy))
    <3> USE <2>21
    <3>1. attempt.id \in Ids /\ recs[attempt.id].status # "none" /\ attempt.key # 0
      BY DEF AttemptInv, TypeOK, Attempts
    <3>2. PICK n \in Ids : Live(recs[n].copy) /\ recs[n].copy.key = attempt.key
      BY DEF AttemptInv, Named
    <3>0. attempt.key # recs[purge.id].copy.key
      BY <2>0 DEF AttemptInv
    <3>3. n # purge.id /\ Live(recs'[n].copy) /\ recs'[n].copy.key = attempt.key
      BY <2>0, <2>1, <3>0, <3>2 DEF Same
    <3>4. (\A j \in Ids : recs'[j].copy.key = attempt.key => recs'[j].copy.status # "done") /\ recs'[attempt.id].status # "none"
      BY <2>0, <2>1, <3>1 DEF Same, AttemptInv
    <3>5. attempt.pc # "untracked" /\ ~CopyGone(recs'[attempt.id].copy) => Waiting(recs'[attempt.id].copy)
      BY <2>0, <2>1, <3>0, <3>1 DEF Same, AttemptInv, CopyGone
    <3> QED
      BY <3>3, <3>4, <3>5
  <2> QED
    BY <2>20, <2>21, AttemptStays
<1>7. CASE LiftTombstone
  BY <1>7, IdFacts
     DEF LiftTombstone, Purges, TypeOK, storage, actors, AttemptInv, Named, Live, CopyGone
<1>8. CASE PurgeArchive
  <2>20. attempt' = attempt /\ copies' = copies /\ recs' = recs /\ purge'.pc # "record"
    BY <1>8, PurgeRestFacts DEF PurgeArchive, TypeOK, Purges
  <2> QED
    BY <2>20 DEF AttemptInv, Named, CopyGone
<1>9. CASE MarkPurged
  <2>1. KeepsCopies /\ (\A j \in Ids : recs[j].status # "none" => recs'[j].status # "none")
    BY <1>9, MarkPurgedDoes DEF KeepsCopies, Same
  <2>2. attempt' = attempt /\ copies' = copies /\ purge'.pc # "record" /\ (attempt.id # 0 => attempt.id \in Ids)
    BY <1>9, PurgeRestFacts DEF MarkPurged, storage, TypeOK, Attempts
  <2> QED
    BY <2>1, <2>2 DEF KeepsCopies, AttemptInv, Named, CopyGone
<1>10. CASE PurgeFails
  BY <1>10, IdFacts
     DEF PurgeFails, Happens, PurgeRest, NoPurge, Purges, TypeOK, storage, actors, AttemptInv, Named, Live, CopyGone
<1>11. ASSUME NEW i \in Ids, BeginAttempt(i) PROVE AttemptInv'
  <2>1. /\ UNCHANGED <<recs, copies, purge>> /\ recs[i].status = "completed" /\ Live(recs[i].copy) /\ recs[i].copy.status # "done"
        /\ attempt'.pc = "upload" /\ attempt'.id = i /\ attempt'.key = recs[i].copy.key /\ Waiting(recs[i].copy)
    BY <1>11 DEF BeginAttempt, storage, NoAttempt, Waiting, Live
  <2>2. i # 0 /\ recs[i].copy.key = recs[i].key /\ recs[i].key # 0
    BY <2>1, IdFacts DEF CopyInv, RecordKeys
  <2>3. \A j \in Ids : recs[j].copy.key = recs[i].copy.key => recs[j].copy.status # "done"
    BY <2>1, <2>2 DEF CopyInv, Live, RecordKeys
  <2>4. purge.pc = "record" => recs[i].copy.key # purge.rec.copy.key
    BY <2>1, <2>2 DEF PurgeInv, Live
  <2> QED
    BY <2>1, <2>2, <2>3, <2>4 DEF AttemptInv, Named, CopyGone
<1>12. CASE Upload
  BY <1>12, IdFacts
     DEF Upload, Happens, Attempts, TypeOK, storage, actors, AttemptInv, Named, Live, CopyGone
<1>13. CASE RecordAttempt
  BY <1>13, RecordAttemptDoes, IdFacts
     DEF RecordAttempt, NoAttempt, Attempts, Same, TypeOK, storage, actors, AttemptInv, Named, Live, CopyGone
<1>14. CASE RemoveUntracked
  BY <1>14, IdFacts
     DEF RemoveUntracked, NoAttempt, Attempts, TypeOK, storage, actors, AttemptInv, Named, Live, CopyGone
<1>15. CASE CleanUp
  <2>1. UNCHANGED <<held, copies, purge, pin, attempt, torn>> /\ item.id # 0
    BY <1>15, CleanUpMoves
  <2>2. CASE UNCHANGED recs
    BY <2>1, <2>2 DEF AttemptInv, Named, CopyGone
  <2>3. CASE Discard(FALSE)
    <3> DEFINE c == Partial(item.id)
    <3>0. /\ item.id \in Backups /\ c \in Ids /\ IsPartial(c) /\ (\A j \in Ids : j # c => Same(j))
          /\ (Same(c) \/ (recs'[c].status = "deleted" /\ recs'[c].key = item.new /\ recs'[c].copy = NoCopy))
      BY <2>1, <2>3, DiscardDoes, IdFacts
    <3>1. recs[c].copy.status = "none" /\ recs'[c].copy.status = "none"
      BY <3>0 DEF CopyInv, NoCopy, Same
    <3>2. UNCHANGED <<held, copies, purge, pin, attempt, torn>>
      BY <2>1
    <3>20. attempt' = attempt /\ copies' = copies /\ purge'.pc \in {purge.pc, "mark", "lift", "idle", "next", "archive"}
          /\ (purge'.pc = "record" => purge'.rec = purge.rec)
      BY <3>2
    <3>21. ASSUME attempt.pc # "idle"
           PROVE  /\ recs'[attempt.id].status # "none" /\ (\E j \in Ids : Live(recs'[j].copy) /\ recs'[j].copy.key = attempt.key)
                  /\ (\A j \in Ids : recs'[j].copy.key = attempt.key => recs'[j].copy.status # "done")
                  /\ (attempt.pc # "untracked" /\ ~CopyGone(recs'[attempt.id].copy) => Waiting(recs'[attempt.id].copy))
      <4> USE <3>21
      <4>1. attempt.id \in Ids /\ recs[attempt.id].status # "none" /\ attempt.key # 0
        BY DEF AttemptInv, TypeOK, Attempts
      <4>2. PICK n \in Ids : Live(recs[n].copy) /\ recs[n].copy.key = attempt.key
        BY DEF AttemptInv, Named
      <4>3. n # c /\ Live(recs'[n].copy) /\ recs'[n].copy.key = attempt.key
        BY <3>0, <3>1, <4>2 DEF Same, Live
      <4>4. (\A j \in Ids : recs'[j].copy.key = attempt.key => recs'[j].copy.status # "done") /\ recs'[attempt.id].status # "none"
        BY <3>0, <3>1, <4>1 DEF Same, AttemptInv
      <4>5. attempt.pc # "untracked" /\ ~CopyGone(recs'[attempt.id].copy) => Waiting(recs'[attempt.id].copy)
        BY <3>0, <3>1, <4>1 DEF Same, AttemptInv, CopyGone, NoCopy
      <4> QED
        BY <4>3, <4>4, <4>5
    <3> QED
      BY <3>20, <3>21, AttemptStays
  <2> QED
    BY <1>15, <2>2, <2>3, CleanUpMoves
<1>16. CASE SwapBackupArchive
  <2> DEFINE b == item.id
             t == Tombstone(b)
  <2>0. /\ b \in Backups /\ recs[b].status \notin {"deleted", "purged"} /\ recs[t].status = "none" /\ (\A j \in Ids : j \notin {b, t} => Same(j))
        /\ recs'[b].status = recs[b].status /\ recs'[b].key = item.new /\ recs'[b].copy = RequeueCopies(recs[b].copy)
        /\ recs'[t].status = "deleted" /\ recs'[t].key = recs[b].key /\ recs'[t].copy = recs[b].copy
    BY <1>16, SwapBackupArchiveDoes
  <2>1. b \in Ids /\ t \in Ids /\ t # b /\ ~IsPartial(b) /\ ~IsPartial(t) /\ recs[b].status # "none" /\ recs[t].copy.status = "none"
    BY <2>0, IdFacts DEF RecordKeys, CopyInv
  <2>2. item' = item /\ work'.pc = "persist" /\ UNCHANGED <<held, copies, purge, pin, attempt, torn>> /\ Making
    BY <1>16, SwapMoves
  <2>20. attempt' = attempt /\ copies' = copies /\ purge'.pc \in {purge.pc, "mark", "lift", "idle", "next", "archive"}
        /\ (purge'.pc = "record" => purge'.rec = purge.rec)
    BY <2>2
  <2>21. ASSUME attempt.pc # "idle"
         PROVE  /\ recs'[attempt.id].status # "none" /\ (\E j \in Ids : Live(recs'[j].copy) /\ recs'[j].copy.key = attempt.key)
                /\ (\A j \in Ids : recs'[j].copy.key = attempt.key => recs'[j].copy.status # "done")
                /\ (attempt.pc # "untracked" /\ ~CopyGone(recs'[attempt.id].copy) => Waiting(recs'[attempt.id].copy))
    <3> USE <2>21
    <3>1. attempt.id \in Ids /\ recs[attempt.id].status # "none" /\ attempt.key # 0
      BY DEF AttemptInv, TypeOK, Attempts
    <3>2. PICK n \in Ids : Live(recs[n].copy) /\ recs[n].copy.key = attempt.key
      BY DEF AttemptInv, Named
    <3>3. \E j \in Ids : Live(recs'[j].copy) /\ recs'[j].copy.key = attempt.key
      <4>1. CASE n = b
        BY <2>0, <2>1, <3>2, <4>1
      <4>2. CASE n # b
        <5>1. n # t
          BY <2>1, <3>2 DEF Live
        <5> QED
          BY <2>0, <3>2, <4>2, <5>1 DEF Same
      <4> QED
        BY <4>1, <4>2
    <3>4. (\A j \in Ids : recs'[j].copy.key = attempt.key => recs'[j].copy.status # "done") /\ recs'[attempt.id].status # "none"
      BY <2>0, <2>1, <3>1, RequeueFacts DEF Same, AttemptInv
    <3>5. attempt.pc # "untracked" /\ ~CopyGone(recs'[attempt.id].copy) => Waiting(recs'[attempt.id].copy)
      BY <2>0, <2>1, <3>1, RequeueFacts DEF Same, AttemptInv, CopyGone, Waiting
    <3> QED
      BY <3>3, <3>4, <3>5
  <2> QED
    BY <2>20, <2>21, AttemptStays
<1>17. CASE RemoveNew
  <2> DEFINE c == Partial(item.id)
  <2>0. /\ item.id \in Backups /\ c \in Ids /\ IsPartial(c) /\ (\A j \in Ids : j # c => Same(j))
        /\ (Same(c) \/ (recs'[c].status = "deleted" /\ recs'[c].key = item.new /\ recs'[c].copy = NoCopy))
    BY <1>17, RemoveNewDoes, DiscardDoes, IdFacts
  <2>1. recs[c].copy.status = "none" /\ recs'[c].copy.status = "none"
    BY <2>0 DEF CopyInv, NoCopy, Same
  <2>2. UNCHANGED <<held, copies, purge, pin, attempt, torn>>
    BY <1>17, SwapMoves
  <2>20. attempt' = attempt /\ copies' = copies /\ purge'.pc \in {purge.pc, "mark", "lift", "idle", "next", "archive"}
        /\ (purge'.pc = "record" => purge'.rec = purge.rec)
    BY <2>2
  <2>21. ASSUME attempt.pc # "idle"
         PROVE  /\ recs'[attempt.id].status # "none" /\ (\E j \in Ids : Live(recs'[j].copy) /\ recs'[j].copy.key = attempt.key)
                /\ (\A j \in Ids : recs'[j].copy.key = attempt.key => recs'[j].copy.status # "done")
                /\ (attempt.pc # "untracked" /\ ~CopyGone(recs'[attempt.id].copy) => Waiting(recs'[attempt.id].copy))
    <3> USE <2>21
    <3>1. attempt.id \in Ids /\ recs[attempt.id].status # "none" /\ attempt.key # 0
      BY DEF AttemptInv, TypeOK, Attempts
    <3>2. PICK n \in Ids : Live(recs[n].copy) /\ recs[n].copy.key = attempt.key
      BY DEF AttemptInv, Named
    <3>3. n # c /\ Live(recs'[n].copy) /\ recs'[n].copy.key = attempt.key
      BY <2>0, <2>1, <3>2 DEF Same, Live
    <3>4. (\A j \in Ids : recs'[j].copy.key = attempt.key => recs'[j].copy.status # "done") /\ recs'[attempt.id].status # "none"
      BY <2>0, <2>1, <3>1 DEF Same, AttemptInv
    <3>5. attempt.pc # "untracked" /\ ~CopyGone(recs'[attempt.id].copy) => Waiting(recs'[attempt.id].copy)
      BY <2>0, <2>1, <3>1 DEF Same, AttemptInv, CopyGone, NoCopy
    <3> QED
      BY <3>3, <3>4, <3>5
  <2> QED
    BY <2>20, <2>21, AttemptStays
<1>18. CASE Crash
  BY <1>18, IdFacts
     DEF Crash, Happens, NoPurge, NoPin, NoAttempt, NoWork, Purges, Pins, Attempts, Works, TypeOK, storage, actors,
         AttemptInv, Named, Live, CopyGone
<1> QED
  BY <1>1, <1>2, <1>3, <1>4, <1>5, <1>6, <1>7, <1>8, <1>9, <1>10, <1>11, <1>12, <1>13, <1>14, <1>15, <1>16, <1>17,
     <1>18, KeysWriters, CopyWriters, AttemptWriters, PurgeWriters, CopiesWriters

\* ObjectsInv is preserved: every object is named.
LEMMA ObjectsInvNext ==
  ASSUME Inv, TypeOK', Next
  PROVE  ObjectsInv'
<1> USE DEF Inv
<1>1. CASE KeepsCopies /\ UNCHANGED <<attempt, purge, copies>>
  BY <1>1 DEF KeepsCopies, ObjectsInv, Named
<1>2. ASSUME NEW i \in Ids, NEW s \in {"failed", "done"}, Requeue(i, s) PROVE ObjectsInv'
  <2>0. recs[i].copy \in Copies /\ recs[i].copy.status \in {"failed", "done"} /\ recs[i].status = "completed"
    BY <1>2 DEF Requeue, TypeOK, Records
  <2>1. /\ (\A j \in Ids : j # i => Same(j)) /\ recs'[i].copy.status = "pending" /\ recs'[i].copy.key = recs[i].copy.key /\ recs'[i].copy.tries = 0
        /\ recs'[i].status = recs[i].status /\ recs'[i].key = recs[i].key
    <3>1. /\ (\A j \in Ids : j # i => Same(j)) /\ recs'[i].copy = [recs[i].copy EXCEPT !.status = "pending", !.tries = 0]
          /\ recs'[i].status = recs[i].status /\ recs'[i].key = recs[i].key
      BY <1>2, RequeueDoes, Zenon
    <3> QED
      BY <2>0, <3>1 DEF Copies
  <2>20. copies' = copies /\ (purge'.pc # "record" \/ (purge.pc = "record" /\ purge'.rec = purge.rec))
    BY <1>2 DEF Requeue, storage, actors
  <2>21. \A n \in Ids : Live(recs[n].copy) /\ recs[n].copy.key \in copies => \E j \in Ids : Live(recs'[j].copy)
         /\ recs'[j].copy.key = recs[n].copy.key
    BY <2>0, <2>1 DEF Same, Live
  <2> QED
    BY <2>20, <2>21, ObjectsStay
<1>3. CASE ListDeleted
  BY <1>3
     DEF ListDeleted, NoPurge, Purges, TypeOK, storage, actors, ObjectsInv, Named
<1>4. ASSUME NEW i \in Ids, BeginPurge(i) PROVE ObjectsInv'
  BY <1>4
     DEF BeginPurge, NoPurge, Purges, TypeOK, storage, actors, ObjectsInv, Named
<1>5. CASE PurgeCopy
  BY <1>5
     DEF PurgeCopy, Purges, TypeOK, storage, actors, ObjectsInv, Named
<1>6. CASE RecordCopyPurged
  <2>0. purge.id \in Ids /\ recs[purge.id].copy \in Copies /\ ~IsPartial(purge.id) /\ recs[purge.id].status = "deleted"
        /\ purge.pc = "record" /\ recs[purge.id].copy.key = purge.rec.copy.key /\ Live(purge.rec.copy)
    BY <1>6, RecordCopyPurgedDoes DEF RecordCopyPurged, TypeOK, Records, PurgeInv, Live
  <2>1. /\ (\A j \in Ids : j # purge.id => Same(j)) /\ recs'[purge.id].copy.status = "purged"
        /\ recs'[purge.id].copy.key = recs[purge.id].copy.key
        /\ recs'[purge.id].status = recs[purge.id].status /\ recs'[purge.id].key = recs[purge.id].key
    BY <1>6, <2>0, RecordCopyPurgedDoes DEF Copies
  <2>20. copies' = copies /\ (purge'.pc # "record" \/ (purge.pc = "record" /\ purge'.rec = purge.rec))
    BY <1>6, PurgeMoves DEF RecordCopyPurged, storage, TypeOK, Purges
  <2>21. \A n \in Ids : Live(recs[n].copy) /\ recs[n].copy.key \in copies => \E j \in Ids : Live(recs'[j].copy)
         /\ recs'[j].copy.key = recs[n].copy.key
    <3>1. recs[purge.id].copy.key \notin copies
      BY <2>0 DEF ObjectsInv
    <3> QED
      BY <2>0, <2>1, <3>1 DEF Same
  <2> QED
    BY <2>20, <2>21, ObjectsStay
<1>7. CASE LiftTombstone
  BY <1>7
     DEF LiftTombstone, Purges, TypeOK, storage, actors, ObjectsInv, Named
<1>8. CASE PurgeArchive
  <2>20. copies' = copies /\ (purge'.pc # "record" \/ (purge.pc = "record" /\ purge'.rec = purge.rec))
    BY <1>8, PurgeRestFacts DEF PurgeArchive, TypeOK, Purges
  <2>21. \A n \in Ids : Live(recs[n].copy) /\ recs[n].copy.key \in copies => \E j \in Ids : Live(recs'[j].copy)
         /\ recs'[j].copy.key = recs[n].copy.key
    BY <1>8 DEF PurgeArchive
  <2> QED
    BY <2>20, <2>21, ObjectsStay
<1>9. CASE MarkPurged
  <2>1. KeepsCopies
    BY <1>9, MarkPurgedDoes DEF KeepsCopies, Same
  <2>20. copies' = copies /\ (purge'.pc # "record" \/ (purge.pc = "record" /\ purge'.rec = purge.rec))
    BY <1>9, PurgeRestFacts DEF MarkPurged, storage
  <2>21. \A n \in Ids : Live(recs[n].copy) /\ recs[n].copy.key \in copies => \E j \in Ids : Live(recs'[j].copy)
         /\ recs'[j].copy.key = recs[n].copy.key
    BY <2>1 DEF KeepsCopies
  <2> QED
    BY <2>20, <2>21, ObjectsStay
<1>10. CASE PurgeFails
  BY <1>10
     DEF PurgeFails, Happens, PurgeRest, NoPurge, Purges, TypeOK, storage, actors, ObjectsInv, Named
<1>11. ASSUME NEW i \in Ids, BeginAttempt(i) PROVE ObjectsInv'
  BY <1>11
     DEF BeginAttempt, NoAttempt, Attempts, TypeOK, storage, actors, ObjectsInv, Named
<1>12. CASE Upload
  <2>1. copies' \subseteq copies \cup {attempt.key} /\ UNCHANGED <<recs, purge>> /\ attempt.pc # "idle"
    BY <1>12 DEF Upload
  <2> QED
    BY <2>1 DEF ObjectsInv, AttemptInv, Named
<1>13. CASE RecordAttempt
  <2>0. attempt.id \in Ids /\ attempt.pc = "record" /\ (\A j \in Ids : j # attempt.id => Same(j))
    BY <1>13, RecordAttemptDoes
  <2>1. Same(attempt.id) \/ (recs'[attempt.id].copy.key = recs[attempt.id].copy.key /\ recs'[attempt.id].copy.status \in {"done", "failed"})
    BY <1>13, RecordAttemptDoes
  <2>20. copies' = copies /\ (purge'.pc # "record" \/ (purge.pc = "record" /\ purge'.rec = purge.rec))
    BY <1>13 DEF RecordAttempt, storage
  <2>21. \A n \in Ids : Live(recs[n].copy) /\ recs[n].copy.key \in copies => \E j \in Ids : Live(recs'[j].copy)
         /\ recs'[j].copy.key = recs[n].copy.key
    BY <2>0, <2>1 DEF Same, Live
  <2> QED
    BY <2>20, <2>21, ObjectsStay
<1>14. CASE RemoveUntracked
  BY <1>14
     DEF RemoveUntracked, NoAttempt, Attempts, TypeOK, storage, actors, ObjectsInv, Named
<1>15. CASE CleanUp
  <2>1. UNCHANGED <<held, copies, purge, pin, attempt, torn>> /\ item.id # 0
    BY <1>15, CleanUpMoves
  <2>2. CASE UNCHANGED recs
    BY <2>1, <2>2 DEF ObjectsInv, Named
  <2>3. CASE Discard(FALSE)
    <3> DEFINE c == Partial(item.id)
    <3>0. /\ item.id \in Backups /\ c \in Ids /\ IsPartial(c) /\ (\A j \in Ids : j # c => Same(j))
          /\ (Same(c) \/ (recs'[c].status = "deleted" /\ recs'[c].key = item.new /\ recs'[c].copy = NoCopy))
      BY <2>1, <2>3, DiscardDoes, IdFacts
    <3>1. recs[c].copy.status = "none" /\ recs'[c].copy.status = "none"
      BY <3>0 DEF CopyInv, NoCopy, Same
    <3>2. UNCHANGED <<held, copies, purge, pin, attempt, torn>>
      BY <2>1
    <3>20. copies' = copies /\ (purge'.pc # "record" \/ (purge.pc = "record" /\ purge'.rec = purge.rec))
      BY <3>2
    <3>21. \A n \in Ids : Live(recs[n].copy) /\ recs[n].copy.key \in copies => \E j \in Ids : Live(recs'[j].copy)
           /\ recs'[j].copy.key = recs[n].copy.key
      BY <3>0, <3>1 DEF Same, Live
    <3> QED
      BY <3>20, <3>21, ObjectsStay
  <2> QED
    BY <1>15, <2>2, <2>3, CleanUpMoves
<1>16. CASE SwapBackupArchive
  <2> DEFINE b == item.id
             t == Tombstone(b)
  <2>0. /\ b \in Backups /\ recs[b].status \notin {"deleted", "purged"} /\ recs[t].status = "none" /\ (\A j \in Ids : j \notin {b, t} => Same(j))
        /\ recs'[b].status = recs[b].status /\ recs'[b].key = item.new /\ recs'[b].copy = RequeueCopies(recs[b].copy)
        /\ recs'[t].status = "deleted" /\ recs'[t].key = recs[b].key /\ recs'[t].copy = recs[b].copy
    BY <1>16, SwapBackupArchiveDoes
  <2>1. b \in Ids /\ t \in Ids /\ t # b /\ ~IsPartial(b) /\ ~IsPartial(t) /\ recs[b].status # "none" /\ recs[t].copy.status = "none"
    BY <2>0, IdFacts DEF RecordKeys, CopyInv
  <2>2. item' = item /\ work'.pc = "persist" /\ UNCHANGED <<held, copies, purge, pin, attempt, torn>> /\ Making
    BY <1>16, SwapMoves
  <2>20. copies' = copies /\ (purge'.pc # "record" \/ (purge.pc = "record" /\ purge'.rec = purge.rec))
    BY <2>2
  <2>21. \A n \in Ids : Live(recs[n].copy) /\ recs[n].copy.key \in copies => \E j \in Ids : Live(recs'[j].copy)
         /\ recs'[j].copy.key = recs[n].copy.key
    <3>1. ASSUME NEW n \in Ids, Live(recs[n].copy) PROVE \E j \in Ids : Live(recs'[j].copy) /\ recs'[j].copy.key = recs[n].copy.key
      <4>1. CASE n = b
        BY <2>0, <2>1, <3>1, <4>1
      <4>2. CASE n # b
        <5>1. n # t
          BY <2>1, <3>1 DEF Live
        <5> QED
          BY <2>0, <3>1, <4>2, <5>1 DEF Same
      <4> QED
        BY <4>1, <4>2
    <3> QED
      BY <3>1
  <2> QED
    BY <2>20, <2>21, ObjectsStay
<1>17. CASE RemoveNew
  <2> DEFINE c == Partial(item.id)
  <2>0. /\ item.id \in Backups /\ c \in Ids /\ IsPartial(c) /\ (\A j \in Ids : j # c => Same(j))
        /\ (Same(c) \/ (recs'[c].status = "deleted" /\ recs'[c].key = item.new /\ recs'[c].copy = NoCopy))
    BY <1>17, RemoveNewDoes, DiscardDoes, IdFacts
  <2>1. recs[c].copy.status = "none" /\ recs'[c].copy.status = "none"
    BY <2>0 DEF CopyInv, NoCopy, Same
  <2>2. UNCHANGED <<held, copies, purge, pin, attempt, torn>>
    BY <1>17, SwapMoves
  <2>20. copies' = copies /\ (purge'.pc # "record" \/ (purge.pc = "record" /\ purge'.rec = purge.rec))
    BY <2>2
  <2>21. \A n \in Ids : Live(recs[n].copy) /\ recs[n].copy.key \in copies => \E j \in Ids : Live(recs'[j].copy)
         /\ recs'[j].copy.key = recs[n].copy.key
    BY <2>0, <2>1 DEF Same, Live
  <2> QED
    BY <2>20, <2>21, ObjectsStay
<1>18. CASE Crash
  BY <1>18
     DEF Crash, Happens, NoPurge, NoPin, NoAttempt, NoWork, Purges, Pins, Attempts, Works, TypeOK, storage, actors,
         ObjectsInv, Named
<1> QED
  BY <1>1, <1>2, <1>3, <1>4, <1>5, <1>6, <1>7, <1>8, <1>9, <1>10, <1>11, <1>12, <1>13, <1>14, <1>15, <1>16, <1>17,
     <1>18, CopyWriters, AttemptWriters, PurgeWriters, CopiesWriters

\* What is lost stays lost.
LEMMA LostGrows ==
  ASSUME Next
  PROVE  lost \subseteq lost'
<1>1. ASSUME NEW i \in Ids, BeginPurge(i) PROVE lost \subseteq lost'
  BY <1>1 DEF BeginPurge
<1>2. CASE RecordAttempt \/ RemoveUntracked
  BY <1>2 DEF RecordAttempt, RemoveUntracked
<1>3. CASE FailJob \/ RemoveNewFails \/ Crash
  BY <1>3 DEF FailJob, RemoveNewFails, Crash
<1> QED
  BY <1>1, <1>2, <1>3, LostWriters

\* Under the purge the copy of its record only changes by the purge itself or by the attempt
\* that holds the lock of its object.
LEMMA PurgedCopy ==
  ASSUME Inv, TypeOK', Next, purge.id # 0, ~IsPartial(purge.id)
  PROVE  \/ RecordCopyPurged
         \/ RecordAttempt /\ attempt.id = purge.id /\ ~CopyGone(recs[purge.id].copy)
         \/ recs'[purge.id].copy = recs[purge.id].copy
<1> USE DEF Inv
<1>1. purge.id \in Ids /\ recs[purge.id].status = "deleted"
  BY DEF TypeOK, Purges, PurgeInv
<1>2. ASSUME NEW i \in Ids, NEW s \in {"failed", "done"}, Requeue(i, s) PROVE recs'[purge.id].copy = recs[purge.id].copy
  <2>1. i # purge.id
    BY <1>1, <1>2 DEF Requeue
  <2>2. Same(purge.id)
    BY <1>1, <1>2, <2>1, RequeueDoes, Zenon
  <2> QED
    BY <2>2 DEF Same
<1>3. CASE RecordAttempt
  BY <1>1, <1>3, RecordAttemptDoes DEF Same
<1>4. CASE CleanUp
  BY <1>1, <1>4, CleanUpMoves, DiscardDoes, IdFacts DEF Same
<1>5. CASE SwapBackupArchive
  BY <1>1, <1>5, SwapBackupArchiveDoes DEF Same
<1>6. CASE RemoveNew
  BY <1>1, <1>6, RemoveNewDoes, DiscardDoes, IdFacts DEF Same
<1>7. CASE KeepsCopies
  BY <1>1, <1>7 DEF KeepsCopies
<1> QED
  BY <1>2, <1>3, <1>4, <1>5, <1>6, <1>7, CopyWriters

\* PassedInv is preserved: the purge passes by no object, unless it was lost.
LEMMA PassedInvNext ==
  ASSUME Inv, TypeOK', Next
  PROVE  PassedInv'
<1> USE DEF Inv
<1>0. lost \subseteq lost'
  BY LostGrows
<1> DEFINE Passed ==
             /\ purge'.pc \in {"lift", "archive", "mark"} /\ MayExist(purge'.rec.copy) => recs'[purge'.id].copy.status = "purged"
             /\ purge'.pc # "record" /\ ~MayExist(purge'.rec.copy) =>
                  \/ <<"copy", recs'[purge'.id].copy.key>> \in lost'
                  \/ ~MayExist(recs'[purge'.id].copy)
                     /\ (Live(recs'[purge'.id].copy) => ~(attempt'.pc # "idle" /\ attempt'.key = recs'[purge'.id].copy.key))
<1>1. ASSUME purge'.id # 0, ~IsPartial(purge'.id) PROVE Passed
  <2>0. ListDeleted \/ MarkPurged \/ PurgeFails \/ Crash => purge'.id = 0
    <3>1. ListDeleted => purge'.id = 0
      BY DEF ListDeleted, NoPurge
    <3>2. MarkPurged \/ PurgeFails => purge'.id = 0
      BY PurgeRestFacts DEF MarkPurged, PurgeFails
    <3>3. Crash => purge'.id = 0
      BY DEF Crash, NoPurge
    <3> QED
      BY <3>1, <3>2, <3>3
  <2>1. ASSUME NEW i \in Ids, BeginPurge(i), purge'.id # purge.id PROVE Passed
    <3>1. /\ UNCHANGED <<recs, attempt>> /\ PurgeDue(recs[i]) /\ purge'.id = i /\ purge'.rec = recs[i] /\ purge'.pc = "copies"
          /\ lost' = (IF Overlooked(recs[i].copy) THEN lost \cup {<<"copy", recs[i].copy.key>>} ELSE lost)
      BY <1>1, <2>1 DEF BeginPurge, PurgeInv, NoPurge, TypeOK, Purges
    <3> QED
      BY <3>1 DEF Overlooked, MayExist, Live
  <2>2. CASE purge.id # 0 /\ purge'.id = purge.id /\ purge'.rec = purge.rec
    <3> DEFINE d == purge.id
               c == recs[d].copy
    <3>1. d \in Ids /\ recs[d].status = "deleted" /\ c \in Copies /\ recs[d].key # 0 /\ ~IsPartial(d)
      BY <1>1, <2>2 DEF TypeOK, Purges, Records, PurgeInv, RecordKeys
    <3>2. CASE RecordCopyPurged
      <4>1. recs'[d].copy = [c EXCEPT !.status = "purged"]
        BY <3>2, RecordCopyPurgedDoes
      <4>2. recs'[d].copy.status = "purged"
        BY <3>1, <4>1 DEF Copies
      <4> QED
        BY <2>2, <4>2 DEF MayExist, Live
    <3>3. CASE RecordAttempt /\ attempt.id = d /\ ~CopyGone(c)
      <4>1. purge' = purge /\ attempt.pc = "record" /\ recs'[d].copy.key = c.key
        BY <3>3, RecordAttemptDoes DEF RecordAttempt
      <4>2. Waiting(c) /\ attempt.key = c.key /\ c.status # "purged"
        BY <3>3, <4>1 DEF AttemptInv, CopyGone
      <4>3. Live(c) /\ CopyLocked(c.key)
        BY <4>1, <4>2 DEF Live, Waiting, CopyLocked
      <4>4. purge.pc # "record"
        BY <4>1, <4>2, <2>2, <3>1 DEF AttemptInv, PurgeInv
      <4>5. ~(purge.pc \in {"lift", "archive", "mark"} /\ MayExist(purge.rec.copy))
        BY <2>2, <3>1, <4>2 DEF PassedInv
      <4>6. ~MayExist(purge.rec.copy) => <<"copy", c.key>> \in lost
        BY <2>2, <3>1, <4>3, <4>4 DEF PassedInv
      <4> QED
        BY <1>0, <2>2, <4>1, <4>5, <4>6
    <3>4. CASE ~RecordCopyPurged /\ recs'[d].copy = c
      <4>1. /\ purge'.pc = "record" \/ purge.pc # "record"
            /\ purge'.pc \in {"lift", "archive", "mark"} =>
                 purge.pc \in {"lift", "archive", "mark"} \/ (purge.pc = "copies" /\ ~MayExist(purge.rec.copy))
        <5>1. CASE UNCHANGED purge
          BY <5>1 DEF TypeOK, Purges
        <5>2. ~(ListDeleted \/ MarkPurged \/ PurgeFails \/ Crash)
          BY <1>1, <2>0
        <5>3. ASSUME NEW i \in Ids, BeginPurge(i) PROVE FALSE
          BY <2>2, <5>3 DEF BeginPurge, DeletionLockFree
        <5>4. CASE PurgeCopy \/ LiftTombstone
          BY <5>4 DEF PurgeCopy, LiftTombstone, TypeOK, Purges
        <5>5. CASE PurgeArchive
          BY <1>1, <5>5, PurgeRestFacts DEF PurgeArchive, TypeOK, Purges
        <5> QED
          BY <3>4, <5>1, <5>2, <5>3, <5>4, <5>5, PurgeWriters
      <4>2. Live(c) /\ attempt'.pc # "idle" /\ attempt'.key = c.key => CopyLocked(c.key)
        <5>1. CASE UNCHANGED attempt
          BY <5>1 DEF CopyLocked
        <5>2. ASSUME NEW i \in Ids, BeginAttempt(i) PROVE ~(Live(c) /\ attempt'.key = c.key)
          <6>1. recs[i].status = "completed" /\ attempt'.key = recs[i].copy.key /\ Live(recs[i].copy)
            BY <5>2 DEF BeginAttempt, NoAttempt, Waiting, Live
          <6> QED
            BY <3>1, <6>1 DEF CopyInv, RecordKeys
        <5>3. CASE Upload \/ RecordAttempt \/ RemoveUntracked \/ Crash
          <6>1. attempt'.pc = "idle" \/ (attempt.pc # "idle" /\ attempt'.key = attempt.key)
            <7>1. CASE Upload
              BY <7>1 DEF Upload, TypeOK, Attempts
            <7>2. CASE RecordAttempt
              BY <7>2 DEF RecordAttempt, NoAttempt, TypeOK, Attempts
            <7>3. CASE RemoveUntracked \/ Crash
              BY <7>3 DEF RemoveUntracked, Crash, NoAttempt
            <7> QED
              BY <5>3, <7>1, <7>2, <7>3
          <6> QED
            BY <6>1 DEF CopyLocked
        <5> QED
          BY <5>1, <5>2, <5>3, AttemptWriters
      <4>3. /\ purge.pc \in {"lift", "archive", "mark"} /\ MayExist(purge.rec.copy) => c.status = "purged"
            /\ purge.pc # "record" /\ ~MayExist(purge.rec.copy) =>
                 <<"copy", c.key>> \in lost \/ (~MayExist(c) /\ (Live(c) => ~CopyLocked(c.key)))
        BY <2>2, <3>1 DEF PassedInv
      <4> HIDE DEF d, c
      <4> QED
        BY <1>0, <2>2, <3>4, <4>1, <4>2, <4>3 DEF d
    <3> QED
      BY <1>1, <2>2, <3>2, <3>3, <3>4, PurgedCopy
  <2>3. \/ purge.id # 0 /\ purge'.id = purge.id /\ purge'.rec = purge.rec
        \/ \E i \in Ids : BeginPurge(i) /\ purge'.id # purge.id
    <3>1. CASE UNCHANGED purge
      BY <1>1, <3>1
    <3>2. ~(ListDeleted \/ MarkPurged \/ PurgeFails \/ Crash)
      BY <1>1, <2>0
    <3>3. ASSUME NEW i \in Ids, BeginPurge(i) PROVE purge'.id # purge.id
      BY <1>1, <3>3 DEF BeginPurge, DeletionLockFree
    <3>4. CASE PurgeCopy \/ RecordCopyPurged \/ LiftTombstone \/ PurgeArchive
      BY <1>1, <3>4, PurgeMoves, IdFacts
    <3> QED
      BY <3>1, <3>2, <3>3, <3>4, PurgeWriters
  <2> QED
    BY <2>1, <2>2, <2>3
<1>2. ASSUME attempt'.pc \in {"upload", "record"}, recs'[attempt'.id].status = "purged",
             recs'[attempt'.id].copy.key = attempt'.key, recs'[attempt'.id].copy.status # "purged"
      PROVE  <<"copy", attempt'.key>> \in lost'
  <2>1. ASSUME NEW i \in Ids, BeginAttempt(i) PROVE FALSE
    BY <1>2, <2>1 DEF BeginAttempt, NoAttempt
  <2>2. attempt'.id = attempt.id /\ attempt'.key = attempt.key /\ attempt.pc \in {"upload", "record"} /\ ~RecordAttempt
    <3>1. CASE UNCHANGED attempt /\ ~RecordAttempt
      BY <1>2, <3>1
    <3>2. CASE Upload
      BY <3>2 DEF Upload, RecordAttempt, TypeOK, Attempts
    <3>3. CASE RecordAttempt \/ RemoveUntracked \/ Crash
      BY <1>2, <3>3 DEF RecordAttempt, RemoveUntracked, Crash, NoAttempt, TypeOK, Attempts
    <3> QED
      BY <2>1, <3>1, <3>2, <3>3, AttemptWriters
  <2> DEFINE a == attempt.id
  <2>3. a \in Ids /\ recs[a].status # "none" /\ recs[a].copy \in Copies /\ (~CopyGone(recs[a].copy) => Waiting(recs[a].copy))
    BY <2>2 DEF AttemptInv, TypeOK, Attempts, Records
  <2>4. CASE recs[a].status = "purged" /\ ~CopyGone(recs[a].copy)
    BY <1>0, <2>2, <2>4 DEF PassedInv
  <2>5. CASE MarkPurged /\ recs[a].status # "purged"
    <3>1. purge.id = a /\ PurgeDue(recs[a]) /\ recs'[a].copy = recs[a].copy /\ purge.pc = "mark" /\ purge.id # 0
      BY <1>2, <2>2, <2>3, <2>5, MarkPurgedDoes, IdFacts DEF Same, MarkPurged
    <3>2. ~CopyGone(recs[a].copy) /\ Waiting(recs[a].copy)
      BY <1>2, <2>2, <2>3, <3>1 DEF CopyGone
    <3>3. Live(recs[a].copy) /\ CopyLocked(recs[a].copy.key) /\ recs[a].copy.key = attempt.key
      BY <2>2, <3>2 DEF Waiting, Live, CopyLocked, CopyGone
    <3>4. ~IsPartial(a)
      BY <2>3, <3>3 DEF CopyInv, Live
    <3>5. recs[a].copy.status # "purged"
      BY <3>2 DEF CopyGone
    <3> QED
      BY <1>0, <2>2, <3>1, <3>3, <3>4, <3>5 DEF PassedInv
  <2>6. CASE ~MarkPurged /\ ~(recs[a].status = "purged" /\ ~CopyGone(recs[a].copy))
    <3>1. recs'[a].status = "purged" /\ recs'[a].copy.key = attempt.key /\ recs'[a].copy.status # "purged"
      BY <1>2, <2>2
    <3> DEFINE Still == recs[a].status = "purged" /\ recs'[a].copy = recs[a].copy
    <3>2. Still
      <4>1. ASSUME NEW i \in Ids, DeleteBackup(i) \/ UndeleteBackup(i) PROVE Still
        BY <2>3, <3>1, <4>1, DeleteBackupDoes, UndeleteBackupDoes, Zenon DEF Same
      <4>2. ASSUME NEW i \in Ids, TimePasses(i) PROVE Still
        BY <2>3, <3>1, <4>2, TimePassesDoes, Zenon DEF Same
      <4>3. CASE PruneNext
        BY <2>3, <3>1, <4>3, PruneNextDoes DEF Same
      <4>4. CASE CleanUp
        BY <2>3, <3>1, <4>4, CleanUpMoves, DiscardDoes DEF Same
      <4>5. CASE RemoveNew
        BY <2>3, <3>1, <4>5, RemoveNewDoes, DiscardDoes DEF Same
      <4>6. CASE SwapBackupArchive
        BY <2>3, <3>1, <4>6, SwapBackupArchiveDoes DEF Same
      <4>7. CASE KeepsStatus
        <5>1. recs[a].status = "purged"
          BY <2>3, <3>1, <4>7 DEF KeepsStatus
        <5>2. ASSUME NEW i \in Ids, NEW s \in {"failed", "done"}, Requeue(i, s) PROVE Same(a)
          <6>1. i # a
            BY <5>1, <5>2 DEF Requeue
          <6> QED
            BY <2>3, <5>2, <6>1, RequeueDoes, Zenon
        <5>3. CASE RecordCopyPurged
          <6>1. CASE a = purge.id
            <7>1. recs'[a].copy = [recs[a].copy EXCEPT !.status = "purged"]
              BY <5>3, <6>1, RecordCopyPurgedDoes
            <7> QED
              BY <2>3, <3>1, <7>1 DEF Copies
          <6>2. CASE a # purge.id
            BY <2>3, <5>1, <5>3, <6>2, RecordCopyPurgedDoes DEF Same
          <6> QED
            BY <6>1, <6>2
        <5>4. CASE KeepsCopies
          BY <2>3, <5>1, <5>4 DEF KeepsCopies
        <5> QED
          BY <2>2, <4>4, <4>5, <4>6, <5>1, <5>2, <5>3, <5>4, CopyWriters DEF Same
      <4> QED
        BY <2>6, <4>1, <4>2, <4>3, <4>4, <4>5, <4>6, <4>7, StatusWriters
    <3> QED
      BY <2>6, <3>1, <3>2 DEF CopyGone
  <2>7. CASE MarkPurged /\ recs[a].status = "purged" /\ CopyGone(recs[a].copy)
    <3>1. recs'[a].copy = recs[a].copy
      BY <2>3, <2>7, MarkPurgedDoes DEF Same
    <3> QED
      BY <1>2, <2>2, <2>7, <3>1 DEF CopyGone
  <2> QED
    BY <2>4, <2>5, <2>6, <2>7
<1>3. attempt'.pc = "record" => attempt'.result # "none"
  <2>1. ASSUME NEW i \in Ids, BeginAttempt(i) PROVE attempt'.pc # "record"
    BY <2>1 DEF BeginAttempt, NoAttempt
  <2>2. CASE Upload
    BY <2>2 DEF Upload, TypeOK, Attempts
  <2>3. CASE RecordAttempt \/ RemoveUntracked \/ Crash
    BY <2>3 DEF RecordAttempt, RemoveUntracked, Crash, NoAttempt, TypeOK, Attempts
  <2>4. CASE UNCHANGED attempt
    BY <2>4 DEF PassedInv
  <2> QED
    BY <2>1, <2>2, <2>3, <2>4, AttemptWriters
<1> QED
  BY <1>1, <1>2, <1>3 DEF PassedInv, CopyLocked, CopyGone

\* What keeps the objects tracked when the records change.
LEMMA TrackedStays ==
  ASSUME Inv, Next, copies' \subseteq copies, \A k : InHand(k) => InHand(k)' \/ <<"copy", k>> \in lost' \/ k \notin copies',
         \A n \in Ids : recs[n].status \notin {"none", "purged"} /\ MayExist(recs[n].copy) /\ recs[n].copy.key \in copies' =>
            \/ \E j \in Ids : recs'[j].status \notin {"none", "purged"} /\ recs'[j].copy.key = recs[n].copy.key /\ MayExist(recs'[j].copy)
            \/ <<"copy", recs[n].copy.key>> \in lost'
  PROVE  CopiesTracked'
<1> SUFFICES ASSUME NEW k \in copies' PROVE Tracked(k)' \/ InHand(k)' \/ <<"copy", k>> \in lost'
  BY DEF CopiesTracked
<1>1. k \in copies /\ lost \subseteq lost'
  BY LostGrows
<1>2. CASE Tracked(k)
  <2>1. PICK n \in Ids : recs[n].status \notin {"none", "purged"} /\ recs[n].copy.key = k /\ MayExist(recs[n].copy)
    BY <1>2 DEF Tracked
  <2> QED
    BY <2>1 DEF Tracked, MayExist
<1> QED
  BY <1>1, <1>2 DEF Inv, CopiesTracked

\* CopiesTracked is preserved: the purge finds every object that was not lost.
LEMMA TrackedNext ==
  ASSUME Inv, TypeOK', Next
  PROVE  CopiesTracked'
<1> USE DEF Inv
<1>1. CASE KeepsCopies /\ KeepsStatus /\ UNCHANGED <<attempt, copies>>
  BY <1>1, TrackedStays DEF KeepsCopies, KeepsStatus, InHand
<1>2. ASSUME NEW i \in Ids, DeleteBackup(i) PROVE CopiesTracked'
  <2>1. UNCHANGED <<attempt, copies>> /\ (\A j \in Ids : recs'[j].copy = recs[j].copy
        /\ (recs[j].status \notin {"none", "purged"} => recs'[j].status \notin {"none", "purged"}))
    BY <1>2, DeleteBackupDoes DEF DeleteBackup, storage, actors, Same
  <2> QED
    BY <2>1, TrackedStays DEF InHand
<1>3. ASSUME NEW i \in Ids, UndeleteBackup(i) PROVE CopiesTracked'
  <2>1. UNCHANGED <<attempt, copies>> /\ (\A j \in Ids : recs'[j].copy = recs[j].copy
        /\ (recs[j].status \notin {"none", "purged"} => recs'[j].status \notin {"none", "purged"}))
    BY <1>3, UndeleteBackupDoes DEF UndeleteBackup, storage, actors, Same
  <2> QED
    BY <2>1, TrackedStays DEF InHand
<1>4. ASSUME NEW i \in Ids, TimePasses(i) PROVE CopiesTracked'
  <2>1. UNCHANGED <<attempt, copies>> /\ (\A j \in Ids : recs'[j].copy = recs[j].copy /\ recs'[j].status = recs[j].status)
    BY <1>4, TimePassesDoes DEF TimePasses, storage, actors, Same
  <2> QED
    BY <2>1, TrackedStays DEF InHand
<1>5. CASE PruneNext
  <2>1. UNCHANGED <<attempt, copies>> /\ (\A j \in Ids : recs'[j].copy = recs[j].copy
        /\ (recs[j].status \notin {"none", "purged"} => recs'[j].status \notin {"none", "purged"}))
    BY <1>5, PruneNextDoes DEF PruneNext, storage, Same
  <2> QED
    BY <2>1, TrackedStays DEF InHand
<1>6. CASE MarkPurged
  <2> DEFINE d == purge.id
             c == recs[d].copy
  <2>1. /\ UNCHANGED <<attempt, copies>> /\ (\A j \in Ids : recs'[j].copy = recs[j].copy) /\ d \in Ids /\ d # 0 /\ purge.pc = "mark"
        /\ \A j \in Ids : j # d => Same(j)
    BY <1>6, MarkPurgedDoes, IdFacts DEF MarkPurged, storage, Same
  <2>2. ~MayExist(c) \/ <<"copy", c.key>> \in lost
    <3>1. CASE IsPartial(d)
      BY <2>1, <3>1 DEF CopyInv, MayExist
    <3>2. CASE ~IsPartial(d)
      BY <2>1, <3>2 DEF PassedInv, MayExist
    <3> QED
      BY <3>1, <3>2
  <2>3. lost \subseteq lost'
    BY LostGrows
  <2> QED
    BY <2>1, <2>2, <2>3, TrackedStays DEF InHand, Same
<1>7. ASSUME NEW i \in Ids, NEW s \in {"failed", "done"}, Requeue(i, s) PROVE CopiesTracked'
  <2>1. UNCHANGED <<attempt, copies>> /\ recs[i].copy \in Copies /\ recs[i].status = "completed"
    BY <1>7 DEF Requeue, storage, actors, TypeOK, Records
  <2>2. /\ (\A j \in Ids : j # i => Same(j)) /\ recs'[i].copy = [recs[i].copy EXCEPT !.status = "pending", !.tries = 0]
        /\ recs'[i].status = recs[i].status
    BY <1>7, RequeueDoes, Zenon
  <2>3. recs'[i].copy.status = "pending" /\ recs'[i].copy.key = recs[i].copy.key
    BY <2>1, <2>2 DEF Copies
  <2>4. \A n \in Ids : recs[n].status \notin {"none", "purged"} /\ MayExist(recs[n].copy) =>
           recs'[n].status \notin {"none", "purged"} /\ recs'[n].copy.key = recs[n].copy.key /\ MayExist(recs'[n].copy)
    BY <2>1, <2>2, <2>3 DEF Same, MayExist
  <2> QED
    BY <2>1, <2>4, TrackedStays DEF InHand
<1>8. CASE RecordCopyPurged
  <2>1. /\ UNCHANGED <<attempt, copies>> /\ purge.id \in Ids /\ purge.pc = "record" /\ (\A j \in Ids : j # purge.id => Same(j))
    BY <1>8, RecordCopyPurgedDoes DEF RecordCopyPurged, storage
  <2>2. recs[purge.id].copy.key \notin copies
    BY <2>1, IdFacts DEF ObjectsInv, PurgeInv, Live
  <2> QED
    BY <2>1, <2>2, TrackedStays DEF InHand, Same
<1>9. CASE CleanUp
  <2>1. UNCHANGED <<attempt, copies>> /\ item.id # 0
    BY <1>9, CleanUpMoves
  <2>2. CASE UNCHANGED recs
    BY <2>1, <2>2, TrackedStays DEF InHand
  <2>3. CASE Discard(FALSE)
    <3>1. item.id \in Backups /\ IsPartial(Partial(item.id)) /\ (\A j \in Ids : j # Partial(item.id) => Same(j))
      BY <2>1, <2>3, DiscardDoes, IdFacts
    <3>2. \A n \in Ids : MayExist(recs[n].copy) => Same(n)
      BY <3>1 DEF CopyInv, MayExist
    <3> QED
      BY <2>1, <3>2, TrackedStays DEF InHand, Same
  <2> QED
    BY <1>9, <2>2, <2>3, CleanUpMoves
<1>10. CASE RemoveNew
  <2>1. UNCHANGED <<attempt, copies>>
    BY <1>10, SwapMoves
  <2>2. item.id \in Backups /\ IsPartial(Partial(item.id)) /\ (\A j \in Ids : j # Partial(item.id) => Same(j))
    BY <1>10, RemoveNewDoes, DiscardDoes, IdFacts
  <2>3. \A n \in Ids : MayExist(recs[n].copy) => Same(n)
    BY <2>2 DEF CopyInv, MayExist
  <2> QED
    BY <2>1, <2>3, TrackedStays DEF InHand, Same
<1>11. CASE SwapBackupArchive
  <2> DEFINE b == item.id
             t == Tombstone(b)
  <2>1. /\ b \in Backups /\ (\A j \in Ids : j \notin {b, t} => Same(j)) /\ recs[t].status = "none"
        /\ recs'[t].status = "deleted" /\ recs'[t].copy = recs[b].copy
    BY <1>11, SwapBackupArchiveDoes
  <2>2. t \in Ids /\ UNCHANGED <<attempt, copies>>
    BY <1>11, <2>1, SwapMoves, IdFacts
  <2>3. ASSUME NEW n \in Ids, recs[n].status \notin {"none", "purged"}, MayExist(recs[n].copy)
        PROVE  \E j \in Ids : recs'[j].status \notin {"none", "purged"} /\ recs'[j].copy.key = recs[n].copy.key /\ MayExist(recs'[j].copy)
    <3>1. CASE n = b
      BY <2>1, <2>2, <2>3, <3>1
    <3>2. CASE n # b
      BY <2>1, <2>3, <3>2 DEF Same
    <3> QED
      BY <3>1, <3>2
  <2> QED
    BY <2>2, <2>3, TrackedStays DEF InHand
<1>12. CASE PurgeCopy
  BY <1>12, TrackedStays DEF PurgeCopy, InHand
<1>13. ASSUME NEW i \in Ids, BeginAttempt(i) PROVE CopiesTracked'
  <2>1. UNCHANGED <<recs, copies>> /\ \A k : ~InHand(k)
    BY <1>13 DEF BeginAttempt, storage, InHand
  <2> QED
    BY <2>1, TrackedStays
<1>14. CASE Upload
  <2>1. /\ UNCHANGED <<recs, lost>> /\ (\A k : ~InHand(k)) /\ attempt'.pc = "record" /\ attempt'.key = attempt.key
        /\ copies' = copies \/ (attempt'.result # "error" /\ copies' = copies \cup {attempt.key})
    BY <1>14 DEF Upload, InHand, TypeOK, Attempts
  <2>2. \A k \in copies : Tracked(k)' \/ <<"copy", k>> \in lost'
    BY <2>1 DEF CopiesTracked, Tracked
  <2> QED
    BY <2>1, <2>2 DEF CopiesTracked, InHand
<1>15. CASE RecordAttempt
  <2> DEFINE a == attempt.id
             c == recs[a].copy
  <2>1. /\ a \in Ids /\ attempt.pc = "record" /\ (\A j \in Ids : j # a => Same(j)) /\ copies' = copies /\ recs[a].status # "none"
        /\ c \in Copies /\ lost \subseteq lost'
    BY <1>15, RecordAttemptDoes, LostGrows DEF RecordAttempt, storage, AttemptInv, TypeOK, Records
  <2>2. CASE CopyGone(c)
    <3>1. /\ recs' = recs /\ attempt' = (IF attempt.result # "error" THEN [attempt EXCEPT !.pc = "untracked"] ELSE NoAttempt)
      BY <1>15, <2>2 DEF RecordAttempt
    <3>2. \A k : InHand(k) => InHand(k)'
      BY <3>1 DEF InHand, TypeOK, Attempts
    <3> QED
      BY <2>1, <3>1, <3>2, TrackedStays
  <2>3. CASE ~CopyGone(c)
    <3>1. Waiting(c) /\ recs' = [recs EXCEPT ![a].copy = Recorded(@)] /\ lost' = (IF Forgotten(c) THEN lost \cup {<<"copy", c.key>>} ELSE lost)
      BY <1>15, <2>1, <2>3 DEF RecordAttempt, AttemptInv
    <3>2. recs'[a].copy = Recorded(c) /\ recs'[a].status = recs[a].status
      BY <2>1, <3>1 DEF TypeOK, Records
    <3>3. /\ Recorded(c).key = c.key /\ c.key = attempt.key
          /\ attempt.result = "ok" => Recorded(c).status = "done"
          /\ attempt.result # "ok" => Recorded(c).status = "failed" /\ (Recorded(c).written <=> c.written \/ attempt.result = "written")
      BY <2>1, <2>3 DEF Recorded, Copies, CopyGone
    <3>4. attempt.result # "error" \/ c.written => MayExist(Recorded(c))
      <4>1. attempt.result \in {"ok", "written", "error"}
        BY <2>1 DEF TypeOK, Attempts, PassedInv
      <4> QED
        BY <3>3, <4>1 DEF MayExist
    <3>5. c.key \in copies => MayExist(recs'[a].copy) \/ <<"copy", c.key>> \in lost'
      BY <3>1, <3>2, <3>4 DEF Forgotten
    <3>6. recs[a].status = "purged" => <<"copy", c.key>> \in lost'
      BY <2>1, <2>3, <3>3 DEF PassedInv
    <3>7. c.key \in copies => (recs'[a].status \notin {"none", "purged"} /\ recs'[a].copy.key = c.key /\ MayExist(recs'[a].copy))
                              \/ <<"copy", c.key>> \in lost'
      BY <2>1, <3>2, <3>3, <3>5, <3>6
    <3>8. \A k : InHand(k) => k = c.key
      BY <3>3 DEF InHand
    <3> HIDE DEF a, c
    <3>9. ASSUME NEW k \in copies' PROVE Tracked(k)' \/ <<"copy", k>> \in lost'
      <4>1. CASE k = c.key
        BY <2>1, <3>7, <4>1 DEF Tracked
      <4>2. CASE k # c.key
        <5>1. Tracked(k) \/ <<"copy", k>> \in lost
          BY <2>1, <3>8, <4>2 DEF CopiesTracked
        <5>2. ASSUME NEW n \in Ids, recs[n].copy.key = k PROVE Same(n)
          BY <2>1, <4>2, <5>2 DEF c
        <5> QED
          BY <2>1, <5>1, <5>2 DEF Tracked, Same
      <4> QED
        BY <4>1, <4>2
    <3> QED
      BY <3>9 DEF CopiesTracked
  <2> QED
    BY <2>2, <2>3
<1>16. CASE RemoveUntracked
  <2>1. UNCHANGED recs /\ copies' \subseteq copies /\ (attempt.key \notin copies' \/ <<"copy", attempt.key>> \in lost')
    BY <1>16 DEF RemoveUntracked
  <2> QED
    BY <2>1, TrackedStays DEF InHand
<1>17. CASE Crash
  <2>1. UNCHANGED <<recs, copies>> /\ \A k : InHand(k) /\ ~Tracked(k) => <<"copy", k>> \in lost'
    BY <1>17 DEF Crash, LostNow, InHand, storage
  <2>2. lost \subseteq lost' /\ \A k : Tracked(k)' <=> Tracked(k)
    BY <2>1, LostGrows DEF Tracked
  <2> QED
    BY <2>1, <2>2 DEF CopiesTracked
<1> QED
  BY <1>1, <1>2, <1>3, <1>4, <1>5, <1>6, <1>7, <1>8, <1>9, <1>10, <1>11, <1>12, <1>13, <1>14, <1>15, <1>16, <1>17,
     CopyWriters, StatusWriters, AttemptWriters, CopiesWriters

\* ArchInv is preserved: a restorable backup has its archive.
LEMMA ArchInvNext ==
  ASSUME Inv, TypeOK', Next
  PROVE  ArchInv'
<1> USE DEF Inv
<1>1. CASE KeepsKeys /\ KeepsStatus /\ UNCHANGED <<arch, purge, torn>>
  BY <1>1 DEF KeepsKeys, KeepsStatus, ArchInv
<1>2. ASSUME NEW i \in Ids, DeleteBackup(i) PROVE ArchInv'
  <2>0. \A j \in Ids : /\ recs'[j].key = recs[j].key
                       /\ recs'[j].status \in {"completed", "deleted"}
                          /\ ~IsPartial(j) => recs[j].status \in {"completed", "deleted"}
    BY <1>2, DeleteBackupDoes DEF Same, DeleteBackup, PinnedInv
  <2>1. UNCHANGED <<arch, purge, torn>>
    BY <1>2 DEF DeleteBackup, storage, actors
  <2> QED
    BY <2>0, <2>1 DEF ArchInv
<1>3. ASSUME NEW i \in Ids, UndeleteBackup(i) PROVE ArchInv'
  <2>0. \A j \in Ids : /\ recs'[j].key = recs[j].key
                       /\ recs'[j].status \in {"completed", "deleted"}
                          /\ ~IsPartial(j) => recs[j].status \in {"completed", "deleted"}
    BY <1>3, UndeleteBackupDoes DEF Same, PinnedInv
  <2>1. UNCHANGED <<arch, purge, torn>>
    BY <1>3 DEF UndeleteBackup, storage, actors
  <2> QED
    BY <2>0, <2>1 DEF ArchInv
<1>4. ASSUME NEW i \in Ids, BeginPin(i) PROVE ArchInv'
  BY <1>4, IdFacts
     DEF BeginPin, Happens, NoPin, Pins, TypeOK, storage, actors, ArchInv
<1>5. ASSUME NEW i \in Ids, BeginUnpin(i) PROVE ArchInv'
  <2>0. KeepsKeys /\ KeepsStatus /\ KeepsCopies
    BY <1>5, BeginUnpinDoes DEF KeepsKeys, KeepsStatus, KeepsCopies, Same
  <2>1. UNCHANGED <<arch, copies, purge>> /\ torn \subseteq torn'
    BY <1>5 DEF BeginUnpin, storage
  <2> QED
    BY <2>0, <2>1 DEF KeepsKeys, KeepsStatus, ArchInv
<1>6. CASE PruneNext
  <2>0. \A j \in Ids : /\ recs'[j].key = recs[j].key
                       /\ recs'[j].status \in {"completed", "deleted"}
                          /\ ~IsPartial(j) => recs[j].status \in {"completed", "deleted"}
    BY <1>6, PruneNextDoes DEF Same, PruneRefused
  <2>1. UNCHANGED <<arch, purge, torn>>
    BY <1>6 DEF PruneNext, storage, actors
  <2> QED
    BY <2>0, <2>1 DEF ArchInv
<1>7. CASE ListDeleted
  BY <1>7, IdFacts
     DEF ListDeleted, NoPurge, Purges, TypeOK, storage, actors, ArchInv
<1>8. ASSUME NEW i \in Ids, BeginPurge(i) PROVE ArchInv'
  BY <1>8, IdFacts
     DEF BeginPurge, NoPurge, Purges, TypeOK, storage, actors, ArchInv
<1>9. CASE PurgeCopy
  BY <1>9, IdFacts
     DEF PurgeCopy, Purges, TypeOK, storage, actors, ArchInv
<1>10. CASE RecordCopyPurged
  BY <1>10, RecordCopyPurgedDoes, IdFacts
     DEF RecordCopyPurged, Purges, Same, TypeOK, storage, actors, ArchInv
<1>11. CASE LiftTombstone
  BY <1>11, IdFacts
     DEF LiftTombstone, Purges, TypeOK, storage, actors, ArchInv
<1>12. CASE PurgeArchive
  <2>0. UNCHANGED <<recs, torn>> /\ purge.id \in Ids /\ purge.id # 0 /\ purge.pc = "archive"
    BY <1>12, PurgeMoves, IdFacts DEF PurgeArchive
  <2>1. CASE arch' = arch
    BY <2>0, <2>1 DEF ArchInv
  <2>2. CASE arch' = arch \ {purge.rec.key} /\ purge' = [purge EXCEPT !.pc = "mark"]
    <3>1. purge'.pc = "mark" /\ purge'.id = purge.id
      BY <2>2 DEF TypeOK, Purges
    <3>2. \A j \in Ids : recs[j].key = purge.rec.key => j = purge.id
      BY <2>0 DEF PurgeInv
    <3> QED
      BY <2>0, <2>2, <3>1, <3>2 DEF ArchInv
  <2> QED
    BY <1>12, <2>1, <2>2 DEF PurgeArchive
<1>13. CASE MarkPurged
  <2>0. /\ purge.id \in Ids /\ (\A j \in Ids : j # purge.id => Same(j)) /\ purge.pc = "mark" /\ purge'.pc # "mark" /\ UNCHANGED <<arch, torn>>
        /\ (recs'[purge.id].status = "purged" \/ ~PurgeDue(recs[purge.id]))
    BY <1>13, MarkPurgedDoes, PurgeRestFacts DEF MarkPurged, storage
  <2>1. ~IsPartial(purge.id) => PurgeDue(recs[purge.id])
    BY <2>0, IdFacts DEF PurgeInv, PurgeDue
  <2> QED
    BY <2>0, <2>1 DEF ArchInv, Same
<1>14. CASE PurgeFails
  BY <1>14, IdFacts
     DEF PurgeFails, Happens, PurgeRest, NoPurge, Purges, TypeOK, storage, actors, ArchInv
<1>15. CASE CleanUp
  <2>0. UNCHANGED <<purge, torn>> /\ item.id # 0 /\ item.id \in Backups
    BY <1>15, CleanUpMoves
  <2>1. CASE UNCHANGED <<recs, arch>>
    BY <2>0, <2>1 DEF ArchInv
  <2>2. CASE recs[item.id].key # item.new /\ Discard(FALSE)
    <3>1. (\A j \in Ids : j # Partial(item.id) => Same(j)) /\ arch \ {item.new} \subseteq arch' /\ IsPartial(Partial(item.id))
      BY <2>0, <2>2, DiscardDoes, IdFacts
    <3>2. \A j \in Ids : ~IsPartial(j) => recs[j].key # item.new
      BY <2>0, <2>2, <3>1, IdFacts DEF ItemKeys
    <3> QED
      BY <2>0, <3>1, <3>2 DEF ArchInv, Same
  <2> QED
    BY <1>15, <2>1, <2>2, CleanUpMoves
<1>16. CASE ListBackups
  BY <1>16, IdFacts
     DEF ListBackups, Works, TypeOK, storage, actors, ArchInv
<1>17. CASE CopyArchive
  BY <1>17, IdFacts
     DEF CopyArchive, Happens, Works, TypeOK, storage, actors, ArchInv
<1>18. CASE SwapBackupArchive
  <2> DEFINE b == item.id
             t == Tombstone(b)
  <2>0. /\ b \in Backups /\ recs[b].status \notin {"deleted", "purged"} /\ recs[t].status = "none" /\ (\A j \in Ids : j \notin {b, t} => Same(j))
        /\ recs'[b].status = recs[b].status /\ recs'[b].key = item.new /\ recs'[b].copy = RequeueCopies(recs[b].copy)
        /\ recs'[t].status = "deleted" /\ recs'[t].key = recs[b].key /\ recs'[t].copy = recs[b].copy
    BY <1>18, SwapBackupArchiveDoes
  <2>1. b \in Ids /\ t \in Ids /\ t # b /\ ~IsPartial(b) /\ ~IsPartial(t) /\ recs[b].status # "none" /\ recs[t].copy.status = "none"
    BY <2>0, IdFacts DEF RecordKeys, CopyInv
  <2>2. item' = item /\ work'.pc = "persist" /\ UNCHANGED <<held, copies, purge, pin, attempt, torn>> /\ Making
    BY <1>18, SwapMoves
  <2>3. recs[b].status = "completed" /\ purge.id # b /\ purge.id # t
    BY <2>0, <2>1, IdFacts DEF PinnedInv, PurgeInv, TypeOK, Records
  <2>4. Of(t) = Of(b)
    BY <2>0, IdFacts
  <2>5. arch' = arch /\ item.new \in arch
    BY <1>18 DEF SwapBackupArchive, storage, ItemKeys
  <2> QED
    BY <2>0, <2>1, <2>2, <2>3, <2>4, <2>5 DEF ArchInv, Same
<1>19. CASE RemoveNew
  <2>0. UNCHANGED <<purge, torn>> /\ item.id # 0 /\ item.id \in Backups /\ (\A j \in Ids : recs[j].key # item.new)
    BY <1>19, SwapMoves, MakingFacts DEF ItemKeys
  <2>1. (\A j \in Ids : j # Partial(item.id) => Same(j)) /\ arch \ {item.new} \subseteq arch' /\ IsPartial(Partial(item.id))
    BY <1>19, <2>0, RemoveNewDoes, DiscardDoes, IdFacts
  <2> QED
    BY <2>0, <2>1 DEF ArchInv, Same
<1>20. ASSUME NEW i \in Ids, TimePasses(i) PROVE ArchInv'
  <2>0. \A j \in Ids : /\ recs'[j].key = recs[j].key
                       /\ recs'[j].status \in {"completed", "deleted"}
                          /\ ~IsPartial(j) => recs[j].status \in {"completed", "deleted"}
    BY <1>20, TimePassesDoes DEF Same, TimePasses, PinnedInv
  <2>1. UNCHANGED <<arch, purge, torn>>
    BY <1>20 DEF TimePasses, storage, actors
  <2> QED
    BY <2>0, <2>1 DEF ArchInv
<1>21. CASE Crash
  <2>0. UNCHANGED <<recs, arch>> /\ torn \subseteq torn' /\ (purge.id # 0 => purge.id \in Ids)
    BY <1>21 DEF Crash, storage, TypeOK, Purges
  <2>1. purge.pc = "mark" /\ purge.id \in Ids => <<"archive", Of(purge.id)>> \in torn'
    BY <1>21 DEF Crash, TornNow
  <2> QED
    BY <2>0, <2>1, IdFacts DEF ArchInv
<1> QED
  BY <1>1, <1>2, <1>3, <1>4, <1>5, <1>6, <1>7, <1>8, <1>9, <1>10, <1>11, <1>12, <1>13, <1>14, <1>15, <1>16, <1>17,
     <1>18, <1>19, <1>20, <1>21, KeysWriters, StatusWriters, ArchWriters, PurgeWriters, TornWriters

\* UsableInv is preserved: a usable copy has its object.
LEMMA UsableInvNext ==
  ASSUME Inv, TypeOK', Next
  PROVE  UsableInv'
<1> USE DEF Inv
<1>1. CASE KeepsKeys /\ KeepsCopies /\ UNCHANGED <<copies, purge, torn>>
  <2>1. \A j \in Ids : CopyUsable(recs'[j]) <=> CopyUsable(recs[j])
    BY <1>1 DEF KeepsKeys, KeepsCopies, CopyUsable
  <2> QED
    BY <1>1, <2>1 DEF KeepsCopies, UsableInv
<1>2. ASSUME NEW i \in Ids, BeginPin(i) PROVE UsableInv'
  BY <1>2, IdFacts
     DEF BeginPin, Happens, NoPin, Pins, TypeOK, storage, actors, UsableInv, CopyUsable
<1>3. ASSUME NEW i \in Ids, BeginUnpin(i) PROVE UsableInv'
  <2>0. KeepsKeys /\ KeepsStatus /\ KeepsCopies
    BY <1>3, BeginUnpinDoes DEF KeepsKeys, KeepsStatus, KeepsCopies, Same
  <2>1. UNCHANGED <<arch, copies, purge>> /\ torn \subseteq torn'
    BY <1>3 DEF BeginUnpin, storage
  <2>2. \A j \in Ids : CopyUsable(recs'[j]) <=> CopyUsable(recs[j])
    BY <2>0 DEF KeepsKeys, KeepsCopies, CopyUsable
  <2> QED
    BY <2>0, <2>1, <2>2 DEF KeepsCopies, UsableInv
<1>4. ASSUME NEW i \in Ids, NEW s \in {"failed", "done"}, Requeue(i, s) PROVE UsableInv'
  <2>0. recs[i].copy \in Copies /\ recs[i].copy.status \in {"failed", "done"} /\ recs[i].status = "completed"
    BY <1>4 DEF Requeue, TypeOK, Records
  <2>1. /\ (\A j \in Ids : j # i => Same(j)) /\ recs'[i].copy.status = "pending" /\ recs'[i].copy.key = recs[i].copy.key /\ recs'[i].copy.tries = 0
        /\ recs'[i].status = recs[i].status /\ recs'[i].key = recs[i].key
    <3>1. /\ (\A j \in Ids : j # i => Same(j)) /\ recs'[i].copy = [recs[i].copy EXCEPT !.status = "pending", !.tries = 0]
          /\ recs'[i].status = recs[i].status /\ recs'[i].key = recs[i].key
      BY <1>4, RequeueDoes, Zenon
    <3> QED
      BY <2>0, <3>1 DEF Copies
  <2>20. UNCHANGED <<copies, torn>> /\ (purge.pc = "record" => purge'.pc = "record" /\ purge'.id = purge.id)
    BY <1>4 DEF Requeue, storage, actors
  <2>21. \A j \in Ids : CopyUsable(recs'[j]) => recs'[j] = recs[j] \/ (CopyUsable(recs[j]) /\ recs'[j].copy.key = recs[j].copy.key)
    BY <2>0, <2>1 DEF Same, CopyUsable
  <2> QED
    BY <2>20, <2>21 DEF UsableInv
<1>5. CASE ListDeleted
  BY <1>5, IdFacts
     DEF ListDeleted, NoPurge, Purges, TypeOK, storage, actors, UsableInv, CopyUsable
<1>6. ASSUME NEW i \in Ids, BeginPurge(i) PROVE UsableInv'
  BY <1>6, IdFacts
     DEF BeginPurge, NoPurge, Purges, TypeOK, storage, actors, UsableInv, CopyUsable
<1>7. CASE PurgeCopy
  <2>0. purge.id \in Ids /\ purge.id # 0 /\ UNCHANGED <<recs, torn>> /\ purge'.pc = "record" /\ purge'.id = purge.id
        /\ Live(purge.rec.copy) /\ copies' = copies \ {purge.rec.copy.key}
    BY <1>7, PurgeMoves, IdFacts DEF PurgeCopy, MayExist, Live, TypeOK, Purges
  <2>1. \A j \in Ids : CopyUsable(recs[j]) /\ recs[j].copy.key = purge.rec.copy.key => j = purge.id
    BY <2>0 DEF CopyUsable, CopyInv, Live, PurgeInv
  <2>2. purge.pc = "copies"
    BY <1>7 DEF PurgeCopy
  <2> QED
    BY <2>0, <2>1, <2>2 DEF UsableInv
<1>8. CASE RecordCopyPurged
  <2>0. purge.id \in Ids /\ recs[purge.id].copy \in Copies /\ ~IsPartial(purge.id) /\ recs[purge.id].status = "deleted"
        /\ purge.pc = "record" /\ recs[purge.id].copy.key = purge.rec.copy.key /\ Live(purge.rec.copy)
    BY <1>8, RecordCopyPurgedDoes DEF RecordCopyPurged, TypeOK, Records, PurgeInv, Live
  <2>1. /\ (\A j \in Ids : j # purge.id => Same(j)) /\ recs'[purge.id].copy.status = "purged"
        /\ recs'[purge.id].copy.key = recs[purge.id].copy.key
        /\ recs'[purge.id].status = recs[purge.id].status /\ recs'[purge.id].key = recs[purge.id].key
    BY <1>8, <2>0, RecordCopyPurgedDoes DEF Copies
  <2>3. UNCHANGED <<copies, torn>>
    BY <1>8 DEF RecordCopyPurged, storage
  <2> QED
    BY <2>0, <2>1, <2>3 DEF UsableInv, Same, CopyUsable
<1>9. CASE LiftTombstone
  BY <1>9, IdFacts
     DEF LiftTombstone, Purges, TypeOK, storage, actors, UsableInv, CopyUsable
<1>10. CASE PurgeArchive
  <2>20. UNCHANGED <<copies, torn>> /\ (purge.pc = "record" => purge'.pc = "record" /\ purge'.id = purge.id)
    BY <1>10 DEF PurgeArchive
  <2>21. \A j \in Ids : CopyUsable(recs'[j]) => recs'[j] = recs[j] \/ (CopyUsable(recs[j]) /\ recs'[j].copy.key = recs[j].copy.key)
    BY <1>10 DEF PurgeArchive
  <2> QED
    BY <2>20, <2>21 DEF UsableInv
<1>11. CASE MarkPurged
  <2>1. KeepsCopies /\ KeepsKeys
    BY <1>11, MarkPurgedDoes DEF KeepsCopies, KeepsKeys, Same, PurgeDue
  <2>20. UNCHANGED <<copies, torn>> /\ (purge.pc = "record" => purge'.pc = "record" /\ purge'.id = purge.id)
    BY <1>11 DEF MarkPurged, storage
  <2>21. \A j \in Ids : CopyUsable(recs'[j]) => recs'[j] = recs[j] \/ (CopyUsable(recs[j]) /\ recs'[j].copy.key = recs[j].copy.key)
    BY <2>1 DEF KeepsCopies, KeepsKeys, CopyUsable
  <2> QED
    BY <2>20, <2>21 DEF UsableInv
<1>12. CASE PurgeFails
  BY <1>12, IdFacts
     DEF PurgeFails, Happens, PurgeRest, NoPurge, Purges, TypeOK, storage, actors, UsableInv, CopyUsable
<1>13. CASE Upload
  BY <1>13, IdFacts
     DEF Upload, Happens, Attempts, TypeOK, storage, actors, UsableInv, CopyUsable
<1>14. CASE RecordAttempt
  <2>0. /\ attempt.id \in Ids /\ attempt.pc = "record" /\ (\A j \in Ids : j # attempt.id => Same(j)) /\ UNCHANGED <<copies, torn, purge>>
        /\ \/ Same(attempt.id)
           \/ /\ ~CopyGone(recs[attempt.id].copy) /\ recs'[attempt.id].copy.key = recs[attempt.id].copy.key
              /\ (attempt.result = "ok" \/ recs'[attempt.id].copy.status = "failed")
    BY <1>14, RecordAttemptDoes DEF RecordAttempt, storage
  <2>1. attempt.result = "ok" /\ ~CopyGone(recs[attempt.id].copy) => recs[attempt.id].copy.key \in copies
    BY <2>0 DEF AttemptInv, CopyGone
  <2> QED
    BY <2>0, <2>1 DEF UsableInv, Same, CopyUsable
<1>15. CASE RemoveUntracked
  <2>0. UNCHANGED <<recs, torn, purge>> /\ copies \ {attempt.key} \subseteq copies' /\ attempt.pc # "idle"
    BY <1>15 DEF RemoveUntracked
  <2> QED
    BY <2>0 DEF UsableInv, AttemptInv, CopyUsable
<1>16. CASE CleanUp
  <2>1. UNCHANGED <<held, copies, purge, pin, attempt, torn>> /\ item.id # 0
    BY <1>16, CleanUpMoves
  <2>2. CASE UNCHANGED recs
    BY <2>1, <2>2 DEF UsableInv, CopyUsable
  <2>3. CASE Discard(FALSE)
    <3> DEFINE c == Partial(item.id)
    <3>0. /\ item.id \in Backups /\ c \in Ids /\ IsPartial(c) /\ (\A j \in Ids : j # c => Same(j))
          /\ (Same(c) \/ (recs'[c].status = "deleted" /\ recs'[c].key = item.new /\ recs'[c].copy = NoCopy))
      BY <2>1, <2>3, DiscardDoes, IdFacts
    <3>1. recs[c].copy.status = "none" /\ recs'[c].copy.status = "none"
      BY <3>0 DEF CopyInv, NoCopy, Same
    <3>2. UNCHANGED <<held, copies, purge, pin, attempt, torn>>
      BY <2>1
    <3>20. UNCHANGED <<copies, torn>> /\ (purge.pc = "record" => purge'.pc = "record" /\ purge'.id = purge.id)
      BY <3>2
    <3>21. \A j \in Ids : CopyUsable(recs'[j]) => recs'[j] = recs[j] \/ (CopyUsable(recs[j]) /\ recs'[j].copy.key = recs[j].copy.key)
      BY <3>0, <3>1 DEF Same, CopyUsable
    <3> QED
      BY <3>20, <3>21 DEF UsableInv
  <2> QED
    BY <1>16, <2>2, <2>3, CleanUpMoves
<1>17. CASE ListBackups
  BY <1>17, IdFacts
     DEF ListBackups, Works, TypeOK, storage, actors, UsableInv, CopyUsable
<1>18. CASE SwapBackupArchive
  <2> DEFINE b == item.id
             t == Tombstone(b)
  <2>0. /\ b \in Backups /\ recs[b].status \notin {"deleted", "purged"} /\ recs[t].status = "none" /\ (\A j \in Ids : j \notin {b, t} => Same(j))
        /\ recs'[b].status = recs[b].status /\ recs'[b].key = item.new /\ recs'[b].copy = RequeueCopies(recs[b].copy)
        /\ recs'[t].status = "deleted" /\ recs'[t].key = recs[b].key /\ recs'[t].copy = recs[b].copy
    BY <1>18, SwapBackupArchiveDoes
  <2>1. b \in Ids /\ t \in Ids /\ t # b /\ ~IsPartial(b) /\ ~IsPartial(t) /\ recs[b].status # "none" /\ recs[t].copy.status = "none"
    BY <2>0, IdFacts DEF RecordKeys, CopyInv
  <2>2. item' = item /\ work'.pc = "persist" /\ UNCHANGED <<held, copies, purge, pin, attempt, torn>> /\ Making
    BY <1>18, SwapMoves
  <2>3. recs[b].status = "completed" /\ purge.id # b /\ purge.id # t
    BY <2>0, <2>1, IdFacts DEF PinnedInv, PurgeInv, TypeOK, Records
  <2>4. Of(t) = Of(b)
    BY <2>0, IdFacts
  <2>5. ~CopyUsable(recs'[b]) /\ (CopyUsable(recs'[t]) => CopyUsable(recs[b]))
    BY <2>0, <2>1, RequeueFacts DEF CopyUsable
  <2> QED
    BY <2>0, <2>1, <2>2, <2>3, <2>4, <2>5 DEF UsableInv, Same
<1>19. CASE RemoveNew
  <2> DEFINE c == Partial(item.id)
  <2>0. /\ item.id \in Backups /\ c \in Ids /\ IsPartial(c) /\ (\A j \in Ids : j # c => Same(j))
        /\ (Same(c) \/ (recs'[c].status = "deleted" /\ recs'[c].key = item.new /\ recs'[c].copy = NoCopy))
    BY <1>19, RemoveNewDoes, DiscardDoes, IdFacts
  <2>1. recs[c].copy.status = "none" /\ recs'[c].copy.status = "none"
    BY <2>0 DEF CopyInv, NoCopy, Same
  <2>2. UNCHANGED <<held, copies, purge, pin, attempt, torn>>
    BY <1>19, SwapMoves
  <2>20. UNCHANGED <<copies, torn>> /\ (purge.pc = "record" => purge'.pc = "record" /\ purge'.id = purge.id)
    BY <2>2
  <2>21. \A j \in Ids : CopyUsable(recs'[j]) => recs'[j] = recs[j] \/ (CopyUsable(recs[j]) /\ recs'[j].copy.key = recs[j].copy.key)
    BY <2>0, <2>1 DEF Same, CopyUsable
  <2> QED
    BY <2>20, <2>21 DEF UsableInv
<1>20. CASE Crash
  <2>0. UNCHANGED <<recs, copies>> /\ torn \subseteq torn' /\ (purge.id # 0 => purge.id \in Ids)
    BY <1>20 DEF Crash, storage, TypeOK, Purges
  <2>1. purge.pc = "record" /\ purge.id \in Ids => <<"archive", Of(purge.id)>> \in torn'
    BY <1>20 DEF Crash, TornNow
  <2> QED
    BY <2>0, <2>1, IdFacts DEF UsableInv
<1> QED
  BY <1>1, <1>2, <1>3, <1>4, <1>5, <1>6, <1>7, <1>8, <1>9, <1>10, <1>11, <1>12, <1>13, <1>14, <1>15, <1>16, <1>17,
     <1>18, <1>19, <1>20, KeysWriters, CopyWriters, CopiesWriters, PurgeWriters, TornWriters

\* PinInv is preserved: a pin in hand is of a record outside the purge, an unpin of an unpinned one.
LEMMA PinInvNext ==
  ASSUME Inv, TypeOK', Next
  PROVE  PinInv'
<1> USE DEF Inv
<1>1. CASE KeepsKeys /\ KeepsStatus /\ KeepsHolds /\ UNCHANGED <<held, purge, pin, work, torn>>
  <2>1. UNCHANGED <<held, purge, pin, work, torn>> /\ KeepsKeys /\ KeepsStatus /\ KeepsHolds
    BY <1>1
  <2>20. pin' = pin /\ torn \subseteq torn' /\ (pin.id # 0 => pin.id \in Ids /\ purge.id = 0 /\ recs[pin.id].status # "none")
         /\ purge'.id = purge.id
    BY <2>1, IdFacts DEF TypeOK, Pins, PinInv
  <2>21. ASSUME pin.id # 0 PROVE recs'[pin.id].status # "none"
    BY <2>20, <2>21, <2>1 DEF KeepsStatus
  <2>22. ASSUME pin.id # 0, ~IsPartial(pin.id)
         PROVE  /\ recs'[pin.id].status = recs[pin.id].status /\ recs'[pin.id].pinned = recs[pin.id].pinned /\ recs'[pin.id].hold = recs[pin.id].hold
                /\ pin.id \in work'.todo => Torn(pin.id)'
                /\ ~Torn(pin.id)' => recs'[pin.id].key = recs[pin.id].key /\ (pin.key \in held' <=> pin.key \in held)
    <3>1. pin.id \in work.todo => Torn(pin.id)'
      BY <2>20, <2>22 DEF PinInv, Torn
    <3>2. Torn(pin.id) => Torn(pin.id)'
      BY <2>20 DEF Torn
    <3> QED
      BY <2>20, <2>22, <3>1, <3>2, <2>1 DEF KeepsKeys, KeepsHolds, KeepsStatus
  <2> QED
    BY <2>20, <2>21, <2>22, PinStays
<1>2. ASSUME NEW i \in Ids, DeleteBackup(i) PROVE PinInv'
  <2>1. pin'.pc = "idle" /\ pin'.id = 0
    BY <1>2 DEF DeleteBackup, DeletionLockFree, actors, PinInv
  <2> QED
    BY <2>1, PinIdle
<1>3. ASSUME NEW i \in Ids, UndeleteBackup(i) PROVE PinInv'
  <2>1. pin'.pc = "idle" /\ pin'.id = 0
    BY <1>3 DEF UndeleteBackup, DeletionLockFree, actors, PinInv
  <2> QED
    BY <2>1, PinIdle
<1>4. ASSUME NEW i \in Ids, BeginPin(i) PROVE PinInv'
  <2> DEFINE k == recs[i].key
             h == ~recs[i].hold /\ k \in arch
  <2>1. /\ purge.id = 0 /\ pin.id = 0 /\ recs[i].status \in {"completed", "failed"} /\ UNCHANGED <<recs, purge, work>>
        /\ held' = (IF h THEN held \cup {k} ELSE held) /\ pin' = [NoPin EXCEPT !.pc = "pin", !.id = i, !.key = k, !.hold = h]
    BY <1>4 DEF BeginPin, DeletionLockFree, PinInv
  <2>2. pin'.pc = "pin" /\ pin'.id = i /\ pin'.key = k /\ pin'.hold = h
    BY <2>1 DEF NoPin
  <2>3. torn \subseteq torn' /\ (i \in work.todo => Torn(i)')
    BY <1>4 DEF BeginPin, BeingReencrypted, WorkInv, TypeOK, Works, Torn
  <2>4. i # 0 /\ held \subseteq arch
    BY IdFacts DEF TypeOK
  <2>5. ASSUME ~IsPartial(i), ~Torn(i)' PROVE k \in held' <=> h \/ recs[i].hold
    <3>1. ~Torn(i)
      BY <2>3, <2>5 DEF Torn
    <3>2. recs[i].hold => k \in held
      BY <2>1, <2>4, <2>5, <3>1 DEF HoldInv
    <3> QED
      BY <2>1, <2>4, <3>2
  <2>6. ~IsPartial(i) => recs[i].status = "completed"
    BY <2>1 DEF PinnedInv
  <2> HIDE DEF h, k
  <2> QED
    BY <2>1, <2>2, <2>3, <2>4, <2>5, <2>6 DEF PinInv, Torn, k
<1>5. ASSUME NEW i \in Ids, BeginUnpin(i) PROVE PinInv'
  <2>0. /\ purge.id = 0 /\ pin.id = 0 /\ UNCHANGED <<held, purge, work>> /\ torn \subseteq torn' /\ (i \in work.todo => Torn(i)') /\ i # 0
    BY <1>5, IdFacts DEF BeginUnpin, DeletionLockFree, PinInv, storage, BeingReencrypted, WorkInv, TypeOK, Works, Torn
  <2>1. recs'[i].status = recs[i].status /\ recs'[i].key = recs[i].key /\ recs'[i].pinned = FALSE /\ recs'[i].hold = FALSE
    BY <1>5, BeginUnpinDoes
  <2>2. CASE ~recs[i].hold
    <3>1. pin'.pc = "idle" /\ pin'.id = 0
      BY <1>5, <2>2 DEF BeginUnpin, NoPin
    <3> QED
      BY <3>1, PinIdle
  <2>3. CASE recs[i].hold
    <3>1. pin'.pc = "unpin" /\ pin'.id = i /\ pin'.key = recs[i].key /\ pin'.was = recs[i].pinned
      BY <1>5, <2>3 DEF BeginUnpin
    <3>3. recs[i].status # "none"
      BY <2>3 DEF PinnedInv
    <3>4. ~IsPartial(i) /\ ~Torn(i)' => recs[i].key \in held
      BY <2>0, <2>3 DEF HoldInv, Torn
    <3>5. ~IsPartial(i) => recs[i].status \in {"completed", "deleted"} /\ (recs[i].pinned => recs[i].status = "completed")
          /\ (i \in Backups => recs[i].pinned)
      BY <2>3 DEF PinnedInv
    <3> QED
      BY <2>0, <2>1, <3>1, <3>3, <3>4, <3>5 DEF PinInv, Torn
  <2> QED
    BY <2>2, <2>3
<1>6. CASE RecordPin
  <2>1. pin'.pc = "idle" /\ pin'.id = 0
    BY <1>6 DEF RecordPin, NoPin
  <2> QED
    BY <2>1, PinIdle
<1>7. CASE LiftHold
  <2>1. pin'.pc = "idle" /\ pin'.id = 0
    BY <1>7 DEF LiftHold, NoPin
  <2> QED
    BY <2>1, PinIdle
<1>8. CASE PruneNext
  <2>1. pin'.pc = "idle" /\ pin'.id = 0
    BY <1>8 DEF PruneNext, DeletionLockFree, actors, PinInv
  <2> QED
    BY <2>1, PinIdle
<1>9. CASE ListDeleted
  <2>1. UNCHANGED <<recs, held, pin, torn, work>> /\ purge'.id = purge.id
    BY <1>9 DEF ListDeleted, storage, NoPurge, PurgeInv
  <2>20. pin' = pin /\ torn \subseteq torn' /\ (pin.id # 0 => pin.id \in Ids /\ purge.id = 0 /\ recs[pin.id].status # "none")
         /\ purge'.id = purge.id
    BY <2>1, IdFacts DEF TypeOK, Pins, PinInv
  <2>21. ASSUME pin.id # 0 PROVE recs'[pin.id].status # "none"
    BY <2>20, <2>21, <2>1
  <2>22. ASSUME pin.id # 0, ~IsPartial(pin.id)
         PROVE  /\ recs'[pin.id].status = recs[pin.id].status /\ recs'[pin.id].pinned = recs[pin.id].pinned /\ recs'[pin.id].hold = recs[pin.id].hold
                /\ pin.id \in work'.todo => Torn(pin.id)'
                /\ ~Torn(pin.id)' => recs'[pin.id].key = recs[pin.id].key /\ (pin.key \in held' <=> pin.key \in held)
    <3>1. pin.id \in work.todo => Torn(pin.id)'
      BY <2>20, <2>22 DEF PinInv, Torn
    <3>2. Torn(pin.id) => Torn(pin.id)'
      BY <2>20 DEF Torn
    <3> QED
      BY <2>20, <2>22, <3>1, <3>2, <2>1
  <2> QED
    BY <2>20, <2>21, <2>22, PinStays
<1>10. ASSUME NEW i \in Ids, BeginPurge(i) PROVE PinInv'
  <2>1. pin'.pc = "idle" /\ pin'.id = 0
    BY <1>10 DEF BeginPurge, DeletionLockFree, actors, PinInv
  <2> QED
    BY <2>1, PinIdle
<1>11. CASE PurgeCopy
  <2>1. pin'.pc = "idle" /\ pin'.id = 0
    BY <1>11 DEF PurgeCopy, PinInv, PurgeInv
  <2> QED
    BY <2>1, PinIdle
<1>12. CASE RecordCopyPurged
  <2>1. pin'.pc = "idle" /\ pin'.id = 0
    BY <1>12 DEF RecordCopyPurged, PinInv, PurgeInv
  <2> QED
    BY <2>1, PinIdle
<1>13. CASE LiftTombstone
  <2>1. pin'.pc = "idle" /\ pin'.id = 0
    BY <1>13 DEF LiftTombstone, PinInv, PurgeInv
  <2> QED
    BY <2>1, PinIdle
<1>14. CASE PurgeArchive
  <2>1. pin'.pc = "idle" /\ pin'.id = 0
    BY <1>14 DEF PurgeArchive, PinInv, PurgeInv
  <2> QED
    BY <2>1, PinIdle
<1>15. CASE MarkPurged
  <2>1. pin'.pc = "idle" /\ pin'.id = 0
    BY <1>15 DEF MarkPurged, PinInv, PurgeInv
  <2> QED
    BY <2>1, PinIdle
<1>16. CASE PurgeFails
  <2>1. pin'.pc = "idle" /\ pin'.id = 0
    BY <1>16 DEF PurgeFails, PinInv, PurgeInv
  <2> QED
    BY <2>1, PinIdle
<1>17. CASE Trigger
  <2>1. UNCHANGED <<recs, held, purge, pin, torn>> /\ work'.todo = {}
    BY <1>17 DEF Trigger, storage, actors, NoWork
  <2>20. pin' = pin /\ torn \subseteq torn' /\ (pin.id # 0 => pin.id \in Ids /\ purge.id = 0 /\ recs[pin.id].status # "none")
         /\ purge'.id = purge.id
    BY <2>1, IdFacts DEF TypeOK, Pins, PinInv
  <2>21. ASSUME pin.id # 0 PROVE recs'[pin.id].status # "none"
    BY <2>20, <2>21, <2>1
  <2>22. ASSUME pin.id # 0, ~IsPartial(pin.id)
         PROVE  /\ recs'[pin.id].status = recs[pin.id].status /\ recs'[pin.id].pinned = recs[pin.id].pinned /\ recs'[pin.id].hold = recs[pin.id].hold
                /\ pin.id \in work'.todo => Torn(pin.id)'
                /\ ~Torn(pin.id)' => recs'[pin.id].key = recs[pin.id].key /\ (pin.key \in held' <=> pin.key \in held)
    <3>1. pin.id \in work.todo => Torn(pin.id)'
      BY <2>20, <2>22 DEF PinInv, Torn
    <3>2. Torn(pin.id) => Torn(pin.id)'
      BY <2>20 DEF Torn
    <3> QED
      BY <2>20, <2>22, <3>1, <3>2, <2>1
  <2> QED
    BY <2>20, <2>21, <2>22, PinStays
<1>18. CASE Resume
  <2>1. UNCHANGED <<recs, held, purge, pin, torn>> /\ work'.todo = {}
    BY <1>18 DEF Resume, storage, actors, NoWork
  <2>20. pin' = pin /\ torn \subseteq torn' /\ (pin.id # 0 => pin.id \in Ids /\ purge.id = 0 /\ recs[pin.id].status # "none")
         /\ purge'.id = purge.id
    BY <2>1, IdFacts DEF TypeOK, Pins, PinInv
  <2>21. ASSUME pin.id # 0 PROVE recs'[pin.id].status # "none"
    BY <2>20, <2>21, <2>1
  <2>22. ASSUME pin.id # 0, ~IsPartial(pin.id)
         PROVE  /\ recs'[pin.id].status = recs[pin.id].status /\ recs'[pin.id].pinned = recs[pin.id].pinned /\ recs'[pin.id].hold = recs[pin.id].hold
                /\ pin.id \in work'.todo => Torn(pin.id)'
                /\ ~Torn(pin.id)' => recs'[pin.id].key = recs[pin.id].key /\ (pin.key \in held' <=> pin.key \in held)
    <3>1. pin.id \in work.todo => Torn(pin.id)'
      BY <2>20, <2>22 DEF PinInv, Torn
    <3>2. Torn(pin.id) => Torn(pin.id)'
      BY <2>20 DEF Torn
    <3> QED
      BY <2>20, <2>22, <3>1, <3>2, <2>1
  <2> QED
    BY <2>20, <2>21, <2>22, PinStays
<1>19. CASE CleanUp
  <2>1. UNCHANGED <<held, purge, pin, torn>> /\ item.id # 0 /\ item.id \in Backups /\ work'.todo = {}
        /\ (UNCHANGED recs \/ Discard(FALSE))
    BY <1>19, CleanUpMoves
  <2>2. \A j \in Ids : /\ recs[j].status # "none" => recs'[j].status # "none"
                       /\ ~IsPartial(j) => Same(j)
    <3>1. CASE UNCHANGED recs
      BY <3>1 DEF Same
    <3>2. CASE Discard(FALSE)
      BY <2>1, <3>2, DiscardDoes, IdFacts DEF Same
    <3> QED
      BY <2>1, <3>1, <3>2
  <2>20. pin' = pin /\ torn \subseteq torn' /\ (pin.id # 0 => pin.id \in Ids /\ purge.id = 0 /\ recs[pin.id].status # "none")
         /\ purge'.id = purge.id
    BY <2>1, IdFacts DEF TypeOK, Pins, PinInv
  <2>21. ASSUME pin.id # 0 PROVE recs'[pin.id].status # "none"
    BY <2>20, <2>21, <2>2
  <2>22. ASSUME pin.id # 0, ~IsPartial(pin.id)
         PROVE  /\ recs'[pin.id].status = recs[pin.id].status /\ recs'[pin.id].pinned = recs[pin.id].pinned /\ recs'[pin.id].hold = recs[pin.id].hold
                /\ pin.id \in work'.todo => Torn(pin.id)'
                /\ ~Torn(pin.id)' => recs'[pin.id].key = recs[pin.id].key /\ (pin.key \in held' <=> pin.key \in held)
    <3>1. pin.id \in work.todo => Torn(pin.id)'
      BY <2>20, <2>22 DEF PinInv, Torn
    <3>2. Torn(pin.id) => Torn(pin.id)'
      BY <2>20 DEF Torn
    <3> QED
      BY <2>20, <2>22, <3>1, <3>2, <2>1, <2>2 DEF Same
  <2> QED
    BY <2>20, <2>21, <2>22, PinStays
<1>20. CASE ListBackups
  <2>1. UNCHANGED <<recs, held, purge, pin>> /\ torn \subseteq torn' /\ (pin.id \in work'.todo => <<"hold", Of(pin.id)>> \in torn')
    BY <1>20, ListBackupsMoves
  <2>20. pin' = pin /\ torn \subseteq torn' /\ (pin.id # 0 => pin.id \in Ids /\ purge.id = 0 /\ recs[pin.id].status # "none")
         /\ purge'.id = purge.id
    BY <2>1, IdFacts DEF TypeOK, Pins, PinInv
  <2>21. ASSUME pin.id # 0 PROVE recs'[pin.id].status # "none"
    BY <2>20, <2>21, <2>1
  <2>22. ASSUME pin.id # 0, ~IsPartial(pin.id)
         PROVE  /\ recs'[pin.id].status = recs[pin.id].status /\ recs'[pin.id].pinned = recs[pin.id].pinned /\ recs'[pin.id].hold = recs[pin.id].hold
                /\ pin.id \in work'.todo => Torn(pin.id)'
                /\ ~Torn(pin.id)' => recs'[pin.id].key = recs[pin.id].key /\ (pin.key \in held' <=> pin.key \in held)
    <3>1. pin.id \in work.todo => Torn(pin.id)'
      BY <2>20, <2>22 DEF PinInv, Torn
    <3>2. Torn(pin.id) => Torn(pin.id)'
      BY <2>20 DEF Torn
    <3> QED
      BY <2>20, <2>22, <3>1, <3>2, <2>1 DEF Torn
  <2> QED
    BY <2>20, <2>21, <2>22, PinStays
<1>21. ASSUME NEW i \in Ids, Process(i) PROVE PinInv'
  <2>1. UNCHANGED <<recs, held, purge, pin, torn>> /\ work'.todo \subseteq work.todo
    BY <1>21, ProcessMoves DEF Process, storage, actors
  <2>20. pin' = pin /\ torn \subseteq torn' /\ (pin.id # 0 => pin.id \in Ids /\ purge.id = 0 /\ recs[pin.id].status # "none")
         /\ purge'.id = purge.id
    BY <2>1, IdFacts DEF TypeOK, Pins, PinInv
  <2>21. ASSUME pin.id # 0 PROVE recs'[pin.id].status # "none"
    BY <2>20, <2>21, <2>1
  <2>22. ASSUME pin.id # 0, ~IsPartial(pin.id)
         PROVE  /\ recs'[pin.id].status = recs[pin.id].status /\ recs'[pin.id].pinned = recs[pin.id].pinned /\ recs'[pin.id].hold = recs[pin.id].hold
                /\ pin.id \in work'.todo => Torn(pin.id)'
                /\ ~Torn(pin.id)' => recs'[pin.id].key = recs[pin.id].key /\ (pin.key \in held' <=> pin.key \in held)
    <3>1. pin.id \in work.todo => Torn(pin.id)'
      BY <2>20, <2>22 DEF PinInv, Torn
    <3>2. Torn(pin.id) => Torn(pin.id)'
      BY <2>20 DEF Torn
    <3> QED
      BY <2>20, <2>22, <3>1, <3>2, <2>1
  <2> QED
    BY <2>20, <2>21, <2>22, PinStays
<1>22. CASE CopyArchive
  <2>1. UNCHANGED <<recs, held, purge, pin, torn>> /\ work'.todo \subseteq work.todo
    BY <1>22 DEF CopyArchive, storage, actors, TypeOK, Works
  <2>20. pin' = pin /\ torn \subseteq torn' /\ (pin.id # 0 => pin.id \in Ids /\ purge.id = 0 /\ recs[pin.id].status # "none")
         /\ purge'.id = purge.id
    BY <2>1, IdFacts DEF TypeOK, Pins, PinInv
  <2>21. ASSUME pin.id # 0 PROVE recs'[pin.id].status # "none"
    BY <2>20, <2>21, <2>1
  <2>22. ASSUME pin.id # 0, ~IsPartial(pin.id)
         PROVE  /\ recs'[pin.id].status = recs[pin.id].status /\ recs'[pin.id].pinned = recs[pin.id].pinned /\ recs'[pin.id].hold = recs[pin.id].hold
                /\ pin.id \in work'.todo => Torn(pin.id)'
                /\ ~Torn(pin.id)' => recs'[pin.id].key = recs[pin.id].key /\ (pin.key \in held' <=> pin.key \in held)
    <3>1. pin.id \in work.todo => Torn(pin.id)'
      BY <2>20, <2>22 DEF PinInv, Torn
    <3>2. Torn(pin.id) => Torn(pin.id)'
      BY <2>20 DEF Torn
    <3> QED
      BY <2>20, <2>22, <3>1, <3>2, <2>1
  <2> QED
    BY <2>20, <2>21, <2>22, PinStays
<1>23. CASE HoldNew
  <2>1. UNCHANGED <<recs, purge, pin, torn>> /\ work'.todo = work.todo /\ held \subseteq held'
        /\ held' \subseteq held \cup {item.new} /\ Making
    BY <1>23 DEF HoldNew, actors, TypeOK, Works, Making
  <2>2. pin.key # item.new
    BY <2>1 DEF ActorKeys
  <2>20. pin' = pin /\ torn \subseteq torn' /\ (pin.id # 0 => pin.id \in Ids /\ purge.id = 0 /\ recs[pin.id].status # "none")
         /\ purge'.id = purge.id
    BY <2>1, IdFacts DEF TypeOK, Pins, PinInv
  <2>21. ASSUME pin.id # 0 PROVE recs'[pin.id].status # "none"
    BY <2>20, <2>21, <2>1
  <2>22. ASSUME pin.id # 0, ~IsPartial(pin.id)
         PROVE  /\ recs'[pin.id].status = recs[pin.id].status /\ recs'[pin.id].pinned = recs[pin.id].pinned /\ recs'[pin.id].hold = recs[pin.id].hold
                /\ pin.id \in work'.todo => Torn(pin.id)'
                /\ ~Torn(pin.id)' => recs'[pin.id].key = recs[pin.id].key /\ (pin.key \in held' <=> pin.key \in held)
    <3>1. pin.id \in work.todo => Torn(pin.id)'
      BY <2>20, <2>22 DEF PinInv, Torn
    <3>2. Torn(pin.id) => Torn(pin.id)'
      BY <2>20 DEF Torn
    <3> QED
      BY <2>20, <2>22, <3>1, <3>2, <2>1, <2>2
  <2> QED
    BY <2>20, <2>21, <2>22, PinStays
<1>24. CASE SwapBackupArchive
  <2> DEFINE b == item.id
             t == Tombstone(b)
  <2>0. /\ b \in Backups /\ recs[b].status \notin {"deleted", "purged"} /\ recs[t].status = "none" /\ (\A j \in Ids : j \notin {b, t} => Same(j))
        /\ recs'[b].status = recs[b].status /\ recs'[b].key = item.new /\ recs'[b].copy = RequeueCopies(recs[b].copy)
        /\ recs'[t].status = "deleted" /\ recs'[t].key = recs[b].key /\ recs'[t].copy = recs[b].copy
    BY <1>24, SwapBackupArchiveDoes
  <2>1. b \in Ids /\ t \in Ids /\ t # b /\ ~IsPartial(b) /\ ~IsPartial(t) /\ recs[b].status # "none" /\ recs[t].copy.status = "none"
    BY <2>0, IdFacts DEF RecordKeys, CopyInv
  <2>2. item' = item /\ work'.pc = "persist" /\ UNCHANGED <<held, copies, purge, pin, attempt, torn>> /\ Making
    BY <1>24, SwapMoves
  <2>3. recs'[b].pinned = recs[b].pinned /\ recs'[b].hold = recs[b].hold /\ work'.todo \subseteq work.todo /\ b \in work.todo
    BY <1>24, SwapBackupArchiveDoes, SwapMoves
  <2>20. pin' = pin /\ torn \subseteq torn' /\ (pin.id # 0 => pin.id \in Ids /\ purge.id = 0 /\ recs[pin.id].status # "none")
         /\ purge'.id = purge.id
    BY <2>2, IdFacts DEF TypeOK, Pins, PinInv
  <2>21. ASSUME pin.id # 0 PROVE recs'[pin.id].status # "none"
    BY <2>20, <2>21, <2>0, <2>1 DEF Same
  <2>22. ASSUME pin.id # 0, ~IsPartial(pin.id)
         PROVE  /\ recs'[pin.id].status = recs[pin.id].status /\ recs'[pin.id].pinned = recs[pin.id].pinned /\ recs'[pin.id].hold = recs[pin.id].hold
                /\ pin.id \in work'.todo => Torn(pin.id)'
                /\ ~Torn(pin.id)' => recs'[pin.id].key = recs[pin.id].key /\ (pin.key \in held' <=> pin.key \in held)
    <3>1. pin.id \in work.todo => Torn(pin.id)'
      BY <2>20, <2>22 DEF PinInv, Torn
    <3>2. Torn(pin.id) => Torn(pin.id)'
      BY <2>20 DEF Torn
    <3> QED
      BY <2>20, <2>22, <3>1, <3>2, <2>0, <2>1, <2>2, <2>3 DEF Same, PinInv, Torn
  <2> QED
    BY <2>20, <2>21, <2>22, PinStays
<1>25. CASE RemoveNew
  <2> DEFINE c == Partial(item.id)
  <2>0. /\ item.id \in Backups /\ c \in Ids /\ IsPartial(c) /\ (\A j \in Ids : j # c => Same(j))
        /\ (Same(c) \/ (recs'[c].status = "deleted" /\ recs'[c].key = item.new /\ recs'[c].copy = NoCopy))
    BY <1>25, RemoveNewDoes, DiscardDoes, IdFacts
  <2>1. recs[c].copy.status = "none" /\ recs'[c].copy.status = "none"
    BY <2>0 DEF CopyInv, NoCopy, Same
  <2>2. UNCHANGED <<held, copies, purge, pin, attempt, torn>>
    BY <1>25, SwapMoves
  <2>3. work'.todo \subseteq work.todo
    BY <1>25, SwapMoves
  <2>20. pin' = pin /\ torn \subseteq torn' /\ (pin.id # 0 => pin.id \in Ids /\ purge.id = 0 /\ recs[pin.id].status # "none")
         /\ purge'.id = purge.id
    BY <2>2, IdFacts DEF TypeOK, Pins, PinInv
  <2>21. ASSUME pin.id # 0 PROVE recs'[pin.id].status # "none"
    BY <2>20, <2>21, <2>0 DEF Same
  <2>22. ASSUME pin.id # 0, ~IsPartial(pin.id)
         PROVE  /\ recs'[pin.id].status = recs[pin.id].status /\ recs'[pin.id].pinned = recs[pin.id].pinned /\ recs'[pin.id].hold = recs[pin.id].hold
                /\ pin.id \in work'.todo => Torn(pin.id)'
                /\ ~Torn(pin.id)' => recs'[pin.id].key = recs[pin.id].key /\ (pin.key \in held' <=> pin.key \in held)
    <3>1. pin.id \in work.todo => Torn(pin.id)'
      BY <2>20, <2>22 DEF PinInv, Torn
    <3>2. Torn(pin.id) => Torn(pin.id)'
      BY <2>20 DEF Torn
    <3> QED
      BY <2>20, <2>22, <3>1, <3>2, <2>0, <2>2, <2>3 DEF Same
  <2> QED
    BY <2>20, <2>21, <2>22, PinStays
<1>26. CASE Persist
  <2>1. UNCHANGED <<recs, held, purge, pin, torn>> /\ work'.todo \subseteq work.todo
    BY <1>26, PersistMoves DEF Persist, storage, actors
  <2>20. pin' = pin /\ torn \subseteq torn' /\ (pin.id # 0 => pin.id \in Ids /\ purge.id = 0 /\ recs[pin.id].status # "none")
         /\ purge'.id = purge.id
    BY <2>1, IdFacts DEF TypeOK, Pins, PinInv
  <2>21. ASSUME pin.id # 0 PROVE recs'[pin.id].status # "none"
    BY <2>20, <2>21, <2>1
  <2>22. ASSUME pin.id # 0, ~IsPartial(pin.id)
         PROVE  /\ recs'[pin.id].status = recs[pin.id].status /\ recs'[pin.id].pinned = recs[pin.id].pinned /\ recs'[pin.id].hold = recs[pin.id].hold
                /\ pin.id \in work'.todo => Torn(pin.id)'
                /\ ~Torn(pin.id)' => recs'[pin.id].key = recs[pin.id].key /\ (pin.key \in held' <=> pin.key \in held)
    <3>1. pin.id \in work.todo => Torn(pin.id)'
      BY <2>20, <2>22 DEF PinInv, Torn
    <3>2. Torn(pin.id) => Torn(pin.id)'
      BY <2>20 DEF Torn
    <3> QED
      BY <2>20, <2>22, <3>1, <3>2, <2>1
  <2> QED
    BY <2>20, <2>21, <2>22, PinStays
<1>27. CASE Finish
  <2>1. UNCHANGED <<recs, held, purge, pin, torn>> /\ work'.todo = {}
    BY <1>27 DEF Finish, storage, actors, NoWork
  <2>20. pin' = pin /\ torn \subseteq torn' /\ (pin.id # 0 => pin.id \in Ids /\ purge.id = 0 /\ recs[pin.id].status # "none")
         /\ purge'.id = purge.id
    BY <2>1, IdFacts DEF TypeOK, Pins, PinInv
  <2>21. ASSUME pin.id # 0 PROVE recs'[pin.id].status # "none"
    BY <2>20, <2>21, <2>1
  <2>22. ASSUME pin.id # 0, ~IsPartial(pin.id)
         PROVE  /\ recs'[pin.id].status = recs[pin.id].status /\ recs'[pin.id].pinned = recs[pin.id].pinned /\ recs'[pin.id].hold = recs[pin.id].hold
                /\ pin.id \in work'.todo => Torn(pin.id)'
                /\ ~Torn(pin.id)' => recs'[pin.id].key = recs[pin.id].key /\ (pin.key \in held' <=> pin.key \in held)
    <3>1. pin.id \in work.todo => Torn(pin.id)'
      BY <2>20, <2>22 DEF PinInv, Torn
    <3>2. Torn(pin.id) => Torn(pin.id)'
      BY <2>20 DEF Torn
    <3> QED
      BY <2>20, <2>22, <3>1, <3>2, <2>1
  <2> QED
    BY <2>20, <2>21, <2>22, PinStays
<1>28. ASSUME NEW i \in Ids, TimePasses(i) PROVE PinInv'
  <2>1. UNCHANGED <<held, pin, torn, work, purge>> /\ KeepsKeys /\ KeepsHolds /\ (\A j \in Ids : recs'[j].status = recs[j].status)
    BY <1>28, TimePassesDoes DEF TimePasses, storage, actors, KeepsKeys, KeepsHolds, Same
  <2>20. pin' = pin /\ torn \subseteq torn' /\ (pin.id # 0 => pin.id \in Ids /\ purge.id = 0 /\ recs[pin.id].status # "none")
         /\ purge'.id = purge.id
    BY <2>1, IdFacts DEF TypeOK, Pins, PinInv
  <2>21. ASSUME pin.id # 0 PROVE recs'[pin.id].status # "none"
    BY <2>20, <2>21, <2>1
  <2>22. ASSUME pin.id # 0, ~IsPartial(pin.id)
         PROVE  /\ recs'[pin.id].status = recs[pin.id].status /\ recs'[pin.id].pinned = recs[pin.id].pinned /\ recs'[pin.id].hold = recs[pin.id].hold
                /\ pin.id \in work'.todo => Torn(pin.id)'
                /\ ~Torn(pin.id)' => recs'[pin.id].key = recs[pin.id].key /\ (pin.key \in held' <=> pin.key \in held)
    <3>1. pin.id \in work.todo => Torn(pin.id)'
      BY <2>20, <2>22 DEF PinInv, Torn
    <3>2. Torn(pin.id) => Torn(pin.id)'
      BY <2>20 DEF Torn
    <3> QED
      BY <2>20, <2>22, <3>1, <3>2, <2>1 DEF KeepsKeys, KeepsHolds
  <2> QED
    BY <2>20, <2>21, <2>22, PinStays
<1>29. CASE Crash
  <2>1. pin'.pc = "idle" /\ pin'.id = 0
    BY <1>29 DEF Crash, NoPin
  <2> QED
    BY <2>1, PinIdle
<1>30. CASE FailJob
  <2>1. UNCHANGED <<recs, held, purge, pin, torn>> /\ work'.todo \subseteq work.todo
    BY <1>30, FailJobMoves
  <2>2. pin.id # 0 => purge.id = 0 /\ recs[pin.id].status # "none"
    BY DEF PinInv
  <2>3. pin.id # 0 /\ ~IsPartial(pin.id) /\ pin.id \in work'.todo => Torn(pin.id)'
    BY <2>1 DEF PinInv, Torn
  <2> QED
    BY <2>1, <2>2, <2>3, PinStays
<1>31. CASE RemoveNewFails
  <2>1. UNCHANGED <<recs, held, purge, pin, torn>> /\ work'.todo \subseteq work.todo
    BY <1>31, RemoveNewFailsMoves
  <2>2. pin.id # 0 => purge.id = 0 /\ recs[pin.id].status # "none"
    BY DEF PinInv
  <2>3. pin.id # 0 /\ ~IsPartial(pin.id) /\ pin.id \in work'.todo => Torn(pin.id)'
    BY <2>1 DEF PinInv, Torn
  <2> QED
    BY <2>1, <2>2, <2>3, PinStays
<1> QED
  BY <1>1, <1>2, <1>3, <1>4, <1>5, <1>6, <1>7, <1>8, <1>9, <1>10, <1>11, <1>12, <1>13, <1>14, <1>15, <1>16, <1>17,
     <1>18, <1>19, <1>20, <1>21, <1>22, <1>23, <1>24, <1>25, <1>26, <1>27, <1>28, <1>29, <1>30, <1>31, KeysWriters,
     StatusWriters, HoldWriters, HeldWriters, PurgeWriters, PinWriters, WorkWriters, TornWriters

\* PinnedInv is preserved: what is pinned is completed, what is held not purged.
LEMMA PinnedInvNext ==
  ASSUME Inv, TypeOK', Next
  PROVE  PinnedInv'
<1> USE DEF Inv
<1>1. CASE KeepsStatus /\ KeepsHolds
  BY <1>1 DEF KeepsStatus, KeepsHolds, PinnedInv
<1>2. ASSUME NEW i \in Ids, DeleteBackup(i) PROVE PinnedInv'
  <2>1. (\A j \in Ids : j # i => Same(j)) /\ ~recs[i].pinned /\ recs[i].status # "none" /\ recs'[i].status = "deleted"
        /\ recs'[i].pinned = recs[i].pinned /\ recs'[i].hold = recs[i].hold
    BY <1>2, DeleteBackupDoes DEF DeleteBackup
  <2> QED
    BY <2>1 DEF PinnedInv, Same
<1>3. ASSUME NEW i \in Ids, UndeleteBackup(i) PROVE PinnedInv'
  <2>1. (\A j \in Ids : j # i => Same(j)) /\ recs[i].status = "deleted" /\ recs'[i].pinned = recs[i].pinned
        /\ recs'[i].hold = recs[i].hold
        /\ recs'[i].status # "none" /\ (~IsPartial(i) => recs'[i].status = "completed")
    BY <1>3, UndeleteBackupDoes
  <2> QED
    BY <2>1 DEF PinnedInv, Same
<1>4. ASSUME NEW i \in Ids, BeginUnpin(i) PROVE PinnedInv'
  <2>1. (\A j \in Ids : j # i => Same(j)) /\ recs'[i].status = recs[i].status /\ recs'[i].pinned = FALSE /\ recs'[i].hold = FALSE
    BY <1>4, BeginUnpinDoes
  <2> QED
    BY <2>1 DEF PinnedInv, Same
<1>5. CASE RecordPin
  <2>1. pin.id \in Ids /\ (\A j \in Ids : j # pin.id => Same(j)) /\ recs'[pin.id].status = recs[pin.id].status
        /\ recs'[pin.id].pinned = TRUE
    BY <1>5, RecordPinDoes
  <2>2. recs[pin.id].status # "none" /\ (~IsPartial(pin.id) => recs[pin.id].status = "completed")
    BY <1>5, <2>1, IdFacts DEF RecordPin, PinInv
  <2> QED
    BY <2>1, <2>2 DEF PinnedInv, Same
<1>6. CASE LiftHold
  <2>1. /\ pin.pc = "unpin" /\ pin.id \in Ids /\ (\A j \in Ids : j # pin.id => Same(j))
        /\ (Same(pin.id) \/ (recs'[pin.id].status = recs[pin.id].status /\ recs'[pin.id].pinned = pin.was))
    BY <1>6, LiftHoldDoes
  <2>2. recs[pin.id].status # "none"
        /\ (~IsPartial(pin.id) => recs[pin.id].status \in {"completed", "deleted"} /\ (pin.was => recs[pin.id].status = "completed") /\ (pin.id \in Backups => pin.was))
    BY <2>1, IdFacts DEF PinInv
  <2> QED
    BY <2>1, <2>2 DEF PinnedInv, Same
<1>7. CASE PruneNext
  <2>1. CASE \A j \in Ids : Same(j)
    BY <2>1 DEF PinnedInv, Same
  <2>2. ASSUME NEW i \in Ids, ~PruneRefused(i), \A j \in Ids : j # i => Same(j),
               recs'[i].status = "deleted", recs'[i].pinned = recs[i].pinned, recs'[i].hold = recs[i].hold
        PROVE  PinnedInv'
    <3>1. ~recs[i].pinned /\ recs[i].status = "completed"
      BY <2>2 DEF PruneRefused
    <3> QED
      BY <2>2, <3>1 DEF PinnedInv, Same
  <2> QED
    BY <1>7, <2>1, <2>2, PruneNextDoes
<1>8. CASE MarkPurged
  <2>1. /\ purge.id \in Ids /\ (\A j \in Ids : j # purge.id => Same(j))
        /\ (Same(purge.id) \/ (recs'[purge.id].status = "purged" /\ ~recs[purge.id].pinned /\ recs'[purge.id].pinned = recs[purge.id].pinned /\ ~recs'[purge.id].hold))
    BY <1>8, MarkPurgedDoes DEF PurgeDue
  <2> QED
    BY <2>1 DEF PinnedInv, Same
<1>9. CASE CleanUp
  <2>1. UNCHANGED <<held, copies, purge, pin, attempt, torn>> /\ item.id # 0
    BY <1>9, CleanUpMoves
  <2>2. CASE UNCHANGED recs
    BY <2>1, <2>2 DEF PinnedInv
  <2>3. CASE Discard(FALSE)
    <3> DEFINE c == Partial(item.id)
    <3>0. /\ item.id \in Backups /\ c \in Ids /\ IsPartial(c) /\ (\A j \in Ids : j # c => Same(j))
          /\ (Same(c) \/ (recs'[c].status = "deleted" /\ recs'[c].key = item.new /\ recs'[c].copy = NoCopy))
      BY <2>1, <2>3, DiscardDoes, IdFacts
    <3>1. recs[c].copy.status = "none" /\ recs'[c].copy.status = "none"
      BY <3>0 DEF CopyInv, NoCopy, Same
    <3> QED
      BY <2>1, <3>0, <3>1 DEF PinnedInv, Same
  <2> QED
    BY <1>9, <2>2, <2>3, CleanUpMoves
<1>10. CASE SwapBackupArchive
  <2> DEFINE b == item.id
             t == Tombstone(b)
  <2>1. /\ b \in Backups /\ (\A j \in Ids : j \notin {b, t} => Same(j))
        /\ recs'[b].status = recs[b].status /\ recs'[b].pinned = recs[b].pinned /\ recs'[b].hold = recs[b].hold
        /\ recs'[t].status = "deleted" /\ recs'[t].pinned = FALSE
    BY <1>10, SwapBackupArchiveDoes
  <2>2. b \in Ids /\ t \in Ids /\ t \notin Backups
    BY <2>1, IdFacts
  <2> QED
    BY <2>1, <2>2 DEF PinnedInv, Same
<1>11. CASE RemoveNew
  <2> DEFINE c == Partial(item.id)
  <2>0. /\ item.id \in Backups /\ c \in Ids /\ IsPartial(c) /\ (\A j \in Ids : j # c => Same(j))
        /\ (Same(c) \/ (recs'[c].status = "deleted" /\ recs'[c].key = item.new /\ recs'[c].copy = NoCopy))
    BY <1>11, RemoveNewDoes, DiscardDoes, IdFacts
  <2>1. recs[c].copy.status = "none" /\ recs'[c].copy.status = "none"
    BY <2>0 DEF CopyInv, NoCopy, Same
  <2>2. UNCHANGED <<held, copies, purge, pin, attempt, torn>>
    BY <1>11, SwapMoves
  <2> QED
    BY <2>0 DEF PinnedInv, Same
<1>12. ASSUME NEW i \in Ids, TimePasses(i) PROVE PinnedInv'
  <2>1. KeepsHolds /\ \A j \in Ids : recs'[j].status = recs[j].status
    BY <1>12, TimePassesDoes DEF KeepsHolds, Same
  <2> QED
    BY <2>1 DEF PinnedInv, KeepsHolds
<1> QED
  BY <1>1, <1>2, <1>3, <1>4, <1>5, <1>6, <1>7, <1>8, <1>9, <1>10, <1>11, <1>12, StatusWriters, HoldWriters

\* PinKeys is preserved: the key a pin was begun with stays with its backup.
LEMMA PinKeysNext ==
  ASSUME Inv, TypeOK', Next
  PROVE  PinKeys'
<1> USE DEF Inv
<1>1. CASE KeepsKeys /\ UNCHANGED <<pin, job>>
  BY <1>1 DEF KeepsKeys, PinKeys, item
<1>2. ASSUME NEW i \in Ids, BeginPin(i) PROVE PinKeys'
  <2>1. UNCHANGED <<job>> /\ KeepsKeys /\ i # 0
    BY <1>2, IdFacts DEF BeginPin, KeepsKeys
  <2>2. pin'.id = 0 \/ (pin'.id = i /\ pin'.key = recs[i].key /\ recs[i].status # "none")
    BY <1>2 DEF BeginPin, NoPin, PinnedInv
  <2>3. ASSUME recs[i].status # "none"
        PROVE  /\ recs[i].key # 0 /\ \A j \in Ids : recs[j].key = recs[i].key => Of(j) = Of(i)
               /\ item.id # 0 /\ item.new = recs[i].key => Of(i) = item.id
    <3>1. recs[i].key # 0 /\ \A j \in Ids : recs[j].key = recs[i].key => j = i
      BY <2>3 DEF RecordKeys
    <3>2. item.id # 0 /\ item.new = recs[i].key => Of(i) = item.id
      BY IdFacts DEF ItemKeys, TypeOK, Jobs, Items, item
    <3> QED
      BY <3>1, <3>2
  <2> QED
    BY <2>1, <2>2, <2>3 DEF PinKeys, KeepsKeys, item
<1>3. ASSUME NEW i \in Ids, BeginUnpin(i) PROVE PinKeys'
  <2>1. UNCHANGED <<job>> /\ KeepsKeys /\ i # 0
    BY ZenonT(60), <1>3, BeginUnpinDoes, IdFacts DEF BeginUnpin, KeepsKeys, Same
  <2>2. pin'.id = 0 \/ (pin'.id = i /\ pin'.key = recs[i].key /\ recs[i].status # "none")
    BY <1>3 DEF BeginUnpin, NoPin, PinnedInv
  <2>3. ASSUME recs[i].status # "none"
        PROVE  /\ recs[i].key # 0 /\ \A j \in Ids : recs[j].key = recs[i].key => Of(j) = Of(i)
               /\ item.id # 0 /\ item.new = recs[i].key => Of(i) = item.id
    <3>1. recs[i].key # 0 /\ \A j \in Ids : recs[j].key = recs[i].key => j = i
      BY <2>3 DEF RecordKeys
    <3>2. item.id # 0 /\ item.new = recs[i].key => Of(i) = item.id
      BY IdFacts DEF ItemKeys, TypeOK, Jobs, Items, item
    <3> QED
      BY <3>1, <3>2
  <2> QED
    BY <2>1, <2>2, <2>3 DEF PinKeys, KeepsKeys, item
<1>4. CASE RecordPin
  <2>1. pin'.id = 0
    BY <1>4 DEF RecordPin, NoPin
  <2> QED
    BY <2>1 DEF PinKeys
<1>5. CASE LiftHold
  <2>1. pin'.id = 0
    BY <1>5 DEF LiftHold, NoPin
  <2> QED
    BY <2>1 DEF PinKeys
<1>6. CASE Trigger
  <2>1. UNCHANGED <<recs, pin>> /\ item' = item
    BY <1>6 DEF Trigger, actors, TypeOK, Jobs, item
  <2> QED
    BY <2>1 DEF PinKeys
<1>7. CASE CleanUp
  <2>1. UNCHANGED <<held, copies, purge, pin, attempt, torn>> /\ item.id # 0
    BY <1>7, CleanUpMoves
  <2>2. CASE UNCHANGED recs
    BY <1>7, <2>1, <2>2, CleanUpMoves DEF PinKeys
  <2>3. CASE Discard(FALSE)
    <3> DEFINE c == Partial(item.id)
    <3>0. /\ item.id \in Backups /\ c \in Ids /\ IsPartial(c) /\ (\A j \in Ids : j # c => Same(j))
          /\ (Same(c) \/ (recs'[c].status = "deleted" /\ recs'[c].key = item.new /\ recs'[c].copy = NoCopy))
      BY <2>1, <2>3, DiscardDoes, IdFacts
    <3>1. recs[c].copy.status = "none" /\ recs'[c].copy.status = "none"
      BY <3>0 DEF CopyInv, NoCopy, Same
    <3>2. UNCHANGED <<held, copies, purge, pin, attempt, torn>>
      BY <2>1
    <3>3. Of(c) = item.id
      BY <3>0, IdFacts
    <3>4. item'.id = 0 /\ item.id # 0
      BY <1>7, CleanUpMoves
    <3> QED
      BY <3>0, <3>2, <3>3, <3>4 DEF PinKeys, Same
  <2> QED
    BY <1>7, <2>2, <2>3, CleanUpMoves
<1>8. ASSUME NEW i \in Ids, Process(i) PROVE PinKeys'
  <2>1. UNCHANGED <<recs, pin>> /\ item'.new = Last + 1 /\ Last \in Nat /\ pin.key \in Nat /\ pin.key <= Last
    BY <1>8, ProcessMoves DEF ActorKeys, TypeOK, Pins
  <2>2. item'.new # pin.key
    BY <2>1
  <2> QED
    BY <2>1, <2>2 DEF PinKeys
<1>9. CASE SwapBackupArchive
  <2> DEFINE b == item.id
             t == Tombstone(b)
  <2>0. /\ b \in Backups /\ recs[b].status \notin {"deleted", "purged"} /\ recs[t].status = "none" /\ (\A j \in Ids : j \notin {b, t} => Same(j))
        /\ recs'[b].status = recs[b].status /\ recs'[b].key = item.new /\ recs'[b].copy = RequeueCopies(recs[b].copy)
        /\ recs'[t].status = "deleted" /\ recs'[t].key = recs[b].key /\ recs'[t].copy = recs[b].copy
    BY <1>9, SwapBackupArchiveDoes
  <2>1. b \in Ids /\ t \in Ids /\ t # b /\ ~IsPartial(b) /\ ~IsPartial(t) /\ recs[b].status # "none" /\ recs[t].copy.status = "none"
    BY <2>0, IdFacts DEF RecordKeys, CopyInv
  <2>2. item' = item /\ work'.pc = "persist" /\ UNCHANGED <<held, copies, purge, pin, attempt, torn>> /\ Making
    BY <1>9, SwapMoves
  <2>3. pin.key # item.new /\ Of(t) = Of(b)
    BY <2>0, <2>2, IdFacts DEF ActorKeys
  <2> QED
    BY <2>0, <2>1, <2>2, <2>3 DEF PinKeys, Same
<1>10. CASE RemoveNew
  <2> DEFINE c == Partial(item.id)
  <2>0. /\ item.id \in Backups /\ c \in Ids /\ IsPartial(c) /\ (\A j \in Ids : j # c => Same(j))
        /\ (Same(c) \/ (recs'[c].status = "deleted" /\ recs'[c].key = item.new /\ recs'[c].copy = NoCopy))
    BY <1>10, RemoveNewDoes, DiscardDoes, IdFacts
  <2>1. recs[c].copy.status = "none" /\ recs'[c].copy.status = "none"
    BY <2>0 DEF CopyInv, NoCopy, Same
  <2>2. UNCHANGED <<held, copies, purge, pin, attempt, torn>>
    BY <1>10, SwapMoves
  <2>3. Of(c) = item.id
    BY <2>0, IdFacts
  <2>4. item' = item /\ item.id # 0
    BY <1>10, SwapMoves, MakingFacts
  <2> QED
    BY <2>0, <2>2, <2>3, <2>4 DEF PinKeys, Same
<1>11. CASE Persist
  BY <1>11, PersistMoves DEF PinKeys
<1>12. CASE Finish
  <2>1. UNCHANGED <<recs, pin>> /\ item' = item
    BY <1>12 DEF Finish, actors, TypeOK, Jobs, item
  <2> QED
    BY <2>1 DEF PinKeys
<1>13. CASE Crash
  <2>1. pin'.id = 0
    BY <1>13 DEF Crash, NoPin
  <2> QED
    BY <2>1 DEF PinKeys
<1>14. CASE FailJob
  BY <1>14, FailJobMoves DEF PinKeys
<1> QED
  BY <1>1, <1>2, <1>3, <1>4, <1>5, <1>6, <1>7, <1>8, <1>9, <1>10, <1>11, <1>12, <1>13, <1>14, KeysWriters, PinWriters,
     JobWriters

\* HoldInv is preserved: holds and records agree.
LEMMA HoldInvNext ==
  ASSUME Inv, TypeOK', Next
  PROVE  HoldInv'
<1> USE DEF Inv
<1>1. CASE KeepsKeys /\ KeepsStatus /\ KeepsHolds /\ UNCHANGED <<held, purge, pin, torn>>
  BY <1>1 DEF KeepsKeys, KeepsStatus, KeepsHolds, HoldInv, Torn
<1>2. ASSUME NEW i \in Ids, DeleteBackup(i) PROVE HoldInv'
  <2>1. UNCHANGED <<held, purge, pin, torn>> /\ \A j \in Ids : recs'[j].key = recs[j].key /\ recs'[j].hold = recs[j].hold
        /\ (~IsPartial(j) /\ recs'[j].status \in {"completed", "deleted"} => recs[j].status \in {"completed", "deleted"})
    BY <1>2, DeleteBackupDoes DEF DeleteBackup, storage, actors, Same, PinnedInv
  <2> QED
    BY <2>1, HoldStays
<1>3. ASSUME NEW i \in Ids, UndeleteBackup(i) PROVE HoldInv'
  <2>1. UNCHANGED <<held, purge, pin, torn>> /\ \A j \in Ids : recs'[j].key = recs[j].key /\ recs'[j].hold = recs[j].hold
        /\ (~IsPartial(j) /\ recs'[j].status \in {"completed", "deleted"} => recs[j].status \in {"completed", "deleted"})
    BY <1>3, UndeleteBackupDoes DEF UndeleteBackup, storage, actors, Same, PinnedInv
  <2> QED
    BY <2>1, HoldStays
<1>4. ASSUME NEW i \in Ids, BeginPin(i) PROVE HoldInv'
  <2>1. /\ UNCHANGED <<recs, purge>> /\ purge.id = 0 /\ pin.id = 0 /\ recs[i].status # "none" /\ torn \subseteq torn' /\ pin'.id = i
        /\ held \subseteq held' /\ held' \subseteq held \cup {recs[i].key}
    BY <1>4 DEF BeginPin, DeletionLockFree, PinInv, NoPin
  <2>2. recs[i].key # 0 /\ \A j \in Ids : recs[j].key = recs[i].key => j = i
    BY <2>1 DEF RecordKeys
  <2> QED
    BY <2>1, <2>2, IdFacts, HoldStays
<1>5. ASSUME NEW i \in Ids, BeginUnpin(i) PROVE HoldInv'
  <2>1. /\ UNCHANGED <<held, purge>> /\ pin.id = 0 /\ torn \subseteq torn' /\ (recs[i].hold => pin'.id = i)
    BY <1>5 DEF BeginUnpin, DeletionLockFree, PinInv, storage
  <2>2. (\A j \in Ids : j # i => Same(j)) /\ recs'[i].key = recs[i].key /\ recs'[i].status = recs[i].status /\ ~recs'[i].hold
    BY <1>5, BeginUnpinDoes
  <2>3. recs[i].hold \in BOOLEAN /\ recs'[i].hold \in BOOLEAN
    BY DEF TypeOK, Records
  <2> QED
    BY <2>1, <2>2, <2>3, IdFacts, HoldStays DEF Same
<1>6. CASE RecordPin
  <2> DEFINE p == pin.id
  <2>1. /\ p \in Ids /\ (\A j \in Ids : j # p => Same(j)) /\ recs'[p].key = recs[p].key /\ recs'[p].status = recs[p].status
        /\ recs'[p].hold = (recs[p].hold \/ pin.hold)
    BY <1>6, RecordPinDoes
  <2>2. UNCHANGED <<held, purge, torn>> /\ pin.pc = "pin" /\ purge.id = 0 /\ p # 0
    BY <1>6, IdFacts DEF RecordPin, storage, PinInv
  <2>3. ~IsPartial(p) /\ ~Torn(p) => (recs[p].key \in held <=> pin.hold \/ recs[p].hold)
    BY <2>2 DEF PinInv
  <2> QED
    BY <2>1, <2>2, <2>3, IdFacts DEF HoldInv, Same, Torn
<1>7. CASE LiftHold
  <2> DEFINE p == pin.id
  <2>1. /\ p \in Ids /\ (\A j \in Ids : j # p => Same(j)) /\ recs'[p].key = recs[p].key
        /\ \/ Same(p) /\ held' = held \ {pin.key}
           \/ held' = held /\ recs'[p].hold
    BY <1>7, LiftHoldDoes DEF Same
  <2>2. UNCHANGED <<purge, torn>> /\ pin.pc = "unpin" /\ purge.id = 0 /\ p # 0
    BY <1>7, IdFacts DEF LiftHold, PinInv
  <2>3. ~IsPartial(p) /\ ~Torn(p) => recs[p].key = pin.key /\ pin.key \in held /\ ~recs[p].hold
    BY <2>2 DEF PinInv
  <2>4. ASSUME NEW j \in Ids, ~Torn(j), recs[j].key = pin.key PROVE j = p
    <3>1. Of(j) = Of(p) /\ ~Torn(p) /\ recs[p].status # "none" /\ recs[j].key # 0
      BY <2>2, <2>4 DEF PinKeys, Torn, PinInv
    <3>2. ~IsPartial(p)
      <4>1. IsPartial(p) => p = Partial(Of(p)) /\ Of(p) \in Backups /\ Of(Of(p)) = Of(p)
        BY <2>1, IdFacts
      <4> QED
        BY <3>1, <4>1 DEF PartialInv, Torn
    <3> QED
      BY <2>1, <2>3, <2>4, <3>1, <3>2 DEF RecordKeys
  <2>5. CASE Same(p) /\ held' = held \ {pin.key}
    <3> SUFFICES ASSUME NEW j \in Ids, ~Torn(j), ~IsPartial(j)
                 PROVE  /\ recs'[j].hold /\ ~(purge'.id = j /\ purge'.pc \in {"archive", "mark"}) => recs'[j].key \in held'
                        /\ recs'[j].status \in {"completed", "deleted"} /\ recs'[j].key \in held' => recs'[j].hold
      BY <2>2 DEF HoldInv, Torn
    <3>1. Same(j) /\ (recs[j].key = pin.key => j = p)
      BY <2>1, <2>4, <2>5
    <3>2. CASE j = p
      BY <2>3, <2>5, <3>1, <3>2 DEF Same
    <3>3. CASE j # p
      BY <2>2, <2>5, <3>1, <3>3, IdFacts DEF HoldInv, Same
    <3> QED
      BY <3>2, <3>3
  <2>6. CASE held' = held /\ recs'[p].hold
    BY <2>1, <2>2, <2>3, <2>6, IdFacts DEF HoldInv, Same, Torn
  <2> QED
    BY <2>1, <2>5, <2>6
<1>8. CASE PruneNext
  <2>1. UNCHANGED <<held, purge, pin, torn>> /\ \A j \in Ids : recs'[j].key = recs[j].key /\ recs'[j].hold = recs[j].hold
        /\ (~IsPartial(j) /\ recs'[j].status \in {"completed", "deleted"} => recs[j].status \in {"completed", "deleted"})
    BY <1>8, PruneNextDoes DEF PruneNext, storage, Same, PruneRefused
  <2> QED
    BY <2>1, HoldStays
<1>9. CASE ListDeleted
  <2>1. UNCHANGED <<recs, held, pin>> /\ torn \subseteq torn' /\ purge.id = 0 /\ purge'.id = 0
    BY <1>9, IdFacts DEF ListDeleted, storage, NoPurge, PurgeInv
  <2> QED
    BY <2>1, IdFacts, HoldStays
<1>10. ASSUME NEW i \in Ids, BeginPurge(i) PROVE HoldInv'
  <2>1. UNCHANGED <<recs, held, pin>> /\ torn \subseteq torn' /\ purge.id = 0 /\ purge'.pc \notin {"archive", "mark"}
    BY <1>10, IdFacts DEF BeginPurge, storage, NoPurge, PurgeInv, TypeOK, Purges
  <2> QED
    BY <2>1, IdFacts, HoldStays
<1>11. CASE PurgeCopy
  <2>1. UNCHANGED <<recs, held, pin>> /\ torn \subseteq torn' /\ purge.pc = "copies" /\ purge'.pc = "record"
    BY <1>11, IdFacts DEF PurgeCopy, TypeOK, Purges
  <2> QED
    BY <2>1, IdFacts, HoldStays
<1>12. CASE RecordCopyPurged
  <2>1. UNCHANGED <<held, pin, torn>> /\ purge.pc = "record" /\ purge'.pc = "lift" /\ KeepsKeys /\ KeepsHolds
        /\ \A j \in Ids : recs'[j].status = recs[j].status
    BY <1>12, RecordCopyPurgedDoes DEF RecordCopyPurged, TypeOK, Purges, storage, KeepsKeys, KeepsHolds, Same
  <2> QED
    BY <2>1, HoldStays DEF KeepsKeys, KeepsHolds
<1>13. CASE LiftTombstone
  <2>1. /\ UNCHANGED <<recs, pin, torn>> /\ purge.id \in Ids /\ purge.pc \notin {"archive", "mark"} /\ purge'.pc = "archive" /\ purge'.id = purge.id
        /\ held \ {purge.rec.key} \subseteq held' /\ held' \subseteq held
    BY <1>13, PurgeMoves DEF LiftTombstone, TypeOK, Purges
  <2>2. \A j \in Ids : recs[j].key = purge.rec.key => j = purge.id
    BY <2>1, IdFacts DEF PurgeInv
  <2> QED
    BY <2>1, <2>2, HoldStays
<1>14. CASE PurgeArchive
  <2>1. UNCHANGED <<recs, pin, torn, held>> /\ purge.id \in Ids /\ purge.id # 0 /\ purge.pc = "archive"
    BY <1>14, PurgeMoves, IdFacts DEF PurgeArchive
  <2>2. ~IsPartial(purge.id) => recs[purge.id].key = purge.rec.key
    BY <2>1 DEF PurgeInv
  <2>3. CASE purge' = [purge EXCEPT !.pc = "mark"]
    <3>1. purge'.pc = "mark" /\ purge'.id = purge.id
      BY <2>3 DEF TypeOK, Purges
    <3> QED
      BY <2>1, <3>1, HoldStays
  <2>4. CASE purge.rec.key \in held /\ purge' = PurgeRest
    <3>1. purge'.id = 0
      BY <2>4, PurgeRestFacts
    <3> QED
      BY <2>1, <2>2, <2>4, <3>1, IdFacts, HoldStays
  <2> QED
    BY <1>14, <2>3, <2>4 DEF PurgeArchive
<1>15. CASE MarkPurged
  <2>1. /\ UNCHANGED <<pin, torn, held>> /\ purge.id \in Ids /\ purge.id # 0 /\ (\A j \in Ids : j # purge.id => Same(j))
        /\ (PurgeDue(recs[purge.id]) => recs'[purge.id].status = "purged" /\ ~recs'[purge.id].hold) /\ purge'.id = 0
    BY <1>15, MarkPurgedDoes, PurgeRestFacts, IdFacts DEF MarkPurged, storage
  <2>2. ~IsPartial(purge.id) => PurgeDue(recs[purge.id])
    BY <2>1 DEF PurgeInv, PurgeDue
  <2> QED
    BY <2>1, <2>2, IdFacts DEF HoldInv, Same, Torn
<1>16. CASE PurgeFails
  <2>1. UNCHANGED <<recs, pin, held>> /\ torn \subseteq torn' /\ purge.id \in Ids /\ purge.id # 0 /\ purge'.id = 0
    BY <1>16, PurgeRestFacts, IdFacts DEF PurgeFails, storage, PurgeInv, TypeOK, Purges
  <2>2. purge.pc \in {"archive", "mark"} /\ purge.rec.hold => <<"hold", Of(purge.id)>> \in torn'
    BY <1>16, <2>1 DEF PurgeFails, HoldLifted, Torn
  <2>3. ~IsPartial(purge.id) /\ purge.id # 0 => recs[purge.id].hold = purge.rec.hold
    BY DEF PurgeInv
  <2> QED
    BY <2>1, <2>2, <2>3, IdFacts, HoldStays DEF Torn
<1>17. CASE CleanUp
  <2>1. UNCHANGED <<held, copies, purge, pin, attempt, torn>> /\ item.id # 0
    BY <1>17, CleanUpMoves
  <2>2. CASE UNCHANGED recs
    BY <2>1, <2>2 DEF HoldInv, Torn
  <2>3. CASE Discard(FALSE)
    <3> DEFINE c == Partial(item.id)
    <3>0. /\ item.id \in Backups /\ c \in Ids /\ IsPartial(c) /\ (\A j \in Ids : j # c => Same(j))
          /\ (Same(c) \/ (recs'[c].status = "deleted" /\ recs'[c].key = item.new /\ recs'[c].copy = NoCopy))
      BY <2>1, <2>3, DiscardDoes, IdFacts
    <3>1. recs[c].copy.status = "none" /\ recs'[c].copy.status = "none"
      BY <3>0 DEF CopyInv, NoCopy, Same
    <3>2. UNCHANGED <<held, copies, purge, pin, attempt, torn>>
      BY <2>1
    <3> QED
      BY <3>0, <3>2 DEF HoldInv, Same, Torn
  <2> QED
    BY <1>17, <2>2, <2>3, CleanUpMoves
<1>18. CASE ListBackups
  <2>1. UNCHANGED <<recs, held, pin>> /\ torn \subseteq torn' /\ purge' = purge
    BY <1>18, ListBackupsMoves
  <2> QED
    BY <2>1, HoldStays
<1>19. CASE HoldNew
  <2>1. UNCHANGED <<recs, purge, pin, torn>> /\ held \subseteq held' /\ held' \subseteq held \cup {item.new} /\ Making
    BY <1>19 DEF HoldNew, actors, Making
  <2>2. \A j \in Ids : recs[j].key # item.new
    BY <2>1 DEF ItemKeys
  <2> QED
    BY <2>1, <2>2, HoldStays
<1>20. CASE SwapBackupArchive
  <2> DEFINE b == item.id
             t == Tombstone(b)
  <2>0. /\ b \in Backups /\ recs[b].status \notin {"deleted", "purged"} /\ recs[t].status = "none" /\ (\A j \in Ids : j \notin {b, t} => Same(j))
        /\ recs'[b].status = recs[b].status /\ recs'[b].key = item.new /\ recs'[b].copy = RequeueCopies(recs[b].copy)
        /\ recs'[t].status = "deleted" /\ recs'[t].key = recs[b].key /\ recs'[t].copy = recs[b].copy
    BY <1>20, SwapBackupArchiveDoes
  <2>1. b \in Ids /\ t \in Ids /\ t # b /\ ~IsPartial(b) /\ ~IsPartial(t) /\ recs[b].status # "none" /\ recs[t].copy.status = "none"
    BY <2>0, IdFacts DEF RecordKeys, CopyInv
  <2>2. item' = item /\ work'.pc = "persist" /\ UNCHANGED <<held, copies, purge, pin, attempt, torn>> /\ Making
    BY <1>20, SwapMoves
  <2>3. recs[b].status = "completed" /\ purge.id # b /\ purge.id # t
    BY <2>0, <2>1, IdFacts DEF PinnedInv, PurgeInv, TypeOK, Records
  <2>4. Of(t) = Of(b)
    BY <2>0, IdFacts
  <2>5. recs'[b].hold = recs[b].hold /\ recs'[t].hold = work.seen[b].hold /\ work.pc = "swap" /\ b \in work.todo
    BY <1>20, SwapBackupArchiveDoes
  <2>6. ASSUME ~Torn(b) PROVE recs[b].hold = work.seen[b].hold /\ (item.new \in held <=> recs[b].hold) /\ pin.id # b /\ (recs[b].key \in held <=> recs[b].hold)
    <3>1. recs[b].hold = work.seen[b].hold /\ (item.new \in held <=> recs[b].hold)
      BY <2>5, <2>6 DEF MovingInv
    <3>2. pin.id # b
      BY <2>0, <2>1, <2>5, <2>6, IdFacts DEF PinInv
    <3> QED
      BY <2>1, <2>3, <2>6, <3>1, <3>2 DEF HoldInv
  <2>7. Torn(t) <=> Torn(b)
    BY <2>4 DEF Torn
  <2> HIDE DEF b, t
  <2> QED
    BY <2>0, <2>1, <2>2, <2>3, <2>5, <2>6, <2>7 DEF HoldInv, Same, Torn
<1>21. CASE RemoveNew
  <2> DEFINE c == Partial(item.id)
  <2>0. /\ item.id \in Backups /\ c \in Ids /\ IsPartial(c) /\ (\A j \in Ids : j # c => Same(j))
        /\ (Same(c) \/ (recs'[c].status = "deleted" /\ recs'[c].key = item.new /\ recs'[c].copy = NoCopy))
    BY <1>21, RemoveNewDoes, DiscardDoes, IdFacts
  <2>1. recs[c].copy.status = "none" /\ recs'[c].copy.status = "none"
    BY <2>0 DEF CopyInv, NoCopy, Same
  <2>2. UNCHANGED <<held, copies, purge, pin, attempt, torn>>
    BY <1>21, SwapMoves
  <2> QED
    BY <2>0, <2>2 DEF HoldInv, Same, Torn
<1>22. ASSUME NEW i \in Ids, TimePasses(i) PROVE HoldInv'
  <2>1. UNCHANGED <<held, purge, pin, torn>> /\ \A j \in Ids : recs'[j].key = recs[j].key /\ recs'[j].hold = recs[j].hold
        /\ (~IsPartial(j) /\ recs'[j].status \in {"completed", "deleted"} => recs[j].status \in {"completed", "deleted"})
    BY <1>22, TimePassesDoes DEF TimePasses, storage, actors, Same, PinnedInv
  <2> QED
    BY <2>1, HoldStays
<1>23. CASE Crash
  <2>1. UNCHANGED <<recs, held>> /\ torn \subseteq torn' /\ purge'.id = 0 /\ pin'.id = 0
        /\ (purge.pc \in {"archive", "mark"} => purge.id \in Ids)
    BY <1>23, IdFacts DEF Crash, storage, NoPurge, NoPin, PurgeInv, TypeOK, Purges
  <2>2. purge.pc \in {"archive", "mark"} /\ purge.rec.hold => <<"hold", Of(purge.id)>> \in torn'
    BY <1>23, <2>1 DEF Crash, HoldLifted, Torn, TornNow
  <2>3. ~IsPartial(purge.id) /\ purge.id # 0 => recs[purge.id].hold = purge.rec.hold
    BY DEF PurgeInv
  <2>4. pin.id \in Ids => <<"hold", Of(pin.id)>> \in torn'
    BY <1>23 DEF Crash, TornNow, Torn
  <2> QED
    BY <2>1, <2>2, <2>3, <2>4, IdFacts, HoldStays DEF Torn
<1> QED
  BY <1>1, <1>2, <1>3, <1>4, <1>5, <1>6, <1>7, <1>8, <1>9, <1>10, <1>11, <1>12, <1>13, <1>14, <1>15, <1>16, <1>17,
     <1>18, <1>19, <1>20, <1>21, <1>22, <1>23, KeysWriters, StatusWriters, HoldWriters, HeldWriters, PurgeWriters,
     PinWriters, TornWriters

\* PartialInv is preserved: only a torn hold leaves the record of an unused archive.
LEMMA PartialInvNext ==
  ASSUME Inv, TypeOK', Next
  PROVE  PartialInv'
<1> USE DEF Inv
<1>1. CASE KeepsKeys /\ UNCHANGED torn
  BY <1>1, IdFacts DEF KeepsKeys, PartialInv, Torn
<1>2. ASSUME NEW i \in Ids, BeginPin(i) PROVE PartialInv'
  <2>1. torn \subseteq torn' /\ KeepsKeys
    BY <1>2 DEF BeginPin, KeepsKeys
  <2> QED
    BY <2>1, IdFacts DEF PartialInv, KeepsKeys, Torn
<1>3. ASSUME NEW i \in Ids, BeginUnpin(i) PROVE PartialInv'
  <2>1. torn \subseteq torn' /\ KeepsKeys
    BY ZenonT(60), <1>3, BeginUnpinDoes DEF BeginUnpin, Same, KeepsKeys
  <2> QED
    BY <2>1, IdFacts DEF PartialInv, KeepsKeys, Torn
<1>4. CASE PurgeFails
  <2>1. torn \subseteq torn' /\ KeepsKeys
    BY <1>4 DEF PurgeFails, KeepsKeys
  <2> QED
    BY <2>1, IdFacts DEF PartialInv, KeepsKeys, Torn
<1>5. CASE CleanUp
  <2>0. item.id \in Backups /\ item.id # 0 /\ UNCHANGED <<held, torn, pin, purge>> /\ work.pc = "cleanup"
    BY <1>5, CleanUpMoves
  <2>1. item.new \in held /\ recs[item.id].key # item.new => Torn(item.id)
    BY <2>0 DEF MovingInv
  <2>2. (\A j \in Ids : j # Partial(item.id) => Same(j))
        /\ (Same(Partial(item.id)) \/ (item.new \in held /\ recs[item.id].key # item.new))
    <3>1. CASE UNCHANGED recs
      BY <3>1 DEF Same
    <3>2. CASE recs[item.id].key # item.new /\ Discard(FALSE)
      BY <2>0, <3>2, DiscardDoes
    <3> QED
      BY <1>5, <3>1, <3>2, CleanUpMoves
  <2> QED
    BY <2>0, <2>1, <2>2, IdFacts DEF PartialInv, Same, Torn
<1>6. CASE ListBackups
  <2>1. torn \subseteq torn' /\ KeepsKeys
    BY <1>6 DEF ListBackups, KeepsKeys
  <2> QED
    BY <2>1, IdFacts DEF PartialInv, KeepsKeys, Torn
<1>7. CASE SwapBackupArchive
  <2> DEFINE b == item.id
             t == Tombstone(b)
  <2>0. /\ b \in Backups /\ recs[b].status \notin {"deleted", "purged"} /\ recs[t].status = "none" /\ (\A j \in Ids : j \notin {b, t} => Same(j))
        /\ recs'[b].status = recs[b].status /\ recs'[b].key = item.new /\ recs'[b].copy = RequeueCopies(recs[b].copy)
        /\ recs'[t].status = "deleted" /\ recs'[t].key = recs[b].key /\ recs'[t].copy = recs[b].copy
    BY <1>7, SwapBackupArchiveDoes
  <2>1. b \in Ids /\ t \in Ids /\ t # b /\ ~IsPartial(b) /\ ~IsPartial(t) /\ recs[b].status # "none" /\ recs[t].copy.status = "none"
    BY <2>0, IdFacts DEF RecordKeys, CopyInv
  <2>2. item' = item /\ work'.pc = "persist" /\ UNCHANGED <<held, copies, purge, pin, attempt, torn>> /\ Making
    BY <1>7, SwapMoves
  <2>3. \A j \in Backups : Partial(j) \in Ids /\ Partial(j) \notin {b, t}
    BY <2>0, IdFacts
  <2> QED
    BY <2>0, <2>2, <2>3 DEF PartialInv, Same, Torn
<1>8. CASE RemoveNew
  <2>0. item.id \in Backups /\ UNCHANGED <<held, torn>> /\ (\A j \in Ids : j # Partial(item.id) => Same(j))
        /\ (item.new \notin held => Same(Partial(item.id)))
    BY <1>8, SwapMoves, RemoveNewDoes, DiscardDoes
  <2>1. item.new \in held => Torn(item.id)
    BY <1>8, RefusedTorn
  <2> QED
    BY <2>0, <2>1, IdFacts DEF PartialInv, Same, Torn
<1>9. CASE Crash
  <2>1. torn \subseteq torn' /\ KeepsKeys
    BY <1>9 DEF Crash, KeepsKeys
  <2> QED
    BY <2>1, IdFacts DEF PartialInv, KeepsKeys, Torn
<1> QED
  BY <1>1, <1>2, <1>3, <1>4, <1>5, <1>6, <1>7, <1>8, <1>9, KeysWriters, TornWriters

\* MovingInv is preserved: the new archive is held as the record was when it was listed.
LEMMA MovingInvNext ==
  ASSUME Inv, TypeOK', Next
  PROVE  MovingInv'
<1> USE DEF Inv
<1>1. CASE KeepsKeys /\ KeepsHolds /\ UNCHANGED <<held, job, work, torn>>
  <2>9. (\A o \in work.todo : o \in Ids /\ o \in Backups /\ ~IsPartial(o))
        /\ (item.id # 0 => item.id \in Ids /\ item.id \in Backups)
    BY IdFacts DEF TypeOK, Works, Jobs, Items, item
  <2> QED
    BY <1>1, <2>9, MovingStays DEF KeepsKeys, KeepsHolds, item
<1>2. ASSUME NEW i \in Ids, BeginPin(i) PROVE MovingInv'
  <2>9. (\A o \in work.todo : o \in Ids /\ o \in Backups /\ ~IsPartial(o))
        /\ (item.id # 0 => item.id \in Ids /\ item.id \in Backups)
    BY IdFacts DEF TypeOK, Works, Jobs, Items, item
  <2>1. UNCHANGED <<recs, job, work>> /\ torn \subseteq torn' /\ held \subseteq held'
        /\ held' \subseteq held \cup {recs[i].key} /\ recs[i].status # "none"
    BY <1>2 DEF BeginPin
  <2>2. Making => recs[i].key # item.new
    BY DEF ItemKeys
  <2>3. item.id # 0 /\ recs[i].key = item.new /\ recs[item.id].key # item.new => Torn(item.id)
    BY <2>1, <2>9 DEF ItemKeys, PartialInv
  <2> QED
    BY <2>1, <2>2, <2>3, <2>9, MovingStays DEF item
<1>3. ASSUME NEW i \in Ids, BeginUnpin(i) PROVE MovingInv'
  <2>9. (\A o \in work.todo : o \in Ids /\ o \in Backups /\ ~IsPartial(o))
        /\ (item.id # 0 => item.id \in Ids /\ item.id \in Backups)
    BY IdFacts DEF TypeOK, Works, Jobs, Items, item
  <2>1. UNCHANGED <<held, job, work>> /\ torn \subseteq torn' /\ (i \in work.todo => <<"hold", Of(i)>> \in torn')
    BY <1>3 DEF BeginUnpin, storage, BeingReencrypted, WorkInv, TypeOK, Works
  <2>2. (\A j \in Ids : j # i => Same(j)) /\ recs'[i].key = recs[i].key
    BY <1>3, BeginUnpinDoes
  <2> QED
    BY <2>1, <2>2, <2>9, MovingStays DEF item, Same, Torn
<1>4. CASE RecordPin
  <2>9. (\A o \in work.todo : o \in Ids /\ o \in Backups /\ ~IsPartial(o))
        /\ (item.id # 0 => item.id \in Ids /\ item.id \in Backups)
    BY IdFacts DEF TypeOK, Works, Jobs, Items, item
  <2>1. UNCHANGED <<held, job, work, torn>> /\ pin.id # 0
    BY <1>4 DEF RecordPin, storage, PinInv
  <2>2. pin.id \in Ids /\ (\A j \in Ids : j # pin.id => Same(j)) /\ recs'[pin.id].key = recs[pin.id].key
    BY <1>4, RecordPinDoes
  <2>3. pin.id \in work.todo => Torn(pin.id)
    BY <2>1, <2>9 DEF PinInv
  <2> QED
    BY <2>1, <2>2, <2>3, <2>9, MovingStays DEF item, Same
<1>5. CASE LiftHold
  <2>9. (\A o \in work.todo : o \in Ids /\ o \in Backups /\ ~IsPartial(o))
        /\ (item.id # 0 => item.id \in Ids /\ item.id \in Backups)
    BY IdFacts DEF TypeOK, Works, Jobs, Items, item
  <2>1. UNCHANGED <<job, work, torn>> /\ pin.id # 0 /\ held \ {pin.key} \subseteq held' /\ held' \subseteq held
    BY <1>5 DEF LiftHold, PinInv
  <2>2. pin.id \in Ids /\ (\A j \in Ids : j # pin.id => Same(j)) /\ recs'[pin.id].key = recs[pin.id].key
    BY <1>5, LiftHoldDoes DEF Same
  <2>3. pin.id \in work.todo => Torn(pin.id)
    BY <2>1, <2>9 DEF PinInv
  <2>4. Making => pin.key # item.new
    BY DEF ActorKeys
  <2> QED
    BY <2>1, <2>2, <2>3, <2>4, <2>9, MovingStays DEF item, Same
<1>6. CASE LiftTombstone
  <2>9. (\A o \in work.todo : o \in Ids /\ o \in Backups /\ ~IsPartial(o))
        /\ (item.id # 0 => item.id \in Ids /\ item.id \in Backups)
    BY IdFacts DEF TypeOK, Works, Jobs, Items, item
  <2>1. UNCHANGED <<recs, job, work, torn>> /\ held \ {purge.rec.key} \subseteq held' /\ held' \subseteq held
    BY <1>6 DEF LiftTombstone
  <2>2. Making => purge.rec.key # item.new
    BY DEF ActorKeys
  <2> QED
    BY <2>1, <2>2, <2>9, MovingStays DEF item
<1>7. CASE MarkPurged
  <2>9. (\A o \in work.todo : o \in Ids /\ o \in Backups /\ ~IsPartial(o))
        /\ (item.id # 0 => item.id \in Ids /\ item.id \in Backups)
    BY IdFacts DEF TypeOK, Works, Jobs, Items, item
  <2>1. /\ UNCHANGED <<held, job, work, torn>> /\ purge.id \in Ids /\ (\A j \in Ids : j # purge.id => Same(j)) /\ recs'[purge.id].key = recs[purge.id].key
        /\ (Same(purge.id) \/ (~recs'[purge.id].hold /\ ~recs[purge.id].pinned))
    BY <1>7, MarkPurgedDoes DEF MarkPurged, storage, PurgeDue, Same
  <2>2. \A b \in work.todo : recs'[b].hold = recs[b].hold
    <3>1. \A b \in work.todo : recs[b].hold => recs[b].pinned
      BY <2>9 DEF PinnedInv
    <3>2. \A b \in work.todo : recs[b].hold \in BOOLEAN /\ recs'[b].hold \in BOOLEAN
      BY <2>9 DEF TypeOK, Records
    <3> QED
      BY <2>1, <2>9, <3>1, <3>2 DEF Same
  <2> QED
    BY <2>1, <2>2, <2>9, MovingStays DEF item, Same
<1>8. CASE PurgeFails
  <2>9. (\A o \in work.todo : o \in Ids /\ o \in Backups /\ ~IsPartial(o))
        /\ (item.id # 0 => item.id \in Ids /\ item.id \in Backups)
    BY IdFacts DEF TypeOK, Works, Jobs, Items, item
  <2>1. UNCHANGED <<recs, held, job, work>> /\ torn \subseteq torn'
    BY <1>8 DEF PurgeFails, storage
  <2> QED
    BY <2>1, <2>9, MovingStays DEF item
<1>9. CASE Trigger
  <2>1. UNCHANGED <<recs, held, torn>> /\ work'.pc = "list" /\ work'.todo = {} /\ ~work'.held /\ item'.id = item.id
        /\ job.status = "none"
    BY <1>9 DEF Trigger, NoWork, storage, TypeOK, Jobs, item
  <2>2. item.id = 0
    BY <2>1 DEF WorkInv
  <2> QED
    BY <2>1, <2>2 DEF MovingInv
<1>10. CASE Resume
  <2>1. UNCHANGED <<recs, held, torn, job>> /\ work'.pc \in {"list", "cleanup"} /\ work'.todo = {} /\ ~work'.held /\ work.pc = "off"
    BY <1>10 DEF Resume, NoWork, storage
  <2> QED
    BY <2>1 DEF MovingInv, Torn, item
<1>11. CASE CleanUp
  <2>1. item'.id = 0 /\ work'.pc = "list" /\ work'.todo = {} /\ work'.held = work.held /\ work.pc = "cleanup"
    BY <1>11, CleanUpMoves
  <2> QED
    BY <2>1 DEF MovingInv
<1>12. CASE ListBackups
  <2>1. item'.id = 0 /\ work'.pc = "next" /\ work'.held = work.held /\ work.pc = "list"
        /\ \A b \in work'.todo : work'.seen[b] = recs[b] /\ recs' = recs
    BY <1>12, ListBackupsMoves DEF item
  <2> QED
    BY <2>1 DEF MovingInv
<1>13. ASSUME NEW i \in Ids, Process(i) PROVE MovingInv'
  <2>1. /\ UNCHANGED <<recs, held, torn>> /\ work.pc = "next" /\ work'.pc = "copy" /\ work'.todo = work.todo /\ work'.seen = work.seen /\ work'.held = work.held
        /\ item'.new = Last + 1 /\ Last \in Nat
    BY <1>13, ProcessMoves
  <2>2. \A k \in held : k \in Nat /\ k <= Last
    BY DEF StoredKeys, TypeOK, Keys
  <2>3. item'.new \notin held
    BY <2>1, <2>2
  <2> QED
    BY <2>1, <2>3 DEF MovingInv, Torn
<1>14. CASE CopyArchive
  <2>1. UNCHANGED <<recs, held, torn, job>> /\ work.pc = "copy" /\ work'.pc \in {"hold", "discard"} /\ work'.todo = work.todo
        /\ work'.seen = work.seen /\ work'.held = work.held
    BY <1>14 DEF CopyArchive, TypeOK, Works
  <2> QED
    BY <2>1 DEF MovingInv, Torn, item
<1>15. CASE HoldNew
  <2>1. /\ UNCHANGED <<recs, torn, job>> /\ work.pc = "hold" /\ work'.todo = work.todo /\ work'.seen = work.seen
        /\ \/ /\ work'.pc = "swap" /\ work'.held = work.seen[item.id].hold
              /\ held' = (IF work.seen[item.id].hold THEN held \cup {item.new} ELSE held)
           \/ work'.pc = "discard" /\ work'.held = work.held /\ held' = held
    BY <1>15 DEF HoldNew, TypeOK, Works
  <2> QED
    BY <2>1 DEF MovingInv, Torn, item
<1>16. CASE SwapBackupArchive
  <2> DEFINE b == item.id
             t == Tombstone(b)
  <2>0. /\ b \in Backups /\ recs[b].status \notin {"deleted", "purged"} /\ recs[t].status = "none" /\ (\A j \in Ids : j \notin {b, t} => Same(j))
        /\ recs'[b].status = recs[b].status /\ recs'[b].key = item.new /\ recs'[b].copy = RequeueCopies(recs[b].copy)
        /\ recs'[t].status = "deleted" /\ recs'[t].key = recs[b].key /\ recs'[t].copy = recs[b].copy
    BY <1>16, SwapBackupArchiveDoes
  <2>1. b \in Ids /\ t \in Ids /\ t # b /\ ~IsPartial(b) /\ ~IsPartial(t) /\ recs[b].status # "none" /\ recs[t].copy.status = "none"
    BY <2>0, IdFacts DEF RecordKeys, CopyInv
  <2>2. item' = item /\ work'.pc = "persist" /\ UNCHANGED <<held, copies, purge, pin, attempt, torn>> /\ Making
    BY <1>16, SwapMoves
  <2>9. (\A o \in work.todo : o \in Ids /\ o \in Backups /\ ~IsPartial(o))
        /\ (item.id # 0 => item.id \in Ids /\ item.id \in Backups)
    BY IdFacts DEF TypeOK, Works, Jobs, Items, item
  <2>3. work'.todo = work.todo \ {b} /\ work'.seen = work.seen
    BY <1>16, SwapMoves
  <2>4. \A j \in work'.todo : j \in work.todo /\ Same(j)
    BY <2>0, <2>3, <2>9, IdFacts
  <2> QED
    BY <2>0, <2>2, <2>3, <2>4 DEF MovingInv, Torn, Same
<1>17. CASE RemoveNew
  <2>0. item.id \in Backups /\ UNCHANGED <<held, torn>> /\ (\A j \in Ids : j # Partial(item.id) => Same(j))
        /\ (item.new \notin held => Same(Partial(item.id)))
    BY <1>17, SwapMoves, RemoveNewDoes, DiscardDoes
  <2>1. item.new \in held => Torn(item.id)
    BY <1>17, RefusedTorn
  <2>9. (\A o \in work.todo : o \in Ids /\ o \in Backups /\ ~IsPartial(o))
        /\ (item.id # 0 => item.id \in Ids /\ item.id \in Backups)
    BY IdFacts DEF TypeOK, Works, Jobs, Items, item
  <2>3. work'.todo = work.todo \ {item.id} /\ work'.seen = work.seen /\ item' = item /\ work'.pc = "persist"
    BY <1>17, SwapMoves
  <2>4. \A j \in work'.todo : j \in work.todo /\ Same(j)
    BY <2>0, <2>3, <2>9, IdFacts
  <2> QED
    BY <2>0, <2>1, <2>3, <2>4 DEF MovingInv, Torn, Same
<1>18. CASE Persist
  <2>9. (\A o \in work.todo : o \in Ids /\ o \in Backups /\ ~IsPartial(o))
        /\ (item.id # 0 => item.id \in Ids /\ item.id \in Backups)
    BY IdFacts DEF TypeOK, Works, Jobs, Items, item
  <2>1. UNCHANGED <<recs, held, torn>> /\ item'.id = 0 /\ work'.pc = "next" /\ work'.todo = work.todo /\ ~work'.held
        /\ (\A j \in Ids : j # item.id => work'.seen[j] = work.seen[j]) /\ item.id \notin work.todo
    BY <1>18, PersistMoves DEF WorkInv
  <2> QED
    BY <2>1, <2>9 DEF MovingInv, Torn
<1>19. CASE Finish
  <2>1. UNCHANGED <<recs, held, torn>> /\ work'.pc = "off" /\ work'.todo = {} /\ ~work'.held /\ item'.id = item.id
        /\ work.pc = "next"
    BY <1>19 DEF Finish, NoWork, storage, TypeOK, Jobs, item
  <2>2. item.id = 0
    BY <2>1 DEF WorkInv
  <2> QED
    BY <2>1, <2>2 DEF MovingInv
<1>20. CASE Crash
  <2>9. (\A o \in work.todo : o \in Ids /\ o \in Backups /\ ~IsPartial(o))
        /\ (item.id # 0 => item.id \in Ids /\ item.id \in Backups)
    BY IdFacts DEF TypeOK, Works, Jobs, Items, item
  <2>1. UNCHANGED <<recs, held, job>> /\ torn \subseteq torn' /\ work'.pc = "off" /\ work'.todo = {} /\ ~work'.held
    BY <1>20 DEF Crash, NoWork, storage
  <2>2. item.id \in Ids /\ item.new \in held /\ work.held => <<"hold", Of(item.id)>> \in torn'
    BY <1>20 DEF Crash, TornNow
  <2> QED
    BY <2>1, <2>2, <2>9 DEF MovingInv, Torn, item
<1>21. CASE FailJob
  BY <1>21, FailJobMoves DEF MovingInv, Torn
<1>22. CASE RemoveNewFails
  <2>1. item.new \in held => Torn(item.id)
    BY <1>22, RefusedTorn
  <2> QED
    BY <1>22, <2>1, RemoveNewFailsMoves DEF MovingInv, Torn
<1> QED
  BY <1>1, <1>2, <1>3, <1>4, <1>5, <1>6, <1>7, <1>8, <1>9, <1>10, <1>11, <1>12, <1>13, <1>14, <1>15, <1>16, <1>17,
     <1>18, <1>19, <1>20, <1>21, <1>22, KeysWriters, HoldWriters, HeldWriters, JobWriters, WorkWriters, TornWriters

-----------------------------------------------------------------------------
(* The invariant, and what it shows. *)

\* The invariant holds of the two backups just stored.
LEMMA InitInv ==
  ASSUME Init
  PROVE  Inv
<1>1. /\ arch = Backups /\ held = Pinned /\ copies = {} /\ plan = {} /\ purge = NoPurge /\ pin = NoPin /\ attempt = NoAttempt
      /\ job = [status |-> "none", made |-> 0, item |-> NoItem, finished |-> {}] /\ work = NoWork /\ torn = {} /\ lost = {} /\ events = 0
  BY DEF Init
<1>2. /\ purge.pc = "idle" /\ purge.id = 0 /\ purge.rec.key = 0 /\ pin.pc = "idle" /\ pin.id = 0 /\ pin.key = 0
      /\ attempt.pc = "idle" /\ attempt.id = 0 /\ attempt.key = 0 /\ job.status = "none" /\ job.made = 0 /\ item = NoItem
      /\ item.id = 0 /\ item.new = 0 /\ work.pc = "off" /\ work.todo = {} /\ ~work.held
  BY <1>1 DEF NoPurge, NoRec, NoPin, NoAttempt, NoItem, NoWork, item
<1>3. Backups \subseteq Nat \ {0} /\ Backups \subseteq Ids /\ Pinned \subseteq Backups /\ Copied \subseteq Backups
      /\ NumBackups \in Nat /\ Ids \subseteq Nat
      /\ MaxEvents \in Nat /\ \A b \in Backups : b <= NumBackups
  BY LifecycleAssumption DEF Backups, Ids
<1>4. \A i \in Ids :
        /\ i \in Backups => /\ recs[i].status = "completed" /\ recs[i].key = i /\ recs[i].due = FALSE /\ recs[i].check = "ok"
                            /\ recs[i].pinned = (i \in Pinned) /\ recs[i].hold = (i \in Pinned)
                            /\ recs[i].copy = (IF i \in Copied THEN NewCopy(i) ELSE NoCopy)
        /\ i \notin Backups => recs[i] = NoRec
  BY DEF Init, NoRec
<1>5. /\ NoRec.status = "none" /\ NoRec.key = 0 /\ NoRec.pinned = FALSE /\ NoRec.hold = FALSE /\ NoRec.copy = NoCopy /\ NoCopy.status = "none"
      /\ \A i : NewCopy(i).status = "pending" /\ NewCopy(i).key = i /\ NewCopy(i).tries = 0
  BY DEF NoRec, NoCopy, NewCopy
<1>6. TypeOK
  <2>1. \A i \in Ids : NewCopy(i) \in Copies
    BY <1>3, NoRecType DEF NewCopy, Copies
  <2>2. recs \in [Ids -> Records]
    <3>1. \A i \in Ids : (IF i \in Copied THEN NewCopy(i) ELSE NoCopy) \in Copies
      BY <2>1, NoRecType
    <3>2. \A i \in Ids : i \in Nat
      BY <1>3
    <3>3. ASSUME NEW k \in Nat, NEW p \in BOOLEAN, NEW c \in Copies
          PROVE  [NoRec EXCEPT !.status = "completed", !.key = k, !.check = "ok", !.pinned = p, !.hold = p, !.copy = c] \in Records
      BY <3>3, NoRecType DEF NoRec, Records, Checks
    <3>4. \A i \in Ids : (i \in Pinned) \in BOOLEAN
      OBVIOUS
    <3>5. \A i \in Ids : [NoRec EXCEPT !.status = "completed", !.key = i, !.check = "ok", !.pinned = i \in Pinned, !.hold = i \in Pinned,
                                       !.copy = IF i \in Copied THEN NewCopy(i) ELSE NoCopy] \in Records
      BY <3>1, <3>2, <3>3, <3>4, Zenon
    <3> QED
      BY <3>5, NoRecType DEF Init
  <2>3. purge \in Purges /\ pin \in Pins /\ attempt \in Attempts
    BY <1>1, NoRecType DEF NoPurge, NoPin, NoAttempt, Purges, Pins, Attempts
  <2>4. job \in Jobs /\ work \in Works
    BY <1>1, NoRecType DEF NoItem, NoWork, Jobs, Items, Works
  <2> QED
    BY <1>1, <1>3, <2>2, <2>3, <2>4 DEF TypeOK, Keys
<1>7. RecordKeys
  <2>1. Last = NumBackups
    BY <1>2, <1>3 DEF Last
  <2>2. \A i \in Ids : (i \in Backups => recs[i].status = "completed" /\ recs[i].key = i)
                       /\ (i \notin Backups => recs[i].status = "none" /\ recs[i].key = 0)
    BY <1>4, <1>5
  <2> QED
    BY <1>3, <2>1, <2>2 DEF RecordKeys
<1>8. StoredKeys /\ ActorKeys /\ ItemKeys
  BY <1>1, <1>2, <1>3 DEF StoredKeys, ActorKeys, ItemKeys, Last, Making
<1>9. WorkInv /\ TodoInv
  BY <1>2 DEF WorkInv, TodoInv, Making
<1>10. MovedInv /\ PartialInv
  BY <1>4, <1>5, IdFacts DEF MovedInv, PartialInv
<1>11. PurgeInv /\ PinInv /\ PinKeys /\ AttemptInv
  BY <1>2 DEF PurgeInv, PinInv, PinKeys, AttemptInv
<1>12. CopyInv
  BY <1>4, <1>5, IdFacts DEF CopyInv, Live
<1>13. ObjectsInv
  BY <1>1, <1>2 DEF ObjectsInv
<1>14. ArchInv
  BY <1>1, <1>4, <1>5 DEF ArchInv
<1>15. UsableInv
  BY <1>4, <1>5 DEF UsableInv, CopyUsable
<1>16. PinnedInv
  BY <1>4, <1>5 DEF PinnedInv
<1>17. HoldInv
  <2>1. ASSUME NEW i \in Ids
        PROVE  (recs[i].hold => recs[i].key \in held) /\ (recs[i].status \in {"completed", "deleted"} /\ recs[i].key \in held => recs[i].hold)
    <3>1. CASE i \in Backups
      <4>1. recs[i].hold <=> i \in Pinned
        BY <1>4, <3>1
      <4>2. recs[i].key = i /\ held = Pinned
        BY <1>1, <1>4, <3>1
      <4> QED
        BY <4>1, <4>2
    <3>2. CASE i \notin Backups
      BY <1>4, <1>5, <3>2
    <3> QED
      BY <3>1, <3>2
  <2> QED
    BY <2>1 DEF HoldInv
<1>18. MovingInv
  BY <1>2 DEF MovingInv
<1>19. PassedInv /\ CopiesTracked
  BY <1>1, <1>2 DEF PassedInv, CopiesTracked
<1> QED
  BY <1>6, <1>7, <1>8, <1>9, <1>10, <1>11, <1>12, <1>13, <1>14, <1>15, <1>16, <1>17, <1>18, <1>19 DEF Inv

\* Every step preserves the invariant.
LEMMA InvNext ==
  ASSUME Inv, [Next]_vars
  PROVE  Inv'
<1>1. CASE Next
  <2>1. TypeOK'
    BY <1>1, TypeNext DEF Inv
  <2> QED
    BY <1>1, <2>1, RecordKeysNext, StoredKeysNext, ActorKeysNext, ItemKeysNext, WorkInvNext, TodoInvNext,
       MovedInvNext, PurgeInvNext, CopyInvNext, AttemptInvNext, ObjectsInvNext, PassedInvNext, TrackedNext,
       ArchInvNext, UsableInvNext, PinInvNext, PinKeysNext, PinnedInvNext, HoldInvNext, PartialInvNext, MovingInvNext
       DEF Inv
<1>2. CASE UNCHANGED vars
  BY <1>2 DEF Inv, vars, storage, actors, TypeOK, RecordKeys, StoredKeys, ActorKeys, ItemKeys, WorkInv, TodoInv,
     MovedInv, PurgeInv, CopyInv, AttemptInv, ObjectsInv, PassedInv, CopiesTracked, ArchInv, UsableInv, PinInv,
     PinKeys, PinnedInv, HoldInv, PartialInv, MovingInv, InHand, Tracked, CopyLocked, Last, Making, Torn, Named,
     CopyGone, item
<1> QED
  BY <1>1, <1>2

\* The invariant says that what counts as restorable is.
LEMMA InvRestorable ==
  ASSUME Inv
  PROVE  Restorable
<1>1. Identified
  <2>1. purge.id # 0 => recs[purge.id].status # "none"
    BY DEF Inv, PurgeInv
  <2>2. pin.id # 0 => recs[pin.id].status # "none"
    BY DEF Inv, PinInv
  <2>3. attempt.id # 0 => recs[attempt.id].status # "none"
    BY DEF Inv, AttemptInv
  <2>4. \A i \in Ids : item # NoItem /\ i \notin {item.id, Partial(item.id)} => recs[i].key # item.new
    BY DEF Inv, WorkInv, ItemKeys
  <2> QED
    BY <2>1, <2>2, <2>3, <2>4 DEF Identified
<1>2. ASSUME NEW i \in Ids, Kept(i)
      PROVE  recs[i].key \in arch /\ (CopyUsable(recs[i]) => recs[i].copy.key \in copies)
  BY <1>2 DEF Inv, Kept, ArchInv, UsableInv
<1> QED
  BY <1>1, <1>2 DEF Inv, Restorable

\* The invariant says that holds and records agree.
LEMMA InvHolds ==
  ASSUME Inv
  PROVE  HoldAgrees
<1> SUFFICES ASSUME NEW i \in Ids, <<"hold", Of(i)>> \notin torn, pin.id # i
             PROVE  /\ recs[i].pinned /\ recs[i].hold => recs[i].key \in held
                    /\ recs[i].status \in {"completed", "failed", "deleted"} /\ recs[i].key \in held => recs[i].hold
  BY DEF HoldAgrees
<1>1. CASE IsPartial(i)
  <2>1. i = Partial(Of(i)) /\ Of(i) \in Backups /\ Of(Of(i)) = Of(i)
    BY <1>1, IdFacts
  <2>2. recs[i].status = "none"
    BY <2>1 DEF Inv, PartialInv, Torn
  <2> QED
    BY <2>2 DEF Inv, PinnedInv
<1>2. CASE ~IsPartial(i)
  <2>1. recs[i].pinned => recs[i].status = "completed" /\ purge.id # i
    BY <1>2, IdFacts DEF Inv, PinnedInv, PurgeInv
  <2>2. recs[i].status # "failed"
    BY <1>2 DEF Inv, PinnedInv
  <2> QED
    BY <1>2, <2>1, <2>2 DEF Inv, HoldInv, Torn
<1> QED
  BY <1>1, <1>2

\* What retention deletes was not the newest verified backup: PruneBackupRecord looked again.
LEMMA PruneKeepsVerified ==
  ASSUME TypeOK, PruneNext, Verified(recs) # {}
  PROVE  Verified(recs') # {}
<1>1. PICK v \in Ids : recs[v].status = "completed" /\ recs[v].check = "ok"
  BY DEF Verified, Completed
<1>2. CASE \A j \in Ids : Same(j)
  BY <1>1, <1>2 DEF Verified, Completed, Same
<1>3. ASSUME NEW i \in Ids, ~PruneRefused(i), \A j \in Ids : j # i => Same(j) PROVE Verified(recs') # {}
  <2>1. CASE v # i
    BY <1>1, <1>3, <2>1 DEF Verified, Completed, Same
  <2>2. CASE v = i
    <3>1. PICK w \in Completed(recs) : recs[w].check = "ok" /\ Of(w) > Of(i)
      BY <1>1, <1>3, <2>2 DEF PruneRefused
    <3>2. w \in Ids /\ recs[w].status = "completed" /\ Of(i) \in Nat
      BY IdFacts DEF Completed, Backups
    <3>3. w # i
      BY <3>1, <3>2
    <3> QED
      BY <1>3, <3>1, <3>2, <3>3 DEF Verified, Completed, Same
  <2> QED
    BY <2>1, <2>2
<1> QED
  BY <1>2, <1>3, PruneNextDoes

\* The invariant holds in every reachable state.
LEMMA InvAlways == Spec => []Inv
<1>1. Init => Inv
  BY InitInv
<1>2. Inv /\ [Next]_vars => Inv'
  BY InvNext
<1> QED
  BY <1>1, <1>2, PTL DEF Spec

\* Restorable is an invariant: deletion, purge, copy queue, retention and re-encryption at the
\* same time never take the archive, or a usable copy, of a backup that counts as restorable;
\* only a crash of the purge between storage and record may.
THEOREM RestorableSafe == Spec => []Restorable
<1>1. Inv => Restorable
  BY InvRestorable
<1> QED
  BY <1>1, InvAlways, PTL

\* CopiesTracked is an invariant: an object that the copy queue has written is in its hands, or
\* the purge of a record that is still to come will find it, even when backups are purged or
\* moved while it uploads; but for the four ways in which the code loses an object.
THEOREM CopiesSafe == Spec => []CopiesTracked
<1>1. Inv => CopiesTracked
  BY DEF Inv
<1> QED
  BY <1>1, InvAlways, PTL

\* HoldAgrees is an invariant: unless a crash, a failed purge or a pin during its re-encryption
\* tore them apart, the record that names an archive knows of its legal hold and the hold is there.
THEOREM HoldsSafe == Spec => []HoldAgrees
<1>1. Inv => HoldAgrees
  BY InvHolds
<1> QED
  BY <1>1, InvAlways, PTL

\* RetentionKeepsVerified holds of every step: retention never deletes the last verified backup,
\* even if verifications changed after it had planned.
THEOREM RetentionSafe == Spec => RetentionKeepsVerified
<1>1. Inv /\ [Next]_vars => [PruneNext /\ Verified(recs) # {} => Verified(recs') # {}]_vars
  BY PruneKeepsVerified DEF Inv
<1> QED
  BY <1>1, InvAlways, PTL DEF Spec, RetentionKeepsVerified
=============================================================================
