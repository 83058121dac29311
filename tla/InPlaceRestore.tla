--------------------------- MODULE InPlaceRestore ---------------------------
(***************************************************************************)
(* Restores into the databases of one connection: one point-in-time        *)
(* restore, into clones or in place (operations/pitrrestore.go,            *)
(* pitrinplace.go, restore/pitr.go, pitrswap.go), and one restore of a     *)
(* backup, into a safe clone or in place (operations.StartRestore,         *)
(* restore.Engine.Execute), with the PITR stream that the first one        *)
(* pauses, the run locks, the shutdown and what a start makes of a restore *)
(* that a stop interrupted.                                                *)
(*                                                                         *)
(* What a database holds is one of: "old", the state the restores found;   *)
(* "backup", that of the backup; "part", a mixture; "copied", all of the   *)
(* clone and collections of before; "new", what the clone holds.  A clone  *)
(* is "full" when both passes into it ended and mongorestore reported      *)
(* nothing amiss; of a replay it counts nothing of the code only warns.    *)
(***************************************************************************)
EXTENDS Integers, FiniteSets, FiniteSetsExt

CONSTANTS
    Databases,  \* the databases the point-in-time restore is asked for, numbers
    SavesFail,  \* whether the progress of an in-place restore may fail to be stored
    MaxEvents   \* bound on failures, cancellations, stops and crashes

ASSUME InPlaceConstants == Databases \subseteq Nat \ {0} /\ IsFiniteSet(Databases) /\ Databases # {}
                             /\ SavesFail \in BOOLEAN /\ MaxEvents \in Nat

VARIABLES
    db,      \* db[d]: what original database d holds
    clone,   \* clone[d]: what its clone holds
    safety,  \* safety[d]: what its completed safety backup holds
    rec,     \* the record of the point-in-time restore, in memory
    stored,  \* the same as stored
    p,       \* its goroutine
    bk,      \* the restore of a backup: its record and its goroutine
    stream,  \* the PITR stream, and the base backup of it
    mgr,     \* runs.Manager: keys, closed, critical steps
    life,    \* the process
    past     \* what was in the databases when the swap reached them, where it
             \* was done, a copy that outlived the process and where one wrote on
             \* beside the next process, an alert, an enable taken for done

vars == <<db, clone, safety, rec, stored, p, bk, stream, mgr, life, past>>
data == <<db, clone, safety, past>>

NoRec == [status |-> "none", inPlace |-> FALSE, keep |-> FALSE, stage |-> "restoring", swapStarted |-> FALSE,
          wasEnabled |-> FALSE, resumed |-> FALSE, swapped |-> {}, claim |-> "none", clones |-> "none"]
NoRun == [pc |-> "idle", cancelled |-> FALSE, finishing |-> FALSE, after |-> "none", deferred |-> FALSE]
NoBackup == [pc |-> "idle", d |-> 0, inPlace |-> FALSE, cancelled |-> FALSE, finishing |-> FALSE,
             status |-> "none", outcome |-> "none", clone |-> "none", note |-> "none"]
NoKeys == [keys |-> {}, closed |-> FALSE, critical |-> 0]

Init ==
    /\ db = [d \in Databases |-> "old"]
    /\ clone = [d \in Databases |-> "none"] /\ safety = [d \in Databases |-> "none"]
    /\ rec = NoRec /\ stored = NoRec /\ p = NoRun /\ bk = NoBackup /\ mgr = NoKeys
    /\ \E on \in BOOLEAN : stream = [enabled |-> on, on |-> on, open |-> on, collecting |-> on, listed |-> "none", late |-> FALSE,
                                    base |-> "none", due |-> FALSE]
    /\ life = [state |-> "up", events |-> 0]
    /\ past = [was |-> [d \in Databases |-> "none"], made |-> {}, orphan |-> 0, stray |-> {}, alert |-> FALSE, missed |-> FALSE]

Happens == life.events < MaxEvents /\ life' = [life EXCEPT !.events = @ + 1]

Alive == life.state \in {"up", "stopping", "waiting", "grace", "killing"}
Accepting == Alive /\ ~mgr.closed

\* The context of a run has ended, and its run was cancelled.
CtxDone(r) == r.cancelled \/ mgr.closed

Save(r) == rec' = r /\ stored' = r

\* saveInPlace stores the record as it is now; that it could not is only logged.
SaveInPlace(r) == rec' = r /\ stored' \in IF SavesFail THEN {r, stored} ELSE {r}

-----------------------------------------------------------------------------
(* The restore into the clones.                                            *)

\* The keys of an in-place restore: the restore (and backup) keys of its databases, the
\* base backup key and the connection-wide key, which count as one here.
InPlaceKeys == {<<"restore", d>> : d \in Databases} \cup {<<"base", 0>>}

\* startPITRRestore, runPITRRestore: the keys are acquired, the record is stored and
\* the goroutine is started.  A key that is busy refuses the request.
StartPITR(inPlace, keep) ==
    /\ Accepting /\ life.state = "up" /\ p.pc = "idle" /\ rec.status = "none"
    /\ keep => inPlace
    /\ inPlace => InPlaceKeys \cap mgr.keys = {}
    /\ mgr' = [mgr EXCEPT !.keys = IF inPlace THEN @ \cup InPlaceKeys ELSE @]
    /\ Save([NoRec EXCEPT !.status = "in_progress", !.inPlace = inPlace, !.keep = keep])
    /\ p' = [p EXCEPT !.pc = "queued"]
    /\ UNCHANGED <<data, bk, stream, life>>

\* The record of a restore that ended, and where its goroutine goes next.
End(status, claim, clones) ==
    /\ rec' = [rec EXCEPT !.status = status, !.stage = "done", !.claim = claim, !.clones = clones]
    /\ p' = [p EXCEPT !.pc = "final"]

FailStatus(r) == IF r.cancelled THEN "cancelled" ELSE "failed"

\* dropPITRClones drops the recorded clones; one that cannot be dropped is named.
Dropped(named) == IF named = "none" THEN [d \in Databases |-> "none"] ELSE clone
DropClones(named) ==
    /\ clone' = Dropped(named)
    /\ IF named = "none" THEN UNCHANGED life ELSE Happens

\* Before mongorestore started (failRun): the checks of the target and of the chunks
\* fail, or the context has ended.
CheckFails ==
    /\ p.pc = "queued"
    /\ IF CtxDone(p) THEN UNCHANGED life ELSE Happens
    /\ End(FailStatus(p), "untouched", "none")
    /\ UNCHANGED <<data, stored, bk, stream, mgr>>

\* Pass 1: mongorestore of the base.
RestoreBase ==
    /\ p.pc = "queued" /\ ~CtxDone(p)
    /\ clone' = [d \in Databases |-> "part"]
    /\ p' = [p EXCEPT !.pc = "base"]
    /\ UNCHANGED <<db, safety, rec, stored, bk, stream, mgr, life, past>>

\* Pass 2 follows, unless the restore was cancelled.
BaseRestored ==
    /\ p.pc = "base" /\ ~p.cancelled
    /\ p' = [p EXCEPT !.pc = "replay"]
    /\ UNCHANGED <<data, rec, stored, bk, stream, mgr, life>>

\* failAfterStart: the clones of a cancelled restore are dropped, and so are those of
\* a failed one, if they can be.
PassFails ==
    /\ p.pc \in {"base", "replay"}
    /\ \/ CtxDone(p) /\ \E c \in {"none", "manual"} : DropClones(c) /\ End(FailStatus(p), "untouched", c)
       \/ /\ ~CtxDone(p) /\ Happens
          /\ \E c \in {"none", "manual"} :
               clone' = Dropped(c) /\ End("failed", "untouched", c)
    /\ UNCHANGED <<db, safety, stored, bk, stream, mgr, past>>

\* Documents that failed, or another number of operations than were written: the
\* clones are kept for inspection.
KeptForInspection ==
    /\ p.pc \in {"base", "replay"} /\ ~p.cancelled /\ Happens
    /\ End("failed", "untouched", "kept")
    /\ UNCHANGED <<data, stored, bk, stream, mgr>>

\* The clones are complete: Run.Finishing, no cancellation is accepted any more.
Replayed ==
    /\ p.pc = "replay"
    /\ clone' = [d \in Databases |-> "full"]
    /\ p' = [p EXCEPT !.pc = "post", !.finishing = TRUE]
    /\ UNCHANGED <<db, safety, rec, stored, bk, stream, mgr, life, past>>

\* A post-restore command fails: the clones are kept.
PostFails ==
    /\ p.pc = "post"
    /\ IF CtxDone(p) THEN UNCHANGED life ELSE Happens
    /\ End("failed", "untouched", "kept")
    /\ UNCHANGED <<data, stored, bk, stream, mgr>>

\* A restore into clones is complete; an in-place one goes on (finishPITRInPlace).
ClonesComplete ==
    /\ p.pc = "post"
    /\ IF rec.inPlace THEN p' = [p EXCEPT !.pc = "snapshot"] /\ UNCHANGED rec
       ELSE End("completed", "untouched", "kept")
    /\ UNCHANGED <<data, stored, bk, stream, mgr, life>>

-----------------------------------------------------------------------------
(* In place: finishPITRInPlace.                                            *)

\* SnapshotPITRClones, and the stage is stored.
SnapshotClones ==
    /\ p.pc = "snapshot" /\ ~CtxDone(p)
    /\ SaveInPlace([rec EXCEPT !.stage = "safety_backup"])
    /\ p' = [p EXCEPT !.pc = "safety"]
    /\ UNCHANGED <<data, bk, stream, mgr, life>>

\* Somebody writes to a clone.
CloneChanges(d) ==
    /\ Happens /\ p.pc \in {"safety", "pausing", "disabled", "paused", "swap"} /\ clone[d] = "full" /\ past.was[d] = "none"
    /\ clone' = [clone EXCEPT ![d] = "changed"]
    /\ UNCHANGED <<db, safety, rec, stored, p, bk, stream, mgr, past>>

\* failInPlace before the swap: the clones are dropped, the originals are untouched.
NotSwapped ==
    /\ \E c \in {"none", "manual"} : DropClones(c) /\ End("failed", "untouched", c)
    /\ UNCHANGED <<db, safety, stored, bk, past>>

\* What the clones hold cannot be listed.
SnapshotFails ==
    /\ p.pc = "snapshot" /\ (CtxDone(p) \/ life.events < MaxEvents)
    /\ NotSwapped /\ UNCHANGED <<stream, mgr>>

\* safetyBackup of the databases in turn.
Unsaved == {d \in Databases : safety[d] = "none"}
SafetyBackup ==
    /\ p.pc = "safety" /\ Unsaved # {} /\ ~CtxDone(p)
    /\ safety' = [safety EXCEPT ![Min(Unsaved)] = db[Min(Unsaved)]]
    /\ UNCHANGED <<db, clone, past, rec, stored, p, bk, stream, mgr, life>>

SafetyFails ==
    /\ p.pc = "safety" /\ Unsaved # {} /\ (CtxDone(p) \/ life.events < MaxEvents)
    /\ NotSwapped /\ UNCHANGED <<stream, mgr>>

\* Mutant: that the stream was enabled is stored with the next step.
PreparePauseUnsaved ==
    /\ p.pc = "safety" /\ Unsaved = {}
    /\ rec' = [rec EXCEPT !.stage = "pausing", !.wasEnabled = stream.enabled] /\ UNCHANGED stored
    /\ p' = [p EXCEPT !.pc = "pausing"]
    /\ UNCHANGED <<data, bk, stream, mgr, life>>

\* Whether the stream is enabled is stored before it is paused.
PreparePause ==
    /\ p.pc = "safety" /\ Unsaved = {}
    /\ SaveInPlace([rec EXCEPT !.stage = "pausing", !.wasEnabled = stream.enabled])
    /\ p' = [p EXCEPT !.pc = "pausing"]
    /\ UNCHANGED <<data, bk, stream, mgr, life>>

\* PauseStream disables the stream, waits for its collector and ends its chain.
DisableStream ==
    /\ p.pc = "pausing" /\ ~CtxDone(p)
    /\ stream' = [stream EXCEPT !.enabled = FALSE]
    /\ p' = [p EXCEPT !.pc = "disabled"]
    /\ UNCHANGED <<data, rec, stored, bk, mgr, life>>

\* Mutant: the chain is ended without waiting for the collector.
EndChainAtOnce ==
    /\ p.pc = "disabled" /\ ~CtxDone(p)
    /\ stream' = [stream EXCEPT !.open = FALSE]
    /\ p' = [p EXCEPT !.pc = "paused"]
    /\ UNCHANGED <<data, rec, stored, bk, mgr, life>>

EndChain ==
    /\ p.pc = "disabled" /\ ~CtxDone(p) /\ ~stream.collecting
    /\ stream' = [stream EXCEPT !.open = FALSE]
    /\ p' = [p EXCEPT !.pc = "paused"]
    /\ UNCHANGED <<data, rec, stored, bk, mgr, life>>

\* The stream cannot be paused: it is enabled again, the originals are untouched.
PauseFails ==
    /\ p.pc \in {"pausing", "disabled"}
    /\ IF CtxDone(p) THEN UNCHANGED life ELSE Happens
    /\ p' = [p EXCEPT !.pc = "resume", !.after = "untouched"]
    /\ UNCHANGED <<data, rec, stored, bk, stream, mgr>>

\* The swap is stored as started, then it is a critical step of the Manager.  It does not
\* end with the context of the run.
BeginSwap ==
    /\ p.pc = "paused"
    /\ SaveInPlace([rec EXCEPT !.stage = "swapping", !.swapStarted = TRUE])
    /\ mgr' = [mgr EXCEPT !.critical = @ + 1]
    /\ p' = [p EXCEPT !.pc = "swap"]
    /\ UNCHANGED <<data, bk, stream, life>>

Left == Databases \ rec.swapped
Now == Min(Left)

\* swapDatabase: the clone must hold what it held after the restore into it.
BeginCopy ==
    /\ p.pc = "swap" /\ Left # {} /\ clone[Now] = "full"
    /\ db' = [db EXCEPT ![Now] = "part"]
    /\ past' = [past EXCEPT !.was[Now] = db[Now]]
    /\ p' = [p EXCEPT !.pc = "copy"]
    /\ UNCHANGED <<clone, safety, rec, stored, bk, stream, mgr, life>>

CopyEnds ==
    /\ p.pc = "copy"
    /\ db' = [db EXCEPT ![Now] = "copied"]
    /\ p' = [p EXCEPT !.pc = "copied"]
    /\ UNCHANGED <<clone, safety, past, rec, stored, bk, stream, mgr, life>>

\* The listing of the original shows the copy complete, and what the clone does not
\* have is dropped.
DropExtras ==
    /\ p.pc = "copied" /\ db[Now] = "copied"
    /\ db' = [db EXCEPT ![Now] = "new"]
    /\ past' = [past EXCEPT !.made = @ \cup {Now}]
    /\ p' = [p EXCEPT !.pc = "swapped"]
    /\ UNCHANGED <<clone, safety, rec, stored, bk, stream, mgr, life>>

\* Each database that holds the restored state is stored.
Swapped ==
    /\ p.pc = "swapped"
    /\ SaveInPlace([rec EXCEPT !.swapped = @ \cup {Now}])
    /\ p' = [p EXCEPT !.pc = "swap"]
    /\ UNCHANGED <<data, bk, stream, mgr, life>>

\* A swap that fails keeps the clones.
SwapFails ==
    /\ \/ p.pc = "swap" /\ Left # {} /\ clone[Now] # "full" /\ UNCHANGED life
       \/ p.pc \in {"swap", "copy", "copied"} /\ Left # {} /\ Happens
    /\ rec' = [rec EXCEPT !.stage = "resuming"]
    /\ mgr' = [mgr EXCEPT !.critical = @ - 1]
    /\ p' = [p EXCEPT !.pc = "resume", !.after = "partial"]
    /\ UNCHANGED <<data, stored, bk, stream>>

SwapDone ==
    /\ p.pc = "swap" /\ Left = {}
    /\ rec' = [rec EXCEPT !.stage = "resuming"]
    /\ mgr' = [mgr EXCEPT !.critical = @ - 1]
    /\ p' = [p EXCEPT !.pc = "clones", !.after = "restored"]
    /\ UNCHANGED <<data, stored, bk, stream, life>>

\* The clones go, unless they are to be kept.
ClonesAfterSwap ==
    /\ p.pc = "clones"
    /\ \E c \in IF rec.keep THEN {"kept"} ELSE {"none", "manual"} :
         /\ IF rec.keep THEN UNCHANGED <<clone, life>> ELSE DropClones(c)
         /\ rec' = [rec EXCEPT !.clones = c]
    /\ p' = [p EXCEPT !.pc = "resume"]
    /\ UNCHANGED <<db, safety, past, stored, bk, stream, mgr>>

\* resumeInPlace: the base backup key is released and the stream is enabled again, or an
\* alert says that it could not be ...
EnableStream ==
    /\ p.pc = "resume" /\ ~(rec.wasEnabled /\ mgr.closed)
    /\ mgr' = [mgr EXCEPT !.keys = @ \ {<<"base", 0>>}]
    /\ \/ stream' = [stream EXCEPT !.enabled = @ \/ rec.wasEnabled]
          /\ p' = [p EXCEPT !.pc = IF rec.wasEnabled THEN "wait" ELSE "settle"]
          /\ UNCHANGED <<life, past>>
       \/ rec.wasEnabled /\ Happens /\ past' = [past EXCEPT !.alert = TRUE]
          /\ p' = [p EXCEPT !.pc = "settle"] /\ UNCHANGED stream
    /\ UNCHANGED <<db, clone, safety, rec, stored, bk>>

\* In a shutdown it is given a second, and that it ran out of time counts as enabled:
\* what is waited for then is the new chain, but the stream may not be stored yet.
EnableInShutdown ==
    /\ p.pc = "resume" /\ rec.wasEnabled /\ mgr.closed
    /\ mgr' = [mgr EXCEPT !.keys = @ \ {<<"base", 0>>}]
    /\ \/ stream' = [stream EXCEPT !.enabled = TRUE] /\ rec' = [rec EXCEPT !.resumed = TRUE] /\ UNCHANGED <<life, past>>
       \/ Happens /\ past' = [past EXCEPT !.alert = TRUE] /\ UNCHANGED <<stream, rec>>
       \/ Happens /\ past' = [past EXCEPT !.missed = TRUE] /\ rec' = [rec EXCEPT !.resumed = TRUE] /\ UNCHANGED stream
    /\ p' = [p EXCEPT !.pc = "settle"]
    /\ UNCHANGED <<db, clone, safety, stored, bk>>

\* StartBaseBackup: nothing happens while another one holds the key.
StartBase ==
    IF <<"base", 0>> \notin mgr.keys /\ ~mgr.closed
    THEN mgr' = [mgr EXCEPT !.keys = @ \cup {<<"base", 0>>}] /\ stream' = [stream EXCEPT !.base = "running"]
    ELSE UNCHANGED <<mgr, stream>>

\* ... its new chain is waited for and a base is started.
StreamResumed ==
    /\ p.pc = "wait" /\ stream.open
    /\ rec' = [rec EXCEPT !.resumed = TRUE]
    /\ IF p.after = "untouched" THEN UNCHANGED <<mgr, stream>> ELSE StartBase
    /\ p' = [p EXCEPT !.pc = "settle"]
    /\ UNCHANGED <<data, stored, bk, life>>

\* No new chain in time, for one because a shutdown has stopped the collector: an alert.
ResumeTimesOut ==
    /\ p.pc = "wait" /\ ~stream.open
    /\ IF mgr.closed THEN UNCHANGED life ELSE Happens
    /\ past' = [past EXCEPT !.alert = TRUE]
    /\ p' = [p EXCEPT !.pc = "settle"]
    /\ UNCHANGED <<db, clone, safety, rec, stored, bk, stream, mgr>>

Settle ==
    /\ p.pc = "settle"
    /\ \/ p.after = "untouched" /\ NotSwapped
       \/ p.after = "partial" /\ End("failed", "partial", "kept") /\ UNCHANGED <<data, stored, bk, life>>
       \/ p.after = "restored" /\ End("completed", "restored", rec.clones) /\ UNCHANGED <<data, stored, bk, life>>
    /\ UNCHANGED <<stream, mgr>>

\* resumeInterrupted: the stream is enabled, or an alert says that it could not be.  One
\* that ran out of time counts as enabled, but the goroutine that waits for its new chain
\* and starts the base backup (due) enables it again.
EnableLater ==
    \/ \E on \in {stream.enabled, TRUE} :
         stream' = [stream EXCEPT !.enabled = on, !.due = ~mgr.closed] /\ UNCHANGED past
    \/ past' = [past EXCEPT !.alert = TRUE] /\ UNCHANGED stream

\* finishRestore stores the record, then the keys are released.
FinishRestore ==
    /\ p.pc = "final"
    /\ Save(rec)
    /\ p' = [p EXCEPT !.pc = "release"]
    /\ UNCHANGED <<data, bk, stream, mgr, life>>

\* The record cannot be saved: it is saved later as it is.  With a full disk a restore
\* that was not cancelled fails (failUnsavedRestore): the clones of a completed one are
\* dropped, if they can be, but not those of an in-place one, whose stream is enabled
\* once more where that had failed.
FinishUnsaved ==
    LET undo == rec.status = "completed"
        drops == IF undo /\ ~rec.inPlace THEN {"none", "manual"} ELSE {rec.clones}
    IN
    /\ p.pc = "final" /\ Happens
    /\ \/ UNCHANGED <<rec, clone, stream, past>>
       \/ \E c \in drops :
            /\ rec' = [rec EXCEPT !.status = IF @ = "cancelled" THEN @ ELSE "failed", !.clones = c]
            /\ clone' = IF undo /\ ~rec.inPlace THEN Dropped(c) ELSE clone
            /\ IF undo /\ rec.inPlace /\ rec.wasEnabled /\ ~rec.resumed THEN EnableLater ELSE UNCHANGED <<stream, past>>
    /\ p' = [p EXCEPT !.pc = "release", !.deferred = TRUE]
    /\ UNCHANGED <<db, safety, stored, bk, mgr>>

SaveDeferred ==
    /\ p.deferred /\ Alive
    /\ Save(rec) /\ p' = [p EXCEPT !.deferred = FALSE]
    /\ UNCHANGED <<data, bk, stream, mgr, life>>

\* releaseAll: resumeInPlace, which every restore that paused the stream comes to, has
\* released the base backup key already.
PITRHolds ==
    LET base == p.after = "none" \/ p.pc \in {"clones", "resume"}
    IN  {k \in InPlaceKeys : rec.inPlace /\ (k[1] = "restore" \/ base)}
Release ==
    /\ p.pc = "release"
    /\ mgr' = [mgr EXCEPT !.keys = @ \ PITRHolds]
    /\ p' = [p EXCEPT !.pc = "over"]
    /\ UNCHANGED <<data, rec, stored, bk, stream, life>>

-----------------------------------------------------------------------------
(* The restore of a backup: StartRestore and Engine.Execute.               *)

\* In place the restore key of the database is acquired; a safe clone has a name, and
\* so a key, of its own, whichever database the backup is of.
StartRestore(d, inPlace) ==
    /\ Accepting /\ life.state = "up" /\ bk.pc = "idle" /\ bk.status = "none"
    /\ IF inPlace THEN <<"restore", d>> \notin mgr.keys ELSE d = Min(Databases)
    /\ mgr' = [mgr EXCEPT !.keys = IF inPlace THEN @ \cup {<<"restore", d>>} ELSE @]
    /\ bk' = [NoBackup EXCEPT !.pc = "queued", !.d = d, !.inPlace = inPlace, !.status = "in_progress"]
    /\ UNCHANGED <<data, rec, stored, p, stream, life>>

BkEnd(outcome, note, c) == bk' = [bk EXCEPT !.pc = "save", !.outcome = outcome, !.note = note, !.clone = c]

\* Before mongorestore started: cancelled, or the verification or another check failed.
Refused ==
    /\ bk.pc = "queued"
    /\ IF CtxDone(bk) THEN UNCHANGED life ELSE Happens
    /\ BkEnd(FailStatus(bk), "untouched", "none")
    /\ UNCHANGED <<data, rec, stored, p, stream, mgr>>

\* What mongorestore writes: the original, or the safe clone.
Target == IF bk.inPlace THEN db[bk.d] ELSE bk.clone
Write(content, b) ==
    /\ db' = IF bk.inPlace THEN [db EXCEPT ![bk.d] = content] ELSE db
    /\ bk' = IF bk.inPlace THEN b ELSE [b EXCEPT !.clone = content]
    /\ UNCHANGED <<clone, safety, past>>

Mongorestore ==
    /\ bk.pc = "queued" /\ ~CtxDone(bk)
    /\ Write("part", [bk EXCEPT !.pc = "tool"])
    /\ UNCHANGED <<rec, stored, p, stream, mgr, life>>

\* It ended without an error.  Run.Finishing: no cancellation is accepted any more, and
\* one that was does not undo the restore.
ToolDone ==
    /\ bk.pc = "tool"
    /\ \/ Write("backup", [bk EXCEPT !.pc = "check", !.finishing = TRUE]) /\ UNCHANGED life
       \/ Write("part", [bk EXCEPT !.pc = "check", !.finishing = TRUE]) /\ Happens
    /\ UNCHANGED <<rec, stored, p, stream, mgr>>

\* The partial clone is dropped; an in-place target is left as it is.
DropClone(outcome) ==
    \/ ~bk.inPlace /\ BkEnd(outcome, "dropped", "none") /\ UNCHANGED life
    \/ ~bk.inPlace /\ BkEnd(outcome, "manual", bk.clone) /\ Happens
    \/ bk.inPlace /\ BkEnd(outcome, "partial", "none") /\ UNCHANGED life

\* The tool failed, or was stopped with the context.
ToolFails ==
    /\ bk.pc = "tool"
    /\ \/ CtxDone(bk) /\ DropClone(FailStatus(bk))
       \/ /\ ~CtxDone(bk) /\ Happens
          /\ \E c \in {"none", bk.clone} :
               BkEnd("failed", IF bk.inPlace THEN "partial" ELSE IF c = "none" THEN "dropped" ELSE "manual", c)
    /\ UNCHANGED <<data, rec, stored, p, stream, mgr>>

\* Mutant: only the exit status of mongorestore counts.
CheckedOnce ==
    /\ bk.pc = "check"
    /\ bk' = [bk EXCEPT !.pc = "post"]
    /\ UNCHANGED <<data, rec, stored, p, stream, mgr, life>>

\* The bytes read must have the checksum of the record, and no document may have failed;
\* else the clone is dropped, or kept for inspection.  When mongorestore has printed no
\* counts the restore goes on with a warning.
Checked ==
    /\ bk.pc = "check"
    /\ \/ Target = "backup" /\ bk' = [bk EXCEPT !.pc = "post"] /\ UNCHANGED life
       \/ bk' = [bk EXCEPT !.pc = "post", !.note = "uncounted"] /\ Happens
       \/ Target # "backup" /\ DropClone(FailStatus(bk))
       \/ Target # "backup" /\ ~bk.cancelled
          /\ BkEnd("failed", IF bk.inPlace THEN "partial" ELSE "kept", bk.clone) /\ UNCHANGED life
    /\ UNCHANGED <<data, rec, stored, p, stream, mgr>>

\* The post-restore commands of a clone and the HA fence: a failure keeps the clone.
PostRestore ==
    /\ bk.pc = "post"
    /\ \/ BkEnd("completed", IF bk.note = "uncounted" THEN "uncounted" ELSE "complete", bk.clone) /\ UNCHANGED life
       \/ BkEnd("failed", IF bk.inPlace THEN "partial" ELSE "kept", bk.clone)
          /\ IF CtxDone(bk) /\ ~bk.inPlace THEN UNCHANGED life ELSE Happens
    /\ UNCHANGED <<data, rec, stored, p, stream, mgr>>

\* finishRestore; a record that cannot be saved is kept as it is and saved later.  With a
\* full disk one that was not cancelled fails, and the clone of a completed one is dropped
\* if it can be.  The key is released.
SaveRestore ==
    LET undo == bk.outcome = "completed" /\ ~bk.inPlace
        over == [bk EXCEPT !.pc = "over", !.outcome = IF @ = "cancelled" THEN @ ELSE "failed"]
    IN
    /\ bk.pc = "save"
    /\ \/ bk' = [bk EXCEPT !.pc = "over", !.status = bk.outcome] /\ UNCHANGED life
       \/ Happens /\ bk' = [bk EXCEPT !.pc = "over"]
       \/ Happens /\ ~undo /\ bk' = over
       \/ Happens /\ undo /\ bk' \in {[over EXCEPT !.clone = "none", !.note = "dropped"], [over EXCEPT !.note = "manual"]}
    /\ mgr' = [mgr EXCEPT !.keys = IF bk.inPlace THEN @ \ {<<"restore", bk.d>>} ELSE @]
    /\ UNCHANGED <<data, rec, stored, p, stream>>

\* A record that could not be saved is, once writes work again.
SaveRestoreLater ==
    /\ Alive /\ bk.pc = "over" /\ bk.status = "in_progress"
    /\ bk' = [bk EXCEPT !.status = bk.outcome]
    /\ UNCHANGED <<data, rec, stored, p, stream, mgr, life>>

\* CancelRestore: refused once the run is finishing (runs.ErrFinishing).
Cancellable(r) == r.pc \notin {"idle", "final", "save", "release", "over"} /\ ~r.finishing /\ ~r.cancelled
CancelRestore ==
    /\ Alive /\ Happens
    /\ \/ Cancellable(p) /\ p' = [p EXCEPT !.cancelled = TRUE] /\ UNCHANGED bk
       \/ Cancellable(bk) /\ bk' = [bk EXCEPT !.cancelled = TRUE] /\ UNCHANGED p
    /\ UNCHANGED <<data, rec, stored, stream, mgr>>

-----------------------------------------------------------------------------
(* The collector of the stream and its base backups, as the restores see   *)
(* them (OplogCollector and PITRRetention model them).                     *)

\* reconcile lists the streams, and then goes by its list: ...
ListStreams ==
    /\ Accepting /\ stream.listed = "none" /\ (stream.enabled \/ stream.collecting)
    /\ stream' = [stream EXCEPT !.listed = IF stream.enabled THEN "on" ELSE "off"]
    /\ UNCHANGED <<data, rec, stored, p, bk, mgr, life>>

\* ... the collector of a stream that is disabled, or was changed, is stopped; a shutdown
\* stops it as well; ...
CollectorStops ==
    /\ stream.collecting /\ (stream.listed # "none" \/ mgr.closed)
    /\ stream' = [stream EXCEPT !.collecting = FALSE, !.late = FALSE, !.listed = IF @ = "off" THEN "none" ELSE @]
    /\ UNCHANGED <<data, rec, stored, p, bk, mgr, life>>

\* ... and one is started that opens a chain if none is open, even when the stream was
\* disabled since it was listed (late).
CollectorStarts ==
    /\ Accepting /\ stream.listed = "on" /\ ~stream.collecting
    /\ stream' = [stream EXCEPT !.collecting = TRUE, !.open = TRUE, !.listed = "none", !.late = ~stream.enabled]
    /\ UNCHANGED <<data, rec, stored, p, bk, mgr, life>>

\* A scheduled base backup.
BaseStarts ==
    /\ Accepting /\ stream.enabled /\ stream.open /\ stream.base = "none" /\ <<"base", 0>> \notin mgr.keys
    /\ StartBase
    /\ UNCHANGED <<data, rec, stored, p, bk, life>>

BaseEnds ==
    /\ stream.base = "running"
    /\ stream' = [stream EXCEPT !.base = "none"]
    /\ mgr' = [mgr EXCEPT !.keys = @ \ {<<"base", 0>>}]
    /\ UNCHANGED <<data, rec, stored, p, bk, life>>

\* The goroutine of resumeInterrupted: the stream is enabled if it is not, or an alert is
\* raised, ...
EnableAgain ==
    /\ life.state = "up" /\ stream.due /\ ~stream.enabled
    /\ \/ stream' = [stream EXCEPT !.enabled = TRUE] /\ UNCHANGED <<past, life>>
       \/ Happens /\ stream' = [stream EXCEPT !.due = FALSE] /\ past' = [past EXCEPT !.alert = TRUE]
    /\ UNCHANGED <<db, clone, safety, rec, stored, p, bk, mgr>>

\* ... and its new chain gets a base backup, unless none opens in time.
BaseTimesOut ==
    /\ life.state = "up" /\ stream.due /\ stream.enabled /\ ~stream.open /\ Happens
    /\ stream' = [stream EXCEPT !.due = FALSE] /\ past' = [past EXCEPT !.alert = TRUE]
    /\ UNCHANGED <<db, clone, safety, rec, stored, p, bk, mgr>>
BaseAfterRecovery ==
    /\ life.state = "up" /\ stream.due /\ stream.enabled /\ stream.open
    /\ IF <<"base", 0>> \in mgr.keys THEN stream' = [stream EXCEPT !.due = FALSE] /\ UNCHANGED mgr
       ELSE stream' = [stream EXCEPT !.due = FALSE, !.base = "running"] /\ mgr' = [mgr EXCEPT !.keys = @ \cup {<<"base", 0>>}]
    /\ UNCHANGED <<data, rec, stored, p, bk, life>>

-----------------------------------------------------------------------------
(* Shutdown, crash and start.                                              *)

Over(r) == r.pc \in {"idle", "over"}
Lost == /\ p' = NoRun /\ rec' = NoRec /\ mgr' = NoKeys
        /\ stream' = [stream EXCEPT !.collecting = FALSE, !.listed = "none", !.late = FALSE, !.base = "none", !.due = FALSE]
        /\ bk' = IF bk.status = "in_progress" THEN [bk EXCEPT !.pc = "over", !.note = "interrupted", !.outcome = "none"] ELSE bk

\* Stop cancels the context of every run; ForceStop cancels the runs as well.  That of
\* resumeInterrupted's goroutine ends, which raises its alert.
Stop ==
    /\ life.state = "up" /\ life.events < MaxEvents
    /\ mgr' = [mgr EXCEPT !.closed = TRUE]
    /\ life' = [state |-> "stopping", events |-> life.events + 1]
    /\ \E force \in BOOLEAN :
         /\ p' = [p EXCEPT !.cancelled = @ \/ (force /\ Cancellable(p))]
         /\ bk' = [bk EXCEPT !.cancelled = @ \/ (force /\ Cancellable(bk))]
    /\ stream' = [stream EXCEPT !.due = FALSE]
    /\ past' = [past EXCEPT !.alert = @ \/ stream.due]
    /\ UNCHANGED <<db, clone, safety, rec, stored>>

\* shutdownRuns: every run has ended.
Exit ==
    /\ life.state \in {"stopping", "waiting", "grace", "killing"}
    /\ Over(p) /\ Over(bk) /\ ~stream.collecting /\ stream.base = "none"
    /\ life' = [life EXCEPT !.state = "down"]
    /\ Lost
    /\ UNCHANGED <<data, stored>>

\* shutdownTimeout has passed: critical steps are waited for, then the tools are killed.
\* Between the pause and the critical step lie only two saves of persistTimeout each,
\* far less than shutdownTimeout.
Deadline ==
    /\ \/ life.state = "stopping" /\ p.pc # "paused"
          /\ life' = [life EXCEPT !.state = IF mgr.critical > 0 THEN "waiting" ELSE "killing"]
       \/ life.state = "waiting" /\ mgr.critical = 0 /\ life' = [life EXCEPT !.state = "grace"]
       \/ life.state = "grace" /\ life' = [life EXCEPT !.state = "killing"]
    /\ UNCHANGED <<data, rec, stored, p, bk, stream, mgr>>

\* forceKillGrace has passed: the process exits anyway.
ExitAnyway ==
    /\ life.state = "killing"
    /\ life' = [life EXCEPT !.state = "down"]
    /\ Lost
    /\ UNCHANGED <<data, stored>>

\* The process is lost.  A copy has a pipe of its own between the two tools and may
\* outlive it.  A stream that was taken for enabled, but is not, is nobody's then: the
\* record of its restore is settled.
Crash ==
    /\ life.state # "down" /\ life.events < MaxEvents
    /\ life' = [state |-> "down", events |-> life.events + 1]
    /\ \E o \in {past.orphan} \cup (IF p.pc = "copy" THEN {Now} ELSE {}) :
         past' = [past EXCEPT !.orphan = o, !.missed = @ \/ (life.state = "up" /\ stream.due /\ ~stream.enabled)]
    /\ Lost
    /\ UNCHANGED <<db, clone, safety, stored>>

OrphanEnds ==
    /\ past.orphan # 0
    /\ \E end \in {"copied", "part"} : db' = [db EXCEPT ![past.orphan] = end]
    /\ past' = [past EXCEPT !.orphan = 0, !.stray = IF life.state = "down" THEN @ ELSE @ \cup {past.orphan}]
    /\ UNCHANGED <<clone, safety, rec, stored, p, bk, stream, mgr, life>>

\* The process starts.
Start ==
    /\ life.state = "down"
    /\ life' = [life EXCEPT !.state = "clones"]
    /\ rec' = stored
    /\ UNCHANGED <<data, stored, p, bk, stream, mgr>>

Interrupted == stored.status = "in_progress"
AfterRestoring == rec.inPlace /\ rec.stage # "restoring"

\* Mutant: the clones of any interrupted restore are dropped.
KeepsClonesNever == FALSE

\* cleanupInterruptedInPlace: once the swap was started the clones may be the only copy.
KeepsClones == AfterRestoring /\ rec.swapStarted

\* failInterruptedRuns, CleanupInterruptedPITR, cleanupInterruptedInPlace: the clones ...
CleanupInterrupted ==
    LET noted(claim, c) == rec' = [rec EXCEPT !.claim = claim, !.clones = c] IN
    /\ life.state = "clones"
    /\ IF Interrupted /\ ~KeepsClones
       THEN \/ /\ clone' = [d \in Databases |-> "none"] /\ noted("untouched", "none")
               /\ life' = [life EXCEPT !.state = "stream"]
            \/ /\ life.events < MaxEvents /\ life' = [state |-> "stream", events |-> life.events + 1]
               /\ noted("untouched", "manual") /\ UNCHANGED clone
       ELSE /\ IF Interrupted THEN noted("partial", "kept") ELSE UNCHANGED rec
            /\ life' = [life EXCEPT !.state = "stream"] /\ UNCHANGED clone
    /\ UNCHANGED <<db, safety, past, stored, p, bk, stream, mgr>>

\* ... and the stream (resumeInterrupted).
ResumeInterrupted ==
    /\ life.state = "stream"
    /\ IF Interrupted /\ AfterRestoring /\ rec.wasEnabled /\ ~rec.resumed
       THEN \/ stream' = [stream EXCEPT !.enabled = TRUE, !.due = TRUE] /\ life' = [life EXCEPT !.state = "mark"] /\ UNCHANGED past
            \/ EnableLater /\ life.events < MaxEvents /\ life' = [state |-> "mark", events |-> life.events + 1]
       ELSE life' = [life EXCEPT !.state = "mark"] /\ UNCHANGED <<stream, past>>
    /\ UNCHANGED <<db, clone, safety, rec, stored, p, bk, mgr>>

\* The interrupted restores are failed.
MarkInterrupted ==
    /\ life.state = "mark"
    /\ IF Interrupted THEN Save([rec EXCEPT !.status = "failed"]) ELSE UNCHANGED <<rec, stored>>
    /\ bk' = IF bk.status = "in_progress" THEN [bk EXCEPT !.status = "failed"] ELSE bk
    /\ life' = [life EXCEPT !.state = "up"]
    /\ UNCHANGED <<data, p, stream, mgr>>

-----------------------------------------------------------------------------

\* The goroutine of the point-in-time restore.
PITRStep ==
    \/ CheckFails \/ RestoreBase \/ BaseRestored \/ PassFails \/ KeptForInspection \/ Replayed \/ PostFails
    \/ ClonesComplete \/ SnapshotClones \/ SnapshotFails \/ SafetyBackup \/ SafetyFails \/ PreparePause
    \/ DisableStream \/ EndChain \/ PauseFails \/ BeginSwap \/ BeginCopy \/ CopyEnds \/ DropExtras \/ Swapped
    \/ SwapFails \/ SwapDone \/ ClonesAfterSwap \/ EnableStream \/ EnableInShutdown \/ StreamResumed \/ ResumeTimesOut \/ Settle
    \/ FinishRestore \/ FinishUnsaved \/ Release

BackupStep == Refused \/ Mongorestore \/ ToolDone \/ ToolFails \/ Checked \/ PostRestore \/ SaveRestore
Collector == ListStreams \/ CollectorStops \/ CollectorStarts
Base == BaseEnds \/ BaseAfterRecovery
ResumingStep == EnableAgain \/ BaseTimesOut
Recovery == Start \/ CleanupInterrupted \/ ResumeInterrupted \/ MarkInterrupted
ShutdownStep == Exit \/ Deadline

Next ==
    \/ \E inPlace, keep \in BOOLEAN : StartPITR(inPlace, keep)
    \/ \E d \in Databases, inPlace \in BOOLEAN : StartRestore(d, inPlace)
    \/ \E d \in Databases : CloneChanges(d)
    \/ PITRStep \/ SaveDeferred \/ BackupStep \/ SaveRestoreLater \/ CancelRestore
    \/ Collector \/ Base \/ BaseStarts \/ ResumingStep
    \/ Stop \/ ShutdownStep \/ ExitAnyway \/ Crash \/ OrphanEnds \/ Recovery

\* Goroutines run, the collector is supervised, a stopping process exits and one that is
\* down is started again.
Fairness ==
    /\ WF_vars(PITRStep) /\ WF_vars(BackupStep) /\ WF_vars(Collector) /\ WF_vars(Base) /\ WF_vars(ResumingStep)
    /\ WF_vars(ShutdownStep) /\ WF_vars(Recovery)

Spec == Init /\ [][Next]_vars /\ Fairness

-----------------------------------------------------------------------------

Final == {"completed", "failed", "cancelled"}
Contents == {"none", "old", "backup", "part", "copied", "new", "full", "changed"}

Records ==
    [status : {"none", "in_progress"} \cup Final, inPlace : BOOLEAN, keep : BOOLEAN,
     stage : {"restoring", "safety_backup", "pausing", "swapping", "resuming", "done"}, swapStarted : BOOLEAN,
     wasEnabled : BOOLEAN, resumed : BOOLEAN, swapped : SUBSET Databases,
     claim : {"none", "untouched", "partial", "restored"}, clones : {"none", "manual", "kept"}]
Places ==
    {"idle", "queued", "base", "replay", "post", "snapshot", "safety", "pausing", "disabled", "paused", "swap", "copy",
     "copied", "swapped", "clones", "resume", "wait", "settle", "final", "release", "over"}
Goroutines ==
    [pc : Places, cancelled : BOOLEAN, finishing : BOOLEAN, after : {"none", "untouched", "partial", "restored"}, deferred : BOOLEAN]
BackupRestores ==
    [pc : {"idle", "queued", "tool", "check", "post", "save", "over"}, d : Databases \cup {0}, inPlace : BOOLEAN,
     cancelled : BOOLEAN, finishing : BOOLEAN, status : {"none", "in_progress"} \cup Final,
     outcome : {"none"} \cup Final, clone : Contents,
     note : {"none", "untouched", "dropped", "manual", "partial", "kept", "uncounted", "complete", "interrupted"}]
Streams ==
    [enabled : BOOLEAN, on : BOOLEAN, open : BOOLEAN, collecting : BOOLEAN, listed : {"none", "on", "off"}, late : BOOLEAN,
     base : {"none", "running"}, due : BOOLEAN]
States == {"up", "stopping", "waiting", "grace", "killing", "down", "clones", "stream", "mark"}

Managers == [keys : SUBSET InPlaceKeys, closed : BOOLEAN, critical : 0..1]
Lives == [state : States, events : 0..MaxEvents]
Pasts == [was : [Databases -> Contents], made : SUBSET Databases, orphan : Databases \cup {0},
          stray : SUBSET Databases, alert : BOOLEAN, missed : BOOLEAN]

TypeOK ==
    /\ db \in [Databases -> Contents] /\ clone \in [Databases -> Contents] /\ safety \in [Databases -> Contents]
    /\ rec \in Records /\ stored \in Records /\ p \in Goroutines /\ bk \in BackupRestores
    /\ stream \in Streams /\ mgr \in Managers /\ life \in Lives /\ past \in Pasts

\* No data is lost by an in-place restore, wherever it fails, is stopped or crashes: the
\* state an original had when the swap reached it is in the original or in its safety
\* backup, and until the original holds the restored state the clone does.
StatesKept ==
    /\ TypeOK
    /\ \A d \in Databases : past.was[d] # "none" =>
         /\ past.was[d] \in {db[d], safety[d]}
         /\ d \notin past.made => clone[d] = "full"

\* The swap is left alone: while a clone is copied over its original no base backup and no
\* other restore runs, a shutdown that has come to killing the tools finds no copy running,
\* and no collector reads the oplog but one that reconcile started late, from a list of the
\* streams older than the pause: PauseStream waits for the collector there is, not for a
\* reconcile under way.  To that end the keys held are those of the restores and base
\* backups under way: none is left behind and none released twice.
SwapUndisturbed ==
    /\ p.pc \in {"copy", "copied"} =>
         /\ stream.collecting => stream.late
         /\ stream.base = "none" /\ ~(bk.inPlace /\ bk.pc = "tool") /\ life.state # "killing"
    /\ mgr.keys = UNION {IF Over(p) THEN {} ELSE PITRHolds,
                         IF bk.inPlace /\ ~Over(bk) THEN {<<"restore", bk.d>>} ELSE {},
                         IF stream.base = "running" THEN {<<"base", 0>>} ELSE {}}

\* What the record of a finished restore says.
Truthful ==
    /\ stored.claim = "untouched" => \A d \in Databases : past.was[d] = "none"
    /\ stored.claim = "partial" => \A d \in Databases : IF d \in stored.swapped THEN d \in past.made ELSE clone[d] \in {"full", "changed"}
    /\ stored.claim = "restored" => past.made = Databases
    /\ stored.status = "completed" => IF stored.inPlace THEN stored.claim = "restored" ELSE \A d \in Databases : clone[d] = "full"
    /\ (\E d \in Databases : clone[d] # "none") => stored.clones \in {"kept", "manual"}
    /\ stored.clones = "kept" => (\A d \in Databases : clone[d] # "none") \/ (stored.claim = "partial" /\ stored.swapped = Databases)

BkTruthful ==
    /\ bk.outcome = "completed" /\ bk.note # "uncounted" /\ bk.d \notin past.stray \cup {past.orphan} =>
         (IF bk.inPlace THEN db[bk.d] ELSE bk.clone) = "backup"
    /\ bk.note \in {"untouched", "dropped"} => bk.clone = "none"

\* A restore is recorded as what it was: the record that is stored when it ends, or
\* when a start finds it interrupted, claims nothing about the originals, the clones
\* and the safe clone that does not hold; that of a backup when its run is over, since
\* its key is free then and its record may be saved later, but with that outcome.  Clones
\* that it calls kept are there, with one exception: a restore that is cut after its last
\* swap may have dropped them, and all that is stored is that every database was swapped;
\* the next start calls the clones kept, and then every original holds the restored state.
\* A restore of a backup of which mongorestore printed no counts is completed with a
\* warning: nothing is claimed of what it wrote.
OutcomeTruthful ==
    [][/\ stored'.status \in Final /\ stored.status \notin Final => Truthful'
       /\ bk'.pc = "over" /\ bk.pc # "over" => BkTruthful'
       /\ bk'.status \in Final /\ bk.status \notin Final => bk'.status \in {bk'.outcome, "failed"}]_vars

\* A stream that was disabled stays so; one that was enabled is collected again, whatever
\* happens to the restore that paused it, unless an alert says that it could not be.  The
\* code misses two cases, in which an enable that ran out of time was taken for done
\* (past.missed): one in a shutdown (EnableInShutdown), and one of a start whose process
\* dies before its goroutine has tried again (Crash).
StreamReturns == [][stream'.enabled => stream.on]_vars /\ []<>(stream.on => stream.collecting \/ past.alert \/ past.missed)
=============================================================================
