------------------------ MODULE InPlaceRestoreProofs ------------------------
(***************************************************************************)
(* Proofs about InPlaceRestore, for every set of databases and every bound *)
(* on events: the swap is left alone (SwapUndisturbed), whether or not     *)
(* progress can be stored, and where it can no data is lost (StatesKept)   *)
(* and no record claims what does not hold (OutcomeTruthful).              *)
(*                                                                         *)
(* The inductive invariant has a part for the places the goroutine, the    *)
(* stream and the process can be in together (LifeInv), one for who holds  *)
(* which keys (KeysInv), one for when resumeInterrupted's goroutine is     *)
(* under way (DueInv), one for the databases and their safety backups      *)
(* (DataInv), one for what the stored record tells the next start          *)
(* (SavedInv) and one for what the records claim or will claim (ClaimInv). *)
(* Most actions move a run along an edge and leave all else as it is       *)
(* (Walk, BkWalk, Quiet; DataCalm, RunCalm, RecCalm, SavedCalm, ClaimCalm, *)
(* Early): which ones do is shown once, and each part goes by these kinds  *)
(* and by the few actions that are of none.                                *)
(***************************************************************************)
EXTENDS InPlaceRestore, FiniteSetTheorems, WellFoundedInduction, TLAPS

\* Where the point-in-time restore swaps, ...
Swapping == {"swap", "copy", "copied", "swapped"}

\* ... where its stream is paused, ...
Pausing == {"disabled", "paused", "clones"} \cup Swapping

\* ... where no original was written yet, ...
Before == {"queued", "base", "replay", "post", "snapshot", "safety", "pausing", "disabled", "paused"}

\* ... and where only one in place comes to.
InPlaceOnly == {"snapshot", "safety", "pausing", "resume", "wait", "settle"} \cup Pausing

\* The goroutine, the stream, the Manager and the process: nothing runs in a process that is
\* down or starting, the critical step is the swap, and between the pause and the end of the swap
\* comes no deadline, nor a collector but a late one.
LifeInv ==
    /\ ~Alive => p = NoRun /\ mgr = NoKeys /\ stream.base = "none" /\ ~stream.collecting /\ Over(bk)
    /\ mgr.closed <=> life.state \in {"stopping", "waiting", "grace", "killing"}
    /\ mgr.critical = IF p.pc \in Swapping THEN 1 ELSE 0
    /\ life.state \in {"grace", "killing"} => p.pc \notin Swapping \cup {"paused"}
    /\ life.state = "waiting" => p.pc # "paused"
    /\ p.pc \in Pausing => ~stream.enabled
    /\ p.pc \in Pausing \ {"disabled"} /\ stream.collecting => stream.late
    /\ p.pc \in InPlaceOnly => rec.inPlace
    /\ p.pc \in Before \cup Swapping \cup {"idle"} => p.after = "none"
    /\ p.pc = "clones" => p.after = "restored"
    /\ p.pc \in {"resume", "wait", "settle"} => p.after # "none"
    /\ bk.pc \notin {"idle", "over"} => bk.status = "in_progress" /\ bk.d \in Databases
    /\ p.deferred => p.pc \in {"release", "over"}
    /\ p.pc \in {"copy", "copied", "swapped"} => Left # {}

\* A stream that a start found paused is not enabled by one restore while the next pauses it: there
\* is no next.
DueInv == stream.due => life.state \in {"mark", "up"} /\ p.pc \in {"idle", "release", "over"} /\ stored.status # "none"

\* The point-in-time restore holds the restore keys of its databases, ...
HoldsRestores == rec.inPlace /\ ~Over(p)

\* ... and the base backup key.
HoldsBase == HoldsRestores /\ (p.after = "none" \/ p.pc \in {"clones", "resume"})

\* The restore of a backup holds the restore key of d.
BkHolds(d) == bk.inPlace /\ ~Over(bk) /\ bk.d = d

\* Every key that is held has one holder that is under way.
KeysInv ==
    /\ <<"base", 0>> \in mgr.keys <=> HoldsBase \/ stream.base = "running"
    /\ \A d \in Databases : <<"restore", d>> \in mgr.keys <=> HoldsRestores \/ BkHolds(d)
    /\ HoldsBase => stream.base = "none"
    /\ \A d \in Databases : ~(HoldsRestores /\ BkHolds(d))

\* The swap has come to database d.
Reached(d) == past.was[d] # "none"

\* There is one point-in-time restore, and it is recorded before it does anything.
RunInv ==
    /\ stored.status = "none" => p.pc = "idle" /\ \A d \in Databases : ~Reached(d) /\ safety[d] = "none"
    /\ p.pc # "idle" => rec.status # "none"
    /\ life.state # "down" /\ p.pc = "idle" => rec.status = stored.status

\* Before the swap no original was reached, and before the stage of the safety backups there
\* are none.
UntouchedInv ==
    /\ p.pc \in Before \/ (p.pc # "idle" /\ ~rec.inPlace) \/ p.after = "untouched" => \A d \in Databases : ~Reached(d)
    /\ p.pc \in {"queued", "base", "replay", "post", "snapshot"} => \A d \in Databases : safety[d] = "none"
    /\ p.pc \in Before => rec.swapped = {}

\* A safety backup is of the state the swap finds: nothing writes to the original between.
SafetyInv ==
    /\ \A d \in Databases : db[d] # "none" /\ (Reached(d) => safety[d] = past.was[d])
    /\ p.pc \in {"pausing", "disabled", "paused"} \cup Swapping => \A d \in Databases : safety[d] # "none"
    /\ p.pc \in {"safety", "pausing", "disabled", "paused"} \cup Swapping =>
          \A d \in Databases : safety[d] # "none" /\ ~Reached(d) => db[d] = safety[d]

\* The originals are swapped one by one, and only the one being copied is in between.
SwapInv ==
    /\ p.pc \in Swapping =>
          /\ rec.swapped \subseteq past.made
          /\ \A d \in Left : Reached(d) => p.pc # "swap" /\ d = Now
    /\ p.pc \in {"copy", "copied", "swapped"} => Reached(Now)
    /\ p.pc = "swapped" => Now \in past.made
    /\ p.pc = "clones" => past.made = Databases
    /\ past.orphan # 0 => Reached(past.orphan)

\* The databases.
DataInv == RunInv /\ UntouchedInv /\ SafetyInv /\ SwapInv

\* Record r tells a start that the clones may be the only copy.
Ready(r) == r.inPlace /\ r.stage # "restoring" /\ r.swapStarted

\* Once an original was reached the stored record says so, and so does the one in memory;
\* a clone that was not copied completely is there.
SavedInv ==
    /\ life.state \in {"clones", "stream", "mark"} => (Ready(stored) => Ready(rec))
    /\ \A d \in Databases : Reached(d) => Ready(stored) /\ (p.pc # "idle" => Ready(rec))
    /\ p.pc \in Swapping => Ready(rec) /\ Ready(stored)
    /\ \A d \in Databases : Reached(d) /\ d \notin past.made => clone[d] = "full"

\* A nonempty set of numbers has its minimum.
LEMMA MinIn == ASSUME NEW S \in SUBSET Nat, S # {} PROVE Min(S) \in S
<1> DEFINE Less == {ss \in Nat \X Nat : ss[1] < ss[2]}
<1>1. IsWellFoundedOn(Less, Nat)
  BY NatLessThanWellFounded DEF OpToRel
<1>2. PICK x \in S : \A y \in S : <<y, x>> \notin Less
  BY <1>1, WFMin
<1>3. \A y \in S : x <= y
  <2>1. ASSUME NEW y \in S, y < x PROVE FALSE
    <3>1. <<y, x>> \in Nat \X Nat /\ <<y, x>>[1] = y /\ <<y, x>>[2] = x
      OBVIOUS
    <3>2. <<y, x>> \in Less
      BY <2>1, <3>1
    <3> QED
      BY <1>2, <3>2
  <2> QED
    BY <2>1
<1> QED
  BY <1>3 DEF Min

\* The database to swap next is one that is left.
LEMMA NowLeft == Left # {} => Now \in Left /\ Now \in Databases
BY InPlaceConstants, MinIn DEF Now, Left

\* The database to back up next is one without a safety backup.
LEMMA NextUnsaved == Unsaved # {} => Min(Unsaved) \in Databases /\ safety[Min(Unsaved)] = "none"
BY InPlaceConstants, MinIn DEF Unsaved

\* The keys an in-place restore takes.
LEMMA KeysIn == <<"base", 0>> \in InPlaceKeys /\ \A d \in Databases : <<"restore", d>> \in InPlaceKeys
BY DEF InPlaceKeys

\* resumeInterrupted: the stream, and what it leaves.
LEMMA LaterEnabled ==
  ASSUME TypeOK, EnableLater
  PROVE  /\ stream' \in Streams /\ stream'.collecting = stream.collecting /\ stream'.late = stream.late
         /\ stream'.base = stream.base /\ (stream'.due => stream.due \/ ~mgr.closed)
         /\ past' \in Pasts /\ past'.was = past.was /\ past'.made = past.made /\ past'.orphan = past.orphan /\ past'.stray = past.stray
<1>1. CASE \E on \in {stream.enabled, TRUE} :
             stream' = [stream EXCEPT !.enabled = on, !.due = ~mgr.closed] /\ UNCHANGED past
  BY <1>1 DEF TypeOK, Streams, Managers
<1>2. CASE past' = [past EXCEPT !.alert = TRUE] /\ UNCHANGED stream
  BY <1>2 DEF TypeOK, Streams, Pasts
<1> QED
  BY <1>1, <1>2 DEF EnableLater

\* The actions that change the originals.
LEMMA DbWriters ==
  ASSUME Next
  PROVE  \/ BeginCopy \/ CopyEnds \/ DropExtras \/ Mongorestore \/ ToolDone \/ OrphanEnds
         \/ UNCHANGED db
BY DEF Next, PITRStep, BackupStep, Collector, Base, Recovery, ShutdownStep, ResumingStep, ListStreams,
   EnableInShutdown, EnableAgain, BaseTimesOut, StartPITR, StartRestore, CloneChanges, CheckFails, RestoreBase,
   BaseRestored, PassFails, KeptForInspection, Replayed, PostFails, ClonesComplete, SnapshotClones, SnapshotFails,
   SafetyBackup, SafetyFails, PreparePause, DisableStream, EndChain, PauseFails, BeginSwap, Swapped, SwapFails,
   SwapDone, ClonesAfterSwap, EnableStream, StreamResumed, ResumeTimesOut, Settle, FinishRestore, FinishUnsaved,
   Release, SaveDeferred, Refused, ToolFails, Checked, PostRestore, SaveRestore, SaveRestoreLater, CancelRestore,
   CollectorStarts, CollectorStops, BaseStarts, BaseEnds, BaseAfterRecovery, Stop, Exit, Deadline, ExitAnyway, Crash,
   Start, CleanupInterrupted, ResumeInterrupted, MarkInterrupted, Happens, End, BkEnd, NotSwapped, DropClones,
   SaveInPlace, Save, Write, DropClone, StartBase, Lost, data

\* Every step keeps the type of the originals.
LEMMA DbType ==
  ASSUME TypeOK, LifeInv, Next
  PROVE  db' \in [Databases -> Contents]
<1>1. CASE BeginCopy
  BY <1>1 DEF TypeOK, Contents, BeginCopy, data
<1>2. CASE CopyEnds
  BY <1>2 DEF TypeOK, Contents, CopyEnds, data
<1>3. CASE DropExtras
  BY <1>3 DEF TypeOK, Contents, DropExtras, data
<1>4. CASE Mongorestore
  BY <1>4 DEF TypeOK, Contents, Mongorestore, Write, data
<1>5. CASE ToolDone
  BY <1>5 DEF TypeOK, Contents, ToolDone, Write, Happens, data
<1>6. CASE OrphanEnds
  BY <1>6 DEF TypeOK, Contents, OrphanEnds, data
<1>7. CASE UNCHANGED db
  BY <1>7 DEF TypeOK
<1> QED
  BY <1>1, <1>2, <1>3, <1>4, <1>5, <1>6, <1>7, DbWriters

\* The actions that change the clones.
LEMMA CloneWriters ==
  ASSUME Next
  PROVE  \/ (\E d \in Databases : CloneChanges(d)) \/ RestoreBase \/ PassFails \/ Replayed \/ SnapshotFails \/ SafetyFails
         \/ ClonesAfterSwap \/ Settle \/ FinishUnsaved \/ CleanupInterrupted
         \/ UNCHANGED clone
BY DEF Next, PITRStep, BackupStep, Collector, Base, Recovery, ShutdownStep, ResumingStep, ListStreams,
   EnableInShutdown, EnableAgain, BaseTimesOut, StartPITR, StartRestore, CheckFails, BaseRestored, KeptForInspection,
   PostFails, ClonesComplete, SnapshotClones, SafetyBackup, PreparePause, DisableStream, EndChain, PauseFails,
   BeginSwap, BeginCopy, CopyEnds, DropExtras, Swapped, SwapFails, SwapDone, EnableStream, StreamResumed,
   ResumeTimesOut, FinishRestore, Release, SaveDeferred, Refused, Mongorestore, ToolDone, ToolFails, Checked,
   PostRestore, SaveRestore, SaveRestoreLater, CancelRestore, CollectorStarts, CollectorStops, BaseStarts, BaseEnds,
   BaseAfterRecovery, Stop, Exit, Deadline, ExitAnyway, Crash, OrphanEnds, Start, ResumeInterrupted, MarkInterrupted,
   Happens, End, BkEnd, NotSwapped, DropClones, SaveInPlace, Save, Write, DropClone, StartBase, Lost, data

\* Every step keeps the type of the clones.
LEMMA CloneType ==
  ASSUME TypeOK, LifeInv, Next
  PROVE  clone' \in [Databases -> Contents]
<1>1. ASSUME NEW d \in Databases, CloneChanges(d) PROVE clone' \in [Databases -> Contents]
  BY <1>1 DEF TypeOK, Contents, CloneChanges, Happens, data
<1>2. CASE RestoreBase
  BY <1>2 DEF TypeOK, Contents, RestoreBase, data
<1>3. CASE PassFails
  BY <1>3 DEF TypeOK, Contents, PassFails, CtxDone, DropClones, Dropped, Happens, End, FailStatus, data
<1>4. CASE Replayed
  BY <1>4 DEF TypeOK, Contents, Replayed, data
<1>5. CASE SnapshotFails
  BY <1>5 DEF TypeOK, Contents, SnapshotFails, NotSwapped, DropClones, Dropped, Happens, End, data
<1>6. CASE SafetyFails
  BY <1>6 DEF TypeOK, Contents, SafetyFails, NotSwapped, DropClones, Dropped, Happens, End, data
<1>7. CASE ClonesAfterSwap
  BY <1>7 DEF TypeOK, Contents, ClonesAfterSwap, DropClones, Dropped, Happens, data
<1>8. CASE Settle
  BY <1>8 DEF TypeOK, Contents, Settle, NotSwapped, DropClones, Dropped, Happens, End, data
<1>9. CASE FinishUnsaved
  BY ZenonT(60), <1>9 DEF TypeOK, Contents, FinishUnsaved, Dropped, Happens, data
<1>10. CASE CleanupInterrupted
  BY <1>10 DEF TypeOK, Contents, CleanupInterrupted, data
<1>11. CASE UNCHANGED clone
  BY <1>11 DEF TypeOK
<1> QED
  BY <1>1, <1>2, <1>3, <1>4, <1>5, <1>6, <1>7, <1>8, <1>9, <1>10, <1>11, CloneWriters

\* The actions that change the safety backups.
LEMMA SafetyWriters ==
  ASSUME Next
  PROVE  \/ SafetyBackup
         \/ UNCHANGED safety
BY DEF Next, PITRStep, BackupStep, Collector, Base, Recovery, ShutdownStep, ResumingStep, ListStreams,
   EnableInShutdown, EnableAgain, BaseTimesOut, StartPITR, StartRestore, CloneChanges, CheckFails, RestoreBase,
   BaseRestored, PassFails, KeptForInspection, Replayed, PostFails, ClonesComplete, SnapshotClones, SnapshotFails,
   SafetyFails, PreparePause, DisableStream, EndChain, PauseFails, BeginSwap, BeginCopy, CopyEnds, DropExtras,
   Swapped, SwapFails, SwapDone, ClonesAfterSwap, EnableStream, StreamResumed, ResumeTimesOut, Settle, FinishRestore,
   FinishUnsaved, Release, SaveDeferred, Refused, Mongorestore, ToolDone, ToolFails, Checked, PostRestore,
   SaveRestore, SaveRestoreLater, CancelRestore, CollectorStarts, CollectorStops, BaseStarts, BaseEnds,
   BaseAfterRecovery, Stop, Exit, Deadline, ExitAnyway, Crash, OrphanEnds, Start, CleanupInterrupted,
   ResumeInterrupted, MarkInterrupted, Happens, End, BkEnd, NotSwapped, DropClones, SaveInPlace, Save, Write,
   DropClone, StartBase, Lost, data

\* Every step keeps the type of the safety backups.
LEMMA SafetyType ==
  ASSUME TypeOK, LifeInv, Next
  PROVE  safety' \in [Databases -> Contents]
<1>1. CASE SafetyBackup
  BY <1>1 DEF TypeOK, Contents, SafetyBackup, data
<1>2. CASE UNCHANGED safety
  BY <1>2 DEF TypeOK
<1> QED
  BY <1>1, <1>2, SafetyWriters

\* The actions that change the record.
LEMMA RecWriters ==
  ASSUME Next
  PROVE  \/ (\E inPlace, keep \in BOOLEAN : StartPITR(inPlace, keep)) \/ CheckFails \/ PassFails \/ KeptForInspection
         \/ PostFails \/ ClonesComplete \/ SnapshotClones \/ SnapshotFails \/ SafetyFails \/ PreparePause \/ BeginSwap
         \/ Swapped \/ SwapFails \/ SwapDone \/ ClonesAfterSwap \/ StreamResumed \/ Settle \/ FinishRestore
         \/ FinishUnsaved \/ SaveDeferred \/ Exit \/ ExitAnyway \/ Crash \/ Start \/ CleanupInterrupted \/ MarkInterrupted
         \/ EnableInShutdown
         \/ UNCHANGED rec
BY DEF Next, PITRStep, BackupStep, Collector, Base, Recovery, ShutdownStep, ResumingStep, ListStreams, EnableAgain,
   BaseTimesOut, StartRestore, CloneChanges, RestoreBase, BaseRestored, Replayed, SafetyBackup, DisableStream,
   EndChain, PauseFails, BeginCopy, CopyEnds, DropExtras, EnableStream, ResumeTimesOut, Release, Refused,
   Mongorestore, ToolDone, ToolFails, Checked, PostRestore, SaveRestore, SaveRestoreLater, CancelRestore,
   CollectorStarts, CollectorStops, BaseStarts, BaseEnds, BaseAfterRecovery, Stop, Deadline, OrphanEnds,
   ResumeInterrupted, Happens, End, BkEnd, NotSwapped, DropClones, SaveInPlace, Save, Write, DropClone, StartBase,
   Lost, data

\* Every step keeps the type of the record.
LEMMA RecType ==
  ASSUME TypeOK, LifeInv, Next
  PROVE  rec' \in Records
<1>1. ASSUME NEW inPlace \in BOOLEAN, NEW keep \in BOOLEAN, StartPITR(inPlace, keep) PROVE rec' \in Records
  <2>1. [NoRec EXCEPT !.status = "in_progress", !.inPlace = inPlace, !.keep = keep] \in Records
    BY DEF NoRec, Records
  <2> QED
    BY <1>1, <2>1 DEF StartPITR, Save
<1>2. CASE CheckFails
  BY ZenonT(60), <1>2 DEF TypeOK, Records, Final, CheckFails, CtxDone, Happens, End, FailStatus, data
<1>3. CASE PassFails
  <2>1. PICK s \in Final, a \in {"none", "untouched", "partial", "restored"}, c \in {"none", "manual", "kept"} :
          rec' = [rec EXCEPT !.status = s, !.stage = "done", !.claim = a, !.clones = c]
    BY <1>3  DEF PassFails, End, FailStatus, Final
  <2> QED
    BY ZenonT(60), <2>1 DEF TypeOK, Records, Final
<1>4. CASE KeptForInspection
  BY <1>4 DEF TypeOK, Records, Final, KeptForInspection, Happens, End, data
<1>5. CASE PostFails
  BY <1>5 DEF TypeOK, Records, Final, PostFails, Happens, End, data
<1>6. CASE ClonesComplete
  BY ZenonT(60), <1>6 DEF TypeOK, Records, Final, ClonesComplete, End, data
<1>7. CASE SnapshotClones
  BY <1>7 DEF TypeOK, Records, Final, SnapshotClones, SaveInPlace, data
<1>8. CASE SnapshotFails
  <2>1. PICK s \in Final, a \in {"none", "untouched", "partial", "restored"}, c \in {"none", "manual", "kept"} :
          rec' = [rec EXCEPT !.status = s, !.stage = "done", !.claim = a, !.clones = c]
    BY <1>8  DEF SnapshotFails, NotSwapped, End, Final
  <2> QED
    BY ZenonT(60), <2>1 DEF TypeOK, Records, Final
<1>9. CASE SafetyFails
  <2>1. PICK s \in Final, a \in {"none", "untouched", "partial", "restored"}, c \in {"none", "manual", "kept"} :
          rec' = [rec EXCEPT !.status = s, !.stage = "done", !.claim = a, !.clones = c]
    BY <1>9  DEF SafetyFails, NotSwapped, End, Final
  <2> QED
    BY ZenonT(60), <2>1 DEF TypeOK, Records, Final
<1>10. CASE PreparePause
  <2>1. [rec EXCEPT !.stage = "pausing", !.wasEnabled = stream.enabled] \in Records
    BY DEF TypeOK, Records, Streams
  <2> QED
    BY <1>10, <2>1 DEF PreparePause, SaveInPlace, Save, TypeOK
<1>11. CASE BeginSwap
  BY <1>11 DEF TypeOK, Records, Final, BeginSwap, SaveInPlace, data
<1>12. CASE Swapped
  <2>1. Now \in Databases
    BY <1>12, NowLeft DEF Swapped, LifeInv
  <2>2. [rec EXCEPT !.swapped = @ \cup {Now}] \in Records
    BY <2>1 DEF TypeOK, Records
  <2> QED
    BY <1>12, <2>2 DEF Swapped, SaveInPlace, TypeOK
<1>13. CASE SwapFails
  BY <1>13 DEF TypeOK, Records, Final, SwapFails, Happens, data
<1>14. CASE SwapDone
  BY <1>14 DEF TypeOK, Records, Final, SwapDone, data
<1>15. CASE ClonesAfterSwap
  BY <1>15 DEF TypeOK, Records, Final, ClonesAfterSwap, DropClones, Dropped, Happens, data
<1>16. CASE StreamResumed
  BY <1>16 DEF TypeOK, Records, Final, StreamResumed, StartBase, data
<1>17. CASE Settle
  <2>1. rec.clones \in {"none", "manual", "kept"}
    BY DEF TypeOK, Records
  <2>2. PICK s \in Final, a \in {"none", "untouched", "partial", "restored"}, c \in {"none", "manual", "kept"} :
          rec' = [rec EXCEPT !.status = s, !.stage = "done", !.claim = a, !.clones = c]
    BY <1>17, <2>1 DEF Settle, NotSwapped, End, Final
  <2> QED
    BY ZenonT(60), <2>2 DEF TypeOK, Records, Final
<1>18. CASE FinishRestore
  BY <1>18 DEF TypeOK, Records, Final, FinishRestore, Save, data
<1>19. CASE FinishUnsaved
  <2>1. rec.clones \in {"none", "manual", "kept"} /\ rec.status \in {"none", "in_progress"} \cup Final
    BY DEF TypeOK, Records
  <2>2. PICK s \in {"none", "in_progress"} \cup Final, c \in {"none", "manual", "kept"} :
          rec' = rec \/ rec' = [rec EXCEPT !.status = s, !.clones = c]
    <3>1. CASE rec' = rec
      BY <3>1 DEF Final
    <3>2. CASE rec' # rec
      <4>1. PICK c \in IF rec.status = "completed" /\ ~rec.inPlace THEN {"none", "manual"} ELSE {rec.clones} :
              rec' = [rec EXCEPT !.status = IF @ = "cancelled" THEN @ ELSE "failed", !.clones = c]
        BY <1>19, <3>2 DEF FinishUnsaved
      <4>2. c \in {"none", "manual", "kept"} /\ (IF rec.status = "cancelled" THEN rec.status ELSE "failed") \in {"none", "in_progress"} \cup Final
        BY <2>1, <4>1 DEF Final
      <4> QED
        BY <4>1, <4>2
    <3> QED
      BY <3>1, <3>2
  <2> QED
    BY <2>2 DEF TypeOK, Records
<1>20. CASE SaveDeferred
  BY <1>20 DEF TypeOK, Records, Final, SaveDeferred, Save, data
<1>21. CASE Exit
  BY <1>21 DEF TypeOK, Records, Final, Exit, Lost, NoRun, NoRec, NoKeys, data
<1>22. CASE ExitAnyway
  BY <1>22 DEF TypeOK, Records, Final, ExitAnyway, Lost, NoRun, NoRec, NoKeys, data
<1>23. CASE Crash
  BY <1>23 DEF TypeOK, Records, Final, Crash, Lost, NoRun, NoRec, NoKeys, data
<1>24. CASE Start
  BY <1>24 DEF TypeOK, Records, Final, Start, data
<1>25. CASE CleanupInterrupted
  <2>1. PICK a \in {"none", "untouched", "partial", "restored"}, c \in {"none", "manual", "kept"} :
          rec' = rec \/ rec' = [rec EXCEPT !.claim = a, !.clones = c]
    BY <1>25  DEF CleanupInterrupted
  <2> QED
    BY <2>1 DEF TypeOK, Records
<1>26. CASE MarkInterrupted
  BY <1>26 DEF TypeOK, Records, Final, MarkInterrupted, Save, data
<1>27. CASE UNCHANGED rec
  BY <1>27 DEF TypeOK
<1>28. CASE EnableInShutdown
  BY <1>28 DEF TypeOK, Records, EnableInShutdown
<1> QED
  BY <1>1, <1>2, <1>3, <1>4, <1>5, <1>6, <1>7, <1>8, <1>9, <1>10, <1>11, <1>12, <1>13, <1>14, <1>15, <1>16, <1>17, <1>18,
     <1>19, <1>20, <1>21, <1>22, <1>23, <1>24, <1>25, <1>26, <1>27, <1>28, RecWriters

\* The actions that change the stored record.
LEMMA StoredWriters ==
  ASSUME Next
  PROVE  \/ (\E inPlace, keep \in BOOLEAN : StartPITR(inPlace, keep)) \/ SnapshotClones \/ PreparePause \/ BeginSwap
         \/ Swapped \/ FinishRestore \/ SaveDeferred \/ MarkInterrupted
         \/ UNCHANGED stored
BY DEF Next, PITRStep, BackupStep, Collector, Base, Recovery, ShutdownStep, ResumingStep, ListStreams,
   EnableInShutdown, EnableAgain, BaseTimesOut, StartRestore, CloneChanges, CheckFails, RestoreBase, BaseRestored,
   PassFails, KeptForInspection, Replayed, PostFails, ClonesComplete, SnapshotFails, SafetyBackup, SafetyFails,
   DisableStream, EndChain, PauseFails, BeginCopy, CopyEnds, DropExtras, SwapFails, SwapDone, ClonesAfterSwap,
   EnableStream, StreamResumed, ResumeTimesOut, Settle, FinishUnsaved, Release, Refused, Mongorestore, ToolDone,
   ToolFails, Checked, PostRestore, SaveRestore, SaveRestoreLater, CancelRestore, CollectorStarts, CollectorStops,
   BaseStarts, BaseEnds, BaseAfterRecovery, Stop, Exit, Deadline, ExitAnyway, Crash, OrphanEnds, Start,
   CleanupInterrupted, ResumeInterrupted, Happens, End, BkEnd, NotSwapped, DropClones, SaveInPlace, Save, Write,
   DropClone, StartBase, Lost, data

\* Every step keeps the type of the stored record.
LEMMA StoredType ==
  ASSUME TypeOK, LifeInv, Next
  PROVE  stored' \in Records
<1>1. ASSUME NEW inPlace \in BOOLEAN, NEW keep \in BOOLEAN, StartPITR(inPlace, keep) PROVE stored' \in Records
  <2>1. [NoRec EXCEPT !.status = "in_progress", !.inPlace = inPlace, !.keep = keep] \in Records
    BY DEF NoRec, Records
  <2> QED
    BY <1>1, <2>1 DEF StartPITR, Save
<1>2. CASE SnapshotClones
  BY <1>2 DEF TypeOK, Records, Final, SnapshotClones, SaveInPlace, data
<1>3. CASE PreparePause
  <2>1. [rec EXCEPT !.stage = "pausing", !.wasEnabled = stream.enabled] \in Records
    BY DEF TypeOK, Records, Streams
  <2> QED
    BY <1>3, <2>1 DEF PreparePause, SaveInPlace, Save, TypeOK
<1>4. CASE BeginSwap
  BY <1>4 DEF TypeOK, Records, Final, BeginSwap, SaveInPlace, data
<1>5. CASE Swapped
  <2>1. Now \in Databases
    BY <1>5, NowLeft DEF Swapped, LifeInv
  <2>2. [rec EXCEPT !.swapped = @ \cup {Now}] \in Records
    BY <2>1 DEF TypeOK, Records
  <2> QED
    BY <1>5, <2>2 DEF Swapped, SaveInPlace, TypeOK
<1>6. CASE FinishRestore
  BY <1>6 DEF TypeOK, Records, Final, FinishRestore, Save, data
<1>7. CASE SaveDeferred
  BY <1>7 DEF TypeOK, Records, Final, SaveDeferred, Save, data
<1>8. CASE MarkInterrupted
  BY <1>8 DEF TypeOK, Records, Final, MarkInterrupted, Save, data
<1>9. CASE UNCHANGED stored
  BY <1>9 DEF TypeOK
<1> QED
  BY <1>1, <1>2, <1>3, <1>4, <1>5, <1>6, <1>7, <1>8, <1>9, StoredWriters

\* The actions that change the goroutine of the point-in-time restore.
LEMMA PWriters ==
  ASSUME Next
  PROVE  \/ (\E inPlace, keep \in BOOLEAN : StartPITR(inPlace, keep)) \/ CheckFails \/ RestoreBase \/ BaseRestored
         \/ PassFails \/ KeptForInspection \/ Replayed \/ PostFails \/ ClonesComplete \/ SnapshotClones \/ SnapshotFails
         \/ SafetyFails \/ PreparePause \/ DisableStream \/ EndChain \/ PauseFails \/ BeginSwap \/ BeginCopy \/ CopyEnds
         \/ DropExtras \/ Swapped \/ SwapFails \/ SwapDone \/ ClonesAfterSwap \/ EnableStream \/ StreamResumed
         \/ ResumeTimesOut \/ Settle \/ FinishRestore \/ FinishUnsaved \/ Release \/ SaveDeferred \/ CancelRestore \/ Stop
         \/ Exit \/ ExitAnyway \/ Crash
         \/ EnableInShutdown
         \/ UNCHANGED p
BY DEF Next, PITRStep, BackupStep, Collector, Base, Recovery, ShutdownStep, ResumingStep, ListStreams, EnableAgain,
   BaseTimesOut, StartRestore, CloneChanges, SafetyBackup, Refused, Mongorestore, ToolDone, ToolFails, Checked,
   PostRestore, SaveRestore, SaveRestoreLater, CollectorStarts, CollectorStops, BaseStarts, BaseEnds,
   BaseAfterRecovery, Deadline, OrphanEnds, Start, CleanupInterrupted, ResumeInterrupted, MarkInterrupted, Happens,
   End, BkEnd, NotSwapped, DropClones, SaveInPlace, Save, Write, DropClone, StartBase, Lost, data

\* Every step keeps the type of the goroutine of the point-in-time restore.
LEMMA PType ==
  ASSUME TypeOK, LifeInv, Next
  PROVE  p' \in Goroutines
<1>1. ASSUME NEW inPlace \in BOOLEAN, NEW keep \in BOOLEAN, StartPITR(inPlace, keep) PROVE p' \in Goroutines
  BY <1>1 DEF TypeOK, Goroutines, Places, StartPITR, Accepting, Alive, Save, NoRec, data
<1>2. CASE CheckFails
  BY <1>2 DEF TypeOK, Goroutines, Places, CheckFails, CtxDone, Happens, End, FailStatus, data
<1>3. CASE RestoreBase
  BY <1>3 DEF TypeOK, Goroutines, Places, RestoreBase, data
<1>4. CASE BaseRestored
  BY <1>4 DEF TypeOK, Goroutines, Places, BaseRestored, data
<1>5. CASE PassFails
  BY <1>5 DEF TypeOK, Goroutines, Places, PassFails, CtxDone, DropClones, Dropped, Happens, End, FailStatus, data
<1>6. CASE KeptForInspection
  BY <1>6 DEF TypeOK, Goroutines, Places, KeptForInspection, Happens, End, data
<1>7. CASE Replayed
  BY <1>7 DEF TypeOK, Goroutines, Places, Replayed, data
<1>8. CASE PostFails
  BY <1>8 DEF TypeOK, Goroutines, Places, PostFails, Happens, End, data
<1>9. CASE ClonesComplete
  BY <1>9 DEF TypeOK, Goroutines, Places, ClonesComplete, End, data
<1>10. CASE SnapshotClones
  BY <1>10 DEF TypeOK, Goroutines, Places, SnapshotClones, SaveInPlace, data
<1>11. CASE SnapshotFails
  BY <1>11 DEF TypeOK, Goroutines, Places, SnapshotFails, NotSwapped, DropClones, Dropped, Happens, End, data
<1>12. CASE SafetyFails
  BY <1>12 DEF TypeOK, Goroutines, Places, SafetyFails, NotSwapped, DropClones, Dropped, Happens, End, data
<1>13. CASE PreparePause
  BY <1>13 DEF TypeOK, Goroutines, Places, PreparePause, SaveInPlace, data
<1>14. CASE DisableStream
  BY <1>14 DEF TypeOK, Goroutines, Places, DisableStream, data
<1>15. CASE EndChain
  BY <1>15 DEF TypeOK, Goroutines, Places, EndChain, data
<1>16. CASE PauseFails
  BY <1>16 DEF TypeOK, Goroutines, Places, PauseFails, Happens, data
<1>17. CASE BeginSwap
  BY <1>17 DEF TypeOK, Goroutines, Places, BeginSwap, SaveInPlace, data
<1>18. CASE BeginCopy
  BY <1>18 DEF TypeOK, Goroutines, Places, BeginCopy, data
<1>19. CASE CopyEnds
  BY <1>19 DEF TypeOK, Goroutines, Places, CopyEnds, data
<1>20. CASE DropExtras
  BY <1>20 DEF TypeOK, Goroutines, Places, DropExtras, data
<1>21. CASE Swapped
  BY <1>21 DEF TypeOK, Goroutines, Places, Swapped, SaveInPlace, data
<1>22. CASE SwapFails
  BY <1>22 DEF TypeOK, Goroutines, Places, SwapFails, Happens, data
<1>23. CASE SwapDone
  BY <1>23 DEF TypeOK, Goroutines, Places, SwapDone, data
<1>24. CASE ClonesAfterSwap
  BY <1>24 DEF TypeOK, Goroutines, Places, ClonesAfterSwap, DropClones, Dropped, Happens, data
<1>25. CASE EnableStream
  BY <1>25 DEF TypeOK, Goroutines, Places, EnableStream, Happens, data
<1>26. CASE StreamResumed
  BY <1>26 DEF TypeOK, Goroutines, Places, StreamResumed, StartBase, data
<1>27. CASE ResumeTimesOut
  BY <1>27 DEF TypeOK, Goroutines, Places, ResumeTimesOut, Happens, data
<1>28. CASE Settle
  BY <1>28 DEF TypeOK, Goroutines, Places, Settle, NotSwapped, DropClones, Dropped, Happens, End, data
<1>29. CASE FinishRestore
  BY <1>29 DEF TypeOK, Goroutines, Places, FinishRestore, Save, data
<1>30. CASE FinishUnsaved
  BY <1>30 DEF TypeOK, Goroutines, Places, FinishUnsaved, Dropped, Happens, data
<1>31. CASE Release
  BY <1>31 DEF TypeOK, Goroutines, Places, Release, data
<1>32. CASE SaveDeferred
  BY <1>32 DEF TypeOK, Goroutines, Places, SaveDeferred, Save, data
<1>33. CASE CancelRestore
  BY <1>33 DEF TypeOK, Goroutines, Places, CancelRestore, Happens, data
<1>34. CASE Stop
  BY <1>34 DEF TypeOK, Goroutines, Places, Stop, data
<1>35. CASE Exit
  BY <1>35 DEF TypeOK, Goroutines, Places, Exit, Lost, NoRun, NoRec, NoKeys, data
<1>36. CASE ExitAnyway
  BY <1>36 DEF TypeOK, Goroutines, Places, ExitAnyway, Lost, NoRun, NoRec, NoKeys, data
<1>37. CASE Crash
  BY <1>37 DEF TypeOK, Goroutines, Places, Crash, Lost, NoRun, NoRec, NoKeys, data
<1>38. CASE UNCHANGED p
  BY <1>38 DEF TypeOK
<1>39. CASE EnableInShutdown
  BY <1>39 DEF TypeOK, Goroutines, Places, EnableInShutdown
<1> QED
  BY <1>1, <1>2, <1>3, <1>4, <1>5, <1>6, <1>7, <1>8, <1>9, <1>10, <1>11, <1>12, <1>13, <1>14, <1>15, <1>16, <1>17, <1>18,
     <1>19, <1>20, <1>21, <1>22, <1>23, <1>24, <1>25, <1>26, <1>27, <1>28, <1>29, <1>30, <1>31, <1>32, <1>33, <1>34, <1>35,
     <1>36, <1>37, <1>38, <1>39, PWriters

\* The actions that change the restore of a backup.
LEMMA BkWriters ==
  ASSUME Next
  PROVE  \/ (\E d \in Databases, inPlace \in BOOLEAN : StartRestore(d, inPlace)) \/ Refused \/ Mongorestore \/ ToolDone
         \/ ToolFails \/ Checked \/ PostRestore \/ SaveRestore \/ SaveRestoreLater \/ CancelRestore \/ Stop \/ Exit
         \/ ExitAnyway \/ Crash \/ MarkInterrupted
         \/ UNCHANGED bk
BY DEF Next, PITRStep, BackupStep, Collector, Base, Recovery, ShutdownStep, ResumingStep, ListStreams,
   EnableInShutdown, EnableAgain, BaseTimesOut, StartPITR, CloneChanges, CheckFails, RestoreBase, BaseRestored,
   PassFails, KeptForInspection, Replayed, PostFails, ClonesComplete, SnapshotClones, SnapshotFails, SafetyBackup,
   SafetyFails, PreparePause, DisableStream, EndChain, PauseFails, BeginSwap, BeginCopy, CopyEnds, DropExtras,
   Swapped, SwapFails, SwapDone, ClonesAfterSwap, EnableStream, StreamResumed, ResumeTimesOut, Settle, FinishRestore,
   FinishUnsaved, Release, SaveDeferred, CollectorStarts, CollectorStops, BaseStarts, BaseEnds, BaseAfterRecovery,
   Deadline, OrphanEnds, Start, CleanupInterrupted, ResumeInterrupted, Happens, End, BkEnd, NotSwapped, DropClones,
   SaveInPlace, Save, Write, DropClone, StartBase, Lost, data

\* Every step keeps the type of the restore of a backup.
LEMMA BkType ==
  ASSUME TypeOK, LifeInv, Next
  PROVE  bk' \in BackupRestores
<1>1. ASSUME NEW d \in Databases, NEW inPlace \in BOOLEAN, StartRestore(d, inPlace) PROVE bk' \in BackupRestores
  BY <1>1 DEF TypeOK, BackupRestores, Final, Contents, StartRestore, Accepting, Alive, NoBackup, data
<1>2. CASE Refused
  BY ZenonT(60), <1>2 DEF TypeOK, BackupRestores, Final, Contents, Refused, Happens, BkEnd, FailStatus, data
<1>3. CASE Mongorestore
  BY <1>3 DEF TypeOK, BackupRestores, Final, Contents, Mongorestore, Write, data
<1>4. CASE ToolDone
  <2>1. PICK c \in Contents : bk' = [bk EXCEPT !.pc = "check", !.finishing = TRUE]
                               \/ bk' = [[bk EXCEPT !.pc = "check", !.finishing = TRUE] EXCEPT !.clone = c]
    BY <1>4  DEF ToolDone, Write, Contents
  <2> QED
    BY ZenonT(60), <2>1 DEF TypeOK, BackupRestores
<1>5. CASE ToolFails
  <2>1. PICK o \in {"none"} \cup Final, c \in Contents,
             n \in {"none", "untouched", "dropped", "manual", "partial", "kept", "uncounted", "complete", "interrupted"} :
          BkEnd(o, n, c)
    <3>1. bk.clone \in Contents /\ "none" \in Contents
      BY DEF TypeOK, BackupRestores, Contents
    <3> QED
      BY <1>5, <3>1 DEF ToolFails, DropClone, FailStatus, Final
  <2> QED
    BY <2>1 DEF TypeOK, BackupRestores, BkEnd
<1>6. CASE Checked
  <2>1. PICK o \in {"none"} \cup Final, c \in Contents,
             n \in {"none", "untouched", "dropped", "manual", "partial", "kept", "uncounted", "complete", "interrupted"} :
          BkEnd(o, n, c) \/ bk' = [bk EXCEPT !.pc = "post"] \/ bk' = [bk EXCEPT !.pc = "post", !.note = "uncounted"]
    <3>1. bk.clone \in Contents /\ "none" \in Contents
      BY DEF TypeOK, BackupRestores, Contents
    <3> QED
      BY <1>6, <3>1 DEF Checked, DropClone, FailStatus, Final
  <2> QED
    BY ZenonT(60), <2>1 DEF TypeOK, BackupRestores, BkEnd
<1>7. CASE PostRestore
  <2>1. PICK o \in {"none"} \cup Final, c \in Contents,
             n \in {"none", "untouched", "dropped", "manual", "partial", "kept", "uncounted", "complete", "interrupted"} :
          BkEnd(o, n, c)
    <3>1. bk.clone \in Contents /\ "none" \in Contents
      BY DEF TypeOK, BackupRestores, Contents
    <3> QED
      BY <1>7, <3>1 DEF PostRestore, Final
  <2> QED
    BY <2>1 DEF TypeOK, BackupRestores, BkEnd
<1>8. CASE SaveRestore
  <2> DEFINE over == [bk EXCEPT !.pc = "over", !.outcome = IF @ = "cancelled" THEN @ ELSE "failed"]
  <2>1. over \in BackupRestores
    BY ZenonT(60) DEF TypeOK, BackupRestores, Final
  <2>2. [bk EXCEPT !.pc = "over", !.status = bk.outcome] \in BackupRestores /\ [bk EXCEPT !.pc = "over"] \in BackupRestores
    BY DEF TypeOK, BackupRestores
  <2>3. [over EXCEPT !.clone = "none", !.note = "dropped"] \in BackupRestores /\ [over EXCEPT !.note = "manual"] \in BackupRestores
    <3> HIDE DEF over
    <3> QED
      BY ZenonT(60), <2>1 DEF BackupRestores, Contents
  <2> QED
    BY <1>8, <2>1, <2>2, <2>3 DEF SaveRestore
<1>9. CASE SaveRestoreLater
  BY <1>9 DEF TypeOK, BackupRestores, Final, Contents, SaveRestoreLater, data
<1>10. CASE CancelRestore
  BY <1>10 DEF TypeOK, BackupRestores, Final, Contents, CancelRestore, Happens, data
<1>11. CASE Stop
  BY <1>11 DEF TypeOK, BackupRestores, Final, Contents, Stop, data
<1>12. CASE Exit
  BY ZenonT(60), <1>12 DEF TypeOK, BackupRestores, Final, Contents, Exit, Lost, NoRun, NoRec, NoKeys, data
<1>13. CASE ExitAnyway
  BY ZenonT(60), <1>13 DEF TypeOK, BackupRestores, Final, Contents, ExitAnyway, Lost, NoRun, NoRec, NoKeys, data
<1>14. CASE Crash
  BY ZenonT(60), <1>14 DEF TypeOK, BackupRestores, Final, Contents, Crash, Lost, NoRun, NoRec, NoKeys, data
<1>15. CASE MarkInterrupted
  BY <1>15 DEF TypeOK, BackupRestores, Final, Contents, MarkInterrupted, Save, data
<1>16. CASE UNCHANGED bk
  BY <1>16 DEF TypeOK
<1> QED
  BY <1>1, <1>2, <1>3, <1>4, <1>5, <1>6, <1>7, <1>8, <1>9, <1>10, <1>11, <1>12, <1>13, <1>14, <1>15, <1>16, BkWriters

\* The actions that change the stream.
LEMMA StreamWriters ==
  ASSUME Next
  PROVE  \/ DisableStream \/ EndChain \/ EnableStream \/ StreamResumed \/ FinishUnsaved \/ CollectorStarts
         \/ CollectorStops \/ BaseStarts \/ BaseEnds \/ BaseAfterRecovery \/ Stop \/ Exit \/ ExitAnyway \/ Crash
         \/ ResumeInterrupted
         \/ ListStreams \/ EnableInShutdown \/ EnableAgain \/ BaseTimesOut
         \/ UNCHANGED stream
BY DEF Next, PITRStep, BackupStep, Collector, Base, Recovery, ShutdownStep, ResumingStep, StartPITR, StartRestore,
   CloneChanges, CheckFails, RestoreBase, BaseRestored, PassFails, KeptForInspection, Replayed, PostFails,
   ClonesComplete, SnapshotClones, SnapshotFails, SafetyBackup, SafetyFails, PreparePause, PauseFails, BeginSwap,
   BeginCopy, CopyEnds, DropExtras, Swapped, SwapFails, SwapDone, ClonesAfterSwap, ResumeTimesOut, Settle,
   FinishRestore, Release, SaveDeferred, Refused, Mongorestore, ToolDone, ToolFails, Checked, PostRestore,
   SaveRestore, SaveRestoreLater, CancelRestore, Deadline, OrphanEnds, Start, CleanupInterrupted, MarkInterrupted,
   Happens, End, BkEnd, NotSwapped, DropClones, SaveInPlace, Save, Write, DropClone, StartBase, Lost, data

\* Every step keeps the type of the stream.
LEMMA StreamType ==
  ASSUME TypeOK, LifeInv, Next
  PROVE  stream' \in Streams
<1>1. CASE DisableStream
  BY <1>1 DEF TypeOK, Streams, DisableStream, data
<1>2. CASE EndChain
  BY <1>2 DEF TypeOK, Streams, EndChain, data
<1>3. CASE EnableStream
  BY <1>3 DEF TypeOK, Streams, EnableStream, Happens, data
<1>4. CASE StreamResumed
  BY <1>4 DEF TypeOK, Streams, StreamResumed, StartBase, data
<1>5. CASE FinishUnsaved
  BY <1>5, LaterEnabled DEF TypeOK, FinishUnsaved
<1>6. CASE CollectorStarts
  BY <1>6 DEF TypeOK, Streams, CollectorStarts, data
<1>7. CASE CollectorStops
  BY <1>7 DEF TypeOK, Streams, CollectorStops, data
<1>8. CASE BaseStarts
  BY <1>8 DEF TypeOK, Streams, BaseStarts, StartBase, data
<1>9. CASE BaseEnds
  BY <1>9 DEF TypeOK, Streams, BaseEnds, data
<1>10. CASE BaseAfterRecovery
  BY <1>10 DEF TypeOK, Streams, BaseAfterRecovery, data
<1>11. CASE Stop
  BY <1>11 DEF TypeOK, Streams, Stop, data
<1>12. CASE Exit
  BY <1>12 DEF TypeOK, Streams, Exit, Lost, NoRun, NoRec, NoKeys, data
<1>13. CASE ExitAnyway
  BY <1>13 DEF TypeOK, Streams, ExitAnyway, Lost, NoRun, NoRec, NoKeys, data
<1>14. CASE Crash
  BY <1>14 DEF TypeOK, Streams, Crash, Lost, NoRun, NoRec, NoKeys, data
<1>15. CASE ResumeInterrupted
  <2>1. stream' = [stream EXCEPT !.enabled = TRUE, !.due = TRUE] \/ EnableLater \/ stream' = stream
    BY <1>15 DEF ResumeInterrupted
  <2> QED
    BY <2>1, LaterEnabled DEF TypeOK, Streams
<1>16. CASE UNCHANGED stream
  BY <1>16 DEF TypeOK
<1>17. CASE EnableInShutdown
  BY <1>17 DEF TypeOK, Streams, EnableInShutdown
<1>18. CASE ListStreams
  BY <1>18 DEF TypeOK, Streams, ListStreams
<1>19. CASE EnableAgain
  BY <1>19 DEF TypeOK, Streams, EnableAgain
<1>20. CASE BaseTimesOut
  BY <1>20 DEF TypeOK, Streams, BaseTimesOut
<1> QED
  BY <1>1, <1>2, <1>3, <1>4, <1>5, <1>6, <1>7, <1>8, <1>9, <1>10, <1>11, <1>12, <1>13, <1>14, <1>15, <1>16, <1>17,
     <1>18, <1>19, <1>20, StreamWriters

\* The actions that change the Manager.
LEMMA MgrWriters ==
  ASSUME Next
  PROVE  \/ (\E inPlace, keep \in BOOLEAN : StartPITR(inPlace, keep))
         \/ (\E d \in Databases, inPlace \in BOOLEAN : StartRestore(d, inPlace)) \/ BeginSwap \/ SwapFails \/ SwapDone
         \/ EnableStream \/ StreamResumed \/ Release \/ SaveRestore \/ BaseStarts \/ BaseEnds \/ BaseAfterRecovery \/ Stop
         \/ Exit \/ ExitAnyway \/ Crash
         \/ EnableInShutdown
         \/ UNCHANGED mgr
BY DEF Next, PITRStep, BackupStep, Collector, Base, Recovery, ShutdownStep, ResumingStep, ListStreams, EnableAgain,
   BaseTimesOut, CloneChanges, CheckFails, RestoreBase, BaseRestored, PassFails, KeptForInspection, Replayed,
   PostFails, ClonesComplete, SnapshotClones, SnapshotFails, SafetyBackup, SafetyFails, PreparePause, DisableStream,
   EndChain, PauseFails, BeginCopy, CopyEnds, DropExtras, Swapped, ClonesAfterSwap, ResumeTimesOut, Settle,
   FinishRestore, FinishUnsaved, SaveDeferred, Refused, Mongorestore, ToolDone, ToolFails, Checked, PostRestore,
   SaveRestoreLater, CancelRestore, CollectorStarts, CollectorStops, Deadline, OrphanEnds, Start, CleanupInterrupted,
   ResumeInterrupted, MarkInterrupted, Happens, End, BkEnd, NotSwapped, DropClones, SaveInPlace, Save, Write,
   DropClone, StartBase, Lost, data

\* Every step keeps the type of the Manager.
LEMMA MgrType ==
  ASSUME TypeOK, LifeInv, Next
  PROVE  mgr' \in Managers
<1>1. ASSUME NEW inPlace \in BOOLEAN, NEW keep \in BOOLEAN, StartPITR(inPlace, keep) PROVE mgr' \in Managers
  BY <1>1 DEF TypeOK, Managers, StartPITR, Accepting, Alive, Save, NoRec, data
<1>2. ASSUME NEW d \in Databases, NEW inPlace \in BOOLEAN, StartRestore(d, inPlace) PROVE mgr' \in Managers
  <2>1. [mgr EXCEPT !.keys = IF inPlace THEN @ \cup {<<"restore", d>>} ELSE @] \in Managers
    BY KeysIn DEF TypeOK, Managers
  <2> QED
    BY <1>2, <2>1 DEF StartRestore, StartBase, TypeOK
<1>3. CASE BeginSwap
  <2>1. mgr.critical = 0
    BY <1>3  DEF BeginSwap, LifeInv, Swapping
  <2> QED
    BY <1>3, <2>1 DEF TypeOK, Managers, BeginSwap
<1>4. CASE SwapFails
  <2>1. mgr.critical = 1
    BY <1>4  DEF SwapFails, LifeInv, Swapping
  <2> QED
    BY <1>4, <2>1 DEF TypeOK, Managers, SwapFails
<1>5. CASE SwapDone
  <2>1. mgr.critical = 1
    BY <1>5  DEF SwapDone, LifeInv, Swapping
  <2> QED
    BY <1>5, <2>1 DEF TypeOK, Managers, SwapDone
<1>6. CASE EnableStream
  BY <1>6 DEF TypeOK, Managers, EnableStream, Happens, data
<1>7. CASE StreamResumed
  <2>1. [mgr EXCEPT !.keys = @ \cup {<<"base", 0>>}] \in Managers
    BY KeysIn DEF TypeOK, Managers
  <2> QED
    BY <1>7, <2>1 DEF StreamResumed, StartBase, TypeOK
<1>8. CASE Release
  BY <1>8 DEF TypeOK, Managers, Release, data
<1>9. CASE SaveRestore
  BY <1>9 DEF TypeOK, Managers, SaveRestore, Happens, data
<1>10. CASE BaseStarts
  <2>1. [mgr EXCEPT !.keys = @ \cup {<<"base", 0>>}] \in Managers
    BY KeysIn DEF TypeOK, Managers
  <2> QED
    BY <1>10, <2>1 DEF BaseStarts, StartBase, TypeOK
<1>11. CASE BaseEnds
  BY <1>11 DEF TypeOK, Managers, BaseEnds, data
<1>12. CASE BaseAfterRecovery
  <2>1. [mgr EXCEPT !.keys = @ \cup {<<"base", 0>>}] \in Managers
    BY KeysIn DEF TypeOK, Managers
  <2> QED
    BY <1>12, <2>1 DEF BaseAfterRecovery, StartBase, TypeOK
<1>13. CASE Stop
  BY <1>13 DEF TypeOK, Managers, Stop, data
<1>14. CASE Exit
  BY <1>14 DEF TypeOK, Managers, Exit, Lost, NoRun, NoRec, NoKeys, data
<1>15. CASE ExitAnyway
  BY <1>15 DEF TypeOK, Managers, ExitAnyway, Lost, NoRun, NoRec, NoKeys, data
<1>16. CASE Crash
  BY <1>16 DEF TypeOK, Managers, Crash, Lost, NoRun, NoRec, NoKeys, data
<1>17. CASE UNCHANGED mgr
  BY <1>17 DEF TypeOK
<1>18. CASE EnableInShutdown
  BY <1>18 DEF TypeOK, Managers, EnableInShutdown
<1> QED
  BY <1>1, <1>2, <1>3, <1>4, <1>5, <1>6, <1>7, <1>8, <1>9, <1>10, <1>11, <1>12, <1>13, <1>14, <1>15, <1>16, <1>17,
     <1>18, MgrWriters

\* The actions that change the process.
LEMMA LifeWriters ==
  ASSUME Next
  PROVE  \/ (\E d \in Databases : CloneChanges(d)) \/ CheckFails \/ PassFails \/ KeptForInspection \/ PostFails
         \/ SnapshotFails \/ SafetyFails \/ PauseFails \/ SwapFails \/ ClonesAfterSwap \/ EnableStream \/ ResumeTimesOut
         \/ Settle \/ FinishUnsaved \/ Refused \/ ToolDone \/ ToolFails \/ Checked \/ PostRestore \/ SaveRestore
         \/ CancelRestore \/ Stop \/ Exit \/ Deadline \/ ExitAnyway \/ Crash \/ Start \/ CleanupInterrupted
         \/ ResumeInterrupted \/ MarkInterrupted
         \/ EnableInShutdown \/ EnableAgain \/ BaseTimesOut
         \/ UNCHANGED life
BY DEF Next, PITRStep, BackupStep, Collector, Base, Recovery, ShutdownStep, ResumingStep, ListStreams, StartPITR,
   StartRestore, RestoreBase, BaseRestored, Replayed, ClonesComplete, SnapshotClones, SafetyBackup, PreparePause,
   DisableStream, EndChain, BeginSwap, BeginCopy, CopyEnds, DropExtras, Swapped, SwapDone, StreamResumed,
   FinishRestore, Release, SaveDeferred, Mongorestore, SaveRestoreLater, CollectorStarts, CollectorStops, BaseStarts,
   BaseEnds, BaseAfterRecovery, OrphanEnds, Happens, End, BkEnd, NotSwapped, DropClones, SaveInPlace, Save, Write,
   DropClone, StartBase, Lost, data

\* Every step keeps the type of the process.
LEMMA LifeType ==
  ASSUME TypeOK, LifeInv, Next
  PROVE  life' \in Lives
<1>1. ASSUME NEW d \in Databases, CloneChanges(d) PROVE life' \in Lives
  BY <1>1, InPlaceConstants DEF TypeOK, Lives, States, CloneChanges, Happens, data
<1>2. CASE CheckFails
  BY <1>2, InPlaceConstants DEF TypeOK, Lives, States, CheckFails, CtxDone, Happens, End, FailStatus, data
<1>3. CASE PassFails
  BY <1>3, InPlaceConstants DEF TypeOK, Lives, States, PassFails, CtxDone, DropClones, Dropped, Happens, End, FailStatus, data
<1>4. CASE KeptForInspection
  BY <1>4, InPlaceConstants DEF TypeOK, Lives, States, KeptForInspection, Happens, End, data
<1>5. CASE PostFails
  BY <1>5, InPlaceConstants DEF TypeOK, Lives, States, PostFails, Happens, End, data
<1>6. CASE SnapshotFails
  BY <1>6, InPlaceConstants DEF TypeOK, Lives, States, SnapshotFails, NotSwapped, DropClones, Dropped, Happens, End, data
<1>7. CASE SafetyFails
  BY <1>7, InPlaceConstants DEF TypeOK, Lives, States, SafetyFails, NotSwapped, DropClones, Dropped, Happens, End, data
<1>8. CASE PauseFails
  BY <1>8, InPlaceConstants DEF TypeOK, Lives, States, PauseFails, Happens, data
<1>9. CASE SwapFails
  BY <1>9, InPlaceConstants DEF TypeOK, Lives, States, SwapFails, Happens, data
<1>10. CASE ClonesAfterSwap
  BY <1>10, InPlaceConstants DEF TypeOK, Lives, States, ClonesAfterSwap, DropClones, Dropped, Happens, data
<1>11. CASE EnableStream
  BY <1>11, InPlaceConstants DEF TypeOK, Lives, States, EnableStream, Happens, data
<1>12. CASE ResumeTimesOut
  BY <1>12, InPlaceConstants DEF TypeOK, Lives, States, ResumeTimesOut, Happens, data
<1>13. CASE Settle
  BY <1>13, InPlaceConstants DEF TypeOK, Lives, States, Settle, NotSwapped, DropClones, Dropped, Happens, End, data
<1>14. CASE FinishUnsaved
  <2>1. Happens
    BY <1>14  DEF FinishUnsaved
  <2> QED
    BY <2>1, InPlaceConstants DEF TypeOK, Lives, States, Happens
<1>15. CASE Refused
  BY <1>15, InPlaceConstants DEF TypeOK, Lives, States, Refused, Happens, BkEnd, FailStatus, data
<1>16. CASE ToolDone
  BY <1>16, InPlaceConstants DEF TypeOK, Lives, States, ToolDone, Write, Happens, data
<1>17. CASE ToolFails
  BY <1>17, InPlaceConstants DEF TypeOK, Lives, States, ToolFails, DropClone, BkEnd, Happens, FailStatus, data
<1>18. CASE Checked
  BY <1>18, InPlaceConstants DEF TypeOK, Lives, States, Checked, DropClone, BkEnd, Happens, FailStatus, data
<1>19. CASE PostRestore
  BY <1>19, InPlaceConstants DEF TypeOK, Lives, States, PostRestore, BkEnd, Happens, data
<1>20. CASE SaveRestore
  BY <1>20, InPlaceConstants DEF TypeOK, Lives, States, SaveRestore, Happens, data
<1>21. CASE CancelRestore
  BY <1>21, InPlaceConstants DEF TypeOK, Lives, States, CancelRestore, Happens, data
<1>22. CASE Stop
  BY <1>22, InPlaceConstants DEF TypeOK, Lives, States, Stop, data
<1>23. CASE Exit
  BY <1>23, InPlaceConstants DEF TypeOK, Lives, States, Exit, Lost, NoRun, NoRec, NoKeys, data
<1>24. CASE Deadline
  BY <1>24, InPlaceConstants DEF TypeOK, Lives, States, Deadline, data
<1>25. CASE ExitAnyway
  BY <1>25, InPlaceConstants DEF TypeOK, Lives, States, ExitAnyway, Lost, NoRun, NoRec, NoKeys, data
<1>26. CASE Crash
  BY <1>26, InPlaceConstants DEF TypeOK, Lives, States, Crash, Lost, NoRun, NoRec, NoKeys, data
<1>27. CASE Start
  BY <1>27, InPlaceConstants DEF TypeOK, Lives, States, Start, data
<1>28. CASE CleanupInterrupted
  BY <1>28, InPlaceConstants DEF TypeOK, Lives, States, CleanupInterrupted, data
<1>29. CASE ResumeInterrupted
  BY <1>29, InPlaceConstants DEF TypeOK, Lives, States, ResumeInterrupted, data
<1>30. CASE MarkInterrupted
  BY <1>30, InPlaceConstants DEF TypeOK, Lives, States, MarkInterrupted, Save, data
<1>31. CASE UNCHANGED life
  BY <1>31 DEF TypeOK
<1>32. CASE EnableInShutdown \/ EnableAgain \/ BaseTimesOut
  <2>1. life' = life \/ Happens
    BY <1>32 DEF EnableInShutdown, EnableAgain, BaseTimesOut
  <2> QED
    BY <2>1, InPlaceConstants DEF TypeOK, Lives, States, Happens
<1> QED
  BY <1>1, <1>2, <1>3, <1>4, <1>5, <1>6, <1>7, <1>8, <1>9, <1>10, <1>11, <1>12, <1>13, <1>14, <1>15, <1>16, <1>17, <1>18,
     <1>19, <1>20, <1>21, <1>22, <1>23, <1>24, <1>25, <1>26, <1>27, <1>28, <1>29, <1>30, <1>31, <1>32, LifeWriters

\* The actions that change the history.
LEMMA PastWriters ==
  ASSUME Next
  PROVE  \/ BeginCopy \/ DropExtras \/ EnableStream \/ ResumeTimesOut \/ Crash \/ OrphanEnds \/ ResumeInterrupted
         \/ EnableInShutdown \/ EnableAgain \/ BaseTimesOut \/ FinishUnsaved \/ Stop
         \/ UNCHANGED past
BY DEF Next, PITRStep, BackupStep, Collector, Base, Recovery, ShutdownStep, ResumingStep, ListStreams, StartPITR,
   StartRestore, CloneChanges, CheckFails, RestoreBase, BaseRestored, PassFails, KeptForInspection, Replayed,
   PostFails, ClonesComplete, SnapshotClones, SnapshotFails, SafetyBackup, SafetyFails, PreparePause, DisableStream,
   EndChain, PauseFails, BeginSwap, CopyEnds, Swapped, SwapFails, SwapDone, ClonesAfterSwap, StreamResumed, Settle,
   FinishRestore, Release, SaveDeferred, Refused, Mongorestore, ToolDone, ToolFails, Checked, PostRestore,
   SaveRestore, SaveRestoreLater, CancelRestore, CollectorStarts, CollectorStops, BaseStarts, BaseEnds,
   BaseAfterRecovery, Exit, Deadline, ExitAnyway, Start, CleanupInterrupted, MarkInterrupted, Happens, End, BkEnd,
   NotSwapped, DropClones, SaveInPlace, Save, Write, DropClone, StartBase, Lost, data

\* Every step keeps the type of the history.
LEMMA PastType ==
  ASSUME TypeOK, LifeInv, Next
  PROVE  past' \in Pasts
<1>1. CASE BeginCopy
  BY <1>1 DEF TypeOK, Pasts, Contents, BeginCopy, data
<1>2. CASE DropExtras
  <2>1. Now \in Databases
    BY <1>2, NowLeft DEF DropExtras, LifeInv
  <2> QED
    BY <1>2, <2>1 DEF TypeOK, Pasts, DropExtras
<1>3. CASE EnableStream
  BY <1>3 DEF TypeOK, Pasts, Contents, EnableStream, Happens, data
<1>4. CASE ResumeTimesOut
  BY <1>4 DEF TypeOK, Pasts, Contents, ResumeTimesOut, Happens, data
<1>5. CASE Crash
  <2>1. p.pc = "copy" => Now \in Databases
    BY NowLeft DEF LifeInv
  <2> QED
    <3>1. PICK o \in {past.orphan} \cup (IF p.pc = "copy" THEN {Now} ELSE {}), m \in BOOLEAN :
            past' = [past EXCEPT !.orphan = o, !.missed = m]
      BY <1>5 DEF TypeOK, Pasts, Streams, Crash
    <3>2. o \in Databases \cup {0}
      BY <2>1, <3>1 DEF TypeOK, Pasts
    <3> QED
      BY <3>1, <3>2 DEF TypeOK, Pasts
<1>6. CASE OrphanEnds
  BY <1>6 DEF TypeOK, Pasts, Contents, OrphanEnds, data
<1>7. CASE ResumeInterrupted
  BY <1>7, LaterEnabled DEF TypeOK, ResumeInterrupted
<1>8. CASE UNCHANGED past
  BY <1>8 DEF TypeOK
<1>9. CASE EnableInShutdown \/ EnableAgain \/ BaseTimesOut \/ Stop
  BY <1>9 DEF TypeOK, Pasts, Streams, EnableInShutdown, EnableAgain, BaseTimesOut, Stop
<1>10. CASE FinishUnsaved
  BY <1>10, LaterEnabled DEF TypeOK, FinishUnsaved
<1> QED
  BY <1>1, <1>2, <1>3, <1>4, <1>5, <1>6, <1>7, <1>8, <1>9, <1>10, PastWriters

\* The steps of the point-in-time restore that leave stream, keys and process as they are.
Edges ==
    {<<"queued", "final">>, <<"queued", "base">>, <<"base", "replay">>, <<"base", "final">>, <<"replay", "final">>,
     <<"replay", "post">>, <<"post", "final">>, <<"post", "snapshot">>, <<"snapshot", "safety">>, <<"snapshot", "final">>,
     <<"safety", "final">>, <<"safety", "pausing">>, <<"swap", "copy">>, <<"copy", "copied">>, <<"copied", "swapped">>,
     <<"swapped", "swap">>, <<"clones", "resume">>, <<"wait", "settle">>, <<"settle", "final">>, <<"final", "release">>}

\* A step along such an edge.
Walk ==
    /\ <<p.pc, p'.pc>> \in Edges /\ p'.after = p.after /\ (p'.deferred => p.deferred \/ p'.pc = "release")
    /\ p'.pc = "snapshot" => rec.inPlace
    /\ p'.pc \in {"copy", "copied", "swapped"} => UNCHANGED rec /\ Left # {}
    /\ rec'.inPlace = rec.inPlace /\ life'.state = life.state /\ UNCHANGED <<bk, mgr>>
    /\ stream'.collecting = stream.collecting /\ stream'.late = stream.late /\ stream'.base = stream.base
    /\ stream'.enabled = stream.enabled \/ p'.pc = "release"

\* A step of the restore of a backup that goes on.
BkWalk ==
    /\ ~Over(bk) /\ ~Over(bk)' /\ bk'.d = bk.d /\ bk'.inPlace = bk.inPlace /\ bk'.status = bk.status
    /\ UNCHANGED <<p, rec, mgr, stream>> /\ life'.state = life.state

\* A step that leaves the places of both restores as they are.
Quiet ==
    /\ p'.pc = p.pc /\ p'.after = p.after /\ (p'.deferred => p.deferred) /\ (Alive \/ UNCHANGED p)
    /\ bk'.pc = bk.pc /\ bk'.d = bk.d /\ bk'.inPlace = bk.inPlace /\ (bk'.status = bk.status \/ Over(bk))
    /\ UNCHANGED <<rec, mgr, stream>> /\ life'.state = life.state

\* These steps of the point-in-time restore are such.
LEMMA Walks ==
  ASSUME TypeOK, LifeInv,
         \/ CheckFails \/ RestoreBase \/ BaseRestored \/ PassFails \/ KeptForInspection \/ Replayed \/ PostFails
         \/ ClonesComplete \/ SnapshotClones \/ SnapshotFails \/ SafetyFails \/ PreparePause \/ BeginCopy \/ CopyEnds
         \/ DropExtras \/ Swapped \/ ClonesAfterSwap \/ ResumeTimesOut \/ Settle \/ FinishRestore \/ FinishUnsaved
  PROVE  Walk
<1>1. CASE CheckFails
  BY <1>1 DEF TypeOK, Walk, CheckFails, CtxDone, Happens, End, FailStatus, Edges, Records, Goroutines, Lives, data
<1>2. CASE RestoreBase
  BY <1>2 DEF TypeOK, Walk, RestoreBase, Edges, Goroutines, data
<1>3. CASE BaseRestored
  BY <1>3 DEF TypeOK, Walk, BaseRestored, Edges, Goroutines, data
<1>4. CASE PassFails
  BY ZenonT(60), <1>4 DEF TypeOK, Walk, PassFails, CtxDone, DropClones, Dropped, Happens, End, FailStatus, Edges,
     Records, Goroutines, Lives, data
<1>5. CASE KeptForInspection
  BY <1>5 DEF TypeOK, Walk, KeptForInspection, Happens, End, Edges, Records, Goroutines, Lives, data
<1>6. CASE Replayed
  BY <1>6 DEF TypeOK, Walk, Replayed, Edges, Goroutines, data
<1>7. CASE PostFails
  BY <1>7 DEF TypeOK, Walk, PostFails, Happens, End, Edges, Records, Goroutines, Lives, data
<1>8. CASE ClonesComplete
  BY <1>8 DEF TypeOK, Walk, ClonesComplete, End, Edges, Records, Goroutines, data
<1>9. CASE SnapshotClones
  BY <1>9 DEF TypeOK, Walk, SnapshotClones, SaveInPlace, Edges, Records, Goroutines, data
<1>10. CASE SnapshotFails
  BY <1>10 DEF TypeOK, Walk, SnapshotFails, NotSwapped, DropClones, Dropped, Happens, End, Edges, Records,
     Goroutines, Lives, data
<1>11. CASE SafetyFails
  BY <1>11 DEF TypeOK, Walk, SafetyFails, NotSwapped, DropClones, Dropped, Happens, End, Edges, Records, Goroutines, Lives, data
<1>12. CASE PreparePause
  BY <1>12 DEF TypeOK, Walk, PreparePause, SaveInPlace, Edges, Records, Goroutines, data
<1>13. CASE BeginCopy
  BY <1>13 DEF TypeOK, Walk, BeginCopy, Edges, Goroutines, data
<1>14. CASE CopyEnds
  BY <1>14 DEF TypeOK, Walk, CopyEnds, LifeInv, Edges, Goroutines, data
<1>15. CASE DropExtras
  BY <1>15 DEF TypeOK, Walk, DropExtras, LifeInv, Edges, Goroutines, data
<1>16. CASE Swapped
  BY <1>16 DEF TypeOK, Walk, Swapped, SaveInPlace, Edges, Records, Goroutines, data
<1>17. CASE ClonesAfterSwap
  BY <1>17 DEF TypeOK, Walk, ClonesAfterSwap, DropClones, Dropped, Happens, Edges, Records, Goroutines, Lives, data
<1>18. CASE ResumeTimesOut
  BY <1>18 DEF TypeOK, Walk, ResumeTimesOut, Happens, Edges, Goroutines, Lives, data
<1>19. CASE Settle
  BY ZenonT(60), <1>19 DEF TypeOK, Walk, Settle, NotSwapped, DropClones, Dropped, Happens, End, Edges, Records,
     Goroutines, Lives, data
<1>20. CASE FinishRestore
  BY <1>20 DEF TypeOK, Walk, FinishRestore, Save, Edges, Records, Goroutines, data
<1>21. CASE FinishUnsaved
  <2>1. p.pc = "final" /\ p'.pc = "release" /\ p'.after = p.after /\ UNCHANGED <<bk, mgr>>
    BY <1>21 DEF FinishUnsaved, TypeOK, Goroutines
  <2>2. rec'.inPlace = rec.inPlace
    BY <1>21 DEF FinishUnsaved, TypeOK, Records
  <2>3. life'.state = life.state
    BY <1>21 DEF FinishUnsaved, Happens, TypeOK, Lives
  <2>4. stream'.collecting = stream.collecting /\ stream'.late = stream.late /\ stream'.base = stream.base
    BY <1>21, LaterEnabled DEF FinishUnsaved
  <2> QED
    BY <2>1, <2>2, <2>3, <2>4 DEF Walk, Edges
<1> QED
  BY <1>1, <1>2, <1>3, <1>4, <1>5, <1>6, <1>7, <1>8, <1>9, <1>10, <1>11, <1>12, <1>13, <1>14, <1>15, <1>16, <1>17, <1>18,
     <1>19, <1>20, <1>21

\* These steps of the restore of a backup are such.
LEMMA BkWalks ==
  ASSUME TypeOK, LifeInv,
         \/ Refused \/ Mongorestore \/ ToolDone \/ ToolFails \/ Checked \/ PostRestore
  PROVE  BkWalk
<1>1. CASE Refused
  BY <1>1 DEF TypeOK, BkWalk, Refused, Happens, BkEnd, FailStatus, Over, BackupRestores, Lives, data
<1>2. CASE Mongorestore
  BY <1>2 DEF TypeOK, BkWalk, Mongorestore, Write, Over, BackupRestores, data
<1>3. CASE ToolDone
  BY ZenonT(60), <1>3 DEF TypeOK, BkWalk, ToolDone, Write, Happens, Over, BackupRestores, Lives, data
<1>4. CASE ToolFails
  <2>1. bk.pc = "tool" /\ (life' = life \/ Happens) /\ UNCHANGED <<p, rec, mgr, stream>> /\ \E o, n, c : BkEnd(o, n, c)
    BY <1>4 DEF ToolFails, DropClone
  <2> QED
    BY <2>1 DEF TypeOK, BkWalk, BkEnd, Happens, Over, BackupRestores, Lives
<1>5. CASE Checked
  BY ZenonT(60), <1>5 DEF TypeOK, BkWalk, Checked, DropClone, BkEnd, Happens, FailStatus, Over, BackupRestores, Lives, data
<1>6. CASE PostRestore
  BY ZenonT(60), <1>6 DEF TypeOK, BkWalk, PostRestore, BkEnd, Happens, Over, BackupRestores, Lives, data
<1> QED
  BY <1>1, <1>2, <1>3, <1>4, <1>5, <1>6

\* These steps are such.
LEMMA Quiets ==
  ASSUME TypeOK, LifeInv,
         \/ (\E d \in Databases : CloneChanges(d)) \/ SafetyBackup \/ SaveDeferred \/ SaveRestoreLater \/ CancelRestore
         \/ OrphanEnds
  PROVE  Quiet
<1>1. ASSUME NEW d \in Databases, CloneChanges(d) PROVE Quiet
  BY <1>1 DEF TypeOK, Quiet, CloneChanges, Happens, Over, Lives, data
<1>2. CASE SafetyBackup
  BY <1>2 DEF TypeOK, Quiet, SafetyBackup, Over, data
<1>3. CASE SaveDeferred
  BY <1>3 DEF TypeOK, Quiet, SaveDeferred, Save, Over, Records, Goroutines, data
<1>4. CASE SaveRestoreLater
  BY <1>4 DEF TypeOK, Quiet, SaveRestoreLater, Over, BackupRestores, data
<1>5. CASE CancelRestore
  BY <1>5 DEF TypeOK, Quiet, CancelRestore, Happens, Over, Goroutines, BackupRestores, Lives, data
<1>6. CASE OrphanEnds
  BY <1>6 DEF TypeOK, Quiet, OrphanEnds, Over, data
<1> QED
  BY <1>1, <1>2, <1>3, <1>4, <1>5, <1>6

\* Every step preserves LifeInv.
LEMMA LifeInvNext ==
  ASSUME TypeOK, LifeInv, DueInv, Next
  PROVE  LifeInv'
<1> USE DEF LifeInv, Alive, Over, Swapping, Pausing, Before, InPlaceOnly, NoRun, NoKeys, Left
<1>1. CASE Walk
  BY <1>1 DEF Walk, Edges, TypeOK
<1>2. CASE BkWalk
  BY <1>2 DEF BkWalk, TypeOK
<1>3. CASE Quiet
  BY <1>3 DEF Quiet, TypeOK
<1>4. ASSUME NEW inPlace \in BOOLEAN, NEW keep \in BOOLEAN, StartPITR(inPlace, keep) PROVE LifeInv'
  BY <1>4 DEF TypeOK, StartPITR, Accepting, Alive, Save, Records, Goroutines, Managers, NoRec, data
<1>5. ASSUME NEW d \in Databases, NEW inPlace \in BOOLEAN, StartRestore(d, inPlace) PROVE LifeInv'
  BY <1>5 DEF TypeOK, StartRestore, Accepting, Alive, BackupRestores, Managers, NoBackup, data
<1>6. CASE DisableStream
  BY <1>6 DEF TypeOK, DisableStream, Goroutines, Streams, data
<1>7. CASE EndChain
  <2>1. p.pc = "disabled" /\ p'.pc = "paused" /\ p'.after = p.after /\ p'.deferred = p.deferred
        /\ ~stream.collecting /\ stream'.collecting = stream.collecting /\ stream'.enabled = stream.enabled /\ stream'.base = stream.base
        /\ UNCHANGED <<rec, bk, mgr, life>> /\ ~CtxDone(p)
    BY <1>7 DEF TypeOK, EndChain, Goroutines, Streams
  <2> QED
    BY <2>1 DEF CtxDone
<1>8. CASE PauseFails
  BY <1>8 DEF TypeOK, PauseFails, Happens, Goroutines, Lives, data
<1>9. CASE BeginSwap
  BY <1>9 DEF TypeOK, BeginSwap, SaveInPlace, Records, Goroutines, Managers, data
<1>10. CASE SwapFails
  BY <1>10 DEF TypeOK, SwapFails, Happens, Records, Goroutines, Managers, Lives, data
<1>11. CASE SwapDone
  BY <1>11 DEF TypeOK, SwapDone, Records, Goroutines, Managers, data
<1>12. CASE EnableStream
  BY <1>12 DEF TypeOK, EnableStream, Happens, Goroutines, Streams, Managers, Lives, data
<1>13. CASE StreamResumed
  BY <1>13 DEF TypeOK, StreamResumed, StartBase, Records, Goroutines, Streams, Managers, data
<1>14. CASE Release
  BY <1>14 DEF TypeOK, Release, Goroutines, Managers, data
<1>15. CASE SaveRestore
  BY ZenonT(60), <1>15 DEF TypeOK, SaveRestore, Happens, BackupRestores, Managers, Lives, data
<1>16. CASE CollectorStarts
  BY <1>16 DEF TypeOK, CollectorStarts, Accepting, Streams, data
<1>17. CASE CollectorStops
  BY <1>17 DEF TypeOK, CollectorStops, Streams, data
<1>18. CASE BaseStarts
  BY <1>18 DEF TypeOK, BaseStarts, StartBase, Accepting, Streams, Managers, data
<1>19. CASE BaseEnds
  BY <1>19 DEF TypeOK, BaseEnds, Streams, Managers, data
<1>20. CASE BaseAfterRecovery
  BY ZenonT(60), <1>20 DEF TypeOK, BaseAfterRecovery, Streams, Managers, data
<1>21. CASE Stop
  BY <1>21 DEF TypeOK, Stop, Goroutines, BackupRestores, Streams, Managers, Lives, data
<1>22. CASE Exit
  BY <1>22 DEF TypeOK, Exit, Lost, Records, Goroutines, BackupRestores, Streams, Managers, Lives, NoRun, NoRec, NoKeys, data
<1>23. CASE Deadline
  BY <1>23 DEF TypeOK, Deadline, Lives, data
<1>24. CASE ExitAnyway
  BY <1>24 DEF TypeOK, ExitAnyway, Lost, Records, Goroutines, BackupRestores, Streams, Managers, Lives, NoRun, NoRec,
     NoKeys, data
<1>25. CASE Crash
  BY <1>25 DEF TypeOK, Crash, Lost, Records, Goroutines, BackupRestores, Streams, Managers, Lives, NoRun, NoRec, NoKeys, data
<1>26. CASE Start
  BY <1>26 DEF TypeOK, Start, Records, Lives, data
<1>27. CASE CleanupInterrupted
  BY <1>27 DEF TypeOK, CleanupInterrupted, Records, Lives, data
<1>28. CASE ResumeInterrupted
  <2>1. life.state = "stream" /\ UNCHANGED <<rec, p, bk, mgr>> /\ (stream' = stream \/ stream' = [stream EXCEPT !.enabled = TRUE, !.due = TRUE] \/ EnableLater)
    BY <1>28 DEF ResumeInterrupted
  <2>2. life' = [life EXCEPT !.state = "mark"] \/ life' = [state |-> "mark", events |-> life.events + 1]
    BY <1>28 DEF ResumeInterrupted
  <2>3. life'.state = "mark"
    BY <2>2 DEF TypeOK, Lives
  <2>4. stream'.base = stream.base /\ stream'.collecting = stream.collecting
    BY <2>1, LaterEnabled DEF TypeOK, Streams
  <2> QED
    BY <2>1, <2>3, <2>4
<1>29. CASE MarkInterrupted
  BY <1>29 DEF TypeOK, MarkInterrupted, Save, Records, BackupRestores, Lives, data
<1>30. CASE EnableInShutdown
  <2>1. p.pc = "resume" /\ p'.pc = "settle" /\ p'.after = p.after /\ p'.deferred = p.deferred /\ UNCHANGED bk
    BY <1>30 DEF EnableInShutdown, TypeOK, Goroutines
  <2>2. rec'.inPlace = rec.inPlace
    BY <1>30 DEF EnableInShutdown, TypeOK, Records
  <2>3. life'.state = life.state
    BY <1>30 DEF EnableInShutdown, Happens, TypeOK, Lives
  <2>4. mgr'.closed = mgr.closed /\ mgr'.critical = mgr.critical
    BY <1>30 DEF EnableInShutdown, TypeOK, Managers
  <2>5. stream'.collecting = stream.collecting /\ stream'.base = stream.base
    BY <1>30 DEF EnableInShutdown, TypeOK, Streams
  <2> QED
    BY <2>1, <2>2, <2>3, <2>4, <2>5
<1>31. CASE ListStreams
  BY <1>31 DEF TypeOK, ListStreams, Streams, data
<1>32. CASE EnableAgain \/ BaseTimesOut
  <2>1. stream.due /\ life.state = "up" /\ UNCHANGED <<rec, p, bk, mgr>>
    BY <1>32 DEF EnableAgain, BaseTimesOut
  <2>2. stream'.collecting = stream.collecting /\ stream'.base = stream.base
    BY <1>32 DEF EnableAgain, BaseTimesOut, TypeOK, Streams
  <2>3. life'.state = life.state
    BY <1>32 DEF EnableAgain, BaseTimesOut, Happens, TypeOK, Lives
  <2>4. p.pc \notin Pausing
    BY <2>1 DEF DueInv
  <2> QED
    BY <2>1, <2>2, <2>3, <2>4
<1> QED
  BY <1>1, <1>2, <1>3, <1>4, <1>5, <1>6, <1>7, <1>8, <1>9, <1>10, <1>11, <1>12, <1>13, <1>14, <1>15, <1>16, <1>17,
     <1>18, <1>19, <1>20, <1>21, <1>22, <1>23, <1>24, <1>25, <1>26, <1>27, <1>28, <1>29, <1>30, <1>31, <1>32, Walks,
     BkWalks, Quiets DEF Next, PITRStep, BackupStep, Collector, Base, ResumingStep, Recovery, ShutdownStep

\* Every step preserves KeysInv.
LEMMA KeysInvNext ==
  ASSUME TypeOK, LifeInv, KeysInv, Next
  PROVE  KeysInv'
<1> USE DEF KeysInv, HoldsRestores, HoldsBase, BkHolds, Over
<1>1. CASE Walk
  BY <1>1 DEF Walk, Edges, TypeOK
<1>2. CASE BkWalk
  BY <1>2 DEF BkWalk, TypeOK
<1>3. CASE Quiet
  BY <1>3 DEF Quiet, TypeOK
<1>4. ASSUME NEW inPlace \in BOOLEAN, NEW keep \in BOOLEAN, StartPITR(inPlace, keep) PROVE KeysInv'
  <2>1. mgr'.keys = (IF inPlace THEN mgr.keys \cup InPlaceKeys ELSE mgr.keys) /\ UNCHANGED <<bk, stream>>
        /\ (inPlace => InPlaceKeys \cap mgr.keys = {})
    BY <1>4 DEF StartPITR, TypeOK, Managers
  <2>2. rec'.inPlace = inPlace /\ p.pc = "idle" /\ p'.pc = "queued" /\ p'.after = p.after /\ p.after = "none"
    BY <1>4 DEF StartPITR, Save, NoRec, TypeOK, Records, Goroutines, LifeInv
  <2>3. CASE inPlace
    <3>1. <<"base", 0>> \in mgr'.keys /\ <<"base", 0>> \notin mgr.keys
      BY <2>1, <2>3, KeysIn
    <3>2. ASSUME NEW d \in Databases PROVE <<"restore", d>> \in mgr'.keys /\ <<"restore", d>> \notin mgr.keys
      BY <2>1, <2>3, KeysIn
    <3>3. stream.base = "none" /\ stream'.base = "none"
      BY <2>1, <3>1 DEF TypeOK, Streams
    <3> QED
      BY <2>1, <2>2, <2>3, <3>1, <3>2, <3>3
  <2>4. CASE ~inPlace
    BY <2>1, <2>2, <2>4
  <2> QED
    BY <2>3, <2>4
<1>5. ASSUME NEW d \in Databases, NEW inPlace \in BOOLEAN, StartRestore(d, inPlace) PROVE KeysInv'
  BY <1>5 DEF TypeOK, StartRestore, Accepting, Alive, BackupRestores, Managers, NoBackup, data
<1>6. CASE DisableStream
  BY <1>6 DEF TypeOK, DisableStream, Goroutines, Streams, data
<1>7. CASE EndChain
  BY <1>7 DEF TypeOK, EndChain, Goroutines, Streams, data
<1>8. CASE PauseFails
  <2>1. p.pc \in {"pausing", "disabled"} /\ p.after = "none" /\ p'.pc = "resume"
    BY <1>8 DEF PauseFails, TypeOK, Goroutines, LifeInv, Before, Swapping
  <2>2. rec'.inPlace = rec.inPlace /\ UNCHANGED <<bk, stream>>
    BY <1>8 DEF PauseFails, TypeOK, Records
  <2>3. mgr'.keys = mgr.keys
    BY <1>8 DEF PauseFails, TypeOK, Managers
  <2> QED
    BY <2>1, <2>2, <2>3
<1>9. CASE BeginSwap
  BY <1>9 DEF TypeOK, BeginSwap, SaveInPlace, Records, Goroutines, Managers, data
<1>10. CASE SwapFails
  <2>1. p.pc \in {"swap", "copy", "copied"} /\ p.after = "none" /\ p'.pc = "resume"
    BY <1>10 DEF SwapFails, TypeOK, Goroutines, LifeInv, Before, Swapping
  <2>2. rec'.inPlace = rec.inPlace /\ UNCHANGED <<bk, stream>>
    BY <1>10 DEF SwapFails, TypeOK, Records
  <2>3. mgr'.keys = mgr.keys
    BY <1>10 DEF SwapFails, TypeOK, Managers
  <2> QED
    BY <2>1, <2>2, <2>3
<1>11. CASE SwapDone
  <2>1. p.pc \in {"swap"} /\ p.after = "none" /\ p'.pc = "clones"
    BY <1>11 DEF SwapDone, TypeOK, Goroutines, LifeInv, Before, Swapping
  <2>2. rec'.inPlace = rec.inPlace /\ UNCHANGED <<bk, stream>>
    BY <1>11 DEF SwapDone, TypeOK, Records
  <2>3. mgr'.keys = mgr.keys
    BY <1>11 DEF SwapDone, TypeOK, Managers
  <2> QED
    BY <2>1, <2>2, <2>3
<1>12. CASE EnableStream
  <2>1. p.pc = "resume" /\ p.after # "none" /\ rec.inPlace /\ p'.pc \in {"wait", "settle"} /\ p'.after = p.after /\ UNCHANGED <<rec, bk>>
    BY <1>12 DEF EnableStream, TypeOK, Goroutines, LifeInv, InPlaceOnly
  <2>2. mgr'.keys = mgr.keys \ {<<"base", 0>>} /\ stream'.base = stream.base
    BY <1>12 DEF EnableStream, TypeOK, Managers, Streams
  <2> QED
    BY <2>1, <2>2
<1>13. CASE StreamResumed
  BY <1>13 DEF TypeOK, StreamResumed, StartBase, Records, Goroutines, Streams, Managers, data
<1>14. CASE Release
  <2>1. p.pc = "release" /\ p'.pc = "over" /\ mgr'.keys = mgr.keys \ PITRHolds /\ UNCHANGED <<rec, bk, stream>>
    BY <1>14 DEF Release, TypeOK, Goroutines, Managers
  <2>2. <<"base", 0>> \in PITRHolds <=> rec.inPlace /\ p.after = "none"
    BY <2>1, KeysIn DEF PITRHolds
  <2>3. \A d \in Databases : <<"restore", d>> \in PITRHolds <=> rec.inPlace
    BY KeysIn DEF PITRHolds
  <2> QED
    BY <2>1, <2>2, <2>3
<1>15. CASE SaveRestore
  BY ZenonT(60), <1>15 DEF TypeOK, SaveRestore, Happens, BackupRestores, Managers, Lives, data
<1>16. CASE CollectorStarts
  BY <1>16 DEF TypeOK, CollectorStarts, Streams, data
<1>17. CASE CollectorStops
  BY <1>17 DEF TypeOK, CollectorStops, Streams, data
<1>18. CASE BaseStarts
  <2>1. UNCHANGED <<rec, p, bk>> /\ <<"base", 0>> \notin mgr.keys /\ StartBase
    BY <1>18 DEF BaseStarts
  <2>2. UNCHANGED <<mgr, stream>> \/ (mgr'.keys = mgr.keys \cup {<<"base", 0>>} /\ stream'.base = "running")
    BY <2>1 DEF StartBase, TypeOK, Streams, Managers
  <2> QED
    BY <2>1, <2>2
<1>19. CASE BaseEnds
  BY <1>19 DEF TypeOK, BaseEnds, Streams, Managers, data
<1>20. CASE BaseAfterRecovery
  <2>1. UNCHANGED <<rec, p, bk>>
    BY <1>20 DEF BaseAfterRecovery
  <2>2. CASE <<"base", 0>> \in mgr.keys
    <3>1. mgr' = mgr /\ stream'.base = stream.base
      BY <1>20, <2>2 DEF BaseAfterRecovery, TypeOK, Streams
    <3> QED
      BY <2>1, <3>1
  <2>3. CASE <<"base", 0>> \notin mgr.keys
    <3>1. mgr'.keys = mgr.keys \cup {<<"base", 0>>} /\ stream'.base = "running"
      BY <1>20, <2>3 DEF BaseAfterRecovery, TypeOK, Streams, Managers
    <3> QED
      BY <2>1, <2>3, <3>1
  <2> QED
    BY <2>2, <2>3
<1>21. CASE Stop
  BY <1>21 DEF TypeOK, Stop, Goroutines, BackupRestores, Streams, Managers, Lives, data
<1>22. CASE Exit
  <2>1. p' = NoRun /\ mgr' = NoKeys /\ stream' = [stream EXCEPT !.collecting = FALSE, !.listed = "none", !.late = FALSE, !.base = "none", !.due = FALSE]
        /\ bk' = IF bk.status = "in_progress" THEN [bk EXCEPT !.pc = "over", !.note = "interrupted", !.outcome = "none"] ELSE bk
    BY <1>22 DEF Exit, Lost
  <2>2. bk'.pc \in {"idle", "over"}
    BY <2>1 DEF LifeInv, TypeOK, BackupRestores
  <2>3. p'.pc = "idle" /\ mgr'.keys = {} /\ stream'.base = "none"
    BY <2>1 DEF NoRun, NoKeys, TypeOK, Streams
  <2> QED
    BY <2>2, <2>3
<1>23. CASE Deadline
  BY <1>23 DEF TypeOK, Deadline, Lives, data
<1>24. CASE ExitAnyway
  <2>1. p' = NoRun /\ mgr' = NoKeys /\ stream' = [stream EXCEPT !.collecting = FALSE, !.listed = "none", !.late = FALSE, !.base = "none", !.due = FALSE]
        /\ bk' = IF bk.status = "in_progress" THEN [bk EXCEPT !.pc = "over", !.note = "interrupted", !.outcome = "none"] ELSE bk
    BY <1>24 DEF ExitAnyway, Lost
  <2>2. bk'.pc \in {"idle", "over"}
    BY <2>1 DEF LifeInv, TypeOK, BackupRestores
  <2>3. p'.pc = "idle" /\ mgr'.keys = {} /\ stream'.base = "none"
    BY <2>1 DEF NoRun, NoKeys, TypeOK, Streams
  <2> QED
    BY <2>2, <2>3
<1>25. CASE Crash
  <2>1. p' = NoRun /\ mgr' = NoKeys /\ stream' = [stream EXCEPT !.collecting = FALSE, !.listed = "none", !.late = FALSE, !.base = "none", !.due = FALSE]
        /\ bk' = IF bk.status = "in_progress" THEN [bk EXCEPT !.pc = "over", !.note = "interrupted", !.outcome = "none"] ELSE bk
    BY <1>25 DEF Crash, Lost
  <2>2. bk'.pc \in {"idle", "over"}
    BY <2>1 DEF LifeInv, TypeOK, BackupRestores
  <2>3. p'.pc = "idle" /\ mgr'.keys = {} /\ stream'.base = "none"
    BY <2>1 DEF NoRun, NoKeys, TypeOK, Streams
  <2> QED
    BY <2>2, <2>3
<1>26. CASE Start
  BY <1>26 DEF Start, TypeOK, LifeInv, Alive, NoRun
<1>27. CASE CleanupInterrupted
  BY <1>27 DEF CleanupInterrupted, TypeOK, LifeInv, Alive, NoRun
<1>28. CASE ResumeInterrupted
  <2>1. UNCHANGED <<rec, p, bk, mgr>>
    BY <1>28 DEF ResumeInterrupted
  <2>2. stream'.base = stream.base
    BY <1>28, LaterEnabled DEF ResumeInterrupted, TypeOK, Streams
  <2> QED
    BY <2>1, <2>2
<1>29. CASE MarkInterrupted
  BY <1>29 DEF TypeOK, MarkInterrupted, Save, Records, BackupRestores, Lives, data
<1>30. CASE EnableInShutdown
  <2>1. p.pc = "resume" /\ p.after # "none" /\ p'.pc = "settle" /\ p'.after = p.after /\ UNCHANGED bk
    BY <1>30 DEF EnableInShutdown, TypeOK, Goroutines, LifeInv
  <2>2. rec'.inPlace = rec.inPlace
    BY <1>30 DEF EnableInShutdown, TypeOK, Records
  <2>3. mgr'.keys = mgr.keys \ {<<"base", 0>>} /\ stream'.base = stream.base
    BY <1>30 DEF EnableInShutdown, TypeOK, Managers, Streams
  <2> QED
    BY <2>1, <2>2, <2>3 DEF LifeInv, InPlaceOnly
<1>31. CASE ListStreams \/ EnableAgain \/ BaseTimesOut
  <2>1. UNCHANGED <<rec, p, bk, mgr>>
    BY <1>31 DEF ListStreams, EnableAgain, BaseTimesOut
  <2>2. stream'.base = stream.base
    BY <1>31 DEF ListStreams, EnableAgain, BaseTimesOut, TypeOK, Streams
  <2> QED
    BY <2>1, <2>2
<1> QED
  BY <1>1, <1>2, <1>3, <1>4, <1>5, <1>6, <1>7, <1>8, <1>9, <1>10, <1>11, <1>12, <1>13, <1>14, <1>15, <1>16, <1>17,
     <1>18, <1>19, <1>20, <1>21, <1>22, <1>23, <1>24, <1>25, <1>26, <1>27, <1>28, <1>29, <1>30, <1>31, Walks,
     BkWalks, Quiets DEF Next, PITRStep, BackupStep, Collector, Base, ResumingStep, Recovery, ShutdownStep

\* What the actions do that write to the databases or start and end the goroutine.
LEMMA StartsPITR ==
  ASSUME TypeOK, LifeInv, NEW inPlace \in BOOLEAN, NEW keep \in BOOLEAN, StartPITR(inPlace, keep)
  PROVE  /\ p.pc = "idle" /\ p'.pc = "queued" /\ p'.after = "none" /\ rec.status = "none" /\ life.state = "up"
         /\ stored' = rec' /\ rec'.status = "in_progress" /\ rec'.swapped = {} /\ UNCHANGED <<db, clone, safety, past, life>>
<1>1. p.pc = "idle" /\ p' = [p EXCEPT !.pc = "queued"] /\ p.after = "none"
  BY DEF StartPITR, LifeInv
<1>2. p'.pc = "queued" /\ p'.after = "none"
  BY <1>1 DEF TypeOK, Goroutines
<1> QED
  BY <1>1, <1>2 DEF StartPITR, Save, NoRec, data

\* SafetyBackup.
LEMMA SafetyBacked ==
  ASSUME SafetyBackup
  PROVE  \E m \in Databases : /\ p.pc = "safety" /\ safety[m] = "none" /\ safety' = [safety EXCEPT ![m] = db[m]]
                              /\ UNCHANGED <<db, clone, past, rec, stored, p, bk, stream, mgr, life>>
BY NextUnsaved DEF SafetyBackup

\* PreparePause.
LEMMA PausePrepared ==
  ASSUME TypeOK, PreparePause
  PROVE  /\ p.pc = "safety" /\ p'.pc = "pausing" /\ p'.after = p.after /\ \A d \in Databases : safety[d] # "none"
         /\ rec'.inPlace = rec.inPlace /\ rec'.swapped = rec.swapped /\ rec'.status = rec.status /\ rec'.swapStarted = rec.swapStarted
         /\ rec'.stage = "pausing" /\ (stored' = rec' \/ (SavesFail /\ stored' = stored)) /\ UNCHANGED <<db, clone, safety, past, life>>
<1>1. p.pc = "safety" /\ p' = [p EXCEPT !.pc = "pausing"] /\ Unsaved = {} /\ SaveInPlace([rec EXCEPT !.stage = "pausing", !.wasEnabled = stream.enabled])
      /\ UNCHANGED <<db, clone, safety, past, life>>
  BY DEF PreparePause, data
<1>2. p'.pc = "pausing" /\ p'.after = p.after
  BY <1>1 DEF TypeOK, Goroutines
<1>3. rec' = [rec EXCEPT !.stage = "pausing", !.wasEnabled = stream.enabled] /\ (stored' = rec' \/ (SavesFail /\ stored' = stored))
  BY <1>1, InPlaceConstants DEF SaveInPlace
<1>4. rec'.inPlace = rec.inPlace /\ rec'.swapped = rec.swapped /\ rec'.status = rec.status /\ rec'.swapStarted = rec.swapStarted /\ rec'.stage = "pausing"
  BY <1>3 DEF TypeOK, Records
<1> QED
  BY <1>1, <1>2, <1>3, <1>4 DEF Unsaved

\* BeginCopy.
LEMMA CopyBegun ==
  ASSUME TypeOK, BeginCopy
  PROVE  /\ p.pc = "swap" /\ p'.pc = "copy" /\ p'.after = p.after /\ Now \in Left /\ Now \in Databases /\ Left' = Left /\ Now' = Now
         /\ clone[Now] = "full" /\ db' = [db EXCEPT ![Now] = "part"] /\ past'.was = [past.was EXCEPT ![Now] = db[Now]]
         /\ past'.made = past.made /\ past'.orphan = past.orphan /\ UNCHANGED <<clone, safety, rec, stored, life>>
<1>1. p.pc = "swap" /\ p' = [p EXCEPT !.pc = "copy"] /\ Left # {} /\ past' = [past EXCEPT !.was[Now] = db[Now]]
      /\ clone[Now] = "full" /\ db' = [db EXCEPT ![Now] = "part"] /\ UNCHANGED <<clone, safety, rec, stored, life>>
  BY DEF BeginCopy
<1>2. p'.pc = "copy" /\ p'.after = p.after
  BY <1>1 DEF TypeOK, Goroutines
<1>3. past'.was = [past.was EXCEPT ![Now] = db[Now]] /\ past'.made = past.made /\ past'.orphan = past.orphan
  BY <1>1 DEF TypeOK, Pasts
<1>4. Left' = Left /\ Now' = Now
  BY <1>1 DEF Left, Now
<1> QED
  BY <1>1, <1>2, <1>3, <1>4, NowLeft

\* CopyEnds.
LEMMA CopyEnded ==
  ASSUME TypeOK, LifeInv, CopyEnds
  PROVE  /\ p.pc = "copy" /\ p'.pc = "copied" /\ p'.after = p.after /\ Now \in Left /\ Now \in Databases /\ Left' = Left /\ Now' = Now
         /\ db' = [db EXCEPT ![Now] = "copied"] /\ UNCHANGED <<clone, safety, past, rec, stored, life>>
<1>1. p.pc = "copy" /\ p' = [p EXCEPT !.pc = "copied"] /\ Left # {}
      /\ db' = [db EXCEPT ![Now] = "copied"] /\ UNCHANGED <<clone, safety, past, rec, stored, life>>
  BY DEF CopyEnds, LifeInv
<1>2. p'.pc = "copied" /\ p'.after = p.after
  BY <1>1 DEF TypeOK, Goroutines
<1>3. Left' = Left /\ Now' = Now
  BY <1>1 DEF Left, Now
<1> QED
  BY <1>1, <1>2, <1>3, NowLeft

\* DropExtras.
LEMMA ExtrasDropped ==
  ASSUME TypeOK, LifeInv, DropExtras
  PROVE  /\ p.pc = "copied" /\ p'.pc = "swapped" /\ p'.after = p.after /\ Now \in Left /\ Now \in Databases /\ Left' = Left /\ Now' = Now
         /\ db' = [db EXCEPT ![Now] = "new"] /\ past'.made = past.made \cup {Now} /\ past'.was = past.was /\ past'.orphan = past.orphan
         /\ UNCHANGED <<clone, safety, rec, stored, life>>
<1>1. p.pc = "copied" /\ p' = [p EXCEPT !.pc = "swapped"] /\ Left # {} /\ past' = [past EXCEPT !.made = @ \cup {Now}]
      /\ db' = [db EXCEPT ![Now] = "new"] /\ UNCHANGED <<clone, safety, rec, stored, life>>
  BY DEF DropExtras, LifeInv
<1>2. p'.pc = "swapped" /\ p'.after = p.after
  BY <1>1 DEF TypeOK, Goroutines
<1>3. past'.made = past.made \cup {Now} /\ past'.was = past.was /\ past'.orphan = past.orphan
  BY <1>1 DEF TypeOK, Pasts
<1>4. Left' = Left /\ Now' = Now
  BY <1>1 DEF Left, Now
<1> QED
  BY <1>1, <1>2, <1>3, <1>4, NowLeft

\* Swapped.
LEMMA OneSwapped ==
  ASSUME TypeOK, LifeInv, Swapped
  PROVE  /\ p.pc = "swapped" /\ p'.pc = "swap" /\ p'.after = p.after /\ Now \in Left /\ Now \in Databases /\ Left' = Left \ {Now}
         /\ rec'.inPlace = rec.inPlace /\ rec'.swapped = rec.swapped \cup {Now} /\ rec'.status = rec.status
         /\ rec'.stage = rec.stage /\ rec'.swapStarted = rec.swapStarted
         /\ (stored' = rec' \/ (SavesFail /\ stored' = stored)) /\ UNCHANGED <<db, clone, safety, past, life>>
<1>1. p.pc = "swapped" /\ p' = [p EXCEPT !.pc = "swap"] /\ Left # {} /\ SaveInPlace([rec EXCEPT !.swapped = @ \cup {Now}])
      /\ UNCHANGED <<db, clone, safety, past, life>>
  BY DEF Swapped, LifeInv, data
<1>2. p'.pc = "swap" /\ p'.after = p.after
  BY <1>1 DEF TypeOK, Goroutines
<1>3. rec' = [rec EXCEPT !.swapped = @ \cup {Now}] /\ (stored' = rec' \/ (SavesFail /\ stored' = stored))
  BY <1>1, InPlaceConstants DEF SaveInPlace
<1>4. /\ rec'.inPlace = rec.inPlace /\ rec'.swapped = rec.swapped \cup {Now} /\ rec'.status = rec.status
      /\ rec'.stage = rec.stage /\ rec'.swapStarted = rec.swapStarted
  BY <1>3 DEF TypeOK, Records
<1>5. Left' = Left \ {Now}
  BY <1>4 DEF Left
<1> QED
  BY <1>1, <1>2, <1>3, <1>4, <1>5, NowLeft

\* SwapDone.
LEMMA AllSwapped ==
  ASSUME TypeOK, SwapDone
  PROVE  /\ p.pc = "swap" /\ p'.pc = "clones" /\ p'.after = "restored" /\ Databases \subseteq rec.swapped
         /\ rec'.inPlace = rec.inPlace /\ rec'.swapped = rec.swapped /\ rec'.status = rec.status
         /\ rec'.stage = "resuming" /\ rec'.swapStarted = rec.swapStarted /\ UNCHANGED <<db, clone, safety, past, stored, life>>
<1>1. p.pc = "swap" /\ p' = [p EXCEPT !.pc = "clones", !.after = "restored"] /\ Left = {} /\ rec' = [rec EXCEPT !.stage = "resuming"]
      /\ UNCHANGED <<db, clone, safety, past, stored, life>>
  BY DEF SwapDone, data
<1>2. p'.pc = "clones" /\ p'.after = "restored"
  BY <1>1 DEF TypeOK, Goroutines
<1>3. /\ rec'.inPlace = rec.inPlace /\ rec'.swapped = rec.swapped /\ rec'.status = rec.status
      /\ rec'.stage = "resuming" /\ rec'.swapStarted = rec.swapStarted
  BY <1>1 DEF TypeOK, Records
<1> QED
  BY <1>1, <1>2, <1>3 DEF Left

\* Mongorestore and ToolDone write only to a database whose key the restore holds.
LEMMA BackupWritten ==
  ASSUME TypeOK, LifeInv, Mongorestore \/ ToolDone
  PROVE  /\ db' = db \/ \E c \in {"part", "backup"}, d \in Databases : BkHolds(d) /\ db' = [db EXCEPT ![d] = c]
         /\ life'.state = life.state /\ UNCHANGED <<clone, safety, past, rec, stored, p>>
<1>1. ~Over(bk) /\ bk.d \in Databases
  BY DEF Mongorestore, ToolDone, LifeInv, Over
<1>2. db' = db \/ (bk.inPlace /\ \E c \in {"part", "backup"} : db' = [db EXCEPT ![bk.d] = c])
  BY DEF Mongorestore, ToolDone, Write
<1>3. UNCHANGED <<clone, safety, past, rec, stored, p>> /\ (life' = life \/ life' = [life EXCEPT !.events = @ + 1])
  BY DEF Mongorestore, ToolDone, Write, Happens
<1>4. life'.state = life.state
  BY <1>3 DEF TypeOK, Lives
<1> QED
  BY <1>1, <1>2, <1>3, <1>4 DEF BkHolds

\* Exit, ExitAnyway and Crash.
LEMMA ProcessLost ==
  ASSUME TypeOK, Exit \/ ExitAnyway \/ Crash
  PROVE  /\ p' = NoRun /\ rec' = NoRec /\ life'.state = "down" /\ UNCHANGED <<db, clone, safety, stored>>
         /\ past'.was = past.was /\ past'.made = past.made
         /\ past'.orphan = past.orphan \/ (p.pc = "copy" /\ past'.orphan = Now)
<1>1. p' = NoRun /\ rec' = NoRec /\ UNCHANGED <<db, clone, safety, stored>>
      /\ (life' = [life EXCEPT !.state = "down"] \/ life' = [state |-> "down", events |-> life.events + 1])
      /\ (past' = past \/ Crash)
  BY DEF Exit, ExitAnyway, Crash, Lost, data
<1>2. life'.state = "down"
  BY <1>1 DEF TypeOK, Lives
<1>3. past'.was = past.was /\ past'.made = past.made /\ (past'.orphan = past.orphan \/ (p.pc = "copy" /\ past'.orphan = Now))
  <2>1. CASE Crash
    <3> DEFINE m == past.missed \/ (life.state = "up" /\ stream.due /\ ~stream.enabled)
    <3>1. PICK o \in {past.orphan} \cup (IF p.pc = "copy" THEN {Now} ELSE {}) : past' = [past EXCEPT !.orphan = o, !.missed = m]
      BY <2>1 DEF Crash
    <3> HIDE DEF m
    <3> QED
      BY <3>1 DEF TypeOK, Pasts
  <2> QED
    BY <1>1, <2>1
<1> QED
  BY <1>1, <1>2, <1>3

\* OrphanEnds.
LEMMA OrphanEnded ==
  ASSUME TypeOK, OrphanEnds
  PROVE  /\ past.orphan \in Databases /\ past'.was = past.was /\ past'.made = past.made /\ past'.orphan = 0
         /\ \E e \in {"copied", "part"} : db' = [db EXCEPT ![past.orphan] = e]
         /\ UNCHANGED <<clone, safety, rec, stored, p, life>>
BY DEF OrphanEnds, TypeOK, Pasts

\* Start.
LEMMA Started ==
  ASSUME TypeOK, LifeInv, Start
  PROVE  /\ p = NoRun /\ life.state = "down" /\ life'.state = "clones" /\ rec' = stored
         /\ UNCHANGED <<db, clone, safety, past, stored, p>>
BY DEF Start, TypeOK, LifeInv, Lives, Alive, data

\* What the swap has reached depends on the history alone.
LEMMA ReachedSame == past'.was = past.was => \A d \in Databases : Reached(d)' <=> Reached(d)
BY DEF Reached

\* The steps of the point-in-time restore that leave the databases and what is left as they are.
DataEdges ==
    (Edges \ {<<"swap", "copy">>, <<"copy", "copied">>, <<"copied", "swapped">>, <<"swapped", "swap">>, <<"safety", "pausing">>})
    \cup {<<"pausing", "disabled">>, <<"disabled", "paused">>, <<"pausing", "resume">>, <<"disabled", "resume">>, <<"paused", "swap">>,
          <<"swap", "resume">>, <<"copy", "resume">>, <<"copied", "resume">>, <<"resume", "wait">>, <<"resume", "settle">>, <<"release", "over">>}

\* A step that changes no database.
DataCalm ==
    /\ UNCHANGED <<db, safety>> /\ past'.was = past.was /\ past'.made = past.made /\ past'.orphan = past.orphan

\* A step that moves the goroutine along such an edge, or not.
RunCalm ==
    /\ p'.pc = p.pc \/ <<p.pc, p'.pc>> \in DataEdges
    /\ p'.after = p.after \/ (p.pc \in {"pausing", "disabled"} /\ p'.pc = "resume" /\ p'.after = "untouched") \/ p'.after = "partial"
    /\ life'.state # "down" => life.state # "down"

\* A step that leaves what the records say of the databases as it is.
RecCalm ==
    /\ rec'.inPlace = rec.inPlace /\ rec'.swapped = rec.swapped
    /\ \/ rec'.status = rec.status /\ stored'.status = stored.status
       \/ rec'.status = stored'.status /\ rec'.status # "none"
       \/ p.pc # "idle" /\ rec'.status # "none" /\ stored'.status \in {stored.status, rec.status, rec'.status}

\* Every action but a dozen changes no database, ...
LEMMA DataCalms ==
  ASSUME TypeOK, LifeInv,
         \/ (\E d \in Databases, inPlace \in BOOLEAN : StartRestore(d, inPlace)) \/ (\E d \in Databases : CloneChanges(d))
         \/ CheckFails \/ RestoreBase \/ BaseRestored \/ PassFails \/ KeptForInspection \/ Replayed \/ PostFails
         \/ ClonesComplete \/ SnapshotClones \/ SnapshotFails \/ SafetyFails \/ DisableStream \/ EndChain \/ PauseFails
         \/ BeginSwap \/ SwapFails \/ ClonesAfterSwap \/ EnableStream \/ StreamResumed \/ ResumeTimesOut \/ Settle
         \/ FinishRestore \/ FinishUnsaved \/ Release \/ SaveDeferred \/ Refused \/ ToolFails \/ Checked \/ PostRestore
         \/ SaveRestore \/ SaveRestoreLater \/ CancelRestore \/ CollectorStarts \/ CollectorStops \/ BaseStarts \/ BaseEnds
         \/ BaseAfterRecovery \/ Stop \/ Deadline \/ CleanupInterrupted \/ ResumeInterrupted \/ MarkInterrupted
         \/ ListStreams \/ EnableInShutdown \/ EnableAgain \/ BaseTimesOut
  PROVE  DataCalm
<1>1. ASSUME NEW d \in Databases, NEW inPlace \in BOOLEAN, StartRestore(d, inPlace) PROVE DataCalm
  BY <1>1 DEF TypeOK, DataCalm, StartRestore, data
<1>2. ASSUME NEW d \in Databases, CloneChanges(d) PROVE DataCalm
  BY <1>2 DEF TypeOK, DataCalm, CloneChanges, Happens, data
<1>3. CASE CheckFails
  BY <1>3 DEF TypeOK, DataCalm, CheckFails, CtxDone, Happens, End, FailStatus, data
<1>4. CASE RestoreBase
  BY <1>4 DEF TypeOK, DataCalm, RestoreBase, data
<1>5. CASE BaseRestored
  BY <1>5 DEF TypeOK, DataCalm, BaseRestored, data
<1>6. CASE PassFails
  BY <1>6 DEF TypeOK, DataCalm, PassFails, CtxDone, DropClones, Dropped, Happens, End, FailStatus, data
<1>7. CASE KeptForInspection
  BY <1>7 DEF TypeOK, DataCalm, KeptForInspection, Happens, End, data
<1>8. CASE Replayed
  BY <1>8 DEF TypeOK, DataCalm, Replayed, data
<1>9. CASE PostFails
  BY <1>9 DEF TypeOK, DataCalm, PostFails, Happens, End, data
<1>10. CASE ClonesComplete
  BY <1>10 DEF TypeOK, DataCalm, ClonesComplete, End, data
<1>11. CASE SnapshotClones
  BY <1>11 DEF TypeOK, DataCalm, SnapshotClones, SaveInPlace, data
<1>12. CASE SnapshotFails
  BY <1>12 DEF TypeOK, DataCalm, SnapshotFails, NotSwapped, DropClones, Dropped, Happens, End, data
<1>13. CASE SafetyFails
  BY <1>13 DEF TypeOK, DataCalm, SafetyFails, NotSwapped, DropClones, Dropped, Happens, End, data
<1>14. CASE DisableStream
  BY <1>14 DEF TypeOK, DataCalm, DisableStream, data
<1>15. CASE EndChain
  BY <1>15 DEF TypeOK, DataCalm, EndChain, data
<1>16. CASE PauseFails
  BY <1>16 DEF TypeOK, DataCalm, PauseFails, Happens, data
<1>17. CASE BeginSwap
  BY <1>17 DEF TypeOK, DataCalm, BeginSwap, SaveInPlace, data
<1>18. CASE SwapFails
  BY <1>18 DEF TypeOK, DataCalm, SwapFails, Happens, data
<1>19. CASE ClonesAfterSwap
  BY <1>19 DEF TypeOK, DataCalm, ClonesAfterSwap, DropClones, Dropped, Happens, data
<1>20. CASE EnableStream
  BY <1>20 DEF TypeOK, DataCalm, EnableStream, Happens, Pasts, data
<1>21. CASE StreamResumed
  BY <1>21 DEF TypeOK, DataCalm, StreamResumed, StartBase, data
<1>22. CASE ResumeTimesOut
  BY <1>22 DEF TypeOK, DataCalm, ResumeTimesOut, Happens, Pasts, data
<1>23. CASE Settle
  BY <1>23 DEF TypeOK, DataCalm, Settle, NotSwapped, DropClones, Dropped, Happens, End, data
<1>24. CASE FinishRestore
  BY <1>24 DEF TypeOK, DataCalm, FinishRestore, Save, data
<1>25. CASE FinishUnsaved
  BY <1>25, LaterEnabled DEF DataCalm, FinishUnsaved
<1>26. CASE Release
  BY <1>26 DEF TypeOK, DataCalm, Release, data
<1>27. CASE SaveDeferred
  BY <1>27 DEF TypeOK, DataCalm, SaveDeferred, Save, data
<1>28. CASE Refused
  BY <1>28 DEF TypeOK, DataCalm, Refused, Happens, BkEnd, FailStatus, data
<1>29. CASE ToolFails
  BY <1>29 DEF TypeOK, DataCalm, ToolFails, DropClone, BkEnd, Happens, FailStatus, data
<1>30. CASE Checked
  BY <1>30 DEF TypeOK, DataCalm, Checked, DropClone, BkEnd, Happens, FailStatus, data
<1>31. CASE PostRestore
  BY <1>31 DEF TypeOK, DataCalm, PostRestore, BkEnd, Happens, data
<1>32. CASE SaveRestore
  BY <1>32 DEF TypeOK, DataCalm, SaveRestore, Happens, data
<1>33. CASE SaveRestoreLater
  BY <1>33 DEF TypeOK, DataCalm, SaveRestoreLater, data
<1>34. CASE CancelRestore
  BY <1>34 DEF TypeOK, DataCalm, CancelRestore, Happens, data
<1>35. CASE CollectorStarts
  BY <1>35 DEF TypeOK, DataCalm, CollectorStarts, data
<1>36. CASE CollectorStops
  BY <1>36 DEF TypeOK, DataCalm, CollectorStops, data
<1>37. CASE BaseStarts
  BY <1>37 DEF TypeOK, DataCalm, BaseStarts, StartBase, data
<1>38. CASE BaseEnds
  BY <1>38 DEF TypeOK, DataCalm, BaseEnds, data
<1>39. CASE BaseAfterRecovery
  BY <1>39 DEF TypeOK, DataCalm, BaseAfterRecovery, data
<1>40. CASE Stop
  BY <1>40 DEF TypeOK, DataCalm, Stop, Pasts
<1>41. CASE Deadline
  BY <1>41 DEF TypeOK, DataCalm, Deadline, data
<1>42. CASE CleanupInterrupted
  BY <1>42 DEF TypeOK, DataCalm, CleanupInterrupted, data
<1>43. CASE ResumeInterrupted
  BY <1>43, LaterEnabled DEF DataCalm, ResumeInterrupted
<1>44. CASE MarkInterrupted
  BY <1>44 DEF TypeOK, DataCalm, MarkInterrupted, Save, data
<1>45. CASE ListStreams \/ EnableInShutdown \/ EnableAgain \/ BaseTimesOut
  BY <1>45 DEF TypeOK, DataCalm, Pasts, ListStreams, EnableInShutdown, EnableAgain, BaseTimesOut, data
<1> QED
  BY <1>1, <1>2, <1>3, <1>4, <1>5, <1>6, <1>7, <1>8, <1>9, <1>10, <1>11, <1>12, <1>13, <1>14, <1>15, <1>16, <1>17, <1>18,
     <1>19, <1>20, <1>21, <1>22, <1>23, <1>24, <1>25, <1>26, <1>27, <1>28, <1>29, <1>30, <1>31, <1>32, <1>33, <1>34, <1>35,
     <1>36, <1>37, <1>38, <1>39, <1>40, <1>41, <1>42, <1>43, <1>44, <1>45

\* ... goes along an edge ...
LEMMA RunCalms ==
  ASSUME TypeOK, LifeInv,
         \/ (\E d \in Databases, inPlace \in BOOLEAN : StartRestore(d, inPlace)) \/ (\E d \in Databases : CloneChanges(d))
         \/ CheckFails \/ RestoreBase \/ BaseRestored \/ PassFails \/ KeptForInspection \/ Replayed \/ PostFails
         \/ ClonesComplete \/ SnapshotClones \/ SnapshotFails \/ SafetyFails \/ DisableStream \/ EndChain \/ PauseFails
         \/ BeginSwap \/ SwapFails \/ ClonesAfterSwap \/ EnableStream \/ StreamResumed \/ ResumeTimesOut \/ Settle
         \/ FinishRestore \/ FinishUnsaved \/ Release \/ SaveDeferred \/ Refused \/ ToolFails \/ Checked \/ PostRestore
         \/ SaveRestore \/ SaveRestoreLater \/ CancelRestore \/ CollectorStarts \/ CollectorStops \/ BaseStarts \/ BaseEnds
         \/ BaseAfterRecovery \/ Stop \/ Deadline \/ CleanupInterrupted \/ ResumeInterrupted \/ MarkInterrupted
         \/ ListStreams \/ EnableInShutdown \/ EnableAgain \/ BaseTimesOut
  PROVE  RunCalm
<1>1. ASSUME NEW d \in Databases, NEW inPlace \in BOOLEAN, StartRestore(d, inPlace) PROVE RunCalm
  BY <1>1 DEF TypeOK, RunCalm, StartRestore, DataEdges, Edges, data
<1>2. ASSUME NEW d \in Databases, CloneChanges(d) PROVE RunCalm
  BY <1>2 DEF TypeOK, RunCalm, CloneChanges, Happens, Lives, DataEdges, Edges, data
<1>3. CASE CheckFails
  BY <1>3 DEF TypeOK, RunCalm, CheckFails, CtxDone, Happens, End, FailStatus, Goroutines, Lives, DataEdges, Edges, data
<1>4. CASE RestoreBase
  BY <1>4 DEF TypeOK, RunCalm, RestoreBase, Goroutines, DataEdges, Edges, data
<1>5. CASE BaseRestored
  BY <1>5 DEF TypeOK, RunCalm, BaseRestored, Goroutines, DataEdges, Edges, data
<1>6. CASE PassFails
  BY <1>6 DEF TypeOK, RunCalm, PassFails, CtxDone, DropClones, Dropped, Happens, End, FailStatus, Goroutines, Lives,
     DataEdges, Edges, data
<1>7. CASE KeptForInspection
  BY <1>7 DEF TypeOK, RunCalm, KeptForInspection, Happens, End, Goroutines, Lives, DataEdges, Edges, data
<1>8. CASE Replayed
  BY <1>8 DEF TypeOK, RunCalm, Replayed, Goroutines, DataEdges, Edges, data
<1>9. CASE PostFails
  BY <1>9 DEF TypeOK, RunCalm, PostFails, Happens, End, Goroutines, Lives, DataEdges, Edges, data
<1>10. CASE ClonesComplete
  BY <1>10 DEF TypeOK, RunCalm, ClonesComplete, End, Goroutines, DataEdges, Edges, data
<1>11. CASE SnapshotClones
  BY <1>11 DEF TypeOK, RunCalm, SnapshotClones, SaveInPlace, Goroutines, DataEdges, Edges, data
<1>12. CASE SnapshotFails
  BY <1>12 DEF TypeOK, RunCalm, SnapshotFails, NotSwapped, DropClones, Dropped, Happens, End, Goroutines, Lives, DataEdges,
     Edges, data
<1>13. CASE SafetyFails
  BY <1>13 DEF TypeOK, RunCalm, SafetyFails, NotSwapped, DropClones, Dropped, Happens, End, Goroutines, Lives, DataEdges,
     Edges, data
<1>14. CASE DisableStream
  BY <1>14 DEF TypeOK, RunCalm, DisableStream, Goroutines, DataEdges, Edges, data
<1>15. CASE EndChain
  BY <1>15 DEF TypeOK, RunCalm, EndChain, Goroutines, DataEdges, Edges, data
<1>16. CASE PauseFails
  BY <1>16 DEF TypeOK, RunCalm, PauseFails, Happens, Goroutines, Lives, DataEdges, Edges, data
<1>17. CASE BeginSwap
  BY <1>17 DEF TypeOK, RunCalm, BeginSwap, SaveInPlace, Goroutines, DataEdges, Edges, data
<1>18. CASE SwapFails
  BY <1>18 DEF TypeOK, RunCalm, SwapFails, Happens, Goroutines, Lives, DataEdges, Edges, data
<1>19. CASE ClonesAfterSwap
  BY <1>19 DEF TypeOK, RunCalm, ClonesAfterSwap, DropClones, Dropped, Happens, Goroutines, Lives, DataEdges, Edges, data
<1>20. CASE EnableStream
  BY <1>20 DEF TypeOK, RunCalm, EnableStream, Happens, Goroutines, Lives, DataEdges, Edges, data
<1>21. CASE StreamResumed
  BY <1>21 DEF TypeOK, RunCalm, StreamResumed, StartBase, Goroutines, DataEdges, Edges, data
<1>22. CASE ResumeTimesOut
  BY <1>22 DEF TypeOK, RunCalm, ResumeTimesOut, Happens, Goroutines, Lives, DataEdges, Edges, data
<1>23. CASE Settle
  BY <1>23 DEF TypeOK, RunCalm, Settle, NotSwapped, DropClones, Dropped, Happens, End, Goroutines, Lives, DataEdges, Edges, data
<1>24. CASE FinishRestore
  BY <1>24 DEF TypeOK, RunCalm, FinishRestore, Save, Goroutines, DataEdges, Edges, data
<1>25. CASE FinishUnsaved
  BY <1>25 DEF TypeOK, RunCalm, FinishUnsaved, Dropped, Happens, Goroutines, Lives, DataEdges, Edges, data
<1>26. CASE Release
  BY <1>26 DEF TypeOK, RunCalm, Release, Goroutines, DataEdges, Edges, data
<1>27. CASE SaveDeferred
  BY <1>27 DEF TypeOK, RunCalm, SaveDeferred, Save, Goroutines, DataEdges, Edges, data
<1>28. CASE Refused
  BY <1>28 DEF TypeOK, RunCalm, Refused, Happens, BkEnd, FailStatus, Lives, DataEdges, Edges, data
<1>29. CASE ToolFails
  BY <1>29 DEF TypeOK, RunCalm, ToolFails, DropClone, BkEnd, Happens, FailStatus, Lives, DataEdges, Edges, data
<1>30. CASE Checked
  BY <1>30 DEF TypeOK, RunCalm, Checked, DropClone, BkEnd, Happens, FailStatus, Lives, DataEdges, Edges, data
<1>31. CASE PostRestore
  BY <1>31 DEF TypeOK, RunCalm, PostRestore, BkEnd, Happens, Lives, DataEdges, Edges, data
<1>32. CASE SaveRestore
  BY <1>32 DEF TypeOK, RunCalm, SaveRestore, Happens, Lives, DataEdges, Edges, data
<1>33. CASE SaveRestoreLater
  BY <1>33 DEF TypeOK, RunCalm, SaveRestoreLater, DataEdges, Edges, data
<1>34. CASE CancelRestore
  BY <1>34 DEF TypeOK, RunCalm, CancelRestore, Happens, Goroutines, Lives, DataEdges, Edges, data
<1>35. CASE CollectorStarts
  BY <1>35 DEF TypeOK, RunCalm, CollectorStarts, DataEdges, Edges, data
<1>36. CASE CollectorStops
  BY <1>36 DEF TypeOK, RunCalm, CollectorStops, DataEdges, Edges, data
<1>37. CASE BaseStarts
  BY <1>37 DEF TypeOK, RunCalm, BaseStarts, StartBase, DataEdges, Edges, data
<1>38. CASE BaseEnds
  BY <1>38 DEF TypeOK, RunCalm, BaseEnds, DataEdges, Edges, data
<1>39. CASE BaseAfterRecovery
  BY <1>39 DEF TypeOK, RunCalm, BaseAfterRecovery, DataEdges, Edges, data
<1>40. CASE Stop
  BY <1>40 DEF TypeOK, RunCalm, Stop, Goroutines, Lives, DataEdges, Edges, data
<1>41. CASE Deadline
  BY <1>41 DEF TypeOK, RunCalm, Deadline, Lives, DataEdges, Edges, data
<1>42. CASE CleanupInterrupted
  BY <1>42 DEF TypeOK, RunCalm, CleanupInterrupted, Lives, DataEdges, Edges, data
<1>43. CASE ResumeInterrupted
  BY <1>43 DEF TypeOK, RunCalm, ResumeInterrupted, Lives, DataEdges, Edges, data
<1>44. CASE MarkInterrupted
  BY <1>44 DEF TypeOK, RunCalm, MarkInterrupted, Save, Lives, DataEdges, Edges, data
<1>45. CASE ListStreams \/ EnableAgain \/ BaseTimesOut
  <2>1. UNCHANGED p /\ (life' = life \/ Happens)
    BY <1>45 DEF ListStreams, EnableAgain, BaseTimesOut
  <2> QED
    BY <2>1 DEF TypeOK, RunCalm, Happens, Lives
<1>46. CASE EnableInShutdown
  <2>1. p.pc = "resume" /\ p'.pc = "settle" /\ p'.after = p.after
    BY <1>46 DEF EnableInShutdown, TypeOK, Goroutines
  <2>2. life'.state = life.state
    BY <1>46 DEF EnableInShutdown, Happens, TypeOK, Lives
  <2> QED
    BY <2>1, <2>2 DEF RunCalm, DataEdges, Edges
<1> QED
  BY <1>1, <1>2, <1>3, <1>4, <1>5, <1>6, <1>7, <1>8, <1>9, <1>10, <1>11, <1>12, <1>13, <1>14, <1>15, <1>16, <1>17, <1>18,
     <1>19, <1>20, <1>21, <1>22, <1>23, <1>24, <1>25, <1>26, <1>27, <1>28, <1>29, <1>30, <1>31, <1>32, <1>33, <1>34, <1>35,
     <1>36, <1>37, <1>38, <1>39, <1>40, <1>41, <1>42, <1>43, <1>44, <1>45, <1>46

\* ... and leaves what was swapped as it is.
LEMMA RecCalms ==
  ASSUME TypeOK, LifeInv, DataInv,
         \/ (\E d \in Databases, inPlace \in BOOLEAN : StartRestore(d, inPlace)) \/ (\E d \in Databases : CloneChanges(d))
         \/ CheckFails \/ RestoreBase \/ BaseRestored \/ PassFails \/ KeptForInspection \/ Replayed \/ PostFails
         \/ ClonesComplete \/ SnapshotClones \/ SnapshotFails \/ SafetyFails \/ DisableStream \/ EndChain \/ PauseFails
         \/ BeginSwap \/ SwapFails \/ ClonesAfterSwap \/ EnableStream \/ StreamResumed \/ ResumeTimesOut \/ Settle
         \/ FinishRestore \/ FinishUnsaved \/ Release \/ SaveDeferred \/ Refused \/ ToolFails \/ Checked \/ PostRestore
         \/ SaveRestore \/ SaveRestoreLater \/ CancelRestore \/ CollectorStarts \/ CollectorStops \/ BaseStarts \/ BaseEnds
         \/ BaseAfterRecovery \/ Stop \/ Deadline \/ CleanupInterrupted \/ ResumeInterrupted \/ MarkInterrupted
         \/ ListStreams \/ EnableInShutdown \/ EnableAgain \/ BaseTimesOut
  PROVE  RecCalm
<1>1. ASSUME NEW d \in Databases, NEW inPlace \in BOOLEAN, StartRestore(d, inPlace) PROVE RecCalm
  BY <1>1 DEF TypeOK, RecCalm, StartRestore, Interrupted, LifeInv, DataInv, RunInv, NoRun, Alive, Final, data
<1>2. ASSUME NEW d \in Databases, CloneChanges(d) PROVE RecCalm
  BY <1>2 DEF TypeOK, RecCalm, CloneChanges, Happens, Interrupted, LifeInv, DataInv, RunInv, NoRun, Alive, Final, data
<1>3. CASE CheckFails
  BY <1>3 DEF TypeOK, RecCalm, CheckFails, CtxDone, Happens, End, FailStatus, Records, Interrupted, LifeInv, DataInv, RunInv,
     NoRun, Alive, Final, data
<1>4. CASE RestoreBase
  BY <1>4 DEF TypeOK, RecCalm, RestoreBase, Interrupted, LifeInv, DataInv, RunInv, NoRun, Alive, Final, data
<1>5. CASE BaseRestored
  BY <1>5 DEF TypeOK, RecCalm, BaseRestored, Interrupted, LifeInv, DataInv, RunInv, NoRun, Alive, Final, data
<1>6. CASE PassFails
  <2>1. p.pc # "idle" /\ UNCHANGED stored /\ \E s \in Final : \E a, c : End(s, a, c)
    BY <1>6 DEF PassFails, FailStatus, Final
  <2> QED
    BY <2>1 DEF TypeOK, Records, RecCalm, End, Final
<1>7. CASE KeptForInspection
  BY <1>7 DEF TypeOK, RecCalm, KeptForInspection, Happens, End, Records, Interrupted, LifeInv, DataInv, RunInv, NoRun, Alive,
     Final, data
<1>8. CASE Replayed
  BY <1>8 DEF TypeOK, RecCalm, Replayed, Interrupted, LifeInv, DataInv, RunInv, NoRun, Alive, Final, data
<1>9. CASE PostFails
  BY <1>9 DEF TypeOK, RecCalm, PostFails, Happens, End, Records, Interrupted, LifeInv, DataInv, RunInv, NoRun, Alive,
     Final, data
<1>10. CASE ClonesComplete
  BY ZenonT(60), <1>10 DEF TypeOK, RecCalm, ClonesComplete, End, Records, Interrupted, LifeInv, DataInv, RunInv,
     NoRun, Alive, Final, data
<1>11. CASE SnapshotClones
  BY <1>11 DEF TypeOK, RecCalm, SnapshotClones, SaveInPlace, Records, Interrupted, LifeInv, DataInv, RunInv, NoRun, Alive,
     Final, data
<1>12. CASE SnapshotFails
  BY <1>12 DEF TypeOK, RecCalm, SnapshotFails, NotSwapped, DropClones, Dropped, Happens, End, Records, Interrupted, LifeInv,
     DataInv, RunInv, NoRun, Alive, Final, data
<1>13. CASE SafetyFails
  BY <1>13 DEF TypeOK, RecCalm, SafetyFails, NotSwapped, DropClones, Dropped, Happens, End, Records, Interrupted, LifeInv,
     DataInv, RunInv, NoRun, Alive, Final, data
<1>14. CASE DisableStream
  BY <1>14 DEF TypeOK, RecCalm, DisableStream, Interrupted, LifeInv, DataInv, RunInv, NoRun, Alive, Final, data
<1>15. CASE EndChain
  BY <1>15 DEF TypeOK, RecCalm, EndChain, Interrupted, LifeInv, DataInv, RunInv, NoRun, Alive, Final, data
<1>16. CASE PauseFails
  BY <1>16 DEF TypeOK, RecCalm, PauseFails, Happens, Interrupted, LifeInv, DataInv, RunInv, NoRun, Alive, Final, data
<1>17. CASE BeginSwap
  BY <1>17 DEF TypeOK, RecCalm, BeginSwap, SaveInPlace, Records, Interrupted, LifeInv, DataInv, RunInv, NoRun, Alive,
     Final, data
<1>18. CASE SwapFails
  BY <1>18 DEF TypeOK, RecCalm, SwapFails, Happens, Records, Interrupted, LifeInv, DataInv, RunInv, NoRun, Alive, Final, data
<1>19. CASE ClonesAfterSwap
  BY <1>19 DEF TypeOK, RecCalm, ClonesAfterSwap, DropClones, Dropped, Happens, Records, Interrupted, LifeInv, DataInv,
     RunInv, NoRun, Alive, Final, data
<1>20. CASE EnableStream
  BY <1>20 DEF TypeOK, RecCalm, EnableStream, Happens, Interrupted, LifeInv, DataInv, RunInv, NoRun, Alive, Final, data
<1>21. CASE StreamResumed
  BY <1>21 DEF TypeOK, RecCalm, StreamResumed, StartBase, Records, Interrupted, LifeInv, DataInv, RunInv, NoRun, Alive,
     Final, data
<1>22. CASE ResumeTimesOut
  BY <1>22 DEF TypeOK, RecCalm, ResumeTimesOut, Happens, Interrupted, LifeInv, DataInv, RunInv, NoRun, Alive, Final, data
<1>23. CASE Settle
  <2>1. p.pc # "idle" /\ UNCHANGED stored /\ \E s \in Final : \E a, c : End(s, a, c)
    BY <1>23 DEF Settle, NotSwapped, Final
  <2> QED
    BY <2>1 DEF TypeOK, Records, RecCalm, End, Final
<1>24. CASE FinishRestore
  BY <1>24 DEF TypeOK, RecCalm, FinishRestore, Save, Records, Interrupted, LifeInv, DataInv, RunInv, NoRun, Alive, Final, data
<1>25. CASE FinishUnsaved
  <2>1. p.pc = "final" /\ UNCHANGED stored
        /\ (rec' = rec \/ \E c : rec' = [rec EXCEPT !.status = IF @ = "cancelled" THEN @ ELSE "failed", !.clones = c])
    BY <1>25 DEF FinishUnsaved
  <2> QED
    BY <2>1 DEF TypeOK, Records, RecCalm, DataInv, RunInv
<1>26. CASE Release
  BY <1>26 DEF TypeOK, RecCalm, Release, Interrupted, LifeInv, DataInv, RunInv, NoRun, Alive, Final, data
<1>27. CASE SaveDeferred
  BY <1>27 DEF TypeOK, RecCalm, SaveDeferred, Save, Records, Interrupted, LifeInv, DataInv, RunInv, NoRun, Alive, Final, data
<1>28. CASE Refused
  BY <1>28 DEF TypeOK, RecCalm, Refused, Happens, BkEnd, FailStatus, Interrupted, LifeInv, DataInv, RunInv, NoRun, Alive,
     Final, data
<1>29. CASE ToolFails
  BY <1>29 DEF TypeOK, RecCalm, ToolFails, DropClone, BkEnd, Happens, FailStatus, Interrupted, LifeInv, DataInv, RunInv,
     NoRun, Alive, Final, data
<1>30. CASE Checked
  BY <1>30 DEF TypeOK, RecCalm, Checked, DropClone, BkEnd, Happens, FailStatus, Interrupted, LifeInv, DataInv, RunInv, NoRun,
     Alive, Final, data
<1>31. CASE PostRestore
  BY <1>31 DEF TypeOK, RecCalm, PostRestore, BkEnd, Happens, Interrupted, LifeInv, DataInv, RunInv, NoRun, Alive, Final, data
<1>32. CASE SaveRestore
  BY <1>32 DEF TypeOK, RecCalm, SaveRestore, Happens, Interrupted, LifeInv, DataInv, RunInv, NoRun, Alive, Final, data
<1>33. CASE SaveRestoreLater
  BY <1>33 DEF TypeOK, RecCalm, SaveRestoreLater, Interrupted, LifeInv, DataInv, RunInv, NoRun, Alive, Final, data
<1>34. CASE CancelRestore
  BY <1>34 DEF TypeOK, RecCalm, CancelRestore, Happens, Interrupted, LifeInv, DataInv, RunInv, NoRun, Alive, Final, data
<1>35. CASE CollectorStarts
  BY <1>35 DEF TypeOK, RecCalm, CollectorStarts, Interrupted, LifeInv, DataInv, RunInv, NoRun, Alive, Final, data
<1>36. CASE CollectorStops
  BY <1>36 DEF TypeOK, RecCalm, CollectorStops, Interrupted, LifeInv, DataInv, RunInv, NoRun, Alive, Final, data
<1>37. CASE BaseStarts
  BY <1>37 DEF TypeOK, RecCalm, BaseStarts, StartBase, Interrupted, LifeInv, DataInv, RunInv, NoRun, Alive, Final, data
<1>38. CASE BaseEnds
  BY <1>38 DEF TypeOK, RecCalm, BaseEnds, Interrupted, LifeInv, DataInv, RunInv, NoRun, Alive, Final, data
<1>39. CASE BaseAfterRecovery
  BY <1>39 DEF TypeOK, RecCalm, BaseAfterRecovery, Interrupted, LifeInv, DataInv, RunInv, NoRun, Alive, Final, data
<1>40. CASE Stop
  BY <1>40 DEF TypeOK, RecCalm, Stop, Interrupted, LifeInv, DataInv, RunInv, NoRun, Alive, Final, data
<1>41. CASE Deadline
  BY <1>41 DEF TypeOK, RecCalm, Deadline, Interrupted, LifeInv, DataInv, RunInv, NoRun, Alive, Final, data
<1>42. CASE CleanupInterrupted
  <2>1. UNCHANGED stored /\ (rec' = rec \/ \E a, c : rec' = [rec EXCEPT !.claim = a, !.clones = c])
    BY <1>42 DEF CleanupInterrupted
  <2> QED
    BY <2>1 DEF TypeOK, Records, RecCalm
<1>43. CASE ResumeInterrupted
  BY <1>43 DEF TypeOK, RecCalm, ResumeInterrupted, Interrupted, LifeInv, DataInv, RunInv, NoRun, Alive, Final, data
<1>44. CASE MarkInterrupted
  BY <1>44 DEF TypeOK, RecCalm, MarkInterrupted, Save, Records, Interrupted, LifeInv, DataInv, RunInv, NoRun, Alive, Final, data
<1>45. CASE ListStreams \/ EnableAgain \/ BaseTimesOut
  BY <1>45 DEF RecCalm, ListStreams, EnableAgain, BaseTimesOut
<1>46. CASE EnableInShutdown
  BY <1>46 DEF TypeOK, Records, RecCalm, EnableInShutdown
<1> QED
  BY <1>1, <1>2, <1>3, <1>4, <1>5, <1>6, <1>7, <1>8, <1>9, <1>10, <1>11, <1>12, <1>13, <1>14, <1>15, <1>16, <1>17, <1>18,
     <1>19, <1>20, <1>21, <1>22, <1>23, <1>24, <1>25, <1>26, <1>27, <1>28, <1>29, <1>30, <1>31, <1>32, <1>33, <1>34, <1>35,
     <1>36, <1>37, <1>38, <1>39, <1>40, <1>41, <1>42, <1>43, <1>44, <1>45, <1>46

\* Every step preserves RunInv.
LEMMA RunInvNext ==
  ASSUME TypeOK, TypeOK', LifeInv, KeysInv, DataInv, Next
  PROVE  RunInv'
<1> USE DEF DataInv, RunInv
<1>1. ASSUME DataCalm, RunCalm, RecCalm PROVE RunInv'
  <2>1. \A d \in Databases : Reached(d)' <=> Reached(d)
    BY <1>1 DEF DataCalm, Reached
  <2> QED
    BY <1>1, <2>1 DEF DataCalm, RunCalm, RecCalm, DataEdges, Edges
<1>2. ASSUME NEW inPlace \in BOOLEAN, NEW keep \in BOOLEAN, StartPITR(inPlace, keep) PROVE RunInv'
  BY <1>2, StartsPITR, ReachedSame
<1>3. CASE SafetyBackup
  BY <1>3, SafetyBacked, ReachedSame
<1>4. CASE PreparePause
  BY <1>4, PausePrepared, ReachedSame
<1>5. CASE BeginCopy
  BY <1>5, CopyBegun, ReachedSame
<1>6. CASE CopyEnds
  BY <1>6, CopyEnded, ReachedSame
<1>7. CASE DropExtras
  BY <1>7, ExtrasDropped, ReachedSame
<1>8. CASE Swapped
  BY <1>8, OneSwapped, ReachedSame
<1>9. CASE SwapDone
  BY <1>9, AllSwapped, ReachedSame
<1>10. CASE Mongorestore \/ ToolDone
  BY <1>10, BackupWritten, ReachedSame
<1>11. CASE Exit \/ ExitAnyway \/ Crash
  BY <1>11, ProcessLost, ReachedSame DEF NoRun, NoRec
<1>12. CASE OrphanEnds
  BY <1>12, OrphanEnded, ReachedSame
<1>13. CASE Start
  BY <1>13, Started, ReachedSame DEF NoRun
<1> QED
  BY <1>1, <1>2, <1>3, <1>4, <1>5, <1>6, <1>7, <1>8, <1>9, <1>10, <1>11, <1>12, <1>13, DataCalms, RunCalms,
     RecCalms DEF Next, PITRStep, BackupStep, Collector, Base, ResumingStep, Recovery, ShutdownStep

\* Every step preserves UntouchedInv.
LEMMA UntouchedInvNext ==
  ASSUME TypeOK, TypeOK', LifeInv, KeysInv, DataInv, Next
  PROVE  UntouchedInv'
<1> USE DEF DataInv, RunInv, UntouchedInv, Before
<1>1. ASSUME DataCalm, RunCalm, RecCalm PROVE UntouchedInv'
  <2>1. \A d \in Databases : Reached(d)' <=> Reached(d)
    BY <1>1 DEF DataCalm, Reached
  <2> QED
    BY <1>1, <2>1 DEF DataCalm, RunCalm, RecCalm, DataEdges, Edges
<1>2. ASSUME NEW inPlace \in BOOLEAN, NEW keep \in BOOLEAN, StartPITR(inPlace, keep) PROVE UntouchedInv'
  BY <1>2, StartsPITR, ReachedSame
<1>3. CASE SafetyBackup
  BY <1>3, SafetyBacked, ReachedSame
<1>4. CASE PreparePause
  BY <1>4, PausePrepared, ReachedSame
<1>5. CASE BeginCopy
  <2>1. rec.inPlace /\ p.after = "none"
    BY <1>5, CopyBegun DEF LifeInv, InPlaceOnly, Pausing, Swapping
  <2> QED
    BY <1>5, <2>1, CopyBegun
<1>6. CASE CopyEnds
  BY <1>6, CopyEnded, ReachedSame
<1>7. CASE DropExtras
  BY <1>7, ExtrasDropped, ReachedSame
<1>8. CASE Swapped
  BY <1>8, OneSwapped, ReachedSame
<1>9. CASE SwapDone
  BY <1>9, AllSwapped, ReachedSame
<1>10. CASE Mongorestore \/ ToolDone
  BY <1>10, BackupWritten, ReachedSame
<1>11. CASE Exit \/ ExitAnyway \/ Crash
  BY <1>11, ProcessLost, ReachedSame DEF NoRun, NoRec
<1>12. CASE OrphanEnds
  BY <1>12, OrphanEnded, ReachedSame
<1>13. CASE Start
  BY <1>13, Started, ReachedSame DEF NoRun
<1> QED
  BY <1>1, <1>2, <1>3, <1>4, <1>5, <1>6, <1>7, <1>8, <1>9, <1>10, <1>11, <1>12, <1>13, DataCalms, RunCalms,
     RecCalms DEF Next, PITRStep, BackupStep, Collector, Base, ResumingStep, Recovery, ShutdownStep

\* Every step preserves SafetyInv.
LEMMA SafetyInvNext ==
  ASSUME TypeOK, TypeOK', LifeInv, KeysInv, DataInv, Next
  PROVE  SafetyInv'
<1> USE DEF DataInv, SafetyInv, Swapping
<1>1. ASSUME DataCalm, RunCalm, RecCalm PROVE SafetyInv'
  <2>1. \A d \in Databases : Reached(d)' <=> Reached(d)
    BY <1>1 DEF DataCalm, Reached
  <2>2. /\ p'.pc \in {"pausing", "disabled", "paused"} \cup Swapping => p.pc \in {"pausing", "disabled", "paused"} \cup Swapping
        /\ p'.pc = "safety" => p.pc \in {"safety", "snapshot"}
    BY <1>1 DEF RunCalm, DataEdges, Edges
  <2> QED
    BY <1>1, <2>1, <2>2 DEF DataCalm, UntouchedInv
<1>2. ASSUME NEW inPlace \in BOOLEAN, NEW keep \in BOOLEAN, StartPITR(inPlace, keep) PROVE SafetyInv'
  BY <1>2, StartsPITR, ReachedSame
<1>3. CASE SafetyBackup
  <2>1. PICK m \in Databases : /\ p.pc = "safety" /\ safety[m] = "none" /\ safety' = [safety EXCEPT ![m] = db[m]]
                               /\ UNCHANGED <<db, past, p>>
    BY <1>3, SafetyBacked
  <2>2. \A d \in Databases : ~Reached(d) /\ ~Reached(d)'
    BY <2>1, ReachedSame DEF UntouchedInv, Before
  <2> QED
    BY <2>1, <2>2 DEF TypeOK
<1>4. CASE PreparePause
  BY <1>4, PausePrepared, ReachedSame
<1>5. CASE BeginCopy
  <2>1. /\ p.pc = "swap" /\ p'.pc = "copy" /\ Now \in Databases /\ db' = [db EXCEPT ![Now] = "part"]
        /\ past'.was = [past.was EXCEPT ![Now] = db[Now]] /\ UNCHANGED safety
    BY <1>5, CopyBegun
  <2>2. ~Reached(Now)
    BY <1>5, CopyBegun DEF SwapInv
  <2>3. safety[Now] = db[Now]
    BY <2>1, <2>2
  <2>4. \A d \in Databases : past'.was[d] = IF d = Now THEN db[Now] ELSE past.was[d]
    BY <2>1 DEF TypeOK, Pasts
  <2>5. \A d \in Databases : db'[d] = IF d = Now THEN "part" ELSE db[d]
    BY <2>1 DEF TypeOK
  <2>6. \A d \in Databases : Reached(d)' <=> Reached(d) \/ d = Now
    BY <2>1, <2>4 DEF Reached
  <2> QED
    BY <2>1, <2>2, <2>3, <2>4, <2>5, <2>6
<1>6. CASE CopyEnds
  <2>1. Now \in Databases /\ past'.was = past.was /\ UNCHANGED safety /\ p.pc \in Swapping /\ p'.pc \in Swapping
        /\ Reached(Now) /\ \E x \in {"copied", "new"} : db' = [db EXCEPT ![Now] = x]
    BY <1>6, CopyEnded DEF SwapInv
  <2>2. \A d \in Databases : Reached(d)' <=> Reached(d)
    BY <2>1, ReachedSame
  <2> QED
    BY <2>1, <2>2 DEF TypeOK
<1>7. CASE DropExtras
  <2>1. Now \in Databases /\ past'.was = past.was /\ UNCHANGED safety /\ p.pc \in Swapping /\ p'.pc \in Swapping
        /\ Reached(Now) /\ \E x \in {"copied", "new"} : db' = [db EXCEPT ![Now] = x]
    BY <1>7, ExtrasDropped DEF SwapInv
  <2>2. \A d \in Databases : Reached(d)' <=> Reached(d)
    BY <2>1, ReachedSame
  <2> QED
    BY <2>1, <2>2 DEF TypeOK
<1>8. CASE Swapped
  BY <1>8, OneSwapped, ReachedSame
<1>9. CASE SwapDone
  BY <1>9, AllSwapped, ReachedSame
<1>10. CASE Mongorestore \/ ToolDone
  <2>1. /\ db' = db \/ \E c \in {"part", "backup"}, d \in Databases : BkHolds(d) /\ db' = [db EXCEPT ![d] = c]
        /\ UNCHANGED <<safety, past, rec, p>>
    BY <1>10, BackupWritten
  <2>2. \A d \in Databases : Reached(d)' <=> Reached(d)
    BY <2>1, ReachedSame
  <2>3. p.pc \in {"safety", "pausing", "disabled", "paused"} \cup Swapping => HoldsRestores
    BY DEF LifeInv, InPlaceOnly, Pausing, HoldsRestores, Over
  <2>4. p.pc \in {"safety", "pausing", "disabled", "paused"} \cup Swapping => db' = db
    BY <2>1, <2>3 DEF KeysInv
  <2> QED
    BY <2>1, <2>2, <2>4 DEF TypeOK
<1>11. CASE Exit \/ ExitAnyway \/ Crash
  BY <1>11, ProcessLost, ReachedSame DEF NoRun, NoRec
<1>12. CASE OrphanEnds
  <2>1. /\ past.orphan \in Databases /\ past'.was = past.was /\ UNCHANGED <<safety, p>>
        /\ \E e \in {"copied", "part"} : db' = [db EXCEPT ![past.orphan] = e]
    BY <1>12, OrphanEnded
  <2>2. Reached(past.orphan)
    BY <2>1, InPlaceConstants DEF SwapInv
  <2>3. \A d \in Databases : Reached(d)' <=> Reached(d)
    BY <2>1, ReachedSame
  <2> QED
    BY <2>1, <2>2, <2>3 DEF TypeOK
<1>13. CASE Start
  BY <1>13, Started, ReachedSame DEF NoRun
<1> QED
  BY <1>1, <1>2, <1>3, <1>4, <1>5, <1>6, <1>7, <1>8, <1>9, <1>10, <1>11, <1>12, <1>13, DataCalms, RunCalms,
     RecCalms DEF Next, PITRStep, BackupStep, Collector, Base, ResumingStep, Recovery, ShutdownStep

\* Every step preserves SwapInv.
LEMMA SwapInvNext ==
  ASSUME TypeOK, TypeOK', LifeInv, KeysInv, DataInv, Next
  PROVE  SwapInv'
<1> USE DEF DataInv, SwapInv, Swapping
<1>1. ASSUME DataCalm, RunCalm, RecCalm PROVE SwapInv'
  <2>1. Left' = Left /\ Now' = Now
    BY <1>1 DEF RecCalm, Left, Now
  <2>2. \A d \in Databases : Reached(d)' <=> Reached(d)
    BY <1>1 DEF DataCalm, Reached
  <2>3. /\ p'.pc \in {"copy", "copied", "swapped", "clones"} => p'.pc = p.pc
        /\ p'.pc = "swap" => p.pc \in {"swap", "paused"}
    BY <1>1 DEF RunCalm, DataEdges, Edges
  <2>4. p.pc \in {"copy", "copied", "swapped"} => Now \in Databases
    BY NowLeft DEF LifeInv
  <2>5. p.pc = "paused" => rec.swapped = {} /\ \A d \in Databases : ~Reached(d)
    BY DEF UntouchedInv, Before
  <2>6. past.orphan # 0 => past.orphan \in Databases
    BY DEF TypeOK, Pasts
  <2>7. Left \subseteq Databases
    BY DEF Left
  <2> QED
    BY <1>1, <2>1, <2>2, <2>3, <2>4, <2>5, <2>6, <2>7 DEF DataCalm, RecCalm
<1>2. ASSUME NEW inPlace \in BOOLEAN, NEW keep \in BOOLEAN, StartPITR(inPlace, keep) PROVE SwapInv'
  <2>1. past'.was = past.was /\ past'.made = past.made /\ (past'.orphan = past.orphan \/ past'.orphan = 0)
        /\ p'.pc \notin Swapping \cup {"clones"}
    BY <1>2, StartsPITR
  <2>2. past.orphan # 0 => past.orphan \in Databases
    BY DEF TypeOK, Pasts
  <2> QED
    BY <2>1, <2>2, ReachedSame
<1>3. CASE SafetyBackup
  <2>1. past'.was = past.was /\ past'.made = past.made /\ (past'.orphan = past.orphan \/ past'.orphan = 0) /\ UNCHANGED <<p, rec>>
    BY <1>3, SafetyBacked
  <2>2. past.orphan # 0 => past.orphan \in Databases
    BY DEF TypeOK, Pasts
  <2>3. Left' = Left /\ Now' = Now /\ Left \subseteq Databases /\ (p.pc \in {"copy", "copied", "swapped"} => Now \in Databases)
    BY <2>1, NowLeft DEF Left, Now, LifeInv
  <2> QED
    BY <2>1, <2>2, <2>3, ReachedSame
<1>4. CASE PreparePause
  <2>1. past'.was = past.was /\ past'.made = past.made /\ (past'.orphan = past.orphan \/ past'.orphan = 0)
        /\ p'.pc \notin Swapping \cup {"clones"}
    BY <1>4, PausePrepared
  <2>2. past.orphan # 0 => past.orphan \in Databases
    BY DEF TypeOK, Pasts
  <2> QED
    BY <2>1, <2>2, ReachedSame
<1>5. CASE BeginCopy
  <2>1. /\ p.pc = "swap" /\ p'.pc = "copy" /\ Now \in Databases /\ Now \in Left /\ Left' = Left /\ Now' = Now
        /\ past'.was = [past.was EXCEPT ![Now] = db[Now]] /\ past'.made = past.made /\ past'.orphan = past.orphan /\ UNCHANGED rec
    BY <1>5, CopyBegun
  <2>2. \A d \in Databases : past'.was[d] = IF d = Now THEN db[Now] ELSE past.was[d]
    BY <2>1 DEF TypeOK, Pasts
  <2>3. \A d \in Databases : Reached(d)' <=> Reached(d) \/ d = Now
    BY <2>1, <2>2 DEF Reached, SafetyInv
  <2>4. past.orphan # 0 => past.orphan \in Databases
    BY DEF TypeOK, Pasts
  <2>5. Left \subseteq Databases
    BY DEF Left
  <2> QED
    BY <2>1, <2>3, <2>4, <2>5
<1>6. CASE CopyEnds
  <2>1. /\ p.pc = "copy" /\ p'.pc = "copied" /\ Now \in Databases /\ Now \in Left /\ Left' = Left /\ Now' = Now
        /\ past' = past /\ UNCHANGED rec
    BY <1>6, CopyEnded
  <2>2. Left \subseteq Databases /\ (past.orphan # 0 => past.orphan \in Databases)
    BY DEF Left, TypeOK, Pasts
  <2>3. \A d \in Databases : Reached(d)' <=> Reached(d)
    BY <2>1, ReachedSame
  <2> QED
    BY <2>1, <2>2, <2>3
<1>7. CASE DropExtras
  <2>1. /\ p.pc = "copied" /\ p'.pc = "swapped" /\ Now \in Databases /\ Now \in Left /\ Left' = Left /\ Now' = Now
        /\ past'.was = past.was /\ past'.made = past.made \cup {Now} /\ past'.orphan = past.orphan /\ UNCHANGED rec
    BY <1>7, ExtrasDropped
  <2>2. Left \subseteq Databases /\ (past.orphan # 0 => past.orphan \in Databases)
    BY DEF Left, TypeOK, Pasts
  <2>3. \A d \in Databases : Reached(d)' <=> Reached(d)
    BY <2>1, ReachedSame
  <2> QED
    BY <2>1, <2>2, <2>3
<1>8. CASE Swapped
  <2>1. /\ p.pc = "swapped" /\ p'.pc = "swap" /\ Now \in Databases /\ Now \in Left /\ Left' = Left \ {Now}
        /\ past' = past /\ rec'.swapped = rec.swapped \cup {Now}
    BY <1>8, OneSwapped
  <2>2. Left \subseteq Databases /\ (past.orphan # 0 => past.orphan \in Databases)
    BY DEF Left, TypeOK, Pasts
  <2>3. \A d \in Databases : Reached(d)' <=> Reached(d)
    BY <2>1, ReachedSame
  <2>4. \A d \in Left : Reached(d) => d = Now
    BY <2>1
  <2>5. Now \in past.made /\ rec.swapped \subseteq past.made
    BY <2>1
  <2> QED
    BY <2>1, <2>2, <2>3, <2>4, <2>5
<1>9. CASE SwapDone
  <2>1. p.pc = "swap" /\ p'.pc = "clones" /\ Databases \subseteq rec.swapped /\ past' = past
    BY <1>9, AllSwapped
  <2>2. past.made \subseteq Databases /\ (past.orphan # 0 => past.orphan \in Databases)
    BY DEF TypeOK, Pasts
  <2>3. past'.made = Databases
    BY <2>1, <2>2
  <2> QED
    BY <2>1, <2>2, <2>3, ReachedSame
<1>10. CASE Mongorestore \/ ToolDone
  <2>1. past'.was = past.was /\ past'.made = past.made /\ (past'.orphan = past.orphan \/ past'.orphan = 0) /\ UNCHANGED <<p, rec>>
    BY <1>10, BackupWritten
  <2>2. past.orphan # 0 => past.orphan \in Databases
    BY DEF TypeOK, Pasts
  <2>3. Left' = Left /\ Now' = Now /\ Left \subseteq Databases /\ (p.pc \in {"copy", "copied", "swapped"} => Now \in Databases)
    BY <2>1, NowLeft DEF Left, Now, LifeInv
  <2> QED
    BY <2>1, <2>2, <2>3, ReachedSame
<1>11. CASE Exit \/ ExitAnyway \/ Crash
  <2>1. /\ p'.pc = "idle" /\ past'.was = past.was /\ past'.made = past.made
        /\ past'.orphan = past.orphan \/ (p.pc = "copy" /\ past'.orphan = Now)
    BY <1>11, ProcessLost DEF NoRun
  <2>2. past.orphan # 0 => past.orphan \in Databases
    BY DEF TypeOK, Pasts
  <2>3. p.pc = "copy" => Now \in Databases
    BY NowLeft DEF LifeInv
  <2> QED
    BY <2>1, <2>2, <2>3, ReachedSame
<1>12. CASE OrphanEnds
  <2>1. past'.was = past.was /\ past'.made = past.made /\ (past'.orphan = past.orphan \/ past'.orphan = 0) /\ UNCHANGED <<p, rec>>
    BY <1>12, OrphanEnded
  <2>2. past.orphan # 0 => past.orphan \in Databases
    BY DEF TypeOK, Pasts
  <2>3. Left' = Left /\ Now' = Now /\ Left \subseteq Databases /\ (p.pc \in {"copy", "copied", "swapped"} => Now \in Databases)
    BY <2>1, NowLeft DEF Left, Now, LifeInv
  <2> QED
    BY <2>1, <2>2, <2>3, ReachedSame
<1>13. CASE Start
  <2>1. past'.was = past.was /\ past'.made = past.made /\ (past'.orphan = past.orphan \/ past'.orphan = 0)
        /\ p'.pc \notin Swapping \cup {"clones"}
    BY <1>13, Started DEF NoRun
  <2>2. past.orphan # 0 => past.orphan \in Databases
    BY DEF TypeOK, Pasts
  <2> QED
    BY <2>1, <2>2, ReachedSame
<1> QED
  BY <1>1, <1>2, <1>3, <1>4, <1>5, <1>6, <1>7, <1>8, <1>9, <1>10, <1>11, <1>12, <1>13, DataCalms, RunCalms,
     RecCalms DEF Next, PITRStep, BackupStep, Collector, Base, ResumingStep, Recovery, ShutdownStep

\* A step that does not make a record forget the swap.
SavedCalm ==
    /\ (Ready(rec) => Ready(rec')) /\ (stored' = stored \/ stored' = rec')
    /\ p.pc = "idle" => stored' = stored \/ life.state = "mark"
    /\ p'.pc = "swap" /\ p.pc # "swap" => Ready(rec') /\ stored' = rec'
    /\ life'.state \in {"clones", "stream", "mark"} => life.state \in {"clones", "stream", "mark"}

\* With storage that works these steps are such.
LEMMA SavedCalms ==
  ASSUME TypeOK, LifeInv, SavesFail = FALSE,
         \/ (\E d \in Databases, inPlace \in BOOLEAN : StartRestore(d, inPlace)) \/ (\E d \in Databases : CloneChanges(d))
         \/ CheckFails \/ RestoreBase \/ BaseRestored \/ PassFails \/ KeptForInspection \/ Replayed \/ PostFails
         \/ ClonesComplete \/ SnapshotClones \/ SnapshotFails \/ SafetyFails \/ DisableStream \/ EndChain \/ PauseFails
         \/ BeginSwap \/ SwapFails \/ ClonesAfterSwap \/ EnableStream \/ StreamResumed \/ ResumeTimesOut \/ Settle
         \/ FinishRestore \/ FinishUnsaved \/ Release \/ SaveDeferred \/ Refused \/ ToolFails \/ Checked \/ PostRestore
         \/ SaveRestore \/ SaveRestoreLater \/ CancelRestore \/ CollectorStarts \/ CollectorStops \/ BaseStarts \/ BaseEnds
         \/ BaseAfterRecovery \/ Stop \/ Deadline \/ CleanupInterrupted \/ ResumeInterrupted \/ MarkInterrupted
         \/ ListStreams \/ EnableInShutdown \/ EnableAgain \/ BaseTimesOut
  PROVE  SavedCalm
<1>1. ASSUME NEW d \in Databases, NEW inPlace \in BOOLEAN, StartRestore(d, inPlace) PROVE SavedCalm
  BY <1>1 DEF TypeOK, SavedCalm, StartRestore, Ready, LifeInv, InPlaceOnly, Pausing, NoRun, Alive, data
<1>2. ASSUME NEW d \in Databases, CloneChanges(d) PROVE SavedCalm
  BY <1>2 DEF TypeOK, SavedCalm, CloneChanges, Happens, Lives, Ready, LifeInv, InPlaceOnly, Pausing, NoRun, Alive, data
<1>3. CASE CheckFails
  BY <1>3 DEF TypeOK, SavedCalm, CheckFails, CtxDone, Happens, End, FailStatus, Records, Goroutines, Lives, Ready, LifeInv,
     InPlaceOnly, Pausing, NoRun, Alive, data
<1>4. CASE RestoreBase
  BY <1>4 DEF TypeOK, SavedCalm, RestoreBase, Goroutines, Ready, LifeInv, InPlaceOnly, Pausing, NoRun, Alive, data
<1>5. CASE BaseRestored
  BY <1>5 DEF TypeOK, SavedCalm, BaseRestored, Goroutines, Ready, LifeInv, InPlaceOnly, Pausing, NoRun, Alive, data
<1>6. CASE PassFails
  <2>1. p.pc # "idle" /\ UNCHANGED stored /\ \E s, a, c : End(s, a, c)
    BY <1>6 DEF PassFails
  <2>2. life'.state = life.state
    BY <1>6 DEF PassFails, DropClones, NotSwapped, Happens, TypeOK, Lives
  <2> QED
    BY <2>1, <2>2 DEF TypeOK, Records, Goroutines, SavedCalm, End, Ready
<1>7. CASE KeptForInspection
  BY <1>7 DEF TypeOK, SavedCalm, KeptForInspection, Happens, End, Records, Goroutines, Lives, Ready, LifeInv, InPlaceOnly,
     Pausing, NoRun, Alive, data
<1>8. CASE Replayed
  BY <1>8 DEF TypeOK, SavedCalm, Replayed, Goroutines, Ready, LifeInv, InPlaceOnly, Pausing, NoRun, Alive, data
<1>9. CASE PostFails
  BY <1>9 DEF TypeOK, SavedCalm, PostFails, Happens, End, Records, Goroutines, Lives, Ready, LifeInv, InPlaceOnly, Pausing,
     NoRun, Alive, data
<1>10. CASE ClonesComplete
  BY <1>10 DEF TypeOK, SavedCalm, ClonesComplete, End, Records, Goroutines, Ready, LifeInv, InPlaceOnly, Pausing, NoRun,
     Alive, data
<1>11. CASE SnapshotClones
  BY <1>11 DEF TypeOK, SavedCalm, SnapshotClones, SaveInPlace, Records, Goroutines, Ready, LifeInv, InPlaceOnly, Pausing,
     NoRun, Alive, data
<1>12. CASE SnapshotFails
  BY <1>12 DEF TypeOK, SavedCalm, SnapshotFails, NotSwapped, DropClones, Dropped, Happens, End, Records, Goroutines, Lives,
     Ready, LifeInv, InPlaceOnly, Pausing, NoRun, Alive, data
<1>13. CASE SafetyFails
  BY <1>13 DEF TypeOK, SavedCalm, SafetyFails, NotSwapped, DropClones, Dropped, Happens, End, Records, Goroutines, Lives,
     Ready, LifeInv, InPlaceOnly, Pausing, NoRun, Alive, data
<1>14. CASE DisableStream
  BY <1>14 DEF TypeOK, SavedCalm, DisableStream, Goroutines, Ready, LifeInv, InPlaceOnly, Pausing, NoRun, Alive, data
<1>15. CASE EndChain
  BY <1>15 DEF TypeOK, SavedCalm, EndChain, Goroutines, Ready, LifeInv, InPlaceOnly, Pausing, NoRun, Alive, data
<1>16. CASE PauseFails
  BY <1>16 DEF TypeOK, SavedCalm, PauseFails, Happens, Goroutines, Lives, Ready, LifeInv, InPlaceOnly, Pausing,
     NoRun, Alive, data
<1>17. CASE BeginSwap
  BY <1>17 DEF TypeOK, SavedCalm, BeginSwap, SaveInPlace, Records, Goroutines, Ready, LifeInv, InPlaceOnly, Pausing, NoRun,
     Alive, data
<1>18. CASE SwapFails
  BY <1>18 DEF TypeOK, SavedCalm, SwapFails, Happens, Records, Goroutines, Lives, Ready, LifeInv, InPlaceOnly, Pausing,
     NoRun, Alive, data
<1>19. CASE ClonesAfterSwap
  BY <1>19 DEF TypeOK, SavedCalm, ClonesAfterSwap, DropClones, Dropped, Happens, Records, Goroutines, Lives, Ready, LifeInv,
     InPlaceOnly, Pausing, NoRun, Alive, data
<1>20. CASE EnableStream
  BY <1>20 DEF TypeOK, SavedCalm, EnableStream, Happens, Goroutines, Lives, Ready, LifeInv, InPlaceOnly, Pausing, NoRun,
     Alive, data
<1>21. CASE StreamResumed
  BY <1>21 DEF TypeOK, SavedCalm, StreamResumed, StartBase, Records, Goroutines, Ready, LifeInv, InPlaceOnly, Pausing, NoRun,
     Alive, data
<1>22. CASE ResumeTimesOut
  BY <1>22 DEF TypeOK, SavedCalm, ResumeTimesOut, Happens, Goroutines, Lives, Ready, LifeInv, InPlaceOnly, Pausing, NoRun,
     Alive, data
<1>23. CASE Settle
  <2>1. p.pc # "idle" /\ UNCHANGED stored /\ \E s, a, c : End(s, a, c)
    BY <1>23 DEF Settle, NotSwapped
  <2>2. life'.state = life.state
    BY <1>23 DEF Settle, DropClones, NotSwapped, Happens, TypeOK, Lives
  <2> QED
    BY <2>1, <2>2 DEF TypeOK, Records, Goroutines, SavedCalm, End, Ready
<1>24. CASE FinishRestore
  BY <1>24 DEF TypeOK, SavedCalm, FinishRestore, Save, Records, Goroutines, Ready, LifeInv, InPlaceOnly, Pausing, NoRun,
     Alive, data
<1>25. CASE FinishUnsaved
  <2>1. p.pc = "final" /\ UNCHANGED stored /\ p' = [p EXCEPT !.pc = "release", !.deferred = TRUE] /\ Happens
        /\ (rec' = rec \/ \E c : rec' = [rec EXCEPT !.status = IF @ = "cancelled" THEN @ ELSE "failed", !.clones = c])
    BY <1>25 DEF FinishUnsaved
  <2>2. life'.state = life.state /\ p'.pc = "release"
    BY <2>1 DEF Happens, TypeOK, Lives, Goroutines
  <2> QED
    BY <2>1, <2>2 DEF TypeOK, Records, SavedCalm, Ready
<1>26. CASE Release
  BY <1>26 DEF TypeOK, SavedCalm, Release, Goroutines, Ready, LifeInv, InPlaceOnly, Pausing, NoRun, Alive, data
<1>27. CASE SaveDeferred
  BY <1>27 DEF TypeOK, SavedCalm, SaveDeferred, Save, Records, Goroutines, Ready, LifeInv, InPlaceOnly, Pausing, NoRun,
     Alive, data
<1>28. CASE Refused
  BY <1>28 DEF TypeOK, SavedCalm, Refused, Happens, BkEnd, FailStatus, Lives, Ready, LifeInv, InPlaceOnly, Pausing, NoRun,
     Alive, data
<1>29. CASE ToolFails
  BY <1>29 DEF TypeOK, SavedCalm, ToolFails, DropClone, BkEnd, Happens, FailStatus, Lives, Ready, LifeInv, InPlaceOnly,
     Pausing, NoRun, Alive, data
<1>30. CASE Checked
  BY <1>30 DEF TypeOK, SavedCalm, Checked, DropClone, BkEnd, Happens, FailStatus, Lives, Ready, LifeInv, InPlaceOnly,
     Pausing, NoRun, Alive, data
<1>31. CASE PostRestore
  BY <1>31 DEF TypeOK, SavedCalm, PostRestore, BkEnd, Happens, Lives, Ready, LifeInv, InPlaceOnly, Pausing, NoRun, Alive, data
<1>32. CASE SaveRestore
  BY <1>32 DEF TypeOK, SavedCalm, SaveRestore, Happens, Lives, Ready, LifeInv, InPlaceOnly, Pausing, NoRun, Alive, data
<1>33. CASE SaveRestoreLater
  BY <1>33 DEF TypeOK, SavedCalm, SaveRestoreLater, Ready, LifeInv, InPlaceOnly, Pausing, NoRun, Alive, data
<1>34. CASE CancelRestore
  BY <1>34 DEF TypeOK, SavedCalm, CancelRestore, Happens, Goroutines, Lives, Ready, LifeInv, InPlaceOnly, Pausing, NoRun,
     Alive, data
<1>35. CASE CollectorStarts
  BY <1>35 DEF TypeOK, SavedCalm, CollectorStarts, Ready, LifeInv, InPlaceOnly, Pausing, NoRun, Alive, data
<1>36. CASE CollectorStops
  BY <1>36 DEF TypeOK, SavedCalm, CollectorStops, Ready, LifeInv, InPlaceOnly, Pausing, NoRun, Alive, data
<1>37. CASE BaseStarts
  BY <1>37 DEF TypeOK, SavedCalm, BaseStarts, StartBase, Ready, LifeInv, InPlaceOnly, Pausing, NoRun, Alive, data
<1>38. CASE BaseEnds
  BY <1>38 DEF TypeOK, SavedCalm, BaseEnds, Ready, LifeInv, InPlaceOnly, Pausing, NoRun, Alive, data
<1>39. CASE BaseAfterRecovery
  BY <1>39 DEF TypeOK, SavedCalm, BaseAfterRecovery, Ready, LifeInv, InPlaceOnly, Pausing, NoRun, Alive, data
<1>40. CASE Stop
  BY <1>40 DEF TypeOK, SavedCalm, Stop, Goroutines, Lives, Ready, LifeInv, InPlaceOnly, Pausing, NoRun, Alive, data
<1>41. CASE Deadline
  BY <1>41 DEF TypeOK, SavedCalm, Deadline, Lives, Ready, LifeInv, InPlaceOnly, Pausing, NoRun, Alive, data
<1>42. CASE CleanupInterrupted
  <2>1. UNCHANGED <<p, stored>> /\ life.state = "clones" /\ (rec' = rec \/ \E a, c : rec' = [rec EXCEPT !.claim = a, !.clones = c])
    BY <1>42 DEF CleanupInterrupted
  <2> QED
    BY <2>1 DEF TypeOK, Records, SavedCalm, Ready
<1>43. CASE ResumeInterrupted
  BY <1>43 DEF TypeOK, SavedCalm, ResumeInterrupted, Lives, Ready, LifeInv, InPlaceOnly, Pausing, NoRun, Alive, data
<1>44. CASE MarkInterrupted
  BY <1>44 DEF TypeOK, SavedCalm, MarkInterrupted, Save, Records, Lives, Ready, LifeInv, InPlaceOnly, Pausing, NoRun,
     Alive, data
<1>45. CASE ListStreams \/ EnableAgain \/ BaseTimesOut
  <2>1. UNCHANGED <<p, rec, stored>> /\ (life' = life \/ Happens)
    BY <1>45 DEF ListStreams, EnableAgain, BaseTimesOut
  <2> QED
    BY <2>1 DEF TypeOK, SavedCalm, Happens, Lives
<1>46. CASE EnableInShutdown
  <2>1. p.pc = "resume" /\ p'.pc = "settle" /\ UNCHANGED stored
    BY <1>46 DEF EnableInShutdown, TypeOK, Goroutines
  <2>2. rec'.inPlace = rec.inPlace /\ rec'.stage = rec.stage /\ rec'.swapStarted = rec.swapStarted
    BY <1>46 DEF EnableInShutdown, TypeOK, Records
  <2>3. life'.state = life.state
    BY <1>46 DEF EnableInShutdown, Happens, TypeOK, Lives
  <2> QED
    BY <2>1, <2>2, <2>3 DEF SavedCalm, Ready
<1> QED
  BY <1>1, <1>2, <1>3, <1>4, <1>5, <1>6, <1>7, <1>8, <1>9, <1>10, <1>11, <1>12, <1>13, <1>14, <1>15, <1>16, <1>17, <1>18,
     <1>19, <1>20, <1>21, <1>22, <1>23, <1>24, <1>25, <1>26, <1>27, <1>28, <1>29, <1>30, <1>31, <1>32, <1>33, <1>34, <1>35,
     <1>36, <1>37, <1>38, <1>39, <1>40, <1>41, <1>42, <1>43, <1>44, <1>45, <1>46

\* No step drops or changes a clone whose original was reached and not made.
LEMMA ClonesKept ==
  ASSUME TypeOK, LifeInv, DataInv, SavedInv, Next, NEW d \in Databases, Reached(d), d \notin past.made
  PROVE  clone'[d] = clone[d]
<1>1. ASSUME NEW e \in Databases, CloneChanges(e) PROVE clone'[d] = clone[d]
  BY <1>1 DEF CloneChanges, TypeOK, Reached
<1>2. p.pc \notin Before /\ p.pc # "clones" /\ (p.pc # "idle" => rec.inPlace) /\ p.after # "untouched"
  BY DEF DataInv, UntouchedInv, SwapInv
<1>3. CASE RestoreBase \/ PassFails \/ Replayed \/ SnapshotFails \/ SafetyFails \/ ClonesAfterSwap
  BY <1>2, <1>3 DEF RestoreBase, PassFails, Replayed, SnapshotFails, SafetyFails, ClonesAfterSwap, Before
<1>4. CASE Settle
  BY <1>2, <1>4 DEF Settle, data
<1>5. CASE FinishUnsaved
  <2>1. p.pc # "idle"
    BY <1>5 DEF FinishUnsaved
  <2> QED
    BY <1>2, <1>5, <2>1 DEF FinishUnsaved
<1>6. CASE CleanupInterrupted
  <2>1. KeepsClones
    BY <1>6 DEF CleanupInterrupted, SavedInv, Ready, KeepsClones, AfterRestoring
  <2> QED
    BY <1>6, <2>1 DEF CleanupInterrupted
<1> QED
  BY <1>1, <1>3, <1>4, <1>5, <1>6, CloneWriters

\* With storage that works every step preserves SavedInv.
LEMMA SavedInvNext ==
  ASSUME TypeOK, TypeOK', LifeInv, KeysInv, DataInv, SavedInv, SavesFail = FALSE, Next
  PROVE  SavedInv'
<1> USE DEF SavedInv, Swapping
<1>1. ASSUME DataCalm, RunCalm, SavedCalm PROVE SavedInv'
  <2>1. \A d \in Databases : Reached(d)' <=> Reached(d)
    BY <1>1, ReachedSame DEF DataCalm
  <2>2. ASSUME NEW d \in Databases, Reached(d)', d \notin past'.made PROVE clone'[d] = "full"
    BY <1>1, <2>1, <2>2, ClonesKept DEF DataCalm
  <2>3. p.pc = "idle" => p'.pc = "idle"
    BY <1>1 DEF RunCalm, DataEdges, Edges
  <2>4. ASSUME NEW d \in Databases, Reached(d)' PROVE Ready(stored') /\ (p'.pc # "idle" => Ready(rec'))
    BY <1>1, <2>1, <2>3, <2>4 DEF SavedCalm
  <2>5. p'.pc \in Swapping => (p'.pc = "swap" /\ p.pc # "swap") \/ p.pc \in Swapping
    BY <1>1 DEF RunCalm, DataEdges, Edges
  <2>6. ASSUME p'.pc \in Swapping PROVE Ready(rec') /\ Ready(stored')
    BY <1>1, <2>5, <2>6 DEF SavedCalm
  <2>7. ASSUME life'.state \in {"clones", "stream", "mark"}, Ready(stored') PROVE Ready(rec')
    BY <1>1, <2>7 DEF SavedCalm
  <2> QED
    BY <2>2, <2>4, <2>6, <2>7
<1>2. ASSUME NEW inPlace \in BOOLEAN, NEW keep \in BOOLEAN, StartPITR(inPlace, keep) PROVE SavedInv'
  <2>1. \A d \in Databases : ~Reached(d)'
    BY <1>2, StartsPITR, ReachedSame DEF DataInv, RunInv
  <2> QED
    BY <1>2, <2>1, StartsPITR
<1>3. CASE SafetyBackup
  BY <1>3, SafetyBacked, ReachedSame
<1>4. CASE PreparePause
  <2>1. \A d \in Databases : ~Reached(d)'
    BY <1>4, PausePrepared, ReachedSame DEF DataInv, UntouchedInv, Before
  <2>2. life'.state \notin {"clones", "stream", "mark"}
    BY <1>4, PausePrepared DEF LifeInv, Alive, NoRun, TypeOK, Lives, States
  <2> QED
    BY <1>4, <2>1, <2>2, PausePrepared
<1>5. CASE BeginCopy
  <2>1. /\ p.pc = "swap" /\ p'.pc = "copy" /\ Now \in Databases /\ clone[Now] = "full" /\ past'.made = past.made
        /\ past'.was = [past.was EXCEPT ![Now] = db[Now]] /\ UNCHANGED <<clone, rec, stored, life>>
    BY <1>5, CopyBegun
  <2>2. \A d \in Databases : Reached(d)' => Reached(d) \/ d = Now
    BY <2>1 DEF TypeOK, Pasts, Reached
  <2> QED
    BY <2>1, <2>2
<1>6. CASE CopyEnds
  <2>1. p.pc = "copy" /\ p'.pc = "copied" /\ past' = past /\ UNCHANGED <<clone, rec, stored, life>>
    BY <1>6, CopyEnded
  <2> QED
    BY <2>1, ReachedSame
<1>7. CASE DropExtras
  <2>1. /\ p.pc = "copied" /\ p'.pc = "swapped" /\ past'.was = past.was /\ past.made \subseteq past'.made
        /\ UNCHANGED <<clone, rec, stored, life>>
    BY <1>7, ExtrasDropped
  <2> QED
    BY <2>1, ReachedSame
<1>8. CASE Swapped
  <2>1. /\ p.pc = "swapped" /\ p'.pc = "swap" /\ past' = past /\ UNCHANGED <<clone, life>> /\ stored' = rec' /\ Ready(rec')
    BY <1>8, OneSwapped DEF Ready
  <2> QED
    BY <2>1, ReachedSame
<1>9. CASE SwapDone
  <2>1. /\ p.pc = "swap" /\ p'.pc = "clones" /\ past' = past /\ UNCHANGED <<clone, stored, life>> /\ Ready(rec')
    BY <1>9, AllSwapped DEF Ready
  <2> QED
    BY <2>1, ReachedSame
<1>10. CASE Mongorestore \/ ToolDone
  BY <1>10, BackupWritten, ReachedSame
<1>11. CASE Exit \/ ExitAnyway \/ Crash
  BY <1>11, ProcessLost, ReachedSame DEF NoRun
<1>12. CASE OrphanEnds
  BY <1>12, OrphanEnded, ReachedSame
<1>13. CASE Start
  BY <1>13, Started, ReachedSame DEF NoRun
<1> QED
  BY <1>1, <1>2, <1>3, <1>4, <1>5, <1>6, <1>7, <1>8, <1>9, <1>10, <1>11, <1>12, <1>13, DataCalms, RunCalms,
     SavedCalms DEF Next, PITRStep, BackupStep, Collector, Base, ResumingStep, Recovery, ShutdownStep

\* While the stream that a start found paused is still to be enabled, no restore begins.
LEMMA DueKept ==
  ASSUME TypeOK, LifeInv, DataInv, DueInv, Next, stream.due, stream'.due
  PROVE  life'.state \in {"mark", "up"} /\ p'.pc \in {"idle", "release", "over"} /\ stored'.status # "none"
<1>1. life.state \in {"mark", "up"} /\ p.pc \in {"idle", "release", "over"} /\ stored.status # "none"
  BY DEF DueInv
<1>2. p.pc # "idle" => rec.status # "none"
  BY DEF DataInv, RunInv
<1>3. ASSUME NEW inPlace \in BOOLEAN, NEW keep \in BOOLEAN, StartPITR(inPlace, keep) PROVE FALSE
  BY <1>1, <1>3, StartsPITR DEF DataInv, RunInv
<1>4. ~Stop /\ ~Exit /\ ~ExitAnyway /\ ~Crash
  BY DEF Stop, Exit, ExitAnyway, Crash, Lost, TypeOK, Streams
<1>5. ASSUME \/ CheckFails \/ RestoreBase \/ BaseRestored \/ PassFails \/ KeptForInspection \/ Replayed \/ PostFails
             \/ ClonesComplete \/ SnapshotClones \/ SnapshotFails \/ SafetyFails \/ PreparePause \/ BeginCopy \/ CopyEnds
             \/ DropExtras \/ Swapped \/ ClonesAfterSwap \/ ResumeTimesOut \/ Settle \/ FinishRestore \/ FinishUnsaved
      PROVE  FALSE
  <2>1. Walk
    BY <1>5, Walks
  <2> QED
    BY <1>1, <2>1 DEF Walk, Edges
<1>6. ASSUME \/ DisableStream \/ EndChain \/ PauseFails \/ BeginSwap \/ SwapFails \/ SwapDone \/ EnableStream
             \/ EnableInShutdown \/ StreamResumed
      PROVE  FALSE
  BY <1>1, <1>6 DEF DisableStream, EndChain, PauseFails, BeginSwap, SwapFails, SwapDone, EnableStream,
     EnableInShutdown, StreamResumed
<1>7. p'.pc \in {"idle", "release", "over"}
  <2>1. CASE Release
    BY <2>1 DEF Release, TypeOK, Goroutines
  <2>2. CASE SaveDeferred \/ CancelRestore
    BY <1>1, <2>2, Quiets DEF Quiet
  <2>3. CASE UNCHANGED p
    BY <1>1, <2>3
  <2> QED
    BY <1>3, <1>4, <1>5, <1>6, <2>1, <2>2, <2>3, PWriters
<1>8. stored'.status # "none"
  <2>1. CASE SaveDeferred
    BY <1>2, <2>1 DEF SaveDeferred, Save, LifeInv
  <2>2. CASE MarkInterrupted
    BY <1>1, <2>2 DEF MarkInterrupted, Save, TypeOK, Records
  <2>3. CASE UNCHANGED stored
    BY <1>1, <2>3
  <2> QED
    BY <1>3, <1>5, <1>6, <2>1, <2>2, <2>3, StoredWriters
<1>9. life'.state \in {"mark", "up"}
  <2>1. CASE Refused \/ ToolDone \/ ToolFails \/ Checked \/ PostRestore
    BY <1>1, <2>1, BkWalks DEF BkWalk
  <2>2. CASE (\E d \in Databases : CloneChanges(d)) \/ CancelRestore
    BY <1>1, <2>2, Quiets DEF Quiet
  <2>3. CASE SaveRestore \/ EnableAgain \/ BaseTimesOut
    <3>1. life' = life \/ Happens
      BY <2>3 DEF SaveRestore, EnableAgain, BaseTimesOut
    <3> QED
      BY <1>1, <3>1 DEF Happens, TypeOK, Lives
  <2>4. ~Deadline /\ ~Start /\ ~CleanupInterrupted /\ ~ResumeInterrupted
    BY <1>1 DEF Deadline, Start, CleanupInterrupted, ResumeInterrupted
  <2>5. CASE MarkInterrupted
    BY <2>5 DEF MarkInterrupted, TypeOK, Lives
  <2>6. CASE UNCHANGED life
    BY <1>1, <2>6
  <2> QED
    BY <1>4, <1>5, <1>6, <2>1, <2>2, <2>3, <2>4, <2>5, <2>6, LifeWriters
<1> QED
  BY <1>7, <1>8, <1>9

\* Every step preserves DueInv.
LEMMA DueInvNext ==
  ASSUME TypeOK, LifeInv, DataInv, DueInv, Next
  PROVE  DueInv'
<1>1. CASE stream.due
  BY <1>1, DueKept DEF DueInv
<1>2. CASE FinishUnsaved /\ stream'.due /\ ~stream.due
  <2>1. p.pc = "final" /\ UNCHANGED <<stored, mgr>> /\ Happens /\ p' = [p EXCEPT !.pc = "release", !.deferred = TRUE] /\ EnableLater
    BY <1>2 DEF FinishUnsaved
  <2>2. ~mgr.closed /\ life.state = "up" /\ stored.status # "none"
    BY <1>2, <2>1, LaterEnabled DEF LifeInv, Alive, NoRun, DataInv, RunInv
  <2>3. life'.state = "up" /\ p'.pc = "release"
    BY <2>1, <2>2 DEF Happens, TypeOK, Lives, Goroutines
  <2> QED
    BY <2>1, <2>2, <2>3 DEF DueInv
<1>3. CASE ResumeInterrupted /\ stream'.due /\ ~stream.due
  <2>1. life.state = "stream" /\ UNCHANGED <<p, stored>> /\ stored.status = "in_progress"
    BY <1>3 DEF ResumeInterrupted, Interrupted
  <2>2. life'.state = "mark"
    BY <1>3 DEF ResumeInterrupted, TypeOK, Lives
  <2>3. p.pc = "idle"
    BY <2>1 DEF LifeInv, Alive, NoRun
  <2> QED
    BY <2>1, <2>2, <2>3 DEF DueInv
<1>4. CASE ~stream.due /\ ~FinishUnsaved /\ ~ResumeInterrupted
  <2>1. ~stream'.due
    BY <1>4, StreamWriters DEF DisableStream, EndChain, EnableStream, EnableInShutdown, StreamResumed, StartBase,
       ListStreams, CollectorStarts, CollectorStops, BaseStarts, BaseEnds, BaseAfterRecovery, EnableAgain,
       BaseTimesOut, Stop, Exit, ExitAnyway, Crash, Lost, TypeOK, Streams
  <2> QED
    BY <2>1 DEF DueInv
<1> QED
  BY <1>1, <1>2, <1>3, <1>4 DEF DueInv

\* Every step preserves the types.
LEMMA TypeNext == ASSUME TypeOK, LifeInv, Next PROVE TypeOK'
BY DbType, CloneType, SafetyType, RecType, StoredType, PType, BkType, StreamType, MgrType, LifeType, PastType DEF TypeOK

\* The inductive invariant of the swap.
Inv == TypeOK /\ LifeInv /\ DueInv /\ KeysInv /\ DataInv

\* The initial states satisfy the invariant.
LEMMA InitInv == Init => Inv /\ SavedInv
<1> SUFFICES ASSUME Init PROVE Inv /\ SavedInv
  OBVIOUS
<1>1. TypeOK
  <2>1. NoRec \in Records
    BY DEF NoRec, Records
  <2>2. NoRun \in Goroutines
    BY DEF NoRun, Goroutines, Places
  <2>3. NoBackup \in BackupRestores
    BY DEF NoBackup, BackupRestores, Contents
  <2>4. NoKeys \in Managers
    BY DEF NoKeys, Managers
  <2>5. life \in Lives /\ stream \in Streams
    BY InPlaceConstants DEF Init, Lives, States, Streams
  <2>6. past \in Pasts
    BY DEF Init, Pasts, Contents
  <2> QED
    BY <2>1, <2>2, <2>3, <2>4, <2>5, <2>6 DEF Init, TypeOK, Contents
<1>2. life.state = "up" /\ p.pc = "idle" /\ p.after = "none" /\ ~p.deferred /\ bk.pc = "idle" /\ ~mgr.closed /\ mgr.critical = 0 /\ mgr.keys = {}
      /\ stream.base = "none" /\ ~rec.inPlace /\ rec.status = "none" /\ stored.status = "none" /\ past.orphan = 0 /\ ~stream.due
  BY DEF Init, NoRec, NoRun, NoBackup, NoKeys
<1>3. \A d \in Databases : ~Reached(d) /\ safety[d] = "none" /\ db[d] = "old"
  BY DEF Init, Reached
<1>4. LifeInv /\ DueInv
  BY <1>2 DEF LifeInv, DueInv, Alive, Swapping, Pausing, Before, InPlaceOnly
<1>5. KeysInv
  BY <1>2 DEF KeysInv, HoldsRestores, HoldsBase, BkHolds, Over
<1>6. DataInv /\ SavedInv
  BY <1>2, <1>3 DEF DataInv, RunInv, UntouchedInv, SafetyInv, SwapInv, SavedInv, Before, Swapping
<1> QED
  BY <1>1, <1>4, <1>5, <1>6 DEF Inv

\* Every step preserves the invariant.
LEMMA InvNext == ASSUME Inv, [Next]_vars PROVE Inv'
<1>1. CASE Next
  <2>1. TypeOK' /\ LifeInv' /\ DueInv' /\ KeysInv'
    BY <1>1, TypeNext, LifeInvNext, DueInvNext, KeysInvNext DEF Inv
  <2>2. DataInv'
    BY <1>1, <2>1, RunInvNext, UntouchedInvNext, SafetyInvNext, SwapInvNext DEF Inv, DataInv
  <2> QED
    BY <2>1, <2>2 DEF Inv
<1>2. CASE UNCHANGED vars
  <2> USE <1>2 DEF vars
  <2>1. TypeOK' /\ LifeInv' /\ DueInv' /\ KeysInv'
    BY DEF Inv, TypeOK, LifeInv, DueInv, KeysInv, HoldsRestores, HoldsBase, BkHolds, Alive, Over, Left
  <2>2. DataInv'
    BY DEF Inv, DataInv, RunInv, UntouchedInv, SafetyInv, SwapInv, Reached, Left, Now
  <2> QED
    BY <2>1, <2>2 DEF Inv
<1> QED
  BY <1>1, <1>2

\* The keys as SwapUndisturbed states them.
LEMMA KeysForm ==
  ASSUME TypeOK, LifeInv, KeysInv
  PROVE  mgr.keys = UNION {IF Over(p) THEN {} ELSE PITRHolds,
                           IF bk.inPlace /\ ~Over(bk) THEN {<<"restore", bk.d>>} ELSE {},
                           IF stream.base = "running" THEN {<<"base", 0>>} ELSE {}}
<1> DEFINE ofP == IF Over(p) THEN {} ELSE PITRHolds
           ofBk == IF bk.inPlace /\ ~Over(bk) THEN {<<"restore", bk.d>>} ELSE {}
           ofBase == IF stream.base = "running" THEN {<<"base", 0>>} ELSE {}
<1>1. mgr.keys \subseteq InPlaceKeys
  BY DEF TypeOK, Managers
<1>2. ofP \subseteq InPlaceKeys /\ ofBk \subseteq InPlaceKeys /\ ofBase \subseteq InPlaceKeys
  BY KeysIn DEF PITRHolds, LifeInv, Over
<1>3. ASSUME NEW k \in InPlaceKeys PROVE k \in mgr.keys <=> k \in ofP \/ k \in ofBk \/ k \in ofBase
  <2>1. CASE k = <<"base", 0>>
    <3>1. k \in ofP <=> HoldsBase
      BY <2>1, KeysIn DEF PITRHolds, HoldsBase, HoldsRestores
    <3>2. k \notin ofBk /\ (k \in ofBase <=> stream.base = "running")
      BY <2>1
    <3> QED
      BY <2>1, <3>1, <3>2 DEF KeysInv
  <2>2. ASSUME NEW d \in Databases, k = <<"restore", d>> PROVE k \in mgr.keys <=> k \in ofP \/ k \in ofBk \/ k \in ofBase
    <3>1. k \in ofP <=> HoldsRestores
      BY <2>2, KeysIn DEF PITRHolds, HoldsRestores
    <3>2. k \notin ofBase /\ (k \in ofBk <=> BkHolds(d))
      BY <2>2 DEF BkHolds
    <3> QED
      BY <2>2, <3>1, <3>2 DEF KeysInv
  <2> QED
    BY <2>1, <2>2 DEF InPlaceKeys
<1> QED
  BY <1>1, <1>2, <1>3

\* Whatever fails, is cancelled, stopped or crashes, and even where the progress of the restore
\* cannot be stored: while a clone is copied over its original no base backup and no other
\* restore runs, a shutdown does not kill the copy, every key is held by exactly the runs that
\* are under way, and no collector reads the oplog but one that was started late, from a list of
\* the streams older than the pause.
THEOREM SwapSafe == Spec => []SwapUndisturbed
<1>1. Init => Inv
  BY InitInv
<1>2. Inv /\ [Next]_vars => Inv'
  BY InvNext
<1>3. Inv => SwapUndisturbed
  <2> SUFFICES ASSUME Inv PROVE SwapUndisturbed
    OBVIOUS
  <2>1. ASSUME p.pc \in {"copy", "copied"}
        PROVE  (stream.collecting => stream.late) /\ stream.base = "none" /\ ~(bk.inPlace /\ bk.pc = "tool") /\ life.state # "killing"
    <3>1. (stream.collecting => stream.late) /\ life.state # "killing" /\ rec.inPlace /\ p.after = "none"
      BY <2>1 DEF Inv, LifeInv, Swapping, Pausing, InPlaceOnly
    <3>2. HoldsBase /\ HoldsRestores
      BY <2>1, <3>1 DEF HoldsBase, HoldsRestores, Over
    <3>3. bk.pc = "tool" => bk.d \in Databases /\ ~Over(bk)
      BY DEF Inv, LifeInv, Over
    <3> QED
      BY <3>1, <3>2, <3>3 DEF Inv, KeysInv, BkHolds
  <2> QED
    BY <2>1, KeysForm DEF SwapUndisturbed, Inv
<1> QED
  BY <1>1, <1>2, <1>3, PTL DEF Spec

\* Where the progress of the restore can be stored an in-place restore loses no data, wherever
\* it fails, is stopped or crashes and whatever a copy that outlived its process writes: the state
\* the swap found is in the original or its safety backup, and until the original holds the
\* restored state the clone does.
THEOREM StatesSafe == SavesFail = FALSE => (Spec => []StatesKept)
<1> SUFFICES ASSUME SavesFail = FALSE PROVE Spec => []StatesKept
  OBVIOUS
<1>1. Init => Inv /\ SavedInv
  BY InitInv
<1>2. Inv /\ SavedInv /\ [Next]_vars => Inv' /\ SavedInv'
  <2> SUFFICES ASSUME Inv, SavedInv, [Next]_vars PROVE Inv' /\ SavedInv'
    OBVIOUS
  <2>1. Inv'
    BY InvNext
  <2>2. CASE Next
    BY <2>1, <2>2, SavedInvNext DEF Inv
  <2>3. CASE UNCHANGED vars
    BY <2>1, <2>3 DEF vars, SavedInv, Reached, Ready
  <2> QED
    BY <2>1, <2>2, <2>3
<1>3. Inv /\ SavedInv => StatesKept
  BY DEF Inv, DataInv, SafetyInv, SavedInv, StatesKept, Reached
<1> QED
  BY <1>1, <1>2, <1>3, PTL DEF Spec

-----------------------------------------------------------------------------
(* What the records say. *)

\* After the swap, or after the pause failed: the stream is resumed.
Resuming == {"resume", "wait", "settle"}

\* Where the restore has ended.
Ending == {"final", "release", "over"}

\* What record r claims holds.
Claims(r) ==
    /\ r.claim = "untouched" => \A d \in Databases : ~Reached(d)
    /\ r.claim = "partial" => \A d \in Databases : IF d \in r.swapped THEN d \in past.made ELSE clone[d] \in {"full", "changed"}
    /\ r.claim = "restored" => past.made = Databases
    /\ (\E d \in Databases : clone[d] # "none") => r.clones \in {"kept", "manual"}
    /\ r.clones = "kept" => (\A d \in Databases : clone[d] # "none") \/ (r.claim = "partial" /\ r.swapped = Databases)

\* A record that says completed is of a restore that was.
Completes(r) ==
    r.status = "completed" => IF r.inPlace THEN r.claim = "restored" ELSE \A d \in Databases : clone[d] = "full"

\* The clones, until they are dropped: there are none before the restore, and those that a swap
\* that failed or was stopped leaves are complete.
ClonesInv ==
    /\ stored.status = "none" \/ p.pc = "queued" => \A d \in Databases : clone[d] = "none"
    /\ p.pc \in {"base", "replay"} => \A d \in Databases : clone[d] # "none"
    /\ p.pc \in {"post", "snapshot"} => \A d \in Databases : clone[d] = "full"
    /\ p.pc \in {"safety", "pausing", "disabled", "paused", "clones"} \cup Swapping \/ (p.pc \in Resuming /\ p.after = "partial") =>
          \A d \in Databases : clone[d] \in {"full", "changed"}

\* What the goroutine will claim: a restore that was not swapped has not said that it would be,
\* and what it has noted of the swap is stored.
RunClaims ==
    /\ p.pc \in Before \/ (p.pc \in Resuming /\ p.after = "untouched") => ~rec.swapStarted /\ ~stored.swapStarted
    /\ p.pc # "idle" => stored.inPlace = rec.inPlace
    /\ p.pc \in Before \cup Swapping => rec.status = "in_progress"
    /\ p.pc \in Swapping => stored.swapped = rec.swapped
    /\ p.pc = "clones" => stored.swapped = Databases
    /\ p.pc \in Resuming /\ p.after = "partial" => rec.swapped \subseteq past.made
    /\ p.pc \in Resuming /\ p.after = "restored" =>
          /\ past.made = Databases /\ ((\E d \in Databases : clone[d] # "none") => rec.clones \in {"kept", "manual"})
          /\ rec.clones = "kept" => \A d \in Databases : clone[d] # "none"
    /\ p.pc \in Ending => rec.status \in Final /\ Claims(rec) /\ Completes(rec) /\ (~rec.inPlace => rec.claim = "untouched")

\* What a start can claim of an interrupted restore.
StoredClaims ==
    /\ stored.status = "in_progress" =>
          /\ stored.swapped \subseteq past.made
          /\ Ready(stored) => stored.swapped = Databases \/ \A d \in Databases : clone[d] \in {"full", "changed"}
    /\ life.state = "clones" => rec = stored
    /\ life.state \in {"stream", "mark"} /\ stored.status = "in_progress" => Claims(rec)

\* What the restore of a backup will claim.
BkClaims ==
    /\ bk.pc \in {"post", "save"} /\ bk.note # "uncounted" /\ bk.d \notin past.stray \cup {past.orphan} =>
          (bk.pc = "post" \/ bk.outcome = "completed" => Target = "backup")
    /\ bk.pc = "save" /\ bk.note \in {"untouched", "dropped"} => bk.clone = "none"

\* The inductive invariant of OutcomeTruthful.
ClaimInv == ClonesInv /\ RunClaims /\ StoredClaims /\ BkClaims

\* A step that changes no clone, no record and no place of the point-in-time restore.
ClaimCalm ==
    /\ UNCHANGED <<clone, rec, stored>> /\ p'.pc = p.pc /\ p'.after = p.after /\ past'.was = past.was /\ past'.made = past.made
    /\ life'.state \in {"clones", "stream", "mark"} => life.state = life'.state

\* The steps of the restore of a backup, of the stream and of a shutdown are such.
LEMMA ClaimCalms ==
  ASSUME TypeOK, LifeInv,
         \/ (\E d \in Databases, inPlace \in BOOLEAN : StartRestore(d, inPlace)) \/ SafetyBackup \/ Refused \/ Mongorestore
         \/ ToolDone \/ ToolFails \/ Checked \/ PostRestore \/ SaveRestore \/ SaveRestoreLater \/ CancelRestore
         \/ CollectorStarts \/ CollectorStops \/ BaseStarts \/ BaseEnds \/ BaseAfterRecovery \/ Stop \/ Deadline \/ OrphanEnds
         \/ ListStreams \/ EnableAgain \/ BaseTimesOut
  PROVE  ClaimCalm
<1>1. ASSUME NEW d \in Databases, NEW inPlace \in BOOLEAN, StartRestore(d, inPlace) PROVE ClaimCalm
  BY <1>1 DEF ClaimCalm, StartRestore, data
<1>2. CASE SafetyBackup
  BY <1>2 DEF ClaimCalm, SafetyBackup
<1>3. CASE Refused \/ ToolFails \/ Checked \/ PostRestore
  <2>1. UNCHANGED <<clone, rec, stored, p, past>>
    BY <1>3 DEF Refused, ToolFails, Checked, PostRestore, data
  <2>2. life'.state = life.state
    BY <1>3, BkWalks DEF BkWalk
  <2> QED
    BY <2>1, <2>2 DEF ClaimCalm
<1>4. CASE Mongorestore \/ ToolDone
  BY <1>4, BackupWritten DEF ClaimCalm
<1>5. CASE SaveRestore
  <2>1. UNCHANGED <<clone, rec, stored, p, past>> /\ (life' = life \/ Happens)
    BY <1>5 DEF SaveRestore, data
  <2>2. life'.state = life.state
    BY <2>1 DEF Happens, TypeOK, Lives
  <2> QED
    BY <2>1, <2>2 DEF ClaimCalm
<1>6. CASE SaveRestoreLater
  BY <1>6 DEF ClaimCalm, SaveRestoreLater, data
<1>7. CASE CancelRestore
  <2>1. UNCHANGED <<clone, rec, stored, past>>
    BY <1>7 DEF CancelRestore, data
  <2>2. life'.state = life.state /\ p'.pc = p.pc /\ p'.after = p.after
    BY <1>7, Quiets DEF Quiet
  <2> QED
    BY <2>1, <2>2 DEF ClaimCalm
<1>8. CASE CollectorStarts \/ CollectorStops \/ BaseStarts \/ BaseEnds \/ BaseAfterRecovery
  BY <1>8 DEF ClaimCalm, CollectorStarts, CollectorStops, BaseStarts, BaseEnds, BaseAfterRecovery, data
<1>9. CASE Stop
  <2>1. UNCHANGED <<clone, rec, stored>> /\ life' = [state |-> "stopping", events |-> life.events + 1]
        /\ \E force \in BOOLEAN : p' = [p EXCEPT !.cancelled = @ \/ (force /\ Cancellable(p))]
    BY <1>9 DEF Stop
  <2>2. life'.state = "stopping" /\ p'.pc = p.pc /\ p'.after = p.after
    BY <2>1 DEF TypeOK, Goroutines
  <2>3. past'.was = past.was /\ past'.made = past.made
    BY <1>9, DataCalms DEF DataCalm
  <2> QED
    BY <2>1, <2>2, <2>3 DEF ClaimCalm
<1>10. CASE Deadline
  BY <1>10 DEF ClaimCalm, Deadline, TypeOK, Lives, data
<1>11. CASE OrphanEnds
  BY <1>11, OrphanEnded DEF ClaimCalm
<1>12. CASE ListStreams \/ EnableAgain \/ BaseTimesOut
  <2>1. UNCHANGED <<clone, rec, stored, p>> /\ (life' = life \/ Happens)
    BY <1>12 DEF ListStreams, EnableAgain, BaseTimesOut, data
  <2>2. life'.state = life.state
    BY <2>1 DEF Happens, TypeOK, Lives
  <2>3. past'.was = past.was /\ past'.made = past.made
    BY <1>12, DataCalms DEF DataCalm
  <2> QED
    BY <2>1, <2>2, <2>3 DEF ClaimCalm
<1> QED
  BY <1>1, <1>2, <1>3, <1>4, <1>5, <1>6, <1>7, <1>8, <1>9, <1>10, <1>11, <1>12

\* Such a step leaves the claims as they are.
LEMMA CalmClaims ==
  ASSUME ClaimCalm, ClonesInv, RunClaims, StoredClaims
  PROVE  ClonesInv' /\ RunClaims' /\ StoredClaims'
<1>1. \A d \in Databases : Reached(d)' <=> Reached(d)
  BY ReachedSame DEF ClaimCalm
<1>2. Claims(rec)' <=> Claims(rec)
  BY <1>1 DEF ClaimCalm, Claims
<1>3. Completes(rec)' <=> Completes(rec)
  BY DEF ClaimCalm, Completes
<1>4. Ready(stored)' <=> Ready(stored)
  BY DEF ClaimCalm, Ready
<1>5. ClonesInv'
  BY DEF ClaimCalm, ClonesInv
<1>6. RunClaims'
  BY <1>2, <1>3 DEF ClaimCalm, RunClaims
<1>7. StoredClaims'
  BY <1>2, <1>4 DEF ClaimCalm, StoredClaims
<1> QED
  BY <1>5, <1>6, <1>7

\* A goroutine that is under way is in a process that is, and its restore is stored.
LEMMA Running ==
  ASSUME TypeOK, LifeInv, DataInv, p.pc # "idle"
  PROVE  life.state \notin {"down", "clones", "stream", "mark"} /\ stored.status # "none"
BY DEF LifeInv, Alive, NoRun, DataInv, RunInv

\* What a step of the goroutine does to what a start could claim of the stored record.
LEMMA StoredSame ==
  ASSUME StoredClaims, UNCHANGED stored, past.made \subseteq past'.made, life'.state \notin {"clones", "stream", "mark"},
         ~Ready(stored) \/ stored.swapped = Databases \/ \A d \in Databases : clone'[d] = clone[d] \/ clone'[d] = "changed"
  PROVE  StoredClaims'
BY DEF StoredClaims, Ready

\* End.
LEMMA Ended ==
  ASSUME TypeOK, NEW s, NEW a, NEW c, End(s, a, c)
  PROVE  /\ p'.pc = "final" /\ p'.after = p.after /\ rec'.status = s /\ rec'.claim = a /\ rec'.clones = c
         /\ rec'.inPlace = rec.inPlace /\ rec'.swapped = rec.swapped /\ rec'.swapStarted = rec.swapStarted
BY DEF End, TypeOK, Records, Goroutines

\* A restore that ends with a claim that holds.
LEMMA EndClaims ==
  ASSUME TypeOK, TypeOK', LifeInv', DataInv', ClonesInv, RunClaims, StoredClaims, p.pc # "idle",
         NEW s \in Final, NEW a, NEW c, End(s, a, c), UNCHANGED <<stored, past>>,
         a = "untouched" => \A d \in Databases : ~Reached(d),
         a = "partial" => \A d \in Databases : IF d \in rec.swapped THEN d \in past.made ELSE clone'[d] \in {"full", "changed"},
         a = "restored" => past.made = Databases,
         (\E d \in Databases : clone'[d] # "none") => c \in {"kept", "manual"},
         c = "kept" => (\A d \in Databases : clone'[d] # "none") \/ (a = "partial" /\ rec.swapped = Databases),
         s = "completed" => IF rec.inPlace THEN a = "restored" ELSE \A d \in Databases : clone'[d] = "full",
         ~rec.inPlace => a = "untouched",
         ~Ready(stored) \/ clone' = clone
  PROVE  ClonesInv' /\ RunClaims' /\ StoredClaims'
<1>1. /\ p'.pc = "final" /\ rec'.status = s /\ rec'.claim = a /\ rec'.clones = c
      /\ rec'.inPlace = rec.inPlace /\ rec'.swapped = rec.swapped
  BY Ended
<1>2. life'.state \notin {"clones", "stream", "mark"} /\ stored'.status # "none"
  BY <1>1 DEF LifeInv, Alive, NoRun, DataInv, RunInv
<1>3. \A d \in Databases : Reached(d)' <=> Reached(d)
  BY ReachedSame
<1>4. Claims(rec)'
  BY <1>1, <1>3 DEF Claims
<1>5. Completes(rec)'
  BY <1>1 DEF Completes
<1>6. stored'.inPlace = rec'.inPlace
  BY <1>1 DEF RunClaims
<1>7. RunClaims'
  BY <1>1, <1>4, <1>5, <1>6 DEF RunClaims, Before, Swapping, Resuming
<1>8. StoredClaims'
  BY <1>2, StoredSame
<1>9. ClonesInv'
  BY <1>1, <1>2 DEF ClonesInv, Swapping, Resuming
<1> QED
  BY <1>7, <1>8, <1>9

\* A step of the goroutine before the swap that ends nothing.
Early ==
    /\ p.pc \in Before /\ p'.pc \in Before \ {"queued"} /\ UNCHANGED past
    /\ rec'.inPlace = rec.inPlace /\ rec'.swapStarted = rec.swapStarted /\ rec'.swapped = rec.swapped /\ rec'.status = rec.status
    /\ stored' = stored \/ stored' = rec'
    /\ p'.pc = "base" => clone' = [d \in Databases |-> "part"]
    /\ p'.pc = "replay" => clone' = clone /\ p.pc = "base"
    /\ p'.pc = "post" => clone' = [d \in Databases |-> "full"]
    /\ p'.pc \in {"snapshot", "safety"} => clone' = clone /\ p.pc \in {"post", "snapshot"}
    /\ p'.pc \in {"pausing", "disabled", "paused"} => clone' = clone /\ p.pc \in {"safety", "pausing", "disabled", "paused"}

\* These steps are such.
LEMMA Earlies ==
  ASSUME TypeOK,
         \/ RestoreBase \/ BaseRestored \/ Replayed \/ (ClonesComplete /\ rec.inPlace) \/ SnapshotClones \/ PreparePause
         \/ DisableStream \/ EndChain
  PROVE  Early
<1> USE DEF Before
<1>1. CASE RestoreBase
  <2>1. p'.pc = "base"
    BY <1>1 DEF RestoreBase, TypeOK, Goroutines
  <2> QED
    BY <1>1, <2>1 DEF RestoreBase, Early
<1>2. CASE BaseRestored
  <2>1. p'.pc = "replay"
    BY <1>2 DEF BaseRestored, TypeOK, Goroutines
  <2> QED
    BY <1>2, <2>1 DEF BaseRestored, Early, data
<1>3. CASE Replayed
  <2>1. p'.pc = "post"
    BY <1>3 DEF Replayed, TypeOK, Goroutines
  <2> QED
    BY <1>3, <2>1 DEF Replayed, Early
<1>4. CASE ClonesComplete /\ rec.inPlace
  <2>1. p'.pc = "snapshot"
    BY <1>4 DEF ClonesComplete, TypeOK, Goroutines
  <2> QED
    BY <1>4, <2>1 DEF ClonesComplete, Early, data
<1>5. CASE SnapshotClones
  <2>1. p.pc = "snapshot" /\ p' = [p EXCEPT !.pc = "safety"] /\ rec' = [rec EXCEPT !.stage = "safety_backup"]
        /\ (stored' = stored \/ stored' = rec') /\ UNCHANGED <<clone, past>>
    BY <1>5 DEF SnapshotClones, SaveInPlace, data
  <2>2. p'.pc = "safety"
    BY <2>1 DEF TypeOK, Goroutines
  <2>3. rec'.inPlace = rec.inPlace /\ rec'.swapStarted = rec.swapStarted /\ rec'.swapped = rec.swapped /\ rec'.status = rec.status
    BY <2>1 DEF TypeOK, Records
  <2> QED
    BY <2>1, <2>2, <2>3 DEF Early
<1>6. CASE PreparePause
  BY <1>6, PausePrepared DEF Early
<1>7. CASE DisableStream
  <2>1. p'.pc = "disabled"
    BY <1>7 DEF DisableStream, TypeOK, Goroutines
  <2> QED
    BY <1>7, <2>1 DEF DisableStream, Early, data
<1>8. CASE EndChain
  <2>1. p'.pc = "paused"
    BY <1>8 DEF EndChain, TypeOK, Goroutines
  <2> QED
    BY <1>8, <2>1 DEF EndChain, Early, data
<1> QED
  BY <1>1, <1>2, <1>3, <1>4, <1>5, <1>6, <1>7, <1>8

\* Such a step preserves the claims: it makes none.
LEMMA EarlyClaims ==
  ASSUME TypeOK, TypeOK', LifeInv', DataInv, DataInv', ClonesInv, RunClaims, StoredClaims, Early
  PROVE  ClonesInv' /\ RunClaims' /\ StoredClaims'
<1>1. p.pc \in Before /\ p'.pc \in Before \ {"queued"} /\ p'.pc # "idle" /\ UNCHANGED past
  BY DEF Early, Before
<1>2. life'.state \notin {"clones", "stream", "mark"} /\ stored'.status # "none"
  BY <1>1, Running DEF LifeInv, Alive, NoRun, DataInv, RunInv
<1>3. ~rec.swapStarted /\ ~stored.swapStarted /\ stored.inPlace = rec.inPlace /\ rec.status = "in_progress" /\ rec.swapped = {}
  BY <1>1 DEF RunClaims, Before, DataInv, UntouchedInv
<1>4. ~rec'.swapStarted /\ ~stored'.swapStarted /\ stored'.inPlace = rec'.inPlace /\ rec'.status = "in_progress"
  BY <1>3 DEF Early
<1>5. RunClaims'
  BY <1>1, <1>4 DEF RunClaims, Before, Swapping, Resuming, Ending
<1>6. stored'.status = "in_progress" => stored'.swapped \subseteq past'.made
  BY <1>1, <1>3 DEF Early, StoredClaims
<1>7. StoredClaims'
  BY <1>2, <1>4, <1>6 DEF StoredClaims, Ready
<1>8. ASSUME p'.pc \in {"post", "snapshot"} PROVE \A d \in Databases : clone'[d] = "full"
  <2>1. CASE p'.pc = "post"
    BY <2>1 DEF Early
  <2>2. CASE p'.pc = "snapshot"
    BY <2>2 DEF Early, ClonesInv
  <2> QED
    BY <1>8, <2>1, <2>2
<1>9. ASSUME p'.pc \in {"safety", "pausing", "disabled", "paused"} PROVE \A d \in Databases : clone'[d] \in {"full", "changed"}
  BY <1>9 DEF Early, ClonesInv, Swapping
<1>10. ASSUME p'.pc \in {"base", "replay"} PROVE \A d \in Databases : clone'[d] # "none"
  BY <1>10 DEF Early, ClonesInv
<1>11. ClonesInv'
  BY <1>1, <1>2, <1>8, <1>9, <1>10 DEF ClonesInv, Before, Swapping, Resuming
<1> QED
  BY <1>5, <1>7, <1>11

\* The steps that end a restore before the swap, or after it, end it with claims that hold.
LEMMA EndsClaims ==
  ASSUME TypeOK, TypeOK', LifeInv, LifeInv', DataInv, DataInv', ClonesInv, RunClaims, StoredClaims,
         \/ CheckFails \/ PassFails \/ KeptForInspection \/ PostFails \/ (ClonesComplete /\ ~rec.inPlace)
         \/ SnapshotFails \/ SafetyFails \/ Settle
  PROVE  ClonesInv' /\ RunClaims' /\ StoredClaims'
<1>1. ASSUME p.pc \in Before PROVE (\A d \in Databases : ~Reached(d)) /\ ~Ready(stored) /\ p.pc # "idle"
  BY <1>1 DEF DataInv, UntouchedInv, RunClaims, Ready, Before
<1>2. ASSUME NEW s \in {"failed", "cancelled"}, NEW c \in {"none", "manual", "kept"}, End(s, "untouched", c), p.pc # "idle",
             \A d \in Databases : ~Reached(d), ~Ready(stored), UNCHANGED <<stored, past>>,
             c = "none" => \A d \in Databases : clone'[d] = "none",
             c = "kept" => \A d \in Databases : clone'[d] # "none"
      PROVE  ClonesInv' /\ RunClaims' /\ StoredClaims'
  BY <1>2, EndClaims DEF Final
<1>3. FailStatus(p) \in {"failed", "cancelled"}
  BY DEF FailStatus
<1>4. CASE CheckFails
  <2>1. p.pc = "queued" /\ UNCHANGED <<clone, stored, past>> /\ End(FailStatus(p), "untouched", "none")
    BY <1>4 DEF CheckFails, data
  <2> QED
    BY <1>1, <1>2, <1>3, <2>1 DEF ClonesInv, Before
<1>5. CASE PassFails
  <2>1. p.pc \in Before /\ UNCHANGED <<stored, past>>
        /\ \E s \in {"failed", "cancelled"}, c \in {"none", "manual"} : clone' = Dropped(c) /\ End(s, "untouched", c)
    BY <1>3, <1>5 DEF PassFails, DropClones, Before
  <2> QED
    BY <1>1, <1>2, <2>1 DEF Dropped
<1>6. CASE KeptForInspection
  <2>1. p.pc \in {"base", "replay"} /\ p.pc \in Before /\ UNCHANGED <<clone, stored, past>> /\ End("failed", "untouched", "kept")
    BY <1>6 DEF KeptForInspection, data, Before
  <2>2. \A d \in Databases : clone'[d] # "none"
    BY <2>1 DEF ClonesInv
  <2> QED
    BY <1>1, <1>2, <2>1, <2>2
<1>7. CASE PostFails
  <2>1. p.pc = "post" /\ p.pc \in Before /\ UNCHANGED <<clone, stored, past>> /\ End("failed", "untouched", "kept")
    BY <1>7 DEF PostFails, data, Before
  <2>2. \A d \in Databases : clone'[d] # "none"
    BY <2>1 DEF ClonesInv
  <2> QED
    BY <1>1, <1>2, <2>1, <2>2
<1>8. CASE ClonesComplete /\ ~rec.inPlace
  <2>1. p.pc = "post" /\ p.pc \in Before /\ UNCHANGED <<clone, stored, past>> /\ End("completed", "untouched", "kept")
    BY <1>8 DEF ClonesComplete, data, Before
  <2>2. \A d \in Databases : clone'[d] = "full"
    BY <2>1 DEF ClonesInv
  <2> QED
    BY <1>1, <1>8, <2>1, <2>2, EndClaims DEF Final
<1>9. ASSUME NotSwapped, p.pc # "idle", \A d \in Databases : ~Reached(d), ~Ready(stored) PROVE ClonesInv' /\ RunClaims' /\ StoredClaims'
  <2>1. UNCHANGED <<stored, past>> /\ \E c \in {"none", "manual"} : clone' = Dropped(c) /\ End("failed", "untouched", c)
    BY <1>9 DEF NotSwapped, DropClones
  <2> QED
    BY <1>2, <1>9, <2>1 DEF Dropped
<1>10. CASE SnapshotFails \/ SafetyFails
  <2>1. p.pc \in Before /\ NotSwapped
    BY <1>10 DEF SnapshotFails, SafetyFails, Before
  <2> QED
    BY <1>1, <1>9, <2>1
<1>11. CASE Settle
  <2>1. p.pc = "settle" /\ rec.inPlace
    BY <1>11 DEF Settle, LifeInv, InPlaceOnly
  <2>2. CASE p.after = "untouched" /\ NotSwapped
    <3>1. (\A d \in Databases : ~Reached(d)) /\ ~Ready(stored)
      BY <2>1, <2>2 DEF DataInv, UntouchedInv, RunClaims, Ready, Resuming
    <3> QED
      BY <1>9, <2>1, <2>2, <3>1
  <2>3. CASE p.after = "partial" /\ End("failed", "partial", "kept") /\ UNCHANGED <<data, stored, bk, life>>
    <3>1. rec.swapped \subseteq past.made /\ UNCHANGED <<clone, stored, past>>
      BY <2>1, <2>3 DEF RunClaims, Resuming, data
    <3>2. \A d \in Databases : clone'[d] \in {"full", "changed"}
      BY <2>1, <2>3, <3>1 DEF ClonesInv, Resuming
    <3> QED
      BY <2>1, <2>3, <3>1, <3>2, EndClaims DEF Final
  <2>4. CASE p.after = "restored" /\ End("completed", "restored", rec.clones) /\ UNCHANGED <<data, stored, bk, life>>
    <3>1. past.made = Databases /\ UNCHANGED <<clone, stored, past>>
          /\ ((\E d \in Databases : clone'[d] # "none") => rec.clones \in {"kept", "manual"})
          /\ (rec.clones = "kept" => \A d \in Databases : clone'[d] # "none")
      BY <2>1, <2>4 DEF RunClaims, Resuming, data
    <3> QED
      BY <2>1, <2>4, <3>1, EndClaims DEF Final
  <2> QED
    BY <1>11, <2>2, <2>3, <2>4 DEF Settle
<1> QED
  BY <1>4, <1>5, <1>6, <1>7, <1>8, <1>10, <1>11

\* BeginSwap.
LEMMA SwapBegun ==
  ASSUME TypeOK, BeginSwap
  PROVE  /\ p.pc = "paused" /\ p'.pc = "swap" /\ rec'.inPlace = rec.inPlace /\ rec'.swapped = rec.swapped
         /\ rec'.status = rec.status /\ (stored' = rec' \/ (SavesFail /\ stored' = stored)) /\ UNCHANGED <<clone, past>>
<1>1. p.pc = "paused" /\ p' = [p EXCEPT !.pc = "swap"] /\ SaveInPlace([rec EXCEPT !.stage = "swapping", !.swapStarted = TRUE])
      /\ UNCHANGED <<clone, past>>
  BY DEF BeginSwap, data
<1>2. rec' = [rec EXCEPT !.stage = "swapping", !.swapStarted = TRUE] /\ (stored' = rec' \/ (SavesFail /\ stored' = stored))
  BY <1>1, InPlaceConstants DEF SaveInPlace
<1>3. rec'.inPlace = rec.inPlace /\ rec'.swapped = rec.swapped /\ rec'.status = rec.status
  BY <1>2 DEF TypeOK, Records
<1> QED
  BY <1>1, <1>2, <1>3 DEF TypeOK, Goroutines

\* With storage that works, the steps of the swap store what it has done and leave the clones.
LEMMA SwapClaims ==
  ASSUME TypeOK, TypeOK', LifeInv, LifeInv', DataInv, DataInv', ClonesInv, RunClaims, StoredClaims, SavesFail = FALSE,
         BeginSwap \/ BeginCopy \/ CopyEnds \/ DropExtras \/ Swapped
  PROVE  ClonesInv' /\ RunClaims' /\ StoredClaims'
<1>1. p.pc \in {"paused"} \cup Swapping /\ p'.pc \in Swapping /\ p'.pc # "idle" /\ clone' = clone /\ past.made \subseteq past'.made
  BY SwapBegun, CopyBegun, CopyEnded, ExtrasDropped, OneSwapped DEF Swapping
<1>2. life'.state \notin {"clones", "stream", "mark"} /\ stored'.status # "none"
  BY <1>1 DEF LifeInv, Alive, NoRun, DataInv, RunInv
<1>3. \A d \in Databases : clone'[d] \in {"full", "changed"}
  BY <1>1 DEF ClonesInv
<1>4. ClonesInv'
  BY <1>1, <1>2, <1>3 DEF ClonesInv, Swapping, Resuming
<1>5. stored.inPlace = rec.inPlace /\ rec.status = "in_progress"
  BY <1>1 DEF RunClaims, Before, Swapping
<1>6. stored'.inPlace = rec'.inPlace /\ rec'.status = "in_progress" /\ stored'.swapped = rec'.swapped
  <2>1. CASE BeginSwap \/ Swapped
    BY <1>5, <2>1, SwapBegun, OneSwapped
  <2>2. CASE BeginCopy \/ CopyEnds \/ DropExtras
    <3>1. UNCHANGED <<rec, stored>> /\ p.pc \in Swapping
      BY <2>2, CopyBegun, CopyEnded, ExtrasDropped DEF Swapping
    <3> QED
      BY <1>5, <3>1 DEF RunClaims
  <2> QED
    BY <2>1, <2>2
<1>7. RunClaims'
  BY <1>1, <1>6 DEF RunClaims, Before, Swapping, Resuming, Ending
<1>8. rec'.swapped \subseteq past'.made
  BY <1>1 DEF DataInv, SwapInv
<1>9. StoredClaims'
  BY <1>2, <1>3, <1>6, <1>8 DEF StoredClaims
<1> QED
  BY <1>4, <1>7, <1>9

\* The steps after the swap, or after the pause failed.
LEMMA ResumeClaims ==
  ASSUME TypeOK, TypeOK', LifeInv, LifeInv', DataInv, DataInv', ClonesInv, RunClaims, StoredClaims,
         PauseFails \/ SwapFails \/ SwapDone \/ ClonesAfterSwap \/ EnableStream \/ EnableInShutdown \/ StreamResumed \/ ResumeTimesOut
  PROVE  ClonesInv' /\ RunClaims' /\ StoredClaims'
<1> USE DEF Resuming
<1>1. CASE PauseFails
  <2>1. p.pc \in {"pausing", "disabled"} /\ UNCHANGED <<clone, past, rec, stored>>
        /\ p' = [p EXCEPT !.pc = "resume", !.after = "untouched"]
    BY <1>1 DEF PauseFails, data
  <2>2. p'.pc = "resume" /\ p'.after = "untouched"
    BY <2>1 DEF TypeOK, Goroutines
  <2>3. life'.state \notin {"clones", "stream", "mark"} /\ stored'.status # "none"
    BY <2>2 DEF LifeInv, Alive, NoRun, DataInv, RunInv
  <2>4. ClonesInv'
    BY <2>2, <2>3 DEF ClonesInv, Swapping
  <2>5. RunClaims'
    BY <2>1, <2>2 DEF RunClaims, Before, Swapping, Ending
  <2> QED
    BY <2>1, <2>3, <2>4, <2>5, StoredSame
<1>2. CASE SwapFails
  <2>1. p.pc \in Swapping /\ UNCHANGED <<clone, past, stored>> /\ rec' = [rec EXCEPT !.stage = "resuming"]
        /\ p' = [p EXCEPT !.pc = "resume", !.after = "partial"]
    BY <1>2 DEF SwapFails, Swapping, data
  <2>2. p'.pc = "resume" /\ p'.after = "partial" /\ rec'.inPlace = rec.inPlace /\ rec'.swapped = rec.swapped
    BY <2>1 DEF TypeOK, Goroutines, Records
  <2>3. life'.state \notin {"clones", "stream", "mark"} /\ stored'.status # "none"
    BY <2>2 DEF LifeInv, Alive, NoRun, DataInv, RunInv
  <2>4. ClonesInv'
    BY <2>1, <2>2, <2>3 DEF ClonesInv, Swapping
  <2>5. rec.swapped \subseteq past.made /\ stored.inPlace = rec.inPlace
    BY <2>1 DEF DataInv, SwapInv, RunClaims, Swapping
  <2>6. RunClaims'
    BY <2>1, <2>2, <2>5 DEF RunClaims, Before, Swapping, Ending
  <2> QED
    BY <2>1, <2>3, <2>4, <2>6, StoredSame
<1>3. CASE SwapDone
  <2>1. /\ p.pc = "swap" /\ p'.pc = "clones" /\ Databases \subseteq rec.swapped /\ rec'.inPlace = rec.inPlace
        /\ UNCHANGED <<clone, past, stored>>
    BY <1>3, AllSwapped
  <2>2. life'.state \notin {"clones", "stream", "mark"} /\ stored'.status # "none"
    BY <2>1 DEF LifeInv, Alive, NoRun, DataInv, RunInv
  <2>3. stored.swapped = Databases /\ stored.inPlace = rec.inPlace
    BY <2>1 DEF RunClaims, Swapping, TypeOK, Records
  <2>4. ClonesInv'
    BY <2>1, <2>2 DEF ClonesInv, Swapping
  <2>5. RunClaims'
    BY <2>1, <2>3 DEF RunClaims, Before, Swapping, Ending
  <2> QED
    BY <2>1, <2>2, <2>4, <2>5, StoredSame
<1>4. CASE ClonesAfterSwap
  <2>1. p.pc = "clones" /\ p' = [p EXCEPT !.pc = "resume"] /\ UNCHANGED <<past, stored>>
        /\ \E c \in {"none", "manual", "kept"} : rec' = [rec EXCEPT !.clones = c] /\ (c = "none" => \A d \in Databases : clone'[d] = "none")
              /\ (c = "kept" => clone' = clone)
    BY <1>4 DEF ClonesAfterSwap, DropClones, Dropped
  <2>2. p'.pc = "resume" /\ p'.after = "restored"
    BY <2>1 DEF TypeOK, Goroutines, LifeInv
  <2>3. rec'.inPlace = rec.inPlace /\ ((\E d \in Databases : clone'[d] # "none") => rec'.clones \in {"kept", "manual"})
        /\ (rec'.clones = "kept" => \A d \in Databases : clone'[d] # "none")
    BY <2>1 DEF TypeOK, Records, ClonesInv
  <2>4. life'.state \notin {"clones", "stream", "mark"} /\ stored'.status # "none"
    BY <2>2 DEF LifeInv, Alive, NoRun, DataInv, RunInv
  <2>5. past.made = Databases /\ stored.swapped = Databases /\ stored.inPlace = rec.inPlace
    BY <2>1 DEF DataInv, SwapInv, RunClaims
  <2>6. ClonesInv'
    BY <2>2, <2>4 DEF ClonesInv, Swapping
  <2>7. RunClaims'
    BY <2>1, <2>2, <2>3, <2>5 DEF RunClaims, Before, Swapping, Ending
  <2> QED
    BY <2>1, <2>4, <2>5, <2>6, <2>7, StoredSame
<1>5. CASE EnableStream \/ EnableInShutdown \/ StreamResumed \/ ResumeTimesOut
  <2>1. /\ p.pc \in Resuming /\ UNCHANGED <<clone, stored>> /\ \E to \in {"wait", "settle"} : p' = [p EXCEPT !.pc = to]
        /\ rec' = rec \/ rec' = [rec EXCEPT !.resumed = TRUE]
    BY <1>5 DEF EnableStream, EnableInShutdown, StreamResumed, ResumeTimesOut, data
  <2>2. past'.was = past.was /\ past'.made = past.made
    BY <1>5, DataCalms DEF DataCalm
  <2>3. p'.pc \in {"wait", "settle"} /\ p'.after = p.after
    BY <2>1 DEF TypeOK, Goroutines
  <2>4. rec'.inPlace = rec.inPlace /\ rec'.swapped = rec.swapped /\ rec'.swapStarted = rec.swapStarted /\ rec'.clones = rec.clones
    BY <2>1 DEF TypeOK, Records
  <2>5. life'.state \notin {"clones", "stream", "mark"} /\ stored'.status # "none"
    BY <2>3 DEF LifeInv, Alive, NoRun, DataInv, RunInv
  <2>6. ClonesInv'
    BY <2>1, <2>3, <2>5 DEF ClonesInv, Swapping
  <2>7. RunClaims'
    BY <2>1, <2>2, <2>3, <2>4 DEF RunClaims, Before, Swapping, Ending
  <2> QED
    BY <2>1, <2>2, <2>5, <2>6, <2>7, StoredSame
<1> QED
  BY <1>1, <1>2, <1>3, <1>4, <1>5

\* The steps of a restore that has ended: what is not stored at once is stored later.
LEMMA FinalClaims ==
  ASSUME TypeOK, TypeOK', LifeInv, LifeInv', DataInv, DataInv', ClonesInv, RunClaims, StoredClaims,
         FinishRestore \/ FinishUnsaved \/ SaveDeferred \/ Release
  PROVE  ClonesInv' /\ RunClaims' /\ StoredClaims'
<1>1. p.pc \in Ending /\ p'.pc \in Ending /\ past'.was = past.was /\ past'.made = past.made
  <2>1. CASE FinishRestore \/ FinishUnsaved \/ Release
    BY <2>1, DataCalms DEF DataCalm, FinishRestore, FinishUnsaved, Release, TypeOK, Goroutines, Ending
  <2>2. CASE SaveDeferred
    BY <2>2, DataCalms DEF DataCalm, SaveDeferred, LifeInv, TypeOK, Goroutines, Ending
  <2> QED
    BY <2>1, <2>2
<1>2. life'.state \notin {"clones", "stream", "mark"} /\ stored'.status # "none"
  BY <1>1 DEF Ending, LifeInv, Alive, NoRun, DataInv, RunInv
<1>3. ClonesInv'
  BY <1>1, <1>2 DEF ClonesInv, Swapping, Resuming, Ending
<1>4. rec.status \in Final /\ Claims(rec) /\ Completes(rec) /\ (~rec.inPlace => rec.claim = "untouched") /\ stored.inPlace = rec.inPlace
  BY <1>1 DEF RunClaims, Ending
<1>5. \A d \in Databases : Reached(d)' <=> Reached(d)
  BY <1>1, ReachedSame
<1>6. ASSUME rec'.status \in Final, Claims(rec)', Completes(rec)', rec'.inPlace = rec.inPlace, rec'.claim = rec.claim, stored' = stored \/ stored' = rec'
      PROVE  RunClaims'
  BY <1>1, <1>4, <1>6 DEF RunClaims, Before, Swapping, Resuming, Ending
<1>7. CASE UNCHANGED <<rec, clone>> /\ (stored' = stored \/ stored' = rec)
  <2>1. Claims(rec)' /\ Completes(rec)'
    BY <1>1, <1>4, <1>5, <1>7 DEF Claims, Completes
  <2>2. RunClaims'
    BY <1>4, <1>6, <1>7, <2>1
  <2>3. CASE stored' = stored
    BY <1>1, <1>2, <1>3, <1>7, <2>2, <2>3, StoredSame
  <2>4. CASE stored' = rec
    BY <1>2, <1>3, <1>4, <2>2, <2>4 DEF StoredClaims, Final
  <2> QED
    BY <1>7, <2>3, <2>4
<1>8. CASE FinishUnsaved
  <2> DEFINE undone == rec.status = "completed" /\ ~rec.inPlace
  <2>1. ASSUME NEW c \in IF undone THEN {"none", "manual"} ELSE {rec.clones},
               rec' = [rec EXCEPT !.status = IF @ = "cancelled" THEN @ ELSE "failed", !.clones = c],
               clone' = IF undone THEN Dropped(c) ELSE clone, stored' = stored
        PROVE  ClonesInv' /\ RunClaims' /\ StoredClaims'
    <3>1. /\ rec'.status \in {"failed", "cancelled"} /\ rec'.clones = c /\ rec'.claim = rec.claim /\ rec'.inPlace = rec.inPlace
          /\ rec'.swapped = rec.swapped
      BY <1>4, <2>1 DEF TypeOK, Records, Final
    <3>2. Completes(rec)'
      BY <3>1 DEF Completes
    <3>3. Claims(rec)'
      <4>1. CASE undone
        <5>1. rec'.claim = "untouched" /\ \A d \in Databases : ~Reached(d)'
          BY <1>4, <1>5, <3>1, <4>1 DEF Claims
        <5>2. c # "kept" /\ (c = "manual" \/ \A d \in Databases : clone'[d] = "none")
          BY <2>1, <4>1 DEF Dropped
        <5> QED
          BY <3>1, <5>1, <5>2 DEF Claims
      <4>2. CASE ~undone
        BY <1>1, <1>4, <1>5, <2>1, <3>1, <4>2 DEF Claims
      <4> QED
        BY <4>1, <4>2
    <3>4. RunClaims'
      BY <1>6, <2>1, <3>1, <3>2, <3>3 DEF Final
    <3>5. ~Ready(stored) \/ clone' = clone
      BY <1>4, <2>1 DEF Ready
    <3> QED
      BY <1>1, <1>2, <1>3, <2>1, <3>4, <3>5, StoredSame
  <2>2. stored' = stored /\ (UNCHANGED <<rec, clone>> \/ \E c \in IF undone THEN {"none", "manual"} ELSE {rec.clones} :
              /\ rec' = [rec EXCEPT !.status = IF @ = "cancelled" THEN @ ELSE "failed", !.clones = c]
              /\ clone' = IF undone THEN Dropped(c) ELSE clone)
    BY <1>8 DEF FinishUnsaved
  <2> QED
    BY <1>7, <2>1, <2>2
<1>9. CASE FinishRestore \/ SaveDeferred \/ Release
  BY <1>7, <1>9 DEF FinishRestore, SaveDeferred, Release, Save, data
<1> QED
  BY <1>8, <1>9

\* The start of the restore, a write to a clone, the end of the process and its next start.
LEMMA LifeClaims ==
  ASSUME TypeOK, TypeOK', LifeInv, LifeInv', DataInv, DataInv', SavedInv, ClonesInv, RunClaims, StoredClaims,
         \/ (\E inPlace, keep \in BOOLEAN : StartPITR(inPlace, keep)) \/ (\E d \in Databases : CloneChanges(d))
         \/ Exit \/ ExitAnyway \/ Crash \/ Start \/ CleanupInterrupted \/ ResumeInterrupted \/ MarkInterrupted
  PROVE  ClonesInv' /\ RunClaims' /\ StoredClaims'
<1>1. ASSUME NEW inPlace \in BOOLEAN, NEW keep \in BOOLEAN, StartPITR(inPlace, keep) PROVE ClonesInv' /\ RunClaims' /\ StoredClaims'
  <2>1. /\ p.pc = "idle" /\ p'.pc = "queued" /\ rec.status = "none" /\ life.state = "up" /\ life' = life /\ stored' = rec'
        /\ rec'.status = "in_progress" /\ rec'.swapped = {} /\ UNCHANGED <<clone, past>>
    BY <1>1, StartsPITR
  <2>2. ~rec'.swapStarted
    BY <1>1 DEF StartPITR, Save, NoRec
  <2>3. stored.status = "none"
    BY <2>1 DEF DataInv, RunInv
  <2>4. \A d \in Databases : clone'[d] = "none"
    BY <2>1, <2>3 DEF ClonesInv
  <2>5. ClonesInv'
    BY <2>1, <2>4 DEF ClonesInv, Swapping, Resuming
  <2>6. RunClaims'
    BY <2>1, <2>2 DEF RunClaims, Before, Swapping, Resuming, Ending
  <2>7. StoredClaims'
    BY <2>1, <2>2 DEF StoredClaims, Ready
  <2> QED
    BY <2>5, <2>6, <2>7
<1>2. ASSUME NEW e \in Databases, CloneChanges(e) PROVE ClonesInv' /\ RunClaims' /\ StoredClaims'
  <2>1. p.pc \in {"safety", "pausing", "disabled", "paused", "swap"} /\ UNCHANGED <<rec, stored, p, past>>
        /\ \A d \in Databases : clone'[d] = clone[d] \/ clone'[d] = "changed"
    BY <1>2 DEF CloneChanges, TypeOK
  <2>2. life'.state \notin {"clones", "stream", "mark"} /\ stored'.status # "none"
    BY <2>1 DEF LifeInv, Alive, NoRun, DataInv, RunInv
  <2>3. ClonesInv'
    BY <2>1, <2>2 DEF ClonesInv, Swapping, Resuming
  <2>4. RunClaims'
    BY <2>1 DEF RunClaims, Before, Swapping, Resuming, Ending
  <2> QED
    BY <2>1, <2>2, <2>3, <2>4, StoredSame
<1>3. CASE Exit \/ ExitAnyway \/ Crash
  <2>1. p'.pc = "idle" /\ life'.state = "down" /\ UNCHANGED <<clone, stored>> /\ past'.made = past.made
    BY <1>3, ProcessLost DEF NoRun
  <2>2. ClonesInv'
    BY <2>1 DEF ClonesInv, Swapping, Resuming
  <2>3. RunClaims'
    BY <2>1 DEF RunClaims, Before, Swapping, Resuming, Ending
  <2> QED
    BY <2>1, <2>2, <2>3, StoredSame
<1>4. CASE Start
  <2>1. p'.pc = "idle" /\ p'= p /\ life'.state = "clones" /\ rec' = stored /\ UNCHANGED <<clone, stored, past>>
    BY <1>4, Started DEF NoRun
  <2>2. ClonesInv'
    BY <2>1 DEF ClonesInv, Swapping, Resuming
  <2>3. RunClaims'
    BY <2>1 DEF RunClaims, Before, Swapping, Resuming, Ending
  <2>4. StoredClaims'
    BY <2>1 DEF StoredClaims, Ready
  <2> QED
    BY <2>2, <2>3, <2>4
<1>5. ASSUME life.state \in {"clones", "stream", "mark"}, UNCHANGED p, stored'.status = "none" => clone' = clone /\ stored.status = "none"
      PROVE  ClonesInv' /\ RunClaims' /\ p'.pc = "idle"
  <2>1. p'.pc = "idle"
    BY <1>5 DEF LifeInv, Alive, NoRun
  <2>2. ClonesInv'
    BY <1>5, <2>1 DEF ClonesInv, Swapping, Resuming
  <2>3. RunClaims'
    BY <2>1 DEF RunClaims, Before, Swapping, Resuming, Ending
  <2> QED
    BY <2>1, <2>2, <2>3
<1>6. CASE CleanupInterrupted
  <2>1. life.state = "clones" /\ UNCHANGED <<p, past, stored>> /\ rec = stored
    BY <1>6 DEF CleanupInterrupted, StoredClaims
  <2>2. life'.state = "stream"
    BY <1>6 DEF CleanupInterrupted, TypeOK, Lives
  <2>3. stored'.status = "none" => clone' = clone /\ stored.status = "none"
    BY <1>6 DEF CleanupInterrupted, Interrupted
  <2>4. \A d \in Databases : Reached(d)' <=> Reached(d)
    BY <2>1, ReachedSame
  <2>5. CASE ~Interrupted
    BY <1>5, <2>1, <2>2, <2>3, <2>5 DEF StoredClaims, Interrupted
  <2>6. CASE Interrupted /\ ~KeepsClones
    <3>1. \E c \in {"none", "manual"} : rec' = [rec EXCEPT !.claim = "untouched", !.clones = c]
              /\ (c = "none" => clone' = [d \in Databases |-> "none"])
      BY <1>6, <2>6 DEF CleanupInterrupted
    <3>2. rec'.claim = "untouched" /\ rec'.clones # "kept" /\ ((\E d \in Databases : clone'[d] # "none") => rec'.clones \in {"kept", "manual"})
      BY <3>1 DEF TypeOK, Records
    <3>3. ~Ready(stored)
      BY <2>1, <2>6 DEF KeepsClones, AfterRestoring, Ready
    <3>4. \A d \in Databases : ~Reached(d)
      BY <3>3 DEF SavedInv
    <3>5. Claims(rec)'
      BY <2>4, <3>2, <3>4 DEF Claims
    <3>6. StoredClaims'
      BY <2>1, <2>2, <3>3, <3>5 DEF StoredClaims, Ready
    <3> QED
      BY <1>5, <2>1, <2>3, <3>6
  <2>7. CASE Interrupted /\ KeepsClones
    <3>1. rec' = [rec EXCEPT !.claim = "partial", !.clones = "kept"] /\ clone' = clone
      BY <1>6, <2>7 DEF CleanupInterrupted
    <3>2. rec'.claim = "partial" /\ rec'.clones = "kept" /\ rec'.swapped = stored.swapped
      BY <2>1, <3>1 DEF TypeOK, Records
    <3>3. Ready(stored)
      BY <2>1, <2>7 DEF KeepsClones, AfterRestoring, Ready
    <3>4. Claims(rec)'
      BY <2>1, <2>7, <3>1, <3>2, <3>3 DEF Claims, StoredClaims, Interrupted
    <3>5. StoredClaims'
      BY <2>1, <2>2, <3>1, <3>4 DEF StoredClaims, Ready
    <3> QED
      BY <1>5, <2>1, <2>3, <3>5
  <2> QED
    BY <2>5, <2>6, <2>7
<1>7. CASE ResumeInterrupted
  <2>1. life.state = "stream" /\ UNCHANGED <<clone, p, rec, stored>>
    BY <1>7 DEF ResumeInterrupted
  <2>2. life'.state = "mark"
    BY <1>7 DEF ResumeInterrupted, TypeOK, Lives
  <2>3. past'.was = past.was /\ past'.made = past.made
    BY <1>7, DataCalms DEF DataCalm
  <2>4. Claims(rec)' <=> Claims(rec)
    BY <2>1, <2>3, ReachedSame DEF Claims
  <2>5. StoredClaims'
    BY <2>1, <2>2, <2>3, <2>4 DEF StoredClaims, Ready
  <2> QED
    BY <1>5, <2>1, <2>5
<1>8. CASE MarkInterrupted
  <2>1. life.state = "mark" /\ UNCHANGED <<clone, p, past>>
    BY <1>8 DEF MarkInterrupted, data
  <2>2. life'.state = "up"
    BY <1>8 DEF MarkInterrupted, TypeOK, Lives
  <2>3. stored'.status = "failed" \/ (stored' = stored /\ stored.status # "in_progress")
    BY <1>8 DEF MarkInterrupted, Save, Interrupted, TypeOK, Records
  <2>4. StoredClaims'
    BY <2>2, <2>3 DEF StoredClaims
  <2> QED
    BY <1>5, <2>1, <2>3, <2>4
<1> QED
  BY <1>1, <1>2, <1>3, <1>4, <1>6, <1>7, <1>8

\* With storage that works every step preserves what the records of the point-in-time restore claim.
LEMMA ClaimsNext ==
  ASSUME TypeOK, TypeOK', LifeInv, LifeInv', DataInv, DataInv', SavedInv, ClonesInv, RunClaims, StoredClaims, SavesFail = FALSE, Next
  PROVE  ClonesInv' /\ RunClaims' /\ StoredClaims'
<1>1. CASE (\E d \in Databases, inPlace \in BOOLEAN : StartRestore(d, inPlace)) \/ SafetyBackup \/ Refused \/ Mongorestore
           \/ ToolDone \/ ToolFails \/ Checked \/ PostRestore \/ SaveRestore \/ SaveRestoreLater \/ CancelRestore
           \/ CollectorStarts \/ CollectorStops \/ BaseStarts \/ BaseEnds \/ BaseAfterRecovery \/ Stop \/ Deadline \/ OrphanEnds
           \/ ListStreams \/ EnableAgain \/ BaseTimesOut
  BY <1>1, ClaimCalms, CalmClaims
<1>2. CASE \/ RestoreBase \/ BaseRestored \/ Replayed \/ (ClonesComplete /\ rec.inPlace) \/ SnapshotClones \/ PreparePause
           \/ DisableStream \/ EndChain
  BY <1>2, Earlies, EarlyClaims
<1> QED
  BY <1>1, <1>2, EndsClaims, SwapClaims, ResumeClaims, FinalClaims, LifeClaims DEF Next, PITRStep, BackupStep, Collector, Base,
     ResumingStep, Recovery, ShutdownStep

\* What a restore that holds the key of its database has written, another run does not change
\* unless it is a copy that outlived its process.
LEMMA TargetKept ==
  ASSUME TypeOK, LifeInv, KeysInv, Next, UNCHANGED bk, bk.pc \in {"post", "save"}, bk.d \notin past'.stray \cup {past'.orphan}
  PROVE  Target' = Target /\ bk.d \notin past.stray \cup {past.orphan}
<1>1. bk.d \in Databases /\ ~Over(bk) /\ Alive
  BY DEF LifeInv, Over
<1>2. CASE OrphanEnds
  <2>1. past.orphan \in Databases /\ \E e \in {"copied", "part"} : db' = [db EXCEPT ![past.orphan] = e]
    BY <1>2, OrphanEnded
  <2>2. past'.stray = past.stray \cup {past.orphan}
    BY <1>1, <1>2 DEF OrphanEnds, Alive, TypeOK, Pasts
  <2>3. db'[bk.d] = db[bk.d]
    BY <1>1, <2>1, <2>2 DEF TypeOK
  <2> QED
    BY <2>2, <2>3 DEF Target
<1>3. CASE BeginCopy \/ CopyEnds \/ DropExtras
  <2>1. HoldsRestores
    BY <1>3 DEF BeginCopy, CopyEnds, DropExtras, HoldsRestores, Over, LifeInv, InPlaceOnly, Pausing, Swapping
  <2>2. ~bk.inPlace
    BY <1>1, <2>1 DEF KeysInv, BkHolds
  <2>3. past'.stray = past.stray /\ past'.orphan = past.orphan
    BY <1>3 DEF BeginCopy, CopyEnds, DropExtras, TypeOK, Pasts
  <2> QED
    BY <2>2, <2>3 DEF Target
<1>4. CASE Mongorestore \/ ToolDone
  BY <1>4 DEF Mongorestore, ToolDone
<1>5. ASSUME UNCHANGED db, ~OrphanEnds, ~BeginCopy, ~DropExtras PROVE Target' = Target /\ bk.d \notin past.stray \cup {past.orphan}
  <2>1. Target' = Target
    BY <1>5 DEF Target
  <2>2. CASE Crash
    <3>1. bk' = [bk EXCEPT !.pc = "over", !.note = "interrupted", !.outcome = "none"]
      BY <2>2 DEF Crash, Lost, LifeInv
    <3>2. bk'.pc = "over"
      BY <3>1 DEF TypeOK, BackupRestores
    <3> QED
      BY <3>2
  <2>3. CASE EnableStream \/ EnableInShutdown \/ ResumeTimesOut \/ EnableAgain \/ BaseTimesOut \/ Stop
    BY <2>1, <2>3 DEF EnableStream, EnableInShutdown, ResumeTimesOut, EnableAgain, BaseTimesOut, Stop, TypeOK, Pasts
  <2>4. CASE FinishUnsaved \/ ResumeInterrupted
    <3>1. past' = past \/ EnableLater \/ past' = [past EXCEPT !.alert = TRUE]
      BY <2>4 DEF FinishUnsaved, ResumeInterrupted
    <3>2. past'.stray = past.stray /\ past'.orphan = past.orphan
      BY <3>1, LaterEnabled DEF TypeOK, Pasts
    <3> QED
      BY <2>1, <3>2
  <2>5. CASE UNCHANGED past
    BY <2>1, <2>5
  <2> QED
    BY <1>5, <2>2, <2>3, <2>4, <2>5, PastWriters
<1> QED
  BY <1>2, <1>3, <1>4, <1>5, DbWriters

\* BkEnd.
LEMMA BkEnded ==
  ASSUME TypeOK, NEW o, NEW n, NEW c, BkEnd(o, n, c)
  PROVE  bk'.pc = "save" /\ bk'.outcome = o /\ bk'.note = n /\ bk'.clone = c /\ bk'.d = bk.d /\ bk'.inPlace = bk.inPlace
BY DEF BkEnd, TypeOK, BackupRestores

\* Every step preserves what the restore of a backup will claim.
LEMMA BkClaimsNext ==
  ASSUME TypeOK, TypeOK', LifeInv, LifeInv', KeysInv, BkClaims, Next
  PROVE  BkClaims'
<1>1. ASSUME NEW o \in {"failed", "cancelled"}, NEW n, NEW c, BkEnd(o, n, c), n \in {"untouched", "dropped"} => c = "none"
      PROVE  BkClaims'
  BY <1>1, BkEnded DEF BkClaims
<1>2. FailStatus(bk) \in {"failed", "cancelled"}
  BY DEF FailStatus
<1>3. ASSUME NEW o \in {"failed", "cancelled"}, DropClone(o) PROVE BkClaims'
  BY <1>1, <1>3 DEF DropClone
<1>4. ASSUME bk'.pc \notin {"post", "save"} PROVE BkClaims'
  BY <1>4 DEF BkClaims
<1>5. ASSUME NEW d \in Databases, NEW inPlace \in BOOLEAN, StartRestore(d, inPlace) PROVE BkClaims'
  BY <1>4, <1>5 DEF StartRestore, NoBackup
<1>6. CASE Refused
  BY <1>1, <1>2, <1>6 DEF Refused
<1>7. CASE Mongorestore \/ ToolDone
  <2>1. bk'.pc \in {"tool", "check"}
    BY <1>7 DEF Mongorestore, ToolDone, Write, TypeOK, BackupRestores
  <2> QED
    BY <1>4, <2>1
<1>8. CASE ToolFails
  BY <1>1, <1>2, <1>3, <1>8 DEF ToolFails
<1>9. CASE Checked
  <2>1. CASE Target = "backup" /\ bk' = [bk EXCEPT !.pc = "post"]
    <3>1. bk'.pc = "post" /\ bk'.inPlace = bk.inPlace /\ bk'.d = bk.d /\ bk'.clone = bk.clone
      BY <2>1 DEF TypeOK, BackupRestores
    <3>2. db' = db
      BY <1>9 DEF Checked, data
    <3> QED
      BY <2>1, <3>1, <3>2 DEF BkClaims, Target
  <2>2. CASE DropClone(FailStatus(bk))
    BY <1>2, <1>3, <2>2
  <2>3. CASE BkEnd("failed", IF bk.inPlace THEN "partial" ELSE "kept", bk.clone)
    BY <1>1, <2>3
  <2>4. CASE bk' = [bk EXCEPT !.pc = "post", !.note = "uncounted"]
    <3>1. bk'.pc = "post" /\ bk'.note = "uncounted"
      BY <2>4 DEF TypeOK, BackupRestores
    <3> QED
      BY <3>1 DEF BkClaims
  <2> QED
    BY <1>9, <2>1, <2>2, <2>3, <2>4 DEF Checked
<1>10. CASE PostRestore
  <2>1. bk.pc = "post" /\ UNCHANGED <<db, past>>
    BY <1>10 DEF PostRestore, data
  <2>2. CASE BkEnd("completed", IF bk.note = "uncounted" THEN "uncounted" ELSE "complete", bk.clone)
    <3>1. bk'.pc = "save" /\ bk'.note = (IF bk.note = "uncounted" THEN "uncounted" ELSE "complete") /\ bk'.clone = bk.clone /\ bk'.d = bk.d /\ bk'.inPlace = bk.inPlace
      BY <2>2, BkEnded
    <3> QED
      BY <2>1, <3>1 DEF BkClaims, Target
  <2>3. CASE BkEnd("failed", IF bk.inPlace THEN "partial" ELSE "kept", bk.clone)
    BY <1>1, <2>3
  <2> QED
    BY <1>10, <2>2, <2>3 DEF PostRestore
<1>11. CASE SaveRestore
  <2>1. bk'.pc = "over"
    BY <1>11 DEF SaveRestore, TypeOK, BackupRestores
  <2> QED
    BY <1>4, <2>1
<1>12. CASE SaveRestoreLater
  <2>1. bk'.pc = "over"
    BY <1>12 DEF SaveRestoreLater, TypeOK, BackupRestores
  <2> QED
    BY <1>4, <2>1
<1>13. CASE CancelRestore \/ Stop
  <2>1. \E b \in BOOLEAN : bk' = [bk EXCEPT !.cancelled = b]
    BY <1>13 DEF CancelRestore, Stop, TypeOK, BackupRestores, Cancellable
  <2>2. /\ bk'.pc = bk.pc /\ bk'.inPlace = bk.inPlace /\ bk'.d = bk.d /\ bk'.clone = bk.clone
        /\ bk'.outcome = bk.outcome /\ bk'.note = bk.note
    BY <2>1 DEF TypeOK, BackupRestores
  <2>3. db' = db /\ past'.stray = past.stray /\ past'.orphan = past.orphan
    BY <1>13 DEF CancelRestore, Stop, data, TypeOK, Pasts
  <2> QED
    BY <2>2, <2>3 DEF BkClaims, Target
<1>14. CASE Exit \/ ExitAnyway \/ Crash
  <2>1. life'.state = "down"
    BY <1>14, ProcessLost
  <2>2. bk'.pc \in {"idle", "over"}
    BY <2>1 DEF LifeInv, Alive, Over
  <2> QED
    BY <1>4, <2>2
<1>15. CASE MarkInterrupted
  <2>1. bk.pc \in {"idle", "over"} /\ (bk' = bk \/ bk' = [bk EXCEPT !.status = "failed"])
    BY <1>15 DEF MarkInterrupted, LifeInv, Alive, Over
  <2>2. bk'.pc = bk.pc
    BY <2>1 DEF TypeOK, BackupRestores
  <2> QED
    BY <1>4, <2>1, <2>2
<1>16. CASE UNCHANGED bk
  <2>1. ASSUME bk.pc \in {"post", "save"}, bk.note # "uncounted", bk.d \notin past'.stray \cup {past'.orphan},
               bk.pc = "post" \/ bk.outcome = "completed"
        PROVE  Target' = "backup"
    BY <1>16, <2>1, TargetKept DEF BkClaims
  <2> QED
    BY <1>16, <2>1 DEF BkClaims
<1> QED
  BY <1>5, <1>6, <1>7, <1>8, <1>9, <1>10, <1>11, <1>12, <1>13, <1>14, <1>15, <1>16, BkWriters

\* Initially there is nothing to claim.
LEMMA ClaimInit == Init => ClaimInv
<1> SUFFICES ASSUME Init PROVE ClaimInv
  OBVIOUS
<1>1. p.pc = "idle" /\ life.state = "up" /\ bk.pc = "idle" /\ stored.status = "none" /\ \A d \in Databases : clone[d] = "none"
  BY DEF Init, NoRun, NoBackup, NoRec
<1> QED
  BY <1>1 DEF ClaimInv, ClonesInv, RunClaims, StoredClaims, BkClaims, Before, Swapping, Resuming, Ending

\* With storage that works every step preserves the invariant.
LEMMA ClaimNext ==
  ASSUME Inv, Inv', SavedInv, ClaimInv, SavesFail = FALSE, [Next]_vars
  PROVE  ClaimInv'
<1>1. CASE Next
  BY <1>1, ClaimsNext, BkClaimsNext DEF Inv, ClaimInv
<1>2. CASE UNCHANGED vars
  <2>1. ClaimCalm /\ UNCHANGED <<db, bk, past>>
    BY <1>2 DEF vars, ClaimCalm
  <2>2. BkClaims'
    BY <2>1 DEF ClaimInv, BkClaims, Target
  <2> QED
    BY <2>1, <2>2, CalmClaims DEF ClaimInv
<1> QED
  BY <1>1, <1>2

\* A record of the point-in-time restore that is stored as final claims what holds.
LEMMA StoredTruthful ==
  ASSUME Inv, ClaimInv, ClaimInv', Next, stored'.status \in Final, stored.status \notin Final
  PROVE  Truthful'
<1>1. ASSUME stored' = rec', Claims(rec)', Completes(rec)' PROVE Truthful'
  BY <1>1 DEF Truthful, Claims, Completes, Reached
<1>2. ASSUME p.pc \in Before \cup Swapping, rec'.status = rec.status, stored' = rec' \/ stored' = stored PROVE FALSE
  BY <1>2 DEF ClaimInv, RunClaims, Final
<1>3. ASSUME NEW inPlace \in BOOLEAN, NEW keep \in BOOLEAN, StartPITR(inPlace, keep) PROVE FALSE
  BY <1>3, StartsPITR DEF Inv, Final
<1>4. CASE SnapshotClones \/ PreparePause
  BY <1>2, <1>4, Earlies DEF Inv, Early
<1>5. CASE BeginSwap \/ Swapped
  BY <1>2, <1>5, SwapBegun, OneSwapped DEF Inv, Before, Swapping
<1>6. CASE FinishRestore \/ SaveDeferred
  <2>1. stored' = rec' /\ p'.pc \in Ending
    BY <1>6 DEF FinishRestore, SaveDeferred, Save, Inv, LifeInv, TypeOK, Goroutines, Ending
  <2> QED
    BY <1>1, <2>1 DEF ClaimInv, RunClaims
<1>7. CASE MarkInterrupted
  <2>1. life.state = "mark" /\ UNCHANGED <<clone, past>> /\ stored.status = "in_progress" /\ stored' = rec'
        /\ rec' = [rec EXCEPT !.status = "failed"]
    BY <1>7 DEF MarkInterrupted, Interrupted, Save, data
  <2>2. /\ rec'.status = "failed" /\ rec'.claim = rec.claim /\ rec'.swapped = rec.swapped /\ rec'.clones = rec.clones
    BY <2>1 DEF Inv, TypeOK, Records
  <2>3. Claims(rec)
    BY <2>1 DEF ClaimInv, StoredClaims
  <2>4. \A d \in Databases : Reached(d)' <=> Reached(d)
    BY <2>1, ReachedSame
  <2>5. Claims(rec)' /\ Completes(rec)'
    BY <2>1, <2>2, <2>3, <2>4 DEF Claims, Completes
  <2> QED
    BY <1>1, <2>1, <2>5
<1> QED
  BY <1>3, <1>4, <1>5, <1>6, <1>7, StoredWriters

\* A restore of a backup that is over is recorded as what it was, ...
LEMMA OverTruthful ==
  ASSUME Inv, Inv', BkClaims, Next, bk'.pc = "over", bk.pc # "over"
  PROVE  BkTruthful'
<1> USE DEF Inv
<1>1. ASSUME NEW d \in Databases, NEW inPlace \in BOOLEAN, StartRestore(d, inPlace) PROVE FALSE
  BY <1>1 DEF StartRestore, NoBackup
<1>2. CASE Refused \/ Mongorestore \/ ToolDone \/ ToolFails \/ Checked \/ PostRestore
  BY <1>2, BkWalks DEF BkWalk, Over
<1>3. CASE CancelRestore \/ Stop \/ MarkInterrupted \/ SaveRestoreLater
  <2>1. bk'.pc = bk.pc
    BY <1>3 DEF CancelRestore, Stop, MarkInterrupted, SaveRestoreLater, TypeOK, BackupRestores
  <2> QED
    BY <2>1
<1>4. CASE Exit \/ ExitAnyway \/ Crash
  <2>1. bk' = [bk EXCEPT !.pc = "over", !.note = "interrupted", !.outcome = "none"]
    BY <1>4 DEF Exit, ExitAnyway, Crash, Lost
  <2>2. bk'.note = "interrupted" /\ bk'.outcome = "none"
    BY <2>1 DEF TypeOK, BackupRestores
  <2> QED
    BY <2>2 DEF BkTruthful
<1>5. CASE SaveRestore
  <2> DEFINE over == [bk EXCEPT !.pc = "over", !.outcome = IF @ = "cancelled" THEN @ ELSE "failed"]
  <2>1. bk.pc = "save" /\ UNCHANGED <<db, past>>
    BY <1>5 DEF SaveRestore, data
  <2>2. ASSUME bk'.inPlace = bk.inPlace, bk'.d = bk.d, bk'.clone = bk.clone, bk'.note = bk.note, bk'.outcome \in {bk.outcome, "failed"}
        PROVE  BkTruthful'
    BY <2>1, <2>2 DEF BkClaims, BkTruthful, Target
  <2>3. CASE bk' = [bk EXCEPT !.pc = "over", !.status = bk.outcome] \/ bk' = [bk EXCEPT !.pc = "over"] \/ bk' = over
    BY <2>2, <2>3 DEF TypeOK, BackupRestores
  <2>4. CASE bk' \in {[over EXCEPT !.clone = "none", !.note = "dropped"], [over EXCEPT !.note = "manual"]}
    <3>1. bk'.outcome # "completed" /\ (bk'.note = "manual" \/ (bk'.note = "dropped" /\ bk'.clone = "none"))
      BY <2>4 DEF TypeOK, BackupRestores
    <3> QED
      BY <3>1 DEF BkTruthful
  <2> QED
    BY <1>5, <2>3, <2>4 DEF SaveRestore
<1> QED
  BY <1>1, <1>2, <1>3, <1>4, <1>5, BkWriters

\* ... and its record is stored with that outcome, or as failed.
LEMMA StatusOutcome ==
  ASSUME Inv, Next, bk'.status \in Final, bk.status \notin Final
  PROVE  bk'.status \in {bk'.outcome, "failed"}
<1> USE DEF Inv
<1>1. ASSUME NEW d \in Databases, NEW inPlace \in BOOLEAN, StartRestore(d, inPlace) PROVE FALSE
  BY <1>1 DEF StartRestore, NoBackup, Final
<1>2. CASE Refused \/ Mongorestore \/ ToolDone \/ ToolFails \/ Checked \/ PostRestore
  BY <1>2, BkWalks DEF BkWalk
<1>3. CASE CancelRestore \/ Stop \/ Exit \/ ExitAnyway \/ Crash
  <2>1. bk'.status = bk.status
    BY <1>3 DEF CancelRestore, Stop, Exit, ExitAnyway, Crash, Lost, TypeOK, BackupRestores
  <2> QED
    BY <2>1
<1>4. CASE SaveRestore
  <2> DEFINE over == [bk EXCEPT !.pc = "over", !.outcome = IF @ = "cancelled" THEN @ ELSE "failed"]
  <2>1. \/ bk' = [bk EXCEPT !.pc = "over", !.status = bk.outcome] \/ bk' = [bk EXCEPT !.pc = "over"] \/ bk' = over
        \/ bk' \in {[over EXCEPT !.clone = "none", !.note = "dropped"], [over EXCEPT !.note = "manual"]}
    BY <1>4 DEF SaveRestore
  <2>2. bk'.status = bk.status \/ bk'.status = bk'.outcome
    BY <2>1 DEF TypeOK, BackupRestores
  <2> QED
    BY <2>2
<1>5. CASE SaveRestoreLater \/ MarkInterrupted
  BY <1>5 DEF SaveRestoreLater, MarkInterrupted, TypeOK, BackupRestores
<1> QED
  BY <1>1, <1>2, <1>3, <1>4, <1>5, BkWriters

\* Where the progress of the restore can be stored, the record of a restore that ended, that a
\* stop or a crash interrupted, or that could not be stored at once claims nothing that does not
\* hold: originals said to be untouched were not reached, those said to hold the restored state
\* do, clones that are there are named, and clones said to be kept are there, but for those of a
\* restore that was cut after its last swap.  A restore of a backup said to be completed left the
\* backup's state, unless mongorestore printed no counts of it, which the record warns of, or a
\* copy that outlived its process wrote there.
THEOREM OutcomeSafe == SavesFail = FALSE => (Spec => OutcomeTruthful)
<1> SUFFICES ASSUME SavesFail = FALSE PROVE Spec => OutcomeTruthful
  OBVIOUS
<1> DEFINE I == Inv /\ SavedInv /\ ClaimInv
           A == /\ stored'.status \in Final /\ stored.status \notin Final => Truthful'
                /\ bk'.pc = "over" /\ bk.pc # "over" => BkTruthful'
                /\ bk'.status \in Final /\ bk.status \notin Final => bk'.status \in {bk'.outcome, "failed"}
<1>1. Init => I
  BY InitInv, ClaimInit
<1>2. I /\ [Next]_vars => I'
  <2> SUFFICES ASSUME Inv, SavedInv, ClaimInv, [Next]_vars PROVE Inv' /\ SavedInv' /\ ClaimInv'
    OBVIOUS
  <2>1. Inv'
    BY InvNext
  <2>2. ClaimInv'
    BY <2>1, ClaimNext
  <2>3. CASE Next
    BY <2>1, <2>2, <2>3, SavedInvNext DEF Inv
  <2>4. CASE UNCHANGED vars
    BY <2>1, <2>2, <2>4 DEF vars, SavedInv, Reached, Ready
  <2> QED
    BY <2>1, <2>2, <2>3, <2>4
<1>3. I /\ I' /\ [Next]_vars => [A]_vars
  <2> SUFFICES ASSUME Inv, Inv', ClaimInv, ClaimInv', Next PROVE A
    OBVIOUS
  <2>1. BkClaims
    BY DEF ClaimInv
  <2> QED
    BY <2>1, StoredTruthful, OverTruthful, StatusOutcome
<1> QED
  BY <1>1, <1>2, <1>3, PTL DEF Spec, OutcomeTruthful
=============================================================================
