---------------------------- MODULE DatabaseSwap ----------------------------
(***************************************************************************)
(* The replacement of the metadata database by a metadata snapshot         *)
(* (store/replace.go): the journal, the copy of the previous database, the *)
(* rename, the retention of copies, and RecoverReplace, which settles what *)
(* a crash interrupted.  A takeover (app/ha_handover.go, restoreWithRetry) *)
(* tries a few times and opens the App again whatever the outcome.         *)
(*                                                                         *)
(* A file is known by its content.  A copy made as a hard link is the      *)
(* database file itself until the rename gives the name of the database to *)
(* another file.  The data directory has a database: the App has opened it *)
(* before.  What is synced survives a crash; a journal whose write is cut  *)
(* short is torn, since it is truncated and written in place.              *)
(*                                                                         *)
(* No name of this module is one of HAFailover, which TakeoverProofs       *)
(* extends together with it.                                               *)
(***************************************************************************)
EXTENDS Integers, FiniteSets

CONSTANTS
    Contents,     \* contents of a complete database
    Partial,      \* the content of a copy that was cut short
    NoFile,       \* the content of a file that does not exist
    KeepCopies,   \* Replacement.Keep
    Attempts,     \* haTakeoverAttempts
    ClockSetBack, \* whether the wall clock may be set back
    MaxName       \* bound on the times that name copies

ASSUME DatabaseSwapConstants ==
    /\ Partial \notin Contents /\ NoFile \notin Contents /\ Partial # NoFile
    /\ {KeepCopies, Attempts} \subseteq Nat \ {0}
    /\ ClockSetBack \in BOOLEAN
    /\ MaxName \in Nat

VARIABLES
    db,      \* the database
    new,     \* the replacement file
    copies,  \* the kept copies: name (a time), content, whether it is the database file
    journal, \* the journal of the replacement
    pc,      \* where the process is
    tries,   \* attempts of this takeover
    stamp,   \* the time of the last copy
    prev     \* the database that the last rename replaced

swapVars == <<db, new, copies, journal, pc, tries, stamp, prev>>

NoJournal == [phase |-> "none", sum |-> NoFile, backup |-> 0]
Torn == [phase |-> "torn", sum |-> NoFile, backup |-> 0]

SwapInit ==
    /\ db \in Contents
    /\ new = NoFile /\ copies = {} /\ journal = NoJournal
    /\ pc = "down" /\ tries = 0 /\ stamp = 0 /\ prev = NoFile

Reached(step) == pc = step
Goto(step) == pc' = step

-----------------------------------------------------------------------------
(* The App. *)

\* RecoverReplace: the content of the database decides whether the swap happened.
Unreadable == journal.phase = "torn"
Swapped == db = journal.sum
Settle ==
    /\ ~Unreadable
    /\ new' = IF journal.phase # "none" /\ ~Swapped THEN NoFile ELSE new
    /\ journal' = NoJournal

\* New opens the App once an interrupted replacement is settled, or refuses.
Open ==
    /\ pc \in {"down", "opening"}
    /\ \/ Settle /\ Goto("serving")
       \/ Unreadable /\ Goto("refused") /\ UNCHANGED <<new, journal>>
    /\ UNCHANGED <<db, copies, tries, stamp, prev>>

\* An operator checks the database by hand and removes the journal.
Repair ==
    /\ Reached("refused")
    /\ journal' = NoJournal
    /\ Goto("down")
    /\ UNCHANGED <<db, new, copies, tries, stamp, prev>>

\* The App writes to the database file, under whatever names it has.
ChangeDatabase(c) ==
    /\ Reached("serving") /\ c # db
    /\ db' = c
    /\ copies' = {[k EXCEPT !.data = IF k.live THEN c ELSE @] : k \in copies}
    /\ UNCHANGED <<new, journal, pc, tries, stamp, prev>>

\* The App is closed, a takeover restores a snapshot.
Takeover ==
    /\ Reached("serving")
    /\ Goto("idle")
    /\ tries' = 0
    /\ UNCHANGED <<db, new, copies, journal, stamp, prev>>

-----------------------------------------------------------------------------
(* restoreSnapshot, one attempt. *)

\* FetchSnapshot writes the snapshot to a directory of its own.
Fetch(c) ==
    /\ Reached("idle")
    /\ new' = c
    /\ tries' = tries + 1
    /\ Goto("fetched")
    /\ UNCHANGED <<db, copies, journal, stamp, prev>>

\* The journal of an earlier attempt is settled (its replacement file is gone),
\* the candidate checked, both databases checkpointed; or one of that fails.
Prepare ==
    /\ Reached("fetched")
    /\ ~Unreadable
    /\ journal' = NoJournal
    /\ pc' \in {"checked", "aborted"}
    /\ UNCHANGED <<db, new, copies, tries, stamp, prev>>

PrepareRefused ==
    /\ Reached("fetched")
    /\ Unreadable
    /\ Goto("aborted")
    /\ UNCHANGED <<db, new, copies, journal, tries, stamp, prev>>

\* Mutant: a copy of the same second is not looked for.
NamesOfSecond == {t \in 1..MaxName : ClockSetBack \/ t >= stamp}

\* The time names the copy of the previous database.
Names == {t \in 1..MaxName : (ClockSetBack \/ t > stamp) /\ \A k \in copies : k.name # t}

WriteJournal(t) ==
    /\ Reached("checked")
    /\ journal' = [phase |-> "journaled", sum |-> new, backup |-> t]
    /\ stamp' = t
    /\ Goto("journaled")
    /\ UNCHANGED <<db, new, copies, tries, prev>>

\* The journal cannot be created, or it cannot be written: the error is returned
\* as it is.
WriteJournalFails ==
    /\ Reached("checked")
    /\ journal' \in {journal, Torn}
    /\ Goto("aborted")
    /\ UNCHANGED <<db, new, copies, tries, stamp, prev>>

\* abort: the journal goes.
Abort ==
    /\ journal' = NoJournal
    /\ Goto("aborted")
    /\ UNCHANGED <<db, new, tries, stamp, prev>>

Copy(d, l) == [name |-> journal.backup, data |-> d, live |-> l]
OtherCopies == {k \in copies : k.name # journal.backup}

KeepLink ==
    /\ Reached("journaled")
    /\ copies' = OtherCopies \cup {Copy(db, TRUE)}
    /\ Goto("linked")
    /\ UNCHANGED <<db, new, journal, tries, stamp, prev>>

\* Without hard links the database is copied.
CopyBegins ==
    /\ Reached("journaled")
    /\ copies' = OtherCopies \cup {Copy(Partial, FALSE)}
    /\ Goto("copying")
    /\ UNCHANGED <<db, new, journal, tries, stamp, prev>>

CopyEnds ==
    /\ Reached("copying")
    /\ copies' = OtherCopies \cup {Copy(db, FALSE)}
    /\ Goto("linked")
    /\ UNCHANGED <<db, new, journal, tries, stamp, prev>>

KeepFails ==
    /\ pc \in {"journaled", "copying"}
    /\ copies' = OtherCopies
    /\ Abort

\* setPhase
SetPhase(from, phase) ==
    /\ Reached(from)
    /\ journal' = [journal EXCEPT !.phase = phase]
    /\ Goto(phase)
    /\ UNCHANGED <<db, new, copies, tries, stamp, prev>>

SetKept == SetPhase("linked", "kept")
\* Mutant: the journal says swapped before the rename.
SetSwappingEarly ==
    /\ Reached("kept")
    /\ journal' = [journal EXCEPT !.phase = "swapped"]
    /\ Goto("swapping")
    /\ UNCHANGED <<db, new, copies, tries, stamp, prev>>
SetSwapping == SetPhase("kept", "swapping")
SetSwapped == SetPhase("renamed", "swapped")

\* The phase cannot be written, or the rename fails.
SwapFails ==
    /\ pc \in {"linked", "kept", "swapping"}
    /\ UNCHANGED copies
    /\ Abort

\* The rename gives the name of the database to the replacement.
Rename ==
    /\ Reached("swapping")
    /\ db' = new
    /\ new' = NoFile
    /\ copies' = {[k EXCEPT !.live = FALSE] : k \in copies}
    /\ prev' = db
    /\ Goto("renamed")
    /\ UNCHANGED <<journal, tries, stamp>>

\* After the swap a journal that cannot be written is only reported.
SetSwappedFails ==
    /\ Reached("renamed")
    /\ journal' = Torn
    /\ Goto("swapped")
    /\ UNCHANGED <<db, new, copies, tries, stamp, prev>>

\* restrictPermissions or the removal of the journal fails.
FinishFails ==
    /\ Reached("swapped")
    /\ Goto("failed")
    /\ UNCHANGED <<db, new, copies, journal, tries, stamp, prev>>

RemoveJournal ==
    /\ Reached("swapped")
    /\ journal' = NoJournal
    /\ Goto("pruning")
    /\ UNCHANGED <<db, new, copies, tries, stamp, prev>>

\* pruneBackups: the oldest copies beyond Keep go, by their names.
\* Mutant: the order of the names is reversed.
PruneNewest ==
    /\ Reached("pruning")
    /\ copies' = {k \in copies : Cardinality({l \in copies : l.name < k.name}) < KeepCopies}
    /\ Goto("opening")
    /\ UNCHANGED <<db, new, journal, tries, stamp, prev>>
PruneBackups ==
    /\ Reached("pruning")
    /\ copies' = {k \in copies : Cardinality({l \in copies : l.name > k.name}) < KeepCopies}
    /\ Goto("opening")
    /\ UNCHANGED <<db, new, journal, tries, stamp, prev>>

\* restoreWithRetry: restoreSnapshot removes its directory; another attempt
\* follows, or the takeover fails and the App is opened again.
Retry ==
    /\ pc \in {"aborted", "failed"}
    /\ new' = NoFile
    /\ \/ tries < Attempts /\ Goto("idle")
       \/ tries >= Attempts /\ Goto("opening")
    /\ UNCHANGED <<db, copies, journal, tries, stamp, prev>>

\* The process dies, maybe while it writes the journal.
SwapCrash ==
    /\ pc \notin {"down", "refused"}
    /\ Goto("down")
    /\ \/ UNCHANGED journal
       \/ pc \in {"checked", "linked", "kept", "renamed"} /\ journal' = Torn
    /\ UNCHANGED <<db, new, copies, tries, stamp, prev>>

-----------------------------------------------------------------------------
SwapNext ==
    \/ Open \/ Repair \/ Takeover \/ SwapCrash
    \/ \E c \in Contents : ChangeDatabase(c) \/ Fetch(c)
    \/ Prepare \/ PrepareRefused
    \/ \E t \in Names : WriteJournal(t)
    \/ WriteJournalFails \/ KeepLink \/ CopyBegins \/ CopyEnds \/ KeepFails
    \/ SetKept \/ SetSwapping \/ SwapFails \/ Rename \/ SetSwapped \/ SetSwappedFails
    \/ FinishFails \/ RemoveJournal \/ PruneBackups \/ Retry

SwapSpec == SwapInit /\ [][SwapNext]_swapVars

-----------------------------------------------------------------------------
(* Properties. *)

Files == Contents \cup {NoFile}
SwapTypes ==
    /\ db \in Contents /\ new \in Files /\ prev \in Files
    /\ copies \subseteq [name : 1..MaxName, data : Contents \cup {Partial}, live : BOOLEAN]
    /\ journal \in [phase : {"none", "torn", "journaled", "kept", "swapping", "swapped"}, sum : Files, backup : 0..MaxName]
    /\ pc \in {"down", "refused", "serving", "idle", "fetched", "checked", "journaled", "copying", "linked", "kept",
               "swapping", "renamed", "swapped", "pruning", "opening", "aborted", "failed"}
    /\ tries \in 0..Attempts /\ stamp \in 0..MaxName

\* Whatever fails or crashes afterwards, the database that the last swap replaced
\* is still there, complete, as one of the kept copies.
PreviousKept == prev # NoFile => \E k \in copies : k.data = prev /\ ~k.live

\* The copy that the journal names is a complete database.
HasCopy == \E k \in copies : k.name = journal.backup /\ k.data # Partial

\* What RecoverReplace can rely on when a crash comes at any moment: until the
\* rename the replacement is where it was, afterwards it is the database, and from
\* the phase "kept" on the copy that the journal names is a complete database.
JournalTruthful ==
    /\ journal.phase \in {"journaled", "kept"} => new = journal.sum
    /\ journal.phase = "swapping" => new = journal.sum \/ db = journal.sum
    /\ journal.phase = "swapped" => db = journal.sum
    /\ journal.phase \in {"kept", "swapping", "swapped"} => HasCopy

\* Where the process is, what its journal says, and which copy is the previous
\* database.
BeforeSwap == {"journaled", "copying", "linked", "kept", "swapping"}
AfterSwap == {"renamed", "swapped", "pruning"}
Journaling ==
    /\ pc \in BeforeSwap \cup {"renamed"} => journal.backup = stamp /\ stamp > 0
    /\ pc \in {"journaled", "copying", "linked"} => journal.phase = "journaled"
    /\ pc = "kept" => journal.phase = "kept"
    /\ pc \in {"swapping", "renamed"} => journal.phase = "swapping"
    /\ pc = "renamed" => db = journal.sum
    /\ pc \in BeforeSwap \cup {"fetched", "checked"} => new \in Contents
    /\ pc \in BeforeSwap => new = journal.sum
    /\ pc \in {"checked", "pruning", "serving"} => journal = NoJournal
    /\ pc = "aborted" => journal \in {NoJournal, Torn}
    /\ journal.phase = "torn" => journal = Torn
    /\ pc = "idle" => tries < Attempts
    /\ pc \in {"idle", "fetched", "failed", "swapped"} => journal.phase \in {"none", "torn", "swapped"}
IsPrevious(k) ==
    /\ k.data = prev
    /\ ~k.live
    /\ (pc \in BeforeSwap => k.name # stamp)
    /\ (pc \in AfterSwap => k.name = stamp)
Copying ==
    /\ \A k \in copies : k.name <= stamp
    /\ pc = "journaled" => \A k \in copies : k.name < stamp
    /\ pc \in {"linked", "kept", "swapping"} => \E k \in copies : k.name = stamp /\ k.data = db
    /\ prev # NoFile => \E k \in copies : IsPrevious(k)

\* The whole invariant: at every step of a replacement, and after a failure or a
\* crash of any step, the journal, the files and the copies agree, and no copy is
\* overwritten by one of the same name.
SwapInv == SwapTypes /\ Journaling /\ Copying /\ JournalTruthful
=============================================================================
