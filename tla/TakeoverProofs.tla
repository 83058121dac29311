--------------------------- MODULE TakeoverProofs ---------------------------
(***************************************************************************)
(* Proofs about a takeover: about the handover of the metadata between the *)
(* instances (HAFailover), for any set of instances, any history of the    *)
(* cluster and any bounds; and, at the end of the module, about the        *)
(* replacement of the database that a takeover restores (DatabaseSwap).    *)
(*                                                                         *)
(* Two invariants of HAFailover are inductive.  FInv needs only that       *)
(* nobody interferes by hand: every epoch has one writer, the newest       *)
(* snapshot is never deleted, and no mark is on record that no snapshot    *)
(* answers.  SInv says what the databases and the snapshots include; it    *)
(* also needs that no clock is set back and that no lease is regained      *)
(* during a takeover.                                                      *)
(***************************************************************************)
EXTENDS HAFailover, DatabaseSwap, FiniteSetTheorems, TLAPS

Managers ==
    [role : {"standby", "active"}, expired : BOOLEAN, epoch : 0..MaxEpoch, mark : Marks, signed : BOOLEAN,
     pred : [trust : Trusts, epoch : 0..MaxEpoch, named : Marks, mark : Marks], seenMark : Marks, seenEpoch : 0..MaxEpoch]
Overrides == [kind : {"none", "local", "snapshot"}, snap : Snapshots]
Disks ==
    [data : Data, lastActive : 0..MaxEpoch, high : Marks, seen : BOOLEAN, authentic : BOOLEAN, override : Overrides]
Reasons ==
    {"lease_missing", "lease_untrusted", "lease_replayed", "lease_stale", "legacy_after_upgrade",
     "snapshot_behind_lease", "snapshot_behind_local"}
Supervisors ==
    [phase : Phases, snap : Snapshots, forced : BOOLEAN, empty : BOOLEAN, reasons : SUBSET Reasons]
Tasks == [stage : Stages, snap : Snapshots, drop : SUBSET Snapshots]

Types ==
    /\ lease \in [there : BOOLEAN, holder : Instances \cup {NoHolder}, epoch : 0..MaxEpoch, mark : Marks,
                  mac : {"none", "valid", "wrong"}, back : BOOLEAN]
    /\ snaps \in SUBSET Snapshots /\ uploads \in SUBSET Snapshots
    /\ mgr \in [Instances -> Managers] /\ disk \in [Instances -> Disks]
    /\ sup \in [Instances -> Supervisors] /\ task \in [Instances -> Tasks]
    /\ clock \in SUBSET (0..MaxTime) /\ hand = 0 /\ stored \in Data
    /\ \A i \in Instances : disk[i].override = NoOverride /\ ~sup[i].forced

-----------------------------------------------------------------------------
(* Epochs. *)

Active(i) == mgr[i].role = "active"
Busy(i) == task[i].stage # "idle"

\* Every snapshot that is stored, on its way, or being taken.
Written == snaps \cup uploads \cup {task[i].snap : i \in {j \in Instances : Busy(j)}}

EpochInv ==
    /\ \A s \in Written : 0 < s.mark[1] /\ s.mark[1] <= lease.epoch
    /\ \A s, t \in Written : s.mark[1] = t.mark[1] => s.by = t.by
    /\ \A i \in Instances : mgr[i].seenEpoch <= lease.epoch /\ disk[i].lastActive <= lease.epoch
    /\ \A i \in Instances : disk[i].lastActive = lease.epoch => lease.holder \in {i, NoHolder}
    /\ lease.epoch = 0 => lease.holder = NoHolder
ActiveInv ==
    \A i \in Instances : Active(i) =>
      /\ 0 < mgr[i].epoch /\ mgr[i].epoch <= lease.epoch
      /\ mgr[i].epoch = lease.epoch => lease.holder \in {i, NoHolder}
      /\ ~mgr[i].expired => lease.holder = i /\ lease.epoch = mgr[i].epoch
      /\ \A s \in Written : s.mark[1] = mgr[i].epoch => s.by = i
      /\ \A s \in Written : ~s.header => s.mark[1] < mgr[i].epoch
      /\ \A j \in Instances : Active(j) /\ mgr[i].epoch = mgr[j].epoch => i = j

-----------------------------------------------------------------------------
(* Retention. *)

\* No stored snapshot is newer than s.
Leads(s) == \A t \in snaps : ~Before(s.mark, t.mark)
\* A takeover finds a snapshot at least as new as m.
Avail(m) == m = NoMark \/ \E s \in snaps : ~Before(s.mark, m)

KeepInv ==
    /\ snaps # {} => \E s \in snaps : Leads(s)
    /\ \A i \in Instances : \A s \in task[i].drop : ~Leads(s)
    /\ \A s, t \in Written : ~s.header /\ t.header => s.mark[1] < t.mark[1]
MarkInv ==
    /\ Avail(lease.mark)
    /\ \A i \in Instances :
         /\ Avail(mgr[i].mark) /\ Avail(mgr[i].seenMark) /\ Avail(TakeoverMark(i))
         /\ task[i].stage = "stored" => Avail(task[i].snap.mark)

FInv == Types /\ EpochInv /\ ActiveInv /\ KeepInv /\ MarkInv

-----------------------------------------------------------------------------
(* What the snapshots and the databases include. *)

Running(i) == sup[i].phase \in {"starting", "serving", "stopping"}
Ahead(i) == sup[i].phase \in {"standby", "restoring", "confirming", "opening"}

\* D includes what was stored, or a snapshot of an epoch after e was.
Has(D, e) == stored \subseteq D \/ \E s \in snaps : s.mark[1] > e

DataInv ==
    /\ \A s \in Written : s.mark[2] \in clock
    /\ \A s, t \in Written : s.mark[1] = t.mark[1] /\ s.mark[2] <= t.mark[2] => s.data \subseteq t.data
    /\ \A s \in Written : Leads(s) => stored \subseteq s.data
    /\ snaps = {} => stored = {}
WorkInv ==
    \A i \in Instances :
      /\ Busy(i) => Running(i) /\ task[i].snap.data \subseteq disk[i].data
      /\ sup[i].phase = "down" => ~Active(i)
      /\ Active(i) /\ Running(i) => \A s \in Written : s.mark[1] = mgr[i].epoch => s.data \subseteq disk[i].data
      /\ Active(i) /\ Ahead(i) => \A s \in Written : s.mark[1] # mgr[i].epoch
HasInv ==
    \A i \in Instances :
      /\ Has(disk[i].data, disk[i].lastActive)
      /\ sup[i].phase = "restoring" =>
           Has(sup[i].snap.data, disk[i].lastActive) /\ (Active(i) => Has(sup[i].snap.data, mgr[i].epoch))
      /\ sup[i].phase \in {"confirming", "opening"} \/ Running(i) => (Active(i) => Has(disk[i].data, mgr[i].epoch))

SInv == DataInv /\ WorkInv /\ HasInv

-----------------------------------------------------------------------------
(* Marks, and the operators of the model. *)

LEMMA Constants ==
    /\ NoHolder \notin Instances /\ Keep \in Nat /\ 0 < Keep
    /\ MaxEpoch \in Nat /\ MaxTime \in Nat /\ MaxChange \in Nat
    /\ SetBack \in BOOLEAN /\ Regain \in BOOLEAN
  BY HAFailoverConstants

LEMMA MarkType ==
  ASSUME NEW m \in Marks
  PROVE  m[1] \in 0..MaxEpoch /\ m[2] \in 0..MaxTime /\ m = <<m[1], m[2]>> /\ m[1] \in Nat /\ m[2] \in Nat
  BY Constants DEF Marks

\* The marks are totally ordered.
LEMMA MarkOrder ==
  ASSUME NEW m \in Marks, NEW n \in Marks, NEW p \in Marks
  PROVE  /\ Before(m, n) => ~Before(n, m)
         /\ ~Before(m, m)
         /\ ~Before(m, n) /\ ~Before(n, p) => ~Before(m, p)
         /\ Before(m, n) /\ ~Before(p, n) => Before(m, p)
         /\ Before(m, n) \/ Before(n, m) \/ m = n
<1>1. m[1] \in Nat /\ m[2] \in Nat /\ n[1] \in Nat /\ n[2] \in Nat /\ p[1] \in Nat /\ p[2] \in Nat
  BY MarkType
<1>2. m = <<m[1], m[2]>> /\ n = <<n[1], n[2]>>
  BY MarkType
<1> QED
  BY <1>1, <1>2 DEF Before

LEMMA NoTypes ==
    /\ NoMark \in Marks /\ NoMark[1] = 0 /\ NoMark[2] = 0 /\ {} \in Data
    /\ NoSnapshot \in Snapshots /\ ~NoSnapshot.header
    /\ NoTask \in Tasks /\ NoTask.stage = "idle" /\ NoTask.drop = {}
    /\ NoOverride \in Overrides
    /\ NewManager \in Managers /\ NewManager.role = "standby" /\ NewManager.mark = NoMark
    /\ NewManager.seenMark = NoMark /\ NewManager.seenEpoch = 0
<1>1. NoMark \in Marks /\ NoMark[1] = 0 /\ NoMark[2] = 0 /\ {} \in Data
  BY Constants DEF NoMark, Marks, Data
<1>2. NoSnapshot \in Snapshots /\ ~NoSnapshot.header
  BY <1>1 DEF NoSnapshot, Snapshots
<1>3. NoTask \in Tasks /\ NoTask.stage = "idle" /\ NoTask.drop = {}
  BY <1>2 DEF NoTask, Tasks, Stages
<1>4. NoOverride \in Overrides
  BY <1>2 DEF NoOverride, Overrides
<1>5. NewManager \in Managers /\ NewManager.role = "standby" /\ NewManager.mark = NoMark
      /\ NewManager.seenMark = NoMark /\ NewManager.seenEpoch = 0
  BY <1>1, Constants DEF NewManager, NoPredecessor, Managers, Trusts
<1> QED
  BY <1>1, <1>2, <1>3, <1>4, <1>5

LEMMA SupervisingType ==
  ASSUME NEW p \in Phases
  PROVE  /\ Supervising(p) \in Supervisors /\ Supervising(p).phase = p /\ ~Supervising(p).forced
         /\ Supervising(p).snap = NoSnapshot
  BY NoTypes DEF Supervising, Supervisors

LEMMA LaterMarkFacts ==
  ASSUME NEW m \in Marks, NEW n \in Marks
  PROVE  LaterMark(m, n) \in Marks /\ LaterMark(m, n) \in {m, n}
  BY DEF LaterMark

LEMMA SuspicionsType == ASSUME NEW i \in Instances PROVE Suspicions(i) \in SUBSET Reasons
  BY DEF Suspicions, Reasons

LEMMA WrittenIff ==
  ASSUME NEW s
  PROVE  /\ s \in Written <=> s \in snaps \/ s \in uploads \/ \E i \in Instances : Busy(i) /\ s = task[i].snap
         /\ s \in Written' <=> s \in snaps' \/ s \in uploads' \/ \E i \in Instances : Busy(i)' /\ s = task'[i].snap
<1>1. s \in Written <=> s \in snaps \/ s \in uploads \/ \E i \in Instances : Busy(i) /\ s = task[i].snap
  BY DEF Written
<1>2. s \in Written' <=> s \in snaps' \/ s \in uploads' \/ \E i \in Instances : Busy(i)' /\ s = task'[i].snap
  BY DEF Written
<1> QED
  BY <1>1, <1>2

LEMMA WrittenType ==
  ASSUME Types, NEW s \in Written
  PROVE  s \in Snapshots /\ s.mark \in Marks /\ s.header \in BOOLEAN /\ s.data \in Data
         /\ s.mark[1] \in Nat /\ s.mark[2] \in Nat
<1>1. s \in Snapshots
  BY WrittenIff DEF Types, Tasks
<1>2. s.mark \in Marks /\ s.header \in BOOLEAN /\ s.data \in Data
  BY <1>1 DEF Snapshots
<1> QED
  BY <1>1, <1>2, MarkType

\* There is a newest snapshot, and it is the one a takeover selects.
LEMMA NewestLeads ==
  ASSUME FInv, snaps # {}
  PROVE  Newest(Candidates) \in snaps /\ Leads(Newest(Candidates))
<1>1. PICK T \in snaps : Leads(T)
  BY DEF FInv, KeepInv
<1>2. \A s \in snaps : s \in Written /\ s.mark \in Marks /\ s.header \in BOOLEAN
      /\ s.mark[1] \in Nat /\ s.mark[2] \in Nat
  BY WrittenIff, WrittenType DEF FInv
<1>3. T \in Candidates
  <2>1. CASE Legacy
    BY <2>1 DEF Candidates
  <2>2. CASE ~Legacy
    <3>1. PICK v \in snaps : v.header
      BY <2>2 DEF Legacy, Verified
    <3>2. ASSUME ~T.header PROVE FALSE
      <4>1. T.mark[1] < v.mark[1]
        BY <1>2, <3>1, <3>2 DEF FInv, KeepInv
      <4> QED
        BY <1>1, <4>1 DEF Leads, Before
    <3> QED
      BY <2>2, <3>2 DEF Candidates, Verified
  <2> QED
    BY <2>1, <2>2
<1>4. Candidates \in SUBSET snaps
  BY DEF Candidates, Verified
<1>5. \E s \in Candidates : \A t \in Candidates : ~Before(s.mark, t.mark)
  BY <1>1, <1>3, <1>4 DEF Leads
<1>6. Newest(Candidates) \in Candidates /\ \A t \in Candidates : ~Before(Newest(Candidates).mark, t.mark)
  BY <1>5 DEF Newest
<1>7. PICK N : N = Newest(Candidates)
  OBVIOUS
<1>8. N \in snaps /\ ~Before(N.mark, T.mark)
  BY <1>3, <1>4, <1>6, <1>7
<1>9. ASSUME NEW t \in snaps PROVE ~Before(N.mark, t.mark)
  <2>1. ~Before(T.mark, t.mark) /\ T.mark \in Marks /\ N.mark \in Marks /\ t.mark \in Marks
    BY <1>1, <1>2, <1>8 DEF Leads
  <2> QED
    BY <1>8, <2>1, MarkOrder
<1> QED
  BY <1>7, <1>8, <1>9 DEF Leads

\* The snapshot that leads is at least as new as whatever there was a snapshot for.
LEMMA LeadIsNewer ==
  ASSUME Types, NEW T \in snaps, Leads(T), NEW m \in Marks, Avail(m)
  PROVE  m = NoMark \/ ~Before(T.mark, m)
<1>1. SUFFICES ASSUME m # NoMark PROVE ~Before(T.mark, m)
  OBVIOUS
<1>2. PICK s \in snaps : ~Before(s.mark, m)
  BY <1>1 DEF Avail
<1>3. ~Before(T.mark, s.mark) /\ T.mark \in Marks /\ s.mark \in Marks
  BY WrittenIff, WrittenType DEF Leads
<1> QED
  BY <1>2, <1>3, MarkOrder

-----------------------------------------------------------------------------
(* Steps that write no snapshot and acquire no lease. *)

\* The snapshot that leads is not deleted.
Survives == \A s \in snaps : Leads(s) => s \in snaps'

LEMMA AvailKept ==
  ASSUME FInv, Survives, NEW m \in Marks, Avail(m)
  PROVE  Avail(m)'
<1>1. CASE m = NoMark
  BY <1>1 DEF Avail
<1>2. CASE m # NoMark
  <2>1. PICK s \in snaps : ~Before(s.mark, m)
    BY <1>2 DEF Avail
  <2>2. PICK T \in snaps : Leads(T)
    BY <2>1 DEF FInv, KeepInv
  <2>3. ~Before(T.mark, m) /\ T \in snaps'
    BY <1>2, <2>2, LeadIsNewer DEF FInv, Survives
  <2> QED
    BY <2>3 DEF Avail
<1> QED
  BY <1>1, <1>2

\* What did not lead does not lead now.
LEMMA LeadsBefore ==
  ASSUME FInv, Survives, NEW s, s.mark \in Marks, Leads(s)'
  PROVE  Leads(s)
<1>1. SUFFICES ASSUME NEW t \in snaps, Before(s.mark, t.mark) PROVE FALSE
  BY DEF Leads
<1>2. PICK T \in snaps : Leads(T)
  BY DEF FInv, KeepInv
<1>3. T.mark \in Marks /\ t.mark \in Marks /\ ~Before(T.mark, t.mark) /\ T \in snaps'
  BY <1>2, WrittenIff, WrittenType DEF FInv, Leads, Survives
<1>4. Before(s.mark, T.mark)
  BY <1>1, <1>3, MarkOrder
<1> QED
  BY <1>3, <1>4 DEF Leads

LEMMA KeepKept ==
  ASSUME FInv, Survives, snaps' \subseteq snaps, Written' \subseteq Written,
         \A i \in Instances : \A s \in task'[i].drop : s \in Snapshots /\ (s \in task[i].drop \/ ~Leads(s))
  PROVE  KeepInv'
<1>1. snaps' # {} => \E s \in snaps' : Leads(s)'
  <2>1. SUFFICES ASSUME snaps' # {} PROVE \E s \in snaps' : Leads(s)'
    OBVIOUS
  <2>2. PICK T \in snaps : Leads(T)
    BY <2>1 DEF FInv, KeepInv
  <2>3. T \in snaps' /\ Leads(T)'
    BY <2>2 DEF Survives, Leads
  <2> QED
    BY <2>3
<1>2. ASSUME NEW i \in Instances, NEW s \in task'[i].drop PROVE ~Leads(s)'
  <2>1. s.mark \in Marks /\ ~Leads(s)
    BY <1>2 DEF FInv, KeepInv, Snapshots
  <2> QED
    BY <2>1, LeadsBefore
<1>3. \A s, t \in Written' : ~s.header /\ t.header => s.mark[1] < t.mark[1]
  BY DEF FInv, KeepInv
<1> QED
  BY <1>1, <1>2, <1>3 DEF KeepInv

\* The lease keeps its epoch, and managers only lose it.
Tame ==
    /\ lease' \in [there : BOOLEAN, holder : Instances \cup {NoHolder}, epoch : 0..MaxEpoch, mark : Marks,
                   mac : {"none", "valid", "wrong"}, back : BOOLEAN]
    /\ mgr' \in [Instances -> Managers]
    /\ lease'.epoch = lease.epoch /\ lease'.holder \in {lease.holder, NoHolder}
    /\ \A i \in Instances :
         /\ mgr'[i].seenEpoch <= lease.epoch
         /\ Active(i)' => Active(i) /\ mgr'[i].epoch = mgr[i].epoch
         /\ Active(i)' /\ ~mgr'[i].expired => ~mgr[i].expired /\ lease'.holder = lease.holder
         /\ Avail(mgr'[i].mark) /\ Avail(mgr'[i].seenMark)
    /\ Avail(lease'.mark)

LEMMA SameTame == FInv /\ UNCHANGED <<lease, mgr>> => Tame
  BY DEF FInv, Types, EpochInv, MarkInv, Tame, Active

\* A step of the kind keeps the invariant.
LEMMA FStep ==
  ASSUME FInv, Tame, Types', Survives, snaps' \subseteq snaps, Written' \subseteq Written,
         \A i \in Instances : disk'[i].lastActive \in {disk[i].lastActive, 0} \/ (Active(i) /\ disk'[i].lastActive = mgr[i].epoch),
         \A i \in Instances : \A s \in task'[i].drop : s \in task[i].drop \/ ~Leads(s),
         \A i \in Instances : Avail(TakeoverMark(i)') /\ TakeoverMark(i)' \in Marks,
         \A i \in Instances : task'[i].stage = "stored" => Avail(task'[i].snap.mark)
  PROVE  FInv'
<1>1. KeepInv'
  <2>1. \A i \in Instances : \A s \in task'[i].drop : s \in Snapshots
    BY DEF Types, Tasks
  <2> QED
    BY <2>1, KeepKept
<1>2. EpochInv'
  <2>1. ASSUME NEW i \in Instances
        PROVE  /\ mgr'[i].seenEpoch <= lease'.epoch /\ disk'[i].lastActive <= lease'.epoch
               /\ disk'[i].lastActive = lease'.epoch => lease'.holder \in {i, NoHolder}
    <3>1. mgr'[i].seenEpoch <= lease.epoch /\ lease'.epoch = lease.epoch /\ lease'.holder \in {lease.holder, NoHolder}
      BY DEF Tame
    <3>2. lease.epoch \in Nat /\ (lease.epoch = 0 => lease.holder = NoHolder) /\ disk[i].lastActive <= lease.epoch
          /\ (disk[i].lastActive = lease.epoch => lease.holder \in {i, NoHolder})
      BY Constants DEF FInv, Types, EpochInv
    <3>3. Active(i) => mgr[i].epoch <= lease.epoch /\ (mgr[i].epoch = lease.epoch => lease.holder \in {i, NoHolder})
      BY DEF FInv, ActiveInv
    <3> QED
      BY <3>1, <3>2, <3>3
  <2>2. lease'.epoch = 0 => lease'.holder = NoHolder
    BY DEF FInv, EpochInv, Tame
  <2>3. /\ \A s \in Written' : 0 < s.mark[1] /\ s.mark[1] <= lease'.epoch
        /\ \A s, t \in Written' : s.mark[1] = t.mark[1] => s.by = t.by
    BY DEF FInv, EpochInv, Tame
  <2> QED
    BY <2>1, <2>2, <2>3 DEF EpochInv
<1>3. ActiveInv'
  <2>1. SUFFICES ASSUME NEW i \in Instances, Active(i)'
                 PROVE  /\ 0 < mgr'[i].epoch /\ mgr'[i].epoch <= lease'.epoch
                        /\ mgr'[i].epoch = lease'.epoch => lease'.holder \in {i, NoHolder}
                        /\ ~mgr'[i].expired => lease'.holder = i /\ lease'.epoch = mgr'[i].epoch
                        /\ \A s \in Written' : s.mark[1] = mgr'[i].epoch => s.by = i
                        /\ \A s \in Written' : ~s.header => s.mark[1] < mgr'[i].epoch
                        /\ \A j \in Instances : Active(j)' /\ mgr'[i].epoch = mgr'[j].epoch => i = j
    BY DEF ActiveInv
  <2>2. Active(i) /\ mgr'[i].epoch = mgr[i].epoch /\ (~mgr'[i].expired => ~mgr[i].expired /\ lease'.holder = lease.holder)
    BY <2>1 DEF Tame
  <2>3. /\ 0 < mgr[i].epoch /\ mgr[i].epoch <= lease.epoch
        /\ mgr[i].epoch = lease.epoch => lease.holder \in {i, NoHolder}
        /\ ~mgr[i].expired => lease.holder = i /\ lease.epoch = mgr[i].epoch
        /\ \A s \in Written : s.mark[1] = mgr[i].epoch => s.by = i
        /\ \A s \in Written : ~s.header => s.mark[1] < mgr[i].epoch
        /\ \A j \in Instances : Active(j) /\ mgr[i].epoch = mgr[j].epoch => i = j
    BY <2>2 DEF FInv, ActiveInv
  <2>4. lease'.epoch = lease.epoch /\ lease'.holder \in {lease.holder, NoHolder}
        /\ \A j \in Instances : Active(j)' => Active(j) /\ mgr'[j].epoch = mgr[j].epoch
    BY DEF Tame
  <2> QED
    BY <2>2, <2>3, <2>4
<1>4. MarkInv'
  <2>1. Avail(lease.mark)'
    BY AvailKept DEF Tame
  <2>2. ASSUME NEW i \in Instances
        PROVE  /\ Avail(mgr[i].mark)' /\ Avail(mgr[i].seenMark)' /\ Avail(TakeoverMark(i))'
               /\ task'[i].stage = "stored" => Avail(task[i].snap.mark)'
    <3>1. mgr'[i].mark \in Marks /\ mgr'[i].seenMark \in Marks /\ task'[i].snap.mark \in Marks
      BY DEF Types, Managers, Tasks, Snapshots
    <3>2. Avail(mgr[i].mark)' /\ Avail(mgr[i].seenMark)'
      BY <3>1, AvailKept DEF Tame
    <3>3. Avail(TakeoverMark(i))'
      BY AvailKept
    <3>4. task'[i].stage = "stored" => Avail(task[i].snap.mark)'
      BY <3>1, AvailKept
    <3> QED
      BY <3>2, <3>3, <3>4
  <2> QED
    BY <2>1, <2>2 DEF MarkInv
<1> QED
  BY <1>1, <1>2, <1>3, <1>4 DEF FInv

-----------------------------------------------------------------------------
(* The lease manager. *)

LEMMA SteppedDownFacts ==
  ASSUME NEW m \in Managers
  PROVE  /\ SteppedDown(m) \in Managers /\ SteppedDown(m).role = "standby" /\ SteppedDown(m).mark = NoMark
         /\ SteppedDown(m).seenMark = m.seenMark /\ SteppedDown(m).seenEpoch = m.seenEpoch
<1>1. NewManager \in Managers /\ NewManager.role = "standby" /\ NewManager.mark = NoMark
  BY NoTypes
<1>2. m.seenMark \in Marks /\ m.seenEpoch \in 0..MaxEpoch
  BY DEF Managers
<1> QED
  BY <1>1, <1>2 DEF SteppedDown, Managers

\* What is known of the manager of i and of the lease.
LEMMA ManagerFacts ==
  ASSUME FInv, NEW i \in Instances
  PROVE  /\ mgr[i] \in Managers /\ mgr[i].mark \in Marks /\ mgr[i].seenMark \in Marks /\ mgr[i].seenEpoch \in Nat
         /\ Avail(mgr[i].mark) /\ Avail(mgr[i].seenMark) /\ mgr[i].seenEpoch <= lease.epoch
         /\ lease.epoch \in Nat /\ lease.mark \in Marks /\ Avail(lease.mark)
         /\ disk[i] \in Disks /\ sup[i] \in Supervisors /\ task[i] \in Tasks
         /\ disk[i].override = NoOverride /\ ~sup[i].forced
<1>1. mgr[i] \in Managers /\ disk[i] \in Disks /\ sup[i] \in Supervisors /\ task[i] \in Tasks
      /\ lease.epoch \in 0..MaxEpoch /\ lease.mark \in Marks
      /\ disk[i].override = NoOverride /\ ~sup[i].forced
  BY DEF FInv, Types
<1>2. mgr[i].mark \in Marks /\ mgr[i].seenMark \in Marks /\ mgr[i].seenEpoch \in 0..MaxEpoch
  BY <1>1 DEF Managers
<1> QED
  BY <1>1, <1>2, Constants DEF FInv, MarkInv, EpochInv

LEMMA NoMarkAvail == Avail(NoMark)
  BY DEF Avail

\* One manager changes.
LEMMA OneTame ==
  ASSUME FInv, NEW i \in Instances, NEW m \in Managers, mgr' = [mgr EXCEPT ![i] = m],
         m.seenEpoch <= lease.epoch, Avail(m.mark), Avail(m.seenMark),
         m.role = "active" => Active(i) /\ m.epoch = mgr[i].epoch /\ (~m.expired => ~mgr[i].expired),
         \/ UNCHANGED lease
         \/ /\ lease' \in [there : BOOLEAN, holder : Instances \cup {NoHolder}, epoch : 0..MaxEpoch, mark : Marks,
                           mac : {"none", "valid", "wrong"}, back : BOOLEAN]
            /\ lease'.epoch = lease.epoch /\ Avail(lease'.mark)
            /\ lease'.holder = lease.holder \/ (lease'.holder = NoHolder /\ lease.holder = i /\ m.role # "active")
  PROVE  Tame
<1>1. mgr' \in [Instances -> Managers] /\ mgr'[i] = m /\ \A j \in Instances : j # i => mgr'[j] = mgr[j]
  BY DEF FInv, Types
<1>2. lease' \in [there : BOOLEAN, holder : Instances \cup {NoHolder}, epoch : 0..MaxEpoch, mark : Marks,
                  mac : {"none", "valid", "wrong"}, back : BOOLEAN]
      /\ lease'.epoch = lease.epoch /\ Avail(lease'.mark) /\ lease'.holder \in {lease.holder, NoHolder}
  BY DEF FInv, Types, MarkInv
<1>3. lease'.holder = lease.holder \/ (lease.holder = i /\ m.role # "active")
  OBVIOUS
<1>4. ASSUME NEW j \in Instances
      PROVE  /\ mgr'[j].seenEpoch <= lease.epoch
             /\ Active(j)' => Active(j) /\ mgr'[j].epoch = mgr[j].epoch
             /\ Active(j)' /\ ~mgr'[j].expired => ~mgr[j].expired /\ lease'.holder = lease.holder
             /\ Avail(mgr'[j].mark) /\ Avail(mgr'[j].seenMark)
  <2>1. CASE j = i
    BY <1>1, <1>3, <2>1 DEF Active
  <2>2. CASE j # i
    <3>1. mgr'[j] = mgr[j]
      BY <1>1, <2>2
    <3>2. Active(j) /\ ~mgr[j].expired => lease.holder = j
      BY DEF FInv, ActiveInv
    <3> QED
      BY <1>3, <2>2, <3>1, <3>2, ManagerFacts DEF Active
  <2> QED
    BY <2>1, <2>2
<1> QED
  BY <1>1, <1>2, <1>4 DEF Tame

\* A renewal with the content of m.
LEMMA RenewTame ==
  ASSUME FInv, NEW i \in Instances, NEW m \in Managers, Active(i), m.role = "active", m.epoch = mgr[i].epoch,
         m.expired = mgr[i].expired, m.seenEpoch <= lease.epoch, Avail(m.mark), Avail(m.seenMark), RenewAs(i, m)
  PROVE  Tame
<1>1. lease \in [there : BOOLEAN, holder : Instances \cup {NoHolder}, epoch : 0..MaxEpoch, mark : Marks,
                 mac : {"none", "valid", "wrong"}, back : BOOLEAN] /\ m.mark \in Marks
  BY DEF FInv, Types, Managers
<1>2. CASE /\ lease' = [lease EXCEPT !.mark = m.mark, !.mac = IF m.signed THEN "valid" ELSE "none"]
           /\ mgr' = [mgr EXCEPT ![i] = m]
  <2>1. /\ lease' \in [there : BOOLEAN, holder : Instances \cup {NoHolder}, epoch : 0..MaxEpoch, mark : Marks,
                       mac : {"none", "valid", "wrong"}, back : BOOLEAN]
        /\ lease'.epoch = lease.epoch /\ lease'.mark = m.mark /\ lease'.holder = lease.holder
    BY <1>1, <1>2
  <2> QED
    BY <1>2, <2>1, OneTame
<1>3. CASE mgr' = [mgr EXCEPT ![i] = SteppedDown(m)] /\ UNCHANGED lease
  <2>1. SteppedDown(m) \in Managers /\ SteppedDown(m).role = "standby" /\ Avail(SteppedDown(m).mark)
        /\ Avail(SteppedDown(m).seenMark) /\ SteppedDown(m).seenEpoch <= lease.epoch
    BY SteppedDownFacts, NoMarkAvail
  <2> QED
    BY <1>3, <2>1, OneTame
<1>4. CASE mgr' = [mgr EXCEPT ![i] = m] /\ UNCHANGED lease
  BY <1>4, OneTame
<1> QED
  BY <1>2, <1>3, <1>4 DEF RenewAs

\* A manager that gives the lease up, or whose process ends.
LEMMA GiveUpTame ==
  ASSUME FInv, NEW i \in Instances, GiveUp(i),
         mgr' = [mgr EXCEPT ![i] = NewManager] \/ mgr' = [mgr EXCEPT ![i] = SteppedDown(mgr[i])]
  PROVE  Tame
<1>1. PICK m \in {NewManager, SteppedDown(mgr[i])} : mgr' = [mgr EXCEPT ![i] = m]
  OBVIOUS
<1>2. m \in Managers /\ m.role = "standby" /\ m.seenEpoch <= lease.epoch /\ Avail(m.mark) /\ Avail(m.seenMark)
  BY NoTypes, NoMarkAvail, ManagerFacts, SteppedDownFacts
<1>3. CASE UNCHANGED lease
  BY <1>1, <1>2, <1>3, OneTame
<1>4. CASE /\ Mine(i)
           /\ lease' = [lease EXCEPT !.holder = NoHolder, !.mark = mgr[i].mark,
                                     !.mac = IF mgr[i].signed THEN "valid" ELSE "none"]
  <2>1. /\ lease' \in [there : BOOLEAN, holder : Instances \cup {NoHolder}, epoch : 0..MaxEpoch, mark : Marks,
                       mac : {"none", "valid", "wrong"}, back : BOOLEAN]
        /\ lease'.epoch = lease.epoch /\ lease'.mark = mgr[i].mark /\ lease'.holder = NoHolder
    BY <1>4, ManagerFacts DEF FInv, Types
  <2>2. lease.holder = i
    BY <1>4 DEF Mine
  <2> QED
    BY <1>1, <1>2, <2>1, <2>2, ManagerFacts, OneTame
<1> QED
  BY <1>3, <1>4 DEF GiveUp

\* Steps that leave the snapshots, the databases and their tasks alone.
LEMMA ManagersOnly ==
  ASSUME FInv, Tame, UNCHANGED <<snaps, uploads, sup, task, clock, hand, stored>>,
         disk' \in [Instances -> Disks],
         \A i \in Instances : disk'[i].lastActive = disk[i].lastActive /\ disk'[i].override = NoOverride
  PROVE  FInv'
<1>1. Types'
  BY DEF FInv, Types, Tame
<1>2. Survives /\ snaps' \subseteq snaps /\ \A i \in Instances : task'[i] = task[i] /\ TakeoverMark(i)' = TakeoverMark(i)
  BY DEF Survives, TakeoverMark
<1>3. Written' \subseteq Written
  BY WrittenIff DEF Busy
<1>4. \A i \in Instances : Avail(TakeoverMark(i)) /\ TakeoverMark(i) \in Marks
  BY NoTypes, ManagerFacts DEF FInv, MarkInv, TakeoverMark, Supervisors, Snapshots
<1>5. \A i \in Instances : task[i].stage = "stored" => Avail(task[i].snap.mark)
  BY DEF FInv, MarkInv
<1> QED
  BY <1>1, <1>2, <1>3, <1>4, <1>5, FStep

LEMMA RenewKeeps == ASSUME FInv, NEW i \in Instances, Renew(i) PROVE FInv' /\ Tame
<1>1. Active(i) /\ RenewAs(i, mgr[i]) /\ UNCHANGED <<snaps, uploads, disk, sup, task, clock, hand, stored>>
  BY DEF Renew, Active
<1>2. Tame
  BY <1>1, ManagerFacts, RenewTame DEF Active
<1> QED
  BY <1>1, <1>2, ManagerFacts, ManagersOnly DEF FInv, Types

LEMMA ExpireKeeps == ASSUME FInv, NEW i \in Instances, Expire(i) PROVE FInv' /\ Tame
<1>1. /\ mgr' = [mgr EXCEPT ![i].expired = TRUE]
      /\ UNCHANGED <<lease, snaps, uploads, disk, sup, task, clock, hand, stored>>
  BY DEF Expire
<1> DEFINE m == [mgr[i] EXCEPT !.expired = TRUE]
<1>2. m \in Managers /\ m.seenEpoch = mgr[i].seenEpoch /\ m.mark = mgr[i].mark /\ m.seenMark = mgr[i].seenMark
      /\ m.role = mgr[i].role /\ m.epoch = mgr[i].epoch /\ m.expired
  BY ManagerFacts DEF Managers
<1>3. mgr' = [mgr EXCEPT ![i] = m]
  BY <1>1
<1> HIDE DEF m
<1>4. Tame
  BY <1>1, <1>2, <1>3, ManagerFacts, OneTame DEF Active
<1> QED
  BY <1>1, <1>4, ManagerFacts, ManagersOnly DEF FInv, Types

LEMMA NoticedFacts ==
  ASSUME FInv, NEW i \in Instances
  PROVE  /\ Noticed(mgr[i]) \in Managers /\ Noticed(mgr[i]).role = mgr[i].role /\ Noticed(mgr[i]).mark = mgr[i].mark
         /\ Noticed(mgr[i]).seenEpoch = lease.epoch /\ Noticed(mgr[i]).seenMark \in Marks
         /\ Avail(Noticed(mgr[i]).seenMark)
<1>1. PICK m \in Marks : m = IF lease.mac = "valid" THEN LaterMark(mgr[i].seenMark, lease.mark) ELSE mgr[i].seenMark
  BY ManagerFacts, LaterMarkFacts
<1>2. Avail(m)
  BY <1>1, ManagerFacts, LaterMarkFacts
<1>3. Larger(mgr[i].seenEpoch, lease.epoch) = lease.epoch /\ lease.epoch \in 0..MaxEpoch
  <2>1. lease.epoch \in 0..MaxEpoch
    BY DEF FInv, Types
  <2>2. mgr[i].seenEpoch \in Nat /\ lease.epoch \in Nat /\ mgr[i].seenEpoch <= lease.epoch
    BY ManagerFacts
  <2> QED
    BY <2>1, <2>2 DEF Larger
<1>4. PICK q \in Managers : q = mgr[i]
  BY ManagerFacts
<1>5. Noticed(q) = [q EXCEPT !.seenMark = m, !.seenEpoch = lease.epoch]
  BY <1>1, <1>3, <1>4 DEF Noticed
<1>6. /\ Noticed(q) \in Managers /\ Noticed(q).role = q.role /\ Noticed(q).mark = q.mark
      /\ Noticed(q).seenEpoch = lease.epoch /\ Noticed(q).seenMark = m
  BY <1>3, <1>5 DEF Managers
<1> QED
  BY <1>2, <1>4, <1>6

LEMMA ObservedFacts ==
  ASSUME NEW d \in Disks, NEW m \in Marks
  PROVE  /\ Observed(d, m) \in Disks /\ Observed(d, m).lastActive = d.lastActive
         /\ Observed(d, m).override = d.override /\ Observed(d, m).data = d.data
<1>1. LaterMark(d.high, m) \in Marks
  BY LaterMarkFacts DEF Disks
<1> QED
  BY <1>1 DEF Observed, Disks

LEMMA SawFacts ==
  ASSUME NEW d \in Disks
  PROVE  /\ SawAuthenticLease(d) \in Disks /\ SawAuthenticLease(d).lastActive = d.lastActive
         /\ SawAuthenticLease(d).override = d.override /\ SawAuthenticLease(d).data = d.data
<1>1. PICK o \in Disks : o = Observed(d, NoMark) /\ o.lastActive = d.lastActive /\ o.override = d.override /\ o.data = d.data
  BY ObservedFacts, NoTypes
<1> QED
  BY <1>1 DEF SawAuthenticLease, Disks

\* The databases keep their content; what ha.json says of the cluster may change.
SawOnly ==
    /\ disk' \in [Instances -> Disks]
    /\ \A j \in Instances : /\ disk'[j].lastActive = disk[j].lastActive /\ disk'[j].override = disk[j].override
                            /\ disk'[j].data = disk[j].data
LEMMA SawOnlyFacts ==
  ASSUME FInv, NEW i \in Instances, NEW d \in Disks, disk' = [disk EXCEPT ![i] = d],
         d.lastActive = disk[i].lastActive, d.override = disk[i].override, d.data = disk[i].data
  PROVE  SawOnly
<1>1. disk' \in [Instances -> Disks] /\ disk'[i] = d /\ \A j \in Instances : j # i => disk'[j] = disk[j]
  BY DEF FInv, Types
<1> QED
  BY <1>1 DEF SawOnly

LEMMA ObserveKeeps == ASSUME FInv, NEW i \in Instances, Observe(i) PROVE FInv' /\ SawOnly /\ Tame
<1>1. /\ mgr[i].role = "standby" /\ mgr' = [mgr EXCEPT ![i] = Noticed(mgr[i])]
      /\ disk' = [disk EXCEPT ![i] = SawAuthenticLease(disk[i])] \/ UNCHANGED disk
      /\ UNCHANGED <<lease, snaps, uploads, sup, task, clock, hand, stored>>
  BY DEF Observe
<1>2. Tame
  <2>1. PICK m : m = Noticed(mgr[i])
    OBVIOUS
  <2>2. m \in Managers /\ m.role = "standby" /\ m.seenEpoch <= lease.epoch /\ Avail(m.mark) /\ Avail(m.seenMark)
    BY <1>1, <2>1, ManagerFacts, NoticedFacts
  <2> QED
    BY <1>1, <2>1, <2>2, OneTame
<1>3. SawOnly
  <2>1. CASE disk' = [disk EXCEPT ![i] = SawAuthenticLease(disk[i])]
    BY <2>1, ManagerFacts, SawFacts, SawOnlyFacts
  <2>2. CASE UNCHANGED disk
    BY <2>2 DEF SawOnly, FInv, Types
  <2> QED
    BY <1>1, <2>1, <2>2
<1> QED
  BY <1>1, <1>2, <1>3, ManagerFacts, ManagersOnly DEF SawOnly

-----------------------------------------------------------------------------
(* Steps of the supervisor and of its snapshots that write no object. *)

\* What a task may become: dropped, or one stage further.
TaskOn(i) ==
    \/ task'[i].stage = "idle" /\ task'[i].drop = {}
    \/ /\ Busy(i) /\ task'[i].snap = task[i].snap
       /\ \A s \in task'[i].drop : s \in task[i].drop \/ ~Leads(s)
       /\ task'[i].stage = "stored" => Avail(task[i].snap.mark)
SupOn(i) == ~sup'[i].forced /\ (sup'[i].snap.header => Avail(sup'[i].snap.mark))

LEMMA SameSup == ASSUME FInv, NEW i \in Instances, sup'[i] = sup[i] PROVE SupOn(i)
  BY ManagerFacts DEF SupOn, FInv, MarkInv, TakeoverMark

LEMMA Quiet ==
  ASSUME FInv, Tame, UNCHANGED <<snaps, uploads, clock, hand>>, stored' \in Data,
         sup' \in [Instances -> Supervisors], \A i \in Instances : SupOn(i),
         disk' \in [Instances -> Disks],
         \A i \in Instances : disk'[i].lastActive = disk[i].lastActive /\ disk'[i].override = NoOverride,
         task' \in [Instances -> Tasks], \A i \in Instances : task'[i] = task[i] \/ TaskOn(i)
  PROVE  FInv'
<1>1. Types'
  BY DEF FInv, Types, Tame, SupOn
<1>2. Survives /\ snaps' \subseteq snaps
  BY DEF Survives
<1>3. Written' \subseteq Written
  <2>1. SUFFICES ASSUME NEW s \in Written' PROVE s \in Written
    OBVIOUS
  <2>2. ASSUME NEW i \in Instances, Busy(i)', s = task'[i].snap PROVE s \in Written
    <3>1. Busy(i) /\ s = task[i].snap
      BY <2>2 DEF TaskOn, Busy
    <3> QED
      BY <3>1, WrittenIff
  <2> QED
    BY <2>2, WrittenIff
<1>4. ASSUME NEW i \in Instances PROVE Avail(TakeoverMark(i)') /\ TakeoverMark(i)' \in Marks
  <2>1. sup'[i].snap \in Snapshots /\ sup'[i].snap.mark \in Marks
    BY DEF Supervisors, Snapshots
  <2> QED
    BY <2>1, NoTypes, NoMarkAvail DEF TakeoverMark, SupOn
<1>5. ASSUME NEW i \in Instances
      PROVE  /\ \A s \in task'[i].drop : s \in task[i].drop \/ ~Leads(s)
             /\ task'[i].stage = "stored" => Avail(task'[i].snap.mark)
  BY DEF TaskOn, FInv, MarkInv
<1> QED
  BY <1>1, <1>2, <1>3, <1>4, <1>5, FStep

\* The supervisor of i goes on to v; tasks stay, lose i's, or the lease is given up.
LEMMA SupStep ==
  ASSUME FInv, Tame, NEW i \in Instances, NEW v \in Supervisors, sup' = [sup EXCEPT ![i] = v],
         ~v.forced, v.snap.header => Avail(v.snap.mark),
         UNCHANGED <<snaps, uploads, clock, hand, stored>>,
         task' = task \/ task' = [task EXCEPT ![i] = NoTask],
         disk' \in [Instances -> Disks],
         \A j \in Instances : disk'[j].lastActive = disk[j].lastActive /\ disk'[j].override = NoOverride
  PROVE  FInv'
<1>1. sup' \in [Instances -> Supervisors] /\ sup'[i] = v /\ \A j \in Instances : j # i => sup'[j] = sup[j]
  BY DEF FInv, Types
<1>2. \A j \in Instances : SupOn(j)
  <2>1. SupOn(i)
    BY <1>1 DEF SupOn
  <2> QED
    BY <1>1, <2>1, SameSup
<1>3. task' \in [Instances -> Tasks] /\ \A j \in Instances : task'[j] = task[j] \/ TaskOn(j)
  <2>1. task \in [Instances -> Tasks] /\ NoTask \in Tasks /\ NoTask.stage = "idle" /\ NoTask.drop = {}
    BY NoTypes DEF FInv, Types
  <2> QED
    BY <2>1 DEF TaskOn
<1>4. stored' \in Data
  BY DEF FInv, Types
<1> QED
  BY <1>1, <1>2, <1>3, <1>4, Quiet

LEMMA PhaseTypes == {"down", "standby", "restoring", "confirming", "failing", "opening", "starting", "serving", "stopping"} \subseteq Phases
  BY DEF Phases

LEMMA SupervisingSafe ==
  ASSUME NEW p \in Phases
  PROVE  /\ Supervising(p) \in Supervisors /\ ~Supervising(p).forced /\ Supervising(p).phase = p
         /\ Supervising(p).snap.header => Avail(Supervising(p).snap.mark)
  BY SupervisingType, NoTypes

LEMMA SameDisk ==
  ASSUME FInv
  PROVE  disk \in [Instances -> Disks] /\ \A j \in Instances : disk[j].override = NoOverride
  BY DEF FInv, Types

LEMMA BootstrapKeeps == ASSUME FInv, NEW i \in Instances, Bootstrap(i) PROVE FInv' /\ SawOnly
<1>1. /\ sup' = [sup EXCEPT ![i] = Supervising("standby")]
      /\ UNCHANGED <<lease, snaps, uploads, mgr, task, clock, hand, stored>>
      /\ \/ disk' = [disk EXCEPT ![i] = SawAuthenticLease(disk[i])]
         \/ disk' = [disk EXCEPT ![i] = Observed(disk[i], NoMark)]
         \/ disk' = [disk EXCEPT ![i] = disk[i]]
         \/ UNCHANGED disk
  BY DEF Bootstrap
<1>2. SawOnly
  <2>1. CASE disk' = [disk EXCEPT ![i] = SawAuthenticLease(disk[i])]
    BY <2>1, ManagerFacts, SawFacts, SawOnlyFacts
  <2>2. CASE disk' = [disk EXCEPT ![i] = Observed(disk[i], NoMark)]
    BY <2>2, ManagerFacts, ObservedFacts, NoTypes, SawOnlyFacts
  <2>3. CASE disk' = [disk EXCEPT ![i] = disk[i]] \/ UNCHANGED disk
    BY <2>3, SameDisk DEF SawOnly
  <2> QED
    BY <1>1, <2>1, <2>2, <2>3
<1>3. Tame
  BY <1>1, SameTame
<1>4. Supervising("standby") \in Supervisors /\ ~Supervising("standby").forced
      /\ (Supervising("standby").snap.header => Avail(Supervising("standby").snap.mark))
  BY PhaseTypes, SupervisingSafe
<1> QED
  BY <1>1, <1>2, <1>3, <1>4, SameDisk, SupStep DEF SawOnly

LEMMA NoForce == ASSUME FInv, NEW i \in Instances PROVE ~ForceTakeover(i)
  BY ManagerFacts DEF ForceTakeover

LEMMA EmptyKeeps == ASSUME FInv, NEW i \in Instances, StartFromEmpty(i) PROVE FInv' /\ UNCHANGED stored
<1> DEFINE v == [Supervising("confirming") EXCEPT !.empty = TRUE]
<1>1. /\ sup' = [sup EXCEPT ![i] = v] /\ UNCHANGED <<lease, snaps, uploads, mgr, disk, task, clock, hand>>
      /\ UNCHANGED stored
  BY DEF StartFromEmpty, FInv, Types
<1>2. v \in Supervisors /\ ~v.forced /\ ~v.snap.header
  <2>1. PICK q \in Supervisors : q = Supervising("confirming") /\ ~q.forced /\ q.snap = NoSnapshot
    BY PhaseTypes, SupervisingType
  <2>2. [q EXCEPT !.empty = TRUE] \in Supervisors /\ [q EXCEPT !.empty = TRUE].forced = q.forced
        /\ [q EXCEPT !.empty = TRUE].snap = q.snap
    BY DEF Supervisors
  <2> QED
    BY <2>1, <2>2, NoTypes
<1> HIDE DEF v
<1>3. Tame
  BY <1>1, SameTame
<1> QED
  BY <1>1, <1>2, <1>3, SameDisk, SupStep

\* The supervisor of i, having selected the newest snapshot.
LEMMA SelectKeeps ==
  ASSUME FInv, NEW i \in Instances, SelectSnapshot(i)
  PROVE  /\ FInv' /\ Newest(Candidates) \in snaps /\ Leads(Newest(Candidates))
         /\ sup' \in [Instances -> Supervisors] /\ \A j \in Instances : j # i => sup'[j] = sup[j]
         /\ sup'[i].snap = Newest(Candidates)
         /\ sup'[i].phase = IF OwnNewest(i) THEN "confirming" ELSE "restoring"
<1>1. PICK N : N = Newest(Candidates)
  OBVIOUS
<1>2. PICK p \in {"confirming", "restoring"} : p = IF OwnNewest(i) THEN "confirming" ELSE "restoring"
  OBVIOUS
<1> DEFINE v == [Supervising(p) EXCEPT !.snap = N]
<1>3. /\ snaps # {} /\ sup' = [sup EXCEPT ![i] = v]
      /\ UNCHANGED <<lease, snaps, uploads, mgr, disk, task, clock, hand, stored>>
  BY <1>1, <1>2 DEF SelectSnapshot
<1>4. N \in snaps /\ Leads(N)
  BY <1>1, <1>3, NewestLeads
<1>5. N \in Snapshots /\ N.mark \in Marks
  BY <1>4, WrittenIff, WrittenType DEF FInv
<1>6. Avail(N.mark)
  BY <1>4, <1>5, MarkOrder DEF Avail
<1>7. v \in Supervisors /\ ~v.forced /\ v.snap = N /\ v.phase = p
  <2>1. PICK q \in Supervisors : q = Supervising(p) /\ ~q.forced /\ q.phase = p
    BY PhaseTypes, SupervisingType
  <2>2. [q EXCEPT !.snap = N] \in Supervisors /\ [q EXCEPT !.snap = N].forced = q.forced
        /\ [q EXCEPT !.snap = N].snap = N /\ [q EXCEPT !.snap = N].phase = q.phase
    BY <1>5 DEF Supervisors
  <2> QED
    BY <2>1, <2>2
<1> HIDE DEF v
<1>8. Tame
  BY <1>3, SameTame
<1>9. FInv'
  BY <1>3, <1>6, <1>7, <1>8, SameDisk, SupStep
<1>10. sup' \in [Instances -> Supervisors] /\ (\A j \in Instances : j # i => sup'[j] = sup[j]) /\ sup'[i] = v
  BY <1>3, <1>7 DEF FInv, Types
<1> QED
  BY <1>1, <1>2, <1>4, <1>7, <1>9, <1>10

LEMMA RefuseKeeps == ASSUME FInv, NEW i \in Instances, RefuseTakeover(i) PROVE FInv'
<1> DEFINE v == [Supervising("failing") EXCEPT !.reasons = Suspicions(i)]
<1>1. sup' = [sup EXCEPT ![i] = v] /\ UNCHANGED <<lease, snaps, uploads, mgr, disk, task, clock, hand, stored>>
  BY DEF RefuseTakeover
<1>2. v \in Supervisors /\ ~v.forced /\ ~v.snap.header
  <2>1. PICK q \in Supervisors : q = Supervising("failing") /\ ~q.forced /\ q.snap = NoSnapshot
    BY PhaseTypes, SupervisingType
  <2>2. PICK R \in SUBSET Reasons : R = Suspicions(i)
    BY SuspicionsType
  <2>3. [q EXCEPT !.reasons = R] \in Supervisors /\ [q EXCEPT !.reasons = R].forced = q.forced
        /\ [q EXCEPT !.reasons = R].snap = q.snap
    BY DEF Supervisors
  <2> QED
    BY <2>1, <2>2, <2>3, NoTypes
<1> HIDE DEF v
<1>3. Tame
  BY <1>1, SameTame
<1> QED
  BY <1>1, <1>2, <1>3, SameDisk, SupStep

\* Only the phase of the supervisor of i changes.
LEMMA PhaseOnly ==
  ASSUME FInv, NEW i \in Instances, NEW p \in Phases
  PROVE  /\ [sup[i] EXCEPT !.phase = p] \in Supervisors /\ [sup[i] EXCEPT !.phase = p].phase = p
         /\ [sup[i] EXCEPT !.phase = p].snap = sup[i].snap /\ ~[sup[i] EXCEPT !.phase = p].forced
         /\ sup[i].snap.header => Avail(sup[i].snap.mark)
<1>1. PICK q \in Supervisors : q = sup[i] /\ ~q.forced
  BY ManagerFacts
<1>2. [q EXCEPT !.phase = p] \in Supervisors /\ [q EXCEPT !.phase = p].phase = p
      /\ [q EXCEPT !.phase = p].snap = q.snap /\ [q EXCEPT !.phase = p].forced = q.forced
  BY DEF Supervisors
<1>3. q.snap.header => Avail(q.snap.mark)
  BY <1>1 DEF FInv, MarkInv, TakeoverMark
<1> QED
  BY <1>1, <1>2, <1>3

LEMMA RestoreKeeps ==
  ASSUME FInv, NEW i \in Instances, RestoreSnapshot(i)
  PROVE  FInv' /\ UNCHANGED stored
<1> DEFINE v == [sup[i] EXCEPT !.phase = "confirming"]
<1>1. /\ disk' = [disk EXCEPT ![i].data = sup[i].snap.data] /\ sup' = [sup EXCEPT ![i] = v]
      /\ UNCHANGED <<lease, snaps, uploads, mgr, task, clock, hand, stored>>
  BY ManagerFacts DEF RestoreSnapshot
<1>2. v \in Supervisors /\ ~v.forced /\ (v.snap.header => Avail(v.snap.mark))
  BY PhaseTypes, PhaseOnly
<1> HIDE DEF v
<1>3. sup[i].snap.data \in Data
  BY ManagerFacts DEF Supervisors, Snapshots
<1>4. /\ disk' \in [Instances -> Disks]
      /\ \A j \in Instances : disk'[j].lastActive = disk[j].lastActive /\ disk'[j].override = NoOverride
  <2>1. PICK d \in Disks : d = disk[i] /\ d.override = NoOverride
    BY ManagerFacts
  <2>2. PICK x \in Data : x = sup[i].snap.data
    BY <1>3
  <2>3. [d EXCEPT !.data = x] \in Disks /\ [d EXCEPT !.data = x].lastActive = d.lastActive
        /\ [d EXCEPT !.data = x].override = d.override
    BY DEF Disks
  <2>4. disk' = [disk EXCEPT ![i] = [d EXCEPT !.data = x]]
    BY <1>1, <2>1, <2>2
  <2> QED
    BY <2>1, <2>3, <2>4, SameDisk
<1>5. Tame
  BY <1>1, SameTame
<1> QED
  BY <1>1, <1>2, <1>4, <1>5, SupStep

LEMMA RestoreFailsKeeps == ASSUME FInv, NEW i \in Instances, RestoreFails(i) PROVE FInv'
<1>1. sup' = [sup EXCEPT ![i] = Supervising("failing")] /\ UNCHANGED <<lease, snaps, uploads, mgr, disk, task, clock, hand, stored>>
  BY DEF RestoreFails
<1>2. Tame
  BY <1>1, SameTame
<1>3. Supervising("failing") \in Supervisors /\ ~Supervising("failing").forced
      /\ (Supervising("failing").snap.header => Avail(Supervising("failing").snap.mark))
  BY PhaseTypes, SupervisingSafe
<1> QED
  BY <1>1, <1>2, <1>3, SameDisk, SupStep

LEMMA TakeoverMarkFacts ==
  ASSUME FInv, NEW i \in Instances
  PROVE  TakeoverMark(i) \in Marks /\ Avail(TakeoverMark(i))
<1>1. sup[i].snap.mark \in Marks
  BY ManagerFacts DEF Supervisors, Snapshots
<1> QED
  BY <1>1, NoTypes DEF TakeoverMark, FInv, MarkInv

LEMMA SignTame == ASSUME FInv, NEW i \in Instances, SignLease(i) PROVE Tame
<1>1. CASE UNCHANGED <<lease, mgr>>
  BY <1>1, SameTame
<1>2. CASE Active(i) /\ RenewAs(i, [mgr[i] EXCEPT !.signed = TRUE, !.mark = LaterMark(@, TakeoverMark(i))])
  <2>1. PICK q \in Managers : q = mgr[i] /\ q.mark \in Marks /\ q.role = "active"
    BY <1>2, ManagerFacts DEF Active
  <2>2. PICK k \in Marks : k = LaterMark(q.mark, TakeoverMark(i)) /\ Avail(k)
    BY <2>1, ManagerFacts, TakeoverMarkFacts, LaterMarkFacts
  <2> DEFINE m == [q EXCEPT !.signed = TRUE, !.mark = k]
  <2>3. m \in Managers /\ m.role = q.role /\ m.epoch = q.epoch /\ m.expired = q.expired /\ m.seenEpoch = q.seenEpoch
        /\ m.mark = k /\ m.seenMark = q.seenMark
    BY DEF Managers
  <2>4. RenewAs(i, m)
    BY <1>2, <2>1, <2>2
  <2> HIDE DEF m
  <2> QED
    BY <1>2, <2>1, <2>2, <2>3, <2>4, ManagerFacts, RenewTame
<1> QED
  BY <1>1, <1>2 DEF SignLease, Active

LEMMA ConfirmKeeps ==
  ASSUME FInv, NEW i \in Instances, Confirm(i)
  PROVE  /\ FInv' /\ SawOnly /\ Tame
         /\ sup' \in [Instances -> Supervisors] /\ \A j \in Instances : j # i => sup'[j] = sup[j]
         /\ sup'[i].phase \in {"opening", "failing"}
<1>1. SignLease(i) /\ UNCHANGED <<snaps, uploads, task, clock, hand, stored>>
  BY DEF Confirm
<1>2. PICK p \in {"opening", "failing"} : sup' = [sup EXCEPT ![i].phase = p]
  BY DEF Confirm
<1>3. PICK seen \in Disks :
        /\ seen = Observed(disk[i], TakeoverMark(i)) /\ seen.lastActive = disk[i].lastActive
        /\ seen.override = disk[i].override /\ seen.data = disk[i].data
  BY ManagerFacts, TakeoverMarkFacts, ObservedFacts
<1>4. disk' = [disk EXCEPT ![i] = SawAuthenticLease(seen)] \/ disk' = [disk EXCEPT ![i] = seen]
  BY <1>3, ManagerFacts DEF Confirm
<1>5. SawOnly
  <2>1. CASE disk' = [disk EXCEPT ![i] = SawAuthenticLease(seen)]
    <3>1. PICK d \in Disks : d = SawAuthenticLease(seen) /\ d.lastActive = seen.lastActive
                             /\ d.override = seen.override /\ d.data = seen.data
      BY SawFacts
    <3> QED
      BY <1>3, <2>1, <3>1, SawOnlyFacts
  <2>2. CASE disk' = [disk EXCEPT ![i] = seen]
    BY <1>3, <2>2, SawOnlyFacts
  <2> QED
    BY <1>4, <2>1, <2>2
<1>6. Tame
  BY <1>1, SignTame
<1> DEFINE v == [sup[i] EXCEPT !.phase = p]
<1>7. v \in Supervisors /\ ~v.forced /\ (v.snap.header => Avail(v.snap.mark)) /\ v.phase = p
  BY <1>2, PhaseTypes, PhaseOnly
<1>8. sup' = [sup EXCEPT ![i] = v]
  BY <1>2
<1> HIDE DEF v
<1>9. FInv'
  BY <1>1, <1>5, <1>6, <1>7, <1>8, SameDisk, SupStep DEF SawOnly
<1>10. sup' \in [Instances -> Supervisors] /\ (\A j \in Instances : j # i => sup'[j] = sup[j]) /\ sup'[i] = v
  BY <1>7, <1>8 DEF FInv, Types
<1> QED
  BY <1>2, <1>5, <1>6, <1>7, <1>9, <1>10

\* The supervisor starts over in phase p, with or without the snapshot in progress.
LEMMA AgainKeeps ==
  ASSUME FInv, Tame, NEW i \in Instances, NEW p \in Phases, sup' = [sup EXCEPT ![i] = Supervising(p)],
         UNCHANGED <<snaps, uploads, disk, clock, hand, stored>>, task' = task \/ task' = [task EXCEPT ![i] = NoTask]
  PROVE  FInv'
<1>1. Supervising(p) \in Supervisors /\ ~Supervising(p).forced
      /\ (Supervising(p).snap.header => Avail(Supervising(p).snap.mark))
  BY SupervisingSafe
<1> QED
  BY <1>1, SameDisk, SupStep

LEMMA TakeoverFailedKeeps == ASSUME FInv, NEW i \in Instances, TakeoverFailed(i) PROVE FInv' /\ Tame
<1>1. /\ GiveUp(i) /\ mgr' = [mgr EXCEPT ![i] = SteppedDown(mgr[i])] /\ sup' = [sup EXCEPT ![i] = Supervising("standby")]
      /\ UNCHANGED <<snaps, uploads, disk, task, clock, hand, stored>>
  BY DEF TakeoverFailed
<1>2. Tame
  BY <1>1, GiveUpTame
<1> QED
  BY <1>1, <1>2, PhaseTypes, AgainKeeps

LEMMA OpenAppKeeps == ASSUME FInv, NEW i \in Instances, OpenApp(i) PROVE FInv'
<1>1. PICK p \in {"starting", "standby"} : sup' = [sup EXCEPT ![i] = Supervising(p)]
  BY DEF OpenApp
<1>2. UNCHANGED <<lease, snaps, uploads, mgr, disk, task, clock, hand, stored>>
  BY DEF OpenApp
<1>3. Tame
  BY <1>2, SameTame
<1> QED
  BY <1>1, <1>2, <1>3, PhaseTypes, AgainKeeps

LEMMA LoseLeaseKeeps == ASSUME FInv, NEW i \in Instances, LoseLease(i) PROVE FInv'
<1>1. /\ sup' = [sup EXCEPT ![i] = Supervising("standby")] /\ task' = [task EXCEPT ![i] = NoTask]
      /\ UNCHANGED <<lease, snaps, uploads, mgr, disk, clock, hand, stored>>
  BY DEF LoseLease
<1>2. Tame
  BY <1>1, SameTame
<1> QED
  BY <1>1, <1>2, PhaseTypes, AgainKeeps

LEMMA ShutdownKeeps == ASSUME FInv, NEW i \in Instances, Shutdown(i) PROVE FInv'
<1> DEFINE v == [sup[i] EXCEPT !.phase = "stopping"]
<1>1. sup' = [sup EXCEPT ![i] = v] /\ UNCHANGED <<lease, snaps, uploads, mgr, disk, task, clock, hand, stored>>
  BY DEF Shutdown
<1>2. v \in Supervisors /\ ~v.forced /\ (v.snap.header => Avail(v.snap.mark))
  BY PhaseTypes, PhaseOnly
<1> HIDE DEF v
<1>3. Tame
  BY <1>1, SameTame
<1> QED
  BY <1>1, <1>2, <1>3, SameDisk, SupStep

\* Release, AppFails and Crash.
LEMMA ExitKeeps ==
  ASSUME FInv, NEW i \in Instances, Exit(i), GiveUp(i)
  PROVE  FInv' /\ Tame
<1>1. /\ mgr' = [mgr EXCEPT ![i] = NewManager] /\ sup' = [sup EXCEPT ![i] = Supervising("down")]
      /\ task' = [task EXCEPT ![i] = NoTask] /\ UNCHANGED <<snaps, uploads, disk, clock, hand, stored>>
  BY DEF Exit
<1>2. Tame
  BY <1>1, GiveUpTame
<1> QED
  BY <1>1, <1>2, PhaseTypes, AgainKeeps

LEMMA EndsInExit ==
  ASSUME NEW i \in Instances, Release(i) \/ AppFails(i) \/ Crash(i)
  PROVE  Exit(i) /\ GiveUp(i)
  BY DEF Release, AppFails, Crash, GiveUp

\* One snapshot in progress, one database.
LEMMA DiskStep ==
  ASSUME FInv, Tame, NEW i \in Instances, NEW d \in Disks, disk' = [disk EXCEPT ![i] = d], d.override = NoOverride,
         d.lastActive = disk[i].lastActive, UNCHANGED <<snaps, uploads, sup, clock, hand>>, stored' \in Data,
         task' \in [Instances -> Tasks], \A j \in Instances : task'[j] = task[j] \/ TaskOn(j)
  PROVE  FInv'
<1>1. disk' \in [Instances -> Disks] /\ disk'[i] = d /\ \A j \in Instances : j # i => disk'[j] = disk[j]
  BY DEF FInv, Types
<1>2. \A j \in Instances : disk'[j].lastActive = disk[j].lastActive /\ disk'[j].override = NoOverride
  BY <1>1, SameDisk
<1>3. sup' \in [Instances -> Supervisors] /\ \A j \in Instances : SupOn(j)
  BY SameSup DEF FInv, Types
<1> QED
  BY <1>1, <1>2, <1>3, Quiet

LEMMA ChangeFacts ==
  ASSUME FInv, NEW i \in Instances, Change(i)
  PROVE  \E d \in Disks : /\ disk' = [disk EXCEPT ![i] = d] /\ disk[i].data \subseteq d.data
                          /\ d.lastActive = disk[i].lastActive /\ d.override = NoOverride
<1>1. PICK c : c = CHOOSE x \in 1..MaxChange : x \notin Changes
  OBVIOUS
<1>2. c \in 1..MaxChange
  BY <1>1 DEF Change
<1>3. PICK d \in Disks : d = disk[i] /\ d.override = NoOverride
  BY ManagerFacts
<1>4. d.data \cup {c} \in Data
  BY <1>2, Constants DEF Disks, Data
<1>5. /\ [d EXCEPT !.data = d.data \cup {c}] \in Disks /\ [d EXCEPT !.data = d.data \cup {c}].data = d.data \cup {c}
      /\ [d EXCEPT !.data = d.data \cup {c}].lastActive = d.lastActive
      /\ [d EXCEPT !.data = d.data \cup {c}].override = d.override
  BY <1>4 DEF Disks
<1>6. disk' = [disk EXCEPT ![i] = [d EXCEPT !.data = d.data \cup {c}]]
  BY <1>1, <1>3 DEF Change
<1> QED
  BY <1>3, <1>5, <1>6

LEMMA ChangeKeeps == ASSUME FInv, NEW i \in Instances, Change(i) PROVE FInv'
<1>1. UNCHANGED <<lease, snaps, uploads, mgr, sup, task, clock, hand, stored>>
  BY DEF Change
<1>2. Tame
  BY <1>1, SameTame
<1>3. stored' \in Data /\ task' \in [Instances -> Tasks]
  BY <1>1 DEF FInv, Types
<1> QED
  BY <1>1, <1>2, <1>3, ChangeFacts, DiskStep

LEMMA ServeFacts ==
  ASSUME FInv, NEW i \in Instances, ServeActive(i)
  PROVE  /\ FInv'
         /\ disk' \in [Instances -> Disks] /\ \A j \in Instances : j # i => disk'[j] = disk[j]
         /\ disk'[i].data = disk[i].data
         /\ disk'[i].lastActive = IF Active(i) THEN mgr[i].epoch ELSE 0
<1>1. PICK e : e = IF Active(i) THEN mgr[i].epoch ELSE 0
  OBVIOUS
<1>2. e \in 0..MaxEpoch
  BY <1>1, ManagerFacts, Constants DEF Managers
<1>3. PICK o \in Disks : /\ o = Observed(disk[i], NoMark) /\ o.override = disk[i].override /\ o.data = disk[i].data
  BY ManagerFacts, ObservedFacts, NoTypes
<1> DEFINE d == [o EXCEPT !.lastActive = e]
<1>4. d \in Disks /\ d.override = o.override /\ d.data = o.data /\ d.lastActive = e
  BY <1>2 DEF Disks
<1>5. /\ disk' = [disk EXCEPT ![i] = d] /\ sup' = [sup EXCEPT ![i] = Supervising("serving")]
      /\ UNCHANGED <<lease, snaps, uploads, mgr, task, clock, hand, stored>>
  BY <1>1, <1>3 DEF ServeActive, Active
<1> HIDE DEF d
<1>6. disk' \in [Instances -> Disks] /\ disk'[i] = d /\ \A j \in Instances : j # i => disk'[j] = disk[j]
  BY <1>4, <1>5 DEF FInv, Types
<1>7. sup' \in [Instances -> Supervisors] /\ sup'[i] = Supervising("serving")
      /\ \A j \in Instances : j # i => sup'[j] = sup[j]
  BY <1>5, PhaseTypes, SupervisingSafe DEF FInv, Types
<1>8. \A j \in Instances : SupOn(j)
  <2>1. SupOn(i)
    BY <1>7, PhaseTypes, SupervisingSafe DEF SupOn
  <2> QED
    BY <1>7, <2>1, SameSup
<1>9. Tame
  BY <1>5, SameTame
<1>10. Types'
  <2>1. \A j \in Instances : disk'[j].override = NoOverride /\ ~sup'[j].forced
    BY <1>3, <1>4, <1>6, <1>8, SameDisk DEF SupOn
  <2> QED
    BY <1>5, <1>6, <1>7, <2>1 DEF FInv, Types
<1>11. Survives /\ snaps' \subseteq snaps
  BY <1>5 DEF Survives
<1>12. Written' \subseteq Written
  BY <1>5, WrittenIff DEF Busy
<1>13. \A j \in Instances : Avail(TakeoverMark(j)') /\ TakeoverMark(j)' \in Marks
  <2>1. ASSUME NEW j \in Instances PROVE Avail(TakeoverMark(j)') /\ TakeoverMark(j)' \in Marks
    <3>1. sup'[j].snap.mark \in Marks
      BY <1>7 DEF Supervisors, Snapshots
    <3> QED
      BY <1>8, <3>1, NoTypes, NoMarkAvail DEF TakeoverMark, SupOn
  <2> QED
    BY <2>1
<1>14. \A j \in Instances : disk'[j].lastActive \in {disk[j].lastActive, 0} \/ (Active(j) /\ disk'[j].lastActive = mgr[j].epoch)
  BY <1>1, <1>4, <1>6
<1>15. \A j \in Instances : task'[j].stage = "stored" => Avail(task'[j].snap.mark)
  BY <1>5 DEF FInv, MarkInv
<1>16. \A j \in Instances : \A s \in task'[j].drop : s \in task[j].drop \/ ~Leads(s)
  BY <1>5
<1>17. FInv'
  BY <1>9, <1>10, <1>11, <1>12, <1>13, <1>14, <1>15, <1>16, FStep
<1> QED
  BY <1>1, <1>3, <1>4, <1>6, <1>17

-----------------------------------------------------------------------------
(* A new epoch. *)

LEMMA AcquireFacts ==
  ASSUME FInv, NEW i \in Instances, Acquire(i)
  PROVE  \E e \in 0..MaxEpoch, k \in Marks, m \in Managers :
           /\ lease.epoch < e /\ Avail(k)
           /\ lease' \in [there : BOOLEAN, holder : Instances \cup {NoHolder}, epoch : 0..MaxEpoch, mark : Marks,
                          mac : {"none", "valid", "wrong"}, back : BOOLEAN]
           /\ lease'.holder = i /\ lease'.epoch = e /\ lease'.mark = k
           /\ mgr' = [mgr EXCEPT ![i] = m]
           /\ m.role = "active" /\ m.epoch = e /\ m.mark = k /\ m.seenEpoch = e /\ Avail(m.seenMark)
<1>1. PICK q \in Managers : /\ q = Noticed(mgr[i]) /\ q.seenEpoch = lease.epoch /\ q.seenMark \in Marks
                            /\ Avail(q.seenMark)
  BY NoticedFacts
<1>2. PICK p : p = Assess(mgr[i])
  OBVIOUS
<1>3. p \in [trust : Trusts, epoch : 0..MaxEpoch, named : Marks, mark : Marks] /\ p.mark = q.seenMark
  <2>1. lease \in [there : BOOLEAN, holder : Instances \cup {NoHolder}, epoch : 0..MaxEpoch, mark : Marks,
                   mac : {"none", "valid", "wrong"}, back : BOOLEAN]
    BY DEF FInv, Types
  <2> QED
    BY <1>1, <1>2, <2>1 DEF Assess, Trusts
<1>4. EpochFloor(i) \in Nat
  <2>1. AuthenticEpoch \in Nat
    <3>1. CASE snaps = {}
      BY <3>1 DEF AuthenticEpoch
    <3>2. CASE snaps # {}
      BY <3>2, NewestLeads, WrittenIff, WrittenType DEF AuthenticEpoch, FInv
    <3> QED
      BY <3>1, <3>2
  <2>2. disk[i].lastActive \in Nat /\ disk[i].high[1] \in Nat
    BY ManagerFacts, MarkType, Constants DEF Disks
  <2> QED
    BY <2>1, <2>2 DEF EpochFloor, Larger
<1>5. PICK e : e = Larger(q.seenEpoch, EpochFloor(i)) + 1
  OBVIOUS
<1>6. lease.epoch < e /\ e \in Nat
  BY <1>1, <1>4, <1>5, ManagerFacts DEF Larger
<1>7. /\ e <= MaxEpoch
      /\ lease' = [there |-> TRUE, holder |-> i, epoch |-> e, mark |-> p.mark,
                   mac |-> IF p.trust = "authentic" THEN "valid" ELSE "none", back |-> FALSE]
      /\ mgr' = [mgr EXCEPT ![i] = [role |-> "active", expired |-> FALSE, epoch |-> e, mark |-> p.mark,
                                    signed |-> p.trust = "authentic", pred |-> p, seenMark |-> q.seenMark,
                                    seenEpoch |-> e]]
  BY <1>1, <1>2, <1>5 DEF Acquire
<1>8. e \in 0..MaxEpoch
  BY <1>6, <1>7, Constants
<1>9. PICK m : m = [role |-> "active", expired |-> FALSE, epoch |-> e, mark |-> p.mark,
                    signed |-> p.trust = "authentic", pred |-> p, seenMark |-> q.seenMark, seenEpoch |-> e]
  OBVIOUS
<1>10. m \in Managers /\ m.role = "active" /\ m.epoch = e /\ m.mark = p.mark /\ m.seenEpoch = e /\ m.seenMark = q.seenMark
  BY <1>1, <1>3, <1>8, <1>9 DEF Managers
<1>11. /\ lease' \in [there : BOOLEAN, holder : Instances \cup {NoHolder}, epoch : 0..MaxEpoch, mark : Marks,
                      mac : {"none", "valid", "wrong"}, back : BOOLEAN]
       /\ lease'.holder = i /\ lease'.epoch = e /\ lease'.mark = p.mark
  BY <1>1, <1>3, <1>7, <1>8
<1>12. p.mark \in Marks /\ Avail(p.mark) /\ Avail(m.seenMark)
  BY <1>1, <1>3, <1>10
<1> QED
  BY ZenonT(60), <1>6, <1>7, <1>8, <1>9, <1>10, <1>11, <1>12

LEMMA AcquireRest ==
  ASSUME FInv, NEW i \in Instances, Acquire(i)
  PROVE  SawOnly /\ UNCHANGED <<snaps, uploads, sup, task, clock, hand, stored>>
         /\ \A j \in Instances : Active(j) => mgr[j].expired
<1>1. /\ disk' = [disk EXCEPT ![i] = SawAuthenticLease(disk[i])] \/ UNCHANGED disk
      /\ UNCHANGED <<snaps, uploads, sup, task, clock, hand, stored>>
      /\ lease.holder # NoHolder => ~Check(lease.holder)
  BY DEF Acquire
<1>2. SawOnly
  <2>1. CASE disk' = [disk EXCEPT ![i] = SawAuthenticLease(disk[i])]
    BY <2>1, ManagerFacts, SawFacts, SawOnlyFacts
  <2>2. CASE UNCHANGED disk
    BY <2>2, SameDisk DEF SawOnly
  <2> QED
    BY <1>1, <2>1, <2>2
<1>3. ASSUME NEW j \in Instances, Active(j), ~mgr[j].expired PROVE FALSE
  <2>1. lease.holder = j
    BY <1>3 DEF FInv, ActiveInv
  <2>2. ~Check(j) /\ j # NoHolder
    BY <1>1, <2>1, Constants
  <2> QED
    BY <1>3, <2>2 DEF Check, Active
<1> QED
  BY <1>1, <1>2, <1>3

LEMMA AcquireKeeps == ASSUME FInv, NEW i \in Instances, Acquire(i) PROVE FInv'
<1>1. PICK e \in 0..MaxEpoch, k \in Marks, m \in Managers :
           /\ lease.epoch < e /\ Avail(k)
           /\ lease' \in [there : BOOLEAN, holder : Instances \cup {NoHolder}, epoch : 0..MaxEpoch, mark : Marks,
                          mac : {"none", "valid", "wrong"}, back : BOOLEAN]
           /\ lease'.holder = i /\ lease'.epoch = e /\ lease'.mark = k
           /\ mgr' = [mgr EXCEPT ![i] = m]
           /\ m.role = "active" /\ m.epoch = e /\ m.mark = k /\ m.seenEpoch = e /\ Avail(m.seenMark)
  BY AcquireFacts
<1>2. /\ UNCHANGED <<snaps, uploads, sup, task, clock, hand, stored>>
      /\ SawOnly /\ \A j \in Instances : Active(j) => mgr[j].expired
  BY AcquireRest
<1>3. mgr' \in [Instances -> Managers] /\ mgr'[i] = m /\ \A j \in Instances : j # i => mgr'[j] = mgr[j]
  BY <1>1 DEF FInv, Types
<1>4. Types'
  BY <1>1, <1>2, <1>3 DEF FInv, Types, SawOnly
<1>5. \A s : s \in Written' <=> s \in Written
  BY <1>2, WrittenIff DEF Busy
<1>6. lease.epoch \in Nat /\ e \in Nat /\ \A j \in Instances : mgr[j].seenEpoch \in Nat /\ mgr[j].epoch \in Nat
      /\ disk[j].lastActive \in Nat
  BY <1>1, ManagerFacts, Constants DEF Managers, Disks
<1>7. \A s \in Written : s.mark[1] \in Nat /\ 0 < s.mark[1] /\ s.mark[1] < e
  <2>1. ASSUME NEW s \in Written PROVE s.mark[1] \in Nat /\ 0 < s.mark[1] /\ s.mark[1] <= lease.epoch
    BY WrittenType DEF FInv, EpochInv
  <2> QED
    BY <1>1, <1>6, <2>1
<1>8. EpochInv'
  <2>1. ASSUME NEW j \in Instances
        PROVE  /\ mgr'[j].seenEpoch <= lease'.epoch /\ disk'[j].lastActive < lease'.epoch
    <3>1. mgr[j].seenEpoch <= lease.epoch /\ disk[j].lastActive <= lease.epoch /\ disk'[j].lastActive = disk[j].lastActive
      BY <1>2 DEF FInv, EpochInv, SawOnly
    <3> QED
      BY <1>1, <1>3, <1>6, <3>1
  <2>2. \A s, t \in Written' : s.mark[1] = t.mark[1] => s.by = t.by
    BY <1>5 DEF FInv, EpochInv
  <2>3. \A s \in Written' : 0 < s.mark[1] /\ s.mark[1] <= lease'.epoch
    BY <1>1, <1>5, <1>6, <1>7
  <2>4. \A j \in Instances : disk'[j].lastActive <= lease'.epoch /\ disk'[j].lastActive # lease'.epoch
    <3>1. \A j \in Instances : disk'[j].lastActive \in Nat
      BY <1>2, <1>6 DEF SawOnly
    <3> QED
      BY <1>1, <1>6, <2>1, <3>1
  <2>5. lease'.epoch # 0
    BY <1>1, <1>6
  <2> QED
    BY <2>1, <2>2, <2>3, <2>4, <2>5 DEF EpochInv
<1>9. ActiveInv'
  <2>1. SUFFICES ASSUME NEW j \in Instances, Active(j)'
                 PROVE  /\ 0 < mgr'[j].epoch /\ mgr'[j].epoch <= lease'.epoch
                        /\ mgr'[j].epoch = lease'.epoch => lease'.holder \in {j, NoHolder}
                        /\ ~mgr'[j].expired => lease'.holder = j /\ lease'.epoch = mgr'[j].epoch
                        /\ \A s \in Written' : s.mark[1] = mgr'[j].epoch => s.by = j
                        /\ \A s \in Written' : ~s.header => s.mark[1] < mgr'[j].epoch
                        /\ \A l \in Instances : Active(l)' /\ mgr'[j].epoch = mgr'[l].epoch => j = l
    BY DEF ActiveInv
  <2>2. ASSUME NEW l \in Instances, l # i, Active(l)' PROVE Active(l) /\ mgr'[l] = mgr[l] /\ mgr[l].epoch < e /\ mgr[l].expired
    <3>1. Active(l) /\ mgr'[l] = mgr[l]
      BY <1>3, <2>2 DEF Active
    <3>2. mgr[l].epoch <= lease.epoch /\ mgr[l].expired
      BY <1>2, <3>1 DEF FInv, ActiveInv
    <3> QED
      BY <1>1, <1>6, <3>1, <3>2
  <2>3. CASE j = i
    <3>1. mgr'[j].epoch = e /\ 0 < e
      BY <1>1, <1>3, <1>6, <2>3
    <3>2. \A l \in Instances : Active(l)' /\ mgr'[l].epoch = e => l = i
      BY <1>6, <2>2
    <3> QED
      BY <1>1, <1>5, <1>6, <1>7, <2>3, <3>1, <3>2
  <2>4. CASE j # i
    <3>1. Active(j) /\ mgr'[j] = mgr[j] /\ mgr[j].epoch < e /\ mgr[j].expired /\ mgr[j].epoch \in Nat
      BY <1>6, <2>1, <2>2, <2>4
    <3>2. /\ 0 < mgr[j].epoch
          /\ \A s \in Written : s.mark[1] = mgr[j].epoch => s.by = j
          /\ \A s \in Written : ~s.header => s.mark[1] < mgr[j].epoch
          /\ \A l \in Instances : Active(l) /\ mgr[j].epoch = mgr[l].epoch => j = l
      BY <3>1 DEF FInv, ActiveInv
    <3>3. mgr'[i].epoch = e
      BY <1>1, <1>3
    <3>4. \A l \in Instances : Active(l)' /\ mgr'[j].epoch = mgr'[l].epoch => j = l
      BY <1>6, <2>2, <3>1, <3>2, <3>3
    <3> QED
      BY <1>1, <1>5, <1>6, <3>1, <3>2, <3>4
  <2> QED
    BY <2>3, <2>4
<1>10. KeepInv'
  BY <1>2, <1>5 DEF FInv, KeepInv, Leads
<1>11. MarkInv'
  <2>1. ASSUME NEW j \in Instances
        PROVE  /\ Avail(mgr'[j].mark) /\ Avail(mgr'[j].seenMark) /\ Avail(TakeoverMark(j)')
               /\ task'[j].stage = "stored" => Avail(task'[j].snap.mark)
    <3>1. Avail(mgr'[j].mark) /\ Avail(mgr'[j].seenMark)
      BY <1>1, <1>3, ManagerFacts
    <3>2. TakeoverMark(j)' = TakeoverMark(j) /\ task'[j] = task[j]
      BY <1>2 DEF TakeoverMark
    <3> QED
      BY <3>1, <3>2 DEF FInv, MarkInv
  <2> QED
    BY <1>1, <1>2, <2>1 DEF MarkInv, Avail
<1> QED
  BY <1>4, <1>8, <1>9, <1>10, <1>11 DEF FInv

-----------------------------------------------------------------------------
(* Snapshots: the task of one instance. *)

LEMMA OneTask ==
  ASSUME FInv, NEW i \in Instances, NEW t \in Tasks, task' = [task EXCEPT ![i] = t]
  PROVE  task' \in [Instances -> Tasks] /\ task'[i] = t /\ \A j \in Instances : j # i => task'[j] = task[j]
  BY DEF FInv, Types

LEMMA TaskStep ==
  ASSUME FInv, Tame, NEW i \in Instances, NEW t \in Tasks, task' = [task EXCEPT ![i] = t],
         UNCHANGED <<snaps, uploads, disk, sup, clock, hand>>, stored' \in Data,
         \/ t.stage = "idle" /\ t.drop = {}
         \/ /\ Busy(i) /\ t.snap = task[i].snap /\ t.drop \subseteq task[i].drop
            /\ t.stage = "stored" => Avail(task[i].snap.mark)
  PROVE  FInv'
<1>1. task' \in [Instances -> Tasks] /\ task'[i] = t /\ \A j \in Instances : j # i => task'[j] = task[j]
  BY OneTask
<1>2. TaskOn(i)
  BY <1>1 DEF TaskOn
<1>3. sup' \in [Instances -> Supervisors] /\ \A j \in Instances : SupOn(j)
  BY SameSup DEF FInv, Types
<1> QED
  BY <1>1, <1>2, <1>3, SameDisk, Quiet

\* The task goes on to a stage, with the same snapshot.
LEMMA StageFacts ==
  ASSUME FInv, NEW i \in Instances, NEW g \in Stages
  PROVE  /\ [task[i] EXCEPT !.stage = g] \in Tasks /\ [task[i] EXCEPT !.stage = g].stage = g
         /\ [task[i] EXCEPT !.stage = g].snap = task[i].snap /\ [task[i] EXCEPT !.stage = g].drop = task[i].drop
<1>1. PICK t \in Tasks : t = task[i]
  BY ManagerFacts
<1>2. [t EXCEPT !.stage = g] \in Tasks /\ [t EXCEPT !.stage = g].stage = g /\ [t EXCEPT !.stage = g].snap = t.snap
      /\ [t EXCEPT !.stage = g].drop = t.drop
  BY DEF Tasks
<1> QED
  BY <1>1, <1>2

LEMMA DropTask ==
  ASSUME FInv, NEW i \in Instances, task' = [task EXCEPT ![i] = NoTask],
         UNCHANGED <<lease, snaps, uploads, mgr, disk, sup, clock, hand, stored>>
  PROVE  FInv'
<1>1. Tame
  BY SameTame
<1>2. stored' \in Data
  BY DEF FInv, Types
<1> QED
  BY <1>1, <1>2, NoTypes, TaskStep

LEMMA FailsKeeps == ASSUME FInv, NEW i \in Instances, SnapshotFails(i) PROVE FInv'
  BY DropTask DEF SnapshotFails

LEMMA StoredKeeps == ASSUME FInv, NEW i \in Instances, SnapshotStored(i) PROVE FInv'
<1> DEFINE t == [task[i] EXCEPT !.stage = "stored"]
<1>1. /\ task[i].stage = "sent" /\ task[i].snap \in snaps /\ task' = [task EXCEPT ![i] = t]
      /\ stored' \in {task[i].snap.data, stored} /\ UNCHANGED <<lease, snaps, uploads, mgr, disk, sup, clock, hand>>
  BY DEF SnapshotStored, At
<1>2. "stored" \in Stages
  BY DEF Stages
<1>3. t \in Tasks /\ t.stage = "stored" /\ t.snap = task[i].snap /\ t.drop = task[i].drop
  BY <1>2, StageFacts
<1> HIDE DEF t
<1>4. task[i].snap.mark \in Marks /\ task[i].snap.data \in Data /\ stored \in Data
  BY ManagerFacts DEF Tasks, Snapshots, FInv, Types
<1>5. Avail(task[i].snap.mark)
  BY <1>1, <1>4, MarkOrder DEF Avail
<1>6. Tame
  BY <1>1, SameTame
<1> QED
  BY <1>1, <1>3, <1>4, <1>5, <1>6, TaskStep DEF Busy

LEMMA RecordKeeps == ASSUME FInv, NEW i \in Instances, RecordSnapshot(i) PROVE FInv' /\ Tame
<1> DEFINE t == [task[i] EXCEPT !.stage = "recorded"]
<1>1. /\ task[i].stage = "stored" /\ task' = [task EXCEPT ![i] = t]
      /\ UNCHANGED <<snaps, uploads, disk, sup, clock, hand, stored>>
      /\ \/ Active(i) /\ RenewAs(i, [mgr[i] EXCEPT !.mark = task[i].snap.mark])
         \/ UNCHANGED <<lease, mgr>>
  BY DEF RecordSnapshot, At, Active
<1>2. "recorded" \in Stages
  BY DEF Stages
<1>3. t \in Tasks /\ t.stage = "recorded" /\ t.snap = task[i].snap /\ t.drop = task[i].drop
  BY <1>2, StageFacts
<1> HIDE DEF t
<1>4. PICK k \in Marks : k = task[i].snap.mark /\ Avail(k)
  BY <1>1, ManagerFacts DEF Tasks, Snapshots, FInv, MarkInv
<1>5. Tame
  <2>1. CASE Active(i) /\ RenewAs(i, [mgr[i] EXCEPT !.mark = task[i].snap.mark])
    <3>1. PICK q \in Managers : q = mgr[i] /\ q.role = "active"
      BY <2>1, ManagerFacts DEF Active
    <3> DEFINE m == [q EXCEPT !.mark = k]
    <3>2. m \in Managers /\ m.role = q.role /\ m.epoch = q.epoch /\ m.expired = q.expired /\ m.seenEpoch = q.seenEpoch
          /\ m.mark = k /\ m.seenMark = q.seenMark
      BY DEF Managers
    <3>3. RenewAs(i, m)
      BY <1>4, <2>1, <3>1
    <3> HIDE DEF m
    <3> QED
      BY <1>4, <2>1, <3>1, <3>2, <3>3, ManagerFacts, RenewTame
  <2>2. CASE UNCHANGED <<lease, mgr>>
    BY <2>2, SameTame
  <2> QED
    BY <1>1, <2>1, <2>2
<1>6. stored' \in Data
  BY <1>1 DEF FInv, Types
<1> QED
  BY <1>1, <1>3, <1>5, <1>6, TaskStep DEF Busy

\* What the retention may delete does not lead: the newest snapshot has a header
\* as soon as one has, and it is the first of those that are kept.
LEMMA KeptLeads ==
  ASSUME FInv, ~Legacy, NEW e, NEW s \in snaps \ Kept(e)
  PROVE  ~Leads(s)
<1>1. SUFFICES ASSUME Leads(s) PROVE FALSE
  OBVIOUS
<1>2. \A t \in snaps : t \in Written /\ t.mark[1] \in Nat /\ t.mark[2] \in Nat
  BY WrittenIff, WrittenType DEF FInv
<1>3. PICK v \in snaps : v.header
  BY DEF Legacy, Verified
<1>4. s.header
  <2>1. SUFFICES ASSUME ~s.header PROVE FALSE
    OBVIOUS
  <2>2. s.mark[1] < v.mark[1]
    BY <1>2, <1>3, <2>1 DEF FInv, KeepInv
  <2> QED
    BY <1>1, <2>2 DEF Leads, Before
<1>5. s \in Verified
  BY <1>4 DEF Verified
<1>6. {t \in Verified : Before(s.mark, t.mark)} = {}
  BY <1>1 DEF Verified, Leads
<1>7. Cardinality({t \in Verified : Before(s.mark, t.mark)}) = 0
  BY <1>6, FS_EmptySet
<1>8. s \in NewestOf(Verified)
  BY <1>5, <1>7, Constants DEF NewestOf
<1> QED
  BY <1>8 DEF Kept

LEMMA RaiseKeeps ==
  ASSUME FInv, NEW i \in Instances, RaiseHighWater(i)
  PROVE  /\ FInv' /\ SawOnly /\ task[i].stage = "recorded"
         /\ task' \in [Instances -> Tasks] /\ \A j \in Instances : j # i => task'[j] = task[j]
         /\ task'[i].stage = "pruning" /\ task'[i].snap = task[i].snap
<1>1. PICK D : D = IF Legacy THEN {} ELSE snaps \ Kept(task[i].snap.mark[1])
  OBVIOUS
<1>2. D \in SUBSET Snapshots /\ \A s \in D : ~Leads(s)
  BY <1>1, KeptLeads DEF FInv, Types
<1>3. PICK q \in Tasks : q = task[i]
  BY ManagerFacts
<1> DEFINE t == [q EXCEPT !.stage = "pruning", !.drop = D]
<1>4. t \in Tasks /\ t.stage = "pruning" /\ t.snap = q.snap /\ t.drop = D
  BY <1>2 DEF Tasks, Stages
<1>5. /\ q.stage = "recorded" /\ task' = [task EXCEPT ![i] = t]
      /\ disk' = [disk EXCEPT ![i] = Observed(disk[i], task[i].snap.mark)]
      /\ UNCHANGED <<lease, snaps, uploads, mgr, sup, clock, hand, stored>>
  BY <1>1, <1>3 DEF RaiseHighWater, At
<1> HIDE DEF t
<1>6. task' \in [Instances -> Tasks] /\ task'[i] = t /\ \A j \in Instances : j # i => task'[j] = task[j]
  BY <1>4, <1>5, OneTask
<1>7. TaskOn(i)
  BY <1>2, <1>3, <1>4, <1>5, <1>6 DEF TaskOn, Busy
<1>8. PICK d \in Disks : /\ d = Observed(disk[i], task[i].snap.mark) /\ d.lastActive = disk[i].lastActive
                         /\ d.override = disk[i].override /\ d.data = disk[i].data
  BY ManagerFacts, ObservedFacts DEF Tasks, Snapshots
<1>9. SawOnly
  BY <1>5, <1>8, SawOnlyFacts
<1>10. Tame
  BY <1>5, SameTame
<1>11. stored' \in Data
  BY <1>5 DEF FInv, Types
<1>12. FInv'
  BY <1>5, <1>6, <1>7, <1>8, <1>10, <1>11, ManagerFacts, DiskStep
<1> QED
  BY <1>3, <1>4, <1>5, <1>6, <1>9, <1>12

LEMMA PruneFacts ==
  ASSUME FInv, NEW i \in Instances, PruneDelete(i)
  PROVE  Survives /\ snaps' \subseteq snaps /\ Written' \subseteq Written
<1>1. PICK gone \in SUBSET task[i].drop : snaps' = snaps \ gone
  BY DEF PruneDelete
<1>2. task' = [task EXCEPT ![i] = NoTask] /\ UNCHANGED uploads
  BY DEF PruneDelete
<1>3. Survives
  BY <1>1 DEF Survives, FInv, KeepInv
<1>4. task' \in [Instances -> Tasks] /\ task'[i] = NoTask /\ \A j \in Instances : j # i => task'[j] = task[j]
  BY <1>2, OneTask, NoTypes
<1>5. \A j \in Instances : Busy(j)' => Busy(j) /\ task'[j] = task[j]
  BY <1>4, NoTypes DEF Busy
<1>6. Written' \subseteq Written
  BY <1>1, <1>2, <1>5, WrittenIff
<1> QED
  BY <1>1, <1>3, <1>6

LEMMA PruneKeeps == ASSUME FInv, NEW i \in Instances, PruneDelete(i) PROVE FInv'
<1>1. Survives /\ snaps' \subseteq snaps /\ Written' \subseteq Written
  BY PruneFacts
<1>2. task' = [task EXCEPT ![i] = NoTask] /\ UNCHANGED <<lease, uploads, mgr, disk, sup, clock, hand, stored>>
  BY DEF PruneDelete
<1>3. task' \in [Instances -> Tasks] /\ task'[i] = NoTask /\ \A j \in Instances : j # i => task'[j] = task[j]
  BY <1>2, OneTask, NoTypes
<1>4. Tame
  BY <1>2, SameTame
<1>5. Types'
  BY <1>1, <1>2, <1>3 DEF FInv, Types
<1>6. \A j \in Instances : TakeoverMark(j)' = TakeoverMark(j)
  BY <1>2 DEF TakeoverMark
<1>7. \A j \in Instances : /\ \A s \in task'[j].drop : s \in task[j].drop \/ ~Leads(s)
                           /\ task'[j].stage = "stored" => Avail(task'[j].snap.mark)
  BY <1>3, NoTypes DEF FInv, MarkInv
<1> QED
  BY <1>1, <1>2, <1>4, <1>5, <1>6, <1>7, TakeoverMarkFacts, FStep

LEMMA SendFacts ==
  ASSUME FInv, NEW i \in Instances, SnapshotSend(i)
  PROVE  /\ \/ UNCHANGED uploads /\ task' = [task EXCEPT ![i] = NoTask]
            \/ /\ uploads' = uploads \cup {task[i].snap} /\ task'[i].stage = "sent"
               /\ task' = [task EXCEPT ![i] = [task[i] EXCEPT !.stage = "sent"]]
         /\ UNCHANGED <<lease, snaps, mgr, disk, sup, clock, hand, stored>>
         /\ task[i].stage = "copied"
         /\ task' \in [Instances -> Tasks] /\ \A j \in Instances : j # i => task'[j] = task[j]
         /\ task'[i].stage # "idle" => task'[i].snap = task[i].snap
         /\ task'[i].stage \in {"idle", "sent"} /\ task'[i].drop \subseteq task[i].drop
         /\ Written' \subseteq Written
<1>1. task[i].stage = "copied" /\ UNCHANGED <<lease, snaps, mgr, disk, sup, clock, hand, stored>>
  BY DEF SnapshotSend, At
<1>2. CASE UNCHANGED uploads /\ task' = [task EXCEPT ![i] = NoTask]
  <2>1. task' \in [Instances -> Tasks] /\ task'[i] = NoTask /\ \A j \in Instances : j # i => task'[j] = task[j]
    BY <1>2, OneTask, NoTypes
  <2>2. \A j \in Instances : Busy(j)' => Busy(j) /\ task'[j] = task[j]
    BY <2>1, NoTypes DEF Busy
  <2>3. Written' \subseteq Written
    BY <1>1, <1>2, <2>2, WrittenIff
  <2> QED
    BY <1>1, <1>2, <2>1, <2>3, NoTypes
<1>3. CASE uploads' = uploads \cup {task[i].snap} /\ task' = [task EXCEPT ![i].stage = "sent"]
  <2> DEFINE t == [task[i] EXCEPT !.stage = "sent"]
  <2>1. "sent" \in Stages
    BY DEF Stages
  <2>2. t \in Tasks /\ t.stage = "sent" /\ t.snap = task[i].snap /\ t.drop = task[i].drop
    BY <2>1, StageFacts
  <2>3. task' = [task EXCEPT ![i] = t]
    BY <1>3
  <2> HIDE DEF t
  <2>4. task' \in [Instances -> Tasks] /\ task'[i] = t /\ \A j \in Instances : j # i => task'[j] = task[j]
    BY <2>2, <2>3, OneTask
  <2>5. Busy(i) /\ \A j \in Instances : Busy(j)' => Busy(j) /\ task'[j].snap = task[j].snap
    BY <1>1, <2>2, <2>4 DEF Busy
  <2>6. Written' \subseteq Written
    BY <1>1, <1>3, <2>5, WrittenIff
  <2>7. task' = [task EXCEPT ![i] = [task[i] EXCEPT !.stage = "sent"]]
    BY <1>3
  <2> QED
    BY <1>1, <1>3, <2>2, <2>4, <2>6, <2>7
<1> QED
  BY <1>2, <1>3 DEF SnapshotSend

LEMMA SendKeeps == ASSUME FInv, NEW i \in Instances, SnapshotSend(i) PROVE FInv'
<1>1. /\ UNCHANGED <<lease, snaps, mgr, disk, sup, clock, hand, stored>> /\ Written' \subseteq Written
      /\ task' \in [Instances -> Tasks] /\ \A j \in Instances : j # i => task'[j] = task[j]
      /\ task'[i].stage \in {"idle", "sent"} /\ task'[i].drop \subseteq task[i].drop
      /\ uploads' \in {uploads, uploads \cup {task[i].snap}}
  BY SendFacts
<1>2. Tame
  BY <1>1, SameTame
<1>3. uploads' \in SUBSET Snapshots
  BY <1>1, ManagerFacts DEF FInv, Types, Tasks
<1>4. Types'
  BY <1>1, <1>3 DEF FInv, Types
<1>5. Survives /\ snaps' \subseteq snaps
  BY <1>1 DEF Survives
<1>6. \A j \in Instances : TakeoverMark(j)' = TakeoverMark(j)
  BY <1>1 DEF TakeoverMark
<1>7. \A j \in Instances : /\ \A s \in task'[j].drop : s \in task[j].drop \/ ~Leads(s)
                           /\ task'[j].stage = "stored" => Avail(task'[j].snap.mark)
  BY <1>1 DEF FInv, MarkInv
<1> QED
  BY <1>1, <1>2, <1>4, <1>5, <1>6, <1>7, TakeoverMarkFacts, FStep

\* The snapshot that is copied, and the others.
LEMMA CopyFacts ==
  ASSUME FInv, NEW i \in Instances, SnapshotCopy(i)
  PROVE  \E n \in Snapshots, u \in (1..MaxTime) \ clock :
           /\ n.mark[1] = mgr[i].epoch /\ n.mark[2] = u /\ n.by = i /\ n.data = disk[i].data /\ n.header
           /\ SetBack \/ \A w \in clock : w < u
           /\ clock' = clock \cup {u}
           /\ task' \in [Instances -> Tasks] /\ \A j \in Instances : j # i => task'[j] = task[j]
           /\ task'[i].stage = "copied" /\ task'[i].snap = n /\ task'[i].drop = task[i].drop
           /\ \A s \in Written' : s \in Written \/ s = n
<1>1. PICK u \in (1..MaxTime) \ clock :
        /\ SetBack \/ (u = 1 /\ clock = {}) \/ (u - 1 \in clock /\ \A w \in clock : w < u)
        /\ clock' = clock \cup {u}
        /\ task' = [task EXCEPT ![i].stage = "copied",
                      ![i].snap = [mark |-> <<mgr[i].epoch, u>>, by |-> i, data |-> disk[i].data, header |-> TRUE]]
  BY DEF SnapshotCopy
<1>2. task[i].stage = "idle" /\ UNCHANGED <<lease, snaps, uploads, mgr, disk, sup, hand, stored>>
  BY DEF SnapshotCopy, At
<1>3. mgr[i].epoch \in 0..MaxEpoch /\ disk[i].data \in Data
  BY ManagerFacts DEF Managers, Disks
<1>4. PICK e : e = mgr[i].epoch
  OBVIOUS
<1>5. PICK x : x = disk[i].data
  OBVIOUS
<1>6. PICK n : n = [mark |-> <<e, u>>, by |-> i, data |-> x, header |-> TRUE]
  OBVIOUS
<1>7. n \in Snapshots /\ n.mark[1] = e /\ n.mark[2] = u /\ n.by = i /\ n.data = x /\ n.header
  <2>1. <<e, u>> \in Marks
    BY <1>1, <1>3, <1>4, Constants DEF Marks
  <2> QED
    BY <1>3, <1>4, <1>5, <1>6, <2>1 DEF Snapshots
<1>8. PICK q \in Tasks : q = task[i]
  BY ManagerFacts
<1> DEFINE t == [q EXCEPT !.stage = "copied", !.snap = n]
<1>9. t \in Tasks /\ t.stage = "copied" /\ t.snap = n /\ t.drop = q.drop
  BY <1>7 DEF Tasks, Stages
<1>10. task' = [task EXCEPT ![i] = t]
  BY <1>1, <1>4, <1>5, <1>6, <1>8
<1> HIDE DEF t
<1>11. task' \in [Instances -> Tasks] /\ task'[i] = t /\ \A j \in Instances : j # i => task'[j] = task[j]
  BY <1>9, <1>10, OneTask
<1>12. \A s \in Written' : s \in Written \/ s = n
  <2>1. \A j \in Instances : Busy(j)' /\ j # i => Busy(j) /\ task'[j].snap = task[j].snap
    BY <1>11 DEF Busy
  <2> QED
    BY <1>2, <1>9, <1>11, <2>1, WrittenIff
<1>13. SetBack \/ \A w \in clock : w < u
  BY <1>1
<1>14. clock' = clock \cup {u}
  BY <1>1
<1>15. n.mark[1] = mgr[i].epoch /\ n.mark[2] = u /\ n.by = i /\ n.data = disk[i].data /\ n.header
  BY <1>4, <1>5, <1>7
<1>16. task'[i].stage = "copied" /\ task'[i].snap = n /\ task'[i].drop = task[i].drop
  BY <1>8, <1>9, <1>11
<1>17. n \in Snapshots /\ u \in (1..MaxTime) \ clock /\ task' \in [Instances -> Tasks]
       /\ \A j \in Instances : j # i => task'[j] = task[j]
  BY <1>1, <1>7, <1>11
<1> QED
  BY <1>12, <1>13, <1>14, <1>15, <1>16, <1>17, Zenon

LEMMA CopyKeeps == ASSUME FInv, NEW i \in Instances, SnapshotCopy(i) PROVE FInv'
<1>1. PICK n \in Snapshots, u \in (1..MaxTime) \ clock :
           /\ n.mark[1] = mgr[i].epoch /\ n.mark[2] = u /\ n.by = i /\ n.data = disk[i].data /\ n.header
           /\ clock' = clock \cup {u}
           /\ task' \in [Instances -> Tasks] /\ \A j \in Instances : j # i => task'[j] = task[j]
           /\ task'[i].stage = "copied" /\ task'[i].snap = n /\ task'[i].drop = task[i].drop
           /\ \A s \in Written' : s \in Written \/ s = n
  BY CopyFacts
<1>2. Active(i) /\ ~mgr[i].expired /\ UNCHANGED <<lease, snaps, uploads, mgr, disk, sup, hand, stored>>
  BY DEF SnapshotCopy, Check, Active
<1>3. /\ 0 < mgr[i].epoch /\ lease.epoch = mgr[i].epoch
      /\ \A s \in Written : s.mark[1] = mgr[i].epoch => s.by = i
      /\ \A s \in Written : ~s.header => s.mark[1] < mgr[i].epoch
      /\ \A j \in Instances : Active(j) /\ mgr[i].epoch = mgr[j].epoch => i = j
  BY <1>2 DEF FInv, ActiveInv
<1>4. mgr[i].epoch \in Nat /\ lease.epoch \in Nat
  BY ManagerFacts, Constants DEF Managers
<1>5. Types'
  <2>1. clock' \in SUBSET (0..MaxTime)
    <3>1. u \in 0..MaxTime /\ clock \in SUBSET (0..MaxTime)
      BY Constants DEF FInv, Types
    <3>2. clock' = clock \cup {u}
      BY <1>1
    <3> QED
      BY <3>1, <3>2
  <2>2. task' \in [Instances -> Tasks]
    BY <1>1
  <2> QED
    BY <1>2, <2>1, <2>2 DEF FInv, Types
<1>6. EpochInv'
  <2>1. \A s \in Written' : 0 < s.mark[1] /\ s.mark[1] <= lease'.epoch
    BY <1>1, <1>2, <1>3, <1>4 DEF FInv, EpochInv
  <2>2. \A s, t \in Written' : s.mark[1] = t.mark[1] => s.by = t.by
    BY <1>1, <1>3 DEF FInv, EpochInv
  <2> QED
    BY <1>2, <2>1, <2>2 DEF FInv, EpochInv
<1>7. ActiveInv'
  <2>1. SUFFICES ASSUME NEW j \in Instances, Active(j)
                 PROVE  /\ 0 < mgr[j].epoch /\ mgr[j].epoch <= lease.epoch
                        /\ mgr[j].epoch = lease.epoch => lease.holder \in {j, NoHolder}
                        /\ ~mgr[j].expired => lease.holder = j /\ lease.epoch = mgr[j].epoch
                        /\ \A s \in Written' : s.mark[1] = mgr[j].epoch => s.by = j
                        /\ \A s \in Written' : ~s.header => s.mark[1] < mgr[j].epoch
                        /\ \A l \in Instances : Active(l) /\ mgr[j].epoch = mgr[l].epoch => j = l
    BY <1>2 DEF ActiveInv, Active
  <2>2. /\ 0 < mgr[j].epoch /\ mgr[j].epoch <= lease.epoch
        /\ mgr[j].epoch = lease.epoch => lease.holder \in {j, NoHolder}
        /\ ~mgr[j].expired => lease.holder = j /\ lease.epoch = mgr[j].epoch
        /\ \A s \in Written : s.mark[1] = mgr[j].epoch => s.by = j
        /\ \A s \in Written : ~s.header => s.mark[1] < mgr[j].epoch
        /\ \A l \in Instances : Active(l) /\ mgr[j].epoch = mgr[l].epoch => j = l
    BY <2>1 DEF FInv, ActiveInv
  <2>3. n.mark[1] = mgr[j].epoch => n.by = j
    BY <1>1, <1>3, <2>1
  <2> QED
    BY <1>1, <2>2, <2>3
<1>8. KeepInv'
  <2>1. \A s : Leads(s)' <=> Leads(s)
    BY <1>2 DEF Leads
  <2>2. \A j \in Instances : task'[j].drop = task[j].drop
    BY <1>1
  <2>3. \A s, t \in Written' : ~s.header /\ t.header => s.mark[1] < t.mark[1]
    BY <1>1, <1>3 DEF FInv, KeepInv
  <2> QED
    BY <1>2, <2>1, <2>2, <2>3 DEF FInv, KeepInv
<1>9. MarkInv'
  <2>1. \A m : Avail(m)' <=> Avail(m)
    BY <1>2 DEF Avail
  <2>2. ASSUME NEW j \in Instances
        PROVE  TakeoverMark(j)' = TakeoverMark(j) /\ (task'[j].stage = "stored" => task'[j] = task[j])
    BY <1>1, <1>2 DEF TakeoverMark
  <2> QED
    BY <1>2, <2>1, <2>2 DEF FInv, MarkInv, Avail
<1> QED
  BY <1>5, <1>6, <1>7, <1>8, <1>9 DEF FInv

\* An upload lands.
LEMMA LandFacts ==
  ASSUME FInv, NEW s \in uploads, UploadLands(s)
  PROVE  /\ Survives /\ Written' = Written /\ snaps' = snaps \cup {s} /\ s \in Snapshots
         /\ UNCHANGED <<lease, mgr, disk, sup, task, clock, hand, stored>>
<1>1. snaps' = snaps \cup {s} /\ uploads' = uploads \ {s}
      /\ UNCHANGED <<lease, mgr, disk, sup, task, clock, hand, stored>>
  BY DEF UploadLands
<1>2. \A x : x \in Written' <=> x \in Written
  BY <1>1, WrittenIff DEF Busy
<1> QED
  BY <1>1, <1>2 DEF Survives, FInv, Types

LEMMA LandKeeps == ASSUME FInv, NEW s \in uploads, UploadLands(s) PROVE FInv'
<1>1. /\ Survives /\ Written' = Written /\ snaps' = snaps \cup {s} /\ s \in Snapshots /\ s.mark \in Marks
      /\ UNCHANGED <<lease, mgr, disk, sup, task, clock, hand, stored>>
  BY LandFacts DEF Snapshots
<1>2. Types'
  BY <1>1 DEF FInv, Types, UploadLands
<1>3. EpochInv' /\ ActiveInv'
  BY <1>1 DEF FInv, EpochInv, ActiveInv, Active
<1>4. KeepInv'
  <2>1. \E T \in snaps' : Leads(T)'
    <3>1. CASE snaps = {}
      BY <1>1, <3>1, MarkOrder DEF Leads
    <3>2. CASE snaps # {}
      <4>1. PICK T \in snaps : Leads(T)
        BY <3>2 DEF FInv, KeepInv
      <4>2. T.mark \in Marks /\ \A t \in snaps : t.mark \in Marks /\ ~Before(T.mark, t.mark)
        BY <4>1, WrittenIff, WrittenType DEF FInv, Leads
      <4>3. CASE ~Before(T.mark, s.mark)
        BY <1>1, <4>1, <4>2, <4>3 DEF Leads
      <4>4. CASE Before(T.mark, s.mark)
        <5>1. \A t \in snaps : ~Before(s.mark, t.mark)
          BY <1>1, <4>2, <4>4, MarkOrder
        <5>2. ~Before(s.mark, s.mark)
          BY <1>1, MarkOrder
        <5> QED
          BY <1>1, <5>1, <5>2 DEF Leads
      <4> QED
        BY <4>3, <4>4
    <3> QED
      BY <3>1, <3>2
  <2>2. \A x : Leads(x)' => Leads(x)
    BY <1>1 DEF Leads
  <2> QED
    BY <1>1, <2>1, <2>2 DEF FInv, KeepInv
<1>5. MarkInv'
  <2>1. Avail(lease.mark)'
    BY <1>1, AvailKept DEF FInv, Types, MarkInv
  <2>2. ASSUME NEW j \in Instances
        PROVE  /\ Avail(mgr[j].mark)' /\ Avail(mgr[j].seenMark)' /\ Avail(TakeoverMark(j))'
               /\ task'[j].stage = "stored" => Avail(task[j].snap.mark)'
    <3>1. mgr[j].mark \in Marks /\ mgr[j].seenMark \in Marks /\ task[j].snap.mark \in Marks
      BY ManagerFacts DEF Tasks, Snapshots
    <3>2. TakeoverMark(j)' = TakeoverMark(j) /\ TakeoverMark(j) \in Marks
      BY <1>1, TakeoverMarkFacts DEF TakeoverMark
    <3>3. \A m \in Marks : Avail(m) => Avail(m)'
      BY <1>1, AvailKept
    <3> QED
      BY <1>1, <3>1, <3>2, <3>3 DEF FInv, MarkInv, Avail
  <2> QED
    BY <2>1, <2>2 DEF MarkInv
<1> QED
  BY <1>2, <1>3, <1>4, <1>5 DEF FInv

-----------------------------------------------------------------------------
(* The start. *)

\* What the clusters of Init have in common.
InitSnaps ==
    /\ snaps \in SUBSET Snapshots /\ stored \in Data
    /\ lease \in [there : BOOLEAN, holder : Instances \cup {NoHolder}, epoch : 0..MaxEpoch, mark : Marks,
                  mac : {"none", "valid", "wrong"}, back : BOOLEAN]
    /\ lease.holder = NoHolder /\ Avail(lease.mark)
    /\ clock \in SUBSET (0..MaxTime)
    /\ \A s \in snaps : s.mark[1] = lease.epoch /\ 0 < lease.epoch /\ s.mark[2] \in clock
    /\ \A s, t \in snaps : s.by = t.by /\ s.header = t.header /\ (s.mark[2] <= t.mark[2] => s.data \subseteq t.data)
    /\ \A s \in snaps : Leads(s) => stored \subseteq s.data
    /\ snaps # {} => \E s \in snaps : Leads(s)
    /\ snaps = {} => stored = {}
InitDisks ==
    /\ disk \in [Instances -> Disks]
    /\ \A i \in Instances : /\ disk[i].lastActive = 0 \/ (disk[i].lastActive = lease.epoch /\ stored \subseteq disk[i].data)
                            /\ disk[i].override = NoOverride

LEMMA FreshDisk ==
  ASSUME NEW d, d = [data |-> {}, lastActive |-> 0, high |-> NoMark, seen |-> FALSE, authentic |-> FALSE,
                     override |-> NoOverride]
  PROVE  d \in Disks /\ d.lastActive = 0 /\ d.override = NoOverride
  BY NoTypes, Constants DEF Disks

LEMMA InitStart ==
  ASSUME Init
  PROVE  InitSnaps /\ InitDisks
<1>1. PICK history \in Histories, last \in Instances :
      LET old(m, d, h) == [mark |-> m, by |-> IF h THEN last ELSE NoHolder, data |-> d, header |-> h]
          past == CASE history = "none" -> {}
                    [] history = "legacy" -> {old(<<3, 1>>, {0}, FALSE)}
                    [] history = "snapshots" -> {old(<<2, 1>>, {}, TRUE), old(<<2, 2>>, {0}, TRUE)}
          fresh == [data |-> {}, lastActive |-> 0, high |-> NoMark, seen |-> FALSE, authentic |-> FALSE,
                    override |-> NoOverride]
          signed == history = "snapshots"
      IN
      /\ snaps = past
      /\ lease = IF past = {} THEN NoLease
                 ELSE [there |-> TRUE, holder |-> NoHolder, epoch |-> IF signed THEN 2 ELSE 3,
                       mark |-> IF signed THEN <<2, 2>> ELSE NoMark, mac |-> IF signed THEN "valid" ELSE "none",
                       back |-> FALSE]
      /\ disk = [i \in Instances |->
                   IF i = last /\ signed
                   THEN [fresh EXCEPT !.data = {0}, !.lastActive = 2, !.high = <<2, 2>>, !.seen = TRUE, !.authentic = TRUE]
                   ELSE fresh]
      /\ clock = {s.mark[2] : s \in past}
      /\ stored = UNION {s.data : s \in past}
  BY DEF Init
<1>2. PICK fresh : fresh = [data |-> {}, lastActive |-> 0, high |-> NoMark, seen |-> FALSE, authentic |-> FALSE,
                            override |-> NoOverride]
  OBVIOUS
<1>3. fresh \in Disks /\ fresh.lastActive = 0 /\ fresh.override = NoOverride
  BY <1>2, FreshDisk
<1>4. history \in {"none", "legacy", "snapshots"} /\ 0 \in 0..MaxChange /\ {0} \in Data /\ {} \in Data
      /\ NoHolder \in Instances \cup {NoHolder} /\ last \in Instances \cup {NoHolder}
  BY HAFailoverConstants, Constants DEF Data
<1>5. CASE history = "none"
  <2>1. /\ snaps = {} /\ lease = NoLease /\ clock = {} /\ stored = {}
        /\ disk = [i \in Instances |-> fresh]
    BY <1>1, <1>2, <1>5
  <2>2. lease \in [there : BOOLEAN, holder : Instances \cup {NoHolder}, epoch : 0..MaxEpoch, mark : Marks,
                   mac : {"none", "valid", "wrong"}, back : BOOLEAN]
        /\ lease.holder = NoHolder /\ lease.mark = NoMark
    BY <2>1, NoTypes, Constants DEF NoLease
  <2>3. InitSnaps
    BY <1>4, <2>1, <2>2, NoMarkAvail DEF InitSnaps
  <2> QED
    BY <1>3, <2>1, <2>3 DEF InitDisks
<1>6. CASE history = "legacy"
  <2>1. PICK L : L = [mark |-> <<3, 1>>, by |-> NoHolder, data |-> {0}, header |-> FALSE]
    OBVIOUS
  <2>2. snaps = {L}
    BY <1>1, <1>6, <2>1
  <2>3. lease = [there |-> TRUE, holder |-> NoHolder, epoch |-> 3, mark |-> NoMark, mac |-> "none", back |-> FALSE]
    BY <1>1, <1>6
  <2>4. clock = {L.mark[2]} /\ stored = L.data
    BY <1>1, <1>6, <2>1
  <2>5. disk = [i \in Instances |-> fresh]
    BY <1>1, <1>2, <1>6
  <2>6. <<3, 1>> \in Marks /\ 3 \in 0..MaxEpoch /\ 1 \in 0..MaxTime
    BY <1>6, HAFailoverConstants, Constants DEF Marks
  <2>7. L \in Snapshots /\ L.mark = <<3, 1>> /\ L.mark[1] = 3 /\ L.mark[2] = 1 /\ L.data = {0}
    BY <1>4, <2>1, <2>6 DEF Snapshots
  <2>8. lease \in [there : BOOLEAN, holder : Instances \cup {NoHolder}, epoch : 0..MaxEpoch, mark : Marks,
                   mac : {"none", "valid", "wrong"}, back : BOOLEAN]
        /\ lease.holder = NoHolder /\ lease.mark = NoMark /\ lease.epoch = 3
    BY <1>4, <2>3, <2>6, NoTypes
  <2>9. Leads(L)
    BY <2>2, <2>6, <2>7, MarkOrder DEF Leads
  <2>10. InitSnaps
    BY <1>4, <2>2, <2>4, <2>6, <2>7, <2>8, <2>9, NoMarkAvail DEF InitSnaps
  <2> QED
    BY <1>3, <2>5, <2>10 DEF InitDisks
<1>7. CASE history = "snapshots"
  <2>1. PICK L : L = [mark |-> <<2, 1>>, by |-> last, data |-> {}, header |-> TRUE]
    OBVIOUS
  <2>2. PICK M : M = [mark |-> <<2, 2>>, by |-> last, data |-> {0}, header |-> TRUE]
    OBVIOUS
  <2>3. snaps = {L, M}
    BY <1>1, <1>7, <2>1, <2>2
  <2>4. lease = [there |-> TRUE, holder |-> NoHolder, epoch |-> 2, mark |-> <<2, 2>>, mac |-> "valid", back |-> FALSE]
    BY <1>1, <1>7
  <2>5. clock = {L.mark[2], M.mark[2]}
    BY <1>1, <1>7, <2>1, <2>2
  <2>6. stored = L.data \cup M.data
    <3>1. stored = UNION {s.data : s \in snaps}
      BY <1>1, Zenon
    <3> QED
      BY <2>3, <3>1
  <2>7. <<2, 1>> \in Marks /\ <<2, 2>> \in Marks /\ 2 \in 0..MaxEpoch /\ {1, 2} \subseteq 0..MaxTime
    BY <1>7, HAFailoverConstants, Constants DEF Marks
  <2>8. /\ L \in Snapshots /\ L.mark = <<2, 1>> /\ L.mark[1] = 2 /\ L.mark[2] = 1 /\ L.data = {}
        /\ L.by = last /\ L.header
    BY <1>4, <2>1, <2>7 DEF Snapshots
  <2>9. /\ M \in Snapshots /\ M.mark = <<2, 2>> /\ M.mark[1] = 2 /\ M.mark[2] = 2 /\ M.data = {0}
        /\ M.by = last /\ M.header
    BY <1>4, <2>2, <2>7 DEF Snapshots
  <2>10. lease \in [there : BOOLEAN, holder : Instances \cup {NoHolder}, epoch : 0..MaxEpoch, mark : Marks,
                    mac : {"none", "valid", "wrong"}, back : BOOLEAN]
         /\ lease.holder = NoHolder /\ lease.mark = M.mark /\ lease.epoch = 2
    BY <1>4, <2>4, <2>7, <2>9
  <2>11. Before(L.mark, M.mark) /\ ~Before(M.mark, M.mark) /\ ~Before(M.mark, L.mark)
    BY <2>8, <2>9 DEF Before
  <2>12. Leads(M) /\ ~Leads(L) /\ Avail(lease.mark)
    BY <2>3, <2>10, <2>11 DEF Leads, Avail
  <2>13. stored = {0}
    BY <2>6, <2>8, <2>9
  <2>14. InitSnaps
    <3>1. \A s, t \in snaps : s.by = t.by /\ s.header = t.header /\ (s.mark[2] <= t.mark[2] => s.data \subseteq t.data)
      <4>1. ~(M.mark[2] <= L.mark[2]) /\ L.data \subseteq M.data /\ L.by = M.by /\ L.header = M.header
        BY <2>8, <2>9
      <4>2. SUFFICES ASSUME NEW s \in {L, M}, NEW t \in {L, M}
                     PROVE  s.by = t.by /\ s.header = t.header /\ (s.mark[2] <= t.mark[2] => s.data \subseteq t.data)
        BY <2>3
      <4> QED
        BY <4>1, <4>2
    <3>2. \A s \in snaps : s.mark[1] = lease.epoch /\ 0 < lease.epoch /\ s.mark[2] \in clock
      BY <2>3, <2>5, <2>8, <2>9, <2>10
    <3>3. clock \in SUBSET (0..MaxTime) /\ stored \in Data
      BY <1>4, <2>5, <2>7, <2>8, <2>9, <2>13
    <3>4. snaps \in SUBSET Snapshots /\ snaps # {} /\ \E s \in snaps : Leads(s)
      BY <2>3, <2>8, <2>9, <2>12
    <3>5. \A s \in snaps : Leads(s) => stored \subseteq s.data
      BY <2>3, <2>9, <2>12, <2>13
    <3> QED
      BY <2>10, <2>12, <3>1, <3>2, <3>3, <3>4, <3>5 DEF InitSnaps
  <2> DEFINE own == [fresh EXCEPT !.data = {0}, !.lastActive = 2, !.high = <<2, 2>>, !.seen = TRUE, !.authentic = TRUE]
  <2>15. own \in Disks /\ own.lastActive = 2 /\ own.data = {0} /\ own.override = fresh.override
    BY <1>3, <1>4, <2>7 DEF Disks
  <2>16. disk = [i \in Instances |-> IF i = last THEN own ELSE fresh]
    BY <1>1, <1>2, <1>7
  <2> HIDE DEF own
  <2>17. disk \in [Instances -> Disks] /\ \A i \in Instances : disk[i] \in {own, fresh}
    BY <1>3, <2>15, <2>16
  <2>18. InitDisks
    BY <1>3, <2>10, <2>13, <2>15, <2>17 DEF InitDisks
  <2> QED
    BY <2>14, <2>18
<1> QED
  BY <1>4, <1>5, <1>6, <1>7

LEMMA InitRest ==
  ASSUME Init
  PROVE  /\ uploads = {} /\ mgr = [i \in Instances |-> NewManager] /\ sup = [i \in Instances |-> Supervising("down")]
         /\ task = [i \in Instances |-> NoTask] /\ hand = 0
  BY DEF Init

LEMMA InitWritten ==
  ASSUME Init
  PROVE  /\ \A i \in Instances : ~Busy(i) /\ ~Active(i) /\ mgr[i] = NewManager /\ task[i] = NoTask
                                 /\ sup[i] = Supervising("down")
         /\ \A s : s \in Written <=> s \in snaps
<1>1. \A i \in Instances : mgr[i] = NewManager /\ task[i] = NoTask /\ sup[i] = Supervising("down")
  BY InitRest
<1>2. \A i \in Instances : ~Busy(i) /\ ~Active(i)
  BY <1>1, NoTypes DEF Busy, Active
<1>3. \A s : s \in Written <=> s \in snaps
  BY <1>2, InitRest, WrittenIff
<1> QED
  BY <1>1, <1>2, <1>3

LEMMA InitF == Init => FInv
<1>1. SUFFICES ASSUME Init PROVE FInv
  OBVIOUS
<1>2. InitSnaps /\ InitDisks
  BY <1>1, InitStart
<1>3. /\ \A i \in Instances : ~Busy(i) /\ ~Active(i) /\ mgr[i] = NewManager /\ task[i] = NoTask
                              /\ sup[i] = Supervising("down")
      /\ \A s : s \in Written <=> s \in snaps
  BY <1>1, InitWritten
<1>4. Supervising("down") \in Supervisors /\ ~Supervising("down").forced /\ Supervising("down").snap = NoSnapshot
  BY PhaseTypes, SupervisingType
<1>5. Types
  BY <1>1, <1>2, <1>3, <1>4, InitRest, NoTypes DEF Types, InitSnaps, InitDisks
<1>6. EpochInv
  <2>1. \A s \in Written : 0 < s.mark[1] /\ s.mark[1] <= lease.epoch
    BY <1>2, <1>3, Constants DEF InitSnaps
  <2>2. \A i \in Instances : mgr[i].seenEpoch <= lease.epoch /\ disk[i].lastActive <= lease.epoch
    BY <1>2, <1>3, NoTypes, Constants DEF InitSnaps, InitDisks
  <2> QED
    BY <1>2, <1>3, <2>1, <2>2 DEF EpochInv, InitSnaps
<1>7. ActiveInv
  BY <1>3 DEF ActiveInv
<1>8. KeepInv
  BY <1>2, <1>3, NoTypes DEF KeepInv, InitSnaps
<1>9. MarkInv
  <2>1. \A i \in Instances : TakeoverMark(i) = NoMark
    BY <1>3, <1>4, NoTypes DEF TakeoverMark
  <2> QED
    BY <1>2, <1>3, <2>1, NoTypes, NoMarkAvail DEF MarkInv, InitSnaps
<1> QED
  BY <1>5, <1>6, <1>7, <1>8, <1>9 DEF FInv

-----------------------------------------------------------------------------
(* Every step. *)

LEMMA NoHand ==
  ASSUME Hand = 0, FInv
  PROVE  ~PeopleStep
  BY DEF FInv, Types, PeopleStep, DeleteSnapshot, DeleteLease, AlterLease, ReplayLease, RequestTakeover

LEMMA FManager == ASSUME FInv, NEW i \in Instances, ManagerStep(i) PROVE FInv'
  BY RenewKeeps, ExpireKeeps, ObserveKeeps, AcquireKeeps DEF ManagerStep

LEMMA FTakeover == ASSUME FInv, NEW i \in Instances, TakeoverStep(i) PROVE FInv'
  BY BootstrapKeeps, NoForce, EmptyKeeps, SelectKeeps, RefuseKeeps, RestoreKeeps, RestoreFailsKeeps, ConfirmKeeps,
     TakeoverFailedKeeps, OpenAppKeeps, ServeFacts DEF TakeoverStep

LEMMA FActive == ASSUME FInv, NEW i \in Instances, ActiveStep(i) PROVE FInv'
  BY ChangeKeeps, LoseLeaseKeeps, ShutdownKeeps, EndsInExit, ExitKeeps DEF ActiveStep

LEMMA FSnapshot == ASSUME FInv, NEW i \in Instances, SnapshotStep(i) PROVE FInv'
  BY CopyKeeps, SendKeeps, StoredKeeps, FailsKeeps, RecordKeeps, RaiseKeeps, PruneKeeps DEF SnapshotStep

LEMMA FStutter == ASSUME FInv, UNCHANGED vars PROVE FInv'
<1>1. Tame
  BY SameTame DEF vars
<1> QED
  BY <1>1, SameDisk, ManagersOnly DEF vars

LEMMA NextF == ASSUME Hand = 0, FInv, [Next]_vars PROVE FInv'
  BY FManager, FTakeover, FActive, FSnapshot, LandKeeps, NoHand, FStutter DEF Next

LEMMA FTypes == FInv => TypeOK
<1>1. SUFFICES ASSUME FInv PROVE TypeOK
  OBVIOUS
<1>2. ASSUME NEW i \in Instances
      PROVE  /\ mgr[i].role \in {"standby", "active"} /\ {mgr[i].expired, mgr[i].signed} \subseteq BOOLEAN
             /\ {mgr[i].epoch, mgr[i].seenEpoch} \subseteq 0..MaxEpoch /\ {mgr[i].mark, mgr[i].seenMark} \subseteq Marks
             /\ mgr[i].pred \in [trust : Trusts, epoch : 0..MaxEpoch, named : Marks, mark : Marks]
             /\ disk[i] \in [data : Data, lastActive : 0..MaxEpoch, high : Marks, seen : BOOLEAN, authentic : BOOLEAN,
                             override : [kind : {"none", "local", "snapshot"}, snap : Snapshots]]
             /\ sup[i].phase \in Phases /\ sup[i].snap \in Snapshots /\ {sup[i].forced, sup[i].empty} \subseteq BOOLEAN
             /\ task[i].stage \in Stages /\ task[i].snap \in Snapshots /\ task[i].drop \subseteq Snapshots
  <2>1. mgr[i] \in Managers /\ disk[i] \in Disks /\ sup[i] \in Supervisors /\ task[i] \in Tasks
    BY <1>1, ManagerFacts
  <2>2. mgr[i].role \in {"standby", "active"} /\ {mgr[i].expired, mgr[i].signed} \subseteq BOOLEAN
        /\ {mgr[i].epoch, mgr[i].seenEpoch} \subseteq 0..MaxEpoch /\ {mgr[i].mark, mgr[i].seenMark} \subseteq Marks
        /\ mgr[i].pred \in [trust : Trusts, epoch : 0..MaxEpoch, named : Marks, mark : Marks]
    BY <2>1 DEF Managers
  <2>3. sup[i].phase \in Phases /\ sup[i].snap \in Snapshots /\ {sup[i].forced, sup[i].empty} \subseteq BOOLEAN
    BY <2>1 DEF Supervisors
  <2>4. task[i].stage \in Stages /\ task[i].snap \in Snapshots /\ task[i].drop \subseteq Snapshots
    BY <2>1 DEF Tasks
  <2> QED
    BY <2>1, <2>2, <2>3, <2>4 DEF Disks, Overrides
<1>3. hand \in 0..Hand
  BY <1>1, HAFailoverConstants DEF FInv, Types
<1> QED
  BY <1>1, <1>2, <1>3 DEF FInv, Types, TypeOK

LEMMA FImplies == FInv => FailoverInv /\ NamedAvailable
<1>1. SUFFICES ASSUME FInv PROVE FailoverInv /\ NamedAvailable
  OBVIOUS
<1>2. \A s \in snaps \cup uploads : s \in Written
  BY WrittenIff
<1>3. FailoverInv
  BY <1>1, <1>2, FTypes DEF FInv, EpochInv, ActiveInv, Active, FailoverInv
<1>4. NamedAvailable
  BY <1>1 DEF FInv, MarkInv, Avail, NamedAvailable
<1> QED
  BY <1>3, <1>4

\* As long as nobody interferes by hand, whatever the clocks, the takeovers that
\* overlap and the history of the cluster: an epoch belongs to one instance, and
\* nothing is known of a later epoch than that of the lease (FailoverInv).
THEOREM OneWriter ==
  ASSUME Hand = 0
  PROVE  Spec => []FailoverInv
<1>1. Init => FInv
  BY InitF
<1>2. FInv /\ [Next]_vars => FInv'
  BY NextF
<1>3. FInv => FailoverInv
  BY FImplies
<1> QED
  BY <1>1, <1>2, <1>3, PTL DEF Spec

\* Under the same conditions a takeover always finds a snapshot at least as new as
\* the one the lease names: the retention of no instance, however late, deletes the
\* newest snapshot (NamedAvailable).
THEOREM NewestRetained ==
  ASSUME Hand = 0
  PROVE  Spec => []NamedAvailable
<1>1. Init => FInv
  BY InitF
<1>2. FInv /\ [Next]_vars => FInv'
  BY NextF
<1>3. FInv => NamedAvailable
  BY FImplies
<1> QED
  BY <1>1, <1>2, <1>3, PTL DEF Spec

-----------------------------------------------------------------------------
(* What was stored is kept: steps that write no new snapshot. *)

LEMMA LeadEpoch ==
  ASSUME FInv, NEW T \in snaps, Leads(T), NEW s \in snaps
  PROVE  s.mark[1] \in Nat /\ T.mark[1] \in Nat /\ s.mark[1] <= T.mark[1]
<1>1. s.mark[1] \in Nat /\ T.mark[1] \in Nat
  BY WrittenIff, WrittenType DEF FInv
<1> QED
  BY <1>1 DEF Leads, Before

LEMMA HasKept ==
  ASSUME FInv, Survives, UNCHANGED stored, NEW D, NEW e \in Nat, Has(D, e)
  PROVE  Has(D, e)'
<1>1. CASE stored \subseteq D
  BY <1>1 DEF Has
<1>2. CASE \E s \in snaps : s.mark[1] > e
  <2>1. PICK s \in snaps : s.mark[1] > e
    BY <1>2
  <2>2. PICK T \in snaps : Leads(T)
    BY <2>1 DEF FInv, KeepInv
  <2>3. T \in snaps' /\ T.mark[1] > e
    BY <2>1, <2>2, LeadEpoch DEF Survives
  <2> QED
    BY <2>3 DEF Has
<1> QED
  BY <1>1, <1>2 DEF Has

LEMMA HasMore == ASSUME NEW D, NEW E, NEW e, D \subseteq E, Has(D, e) PROVE Has(E, e)
  BY DEF Has

LEMMA DataKept ==
  ASSUME FInv, DataInv, Survives, Written' \subseteq Written, clock \subseteq clock', UNCHANGED stored
  PROVE  DataInv'
<1>1. ASSUME NEW s \in Written', Leads(s)' PROVE stored' \subseteq s.data
  <2>1. s \in Written /\ s.mark \in Marks
    BY WrittenType DEF FInv
  <2>2. Leads(s)
    BY <1>1, <2>1, LeadsBefore
  <2> QED
    BY <2>1, <2>2 DEF DataInv
<1>2. snaps' = {} => stored' = {}
  BY DEF DataInv, FInv, KeepInv, Survives
<1>3. \A s \in Written' : s.mark[2] \in clock'
  BY DEF DataInv
<1>4. \A s, t \in Written' : s.mark[1] = t.mark[1] /\ s.mark[2] <= t.mark[2] => s.data \subseteq t.data
  BY DEF DataInv
<1> QED
  BY <1>1, <1>2, <1>3, <1>4 DEF DataInv

\* What is to be shown of the instance i.
Fits(i) ==
    /\ Busy(i)' => Running(i)' /\ task'[i].snap.data \subseteq disk'[i].data
    /\ sup'[i].phase = "down" => ~Active(i)'
    /\ Active(i)' /\ Running(i)' => \A s \in Written : s.mark[1] = mgr'[i].epoch => s.data \subseteq disk'[i].data
    /\ Active(i)' /\ Ahead(i)' => \A s \in Written : s.mark[1] # mgr'[i].epoch
    /\ Has(disk'[i].data, disk'[i].lastActive)
    /\ sup'[i].phase = "restoring" =>
         Has(sup'[i].snap.data, disk'[i].lastActive) /\ (Active(i)' => Has(sup'[i].snap.data, mgr'[i].epoch))
    /\ sup'[i].phase \in {"confirming", "opening"} \/ Running(i)' => (Active(i)' => Has(disk'[i].data, mgr'[i].epoch))

LEMMA SStep ==
  ASSUME FInv, FInv', SInv, Survives, Written' \subseteq Written, clock \subseteq clock', UNCHANGED stored,
         \A i \in Instances : Fits(i)
  PROVE  SInv'
<1>1. DataInv'
  BY DataKept DEF SInv
<1>2. WorkInv'
  <2>1. SUFFICES ASSUME NEW i \in Instances
                 PROVE  /\ Busy(i)' => Running(i)' /\ task'[i].snap.data \subseteq disk'[i].data
                        /\ sup'[i].phase = "down" => ~Active(i)'
                        /\ Active(i)' /\ Running(i)' => \A s \in Written' : s.mark[1] = mgr'[i].epoch => s.data \subseteq disk'[i].data
                        /\ Active(i)' /\ Ahead(i)' => \A s \in Written' : s.mark[1] # mgr'[i].epoch
    BY DEF WorkInv
  <2>2. Fits(i)
    OBVIOUS
  <2> QED
    BY <2>2 DEF Fits
<1>3. HasInv'
  <2>1. SUFFICES ASSUME NEW i \in Instances
                 PROVE  /\ Has(disk[i].data, disk[i].lastActive)'
                        /\ sup'[i].phase = "restoring" =>
                             Has(sup[i].snap.data, disk[i].lastActive)' /\ (Active(i)' => Has(sup[i].snap.data, mgr[i].epoch)')
                        /\ sup'[i].phase \in {"confirming", "opening"} \/ Running(i)' => (Active(i)' => Has(disk[i].data, mgr[i].epoch)')
    BY DEF HasInv
  <2>2. /\ Has(disk'[i].data, disk'[i].lastActive)
        /\ sup'[i].phase = "restoring" =>
             Has(sup'[i].snap.data, disk'[i].lastActive) /\ (Active(i)' => Has(sup'[i].snap.data, mgr'[i].epoch))
        /\ sup'[i].phase \in {"confirming", "opening"} \/ Running(i)' => (Active(i)' => Has(disk'[i].data, mgr'[i].epoch))
    BY DEF Fits
  <2>3. disk'[i].lastActive \in Nat /\ mgr'[i].epoch \in Nat
    <3>1. disk'[i] \in Disks /\ mgr'[i] \in Managers
      BY DEF FInv, Types
    <3> QED
      BY <3>1, Constants DEF Disks, Managers
  <2>4. PICK e \in Nat : e = disk'[i].lastActive
    BY <2>3
  <2>5. PICK f \in Nat : f = mgr'[i].epoch
    BY <2>3
  <2>6. PICK D : D = disk'[i].data
    OBVIOUS
  <2>7. PICK E : E = sup'[i].snap.data
    OBVIOUS
  <2>8. /\ Has(D, e) => Has(D, e)'
        /\ Has(D, f) => Has(D, f)'
        /\ Has(E, e) => Has(E, e)'
        /\ Has(E, f) => Has(E, f)'
    BY HasKept
  <2>9. /\ Has(disk'[i].data, disk'[i].lastActive) => Has(disk[i].data, disk[i].lastActive)'
        /\ Has(disk'[i].data, mgr'[i].epoch) => Has(disk[i].data, mgr[i].epoch)'
        /\ Has(sup'[i].snap.data, disk'[i].lastActive) => Has(sup[i].snap.data, disk[i].lastActive)'
        /\ Has(sup'[i].snap.data, mgr'[i].epoch) => Has(sup[i].snap.data, mgr[i].epoch)'
    BY <2>4, <2>5, <2>6, <2>7, <2>8 DEF Has
  <2> QED
    BY <2>2, <2>9
<1> QED
  BY <1>1, <1>2, <1>3 DEF SInv

\* An instance whose database only grows and whose lease, if it has one, is the same.
LEMMA FitsSame ==
  ASSUME FInv, SInv, NEW i \in Instances,
         disk[i].data \subseteq disk'[i].data, disk'[i].lastActive = disk[i].lastActive,
         Busy(i)' => Busy(i) /\ Running(i)' /\ task'[i].snap = task[i].snap,
         Active(i)' => Active(i) /\ mgr'[i].epoch = mgr[i].epoch,
         sup'[i].phase = "down" => ~Active(i)',
         Active(i)' /\ Running(i)' => Running(i) \/ Ahead(i),
         Active(i)' /\ Ahead(i)' => Ahead(i),
         sup'[i].phase = "restoring" => sup[i].phase = "restoring" /\ sup'[i].snap = sup[i].snap,
         Active(i)' /\ (sup'[i].phase \in {"confirming", "opening"} \/ Running(i)') =>
           sup[i].phase \in {"confirming", "opening"} \/ Running(i)
  PROVE  Fits(i)
<1>1. /\ Busy(i) => Running(i) /\ task[i].snap.data \subseteq disk[i].data
      /\ Active(i) /\ Running(i) => \A s \in Written : s.mark[1] = mgr[i].epoch => s.data \subseteq disk[i].data
      /\ Active(i) /\ Ahead(i) => \A s \in Written : s.mark[1] # mgr[i].epoch
  BY DEF SInv, WorkInv
<1>2. /\ Has(disk[i].data, disk[i].lastActive)
      /\ sup[i].phase = "restoring" =>
           Has(sup[i].snap.data, disk[i].lastActive) /\ (Active(i) => Has(sup[i].snap.data, mgr[i].epoch))
      /\ sup[i].phase \in {"confirming", "opening"} \/ Running(i) => (Active(i) => Has(disk[i].data, mgr[i].epoch))
  BY DEF SInv, HasInv
<1>3. Has(disk'[i].data, disk'[i].lastActive)
  BY <1>2, HasMore
<1>4. sup'[i].phase = "restoring" =>
         Has(sup'[i].snap.data, disk'[i].lastActive) /\ (Active(i)' => Has(sup'[i].snap.data, mgr'[i].epoch))
  BY <1>2
<1>5. sup'[i].phase \in {"confirming", "opening"} \/ Running(i)' => (Active(i)' => Has(disk'[i].data, mgr'[i].epoch))
  BY <1>2, HasMore
<1>6. Busy(i)' => Running(i)' /\ task'[i].snap.data \subseteq disk'[i].data
  BY <1>1
<1>7. Active(i)' /\ Running(i)' => \A s \in Written : s.mark[1] = mgr'[i].epoch => s.data \subseteq disk'[i].data
  BY <1>1
<1>8. Active(i)' /\ Ahead(i)' => \A s \in Written : s.mark[1] # mgr'[i].epoch
  BY <1>1
<1> QED
  BY <1>3, <1>4, <1>5, <1>6, <1>7, <1>8 DEF Fits

\* An instance that the step of another leaves alone, or whose manager alone changes.
LEMMA FitsOther ==
  ASSUME FInv, SInv, NEW i \in Instances, sup'[i] = sup[i],
         disk'[i].data = disk[i].data, disk'[i].lastActive = disk[i].lastActive,
         Busy(i)' => Busy(i) /\ task'[i].snap = task[i].snap,
         Active(i)' => Active(i) /\ mgr'[i].epoch = mgr[i].epoch
  PROVE  Fits(i)
<1>1. /\ Busy(i) => Running(i)
      /\ sup[i].phase = "down" => ~Active(i)
  BY DEF SInv, WorkInv
<1> QED
  BY <1>1, FitsSame DEF Running, Ahead

\* Steps of the instance i alone that write no object.
LEMMA SQuiet ==
  ASSUME FInv, FInv', SInv, NEW i \in Instances, UNCHANGED <<snaps, uploads, clock, stored>>,
         \A j \in Instances : Busy(j)' => Busy(j) /\ task'[j].snap = task[j].snap,
         \A j \in Instances : j # i =>
           /\ sup'[j] = sup[j] /\ disk'[j].data = disk[j].data /\ disk'[j].lastActive = disk[j].lastActive
           /\ Active(j)' => Active(j) /\ mgr'[j].epoch = mgr[j].epoch,
         Fits(i)
  PROVE  SInv'
<1>1. Survives
  BY DEF Survives
<1>2. Written' \subseteq Written
  BY WrittenIff
<1>3. \A j \in Instances : Fits(j)
  BY FitsOther
<1> QED
  BY <1>1, <1>2, <1>3, SStep

LEMMA TameActive ==
  ASSUME Tame \/ UNCHANGED mgr
  PROVE  \A j \in Instances : Active(j)' => Active(j) /\ mgr'[j].epoch = mgr[j].epoch
  BY DEF Tame, Active

LEMMA SameTask ==
  ASSUME NEW i \in Instances, FInv, task' = task \/ task' = [task EXCEPT ![i] = NoTask]
  PROVE  /\ \A j \in Instances : Busy(j)' => Busy(j) /\ task'[j].snap = task[j].snap
         /\ task' # task => ~Busy(i)'
<1>1. CASE task' = task
  BY <1>1 DEF Busy
<1>2. CASE task' = [task EXCEPT ![i] = NoTask]
  <2>1. task'[i] = NoTask /\ \A j \in Instances : j # i => task'[j] = task[j]
    BY <1>2, OneTask, NoTypes
  <2> QED
    BY <2>1, NoTypes DEF Busy
<1> QED
  BY <1>1, <1>2

LEMMA SManagers ==
  ASSUME FInv, FInv', SInv, Tame, SawOnly, NEW i \in Instances, UNCHANGED <<snaps, uploads, sup, task, clock, stored>>
  PROVE  SInv'
<1>1. \A j \in Instances : Busy(j)' => Busy(j) /\ task'[j].snap = task[j].snap
  BY DEF Busy
<1>2. \A j \in Instances : /\ sup'[j] = sup[j] /\ disk'[j].data = disk[j].data /\ disk'[j].lastActive = disk[j].lastActive
                           /\ Active(j)' => Active(j) /\ mgr'[j].epoch = mgr[j].epoch
  BY TameActive DEF SawOnly
<1>3. Fits(i)
  BY <1>1, <1>2, FitsOther
<1> QED
  BY <1>1, <1>2, <1>3, SQuiet

LEMMA SSeen == ASSUME FInv, UNCHANGED disk PROVE SawOnly
  BY DEF SawOnly, FInv, Types

LEMMA SRenew == ASSUME FInv, SInv, NEW i \in Instances, Renew(i) PROVE SInv'
  BY RenewKeeps, SSeen, SManagers DEF Renew

LEMMA SExpire == ASSUME FInv, SInv, NEW i \in Instances, Expire(i) PROVE SInv'
  BY ExpireKeeps, SSeen, SManagers DEF Expire

LEMMA SObserve == ASSUME FInv, SInv, NEW i \in Instances, Observe(i) PROVE SInv'
  BY ObserveKeeps, SManagers DEF Observe

\* A lease is acquired in an epoch that no snapshot has, by a supervisor that waits.
LEMMA SAcquire == ASSUME Regain = FALSE, FInv, SInv, NEW i \in Instances, Acquire(i) PROVE SInv'
<1>1. PICK e \in 0..MaxEpoch, k \in Marks, m \in Managers :
           /\ lease.epoch < e /\ mgr' = [mgr EXCEPT ![i] = m] /\ m.epoch = e
  BY AcquireFacts
<1>2. SawOnly /\ UNCHANGED <<snaps, uploads, sup, task, clock, hand, stored>>
  BY AcquireRest
<1>3. sup[i].phase = "standby"
  BY DEF Acquire
<1>4. mgr'[i] = m /\ \A j \in Instances : j # i => mgr'[j] = mgr[j]
  BY <1>1 DEF FInv, Types
<1>5. \A j \in Instances : Busy(j)' => Busy(j) /\ task'[j].snap = task[j].snap
  BY <1>2 DEF Busy
<1>6. \A j \in Instances : /\ sup'[j] = sup[j] /\ disk'[j].data = disk[j].data /\ disk'[j].lastActive = disk[j].lastActive
                           /\ j # i => (Active(j)' => Active(j) /\ mgr'[j].epoch = mgr[j].epoch)
  BY <1>2, <1>4 DEF SawOnly, Active
<1>7. Fits(i)
  <2>1. ASSUME NEW s \in Written PROVE s.mark[1] # mgr'[i].epoch
    <3>1. s.mark[1] \in Nat /\ s.mark[1] <= lease.epoch /\ lease.epoch \in Nat
      BY WrittenType, ManagerFacts DEF FInv, EpochInv
    <3> QED
      BY <1>1, <1>4, <3>1, Constants
  <2>2. ~Busy(i) /\ Has(disk[i].data, disk[i].lastActive)
    BY <1>3 DEF SInv, WorkInv, HasInv, Running
  <2>3. sup'[i].phase = "standby" /\ ~Running(i)' /\ ~Busy(i)'
    BY <1>3, <1>5, <1>6, <2>2 DEF Running
  <2> QED
    BY <1>6, <2>1, <2>2, <2>3 DEF Fits
<1>8. FInv'
  BY AcquireKeeps
<1> QED
  BY <1>2, <1>5, <1>6, <1>7, <1>8, SQuiet

-----------------------------------------------------------------------------
(* The supervisor. *)

LEMMA OneSup ==
  ASSUME FInv, NEW i \in Instances, NEW v, sup' = [sup EXCEPT ![i] = v]
  PROVE  sup'[i] = v /\ \A j \in Instances : j # i => sup'[j] = sup[j]
  BY DEF FInv, Types

\* The supervisor of i goes on, and nothing but its phase matters.
LEMMA SPhase ==
  ASSUME FInv, FInv', SInv, NEW i \in Instances, UNCHANGED <<snaps, uploads, clock, stored>>,
         task' = task \/ task' = [task EXCEPT ![i] = NoTask], Tame \/ UNCHANGED mgr,
         SawOnly, NEW v, sup' = [sup EXCEPT ![i] = v],
         Busy(i)' => v.phase \in {"starting", "serving", "stopping"},
         v.phase = "down" => ~Active(i)',
         Active(i)' /\ v.phase \in {"starting", "serving", "stopping"} => Running(i) \/ sup[i].phase = "opening",
         Active(i)' /\ v.phase \in {"standby", "confirming", "opening"} => sup[i].phase \in {"confirming", "opening"},
         v.phase # "restoring"
  PROVE  SInv'
<1>1. sup'[i] = v /\ \A j \in Instances : j # i => sup'[j] = sup[j]
  BY OneSup
<1>2. \A j \in Instances : Busy(j)' => Busy(j) /\ task'[j].snap = task[j].snap
  BY SameTask
<1>3. \A j \in Instances : disk'[j].data = disk[j].data /\ disk'[j].lastActive = disk[j].lastActive
  BY DEF SawOnly
<1>4. \A j \in Instances : Active(j)' => Active(j) /\ mgr'[j].epoch = mgr[j].epoch
  BY TameActive
<1>5. Running(i)' <=> v.phase \in {"starting", "serving", "stopping"}
  BY <1>1 DEF Running
<1>6. Ahead(i)' <=> v.phase \in {"standby", "restoring", "confirming", "opening"}
  BY <1>1 DEF Ahead
<1>7. Fits(i)
  <2>1. Active(i)' /\ Running(i)' => Running(i) \/ Ahead(i)
    BY <1>5 DEF Ahead
  <2>2. Active(i)' /\ Ahead(i)' => Ahead(i)
    BY <1>6 DEF Ahead
  <2>3. Active(i)' /\ (sup'[i].phase \in {"confirming", "opening"} \/ Running(i)') =>
           sup[i].phase \in {"confirming", "opening"} \/ Running(i)
    BY <1>1, <1>5
  <2>4. disk[i].data \subseteq disk'[i].data /\ disk'[i].lastActive = disk[i].lastActive
    BY <1>3
  <2> QED
    BY <1>1, <1>2, <1>4, <1>5, <2>1, <2>2, <2>3, <2>4, FitsSame
<1> QED
  BY <1>1, <1>2, <1>3, <1>4, <1>7, SQuiet

\* Who runs no App takes no snapshot, and who is down has no lease.
LEMMA AtRest ==
  ASSUME SInv, NEW i \in Instances
  PROVE  /\ ~Running(i) => ~Busy(i)
         /\ sup[i].phase = "down" => ~Active(i)
  BY DEF SInv, WorkInv

LEMMA SBootstrap == ASSUME FInv, SInv, NEW i \in Instances, Bootstrap(i) PROVE SInv'
<1>1. /\ sup[i].phase = "down" /\ sup' = [sup EXCEPT ![i] = Supervising("standby")]
      /\ UNCHANGED <<lease, snaps, uploads, mgr, task, clock, hand, stored>>
  BY DEF Bootstrap
<1>2. FInv' /\ SawOnly
  BY BootstrapKeeps
<1>3. ~Busy(i) /\ ~Active(i)
  BY <1>1, AtRest DEF Running
<1>4. ~Busy(i)' /\ ~Active(i)'
  BY <1>1, <1>3 DEF Busy, Active
<1>5. Supervising("standby").phase = "standby"
  BY PhaseTypes, SupervisingType
<1> QED
  BY <1>1, <1>2, <1>4, <1>5, SPhase

LEMMA SEmpty == ASSUME FInv, SInv, NEW i \in Instances, StartFromEmpty(i) PROVE SInv'
<1>1. PICK v : v = [Supervising("confirming") EXCEPT !.empty = TRUE]
  OBVIOUS
<1>2. v.phase = "confirming"
  <2>1. Supervising("confirming") \in Supervisors /\ Supervising("confirming").phase = "confirming"
    BY PhaseTypes, SupervisingType
  <2> QED
    BY <1>1, <2>1 DEF Supervisors
<1>3. /\ sup[i].phase = "standby" /\ snaps = {} /\ sup' = [sup EXCEPT ![i] = v]
      /\ UNCHANGED <<lease, snaps, uploads, mgr, disk, task, clock, hand>>
  BY <1>1 DEF StartFromEmpty, Preparing, Acquired, FirstActivation
<1>4. FInv' /\ UNCHANGED stored
  BY EmptyKeeps
<1>5. sup'[i] = v /\ \A j \in Instances : j # i => sup'[j] = sup[j]
  BY <1>3, OneSup
<1>6. \A j \in Instances : Busy(j)' => Busy(j) /\ task'[j].snap = task[j].snap
  BY <1>3 DEF Busy
<1>7. Fits(i)
  <2>1. stored = {}
    BY <1>3 DEF SInv, DataInv
  <2>2. \A D, e : Has(D, e)
    BY <2>1 DEF Has
  <2>3. ~Busy(i)' /\ ~Running(i)' /\ sup'[i].phase = "confirming" /\ Ahead(i)
    BY <1>2, <1>3, <1>5, <1>6, AtRest DEF Running, Ahead
  <2>4. Active(i) => \A s \in Written : s.mark[1] # mgr[i].epoch
    BY <2>3 DEF SInv, WorkInv
  <2> QED
    BY <1>3, <2>2, <2>3, <2>4 DEF Fits, Active
<1> QED
  BY <1>3, <1>4, <1>5, <1>6, <1>7, SQuiet DEF Active

\* The snapshot that leads includes what was stored; so does the database of the
\* instance that wrote it.
LEMMA SSelect == ASSUME FInv, SInv, NEW i \in Instances, SelectSnapshot(i) PROVE SInv'
<1>1. PICK N : N = Newest(Candidates)
  OBVIOUS
<1>2. /\ FInv' /\ N \in snaps /\ Leads(N) /\ sup'[i].snap = N
      /\ \A j \in Instances : j # i => sup'[j] = sup[j]
      /\ sup'[i].phase = IF OwnNewest(i) THEN "confirming" ELSE "restoring"
  BY <1>1, SelectKeeps
<1>3. sup[i].phase = "standby" /\ UNCHANGED <<lease, snaps, uploads, mgr, disk, task, clock, hand, stored>>
  BY DEF SelectSnapshot, Preparing, Acquired
<1>4. \A j \in Instances : Busy(j)' => Busy(j) /\ task'[j].snap = task[j].snap
  BY <1>3 DEF Busy
<1>5. Fits(i)
  <2>1. stored \subseteq N.data
    BY <1>2, WrittenIff DEF SInv, DataInv
  <2>2. \A e : Has(N.data, e)
    BY <2>1 DEF Has
  <2>3. ~Busy(i)' /\ ~Running(i)' /\ sup'[i].phase # "down" /\ Ahead(i)
    BY <1>2, <1>3, <1>4, AtRest DEF Running, Ahead
  <2>4. Active(i) => \A s \in Written : s.mark[1] # mgr[i].epoch
    BY <2>3 DEF SInv, WorkInv
  <2>5. Has(disk[i].data, disk[i].lastActive)
    BY DEF SInv, HasInv
  <2>6. OwnNewest(i) => \A e : Has(disk[i].data, e)
    <3>1. SUFFICES ASSUME OwnNewest(i) PROVE stored \subseteq disk[i].data
      BY DEF Has
    <3>2. N.mark[1] = disk[i].lastActive
      BY <1>1, <3>1 DEF OwnNewest
    <3>3. ASSUME NEW s \in snaps PROVE ~(s.mark[1] > disk[i].lastActive)
      BY <1>2, <3>2, LeadEpoch
    <3> QED
      BY <2>5, <3>3 DEF Has
  <2> QED
    BY <1>2, <1>3, <2>2, <2>3, <2>4, <2>5, <2>6 DEF Fits, Active
<1> QED
  BY <1>2, <1>3, <1>4, <1>5, SQuiet DEF Active

LEMMA SRefuse == ASSUME FInv, SInv, NEW i \in Instances, RefuseTakeover(i) PROVE SInv'
<1>1. PICK v : v = [Supervising("failing") EXCEPT !.reasons = Suspicions(i)]
  OBVIOUS
<1>2. v.phase = "failing"
  <2>1. Supervising("failing") \in Supervisors /\ Supervising("failing").phase = "failing"
    BY PhaseTypes, SupervisingType
  <2> QED
    BY <1>1, <2>1 DEF Supervisors
<1>3. /\ sup[i].phase = "standby" /\ sup' = [sup EXCEPT ![i] = v]
      /\ UNCHANGED <<lease, snaps, uploads, mgr, disk, task, clock, hand, stored>>
  BY <1>1 DEF RefuseTakeover, Preparing, Acquired
<1>4. ~Busy(i)'
  BY <1>3, AtRest DEF Running, Busy
<1> QED
  BY <1>2, <1>3, <1>4, RefuseKeeps, SSeen, SPhase

LEMMA SRestore == ASSUME FInv, SInv, NEW i \in Instances, RestoreSnapshot(i) PROVE SInv'
<1>1. PICK x : x = sup[i].snap.data
  OBVIOUS
<1>2. /\ sup[i].phase = "restoring" /\ disk' = [disk EXCEPT ![i].data = x] /\ sup' = [sup EXCEPT ![i].phase = "confirming"]
      /\ UNCHANGED <<lease, snaps, uploads, mgr, task, clock, hand>>
  BY <1>1 DEF RestoreSnapshot
<1>3. FInv' /\ UNCHANGED stored
  BY RestoreKeeps
<1>4. /\ disk'[i].data = x /\ disk'[i].lastActive = disk[i].lastActive
      /\ \A j \in Instances : j # i => disk'[j] = disk[j]
  <2>1. PICK d \in Disks : d = disk[i]
    BY ManagerFacts
  <2>2. [d EXCEPT !.data = x].data = x /\ [d EXCEPT !.data = x].lastActive = d.lastActive
    BY DEF Disks
  <2>3. disk'[i] = [d EXCEPT !.data = x] /\ \A j \in Instances : j # i => disk'[j] = disk[j]
    BY <1>2, <2>1, SameDisk
  <2> QED
    BY <2>1, <2>2, <2>3
<1>5. sup'[i].phase = "confirming" /\ \A j \in Instances : j # i => sup'[j] = sup[j]
  <2>1. sup' = [sup EXCEPT ![i] = [sup[i] EXCEPT !.phase = "confirming"]]
    BY <1>2
  <2>2. [sup[i] EXCEPT !.phase = "confirming"].phase = "confirming"
    BY PhaseTypes, PhaseOnly
  <2> QED
    BY <2>1, <2>2, OneSup
<1>6. \A j \in Instances : Busy(j)' => Busy(j) /\ task'[j].snap = task[j].snap
  BY <1>2 DEF Busy
<1>7. Fits(i)
  <2>1. Has(x, disk[i].lastActive) /\ (Active(i) => Has(x, mgr[i].epoch))
    BY <1>1, <1>2 DEF SInv, HasInv
  <2>2. ~Busy(i)' /\ ~Running(i)' /\ Ahead(i)
    BY <1>2, <1>5, <1>6, AtRest DEF Running, Ahead
  <2>3. Active(i) => \A s \in Written : s.mark[1] # mgr[i].epoch
    BY <2>2 DEF SInv, WorkInv
  <2> QED
    BY <1>2, <1>4, <1>5, <2>1, <2>2, <2>3 DEF Fits, Active
<1> QED
  BY <1>2, <1>3, <1>4, <1>5, <1>6, <1>7, SQuiet DEF Active

LEMMA SRestoreFails == ASSUME FInv, SInv, NEW i \in Instances, RestoreFails(i) PROVE SInv'
<1>1. /\ sup[i].phase = "restoring" /\ sup' = [sup EXCEPT ![i] = Supervising("failing")]
      /\ UNCHANGED <<lease, snaps, uploads, mgr, disk, task, clock, hand, stored>>
  BY DEF RestoreFails
<1>2. ~Busy(i)' /\ Supervising("failing").phase = "failing"
  BY <1>1, AtRest, PhaseTypes, SupervisingType DEF Running, Busy
<1> QED
  BY <1>1, <1>2, RestoreFailsKeeps, SSeen, SPhase

LEMMA SConfirm == ASSUME FInv, SInv, NEW i \in Instances, Confirm(i) PROVE SInv'
<1>1. PICK p \in {"opening", "failing"} : sup' = [sup EXCEPT ![i].phase = p]
  BY DEF Confirm
<1>2. PICK v : v = [sup[i] EXCEPT !.phase = p]
  OBVIOUS
<1>3. v.phase = p /\ sup' = [sup EXCEPT ![i] = v]
  BY <1>1, <1>2, PhaseTypes, PhaseOnly
<1>4. sup[i].phase = "confirming" /\ UNCHANGED <<snaps, uploads, task, clock, hand, stored>>
  BY DEF Confirm
<1>5. FInv' /\ SawOnly /\ Tame
  BY ConfirmKeeps
<1>6. ~Busy(i)'
  BY <1>4, AtRest DEF Running, Busy
<1> QED
  BY <1>1, <1>3, <1>4, <1>5, <1>6, SPhase

LEMMA STakeoverFailed == ASSUME FInv, SInv, NEW i \in Instances, TakeoverFailed(i) PROVE SInv'
<1>1. /\ sup[i].phase = "failing" /\ mgr' = [mgr EXCEPT ![i] = SteppedDown(mgr[i])]
      /\ sup' = [sup EXCEPT ![i] = Supervising("standby")] /\ UNCHANGED <<snaps, uploads, disk, task, clock, hand, stored>>
  BY DEF TakeoverFailed
<1>2. FInv' /\ Tame
  BY TakeoverFailedKeeps
<1>3. ~Busy(i)' /\ Supervising("standby").phase = "standby"
  BY <1>1, AtRest, PhaseTypes, SupervisingType DEF Running, Busy
<1>4. ~Active(i)'
  <2>1. mgr'[i] = SteppedDown(mgr[i])
    BY <1>1 DEF FInv, Types
  <2> QED
    BY <2>1, ManagerFacts, SteppedDownFacts DEF Active
<1> QED
  BY <1>1, <1>2, <1>3, <1>4, SSeen, SPhase

LEMMA SOpenApp == ASSUME FInv, SInv, NEW i \in Instances, OpenApp(i) PROVE SInv'
<1>1. sup[i].phase = "opening" /\ UNCHANGED <<lease, snaps, uploads, mgr, disk, task, clock, hand, stored>>
  BY DEF OpenApp
<1>2. PICK p \in {"starting", "standby"} : sup' = [sup EXCEPT ![i] = Supervising(p)]
  BY DEF OpenApp
<1>3. ~Busy(i)' /\ Supervising(p).phase = p
  BY <1>1, <1>2, AtRest, PhaseTypes, SupervisingType DEF Running, Busy
<1> QED
  BY <1>1, <1>2, <1>3, OpenAppKeeps, SSeen, SPhase

LEMMA SServe == ASSUME FInv, SInv, NEW i \in Instances, ServeActive(i) PROVE SInv'
<1>1. /\ FInv' /\ disk'[i].data = disk[i].data /\ \A j \in Instances : j # i => disk'[j] = disk[j]
      /\ disk'[i].lastActive = IF Active(i) THEN mgr[i].epoch ELSE 0
  BY ServeFacts
<1>2. /\ sup[i].phase = "starting" /\ sup' = [sup EXCEPT ![i] = Supervising("serving")]
      /\ UNCHANGED <<lease, snaps, uploads, mgr, task, clock, hand, stored>>
  BY DEF ServeActive
<1>3. sup'[i].phase = "serving" /\ \A j \in Instances : j # i => sup'[j] = sup[j]
  BY <1>2, OneSup, PhaseTypes, SupervisingType
<1>4. \A j \in Instances : Busy(j)' => Busy(j) /\ task'[j].snap = task[j].snap
  BY <1>2 DEF Busy
<1>5. Fits(i)
  <2>1. Running(i) /\ Running(i)' /\ ~Ahead(i)'
    BY <1>2, <1>3 DEF Running, Ahead
  <2>2. /\ Busy(i) => task[i].snap.data \subseteq disk[i].data
        /\ Active(i) => \A s \in Written : s.mark[1] = mgr[i].epoch => s.data \subseteq disk[i].data
    BY <2>1 DEF SInv, WorkInv
  <2>3. Active(i) => Has(disk[i].data, mgr[i].epoch)
    BY <2>1 DEF SInv, HasInv
  <2>4. Has(disk[i].data, 0)
    <3>1. CASE snaps = {}
      BY <3>1 DEF SInv, DataInv, Has
    <3>2. CASE snaps # {}
      <4>1. PICK s \in snaps : TRUE
        BY <3>2
      <4>2. 0 < s.mark[1] /\ s.mark[1] \in Nat
        BY WrittenIff, WrittenType DEF FInv, EpochInv
      <4> QED
        BY <4>2 DEF Has
    <3> QED
      BY <3>1, <3>2
  <2>5. Has(disk'[i].data, disk'[i].lastActive)
    BY <1>1, <2>3, <2>4
  <2> QED
    BY <1>1, <1>2, <1>3, <1>4, <2>1, <2>2, <2>3, <2>5 DEF Fits, Active
<1> QED
  BY <1>1, <1>2, <1>3, <1>4, <1>5, SQuiet DEF Active

-----------------------------------------------------------------------------
(* The active App. *)

LEMMA SChange == ASSUME FInv, SInv, NEW i \in Instances, Change(i) PROVE SInv'
<1>1. UNCHANGED <<lease, snaps, uploads, mgr, sup, task, clock, hand, stored>>
  BY DEF Change
<1>2. PICK d \in Disks : /\ disk' = [disk EXCEPT ![i] = d] /\ disk[i].data \subseteq d.data
                         /\ d.lastActive = disk[i].lastActive
  BY ChangeFacts
<1>3. disk'[i] = d /\ \A j \in Instances : j # i => disk'[j] = disk[j]
  BY <1>2, SameDisk
<1>4. \A j \in Instances : Busy(j)' => Busy(j) /\ task'[j].snap = task[j].snap
  BY <1>1 DEF Busy
<1>5. \A j \in Instances : sup'[j] = sup[j] /\ (Active(j)' => Active(j) /\ mgr'[j].epoch = mgr[j].epoch)
  BY <1>1 DEF Active
<1>6. Fits(i)
  <2>1. (Busy(i) => Running(i)) /\ (sup[i].phase = "down" => ~Active(i))
    BY AtRest
  <2>2. (Running(i)' <=> Running(i)) /\ (Ahead(i)' <=> Ahead(i))
    BY <1>1 DEF Running, Ahead
  <2> QED
    BY <1>2, <1>3, <1>4, <1>5, <2>1, <2>2, FitsSame
<1> QED
  BY <1>1, <1>3, <1>4, <1>5, <1>6, ChangeKeeps, SQuiet

LEMMA SLoseLease == ASSUME FInv, SInv, NEW i \in Instances, LoseLease(i) PROVE SInv'
<1>1. /\ sup' = [sup EXCEPT ![i] = Supervising("standby")] /\ task' = [task EXCEPT ![i] = NoTask] /\ ~Active(i)
      /\ UNCHANGED <<lease, snaps, uploads, mgr, disk, clock, hand, stored>>
  BY DEF LoseLease, Active
<1>2. Supervising("standby").phase = "standby" /\ ~Active(i)'
  BY <1>1, PhaseTypes, SupervisingType DEF Active
<1>3. ~Busy(i)'
  <2>1. task'[i] = NoTask
    BY <1>1, OneTask, NoTypes
  <2> QED
    BY <2>1, NoTypes DEF Busy
<1> QED
  BY <1>1, <1>2, <1>3, LoseLeaseKeeps, SSeen, SPhase

LEMMA SShutdown == ASSUME FInv, SInv, NEW i \in Instances, Shutdown(i) PROVE SInv'
<1>1. PICK v : v = [sup[i] EXCEPT !.phase = "stopping"]
  OBVIOUS
<1>2. /\ sup[i].phase = "serving" /\ sup' = [sup EXCEPT ![i] = v]
      /\ UNCHANGED <<lease, snaps, uploads, mgr, disk, task, clock, hand, stored>>
  BY <1>1 DEF Shutdown
<1>3. v.phase = "stopping" /\ Running(i)
  BY <1>1, <1>2, PhaseTypes, PhaseOnly DEF Running
<1> QED
  BY <1>2, <1>3, ShutdownKeeps, SSeen, SPhase

LEMMA SExit ==
  ASSUME FInv, SInv, NEW i \in Instances, Release(i) \/ AppFails(i) \/ Crash(i)
  PROVE  SInv'
<1>1. Exit(i) /\ GiveUp(i)
  BY EndsInExit
<1>2. /\ mgr' = [mgr EXCEPT ![i] = NewManager] /\ sup' = [sup EXCEPT ![i] = Supervising("down")]
      /\ task' = [task EXCEPT ![i] = NoTask] /\ UNCHANGED <<snaps, uploads, disk, clock, hand, stored>>
  BY <1>1 DEF Exit
<1>3. FInv' /\ Tame
  BY <1>1, ExitKeeps
<1>4. Supervising("down").phase = "down"
  BY PhaseTypes, SupervisingType
<1>5. ~Active(i)'
  <2>1. mgr'[i] = NewManager
    BY <1>2 DEF FInv, Types
  <2> QED
    BY <2>1, NoTypes DEF Active
<1>6. ~Busy(i)'
  <2>1. task'[i] = NoTask
    BY <1>2, OneTask, NoTypes
  <2> QED
    BY <2>1, NoTypes DEF Busy
<1> QED
  BY <1>2, <1>3, <1>4, <1>5, <1>6, SSeen, SPhase

-----------------------------------------------------------------------------
(* Snapshots. *)

\* Steps of a snapshot that is copied already, and stores nothing new.
LEMMA SSnapshot ==
  ASSUME FInv, FInv', SInv, Survives, Written' \subseteq Written, UNCHANGED <<sup, clock, stored>>, SawOnly,
         Tame \/ UNCHANGED mgr,
         \A j \in Instances : Busy(j)' => Busy(j) /\ task'[j].snap = task[j].snap
  PROVE  SInv'
<1>1. \A j \in Instances : Active(j)' => Active(j) /\ mgr'[j].epoch = mgr[j].epoch
  BY TameActive
<1>2. ASSUME NEW j \in Instances PROVE Fits(j)
  BY <1>1, FitsOther DEF SawOnly
<1> QED
  BY <1>2, SStep

LEMMA OneStage ==
  ASSUME FInv, NEW i \in Instances, NEW g \in Stages, task[i].stage # "idle", task' = [task EXCEPT ![i].stage = g]
  PROVE  \A j \in Instances : Busy(j)' => Busy(j) /\ task'[j].snap = task[j].snap
<1> DEFINE t == [task[i] EXCEPT !.stage = g]
<1>1. t \in Tasks /\ t.snap = task[i].snap
  BY StageFacts
<1>2. task' = [task EXCEPT ![i] = t]
  OBVIOUS
<1> HIDE DEF t
<1>3. task'[i] = t /\ \A j \in Instances : j # i => task'[j] = task[j]
  BY <1>1, <1>2, OneTask
<1> QED
  BY <1>1, <1>3 DEF Busy

LEMMA SameSnaps ==
  ASSUME UNCHANGED <<snaps, uploads>>, \A j \in Instances : Busy(j)' => Busy(j) /\ task'[j].snap = task[j].snap
  PROVE  Survives /\ Written' \subseteq Written
<1>1. Written' \subseteq Written
  BY WrittenIff
<1> QED
  BY <1>1 DEF Survives

LEMMA SSend == ASSUME FInv, SInv, NEW i \in Instances, SnapshotSend(i) PROVE SInv'
<1>1. /\ UNCHANGED <<lease, snaps, mgr, disk, sup, clock, hand, stored>> /\ Written' \subseteq Written
      /\ task[i].stage = "copied" /\ \A j \in Instances : j # i => task'[j] = task[j]
      /\ task'[i].stage # "idle" => task'[i].snap = task[i].snap
  BY SendFacts
<1>2. \A j \in Instances : Busy(j)' => Busy(j) /\ task'[j].snap = task[j].snap
  BY <1>1 DEF Busy
<1>3. Survives
  BY <1>1 DEF Survives
<1> QED
  BY <1>1, <1>2, <1>3, SendKeeps, SSeen, SSnapshot

LEMMA SFails == ASSUME FInv, SInv, NEW i \in Instances, SnapshotFails(i) PROVE SInv'
<1>1. task' = [task EXCEPT ![i] = NoTask] /\ UNCHANGED <<lease, snaps, uploads, mgr, disk, sup, clock, hand, stored>>
  BY DEF SnapshotFails
<1>2. \A j \in Instances : Busy(j)' => Busy(j) /\ task'[j].snap = task[j].snap
  BY <1>1, SameTask
<1> QED
  BY <1>1, <1>2, SameSnaps, FailsKeeps, SSeen, SSnapshot

LEMMA SRecord == ASSUME FInv, SInv, NEW i \in Instances, RecordSnapshot(i) PROVE SInv'
<1>1. /\ task[i].stage = "stored" /\ task' = [task EXCEPT ![i].stage = "recorded"]
      /\ UNCHANGED <<snaps, uploads, disk, sup, clock, hand, stored>>
  BY DEF RecordSnapshot, At
<1>2. "recorded" \in Stages
  BY DEF Stages
<1>3. \A j \in Instances : Busy(j)' => Busy(j) /\ task'[j].snap = task[j].snap
  BY <1>1, <1>2, OneStage
<1> QED
  BY <1>1, <1>3, SameSnaps, RecordKeeps, SSeen, SSnapshot

LEMMA SRaise == ASSUME FInv, SInv, NEW i \in Instances, RaiseHighWater(i) PROVE SInv'
<1>1. /\ FInv' /\ SawOnly /\ task[i].stage = "recorded" /\ task'[i].snap = task[i].snap
      /\ \A j \in Instances : j # i => task'[j] = task[j]
  BY RaiseKeeps
<1>2. UNCHANGED <<lease, snaps, uploads, mgr, sup, clock, hand, stored>>
  BY DEF RaiseHighWater
<1>3. \A j \in Instances : Busy(j)' => Busy(j) /\ task'[j].snap = task[j].snap
  BY <1>1 DEF Busy
<1> QED
  BY <1>1, <1>2, <1>3, SameSnaps, SSnapshot

LEMMA SPrune == ASSUME FInv, SInv, NEW i \in Instances, PruneDelete(i) PROVE SInv'
<1>1. task' = [task EXCEPT ![i] = NoTask] /\ UNCHANGED <<lease, uploads, mgr, disk, sup, clock, hand, stored>>
  BY DEF PruneDelete
<1>2. \A j \in Instances : Busy(j)' => Busy(j) /\ task'[j].snap = task[j].snap
  BY <1>1, SameTask
<1> QED
  BY <1>1, <1>2, PruneFacts, PruneKeeps, SSeen, SSnapshot

LEMMA SLands == ASSUME FInv, SInv, NEW s \in uploads, UploadLands(s) PROVE SInv'
<1>1. Survives /\ Written' \subseteq Written /\ UNCHANGED <<lease, mgr, disk, sup, task, clock, hand, stored>>
  BY LandFacts
<1>2. \A j \in Instances : Busy(j)' => Busy(j) /\ task'[j].snap = task[j].snap
  BY <1>1 DEF Busy
<1> QED
  BY <1>1, <1>2, LandKeeps, SSeen, SSnapshot

\* The holder of the lease stores a snapshot: it is the newest of the newest
\* epoch, and every other database is of an older epoch.
LEMMA SStored == ASSUME FInv, SInv, NEW i \in Instances, SnapshotStored(i) PROVE SInv'
<1>1. /\ task[i].stage = "sent" /\ task[i].snap \in snaps /\ task' = [task EXCEPT ![i].stage = "stored"]
      /\ UNCHANGED <<lease, snaps, uploads, mgr, disk, sup, clock, hand>>
  BY DEF SnapshotStored, At
<1>2. "stored" \in Stages
  BY DEF Stages
<1>3. \A j \in Instances : Busy(j)' => Busy(j) /\ task'[j].snap = task[j].snap
  BY <1>1, <1>2, OneStage
<1>4. FInv'
  BY StoredKeeps
<1>5. Survives /\ Written' \subseteq Written
  BY <1>1, <1>3, SameSnaps
<1>6. CASE UNCHANGED stored
  BY <1>1, <1>3, <1>4, <1>5, <1>6, SSeen, SSnapshot
<1>7. CASE stored' # stored
  <2>1. PICK x : x = task[i].snap
    OBVIOUS
  <2>2. lease.holder = i /\ Check(i) /\ mgr[i].epoch = x.mark[1] /\ stored' = x.data /\ x \in snaps
    BY <1>1, <1>7, <2>1 DEF SnapshotStored
  <2>3. lease.epoch = x.mark[1] /\ lease.epoch \in Nat
    BY <2>2, ManagerFacts DEF FInv, ActiveInv, Check, Active
  <2>4. x.mark \in Marks /\ x.mark[1] \in Nat /\ x.mark[2] \in Nat /\ x \in Written
    BY <2>2, WrittenIff, WrittenType DEF FInv
  <2>5. Busy(i) /\ Running(i) /\ x.data \subseteq disk[i].data
    BY <1>1, <2>1 DEF SInv, WorkInv, Busy
  <2>6. i # NoHolder
    BY Constants
  <2>7. DataInv'
    <3>1. ASSUME NEW s \in Written', Leads(s)' PROVE x.data \subseteq s.data
      <4>1. s \in Written /\ s.mark[1] \in Nat /\ s.mark[2] \in Nat
        BY <1>5, WrittenType DEF FInv
      <4>2. ~Before(s.mark, x.mark)
        BY <1>1, <2>2, <3>1 DEF Leads
      <4>3. s.mark[1] <= lease.epoch
        BY <4>1 DEF FInv, EpochInv
      <4>4. x.mark[1] = s.mark[1] /\ x.mark[2] <= s.mark[2]
        BY <2>3, <2>4, <4>1, <4>2, <4>3 DEF Before
      <4> QED
        BY <2>4, <4>1, <4>4 DEF SInv, DataInv
    <3>2. \A s \in Written' : s.mark[2] \in clock'
      BY <1>1, <1>5 DEF SInv, DataInv
    <3>3. \A s, t \in Written' : s.mark[1] = t.mark[1] /\ s.mark[2] <= t.mark[2] => s.data \subseteq t.data
      BY <1>5 DEF SInv, DataInv
    <3>4. snaps' # {}
      BY <1>1, <2>2
    <3> QED
      BY <2>2, <3>1, <3>2, <3>3, <3>4 DEF DataInv
  <2>8. WorkInv'
    <3>1. SUFFICES ASSUME NEW j \in Instances
                   PROVE  /\ Busy(j)' => Running(j)' /\ task'[j].snap.data \subseteq disk'[j].data
                          /\ sup'[j].phase = "down" => ~Active(j)'
                          /\ Active(j)' /\ Running(j)' => \A s \in Written' : s.mark[1] = mgr'[j].epoch => s.data \subseteq disk'[j].data
                          /\ Active(j)' /\ Ahead(j)' => \A s \in Written' : s.mark[1] # mgr'[j].epoch
      BY DEF WorkInv
    <3>2. (Running(j)' <=> Running(j)) /\ (Ahead(j)' <=> Ahead(j)) /\ (Active(j)' <=> Active(j))
      BY <1>1 DEF Running, Ahead, Active
    <3>3. /\ Busy(j) => Running(j) /\ task[j].snap.data \subseteq disk[j].data
          /\ sup[j].phase = "down" => ~Active(j)
          /\ Active(j) /\ Running(j) => \A s \in Written : s.mark[1] = mgr[j].epoch => s.data \subseteq disk[j].data
          /\ Active(j) /\ Ahead(j) => \A s \in Written : s.mark[1] # mgr[j].epoch
      BY DEF SInv, WorkInv
    <3> QED
      BY <1>1, <1>3, <1>5, <3>2, <3>3
  <2>9. HasInv'
    <3>1. \A D : \A e \in Nat : e < lease.epoch => Has(D, e)'
      BY <1>1, <2>2, <2>3 DEF Has
    <3>2. \A e : Has(disk[i].data, e)'
      BY <1>1, <2>2, <2>5 DEF Has
    <3>3. SUFFICES ASSUME NEW j \in Instances
                   PROVE  /\ Has(disk[j].data, disk[j].lastActive)'
                          /\ sup'[j].phase = "restoring" =>
                               Has(sup[j].snap.data, disk[j].lastActive)' /\ (Active(j)' => Has(sup[j].snap.data, mgr[j].epoch)')
                          /\ sup'[j].phase \in {"confirming", "opening"} \/ Running(j)' => (Active(j)' => Has(disk[j].data, mgr[j].epoch)')
      BY DEF HasInv
    <3>4. CASE j = i
      <4>1. sup'[j].phase # "restoring"
        BY <1>1, <2>5, <3>4 DEF Running
      <4>2. \A e : Has(disk[j].data, e)'
        BY <1>1, <3>2, <3>4 DEF Has
      <4> QED
        BY <4>1, <4>2 DEF Has
    <3>5. CASE j # i
      <4>1. disk[j].lastActive \in Nat /\ disk[j].lastActive < lease.epoch
        <5>1. disk[j].lastActive \in Nat
          BY ManagerFacts, Constants DEF Disks
        <5>2. disk[j].lastActive <= lease.epoch /\ disk[j].lastActive # lease.epoch
          BY <2>2, <2>6, <3>5 DEF FInv, EpochInv
        <5> QED
          BY <2>3, <5>1, <5>2
      <4>2. Active(j) => mgr[j].epoch \in Nat /\ mgr[j].epoch < lease.epoch
        <5>1. mgr[j].epoch \in Nat
          BY ManagerFacts, Constants DEF Managers
        <5>2. Active(j) => mgr[j].epoch <= lease.epoch /\ mgr[j].epoch # lease.epoch
          BY <2>2, <2>6, <3>5 DEF FInv, ActiveInv
        <5> QED
          BY <2>3, <5>1, <5>2
      <4>3. \A D : Has(D, disk[j].lastActive)' /\ (Active(j) => Has(D, mgr[j].epoch)')
        BY <1>1, <3>1, <4>1, <4>2 DEF Has
      <4>4. Active(j)' <=> Active(j)
        BY <1>1 DEF Active
      <4> QED
        BY <4>3, <4>4 DEF Has
    <3> QED
      BY <3>4, <3>5
  <2> QED
    BY <2>7, <2>8, <2>9 DEF SInv
<1> QED
  BY <1>6, <1>7

\* A snapshot includes what the earlier ones of its epoch do.
LEMMA SCopy == ASSUME SetBack = FALSE, FInv, SInv, NEW i \in Instances, SnapshotCopy(i) PROVE SInv'
<1>1. PICK n \in Snapshots, u \in (1..MaxTime) \ clock :
           /\ n.mark[1] = mgr[i].epoch /\ n.mark[2] = u /\ n.data = disk[i].data
           /\ \A w \in clock : w < u
           /\ clock' = clock \cup {u}
           /\ \A j \in Instances : j # i => task'[j] = task[j]
           /\ task'[i].snap = n
           /\ \A s \in Written' : s \in Written \/ s = n
  BY CopyFacts
<1>2. /\ Active(i) /\ ~mgr[i].expired /\ Running(i)
      /\ UNCHANGED <<lease, snaps, uploads, mgr, disk, sup, hand, stored>>
  BY DEF SnapshotCopy, Check, Active, AppOpen, Running
<1>3. /\ lease.epoch = mgr[i].epoch
      /\ \A j \in Instances : Active(j) /\ mgr[i].epoch = mgr[j].epoch => i = j
  BY <1>2 DEF FInv, ActiveInv
<1>4. \A s \in Written : s.mark[1] = mgr[i].epoch => s.data \subseteq disk[i].data
  BY <1>2 DEF SInv, WorkInv
<1>5. stored \subseteq disk[i].data
  <2>1. Has(disk[i].data, mgr[i].epoch)
    BY <1>2 DEF SInv, HasInv
  <2>2. ASSUME NEW s \in snaps PROVE ~(s.mark[1] > mgr[i].epoch)
    <3>1. s.mark[1] \in Nat /\ s.mark[1] <= lease.epoch /\ lease.epoch \in Nat
      BY WrittenIff, WrittenType, ManagerFacts DEF FInv, EpochInv
    <3> QED
      BY <1>3, <3>1
  <2> QED
    BY <2>1, <2>2 DEF Has
<1>6. u \in Nat /\ \A s \in Written : s.mark[2] \in Nat /\ s.mark[2] < u
  BY <1>1, WrittenType DEF FInv, SInv, DataInv
<1>7. DataInv'
  <2>1. \A s \in Written' : s.mark[2] \in clock'
    BY <1>1 DEF SInv, DataInv
  <2>2. ASSUME NEW s \in Written', NEW t \in Written', s.mark[1] = t.mark[1], s.mark[2] <= t.mark[2]
        PROVE  s.data \subseteq t.data
    <3>1. CASE t = n
      BY <1>1, <1>4, <2>2, <3>1
    <3>2. CASE t # n
      <4>1. t \in Written /\ t.mark[2] \in Nat /\ t.mark[2] < u
        BY <1>1, <1>6, <3>2
      <4>2. s \in Written
        BY <1>1, <1>6, <2>2, <4>1
      <4> QED
        BY <2>2, <4>1, <4>2 DEF SInv, DataInv
    <3> QED
      BY <3>1, <3>2
  <2>3. ASSUME NEW s \in Written', Leads(s)' PROVE stored' \subseteq s.data
    <3>1. Leads(s)
      BY <1>2, <2>3 DEF Leads
    <3> QED
      BY <1>1, <1>2, <1>5, <3>1 DEF SInv, DataInv
  <2>4. snaps' = {} => stored' = {}
    BY <1>2 DEF SInv, DataInv
  <2> QED
    BY <2>1, <2>2, <2>3, <2>4 DEF DataInv
<1>8. WorkInv'
  <2>1. SUFFICES ASSUME NEW j \in Instances
                 PROVE  /\ Busy(j)' => Running(j) /\ task'[j].snap.data \subseteq disk[j].data
                        /\ sup[j].phase = "down" => ~Active(j)
                        /\ Active(j) /\ Running(j) => \A s \in Written' : s.mark[1] = mgr[j].epoch => s.data \subseteq disk[j].data
                        /\ Active(j) /\ Ahead(j) => \A s \in Written' : s.mark[1] # mgr[j].epoch
    BY <1>2 DEF WorkInv, Active, Running, Ahead
  <2>2. /\ Busy(j) => Running(j) /\ task[j].snap.data \subseteq disk[j].data
        /\ sup[j].phase = "down" => ~Active(j)
        /\ Active(j) /\ Running(j) => \A s \in Written : s.mark[1] = mgr[j].epoch => s.data \subseteq disk[j].data
        /\ Active(j) /\ Ahead(j) => \A s \in Written : s.mark[1] # mgr[j].epoch
    BY DEF SInv, WorkInv
  <2>3. ~Ahead(i)
    BY <1>2 DEF Running, Ahead
  <2>4. Active(j) /\ n.mark[1] = mgr[j].epoch => i = j
    BY <1>1, <1>3
  <2>5. Busy(j)' => Running(j) /\ task'[j].snap.data \subseteq disk[j].data
    BY <1>1, <1>2, <2>2 DEF Busy
  <2>6. Active(j) /\ Running(j) => \A s \in Written' : s.mark[1] = mgr[j].epoch => s.data \subseteq disk[j].data
    BY <1>1, <2>2, <2>4
  <2>7. Active(j) /\ Ahead(j) => \A s \in Written' : s.mark[1] # mgr[j].epoch
    BY <1>1, <2>2, <2>3, <2>4
  <2> QED
    BY <2>2, <2>5, <2>6, <2>7
<1>9. HasInv'
  <2>1. HasInv
    BY DEF SInv
  <2> QED
    BY <1>2, <2>1 DEF HasInv, Has, Active, Running
<1> QED
  BY <1>7, <1>8, <1>9 DEF SInv

-----------------------------------------------------------------------------
(* The start, and every step. *)

LEMMA InitS == Init => SInv
<1>1. SUFFICES ASSUME Init PROVE SInv
  OBVIOUS
<1>2. InitSnaps /\ InitDisks
  BY <1>1, InitStart
<1>3. /\ \A i \in Instances : ~Busy(i) /\ ~Active(i) /\ sup[i].phase = "down"
      /\ \A s : s \in Written <=> s \in snaps
  BY <1>1, InitWritten, PhaseTypes, SupervisingType
<1>4. DataInv
  BY <1>2, <1>3 DEF InitSnaps, DataInv
<1>5. WorkInv
  BY <1>3 DEF WorkInv
<1>6. HasInv
  <2>1. ASSUME NEW i \in Instances PROVE Has(disk[i].data, disk[i].lastActive)
    <3>1. CASE disk[i].lastActive = 0
      <4>1. lease.epoch \in Nat /\ (snaps = {} => stored = {}) /\ \A s \in snaps : s.mark[1] = lease.epoch /\ 0 < lease.epoch
        BY <1>2, Constants DEF InitSnaps
      <4> QED
        BY <3>1, <4>1 DEF Has
    <3>2. CASE stored \subseteq disk[i].data
      BY <3>2 DEF Has
    <3> QED
      BY <1>2, <3>1, <3>2 DEF InitDisks
  <2> QED
    BY <1>3, <2>1 DEF HasInv, Running
<1> QED
  BY <1>4, <1>5, <1>6 DEF SInv

LEMMA SStutter == ASSUME FInv, SInv, UNCHANGED vars PROVE SInv'
<1>1. \A j \in Instances : Busy(j)' => Busy(j) /\ task'[j].snap = task[j].snap
  BY DEF vars, Busy
<1>2. UNCHANGED <<lease, snaps, uploads, mgr, disk, sup, task, clock, hand, stored>>
  BY DEF vars
<1> QED
  BY <1>1, <1>2, SameSnaps, FStutter, SSeen, SSnapshot

LEMMA NextS ==
  ASSUME Hand = 0, Regain = FALSE, SetBack = FALSE, FInv, SInv, [Next]_vars
  PROVE  SInv'
<1>1. ASSUME NEW i \in Instances, ManagerStep(i) PROVE SInv'
  BY <1>1, SRenew, SExpire, SObserve, SAcquire DEF ManagerStep
<1>2. ASSUME NEW i \in Instances, TakeoverStep(i) PROVE SInv'
  BY <1>2, SBootstrap, NoForce, SEmpty, SSelect, SRefuse, SRestore, SRestoreFails, SConfirm, STakeoverFailed,
     SOpenApp, SServe DEF TakeoverStep
<1>3. ASSUME NEW i \in Instances, ActiveStep(i) PROVE SInv'
  BY <1>3, SChange, SLoseLease, SShutdown, SExit DEF ActiveStep
<1>4. ASSUME NEW i \in Instances, SnapshotStep(i) PROVE SInv'
  BY <1>4, SCopy, SSend, SStored, SFails, SRecord, SRaise, SPrune DEF SnapshotStep
<1> QED
  BY <1>1, <1>2, <1>3, <1>4, SLands, NoHand, SStutter DEF Next

LEMMA SImplies == FInv /\ SInv => StoredKept
<1>1. SUFFICES ASSUME FInv, SInv, NEW i \in Instances, AppOpen(i), Check(i) PROVE stored \subseteq disk[i].data
  BY DEF StoredKept
<1>2. Active(i) /\ Running(i) /\ ~mgr[i].expired
  BY <1>1 DEF AppOpen, Check, Active, Running
<1>3. Has(disk[i].data, mgr[i].epoch) /\ lease.epoch = mgr[i].epoch
  BY <1>1, <1>2 DEF SInv, HasInv, FInv, ActiveInv
<1>4. ASSUME NEW s \in snaps PROVE ~(s.mark[1] > mgr[i].epoch)
  <2>1. s.mark[1] \in Nat /\ s.mark[1] <= lease.epoch /\ lease.epoch \in Nat
    BY <1>1, WrittenIff, WrittenType, ManagerFacts DEF FInv, EpochInv
  <2> QED
    BY <1>3, <2>1
<1> QED
  BY <1>3, <1>4 DEF Has

\* As long as nobody interferes by hand, no clock is set back and no lease is lost
\* and regained during a takeover: through crashes, failed and repeated takeovers,
\* uploads that land late and retention by former holders, the active instance has
\* everything that the holder of the lease ever stored (StoredKept).
THEOREM MetadataKept ==
  ASSUME Hand = 0, Regain = FALSE, SetBack = FALSE
  PROVE  Spec => []StoredKept
<1>1. Init => FInv /\ SInv
  BY InitF, InitS
<1>2. FInv /\ SInv /\ [Next]_vars => FInv' /\ SInv'
  BY NextF, NextS
<1>3. FInv /\ SInv => StoredKept
  BY SImplies
<1> QED
  BY <1>1, <1>2, <1>3, PTL DEF Spec

-----------------------------------------------------------------------------
(* The replacement of the database, for any contents, number of kept copies *)
(* and attempts, as long as the wall clock is not set back: the names of    *)
(* the copies then sort them by age.                                        *)

USE DatabaseSwapConstants

\* The invariant holds when the process has not started yet.
LEMMA InitInv == SwapInit => SwapInv
BY DEF SwapInit, SwapInv, SwapTypes, Journaling, Copying, JournalTruthful, IsPrevious, HasCopy, BeforeSwap, AfterSwap, NoJournal, Files

\* The copy of the database that a replacement makes has a name of its own, so
\* that it never takes the place of the one that is the previous database.
LEMMA NewCopy ==
    ASSUME SwapInv, pc \in {"journaled", "copying"}, pc' \in {"copying", "linked"},
           NEW d \in Contents \cup {Partial}, NEW l \in BOOLEAN, pc' = "linked" => d = db,
           copies' = OtherCopies \cup {Copy(d, l)},
           UNCHANGED <<db, new, journal, tries, stamp, prev>>
    PROVE  SwapInv'
<1> USE DEF SwapInv, SwapTypes, Journaling, Copying, JournalTruthful, IsPrevious, HasCopy, BeforeSwap, AfterSwap, NoJournal, Torn, Files
<1> DEFINE copy == [name |-> stamp, data |-> d, live |-> l]
<1>1. copies' = {k \in copies : k.name # stamp} \cup {copy} /\ copy.name = stamp /\ stamp \in 1..MaxName
  BY DEF Copy, OtherCopies
<1>2. SwapTypes'
  <2>1. copy \in [name : 1..MaxName, data : Contents \cup {Partial}, live : BOOLEAN]
    BY <1>1
  <2>2. copies' \subseteq [name : 1..MaxName, data : Contents \cup {Partial}, live : BOOLEAN]
    BY <1>1, <2>1
  <2> QED
    BY <2>2
<1>3. Journaling' /\ JournalTruthful'
  OBVIOUS
<1>4. prev # NoFile => \E k \in copies' : IsPrevious(k)'
  <2>1. SUFFICES ASSUME prev # NoFile PROVE \E k \in copies' : IsPrevious(k)'
    OBVIOUS
  <2>2. PICK k \in copies : IsPrevious(k)
    BY <2>1
  <2>3. k \in copies' /\ IsPrevious(k)'
    BY <2>2, <1>1
  <2> QED
    BY <2>3
<1>5. (\A k \in copies' : k.name <= stamp) /\ copy \in copies'
  BY <1>1
<1> QED
  BY <1>1, <1>2, <1>3, <1>4, <1>5

\* Every step keeps the invariant: one case per action.
LEMMA NextInv ==
    ASSUME ClockSetBack = FALSE, SwapInv, SwapNext
    PROVE  SwapInv'
<1> USE DEF SwapInv, SwapTypes, Journaling, Copying, JournalTruthful, IsPrevious, HasCopy, BeforeSwap, AfterSwap, NoJournal, Torn, Files
<1>1. CASE Open
  BY <1>1 DEF Open, Settle, Unreadable, Swapped, Goto
<1>2. CASE Repair
  BY <1>2 DEF Repair, Reached, Goto
<1>3. CASE Takeover
  BY <1>3 DEF Takeover, Reached, Goto
<1>4. CASE SwapCrash
  BY <1>4 DEF SwapCrash, Reached, Goto
<1>5. CASE \E c \in Contents : ChangeDatabase(c)
  BY <1>5 DEF ChangeDatabase, Reached, Goto
<1>6. CASE \E c \in Contents : Fetch(c)
  BY <1>6 DEF Fetch, Reached, Goto
<1>7. CASE Prepare
  BY <1>7 DEF Prepare, Unreadable, Reached, Goto
<1>8. CASE PrepareRefused
  BY <1>8 DEF PrepareRefused, Unreadable, Reached, Goto
<1>9. CASE \E t \in Names : WriteJournal(t)
  BY <1>9, ClockSetBack = FALSE DEF WriteJournal, Names, Reached, Goto
<1>10. CASE WriteJournalFails
  BY <1>10 DEF WriteJournalFails, Reached, Goto
<1>11. CASE KeepLink
  BY <1>11, NewCopy DEF KeepLink, Reached, Goto
<1>12. CASE CopyBegins
  BY <1>12, NewCopy DEF CopyBegins, Reached, Goto
<1>13. CASE CopyEnds
  BY <1>13, NewCopy DEF CopyEnds, Reached, Goto
<1>14. CASE KeepFails
  BY <1>14 DEF KeepFails, Abort, OtherCopies, Reached, Goto
<1>15. CASE SetKept
  BY <1>15 DEF SetKept, SetPhase, Reached, Goto
<1>16. CASE SetSwapping
  BY <1>16 DEF SetSwapping, SetPhase, Reached, Goto
<1>17. CASE SwapFails
  BY <1>17 DEF SwapFails, Abort, Reached, Goto
<1>18. CASE Rename
  <2> DEFINE unlinked(k) == [k EXCEPT !.live = FALSE]
  <2>1. \A k \in copies : /\ unlinked(k) \in [name : 1..MaxName, data : Contents \cup {Partial}, live : BOOLEAN]
                          /\ unlinked(k).name = k.name /\ unlinked(k).data = k.data /\ ~unlinked(k).live
    BY ZenonT(60)
  <2>2. copies' = {unlinked(k) : k \in copies} /\ prev' = db /\ pc' = "renamed" /\ stamp' = stamp /\ journal' = journal
    BY <1>18 DEF Rename, Goto
  <2> HIDE DEF unlinked
  <2>3. SwapTypes'
    BY <1>18, <2>1, <2>2 DEF Rename, Reached, Goto
  <2>4. Journaling'
    BY <1>18 DEF Rename, Reached, Goto
  <2>5. PICK k \in copies : k.name = stamp /\ k.data = db
    BY <1>18 DEF Rename, Reached
  <2>6. unlinked(k) \in copies' /\ unlinked(k).name = stamp /\ unlinked(k).data = db /\ ~unlinked(k).live
    BY <2>1, <2>2, <2>5
  <2>7. Copying'
    <3>1. IsPrevious(unlinked(k))'
      BY <2>2, <2>6
    <3>2. \A l \in copies' : l.name <= stamp'
      BY <2>1, <2>2
    <3> QED
      BY <2>2, <2>6, <3>1, <3>2
  <2>8. JournalTruthful'
    BY <1>18, <2>2, <2>6 DEF Rename, Reached, Goto
  <2> QED
    BY <2>3, <2>4, <2>7, <2>8
<1>19. CASE SetSwapped
  BY <1>19 DEF SetSwapped, SetPhase, Reached, Goto
<1>20. CASE SetSwappedFails
  BY <1>20 DEF SetSwappedFails, Reached, Goto
<1>21. CASE FinishFails
  BY <1>21 DEF FinishFails, Reached, Goto
<1>22. CASE RemoveJournal
  BY <1>22 DEF RemoveJournal, Reached, Goto
<1>23. CASE PruneBackups
  <2>1. SwapTypes' /\ Journaling' /\ JournalTruthful'
    BY <1>23 DEF PruneBackups, Reached, Goto
  <2>2. Copying'
    <3>1. prev # NoFile => \E k \in copies' : IsPrevious(k)'
      <4>1. SUFFICES ASSUME prev # NoFile PROVE \E k \in copies' : IsPrevious(k)'
        OBVIOUS
      <4>2. PICK k \in copies : k.data = prev /\ ~k.live /\ k.name = stamp
        BY <1>23, <4>1 DEF PruneBackups, Reached
      <4>3. {l \in copies : l.name > k.name} = {}
        BY <4>2
      <4>4. Cardinality({l \in copies : l.name > k.name}) = 0 /\ 0 < KeepCopies
        <5>1. Cardinality({l \in copies : l.name > k.name}) = 0
          BY <4>3, FS_EmptySet, Zenon
        <5>2. 0 < KeepCopies
          OBVIOUS
        <5> QED
          BY <5>1, <5>2
      <4>5. k \in copies' /\ IsPrevious(k)'
        BY <1>23, <4>2, <4>4 DEF PruneBackups, Goto
      <4> QED
        BY <4>5
    <3> QED
      BY <1>23, <3>1 DEF PruneBackups, Goto
  <2> QED
    BY <2>1, <2>2
<1>24. CASE Retry
  BY <1>24 DEF Retry, Reached, Goto
<1> QED
  BY <1>1, <1>2, <1>3, <1>4, <1>5, <1>6, <1>7, <1>8, <1>9, <1>10, <1>11, <1>12, <1>13, <1>14, <1>15, <1>16, <1>17, <1>18, <1>19, <1>20, <1>21, <1>22, <1>23, <1>24 DEF SwapNext

\* A step that changes nothing keeps it as well.
LEMMA StutterInv == SwapInv /\ UNCHANGED swapVars => SwapInv'
BY DEF swapVars, SwapInv, SwapTypes, Journaling, Copying, JournalTruthful, IsPrevious, HasCopy, BeforeSwap, AfterSwap, NoJournal, Torn, Files

\* Where the process is, its journal and its copies always agree.
THEOREM SwapInvariant ==
    ASSUME ClockSetBack = FALSE
    PROVE  SwapSpec => []SwapInv
<1>1. SwapInv /\ [SwapNext]_swapVars => SwapInv'
  BY NextInv, StutterInv, ClockSetBack = FALSE
<1> QED
  BY <1>1, InitInv, PTL DEF SwapSpec

\* ReplaceDatabase never loses the database it replaced, whatever fails or crashes
\* at whatever step, in that replacement or in later attempts.
THEOREM PreviousIsKept ==
    ASSUME ClockSetBack = FALSE
    PROVE  SwapSpec => []PreviousKept
<1>1. SwapInv => PreviousKept
  BY DEF SwapInv, Copying, IsPrevious, PreviousKept
<1> QED
  BY <1>1, SwapInvariant, ClockSetBack = FALSE, PTL

\* RecoverReplace finds a journal it can rely on after a crash at any step.
THEOREM JournalIsTruthful ==
    ASSUME ClockSetBack = FALSE
    PROVE  SwapSpec => []JournalTruthful
<1>1. SwapInv => JournalTruthful
  BY DEF SwapInv
<1> QED
  BY <1>1, SwapInvariant, ClockSetBack = FALSE, PTL
=============================================================================
