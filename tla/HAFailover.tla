----------------------------- MODULE HAFailover -----------------------------
(***************************************************************************)
(* The metadata handover of active-passive HA: what happens between the    *)
(* moment an instance acquires the lease and the moment its App serves as  *)
(* the active one (app/ha.go, app/ha_handover.go), the encrypted metadata  *)
(* snapshots the active instance stores and prunes (ha/snapshot.go) and    *)
(* the rollback checks of a takeover.                                      *)
(*                                                                         *)
(* The lease itself is the subject of HALease.  Here a lease write is one  *)
(* step, and another instance may acquire the lease once the fencing check *)
(* of its holder fails (HALease!AtMostOneWorks and FencingTokenSpec).      *)
(*                                                                         *)
(* The content of a metadata database is the set of the changes it         *)
(* includes.  A snapshot is known by its mark, the pair of the epoch and   *)
(* the time in its name and its authenticated header.  Snapshots that fail *)
(* their authentication are never candidates and are left out.             *)
(***************************************************************************)
EXTENDS Integers, FiniteSets

CONSTANTS
    Instances, \* the instances of the cluster
    NoHolder,  \* the holder of a released lease
    Keep,      \* SnapshotterConfig.Keep
    Histories, \* what the cluster may start with: see Init
    Regain,    \* whether the lease may be lost and regained during a takeover
    SetBack,   \* whether the wall clock of the active instance may be set back
    Hand,      \* how often people delete or alter an object or force a takeover
    MaxEpoch,  \* bound on the epochs explored
    MaxTime,   \* bound on the snapshots taken
    MaxChange  \* bound on the changes to the metadata

ASSUME HAFailoverConstants ==
    /\ NoHolder \notin Instances
    /\ Keep \in Nat \ {0}
    /\ Histories \subseteq {"none", "legacy", "snapshots"}
    /\ {Regain, SetBack} \subseteq BOOLEAN
    /\ {Hand, MaxEpoch, MaxTime, MaxChange} \subseteq Nat
    \* What the cluster starts with is within the bounds.
    /\ "legacy" \in Histories => MaxEpoch >= 3 /\ MaxTime >= 1
    /\ "snapshots" \in Histories => MaxEpoch >= 2 /\ MaxTime >= 2

VARIABLES
    lease,   \* the lease object
    snaps,   \* the metadata snapshots on the HA target
    uploads, \* snapshots on their way to it
    mgr,     \* the lease manager of every instance
    disk,    \* the data directory: metadata database, ha.json, ha-override.json
    sup,     \* the supervisor of every instance
    task,    \* the snapshot every instance is taking
    clock,   \* times that snapshots were taken at
    hand,    \* interventions by hand so far
    older,   \* the signed leases that were replaced since, which someone may have kept
    stored   \* what the cluster's metadata must include: the content of the last
             \* snapshot the holder of the lease stored, but for what an operator
             \* forced out or an empty start after deletions by hand reported lost

vars == <<lease, snaps, uploads, mgr, disk, sup, task, clock, hand, older, stored>>

-----------------------------------------------------------------------------
(* Marks, snapshots, the lease. *)

Before(m, n) == m[1] < n[1] \/ (m[1] = n[1] /\ m[2] < n[2])
LaterMark(m, n) == IF Before(m, n) THEN n ELSE m
Larger(a, b) == IF a >= b THEN a ELSE b
NoMark == <<0, 0>>

Newest(S) == CHOOSE s \in S : \A t \in S : ~Before(s.mark, t.mark)
Verified == {s \in snaps : s.header}

\* Candidates of a selection: the verified snapshots, or the legacy ones when no
\* snapshot of the cluster has a header.
Legacy == Verified = {}
Candidates == IF Legacy THEN snaps ELSE Verified

\* AuthenticEpoch: the highest epoch the snapshots on the HA target prove.
AuthenticEpoch == IF snaps = {} THEN 0 ELSE Newest(Candidates).mark[1]

\* A lease with `back` was put back by hand: its version is none a manager knows.
NoLease == [there |-> FALSE, holder |-> NoHolder, epoch |-> 0, mark |-> NoMark, mac |-> "none", back |-> FALSE]
NoPredecessor == [trust |-> "absent", epoch |-> 0, named |-> NoMark, mark |-> NoMark]
NewManager ==
    [role |-> "standby", expired |-> FALSE, epoch |-> 0, mark |-> NoMark, signed |-> FALSE,
     pred |-> NoPredecessor, seenMark |-> NoMark, seenEpoch |-> 0]
NoSnapshot == [mark |-> NoMark, by |-> NoHolder, data |-> {}, header |-> FALSE]
Supervising(phase) == [phase |-> phase, snap |-> NoSnapshot, forced |-> FALSE, empty |-> FALSE, reasons |-> {}]
NoTask == [stage |-> "idle", snap |-> NoSnapshot, drop |-> {}]
NoOverride == [kind |-> "none", snap |-> NoSnapshot]

\* Manager.Check, the fence of the active instance.
Check(i) == mgr[i].role = "active" /\ ~mgr[i].expired

\* The App of the active instance is open.
AppOpen(i) == sup[i].phase \in {"starting", "serving"}

\* A new cluster; one that an earlier version left in its third epoch, with an
\* unsigned lease and a snapshot without header; or one whose last active
\* instance stored two snapshots in the second epoch and released the lease.
Init ==
    \E history \in Histories, last \in Instances :
      LET old(m, d, h) == [mark |-> m, by |-> IF h THEN last ELSE NoHolder, data |-> d, header |-> h]
          past == CASE history = "none" -> {}
                    [] history = "legacy" -> {old(<<3, 1>>, {0}, FALSE)}
                    [] history = "snapshots" -> {old(<<2, 1>>, {}, TRUE), old(<<2, 2>>, {0}, TRUE)}
          fresh == [data |-> {}, lastActive |-> 0, high |-> NoMark, seen |-> FALSE, authentic |-> FALSE,
                    override |-> NoOverride]
          signed == history = "snapshots"
          was(h, e, m) == [there |-> TRUE, holder |-> h, epoch |-> e, mark |-> m, mac |-> "valid", back |-> FALSE]
      IN
      /\ snaps = past
      /\ lease = IF past = {} THEN NoLease
                 ELSE [there |-> TRUE, holder |-> NoHolder, epoch |-> IF signed THEN 2 ELSE 3,
                       mark |-> IF signed THEN <<2, 2>> ELSE NoMark, mac |-> IF signed THEN "valid" ELSE "none",
                       back |-> FALSE]
      /\ older = IF signed THEN {was(NoHolder, 1, NoMark), was(last, 2, NoMark), was(last, 2, <<2, 1>>)} ELSE {}
      /\ disk = [i \in Instances |->
                   IF i = last /\ signed
                   THEN [fresh EXCEPT !.data = {0}, !.lastActive = 2, !.high = <<2, 2>>, !.seen = TRUE, !.authentic = TRUE]
                   ELSE fresh]
      /\ uploads = {}
      /\ mgr = [i \in Instances |-> NewManager]
      /\ sup = [i \in Instances |-> Supervising("down")]
      /\ task = [i \in Instances |-> NoTask]
      /\ clock = {s.mark[2] : s \in past}
      /\ hand = 0
      /\ stored = UNION {s.data : s \in past}

-----------------------------------------------------------------------------
(* ha.json. *)

\* State.Observe: the cluster was seen, its high-water mark is raised to m.
Observed(d, m) == [d EXCEPT !.seen = TRUE, !.high = LaterMark(d.high, m)]

\* sawAuthenticLease
SawAuthenticLease(d) == [Observed(d, NoMark) EXCEPT !.authentic = TRUE]

-----------------------------------------------------------------------------
(* The lease manager. *)

\* The lease object is as the manager of i last wrote it.
Mine(i) == lease.there /\ lease.holder = i /\ lease.epoch = mgr[i].epoch /\ lease.mac # "wrong" /\ ~lease.back

\* A standby reads nothing of the lease it held but what it saw of the cluster.
SteppedDown(m) == [NewManager EXCEPT !.seenMark = m.seenMark, !.seenEpoch = m.seenEpoch]

\* renew with the content of m: committed; refused, or too late, so that the
\* instance steps down; or without an answer, so that the next renewal tries.
RenewAs(i, m) ==
    \/ /\ ~m.expired /\ Mine(i)
       /\ lease' = [lease EXCEPT !.mark = m.mark, !.mac = IF m.signed THEN "valid" ELSE "none"]
       /\ mgr' = [mgr EXCEPT ![i] = m]
    \/ /\ m.expired \/ ~Mine(i)
       /\ mgr' = [mgr EXCEPT ![i] = SteppedDown(m)]
       /\ UNCHANGED lease
    \/ /\ ~m.expired
       /\ mgr' = [mgr EXCEPT ![i] = m]
       /\ UNCHANGED lease

Renew(i) ==
    /\ mgr[i].role = "active"
    /\ RenewAs(i, mgr[i])
    /\ UNCHANGED <<snaps, uploads, disk, sup, task, clock, hand, stored>>

\* The step-down deadline passes: the fencing check fails from now on.
Expire(i) ==
    /\ Check(i)
    /\ mgr' = [mgr EXCEPT ![i].expired = TRUE]
    /\ UNCHANGED <<lease, snaps, uploads, disk, sup, task, clock, hand, stored>>

\* Mutant: the epoch of the lease is not remembered.
NoticedMark(m) == [m EXCEPT !.seenMark = IF lease.mac = "valid" THEN LaterMark(m.seenMark, lease.mark) ELSE m.seenMark]

\* What a standby learns from the lease object.
Noticed(m) ==
    [m EXCEPT !.seenMark = IF lease.mac = "valid" THEN LaterMark(m.seenMark, lease.mark) ELSE m.seenMark,
              !.seenEpoch = Larger(m.seenEpoch, lease.epoch)]

Observe(i) ==
    /\ sup[i].phase # "down" /\ mgr[i].role = "standby" /\ lease.there
    /\ mgr' = [mgr EXCEPT ![i] = Noticed(mgr[i])]
    /\ disk' = IF lease.mac = "valid" THEN [disk EXCEPT ![i] = SawAuthenticLease(disk[i])] ELSE disk
    /\ UNCHANGED <<lease, snaps, uploads, sup, task, clock, hand, stored>>

\* Mutant: the mark of the lease that is replaced is not carried over.
AssessWithoutMark(m) ==
    LET trust == IF ~lease.there THEN "absent" ELSE IF lease.mac = "valid" THEN "authentic" ELSE lease.mac IN
    [trust |-> trust, epoch |-> lease.epoch, named |-> NoMark, mark |-> NoMark]

\* assess: what the lease that is replaced is worth.
Assess(m) ==
    LET trust == IF ~lease.there THEN "absent" ELSE IF lease.mac = "valid" THEN "authentic" ELSE lease.mac IN
    [trust |-> trust, epoch |-> lease.epoch, named |-> lease.mark, mark |-> Noticed(m).seenMark]

\* epochFloor: the highest epoch on record outside the lease.
EpochFloor(i) == Larger(AuthenticEpoch, Larger(disk[i].lastActive, disk[i].high[1]))

\* observe and acquire: the lease is absent, released, or its holder's fencing
\* check has failed.  The supervisor has noticed the loss of an earlier lease by
\* then, unless Regain: it may be busy with the takeover of that lease.
Acquire(i) ==
    LET m == Noticed(mgr[i])
        pred == Assess(mgr[i])
        epoch == Larger(m.seenEpoch, EpochFloor(i)) + 1
        signed == pred.trust = "authentic"
    IN
    /\ mgr[i].role = "standby"
    /\ sup[i].phase \in {"standby"} \cup (IF Regain THEN {"restoring", "confirming", "opening", "starting"} ELSE {})
    /\ lease.holder # NoHolder => ~Check(lease.holder)
    /\ epoch <= MaxEpoch
    /\ lease' = [there |-> TRUE, holder |-> i, epoch |-> epoch, mark |-> pred.mark,
                 mac |-> IF signed THEN "valid" ELSE "none", back |-> FALSE]
    /\ mgr' = [mgr EXCEPT ![i] = [role |-> "active", expired |-> FALSE, epoch |-> epoch, mark |-> pred.mark,
                                  signed |-> signed, pred |-> pred, seenMark |-> m.seenMark, seenEpoch |-> epoch]]
    /\ disk' = IF signed THEN [disk EXCEPT ![i] = SawAuthenticLease(disk[i])] ELSE disk
    /\ UNCHANGED <<snaps, uploads, sup, task, clock, hand, stored>>

-----------------------------------------------------------------------------
(* The supervisor: prepareTakeover. *)

\* bootstrap: the lease and the snapshots are looked at, if they can be read.
Bootstrap(i) ==
    /\ sup[i].phase = "down"
    /\ sup' = [sup EXCEPT ![i] = Supervising("standby")]
    /\ \/ disk' = [disk EXCEPT ![i] = IF lease.mac = "valid" THEN SawAuthenticLease(disk[i])
                                      ELSE IF lease.there \/ snaps # {} THEN Observed(disk[i], NoMark) ELSE disk[i]]
       \/ UNCHANGED disk
    /\ UNCHANGED <<lease, snaps, uploads, mgr, task, clock, hand, stored>>

\* serveStandby has noticed the role, the App of the standby is closed and
\* TakeOverride has found no request.
Acquired(i) == sup[i].phase = "standby" /\ mgr[i].role = "active"
Preparing(i) == Acquired(i) /\ disk[i].override = NoOverride

\* forceTakeover: the request is used once; the rollback checks are skipped.
ForceTakeover(i) ==
    /\ Acquired(i) /\ disk[i].override # NoOverride
    /\ disk' = [disk EXCEPT ![i].override = NoOverride]
    /\ sup' = [sup EXCEPT ![i] =
                 [Supervising(IF disk[i].override.kind = "local" THEN "confirming" ELSE "restoring")
                    EXCEPT !.forced = TRUE, !.snap = disk[i].override.snap]]
    /\ stored' = IF disk[i].override.kind = "local" THEN stored \cap disk[i].data ELSE stored
    /\ UNCHANGED <<lease, snaps, uploads, mgr, task, clock, hand>>

\* The reasons to suspect that a takeover would roll the metadata back.  The
\* second newest verified snapshot is the newest without the newest.
Suspicions(i) ==
    LET pred == mgr[i].pred
        newest == Newest(Candidates)
        lagging == Verified \ {newest}
        authentic == pred.trust = "authentic"
    IN
    (IF pred.trust = "absent" /\ (snaps # {} \/ disk[i].seen) THEN {"lease_missing"} ELSE {})
    \cup (IF snaps # {} /\ (pred.trust = "wrong" \/ (pred.trust = "none" /\ (~Legacy \/ disk[i].authentic)))
          THEN {"lease_untrusted"} ELSE {})
    \cup (IF ~Legacy /\ authentic /\ newest.mark[1] > pred.epoch THEN {"lease_replayed"} ELSE {})
    \cup (IF ~Legacy /\ authentic /\ lagging # {} /\ Before(pred.named, Newest(lagging).mark)
          THEN {"lease_stale"} ELSE {})
    \cup (IF Legacy /\ snaps # {} /\ (pred.mark # NoMark \/ disk[i].high # NoMark)
          THEN {"legacy_after_upgrade"} ELSE {})
    \cup (IF ~Legacy /\ Before(newest.mark, pred.mark) THEN {"snapshot_behind_lease"} ELSE {})
    \cup (IF ~Legacy /\ Before(newest.mark, disk[i].high) THEN {"snapshot_behind_local"} ELSE {})

\* No snapshot at all is taken over only on a genuine first activation.
FirstActivation(i) == snaps = {} /\ mgr[i].pred.trust = "absent" /\ ~disk[i].seen

\* Mutant: the epochs are compared the wrong way round, the writers not at all.
OwnEpoch(i) == Newest(Candidates).mark[1] >= disk[i].lastActive

\* The newest snapshot is this instance's own, of the epoch it last held.
OwnNewest(i) ==
    LET newest == Newest(Candidates) IN
    newest.mark[1] = disk[i].lastActive /\ (Legacy \/ newest.by = i)

StartFromEmpty(i) ==
    /\ Preparing(i) /\ FirstActivation(i)
    /\ sup' = [sup EXCEPT ![i] = [Supervising("confirming") EXCEPT !.empty = TRUE]]
    /\ stored' = IF hand > 0 THEN stored \cap disk[i].data ELSE stored
    /\ UNCHANGED <<lease, snaps, uploads, mgr, disk, task, clock, hand>>

SelectSnapshot(i) ==
    /\ Preparing(i) /\ snaps # {} /\ Suspicions(i) = {}
    /\ sup' = [sup EXCEPT ![i] = [Supervising(IF OwnNewest(i) THEN "confirming" ELSE "restoring")
                                    EXCEPT !.snap = Newest(Candidates)]]
    /\ UNCHANGED <<lease, snaps, uploads, mgr, disk, task, clock, hand, stored>>

\* A suspected rollback, no snapshot to take over from, or a storage error that
\* outlasts the attempts.
RefuseTakeover(i) ==
    /\ Preparing(i)
    /\ sup' = [sup EXCEPT ![i] = [Supervising("failing") EXCEPT !.reasons = Suspicions(i)]]
    /\ UNCHANGED <<lease, snaps, uploads, mgr, disk, task, clock, hand, stored>>

\* restoreWithRetry: the snapshot replaces the database (DatabaseSwap), or it
\* cannot be read.
RestoreSnapshot(i) ==
    /\ sup[i].phase = "restoring" /\ sup[i].snap \in snaps
    /\ disk' = [disk EXCEPT ![i].data = sup[i].snap.data]
    /\ sup' = [sup EXCEPT ![i].phase = "confirming"]
    /\ stored' = IF sup[i].forced THEN stored \cap sup[i].snap.data ELSE stored
    /\ UNCHANGED <<lease, snaps, uploads, mgr, task, clock, hand>>

RestoreFails(i) ==
    /\ sup[i].phase = "restoring"
    /\ sup' = [sup EXCEPT ![i] = Supervising("failing")]
    /\ UNCHANGED <<lease, snaps, uploads, mgr, disk, task, clock, hand, stored>>

\* confirmTakeover: the high-water mark of ha.json is raised, or reset by a forced
\* takeover, then Manager.Confirm signs the lease from now on.  The name of a
\* legacy snapshot is not authenticated and makes no mark.
TakeoverMark(i) == IF sup[i].snap.header THEN sup[i].snap.mark ELSE NoMark

\* Manager.Confirm
SignLease(i) ==
    \/ /\ mgr[i].role # "active"
       /\ UNCHANGED <<lease, mgr>>
    \/ /\ mgr[i].role = "active"
       /\ RenewAs(i, [mgr[i] EXCEPT !.signed = TRUE, !.mark = LaterMark(@, TakeoverMark(i))])

Confirm(i) ==
    LET seen == IF sup[i].forced THEN [disk[i] EXCEPT !.seen = TRUE, !.high = TakeoverMark(i)]
                                 ELSE Observed(disk[i], TakeoverMark(i))
        held == mgr'[i].role = "active" /\ ~mgr'[i].expired
    IN
    /\ sup[i].phase = "confirming"
    /\ SignLease(i)
    /\ sup' = [sup EXCEPT ![i].phase = IF held THEN "opening" ELSE "failing"]
    /\ disk' = [disk EXCEPT ![i] = IF held THEN SawAuthenticLease(seen) ELSE seen]
    /\ UNCHANGED <<snaps, uploads, task, clock, hand, stored>>

\* A lease write that gives the lease up, if it arrives and finds the lease.
GiveUp(i) ==
    \/ /\ mgr[i].role = "active" /\ Mine(i)
       /\ lease' = [lease EXCEPT !.holder = NoHolder, !.mark = mgr[i].mark,
                                 !.mac = IF mgr[i].signed THEN "valid" ELSE "none"]
    \/ UNCHANGED lease

\* takeOver gives the lease up when the takeover failed.
TakeoverFailed(i) ==
    /\ sup[i].phase = "failing"
    /\ GiveUp(i)
    /\ mgr' = [mgr EXCEPT ![i] = SteppedDown(mgr[i])]
    /\ sup' = [sup EXCEPT ![i] = Supervising("standby")]
    /\ UNCHANGED <<snaps, uploads, disk, task, clock, hand, stored>>

-----------------------------------------------------------------------------
(* The supervisor: the active App. *)

\* takeOver opens the App of the role the manager has by now.
OpenApp(i) ==
    /\ sup[i].phase = "opening"
    /\ sup' = [sup EXCEPT ![i] = IF mgr[i].role = "active" THEN Supervising("starting") ELSE Supervising("standby")]
    /\ UNCHANGED <<lease, snaps, uploads, mgr, disk, task, clock, hand, stored>>

\* serveActive: recordActiveEpoch once the App has started; Manager.Epoch is 0
\* for a standby.
ServeActive(i) ==
    /\ sup[i].phase = "starting"
    /\ disk' = [disk EXCEPT ![i] = [Observed(disk[i], NoMark) EXCEPT
                                      !.lastActive = IF mgr[i].role = "active" THEN mgr[i].epoch ELSE 0]]
    /\ sup' = [sup EXCEPT ![i] = Supervising("serving")]
    /\ UNCHANGED <<lease, snaps, uploads, mgr, task, clock, hand, stored>>

\* A run or a request changes the metadata.
Changes ==
    stored \cup UNION {disk[j].data \cup task[j].snap.data : j \in Instances}
           \cup UNION {s.data : s \in snaps \cup uploads}

Change(i) ==
    /\ AppOpen(i) /\ 1..MaxChange \ Changes # {}
    /\ disk' = [disk EXCEPT ![i].data = @ \cup {CHOOSE c \in 1..MaxChange : c \notin Changes}]
    /\ UNCHANGED <<lease, snaps, uploads, mgr, sup, task, clock, hand, stored>>

\* loseLease: the App is stopped, a snapshot in progress with it.
LoseLease(i) ==
    /\ sup[i].phase = "serving" /\ mgr[i].role # "active"
    /\ sup' = [sup EXCEPT ![i] = Supervising("standby")]
    /\ task' = [task EXCEPT ![i] = NoTask]
    /\ UNCHANGED <<lease, snaps, uploads, mgr, disk, clock, hand, stored>>

\* shutdownActive: the runs stop, a last snapshot may follow, then the lease is
\* released and the process exits.
Shutdown(i) ==
    /\ sup[i].phase = "serving"
    /\ sup' = [sup EXCEPT ![i].phase = "stopping"]
    /\ UNCHANGED <<lease, snaps, uploads, mgr, disk, task, clock, hand, stored>>

Exit(i) ==
    /\ mgr' = [mgr EXCEPT ![i] = NewManager]
    /\ sup' = [sup EXCEPT ![i] = Supervising("down")]
    /\ task' = [task EXCEPT ![i] = NoTask]
    /\ UNCHANGED <<snaps, uploads, disk, clock, hand, stored>>

Release(i) ==
    /\ sup[i].phase = "stopping" /\ task[i] = NoTask
    /\ GiveUp(i)
    /\ Exit(i)

\* The App cannot be opened or started, or its listener fails: what runs is
\* stopped, the lease released, and the process exits.
AppFails(i) ==
    /\ sup[i].phase = "opening" \/ AppOpen(i)
    /\ GiveUp(i)
    /\ Exit(i)

\* The process dies.  Uploads on their way may still arrive.
Crash(i) ==
    /\ sup[i].phase # "down"
    /\ Exit(i)
    /\ UNCHANGED lease

-----------------------------------------------------------------------------
(* Snapshotter.Snapshot, one at a time. *)

At(i, stage) == task[i].stage = stage

\* The fence is checked, the epoch and the time name the snapshot, the database
\* is copied.
SnapshotCopy(i) ==
    /\ At(i, "idle") /\ (AppOpen(i) \/ sup[i].phase = "stopping")
    /\ Check(i)
    /\ \E t \in (1..MaxTime) \ clock :
         /\ SetBack \/ (t = 1 /\ clock = {}) \/ (t - 1 \in clock /\ \A u \in clock : u < t)
         /\ clock' = clock \cup {t}
         /\ task' = [task EXCEPT ![i].stage = "copied",
                       ![i].snap = [mark |-> <<mgr[i].epoch, t>>, by |-> i, data |-> disk[i].data, header |-> TRUE]]
    /\ UNCHANGED <<lease, snaps, uploads, mgr, disk, sup, hand, stored>>

\* The fence is checked again right before the upload.
SnapshotSend(i) ==
    /\ At(i, "copied")
    /\ \/ /\ Check(i)
          /\ uploads' = uploads \cup {task[i].snap}
          /\ task' = [task EXCEPT ![i].stage = "sent"]
       \/ /\ ~Check(i)
          /\ task' = [task EXCEPT ![i] = NoTask]
          /\ UNCHANGED uploads
    /\ UNCHANGED <<lease, snaps, mgr, disk, sup, clock, hand, stored>>

\* The storage completes an upload, now or never, whoever waits for it.
UploadLands(s) ==
    /\ snaps' = snaps \cup {s}
    /\ uploads' = uploads \ {s}
    /\ UNCHANGED <<lease, mgr, disk, sup, task, clock, hand, stored>>

\* Save has returned.
SnapshotStored(i) ==
    /\ At(i, "sent") /\ task[i].snap \in snaps
    /\ task' = [task EXCEPT ![i].stage = "stored"]
    /\ stored' = IF Check(i) /\ lease.holder = i /\ mgr[i].epoch = task[i].snap.mark[1]
                 THEN task[i].snap.data ELSE stored
    /\ UNCHANGED <<lease, snaps, uploads, mgr, disk, sup, clock, hand>>

SnapshotFails(i) ==
    /\ At(i, "sent")
    /\ task' = [task EXCEPT ![i] = NoTask]
    /\ UNCHANGED <<lease, snaps, uploads, mgr, disk, sup, clock, hand, stored>>

\* Manager.RecordSnapshot: the lease names the snapshot if it is the newest.
RecordSnapshot(i) ==
    /\ At(i, "stored")
    /\ task' = [task EXCEPT ![i].stage = "recorded"]
    /\ LET newer == mgr[i].role = "active" /\ Before(mgr[i].mark, task[i].snap.mark) IN
       \/ newer /\ RenewAs(i, [mgr[i] EXCEPT !.mark = task[i].snap.mark])
       \/ ~newer /\ UNCHANGED <<lease, mgr>>
    /\ UNCHANGED <<snaps, uploads, disk, sup, clock, hand, stored>>

\* keptSnapshots: the first Keep, the Keep newest of the current epoch, and the
\* newest by its time.
NewestOf(S) == {s \in S : Cardinality({t \in S : Before(s.mark, t.mark)}) < Keep}
\* Mutant: only the snapshots of the current epoch count.
KeptOfEpoch(current) == NewestOf({s \in Verified : s.mark[1] = current})
Kept(current) ==
    NewestOf(Verified) \cup NewestOf({s \in Verified : s.mark[1] = current})
        \cup {s \in Verified : \A t \in Verified : t.mark[2] <= s.mark[2]}

\* The high-water mark of ha.json follows; then prune lists the snapshots, and
\* the listing decides what is deleted afterwards.
RaiseHighWater(i) ==
    /\ At(i, "recorded")
    /\ disk' = [disk EXCEPT ![i] = Observed(disk[i], task[i].snap.mark)]
    /\ task' = [task EXCEPT ![i].stage = "pruning",
                            ![i].drop = IF Legacy THEN {} ELSE snaps \ Kept(task[i].snap.mark[1])]
    /\ UNCHANGED <<lease, snaps, uploads, mgr, sup, clock, hand, stored>>

\* A snapshot that cannot be deleted stays for the next time.
PruneDelete(i) ==
    /\ At(i, "pruning")
    /\ \E gone \in SUBSET task[i].drop : snaps' = snaps \ gone
    /\ task' = [task EXCEPT ![i] = NoTask]
    /\ UNCHANGED <<lease, uploads, mgr, disk, sup, clock, hand, stored>>

-----------------------------------------------------------------------------
(* People. *)

\* Someone deletes a snapshot.  One that the lease does not name yet would be
\* missed by nobody.
DeleteSnapshot(s) ==
    /\ hand < Hand /\ (lease.there => ~Before(lease.mark, s.mark))
    /\ snaps' = snaps \ {s}
    /\ hand' = hand + 1
    /\ UNCHANGED <<lease, uploads, mgr, disk, sup, task, clock, stored>>

DeleteLease ==
    /\ hand < Hand /\ lease.there
    /\ lease' = NoLease
    /\ hand' = hand + 1
    /\ UNCHANGED <<snaps, uploads, mgr, disk, sup, task, clock, stored>>

AlterLease ==
    /\ hand < Hand /\ lease.there
    /\ lease' = [lease EXCEPT !.mac = "wrong"]
    /\ hand' = hand + 1
    /\ UNCHANGED <<snaps, uploads, mgr, disk, sup, task, clock, stored>>

\* Someone puts an older lease back, which the cluster signed itself.
ReplayLease ==
    /\ hand < Hand
    /\ \E l \in older \ {lease} : lease' = [l EXCEPT !.back = TRUE]
    /\ hand' = hand + 1
    /\ UNCHANGED <<snaps, uploads, mgr, disk, sup, task, clock, stored>>

\* mongorescue ha force-takeover, from a snapshot or with the local database.
RequestTakeover(i) ==
    /\ hand < Hand /\ sup[i].phase = "standby" /\ disk[i].override = NoOverride
    /\ \/ disk' = [disk EXCEPT ![i].override = [kind |-> "local", snap |-> NoSnapshot]]
       \/ \E s \in snaps : disk' = [disk EXCEPT ![i].override = [kind |-> "snapshot", snap |-> s]]
    /\ hand' = hand + 1
    /\ UNCHANGED <<lease, snaps, uploads, mgr, sup, task, clock, stored>>

-----------------------------------------------------------------------------
ManagerStep(i) == Renew(i) \/ Expire(i) \/ Observe(i) \/ Acquire(i)

TakeoverStep(i) ==
    \/ Bootstrap(i) \/ ForceTakeover(i) \/ StartFromEmpty(i) \/ SelectSnapshot(i)
    \/ RefuseTakeover(i) \/ RestoreSnapshot(i) \/ RestoreFails(i) \/ Confirm(i)
    \/ TakeoverFailed(i) \/ OpenApp(i) \/ ServeActive(i)

ActiveStep(i) == Change(i) \/ LoseLease(i) \/ Shutdown(i) \/ Release(i) \/ AppFails(i) \/ Crash(i)

SnapshotStep(i) ==
    \/ SnapshotCopy(i) \/ SnapshotSend(i) \/ SnapshotStored(i) \/ SnapshotFails(i)
    \/ RecordSnapshot(i) \/ RaiseHighWater(i) \/ PruneDelete(i)

PeopleStep ==
    \/ \E s \in snaps : DeleteSnapshot(s)
    \/ DeleteLease \/ AlterLease \/ ReplayLease
    \/ \E i \in Instances : RequestTakeover(i)

Next ==
    /\ \/ \E i \in Instances : ManagerStep(i) \/ TakeoverStep(i) \/ ActiveStep(i) \/ SnapshotStep(i)
       \/ \E s \in uploads : UploadLands(s)
       \/ PeopleStep
    /\ older' = older \cup {l \in {lease} : l.mac = "valid"}

Spec == Init /\ [][Next]_vars

-----------------------------------------------------------------------------
(* Properties. *)

\* Types.
Marks == (0..MaxEpoch) \X (0..MaxTime)
Data == SUBSET (0..MaxChange)
Snapshots == [mark : Marks, by : Instances \cup {NoHolder}, data : Data, header : BOOLEAN]
Trusts == {"absent", "none", "wrong", "authentic"}
Phases == {"down", "standby", "restoring", "confirming", "failing", "opening", "starting", "serving", "stopping"}
Stages == {"idle", "copied", "sent", "stored", "recorded", "pruning"}
TypeOK ==
    /\ lease \in [there : BOOLEAN, holder : Instances \cup {NoHolder}, epoch : 0..MaxEpoch, mark : Marks,
                  mac : {"none", "valid", "wrong"}, back : BOOLEAN]
    /\ snaps \subseteq Snapshots /\ uploads \subseteq Snapshots
    /\ \A i \in Instances :
         /\ mgr[i].role \in {"standby", "active"} /\ {mgr[i].expired, mgr[i].signed} \subseteq BOOLEAN
         /\ {mgr[i].epoch, mgr[i].seenEpoch} \subseteq 0..MaxEpoch /\ {mgr[i].mark, mgr[i].seenMark} \subseteq Marks
         /\ mgr[i].pred \in [trust : Trusts, epoch : 0..MaxEpoch, named : Marks, mark : Marks]
         /\ disk[i] \in [data : Data, lastActive : 0..MaxEpoch, high : Marks, seen : BOOLEAN, authentic : BOOLEAN,
                         override : [kind : {"none", "local", "snapshot"}, snap : Snapshots]]
         /\ sup[i].phase \in Phases /\ sup[i].snap \in Snapshots /\ {sup[i].forced, sup[i].empty} \subseteq BOOLEAN
         /\ task[i].stage \in Stages /\ task[i].snap \in Snapshots /\ task[i].drop \subseteq Snapshots
    /\ clock \subseteq 0..MaxTime /\ hand \in 0..Hand /\ stored \in Data

\* As long as nobody deletes the lease, an epoch belongs to one instance: no two
\* instances write snapshots of the same epoch, however late, and the snapshots
\* and the managers know of no epoch above that of the lease.
FailoverInv ==
    /\ TypeOK
    /\ \A s, t \in snaps \cup uploads : s.mark[1] = t.mark[1] => s.by = t.by
    /\ \A s \in snaps \cup uploads : s.mark[1] <= lease.epoch
    /\ \A i \in Instances :
         /\ mgr[i].seenEpoch <= lease.epoch
         /\ mgr[i].role = "active" => /\ mgr[i].epoch <= lease.epoch
                                      /\ mgr[i].epoch = lease.epoch => lease.holder \in {i, NoHolder}

\* The active instance has the metadata of the cluster: everything in the last
\* snapshot that was stored while its writer held the lease, through crashes,
\* takeovers, late uploads, retention and deletions by hand.
StoredKept ==
    \A i \in Instances : AppOpen(i) /\ Check(i) /\ lease.holder = i => stored \subseteq disk[i].data

\* A takeover can find a snapshot at least as new as the one the lease names:
\* retention deletes none that it needs, not even the late retention of an
\* instance that has lost the lease.
NamedAvailable == lease.mark # NoMark => \E s \in snaps : ~Before(s.mark, lease.mark)
=============================================================================
