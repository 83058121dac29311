------------------------------- MODULE HALease -------------------------------
(***************************************************************************)
(* The lease of active-passive HA (internal/ha): a small object on a       *)
(* storage target, written with compare-and-swap, decides which instance   *)
(* of a cluster runs the background work.  Every instance runs a Manager   *)
(* (ha/manager.go) that renews the lease it holds or watches the one it    *)
(* does not hold, and a supervisor (app/ha.go) that starts the work after  *)
(* the lease was acquired and stops it after it was lost or before it is   *)
(* released.                                                               *)
(*                                                                         *)
(* Time.  No decision of the code reads an absolute time: it compares how  *)
(* long ago something happened with a TTL.  A stamp (sentAt, seenAt, ...)  *)
(* is therefore kept as its age in ticks, which saturates at Horizon, and  *)
(* cooldownUntil as the time left.  An instance has two clocks: the        *)
(* monotonic one, which may stand still while the machine is suspended,    *)
(* and the wall clock, which keeps running but which people may set.       *)
(*                                                                         *)
(* Storage.  A conditional write travels (wire), is applied when it        *)
(* arrives if its condition holds then, and the writer may have given up   *)
(* on it long before that.  Versions are the opaque ETags or hashes; every *)
(* write has distinct content, so a new version is one nobody knows.       *)
(***************************************************************************)
EXTENDS Integers, FiniteSets

CONSTANTS
    Instances,  \* the instances of the cluster (Config.InstanceID)
    NoHolder,   \* the holder of a released lease
    Versions,   \* versions the storage hands out
    NoVersion,  \* the version of an absent lease object
    TTL,        \* Config.TTL of every instance, in ticks
    Renew,      \* Config.Renew of every instance, in ticks
    Second,     \* ticks per second
    KeyID,      \* Config.KeyID of every instance
    Suspending, \* instances whose monotonic clock may stand still
    Jumps,      \* by how much a wall clock may be set forward or back
    Floors,     \* what Config.EpochFloor may return
    Horizon,    \* ages saturate here: no decision looks further back
    MaxWire,    \* bound on the pending writes on their way at once
    MaxEpoch    \* bound on the epochs explored

ASSUME LeaseConstants ==
    /\ NoHolder \notin Instances
    /\ NoVersion \notin Versions
    /\ Suspending \subseteq Instances
    /\ Jumps \subseteq Int
    /\ Floors \subseteq Nat
    /\ Second \in Nat \ {0}
    /\ Horizon \in Nat
    /\ MaxWire \in Nat
    /\ MaxEpoch \in Nat

\* ValidateTiming: the renew interval is at least a second (MinRenew) and below
\* half the TTL.
ASSUME ValidateTiming ==
    /\ TTL \in [Instances -> 1..Horizon]
    /\ Renew \in [Instances -> Nat]
    /\ \A i \in Instances : Second <= Renew[i] /\ 2 * Renew[i] < TTL[i]

VARIABLES
    store,      \* the lease object on the storage target
    wire,       \* conditional writes on their way to the storage
    role,       \* Manager.role
    lease,      \* Manager.lease
    version,    \* Manager.version
    sent,       \* age of Manager.sentAt on the monotonic clock
    sentWall,   \* age of Manager.sentWall on the wall clock
    seenVersion,\* Manager.seenVersion
    seenAge,    \* age of Manager.seenAt on the monotonic clock
    seenEpoch,  \* Manager.seenEpoch
    cooldown,   \* time left to Manager.cooldownUntil
    call,       \* the lease operation in progress (opMu is held)
    work        \* whether the supervisor runs the background work: "off" or "on"

managerVars == <<role, lease, version, sent, sentWall, seenVersion, seenAge, seenEpoch, cooldown>>
storageVars == <<store, wire>>
vars == <<storageVars, managerVars, call, work>>

-----------------------------------------------------------------------------
(* The lease object, the calls and the clocks. *)

\* ttl is written in whole seconds: int64(TTL / time.Second).
Lease(i, e) == [holder |-> i, epoch |-> e, ttl |-> TTL[i] \div Second, key |-> KeyID[i]]
NoLease == [holder |-> NoHolder, epoch |-> 0, ttl |-> 0, key |-> "none"]
Released(l) == l.holder = NoHolder
LeaseTTL(l) == l.ttl * Second

Ages == 0..Horizon
Roles == {"standby", "active"}
WriteKinds == {"renew", "acquire", "release"}
LeaseType ==
    [holder : Instances \cup {NoHolder}, epoch : Nat, ttl : Nat, key : {KeyID[i] : i \in Instances} \cup {"none"}]
VersionType == Versions \cup {NoVersion}
CallType ==
    [kind : WriteKinds \cup {"idle", "read", "floor"}, id : VersionType, expect : VersionType,
     lease : LeaseType, sent : Ages, wall : Ages, reply : {"none", "ok", "conflict"}]
WriteType ==
    [id : Versions, kind : WriteKinds, by : Instances, expect : VersionType, lease : LeaseType]

\* A call that writes nothing: a read of the lease, or the EpochFloor that
\* precedes an acquisition; or no call at all.
Asking(k, x, l, r) == [kind |-> k, id |-> NoVersion, expect |-> x, lease |-> l, sent |-> 0, wall |-> 0, reply |-> r]
Idle == Asking("idle", NoVersion, NoLease, "none")

\* deadlineLocked: how long after a successful write was sent its holder may work.
Window(i) == TTL[i] - Renew[i]

\* Mutant: a suspend that only the wall clock saw goes unnoticed.
MonotonicOnly(i, s, w) == s >= Window(i)

\* expiredLocked: the step-down deadline has passed on either clock.
ExpiredAt(i, s, w) == s >= Window(i) \/ w >= Window(i)
Expired(i) == ExpiredAt(i, sent[i], sentWall[i])

\* Manager.Check, the fencing check of every run.
Check(i) == role[i] = "active" /\ ~Expired(i)

\* Versions someone may still compare with: a new write gets another one.
InUse ==
    {store.version} \cup {w.id : w \in wire} \cup {w.expect : w \in wire}
        \cup UNION {{version[i], seenVersion[i], call[i].id, call[i].expect} : i \in Instances}

Older(a) == IF a < Horizon THEN a + 1 ELSE a
Sooner(a) == IF a > 0 THEN a - 1 ELSE a
Clamp(a) == IF a < 0 THEN 0 ELSE IF a > Horizon THEN Horizon ELSE a
Larger(a, b) == IF a >= b THEN a ELSE b

-----------------------------------------------------------------------------
(* The state of a Manager that was just created: New. *)

Init ==
    /\ store = [version |-> NoVersion, lease |-> NoLease]
    /\ wire = {}
    /\ role = [i \in Instances |-> "standby"]
    /\ lease = [i \in Instances |-> NoLease]
    /\ version = [i \in Instances |-> NoVersion]
    /\ sent = [i \in Instances |-> 0]
    /\ sentWall = [i \in Instances |-> 0]
    /\ seenVersion = [i \in Instances |-> NoVersion]
    /\ seenAge = [i \in Instances |-> 0]
    /\ seenEpoch = [i \in Instances |-> 0]
    /\ cooldown = [i \in Instances |-> 0]
    /\ call = [i \in Instances |-> Idle]
    /\ work = [i \in Instances |-> "off"]

\* stepDown: a standby again, which measures the expiry of the lease as it last
\* wrote it from the moment that write was sent, and waits a TTL.
StepDown(i, v, age) ==
    /\ role' = [role EXCEPT ![i] = "standby"]
    /\ seenVersion' = [seenVersion EXCEPT ![i] = v]
    /\ seenAge' = [seenAge EXCEPT ![i] = age]
    /\ cooldown' = [cooldown EXCEPT ![i] = TTL[i]]

\* A write on its way that can still be applied, or that its sender waits for.
Pending(w) == w.expect = store.version \/ w.id = call[w.by].id

\* A conditional write leaves: ReplaceIfMatch, or CreateIfAbsent when expect is
\* NoVersion.  The clocks are read as it is sent.
Send(i, kind, expect, l) ==
    LET v == CHOOSE x \in Versions : x \notin InUse IN
        /\ Versions \ InUse # {} /\ Cardinality({w \in wire : Pending(w)}) < MaxWire
        /\ wire' = wire \cup {[id |-> v, kind |-> kind, by |-> i, expect |-> expect, lease |-> l]}
        /\ call' = [call EXCEPT ![i] = [kind |-> kind, id |-> v, expect |-> expect, lease |-> l,
                                        sent |-> 0, wall |-> 0, reply |-> "none"]]
        /\ store' = store

Return(i) == call' = [call EXCEPT ![i] = Idle]

-----------------------------------------------------------------------------
(* renew: by Run every renew interval, and at once by Confirm, RecordSnapshot
   and the fence of a run that is about to complete. *)

RenewExpired(i) ==
    /\ call[i].kind = "idle" /\ role[i] = "active"
    /\ Expired(i)
    /\ StepDown(i, version[i], sent[i])
    /\ UNCHANGED <<storageVars, lease, version, sent, sentWall, seenEpoch, call, work>>

RenewSend(i) ==
    /\ call[i].kind = "idle" /\ role[i] = "active"
    /\ ~Expired(i)
    /\ Send(i, "renew", version[i], lease[i])
    /\ UNCHANGED <<managerVars, work>>

\* Mutant: the lease counts from the answer, not from the sending.
RenewOkFromAnswer(i) ==
    /\ call[i].kind = "renew" /\ call[i].reply = "ok"
    /\ lease' = [lease EXCEPT ![i] = call[i].lease]
    /\ version' = [version EXCEPT ![i] = call[i].id]
    /\ sent' = [sent EXCEPT ![i] = 0]
    /\ sentWall' = [sentWall EXCEPT ![i] = 0]
    /\ Return(i)
    /\ UNCHANGED <<storageVars, role, seenVersion, seenAge, seenEpoch, cooldown, work>>

\* The write was sent at the age the call has now.
RenewOk(i) ==
    /\ call[i].kind = "renew" /\ call[i].reply = "ok"
    /\ lease' = [lease EXCEPT ![i] = call[i].lease]
    /\ version' = [version EXCEPT ![i] = call[i].id]
    /\ sent' = [sent EXCEPT ![i] = call[i].sent]
    /\ sentWall' = [sentWall EXCEPT ![i] = call[i].wall]
    /\ Return(i)
    /\ UNCHANGED <<storageVars, role, seenVersion, seenAge, seenEpoch, cooldown, work>>

RenewConflict(i) ==
    /\ call[i].kind = "renew" /\ call[i].reply = "conflict"
    /\ StepDown(i, version[i], sent[i])
    /\ Return(i)
    /\ UNCHANGED <<storageVars, lease, version, sent, sentWall, seenEpoch, work>>

\* An error or a timeout, whatever became of the write: another attempt follows
\* unless the deadline has passed.
RenewError(i) ==
    /\ call[i].kind = "renew"
    /\ Return(i)
    /\ \/ /\ Expired(i)
          /\ StepDown(i, version[i], sent[i])
          /\ UNCHANGED <<lease, version, sent, sentWall, seenEpoch>>
       \/ /\ ~Expired(i)
          /\ UNCHANGED managerVars
    /\ UNCHANGED <<storageVars, work>>

-----------------------------------------------------------------------------
(* observe: a standby reads the lease. *)

ReadSend(i) ==
    /\ call[i].kind = "idle" /\ role[i] = "standby"
    /\ call' = [call EXCEPT ![i] = Asking("read", NoVersion, NoLease, "none")]
    /\ UNCHANGED <<storageVars, managerVars, work>>

\* No lease object: it is created, unless this instance gave it up lately.
ObserveAbsent(i) ==
    /\ call[i].kind = "read" /\ call[i].reply = "ok" /\ call[i].expect = NoVersion
    /\ seenVersion' = [seenVersion EXCEPT ![i] = NoVersion]
    /\ call' = [call EXCEPT ![i] =
                  IF cooldown[i] > 0 THEN Idle
                  ELSE Asking("floor", NoVersion, Lease(i, seenEpoch[i] + 1), "none")]
    /\ UNCHANGED <<storageVars, role, lease, version, sent, sentWall, seenAge, seenEpoch, cooldown, work>>

\* A lease written with another secret key is left alone.
ObserveForeign(i) ==
    /\ call[i].kind = "read" /\ call[i].reply = "ok" /\ call[i].expect # NoVersion
    /\ call[i].lease.key # KeyID[i]
    /\ Return(i)
    /\ UNCHANGED <<storageVars, managerVars, work>>

\* The observation is stamped when the read returns.
SeenSince(i) == IF call[i].expect # seenVersion[i] THEN 0 ELSE seenAge[i]

\* A lease expires when this instance has seen the same version for its own TTL
\* and for the holder's, or when it was released.
LeaseExpired(i) ==
    \/ Released(call[i].lease)
    \/ SeenSince(i) >= Larger(TTL[i], LeaseTTL(call[i].lease))

\* Mutant: whoever waits long enough takes the lease, whatever its secret key.
ObserveAnyKey(i) ==
    /\ call[i].kind = "read" /\ call[i].reply = "ok" /\ call[i].expect # NoVersion
    /\ seenVersion' = [seenVersion EXCEPT ![i] = call[i].expect]
    /\ seenAge' = [seenAge EXCEPT ![i] = SeenSince(i)]
    /\ seenEpoch' = [seenEpoch EXCEPT ![i] = Larger(seenEpoch[i], call[i].lease.epoch)]
    /\ call' = [call EXCEPT ![i] =
                  IF cooldown[i] > 0 \/ ~LeaseExpired(i) THEN Idle
                  ELSE Asking("floor", call[i].expect, Lease(i, seenEpoch'[i] + 1), "none")]
    /\ UNCHANGED <<storageVars, role, lease, version, sent, sentWall, cooldown, work>>

Observe(i) ==
    /\ call[i].kind = "read" /\ call[i].reply = "ok" /\ call[i].expect # NoVersion
    /\ call[i].lease.key = KeyID[i]
    /\ seenVersion' = [seenVersion EXCEPT ![i] = call[i].expect]
    /\ seenAge' = [seenAge EXCEPT ![i] = SeenSince(i)]
    /\ seenEpoch' = [seenEpoch EXCEPT ![i] = Larger(seenEpoch[i], call[i].lease.epoch)]
    /\ call' = [call EXCEPT ![i] =
                  IF cooldown[i] > 0 \/ ~LeaseExpired(i) THEN Idle
                  ELSE Asking("floor", call[i].expect, Lease(i, seenEpoch'[i] + 1), "none")]
    /\ UNCHANGED <<storageVars, role, lease, version, sent, sentWall, cooldown, work>>

\* A read, an EpochFloor or an acquisition that fails or times out: the next
\* step reads again.
ObserveError(i) ==
    /\ call[i].kind \in {"read", "floor", "acquire"}
    /\ Return(i)
    /\ UNCHANGED <<storageVars, managerVars, work>>

-----------------------------------------------------------------------------
(* acquire: after EpochFloor answered. *)

AcquireSend(i) ==
    /\ call[i].kind = "floor"
    /\ \E floor \in Floors :
         LET epoch == Larger(call[i].lease.epoch, floor + 1) IN
         /\ epoch <= MaxEpoch
         /\ Send(i, "acquire", call[i].expect, Lease(i, epoch))
    /\ UNCHANGED <<managerVars, work>>

AcquireOk(i) ==
    /\ call[i].kind = "acquire" /\ call[i].reply = "ok"
    /\ role' = [role EXCEPT ![i] = "active"]
    /\ lease' = [lease EXCEPT ![i] = call[i].lease]
    /\ version' = [version EXCEPT ![i] = call[i].id]
    /\ sent' = [sent EXCEPT ![i] = call[i].sent]
    /\ sentWall' = [sentWall EXCEPT ![i] = call[i].wall]
    /\ seenVersion' = [seenVersion EXCEPT ![i] = call[i].id]
    /\ seenAge' = [seenAge EXCEPT ![i] = call[i].sent]
    /\ seenEpoch' = [seenEpoch EXCEPT ![i] = call[i].lease.epoch]
    /\ Return(i)
    /\ UNCHANGED <<storageVars, cooldown, work>>

\* Another instance was faster, or the holder renewed.
AcquireConflict(i) ==
    /\ call[i].kind = "acquire" /\ call[i].reply = "conflict"
    /\ Return(i)
    /\ UNCHANGED <<storageVars, managerVars, work>>

-----------------------------------------------------------------------------
(* The supervisor. *)

\* serveStandby, takeOver, serveActive: the role change is noticed, the metadata
\* handed over and the work started (HAFailover looks inside).
TakeOver(i) ==
    /\ work[i] = "off" /\ role[i] = "active" /\ call[i].kind # "release"
    /\ work' = [work EXCEPT ![i] = "on"]
    /\ UNCHANGED <<storageVars, managerVars, call>>

\* loseLease: the runs are stopped after the role was lost.
LoseLease(i) ==
    /\ work[i] = "on" /\ role[i] # "active"
    /\ work' = [work EXCEPT ![i] = "off"]
    /\ UNCHANGED <<storageVars, managerVars, call>>

\* Mutant: the lease is given up before the work has stopped.
ReleaseWhileWorking(i) ==
    /\ call[i].kind = "idle" /\ role[i] = "active"
    /\ work[i] = "on"
    /\ Send(i, "release", version[i], [lease[i] EXCEPT !.holder = NoHolder])
    /\ UNCHANGED <<managerVars, work>>

\* shutdownActive: Release comes after the work has stopped. After a takeover that
\* failed, or was lost sight of, StepDown(release) comes before the work has begun.
ReleaseSend(i) ==
    /\ call[i].kind = "idle" /\ role[i] = "active"
    /\ work' = [work EXCEPT ![i] = "off"]
    /\ Send(i, "release", version[i], [lease[i] EXCEPT !.holder = NoHolder])
    /\ UNCHANGED managerVars

\* The release was answered: the released lease is the one last written.
ReleaseOk(i) ==
    /\ call[i].kind = "release" /\ call[i].reply = "ok"
    /\ lease' = [lease EXCEPT ![i] = call[i].lease]
    /\ version' = [version EXCEPT ![i] = call[i].id]
    /\ sent' = [sent EXCEPT ![i] = 0]
    /\ sentWall' = [sentWall EXCEPT ![i] = 0]
    /\ StepDown(i, call[i].id, 0)
    /\ Return(i)
    /\ UNCHANGED <<storageVars, seenEpoch, work>>

\* The release failed or was not answered: the instance steps down all the same.
ReleaseError(i) ==
    /\ call[i].kind = "release"
    /\ StepDown(i, version[i], sent[i])
    /\ Return(i)
    /\ UNCHANGED <<storageVars, lease, version, sent, sentWall, seenEpoch, work>>

\* The process dies; what starts in its place knows nothing.
Crash(i) ==
    /\ role' = [role EXCEPT ![i] = "standby"]
    /\ lease' = [lease EXCEPT ![i] = NoLease]
    /\ version' = [version EXCEPT ![i] = NoVersion]
    /\ sent' = [sent EXCEPT ![i] = 0]
    /\ sentWall' = [sentWall EXCEPT ![i] = 0]
    /\ seenVersion' = [seenVersion EXCEPT ![i] = NoVersion]
    /\ seenAge' = [seenAge EXCEPT ![i] = 0]
    /\ seenEpoch' = [seenEpoch EXCEPT ![i] = 0]
    /\ cooldown' = [cooldown EXCEPT ![i] = 0]
    /\ work' = [work EXCEPT ![i] = "off"]
    /\ Return(i)
    /\ UNCHANGED storageVars

-----------------------------------------------------------------------------
(* The storage. *)

\* The answer reaches the call that still waits for it.
Answer(w, r) ==
    call' = [i \in Instances |->
               IF call[i].id = w.id /\ call[i].reply = "none" THEN [call[i] EXCEPT !.reply = r] ELSE call[i]]

ServeRead(i) ==
    /\ call[i].kind = "read" /\ call[i].reply = "none"
    /\ call' = [call EXCEPT ![i] = Asking("read", store.version, store.lease, "ok")]
    /\ UNCHANGED <<storageVars, managerVars, work>>

Apply(w) ==
    /\ w.expect = store.version
    /\ store' = [version |-> w.id, lease |-> w.lease]
    /\ wire' = wire \ {w}
    /\ Answer(w, "ok")
    /\ UNCHANGED <<managerVars, work>>

\* The condition does not hold (412), or another conditional write is on its
\* way (409): ErrPreconditionFailed.
Refuse(w) ==
    /\ w.expect # store.version \/ \E x \in wire \ {w} : x.expect = w.expect
    /\ wire' = wire \ {w}
    /\ Answer(w, "conflict")
    /\ UNCHANGED <<store, managerVars, work>>

\* The request never arrives.
Lose(w) ==
    /\ wire' = wire \ {w}
    /\ UNCHANGED <<store, managerVars, call, work>>

-----------------------------------------------------------------------------
(* Time. *)

\* A moment on the monotonic clock of i, a tick later.
Mono(i, suspended, a) == IF i \in suspended THEN a ELSE Older(a)

AgedCall(i, suspended) ==
    IF call[i].kind \in WriteKinds
      THEN [call[i] EXCEPT !.sent = Mono(i, suspended, @), !.wall = Older(@)]
      ELSE call[i]

\* One tick; the monotonic clocks of the suspended instances stand still.
Tick(suspended) ==
    /\ sent' = [i \in Instances |-> Mono(i, suspended, sent[i])]
    /\ seenAge' = [i \in Instances |-> Mono(i, suspended, seenAge[i])]
    /\ cooldown' = [i \in Instances |-> IF i \in suspended THEN cooldown[i] ELSE Sooner(cooldown[i])]
    /\ sentWall' = [i \in Instances |-> Older(sentWall[i])]
    /\ call' = [i \in Instances |-> AgedCall(i, suspended)]
    /\ UNCHANGED <<storageVars, role, lease, version, seenVersion, seenEpoch, work>>

\* Someone sets a wall clock.  An instance that is ever suspended must not set
\* it back: then neither of its clocks would count the time.
SetWall(i, d) ==
    /\ i \in Suspending => d >= 0
    /\ sentWall' = [sentWall EXCEPT ![i] = Clamp(@ + d)]
    /\ call' = [call EXCEPT ![i] = IF call[i].kind \in WriteKinds
                                      THEN [call[i] EXCEPT !.wall = Clamp(call[i].wall + d)] ELSE call[i]]
    /\ UNCHANGED <<storageVars, role, lease, version, sent, seenVersion, seenAge, seenEpoch, cooldown, work>>

-----------------------------------------------------------------------------
ManagerStep(i) ==
    \/ RenewExpired(i) \/ RenewSend(i) \/ RenewOk(i) \/ RenewConflict(i) \/ RenewError(i)
    \/ ReadSend(i) \/ ObserveAbsent(i) \/ ObserveForeign(i) \/ Observe(i) \/ ObserveError(i)
    \/ AcquireSend(i) \/ AcquireOk(i) \/ AcquireConflict(i)
    \/ ReleaseOk(i) \/ ReleaseError(i)

SupervisorStep(i) ==
    TakeOver(i) \/ LoseLease(i) \/ ReleaseSend(i) \/ Crash(i)

StorageStep ==
    \/ \E i \in Instances : ServeRead(i)
    \/ \E w \in wire : Apply(w) \/ Refuse(w) \/ Lose(w)

ClockStep ==
    \/ \E s \in SUBSET Suspending : Tick(s)
    \/ \E i \in Instances, d \in Jumps : SetWall(i, d)

Next ==
    \/ \E i \in Instances : ManagerStep(i) \/ SupervisorStep(i)
    \/ StorageStep
    \/ ClockStep

Spec == Init /\ [][Next]_vars

-----------------------------------------------------------------------------
(* Properties. *)

TypeOK ==
    /\ store \in [version : VersionType, lease : LeaseType]
    /\ wire \subseteq WriteType
    /\ role \in [Instances -> Roles]
    /\ lease \in [Instances -> LeaseType]
    /\ version \in [Instances -> VersionType]
    /\ sent \in [Instances -> Ages]
    /\ sentWall \in [Instances -> Ages]
    /\ seenVersion \in [Instances -> VersionType]
    /\ seenAge \in [Instances -> Ages]
    /\ seenEpoch \in [Instances -> Nat]
    /\ cooldown \in [Instances -> Ages]
    /\ call \in [Instances -> CallType]
    /\ work \in [Instances -> {"off", "on"}]

\* A run of instance i may go on: the App works and the fencing check passes.
Working(i) == work[i] = "on" /\ Check(i)

\* At no time do two instances both run the background work with a fencing check
\* that passes: not during late or lost answers, suspends, set wall clocks,
\* releases, crashes or takeovers.
AtMostOneWorks == \A i, j \in Instances : Working(i) /\ Working(j) => i = j

\* The lease never passes to an instance with another secret key, which could
\* read neither the snapshots nor the credentials of its predecessor.
KeyKept == [][store.version # NoVersion => store'.lease.key = store.lease.key]_vars

-----------------------------------------------------------------------------
(* The inductive invariant behind AtMostOneWorks and FencingTokenSpec. *)

Writing(i) == call[i].kind \in WriteKinds
Succeeded(i) == call[i].kind \in {"renew", "acquire"} /\ call[i].reply = "ok"

\* The age of a moment on the clock of i that counts all the time that passes.
TrueAge(i, s, w) == IF i \in Suspending THEN w ELSE s

\* What i holds, or learns to hold once it handles the answer to its call, is
\* younger than the step-down deadline.
Holds(i) ==
    role[i] = "active" /\ call[i].kind # "release" /\ TrueAge(i, sent[i], sentWall[i]) < Window(i)
WillHold(i) == Succeeded(i) /\ TrueAge(i, call[i].sent, call[i].wall) < Window(i)

\* The version of a write that was not applied is known to nobody else.
WritesFresh ==
    \A w \in wire :
        /\ w.id # store.version /\ w.id # NoVersion
        /\ \A x \in wire : x.expect # w.id /\ (x.id = w.id => x = w)
        /\ \A i \in Instances :
             /\ w.id \notin {version[i], seenVersion[i], call[i].expect}
             /\ call[i].id = w.id =>
                  /\ w.by = i /\ w.kind = call[i].kind /\ w.lease = call[i].lease
                  /\ w.expect = call[i].expect /\ call[i].reply = "none"

\* Who writes what: only the holder renews and releases, only a standby reads
\* and acquires, and the work has stopped before a release.
LeaseShape(l) == l.holder \in Instances => l.ttl = TTL[l.holder] \div Second
Shapes ==
    /\ LeaseShape(store.lease)
    /\ store.version = NoVersion => store.lease = NoLease
    /\ \A w \in wire :
         /\ LeaseShape(w.lease)
         /\ w.lease.holder = IF w.kind = "release" THEN NoHolder ELSE w.by
    /\ \A i \in Instances :
         /\ role[i] = "active" => lease[i].holder = i /\ LeaseShape(lease[i]) /\ version[i] # NoVersion
         /\ Writing(i) => call[i].lease.holder = IF call[i].kind = "release" THEN NoHolder ELSE i
         /\ Writing(i) => LeaseShape(call[i].lease) /\ call[i].id \in Versions
         /\ call[i].kind \in {"renew", "release"} => role[i] = "active"
         /\ call[i].kind \in {"read", "floor", "acquire"} => role[i] = "standby"
         /\ call[i].kind = "release" => work[i] = "off"

\* What an instance knows about the version in the storage is what is there.
Knowledge ==
    /\ \A i \in Instances :
         /\ role[i] = "active" /\ version[i] = store.version =>
              store.lease.holder = i /\ store.lease.epoch = lease[i].epoch
         /\ Writing(i) /\ call[i].reply = "ok" /\ call[i].id = store.version => store.lease = call[i].lease
         /\ call[i].kind = "read" /\ call[i].reply = "ok" /\ call[i].expect = store.version =>
              store.lease = call[i].lease
         /\ call[i].kind = "floor" /\ call[i].expect = store.version => call[i].lease.epoch > store.lease.epoch
    /\ \A w \in wire : w.expect = store.version =>
         IF w.kind = "acquire" THEN w.lease.epoch > store.lease.epoch
                               ELSE w.by = store.lease.holder /\ w.lease.epoch = store.lease.epoch

\* Nobody has watched the lease of i for longer than i has held it.
Watched ==
    \A i, j \in Instances :
        i # j /\ store.lease.holder = i /\ seenVersion[j] = store.version =>
            /\ role[i] = "active" => seenAge[j] <= TrueAge(i, sent[i], sentWall[i])
            /\ Succeeded(i) => seenAge[j] <= TrueAge(i, call[i].sent, call[i].wall)

\* The lease in the storage is the one of the instance that holds it.
Held ==
    \A i \in Instances :
        /\ Holds(i) => store.lease.holder = i /\ store.lease.epoch = lease[i].epoch
        /\ WillHold(i) => store.lease.holder = i /\ store.lease.epoch = call[i].lease.epoch

\* Once a takeover or a release of the lease in the storage is decided, no
\* instance holds it any more.
Claimed ==
    \/ \E w \in wire : w.kind # "renew" /\ w.expect = store.version
    \/ \E i \in Instances : call[i].kind = "floor" /\ call[i].expect = store.version
ClaimsExclude == Claimed => \A i \in Instances : ~Holds(i) /\ ~WillHold(i)

\* The whole invariant: from these facts about the versions instances know, the
\* writes on their way and the ages of what was seen and sent follows that a
\* takeover commits only after the check of the former holder fails.
LeaseInv == TypeOK /\ WritesFresh /\ Shapes /\ Knowledge /\ Watched /\ Held /\ ClaimsExclude

\* The instance whose fencing check passes and which is not giving the lease up.
MayUse(i) == Check(i) /\ call[i].kind # "release"
User == IF \E i \in Instances : MayUse(i) THEN CHOOSE i \in Instances : MayUse(i) ELSE NoHolder

Token == INSTANCE FencingToken
           WITH issued <- store.lease.epoch, holder <- store.lease.holder, user <- User

\* The lease implements the fencing token: a takeover commits only when the
\* check of the former holder fails already, the epoch grows with it, and no
\* check passes again under an epoch that was superseded or given back.
FencingTokenSpec == Token!Spec
=============================================================================
