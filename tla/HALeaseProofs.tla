---------------------------- MODULE HALeaseProofs ----------------------------
(***************************************************************************)
(* Proofs about HALease: the inductive invariant LeaseInv, mutual          *)
(* exclusion of the background work and the refinement of FencingToken.    *)
(* One lemma per action; under it one step per part of the invariant.      *)
(***************************************************************************)
EXTENDS HALease, TLAPS

-----------------------------------------------------------------------------
(* Arithmetic and types. *)

\* Integer division loses less than one divisor (the TTL in whole seconds).
LEMMA Division ==
    ASSUME NEW t \in Nat, NEW s \in Nat \ {0}
    PROVE  /\ t \div s \in Nat
           /\ t < (t \div s) * s + s
OBVIOUS

\* The time a holder may work without a renewal is shorter than the TTL it writes
\* into its lease, although that TTL is cut to whole seconds: the renew interval
\* is at least a second.
LEMMA WindowCovered ==
    ASSUME NEW i \in Instances
    PROVE  /\ Window(i) \in Nat /\ Window(i) > 0
           /\ Window(i) < (TTL[i] \div Second) * Second
           /\ Window(i) <= Horizon
           /\ TTL[i] \div Second \in Nat
           /\ TTL[i] \in Ages /\ TTL[i] > 0
  <1>1. TTL[i] \in Nat /\ Second \in Nat \ {0} /\ Renew[i] \in Nat
    BY LeaseConstants, ValidateTiming
  <1>2. TTL[i] < (TTL[i] \div Second) * Second + Second
    BY <1>1, Division
  <1>3. Second <= Renew[i] /\ 2 * Renew[i] < TTL[i] /\ TTL[i] <= Horizon
    BY LeaseConstants, ValidateTiming
  <1>4. (TTL[i] \div Second) * Second \in Nat /\ TTL[i] \div Second \in Nat
    BY <1>1, Division
  <1> QED BY <1>1, <1>2, <1>3, <1>4, LeaseConstants DEF Window, Ages

\* The empty call, lease and version are well typed.
LEMMA NoneTyped ==
    Idle \in CallType /\ NoLease \in LeaseType /\ NoVersion \in VersionType /\ 0 \in Ages
BY LeaseConstants DEF Idle, Asking, CallType, NoLease, LeaseType, VersionType, Ages

\* The lease that acquire writes.
LEMMA LeaseTyped ==
    ASSUME NEW i \in Instances, NEW e \in Nat
    PROVE  Lease(i, e) \in LeaseType /\ Lease(i, e).holder = i /\ Lease(i, e).epoch = e /\ LeaseShape(Lease(i, e))
BY WindowCovered, LeaseConstants DEF Lease, LeaseType, LeaseShape

\* The lease that releaseLocked writes: the held one without its holder.
LEMMA ReleaseTyped ==
    ASSUME NEW l \in LeaseType
    PROVE  /\ [l EXCEPT !.holder = NoHolder] \in LeaseType
           /\ [l EXCEPT !.holder = NoHolder].holder = NoHolder
           /\ [l EXCEPT !.holder = NoHolder].epoch = l.epoch
           /\ LeaseShape([l EXCEPT !.holder = NoHolder])
           /\ l.epoch \in Nat
BY LeaseConstants DEF LeaseType, LeaseShape

\* The fields of a call.
LEMMA CallTyped ==
    ASSUME NEW c \in CallType
    PROVE  /\ c.id \in VersionType /\ c.expect \in VersionType
           /\ c.lease \in LeaseType /\ c.lease.epoch \in Nat
           /\ c.sent \in Ages /\ c.wall \in Ages
BY DEF CallType, LeaseType

\* A call built from typed fields.
LEMMA NewCall ==
    ASSUME NEW k \in WriteKinds \cup {"idle", "read", "floor"}, NEW v \in VersionType,
           NEW x \in VersionType, NEW l \in LeaseType, NEW r \in {"none", "ok", "conflict"},
           NEW s \in Ages, NEW t \in Ages
    PROVE  [kind |-> k, id |-> v, expect |-> x, lease |-> l, sent |-> s, wall |-> t, reply |-> r] \in CallType
BY DEF CallType

\* A call that writes nothing.
LEMMA NewAsking ==
    ASSUME NEW k \in {"read", "floor"}, NEW x \in VersionType, NEW l \in LeaseType, NEW r \in {"none", "ok"}
    PROVE  Asking(k, x, l, r) \in CallType
BY NoneTyped, NewCall DEF Asking

\* A write built from typed fields.
LEMMA NewWrite ==
    ASSUME NEW k \in WriteKinds, NEW v \in Versions, NEW x \in VersionType, NEW l \in LeaseType, NEW i \in Instances
    PROVE  [id |-> v, kind |-> k, by |-> i, expect |-> x, lease |-> l] \in WriteType
BY DEF WriteType

\* The fields of a write.
LEMMA WriteTyped ==
    ASSUME NEW w \in WriteType
    PROVE  /\ w.id \in VersionType /\ w.id \in Versions /\ w.expect \in VersionType
           /\ w.by \in Instances /\ w.kind \in WriteKinds
           /\ w.lease \in LeaseType /\ w.lease.epoch \in Nat
BY DEF WriteType, LeaseType, VersionType

\* An answer changes nothing but the reply of the call.
LEMMA AnsweredCall ==
    ASSUME NEW c \in CallType, NEW r \in {"ok", "conflict"}
    PROVE  LET d == [c EXCEPT !.reply = r] IN
           /\ d \in CallType
           /\ d.kind = c.kind /\ d.id = c.id /\ d.expect = c.expect /\ d.lease = c.lease
           /\ d.sent = c.sent /\ d.wall = c.wall /\ d.reply = r
BY DEF CallType

\* Ages only grow, saturate together and keep their order.
LEMMA OlderAge ==
    ASSUME NEW a \in Ages
    PROVE  /\ Older(a) \in Ages /\ a <= Older(a)
           /\ \A b \in Ages : b <= a => Older(b) <= Older(a) /\ b <= Older(a)
           /\ Sooner(a) \in Ages
BY LeaseConstants DEF Ages, Older, Sooner

\* A tick changes nothing but the ages of a call.
LEMMA AgedCallType ==
    ASSUME NEW i, NEW s, call[i] \in CallType
    PROVE  LET c == call[i]  d == AgedCall(i, s) IN
           /\ d \in CallType
           /\ d.kind = c.kind /\ d.id = c.id /\ d.expect = c.expect /\ d.lease = c.lease /\ d.reply = c.reply
           /\ c.kind \in WriteKinds => d.sent = Mono(i, s, c.sent) /\ d.wall = Older(c.wall)
  <1>1. Mono(i, s, call[i].sent) \in Ages /\ Older(call[i].wall) \in Ages
    BY CallTyped, OlderAge DEF Mono
  <1>2. CASE call[i].kind \notin WriteKinds
    BY <1>2 DEF AgedCall
  <1>3. CASE call[i].kind \in WriteKinds
    BY <1>1, <1>3 DEF AgedCall, CallType
  <1> QED BY <1>2, <1>3

\* A set wall clock changes nothing but the wall age of a call.
LEMMA JumpedCall ==
    ASSUME NEW c \in CallType, NEW t \in Ages
    PROVE  LET d == [c EXCEPT !.wall = t] IN
           /\ d \in CallType
           /\ d.kind = c.kind /\ d.id = c.id /\ d.expect = c.expect /\ d.lease = c.lease
           /\ d.sent = c.sent /\ d.wall = t /\ d.reply = c.reply
BY DEF CallType

\* A version that is not in use is none of those anybody knows.
LEMMA FreshVersion ==
    ASSUME NEW v, v \notin InUse
    PROVE  /\ v # store.version
           /\ \A w \in wire : v # w.id /\ v # w.expect
           /\ \A i \in Instances : v \notin {version[i], seenVersion[i], call[i].id, call[i].expect}
BY DEF InUse

\* A conditional write is sent with a version nobody knows.
LEMMA SendFresh ==
    ASSUME NEW i, NEW k, NEW x, NEW l, Send(i, k, x, l)
    PROVE  \E v \in Versions :
             /\ v \notin InUse
             /\ wire' = wire \cup {[id |-> v, kind |-> k, by |-> i, expect |-> x, lease |-> l]}
             /\ call' = [call EXCEPT ![i] = [kind |-> k, id |-> v, expect |-> x, lease |-> l,
                                             sent |-> 0, wall |-> 0, reply |-> "none"]]
             /\ store' = store
  <1> DEFINE v == CHOOSE x1 \in Versions : x1 \notin InUse
  <1>1. v \in Versions /\ v \notin InUse
    BY DEF Send
  <1> QED BY <1>1 DEF Send

\* While no lease object exists nobody holds a lease.
LEMMA AbsentLease ==
    ASSUME LeaseInv, store.version = NoVersion
    PROVE  /\ store.lease.epoch = 0
           /\ \A i \in Instances : store.lease.holder # i /\ ~Holds(i) /\ ~WillHold(i)
  <1>1. store.lease.epoch = 0 /\ store.lease.holder = NoHolder
    <2>1. store.lease = NoLease
      BY DEF LeaseInv, Shapes
    <2> QED BY <2>1 DEF NoLease
  <1>2. \A i \in Instances : store.lease.holder # i
    BY <1>1, LeaseConstants
  <1>3. Held
    BY DEF LeaseInv
  <1> QED BY <1>1, <1>2, <1>3 DEF Held

\* A conditional write that is sent: what the three senders have in common.
LEMMA SentInv ==
    ASSUME LeaseInv, NEW i \in Instances, NEW k \in WriteKinds, NEW x \in VersionType, NEW l \in LeaseType,
           NEW v \in Versions, v \notin InUse,
           call[i].kind \in {"idle", "floor"},
           store' = store,
           wire' = wire \cup {[id |-> v, kind |-> k, by |-> i, expect |-> x, lease |-> l]},
           call' = [call EXCEPT ![i] = [kind |-> k, id |-> v, expect |-> x, lease |-> l,
                                        sent |-> 0, wall |-> 0, reply |-> "none"]],
           managerVars' = managerVars,
           IF k = "release" THEN work' = [work EXCEPT ![i] = "off"] /\ l.holder = NoHolder
                            ELSE work' = work /\ l.holder = i,
           LeaseShape(l),
           k \in {"renew", "release"} => role[i] = "active" /\ x = version[i] /\ l.epoch = lease[i].epoch,
           k = "acquire" => /\ role[i] = "standby" /\ call[i].kind = "floor" /\ x = call[i].expect
                            /\ l.epoch >= call[i].lease.epoch
    PROVE  LeaseInv'
  <1> DEFINE w == [id |-> v, kind |-> k, by |-> i, expect |-> x, lease |-> l]
             c == [kind |-> k, id |-> v, expect |-> x, lease |-> l, sent |-> 0, wall |-> 0, reply |-> "none"]
  <1>0. /\ c \in CallType /\ w \in WriteType
        /\ call'[i] = c /\ \A j \in Instances : j # i => call'[j] = call[j]
    BY NewCall, NewWrite, NoneTyped DEF LeaseInv, TypeOK, VersionType
  <1>1. TypeOK'
    BY <1>0 DEF LeaseInv, TypeOK, managerVars
  <1>w. /\ k = "release" => work'[i] = "off"
        /\ \A j \in Instances : j # i => work'[j] = work[j]
    BY DEF LeaseInv, TypeOK
  <1>2. /\ v # store.version /\ v # NoVersion /\ v # x
        /\ \A y \in wire : v # y.id /\ v # y.expect
        /\ \A j \in Instances : v \notin {version[j], seenVersion[j], call[j].id, call[j].expect}
    <2>1. x = version[i] \/ x = call[i].expect
      BY DEF WriteKinds
    <2> QED BY <2>1, FreshVersion, LeaseConstants
  <1>3. WritesFresh'
    <2>1. \A y \in wire' : y = w \/ y \in wire
      OBVIOUS
    <2>2. w.id = v /\ w.expect = x /\ w.by = i /\ w.kind = k /\ w.lease = l
      OBVIOUS
    <2>3. c.id = v /\ c.expect = x /\ c.kind = k /\ c.lease = l /\ c.reply = "none"
      OBVIOUS
    <2>4. version' = version /\ seenVersion' = seenVersion
      BY DEF managerVars
    <2>5. \A y \in wire : y.id # x
      BY DEF LeaseInv, WritesFresh, WriteKinds
    <2> HIDE DEF w, c
    <2> QED BY <1>0, <1>2, <2>1, <2>2, <2>3, <2>4, <2>5 DEF LeaseInv, WritesFresh
  <1>4. Shapes'
    BY <1>0, <1>w DEF LeaseInv, Shapes, managerVars, Writing, WriteKinds
  <1>5. x = store.version => IF k = "acquire" THEN l.epoch > store.lease.epoch
                             ELSE store.lease.holder = i /\ l.epoch = store.lease.epoch
    <2>1. store.lease.epoch \in Nat /\ l.epoch \in Nat /\ call[i].lease.epoch \in Nat
      BY ReleaseTyped, CallTyped DEF LeaseInv, TypeOK
    <2>2. CASE k = "acquire"
      BY <2>1, <2>2 DEF LeaseInv, Knowledge
    <2>3. CASE k # "acquire"
      BY <2>3 DEF LeaseInv, Knowledge, WriteKinds
    <2> QED BY <2>2, <2>3
  <1>6. Knowledge'
    BY <1>0, <1>5 DEF LeaseInv, Knowledge, managerVars, Writing, WriteKinds
  <1>7. Watched'
    BY <1>0 DEF LeaseInv, Watched, managerVars, Succeeded, TrueAge
  <1>8. \A j \in Instances : (Holds(j)' => Holds(j)) /\ (WillHold(j)' => WillHold(j))
                             /\ (j = i /\ k # "renew" => ~Holds(j)')
    BY <1>0 DEF Holds, WillHold, Succeeded, TrueAge, managerVars, Window, WriteKinds
  <1>9. Held'
    BY <1>0, <1>8 DEF LeaseInv, Held, managerVars, WillHold, Succeeded
  <1>10. ClaimsExclude'
    <2>1. CASE Claimed
      BY <2>1, <1>8 DEF LeaseInv, ClaimsExclude
    <2>2. CASE ~Claimed /\ Claimed'
      <3>1. k = "release" /\ x = store.version
        BY <2>2, <1>0 DEF Claimed, WriteKinds
      <3>2. store.lease.holder = i
        BY <3>1, <1>5
      <3>3. \A j \in Instances : Holds(j) \/ WillHold(j) => j = i
        BY <3>2 DEF LeaseInv, Held
      <3>4. ~WillHold(i)
        BY DEF WillHold, Succeeded
      <3> QED BY <3>1, <3>3, <3>4, <1>8 DEF ClaimsExclude
    <2> QED BY <2>1, <2>2 DEF ClaimsExclude
  <1> QED BY <1>1, <1>3, <1>4, <1>6, <1>7, <1>9, <1>10 DEF LeaseInv

\* A renewal is sent.
LEMMA RenewSendInv ==
    ASSUME LeaseInv, NEW i \in Instances, RenewSend(i)
    PROVE  LeaseInv'
  <1>1. PICK v \in Versions :
          /\ v \notin InUse
          /\ wire' = wire \cup {[id |-> v, kind |-> "renew", by |-> i, expect |-> version[i], lease |-> lease[i]]}
          /\ call' = [call EXCEPT ![i] = [kind |-> "renew", id |-> v, expect |-> version[i], lease |-> lease[i],
                                          sent |-> 0, wall |-> 0, reply |-> "none"]]
          /\ store' = store
    BY SendFresh DEF RenewSend
  <1>2. version[i] \in VersionType /\ lease[i] \in LeaseType
    BY DEF LeaseInv, TypeOK
  <1>3. lease[i].holder = i /\ LeaseShape(lease[i]) /\ role[i] = "active" /\ call[i].kind = "idle"
    BY DEF RenewSend, LeaseInv, Shapes
  <1>4. managerVars' = managerVars /\ work' = work
    BY DEF RenewSend, managerVars
  <1>5. "renew" \in WriteKinds
    BY DEF WriteKinds
  <1> DEFINE l == lease[i]
  <1>6. l \in LeaseType /\ l.holder = i /\ LeaseShape(l) /\ l.epoch = lease[i].epoch
    BY <1>2, <1>3
  <1>7. /\ wire' = wire \cup {[id |-> v, kind |-> "renew", by |-> i, expect |-> version[i], lease |-> l]}
        /\ call' = [call EXCEPT ![i] = [kind |-> "renew", id |-> v, expect |-> version[i], lease |-> l,
                                        sent |-> 0, wall |-> 0, reply |-> "none"]]
        /\ v \notin InUse /\ store' = store /\ version[i] \in VersionType
    BY <1>1, <1>2
  <1> HIDE DEF l
  <1> QED BY <1>3, <1>4, <1>5, <1>6, <1>7, SentInv

\* A release is sent.
LEMMA ReleaseSendInv ==
    ASSUME LeaseInv, NEW i \in Instances, ReleaseSend(i)
    PROVE  LeaseInv'
  <1> DEFINE l == [lease[i] EXCEPT !.holder = NoHolder]
  <1>1. PICK v \in Versions :
          /\ v \notin InUse
          /\ wire' = wire \cup {[id |-> v, kind |-> "release", by |-> i, expect |-> version[i], lease |-> l]}
          /\ call' = [call EXCEPT ![i] = [kind |-> "release", id |-> v, expect |-> version[i], lease |-> l,
                                          sent |-> 0, wall |-> 0, reply |-> "none"]]
          /\ store' = store
    BY SendFresh DEF ReleaseSend
  <1>2. version[i] \in VersionType /\ l \in LeaseType /\ l.holder = NoHolder /\ l.epoch = lease[i].epoch /\ LeaseShape(l)
    BY ReleaseTyped DEF LeaseInv, TypeOK
  <1>3. role[i] = "active" /\ call[i].kind = "idle"
    BY DEF ReleaseSend
  <1>4. managerVars' = managerVars /\ work' = [work EXCEPT ![i] = "off"]
    BY DEF ReleaseSend, managerVars, LeaseInv, TypeOK
  <1>5. "release" \in WriteKinds
    BY DEF WriteKinds
  <1> HIDE DEF l
  <1> QED BY <1>1, <1>2, <1>3, <1>4, <1>5, SentInv

\* An acquisition is sent.
LEMMA AcquireSendInv ==
    ASSUME LeaseInv, NEW i \in Instances, AcquireSend(i)
    PROVE  LeaseInv'
  <1>1. PICK floor \in Floors :
          Send(i, "acquire", call[i].expect, Lease(i, Larger(call[i].lease.epoch, floor + 1)))
    BY DEF AcquireSend
  <1> DEFINE e == Larger(call[i].lease.epoch, floor + 1)
             l == Lease(i, e)
  <1>2. e \in Nat /\ e >= call[i].lease.epoch
    BY CallTyped, LeaseConstants DEF LeaseInv, TypeOK, Larger
  <1>3. PICK v \in Versions :
          /\ v \notin InUse
          /\ wire' = wire \cup {[id |-> v, kind |-> "acquire", by |-> i, expect |-> call[i].expect, lease |-> l]}
          /\ call' = [call EXCEPT ![i] = [kind |-> "acquire", id |-> v, expect |-> call[i].expect, lease |-> l,
                                          sent |-> 0, wall |-> 0, reply |-> "none"]]
          /\ store' = store
    BY <1>1, SendFresh
  <1>4. call[i].expect \in VersionType
    BY CallTyped DEF LeaseInv, TypeOK
  <1>5. l \in LeaseType /\ l.holder = i /\ l.epoch = e /\ LeaseShape(l)
    BY <1>2, LeaseTyped
  <1>6. call[i].kind = "floor" /\ role[i] = "standby" /\ managerVars' = managerVars /\ work' = work
    BY DEF AcquireSend, managerVars, LeaseInv, Shapes
  <1>7. "acquire" \in WriteKinds
    BY DEF WriteKinds
  <1>8. l.epoch >= call[i].lease.epoch
    BY <1>2, <1>5
  <1> HIDE DEF l
  <1> QED BY <1>3, <1>4, <1>5, <1>6, <1>7, <1>8, SentInv

\* The action RenewExpired preserves the inductive invariant.
LEMMA RenewExpiredInv ==
    ASSUME LeaseInv, NEW i \in Instances, RenewExpired(i)
    PROVE  LeaseInv'
  <1>1. TypeOK'
    BY WindowCovered DEF LeaseInv, RenewExpired, managerVars, storageVars, StepDown, TypeOK, Roles
  <1>2. WritesFresh'
    BY DEF LeaseInv, RenewExpired, managerVars, storageVars, StepDown, TypeOK, WritesFresh
  <1>3. Shapes'
    BY DEF LeaseInv, RenewExpired, managerVars, storageVars, StepDown, TypeOK, WritesFresh, Shapes, Writing, WriteKinds
  <1>4. Knowledge'
    BY DEF LeaseInv, RenewExpired, managerVars, storageVars, StepDown, TypeOK, WritesFresh, Shapes, Knowledge, Writing, WriteKinds
  <1>5. Watched'
    BY DEF LeaseInv, RenewExpired, managerVars, storageVars, StepDown, TypeOK, WritesFresh, Shapes, Knowledge, Watched, Succeeded, TrueAge, Writing, WriteKinds
  <1>6. Held'
    BY DEF LeaseInv, RenewExpired, managerVars, storageVars, StepDown, TypeOK, WritesFresh, Shapes, Knowledge, Held, Holds, WillHold, Succeeded, TrueAge
  <1>7. ClaimsExclude'
    BY DEF LeaseInv, RenewExpired, managerVars, storageVars, StepDown, TypeOK, WritesFresh, Shapes, Knowledge, ClaimsExclude, Claimed, Holds, WillHold, Succeeded, TrueAge
  <1> QED BY <1>1, <1>2, <1>3, <1>4, <1>5, <1>6, <1>7 DEF LeaseInv

\* The action RenewOk preserves the inductive invariant.
LEMMA RenewOkInv ==
    ASSUME LeaseInv, NEW i \in Instances, RenewOk(i)
    PROVE  LeaseInv'
  <1>1. TypeOK'
    BY NoneTyped, CallTyped DEF LeaseInv, RenewOk, managerVars, storageVars, Return, TypeOK, Roles
  <1>2. WritesFresh'
    BY DEF LeaseInv, RenewOk, managerVars, storageVars, Return, Idle, Asking, TypeOK, WritesFresh
  <1>3. Shapes'
    BY LeaseConstants DEF LeaseInv, RenewOk, managerVars, storageVars, Return, Idle, Asking, TypeOK, WritesFresh, Shapes, Writing, WriteKinds
  <1>4. Knowledge'
    BY DEF LeaseInv, RenewOk, managerVars, storageVars, Return, Idle, Asking, TypeOK, WritesFresh, Shapes, Knowledge, Writing, WriteKinds
  <1>5. Watched'
    BY DEF LeaseInv, RenewOk, managerVars, storageVars, Return, Idle, Asking, TypeOK, WritesFresh, Shapes, Knowledge, Watched, Succeeded, TrueAge, Writing, WriteKinds
  <1>6. Held'
    BY DEF LeaseInv, RenewOk, managerVars, storageVars, Return, Idle, Asking, TypeOK, WritesFresh, Shapes, Knowledge, Held, Holds, WillHold, Succeeded, TrueAge
  <1>7. ClaimsExclude'
    BY DEF LeaseInv, RenewOk, managerVars, storageVars, Return, Idle, Asking, TypeOK, WritesFresh, Shapes, Knowledge, ClaimsExclude, Claimed, Holds, WillHold, Succeeded, TrueAge
  <1> QED BY <1>1, <1>2, <1>3, <1>4, <1>5, <1>6, <1>7 DEF LeaseInv

\* The action RenewConflict preserves the inductive invariant.
LEMMA RenewConflictInv ==
    ASSUME LeaseInv, NEW i \in Instances, RenewConflict(i)
    PROVE  LeaseInv'
  <1>1. TypeOK'
    BY NoneTyped, WindowCovered DEF LeaseInv, RenewConflict, managerVars, storageVars, StepDown, Return, TypeOK, Roles
  <1>2. WritesFresh'
    BY DEF LeaseInv, RenewConflict, managerVars, storageVars, StepDown, Return, Idle, Asking, TypeOK, WritesFresh
  <1>3. Shapes'
    BY DEF LeaseInv, RenewConflict, managerVars, storageVars, StepDown, Return, Idle, Asking, TypeOK, WritesFresh, Shapes, Writing, WriteKinds
  <1>4. Knowledge'
    BY DEF LeaseInv, RenewConflict, managerVars, storageVars, StepDown, Return, Idle, Asking, TypeOK, WritesFresh, Shapes, Knowledge, Writing, WriteKinds
  <1>5. Watched'
    BY DEF LeaseInv, RenewConflict, managerVars, storageVars, StepDown, Return, Idle, Asking, TypeOK, WritesFresh, Shapes, Knowledge, Watched, Succeeded, TrueAge, Writing, WriteKinds
  <1>6. Held'
    BY DEF LeaseInv, RenewConflict, managerVars, storageVars, StepDown, Return, Idle, Asking, TypeOK, WritesFresh, Shapes, Knowledge, Held, Holds, WillHold, Succeeded, TrueAge
  <1>7. ClaimsExclude'
    BY DEF LeaseInv, RenewConflict, managerVars, storageVars, StepDown, Return, Idle, Asking, TypeOK, WritesFresh, Shapes, Knowledge, ClaimsExclude, Claimed, Holds, WillHold, Succeeded, TrueAge
  <1> QED BY <1>1, <1>2, <1>3, <1>4, <1>5, <1>6, <1>7 DEF LeaseInv

\* The action RenewError preserves the inductive invariant.
LEMMA RenewErrorInv ==
    ASSUME LeaseInv, NEW i \in Instances, RenewError(i)
    PROVE  LeaseInv'
  <1>1. TypeOK'
    BY NoneTyped, WindowCovered DEF LeaseInv, RenewError, managerVars, storageVars, StepDown, Return, TypeOK, Roles
  <1>2. WritesFresh'
    BY DEF LeaseInv, RenewError, managerVars, storageVars, StepDown, Return, Idle, Asking, TypeOK, WritesFresh
  <1>3. Shapes'
    BY DEF LeaseInv, RenewError, managerVars, storageVars, StepDown, Return, Idle, Asking, TypeOK, WritesFresh, Shapes, Writing, WriteKinds
  <1>4. Knowledge'
    BY DEF LeaseInv, RenewError, managerVars, storageVars, StepDown, Return, Idle, Asking, TypeOK, WritesFresh, Shapes, Knowledge, Writing, WriteKinds
  <1>5. Watched'
    BY DEF LeaseInv, RenewError, managerVars, storageVars, StepDown, Return, Idle, Asking, TypeOK, WritesFresh, Shapes, Knowledge, Watched, Succeeded, TrueAge, Writing, WriteKinds
  <1>6. Held'
    BY DEF LeaseInv, RenewError, managerVars, storageVars, StepDown, Return, Idle, Asking, TypeOK, WritesFresh, Shapes, Knowledge, Held, Holds, WillHold, Succeeded, TrueAge
  <1>7. ClaimsExclude'
    BY DEF LeaseInv, RenewError, managerVars, storageVars, StepDown, Return, Idle, Asking, TypeOK, WritesFresh, Shapes, Knowledge, ClaimsExclude, Claimed, Holds, WillHold, Succeeded, TrueAge
  <1> QED BY <1>1, <1>2, <1>3, <1>4, <1>5, <1>6, <1>7 DEF LeaseInv

\* The action ReadSend preserves the inductive invariant.
LEMMA ReadSendInv ==
    ASSUME LeaseInv, NEW i \in Instances, ReadSend(i)
    PROVE  LeaseInv'
  <1>1. TypeOK'
    BY NoneTyped, NewAsking DEF LeaseInv, ReadSend, managerVars, storageVars, TypeOK, Roles
  <1>2. WritesFresh'
    BY DEF LeaseInv, ReadSend, managerVars, storageVars, Idle, Asking, TypeOK, WritesFresh
  <1>3. Shapes'
    BY DEF LeaseInv, ReadSend, managerVars, storageVars, Idle, Asking, TypeOK, WritesFresh, Shapes, Writing, WriteKinds
  <1>4. Knowledge'
    BY DEF LeaseInv, ReadSend, managerVars, storageVars, Idle, Asking, TypeOK, WritesFresh, Shapes, Knowledge, Writing, WriteKinds
  <1>5. Watched'
    BY DEF LeaseInv, ReadSend, managerVars, storageVars, Idle, Asking, TypeOK, WritesFresh, Shapes, Knowledge, Watched, Succeeded, TrueAge, Writing, WriteKinds
  <1>6. Held'
    BY DEF LeaseInv, ReadSend, managerVars, storageVars, Idle, Asking, TypeOK, WritesFresh, Shapes, Knowledge, Held, Holds, WillHold, Succeeded, TrueAge
  <1>7. ClaimsExclude'
    BY DEF LeaseInv, ReadSend, managerVars, storageVars, Idle, Asking, TypeOK, WritesFresh, Shapes, Knowledge, ClaimsExclude, Claimed, Holds, WillHold, Succeeded, TrueAge
  <1> QED BY <1>1, <1>2, <1>3, <1>4, <1>5, <1>6, <1>7 DEF LeaseInv

\* The action ObserveAbsent preserves the inductive invariant.
LEMMA ObserveAbsentInv ==
    ASSUME LeaseInv, NEW i \in Instances, ObserveAbsent(i)
    PROVE  LeaseInv'
  <1>1. TypeOK'
    BY NoneTyped, NewAsking, LeaseTyped DEF LeaseInv, ObserveAbsent, managerVars, storageVars, TypeOK, Roles
  <1>2. WritesFresh'
    BY DEF LeaseInv, ObserveAbsent, managerVars, storageVars, Idle, Asking, TypeOK, WritesFresh
  <1>3. Shapes'
    BY LeaseTyped DEF LeaseInv, ObserveAbsent, managerVars, storageVars, Idle, Asking, TypeOK, WritesFresh, Shapes, Writing, WriteKinds
  <1>4. Knowledge'
    BY AbsentLease, LeaseTyped DEF LeaseInv, ObserveAbsent, managerVars, storageVars, Idle, Asking, TypeOK, WritesFresh, Shapes, Knowledge, Writing, WriteKinds
  <1>5. Watched'
    BY AbsentLease DEF LeaseInv, ObserveAbsent, managerVars, storageVars, Idle, Asking, TypeOK, WritesFresh, Shapes, Knowledge, Watched, Succeeded, TrueAge, Writing, WriteKinds
  <1>6. Held'
    BY DEF LeaseInv, ObserveAbsent, managerVars, storageVars, Idle, Asking, TypeOK, WritesFresh, Shapes, Knowledge, Held, Holds, WillHold, Succeeded, TrueAge
  <1>7. ClaimsExclude'
    BY AbsentLease DEF LeaseInv, ObserveAbsent, managerVars, storageVars, Idle, Asking, TypeOK, WritesFresh, Shapes, Knowledge, ClaimsExclude, Claimed, Holds, WillHold, Succeeded, TrueAge
  <1> QED BY <1>1, <1>2, <1>3, <1>4, <1>5, <1>6, <1>7 DEF LeaseInv

\* The action ObserveForeign preserves the inductive invariant.
LEMMA ObserveForeignInv ==
    ASSUME LeaseInv, NEW i \in Instances, ObserveForeign(i)
    PROVE  LeaseInv'
  <1>1. TypeOK'
    BY NoneTyped DEF LeaseInv, ObserveForeign, managerVars, storageVars, Return, TypeOK, Roles
  <1>2. WritesFresh'
    BY DEF LeaseInv, ObserveForeign, managerVars, storageVars, Return, Idle, Asking, TypeOK, WritesFresh
  <1>3. Shapes'
    BY DEF LeaseInv, ObserveForeign, managerVars, storageVars, Return, Idle, Asking, TypeOK, WritesFresh, Shapes, Writing, WriteKinds
  <1>4. Knowledge'
    BY DEF LeaseInv, ObserveForeign, managerVars, storageVars, Return, Idle, Asking, TypeOK, WritesFresh, Shapes, Knowledge, Writing, WriteKinds
  <1>5. Watched'
    BY DEF LeaseInv, ObserveForeign, managerVars, storageVars, Return, Idle, Asking, TypeOK, WritesFresh, Shapes, Knowledge, Watched, Succeeded, TrueAge, Writing, WriteKinds
  <1>6. Held'
    BY DEF LeaseInv, ObserveForeign, managerVars, storageVars, Return, Idle, Asking, TypeOK, WritesFresh, Shapes, Knowledge, Held, Holds, WillHold, Succeeded, TrueAge
  <1>7. ClaimsExclude'
    BY DEF LeaseInv, ObserveForeign, managerVars, storageVars, Return, Idle, Asking, TypeOK, WritesFresh, Shapes, Knowledge, ClaimsExclude, Claimed, Holds, WillHold, Succeeded, TrueAge
  <1> QED BY <1>1, <1>2, <1>3, <1>4, <1>5, <1>6, <1>7 DEF LeaseInv

\* The action ObserveError preserves the inductive invariant.
LEMMA ObserveErrorInv ==
    ASSUME LeaseInv, NEW i \in Instances, ObserveError(i)
    PROVE  LeaseInv'
  <1>1. TypeOK'
    BY NoneTyped DEF LeaseInv, ObserveError, managerVars, storageVars, Return, TypeOK, Roles
  <1>2. WritesFresh'
    BY DEF LeaseInv, ObserveError, managerVars, storageVars, Return, Idle, Asking, TypeOK, WritesFresh
  <1>3. Shapes'
    BY DEF LeaseInv, ObserveError, managerVars, storageVars, Return, Idle, Asking, TypeOK, WritesFresh, Shapes, Writing, WriteKinds
  <1>4. Knowledge'
    BY DEF LeaseInv, ObserveError, managerVars, storageVars, Return, Idle, Asking, TypeOK, WritesFresh, Shapes, Knowledge, Writing, WriteKinds
  <1>5. Watched'
    BY DEF LeaseInv, ObserveError, managerVars, storageVars, Return, Idle, Asking, TypeOK, WritesFresh, Shapes, Knowledge, Watched, Succeeded, TrueAge, Writing, WriteKinds
  <1>6. Held'
    BY DEF LeaseInv, ObserveError, managerVars, storageVars, Return, Idle, Asking, TypeOK, WritesFresh, Shapes, Knowledge, Held, Holds, WillHold, Succeeded, TrueAge
  <1>7. ClaimsExclude'
    BY DEF LeaseInv, ObserveError, managerVars, storageVars, Return, Idle, Asking, TypeOK, WritesFresh, Shapes, Knowledge, ClaimsExclude, Claimed, Holds, WillHold, Succeeded, TrueAge
  <1> QED BY <1>1, <1>2, <1>3, <1>4, <1>5, <1>6, <1>7 DEF LeaseInv

\* The action AcquireOk preserves the inductive invariant.
LEMMA AcquireOkInv ==
    ASSUME LeaseInv, NEW i \in Instances, AcquireOk(i)
    PROVE  LeaseInv'
  <1>1. TypeOK'
    BY NoneTyped, CallTyped DEF LeaseInv, AcquireOk, managerVars, storageVars, Return, TypeOK, Roles
  <1>2. WritesFresh'
    BY DEF LeaseInv, AcquireOk, managerVars, storageVars, Return, Idle, Asking, TypeOK, WritesFresh
  <1>3. Shapes'
    BY LeaseConstants DEF LeaseInv, AcquireOk, managerVars, storageVars, Return, Idle, Asking, TypeOK, WritesFresh, Shapes, Writing, WriteKinds
  <1>4. Knowledge'
    BY DEF LeaseInv, AcquireOk, managerVars, storageVars, Return, Idle, Asking, TypeOK, WritesFresh, Shapes, Knowledge, Writing, WriteKinds
  <1>5. Watched'
    BY DEF LeaseInv, AcquireOk, managerVars, storageVars, Return, Idle, Asking, TypeOK, WritesFresh, Shapes, Knowledge, Watched, Succeeded, TrueAge, Writing, WriteKinds
  <1>6. Held'
    BY DEF LeaseInv, AcquireOk, managerVars, storageVars, Return, Idle, Asking, TypeOK, WritesFresh, Shapes, Knowledge, Held, Holds, WillHold, Succeeded, TrueAge
  <1>7. ClaimsExclude'
    BY DEF LeaseInv, AcquireOk, managerVars, storageVars, Return, Idle, Asking, TypeOK, WritesFresh, Shapes, Knowledge, ClaimsExclude, Claimed, Holds, WillHold, Succeeded, TrueAge
  <1> QED BY <1>1, <1>2, <1>3, <1>4, <1>5, <1>6, <1>7 DEF LeaseInv

\* The action AcquireConflict preserves the inductive invariant.
LEMMA AcquireConflictInv ==
    ASSUME LeaseInv, NEW i \in Instances, AcquireConflict(i)
    PROVE  LeaseInv'
  <1>1. TypeOK'
    BY NoneTyped DEF LeaseInv, AcquireConflict, managerVars, storageVars, Return, TypeOK, Roles
  <1>2. WritesFresh'
    BY DEF LeaseInv, AcquireConflict, managerVars, storageVars, Return, Idle, Asking, TypeOK, WritesFresh
  <1>3. Shapes'
    BY DEF LeaseInv, AcquireConflict, managerVars, storageVars, Return, Idle, Asking, TypeOK, WritesFresh, Shapes, Writing, WriteKinds
  <1>4. Knowledge'
    BY DEF LeaseInv, AcquireConflict, managerVars, storageVars, Return, Idle, Asking, TypeOK, WritesFresh, Shapes, Knowledge, Writing, WriteKinds
  <1>5. Watched'
    BY DEF LeaseInv, AcquireConflict, managerVars, storageVars, Return, Idle, Asking, TypeOK, WritesFresh, Shapes, Knowledge, Watched, Succeeded, TrueAge, Writing, WriteKinds
  <1>6. Held'
    BY DEF LeaseInv, AcquireConflict, managerVars, storageVars, Return, Idle, Asking, TypeOK, WritesFresh, Shapes, Knowledge, Held, Holds, WillHold, Succeeded, TrueAge
  <1>7. ClaimsExclude'
    BY DEF LeaseInv, AcquireConflict, managerVars, storageVars, Return, Idle, Asking, TypeOK, WritesFresh, Shapes, Knowledge, ClaimsExclude, Claimed, Holds, WillHold, Succeeded, TrueAge
  <1> QED BY <1>1, <1>2, <1>3, <1>4, <1>5, <1>6, <1>7 DEF LeaseInv

\* The action ReleaseOk preserves the inductive invariant.
LEMMA ReleaseOkInv ==
    ASSUME LeaseInv, NEW i \in Instances, ReleaseOk(i)
    PROVE  LeaseInv'
  <1>1. TypeOK'
    BY NoneTyped, CallTyped, WindowCovered DEF LeaseInv, ReleaseOk, managerVars, storageVars, StepDown, Return, TypeOK, Roles
  <1>2. WritesFresh'
    BY DEF LeaseInv, ReleaseOk, managerVars, storageVars, StepDown, Return, Idle, Asking, TypeOK, WritesFresh
  <1>3. Shapes'
    BY DEF LeaseInv, ReleaseOk, managerVars, storageVars, StepDown, Return, Idle, Asking, TypeOK, WritesFresh, Shapes, Writing, WriteKinds
  <1>4. Knowledge'
    BY DEF LeaseInv, ReleaseOk, managerVars, storageVars, StepDown, Return, Idle, Asking, TypeOK, WritesFresh, Shapes, Knowledge, Writing, WriteKinds
  <1>5. Watched'
    BY LeaseConstants DEF LeaseInv, ReleaseOk, managerVars, storageVars, StepDown, Return, Idle, Asking, TypeOK, WritesFresh, Shapes, Knowledge, Watched, Succeeded, TrueAge, Writing, WriteKinds
  <1>6. Held'
    BY DEF LeaseInv, ReleaseOk, managerVars, storageVars, StepDown, Return, Idle, Asking, TypeOK, WritesFresh, Shapes, Knowledge, Held, Holds, WillHold, Succeeded, TrueAge
  <1>7. ClaimsExclude'
    BY DEF LeaseInv, ReleaseOk, managerVars, storageVars, StepDown, Return, Idle, Asking, TypeOK, WritesFresh, Shapes, Knowledge, ClaimsExclude, Claimed, Holds, WillHold, Succeeded, TrueAge
  <1> QED BY <1>1, <1>2, <1>3, <1>4, <1>5, <1>6, <1>7 DEF LeaseInv

\* The action ReleaseError preserves the inductive invariant.
LEMMA ReleaseErrorInv ==
    ASSUME LeaseInv, NEW i \in Instances, ReleaseError(i)
    PROVE  LeaseInv'
  <1>1. TypeOK'
    BY NoneTyped, WindowCovered DEF LeaseInv, ReleaseError, managerVars, storageVars, StepDown, Return, TypeOK, Roles
  <1>2. WritesFresh'
    BY DEF LeaseInv, ReleaseError, managerVars, storageVars, StepDown, Return, Idle, Asking, TypeOK, WritesFresh
  <1>3. Shapes'
    BY DEF LeaseInv, ReleaseError, managerVars, storageVars, StepDown, Return, Idle, Asking, TypeOK, WritesFresh, Shapes, Writing, WriteKinds
  <1>4. Knowledge'
    BY DEF LeaseInv, ReleaseError, managerVars, storageVars, StepDown, Return, Idle, Asking, TypeOK, WritesFresh, Shapes, Knowledge, Writing, WriteKinds
  <1>5. Watched'
    BY DEF LeaseInv, ReleaseError, managerVars, storageVars, StepDown, Return, Idle, Asking, TypeOK, WritesFresh, Shapes, Knowledge, Watched, Succeeded, TrueAge, Writing, WriteKinds
  <1>6. Held'
    BY DEF LeaseInv, ReleaseError, managerVars, storageVars, StepDown, Return, Idle, Asking, TypeOK, WritesFresh, Shapes, Knowledge, Held, Holds, WillHold, Succeeded, TrueAge
  <1>7. ClaimsExclude'
    BY DEF LeaseInv, ReleaseError, managerVars, storageVars, StepDown, Return, Idle, Asking, TypeOK, WritesFresh, Shapes, Knowledge, ClaimsExclude, Claimed, Holds, WillHold, Succeeded, TrueAge
  <1> QED BY <1>1, <1>2, <1>3, <1>4, <1>5, <1>6, <1>7 DEF LeaseInv

\* The action TakeOver preserves the inductive invariant.
LEMMA TakeOverInv ==
    ASSUME LeaseInv, NEW i \in Instances, TakeOver(i)
    PROVE  LeaseInv'
  <1>1. TypeOK'
    BY DEF LeaseInv, TakeOver, managerVars, storageVars, TypeOK, Roles
  <1>2. WritesFresh'
    BY DEF LeaseInv, TakeOver, managerVars, storageVars, TypeOK, WritesFresh
  <1>3. Shapes'
    BY DEF LeaseInv, TakeOver, managerVars, storageVars, TypeOK, WritesFresh, Shapes, Writing, WriteKinds
  <1>4. Knowledge'
    BY DEF LeaseInv, TakeOver, managerVars, storageVars, TypeOK, WritesFresh, Shapes, Knowledge, Writing, WriteKinds
  <1>5. Watched'
    BY DEF LeaseInv, TakeOver, managerVars, storageVars, TypeOK, WritesFresh, Shapes, Knowledge, Watched, Succeeded, TrueAge, Writing, WriteKinds
  <1>6. Held'
    BY DEF LeaseInv, TakeOver, managerVars, storageVars, TypeOK, WritesFresh, Shapes, Knowledge, Held, Holds, WillHold, Succeeded, TrueAge
  <1>7. ClaimsExclude'
    BY DEF LeaseInv, TakeOver, managerVars, storageVars, TypeOK, WritesFresh, Shapes, Knowledge, ClaimsExclude, Claimed, Holds, WillHold, Succeeded, TrueAge
  <1> QED BY <1>1, <1>2, <1>3, <1>4, <1>5, <1>6, <1>7 DEF LeaseInv

\* The action LoseLease preserves the inductive invariant.
LEMMA LoseLeaseInv ==
    ASSUME LeaseInv, NEW i \in Instances, LoseLease(i)
    PROVE  LeaseInv'
  <1>1. TypeOK'
    BY DEF LeaseInv, LoseLease, managerVars, storageVars, TypeOK, Roles
  <1>2. WritesFresh'
    BY DEF LeaseInv, LoseLease, managerVars, storageVars, TypeOK, WritesFresh
  <1>3. Shapes'
    BY DEF LeaseInv, LoseLease, managerVars, storageVars, TypeOK, WritesFresh, Shapes, Writing, WriteKinds
  <1>4. Knowledge'
    BY DEF LeaseInv, LoseLease, managerVars, storageVars, TypeOK, WritesFresh, Shapes, Knowledge, Writing, WriteKinds
  <1>5. Watched'
    BY DEF LeaseInv, LoseLease, managerVars, storageVars, TypeOK, WritesFresh, Shapes, Knowledge, Watched, Succeeded, TrueAge, Writing, WriteKinds
  <1>6. Held'
    BY DEF LeaseInv, LoseLease, managerVars, storageVars, TypeOK, WritesFresh, Shapes, Knowledge, Held, Holds, WillHold, Succeeded, TrueAge
  <1>7. ClaimsExclude'
    BY DEF LeaseInv, LoseLease, managerVars, storageVars, TypeOK, WritesFresh, Shapes, Knowledge, ClaimsExclude, Claimed, Holds, WillHold, Succeeded, TrueAge
  <1> QED BY <1>1, <1>2, <1>3, <1>4, <1>5, <1>6, <1>7 DEF LeaseInv

\* The action Crash preserves the inductive invariant.
LEMMA CrashInv ==
    ASSUME LeaseInv, NEW i \in Instances, Crash(i)
    PROVE  LeaseInv'
  <1>1. TypeOK'
    BY NoneTyped DEF LeaseInv, Crash, managerVars, storageVars, Return, TypeOK, Roles
  <1>2. WritesFresh'
    BY DEF LeaseInv, Crash, managerVars, storageVars, Return, Idle, Asking, TypeOK, WritesFresh
  <1>3. Shapes'
    BY DEF LeaseInv, Crash, managerVars, storageVars, Return, Idle, Asking, TypeOK, WritesFresh, Shapes, Writing, WriteKinds
  <1>4. Knowledge'
    BY DEF LeaseInv, Crash, managerVars, storageVars, Return, Idle, Asking, TypeOK, WritesFresh, Shapes, Knowledge, Writing, WriteKinds
  <1>5. Watched'
    BY AbsentLease DEF LeaseInv, Crash, managerVars, storageVars, Return, Idle, Asking, TypeOK, WritesFresh, Shapes, Knowledge, Watched, Succeeded, TrueAge, Writing, WriteKinds
  <1>6. Held'
    BY DEF LeaseInv, Crash, managerVars, storageVars, Return, Idle, Asking, TypeOK, WritesFresh, Shapes, Knowledge, Held, Holds, WillHold, Succeeded, TrueAge
  <1>7. ClaimsExclude'
    BY DEF LeaseInv, Crash, managerVars, storageVars, Return, Idle, Asking, TypeOK, WritesFresh, Shapes, Knowledge, ClaimsExclude, Claimed, Holds, WillHold, Succeeded, TrueAge
  <1> QED BY <1>1, <1>2, <1>3, <1>4, <1>5, <1>6, <1>7 DEF LeaseInv

\* The action ServeRead preserves the inductive invariant.
LEMMA ServeReadInv ==
    ASSUME LeaseInv, NEW i \in Instances, ServeRead(i)
    PROVE  LeaseInv'
  <1>1. TypeOK'
    BY NewAsking DEF LeaseInv, ServeRead, managerVars, storageVars, TypeOK, Roles
  <1>2. WritesFresh'
    BY DEF LeaseInv, ServeRead, managerVars, storageVars, Idle, Asking, TypeOK, WritesFresh
  <1>3. Shapes'
    BY DEF LeaseInv, ServeRead, managerVars, storageVars, Idle, Asking, TypeOK, WritesFresh, Shapes, Writing, WriteKinds
  <1>4. Knowledge'
    BY DEF LeaseInv, ServeRead, managerVars, storageVars, Idle, Asking, TypeOK, WritesFresh, Shapes, Knowledge, Writing, WriteKinds
  <1>5. Watched'
    BY DEF LeaseInv, ServeRead, managerVars, storageVars, Idle, Asking, TypeOK, WritesFresh, Shapes, Knowledge, Watched, Succeeded, TrueAge, Writing, WriteKinds
  <1>6. Held'
    BY DEF LeaseInv, ServeRead, managerVars, storageVars, Idle, Asking, TypeOK, WritesFresh, Shapes, Knowledge, Held, Holds, WillHold, Succeeded, TrueAge
  <1>7. ClaimsExclude'
    BY DEF LeaseInv, ServeRead, managerVars, storageVars, Idle, Asking, TypeOK, WritesFresh, Shapes, Knowledge, ClaimsExclude, Claimed, Holds, WillHold, Succeeded, TrueAge
  <1> QED BY <1>1, <1>2, <1>3, <1>4, <1>5, <1>6, <1>7 DEF LeaseInv

\* The storage applies a write: the only step that changes the lease object.
LEMMA ApplyInv ==
    ASSUME LeaseInv, NEW w \in wire, Apply(w)
    PROVE  LeaseInv'
  <1>1. TypeOK'
    BY AnsweredCall, WriteTyped DEF LeaseInv, Apply, managerVars, storageVars, Answer, TypeOK, Roles
  <1>2. WritesFresh'
    BY AnsweredCall, WriteTyped DEF LeaseInv, Apply, managerVars, storageVars, Answer, TypeOK, WritesFresh
  <1>3. Shapes'
    BY AnsweredCall, WriteTyped DEF LeaseInv, Apply, managerVars, storageVars, Answer, TypeOK, WritesFresh, Shapes, Writing, WriteKinds
  <1>4. Knowledge'
    BY AnsweredCall, WriteTyped DEF LeaseInv, Apply, managerVars, storageVars, Answer, TypeOK, WritesFresh, Shapes, Knowledge, Writing, WriteKinds
  <1>5. Watched'
    BY AnsweredCall, WriteTyped DEF LeaseInv, Apply, managerVars, storageVars, Answer, TypeOK, WritesFresh, Shapes, Knowledge, Watched, Succeeded, TrueAge, Writing, WriteKinds
  <1>6. Held'
    BY SMTT(30), AnsweredCall, WriteTyped DEF LeaseInv, Apply, managerVars, storageVars, Answer, TypeOK, WritesFresh, Shapes, Knowledge, Held, Holds, WillHold, Succeeded, TrueAge, ClaimsExclude, Claimed
  <1>7. ClaimsExclude'
    BY AnsweredCall, WriteTyped DEF LeaseInv, Apply, managerVars, storageVars, Answer, TypeOK, WritesFresh, Shapes, Knowledge, ClaimsExclude, Claimed, Holds, WillHold, Succeeded, TrueAge
  <1> QED BY <1>1, <1>2, <1>3, <1>4, <1>5, <1>6, <1>7 DEF LeaseInv

\* The action Refuse preserves the inductive invariant.
LEMMA RefuseInv ==
    ASSUME LeaseInv, NEW w \in wire, Refuse(w)
    PROVE  LeaseInv'
  <1>1. TypeOK'
    BY AnsweredCall DEF LeaseInv, Refuse, managerVars, storageVars, Answer, TypeOK, Roles
  <1>2. WritesFresh'
    BY AnsweredCall DEF LeaseInv, Refuse, managerVars, storageVars, Answer, TypeOK, WritesFresh
  <1>3. Shapes'
    BY AnsweredCall DEF LeaseInv, Refuse, managerVars, storageVars, Answer, TypeOK, WritesFresh, Shapes, Writing, WriteKinds
  <1>4. Knowledge'
    BY AnsweredCall DEF LeaseInv, Refuse, managerVars, storageVars, Answer, TypeOK, WritesFresh, Shapes, Knowledge, Writing, WriteKinds
  <1>5. Watched'
    BY AnsweredCall DEF LeaseInv, Refuse, managerVars, storageVars, Answer, TypeOK, WritesFresh, Shapes, Knowledge, Watched, Succeeded, TrueAge, Writing, WriteKinds
  <1>6. Held'
    BY AnsweredCall DEF LeaseInv, Refuse, managerVars, storageVars, Answer, TypeOK, WritesFresh, Shapes, Knowledge, Held, Holds, WillHold, Succeeded, TrueAge
  <1>7. ClaimsExclude'
    BY AnsweredCall DEF LeaseInv, Refuse, managerVars, storageVars, Answer, TypeOK, WritesFresh, Shapes, Knowledge, ClaimsExclude, Claimed, Holds, WillHold, Succeeded, TrueAge
  <1> QED BY <1>1, <1>2, <1>3, <1>4, <1>5, <1>6, <1>7 DEF LeaseInv

\* The action Lose preserves the inductive invariant.
LEMMA LoseInv ==
    ASSUME LeaseInv, NEW w \in wire, Lose(w)
    PROVE  LeaseInv'
  <1>1. TypeOK'
    BY DEF LeaseInv, Lose, managerVars, storageVars, TypeOK, Roles
  <1>2. WritesFresh'
    BY DEF LeaseInv, Lose, managerVars, storageVars, TypeOK, WritesFresh
  <1>3. Shapes'
    BY DEF LeaseInv, Lose, managerVars, storageVars, TypeOK, WritesFresh, Shapes, Writing, WriteKinds
  <1>4. Knowledge'
    BY DEF LeaseInv, Lose, managerVars, storageVars, TypeOK, WritesFresh, Shapes, Knowledge, Writing, WriteKinds
  <1>5. Watched'
    BY DEF LeaseInv, Lose, managerVars, storageVars, TypeOK, WritesFresh, Shapes, Knowledge, Watched, Succeeded, TrueAge, Writing, WriteKinds
  <1>6. Held'
    BY DEF LeaseInv, Lose, managerVars, storageVars, TypeOK, WritesFresh, Shapes, Knowledge, Held, Holds, WillHold, Succeeded, TrueAge
  <1>7. ClaimsExclude'
    BY DEF LeaseInv, Lose, managerVars, storageVars, TypeOK, WritesFresh, Shapes, Knowledge, ClaimsExclude, Claimed, Holds, WillHold, Succeeded, TrueAge
  <1> QED BY <1>1, <1>2, <1>3, <1>4, <1>5, <1>6, <1>7 DEF LeaseInv


\* The step on which mutual exclusion rests: a standby that decides to take the
\* lease over has watched one version for at least the holder's TTL, so the holder,
\* whose last write was sent no later than it could be seen, is past its deadline.
LEMMA ObserveInv ==
    ASSUME LeaseInv, NEW i \in Instances, Observe(i)
    PROVE  LeaseInv'
  <1> DEFINE l == call[i].lease
             floor == Asking("floor", call[i].expect, Lease(i, seenEpoch'[i] + 1), "none")
  <1>0. /\ l.epoch \in Nat /\ seenEpoch'[i] \in Nat /\ l.epoch <= seenEpoch'[i]
        /\ seenEpoch' \in [Instances -> Nat]
        /\ SeenSince(i) \in Ages /\ seenAge' \in [Instances -> Ages]
        /\ Lease(i, seenEpoch'[i] + 1) \in LeaseType
        /\ floor \in CallType
    BY SMTT(30), CallTyped, LeaseTyped, NewAsking, NoneTyped DEF LeaseInv, Observe, TypeOK, Larger, SeenSince
  <1>1. TypeOK'
    BY <1>0, NoneTyped, CallTyped DEF LeaseInv, Observe, storageVars, TypeOK
  <1>2. WritesFresh'
    BY <1>0 DEF LeaseInv, Observe, storageVars, Idle, Asking, TypeOK, WritesFresh
  <1>3. Shapes'
    BY <1>0, LeaseTyped DEF LeaseInv, Observe, storageVars, Idle, Asking, TypeOK, Shapes, Writing, WriteKinds
  <1>4. Knowledge'
    <2>1. call'[i] = Idle \/ call'[i] = floor
      BY DEF LeaseInv, TypeOK, Observe
    <2>2. floor.kind = "floor" /\ floor.expect = call[i].expect /\ floor.lease.epoch = seenEpoch'[i] + 1
      BY <1>0, LeaseTyped DEF Asking
    <2>3. call[i].expect = store.version => store.lease = l
      BY DEF LeaseInv, Knowledge, Observe
    <2>4. floor.expect = store.version => floor.lease.epoch > store.lease.epoch
      BY <1>0, <2>2, <2>3
    <2>5. Idle.kind = "idle"
      BY DEF Idle, Asking
    <2>6. \A k \in Instances : k # i => call'[k] = call[k]
      BY DEF LeaseInv, TypeOK, Observe
    <2> QED BY SMTT(30), <2>1, <2>2, <2>4, <2>5, <2>6 DEF LeaseInv, Observe, storageVars, Knowledge, Writing, WriteKinds
  <1>5. Watched'
    <2>1. \A k \in Instances : Succeeded(k)' => Succeeded(k) /\ call'[k] = call[k]
      BY DEF LeaseInv, TypeOK, Observe, Idle, Asking, Succeeded
    <2>2. \A k \in Instances : TrueAge(k, sent[k], sentWall[k]) >= 0 /\ TrueAge(k, call[k].sent, call[k].wall) >= 0
      BY CallTyped DEF LeaseInv, TypeOK, TrueAge, Ages
    <2>3. \A k \in Instances : (seenVersion'[k] = seenVersion[k] /\ seenAge'[k] = seenAge[k]) \/ seenAge'[k] = 0
      BY DEF LeaseInv, TypeOK, Observe, SeenSince
    <2> QED BY <2>1, <2>2, <2>3 DEF LeaseInv, Observe, storageVars, Watched, TrueAge
  <1>6. Held'
    BY DEF LeaseInv, Observe, storageVars, Idle, Asking, TypeOK, Shapes, Held, Holds, WillHold, Succeeded, TrueAge
  <1>7. ClaimsExclude'
    <2>1. \A k \in Instances : /\ Holds(k)' => Holds(k)
                               /\ WillHold(k)' => WillHold(k)
      BY DEF LeaseInv, Observe, storageVars, Idle, Asking, TypeOK, Shapes, Holds, WillHold, Succeeded, TrueAge
    <2>2. CASE Claimed
      BY <2>1, <2>2 DEF LeaseInv, ClaimsExclude
    <2>3. CASE ~Claimed /\ Claimed'
      <3>1. /\ call'[i] = floor /\ LeaseExpired(i) /\ call[i].expect = store.version
        BY <2>3 DEF LeaseInv, TypeOK, Claimed, Observe, storageVars, Idle, Asking
      <3>2. store.lease = l
        BY <3>1 DEF LeaseInv, Knowledge, Observe
      <3>3. CASE Released(l)
        BY <2>1, <3>2, <3>3, LeaseConstants DEF LeaseInv, Held, Released, ClaimsExclude
      <3>4. CASE ~Released(l)
        <4> SUFFICES ASSUME NEW k \in Instances, Holds(k) \/ WillHold(k)
                     PROVE  FALSE
          BY <2>1 DEF ClaimsExclude
        <4>1. l.holder = k /\ k # i /\ l.ttl = TTL[k] \div Second
          BY <3>2 DEF LeaseInv, Held, Shapes, LeaseShape, Observe, Holds, WillHold, Succeeded
        <4>2. LeaseTTL(l) \in Int /\ Window(k) < LeaseTTL(l) /\ Window(k) > 0 /\ Window(k) \in Int /\ TTL[i] \in Int /\ TTL[i] > 0
          BY <4>1, WindowCovered, LeaseConstants, ValidateTiming DEF LeaseTTL, Ages
        <4>3. SeenSince(i) \in Int /\ SeenSince(i) >= LeaseTTL(l) /\ SeenSince(i) > 0
          BY <1>0, <3>1, <3>4, <4>2 DEF LeaseExpired, Larger, Ages
        <4>4. seenVersion[i] = store.version /\ SeenSince(i) = seenAge[i]
          BY <4>3, <3>1 DEF SeenSince
        <4>5. /\ role[k] = "active" => seenAge[i] <= TrueAge(k, sent[k], sentWall[k])
              /\ Succeeded(k) => seenAge[i] <= TrueAge(k, call[k].sent, call[k].wall)
          BY <4>1, <4>4, <3>2 DEF LeaseInv, Watched
        <4>6. TrueAge(k, sent[k], sentWall[k]) \in Int /\ TrueAge(k, call[k].sent, call[k].wall) \in Int
          BY CallTyped DEF LeaseInv, TypeOK, TrueAge, Ages
        <4> QED BY <4>2, <4>3, <4>4, <4>5, <4>6 DEF Holds, WillHold
      <3> QED BY <3>3, <3>4
    <2> QED BY <2>2, <2>3 DEF ClaimsExclude
  <1> QED BY <1>1, <1>2, <1>3, <1>4, <1>5, <1>6, <1>7 DEF LeaseInv

\* Time: what is held or watched ages alike, so the holder's deadline comes first.
LEMMA TickInv ==
    ASSUME LeaseInv, NEW s \in SUBSET Suspending, Tick(s)
    PROVE  LeaseInv'
  <1>1. \A i \in Instances :
          /\ call[i] \in CallType /\ call'[i] = AgedCall(i, s)
          /\ call'[i].kind = call[i].kind /\ call'[i].id = call[i].id /\ call'[i].expect = call[i].expect
          /\ call'[i].lease = call[i].lease /\ call'[i].reply = call[i].reply /\ call'[i] \in CallType
          /\ sent'[i] \in Ages /\ sentWall'[i] \in Ages /\ seenAge'[i] \in Ages /\ cooldown'[i] \in Ages
    BY AgedCallType, OlderAge DEF LeaseInv, TypeOK, Tick, Mono
  <1>2. TypeOK'
    BY <1>1 DEF LeaseInv, TypeOK, Tick, storageVars
  <1>3. WritesFresh'
    BY <1>1 DEF LeaseInv, WritesFresh, Tick, storageVars
  <1>4. Shapes'
    BY <1>1 DEF LeaseInv, Shapes, Tick, storageVars, Writing
  <1>5. Knowledge'
    BY <1>1 DEF LeaseInv, Knowledge, Tick, storageVars, Writing
  <1>6. \A i \in Instances :
          /\ TrueAge(i, sent[i], sentWall[i]) \in Ages
          /\ TrueAge(i, sent'[i], sentWall'[i]) = Older(TrueAge(i, sent[i], sentWall[i]))
          /\ Succeeded(i)' <=> Succeeded(i)
          /\ Succeeded(i) => /\ TrueAge(i, call[i].sent, call[i].wall) \in Ages
                             /\ TrueAge(i, call'[i].sent, call'[i].wall) = Older(TrueAge(i, call[i].sent, call[i].wall))
          /\ seenAge[i] \in Ages
          /\ seenAge'[i] = seenAge[i] \/ seenAge'[i] = Older(seenAge[i])
    <2> TAKE i \in Instances
    <2>1. i \in s => i \in Suspending
      OBVIOUS
    <2>2. /\ sent[i] \in Ages /\ sentWall[i] \in Ages /\ seenAge[i] \in Ages
          /\ sent'[i] = Mono(i, s, sent[i]) /\ sentWall'[i] = Older(sentWall[i]) /\ seenAge'[i] = Mono(i, s, seenAge[i])
      BY DEF LeaseInv, TypeOK, Tick
    <2>3. Succeeded(i)' <=> Succeeded(i)
      BY <1>1 DEF Succeeded
    <2>4. Succeeded(i) => call'[i].sent = Mono(i, s, call[i].sent) /\ call'[i].wall = Older(call[i].wall)
      BY <1>1, AgedCallType DEF Succeeded, WriteKinds
    <2>5. call[i].sent \in Ages /\ call[i].wall \in Ages
      BY <1>1, CallTyped
    <2> QED BY <2>1, <2>2, <2>3, <2>4, <2>5 DEF TrueAge, Mono
  <1>7. Watched'
    <2> SUFFICES ASSUME NEW i \in Instances, NEW j \in Instances,
                        i # j, store.lease.holder = i, seenVersion[j] = store.version
                 PROVE  /\ role[i] = "active" => seenAge'[j] <= TrueAge(i, sent'[i], sentWall'[i])
                        /\ Succeeded(i) => seenAge'[j] <= TrueAge(i, call'[i].sent, call'[i].wall)
      BY <1>6 DEF Watched, Tick, storageVars, TrueAge
    <2>1. /\ role[i] = "active" => seenAge[j] <= TrueAge(i, sent[i], sentWall[i])
          /\ Succeeded(i) => seenAge[j] <= TrueAge(i, call[i].sent, call[i].wall)
      BY DEF LeaseInv, Watched
    <2> QED BY <1>6, <2>1, OlderAge
  <1>8. \A i \in Instances : (Holds(i)' => Holds(i)) /\ (WillHold(i)' => WillHold(i))
    <2> SUFFICES ASSUME NEW i \in Instances
                 PROVE  (Holds(i)' => Holds(i)) /\ (WillHold(i)' => WillHold(i))
      OBVIOUS
    <2>1. Window(i)' = Window(i) /\ Window(i) \in Int /\ TrueAge(i, sent[i], sentWall[i])' = TrueAge(i, sent'[i], sentWall'[i])
           /\ TrueAge(i, call[i].sent, call[i].wall)' = TrueAge(i, call'[i].sent, call'[i].wall)
      BY WindowCovered DEF Window, TrueAge
    <2>2. \A x \in Ages : x \in Int /\ Older(x) \in Int /\ x <= Older(x)
      BY OlderAge DEF Ages
    <2> QED BY <1>1, <1>6, <2>1, <2>2 DEF Holds, WillHold, Tick
  <1>9. Held'
    BY <1>1, <1>8 DEF LeaseInv, Held, Tick, storageVars
  <1>10. ClaimsExclude'
    BY <1>1, <1>8 DEF LeaseInv, ClaimsExclude, Claimed, Tick, storageVars
  <1> QED BY <1>2, <1>3, <1>4, <1>5, <1>7, <1>9, <1>10 DEF LeaseInv

\* A wall clock that is set changes no age on the clock that counts.
LEMMA SetWallInv ==
    ASSUME LeaseInv, NEW i \in Instances, NEW d \in Jumps, SetWall(i, d)
    PROVE  LeaseInv'
  <1>0. \A x \in Ages : Clamp(x + d) \in Ages /\ (d >= 0 => x <= Clamp(x + d))
    BY LeaseConstants DEF Ages, Clamp
  <1>1. \A k \in Instances :
          /\ call[k] \in CallType /\ call'[k] \in CallType
          /\ call'[k].kind = call[k].kind /\ call'[k].id = call[k].id /\ call'[k].expect = call[k].expect
          /\ call'[k].lease = call[k].lease /\ call'[k].reply = call[k].reply
          /\ call'[k].sent = call[k].sent
          /\ call'[k].wall = call[k].wall \/ (k = i /\ call'[k].wall = Clamp(call[k].wall + d))
    <2> TAKE k \in Instances
    <2>1. call[k] \in CallType /\ Clamp(call[k].wall + d) \in Ages
      BY <1>0, CallTyped DEF LeaseInv, TypeOK
    <2> DEFINE jumped == [call[k] EXCEPT !.wall = Clamp(call[k].wall + d)]
    <2>2. CASE k # i
      <3>1. call'[k] = call[k]
        BY <2>2 DEF LeaseInv, TypeOK, SetWall
      <3> QED BY <2>1, <3>1
    <2>3. CASE k = i
      <3>1. call'[k] = call[k] \/ call'[k] = jumped
        BY <2>3 DEF LeaseInv, TypeOK, SetWall
      <3>2. /\ jumped \in CallType
            /\ jumped.kind = call[k].kind /\ jumped.id = call[k].id /\ jumped.expect = call[k].expect
            /\ jumped.lease = call[k].lease /\ jumped.sent = call[k].sent /\ jumped.reply = call[k].reply
            /\ jumped.wall = Clamp(call[k].wall + d)
        BY <2>1, JumpedCall
      <3> HIDE DEF jumped
      <3>3. CASE call'[k] = call[k]
        BY <2>1, <3>3
      <3>4. CASE call'[k] = jumped
        BY <2>1, <2>3, <3>2, <3>4
      <3> QED BY <3>1, <3>3, <3>4
    <2> QED BY <2>2, <2>3
  <1>2. TypeOK'
    BY <1>0, <1>1 DEF LeaseInv, TypeOK, SetWall, storageVars
  <1>3. WritesFresh'
    BY <1>1 DEF LeaseInv, WritesFresh, SetWall, storageVars
  <1>4. Shapes'
    BY <1>1 DEF LeaseInv, Shapes, SetWall, storageVars, Writing
  <1>5. Knowledge'
    BY <1>1 DEF LeaseInv, Knowledge, SetWall, storageVars, Writing
  <1>6. \A k \in Instances :
          /\ TrueAge(k, sent[k], sentWall[k]) \in Int /\ TrueAge(k, sent'[k], sentWall'[k]) \in Int
          /\ TrueAge(k, call[k].sent, call[k].wall) \in Int /\ TrueAge(k, call'[k].sent, call'[k].wall) \in Int
          /\ TrueAge(k, sent[k], sentWall[k]) <= TrueAge(k, sent'[k], sentWall'[k])
          /\ TrueAge(k, call[k].sent, call[k].wall) <= TrueAge(k, call'[k].sent, call'[k].wall)
          /\ Succeeded(k)' <=> Succeeded(k)
          /\ seenAge[k] \in Int /\ Window(k) \in Int
    BY <1>0, <1>1, CallTyped, WindowCovered DEF LeaseInv, TypeOK, SetWall, TrueAge, Succeeded, Ages
  <1>7. Watched'
    <2> SUFFICES ASSUME NEW k \in Instances, NEW j \in Instances,
                        k # j, store.lease.holder = k, seenVersion[j] = store.version
                 PROVE  /\ role[k] = "active" => seenAge[j] <= TrueAge(k, sent'[k], sentWall'[k])
                        /\ Succeeded(k) => seenAge[j] <= TrueAge(k, call'[k].sent, call'[k].wall)
      BY <1>6 DEF Watched, SetWall, storageVars, TrueAge
    <2>1. /\ role[k] = "active" => seenAge[j] <= TrueAge(k, sent[k], sentWall[k])
          /\ Succeeded(k) => seenAge[j] <= TrueAge(k, call[k].sent, call[k].wall)
      BY DEF LeaseInv, Watched
    <2> QED BY <1>6, <2>1
  <1>8. \A k \in Instances : (Holds(k)' => Holds(k)) /\ (WillHold(k)' => WillHold(k))
    <2> SUFFICES ASSUME NEW k \in Instances
                 PROVE  (Holds(k)' => Holds(k)) /\ (WillHold(k)' => WillHold(k))
      OBVIOUS
    <2>1. /\ Window(k)' = Window(k)
          /\ TrueAge(k, sent[k], sentWall[k])' = TrueAge(k, sent'[k], sentWall'[k])
          /\ TrueAge(k, call[k].sent, call[k].wall)' = TrueAge(k, call'[k].sent, call'[k].wall)
      BY DEF Window, TrueAge
    <2> QED BY <1>1, <1>6, <2>1 DEF Holds, WillHold, SetWall
  <1>9. Held'
    BY <1>1, <1>8 DEF LeaseInv, Held, SetWall, storageVars
  <1>10. ClaimsExclude'
    BY <1>1, <1>8 DEF LeaseInv, ClaimsExclude, Claimed, SetWall, storageVars
  <1> QED BY <1>2, <1>3, <1>4, <1>5, <1>7, <1>9, <1>10 DEF LeaseInv

\* The inductive invariant holds when every Manager is new.
LEMMA InitInv == Init => LeaseInv
  <1> SUFFICES ASSUME Init PROVE LeaseInv
    OBVIOUS
  <1>1. TypeOK
    BY NoneTyped DEF Init, TypeOK, Roles
  <1>2. /\ wire = {} /\ store.lease = NoLease
        /\ \A i \in Instances : role[i] = "standby" /\ call[i] = Idle
    BY DEF Init
  <1>3. Idle.kind = "idle" /\ NoLease.holder = NoHolder
    BY DEF Idle, Asking, NoLease
  <1>4. WritesFresh
    BY <1>2 DEF WritesFresh
  <1>5. Shapes
    BY <1>2, <1>3, LeaseConstants DEF Shapes, LeaseShape, Writing, WriteKinds
  <1>6. Knowledge
    BY <1>2, <1>3 DEF Knowledge, Writing, WriteKinds
  <1>7. Watched
    BY <1>2, <1>3, LeaseConstants DEF Watched
  <1>8. \A i \in Instances : ~Holds(i) /\ ~WillHold(i)
    BY <1>2, <1>3 DEF Holds, WillHold, Succeeded
  <1>9. Held /\ ClaimsExclude
    BY <1>8 DEF Held, ClaimsExclude
  <1> QED BY <1>1, <1>4, <1>5, <1>6, <1>7, <1>9 DEF LeaseInv

\* A step that changes nothing preserves the invariant.
LEMMA StutterInv == LeaseInv /\ UNCHANGED vars => LeaseInv'
  <1> SUFFICES ASSUME LeaseInv, UNCHANGED vars PROVE LeaseInv'
    OBVIOUS
  <1> USE DEF vars, managerVars, storageVars
  <1>1. TypeOK'
    BY DEF LeaseInv, TypeOK
  <1>2. WritesFresh' /\ Shapes'
    BY DEF LeaseInv, WritesFresh, Shapes, Writing
  <1>3. Knowledge'
    BY DEF LeaseInv, Knowledge, Writing
  <1>4. Watched'
    BY DEF LeaseInv, Watched, Succeeded, TrueAge
  <1>5. Held' /\ ClaimsExclude'
    BY DEF LeaseInv, Held, ClaimsExclude, Claimed, Holds, WillHold, Succeeded, TrueAge, Window
  <1> QED BY <1>1, <1>2, <1>3, <1>4, <1>5 DEF LeaseInv

\* Every step of the cluster preserves the inductive invariant.
LEMMA NextInv == LeaseInv /\ [Next]_vars => LeaseInv'
  <1> SUFFICES ASSUME LeaseInv, [Next]_vars PROVE LeaseInv'
    OBVIOUS
  <1>1. ASSUME NEW i \in Instances, ManagerStep(i) PROVE LeaseInv'
    BY <1>1, RenewExpiredInv, RenewSendInv, RenewOkInv, RenewConflictInv, RenewErrorInv,
       ReadSendInv, ObserveAbsentInv, ObserveForeignInv, ObserveInv, ObserveErrorInv,
       AcquireSendInv, AcquireOkInv, AcquireConflictInv, ReleaseOkInv, ReleaseErrorInv
       DEF ManagerStep
  <1>2. ASSUME NEW i \in Instances, SupervisorStep(i) PROVE LeaseInv'
    BY <1>2, TakeOverInv, LoseLeaseInv, ReleaseSendInv, CrashInv DEF SupervisorStep
  <1>3. CASE StorageStep
    BY <1>3, ServeReadInv, ApplyInv, RefuseInv, LoseInv DEF StorageStep
  <1>4. CASE ClockStep
    BY <1>4, TickInv, SetWallInv DEF ClockStep
  <1>5. CASE UNCHANGED vars
    BY <1>5, StutterInv
  <1> QED BY <1>1, <1>2, <1>3, <1>4, <1>5 DEF Next

\* LeaseInv holds in every reachable state of the lease protocol, for any number
\* of instances, any TTLs that pass ValidateTiming and any delay of any message.
THEOREM LeaseInvariant == Spec => []LeaseInv
  <1>1. LeaseInv /\ [Next]_vars => LeaseInv'
    BY NextInv
  <1> QED BY <1>1, InitInv, PTL DEF Spec

\* Every variable keeps its type.
THEOREM TypeCorrect == Spec => []TypeOK
  <1>1. LeaseInv => TypeOK
    BY DEF LeaseInv
  <1> QED BY <1>1, LeaseInvariant, PTL

\* An instance whose fencing check passes outside a release holds the lease in
\* the storage.
LEMMA CheckHolds ==
    ASSUME LeaseInv, NEW i \in Instances, MayUse(i)
    PROVE  store.lease.holder = i /\ Holds(i)
  <1>1. TrueAge(i, sent[i], sentWall[i]) \in Int /\ Window(i) \in Int
    BY WindowCovered DEF LeaseInv, TypeOK, TrueAge, Ages
  <1>2. sent[i] \in Int /\ sentWall[i] \in Int
    BY DEF LeaseInv, TypeOK, Ages
  <1>3. Holds(i)
    BY <1>1, <1>2 DEF MayUse, Check, Expired, ExpiredAt, Holds, TrueAge
  <1> QED BY <1>3 DEF LeaseInv, Held

\* The inductive invariant implies that at most one instance works.
LEMMA OneWorks == LeaseInv => AtMostOneWorks
  <1> SUFFICES ASSUME LeaseInv, NEW i \in Instances, NEW j \in Instances, Working(i), Working(j)
               PROVE  i = j
    BY DEF AtMostOneWorks
  <1>1. \A k \in Instances : Working(k) => MayUse(k)
    BY DEF LeaseInv, Shapes, Working, MayUse
  <1> QED BY <1>1, CheckHolds

\* The fencing of runs: of all instances at most one runs the background work
\* with a Check that passes.
THEOREM MutualExclusion == Spec => []AtMostOneWorks
  <1> QED BY LeaseInvariant, OneWorks, PTL

\* The instance that may use the epoch, if any, is the holder of the lease.
UserIsHolder ==
    /\ User = NoHolder \/ (User \in Instances /\ MayUse(User) /\ store.lease.holder = User)
    /\ \A i \in Instances : MayUse(i) => User = i

\* At most one instance may use the epoch: the holder of the lease.
LEMMA UserHolds == LeaseInv => UserIsHolder
  <1> SUFFICES ASSUME LeaseInv PROVE UserIsHolder
    OBVIOUS
  <1>1. CASE \E i \in Instances : MayUse(i)
    <2>1. User \in Instances /\ MayUse(User)
      BY <1>1 DEF User
    <2> QED BY <2>1, CheckHolds DEF UserIsHolder
  <1>2. CASE ~\E i \in Instances : MayUse(i)
    BY <1>2 DEF User, UserIsHolder
  <1> QED BY <1>1, <1>2

\* A step that leaves the lease object alone only lets an instance start or stop
\* using the epoch it was issued.
LEMMA QuietStep ==
    ASSUME LeaseInv, LeaseInv', store' = store
    PROVE  [Token!Next]_(Token!vars)
  <1>1. User = NoHolder \/ (User \in Instances /\ store.lease.holder = User)
    BY UserHolds DEF UserIsHolder
  <1>2. User' = NoHolder \/ (User' \in Instances /\ store'.lease.holder = User')
    <2>1. UserIsHolder'
      BY UserHolds, PTL
    <2> QED BY <2>1 DEF UserIsHolder
  <1>3. CASE User' = User
    BY <1>3 DEF Token!vars
  <1>4. CASE User' # User /\ User' = NoHolder
    BY <1>4 DEF Token!Next, Token!Stop
  <1>5. CASE User' # User /\ User' # NoHolder
    BY <1>1, <1>2, <1>5 DEF Token!Next, Token!Use
  <1> QED BY <1>3, <1>4, <1>5

\* A write that commits renews, issues a new epoch while nobody uses the old one,
\* or surrenders it.
LEMMA ApplyStep ==
    ASSUME LeaseInv, NEW w \in wire, Apply(w)
    PROVE  [Token!Next]_(Token!vars)
  <1>1. \A i \in Instances : MayUse(i)' <=> MayUse(i)
    BY AnsweredCall DEF LeaseInv, TypeOK, Apply, Answer, managerVars, MayUse, Check, Expired, ExpiredAt, Window
  <1>2. User' = User
    BY <1>1 DEF User
  <1>3. /\ w \in WriteType /\ w.by \in Instances /\ w.kind \in WriteKinds /\ w.lease.epoch \in Nat
        /\ store'.lease = w.lease /\ w.expect = store.version
    BY WriteTyped DEF LeaseInv, TypeOK, Apply
  <1>4. w.lease.holder = IF w.kind = "release" THEN NoHolder ELSE w.by
    BY DEF LeaseInv, Shapes
  <1>5. IF w.kind = "acquire" THEN w.lease.epoch > store.lease.epoch
                              ELSE w.by = store.lease.holder /\ w.lease.epoch = store.lease.epoch
    BY <1>3 DEF LeaseInv, Knowledge
  <1>6. w.kind # "renew" => User = NoHolder
    BY <1>3, UserHolds, CheckHolds DEF UserIsHolder, LeaseInv, ClaimsExclude, Claimed
  <1>7. CASE w.kind = "renew"
    BY <1>2, <1>3, <1>4, <1>5, <1>7 DEF Token!vars
  <1>8. CASE w.kind = "acquire"
    BY <1>2, <1>3, <1>4, <1>5, <1>6, <1>8 DEF Token!Next, Token!Issue
  <1>9. CASE w.kind = "release"
    BY <1>2, <1>3, <1>4, <1>5, <1>6, <1>9 DEF Token!Next, Token!Surrender
  <1> QED BY <1>3, <1>7, <1>8, <1>9 DEF WriteKinds

\* Only a write that is applied changes the lease object.
LEMMA StoreChanges == [Next]_vars => store' = store \/ \E w \in wire : Apply(w)
  BY ZenonT(60) DEF Next, ManagerStep, SupervisorStep, StorageStep, ClockStep, vars, storageVars,
         RenewExpired, RenewSend, RenewOk, RenewConflict, RenewError, ReadSend, ObserveAbsent,
         ObserveForeign, Observe, ObserveError, AcquireSend, AcquireOk, AcquireConflict, ReleaseOk,
         ReleaseError, TakeOver, LoseLease, ReleaseSend, Crash, ServeRead, Refuse, Lose, Tick, SetWall, Send

\* The lease protocol implements the fencing token.
THEOREM Fencing == Spec => FencingTokenSpec
  <1>1. Init => Token!Init
    <2> SUFFICES ASSUME Init PROVE Token!Init
      OBVIOUS
    <2>1. store.lease = NoLease /\ \A i \in Instances : role[i] = "standby"
      BY DEF Init
    <2>2. \A i \in Instances : ~MayUse(i)
      BY <2>1 DEF MayUse, Check
    <2> QED BY <2>1, <2>2 DEF Token!Init, User, NoLease
  <1>2. LeaseInv /\ LeaseInv' /\ [Next]_vars => [Token!Next]_(Token!vars)
    <2> SUFFICES ASSUME LeaseInv, LeaseInv', [Next]_vars PROVE [Token!Next]_(Token!vars)
      OBVIOUS
    <2>1. store' = store \/ \E w \in wire : Apply(w)
      BY StoreChanges
    <2> QED BY <2>1, QuietStep, ApplyStep
  <1> QED BY <1>1, <1>2, LeaseInvariant, PTL DEF Spec, FencingTokenSpec, Token!Spec
-----------------------------------------------------------------------------
(* The secret key. *)

\* What an instance writes has its own key, and whoever may write over the lease in the
\* storage, once its write is applied, has the key of that lease.
KeyInv ==
    /\ \A w \in wire :
         /\ w.lease.key = KeyID[w.by]
         /\ w.expect = store.version /\ store.version # NoVersion => store.lease.key = w.lease.key
    /\ \A i \in Instances :
         /\ role[i] = "active" => lease[i].key = KeyID[i]
         /\ Writing(i) => call[i].lease.key = KeyID[i]
         /\ role[i] = "active" /\ version[i] = store.version => store.lease.key = KeyID[i]
         /\ call[i].kind = "floor" /\ call[i].expect = store.version /\ store.version # NoVersion =>
              store.lease.key = KeyID[i]

\* A call that a step of another actor left alone, answered or aged writes the same lease.
SameCall(i) ==
    /\ call'[i].kind = call[i].kind /\ call'[i].expect = call[i].expect /\ call'[i].lease = call[i].lease

\* A new manager: nothing is written yet.
LEMMA KeyInit == Init => KeyInv
  BY DEF Init, KeyInv, Idle, Asking, Writing, WriteKinds

\* A conditional write that leaves with the key of its sender, over a lease with that key.
LEMMA KeySend ==
    ASSUME LeaseInv, KeyInv, NEW i \in Instances, NEW kind \in WriteKinds, NEW x \in VersionType,
           NEW l \in LeaseType, Send(i, kind, x, l), UNCHANGED managerVars, l.key = KeyID[i],
           x = store.version /\ store.version # NoVersion => store.lease.key = KeyID[i]
    PROVE  KeyInv'
  <1> DEFINE v == CHOOSE y \in Versions : y \notin InUse
             new == [id |-> v, kind |-> kind, by |-> i, expect |-> x, lease |-> l]
  <1>1. store' = store /\ wire' = wire \cup {new}
    BY DEF Send
  <1>2. \A j \in Instances : j # i => call'[j] = call[j]
    BY DEF Send, LeaseInv, TypeOK
  <1>3. call'[i].kind = kind /\ call'[i].lease = l
    BY DEF Send, LeaseInv, TypeOK
  <1>4. new.by = i /\ new.lease = l /\ new.expect = x
    OBVIOUS
  <1>5. \A w \in wire' : w.lease.key = KeyID[w.by]
                          /\ (w.expect = store'.version /\ store'.version # NoVersion => store'.lease.key = w.lease.key)
    BY <1>1, <1>4 DEF KeyInv
  <1>6. kind # "floor"
    BY DEF WriteKinds
  <1> QED BY <1>1, <1>2, <1>3, <1>5, <1>6 DEF KeyInv, Writing, managerVars

\* A step of i that sends nothing and leaves the storage alone.
LEMMA KeyLocal ==
    ASSUME LeaseInv, KeyInv, NEW i \in Instances, UNCHANGED storageVars,
           \A j \in Instances \ {i} : SameCall(j) /\ role'[j] = role[j] /\ lease'[j] = lease[j] /\ version'[j] = version[j],
           role'[i] = "active" => lease'[i].key = KeyID[i] /\ (version'[i] = store.version => store.lease.key = KeyID[i]),
           Writing(i)' => call'[i].lease.key = KeyID[i],
           call'[i].kind = "floor" /\ call'[i].expect = store.version /\ store.version # NoVersion => store.lease.key = KeyID[i]
    PROVE  KeyInv'
  BY DEF KeyInv, SameCall, Writing, storageVars

\* One step per action of the manager, the supervisor, the storage and the clocks.
LEMMA KeyNext == LeaseInv /\ KeyInv /\ [Next]_vars => KeyInv'
  <1> SUFFICES ASSUME LeaseInv, KeyInv, [Next]_vars PROVE KeyInv'
    OBVIOUS
  <1> USE DEF LeaseInv
  <1>1. ASSUME NEW i \in Instances, RenewExpired(i) \/ RenewConflict(i) \/ RenewError(i) PROVE KeyInv'
    BY <1>1, KeyLocal DEF RenewExpired, RenewConflict, RenewError, StepDown, Return, Idle, Asking, SameCall, KeyInv,
          TypeOK, Writing, WriteKinds, managerVars
  <1>2. ASSUME NEW i \in Instances, RenewOk(i) \/ AcquireOk(i) PROVE KeyInv'
    <2>1. Writing(i) /\ call[i].reply = "ok"
      BY <1>2 DEF RenewOk, AcquireOk, Writing, WriteKinds
    <2>2. call[i].lease.key = KeyID[i] /\ (call[i].id = store.version => store.lease.key = KeyID[i])
      BY <2>1 DEF KeyInv, Knowledge
    <2> QED BY <1>2, <2>2, KeyLocal DEF RenewOk, AcquireOk, Return, Idle, Asking, SameCall, TypeOK, Writing, WriteKinds
  <1>3. ASSUME NEW i \in Instances, ReleaseOk(i) \/ ReleaseError(i) \/ Crash(i) PROVE KeyInv'
    BY <1>3, KeyLocal DEF ReleaseOk, ReleaseError, Crash, StepDown, Return, Idle, Asking, SameCall, TypeOK, Writing, WriteKinds
  <1>4. ASSUME NEW i \in Instances, ReadSend(i) \/ ObserveForeign(i) \/ ObserveError(i) \/ AcquireConflict(i) \/ ServeRead(i) PROVE KeyInv'
    BY SMTT(30), <1>4, KeyLocal DEF ReadSend, ObserveForeign, ObserveError, AcquireConflict, ServeRead, Return, Idle, Asking, SameCall,
          KeyInv, TypeOK, Writing, WriteKinds, managerVars
  <1>5. ASSUME NEW i \in Instances, ObserveAbsent(i) PROVE KeyInv'
    BY <1>5, KeyLocal DEF ObserveAbsent, Idle, Asking, SameCall, KeyInv, TypeOK, Writing, WriteKinds
  <1>6. ASSUME NEW i \in Instances, Observe(i) PROVE KeyInv'
    <2>1. call[i].expect = store.version => store.lease.key = KeyID[i]
      BY <1>6 DEF Observe, Knowledge
    <2> QED BY <1>6, <2>1, KeyLocal DEF Observe, Idle, Asking, SameCall, KeyInv, TypeOK, Writing, WriteKinds
  <1>7. ASSUME NEW i \in Instances, RenewSend(i) PROVE KeyInv'
    <2>1. lease[i] \in LeaseType /\ version[i] \in VersionType /\ "renew" \in WriteKinds
      BY DEF TypeOK, WriteKinds
    <2> QED BY <1>7, <2>1, KeySend DEF RenewSend, KeyInv
  <1>8. ASSUME NEW i \in Instances, ReleaseSend(i) PROVE KeyInv'
    <2>1. /\ [lease[i] EXCEPT !.holder = NoHolder] \in LeaseType /\ version[i] \in VersionType /\ "release" \in WriteKinds
          /\ [lease[i] EXCEPT !.holder = NoHolder].key = lease[i].key
      BY DEF TypeOK, WriteKinds, LeaseType
    <2> QED BY ZenonT(60), <1>8, <2>1, KeySend DEF ReleaseSend, KeyInv
  <1>9. ASSUME NEW i \in Instances, AcquireSend(i) PROVE KeyInv'
    <2>1. PICK e \in Nat : Send(i, "acquire", call[i].expect, Lease(i, e))
      BY <1>9, LeaseConstants DEF AcquireSend, Larger, TypeOK, CallType, LeaseType
    <2>2. Lease(i, e) \in LeaseType /\ call[i].expect \in VersionType /\ "acquire" \in WriteKinds
      BY LeaseTyped, CallTyped DEF TypeOK, WriteKinds
    <2>3. Lease(i, e).key = KeyID[i]
      BY DEF Lease
    <2> QED BY <1>9, <2>1, <2>2, <2>3, KeySend DEF AcquireSend, KeyInv
  <1>10. ASSUME NEW i \in Instances, TakeOver(i) \/ LoseLease(i) PROVE KeyInv'
    BY <1>10 DEF TakeOver, LoseLease, KeyInv, storageVars, managerVars, Writing
  <1>11. ASSUME NEW w \in wire, Apply(w) PROVE KeyInv'
    <2>1. store'.version = w.id /\ store'.lease = w.lease /\ wire' \subseteq wire /\ w.by \in Instances
      BY <1>11, WriteTyped DEF Apply, TypeOK
    <2>2. \A i \in Instances : SameCall(i)
      BY <1>11, AnsweredCall DEF Apply, Answer, SameCall, TypeOK
    <2>3. /\ \A x \in wire : x.expect # w.id
          /\ \A i \in Instances : version[i] # w.id /\ call[i].expect # w.id
      BY DEF WritesFresh
    <2> QED BY <1>11, <2>1, <2>2, <2>3 DEF Apply, KeyInv, SameCall, Writing, managerVars
  <1>12. ASSUME NEW w \in wire, Refuse(w) \/ Lose(w) PROVE KeyInv'
    <2>1. store' = store /\ wire' \subseteq wire
      BY <1>12 DEF Refuse, Lose
    <2>2. \A i \in Instances : SameCall(i)
      <3>1. CASE Refuse(w)
        BY <3>1, AnsweredCall DEF Refuse, Answer, SameCall, TypeOK
      <3>2. CASE Lose(w)
        BY <3>2 DEF Lose, SameCall
      <3> QED BY <1>12, <3>1, <3>2
    <2> QED BY <1>12, <2>1, <2>2 DEF Refuse, Lose, KeyInv, SameCall, Writing, managerVars
  <1>13. ASSUME NEW s \in SUBSET Suspending, Tick(s) PROVE KeyInv'
    <2>1. \A i \in Instances : SameCall(i)
      BY <1>13, AgedCallType DEF Tick, SameCall, TypeOK
    <2> QED BY <1>13, <2>1 DEF Tick, KeyInv, SameCall, Writing, storageVars
  <1>14. ASSUME NEW i \in Instances, NEW d \in Jumps, SetWall(i, d) PROVE KeyInv'
    <2>1. \A j \in Instances : SameCall(j)
      BY <1>14, CallTyped DEF SetWall, SameCall, TypeOK, CallType
    <2> QED BY <1>14, <2>1 DEF SetWall, KeyInv, SameCall, Writing, storageVars
  <1>15. ASSUME UNCHANGED vars PROVE KeyInv'
    BY <1>15 DEF vars, storageVars, managerVars, KeyInv, Writing
  <1> QED BY <1>1, <1>2, <1>3, <1>4, <1>5, <1>6, <1>7, <1>8, <1>9, <1>10, <1>11, <1>12, <1>13, <1>14, <1>15
          DEF Next, ManagerStep, SupervisorStep, StorageStep, ClockStep

\* The lease never passes to an instance with another secret key: only an applied write
\* changes it, and what may be applied has the key of the lease it replaces.
THEOREM KeySafe == Spec => KeyKept
  <1>1. LeaseInv /\ KeyInv /\ [Next]_vars => [store.version # NoVersion => store'.lease.key = store.lease.key]_vars
    <2> SUFFICES ASSUME LeaseInv, KeyInv, Next, store.version # NoVersion PROVE store'.lease.key = store.lease.key
      OBVIOUS
    <2>1. store' = store \/ \E w \in wire : Apply(w)
      BY StoreChanges
    <2>2. ASSUME NEW w \in wire, Apply(w) PROVE store'.lease.key = store.lease.key
      BY <2>2 DEF Apply, KeyInv
    <2> QED BY <2>1, <2>2
  <1> QED BY <1>1, KeyInit, KeyNext, LeaseInvariant, PTL DEF Spec, KeyKept
=============================================================================
