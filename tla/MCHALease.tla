------------------------------ MODULE MCHALease ------------------------------
(* HALease on two instances, for TLC. *)
EXTENDS HALease, TLC

CONSTANTS a, b

MCInstances == {a, b}
MCVersions == 1..8

SameTTL == [i \in {a, b} |-> 3]
EachRenew == [i \in {a, b} |-> 1]
TwoKeys == (a :> "key") @@ (b :> "other")
OneKey == [i \in {a, b} |-> "key"]
OneSuspends == {a}
Nothing == {}
WallJumps == {-3, 3}
MCFloors == {0}

\* A version matters only as far as it is the one in the storage, or the one a
\* call waits for; a standby no longer reads the lease it held, nor an active
\* instance what it saw as a standby.  States that agree on the rest behave alike.
Current(v) == v = store.version
SeenView(i) ==
    LET read == call[i].kind = "read" /\ call[i].reply = "ok"
        same == read /\ call[i].expect = seenVersion[i]
    IN  <<Current(seenVersion[i]), same,
          IF Current(seenVersion[i]) \/ same THEN seenAge[i] ELSE 0, cooldown[i]>>
CallView(i) ==
    LET c == call[i] IN
    <<c.kind, c.reply, c.sent, c.wall, c.lease, Current(c.expect), c.expect = NoVersion, Current(c.id)>>
WriteView(w) == <<w.kind, w.by, w.lease, Current(w.expect), w.id = call[w.by].id>>
Live ==
    <<store.lease, store.version = NoVersion, Cardinality({w \in wire : Pending(w)}), {WriteView(w) : w \in {x \in wire : Pending(x)}},
      [i \in Instances |->
         <<CallView(i), work[i], seenEpoch[i],
           IF role[i] = "active" THEN <<"active", lease[i], Current(version[i]), sent[i], sentWall[i]>>
                                 ELSE <<"standby", SeenView(i)>> >>]>>
=============================================================================
