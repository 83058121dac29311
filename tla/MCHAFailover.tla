---------------------------- MODULE MCHAFailover ----------------------------
(* HAFailover on two instances, for TLC. *)
EXTENDS HAFailover, TLC

CONSTANTS a, b

MCInstances == {a, b}
Alike == Permutations({a, b})

\* What the rest of a behaviour depends on: the predecessor of a lease while its
\* takeover is prepared, of a restored snapshot only the mark once it is restored,
\* the database of an instance as long as no other one has stored a snapshot of a
\* later epoch, and what an instance remembers of the cluster only when objects are changed by hand.
Deciding(i) == Regain \/ sup[i].phase = "standby"
ManagerView(i) ==
    <<mgr[i].role, mgr[i].expired, mgr[i].epoch, mgr[i].mark, mgr[i].signed,
      IF Deciding(i) THEN mgr[i].pred ELSE NoPredecessor,
      IF Hand > 0 THEN <<mgr[i].seenMark, mgr[i].seenEpoch>> ELSE <<>> >>
Passed(i) == Hand = 0 /\ disk[i].lastActive < AuthenticEpoch
Idling(i) == sup[i].phase \in {"down", "standby", "restoring"}
DiskView(i) ==
    <<IF Passed(i) /\ Idling(i) THEN {} ELSE disk[i].data,
      IF Passed(i) THEN 0 ELSE disk[i].lastActive, disk[i].override,
      IF Hand > 0 \/ Histories # {"none"} THEN <<disk[i].high, disk[i].seen, disk[i].authentic>>
      ELSE IF lease.there THEN <<>> ELSE <<disk[i].seen>> >>
SupView(i) ==
    <<sup[i].phase, sup[i].forced, sup[i].empty, sup[i].reasons,
      IF sup[i].phase = "restoring" THEN sup[i].snap
      ELSE IF sup[i].phase = "confirming" THEN TakeoverMark(i) ELSE NoMark>>
TaskView(i) ==
    IF task[i].stage \in {"stored", "recorded"} THEN <<task[i].stage, task[i].snap.mark>>
    ELSE IF task[i].stage = "pruning" THEN <<task[i].stage, task[i].drop \cap snaps>>
    ELSE <<task[i].stage, task[i].snap>>
Live ==
    <<lease, snaps, uploads, clock, hand, IF hand < Hand THEN older ELSE {}, stored, Changes, [i \in Instances |-> TaskView(i)],
      [i \in Instances |-> <<ManagerView(i), DiskView(i), SupView(i)>>]>>
=============================================================================
