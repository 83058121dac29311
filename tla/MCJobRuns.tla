------------------------------ MODULE MCJobRuns ------------------------------
(***************************************************************************)
(* Instances of JobRuns.  The runs of one job, nightly (scheduled, two     *)
(* databases at once) and again (on demand); and a run of the job next to  *)
(* an ad-hoc run and a manual backup that want the same database.          *)
(***************************************************************************)
EXTENDS JobRuns

CONSTANTS nightly, again, adhoc, manual

MCKind == nightly :> "scheduled" @@ again :> "ondemand" @@ adhoc :> "adhoc" @@ manual :> "manual"

JobRunIds == {nightly, again}
JobKind == [r \in JobRunIds |-> MCKind[r]]
JobSelection == nightly :> {1, 2} @@ again :> {1}

LockRunIds == {nightly, adhoc, manual}
LockKind == [r \in LockRunIds |-> MCKind[r]]
LockSelection == nightly :> {1} @@ adhoc :> {1, 2} @@ manual :> {1}

Nightly == {nightly}
=============================================================================
