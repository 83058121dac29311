---------------------------- MODULE FencingToken ----------------------------
(***************************************************************************)
(* What the HA lease promises (docs/design/ha.md, the fencing of runs): an *)
(* epoch is issued to one instance, only while no instance may use an      *)
(* earlier one, and is never issued again; an instance may use only an     *)
(* epoch that is issued to it, and at most one does.  An instance may stop *)
(* and, while nothing newer was issued, resume using its epoch.            *)
(***************************************************************************)
EXTENDS Naturals

CONSTANTS Instances, NoHolder

VARIABLES
    issued, \* the epoch issued last
    holder, \* the instance it was issued to, NoHolder once surrendered
    user    \* the instance that may use it now, NoHolder when none may

vars == <<issued, holder, user>>

Init == issued = 0 /\ holder = NoHolder /\ user = NoHolder

Issue(i) ==
    /\ user = NoHolder
    /\ issued' > issued /\ issued' \in Nat
    /\ holder' = i
    /\ UNCHANGED user

Use(i) ==
    /\ user = NoHolder /\ holder = i
    /\ user' = i
    /\ UNCHANGED <<issued, holder>>

Stop ==
    /\ user # NoHolder
    /\ user' = NoHolder
    /\ UNCHANGED <<issued, holder>>

Surrender ==
    /\ user = NoHolder
    /\ holder' = NoHolder
    /\ UNCHANGED <<issued, user>>

Next == Stop \/ Surrender \/ \E i \in Instances : Issue(i) \/ Use(i)

Spec == Init /\ [][Next]_vars
=============================================================================
