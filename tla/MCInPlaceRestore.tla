-------------------------- MODULE MCInPlaceRestore --------------------------
(***************************************************************************)
(* InPlaceRestore for TLC: two databases.  Of a restore that is over and   *)
(* recorded only its status matters to what happens next.                  *)
(***************************************************************************)
EXTENDS InPlaceRestore

Recorded == bk.pc = "over" /\ bk.status \in Final

Live == <<db, clone, safety, rec, stored, p, IF Recorded THEN bk.status ELSE bk, stream, mgr, life, past>>
=============================================================================
