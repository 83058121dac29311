-------------------------- MODULE MCArchiveLifecycle --------------------------
(* ArchiveLifecycle, for TLC. *)
EXTENDS ArchiveLifecycle, TLC
=============================================================================
