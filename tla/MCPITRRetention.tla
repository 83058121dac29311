--------------------------- MODULE MCPITRRetention ---------------------------
(* PITRRetention, for TLC. *)
EXTENDS PITRRetention, TLC
=============================================================================
