--------------------------- MODULE MCEdmacMemcpy ---------------------------
(***************************************************************************)
(* Three tasks and two recorders: enough for a copy, the late interrupts   *)
(* of two earlier ones and users that wait.                                *)
(***************************************************************************)
EXTENDS EdmacMemcpy
=============================================================================
