------------------------------- MODULE MCExMem ------------------------------
(* An instance of ExMem for TLC.                                           *)
EXTENDS ExMem

=============================================================================
