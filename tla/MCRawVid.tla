------------------------------ MODULE MCRawVid ------------------------------
(***************************************************************************)
(* The recorder with three events, one stop_com task at a time and crop    *)
(* buffers of one frame: the smallest instance in which the first event of *)
(* a session leaks and frames, commands and buffer swaps still meet.       *)
(***************************************************************************)
EXTENDS RawVid
=============================================================================
