----------------------------- MODULE DryosTasks -----------------------------
(* The tasks that call the services modelled here, and the value a lock     *)
(* has while no task holds it.                                              *)
CONSTANTS Tasks, NoTask

ASSUME TasksAssumption == NoTask \notin Tasks
=============================================================================
