---------------------------- MODULE MCModuleLoad ----------------------------
(***************************************************************************)
(* The module loader with one module, which has a deinit routine (no step  *)
(* of the loader lets one module affect another's entry), and a message    *)
(* queue of three places: it can be full, and requests to load and to      *)
(* unload the same strings can be queued behind each other.                *)
(***************************************************************************)
EXTENDS ModuleLoad
=============================================================================
