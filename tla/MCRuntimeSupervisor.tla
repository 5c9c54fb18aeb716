------------------------- MODULE MCRuntimeSupervisor -------------------------
(* Small instances of RuntimeSupervisor. *)
EXTENDS RuntimeSupervisor

CONSTANTS h1, h2, b1
=============================================================================
