-------------------------- MODULE MCGovernedAction --------------------------
(* The instance of GovernedAction that TLC checks: model values in the cfg. *)
EXTENDS GovernedAction
=============================================================================
