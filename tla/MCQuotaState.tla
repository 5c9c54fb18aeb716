---------------------------- MODULE MCQuotaState ----------------------------
(* QuotaState with one caller beside the recovery flight. *)
EXTENDS QuotaState

CONSTANTS c1, none
=============================================================================
