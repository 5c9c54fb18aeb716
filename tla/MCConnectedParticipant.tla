------------------------ MODULE MCConnectedParticipant ------------------------
(* Small instances of ConnectedParticipant. *)
EXTENDS ConnectedParticipant

CONSTANTS m1, m2, x1, none
=============================================================================
