------------------------- MODULE CertificateRotation -------------------------
(***************************************************************************)
(* The credential of a connected participant across rotations and restarts *)
(* (connected/participant_rotation.py and rotation_recovery.py,            *)
(* onboarding/retained_rotation.py, renewed_credential.py and              *)
(* credential_generation.py, sdk/certificate_rotation.py).  A credential   *)
(* is known by the operation that issued it, the first one is 0.  Its      *)
(* directory holds one retained replacement key (rotation-prepared.json),  *)
(* a candidate for each operation that was issued (rotation-<op>.json) and *)
(* the one that was selected (renewed.json).  Every file is written whole  *)
(* and linked in place once: it is there or it is not.                     *)
(*                                                                         *)
(* The gateway is external: it issues one operation at a time for the      *)
(* credential it accepts and, when an issued one is activated, accepts the *)
(* new credential only.  Requests and replies may be lost, a lost          *)
(* activation may arrive late, the process may die at any step.  Waiting   *)
(* for other deliveries and the lease of the control message are in        *)
(* ConnectedParticipant.  Bounds: the operations Ops and MaxCrashes.  The  *)
(* code follows 64 selections and reads 8 candidates of a directory at     *)
(* most (renewed_credential.py): beyond that a start fails.  Ops stay      *)
(* within both.                                                            *)
(***************************************************************************)
EXTENDS Integers, FiniteSets

CONSTANTS MaxOps, MaxCrashes

ASSUME RotationConstants == MaxOps \in Nat \ {0} /\ MaxCrashes \in Nat

Ops == 1..MaxOps            \* in the order of their file names
Credentials == 0..MaxOps
None == -1
Attempts == 3

VARIABLES
  phase,    \* the process: down, starting up, running, or where the rotation stands
  cur,      \* the credential it uses
  op,       \* the operation at hand
  tries,    \* attempts of the activation
  prepared, \* the retained key of each credential's directory, 0 if none
  keys,     \* keys generated so far
  cands,    \* operations with a durable candidate
  selected, \* renewed.json of each credential's directory
  gw,       \* the gateway's operations
  accepted, \* the credential the gateway accepts
  wire,     \* activations on their way whose sender has given up
  crashes

process == <<phase, cur, op, tries>>
disk == <<prepared, keys, cands, selected>>
gateway == <<gw, accepted, wire>>
vars == <<process, disk, gateway, crashes>>

Init ==
  /\ phase = "down" /\ cur = None /\ op = None /\ tries = 0
  /\ prepared = [c \in Credentials |-> 0] /\ keys = 0
  /\ cands = {} /\ selected = [c \in Credentials |-> None]
  /\ gw = [o \in Ops |-> [state |-> "none", parent |-> None, key |-> 0]]
  /\ accepted = 0 /\ wire = {} /\ crashes = 0

\* The end of the chain of selections (_resolve_renewals).
IsLeaf(c) == selected[c] = None /\ (c = 0 \/ \E d \in Credentials : selected[d] = c)
Leaf == CHOOSE c \in Credentials : IsLeaf(c)
\* retained_rotation_paths: the candidates of a directory, in the order of their names.
CandidatesOf(c) == {o \in cands : gw[o].parent = c}
First(S) == CHOOSE o \in S : \A p \in S : o <= p

-----------------------------------------------------------------------------
(* The gateway *)

Live(o) == gw[o].state \in {"pending", "issued"}
SetOp(o, s) == gw' = [gw EXCEPT ![o].state = s]
\* An activation counts only for an issued operation of the accepted credential.
CanActivate(o) == gw[o].state = "issued" /\ accepted = gw[o].parent
Activates(o) == CanActivate(o) /\ SetOp(o, "activated") /\ accepted' = o

Issue(o) ==
  /\ gw[o].state = "pending" /\ SetOp(o, "issued")
  /\ UNCHANGED <<process, disk, accepted, wire, crashes>>
Cancel(o) ==
  /\ Live(o) /\ SetOp(o, "cancelled")
  /\ UNCHANGED <<process, disk, accepted, wire, crashes>>
ArrivesLate(o) ==
  /\ o \in wire /\ wire' = wire \ {o}
  /\ Activates(o) \/ UNCHANGED <<gw, accepted>>
  /\ UNCHANGED <<process, disk, crashes>>

-----------------------------------------------------------------------------
(* _perform_certificate_rotation *)

Goto(p) == phase' = p
\* Any failure before the cutover is known ends the attempt: the participant
\* registers with the credential it has and waits for another message.
GiveUp == Goto("running") /\ op' = None /\ tries' = 0 /\ UNCHANGED cur

\* The control message reaches a participant the gateway accepts.  The key is
\* durable before anything is asked of the gateway, and used again ever after.
Prepare ==
  /\ phase = "running" /\ accepted = cur /\ \E o \in Ops : gw[o].state = "none" \/ Live(o)
  /\ Goto("begin")
  /\ IF prepared[cur] # 0 THEN UNCHANGED <<prepared, keys>>
       ELSE keys' = keys + 1 /\ prepared' = [prepared EXCEPT ![cur] = keys + 1]
  /\ UNCHANGED <<cur, op, tries, cands, selected, gateway, crashes>>

\* The other deliveries are drained, then the operation is asked for.  The
\* gateway names the one it has for this credential, or a new one.
Begin ==
  /\ phase = "begin"
  /\ \/ GiveUp /\ UNCHANGED gw
     \/ \E o \in Ops :
          /\ accepted = cur
          /\ \/ Live(o) /\ gw[o].parent = cur /\ UNCHANGED gw
             \/ /\ gw[o].state = "none" /\ \A p \in Ops : ~(Live(p) /\ gw[p].parent = cur)
                /\ gw' = [gw EXCEPT ![o] = [state |-> "pending", parent |-> cur, key |-> prepared[cur]]]
          /\ \/ Goto("poll") /\ op' = o /\ UNCHANGED <<cur, tries>>
             \/ GiveUp
  /\ UNCHANGED <<disk, accepted, wire, crashes>>

Poll ==
  /\ phase = "poll"
  /\ \/ gw[op].state = "issued" /\ Goto("stage") /\ UNCHANGED <<cur, op, tries>>
     \/ GiveUp
  /\ UNCHANGED <<disk, gateway, crashes>>

\* Wrong variant: activates first and stages what is then known to be valid.
StageLater ==
  /\ phase = "stage" /\ Goto("activate")
  /\ UNCHANGED <<cur, op, tries, disk, gateway, crashes>>

\* The issued certificate must be of the retained key.  An existing candidate
\* of the operation is used as it is.
Stage ==
  /\ phase = "stage"
  /\ \/ /\ gw[op].key = prepared[cur] /\ cands' = cands \cup {op}
        /\ (Goto("activate") /\ UNCHANGED <<cur, op, tries>>) \/ GiveUp
     \/ GiveUp /\ UNCHANGED cands
  /\ UNCHANGED <<prepared, keys, selected, gateway, crashes>>

\* One attempt.  A server error may hide that it was committed; a transport
\* error may leave the request on its way.
Activate ==
  /\ phase = "activate" /\ tries' = tries + 1
  /\ \/ Activates(op) /\ Goto("install") /\ UNCHANGED wire
     \/ /\ Activates(op) \/ UNCHANGED <<gw, accepted>>
        /\ UNCHANGED wire
        /\ Goto("recover") \/ (tries + 1 < Attempts /\ Goto("status"))
     \/ UNCHANGED <<gw, accepted>> /\ wire' = wire \cup {op} /\ Goto("recover")
  /\ UNCHANGED <<cur, op, disk, crashes>>

\* After a server error the attempt is repeated only if the gateway, which
\* answers the accepted credential, still calls the operation issued.
Status ==
  /\ phase = "status"
  /\ \/ accepted = cur /\ gw[op].state = "issued" /\ Goto("activate")
     \/ Goto("recover")
  /\ UNCHANGED <<cur, op, tries, disk, gateway, crashes>>

\* Wrong variant: takes a lost reply for an activation.
RecoverHopefully ==
  /\ phase = "recover" /\ Goto("install") /\ UNCHANGED <<cur, op, tries>>
  /\ UNCHANGED <<disk, gateway, crashes>>

\* recover_activated_rotation: the receipt is read with the candidate itself.
Recover ==
  /\ phase = "recover"
  /\ \/ gw[op].state = "activated" /\ accepted = op /\ Goto("install") /\ UNCHANGED <<cur, op, tries>>
     \/ GiveUp
  /\ UNCHANGED <<disk, gateway, crashes>>

\* commit_staged_certificate_rotation: links renewed.json, or finds it there.
Selects(c, o) == selected[c] \in {None, o} /\ selected' = [selected EXCEPT ![c] = o]

\* _install_activated_rotation.  After a failure to store the selection, or to
\* open a session with it, the participant keeps the session it has, whose
\* credential is no longer accepted.
Install ==
  /\ phase = "install" /\ Goto("running") /\ op' = None /\ tries' = 0
  /\ \/ Selects(cur, op) /\ cur' \in {op, cur}
     \/ UNCHANGED <<cur, selected>>
  /\ UNCHANGED <<prepared, keys, cands, gateway, crashes>>

-----------------------------------------------------------------------------
(* Crash, restart and reconcile_retained_rotation *)

Crash ==
  /\ phase # "down" /\ crashes < MaxCrashes /\ crashes' = crashes + 1
  /\ Goto("down") /\ cur' = None /\ op' = None /\ tries' = 0
  /\ UNCHANGED <<disk, gateway>>

\* A participant may also be stopped, in any order with the rest.
Stop ==
  /\ phase = "running" /\ Goto("down") /\ cur' = None
  /\ UNCHANGED <<op, tries, disk, gateway, crashes>>

Starts(c) == Goto("running") /\ cur' = c /\ op' = None /\ UNCHANGED tries

\* Startup looks for candidates in the directory of the last selection and
\* takes the first: no later one is ever looked at.
Start ==
  /\ phase = "down"
  /\ IF CandidatesOf(Leaf) = {}
       THEN Starts(Leaf)
       ELSE Goto("ask") /\ op' = First(CandidatesOf(Leaf)) /\ UNCHANGED <<cur, tries>>
  /\ UNCHANGED <<disk, gateway, crashes>>

\* Wrong variant: a candidate that is not active leaves the current one in use.
AskLenient ==
  /\ phase = "ask"
  /\ \/ gw[op].state = "activated" /\ accepted = op /\ Goto("select") /\ UNCHANGED <<cur, op, tries>>
     \/ Starts(Leaf)
  /\ UNCHANGED <<disk, gateway, crashes>>

\* The credential a candidate would replace: the startup has read it beside it.
Origin == gw[op].parent

\* Only a refusal of the gateway leads on; an outage ends this start.
Ask ==
  /\ phase = "ask"
  /\ \/ gw[op].state = "activated" /\ accepted = op /\ Goto("select") /\ UNCHANGED op
     \/ ~(gw[op].state = "activated" /\ accepted = op) /\ Goto("verify") /\ UNCHANGED op
     \/ Goto("down") /\ op' = None
  /\ UNCHANGED <<cur, tries, disk, gateway, crashes>>

\* Wrong variant: uses the confirmed candidate without selecting it.
SelectNothing ==
  /\ phase = "select" /\ Starts(Leaf)
  /\ UNCHANGED <<disk, gateway, crashes>>

Select ==
  /\ phase = "select"
  /\ \/ Selects(Origin, op) /\ Starts(op)
     \/ Goto("down") /\ op' = None /\ UNCHANGED <<cur, tries, selected>>
  /\ UNCHANGED <<prepared, keys, cands, gateway, crashes>>

\* verify_pending_rotation: the current credential is still accepted and the
\* exact operation still pending; otherwise the participant does not start.  What
\* the start awaits after that, its registration included, belongs to its running.
Verify ==
  /\ phase = "verify"
  /\ \/ accepted = Origin /\ Live(op) /\ gw[op].key = prepared[Origin] /\ Starts(Origin)
     \/ Goto("down") /\ op' = None /\ UNCHANGED <<cur, tries>>
  /\ UNCHANGED <<disk, gateway, crashes>>

\* Another process that opens the same connection (a client beside the
\* participant, another advance of its setup) has reconciled it too: it was told
\* that the candidate is active and selects it.  It has no part in rotations.
SelectElsewhere(o) ==
  /\ o \in cands /\ gw[o].state = "activated"
  /\ Selects(gw[o].parent, o)
  /\ UNCHANGED <<process, prepared, keys, cands, gateway, crashes>>

-----------------------------------------------------------------------------

Next ==
  \/ Prepare \/ Begin \/ Poll \/ Stage \/ Activate \/ Status \/ Recover \/ Install
  \/ Crash \/ Stop \/ Start \/ Ask \/ Select \/ Verify
  \/ \E o \in Ops : Issue(o) \/ Cancel(o) \/ ArrivesLate(o) \/ SelectElsewhere(o)

Spec == Init /\ [][Next]_vars

\* A participant that is down is started again by its user or its supervisor,
\* its requests are sometimes answered, and its disk can sometimes be written.
Fairness ==
  /\ WF_vars(Start) /\ WF_vars(Ask) /\ WF_vars(Verify) /\ WF_vars(Select)
  /\ SF_vars(Ask /\ phase' = "select") /\ SF_vars(Select /\ phase' = "running")

LiveSpec == Spec /\ Fairness

-----------------------------------------------------------------------------
(* Properties *)

\* Every variable keeps to its states.
TypeOK ==
  /\ phase \in {"down", "ask", "select", "verify", "running", "begin", "poll", "stage",
                "activate", "status", "recover", "install"}
  /\ cur \in Credentials \cup {None} /\ op \in Ops \cup {None} /\ tries \in 0..Attempts
  /\ keys \in Nat /\ prepared \in [Credentials -> 0..keys]
  /\ cands \subseteq Ops /\ selected \in [Credentials -> Ops \cup {None}]
  /\ gw \in [Ops -> [state : {"none", "pending", "issued", "cancelled", "activated"},
                     parent : Credentials \cup {None}, key : 0..keys]]
  /\ accepted \in Credentials /\ wire \subseteq Ops /\ crashes \in 0..MaxCrashes

\* Whatever the gateway may come to accept, its private key is on disk: the key
\* of a pending operation is the retained one, and the accepted credential has
\* its durable candidate before the gateway accepts it, also when the process
\* dies, a reply is lost or an activation arrives late
\* (participant_rotation.py:86, credential_generation.py, certificate_preparation.py).
KeysRetained ==
  /\ \A o \in Ops : Live(o) => gw[o].key = prepared[gw[o].parent]
  /\ accepted \in {0} \cup cands

\* renewed.json selects only what the gateway activated, for the credential it
\* lies beside (rotation_recovery.py, commit_staged_certificate_rotation).
SelectedIsActivated ==
  \A c \in Credentials : selected[c] # None =>
    /\ selected[c] \in cands /\ gw[selected[c]] = [gw[selected[c]] EXCEPT !.state = "activated", !.parent = c]

\* A participant that starts uses the credential the gateway accepts when the
\* start's verification ends, and never an earlier one (retained_rotation.py
\* reconcile_retained_rotation).
StartsAccepted == [][phase # "running" /\ cur = None /\ phase' = "running" => cur' = accepted]_vars

\* A participant that is started again after an activation comes to run with
\* the activated credential, however the reply, the process or the disk failed
\* when it was activated.  Not promised when another operation left a candidate
\* beside it or after it: startup looks at the first candidate only, and one
\* whose operation was cancelled keeps the participant from starting at all.
ActivatedIsRecovered ==
  \A o \in Ops :
    (phase = "down" /\ accepted = o /\ CandidatesOf(gw[o].parent) = {o} /\ CandidatesOf(o) = {})
      ~> (cur = o \/ accepted # o)
=============================================================================
