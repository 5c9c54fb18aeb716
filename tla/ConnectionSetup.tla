---------------------------- MODULE ConnectionSetup ----------------------------
(***************************************************************************)
(* The setup of a connection, from its submission to the participant that  *)
(* runs with its credential (onboarding/workload_setup_flow.py and         *)
(* native_setup_flow.py with their stores and activations,                 *)
(* workload_runtime.py), around the rotations of CertificateRotation.      *)
(*                                                                         *)
(* The request's draft, with its keys, is on disk before it is submitted.  *)
(* An advance asks the gateway for the status of the request and takes the *)
(* next step: it claims a certificate, or stores the issued one, activates *)
(* it and records the activation, or reconciles a rotated one.  Every open *)
(* of a participant advances first.  Nothing excludes another advance in   *)
(* another process: `run' is the one that opens the participant, `look'    *)
(* any other (a listing of connections, a client beside the participant).  *)
(* The setup key and the certificate never change: what counts is which    *)
(* files are there.  A certificate is stored in a directory of its own,    *)
(* a generation, which counts once the pointer names it.  Credential 0 of  *)
(* CertificateRotation is this one; it is accepted once the request is     *)
(* installed.                                                              *)
(*                                                                         *)
(* Bounds: those of CertificateRotation, and MaxFailures for the failures  *)
(* and deaths of `run' before its participant starts.                      *)
(***************************************************************************)
EXTENDS CertificateRotation

CONSTANTS Kinds, MaxFailures

ASSUME SetupConstants == Kinds \subseteq {"workload", "native"} /\ MaxFailures \in Nat

Setups == {"run", "look"}
Ahead == {"approved", "issuing", "issued", "installed"}
Stages == {"idle", "recover", "status", "load", "claim", "fetch", "commit", "activate",
           "record", "open", "resume"}

VARIABLES
  kind,     \* of the connection: a workload or a native host
  request,  \* its status at the gateway
  pinned,   \* workload: the receipt of the submission is stored
  stored,   \* the pointer to the stored certificate is there
  whole,    \* so is the generation it names, with certificate and key
  receipt,  \* activation.json beside it
  stage,    \* where each advance stands
  seen,     \* the status it was told
  flight,   \* an activation is on its way whose sender has given up
  failures

files == <<pinned, stored, whole, receipt>>
setup == <<kind, request, files, stage, seen, flight, failures>>
setupVars == <<vars, setup>>

SetupInit ==
  /\ Init
  /\ kind \in Kinds /\ request = "none"
  /\ pinned = FALSE /\ stored = FALSE /\ whole = FALSE /\ receipt = FALSE
  /\ stage = [p \in Setups |-> "idle"] /\ seen = [p \in Setups |-> "none"]
  /\ flight = FALSE /\ failures = 0

-----------------------------------------------------------------------------
(* The gateway and the people who decide *)

\* Signed in, a user submits the saved draft, perhaps again.  The reply may be
\* lost; what is pinned is never replaced.
Submit ==
  /\ request' = IF request = "none" THEN "pending" ELSE request
  /\ pinned' \in {pinned, pinned \/ kind = "workload"}
  /\ UNCHANGED <<vars, kind, stored, whole, receipt, stage, seen, flight, failures>>

\* Approval, for a native host with the consent of the device's owner; a
\* refusal stands for denial, cancellation, expiry and failure.
Decide ==
  /\ \/ request = "pending" /\ request' = "approved"
     \/ request = "issuing" /\ request' = "issued"
     \/ request \in {"pending", "approved", "issuing", "issued"} /\ request' = "refused"
  /\ UNCHANGED <<vars, kind, files, stage, seen, flight, failures>>

\* An activation names the certificate that was issued first.
CanAdmit == request \in {"issued", "installed"} /\ accepted = 0
Admits == CanAdmit /\ request' = "installed"

ArrivesAfterAll ==
  /\ flight /\ flight' = FALSE
  /\ Admits \/ UNCHANGED request
  /\ UNCHANGED <<vars, kind, files, stage, seen, failures>>

-----------------------------------------------------------------------------
(* One advance *)

At(p, s) == stage[p] = s
To(p, s) == stage' = [stage EXCEPT ![p] = s]
Others(p) == UNCHANGED <<vars, kind, flight, failures>> /\ seen' = [seen EXCEPT ![p] = "none"]

\* WorkloadReceiptStore.load: without a receipt it is recovered first.
Advance(p) ==
  /\ At(p, "idle") /\ (p = "run" => phase = "down")
  /\ To(p, IF kind = "workload" /\ ~pinned THEN "recover" ELSE "status")
  /\ Others(p) /\ UNCHANGED <<request, files>>

\* recover_workload_receipt: the lost reply to the submission.
Recovers(p) ==
  /\ At(p, "recover")
  /\ IF request = "none" THEN To(p, "idle") /\ UNCHANGED pinned
       ELSE To(p, "status") /\ pinned' = TRUE
  /\ Others(p) /\ UNCHANGED <<request, stored, whole, receipt>>

AskStatus(p) ==
  /\ At(p, "status")
  /\ IF request \in Ahead THEN To(p, "load") /\ seen' = [seen EXCEPT ![p] = request]
       ELSE To(p, "idle") /\ UNCHANGED seen
  /\ UNCHANGED <<vars, kind, request, files, flight, failures>>

\* retained_history_time: the first certificate was rotated, or is about to be.
History == selected[0] # None \/ CandidatesOf(0) # {}

\* A workload looks for a stored certificate whatever the status, a native host
\* once it is installed.  What was activated is never claimed anew.
Found(p) == stored /\ whole /\ (kind = "workload" \/ seen[p] = "installed")
Load(p) ==
  /\ At(p, "load")
  /\ \/ Found(p) /\ ~History /\ To(p, "activate")
     \/ Found(p) /\ History /\ To(p, IF receipt THEN "resume" ELSE "idle")
     \/ ~Found(p) /\ To(p, CASE seen[p] = "approved" -> "claim"
                             [] seen[p] = "installed" -> "idle"
                             [] OTHER -> "fetch")
  /\ Others(p) /\ UNCHANGED <<request, files>>

Claim(p) ==
  /\ At(p, "claim") /\ To(p, "idle")
  /\ request' = IF request = "approved" THEN "issuing" ELSE request
  /\ Others(p) /\ UNCHANGED files

\* Wrong variant: activates what it was given and stores what is then known to be active.
FetchToActivate(p) ==
  /\ At(p, "fetch")
  /\ To(p, IF request \in {"issued", "installed"} THEN "activate" ELSE "idle")
  /\ Others(p) /\ UNCHANGED <<request, files>>

Fetch(p) ==
  /\ At(p, "fetch")
  /\ To(p, IF request \in {"issued", "installed"} THEN "commit" ELSE "idle")
  /\ Others(p) /\ UNCHANGED <<request, files>>

\* Wrong variant: whoever failed removes what it wrote, also when it counts.
CommitForgetful(p) ==
  /\ At(p, "commit")
  /\ \/ /\ ~stored /\ stored' = TRUE
        /\ \/ whole' = TRUE /\ To(p, "activate")
           \/ whole' = FALSE /\ To(p, "idle")
     \/ stored /\ To(p, IF whole THEN "activate" ELSE "idle") /\ UNCHANGED <<stored, whole>>
  /\ Others(p) /\ UNCHANGED <<request, pinned, receipt>>

\* commit_credential_generation (and select_native_credential).  At "commit" an
\* attempt writes certificate and key into a directory of its own, which nobody
\* reads; then it links the pointer to it: once, also when the link is reported
\* as a failure, or finds it there, removes its own directory and compares.
Commit(p) ==
  /\ At(p, "commit")
  /\ \/ /\ ~stored /\ stored' = TRUE /\ whole' = TRUE
        /\ To(p, "activate") \/ To(p, "idle")
     \/ stored /\ To(p, IF whole THEN "activate" ELSE "idle") /\ UNCHANGED <<stored, whole>>
  /\ Others(p) /\ UNCHANGED <<request, pinned, receipt>>

\* Wrong variant: the reply of the gateway is enough.
ActivateUnrecorded(p) ==
  /\ At(p, "activate")
  /\ \/ Admits /\ To(p, "open")
     \/ ~CanAdmit /\ UNCHANGED request /\ To(p, "idle")
  /\ Others(p) /\ UNCHANGED files

\* activate_stored_workload and activate_stored_native, again at every open of a
\* connection that has not been rotated.
ActivateFirst(p) ==
  /\ At(p, "activate")
  /\ \/ Admits /\ To(p, "record")
     \/ ~CanAdmit /\ UNCHANGED request /\ To(p, "idle")
  /\ Others(p) /\ UNCHANGED files

\* save_..._activation_receipt: created once, or found there and compared.
Record(p) ==
  /\ At(p, "record")
  /\ To(p, "open") /\ receipt' = TRUE
  /\ Others(p) /\ UNCHANGED <<request, pinned, stored, whole>>

\* The participant starts; with a history its startup reconciles it first.
Open ==
  /\ stage["run"] \in {"open", "resume"} /\ To("run", "idle")
  /\ Start
  /\ UNCHANGED <<kind, request, files, seen, flight, failures>>

\* The other advance ends: it may have reconciled a rotation as well.
LookEnds ==
  /\ stage["look"] \in {"open", "resume"} /\ To("look", "idle")
  /\ \/ /\ At("look", "resume") /\ CandidatesOf(Leaf) # {}
        /\ SelectElsewhere(First(CandidatesOf(Leaf)))
     \/ UNCHANGED vars
  /\ UNCHANGED <<kind, request, files, seen, flight, failures>>

\* Any step of an advance may fail, and its process may die: a generation that no
\* pointer names is never read, and an activation that was being sent may still
\* arrive.
Fails(p) ==
  /\ ~At(p, "idle") /\ To(p, "idle") /\ seen' = [seen EXCEPT ![p] = "none"]
  /\ IF p = "run" THEN failures < MaxFailures /\ failures' = failures + 1 ELSE UNCHANGED failures
  /\ flight' \in {flight, flight \/ At(p, "activate")}
  /\ UNCHANGED <<vars, kind, request, files>>

-----------------------------------------------------------------------------

AdvanceStep(p) ==
  \/ Advance(p) \/ Recovers(p) \/ AskStatus(p) \/ Load(p) \/ Claim(p) \/ Fetch(p)
  \/ Commit(p) \/ ActivateFirst(p) \/ Record(p)

\* The participant that is open, and the gateway's part in its rotations.
Rotation ==
  \/ Prepare \/ Begin \/ Poll \/ Stage \/ Activate \/ Status \/ Recover \/ Install
  \/ Crash \/ Stop \/ Ask \/ Select \/ Verify
  \/ \E o \in Ops : Issue(o) \/ Cancel(o) \/ ArrivesLate(o)

SetupNext ==
  \/ Submit \/ Decide \/ ArrivesAfterAll
  \/ \E p \in Setups : AdvanceStep(p) \/ Fails(p)
  \/ Open \/ LookEnds
  \/ Rotation /\ UNCHANGED setup

SetupSpec == SetupInit /\ [][SetupNext]_setupVars

\* The connection is opened again until it runs, and the gateway issues what was
\* claimed; the startup's part is that of CertificateRotation.
Alone(A) == A /\ UNCHANGED setup
SetupFairness ==
  /\ WF_setupVars(AdvanceStep("run") \/ Open)
  /\ WF_setupVars(Decide /\ request = "issuing")
  /\ WF_setupVars(Alone(Ask)) /\ WF_setupVars(Alone(Verify)) /\ WF_setupVars(Alone(Select))
  /\ SF_setupVars(Alone(Ask /\ phase' = "select")) /\ SF_setupVars(Alone(Select /\ phase' = "running"))

SetupLiveSpec == SetupSpec /\ SetupFairness

-----------------------------------------------------------------------------
(* Properties *)

\* Every variable keeps to its states.
SetupTypes ==
  /\ kind \in Kinds /\ request \in Ahead \cup {"none", "pending", "refused"}
  /\ pinned \in BOOLEAN /\ stored \in BOOLEAN /\ whole \in BOOLEAN /\ receipt \in BOOLEAN
  /\ stage \in [Setups -> Stages]
  /\ seen \in [Setups -> Ahead \cup {"none"}]
  /\ flight \in BOOLEAN /\ failures \in 0..MaxFailures

\* What the gateway has installed is on disk, certificate and key under the
\* pointer: an activated connection is never one whose credential is gone, which
\* no advance could repair, although several advances may die or run beside each
\* other at any step (workload_setup_flow.py:76, native_setup_flow.py:75).
AdmittedIsStored == request = "installed" => stored /\ whole

\* A participant runs, and a certificate is rotated, only when the activation of
\* the first one is on record: otherwise the next open would find a rotated
\* credential without its receipt and refuse it for ever
\* (require_workload_activation_receipt, load_native_activation_receipt).
OpenedIsRecorded ==
  (phase # "down" \/ cands # {}) => request = "installed" /\ stored /\ whole /\ receipt

\* An approved connection comes to run, or is refused, whatever reply was lost
\* and whichever step failed on the way (workload_receipt_recovery.py,
\* credential_generation.py, workload_activation_receipt.py).
ApprovedRuns == request = "approved" ~> (phase = "running" \/ request = "refused")
=============================================================================
