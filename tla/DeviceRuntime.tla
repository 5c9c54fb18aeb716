---------------------------- MODULE DeviceRuntime ----------------------------
(***************************************************************************)
(* The device's own runtime (onboarding/device_runtime.py): the reporter,  *)
(* which synchronises the user's reporting preference and uploads a        *)
(* discovery snapshot every five minutes (device_reporter.py,              *)
(* reporting_state.py), and the renewal loop (device_renewal_*.py), which  *)
(* replaces the certificate both use.  The command line changes the        *)
(* preference offline, from another process, under the lease of the        *)
(* preference's file (cli/discovery_reporting.py).                         *)
(*                                                                         *)
(* Generation g of the credential holds at most one proposal, of an        *)
(* operation the device itself named, its candidate and its selection; the *)
(* candidate is generation g + 1.  The server is external: it answers only *)
(* the credential it accepts, may lose any request or reply, and accepts   *)
(* the next generation from its activation on.  Times are abstract: a      *)
(* report is fresh until it is not, and a deadline may be over at any      *)
(* answer.  Bounds: MaxRenewals generations (the code reads 64 of them at  *)
(* most, device_renewal_loading.py, and fails beyond them), MaxChanges     *)
(* changes of the preference or the administrator's setting, MaxCrashes    *)
(* crashes or stops.                                                       *)
(***************************************************************************)
EXTENDS Integers

CONSTANTS MaxRenewals, MaxChanges, MaxCrashes

ASSUME DeviceConstants ==
  MaxRenewals \in Nat /\ MaxChanges \in Nat /\ MaxCrashes \in Nat

Generations == 0..MaxRenewals
None == -1

VARIABLES
  runtime,   \* the process: down, resuming, up; it holds the runtime lease unless down
  reporter,  \* DeviceReporter.tick: where it is, and the state it loaded
  renewal,   \* DeviceRenewalLoop.tick: where it is
  cur,       \* generation of the DeviceManagementClient
  store,     \* the preference's file
  lease,     \* its lease is held by the reporter
  cand,      \* generations with a durable candidate for the next one
  chosen,    \* generations whose candidate was selected (device-renewed.json)
  operation, \* the server's state of each generation's renewal
  accepted,  \* the generation the server accepts
  permitted, \* the administrator permits reporting
  data,      \* the server holds discovery data
  changes, crashes

files == <<store, lease, cand, chosen>>
server == <<operation, accepted, permitted, data>>
vars == <<runtime, reporter, renewal, cur, files, server, changes, crashes>>

NotLoaded == [enabled |-> FALSE, pending |-> FALSE, fresh |-> FALSE, present |-> FALSE]

Init ==
  /\ runtime = "down" /\ reporter = [pc |-> "idle", state |-> NotLoaded]
  /\ renewal = "idle" /\ cur = None /\ store = NotLoaded /\ lease = FALSE
  /\ cand = {} /\ chosen = {}
  /\ operation = [g \in Generations |-> "none"] /\ accepted = 0
  /\ permitted = TRUE /\ data = FALSE /\ changes = 0 /\ crashes = 0

Leaf == CHOOSE g \in Generations : g \notin chosen /\ \A k \in Generations : k < g => k \in chosen

-----------------------------------------------------------------------------
(* The user, the administrator and time *)

\* set_enabled: refused while the reporter holds the lease.
SetEnabled(v) ==
  /\ ~lease /\ changes < MaxChanges /\ changes' = changes + 1
  /\ store' = [enabled |-> v, pending |-> TRUE, fresh |-> FALSE, present |-> TRUE]
  /\ UNCHANGED <<runtime, reporter, renewal, cur, lease, cand, chosen, server, crashes>>

Administrate ==
  /\ changes < MaxChanges /\ changes' = changes + 1 /\ permitted' = ~permitted
  /\ UNCHANGED <<runtime, reporter, renewal, cur, files, operation, accepted, data, crashes>>

Ages ==
  /\ store.fresh /\ ~lease /\ store' = [store EXCEPT !.fresh = FALSE]
  /\ UNCHANGED <<runtime, reporter, renewal, cur, lease, cand, chosen, server, changes, crashes>>

Issue(g) ==
  /\ operation[g] = "pending"
  /\ \E s \in {"issued", "failed"} : operation' = [operation EXCEPT ![g] = s]
  /\ UNCHANGED <<runtime, reporter, renewal, cur, files, accepted, permitted, data, changes, crashes>>

-----------------------------------------------------------------------------
(* DeviceReporter.tick *)

Step(pc) == reporter' = [reporter EXCEPT !.pc = pc]
TickEnds == reporter' = [pc |-> "idle", state |-> NotLoaded] /\ lease' = FALSE
\* What the tick does with a preference that needs no synchronisation.
Proceed(state) ==
  IF state.enabled /\ ~state.fresh
    THEN reporter' = [pc |-> "check", state |-> state] /\ UNCHANGED lease
    ELSE TickEnds
\* The server takes a request of the credential it accepts.
Reaches == cur = accepted

\* Wrong variant: the lease is not held while the server is asked.
ReporterTickUnleased ==
  /\ runtime = "up" /\ reporter.pc = "idle" /\ ~lease
  /\ \/ store.pending /\ reporter' = [pc |-> "sync", state |-> store]
     \/ ~store.pending /\ store.enabled /\ ~store.fresh /\ reporter' = [pc |-> "check", state |-> store]
  /\ UNCHANGED <<runtime, renewal, cur, files, server, changes, crashes>>

ReporterTick ==
  /\ runtime = "up" /\ reporter.pc = "idle" /\ ~lease
  /\ \/ store.pending /\ lease' = TRUE /\ reporter' = [pc |-> "sync", state |-> store]
     \/ /\ ~store.pending /\ store.enabled /\ ~store.fresh
        /\ lease' = TRUE /\ reporter' = [pc |-> "check", state |-> store]
  /\ UNCHANGED <<runtime, renewal, cur, store, cand, chosen, server, changes, crashes>>

\* A tick with nothing to do, or one that finds the lease taken.
ReporterWaits == runtime = "up" /\ reporter.pc = "idle" /\ UNCHANGED vars

\* Wrong variant: the preference counts as synchronised when the request was made.
ReporterSyncsAnyway ==
  /\ reporter.pc = "sync"
  /\ LET synced == [reporter.state EXCEPT !.pending = FALSE] IN
     /\ data' = (data /\ (reporter.state.enabled \/ ~Reaches)) /\ store' = synced /\ Proceed(synced)
  /\ UNCHANGED <<runtime, renewal, cur, cand, chosen, operation, accepted, permitted, changes, crashes>>

\* set_reporting(True) or remove_discovery(); a failure leaves it pending.
ReporterSyncs ==
  /\ reporter.pc = "sync"
  /\ LET synced == [reporter.state EXCEPT !.pending = FALSE] IN
     \/ /\ Reaches /\ data' = (data /\ reporter.state.enabled)
        /\ \/ store' = synced /\ Proceed(synced)
           \/ TickEnds /\ UNCHANGED store
     \/ TickEnds /\ UNCHANGED <<data, store>>
  /\ UNCHANGED <<runtime, renewal, cur, cand, chosen, operation, accepted, permitted, changes, crashes>>

ReporterChecks ==
  /\ reporter.pc = "check"
  /\ \/ Reaches /\ permitted /\ Step("upload") /\ UNCHANGED lease
     \/ TickEnds
  /\ UNCHANGED <<runtime, renewal, cur, store, cand, chosen, server, changes, crashes>>

ReporterUploads ==
  /\ reporter.pc = "upload" /\ TickEnds
  /\ \/ /\ Reaches /\ data' = TRUE
        /\ store' = [reporter.state EXCEPT !.fresh = TRUE] \/ UNCHANGED store
     \/ UNCHANGED <<data, store>>
  /\ UNCHANGED <<runtime, renewal, cur, cand, chosen, operation, accepted, permitted, changes, crashes>>

-----------------------------------------------------------------------------
(* DeviceRenewalLoop.tick and renew_device_certificate *)

At(pc) == renewal = pc
Renew(pc) == renewal' = pc
Unrenewed == <<runtime, reporter, store, lease, permitted, data, changes, crashes>>

\* Wrong variant: a retained candidate is never asked about.
RenewalTickForgetful ==
  /\ runtime = "up" /\ At("idle") /\ cur < MaxRenewals /\ Renew("settle")
  /\ UNCHANGED <<cur, cand, chosen, operation, accepted, Unrenewed>>

\* A certificate that is due, of a generation that may still be renewed.
RenewalTick ==
  /\ runtime = "up" /\ At("idle") /\ cur < MaxRenewals
  /\ Renew(IF Leaf \in cand THEN "reconcile" ELSE "settle")
  /\ UNCHANGED <<cur, cand, chosen, operation, accepted, Unrenewed>>

\* The activation of the candidate is read over the candidate itself.
Receipt == operation[Leaf] = "activated" /\ accepted = Leaf + 1

\* Only 403 and 404 lead on with the parent.
Reconcile ==
  /\ At("reconcile")
  /\ \/ Receipt /\ chosen' = chosen \cup {Leaf} /\ Renew("settle")
     \/ ~Receipt /\ Renew("settle") /\ UNCHANGED chosen
     \/ Renew("idle") /\ UNCHANGED chosen
  /\ UNCHANGED <<cur, cand, operation, accepted, Unrenewed>>

\* A selection that is newer than the client is confirmed and taken over,
\* otherwise this generation's own proposal is sent.
Settle ==
  /\ At("settle") /\ Renew(IF Leaf # cur THEN "confirm" ELSE "prepare")
  /\ UNCHANGED <<cur, cand, chosen, operation, accepted, Unrenewed>>

Confirm ==
  /\ At("confirm") /\ Renew("idle")
  /\ (accepted = Leaf /\ cur' = Leaf) \/ UNCHANGED cur
  /\ UNCHANGED <<cand, chosen, operation, accepted, Unrenewed>>

\* The proposal is read, or made and stored, before anything is asked: every
\* later attempt of this generation has the same operation and key.
Prepare ==
  /\ At("prepare") /\ (Renew("begin") \/ Renew("idle"))
  /\ UNCHANGED <<cur, cand, chosen, operation, accepted, Unrenewed>>

Begin ==
  /\ At("begin")
  /\ \/ /\ Reaches
        /\ operation' = [operation EXCEPT ![cur] = IF @ = "none" THEN "pending" ELSE @]
        /\ \/ operation[cur] # "failed" /\ Renew("poll")
           \/ Renew("stopped") \/ Renew("idle")
     \/ Renew("idle") /\ UNCHANGED operation
  /\ UNCHANGED <<cur, cand, chosen, accepted, Unrenewed>>

\* A failed operation, or an answer after the operation's deadline, ends renewal
\* until the service is started again.
Poll ==
  /\ At("poll")
  /\ \/ Reaches /\ operation[cur] = "issued" /\ Renew("stage")
     \/ Reaches /\ Renew("stopped")
     \/ Renew("idle")
  /\ UNCHANGED <<cur, cand, chosen, operation, accepted, Unrenewed>>

Stage ==
  /\ At("stage")
  /\ \/ cand' = cand \cup {cur} /\ Renew("activate")
     \/ UNCHANGED cand /\ Renew("idle")
  /\ UNCHANGED <<cur, chosen, operation, accepted, Unrenewed>>

Activate ==
  /\ At("activate")
  /\ \/ /\ operation[cur] = "issued" /\ accepted = cur
        /\ operation' = [operation EXCEPT ![cur] = "activated"] /\ accepted' = cur + 1
        /\ Renew("select") \/ Renew("receipt")
     \/ Renew("receipt") /\ UNCHANGED <<operation, accepted>>
  /\ UNCHANGED <<cur, cand, chosen, Unrenewed>>

\* Any failure, of the request or of the selection, is followed by one read of the receipt.
Select ==
  /\ At("select")
  /\ \/ chosen' = chosen \cup {cur} /\ Renew("replace")
     \/ UNCHANGED chosen /\ Renew("receipt")
  /\ UNCHANGED <<cur, cand, operation, accepted, Unrenewed>>

ReadReceipt ==
  /\ At("receipt")
  /\ \/ /\ operation[cur] = "activated" /\ accepted = cur + 1
        /\ chosen' = chosen \cup {cur} /\ Renew("replace")
     \/ UNCHANGED chosen /\ Renew("idle")
  /\ UNCHANGED <<cur, cand, operation, accepted, Unrenewed>>

\* replace_credentials waits for the request that uses the transport; if the new
\* one cannot be opened the next tick finds the selection newer than the client.
Replace ==
  /\ At("replace") /\ Renew("idle")
  /\ cur' = cur + 1 \/ UNCHANGED cur
  /\ UNCHANGED <<cand, chosen, operation, accepted, Unrenewed>>

-----------------------------------------------------------------------------
(* DeviceRuntime.open, stop and crash *)

\* resume_stored_device: the candidate of the last selection first, as above.
Start ==
  /\ runtime = "down"
  /\ \/ Leaf \in cand /\ Receipt /\ chosen' = chosen \cup {Leaf} /\ runtime' = "resuming"
     \/ ~(Leaf \in cand /\ Receipt) /\ UNCHANGED chosen /\ runtime' = "resuming"
  /\ UNCHANGED <<reporter, renewal, cur, store, lease, cand, server, changes, crashes>>

\* Then a signed status with the selected credential; the preference's file is
\* created from it only if it is missing.
Resume ==
  /\ runtime = "resuming"
  /\ \/ /\ accepted = Leaf /\ ~lease /\ runtime' = "up" /\ cur' = Leaf
        /\ store' = IF store.present THEN store
                    ELSE [enabled |-> permitted, pending |-> FALSE, fresh |-> FALSE, present |-> TRUE]
     \/ runtime' = "down" /\ UNCHANGED <<cur, store>>
  /\ UNCHANGED <<reporter, renewal, lease, cand, chosen, server, changes, crashes>>

\* A stop cancels both tasks wherever they wait, as a crash does; the system
\* gives the leases back.
Down ==
  /\ runtime # "down" /\ crashes < MaxCrashes /\ crashes' = crashes + 1
  /\ runtime' = "down" /\ renewal' = "idle" /\ cur' = None /\ TickEnds
  /\ UNCHANGED <<store, cand, chosen, server, changes>>

-----------------------------------------------------------------------------

ReporterStep == ReporterTick \/ ReporterSyncs \/ ReporterChecks \/ ReporterUploads
RenewalStep ==
  RenewalTick \/ Reconcile \/ Settle \/ Confirm \/ Prepare \/ Begin \/ Poll \/ Stage \/ Activate
  \/ Select \/ ReadReceipt \/ Replace

Next ==
  \/ \E v \in BOOLEAN : SetEnabled(v)
  \/ Administrate \/ Ages \/ \E g \in Generations : Issue(g)
  \/ ReporterStep \/ ReporterWaits \/ RenewalStep \/ Start \/ Resume \/ Down

Spec == Init /\ [][Next]_vars

\* Both loops tick for ever, a runtime that is down is started again, and no
\* request or file operation fails every time.
Fairness ==
  /\ WF_vars(ReporterStep) /\ WF_vars(RenewalStep) /\ WF_vars(Start) /\ WF_vars(Resume)
  /\ SF_vars(ReporterSyncs /\ store' # store)
  /\ SF_vars(Reconcile /\ chosen' # chosen) /\ SF_vars(Confirm /\ cur' # cur)
  /\ SF_vars(Start /\ chosen' # chosen) /\ SF_vars(Resume /\ runtime' = "up")

LiveSpec == Spec /\ Fairness

-----------------------------------------------------------------------------
(* Properties *)

\* Every variable keeps to its states.
Preference == [enabled : BOOLEAN, pending : BOOLEAN, fresh : BOOLEAN, present : BOOLEAN]
TypeOK ==
  /\ runtime \in {"down", "resuming", "up"}
  /\ reporter \in [pc : {"idle", "sync", "check", "upload"}, state : Preference]
  /\ renewal \in {"idle", "reconcile", "settle", "confirm", "prepare", "begin", "poll", "stage", "activate",
                  "select", "receipt", "replace", "stopped"}
  /\ cur \in Generations \cup {None} /\ store \in Preference /\ lease \in BOOLEAN
  /\ cand \subseteq Generations /\ chosen \subseteq Generations
  /\ operation \in [Generations -> {"none", "pending", "issued", "failed", "activated"}]
  /\ accepted \in Generations /\ {permitted, data} \subseteq BOOLEAN
  /\ changes \in 0..MaxChanges /\ crashes \in 0..MaxCrashes

\* The user's choice stands: once the preference's file exists only the user
\* changes it, across ticks, crashes and starts, and discovery data reaches the
\* server only while the choice on file permits it (reporting_state.py,
\* device_reporter.py tick).
ChoiceStands ==
  [][ /\ (store.present /\ store'.enabled # store.enabled) => changes' = changes + 1
      /\ (data' /\ ~data) => store.enabled ]_vars

\* An opt-out, also one made offline, ends with the server's data removed,
\* whatever becomes of the credential the reporter needs for it, unless the
\* user opts in again.
OptOutRemoves == (store.present /\ store.pending /\ ~store.enabled) ~> (~data \/ store.enabled)

\* A renewal that the server activated comes into use, in the running service or
\* after a restart, although the reply was lost or the process died
\* (device_renewal_recovery.py, device_resume.py).
RenewedIsUsed == \A g \in Generations : (accepted = g) ~> (cur = g \/ accepted # g)
=============================================================================
