----------------------------- MODULE HookControl -----------------------------
(***************************************************************************)
(* The native-hook controller around the outcome store: preflight and      *)
(* postflight RPC handlers (integrations/agents/hook_control_actions.py),  *)
(* the delivery and maintenance loops (hook_control.py) and start, stop    *)
(* and crash (hook_control_transport.py), composed with HookOutbox.        *)
(* The host and the gateway are external: the host runs what it was        *)
(* allowed to run and may report it, twice or never; the gateway answers a *)
(* decision or an outcome in any way, or its answer is lost.               *)
(*                                                                         *)
(* One action key stands for one host correlation (the grant does not      *)
(* change while a controller runs).  Bounds: budget caps crashes and       *)
(* storage failures; RPCs live at most one clock unit, well below the TTL. *)
(***************************************************************************)
EXTENDS HookOutbox

CONSTANTS Rpcs, Maint, MaxCrashes, MaxFailures

ASSUME ControlConstants ==
  /\ Callers = Rpcs \cup {Deliverer, Maint} /\ Deliverer # Maint
  /\ Rpcs \cap {Deliverer, Maint} = {}
  /\ "rejected" \in Outcomes
  /\ Ttl > 1 /\ MaxCrashes \in Nat /\ MaxFailures \in Nat

VARIABLES
  rpc,        \* each RPC handler: its program counter, tool call, start
  reserving,  \* self._reserving
  unadmitted, \* self._quota_unadmitted
  wakeup,     \* self._outbox_wakeup
  loop,       \* the delivery loop: pc, outcomes left in its snapshot, current
  ran,        \* how often the host was allowed a tool call it reports, since
              \* the last reservation of it came into the file (host)
  told,       \* tool calls whose outcome the host was told is queued (host)
  gateway,    \* what the gateway has answered for a key's outcome (gateway)
  budget      \* crashes and storage failures still to come

handlers == <<rpc, reserving, unadmitted>>
outside == <<ran, told, gateway, budget>>
controlVars == <<vars, handlers, wakeup, loop, outside>>

NoRpc == [pc |-> "idle", key |-> NoKey, since |-> 0]
NoLoop == [pc |-> "off", queue |-> {}, key |-> NoKey]

ControlInit ==
  /\ Init
  /\ rpc = [r \in Rpcs |-> NoRpc]
  /\ reserving = {} /\ unadmitted = {}
  /\ wakeup = FALSE /\ loop = NoLoop
  /\ ran = [k \in Keys |-> 0] /\ told = {} /\ gateway = [k \in Keys |-> "open"]
  /\ budget = [crashes |-> MaxCrashes, failures |-> MaxFailures]

GoTo(r, pc) == rpc' = [rpc EXCEPT ![r].pc = pc] /\ UNCHANGED reserving
\* A handler returns or raises; a preflight leaves self._reserving with it.
Finish(r) ==
  /\ rpc' = [rpc EXCEPT ![r] = NoRpc]
  /\ reserving' = IF rpc[r].pc \in {"lookup", "found", "recording"}
                  THEN reserving ELSE reserving \ {rpc[r].key}
\* The RPC answers allowed: the host may have stopped waiting for it.
Allow(k) == ran' \in {ran, [ran EXCEPT ![k] = @ + 1]}
Use(r, op, p, o) == Invoke(r, op, rpc[r].key, p, o)

-----------------------------------------------------------------------------
(* action.preflight *)

\* A host may ask again at any time, also for what it was allowed; a second
\* preflight of a key already in one is refused outright.
PreflightBegin(r, k) ==
  /\ run = "up" /\ rpc[r].pc = "idle"
  /\ k \notin reserving
  /\ reserving' = reserving \cup {k}
  /\ rpc' = [rpc EXCEPT ![r] = [pc |-> "deciding", key |-> k, since |-> now]]
  /\ UNCHANGED <<vars, unadmitted, wakeup, loop, outside>>

\* The gateway's decision arrives: refused or failed; executable, for a host that
\* reports (postflight_required) or one that does not; with obligations this
\* client cannot discharge; or quota exhausted with local continuation, which
\* looks for an admission first.
Decide(r) ==
  /\ rpc[r].pc = "deciding"
  /\ \/ Finish(r) /\ UNCHANGED vars
     \/ /\ \E p \in Prints : Use(r, "reserve", p, "none")
        /\ GoTo(r, "reserve")
     \/ GoTo(r, "unreported") /\ UNCHANGED vars
     \/ /\ \E p \in Prints : Use(r, "reserve", p, "none")
        /\ GoTo(r, "reserveToReject")
     \/ Use(r, "lookup", NoPrint, "none") /\ GoTo(r, "quota")
  /\ UNCHANGED <<unadmitted, wakeup, loop, outside>>

\* Wrong variant: goes on when the reservation could not be stored.
PreflightReservedRegardless(r) ==
  /\ rpc[r].pc \in {"reserve", "reserveToReject"}
  /\ \/ (Reserve(r, "awaiting") \/ AfterPrune(r, "awaiting")) /\ UNCHANGED <<rpc, reserving>>
     \/ (AfterCommit(r) \/ StorageError(r)) /\ GoTo(r, "enforce")
  /\ UNCHANGED <<unadmitted, wakeup, loop, outside>>

\* Wrong variant: takes a reservation that exists for its own.
PreflightReservedTwice(r) ==
  /\ rpc[r].pc \in {"reserve", "reserveToReject"}
  /\ \/ (Reserve(r, "full") \/ AfterPrune(r, "full") \/ StorageError(r)) /\ Finish(r)
     \/ (Reserve(r, "awaiting") \/ AfterPrune(r, "awaiting")) /\ UNCHANGED <<rpc, reserving>>
     \/ /\ AfterCommit(r) \/ Reserve(r, "duplicate") \/ AfterPrune(r, "duplicate")
        /\ GoTo(r, IF rpc[r].pc = "reserve" THEN "enforce" ELSE "reject")
  /\ UNCHANGED <<unadmitted, wakeup, loop, outside>>

\* The reservation ends; whatever it raised denies the action.
PreflightReserved(r) ==
  /\ rpc[r].pc \in {"reserve", "reserveToReject"}
  /\ \/ \E x \in {"duplicate", "full"} :
          (Reserve(r, x) \/ AfterPrune(r, x)) /\ Finish(r)
     \/ StorageError(r) /\ Finish(r)
     \/ (Reserve(r, "awaiting") \/ AfterPrune(r, "awaiting")) /\ UNCHANGED <<rpc, reserving>>
     \/ AfterCommit(r) /\ GoTo(r, IF rpc[r].pc = "reserve" THEN "enforce" ELSE "reject")
  /\ UNCHANGED <<unadmitted, wakeup, loop, outside>>

\* The signed directive is verified and local policy applied.  Success is the
\* RPC's answer, which the host may have stopped waiting for.  A call that is not
\* reported has no reservation: it is allowed whenever the gateway allows it.
Enforce(r) ==
  /\ rpc[r].pc \in {"enforce", "unreported"}
  /\ \/ /\ Finish(r)
        /\ IF rpc[r].pc = "enforce" THEN Allow(rpc[r].key) ELSE UNCHANGED ran
        /\ UNCHANGED vars
     \/ /\ rpc[r].pc = "enforce"
        /\ GoTo(r, "reject")
        /\ UNCHANGED <<vars, ran>>
     \/ /\ rpc[r].pc = "unreported"
        /\ \E p \in Prints : Use(r, "reserve", p, "none")
        /\ GoTo(r, "reserveToReject")
        /\ UNCHANGED ran
  /\ UNCHANGED <<unadmitted, wakeup, loop, told, gateway, budget>>

\* An admission the client refuses locally is reported as such, then denied.
Reject(r) ==
  /\ rpc[r].pc = "reject"
  /\ Use(r, "record", NoPrint, "rejected")
  /\ GoTo(r, "rejecting")
  /\ UNCHANGED <<unadmitted, wakeup, loop, outside>>

\* Out of quota but allowed to continue, as the handler saw before it asked for
\* the admission: never for a key that has one.  The report to come is remembered
\* as one not to record; a repeat without an admission continues again, so that
\* only one beside an admission counts.
QuotaLocal(r) ==
  /\ rpc[r].pc = "quota"
  /\ ReadTable(r, "lookup")
  /\ Finish(r)
  /\ \/ UNCHANGED <<unadmitted, ran>>
     \/ /\ rpc[r].key \notin Present(mem)
        /\ unadmitted' \in {unadmitted, unadmitted \cup {rpc[r].key}}
        /\ IF rpc[r].key \in Present(disk) THEN Allow(rpc[r].key) ELSE UNCHANGED ran
  /\ UNCHANGED <<wakeup, loop, told, gateway, budget>>

-----------------------------------------------------------------------------
(* action.postflight *)

\* A host may report at any time; only the table tells whether it was admitted.
PostflightBegin(r, k) ==
  /\ run = "up" /\ rpc[r].pc = "idle"
  /\ Invoke(r, "lookup", k, NoPrint, "none")
  /\ rpc' = [rpc EXCEPT ![r] = [NoRpc EXCEPT !.pc = "lookup", !.key = k, !.since = now]]
  /\ UNCHANGED <<reserving, unadmitted, wakeup, loop, outside>>

PostflightLookup(r) ==
  LET k == rpc[r].key IN
  /\ rpc[r].pc = "lookup"
  /\ ReadTable(r, "lookup")
  /\ IF k \in Present(mem) THEN GoTo(r, "found") /\ UNCHANGED unadmitted
                            ELSE Finish(r) /\ unadmitted' = unadmitted \ {k}
  /\ UNCHANGED <<wakeup, loop, outside>>

PostflightRecord(r) ==
  /\ rpc[r].pc = "found"
  /\ \E p \in Prints, o \in Outcomes \ {"rejected"} : Use(r, "record", p, o)
  /\ GoTo(r, "recording")
  /\ UNCHANGED <<unadmitted, wakeup, loop, outside>>

\* Wrong variant: a storage error counts as recorded.
RecordedRegardless(r) ==
  /\ rpc[r].pc \in {"recording", "rejecting"}
  /\ \/ RecordOutcome(r, "awaiting") /\ UNCHANGED <<rpc, reserving, wakeup, told>>
     \/ /\ AfterCommit(r) \/ StorageError(r)
        /\ Finish(r) /\ wakeup' = TRUE
        /\ told' = told \cup {rpc[r].key}
  /\ UNCHANGED <<unadmitted, loop, ran, gateway, budget>>

\* The record ends, for a host's report or for a local rejection; only a
\* stored one wakes the delivery loop.
Recorded(r) ==
  /\ rpc[r].pc \in {"recording", "rejecting"}
  /\ \/ RecordOutcome(r, "awaiting") /\ UNCHANGED <<rpc, reserving, wakeup, told>>
     \/ /\ RecordOutcome(r, "unavailable") \/ RecordOutcome(r, "mismatch") \/ StorageError(r)
        /\ Finish(r) /\ UNCHANGED <<wakeup, told>>
     \/ /\ AfterCommit(r) /\ Finish(r) /\ wakeup' = TRUE
        /\ told' = IF rpc[r].pc = "recording" THEN told \cup {rpc[r].key} ELSE told
  /\ UNCHANGED <<unadmitted, loop, ran, gateway, budget>>

\* The RPC budget runs out at whatever the handler awaits.
Timeout(r) ==
  /\ rpc[r].pc # "idle"
  /\ IF call[r].step = "idle" THEN UNCHANGED vars ELSE Cancel(r)
  /\ Finish(r)
  /\ UNCHANGED <<unadmitted, wakeup, loop, outside>>

-----------------------------------------------------------------------------
(* The delivery loop *)

Advance(pc, queue, k) == loop' = [pc |-> pc, queue |-> queue, key |-> k]

DeliveryRound ==
  /\ loop.pc = "top"
  /\ wakeup' = FALSE
  /\ Invoke(Deliverer, "received", NoKey, NoPrint, "none")
  /\ Advance("read", {}, NoKey)
  /\ UNCHANGED <<handlers, outside>>

DeliverySnapshot ==
  /\ loop.pc = "read"
  /\ ReadTable(Deliverer, "received")
  /\ Advance("next", Received(mem), NoKey)
  /\ UNCHANGED <<handlers, wakeup, outside>>

DeliveryNext ==
  /\ loop.pc = "next"
  /\ \/ loop.queue = {} /\ Advance("wait", {}, NoKey)
     \/ \E k \in loop.queue : Advance("send", loop.queue \ {k}, k)
  /\ UNCHANGED <<vars, handlers, wakeup, outside>>

\* The gateway accepts an outcome, or refuses it, or the attempt fails; a failed
\* attempt may have been accepted all the same.  Any refusal is for good: one
\* for want of authorization or quota (401, 403, 409, 429) drops the outcome too.
Answer(k) == gateway' = [gateway EXCEPT ![k] = "answered"]

DeliveryAnswered ==
  /\ loop.pc = "send"
  /\ Answer(loop.key)
  /\ Advance("settled", loop.queue, loop.key)
  /\ UNCHANGED <<vars, handlers, wakeup, ran, told, budget>>

\* Wrong variant: drops an outcome whose attempt failed.
DeliveryFailedDropped ==
  /\ loop.pc = "send"
  /\ UNCHANGED gateway \/ Answer(loop.key)
  /\ Advance("settled", loop.queue, loop.key)
  /\ UNCHANGED <<vars, handlers, wakeup, ran, told, budget>>

DeliveryFailed ==
  /\ loop.pc = "send"
  /\ UNCHANGED gateway \/ Answer(loop.key)
  /\ Advance("next", loop.queue, NoKey)
  /\ UNCHANGED <<vars, handlers, wakeup, ran, told, budget>>

\* Setup evidence is written first; its failure is swallowed.
DeliveryAcknowledge ==
  /\ loop.pc = "settled"
  /\ Invoke(Deliverer, "acknowledge", loop.key, NoPrint, "none")
  /\ Advance("ack", loop.queue, loop.key)
  /\ UNCHANGED <<handlers, wakeup, outside>>

\* Nothing around acknowledge() catches a storage error: it ends the task.
DeliveryAcknowledged ==
  /\ loop.pc = "ack"
  /\ \/ Acknowledge(Deliverer, "awaiting") /\ UNCHANGED loop
     \/ /\ Acknowledge(Deliverer, "ok") \/ AfterCommit(Deliverer)
        /\ Advance("next", loop.queue, NoKey)
     \/ StorageError(Deliverer) /\ Advance("dead", {}, NoKey)
  /\ UNCHANGED <<handlers, wakeup, outside>>

\* Wrong variant: no retry interval.
DeliveryWaitWoken ==
  /\ loop.pc = "wait" /\ wakeup
  /\ Advance("top", {}, NoKey)
  /\ UNCHANGED <<vars, handlers, wakeup, outside>>

\* Woken by a recorded outcome, or by the retry interval.
DeliveryWait ==
  /\ loop.pc = "wait"
  /\ Advance("top", {}, NoKey)
  /\ UNCHANGED <<vars, handlers, wakeup, outside>>

(* The maintenance loop: prune, whatever happens, every few seconds. *)
Maintenance ==
  /\ \/ Invoke(Maint, "prune", NoKey, NoPrint, "none")
     \/ \E x \in Replies : Prune(Maint, x) \/ AfterPrune(Maint, x)
     \/ StorageError(Maint)
  /\ UNCHANGED <<handlers, wakeup, loop, outside>>

-----------------------------------------------------------------------------
(* Storage, life cycle and time *)

\* A new reservation in the file is another admission of the call: its outcome
\* is open, nobody was told of one, and the host was not allowed to run it.
ControlDisk ==
  /\ DiskReplace \/ OrphanReplace
  /\ LET new == Present(disk') \ Present(disk) IN
       /\ gateway' = [k \in Keys |-> IF k \in new THEN "open" ELSE gateway[k]]
       /\ ran' = [k \in Keys |-> IF k \in new THEN 0 ELSE ran[k]]
       /\ told' = told \ new
  /\ UNCHANGED <<handlers, wakeup, loop, budget>>

ControlLoop ==
  /\ Publish \/ LoadRead
  /\ UNCHANGED <<handlers, wakeup, loop, outside>>

ControlDiskFail ==
  /\ budget.failures > 0 /\ DiskFail
  /\ budget' = [budget EXCEPT !.failures = @ - 1]
  /\ UNCHANGED <<handlers, wakeup, loop, ran, told, gateway>>

\* start() loads the outbox on the task that runs the controller; RPCs and
\* the two loops begin once it is loaded.
ControlStart ==
  /\ \/ Start(Maint) /\ UNCHANGED loop
     \/ AfterRead(Maint) /\ loop' = [NoLoop EXCEPT !.pc = IF run' = "up" THEN "top" ELSE "off"]
     \/ Loaded(Maint) /\ loop' = [NoLoop EXCEPT !.pc = "top"]
  /\ UNCHANGED <<handlers, wakeup, outside>>

\* The controller is gone with everything it held in memory.
ControlStop ==
  /\ \/ /\ budget.crashes > 0 /\ (Crash \/ Stop)
        /\ budget' = [budget EXCEPT !.crashes = @ - 1]
     \/ LoadError /\ UNCHANGED budget
  /\ rpc' = [r \in Rpcs |-> NoRpc]
  /\ reserving' = {} /\ unadmitted' = {}
  /\ wakeup' = FALSE /\ loop' = NoLoop
  /\ UNCHANGED <<ran, told, gateway>>

\* Local continuation is remembered for less than one unit of the clock.
ControlTick ==
  /\ Tick
  /\ \A r \in Rpcs : rpc[r].pc # "idle" => rpc[r].since = now
  /\ unadmitted' = {}
  /\ UNCHANGED <<rpc, reserving, wakeup, loop, outside>>

Rpc(r) ==
  \/ \E k \in Keys : PreflightBegin(r, k) \/ PostflightBegin(r, k)
  \/ Decide(r) \/ PreflightReserved(r) \/ Enforce(r) \/ Reject(r) \/ QuotaLocal(r)
  \/ PostflightLookup(r) \/ PostflightRecord(r) \/ Recorded(r)
  \/ Timeout(r)

Delivery ==
  \/ DeliveryRound \/ DeliverySnapshot \/ DeliveryNext \/ DeliveryAnswered
  \/ DeliveryFailed \/ DeliveryAcknowledge \/ DeliveryAcknowledged \/ DeliveryWait

ControlNext ==
  \/ \E r \in Rpcs : Rpc(r)
  \/ Delivery \/ Maintenance
  \/ ControlDisk \/ ControlLoop \/ ControlDiskFail
  \/ ControlStart \/ ControlStop \/ ControlTick

ControlSpec == ControlInit /\ [][ControlNext]_controlVars

-----------------------------------------------------------------------------
RpcRecord ==
  [pc : {"idle", "deciding", "reserve", "reserveToReject", "enforce", "unreported", "reject",
         "rejecting", "quota", "lookup", "found", "recording"},
   key : Keys \cup {NoKey}, since : 0..Horizon]

ControlTypeOK ==
  /\ rpc \in [Rpcs -> RpcRecord]
  /\ reserving \subseteq Keys /\ unadmitted \subseteq Keys /\ told \subseteq Keys
  /\ wakeup \in BOOLEAN
  /\ loop.pc \in {"off", "top", "read", "next", "send", "settled", "ack", "wait", "dead"}
  /\ loop.queue \subseteq Keys /\ loop.key \in Keys \cup {NoKey}
  /\ ran \in [Keys -> Nat]
  /\ gateway \in [Keys -> {"open", "answered"}]

\* An admitted tool call that must be reported is allowed only with its
\* reservation in the file, so its report survives a restart of the controller:
\* a report that overtakes the answer is stored with it, or settled by now.
AllowedIsReserved ==
  [][\A r \in Rpcs :
       LET k == rpc[r].key IN
       rpc[r].pc = "enforce" /\ ran'[k] > ran[k]
         => k \in Present(disk) \/ gateway[k] # "open"]_ran

\* Under one reservation the host is allowed the call at most once, however often
\* it asks: repeats, local continuation, reports and their delivery overlap, and
\* the store fails, expires entries and is read again by a restarted controller.
\* Once the reservation is gone the gateway decides anew.
AllowedOnce == \A k \in Keys : ran[k] <= 1

\* An outcome the host was told is queued is in the file until the gateway has
\* answered it for good, across cancellations, storage failures and crashes.
QueuedUntilSettled == \A k \in told : k \in Received(disk) \/ gateway[k] # "open"

\* Evidence is dropped only after the gateway's answer to it.
DroppedAfterAnswer ==
  [][\A k \in Received(disk) \ Received(disk') : gateway[k] # "open"]_disk

\* What the delivery loop still holds in its snapshot, or has sent, is what the
\* table holds: nothing expires, is re-reserved or is changed behind its back.
SnapshotIsCurrent ==
  /\ loop.queue \subseteq Received(mem)
  /\ loop.pc \in {"send", "settled"} => loop.key \in Received(mem)

-----------------------------------------------------------------------------
\* Time passes, the loop runs ready callbacks and the disk thread ends; every
\* RPC ends by its timeout; the two loops get the lock, which asyncio hands
\* over in arrival order; the gateway does not fail one outcome for ever.
ControlFairness ==
  /\ WF_controlVars(ControlDisk) /\ WF_controlVars(ControlLoop)
  /\ WF_controlVars(ControlStart) /\ WF_controlVars(ControlTick)
  /\ \A r \in Rpcs : WF_controlVars(Timeout(r))
  /\ WF_controlVars(DeliveryRound) /\ WF_controlVars(DeliveryNext)
  /\ WF_controlVars(DeliveryAcknowledge) /\ WF_controlVars(DeliveryWait)
  /\ SF_controlVars(DeliverySnapshot) /\ SF_controlVars(DeliveryAcknowledged)
  /\ SF_controlVars(Maintenance)
  /\ \A k \in Keys : SF_controlVars(DeliveryAnswered /\ loop.key = k)

FairControlSpec == ControlSpec /\ ControlFairness

\* Received evidence is delivered and dropped in the end: failed attempts,
\* lost answers and wake-ups that came during a round do not strand it.
EvidenceSettled == \A k \in Keys : k \in Received(disk) ~> k \notin Received(disk)
=============================================================================
