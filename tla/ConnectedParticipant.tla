------------------------- MODULE ConnectedParticipant -------------------------
(***************************************************************************)
(* A connected participant (connected/participant*.py): the receive loop   *)
(* that claims and accepts leased messages, the delivery tasks that run a  *)
(* handler beside the renewal of its lease and commit its result, the      *)
(* supervised certificate rotation that pauses receiving, direct MCP calls *)
(* that share the handler slots, and start, stop and credential reload.    *)
(* The gateway's queue is external, modelled by what the client relies on: *)
(* a lease lapses unless renewed, a lapsed message is delivered again      *)
(* under a new lease, and acknowledgement and result are idempotent for    *)
(* one lease.  Any request or reply may be lost.                           *)
(*                                                                         *)
(* An action is what happens between two awaits.  Time is abstract: a      *)
(* timeout, the last of a bounded number of attempts and a failure are     *)
(* each a choice.  Bounds: MaxLeases leases of a message, and the calls    *)
(* of start, stop and reload.                                              *)
(***************************************************************************)
EXTENDS Integers, FiniteSets, Sequences

CONSTANTS
  Messages,        \* messages of the gateway's queue
  Rotations,       \* those that are certificate.rotate controls
  Directs,         \* direct MCP calls of native clients
  NoDelivery,
  MaxConcurrency,  \* max_concurrency
  MaxLeases, MaxStarts, MaxStops, MaxReloads

ASSUME ParticipantConstants ==
  /\ IsFiniteSet(Messages) /\ IsFiniteSet(Directs) /\ Rotations \subseteq Messages
  /\ MaxConcurrency \in Nat \ {0} /\ MaxLeases \in Nat \ {0}
  /\ MaxStarts \in Nat /\ MaxStops \in Nat /\ MaxReloads \in Nat

\* A delivery is a message under one lease.
Deliveries == Messages \X (1..MaxLeases)

ASSUME NoDeliveryIsNone == NoDelivery \notin Deliveries /\ Directs \cap Deliveries = {}

VARIABLES
  life,      \* the holder of _lifecycle_lock: its phase, and what comes after it
  stopping,  \* callers of stop() waiting for the lock
  calls,     \* lifecycle calls still to come
  stopEvent, \* self._stop_event
  enabled,   \* self._receive_enabled
  instance,  \* self._instance_id is set
  receiver,  \* _receive_loop: where it is and the delivery it holds
  task,      \* each delivery's task
  direct,    \* each direct call's task
  waiters,   \* deliveries and calls waiting for self._semaphore, in order
  queue,     \* the gateway's queue
  runs,      \* how often the handler was started for a delivery
  confirmed  \* deliveries whose result the gateway confirmed to the client

lifecycle == <<life, stopping, calls, stopEvent>>
directs == <<direct, waiters>>
seen == <<runs, confirmed>>
vars == <<lifecycle, enabled, instance, receiver, task, directs, queue, seen>>

IsRotation(d) == d[1] \in Rotations

OrdinaryPhases == {"slot", "handling", "committing", "conflict"}
RotationPhases == {"quiesce", "issue", "install", "restore", "report"}
LiveDeliveries == {d \in Deliveries : task[d] \notin {"none", "ended"}}
LiveDirects == {x \in Directs : direct[x] \in {"slot", "running"}}

\* Wrong variant: a task keeps its slot after it ended.
HoldingLeaked ==
  Cardinality({d \in Deliveries : ~IsRotation(d) /\ task[d] \in (OrdinaryPhases \cup {"ended"}) \ {"slot"}})
  + Cardinality({x \in Directs : direct[x] = "running"})

\* Slots of self._semaphore taken.
Holding ==
  Cardinality({d \in Deliveries : task[d] \in OrdinaryPhases \ {"slot"}})
  + Cardinality({x \in Directs : direct[x] = "running"})

Init ==
  /\ life = [phase |-> "off", after |-> "off"] /\ stopping = FALSE
  /\ calls = [start |-> MaxStarts, stop |-> MaxStops, reload |-> MaxReloads]
  /\ stopEvent = FALSE /\ enabled = TRUE /\ instance = FALSE
  /\ receiver = [pc |-> "off", d |-> NoDelivery]
  /\ task = [d \in Deliveries |-> "none"]
  /\ direct = [x \in Directs |-> "none"] /\ waiters = <<>>
  /\ queue = [m \in Messages |-> [state |-> "queued", lease |-> 0]]
  /\ runs = [d \in Deliveries |-> 0] /\ confirmed = {}

-----------------------------------------------------------------------------
(* The gateway's queue *)

Owns(d) == queue[d[1]].lease = d[2]
SetState(d, s) == queue' = [queue EXCEPT ![d[1]].state = s]

\* A lease that was not renewed in time lapses, and the message is queued
\* again, or given up after its last lease.
LeaseLapses(m) ==
  /\ queue[m].state \in {"leased", "accepted"}
  /\ queue' = [queue EXCEPT ![m].state = IF queue[m].lease < MaxLeases THEN "queued" ELSE "dead"]
  /\ UNCHANGED <<lifecycle, enabled, instance, receiver, task, directs, seen>>

\* The gateway takes an acknowledgement or a result of the current lease, and
\* repeats its answer to one it already took.
Takes(d, from, to) == Owns(d) /\ queue[d[1]].state \in {from, to} /\ SetState(d, to)

-----------------------------------------------------------------------------
(* _receive_loop and _receive_once *)

At(pc) == receiver.pc = pc
GoOn(pc) == receiver' = [receiver EXCEPT !.pc = pc]
NextRound == receiver' = [pc |-> "gate", d |-> NoDelivery]

ReceiveGate ==
  /\ At("gate")
  /\ \/ stopEvent /\ GoOn("off")
     \/ ~stopEvent /\ enabled /\ GoOn("capacity")
  /\ UNCHANGED <<lifecycle, enabled, instance, task, directs, queue, seen>>

\* Wrong variant: one task over the limit.
HasCapacityOffByOne == Cardinality(LiveDeliveries) + Cardinality(LiveDirects) <= MaxConcurrency

HasCapacity == Cardinality(LiveDeliveries) + Cardinality(LiveDirects) < MaxConcurrency

\* Claim only with a task to spare, registering first where needed.
ReceiveCapacity ==
  /\ At("capacity")
  /\ \/ stopEvent /\ NextRound /\ UNCHANGED instance
     \/ /\ ~stopEvent /\ HasCapacity
        /\ \/ GoOn("claim") /\ instance' = TRUE
           \/ ~instance /\ NextRound /\ UNCHANGED instance
  /\ UNCHANGED <<lifecycle, enabled, task, directs, queue, seen>>

\* The long poll ends: empty, failed or refused (403 and 404 forget the
\* registration), or with a message; its reply may be lost after the lease.
Claim ==
  /\ At("claim")
  /\ \/ NextRound /\ instance' \in {instance, FALSE} /\ UNCHANGED queue
     \/ \E m \in Messages :
          /\ instance /\ UNCHANGED instance
          /\ queue[m].state = "queued" /\ queue[m].lease < MaxLeases
          /\ queue' = [queue EXCEPT ![m] = [state |-> "leased", lease |-> @.lease + 1]]
          /\ \/ receiver' = [pc |-> "validate", d |-> <<m, queue[m].lease + 1>>]
             \/ NextRound
  /\ UNCHANGED <<lifecycle, enabled, task, directs, seen>>

\* An unsupported operation or an invalid capability is rejected; otherwise a
\* rotation pauses receiving before it is accepted.
Validate ==
  /\ At("validate")
  /\ \/ GoOn("reject") /\ UNCHANGED enabled
     \/ GoOn("accept") /\ enabled' = (enabled /\ ~IsRotation(receiver.d))
     \/ NextRound /\ UNCHANGED enabled
  /\ UNCHANGED <<lifecycle, instance, task, directs, queue, seen>>

Reject ==
  /\ At("reject")
  /\ Takes(receiver.d, "leased", "rejected") \/ UNCHANGED queue
  /\ NextRound
  /\ UNCHANGED <<lifecycle, enabled, instance, task, directs, seen>>

\* _track_delivery: the task exists from here on, and an ordinary one queues
\* for a handler slot.
Track(d) ==
  /\ task' = [task EXCEPT ![d] = IF IsRotation(d) THEN "quiesce" ELSE "slot"]
  /\ waiters' = IF IsRotation(d) THEN waiters ELSE Append(waiters, d)

\* The accepting acknowledgement: a lost request or reply is retried, the
\* delivery is dispatched on the reply, and giving up reopens receiving.
Accept ==
  LET d == receiver.d IN
  /\ At("accept")
  /\ \/ instance /\ Takes(d, "leased", "accepted") /\ Track(d) /\ NextRound /\ UNCHANGED enabled
     \/ instance /\ Takes(d, "leased", "accepted") /\ UNCHANGED <<task, waiters, receiver, enabled>>
     \/ NextRound /\ enabled' = (enabled \/ IsRotation(d)) /\ UNCHANGED <<queue, task, waiters>>
  /\ UNCHANGED <<lifecycle, instance, direct, seen>>

Receive == ReceiveGate \/ ReceiveCapacity \/ Claim \/ Validate \/ Reject \/ Accept

\* _heartbeat_loop: registers again, or learns that the registration is gone.
Heartbeat ==
  /\ receiver.pc # "off" /\ ~stopEvent /\ enabled
  /\ instance' = ~instance
  /\ UNCHANGED <<lifecycle, enabled, receiver, task, directs, queue, seen>>

-----------------------------------------------------------------------------
(* _process: one ordinary delivery *)

Goes(d, pc) == task' = [task EXCEPT ![d] = pc]

\* asyncio.Semaphore admits its waiters in order.
TakesSlot(w) ==
  /\ waiters # <<>> /\ Head(waiters) = w /\ Holding < MaxConcurrency
  /\ waiters' = Tail(waiters)

TakeSlot(d) ==
  /\ TakesSlot(d)
  /\ Goes(d, "handling")
  /\ runs' = [runs EXCEPT ![d] = @ + 1]
  /\ UNCHANGED <<lifecycle, enabled, instance, receiver, direct, queue, confirmed>>

\* The handler returned or raised: either way its outcome is committed.
HandlerEnds(d) ==
  /\ task[d] = "handling"
  /\ Goes(d, "committing")
  /\ UNCHANGED <<lifecycle, enabled, instance, receiver, directs, queue, seen>>

\* Wrong variant: takes the conflict for the result's receipt.
RenewalEndsTrusted(d) ==
  /\ task[d] \in {"handling", "committing"}
  /\ Goes(d, "ended")
  /\ \/ UNCHANGED confirmed
     \/ /\ task[d] = "committing" /\ (~Owns(d) \/ queue[d[1]].state # "accepted")
        /\ confirmed' = confirmed \cup {d}
  /\ UNCHANGED <<lifecycle, enabled, instance, receiver, directs, queue, runs>>

\* The first failed renewal ends the delivery and cancels its handler or its
\* commit; only a conflict (409: the lease is settled or lapsed) leaves a
\* commit that was already started to be awaited.
RenewalEnds(d) ==
  /\ task[d] \in {"handling", "committing"}
  /\ \/ Goes(d, "ended")
     \/ /\ task[d] = "committing"
        /\ ~Owns(d) \/ queue[d[1]].state # "accepted"
        /\ Goes(d, "conflict")
  /\ UNCHANGED <<lifecycle, enabled, instance, receiver, directs, queue, seen>>

\* Wrong variant: starts over when the reply was lost.
CommitReruns(d) ==
  /\ task[d] \in {"committing", "conflict"}
  /\ Takes(d, "accepted", "settled")
  /\ \/ Goes(d, "ended") /\ confirmed' = confirmed \cup {d}
     \/ Goes(d, "handling") /\ UNCHANGED confirmed
  /\ runs' = IF task'[d] = "handling" THEN [runs EXCEPT ![d] = @ + 1] ELSE runs
  /\ UNCHANGED <<lifecycle, enabled, instance, receiver, directs>>

\* One attempt to commit the result; an answer ends it, a lost request or
\* reply may be retried with the same result.
Commit(d) ==
  /\ task[d] \in {"committing", "conflict"}
  /\ \/ /\ instance /\ Takes(d, "accepted", "settled")
        /\ \/ Goes(d, "ended") /\ confirmed' = confirmed \cup {d}
           \/ UNCHANGED <<task, confirmed>>
     \/ Goes(d, "ended") /\ UNCHANGED <<queue, confirmed>>
  /\ UNCHANGED <<lifecycle, enabled, instance, receiver, directs, runs>>

-----------------------------------------------------------------------------
(* _process_certificate_rotation *)

\* Wrong variant: does not wait for the deliveries that are running.
QuiesceSkipped(d) ==
  /\ task[d] = "quiesce"
  /\ Goes(d, "issue")
  /\ UNCHANGED <<lifecycle, enabled, instance, receiver, directs, queue, seen>>

\* The other deliveries end, or the wait times out, or preparation fails.  A
\* failed rotation drops the registration and registers again.  The code waits
\* for the tasks tracked when it begins; receiving is paused, so that no later
\* delivery can join them.  A heartbeat in flight, which it does not track, has
\* no state here.
Quiesce(d) ==
  /\ task[d] = "quiesce"
  /\ \/ LiveDeliveries = {d} /\ LiveDirects = {} /\ Goes(d, "issue") /\ UNCHANGED instance
     \/ Goes(d, "restore") /\ instance' = FALSE
  /\ UNCHANGED <<lifecycle, enabled, receiver, directs, queue, seen>>

\* Drain, request, poll and activate.  The gateway's cutover settles the
\* message; the client may learn of it, be told of a failure, or neither.
Issue(d) ==
  /\ task[d] = "issue"
  /\ Takes(d, "accepted", "settled") \/ UNCHANGED queue
  /\ \/ queue'[d[1]].state = "settled" /\ Goes(d, "install")
     \/ Goes(d, "restore")
  /\ instance' = FALSE
  /\ UNCHANGED <<lifecycle, enabled, receiver, directs, seen>>

\* The new session replaces the old one, which is closed; then register.
Install(d) ==
  /\ task[d] = "install"
  /\ Goes(d, "ended") /\ enabled' = TRUE
  /\ instance' \in BOOLEAN
  /\ UNCHANGED <<lifecycle, receiver, directs, queue, seen>>

\* Registered again or not, a lasting failure is reported; a temporary one
\* leaves the message to its next lease.
Restore(d) ==
  /\ task[d] = "restore"
  /\ instance' \in BOOLEAN
  /\ \/ Goes(d, "report") /\ UNCHANGED enabled
     \/ Goes(d, "ended") /\ enabled' = TRUE
  /\ UNCHANGED <<lifecycle, receiver, directs, queue, seen>>

\* Wrong variant: receiving stays paused when the report fails.
ReportUnprotected(d) ==
  /\ task[d] = "report"
  /\ \/ /\ Takes(d, "accepted", "settled")
        /\ Goes(d, "ended") /\ confirmed' = confirmed \cup {d} /\ enabled' = TRUE
     \/ Goes(d, "ended") /\ UNCHANGED <<queue, confirmed, enabled>>
  /\ UNCHANGED <<lifecycle, instance, receiver, directs, runs>>

\* Confirmed or given up, receiving opens again.
Report(d) ==
  /\ task[d] = "report"
  /\ \/ /\ instance /\ Takes(d, "accepted", "settled")
        /\ \/ Goes(d, "ended") /\ confirmed' = confirmed \cup {d} /\ enabled' = TRUE
           \/ UNCHANGED <<task, confirmed, enabled>>
     \/ Goes(d, "ended") /\ enabled' = TRUE /\ UNCHANGED <<queue, confirmed>>
  /\ UNCHANGED <<lifecycle, instance, receiver, directs, runs>>

Rotation(d) == Quiesce(d) \/ Issue(d) \/ Install(d) \/ Restore(d) \/ Report(d)

-----------------------------------------------------------------------------
(* handle_mcp_request: a direct call is a tracked task in a handler slot *)

Started == life.phase \in {"up", "drain", "grace", "deregister"}
DirectGoes(x, pc) == direct' = [direct EXCEPT ![x] = pc]

DirectCall(x) ==
  /\ direct[x] = "none"
  /\ IF Started /\ ~stopEvent /\ instance
       THEN DirectGoes(x, "slot") /\ waiters' = Append(waiters, x)
       ELSE DirectGoes(x, "ended") /\ UNCHANGED waiters
  /\ UNCHANGED <<lifecycle, enabled, instance, receiver, task, queue, seen>>

DirectSlot(x) ==
  /\ TakesSlot(x)
  /\ DirectGoes(x, IF stopEvent THEN "ended" ELSE "running")
  /\ UNCHANGED <<lifecycle, enabled, instance, receiver, task, queue, seen>>

DirectEnds(x) ==
  /\ direct[x] = "running"
  /\ DirectGoes(x, "ended")
  /\ UNCHANGED <<waiters, lifecycle, enabled, instance, receiver, task, queue, seen>>

-----------------------------------------------------------------------------
(* start, stop and reload_client_certificate, serialised by _lifecycle_lock *)

Called(op) == calls[op] > 0 /\ calls' = [calls EXCEPT ![op] = @ - 1]
Phase(p) == life' = [life EXCEPT !.phase = p]

\* Open the participant: the event is cleared under the lock.
StartLocked == Phase("register") /\ stopEvent' = FALSE

Start ==
  /\ life.phase = "off" /\ ~stopping /\ Called("start")
  /\ StartLocked
  /\ UNCHANGED <<stopping, enabled, instance, receiver, task, directs, queue, seen>>

\* _register succeeds and the loops start, or cleanup follows its failure.
Registered ==
  /\ life.phase = "register"
  /\ \/ /\ Phase("up") /\ instance' = TRUE /\ UNCHANGED stopEvent
        /\ receiver' = [pc |-> "gate", d |-> NoDelivery]
     \/ /\ life' = [phase |-> "drain", after |-> "off"] /\ stopEvent' = TRUE
        /\ UNCHANGED <<instance, receiver>>
  /\ UNCHANGED <<stopping, calls, enabled, task, directs, queue, seen>>

\* stop() raises the event before it waits for the lock.
CallStop ==
  /\ ~stopping /\ life.phase # "off" /\ Called("stop")
  /\ stopping' = TRUE /\ stopEvent' = TRUE
  /\ UNCHANGED <<life, enabled, instance, receiver, task, directs, queue, seen>>

\* Wrong variant: looks at the event again under the lock.
BeginStopRechecked ==
  /\ stopping /\ stopEvent /\ life.phase \in {"up", "off"}
  /\ life' = [phase |-> "drain", after |-> "off"]
  /\ stopping' = FALSE /\ stopEvent' = TRUE
  /\ UNCHANGED <<calls, enabled, instance, receiver, task, directs, queue, seen>>

BeginStop ==
  /\ stopping /\ life.phase \in {"up", "off"}
  /\ life' = [phase |-> "drain", after |-> "off"]
  /\ stopping' = FALSE /\ stopEvent' = TRUE
  /\ UNCHANGED <<calls, enabled, instance, receiver, task, directs, queue, seen>>

Reload ==
  /\ life.phase = "up" /\ Called("reload")
  /\ life' = [phase |-> "drain", after |-> "register"] /\ stopEvent' = TRUE
  /\ UNCHANGED <<stopping, enabled, instance, receiver, task, directs, queue, seen>>

\* The loops are cancelled; one that was accepting a rotation reopens
\* receiving on its way out.
JoinLoops ==
  /\ life.phase = "drain"
  /\ Phase("grace")
  /\ receiver' = [pc |-> "off", d |-> NoDelivery]
  /\ enabled' = (enabled \/ (At("accept") /\ IsRotation(receiver.d)))
  /\ UNCHANGED <<stopping, calls, stopEvent, instance, task, directs, queue, seen>>

\* Wrong variant: tasks still running after the grace period go on.
GraceNotCancelled ==
  /\ life.phase = "grace"
  /\ Phase("deregister")
  /\ UNCHANGED <<stopping, calls, stopEvent, enabled, instance, receiver, task, directs, queue, seen>>

\* The tasks end within the grace period, or those left are cancelled and
\* joined.  A cancelled rotation reopens receiving only from its last step.
Grace ==
  /\ life.phase = "grace"
  /\ Phase("deregister")
  /\ task' = [d \in Deliveries |-> IF d \in LiveDeliveries THEN "ended" ELSE task[d]]
  /\ direct' = [x \in Directs |-> IF x \in LiveDirects THEN "ended" ELSE direct[x]]
  /\ waiters' = <<>>
  /\ enabled' = (enabled \/ \E d \in LiveDeliveries : task[d] = "report")
  /\ UNCHANGED <<stopping, calls, stopEvent, instance, receiver, queue, seen>>

\* Deregistered, and the session closed; a reload starts again at once.
Deregister ==
  /\ life.phase = "deregister"
  /\ instance' = FALSE
  /\ \/ life.after = "off" /\ Phase("off") /\ UNCHANGED stopEvent
     \/ life.after = "register" /\ StartLocked
  /\ UNCHANGED <<stopping, calls, enabled, receiver, task, directs, queue, seen>>

Lifecycle == Registered \/ BeginStop \/ JoinLoops \/ Grace \/ Deregister
Calls == Start \/ CallStop \/ Reload

DeliveryStep(d) == TakeSlot(d) \/ HandlerEnds(d) \/ RenewalEnds(d) \/ Commit(d) \/ Rotation(d)
DirectStep(x) == DirectSlot(x) \/ DirectEnds(x)

Next ==
  \/ \E m \in Messages : LeaseLapses(m)
  \/ Receive \/ Heartbeat
  \/ \E d \in Deliveries : DeliveryStep(d)
  \/ \E x \in Directs : DirectCall(x) \/ DirectStep(x)
  \/ Calls \/ Lifecycle

Spec == Init /\ [][Next]_vars

-----------------------------------------------------------------------------
TypeOK ==
  /\ life \in [phase : {"off", "register", "up", "drain", "grace", "deregister"},
               after : {"off", "register"}]
  /\ stopping \in BOOLEAN /\ calls \in [start : 0..MaxStarts, stop : 0..MaxStops, reload : 0..MaxReloads]
  /\ stopEvent \in BOOLEAN /\ enabled \in BOOLEAN /\ instance \in BOOLEAN
  /\ receiver \in [pc : {"off", "gate", "capacity", "claim", "validate", "accept", "reject"},
                   d : Deliveries \cup {NoDelivery}]
  /\ receiver.pc \in {"validate", "accept", "reject"} => receiver.d \in Deliveries
  /\ task \in [Deliveries -> {"none", "ended"} \cup OrdinaryPhases \cup RotationPhases]
  /\ direct \in [Directs -> {"none", "slot", "running", "ended"}]
  /\ waiters \in Seq(Deliveries \cup Directs)
  /\ queue \in [Messages -> [state : {"queued", "leased", "accepted", "settled", "rejected", "dead"},
                             lease : 0..MaxLeases]]
  /\ runs \in [Deliveries -> Nat] /\ confirmed \subseteq Deliveries

\* No retry ever starts a handler again: each lease runs it at most once,
\* whatever replies are lost between acknowledgement and result.
HandlerOncePerLease == \A d \in Deliveries : runs[d] <= 1

\* What the client took for a confirmed result is the gateway's settled result
\* of that lease: a renewal conflict is no receipt.
ConfirmedIsSettled ==
  \A d \in confirmed : Owns(d) /\ queue[d[1]].state = "settled"

\* An accepted delivery never waits for a handler slot, where nothing would
\* renew its lease: work that finds no slot stays in the gateway's queue.
AcceptedFindsSlot == \A d \in Deliveries : task[d] = "slot" => Holding < MaxConcurrency

\* While a rotation replaces the session, no other delivery and no direct call
\* is using the one it closes.
RotationAlone ==
  \A d \in Deliveries : task[d] = "install" =>
    LiveDeliveries = {d} /\ \A x \in Directs : direct[x] # "running"

\* A stopped participant has no task left that could act, and is registered
\* nowhere.
StoppedIsQuiet ==
  life.phase = "off" => LiveDeliveries = {} /\ LiveDirects = {} /\ At("off") /\ ~instance

-----------------------------------------------------------------------------
\* Ready callbacks run, requests and handlers end by their timeouts, and an
\* attempt loop is bounded, so that its last attempt gives up.
Fairness ==
  /\ WF_vars(Receive) /\ WF_vars(Lifecycle)
  /\ SF_vars(Accept /\ receiver'.pc = "gate")
  /\ \A d \in Deliveries : /\ WF_vars(TakeSlot(d)) /\ WF_vars(HandlerEnds(d))
                            /\ WF_vars((Commit(d) \/ Rotation(d)) /\ task'[d] # task[d])
  /\ \A x \in Directs : WF_vars(DirectSlot(x)) /\ WF_vars(DirectEnds(x))

FairSpec == Spec /\ Fairness

\* Every dispatched delivery and every direct call ends, and gives its handler
\* slot to the next.
DeliveryEnds ==
  /\ \A d \in Deliveries : d \in LiveDeliveries ~> d \notin LiveDeliveries
  /\ \A x \in Directs : x \in LiveDirects ~> x \notin LiveDirects

\* stop() ends in a stopped participant, also when a reload is under way that
\* starts the participant again.
StopEnds == stopping ~> life.phase = "off"

\* A rotation reopens receiving however it ends, unless the participant is
\* being stopped or reloaded meanwhile.
RotationReopens ==
  ~enabled /\ (At("accept") \/ \E d \in Deliveries : task[d] \in RotationPhases)
    ~> enabled \/ life.phase # "up"
=============================================================================
