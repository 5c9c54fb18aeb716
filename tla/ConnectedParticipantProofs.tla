----------------------- MODULE ConnectedParticipantProofs -----------------------
(***************************************************************************)
(* Proofs about the connected participant for every set of messages and of *)
(* direct calls, every limit and every number of leases and of lifecycle   *)
(* calls: a lease runs its handler at most once, what was confirmed is     *)
(* settled, nothing acts in a stopped participant, an accepted delivery    *)
(* waits for a slot behind direct calls only, and a rotation is the only   *)
(* delivery that uses the session it replaces.                             *)
(***************************************************************************)
EXTENDS ConnectedParticipant, FiniteSetTheorems, SequenceTheorems, TLAPS

LifeRecord ==
  [phase : {"off", "register", "up", "drain", "grace", "deregister"}, after : {"off", "register"}]
CallsRecord == [start : 0..MaxStarts, stop : 0..MaxStops, reload : 0..MaxReloads]
ReceiverPcs == {"off", "gate", "capacity", "claim", "validate", "accept", "reject"}
ReceiverRecord == [pc : ReceiverPcs, d : Deliveries \cup {NoDelivery}]
QueueStates == {"queued", "leased", "accepted", "settled", "rejected", "dead"}
QueueRecord == [state : QueueStates, lease : 0..MaxLeases]
TaskPhases == {"none", "ended"} \cup OrdinaryPhases \cup RotationPhases
DirectPhases == {"none", "slot", "running", "ended"}

\* The receiver holds a delivery from the claim to the answer of its
\* acknowledgement.
Working == {"validate", "accept", "reject"}

\* The states of every variable.
TypeInv ==
  /\ life \in LifeRecord /\ stopping \in BOOLEAN /\ calls \in CallsRecord
  /\ stopEvent \in BOOLEAN /\ enabled \in BOOLEAN /\ instance \in BOOLEAN
  /\ receiver \in ReceiverRecord
  /\ receiver.pc \in Working => receiver.d \in Deliveries
  /\ task \in [Deliveries -> TaskPhases]
  /\ direct \in [Directs -> DirectPhases]
  /\ waiters \in Seq(Deliveries \cup Directs)
  /\ queue \in [Messages -> QueueRecord]
  /\ runs \in [Deliveries -> Nat] /\ confirmed \subseteq Deliveries

\* Leases are numbered upwards, and the one the receiver holds has no task yet.
Leased ==
  /\ \A d \in Deliveries : task[d] # "none" => d[2] <= queue[d[1]].lease
  /\ receiver.pc \in Working =>
       receiver.d[2] <= queue[receiver.d[1]].lease /\ task[receiver.d] = "none"

\* Nobody waits twice for a slot, or waits that does not want one.
Waiting ==
  /\ \A i \in 1..Len(waiters) :
       /\ waiters[i] \in Deliveries => task[waiters[i]] = "slot"
       /\ waiters[i] \in Directs => direct[waiters[i]] = "slot"
  /\ \A i, j \in 1..Len(waiters) : waiters[i] = waiters[j] => i = j

\* The handler of a delivery has not run before the delivery has its slot.
RunOnce == \A d \in Deliveries : runs[d] <= 1 /\ (task[d] \in {"none", "slot"} => runs[d] = 0)

\* What each phase of a stop has ended already.
Quiet ==
  /\ life.phase \in {"drain", "grace", "deregister"} => stopEvent
  /\ life.phase \in {"grace", "deregister", "off", "register"} => At("off")
  /\ life.phase \in {"deregister", "off", "register"} =>
       LiveDeliveries = {} /\ LiveDirects = {} /\ waiters = <<>>
  /\ life.phase = "off" => ~instance

\* Receiving is paused for the one rotation there is, and once that has waited
\* for the others it is the only delivery.
Paused ==
  /\ At("accept") /\ IsRotation(receiver.d) => ~enabled
  /\ \A d \in Deliveries : task[d] \in RotationPhases => ~enabled /\ receiver.pc \in {"off", "gate"}
  /\ \A d, e \in Deliveries : task[d] \in RotationPhases /\ task[e] \in RotationPhases => d = e
  /\ \A d \in Deliveries : task[d] \in {"issue", "install"} => LiveDeliveries = {d}

\* A message is claimed only with a task to spare, which nobody else takes.
Room ==
  /\ Cardinality(LiveDeliveries) <= MaxConcurrency
  /\ receiver.pc \in Working \cup {"claim"} => Cardinality(LiveDeliveries) < MaxConcurrency

Core == Leased /\ Waiting /\ RunOnce /\ Quiet /\ Paused /\ Room
IInv == TypeInv /\ Core /\ ConfirmedIsSettled

LEMMA TypesOK == TypeInv => TypeOK
  BY DEF TypeInv, TypeOK, LifeRecord, CallsRecord, ReceiverPcs, ReceiverRecord, Working,
         QueueStates, QueueRecord, TaskPhases, DirectPhases

-----------------------------------------------------------------------------
(* Deliveries, and the tasks that are alive *)

LEMMA DeliveryFields ==
  /\ \A d \in Deliveries : d[1] \in Messages /\ d[2] \in 1..MaxLeases
  /\ \A m \in Messages, n \in 1..MaxLeases :
       <<m, n>> \in Deliveries /\ <<m, n>>[1] = m /\ <<m, n>>[2] = n
  BY DEF Deliveries

LEMMA FiniteTasks ==
  /\ IsFiniteSet(Deliveries)
  /\ \A S \in SUBSET Deliveries : IsFiniteSet(S) /\ Cardinality(S) \in Nat
  /\ \A S \in SUBSET Directs : IsFiniteSet(S) /\ Cardinality(S) \in Nat
<1>1. IsFiniteSet(1..MaxLeases)
  BY ParticipantConstants, FS_Interval
<1>2. IsFiniteSet(Deliveries)
  BY <1>1, ParticipantConstants, FS_Product DEF Deliveries
<1> QED
  BY <1>2, ParticipantConstants, FS_Subset, FS_CardinalityType

\* Fewer tasks take no more room.
LEMMA Fewer ==
  ASSUME NEW S \in SUBSET Deliveries, NEW T \in SUBSET S
  PROVE  Cardinality(T) \in Nat /\ Cardinality(S) \in Nat /\ Cardinality(T) <= Cardinality(S)
  BY FiniteTasks, FS_Subset

LEMMA InvInit == Init => IInv
<1> SUFFICES ASSUME Init PROVE IInv
  OBVIOUS
<1>0. LiveDeliveries = {} /\ LiveDirects = {}
  BY DEF Init, LiveDeliveries, LiveDirects
<1>1. TypeInv
  <2>1. calls \in CallsRecord
    BY ParticipantConstants DEF Init, CallsRecord
  <2>2. queue \in [Messages -> QueueRecord]
    BY ParticipantConstants DEF Init, QueueRecord, QueueStates
  <2>3. life \in LifeRecord /\ receiver \in ReceiverRecord /\ receiver.pc = "off"
    BY DEF Init, LifeRecord, ReceiverRecord, ReceiverPcs
  <2>4. task \in [Deliveries -> TaskPhases] /\ direct \in [Directs -> DirectPhases]
    BY DEF Init, TaskPhases, DirectPhases
  <2>5. waiters \in Seq(Deliveries \cup Directs)
    BY DEF Init
  <2>6. runs \in [Deliveries -> Nat] /\ confirmed \subseteq Deliveries
    BY DEF Init
  <2>7. /\ stopping \in BOOLEAN /\ stopEvent \in BOOLEAN /\ enabled \in BOOLEAN
        /\ instance \in BOOLEAN
    BY DEF Init
  <2> QED
    BY <2>1, <2>2, <2>3, <2>4, <2>5, <2>6, <2>7 DEF TypeInv, Working
<1>2. Leased /\ Waiting /\ RunOnce
  BY DEF Init, Leased, Waiting, RunOnce, Working
<1>3. Quiet /\ Paused
  BY <1>0 DEF Init, Quiet, Paused, At, RotationPhases
<1>4. Room
  BY <1>0, FS_EmptySet, ParticipantConstants DEF Init, Room, Working
<1> QED
  BY <1>1, <1>2, <1>3, <1>4 DEF IInv, Core, ConfirmedIsSettled, Init

-----------------------------------------------------------------------------
(* Types *)

LEMMA LifeTypes ==
  ASSUME NEW r \in LifeRecord, NEW p \in {"off", "register", "up", "drain", "grace", "deregister"}
  PROVE  [r EXCEPT !.phase = p] \in LifeRecord /\ [r EXCEPT !.phase = p].phase = p
  BY DEF LifeRecord

LEMMA ReceiverTypes ==
  ASSUME NEW r \in ReceiverRecord, NEW p \in ReceiverPcs
  PROVE  /\ [r EXCEPT !.pc = p] \in ReceiverRecord
         /\ [r EXCEPT !.pc = p].pc = p /\ [r EXCEPT !.pc = p].d = r.d
         /\ [pc |-> p, d |-> NoDelivery] \in ReceiverRecord
  BY DEF ReceiverRecord

LEMMA ReceiverGoes ==
  ASSUME TypeInv
  PROVE  /\ \A p \in ReceiverPcs :
              GoOn(p) => receiver' \in ReceiverRecord /\ receiver'.pc = p /\ receiver'.d = receiver.d
         /\ NextRound => receiver' \in ReceiverRecord /\ receiver'.pc = "gate"
         /\ {"off", "gate", "capacity", "claim", "validate", "accept", "reject"} \subseteq ReceiverPcs
<1>1. receiver \in ReceiverRecord
  BY DEF TypeInv
<1>2. "gate" \in ReceiverPcs
  BY DEF ReceiverPcs
<1>3. ASSUME NextRound PROVE receiver' \in ReceiverRecord /\ receiver'.pc = "gate"
  BY <1>1, <1>2, <1>3, ReceiverTypes DEF NextRound
<1>4. ASSUME NEW p \in ReceiverPcs, GoOn(p)
      PROVE  receiver' \in ReceiverRecord /\ receiver'.pc = p /\ receiver'.d = receiver.d
  BY <1>1, <1>4, ReceiverTypes DEF GoOn
<1> QED
  BY <1>3, <1>4 DEF ReceiverPcs

LEMMA QueueTypes ==
  ASSUME TypeInv, NEW m \in Messages, NEW s \in QueueStates
  PROVE  /\ [queue EXCEPT ![m].state = s] \in [Messages -> QueueRecord]
         /\ [queue EXCEPT ![m].state = s][m].state = s
         /\ \A n \in Messages : [queue EXCEPT ![m].state = s][n].lease = queue[n].lease
         /\ \A n \in Messages : n # m => [queue EXCEPT ![m].state = s][n] = queue[n]
<1>1. queue \in [Messages -> QueueRecord]
  BY DEF TypeInv
<1>2. [queue[m] EXCEPT !.state = s] \in QueueRecord /\ [queue[m] EXCEPT !.state = s].state = s
      /\ [queue[m] EXCEPT !.state = s].lease = queue[m].lease
  BY <1>1 DEF QueueRecord
<1> QED
  BY <1>1, <1>2

\* What an acknowledgement or a result the gateway takes does to the queue.
LEMMA Taken ==
  ASSUME TypeInv, NEW d \in Deliveries, NEW from \in QueueStates, NEW to \in QueueStates,
         Takes(d, from, to)
  PROVE  /\ queue' \in [Messages -> QueueRecord]
         /\ queue[d[1]].state \in {from, to} /\ Owns(d) /\ queue'[d[1]].state = to
         /\ \A n \in Messages : queue'[n].lease = queue[n].lease
         /\ \A n \in Messages : n # d[1] => queue'[n] = queue[n]
  BY QueueTypes, DeliveryFields DEF Takes, SetState

LEMMA MovesType ==
  ASSUME TypeInv, NEW d \in Deliveries, NEW pc \in TaskPhases, Goes(d, pc)
  PROVE  /\ task' \in [Deliveries -> TaskPhases] /\ task'[d] = pc
         /\ \A e \in Deliveries : e # d => task'[e] = task[e]
  BY DEF TypeInv, Goes

LEMMA DirectType ==
  ASSUME TypeInv, NEW x \in Directs, NEW pc \in DirectPhases, DirectGoes(x, pc)
  PROVE  /\ direct' \in [Directs -> DirectPhases] /\ direct'[x] = pc
         /\ \A y \in Directs : y # x => direct'[y] = direct[y]
  BY DEF TypeInv, DirectGoes

\* The first waiter is admitted and the others move up.
LEMMA Admitted ==
  ASSUME TypeInv, NEW w, TakesSlot(w)
  PROVE  /\ waiters # <<>> /\ waiters[1] = w /\ w \in Deliveries \cup Directs
         /\ waiters' \in Seq(Deliveries \cup Directs)
         /\ Len(waiters) \in Nat /\ Len(waiters) > 0 /\ Len(waiters') = Len(waiters) - 1
         /\ \A i \in 1..Len(waiters') : waiters'[i] = waiters[i + 1]
<1> DEFINE S == Deliveries \cup Directs
<1>1. waiters \in Seq(S) /\ waiters # <<>> /\ Head(waiters) = w /\ waiters' = Tail(waiters)
  BY DEF TypeInv, TakesSlot
<1> HIDE DEF S
<1>2. /\ Head(waiters) \in S /\ Tail(waiters) \in Seq(S) /\ Len(Tail(waiters)) = Len(waiters) - 1
      /\ \A i \in 1..Len(Tail(waiters)) : Tail(waiters)[i] = waiters[i + 1]
  BY <1>1, HeadTailProperties
<1>3. Len(waiters) \in Nat /\ Len(waiters) > 0 /\ Head(waiters) = waiters[1]
  BY <1>1, LenProperties, EmptySeq
<1> QED
  BY <1>1, <1>2, <1>3 DEF S

\* One more waiter goes to the end.
LEMMA Queued ==
  ASSUME TypeInv, NEW w \in Deliveries \cup Directs, waiters' = Append(waiters, w)
  PROVE  /\ waiters' \in Seq(Deliveries \cup Directs)
         /\ Len(waiters) \in Nat /\ Len(waiters') = Len(waiters) + 1
         /\ \A i \in 1..Len(waiters) : waiters'[i] = waiters[i]
         /\ waiters'[Len(waiters) + 1] = w
<1> DEFINE S == Deliveries \cup Directs
<1>1. waiters \in Seq(S) /\ w \in S
  BY DEF TypeInv
<1> HIDE DEF S
<1>2. /\ Append(waiters, w) \in Seq(S) /\ Len(Append(waiters, w)) = Len(waiters) + 1
      /\ \A i \in 1..Len(waiters) : Append(waiters, w)[i] = waiters[i]
      /\ Append(waiters, w)[Len(waiters) + 1] = w /\ Len(waiters) \in Nat
  BY <1>1, AppendProperties, LenProperties
<1> QED
  BY <1>2 DEF S

-----------------------------------------------------------------------------
\* A step of the receive loop changes its own state, the gate, the registration
\* and the gateway's queue, and the task it dispatches.
LEMMA ReceiveTypes ==
  ASSUME TypeInv, Receive PROVE TypeInv'
<1> USE DEF TypeInv
<1>0. /\ \A p \in ReceiverPcs :
           GoOn(p) => receiver' \in ReceiverRecord /\ receiver'.pc = p /\ receiver'.d = receiver.d
      /\ NextRound => receiver' \in ReceiverRecord /\ receiver'.pc = "gate"
      /\ {"off", "gate", "capacity", "claim", "validate", "accept", "reject"} \subseteq ReceiverPcs
  BY ReceiverGoes
<1>1. CASE ReceiveGate
  <2>1. receiver' \in ReceiverRecord /\ receiver'.pc \notin Working
    BY <1>0, <1>1 DEF ReceiveGate, Working
  <2> QED
    BY <1>1, <2>1 DEF ReceiveGate, lifecycle, directs, seen
<1>2. CASE ReceiveCapacity
  <2>1. receiver' \in ReceiverRecord /\ receiver'.pc \notin Working /\ instance' \in BOOLEAN
    BY <1>0, <1>2 DEF ReceiveCapacity, Working
  <2> QED
    BY <1>2, <2>1 DEF ReceiveCapacity, lifecycle, directs, seen
<1>3. CASE Claim
  <2>1. ASSUME NextRound, instance' \in {instance, FALSE}, UNCHANGED queue PROVE TypeInv'
    <3>1. receiver' \in ReceiverRecord /\ receiver'.pc \notin Working
      BY <1>0, <2>1 DEF Working
    <3> QED
      BY <1>3, <2>1, <3>1 DEF Claim, lifecycle, directs, seen
  <2>2. ASSUME NEW m \in Messages, UNCHANGED instance, queue[m].lease < MaxLeases,
               queue' = [queue EXCEPT ![m] = [state |-> "leased", lease |-> @.lease + 1]],
               \/ receiver' = [pc |-> "validate", d |-> <<m, queue[m].lease + 1>>]
               \/ NextRound
        PROVE  TypeInv'
    <3>1. queue[m].lease + 1 \in 1..MaxLeases /\ queue[m].lease + 1 \in 0..MaxLeases
      BY <2>2, ParticipantConstants DEF QueueRecord
    <3>2. queue' \in [Messages -> QueueRecord]
      BY <2>2, <3>1 DEF QueueRecord, QueueStates
    <3>3. <<m, queue[m].lease + 1>> \in Deliveries
      BY <3>1, DeliveryFields
    <3>4. receiver' \in ReceiverRecord /\ (receiver'.pc \in Working => receiver'.d \in Deliveries)
      <4> DEFINE d == <<m, queue[m].lease + 1>>
      <4>1. d \in Deliveries
        BY <3>3
      <4> HIDE DEF d
      <4>2. [pc |-> "validate", d |-> d] \in ReceiverRecord
        BY <1>0, <4>1 DEF ReceiverRecord
      <4>3. receiver' = [pc |-> "validate", d |-> d] \/ NextRound
        BY <2>2 DEF d
      <4> QED
        BY <1>0, <4>1, <4>2, <4>3 DEF Working
    <3> QED
      BY <1>3, <2>2, <3>2, <3>4 DEF Claim, lifecycle, directs, seen
  <2> QED
    BY <1>3, <2>1, <2>2 DEF Claim
<1>4. CASE Validate
  <2>1. receiver' \in ReceiverRecord /\ (receiver'.pc \in Working => receiver'.d \in Deliveries)
    BY <1>0, <1>4 DEF Validate, At, Working
  <2>2. enabled' \in BOOLEAN
    BY <1>4 DEF Validate
  <2> QED
    BY <1>4, <2>1, <2>2 DEF Validate, lifecycle, directs, seen
<1>5. CASE Reject
  <2>1. receiver.d \in Deliveries
    BY <1>5 DEF Reject, At, Working
  <2>2. queue' \in [Messages -> QueueRecord]
    BY <1>5, <2>1, Taken DEF Reject, QueueStates
  <2>3. receiver' \in ReceiverRecord /\ receiver'.pc \notin Working
    BY <1>0, <1>5 DEF Reject, Working
  <2> QED
    BY <1>5, <2>2, <2>3 DEF Reject, lifecycle, directs, seen
<1>6. CASE Accept
  <2>1. receiver.d \in Deliveries
    BY <1>6 DEF Accept, At, Working
  <2>2. queue' \in [Messages -> QueueRecord]
    BY <1>6, <2>1, Taken DEF Accept, QueueStates
  <2>3. receiver' \in ReceiverRecord /\ (receiver'.pc \in Working => receiver'.d \in Deliveries)
    BY <1>0, <1>6, <2>1 DEF Accept, Working
  <2>4. enabled' \in BOOLEAN
    BY <1>6 DEF Accept
  <2>5. task' \in [Deliveries -> TaskPhases] /\ waiters' \in Seq(Deliveries \cup Directs)
    <3>1. CASE Track(receiver.d)
      <4>1. "quiesce" \in TaskPhases /\ "slot" \in TaskPhases
        BY DEF TaskPhases, OrdinaryPhases, RotationPhases
      <4>2. task' \in [Deliveries -> TaskPhases]
        BY <2>1, <3>1, <4>1 DEF Track
      <4>3. waiters' \in Seq(Deliveries \cup Directs)
        BY <2>1, <3>1, Queued DEF Track
      <4> QED
        BY <4>2, <4>3
    <3> QED
      BY <1>6, <3>1 DEF Accept
  <2> QED
    BY <1>6, <2>2, <2>3, <2>4, <2>5 DEF Accept, lifecycle, seen
<1> QED
  BY <1>1, <1>2, <1>3, <1>4, <1>5, <1>6 DEF Receive

\* A step of a delivery changes its task, and may change the queue, the gate and
\* the registration.
LEMMA TaskTypes ==
  ASSUME TypeInv, NEW d \in Deliveries,
         HandlerEnds(d) \/ RenewalEnds(d) \/ Commit(d) \/ Rotation(d)
  PROVE  TypeInv'
<1>1. UNCHANGED <<lifecycle, receiver, directs, runs>>
  BY DEF HandlerEnds, RenewalEnds, Commit, Rotation, Quiesce, Issue, Install, Restore, Report, seen
<1>2. queue' \in [Messages -> QueueRecord]
  <2>1. queue' = queue \/ Takes(d, "accepted", "settled")
    BY DEF HandlerEnds, RenewalEnds, Commit, Rotation, Quiesce, Issue, Install, Restore, Report
  <2> QED
    BY <2>1, Taken DEF QueueStates, TypeInv
<1>3. task' \in [Deliveries -> TaskPhases]
  <2>1. UNCHANGED task \/ \E pc \in TaskPhases : Goes(d, pc)
    BY DEF HandlerEnds, RenewalEnds, Commit, Rotation, Quiesce, Issue, Install, Restore, Report,
           TaskPhases, OrdinaryPhases, RotationPhases
  <2> QED
    BY <2>1, MovesType DEF TypeInv
<1>4. enabled' \in BOOLEAN /\ instance' \in BOOLEAN
  BY DEF HandlerEnds, RenewalEnds, Commit, Rotation, Quiesce, Issue, Install, Restore, Report, TypeInv
<1>5. confirmed' \subseteq Deliveries
  BY DEF HandlerEnds, RenewalEnds, Commit, Rotation, Quiesce, Issue, Install, Restore, Report, seen, TypeInv
<1> QED
  BY <1>1, <1>2, <1>3, <1>4, <1>5 DEF TypeInv, lifecycle, directs

LEMMA SlotTypes ==
  ASSUME TypeInv, NEW d \in Deliveries, TakeSlot(d) PROVE TypeInv'
<1>1. /\ TakesSlot(d) /\ Goes(d, "handling") /\ runs' = [runs EXCEPT ![d] = @ + 1]
      /\ UNCHANGED <<lifecycle, enabled, instance, receiver, direct, queue, confirmed>>
  BY DEF TakeSlot
<1>2. task' \in [Deliveries -> TaskPhases]
  BY <1>1, MovesType DEF TaskPhases, OrdinaryPhases
<1>3. waiters' \in Seq(Deliveries \cup Directs)
  BY <1>1, Admitted
<1>4. runs' \in [Deliveries -> Nat]
  BY <1>1 DEF TypeInv
<1> QED
  BY <1>1, <1>2, <1>3, <1>4 DEF TypeInv, lifecycle

LEMMA DirectTypes ==
  ASSUME TypeInv, NEW x \in Directs, DirectCall(x) \/ DirectSlot(x) \/ DirectEnds(x)
  PROVE  TypeInv'
<1>1. UNCHANGED <<lifecycle, enabled, instance, receiver, task, queue, seen>>
  BY DEF DirectCall, DirectSlot, DirectEnds
<1>2. direct' \in [Directs -> DirectPhases]
  <2>1. \E pc \in DirectPhases : DirectGoes(x, pc)
    BY DEF DirectCall, DirectSlot, DirectEnds, DirectPhases
  <2> QED
    BY <2>1, DirectType
<1>3. waiters' \in Seq(Deliveries \cup Directs)
  <2>1. waiters' = waiters \/ waiters' = Append(waiters, x) \/ TakesSlot(x)
    BY DEF DirectCall, DirectSlot, DirectEnds
  <2> QED
    BY <2>1, Queued, Admitted DEF TypeInv
<1> QED
  BY <1>1, <1>2, <1>3 DEF TypeInv, lifecycle, seen

LEMMA CalledTypes ==
  ASSUME TypeInv, NEW op \in {"start", "stop", "reload"}, Called(op) PROVE calls' \in CallsRecord
  BY ParticipantConstants DEF TypeInv, Called, CallsRecord

\* start, stop and reload.
LEMMA LifecycleTypes ==
  ASSUME TypeInv, Calls \/ Lifecycle PROVE TypeInv'
<1> USE DEF TypeInv
<1>0. /\ \A p \in {"off", "register", "up", "drain", "grace", "deregister"} :
           [life EXCEPT !.phase = p] \in LifeRecord
      /\ \A a \in {"off", "register"} : [phase |-> "drain", after |-> a] \in LifeRecord
      /\ [pc |-> "gate", d |-> NoDelivery] \in ReceiverRecord
      /\ [pc |-> "off", d |-> NoDelivery] \in ReceiverRecord
  BY LifeTypes, ReceiverTypes DEF LifeRecord, ReceiverPcs
<1>1. CASE Start
  <2>1. calls' \in CallsRecord
    BY <1>1, CalledTypes DEF Start
  <2> QED
    BY <1>0, <1>1, <2>1 DEF Start, StartLocked, Phase, directs, seen
<1>2. CASE CallStop
  <2>1. calls' \in CallsRecord
    BY <1>2, CalledTypes DEF CallStop
  <2> QED
    BY <1>2, <2>1 DEF CallStop, directs, seen
<1>3. CASE Reload
  <2>1. calls' \in CallsRecord
    BY <1>3, CalledTypes DEF Reload
  <2> QED
    BY <1>0, <1>3, <2>1 DEF Reload, directs, seen
<1>4. CASE Registered
  <2>1. life' \in LifeRecord /\ stopEvent' \in BOOLEAN /\ instance' \in BOOLEAN
    BY <1>0, <1>4 DEF Registered, Phase
  <2>2. receiver' \in ReceiverRecord /\ (receiver'.pc \in Working => receiver'.d \in Deliveries)
    BY <1>0, <1>4 DEF Registered, Working
  <2> QED
    BY <1>4, <2>1, <2>2 DEF Registered, directs, seen
<1>5. CASE BeginStop
  BY <1>0, <1>5 DEF BeginStop, directs, seen
<1>6. CASE JoinLoops
  <2>1. receiver' \in ReceiverRecord /\ receiver'.pc \notin Working /\ life' \in LifeRecord
    BY <1>0, <1>6 DEF JoinLoops, Phase, Working
  <2>2. enabled' \in BOOLEAN
    BY <1>6 DEF JoinLoops
  <2> QED
    BY <1>6, <2>1, <2>2 DEF JoinLoops, directs, seen
<1>7. CASE Grace
  <2>1. life' \in LifeRecord /\ enabled' \in BOOLEAN
    BY <1>0, <1>7 DEF Grace, Phase
  <2>2. task' \in [Deliveries -> TaskPhases] /\ direct' \in [Directs -> DirectPhases]
    BY <1>7 DEF Grace, TaskPhases, DirectPhases
  <2>3. waiters' \in Seq(Deliveries \cup Directs)
    BY <1>7 DEF Grace
  <2> QED
    BY <1>7, <2>1, <2>2, <2>3 DEF Grace, seen
<1>8. CASE Deregister
  BY <1>0, <1>8 DEF Deregister, StartLocked, Phase, directs, seen
<1> QED
  BY <1>1, <1>2, <1>3, <1>4, <1>5, <1>6, <1>7, <1>8 DEF Calls, Lifecycle

LEMMA TypeStep == TypeInv /\ [Next]_vars => TypeInv'
<1> SUFFICES ASSUME TypeInv, [Next]_vars PROVE TypeInv'
  OBVIOUS
<1>1. ASSUME NEW m \in Messages, LeaseLapses(m) PROVE TypeInv'
  <2>1. queue' \in [Messages -> QueueRecord]
    <3>1. PICK s \in {"queued", "dead"} : queue' = [queue EXCEPT ![m].state = s]
      BY <1>1 DEF LeaseLapses
    <3>2. s \in QueueStates
      BY DEF QueueStates
    <3> QED
      BY <3>1, <3>2, QueueTypes
  <2> QED
    BY <1>1, <2>1 DEF LeaseLapses, TypeInv, lifecycle, directs, seen
<1>2. CASE Heartbeat
  BY <1>2 DEF Heartbeat, TypeInv, lifecycle, directs, seen
<1>3. ASSUME NEW d \in Deliveries, DeliveryStep(d) PROVE TypeInv'
  BY <1>3, SlotTypes, TaskTypes DEF DeliveryStep
<1>4. ASSUME NEW x \in Directs, DirectCall(x) \/ DirectStep(x) PROVE TypeInv'
  BY <1>4, DirectTypes DEF DirectStep
<1>5. CASE UNCHANGED vars
  BY <1>5 DEF vars, TypeInv, lifecycle, directs, seen
<1> QED
  BY <1>1, <1>2, <1>3, <1>4, <1>5, ReceiveTypes, LifecycleTypes DEF Next

-----------------------------------------------------------------------------
(* What was confirmed stays settled *)

SettledStays ==
  \A d \in Deliveries : Owns(d) /\ queue[d[1]].state = "settled" =>
    Owns(d)' /\ queue'[d[1]].state = "settled"

\* A lease that is taken, or lapses, is not a settled one.
LEMMA TakenKeeps ==
  ASSUME TypeInv, NEW d \in Deliveries, NEW from \in QueueStates \ {"settled"}, NEW to \in QueueStates,
         Takes(d, from, to)
  PROVE  SettledStays
<1>1. /\ queue[d[1]].state \in {from, to} /\ queue'[d[1]].state = to
      /\ \A n \in Messages : queue'[n].lease = queue[n].lease
      /\ \A n \in Messages : n # d[1] => queue'[n] = queue[n]
  BY Taken
<1> SUFFICES ASSUME NEW e \in Deliveries, Owns(e), queue[e[1]].state = "settled"
             PROVE  Owns(e)' /\ queue'[e[1]].state = "settled"
  BY DEF SettledStays
<1>2. e[1] \in Messages
  BY DeliveryFields
<1>3. Owns(e)'
  BY <1>1, <1>2 DEF Owns
<1>4. queue'[e[1]].state = "settled"
  BY <1>1, <1>2
<1> QED
  BY <1>3, <1>4

LEMMA ConfirmedStep == TypeInv /\ ConfirmedIsSettled /\ [Next]_vars => ConfirmedIsSettled'
<1> SUFFICES ASSUME TypeInv, ConfirmedIsSettled, [Next]_vars PROVE ConfirmedIsSettled'
  OBVIOUS
<1>0. /\ UNCHANGED queue => SettledStays
      /\ {"queued", "leased", "accepted", "settled", "rejected", "dead"} \subseteq QueueStates
  BY DEF SettledStays, Owns, QueueStates
<1>1. SettledStays /\ UNCHANGED confirmed => ConfirmedIsSettled'
  BY DEF SettledStays, ConfirmedIsSettled, TypeInv
<1>2. ASSUME NEW m \in Messages, LeaseLapses(m) PROVE ConfirmedIsSettled'
  <2> DEFINE s == IF queue[m].lease < MaxLeases THEN "queued" ELSE "dead"
  <2>1. /\ queue' = [queue EXCEPT ![m].state = s] /\ s \in QueueStates
        /\ queue[m].state # "settled" /\ UNCHANGED confirmed
    BY <1>0, <1>2 DEF LeaseLapses, seen
  <2> HIDE DEF s
  <2>2. SettledStays
    BY <2>1, QueueTypes, DeliveryFields DEF SettledStays, Owns
  <2> QED
    BY <1>1, <2>1, <2>2
<1>3. CASE Receive \/ Heartbeat
  <2>1. UNCHANGED confirmed
    BY <1>3 DEF Receive, ReceiveGate, ReceiveCapacity, Claim, Validate, Reject, Accept, Heartbeat, seen
  <2>2. ASSUME NEW m \in Messages, queue[m].state = "queued",
               queue' = [queue EXCEPT ![m] = [state |-> "leased", lease |-> @.lease + 1]]
        PROVE  SettledStays
    <3>1. \A n \in Messages : n # m => queue'[n] = queue[n]
      BY <2>2 DEF TypeInv
    <3> QED
      BY <2>2, <3>1, DeliveryFields DEF SettledStays, Owns
  <2>3. receiver.pc \in Working => receiver.d \in Deliveries
    BY DEF TypeInv
  <2>4. SettledStays
    <3>1. CASE Reject
      BY <1>0, <2>3, <3>1, TakenKeeps DEF Reject, At, Working
    <3>2. CASE Accept
      BY <1>0, <2>3, <3>2, TakenKeeps DEF Accept, At, Working
    <3>3. CASE Claim
      BY <1>0, <2>2, <3>3 DEF Claim
    <3> QED
      BY <1>0, <1>3, <3>1, <3>2, <3>3
      DEF Receive, ReceiveGate, ReceiveCapacity, Validate, Heartbeat
  <2> QED
    BY <1>1, <2>1, <2>4
<1>4. ASSUME NEW d \in Deliveries, DeliveryStep(d) PROVE ConfirmedIsSettled'
  <2>1. \/ UNCHANGED queue /\ UNCHANGED confirmed
        \/ Takes(d, "accepted", "settled") /\ confirmed' \in {confirmed, confirmed \cup {d}}
    BY <1>4 DEF DeliveryStep, TakeSlot, HandlerEnds, RenewalEnds, Commit, Rotation, Quiesce, Issue,
                Install, Restore, Report, seen
  <2>2. CASE UNCHANGED queue /\ UNCHANGED confirmed
    BY <1>0, <1>1, <2>2
  <2>3. CASE Takes(d, "accepted", "settled") /\ confirmed' \in {confirmed, confirmed \cup {d}}
    <3>1. SettledStays
      BY <1>0, <2>3, TakenKeeps
    <3>2. Owns(d)' /\ queue'[d[1]].state = "settled"
      BY <1>0, <2>3, Taken, DeliveryFields DEF Owns
    <3> QED
      BY <2>3, <3>1, <3>2 DEF ConfirmedIsSettled, SettledStays, TypeInv
  <2> QED
    BY <2>1, <2>2, <2>3
<1>5. CASE Calls \/ Lifecycle \/ UNCHANGED vars \/ \E x \in Directs : DirectCall(x) \/ DirectStep(x)
  <2>1. UNCHANGED <<queue, confirmed>>
    BY <1>5 DEF Calls, Start, CallStop, Reload, Lifecycle, Registered, BeginStop, JoinLoops, Grace,
                Deregister, DirectStep, DirectCall, DirectSlot, DirectEnds, seen, vars
  <2> QED
    BY <1>0, <1>1, <2>1
<1> QED
  BY <1>2, <1>3, <1>4, <1>5 DEF Next

-----------------------------------------------------------------------------
(* The tasks *)

SameLeases == \A m \in Messages : queue'[m].lease = queue[m].lease

\* Nothing changed but the gateway's part, the gate or the registration.
LEMMA Rests ==
  ASSUME TypeInv, Core, TypeInv', SameLeases,
         UNCHANGED <<lifecycle, receiver, task, directs, runs, enabled, instance>>
  PROVE  Core'
<1> USE DEF Core
<1>1. Leased'
  BY DeliveryFields DEF Leased, SameLeases, TypeInv
<1>2. LiveDeliveries' = LiveDeliveries /\ LiveDirects' = LiveDirects
  BY DEF LiveDeliveries, LiveDirects, directs
<1>3. Waiting' /\ RunOnce'
  BY DEF Waiting, RunOnce, directs
<1>4. Quiet' /\ Paused' /\ Room'
  BY <1>2 DEF Quiet, Paused, Room, At, lifecycle, directs
<1> QED
  BY <1>1, <1>3, <1>4

\* A task that is past its slot goes on, or ends.
LEMMA TaskMoves ==
  ASSUME TypeInv, Core, TypeInv', SameLeases, NEW d \in Deliveries, NEW pc \in TaskPhases, Goes(d, pc),
         UNCHANGED <<lifecycle, receiver, directs, runs>>,
         task[d] \notin {"none", "slot", "ended"}, pc \notin {"none", "slot"},
         pc \in RotationPhases => task[d] \in RotationPhases,
         pc \in {"issue", "install"} => LiveDeliveries = {d},
         enabled' # enabled => pc = "ended" /\ task[d] \in RotationPhases
  PROVE  Core'
<1> USE DEF Core
<1>1. /\ task' \in [Deliveries -> TaskPhases] /\ task'[d] = pc
      /\ \A e \in Deliveries : e # d => task'[e] = task[e]
  BY MovesType
<1>2. /\ LiveDeliveries' = IF pc = "ended" THEN LiveDeliveries \ {d} ELSE LiveDeliveries
      /\ d \in LiveDeliveries /\ LiveDirects' = LiveDirects
  BY <1>1 DEF LiveDeliveries, LiveDirects, directs
<1>3. Leased'
  BY <1>1, DeliveryFields DEF Leased, SameLeases, TypeInv
<1>4. Waiting'
  <2>1. \A i \in 1..Len(waiters) : waiters[i] # d
    BY DEF Waiting
  <2> QED
    BY <1>1, <2>1 DEF Waiting, directs
<1>5. RunOnce'
  BY <1>1 DEF RunOnce
<1>6. Quiet'
  <2>1. life.phase \notin {"deregister", "off", "register"}
    BY <1>2 DEF Quiet
  <2> QED
    BY <1>2, <2>1 DEF Quiet, At, lifecycle, directs
<1>7. Paused'
  <2>1. At("accept")' /\ IsRotation(receiver'.d) => ~enabled'
    <3>1. CASE enabled' = enabled
      BY <3>1 DEF Paused, At
    <3>2. CASE enabled' # enabled
      BY <3>2 DEF Paused, At
    <3> QED
      BY <3>1, <3>2
  <2>2. \A e \in Deliveries : task'[e] \in RotationPhases =>
          ~enabled' /\ receiver'.pc \in {"off", "gate"}
    <3>1. SUFFICES ASSUME NEW e \in Deliveries, task'[e] \in RotationPhases
                   PROVE  ~enabled' /\ receiver'.pc \in {"off", "gate"}
      OBVIOUS
    <3>2. task[e] \in RotationPhases
      BY <1>1, <3>1
    <3>3. enabled' = enabled
      <4>1. ASSUME pc = "ended", task[d] \in RotationPhases PROVE FALSE
        <5>1. e = d
          BY <3>2, <4>1 DEF Paused
        <5> QED
          BY <1>1, <3>1, <4>1, <5>1 DEF RotationPhases
      <4> QED
        BY <4>1
    <3> QED
      BY <3>2, <3>3 DEF Paused
  <2>3. \A e, f \in Deliveries : task'[e] \in RotationPhases /\ task'[f] \in RotationPhases => e = f
    BY <1>1 DEF Paused
  <2>4. \A e \in Deliveries : task'[e] \in {"issue", "install"} => LiveDeliveries' = {e}
    <3>1. SUFFICES ASSUME NEW e \in Deliveries, task'[e] \in {"issue", "install"}
                   PROVE  LiveDeliveries' = {e}
      OBVIOUS
    <3>2. CASE e = d
      BY <1>1, <1>2, <3>1, <3>2
    <3>3. CASE e # d
      BY <1>1, <1>2, <3>1, <3>3 DEF Paused
    <3> QED
      BY <3>2, <3>3
  <2> QED
    BY <2>1, <2>2, <2>3, <2>4 DEF Paused
<1>8. Room'
  <2>1. LiveDeliveries \in SUBSET Deliveries /\ LiveDeliveries' \in SUBSET LiveDeliveries
    BY <1>2 DEF LiveDeliveries
  <2>2. /\ Cardinality(LiveDeliveries') \in Nat /\ Cardinality(LiveDeliveries) \in Nat
        /\ Cardinality(LiveDeliveries') <= Cardinality(LiveDeliveries)
    BY <2>1, Fewer
  <2> QED
    BY <2>2, ParticipantConstants DEF Room
<1> QED
  BY <1>3, <1>4, <1>5, <1>6, <1>7, <1>8

LEMMA TaskInv ==
  ASSUME TypeInv, Core, TypeInv', NEW d \in Deliveries,
         HandlerEnds(d) \/ RenewalEnds(d) \/ Commit(d) \/ Rotation(d)
  PROVE  Core'
<1>0. {"ended", "committing", "conflict", "issue", "install", "restore", "report"} \subseteq TaskPhases
  BY DEF TaskPhases, OrdinaryPhases, RotationPhases
<1>1. UNCHANGED <<lifecycle, receiver, directs, runs>>
  BY DEF HandlerEnds, RenewalEnds, Commit, Rotation, Quiesce, Issue, Install, Restore, Report, seen
<1>2. SameLeases
  <2>1. queue' = queue \/ Takes(d, "accepted", "settled")
    BY DEF HandlerEnds, RenewalEnds, Commit, Rotation, Quiesce, Issue, Install, Restore, Report
  <2> QED
    BY <2>1, Taken DEF QueueStates, SameLeases
<1>3. CASE HandlerEnds(d)
  BY <1>0, <1>1, <1>2, <1>3, TaskMoves DEF HandlerEnds, RotationPhases
<1>4. CASE RenewalEnds(d)
  BY <1>0, <1>1, <1>2, <1>4, TaskMoves DEF RenewalEnds, RotationPhases
<1>5. CASE Commit(d)
  BY <1>0, <1>1, <1>2, <1>5, TaskMoves, Rests DEF Commit, RotationPhases
<1>6. CASE Quiesce(d)
  BY <1>0, <1>1, <1>2, <1>6, TaskMoves DEF Quiesce, RotationPhases
<1>7. CASE Issue(d)
  <2>1. task[d] = "issue" => LiveDeliveries = {d}
    BY DEF Core, Paused
  <2> QED
    BY <1>0, <1>1, <1>2, <1>7, <2>1, TaskMoves DEF Issue, RotationPhases
<1>8. CASE Install(d)
  BY <1>0, <1>1, <1>2, <1>8, TaskMoves DEF Install, RotationPhases
<1>9. CASE Restore(d)
  BY <1>0, <1>1, <1>2, <1>9, TaskMoves DEF Restore, RotationPhases
<1>10. CASE Report(d)
  BY <1>0, <1>1, <1>2, <1>10, TaskMoves, Rests DEF Report, RotationPhases
<1> QED
  BY <1>3, <1>4, <1>5, <1>6, <1>7, <1>8, <1>9, <1>10 DEF Rotation

-----------------------------------------------------------------------------
(* The receive loop *)

\* The loop moves on without dispatching anything.
LEMMA ReceiverMoves ==
  ASSUME TypeInv, Core, TypeInv', UNCHANGED <<lifecycle, task, directs, runs>>,
         \A m \in Messages : queue'[m].lease >= queue[m].lease,
         receiver.pc # "off",
         receiver'.pc \in Working =>
           receiver'.d[2] <= queue'[receiver'.d[1]].lease /\ task[receiver'.d] = "none",
         receiver'.pc \in Working \cup {"claim"} =>
           receiver.pc \in Working \cup {"claim"} \/ Cardinality(LiveDeliveries) < MaxConcurrency,
         receiver'.pc = "accept" /\ IsRotation(receiver'.d) => ~enabled',
         receiver.pc = "gate" /\ ~enabled => ~enabled' /\ receiver'.pc \in {"off", "gate"}
  PROVE  Core'
<1> USE DEF Core
<1>1. Leased'
  <2>1. \A m \in Messages : queue[m].lease \in Nat /\ queue'[m].lease \in Nat
    BY ParticipantConstants DEF TypeInv, QueueRecord
  <2>2. \A d \in Deliveries : d[1] \in Messages /\ d[2] \in Nat
    BY DeliveryFields, ParticipantConstants
  <2> QED
    BY <2>1, <2>2 DEF Leased
<1>2. LiveDeliveries' = LiveDeliveries /\ LiveDirects' = LiveDirects
  BY DEF LiveDeliveries, LiveDirects, directs
<1>3. Waiting' /\ RunOnce'
  BY DEF Waiting, RunOnce, directs
<1>4. Quiet'
  BY <1>2 DEF Quiet, At, lifecycle, directs
<1>5. Paused'
  BY <1>2 DEF Paused, At
<1>6. Room'
  BY <1>2 DEF Room
<1> QED
  BY <1>1, <1>3, <1>4, <1>5, <1>6

\* The dispatch: the receiver held the delivery, so nothing else is paused for it
\* and a task was to spare.
LEMMA Dispatched ==
  ASSUME TypeInv, Core, TypeInv', SameLeases, At("accept"), Track(receiver.d), NextRound,
         UNCHANGED <<lifecycle, enabled, instance, direct, runs>>
  PROVE  Core'
<1> USE DEF Core
<1> DEFINE d == receiver.d
<1>1. d \in Deliveries /\ task[d] = "none" /\ d[2] <= queue[d[1]].lease
  BY DEF TypeInv, Leased, At, Working
<1>2. receiver'.pc = "gate" /\ receiver.pc = "accept"
  BY DEF NextRound, At
<1>3. \A e \in Deliveries : task[e] \notin RotationPhases
  BY <1>2 DEF Paused
<1> HIDE DEF d
<1>4. /\ task'[d] = (IF IsRotation(d) THEN "quiesce" ELSE "slot")
      /\ \A e \in Deliveries : e # d => task'[e] = task[e]
  BY <1>1 DEF Track, TypeInv, d
<1>5. LiveDeliveries' = LiveDeliveries \cup {d} /\ LiveDirects' = LiveDirects
  BY <1>1, <1>4 DEF LiveDeliveries, LiveDirects
<1>6. Leased'
  BY <1>1, <1>2, <1>4, DeliveryFields DEF Leased, SameLeases, Working
<1>7. Waiting'
  <2>1. \A i \in 1..Len(waiters) : waiters[i] # d
    BY <1>1 DEF Waiting
  <2>2. CASE IsRotation(d)
    BY <1>4, <2>1, <2>2 DEF Waiting, Track, d
  <2>3. CASE ~IsRotation(d)
    <3>1. /\ Len(waiters) \in Nat /\ Len(waiters') = Len(waiters) + 1
          /\ \A i \in 1..Len(waiters) : waiters'[i] = waiters[i]
          /\ waiters'[Len(waiters) + 1] = d
      BY <1>1, <2>3, Queued DEF Track, d
    <3>2. \A i \in 1..Len(waiters') : i \in 1..Len(waiters) \/ i = Len(waiters) + 1
      BY <3>1
    <3>3. d \notin Directs /\ task'[d] = "slot"
      BY <1>1, <1>4, <2>3, NoDeliveryIsNone
    <3>4. ASSUME NEW i \in 1..Len(waiters')
          PROVE  /\ waiters'[i] \in Deliveries => task'[waiters'[i]] = "slot"
                 /\ waiters'[i] \in Directs => direct'[waiters'[i]] = "slot"
      <4>1. CASE i \in 1..Len(waiters)
        BY <1>4, <2>1, <3>1, <4>1 DEF Waiting
      <4>2. CASE i = Len(waiters) + 1
        BY <3>1, <3>3, <4>2
      <4> QED
        BY <3>2, <4>1, <4>2
    <3>5. \A i, j \in 1..Len(waiters') : waiters'[i] = waiters'[j] => i = j
      BY <2>1, <3>1, <3>2 DEF Waiting
    <3> QED
      BY <3>4, <3>5 DEF Waiting
  <2> QED
    BY <2>2, <2>3
<1>8. RunOnce'
  BY <1>1, <1>4 DEF RunOnce
<1>9. Quiet'
  <2>1. life.phase \notin {"grace", "deregister", "off", "register"}
    BY <1>2 DEF Quiet, At
  <2> QED
    BY <2>1 DEF Quiet, lifecycle
<1>10. Paused'
  <2>1. \A e \in Deliveries : task'[e] \in RotationPhases => e = d /\ IsRotation(d) /\ task'[e] = "quiesce"
    BY <1>3, <1>4 DEF RotationPhases
  <2>2. IsRotation(d) => ~enabled
    BY DEF Paused, d
  <2>3. \A e \in Deliveries : task'[e] \notin {"issue", "install"}
    BY <2>1 DEF RotationPhases
  <2> QED
    BY <1>2, <2>1, <2>2, <2>3 DEF Paused, At
<1>11. Room'
  <2>1. Cardinality(LiveDeliveries) < MaxConcurrency
    BY <1>2 DEF Room, Working
  <2>2. LiveDeliveries \in SUBSET Deliveries /\ d \notin LiveDeliveries
    BY <1>1 DEF LiveDeliveries
  <2>3. Cardinality(LiveDeliveries') = Cardinality(LiveDeliveries) + 1 /\ Cardinality(LiveDeliveries) \in Nat
    BY <1>5, <2>2, FiniteTasks, FS_AddElement
  <2> QED
    BY <1>2, <2>1, <2>3, ParticipantConstants DEF Room, Working
<1> QED
  BY <1>6, <1>7, <1>8, <1>9, <1>10, <1>11

LEMMA ReceiveInv ==
  ASSUME TypeInv, Core, TypeInv', Receive \/ Heartbeat
  PROVE  Core'
<1>0. /\ \A m \in Messages : queue[m].lease \in Nat
      /\ receiver \in ReceiverRecord /\ (receiver.pc \in Working => receiver.d \in Deliveries)
      /\ {"queued", "leased", "accepted", "settled", "rejected", "dead"} \subseteq QueueStates
  BY ParticipantConstants DEF TypeInv, QueueRecord, QueueStates
<1>1. /\ \A p \in ReceiverPcs :
           GoOn(p) => receiver'.pc = p /\ receiver'.d = receiver.d
      /\ NextRound => receiver'.pc = "gate"
      /\ {"off", "gate", "capacity", "claim", "validate", "accept", "reject"} \subseteq ReceiverPcs
  BY ReceiverGoes
<1>2. SameLeases => \A m \in Messages : queue'[m].lease >= queue[m].lease
  BY <1>0 DEF SameLeases
<1>3. receiver.pc \in Working =>
        receiver.d[2] <= queue[receiver.d[1]].lease /\ task[receiver.d] = "none"
  BY DEF Core, Leased
<1>4. CASE ReceiveGate
  BY <1>0, <1>1, <1>2, <1>4, ReceiverMoves DEF ReceiveGate, At, SameLeases, Working, seen
<1>5. CASE ReceiveCapacity
  <2>1. HasCapacity => Cardinality(LiveDeliveries) < MaxConcurrency
    <3>1. Cardinality(LiveDeliveries) \in Nat /\ Cardinality(LiveDirects) \in Nat
      BY FiniteTasks DEF LiveDeliveries, LiveDirects
    <3> QED
      BY <3>1, ParticipantConstants DEF HasCapacity
  <2> QED
    BY <1>0, <1>1, <1>2, <1>5, <2>1, ReceiverMoves DEF ReceiveCapacity, At, SameLeases, Working, seen
<1>6. CASE Claim
  <2>1. CASE NextRound /\ UNCHANGED queue
    BY <1>0, <1>1, <1>2, <1>6, <2>1, ReceiverMoves DEF Claim, At, SameLeases, Working, seen
  <2>2. ASSUME NEW m \in Messages, queue[m].lease < MaxLeases,
               queue' = [queue EXCEPT ![m] = [state |-> "leased", lease |-> @.lease + 1]],
               \/ receiver' = [pc |-> "validate", d |-> <<m, queue[m].lease + 1>>]
               \/ NextRound
        PROVE  Core'
    <3>1. /\ queue'[m].lease = queue[m].lease + 1
          /\ \A n \in Messages : n # m => queue'[n] = queue[n]
      BY <2>2 DEF TypeInv
    <3>2. \A n \in Messages : queue'[n].lease >= queue[n].lease
      BY <1>0, <3>1
    <3> DEFINE d == <<m, queue[m].lease + 1>>
    <3>3. d \in Deliveries /\ d[1] = m /\ d[2] = queue[m].lease + 1
      BY <1>0, <2>2, DeliveryFields, ParticipantConstants
    <3> HIDE DEF d
    <3>4. task[d] = "none"
      BY <1>0, <3>3 DEF Core, Leased
    <3>5. \/ receiver'.pc = "validate" /\ receiver'.d = d
          \/ receiver'.pc = "gate"
      BY <1>1, <2>2 DEF d
    <3>6. d[2] <= queue'[d[1]].lease
      BY <1>0, <3>1, <3>3
    <3> QED
      BY <1>6, <3>2, <3>4, <3>5, <3>6, ReceiverMoves DEF Claim, At, Working, seen
  <2> QED
    BY <1>6, <2>1, <2>2 DEF Claim
<1>7. CASE Validate
  <2>1. UNCHANGED <<lifecycle, task, directs, runs, queue>> /\ receiver.pc = "validate"
    BY <1>7 DEF Validate, At, seen
  <2>2. \/ receiver'.pc \in {"reject", "gate"}
        \/ receiver'.pc = "accept" /\ enabled' = (enabled /\ ~IsRotation(receiver.d))
    BY <1>1, <1>7 DEF Validate
  <2>3. receiver'.pc # "gate" => receiver'.d = receiver.d
    BY <1>1, <1>7 DEF Validate
  <2>4. receiver'.pc = "accept" /\ IsRotation(receiver'.d) => ~enabled'
    BY <2>2, <2>3
  <2> QED
    BY <1>2, <1>3, <2>1, <2>2, <2>3, <2>4, ReceiverMoves DEF SameLeases, Working
<1>8. CASE Reject
  <2>1. SameLeases
    BY <1>0, <1>8, Taken DEF Reject, At, Working, SameLeases
  <2> QED
    BY <1>1, <1>2, <1>8, <2>1, ReceiverMoves DEF Reject, At, Working, seen
<1>9. CASE Accept
  <2>1. SameLeases /\ UNCHANGED <<lifecycle, instance, direct, seen>> /\ At("accept")
    BY <1>0, <1>9, Taken DEF Accept, At, Working, SameLeases
  <2>2. CASE Track(receiver.d) /\ NextRound /\ UNCHANGED enabled
    BY <2>1, <2>2, Dispatched DEF seen
  <2>3. CASE UNCHANGED <<task, waiters, receiver, enabled>>
    BY <2>1, <2>3, Rests DEF directs, seen
  <2>4. CASE NextRound /\ UNCHANGED <<task, waiters>>
    BY <1>1, <1>2, <2>1, <2>4, ReceiverMoves DEF At, Working, directs, seen
  <2> QED
    BY <1>9, <2>2, <2>3, <2>4 DEF Accept
<1>10. CASE Heartbeat
  BY <1>2, <1>3, <1>10, ReceiverMoves DEF Heartbeat, Core, Paused, At, SameLeases, seen
<1> QED
  BY <1>4, <1>5, <1>6, <1>7, <1>8, <1>9, <1>10 DEF Receive

-----------------------------------------------------------------------------
(* The handler slots *)

\* Who is admitted wanted a slot, and the others still do.
LEMMA AdmittedWaited ==
  ASSUME TypeInv, Waiting, NEW w, TakesSlot(w)
  PROVE  /\ w \in Deliveries => task[w] = "slot"
         /\ w \in Directs => direct[w] = "slot"
         /\ \A i \in 1..Len(waiters') : waiters'[i] # w
         /\ \A i \in 1..Len(waiters') :
              /\ waiters'[i] \in Deliveries => task[waiters'[i]] = "slot"
              /\ waiters'[i] \in Directs => direct[waiters'[i]] = "slot"
         /\ \A i, j \in 1..Len(waiters') : waiters'[i] = waiters'[j] => i = j
<1>1. /\ waiters[1] = w /\ Len(waiters) \in Nat /\ Len(waiters) > 0 /\ Len(waiters') = Len(waiters) - 1
      /\ \A i \in 1..Len(waiters') : waiters'[i] = waiters[i + 1]
  BY Admitted
<1>2. 1 \in 1..Len(waiters)
  BY <1>1
<1>3. \A i \in 1..Len(waiters') : i + 1 \in 1..Len(waiters) /\ i + 1 # 1 /\ i \in Nat
  BY <1>1
<1>4. \A i, j \in 1..Len(waiters') : i + 1 = j + 1 => i = j
  BY <1>3
<1> QED
  BY <1>1, <1>2, <1>3, <1>4 DEF Waiting

LEMMA SlotInv ==
  ASSUME TypeInv, Core, TypeInv', NEW d \in Deliveries, TakeSlot(d) PROVE Core'
<1> USE DEF Core
<1>1. /\ TakesSlot(d) /\ Goes(d, "handling") /\ runs' = [runs EXCEPT ![d] = @ + 1]
      /\ UNCHANGED <<lifecycle, enabled, instance, receiver, direct, queue, confirmed>>
  BY DEF TakeSlot
<1>2. /\ task[d] = "slot" /\ \A i \in 1..Len(waiters') : waiters'[i] # d
      /\ \A i \in 1..Len(waiters') :
           /\ waiters'[i] \in Deliveries => task[waiters'[i]] = "slot"
           /\ waiters'[i] \in Directs => direct[waiters'[i]] = "slot"
      /\ \A i, j \in 1..Len(waiters') : waiters'[i] = waiters'[j] => i = j
  BY <1>1, AdmittedWaited
<1>3. /\ task'[d] = "handling" /\ \A e \in Deliveries : e # d => task'[e] = task[e]
  BY <1>1, MovesType DEF TaskPhases, OrdinaryPhases
<1>4. LiveDeliveries' = LiveDeliveries /\ LiveDirects' = LiveDirects /\ d \in LiveDeliveries
  BY <1>1, <1>2, <1>3 DEF LiveDeliveries, LiveDirects
<1>5. Leased'
  <2>1. receiver.pc \in Working => receiver.d \in Deliveries /\ receiver.d # d
    BY <1>2 DEF TypeInv, Leased
  <2> QED
    BY <1>1, <1>2, <1>3, <2>1 DEF Leased
<1>6. Waiting'
  BY <1>1, <1>2, <1>3 DEF Waiting
<1>7. RunOnce'
  <2>1. runs[d] = 0 /\ runs'[d] = 1 /\ \A e \in Deliveries : e # d => runs'[e] = runs[e]
    BY <1>1, <1>2 DEF RunOnce, TypeInv
  <2> QED
    BY <1>3, <2>1 DEF RunOnce
<1>8. Quiet'
  <2>1. life.phase \notin {"deregister", "off", "register"}
    BY <1>4 DEF Quiet
  <2> QED
    BY <1>1, <2>1 DEF Quiet, At, lifecycle
<1>9. Paused'
  BY <1>1, <1>3, <1>4 DEF Paused, At, RotationPhases
<1>10. Room'
  BY <1>1, <1>4 DEF Room
<1> QED
  BY <1>5, <1>6, <1>7, <1>8, <1>9, <1>10

\* A direct call adds no delivery; it is turned away once a stop has begun.
LEMMA DirectInv ==
  ASSUME TypeInv, Core, TypeInv', NEW x \in Directs, DirectCall(x) \/ DirectSlot(x) \/ DirectEnds(x)
  PROVE  Core'
<1> USE DEF Core
<1>1. UNCHANGED <<lifecycle, enabled, instance, receiver, task, queue, runs>>
  BY DEF DirectCall, DirectSlot, DirectEnds, seen
<1>2. LiveDeliveries' = LiveDeliveries /\ x \notin Deliveries
  BY <1>1, NoDeliveryIsNone DEF LiveDeliveries
<1>3. Leased' /\ RunOnce'
  BY <1>1 DEF Leased, RunOnce
<1>4. Paused' /\ Room'
  BY <1>1, <1>2 DEF Paused, Room, At
<1>5. \A pc \in DirectPhases : DirectGoes(x, pc) =>
        direct'[x] = pc /\ \A y \in Directs : y # x => direct'[y] = direct[y]
  BY DirectType
<1>6. {"none", "slot", "running", "ended"} \subseteq DirectPhases
  BY DEF DirectPhases
<1>7. CASE DirectCall(x)
  <2>0. direct[x] = "none" /\ \A i \in 1..Len(waiters) : waiters[i] # x
    BY <1>7 DEF DirectCall, Waiting
  <2>1. CASE DirectGoes(x, "ended") /\ UNCHANGED waiters
    <3>1. direct'[x] = "ended" /\ \A y \in Directs : y # x => direct'[y] = direct[y]
      BY <1>5, <1>6, <2>1
    <3>2. LiveDirects' = LiveDirects
      BY <2>0, <3>1 DEF LiveDirects
    <3>3. Waiting'
      BY <1>1, <2>0, <2>1, <3>1 DEF Waiting
    <3>4. Quiet'
      BY <1>1, <1>2, <2>1, <3>2 DEF Quiet, At, lifecycle
    <3> QED
      BY <1>3, <1>4, <3>3, <3>4
  <2>2. CASE Started /\ ~stopEvent /\ DirectGoes(x, "slot") /\ waiters' = Append(waiters, x)
    <3>1. direct'[x] = "slot" /\ \A y \in Directs : y # x => direct'[y] = direct[y]
      BY <1>5, <1>6, <2>2
    <3>2. /\ Len(waiters) \in Nat /\ Len(waiters') = Len(waiters) + 1
          /\ \A i \in 1..Len(waiters) : waiters'[i] = waiters[i]
          /\ waiters'[Len(waiters) + 1] = x
      BY <2>2, Queued
    <3>3. \A i \in 1..Len(waiters') : i \in 1..Len(waiters) \/ i = Len(waiters) + 1
      BY <3>2
    <3>4. \A i \in 1..Len(waiters') :
            /\ waiters'[i] \in Deliveries => task'[waiters'[i]] = "slot"
            /\ waiters'[i] \in Directs => direct'[waiters'[i]] = "slot"
      BY <1>1, <1>2, <2>0, <3>1, <3>2, <3>3 DEF Waiting
    <3>5. \A i, j \in 1..Len(waiters') : waiters'[i] = waiters'[j] => i = j
      BY <2>0, <3>2, <3>3 DEF Waiting
    <3>6. life.phase = "up"
      BY <2>2 DEF Started, Quiet
    <3>7. Quiet'
      BY <1>1, <3>6 DEF Quiet, lifecycle
    <3> QED
      BY <1>3, <1>4, <3>4, <3>5, <3>7 DEF Waiting
  <2> QED
    BY <1>7, <2>1, <2>2 DEF DirectCall
<1>8. CASE DirectSlot(x)
  <2>1. PICK pc \in {"ended", "running"} : DirectGoes(x, pc)
    BY <1>8 DEF DirectSlot
  <2>2. direct'[x] = pc /\ \A y \in Directs : y # x => direct'[y] = direct[y]
    BY <1>5, <1>6, <2>1
  <2>3. /\ direct[x] = "slot" /\ \A i \in 1..Len(waiters') : waiters'[i] # x
        /\ \A i \in 1..Len(waiters') :
             /\ waiters'[i] \in Deliveries => task[waiters'[i]] = "slot"
             /\ waiters'[i] \in Directs => direct[waiters'[i]] = "slot"
        /\ \A i, j \in 1..Len(waiters') : waiters'[i] = waiters'[j] => i = j
    BY <1>8, AdmittedWaited DEF DirectSlot
  <2>4. Waiting'
    BY <1>1, <2>2, <2>3 DEF Waiting
  <2>5. life.phase \notin {"deregister", "off", "register"}
    BY <2>3 DEF Quiet, LiveDirects
  <2>6. Quiet'
    BY <1>1, <2>5 DEF Quiet, At, lifecycle
  <2> QED
    BY <1>3, <1>4, <2>4, <2>6
<1>9. CASE DirectEnds(x)
  <2>1. direct[x] = "running" /\ direct'[x] = "ended" /\ UNCHANGED waiters
        /\ \A y \in Directs : y # x => direct'[y] = direct[y]
    BY <1>5, <1>6, <1>9 DEF DirectEnds
  <2>2. Waiting'
    BY <1>1, <2>1 DEF Waiting
  <2>3. life.phase \notin {"deregister", "off", "register"}
    BY <2>1 DEF Quiet, LiveDirects
  <2>4. Quiet'
    BY <1>1, <2>3 DEF Quiet, At, lifecycle
  <2> QED
    BY <1>3, <1>4, <2>2, <2>4
<1> QED
  BY <1>7, <1>8, <1>9

-----------------------------------------------------------------------------
(* start, stop and reload *)

LEMMA LifecycleInv ==
  ASSUME TypeInv, Core, TypeInv', Calls \/ Lifecycle PROVE Core'
<1> USE DEF Core
<1>0. \A p \in {"off", "register", "up", "drain", "grace", "deregister"} :
        Phase(p) => life'.phase = p
  BY LifeTypes DEF Phase, TypeInv
<1>1. UNCHANGED <<queue, runs>>
  BY DEF Calls, Start, CallStop, Reload, Lifecycle, Registered, BeginStop, JoinLoops, Grace, Deregister, seen
<1>2. ASSUME UNCHANGED <<enabled, receiver, task, directs>>, Quiet' PROVE Core'
  <2>1. LiveDeliveries' = LiveDeliveries
    BY <1>2 DEF LiveDeliveries
  <2> QED
    BY <1>1, <1>2, <2>1 DEF Leased, Waiting, RunOnce, Paused, Room, At, directs
<1>3. ASSUME UNCHANGED <<task, directs>>
      PROVE  LiveDeliveries' = LiveDeliveries /\ LiveDirects' = LiveDirects /\ waiters' = waiters
  BY <1>3 DEF LiveDeliveries, LiveDirects, directs
<1>4. CASE Start
  <2>1. /\ UNCHANGED <<enabled, instance, receiver, task, directs>> /\ life.phase = "off"
        /\ life'.phase = "register"
    BY <1>0, <1>4 DEF Start, StartLocked
  <2> QED
    BY <1>2, <1>3, <2>1 DEF Quiet, At
<1>5. CASE CallStop
  <2>1. UNCHANGED <<life, enabled, instance, receiver, task, directs>> /\ stopEvent'
    BY <1>5 DEF CallStop
  <2> QED
    BY <1>2, <1>3, <2>1 DEF Quiet, At
<1>6. CASE Reload \/ BeginStop
  <2>1. /\ UNCHANGED <<enabled, instance, receiver, task, directs>> /\ stopEvent'
        /\ life'.phase = "drain"
    BY <1>6 DEF Reload, BeginStop
  <2> QED
    BY <1>2, <2>1 DEF Quiet
<1>7. CASE Registered
  <2>0. /\ UNCHANGED <<enabled, task, directs>> /\ life.phase = "register"
        /\ LiveDeliveries = {} /\ waiters = <<>>
    BY <1>7 DEF Registered, Quiet
  <2>1. CASE life'.phase = "drain" /\ stopEvent' /\ UNCHANGED receiver
    BY <1>2, <2>0, <2>1 DEF Quiet
  <2>2. CASE life'.phase = "up" /\ receiver' = [pc |-> "gate", d |-> NoDelivery]
    <3>1. \A d \in Deliveries : task[d] \notin RotationPhases
      BY <2>0 DEF LiveDeliveries, RotationPhases
    <3>2. LiveDeliveries' = {} /\ Cardinality({}) = 0
      BY <1>3, <2>0, FS_EmptySet
    <3>3. Paused'
      BY <2>0, <2>2, <3>1 DEF Paused, At, RotationPhases
    <3>4. Room'
      BY <2>2, <3>2, ParticipantConstants DEF Room, Working
    <3>5. Leased' /\ Waiting' /\ RunOnce' /\ Quiet'
      BY <1>1, <2>0, <2>2 DEF Leased, Waiting, RunOnce, Quiet, Working, directs
    <3> QED
      BY <3>3, <3>4, <3>5
  <2> QED
    BY <1>0, <1>7, <2>1, <2>2 DEF Registered
<1>8. CASE JoinLoops
  <2>1. /\ life.phase = "drain" /\ life'.phase = "grace" /\ receiver'.pc = "off"
        /\ enabled' = (enabled \/ (At("accept") /\ IsRotation(receiver.d)))
        /\ UNCHANGED <<stopEvent, instance, task, directs>>
    BY <1>0, <1>8 DEF JoinLoops
  <2>2. \A d \in Deliveries : task[d] \in RotationPhases => ~enabled'
    BY <2>1 DEF Paused, At
  <2>3. Paused'
    BY <1>3, <2>1, <2>2 DEF Paused, At
  <2>4. Room' /\ Quiet'
    BY <1>3, <2>1 DEF Room, Quiet, At, Working
  <2>5. Leased' /\ Waiting' /\ RunOnce'
    BY <1>1, <2>1 DEF Leased, Waiting, RunOnce, Working, directs
  <2> QED
    BY <2>3, <2>4, <2>5
<1>9. CASE Grace
  <2>1. /\ life.phase = "grace" /\ life'.phase = "deregister" /\ waiters' = <<>>
        /\ UNCHANGED <<stopEvent, instance, receiver>>
    BY <1>0, <1>9 DEF Grace
  <2>2. \A d \in Deliveries :
          IF d \in LiveDeliveries THEN task'[d] = "ended" ELSE task'[d] = task[d] /\ task[d] \in {"none", "ended"}
    BY <1>9 DEF Grace, LiveDeliveries
  <2>3. \A x \in Directs : direct'[x] \notin {"slot", "running"}
    BY <1>9 DEF Grace, LiveDirects
  <2>4. LiveDeliveries' = {} /\ LiveDirects' = {} /\ Cardinality({}) = 0
    BY <2>2, <2>3, FS_EmptySet DEF LiveDeliveries, LiveDirects
  <2>5. \A d \in Deliveries : task'[d] \in {"none", "ended"} /\ (task'[d] = "none" => task[d] = "none")
    BY <2>2
  <2>6. receiver.pc = "off"
    BY <2>1 DEF Quiet, At
  <2>7. Leased'
    <3>1. \A d \in Deliveries : task'[d] # "none" => task[d] # "none"
      BY <2>2 DEF LiveDeliveries
    <3> QED
      BY <1>1, <2>1, <2>6, <3>1 DEF Leased, Working
  <2>8. Waiting'
    BY <2>1 DEF Waiting
  <2>9. RunOnce'
    BY <1>1, <2>5 DEF RunOnce
  <2>10. Quiet' /\ Room'
    BY <2>1, <2>4, <2>6, ParticipantConstants DEF Quiet, Room, At, Working
  <2>11. Paused'
    BY <2>1, <2>5, <2>6 DEF Paused, At, RotationPhases
  <2> QED
    BY <2>7, <2>8, <2>9, <2>10, <2>11
<1>10. CASE Deregister
  <2>1. /\ UNCHANGED <<enabled, receiver, task, directs>> /\ life.phase = "deregister"
        /\ life'.phase \in {"off", "register"} /\ ~instance'
    BY <1>0, <1>10 DEF Deregister, StartLocked
  <2> QED
    BY <1>2, <1>3, <2>1 DEF Quiet, At
<1> QED
  BY <1>4, <1>5, <1>6, <1>7, <1>8, <1>9, <1>10 DEF Calls, Lifecycle

-----------------------------------------------------------------------------
LEMMA InvNext == IInv /\ [Next]_vars => IInv'
<1> SUFFICES ASSUME IInv, [Next]_vars PROVE IInv'
  OBVIOUS
<1> USE DEF IInv
<1>1. TypeInv' /\ ConfirmedIsSettled'
  BY TypeStep, ConfirmedStep
<1>2. ASSUME NEW m \in Messages, LeaseLapses(m) PROVE Core'
  <2> DEFINE s == IF queue[m].lease < MaxLeases THEN "queued" ELSE "dead"
  <2>1. queue' = [queue EXCEPT ![m].state = s] /\ s \in QueueStates
    BY <1>2 DEF LeaseLapses, QueueStates
  <2> HIDE DEF s
  <2>2. SameLeases
    BY <2>1, QueueTypes DEF SameLeases
  <2> QED
    BY <1>1, <1>2, <2>2, Rests DEF LeaseLapses, seen
<1>3. ASSUME NEW d \in Deliveries, DeliveryStep(d) PROVE Core'
  BY <1>1, <1>3, SlotInv, TaskInv DEF DeliveryStep
<1>4. ASSUME NEW x \in Directs, DirectCall(x) \/ DirectStep(x) PROVE Core'
  BY <1>1, <1>4, DirectInv DEF DirectStep
<1>5. CASE Receive \/ Heartbeat
  BY <1>1, <1>5, ReceiveInv
<1>6. CASE Calls \/ Lifecycle
  BY <1>1, <1>6, LifecycleInv
<1>7. CASE UNCHANGED vars
  BY <1>1, <1>7, Rests DEF vars, SameLeases, seen
<1> QED
  BY <1>1, <1>2, <1>3, <1>4, <1>5, <1>6, <1>7 DEF Next

LEMMA InvAlways == Spec => []IInv
<1> QED
  BY InvInit, InvNext, PTL DEF Spec

-----------------------------------------------------------------------------
\* Every variable keeps to its states, whatever is lost, lapses or is stopped
\* (connected/participant.py, participant_delivery.py, participant_rotation.py).
THEOREM ParticipantTypes == Spec => []TypeOK
<1>1. IInv => TypeOK
  BY TypesOK DEF IInv
<1> QED
  BY <1>1, InvAlways, PTL

\* A retry of an acknowledgement or of a result never starts a handler again: each
\* lease runs it at most once, and overlapping leases have tasks of their own.
THEOREM HandlerRunsOnce == Spec => []HandlerOncePerLease
<1>1. IInv => HandlerOncePerLease
  BY DEF IInv, Core, RunOnce, HandlerOncePerLease
<1> QED
  BY <1>1, InvAlways, PTL

\* What the client took for a confirmed result is the gateway's settled result of
\* that lease, and stays so through later leases and lapses.
THEOREM ConfirmedStaysSettled == Spec => []ConfirmedIsSettled
<1>1. IInv => ConfirmedIsSettled
  BY DEF IInv
<1> QED
  BY <1>1, InvAlways, PTL

\* A stopped participant has no task left that could act and is registered
\* nowhere, also when stop() raced a reload, a start or a delivery.
THEOREM StoppedStaysQuiet == Spec => []StoppedIsQuiet
<1>1. IInv => StoppedIsQuiet
  BY DEF IInv, Core, Quiet, StoppedIsQuiet
<1> QED
  BY <1>1, InvAlways, PTL

\* What holds of deliveries in the presence of direct calls: one that waits for
\* a slot waits for direct calls only, and no other is alive beside a rotation
\* that replaces the session.
OnlyDirectsInTheWay ==
  \A d \in Deliveries :
    task[d] = "slot" /\ Holding >= MaxConcurrency => \E x \in Directs : direct[x] = "running"
RotationIsOnlyDelivery == \A d \in Deliveries : task[d] = "install" => LiveDeliveries = {d}

\* The capacity that was there when a message was claimed is kept for it: no other
\* delivery takes it, so that an accepted one waits for a slot, unrenewed, only
\* behind a direct call (participant.py _receive_loop, mcp_boundary.py).
THEOREM DeliveryWaitsForDirects == Spec => []OnlyDirectsInTheWay
<1>1. IInv => OnlyDirectsInTheWay
  <2> SUFFICES ASSUME IInv, NEW d \in Deliveries, task[d] = "slot",
                      \A x \in Directs : direct[x] # "running"
               PROVE  ~(Holding >= MaxConcurrency)
    BY DEF OnlyDirectsInTheWay
  <2> DEFINE H == {e \in Deliveries : task[e] \in OrdinaryPhases \ {"slot"}}
             R == {x \in Directs : direct[x] = "running"}
  <2>1. H \in SUBSET (LiveDeliveries \ {d}) /\ d \in LiveDeliveries /\ LiveDeliveries \in SUBSET Deliveries
    BY DEF LiveDeliveries, OrdinaryPhases
  <2>2. R = {}
    OBVIOUS
  <2>3. Holding = Cardinality(H) + Cardinality(R)
    BY DEF Holding
  <2> HIDE DEF H, R
  <2>4. Cardinality(R) = 0
    BY <2>2, FS_EmptySet
  <2>5. /\ Cardinality(LiveDeliveries \ {d}) = Cardinality(LiveDeliveries) - 1
        /\ Cardinality(LiveDeliveries) \in Nat
    BY <2>1, FiniteTasks, FS_RemoveElement
  <2>6. Cardinality(H) \in Nat /\ Cardinality(H) <= Cardinality(LiveDeliveries \ {d})
    BY <2>1, Fewer
  <2>7. Cardinality(LiveDeliveries) <= MaxConcurrency
    BY DEF IInv, Core, Room
  <2> QED
    BY <2>3, <2>4, <2>5, <2>6, <2>7, ParticipantConstants
<1> QED
  BY <1>1, InvAlways, PTL

\* A rotation has waited for every other delivery before it replaces the session
\* (participant_rotation.py), whatever direct calls there are.
THEOREM RotationExcludesDeliveries == Spec => []RotationIsOnlyDelivery
<1>1. IInv => RotationIsOnlyDelivery
  BY DEF IInv, Core, Paused, RotationIsOnlyDelivery
<1> QED
  BY <1>1, InvAlways, PTL

LEMMA HoldingCounts == Holding \in Nat
<1> DEFINE H == {e \in Deliveries : task[e] \in OrdinaryPhases \ {"slot"}}
           R == {x \in Directs : direct[x] = "running"}
<1>1. H \in SUBSET Deliveries /\ R \in SUBSET Directs
  OBVIOUS
<1>2. Holding = Cardinality(H) + Cardinality(R)
  BY DEF Holding
<1> HIDE DEF H, R
<1> QED
  BY <1>1, <1>2, FiniteTasks

\* So without direct calls an accepted delivery always finds its slot.
THEOREM AcceptedHasSlot == Directs = {} => (Spec => []AcceptedFindsSlot)
<1> SUFFICES ASSUME Directs = {} PROVE Spec => []AcceptedFindsSlot
  OBVIOUS
<1>1. OnlyDirectsInTheWay => AcceptedFindsSlot
  BY HoldingCounts, ParticipantConstants DEF OnlyDirectsInTheWay, AcceptedFindsSlot
<1> QED
  BY <1>1, DeliveryWaitsForDirects, PTL

\* And nothing else uses the session that a rotation closes; direct calls, which
\* may begin during a rotation, are excluded.
THEOREM RotationStaysAlone == Directs = {} => (Spec => []RotationAlone)
<1> SUFFICES ASSUME Directs = {} PROVE Spec => []RotationAlone
  OBVIOUS
<1>1. RotationIsOnlyDelivery => RotationAlone
  BY DEF RotationIsOnlyDelivery, RotationAlone
<1> QED
  BY <1>1, RotationExcludesDeliveries, PTL
=============================================================================
