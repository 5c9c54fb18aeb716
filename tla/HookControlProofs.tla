--------------------------- MODULE HookControlProofs ---------------------------
(***************************************************************************)
(* Proofs about the native-hook controller around the outcome store, for   *)
(* every number of RPCs and keys.  FreeInv holds whatever an earlier       *)
(* controller of the process left running; ControlInv, which follows       *)
(* reservations and evidence into the file, needs that it left nothing.    *)
(***************************************************************************)
EXTENDS HookControl, HookOutboxProofs

\* A preflight that has not answered, and a postflight that has not.
Deciding == {"deciding", "reserve", "reserveToReject", "enforce", "unreported", "reject",
             "rejecting", "quota"}
Reporting == {"lookup", "found", "recording"}

\* Preflights of one key exclude each other.
Exclusive ==
  /\ \A r \in Rpcs : rpc[r].pc # "idle" => rpc[r].key \in Keys
  /\ \A r \in Rpcs : rpc[r].pc \in Deciding => rpc[r].key \in reserving
  /\ \A q, r \in Rpcs :
       rpc[q].pc \in Deciding /\ rpc[r].pc \in Deciding /\ rpc[q].key = rpc[r].key => q = r

\* What a handler does in the store is what it awaits there; nothing runs
\* before the controller is up; an RPC lives at most one unit of the clock.
Pair(r) ==
  /\ rpc[r].pc \in {"reserve", "reserveToReject"} <=> call[r].op = "reserve"
  /\ rpc[r].pc \in {"recording", "rejecting"} <=> call[r].op = "record"
  /\ call[r].op \in {"reserve", "record"} => call[r].key = rpc[r].key
IdleCalls == \A c \in Callers : call[c].step = "idle" => call[c].op = "prune"
LoopCalls ==
  /\ call[Deliverer].op \in {"prune", "received", "acknowledge"}
  /\ call[Maint].op \in {"prune", "load"}
RunsUp == run # "up" => loop = NoLoop /\ \A r \in Rpcs : rpc[r].pc = "idle"
Paired == IdleCalls /\ LoopCalls /\ RunsUp /\ \A r \in Rpcs : Pair(r)
Timely == \A r \in Rpcs : rpc[r].pc # "idle" => rpc[r].since <= now /\ now <= rpc[r].since + 1

\* The delivery loop: its snapshot, the acknowledgement it awaits, the answer
\* it has before it asks for one.
Snapshot ==
  /\ SnapshotIsCurrent
  /\ loop.pc \in {"send", "settled", "ack"} => loop.key \in Keys \ loop.queue
AckAwaited ==
  /\ loop.pc = "ack" => /\ call[Deliverer].op = "acknowledge" /\ call[Deliverer].key = loop.key
                        /\ call[Deliverer].step \in {"wait", "commit"}
  /\ loop.pc = "ack" /\ call[Deliverer].step = "commit" /\ pending.phase = "writing"
       => pending.store[loop.key] = NoEntry
  /\ pending.phase \in {"writing", "written"} /\ pending.op = "acknowledge"
       => loop.pc = "ack" /\ pending.key = loop.key
Answered == loop.pc \in {"settled", "ack"} => gateway[loop.key] # "open"
DeliveryInv == Snapshot /\ AckAwaited /\ Answered

\* A reservation of this RPC, too young to expire while the RPC lives; or what a
\* report that overtook the RPC's answer made of it.
Held(r, s) == rpc[r].key \in Awaiting(s) /\ s[rpc[r].key].born >= rpc[r].since
Kept(r, s) == Held(r, s) \/ rpc[r].key \in Received(s) \/ gateway[rpc[r].key] # "open"

\* What an RPC awaits the storage of, or goes on with, is in the file and in
\* whatever is on its way there.  Its reservation was new in the file: nobody was
\* allowed the call under it, and no other reservation takes its place.
Stored(r) ==
  LET k == rpc[r].key
      committed == call[r].step = "commit"
  IN
  /\ rpc[r].pc = "reserve" /\ committed =>
       /\ pending.phase = "writing" => Held(r, pending.store) /\ k \notin Present(disk)
       /\ pending.phase \in {"written", "done"} => Held(r, disk) /\ ran[k] = 0
  /\ rpc[r].pc = "enforce" =>
       /\ Kept(r, disk) /\ ran[k] = 0
       /\ pending.phase = "writing" =>
            Kept(r, pending.store) /\ (k \in Present(pending.store) => k \in Present(disk))
  /\ rpc[r].pc = "recording" /\ committed =>
       /\ pending.phase = "writing" => k \in Received(pending.store)
       /\ pending.phase \in {"written", "done"} => k \in Received(disk)
ReportInv == QueuedUntilSettled /\ AllowedOnce /\ \A r \in Rpcs : Stored(r)

StoreInv == IInv /\ RInv
HandlerInv == ControlTypeOK /\ Exclusive /\ Paired /\ Timely

-----------------------------------------------------------------------------
LEMMA NotCallers ==
  /\ Deliverer \in Callers /\ Maint \in Callers /\ Deliverer # Maint
  /\ \A r \in Rpcs : r \in Callers /\ r # Deliverer /\ r # Maint
  BY ControlConstants

LEMMA ControlTypesInit == ControlInit => ControlTypeOK
<1> SUFFICES ASSUME ControlInit PROVE ControlTypeOK
  OBVIOUS
<1>1. NoRpc \in RpcRecord
  BY OutboxConstants DEF NoRpc, RpcRecord
<1> QED
  BY <1>1 DEF ControlInit, ControlTypeOK, NoLoop

LEMMA ExclusiveInit == ControlInit => Exclusive
  BY DEF ControlInit, Exclusive, NoRpc, Deciding

\* A handler moves on, ends, or ends with the host allowed to run the call.
LEMMA HandlerTypes ==
  ASSUME ControlTypeOK, NEW r \in Rpcs,
         Finish(r) \/ \E pc \in {"enforce", "unreported", "reserve", "reserveToReject", "reject",
                                 "rejecting", "quota", "found", "recording"} : GoTo(r, pc),
         ran' = ran \/ (rpc[r].key \in Keys /\ Allow(rpc[r].key)),
         unadmitted' \subseteq Keys, told' \subseteq Keys, wakeup' \in BOOLEAN,
         UNCHANGED <<loop, gateway>>
  PROVE  ControlTypeOK'
<1>1. reserving' \subseteq Keys
  BY DEF ControlTypeOK, Finish, GoTo
<1>2. rpc' \in [Rpcs -> RpcRecord]
  <2>1. NoRpc \in RpcRecord
    BY OutboxConstants DEF NoRpc, RpcRecord
  <2>2. CASE Finish(r)
    BY <2>1, <2>2 DEF Finish, ControlTypeOK
  <2>3. ASSUME NEW pc \in {"enforce", "unreported", "reserve", "reserveToReject", "reject",
                           "rejecting", "quota", "found", "recording"}, GoTo(r, pc)
        PROVE  rpc' \in [Rpcs -> RpcRecord]
    BY <2>3 DEF GoTo, ControlTypeOK, RpcRecord
  <2> QED
    BY <2>2, <2>3
<1>3. ran' \in [Keys -> Nat]
  BY DEF ControlTypeOK, Allow
<1> QED
  BY <1>1, <1>2, <1>3 DEF ControlTypeOK

LEMMA GoToExclusive ==
  ASSUME ControlTypeOK, Exclusive, NEW r \in Rpcs, NEW pc,
         \/ rpc[r].pc \in Deciding /\ pc \in Deciding
         \/ rpc[r].pc \in Reporting /\ pc \in Reporting,
         GoTo(r, pc)
  PROVE  Exclusive'
<1>1. /\ \A q \in Rpcs : rpc'[q].key = rpc[q].key
      /\ \A q \in Rpcs : rpc'[q].pc = IF q = r THEN pc ELSE rpc[q].pc
      /\ reserving' = reserving
  BY DEF GoTo, ControlTypeOK, RpcRecord
<1> QED
  BY <1>1 DEF Exclusive, Deciding, Reporting

LEMMA FinishExclusive ==
  ASSUME ControlTypeOK, Exclusive, NEW r \in Rpcs, rpc[r].pc # "idle", Finish(r)
  PROVE  Exclusive'
<1> DEFINE k == rpc[r].key
<1>1. /\ \A q \in Rpcs : rpc'[q] = IF q = r THEN NoRpc ELSE rpc[q]
      /\ rpc[r].pc \in Deciding \cup Reporting /\ k \in Keys
  BY DEF Finish, ControlTypeOK, RpcRecord, Deciding, Reporting, Exclusive
<1>2. \A q \in Rpcs : q # r /\ rpc[q].pc \in Deciding /\ rpc[r].pc \in Deciding => rpc[q].key # k
  BY DEF Exclusive
<1>3. rpc[r].pc \in Reporting => reserving' = reserving
  BY DEF Finish, Reporting
<1>4. reserving \ {k} \subseteq reserving'
  BY DEF Finish
<1>5. \A q \in Rpcs : rpc'[q].pc \in Deciding => rpc'[q].key \in reserving'
  BY <1>1, <1>2, <1>3, <1>4 DEF Exclusive, Deciding, NoRpc
<1> QED
  BY <1>1, <1>5 DEF Exclusive, Deciding, NoRpc

\* What a step of one handler does to the handlers.
LEMMA RpcTypes ==
  ASSUME TypeOK, ControlTypeOK, Exclusive, NEW r \in Rpcs, Rpc(r) PROVE ControlTypeOK'
<1> USE DEF ControlTypeOK
<1>k. rpc[r].pc # "idle" => rpc[r].key \in Keys
  BY DEF Exclusive
<1>1. ASSUME NEW k \in Keys, PreflightBegin(r, k) \/ PostflightBegin(r, k) PROVE ControlTypeOK'
  <2>1. now \in 0..Horizon
    BY DEF TypeOK
  <2>2. [pc |-> "deciding", key |-> k, since |-> now] \in RpcRecord
    BY <2>1 DEF RpcRecord
  <2>3. [NoRpc EXCEPT !.pc = "lookup", !.key = k, !.since = now] \in RpcRecord
    BY <2>1 DEF RpcRecord, NoRpc
  <2> QED
    BY <1>1, <2>2, <2>3 DEF PreflightBegin, PostflightBegin, outside
<1>2. CASE Decide(r)
  <2>1. Finish(r) \/ \E pc \in {"unreported", "reserve", "reserveToReject", "quota"} : GoTo(r, pc)
    BY <1>2 DEF Decide
  <2> QED
    BY <1>2, <2>1, HandlerTypes DEF Decide, outside
<1>3. CASE PreflightReserved(r)
  <2>1. \/ UNCHANGED <<rpc, reserving>>
        \/ Finish(r) \/ \E pc \in {"enforce", "reject"} : GoTo(r, pc)
    BY <1>3 DEF PreflightReserved
  <2> QED
    BY <1>3, <2>1, HandlerTypes DEF PreflightReserved, outside
<1>4. CASE Enforce(r)
  <2>1. \/ Finish(r) /\ (ran' = ran \/ Allow(rpc[r].key))
        \/ ran' = ran /\ \E pc \in {"reject", "reserveToReject"} : GoTo(r, pc)
    BY <1>4 DEF Enforce
  <2>2. rpc[r].key \in Keys
    BY <1>k, <1>4 DEF Enforce
  <2> QED
    BY <1>4, <2>1, <2>2, HandlerTypes DEF Enforce
<1>5. CASE Reject(r)
  BY <1>5, HandlerTypes DEF Reject, outside
<1>6. CASE QuotaLocal(r)
  <2>1. rpc[r].key \in Keys
    BY <1>k, <1>6 DEF QuotaLocal
  <2> QED
    BY <1>6, <2>1, HandlerTypes DEF QuotaLocal
<1>7. CASE PostflightLookup(r)
  BY <1>7, HandlerTypes DEF PostflightLookup, outside
<1>8. CASE PostflightRecord(r)
  BY <1>8, HandlerTypes DEF PostflightRecord, outside
<1>9. CASE Recorded(r)
  <2>1. rpc[r].key \in Keys
    BY <1>k, <1>9 DEF Recorded
  <2> QED
    BY <1>9, <2>1, HandlerTypes DEF Recorded
<1>10. CASE Timeout(r)
  BY <1>10, HandlerTypes DEF Timeout, outside
<1> QED
  BY <1>1, <1>2, <1>3, <1>4, <1>5, <1>6, <1>7, <1>8, <1>9, <1>10 DEF Rpc

LEMMA RpcExclusive ==
  ASSUME ControlTypeOK, Exclusive, NEW r \in Rpcs, Rpc(r) PROVE Exclusive'
<1>1. ASSUME NEW k \in Keys, PreflightBegin(r, k) PROVE Exclusive'
  <2>1. /\ \A q \in Rpcs : q # r => rpc'[q] = rpc[q]
        /\ rpc'[r].pc = "deciding" /\ rpc'[r].key = k
        /\ reserving' = reserving \cup {k} /\ k \notin reserving
    BY <1>1 DEF PreflightBegin, ControlTypeOK
  <2> QED
    BY <2>1 DEF Exclusive, Deciding
<1>2. ASSUME NEW k \in Keys, PostflightBegin(r, k) PROVE Exclusive'
  <2>1. /\ \A q \in Rpcs : q # r => rpc'[q] = rpc[q]
        /\ rpc'[r].pc = "lookup" /\ rpc'[r].key = k
        /\ reserving' = reserving
    BY <1>2 DEF PostflightBegin, NoRpc, ControlTypeOK
  <2> QED
    BY <2>1 DEF Exclusive, Deciding
<1>3. CASE Decide(r)
  <2>1. Finish(r) \/ \E pc \in {"unreported", "reserve", "reserveToReject", "quota"} : GoTo(r, pc)
    BY <1>3 DEF Decide
  <2> QED
    BY <1>3, <2>1, FinishExclusive, GoToExclusive DEF Decide, Deciding
<1>4. CASE PreflightReserved(r)
  <2>1. CASE UNCHANGED <<rpc, reserving>>
    BY <2>1 DEF Exclusive
  <2>2. CASE Finish(r) \/ \E pc \in {"enforce", "reject"} : GoTo(r, pc)
    BY <1>4, <2>2, FinishExclusive, GoToExclusive DEF PreflightReserved, Deciding
  <2> QED
    BY <1>4, <2>1, <2>2 DEF PreflightReserved
<1>5. CASE Enforce(r)
  <2>1. Finish(r) \/ \E pc \in {"reject", "reserveToReject"} : GoTo(r, pc)
    BY <1>5 DEF Enforce
  <2> QED
    BY <1>5, <2>1, FinishExclusive, GoToExclusive DEF Enforce, Deciding
<1>6. CASE Reject(r)
  BY <1>6, GoToExclusive DEF Reject, Deciding
<1>7. CASE QuotaLocal(r)
  BY <1>7, FinishExclusive DEF QuotaLocal
<1>8. CASE PostflightLookup(r)
  BY <1>8, FinishExclusive, GoToExclusive DEF PostflightLookup, Reporting
<1>9. CASE PostflightRecord(r)
  BY <1>9, GoToExclusive DEF PostflightRecord, Reporting
<1>10. CASE Recorded(r)
  <2>1. CASE UNCHANGED <<rpc, reserving>>
    BY <2>1 DEF Exclusive
  <2>2. CASE Finish(r)
    BY <1>10, <2>2, FinishExclusive DEF Recorded
  <2> QED
    BY <1>10, <2>1, <2>2 DEF Recorded
<1>11. CASE Timeout(r)
  BY <1>11, FinishExclusive DEF Timeout
<1> QED
  BY <1>1, <1>2, <1>3, <1>4, <1>5, <1>6, <1>7, <1>8, <1>9, <1>10, <1>11 DEF Rpc

\* Every other step leaves the handlers alone, or ends them all.
LEMMA OtherHandlers ==
  ASSUME \/ Delivery \/ Maintenance \/ ControlDisk \/ ControlLoop \/ ControlDiskFail
         \/ ControlStart \/ ControlTick \/ UNCHANGED controlVars
  PROVE  UNCHANGED <<rpc, reserving>>
  BY DEF Delivery, DeliveryRound, DeliverySnapshot, DeliveryNext, DeliveryAnswered, DeliveryFailed,
     DeliveryAcknowledge, DeliveryAcknowledged, DeliveryWait, Maintenance, ControlDisk, ControlLoop,
     ControlDiskFail, ControlStart, ControlTick, controlVars, handlers, outside

LEMMA ExclusiveStep ==
  ControlTypeOK /\ Exclusive /\ [ControlNext]_controlVars => Exclusive'
<1> SUFFICES ASSUME ControlTypeOK, Exclusive, [ControlNext]_controlVars PROVE Exclusive'
  OBVIOUS
<1>1. CASE ControlStop
  <2>1. \A r \in Rpcs : rpc'[r] = NoRpc
    BY <1>1 DEF ControlStop
  <2> QED
    BY <2>1 DEF NoRpc, Exclusive, Deciding
<1>2. CASE UNCHANGED <<rpc, reserving>>
  BY <1>2 DEF Exclusive
<1> QED
  BY <1>1, <1>2, RpcExclusive, OtherHandlers DEF ControlNext

LEMMA OtherTypes ==
  ASSUME TypeInv, TypeInv', ControlTypeOK, ControlNext \/ UNCHANGED controlVars,
         ~\E r \in Rpcs : Rpc(r)
  PROVE  ControlTypeOK'
<1> USE DEF ControlTypeOK
<1>1. CASE Delivery
  <2>1. UNCHANGED <<rpc, reserving, unadmitted, told, ran>> /\ wakeup' \in BOOLEAN
    BY <1>1 DEF Delivery, DeliveryRound, DeliverySnapshot, DeliveryNext, DeliveryAnswered,
       DeliveryFailed, DeliveryAcknowledge, DeliveryAcknowledged, DeliveryWait, handlers, outside
  <2>2. gateway' \in [Keys -> {"open", "answered"}]
    BY <1>1 DEF Delivery, DeliveryRound, DeliverySnapshot, DeliveryNext, DeliveryAnswered,
       DeliveryFailed, DeliveryAcknowledge, DeliveryAcknowledged, DeliveryWait, outside, Answer
  <2>3. /\ loop'.pc \in {"off", "top", "read", "next", "send", "settled", "ack", "wait", "dead"}
        /\ loop'.queue \subseteq Keys /\ loop'.key \in Keys \cup {NoKey}
    BY <1>1 DEF Delivery, DeliveryRound, DeliverySnapshot, DeliveryNext, DeliveryAnswered,
       DeliveryFailed, DeliveryAcknowledge, DeliveryAcknowledged, DeliveryWait, Advance,
       Received, Present
  <2> QED
    BY <2>1, <2>2, <2>3
<1>2. CASE ControlDisk
  <2>1. ran' \in [Keys -> Nat]
    BY <1>2 DEF ControlDisk
  <2> QED
    BY <1>2, <2>1 DEF ControlDisk, handlers
<1>3. CASE ControlStart
  BY <1>3 DEF ControlStart, NoLoop, handlers, outside
<1>4. CASE ControlStop
  <2>1. NoRpc \in RpcRecord
    BY OutboxConstants DEF NoRpc, RpcRecord
  <2> QED
    BY <1>4, <2>1 DEF ControlStop, NoLoop
<1>5. CASE Maintenance \/ ControlLoop \/ ControlDiskFail \/ ControlTick \/ UNCHANGED controlVars
  BY <1>5 DEF Maintenance, ControlLoop, ControlDiskFail, ControlTick, controlVars, handlers, outside
<1> QED
  BY <1>1, <1>2, <1>3, <1>4, <1>5 DEF ControlNext

LEMMA ControlTypesStep ==
  ASSUME TypeInv, TypeInv', ControlTypeOK, Exclusive, [ControlNext]_controlVars
  PROVE  ControlTypeOK'
  BY RpcTypes, OtherTypes DEF TypeInv

-----------------------------------------------------------------------------
\* The controller is a client of the store: each of its steps is one of
\* HookOutboxSpec's, so what is proved of the store holds under it.
LEMMA RpcStore ==
  ASSUME ControlTypeOK, Exclusive, NEW r \in Rpcs, Rpc(r)
  PROVE  Client(r) \/ CallerStep(r) \/ Cancel(r) \/ UNCHANGED vars
<1>0. /\ r \in Callers /\ r # Deliverer /\ "rejected" \in Outcomes
      /\ rpc[r].pc # "idle" => rpc[r].key \in Keys
  BY ControlConstants DEF Exclusive
<1>1. ASSUME NEW k \in Keys, PreflightBegin(r, k) PROVE UNCHANGED vars
  BY <1>1 DEF PreflightBegin
<1>2. ASSUME NEW k \in Keys, PostflightBegin(r, k) PROVE Client(r)
  BY <1>0, <1>2 DEF PostflightBegin, Client
<1>3. CASE Decide(r) \/ Enforce(r) \/ Reject(r) \/ PostflightRecord(r)
  BY <1>0, <1>3 DEF Decide, Enforce, Reject, PostflightRecord, Use, Client
<1>4. CASE PreflightReserved(r)
  BY <1>4 DEF PreflightReserved, CallerStep, Replies
<1>5. CASE QuotaLocal(r) \/ PostflightLookup(r)
  BY <1>5 DEF QuotaLocal, PostflightLookup, CallerStep
<1>6. CASE Recorded(r)
  BY <1>6 DEF Recorded, CallerStep, Replies
<1>7. CASE Timeout(r)
  BY <1>7 DEF Timeout
<1> QED
  BY <1>1, <1>2, <1>3, <1>4, <1>5, <1>6, <1>7 DEF Rpc

LEMMA DeliveryStore ==
  ASSUME Snapshot, Delivery
  PROVE  Client(Deliverer) \/ CallerStep(Deliverer) \/ UNCHANGED vars
  BY DEF Delivery, DeliveryRound, DeliverySnapshot, DeliveryNext, DeliveryAnswered,
     DeliveryFailed, DeliveryAcknowledge, DeliveryAcknowledged, DeliveryWait, Client, CallerStep,
     Replies, Snapshot, SnapshotIsCurrent

LEMMA StoreStep ==
  ASSUME ControlTypeOK, Exclusive, Snapshot, [ControlNext]_controlVars PROVE [Next]_vars
<1>1. ASSUME NEW r \in Rpcs, Rpc(r) PROVE [Next]_vars
  BY <1>1, RpcStore, ControlConstants DEF Next
<1>2. CASE Delivery
  BY <1>2, DeliveryStore, OutboxConstants DEF Next
<1>3. CASE Maintenance
  BY <1>3, NotCallers DEF Maintenance, Next, Client, CallerStep
<1>4. CASE ControlDisk \/ ControlLoop \/ ControlDiskFail
  BY <1>4 DEF ControlDisk, ControlLoop, ControlDiskFail, Next, StorageStep
<1>5. CASE ControlStart
  BY <1>5, NotCallers DEF ControlStart, Next, CallerStep
<1>6. CASE ControlStop \/ ControlTick \/ UNCHANGED controlVars
  BY <1>6 DEF ControlStop, ControlTick, controlVars, Next
<1> QED
  BY <1>1, <1>2, <1>3, <1>4, <1>5, <1>6 DEF ControlNext

-----------------------------------------------------------------------------
\* What needs no file: it holds also when the thread of an earlier controller
\* may still replace it.  Nothing is delivered before the controller is up, and
\* an acknowledgement that is being stored is the loop's own.
LoopOff == run # "up" => loop = NoLoop
AckHeld ==
  pending.phase \in {"writing", "written"} /\ pending.op = "acknowledge"
    => loop.pc = "ack" /\ pending.key = loop.key
LoopCall == loop.pc = "ack" => call[Deliverer].key = loop.key
LoopInv == LoopOff /\ Snapshot /\ AckHeld /\ LoopCall
FreeInv == Process /\ ControlTypeOK /\ Exclusive /\ LoopInv

LEMMA OthersAct ==
  ASSUME Process, LoopInv, NEW c \in Callers, c # Deliverer,
         Client(c) \/ CallerStep(c) \/ Cancel(c), UNCHANGED loop
  PROVE  LoopInv'
<1> USE DEF LoopInv
<1>0. LoopCall'
  <2>1. call'[Deliverer] = call[Deliverer]
    BY CallerActs, OutboxConstants DEF Process, TypeInv, TypeOK, Client, Invoke, Cancel, Acts,
       CommitsKept, Commit, Returns, Return
  <2> QED
    BY <2>1 DEF LoopCall
<1>1. CASE Client(c) \/ Cancel(c)
  <2>1. UNCHANGED <<run, mem, pending>>
    BY <1>1 DEF Client, Invoke, Cancel
  <2> QED
    BY <1>0, <2>1 DEF LoopOff, Snapshot, SnapshotIsCurrent, AckHeld, Received, Present
<1>2. CASE CallerStep(c)
  <2>1. Acts(c)
    BY <1>2, CallerActs DEF Process
  <2>2. CASE Returns(c)
    BY <1>0, <2>1, <2>2 DEF Acts, Returns, Return, LoopOff, Snapshot, SnapshotIsCurrent, AckHeld, Received, Present
  <2>3. CASE CommitsKept(c)
    <3>1. pending'.op # "acknowledge" /\ run' = run
      BY <2>3 DEF CommitsKept, Commit, Process, OneDeliverer
    <3> QED
      BY <1>0, <2>1, <3>1 DEF Acts, LoopOff, Snapshot, SnapshotIsCurrent, AckHeld, Received, Present
  <2> QED
    BY <2>1, <2>2, <2>3 DEF Acts
<1> QED
  BY <1>1, <1>2

LEMMA DeliveryHolds == ASSUME Process, ControlTypeOK, LoopInv, Delivery PROVE LoopInv'
<1> USE DEF LoopInv, Advance
<1>0. /\ call \in [Callers -> CallRecord] /\ Deliverer \in Callers
      /\ Client(Deliverer) \/ CallerStep(Deliverer) \/ UNCHANGED vars
  BY DeliveryStore, OutboxConstants DEF Process, TypeInv, TypeOK
<1>1. run = "up" /\ run' = "up" /\ mem' = mem /\ Received(mem)' = Received(mem)
  <2>1. run = "up"
    BY DEF LoopOff, NoLoop, Delivery, DeliveryRound, DeliverySnapshot, DeliveryNext, DeliveryAnswered,
       DeliveryFailed, DeliveryAcknowledge, DeliveryAcknowledged, DeliveryWait
  <2>2. run' = "up" /\ mem' = mem
    <3>1. CASE Client(Deliverer) \/ UNCHANGED vars
      BY <2>1, <3>1 DEF Client, Invoke, vars
    <3>2. CASE CallerStep(Deliverer)
      BY <1>0, <2>1, <3>2, CallerActs DEF Process, Acts, CommitsKept, Returns
    <3> QED
      BY <1>0, <3>1, <3>2
  <2> QED
    BY <2>1, <2>2 DEF Received, Present
<1>2. CASE /\ DeliveryRound \/ DeliverySnapshot \/ DeliveryNext \/ DeliveryAnswered
              \/ DeliveryFailed \/ DeliveryAcknowledge \/ DeliveryWait
  <2>1. pending' = pending /\ loop.pc # "ack"
    BY <1>2 DEF DeliveryRound, DeliverySnapshot, DeliveryNext, DeliveryAnswered, DeliveryFailed,
       DeliveryAcknowledge, DeliveryWait, Invoke, ReadTable, Return, vars
  <2>2. AckHeld'
    BY <2>1 DEF AckHeld
  <2>3. Snapshot'
    BY <1>1, <1>2 DEF Snapshot, SnapshotIsCurrent, DeliveryRound, DeliverySnapshot, DeliveryNext,
       DeliveryAnswered, DeliveryFailed, DeliveryAcknowledge, DeliveryWait, Received, Present
  <2>4. LoopCall'
    BY <1>0, <1>2 DEF LoopCall, DeliveryRound, DeliverySnapshot, DeliveryNext, DeliveryAnswered,
       DeliveryFailed, DeliveryAcknowledge, DeliveryWait, Invoke
  <2> QED
    BY <1>1, <2>2, <2>3, <2>4 DEF LoopOff
<1>3. CASE DeliveryAcknowledged
  <2>1. CASE Acknowledge(Deliverer, "awaiting") /\ UNCHANGED loop
    <3>1. loop.pc = "ack"
      BY <1>3 DEF DeliveryAcknowledged
    <3>2. pending'.key = loop.key /\ LoopCall'
      <4>1. Commit(Deliverer, [mem EXCEPT ![call[Deliverer].key] = NoEntry], "commit")
        BY <2>1 DEF Acknowledge
      <4>2. pending'.key = call[Deliverer].key /\ call'[Deliverer].key = call[Deliverer].key
        BY <1>0, <4>1 DEF Commit, CallRecord
      <4> QED
        BY <2>1, <3>1, <4>2 DEF LoopCall
    <3>3. Snapshot'
      BY <1>1, <2>1 DEF Snapshot, SnapshotIsCurrent
    <3> QED
      BY <1>1, <2>1, <3>1, <3>2, <3>3 DEF LoopOff, AckHeld
  <2>2. ASSUME Acknowledge(Deliverer, "ok") \/ AfterCommit(Deliverer) \/ StorageError(Deliverer),
               loop'.pc \in {"next", "dead"}, loop'.queue \subseteq loop.queue
        PROVE  LoopInv'
    <3>1. pending' = pending /\ pending.phase \notin {"writing", "written"}
      BY <2>2 DEF Acknowledge, AfterCommit, StorageError, MayEnter, InFlight, Return
    <3> QED
      BY <1>1, <2>2, <3>1 DEF LoopOff, LoopCall, Snapshot, SnapshotIsCurrent, AckHeld
  <2> QED
    BY <1>3, <2>1, <2>2 DEF DeliveryAcknowledged
<1> QED
  BY <1>2, <1>3 DEF Delivery

\* Publishing a table takes from the snapshot nothing but what the loop itself
\* acknowledged, which the snapshot no longer holds.
LEMMA LoopHolds == ASSUME Process, LoopInv, ControlLoop PROVE LoopInv'
<1> USE DEF LoopInv
<1>0. UNCHANGED <<loop, run, call>> /\ pending' = NoStorage
  BY DEF ControlLoop, Publish, LoadRead
<1>1. CASE Publish
  <2>1. ASSUME NEW k \in Received(mem), pending.op = "acknowledge" => k # pending.key
        PROVE  k \in Received(mem')
    <3>1. pending.store[k] = mem[k]
      BY <1>1, <2>1 DEF Publish, Process, InFlightKeeps
    <3> QED
      BY <1>1, <3>1 DEF Publish, Received, Present
  <2>2. pending.op = "acknowledge" => loop.pc = "ack" /\ pending.key = loop.key
    BY <1>1 DEF Publish, AckHeld
  <2>3. Snapshot'
    BY <1>0, <2>1, <2>2 DEF Snapshot, SnapshotIsCurrent
  <2> QED
    BY <1>0, <2>3 DEF NoStorage, LoopOff, LoopCall, AckHeld
<1>2. CASE LoadRead
  <2>1. loop = NoLoop
    BY <1>2 DEF LoadRead, Process, Loading, LoopOff
  <2> QED
    BY <1>0, <2>1 DEF NoLoop, NoStorage, LoopOff, LoopCall, AckHeld, Snapshot, SnapshotIsCurrent
<1> QED
  BY <1>1, <1>2 DEF ControlLoop

LEMMA FreeInvInit == ControlInit => FreeInv
<1>1. ControlInit => Process
  BY ProcessInit DEF ControlInit
<1>2. ControlInit => LoopInv
  BY DEF ControlInit, Init, NoLoop, NoStorage, LoopInv, LoopOff, LoopCall, Snapshot, SnapshotIsCurrent, AckHeld
<1> QED
  BY <1>1, <1>2, ControlTypesInit, ExclusiveInit DEF FreeInv

LEMMA FreeInvStep == FreeInv /\ [ControlNext]_controlVars => FreeInv' /\ [Next]_vars
<1> SUFFICES ASSUME FreeInv, [ControlNext]_controlVars PROVE FreeInv' /\ [Next]_vars
  OBVIOUS
<1> USE DEF FreeInv
<1>1. [Next]_vars
  BY StoreStep DEF LoopInv
<1>2. Process' /\ Exclusive'
  BY <1>1, ProcessStep, ExclusiveStep
<1>3. ControlTypeOK'
  BY <1>2, ControlTypesStep DEF Process
<1>4. ASSUME NEW r \in Rpcs, Rpc(r) PROVE LoopInv'
  <2>1. UNCHANGED loop
    BY <1>4 DEF Rpc, PreflightBegin, PostflightBegin, Decide, PreflightReserved, Enforce, Reject,
       QuotaLocal, PostflightLookup, PostflightRecord, Recorded, Timeout
  <2>2. CASE Client(r) \/ CallerStep(r) \/ Cancel(r)
    BY <2>1, <2>2, NotCallers, OthersAct
  <2>3. CASE UNCHANGED vars
    BY <2>1, <2>3 DEF vars, LoopInv, LoopOff, LoopCall, Snapshot, SnapshotIsCurrent, AckHeld, Received, Present
  <2> QED
    BY <1>4, <2>2, <2>3, RpcStore
<1>5. ASSUME Delivery PROVE LoopInv'
  BY <1>5, DeliveryHolds
<1>6. ASSUME Maintenance PROVE LoopInv'
  <2>1. Client(Maint) \/ CallerStep(Maint)
    BY <1>6, NotCallers DEF Maintenance, Client, CallerStep
  <2> QED
    BY <1>6, <2>1, NotCallers, OthersAct DEF Maintenance
<1>7. ASSUME ControlDisk \/ ControlDiskFail \/ ControlTick \/ UNCHANGED controlVars PROVE LoopInv'
  <2>1. UNCHANGED <<run, mem, call, loop>>
    BY <1>7 DEF ControlDisk, DiskReplace, OrphanReplace, ControlDiskFail, DiskFail, ControlTick, Tick,
       controlVars, vars
  <2>2. pending'.phase \in {"writing", "written"} =>
          /\ pending.phase \in {"writing", "written"}
          /\ pending'.op = pending.op /\ pending'.key = pending.key
    BY <1>7 DEF ControlDisk, DiskReplace, OrphanReplace, ControlDiskFail, DiskFail, NoStorage,
       ControlTick, Tick, controlVars, vars, Process, TypeInv, TypeOK, StorageTask
  <2> QED
    BY <2>1, <2>2 DEF LoopInv, LoopOff, LoopCall, Snapshot, SnapshotIsCurrent, AckHeld, Received, Present
<1>8. ASSUME ControlLoop PROVE LoopInv'
  BY <1>8, LoopHolds
<1>9. ASSUME ControlStart PROVE LoopInv'
  <2>1. run # "up" /\ loop = NoLoop
    BY <1>9, NotCallers DEF ControlStart, Start, AfterRead, Loaded, Process, Loading, LoopInv, LoopOff
  <2>2. /\ loop'.pc \in {"off", "top"} /\ loop'.queue = {}
        /\ run' # "up" => loop' = NoLoop
    BY <1>9, <2>1 DEF ControlStart, Start, AfterRead, Loaded, NoLoop
  <2>3. ~(pending'.phase \in {"writing", "written"} /\ pending'.op = "acknowledge")
    BY <1>9, NotCallers DEF ControlStart, Start, AfterRead, Loaded, NoStorage, Commit, Return,
       Process, Loading
  <2> QED
    BY <2>2, <2>3 DEF LoopInv, LoopOff, LoopCall, Snapshot, SnapshotIsCurrent, AckHeld
<1>10. ASSUME ControlStop PROVE LoopInv'
  BY <1>10 DEF ControlStop, Crash, Stop, LoadError, Forget, NoLoop, NoStorage, LoopInv, LoopOff,
     LoopCall, Snapshot, SnapshotIsCurrent, AckHeld
<1>11. LoopInv'
  BY <1>4, <1>5, <1>6, <1>7, <1>8, <1>9, <1>10 DEF ControlNext
<1> QED
  BY <1>1, <1>2, <1>3, <1>11

-----------------------------------------------------------------------------
\* What a caller's step does to the store: it returns, or it writes a pruned
\* table, or one with its own entry changed.
Changes(c, e) ==
  LET k == call[c].key IN
  /\ k \in Keys
  /\ \/ call[c].op = "reserve" /\ disk[k] = NoEntry /\ e = Reservation(c)
     \/ call[c].op = "record" /\ k \in Awaiting(disk) /\ e # NoEntry /\ e.state = "received"
     \/ call[c].op = "acknowledge" /\ call[c].step = "wait" /\ e = NoEntry
Returned(c) == pending' = pending /\ call' = [call EXCEPT ![c] = NoCall]
Pruned(c) ==
  /\ pending' = [phase |-> "writing", store |-> Retained(disk), op |-> call[c].op, key |-> call[c].key]
  /\ call' = [call EXCEPT ![c].step = "prune"]
Changed(c, e) ==
  /\ pending' = [phase |-> "writing", store |-> [disk EXCEPT ![call[c].key] = e],
                 op |-> call[c].op, key |-> call[c].key]
  /\ call' = [call EXCEPT ![c].step = "commit"]
  /\ Changes(c, e)
Writes(c) ==
  /\ mem = disk /\ lock \in {NoCaller, c}
  /\ Pruned(c) \/ \E e : Changed(c, e)

LEMMA ReserveBodyWrites ==
  ASSUME TypeInv, NEW c \in Callers, NEW x \in Replies, mem = disk, lock \in {NoCaller, c},
         call[c].op = "reserve", ReserveBody(c, x)
  PROVE  Returned(c) \/ Writes(c)
<1>1. call[c].key \in Keys
  BY DEF TypeInv, CallArguments
<1>2. CASE Return(c)
  BY <1>2 DEF Return, Returned
<1>3. CASE /\ mem[call[c].key] = NoEntry
           /\ Commit(c, [mem EXCEPT ![call[c].key] = Reservation(c)], "commit")
  <2>1. Changed(c, Reservation(c))
    BY <1>1, <1>3 DEF Changed, Changes, Commit
  <2> QED
    BY <2>1 DEF Writes
<1> QED
  BY <1>2, <1>3 DEF ReserveBody

LEMMA CallerWrites ==
  ASSUME IInv, NEW c \in Callers, CallerStep(c)
  PROVE  /\ UNCHANGED <<now, disk, mem, orphan>>
         /\ Returned(c) \/ Writes(c)
<1>1. UNCHANGED <<now, disk, mem, orphan>> /\ TypeInv
  BY CallerLeaves DEF IInv
<1>r. Return(c) => Returned(c)
  BY DEF Return, Returned
<1>p. mem = disk /\ lock \in {NoCaller, c} /\ Commit(c, Retained(mem), "prune") => Writes(c)
  BY DEF Commit, Writes, Pruned
<1>2. ASSUME NEW x \in Replies, Reserve(c, x) PROVE Returned(c) \/ Writes(c)
  BY <1>1, <1>2, <1>p, EntryIsCoherent, ReserveBodyWrites DEF Reserve, MayEnter
<1>3. ASSUME NEW x \in Replies, RecordOutcome(c, x) PROVE Returned(c) \/ Writes(c)
  <2>1. mem = disk /\ lock = NoCaller /\ call[c].op = "record"
    BY <1>3, EntryIsCoherent DEF RecordOutcome, MayEnter
  <2> DEFINE k == call[c].key
             e == [mem[k] EXCEPT !.state = "received", !.outcome = call[c].outcome]
  <2>2. CASE Return(c)
    BY <1>r, <2>2
  <2>3. CASE k \in Awaiting(mem) /\ Commit(c, [mem EXCEPT ![k] = e], "commit")
    <3>1. mem[k] \in Entry /\ k \in Keys
      BY <1>1, <2>3 DEF Awaiting, Present, TypeInv, TypeOK, Store
    <3>2. e \in Entry /\ e.state = "received"
      BY <1>1, <2>1, <3>1 DEF Entry, TypeInv, CallArguments
    <3>3. Changed(c, e)
      BY <2>1, <2>3, <3>1, <3>2, NoEntryIsNone DEF Changed, Changes, Commit
    <3> QED
      BY <2>1, <3>3 DEF Writes
  <2> QED
    BY <1>3, <2>2, <2>3 DEF RecordOutcome
<1>4. ASSUME NEW x \in Replies, Acknowledge(c, x) PROVE Returned(c) \/ Writes(c)
  <2>1. /\ mem = disk /\ lock = NoCaller /\ call[c].key \in Keys
        /\ call[c].op = "acknowledge" /\ call[c].step = "wait"
    BY <1>1, <1>4, EntryIsCoherent DEF Acknowledge, MayEnter, TypeInv, CallArguments
  <2>2. CASE Return(c)
    BY <1>r, <2>2
  <2>3. CASE Commit(c, [mem EXCEPT ![call[c].key] = NoEntry], "commit")
    <3>1. Changed(c, NoEntry)
      BY <2>1, <2>3 DEF Changed, Changes, Commit
    <3> QED
      BY <2>1, <3>1 DEF Writes
  <2> QED
    BY <1>4, <2>2, <2>3 DEF Acknowledge
<1>5. ASSUME NEW x \in Replies, Prune(c, x) PROVE Returned(c) \/ Writes(c)
  BY <1>5, <1>r, <1>p, EntryIsCoherent DEF Prune
<1>6. ASSUME NEW x \in Replies, AfterPrune(c, x) PROVE Returned(c) \/ Writes(c)
  BY <1>1, <1>6, <1>r, ResumeIsCoherent, ReserveBodyWrites DEF AfterPrune
<1>7. ASSUME \/ ReadTable(c, "received") \/ ReadTable(c, "lookup")
             \/ AfterCommit(c) \/ StorageError(c) \/ Loaded(c)
      PROVE  Returned(c)
  BY <1>7, <1>r DEF ReadTable, AfterCommit, StorageError, Loaded
<1>8. ASSUME AfterRead(c) PROVE Returned(c) \/ Writes(c)
  BY <1>8, <1>r, <1>p, ResumeIsCoherent DEF AfterRead
<1> QED
  BY <1>1, <1>2, <1>3, <1>4, <1>5, <1>6, <1>7, <1>8 DEF CallerStep

-----------------------------------------------------------------------------
\* Handlers stay paired with what they await.
LEMMA PairedInit == ControlInit => Paired /\ Timely
  BY NotCallers DEF ControlInit, Init, Paired, IdleCalls, LoopCalls, RunsUp, Pair, Timely, NoCall, NoRpc

LEMMA IdleStep == IInv /\ IdleCalls /\ [Next]_vars => IdleCalls'
<1> SUFFICES ASSUME IInv, IdleCalls, [Next]_vars PROVE IdleCalls'
  OBVIOUS
<1> USE DEF IdleCalls
<1>0. call \in [Callers -> CallRecord]
  BY DEF IInv, TypeInv, TypeOK
<1>1. ASSUME NEW c \in Callers, Client(c) \/ Cancel(c) \/ Start(c) PROVE IdleCalls'
  <2>1. \A b \in Callers : b # c => call'[b] = call[b]
    BY <1>0, <1>1 DEF Client, Invoke, Cancel, Start
  <2>2. call'[c].step = "idle" => call'[c].op = "prune"
    <3>1. CASE Client(c)
      BY <1>0, <3>1 DEF Client, Invoke
    <3>2. CASE Cancel(c)
      BY <1>0, <3>2 DEF Cancel, Left, Gone, NoCall
    <3>3. CASE Start(c)
      BY <1>0, <3>3 DEF Start, NoCall
    <3> QED
      BY <1>1, <3>1, <3>2, <3>3
  <2> QED
    BY <2>1, <2>2
<1>2. ASSUME NEW c \in Callers, CallerStep(c) PROVE IdleCalls'
  <2>1. Returned(c) \/ Writes(c)
    BY <1>2, CallerWrites
  <2> QED
    BY <1>0, <2>1 DEF Returned, Writes, Pruned, Changed, NoCall, CallRecord
<1>3. CASE StorageStep \/ OrphanReplace \/ Tick \/ UNCHANGED vars
  BY <1>3 DEF StorageStep, DiskReplace, DiskFail, Publish, LoadRead, OrphanReplace, Tick, vars
<1>4. CASE LoadError \/ Crash \/ Stop
  BY <1>4 DEF LoadError, Crash, Stop, Forget, NoCall
<1> QED
  BY <1>1, <1>2, <1>3, <1>4 DEF Next

\* Where a handler's step leaves its own call.
LEMMA RpcPair ==
  ASSUME TypeInv, ControlTypeOK, IdleCalls, NEW r \in Rpcs, Pair(r), Rpc(r) PROVE Pair(r)'
<1> USE DEF Pair
<1>0. /\ call \in [Callers -> CallRecord] /\ rpc \in [Rpcs -> RpcRecord]
      /\ r \in Callers /\ r # Deliverer
  BY ControlConstants DEF TypeInv, TypeOK, ControlTypeOK
<1>r. ASSUME Return(r) \/ Cancel(r) PROVE call'[r] = NoCall
  BY <1>0, <1>r DEF Return, Cancel, Left
<1>f. Finish(r) => rpc'[r] = NoRpc
  BY <1>0 DEF Finish
<1>g. \A pc : GoTo(r, pc) => rpc'[r].pc = pc /\ rpc'[r].key = rpc[r].key
  BY <1>0 DEF GoTo, RpcRecord
<1>i. \A op, k, p, o : Invoke(r, op, k, p, o) => call'[r].op = op /\ call'[r].key = k
  BY <1>0 DEF Invoke
<1>1. ASSUME NEW k \in Keys, PreflightBegin(r, k) PROVE Pair(r)'
  BY <1>0, <1>1 DEF PreflightBegin, vars
<1>2. ASSUME NEW k \in Keys, PostflightBegin(r, k) PROVE Pair(r)'
  BY <1>0, <1>2, <1>i DEF PostflightBegin, NoRpc
<1>3. CASE Decide(r)
  BY <1>3, <1>f, <1>g, <1>i DEF Decide, Use, NoRpc, vars
<1>4. CASE PreflightReserved(r)
  <2>1. ASSUME Reserve(r, "awaiting") \/ AfterPrune(r, "awaiting"), UNCHANGED <<rpc, reserving>>
        PROVE  Pair(r)'
    <3>1. call'[r].op = call[r].op /\ call'[r].key = call[r].key
      BY <1>0, <2>1 DEF Reserve, AfterPrune, ReserveBody, Commit, CallRecord
    <3> QED
      BY <2>1, <3>1
  <2>2. ASSUME NEW x \in {"duplicate", "full"}, Reserve(r, x) \/ AfterPrune(r, x), Finish(r)
        PROVE  Pair(r)'
    BY <1>f, <1>r, <2>2 DEF Reserve, AfterPrune, ReserveBody, NoCall, NoRpc
  <2>3. ASSUME StorageError(r) \/ AfterCommit(r),
               Finish(r) \/ \E pc \in {"enforce", "reject"} : GoTo(r, pc)
        PROVE  Pair(r)'
    BY <1>f, <1>g, <1>r, <2>3 DEF StorageError, AfterCommit, NoCall, NoRpc
  <2> QED
    BY <1>4, <2>1, <2>2, <2>3 DEF PreflightReserved
<1>5. CASE Enforce(r) \/ Reject(r) \/ PostflightRecord(r)
  BY <1>5, <1>f, <1>g, <1>i DEF Enforce, Reject, PostflightRecord, Use, NoRpc, vars
<1>6. CASE QuotaLocal(r) \/ PostflightLookup(r)
  BY <1>6, <1>f, <1>g, <1>r DEF QuotaLocal, PostflightLookup, ReadTable, NoCall, NoRpc
<1>7. CASE Recorded(r)
  <2>1. ASSUME RecordOutcome(r, "awaiting"), UNCHANGED <<rpc, reserving>> PROVE Pair(r)'
    <3>1. call'[r].op = call[r].op /\ call'[r].key = call[r].key
      BY <1>0, <2>1 DEF RecordOutcome, Commit, CallRecord
    <3> QED
      BY <2>1, <3>1
  <2>2. ASSUME \/ RecordOutcome(r, "unavailable") \/ RecordOutcome(r, "mismatch")
               \/ StorageError(r) \/ AfterCommit(r),
               Finish(r)
        PROVE  Pair(r)'
    BY <1>f, <1>r, <2>2 DEF RecordOutcome, StorageError, AfterCommit, NoCall, NoRpc
  <2> QED
    BY <1>7, <2>1, <2>2 DEF Recorded
<1>8. CASE Timeout(r)
  BY <1>0, <1>8, <1>f, <1>r DEF Timeout, NoCall, NoRpc, IdleCalls, vars
<1> QED
  BY <1>1, <1>2, <1>3, <1>4, <1>5, <1>6, <1>7, <1>8 DEF Rpc

\* A handler's step leaves the calls and the state of all others alone.
LEMMA RpcAlone ==
  ASSUME IInv, ControlTypeOK, Exclusive, NEW r \in Rpcs, Rpc(r)
  PROVE  /\ \A c \in Callers : c # r => call'[c] = call[c]
         /\ \A q \in Rpcs : q # r => rpc'[q] = rpc[q]
         /\ UNCHANGED <<run, now, disk, mem, loop, gateway>>
<1>0. call \in [Callers -> CallRecord] /\ rpc \in [Rpcs -> RpcRecord] /\ r \in Callers
  BY ControlConstants DEF IInv, TypeInv, TypeOK, ControlTypeOK
<1>1. Client(r) \/ CallerStep(r) \/ Cancel(r) \/ UNCHANGED vars
  BY RpcStore
<1>2. UNCHANGED <<now, disk, mem>>
  BY <1>0, <1>1, CallerLeaves DEF vars
<1>3. \A c \in Callers : c # r => call'[c] = call[c]
  <2>1. CallerStep(r) => Returned(r) \/ Writes(r)
    BY <1>0, CallerWrites
  <2> QED
    BY <1>0, <1>1, <2>1 DEF Client, Invoke, Cancel, Returned, Writes, Pruned, Changed, vars
<1>4. \A q \in Rpcs : q # r => rpc'[q] = rpc[q]
  BY <1>0 DEF Rpc, PreflightBegin, PostflightBegin, Decide, PreflightReserved, Enforce, Reject,
     QuotaLocal, PostflightLookup, PostflightRecord, Recorded, Timeout, Finish, GoTo
<1>5. UNCHANGED <<loop, gateway>>
  BY DEF Rpc, PreflightBegin, PostflightBegin, Decide, PreflightReserved, Enforce, Reject,
     QuotaLocal, PostflightLookup, PostflightRecord, Recorded, Timeout, outside
<1>6. run' = run
  BY <1>0 DEF Rpc, PreflightBegin, PostflightBegin, Decide, PreflightReserved, Enforce, Reject,
     QuotaLocal, PostflightLookup, PostflightRecord, Recorded, Timeout, Use, Invoke, vars, Cancel,
     Reserve, AfterPrune, StorageError, AfterCommit, ReadTable, RecordOutcome
<1> QED
  BY <1>2, <1>3, <1>4, <1>5, <1>6

LEMMA OtherPair ==
  ASSUME IInv, ControlTypeOK, Exclusive, Snapshot, ControlNext, ~\E r \in Rpcs : Rpc(r), ~ControlStop
  PROVE  \A r \in Rpcs : rpc'[r] = rpc[r] /\ call'[r] = call[r]
<1>0. call \in [Callers -> CallRecord]
  BY DEF IInv, TypeInv, TypeOK
<1>1. UNCHANGED rpc
  BY OtherHandlers DEF ControlNext
<1>2. CASE Delivery
  <2>1. Client(Deliverer) \/ CallerStep(Deliverer) \/ UNCHANGED vars
    BY <1>2, DeliveryStore
  <2>2. CallerStep(Deliverer) => Returned(Deliverer) \/ Writes(Deliverer)
    BY NotCallers, CallerWrites
  <2>3. \A c \in Callers : c # Deliverer => call'[c] = call[c]
    BY <1>0, <2>1, <2>2, NotCallers
    DEF Client, Invoke, Returned, Writes, Pruned, Changed, vars
  <2> QED
    BY <1>1, <2>3, NotCallers
<1>3. CASE Maintenance \/ ControlStart
  <2>1. \A c \in Callers : c # Maint => call'[c] = call[c]
    BY <1>0, <1>3, NotCallers DEF Maintenance, ControlStart, Invoke, Prune, AfterPrune,
       ReserveBody, StorageError, Start, AfterRead, Loaded, Commit, Return
  <2> QED
    BY <1>1, <2>1, NotCallers
<1>4. CASE ControlDisk \/ ControlLoop \/ ControlDiskFail \/ ControlTick
  BY <1>1, <1>4 DEF ControlDisk, ControlLoop, ControlDiskFail, ControlTick, DiskReplace,
     OrphanReplace, Publish, LoadRead, DiskFail, Tick
<1> QED
  BY <1>2, <1>3, <1>4 DEF ControlNext

LEMMA RunsUpStep ==
  ASSUME IInv, ControlTypeOK, Exclusive, RunsUp, ControlNext PROVE RunsUp'
<1> USE DEF RunsUp
<1>1. ASSUME NEW r \in Rpcs, Rpc(r) PROVE RunsUp'
  <2>1. run = "up"
    BY <1>1 DEF Rpc, PreflightBegin, PostflightBegin, Decide, PreflightReserved, Enforce, Reject,
       QuotaLocal, PostflightLookup, PostflightRecord, Recorded, Timeout
  <2> QED
    BY <1>1, <2>1, RpcAlone
<1>2. CASE Delivery
  <2>1. run = "up"
    BY <1>2 DEF Delivery, DeliveryRound, DeliverySnapshot, DeliveryNext, DeliveryAnswered,
       DeliveryFailed, DeliveryAcknowledge, DeliveryAcknowledged, DeliveryWait, NoLoop
  <2>2. run' = run
    BY <1>2 DEF Delivery, DeliveryRound, DeliverySnapshot, DeliveryNext, DeliveryAnswered,
       DeliveryFailed, DeliveryAcknowledge, DeliveryAcknowledged, DeliveryWait, Invoke, ReadTable,
       Acknowledge, AfterCommit, StorageError, vars
  <2> QED
    BY <2>1, <2>2
<1>3. CASE Maintenance \/ ControlDisk \/ ControlLoop \/ ControlDiskFail \/ ControlTick
  <2>1. UNCHANGED <<run, loop, rpc>>
    BY <1>3 DEF Maintenance, ControlDisk, ControlLoop, ControlDiskFail, ControlTick, handlers,
       Invoke, Prune, AfterPrune, StorageError, DiskReplace, OrphanReplace, Publish, LoadRead,
       DiskFail, Tick
  <2> QED
    BY <2>1
<1>4. CASE ControlStart
  <2>1. run # "up"
    BY <1>4, NotCallers DEF ControlStart, Start, AfterRead, Loaded, IInv, Loading
  <2>2. UNCHANGED rpc /\ (run' # "up" => loop' = NoLoop)
    BY <1>4, <2>1 DEF ControlStart, Start, AfterRead, Loaded, handlers, NoLoop
  <2> QED
    BY <2>1, <2>2
<1>5. CASE ControlStop
  BY <1>5 DEF ControlStop, NoRpc
<1> QED
  BY <1>1, <1>2, <1>3, <1>4, <1>5 DEF ControlNext

LEMMA LoopCallsStep ==
  ASSUME IInv, ControlTypeOK, Exclusive, Snapshot, LoopCalls, ControlNext PROVE LoopCalls'
<1> USE NotCallers DEF LoopCalls
<1>0. call \in [Callers -> CallRecord]
  BY DEF IInv, TypeInv, TypeOK
<1>1. ASSUME NEW r \in Rpcs, Rpc(r) PROVE LoopCalls'
  BY <1>1, RpcAlone
<1>2. CASE Delivery
  <2>1. Returned(Deliverer) \/ Writes(Deliverer) \/ Client(Deliverer) \/ UNCHANGED vars
    BY <1>2, DeliveryStore, CallerWrites
  <2>2. call'[Maint] = call[Maint] /\ call'[Deliverer].op \in {"prune", "received", "acknowledge"}
    BY <1>0, <2>1 DEF Client, Invoke, Returned, NoCall, Writes, Pruned, Changed, CallRecord, vars
  <2> QED
    BY <2>2
<1>3. CASE Maintenance \/ ControlStart
  <2>1. \/ Returned(Maint) \/ Writes(Maint) \/ Invoke(Maint, "prune", NoKey, NoPrint, "none")
        \/ Start(Maint)
    BY <1>3, CallerWrites DEF Maintenance, ControlStart, CallerStep
  <2>2. call'[Deliverer] = call[Deliverer] /\ call'[Maint].op \in {"prune", "load"}
    <3>0. CASE Start(Maint)
      BY <1>0, <3>0 DEF Start, NoCall
    <3>1. CASE Returned(Maint) \/ Invoke(Maint, "prune", NoKey, NoPrint, "none")
      BY <1>0, <3>1 DEF Invoke, Returned, NoCall
    <3>2. CASE Writes(Maint)
      BY <1>0, <3>2 DEF Writes, Pruned, Changed, CallRecord
    <3> QED
      BY <2>1, <3>0, <3>1, <3>2
  <2> QED
    BY <2>2
<1>4. CASE ControlStop
  BY <1>4 DEF ControlStop, Crash, Stop, LoadError, Forget, NoCall
<1>5. CASE ControlDisk \/ ControlLoop \/ ControlDiskFail \/ ControlTick
  BY <1>5 DEF ControlDisk, ControlLoop, ControlDiskFail, ControlTick, DiskReplace,
     OrphanReplace, Publish, LoadRead, DiskFail, Tick
<1> QED
  BY <1>1, <1>2, <1>3, <1>4, <1>5 DEF ControlNext

LEMMA PairedStep ==
  ASSUME IInv, ControlTypeOK, Exclusive, Snapshot, Paired, [ControlNext]_controlVars PROVE Paired'
<1>1. IdleCalls'
  BY StoreStep, IdleStep DEF Paired
<1>2. CASE UNCHANGED controlVars
  BY <1>2 DEF controlVars, vars, handlers, Paired, IdleCalls, LoopCalls, RunsUp, Pair
<1>3. CASE ControlNext
  <2>1. RunsUp'
    BY <1>3, RunsUpStep DEF Paired
  <2>2. ASSUME NEW q \in Rpcs, rpc'[q] = rpc[q], call'[q] = call[q] PROVE Pair(q)'
    BY <2>2 DEF Paired, Pair
  <2>3. ASSUME NEW r \in Rpcs, Rpc(r), NEW q \in Rpcs PROVE Pair(q)'
    <3>1. CASE q = r
      BY <2>3, <3>1, RpcPair DEF Paired, IInv
    <3>2. CASE q # r
      BY <2>2, <2>3, <3>2, RpcAlone, NotCallers
    <3> QED
      BY <3>1, <3>2
  <2>4. ASSUME ControlStop, NEW q \in Rpcs PROVE Pair(q)'
    <3>1. rpc'[q] = NoRpc /\ call'[q] = NoCall
      BY <2>4, NotCallers DEF ControlStop, Crash, Stop, LoadError, Forget
    <3> QED
      BY <3>1 DEF Pair, NoRpc, NoCall
  <2> QED
    BY <1>1, <1>3, <2>1, <2>2, <2>3, <2>4, OtherPair, LoopCallsStep DEF Paired
<1> QED
  BY <1>2, <1>3

LEMMA TimelyStep ==
  ASSUME IInv, ControlTypeOK, Exclusive, Snapshot, Timely, [ControlNext]_controlVars PROVE Timely'
<1>0. now \in Nat /\ \A r \in Rpcs : rpc[r].since \in Nat
  BY OutboxConstants DEF IInv, TypeInv, TypeOK, ControlTypeOK, RpcRecord
<1>1. ASSUME NEW r \in Rpcs, Rpc(r) PROVE Timely'
  <2>1. \/ UNCHANGED rpc \/ Finish(r) \/ \E pc : rpc[r].pc # "idle" /\ GoTo(r, pc)
        \/ \E k \in Keys : PostflightBegin(r, k) \/ PreflightBegin(r, k)
    BY <1>1 DEF Rpc, Decide, PreflightReserved, Enforce, Reject, QuotaLocal, PostflightLookup,
       PostflightRecord, Recorded, Timeout
  <2>2. rpc'[r].pc # "idle" =>
          rpc'[r].since = now \/ (rpc[r].pc # "idle" /\ rpc'[r].since = rpc[r].since)
    <3>0. rpc \in [Rpcs -> RpcRecord]
      BY DEF ControlTypeOK
    <3>1. ASSUME NEW pc, rpc[r].pc # "idle", GoTo(r, pc) PROVE rpc'[r].since = rpc[r].since
      BY <3>0, <3>1 DEF GoTo, RpcRecord
    <3>2. ASSUME Finish(r) PROVE rpc'[r].pc = "idle"
      BY <3>0, <3>2 DEF Finish, NoRpc
    <3>3. ASSUME NEW k, PreflightBegin(r, k) PROVE rpc'[r].since = now
      BY <3>0, <3>3 DEF PreflightBegin
    <3>4. ASSUME NEW k, PostflightBegin(r, k) PROVE rpc'[r].since = now
      BY <3>0, <3>4 DEF PostflightBegin, NoRpc
    <3> QED
      BY <2>1, <3>1, <3>2, <3>3, <3>4
  <2>3. now' = now /\ \A q \in Rpcs : q # r => rpc'[q] = rpc[q]
    BY <1>1, RpcAlone
  <2> QED
    BY <1>0, <2>2, <2>3 DEF Timely
<1>2. CASE ControlTick
  BY <1>0, <1>2 DEF ControlTick, Tick, Timely
<1>3. CASE ControlStop
  BY <1>3 DEF ControlStop, NoRpc, Timely
<1>4. CASE \/ Delivery \/ Maintenance \/ ControlDisk \/ ControlLoop \/ ControlDiskFail
           \/ ControlStart \/ UNCHANGED controlVars
  <2>1. now' = now
    <3>1. CASE Delivery
      BY <3>1, DeliveryStore, CallerLeaves, OutboxConstants DEF vars
    <3>2. CASE Maintenance \/ ControlStart
      BY <3>2 DEF Maintenance, ControlStart, Invoke, Prune, AfterPrune, StorageError, Start,
         AfterRead, Loaded
    <3>3. CASE ControlDisk \/ ControlLoop \/ ControlDiskFail \/ UNCHANGED controlVars
      BY <3>3 DEF ControlDisk, ControlLoop, ControlDiskFail, controlVars, vars, DiskReplace,
         OrphanReplace, Publish, LoadRead, DiskFail
    <3> QED
      BY <1>4, <3>1, <3>2, <3>3
  <2>2. rpc' = rpc
    BY <1>4, OtherHandlers
  <2> QED
    BY <2>1, <2>2 DEF Timely
<1> QED
  BY <1>1, <1>2, <1>3, <1>4 DEF ControlNext

-----------------------------------------------------------------------------
\* The delivery loop.
LEMMA DeliveryInit == ControlInit => DeliveryInv
  BY NotCallers DEF ControlInit, Init, NoLoop, NoStorage, DeliveryInv, Snapshot, SnapshotIsCurrent,
     AckAwaited, Answered

\* Whoever else works in the store writes only while the loop does not.
LEMMA OthersDeliver ==
  ASSUME StoreInv, DeliveryInv, NEW c \in Callers, c # Deliverer,
         pending' = pending \/ Writes(c),
         UNCHANGED <<loop, gateway, disk, mem>>, call'[Deliverer] = call[Deliverer]
  PROVE  DeliveryInv'
<1>1. Snapshot' /\ Answered'
  BY DEF DeliveryInv, Snapshot, SnapshotIsCurrent, Answered, Received, Present
<1>2. CASE pending' = pending
  BY <1>1, <1>2 DEF DeliveryInv, AckAwaited
<1>3. CASE Writes(c)
  <2>1. pending'.op # "acknowledge"
    BY <1>3 DEF StoreInv, RInv, OneDeliverer, Writes, Pruned, Changed
  <2>2. call[Deliverer].step # "commit"
    BY <1>3, OutboxConstants DEF StoreInv, IInv, LockDiscipline, Writes
  <2> QED
    BY <1>1, <2>1, <2>2 DEF DeliveryInv, AckAwaited
<1> QED
  BY <1>2, <1>3

LEMMA DeliveryKeeps ==
  ASSUME StoreInv, ControlTypeOK, RunsUp, DeliveryInv, Delivery PROVE DeliveryInv'
<1> USE DEF DeliveryInv, Snapshot, SnapshotIsCurrent, AckAwaited, Answered, Advance
<1>0. /\ Deliverer \in Callers /\ call \in [Callers -> CallRecord]
      /\ mem' = mem
  <2>1. Client(Deliverer) \/ CallerStep(Deliverer) \/ UNCHANGED vars
    BY DeliveryStore
  <2> QED
    BY <2>1, OutboxConstants, CallerLeaves DEF StoreInv, IInv, TypeInv, TypeOK, vars
<1>r. Received(mem)' = Received(mem)
  BY <1>0 DEF Received, Present
<1>p. loop.pc # "ack" => ~(pending.phase \in {"writing", "written"} /\ pending.op = "acknowledge")
  OBVIOUS
<1>1. CASE DeliveryRound
  BY <1>1, <1>p DEF DeliveryRound, Invoke
<1>2. CASE DeliverySnapshot
  BY <1>2, <1>p, <1>r DEF DeliverySnapshot, ReadTable, Return
<1>3. CASE DeliveryNext
  BY <1>3, <1>p, <1>r DEF DeliveryNext, vars, Received, Present
<1>4. CASE DeliveryAnswered
  <2>1. gateway'[loop.key] # "open"
    BY <1>4 DEF DeliveryAnswered, Answer, ControlTypeOK
  <2> QED
    BY <1>4, <2>1, <1>p, <1>r DEF DeliveryAnswered, vars
<1>5. CASE DeliveryFailed
  BY <1>5, <1>p, <1>r DEF DeliveryFailed, vars
<1>6. CASE DeliveryAcknowledge
  <2>1. /\ call'[Deliverer].op = "acknowledge" /\ call'[Deliverer].key = loop.key
        /\ call'[Deliverer].step = "wait" /\ pending' = pending
    BY <1>0, <1>6 DEF DeliveryAcknowledge, Invoke
  <2> QED
    BY <1>6, <2>1, <1>p, <1>r DEF DeliveryAcknowledge, outside
<1>7. CASE DeliveryAcknowledged
  <2>1. CASE Acknowledge(Deliverer, "awaiting") /\ UNCHANGED loop
    <3>1. /\ call'[Deliverer].op = "acknowledge" /\ call'[Deliverer].key = loop.key
          /\ call'[Deliverer].step = "commit"
          /\ pending'.op = "acknowledge" /\ pending'.key = loop.key
          /\ pending'.store = [mem EXCEPT ![loop.key] = NoEntry]
      BY <1>0, <1>7, <2>1 DEF DeliveryAcknowledged, Acknowledge, Commit, CallRecord
    <3>2. mem \in Store /\ loop.key \in Keys
      BY <1>7 DEF DeliveryAcknowledged, StoreInv, IInv, TypeInv, TypeOK
    <3>3. pending'.store[loop.key] = NoEntry
      BY <3>1, <3>2 DEF Store
    <3> QED
      BY <1>7, <2>1, <3>1, <3>3, <1>r DEF DeliveryAcknowledged, outside
  <2>2. ASSUME Acknowledge(Deliverer, "ok") \/ AfterCommit(Deliverer) \/ StorageError(Deliverer),
               loop'.pc \in {"next", "dead"}, loop'.queue \subseteq loop.queue, UNCHANGED outside
        PROVE  DeliveryInv'
    <3>1. pending' = pending /\ pending.phase \notin {"writing", "written"}
      BY <2>2 DEF Acknowledge, AfterCommit, StorageError, MayEnter, InFlight, Return
    <3> QED
      BY <2>2, <3>1, <1>r DEF outside
  <2> QED
    BY <1>7, <2>1, <2>2 DEF DeliveryAcknowledged
<1>8. CASE DeliveryWait
  BY <1>8, <1>p, <1>r DEF DeliveryWait, vars
<1> QED
  BY <1>1, <1>2, <1>3, <1>4, <1>5, <1>6, <1>7, <1>8 DEF Delivery

\* A key whose outcome is being acknowledged is not opened again by a write.
LEMMA DiskDelivers ==
  ASSUME StoreInv, ControlTypeOK, RunsUp, DeliveryInv, ControlDisk PROVE DeliveryInv'
<1>1. DiskReplace
  BY DEF ControlDisk, OrphanReplace, StoreInv, IInv
<1>2. /\ UNCHANGED <<mem, call, loop>> /\ pending.phase = "writing" /\ disk' = pending.store
      /\ pending'.phase = "written" /\ pending'.op = pending.op /\ pending'.key = pending.key
  BY <1>1 DEF DiskReplace, ControlDisk, StoreInv, IInv, TypeInv, TypeOK, StorageTask
<1>3. Snapshot' /\ AckAwaited'
  BY <1>2 DEF DeliveryInv, Snapshot, SnapshotIsCurrent, AckAwaited, Received, Present
<1>4. ASSUME loop.pc \in {"settled", "ack"} PROVE gateway'[loop.key] # "open"
  <2>1. run = "up" /\ mem = disk /\ loop.key \in Keys /\ gateway[loop.key] # "open"
    BY <1>2, <1>4 DEF RunsUp, NoLoop, StoreInv, IInv, Coherent, DeliveryInv, Snapshot, Answered
  <2>2. loop.key \notin Present(disk') \ Present(disk)
    <3>1. CASE loop.key \in Received(mem)
      BY <2>1, <3>1 DEF Received
    <3>2. CASE loop.key \notin Received(mem)
      <4>1. loop.pc = "ack" /\ call[Deliverer].step = "commit"
        BY <1>4, <3>2 DEF DeliveryInv, Snapshot, SnapshotIsCurrent, AckAwaited, StoreInv, RInv, AckStands
      <4> QED
        BY <1>2, <4>1 DEF DeliveryInv, AckAwaited, Present
    <3> QED
      BY <3>1, <3>2
  <2> QED
    BY <2>1, <2>2 DEF ControlDisk
<1> QED
  BY <1>2, <1>3, <1>4 DEF DeliveryInv, Answered

LEMMA LoopDelivers ==
  ASSUME StoreInv, ControlTypeOK, RunsUp, DeliveryInv, ControlLoop PROVE DeliveryInv'
<1> USE DEF DeliveryInv, Snapshot, SnapshotIsCurrent, AckAwaited, Answered
<1>0. UNCHANGED <<loop, gateway, call>> /\ pending' = NoStorage
  BY DEF ControlLoop, Publish, LoadRead, outside
<1>1. CASE Publish
  <2>1. ASSUME NEW k \in Received(mem), pending.op = "acknowledge" => k # loop.key
        PROVE  k \in Received(mem')
    <3>1. pending.store[k] = mem[k]
      BY <1>1, <2>1 DEF Publish, StoreInv, RInv, InFlightKeeps
    <3> QED
      BY <1>1, <3>1 DEF Publish, Received, Present
  <2>2. pending.op = "acknowledge" => loop.pc = "ack"
    BY <1>1 DEF Publish
  <2>3. Snapshot'
    BY <1>0, <2>1, <2>2
  <2> QED
    BY <1>0, <2>3 DEF NoStorage
<1>2. CASE LoadRead
  <2>1. loop = NoLoop
    BY <1>2 DEF LoadRead, StoreInv, IInv, Loading, RunsUp
  <2> QED
    BY <1>0, <2>1 DEF NoLoop, NoStorage
<1> QED
  BY <1>1, <1>2 DEF ControlLoop

LEMMA DeliveryInvStep ==
  ASSUME StoreInv, ControlTypeOK, Exclusive, RunsUp, DeliveryInv, [ControlNext]_controlVars
  PROVE  DeliveryInv'
<1>1. ASSUME NEW r \in Rpcs, Rpc(r) PROVE DeliveryInv'
  <2>1. Client(r) \/ CallerStep(r) \/ Cancel(r) \/ UNCHANGED vars
    BY <1>1, RpcStore
  <2>2. pending' = pending \/ Writes(r)
    BY <2>1, NotCallers, CallerWrites DEF Client, Invoke, Cancel, vars, Returned, StoreInv
  <2> QED
    BY <1>1, <2>2, NotCallers, OthersDeliver, RpcAlone DEF StoreInv
<1>2. CASE Maintenance
  <2>1. Invoke(Maint, "prune", NoKey, NoPrint, "none") \/ CallerStep(Maint)
    BY <1>2 DEF Maintenance, CallerStep
  <2>2. /\ pending' = pending \/ Writes(Maint)
        /\ UNCHANGED <<loop, gateway, disk, mem>> /\ call'[Deliverer] = call[Deliverer]
    BY <1>2, <2>1, NotCallers, CallerWrites
    DEF Maintenance, Invoke, Returned, Writes, Pruned, Changed, StoreInv, IInv, TypeInv, TypeOK, outside
  <2> QED
    BY <2>2, NotCallers, OthersDeliver
<1>3. CASE ControlDiskFail
  BY <1>3 DEF ControlDiskFail, DiskFail, DeliveryInv, Snapshot, SnapshotIsCurrent, AckAwaited,
     Answered, Received, Present, NoStorage
<1>4. CASE ControlStart
  <2>1. run # "up" /\ loop = NoLoop
    BY <1>4, NotCallers DEF ControlStart, Start, AfterRead, Loaded, StoreInv, IInv, Loading, RunsUp
  <2>2. loop'.pc \in {"off", "top"} /\ loop'.queue = {}
    BY <1>4, <2>1 DEF ControlStart, NoLoop
  <2>3. ~(pending'.phase \in {"writing", "written"} /\ pending'.op = "acknowledge")
    BY <1>4, NotCallers DEF ControlStart, Start, AfterRead, Loaded, NoStorage, Commit, Return,
       StoreInv, IInv, Loading
  <2> QED
    BY <2>2, <2>3 DEF DeliveryInv, Snapshot, SnapshotIsCurrent, AckAwaited, Answered
<1>5. CASE ControlStop
  BY <1>5 DEF ControlStop, Crash, Stop, LoadError, Forget, NoLoop, NoStorage, DeliveryInv, Snapshot,
     SnapshotIsCurrent, AckAwaited, Answered
<1>6. CASE ControlTick \/ UNCHANGED controlVars
  BY <1>6 DEF ControlTick, Tick, controlVars, vars, outside, DeliveryInv, Snapshot,
     SnapshotIsCurrent, AckAwaited, Answered, Received, Present
<1> QED
  BY <1>1, <1>2, <1>3, <1>4, <1>5, <1>6, DeliveryKeeps, DiskDelivers, LoopDelivers
  DEF ControlNext, DeliveryInv

-----------------------------------------------------------------------------
\* Reservations and reports reach the file.
LEMMA ReportInit == ControlInit => ReportInv
  BY DEF ControlInit, NoRpc, ReportInv, Stored, QueuedUntilSettled, AllowedOnce

\* Another caller's write keeps what this RPC relies on, or takes away what the
\* gateway has answered.
LEMMA OthersStore ==
  ASSUME StoreInv, ControlTypeOK, Exclusive, Timely, NEW q \in Rpcs, NEW c \in Callers, c # q,
         c \in Rpcs => Pair(c), LoopCalls, Answered', AckAwaited',
         Stored(q), pending' = pending \/ Writes(c),
         disk' = disk, rpc'[q] = rpc[q], call'[q] = call[q],
         \A k \in Keys : gateway[k] # "open" => gateway'[k] # "open",
         rpc[q].pc \in {"reserve", "enforce"} => ran'[rpc[q].key] = ran[rpc[q].key]
  PROVE  Stored(q)'
<1> DEFINE k == rpc[q].key
           e == disk[k]
           t == pending'.store
           Stays(u) == Held(q, u) \/ k \in Received(u) \/ gateway'[k] # "open"
<1>0. rpc[q].pc # "idle" => k \in Keys
  BY DEF Exclusive
<1>1. rpc[q].pc = "enforce" => Stays(disk) /\ (pending.phase = "writing" => Stays(pending.store))
  BY <1>0 DEF Stored, Kept
<1>2. CASE pending' = pending
  BY <1>1, <1>2 DEF Stored, Kept, Held, Awaiting, Received, Present
<1>3. CASE Writes(c)
  <2>1. pending'.phase = "writing" /\ mem = disk /\ disk \in Store /\ now \in Nat
    BY <1>3 DEF Writes, Pruned, Changed, StoreInv, IInv, TypeInv, TypeOK
  <2>2. call[q].step # "commit"
    BY <1>3, NotCallers, OutboxConstants DEF StoreInv, IInv, LockDiscipline, Writes
  <2>3. ASSUME rpc[q].pc = "enforce" PROVE Stays(t) /\ (k \in Present(t) => k \in Present(disk))
    <3>0. k \in Keys /\ Stays(disk)
      BY <1>0, <1>1, <2>3
    <3>1. t[k] = e => Stays(t) /\ (k \in Present(t) => k \in Present(disk))
      BY <3>0 DEF Held, Awaiting, Received, Present
    <3>2. CASE Pruned(c)
      <4>1. t[k] = IF k \in Expired(disk) THEN NoEntry ELSE e
        BY <3>0, <3>2 DEF Pruned, Retained
      <4>2. ASSUME Held(q, disk) PROVE k \notin Expired(disk)
        <5>1. k \in Keys /\ e \in Entry /\ e.born >= rpc[q].since
          BY <2>1, <3>0, <4>2 DEF Held, Awaiting, Present, Store
        <5>2. now <= rpc[q].since + 1
          BY <2>3 DEF Timely
        <5>3. rpc[q].since \in Nat /\ e.born \in Nat
          BY <5>1, OutboxConstants DEF ControlTypeOK, RpcRecord, Entry
        <5> QED
          BY <2>1, <5>1, <5>2, <5>3, ControlConstants, OutboxConstants DEF Expired
      <4>3. k \in Received(disk) => k \notin Expired(disk)
        BY DEF Expired, Awaiting, Received
      <4>4. t[k] = e \/ (t[k] = NoEntry /\ gateway'[k] # "open")
        BY <3>0, <4>1, <4>2, <4>3
      <4> QED
        BY <3>1, <4>4 DEF Present
    <3>3. ASSUME NEW x, Changed(c, x) PROVE Stays(t) /\ (k \in Present(t) => k \in Present(disk))
      <4>1. CASE call[c].key # k
        <5>1. t[k] = e
          BY <2>1, <3>0, <3>3, <4>1 DEF Changed, Store
        <5> QED
          BY <3>1, <5>1
      <4>2. CASE call[c].key = k
        <5>0. t[k] = x /\ Changes(c, x)
          BY <2>1, <3>0, <3>3, <4>2 DEF Changed, Store
        <5>1. CASE call[c].op = "reserve"
          <6>1. c \in Rpcs
            BY <5>1, ControlConstants DEF LoopCalls
          <6> QED
            BY <2>3, <4>2, <5>1, <6>1 DEF Pair, Exclusive, Deciding
        <5>2. CASE call[c].op = "record"
          <6>1. x # NoEntry /\ x.state = "received" /\ k \in Awaiting(disk)
            BY <4>2, <5>0, <5>2 DEF Changes
          <6> QED
            BY <3>0, <5>0, <6>1 DEF Received, Awaiting, Present
        <5>3. CASE call[c].op = "acknowledge"
          <6>1. x = NoEntry
            BY <5>0, <5>3 DEF Changes
          <6>2. pending'.op = "acknowledge" /\ pending'.key = k
            BY <3>3, <4>2, <5>3 DEF Changed
          <6>3. gateway'[k] # "open"
            BY <2>1, <6>2 DEF Answered, AckAwaited
          <6> QED
            BY <5>0, <6>1, <6>3 DEF Present
        <5> QED
          BY <5>0, <5>1, <5>2, <5>3 DEF Changes
      <4> QED
        BY <4>1, <4>2
    <3> QED
      BY <1>3, <3>2, <3>3 DEF Writes
  <2> QED
    <3>1. rpc[q].pc = "enforce" => Kept(q, disk)' /\ ran'[k] = 0
      BY <1>1 DEF Stored, Kept, Held, Awaiting, Received, Present
    <3>2. rpc[q].pc = "enforce" => Kept(q, pending.store)'
      BY <2>3 DEF Kept, Held, Awaiting, Received, Present
    <3>3. rpc[q].pc = "enforce" => (k \in Present(pending.store)' => k \in Present(disk)')
      BY <2>3 DEF Present
    <3> QED
      BY <2>2, <3>1, <3>2, <3>3 DEF Stored
<1> QED
  BY <1>2, <1>3

\* What the RPC writes itself.
LEMMA OwnStores ==
  ASSUME StoreInv, ControlTypeOK, Exclusive, Timely, NEW r \in Rpcs, Pair(r),
         rpc[r].pc \in {"reserve", "reserveToReject", "recording", "rejecting"},
         CallerStep(r), rpc' = rpc
  PROVE  Stored(r)'
<1>0. /\ call \in [Callers -> CallRecord] /\ disk \in Store /\ r \in Callers
      /\ disk' = disk
  BY NotCallers, CallerLeaves DEF StoreInv, IInv, TypeInv, TypeOK
<1>e. call[r].op = "reserve" =>
        /\ Reservation(r) # NoEntry /\ Reservation(r).born = now
        /\ Reservation(r).state = "awaiting_host"
  <2>1. call[r].op = "reserve" => Reservation(r) \in Entry
    BY NotCallers DEF StoreInv, IInv, TypeInv, TypeOK, CallArguments, Reservation, Entry
  <2> QED
    BY <2>1, NoEntryIsNone DEF Reservation
<1>1. rpc[r].key \in Keys /\ rpc[r].since <= now
  BY DEF Exclusive, Timely
<1>2. CASE Returned(r) \/ Pruned(r)
  <2>1. call'[r].step # "commit"
    BY <1>0, <1>2 DEF Returned, Pruned, NoCall, CallRecord
  <2> QED
    BY <2>1 DEF Stored
<1>3. ASSUME NEW e, Changed(r, e) PROVE Stored(r)'
  <2>1. /\ pending'.phase = "writing" /\ pending'.store[rpc[r].key] = e /\ Changes(r, e)
        /\ call[r].key = rpc[r].key
    BY <1>0, <1>1, <1>3 DEF Changed, Store, Pair
  <2>2. rpc[r].pc = "reserve" => /\ e = Reservation(r) /\ call[r].op = "reserve"
                                 /\ rpc[r].key \notin Present(disk)
    BY <2>1 DEF Changes, Pair, Present
  <2>3. rpc[r].pc = "recording" => e # NoEntry /\ e.state = "received"
    BY <2>1 DEF Changes, Pair
  <2> QED
    BY <1>0, <1>1, <1>e, <2>1, <2>2, <2>3 DEF Stored, Held, Awaiting, Received, Present
<1> QED
  BY <1>0, <1>2, <1>3, CallerWrites DEF StoreInv, Writes

LEMMA ActorStores ==
  ASSUME StoreInv, ControlTypeOK, Exclusive, Timely, NEW r \in Rpcs, Pair(r), Stored(r), Rpc(r)
  PROVE  Stored(r)'
<1>0. call \in [Callers -> CallRecord] /\ rpc \in [Rpcs -> RpcRecord] /\ r \in Callers
  BY NotCallers DEF StoreInv, IInv, TypeInv, TypeOK, ControlTypeOK
<1>t. rpc'[r].pc \notin {"reserve", "enforce", "recording"} => Stored(r)'
  BY DEF Stored
<1>w. rpc'[r].pc \in {"reserve", "recording"} /\ call'[r].step = "wait" => Stored(r)'
  BY DEF Stored
<1>f. Finish(r) => rpc'[r].pc = "idle"
  BY <1>0 DEF Finish, NoRpc
<1>g. \A pc : GoTo(r, pc) => /\ rpc'[r].pc = pc
                             /\ rpc'[r].key = rpc[r].key /\ rpc'[r].since = rpc[r].since
  BY <1>0 DEF GoTo, RpcRecord
<1>i. \A op, k, p, o : Invoke(r, op, k, p, o) => call'[r].step = "wait"
  BY <1>0 DEF Invoke
<1>1. ASSUME NEW k \in Keys, PreflightBegin(r, k) PROVE Stored(r)'
  BY <1>0, <1>1, <1>t DEF PreflightBegin
<1>2. ASSUME NEW k \in Keys, PostflightBegin(r, k) PROVE Stored(r)'
  BY <1>0, <1>2, <1>t DEF PostflightBegin, NoRpc
<1>3. CASE Decide(r)
  <2>1. \/ Finish(r)
        \/ GoTo(r, "reserve") /\ call'[r].step = "wait"
        \/ GoTo(r, "unreported") \/ GoTo(r, "reserveToReject") \/ GoTo(r, "quota")
    BY <1>3, <1>i DEF Decide, Use
  <2> QED
    BY <2>1, <1>f, <1>g, <1>t, <1>w
<1>4. CASE PreflightReserved(r)
  <2>1. CASE UNCHANGED <<rpc, reserving>>
    <3>1. CallerStep(r)
      BY <1>4 DEF PreflightReserved, CallerStep, Replies
    <3> QED
      BY <1>4, <2>1, <3>1, OwnStores DEF PreflightReserved
  <2>2. CASE AfterCommit(r) /\ rpc[r].pc = "reserve" /\ GoTo(r, "enforce")
    <3>1. /\ pending' = pending /\ pending.phase = "done" /\ call[r].step = "commit" /\ disk' = disk
          /\ ran' = ran
      BY <1>4, <2>2 DEF PreflightReserved, AfterCommit, Return, outside
    <3> QED
      BY <2>2, <3>1, <1>g DEF Stored, Kept, Held, Awaiting, Present
  <2>3. CASE Finish(r) \/ GoTo(r, "reject")
    BY <2>3, <1>f, <1>g, <1>t
  <2> QED
    BY <1>4, <2>1, <2>2, <2>3 DEF PreflightReserved
<1>5. CASE Enforce(r)
  BY <1>5, <1>f, <1>g, <1>t DEF Enforce
<1>6. CASE Reject(r) \/ QuotaLocal(r) \/ PostflightLookup(r) \/ Timeout(r)
  BY <1>6, <1>f, <1>g, <1>t DEF Reject, QuotaLocal, PostflightLookup, Timeout
<1>7. CASE PostflightRecord(r)
  BY <1>7, <1>i, <1>g, <1>w DEF PostflightRecord, Use
<1>8. CASE Recorded(r)
  <2>1. CASE UNCHANGED <<rpc, reserving>>
    <3>1. CallerStep(r)
      BY <1>8 DEF Recorded, CallerStep, Replies
    <3> QED
      BY <1>8, <2>1, <3>1, OwnStores DEF Recorded
  <2> QED
    BY <1>8, <2>1, <1>f, <1>t DEF Recorded
<1> QED
  BY <1>1, <1>2, <1>3, <1>4, <1>5, <1>6, <1>7, <1>8 DEF Rpc

\* Under a reservation only the preflight that has it allows the call: a local
\* continuation finds the reservation in the table, which is the file's.
LEMMA AllowsOwn ==
  ASSUME StoreInv, ControlTypeOK, NEW r \in Rpcs, Rpc(r), ran' # ran
  PROVE  /\ rpc[r].pc = "enforce"
         /\ ran' = [ran EXCEPT ![rpc[r].key] = @ + 1]
<1>1. Enforce(r) \/ QuotaLocal(r)
  BY DEF Rpc, PreflightBegin, PostflightBegin, Decide, PreflightReserved, Reject,
     PostflightLookup, PostflightRecord, Recorded, Timeout, outside
<1>2. CASE QuotaLocal(r)
  <2>1. mem = disk
    BY <1>2, NotCallers, EntryIsCoherent DEF QuotaLocal, ReadTable, StoreInv
  <2> QED
    BY <1>2, <2>1 DEF QuotaLocal
<1> QED
  BY <1>1, <1>2 DEF Enforce, Allow

LEMMA StoredStep ==
  ASSUME StoreInv, HandlerInv, DeliveryInv, DeliveryInv', NEW q \in Rpcs, Stored(q),
         [ControlNext]_controlVars
  PROVE  Stored(q)'
<1> USE DEF HandlerInv, Paired, DeliveryInv
<1>1. ASSUME NEW r \in Rpcs, Rpc(r) PROVE Stored(q)'
  <2>1. CASE q = r
    BY <1>1, <2>1, ActorStores
  <2>2. CASE q # r
    <3>1. Client(r) \/ CallerStep(r) \/ Cancel(r) \/ UNCHANGED vars
      BY <1>1, RpcStore
    <3>2. pending' = pending \/ Writes(r)
      BY <3>1, NotCallers, CallerWrites DEF Client, Invoke, Cancel, vars, Returned, StoreInv
    <3>3. disk' = disk /\ rpc'[q] = rpc[q] /\ call'[q] = call[q] /\ gateway' = gateway
      BY <1>1, <2>2, RpcAlone, NotCallers DEF StoreInv
    <3>4. rpc[q].pc \in {"reserve", "enforce"} => ran'[rpc[q].key] = ran[rpc[q].key]
      <4>1. rpc[q].pc \in {"reserve", "enforce"} /\ rpc[r].pc = "enforce" => rpc[r].key # rpc[q].key
        BY <2>2 DEF Exclusive, Deciding
      <4> QED
        BY <1>1, <4>1, AllowsOwn DEF ControlTypeOK, Exclusive
    <3> QED
      BY <2>2, <3>2, <3>3, <3>4, NotCallers, OthersStore
  <2> QED
    BY <2>1, <2>2
<1>2. CASE Delivery
  <2>1. Client(Deliverer) \/ CallerStep(Deliverer) \/ UNCHANGED vars
    BY <1>2, DeliveryStore
  <2>2. (pending' = pending \/ Writes(Deliverer)) /\ disk' = disk
    BY <2>1, NotCallers, CallerWrites, CallerLeaves DEF Client, Invoke, vars, Returned, StoreInv
  <2>3. rpc'[q] = rpc[q] /\ call'[q] = call[q]
    BY <1>2, OtherHandlers, <2>1, NotCallers, CallerWrites
    DEF Client, Invoke, Returned, Writes, Pruned, Changed, vars, StoreInv, IInv, TypeInv, TypeOK
  <2>4. ran' = ran
    BY <1>2 DEF Delivery, DeliveryRound, DeliverySnapshot, DeliveryNext, DeliveryAnswered,
       DeliveryFailed, DeliveryAcknowledge, DeliveryAcknowledged, DeliveryWait, outside
  <2>5. \A k \in Keys : gateway[k] # "open" => gateway'[k] # "open"
    BY <1>2 DEF Delivery, DeliveryRound, DeliverySnapshot, DeliveryNext, DeliveryAnswered,
       DeliveryFailed, DeliveryAcknowledge, DeliveryAcknowledged, DeliveryWait, outside, Answer,
       ControlTypeOK
  <2> QED
    BY <2>2, <2>3, <2>4, <2>5, NotCallers, OthersStore
<1>3. CASE Maintenance \/ ControlStart
  <2>1. CASE Start(Maint)
    <3>1. rpc'[q].pc = "idle"
      BY <1>3, <2>1, OtherHandlers DEF Start, RunsUp
    <3> QED
      BY <3>1 DEF Stored
  <2>2. CASE Invoke(Maint, "prune", NoKey, NoPrint, "none") \/ CallerStep(Maint)
    <3>1. (pending' = pending \/ Writes(Maint)) /\ disk' = disk /\ ran' = ran /\ gateway' = gateway
      BY <1>3, <2>2, NotCallers, CallerWrites, CallerLeaves
      DEF Invoke, Returned, StoreInv, Maintenance, ControlStart, outside
    <3>2. rpc'[q] = rpc[q] /\ call'[q] = call[q]
      BY <1>3, <2>2, OtherHandlers, NotCallers, CallerWrites
      DEF Invoke, Returned, Writes, Pruned, Changed, StoreInv, IInv, TypeInv, TypeOK
    <3> QED
      BY <3>1, <3>2, NotCallers, OthersStore
  <2> QED
    BY <1>3, <2>1, <2>2 DEF Maintenance, ControlStart, CallerStep
<1>k. rpc[q].pc # "idle" => rpc[q].key \in Keys
  BY DEF Exclusive
<1>4. CASE ControlDisk
  <2> DEFINE k == rpc[q].key
             new == Present(disk') \ Present(disk)
  <2>1. /\ rpc' = rpc /\ call' = call /\ pending.phase = "writing" /\ disk' = pending.store
        /\ pending'.phase = "written"
    BY <1>4, OtherHandlers DEF ControlDisk, DiskReplace, OrphanReplace, StoreInv, IInv, TypeInv,
       TypeOK, StorageTask
  <2>2. \A j \in Keys : /\ gateway'[j] = IF j \in new THEN "open" ELSE gateway[j]
                        /\ ran'[j] = IF j \in new THEN 0 ELSE ran[j]
    BY <1>4 DEF ControlDisk
  <2>3. rpc[q].pc = "reserve" /\ call[q].step = "commit" => Held(q, disk)' /\ ran'[k] = 0
    BY <1>k, <2>1, <2>2 DEF Stored, Held, Awaiting, Present
  <2>4. rpc[q].pc = "enforce" => Kept(q, disk)' /\ ran'[k] = 0
    <3>1. rpc[q].pc = "enforce" => k \notin new
      BY <2>1 DEF Stored
    <3> QED
      BY <1>k, <2>1, <2>2, <3>1 DEF Stored, Kept, Held, Awaiting, Received, Present
  <2>5. rpc[q].pc = "recording" /\ call[q].step = "commit" => k \in Received(disk)'
    BY <2>1 DEF Stored, Received, Present
  <2> QED
    BY <2>1, <2>3, <2>4, <2>5 DEF Stored
<1>7. CASE ControlLoop \/ ControlDiskFail
  <2>1. rpc' = rpc /\ call' = call /\ disk' = disk /\ ran' = ran /\ gateway' = gateway
    BY <1>7 DEF ControlLoop, ControlDiskFail, DiskFail, Publish, LoadRead, handlers, outside
  <2>2. CASE Publish \/ DiskFail
    BY <2>1, <2>2 DEF Publish, DiskFail, NoStorage, Stored, Kept, Held, Awaiting, Received, Present
  <2>3. CASE LoadRead
    <3>1. rpc'[q].pc = "idle"
      BY <2>1, <2>3 DEF LoadRead, StoreInv, IInv, Loading, RunsUp
    <3> QED
      BY <3>1 DEF Stored
  <2> QED
    BY <1>7, <2>2, <2>3 DEF ControlLoop, ControlDiskFail
<1>5. CASE ControlStop
  BY <1>5 DEF ControlStop, NoRpc, Stored
<1>6. CASE ControlTick \/ UNCHANGED controlVars
  BY <1>6 DEF ControlTick, Tick, controlVars, vars, handlers, outside, Stored, Kept, Held, Awaiting,
     Received, Present
<1> QED
  BY <1>1, <1>2, <1>3, <1>4, <1>5, <1>6, <1>7 DEF ControlNext

LEMMA OnceStep ==
  ASSUME StoreInv, HandlerInv, ReportInv, [ControlNext]_controlVars PROVE AllowedOnce'
<1> USE DEF HandlerInv, ReportInv, AllowedOnce
<1>0. ran \in [Keys -> Nat]
  BY DEF ControlTypeOK
<1>1. ASSUME NEW r \in Rpcs, Rpc(r) PROVE AllowedOnce'
  <2>1. ran' # ran => ran[rpc[r].key] = 0 /\ ran' = [ran EXCEPT ![rpc[r].key] = @ + 1]
    BY <1>1, AllowsOwn DEF Stored
  <2> QED
    BY <1>0, <2>1
<1>2. CASE ControlDisk
  BY <1>0, <1>2 DEF ControlDisk
<1>3. CASE \/ Delivery \/ Maintenance \/ ControlStart \/ ControlStop \/ ControlLoop
           \/ ControlDiskFail \/ ControlTick \/ UNCHANGED controlVars
  <2>1. ran' = ran
    BY <1>3 DEF Delivery, DeliveryRound, DeliverySnapshot, DeliveryNext, DeliveryAnswered,
       DeliveryFailed, DeliveryAcknowledge, DeliveryAcknowledged, DeliveryWait, Maintenance,
       ControlStart, ControlStop, ControlLoop, ControlDiskFail, ControlTick, controlVars, outside
  <2> QED
    BY <2>1
<1> QED
  BY <1>1, <1>2, <1>3 DEF ControlNext

\* A replacement of the file drops only what the gateway has answered.
LEMMA DropsAnswered ==
  ASSUME StoreInv, DeliveryInv, DiskReplace, NEW k \in Received(disk), k \notin Received(disk')
  PROVE  gateway[k] # "open"
<1>1. pending.phase = "writing" /\ disk' = pending.store
  BY DEF DiskReplace
<1>2. pending.op = "acknowledge" /\ pending.key = k
  BY <1>1 DEF StoreInv, IInv, CommitIsCurrent, Received, Present
<1> QED
  BY <1>1, <1>2 DEF DeliveryInv, AckAwaited, Answered

LEMMA QueuedStep ==
  ASSUME StoreInv, HandlerInv, DeliveryInv, ReportInv, [ControlNext]_controlVars
  PROVE  QueuedUntilSettled'
<1> USE DEF HandlerInv, ReportInv, DeliveryInv
<1>s. \A s : Received(s)' = Received(s)
  BY DEF Received, Present
<1>1. ASSUME UNCHANGED <<disk, told>>, \A k \in Keys : gateway[k] # "open" => gateway'[k] # "open"
      PROVE  QueuedUntilSettled'
  BY <1>1 DEF QueuedUntilSettled, ControlTypeOK, Received, Present
<1>2. ASSUME NEW r \in Rpcs, Rpc(r) PROVE QueuedUntilSettled'
  <2>1. disk' = disk /\ gateway' = gateway
    BY <1>2, RpcAlone DEF StoreInv
  <2>2. CASE told' = told
    BY <1>1, <2>1, <2>2
  <2>3. CASE told' # told
    <3>1. Recorded(r)
      BY <1>2, <2>3 DEF Rpc, PreflightBegin, PostflightBegin, Decide, PreflightReserved, Enforce,
         Reject, QuotaLocal, PostflightLookup, PostflightRecord, Timeout, outside
    <3>2. AfterCommit(r) /\ rpc[r].pc = "recording" /\ told' = told \cup {rpc[r].key}
      BY <2>3, <3>1 DEF Recorded
    <3>3. rpc[r].key \in Received(disk)
      BY <3>2 DEF AfterCommit, Stored
    <3> QED
      BY <2>1, <3>2, <3>3 DEF QueuedUntilSettled, Received, Present
  <2> QED
    BY <2>2, <2>3
<1>3. CASE Delivery
  <2>1. disk' = disk
    BY <1>3, DeliveryStore, CallerLeaves, OutboxConstants DEF vars
  <2>2. told' = told
    BY <1>3 DEF Delivery, DeliveryRound, DeliverySnapshot, DeliveryNext, DeliveryAnswered,
       DeliveryFailed, DeliveryAcknowledge, DeliveryAcknowledged, DeliveryWait, outside
  <2>3. \A k \in Keys : gateway[k] # "open" => gateway'[k] # "open"
    BY <1>3 DEF Delivery, DeliveryRound, DeliverySnapshot, DeliveryNext, DeliveryAnswered,
       DeliveryFailed, DeliveryAcknowledge, DeliveryAcknowledged, DeliveryWait, outside, Answer,
       ControlTypeOK
  <2> QED
    BY <1>1, <2>1, <2>2, <2>3
<1>4. CASE ControlDisk
  <2>1. DiskReplace
    BY <1>4 DEF ControlDisk, OrphanReplace, StoreInv, IInv
  <2>2. ASSUME NEW k \in told' PROVE k \in Received(disk') \/ gateway'[k] # "open"
    <3>1. k \in told /\ gateway'[k] = gateway[k]
      BY <1>4, <2>2 DEF ControlDisk, ControlTypeOK
    <3> QED
      BY <2>1, <3>1, DropsAnswered DEF QueuedUntilSettled
  <2> QED
    BY <2>2, <1>s DEF QueuedUntilSettled
<1>5. CASE Maintenance \/ ControlStart \/ ControlStop \/ ControlLoop \/ ControlDiskFail \/ ControlTick
           \/ UNCHANGED controlVars
  <2>1. UNCHANGED <<told, gateway>>
    BY <1>5 DEF Maintenance, ControlStart, ControlStop, ControlLoop, ControlDiskFail, ControlTick,
       controlVars, outside
  <2>2. disk' = disk
    BY <1>5 DEF Maintenance, Invoke, Prune, AfterPrune, StorageError, ControlStart, Start, AfterRead,
       Loaded, ControlStop, Crash, Stop, LoadError, Forget, ControlLoop, Publish, LoadRead,
       ControlDiskFail, DiskFail, ControlTick, Tick, controlVars, vars
  <2> QED
    BY <1>1, <2>1, <2>2
<1> QED
  BY <1>2, <1>3, <1>4, <1>5 DEF ControlNext

-----------------------------------------------------------------------------
ControlInv == StoreInv /\ HandlerInv /\ DeliveryInv /\ ReportInv

LEMMA ControlInvInit == ControlInit => ControlInv
<1>1. ControlInit => StoreInv
  BY IInvInit, RInvInit DEF ControlInit, StoreInv
<1> QED
  BY <1>1, ControlTypesInit, ExclusiveInit, PairedInit, DeliveryInit, ReportInit
  DEF ControlInv, HandlerInv

LEMMA ControlInvStep ==
  MaxOrphans = 0 /\ ControlInv /\ [ControlNext]_controlVars => ControlInv' /\ [Next]_vars
<1> SUFFICES ASSUME MaxOrphans = 0, ControlInv, [ControlNext]_controlVars
             PROVE  ControlInv' /\ [Next]_vars
  OBVIOUS
<1> USE DEF ControlInv, HandlerInv
<1>1. [Next]_vars
  BY StoreStep DEF DeliveryInv
<1>2. StoreInv'
  BY <1>1, IInvStep, RInvStep DEF StoreInv
<1>3. HandlerInv'
  BY <1>2, ControlTypesStep, ExclusiveStep, PairedStep, TimelyStep DEF StoreInv, IInv, DeliveryInv
<1>4. DeliveryInv'
  BY DeliveryInvStep DEF Paired
<1>5. ReportInv'
  BY <1>4, QueuedStep, OnceStep, StoredStep DEF ReportInv
<1> QED
  BY <1>1, <1>2, <1>3, <1>4, <1>5

\* The controller uses the store as HookOutboxSpec says its clients do, so the
\* theorems about the store hold of every run of the controller.
THEOREM ControllerIsClient == ControlSpec => Spec
<1>1. ControlInit => Init
  BY DEF ControlInit
<1> QED
  BY <1>1, FreeInvInit, FreeInvStep, PTL DEF ControlSpec, Spec

\* The delivery loop (hook_control.py:264-322) works on a copy of the table with
\* awaits between its outcomes: nothing it still holds has left the table.
THEOREM SnapshotStaysCurrent == ControlSpec => []SnapshotIsCurrent
<1>1. FreeInv => SnapshotIsCurrent
  BY DEF FreeInv, LoopInv, Snapshot
<1> QED
  BY <1>1, FreeInvInit, FreeInvStep, PTL DEF ControlSpec

\* Postflight answers only after its record is stored: what the host was told
\* is queued stays in the file until the gateway has answered it.
THEOREM QueuedStaysQueued == MaxOrphans = 0 => (ControlSpec => []QueuedUntilSettled)
<1> SUFFICES ASSUME MaxOrphans = 0 PROVE ControlSpec => []QueuedUntilSettled
  OBVIOUS
<1>1. ControlInv => QueuedUntilSettled
  BY DEF ControlInv, ReportInv
<1> QED
  BY <1>1, ControlInvInit, ControlInvStep, PTL DEF ControlSpec

\* A repeated preflight finds the reservation (hook_control_actions.py:160-170) or
\* the pending key (98-101), a local continuation the admission (255): under one
\* reservation the host is allowed the call at most once, also when a report and
\* its delivery take the reservation away before the preflight has answered.
THEOREM CallAllowedOnce == MaxOrphans = 0 => (ControlSpec => []AllowedOnce)
<1> SUFFICES ASSUME MaxOrphans = 0 PROVE ControlSpec => []AllowedOnce
  OBVIOUS
<1>1. ControlInv => AllowedOnce
  BY DEF ControlInv, ReportInv
<1> QED
  BY <1>1, ControlInvInit, ControlInvStep, PTL DEF ControlSpec

\* Evidence leaves the file only when the gateway has answered it for good.
THEOREM DropFollowsAnswer == MaxOrphans = 0 => (ControlSpec => DroppedAfterAnswer)
<1> SUFFICES ASSUME MaxOrphans = 0 PROVE ControlSpec => DroppedAfterAnswer
  OBVIOUS
<1>1. ControlInv /\ [ControlNext]_controlVars =>
        [\A k \in Received(disk) \ Received(disk') : gateway[k] # "open"]_disk
  <2> SUFFICES ASSUME ControlInv, ControlNext, disk' # disk
               PROVE  \A k \in Received(disk) \ Received(disk') : gateway[k] # "open"
    BY DEF controlVars, vars
  <2>1. ASSUME NEW r \in Rpcs PROVE ~Rpc(r)
    BY <2>1, RpcAlone DEF ControlInv, HandlerInv, StoreInv
  <2>2. ~Delivery
    BY DeliveryStore, CallerLeaves, OutboxConstants DEF vars, ControlInv, DeliveryInv
  <2>3. ControlDisk
    BY <2>1, <2>2 DEF ControlNext, Maintenance, Invoke, Prune, AfterPrune, StorageError,
       ControlStart, Start, AfterRead, Loaded, ControlStop, Crash, Stop, LoadError, Forget,
       ControlLoop, Publish, LoadRead, ControlDiskFail, DiskFail, ControlTick, Tick
  <2>4. DiskReplace
    BY <2>3 DEF ControlDisk, OrphanReplace, ControlInv, StoreInv, IInv
  <2> QED
    BY <2>4, DropsAnswered DEF ControlInv
<1> QED
  BY <1>1, ControlInvInit, ControlInvStep, PTL DEF ControlSpec, DroppedAfterAnswer

\* Preflight answers an admission that must be reported only after its
\* reservation was stored; by then the reservation, or the outcome a report made
\* of it, is still in the file, or the gateway has answered that outcome.
THEOREM AllowedAfterReserved == MaxOrphans = 0 => (ControlSpec => AllowedIsReserved)
<1> SUFFICES ASSUME MaxOrphans = 0 PROVE ControlSpec => AllowedIsReserved
  OBVIOUS
<1> DEFINE Reserved ==
      \A r \in Rpcs :
        LET k == rpc[r].key IN
        rpc[r].pc = "enforce" /\ ran'[k] > ran[k] => k \in Present(disk) \/ gateway[k] # "open"
<1>1. ControlInv /\ [ControlNext]_controlVars => [Reserved]_ran
  <2> SUFFICES ASSUME ControlInv, ControlNext, NEW q \in Rpcs, rpc[q].pc = "enforce"
               PROVE  rpc[q].key \in Present(disk) \/ gateway[rpc[q].key] # "open"
    BY DEF controlVars, outside
  <2> QED
    BY DEF ControlInv, ReportInv, Stored, Kept, Held, Awaiting, Received
<1> QED
  BY <1>1, ControlInvInit, ControlInvStep, PTL DEF ControlSpec, AllowedIsReserved
=============================================================================
