--------------------------- MODULE QuotaStateProofs ---------------------------
(***************************************************************************)
(* Proofs about the quota cache for every number of callers, revisions,    *)
(* grants and every length of authority.                                   *)
(***************************************************************************)
EXTENDS QuotaState, TLAPS

\* The gateway's revisions and grants only grow.
SettingsGrow ==
  \A s, t \in 0..Horizon : s <= t => /\ past[s].rev <= past[t].rev
                                     /\ past[s].epoch <= past[t].epoch

\* An instruction says what the settings were when it was signed.
Genuine(i) ==
  /\ i \in Instructions /\ i.iat <= now
  /\ i.rev = past[i.iat].rev /\ i.mode = past[i.iat].mode /\ i.epoch = past[i.iat].epoch

\* One that was accepted also keeps the bound on its lifetime.
Trusted(i) == Genuine(i) /\ i.exp <= i.iat + Life

GrantInv ==
  /\ binding <= past[now].epoch
  /\ \A c \in Callers : call[c].began <= binding

InstructionInv ==
  /\ state # NoInstruction => Trusted(state)
  /\ flight.phase = "verify" => Genuine(flight.instr)
  /\ \A c \in Callers :
       /\ call[c].pc = "verify" => Genuine(call[c].instr)
       /\ call[c].pc \in {"hold", "checked", "local"} =>
            Trusted(call[c].instr) /\ call[c].instr.epoch >= call[c].began

IInv == TypeOK /\ SettingsGrow /\ GrantInv /\ InstructionInv

-----------------------------------------------------------------------------
\* What the gateway signed is genuine.
LEMMA SignedIsGenuine == ASSUME TypeOK, NEW i \in Signed PROVE Genuine(i)
<1>1. PICK t \in 0..now, d \in {Life, Life + 1} :
        i = [rev |-> past[t].rev, mode |-> past[t].mode, epoch |-> past[t].epoch,
             iat |-> t, exp |-> t + d]
  BY DEF Signed
<1>2. past[t] \in Settings /\ t \in 0..Horizon
  <2>1. t \in 0..Horizon
    BY QuotaConstants DEF TypeOK
  <2> QED
    BY <2>1 DEF TypeOK
<1>3. t + d \in 0..Horizon + Life + 1
  BY <1>2, QuotaConstants
<1> QED
  BY <1>1, <1>2, <1>3, QuotaConstants DEF Genuine, Instructions, Settings, TypeOK

\* Whatever accept_instruction returns may be trusted, for the grant the client
\* holds: an instruction that was kept is younger than the one refused.
LEMMA WinnerIsTrusted ==
  ASSUME TypeOK, SettingsGrow, InstructionInv, NEW i, Genuine(i), Valid(i)
  PROVE  Trusted(Winner(i)) /\ Winner(i).epoch >= binding
<1>0. i \in Instructions /\ Life \in Nat /\ Horizon \in Nat
  BY QuotaConstants DEF Genuine
<1>1. CASE ~Older(i)
  BY <1>0, <1>1 DEF Winner, Trusted, Valid, Instructions, TypeOK
<1>2. CASE Older(i)
  <2>1. Trusted(state) /\ state \in Instructions
    BY <1>2 DEF Older, InstructionInv, Trusted, Genuine
  <2>2. i.iat \in 0..Horizon /\ state.iat \in 0..Horizon
    BY <1>0, <2>1 DEF Instructions
  <2>3. i.iat <= state.iat
    <3>1. CASE i.iat < state.iat
      BY <3>1, <2>2
    <3>2. CASE i.rev < state.rev
      <4>1. past[i.iat].rev < past[state.iat].rev
        BY <3>2, <2>1 DEF Genuine, Trusted
      <4>2. past[state.iat].rev \in Nat /\ past[i.iat].rev \in Nat
        BY <2>2 DEF TypeOK, Settings
      <4> QED
        BY <4>1, <4>2, <2>2 DEF SettingsGrow
    <3> QED
      BY <1>2, <3>1, <3>2 DEF Older
  <2>4. past[i.iat].epoch <= past[state.iat].epoch
    BY <2>2, <2>3 DEF SettingsGrow
  <2>5. state.epoch >= binding
    BY <2>1, <2>4 DEF Trusted, Genuine, Valid
  <2> QED
    BY <1>2, <2>1, <2>5 DEF Winner
<1> QED
  BY <1>1, <1>2

\* What accept_instruction keeps may be trusted, and is of the right type.
LEMMA AcceptedIsTrusted ==
  ASSUME IInv, NEW i, Genuine(i), Accepted(i), UNCHANGED gateway
  PROVE  /\ Trusted(Winner(i)) /\ Winner(i).epoch >= binding
         /\ state' = Winner(i) /\ Trusted(state)'
         /\ state' \in Instructions /\ suspended' \in BOOLEAN
         /\ resting' \in BOOLEAN
<1>1. Trusted(Winner(i)) /\ Winner(i).epoch >= binding
  BY WinnerIsTrusted DEF Accepted, IInv
<1>2. state' = Winner(i)
  BY DEF Accepted
<1>3. Trusted(state)'
  BY <1>1, <1>2 DEF Trusted, Genuine, gateway
<1>5. suspended' \in BOOLEAN /\ resting' \in BOOLEAN
  BY DEF Accepted, IInv, TypeOK
<1> QED
  BY <1>1, <1>2, <1>3, <1>5 DEF Trusted, Genuine

\* The cache starts empty, and the gateway's settings constant.
LEMMA InitInv == Init => IInv
<1> SUFFICES ASSUME Init PROVE IInv
  OBVIOUS
<1>1. PICK m \in Modes : past = [t \in 0..Horizon |-> [rev |-> 1, mode |-> m, epoch |-> 1]]
  BY DEF Init
<1>2. [rev |-> 1, mode |-> m, epoch |-> 1] \in Settings
  BY QuotaConstants DEF Settings
<1>3. past \in [0..Horizon -> Settings] /\ now \in 0..Horizon /\ binding \in 1..MaxEpoch
  BY <1>1, <1>2, QuotaConstants DEF Init
<1>4. flight \in [phase : {"none", "fetch", "verify"}, instr : Instructions \cup {NoInstruction}]
  BY DEF Init, NoFlight
<1>5. call \in [Callers -> [pc : {"idle", "admit", "wait", "verify", "hold", "checked", "local"},
                          instr : Instructions \cup {NoInstruction}, began : 0..MaxEpoch]]
  BY QuotaConstants DEF Init, NoCall
<1>6. TypeOK
  <2>1. flight.phase # "verify" /\ \A c \in Callers : call[c].pc = "idle"
    BY DEF Init, NoFlight, NoCall
  <2>2. state = NoInstruction /\ suspended \in BOOLEAN /\ resting \in BOOLEAN
    BY DEF Init
  <2> QED
    BY <1>3, <1>4, <1>5, <2>1, <2>2 DEF TypeOK
<1>7. SettingsGrow
  BY <1>1 DEF SettingsGrow
<1>8. GrantInv
  BY <1>1, QuotaConstants DEF Init, GrantInv, NoCall
<1>9. InstructionInv
  BY DEF Init, InstructionInv, NoFlight, NoCall
<1> QED
  BY <1>6, <1>7, <1>8, <1>9 DEF IInv

-----------------------------------------------------------------------------
CallRecord == [pc : {"idle", "admit", "wait", "verify", "hold", "checked", "local"},
               instr : Instructions \cup {NoInstruction}, began : 0..MaxEpoch]

\* What one caller may look like after a step of it.
Proper(k) ==
  /\ k \in CallRecord /\ k.began <= binding
  /\ k.pc = "verify" => Genuine(k.instr)
  /\ k.pc \in {"hold", "checked", "local"} => Trusted(k.instr) /\ k.instr.epoch >= k.began

\* IInv, said of the parts that steps change.
ProperCalls == call \in [Callers -> CallRecord] /\ \A c \in Callers : Proper(call[c])
ProperFlight ==
  /\ flight \in [phase : {"none", "fetch", "verify"}, instr : Instructions \cup {NoInstruction}]
  /\ flight.phase = "verify" => Genuine(flight.instr)
ProperCache ==
  /\ state = NoInstruction \/ Trusted(state)
  /\ suspended \in BOOLEAN /\ resting \in BOOLEAN
ProperTime ==
  /\ now \in 0..Horizon /\ past \in [0..Horizon -> Settings] /\ SettingsGrow
  /\ binding \in 1..MaxEpoch /\ binding <= past[now].epoch

\* The invariant is the four parts together.
LEMMA Parts == IInv <=> ProperTime /\ ProperCache /\ ProperFlight /\ ProperCalls
<1>1. IInv => ProperTime /\ ProperCache /\ ProperFlight
  BY DEF IInv, TypeOK, GrantInv, InstructionInv, ProperTime, ProperCache, ProperFlight
<1>2. IInv => ProperCalls
  BY DEF IInv, TypeOK, GrantInv, InstructionInv, ProperCalls, Proper, CallRecord
<1>3. ProperTime /\ ProperCache /\ ProperFlight /\ ProperCalls => TypeOK
  BY DEF TypeOK, ProperTime, ProperCache, ProperFlight, ProperCalls, Proper, CallRecord,
     Trusted, Genuine
<1>4. ProperTime /\ ProperCache /\ ProperFlight /\ ProperCalls =>
        SettingsGrow /\ GrantInv /\ InstructionInv
  BY DEF ProperTime, ProperCache, ProperFlight, ProperCalls, Proper, GrantInv, InstructionInv
<1> QED
  BY <1>1, <1>2, <1>3, <1>4 DEF IInv

\* So it is after a step.
LEMMA PartsNext == ProperTime' /\ ProperCache' /\ ProperFlight' /\ ProperCalls' => IInv'
BY Parts, PTL

-----------------------------------------------------------------------------
\* While the clock and the grant stand still, a caller that was proper stays so.
LEMMA OneCall ==
  ASSUME ProperCalls, UNCHANGED <<gateway, binding>>, NEW c \in Callers, NEW k, Proper(k),
         call' = [call EXCEPT ![c] = k]
  PROVE  ProperCalls'
<1>1. \A j : Proper(j)' <=> Proper(j)
  BY DEF Proper, Genuine, Trusted, gateway
<1>2. k \in CallRecord
  BY DEF Proper
<1>3. call' \in [Callers -> CallRecord]
  BY <1>2 DEF ProperCalls
<1>4. \A b \in Callers : call'[b] = k \/ call'[b] = call[b]
  BY DEF ProperCalls
<1> QED
  BY <1>1, <1>3, <1>4 DEF ProperCalls

\* The same for a step that changes many callers.
LEMMA ManyCalls ==
  ASSUME UNCHANGED <<gateway, binding>>, call' \in [Callers -> CallRecord],
         \A c \in Callers : Proper(call'[c])
  PROVE  ProperCalls'
BY DEF ProperCalls, Proper, Genuine, Trusted, gateway

\* What a step leaves alone stays proper while the clock and the grant do.
LEMMA Untouched ==
  ASSUME IInv, UNCHANGED <<gateway, binding>>
  PROVE  /\ ProperTime'
         /\ UNCHANGED flight => ProperFlight'
         /\ UNCHANGED call => ProperCalls'
         /\ (state' \in {state, NoInstruction}
             /\ suspended' \in BOOLEAN /\ resting' \in BOOLEAN) => ProperCache'
<1>1. ProperTime /\ ProperCache /\ ProperFlight /\ ProperCalls
  BY Parts
<1>2. ProperTime'
  BY <1>1 DEF ProperTime, SettingsGrow, gateway
<1>3. \A i : (Genuine(i)' <=> Genuine(i)) /\ (Trusted(i)' <=> Trusted(i))
  BY DEF Genuine, Trusted, gateway
<1>4. UNCHANGED flight => ProperFlight'
  BY <1>1, <1>3 DEF ProperFlight
<1>5. UNCHANGED call => ProperCalls'
  BY <1>1, <1>3 DEF ProperCalls, Proper
<1>6. (state' \in {state, NoInstruction}
       /\ suspended' \in BOOLEAN /\ resting' \in BOOLEAN) => ProperCache'
  BY <1>1, <1>3 DEF ProperCache, Trusted, Genuine, gateway
<1> QED
  BY <1>2, <1>4, <1>5, <1>6

\* A caller that leaves, or goes where it needs no instruction, is proper.
LEMMA PlainIsProper ==
  ASSUME IInv, NEW e \in 0..MaxEpoch, e <= binding
  PROVE  /\ Proper(NoCall)
         /\ Proper([pc |-> "wait", instr |-> NoInstruction, began |-> e])
         /\ Proper([pc |-> "admit", instr |-> NoInstruction, began |-> e])
BY QuotaConstants DEF Proper, CallRecord, NoCall, IInv, TypeOK

\* A caller without a call is proper.
LEMMA EmptyIsProper == ASSUME IInv PROVE Proper(NoCall)
BY QuotaConstants DEF Proper, CallRecord, NoCall, IInv, TypeOK

\* So is one that waited and gets an instruction for the grant the client holds.
LEMMA ReceiverIsProper ==
  ASSUME IInv, NEW k, Proper(k), NEW i, Trusted(i), i.epoch >= binding
  PROVE  Proper(Receives(k, i))
<1>1. CASE k.began = 0
  BY <1>1, EmptyIsProper DEF Receives
<1>2. CASE k.began # 0
  <2>1. k \in CallRecord /\ k.began <= binding /\ k.began \in Int /\ binding \in Int
    BY DEF Proper, CallRecord, IInv, TypeOK
  <2>2. Receives(k, i) = [pc |-> "hold", instr |-> i, began |-> k.began]
    BY <1>2, <2>1 DEF Receives, CallRecord
  <2>3. i \in Instructions
    BY DEF Trusted, Genuine
  <2>4. i.epoch >= k.began
    BY <2>1, <2>3 DEF Instructions
  <2>5. [pc |-> "hold", instr |-> i, began |-> k.began] \in CallRecord
    BY <2>1, <2>3 DEF CallRecord
  <2> QED
    BY <2>1, <2>2, <2>4, <2>5 DEF Proper
<1> QED
  BY <1>1, <1>2

\* Joining the recovery, starting it or giving up keeps callers and flight proper.
LEMMA RecoverIsProper ==
  ASSUME IInv, UNCHANGED <<gateway, binding>>, NEW c \in Callers,
         NEW e \in 0..MaxEpoch, e <= binding, Recover(c, e)
  PROVE  ProperCalls' /\ ProperFlight'
<1>1. ProperCalls /\ ProperFlight
  BY Parts
<1>2. CASE UNCHANGED flight
  <2>1. ProperFlight'
    BY <1>2, Untouched
  <2>2. PICK k : Proper(k) /\ call' = [call EXCEPT ![c] = k]
    BY PlainIsProper DEF Recover, GoTo, Leave
  <2> QED
    BY <1>1, <2>1, <2>2, OneCall
<1>3. CASE flight' = [NoFlight EXCEPT !.phase = "fetch"] /\ GoTo(c, "wait", NoInstruction, e)
  <2>1. ProperFlight'
    BY <1>3 DEF ProperFlight, NoFlight
  <2> QED
    BY <1>1, <1>3, <2>1, OneCall, PlainIsProper DEF GoTo
<1> QED
  BY <1>2, <1>3 DEF Recover

-----------------------------------------------------------------------------
(* The invariant, one lemma for each actor. *)

\* The recovery flight keeps it, whatever it brings to its waiters.
LEMMA FlightInv == ASSUME IInv, FlightStep PROVE IInv'
<1>1. ProperTime /\ ProperCache /\ ProperFlight /\ ProperCalls
  BY Parts
<1>2. CASE FlightFetched
  <2>1. PICK i \in Signed : flight' = [phase |-> "verify", instr |-> i]
    BY <1>2 DEF FlightFetched
  <2>2. Genuine(i)
    BY SignedIsGenuine DEF IInv
  <2>3. ProperFlight'
    BY <1>2, <2>1, <2>2 DEF FlightFetched, ProperFlight, Genuine, gateway
  <2>4. ProperTime' /\ ProperCache' /\ ProperCalls'
    BY <1>2, Untouched, <1>1 DEF FlightFetched, cache, ProperCache
  <2> QED
    BY <2>3, <2>4, PartsNext
<1>3. CASE FlightVerified
  <2> DEFINE i == flight.instr
  <2>1. Genuine(i) /\ Accepted(i) /\ UNCHANGED <<gateway, binding>>
    BY <1>1, <1>3 DEF FlightVerified, ProperFlight
  <2>2. /\ Trusted(Winner(i)) /\ Winner(i).epoch >= binding
        /\ state' = Winner(i) /\ Trusted(state)' /\ suspended' \in BOOLEAN
        /\ resting' \in BOOLEAN
    BY <2>1, AcceptedIsTrusted
  <2>3. ProperCache'
    BY <2>2 DEF ProperCache, Trusted, Genuine
  <2>4. ProperTime' /\ ProperFlight'
    BY <1>3, <2>1, Untouched DEF FlightVerified, ProperFlight, NoFlight
  <2>5. ProperCalls'
    <3>1. ASSUME NEW k, Proper(k) PROVE Proper(Receives(k, Winner(i)))
      BY <1>1, <2>2, <3>1, ReceiverIsProper
    <3>2. \A c \in Callers : Proper(call'[c])
      BY <1>1, <1>3, <3>1 DEF FlightVerified, ProperCalls
    <3>3. call' \in [Callers -> CallRecord]
      <4> DEFINE f(c) == IF call[c].pc = "wait" THEN Receives(call[c], Winner(flight.instr))
                         ELSE call[c]
      <4>1. call' = [c \in Callers |-> f(c)]
        BY <1>3 DEF FlightVerified
      <4>2. \A c \in Callers : f(c) \in CallRecord
        BY <3>2, <4>1 DEF Proper
      <4> QED
        BY <4>1, <4>2
    <3> QED
      BY <2>1, <3>2, <3>3, ManyCalls
  <2> QED
    BY <2>3, <2>4, <2>5, PartsNext
<1>4. CASE FlightFailed
  <2>1. ProperTime' /\ ProperCache'
    BY <1>4, Untouched DEF FlightFailed, Rejected
  <2>2. ProperFlight'
    BY <1>4 DEF FlightFailed, ProperFlight, NoFlight
  <2>3. Proper(NoCall)
    BY EmptyIsProper
  <2>4. \A c \in Callers : call'[c] = NoCall \/ call'[c] = call[c]
    BY <1>4 DEF FlightFailed
  <2>5. \A c \in Callers : Proper(call'[c])
    BY <1>1, <2>3, <2>4 DEF ProperCalls
  <2>6. call' \in [Callers -> CallRecord]
    BY <1>1, <1>4, <2>3 DEF FlightFailed, ProperCalls, Proper
  <2> QED
    BY <1>4, <2>1, <2>2, <2>5, <2>6, ManyCalls, PartsNext DEF FlightFailed
<1> QED
  BY <1>2, <1>3, <1>4 DEF FlightStep

\* A caller that asks the cache keeps it: what it takes is for the grant held.
LEMMA BeforeActionInv == ASSUME IInv, NEW c \in Callers, BeforeAction(c) PROVE IInv'
<1>1. ProperTime /\ ProperCache /\ ProperFlight /\ ProperCalls
  BY Parts
<1>2. UNCHANGED <<gateway, binding>> /\ binding \in 0..MaxEpoch /\ binding <= binding
  BY <1>1, QuotaConstants DEF BeforeAction, ProperTime
<1>3. ProperTime' /\ ProperCache'
  BY <1>1, <1>2, Untouched DEF BeforeAction, Look, ProperCache
<1>4. CASE Recover(c, binding)
  BY <1>2, <1>3, <1>4, RecoverIsProper, PartsNext
<1>5. CASE GoTo(c, "admit", NoInstruction, binding) /\ UNCHANGED flight
  BY <1>1, <1>2, <1>3, <1>5, PlainIsProper, OneCall, Untouched, PartsNext DEF GoTo
<1>6. CASE /\ Current # NoInstruction
           /\ GoTo(c, "hold", Current, binding) /\ UNCHANGED flight
  <2>1. Trusted(Current) /\ Current.epoch = binding
    BY <1>1, <1>6 DEF Current, ProperCache
  <2>2. Proper([pc |-> "hold", instr |-> Current, began |-> binding])
    <3>1. Current \in Instructions
      BY <2>1 DEF Trusted, Genuine
    <3>2. [pc |-> "hold", instr |-> Current, began |-> binding] \in CallRecord
      BY <3>1, <1>2 DEF CallRecord
    <3>3. binding >= binding
      BY <1>2
    <3> QED
      BY <1>2, <2>1, <3>2, <3>3 DEF Proper
  <2> QED
    BY <1>1, <1>2, <1>3, <1>6, <2>2, OneCall, Untouched, PartsNext DEF GoTo
<1> QED
  BY <1>4, <1>5, <1>6 DEF BeforeAction

\* So does the gateway's answer to an admission, with or without an instruction.
LEMMA AdmittedInv == ASSUME IInv, NEW c \in Callers, Admitted(c) PROVE IInv'
<1>1. ProperTime /\ ProperCache /\ ProperFlight /\ ProperCalls
  BY Parts
<1>2. UNCHANGED <<gateway, binding>> /\ ProperTime' /\ ProperCache'
  BY <1>1, Untouched DEF Admitted, ProperCache
<1>3. Proper(call[c]) /\ call[c].began \in 0..MaxEpoch /\ call[c].began <= binding
  BY <1>1 DEF ProperCalls, Proper, CallRecord
<1>4. CASE Leave(c) /\ UNCHANGED flight
  BY <1>1, <1>2, <1>3, <1>4, PlainIsProper, OneCall, Untouched, PartsNext DEF Leave
<1>5. CASE Recover(c, call[c].began)
  BY <1>2, <1>3, <1>5, RecoverIsProper, PartsNext
<1>6. ASSUME NEW i \in Signed, GoTo(c, "verify", i, call[c].began), UNCHANGED flight
      PROVE  IInv'
  <2>1. Genuine(i)
    BY SignedIsGenuine DEF IInv
  <2>2. Proper([pc |-> "verify", instr |-> i, began |-> call[c].began])
    BY <1>3, <2>1 DEF Proper, CallRecord, Genuine
  <2> QED
    BY <1>1, <1>2, <1>6, <2>2, OneCall, Untouched, PartsNext DEF GoTo
<1> QED
  BY <1>4, <1>5, <1>6 DEF Admitted

\* So does an instruction that is verified, or is not.
LEMMA VerifiedInv == ASSUME IInv, NEW c \in Callers, Verified(c) PROVE IInv'
<1>1. ProperTime /\ ProperCache /\ ProperFlight /\ ProperCalls
  BY Parts
<1>2. UNCHANGED <<gateway, binding>> /\ ProperTime' /\ ProperFlight'
  BY Untouched DEF Verified
<1>3. Proper(call[c]) /\ call[c].pc = "verify"
  BY <1>1 DEF ProperCalls, Verified
<1>4. CASE /\ Accepted(call[c].instr)
           /\ call' = [call EXCEPT ![c] = Receives(@, Winner(@.instr))]
  <2> DEFINE i == call[c].instr
  <2>1. Genuine(i)
    BY <1>3 DEF Proper
  <2>2. /\ Trusted(Winner(i)) /\ Winner(i).epoch >= binding
        /\ state' = Winner(i) /\ Trusted(state)' /\ suspended' \in BOOLEAN
        /\ resting' \in BOOLEAN
    BY <1>2, <1>4, <2>1, AcceptedIsTrusted DEF gateway
  <2>3. ProperCache'
    BY <2>2 DEF ProperCache
  <2>4. Proper(Receives(call[c], Winner(i)))
    BY <1>1, <1>3, <2>2, ReceiverIsProper
  <2>5. ProperCalls'
    <3> DEFINE k == Receives(call[c], Winner(i))
    <3>1. call' = [call EXCEPT ![c] = k]
      BY <1>4
    <3> HIDE DEF k, i
    <3> QED
      BY <1>1, <1>2, <2>4, <3>1, OneCall DEF k, i
  <2> QED
    BY <1>2, <2>3, <2>5, PartsNext
<1>5. CASE Rejected /\ Leave(c) /\ UNCHANGED resting
  <2>1. ProperCache'
    BY <1>1, <1>2, <1>5, Untouched DEF Rejected, ProperCache
  <2>2. ProperCalls'
    BY <1>1, <1>2, <1>5, EmptyIsProper, OneCall DEF Leave
  <2> QED
    BY <1>2, <2>1, <2>2, PartsNext
<1> QED
  BY <1>4, <1>5 DEF Verified

\* So does a caller that decides, ends, refreshes or is brought an instruction.
LEMMA OtherCallInv ==
  ASSUME IInv, NEW c \in Callers, Decided(c) \/ Continued(c) \/ Ended(c) \/ Refresh(c) \/ Offered(c)
  PROVE  IInv'
<1>1. ProperTime /\ ProperCache /\ ProperFlight /\ ProperCalls
  BY Parts
<1>2. UNCHANGED <<gateway, binding>> /\ ProperTime' /\ ProperCache'
  BY <1>1, Untouched DEF Decided, Continued, Ended, Refresh, Offered, cache, ProperCache
<1>3. /\ Proper(call[c]) /\ call[c].began \in 0..MaxEpoch /\ call[c].began <= binding
      /\ 0 \in 0..MaxEpoch /\ 0 <= binding
  BY <1>1, QuotaConstants DEF ProperCalls, Proper, CallRecord, ProperTime
<1>4. CASE Refresh(c)
  BY <1>2, <1>3, <1>4, RecoverIsProper, PartsNext DEF Refresh
<1>5. ASSUME NEW k, Proper(k), call' = [call EXCEPT ![c] = k], UNCHANGED flight
      PROVE  IInv'
  BY <1>1, <1>2, <1>5, OneCall, Untouched, PartsNext
<1>6. CASE Decided(c)
  <2>1. CASE GoTo(c, "checked", call[c].instr, call[c].began)
    <3>1. Proper([pc |-> "checked", instr |-> call[c].instr, began |-> call[c].began])
      BY <1>3, <1>6 DEF Decided, Proper, CallRecord
    <3> QED
      BY <1>5, <1>6, <2>1, <3>1 DEF Decided, GoTo
  <2>2. CASE GoTo(c, "admit", NoInstruction, call[c].began)
    BY <1>3, <1>5, <1>6, <2>2, PlainIsProper DEF Decided, GoTo
  <2>3. CASE Leave(c)
    BY <1>5, <1>6, <2>3, EmptyIsProper DEF Decided, Leave
  <2> QED
    BY <1>6, <2>1, <2>2, <2>3 DEF Decided
<1>7. CASE Ended(c)
  BY <1>5, <1>7, EmptyIsProper DEF Ended, Leave
<1>9. CASE Continued(c)
  <2>1. Proper([pc |-> "local", instr |-> call[c].instr, began |-> call[c].began])
    BY <1>3, <1>9 DEF Continued, Proper, CallRecord
  <2> QED
    BY <1>5, <1>9, <2>1 DEF Continued, GoTo
<1>8. CASE Offered(c)
  <2>1. PICK i \in Signed : GoTo(c, "verify", i, 0)
    BY <1>8 DEF Offered
  <2>2. Genuine(i)
    BY SignedIsGenuine DEF IInv
  <2>3. Proper([pc |-> "verify", instr |-> i, began |-> 0])
    BY <1>3, <2>2 DEF Proper, CallRecord, Genuine
  <2> QED
    BY <1>5, <1>8, <2>1, <2>3 DEF Offered, GoTo
<1> QED
  BY <1>4, <1>6, <1>7, <1>8, <1>9

\* So do the end of the backoff, the loss of the registration and a new grant,
\* which only asks for more than what is held.
LEMMA CacheInv == ASSUME IInv, Rested \/ Invalidate \/ Rebind PROVE IInv'
<1>1. ProperTime /\ ProperCache /\ ProperFlight /\ ProperCalls
  BY Parts
<1>2. CASE Rested \/ Invalidate
  BY <1>1, <1>2, Untouched, PartsNext DEF Rested, Invalidate, Rejected, ProperCache
<1>3. CASE Rebind
  <2>1. past[now] \in Settings
    BY <1>1 DEF ProperTime
  <2>2. binding' = past[now].epoch /\ binding <= binding' /\ binding' \in 1..MaxEpoch
    BY <1>1, <1>3, <2>1 DEF Rebind, ProperTime, Settings
  <2>3. binding' <= past[now].epoch
    BY <2>2
  <2>4. ProperTime'
    BY <1>1, <1>3, <2>2, <2>3 DEF ProperTime, SettingsGrow, Rebind, gateway
  <2>5. ProperCache' /\ ProperFlight'
    BY <1>1, <1>3 DEF ProperCache, ProperFlight, Genuine, Trusted, Rebind, gateway, cache
  <2>6. ProperCalls'
    <3>1. ASSUME NEW k, Proper(k) PROVE Proper(k)'
      <4>1. k.began <= binding'
        BY <1>1, <2>2, <3>1 DEF Proper, CallRecord, ProperTime
      <4> QED
        BY <1>3, <3>1, <4>1 DEF Proper, Genuine, Trusted, Rebind, gateway
    <3> QED
      BY <1>1, <1>3, <3>1 DEF ProperCalls, Rebind
  <2> QED
    BY <2>4, <2>5, <2>6, PartsNext
<1> QED
  BY <1>2, <1>3

\* So does time: what was signed stays what the settings were.
LEMMA TickInv == ASSUME IInv, Tick PROVE IInv'
<1>1. ProperTime /\ ProperCache /\ ProperFlight /\ ProperCalls
  BY Parts
<1>2. PICK s \in Settings :
        /\ s.rev \in {past[now].rev, past[now].rev + 1}
        /\ s.epoch \in {past[now].epoch, past[now].epoch + 1}
        /\ past' = [t \in 0..Horizon |-> IF t <= now THEN past[t] ELSE s]
  BY DEF Tick
<1>3. /\ now \in 0..Horizon /\ now' = now + 1 /\ now < Horizon
      /\ past \in [0..Horizon -> Settings]
  BY <1>1 DEF Tick, ProperTime
<1>4. now' \in 0..Horizon
  BY <1>3, QuotaConstants
<1>5. past' \in [0..Horizon -> Settings]
  BY <1>2, <1>3
<1>6. /\ \A t \in 0..Horizon : past[t].rev \in Int /\ past[t].epoch \in Int
      /\ s.rev \in Int /\ s.epoch \in Int
  BY <1>3 DEF Settings
<1>7. past[now].rev <= s.rev /\ past[now].epoch <= s.epoch
  BY <1>2, <1>3, <1>6
<1>8. SettingsGrow'
  <2> SUFFICES ASSUME NEW a \in 0..Horizon, NEW b \in 0..Horizon, a <= b
               PROVE  past'[a].rev <= past'[b].rev /\ past'[a].epoch <= past'[b].epoch
    BY DEF SettingsGrow
  <2>1. CASE b <= now
    BY <1>1, <1>2, <1>3, <2>1 DEF ProperTime, SettingsGrow
  <2>2. CASE a <= now /\ ~(b <= now)
    <3>1. past[a].rev <= past[now].rev /\ past[a].epoch <= past[now].epoch
      BY <1>1, <1>3, <2>2 DEF ProperTime, SettingsGrow
    <3>2. past[a].rev <= s.rev /\ past[a].epoch <= s.epoch
      BY <1>3, <1>6, <1>7, <3>1
    <3> QED
      BY <1>2, <2>2, <3>2
  <2>3. CASE ~(a <= now)
    <3>1. ~(b <= now)
      BY <1>3, <2>3
    <3> QED
      BY <1>2, <1>6, <2>3, <3>1
  <2> QED
    BY <2>1, <2>2, <2>3
<1>9. ProperTime'
  <2>1. binding' = binding /\ binding \in 1..MaxEpoch /\ binding <= past[now].epoch
    BY <1>1 DEF ProperTime, Tick
  <2>2. past'[now'] = s
    BY <1>2, <1>3, <1>4
  <2>3. binding <= s.epoch
    BY <1>3, <1>6, <1>7, <2>1
  <2> QED
    BY <1>4, <1>5, <1>8, <2>1, <2>2, <2>3 DEF ProperTime
<1>10. ASSUME NEW i, Genuine(i) PROVE Genuine(i)'
  <2>1. i.iat \in 0..Horizon /\ i.iat <= now /\ i \in Instructions
    BY <1>10 DEF Genuine, Instructions
  <2>2. past'[i.iat] = past[i.iat] /\ i.iat <= now'
    BY <1>2, <1>3, <2>1
  <2> QED
    BY <1>10, <2>1, <2>2 DEF Genuine
<1>11. ASSUME NEW i, Trusted(i) PROVE Trusted(i)'
  BY <1>10, <1>11 DEF Trusted
<1>12. ProperCache' /\ ProperFlight'
  BY <1>1, <1>10, <1>11 DEF ProperCache, ProperFlight, Tick, cache
<1>13. ProperCalls'
  BY <1>1, <1>10, <1>11 DEF ProperCalls, Proper, Tick
<1> QED
  BY <1>9, <1>12, <1>13, PartsNext

\* Every step of the system keeps the invariant.
LEMMA NextInv == ASSUME IInv, [Next]_vars PROVE IInv'
<1>1. CASE UNCHANGED vars
  <2>1. ProperTime /\ ProperCache /\ ProperFlight /\ ProperCalls
    BY Parts
  <2>2. UNCHANGED <<gateway, binding, cache, flight, call>>
    BY <1>1 DEF vars
  <2> QED
    BY <2>1, <2>2, Untouched, PartsNext DEF cache, ProperCache
<1>2. CASE \E c \in Callers : BeforeAction(c) \/ Refresh(c) \/ Offered(c) \/ CallStep(c)
  BY <1>2, BeforeActionInv, AdmittedInv, VerifiedInv, OtherCallInv DEF CallStep
<1>3. CASE FlightStep
  BY <1>3, FlightInv
<1>4. CASE Rested \/ Invalidate \/ Rebind
  BY <1>4, CacheInv
<1>5. CASE Tick
  BY <1>5, TickInv
<1> QED
  BY <1>1, <1>2, <1>3, <1>4, <1>5 DEF Next

\* The invariant holds in every behaviour.
LEMMA InvHolds == Spec => []IInv
BY InitInv, NextInv, PTL DEF Spec

-----------------------------------------------------------------------------
\* The variables have their types in every behaviour: a call that holds or
\* verifies an instruction has one (quota_state.py).
THEOREM QuotaTypes == Spec => []TypeOK
<1>1. IInv => TypeOK
  BY DEF IInv
<1> QED
  BY <1>1, InvHolds, PTL

\* accept_instruction never puts an older instruction in the place of the one
\* it holds, in whatever order they arrive and their keys are fetched.
THEOREM QuotaNeverRollsBack == Spec => NoRollback
<1> DEFINE Stands == state # NoInstruction /\ state' # NoInstruction =>
                       state'.rev >= state.rev /\ state'.iat >= state.iat
<1>1. ASSUME IInv, [Next]_vars PROVE [Stands]_state
  <2>1. state # NoInstruction => state \in Instructions
    BY <1>1 DEF IInv, TypeOK
  <2>2. ASSUME NEW i, Accepted(i), i \in Instructions PROVE Stands
    BY <2>1, <2>2 DEF Accepted, Winner, Older, Instructions
  <2>3. CASE FlightStep
    <3>1. CASE FlightVerified
      BY <1>1, <2>2, <3>1 DEF FlightVerified, IInv, TypeOK
    <3>2. CASE FlightFetched \/ FlightFailed
      BY <2>1, <3>2 DEF FlightFetched, FlightFailed, Rejected, cache
    <3> QED
      BY <2>3, <3>1, <3>2 DEF FlightStep
  <2>4. ASSUME NEW c \in Callers, BeforeAction(c) \/ Refresh(c) \/ Offered(c) \/ CallStep(c)
        PROVE  [Stands]_state
    <3>1. CASE Verified(c)
      <4>1. CASE Accepted(call[c].instr)
        BY <1>1, <2>2, <3>1, <4>1 DEF Verified, IInv, TypeOK
      <4>2. CASE Rejected
        BY <4>2 DEF Rejected
      <4> QED
        BY <3>1, <4>1, <4>2 DEF Verified
    <3>2. CASE BeforeAction(c)
      BY <3>2 DEF BeforeAction, Look
    <3>3. CASE Refresh(c) \/ Offered(c) \/ Admitted(c) \/ Decided(c) \/ Continued(c) \/ Ended(c)
      BY <3>3 DEF Refresh, Offered, Admitted, Decided, Continued, Ended, cache
    <3> QED
      BY <2>4, <3>1, <3>2, <3>3 DEF CallStep
  <2>5. CASE Rested \/ Invalidate \/ Rebind \/ Tick
    BY <2>5 DEF Rested, Invalidate, Rejected, Rebind, Tick, cache
  <2>6. CASE UNCHANGED vars
    BY <2>6 DEF vars, cache
  <2> QED
    BY <1>1, <2>3, <2>4, <2>5, <2>6 DEF Next
<1> QED
  BY <1>1, InvHolds, PTL DEF Spec, NoRollback

\* continues_locally lets an action go on only under a passthrough the gateway had
\* in force less than MAX_AUTHORITY_SECONDS ago, for the grant the call began under or a
\* later one.
THEOREM QuotaLocalIsAuthorized == Spec => LocalIsAuthorized
<1> DEFINE Justified(c) ==
      \E t \in 0..now : /\ now < t + Life /\ past[t].mode = "passthrough"
                        /\ past[t].epoch >= call[c].began
    Allowed == \A c \in Callers :
                 call[c].pc = "hold" /\ call'[c].pc = "checked" => Justified(c)
<1>1. ASSUME IInv, [Next]_vars PROVE [Allowed]_call
  <2>1. ProperTime /\ ProperCalls
    BY <1>1, Parts
  <2>2. ASSUME NEW c \in Callers, call[c].pc = "hold", Continues(call[c].instr)
        PROVE  Justified(c)
    <3> DEFINE i == call[c].instr
    <3>1. Trusted(i) /\ i.epoch >= call[c].began
      BY <2>1, <2>2 DEF ProperCalls, Proper
    <3>2. i.iat \in 0..Horizon /\ i.exp \in Int /\ Life \in Int /\ now \in Int
      BY <2>1, <3>1, QuotaConstants DEF Trusted, Genuine, Instructions, ProperTime
    <3>3. i.iat \in 0..now /\ now < i.iat + Life
      BY <2>2, <3>1, <3>2 DEF Trusted, Genuine, Continues, Fresh
    <3>4. past[i.iat].mode = "passthrough" /\ past[i.iat].epoch >= call[c].began
      BY <2>2, <3>1 DEF Trusted, Genuine, Continues
    <3> QED
      BY <3>3, <3>4
  <2>3. ASSUME NEW c \in Callers, call[c].pc = "hold", call'[c].pc = "checked"
        PROVE  Continues(call[c].instr)
    <3>1. call[c] \in CallRecord
      BY <2>1 DEF ProperCalls
    <3>2. CASE FlightStep
      BY <2>3, <3>2 DEF FlightStep, FlightFetched, FlightVerified, FlightFailed
    <3>3. ASSUME NEW b \in Callers, BeforeAction(b) \/ Refresh(b) \/ Offered(b) \/ CallStep(b)
          PROVE  Continues(call[c].instr)
      <4>1. b = c
        BY <2>1, <2>3, <3>3 DEF ProperCalls, BeforeAction, Refresh, Offered, CallStep, Recover,
           GoTo, Leave, Admitted, Verified, Decided, Continued, Ended
      <4>2. Decided(c)
        BY <2>3, <3>3, <4>1 DEF BeforeAction, Refresh, Offered, CallStep, Admitted, Verified,
           Continued, Ended
      <4> QED
        BY <2>1, <2>3, <4>2 DEF ProperCalls, Decided, GoTo, Leave, NoCall
    <3>4. CASE Rested \/ Invalidate \/ Rebind \/ Tick \/ UNCHANGED vars
      BY <2>3, <3>4 DEF Rested, Invalidate, Rebind, Tick, vars
    <3> QED
      BY <1>1, <3>2, <3>3, <3>4 DEF Next
  <2> QED
    BY <2>2, <2>3
<1> QED
  BY <1>1, InvHolds, PTL DEF Spec, LocalIsAuthorized
=============================================================================
