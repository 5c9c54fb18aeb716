------------------------------ MODULE QuotaState ------------------------------
(***************************************************************************)
(* The client's cache of the gateway's signed quota instruction            *)
(* (pep/quota_state.py), the actions that ask it before they start, and    *)
(* the single recovery flight they share.                                  *)
(*                                                                         *)
(* The gateway is external.  Its settings change with time and it signs    *)
(* what they are; any instruction it ever signed may arrive, at any time,  *)
(* again or never.  The three revisions of an instruction are one here,    *)
(* "observe" is "passthrough", and the length of the backoff is a choice.  *)
(* An action is what one event loop runs between two awaits.               *)
(* Bounds: Horizon, MaxRevision, MaxEpoch.                                 *)
(***************************************************************************)
EXTENDS Integers

CONSTANTS
  Callers,       \* governed actions, and the heartbeat that delivers instructions
  NoInstruction,
  Life,          \* MAX_AUTHORITY_SECONDS
  Horizon,       \* last value of the model's clock
  MaxRevision, MaxEpoch

ASSUME QuotaConstants ==
  /\ Life \in Nat \ {0} /\ Horizon \in Nat
  /\ MaxRevision \in Nat \ {0} /\ MaxEpoch \in Nat \ {0}

Modes == {"available", "stop", "passthrough"}
Settings == [rev : 1..MaxRevision, mode : Modes, epoch : 1..MaxEpoch]
Instructions == [rev : 1..MaxRevision, mode : Modes, epoch : 1..MaxEpoch,
                 iat : 0..Horizon, exp : 0..Horizon + Life + 1]

ASSUME NoInstructionIsNone == NoInstruction \notin Instructions

VARIABLES
  now,        \* time()
  past,       \* the gateway's settings at each time up to now
  binding,    \* the epoch of the grant the client holds
  state,      \* self._state
  suspended,  \* self._suspended
  resting,    \* monotonic() < self._retry_at
  flight,     \* self._pending and the refresh task that owns it
  call        \* what each caller is doing

cache == <<state, suspended, resting>>
gateway == <<now, past>>
vars == <<gateway, binding, cache, flight, call>>

\* What the gateway has signed, for the client's limit or for longer: it does
\* not know that limit.
Signed ==
  {[rev |-> past[t].rev, mode |-> past[t].mode, epoch |-> past[t].epoch, iat |-> t, exp |-> t + d] :
     t \in 0..now, d \in {Life, Life + 1}}

NoFlight == [phase |-> "none", instr |-> NoInstruction]
NoCall == [pc |-> "idle", instr |-> NoInstruction, began |-> 0]

Init ==
  /\ now = 0 /\ binding = 1
  /\ \E m \in Modes : past = [t \in 0..Horizon |-> [rev |-> 1, mode |-> m, epoch |-> 1]]
  /\ state = NoInstruction /\ suspended = FALSE /\ resting = FALSE
  /\ flight = NoFlight
  /\ call = [c \in Callers |-> NoCall]

\* A call began under a grant's epoch, or under 0 when no action depends on it.
GoTo(c, pc, i, epoch) == call' = [call EXCEPT ![c] = [pc |-> pc, instr |-> i, began |-> epoch]]
Leave(c) == call' = [call EXCEPT ![c] = NoCall]

-----------------------------------------------------------------------------
(* current, accept_instruction and _from_claims *)

Fresh(i) == i # NoInstruction /\ now < i.exp

\* Wrong variant: any unexpired instruction will do.
CurrentUnbound == IF Fresh(state) THEN state ELSE NoInstruction

Current == IF Fresh(state) /\ state.epoch = binding THEN state ELSE NoInstruction

\* Reading it forgets an instruction of another grant, not an expired one.
Look == state' = IF Fresh(state) /\ Current = NoInstruction THEN NoInstruction ELSE state

\* Wrong variant: no limit on the lifetime.
ValidForAnyTime(i) == i.iat <= now /\ Fresh(i) /\ i.epoch = binding

Valid(i) == i.iat <= now /\ Fresh(i) /\ i.exp - i.iat <= Life /\ i.epoch = binding

\* Wrong variant: the last one to arrive wins.
OlderNever(i) == FALSE

\* Lower in any revision or issued earlier than what is held.
Older(i) == state # NoInstruction /\ (i.rev < state.rev \/ i.iat < state.iat)

\* What accept_instruction returns, and what it leaves.
Winner(i) == IF Older(i) THEN state ELSE i
Accepted(i) ==
  /\ Valid(i)
  /\ state' = Winner(i)
  /\ suspended' = IF Older(i) THEN suspended ELSE i.mode # "available"
  /\ resting' = (resting /\ Older(i))

\* An instruction that cannot be verified forgets the one that was.
Rejected == state' = NoInstruction /\ suspended' = TRUE

-----------------------------------------------------------------------------
(* recover *)

\* Join the recovery under way, or start one unless backing off; an explicit
\* refresh, which no action depends on, does not back off.
Recover(c, epoch) ==
  \/ flight # NoFlight /\ GoTo(c, "wait", NoInstruction, epoch) /\ UNCHANGED flight
  \/ /\ flight = NoFlight /\ (epoch = 0 \/ ~resting)
     /\ GoTo(c, "wait", NoInstruction, epoch) /\ flight' = [NoFlight EXCEPT !.phase = "fetch"]
  \/ flight = NoFlight /\ epoch # 0 /\ resting /\ Leave(c) /\ UNCHANGED flight

\* An action that waited gets the result; nothing else does.
Receives(k, i) == IF k.began = 0 THEN NoCall ELSE [k EXCEPT !.pc = "hold", !.instr = i]

FlightFetched ==
  /\ flight.phase = "fetch"
  /\ \E i \in Signed : flight' = [phase |-> "verify", instr |-> i]
  /\ UNCHANGED <<gateway, binding, cache, call>>

FlightVerified ==
  /\ flight.phase = "verify"
  /\ Accepted(flight.instr)
  /\ call' = [c \in Callers |-> IF call[c].pc = "wait" THEN Receives(call[c], Winner(flight.instr))
                              ELSE call[c]]
  /\ flight' = NoFlight
  /\ UNCHANGED <<gateway, binding>>

\* Wrong variant: the flight is over for its waiters only.
FlightFailedKept ==
  /\ flight # NoFlight
  /\ Rejected /\ resting' = TRUE
  /\ call' = [c \in Callers |-> IF call[c].pc = "wait" THEN NoCall ELSE call[c]]
  /\ flight' = [flight EXCEPT !.phase = "failed"]
  /\ UNCHANGED <<gateway, binding>>

\* No answer in 5 seconds, or none that verifies: back off.
FlightFailed ==
  /\ flight # NoFlight
  /\ Rejected /\ resting' = TRUE
  /\ call' = [c \in Callers |-> IF call[c].pc = "wait" THEN NoCall ELSE call[c]]
  /\ flight' = NoFlight
  /\ UNCHANGED <<gateway, binding>>

Rested ==
  /\ resting /\ resting' = FALSE
  /\ UNCHANGED <<gateway, binding, state, suspended, flight, call>>

-----------------------------------------------------------------------------
(* One governed action: before_action, the gateway's answer, accept_error,
   and continues_locally *)

\* Ask the cache: a current instruction decides, an unsuspended cache admits,
\* a suspended one recovers first.
BeforeAction(c) ==
  /\ call[c].pc = "idle"
  /\ \/ Current = NoInstruction /\ suspended /\ Recover(c, binding)
     \/ /\ IF Current = NoInstruction THEN ~suspended ELSE Current.mode = "available"
        /\ GoTo(c, "admit", NoInstruction, binding) /\ UNCHANGED flight
     \/ /\ Current # NoInstruction /\ Current.mode # "available"
        /\ GoTo(c, "hold", Current, binding) /\ UNCHANGED flight
  /\ Look
  /\ UNCHANGED <<gateway, binding, suspended, resting>>

\* The gateway answers an admission: decided or failed; out of quota, with an
\* instruction or without one.
Admitted(c) ==
  /\ call[c].pc = "admit"
  /\ \/ Leave(c) /\ UNCHANGED <<suspended, flight>>
     \/ \E i \in Signed : GoTo(c, "verify", i, call[c].began) /\ suspended' = TRUE /\ UNCHANGED flight
     \/ Recover(c, call[c].began) /\ suspended' = TRUE
  /\ UNCHANGED <<gateway, binding, state, resting>>

\* The keys arrived, or did not.
Verified(c) ==
  /\ call[c].pc = "verify"
  /\ \/ /\ Accepted(call[c].instr)
        /\ call' = [call EXCEPT ![c] = Receives(@, Winner(@.instr))]
     \/ Rejected /\ Leave(c) /\ UNCHANGED resting
  /\ UNCHANGED <<gateway, binding, flight>>

\* Wrong variant: does not look at the time.
ContinuesForEver(i) == i.mode = "passthrough"

Continues(i) == i.mode = "passthrough" /\ Fresh(i)

\* The instruction lets the action go on locally; it is admitted after all, when
\* there is quota again; or it is refused.
Decided(c) ==
  /\ call[c].pc = "hold"
  /\ \/ Continues(call[c].instr) /\ GoTo(c, "checked", call[c].instr, call[c].began)
     \/ call[c].instr.mode = "available" /\ GoTo(c, "admit", NoInstruction, call[c].began)
     \/ ~Continues(call[c].instr) /\ Leave(c)
  /\ UNCHANGED <<gateway, binding, cache, flight>>

\* A hook action looks up its key in the outbox between the check and its local
\* start, and does not check again; a direct one starts at once.
Continued(c) ==
  /\ call[c].pc = "checked"
  /\ GoTo(c, "local", call[c].instr, call[c].began)
  /\ UNCHANGED <<gateway, binding, cache, flight>>

\* A local action ends, or finds its key admitted before it starts; and a caller
\* may be cancelled at any await: its flight and the cache are shielded from it.
Ended(c) ==
  /\ call[c].pc \in {"admit", "verify", "wait", "checked", "local"}
  /\ Leave(c)
  /\ UNCHANGED <<gateway, binding, cache, flight>>

\* An explicit refresh asks again at once.
Refresh(c) ==
  /\ call[c].pc = "idle"
  /\ Recover(c, 0)
  /\ UNCHANGED <<gateway, binding, cache>>

\* The heartbeat brought an instruction.
Offered(c) ==
  /\ call[c].pc = "idle"
  /\ \E i \in Signed : GoTo(c, "verify", i, 0)
  /\ UNCHANGED <<gateway, binding, cache, flight>>

-----------------------------------------------------------------------------
(* What happens to the cache *)

\* The participant lost its registration.
Invalidate ==
  /\ Rejected
  /\ UNCHANGED <<gateway, binding, resting, flight, call>>

\* The client learns of the grant in force.
Rebind ==
  /\ binding' = past[now].epoch
  /\ UNCHANGED <<gateway, cache, flight, call>>

\* Time passes; the settings or the grant may be changed in the meantime.
Tick ==
  /\ now < Horizon /\ now' = now + 1
  /\ \E s \in Settings :
       /\ s.rev \in {past[now].rev, past[now].rev + 1}
       /\ s.rev = past[now].rev => s.mode = past[now].mode
       /\ s.epoch \in {past[now].epoch, past[now].epoch + 1}
       /\ past' = [t \in 0..Horizon |-> IF t <= now THEN past[t] ELSE s]
  /\ UNCHANGED <<binding, cache, flight, call>>

FlightStep == FlightFetched \/ FlightVerified \/ FlightFailed
CallStep(c) == Admitted(c) \/ Verified(c) \/ Decided(c) \/ Continued(c) \/ Ended(c)

Next ==
  \/ \E c \in Callers : BeforeAction(c) \/ Refresh(c) \/ Offered(c) \/ CallStep(c)
  \/ FlightStep \/ Rested \/ Invalidate \/ Rebind \/ Tick

Spec == Init /\ [][Next]_vars
-----------------------------------------------------------------------------
TypeOK ==
  /\ now \in 0..Horizon /\ past \in [0..Horizon -> Settings] /\ binding \in 1..MaxEpoch
  /\ state \in Instructions \cup {NoInstruction}
  /\ suspended \in BOOLEAN /\ resting \in BOOLEAN
  /\ flight \in [phase : {"none", "fetch", "verify"}, instr : Instructions \cup {NoInstruction}]
  /\ flight.phase = "verify" => flight.instr \in Instructions
  /\ call \in [Callers -> [pc : {"idle", "admit", "wait", "verify", "hold", "checked",
                                 "local"},
                           instr : Instructions \cup {NoInstruction}, began : 0..MaxEpoch]]
  /\ \A c \in Callers :
       call[c].pc \in {"verify", "hold", "checked", "local"} => call[c].instr \in Instructions

\* Settings reach the client within the authority bound: whoever is found to
\* continue locally had at that moment, less than Life ago, the gateway's
\* passthrough for the grant the call began under or a later one, whatever was
\* cached, joined or awaited.
LocalIsAuthorized ==
  [][\A c \in Callers :
       call[c].pc = "hold" /\ call'[c].pc = "checked" =>
         \E t \in 0..now : /\ now < t + Life /\ past[t].mode = "passthrough"
                           /\ past[t].epoch >= call[c].began]_call

\* An instruction never gives way to an older one, in whatever order answers,
\* heartbeats and the recovery get their keys.
NoRollback ==
  [][state # NoInstruction /\ state' # NoInstruction =>
       state'.rev >= state.rev /\ state'.iat >= state.iat]_state

-----------------------------------------------------------------------------
\* Requests end by their timeouts, backing off ends, actions keep coming, and
\* the gateway does not fail every recovery.
Fairness ==
  /\ WF_vars(FlightStep) /\ WF_vars(Rested) /\ WF_vars(Rebind)
  /\ \A c \in Callers : SF_vars(BeforeAction(c)) /\ WF_vars(CallStep(c))
  /\ SF_vars(FlightFetched /\ Valid(flight'.instr)) /\ SF_vars(FlightVerified)

FairSpec == Spec /\ Fairness

\* A suspended cache finds authority again, or is told there is quota: no
\* sequence of failures, cancellations, refreshes and changes of grant leaves
\* it backing off, or waiting for a flight that is over, for ever.
Revives == suspended /\ Current = NoInstruction ~> ~suspended \/ Current # NoInstruction
=============================================================================
