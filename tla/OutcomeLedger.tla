---------------------------- MODULE OutcomeLedger ----------------------------
(***************************************************************************)
(* What the native-hook outcome store promises, with no lock, no disk      *)
(* thread and no restart in it: one ledger of action keys in which an      *)
(* admission is reserved once, receives one outcome, and leaves either     *)
(* when that outcome is settled with the gateway or when the host never    *)
(* reported and the reservation is older than its time-to-live.            *)
(* HookOutbox implements it (integrations/agents/hook_outbox.py).          *)
(***************************************************************************)
EXTENDS Naturals, FiniteSets

CONSTANTS Keys, Prints, Outcomes, NoEntry, MaxAwaiting, MaxEntries, Ttl, Horizon

VARIABLES ledger, now

Entry == [state : {"awaiting_host", "received"}, print : Prints,
          outcome : Outcomes \cup {"none"}, born : 0..Horizon]

Empty == [k \in Keys |-> NoEntry]
Present == {k \in Keys : ledger[k] # NoEntry}
Awaiting == {k \in Present : ledger[k].state = "awaiting_host"}

Init == ledger = Empty /\ now = 0

\* An admitted action takes one of the bounded slots.  It reaches the ledger
\* some time after it was stamped.
Reserve(k) ==
  /\ ledger[k] = NoEntry
  /\ Cardinality(Awaiting) < MaxAwaiting
  /\ Cardinality(Present) < MaxEntries
  /\ \E p \in Prints, t \in 0..now :
       ledger' = [ledger EXCEPT ![k] = [state |-> "awaiting_host", print |-> p,
                                        outcome |-> "none", born |-> t]]

\* The first outcome reported for a reservation is the only one.
Record(k) ==
  /\ k \in Awaiting
  /\ \E o \in Outcomes :
       ledger' = [ledger EXCEPT ![k] = [@ EXCEPT !.state = "received", !.outcome = o]]

\* Only a received outcome is settled.
Settle(k) ==
  /\ k \in Present \ Awaiting
  /\ ledger' = [ledger EXCEPT ![k] = NoEntry]

\* Reservations whose callback never came in time are dropped together.
Expire ==
  \E S \in (SUBSET {k \in Awaiting : ledger[k].born + Ttl <= now}) \ {{}} :
    ledger' = [k \in Keys |-> IF k \in S THEN NoEntry ELSE ledger[k]]

Tick == now < Horizon /\ now' = now + 1

Next == \/ /\ \/ \E k \in Keys : Reserve(k) \/ Record(k) \/ Settle(k)
              \/ Expire
           /\ UNCHANGED now
        \/ Tick /\ UNCHANGED ledger

Spec == Init /\ [][Next]_<<ledger, now>>
=============================================================================
