--------------------------- MODULE GovernedAction ---------------------------
(***************************************************************************)
(* A governed action: the execute_async calls of one control client, the   *)
(* action gate that decides each of them (the local manifest, or a         *)
(* directive the gateway signed), the verifier with its memory of used     *)
(* directives, and the cache of the gateway's keys the verifier reads      *)
(* through (src/integrations/agents/control_actions.py,                    *)
(* src/governance/actions.py, src/pep, src/sdk/jwks.py).                   *)
(*                                                                         *)
(* All calls run on one event loop: a step is what happens between two     *)
(* awaits.  When the keys are at hand, verification, the memory of used    *)
(* directives and the start of the callback are ONE step.  Time is the     *)
(* wall clock in whole ticks.  The gateway is external: it issues          *)
(* receipts, publishes one signing key at a time and replaces it.          *)
(***************************************************************************)
EXTENDS Integers

CONSTANTS Calls,       \* the execute_async calls; a receipt has the name of
                       \* the call whose preflight obtained it
          TTL,         \* the age at which cached keys are no longer used
          Life,        \* lifetime of a directive
          FetchLimit,  \* the HTTP timeout of a key fetch
          MaxTime,     \* bound: ticks of the clock
          MaxKey,      \* bound: keys the gateway publishes, one after another
          NoReceipt, NoEntry, NoCall

(* A key fetch gives up long before cached keys grow old: the HTTP client  *)
(* has a timeout of seconds, the cache keeps keys for an hour.             *)
ASSUME GovernedActionAssumption ==
    /\ TTL \in Nat /\ Life \in Nat /\ MaxTime \in Nat
    /\ FetchLimit \in Nat /\ FetchLimit < TTL
    /\ MaxKey \in Nat \ {0}
    /\ NoCall \notin Calls

VARIABLES
    now,        \* the clock
    key,        \* the key the gateway signs with and publishes
    retired,    \* when each earlier key left the published set
    receipts,   \* what the gateway's preflight granted, by receipt
    source,     \* the one control source the gate was configured with
    call,       \* where each call stands, its receipt, whether that was issued
                \* for the very action of the call, and the callback's result
    outcome,    \* how the call ended for its caller
    cache,      \* the fetcher's entry for the gateway's URL
    lock,       \* the call that holds the fetcher's lock
    fetchAt,    \* the time the holder read before it sent the request
    served,     \* the keys the gateway answered, on their way back
    seen,       \* the verifier's used directives
    expiries,   \* ... and when those with a recorded expiry may be forgotten
    runs,       \* history: the calls that ran under each receipt
    reported    \* the gateway's record of reports: <<call, result>>

gatewayVars == <<now, key, retired, receipts, reported>>
keyVars == <<cache, lock, fetchAt, served>>
seenVars == <<seen, expiries>>
callVars == <<call, outcome, runs>>
vars == <<gatewayVars, keyVars, seenVars, callVars, source>>

Keys == 1 .. MaxKey
Sources == {"cluster_directive", "local_manifest"}

(* "permit": allowed, or refused in observe mode; "malformed": signed      *)
(* claims whose mode or evidence list does not parse.                      *)
Verdicts == {"permit", "deny", "malformed"}
Receipt == [key : Keys, exp : 0 .. MaxTime + Life, verdict : Verdicts]
ASSUME NoReceiptAssumption == NoReceipt \notin Receipt
Call == [at : {"idle", "preflight", "lock", "fetch", "running", "report", "done"},
         receipt : Calls, same : BOOLEAN, result : {"none", "value", "error"}]
Entry == [keys : SUBSET Keys, timestamp : 0 .. MaxTime]

TypeOK ==
    /\ now \in 0 .. MaxTime /\ key \in Keys
    /\ retired \in [Keys -> 0 .. MaxTime]
    /\ receipts \in [Calls -> Receipt \cup {NoReceipt}]
    /\ source \in Sources
    /\ call \in [Calls -> Call]
    /\ outcome \in [Calls -> {"none", "returned", "raised", "denied", "failed"}]
    /\ cache \in Entry \cup {NoEntry}
    /\ lock \in Calls \cup {NoCall}
    /\ fetchAt \in 0 .. MaxTime
    /\ served \in SUBSET Keys
    /\ seen \in SUBSET Calls
    /\ expiries \in [Calls -> 0 .. MaxTime + Life]
    /\ runs \in [Calls -> SUBSET Calls]
    /\ reported \subseteq Calls \X {"value", "error"}

(* A call with nothing to remember. *)
Blank(c, at) == [at |-> at, receipt |-> c, same |-> TRUE, result |-> "none"]

Init ==
    /\ now = 0 /\ key = 1
    /\ retired = [k \in Keys |-> 0]
    /\ receipts = [c \in Calls |-> NoReceipt]
    /\ source \in Sources
    /\ call = [c \in Calls |-> Blank(c, "idle")]
    /\ outcome = [c \in Calls |-> "none"]
    /\ cache = NoEntry /\ lock = NoCall /\ fetchAt = 0 /\ served = {}
    /\ seen = {} /\ expiries = [c \in Calls |-> 0]
    /\ runs = [c \in Calls |-> {}] /\ reported = {}

-----------------------------------------------------------------------------
(* The gateway and the clock.                                              *)

Tick ==
    /\ now < MaxTime
    /\ lock # NoCall => now - fetchAt < FetchLimit
    /\ now' = now + 1
    /\ UNCHANGED <<key, retired, receipts, reported, keyVars, seenVars, callVars, source>>

ReplaceKey ==
    /\ key < MaxKey
    /\ key' = key + 1
    /\ retired' = [retired EXCEPT ![key] = now]
    /\ UNCHANGED <<now, receipts, reported, keyVars, seenVars, callVars, source>>

(* The gateway decides the preflight of c and signs a directive for it;    *)
(* the reply is on its way.                                                *)
BeginPreflight(c) ==
    /\ call[c].at = "idle"
    /\ call' = [call EXCEPT ![c].at = "preflight"]
    /\ \E verdict \in Verdicts :
          receipts' = [receipts EXCEPT ![c] =
              [key |-> key, exp |-> now + Life, verdict |-> verdict]]
    /\ UNCHANGED <<now, key, retired, reported, keyVars, seenVars, outcome, runs, source>>

-----------------------------------------------------------------------------
(* The gate, from a receipt at hand to the start of the callback.          *)

End(c, how) ==
    /\ call' = [call EXCEPT ![c] = Blank(c, "done")]
    /\ outcome' = [outcome EXCEPT ![c] = how]

Start(c, r, same) ==
    /\ call' = [call EXCEPT ![c].at = "running", ![c].receipt = r, ![c].same = same]
    /\ runs' = [runs EXCEPT ![r] = @ \cup {c}]
    /\ UNCHANGED outcome

Deny(c) == End(c, "denied") /\ UNCHANGED runs

(* Wrong: Used directives are forgotten one tick before they expire. *)
ExpiredEarly(i) == i \in seen /\ expiries[i] # 0 /\ expiries[i] <= now + 1

(* Used directives are forgotten once they have expired.                   *)
Expired(i) == i \in seen /\ expiries[i] # 0 /\ expiries[i] <= now
Pruned == {i \in seen : ~Expired(i)}

(* The signature is checked against the keys, the expiry against the       *)
(* clock; only then are used directives pruned and looked up.              *)
Decodes(r, keys) == receipts[r].key \in keys /\ now < receipts[r].exp

(* verify: bind the claims to the action.  The directive is marked used    *)
(* before its mode and evidence list are parsed, and its expiry recorded   *)
(* only after.                                                             *)
Bind(c, r, same) ==
    LET held == Pruned
        usable == r \notin held /\ same
    IN  /\ seen' = IF usable THEN held \cup {r} ELSE held
        /\ expiries' = [i \in Calls |->
              IF i = r /\ usable /\ receipts[r].verdict # "malformed" THEN receipts[r].exp
              ELSE IF Expired(i) THEN 0 ELSE expiries[i]]
        /\ IF usable /\ receipts[r].verdict = "permit"
           THEN Start(c, r, same)
           ELSE Deny(c)

Decide(c, r, same, keys) ==
    IF Decodes(r, keys)
    THEN Bind(c, r, same)
    ELSE Deny(c) /\ UNCHANGED seenVars

Fresh == cache # NoEntry /\ now - cache.timestamp < TTL

(* execute_async with an executable receipt at hand.  The configured       *)
(* source alone decides: the manifest by what the action is, the verifier  *)
(* once it has the keys.                                                   *)
Enforce(c, r, same) ==
    /\ \/ /\ source = "local_manifest"
          /\ Start(c, r, same) \/ Deny(c)
          /\ UNCHANGED seenVars
       \/ /\ source = "cluster_directive" /\ Fresh
          /\ Decide(c, r, same, cache.keys)
       \/ /\ source = "cluster_directive" /\ ~Fresh
          /\ call' = [call EXCEPT ![c].at = "lock", ![c].receipt = r, ![c].same = same]
          /\ UNCHANGED <<outcome, runs, seenVars>>
    /\ UNCHANGED <<gatewayVars, keyVars, source>>

(* The preflight's reply arrives.                                          *)
Granted(c) == call[c].at = "preflight" /\ Enforce(c, c, TRUE)

(* The preflight fails: no reply, refused, or a receipt that is not        *)
(* executable.                                                             *)
PreflightFails(c) ==
    /\ call[c].at = "preflight"
    /\ Deny(c)
    /\ UNCHANGED <<gatewayVars, keyVars, seenVars, source>>

(* The caller supplies a receipt that an earlier call obtained.            *)
Reuse(c) ==
    /\ call[c].at = "idle"
    /\ \E same \in BOOLEAN, r \in Calls \ {c} :
          /\ receipts[r] # NoReceipt /\ call[r].at \notin {"idle", "preflight"}
          /\ Enforce(c, r, same)

(* JWKSFetcher.get under its lock: an entry fetched meanwhile is used, a   *)
(* stale one dropped.                                                      *)
AcquireFresh(c) ==
    /\ call[c].at = "lock" /\ lock = NoCall /\ Fresh
    /\ Decide(c, call[c].receipt, call[c].same, cache.keys)
    /\ UNCHANGED <<gatewayVars, keyVars, source>>

AcquireStale(c) ==
    /\ call[c].at = "lock" /\ lock = NoCall /\ ~Fresh
    /\ lock' = c /\ cache' = NoEntry /\ fetchAt' = now /\ served' = {}
    /\ call' = [call EXCEPT ![c].at = "fetch"]
    /\ UNCHANGED <<gatewayVars, seenVars, outcome, runs, source>>

(* The gateway answers with the key it publishes at that moment.           *)
Serve ==
    /\ lock # NoCall /\ served = {}
    /\ served' = {key}
    /\ UNCHANGED <<gatewayVars, cache, lock, fetchAt, seenVars, callVars, source>>

(* Wrong: The entry's age counts from the arrival of the reply. *)
FetchedStampedLate(c) ==
    /\ call[c].at = "fetch" /\ served # {}
    /\ cache' = [keys |-> served, timestamp |-> now]
    /\ lock' = NoCall /\ fetchAt' = 0 /\ served' = {}
    /\ Decide(c, call[c].receipt, call[c].same, served)
    /\ UNCHANGED <<gatewayVars, source>>

(* The entry's age counts from before the request.                         *)
Fetched(c) ==
    /\ call[c].at = "fetch" /\ served # {}
    /\ cache' = [keys |-> served, timestamp |-> fetchAt]
    /\ lock' = NoCall /\ fetchAt' = 0 /\ served' = {}
    /\ Decide(c, call[c].receipt, call[c].same, served)
    /\ UNCHANGED <<gatewayVars, source>>

(* Wrong: A failed fetch leaves the lock held. *)
FetchFailsHoldingLock(c) ==
    /\ call[c].at = "fetch"
    /\ Deny(c)
    /\ UNCHANGED <<gatewayVars, keyVars, seenVars, source>>

(* No reply, an error status, a body that does not parse.                  *)
FetchFails(c) ==
    /\ call[c].at = "fetch"
    /\ lock' = NoCall /\ fetchAt' = 0 /\ served' = {}
    /\ Deny(c)
    /\ UNCHANGED <<gatewayVars, cache, seenVars, source>>

-----------------------------------------------------------------------------
(* The callback and its report.                                            *)

Finish(c) ==
    /\ call[c].at = "running"
    /\ \E r \in {"value", "error"} :
          call' = [call EXCEPT ![c].at = "report", ![c].result = r]
    /\ UNCHANGED <<gatewayVars, keyVars, seenVars, outcome, runs, source>>

(* The postflight is accepted: the caller gets the value, or the           *)
(* callback's own error.                                                   *)
Report(c) ==
    /\ call[c].at = "report"
    /\ reported' = reported \cup {<<c, call[c].result>>}
    /\ End(c, IF call[c].result = "value" THEN "returned" ELSE "raised")
    /\ UNCHANGED <<now, key, retired, receipts, keyVars, seenVars, runs, source>>

(* Wrong: A failed report is swallowed and the value returned. *)
ReportFailsSilently(c) ==
    /\ call[c].at = "report"
    /\ End(c, IF call[c].result = "value" THEN "returned" ELSE "raised")
    /\ UNCHANGED <<gatewayVars, keyVars, seenVars, runs, source>>

(* The postflight fails and raises; whether the gateway recorded it or not *)
(* is read by no one here.                                                 *)
ReportFails(c) ==
    /\ call[c].at = "report"
    /\ End(c, "failed")
    /\ UNCHANGED <<gatewayVars, keyVars, seenVars, runs, source>>

(* The task of the call is cancelled at an await: nothing is reported, a   *)
(* held lock is released.                                                  *)
CancelCall(c) ==
    /\ call[c].at \in {"preflight", "lock", "fetch", "running", "report"}
    /\ End(c, "failed")
    /\ IF lock = c
       THEN lock' = NoCall /\ fetchAt' = 0 /\ served' = {}
       ELSE UNCHANGED <<lock, fetchAt, served>>
    /\ UNCHANGED <<gatewayVars, cache, seenVars, runs, source>>

CallStep(c) ==
    \/ Granted(c) \/ PreflightFails(c)
    \/ AcquireFresh(c) \/ AcquireStale(c) \/ Fetched(c) \/ FetchFails(c)
    \/ Finish(c) \/ Report(c) \/ ReportFails(c)

Next ==
    \/ Tick \/ ReplaceKey \/ Serve
    \/ \E c \in Calls :
          BeginPreflight(c) \/ Reuse(c) \/ CallStep(c) \/ CancelCall(c)

(* Replies and HTTP timeouts arrive, callbacks end, the loop runs what is  *)
(* ready.  Nothing makes a caller call, the clock tick or a task cancelled.*)
Fairness == \A c \in Calls : WF_vars(CallStep(c))

Spec == Init /\ [][Next]_vars
LiveSpec == Spec /\ Fairness

-----------------------------------------------------------------------------
(* A directive starts its action at most once, although calls overlap,     *)
(* wait for keys together and used directives are forgotten with time.     *)
OncePerDirective ==
    source = "cluster_directive" => \A r \in Calls : \A c, d \in runs[r] : c = d

(* Under a signed directive a call starts only the action it was signed    *)
(* for, before its expiry and with its permission, also after waiting for  *)
(* keys; and the key it was signed with was still published less than TTL  *)
(* before the start, however long a fetch took and whoever fetched.        *)
StartIsAuthorised ==
    [][\A r \in Calls : \A c \in runs'[r] \ runs[r] :
          source = "cluster_directive"
             => /\ receipts[r].verdict = "permit" /\ now < receipts[r].exp
                /\ call'[c].same
                /\ receipts[r].key = key \/ now - retired[receipts[r].key] < TTL]_vars

(* What the caller learns of a run agrees with what the gateway was told:  *)
(* a returned value or the callback's error has been reported as such, a   *)
(* call that never ran has no report.                                      *)
ToldAsReported ==
    \A c \in Calls :
        /\ outcome[c] = "returned" => <<c, "value">> \in reported
        /\ outcome[c] = "raised" => <<c, "error">> \in reported
        /\ outcome[c] = "denied" => \A r \in Calls : c \notin runs[r]

(* Every call ends, whoever holds the lock fails or is cancelled.          *)
CallsEnd == \A c \in Calls : (call[c].at # "idle") ~> (call[c].at = "done")
=============================================================================
