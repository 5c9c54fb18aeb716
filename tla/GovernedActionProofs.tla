------------------------ MODULE GovernedActionProofs ------------------------
(***************************************************************************)
(* A signed directive starts its action at most once, for every number of  *)
(* calls, every lifetime and every age of cached keys.  The argument: as   *)
(* long as a used directive can still be decoded, the verifier remembers   *)
(* it with its expiry; when the memory is pruned, the directive has        *)
(* expired and no key makes it decode again.                               *)
(***************************************************************************)
EXTENDS GovernedAction, TLAPS

Clock == now \in 0 .. MaxTime /\ key \in Keys /\ retired \in [Keys -> 0 .. MaxTime]
KeyTypes ==
    /\ cache \in Entry \cup {NoEntry}
    /\ lock \in Calls \cup {NoCall}
    /\ fetchAt \in 0 .. MaxTime
    /\ served \in SUBSET Keys
CallTypes ==
    /\ call \in [Calls -> Call]
    /\ outcome \in [Calls -> {"none", "returned", "raised", "denied", "failed"}]
    /\ runs \in [Calls -> SUBSET Calls]
SeenTypes ==
    /\ seen \in SUBSET Calls
    /\ expiries \in [Calls -> 0 .. MaxTime + Life]
ReceiptTypes == receipts \in [Calls -> Receipt \cup {NoReceipt}]
OtherTypes == source \in Sources /\ reported \subseteq Calls \X {"value", "error"}

(* A receipt that a call relies on, or that something ran under, was       *)
(* issued by a preflight that will not be repeated.                        *)
Standing(r) == receipts[r] # NoReceipt /\ call[r].at # "idle"
Relied ==
    \A c \in Calls :
        /\ call[c].at = "preflight" => Standing(c)
        /\ call[c].at \in {"lock", "fetch"} => Standing(call[c].receipt)
Issued == \A r \in Calls : runs[r] # {} => Standing(r)

(* Only a signed directive makes a call wait for keys; a report has a      *)
(* result.                                                                 *)
Waiting == \A c \in Calls : call[c].at \in {"lock", "fetch"} => source = "cluster_directive"
Reporting == \A c \in Calls : call[c].at = "report" => call[c].result \in {"value", "error"}

(* A directive something ran under has expired or is remembered.           *)
Remembered ==
    source = "cluster_directive" =>
        \A r \in Calls : runs[r] # {} =>
            \/ receipts[r].exp <= now
            \/ r \in seen /\ expiries[r] = receipts[r].exp

CInv == /\ CallTypes /\ SeenTypes /\ Relied /\ Issued
        /\ Waiting /\ Reporting /\ Remembered /\ OncePerDirective
GInv == Clock /\ KeyTypes /\ ReceiptTypes /\ OtherTypes /\ CInv

-----------------------------------------------------------------------------
(* What it means for a call to move on with a receipt.                     *)
LEMMA MoveCall ==
    ASSUME call \in [Calls -> Call], NEW c \in Calls, NEW r \in Calls, NEW same \in BOOLEAN,
           NEW at \in {"lock", "running"},
           call' = [call EXCEPT ![c].at = at, ![c].receipt = r, ![c].same = same]
    PROVE  /\ call' \in [Calls -> Call]
           /\ call'[c].at = at /\ call'[c].receipt = r
           /\ \A x \in Calls \ {c} : call'[x] = call[x]
           /\ \A x \in Calls : call[x].receipt \in Calls
<1>1. call[c] \in Call
  OBVIOUS
<1>2. call'[c] = [at |-> at, receipt |-> r, same |-> same, result |-> call[c].result]
  BY <1>1 DEF Call
<1>3. call'[c] \in Call
  BY <1>1, <1>2 DEF Call
<1>4. \A x \in Calls \ {c} : call'[x] = call[x]
  OBVIOUS
<1>5. \A x \in Calls : call'[x] \in Call
  BY <1>3, <1>4
<1>6. call' = [x \in Calls |-> call'[x]]
  OBVIOUS
<1>7. call' \in [Calls -> Call]
  BY <1>5, <1>6
<1>8. \A x \in Calls : call[x].receipt \in Calls
  BY DEF Call
<1> QED BY <1>2, <1>4, <1>7, <1>8

(* A call that ends, and nothing else, keeps what is said of calls.        *)
LEMMA EndKeeps ==
    ASSUME GInv, NEW c \in Calls,
           NEW how \in {"returned", "raised", "denied", "failed"},
           End(c, how), UNCHANGED <<runs, seen, expiries, receipts, now, source>>
    PROVE  CInv'
<1>1. CallTypes' /\ SeenTypes'
  BY DEF GInv, CInv, CallTypes, SeenTypes, End, Blank, Call
<1>2. \A x \in Calls : call'[x].at = "idle" => call[x].at = "idle"
  BY DEF GInv, CInv, CallTypes, End, Blank, Call
<1>3. \A x \in Calls : call'[x].at \in {"preflight", "lock", "fetch", "report"} =>
              call'[x] = call[x]
  BY DEF GInv, CInv, CallTypes, End, Blank, Call
<1>4. \A x \in Calls : call[x].receipt \in Calls
  BY DEF GInv, CInv, CallTypes, Call
<1>5. Relied' /\ Issued'
  BY <1>2, <1>3, <1>4 DEF GInv, CInv, Relied, Issued, Standing
<1>6. Remembered' /\ OncePerDirective'
  BY DEF GInv, CInv, Remembered, OncePerDirective
<1>7. Waiting' /\ Reporting'
  BY <1>3 DEF GInv, CInv, Waiting, Reporting
<1> QED BY <1>1, <1>5, <1>6, <1>7 DEF CInv

(* Verification of a directive that decodes: what ran under it before is   *)
(* still remembered, so it is refused; what is forgotten has expired.      *)
LEMMA BindKeeps ==
    ASSUME GInv, NEW c \in Calls, NEW r \in Calls, NEW same \in BOOLEAN,
           Standing(r), now < receipts[r].exp, source = "cluster_directive",
           Bind(c, r, same), UNCHANGED <<receipts, now, source>>
    PROVE  CInv'
<1> DEFINE usable == r \notin Pruned /\ same
<1>0. receipts[r] \in Receipt /\ receipts[r].exp \in 0 .. MaxTime + Life
  BY DEF GInv, ReceiptTypes, Standing, Receipt
<1>a. now \in Nat
  BY DEF GInv, Clock
<1>1. /\ seen' = IF usable THEN Pruned \cup {r} ELSE Pruned
      /\ expiries' = [i \in Calls |->
            IF i = r /\ usable /\ receipts[r].verdict # "malformed" THEN receipts[r].exp
            ELSE IF Expired(i) THEN 0 ELSE expiries[i]]
      /\ IF usable /\ receipts[r].verdict = "permit" THEN Start(c, r, same) ELSE Deny(c)
  BY DEF Bind
<1>2. SeenTypes'
  <2>1. Pruned \subseteq Calls
    BY DEF GInv, CInv, SeenTypes, Pruned
  <2>2. seen' \subseteq Calls
    BY <1>1, <2>1
  <2>3. 0 \in 0 .. MaxTime + Life
    BY GovernedActionAssumption
  <2>4. expiries' \in [Calls -> 0 .. MaxTime + Life]
    BY <1>0, <1>1, <2>3 DEF GInv, CInv, SeenTypes
  <2> QED BY <2>2, <2>4 DEF SeenTypes
<1>3. usable => runs[r] = {}
  <2> SUFFICES ASSUME usable, runs[r] # {} PROVE FALSE
    OBVIOUS
  <2>1. r \in seen /\ expiries[r] = receipts[r].exp
    BY <1>0, <1>a DEF GInv, CInv, Remembered
  <2>2. ~Expired(r)
    BY <2>1, <1>0, <1>a DEF Expired
  <2> QED BY <2>1, <2>2 DEF Pruned
<1>4. \A i \in Calls : runs[i] # {} =>
          receipts[i].exp <= now \/ (i \in seen' /\ expiries'[i] = receipts[i].exp)
  <2> SUFFICES ASSUME NEW i \in Calls, runs[i] # {}, ~(receipts[i].exp <= now)
               PROVE  i \in seen' /\ expiries'[i] = receipts[i].exp
    OBVIOUS
  <2>1. i \in seen /\ expiries[i] = receipts[i].exp
    BY DEF GInv, CInv, Remembered
  <2>2. ~Expired(i)
    BY <2>1 DEF Expired
  <2>3. i \in Pruned
    BY <2>1, <2>2 DEF Pruned
  <2> QED BY <1>1, <2>1, <2>2, <2>3
<1>5. CASE usable /\ receipts[r].verdict = "permit"
  <2>1. /\ call' = [call EXCEPT ![c].at = "running", ![c].receipt = r, ![c].same = same]
        /\ runs' = [runs EXCEPT ![r] = @ \cup {c}]
        /\ outcome' = outcome
    BY <1>1, <1>5 DEF Start
  <2>a. call \in [Calls -> Call] /\ call' \in [Calls -> Call]
    BY <2>1, MoveCall DEF GInv, CInv, CallTypes
  <2>b. runs' \in [Calls -> SUBSET Calls]
    BY <2>1 DEF GInv, CInv, CallTypes
  <2>2. CallTypes'
    BY <2>1, <2>a, <2>b DEF GInv, CInv, CallTypes
  <2>3. /\ \A x \in Calls : call'[x].at = "idle" => call[x].at = "idle"
        /\ \A x \in Calls : call'[x].at \in {"preflight", "lock", "fetch", "report"} =>
              call'[x] = call[x]
        /\ \A x \in Calls : call[x].receipt \in Calls
    BY <2>1 DEF GInv, CInv, CallTypes, Call
  <2>4. Relied'
    BY <2>3 DEF GInv, CInv, Relied, Standing
  <2>5. runs'[r] = {c} /\ \A i \in Calls : i # r => runs'[i] = runs[i]
    BY <1>3, <1>5, <2>1 DEF GInv, CInv, CallTypes
  <2>6. Issued'
    BY <2>3, <2>5 DEF GInv, CInv, Issued, Standing
  <2>7. OncePerDirective'
    BY <2>5 DEF GInv, CInv, OncePerDirective
  <2>8. r \in seen' /\ expiries'[r] = receipts[r].exp
    BY <1>1, <1>5
  <2>9. Remembered'
    BY <1>4, <2>5, <2>8 DEF Remembered
  <2>10. Waiting' /\ Reporting'
    BY <2>3 DEF GInv, CInv, Waiting, Reporting
  <2> QED BY <1>2, <2>2, <2>4, <2>6, <2>7, <2>9, <2>10 DEF CInv
<1>6. CASE ~(usable /\ receipts[r].verdict = "permit")
  <2>1. Deny(c)
    BY <1>1, <1>6
  <2>2. CallTypes'
    BY <2>1 DEF GInv, CInv, CallTypes, Call, Deny, End, Blank
  <2>3. /\ \A x \in Calls : call'[x].at = "idle" => call[x].at = "idle"
        /\ \A x \in Calls : call'[x].at \in {"preflight", "lock", "fetch", "report"} =>
              call'[x] = call[x]
        /\ \A x \in Calls : call[x].receipt \in Calls
    BY <2>1 DEF GInv, CInv, CallTypes, Call, Deny, End, Blank
  <2>4. Relied' /\ Issued' /\ OncePerDirective'
    BY <2>1, <2>3 DEF GInv, CInv, Relied, Issued, OncePerDirective, Standing, Deny
  <2>5. Remembered'
    BY <1>4, <2>1 DEF Remembered, Deny
  <2>6. Waiting' /\ Reporting'
    BY <2>3 DEF GInv, CInv, Waiting, Reporting
  <2> QED BY <1>2, <2>2, <2>4, <2>5, <2>6 DEF CInv
<1> QED BY <1>5, <1>6

LEMMA DecideKeeps ==
    ASSUME GInv, NEW c \in Calls, NEW r \in Calls, NEW same \in BOOLEAN, NEW keys,
           Standing(r), source = "cluster_directive",
           Decide(c, r, same, keys), UNCHANGED <<receipts, now, source>>
    PROVE  CInv'
<1>1. CASE Decodes(r, keys)
  BY <1>1, BindKeeps DEF Decide, Decodes
<1>2. CASE ~Decodes(r, keys)
  BY <1>2, EndKeeps DEF Decide, Deny, seenVars
<1> QED BY <1>1, <1>2

(* From a receipt at hand, a call starts, is denied, or waits for keys.    *)
LEMMA EnforceKeeps ==
    ASSUME GInv, NEW c \in Calls, NEW r \in Calls, NEW same \in BOOLEAN,
           Standing(r), Enforce(c, r, same)
    PROVE  CInv'
<1>0. UNCHANGED <<receipts, now, source>>
  BY DEF Enforce, gatewayVars
<1>s. source \in Sources
  BY DEF GInv, OtherTypes
<1>1. CASE source = "local_manifest" /\ Deny(c) /\ UNCHANGED seenVars
  BY <1>0, <1>1, EndKeeps DEF Deny, seenVars
<1>2. CASE source = "local_manifest" /\ Start(c, r, same) /\ UNCHANGED seenVars
  <2>a. call \in [Calls -> Call] /\ call' \in [Calls -> Call]
    BY <1>2, MoveCall DEF GInv, CInv, CallTypes, Start
  <2>b. runs' \in [Calls -> SUBSET Calls]
    BY <1>2 DEF GInv, CInv, CallTypes, Start
  <2>1. CallTypes' /\ SeenTypes'
    BY <1>2, <2>a, <2>b DEF GInv, CInv, CallTypes, SeenTypes, Start, seenVars
  <2>2. /\ \A x \in Calls : call'[x].at = "idle" => call[x].at = "idle"
        /\ \A x \in Calls : call'[x].at \in {"preflight", "lock", "fetch", "report"} =>
              call'[x] = call[x]
        /\ \A x \in Calls : call[x].receipt \in Calls
    BY <1>2 DEF GInv, CInv, CallTypes, Call, Start
  <2>3. \A i \in Calls : i # r => runs'[i] = runs[i]
    BY <1>2 DEF GInv, CInv, CallTypes, Start
  <2>4. Relied' /\ Issued'
    BY <1>0, <2>2, <2>3 DEF GInv, CInv, Relied, Issued, Standing
  <2>5. Remembered' /\ OncePerDirective'
    BY <1>0, <1>2 DEF Remembered, OncePerDirective
  <2>6. Waiting' /\ Reporting'
    BY <1>0, <2>2 DEF GInv, CInv, Waiting, Reporting
  <2> QED BY <2>1, <2>4, <2>5, <2>6 DEF CInv
<1>3. CASE source = "cluster_directive" /\ Decide(c, r, same, cache.keys)
  BY <1>0, <1>3, DecideKeeps
<1>4. CASE /\ source = "cluster_directive"
           /\ call' = [call EXCEPT ![c].at = "lock", ![c].receipt = r, ![c].same = same]
           /\ UNCHANGED <<outcome, runs, seenVars>>
  <2>2. /\ call' \in [Calls -> Call]
        /\ \A x \in Calls \ {c} : call'[x] = call[x]
        /\ call'[c].at = "lock" /\ call'[c].receipt = r
        /\ \A x \in Calls : call[x].receipt \in Calls
    BY <1>4, MoveCall DEF GInv, CInv, CallTypes
  <2>1. CallTypes' /\ SeenTypes'
    BY <1>4, <2>2 DEF GInv, CInv, CallTypes, SeenTypes, seenVars
  <2>a. \A x \in Calls : call'[x].at = "idle" => call[x].at = "idle"
    BY <2>2
  <2>b. \A x \in Calls : Standing(x) => Standing(x)'
    BY <1>0, <2>a DEF Standing
  <2>c. Relied'
    BY <2>2, <2>b DEF GInv, CInv, Relied
  <2>d. Issued'
    BY <1>4, <2>b DEF GInv, CInv, Issued
  <2>3. Relied' /\ Issued'
    BY <2>c, <2>d
  <2>4. Remembered' /\ OncePerDirective'
    BY <1>0, <1>4 DEF GInv, CInv, Remembered, OncePerDirective, seenVars
  <2>5. Waiting' /\ Reporting'
    BY <1>0, <1>4, <2>2 DEF GInv, CInv, Waiting, Reporting
  <2> QED BY <2>1, <2>3, <2>4, <2>5 DEF CInv
<1> QED BY <1>1, <1>2, <1>3, <1>4 DEF Enforce

-----------------------------------------------------------------------------
LEMMA GInit == Init => GInv
<1> SUFFICES ASSUME Init PROVE GInv
  OBVIOUS
<1>0. 0 \in 0 .. MaxTime /\ 0 \in 0 .. MaxTime + Life /\ 1 \in Keys
  BY GovernedActionAssumption DEF Keys
<1>1. Clock /\ KeyTypes /\ ReceiptTypes /\ OtherTypes
  BY <1>0 DEF Init, Clock, KeyTypes, ReceiptTypes, OtherTypes
<1>2. \A c \in Calls : Blank(c, "idle") \in Call /\ Blank(c, "idle").at = "idle"
  BY DEF Blank, Call
<1>3. call \in [Calls -> Call] /\ \A c \in Calls : call[c].at = "idle"
  BY <1>2 DEF Init
<1>4. CallTypes /\ SeenTypes
  BY <1>0, <1>3 DEF Init, CallTypes, SeenTypes
<1>5. Relied /\ Issued /\ Remembered /\ OncePerDirective /\ Waiting /\ Reporting
  BY <1>3 DEF Init, Relied, Issued, Remembered, OncePerDirective, Waiting, Reporting
<1> QED BY <1>1, <1>4, <1>5 DEF GInv, CInv

(* The calls are left alone: time passes, keys change or are served.       *)
LEMMA SurroundingsKeep ==
    ASSUME GInv, Tick \/ ReplaceKey \/ Serve
    PROVE  GInv'
<1>0. UNCHANGED <<receipts, source, reported, call, outcome, runs, seen, expiries>>
  BY DEF Tick, ReplaceKey, Serve, gatewayVars, seenVars, callVars
<1>1. Clock'
  <2>1. CASE Tick
    BY <2>1, GovernedActionAssumption DEF GInv, Clock, Tick
  <2>2. CASE ReplaceKey
    BY <2>2, GovernedActionAssumption DEF GInv, Clock, ReplaceKey, Keys
  <2>3. CASE Serve
    BY <2>3 DEF GInv, Clock, Serve, gatewayVars
  <2> QED BY <2>1, <2>2, <2>3
<1>2. KeyTypes'
  BY DEF GInv, Clock, KeyTypes, Tick, ReplaceKey, Serve, keyVars, Keys
<1>3. ReceiptTypes' /\ OtherTypes'
  BY <1>0 DEF GInv, ReceiptTypes, OtherTypes
<1>4. /\ CallTypes' /\ SeenTypes' /\ Relied' /\ Issued' /\ OncePerDirective'
      /\ Waiting' /\ Reporting'
  BY <1>0 DEF GInv, CInv, CallTypes, SeenTypes, Relied, Issued, Standing, OncePerDirective,
              Waiting, Reporting
<1>5. now \in Nat /\ now' \in Nat /\ now <= now'
  BY <1>1 DEF GInv, Clock, Tick, ReplaceKey, Serve, gatewayVars
<1>6. \A r \in Calls : runs[r] # {} => receipts[r].exp \in Nat
  BY GovernedActionAssumption DEF GInv, CInv, Issued, Standing, ReceiptTypes, Receipt
<1>7. Remembered'
  BY <1>0, <1>5, <1>6 DEF GInv, CInv, Remembered
<1> QED BY <1>1, <1>2, <1>3, <1>4, <1>7 DEF GInv, CInv

LEMMA PreflightKeeps ==
    ASSUME GInv, NEW c \in Calls, BeginPreflight(c)
    PROVE  GInv'
<1>0. UNCHANGED <<now, key, retired, source, reported, cache, lock, fetchAt, served,
                  seen, expiries, outcome, runs>>
  BY DEF BeginPreflight, keyVars, seenVars
<1>1. /\ call' \in [Calls -> Call]
      /\ call'[c].at = "preflight" /\ \A x \in Calls \ {c} : call'[x] = call[x]
  BY DEF BeginPreflight, GInv, CInv, CallTypes, Call
<1>2. PICK verdict \in Verdicts :
          receipts' = [receipts EXCEPT ![c] =
              [key |-> key, exp |-> now + Life, verdict |-> verdict]]
  BY DEF BeginPreflight
<1>3. [key |-> key, exp |-> now + Life, verdict |-> verdict] \in Receipt
  BY GovernedActionAssumption DEF GInv, Clock, Receipt
<1>4. ReceiptTypes'
  BY <1>2, <1>3 DEF GInv, ReceiptTypes
<1>5. CallTypes' /\ SeenTypes'
  BY <1>0, <1>1 DEF GInv, CInv, CallTypes, SeenTypes
<1>6. Clock' /\ KeyTypes' /\ OtherTypes'
  BY <1>0 DEF GInv, Clock, KeyTypes, OtherTypes
<1>7. runs[c] = {}
  BY DEF BeginPreflight, GInv, CInv, Issued, Standing
<1>8. \A x \in Calls : x # c => receipts'[x] = receipts[x]
  BY <1>2 DEF GInv, ReceiptTypes
<1>14. Waiting' /\ Reporting'
  BY <1>0, <1>1 DEF GInv, CInv, Waiting, Reporting
<1>9. Issued' /\ Remembered' /\ OncePerDirective'
  BY <1>0, <1>1, <1>7, <1>8
  DEF GInv, CInv, Issued, Standing, Remembered, OncePerDirective
<1>10. receipts'[c] \in Receipt
  BY <1>2, <1>3 DEF GInv, ReceiptTypes
<1>11. \A x \in Calls : Standing(x) => Standing(x)'
  BY <1>1, <1>8 DEF BeginPreflight, Standing
<1>12. CASE receipts'[c] # NoReceipt
  <2>1. Standing(c)'
    BY <1>1, <1>12 DEF Standing
  <2>2. \A x \in Calls : call[x].receipt \in Calls
    BY DEF GInv, CInv, CallTypes, Call
  <2>3. Relied'
    BY <1>1, <1>11, <2>1, <2>2 DEF GInv, CInv, Relied
  <2> QED BY <1>4, <1>5, <1>6, <1>9, <1>14, <2>3 DEF GInv, CInv
<1>13. receipts'[c] # NoReceipt
  BY <1>10, NoReceiptAssumption
<1> QED BY <1>12, <1>13

(* The steps of one call.                                                  *)
LEMMA CallKeeps ==
    ASSUME GInv, NEW c \in Calls, CallStep(c) \/ CancelCall(c) \/ Reuse(c)
    PROVE  CInv'
<1>0. \A x \in Calls : call[x] \in Call
  BY DEF GInv, CInv, CallTypes
<1>1. CASE Granted(c)
  <2>1. Standing(c)
    BY <1>1 DEF Granted, GInv, CInv, Relied
  <2> QED BY <1>1, <2>1, EnforceKeeps DEF Granted
<1>2. CASE Reuse(c)
  <2>1. PICK same \in BOOLEAN, r \in Calls \ {c} :
            /\ receipts[r] # NoReceipt /\ call[r].at \notin {"idle", "preflight"}
            /\ Enforce(c, r, same)
    BY <1>2 DEF Reuse
  <2> QED BY <2>1, EnforceKeeps DEF Standing
<1>3. CASE AcquireFresh(c) \/ Fetched(c)
  <2>1. PICK keys : Decide(c, call[c].receipt, call[c].same, keys)
    BY <1>3 DEF AcquireFresh, Fetched
  <2>2. call[c].at \in {"lock", "fetch"} /\ UNCHANGED <<receipts, now, source>>
    BY <1>3 DEF AcquireFresh, Fetched, gatewayVars
  <2>3. Standing(call[c].receipt) /\ call[c].receipt \in Calls /\ call[c].same \in BOOLEAN
    BY <1>0, <2>2 DEF GInv, CInv, Relied, Call
  <2>4. CASE source = "cluster_directive"
    BY <2>1, <2>2, <2>3, <2>4, DecideKeeps
  <2> QED BY <2>2, <2>4 DEF GInv, CInv, Waiting
<1>4. CASE AcquireStale(c)
  <2>0. UNCHANGED <<receipts, now, source, seen, expiries, outcome, runs>>
    BY <1>4 DEF AcquireStale, gatewayVars, seenVars
  <2>1. /\ call' \in [Calls -> Call]
        /\ call[c].at = "lock" /\ call'[c].at = "fetch"
        /\ \A x \in Calls : call'[x].receipt = call[x].receipt
        /\ \A x \in Calls \ {c} : call'[x] = call[x]
        /\ \A x \in Calls : call[x].receipt \in Calls
    BY <1>4 DEF AcquireStale, GInv, CInv, CallTypes, Call
  <2>2. \A x \in Calls : Standing(x) => Standing(x)'
    BY <2>0, <2>1 DEF Standing
  <2>3. Relied'
    BY <2>1, <2>2 DEF GInv, CInv, Relied
  <2>4. /\ CallTypes' /\ SeenTypes' /\ Issued' /\ Remembered' /\ OncePerDirective'
        /\ Waiting' /\ Reporting'
    BY <2>0, <2>1, <2>2
    DEF GInv, CInv, CallTypes, SeenTypes, Issued, Remembered, OncePerDirective, Waiting, Reporting
  <2> QED BY <2>3, <2>4 DEF CInv
<1>5. CASE PreflightFails(c) \/ FetchFails(c) \/ Report(c) \/ ReportFails(c) \/ CancelCall(c)
  <2>1. \E how \in {"returned", "raised", "denied", "failed"} : End(c, how)
    BY <1>5 DEF PreflightFails, FetchFails, Report, ReportFails, CancelCall, Deny
  <2>2. UNCHANGED <<runs, seen, expiries, receipts, now, source>>
    BY <1>5 DEF PreflightFails, FetchFails, Report, ReportFails, CancelCall, Deny,
                gatewayVars, seenVars
  <2> QED BY <2>1, <2>2, EndKeeps
<1>6. CASE Finish(c)
  <2>0. UNCHANGED <<receipts, now, source, seen, expiries, outcome, runs>>
    BY <1>6 DEF Finish, gatewayVars, seenVars
  <2>a. PICK r \in {"value", "error"} :
            call' = [call EXCEPT ![c].at = "report", ![c].result = r]
    BY <1>6 DEF Finish
  <2>b. call'[c] = [at |-> "report", receipt |-> call[c].receipt,
                    same |-> call[c].same, result |-> r]
    BY <1>0, <2>a DEF GInv, CInv, CallTypes, Call
  <2>c. call'[c] \in Call
    BY <1>0, <2>b DEF Call
  <2>d. \A x \in Calls \ {c} : call'[x] = call[x]
    BY <2>a DEF GInv, CInv, CallTypes
  <2>e. \A x \in Calls : call'[x] \in Call
    BY <1>0, <2>c, <2>d
  <2>f. call' = [x \in Calls |-> call'[x]]
    BY <2>a DEF GInv, CInv, CallTypes
  <2>1. /\ call' \in [Calls -> Call]
        /\ call'[c].at = "report" /\ call'[c].result \in {"value", "error"}
        /\ \A x \in Calls \ {c} : call'[x] = call[x]
        /\ \A x \in Calls : call[x].receipt \in Calls
    BY <1>0, <2>b, <2>d, <2>e, <2>f DEF Call
  <2>2. \A x \in Calls : Standing(x) => Standing(x)'
    BY <2>0, <2>1 DEF Standing
  <2>3. Relied'
    BY <2>1, <2>2 DEF GInv, CInv, Relied
  <2>4. /\ CallTypes' /\ SeenTypes' /\ Issued' /\ Remembered' /\ OncePerDirective'
        /\ Waiting' /\ Reporting'
    BY <2>0, <2>1, <2>2
    DEF GInv, CInv, CallTypes, SeenTypes, Issued, Remembered, OncePerDirective, Waiting, Reporting
  <2> QED BY <2>3, <2>4 DEF CInv
<1> QED BY <1>1, <1>2, <1>3, <1>4, <1>5, <1>6 DEF CallStep

(* ... and what they leave of the rest.                                    *)
LEMMA CallSurroundings ==
    ASSUME GInv, NEW c \in Calls, CallStep(c) \/ CancelCall(c) \/ Reuse(c)
    PROVE  Clock' /\ KeyTypes' /\ ReceiptTypes' /\ OtherTypes'
<1>1. UNCHANGED <<now, key, retired, receipts, source>>
  <2>1. CASE CancelCall(c) \/ Granted(c) \/ Reuse(c) \/ PreflightFails(c)
    BY <2>1 DEF CancelCall, Granted, Reuse, PreflightFails, Enforce, gatewayVars
  <2>2. CASE AcquireFresh(c) \/ AcquireStale(c) \/ Fetched(c) \/ FetchFails(c)
    BY <2>2 DEF AcquireFresh, AcquireStale, Fetched, FetchFails, gatewayVars
  <2>3. CASE Finish(c) \/ Report(c) \/ ReportFails(c)
    BY <2>3 DEF Finish, Report, ReportFails, gatewayVars
  <2> QED BY <2>1, <2>2, <2>3 DEF CallStep
<1>2. Clock' /\ ReceiptTypes'
  BY <1>1 DEF GInv, Clock, ReceiptTypes
<1>z. 0 \in 0 .. MaxTime
  BY GovernedActionAssumption
<1>3. KeyTypes'
  <2>1. CASE UNCHANGED keyVars
    BY <2>1 DEF GInv, KeyTypes, keyVars
  <2>2. CASE AcquireStale(c)
    BY <2>2 DEF AcquireStale, GInv, Clock, KeyTypes
  <2>3. CASE Fetched(c)
    BY <1>z, <2>3 DEF Fetched, GInv, KeyTypes, Entry
  <2>4. CASE FetchFails(c) \/ CancelCall(c)
    BY <1>z, <2>4 DEF FetchFails, CancelCall, GInv, KeyTypes
  <2>5. CASE Granted(c) \/ Reuse(c) \/ PreflightFails(c) \/ AcquireFresh(c)
    BY <2>1, <2>5 DEF Granted, Reuse, Enforce, PreflightFails, AcquireFresh
  <2>6. CASE Finish(c) \/ Report(c) \/ ReportFails(c)
    BY <2>1, <2>6 DEF Finish, Report, ReportFails
  <2> QED BY <2>2, <2>3, <2>4, <2>5, <2>6 DEF CallStep
<1>4. OtherTypes'
  <2>1. CASE Report(c)
    <3>1. call[c].result \in {"value", "error"}
      BY <2>1 DEF GInv, CInv, Reporting, Report
    <3> QED BY <1>1, <2>1, <3>1 DEF GInv, OtherTypes, Report
  <2>2. CASE UNCHANGED reported
    BY <1>1, <2>2 DEF GInv, OtherTypes
  <2>3. CASE CancelCall(c) \/ Granted(c) \/ Reuse(c) \/ PreflightFails(c)
    BY <2>2, <2>3 DEF CancelCall, Granted, Reuse, PreflightFails, Enforce, gatewayVars
  <2>4. CASE AcquireFresh(c) \/ AcquireStale(c) \/ Fetched(c) \/ FetchFails(c)
    BY <2>2, <2>4 DEF AcquireFresh, AcquireStale, Fetched, FetchFails, gatewayVars
  <2>5. CASE Finish(c) \/ ReportFails(c)
    BY <2>2, <2>5 DEF Finish, ReportFails, gatewayVars
  <2> QED BY <2>1, <2>3, <2>4, <2>5 DEF CallStep
<1> QED BY <1>2, <1>3, <1>4

LEMMA GNext == GInv /\ [Next]_vars => GInv'
<1> SUFFICES ASSUME GInv, [Next]_vars PROVE GInv'
  OBVIOUS
<1>1. CASE Tick \/ ReplaceKey \/ Serve
  BY <1>1, SurroundingsKeep
<1>2. ASSUME NEW c \in Calls, BeginPreflight(c) PROVE GInv'
  BY <1>2, PreflightKeeps
<1>3. ASSUME NEW c \in Calls, CallStep(c) \/ CancelCall(c) \/ Reuse(c) PROVE GInv'
  BY <1>3, CallKeeps, CallSurroundings DEF GInv
<1>4. CASE UNCHANGED vars
  <2>1. UNCHANGED <<now, key, retired, receipts, source, reported, cache, lock, fetchAt,
                    served, call, outcome, runs, seen, expiries>>
    BY <1>4 DEF vars, gatewayVars, keyVars, seenVars, callVars
  <2>2. Clock' /\ KeyTypes' /\ ReceiptTypes' /\ OtherTypes'
    BY <2>1 DEF GInv, Clock, KeyTypes, ReceiptTypes, OtherTypes
  <2>3. CInv'
    BY <2>1 DEF GInv, CInv, CallTypes, SeenTypes, Relied, Issued, Standing, Remembered,
                Waiting, Reporting, OncePerDirective
  <2> QED BY <2>2, <2>3 DEF GInv
<1> QED BY <1>1, <1>2, <1>3, <1>4 DEF Next

(* For any number of calls, any lifetime of directives and any age of      *)
(* keys, a directive starts its action at most once.                       *)
THEOREM StartsOnce == Spec => []OncePerDirective
<1>1. GInv => OncePerDirective
  BY DEF GInv, CInv
<1> QED BY <1>1, GInit, GNext, PTL DEF Spec

(* The state keeps its types.                                              *)
THEOREM GovernedTypes == Spec => []TypeOK
<1>1. GInv => TypeOK
  BY DEF GInv, CInv, Clock, KeyTypes, ReceiptTypes, OtherTypes, CallTypes, SeenTypes, TypeOK
<1> QED BY <1>1, GInit, GNext, PTL DEF Spec

-----------------------------------------------------------------------------
(* What callers are told.  Until a call ends its caller has learnt         *)
(* nothing, and until it starts nothing ran for it: a denial can therefore *)
(* only follow a call that never ran.                                      *)
Unended == \A c \in Calls : call[c].at # "done" => outcome[c] = "none"
Unstarted ==
    \A c \in Calls :
        call[c].at \in {"idle", "preflight", "lock", "fetch"} => \A r \in Calls : c \notin runs[r]
TInv == Unended /\ Unstarted /\ ToldAsReported

LEMMA TInit == Init => TInv
BY DEF Init, TInv, Unended, Unstarted, ToldAsReported, Blank

(* A call ends with an outcome its reports and its runs agree with.        *)
LEMMA EndTold ==
    ASSUME CallTypes, TInv, NEW c \in Calls, NEW how, End(c, how),
           runs' = runs, reported \subseteq reported',
           how = "returned" => <<c, "value">> \in reported',
           how = "raised" => <<c, "error">> \in reported',
           how = "denied" => call[c].at \in {"idle", "preflight", "lock", "fetch"}
    PROVE  TInv'
<1>1. /\ call'[c].at = "done" /\ outcome'[c] = how
      /\ \A x \in Calls \ {c} : call'[x] = call[x] /\ outcome'[x] = outcome[x]
  BY DEF End, Blank, CallTypes
<1>2. Unended' /\ Unstarted'
  BY <1>1 DEF TInv, Unended, Unstarted
<1>3. ToldAsReported'
  <2> SUFFICES ASSUME NEW x \in Calls
               PROVE  /\ outcome'[x] = "returned" => <<x, "value">> \in reported'
                      /\ outcome'[x] = "raised" => <<x, "error">> \in reported'
                      /\ outcome'[x] = "denied" => \A r \in Calls : x \notin runs'[r]
    BY DEF ToldAsReported
  <2>1. CASE x = c
    BY <1>1, <2>1 DEF TInv, Unstarted
  <2>2. CASE x # c
    BY <1>1, <2>2 DEF TInv, ToldAsReported
  <2> QED BY <2>1, <2>2
<1> QED BY <1>2, <1>3 DEF TInv

(* A call moves on without an end.                                         *)
LEMMA MoveTold ==
    ASSUME TInv, NEW c \in Calls, outcome' = outcome, reported' = reported,
           call[c].at # "done",
           \A x \in Calls \ {c} : call'[x] = call[x] /\ \A r \in Calls : x \in runs'[r] => x \in runs[r],
           \/ runs' = runs /\ call[c].at \in {"idle", "preflight", "lock", "fetch"}
           \/ call'[c].at \notin {"idle", "preflight", "lock", "fetch"}
    PROVE  TInv'
<1>1. outcome[c] = "none"
  BY DEF TInv, Unended
<1>2. Unended'
  BY <1>1 DEF TInv, Unended
<1>3. Unstarted'
  BY DEF TInv, Unstarted
<1>4. ToldAsReported'
  BY <1>1 DEF TInv, ToldAsReported
<1> QED BY <1>2, <1>3, <1>4 DEF TInv

LEMMA StartTold ==
    ASSUME CallTypes, TInv, NEW c \in Calls, NEW r \in Calls, NEW same \in BOOLEAN,
           Start(c, r, same), reported' = reported, call[c].at # "done"
    PROVE  TInv'
<1>1. call'[c].at = "running" /\ \A x \in Calls \ {c} : call'[x] = call[x]
  BY MoveCall DEF CallTypes, Start
<1>2. \A x \in Calls \ {c} : \A q \in Calls : x \in runs'[q] => x \in runs[q]
  BY DEF CallTypes, Start
<1> QED BY <1>1, <1>2, MoveTold DEF Start

LEMMA DecideTold ==
    ASSUME CallTypes, TInv, NEW c \in Calls, NEW r \in Calls, NEW same \in BOOLEAN, NEW keys,
           Decide(c, r, same, keys), reported' = reported,
           call[c].at \in {"idle", "preflight", "lock", "fetch"}
    PROVE  TInv'
<1>1. CASE Start(c, r, same)
  BY <1>1, StartTold
<1>2. CASE Deny(c)
  BY <1>2, EndTold DEF Deny
<1> QED BY <1>1, <1>2, Zenon DEF Decide, Bind

LEMMA EnforceTold ==
    ASSUME CallTypes, TInv, NEW c \in Calls, NEW r \in Calls, NEW same \in BOOLEAN,
           Enforce(c, r, same), call[c].at \in {"idle", "preflight"}
    PROVE  TInv'
<1>0. reported' = reported
  BY DEF Enforce, gatewayVars
<1>1. CASE Start(c, r, same)
  BY <1>0, <1>1, StartTold
<1>2. CASE Deny(c)
  BY <1>0, <1>2, EndTold DEF Deny
<1>3. CASE Decide(c, r, same, cache.keys)
  BY <1>0, <1>3, DecideTold
<1>4. CASE /\ call' = [call EXCEPT ![c].at = "lock", ![c].receipt = r, ![c].same = same]
           /\ UNCHANGED <<outcome, runs, seenVars>>
  <2>1. \A x \in Calls \ {c} : call'[x] = call[x]
    BY <1>4, MoveCall DEF CallTypes
  <2> QED BY <1>0, <1>4, <2>1, MoveTold
<1> QED BY <1>1, <1>2, <1>3, <1>4 DEF Enforce

LEMMA TNext == GInv /\ TInv /\ [Next]_vars => TInv'
<1> SUFFICES ASSUME GInv, TInv, [Next]_vars PROVE TInv'
  OBVIOUS
<1>0. CallTypes /\ \A c \in Calls : call[c] \in Call
  BY DEF GInv, CInv, CallTypes
<1>1. CASE UNCHANGED <<call, outcome, runs, reported>>
  BY <1>1 DEF TInv, Unended, Unstarted, ToldAsReported
<1>2. CASE Tick \/ ReplaceKey \/ Serve \/ UNCHANGED vars
  BY <1>1, <1>2 DEF Tick, ReplaceKey, Serve, vars, callVars, gatewayVars
<1>3. ASSUME NEW c \in Calls, BeginPreflight(c) PROVE TInv'
  <2>1. \A x \in Calls \ {c} : call'[x] = call[x]
    BY <1>0, <1>3 DEF BeginPreflight, CallTypes
  <2>2. UNCHANGED <<outcome, runs, reported>> /\ call[c].at = "idle"
    BY <1>3 DEF BeginPreflight
  <2> QED BY <2>1, <2>2, MoveTold
<1>4. ASSUME NEW c \in Calls, Granted(c) PROVE TInv'
  BY <1>0, <1>4, EnforceTold DEF Granted
<1>5. ASSUME NEW c \in Calls, Reuse(c) PROVE TInv'
  BY <1>0, <1>5, EnforceTold DEF Reuse
<1>6. ASSUME NEW c \in Calls, AcquireFresh(c) \/ Fetched(c) PROVE TInv'
  <2>1. \E keys : Decide(c, call[c].receipt, call[c].same, keys)
    BY <1>6 DEF AcquireFresh, Fetched
  <2>2. call[c].at \in {"lock", "fetch"} /\ reported' = reported
    BY <1>6 DEF AcquireFresh, Fetched, gatewayVars
  <2>3. call[c].receipt \in Calls /\ call[c].same \in BOOLEAN
    BY <1>0 DEF Call
  <2> QED BY <1>0, <2>1, <2>2, <2>3, DecideTold
<1>7. ASSUME NEW c \in Calls, AcquireStale(c) \/ Finish(c) PROVE TInv'
  <2>1. \A x \in Calls \ {c} : call'[x] = call[x]
    BY <1>0, <1>7 DEF AcquireStale, Finish, CallTypes
  <2>2. UNCHANGED <<outcome, runs, reported>> /\ call[c].at # "done"
    BY <1>7 DEF AcquireStale, Finish, gatewayVars
  <2>3. call[c].at = "lock" \/ call'[c].at = "report"
    BY <1>0, <1>7 DEF AcquireStale, Finish, CallTypes, Call
  <2> QED BY <2>1, <2>2, <2>3, MoveTold
<1>8. ASSUME NEW c \in Calls, PreflightFails(c) \/ FetchFails(c) PROVE TInv'
  BY <1>0, <1>8, EndTold DEF PreflightFails, FetchFails, Deny, gatewayVars
<1>9. ASSUME NEW c \in Calls, Report(c) PROVE TInv'
  <2>1. call[c].result \in {"value", "error"}
    BY <1>9 DEF GInv, CInv, Reporting, Report
  <2> QED BY <1>0, <1>9, <2>1, EndTold DEF Report
<1>10. ASSUME NEW c \in Calls, ReportFails(c) \/ CancelCall(c) PROVE TInv'
  BY <1>0, <1>10, EndTold DEF ReportFails, CancelCall, gatewayVars
<1> QED BY <1>2, <1>3, <1>4, <1>5, <1>6, <1>7, <1>8, <1>9, <1>10 DEF Next, CallStep

(* What a caller learns of its run agrees with what the gateway was told,  *)
(* for any number of overlapping, failing and cancelled calls.             *)
THEOREM CallersToldAsReported == Spec => []ToldAsReported
<1>1. TInv => ToldAsReported
  BY DEF TInv
<1> QED BY <1>1, GInit, GNext, TInit, TNext, PTL DEF Spec

-----------------------------------------------------------------------------
(* Under which key a call starts.  A key at hand, cached or just served,   *)
(* was the published one at the time its entry is stamped with, or later;  *)
(* and a fetch is over before that time is FetchLimit ticks ago.           *)
Since(k, t) == k = key \/ (k < key /\ t <= retired[k])
Holder == \A c \in Calls : call[c].at = "fetch" => lock = c
CacheAge ==
    cache # NoEntry =>
        cache.timestamp <= now /\ \A k \in cache.keys : Since(k, cache.timestamp)
FetchAge ==
    lock # NoCall =>
        /\ fetchAt <= now /\ now - fetchAt <= FetchLimit
        /\ \A k \in served : Since(k, fetchAt)
AInv == Holder /\ CacheAge /\ FetchAge

LEMMA AInit == Init => AInv
BY DEF Init, AInv, Holder, CacheAge, FetchAge, Blank

LEMMA AHolder == GInv /\ AInv /\ [Next]_vars => Holder'
<1> SUFFICES ASSUME GInv, AInv, [Next]_vars PROVE Holder'
  OBVIOUS
<1> USE DEF AInv, Holder
<1>0. CallTypes /\ \A c \in Calls : call[c] \in Call
  BY DEF GInv, CInv, CallTypes
<1>n. NoCall \notin Calls
  BY GovernedActionAssumption
<1>1. CASE UNCHANGED <<call, lock>>
  BY <1>1
<1>2. CASE Tick \/ ReplaceKey \/ Serve \/ UNCHANGED vars
  BY <1>1, <1>2 DEF Tick, ReplaceKey, Serve, vars, callVars, keyVars
(* A call other than a new holder leaves the lock, or holds it no more.    *)
<1>3. ASSUME NEW c \in Calls, \A x \in Calls \ {c} : call'[x] = call[x],
             call'[c].at # "fetch", lock' = lock \/ (lock = c /\ lock' = NoCall)
      PROVE  Holder'
  BY <1>3
<1>4. ASSUME NEW c \in Calls, NEW how, End(c, how), lock' = lock \/ (lock = c /\ lock' = NoCall)
      PROVE  Holder'
  BY <1>0, <1>3, <1>4 DEF End, Blank, CallTypes
<1>5. ASSUME NEW c \in Calls, NEW r \in Calls, NEW same \in BOOLEAN, Start(c, r, same),
             lock' = lock \/ (lock = c /\ lock' = NoCall)
      PROVE  Holder'
  <2>1. call'[c].at = "running" /\ \A x \in Calls \ {c} : call'[x] = call[x]
    BY <1>0, <1>5, MoveCall DEF CallTypes, Start
  <2> QED BY <1>3, <1>5, <2>1
<1>6. ASSUME NEW c \in Calls, NEW r \in Calls, NEW same \in BOOLEAN, NEW keys,
             Decide(c, r, same, keys), lock' = lock \/ (lock = c /\ lock' = NoCall)
      PROVE  Holder'
  <2>1. Start(c, r, same) \/ Deny(c)
    BY <1>6, Zenon DEF Decide, Bind
  <2> QED BY <1>4, <1>5, <1>6, <2>1 DEF Deny
<1>7. ASSUME NEW c \in Calls, NEW r \in Calls, NEW same \in BOOLEAN, Enforce(c, r, same)
      PROVE  Holder'
  <2>0. lock' = lock
    BY <1>7 DEF Enforce, keyVars
  <2>1. CASE Start(c, r, same) \/ Deny(c) \/ Decide(c, r, same, cache.keys)
    BY <1>4, <1>5, <1>6, <2>0, <2>1 DEF Deny
  <2>2. CASE call' = [call EXCEPT ![c].at = "lock", ![c].receipt = r, ![c].same = same]
    <3>1. call'[c].at = "lock" /\ \A x \in Calls \ {c} : call'[x] = call[x]
      BY <1>0, <2>2, MoveCall DEF CallTypes
    <3> QED BY <1>3, <2>0, <3>1
  <2> QED BY <1>7, <2>1, <2>2 DEF Enforce
<1>8. ASSUME NEW c \in Calls, Granted(c) \/ Reuse(c) PROVE Holder'
  BY <1>7, <1>8 DEF Granted, Reuse
<1>9. ASSUME NEW c \in Calls, AcquireFresh(c) \/ Fetched(c) PROVE Holder'
  <2>1. \E keys : Decide(c, call[c].receipt, call[c].same, keys)
    BY <1>9 DEF AcquireFresh, Fetched
  <2>2. lock' = lock \/ (lock = c /\ lock' = NoCall)
    BY <1>9 DEF AcquireFresh, Fetched, keyVars
  <2>3. call[c].receipt \in Calls /\ call[c].same \in BOOLEAN
    BY <1>0 DEF Call
  <2> QED BY <1>6, <2>1, <2>2, <2>3
<1>10. ASSUME NEW c \in Calls, AcquireStale(c) PROVE Holder'
  <2>1. lock = NoCall /\ lock' = c /\ \A x \in Calls \ {c} : call'[x] = call[x]
    BY <1>0, <1>10 DEF AcquireStale, CallTypes
  <2> QED BY <1>n, <2>1
<1>11. ASSUME NEW c \in Calls, BeginPreflight(c) \/ Finish(c) PROVE Holder'
  <2>1. lock' = lock /\ \A x \in Calls \ {c} : call'[x] = call[x]
    BY <1>0, <1>11 DEF BeginPreflight, Finish, CallTypes, keyVars
  <2>2. call'[c].at # "fetch"
    BY <1>0, <1>11 DEF BeginPreflight, Finish, CallTypes, Call
  <2> QED BY <1>3, <2>1, <2>2
<1>12. ASSUME NEW c \in Calls,
              PreflightFails(c) \/ FetchFails(c) \/ Report(c) \/ ReportFails(c) \/ CancelCall(c)
       PROVE  Holder'
  <2>1. \E how : End(c, how)
    BY <1>12 DEF PreflightFails, FetchFails, Report, ReportFails, CancelCall, Deny
  <2>2. lock' = lock \/ (lock = c /\ lock' = NoCall)
    BY <1>12 DEF PreflightFails, FetchFails, Report, ReportFails, CancelCall, keyVars
  <2> QED BY <1>4, <2>1, <2>2
<1> QED BY <1>2, <1>8, <1>9, <1>10, <1>11, <1>12 DEF Next, CallStep

(* Time passes and the gateway replaces its key: what was published at     *)
(* some time or later still was.                                           *)
LEMMA SinceKeeps ==
    ASSUME Clock, [Next]_vars, NEW k \in Keys, NEW t \in 0 .. MaxTime, t <= now, Since(k, t)
    PROVE  Since(k, t)'
<1>1. CASE ReplaceKey
  <2>1. retired' = [retired EXCEPT ![key] = now] /\ key' = key + 1
    BY <1>1 DEF ReplaceKey
  <2>2. key \in Nat /\ k \in Nat
    BY DEF Clock, Keys
  <2>3. retired'[key] = now /\ (k # key => retired'[k] = retired[k])
    BY <2>1 DEF Clock
  <2> QED BY <2>1, <2>2, <2>3 DEF Since
<1>2. CASE UNCHANGED <<key, retired>>
  BY <1>2 DEF Since
<1>3. CASE Tick \/ Serve \/ UNCHANGED vars
  BY <1>2, <1>3 DEF Tick, Serve, vars, gatewayVars
<1>4. ASSUME NEW c \in Calls, BeginPreflight(c) \/ Reuse(c) \/ CallStep(c) \/ CancelCall(c)
      PROVE  UNCHANGED <<key, retired>>
  <2>1. CASE BeginPreflight(c) \/ CancelCall(c) \/ Granted(c) \/ Reuse(c) \/ PreflightFails(c)
    BY <2>1 DEF BeginPreflight, CancelCall, Granted, Reuse, PreflightFails, Enforce, gatewayVars
  <2>2. CASE AcquireFresh(c) \/ AcquireStale(c) \/ Fetched(c) \/ FetchFails(c)
    BY <2>2 DEF AcquireFresh, AcquireStale, Fetched, FetchFails, gatewayVars
  <2>3. CASE Finish(c) \/ Report(c) \/ ReportFails(c)
    BY <2>3 DEF Finish, Report, ReportFails, gatewayVars
  <2> QED BY <1>4, <2>1, <2>2, <2>3 DEF CallStep
<1> QED BY <1>1, <1>2, <1>3, <1>4 DEF Next

LEMMA ANext == GInv /\ AInv /\ [Next]_vars => AInv'
<1> SUFFICES ASSUME GInv, AInv, [Next]_vars PROVE CacheAge' /\ FetchAge'
  BY AHolder DEF AInv
<1>0. /\ Clock /\ now \in Nat /\ fetchAt \in 0 .. MaxTime /\ served \in SUBSET Keys
      /\ cache # NoEntry => cache.keys \in SUBSET Keys /\ cache.timestamp \in 0 .. MaxTime
      /\ FetchLimit \in Nat
  BY GovernedActionAssumption DEF GInv, Clock, KeyTypes, Entry
<1>1. \A k \in Keys, t \in 0 .. MaxTime : t <= now /\ Since(k, t) => Since(k, t)'
  BY <1>0, SinceKeeps
<1>3. ASSUME cache' = cache, now' = now PROVE CacheAge'
  BY <1>0, <1>1, <1>3 DEF AInv, CacheAge
<1>4. ASSUME now' = now, UNCHANGED <<lock, fetchAt, served>> PROVE FetchAge'
  BY <1>0, <1>1, <1>4 DEF AInv, FetchAge
<1>5. ASSUME UNCHANGED keyVars, now' = now PROVE CacheAge' /\ FetchAge'
  BY <1>3, <1>4, <1>5 DEF keyVars
<1>6. CASE Tick
  <2>1. now' = now + 1 /\ UNCHANGED <<cache, lock, fetchAt, served>>
    BY <1>6 DEF Tick, keyVars
  <2>2. lock # NoCall => now - fetchAt < FetchLimit
    BY <1>6 DEF Tick
  <2>3. CacheAge'
    BY <1>0, <1>1, <2>1 DEF AInv, CacheAge
  <2>4. FetchAge'
    BY <1>0, <1>1, <2>1, <2>2 DEF AInv, FetchAge
  <2> QED BY <2>3, <2>4
<1>7. CASE ReplaceKey \/ UNCHANGED vars
  BY <1>5, <1>7 DEF ReplaceKey, vars, gatewayVars
<1>8. CASE Serve
  <2>1. UNCHANGED <<now, key, cache, lock, fetchAt>> /\ served' = {key}
    BY <1>8 DEF Serve, gatewayVars
  <2>2. CacheAge'
    BY <1>3, <2>1
  <2>3. FetchAge'
    BY <2>1 DEF AInv, FetchAge, Since
  <2> QED BY <2>2, <2>3
<1>9. ASSUME NEW c \in Calls, AcquireStale(c) PROVE CacheAge' /\ FetchAge'
  BY <1>0, <1>9 DEF AcquireStale, CacheAge, FetchAge, gatewayVars
<1>10. ASSUME NEW c \in Calls, Fetched(c) PROVE CacheAge' /\ FetchAge'
  <2>1. lock # NoCall
    BY <1>10, GovernedActionAssumption DEF Fetched, AInv, Holder
  <2>2. /\ cache' = [keys |-> served, timestamp |-> fetchAt] /\ lock' = NoCall
        /\ now' = now
    BY <1>10 DEF Fetched, gatewayVars
  <2>3. fetchAt <= now /\ \A k \in served : Since(k, fetchAt)
    BY <2>1 DEF AInv, FetchAge
  <2>4. /\ cache'.keys = served /\ cache'.timestamp = fetchAt
    BY <2>2
  <2>5. CacheAge'
    BY <1>0, <1>1, <2>2, <2>3, <2>4 DEF CacheAge
  <2> QED BY <2>2, <2>5 DEF FetchAge
<1>11. ASSUME NEW c \in Calls, FetchFails(c) PROVE CacheAge' /\ FetchAge'
  <2>1. lock' = NoCall /\ cache' = cache /\ now' = now
    BY <1>11 DEF FetchFails, gatewayVars
  <2> QED BY <1>3, <2>1 DEF FetchAge
<1>12. ASSUME NEW c \in Calls, CancelCall(c) PROVE CacheAge' /\ FetchAge'
  <2>1. /\ cache' = cache /\ now' = now
        /\ lock' = NoCall \/ UNCHANGED <<lock, fetchAt, served>>
    BY <1>12 DEF CancelCall, gatewayVars
  <2> QED BY <1>3, <1>4, <2>1 DEF FetchAge
<1>13. ASSUME NEW c \in Calls,
              \/ BeginPreflight(c) \/ Granted(c) \/ Reuse(c) \/ PreflightFails(c) \/ AcquireFresh(c)
              \/ Finish(c) \/ Report(c) \/ ReportFails(c)
       PROVE  CacheAge' /\ FetchAge'
  <2>1. UNCHANGED keyVars /\ now' = now
    BY <1>13 DEF BeginPreflight, Granted, Reuse, PreflightFails, AcquireFresh, Enforce,
                 Finish, Report, ReportFails, gatewayVars
  <2> QED BY <1>5, <2>1
<1> QED BY <1>6, <1>7, <1>8, <1>9, <1>10, <1>11, <1>12, <1>13 DEF Next, CallStep

-----------------------------------------------------------------------------
(* A call c may start under receipt r: the body of StartIsAuthorised.      *)
Authorised(r, c) ==
    source = "cluster_directive"
      => /\ receipts[r].verdict = "permit" /\ now < receipts[r].exp
         /\ call'[c].same
         /\ receipts[r].key = key \/ now - retired[receipts[r].key] < TTL
AllAuthorised == \A r \in Calls : \A c \in runs'[r] \ runs[r] : Authorised(r, c)

(* Keys no older than TTL may decide a directive.                          *)
LEMMA DecideAuthorises ==
    ASSUME GInv, NEW c \in Calls, NEW r \in Calls, NEW same \in BOOLEAN, NEW keys \in SUBSET Keys,
           NEW t \in 0 .. MaxTime, now - t < TTL, \A k \in keys : Since(k, t),
           Decide(c, r, same, keys)
    PROVE  AllAuthorised
<1>1. CASE runs' = runs
  BY <1>1 DEF AllAuthorised
<1>2. CASE Deny(c)
  BY <1>1, <1>2 DEF Deny
<1>3. CASE Start(c, r, same) /\ Decodes(r, keys) /\ receipts[r].verdict = "permit" /\ same
  <2>1. \A q \in Calls : runs'[q] \ runs[q] \subseteq IF q = r THEN {c} ELSE {}
    BY <1>3 DEF Start, GInv, CInv, CallTypes
  <2>2. call'[c].same = same
    BY <1>3 DEF Start, GInv, CInv, CallTypes, Call
  <2>3. receipts[r].key \in keys /\ now < receipts[r].exp
    BY <1>3 DEF Decodes
  <2>4. receipts[r].key = key \/ now - retired[receipts[r].key] < TTL
    BY <2>3, GovernedActionAssumption DEF Since, GInv, Clock
  <2>5. Authorised(r, c)
    BY <1>3, <2>2, <2>3, <2>4 DEF Authorised
  <2> QED BY <2>1, <2>5 DEF AllAuthorised
<1>4. Decodes(r, keys) => /\ r \notin Pruned /\ same /\ receipts[r].verdict = "permit"
                             /\ Start(c, r, same)
                          \/ Deny(c)
  BY Zenon DEF Decide, Bind
<1> QED BY <1>2, <1>3, <1>4 DEF Decide

LEMMA FreshAuthorises ==
    ASSUME GInv, AInv, NEW c \in Calls, NEW r \in Calls, NEW same \in BOOLEAN,
           Fresh, Decide(c, r, same, cache.keys)
    PROVE  AllAuthorised
<1>1. cache.keys \in SUBSET Keys /\ cache.timestamp \in 0 .. MaxTime
  BY DEF Fresh, GInv, KeyTypes, Entry
<1>2. now - cache.timestamp < TTL /\ \A k \in cache.keys : Since(k, cache.timestamp)
  BY DEF Fresh, AInv, CacheAge
<1> QED BY <1>1, <1>2, DecideAuthorises

LEMMA EnforceAuthorises ==
    ASSUME GInv, AInv, NEW c \in Calls, NEW r \in Calls, NEW same \in BOOLEAN,
           Enforce(c, r, same)
    PROVE  AllAuthorised
<1>1. CASE source = "local_manifest"
  BY <1>1 DEF AllAuthorised, Authorised
<1>2. CASE runs' = runs
  BY <1>2 DEF AllAuthorised
<1>3. CASE Fresh /\ Decide(c, r, same, cache.keys)
  BY <1>3, FreshAuthorises
<1> QED BY <1>1, <1>2, <1>3 DEF Enforce

LEMMA StepAuthorises ==
    GInv /\ AInv /\ [Next]_vars => AllAuthorised
<1> SUFFICES ASSUME GInv, AInv, [Next]_vars PROVE AllAuthorised
  OBVIOUS
<1>0. \A c \in Calls : call[c].receipt \in Calls /\ call[c].same \in BOOLEAN
  BY DEF GInv, CInv, CallTypes, Call
<1>1. CASE runs' = runs
  BY <1>1 DEF AllAuthorised
<1>2. CASE Tick \/ ReplaceKey \/ Serve \/ UNCHANGED vars
  BY <1>1, <1>2 DEF Tick, ReplaceKey, Serve, vars, callVars
<1>3. ASSUME NEW c \in Calls, Granted(c) \/ Reuse(c) PROVE AllAuthorised
  BY <1>3, EnforceAuthorises DEF Granted, Reuse
<1>4. ASSUME NEW c \in Calls, AcquireFresh(c) PROVE AllAuthorised
  BY <1>0, <1>4, FreshAuthorises DEF AcquireFresh
<1>5. ASSUME NEW c \in Calls, Fetched(c) PROVE AllAuthorised
  <2>1. lock # NoCall
    BY <1>5, GovernedActionAssumption DEF Fetched, AInv, Holder
  <2>2. fetchAt \in 0 .. MaxTime /\ served \in SUBSET Keys /\ now \in Nat
    BY DEF GInv, KeyTypes, Clock
  <2>3. now - fetchAt < TTL /\ \A k \in served : Since(k, fetchAt)
    BY <2>1, <2>2, GovernedActionAssumption DEF AInv, FetchAge
  <2> QED BY <1>0, <1>5, <2>2, <2>3, DecideAuthorises DEF Fetched
<1>6. ASSUME NEW c \in Calls,
             \/ BeginPreflight(c) \/ PreflightFails(c) \/ AcquireStale(c) \/ FetchFails(c)
             \/ Finish(c) \/ Report(c) \/ ReportFails(c) \/ CancelCall(c)
      PROVE  AllAuthorised
  <2>1. runs' = runs
    BY <1>6 DEF BeginPreflight, PreflightFails, AcquireStale, FetchFails, Finish, Report,
                ReportFails, CancelCall, Deny
  <2> QED BY <1>1, <2>1
<1> QED BY <1>2, <1>3, <1>4, <1>5, <1>6 DEF Next, CallStep

(* Whoever fetched the keys and however long it took: a call starts only   *)
(* what was signed for it, in time, under a key that was published less    *)
(* than TTL ago.                                                           *)
THEOREM StartsAreAuthorised == Spec => StartIsAuthorised
<1>1. GInv /\ AInv /\ [Next]_vars =>
          [\A r \in Calls : \A c \in runs'[r] \ runs[r] :
             source = "cluster_directive"
               => /\ receipts[r].verdict = "permit" /\ now < receipts[r].exp
                  /\ call'[c].same
                  /\ receipts[r].key = key \/ now - retired[receipts[r].key] < TTL]_vars
  BY StepAuthorises, Zenon DEF AllAuthorised, Authorised
<1> QED BY <1>1, GInit, GNext, AInit, ANext, PTL DEF Spec, StartIsAuthorised
=============================================================================
