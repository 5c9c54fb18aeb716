------------------------- MODULE DeviceRuntimeProofs -------------------------
(***************************************************************************)
(* Proofs about the device's preference and its certificate for any number *)
(* of renewals, changes and crashes.                                       *)
(***************************************************************************)
EXTENDS DeviceRuntime, TLAPS

Types ==
  /\ store \in Preference /\ lease \in BOOLEAN /\ changes \in Nat
  /\ reporter \in [pc : {"idle", "sync", "check", "upload"}, state : Preference]
  /\ runtime \in {"down", "resuming", "up"} /\ permitted \in BOOLEAN

\* A tick holds the lease of the preference's file, so that what it loaded is
\* what the file still says; only an enabled preference goes beyond "sync".
TickIsCurrent ==
  reporter.pc # "idle" =>
    /\ lease /\ runtime = "up" /\ store.present /\ reporter.state.present
    /\ reporter.state.enabled = store.enabled
    /\ reporter.pc \in {"check", "upload"} => store.enabled

\* Nothing is on file before the preference was created.
Created == ~store.present => ~store.enabled /\ ~store.pending /\ ~store.fresh

DInv == Types /\ TickIsCurrent /\ Created

\* The steps that touch neither the preference nor the tick.
Elsewhere == UNCHANGED <<store, lease, reporter, runtime>> /\ changes' \in Nat /\ permitted' \in BOOLEAN

LEMMA ElsewhereInv == ASSUME DInv, Elsewhere PROVE DInv'
  BY DEF DInv, Elsewhere, Types, TickIsCurrent, Created

LEMMA RenewalIsElsewhere == ASSUME DInv, RenewalStep PROVE Elsewhere
  BY DEF RenewalStep, RenewalTick, Reconcile, Settle, Confirm, Prepare, Begin, Poll, Stage, Activate, Select,
         ReadReceipt, Replace, Unrenewed, Elsewhere, DInv, Types

LEMMA TickEndsInv ==
  ASSUME DInv, TickEnds, store' \in Preference, UNCHANGED <<changes, permitted>>,
         runtime' \in {"down", "resuming", "up"}, Created'
  PROVE  DInv'
<1>1. reporter'.pc = "idle" /\ reporter' \in [pc : {"idle", "sync", "check", "upload"}, state : Preference]
  BY DEF TickEnds, NotLoaded, Preference
<1> QED
  BY <1>1 DEF DInv, Types, TickIsCurrent, TickEnds

\* A preference that differs from another in one mark only.
LEMMA Marked ==
  ASSUME NEW s \in Preference, NEW b \in BOOLEAN
  PROVE  /\ [s EXCEPT !.pending = b] \in Preference /\ [s EXCEPT !.pending = b].enabled = s.enabled
         /\ [s EXCEPT !.pending = b].present = s.present
         /\ [s EXCEPT !.fresh = b] \in Preference /\ [s EXCEPT !.fresh = b].enabled = s.enabled
         /\ [s EXCEPT !.fresh = b].present = s.present
<1>1. s = [enabled |-> s.enabled, pending |-> s.pending, fresh |-> s.fresh, present |-> s.present]
      /\ s.enabled \in BOOLEAN /\ s.pending \in BOOLEAN /\ s.fresh \in BOOLEAN /\ s.present \in BOOLEAN
  BY DEF Preference
<1>2. /\ [s EXCEPT !.pending = b] =
           [enabled |-> s.enabled, pending |-> b, fresh |-> s.fresh, present |-> s.present]
      /\ [s EXCEPT !.fresh = b] =
           [enabled |-> s.enabled, pending |-> s.pending, fresh |-> b, present |-> s.present]
  BY DEF Preference
<1> QED
  BY <1>1, <1>2 DEF Preference

\* The tick goes on with what it loaded.
LEMMA GoesOn ==
  ASSUME DInv, NEW pc \in {"sync", "check", "upload"}, NEW s \in Preference,
         reporter' = [pc |-> pc, state |-> s], store' \in Preference, lease', runtime' = "up", UNCHANGED <<changes, permitted>>,
         s.present, store'.present, s.enabled = store'.enabled, pc # "sync" => s.enabled
  PROVE  DInv'
<1>1. reporter'.pc = pc /\ reporter'.state = s
  BY SMT
<1>2. lease' \in BOOLEAN /\ reporter' \in [pc : {"idle", "sync", "check", "upload"}, state : Preference]
  <2>1. lease' \in BOOLEAN
    BY DEF DInv, Types
  <2> QED
    BY <2>1
<1>3. Types'
  BY <1>2 DEF DInv, Types
<1>4. TickIsCurrent'
  BY <1>1, Zenon DEF TickIsCurrent
<1> QED
  BY <1>3, <1>4 DEF DInv, Created

LEMMA ProceedInv ==
  ASSUME DInv, NEW s \in Preference, s.present, Proceed(s), store' = s, lease, runtime = "up",
         UNCHANGED <<runtime, changes, permitted>>
  PROVE  DInv'
<1>1. CASE s.enabled /\ ~s.fresh
  <2>1. reporter' = [pc |-> "check", state |-> s] /\ lease' = lease
    BY <1>1 DEF Proceed
  <2> QED
    BY <1>1, <2>1, GoesOn
<1>2. CASE ~(s.enabled /\ ~s.fresh)
  BY <1>2, TickEndsInv DEF Proceed, DInv, Types, Created
<1> QED
  BY <1>1, <1>2

LEMMA NextInv == DInv /\ [Next]_vars => DInv'
<1> SUFFICES ASSUME DInv, [Next]_vars PROVE DInv'
  OBVIOUS
<1>1. ASSUME NEW v \in BOOLEAN, SetEnabled(v) PROVE DInv'
  BY <1>1 DEF SetEnabled, server, DInv, Types, TickIsCurrent, Created, Preference
<1>2. CASE Administrate \/ \E g \in Generations : Issue(g)
  <2>1. permitted' \in BOOLEAN
    <3>1. CASE Administrate
      BY <3>1, Zenon DEF Administrate
    <3>2. CASE \E g \in Generations : Issue(g)
      BY <3>2 DEF Issue, DInv, Types
    <3> QED
      BY <1>2, <3>1, <3>2
  <2> QED
    BY <1>2, <2>1, ElsewhereInv DEF Administrate, Issue, files, Elsewhere, DInv, Types
<1>3. CASE Ages
  BY <1>3 DEF Ages, server, DInv, Types, TickIsCurrent, Created, Preference
<1>4. CASE ReporterStep
  <2>1. CASE ReporterTick
    <3>1. /\ runtime' = "up" /\ lease' = TRUE /\ store' = store /\ UNCHANGED <<changes, permitted>>
          /\ store \in Preference
      BY <2>1 DEF ReporterTick, server, DInv, Types
    <3>2. CASE store.pending /\ reporter' = [pc |-> "sync", state |-> store]
      BY <3>1, <3>2, GoesOn DEF DInv, Created
    <3>3. CASE store.enabled /\ reporter' = [pc |-> "check", state |-> store]
      BY <3>1, <3>3, GoesOn DEF DInv, Created
    <3> QED
      BY <2>1, <3>2, <3>3 DEF ReporterTick
  <2>2. CASE ReporterSyncs
    <3> DEFINE synced == [reporter.state EXCEPT !.pending = FALSE]
    <3>1. reporter.pc = "sync" /\ lease /\ runtime = "up" /\ reporter.state \in Preference /\ reporter.state.present
      BY <2>2 DEF ReporterSyncs, DInv, Types, TickIsCurrent
    <3>2. synced \in Preference /\ synced.present
      BY <3>1, Marked
    <3>3. UNCHANGED <<runtime, changes, permitted>>
          /\ ((store' = synced /\ Proceed(synced)) \/ (TickEnds /\ UNCHANGED store))
      BY <2>2 DEF ReporterSyncs
    <3>4. CASE store' = synced /\ Proceed(synced)
      <4> HIDE DEF synced
      <4> QED
        BY <3>1, <3>2, <3>3, <3>4, ProceedInv
    <3>5. CASE TickEnds /\ UNCHANGED store
      BY <3>3, <3>5, TickEndsInv DEF DInv, Types, Created
    <3> QED
      BY <3>3, <3>4, <3>5
  <2>3. CASE ReporterChecks
    <3>1. CASE TickEnds
      BY <2>3, <3>1, TickEndsInv DEF ReporterChecks, server, DInv, Types, Created
    <3>2. CASE Step("upload") /\ UNCHANGED lease
      <4>1. reporter' = [reporter EXCEPT !.pc = "upload"] /\ reporter.pc = "check"
            /\ UNCHANGED <<lease, store, runtime, changes, permitted>>
        BY <2>3, <3>2 DEF ReporterChecks, Step, server
      <4>2. reporter'.pc = "upload" /\ reporter'.state = reporter.state
            /\ reporter' \in [pc : {"idle", "sync", "check", "upload"}, state : Preference]
        BY <4>1 DEF DInv, Types
      <4> QED
        BY <4>1, <4>2 DEF DInv, Types, TickIsCurrent, Created
    <3> QED
      BY <2>3, <3>1, <3>2 DEF ReporterChecks
  <2>4. CASE ReporterUploads
    <3> DEFINE fresh == [reporter.state EXCEPT !.fresh = TRUE]
    <3>1. reporter.state \in Preference /\ reporter.state.present
      BY <2>4 DEF ReporterUploads, DInv, Types, TickIsCurrent
    <3>2. fresh \in Preference /\ fresh.present
      BY <3>1, Marked
    <3>3. store' \in {store, fresh}
      BY <2>4 DEF ReporterUploads
    <3>4. store' \in Preference /\ Created'
      BY <3>2, <3>3 DEF DInv, Types, Created
    <3> QED
      BY <2>4, <3>4, TickEndsInv DEF ReporterUploads, DInv, Types
  <2> QED
    BY <1>4, <2>1, <2>2, <2>3, <2>4 DEF ReporterStep
<1>5. CASE RenewalStep
  BY <1>5, RenewalIsElsewhere, ElsewhereInv
<1>6. CASE Start
  BY <1>6 DEF Start, server, DInv, Types, TickIsCurrent, Created
<1>7. CASE Resume
  <2>1. /\ runtime' \in {"down", "up"} /\ UNCHANGED <<reporter, lease, changes, permitted>>
        /\ reporter.pc = "idle"
    BY <1>7 DEF Resume, server, DInv, TickIsCurrent
  <2>2. store' \in Preference /\ Created'
    <3>1. CASE store' = store
      BY <3>1 DEF DInv, Types, Created
    <3>2. CASE store' = [enabled |-> permitted, pending |-> FALSE, fresh |-> FALSE, present |-> TRUE]
      BY <3>2 DEF DInv, Types, Created, Preference
    <3> QED
      BY <1>7, <3>1, <3>2 DEF Resume
  <2> QED
    BY <2>1, <2>2 DEF DInv, Types, TickIsCurrent
<1>8. CASE Down
  BY <1>8, TickEndsInv DEF Down, DInv, Types, Created, server
<1>9. CASE ReporterWaits \/ UNCHANGED vars
  BY <1>9, ElsewhereInv DEF ReporterWaits, vars, files, server, Elsewhere, DInv, Types
<1> QED
  BY <1>1, <1>2, <1>3, <1>4, <1>5, <1>6, <1>7, <1>8, <1>9 DEF Next

LEMMA InitInv == Init => DInv
<1> SUFFICES ASSUME Init PROVE DInv
  OBVIOUS
<1>1. NotLoaded \in Preference
  BY DEF NotLoaded, Preference
<1>2. Types
  BY <1>1 DEF Init, Types
<1> QED
  BY <1>2 DEF Init, DInv, TickIsCurrent, Created, NotLoaded

LEMMA Invariant == Spec => []DInv
  BY InitInv, NextInv, PTL DEF Spec

\* Once the preference is on file only the user changes it, and discovery data
\* reaches the server only while the preference on file permits it, for any
\* number of renewals, changes and crashes.
THEOREM DeviceChoiceStands == Spec => ChoiceStands
<1> DEFINE A == /\ (store.present /\ store'.enabled # store.enabled) => changes' = changes + 1
                /\ (data' /\ ~data) => store.enabled
<1>1. DInv /\ [Next]_vars => [A]_vars
  <2> SUFFICES ASSUME DInv, Next PROVE A
    OBVIOUS
  <2>1. ASSUME NEW v \in BOOLEAN, SetEnabled(v) PROVE A
    BY <2>1 DEF SetEnabled, server
  <2>2. CASE Administrate \/ (\E g \in Generations : Issue(g)) \/ RenewalStep \/ Start \/ Down \/ ReporterWaits
    <3>1. UNCHANGED <<store, data>>
      BY <2>2 DEF Administrate, Issue, files, server, RenewalStep, RenewalTick, Reconcile, Settle, Confirm, Prepare, Begin,
         Poll, Stage, Activate, Select, ReadReceipt, Replace, Unrenewed, Start, Down, ReporterWaits, vars
    <3> QED
      BY <3>1
  <2>3. CASE Ages
    <3>1. store' = [store EXCEPT !.fresh = FALSE] /\ UNCHANGED data /\ store \in Preference
      BY <2>3 DEF Ages, server, DInv, Types
    <3> QED
      BY <3>1, Marked
  <2>4. CASE ReporterTick \/ ReporterChecks
    BY <2>4 DEF ReporterTick, ReporterChecks, server
  <2>5. CASE ReporterSyncs
    <3>1. store' \in {store, [reporter.state EXCEPT !.pending = FALSE]}
      BY <2>5 DEF ReporterSyncs
    <3>3. data' => data
      BY <2>5, Zenon DEF ReporterSyncs
    <3>2. reporter.state \in Preference /\ reporter.state.enabled = store.enabled
      BY <2>5 DEF ReporterSyncs, DInv, Types, TickIsCurrent
    <3> QED
      BY <3>1, <3>2, <3>3, Marked
  <2>6. CASE ReporterUploads
    <3>1. store' \in {store, [reporter.state EXCEPT !.fresh = TRUE]}
      BY <2>6 DEF ReporterUploads
    <3>2. reporter.state \in Preference /\ reporter.state.enabled = store.enabled /\ store.enabled
      BY <2>6 DEF ReporterUploads, DInv, Types, TickIsCurrent
    <3> QED
      BY <3>1, <3>2, Marked
  <2>7. CASE Resume
    BY <2>7 DEF Resume, server
  <2> QED
    BY <2>1, <2>2, <2>3, <2>4, <2>5, <2>6, <2>7 DEF Next, ReporterStep
<1> QED
  BY <1>1, Invariant, PTL DEF Spec, ChoiceStands

-----------------------------------------------------------------------------
(* The certificate *)

\* What the server accepts is on the device's disk: the certificate that is
\* selected, or the candidate beside it, which the next start or tick finds.
AcceptedIsStored == accepted = Leaf \/ (accepted = Leaf + 1 /\ Leaf \in cand)

\* The generations before the last one are selected, without a gap.
Selected(n) == chosen = {g \in Generations : g < n}
Chain == \E n \in Generations : Selected(n)

\* The server has activated the candidate of the last generation or none, and
\* knows of no operation beyond it.
ServerInv ==
  /\ accepted = IF operation[Leaf] = "activated" THEN Leaf + 1 ELSE Leaf
  /\ operation[Leaf] = "activated" => Leaf \in cand
  /\ \A g \in cand : operation[g] # "none"
  /\ \A g \in Generations : g > Leaf => operation[g] = "none"

\* The phases that deal with the proposal of the client's own generation.
Renewing == {"prepare", "begin", "poll", "stage", "activate", "select", "receipt"}

\* The client uses the last generation, or the one before it when the last was
\* selected in this process; nobody has asked for a successor of it then.
LoopInv ==
  /\ runtime = "up" <=> cur # None
  /\ runtime # "up" => At("idle")
  /\ cur # None => cur = Leaf \/ (cur + 1 = Leaf /\ operation[Leaf] = "none")
  /\ renewal \notin {"idle", "stopped"} => cur < MaxRenewals
  /\ renewal \in Renewing => cur = Leaf
  /\ At("replace") => cur + 1 = Leaf
  /\ At("stage") => operation[cur] # "none"
  /\ At("activate") => cur \in cand
  /\ At("select") => operation[cur] = "activated"

Phases == {"idle", "reconcile", "settle", "confirm", "prepare", "begin", "poll", "stage", "activate",
           "select", "receipt", "replace", "stopped"}
Answers == {"none", "pending", "issued", "failed", "activated"}
CertTypes ==
  /\ renewal \in Phases /\ cur \in Generations \cup {None} /\ cand \subseteq Generations
  /\ operation \in [Generations -> Answers] /\ accepted \in Generations
Bounds == data \in BOOLEAN /\ changes \in 0..MaxChanges /\ crashes \in 0..MaxCrashes

CInv == CertTypes /\ Chain /\ ServerInv /\ LoopInv
RInv == DInv /\ CInv /\ Bounds

LeafOf(S) == CHOOSE g \in Generations : g \notin S /\ \A k \in Generations : k < g => k \in S

LEMMA LeafIs ==
  ASSUME NEW n \in Generations
  PROVE  LeafOf({g \in Generations : g < n}) = n
<1> DEFINE S == {g \in Generations : g < n}
           P(g) == g \notin S /\ \A k \in Generations : k < g => k \in S
<1>1. P(n)
  BY DEF Generations
<1>2. ASSUME NEW g \in Generations, P(g) PROVE g = n
  <2>1. ~(g < n) /\ ~(n < g)
    BY <1>1, <1>2
  <2> QED
    BY <2>1, DeviceConstants DEF Generations
<1>3. LeafOf(S) = CHOOSE g \in Generations : P(g)
  BY DEF LeafOf
<1> HIDE DEF P
<1> QED
  BY <1>1, <1>2, <1>3

LEMMA LeafType == Chain => Leaf \in Generations /\ Leaf \in Int /\ Selected(Leaf)
<1> SUFFICES ASSUME Chain PROVE Leaf \in Generations /\ Leaf \in Int /\ Selected(Leaf)
  OBVIOUS
<1>1. PICK n \in Generations : Selected(n)
  BY DEF Chain
<1>2. Leaf = LeafOf(chosen)
  BY DEF Leaf, LeafOf
<1>3. Leaf = n
  BY <1>1, <1>2, LeafIs DEF Selected
<1> QED
  BY <1>1, <1>3 DEF Generations

LEMMA LeafStays ==
  ASSUME Chain, UNCHANGED chosen
  PROVE  Chain' /\ Leaf' = Leaf
  BY DEF Chain, Selected, Leaf

LEMMA LeafMoves ==
  ASSUME Chain, Leaf < MaxRenewals, chosen' = chosen \cup {Leaf}
  PROVE  Chain' /\ Leaf' = Leaf + 1
<1>1. PICK n : n = Leaf /\ n \in Generations /\ n \in Int /\ Selected(n)
  BY LeafType
<1>2. n + 1 \in Generations
  BY <1>1, DeviceConstants DEF Generations
<1>3. chosen' = {g \in Generations : g < n + 1}
  BY <1>1, DeviceConstants DEF Selected, Generations
<1>4. Leaf' = LeafOf(chosen')
  BY DEF Leaf, LeafOf
<1>5. Leaf' = n + 1
  BY <1>2, <1>3, <1>4, LeafIs
<1>6. Chain'
  BY <1>2, <1>3 DEF Chain, Selected
<1> QED
  BY <1>1, <1>5, <1>6

\* What has nothing to do with the certificate.
LEMMA CertificateStays ==
  ASSUME CInv, UNCHANGED <<runtime, renewal, cur, cand, chosen, operation, accepted>>
  PROVE  CInv'
<1>1. Chain' /\ Leaf' = Leaf
  BY LeafStays DEF CInv
<1> QED
  BY <1>1 DEF CInv, CertTypes, ServerInv, LoopInv, At

\* A step of the renewal that selects nothing and asks nothing of the server.
LEMMA RenewalGoes ==
  ASSUME CInv, UNCHANGED <<runtime, cur, cand, chosen, operation, accepted>>,
         runtime = "up", NEW pc \in Phases, Renew(pc),
         pc \notin {"idle", "stopped"} => cur < MaxRenewals,
         pc \in Renewing => cur = Leaf,
         pc = "stage" => operation[cur] # "none",
         pc \notin {"replace", "activate", "select"}
  PROVE  CInv'
<1>1. Chain' /\ Leaf' = Leaf
  BY LeafStays DEF CInv
<1> QED
  BY <1>1 DEF CInv, CertTypes, ServerInv, LoopInv, At, Renew

\* The candidate of the last generation is selected once the server accepts it.
LEMMA SelectsLeaf ==
  ASSUME CertTypes, Chain, ServerInv, operation[Leaf] = "activated", chosen' = chosen \cup {Leaf},
         UNCHANGED <<cand, operation, accepted>>
  PROVE  /\ Chain' /\ ServerInv' /\ Leaf' = Leaf + 1 /\ operation'[Leaf'] = "none"
         /\ Leaf < MaxRenewals
<1> DEFINE l == Leaf
<1>1. l \in Int /\ l \in Generations /\ accepted = l + 1
  BY LeafType DEF ServerInv
<1>2. l < MaxRenewals /\ l + 1 \in Generations
  BY <1>1, DeviceConstants DEF CertTypes, Generations
<1>3. Chain' /\ Leaf' = l + 1
  BY <1>2, LeafMoves
<1>4. operation[l + 1] = "none"
  BY <1>1, <1>2 DEF ServerInv
<1>5. \A g \in Generations : g > l + 1 => operation[g] = "none"
  BY <1>1 DEF ServerInv, Generations
<1>6. ServerInv'
  <2> HIDE DEF l
  <2> QED
    BY <1>1, <1>3, <1>4, <1>5 DEF ServerInv
<1> QED
  BY <1>2, <1>3, <1>4, <1>6

LEMMA CurrentGeneration ==
  ASSUME CInv, ~At("idle"), ~At("stopped")
  PROVE  /\ runtime = "up" /\ cur \in Generations /\ cur \in Int /\ cur < MaxRenewals
         /\ Leaf \in Generations /\ Leaf \in Int /\ cur + 1 \in Generations
<1>1. runtime = "up" /\ cur \in Generations /\ cur < MaxRenewals
  BY DEF CInv, CertTypes, LoopInv, At, None
<1> QED
  BY <1>1, LeafType, DeviceConstants DEF CInv, Generations

LEMMA RenewalTickInv == ASSUME CInv, RenewalTick PROVE CInv'
<1>1. /\ cur \in Generations /\ cur < MaxRenewals /\ runtime = "up" /\ At("idle")
      /\ UNCHANGED <<runtime, cur, cand, chosen, operation, accepted>>
  BY DEF RenewalTick, Unrenewed, CInv, LoopInv, CertTypes
<1>2. \E pc \in {"reconcile", "settle"} : Renew(pc)
  BY DEF RenewalTick
<1> QED
  BY <1>1, <1>2, RenewalGoes DEF Renewing, Phases

\* The last generation's candidate is selected in the running service.
LEMMA SelectedHere ==
  ASSUME CInv, UNCHANGED <<runtime, cur, cand, operation, accepted>>, ~At("idle"), ~At("stopped"),
         operation[Leaf] = "activated", chosen' = chosen \cup {Leaf},
         Renew("settle") \/ Renew("replace")
  PROVE  CInv'
<1>1. /\ runtime = "up" /\ cur \in Generations /\ cur < MaxRenewals /\ cur = Leaf
      /\ Leaf \in Int
  BY CurrentGeneration DEF CInv, LoopInv, None, Generations
<1>2. Chain' /\ ServerInv' /\ Leaf' = Leaf + 1 /\ operation'[Leaf'] = "none"
  BY SelectsLeaf DEF CInv
<1>3. cur' + 1 = Leaf' /\ runtime' = "up" /\ cur' # None /\ cur' < MaxRenewals
  BY <1>1, <1>2 DEF Generations, None
<1>4. LoopInv'
  BY <1>2, <1>3 DEF LoopInv, At, Renew, Renewing
<1>5. CertTypes'
  BY DEF CInv, CertTypes, Renew, Phases
<1> QED
  BY <1>2, <1>4, <1>5 DEF CInv

LEMMA ReconcileInv == ASSUME CInv, Reconcile PROVE CInv'
<1>1. At("reconcile") /\ UNCHANGED <<runtime, cur, cand, operation, accepted>>
  BY DEF Reconcile, Unrenewed
<1>2. runtime = "up" /\ cur < MaxRenewals
  BY <1>1, CurrentGeneration DEF At
<1>3. CASE Receipt /\ chosen' = chosen \cup {Leaf} /\ Renew("settle")
  BY <1>1, <1>3, SelectedHere DEF Receipt, At
<1>4. ASSUME NEW pc \in {"settle", "idle"}, Renew(pc), UNCHANGED chosen PROVE CInv'
  BY <1>1, <1>2, <1>4, RenewalGoes DEF Renewing, Phases
<1> QED
  BY <1>3, <1>4 DEF Reconcile

\* A selection newer than the client is taken over, or not.
LEMMA SettleInv == ASSUME CInv, Settle \/ Confirm PROVE CInv'
<1>1. ~At("idle") /\ ~At("stopped") /\ UNCHANGED <<runtime, cand, chosen, operation, accepted>>
  BY DEF Settle, Confirm, Unrenewed, At
<1>2. /\ runtime = "up" /\ cur < MaxRenewals /\ cur \in Generations /\ Leaf \in Generations
      /\ Chain' /\ Leaf' = Leaf
  BY <1>1, CurrentGeneration, LeafStays DEF CInv
<1>3. CASE Settle
  <2>1. PICK pc \in {"confirm", "prepare"} : Renew(pc) /\ (pc = "prepare" => cur = Leaf)
    BY <1>3 DEF Settle
  <2>2. UNCHANGED cur
    BY <1>3 DEF Settle
  <2> QED
    BY <1>1, <1>2, <2>1, <2>2, RenewalGoes DEF Renewing, Phases
<1>4. CASE Confirm /\ cur' = Leaf
  <2>1. Renew("idle") /\ cur' \in Generations /\ cur' # None /\ cur' = Leaf'
    BY <1>2, <1>4 DEF Confirm, None, Generations
  <2>2. CertTypes'
    BY <1>1, <2>1 DEF CInv, CertTypes, Renew, Phases
  <2>3. ServerInv'
    BY <1>1, <1>2 DEF CInv, ServerInv
  <2>4. LoopInv'
    BY <1>1, <1>2, <2>1 DEF CInv, LoopInv, At, Renew, Renewing
  <2> QED
    BY <1>2, <2>2, <2>3, <2>4 DEF CInv
<1>5. CASE Confirm /\ UNCHANGED cur
  <2>1. Renew("idle")
    BY <1>5 DEF Confirm
  <2> QED
    BY <1>1, <1>2, <1>5, <2>1, RenewalGoes DEF Renewing, Phases
<1> QED
  BY <1>3, <1>4, <1>5 DEF Confirm

LEMMA PollInv == ASSUME CInv, Prepare \/ Poll PROVE CInv'
<1>1. ~At("idle") /\ ~At("stopped") /\ UNCHANGED <<runtime, cur, cand, chosen, operation, accepted>>
      /\ cur = Leaf
  BY DEF Prepare, Poll, Unrenewed, At, CInv, LoopInv, Renewing
<1>2. runtime = "up" /\ cur < MaxRenewals
  BY <1>1, CurrentGeneration
<1>3. PICK pc \in {"begin", "idle", "stage", "stopped"} :
        Renew(pc) /\ (pc = "stage" => operation[cur] = "issued")
  BY DEF Prepare, Poll
<1> QED
  BY <1>1, <1>2, <1>3, RenewalGoes DEF Renewing, Phases

\* The operation of one generation moves on, and its candidate is there when it
\* was activated; the client and the selections stay.
LEMMA OperationMoves ==
  ASSUME CInv, UNCHANGED <<cand, chosen>>, NEW g \in Generations, NEW a \in Answers \ {"none", "activated"},
         operation' = [operation EXCEPT ![g] = a], operation[g] # "activated", g <= Leaf,
         accepted' = accepted
  PROVE  Chain' /\ Leaf' = Leaf /\ ServerInv'
<1>1. Chain' /\ Leaf' = Leaf /\ Leaf \in Generations /\ Leaf \in Int /\ g \in Int
  BY LeafStays, LeafType DEF CInv, Generations
<1>2. \A k \in Generations : operation'[k] = IF k = g THEN a ELSE operation[k]
  BY DEF CInv, CertTypes
<1>3. \A k \in Generations : operation'[k] = "activated" <=> operation[k] = "activated"
  BY <1>2
<1>4. \A k \in Generations : k > Leaf => operation'[k] = "none"
  BY <1>1, <1>2 DEF CInv, ServerInv
<1>5. \A k \in cand' : operation'[k] # "none"
  BY <1>2 DEF CInv, ServerInv, CertTypes
<1> QED
  BY <1>1, <1>3, <1>4, <1>5 DEF CInv, ServerInv

LEMMA BeginInv == ASSUME CInv, Begin PROVE CInv'
<1>1. /\ At("begin") /\ UNCHANGED <<runtime, cur, cand, chosen, accepted>>
      /\ runtime = "up" /\ cur < MaxRenewals /\ cur = Leaf /\ cur \in Generations
  BY CurrentGeneration DEF Begin, Unrenewed, At, CInv, LoopInv, Renewing
<1>2. PICK pc \in {"idle", "stopped", "poll"} : Renew(pc)
  BY DEF Begin
<1>3. CASE UNCHANGED operation
  BY <1>1, <1>2, <1>3, RenewalGoes DEF Renewing, Phases
<1>4. CASE operation' # operation
  <2>1. operation[cur] = "none" /\ operation' = [operation EXCEPT ![cur] = "pending"]
    <3>1. operation' = [operation EXCEPT ![cur] = IF operation[cur] = "none" THEN "pending" ELSE operation[cur]]
      BY <1>4 DEF Begin
    <3>2. operation[cur] = "none"
      BY <1>4, <3>1 DEF CInv, CertTypes
    <3> QED
      BY <3>1, <3>2
  <2>2. Chain' /\ Leaf' = Leaf /\ ServerInv'
    <3>1. cur <= Leaf /\ "pending" \in Answers \ {"none", "activated"}
      BY <1>1 DEF Generations, Answers
    <3> QED
      BY <1>1, <2>1, <3>1, OperationMoves
  <2>3. CertTypes'
    BY <1>1, <1>2, <2>1 DEF CInv, CertTypes, Renew, Phases, Answers
  <2>4. LoopInv'
    BY <1>1, <1>2, <2>2 DEF CInv, LoopInv, At, Renew, Renewing
  <2> QED
    BY <2>2, <2>3, <2>4 DEF CInv
<1> QED
  BY <1>3, <1>4

LEMMA IssueInv == ASSUME CInv, NEW g \in Generations, Issue(g) PROVE CInv'
<1>1. PICK a \in {"issued", "failed"} : operation' = [operation EXCEPT ![g] = a]
  BY DEF Issue
<1>2. operation[g] = "pending" /\ UNCHANGED <<runtime, renewal, cur, cand, chosen, accepted>>
  BY DEF Issue, files
<1>3. g <= Leaf /\ a \in Answers \ {"none", "activated"} /\ Leaf \in Int
  BY <1>2, LeafType DEF CInv, ServerInv, Generations, Answers
<1>4. Chain' /\ Leaf' = Leaf /\ ServerInv'
  BY <1>1, <1>2, <1>3, OperationMoves
<1>5. \A k \in Generations : operation'[k] = IF k = g THEN a ELSE operation[k]
  BY <1>1 DEF CInv, CertTypes
<1>6. CertTypes'
  BY <1>1, <1>2, <1>3 DEF CInv, CertTypes
<1>7. LoopInv'
  <2>1. cur # None => cur = Leaf \/ (cur + 1 = Leaf /\ operation'[Leaf] = "none")
    BY <1>2, <1>5, LeafType DEF CInv, LoopInv
  <2>2. At("stage") => operation'[cur] # "none"
    BY <1>2, <1>5, CurrentGeneration DEF CInv, LoopInv, At
  <2>3. At("select") => operation'[cur] = "activated"
    BY <1>2, <1>5, CurrentGeneration DEF CInv, LoopInv, At
  <2> QED
    BY <1>2, <1>4, <2>1, <2>2, <2>3 DEF CInv, LoopInv, At
<1> QED
  BY <1>4, <1>6, <1>7 DEF CInv

LEMMA StageInv == ASSUME CInv, Stage PROVE CInv'
<1>1. /\ At("stage") /\ UNCHANGED <<runtime, cur, chosen, operation, accepted>>
      /\ runtime = "up" /\ cur < MaxRenewals /\ cur = Leaf /\ cur \in Generations /\ operation[cur] # "none"
  BY CurrentGeneration DEF Stage, Unrenewed, At, CInv, LoopInv, Renewing
<1>2. CASE UNCHANGED cand /\ Renew("idle")
  BY <1>1, <1>2, RenewalGoes DEF Renewing, Phases
<1>3. CASE cand' = cand \cup {cur} /\ Renew("activate")
  <2>1. Chain' /\ Leaf' = Leaf
    BY <1>1, LeafStays DEF CInv
  <2>2. CertTypes'
    BY <1>1, <1>3 DEF CInv, CertTypes, Renew, Phases
  <2>3. ServerInv'
    BY <1>1, <1>3, <2>1 DEF CInv, ServerInv
  <2>4. LoopInv'
    BY <1>1, <1>3, <2>1 DEF CInv, LoopInv, At, Renew, Renewing
  <2> QED
    BY <2>1, <2>2, <2>3, <2>4 DEF CInv
<1> QED
  BY <1>2, <1>3 DEF Stage

\* The server activates the candidate that is on disk, of the last generation.
LEMMA ActivateInv == ASSUME CInv, Activate PROVE CInv'
<1>1. /\ At("activate") /\ UNCHANGED <<runtime, cur, cand, chosen>>
      /\ runtime = "up" /\ cur < MaxRenewals /\ cur = Leaf /\ cur \in Generations /\ cur + 1 \in Generations
      /\ cur \in cand /\ cur \in Int
  BY CurrentGeneration DEF Activate, Unrenewed, At, CInv, LoopInv, Renewing
<1>2. CASE Renew("receipt") /\ UNCHANGED <<operation, accepted>>
  BY <1>1, <1>2, RenewalGoes DEF Renewing, Phases
<1>3. CASE /\ operation' = [operation EXCEPT ![cur] = "activated"] /\ accepted' = cur + 1
           /\ Renew("select") \/ Renew("receipt")
  <2>1. Chain' /\ Leaf' = Leaf
    BY <1>1, LeafStays DEF CInv
  <2>2. \A k \in Generations : operation'[k] = IF k = cur THEN "activated" ELSE operation[k]
    BY <1>3 DEF CInv, CertTypes
  <2>3. CertTypes'
    BY <1>1, <1>3 DEF CInv, CertTypes, Renew, Phases, Answers
  <2>4. ServerInv'
    <3>1. accepted' = Leaf' + 1 /\ operation'[Leaf'] = "activated" /\ Leaf' \in cand'
      BY <1>1, <1>3, <2>1, <2>2
    <3>2. \A k \in cand' : operation'[k] # "none"
      BY <1>1, <2>2 DEF CInv, ServerInv, CertTypes
    <3>3. \A k \in Generations : k > Leaf' => operation'[k] = "none"
      BY <1>1, <2>1, <2>2 DEF CInv, ServerInv
    <3> QED
      BY <3>1, <3>2, <3>3 DEF ServerInv
  <2>5. LoopInv'
    BY <1>1, <1>3, <2>1, <2>2 DEF CInv, LoopInv, At, Renew, Renewing
  <2> QED
    BY <2>1, <2>3, <2>4, <2>5 DEF CInv
<1> QED
  BY <1>2, <1>3 DEF Activate

LEMMA SelectInv == ASSUME CInv, Select \/ ReadReceipt PROVE CInv'
<1>1. /\ ~At("idle") /\ ~At("stopped") /\ UNCHANGED <<runtime, cur, cand, operation, accepted>>
      /\ cur = Leaf
  BY DEF Select, ReadReceipt, Unrenewed, At, CInv, LoopInv, Renewing
<1>2. runtime = "up" /\ cur < MaxRenewals
  BY <1>1, CurrentGeneration
<1>3. CASE chosen' = chosen \cup {cur} /\ Renew("replace")
  <2>1. operation[Leaf] = "activated"
    BY <1>1, <1>3 DEF Select, ReadReceipt, CInv, LoopInv, At, Renew
  <2> QED
    BY <1>1, <1>3, <2>1, SelectedHere
<1>4. ASSUME NEW pc \in {"receipt", "idle"}, Renew(pc), UNCHANGED chosen PROVE CInv'
  BY <1>1, <1>2, <1>4, RenewalGoes DEF Renewing, Phases
<1> QED
  BY <1>3, <1>4 DEF Select, ReadReceipt

LEMMA ReplaceInv == ASSUME CInv, Replace PROVE CInv'
<1>1. /\ At("replace") /\ UNCHANGED <<runtime, cand, chosen, operation, accepted>>
      /\ runtime = "up" /\ cur + 1 = Leaf /\ Leaf \in Generations /\ Leaf # None
      /\ Renew("idle")
  BY CurrentGeneration DEF Replace, Unrenewed, At, CInv, LoopInv, Generations, None
<1>2. CASE UNCHANGED cur
  BY <1>1, <1>2, RenewalGoes DEF Renewing, Phases
<1>3. CASE cur' = Leaf
  <2>1. Chain' /\ Leaf' = Leaf
    BY <1>1, LeafStays DEF CInv
  <2>2. CertTypes'
    BY <1>1, <1>3 DEF CInv, CertTypes, Renew, Phases
  <2>3. ServerInv'
    BY <1>1, <2>1 DEF CInv, ServerInv
  <2>4. LoopInv'
    BY <1>1, <1>3, <2>1 DEF CInv, LoopInv, At, Renew, Renewing
  <2> QED
    BY <2>1, <2>2, <2>3, <2>4 DEF CInv
<1> QED
  BY <1>1, <1>2, <1>3 DEF Replace

\* The process is started: no client yet, and perhaps one more selection.
LEMMA StartInv == ASSUME CInv, Start PROVE CInv'
<1>1. /\ runtime = "down" /\ runtime' = "resuming"
      /\ UNCHANGED <<renewal, cur, cand, operation, accepted>>
  BY DEF Start, server
<1>2. cur = None /\ At("idle")
  BY <1>1 DEF CInv, LoopInv
<1>3. CertTypes'
  BY <1>1 DEF CInv, CertTypes
<1>4. Chain' /\ ServerInv'
  <2>1. CASE Receipt /\ chosen' = chosen \cup {Leaf}
    BY <1>1, <2>1, SelectsLeaf DEF Receipt, CInv
  <2>2. CASE UNCHANGED chosen
    BY <1>1, <2>2, LeafStays DEF CInv, ServerInv
  <2> QED
    BY <2>1, <2>2 DEF Start
<1>5. LoopInv'
  BY <1>1, <1>2 DEF LoopInv, At, Renewing
<1> QED
  BY <1>3, <1>4, <1>5 DEF CInv

\* The client begins with the last selection, or there is none.
LEMMA ResumeInv == ASSUME CInv, Resume \/ Down PROVE CInv'
<1>1. UNCHANGED <<cand, chosen, operation, accepted>>
  BY DEF Resume, Down, server
<1>2. Chain' /\ ServerInv' /\ Leaf' = Leaf /\ Leaf \in Generations /\ Leaf # None
  BY <1>1, LeafStays, LeafType DEF CInv, ServerInv, Generations, None
<1>3. /\ renewal' = "idle"
      /\ \/ runtime' = "up" /\ cur' = Leaf
         \/ runtime' = "down" /\ cur' = None
  <2>1. CASE Resume
    <3>1. runtime = "resuming" /\ UNCHANGED renewal
      BY <2>1 DEF Resume
    <3> QED
      BY <2>1, <3>1 DEF Resume, CInv, LoopInv, At
  <2>2. CASE Down
    BY <2>2 DEF Down
  <2> QED
    BY <2>1, <2>2
<1>4. CertTypes'
  BY <1>1, <1>2, <1>3 DEF CInv, CertTypes, Phases
<1>5. LoopInv'
  BY <1>2, <1>3 DEF LoopInv, At, Renewing
<1> QED
  BY <1>2, <1>4, <1>5 DEF CInv

LEMMA CertificateInv == DInv /\ CInv /\ [Next]_vars => CInv'
<1> SUFFICES ASSUME CInv, [Next]_vars PROVE CInv'
  OBVIOUS
<1>1. CASE \/ \E v \in BOOLEAN : SetEnabled(v)
           \/ Administrate \/ Ages \/ ReporterStep \/ ReporterWaits \/ UNCHANGED vars
  <2>1. UNCHANGED <<runtime, renewal, cur, cand, chosen, operation, accepted>>
    BY <1>1 DEF SetEnabled, Administrate, Ages, ReporterStep, ReporterTick, ReporterSyncs, ReporterChecks,
                ReporterUploads, ReporterWaits, vars, files, server
  <2> QED
    BY <2>1, CertificateStays
<1>2. ASSUME NEW g \in Generations, Issue(g) PROVE CInv'
  BY <1>2, IssueInv
<1>3. CASE RenewalStep
  BY <1>3, RenewalTickInv, ReconcileInv, SettleInv, PollInv, BeginInv, StageInv, ActivateInv, SelectInv,
     ReplaceInv DEF RenewalStep
<1>4. CASE Start \/ Resume \/ Down
  BY <1>4, StartInv, ResumeInv
<1> QED
  BY <1>1, <1>2, <1>3, <1>4 DEF Next

LEMMA BoundsInv == DInv /\ Bounds /\ [Next]_vars => Bounds'
<1> SUFFICES ASSUME DInv, Bounds, [Next]_vars PROVE Bounds'
  OBVIOUS
<1>1. data' \in BOOLEAN
  <2>1. CASE ReporterSyncs
    <3> DEFINE kept == data /\ reporter.state.enabled
    <3>1. data' = kept \/ data' = data
      BY <2>1, Zenon DEF ReporterSyncs
    <3>2. kept \in BOOLEAN
      OBVIOUS
    <3> HIDE DEF kept
    <3> QED
      BY <3>1, <3>2 DEF Bounds
  <2>2. CASE ReporterUploads
    BY <2>2 DEF ReporterUploads, Bounds
  <2>3. CASE ~ReporterSyncs /\ ~ReporterUploads
    <3>1. UNCHANGED data
      BY <2>3 DEF Next, ReporterStep, SetEnabled, Administrate, Ages, Issue, files, server, ReporterTick,
         ReporterChecks, ReporterWaits, vars, RenewalStep, RenewalTick, Reconcile, Settle, Confirm, Prepare,
         Begin, Poll, Stage, Activate, Select, ReadReceipt, Replace, Unrenewed, Start, Resume, Down
    <3> QED
      BY <3>1 DEF Bounds
  <2> QED
    BY <2>1, <2>2, <2>3
<1>2. changes' \in 0..MaxChanges
  <2>1. \/ changes < MaxChanges /\ changes' = changes + 1
        \/ UNCHANGED changes
    BY DEF Next, ReporterStep, SetEnabled, Administrate, Ages, Issue, files, server, ReporterTick,
       ReporterSyncs, ReporterUploads, ReporterChecks, ReporterWaits, vars, RenewalStep, RenewalTick,
       Reconcile, Settle, Confirm, Prepare, Begin, Poll, Stage, Activate, Select, ReadReceipt, Replace,
       Unrenewed, Start, Resume, Down
  <2> QED
    BY <2>1, DeviceConstants DEF Bounds
<1>3. crashes' \in 0..MaxCrashes
  <2>1. \/ crashes < MaxCrashes /\ crashes' = crashes + 1
        \/ UNCHANGED crashes
    BY DEF Next, ReporterStep, SetEnabled, Administrate, Ages, Issue, files, server, ReporterTick,
       ReporterSyncs, ReporterUploads, ReporterChecks, ReporterWaits, vars, RenewalStep, RenewalTick,
       Reconcile, Settle, Confirm, Prepare, Begin, Poll, Stage, Activate, Select, ReadReceipt, Replace,
       Unrenewed, Start, Resume, Down
  <2> QED
    BY <2>1, DeviceConstants DEF Bounds
<1> QED
  BY <1>1, <1>2, <1>3 DEF Bounds

LEMMA CertificateInvariant == Spec => []RInv
<1>1. Init => RInv
  <2> SUFFICES ASSUME Init PROVE RInv
    OBVIOUS
  <2>1. DInv
    BY InitInv
  <2>2. Chain /\ Leaf = 0
    <3>1. 0 \in Generations /\ chosen = {g \in Generations : g < 0}
      BY DeviceConstants DEF Init, Generations
    <3>2. Leaf = LeafOf(chosen)
      BY DEF Leaf, LeafOf
    <3> QED
      BY <3>1, <3>2, LeafIs DEF Chain, Selected
  <2>3. CertTypes /\ Bounds
    <3>1. 0 \in Generations /\ 0 \in 0..MaxChanges /\ 0 \in 0..MaxCrashes
      BY DeviceConstants DEF Generations
    <3>2. operation \in [Generations -> Answers]
      BY DEF Init, Answers
    <3>3. permitted \in BOOLEAN /\ data \in BOOLEAN
      BY DEF Init
    <3> QED
      BY <3>1, <3>2, <3>3 DEF Init, CertTypes, Bounds, Phases
  <2>4. ServerInv
    BY <2>2, DeviceConstants DEF Init, ServerInv, Generations
  <2>5. LoopInv
    BY <2>2 DEF Init, LoopInv, At, Renewing
  <2> QED
    BY <2>1, <2>2, <2>3, <2>4, <2>5 DEF RInv, CInv
<1>2. RInv /\ [Next]_vars => RInv'
  BY NextInv, CertificateInv, BoundsInv DEF RInv
<1> QED
  BY <1>1, <1>2, PTL DEF Spec

\* Every variable of the device's runtime keeps to its states; in particular the
\* client and the server never go beyond the last generation there is.
THEOREM DeviceTypes == Spec => []TypeOK
<1>1. RInv => TypeOK
  BY LeafType DEF RInv, DInv, Types, CInv, CertTypes, Chain, Selected, Bounds, Phases, Answers, TypeOK
<1> QED
  BY <1>1, CertificateInvariant, PTL

\* Whatever replies were lost and wherever the process died, the certificate
\* that the server accepts is the one selected on the device's disk or the
\* candidate stored beside it (device_renewal_recovery.py, device_resume.py).
THEOREM DeviceKeepsCertificate == Spec => []AcceptedIsStored
<1>1. RInv => AcceptedIsStored
  BY DEF RInv, CInv, ServerInv, AcceptedIsStored
<1> QED
  BY <1>1, CertificateInvariant, PTL
=============================================================================
