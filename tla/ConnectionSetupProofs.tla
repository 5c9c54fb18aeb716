------------------------- MODULE ConnectionSetupProofs -------------------------
(***************************************************************************)
(* Proofs about a connection, for any number of operations, crashes and    *)
(* failures.  First the rotation alone (CertificateRotation): the keys, the*)
(* selections and what a start finds.  Then the setup: it leaves behind    *)
(* what a rotated connection needs, and around it every step is one of     *)
(* CertificateRotation or none, so that what is proved of the rotation     *)
(* holds of the connection.                                                *)
(***************************************************************************)
EXTENDS ConnectionSetup, WellFoundedInduction, TLAPS

-----------------------------------------------------------------------------
(* The rotation *)


Starting == {"ask", "select", "verify"}
Working == {"poll", "stage", "activate", "status", "recover", "install"}

\* The end of the chain, or the one before it when another process has just
\* selected its accepted successor: nobody has used that one yet.
Overtaken(c) ==
  /\ selected[c] = Leaf /\ accepted = Leaf
  /\ \A o \in Ops : gw[o].state # "none" => gw[o].parent # Leaf
Near(c) == c = Leaf \/ Overtaken(c)

\* What the process knows where it stands.
Process ==
  /\ phase \in Starting \cup {"down"} <=> cur = None
  /\ phase \in Starting \cup Working => op \in Ops
  /\ phase \notin {"activate", "status", "recover", "install"} => tries = 0
  /\ phase \in {"activate", "status"} => tries < Attempts
  /\ cur # None => cur \in Credentials /\ Near(cur)
  /\ phase = "begin" => prepared[cur] # 0
  /\ phase \in Working => gw[op].state # "none" /\ gw[op].parent = cur
  /\ phase \in {"activate", "status", "recover", "install"} => op \in cands
  /\ phase \in Starting => op \in cands /\ gw[op].parent \in Credentials /\ Near(gw[op].parent)
  /\ phase \in {"install", "select"} => gw[op].state = "activated" /\ accepted = op

\* A credential that asked for an operation was in use, so that it is selected.
Selected(c) == c = 0 \/ \E d \in Credentials : selected[d] = c
Operations ==
  /\ \A o \in Ops : gw[o].state # "none" => gw[o].parent \in Credentials /\ Selected(gw[o].parent)
  /\ \A o \in Ops : Live(o) => gw[o].key = prepared[gw[o].parent] /\ gw[o].key # 0
  /\ \A o \in cands : gw[o].state # "none"
  /\ wire \subseteq cands

\* The selections form one chain, from the first credential.
OneLeaf == \E l \in Credentials : IsLeaf(l) /\ \A c \in Credentials : IsLeaf(c) => c = l

\* The gateway accepts the end of the chain or one candidate beyond it.
Beyond(o) == o \in CandidatesOf(Leaf) /\ gw[o].state = "activated"
AcceptedIsNear ==
  /\ accepted = Leaf \/ Beyond(accepted)
  /\ \A o \in Ops : gw[o].state = "activated" /\ gw[o].parent = Leaf => accepted = o

IInv == TypeOK /\ Process /\ Operations /\ SelectedIsActivated /\ OneLeaf /\ AcceptedIsNear

-----------------------------------------------------------------------------
(* The choices the model makes are well defined *)

LEMMA Least == ASSUME NEW S \in SUBSET Nat, S # {} PROVE \E o \in S : \A p \in S : o <= p
<1> DEFINE R == OpToRel(<, Nat)
<1>1. \E x \in S : \A y \in S : ~ (<<y, x>> \in R)
  <2> HIDE DEF R
  <2>1. IsWellFoundedOn(R, Nat)
    BY NatLessThanWellFounded DEF R
  <2> QED
    BY <2>1, WFMin, Zenon
<1>2. \A x, y \in Nat : <<y, x>> \in R <=> y < x
  BY DEF OpToRel
<1> HIDE DEF R
<1>3. PICK x \in S : \A y \in S : ~ (<<y, x>> \in R)
  BY <1>1
<1>4. ASSUME NEW y \in S PROVE x <= y
  <2>1. ~(y < x)
    BY <1>2, <1>3
  <2> QED
    BY <2>1
<1> QED
  BY <1>4

LEMMA FirstIsOneOf == ASSUME NEW S \in SUBSET Ops, S # {} PROVE First(S) \in S
<1>1. S \in SUBSET Nat
  BY RotationConstants DEF Ops
<1> QED
  BY <1>1, Least DEF First

LEMMA LeafIsTheLeaf ==
  ASSUME OneLeaf
  PROVE  Leaf \in Credentials /\ IsLeaf(Leaf) /\ \A c \in Credentials : IsLeaf(c) => c = Leaf
  BY DEF OneLeaf, Leaf

\* An accepted credential is overtaken by none.
LEMMA AcceptedIsLeaf ==
  ASSUME IInv, NEW c \in Credentials, Near(c), accepted = c
  PROVE  c = Leaf
  BY LeafIsTheLeaf, RotationConstants DEF IInv, IsLeaf, Near, Overtaken, Credentials, None

LEMMA LeafStays == ASSUME selected' = selected PROVE Leaf' = Leaf /\ (OneLeaf => OneLeaf')
  BY DEF Leaf, OneLeaf, IsLeaf

\* What is near stays near while the gateway hears of nothing new.
LEMMA NearStays ==
  ASSUME UNCHANGED <<selected, accepted>>,
         \A p \in Ops : gw'[p].parent = gw[p].parent /\ (gw'[p].state # "none" => gw[p].state # "none")
  PROVE  \A c \in Credentials : Near(c) => Near(c)'
  BY LeafStays DEF Near, Overtaken

-----------------------------------------------------------------------------
(* The gateway and the chain of selections *)

\* What a selection says, field by field.
LEMMA Selection ==
  ASSUME TypeOK, SelectedIsActivated, NEW c \in Credentials, selected[c] # None
  PROVE  /\ selected[c] \in Ops /\ selected[c] \in cands
         /\ gw[selected[c]].state = "activated" /\ gw[selected[c]].parent = c
<1> DEFINE o == selected[c]
           r == gw[o]
<1>1. o \in Ops /\ o \in cands /\ r = [r EXCEPT !.state = "activated", !.parent = c]
  BY DEF TypeOK, SelectedIsActivated
<1>2. r \in [state : {"none", "pending", "issued", "cancelled", "activated"},
            parent : Credentials \cup {None}, key : 0..keys]
  BY <1>1 DEF TypeOK
<1> HIDE DEF r
<1>3. r.state = "activated" /\ r.parent = c
  BY <1>1, <1>2
<1> QED
  BY <1>1, <1>3 DEF r

\* While a candidate is accepted that is not selected, nothing can be activated:
\* nobody asked for an operation with it.
LEMMA NothingBeyond ==
  ASSUME IInv, NEW o \in Ops, CanActivate(o)
  PROVE  accepted = Leaf
<1>1. gw[o].parent = accepted /\ Selected(accepted)
  BY DEF IInv, Operations, CanActivate
<1>2. SUFFICES ASSUME accepted # Leaf PROVE FALSE
  OBVIOUS
<1>3. accepted \in Ops /\ gw[accepted].parent = Leaf
  BY <1>2 DEF IInv, TypeOK, AcceptedIsNear, Beyond, CandidatesOf
<1>4. PICK d \in Credentials : selected[d] = accepted
  BY <1>1, <1>3, RotationConstants DEF Selected, Ops
<1>5. gw[accepted].parent = d
  <2>1. selected[d] # None
    BY <1>3, <1>4, RotationConstants DEF Ops, None
  <2> QED
    BY <1>4, <2>1, Selection DEF IInv
<1>6. selected[Leaf] = None
  BY LeafIsTheLeaf DEF IInv, IsLeaf
<1> QED
  BY <1>3, <1>4, <1>5, <1>6, RotationConstants DEF Ops, None

\* An operation of the accepted credential is activated, its candidate is durable.
LEMMA Activating ==
  ASSUME IInv, NEW o \in cands, Activates(o), UNCHANGED disk, wire' \subseteq wire
  PROVE  /\ Operations' /\ SelectedIsActivated' /\ OneLeaf' /\ AcceptedIsNear'
         /\ Leaf' = Leaf /\ gw'[o].state = "activated" /\ accepted' = o
         /\ \A c \in Credentials : Near(c) => c = Leaf /\ Near(c)'
         /\ \A p \in Ops : gw'[p].parent = gw[p].parent
         /\ \A p \in Ops : gw[p].state # "none" => gw'[p].state # "none"
         /\ gw' \in [Ops -> [state : {"none", "pending", "issued", "cancelled", "activated"},
                             parent : Credentials \cup {None}, key : 0..keys]]
<1>1. o \in Ops /\ accepted = Leaf
  BY NothingBeyond DEF IInv, TypeOK, Activates
<1>2. gw[o].state = "issued" /\ gw[o].parent = Leaf
  BY <1>1 DEF Activates, CanActivate
<1>3. gw' = [gw EXCEPT ![o].state = "activated"] /\ accepted' = o
  BY DEF Activates, SetOp
<1>4. /\ gw' \in [Ops -> [state : {"none", "pending", "issued", "cancelled", "activated"},
                          parent : Credentials \cup {None}, key : 0..keys]]
      /\ \A p \in Ops : gw'[p].parent = gw[p].parent /\ gw'[p].key = gw[p].key
      /\ \A p \in Ops : p # o => gw'[p] = gw[p]
      /\ gw'[o].state = "activated"
  BY <1>1, <1>3 DEF IInv, TypeOK
<1>5. Leaf' = Leaf /\ OneLeaf'
  BY LeafStays DEF IInv, disk
<1>6. Operations'
  BY <1>1, <1>4 DEF IInv, TypeOK, Operations, Selected, Live, disk
<1>7. SelectedIsActivated'
  <2> SUFFICES ASSUME NEW c \in Credentials, selected[c] # None
               PROVE  selected[c] \in cands /\ gw'[selected[c]] = [gw'[selected[c]] EXCEPT !.state = "activated", !.parent = c]
    BY DEF SelectedIsActivated, disk
  <2>1. selected[c] \in cands /\ gw[selected[c]] = [gw[selected[c]] EXCEPT !.state = "activated", !.parent = c]
    BY DEF IInv, SelectedIsActivated
  <2>2. selected[c] # o
    BY <1>1, <1>2, <2>1 DEF IInv, TypeOK
  <2> QED
    BY <1>4, <2>1, <2>2 DEF IInv, TypeOK
<1>8. AcceptedIsNear'
  <2>1. ASSUME NEW p \in Ops, gw'[p].state = "activated", gw'[p].parent = Leaf PROVE p = o
    <3>1. SUFFICES ASSUME p # o PROVE FALSE
      OBVIOUS
    <3>2. p = Leaf /\ gw[p].parent = p
      BY <1>1, <1>4, <2>1, <3>1 DEF IInv, AcceptedIsNear
    <3>3. selected[p] = None /\ \E d \in Credentials : selected[d] = p
      BY <3>2, LeafIsTheLeaf, RotationConstants DEF IInv, IsLeaf, Ops
    <3>4. PICK d \in Credentials : selected[d] = p
      BY <3>3
    <3>5. gw[p].parent = d
      BY <3>4, Selection, RotationConstants DEF IInv, Ops, None
    <3> QED
      BY <3>2, <3>3, <3>4, <3>5, RotationConstants DEF Ops, None
  <2> QED
    BY <1>1, <1>2, <1>3, <1>4, <1>5, <2>1 DEF AcceptedIsNear, Beyond, CandidatesOf, disk
<1>9. \A c \in Credentials : Near(c) => c = Leaf /\ Near(c)'
  BY <1>1, <1>2, <1>5 DEF Near, Overtaken
<1> QED
  BY <1>1, <1>3, <1>4, <1>5, <1>6, <1>7, <1>8, <1>9

\* The accepted candidate beyond the chain becomes its end.
LEMMA Selecting ==
  ASSUME IInv, NEW o \in Ops, accepted = o, Beyond(o), Selects(Leaf, o),
         UNCHANGED <<prepared, keys, cands, gateway>>
  PROVE  Leaf' = o /\ Operations' /\ SelectedIsActivated' /\ OneLeaf' /\ AcceptedIsNear'
         /\ selected' \in [Credentials -> Ops \cup {None}]
         /\ \A c \in Credentials : Near(c) => Near(c)'
<1>1. /\ Leaf \in Credentials /\ selected[Leaf] = None /\ Selected(Leaf)
      /\ \A c \in Credentials : selected[c] = None /\ Selected(c) => c = Leaf
  BY LeafIsTheLeaf DEF IInv, IsLeaf, Selected
<1>2. /\ selected' = [selected EXCEPT ![Leaf] = o] /\ selected' \in [Credentials -> Ops \cup {None}]
      /\ selected'[Leaf] = o /\ \A c \in Credentials : c # Leaf => selected'[c] = selected[c]
  BY <1>1 DEF Selects, IInv, TypeOK
<1>3. o \in cands /\ gw[o].state = "activated" /\ gw[o].parent = Leaf /\ o # None /\ o # 0 /\ o \in Credentials
  BY RotationConstants DEF Beyond, CandidatesOf, Ops, Credentials, None
<1>4. \A c \in Credentials : selected[c] # o
  <2> SUFFICES ASSUME NEW c \in Credentials, selected[c] = o PROVE FALSE
    OBVIOUS
  <2>1. c = Leaf
    BY <1>3, Selection DEF IInv
  <2> QED
    BY <1>1, <1>3, <2>1
<1>5. o # Leaf /\ selected[o] = None /\ \A p \in Ops : gw[p].state # "none" => gw[p].parent # o
  <2>1. o # Leaf
    BY <1>1, <1>3, <1>4 DEF Selected
  <2>3. \A p \in Ops : gw[p].state # "none" => gw[p].parent # o
    BY <1>3, <1>4 DEF IInv, Operations, Selected
  <2>2. ASSUME selected[o] # None PROVE FALSE
    <3>1. selected[o] \in Ops /\ gw[selected[o]].parent = o /\ gw[selected[o]].state # "none"
      BY <1>3, <2>2, Selection DEF IInv
    <3>2. Selected(o)
      BY <3>1 DEF IInv, Operations
    <3> QED
      BY <1>3, <1>4, <3>2 DEF Selected
  <2> QED
    BY <2>1, <2>2, <2>3
<1>6. IsLeaf(o)' /\ \A c \in Credentials : IsLeaf(c)' => c = o
  <2>1. IsLeaf(o)'
    BY <1>1, <1>2, <1>3, <1>5 DEF IsLeaf
  <2>2. ASSUME NEW c \in Credentials, IsLeaf(c)', c # o PROVE FALSE
    <3>1. c # Leaf /\ selected[c] = None
      BY <1>1, <1>2, <1>3, <2>2 DEF IsLeaf
    <3>2. Selected(c)
      BY <1>1, <1>2, <2>2 DEF IsLeaf, Selected
    <3> QED
      BY <1>1, <3>1, <3>2
  <2> QED
    BY <2>1, <2>2
<1>7. Leaf' = o /\ OneLeaf'
  BY <1>3, <1>6 DEF Leaf, OneLeaf
<1>8. \A c \in Credentials : Selected(c) => Selected(c)'
  BY <1>1, <1>2, RotationConstants DEF Selected, Credentials, None
<1>9. Operations'
  BY <1>8 DEF IInv, Operations, gateway, Live
<1>10. SelectedIsActivated'
  <2> SUFFICES ASSUME NEW c \in Credentials, selected'[c] # None
               PROVE  /\ selected'[c] \in cands
                      /\ gw[selected'[c]] = [gw[selected'[c]] EXCEPT !.state = "activated", !.parent = c]
    BY DEF SelectedIsActivated, gateway
  <2>1. CASE c = Leaf
    BY <1>2, <1>3, <2>1 DEF IInv, TypeOK
  <2>2. CASE c # Leaf
    BY <1>2, <2>2 DEF IInv, SelectedIsActivated
  <2> QED
    BY <2>1, <2>2
<1>11. \A c \in Credentials : Near(c) => Near(c)'
  BY <1>2, <1>5, <1>7 DEF Near, Overtaken, gateway
<1>12. AcceptedIsNear'
  BY <1>5, <1>7 DEF AcceptedIsNear, gateway
<1> QED
  BY <1>2, <1>7, <1>9, <1>10, <1>11, <1>12

\* A step of the process alone leaves the rest as it is.
LEMMA ProcessAlone ==
  ASSUME IInv, UNCHANGED <<disk, gateway>>
  PROVE  Operations' /\ SelectedIsActivated' /\ OneLeaf' /\ AcceptedIsNear' /\ Leaf' = Leaf
         /\ \A c \in Credentials : Near(c) => Near(c)'
<1>1. Leaf' = Leaf /\ OneLeaf' /\ \A c \in Credentials : Near(c) => Near(c)'
  BY LeafStays, NearStays DEF IInv, disk, gateway
<1> QED
  BY <1>1 DEF IInv, Operations, Selected, Live, SelectedIsActivated, AcceptedIsNear, Beyond, CandidatesOf, disk, gateway

\* The confirmed successor of a credential is selected, for the first time or again.
LEMMA Storing ==
  ASSUME IInv, NEW c \in Credentials, NEW o \in Ops, Near(c), o \in cands, accepted = o,
         gw[o].state = "activated", gw[o].parent = c, Selects(c, o),
         UNCHANGED <<prepared, keys, cands, gateway>>
  PROVE  Leaf' = o /\ Operations' /\ SelectedIsActivated' /\ OneLeaf' /\ AcceptedIsNear'
         /\ selected' \in [Credentials -> Ops \cup {None}]
         /\ \A d \in Credentials : Near(d) => Near(d)'
<1>1. CASE c = Leaf
  BY <1>1, Selecting DEF Beyond, CandidatesOf
<1>2. CASE Overtaken(c)
  <2>1. Leaf = o /\ selected' = selected
    BY <1>2 DEF Overtaken, Selects, IInv, TypeOK
  <2> QED
    BY <2>1, ProcessAlone DEF disk, IInv, TypeOK
<1> QED
  BY <1>1, <1>2 DEF Near

-----------------------------------------------------------------------------
(* Every step preserves the invariant *)

LEMMA InitInv == Init => IInv
<1> SUFFICES ASSUME Init PROVE IInv
  OBVIOUS
<1>1. TypeOK
  BY RotationConstants DEF Init, TypeOK, Credentials, Ops, None, Attempts
<1>2. Operations /\ SelectedIsActivated
  BY DEF Init, Operations, SelectedIsActivated, Live
<1>3. \A c \in Credentials : IsLeaf(c) <=> c = 0
  BY RotationConstants DEF Init, IsLeaf, Credentials, None
<1>4. OneLeaf
  BY <1>3, RotationConstants DEF OneLeaf, Credentials
<1>5. Leaf = 0
  BY <1>3, <1>4, LeafIsTheLeaf
<1>6. Process /\ AcceptedIsNear
  BY <1>5 DEF Init, Process, AcceptedIsNear, Starting, Working, None
<1> QED
  BY <1>1, <1>2, <1>4, <1>6 DEF IInv

\* Only the selections changed, and what was near stayed near.
LEMMA Recorded ==
  ASSUME IInv, UNCHANGED <<process, prepared, keys, cands, gateway, crashes>>,
         Operations', SelectedIsActivated', OneLeaf', AcceptedIsNear',
         selected' \in [Credentials -> Ops \cup {None}],
         \A d \in Credentials : Near(d) => Near(d)'
  PROVE  IInv'
<1>1. TypeOK'
  BY DEF IInv, TypeOK, process, gateway
<1>2. cur # None => cur \in Credentials /\ Near(cur)'
  BY DEF IInv, Process, process
<1>3. phase \in Starting => gw[op].parent \in Credentials /\ Near(gw[op].parent)'
  BY DEF IInv, Process, process, gateway
<1>4. Process'
  BY <1>2, <1>3 DEF IInv, Process, process, gateway
<1> QED
  BY <1>1, <1>4 DEF IInv

\* The steps that read the gateway or nothing, Poll to Verify.
LEMMA ProcessSteps ==
  ASSUME IInv, Poll \/ Status \/ Recover \/ Crash \/ Stop \/ Start \/ Ask \/ Verify
  PROVE  IInv'
<1>1. UNCHANGED <<disk, gateway>>
  BY DEF Poll, Status, Recover, Crash, Stop, Start, Ask, Verify
<1>2. /\ Operations' /\ SelectedIsActivated' /\ OneLeaf' /\ AcceptedIsNear' /\ Leaf' = Leaf
      /\ \A c \in Credentials : Near(c) => Near(c)'
  BY <1>1, ProcessAlone
<1>3. Leaf \in Credentials /\ Leaf # None /\ Near(Leaf)
  BY LeafIsTheLeaf, RotationConstants DEF IInv, Credentials, None, Near
<1>4. ASSUME NEW o \in CandidatesOf(Leaf) PROVE o \in Ops /\ o \in cands /\ gw[o].parent = Leaf
  BY DEF CandidatesOf, IInv, TypeOK
<1>5. phase = "down" /\ CandidatesOf(Leaf) # {} => First(CandidatesOf(Leaf)) \in CandidatesOf(Leaf)
  <2>1. CandidatesOf(Leaf) \in SUBSET Ops
    BY DEF IInv, TypeOK, CandidatesOf
  <2> QED
    BY <2>1, FirstIsOneOf
<1>6. \A c \in Credentials : c \in Credentials \cup {None} /\ c # None
  BY RotationConstants DEF Credentials, None
<1>7. TypeOK' /\ Process'
  <2>1. CASE Poll
    BY <1>1, <1>2, <1>6, <2>1 DEF Poll, GiveUp, Goto, IInv, TypeOK, Process, Starting, Working, disk, gateway, Attempts
  <2>2. CASE Status
    BY <1>1, <1>2, <1>6, <2>2 DEF Status, Goto, IInv, TypeOK, Process, Starting, Working, disk, gateway, Attempts
  <2>3. CASE Recover
    BY <1>1, <1>2, <1>6, <2>3 DEF Recover, GiveUp, Goto, IInv, TypeOK, Process, Starting, Working, disk, gateway, Attempts
  <2>4. CASE Crash
    BY <1>1, <1>2, <2>4, RotationConstants DEF Crash, Goto, IInv, TypeOK, Process, Starting, Working, disk, gateway, Attempts
  <2>5. CASE Stop
    BY <1>1, <1>2, <2>5 DEF Stop, Goto, IInv, TypeOK, Process, Starting, Working, disk, gateway, Attempts
  <2>6. CASE Start
    BY <1>1, <1>2, <1>3, <1>4, <1>5, <1>6, <2>6
    DEF Start, Starts, Goto, IInv, TypeOK, Process, Starting, Working, disk, gateway, Attempts
  <2>7. CASE Ask
    BY <1>1, <1>2, <2>7 DEF Ask, Goto, IInv, TypeOK, Process, Starting, Working, disk, gateway, Attempts
  <2>8. CASE Verify
    BY <1>1, <1>2, <1>6, <2>8
    DEF Verify, Origin, Starts, Goto, IInv, TypeOK, Process, Starting, Working, disk, gateway, Attempts
  <2> QED
    BY <2>1, <2>2, <2>3, <2>4, <2>5, <2>6, <2>7, <2>8
<1> QED
  BY <1>2, <1>7 DEF IInv

\* A key is generated only where none is retained, so that none is pending with it.
LEMMA PrepareStep == ASSUME IInv, Prepare PROVE IInv'
<1>1. /\ Leaf' = Leaf /\ OneLeaf' /\ cur \in Credentials
      /\ UNCHANGED <<cur, op, tries, cands, selected, gw, accepted, wire, crashes>>
      /\ \A c \in Credentials : Near(c) => Near(c)'
  BY LeafStays, NearStays DEF IInv, TypeOK, Prepare, Process, Starting, gateway
<1>2. TypeOK'
  BY <1>1 DEF IInv, TypeOK, Prepare, Goto
<1>3. \A c \in Credentials : prepared[c] # 0 => prepared'[c] = prepared[c]
  BY <1>1 DEF IInv, TypeOK, Prepare
<1>4. prepared'[cur] # 0
  BY <1>1 DEF IInv, TypeOK, Prepare
<1>5. Process'
  BY <1>1, <1>4 DEF IInv, TypeOK, Process, Prepare, Goto, Starting, Working, Attempts
<1>6. Operations'
  <2>1. ASSUME NEW o \in Ops, Live(o) PROVE gw[o].key = prepared'[gw[o].parent] /\ gw[o].key # 0
    BY <1>3, <2>1 DEF IInv, Operations, Live
  <2> QED
    BY <1>1, <2>1 DEF IInv, Operations, Selected, Live
<1>7. SelectedIsActivated' /\ AcceptedIsNear'
  BY <1>1 DEF IInv, SelectedIsActivated, AcceptedIsNear, Beyond, CandidatesOf
<1> QED
  BY <1>1, <1>2, <1>5, <1>6, <1>7 DEF IInv

\* A new operation is of the credential in use and of its retained key.
LEMMA BeginStep == ASSUME IInv, Begin PROVE IInv'
<1>1. /\ Leaf' = Leaf /\ OneLeaf' /\ cur \in Credentials /\ Near(cur) /\ cur # None /\ prepared[cur] # 0
      /\ UNCHANGED <<prepared, keys, cands, selected, accepted, wire, crashes>>
      /\ (accepted = cur => cur = Leaf)
  BY LeafStays, AcceptedIsLeaf DEF IInv, TypeOK, Begin, Process, Starting, disk, None
<1>2. Selected(Leaf)
  BY LeafIsTheLeaf DEF IInv, IsLeaf, Selected
<1>3. CASE GiveUp /\ UNCHANGED gateway
  <2>1. TypeOK' /\ Process'
    BY <1>1, <1>3, ProcessAlone DEF disk, IInv, TypeOK, Process, GiveUp, Goto, Starting, Working, Attempts, gateway
  <2> QED
    BY <1>1, <1>3, <2>1, ProcessAlone DEF IInv, disk
<1>4. ASSUME NEW o \in Ops, phase = "begin", accepted = cur,
             Live(o) /\ gw[o].parent = cur /\ UNCHANGED gw,
             (Goto("poll") /\ op' = o /\ UNCHANGED <<cur, tries>>) \/ GiveUp
      PROVE  IInv'
  <2>1. TypeOK' /\ Process'
    BY <1>1, <1>4, ProcessAlone DEF disk, gateway, IInv, TypeOK, Process, GiveUp, Goto, Live, Starting, Working, Attempts
  <2> QED
    BY <1>1, <1>4, <2>1, ProcessAlone DEF IInv, disk, gateway
<1>5. ASSUME NEW o \in Ops, phase = "begin", accepted = cur, gw[o].state = "none",
             gw' = [gw EXCEPT ![o] = [state |-> "pending", parent |-> cur, key |-> prepared[cur]]],
             (Goto("poll") /\ op' = o /\ UNCHANGED <<cur, tries>>) \/ GiveUp
      PROVE  IInv'
  <2>1. /\ gw' \in [Ops -> [state : {"none", "pending", "issued", "cancelled", "activated"},
                            parent : Credentials \cup {None}, key : 0..keys]]
        /\ gw'[o] = [state |-> "pending", parent |-> cur, key |-> prepared[cur]]
        /\ \A p \in Ops : p # o => gw'[p] = gw[p]
    BY <1>1, <1>5 DEF IInv, TypeOK
  <2>2. o \notin cands
    BY <1>5 DEF IInv, Operations
  <2>3. TypeOK'
    BY <1>1, <1>5, <2>1 DEF IInv, TypeOK, GiveUp, Goto, Attempts
  <2>4. Process'
    <3>1. Near(cur)'
      BY <1>1, <1>5 DEF Near, GiveUp
    <3> QED
      BY <1>1, <1>5, <2>1, <3>1 DEF IInv, TypeOK, Process, GiveUp, Goto, Starting, Working, Attempts
  <2>5. Operations'
    <3>1. ASSUME NEW p \in Ops, gw'[p].state # "none"
          PROVE  gw'[p].parent \in Credentials /\ Selected(gw'[p].parent)
      BY <1>1, <1>2, <1>5, <2>1, <3>1 DEF IInv, Operations
    <3>2. ASSUME NEW p \in Ops, gw'[p].state \in {"pending", "issued"}
          PROVE  gw'[p].key = prepared[gw'[p].parent] /\ gw'[p].key # 0
      BY <1>1, <2>1, <3>2 DEF IInv, Operations, Live
    <3>3. \A p \in cands : gw'[p].state # "none"
      BY <2>1, <2>2 DEF IInv, TypeOK, Operations
    <3> QED
      BY <1>1, <3>1, <3>2, <3>3 DEF IInv, Operations, Selected, Live
  <2>6. SelectedIsActivated'
    <3> SUFFICES ASSUME NEW c \in Credentials, selected[c] # None
                 PROVE  /\ selected[c] \in cands
                        /\ gw'[selected[c]] = [gw'[selected[c]] EXCEPT !.state = "activated", !.parent = c]
      BY <1>1 DEF SelectedIsActivated
    <3>1. selected[c] \in Ops /\ selected[c] # o
      BY <2>2, Selection DEF IInv
    <3>2. gw'[selected[c]] = gw[selected[c]]
      BY <2>1, <3>1
    <3> QED
      BY <3>2 DEF IInv, SelectedIsActivated
  <2>7. AcceptedIsNear'
    BY <1>1, <1>5, <2>1 DEF IInv, AcceptedIsNear
  <2> QED
    BY <1>1, <2>3, <2>4, <2>5, <2>6, <2>7 DEF IInv
<1> QED
  BY <1>1, <1>3, <1>4, <1>5 DEF Begin, gateway

\* A candidate is added.
LEMMA StageStep == ASSUME IInv, Stage PROVE IInv'
<1>1. /\ Leaf' = Leaf /\ OneLeaf' /\ op \in Ops /\ cands \subseteq cands' /\ cands' \subseteq cands \cup {op}
      /\ gw[op].state # "none" /\ gw[op].parent = cur
      /\ UNCHANGED <<prepared, keys, selected, gw, accepted, wire, crashes>>
      /\ \A c \in Credentials : Near(c) => Near(c)'
  BY LeafStays, NearStays DEF IInv, Stage, Process, Starting, Working, gateway
<1>2. TypeOK'
  BY <1>1 DEF IInv, TypeOK, Stage, GiveUp, Goto, Attempts
<1>3. Process'
  BY <1>1 DEF IInv, TypeOK, Process, Stage, GiveUp, Goto, Starting, Working, Attempts
<1>4. Operations' /\ SelectedIsActivated' /\ AcceptedIsNear'
  BY <1>1 DEF IInv, Operations, Selected, Live, SelectedIsActivated, AcceptedIsNear, Beyond, CandidatesOf
<1> QED
  BY <1>1, <1>2, <1>3, <1>4 DEF IInv

\* The activation comes in time, or is committed although its reply is lost, or
\* stays on its way.
LEMMA ActivateStep == ASSUME IInv, Activate PROVE IInv'
<1>1. /\ op \in Ops /\ op \in cands /\ cur # None /\ tries' = tries + 1 /\ tries < Attempts /\ phase = "activate"
      /\ gw[op].state # "none" /\ gw[op].parent = cur /\ cur \in Credentials /\ Near(cur)
      /\ UNCHANGED <<cur, op, disk, crashes>>
  BY DEF IInv, Activate, Process, Starting, Working
<1>2. Leaf' = Leaf /\ OneLeaf'
  BY <1>1, LeafStays DEF IInv, disk
<1>3. CASE Activates(op) /\ UNCHANGED wire /\ phase' \in {"install", "recover", "status"}
           /\ (phase' = "status" => tries + 1 < Attempts)
  <2>1. /\ Operations' /\ SelectedIsActivated' /\ AcceptedIsNear' /\ gw'[op].state = "activated"
        /\ accepted' = op /\ Near(cur)' /\ \A p \in Ops : gw'[p].parent = gw[p].parent
        /\ \A p \in Ops : gw[p].state # "none" => gw'[p].state # "none"
        /\ gw' \in [Ops -> [state : {"none", "pending", "issued", "cancelled", "activated"},
                            parent : Credentials \cup {None}, key : 0..keys]]
    BY <1>1, <1>3, Activating
  <2>2. TypeOK'
    BY <1>1, <1>3, <2>1 DEF IInv, TypeOK, disk, Attempts, Credentials, Ops
  <2>3. Process'
    BY <1>1, <1>2, <1>3, <2>1 DEF Process, disk, Starting, Working
  <2> QED
    BY <1>2, <2>1, <2>2, <2>3 DEF IInv
<1>4. CASE UNCHANGED <<gw, accepted>> /\ wire' \in {wire, wire \cup {op}} /\ phase' \in {"recover", "status"}
           /\ (phase' = "status" => tries + 1 < Attempts)
  <2>1. TypeOK'
    BY <1>1, <1>4 DEF IInv, TypeOK, disk, Attempts
  <2>2. Process'
    <3>1. Near(cur)'
      BY <1>1, <1>4, NearStays DEF disk
    <3> QED
      BY <1>1, <1>2, <1>4, <3>1 DEF IInv, Process, disk, Starting, Working
  <2>3. Operations' /\ SelectedIsActivated' /\ AcceptedIsNear'
    BY <1>1, <1>2, <1>4
    DEF IInv, Operations, Selected, Live, SelectedIsActivated, AcceptedIsNear, Beyond, CandidatesOf, disk
  <2> QED
    BY <1>2, <2>1, <2>2, <2>3 DEF IInv
<1> QED
  BY <1>3, <1>4 DEF Activate, Goto

\* A selection is stored, by the rotation or by a start, or the disk fails.
LEMMA InstallStep == ASSUME IInv, Install PROVE IInv'
<1>1. /\ op \in Ops /\ cur \in Credentials /\ Near(cur) /\ accepted = op /\ op \in cands /\ cur # None
      /\ gw[op].state = "activated" /\ gw[op].parent = cur
      /\ UNCHANGED <<prepared, keys, cands, gateway, crashes>>
  BY DEF IInv, TypeOK, Install, Process, Starting, Working
<1>2. CASE Selects(cur, op) /\ cur' = op
  <2>1. /\ Leaf' = op /\ Operations' /\ SelectedIsActivated' /\ OneLeaf' /\ AcceptedIsNear'
        /\ selected' \in [Credentials -> Ops \cup {None}]
    BY <1>1, <1>2, Storing
  <2>2. op # None /\ op \in Credentials
    BY <1>1, RotationConstants DEF Ops, Credentials, None
  <2>3. TypeOK'
    BY <1>1, <1>2, <2>1, <2>2 DEF IInv, TypeOK, Install, Goto, gateway, Attempts
  <2>4. Process'
    BY <1>2, <2>1, <2>2 DEF Install, Goto, Process, Starting, Working, Near
  <2> QED
    BY <2>1, <2>3, <2>4 DEF IInv
<1>4. CASE Selects(cur, op) /\ cur' = cur
  <2>1. /\ Leaf' = op /\ Operations' /\ SelectedIsActivated' /\ OneLeaf' /\ AcceptedIsNear'
        /\ selected' \in [Credentials -> Ops \cup {None}]
        /\ \A d \in Credentials : Near(d) => Near(d)'
    BY <1>1, <1>4, Storing
  <2>2. Near(cur)'
    BY <1>1, <1>4, <2>1
  <2>3. TypeOK'
    BY <1>1, <1>4, <2>1 DEF IInv, TypeOK, Install, Goto, gateway, Attempts
  <2>4. Process'
    BY <1>1, <1>4, <2>2 DEF Install, Goto, Process, Starting, Working
  <2> QED
    BY <2>1, <2>3, <2>4 DEF IInv
<1>3. CASE UNCHANGED <<cur, selected>>
  <2>1. TypeOK'
    BY <1>1, <1>3 DEF IInv, TypeOK, Install, Goto, gateway, Attempts
  <2>2. Operations' /\ SelectedIsActivated' /\ OneLeaf' /\ AcceptedIsNear' /\ Near(cur)'
    BY <1>1, <1>3, ProcessAlone DEF disk
  <2>3. Process'
    BY <1>1, <1>3, <2>2 DEF Install, Goto, Process, Starting, Working
  <2> QED
    BY <2>1, <2>2, <2>3 DEF IInv
<1> QED
  BY <1>2, <1>3, <1>4 DEF Install

LEMMA SelectStep == ASSUME IInv, Select PROVE IInv'
<1>1. /\ op \in Ops /\ accepted = op /\ op \in cands /\ tries = 0 /\ cur = None
      /\ Origin \in Credentials /\ Near(Origin) /\ gw[op].state = "activated" /\ gw[op].parent = Origin
      /\ UNCHANGED <<prepared, keys, cands, gateway, crashes>>
  BY DEF IInv, Select, Process, Starting, Working, Origin
<1>2. CASE Selects(Origin, op) /\ Starts(op)
  <2>1. /\ Leaf' = op /\ Operations' /\ SelectedIsActivated' /\ OneLeaf' /\ AcceptedIsNear'
        /\ selected' \in [Credentials -> Ops \cup {None}]
    BY <1>1, <1>2, Storing
  <2>2. op # None /\ op \in Credentials
    BY <1>1, RotationConstants DEF Ops, Credentials, None
  <2>3. TypeOK'
    BY <1>1, <1>2, <2>1, <2>2 DEF IInv, TypeOK, Starts, Goto, gateway, Attempts
  <2>4. Process'
    BY <1>1, <1>2, <2>1, <2>2 DEF Starts, Goto, Process, Starting, Working, Near
  <2> QED
    BY <2>1, <2>3, <2>4 DEF IInv
<1>3. CASE Goto("down") /\ op' = None /\ UNCHANGED <<cur, tries, selected>>
  <2>1. TypeOK'
    BY <1>1, <1>3 DEF IInv, TypeOK, Goto, gateway, Attempts
  <2>2. Operations' /\ SelectedIsActivated' /\ OneLeaf' /\ AcceptedIsNear' /\ Leaf' = Leaf
    BY <1>1, <1>3, ProcessAlone DEF disk
  <2>3. Process'
    BY <1>1, <1>3, <2>2 DEF Goto, Process, Starting, Working
  <2> QED
    BY <2>1, <2>2, <2>3 DEF IInv
<1> QED
  BY <1>2, <1>3 DEF Select

\* Another process selects: the one that runs or starts is overtaken by it.
LEMMA SelectElsewhereStep == ASSUME IInv, NEW o \in Ops, SelectElsewhere(o) PROVE IInv'
<1> DEFINE c == gw[o].parent
<1>1. /\ o \in cands /\ gw[o].state = "activated" /\ Selects(c, o) /\ c \in Credentials /\ Selected(c)
      /\ UNCHANGED <<process, prepared, keys, cands, gateway, crashes>>
  BY DEF SelectElsewhere, IInv, Operations
<1>2. CASE selected[c] = None
  <2>1. c = Leaf
    BY <1>1, <1>2, LeafIsTheLeaf DEF IInv, IsLeaf, Selected
  <2>2. accepted = o
    BY <1>1, <2>1 DEF IInv, AcceptedIsNear
  <2>3. Near(c)
    BY <2>1 DEF Near
  <2> QED
    BY <1>1, <2>2, <2>3, Storing, Recorded
<1>3. CASE selected[c] = o
  <2>1. selected' = selected
    BY <1>1, <1>3 DEF Selects, IInv, TypeOK
  <2> QED
    BY <1>1, <2>1, ProcessAlone, Recorded DEF disk, IInv, TypeOK
<1> QED
  BY <1>1, <1>2, <1>3 DEF Selects

\* The gateway acts by itself.
LEMMA GatewaySteps == ASSUME IInv, NEW o \in Ops, Issue(o) \/ Cancel(o) \/ ArrivesLate(o) PROVE IInv'
<1>1. UNCHANGED <<process, disk, crashes>> /\ wire' \subseteq wire
  BY DEF Issue, Cancel, ArrivesLate
<1>2. Leaf' = Leaf /\ OneLeaf'
  BY <1>1, LeafStays DEF IInv, disk
<1>3. CASE Issue(o) \/ Cancel(o)
  <2>1. PICK s \in {"issued", "cancelled"} :
          gw' = [gw EXCEPT ![o].state = s] /\ (s = "issued" => gw[o].state = "pending") /\ Live(o)
    BY <1>3 DEF Issue, Cancel, SetOp, Live
  <2>2. /\ gw' \in [Ops -> [state : {"none", "pending", "issued", "cancelled", "activated"},
                            parent : Credentials \cup {None}, key : 0..keys]]
        /\ \A p \in Ops : gw'[p].parent = gw[p].parent /\ gw'[p].key = gw[p].key
        /\ \A p \in Ops : p # o => gw'[p] = gw[p]
        /\ gw'[o].state = s /\ gw[o].state \in {"pending", "issued"}
    BY <2>1 DEF IInv, TypeOK, Live
  <2>3. TypeOK' /\ UNCHANGED <<accepted, wire>>
    BY <1>1, <1>3, <2>2 DEF IInv, TypeOK, Issue, Cancel, process, disk
  <2>4. Process'
    <3>1. \A c \in Credentials : Near(c) => Near(c)'
      BY <1>1, <2>2, <2>3, NearStays DEF disk
    <3>2. cur # None => Near(cur)'
      BY <1>1, <3>1 DEF IInv, Process, process
    <3>3. phase \in Starting => Near(gw[op].parent)'
      BY <1>1, <2>2, <3>1 DEF IInv, Process, process
    <3> QED
      BY <1>1, <2>2, <2>3, <3>2, <3>3 DEF IInv, TypeOK, Process, process, disk, Starting, Working
  <2>5. Operations'
    <3>1. \A p \in Ops : /\ gw'[p].state # "none" => gw[p].state # "none"
                        /\ gw'[p].state \in {"pending", "issued"} => Live(p)
      BY <2>2 DEF Live
    <3>2. \A p \in Ops : gw'[p].state # "none" => gw'[p].parent \in Credentials /\ Selected(gw'[p].parent)
      BY <2>2, <3>1 DEF IInv, Operations
    <3>3. \A p \in Ops : gw'[p].state \in {"pending", "issued"} => gw'[p].key = prepared[gw'[p].parent] /\ gw'[p].key # 0
      BY <2>2, <3>1 DEF IInv, Operations
    <3>4. \A p \in cands : gw'[p].state # "none"
      BY <2>2 DEF IInv, TypeOK, Operations
    <3> QED
      BY <1>1, <2>3, <3>2, <3>3, <3>4 DEF IInv, Operations, Selected, Live, disk
  <2>6. SelectedIsActivated'
    <3> SUFFICES ASSUME NEW c \in Credentials, selected[c] # None
                 PROVE  /\ selected[c] \in cands
                        /\ gw'[selected[c]] = [gw'[selected[c]] EXCEPT !.state = "activated", !.parent = c]
      BY <1>1 DEF SelectedIsActivated, disk
    <3>1. selected[c] \in Ops /\ selected[c] # o
      BY <2>2, Selection DEF IInv
    <3>2. gw'[selected[c]] = gw[selected[c]]
      BY <2>2, <3>1
    <3> QED
      BY <3>2 DEF IInv, SelectedIsActivated
  <2>7. AcceptedIsNear'
    <3>0. \A p \in Ops : gw'[p].state = "activated" /\ gw'[p].parent = Leaf => accepted = p
      BY <2>2 DEF IInv, AcceptedIsNear
    <3>1. CASE accepted = Leaf
      BY <1>2, <2>3, <3>0, <3>1 DEF AcceptedIsNear
    <3>2. CASE Beyond(accepted)
      <4>1. accepted \in Ops /\ accepted # o /\ gw'[accepted] = gw[accepted]
        BY <2>2, <3>2 DEF IInv, TypeOK, Beyond, CandidatesOf
      <4> QED
        BY <1>1, <1>2, <2>3, <3>0, <3>2, <4>1 DEF AcceptedIsNear, Beyond, CandidatesOf, disk
    <3> QED
      BY <3>1, <3>2 DEF IInv, AcceptedIsNear
  <2> QED
    BY <1>2, <2>3, <2>4, <2>5, <2>6, <2>7 DEF IInv
<1>4. CASE ArrivesLate(o) /\ UNCHANGED <<gw, accepted>>
  <2>1. TypeOK'
    BY <1>1, <1>4 DEF IInv, TypeOK, process, disk
  <2>2. Process'
    <3>1. \A c \in Credentials : Near(c) => Near(c)'
      BY <1>1, <1>4, NearStays DEF disk
    <3>2. cur # None => Near(cur)'
      BY <1>1, <3>1 DEF IInv, Process, process
    <3>3. phase \in Starting => Near(gw[op].parent)'
      BY <1>1, <1>4, <3>1 DEF IInv, Process, process
    <3> QED
      BY <1>1, <1>4, <3>2, <3>3 DEF IInv, Process, process, disk
  <2>3. Operations' /\ SelectedIsActivated' /\ AcceptedIsNear'
    BY <1>1, <1>2, <1>4
    DEF IInv, Operations, Selected, Live, SelectedIsActivated, AcceptedIsNear, Beyond, CandidatesOf, disk
  <2> QED
    BY <1>2, <2>1, <2>2, <2>3 DEF IInv
<1>5. CASE ArrivesLate(o) /\ Activates(o)
  <2>1. o \in cands /\ wire' \subseteq wire
    BY <1>5 DEF ArrivesLate, IInv, Operations
  <2>2. /\ Operations' /\ SelectedIsActivated' /\ AcceptedIsNear' /\ accepted' = o
        /\ \A c \in Credentials : Near(c) => c = Leaf /\ Near(c)'
        /\ \A p \in Ops : gw'[p].parent = gw[p].parent
        /\ \A p \in Ops : gw[p].state # "none" => gw'[p].state # "none"
        /\ gw' \in [Ops -> [state : {"none", "pending", "issued", "cancelled", "activated"},
                            parent : Credentials \cup {None}, key : 0..keys]]
    BY <1>1, <1>5, <2>1, Activating
  <2>3. phase \notin {"install", "select"}
    <3> SUFFICES ASSUME phase \in {"install", "select"} PROVE FALSE
      OBVIOUS
    <3>1. op \in Ops /\ accepted = op /\ gw[op].parent = Leaf
      BY <2>2 DEF IInv, Process, Starting, Working
    <3>2. accepted = Leaf
      BY <1>5, NothingBeyond DEF Activates
    <3>3. selected[Leaf] = None /\ \E d \in Credentials : selected[d] = Leaf
      BY <3>1, <3>2, LeafIsTheLeaf, RotationConstants DEF IInv, IsLeaf, Ops
    <3>4. PICK d \in Credentials : selected[d] = Leaf
      BY <3>3
    <3>5. gw[op].parent = d
      BY <3>1, <3>2, <3>4, Selection, RotationConstants DEF IInv, Ops, None
    <3> QED
      BY <3>1, <3>2, <3>3, <3>4, <3>5, RotationConstants DEF Ops, None
  <2>4. TypeOK'
    BY <1>1, <2>1, <2>2 DEF IInv, TypeOK, process, disk, Credentials, Ops
  <2>5. Process'
    <3>1. cur # None => Near(cur)'
      BY <1>1, <2>2 DEF IInv, Process, process
    <3>2. phase \in Starting => Near(gw[op].parent)'
      BY <1>1, <2>2 DEF IInv, Process, process, Starting
    <3> QED
      BY <1>1, <2>2, <2>3, <3>1, <3>2 DEF IInv, TypeOK, Process, process, disk, Starting, Working
  <2> QED
    BY <1>2, <2>2, <2>4, <2>5 DEF IInv
<1> QED
  BY <1>3, <1>4, <1>5 DEF ArrivesLate

LEMMA NextInv == IInv /\ [Next]_vars => IInv'
<1> SUFFICES ASSUME IInv, [Next]_vars PROVE IInv'
  OBVIOUS
<1>1. CASE Poll \/ Status \/ Recover \/ Crash \/ Stop \/ Start \/ Ask \/ Verify
  BY <1>1, ProcessSteps
<1>2. CASE Prepare \/ Begin \/ Stage \/ Activate \/ Install \/ Select
  BY <1>2, PrepareStep, BeginStep, StageStep, ActivateStep, InstallStep, SelectStep
<1>3. CASE \E o \in Ops : Issue(o) \/ Cancel(o) \/ ArrivesLate(o) \/ SelectElsewhere(o)
  BY <1>3, GatewaySteps, SelectElsewhereStep
<1>4. CASE UNCHANGED vars
  <2>1. UNCHANGED <<process, disk, gateway, crashes>>
    BY <1>4 DEF vars
  <2>2. /\ Operations' /\ SelectedIsActivated' /\ OneLeaf' /\ AcceptedIsNear'
        /\ \A c \in Credentials : Near(c) => Near(c)'
    BY <2>1, ProcessAlone
  <2>3. selected' \in [Credentials -> Ops \cup {None}]
    BY <2>1 DEF IInv, TypeOK, disk
  <2> QED
    BY <2>1, <2>2, <2>3, Recorded DEF disk
<1> QED
  BY <1>1, <1>2, <1>3, <1>4 DEF Next

LEMMA Invariant == Spec => []IInv
  BY InitInv, NextInv, PTL DEF Spec

-----------------------------------------------------------------------------
(* Theorems *)

\* Every reachable state of the rotation is well typed, for every bound.
THEOREM RotationTypes == Spec => []TypeOK
<1>1. IInv => TypeOK
  BY DEF IInv
<1> QED
  BY <1>1, Invariant, PTL

\* Whatever is lost, late or dies, the private key of what the gateway accepts
\* is durable before it accepts it, and a pending operation is of the key that
\* its credential's directory retains.
THEOREM RotationKeepsKeys == Spec => []KeysRetained
<1>1. IInv => KeysRetained
  <2> SUFFICES ASSUME IInv PROVE KeysRetained
    OBVIOUS
  <2>1. \A o \in Ops : Live(o) => gw[o].key = prepared[gw[o].parent]
    BY DEF IInv, Operations
  <2>2. CASE Beyond(accepted)
    BY <2>1, <2>2 DEF Beyond, CandidatesOf, KeysRetained
  <2>3. CASE accepted = Leaf /\ Leaf # 0
    <3>1. PICK d \in Credentials : selected[d] = Leaf
      BY <2>3, LeafIsTheLeaf DEF IInv, IsLeaf
    <3>2. Leaf \in cands
      BY <3>1, LeafIsTheLeaf, Selection, RotationConstants DEF IInv, Credentials, None
    <3> QED
      BY <2>1, <2>3, <3>2 DEF KeysRetained
  <2>4. CASE accepted = 0
    BY <2>1, <2>4 DEF KeysRetained
  <2> QED
    BY <2>2, <2>3, <2>4 DEF IInv, AcceptedIsNear
<1> QED
  BY <1>1, Invariant, PTL

\* A stored selection is of an operation that the gateway activated for the
\* credential beside which it is stored.
THEOREM RotationSelectsActivated == Spec => []SelectedIsActivated
<1>1. IInv => SelectedIsActivated
  BY DEF IInv
<1> QED
  BY <1>1, Invariant, PTL

\* A participant starts with the credential that the gateway accepts then.
THEOREM RotationStartsAccepted == Spec => StartsAccepted
<1>1. IInv /\ [Next]_vars => [phase # "running" /\ cur = None /\ phase' = "running" => cur' = accepted]_vars
  <2> SUFFICES ASSUME IInv, Next, phase # "running", cur = None, phase' = "running"
               PROVE  cur' = accepted
    BY DEF vars
  <2>1. phase \in Starting \cup {"down"}
    BY DEF IInv, Process
  <2>2. CASE Start
    <3>1. CandidatesOf(Leaf) = {} /\ cur' = Leaf
      BY <2>2 DEF Start, Starts, Goto
    <3> QED
      BY <3>1 DEF IInv, AcceptedIsNear, Beyond
  <2>3. CASE Select
    BY <2>3 DEF Select, Starts, Goto, IInv, Process
  <2>4. CASE Verify
    BY <2>4 DEF Verify, Starts, Goto
  <2>5. CASE Ask
    BY <2>5 DEF Ask, Goto
  <2>6. ~(Prepare \/ Begin \/ Poll \/ Stage \/ Activate \/ Status \/ Recover \/ Install \/ Stop)
    BY <2>1 DEF Starting, Prepare, Begin, Poll, Stage, Activate, Status, Recover, Install, Stop
  <2>7. ~Crash /\ \A o \in Ops : ~(Issue(o) \/ Cancel(o) \/ ArrivesLate(o) \/ SelectElsewhere(o))
    BY DEF Crash, Goto, Issue, Cancel, ArrivesLate, SelectElsewhere, process
  <2> QED
    BY <2>2, <2>3, <2>4, <2>5, <2>6, <2>7 DEF Next
<1> QED
  BY <1>1, Invariant, PTL DEF Spec, StartsAccepted

-----------------------------------------------------------------------------
(* The setup around it *)


\* What each advance, an activation on its way and the record rest on.
Advances ==
  \A p \in Setups :
    /\ stage[p] \in {"activate", "record", "open", "resume"} => stored
    /\ stage[p] = "record" => request = "installed"
    /\ stage[p] \in {"open", "resume"} => receipt
Sent == flight => stored
RecordStands == receipt => request = "installed" /\ stored
Used == phase # "down" \/ cands # {} => receipt
\* The pointer never names a generation that is not there.
NamesWhole == stored => whole
SInv == SetupTypes /\ Advances /\ Sent /\ RecordStands /\ NamesWhole /\ AdmittedIsStored /\ Used

LEMMA SetupInitInv == SetupInit => SInv
<1> SUFFICES ASSUME SetupInit PROVE SInv
  OBVIOUS
<1>1. SetupTypes
  <2>1. kind \in Kinds /\ request = "none" /\ pinned \in BOOLEAN /\ stored \in BOOLEAN /\ whole \in BOOLEAN
        /\ receipt \in BOOLEAN /\ flight \in BOOLEAN
    BY Zenon DEF SetupInit
  <2>2. stage \in [Setups -> {"idle"}] /\ seen \in [Setups -> {"none"}]
    BY DEF SetupInit
  <2>3. failures \in 0..MaxFailures
    BY SetupConstants DEF SetupInit
  <2> QED
    BY <2>1, <2>2, <2>3 DEF SetupTypes, Stages
<1>2. Advances /\ Sent /\ RecordStands /\ NamesWhole /\ AdmittedIsStored
  BY DEF SetupInit, Advances, Sent, RecordStands, NamesWhole, AdmittedIsStored, Setups
<1>3. Used
  BY DEF SetupInit, Init, Used
<1> QED
  BY <1>1, <1>2, <1>3 DEF SInv

-----------------------------------------------------------------------------
(* The gateway and the people who decide *)

LEMMA SubmitStep == ASSUME SInv, Submit PROVE SInv'
<1>1. SetupTypes'
  BY DEF SInv, SetupTypes, Submit, vars, Ahead
<1>2. (request' = request \/ request = "none") /\ (request' = "installed" => request = "installed")
  BY DEF Submit
<1>3. UNCHANGED <<vars, stored, whole, receipt, stage, flight>>
  BY DEF Submit
<1>4. Advances' /\ Sent' /\ RecordStands' /\ NamesWhole' /\ AdmittedIsStored'
  BY <1>2, <1>3 DEF SInv, Advances, Sent, RecordStands, NamesWhole, AdmittedIsStored
<1>5. Used'
  BY <1>3 DEF SInv, Used, vars, process, disk
<1> QED
  BY <1>1, <1>4, <1>5 DEF SInv

LEMMA DecideStep == ASSUME SInv, Decide PROVE SInv'
<1>1. SetupTypes'
  BY DEF SInv, SetupTypes, Decide, files, Ahead
<1>2. request # "installed" /\ request' # "installed"
  BY DEF Decide
<1>3. UNCHANGED <<vars, stored, whole, receipt, stage, flight>>
  BY DEF Decide, files
<1>4. Advances' /\ Sent' /\ RecordStands' /\ NamesWhole' /\ AdmittedIsStored'
  BY <1>2, <1>3 DEF SInv, Advances, Sent, RecordStands, NamesWhole, AdmittedIsStored
<1>5. Used'
  BY <1>3 DEF SInv, Used, vars, process, disk
<1> QED
  BY <1>1, <1>4, <1>5 DEF SInv

\* An activation is admitted only of a certificate that is stored.
LEMMA Admitting ==
  ASSUME SInv, stored, Admits \/ UNCHANGED request, UNCHANGED <<stored, whole>>
  PROVE  /\ request' \in Ahead \cup {"none", "pending", "refused"}
         /\ request = "installed" => request' = "installed"
         /\ AdmittedIsStored'
  BY DEF SInv, SetupTypes, Admits, NamesWhole, AdmittedIsStored, Ahead

LEMMA ArrivesAfterAllStep == ASSUME SInv, ArrivesAfterAll PROVE SInv'
<1>1. UNCHANGED <<vars, kind, pinned, stored, whole, receipt, stage, seen, failures>> /\ flight' = FALSE
  BY DEF ArrivesAfterAll, files
<1>2. /\ request' \in Ahead \cup {"none", "pending", "refused"}
      /\ request = "installed" => request' = "installed"
      /\ AdmittedIsStored'
  BY <1>1, Admitting DEF SInv, Sent, ArrivesAfterAll
<1>3. SetupTypes' /\ Advances' /\ Sent' /\ RecordStands' /\ NamesWhole'
  BY <1>1, <1>2 DEF SInv, SetupTypes, Advances, Sent, RecordStands, NamesWhole
<1>4. Used'
  BY <1>1 DEF SInv, Used, vars, process, disk
<1> QED
  BY <1>2, <1>3, <1>4 DEF SInv

-----------------------------------------------------------------------------
(* One advance *)

\* A step of an advance that takes nothing back and earns the stage it reaches.
LEMMA Stepping ==
  ASSUME SInv, NEW p \in Setups, NEW s \in Stages, To(p, s),
         UNCHANGED <<vars, kind>>,
         request' \in Ahead \cup {"none", "pending", "refused"},
         pinned' \in BOOLEAN, stored' \in BOOLEAN, whole' \in BOOLEAN, receipt' \in BOOLEAN, flight' \in BOOLEAN,
         seen' \in [Setups -> Ahead \cup {"none"}], failures' \in 0..MaxFailures,
         request = "installed" => request' = "installed",
         stored => stored', receipt => receipt',
         Sent', RecordStands', NamesWhole', AdmittedIsStored',
         s \in {"activate", "record", "open", "resume"} => stored',
         s = "record" => request' = "installed",
         s \in {"open", "resume"} => receipt'
  PROVE  SInv'
<1>1. stage' \in [Setups -> Stages] /\ stage'[p] = s /\ \A q \in Setups : q # p => stage'[q] = stage[q]
  BY DEF SInv, SetupTypes, To
<1>2. SetupTypes'
  BY <1>1 DEF SInv, SetupTypes
<1>3. Advances'
  BY <1>1 DEF SInv, Advances
<1>4. Used'
  BY DEF SInv, Used, vars, process, disk
<1> QED
  BY <1>2, <1>3, <1>4 DEF SInv

LEMMA Telling ==
  ASSUME SInv, NEW p \in Setups, NEW t \in Ahead \cup {"none"}, seen' = [seen EXCEPT ![p] = t]
  PROVE  seen' \in [Setups -> Ahead \cup {"none"}]
  BY DEF SInv, SetupTypes

\* Neither the files nor the request: the stage it reaches rests on what is there.
LEMMA Moving ==
  ASSUME SInv, NEW p \in Setups, NEW s \in Stages, To(p, s),
         UNCHANGED <<vars, kind, request, files, flight, failures>>,
         seen' \in [Setups -> Ahead \cup {"none"}],
         s \in {"activate", "record", "open", "resume"} => stored,
         s = "record" => request = "installed",
         s \in {"open", "resume"} => receipt
  PROVE  SInv'
<1>1. SetupTypes /\ Sent' /\ RecordStands' /\ NamesWhole' /\ AdmittedIsStored'
  BY DEF SInv, files, Sent, RecordStands, NamesWhole, AdmittedIsStored
<1>2. /\ request' \in Ahead \cup {"none", "pending", "refused"} /\ failures' \in 0..MaxFailures
      /\ pinned' \in BOOLEAN /\ stored' \in BOOLEAN /\ whole' \in BOOLEAN /\ receipt' \in BOOLEAN /\ flight' \in BOOLEAN
  BY <1>1 DEF SetupTypes, files
<1> QED
  BY <1>1, <1>2, Stepping DEF files

LEMMA QuietStep ==
  ASSUME SInv, NEW p \in Setups, Advance(p) \/ AskStatus(p) \/ Load(p) \/ Fetch(p)
  PROVE  SInv'
<1>1. CASE Advance(p)
  <2>1. PICK s \in {"recover", "status"} : To(p, s)
    BY <1>1 DEF Advance
  <2> QED
    BY <1>1, <2>1, Moving, Telling DEF Advance, Others, Stages
<1>2. CASE AskStatus(p)
  <2>1. CASE request \in Ahead
    BY <1>2, <2>1, Moving, Telling DEF AskStatus, Stages
  <2>2. CASE request \notin Ahead
    BY <1>2, <2>2, Moving DEF AskStatus, Stages, SInv, SetupTypes
  <2> QED
    BY <2>1, <2>2
<1>3. CASE Load(p)
  <2>1. PICK s \in Stages : To(p, s) /\ s # "record" /\ (s = "activate" => stored)
                            /\ (s \in {"open", "resume"} => receipt)
    BY <1>3 DEF Load, Found, Stages
  <2>2. receipt => stored
    BY Zenon DEF SInv, RecordStands
  <2>3. seen' \in [Setups -> Ahead \cup {"none"}]
    BY <1>3, Telling DEF Load, Others
  <2>4. UNCHANGED <<vars, kind, request, files, flight, failures>>
    BY <1>3 DEF Load, Others
  <2>5. s \in {"activate", "record", "open", "resume"} => stored
    <3>1. s = "activate" => stored
      BY <2>1
    <3>2. s \in {"open", "resume"} => stored
      BY <2>1, <2>2, Zenon
    <3>3. s \in {"activate", "record", "open", "resume"} => s = "activate" \/ s \in {"open", "resume"}
      BY <2>1
    <3> QED
      BY <3>1, <3>2, <3>3, Zenon
  <2> QED
    BY <2>1, <2>3, <2>4, <2>5, Moving, Zenon
<1>4. CASE Fetch(p)
  <2>1. PICK s \in {"commit", "idle"} : To(p, s)
    BY <1>4 DEF Fetch
  <2> QED
    BY <1>4, <2>1, Moving, Telling DEF Fetch, Others, Stages
<1> QED
  BY <1>1, <1>2, <1>3, <1>4

LEMMA RecoversStep == ASSUME SInv, NEW p \in Setups, Recovers(p) PROVE SInv'
<1>1. /\ UNCHANGED <<vars, kind, flight, failures, request, stored, whole, receipt>>
      /\ seen' = [seen EXCEPT ![p] = "none"]
  BY DEF Recovers, Others
<1>2. pinned' \in BOOLEAN
  BY Zenon DEF Recovers, SInv, SetupTypes
<1>3. PICK s \in {"idle", "status"} : To(p, s)
  BY DEF Recovers
<1>4. seen' \in [Setups -> Ahead \cup {"none"}]
  BY <1>1, Telling
<1>5. SetupTypes /\ Sent' /\ RecordStands' /\ NamesWhole' /\ AdmittedIsStored'
  BY <1>1 DEF SInv, Sent, RecordStands, NamesWhole, AdmittedIsStored
<1>6. /\ request' \in Ahead \cup {"none", "pending", "refused"} /\ failures' \in 0..MaxFailures
      /\ stored' \in BOOLEAN /\ whole' \in BOOLEAN /\ receipt' \in BOOLEAN /\ flight' \in BOOLEAN
  BY <1>1, <1>5 DEF SetupTypes
<1> QED
  BY <1>1, <1>2, <1>3, <1>4, <1>5, <1>6, Stepping DEF Stages

LEMMA ClaimStep == ASSUME SInv, NEW p \in Setups, Claim(p) PROVE SInv'
<1>1. /\ UNCHANGED <<vars, kind, flight, failures, pinned, stored, whole, receipt>> /\ To(p, "idle")
      /\ seen' = [seen EXCEPT ![p] = "none"]
  BY DEF Claim, Others, files
<1>2. /\ request' \in Ahead \cup {"none", "pending", "refused"}
      /\ request' = "installed" <=> request = "installed"
  BY DEF Claim, SInv, SetupTypes, Ahead
<1>3. seen' \in [Setups -> Ahead \cup {"none"}]
  BY <1>1, Telling
<1>4. SetupTypes /\ Sent' /\ RecordStands' /\ NamesWhole' /\ AdmittedIsStored'
  BY <1>1, <1>2 DEF SInv, Sent, RecordStands, NamesWhole, AdmittedIsStored
<1>5. /\ failures' \in 0..MaxFailures /\ pinned' \in BOOLEAN
      /\ stored' \in BOOLEAN /\ whole' \in BOOLEAN /\ receipt' \in BOOLEAN /\ flight' \in BOOLEAN
  BY <1>1, <1>4 DEF SetupTypes
<1> QED
  BY <1>1, <1>2, <1>3, <1>4, <1>5, Stepping DEF Stages

LEMMA CommitStep == ASSUME SInv, NEW p \in Setups, Commit(p) PROVE SInv'
<1>1. /\ UNCHANGED <<vars, kind, flight, failures, request, pinned, receipt>>
      /\ seen' = [seen EXCEPT ![p] = "none"]
  BY DEF Commit, Others
<1>2. stored \in BOOLEAN /\ whole \in BOOLEAN /\ (stored => whole)
  BY DEF SInv, SetupTypes, NamesWhole
<1>3. stored' /\ whole'
  BY <1>2, Zenon DEF Commit
<1>4. stored' \in BOOLEAN /\ whole' \in BOOLEAN
  BY <1>2, Zenon DEF Commit
<1>5. PICK s \in {"activate", "idle"} : To(p, s)
  BY DEF Commit
<1>6. seen' \in [Setups -> Ahead \cup {"none"}]
  BY <1>1, Telling
<1>7. SetupTypes /\ Sent' /\ RecordStands' /\ NamesWhole' /\ AdmittedIsStored'
  BY <1>1, <1>3 DEF SInv, Sent, RecordStands, NamesWhole, AdmittedIsStored
<1>8. /\ request' \in Ahead \cup {"none", "pending", "refused"} /\ failures' \in 0..MaxFailures
      /\ pinned' \in BOOLEAN /\ receipt' \in BOOLEAN /\ flight' \in BOOLEAN
  BY <1>1, <1>7 DEF SetupTypes
<1> QED
  BY <1>1, <1>3, <1>4, <1>5, <1>6, <1>7, <1>8, Stepping DEF Stages

LEMMA ActivateFirstStep == ASSUME SInv, NEW p \in Setups, ActivateFirst(p) PROVE SInv'
<1>1. /\ UNCHANGED <<vars, kind, flight, failures, pinned, stored, whole, receipt>>
      /\ seen' = [seen EXCEPT ![p] = "none"]
  BY DEF ActivateFirst, Others, files
<1>2. stored /\ (Admits \/ UNCHANGED request)
  BY DEF ActivateFirst, At, SInv, Advances
<1>3. /\ request' \in Ahead \cup {"none", "pending", "refused"}
      /\ request = "installed" => request' = "installed"
      /\ AdmittedIsStored'
  BY <1>1, <1>2, Admitting
<1>4. PICK s \in {"idle", "record"} : To(p, s) /\ (s = "record" => request' = "installed")
  BY DEF ActivateFirst, Admits
<1>5. seen' \in [Setups -> Ahead \cup {"none"}]
  BY <1>1, Telling
<1>6. SetupTypes /\ Sent' /\ RecordStands' /\ NamesWhole'
  BY <1>1, <1>3 DEF SInv, Sent, RecordStands, NamesWhole
<1>7. /\ failures' \in 0..MaxFailures /\ pinned' \in BOOLEAN
      /\ stored' \in BOOLEAN /\ whole' \in BOOLEAN /\ receipt' \in BOOLEAN /\ flight' \in BOOLEAN
  BY <1>1, <1>6 DEF SetupTypes
<1> QED
  BY <1>1, <1>2, <1>3, <1>4, <1>5, <1>6, <1>7, Stepping DEF Stages

LEMMA RecordStep == ASSUME SInv, NEW p \in Setups, Record(p) PROVE SInv'
<1>1. /\ UNCHANGED <<vars, kind, flight, failures, request, pinned, stored, whole>> /\ To(p, "open")
      /\ seen' = [seen EXCEPT ![p] = "none"] /\ receipt'
  BY DEF Record, Others
<1>2. receipt' \in BOOLEAN
  BY DEF Record
<1>3. stored /\ request = "installed"
  BY DEF Record, At, SInv, Advances
<1>4. seen' \in [Setups -> Ahead \cup {"none"}]
  BY <1>1, Telling
<1>5. SetupTypes /\ Sent' /\ RecordStands' /\ NamesWhole' /\ AdmittedIsStored'
  BY <1>1, <1>3 DEF SInv, Sent, RecordStands, NamesWhole, AdmittedIsStored
<1>6. /\ request' \in Ahead \cup {"none", "pending", "refused"} /\ failures' \in 0..MaxFailures
      /\ pinned' \in BOOLEAN /\ stored' \in BOOLEAN /\ whole' \in BOOLEAN /\ flight' \in BOOLEAN
  BY <1>1, <1>5 DEF SetupTypes
<1> QED
  BY <1>1, <1>2, <1>3, <1>4, <1>5, <1>6, Stepping DEF Stages

LEMMA FailsStep == ASSUME SInv, NEW p \in Setups, Fails(p) PROVE SInv'
<1>1. UNCHANGED <<vars, kind, request, pinned, stored, whole, receipt>> /\ To(p, "idle")
      /\ seen' = [seen EXCEPT ![p] = "none"]
  BY DEF Fails, files
<1>2. flight' \in BOOLEAN /\ Sent'
  <2>1. stage[p] = "activate" => stored
    BY DEF SInv, Advances
  <2>2. flight' = flight \/ flight' = (flight \/ stage[p] = "activate")
    BY DEF Fails, At
  <2>3. flight \in BOOLEAN /\ (flight => stored) /\ stored' = stored
    BY <1>1 DEF SInv, SetupTypes, Sent
  <2>4. flight' => flight \/ stage[p] = "activate"
    BY <2>2, Zenon
  <2>5. flight' \in BOOLEAN
    BY <2>2, <2>3
  <2> QED
    BY <2>1, <2>3, <2>4, <2>5, Zenon DEF Sent
<1>3. failures' \in 0..MaxFailures
  BY SetupConstants DEF Fails, SInv, SetupTypes
<1>4. seen' \in [Setups -> Ahead \cup {"none"}]
  BY <1>1, Telling
<1>5. SetupTypes /\ RecordStands' /\ NamesWhole' /\ AdmittedIsStored'
  BY <1>1 DEF SInv, RecordStands, NamesWhole, AdmittedIsStored
<1>6. /\ request' \in Ahead \cup {"none", "pending", "refused"}
      /\ pinned' \in BOOLEAN /\ stored' \in BOOLEAN /\ whole' \in BOOLEAN /\ receipt' \in BOOLEAN
  BY <1>1, <1>5 DEF SetupTypes
<1> QED
  BY <1>1, <1>2, <1>3, <1>4, <1>5, <1>6, Stepping DEF Stages

-----------------------------------------------------------------------------
(* The participant and its rotations *)

LEMMA LooksStep == ASSUME SInv, LookEnds PROVE SInv'
<1>1. /\ UNCHANGED <<kind, request, files, seen, flight, failures>> /\ To("look", "idle")
      /\ UNCHANGED <<phase, cands>>
  BY DEF LookEnds, SelectElsewhere, vars, process, disk
<1>2. stage' \in [Setups -> Stages] /\ \A q \in Setups : stage'[q] \in {stage[q], "idle"}
  BY <1>1 DEF SInv, SetupTypes, To, Setups, Stages
<1>3. SetupTypes'
  BY <1>1, <1>2 DEF SInv, SetupTypes, files
<1>4. Advances' /\ Sent' /\ RecordStands' /\ NamesWhole' /\ AdmittedIsStored' /\ Used'
  BY <1>1, <1>2 DEF SInv, Advances, Sent, RecordStands, NamesWhole, AdmittedIsStored, Used, files
<1> QED
  BY <1>3, <1>4 DEF SInv

LEMMA OpenStep == ASSUME SInv, Open PROVE SInv'
<1>1. /\ UNCHANGED <<kind, request, files, seen, flight, failures>> /\ To("run", "idle")
      /\ stage["run"] \in {"open", "resume"}
  BY DEF Open
<1>2. stage' \in [Setups -> Stages] /\ \A q \in Setups : stage'[q] \in {stage[q], "idle"}
  BY <1>1 DEF SInv, SetupTypes, To, Setups, Stages
<1>3. receipt
  BY <1>1 DEF SInv, Advances, Setups
<1>4. SetupTypes'
  BY <1>1, <1>2 DEF SInv, SetupTypes, files
<1>5. Advances' /\ Sent' /\ RecordStands' /\ NamesWhole' /\ AdmittedIsStored' /\ Used'
  BY <1>1, <1>2, <1>3 DEF SInv, Advances, Sent, RecordStands, NamesWhole, AdmittedIsStored, Used, files
<1> QED
  BY <1>4, <1>5 DEF SInv

\* A process that is down stays down while no participant is opened.
LEMMA RotationStep == ASSUME SInv, Rotation, UNCHANGED setup PROVE SInv'
<1>1. UNCHANGED <<kind, request, pinned, stored, whole, receipt, stage, seen, flight, failures>>
  BY DEF setup, files
<1>2. phase # "down" \/ (phase' = "down" /\ cands' = cands)
  BY DEF Rotation, Prepare, Begin, Poll, Stage, Activate, Status, Recover, Install,
         Crash, Stop, Ask, Select, Verify, Issue, Cancel, ArrivesLate, process, disk
<1>3. SetupTypes' /\ Advances' /\ Sent' /\ RecordStands' /\ NamesWhole' /\ AdmittedIsStored'
  BY <1>1 DEF SInv, SetupTypes, Advances, Sent, RecordStands, NamesWhole, AdmittedIsStored
<1>4. Used'
  BY <1>1, <1>2 DEF SInv, Used
<1> QED
  BY <1>3, <1>4 DEF SInv

LEMMA SetupStutter == ASSUME SInv, UNCHANGED setupVars PROVE SInv'
  BY DEF SInv, SetupTypes, Advances, Sent, RecordStands, NamesWhole, AdmittedIsStored, Used,
         setupVars, setup, files, vars, process, disk

LEMMA SetupInvariant == SInv /\ [SetupNext]_setupVars => SInv'
  BY SubmitStep, DecideStep, ArrivesAfterAllStep, QuietStep, RecoversStep, ClaimStep, CommitStep,
     ActivateFirstStep, RecordStep, FailsStep, OpenStep, LooksStep, RotationStep, SetupStutter
  DEF SetupNext, AdvanceStep

\* Every variable of a setup keeps to its states.
THEOREM SetupTypesHold == SetupSpec => []SetupTypes
<1>1. SInv => SetupTypes
  BY DEF SInv
<1> QED
  BY <1>1, SetupInitInv, SetupInvariant, PTL DEF SetupSpec

\* What the gateway has installed is on disk, whatever several advances do or
\* fail to do beside each other (workload_setup_flow.py, native_setup_flow.py).
THEOREM SetupStores == SetupSpec => []AdmittedIsStored
<1>1. SInv => AdmittedIsStored
  BY DEF SInv
<1> QED
  BY <1>1, SetupInitInv, SetupInvariant, PTL DEF SetupSpec

\* A participant runs, and a certificate is rotated, only after the activation
\* of the first one is on record (workload_activation_receipt.py).
THEOREM SetupRecords == SetupSpec => []OpenedIsRecorded
<1>1. SInv => OpenedIsRecorded
  BY DEF SInv, Used, RecordStands, NamesWhole, OpenedIsRecorded
<1> QED
  BY <1>1, SetupInitInv, SetupInvariant, PTL DEF SetupSpec

-----------------------------------------------------------------------------
(* Around the setup, a rotation as it is specified alone *)

LEMMA SetupIsNext ==
  ASSUME TypeOK, [SetupNext]_setupVars
  PROVE  [Next]_vars
<1>1. ASSUME UNCHANGED vars PROVE [Next]_vars
  BY <1>1
<1>2. CASE Open
  BY <1>2 DEF Open, Next
<1>3. CASE LookEnds
  <2>1. ASSUME CandidatesOf(Leaf) # {} PROVE First(CandidatesOf(Leaf)) \in Ops
    <3>1. CandidatesOf(Leaf) \in SUBSET Ops
      BY DEF CandidatesOf, TypeOK
    <3> QED
      BY <2>1, <3>1, FirstIsOneOf
  <2> QED
    BY <1>3, <2>1 DEF LookEnds, Next
<1>4. CASE Rotation
  BY <1>4 DEF Rotation, Next
<1>5. CASE Submit \/ Decide \/ ArrivesAfterAll \/ UNCHANGED setupVars
  BY <1>5 DEF Submit, Decide, ArrivesAfterAll, setupVars
<1>6. ASSUME NEW p \in Setups, AdvanceStep(p) \/ Fails(p) PROVE UNCHANGED vars
  BY <1>6 DEF AdvanceStep, Advance, Recovers, AskStatus, Load, Claim, Fetch, Commit,
              ActivateFirst, Record, Fails, Others
<1> QED
  BY <1>1, <1>2, <1>3, <1>4, <1>5, <1>6 DEF SetupNext

\* Setup and rotation together implement the rotation as it is specified alone:
\* another advance only ever selects what an operation of the participant left
\* (workload_setup_flow.py, retained_rotation.py).
THEOREM SetupIsRotation == SetupSpec => Spec
<1>1. SetupInit => Init
  BY DEF SetupInit
<1>2. IInv /\ [SetupNext]_setupVars => [Next]_vars /\ IInv'
  BY SetupIsNext, NextInv DEF IInv
<1> QED
  BY <1>1, <1>2, InitInv, PTL DEF SetupSpec, Spec

\* So that what is proved of the rotation alone holds of the whole connection
\* (participant_rotation.py, rotation_recovery.py beside workload_setup_flow.py).
THEOREM ConnectionKeepsKeys == SetupSpec => []KeysRetained
  BY SetupIsRotation, RotationKeepsKeys, PTL

\* The selections of a connection are activated ones (retained_rotation.py).
THEOREM ConnectionSelectsActivated == SetupSpec => []SelectedIsActivated
  BY SetupIsRotation, RotationSelectsActivated, PTL

\* A connection starts with the credential the gateway accepts (retained_rotation.py).
THEOREM ConnectionStartsAccepted == SetupSpec => StartsAccepted
  BY SetupIsRotation, RotationStartsAccepted, PTL
=============================================================================
