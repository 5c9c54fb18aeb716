------------------------- MODULE RuntimeSupervisorProofs -------------------------
(***************************************************************************)
(* Proofs about the local service for every number of hosts and bridges:   *)
(* a reconciler has an entry for exactly what runs, and nothing it can     *)
(* reach is left when the service has ended.                               *)
(***************************************************************************)
EXTENDS RuntimeSupervisor, TLAPS

HostRecord ==
  [pc : {"idle", "todo", "stopping", "verifying", "starting", "failing", "failingRetry",
         "closing", "stuck"},
   sel : Selections \cup {None, Unreadable}]
BridgeRecord ==
  [pc : {"none", "verifying", "opening", "running", "cleaning", "done"},
   sel : Selections \cup {None}, cancels : 0..2,
   end : {"none", "cancelled", "returned", "failed", "retry"}]
ScanRecord ==
  [pc : {"idle", "todo", "comparing", "stopAll"}, todo : SUBSET Bridges,
   at : SUBSET Bridges, selected : [Bridges -> Selections \cup {None}]]

\* The states of every variable; the file of a bridge is read as a whole, so a
\* single one is never unreadable.
TypeInv ==
  /\ sup \in {"waiting", "reconciling", "finishing", "closing", "ended"}
  /\ {signal, interrupt, error, readable} \subseteq BOOLEAN
  /\ choice \in [Services -> Selections \cup {None, Unreadable}]
  /\ \A b \in Bridges : choice[b] # Unreadable
  /\ changes \in 0..MaxChanges /\ faults \in 0..MaxFaults
  /\ host \in [Hosts -> HostRecord]
  /\ active \in [Hosts -> Selections \cup {None}]
  /\ failed \in [Services -> Selections \cup {None}]
  /\ retry \in [Services -> Selections \cup {None}]
  /\ scan \in ScanRecord
  /\ bridge \in [Bridges -> BridgeRecord]
  /\ live \in [Services -> Int]

\* Where the reconciliation of a host stands tells what it has an entry for: it
\* verifies and starts a selection only when nothing else is entered.
HostEntered(h) ==
  /\ host[h].pc \in {"stopping", "closing"} => active[h] # None
  /\ host[h].pc = "verifying" => active[h] = None /\ host[h].sel \in Selections
  /\ host[h].pc \in {"starting", "failing", "failingRetry"} =>
       active[h] = host[h].sel /\ host[h].sel \in Selections

Entered == \A h \in Hosts : HostEntered(h)

\* The work of a reconciliation goes on only until the supervisor has joined it;
\* what has an entry then is closed, or its stop has failed.
Phased ==
  /\ sup \notin {"reconciling", "finishing"} => scan.pc = "idle"
  /\ scan.pc = "idle" => scan.todo = {} /\ scan.at = {}
  /\ sup = "waiting" => \A h \in Hosts : host[h].pc = "idle"
  /\ sup \in {"closing", "ended"} =>
       \A h \in Hosts : \/ host[h].pc \in {"closing", "stuck"}
                        \/ host[h].pc = "idle" /\ active[h] = None
  /\ sup \notin {"closing", "ended"} => \A h \in Hosts : host[h].pc \notin {"closing", "stuck"}
  /\ sup = "ended" =>
       /\ \A b \in Bridges : bridge[b].pc = "none"
       /\ \A h \in Hosts : host[h].pc # "closing"

IInv == TypeInv /\ Entered /\ OneRuntime /\ Phased

-----------------------------------------------------------------------------
HostPcs == {"idle", "todo", "stopping", "verifying", "starting", "failing", "failingRetry",
            "closing", "stuck"}
TaskPcs == {"verifying", "opening", "running", "cleaning", "done"}
Ends == {"none", "cancelled", "returned", "failed", "retry"}

LEMMA TypesOK == TypeInv => TypeOK
  BY DEF TypeInv, TypeOK, HostRecord, BridgeRecord, ScanRecord

\* A cancellation reaches a task wherever it stands, and stops nothing itself.
LEMMA CountedTask ==
  ASSUME NEW t \in BridgeRecord
  PROVE  [t EXCEPT !.cancels = 1] \in BridgeRecord /\ [t EXCEPT !.cancels = 1].pc = t.pc
  BY DEF BridgeRecord

LEMMA EndedTask ==
  ASSUME NEW t \in BridgeRecord, NEW pc \in TaskPcs, NEW end \in Ends
  PROVE  /\ [t EXCEPT !.pc = pc, !.end = end] \in BridgeRecord
         /\ [t EXCEPT !.pc = pc, !.end = end].pc = pc
  BY DEF BridgeRecord, TaskPcs, Ends

Alive == {"opening", "running", "cleaning"}

LEMMA CancelledTask ==
  ASSUME NEW t \in BridgeRecord
  PROVE  /\ Cancelled(t) \in BridgeRecord
         /\ Cancelled(t).pc = "none" <=> t.pc = "none"
         /\ Cancelled(t).pc \in Alive <=> t.pc \in Alive
<1> USE DEF Alive
<1>1. CASE t.pc \in {"none", "done"} \/ t.cancels > 0
  BY <1>1 DEF Cancelled
<1>2. CASE ~(t.pc \in {"none", "done"} \/ t.cancels > 0)
  <2>0. Cancelled(t) = AfterCancel(t) /\ t.cancels = 0
    BY <1>2 DEF Cancelled, BridgeRecord
  <2>1. CASE t.pc = "verifying"
    <3> DEFINE u == [t EXCEPT !.pc = "done", !.end = "cancelled"]
    <3>1. AfterCancel(t) = [u EXCEPT !.cancels = 1]
      BY <2>1 DEF AfterCancel
    <3>2. u \in BridgeRecord /\ u.pc = "done"
      BY EndedTask DEF TaskPcs, Ends
    <3>3. [u EXCEPT !.cancels = 1] \in BridgeRecord /\ [u EXCEPT !.cancels = 1].pc = "done"
      <4> HIDE DEF u
      <4> QED
        BY <3>2, CountedTask
    <3> QED
      BY <2>0, <2>1, <3>1, <3>3
  <2>2. CASE t.pc \in {"opening", "running"}
    <3> DEFINE u == [t EXCEPT !.pc = "cleaning", !.end = "cancelled"]
    <3>1. AfterCancel(t) = [u EXCEPT !.cancels = 1]
      BY <2>2 DEF AfterCancel
    <3>2. u \in BridgeRecord /\ u.pc = "cleaning"
      BY EndedTask DEF TaskPcs, Ends
    <3>3. [u EXCEPT !.cancels = 1] \in BridgeRecord /\ [u EXCEPT !.cancels = 1].pc = "cleaning"
      <4> HIDE DEF u
      <4> QED
        BY <3>2, CountedTask
    <3> QED
      BY <2>0, <2>2, <3>1, <3>3
  <2>3. CASE t.pc = "cleaning"
    <3>1. AfterCancel(t) = [[t EXCEPT !.pc = "cleaning"] EXCEPT !.cancels = 1]
      BY <2>0, <2>3 DEF AfterCancel
    <3>2. [t EXCEPT !.pc = "cleaning"] = t
      BY <2>3 DEF BridgeRecord
    <3>3. AfterCancel(t) = [t EXCEPT !.cancels = 1]
      BY <3>1, <3>2
    <3> QED
      BY <2>0, <2>3, <3>3, CountedTask
  <2> QED
    BY <1>2, <2>1, <2>2, <2>3 DEF BridgeRecord
<1> QED
  BY <1>1, <1>2

LEMMA InvInit == Init => IInv
<1> SUFFICES ASSUME Init PROVE IInv
  OBVIOUS
<1>1. /\ Idle \in HostRecord /\ NoTask \in BridgeRecord /\ ScanIdle \in ScanRecord
      /\ Unreadable # None
  BY DEF Idle, NoTask, ScanIdle, HostRecord, BridgeRecord, ScanRecord, None, Unreadable
<1>2. TypeInv
  <2>1. 0 \in 0..MaxChanges /\ 0 \in 0..MaxFaults
    BY SupervisorConstants
  <2>2. /\ host \in [Hosts -> HostRecord] /\ active \in [Hosts -> Selections \cup {None}]
        /\ scan \in ScanRecord /\ bridge \in [Bridges -> BridgeRecord]
    BY <1>1 DEF Init
  <2>3. /\ choice \in [Services -> Selections \cup {None, Unreadable}]
        /\ failed \in [Services -> Selections \cup {None}]
        /\ retry \in [Services -> Selections \cup {None}]
        /\ live \in [Services -> Int]
    BY DEF Init
  <2>4. {signal, interrupt, error, readable} \subseteq BOOLEAN
    BY DEF Init
  <2> QED
    BY <1>1, <2>1, <2>2, <2>3, <2>4 DEF Init, TypeInv, Services
<1>3. Entered /\ OneRuntime /\ Phased
  BY DEF Init, Entered, HostEntered, OneRuntime, Phased, Idle, NoTask, ScanIdle, Services
<1> QED
  BY <1>2, <1>3 DEF IInv

-----------------------------------------------------------------------------
LEMMA GotoType ==
  ASSUME host \in [Hosts -> HostRecord], NEW h \in Hosts
  PROVE  /\ \A pc \in HostPcs, s \in Selections \cup {None, Unreadable} :
              Goto(h, pc, s) =>
                /\ host' \in [Hosts -> HostRecord] /\ host'[h] = [pc |-> pc, sel |-> s]
                /\ \A g \in Hosts : g # h => host'[g] = host[g]
         /\ Finish(h) =>
              /\ host' \in [Hosts -> HostRecord] /\ host'[h] = Idle
              /\ \A g \in Hosts : g # h => host'[g] = host[g]
<1>1. Idle \in HostRecord
  BY DEF Idle, HostRecord, None
<1>2. \A pc \in HostPcs, s \in Selections \cup {None, Unreadable} : [pc |-> pc, sel |-> s] \in HostRecord
  BY DEF HostRecord, HostPcs
<1> QED
  BY <1>1, <1>2 DEF Goto, Finish

LEMMA TaskType ==
  ASSUME bridge \in [Bridges -> BridgeRecord], NEW b \in Bridges
  PROVE  /\ \A pc \in TaskPcs, end \in Ends :
              Task(b, pc, end) =>
                /\ bridge' \in [Bridges -> BridgeRecord] /\ bridge'[b].pc = pc
                /\ \A a \in Bridges : a # b => bridge'[a] = bridge[a]
         /\ Drop(b) =>
              /\ bridge' \in [Bridges -> BridgeRecord] /\ bridge'[b].pc = "none"
              /\ \A a \in Bridges : a # b => bridge'[a] = bridge[a]
<1>1. NoTask \in BridgeRecord /\ NoTask.pc = "none"
  BY DEF NoTask, BridgeRecord, None
<1>2. ASSUME NEW pc \in TaskPcs, NEW end \in Ends, Task(b, pc, end)
      PROVE  /\ bridge' \in [Bridges -> BridgeRecord] /\ bridge'[b].pc = pc
             /\ \A a \in Bridges : a # b => bridge'[a] = bridge[a]
  <2> DEFINE u == [bridge[b] EXCEPT !.pc = pc, !.end = end]
  <2>1. u \in BridgeRecord /\ u.pc = pc
    BY EndedTask
  <2>2. bridge' = [bridge EXCEPT ![b] = u]
    BY <1>2 DEF Task
  <2> QED
    BY <2>1, <2>2
<1> QED
  BY <1>1, <1>2 DEF Drop

LEMMA RememberType ==
  ASSUME NEW j \in Services, NEW s \in Selections \cup {None}, NEW retryable, Remember(j, s, retryable),
         failed \in [Services -> Selections \cup {None}], retry \in [Services -> Selections \cup {None}]
  PROVE  /\ failed' \in [Services -> Selections \cup {None}]
         /\ retry' \in [Services -> Selections \cup {None}]
  BY DEF Remember

LEMMA CountType ==
  ASSUME NEW retryable, Count(retryable), faults \in 0..MaxFaults PROVE faults' \in 0..MaxFaults
  BY SupervisorConstants DEF Count

\* Changes of the files and of the bookkeeping.
LEMMA FileTypes ==
  ASSUME TypeInv,
         \/ \E j \in Services : Choose(j) \/ RetryDue(j)
         \/ SpoilBridgeFile \/ ShutdownRequested \/ Leave \/ UNCHANGED vars
  PROVE  TypeInv'
<1> USE DEF TypeInv
<1>1. ASSUME NEW j \in Services, Choose(j) PROVE TypeInv'
  <2>1. PICK s \in (IF j \in Hosts THEN Selections \cup {None, Unreadable} ELSE {changes + 1, None}) :
          choice' = [choice EXCEPT ![j] = s]
    BY <1>1 DEF Choose
  <2>2. changes' \in 0..MaxChanges /\ changes + 1 \in Selections
    BY <1>1, SupervisorConstants DEF Choose, Selections
  <2>3. s \in Selections \cup {None, Unreadable} /\ (j \in Bridges => s # Unreadable)
    BY <2>2, SupervisorConstants DEF Selections, None, Unreadable
  <2>4. /\ choice' \in [Services -> Selections \cup {None, Unreadable}]
        /\ \A b \in Bridges : choice'[b] # Unreadable
    BY <2>1, <2>3 DEF Services
  <2> QED
    BY <1>1, <2>2, <2>4 DEF Choose, supervisor, natives, bridges
<1>2. ASSUME NEW j \in Services, RetryDue(j) PROVE TypeInv'
  BY <1>2 DEF RetryDue, supervisor, files, natives, bridges
<1>3. CASE SpoilBridgeFile
  BY <1>3, SupervisorConstants DEF SpoilBridgeFile, supervisor, natives, bridges
<1>4. CASE ShutdownRequested \/ Leave
  BY <1>4 DEF ShutdownRequested, Leave, files, natives, bridges
<1>5. CASE UNCHANGED vars
  BY <1>5 DEF vars, supervisor, files, natives, bridges
<1> QED
  BY <1>1, <1>2, <1>3, <1>4, <1>5

\* They touch nothing that runs and no reconciliation.
LEMMA FileStep ==
  ASSUME IInv,
         \/ \E j \in Services : Choose(j) \/ RetryDue(j)
         \/ SpoilBridgeFile \/ ShutdownRequested \/ Leave \/ UNCHANGED vars
  PROVE  IInv'
<1>1. TypeInv'
  BY FileTypes DEF IInv
<1>2. UNCHANGED <<host, active, bridge, live, scan>>
  BY DEF Choose, RetryDue, SpoilBridgeFile, ShutdownRequested, Leave, vars, natives, bridges
<1>3. \/ sup' = sup
      \/ sup \in {"waiting", "reconciling"} /\ sup' = "finishing"
  BY DEF Choose, RetryDue, SpoilBridgeFile, ShutdownRequested, Leave, vars, supervisor
<1>4. Entered' /\ OneRuntime'
  BY <1>2 DEF IInv, Entered, HostEntered, OneRuntime
<1>5. Phased'
  BY <1>2, <1>3 DEF IInv, Phased
<1> QED
  BY <1>1, <1>4, <1>5 DEF IInv

-----------------------------------------------------------------------------
(* The reconciliation of one host *)

\* What a step of one host's reconciliation has to keep to.
LEMMA HostFrame ==
  ASSUME IInv, TypeInv', NEW h \in Hosts, UNCHANGED <<sup, scan, bridge>>,
         \A g \in Hosts : g # h => host'[g] = host[g] /\ active'[g] = active[g],
         \A j \in Services : j # h => live'[j] = live[j],
         HostEntered(h)',
         live'[h] = IF active'[h] = None THEN 0 ELSE 1,
         host[h].pc \notin {"idle", "stuck"},
         host[h].pc # "closing" => host'[h].pc \notin {"closing", "stuck"},
         host[h].pc = "closing" => host'[h].pc = "stuck" \/ (host'[h].pc = "idle" /\ active'[h] = None)
  PROVE  IInv'
<1>1. Entered'
  BY DEF IInv, Entered, HostEntered
<1>2. OneRuntime'
  <2>1. \A g \in Hosts : live'[g] = IF active'[g] = None THEN 0 ELSE 1
    BY DEF IInv, OneRuntime, Services
  <2>2. \A b \in Bridges : live'[b] = live[b]
    BY SupervisorConstants DEF Services
  <2> QED
    BY <2>1, <2>2 DEF IInv, OneRuntime
<1>3. Phased'
  <2>1. sup # "waiting" /\ (host[h].pc = "closing" <=> sup \in {"closing", "ended"})
    BY DEF IInv, Phased, TypeInv
  <2>2. sup # "ended"
    BY <2>1 DEF IInv, Phased
  <2>3. CASE sup = "closing"
    BY <2>1, <2>3 DEF IInv, Phased
  <2>4. CASE sup # "closing"
    BY <2>1, <2>2, <2>4 DEF IInv, Phased
  <2> QED
    BY <2>3, <2>4
<1> QED
  BY <1>1, <1>2, <1>3 DEF IInv

\* How the steps that neither start nor stop a controller keep to it.
LEMMA HostQuiet ==
  ASSUME IInv, TypeInv', NEW h \in Hosts, UNCHANGED <<sup, scan, bridge, active, live>>,
         \A g \in Hosts : g # h => host'[g] = host[g],
         HostEntered(h)', host[h].pc \notin {"idle", "closing", "stuck"},
         host'[h].pc \notin {"closing", "stuck"}
  PROVE  IInv'
<1>1. live'[h] = IF active'[h] = None THEN 0 ELSE 1
  BY DEF IInv, OneRuntime
<1> QED
  BY <1>1, HostFrame

\* An idle host has nothing to keep.
LEMMA IdleEntered ==
  ASSUME NEW h \in Hosts, host'[h] = Idle PROVE HostEntered(h)' /\ host'[h].pc = "idle"
  BY DEF HostEntered, Idle

LEMMA ForgetType ==
  ASSUME NEW h \in Hosts, Forget(h),
         failed \in [Services -> Selections \cup {None}], retry \in [Services -> Selections \cup {None}]
  PROVE  /\ failed' \in [Services -> Selections \cup {None}]
         /\ retry' \in [Services -> Selections \cup {None}]
  BY DEF Forget, Services

LEMMA HostBeginsInv ==
  ASSUME IInv, NEW h \in Hosts, HostBegins(h) PROVE IInv'
<1> USE DEF IInv
<1>1. UNCHANGED <<supervisor, files, faults, active, bridges, live>> /\ host[h].pc = "todo"
  BY DEF HostBegins
<1>2. choice[h] \in Selections \cup {None, Unreadable} /\ Unreadable # None
      /\ Unreadable \notin Selections /\ None \notin Selections
  BY SupervisorConstants DEF TypeInv, Services, Selections, None, Unreadable
<1>3. CASE active[h] \notin {None, choice[h]}
  <2>1. Goto(h, "stopping", choice[h]) /\ UNCHANGED <<failed, retry>>
    BY <1>3 DEF HostBegins
  <2>2. /\ host' \in [Hosts -> HostRecord] /\ host'[h] = [pc |-> "stopping", sel |-> choice[h]]
        /\ \A g \in Hosts : g # h => host'[g] = host[g]
    BY <1>2, <2>1, GotoType DEF TypeInv, HostPcs
  <2>3. TypeInv'
    BY <1>1, <2>1, <2>2 DEF TypeInv, supervisor, files, bridges
  <2>4. HostEntered(h)'
    BY <1>1, <1>3, <2>2 DEF HostEntered
  <2> QED
    BY <1>1, <2>2, <2>3, <2>4, HostQuiet DEF supervisor, bridges
<1>4. CASE active[h] \in {None, choice[h]} /\ Finish(h)
  <2>1. /\ host' \in [Hosts -> HostRecord] /\ host'[h] = Idle
        /\ \A g \in Hosts : g # h => host'[g] = host[g]
    BY <1>4, GotoType DEF TypeInv
  <2>2. Forget(h) \/ UNCHANGED <<failed, retry>>
    BY <1>4 DEF HostBegins, Continue
  <2>3. TypeInv'
    BY <1>1, <2>1, <2>2, ForgetType DEF TypeInv, supervisor, files, bridges
  <2> QED
    BY <1>1, <2>1, <2>3, IdleEntered, HostQuiet DEF supervisor, bridges
<1>5. CASE active[h] \in {None, choice[h]} /\ ~Finish(h)
  <2>1. /\ choice[h] \in Selections /\ active[h] # choice[h]
        /\ Goto(h, "verifying", choice[h]) /\ UNCHANGED <<failed, retry>>
    BY <1>5 DEF HostBegins, Continue
  <2>2. /\ host' \in [Hosts -> HostRecord] /\ host'[h] = [pc |-> "verifying", sel |-> choice[h]]
        /\ \A g \in Hosts : g # h => host'[g] = host[g]
    BY <1>2, <2>1, GotoType DEF TypeInv, HostPcs
  <2>3. TypeInv'
    BY <1>1, <2>1, <2>2 DEF TypeInv, supervisor, files, bridges
  <2>4. HostEntered(h)'
    BY <1>1, <1>5, <2>1, <2>2 DEF HostEntered
  <2> QED
    BY <1>1, <2>2, <2>3, <2>4, HostQuiet DEF supervisor, bridges
<1> QED
  BY <1>3, <1>4, <1>5

\* A reconciliation that ends leaves the entry as it is.
LEMMA HostLeavesInv ==
  ASSUME IInv, NEW h \in Hosts, HostStopFails(h) \/ HostCancelled(h) PROVE IInv'
<1> USE DEF IInv
<1>1. /\ UNCHANGED <<sup, signal, interrupt, files, faults, active, failed, retry, bridges, live>>
      /\ error' \in BOOLEAN /\ Finish(h) /\ host[h].pc \notin {"idle", "closing", "stuck"}
  BY DEF HostStopFails, HostCancelled, TypeInv, supervisor
<1>2. /\ host' \in [Hosts -> HostRecord] /\ host'[h] = Idle
      /\ \A g \in Hosts : g # h => host'[g] = host[g]
  BY <1>1, GotoType DEF TypeInv
<1>3. TypeInv'
  BY <1>1, <1>2 DEF TypeInv, files, bridges
<1> QED
  BY <1>1, <1>2, <1>3, IdleEntered, HostQuiet DEF bridges

\* A stop takes out the entry and what runs under it together.
LEMMA StopTogether ==
  ASSUME TypeInv, Entered, OneRuntime, NEW h \in Hosts,
         host[h].pc \in {"stopping", "failing", "failingRetry", "closing"},
         active' = [active EXCEPT ![h] = None], live' = [live EXCEPT ![h] = @ - 1]
  PROVE  /\ active' \in [Hosts -> Selections \cup {None}] /\ live' \in [Services -> Int]
         /\ active'[h] = None /\ live'[h] = 0
         /\ \A g \in Hosts : g # h => active'[g] = active[g]
         /\ \A j \in Services : j # h => live'[j] = live[j]
<1>1. active[h] # None
  BY SupervisorConstants DEF Entered, HostEntered, Selections, None
<1>2. live[h] = 1
  BY <1>1 DEF OneRuntime
<1> QED
  BY <1>2 DEF TypeInv, Services

LEMMA HostStopsInv ==
  ASSUME IInv, NEW h \in Hosts, HostStops(h) PROVE IInv'
<1> USE DEF IInv
<1>1. /\ UNCHANGED <<supervisor, files, faults, bridges>>
      /\ active' = [active EXCEPT ![h] = None] /\ live' = [live EXCEPT ![h] = @ - 1]
      /\ host[h].pc \in {"stopping", "failing", "failingRetry"}
  BY DEF HostStops
<1>2. /\ active' \in [Hosts -> Selections \cup {None}] /\ live' \in [Services -> Int]
      /\ active'[h] = None /\ live'[h] = 0
      /\ \A g \in Hosts : g # h => active'[g] = active[g]
      /\ \A j \in Services : j # h => live'[j] = live[j]
  BY <1>1, StopTogether
<1>3. CASE Finish(h)
  <2>1. /\ host' \in [Hosts -> HostRecord] /\ host'[h] = Idle
        /\ \A g \in Hosts : g # h => host'[g] = host[g]
    BY <1>3, GotoType DEF TypeInv
  <2>2. /\ failed' \in [Services -> Selections \cup {None}]
        /\ retry' \in [Services -> Selections \cup {None}]
    <3>1. CASE host[h].pc = "stopping"
      BY <3>1, ForgetType DEF HostStops, TypeInv
    <3>2. CASE host[h].pc \in {"failing", "failingRetry"}
      <4>1. host[h].sel \in Selections /\ h \in Services
        BY <3>2 DEF Entered, HostEntered, Services
      <4>2. Remember(h, host[h].sel, host[h].pc = "failingRetry")
        BY <3>2 DEF HostStops
      <4> QED
        BY <4>1, <4>2, RememberType DEF TypeInv
    <3> QED
      BY <1>1, <3>1, <3>2
  <2>3. TypeInv'
    BY <1>1, <1>2, <2>1, <2>2 DEF TypeInv, supervisor, files, bridges
  <2> QED
    BY <1>1, <1>2, <2>1, <2>3, IdleEntered, HostFrame DEF supervisor, bridges
<1>4. CASE ~Finish(h)
  <2>1. /\ host[h].pc = "stopping" /\ host[h].sel \in Selections
        /\ Goto(h, "verifying", host[h].sel) /\ UNCHANGED <<failed, retry>>
    BY <1>4 DEF HostStops
  <2>2. /\ host' \in [Hosts -> HostRecord] /\ host'[h] = [pc |-> "verifying", sel |-> host[h].sel]
        /\ \A g \in Hosts : g # h => host'[g] = host[g]
    BY <2>1, GotoType DEF TypeInv, HostPcs
  <2>3. TypeInv'
    BY <1>1, <1>2, <2>1, <2>2 DEF TypeInv, supervisor, files, bridges
  <2>4. HostEntered(h)'
    BY <1>2, <2>1, <2>2 DEF HostEntered
  <2> QED
    BY <1>1, <1>2, <2>2, <2>3, <2>4, HostFrame DEF supervisor, bridges
<1> QED
  BY <1>3, <1>4

\* A controller is started only where nothing is entered, and entered with it.
LEMMA HostVerifiedInv ==
  ASSUME IInv, NEW h \in Hosts, HostVerified(h) PROVE IInv'
<1> USE DEF IInv
<1>1. UNCHANGED <<supervisor, files, bridges>> /\ host[h].pc = "verifying"
  BY DEF HostVerified
<1>2. active[h] = None /\ host[h].sel \in Selections /\ live[h] = 0 /\ h \in Services
  BY <1>1 DEF Entered, HostEntered, OneRuntime, Services
<1>3. ASSUME Goto(h, "starting", host[h].sel), UNCHANGED <<failed, retry, faults>>,
             active' = [active EXCEPT ![h] = host[h].sel], live' = [live EXCEPT ![h] = @ + 1]
      PROVE  IInv'
  <2>1. /\ host' \in [Hosts -> HostRecord] /\ host'[h] = [pc |-> "starting", sel |-> host[h].sel]
        /\ \A g \in Hosts : g # h => host'[g] = host[g]
    BY <1>2, <1>3, GotoType DEF TypeInv, HostPcs
  <2>2. /\ active' \in [Hosts -> Selections \cup {None}] /\ live' \in [Services -> Int]
        /\ active'[h] = host[h].sel /\ live'[h] = 1
        /\ \A g \in Hosts : g # h => active'[g] = active[g]
        /\ \A j \in Services : j # h => live'[j] = live[j]
    BY <1>2, <1>3 DEF TypeInv
  <2>3. TypeInv'
    BY <1>1, <1>3, <2>1, <2>2 DEF TypeInv, supervisor, files, bridges
  <2>4. HostEntered(h)' /\ host[h].sel # None
    BY <1>2, <2>1, <2>2, SupervisorConstants DEF HostEntered, Selections, None
  <2> QED
    BY <1>1, <2>1, <2>2, <2>3, <2>4, HostFrame DEF supervisor, bridges
<1>4. ASSUME Finish(h), UNCHANGED <<active, live>>,
             \/ UNCHANGED <<failed, retry, faults>>
             \/ \E retryable \in BOOLEAN : Remember(h, host[h].sel, retryable) /\ Count(retryable)
      PROVE  IInv'
  <2>1. /\ host' \in [Hosts -> HostRecord] /\ host'[h] = Idle
        /\ \A g \in Hosts : g # h => host'[g] = host[g]
    BY <1>4, GotoType DEF TypeInv
  <2>2. /\ failed' \in [Services -> Selections \cup {None}]
        /\ retry' \in [Services -> Selections \cup {None}] /\ faults' \in 0..MaxFaults
    BY <1>2, <1>4, RememberType, CountType DEF TypeInv
  <2>3. TypeInv'
    BY <1>1, <1>4, <2>1, <2>2 DEF TypeInv, supervisor, files, bridges
  <2> QED
    BY <1>1, <1>4, <2>1, <2>3, IdleEntered, HostQuiet DEF supervisor, bridges
<1> QED
  BY <1>3, <1>4 DEF HostVerified

LEMMA HostStartedInv ==
  ASSUME IInv, NEW h \in Hosts, HostStarted(h) PROVE IInv'
<1> USE DEF IInv
<1>1. UNCHANGED <<supervisor, files, active, bridges, live>> /\ host[h].pc = "starting"
  BY DEF HostStarted
<1>2. active[h] = host[h].sel /\ host[h].sel \in Selections
  BY <1>1 DEF Entered, HostEntered
<1>3. ASSUME Finish(h), Forget(h), UNCHANGED faults PROVE IInv'
  <2>1. /\ host' \in [Hosts -> HostRecord] /\ host'[h] = Idle
        /\ \A g \in Hosts : g # h => host'[g] = host[g]
    BY <1>3, GotoType DEF TypeInv
  <2>2. TypeInv'
    BY <1>1, <1>3, <2>1, ForgetType DEF TypeInv, supervisor, files, bridges
  <2> QED
    BY <1>1, <2>1, <2>2, IdleEntered, HostQuiet DEF supervisor, bridges
<1>4. ASSUME UNCHANGED <<failed, retry>>, NEW retryable \in BOOLEAN, Count(retryable),
             Goto(h, IF retryable THEN "failingRetry" ELSE "failing", host[h].sel)
      PROVE  IInv'
  <2> DEFINE pc == IF retryable THEN "failingRetry" ELSE "failing"
  <2>1. pc \in {"failing", "failingRetry"} /\ pc \in HostPcs
    BY DEF HostPcs
  <2>2. /\ host' \in [Hosts -> HostRecord] /\ host'[h] = [pc |-> pc, sel |-> host[h].sel]
        /\ \A g \in Hosts : g # h => host'[g] = host[g]
    BY <1>2, <1>4, <2>1, GotoType DEF TypeInv
  <2> HIDE DEF pc
  <2>3. TypeInv'
    BY <1>1, <1>4, <2>2, CountType DEF TypeInv, supervisor, files, bridges
  <2>4. HostEntered(h)'
    BY <1>1, <1>2, <2>1, <2>2 DEF HostEntered
  <2> QED
    BY <1>1, <2>1, <2>2, <2>3, <2>4, HostQuiet DEF supervisor, bridges
<1> QED
  BY <1>3, <1>4 DEF HostStarted

LEMMA HostClosesInv ==
  ASSUME IInv, NEW h \in Hosts, HostCloses(h) PROVE IInv'
<1> USE DEF IInv
<1>1. UNCHANGED <<supervisor, files, faults, failed, retry, bridges>> /\ host[h].pc = "closing"
  BY DEF HostCloses
<1>2. ASSUME Finish(h), active' = [active EXCEPT ![h] = None], live' = [live EXCEPT ![h] = @ - 1]
      PROVE  IInv'
  <2>1. /\ active' \in [Hosts -> Selections \cup {None}] /\ live' \in [Services -> Int]
        /\ active'[h] = None /\ live'[h] = 0
        /\ \A g \in Hosts : g # h => active'[g] = active[g]
        /\ \A j \in Services : j # h => live'[j] = live[j]
    BY <1>1, <1>2, StopTogether
  <2>2. /\ host' \in [Hosts -> HostRecord] /\ host'[h] = Idle
        /\ \A g \in Hosts : g # h => host'[g] = host[g]
    BY <1>2, GotoType DEF TypeInv
  <2>3. TypeInv'
    BY <1>1, <2>1, <2>2 DEF TypeInv, supervisor, files, bridges
  <2> QED
    BY <1>1, <2>1, <2>2, <2>3, IdleEntered, HostFrame DEF supervisor, bridges
<1>3. ASSUME Goto(h, "stuck", None), UNCHANGED <<active, live>> PROVE IInv'
  <2>1. /\ host' \in [Hosts -> HostRecord] /\ host'[h] = [pc |-> "stuck", sel |-> None]
        /\ \A g \in Hosts : g # h => host'[g] = host[g]
    BY <1>3, GotoType DEF TypeInv, HostPcs
  <2>2. TypeInv'
    BY <1>1, <1>3, <2>1 DEF TypeInv, supervisor, files, bridges
  <2>3. HostEntered(h)'
    BY <2>1 DEF HostEntered
  <2>4. live'[h] = IF active'[h] = None THEN 0 ELSE 1
    BY <1>3 DEF OneRuntime
  <2>5. host'[h].pc = "stuck"
    BY <2>1
  <2> QED
    <3>1. UNCHANGED <<sup, scan, bridge>>
      BY <1>1 DEF supervisor, bridges
    <3>2. /\ \A g \in Hosts : g # h => host'[g] = host[g] /\ active'[g] = active[g]
          /\ \A j \in Services : j # h => live'[j] = live[j]
      BY <1>3, <2>1
    <3> QED
      BY <1>1, <2>2, <2>3, <2>4, <2>5, <3>1, <3>2, HostFrame
<1> QED
  BY <1>2, <1>3 DEF HostCloses

-----------------------------------------------------------------------------
(* The bridges and their reconciliation *)

\* What a step of one bridge has to keep to.
LEMMA BridgeFrame ==
  ASSUME IInv, TypeInv', NEW b \in Bridges, UNCHANGED <<sup, host, active>>,
         \A a \in Bridges : a # b => bridge'[a].pc = bridge[a].pc,
         \A j \in Services : j # b => live'[j] = live[j],
         live'[b] = IF bridge'[b].pc \in Alive THEN 1 ELSE 0,
         bridge[b].pc = "none" => bridge'[b].pc = "none",
         scan.pc = "idle" => scan'.pc = "idle",
         scan'.pc = "idle" => scan'.todo = {} /\ scan'.at = {}
  PROVE  IInv'
<1>1. Entered'
  BY DEF IInv, Entered, HostEntered
<1>2. OneRuntime'
  <2>1. \A h \in Hosts : live'[h] = live[h]
    BY SupervisorConstants DEF Services
  <2>2. \A a \in Bridges : live'[a] = IF bridge'[a].pc \in Alive THEN 1 ELSE 0
    BY DEF IInv, OneRuntime, Services, Alive
  <2> QED
    BY <2>1, <2>2 DEF IInv, OneRuntime, Alive
<1>3. Phased'
  BY DEF IInv, Phased
<1> QED
  BY <1>1, <1>2, <1>3 DEF IInv

LEMMA BridgeVerifiedInv ==
  ASSUME IInv, NEW b \in Bridges, BridgeVerified(b) PROVE IInv'
<1> USE DEF IInv
<1>1. UNCHANGED <<supervisor, files, natives, failed, retry, scan>> /\ bridge[b].pc = "verifying"
  BY DEF BridgeVerified
<1>2. live[b] = 0 /\ b \in Services
  BY <1>1 DEF OneRuntime, Services
<1>3. ASSUME Task(b, "opening", "none"), live' = [live EXCEPT ![b] = @ + 1], UNCHANGED faults
      PROVE  IInv'
  <2>1. /\ bridge' \in [Bridges -> BridgeRecord] /\ bridge'[b].pc = "opening"
        /\ \A a \in Bridges : a # b => bridge'[a] = bridge[a]
    BY <1>3, TaskType DEF TypeInv, TaskPcs, Ends
  <2>2. /\ live' \in [Services -> Int] /\ live'[b] = 1
        /\ \A j \in Services : j # b => live'[j] = live[j]
    BY <1>2, <1>3 DEF TypeInv
  <2>3. TypeInv'
    BY <1>1, <1>3, <2>1, <2>2 DEF TypeInv, supervisor, files, natives
  <2> QED
    BY <1>1, <2>1, <2>2, <2>3, BridgeFrame DEF supervisor, natives, Alive, Phased
<1>4. ASSUME NEW end \in Ends, Task(b, "done", end), UNCHANGED live, faults' \in 0..MaxFaults
      PROVE  IInv'
  <2>1. /\ bridge' \in [Bridges -> BridgeRecord] /\ bridge'[b].pc = "done"
        /\ \A a \in Bridges : a # b => bridge'[a] = bridge[a]
    BY <1>4, TaskType DEF TypeInv, TaskPcs
  <2>2. TypeInv'
    BY <1>1, <1>4, <2>1 DEF TypeInv, supervisor, files, natives
  <2> QED
    BY <1>1, <1>2, <1>4, <2>1, <2>2, BridgeFrame DEF supervisor, natives, Alive, Phased
<1>5. faults \in 0..MaxFaults /\ \A r \in BOOLEAN : (IF r THEN "retry" ELSE "failed") \in Ends
  BY DEF TypeInv, Ends
<1>6. CASE Task(b, "done", "returned") /\ UNCHANGED <<faults, live>>
  BY <1>4, <1>5, <1>6 DEF Ends
<1>7. ASSUME NEW retryable \in BOOLEAN, Count(retryable), UNCHANGED live,
             Task(b, "done", IF retryable THEN "retry" ELSE "failed")
      PROVE  IInv'
  BY <1>4, <1>5, <1>7, CountType
<1> QED
  BY <1>3, <1>6, <1>7 DEF BridgeVerified

\* The participant runs until its cleanup has ended.
LEMMA BridgeOpenedInv ==
  ASSUME IInv, NEW b \in Bridges, BridgeOpened(b) PROVE IInv'
<1> USE DEF IInv
<1>1. UNCHANGED <<supervisor, files, natives, failed, retry, scan, live>> /\ bridge[b].pc = "opening"
  BY DEF BridgeOpened
<1>2. PICK pc \in {"running", "cleaning"}, end \in Ends : Task(b, pc, end) /\ faults' \in 0..MaxFaults
  <2>1. ASSUME Task(b, "running", "none"), UNCHANGED faults
        PROVE  \E pc \in {"running", "cleaning"}, end \in Ends :
                 Task(b, pc, end) /\ faults' \in 0..MaxFaults
    BY <2>1 DEF TypeInv, Ends
  <2>2. ASSUME NEW retryable \in BOOLEAN, Count(retryable),
               Task(b, "cleaning", IF retryable THEN "retry" ELSE "failed")
        PROVE  \E pc \in {"running", "cleaning"}, end \in Ends :
                 Task(b, pc, end) /\ faults' \in 0..MaxFaults
    <3>1. (IF retryable THEN "retry" ELSE "failed") \in Ends /\ faults' \in 0..MaxFaults
      BY <2>2, CountType DEF Ends, TypeInv
    <3> QED
      BY <2>2, <3>1
  <2> QED
    BY <2>1, <2>2 DEF BridgeOpened
<1>3. /\ bridge' \in [Bridges -> BridgeRecord] /\ bridge'[b].pc = pc
      /\ \A a \in Bridges : a # b => bridge'[a] = bridge[a]
  BY <1>2, TaskType DEF TypeInv, TaskPcs
<1>4. TypeInv'
  BY <1>1, <1>2, <1>3 DEF TypeInv, supervisor, files, natives
<1>5. live'[b] = IF bridge'[b].pc \in Alive THEN 1 ELSE 0
  BY <1>1, <1>2, <1>3 DEF OneRuntime, Alive
<1> QED
  BY <1>1, <1>3, <1>4, <1>5, BridgeFrame DEF supervisor, natives, Phased

LEMMA BridgeCleanedInv ==
  ASSUME IInv, NEW b \in Bridges, BridgeCleaned(b) PROVE IInv'
<1> USE DEF IInv
<1>1. /\ UNCHANGED <<supervisor, files, faults, natives, failed, retry, scan>>
      /\ bridge[b].pc = "cleaning" /\ bridge[b].end \in Ends
      /\ Task(b, "done", bridge[b].end) /\ live' = [live EXCEPT ![b] = @ - 1]
  BY DEF BridgeCleaned, TypeInv, BridgeRecord, Ends
<1>2. /\ bridge' \in [Bridges -> BridgeRecord] /\ bridge'[b].pc = "done"
      /\ \A a \in Bridges : a # b => bridge'[a] = bridge[a]
  BY <1>1, TaskType DEF TypeInv, TaskPcs
<1>3. live[b] = 1 /\ b \in Services
  BY <1>1 DEF OneRuntime, Services
<1>4. /\ live' \in [Services -> Int] /\ live'[b] = 0
      /\ \A j \in Services : j # b => live'[j] = live[j]
  BY <1>1, <1>3 DEF TypeInv
<1>5. TypeInv'
  BY <1>1, <1>2, <1>4 DEF TypeInv, supervisor, files, natives
<1> QED
  BY <1>1, <1>2, <1>4, <1>5, BridgeFrame DEF supervisor, natives, Alive, Phased

\* The fields of the reconciliation's state.
LEMMA ScanShape ==
  ASSUME NEW r \in ScanRecord, NEW todo \in SUBSET Bridges, NEW at \in SUBSET Bridges
  PROVE  /\ [r EXCEPT !.at = at] \in ScanRecord /\ [r EXCEPT !.at = at].pc = r.pc
         /\ [r EXCEPT !.todo = todo] \in ScanRecord /\ [r EXCEPT !.todo = todo].pc = r.pc
         /\ [r EXCEPT !.todo = todo, !.at = at] \in ScanRecord
         /\ [r EXCEPT !.todo = todo, !.at = at].pc = r.pc
  BY DEF ScanRecord

\* The first half of a stop changes nothing that runs.
LEMMA ScanStopsInv ==
  ASSUME IInv, NEW b \in Bridges, ScanStops(b) PROVE IInv'
<1> USE DEF IInv
<1>1. /\ UNCHANGED <<supervisor, files, faults, natives, failed, retry, live>>
      /\ b \in scan.todo /\ bridge' = [bridge EXCEPT ![b] = Cancelled(@)]
      /\ scan' = [scan EXCEPT !.at = {b}]
  BY DEF ScanStops
<1>2. bridge[b] \in BridgeRecord /\ scan \in ScanRecord
  BY DEF TypeInv
<1>3. /\ Cancelled(bridge[b]) \in BridgeRecord
      /\ Cancelled(bridge[b]).pc = "none" <=> bridge[b].pc = "none"
      /\ Cancelled(bridge[b]).pc \in Alive <=> bridge[b].pc \in Alive
  BY <1>2, CancelledTask
<1>4. /\ bridge' \in [Bridges -> BridgeRecord] /\ bridge'[b] = Cancelled(bridge[b])
      /\ \A a \in Bridges : a # b => bridge'[a] = bridge[a]
  BY <1>1, <1>3 DEF TypeInv
<1>5. scan' \in ScanRecord /\ scan'.pc = scan.pc /\ scan.pc # "idle"
  <2>1. scan.pc # "idle"
    BY <1>1 DEF Phased
  <2> QED
    BY <1>1, <1>2, <2>1, ScanShape
<1>6. TypeInv'
  BY <1>1, <1>4, <1>5 DEF TypeInv, supervisor, files, natives
<1>7. live'[b] = IF bridge'[b].pc \in Alive THEN 1 ELSE 0
  BY <1>1, <1>3, <1>4 DEF OneRuntime, Alive
<1>8. bridge[b].pc = "none" => bridge'[b].pc = "none"
  BY <1>3, <1>4
<1> QED
  BY <1>1, <1>4, <1>5, <1>6, <1>7, <1>8, BridgeFrame DEF supervisor, natives

\* What has ended is taken out by the reconciliation, or by close().
LEMMA DroppedInv ==
  ASSUME IInv, TypeInv', NEW b \in Bridges, UNCHANGED <<supervisor, natives, live>>,
         bridge[b].pc = "done", Drop(b),
         scan'.pc = scan.pc, scan.pc = "idle" => scan' = scan
  PROVE  IInv'
<1> USE DEF IInv
<1>1. /\ bridge'[b].pc = "none" /\ \A a \in Bridges : a # b => bridge'[a] = bridge[a]
  BY TaskType DEF TypeInv
<1>2. live'[b] = IF bridge'[b].pc \in Alive THEN 1 ELSE 0
  BY <1>1 DEF OneRuntime, Alive
<1>3. scan'.pc = "idle" => scan'.todo = {} /\ scan'.at = {}
  BY DEF Phased
<1> QED
  BY <1>1, <1>2, <1>3, BridgeFrame DEF supervisor, natives

LEMMA ScanStoppedInv ==
  ASSUME IInv, NEW b \in Bridges, ScanStopped(b) PROVE IInv'
<1> USE DEF IInv
<1>1. /\ UNCHANGED <<supervisor, files, faults, natives, failed, retry, live>>
      /\ scan.at = {b} /\ bridge[b].pc = "done" /\ Drop(b)
      /\ scan' = [scan EXCEPT !.todo = @ \ {b}, !.at = {}]
  BY DEF ScanStopped
<1>2. scan.todo \ {b} \in SUBSET Bridges /\ scan \in ScanRecord
  BY DEF TypeInv, ScanRecord
<1>3. scan' \in ScanRecord /\ scan'.pc = scan.pc /\ scan.pc # "idle"
  <2>1. scan.pc # "idle"
    BY <1>1 DEF Phased
  <2> QED
    BY <1>1, <1>2, <2>1, ScanShape
<1>4. TypeInv'
  BY <1>1, <1>3, TaskType DEF TypeInv, supervisor, files, natives
<1> QED
  BY <1>1, <1>3, <1>4, DroppedInv

LEMMA ScanReapsInv ==
  ASSUME IInv, NEW b \in Bridges, ScanReaps(b) PROVE IInv'
<1> USE DEF IInv
<1>1. /\ UNCHANGED <<supervisor, files, faults, natives, live>>
      /\ b \in scan.todo /\ scan' = [scan EXCEPT !.todo = @ \ {b}]
  BY DEF ScanReaps
<1>2. scan.todo \ {b} \in SUBSET Bridges /\ scan \in ScanRecord
  BY DEF TypeInv, ScanRecord
<1>3. scan' \in ScanRecord /\ scan'.pc = scan.pc /\ scan.pc # "idle"
  <2>1. scan.pc # "idle"
    BY <1>1 DEF Phased
  <2> QED
    BY <1>1, <1>2, <2>1, ScanShape
<1>4. CASE bridge[b].pc = "done"
  <2>1. Drop(b) /\ Remember(b, bridge[b].sel, bridge[b].end = "retry")
    BY <1>4 DEF ScanReaps
  <2>2. b \in Services /\ bridge[b].sel \in Selections \cup {None}
    BY DEF Services, TypeInv, BridgeRecord
  <2>3. TypeInv'
    BY <1>1, <1>3, <2>1, <2>2, TaskType, RememberType DEF TypeInv, supervisor, files, natives
  <2> QED
    BY <1>1, <1>3, <1>4, <2>1, <2>3, DroppedInv
<1>5. CASE bridge[b].pc # "done"
  <2>1. UNCHANGED <<bridge, failed, retry>>
    BY <1>5 DEF ScanReaps
  <2>2. TypeInv'
    BY <1>1, <1>3, <2>1 DEF TypeInv, supervisor, files, natives
  <2>3. live'[b] = IF bridge'[b].pc \in Alive THEN 1 ELSE 0
    BY <1>1, <2>1 DEF OneRuntime, Alive
  <2> QED
    BY <1>1, <1>3, <2>1, <2>2, <2>3, BridgeFrame DEF supervisor, natives
<1> QED
  BY <1>4, <1>5

LEMMA BridgeClosesInv ==
  ASSUME IInv, NEW b \in Bridges, BridgeCloses(b) PROVE IInv'
<1> USE DEF IInv
<1>1. /\ UNCHANGED <<supervisor, files, faults, natives, failed, retry, scan, live>>
      /\ bridge[b].pc = "done" /\ Drop(b)
  BY DEF BridgeCloses
<1>2. TypeInv'
  BY <1>1, TaskType DEF TypeInv, supervisor, files, natives
<1> QED
  BY <1>1, <1>2, DroppedInv

\* A reconciliation begins, or is cancelled, without touching what runs.
LEMMA ScanMovesInv ==
  ASSUME IInv, ScanBegins \/ ScanCancelled PROVE IInv'
<1> USE DEF IInv
<1>1. /\ UNCHANGED <<supervisor, files, faults, natives, failed, retry, bridge, live>>
      /\ scan.pc # "idle"
  BY DEF ScanBegins, ScanCancelled, Phased
<1>2. scan' \in ScanRecord /\ (scan'.pc = "idle" => scan'.todo = {} /\ scan'.at = {})
  <2>1. CASE ScanBegins
    <3> DEFINE pc == IF readable THEN "comparing" ELSE "stopAll"
               selected == [b \in Bridges |-> IF readable THEN choice[b] ELSE None]
    <3>1. scan' = [pc |-> pc, todo |-> Tracked, at |-> {}, selected |-> selected]
      BY <2>1 DEF ScanBegins
    <3>2. selected \in [Bridges -> Selections \cup {None}]
      BY DEF TypeInv, Services
    <3>3. Tracked \in SUBSET Bridges /\ pc \in {"comparing", "stopAll"}
      BY DEF Tracked
    <3> HIDE DEF pc, selected
    <3> QED
      BY <3>1, <3>2, <3>3 DEF ScanRecord
  <2>2. CASE ScanCancelled
    BY <2>2 DEF ScanCancelled, ScanIdle, ScanRecord
  <2> QED
    BY <2>1, <2>2
<1>3. TypeInv'
  BY <1>1, <1>2 DEF TypeInv, supervisor, files, natives
<1>4. Entered' /\ OneRuntime'
  BY <1>1 DEF Entered, HostEntered, OneRuntime, natives
<1>5. Phased'
  BY <1>1, <1>2 DEF Phased, supervisor, natives
<1> QED
  BY <1>3, <1>4, <1>5

LEMMA FreshTask ==
  ASSUME NEW s \in Selections \cup {None}
  PROVE  /\ [NoTask EXCEPT !.pc = "verifying", !.sel = s] \in BridgeRecord
         /\ [NoTask EXCEPT !.pc = "verifying", !.sel = s].pc = "verifying"
<1>1. NoTask \in BridgeRecord
  BY DEF NoTask, BridgeRecord, None
<1>2. \A t \in BridgeRecord :
        /\ [t EXCEPT !.pc = "verifying", !.sel = s] \in BridgeRecord
        /\ [t EXCEPT !.pc = "verifying", !.sel = s].pc = "verifying"
  BY DEF BridgeRecord
<1> QED
  BY <1>1, <1>2

\* A task is started only where there is none.
LEMMA ScanStartsInv ==
  ASSUME IInv, ScanStarts PROVE IInv'
<1> USE DEF IInv
<1>1. /\ UNCHANGED <<supervisor, files, faults, natives, live>> /\ scan' = ScanIdle
      /\ scan.pc \in {"comparing", "stopAll"}
  BY DEF ScanStarts
<1>2. ScanIdle \in ScanRecord /\ ScanIdle.todo = {} /\ ScanIdle.at = {} /\ ScanIdle.pc = "idle"
  BY DEF ScanIdle, ScanRecord
<1>3. /\ bridge' \in [Bridges -> BridgeRecord]
      /\ failed' \in [Services -> Selections \cup {None}]
      /\ retry' \in [Services -> Selections \cup {None}]
      /\ \A b \in Bridges :
           bridge'[b] = bridge[b] \/ (bridge[b].pc = "none" /\ bridge'[b].pc = "verifying")
  <2>1. CASE scan.pc = "stopAll"
    <3>1. UNCHANGED <<failed, retry, bridge>>
      BY <2>1 DEF ScanStarts
    <3> QED
      BY <3>1 DEF TypeInv
  <2>2. CASE scan.pc = "comparing"
    <3> DEFINE s == scan.selected
               still == [j \in Services |-> IF j \in Bridges /\ failed[j] # s[j] THEN None ELSE failed[j]]
               started == {b \in Bridges \ Tracked : s[b] \notin {None, still[b], retry[b]}}
               task(b) == [NoTask EXCEPT !.pc = "verifying", !.sel = s[b]]
    <3>1. /\ failed' = still
          /\ retry' = [j \in Services |-> IF j \in started THEN None ELSE retry[j]]
          /\ bridge' = [b \in Bridges |-> IF b \in started THEN task(b) ELSE bridge[b]]
      BY <2>2 DEF ScanStarts
    <3>2. \A b \in Bridges : task(b) \in BridgeRecord /\ task(b).pc = "verifying"
      <4>1. s \in [Bridges -> Selections \cup {None}]
        BY DEF TypeInv, ScanRecord
      <4> HIDE DEF s
      <4> QED
        BY <4>1, FreshTask
    <3>3. still \in [Services -> Selections \cup {None}]
      BY DEF TypeInv
    <3>4. \A b \in started : b \in Bridges /\ bridge[b].pc = "none"
      BY DEF Tracked
    <3> HIDE DEF s, still, started, task
    <3>5. retry' \in [Services -> Selections \cup {None}]
      BY <3>1 DEF TypeInv
    <3>6. \A b \in Bridges : bridge'[b] = IF b \in started THEN task(b) ELSE bridge[b]
      BY <3>1
    <3>7. bridge' \in [Bridges -> BridgeRecord]
      BY <3>1, <3>2 DEF TypeInv
    <3> QED
      BY <3>1, <3>2, <3>3, <3>4, <3>5, <3>6, <3>7
  <2> QED
    BY <1>1, <2>1, <2>2
<1>4. TypeInv'
  BY <1>1, <1>2, <1>3 DEF TypeInv, supervisor, files, natives
<1>5. Entered'
  BY <1>1 DEF Entered, HostEntered, natives
<1>6. OneRuntime'
  BY <1>1, <1>3 DEF OneRuntime, natives
<1>7. Phased'
  <2>1. sup \in {"reconciling", "finishing"}
    BY <1>1 DEF Phased
  <2> QED
    BY <1>1, <1>2, <2>1 DEF Phased, supervisor, natives
<1> QED
  BY <1>4, <1>5, <1>6, <1>7

-----------------------------------------------------------------------------
(* The supervisor *)

LEMMA ReconcileInv ==
  ASSUME IInv, Reconcile PROVE IInv'
<1> USE DEF IInv
<1>1. /\ UNCHANGED <<signal, interrupt, error, files, faults, active, failed, retry, bridge, live>>
      /\ sup = "waiting" /\ sup' = "reconciling"
      /\ host' = [h \in Hosts |-> [pc |-> "todo", sel |-> None]]
      /\ scan' = [ScanIdle EXCEPT !.pc = "todo"]
  BY DEF Reconcile
<1>2. scan' \in ScanRecord /\ scan'.pc = "todo"
  BY <1>1 DEF ScanIdle, ScanRecord
<1>3. host' \in [Hosts -> HostRecord] /\ \A h \in Hosts : host'[h].pc = "todo"
  BY <1>1 DEF HostRecord
<1>4. TypeInv'
  BY <1>1, <1>2, <1>3 DEF TypeInv, files
<1>5. Entered'
  BY <1>3 DEF Entered, HostEntered
<1>6. OneRuntime'
  BY <1>1 DEF OneRuntime
<1>7. Phased'
  BY <1>1, <1>2, <1>3 DEF Phased
<1> QED
  BY <1>4, <1>5, <1>6, <1>7

LEMMA ReconcileEndsInv ==
  ASSUME IInv, ReconcileEnds PROVE IInv'
<1> USE DEF IInv
<1>1. /\ UNCHANGED <<signal, interrupt, error, files, faults, natives, failed, retry, bridges, live>>
      /\ sup = "reconciling" /\ sup' \in {"finishing", "waiting"}
      /\ scan.pc = "idle" /\ \A h \in Hosts : host[h].pc = "idle"
  BY DEF ReconcileEnds, Reconciled
<1>2. TypeInv'
  BY <1>1 DEF TypeInv, files, natives, bridges
<1>3. Entered' /\ OneRuntime'
  BY <1>1 DEF Entered, HostEntered, OneRuntime, natives, bridges
<1>4. Phased'
  BY <1>1 DEF Phased, natives, bridges
<1> QED
  BY <1>2, <1>3, <1>4

\* Both close() begin once the reconciliation is joined, for every entry there is.
LEMMA CloseInv ==
  ASSUME IInv, Close PROVE IInv'
<1> USE DEF IInv
<1>1. /\ UNCHANGED <<signal, interrupt, error, files, faults, active, failed, retry, scan, live>>
      /\ sup = "finishing" /\ sup' = "closing" /\ scan.pc = "idle"
      /\ host' = [h \in Hosts |-> IF active[h] # None THEN [Idle EXCEPT !.pc = "closing"] ELSE Idle]
      /\ bridge' = [b \in Bridges |-> Cancelled(bridge[b])]
  BY DEF Close, Reconciled
<1>2. \A b \in Bridges :
        /\ bridge'[b] \in BridgeRecord
        /\ bridge'[b].pc \in Alive <=> bridge[b].pc \in Alive
  BY <1>1, CancelledTask DEF TypeInv
<1>3. bridge' \in [Bridges -> BridgeRecord]
  BY <1>1, <1>2
<1>4. /\ host' \in [Hosts -> HostRecord]
      /\ \A h \in Hosts : IF active[h] # None THEN host'[h].pc = "closing" ELSE host'[h].pc = "idle"
  <2>1. /\ [Idle EXCEPT !.pc = "closing"] \in HostRecord
        /\ [Idle EXCEPT !.pc = "closing"].pc = "closing"
        /\ Idle \in HostRecord /\ Idle.pc = "idle"
    BY DEF Idle, HostRecord, None
  <2> QED
    BY <1>1, <2>1
<1>5. TypeInv'
  BY <1>1, <1>3, <1>4 DEF TypeInv, files
<1>6. Entered'
  BY <1>1, <1>4 DEF Entered, HostEntered
<1>7. OneRuntime'
  BY <1>1, <1>2 DEF OneRuntime, Alive
<1>8. Phased'
  BY <1>1, <1>4 DEF Phased
<1> QED
  BY <1>5, <1>6, <1>7, <1>8

LEMMA ReleaseInv ==
  ASSUME IInv, Release PROVE IInv'
<1> USE DEF IInv
<1>1. /\ UNCHANGED <<signal, interrupt, error, files, faults, natives, failed, retry, bridges, live>>
      /\ sup = "closing" /\ sup' = "ended"
      /\ Tracked = {} /\ \A h \in Hosts : host[h].pc # "closing"
  BY DEF Release
<1>2. TypeInv'
  BY <1>1 DEF TypeInv, files, natives, bridges
<1>3. Entered' /\ OneRuntime'
  BY <1>1 DEF Entered, HostEntered, OneRuntime, natives, bridges
<1>4. Phased'
  BY <1>1 DEF Phased, natives, bridges, Tracked
<1> QED
  BY <1>2, <1>3, <1>4

-----------------------------------------------------------------------------
\* The state of every variable, the entries, what runs and the phases of the
\* service are kept by every step.
LEMMA InvNext == IInv /\ [Next]_vars => IInv'
<1> SUFFICES ASSUME IInv, [Next]_vars PROVE IInv'
  OBVIOUS
<1>1. CASE \/ \E j \in Services : Choose(j) \/ RetryDue(j)
           \/ SpoilBridgeFile \/ ShutdownRequested \/ Leave \/ Work \/ UNCHANGED vars
  BY <1>1, FileStep DEF Work
<1>2. ASSUME NEW h \in Hosts, HostStep(h) PROVE IInv'
  BY <1>2, HostBeginsInv, HostStopsInv, HostVerifiedInv, HostStartedInv, HostClosesInv DEF HostStep
<1>3. ASSUME NEW h \in Hosts, HostStopFails(h) \/ HostCancelled(h) PROVE IInv'
  BY <1>3, HostLeavesInv
<1>4. ASSUME NEW b \in Bridges, BridgeStep(b) PROVE IInv'
  BY <1>4, BridgeVerifiedInv, BridgeOpenedInv, BridgeCleanedInv DEF BridgeStep
<1>5. ASSUME NEW b \in Bridges, ScanStep(b) PROVE IInv'
  BY <1>5, ScanStopsInv, ScanStoppedInv, ScanReapsInv, BridgeClosesInv DEF ScanStep
<1>6. CASE SupervisorStep \/ ScanCancelled
  BY <1>6, ScanMovesInv, ScanStartsInv, ReconcileInv, ReconcileEndsInv, CloseInv, ReleaseInv
     DEF SupervisorStep
<1> QED
  BY <1>1, <1>2, <1>3, <1>4, <1>5, <1>6 DEF Next

LEMMA InvAlways == Spec => []IInv
<1> QED
  BY InvInit, InvNext, PTL DEF Spec

\* Every variable keeps to its states, whatever the selection files hold and
\* however starts, stops and cancellations end (supervisor.py run).
THEOREM TypesKept == Spec => []TypeOK
<1>1. IInv => TypeOK
  BY TypesOK DEF IInv
<1> QED
  BY <1>1, InvAlways, PTL

\* At no time do two controllers of one host, or two participants of one bridge,
\* run side by side, and what runs has an entry through which a stop reaches it
\* (native_reconciliation.py and mcp_reconciliation.py _stop).
THEOREM OneRuntimeAlways == Spec => []OneRuntime
<1>1. IInv => OneRuntime
  BY DEF IInv
<1> QED
  BY <1>1, InvAlways, PTL

\* When the device's lease is given back no controller and no bridge runs, except
\* a controller whose own stop failed (supervisor.py _finish_shutdown).
THEOREM NothingIsLeft == Spec => []NothingLeft
<1>1. IInv => NothingLeft
  BY DEF IInv, OneRuntime, Phased, NothingLeft
<1> QED
  BY <1>1, InvAlways, PTL
=============================================================================
