-------------------------- MODULE RuntimeSupervisor --------------------------
(***************************************************************************)
(* The local service (runtime/supervisor.py) and its two reconcilers: one  *)
(* runs a hook control runtime for each host the user selected             *)
(* (native_reconciliation.py), the other a task with an MCP bridge for     *)
(* each selected request (mcp_reconciliation.py).  Every two seconds both  *)
(* compare what runs with the selection files, which another process may   *)
(* change at any moment; shutdown, or an interruption of the service       *)
(* itself, cancels the reconciliation once and closes what it left.        *)
(*                                                                         *)
(* An action is what happens between two awaits.  How a controller or a    *)
(* bridge verifies, starts and stops is external here: each may succeed or *)
(* fail.  Bounds: MaxChanges changes of the selection files and MaxFaults  *)
(* retryable failures.                                                     *)
(***************************************************************************)
EXTENDS Integers, FiniteSets

CONSTANTS
  Hosts,       \* HOSTS of native_runtime_selection.py
  Bridges,     \* requests an MCP bridge may be selected for
  MaxChanges, MaxFaults

ASSUME SupervisorConstants ==
  /\ IsFiniteSet(Hosts) /\ IsFiniteSet(Bridges) /\ Hosts \cap Bridges = {}
  /\ MaxChanges \in Nat /\ MaxFaults \in Nat

Services == Hosts \cup Bridges
Selections == 1..MaxChanges
None == 0
Unreadable == -1

VARIABLES
  sup,      \* run(): where it is
  signal,   \* the shutdown future is done
  interrupt,\* the reconciliation was cancelled
  error,    \* a host's reconciliation raised
  choice,   \* the selection files
  readable, \* whether the file of all MCP selections can be read
  changes,  \* how often they changed
  faults,   \* retryable failures so far
  host,     \* _reconcile_host of each host: its place and the selection it loaded
  active,   \* NativeControllerReconciler.active
  failed,   \* self.failed of both
  retry,    \* self.retry_after of both, while it has not passed
  scan,     \* MCPRuntimeReconciler.reconcile: its place, `selected`, what it has yet to
            \* compare, and the bridge it waits for
  bridge,   \* MCPRuntimeReconciler.active: the task of each bridge
  live      \* how many controllers of a host or participants of a bridge run

supervisor == <<sup, signal, interrupt, error>>
files == <<choice, readable, changes>>
natives == <<host, active>>
bridges == <<scan, bridge>>
vars == <<supervisor, files, faults, natives, failed, retry, bridges, live>>

NoTask == [pc |-> "none", sel |-> None, cancels |-> 0, end |-> "none"]
Idle == [pc |-> "idle", sel |-> None]
ScanIdle == [pc |-> "idle", todo |-> {}, at |-> {}, selected |-> [b \in Bridges |-> None]]

Init ==
  /\ sup = "waiting" /\ signal = FALSE /\ interrupt = FALSE /\ error = FALSE
  /\ choice = [j \in Services |-> None] /\ readable = TRUE /\ changes = 0 /\ faults = 0
  /\ host = [h \in Hosts |-> Idle] /\ active = [h \in Hosts |-> None]
  /\ failed = [j \in Services |-> None] /\ retry = [j \in Services |-> None]
  /\ scan = ScanIdle /\ bridge = [b \in Bridges |-> NoTask]
  /\ live = [j \in Services |-> 0]

-----------------------------------------------------------------------------
(* The selection files, written by the command line *)

\* A host may be given any selection again; a selection of a bridge has a new
\* selection_id every time.
Choose(j) ==
  /\ changes < MaxChanges
  /\ \E s \in (IF j \in Hosts THEN Selections \cup {None, Unreadable} ELSE {changes + 1, None}) \ {choice[j]} :
       choice' = [choice EXCEPT ![j] = s]
  /\ changes' = changes + 1
  /\ UNCHANGED <<supervisor, readable, faults, natives, failed, retry, bridges, live>>

SpoilBridgeFile ==
  /\ changes < MaxChanges /\ changes' = changes + 1 /\ readable' = ~readable
  /\ UNCHANGED <<supervisor, choice, faults, natives, failed, retry, bridges, live>>

\* How a start that did not succeed is remembered: a retryable error waits 30
\* seconds, any other waits for another selection.
Remember(j, s, retryable) ==
  IF retryable THEN retry' = [retry EXCEPT ![j] = s] /\ UNCHANGED failed
               ELSE failed' = [failed EXCEPT ![j] = s] /\ UNCHANGED retry

\* The number of retryable failures is bounded.
Count(retryable) ==
  IF retryable THEN faults < MaxFaults /\ faults' = faults + 1 ELSE UNCHANGED faults

RetryDue(j) ==
  /\ retry[j] # None /\ retry' = [retry EXCEPT ![j] = None]
  /\ UNCHANGED <<supervisor, files, faults, natives, failed, bridges, live>>

-----------------------------------------------------------------------------
(* _reconcile_host *)

Goto(h, pc, s) == host' = [host EXCEPT ![h] = [pc |-> pc, sel |-> s]]
Finish(h) == host' = [host EXCEPT ![h] = Idle]

Forget(h) == /\ failed' = [failed EXCEPT ![h] = None] /\ retry' = [retry EXCEPT ![h] = None]

\* What follows once no other selection is active.
Continue(h, s) ==
  IF s \notin Selections
    THEN Forget(h) /\ Finish(h)
    ELSE /\ UNCHANGED <<failed, retry>>
         /\ IF active[h] = s \/ failed[h] = s \/ retry[h] = s
              THEN Finish(h) ELSE Goto(h, "verifying", s)

\* Wrong variant: a running controller is kept whatever is selected.
HostBeginsStale(h) ==
  /\ host[h].pc = "todo"
  /\ IF active[h] # None /\ choice[h] = None
       THEN Goto(h, "stopping", choice[h]) /\ UNCHANGED <<failed, retry>>
       ELSE IF active[h] # None THEN Finish(h) /\ UNCHANGED <<failed, retry>> ELSE Continue(h, choice[h])
  /\ UNCHANGED <<supervisor, files, faults, active, bridges, live>>

HostBegins(h) ==
  /\ host[h].pc = "todo"
  /\ IF active[h] \notin {None, choice[h]}
       THEN Goto(h, "stopping", choice[h]) /\ UNCHANGED <<failed, retry>>
       ELSE Continue(h, choice[h])
  /\ UNCHANGED <<supervisor, files, faults, active, bridges, live>>

\* Wrong variant: deletes the entry before it knows that the stop succeeded.
HostStopFailsForgotten(h) ==
  /\ host[h].pc \in {"stopping", "failing", "failingRetry"}
  /\ error' = TRUE /\ Finish(h) /\ active' = [active EXCEPT ![h] = None]
  /\ UNCHANGED <<sup, signal, interrupt, files, faults, failed, retry, bridges, live>>

\* A stop that raises leaves the entry: no replacement while it may still run.
HostStopFails(h) ==
  /\ host[h].pc \in {"stopping", "failing", "failingRetry"}
  /\ error' = TRUE /\ Finish(h)
  /\ UNCHANGED <<sup, signal, interrupt, files, faults, active, failed, retry, bridges, live>>

HostStops(h) ==
  /\ active' = [active EXCEPT ![h] = None] /\ live' = [live EXCEPT ![h] = @ - 1]
  /\ LET s == host[h].sel IN
     \/ /\ host[h].pc = "stopping"
        /\ IF s \notin Selections THEN Forget(h) /\ Finish(h)
             ELSE /\ UNCHANGED <<failed, retry>>
                  /\ IF s \in {failed[h], retry[h]} THEN Finish(h) ELSE Goto(h, "verifying", s)
     \/ /\ host[h].pc \in {"failing", "failingRetry"} /\ Finish(h)
        /\ Remember(h, s, host[h].pc = "failingRetry")
  /\ UNCHANGED <<supervisor, files, faults, bridges>>

\* The verification over the network has ended; the file is read again.
HostVerified(h) ==
  /\ host[h].pc = "verifying"
  /\ \/ /\ choice[h] = host[h].sel /\ Goto(h, "starting", host[h].sel)
        /\ active' = [active EXCEPT ![h] = host[h].sel] /\ live' = [live EXCEPT ![h] = @ + 1]
        /\ UNCHANGED <<failed, retry, faults>>
     \/ /\ choice[h] \notin {host[h].sel, Unreadable} /\ Finish(h)
        /\ UNCHANGED <<active, live, failed, retry, faults>>
     \/ /\ \E retryable \in BOOLEAN : Remember(h, host[h].sel, retryable) /\ Count(retryable)
        /\ Finish(h) /\ UNCHANGED <<active, live>>
  /\ UNCHANGED <<supervisor, files, bridges>>

HostStarted(h) ==
  /\ host[h].pc = "starting"
  /\ \/ Finish(h) /\ Forget(h) /\ UNCHANGED faults
     \/ /\ UNCHANGED <<failed, retry>>
        /\ \E retryable \in BOOLEAN : Count(retryable)
             /\ Goto(h, IF retryable THEN "failingRetry" ELSE "failing", host[h].sel)
  /\ UNCHANGED <<supervisor, files, active, bridges, live>>

\* Cancellation is no Exception: it passes the handler, and the entry stays for close().
HostCancelled(h) ==
  /\ interrupt /\ host[h].pc \in {"todo", "stopping", "verifying", "starting", "failing", "failingRetry"}
  /\ Finish(h)
  /\ UNCHANGED <<supervisor, files, faults, active, failed, retry, bridges, live>>

-----------------------------------------------------------------------------
(* The task of an MCP bridge: _run, and open_participant of runtime/workload.py *)

Task(b, pc, end) == bridge' = [bridge EXCEPT ![b].pc = pc, ![b].end = end]

BridgeVerified(b) ==
  /\ bridge[b].pc = "verifying"
  /\ \/ /\ readable /\ choice[b] = bridge[b].sel /\ Task(b, "opening", "none")
        /\ live' = [live EXCEPT ![b] = @ + 1] /\ UNCHANGED faults
     \/ readable /\ choice[b] # bridge[b].sel /\ Task(b, "done", "returned") /\ UNCHANGED <<faults, live>>
     \/ \E retryable \in BOOLEAN : Count(retryable)
          /\ Task(b, "done", IF retryable THEN "retry" ELSE "failed") /\ UNCHANGED live
  /\ UNCHANGED <<supervisor, files, natives, failed, retry, scan>>

BridgeOpened(b) ==
  /\ bridge[b].pc = "opening"
  /\ \/ Task(b, "running", "none") /\ UNCHANGED faults
     \/ \E retryable \in BOOLEAN : Count(retryable)
          /\ Task(b, "cleaning", IF retryable THEN "retry" ELSE "failed")
  /\ UNCHANGED <<supervisor, files, natives, failed, retry, scan, live>>

BridgeCleaned(b) ==
  /\ bridge[b].pc = "cleaning" /\ Task(b, "done", bridge[b].end)
  /\ live' = [live EXCEPT ![b] = @ - 1]
  /\ UNCHANGED <<supervisor, files, faults, natives, failed, retry, scan>>

\* Where a task stands after a cancellation.  A first one that meets the
\* cleanup waits for it (participant.stop() is shielded); another ends it early.
AfterCancel(t) ==
  CASE t.pc = "verifying" -> [t EXCEPT !.pc = "done", !.end = "cancelled", !.cancels = 1]
    [] t.pc \in {"opening", "running"} -> [t EXCEPT !.pc = "cleaning", !.end = "cancelled", !.cancels = 1]
    [] OTHER -> [t EXCEPT !.pc = IF t.cancels = 0 THEN "cleaning" ELSE "done", !.cancels = @ + 1]

\* Wrong variant: forgets that the task is being cancelled already.
CancelledAgain(t) == IF t.pc \in {"none", "done"} THEN t ELSE AfterCancel(t)

\* The first half of _stop: not done, and not cancelling.
Cancelled(t) == IF t.pc \in {"none", "done"} \/ t.cancels > 0 THEN t ELSE AfterCancel(t)

-----------------------------------------------------------------------------
(* MCPRuntimeReconciler.reconcile *)

Tracked == {b \in Bridges : bridge[b].pc # "none"}
Drop(b) == bridge' = [bridge EXCEPT ![b] = NoTask]

ScanBegins ==
  /\ scan.pc = "todo"
  /\ scan' = [pc |-> IF readable THEN "comparing" ELSE "stopAll", todo |-> Tracked, at |-> {},
              selected |-> [b \in Bridges |-> IF readable THEN choice[b] ELSE None]]
  /\ UNCHANGED <<supervisor, files, faults, natives, failed, retry, bridge, live>>

\* A bridge whose selection changed is cancelled, and its task waited for.
ScanStops(b) ==
  /\ b \in scan.todo /\ scan.at = {} /\ scan.selected[b] # bridge[b].sel
  /\ bridge' = [bridge EXCEPT ![b] = Cancelled(@)] /\ scan' = [scan EXCEPT !.at = {b}]
  /\ UNCHANGED <<supervisor, files, faults, natives, failed, retry, live>>

ScanStopped(b) ==
  /\ scan.at = {b} /\ bridge[b].pc = "done" /\ Drop(b)
  /\ scan' = [scan EXCEPT !.todo = @ \ {b}, !.at = {}]
  /\ UNCHANGED <<supervisor, files, faults, natives, failed, retry, live>>

\* One that ended by itself is taken out, with the reason.
ScanReaps(b) ==
  /\ b \in scan.todo /\ scan.at = {} /\ scan.selected[b] = bridge[b].sel
  /\ scan' = [scan EXCEPT !.todo = @ \ {b}]
  /\ IF bridge[b].pc = "done"
       THEN Drop(b) /\ Remember(b, bridge[b].sel, bridge[b].end = "retry")
       ELSE UNCHANGED <<bridge, failed, retry>>
  /\ UNCHANGED <<supervisor, files, faults, natives, live>>

\* Then every selected bridge that is neither active, nor failed, nor waiting.
ScanStarts ==
  /\ scan.pc \in {"comparing", "stopAll"} /\ scan.todo = {} /\ scan' = ScanIdle
  /\ LET s == scan.selected
         still == [j \in Services |-> IF j \in Bridges /\ failed[j] # s[j] THEN None ELSE failed[j]]
         started == {b \in Bridges \ Tracked : s[b] \notin {None, still[b], retry[b]}}
     IN IF scan.pc = "stopAll" THEN UNCHANGED <<failed, retry, bridge>>
          ELSE /\ failed' = still
               /\ retry' = [j \in Services |-> IF j \in started THEN None ELSE retry[j]]
               /\ bridge' = [b \in Bridges |-> IF b \in started
                    THEN [NoTask EXCEPT !.pc = "verifying", !.sel = s[b]] ELSE bridge[b]]
  /\ UNCHANGED <<supervisor, files, faults, natives, live>>

\* A cancelled reconciliation leaves the bridge it was stopping to close().
ScanCancelled ==
  /\ interrupt /\ (scan.pc = "todo" \/ scan.at # {}) /\ scan' = ScanIdle
  /\ UNCHANGED <<supervisor, files, faults, natives, failed, retry, bridge, live>>

-----------------------------------------------------------------------------
(* run() of the supervisor *)

Reconciled == scan.pc = "idle" /\ \A h \in Hosts : host[h].pc = "idle"

Reconcile ==
  /\ sup = "waiting" /\ ~signal /\ sup' = "reconciling"
  /\ host' = [h \in Hosts |-> [pc |-> "todo", sel |-> None]]
  /\ scan' = [ScanIdle EXCEPT !.pc = "todo"]
  /\ UNCHANGED <<signal, interrupt, error, files, faults, active, failed, retry, bridge, live>>

ReconcileEnds ==
  /\ sup = "reconciling" /\ Reconciled
  /\ sup' = IF error THEN "finishing" ELSE "waiting"
  /\ UNCHANGED <<signal, interrupt, error, files, faults, natives, failed, retry, bridges, live>>

ShutdownRequested ==
  /\ sup \in {"waiting", "reconciling"} /\ ~signal /\ signal' = TRUE
  /\ UNCHANGED <<sup, interrupt, error, files, faults, natives, failed, retry, bridges, live>>

\* run() sees the signal, or is itself cancelled: a reconciliation that still
\* works is cancelled once.  Later cancellations of run() only wait.
Leave ==
  /\ sup \in {"waiting", "reconciling"} /\ sup' = "finishing"
  /\ interrupt' = (sup = "reconciling" /\ ~Reconciled)
  /\ UNCHANGED <<signal, error, files, faults, natives, failed, retry, bridges, live>>

\* Wrong variant: a bridge that is still starting or running is not cancelled.
CloseUncancelled ==
  /\ sup = "finishing" /\ Reconciled /\ sup' = "closing"
  /\ host' = [h \in Hosts |-> IF active[h] # None THEN [Idle EXCEPT !.pc = "closing"] ELSE Idle]
  /\ UNCHANGED <<signal, interrupt, error, files, faults, active, failed, retry, bridges, live>>

\* _finish_shutdown: the reconciliation is joined, then both close() begin.
Close ==
  /\ sup = "finishing" /\ Reconciled /\ sup' = "closing"
  /\ host' = [h \in Hosts |-> IF active[h] # None THEN [Idle EXCEPT !.pc = "closing"] ELSE Idle]
  /\ bridge' = [b \in Bridges |-> Cancelled(bridge[b])]
  /\ UNCHANGED <<signal, interrupt, error, files, faults, active, failed, retry, scan, live>>

\* A stop that fails here is only logged.
HostCloses(h) ==
  /\ host[h].pc = "closing"
  /\ \/ Finish(h) /\ active' = [active EXCEPT ![h] = None] /\ live' = [live EXCEPT ![h] = @ - 1]
     \/ Goto(h, "stuck", None) /\ UNCHANGED <<active, live>>
  /\ UNCHANGED <<supervisor, files, faults, failed, retry, bridges>>

BridgeCloses(b) ==
  /\ sup = "closing" /\ bridge[b].pc = "done" /\ Drop(b)
  /\ UNCHANGED <<supervisor, files, faults, natives, failed, retry, scan, live>>

\* Both are closed; the device's own tasks end and its lease is given back.
Release ==
  /\ sup = "closing" /\ sup' = "ended"
  /\ Tracked = {} /\ \A h \in Hosts : host[h].pc # "closing"
  /\ UNCHANGED <<signal, interrupt, error, files, faults, natives, failed, retry, bridges, live>>

-----------------------------------------------------------------------------

HostStep(h) ==
  HostBegins(h) \/ HostStops(h) \/ HostVerified(h) \/ HostStarted(h) \/ HostCloses(h)
BridgeStep(b) == BridgeVerified(b) \/ BridgeOpened(b) \/ BridgeCleaned(b)
ScanStep(b) == ScanStops(b) \/ ScanStopped(b) \/ ScanReaps(b) \/ BridgeCloses(b)
SupervisorStep == ScanBegins \/ ScanStarts \/ Reconcile \/ ReconcileEnds \/ Close \/ Release

\* What runs goes on with its own work; an ended service stays so.
Work == (sup = "ended" \/ \E j \in Services : live[j] > 0) /\ UNCHANGED vars

Next ==
  \/ \E j \in Services : Choose(j) \/ RetryDue(j)
  \/ \E h \in Hosts : HostStep(h) \/ HostStopFails(h) \/ HostCancelled(h)
  \/ \E b \in Bridges : BridgeStep(b) \/ ScanStep(b)
  \/ SupervisorStep \/ SpoilBridgeFile \/ ScanCancelled
  \/ ShutdownRequested \/ Leave \/ Work

Spec == Init /\ [][Next]_vars

\* The event loop runs every task that can run, each await ends in one way or
\* the other, retries come due, and run() sees the signal.
Fairness ==
  /\ WF_vars(SupervisorStep) /\ WF_vars(signal /\ Leave)
  /\ \A h \in Hosts : WF_vars(HostStep(h) \/ HostStopFails(h) \/ HostCancelled(h))
  /\ \A b \in Bridges : WF_vars(BridgeStep(b)) /\ WF_vars(ScanStep(b))
  /\ \A j \in Services : WF_vars(RetryDue(j))

LiveSpec == Spec /\ Fairness

-----------------------------------------------------------------------------
(* Properties *)

\* Every variable keeps to its states.
TypeOK ==
  /\ sup \in {"waiting", "reconciling", "finishing", "closing", "ended"}
  /\ {signal, interrupt, error, readable} \subseteq BOOLEAN
  /\ choice \in [Services -> Selections \cup {None, Unreadable}]
  /\ changes \in 0..MaxChanges /\ faults \in 0..MaxFaults
  /\ host \in [Hosts -> [pc : {"idle", "todo", "stopping", "verifying", "starting", "failing",
                               "failingRetry", "closing", "stuck"},
                         sel : Selections \cup {None, Unreadable}]]
  /\ active \in [Hosts -> Selections \cup {None}]
  /\ failed \in [Services -> Selections \cup {None}]
  /\ retry \in [Services -> Selections \cup {None}]
  /\ scan \in [pc : {"idle", "todo", "comparing", "stopAll"}, todo : SUBSET Bridges,
               at : SUBSET Bridges, selected : [Bridges -> Selections \cup {None}]]
  /\ bridge \in [Bridges -> [pc : {"none", "verifying", "opening", "running", "cleaning", "done"},
                             sel : Selections \cup {None}, cancels : 0..2,
                             end : {"none", "cancelled", "returned", "failed", "retry"}]]
  /\ live \in [Services -> Int]

\* At no time do two controllers of one host, or two participants of one
\* bridge, run side by side, whatever selections, failures and cancellations
\* come between; and what runs is what a reconciler has an entry for, so that a
\* stop reaches it (native_reconciliation.py and mcp_reconciliation.py _stop).
OneRuntime ==
  /\ \A h \in Hosts : live[h] = IF active[h] = None THEN 0 ELSE 1
  /\ \A b \in Bridges : live[b] = IF bridge[b].pc \in {"opening", "running", "cleaning"} THEN 1 ELSE 0

\* When the device's lease is given back, no controller and no bridge runs any
\* more, except a controller whose own stop failed (supervisor.py _finish_shutdown).
NothingLeft ==
  sup = "ended" =>
    /\ \A b \in Bridges : live[b] = 0
    /\ \A h \in Hosts : live[h] = 0 \/ host[h].pc = "stuck"

\* A service that was asked to stop ends, wherever its reconciliation stood.
ShutdownEnds == signal ~> (sup = "ended")

Running(j) == IF j \in Hosts THEN active[j] ELSE IF bridge[j].pc = "running" THEN bridge[j].sel ELSE None

\* What runs comes to agree with what the user selected, unless the selection
\* changes again or the service leaves.  What runs under a selection that is no
\* longer chosen is stopped.  What is chosen is running, or known to have
\* failed: a failure of an earlier selection, a pending retry or a stop in
\* progress never blocks it for ever (native_reconciliation.py _reconcile_host,
\* mcp_reconciliation.py reconcile).
SelectionFollowed ==
  \A j \in Services : \A s \in Selections :
    /\ (Running(j) = s /\ choice[j] # s) ~> (Running(j) # s \/ choice[j] = s \/ sup = "ended")
    /\ (choice[j] = s /\ readable) ~>
         (Running(j) = s \/ failed[j] = s \/ choice[j] # s \/ ~readable \/ sup \notin {"waiting", "reconciling"})
=============================================================================
