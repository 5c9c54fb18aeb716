------------------------------ MODULE HookOutbox ------------------------------
(***************************************************************************)
(* The durable store of native-hook outcomes                               *)
(* (integrations/agents/hook_outbox.py): asyncio callers serialised by one *)
(* lock, each state change written by a disk thread that outlives the      *)
(* cancellation of its caller, the in-memory table published only after    *)
(* the file was replaced, and the file as all that survives a restart.     *)
(*                                                                         *)
(* The event loop runs a caller from one await to the next, so an action   *)
(* is what happens between two awaits.  DiskReplace and DiskFail are the   *)
(* storage thread's.  Bounds: the clock stops at Horizon.                  *)
(***************************************************************************)
EXTENDS Integers, FiniteSets

CONSTANTS
  Keys,             \* action keys
  Prints,           \* action fingerprints (binding digests)
  Outcomes,         \* safe outcome evidence
  Callers,          \* asyncio tasks that use the store
  Deliverer,        \* the one of them that runs the delivery loop
  NoEntry, NoCaller, NoPrint, NoKey,
  MaxAwaiting,      \* _MAX_AWAITING_HOST
  MaxEntries,       \* _MAX_ENTRIES
  Ttl,              \* _CORRELATION_TTL_SECONDS
  Horizon,          \* last value of the model's clock
  MaxOrphans        \* bound: storage threads outliving a controller that was
                    \* replaced in a living process; 0: never replaced so

ASSUME OutboxConstants ==
  /\ IsFiniteSet(Keys) /\ Keys # {}
  /\ Deliverer \in Callers
  /\ NoCaller \notin Callers
  /\ MaxAwaiting \in Nat /\ MaxEntries \in Nat
  /\ Ttl \in Nat \ {0} /\ Horizon \in Nat
  /\ MaxOrphans \in Nat
  /\ "none" \notin Outcomes

Entry == [state : {"awaiting_host", "received"}, print : Prints,
          outcome : Outcomes \cup {"none"}, born : 0..Horizon]

ASSUME NoEntryIsNone == NoEntry \notin Entry

VARIABLES
  run,      \* the controller: "down", "loading" (start() before any RPC) or "up"
  now,      \* int(time.time()), in units the TTL is a multiple of
  disk,     \* contents of the outcomes file
  mem,      \* self._entries
  lock,     \* holder of self._lock
  pending,  \* self._pending_storage: the storage task last started
  call,     \* what each caller is doing in the store
  orphan    \* storage tasks whose thread outlived their controller

vars == <<run, now, disk, mem, lock, pending, call, orphan>>

Store == [Keys -> Entry \cup {NoEntry}]
Empty == [k \in Keys |-> NoEntry]
Present(s) == {k \in Keys : s[k] # NoEntry}
Awaiting(s) == {k \in Present(s) : s[k].state = "awaiting_host"}
Received(s) == {k \in Present(s) : s[k].state = "received"}

\* Wrong variant: forgets that only awaiting reservations expire.
ExpiredInAnyState(s) == {k \in Present(s) : s[k].born + Ttl <= now}

\* Reservations past their time-to-live; received evidence never expires.
Expired(s) == {k \in Awaiting(s) : s[k].born + Ttl <= now}

Retained(s) == [k \in Keys |-> IF k \in Expired(s) THEN NoEntry ELSE s[k]]

Ops == {"reserve", "record", "lookup", "received", "acknowledge", "prune", "load"}
Phases == {"done", "failed", "reading", "writing", "written"}
\* How an operation ends in a step of its caller; "awaiting" when the step ends
\* at an await inside the operation.
Replies == {"awaiting", "ok", "duplicate", "full", "unavailable", "mismatch", "storage"}
NoCall == [op |-> "prune", step |-> "idle", key |-> NoKey,
           print |-> NoPrint, outcome |-> "none"]
StorageTask == [phase : Phases, store : Store, op : Ops, key : Keys \cup {NoKey}]
NoStorage == [phase |-> "done", store |-> Empty, op |-> "prune",
              key |-> NoKey]

\* stop() cancels the delivery loop for good; other callers come back.
Gone == [NoCall EXCEPT !.step = "gone"]
Left(c) == IF c = Deliverer THEN Gone ELSE NoCall

\* A storage task whose thread has not finished, or whose result the event
\* loop has not seen yet.
InFlight == pending.phase \in {"reading", "writing", "written"}

Init ==
  /\ run = "down" /\ now = 0
  /\ disk = Empty /\ mem = Empty
  /\ lock = NoCaller
  /\ pending = NoStorage
  /\ call = [c \in Callers |-> NoCall]
  /\ orphan = {}

-----------------------------------------------------------------------------
(* One caller, from await to await *)

\* A caller enters an operation and queues for the lock.
Invoke(c, op, k, p, o) ==
  /\ run = "up"
  /\ call[c].step = "idle"
  /\ call' = [call EXCEPT ![c] = [op |-> op, step |-> "wait", key |-> k,
                                  print |-> p, outcome |-> o]]
  /\ UNCHANGED <<run, now, disk, mem, lock, pending, orphan>>

\* Wrong variant: does not wait for the storage task a cancelled caller left.
MayEnterUndrained(c, op) ==
  call[c].step = "wait" /\ call[c].op = op /\ lock = NoCaller

\* _serialized: the lock is free and the storage task of a cancelled
\* predecessor, if any, has ended (its failure is suppressed).
MayEnter(c, op) ==
  /\ call[c].step = "wait" /\ call[c].op = op
  /\ lock = NoCaller
  /\ ~InFlight

\* _commit: hand the whole next table to the disk thread, holding the lock.
Commit(c, s, step) ==
  /\ lock' = c
  /\ pending' = [phase |-> "writing", store |-> s, op |-> call[c].op, key |-> call[c].key]
  /\ call' = [call EXCEPT ![c].step = step]

\* The operation returns or raises, and the lock is released.
Return(c) ==
  /\ lock' = NoCaller
  /\ call' = [call EXCEPT ![c] = NoCall]
  /\ UNCHANGED pending

Reservation(c) == [state |-> "awaiting_host", print |-> call[c].print,
                   outcome |-> "none", born |-> now]

\* Wrong variant: one entry over the limits.
HasRoomOffByOne ==
  Cardinality(Awaiting(mem)) <= MaxAwaiting /\ Cardinality(Present(mem)) <= MaxEntries

HasRoom ==
  Cardinality(Awaiting(mem)) < MaxAwaiting /\ Cardinality(Present(mem)) < MaxEntries

ReserveBody(c, r) ==
  LET k == call[c].key
  IN \/ r = "duplicate" /\ mem[k] # NoEntry /\ Return(c)
     \/ r = "full" /\ mem[k] = NoEntry /\ ~HasRoom /\ Return(c)
     \/ /\ r = "awaiting" /\ mem[k] = NoEntry /\ HasRoom
        /\ Commit(c, [mem EXCEPT ![k] = Reservation(c)], "commit")

\* reserve: prune first (its own commit when something expired), then reserve.
Reserve(c, r) ==
  /\ MayEnter(c, "reserve")
  /\ \/ Expired(mem) # {} /\ r = "awaiting" /\ Commit(c, Retained(mem), "prune")
     \/ Expired(mem) = {} /\ ReserveBody(c, r)
  /\ UNCHANGED <<run, now, disk, mem, orphan>>

\* record_outcome: only an awaiting reservation whose fingerprint matches the
\* observed one (local outcomes carry none) becomes received.
RecordOutcome(c, r) ==
  LET k == call[c].key
      matches == call[c].print \in {NoPrint, mem[k].print}
  IN
  /\ MayEnter(c, "record")
  /\ \/ r = "unavailable" /\ k \notin Awaiting(mem) /\ Return(c)
     \/ r = "mismatch" /\ k \in Awaiting(mem) /\ ~matches /\ Return(c)
     \/ /\ r = "awaiting" /\ k \in Awaiting(mem) /\ matches
        /\ Commit(c, [mem EXCEPT ![k] = [@ EXCEPT !.state = "received",
                                                  !.outcome = call[c].outcome]], "commit")
  /\ UNCHANGED <<run, now, disk, mem, orphan>>

\* acknowledge: drop a settled outcome; nothing to write when it is gone.
Acknowledge(c, r) ==
  LET k == call[c].key IN
  /\ MayEnter(c, "acknowledge")
  /\ \/ r = "ok" /\ mem[k] = NoEntry /\ Return(c)
     \/ /\ r = "awaiting" /\ mem[k] # NoEntry
        /\ Commit(c, [mem EXCEPT ![k] = NoEntry], "commit")
  /\ UNCHANGED <<run, now, disk, mem, orphan>>

\* received_entries and action_key_for_host_correlation copy what they need
\* from the table under the lock, with no await inside it.
ReadTable(c, op) ==
  /\ MayEnter(c, op) /\ op \in {"received", "lookup"}
  /\ Return(c)
  /\ UNCHANGED <<run, now, disk, mem, orphan>>

Prune(c, r) ==
  /\ MayEnter(c, "prune")
  /\ \/ r = "awaiting" /\ Expired(mem) # {} /\ Commit(c, Retained(mem), "prune")
     \/ r = "ok" /\ Expired(mem) = {} /\ Return(c)
  /\ UNCHANGED <<run, now, disk, mem, orphan>>

\* The caller resumes after its prune was stored: reserve goes on with the
\* table and the clock it now reads, prune is finished.
AfterPrune(c, r) ==
  /\ call[c].step = "prune" /\ pending.phase = "done"
  /\ \/ call[c].op = "reserve" /\ ReserveBody(c, r)
     \/ call[c].op = "prune" /\ r = "ok" /\ Return(c)
  /\ UNCHANGED <<run, now, disk, mem, orphan>>

AfterCommit(c) ==
  /\ call[c].step = "commit" /\ pending.phase = "done"
  /\ Return(c)
  /\ UNCHANGED <<run, now, disk, mem, orphan>>

\* The storage task raised in front of its caller.
StorageError(c) ==
  /\ call[c].step \in {"prune", "commit"} /\ call[c].op # "load"
  /\ pending.phase = "failed"
  /\ Return(c)
  /\ UNCHANGED <<run, now, disk, mem, orphan>>

\* Wrong variant: a cancelled caller leaves with the lock.
CancelHoldingLock(c) ==
  /\ call[c].step \notin {"idle", "gone"} /\ call[c].op # "load"
  /\ call' = [call EXCEPT ![c] = Left(c)]
  /\ UNCHANGED <<run, now, disk, mem, lock, pending, orphan>>

\* A timeout, a disconnect or stop() cancels the caller at its await.  The lock is
\* released; the shielded storage task goes on.
Cancel(c) ==
  /\ call[c].step \notin {"idle", "gone"} /\ call[c].op # "load"
  /\ call' = [call EXCEPT ![c] = Left(c)]
  /\ lock' = IF lock = c THEN NoCaller ELSE lock
  /\ UNCHANGED <<run, now, disk, mem, pending, orphan>>

-----------------------------------------------------------------------------
(* The storage thread, and the loop callback that sees it end *)

\* _write_sync up to os.replace: the file changes in one step.
DiskReplace ==
  /\ pending.phase = "writing"
  /\ disk' = pending.store
  /\ pending' = [pending EXCEPT !.phase = "written"]
  /\ UNCHANGED <<run, now, mem, lock, call, orphan>>

\* _write_sync or _load_sync raises and leaves the file as it was.
DiskFail ==
  /\ pending.phase \in {"reading", "writing"}
  /\ pending' = [NoStorage EXCEPT !.phase = "failed"]
  /\ UNCHANGED <<run, now, disk, mem, lock, call, orphan>>

\* Wrong variant: publishes while the thread is still writing.
PublishEarly ==
  /\ pending.phase \in {"writing", "written"}
  /\ mem' = pending.store
  /\ UNCHANGED <<run, now, disk, lock, pending, call, orphan>>

\* persist() resumes on the loop and publishes the stored table.
Publish ==
  /\ pending.phase = "written"
  /\ mem' = pending.store
  /\ pending' = NoStorage
  /\ UNCHANGED <<run, now, disk, lock, call, orphan>>

-----------------------------------------------------------------------------
(* Start, restart and time *)

\* start(): a fresh controller loads the file before it serves anything.
Start(c) ==
  /\ run = "down" /\ run' = "loading"
  /\ lock' = c
  /\ pending' = [NoStorage EXCEPT !.phase = "reading"]
  /\ call' = [call EXCEPT ![c] = [NoCall EXCEPT !.op = "load", !.step = "read"]]
  /\ UNCHANGED <<now, disk, mem, orphan>>

LoadRead ==
  /\ pending.phase = "reading"
  /\ mem' = disk
  /\ pending' = NoStorage
  /\ UNCHANGED <<run, now, disk, lock, call, orphan>>

\* load() prunes what it read; RPCs are served only after that is stored.
AfterRead(c) ==
  /\ call[c].step = "read" /\ pending.phase = "done"
  /\ \/ Expired(mem) # {} /\ Commit(c, Retained(mem), "prune") /\ run' = run
     \/ Expired(mem) = {} /\ Return(c) /\ run' = "up"
  /\ UNCHANGED <<now, disk, mem, orphan>>

Loaded(c) ==
  /\ call[c].op = "load" /\ call[c].step = "prune" /\ pending.phase = "done"
  /\ Return(c) /\ run' = "up"
  /\ UNCHANGED <<now, disk, mem, orphan>>

Forget ==
  /\ run # "down" /\ run' = "down"
  /\ mem' = Empty /\ lock' = NoCaller /\ pending' = NoStorage
  /\ call' = [c \in Callers |-> NoCall]
  /\ UNCHANGED <<now, disk>>

\* start() fails with its storage and leaves nothing behind.
LoadError ==
  /\ run = "loading" /\ pending.phase = "failed"
  /\ Forget /\ UNCHANGED orphan

\* The process dies: only the file is left.
Crash == Forget /\ orphan' = {}

\* stop() cancels the callers and drops the controller; a thread that is
\* still writing belongs to nobody and finishes when it finishes.
Stop ==
  /\ Cardinality(orphan) < MaxOrphans
  /\ Forget
  /\ orphan' = orphan \cup (IF pending.phase = "writing" THEN {pending} ELSE {})

OrphanReplace ==
  \E w \in orphan :
    /\ disk' = w.store
    /\ orphan' = orphan \ {w}
    /\ UNCHANGED <<run, now, mem, lock, pending, call>>

\* What a caller's own steps are, and those of everything below the callers.
CallerStep(c) ==
  \/ \E r \in Replies : \/ Reserve(c, r) \/ RecordOutcome(c, r) \/ Acknowledge(c, r)
                       \/ Prune(c, r) \/ AfterPrune(c, r)
  \/ ReadTable(c, "received") \/ ReadTable(c, "lookup")
  \/ AfterCommit(c) \/ StorageError(c) \/ AfterRead(c) \/ Loaded(c)

StorageStep == DiskReplace \/ DiskFail \/ Publish \/ LoadRead

Tick ==
  /\ now < Horizon
  /\ now' = now + 1
  /\ UNCHANGED <<run, disk, mem, lock, pending, call, orphan>>
=============================================================================
