--------------------------- MODULE HookOutboxProofs ---------------------------
(***************************************************************************)
(* Proofs about the outcome store for every set of keys and callers: its   *)
(* types and limits, the evidence in its file, that it implements the      *)
(* ledger, and, at the end, what holds inside one controller although a    *)
(* thread of an earlier one may still replace the file.                    *)
(***************************************************************************)
EXTENDS HookOutboxSpec, FiniteSetTheorems, TLAPS

\* What a caller brought with it, for the operations that use it.
CallArguments ==
  \A c \in Callers :
    /\ call[c].op \in {"reserve", "record", "acknowledge"} => call[c].key \in Keys
    /\ call[c].op = "reserve" => call[c].print \in Prints
    /\ call[c].op = "record" => call[c].outcome \in Outcomes

\* The lock is held exactly by the caller that awaits its own storage task.
LockDiscipline ==
  \A c \in Callers : call[c].step \in {"read", "prune", "commit"} <=> lock = c

\* Before start() has finished, only load() is in the store.
Loading ==
  /\ run = "down" => \A c \in Callers : call[c].step = "idle"
  /\ run = "down" => pending.phase = "done"
  /\ run = "loading" => \A c \in Callers : call[c].step = "idle" \/ call[c].op = "load"
  /\ \A c \in Callers : call[c].op = "load" => run = "loading" /\ call[c].step \in {"read", "prune"}
  /\ \A c \in Callers : call[c].step = "read" => call[c].op = "load"
  /\ pending.phase = "reading" => run = "loading"

\* The table is the file's whenever a decision can be taken on it.
Coherent ==
  /\ pending.phase = "written" => disk = pending.store
  /\ run # "down" /\ pending.phase \in {"done", "writing"} => mem = disk
  /\ run = "up" /\ pending.phase = "failed" => mem = disk

\* The table on its way to the file keeps the evidence the file holds now.
CommitIsCurrent ==
  pending.phase = "writing" =>
    \A k \in Received(disk) :
      \/ pending.store[k] = disk[k]
      \/ pending.store[k] = NoEntry /\ pending.op = "acknowledge" /\ pending.key = k

TypeInv == TypeOK /\ CallArguments
IInv == TypeInv /\ LockDiscipline /\ Loading /\ Coherent /\ CommitIsCurrent /\ orphan = {}

-----------------------------------------------------------------------------
\* Pruning a table gives a table.
LEMMA RetainedIsStore == ASSUME NEW s \in Store PROVE Retained(s) \in Store
  BY DEF Retained, Store

\* The parts of an operation keep types and arguments: a commit of a table,
\* a return, and the body of reserve.
LEMMA CommitType ==
  ASSUME TypeInv, NEW c \in Callers, NEW s \in Store,
         NEW step \in {"prune", "commit"}, Commit(c, s, step),
         UNCHANGED <<run, now, disk, mem, orphan>>
  PROVE  TypeInv'
<1>1. call[c] \in CallRecord
  BY DEF TypeInv, TypeOK
<1>2. pending' \in StorageTask
  BY <1>1 DEF Commit, StorageTask, Phases, CallRecord
<1>3. call' \in [Callers -> CallRecord]
  BY <1>1 DEF Commit, TypeInv, TypeOK, CallRecord
<1>4. lock' \in Callers \cup {NoCaller}
  BY DEF Commit
<1>5. CallArguments'
  BY DEF Commit, TypeInv, CallArguments, TypeOK, CallRecord
<1> QED
  BY <1>2, <1>3, <1>4, <1>5 DEF TypeInv, TypeOK, Store

LEMMA ReturnType ==
  ASSUME TypeInv, NEW c \in Callers, Return(c),
         run' \in {"down", "loading", "up"}, UNCHANGED <<now, disk, mem, orphan>>
  PROVE  TypeInv'
<1>1. call' \in [Callers -> CallRecord]
  BY DEF Return, TypeInv, TypeOK, CallRecord, NoCall, Ops
<1>2. CallArguments'
  BY DEF Return, TypeInv, CallArguments, TypeOK, CallRecord, NoCall
<1> QED
  BY <1>1, <1>2 DEF Return, TypeInv, TypeOK, Store

LEMMA ReserveBodyType ==
  ASSUME TypeInv, NEW c \in Callers, NEW r \in Replies, call[c].op = "reserve",
         ReserveBody(c, r), UNCHANGED <<run, now, disk, mem, orphan>>
  PROVE  TypeInv'
<1>1. CASE Return(c)
  BY <1>1, ReturnType DEF TypeInv, TypeOK
<1>2. CASE Commit(c, [mem EXCEPT ![call[c].key] = Reservation(c)], "commit")
  <2>1. Reservation(c) \in Entry
    BY DEF Reservation, Entry, TypeInv, TypeOK, CallArguments
  <2>2. [mem EXCEPT ![call[c].key] = Reservation(c)] \in Store
    BY <2>1 DEF TypeInv, TypeOK, Store
  <2> QED
    BY <1>2, <2>2, CommitType
<1> QED
  BY <1>1, <1>2 DEF ReserveBody

\* Recording an outcome gives a table.
LEMMA RecordedIsStore ==
  ASSUME TypeInv, NEW c \in Callers, call[c].op = "record", call[c].key \in Awaiting(mem)
  PROVE  [mem EXCEPT ![call[c].key] = [@ EXCEPT !.state = "received",
                                              !.outcome = call[c].outcome]] \in Store
<1>1. mem[call[c].key] \in Entry
  BY DEF TypeInv, TypeOK, Store, Awaiting, Present
<1>2. [mem[call[c].key] EXCEPT !.state = "received", !.outcome = call[c].outcome] \in Entry
  BY <1>1 DEF Entry, TypeInv, CallArguments
<1> QED
  BY <1>2 DEF TypeInv, TypeOK, Store

\* What the controller calls the store with.
Enters(c) ==
  \E k \in Keys \cup {NoKey}, op \in Ops \ {"load"}, p \in Prints \cup {NoPrint},
     o \in Outcomes \cup {"none"} :
    /\ Invoke(c, op, k, p, o)
    /\ op \in {"reserve", "record", "acknowledge"} => k \in Keys
    /\ op = "reserve" => p \in Prints
    /\ op = "record" => o \in Outcomes
    /\ op = "acknowledge" => c = Deliverer /\ k \in Received(mem)

LEMMA ClientEnters == ASSUME NEW c \in Callers, Client(c) PROVE Enters(c)
<1> USE DEF Enters
<1>1. CASE c = Deliverer
  <2>1. \/ Invoke(c, "received", NoKey, NoPrint, "none")
        \/ \E k \in Keys : k \in Received(mem) /\ Invoke(c, "acknowledge", k, NoPrint, "none")
    BY <1>1 DEF Client
  <2> QED
    BY <1>1, <2>1 DEF Ops
<1>2. CASE c # Deliverer
  <2>1. CASE Invoke(c, "prune", NoKey, NoPrint, "none")
    BY <1>2, <2>1 DEF Ops
  <2>2. ASSUME NEW k \in Keys, NEW p \in Prints, Invoke(c, "reserve", k, p, "none")
        PROVE  Enters(c)
    BY <1>2, <2>2 DEF Ops
  <2>3. ASSUME NEW k \in Keys, NEW p \in Prints \cup {NoPrint}, NEW o \in Outcomes,
               Invoke(c, "record", k, p, o)
        PROVE  Enters(c)
    BY <1>2, <2>3 DEF Ops
  <2>4. ASSUME NEW k \in Keys, Invoke(c, "lookup", k, NoPrint, "none") PROVE Enters(c)
    BY <1>2, <2>4 DEF Ops
  <2> QED
    BY <1>2, <2>1, <2>2, <2>3, <2>4 DEF Client
<1> QED
  BY <1>1, <1>2

LEMMA TypeInit == Init => TypeInv
  BY OutboxConstants DEF Init, TypeInv, TypeOK, CallArguments, Store, Empty, NoStorage,
     StorageTask, Phases, Ops, CallRecord, NoCall

LEMMA TypeStep == TypeInv /\ [Next]_vars => TypeInv'
<1> SUFFICES ASSUME TypeInv, [Next]_vars PROVE TypeInv'
  OBVIOUS
<1> USE DEF TypeInv
<1>1. ASSUME NEW c \in Callers, Client(c) PROVE TypeInv'
  <2>1. PICK k \in Keys \cup {NoKey}, op \in Ops, p \in Prints \cup {NoPrint},
             o \in Outcomes \cup {"none"} :
          /\ Invoke(c, op, k, p, o)
          /\ op \in {"reserve", "record", "acknowledge"} => k \in Keys
          /\ op = "reserve" => p \in Prints
          /\ op = "record" => o \in Outcomes
    BY <1>1, ClientEnters DEF Enters
  <2>2. call' \in [Callers -> CallRecord]
    BY <2>1 DEF Invoke, TypeOK, CallRecord
  <2>3. CallArguments'
    BY <2>1 DEF Invoke, CallArguments, TypeOK
  <2> QED
    BY <2>1, <2>2, <2>3 DEF Invoke, TypeOK, Store
<1>2. ASSUME NEW c \in Callers, NEW r \in Replies, Reserve(c, r) PROVE TypeInv'
  BY <1>2, CommitType, ReserveBodyType, RetainedIsStore DEF Reserve, MayEnter, TypeOK
<1>3. ASSUME NEW c \in Callers, NEW r \in Replies, RecordOutcome(c, r) PROVE TypeInv'
  BY <1>3, CommitType, ReturnType, RecordedIsStore DEF RecordOutcome, MayEnter, TypeOK
<1>4. ASSUME NEW c \in Callers, NEW r \in Replies, Acknowledge(c, r) PROVE TypeInv'
  <2>1. [mem EXCEPT ![call[c].key] = NoEntry] \in Store
    BY DEF TypeOK, Store
  <2> QED
    BY <1>4, <2>1, CommitType, ReturnType DEF Acknowledge, TypeOK
<1>5. ASSUME NEW c \in Callers, NEW r \in Replies, Prune(c, r) PROVE TypeInv'
  BY <1>5, CommitType, ReturnType, RetainedIsStore DEF Prune, TypeOK
<1>6. ASSUME NEW c \in Callers, NEW r \in Replies, AfterPrune(c, r) PROVE TypeInv'
  BY <1>6, ReturnType, ReserveBodyType DEF AfterPrune, TypeOK
<1>7. ASSUME NEW c \in Callers, \/ ReadTable(c, "received") \/ ReadTable(c, "lookup")
                               \/ AfterCommit(c) \/ StorageError(c) \/ Loaded(c)
      PROVE TypeInv'
  BY <1>7, ReturnType DEF ReadTable, AfterCommit, StorageError, Loaded, TypeOK
<1>8. ASSUME NEW c \in Callers, AfterRead(c) PROVE TypeInv'
  BY <1>8, CommitType, ReturnType, RetainedIsStore DEF AfterRead, TypeOK
<1>9. ASSUME NEW c \in Callers, Cancel(c) PROVE TypeInv'
  <2>1. call' \in [Callers -> CallRecord] /\ CallArguments'
    BY <1>9 DEF Cancel, Left, Gone, TypeOK, CallArguments, CallRecord, NoCall, Ops
  <2> QED
    BY <1>9, <2>1 DEF Cancel, TypeOK, Store
<1>10. ASSUME NEW c \in Callers, Start(c) PROVE TypeInv'
  <2>1. call' \in [Callers -> CallRecord] /\ CallArguments'
    BY <1>10 DEF Start, TypeOK, CallArguments, CallRecord, NoCall, Ops
  <2>2. pending' \in StorageTask
    BY <1>10 DEF Start, NoStorage, StorageTask, Phases, Ops, Empty, Store
  <2> QED
    BY <1>10, <2>1, <2>2 DEF Start, TypeOK, Store
<1>11. CASE StorageStep
  <2>1. pending' \in StorageTask /\ disk' \in Store /\ mem' \in Store
    BY <1>11 DEF StorageStep, DiskReplace, DiskFail, Publish, LoadRead, TypeOK, StorageTask,
       NoStorage, Phases, Ops, Empty, Store
  <2>2. UNCHANGED <<run, now, lock, call, orphan>>
    BY <1>11 DEF StorageStep, DiskReplace, DiskFail, Publish, LoadRead
  <2> QED
    BY <2>1, <2>2 DEF TypeOK, CallArguments
<1>12. CASE LoadError \/ Crash \/ Stop
  <2>1. Forget /\ orphan' \subseteq orphan \cup {pending}
    BY <1>12 DEF LoadError, Crash, Stop
  <2>2. pending' \in StorageTask /\ mem' \in Store /\ orphan' \subseteq StorageTask
    BY <2>1 DEF Forget, NoStorage, StorageTask, Phases, Ops, Empty, Store, TypeOK
  <2>3. call' \in [Callers -> CallRecord] /\ CallArguments'
    BY <2>1 DEF Forget, CallArguments, CallRecord, NoCall, Ops
  <2> QED
    BY <2>1, <2>2, <2>3 DEF Forget, TypeOK
<1>13. CASE OrphanReplace
  BY <1>13 DEF OrphanReplace, TypeOK, StorageTask, CallArguments
<1>14. CASE Tick
  BY <1>14, OutboxConstants DEF Tick, TypeOK, CallArguments, Store
<1>15. CASE UNCHANGED vars
  BY <1>15 DEF vars, TypeOK, CallArguments
<1> QED
  BY <1>1, <1>2, <1>3, <1>4, <1>5, <1>6, <1>7, <1>8, <1>9, <1>10, <1>11, <1>12, <1>13, <1>14, <1>15
  DEF Next, CallerStep

\* The type invariant of the store (integrations/agents/hook_outbox.py) holds
\* for any number of keys, callers, restarts and threads that outlive them.
THEOREM TypeCorrect == Spec => []TypeOK
<1>1. Init => TypeInv
  BY TypeInit
<1>2. TypeInv /\ [Next]_vars => TypeInv'
  BY TypeStep
<1>3. TypeInv => TypeOK
  BY DEF TypeInv
<1> QED
  BY <1>1, <1>2, <1>3, PTL DEF Spec

-----------------------------------------------------------------------------
\* No table the store holds, is writing or has left to a thread of an earlier
\* controller exceeds the limits.
Limited ==
  /\ WithinLimits(disk) /\ WithinLimits(mem) /\ WithinLimits(pending.store)
  /\ \A w \in orphan : WithinLimits(w.store)

\* A table that holds less stays within the limits.
LEMMA FewerWithinLimits ==
  ASSUME NEW s, NEW t, WithinLimits(s), Present(t) \subseteq Present(s),
         Awaiting(t) \subseteq Awaiting(s)
  PROVE  WithinLimits(t)
<1>1. IsFiniteSet(Present(s)) /\ IsFiniteSet(Awaiting(s))
  BY OutboxConstants, FS_Subset DEF Present, Awaiting
<1>2. IsFiniteSet(Present(t)) /\ IsFiniteSet(Awaiting(t))
  BY OutboxConstants, FS_Subset DEF Present, Awaiting
<1>3. /\ Cardinality(Present(t)) <= Cardinality(Present(s))
      /\ Cardinality(Awaiting(t)) <= Cardinality(Awaiting(s))
  BY <1>1, FS_Subset
<1>4. /\ Cardinality(Present(s)) \in Nat /\ Cardinality(Awaiting(s)) \in Nat
      /\ Cardinality(Present(t)) \in Nat /\ Cardinality(Awaiting(t)) \in Nat
  BY <1>1, <1>2, FS_CardinalityType
<1> QED
  BY <1>3, <1>4, OutboxConstants DEF WithinLimits

LEMMA EmptyWithinLimits == WithinLimits(Empty) /\ NoStorage.store = Empty
<1>1. Present(Empty) = {} /\ Awaiting(Empty) = {}
  BY DEF Present, Awaiting, Empty
<1> QED
  BY <1>1, FS_EmptySet, OutboxConstants DEF WithinLimits, NoStorage

LEMMA RetainedWithinLimits ==
  ASSUME NEW s \in Store, WithinLimits(s) PROVE WithinLimits(Retained(s))
<1>1. /\ Present(Retained(s)) \subseteq Present(s)
      /\ Awaiting(Retained(s)) \subseteq Awaiting(s)
  BY DEF Retained, Present, Awaiting
<1> QED
  BY <1>1, FewerWithinLimits

\* One reservation more, when there is room for it.
LEMMA ReservedWithinLimits ==
  ASSUME NEW s \in Store, NEW k \in Keys, NEW e \in Entry, s[k] = NoEntry,
         Cardinality(Awaiting(s)) < MaxAwaiting, Cardinality(Present(s)) < MaxEntries
  PROVE  WithinLimits([s EXCEPT ![k] = e])
<1> DEFINE t == [s EXCEPT ![k] = e]
<1>1. Present(t) \subseteq Present(s) \cup {k} /\ Awaiting(t) \subseteq Awaiting(s) \cup {k}
  BY DEF Present, Awaiting, Store
<1>2. IsFiniteSet(Present(s)) /\ IsFiniteSet(Awaiting(s))
  BY OutboxConstants, FS_Subset DEF Present, Awaiting
<1>3. k \notin Present(s) /\ k \notin Awaiting(s)
  BY DEF Present, Awaiting
<1>4. /\ Cardinality(Present(s) \cup {k}) = Cardinality(Present(s)) + 1
      /\ Cardinality(Awaiting(s) \cup {k}) = Cardinality(Awaiting(s)) + 1
      /\ IsFiniteSet(Present(s) \cup {k}) /\ IsFiniteSet(Awaiting(s) \cup {k})
  BY <1>2, <1>3, FS_AddElement
<1>a. IsFiniteSet(Present(t)) /\ Cardinality(Present(t)) <= Cardinality(Present(s) \cup {k})
  BY <1>1, <1>4, FS_Subset
<1>b. IsFiniteSet(Awaiting(t)) /\ Cardinality(Awaiting(t)) <= Cardinality(Awaiting(s) \cup {k})
  BY <1>1, <1>4, FS_Subset
<1>5. /\ IsFiniteSet(Present(t)) /\ IsFiniteSet(Awaiting(t))
      /\ Cardinality(Present(t)) <= Cardinality(Present(s)) + 1
      /\ Cardinality(Awaiting(t)) <= Cardinality(Awaiting(s)) + 1
  BY <1>4, <1>a, <1>b
<1>6. /\ Cardinality(Present(s)) \in Nat /\ Cardinality(Awaiting(s)) \in Nat
      /\ Cardinality(Present(t)) \in Nat /\ Cardinality(Awaiting(t)) \in Nat
  BY <1>2, <1>5, FS_CardinalityType
<1> QED
  BY <1>5, <1>6, OutboxConstants DEF WithinLimits

\* Every commit of a caller writes a table within the limits.
LEMMA CallerWithinLimits ==
  ASSUME TypeInv, WithinLimits(mem), NEW c \in Callers, CallerStep(c)
  PROVE  pending' = pending \/ WithinLimits(pending'.store)
<1>0. mem \in Store
  BY DEF TypeInv, TypeOK
<1>1. ASSUME NEW s, NEW step, Commit(c, s, step) PROVE pending'.store = s
  BY <1>1 DEF Commit
<1>2. ASSUME NEW r \in Replies, ReserveBody(c, r), call[c].op = "reserve"
      PROVE  pending' = pending \/ WithinLimits(pending'.store)
  <2>1. CASE Return(c)
    BY <2>1 DEF Return
  <2>2. CASE /\ mem[call[c].key] = NoEntry /\ HasRoom
             /\ Commit(c, [mem EXCEPT ![call[c].key] = Reservation(c)], "commit")
    <3>1. Reservation(c) \in Entry /\ call[c].key \in Keys
      BY <1>2 DEF Reservation, Entry, TypeInv, TypeOK, CallArguments
    <3> QED
      BY <1>0, <1>1, <2>2, <3>1, ReservedWithinLimits DEF HasRoom
  <2> QED
    BY <1>2, <2>1, <2>2 DEF ReserveBody
<1>3. ASSUME NEW r \in Replies, Reserve(c, r) \/ Prune(c, r) \/ AfterPrune(c, r)
      PROVE  pending' = pending \/ WithinLimits(pending'.store)
  <2>1. \/ Return(c) \/ Commit(c, Retained(mem), "prune")
        \/ ReserveBody(c, r) /\ call[c].op = "reserve"
    BY <1>3 DEF Reserve, Prune, AfterPrune, MayEnter
  <2> QED
    BY <1>0, <1>1, <1>2, <2>1, RetainedWithinLimits DEF Return
<1>4. ASSUME NEW r \in Replies, RecordOutcome(c, r)
      PROVE  pending' = pending \/ WithinLimits(pending'.store)
  <2>1. CASE Return(c)
    BY <2>1 DEF Return
  <2> DEFINE s == [mem EXCEPT ![call[c].key] = [@ EXCEPT !.state = "received",
                                                        !.outcome = call[c].outcome]]
  <2>2. CASE call[c].key \in Awaiting(mem) /\ Commit(c, s, "commit")
    <3>1. mem[call[c].key] \in Entry /\ call[c].key \in Keys
      BY <1>0, <2>2 DEF Awaiting, Present, Store
    <3>2. s[call[c].key].state = "received"
      BY <1>0, <3>1 DEF Store, Entry
    <3>3. \A k \in Keys : k # call[c].key => s[k] = mem[k]
      BY <1>0 DEF Store
    <3>4. Awaiting(s) \subseteq Awaiting(mem) /\ Present(s) \subseteq Present(mem)
      BY <2>2, <3>2, <3>3 DEF Awaiting, Present
    <3> QED
      BY <1>1, <2>2, <3>4, FewerWithinLimits
  <2> QED
    BY <1>4, <2>1, <2>2 DEF RecordOutcome
<1>5. ASSUME NEW r \in Replies, Acknowledge(c, r)
      PROVE  pending' = pending \/ WithinLimits(pending'.store)
  <2> DEFINE s == [mem EXCEPT ![call[c].key] = NoEntry]
  <2>1. Return(c) \/ Commit(c, s, "commit")
    BY <1>5 DEF Acknowledge
  <2>2. Awaiting(s) \subseteq Awaiting(mem) /\ Present(s) \subseteq Present(mem)
    BY <1>0 DEF Awaiting, Present, Store
  <2> QED
    BY <1>1, <2>1, <2>2, FewerWithinLimits DEF Return
<1>6. ASSUME \/ ReadTable(c, "received") \/ ReadTable(c, "lookup")
             \/ AfterCommit(c) \/ StorageError(c) \/ Loaded(c)
      PROVE  pending' = pending
  BY <1>6 DEF ReadTable, AfterCommit, StorageError, Loaded, Return
<1>7. ASSUME AfterRead(c) PROVE pending' = pending \/ WithinLimits(pending'.store)
  BY <1>0, <1>1, <1>7, RetainedWithinLimits DEF AfterRead, Return
<1> QED
  BY <1>3, <1>4, <1>5, <1>6, <1>7 DEF CallerStep

LEMMA CallerLeaves ==
  ASSUME NEW c \in Callers, Client(c) \/ CallerStep(c) \/ Cancel(c)
  PROVE  UNCHANGED <<now, disk, mem, orphan>>
<1>1. CASE Client(c) \/ Cancel(c)
  BY <1>1 DEF Client, Invoke, Cancel
<1>2. CASE CallerStep(c)
  BY <1>2 DEF CallerStep, Reserve, RecordOutcome, Acknowledge, Prune, AfterPrune,
     ReadTable, AfterCommit, StorageError, AfterRead, Loaded
<1> QED
  BY <1>1, <1>2

LEMMA LimitedStep == TypeInv /\ Limited /\ [Next]_vars => Limited'
<1> SUFFICES ASSUME TypeInv, Limited, [Next]_vars PROVE Limited'
  OBVIOUS
<1> USE DEF Limited
<1>0. WithinLimits(NoStorage.store) /\ WithinLimits(Empty)
  BY EmptyWithinLimits
<1>s. \A s : WithinLimits(s)' <=> WithinLimits(s)
  BY DEF WithinLimits, Awaiting, Present
<1>1. ASSUME NEW c \in Callers, CallerStep(c) PROVE Limited'
  BY <1>1, <1>s, CallerWithinLimits, CallerLeaves
<1>2. ASSUME NEW c \in Callers, Client(c) \/ Cancel(c) PROVE Limited'
  <2>1. pending' = pending
    BY <1>2 DEF Client, Invoke, Cancel
  <2> QED
    BY <1>2, <1>s, <2>1, CallerLeaves
<1>3. ASSUME NEW c \in Callers, Start(c) PROVE Limited'
  <2>1. pending'.store = NoStorage.store /\ UNCHANGED <<disk, mem, orphan>>
    BY <1>3 DEF Start, NoStorage
  <2> QED
    BY <1>0, <1>s, <2>1
<1>4. CASE StorageStep
  <2>1. /\ pending'.store \in {pending.store, NoStorage.store}
        /\ disk' \in {disk, pending.store} /\ mem' \in {mem, disk, pending.store}
        /\ orphan' = orphan
    BY <1>4 DEF StorageStep, DiskReplace, DiskFail, Publish, LoadRead, NoStorage, TypeInv,
       TypeOK, StorageTask
  <2> QED
    BY <1>0, <1>s, <2>1
<1>5. CASE LoadError \/ Crash \/ Stop
  <2>1. /\ disk' = disk /\ mem' = Empty /\ pending' = NoStorage
        /\ orphan' \subseteq orphan \cup {pending}
    BY <1>5 DEF LoadError, Crash, Stop, Forget
  <2> QED
    BY <1>0, <1>s, <2>1
<1>6. CASE OrphanReplace
  BY <1>6, <1>s DEF OrphanReplace
<1>7. CASE Tick \/ UNCHANGED vars
  BY <1>7, <1>s DEF Tick, vars
<1> QED
  BY <1>1, <1>2, <1>3, <1>4, <1>5, <1>6, <1>7 DEF Next

\* The limits of the file and of the table (hook_outbox.py:137-169) hold for any
\* number of keys, callers, restarts and threads that outlive their controller.
THEOREM LimitsHold == Spec => []Capacity
<1>1. Init => Limited
  BY EmptyWithinLimits DEF Init, Limited
<1>2. Limited => Capacity
  BY DEF Limited, Capacity
<1> QED
  BY <1>1, <1>2, TypeInit, TypeStep, LimitedStep, PTL DEF Spec

-----------------------------------------------------------------------------
\* A caller that commits a table derived from the published one, evidence
\* included, keeps the invariant.
LEMMA CommitKeeps ==
  ASSUME IInv, NEW c \in Callers, NEW s \in Store, NEW step \in {"prune", "commit"},
         Commit(c, s, step), UNCHANGED <<run, now, disk, mem, orphan>>,
         lock \in {NoCaller, c}, mem = disk,
         run = "up" \/ (run = "loading" /\ call[c].op = "load" /\ step = "prune"),
         call[c].op = "load" => run = "loading",
         \A k \in Received(mem) :
           s[k] = mem[k] \/ (s[k] = NoEntry /\ call[c].op = "acknowledge" /\ call[c].key = k)
  PROVE  IInv'
<1> USE DEF IInv
<1>1. TypeInv'
  BY CommitType
<1>2. LockDiscipline'
  BY OutboxConstants DEF Commit, LockDiscipline, TypeInv, TypeOK, CallRecord
<1>3. Loading'
  BY DEF Commit, Loading, TypeInv, TypeOK, CallRecord
<1>4. Coherent' /\ CommitIsCurrent'
  BY DEF Commit, Coherent, CommitIsCurrent, Received, Present
<1> QED
  BY <1>1, <1>2, <1>3, <1>4

LEMMA ReturnKeeps ==
  ASSUME IInv, NEW c \in Callers, Return(c), UNCHANGED <<now, disk, mem, orphan>>,
         lock \in {NoCaller, c}, run # "down",
         run' = run \/ (run' = "up" /\ call[c].op = "load" /\ pending.phase = "done"),
         run = "up" \/ run' = "up"
  PROVE  IInv'
<1> USE DEF IInv
<1>1. TypeInv'
  BY ReturnType DEF TypeInv, TypeOK
<1>2. LockDiscipline'
  BY OutboxConstants DEF Return, NoCall, LockDiscipline, TypeInv, TypeOK, CallRecord
<1>3. Loading'
  <2>1. \A b \in Callers : b # c /\ call[b].op = "load" => lock = b
    BY DEF Loading, LockDiscipline
  <2>2. run = "loading" => \A b \in Callers : b # c => call[b].step = "idle"
    BY <2>1, OutboxConstants DEF Loading, LockDiscipline
  <2>3. pending.phase = "reading" => run' = "loading"
    BY DEF Loading
  <2> QED
    BY <2>1, <2>2, <2>3, OutboxConstants DEF Return, NoCall, Loading, TypeInv, TypeOK, CallRecord
<1>4. Coherent' /\ CommitIsCurrent'
  BY DEF Return, Coherent, CommitIsCurrent, Received, Present
<1> QED
  BY <1>1, <1>2, <1>3, <1>4

\* Whoever may enter finds the lock free, the controller up and the table
\* equal to the file.
LEMMA EntryIsCoherent ==
  ASSUME IInv, NEW c \in Callers, NEW op, MayEnter(c, op)
  PROVE  lock = NoCaller /\ run = "up" /\ mem = disk /\ call[c].op # "load"
  BY DEF IInv, MayEnter, InFlight, Loading, Coherent, TypeInv, TypeOK, StorageTask, Phases

\* Whoever resumes after its own storage task succeeded does so too.
LEMMA ResumeIsCoherent ==
  ASSUME IInv, NEW c \in Callers, call[c].step \in {"prune", "commit", "read"}, pending.phase = "done"
  PROVE  lock = c /\ run # "down" /\ mem = disk /\ (run = "loading" => call[c].op = "load")
  BY DEF IInv, LockDiscipline, Loading, Coherent

\* What expires is never received evidence.
LEMMA PruneKeepsEvidence ==
  ASSUME NEW s \in Store PROVE \A k \in Received(s) : Retained(s)[k] = s[k]
  BY DEF Received, Present, Retained, Expired, Awaiting

LEMMA ReserveBodyKeeps ==
  ASSUME IInv, NEW c \in Callers, NEW r \in Replies, call[c].op = "reserve",
         ReserveBody(c, r), UNCHANGED <<run, now, disk, mem, orphan>>,
         lock \in {NoCaller, c}, run = "up", mem = disk
  PROVE  IInv'
<1>1. CASE Return(c)
  BY <1>1, ReturnKeeps
<1>2. CASE /\ mem[call[c].key] = NoEntry
           /\ Commit(c, [mem EXCEPT ![call[c].key] = Reservation(c)], "commit")
  <2> DEFINE s == [mem EXCEPT ![call[c].key] = Reservation(c)]
  <2>1. Reservation(c) \in Entry
    BY DEF Reservation, Entry, IInv, TypeInv, TypeOK, CallArguments
  <2>2. s \in Store
    BY <2>1 DEF IInv, TypeInv, TypeOK, Store
  <2>3. \A k \in Received(mem) : s[k] = mem[k]
    BY <1>2 DEF Received, Present, IInv, TypeInv, TypeOK, Store
  <2> QED
    BY <1>2, <2>2, <2>3, CommitKeeps
<1> QED
  BY <1>1, <1>2 DEF ReserveBody

LEMMA CallerKeeps ==
  ASSUME IInv, NEW c \in Callers, CallerStep(c) PROVE IInv'
<1>0. mem \in Store /\ Retained(mem) \in Store
  BY RetainedIsStore DEF IInv, TypeInv, TypeOK
<1>1. ASSUME NEW r \in Replies, Reserve(c, r) PROVE IInv'
  BY <1>0, <1>1, EntryIsCoherent, CommitKeeps, PruneKeepsEvidence, ReserveBodyKeeps DEF Reserve, MayEnter
<1>2. ASSUME NEW r \in Replies, RecordOutcome(c, r) PROVE IInv'
  <2>1. lock = NoCaller /\ run = "up" /\ mem = disk /\ call[c].op = "record"
    BY <1>2, EntryIsCoherent DEF RecordOutcome, MayEnter
  <2>2. CASE Return(c)
    BY <1>2, <2>1, <2>2, ReturnKeeps DEF RecordOutcome
  <2>3. CASE ~Return(c)
    <3> DEFINE s == [mem EXCEPT ![call[c].key] = [@ EXCEPT !.state = "received",
                                                          !.outcome = call[c].outcome]]
    <3>1. call[c].key \in Awaiting(mem) /\ Commit(c, s, "commit")
      BY <1>2, <2>3 DEF RecordOutcome
    <3>2. s \in Store
      BY <2>1, <3>1, RecordedIsStore DEF IInv
    <3>3. \A k \in Received(mem) : s[k] = mem[k]
      BY <1>0, <3>1 DEF Received, Awaiting, Present, Store
    <3> QED
      BY <1>2, <2>1, <3>1, <3>2, <3>3, CommitKeeps DEF RecordOutcome
  <2> QED
    BY <2>2, <2>3
<1>3. ASSUME NEW r \in Replies, Acknowledge(c, r) PROVE IInv'
  <2>1. lock = NoCaller /\ run = "up" /\ mem = disk /\ call[c].op = "acknowledge"
    BY <1>3, EntryIsCoherent DEF Acknowledge, MayEnter
  <2> DEFINE s == [mem EXCEPT ![call[c].key] = NoEntry]
  <2>2. s \in Store /\ \A k \in Keys : s[k] = mem[k] \/ (s[k] = NoEntry /\ call[c].key = k)
    BY <1>0 DEF Store
  <2> QED
    BY <1>3, <2>1, <2>2, CommitKeeps, ReturnKeeps DEF Acknowledge, Received, Present
<1>4. ASSUME NEW r \in Replies, Prune(c, r) PROVE IInv'
  BY <1>0, <1>4, EntryIsCoherent, CommitKeeps, ReturnKeeps, PruneKeepsEvidence DEF Prune
<1>5. ASSUME NEW r \in Replies, AfterPrune(c, r) PROVE IInv'
  <2>1. lock = c /\ run = "up" /\ mem = disk
    BY <1>5, ResumeIsCoherent DEF AfterPrune, IInv, TypeInv, TypeOK
  <2> QED
    BY <1>5, <2>1, ReserveBodyKeeps, ReturnKeeps DEF AfterPrune
<1>6. ASSUME ReadTable(c, "received") \/ ReadTable(c, "lookup") PROVE IInv'
  BY <1>6, EntryIsCoherent, ReturnKeeps DEF ReadTable
<1>7. ASSUME AfterCommit(c) PROVE IInv'
  <2>1. run = "up" /\ lock = c
    BY <1>7, ResumeIsCoherent DEF AfterCommit, IInv, TypeInv, TypeOK, Loading
  <2> QED
    BY <1>7, <2>1, ReturnKeeps DEF AfterCommit
<1>8. ASSUME StorageError(c) PROVE IInv'
  <2>1. run = "up" /\ lock = c
    BY <1>8 DEF StorageError, IInv, LockDiscipline, Loading, TypeInv, TypeOK
  <2> QED
    BY <1>8, <2>1, ReturnKeeps DEF StorageError
<1>9. ASSUME AfterRead(c) \/ Loaded(c) PROVE IInv'
  <2>1. lock = c /\ run = "loading" /\ mem = disk /\ call[c].op = "load" /\ pending.phase = "done"
    BY <1>9, ResumeIsCoherent DEF AfterRead, Loaded, IInv, Loading, TypeInv, TypeOK
  <2> QED
    BY <1>0, <1>9, <2>1, CommitKeeps, ReturnKeeps, PruneKeepsEvidence DEF AfterRead, Loaded
<1> QED
  BY <1>1, <1>2, <1>3, <1>4, <1>5, <1>6, <1>7, <1>8, <1>9 DEF CallerStep

LEMMA IInvInit == Init => IInv
<1> SUFFICES ASSUME Init PROVE IInv
  OBVIOUS
<1>1. TypeInv
  BY TypeInit
<1>2. LockDiscipline /\ Loading
  BY OutboxConstants DEF Init, LockDiscipline, Loading, NoCall, NoStorage
<1>3. Coherent /\ CommitIsCurrent
  BY DEF Init, Coherent, CommitIsCurrent, NoStorage
<1> QED
  BY <1>1, <1>2, <1>3 DEF IInv, Init

LEMMA IInvStep == MaxOrphans = 0 /\ IInv /\ [Next]_vars => IInv'
<1> SUFFICES ASSUME MaxOrphans = 0, IInv, [Next]_vars PROVE IInv'
  OBVIOUS
<1>0. TypeInv'
  BY TypeStep DEF IInv
<1>1. ASSUME NEW c \in Callers, Client(c) PROVE IInv'
  <2>1. PICK k \in Keys \cup {NoKey}, op \in Ops \ {"load"}, p \in Prints \cup {NoPrint},
             o \in Outcomes \cup {"none"} : Invoke(c, op, k, p, o)
    BY <1>1, ClientEnters DEF Enters
  <2>2. LockDiscipline' /\ Loading'
    BY <2>1 DEF Invoke, IInv, LockDiscipline, Loading, TypeInv, TypeOK, CallRecord
  <2>3. Coherent' /\ CommitIsCurrent'
    BY <2>1 DEF Invoke, IInv, Coherent, CommitIsCurrent, Received, Present
  <2> QED
    BY <1>0, <2>1, <2>2, <2>3 DEF IInv, Invoke
<1>2. ASSUME NEW c \in Callers, Cancel(c) PROVE IInv'
  <2>1. LockDiscipline' /\ Loading'
    BY <1>2, OutboxConstants DEF Cancel, Left, Gone, NoCall, IInv, LockDiscipline, Loading, TypeInv, TypeOK, CallRecord
  <2>2. Coherent' /\ CommitIsCurrent'
    BY <1>2 DEF Cancel, IInv, Coherent, CommitIsCurrent, Received, Present
  <2> QED
    BY <1>0, <1>2, <2>1, <2>2 DEF IInv, Cancel
<1>3. ASSUME NEW c \in Callers, Start(c) PROVE IInv'
  <2>1. LockDiscipline' /\ Loading'
    BY <1>3, OutboxConstants DEF Start, NoCall, NoStorage, IInv, LockDiscipline, Loading, TypeInv, TypeOK, CallRecord
  <2>2. Coherent' /\ CommitIsCurrent'
    BY <1>3 DEF Start, NoStorage, IInv, Coherent, CommitIsCurrent
  <2> QED
    BY <1>0, <1>3, <2>1, <2>2 DEF IInv, Start
<1>4. CASE StorageStep
  <2>1. UNCHANGED <<run, call, lock, orphan>>
    BY <1>4 DEF StorageStep, DiskReplace, DiskFail, Publish, LoadRead
  <2>2. LockDiscipline' /\ Loading'
    BY <1>4, <2>1 DEF StorageStep, DiskReplace, DiskFail, Publish, LoadRead, NoStorage,
       IInv, LockDiscipline, Loading, TypeInv, TypeOK, StorageTask
  <2>3. CommitIsCurrent'
    BY <1>4 DEF StorageStep, DiskReplace, DiskFail, Publish, LoadRead, NoStorage,
       CommitIsCurrent, IInv, TypeInv, TypeOK, StorageTask
  <2>4. Coherent'
    BY <1>4 DEF StorageStep, DiskReplace, DiskFail, Publish, LoadRead, NoStorage,
       Coherent, IInv, Loading, TypeInv, TypeOK, StorageTask
  <2> QED
    BY <1>0, <2>1, <2>2, <2>3, <2>4 DEF IInv
<1>5. CASE LoadError \/ Crash \/ Stop
  <2>1. Forget /\ orphan' = {}
    BY <1>5, FS_EmptySet DEF LoadError, Crash, Stop, IInv
  <2>2. LockDiscipline' /\ Loading' /\ Coherent' /\ CommitIsCurrent'
    BY <2>1, OutboxConstants DEF Forget, NoCall, NoStorage, LockDiscipline, Loading, Coherent, CommitIsCurrent
  <2> QED
    BY <1>0, <2>1, <2>2 DEF IInv
<1>6. CASE OrphanReplace
  BY <1>6 DEF OrphanReplace, IInv
<1>7. CASE Tick \/ UNCHANGED vars
  BY <1>0, <1>7 DEF Tick, vars, IInv, LockDiscipline, Loading, Coherent, CommitIsCurrent, Received, Present
<1> QED
  BY <1>1, <1>2, <1>3, <1>4, <1>5, <1>6, <1>7, CallerKeeps DEF Next

\* Publish-after-store (hook_outbox.py:107-114): with no storage thread left over
\* from an earlier controller, decisions are taken on the table the file holds.
THEOREM Durable == MaxOrphans = 0 => (Spec => []PublishedIsDurable)
<1> SUFFICES ASSUME MaxOrphans = 0 PROVE Spec => []PublishedIsDurable
  OBVIOUS
<1>1. IInv => PublishedIsDurable
  BY DEF IInv, Coherent, PublishedIsDurable, Loading, TypeInv, TypeOK, StorageTask, Phases
<1> QED
  BY <1>1, IInvInit, IInvStep, PTL DEF Spec

\* Received evidence leaves the file only by its own acknowledgement, through
\* every interleaving, cancellation, storage failure and death of the process.
THEOREM Evidence == MaxOrphans = 0 => (Spec => EvidenceKept)
<1> SUFFICES ASSUME MaxOrphans = 0 PROVE Spec => EvidenceKept
  OBVIOUS
<1> DEFINE Kept ==
      \A k \in Received(disk) :
        \/ disk'[k] = disk[k]
        \/ /\ disk'[k] = NoEntry
           /\ \E w \in {pending} \cup orphan : w.op = "acknowledge" /\ w.key = k
<1>1. IInv /\ [Next]_vars => [Kept]_disk
  <2> SUFFICES ASSUME IInv, Next, disk' # disk PROVE Kept
    BY DEF vars
  <2>1. ASSUME NEW c \in Callers PROVE ~(Client(c) \/ CallerStep(c) \/ Cancel(c) \/ Start(c))
    <3>1. ~Client(c) /\ ~Cancel(c) /\ ~Start(c)
      BY DEF Client, Invoke, Cancel, Start
    <3>2. ~CallerStep(c)
      BY DEF CallerStep, Reserve, RecordOutcome, Acknowledge, Prune, AfterPrune,
         ReadTable, AfterCommit, StorageError, AfterRead, Loaded
    <3> QED
      BY <3>1, <3>2
  <2>2. ~OrphanReplace /\ ~Tick /\ ~LoadError /\ ~Crash /\ ~Stop
    BY DEF IInv, OrphanReplace, Tick, LoadError, Crash, Stop, Forget
  <2>3. DiskReplace
    BY <2>1, <2>2 DEF Next, StorageStep, DiskFail, Publish, LoadRead
  <2> QED
    BY <2>3 DEF DiskReplace, IInv, CommitIsCurrent
<1> QED
  BY <1>1, IInvInit, IInvStep, PTL DEF Spec, EvidenceKept

-----------------------------------------------------------------------------
\* The store implements the ledger.  A commit is decided on the table and
\* reaches the file later; it is one step of the ledger when it is decided and
\* still is when the file is replaced.
HasRoomIn(s) == Cardinality(Awaiting(s)) < MaxAwaiting /\ Cardinality(Present(s)) < MaxEntries
Reserves(s) ==
  \E k \in Keys, p \in Prints, t \in 0..now :
    /\ disk[k] = NoEntry /\ HasRoomIn(disk)
    /\ s = [disk EXCEPT ![k] = [state |-> "awaiting_host", print |-> p,
                                outcome |-> "none", born |-> t]]
Records(s) ==
  \E k \in Awaiting(disk), o \in Outcomes :
    s = [disk EXCEPT ![k] = [@ EXCEPT !.state = "received", !.outcome = o]]
Settles(s) == \E k \in Received(disk) : s = [disk EXCEPT ![k] = NoEntry]
Expires(s) ==
  \E S \in (SUBSET Expired(disk)) \ {{}} :
    s = [k \in Keys |-> IF k \in S THEN NoEntry ELSE disk[k]]
Progresses(s) == Reserves(s) \/ Records(s) \/ Settles(s) \/ Expires(s)
CommitIsProgress == pending.phase = "writing" => Progresses(pending.store)

\* The delivery loop alone acknowledges; while it waits for the lock its key
\* keeps the evidence, because no write but its own drops any.
OneDeliverer == \A c \in Callers : call[c].op = "acknowledge" => c = Deliverer
AckStands ==
  call[Deliverer].op = "acknowledge" /\ call[Deliverer].step = "wait"
    => call[Deliverer].key \in Received(mem)
InFlightKeeps ==
  pending.phase \in {"writing", "written"} =>
    \A k \in Received(mem) :
      \/ pending.store[k] = mem[k]
      \/ /\ pending.op = "acknowledge" /\ pending.key = k
         /\ call[Deliverer].step \in {"commit", "gone"}
RInv == CommitIsProgress /\ OneDeliverer /\ AckStands /\ InFlightKeeps

\* A commit stays a step of the ledger while the file stays and time passes.
LEMMA ProgressStays ==
  ASSUME disk' = disk, now \in Nat, now' \in Nat, now <= now',
         Expired(disk) \subseteq Expired(disk)'
  PROVE  \A s : Progresses(s) => Progresses(s)'
<1> SUFFICES ASSUME NEW s, Progresses(s) PROVE Progresses(s)'
  OBVIOUS
<1>1. /\ HasRoomIn(disk)' <=> HasRoomIn(disk)
      /\ Awaiting(disk)' = Awaiting(disk) /\ Received(disk)' = Received(disk)
  BY DEF HasRoomIn, Awaiting, Received, Present
<1>2. ASSUME Reserves(s) PROVE Reserves(s)'
  <2>1. PICK k \in Keys, p \in Prints, t \in 0..now :
          /\ disk[k] = NoEntry /\ HasRoomIn(disk)
          /\ s = [disk EXCEPT ![k] = [state |-> "awaiting_host", print |-> p,
                                      outcome |-> "none", born |-> t]]
    BY <1>2 DEF Reserves
  <2>2. t \in 0..now'
    OBVIOUS
  <2> QED
    BY <1>1, <2>1, <2>2 DEF Reserves
<1>3. ASSUME Records(s) PROVE Records(s)'
  BY <1>1, <1>3 DEF Records
<1>4. ASSUME Settles(s) PROVE Settles(s)'
  BY <1>1, <1>4 DEF Settles
<1>5. ASSUME Expires(s) PROVE Expires(s)'
  BY <1>5 DEF Expires
<1> QED
  BY <1>2, <1>3, <1>4, <1>5 DEF Progresses

LEMMA ProgressSame ==
  ASSUME TypeInv, UNCHANGED <<disk, now>> PROVE \A s : Progresses(s) => Progresses(s)'
<1>1. now \in Nat
  BY DEF TypeInv, TypeOK
<1>2. Expired(disk)' = Expired(disk)
  BY DEF Expired, Awaiting, Present
<1> QED
  BY <1>1, <1>2, ProgressStays

LEMMA RInvInit == Init => RInv
  BY OutboxConstants
  DEF Init, RInv, CommitIsProgress, OneDeliverer, AckStands, InFlightKeeps, NoStorage, NoCall

LEMMA CommitProgresses ==
  ASSUME TypeInv, RInv, NEW c \in Callers, NEW s, NEW step \in {"prune", "commit"},
         Commit(c, s, step), UNCHANGED <<now, disk, mem>>,
         Progresses(s),
         \A k \in Received(mem) :
           s[k] = mem[k] \/ (call[c].op = "acknowledge" /\ call[c].key = k /\ step = "commit")
  PROVE  RInv'
<1>1. /\ pending' = [phase |-> "writing", store |-> s, op |-> call[c].op, key |-> call[c].key]
      /\ \A b \in Callers : call'[b].op = call[b].op /\ call'[b].key = call[b].key
      /\ \A b \in Callers : call'[b].step = IF b = c THEN step ELSE call[b].step
  BY DEF Commit, TypeInv, TypeOK, CallRecord
<1>2. CommitIsProgress'
  BY <1>1, ProgressSame DEF CommitIsProgress
<1>3. OneDeliverer'
  BY <1>1 DEF RInv, OneDeliverer
<1>4. AckStands'
  BY <1>1, OutboxConstants DEF RInv, AckStands, Received, Present
<1>5. InFlightKeeps'
  BY <1>1, OutboxConstants DEF RInv, OneDeliverer, InFlightKeeps, Received, Present
<1> QED
  BY <1>2, <1>3, <1>4, <1>5 DEF RInv

LEMMA ReturnProgresses ==
  ASSUME TypeInv, RInv, NEW c \in Callers, Return(c), UNCHANGED <<now, disk, mem>>,
         pending.phase \notin {"writing", "written"}
  PROVE  RInv'
<1>1. /\ pending' = pending
      /\ \A b \in Callers : call'[b] = IF b = c THEN NoCall ELSE call[b]
  BY DEF Return, TypeInv, TypeOK
<1> QED
  BY <1>1, OutboxConstants DEF NoCall, RInv, CommitIsProgress, OneDeliverer, AckStands,
     InFlightKeeps, Received, Present

LEMMA PruneProgresses ==
  ASSUME TypeInv, RInv, NEW c \in Callers, Expired(mem) # {}, mem = disk,
         Commit(c, Retained(mem), "prune"), UNCHANGED <<now, disk, mem>>
  PROVE  RInv'
<1>1. Expires(Retained(mem))
  BY DEF Expires, Retained
<1>2. \A k \in Received(mem) : Retained(mem)[k] = mem[k]
  BY PruneKeepsEvidence DEF TypeInv, TypeOK
<1> QED
  BY <1>1, <1>2, CommitProgresses DEF Progresses

LEMMA ReserveBodyProgresses ==
  ASSUME TypeInv, RInv, NEW c \in Callers, NEW r \in Replies, call[c].op = "reserve",
         ReserveBody(c, r), UNCHANGED <<now, disk, mem>>, mem = disk,
         pending.phase \notin {"writing", "written"}
  PROVE  RInv'
<1>1. CASE Return(c)
  BY <1>1, ReturnProgresses
<1>2. CASE /\ mem[call[c].key] = NoEntry /\ HasRoom
           /\ Commit(c, [mem EXCEPT ![call[c].key] = Reservation(c)], "commit")
  <2> DEFINE s == [mem EXCEPT ![call[c].key] = Reservation(c)]
  <2>1. call[c].key \in Keys /\ call[c].print \in Prints /\ now \in 0..now
    BY OutboxConstants DEF TypeInv, TypeOK, CallArguments
  <2>2. Reserves(s)
    BY <1>2, <2>1 DEF Reserves, Reservation, HasRoom, HasRoomIn
  <2>3. \A k \in Received(mem) : s[k] = mem[k]
    BY <1>2 DEF Received, Present, TypeInv, TypeOK, Store
  <2>4. Progresses(s)
    BY <2>2 DEF Progresses
  <2> QED
    BY <1>2, <2>3, <2>4, CommitProgresses
<1> QED
  BY <1>1, <1>2 DEF ReserveBody

LEMMA CallerProgresses ==
  ASSUME IInv, RInv, NEW c \in Callers, CallerStep(c) PROVE RInv'
<1>0. /\ TypeInv /\ UNCHANGED <<now, disk, mem>> /\ mem \in Store
  BY CallerLeaves DEF IInv, TypeInv, TypeOK
<1>e. ASSUME NEW op, MayEnter(c, op)
      PROVE  mem = disk /\ pending.phase \notin {"writing", "written"}
  BY <1>e, EntryIsCoherent DEF MayEnter, InFlight
<1>1. ASSUME NEW r \in Replies, Reserve(c, r) PROVE RInv'
  BY <1>0, <1>1, <1>e, PruneProgresses, ReserveBodyProgresses DEF Reserve, MayEnter
<1>2. ASSUME NEW r \in Replies, RecordOutcome(c, r) PROVE RInv'
  <2>1. /\ mem = disk /\ call[c].op = "record"
        /\ pending.phase \notin {"writing", "written"}
    BY <1>2, <1>e DEF RecordOutcome, MayEnter
  <2>2. CASE Return(c)
    BY <1>0, <2>1, <2>2, ReturnProgresses
  <2> DEFINE s == [mem EXCEPT ![call[c].key] = [@ EXCEPT !.state = "received",
                                                        !.outcome = call[c].outcome]]
  <2>3. CASE call[c].key \in Awaiting(mem) /\ Commit(c, s, "commit")
    <3>1. call[c].outcome \in Outcomes
      BY <1>0, <2>1 DEF TypeInv, CallArguments
    <3>2. Records(s)
      BY <2>1, <2>3, <3>1 DEF Records
    <3>3. \A k \in Received(mem) : s[k] = mem[k]
      BY <1>0, <2>3 DEF Received, Awaiting, Present, Store
    <3> QED
      BY <1>0, <2>3, <3>2, <3>3, CommitProgresses DEF Progresses
  <2> QED
    BY <1>2, <2>2, <2>3 DEF RecordOutcome
<1>3. ASSUME NEW r \in Replies, Acknowledge(c, r) PROVE RInv'
  <2>1. /\ mem = disk /\ call[c].op = "acknowledge" /\ call[c].step = "wait"
        /\ pending.phase \notin {"writing", "written"}
    BY <1>3, <1>e DEF Acknowledge, MayEnter
  <2>2. CASE Return(c)
    BY <1>0, <2>1, <2>2, ReturnProgresses
  <2>3. CASE Commit(c, [mem EXCEPT ![call[c].key] = NoEntry], "commit")
    <3>1. call[c].key \in Received(mem)
      BY <2>1 DEF RInv, OneDeliverer, AckStands
    <3>2. Settles([mem EXCEPT ![call[c].key] = NoEntry])
      BY <2>1, <3>1 DEF Settles
    <3>3. \A k \in Received(mem) :
            [mem EXCEPT ![call[c].key] = NoEntry][k] = mem[k]
              \/ (call[c].op = "acknowledge" /\ call[c].key = k)
      BY <1>0, <2>1 DEF Received, Present, Store
    <3>4. Progresses([mem EXCEPT ![call[c].key] = NoEntry])
      BY <3>2 DEF Progresses
    <3> QED
      BY <1>0, <2>3, <3>3, <3>4, CommitProgresses
  <2> QED
    BY <1>3, <2>2, <2>3 DEF Acknowledge
<1>4. ASSUME NEW r \in Replies, Prune(c, r) PROVE RInv'
  BY <1>0, <1>4, <1>e, PruneProgresses, ReturnProgresses DEF Prune
<1>5. ASSUME NEW r \in Replies, AfterPrune(c, r) PROVE RInv'
  BY <1>0, <1>5, ResumeIsCoherent, ReserveBodyProgresses, ReturnProgresses DEF AfterPrune
<1>6. ASSUME ReadTable(c, "received") \/ ReadTable(c, "lookup") PROVE RInv'
  BY <1>0, <1>6, <1>e, ReturnProgresses DEF ReadTable
<1>7. ASSUME AfterCommit(c) \/ StorageError(c) \/ Loaded(c) PROVE RInv'
  BY <1>0, <1>7, ReturnProgresses DEF AfterCommit, StorageError, Loaded
<1>8. ASSUME AfterRead(c) PROVE RInv'
  BY <1>0, <1>8, ResumeIsCoherent, PruneProgresses, ReturnProgresses DEF AfterRead
<1> QED
  BY <1>1, <1>2, <1>3, <1>4, <1>5, <1>6, <1>7, <1>8 DEF CallerStep

LEMMA RInvStep == IInv /\ RInv /\ [Next]_vars => RInv'
<1> SUFFICES ASSUME IInv, RInv, [Next]_vars PROVE RInv'
  OBVIOUS
<1> USE DEF RInv
<1>0. TypeInv /\ Deliverer \in Callers
  BY OutboxConstants DEF IInv
<1>1. ASSUME NEW c \in Callers, Client(c) PROVE RInv'
  <2>1. PICK k \in Keys \cup {NoKey}, op \in Ops \ {"load"}, p \in Prints \cup {NoPrint},
             o \in Outcomes \cup {"none"} :
          /\ Invoke(c, op, k, p, o)
          /\ op = "acknowledge" => c = Deliverer /\ k \in Received(mem)
    BY <1>1, ClientEnters DEF Enters
  <2>2. /\ UNCHANGED <<now, disk, mem, pending>> /\ call[c].step = "idle"
        /\ \A b \in Callers \ {c} : call'[b] = call[b]
        /\ call'[c].step = "wait" /\ call'[c].op = op /\ call'[c].key = k
    BY <2>1, <1>0 DEF Invoke, TypeInv, TypeOK
  <2>3. CommitIsProgress'
    BY <1>0, <2>2, ProgressSame DEF CommitIsProgress
  <2>4. OneDeliverer' /\ AckStands' /\ InFlightKeeps'
    BY <1>0, <2>1, <2>2 DEF OneDeliverer, AckStands, InFlightKeeps, Received, Present
  <2> QED
    BY <2>3, <2>4
<1>2. ASSUME NEW c \in Callers, Cancel(c) PROVE RInv'
  <2>1. /\ UNCHANGED <<now, disk, mem, pending>>
        /\ \A b \in Callers \ {c} : call'[b] = call[b]
        /\ call'[c] = Left(c)
    BY <1>2, <1>0 DEF Cancel, TypeInv, TypeOK
  <2>2. CommitIsProgress'
    BY <1>0, <2>1, ProgressSame DEF CommitIsProgress
  <2>3. OneDeliverer' /\ AckStands' /\ InFlightKeeps'
    BY <1>0, <2>1 DEF Left, Gone, NoCall, OneDeliverer, AckStands, InFlightKeeps, Received, Present
  <2> QED
    BY <2>2, <2>3
<1>3. ASSUME NEW c \in Callers, Start(c) PROVE RInv'
  <2>1. /\ pending'.phase = "reading" /\ mem' = mem
        /\ \A b \in Callers \ {c} : call'[b] = call[b]
        /\ call'[c].op = "load"
    BY <1>3, <1>0 DEF Start, NoStorage, NoCall, TypeInv, TypeOK
  <2> QED
    BY <1>0, <2>1 DEF CommitIsProgress, OneDeliverer, AckStands, InFlightKeeps, Received, Present
<1>4. CASE StorageStep
  <2>0. call' = call
    BY <1>4 DEF StorageStep, DiskReplace, DiskFail, Publish, LoadRead
  <2>1. CASE DiskReplace
    <3>1. pending'.phase = "written" /\ pending'.store = pending.store
          /\ pending'.op = pending.op /\ pending'.key = pending.key
          /\ mem' = mem /\ pending.phase = "writing"
      BY <1>0, <2>1 DEF DiskReplace, TypeInv, TypeOK, StorageTask
    <3> QED
      BY <2>0, <3>1 DEF CommitIsProgress, OneDeliverer, AckStands, InFlightKeeps, Received, Present
  <2>2. CASE DiskFail
    BY <2>0, <2>2 DEF DiskFail, NoStorage, CommitIsProgress, OneDeliverer, AckStands,
       InFlightKeeps, Received, Present
  <2>3. CASE Publish
    BY <2>0, <2>3 DEF Publish, NoStorage, CommitIsProgress, OneDeliverer, AckStands,
       InFlightKeeps, Received, Present
  <2>4. CASE LoadRead
    <3>1. ~(call[Deliverer].op = "acknowledge" /\ call[Deliverer].step = "wait")
      BY <1>0, <2>4 DEF LoadRead, IInv, Loading
    <3> QED
      BY <2>0, <2>4, <3>1 DEF LoadRead, NoStorage, CommitIsProgress, OneDeliverer, AckStands,
         InFlightKeeps
  <2> QED
    BY <1>4, <2>1, <2>2, <2>3, <2>4 DEF StorageStep
<1>5. CASE LoadError \/ Crash \/ Stop
  BY <1>0, <1>5 DEF LoadError, Crash, Stop, Forget, NoCall, NoStorage, CommitIsProgress,
     OneDeliverer, AckStands, InFlightKeeps
<1>6. CASE OrphanReplace
  BY <1>6 DEF OrphanReplace, IInv
<1>7. CASE Tick \/ UNCHANGED vars
  <2>1. UNCHANGED <<disk, mem, pending, call>> /\ now \in Nat /\ now' \in Nat /\ now <= now'
    BY <1>0, <1>7 DEF Tick, vars, TypeInv, TypeOK
  <2>2. ASSUME NEW k \in Keys, disk[k] # NoEntry PROVE disk[k].born \in Nat
    BY <1>0, <2>2, OutboxConstants DEF TypeInv, TypeOK, Store, Entry
  <2>3. Expired(disk) \subseteq Expired(disk)'
    BY <2>1, <2>2, OutboxConstants DEF Expired, Awaiting, Present
  <2>4. \A s : Progresses(s) => Progresses(s)'
    BY <2>1, <2>3, ProgressStays
  <2> QED
    BY <2>1, <2>4 DEF CommitIsProgress, OneDeliverer, AckStands, InFlightKeeps, Received, Present
<1> QED
  BY <1>1, <1>2, <1>3, <1>4, <1>5, <1>6, <1>7, CallerProgresses DEF Next

\* A commit that reaches the file is a step of the ledger.
LEMMA ProgressIsLedgerStep ==
  ASSUME disk \in Store, Progresses(disk'), now' = now PROVE Ledger!Next
<1>0. /\ Ledger!Present = Present(disk) /\ Ledger!Awaiting = Awaiting(disk)
      /\ Present(disk) \ Awaiting(disk) = Received(disk)
  BY DEF Ledger!Present, Ledger!Awaiting, Present, Awaiting, Received, Store, Entry
<1>c. \A S : Ledger!Cardinality(S) = Cardinality(S)
  BY DEF Ledger!Cardinality, Cardinality
<1>1. CASE Reserves(disk')
  BY <1>0, <1>1, <1>c DEF Reserves, HasRoomIn, Ledger!Next, Ledger!Reserve
<1>2. CASE Records(disk')
  BY <1>0, <1>2 DEF Records, Awaiting, Present, Ledger!Next, Ledger!Record
<1>3. CASE Settles(disk')
  BY <1>0, <1>3 DEF Settles, Received, Present, Ledger!Next, Ledger!Settle
<1>4. CASE Expires(disk')
  <2>1. Expired(disk) = {k \in Ledger!Awaiting : disk[k].born + Ttl <= now}
    BY <1>0 DEF Expired
  <2> QED
    BY <1>4, <2>1 DEF Expires, Ledger!Next, Ledger!Expire
<1> QED
  BY <1>1, <1>2, <1>3, <1>4 DEF Progresses

LEMMA StepIsLedgerStep == IInv /\ RInv /\ [Next]_vars => [Ledger!Next]_<<disk, now>>
<1> SUFFICES ASSUME IInv, RInv, [Next]_vars, <<disk, now>>' # <<disk, now>> PROVE Ledger!Next
  OBVIOUS
<1>1. ASSUME NEW c \in Callers PROVE ~(Client(c) \/ CallerStep(c) \/ Cancel(c) \/ Start(c))
  BY <1>1, CallerLeaves DEF Start
<1>2. ~LoadError /\ ~Crash /\ ~Stop /\ ~OrphanReplace /\ ~UNCHANGED vars
  BY DEF LoadError, Crash, Stop, Forget, OrphanReplace, IInv, vars
<1>3. CASE Tick
  BY <1>3 DEF Tick, Ledger!Next, Ledger!Tick
<1>4. CASE StorageStep
  <2>1. DiskReplace
    BY <1>4 DEF StorageStep, DiskFail, Publish, LoadRead
  <2> QED
    BY <2>1, ProgressIsLedgerStep
    DEF DiskReplace, IInv, TypeInv, TypeOK, RInv, CommitIsProgress
<1> QED
  BY <1>1, <1>2, <1>3, <1>4 DEF Next

\* The file is the ledger (hook_outbox.py:100-114 writes every change as a whole
\* table): through interleavings, cancellations, storage failures and deaths of
\* the process, each replacement is one reservation, record, settlement or expiry.
THEOREM StoreImplementsLedger == MaxOrphans = 0 => (Spec => ImplementsLedger)
<1> SUFFICES ASSUME MaxOrphans = 0 PROVE Spec => Ledger!Spec
  BY DEF ImplementsLedger
<1>1. Init => Ledger!Init
  BY DEF Init, Empty, Ledger!Init, Ledger!Empty
<1> QED
  BY <1>1, IInvInit, IInvStep, RInvInit, RInvStep, StepIsLedgerStep, PTL DEF Spec, Ledger!Spec

-----------------------------------------------------------------------------
\* What holds inside the controller even when the thread of an earlier one may
\* still replace the file: it speaks of the table, never of the file.
Process == TypeInv /\ LockDiscipline /\ Loading /\ OneDeliverer /\ AckStands /\ InFlightKeeps

\* A table made from the published one drops no evidence but the one acknowledged.
Keeps(c, s, step) ==
  \A k \in Received(mem) :
    s[k] = mem[k] \/ (call[c].op = "acknowledge" /\ call[c].key = k /\ step = "commit")
\* Whoever acts in the store does so while the controller is up, or is load().
Serving(c) == run = "up" \/ (run = "loading" /\ call[c].op = "load")
CommitsKept(c) ==
  \E s \in Store, step \in {"prune", "commit"} :
    /\ Commit(c, s, step) /\ Keeps(c, s, step)
    /\ run' = run /\ (call[c].op = "load" => step = "prune")
Returns(c) == Return(c) /\ run' = "up"
Acts(c) ==
  /\ lock \in {NoCaller, c} /\ ~InFlight /\ Serving(c)
  /\ UNCHANGED <<now, disk, mem, orphan>>
  /\ CommitsKept(c) \/ Returns(c)

LEMMA ReserveBodyActs ==
  ASSUME TypeInv, NEW c \in Callers, NEW r \in Replies, call[c].op = "reserve", ReserveBody(c, r),
         run = "up", run' = "up"
  PROVE  CommitsKept(c) \/ Returns(c)
<1>1. CASE Return(c)
  BY <1>1 DEF Returns
<1>2. CASE /\ mem[call[c].key] = NoEntry
           /\ Commit(c, [mem EXCEPT ![call[c].key] = Reservation(c)], "commit")
  <2> DEFINE s == [mem EXCEPT ![call[c].key] = Reservation(c)]
  <2>1. Reservation(c) \in Entry
    BY DEF Reservation, Entry, TypeInv, TypeOK, CallArguments
  <2>2. s \in Store
    BY <2>1 DEF TypeInv, TypeOK, Store
  <2>3. Keeps(c, s, "commit")
    BY <1>2 DEF Keeps, Received, Present, TypeInv, TypeOK, Store
  <2> QED
    BY <1>2, <2>2, <2>3 DEF CommitsKept
<1> QED
  BY <1>1, <1>2 DEF ReserveBody

LEMMA CallerActs ==
  ASSUME TypeInv, LockDiscipline, Loading, NEW c \in Callers, CallerStep(c) PROVE Acts(c)
<1> USE DEF Acts
<1>0. /\ UNCHANGED <<now, disk, mem, orphan>> /\ mem \in Store /\ Retained(mem) \in Store
  BY CallerLeaves, RetainedIsStore DEF TypeInv, TypeOK
<1>e. ASSUME NEW op, MayEnter(c, op)
      PROVE  lock \in {NoCaller, c} /\ ~InFlight /\ Serving(c) /\ run = "up" /\ call[c].op # "load"
  BY <1>e DEF MayEnter, Loading, Serving, TypeInv, TypeOK
<1>a. ASSUME call[c].step \in {"prune", "commit", "read"}, pending.phase \in {"done", "failed"}
      PROVE  lock \in {NoCaller, c} /\ ~InFlight /\ Serving(c)
  BY <1>a DEF LockDiscipline, InFlight, Loading, Serving, TypeInv, TypeOK
<1>p. ASSUME Commit(c, Retained(mem), "prune"), run' = run PROVE CommitsKept(c)
  BY <1>0, <1>p, PruneKeepsEvidence DEF CommitsKept, Keeps
<1>1. ASSUME NEW r \in Replies, Reserve(c, r) PROVE Acts(c)
  BY <1>0, <1>1, <1>e, <1>p, ReserveBodyActs DEF Reserve, MayEnter
<1>2. ASSUME NEW r \in Replies, RecordOutcome(c, r) PROVE Acts(c)
  <2>1. run = "up" /\ run' = "up" /\ call[c].op = "record" /\ MayEnter(c, "record")
    BY <1>2, <1>e DEF RecordOutcome, MayEnter
  <2> DEFINE s == [mem EXCEPT ![call[c].key] = [@ EXCEPT !.state = "received",
                                                        !.outcome = call[c].outcome]]
  <2>2. CASE Return(c)
    BY <1>0, <1>e, <2>1, <2>2 DEF Returns
  <2>3. CASE call[c].key \in Awaiting(mem) /\ Commit(c, s, "commit")
    <3>1. s \in Store
      BY <2>1, <2>3, RecordedIsStore
    <3>2. Keeps(c, s, "commit")
      BY <1>0, <2>3 DEF Keeps, Received, Awaiting, Present, Store
    <3>3. CommitsKept(c)
      BY <2>1, <2>3, <3>1, <3>2 DEF CommitsKept
    <3> QED
      BY <1>0, <1>e, <2>1, <3>3
  <2> QED
    BY <1>2, <2>2, <2>3 DEF RecordOutcome
<1>3. ASSUME NEW r \in Replies, Acknowledge(c, r) PROVE Acts(c)
  <2>1. run = "up" /\ run' = "up" /\ call[c].op = "acknowledge" /\ MayEnter(c, "acknowledge")
    BY <1>3, <1>e DEF Acknowledge, MayEnter
  <2> DEFINE s == [mem EXCEPT ![call[c].key] = NoEntry]
  <2>2. CASE Return(c)
    BY <1>0, <1>e, <2>1, <2>2 DEF Returns
  <2>3. CASE Commit(c, s, "commit")
    <3>1. s \in Store /\ Keeps(c, s, "commit")
      BY <1>0, <2>1 DEF Store, Keeps, Received, Present
    <3>2. CommitsKept(c)
      BY <2>1, <2>3, <3>1 DEF CommitsKept
    <3> QED
      BY <1>0, <1>e, <2>1, <3>2
  <2> QED
    BY <1>3, <2>2, <2>3 DEF Acknowledge
<1>4. ASSUME NEW r \in Replies, Prune(c, r) PROVE Acts(c)
  BY <1>0, <1>4, <1>e, <1>p DEF Prune, Returns
<1>5. ASSUME NEW r \in Replies, AfterPrune(c, r) PROVE Acts(c)
  <2>1. run = "up" /\ run' = "up"
    BY <1>5 DEF AfterPrune, Loading, TypeInv, TypeOK
  <2> QED
    BY <1>0, <1>5, <1>a, <2>1, ReserveBodyActs DEF AfterPrune, Returns
<1>6. ASSUME ReadTable(c, "received") \/ ReadTable(c, "lookup") PROVE Acts(c)
  BY <1>0, <1>6, <1>e DEF ReadTable, Returns
<1>7. ASSUME AfterCommit(c) \/ StorageError(c) PROVE Acts(c)
  <2>1. run = "up" /\ run' = "up"
    BY <1>7 DEF AfterCommit, StorageError, Loading, TypeInv, TypeOK
  <2> QED
    BY <1>0, <1>7, <1>a, <2>1 DEF AfterCommit, StorageError, Returns
<1>8. ASSUME Loaded(c) PROVE Acts(c)
  BY <1>0, <1>8, <1>a DEF Loaded, Returns
<1>9. ASSUME AfterRead(c) PROVE Acts(c)
  BY <1>0, <1>9, <1>a, <1>p DEF AfterRead, Returns
<1> QED
  BY <1>1, <1>2, <1>3, <1>4, <1>5, <1>6, <1>7, <1>8, <1>9 DEF CallerStep

LEMMA ActsKeep == ASSUME Process, TypeInv', NEW c \in Callers, Acts(c) PROVE Process'
<1> USE DEF Process
<1>0. /\ call \in [Callers -> CallRecord] /\ Deliverer \in Callers /\ NoCaller \notin Callers
      /\ Received(mem)' = Received(mem)
  BY OutboxConstants DEF TypeInv, TypeOK, Acts, Received, Present
<1>1. CASE Returns(c)
  <2>1. \A b \in Callers : call'[b] = IF b = c THEN NoCall ELSE call[b]
    BY <1>0, <1>1 DEF Returns, Return
  <2>2. lock' = NoCaller /\ pending' = pending /\ mem' = mem /\ run' = "up" /\ ~InFlight
    BY <1>1 DEF Returns, Return, Acts
  <2>3. LockDiscipline'
    BY <1>0, <2>1, <2>2 DEF LockDiscipline, NoCall, Acts
  <2>4. Loading'
    <3>1. \A b \in Callers : b # c => call[b].op # "load"
      BY <1>0 DEF Acts, Loading, LockDiscipline
    <3> QED
      BY <2>1, <2>2, <3>1 DEF Loading, NoCall, InFlight
  <2>5. OneDeliverer' /\ AckStands' /\ InFlightKeeps'
    BY <1>0, <2>1, <2>2 DEF OneDeliverer, AckStands, InFlightKeeps, InFlight, NoCall
  <2> QED
    BY <2>3, <2>4, <2>5
<1>2. CASE CommitsKept(c)
  <2>1. PICK s \in Store, step \in {"prune", "commit"} :
          /\ Commit(c, s, step) /\ Keeps(c, s, step)
          /\ run' = run /\ (call[c].op = "load" => step = "prune")
    BY <1>2 DEF CommitsKept
  <2>2. /\ \A b \in Callers : call'[b].op = call[b].op /\ call'[b].key = call[b].key
        /\ \A b \in Callers : call'[b].step = IF b = c THEN step ELSE call[b].step
    BY <1>0, <2>1 DEF Commit, CallRecord
  <2>3. /\ lock' = c /\ mem' = mem /\ lock \in {NoCaller, c} /\ Serving(c)
        /\ pending' = [phase |-> "writing", store |-> s, op |-> call[c].op, key |-> call[c].key]
    BY <2>1 DEF Commit, Acts
  <2>4. LockDiscipline'
    BY <1>0, <2>2, <2>3 DEF LockDiscipline
  <2>5. Loading'
    BY <2>1, <2>2, <2>3 DEF Loading, Serving
  <2>6. OneDeliverer' /\ AckStands'
    BY <1>0, <2>2 DEF OneDeliverer, AckStands
  <2>7. InFlightKeeps'
    BY <1>0, <2>1, <2>2, <2>3 DEF InFlightKeeps, Keeps, OneDeliverer
  <2> QED
    BY <2>4, <2>5, <2>6, <2>7
<1> QED
  BY <1>1, <1>2 DEF Acts

LEMMA ProcessInit == Init => Process
  BY IInvInit, RInvInit DEF IInv, RInv, Process

LEMMA ProcessStep == Process /\ [Next]_vars => Process'
<1> SUFFICES ASSUME Process, [Next]_vars PROVE Process'
  OBVIOUS
<1> USE DEF Process
<1>0. /\ TypeInv' /\ call \in [Callers -> CallRecord] /\ Deliverer \in Callers
      /\ NoCaller \notin Callers
  BY TypeStep, OutboxConstants DEF TypeInv, TypeOK
<1>1. ASSUME NEW c \in Callers, Client(c) PROVE Process'
  <2>1. PICK k \in Keys \cup {NoKey}, op \in Ops \ {"load"}, p \in Prints \cup {NoPrint},
             o \in Outcomes \cup {"none"} :
          /\ Invoke(c, op, k, p, o)
          /\ op = "acknowledge" => c = Deliverer /\ k \in Received(mem)
    BY <1>1, ClientEnters DEF Enters
  <2>2. /\ UNCHANGED <<run, mem, lock, pending>> /\ call[c].step = "idle" /\ run = "up"
        /\ \A b \in Callers \ {c} : call'[b] = call[b]
        /\ call'[c].step = "wait" /\ call'[c].op = op /\ call'[c].key = k
    BY <2>1, <1>0 DEF Invoke
  <2>3. LockDiscipline' /\ Loading'
    BY <2>2 DEF LockDiscipline, Loading
  <2>4. OneDeliverer' /\ AckStands' /\ InFlightKeeps'
    BY <1>0, <2>1, <2>2 DEF OneDeliverer, AckStands, InFlightKeeps, Received, Present
  <2> QED
    BY <1>0, <2>3, <2>4
<1>2. ASSUME NEW c \in Callers, Cancel(c) PROVE Process'
  <2>1. /\ UNCHANGED <<run, mem, pending>> /\ call[c].op # "load"
        /\ \A b \in Callers \ {c} : call'[b] = call[b]
        /\ call'[c] = Left(c) /\ lock' = IF lock = c THEN NoCaller ELSE lock
        /\ call[c].step # "idle"
    BY <1>2, <1>0 DEF Cancel
  <2>2. LockDiscipline' /\ Loading'
    BY <1>0, <2>1 DEF Left, Gone, NoCall, LockDiscipline, Loading, TypeInv, TypeOK
  <2>3. OneDeliverer' /\ AckStands' /\ InFlightKeeps'
    BY <1>0, <2>1 DEF Left, Gone, NoCall, OneDeliverer, AckStands, InFlightKeeps, Received, Present
  <2> QED
    BY <1>0, <2>2, <2>3
<1>3. ASSUME NEW c \in Callers, Start(c) PROVE Process'
  <2>1. /\ pending'.phase = "reading" /\ mem' = mem /\ run = "down" /\ run' = "loading" /\ lock' = c
        /\ \A b \in Callers \ {c} : call'[b] = call[b]
        /\ call'[c].op = "load" /\ call'[c].step = "read"
    BY <1>3, <1>0 DEF Start, NoStorage, NoCall
  <2>2. LockDiscipline' /\ Loading'
    BY <1>0, <2>1 DEF LockDiscipline, Loading
  <2>3. OneDeliverer' /\ AckStands' /\ InFlightKeeps'
    BY <1>0, <2>1 DEF OneDeliverer, AckStands, InFlightKeeps
  <2> QED
    BY <1>0, <2>2, <2>3
<1>4. CASE StorageStep
  <2>0. UNCHANGED <<run, call, lock>>
    BY <1>4 DEF StorageStep, DiskReplace, DiskFail, Publish, LoadRead
  <2>1. LockDiscipline' /\ OneDeliverer'
    BY <2>0 DEF LockDiscipline, OneDeliverer
  <2>2. CASE DiskReplace
    <3>1. pending'.phase = "written" /\ pending'.store = pending.store
          /\ pending'.op = pending.op /\ pending'.key = pending.key
          /\ mem' = mem /\ pending.phase = "writing"
      BY <2>2 DEF DiskReplace, TypeInv, TypeOK, StorageTask
    <3> QED
      BY <1>0, <2>0, <2>1, <3>1 DEF Loading, AckStands, InFlightKeeps, Received, Present
  <2>3. CASE DiskFail
    BY <1>0, <2>0, <2>1, <2>3 DEF DiskFail, NoStorage, Loading, AckStands, InFlightKeeps, Received, Present
  <2>4. CASE Publish
    BY <1>0, <2>0, <2>1, <2>4 DEF Publish, NoStorage, Loading, AckStands, InFlightKeeps, Received, Present
  <2>5. CASE LoadRead
    <3>1. ~(call[Deliverer].op = "acknowledge" /\ call[Deliverer].step = "wait")
      BY <1>0, <2>5 DEF LoadRead, Loading
    <3> QED
      BY <1>0, <2>0, <2>1, <2>5, <3>1 DEF LoadRead, NoStorage, Loading, AckStands, InFlightKeeps
  <2> QED
    BY <1>4, <2>2, <2>3, <2>4, <2>5 DEF StorageStep
<1>5. CASE LoadError \/ Crash \/ Stop
  <2>1. Forget
    BY <1>5 DEF LoadError, Crash, Stop
  <2> QED
    BY <1>0, <2>1 DEF Forget, NoCall, NoStorage, LockDiscipline, Loading, OneDeliverer, AckStands,
       InFlightKeeps
<1>6. CASE OrphanReplace \/ Tick \/ UNCHANGED vars
  <2>1. UNCHANGED <<run, mem, lock, pending, call>>
    BY <1>6 DEF OrphanReplace, Tick, vars
  <2> QED
    BY <1>0, <2>1 DEF LockDiscipline, Loading, OneDeliverer, AckStands, InFlightKeeps, Received, Present
<1>7. ASSUME NEW c \in Callers, CallerStep(c) PROVE Process'
  BY <1>0, <1>7, CallerActs, ActsKeep
<1> QED
  BY <1>1, <1>2, <1>3, <1>4, <1>5, <1>6, <1>7 DEF Next
=============================================================================
