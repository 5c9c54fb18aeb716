---------------------------- MODULE HookOutboxSpec ----------------------------
(***************************************************************************)
(* HookOutbox closed by the callers the controller has: RPC handlers that  *)
(* reserve, look up and record, the maintenance loop that prunes, and the  *)
(* delivery loop, the only one that acknowledges.                          *)
(***************************************************************************)
EXTENDS HookOutbox

Client(c) ==
  \/ c # Deliverer /\ Invoke(c, "prune", NoKey, NoPrint, "none")
  \/ c = Deliverer /\ Invoke(c, "received", NoKey, NoPrint, "none")
  \/ \E k \in Keys :
       \/ c # Deliverer /\ \E p \in Prints : Invoke(c, "reserve", k, p, "none")
       \/ /\ c # Deliverer
          /\ \E p \in Prints \cup {NoPrint}, o \in Outcomes : Invoke(c, "record", k, p, o)
       \/ c # Deliverer /\ Invoke(c, "lookup", k, NoPrint, "none")
       \/ c = Deliverer /\ k \in Received(mem) /\ Invoke(c, "acknowledge", k, NoPrint, "none")

Next ==
  \/ \E c \in Callers : Client(c) \/ CallerStep(c) \/ Cancel(c) \/ Start(c)
  \/ StorageStep
  \/ LoadError \/ Crash \/ Stop \/ OrphanReplace
  \/ Tick

Spec == Init /\ [][Next]_vars

-----------------------------------------------------------------------------
CallRecord == [op : Ops, step : {"idle", "gone", "wait", "read", "prune", "commit"}, key : Keys \cup {NoKey},
               print : Prints \cup {NoPrint}, outcome : Outcomes \cup {"none"}]

TypeOK ==
  /\ run \in {"down", "loading", "up"}
  /\ now \in 0..Horizon
  /\ disk \in Store /\ mem \in Store
  /\ lock \in Callers \cup {NoCaller}
  /\ pending \in StorageTask
  /\ call \in [Callers -> CallRecord]
  /\ orphan \subseteq StorageTask

\* The published table is the file's, except between os.replace and the loop
\* step that publishes it: no decision is taken on a table the disk does not
\* hold, and none is taken on a table older than the file.
PublishedIsDurable ==
  run = "up" => mem = (IF pending.phase = "written" THEN mem ELSE disk)

\* What the file and the table hold respects both limits, so that an outcome
\* of an admitted action always finds the slot its reservation took.
WithinLimits(s) ==
  /\ Cardinality(Awaiting(s)) <= MaxAwaiting
  /\ Cardinality(Present(s)) <= MaxEntries
Capacity == WithinLimits(disk) /\ WithinLimits(mem)

\* Received evidence leaves the file only by the delivery loop's own
\* acknowledgement of that key; no other commit, however late it lands,
\* rewrites or drops it.
EvidenceKept ==
  [][\A k \in Received(disk) :
       \/ disk'[k] = disk[k]
       \/ /\ disk'[k] = NoEntry
          /\ \E w \in {pending} \cup orphan : w.op = "acknowledge" /\ w.key = k]_disk

\* The store implements the ledger, with the file as the ledger.  In particular
\* a reservation is dropped only when its time is over, whatever happened
\* between the decision to drop it and the replacement of the file.
Ledger == INSTANCE OutcomeLedger WITH ledger <- disk
ImplementsLedger == Ledger!Spec

-----------------------------------------------------------------------------
\* The disk thread ends, the loop runs the callbacks that are ready, and
\* asyncio.Lock hands the lock over in arrival order, so a waiting caller is
\* not overtaken for ever.
Fairness ==
  /\ WF_vars(StorageStep)
  /\ WF_vars(LoadError)
  /\ \A c \in Callers : SF_vars(CallerStep(c))

FairSpec == Spec /\ Fairness

\* Every operation that was entered ends: by its result, an error or a
\* cancellation, whatever happened to the tasks of the callers before it.
EveryCallReturns ==
  \A c \in Callers : call[c].step \notin {"idle", "gone"} ~> call[c].step \in {"idle", "gone"}
=============================================================================
