# TLA+ models of atellagent-client

This directory models, model-checks and partly proves the concurrent and
failure-prone core of the client: the durable store of native-hook outcomes
and the controller around it, the connected participant, the setup and the
rotation of its credential, the local supervisor, the device's runtime, the
quota cache, and the gate a governed action passes.
Paths below are relative to the repository root.

## 1. Inventory

The client runs beside an agent host or a service. Everything with state of its
own is asyncio code on one event loop, with disk work on threads; the gateway
is remote, and every request and reply to it may be lost.

| Component | State it keeps | Operations | Talks to | Hard behaviour |
|---|---|---|---|---|
| Hook outcome outbox (`integrations/agents/hook_outbox.py`) | table of action keys, its file, the storage task | reserve, record_outcome, received_entries, acknowledge, prune, load | hook controller | a cancelled caller whose disk thread goes on; death between `os.replace` and the publication in memory; limits |
| Hook controller (`hook_control*.py`) | `_reserving`, `_quota_unadmitted`, wake-up event, two loops | preflight, postflight, delivery, maintenance, start, stop | host (RPC), gateway, outbox, quota cache | duplicated calls, RPC time-outs, lost answers, storage errors inside loops, restart |
| Hook health, verification, posture | cached reports | refresh | files | configuration content |
| Connected participant (`connected/participant*.py`) | instance id, receive gate, stop event, delivery tasks, handler slots | receive, accept, handle, renew, commit, heartbeat, start, stop, reload | gateway queue, handlers | leases that lapse, acknowledgements and results whose reply is lost, cancellation, stop racing reload |
| Certificate rotation (`participant_rotation.py`, `rotation_recovery.py`, `onboarding/retained_rotation.py`, `renewed_credential.py`) | retained key, candidates and selection of each credential's directory, session | prepare, request, stage, activate, recover, select, reconcile at start | participant, gateway, disk, other processes on the same directory | ambiguous activation, death between any two files, several candidates, session swapped under running work |
| Direct MCP boundary (`connected/mcp_boundary.py`) | its slot, quota cache | handle_mcp_request | participant, quota cache | shares slots with deliveries |
| Quota cache (`pep/quota_state.py`) | current instruction, suspension, recovery flight, backoff | current, before_action, accept_error, accept_instruction, recover, invalidate | hook controller, model wrappers, MCP boundary, gateway keys | instructions out of order, shared recovery, expiry and change of grant during an await |
| Runtime supervision (`runtime/*.py`, `onboarding/*_runtime_selection.py`) | selection files, owned tasks, active controllers, retry times | reconcile, start, stop, close, shut down | participant, hook controller, command line | selection changing while it is verified, partial starts, a task that ends while its owner cancels it, shutdown and interruption during reconciliation |
| Connection setup (`onboarding/workload_setup_flow.py`, `native_setup_flow.py` and their stores) | draft, receipt of the submission, credential with its pointer, record of the activation | submit, advance, open | gateway, disk, other processes | every step may fail or be repeated by another process, lost and late replies |
| Device runtime and reporting (`onboarding/device_runtime.py`, `device_reporter.py`, `device_renewal_*.py`, `reporting_state.py`) | preference under its lease, candidate and selection of each generation | tick of the reporter and of the renewal, resume, command line | server, disk, command line | preference changed during a tick, activation whose reply is lost, death between two writes |
| Gateway session and keys (`sdk/gateway/session.py`, `sdk/auth.py`, `sdk/jwks.py`) | token, HTTP client, key cache with its lock | request, retry, fetch | gateway | one retry after a refused token, age of cached keys, callers that wait for one lock |
| Policy enforcement (`pep/gateway.py`, `governance/actions.py`) and control client (`integrations/agents/control_actions.py`) | memory of used directives | preflight, verify, enforce, run, report | gateway, key cache | overlapping and repeated use of a directive, pruning, expiry during a fetch, a report that fails |
| Request preparation, device admission, facades, providers, workflows, proxy, CLI, protocol types | per request or per command | | | formats and files |

What makes each correct:

- **Outbox**: memory never runs ahead of or behind the file when a decision is
  taken; a received outcome leaves only by its acknowledgement; limits hold;
  every operation returns.
- **Hook controller**: a tool call whose outcome must be reported is allowed only
  with a stored reservation, and once under it, however often the host asks; an
  outcome the host was told is queued stays queued until the gateway answered it; it
  is delivered in the end.
- **Participant**: a handler runs once per lease; client and gateway agree on
  what was accepted and settled; stopping ends and leaves nothing running;
  receiving resumes after a rotation.
- **Quota**: local continuation only within the gateway's authority; an older
  instruction does not replace a newer one; suspension ends.
- **Rotation**: whatever the gateway may come to accept, its key is on disk; only
  what it activated is selected; a restart finds the activated credential.
- **Setup**: what the gateway has installed is stored and recorded; an approved
  connection comes to run.
- **Supervision**: one runtime per service, following the selection; shutdown ends
  and leaves nothing running.
- **Device**: only the user changes the preference, opting out removes what was
  uploaded, an activated certificate comes into use.
- **Governed action**: a directive starts its action at most once, before its
  expiry and under a recent key; the caller is told what the gateway was told.

`PROJECT.json` lists every component with its status, and the hazards line by line.

## 2. Modules

| Module | Models | EXTENDS |
|---|---|---|
| `OutcomeLedger` | what the outbox promises: reserve, record, settle, expire on one ledger | |
| `HookOutbox` | every operation of `HookOutcomeOutbox`, its lock, storage thread, cancellation, crash, hand-over | |
| `HookOutboxSpec` | the outbox closed by its callers; properties; refinement of `OutcomeLedger` | `HookOutbox` |
| `HookOutboxProofs` | TLAPS proofs about the store | `HookOutboxSpec` |
| `HookControl` | RPC handlers, delivery and maintenance loops, start, stop, composed with the outbox | `HookOutbox` |
| `HookControlProofs` | TLAPS proofs about the controller, on top of the store's | `HookControl`, `HookOutboxProofs` |
| `ConnectedParticipant`, `ConnectedParticipantProofs` | receive loop, deliveries, rotation, direct calls, life cycle, gateway queue; TLAPS proofs | |
| `QuotaState`, `QuotaStateProofs` | the cache, its callers and its recovery flight; TLAPS proofs | |
| `CertificateRotation` | a credential across rotations, crashes and restarts | |
| `ConnectionSetup` | submission to running participant, composed with the rotation | `CertificateRotation` |
| `ConnectionSetupProofs` | TLAPS proofs about rotation and setup, and that a connection implements the rotation | `ConnectionSetup` |
| `RuntimeSupervisor`, `RuntimeSupervisorProofs` | supervisor, native and MCP reconcilers, selection files; TLAPS proofs | |
| `DeviceRuntime`, `DeviceRuntimeProofs` | reporter, renewal loop, command line; TLAPS proofs | |
| `GovernedAction`, `GovernedActionProofs` | governed calls, gate, verifier, key cache; TLAPS proofs | |
| `MC*` | model values, symmetry | the module they check |

An action is what the event loop runs between two awaits, or one step of a disk
thread. Operators named "Wrong variant" above a definition are slips the
properties are able to notice; no specification uses them.

### Outbox (`HookOutbox`, `HookOutboxSpec`)

`mem` is `_entries`, `disk` the file, `lock` and `pending` are `_lock` and
`_pending_storage`, `call[c]` the operation and the await at which a caller
stands. `MayEnter` is `_serialized` with its wait for a predecessor's thread;
`Commit` hands the whole next table to the thread; `DiskReplace` is
`os.replace`, `Publish` the loop step after it. `Cancel` lets go of the lock and
leaves the thread running. `Crash` keeps `disk` alone. `Stop` followed by
`Start` in one process leaves the thread in `orphan`; `OrphanReplace` is its late
write. The delivery loop that `stop()` cancelled is `Gone`: it does not come back
before the next start. The clock only decides which reservations are expired;
`OutcomeLedger` has a clock of its own, and may drop a reservation only past its
time-to-live.

### Hook controller (`HookControl`)

`rpc[r]` is a handler's place in `_preflight` or `_postflight`; every store
operation it performs is the outbox action itself, so their interleaving is the
outbox's. `loop` is `_run_outbox_delivery` with its snapshot. `ran`, `told` and
`gateway` are not client state: how often the host was allowed, what it was
told, and what the gateway answered. The host may ask for a call and report it at any
time, also again for what it was allowed: only the reservation, or the pending key of
another preflight, refuses it. Therefore `ran` counts the allows of a reported call
since its last reservation came into the file, with local continuations beside one;
after settlement or expiry the gateway decides anew, and `ControlDisk` starts the count
again. A call that is not reported (`postflight_required` is false, as for Gemini CLI,
`host_hook_tools.py:65`; "unreported") has no reservation, and neither has a local
continuation without an admission: the code allows their repeats, and so does the
model. One key stands for one host correlation.

### Participant (`ConnectedParticipant`)

A delivery is a message under one lease. `receiver` is `_receive_loop` from gate
to acceptance, `task[d]` is `_process` or `_process_certificate_rotation`,
`waiters` the queue of `_semaphore`, `life` the holder of `_lifecycle_lock`.
`queue` is the gateway: a lease lapses at any moment, acknowledgement and result
are idempotent for the current lease. A lost request or reply is a branch of each
request, and so is the last attempt of a bounded retry loop.
`RenewalEnds` has the two ends of a failed renewal (any failure cancels the
handler or commit; a conflict waits for a commit already started). `Grace`
covers both ends of the grace period, because tasks may also have ended before.
`Quiesce` needs the other deliveries to be gone, where the code waits for those tracked
at that moment; as receiving is paused, none can join them.

### Quota (`QuotaState`)

`past` is what the gateway's settings were at each time, and `Signed` every
instruction it can have signed: any of them may arrive at any time. The three
revisions are one; "observe" is "passthrough"; `resting` is the backoff, whose
length is a choice. `call[c].began` is the epoch of the grant an action began
under, 0 for the heartbeat and for an explicit refresh. A hook action checks the
disposition, looks up its key in the outbox and then starts without another check
(`hook_control_actions.py:251-277`): `Decided` is the check, `Continued` the start, and
`LocalIsAuthorized` speaks of the check.

### Rotation (`CertificateRotation`)

Credential 0 is the first one, credential `o` the one operation `o` issued.
`prepared`, `cands` and `selected` are `rotation-prepared.json`,
`rotation-<operation>.json` and `renewed.json` of each credential's directory; each
is linked in place whole, so it is there or not. `Install` may end half-way: the selection is
stored, and the participant keeps the old session beside the new paths. `Verify`
is the end of a start's verification; metadata, loading and registration after it
(`workload_runtime.py:19-29`) belong to "running". `phase` is the place of
`_perform_certificate_rotation` ("begin" to "install") or of
`reconcile_retained_rotation` at start ("ask", "select", "verify"); `Origin` is the
credential that start has read beside the candidate. `wire` holds activations
whose sender has given up and that may still arrive. `SelectElsewhere` is another
process on the same directory (a client, another advance) that was told first that
the candidate is active. Draining and the lease of the message are
`ConnectedParticipant`'s.

One participant of a credential rotates at a time: this is what
`runtime_ownership` guarantees on a device. Standalone workloads may run
several receivers of one credential; two that rotate at once are not modelled.

### Setup (`ConnectionSetup`)

`stage[p]` is the place of `advance()`: `run` is the process that opens the
participant, `look` any other (`connection_lifecycle.py`, `open_client`). The files
are `pinned` (receipt of the submission), `stored` (the pointer to a generation, for a
native host also its selection), `whole` (the generation the pointer names is there)
and `receipt` (`activation.json`). At "commit" an advance may have written a generation
of its own and die or fail before the pointer names it (`Fails`); two of them may link
the pointer, and only one does; a link reported as a failure may have been made. `flight` is an
activation that may arrive after its sender gave up. `Open` is `Start` of
`CertificateRotation`. Folded together: the draft is on disk before anything is
submitted; session and request are one submission; "installed" includes
"connected"; "refused" is denied, cancelled, expired or failed; "approved" includes
the owner's consent of a native host; one certificate is issued per request. That
the gateway refuses to activate the first certificate once it was rotated is an
assumption about it.

### Supervisor (`RuntimeSupervisor`)

`host[h]` is `_reconcile_host`, `scan` the pass of the MCP reconciler, `task[b]` the
owned task of a bridge, `sup` the loop of `supervisor.run`. `choice` are the
selection files, which the command line changes at any moment. Verification,
start and stop of a controller or a bridge succeed or fail. An MCP selection that
was removed and made again counts as a new one.

### Device (`DeviceRuntime`)

`store` is the preference's file, `lease` its process lease, `reporter` a tick with the
state it loaded, `renewal` the place of `renew_device_certificate`. `cand` and
`chosen` are the candidate and `device-renewed.json` of each generation. Ages are a
flag: a report is fresh until it is not. `Begin` and `Poll` may find the operation failed
or its deadline over, which ends renewal until the service is started again
(`device_renewal_protocol.py:35`); `Replace` may fail, and `Confirm` repairs it.

### Governed action (`GovernedAction`)

`call[c]` is `execute_async` with the receipt it holds; a receipt has the name of the
call whose preflight obtained it, and `Reuse` is a second call with the same one.
`seen` and `expiries` are `_seen` with its times, `cache`, `lock` and `fetchAt` the
fetcher's. The claims checks and the local manifest are outcomes of `Receipt` and
of the choice in `Enforce`; observing mode is a permit. `time()` is read more than
once in a step; the model takes one instant. The memory of used directives is
that of one verifier in one process: what another process used, or this one
before a restart, it does not know. A malformed directive leaves an entry without
an expiry, which is never pruned. The synchronous forms, which run a loop of
their own, are not modelled.

## 3. Runs

| Run | Question | Bounds |
|---|---|---|
| `hook_outbox_crash` | Do the store's promises survive cancellation, storage failure and death at every step, and does it implement the ledger? | 3 keys, limit 2 entries and 1 awaiting (both reached), 2 RPC callers and the delivery loop, TTL 1, clock to 2 |
| `hook_outbox_live` | Does every operation end, also with the thread of a predecessor? | 1 key, 2 callers, 1 orphan |
| `hook_control` | Admission, report and delivery of one call, asked for and reported any number of times by two concurrent RPCs, with both loops, a crash and a storage failure | 1 key, 2 RPCs, 1 crash, 1 failure, clock past the TTL |
| `hook_control_live` | Is evidence delivered? | 1 RPC, working disk |
| `hook_control_ack_failure` | The same with one storage error: no (finding). | 1 RPC, 1 failure |
| `participant_delivery` | Do client and gateway agree about deliveries? | an ordinary message and a rotation, 3 leases each (one more than slots), one start, stop and reload |
| `participant_live` | Do tasks, stop() and rotations end? | 1 slot, a message, a rotation, a direct call, stop and reload |
| `quota_state` | Is local continuation authorised, are instructions ordered, does suspension end? | 2 revisions, 2 grants, authority of 2 units, clock to 2, a caller beside the flight |
| `runtime_supervisor` | One runtime per service, nothing left, shutdown ends, the selection is followed? | 2 hosts, 1 bridge, 2 changes of the files, 1 retryable failure |
| `connection_setup` | From submission through rotations: is nothing lost that the gateway accepts, and does an approved connection run with it? | both kinds, 2 advances, 2 operations, 1 crash, 1 failure of the opening advance, any number of failed starts and of the other's failures |
| `device_runtime` | Does the user's choice stand, does opting out remove data, is a renewed certificate used? | 2 renewals, 3 changes, 2 crashes or stops |
| `governed_action` | Is what starts authorised, once, and reported truly? | 2 calls, 2 keys, directive life 3, key age 2, clock to 3 |

Why the bounds are enough: the hazards are races of two, so two actors that
collide suffice: two callers of the outbox with a third key for a slot that is
refused, two handlers of one call, a caller beside the flight, two leases of one
message, two advances of one request, two calls with one directive. Limits and
lifetimes are as small as lets the run reach and pass them; the lifetime of a
directive exceeds the age of a key so that either may end first. Two operations
let a credential have two candidates, or a candidate have a successor; one crash is
enough because a start that fails leaves what a crash during recovery leaves, and
the safety properties are proved for any number. With one quota caller, two instructions
are still verified at once (caller and flight), and a cancelled caller joins the
same flight again. Deadlock is not checked where the system may rest: a stopped
participant, or a model at its clock bound with nothing called.

The reported runs hold the properties worth most; type invariants of
`HookOutboxSpec`, `QuotaState`, `CertificateRotation`, `ConnectionSetup`,
`ConnectedParticipant`, `RuntimeSupervisor`, `DeviceRuntime` and `GovernedAction` are
proved instead of run. `RotationAlone` and `AcceptedFindsSlot`
are checked without direct calls (see the known limits).

### Fairness

- *Disk and loop* (`StorageStep`, `ControlDisk`, `ControlLoop`): weak. A thread
  ends and the event loop runs ready callbacks.
- *Callers of the outbox* (`CallerStep`, `DeliverySnapshot`, `Maintenance`):
  strong, because `asyncio.Lock` hands over in arrival order and others may take
  the lock in between.
- *RPC time-out*: weak; `_bounded_preflight` and the transport have one.
- *Delivery attempts*: strong per key: the gateway does not fail one outcome for
  ever. Without it `EvidenceSettled` could not hold; the code retries for ever.
- *Participant*: weak for requests and handlers, which have time-outs or must
  return; strong for giving up an acceptance, whose attempts are bounded. Nothing
  is assumed of the gateway.
- *Quota*: weak for time-outs, the end of the backoff and of calls; strong for new
  actions and for recoveries whose instruction verifies.
- *Supervisor*: weak for each reconciliation and task: starts and stops return, as
  they are bounded by time-outs, and the retry time passes. `signal /\ Leave` is
  weak because the service waits for the shutdown future itself.
- *Rotation and setup*: weak for a participant that is started again and for the
  steps of a start; strong for a start whose request is answered and whose file can be
  written. The gateway issues what was claimed. Nothing is assumed of its decisions.
- *Device*: weak for both ticks; strong for those whose request is answered.
- *Governed call*: weak for each call's own step; fetches and requests have time-outs.

## 4. Finding and known limits

`hook_control_ack_failure`: one `OSError` in `acknowledge()` ends the delivery task;
outcomes are no longer delivered until the controller is restarted.

Met while modelling, and outside what the properties promise:

- `stop()` of a hook controller does not wait for its storage thread. If another
  controller is started in the same process, the late write may replace a newer file
  (`orphan` with `MaxOrphans > 0`). `PublishedIsDurable`, `EvidenceKept`,
  `ImplementsLedger`, `AllowedOnce`, `AllowedIsReserved`, `QueuedUntilSettled` and
  `DroppedAfterAnswer` are therefore promised for 0 only; TLC refutes the last four for
  1. `Capacity` and `SnapshotIsCurrent` hold all the same.
- A repeated preflight of a call without a reservation (not reported, or continued
  locally without an admission) is allowed again.
- Every refusal of an outcome counts as its answer for good, also one for want of
  authorization or quota (`ControlAdmissionError`, HTTP 401, 403, 409 and 429,
  `control_gateway_errors.py`), which may pass: `hook_control.py:294-308` drops the
  outcome, and `DroppedAfterAnswer` calls it answered.
- A hook action that continues locally does not check the disposition again after its
  outbox lookup.
- A direct MCP call may take the last slot during the long poll; an accepted
  delivery then waits without renewal. A direct call that begins during a rotation
  may be running when the session is closed, and so may a heartbeat in flight.
- A rotation cancelled by the grace period of a reload does not reopen the receive
  gate.
- A recovery that fails drops the held quota instruction and with it the revisions
  later ones are compared with.
- A start looks at the first candidate only; one whose operation was cancelled keeps
  the participant from starting. After a failure to store a confirmed selection the
  participant keeps a credential that is no longer accepted until it is restarted.
- The histories are bounded in the code: beyond 64 selections or 8 candidates of one
  credential (`renewed_credential.py:47,60`), or 64 generations of a device
  (`device_renewal_loading.py:85`), a start fails for ever. The models stay below.
- A native selection removed and made again between two ticks is not seen, so that a
  host whose start failed for good is not tried again.
- `OncePerDirective` ends with the process (see Governed action).

## 5. Proofs

Every safety property of the runs is also a theorem, for every value of the constants
that the named assumptions allow; TLC evaluates those assumptions in every run. The
theorems have no other hypothesis, except two that the code's known limits (section
4) make necessary:

- `MaxOrphans = 0`: a controller is replaced only after its process died. It is needed
  where a theorem rests on the file;
- `Directs = {}`: no direct MCP calls, for `AcceptedHasSlot` and `RotationStaysAlone`.

Each invariant below was model-checked before it was proved. The proofs go action by
action, with lemmas for what the operations share.

### Store (`HookOutboxProofs`, from `OutboxConstants` and `NoEntryIsNone`)

`TypeCorrect` and `LimitsHold` (`Capacity`) hold without hypothesis; `Durable`
(`PublishedIsDurable`), `Evidence` (`EvidenceKept`) and `StoreImplementsLedger`
(`ImplementsLedger`) for `MaxOrphans = 0`.

`PublishedIsDurable` is not inductive: nothing in it says what a table on its way
to the disk was derived from. `IInv` adds

- `CallArguments`: operations carry a key, a print, an outcome of their type;
- `LockDiscipline`: the lock is held exactly by the caller that awaits its own
  storage task, so a second commit cannot be derived while one is under way;
- `Loading`: until `load()` returned nobody else is in the store;
- `Coherent`: a written table is the file's, and with no write in flight the
  published table is the file's;
- `CommitIsCurrent`: the table on its way keeps the evidence the file holds *now*,
  except the key of an acknowledgement. `Evidence` follows from it at
  `DiskReplace`, the only action that changes the file;
- `orphan = {}`.

`LimitsHold` needs only that every table anywhere, published, in the file, on its way
or in the hands of a leftover thread, was within the limits when it was made
(`Limited`); taking entries away keeps it so.

The refinement maps the ledger to the file and its clock to the store's. A commit is
decided against the table in memory, some time before the file is replaced, so `RInv`
says that it is still one step of the ledger: `CommitIsProgress` (one reservation,
record, settlement or expiry of what the file holds), and for settlements
`OneDeliverer`, `AckStands` and `InFlightKeeps`: only the delivery loop acknowledges,
and what it acknowledges stays received in the table until its own write drops it.

The last part proves what holds inside one controller without looking at the file
(`Process`), whatever an earlier one left running.

### Controller (`HookControlProofs`, from `ControlConstants` too)

`ControllerIsClient` proves that every behaviour of the controller is one of
`HookOutboxSpec`: handlers and loops use the store as its clients may. With
`SnapshotStaysCurrent` (`SnapshotIsCurrent`) it rests on `FreeInv`, which needs no file:

- `Exclusive`: a preflight that has not answered has its key in `_reserving` and is the
  only one of that key;
- `LoopInv`: the delivery loop runs only while the controller is up, what it holds is
  in the table, and an acknowledgement that is being stored is the one it awaits; by
  `InFlightKeeps` no other write can drop what it still has to send.

`CallAllowedOnce` (`AllowedOnce`), `QueuedStaysQueued`, `DropFollowsAnswer` and
`AllowedAfterReserved` follow what the host was told or allowed into the file, for
`MaxOrphans = 0`. `ControlInv` consists of

- `StoreInv`, the store's `IInv` and `RInv`, used as they are proved there;
- `HandlerInv`: what a handler awaits in the store is what its place in the code says
  (`Paired`), and it is at most one unit of the clock old (`Timely`), which is less
  than the time-to-live, so that its own reservation cannot expire under it;
- `DeliveryInv`: the loop acknowledges only what the gateway has answered for good;
- `ReportInv`: what is queued is in the file; nothing was allowed more than once; and
  what a handler has stored or is storing (`Stored`) is in the file or in the table on
  its way there. A preflight whose reservation came into the file finds that the call was
  not allowed under it (`ran` is 0), and as long as it has not answered the reservation
  stands, or was reported and perhaps settled (`Kept`), and no other takes its place:
  writing one needs the key in `_reserving`.

### Participant (`ConnectedParticipantProofs`, from `ParticipantConstants` and `NoDeliveryIsNone`)

`ParticipantTypes`, `HandlerRunsOnce`, `ConfirmedStaysSettled` and `StoppedStaysQuiet`.
With direct calls `AcceptedFindsSlot` and `RotationAlone` are false (section 4); what is
left of them is `DeliveryWaitsForDirects` (an accepted delivery waits for a slot only
behind a direct call) and `RotationExcludesDeliveries` (no other delivery is alive while
a rotation replaces the session), and from these follow `AcceptedHasSlot` and
`RotationStaysAlone` for `Directs = {}`. Beside types and `ConfirmedIsSettled` the
invariant `IInv` says

- `Leased`, `RunOnce`: leases are numbered upwards, the one the receiver holds has no
  task, and a handler has not run before its delivery has a slot;
- `Waiting`: nobody queues twice for a slot or without wanting one;
- `Quiet`: what each phase of `stop()` has ended already: first the receive loop, then
  the tasks and waiters, then the registration;
- `Paused`: receiving is paused for the one rotation there is, which waits for the
  other deliveries before it installs anything;
- `Room`: a message is claimed only with a task to spare.

`DeliveryWaitsForDirects` counts: a holder of a slot is a live delivery or a direct call,
and the delivery that was accepted is live without holding one, so by `Room` a slot is
free unless a direct call has it.

### Quota cache (`QuotaStateProofs`, from `QuotaConstants` and `NoInstructionIsNone`)

`QuotaTypes`, `QuotaNeverRollsBack` and `QuotaLocalIsAuthorized`, for every number of
callers, bound on revisions and grants, length of authority and clock.
`LocalIsAuthorized` compares what a caller holds with what the gateway's settings
were; its invariant `IInv` adds

- `SettingsGrow`: revisions and grants of the gateway never decrease;
- `Genuine`: an instruction, wherever it waits, says what the settings were when it
  was signed; `Trusted`: one that was accepted also ends within `Life`;
- `GrantInv`: no call began under a grant the client had not yet learned of, and
  the client knows of none the gateway has not made;
- a held instruction is for the grant the call began under, or a later one.

The hard step is `WinnerIsTrusted`: `accept_instruction` checks the grant of the
instruction that arrives, but may return the one it already holds. That one is no
older, so by `SettingsGrow` its grant is no older either. `NoRollback` needs only
`TypeOK` beside the comparison in `Older`.

### Rotation and setup (`ConnectionSetupProofs`, from `RotationConstants` and `SetupConstants`)

The first part proves of the rotation alone, for every number of operations and
crashes, `RotationTypes`, `RotationKeepsKeys`, `RotationSelectsActivated` and
`RotationStartsAccepted`. The four need one invariant `IInv`: `KeysRetained` alone does
not say why an activation that arrives late finds its candidate. It adds

- `Process`: what each phase has behind it; the credential in use or read by a
  start is `Near` the end of the chain, which is the end itself or, when another
  process has just selected the accepted successor, the one before it (`Overtaken`);
- `Operations`: only a selected credential asks for an operation; a live one has the
  retained key; a candidate and an activation on its way belong to an operation that
  was issued;
- `OneLeaf`: the selections form one chain, so that `Leaf` names its end;
- `AcceptedIsNear`: the gateway accepts the end of the chain or one activated
  candidate beyond it. While it accepts that one nothing else can be activated
  (`NothingBeyond`), since nobody has asked for an operation with it.

The second part proves, for every number of failures too, `SetupTypesHold`,
`SetupStores` and `SetupRecords`: `SInv` follows an advance from the stored file
(`NamesWhole`: the generation a pointer names is there; `Advances`: whoever activates,
records or opens finds it stored; `Sent`: so does an activation that arrives after all)
to the record (`RecordStands`, `Used`).
`SetupIsRotation` is a refinement: every step of a connection is a step of
`CertificateRotation` or leaves it alone, where another advance is `SelectElsewhere`.
What is proved of the rotation then holds of the connection (`ConnectionKeepsKeys`,
`ConnectionSelectsActivated`, `ConnectionStartsAccepted`).

### Supervisor (`RuntimeSupervisorProofs`, from `SupervisorConstants`)

`TypesKept`, `OneRuntimeAlways` and `NothingIsLeft`, for every set of hosts and bridges
and every number of changes and failures. `OneRuntime` counts what runs and compares it with
the reconcilers' entries. It needs `Entered`: a reconciliation verifies and starts a
selection only when it has no other entry, and has entered what it starts before
it runs. `NothingLeft` needs `Phased`: the supervisor goes from reconciling to closing
only after it has joined the reconciliations, and by then every host either has no
entry, or is being closed, or its stop failed.

### Device (`DeviceRuntimeProofs`, from `DeviceConstants`)

`DeviceChoiceStands`, `DeviceTypes` and `DeviceKeepsCertificate`, for every number of
renewals, changes and crashes. For the choice, `DInv` says that a tick holds the lease of
the file, so that what it loaded is what the file still says (`TickIsCurrent`).

`DeviceKeepsCertificate` states `AcceptedIsStored`, which no run reports: the
certificate the server accepts is the selected one or the candidate stored beside it,
however replies are lost and wherever the process dies. Its invariant `CInv` says that
the selections form one chain without a gap (`Chain`), that the server has activated at
most the candidate of its last generation and knows of nothing beyond (`ServerInv`), and
that the process uses the last generation, or the one before it when it has just
selected the last (`LoopInv`). The type invariant rests on it: without it a client could
renew beyond the last generation.

### Governed action (`GovernedActionProofs`, from `GovernedActionAssumption` and `NoReceiptAssumption`)

`GovernedTypes`, `StartsOnce`, `CallersToldAsReported` and `StartsAreAuthorised`, for every
set of calls, lifetime, key age and fetch time. The core of `GInv` is `Remembered`: a
directive something ran under has expired or is remembered with its expiry. Pruning
keeps it because it forgets only what has expired, and an expired directive does not
decode. `StartIsAuthorised` also needs the age of the keys a call decides with (`AInv`):
what the cache holds, or a fetch has just been served, was published at the time it is
stamped with or later, and a fetch is over before that is `FetchLimit < TTL` ago.

### Only model-checked

Liveness, which is out of the prover's reach: `EveryCallReturns`, `EvidenceSettled`,
`DeliveryEnds`, `StopEnds`, `RotationReopens`, `Revives`, `ShutdownEnds`,
`SelectionFollowed`, `OptOutRemoves`, `RenewedIsUsed`, `CallsEnd`, `ActivatedIsRecovered` and
`ApprovedRuns`.

## 6. Not modelled

- Socket, process lock and authentication of hook RPCs; hook MCP and model RPCs.
- The content of messages, attestations, signatures, certificates and policies:
  verification is an outcome.
- Threads of synchronous callers of the quota cache and of the control client.
- The gateway session's single retry after a refused token: it is one request whose
  outcome the models choose.
- The signal handling of `sdk/http.py`, whose wrapper keeps a process alive on
  SIGTERM when the previous handler was the default one.
- Admission, archive and cancellation of a device, preparation of proposals,
  inventories and status pages: sequential, correct by the content of files.
- What a death leaves in unreferenced directories, which nothing reads.
- Workflow, channel, tool, model and provider adapters, the proxy, the command line
  and the protocol types: format conversion around the calls modelled here.

`PROJECT.json` gives the reason for every component it marks.

## 7. Plan

1. Models: two receivers of one standalone credential that rotate at once; threads of
   synchronous quota callers.
2. Proofs: the safety halves of the liveness properties, such as that an outcome never
   leaves the delivery loop's reach while the loop runs.
