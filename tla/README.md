# A TLA+ model of YAH

This directory holds TLA+ specifications of *yet-another-harness* (YAH), the TLC
configurations that check them on small instances, and TLAPS proofs of what
holds for every instance. Paths below are relative to `src/crates/`.

- [The system](#the-system): what YAH is made of, and what is hard about each part
- [Modules](#modules): what is modelled, and how it corresponds to the code
- [Runs](#runs): what TLC checks, with which bounds
- [Fairness](#fairness), [Proofs](#proofs), [Findings](#findings)
- [Not modelled](#not-modelled)

`PROJECT.json` is the machine-readable index: components, runs, the source lines
of every definition, hazards, findings and theorems.

## The system

YAH runs agents. A **kernel** (`yah-kernel`) keeps one durable graph per project
and admits every change to it through one function. **Plugins** (`yah-plugin-*`)
run in a worker process or as WebAssembly, and a **composition** layer
(`yah-compose`) starts and stops components in the right order.

| Part | State | Operations | What is hard to test |
|---|---|---|---|
| Mutation funnel, `yah-kernel/src/funnel/mod.rs` | the gate and its poison latch | `submit`, `reject_keyed` | a commit that fails uncertainly; a crash between commit, books and answer; a retry of what was done |
| Store, `store/` | graph on disk, address books and cursor allocator in memory, retention floor, authority epoch | `create`, `recover`, `set_min_retained_cursor` | readers while the books are filled; recovery of every state a kill can leave |
| Control graph, `funnel/validate.rs` | runs, work items, units, attempts, leases | `run.open`, `work_item.create`, `unit.admit`, `unit.dispatch`, `unit.stamp_bump`, `unit.progress_report` | agents that come back late with an old token |
| Effect ledger, `funnel/effects.rs` | one intent per logical operation | `effect.prepare`, `.dispatch`, `.record_dispatched`, `.park_reconciling`, `.settle` | the world is touched at any time after the permit, also after a restart or a settlement |
| Cancellation, `funnel/cancel*.rs`, `run_rules.rs` | requests with frozen scope, delivery rows, status of runs | `cancel.request`, `cancel.record_delivery`, `run.close` | the tree changes while signals are delivered; overlapping requests |
| Protocol adapter, `protocol/adapter*` | subscriptions, shared queue budget, token registry | commands, receipts, `subscribe`, `poll`, `resume` | publication against subscription; full queues |
| Provider normalisation, `provider/` | one stream's automaton | translate provider events | order of events |
| Effect scopes, `yah-compose/src/effect_scope*` | a tree of scopes with gates | admit, close, poll | admission from root to leaf against closing from leaf to root |
| Reconciliation, `reconcile*`, `desired_state*` | generations, selections, lifecycle | accept, start, stop | a start that completes after the desired state changed |
| Service registry, `service*` | providers, handles | provide, bind, `try_with` | a call against the withdrawal of its provider |
| Plugin driver, `yah-plugin-host/src/driver*` | an activation | prepare, poll, reconcile, drop | dropping or reconciling while it starts |
| Capability broker, `capability*` | grants, bindings | bind, resolve, withdraw, revoke | a handle used after withdrawal |
| Worker session, `yah-plugin-ipc/src/session/` | calls, handles, streams, retired identifiers | frames of both directions, deadlines | late replies, releases crossing reclaims, budgets |
| Worker process, `yah-plugin-proc/src/` | pump, endpoint, delivery tables | the select loop, submit, shutdown | death of the worker with frames in flight; shutdown against submit |
| WebAssembly driver, `yah-plugin-wasm/src/` | a store and its limits | call, deadline, kill | a deadline while the store is held |
| Storage experiment, `exp001-harness` | - | benchmark | not part of the product |

They interact as follows. A client's command enters through the adapter, which
either refuses it under its own key or hands it to the funnel. The funnel
resolves it against its receipt or validates it against the graph, commits rows,
events and receipt in one transaction, and enters them in the books. The
adapter then publishes the events to the subscriptions. A dispatch mints an
attempt token, with which an agent reports progress, prepares effects and asks
for permits; the daemon settles effects, requests cancellations and closes runs.
A restart claims the next authority epoch, which outdates every token.
Plugins are separate from this graph. A slot of the composition layer decides
that a component should run and on which providers, the host activates its
plugin through a driver, and whatever the activation must undo later is a cleanup
of an effect scope. Calls between components pass the gates of those scopes. The
driver of the process lane starts a worker: a call to it is a message of the
session, moved by the pump, and its results come back through bounded channels.
The driver of the WebAssembly lane runs the plugin in a store under a lock.

The properties the system needs, and the hazards that threaten them, are listed
in `PROJECT.json` under `hazards`, each at the line where it bites. In short:

- a command takes effect at most once and its answer is never taken back;
- at most one agent may act for a unit, and a refusal is final;
- the ledger never hides a touched world and never permits a second touch of
  what must not be repeated;
- what is cancelled stays cancelled, leaf first, and a run does not close with
  success over what is unresolved;
- a reader sees every event once and in order;
- a window of credit neither overflows its channel nor closes for good;
- no cleanup overtakes a call that borrows what it undoes, and a teardown ends;
- a component runs on the newest selection, one driver at a time;
- a caller is told the truth about what became of its call, and is told;
- no guest holds its host for ever, and none is blamed for what it did not do;
- whatever the kernel wrote, it can recover.

## Modules

```
CommandLog   <--implements--  Funnel
Attempts     <--implements--  EffectLedger  <--implements--  Cancellation
EventStream                   StreamCredit
EffectScope  <--extended by-- Handles
Slot         <--extended by-- HostActivation
Session      <--extended by-- WorkerProcess
WasmLimits   <--extended by-- WasmDriver
```

`MC*` modules give the constants their values for TLC, and `*Proofs` modules
hold the theorems. An operator that is defined next to another one with a
longer name (`Superseded` and `SupersededNot`) and that no action uses is a
plausible bug of that operator; every property of a passing run fails under one.

### Funnel and CommandLog

`Funnel` models `submit` and `reject_keyed` (`yah-kernel/src/funnel/mod.rs`)
with the part of the store they use. The gate is held for the whole of a
command, so at most one is in flight; a crash, the retention-floor writer and
readers of the books come between its steps.

| Action | Code |
|---|---|
| `Replay`, `Refuse` | the answer comes from the receipt, or is a refusal that is not stored |
| `Stage` | claim, validation, allocation of cursors |
| `CommitOk`, `CommitRefused`, `CommitUnknown` | the three classes of result of a commit |
| `BookEvent`, `BookReceipt` | the books after the commit, row by row |
| `FloorBegin`, `FloorCommit*`, `FloorPoison` | `set_min_retained_cursor`, which commits outside the gate |
| `Resume` | a reader that resumes from its last cursor |
| `Crash`, `Recover`, `RecoverUnknown` | a kill; `Store::recover`, with an authority claim that may be durable although it reports failure |

A method is reduced to the shape of its validator: create, compare-and-set,
report, malformed. A request may also name rows that stand in its way (`blockers`):
a stored refusal that a later command can lift, as an unsettled effect is to
`run.close` or a foreign root to `cancel.request`. `told` and `applied` are history: what each client was
answered, and how often its transition reached the disk. `CommandLog` is the
promise, without processes, books or faults: each key is decided once, and only
a decided completion is acknowledged.

### Attempts

The control graph, one atomic step per command (`funnel/validate.rs` and the
writes in `funnel/mod.rs`). An attempt row also is the token its dispatch
minted, and every token ever minted may be presented at any time. `FencePasses`
is `check_holder_fence`, which compares neither the nonce nor the status of the
row. Mutating commands name the current version, so the modelled commands are
the ones that pass; `Funnel` has the stale ones. `CancelRequest` here is only
what a request means for admission: its root is on record.

### EffectLedger

The intents of `funnel/effects.rs` and the world they touch. A committed
dispatch is a *permit*; `AdapterActs` uses it at any later time, also after the
agent was superseded, the process restarted, or the effect settled. The digest
of a target is as before, as expected, or other. Settlement takes any subset of
rows, as the code does. `RecoveryAccepts` is the check of settle receipts in
`store/receipt_event.rs`. The states `observing` and `compensating` are written
by no handler and are left out. `INSTANCE Attempts` provides the graph and its
steps.

### Cancellation

`cancel.request` freezes a proposed scope leaf first, `cancel.record_delivery`
records one outcome per member in that order and parks what may have touched
the world, `run.close` asks for its blockers. `LifecyclesValid` is what
`validate_all_cancellation_lifecycles` demands at recovery: the root and the
members exist and belong together, the journal proved their creation (and the end
of a root with an empty scope) *before* the request, and its delivery events
replay to the rows and the status. Of the journal a request row keeps the events
that precede it and that recovery will look for (`history`), and its own
deliveries (`events`). `INSTANCE EffectLedger` provides the rest.

### EventStream

The subscriptions of the in-process adapter. A command books its events one by
one, then publishes under the stream gate, offering each event to each
subscription in turn (`waiting`). `FillRetained` fills a queue from the books at
subscription and after each poll. Every event has weight one in the byte
budget. A client remembers what it received (`got`) and may subscribe from
there (`SubscribeOn`) or from the floor or the head (`SubscribeAnew`). Paths taken
when a durable row cannot be read are left out, and so is the staleness of the
poison check, which only delays the refusal.

### StreamCredit

One streaming call of a worker: the session's window (`call`), the pump's
delivery table (`stream`), the bounded channel and its consumer, which drains,
turns into a waiter without items (`IntoPending`) or disappears between any two
steps of the pump. `Tick` is `regrant_stream_credit`. A frame the session
refuses is fatal and ends the call like any terminal (`Settle`). Payload sizes
are left out.

### EffectScope and Handles

`EffectScope` is the tree of scopes of `yah-compose/src/effect_scope.rs` with the
gates of `activity.rs`. A gate is the set of callers counted in it, its `REVOKED`
bit (`revoked`) and its zero-count latch (`drained`). A teardown is driven by polls,
each of which does one thing and may be the last.

`Handles` adds what passes the gates. `Provide`, `Bind` and the withdrawal are the
service registry (`service/`), `Register`, `RevokeGrant`, `RemoveGrant`,
`PrepareBinding` and `Resolve` the capability broker (`yah-plugin-host/src/capability/`).
A call is `Call`, one `Admit` for each gate from the root down, `Enter` with its last
check, `Return`, and one `Leave` for each gate; `Refused` is any check that fails.
An owner removes a registration twice, from `withdraw` and from `Drop`, each in two
steps (the registration, then the broker's table), as the code does under two locks.

### Slot and HostActivation

`Slot` is `component_slot.rs` over `reconciled_component.rs` and `component.rs`:
what becomes of the mounted component is a record (`Pending`, `Starting`,
`Activated`, `Stopping`, `Stopped`), and each call of the slot maps it to the next
one. Calls that present an epoch may present any epoch ever made. Providers come
and go without telling the slot, as the registry does.

`HostActivation` is `driver/activation.rs` and `control.rs`: the guard that
borrows the slot from `Prepare` until it is released as active or dropped, the start
future it polls, destroys and discards after a seal, and the deactivation that was
registered as a cleanup before the start. The driver is any program: after a failed
or destroyed start it may hold resources, and its deactivation may fail.
`abandoned` is history: the epochs whose failed cleanup the owner gave up.

### Session and WorkerProcess

`Session` is the host half of the protocol (`yah-plugin-ipc/src/session/`), a
record and operators on it like the methods of `HostSession`. A table of
the code is a status of its ids: fresh, open, spent, and for handles live, released
or reclaimed. `OnFrame` is the dispatch of a decoded frame; anything that breaks
decoding or a bound is `garbage`.

`WorkerProcess` is one activation of `yah-plugin-proc`: one action for each arm of
the pump's select loop, including the events it applies and the frames it queues
(`Turn`); `Submit`, `SubmitRelease` and `TakeCancel` for endpoints; `Dispatch`,
`AcquireCapability`, `Reply` and `SpillReply` for the dispatcher; `Boot`,
`Shutdown` and `Release` for the driver. The worker is external: it reads and
writes a socket that keeps order, hangs up or dies at any point, and may send one
frame that nothing it received justifies (`faulty`). When it leaves, its output may
end within a frame (`know.part`), which `end_of_input` tells from a clean end. A conforming worker never
releases a handle it was told is reclaimed, and a cancel is submitted and taken in
one step. `know` is history: what the worker received and sent. `Fed` reads the
buffered frames one after the other when the input ends. `SessionAfter` answers the one
worker call that an event may ask it to answer: a frame brings at most one, and
after a drain the session is closed and answers none.

### WasmLimits and WasmDriver

`WasmLimits` holds the pure answers of `limits.rs` and `surface.rs`: accepted
bounds, allowed growth, the interrupt and what it says at a deadline.
`WasmDriver` is `driver.rs` with `host.rs` and `capability.rs`: construction,
plans, instantiation in a store that only its future holds, publication under the
store lock, activation, tool calls, ticks and deadlines, dropped futures, and a
deactivation that tells the guest to stop before it asks for the lock. It takes the
store out (`TakeStore`), drops it and clears what was recorded of it (`ReleaseStore`),
and answers (`StopAnswer`), three steps between which others look. `queue` is
the fair lock: its first client holds it. A guest returns, traps, panics an import,
grows, logs, takes and drops capabilities, or runs for ever. The epoch is reduced to
whether a tick came since the deadline was set; `clock.elapsed` is history: the
ticks that came while the call was running. A dropped call may leave the store
un-enterable (`poisoned`), as Wasmtime allows.

## Runs

`tlc -config <cfg> <module>` in this directory. Distinct states are those of an
exhaustive search.

| Run | Configuration | Checks | Distinct states |
|---|---|---|---|
| `funnel` | `Funnel.cfg` | six racing commands under two keys, one of them blocked by another's row, a fault, three lives: at most once, answers that stand, no event behind a reader, recovery accepts, implements `CommandLog`, every client is answered | 192,676 |
| `attempts_fence` | `Attempts_fence.cfg` | two units, two holders, three authority epochs: one live token, refusals are final, nothing is admitted below a cancelled root | 706,920 |
| `ledger_safety` | `EffectLedger_safety.cfg` | one operation of four kinds of adapter, one target, two lives: no touched world is hidden, no forbidden repetition, no false success, implements `Attempts` | 268,976 |
| `cancellation` | `Cancellation.cfg` | one request over a tree that keeps changing, and a restart: delivered means stopped, resolved stays resolved, recovery accepts | 138,320 |
| `event_stream` | `EventStream.cfg` | two clients, three events, queues of two, a budget of three: nothing missed or repeated, and events reach a client that polls | 68,921 |
| `credit_window` | `StreamCredit_window.cfg` | a ceiling of two, eight frames, one declared drop: windows agree, frames are accounted for, a stalled window opens again | 252,923 |
| `handles` | `Handles.cfg` | two threads calling through handles of a service or a capability while three scopes with up to two cleanups each are torn down: quiet before cleanup, reverse order, no lost wake-up, the broker's book | 493,369 |
| `activation` | `HostActivation.cfg` | three generations, two providers, two activations: exclusive drivers, starts end first, active on the current selection, disabled is unmounted | 52,252 |
| `worker_process` | `WorkerProcess.cfg` | two calls each way, a handle, an offer, channels of one: honest answers, a just summary, no waiter left, a spent budget stays spent | 589,243 |
| `wasm_driver` | `WasmDriver.cfg` | one activation, two callers, seven builds: nothing is left behind, overruns are earned, every call ends | 81,035 |

Two more runs (`ledger_recovery`, `credit_slot`) end in a counterexample each; they
are the [findings](#findings).

### Bounds, and why they are enough

- **Funnel.** `MaxFaults` counts commits and recoveries that fail, `MaxLives` the
  process lives. One fault is an uncertain commit, an uncertain floor or a failing
  recovery, each followed by any number of retries and two restarts. Two requests
  share the row and two share a key, the smallest case in which a receipt can be
  wrong for its key. The sixth waits for a row another of them moves.
- **Attempts.** Three epochs give a token that is two dispatches old, `MaxCount`
  is also the width of a counter, so the refusal at overflow
  (`increment`, `validate.rs`) is reached. Units and holders are
  interchangeable (`SYMMETRY`; the properties do not name one). Only safety is
  checked under symmetry.
- **EffectLedger.** One key, since intents do not refer to each other; the four
  specifications differ in retry, approval and declared targets. Three attempts
  let a superseded agent and its successor both ask. `MaxVersion` leaves room to
  prepare, dispatch, record or dispatch again or park, and settle; with five
  versions (485,776 states) the same properties hold.
- **Cancellation.** `MaxMembers` stands for `MAX_SCOPE_MEMBERS` (4096). Outcomes are
  one that discharges a member and one that does not: what follows from a delivery
  depends only on whether it is `unresponsive` (`request_status_after`). One request: requests refer to the tree and not to each other.
- **EventStream.** `Capacity` stands for 1024, `MaxOpen` for 64, `MaxQueued` for
  16 MiB. Each is small enough to be exhausted, and `MaxQueued` is below
  two full queues, so one client can starve the other. Three events exceed a
  queue, so a backlog must be refilled.
- **StreamCredit.** `MaxFrames` bounds the data frames of the call. With a
  ceiling of two, eight frames go round the window four times.
- **Handles.** Three scopes: a consumer, a scope nested in it, and a provider. Two
  effects and a child can be admitted to one scope in any order, so that an order to
  reverse exists. Two threads may be counted in one gate at once; a gate has room for
  both, so TLC does not see the refusal at capacity, and the proofs hold for every
  capacity. A behaviour has a registry or a broker: they share nothing but the scopes.
- **HostActivation.** Three generations allow a snapshot, a change of assignment or
  revision while its start runs, and a change back or a removal. Two epochs are two
  activations that could overlap.
- **WorkerProcess.** Every ceiling and channel is one and the budget three, so each
  is exhausted. TLC looks at states whose ids in use lie in one *slice*
  (`InSlice`): both host calls with the offer, both worker calls with the handle, or
  one call with a worker that may be faulty. Behaviours that mix calls of both
  directions, and those with two calls of a faulty worker, are not explored.
- **WasmDriver.** One activation: activations share only the ticker, whose ticks
  come at any time anyway. The builds have budgets of zero to three ticks, refuse
  bounds, counts or imports, and pend or fail where a plan can. Two callers and the
  deactivation wait for one lock.

Deadlock is checked for the funnel and the streams of events. It is switched off
for the graph, the ledger and cancellation, whose counters run out (the code
refuses every further command), and for the other runs, whose calls, scopes,
workers and activations end.

## Fairness

Five runs use it, and each assumes what the code or its surroundings do.

- `Funnel`: clients retry, the thread of a command runs on, and a supervisor
  restarts a process that is down or poisoned. Commits may fail only boundedly
  often: nothing else makes progress possible.
- `EventStream`: the publishing thread runs on, and a client keeps polling. Weak
  fairness of `Poll` asks that a poll gets the stream gate in the end; that holds
  because commands pause, not because the mutex is fair.
- `StreamCredit`: the ticker in the pump's loop fires, and the consumer reads.
  No fairness is assumed of the worker.
- `HostActivation`: the owner of a slot reconciles the newest snapshot again and
  again, polls what it has begun to stop, and lets go of a guard whose activation is
  over. Reconciliation is level-triggered; nothing is assumed of the driver's start.
  A poll of the teardown is assumed to get on, so a deactivation a driver never
  finishes is excluded: the code has no timeout of its own there.
- `WasmDriver`: the ticker is a thread of its own that lives as long as the
  prepared control, hence until the deactivation is over; the store lock is fair
  (`tokio::sync::Mutex`, the queue), and whoever waits is polled. Nothing is assumed
  of the guest, nor that a host destroys a start that pends for ever. Budgets are
  counted in ticks; how long a tick is on the clock is not modelled.

`CloseNeverStalls` is the liveness of a teardown stated as an invariant: some poll is
enabled, so that no wake-up was lost.

## Proofs

`tlapm <module>.tla` checks them; they hold for every value of the constants that
satisfies the named assumptions of the module (counters and ceilings are
naturals; no proof uses that a set is finite or small).

### FunnelProofs

Any set of requests, any number of faults, kills and restarts. One assumption is
about data: `DigestAssumption`, that under one key and principal a digest names one
request. The adapter recomputes the digest from the method, the target, the expected
versions and the payload and refuses a request that carries another
(`validate_request_digest`), so it says that the hash has no collision. The
inductive invariant `IInv` is

| Part | Says | Needed because |
|---|---|---|
| `DiskInv` | receipts and events on disk belong to each other, cursors are unique and have a last one, and `AtMostOnce` | recovery checks the first, allocates above the last |
| `FloorInv` | the retention floor is the cursor of an event, or the first | recovery refuses a floor above every event |
| `BooksInv` | the books differ from what recovery would rebuild only by what the command in flight has not entered yet, unless the gate is poisoned | a replay reads the books, not the disk |
| `ReaderInv` | what was delivered is on disk, and `NoLateEvent` | a restart can bring back an event nobody saw committed |
| `AnswerInv` | a request that was told `completed`, or `rejected` with a receipt, holds that receipt; one that was told `rejected` under an uncertain commit, and that no row blocks, can never be accepted | the receipt of a rejection may be lost with its commit |

From it follow `CommandsApplyOnce`, `AnswersNeverChange`, `ReadersMissNothing`,
`RecoveryAlwaysAccepts` and the refinement `FunnelImplementsLog`: under the mapping
that reads a receipt row as the decision of its key, every step of the funnel is one
step of `CommandLog` or none.

### ExclusionProofs: attempts

`OneLiveToken` is not inductive: the fence compares epoch, stamp, authority and
holder of the token with the unit and its lease, so one must know how the three
rows evolve together. The invariant `IInv` (in `Attempts.tla`) is

| Part | Says | Needed because |
|---|---|---|
| `TypeOK` | rows have their shape | arithmetic on counters |
| `AbsentUnitIsEmpty` | a unit not admitted has no rows | admission starts from zero |
| `AttemptsNotAhead` | no attempt is ahead of its unit in epoch, stamp or authority | a new attempt is new |
| `AttemptKeyUnique` | unit and epoch determine the attempt | two live tokens are then one |
| `ActiveIsCurrent`, `CurrentAttemptExists` | the active attempt is that of the current epoch | supersession and creation are one transaction |
| `LeaseFollowsUnit` | the lease has the epoch of the unit | the fence reads the lease |
| `HeardNotAhead` | no report is heard of a future attempt | order of reports |

From it follow `TypeCorrect`, `FenceAdmitsOne`, `FenceAdmitsCurrent`,
`ActiveAttemptUnique`, and the action properties `ReportsInOrder`,
`RefusalIsFinal` (a stored refusal is never wrong) and `CancelledTreeIsClosed`.

### ExclusionProofs: activations

`SlotInv` says that only the newest epoch may own resources. `HostInv` says that
the driver of any other epoch is down, or stuck and abandoned, that a blocked
teardown has no driver still closing, and that a start that may still run finds
its driver not yet closing. `DriversExclusive` and `StartsEndFirst` follow.
`ActiveOnSelection` is an action property: only `complete_start` makes a component
active, and it looks at the desired assignment and the registry once more.

### EffectLedgerProofs and CancellationProofs

`LedgerImplementsAttempts` and `CancellationImplementsLedger` show step by step
that each layer uses the one below only through its own actions, so everything
proved of `Attempts` holds of all three.

The ledger's own invariant `LInv` is `TouchedIsOnRecord` and `NoRetryActsOnce`
with `Shapes`, which says only what the provers need of the counters. The two
belong together: the first says that an intent that is still `prepared` has no
permit out, which is what its first dispatch needs for the second. `SettledForGood` and
`CancelledStaysUndispatched` are action properties of the single commands.
`SuccessMeansLanded` needs `WInv`: a row that reads `applied` for a target was
observed at the expected digest, so the target had landed (`WorldSeen`), and a row
keeps the operation it was prepared with (`SpecsKnown`).

The results of `CancellationProofs` are about three layers at once. A request is
accepted on facts of the control graph and of the ledger, and is looked at again,
many commands later, by a delivery, a close or a recovery. So the proof first says
how the lower layers grow, whatever the command: `GraphGrows` (runs, units and
attempts never go away, a unit keeps its run, a superseded attempt stays so)
and `LedgerGrows` (a row is created once, keeps its unit and its operation, and is
final when settled), from the invariants `GraphInv` and `RowsInv`. What is then left
is local to a request:

| Part | Says | Needed because |
|---|---|---|
| `Counted` | version, deliveries, events and status of a row tell one story: the first `version - 1` members of the frozen scope are the delivered ones | `LifecycleValid` recomputes all of it |
| `Grounded` | the root is committed and every member is below it | kept by growth; `RootValid` and `ScopeOwned` look it up again |
| `DeliveredStaysStopped` | a delivered effect is unused, parked or settled | inductive only with `Grounded`, which bars a new dispatch |

From it follow `DeliveryIsTheEnd`, `RecoveryAlwaysAccepts` and
`UnresponsiveBarsSuccess`; `ResolvedForGood` needs only the growth of the layers.
`Counted` rests on `FrozenScope`, that the order `Freeze` chooses exists and names
every member once. It is proved for any finite set of members, one order for each
of the four depths and the deeper ones first; a proposed set is finite because the
command checks its size first (`MAX_SCOPE_MEMBERS`).

### StreamProofs: durable events

`ReadersMissNoEvent` and `ResumeWhereItStopped` hold for any clients, batches,
capacities and budget, from `StreamAssumption` alone. Both compare sequences with
`Between`, the booked cursors of an interval by rank. The proof first shows that a
finite set of cursors has one ascending list and that the ranks give it
(`OrderLists`, `ListedOnce`), by counting: the rank of the i-th element is i. The
invariant `IInv` then only says which set a sequence lists:

| Part | Says | Needed because |
|---|---|---|
| `OpenInv` | what was received, followed by the queue, lists the events from the origin to `lastQueued`; the queue is full or holds every event it was offered | an offer appends one event, and is right only if nothing lies between it and `lastQueued` |
| `ClientInv` | a closed or absent subscription left a list of everything up to its last event; no event is still to come at or below a cursor anyone has reached | a batch is booked above everything, so a list that is complete stays so |
| `JournalInv` | the last published cursor is booked, and what is left of the batch in flight is ascending and above everything booked | events are booked one by one before any is offered |

A step is then a fact about intervals: a list is continued by the next interval
(`Join`), begins with the list of a smaller one (`Prefix`), and is not affected by an
event booked above it (`Grow`).

### StreamProofs: stream credit

`WindowsAlwaysAgree` and `LosslessNeverDropped` hold for any ceiling and any
number of frames. The invariant says beside them that a grant replaces a
frame that was accepted and is no longer queued (`GrantsAreDrained`: replaced +
queued <= accepted), that a lossless stream spends a credit for every frame it
accepts (`CreditsPayForFrames`: outstanding + accepted <= capacity + replaced),
that nothing was lost so far (`NothingLost`), and what a stream looks like before
its open and after its end. Adding the two inequalities gives the conservation
law of the code: queued + outstanding <= capacity.

`FramesAlwaysAccounted` follows the sequence numbers: `AccountInv` says that the
frames in the channel are numbered by what was delivered before them and the drops
they declare, that the stream's own count of drops and the shared one agree while
the stream is there, and that no frame is missing from both as long as a consumer
reads.

### HandlesProofs

`CleanupAfterCalls` holds for any tree of scopes, any number of callers and any
services. `LatchInv` says that a latch is set only on a revoked gate nobody holds,
and that nothing is undone before the latch of its scope is set; a revoked gate
admits nobody, so the latch stays right. `CallInv` says that a running operation
holds every gate it needs; that needs that a service does not move while there is a
handle to it. `BookIsRight` (`BrokerInv`) is that the listed registration is the
active one, with a dropped broker having neither.

`UndoneBackwards` puts what a scope has still to undo into one sequence: its entries
in reverse, the entry being undone, and what it undid already. Every action
leaves the sequence of a scope alone, appends an admitted entry, or moves an entry
from one part to the next (`TearStep`), and each of these keeps the order; a scope
that was sealed admits nothing (`TearInv`).

### WorkerProcessProofs

`HonestLossHolds`, `SummaryIsJustHolds` and `NoWaiterLeftHolds` hold for any
sets of calls, handles and offers, any ceilings and channels, and any worker; of the
assumptions only `ProcessAssumption` is used. In particular they hold of what the run
cuts off: calls in both directions at once, and a faulty worker with many calls.

The hard part is the first conjunct of `SummaryIsJust`, that a protocol fault is the
worker's. The session refuses a frame on the state of its tables, and the worker sent
it on what it knew then; in between, deadlines, cancels, releases and reclamations
of the host have changed the tables, and frames of both sides are in two sockets.
`ProcessInv` says how they fit together as long as the worker keeps the protocol:

| Part | Says | Needed because |
|---|---|---|
| `Ties` | the tables of the session and what the worker sent and received agree on every id | it is what justifies a frame at the moment it is sent |
| `AllBacked` | a frame on its way to the worker names an id the session has already noted | the worker then answers it, and the answer must be expected |
| `Ready` | each frame on its way to the host is one the session can take, the hello first, and no two of them use up the same id | the first frame is then taken without a fault, and the others stay ready |
| `Sent`, `Unsent` | what arrives was sent; a call that its caller is told never ran is neither in the socket nor with the worker | `HonestLoss`, and the `goodbye` of a summary |
| `NoOpen`, waiting calls are open | a closed session has no open call, and a waiter has an open call | the end of the session is then the end of every waiter |
| `Stages` | what holds of calls, releases and the child in each stage of the pump | `NoWaiterLeft` |

An action of the host changes the session through the operators of `Session`. Each is
shown once to be a step that uses no id the worker is to use first and asks for nothing
it has not noted (`Keeps`), and such steps preserve the agreement. What one frame does
is `Takes`: it moves the id it names, reports the news of it, and is a fault
only if it was not `Expected`. The frames that are read at the end of the input are a
recursive function of the buffered ones. What it returns is shown by taking the least
position at which the claim fails (`FedSteps`, `FedKeeps`): the fault, if there is
one, is then the worker's, and every news comes from a frame that was sent.

### WasmDriverProofs

`OverrunsAreEarned` holds for any budget and any number of activations and callers.
`TimeInv` says of a running call that its budget has elapsed, or that the ticks
its interrupt has counted, with the one that is due, do not exceed the ticks that
came while it ran (`elapsed` stops at the budget, hence the first case). All start
from zero in the step that enters the guest. `StopInv` says that a deactivation that
has begun has set the kill flag, which `describe_stop` reads.

`StoresLeaveNothing` needs to know who owns a store (`OwnerInv`, `Tidy`): until it is
published, the future of the start, which drops it when it fails or is dropped;
afterwards the holder of the lock of the activation, so that a guest runs only under
a lock that is held. A deactivation takes the lock, waits for the start, takes the
store out, and then finds nobody else who could put it back or log to it. `Tidy` also
says that a released store has no records left, and that a start that was completed
left a store for the deactivation to find.

### What is only model-checked

- Liveness (`EveryRequestAnswered`, `EventsArrive`, `StalledStreamResumes`,
  `DisabledIsUnmounted`, `EveryCallEnds`) and `CloseNeverStalls`, which says ENABLED:
  outside what TLAPS proves.
- `NothingOwedAtBudget` of `WorkerProcess`. It compares sums of the sizes of six tables
  before and after a step; the provers do not find what a change of one entry does to
  such a sum, and the exact counts of a whole drained input take an induction over
  data.

`LiveTokenIsCurrent`, `HeardInOrder`, `OneActiveAttempt`, `SettledIsFinal` and
`ImplementsLedger` are proved and not part of a run.

## Findings

Each of the first two is a run whose counterexample TLC prints.

1. **A lawful settlement can make the store unrecoverable** (`ledger_recovery`).
   Settling a declared effect with fewer rows than were declared is accepted, and
   the missing targets stay unknown (`funnel/effect_rules.rs:91`). The event
   counts the submitted rows (`funnel/effects.rs:271`), and recovery demands the
   number of all targets (`store/receipt_event.rs:464`), so `Store::recover`
   refuses the graph.
2. **A credited lossless frame can be dropped** (`credit_slot`). A slot the
   consumer drained is reserved only when its credit is granted on the next tick
   (`yah-plugin-proc/src/pump/streams.rs:246`). A lossy frame may take it before,
   and the grant is made all the same. The comment at `pump.rs:49` calls this
   impossible. Streams without lossy frames are safe, by proof.

Smaller disagreements between code and comments, met while modelling. The models
do what the code does, and none of them has a run.

- The refusal of `run.close` with success is stored, although settling the blocking
  effects lifts its reason; the comment at `funnel/mod.rs:314` keeps refusals that
  can heal out of the receipts. The same command can then never close the run;
  another can.
- `funnel/mod.rs` answers a rejection whose own commit is uncertain with "The domain
  answer (rejection, no transition) is certain either way". A refusal of that kind,
  or of `cancel.request` for members that are not under its root yet, can lose its
  receipt, be lifted by another command, and then complete under the same key.
  `AnswersAgree` is stated for requests that no row blocks; the others may be told
  both.
- After a post-hoc effect settled, its row holds the observed targets, and
  `effects.rs:504` compares them with the empty declared list: a repeated prepare
  is refused, while the comment above says that the existing intent is returned.
- The comment at `store/mod.rs:234` says that an aborted cursor is never reused,
  while the code, and the test at `store/tests.rs:165`, do reuse it after a restart.
  `NoLateEvent` shows that this is harmless.
- `enter_guest` (`yah-plugin-wasm/src/driver.rs:598`) reads the kill and the fault
  before the store lock is awaited. A caller that passed it enters the guest after
  the deactivation's kill, or after a host panic faulted the activation, while
  `limits.rs:432` says that a call that has not started yet is refused outright. The
  call still ends (`EveryCallEnds`), and the deactivation waits for it.
- An instantiation that fails or is destroyed leaves its log records in the
  observation: `deactivate` calls `release_records` only if there was a store
  (`driver.rs:905`), while `host.rs:136` says that an observation that outlives its
  store must not keep them. `NothingLeftBehind` speaks of the records of a store that
  was live.

## Not modelled

- **Encodings**: wire types, framing, strict decoding, generated schemas and
  bindings, digests, the format of identifiers. They have no state over time.
- **Recovery checks of single rows** (a field that does not parse, a number out of
  range): no writer of the kernel produces what they refuse.
- **The rest of the adapter**: the token registry, the projection of rows and the
  lookup of receipts read the books and change nothing durable.
- **The edges of the process lane**: spawning and the bootstrap pipe, the join timeout
  after which the driver aborts the pump task, the byte and time bounds on draining
  buffered input, the artifact reader, gauges and diagnostics. Streams a host sends
  into a worker call exist in the session and are opened by nobody.
- **Provider normalisation**: one thread translates one stream of events; what
  matters is the data.
- **Test support and tools**: the fake worker, fake effects and fake provider, the
  conformance kit, code generators, guests in `examples/`, `exp001-harness`.
- **Manifests, identity and revisions**: validation of values.
- **What the code does not decide**: whether a closed run may admit units, whether
  a proposed cancellation scope is complete, when a place of a closed
  subscription becomes free. The models do what the code does, and no property
  is stated.
