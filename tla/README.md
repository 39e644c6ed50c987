# Captain Cook: formal models

TLA+ models of the parts of this repository whose correctness depends on the
order in which things happen, with TLC configurations that check them on small
instances and TLAPS proofs that establish the central results for every
instance. Paths below are relative to the repository (`agenten/...`,
`gateway/...`).

## 1. The system

Captain Cook turns a root problem into subproblems, lets a constitution judge
them, assigns them to workers and keeps the whole course in an append-only
ledger. A second, newer half delivers *work batches* through an HTTP gateway
that owns a MariaDB ledger. The two halves share no state.

### 1.1 Supply-chain runtime (`agenten/`)

| Component | State | Operations |
|---|---|---|
| Event bus (`runtime/event_bus.py`) | subscriptions | `publish` awaits every handler, one after the other, inside the publisher's task |
| Decomposer (`decomposition/decomposer.py`) | none | asks an LLM for children of a problem and proposes them one by one; also answers escalations |
| Gatekeeper (`constitution/gatekeeper.py`) | none | judges each proposal, publishes a verdict *without* a block index |
| Ledger Recorder (`ledger_bridge/recorder.py`) | inbox, blocks, status index, budget counters, writer task | handlers only enqueue; the writer loop applies one item per turn; a legal acceptance is published again *with* its block index |
| Spawn Coordinator (`spawning/coordinator.py`) | its view of circuits, capacity by counting blocks | assigns accepted subproblems, sleeps off capacity and open circuits, retries |
| Worker fleet (`workers/base.py`) | none | executes inside the chain that published the assignment, sends heartbeats, reports |
| Supervisor (`supervision/supervisor.py`) | attempts, assigned types, circuits | grants a retry or escalates, opens and closes circuits |
| Reaper (`supervision/reaper.py`) | reaped leases | polls stages for leases that ran out |
| Startup recovery (`ledger_bridge/recovery.py`) | none | walks over unfinished blocks before the writer starts |
| Pipeline (`orchestration/pipeline.py`) | budget rejections counted | wires the subscriptions in an order that matters; submission, start, `wait_until_terminal` |

How they interact: `publish()` calls handlers inline, so one event runs as a
*chain* of nested calls until something suspends. Four tasks start chains: the
client, the writer loop, the Reaper and recovery. Because the Recorder's
handlers only enqueue, the ledger lags behind the agents; and because the
writer publishes acceptances itself, a worker may execute inside the writer's
own turn, during which the ledger cannot advance at all.

What is hard here: interleavings of four tasks at each `await`; the ledger that
is read (capacity, leases, stages) while events that would change it are still
queued; a process that dies between two saves of one turn; redelivered, late
and overtaking reports; deferrals that sleep inside a chain.

What makes it correct, component by component:

- *Recorder*: no illegal stage change; a finished block is never touched again;
  owner and lease change only on a legal assignment; the index agrees with the
  blocks; budgets are counted exactly, through crashes; stop drains the inbox.
- *Chains*: one task per subproblem; nothing runs that was not admitted; every
  outcome can be charged to an agent type; nothing is counted twice; everything
  that was proposed comes to rest.
- *Supervisor*: its maps hold only what is in progress; bounded retries.

### 1.2 Delivery through the gateway (`gateway/`, `agenten/delivery/`)

| Component | State | Operations |
|---|---|---|
| Batch ledger (`gateway/store.py`, `gateway/contracts.py`) | one block list per batch, delivery events, the global block index | claim, heartbeat, approve, append evidence or completion, review, recover; each replays the list (`project_batch`) inside one transaction |
| Codex runs (`delivery/codex_runs.py`, `delivery/worker_recovery.py`) | none of its own | record start and end of external sessions as delivery events; end sessions whose process is gone |
| Recovery service (`delivery/recovery.py`) | none | scans pending batches, prepares and records recovery decisions |
| Minibook sync (`delivery/projector.py`, `delivery/projection_cursor.py`, `scripts/rebuild_minibook_projection.py`) | SQLite: two claim tables, processed events, heads of subjects, quarantine, cursor, rebuild marker | pages through the gateway's feed, claims an event, writes it to Minibook, commits, acknowledges, checkpoints; a full rebuild resets the store, replays the feed and reconciles Minibook with it |
| Minibook's projection routes (`minibook/src/main.py`) | one post per event, one head per subject | upsert and retire |
| Todo ledger (`delivery/ledger.py`) | SQLite tables | predecessor of the batch ledger, kept to import old data |
| Portal, other runtime commands | SQL tables | single-transaction operations, each with an idempotency key |

What is hard here: leases that expire while the work goes on; requests that
read the clock, then wait for a lock; lost replies that carry a token; late
events of an earlier claim; evidence of a lost iteration; a counter that spans
iterations. What makes it correct: one iteration at a time; every lost claim
closed before the next; success only on evidence of the current iteration; the
failed-review cap; final states that stay final; a lost claim that can always be
recovered.

The sync script is run by hand or by a timer, and nothing keeps two runs apart.
What is hard there: a claim of 30 seconds around a remote call of up to 60; a
request executed after its sender gave up; an event called stale on the strength
of a claim that may fail; a rebuild under a running incremental sync. What makes
it correct: nothing is called processed that Minibook does not have, Minibook only
moves forward, and the cursor passes no version that is lost.

### 1.3 Paid model calls (`agenten/provider_proxy/`)

| Component | State | Operations |
|---|---|---|
| Provider budget proxy (`provider_proxy/service.py`, `repository.py`) | SQLite: one reservation per call, usage receipts, one finalization | create (plain, background, streamed), read, cancel, finalize |
| Gateway's side (`gateway/store.py`) | settlements, closed reservations, results | authority check, one settlement per resume or one per benchmark call, cost settlement, result |
| Agent runtime (`agent_runtime/service.py`, `runtime_entrypoint.py`) | none | authorizes a command, executes it, has the proxy finalize, settles the cost, records the result |

Every call books its worst case before it leaves, and is charged its true cost
or forfeits the whole. What is hard: handlers that interleave at every `await`
over one table; answers that are older than the row they settle; streams nobody
reads; a final report that is repeated, lost half-way, or made again after a
restart. What makes it correct: the ceiling holds; each call is booked truly or
whole; no reservation is left that no handler owns, unless one was lost; the Gateway keeps the
report that was claimed.

### 1.4 The Agent factory (`agenten/agent_factory/`, `gateway/store.py`)

| Component | State | Operations |
|---|---|---|
| Gateway's side (`gateway/store.py`) | the log of evidence blocks, leases, workflow artifacts (evidence of team runs, evaluation, feedback), budget events | takes a block, a lease, an artifact or a reservation, each in one transaction that first replays the whole log |
| Lifecycle (`state_machine.py`, `service.py`, `release_gate.py`) | none: functions of the log and the artifacts | which block may follow, which action is next, what a release needs |
| Runner (`production_dispatch_runner.py`, `orchestration.py`, `gateway/agent_factory_dispatch_runner.py`) | the lease it was given | reads the next action, ensures a lease, dispatches, sends the block |
| Real-case tester (`candidate_evaluation.py`, `team_execution.py`) | none | makes the paid runs, records their evidence one by one, then one block for all |
| Replay store (`hermes_cli.py`) | one file per run: pending, completed, failed | claim, complete, fail, abandon, retry under an authority |
| Captain (`factory_improvement_authority.py`, `workflow_promotion.py`, scripts) | authority files | requests improvements and revalidations, authorizes retries, promotes, escalates |
| Capability resume (`gateway/capability_resume_repository.py`, `gateway/store.py`) | budget events of the job | once the job is promoted: reserves what is left of its budget, settles what the resume cost or releases it |

Nothing keeps two runners, or a runner and Captain's scripts, apart. What is hard:
each decides on a log that another may extend before the block arrives; leases lapse
under paid runs; a runner stops between a claim, the money and the evidence; rows are
written one by one and the block last; the log is replayed against reviews and
reservations that come later, those of a capability resume after the end of the job
included. What makes it correct: a paid run is made once; the block of a test says what
the rows say; what was taken into the log stays acceptable (a resume breaks this for the
promotion, section 5); a promotion rests on one complete, successful test with no
reservation of a team run open.

### 1.5 Capability assembly (`gateway/capability_assembly_*.py`, `agenten/demo_orchestrator/`)

| Component | State | Operations |
|---|---|---|
| Controller (`capability_assembly_controller.py`, `_contracts.py`) | none: a history of checkpoints | submit; advance by one slice: claim, start, effect, checkpoint, receipt; reconcile a slice somebody else started |
| Repository (`capability_assembly_repository.py`) | checkpoints by revision, effect receipts, read-backs | appends a checkpoint above the revision the caller read; records an outcome once |
| Adapters (`capability_assembly_production.py`, `_bootstrap.py`) | none | perform the paid effect of a slice and record its receipt before the controller sees it |
| Demo client (`client.py`) | a state file | run, resume: names an operation after the progress it has read, asks for one slice, restarts the Runtime at one checkpoint |

What is hard: the handler of a client that timed out goes on; a slice takes three
checkpoints and two tables, and the Gateway may stop between any two of them. What
makes it correct: no paid effect twice; an effect that is recorded counts; every
history that is written can be read; the operations form one line.

`PROJECT.json` lists all components with their files, and every hazard with the
line where it bites and the properties that cover it.

## 2. Modules

| Module | Models | Lines to read beside it |
|---|---|---|
| `BlockLifecycle` | the stage graph, and what each Recorder handler makes of one block, as operators | `stage_machine.py`, `recorder.py` handlers |
| `SubproblemPromise` | abstract specification: proposed once, admitted or declined once, ends at most once | - |
| `LedgerRecorder` | inbox, writer loop, budget, index, start/stop, crashes between saves | `recorder.py`, `budget.py`, `query.py` |
| `LedgerRecorder_proofs` | theorems about it | - |
| `Circuit` | the rolling window and states of one circuit, as operators | `supervisor.py` |
| `SupplyChain` | the pipeline: all agents, four tasks, expiry, crash and recovery; composes `BlockLifecycle` and `Circuit` | `coordinator.py`, `supervisor.py`, `reaper.py`, `recovery.py`, `base.py`, `gatekeeper.py`, `decomposer.py`, `pipeline.py` |
| `SupplyChain_proofs` | theorems about it | - |
| `BatchLedger` | one work batch behind the gateway, its sessions, its clock and the requests under way | `gateway/store.py`, `gateway/contracts.py` |
| `BatchPromise` | abstract specification: approved, held in rounds, providers inside a round, closed once on the evidence of the round | - |
| `BatchLedger_proofs` | theorems about it | - |
| `Projection` | the sync script's runs, its store, the gateway's feed and Minibook's projection routes | `projector.py`, `projection_cursor.py`, `rebuild_minibook_projection.py`, `registry_feed.py`, `minibook/src/main.py` |
| `Projection_proofs` | theorems about it | - |
| `BudgetAccount` | abstract specification: an account with a ceiling; a call books, then is charged or forfeits, once | - |
| `ProviderBudget` | the proxy of one command, its table, the provider, the Gateway's settlements and the command's execution | `provider_proxy/service.py`, `repository.py`, `gateway/store.py`, `agent_runtime/service.py` |
| `ProviderBudget_proofs` | theorems about it | - |
| `FactoryJob` | one job of the Agent factory: the Gateway's log and tables, runners, the tester with its replay store, Captain's scripts | `state_machine.py`, `service.py`, `gateway/store.py`, `candidate_evaluation.py`, `team_execution.py`, `hermes_cli.py`, `release_gate.py` |
| `FactoryJob_proofs` | theorems about it | - |
| `CapabilityAssembly` | one assembly: checkpoints, receipts, handlers of advance, the demo client | `capability_assembly_controller.py`, `_repository.py`, `_production.py`, `demo_orchestrator/client.py` |
| `CapabilityAssembly_proofs` | theorems about it | - |
| `MCLedgerRecorder`, `MCSupplyChain`, `MCBatchLedger`, `MCProjection`, `MCProviderBudget`, `MCFactoryJob` | constants, symmetry and, for a race, a later initial state for TLC | - |

**LedgerRecorder** puts the Recorder against the worst bus its contract allows:
any event, any order, any number of times. `inbox` is `_inbox`; `blocks` is the
block per subproblem, in memory and on disk alike, since each `add_block` and
`update` saves; `index` is the status index of `query.py`; `cap`, `saved` and
`consumed` are the budget as written on the problem block, its persisted count,
and the counter of `InProcessBudgetLedger`. Each `Apply...` action is one turn of
the writer with its whole handler. `CrashInProposed` and `CrashInCompleted` cut a
turn at its saves; `Crash` falls between turns. `lost` is history: reservations
whose count a crash left unpersisted. Event ids are left out: a redelivery the
Recorder still remembers changes nothing, one it has forgotten is a further
delivery.

**SupplyChain** runs the same handlers (from `BlockLifecycle`) under the real
wiring. `chain[t]` says where the chain of task `t` is suspended: executing,
sleeping, waiting for the judge or the Decomposer, or not at all. A task whose
`pc` is `"turn"` holds the event loop: asyncio is cooperative, and neither a
`put` on the unbounded inbox nor a `get` from a non-empty one suspends. `scan` is
the walk of the Reaper and of recovery over stages: the list of a stage is read
once, the lease of a block when the walk reaches it. `leases` and `expired` stand
for time: leases all last equally long, so they run out in order. `BlockLifecycle` is
instantiated with `Lease <- Nat \ {0}`: a lease is the number under which it was
handed out. `Crash` keeps the ledger and nothing else, and the new process begins
with recovery.

**BatchLedger** keeps the value that `project_batch` would compute: each block is
absorbed once, by the operator named after it (`Claimed`, `Validated`,
`Reviewed`, `Recovered`, `Done`), and the part that depends on the time of the
request is `Status`. A replay at a time before a recorded recovery raises
`ValueError`, which `Replays` models. Transactions lock the batch, so requests are
single steps; but claim, heartbeat, approve, recover and review read the clock
*before* they wait for the lock, so a request in `waiting` is served with the
time it read. Evidence, completion and delivery events read the clock after the
lock. Requests and the replies that carry tokens may be lost. `started` and
`finished` are the Codex session events; `facts` is history.

**Projection** lets any number of runs of the script overlap: `runs[p]` is the
program counter and page of run `p`, an incremental sync or a rebuild. The store
is shared (one SQLite file, one action per transaction): `eventClaims` and
`subjectClaims` are the two claim tables, `processed` and `heads` what was committed,
`quarantined` what was set aside, `cursor`, `versioned` and `rebuilding` the checkpoint,
the contract version and the rebuild marker. `feed` and `acks` are the gateway's, `rows`,
`open` and `remoteHeads` Minibook's. `requests` are upserts under way: a remote upsert is in
two steps: the request is in flight, and `Serve` executes it, possibly after
its sender has died or lost its claim (`Abandon` turns it into a late request).
Time is `ExpireClaim` and `Overrun`: a claim may lapse at any moment, and a run may
notice too late. `print` is the fingerprint of an event; `Rerender` is the gateway
rendering one anew, which changes its fingerprint and not its version: the store and
Minibook then refuse the event, and the gateway an acknowledgement (`Matches`).

**ProviderBudget** is one asyncio process, so an action is what runs between two
awaits. `creates[c]` and `polls[p]` are handlers suspended at an await (counting
tokens, waiting for the provider, posting to the Gateway); `rows`, `usage` and
`claim` are the tables, which survive `Crash`. The read of the table that derives
the output limit and the reservation follow each other without an await, and are
one action (`Admit`). `mode` is the kind of command: a resume reports once, through
`finalize`; a benchmark call is posted by itself after its usage is booked. A
unit of money is one output token and a usage is its cost, 0 when the proxy
cannot use what was reported. A post has four outcomes: it reaches the
Gateway or not, its answer comes back or not. `LoseHandler` is the end of a create by an
exception it does not catch, which leaves its row reserved: a cancelled handler, an event
stream that cannot be read, a receipt that cannot be written, a streamed body the server
never iterates.

**FactoryJob** has no lifecycle variable: as in the code, `Phase`, `Attempt` and what may
follow (`Applies`) are functions of `blocks`. `runner[r]` is what a runner remembers
between two calls: the action it planned, its lease, the evidence it has collected.
`Plan`, `Ensure` and `Dispatch` are three reads of the same log, and the log may grow
between any two of them. `claims` is the replay store, one record per run (`Key`:
attempt, run number, and for a revalidation the request it answers); `executions` are the
rows the Gateway keeps of runs, by attempt and in the order they were recorded, which
reach it later and one by one. `open` and `usage`
are what the budget events say: which runs have a reservation that is neither settled
nor released, and how often a run went on to spend. `drafts` are blocks a script of
Captain decided on and has not sent. Time is `lapsed`: a lease may lapse at any moment, and
a lease records how many had lapsed when it was issued, so that a successor can be
told from a rival. `resume` is what a capability resume did to the budget of the promoted
job: it reserves (`AuthorizeResume`, in the transaction that reads the log), then settles a
cost or releases (`SettleResume`, which does not read the log). The release gate asks for
both `open` and `resume` (`ReleaseReady`), and `Readable` is whether the log can be applied
today. Amounts, candidates and assertion ids are left out.

**CapabilityAssembly** keeps the whole `history`, because every call validates all of it:
`Readable` is `_validate_history`, with `Shape` for one checkpoint and `Follows` for
two. `handlers[h]` is a handler of advance: `at` is the revision whose checkpoint it
holds, and each step is one transaction (`Lookup`, `Claim`, `Scope`, `Record` and
`Reconcile` read, `WriteClaim`, `Start`, `AppendSlice`, `AppendReconciled` and `Close`
append) or the awaited `Effect`. The steps between two awaits cannot interleave within one process
of the Gateway; the model lets them, as two processes over one database would, and
the compare-and-swap (`Write`) is all that keeps them apart. An authority is abstracted to
whether the controller accepts it, of which `receipts` knows nothing:
the adapter records first. `effects` is history: how often each effect was asked for.
`client` is the demo client, `restarted` what its state file remembers; `Run` starts that
file anew, `Resume` keeps it. `GiveUp` is a time-out, which leaves the handler behind,
`Stop` the end of the Gateway's process.

## 3. Runs

Each run takes between a second and about three minutes with two TLC workers.

| Run | Shows | States |
|---|---|---|
| `recorder` | type correctness, budget accounting, index, trouble fields, and the refinement of `SubproblemPromise` | 817 538 |
| `chain_retries` | gated execution, single counting, one chain per subproblem, attribution, no stale supervision: retries, open circuits, expiry, escalation, crash | 2 084 366 |
| `chain_calm` | liveness: every subproblem settles | 45 397 |
| `batch` | one iteration at a time, and the refinement of `BatchPromise` | 2.1 million |
| `batch_stranded` | *violated*: see section 5 | |
| `projection` | two overlapping runs of the sync: claim tables agree, committed means mirrored, nothing skipped, Minibook only advances | 3 626 596 |
| `projection_alone` | one run at a time: a rebuild converges, and the cursor reaches the end (liveness) | 73 517 |
| `projection_dropped` | *violated*: see section 5 | |
| `provider` | ceiling, single payment, true or whole booking, owned reservations, the claimed report, and the refinement of `BudgetAccount` | 1 307 157 |
| `factory` | one runner and Captain, two attempts, then a capability resume: a promoted job has earned it | 188 307 |
| `factory_race` | two runners and Captain over a second test, its review, the promotion and a resume: what the log took it takes again, but for the promotion under a resume; a paid run is made once, block and rows agree | 2 490 354 |
| `assembly` | effects asked for once, readable history, one line of operations, restart before dispatch; liveness: a recorded effect counts | 40 690 |

Bounds, and why they suffice:

- `recorder`: two subproblems of one root compete for one budget, with a
  registered and a default cap, one agent with two leases and two results (so
  that a swapped owner or result is visible), one delivery at a time in the
  inbox beside what turns publish themselves, and at most one lost reservation.
  Interference is between two blocks or between one block and the counters, and
  any history of deliveries is still explored one by one. Symmetry is over the
  subproblems, which no action tells apart.
- `chain_retries`: four subproblems of one agent type with a budget of three, so
  that one proposal is turned away while others run; two slots, one retry each,
  two leases that run out and two crashes: enough for recovery, Reaper, writer
  and client to hold a chain each. The circuit opens at more than half failures
  in a window of two, the default threshold: a first failure opens it, one after
  a success does not.
- `chain_calm`: five subproblems in two generations, the first of them
  unroutable. `MaxInFlight` is not below `MaxSub` and the circuit never opens:
  liveness is checked where waiting for capacity or for a circuit does not already
  refute it (section 5). No expiry and no crash: liveness after a crash is refuted by
  recovery itself, which only counts RETRYING and VERIFYING blocks.
- `batch`: two workers, two sessions, two reviews and one artifact, a claim that
  lasts two ticks, a heartbeat one, a cap of two failed reviews, one waiting
  request, and four times. A claim, its expiry, its recovery and the next
  claim fit in. `ClaimBound` 3 is never reached: the defect `batch_stranded`
  shows stops the code at two claims. The proofs have no such limits.

- `projection`: two runs, each free to be incremental or a rebuild and to start
  again; a feed that grows from one event to two, of one job or one build, read
  in one page; one crash or request given up on, and one event rendered anew. The
  claim protocol is about a run that holds an event, one that
  takes it over, and a request whose sender is gone: two runs and the late request
  are all three. The proofs have none of these limits.
- `projection_alone`: one run at a time, two crashes, so that a run can find what
  two dead ones left. Overlapping runs are excluded because they refute both
  properties: an incremental run may complete an event while a rebuild that read
  a shorter feed retires its post; the event is a duplicate ever after and its
  acknowledgement is refused for ever.
- `provider`: two calls with two payloads, one reader, one fault (a crash, a lost handler, a
  lost post, a client or a runtime that gives up). A ceiling of 5 with an input of 1 and
  at most 2 output tokens makes the first reservation 3 and limits the second by what is
  left; the costs 1 and 4 are one within and one above a reservation; a clock
  of two ticks lets the context expire between request and answer. Symmetry is over
  calls and payloads.

- `factory`: a release job of two runs and two attempts, so that there is a failed
  attempt before the promoted one; one crash or infrastructure failure, one
  revalidation, one script at a time. One runner: who else is at work matters
  to the claims and the rows, which `factory_race` is about.
- `factory_race`: two runners that start when the build of the second attempt has passed
  (`MCInit`, a state the job is really in: the first attempt was tested, failed and was
  improved, and all its leases have lapsed), so that the records of an earlier attempt are
  there; two runs, one authorized retry, two more leases and both may lapse, one draft. Two
  runners and lapsed leases give a claimant, its rival, and its successor. The instance goes on
  to the promotion and a capability resume. No crash in this one: for the others a crashed
  runner is one that never goes on, which needs no step. Symmetry is over the runners.
- `assembly`: two handlers, two input slices and two faults. Two input slices, so that there is
  one that follows another and one that is followed by the resume, whose three slices are
  all there; the other nineteen are stages like these. With two faults a request can be given
  up and its retry meet the handler left behind, or a stop. There is at most one more handler than
  faults, and a third would find what the second finds: a started slice.

`CHECK_DEADLOCK FALSE` where the system really may stop: a pipeline with all work
settled, a batch that is closed when the clock reaches its bound, a command that
is done or has lost its authority, a factory job that is complete or waits for
infrastructure. `recorder` and the projection runs check for deadlock.

Every property of a passing run has a mutant of the code's definitions that
breaks it (operators marked *Faulty* in the modules); the specifications
themselves never use these.

### Fairness

`FairSpec` of `SupplyChain` assumes weak fairness of each task's `Resume`, of the
writer's turns, of the walks and of `Start`. The code justifies it as follows:
asyncio runs every ready task; `sleep` ends; an LLM call and `execute()` are taken
to return (a hung `execute()` is the Reaper's case, and is modelled by expiry in
the safety runs). Nothing is assumed of `Crash`, of leases running out, of
heartbeats or of submission. `LedgerRecorder`, `BatchLedger`,
`ProviderBudget` and `FactoryJob` state safety only.

`FairSpec` of `Projection` assumes weak fairness of each run's steps while it runs,
of starting runs (the sync is scheduled again and again), of Minibook serving
requests and of the expiry of abandoned claims (it compares with the clock).
Nothing is assumed of crashes, late requests, new events or rebuilds.

`Spec` of `CapabilityAssembly` assumes weak fairness of each handler's steps (asyncio runs
it on, and an effect that is awaited ends or fails) and of `Drive`: the client goes on,
and the operator starts one that has stopped again, by `resume` or by `run`. Faults
are bounded and not owed.

## 4. Proofs

`LedgerRecorder_proofs` holds, for all sets of subproblems, roots, agents, leases
and results, all caps and any inbox length:

| Theorem | Property |
|---|---|
| `TypeCorrect` | `TypeOK` |
| `BudgetAccountedAlways`, `BudgetRespectedAlways` | `BudgetAccounted`, `BudgetRespected` |
| `IndexCorrect` | `IndexInLockstep` |
| `ResultsVerified`, `TroubleCurrent` | `ResultOnlyWhenVerified`, `TroubleIsCurrent` |
| `OutcomeFinal`, `OwnerCorrect`, `StopDrainsAlways` | `OutcomeIsFinal`, `OwnerChangesOnAssignment`, `StopDrains`: action properties, proved and in no run |
| `PromiseKept` | `KeepsPromise`, the refinement |

The argument: lemmas about the operators of `BlockLifecycle` say what each makes
of a block. `MoveStep` then reduces the thirteen turns and three crashes to three
cases: no block changes, one existing block makes a `BlockMove`, or one block is
written for the first time. Per-block properties follow from `BlockMove` alone
(`MoveSound`). Budget accounting is inductive by itself because it counts `lost`:
without that history variable a crash between `add_block` and the persisted count
breaks it, which is exactly what `recorder_crash.cfg` shows. The index is inductive
because every move removes and adds one entry (`WriteInLockstep`). For the
refinement, a move changes the phase of one subproblem by one step of the
abstract specification or not at all (`MovePromise`).

`BatchLedger_proofs` holds, for any number of workers, sessions, reviews and
waiting requests, and any lease times:

| Theorem | Property |
|---|---|
| `BatchTypeCorrect` | `TypeOK` |
| `OneIterationAlways` | `OneIterationAtATime` |
| `EarlierClaimsClosedAlways` | `EarlierClaimsClosed` |
| `BatchPromiseKept` | `KeepsPromise`, the refinement |
| `SuccessEarnedAlways` | `SuccessEarned` |
| `FailureCapAlways` | `FailureCap` |
| `TerminalFinalAlways` | `TerminalFinal` |

The inductive invariant `IInv` adds what the properties need of each other. A
claim is *closed* when its number is among the recovered iterations. `ClaimShape`:
a closed claim has no holder, an unclosed one is held by its own token and the
list itself never says pending, and a closed one leaves the batch pending or ended. So
whatever old time a claim request read, the
batch it finds pending is either unclaimed or closed (`ClaimableFacts`).
`SessionShape`: a closed claim has no active session, so the next one starts with
none. `Evidence`: a flag of the projection stands for a fact of this iteration.
For the refinement, a batch is *held* as long as it has a holder and has not ended.
Whatever a request or a token shows at its time, `LiveHeld` and `HeldFacts` say that it
meets the batch in a round when it validates, reviews, finishes or starts a session, and
outside one when it claims; `Closes` gives the end of a round its quiet sessions, and
`QuietUnlessHeld` its beginning. `EarlierClaimsClosed`, `SuccessEarned`, `FailureCap` and
`TerminalFinal` are proved and in no run.

`Projection_proofs` holds, for any feed, any sets of subjects, any number of
overlapping runs and rebuilds, any page size and any number of faults:

| Theorem | Property |
|---|---|
| `TypeCorrect` | `TypeOK` |
| `MirrorOnlyAdvances` | `MirrorAdvances` |
| `ClaimsStayPaired` | `ClaimsPaired` |
| `CommittedStaysMirrored` | `CommittedIsMirrored` |
| `HeadsStayBehind` | `HeadsBehind` |
| `CursorSkipsNothing` | `NothingSkipped` |

The inductive invariant is `Good`, the conjunction of five parts. `Typed` adds to
the types that what a run holds is in the feed. `MirrorOK` is about Minibook alone:
a head is the version of some post, and no post is above its head; every upsert
keeps it, whoever sent it and however late, which is why late requests do no harm.
`StoreTrue` is about the store: its heads are behind Minibook's, what it calls
processed is there. `RunsTrue` carries the same through the local state of a run
(`Truth`): from the answer of an upsert to its commit, from the events of a page to
the checkpoint. The step that needs most is the claim that calls an event stale
on the strength of another claim: the claimed event is still ahead of every cursor
this run may write, or the run gives its page up (`Covered`, `Skips`, and `flaw` for
an event that was rendered anew). `Grown` says in one place what other runs can
do to feed and mirror meanwhile, so that each action of one run is a lemma and the
others' steps are one.

`ProviderBudget_proofs` holds, for any finite set of calls, any payloads and pollers,
any ceiling, prices and limits, and any number of crashes:

| Theorem | Property |
|---|---|
| `TypeCorrect` | `TypeOK` |
| `TrueOrWhole` | `BookedIsTrueOrWhole` |
| `CeilingHeld` | `BudgetHeld` |
| `TableIsAccount` | `AccountSpec`, the refinement |
| `CallsPaidOnce` | `PaidOnce` |
| `ReservationsOwned` | `EveryReservationOwned` |
| `ReportClaimed` | `ReportIsClaimed` |

`TableMoves` reduces every step to five things that can happen to the table: nothing, a
booking, an attachment, a forfeit, or a recording of what the provider completed
(`TableStep`). The last one needs `PollsTrue`: an answer a reader still holds is what
the provider says, because a completed call never changes. Sums are cardinalities of
sets of units, so that how a sum changes with one call (`SumChange`) follows from the
library's facts about finite sets, and no induction over calls is needed. The ceiling
and the refinement both follow from `MoneyMoves`, which says what a step of the
table is in the account. `ClaimHeld` strengthens `ReportIsClaimed`: the claim itself is
true of the table, and what is being posted is the claim.

`SupplyChain_proofs` holds, for any number of subproblems and agent types, any retries,
slots and budgets, any number of leases that run out and of crashes:

| Theorem | Property |
|---|---|
| `ChainTypes` | `TypeOK` |
| `OneChainAlways` | `OneChainPerSubproblem` |
| `GatedAlways` | `GatedExecution` |
| `OutcomesAttributedAlways` | `OutcomesAttributed` |
| `SupervisionCurrent` | `NoStaleSupervision` |
| `CountedOnceAlways` | `CountedOnce` |

The Coordinator never looks at the stage of the block it assigns, so that two tasks do
not work on one subproblem rests on where each task finds its work. That is the
invariant. `ChainsApart`: the client's chain only judges and decomposes, and recovery's
exists before the others. `StagesFit`: the writer's chain works on a block that has just
been accepted and cannot move while it does, the Reaper's only on one that was assigned
before; a block has one stage, so the two chains never meet. `Routed`: what is
assigned has a capable agent. `Supervised`: the Supervisor's maps hold what is in work.
`ProposedOnce`: a subproblem without a block is on one list of candidates at most, or in
the inbox once, or was turned away once, and never two of these; it makes the count of
rejections and of terminal blocks disjoint. The proof is per segment, not per action:
every step of a task is a stroll (it suspends or ends where it was), a take (it begins to
work on a subproblem it may have) or a leave, and `Calm` steps propose nothing, so that
each part of the invariant has three or four cases and not forty.

`FactoryJob_proofs` holds, for any number of runners, attempts, runs, retries, leases
that lapse, scripts and faults:

| Theorem | Property |
|---|---|
| `FactoryTypes` | `TypeOK` |
| `EffectOnceAlways` | `EffectOnce` |
| `BundleIsTableAlways` | `BundleIsTable` |
| `LogReplaysAlways` | `LogReplays` |
| `PromotionEarnedAlways` | `PromotionEarned` |

The invariant has three parts that lean on each other. *The log* (`LogOK`): it is
`Chained`, that is each block has a phase and an attempt that follow, and what the
Gateway asked of it when it came (`Earned`) is true of the reviews, rows and
reservations of today; an attempt goes `Forward` only, so it has one first test
(`TestedOnce`); and a block is `Witnessed` by the rows: a first test by the first rows of
its attempt, a revalidation by a flaw in them. *The rows* (`RowsInOrder`): the first
`RequiredRuns` rows of an attempt are its first test, run by run, the later ones are
revalidations, and paid evidence is `Backed` by the replay store. Two testers of one
attempt cannot mix their rows, because a row that is there already must be the very
evidence the other brings, and the replay store gives both the same. *The runners*
(`RunsOK`): what a runner has recorded is in the table (`Made`); whoever claimed a run
holds it (`ClaimHeld`) and alone (`Exclusive`). `Authorized` is stronger than
`EffectOnce`: a run that nobody has claimed, or whose claimant has not spent yet, has a
grant for its last failure already. A promotion then follows from the log alone: it comes
after a review, a review after a test that passed; the release demanded that all rows be
good, so nothing was flawed, nothing revalidated, and the only test is the first.
`LogExtended` (a block is appended) and `LogStays` (a row, a review or a reservation of a
team run changes) are the two lemmas on which `LogReplays` rests. What the invariant keeps of
a promotion is `RunsSettled`: all the release asked for except that no resume is
under way. No team run can take that away again, since none reserves once the job is
promoted (`Spend` reads the log first); a capability resume does take `resume = "none"`
away (`ResumeStep`), and that is the exception `LogReplays` states: one block, the promotion,
and only while a resume has a reservation or a cost.

`CapabilityAssembly_proofs` holds, for any number of handlers, input slices and faults:

| Theorem | Property |
|---|---|
| `AssemblyTypes` | `TypeOK` |
| `EffectsOnce` | `SliceOnce` |
| `HistoryStaysReadable` | `HistoryMonotone` |
| `AdvancesFormOneLine` | `OneLine` |
| `RestartedBeforeDispatch` | `RestartBeforeDispatch` |

`Written` says what histories there are: each checkpoint is `Sound` by itself (its
advances are numbered 0, 1, 2, ... and its counters agree) and `Follows` the one before.
A handler may hold an old checkpoint; `Fits` says what it `Knows` all the same, and that
the slice it started is `Fenced`: begun or done in the newest checkpoint, which every later
one keeps. So the effect of a slice is asked for by the handler that started it and by no
other (`Apart`), a checkpoint counts a slice as done only when it was `Paid`, and a
receipt exists only of what was paid (`RowsPaid`). A handler that was overtaken fails at the
compare-and-swap, since its checkpoint is not the newest. `ClientKnows` and `Restarts` tie
the client's state file to the history.

Assumptions: only the named ASSUMEs of the modules (`RecorderAssumption`,
`NullAssumption`, `CircuitAssumption`, `ChainAssumption`, `BatchAssumption`, `ProjectionAssumption`,
`ProviderAssumption`, `FactoryAssumption`, `AssemblyAssumption`), which TLC evaluates in the runs.

Only model-checked: the liveness properties (`AllSettle` of `SupplyChain`,
`RebuildConverges` and `CaughtUp` of `Projection`, `ReceiptCompletes` of `CapabilityAssembly`) and, in configurations beside
the runs, `NoIllegalReports` and `ReplannedOrDone`. Liveness and ENABLED are out of reach
of the prover, and so is induction over data; no model uses a recursive operator. Every
safety property of a run that is meant to hold is a theorem.

## 5. Where code and documentation disagree

Each of these has a run that refutes the documented property.

- `batch_stranded` / `ExpiredIsPending`: `recovery_recorded` outlives the claim
  it closed, so the second lost claim of a batch never expires and the batch is
  stranded. `docs/architecture/04-delivery-minibook.md` reports the same from
  reading the code.
- `projection_dropped` / `PromotionShown`: a promotion and the setup revisions of its
  job share a subject but are numbered by two counters; a promotion after a mirrored
  setup is stale, goes to quarantine and is never shown.

Further configurations that TLC refutes in seconds (`tlc -config X.cfg M`):

- `factory_next.cfg` (`MCFactoryJob`), `FailureHasNextStep`: when the last attempt fails its
  test, the next action is an improvement, which the ceiling of attempts refuses
  (`agent_factory/state_machine.py:156`), and an escalation may not follow test evidence:
  the job stands still. The skill `autogen-agent-factory/SKILL.md:18` says "Stop after
  attempt five and escalate".
- `factory_resume.cfg` (`MCFactoryJob`), `Readable`: a capability resume makes the promoted job
  it belongs to unreadable. It requires the job to be promoted and reserves on the budget of
  that job (`gateway/capability_resume_repository.py:522`, `:454`), but the promotion in the
  log is judged anew by the budget of today at every replay: an active reservation is
  refused (`agent_factory/release_gate.py:166`), and after settlement a cost without a usage
  receipt (`:203`), and then `state_machine.py:203` raises. From then on the job's own
  route, the next resume and every other caller of `_factory_projection`
  (`gateway/store.py:4415`) fail; only a release, or a resume that cost nothing, makes the job readable
  again. `docs/architecture/05-agent-factory.md:43` says that the projection is
  rebuilt before every append, and nowhere that it may fail for a job that is done.
- `assembly_closing.cfg` (`CapabilityAssembly`), `AdvanceCloses`: the Gateway stops after the
  checkpoint of a slice and before the receipt of its advance. The client that resumes reads
  the new progress and names a new operation after it; the controller refuses it,
  "another bounded advance is still active", and nobody names the old operation again
  (`capability_assembly_controller.py:1434`, `client.py:169`). The controller's head comment
  promises that "a transport retry resumes only that operation's remaining slice
  allowance", which is true of a client that repeats its operation; this one does not.
- `chain_circuit.cfg` (`MCSupplyChain`), `CircuitLetsGo`: an open circuit turns half-open
  only when an outcome is recorded, and work that waits for the circuit produces none
  (`supervision/supervisor.py:80`).
- `projection_marker.cfg` (`MCProjection`), `ResetIsDetected`: any checkpoint clears the
  rebuild marker, also that of an incremental run that overlaps the rebuild; when the
  rebuild dies its half-filled store passes for a complete one
  (`delivery/projection_cursor.py:393`).
- `provider_settlement.cfg` (`MCProviderBudget`), `FailureForfeits`: a benchmark call is
  booked at its cost before it is posted to the Gateway; when the post fails, consuming
  the whole reservation is refused, and the proxy's table and the Gateway disagree for
  good (`docs/provider-budget-proxy.md:46`).
- `recorder_crash.cfg` (`MCLedgerRecorder`), `BudgetCrashSafe`: a block is added two
  saves before the count is persisted; a crash in between admits one block too many
  (`decomposition/budget.py:35` asks for crash safety).
- `chain_ledger_first.cfg` (`MCSupplyChain`), `LedgerBeforeWork`: the worker executes
  while its block says ACCEPTED or RETRYING, since assignment and work run inside one
  chain (`ledger_bridge/recovery.py:6`).
- `chain_rerun.cfg` (`MCSupplyChain`), `FinishedWorkNotRedone`: a completion queued
  behind the writer's own chain does not stop the Reaper; finished work is assigned
  again (`supervision/reaper.py:3`).
- `chain_capacity.cfg` (`MCSupplyChain`), `CapacityFreesUp`: the writer sleeps off a
  full type while the completion that frees it waits for the writer
  (`spawning/coordinator.py:44`).
- `batch_lease.cfg` (`MCBatchLedger`), `HeartbeatsExtend`: the first heartbeat (30
  minutes from now) replaces a lease of 90 minutes.
- `provider_finalize.cfg` (`MCProviderBudget`), `FinalizeRepeats`: a second finalize
  of the same calls is refused, because the report carries the time of the request
  and so differs from the claim; `tests/provider_proxy/test_service.py:404` expects the
  first answer again (its clock stands still). After a lost answer, a failed post
  or a restart the command can then never be settled.

One more configuration passes: `chain_orderly.cfg` (`MCSupplyChain`), `NoIllegalReports`
and `ReplannedOrDone` on the instance of `chain_calm`: no handler sees an illegal
transition, and a re-planned subproblem does not also complete.

## 6. Not modelled

- Exceptions that unwind a chain (an LLM client that raises inside an
  escalation), and the depth of the call stack that deferrals build up.
- The rules and prompts behind verdicts, decompositions and executions: choices.
- The second bus implementation over AutoGen: `LedgerRecorder` assumes no more
  than the bus contract, `SupplyChain` is about the in-memory bus.
- In `BatchLedger`: creation and replay of batches and holdouts, evidence that no
  guard reads, the capability row that a success writes, retries of a transaction
  that the database aborted (a transaction is one step). The start of a session carries
  the fencing token and, in its payload, the iteration it is for, which the Gateway takes as it
  comes (`gateway/store.py:7990`); the workers of the model name the claim of their token.
- In `Projection`: dry runs, the cut-over from the first contract version and its
  unverifiable fingerprints, feed records that project to no event, duplicates
  within a page, the length of a claim (a claim may lapse at any time). The empty
  feed: its page carries the cursor -1, which the script checkpoints and the route
  refuses ever after (`gateway/app.py:1202`, `:1234`).
- In `ProviderBudget`: the text of receipts and response ids, files in the
  content-addressed store, cancellation receipts (nothing reads them), policy and price
  card (fixed for a context), the map of contexts in the proxy's supervisor (one
  context per model), the parsing of event streams. `finalize` checks its authority before
  it takes the lock (`service.py:517`), the model when it holds it: a request that waits while
  its context expires is refused in the model and served by the code. Two consequences of the code
  are in the model and no property: a benchmark call posted after the cost was
  closed is charged in the proxy and never billed, and a runtime that stops between
  closing the cost and recording the result cannot execute the command again,
  because its reservation is no longer active.
- In `FactoryJob`: jobs without business benchmarks and the generic benchmark path; the replay
  records and recoveries of the Architect's and Integrator's skills and of Codex builds
  (their dispatch succeeds, fails or stops); amounts of money, candidates and assertion ids; the
  lease of a tester for a benchmark suite while the review is due
  (`gateway/store.py:5979`); the receipts of benchmarks and of earlier attempts, which the release
  gate accepts and sums beside those of the runs (`release_gate.py:194`, `:219`): in the model
  what a run spent is covered when its row is in the table and it spent once. Of a capability
  resume only what it does to the budget of the job, and that once: which outcome it names and what the
  runtime then does is the resume service's.
- In `CapabilityAssembly`: admission, the contents of authorities and the checks on them, final
  evidence and its publication, several slices in one advance (the route asks for one),
  retries under an authorization. Consequences of the code that are in the model and
  no property: a slice whose effect failed, or was cut off, is never tried again and the
  assembly ends there, as the comment on the reconciliation port demands; a receipt of an
  authority that the controller refused is refused each time it is read; `run` in place
  of `resume` beyond the restart boundary loses the record of the restart, and no client goes
  on after that. Read beside it and not modelled: a resume is authorized only of an
  execution that failed, was cancelled or timed out (`capability_resume_service.py:570`), while the
  controller asks for the resume of the execution of an input that succeeded
  (`capability_assembly_controller.py:756`); and the resume service books the resume on top of
  the cost booked before (`:405`), while the controller demands the cost of the release,
  unchanged (`_require_execution`, `:1560`).
- The rest of Minibook, the portal, other runtime commands, the
  resume service, the benchmark's scoring, the Codex supervisor, scripts: see `PROJECT.json` for the reason of each. Most are single
  SQL transactions, or wrappers of an external program.

## 7. Plan

In order of importance:

1. Exceptions in `SupplyChain`: a Decomposer that raises unwinds through Reaper,
   writer or client; what the Reaper's loop survives, what the writer files as an
   error.
2. `NoIllegalReports` and `ReplannedOrDone` as theorems, under the assumption that no
   lease runs out and nothing crashes.
3. `FactoryJob`: the amounts (`execution_budget.py`) with the provider proxy as a
   client, and the replay records of the skills.
4. The resume service behind the last three slices of `CapabilityAssembly`.
5. An abstract specification of an assembly (its slices, each done once and in order),
   implemented by `CapabilityAssembly`.
6. The todo ledger, if it outlives the import.
