# TLA+ models of the COPS execution path

COPS (`cops/`) plans, approves, executes and accounts for bounded security
operations. Most of the code base builds and validates documents. The part
where order, concurrency, crashes and partial failure decide correctness is
small: who may use a signed approval, what is sent to a target and how often, how
a run that was cut short is classified, what it leaves behind on disk, and what an
engagement may spend. This directory models that part in TLA+, checks it with
TLC on small instances and proves the central facts with TLAPS for all instances.

Every definition is translated from the Python source. `PROJECT.json` maps each
one to its file and lines.

## 1. The system

| Part | Source | State it keeps | Model |
|---|---|---|---|
| Approval store | `execution/store.py` | `approvals`, `approval_consumptions` (SQLite) | `ApprovalControl` |
| Approval authority, client | `execution/control.py` | connections, one request at a time; a call and its retry | `ApprovalControl` |
| Authorization envelopes | `execution/authorization.py` | none (verification) | `ApprovalControl` (`Verifies`) |
| Side-effect ledger, journal, cleanup manager | `execution/cleanup.py` | append-only journal, in-memory effects, file system | `Cleanup` |
| Assessment budget ledger | `assessment_budget.py` | engagement, attempts, receipts, prerequisites, approvals (SQLite) | `AssessmentBudget` |
| Isolated worker | `execution/worker.py` | run status, dispatch flag, attempted operations | `WorkerExecution`; journal and rollback in `Cleanup` |
| Replay brokers | `web_api/worker_broker.py`, `laboratory/agent_mcp_broker.py` | a child process, two events, a pipe, a monitor thread | `ReplayBroker` |
| Service validation | `discovery/service_validation_execution.py` | an attempt in the budget ledger | `ValidationDispatch` |
| Live provider dispatch | `provider_live.py` | an attempt in the budget ledger, a gateway thread | `LiveDispatch` |
| Gateway dispatch | `execution/gateway_dispatch.py` | consumed grants (SQLite) | `GatewayDispatch` |
| Laboratory cases | `laboratory/journal.py`, `harness.py` | case journal (SQLite), pending cases, evidence files | `LaboratoryCases` |
| Evidence recorder | `execution/evidence.py` | artifacts | reservation and removal in `Cleanup` |
| Connector runner, remote worker, supervisor | `connectors/runner.py`, `remote_worker.py`, `worker_supervisor.py` | checkpoints; one request per process | not modelled |
| Agent workboard | `.agents/skills/agent-workboard/` | tasks, claims and leases (SQLite) | not modelled |

How they interact. An operator signs an authorization. A worker starts a run: it
journals its side effects, asks the approval authority to consume the
authorization, executes the plan's operations, and rolls its side effects back.
The authority and any local consumer share the approval database. An operation
that needs the network is mediated: the adapter can only trigger a one-shot
broker process, which sends the request.

Assessment attempts go through the budget ledger instead, which several
controllers share. A service validation reserves an attempt, asks its gate,
records the dispatch intent, invokes the provider and reconciles the outcome. A
live provider call does the same around a gateway thread that consumes a one-use
grant and may outlive the call.

The laboratory harness sends an authorized case to a pinned worker, waits for an
operator's signed observation, classifies the case and publishes its evidence. Its
journal says which authorizations have been used.

What is hard about it, and what has to be true:

- several processes use one SQLite file, and only what a transaction checks
  itself is safe from the others: an authorization is consumed once, a budget is
  not exceeded, evidence is used once;
- a process may die between any two statements: what it did must be found again
  and nothing may be done twice;
- a ledger operation that raises may have been committed, and a thread or process
  that was given up may still send: what is reported as not sent was not sent and
  never will be;
- responses are lost and requests are repeated: an exact repetition gets the same
  answer, anything else gets none;
- other processes change the workspace: only what the run created is deleted;
- journal writes, deletions and receipts fail one by one: a report never claims
  more than happened.

`PROJECT.json` lists these as hazards, each at its line.

## 2. Modules

| Module | Contents |
|---|---|
| `OneTimeGrant` | abstract specification of a one-time grant: issue, claim, expire, deliver |
| `ApprovalControl` | store, authorities, clients and local consumers over one approval database |
| `ApprovalControlProofs` | its inductive invariant and theorems |
| `Cleanup` | one run's journal, ledger, manager and disk, with crash and recovery |
| `CleanupProofs` | its inductive invariant and theorems |
| `AssessmentBudget` | the budget ledger of one engagement |
| `AssessmentBudgetProofs` | sums over finite sets; the ledger's inductive invariants and theorems |
| `ValidationDispatch` | service validation calls over the budget ledger |
| `ValidationDispatchProofs` | refinement of the ledger, inductive invariant, theorems |
| `GatewayDispatch` | the gateway and its replay store |
| `LiveDispatch` | live cases over the budget ledger and the gateway |
| `LiveDispatchProofs` | refinement of the ledger, inductive invariants, theorems |
| `ReplayBroker` | the dispatch channel of one mediated operation |
| `WorkerExecution` | the worker's calls for one plan, over `ReplayBroker` |
| `WorkerExecutionSteps` | the worker's invariant and the lemmas on types, the channel and the position of the worker |
| `WorkerExecutionProofs` | the remaining steps of that invariant and the theorems |
| `LaboratoryCases` | the harness, its journal and its evidence store |
| `LaboratoryCasesProofs` | its inductive invariant and theorems |
| `MC...` | small instances of the component modules for TLC |

Each component module also holds a few operators whose comment begins with
"Mutant:". They are not part of the specification. Each is a plausible mistake in
the operator that follows it, kept to show that a property would catch it.

### 2.1 ApprovalControl

A SQLite transaction is one step. Between two transactions anything may happen.

| State | Code |
|---|---|
| `status`, `rows` | `approvals.status`, `approval_consumptions` |
| `stage`, `busy`, `seen`, `answer` | how far `consume_document` has got per connection, the connection `serve_forever` is in, `now_str`, the response |
| `cstate`, `cdoc`, `attempt`, `receipt` | one call of `ApprovalControlClient.consume_authorization` |
| `lstate`, `lclaim` | a user of `ApprovalStore.atomically_consume` |

`Accept`, `Verify`, `Recheck`, `Sample` and the `Commit...` actions are
`consume_document` and `atomically_consume_request` cut at their transaction and
clock reads; `Sample` is a step of its own because the code reads the time before
it waits for the write lock. `Recheck` is the `except` branch that recovers an
exact retry. `Start`, `TransportError` and `Receive` are the client with its
`range(2)` loop. `Crash` and `Unreachable` lose connections. `OwnerChecks` is the
outcome of `assert_protected_owner`.

Abstractions. A document stands for its digest and an envelope for its signature
(no collisions). `Trusted` says whether the key and the engagement verify. Time
is in whole seconds and only moves forward. A connection either delivers a
complete line or fails.

### 2.2 Cleanup

One run with a set of effects, each with a target path. `place[e]` is what the
path holds: nothing, the object this run created (`own`), or something else
(`foreign`). Every journal append and every file-system call is a step. Other
processes remove, replace and add entries between any two of them.

`RecordEffect`, `Create` and `Identify` are intent, exclusive creation and
`record_created_identity`. `CleanupEffect` is the clean-up during a run.
`Rollback` is one iteration of `rollback`'s loop up to the ownership check, and
`MarkCleaning`, `Quarantine`, `Delete` and `Cleaned` are the rest of it.
`NextEffect` is the order that `_rollback_order` computes with a heap: the latest
effect with no actionable effect below it. `Crash` drops memory, and `Recover` is
`recover_pending_cleanup` at the next start.

Abstractions. Device and inode are not reused while a run is tracked. Other
processes replace only paths that no tracked path lies below. Effects of kind
`process` come only from a plan's declarations, which are always preserved, so
`Declared` covers them. `dry_run` has no caller and is left out.

### 2.3 AssessmentBudget

One operation is one step, since each runs in one `BEGIN IMMEDIATE` transaction.
Any number of processes may issue them. `Observe` covers everything that only
advances `last_seen_ms`: denied operations, exact repetitions and reads.
`Reserve` inserts the row and evaluates the limits on the state after the
insertion, as the code does. `Reopen` is the constructor on an existing file.

Abstractions. `line[a]` is the chain of parents the code walks; `parent_id` is
fixed at insertion and no row is deleted, so the chain is stored once. Tokens
stand for tokens and cost, which are treated alike. Time starts at
`started_at_ms`. The dispatch intent's text is left out; it exists exactly when an
approval is spent. File permissions and path checks are left out.

### 2.4 ValidationDispatch

Calls of `execute_service_validation_action` run concurrently over the ledger of
`AssessmentBudget`; a ledger operation is one step and `stage[c]` is the statement
call `c` is about to run. `ReserveAttempt`, `Gate`, `MarkAttempt`, `Provider`,
`Verify` and `Settle` are the normal path. `CheckAttempt` and `Recover` are the
reads after a `mark_dispatched` or a `reconcile` that raised; `ReleaseReservation`,
`Undo` and `Doubt` are the clean-up of the error paths. Each ledger operation may
be denied, fail before its commit, or fail after it. `Elsewhere` is everything
other processes do to the ledger: cancellation, restart, other receipts.

The gate, the provider and the verifier belong to the caller and may answer
anything or raise. Plan compilation and the report document are left out.

### 2.5 GatewayDispatch and LiveDispatch

A sender is one call of the gateway: `VerifyGrant`, `ConsumeGrant` (one insertion
into `consumed_dispatches`, whose two columns are each unique) and `Handle`. A
live case is a sender whose call also reserves, marks and reconciles an attempt.
`DispatchCase` starts the thread, `Await` is the end of the wait by response,
deadline or interrupt, and the thread goes on by itself. `Note`, `Look` and `Tidy`
are `_mark_uncertain_or_observe`, the last look at the ledger and the cleanup.

A cleanup callable is assumed to be given. An interrupt inside
`_mark_uncertain_or_observe` is covered only as the end of the process
(`CrashCase`). `dispatch_fixture` and the provider adapters are left out.

### 2.6 ReplayBroker and WorkerExecution

`ReplayBroker` has the broker process (`Connect` to `Exit`), the monitor thread
(`MonitorCancels`, `MonitorReads`, `MonitorStopped`) and the `finally` block of
`open_channel` (`BeginClose`, `ReapBroker`, `StopMonitor`, `KillGroup`,
`Classify`), one step each. The two brokers of the code differ in the order of the
last ones, and in what an interrupt there (`LeaveClose`) skips.

`WorkerExecution` is `execute_plan_with_receipt`. `at` is the statement the worker
is about to run. The status of the run, `adapter_dispatched`,
`operation_cleanup_failed` and `attempted_operation_ids` are variables; `started`,
`sent` and `settled` record what really happened and are what the properties
compare a report with. `Crash` and `Restart` lose memory and keep the journal, the
authorization and whatever was sent.

Abstractions. The adapter is not trusted: it may trigger the broker or not and
exit with any code at any time. Directories are a set of names here; `Cleanup` has
their rollback. A run always has a cleanup journal, as
`docs/AUTHENTICATED_EXECUTION.md` requires. The isolation gate of offline research
refuses before anything is released, so it is one of the failures of
`PrepareFails`. Adapters with their own HTTPS egress are of kind `adapter`, since
no broker is involved. Pacing is part of `LeaveLoop`. `failure_injection` is left
out, and so is a broker killed while it holds the lock of an event.

One consequence is listed as a hazard and has no property: the run identifier is
journaled before the authorization is consumed, so a call that dies in between
leaves an authorization that is approved but refused as a repetition.

### 2.7 LaboratoryCases

One controller per journal, as `docs/AUTHENTICATED_EXECUTION.md` requires; `call`
is the step its current call has reached. `Begin`, `Dispatch`, `Bind` (or
`MarkUnknown`) and `Remember` are `execute_case`; `Classify` and `Finish` are
`classify_case` and the publication that follows; `Expire` is the sweep of old
challenges. `Verify`, `SimulateReset`, `BeginReset` and `ReproducibleReset` change
environments and invalidate their pending cases. `Interrupt` ends a call between
two steps. `Restart` drops what is in memory and opens the journal: a pending row
fails and one in dispatch becomes unknown. `Recover` is the operator's
`recover_retest_evidence_publication`, which publishes staged bundles.

An authorization stands for its attempt, its row and its result. Receipts are
valid or not. The dictionary of pending cases is a set, so loops over it take any
order. Statuses `active` and `torn_down` are left out: the first passes the same
gates as `verified` and neither is set by this package's harness. Migration of old
journals is left out. The exchange with the remote worker is one step whose answer
may be lost.

The model shows two states worth knowing. A publication that fails leaves a
terminal case among the pending ones, and every later expiry or reset that meets
it raises until a restart. An interrupt between the binding of a row and the entry
in memory leaves a pending row that only a restart fails. In both, `OutcomesFinal`
holds: the recorded outcome is not changed.

## 3. Runs

| Run | Instance | Shows |
|---|---|---|
| `approval_contention` | two calls, two authorities, a local consumer, faults | single use, durable grants, finality |
| `approval_retry` | two documents that may share a `request_id` | exact retries are answered, others are not |
| `approval_window` | a window that opens and closes, an untrusted envelope, wrong plans and workers | refinement of `OneTimeGrant`, rows bound to their envelope, termination of calls and of service |
| `cleanup_recovery` | directory, nested directory, file in it, declared target, faults, fairness | only own objects are deleted, objects stay tracked, receipts are honest, every rollback ends |
| `budget_tree` | four attempts up to three levels deep, three choices of limits | limits hold in every subtree, nothing is stranded, overage stops admission |
| `budget_evidence` | three attempts, five receipts, an approval, a prerequisite with two payloads | evidence is used once, charges move forward, reports are stable |
| `validation_dispatch` | two calls with one attempt identifier, a controlled proof that needs their prerequisite, lost and ambiguous commits | one provider call per attempt, approval and prerequisite; it stays accounted for; returned statuses are true |
| `validation_reuse` | the same | violation, see below |
| `live_dispatch` | two cases with one grant, an envelope with the same authorization, a late receipt | one handler call per grant; sends stay charged, are in time and are cleaned up once; evidence is true |
| `worker_execution` | four plans (a replay between adapters, two replays, an idempotent plan, a laboratory operation), two calls | statuses are honest, attempts are reported, `not_dispatched` is final, `success` is complete, calls end |
| `worker_interrupt` | one replay | violation, see below |
| `laboratory_cases` | two authorizations, two environments | an authorization is sent once, outcomes are final, classification is on the baseline the case ran on |

The two violations are disagreements between the code and what its documents say.

- `validation_reuse`. `docs/SERVICE_VALIDATION_PLAYBOOK.md` says that "a terminal or
  reused attempt fails before approval and provider dispatch". `reserve` returns
  the existing row for an equal request and the caller only rejects a row that is
  not `reserved`. A second call with the identifier of an open reservation
  therefore passes as fresh and consults its gate. The provider still runs once:
  `ProviderOnce` holds in `validation_dispatch` and is proved.
- `worker_interrupt`. `specs/execution-recovery-and-cleanup.spec.md` says that an
  interruption during a non-idempotent operation makes the run `uncertain`. A
  `KeyboardInterrupt` in one of the joins at the end of
  `web_api/worker_broker.py`'s `open_channel` skips the classification, so a run
  whose request was sent is reported as `cancelled`. `HonestStatus` and
  `AttemptsReported` are therefore stated for every other ending. The laboratory
  broker still classifies when it is interrupted there, possibly before its process
  has ended.

Bounds, and why they are enough to be interesting:

- Two calls with two connections each, two authorities and one local consumer
  give every pair of racing consumers, and a retry that overtakes its original.
  The clock bound lets the window open, be open and close.
- The cleanup instance has a chain of three (a directory in a directory with a
  file in it), so order and preserved ancestors matter on more than one level.
- The budget instance has chains of three, so a limit can bind at a grandparent
  while the parent's does not. Policy and limits bind at two or three of
  everything; the last time is past every deadline.
- Two validation calls with one identifier race for one row, and the third depends
  on what the winner establishes. Its approval differs, so approvals and
  prerequisites are spent independently.
- Two live cases contend for one ledger row and one grant, and a sender outside the
  ledger contends for the authorization. The clock reaches the narrow deadline and
  the last instant at which `mark_dispatched` still accepts.
- The worker's plans put a mediated operation before, between and after others, so
  a failure meets earlier observed and later unstarted operations. Two calls show a
  crash followed by a repetition; a third would be refused for the same reason as
  the second.
- Two laboratory cases meet in one environment or not at all; a third would only
  repeat one of the two. Authorizations and environments are interchangeable, so
  the run uses symmetry, which is sound because it checks no liveness.

Fairness. `LiveSpec` of `ApprovalControl` assumes that a request in service is
carried on and that a waiting client times out or reads its answer: the server
bounds a connection by one deadline (`_DeadlineSocket`) and lock waits by
`busy_timeout`, and the client's socket has a timeout. No start, crash or
acceptance is assumed. `LiveSpec` of `Cleanup` assumes that the manager's own
loop runs while the process is up. `WorkerSpec` assumes that a call that has begun
goes on by itself and ends its adapter once the deadline has passed, that the
monitor thread is scheduled, and that the clock reaches the deadline. Nothing is
assumed of the broker, which waits on a remote peer, or of the adapter. Crashes
and interrupts carry no fairness: they may happen at any time or not at all. The
dispatch and laboratory modules state safety only: their progress depends on
gates, providers and operators that promise nothing.

## 4. Proofs

TLAPS proves the following for every choice of the constants that satisfies the
named assumptions (`ConstantsAssumption`, `CleanupAssumption`, `BudgetAssumption`,
`CallAssumption`, `GrantAssumption`, `CaseAssumption`, `WorkerAssumption`,
`NobodyAssumption`). These state the types of the constants, that `Ancestors` is a
strict order, that there are finitely many attempts, that no attempt names itself
as parent, that a live case's attempt and approval are those of its grant, and that
plans pass the worker's preflight.

`ApprovalControlProofs`: `TypeCorrect`, `ConsumedAtMostOnce`,
`ReceiptsBindEnvelope`, `GrantsAreDurable`, `HoldersAlwaysAgree`,
`ClaimsStayFinal`, `ExactRetryAlwaysAnswered`, `RefinesOneTimeGrant`,
`ServiceAlwaysSound`, `ServiceMovesForward`. The invariant is the conjunction of the
type invariant, `SingleUse`, `StatusMatchesClaims`, `RowsBindEnvelope` and
`InFlightSound`.
`SingleUse` is not inductive alone: that a consumed authorization has a claim,
and an unconsumed one has none, is what rules out the second commit; that is
`StatusMatchesClaims`. A granted call holds a durable row only because responses
in flight already are durable rows of their document, which is `InFlightSound`.

`RefinesOneTimeGrant` maps the status column to the phase of a grant, rows and local
consumers to its claimant, and granted calls and local consumers to the deliveries
(`GrantPhase`, `GrantWinner`, `GrantDelivered`). A step that stores, grants and
consumes nothing stutters (`Quiet`); five kinds of step do more, and each has a
lemma. A commit maps to a claim because `StatusMatchesClaims` leaves an approved
authorization without a claimant, and an accepted response maps to a delivery
because it is the row on record. `ExactRetryAlwaysAnswered` is stated for
`StoreFaults = FALSE`, as its run is: a failed ownership check or a lock timeout does
turn a retry away. An authority that answers nothing although the exact row exists
can then only be one that serves another worker.

The last two theorems are the part of `AuthorityReturns` that is not about fairness.
A busy authority holds one connection, in a stage whose steps cover every case
(`ServingSound`); each step of it takes the request to a later stage, and it ends
answered or closed (`ServiceStep`). Clients act on the same connections meanwhile, so
the argument needs `Unopened`: a call opens each of its connections once, and a retry
therefore never resets a request that is in service.

`CleanupProofs`: `TypeCorrect`, `OnlyOwnDeleted`, `ObjectsStayTracked`,
`ReceiptsAreHonest`, `AncestorsArePreserved`, `StatusesMoveForward`,
`RollbackNeverStuck`, `RollbackMakesProgress`. The invariant adds to the properties what the ledger knows (`LedgerFacts`: statuses
in memory and in the journal differ only by a refused write), where the manager
is (`StepFacts`: which stage implies which status and which object) and what a
receipt covers (`ReceiptFacts`).

`RollbackNeverStuck` and `RollbackMakesProgress` are the part of `RollbackTerminates`
that is not about fairness. What is left to clean is in the ledger and so finite, and
`Ancestors` is a strict order, hence some entry has nothing left below it and
`_rollback_order` has an entry to put next (`LastExists`, used once for the nesting
and once for the order of the ledger). `Remaining` counts five steps for each effect
left, less the ones already taken with the effect in hand, and every step of the
manager lowers it.

`AssessmentBudgetProofs`: `TypeCorrect`, `CountsAlwaysHold`, `TreeAlwaysSound`,
`NothingIsStranded`, `EvidenceAlwaysSound`, `ReceiptsAlwaysMatch`,
`ChargesAlwaysMoveForward`, `ReportsAlwaysStable`, `OutputAlwaysHolds`,
`OnlyOverageExceeds`, `OverageAlwaysBlocks`. Two lemmas carry the argument.
`StepKinds`: a step either keeps the rows and moves their states forward, or is an
admission. `RecordSteps`: a step either keeps the records, dispatches, or
reconciles. Counts and `NothingStranded` are inductive with the type invariant.
`TreeSound` needs `ParentsInLine`, so that a new row is nobody's parent yet. The
records need one another: a receipt does not overwrite the completed outcome a
prerequisite rests on because a dispatched attempt has no outcome
(`ReceiptsMatchRows`) and no usage (`UnreportedIsUnknown`) yet, and a cancelled
attempt is not reserved (`RequestedHasMoved`).

The last three theorems are about sums over charged rows. `SumFunctionOnSet` is a
fold, so its laws (`SumUnfold`, `SumRemove`, `SumMonotonic`) need induction over
finite sets. The strict subset order on them is well founded, hence a set of
counterexamples that is not empty has a smallest member (`SmallestSet`), and each
law refutes that one. `Capped` says that a settled row has its usage and no row
reports more output than it reserved. With it a step never raises a row's output
(`ChargeStep`), so output is inductive. Tokens may be raised, by a receipt that
reports more than was reserved. `OnlyOverageExceeds` states what is left:
`TokensHold`, the limits on every subtree when each row counts for no more than
its reservation. It is not the limit itself, which overage may break, and it does
not follow from the admission check alone, since rows that are settled below their
reservation make room for others. `OverageAlwaysBlocks` compares the totals on both
sides of a step (`TotalsShrink`).

`ValidationDispatchProofs`: `CallsImplementLedger`, `ProviderRunsOnce`,
`ProbesStayAccounted`, `VerdictsAreHonest`. The first shows that the calls, whatever
fails, take only steps of the ledger: `DispatchSpec => Spec`. Every theorem of
`AssessmentBudgetProofs` thereby holds in the composition, and the lemmas about one
ledger step are used for all calls at once. The invariant `CallInv` says what each
stage knows (`Placed`), that the call that committed the intent is unique per
attempt (`Winner`) and that its approval and prerequisite are spent on it
(`Accounted`). Without `Winner` nothing excludes that two calls that both saw a
dispatched row both believe it to be theirs.

`LiveDispatchProofs`: `CasesImplementLedger` (`LiveSpec => Spec`), `HandlerRunsOnce`,
`SendsStayCharged`, `EvidenceIsHonest`, `CleanupRunsOnce`, `SendsAreInTime`.
`GatewayInv` ties the threads past consumption to pairwise compatible rows of
the replay store; `CaseInv` ties a case's stage to its thread, its charge and its
evidence.

`WorkerExecutionSteps` and `WorkerExecutionProofs`: `WorkerInvariant`, `WorkerTypes`, `ResultsAreHonest`,
`AttemptsAreReported`, `NotDispatchedStays`, `SuccessIsWhole`, `StartsAreCovered`.
`ChannelInv` is about the channel alone: the marker is set before anything is sent,
and a closed channel has a reaped broker. `RunInv` adds where the worker is
(`Placed`), that operations before the current one are observed (`Before`), what the
flags say of the current one (`Current`), and what is true of a status while the
loop is being left (`Told`) and of the report afterwards (`Final`). `HonestStatus` is
not inductive because it speaks of the report only; `Told` is what makes it so.
`StartsAreCovered` proves `StartsUnderReceipt`: an adapter starts only under the
receipt of a consumed authorization, once, after every earlier operation was
observed.

`LaboratoryCasesProofs`: `LabInvariant`, `AuthorizationsSentOnce`,
`OutcomesAreFinal`, `ClassifiedOnOneBaseline`. The invariant adds that only an
authorization with a row has been sent (`Reserved`), which rows a call in progress
stands on (`InDispatch`), and that a case in memory, or on its way there, is not
outdated (`Fresh`), which is what invalidation before every reset is for.

Only model-checked: the four liveness properties `AuthorityReturns`,
`CallsTerminate`, `RollbackTerminates` and `CallsEnd`. They rest on fairness and on
what is enabled, which the prover does not reason about; for `AuthorityReturns` and
`RollbackTerminates` the theorems above prove everything else. Every invariant, action
property and refinement that a passing run checks is also proved.

## 5. Not modelled

- Canonical JSON, signatures and digests, which are taken as collision free; socket
  framing; file permissions and symbolic-link checks.
- Sandboxing, egress rules and credentials: stateless, or operating-system calls.
- Protocol parsers, report builders, catalog, routing and packaging, by far the
  largest part of the code base: pure functions of large inputs, without protocol
  state for a finite model to explore.
- The workflow runtime, the connector runner, the remote worker and its
  supervisor: one process and one thread each.
- `dispatch_fixture` of `provider_live.py` and the agent workboard.

The notes in `PROJECT.json` give the reason for each part.

## 6. Possible extensions

1. The agent workboard: tasks, claims, leases and hand-offs of several agents over
   one database.
2. The connector runner: paging, retries, checkpoints and budgets of one collection.
3. The heap algorithm of `_rollback_order` against the order `Cleanup` uses.
4. `dispatch_fixture`, the remaining contract life cycles and the remote worker.
