# NAEOS: TLA+ models, model checking and proofs

NAEOS turns a specification into generated artifacts through a fixed pipeline
(parse, normalise, resolve, build the NEIR model, validate, schedule, generate)
and surrounds it with platform services: a control plane that authorizes what
agents do, a task coordinator, snapshots and rollback, queues, workflows, an
event bus and more. This directory holds the TLA+ development for the parts in
which concurrency, failures or long call sequences decide whether the program
is correct. Paths below are relative to the repository.

    tlc -workers 2 -config MCExecutionGate.cfg MCExecutionGate
    tlapm ExecutionGateProofs.tla

`PROJECT.json` lists, for tools, the components, the runs, the mutants that show
each property can fail, the source lines behind each definition, the findings,
the hazards and the theorems.

## 1. Inventory

Components with state of their own, in the order of importance for correctness.

| Component | State | Operations | Hard behaviour | What makes it correct |
|---|---|---|---|---|
| Control plane: evaluator, policy and grant stores (`internal/controlplane/evaluator.go`, `model.go`, `internal/investordemo/policy_engine.go`, `grant_store.go`) | policies by ID and version, grants by ID and agent | evaluate, update policy, store and revoke grant | unlocked two-step update, order of the early returns, expiry | least privilege; restricting steps never widen authority |
| Control plane: approvals and decision gateway (`approval.go`, `gateway.go`) | approvals, ledger events | authorize, execute, request/approve/reject, consume | check-then-act across critical sections, decisions brought along by clients, expiry while reviewing | an execution rests on an ALLOW for exactly that action; an approval pays once, and a decision allowed through one is what it was given for |
| Control plane: ledger (`ledger.go`) | events with hash links, snapshot file, last error | append, save, load | saving outside the lock, failing saves, crash and restart, a reset that replaces the ledger while requests still use it | the file is always acceptable and never ahead; saved events stay saved |
| Execution gate and handoff validation (`internal/investordemo/execution_gate.go`) | nonce ledger | validate, reset | lookup and record are separate | a nonce is accepted once |
| Task coordinator (`internal/distributed/distributed.go`) | priority queue, two channels, draining flag, wait groups, metrics | submit, worker loop with retries, stop, drain, results | lost wake-ups, full channels, shutdown racing everything, panics on closed channels | one result per task, no lost task, shutdown returns |
| Rollback snapshots (`internal/rollback/rollback.go`) | snapshot directories, manifests, output and temporary directory | create, restore, delete, list, export, import | crash or I/O error at any step, an output that holds the snapshots | finished snapshots are durable; a restore is all or nothing and exact |
| Message queue (`internal/messagequeue`) | topics, bounded channels, idempotency keys, retry counts, dead letters, counters | publish, consume, retry, subscribe, unsubscribe, delete, stop, cleanup | key stored before the queue is found full, a consumer that re-enqueues into its own channel, one `*Message` shared by the queues of a topic, closing channels that others use | no accepted message lost or handled twice; counters add up; everything accepted is settled |
| Workflow engine (`internal/workflow`) | state machine, step log, approval requests | execute (plain, with retries, in groups), cancel | cancellation, context and time-outs while an action runs, actions that return late | one execution; the answer agrees with the machine and the steps; it ends |
| Pipeline, its result cache and kernel (`pkg/pipeline`, `internal/pipelinecache`, `pkg/kernel`) | result of each specification in memory and in a shared directory, resolved specification, started flag | validate, run, restart | results changed after they were stored, entries of unfinished runs, eviction, several processes, kills while writing | a cached result equals a fresh one; the policies guard what is written |
| Planner (`internal/planner`) | graph of nodes and typed edges, task lists | build, merge, sort, components, paths, reduction; levels, critical path, batches | order of Go's maps, cycles, zero durations | every query equals its definition |
| Governance and runtime gateway (`internal/governance`, `internal/runtime/gateway`) | policy versions and the active one, marks, restrictions | register, activate, delete, restrict; authorize and execute in a sandbox | changes between evaluation and execution, two places that say what is active, order of a map | only what was allowed runs; the decision does not depend on the order |
| Event bus (`internal/events`) | handlers, history, dead letters | publish, subscribe, start, stop | failing handlers, order of the history | each handler sees each event |
| Event store (`internal/eventsourcing`) | streams in files | append, load, snapshot | unreadable stream treated as empty, write in place | versions are gapless, nothing overwritten |
| Interval scheduler (`internal/scheduler`) | jobs, next runs | add, tick, enable, disable | overlapping runs | a job does not overlap itself |

The remaining packages transform data within one call (specification, NEIR,
compiler, generation, diff), wrap I/O or external services (API, GraphQL, LSP,
MCP, cloud, database, plugins, AI), or only report (telemetry, monitoring,
profiling). `PROJECT.json` lists them with the reason each is left out.

How the modelled parts interact: an HTTP request enters `ExecutionGate.Authorize`,
which reads a grant and its policy, lets `DecisionGateway.Authorize` evaluate
them, look at an approval and append the decision to the ledger; a handoff
contract, if the request has one, is validated against the nonce ledger;
`ExecuteDecision` then reads the ledger back, consumes the approval and appends
the execution. Every append may save a snapshot of the ledger, from which the
next start restores it. The command line (`cmd/naeos`) runs the pipeline, which
works under a kernel and over the result cache, plans with the planner, and is
surrounded by the coordinator and the snapshots (`build_cmd.go`). The runtime
gateway asks the governance control plane for each tool an agent wants. Message
queue and workflow engine stand alone and are used through their APIs.

## 2. Modules

| Module | Models | Uses |
|---|---|---|
| `PolicyEvaluator` | `Grant.IsValid`, `Evaluator.Evaluate` as operators | |
| `GrantAuthority` | policy and grant stores, the clock, operator changes | `PolicyEvaluator` |
| `ApprovalStore` | the methods of `ApprovalStore`, each a map from store to store (they run under one mutex) | `PolicyEvaluator` |
| `LedgerLog` | `Ledger.Decision`, `Ledger.HasExecution` over a sequence of events | |
| `ExecutionGate` | `DecisionGateway` and `ExecutionGate.Authorize` as concurrent callers over all of the above | the four modules above |
| `LedgerPersistence` | `Ledger.Append`/`Save`/`LoadLedger`, restart and live replacement by `SetupDemoEnvironment` | |
| `HandoffValidator` | `ValidateHandoff`, nonce ledger, `Reset` | |
| `Coordinator` | `pushTask`, `workerLoop`, `popTask`, `executeWithRetry`, `Stop`, `Drain`, reader of `Results` | `TaskService` |
| `TaskService` | abstract specification: one result per task, until the service closes | |
| `SnapshotStore` | `Create`, `Restore`, `Delete` over directories | |
| `MessageQueue` | `Queue`, `Topic`, `Broker`: publishers, the consumer of each queue, subscriptions, stops | |
| `Workflow` | `StateMachine`, `ExecuteWithContext`, `ExecuteWithRetry`, `ExecuteParallelGroup`, `Cancel` | |
| `Pipeline` | `Validate` and `Run` with the kernel around them, `Cache` and its directory | |
| `GraphQueries` | breadth-first search and topological sort of `internal/planner/graph` | |
| `PlannerGraph` | the graph of this package and its other queries | `GraphQueries` |
| `TaskLevels` | the list of tasks of the pipeline and the levels of a list, of `internal/planner/scheduler` | |
| `TaskScheduler` | validation, critical path, resource batches of the same package | `TaskLevels` |
| `Planner` | both of them | `PlannerGraph`, `TaskScheduler` |
| `Governance` | policy registry, `ControlPlane.Evaluate`, `ExecutionGateway.Authorize`, sandbox | |
| `ExecutionGateProofs` (with `GrantAuthority`), `LedgerProofs` (`LedgerPersistence` and the nonce ledger of `HandoffValidator`), `CoordinatorProofs`, `SnapshotStoreProofs`, `MessageQueueProofs`, `WorkflowProofs`, `PipelineProofs` (with `TaskLevels` and `GraphQueries`), `GovernanceProofs` | theorems and their proofs | the modules named |
| `MC...` | model values and small inputs for TLC | |

Granularity. A Go critical section, an atomic file operation or a channel
operation is one step; whatever the code reads before it and uses after it is
kept in the caller's locals (`call[c]` in `ExecutionGate`, `snap`/`own` in
`LedgerPersistence`, `job[v]` in `HandoffValidator`, `task`/`attempt`/`result` in
`Coordinator`). Names follow the source.

Notes on the correspondence:

* `ExecutionGate`. `Receive` stands for everything up to and including the
  evaluation: grant and policy are read and copied, and the evaluation works on the
  copies. `CheckApproval`, `RecordDecision`, `Handoff`, `CheckCanonical`,
  `CheckExecuted`, `ConsumeApproval`, `RecordExecution` and `Audit` are the later
  ledger and store calls, in the order of the code. `kind` is the entry point:
  `authorize` (Authorize alone), `execute` (Execute), `gate`
  (ExecutionGate.Authorize), `direct` (ExecuteDecision with a decision the client
  brings along). A caller of the last kind names one request in the decision (`res`),
  which is compared, and another one or none for itself (`req`), which is recorded. Four
  fields of an event, `apr`, `via`, `direct` and `from`, are not in the Go event; they
  record which approval an execution presented or a decision was allowed through,
  whether the call was authorized through it, whether its decision was brought along,
  and the place of its own decision, or of the latest one when a call began that brought
  its decision along, and never influence a step. Request and decision IDs the server
  makes up are time stamps in nanoseconds and are taken to be fresh. The contract check is a choice here and is modelled in full in
  `HandoffValidator`.
* `LedgerPersistence`. The hash of an event is a number no other event has: SHA-256
  is taken to be injective. Writing the temporary file and the rename are one
  step, since the temporary file is invisible to everyone else. `handleReset` and
  `handleInvestorDemo` call `SetupDemoEnvironment` in a running server
  (`api_server.go:475`, `503`): a new ledger is loaded from the file, and requests that
  hold the old setup go on appending to the old one, so that the model has a ledger for
  each load of a process and writers choose one. `saved` is the set of events whose
  `Append` returned after a successful save, `missed` are, per ledger, the events it may
  lack, and `exposed` those an older snapshot or such a ledger may have taken from the
  file; none of them influences a step.
* `HandoffValidator`. A contract is a record of how its checks come out: signature
  and digest verify or not, provenance matches or not. `raced` records the nonces
  presented by validations that overlapped; it influences no step.
* `Coordinator`. `notify` carries no data and is a token count. `Execute` succeeds
  or fails by choice; time-outs of an attempt are failures. A panic stops the
  process. Callers may submit and stop in any order; `misused` records that `Stop` or
  `Drain` was called a second time, during a submission or before one. Neither
  `build_cmd.go` nor `distributed_cmd.go` does that. It influences no step.
* `SnapshotStore`. A directory is a function from paths to contents; writing a file
  is truncate then write, removing a directory goes entry by entry; a checksum is the
  content. `place` says how the output directory lies to the snapshots, which
  `rollback_cmd.go` keeps under the working directory: "." and the root are merged into
  (`merge`); any other directory is removed and replaced, with nothing else in it
  (`apart`), with the snapshots in it (`holdsStore`: `.naeos`, or the working directory by
  its absolute name), or with the temporary directory too (`holdsBoth`: `./`, `..`). An
  artifact may be called `manifest.json`. One process at a time.
* `MessageQueue`. Topic objects are numbered (`made`): a topic deleted and created
  again is a new one, which publishers and subscribers of the old one do not see.
  `Retries` is loaded and stored in two steps, without the lock, as in `processMessage`.
  Sending and counting a message are two steps of the publisher, between which its consumer
  may count it. `Topic.Publish` holds the read lock over its loop (`Publishing`), which keeps
  subscriptions and stops out but not other publishers or the consumers. Setting
  `running` and closing the channel are one step; the comment at `StopQueues` says
  why. What callers do is a choice among a few plans (`Callers`), so that instances
  stay small. `handled` and `skipped` are, per queue, the messages its handler accepted
  and those passed over as processed, in their order. They and `abandoned`, `failures`, `enqueued`, `rejected`
  and `risky` are history.
* `Workflow`. Starting and returning of an action are two steps, and everything else
  may happen in between. `ExecuteWithContext` is `ExecuteWithRetry` without retries:
  the two loops differ in nothing else. `MaxRetries` is any integer: below zero the loop
  over the attempts makes none (`Attempts`). `awaited` tells whether the loop still waits
  for an action or has given it up after a time-out. A step is one occurrence of an
  action in a plan: the loop works by position, so an action that is listed twice is two
  steps (`WorkflowAssumption`).
* `Pipeline`. The stages up to validation change no state that outlives the call, so
  they are one step, which may fail. The checks of a call are its schema, which is fetched
  for each call, and the hooks around the parser and the generator; of them the model
  keeps which specifications they accept at which stage (`Accepts`). What matters of the NEIR model is the
  specification its modules come from and the languages. A result in memory is one
  object, shared by the call and the cache (`Update`); the file keeps what was
  stored. The score by which `evictLRU` chooses depends on time, and any entry may be
  the victim. `crossed` and `used` are history.
* `GraphQueries`, `PlannerGraph`, `TaskLevels`, `TaskScheduler`. The queries are recursive
  functions and operators that follow the code's loops, parameterised by the order in which a Go map is visited; the
  properties compare them, for every order, with definitions that have no loops.
* `Governance`. A scope and a rule's condition are the sets of what they match, resources
  and actions, where the tool stands for a resource that is not named; a restriction is
  the set of requests its patterns match. `Change` is what the three operations of the registry
  have in common, and keeps the history of the calls under way.

## 3. Runs

Violations are runs in which the code disagrees with what its documentation or
its own messages say; each is described in section 6.

| Run | Instance | Shows |
|---|---|---|
| `grant_authority` | 2 agents, 4 capabilities, 1 policy in 2 versions, 4 grants, 5 changes, time 0..3 | `LeastPrivilege`, `RestrictingNeverWidens` |
| `gateway` | 2 callers through the gate or with a decision of their own, a read and a deploy body, 2 decisions, 1 approval that expires at time 1, 3 requests | `TypeOK`, `ExecutionAuthorized`, `ApprovalSingleUse`, `ApprovedExecutionsBound`, `ApprovalLifecycle` |
| `gate_replay` | 2 callers, 1 decision, 2 requests | violation of `SingleExecution` |
| `ledger_persistence` | 3 writers, 4 events, 2 ledgers per process, 2 crashes, failing saves | `ChainIntact`, `FileIsPrefix`, `SavedUnlessExposed`, `ErrorReported` |
| `handoff` | 2 validators, 2 nonces in 3 contracts each, 4 validations, a reset | `ReplayNeedsRace`, `NonceLedgerExact` |
| `coordinator` | 2 tasks, 2 workers, capacity 1, Stop and Drain, submissions at any time, context may end | `TaskConserved`, `NoPanic`, `MetricsSettle`, `ImplementsTaskService`, `ShutdownCompletes` |
| `snapshots` | 2 snapshots, 3 paths, one of them `manifest.json`, 2 contents, the four places of the output directory, 2 faults | `SnapshotsDurable`, `TargetNeverMixed`, `RestoreExact`, `MergeExact` |
| `message_queue` | 2 messages with one key, 2 queues of a topic and 1 direct queue, capacity 1, 2 retries, 1 dead letter, 2 topics | `Accounted`, `HandledOnce`, `KeysExact`, `DeadOnlyAfterRetries`, `PanicNeedsOverlap`, `Delivered` |
| `workflow` | 4 calls (plain, with 2 retries, with -1 retries, in groups, one of them empty), 3 steps, 2 of them with a time-out | `OneExecution`, `ResultAgrees`, `EffectOnce`, `TerminalIsFinal`, `ExecutionEnds` |
| `pipeline` | 2 processes, 2 specifications, 2 languages, 2 policies, 2 sets of checks, a cache of 1 entry, 3 calls | `CachedEqualsFresh`, `PoliciesGuardOutput` |
| `planner` | all graphs with 3 nodes, 2 kinds and up to 4 edges; all lists of 3 tasks | `GraphQueriesExact`, `SchedulesExact` |
| `governance` | 1 agent, 2 tools, a resource called like one of them, 5 policies in 3 IDs, 2 restrictions | `RegistryConsistent`, `DecisionSettled`, `EnforcedDuringCall` |

Only `gateway` checks a type invariant in a run; the `TypeOK` of the other modules
documents the types of their variables.

Why the bounds are enough to meet the interesting cases. Two overlapping callers are
what every check-then-act pair needs, and three requests let one authorize, one
execute and one come again; two decisions allow an approval to be presented for the
wrong one. Three writers allow a snapshot to be overtaken twice; two ledgers
of a process are what a reset under a request in flight needs. A capacity of one
for both channels makes a send meet a full channel as soon as both tasks are under
way; one task has a negative retry count, the other is retried and has the higher
priority. Two faults let a second fault hit the recovery from the first. A queue of
one entry is full as soon as a message waits, which is what both the refused key and
the consumer that blocks itself need; the second retry makes a lost increment of
`Retries` matter. Three calls of a workflow let one be refused before and one after
the one that is admitted. A cache of one entry evicts on each new specification, and
two processes are what an entry read by another needs. Three nodes make every shape
of cycle, diamond edge pair and component that the graph's loops distinguish. In
`governance` a single agent is enough because callers share nothing but the registry
and the restrictions, which change at any time; the theorems hold for any number of
them. All bounds are constants (`MaxTopics`, `MaxPublish`, `MaxDead`, `MaxEdges`,
`MaxTasks`, `MaxParts`, `MaxCalls`, `MaxChanges`, `MaxTime`, `MaxEvents`,
`MaxLoads`, `MaxCrashes`, `MaxResets`, `MaxFaults`) and appear in guards only. Symmetry is used
over callers, writers, validators, nonces, approvals, decisions, snapshots,
processes and nodes, which no definition tells apart; never in a run with a liveness
property. Where a bound makes the model stop (requests used up), deadlock is not
checked; in the coordinator, whose end is a state of the program, it is.

Some properties allow the case in which two things overlapped, and only that.
`SavedUnlessExposed` and `ErrorReported` leave out the events that are `exposed`: an older
snapshot reached the file after them, or somebody appended to a ledger that lacks them;
`ReplayNeedsRace` says that a nonce accepted twice was presented
by overlapping validations; `PanicNeedsOverlap` that a panic of the queue needs a stop
that met something in progress; `EffectOnce` that an action takes effect twice only
after a time-out; `CachedEqualsFresh` names the ways in which a cached result may
differ: other languages, modules of another specification, and checks of this call that a
hit does not make, though some call's checks have accepted the specification. The cases
they leave out are real: section 6.

Fairness is assumed in three modules.

* `Coordinator`: weak fairness of each worker goroutine, of a `pushTask` under way, of
  a `Stop` or `Drain` under way and of the reader. The Go scheduler runs every
  runnable goroutine, `Execute` runs under a context and returns, and `build_cmd.go`
  ranges over `Results` until it is closed. Nobody is obliged to submit or to stop,
  and the context need not end.
* `MessageQueue`: weak fairness of each consumer goroutine; handlers return. Publishers
  may stop in the middle. A consumer that blocks itself is named in `Delivered`.
* `Workflow`: weak fairness of the loop of each call, and of the running actions taken
  together, which return or time out. Nobody has to cancel.

## 4. Proofs

Checked by TLAPS, for every value of the constants that meets the named assumptions
(`NoIDAssumption`, `CatalogAssumption`, `ApprovalAssumption`, `GateAssumption`,
`PersistenceAssumption`, `HandoffAssumption`, `CoordinatorAssumption`,
`SnapshotAssumption`, `MessageQueueAssumption`, `WorkflowAssumption`,
`PipelineAssumption`, `GovernanceAssumption`: bounds are naturals, special values are
not ordinary ones, the catalogs are well typed). TLC evaluates them in the
runs.

Each module has one inductive invariant, a conjunction of named parts. TLC has checked
each of them on the instances of section 3 before it was proved.

### `ExecutionGateProofs`

* `TypeCorrect`: `Spec => []TypeOK`.
* `GateSafe`: `Spec => []GateInv`, the inductive invariant, from which follow
  `OnlyAuthorizedExecutions`, `ApprovalsAreSingleUse`, `ApprovalsStayBound`.
* `ApprovalsMoveForward`: the action property `ApprovalLifecycle`.
* `LeastPrivilegeThm`, `RestrictingNeverWidensThm`: the two properties of the policy and
  grant stores, for `AuthSpec`.

None of the three safety properties is inductive: they speak of recorded
executions, but what they need happens in earlier steps of the caller. `GateInv`
adds what is true in between. `Backed`: past the first test of `executeDecision`, an
ALLOW for the call, no older than its own decision, or than the latest one when it began
with a decision it brought along, is in the ledger, and stays there since the ledger only grows; a call that did not bring its decision
along has one request only.
`Bound`: a call authorized through an approval keeps an approval with its binding,
which stays approved or consumed. `EntrySound`: so does each decision in the ledger that
was allowed through one, which is what binds the approval when somebody else executes
the decision. `ApprovalPaysOnce`: a consumed approval belongs
to one recorded execution or to one caller that has consumed it and not yet
recorded its execution (`Paid`), never to two. The proof goes action by action.
Most actions write no execution and no approval that matters (`QuietStep`); the two
that do, `ConsumeApproval` and `RecordExecution`, have lemmas of their own
(`ConsumeStep`, `ExecuteStep`).

For the stores, `EvaluateExact` says what the ladder of early returns in `Evaluate`
computes: ALLOW exactly for what grant and policy name and nothing takes away.
`LeastPrivilege` compares this with the stores, and needs that a policy found under an
ID has that ID and is active and that a stored grant is a grant (`AuthInv`). A
restricting step leaves a verdict as it is or makes it DENY (`RestrictDenies`).

### `LedgerProofs`: the ledger file

* `PersistenceSafe`: `Spec => []PersistenceInv`, and from it `RestartAccepted`
  (`ChainIntact`) and `FileNeverAhead` (`FileIsPrefix`).
* `SavedIsDurable` (`SavedUnlessExposed`) and `FailuresAreReported` (`ErrorReported`), from
  a second invariant, `ExposureInv`.

`ChainIntact` alone is not inductive, for the file comes from a writer's snapshot.
The invariant says that every ledger of the process is a chain, that the file is a prefix
of one of them and each snapshot on its way of its own; a prefix of a chain is a chain,
and appending a correctly linked event keeps both. For the saved events `ExposureInv`
looks at what could take one from the file. Every ledger that is loaded has the events that
are safe, those it has not missed (`HasSafe`), and every writer brings them with it
(`Brings`): it will copy a ledger that has them, or has a copy with them, since an event
appended while an older copy was on its way is exposed from the start. A ledger that
reports no error has its events in the file or a writer under way (`Reports`).

### `LedgerProofs`: the nonce ledger

* `NonceLedgerExactThm`, `ReplayNeedsRaceThm`, both for `HandoffSpec`.

That a nonce is accepted once unless validations raced is decided between the lookup
and the record of the nonce. `RaceInv` says of a nonce that did not race since the last
`Reset` that at most one validation of the present epoch is between the two, that past
the lookup nothing was accepted and nobody else will accept, and that at most one
validation that has recorded it is about to accept.

### `CoordinatorProofs`

* `TasksAreConserved` (`TaskConserved`), `MetricsAreExact` (`MetricsSettle`),
  `OnlyMisusePanics` (`NoPanic`).
* `ImplementsServiceSafety`: `Spec => Service!Safety`, the refinement of `TaskService`
  without its fairness: the initial states map to initial states, each step maps to a
  step of the service or to a stuttering one.

`PlaceInv` states the conservation by cases instead of as a sum: a task that was pushed
is in the queue, given up, with one worker, or answered in one of the two logs, these exclude each
other, and no log has two results of a task. The metrics are counted against
sets, `Submitted` and `Counted`, whose cardinalities they equal, so that one more task in
the set is one more in the counter. A task that ends without a final result has an
excuse, the drain or the context (`ExcuseInv`), which is what lets `MetricsSettle`
conclude. `ClosingInv` follows one closer through its stages: `resultCh` is closed only
after every worker has left.

### `MessageQueueProofs`

* `CopiesAreAccounted` (`Accounted`), `HandledAtMostOnce` (`HandledOnce`),
  `StoredKeysAreExact` (`KeysExact`), `DeadLettersWereRetried` (`DeadOnlyAfterRetries`),
  `OnlyOverlapPanics` (`PanicNeedsOverlap`).

Only `Accounted` is inductive over the types, with the publishers between send and count
on the side of the published. `HandledInv`: a message is `Processed`
exactly when some handler accepted it, and what a consumer works on has not been
accepted by its own handler. `RetriesInv`: the counter lags behind the number of errors,
also with an increment between load and store. `KeysInv`: a message on its way into a
direct queue has its key stored, nothing with that key in the queue and no rival.
`StopInv`: who may still meet a queue that is not open. A queue belongs to one topic
object for good, publishers hold queues of the topic they found, and a queue is closed
only by a stop, which either finds nobody there or marks the run as `risky`.

### `WorkflowProofs`

* `OnlyOneExecution`, `ResultsAgree`, `EffectsHappenOnce`, and the action property
  `TerminalStatesAreFinal`.

`AdmitInv` ties the admission to the machine: it is pending exactly as long as no call
was admitted. `ActionInv`: what is awaited belongs to the group at which the admitted
call stands. `SuccessInv` is the argument for "nil means every step succeeded once":
in the groups passed every step has succeeded once, in those to come none has, and in
the current group those have that are no longer awaited, unless the group has failed.
It needs that a step is in one group of a plan. A call whose number of retries is negative
makes no attempt, and is due none (`Due`). `MachineInv`: the machine shows the
state of the admitted call unless `Cancel` intervened. `OwnStep` reduces each action
to what it does to the admitted call.

### `SnapshotStoreProofs`

* `SnapshotsAreDurable`, `TargetIsNeverMixed`, and the action properties
  `RestoresAreExact` and `MergesAreExact`.

A loop of `WriteFile` has one invariant wherever it runs (`Written`: what is not left to
do has its content; `Fragment`: what is there is of the source, or torn), and makes an
exact copy when it is through (`CopyIsExact`). `FilesInv` says what interrupted
operations leave in a snapshot directory: a part of what one `Create` wrote, and none of
it torn once there is a manifest, since the manifest is written last and `Delete` only
takes away. With the integrity check this makes the temporary directory equal to the
manifest before it is put in place (`CheckedCopy`). `SnapshotsDurable` promises a snapshot
nothing any more once a `Restore` has begun to remove a directory that holds it, and an
artifact called `manifest.json` nothing at all; that a target is never mixed holds
wherever it lies, also where an unfinished snapshot was restored unchecked.

### `PipelineProofs`: the cache

* `CacheIsTransparent` (`CachedEqualsFresh`), `OwnPoliciesGuard` (`PoliciesGuardOutput`).

Both speak of what a run has written, but the result may have come a long way: computed
by another process under other policies, written to the directory, loaded after a restart.
`Sound` says what is true of a result of a specification wherever it lies. It was made for
languages that some call of the specification asked for, after the parser's checks of some
call accepted the specification, and if it has artifacts the generator's too; its modules are those of the
specification or still missing, and its artifacts come from them, unless the
specification is one of the `crossed` ones. `CachesInv`: every cache and the directory
hold sound results only, which `Set` keeps whatever it evicts and whether or not it can
write (`SetSound`); and as `crossed` and `used` only grow, a result that is sound stays so
(`SoundGrows`). `CallInv` carries this through the stages of a call: modules that are still
missing are those its process resolved last, and from the policies on they are the ones
that the process's own policies have accepted. A step of one process needs only its own
part and the caches (`OneProcess`).

### `PipelineProofs`: the levels

* `LevelsAreOrdered`: `LevelsOrdered(ts)` for every list of tasks, with duplicates, unknown
  dependencies and cycles. The levels are disjoint, respect the dependencies, no task waits
  longer than it must, and a task is missing only if it depends on a missing one.
* `ConfigurationIsLast`: `ConfigurationLast(modules, services)` for all numbers of both.

These are facts about a loop, and are proved by induction over its rounds, which here is
an argument about the least number that fails (`LeastNat`): the invariant of the loop
(`LoopInv`) holds at the start and is kept by a round, so no least round breaks it
(`LoopEnds`). `RoundsExist` shows that the recursive function of the loop exists. As many
rounds as there are tasks are enough, because each one that finds a level takes a task.
The second theorem follows from the first: what depends on one task is on the level right
after it, so that the modules climb level by level and the services share one, and the
last service is as late as any other. TLC checks both as part of `SchedulesExact`.

### `PipelineProofs`: the graph

* `SearchIsExact`: `SearchExact(ns, es, start)` for every finite graph and every node of it.
* `SortIsExact`: `OrderExact(ns, es)` for every finite graph and all orders of its roots.

A graph is any finite set of nodes and any list of edges between them (`IsGraph`), with
loops, parallel edges and cycles. TLC checks as part of `GraphQueriesExact` that the
operations on the graph leave no edge without its nodes, and so build only such graphs.
Both are loops over a queue, with a loop over the edges inside; the invariants speak of
the places of the queue that are done and of the edges seen for the next one.

For the search (`SearchInv`) there is a distance for every place of the queue. It never falls
along the queue and never exceeds that of the place being expanded by more than one, which is
why a node found later cannot be nearer; every edge seen leads to a place at most one step
farther, and every place but the first is one step farther than the place it was found
from. As the nodes of the queue are distinct there are no more of them than nodes, and that
many rounds have expanded all of them. `SearchExact` asks for distances as well, rather than
for reachability: they imply it, and that the parents lie on shortest paths.

For the sort (`SortInv`) an edge is open until its source's place has followed it. The
counts are those of the open edges, so a node is in the queue exactly if it has no open edge,
and each edge to a node of the queue comes from a place before it. If the queue ends up with
all nodes, the node of a cycle with the least place would contradict this; if not, each node
left over has an open edge from another one left over, which is a cycle.

### `GovernanceProofs`

* `RegistryAgrees`: `Spec => []RegistryConsistent`.
* `GatewayEnforces`: `Spec => []EnforcedDuringCall`.
* `EvaluateIsDeterministic`: `Spec => []DecisionSettled`.

`RegistryConsistent` needs that the map holds a policy under its own ID, that it is
registered, and that nothing is marked that is not registered (`RegistryInv`): without
that, unmarking the old version might leave another one marked. `EnforcedDuringCall`
speaks of the end of a call; `CallInv` carries its reasons through the stages: a
decision ALLOW was possible at some time since the call began, the restrictions
from the beginning are still there, since none is ever removed, and past the check
none of them matches the request. These two theorems need nothing of `Aggregate` but that
it is a function of the policies in the registry.

`EvaluateIsDeterministic` is about `Aggregate` itself. Its loop over the policies returns a
decision that one of them makes and that is as strict as any (`LoopIsStrictest`, by the
least position at which it fails). As each decision has a rank of its own, two orders of the
same policies give the same decision (`OrderIsImmaterial`), and more policies give one that
is at least as strict (`MoreIsStricter`). It needs that the registry is finite
(`FiniteRegistry`): only then are there orders.

### Only model-checked

* Liveness, which TLAPS does not prove under fairness: `ShutdownCompletes`, `Delivered`,
  `ExecutionEnds`, and with them the fairness part of `ImplementsTaskService`.
* `GraphQueriesExact` but for its parts about the breadth-first search and the topological
  sort, and `SchedulesExact` but for its parts about levels. Depth-first search, all paths,
  strong components and the critical path are RECURSIVE, which TLAPS does not support;
  shortest paths and the transitive reduction are not, but share a module with them. That
  edges keep their nodes rests on `SelectSeq` in `RemoveNode`, which the provers do not
  expand. Induction as such is not the obstacle: where the recursion is over numbers, as for the levels, the searches and the
  decisions above, the least counterexample replaces it.
* `SingleExecution`, which the code violates.

## 5. Not modelled

Parts of modelled components: the HTTP handlers and scenario scripts of the demo,
contract signing, the session verifier; agents, load balancer, result aggregator,
circuit breaker and health checker of the coordinator; `List`, `Latest`, `Export`
and `Import` of snapshots. `handleReset` replaces the whole environment: of
that `LedgerPersistence` models the new ledger over the old file, while `HandoffValidator` and
`ExecutionGate` each model the life of one. Data races on the
unlocked policy map are modelled as far as the two steps of `UpdatePolicy`
interleave with readers; Go's fatal error on concurrent map access is not.
Wall-clock steps backwards are not modelled. Of the message queue: latency and the
getters. Of the workflow engine: the step log, the context data, the approval
workflow and the manager's file store. Of the pipeline: the text transformations of
its stages, the stage cache (its key is the whole NEIR model), the middleware, and
an `AfterRun` hook that fails after the artifacts are written. Of the kernel: services
with a lifecycle, of which the pipeline registers none. Of the planner: DOT text,
subgraphs and copies, the priority and round-robin strategies. Of governance and
gateway: histories, adapters, the syntax of conditions and patterns.

Whole components. Event bus, event store, interval scheduler and circuit breaker are
within reach and are next in the plan. Seen there: the first handler that fails keeps
the others from an event, and event IDs are taken before the lock of the history
(`events/bus.go:175`, `160`); a stream that cannot be read is overwritten as if empty
(`eventsourcing.go:248`); a job may overlap itself (`scheduler.go:184`); a late success
closes a breaker that has opened again (`distributed.go:588`).

The larger part of the repository is of another kind: parsers, resolvers and generators that turn one text or tree into another within a call;
clients of databases, clouds, brokers and language models, where the behaviour is the
other side's; HTTP, GraphQL, LSP and MCP handlers that decode, call and encode;
telemetry, which nothing reads back; prompt texts and templates. They have no state
that outlives a call or is shared, so that a model of them would either be the
identity or repeat the code. The map therefore covers a small share of all lines,
and most of the lines in which several actors, failures or long call sequences meet.

## 6. Where the code and its description disagree

1. `gate_replay`. `executeDecision` asks `HasExecution` and appends the execution in
   two critical sections; two overlapping requests execute one decision twice.

The following have no run of their own. Where a definition and a configuration are named,
the code violates the definition, which TLC shows when it is added as an INVARIANT to the
configuration.

* Decisions that are brought along. `executeDecision` compares the request named in the
  decision and records the one named in the call, which is taken from the decision only if
  it is empty (`gateway.go:151`, `163`, `213`): a client may have an execution recorded under
  a request nothing was decided about (`ExecutionAuthorized` asks for the same request
  only of the other callers). A decision allowed through an approval may be executed
  without presenting the approval, which is then not used up; an approval presented where
  none was needed is used up by its ID alone, whatever it is for (`gateway.go:201-202`);
  and a DENY that reaches the ledger during the call is not seen.
* Saves of concurrent appends are not ordered (`persistenceMu` is never used), so the file
  can go back to an older snapshot and lose an event whose `Append` reported success. A
  reset loses events without any overlap of appends: the new ledger has what the file
  had, a request in flight saves through the old one, and the next save of the new one
  overwrites that (`exposed` in `SavedUnlessExposed`).
* `os.IsNotExist` does not see through the error `LoadLedger` wraps; the first start
  with a ledger path panics (`Start` with `InitialFile = Absent`).
* `DrainLosesNothing` (`MCCoordinator.cfg` with `Closers = {"Drain"}`). A task taken by a
  worker just before `Drain` or `Stop` sets the flag is dropped without a result; ADR
  006 says no work is lost. A distributed build calls `Stop` right after submitting
  (`build_cmd.go:256`).
* `TargetSurvives` (`MCSnapshotStore.cfg`). `Restore` removes the old output before it
  renames the new one into place; a crash or failing rename in between leaves none.
* Snapshots. Nothing keeps the output away from the snapshots: with `.naeos` or the absolute
  working directory as output, `Restore` removes every snapshot (`rollback.go:255`), with
  `./` or `..` its temporary copy too, and then fails. An artifact called `manifest.json` is
  overwritten by the manifest that lists it (`rollback.go:112`), and its snapshot never
  passes the integrity check. A directory without a readable manifest, as an interrupted
  `Create` leaves it, is restored unchecked, torn files included. An artifact whose path
  leads into `.naeos/snapshots` may overwrite a snapshot when it is merged into "."; the
  model has no such path.
* `ValidateHandoff` looks a nonce up and records it in two critical sections, so two
  overlapping validations accept one nonce twice (`investordemo/README.md:152`:
  "rejects replayed contracts"). `ReplayNeedsRace` allows exactly that case.
* `ExecutionGate.Authorize` evaluates the policy once per request; a policy updated
  between the decision and the execution does not stop it, where
  `scenarios.go:348-349` says old authorizations are re-evaluated at execution time.
* Message queue. Between the send and `Published++` (`queue.go:179-180`) a reader of the
  statistics may find more consumed than published. The key of a message is stored before the queue is found full, so
  the publisher's retry is refused as a duplicate until the key expires (`rejected` in
  `KeysExact`). A consumer that retries into its own full queue blocks for ever
  (`Stuck`). The queues of a topic share one `*Message`: increments of `Retries` get lost
  between them, and a message one subscriber has processed is skipped by the others.
  A topic that publishes stops at the first full queue, after others got the
  message. Stopping or deleting while a publisher or a retry is under way panics, and
  a subscription replaced by one of the same name is never stopped.
* Workflow. `Cancel` moves the machine and nothing else: the remaining steps are
  executed and `Execute` returns nil (`ResultAgrees`). A context that ends during a
  back-off leaves the machine running for good (`abandoned`). An action that timed out
  goes on, next to its retry (`EffectOnce`). With a negative `MaxRetries`
  `ExecuteWithRetry` runs no step, returns nil and leaves the machine completed
  (`workflow.go:278`, `Attempts` in `ResultAgrees`).
* Pipeline. Languages are not part of the cache key; a process with others
  gets the artifacts of the first. Neither are schema and hooks: a hit returns before
  the call's schema is looked at and before `BeforeParse` and `AfterParse`
  (`pipeline.go:474`, `498`), and one that has artifacts passes over the generator's hooks too
  (`pipeline.go:682`). A specification that the schema of this run refuses is generated,
  if an earlier one accepted it. An entry left by `Validate` or by a failed run has
  no modules, and a later hit fills in those of whatever the process resolved last, or
  none (`crossed`). `loadFromDisk` ignores the maximal size.
* Planner. In the pipeline's own schedule `validate-output` depends on nothing, so the
  levels put it first; `DefaultScheduler.ParallelGroups` puts modules that depend on each
  other into one group; tasks on a cycle are dropped from the levels without an error;
  with the zero durations of the pipeline's tasks the critical path is its first task.
* Governance. The comment of `evaluatePolicy` (`control.go:129-133`) lets any rule that
  requires approval decide, the code lets the rule of the highest priority.
  Restrictions are matched with the action as the agent gave it, "" included, policies
  with "execute" in its place (`EnforcedDuringCall` allows for it). And the policies
  judge the resource an agent names, if it names one, instead of the tool
  (`runtime/gateway/gateway.go:152-157`), while the sandbox runs the tool: a policy about a
  tool does not meet a request for it that names another resource.

## 7. Plan

Done: the control plane (authority, approvals, gateway, ledger), handoff
validation, the coordinator with its abstract specification, snapshots, the message
queue, workflows, the pipeline over its cache, the planner, governance under the
runtime gateway; the theorems of section 4, which state all but two of the
safety properties that the runs check and the code keeps.

Next, in this order:

1. `ShortestPath` and `TransitiveReduction` in `GraphQueries`, away from the RECURSIVE
   operators, and proved from `SearchIsExact`.
2. `EventStore` (crash while writing), `EventBus`, `IntervalScheduler`.
3. `CircuitBreaker` and `HealthChecker` of `internal/distributed`.
4. The approval workflow and the manager's store of `internal/workflow`; kernel services
   with a lifecycle.
