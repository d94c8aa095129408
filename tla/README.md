# Alien: a TLA+ model of the AI workforce core and its runtime

Alien is a fork of a large chat-gateway platform. What it adds, and what this
project starts from, is its *workforce*: projects whose goal is broken into
tasks by a planner, a board of task files, loops that claim tasks and run
workers on them, a goal loop that evaluates and plans again, an operator who
approves, retries and blocks tasks over HTTP, and an older orchestrator that
walks a fixed workflow. The workforce stands on three services of the gateway
that carry its concurrency and its recovery: the durable queue of outbound
messages, the in-process command lanes and the cron scheduler. Nearly all of
this state is JSON files that overlapping callbacks, and sometimes several
processes, read and overwrite. Paths below are relative to the repository root,
whose TypeScript core is in `src/`; in `PROJECT.json` they carry the extra
leading `src/` of the checkout.

## Inventory

| Component | State | Operations | Hard part | What makes it correct |
| --- | --- | --- | --- | --- |
| Task lifecycle, task store (`src/projects/task-state.ts`, `store.ts`) | one file per task: status, claim, attempts, output | create, claim, settle, approve, retry, block | whole-file overwrites of records read earlier | statuses move along the documented graph; a queued task can be claimed |
| Claiming (`src/projects/task-claim.ts`, `src/plugin-sdk/file-lock.ts`) | `.tasks.lock` | acquire, scan, save, release | several processes, overlapping ticks, dead and stalled holders | one claim per entry in the queue |
| Pickup loop (`src/projects/pickup-loop.ts`) | ticks in flight, their claimed task | tick, ask each role, run worker, settle, audit | `await` points; the record is minutes old when the outcome is saved | eligible tasks get claimed, claims settle, workers get their inputs |
| Projects HTTP API (`src/gateway/projects-http.ts`) | none of its own | approve, retry, block, archive, commit plan | no lock; any order of calls | the approval gate |
| Planner (`src/projects/planner.ts`) | none | plan, `persistPlan` | partial failure | task ids and dependencies survive renaming |
| Orchestrator (`src/orchestrator/run-state.ts`, `runner.ts`, `run-store.ts`) | one run file, the runner's copy | run, abort, resume | crash between and inside saves | no work repeated, honest verdicts, resumability |
| Goal loop (`src/projects/goal-loop.ts`, `src/gateway/projects-runtime.ts`) | `project.json`: status, `metadata.iteration`, `iterationCount` | evaluate, replan, achieve, ask for input, archive | overlapping idle handlers; everyone saves a record loaded minutes ago | the loops come to rest, an idle project is dealt with, overlapping handlers do not pile up plans |
| Audit log (`src/security/audit-log.ts`) | append-only hash chain | append, verify | concurrent appenders, torn tail | the chain verifies |
| Capabilities (`src/projects/capability-*.ts`, `self-coder*.ts`) | request list, activated list, live modules | request, code, activate, deactivate | unlocked read-modify-write of lists | no request lost, live = activated |
| Delivery queue (`src/infra/outbound/delivery-queue-*.ts`, `deliver.ts`) | one file per message, `failed/`, in-process claims | enqueue, send, ack, fail, recover, drain | crash around the platform call; live send, recovery and drains at once | no message lost, one accepted under its mark accepted once, claims given up |
| Command queue (`src/process/command-queue.ts`) | lanes: queue, active tasks, limit, generation | enqueue, pump, time out, clear, reset, drain | tasks that await other lanes, outlive timeouts and resets | no idle and no overbooked slot, order, every command settles |
| Cron service (`src/cron/service/*.ts`, `src/cron/store.ts`) | jobs in a config file and a state file, running markers, a timer | tick, batch, manual run, edit, start-up catch-up | locks released between check and reservation; crash between two files | runs of a job exclude each other, one-shots once, no due slot lost, no enabled job waits for ever |
| Other inherited services (exec approvals, registries, pairing) | own stores | own | timeouts, restarts | see What is not modelled |

Components talk through the files, not through messages: the operator's
handler changes a task file, the next tick finds it. Inside one process the
pickup loop calls workers, the audit log and (when a project is idle) the goal
handler, which calls the planner, which writes task files. Agent turns, those of
cron jobs included, go through the lanes of the command queue; their answers
leave through the delivery queue.

`PROJECT.json` lists every component, the ones not modelled too, and the
hazards of this code, each at its line.

## The modules

`TaskBoard.tla` is the board of one project and everything that works on it.

| State | Code |
| --- | --- |
| `store` | `tasks/<id>.json`: `status`, `claimedBy`, `attempts` (`None` while there is no file) |
| `active` | `project.json` has status `active` |
| `up`, `lock` | running processes; ticks inside `withFileLock` on `.tasks.lock` |
| `pc`, `at`, `held`, `got` | a tick's place in `runPickupTick`, the role it asks, the record `claimTask` returned to it, the dependency outputs its worker was given |
| `pend`, `planning` | what a process has computed in a synchronous stretch and not yet written |
| `faults` | counters that bound crashes, retries, blocks, audit faults and stolen locks |
| `enqueued`, `claims`, `decisions` | history, read by properties only: how often a task entered the queue, was claimed, was approved or retried |
| `disturbed` | history: tasks the operator retried or blocked, or whose audit append threw |

A JavaScript process runs one callback at a time, so a stretch of synchronous
code excludes the rest of its own process but not other processes. Reading a
task file and writing one are therefore two steps (`ClaimScan`/`ClaimSave`,
`RetryTask`/`OperatorSave`, ...), the process is `Busy` between them, and the
steps of other processes come in between. Every `await` is a point where the
other callbacks of the same process come in: lock acquisition, lock release,
the worker.

| Action | Code |
| --- | --- |
| `PlanStart`, `PlanSave`, `PlanThrows` | `handleCommitPlan` (and the other callers) into `persistPlan`, one file at a time; an exception in the middle |
| `ApproveTask`, `RetryTask`, `BlockTask`, `OperatorSave` | the operator's handlers: load, decide (409 unless backlog for approve), save |
| `ArchiveProject` | `handleArchiveProject` |
| `TickStarts` | the interval timer, which does not wait for earlier ticks, and the status check of `runPickupTick` |
| `AcquireLock`, `ReleaseLock` | `withFileLock`: re-entrant in a process, exclusive between processes, reclaimed from a dead holder and from one older than the stale limit |
| `ClaimScan`, `ClaimSave` | the body of `claimTask` |
| `NextRole` | the role loop of `runPickupTick` |
| `StartWorker`, `WorkerReturns`, `SettleSave` | `runWorkerForTask`: read dependency outputs, await the worker, save the outcome over the record as claimed |
| `AuditOk`, `AuditThrows` | `emitAudit` inside the `try` of `runWorkerForTask`, and its `catch` |
| `Crash`, `Restart` | the process dies (killed, or by the unhandled-rejection handler when a tick rejects) and is started again |

Abstractions: one project; timestamps are left out, so within a priority any
eligible task may come first; titles, inputs, outputs and costs are left out;
`requiresApproval` on a record is read by nothing and left out; a task file is
written atomically. The channel reply that follows a settlement swallows its
errors and only delays the next role. The lock library under `file-lock.ts` is
external and modelled by the options it is called with; a stolen lock is
released by its thief.

`TaskLifecycle.tla` is the abstract specification: the status of each task,
moving along the graph in the header of `task-state.ts`, with a claim only when
every dependency is done. The operator may retry or block a task in any status,
and a failing audit append turns a saved result into a failure; the outcome of an
earlier attempt may then be saved over that. Such a task is `disturbed` from then
on (action `Disturb`) and no more is promised of its status; the promise about
every other task stays, those that depend on it included.

`Orchestrator.tla` is one run: the run file (`disk`), the runner's copy
(`mem`), its place in `runOrchestratorRun` (`pc`, `after`, `cur`). `saveRun`
overwrites the file in place, which is two steps (`Truncate`, `Write`) with a
torn file in between; a crash there leaves a file `loadRun` answers `null` for.
`ran` and `oked` are history. The status `skipped` is assigned by no code and
left out; a failing audit append is swallowed by the runner and left out.

`GoalLoop.tla` is the record of one project and everyone who saves it.

| State | Code |
| --- | --- |
| `proj` | `project.json`: `status`, `metadata.iteration`, `iterationCount` |
| `open`, `planned` | batches of tasks that are not settled yet; there are tasks at all |
| `pc`, `snap` | where each writer is, and the record it loaded and will save |
| `replan` | `shouldReplan`, decided before the model is awaited |
| `fromIdle`, `inflight` | history: the open batches that idle handlers planned; who was under way when the project was archived |

| Action | Code |
| --- | --- |
| `OnProjectIdle`, `HandlerEvaluated`, `HandlerPlanned` | the idle hook of `runPickupTick` and `buildGoalLoopHandler`: verdict, reload, plan, save |
| `TickGoalLoop`, `IterationEvaluated`, `IterationPlanned` | `tickGoalLoop` and `runOneIteration` |
| `HttpLoads`, `HttpLists` | the operator's evaluate and replan requests, which run the same iteration |
| `WorkerStarts`, `WorkerEnds` | a worker with the project it was given; the capability broker saves it |
| `OperatorPlans`, `handleArchiveProject`, `Crash` | the operator's other requests; the gateway dies |

A batch stands for its tasks: their life is that of `TaskBoard`, and of the
board the goal loop reads only whether work is open.

`DeliveryQueue.tla` is the write-ahead queue. `file` is the entry file of each
message (retry count, and whether a `recoveryState` is set: the two values it
can have are treated alike), `failed` the directory of that name, `live` the
sender of each message, `at`/`cur`/`todo` each recovery pass with its snapshot,
`claimed` is `entriesInProgress` and `draft` what an update has read and not yet
written: updates of an entry are a read and a rename with other work in between.

| Action | Code |
| --- | --- |
| `Enqueue`, `DirectSend`, `LiveClaim`, `LivePrepares`, `LiveMarks`, `LiveSends`, `LiveOutcome`, `LiveAcks`, `LiveFails` and their `...Writes` | `deliverOutboundPayloads`, with the three queue policies |
| `NoticeSends`, `NoticeAcks`, `NoticeFails`, `NoticeFailWrites` | the restart notice, which uses the queue without a claim |
| `StartupScan`, `Drain`, `Visit`, `Check`, `Reconcile`, `Deliver`, `Ack`, `Fail`, `FailWrites`, `Move`, `PassEnds` | `recoverPendingDeliveries` and `drainPendingDeliveries` |
| `Defer`, `DeferReads`, `DeferWrites`, `DeferEnds` | the recovery's time budget runs out |
| `Crash` | only the files survive |

An accepted or cancelled payload, and one whose `sendPayload` returns no
identity (counted as nothing sent, and no error), end an attempt without error.
A message is one payload; time is whether an entry is found ready or still
backing off; the acknowledgement happens at its rename.

`CommandQueue.tla` has the lanes (`queue`, `active`, `max`, `gen`), the promise
and the task of each command (`entry`, `body`, `tgen`: a task may outlive its
promise) and the restart (`draining`, `wait`, `captured`). The pump of a lane is
synchronous, so it is part of every step that calls it; `Left` is the queue
after its `shift()` calls. `EnqueueCommand`,
`EnqueueNested`, `TaskEnds`, `TaskTimesOut`, `applyGatewayLaneConcurrency`,
`clearCommandLane`, `resetCommandLane`, `RestartBegins`, `DrainTimesOut` and
`RestartEnds` are the operations. `laneOf` contains `resolveGlobalLane`, which
moves work nested in the cron lane to a lane of its own.

`CronService.tla` has the jobs as in memory (`job`), the next run and the running
marker of each as in the state file (`file`; a manual run's preflight and the
start of a waiting run change memory only, and a tick loads the file again), the
config file (`disk`), the jobs of the tick's batch that are still objects of the
store in memory (`held`: until the next forced reload, or until the job is
removed), the start-up (`boot`, `skip`, `deferred`), the runs (`exec`, by owner:
the timer's batch, the catch-up, manual runs) and the timer.

| Action | Code |
| --- | --- |
| `onTimer`, `RunStarts`, `RunEnds`, `TickApplies` | a tick: mark the due jobs, run the batch, apply all results |
| `StartMarks`, `StartPlans`, `StartApplies`, `StartArms` | `start`: interrupted runs, catch-up, timer |
| `add`, `update`, `remove`, `list` | the requests; reads do the maintenance too |
| `Preflight`, `Reserve`, `FinishManual` | a manual run, with the lock released in between |
| `ConfigWritten` | the second file of `saveCronStore` |
| `TimeComes`, `MarkerAges`, `Crash` | time passes, a run takes more than two hours, the process dies |

A block under `locked()` is one step. Time is what it does to a job: its run is
ahead or due, its marker fresh or stuck. Two choices are left open where the
code decides by clock values: whether a failed one-shot that is due at a start
is a retry, and whether a cron job missed a slot while the service was down. A
recurring job is scheduled ahead however its run ended, so one outcome stands
for all.

`MCTaskBoard.tla`, `MCOrchestrator.tla`, `MCGoalLoop.tla`,
`MCDeliveryQueue.tla`, `MCCommandQueue.tla` and `MCCronService.tla` are the
modules TLC runs. The theorems are in `TaskBoardProofs.tla` (types, claims),
`TaskBoardLifecycleProofs.tla` (life cycle and approval),
`OrchestratorProofs.tla`, `GoalLoopProofs.tla`, `DeliveryQueueProofs.tla`,
`CommandQueueProofs.tla` and `CronServiceProofs.tla`.

## The runs

| Run | Instance | Shows |
| --- | --- | --- |
| `TaskBoard_races` | gateway with two overlapping ticks and a second process with one; one task; one retry, block, crash and stolen lock; audit faults are in the next run | `NoDoubleClaim`, `QueuedIsUnclaimed`, `OrphanedOnlyByCrash` |
| `TaskBoard_lifecycle` | the same processes; two tasks, the second depends on the first and needs approval; one retry of either task in any status, one failing audit append, one crash | `ImplementsLifecycle` (refinement of `TaskLifecycle`), `ClaimNeedsOperator`, `MissingOutputWasDisturbed` |
| `TaskBoard_liveness` | one gateway, two ticks, two roles, three tasks in two plans with priorities, a dependency and an approval; one crash and one failing audit append (of a worker's outcome or of a plan) | `EligibleIsClaimed`, `ClaimSettles` |
| `Orchestrator_crash` | four tasks in the shape research, research, write, edit; one role without worker; two crashes, torn files | `NoWorkRepeated`, `OutputsPersisted`, `VerdictIsEarned`, `UninterruptedSettles`, `RunEnds` |
| `Orchestrator_resume` | the same workflow, every role with a worker, one crash | `ReturnsWhenSettled` is violated |
| `GoalLoop_overlap` | two overlapping idle handlers, the goal loop, one operator request, a worker; caps 2 and 1; one failure, archive, plan of the operator or crash | `IdlePlansBounded`, `ArchivedUndoneInFlight`, `PlanningStops`, `IdleIsHandled` |
| `GoalLoop_dedup` | two idle handlers and the goal loop, nothing fails | `PlannedWhenIdle` is violated |
| `DeliveryQueue_recovery` | one message of any kind, startup recovery with a time budget, one reconnect drain, two retries, two faults | `NothingLost`, `MarkedSentOnce`, `SentTwiceOnlyIfOvertaken`, `ClaimsReleased` |
| `DeliveryQueue_best_effort` | two best-effort messages left by an earlier process | `RemovedAfterSuccess` is violated |
| `CommandQueue_lanes` | six commands in a chain of three lanes, two of which hang and have timeouts; limits 1 and 2; each lane reset once | `NoIdleSlot`, `StartsWithinLimit`, `FirstComeFirstServed`, `DrainedMeansSettled`, `EveryCommandSettles` |
| `CronService_runs` | a deleting one-shot that is added and a daily job, one manual run, one retry; one crash, edit or overlong run | `OneRunAtATime`, `NoLeakedMarker`, `OneShotOnce`, `DueSlotKept`, `EnabledJobsRun` |
| `CronService_torn` | the same | `SucceededStaysDone` is violated |

Bounds. A double claim takes two contenders; three ticks in two processes give
both kinds of contention (re-entrant and exclusive), and one task is where they
meet. One retry and one block are enough to put a stale write after an
operator's write; one crash or stolen lock each, anywhere. The lifecycle run
needs a second task for the dependency: the retry, the audit fault and the crash
each may strike the dependency or the dependent, in any order. A block disturbs a
task as a retry does; with one block as well, and without symmetry, the run's
properties were checked too (7.9 million states, longer than a routine run). Two crashes of the
orchestrator let the second one fall into the resume of the first. The theorems
remove these bounds for the properties they state.
Goal loop: two idle handlers are what overlapping ticks need, the other writers
are one each; caps of 2 and 1 are reached, and passed by a writer with a stale
counter; the single event can fall anywhere.
Delivery queue: entries have nothing in common but the order in which a pass
visits them, so one message meets three senders (live, startup, drain); two
faults let a crash follow an ambiguous send, or a storage error a crash.
Command queue: a cron command that awaits a session turn that awaits nested cron
work is the longest chain the code builds; a second turn and two more cron
commands wait behind it.
Cron: one job of each kind and one manual run against the timer and the
catch-up. The safety properties were also checked with two events (2.81 million
states), which takes longer than a routine run. A one-shot is run by hand only
once its time has come.
Ticks of one process are symmetric. Deadlock is not checked: an archived board
with nothing under way, a returned run, a project at rest, a delivered message,
a settled queue and a store without enabled jobs really stop.

Fairness. A tick's steps, a process's prepared writes and the interval timer
are weakly fair: the event loop runs every callback that is ready and a worker's
promise settles (workers call services with timeouts). `Restart` is weakly fair:
a gateway that exited is started again by its supervisor and contacted, which is
what starts its pickup loop (`projects-runtime-singleton.ts`). Nothing is
assumed of the operator or the planner. For the orchestrator the runner's steps
are weakly fair, and a crashed run is resumed from its file by somebody: that is
the use the code was written for, though no command exposes it yet.
For the goal loop the pickup timer, the models' answers and the workers are
weakly fair; the goal loop's own timer is opt-in and not assumed. For the
delivery queue the continuations of awaited calls are; nobody has to send,
reconnect or crash. For the command queue tasks that can return do and timers
fire. For cron the timer, the start-up, the end of runs and the passing of time
are; requests and faults need not happen. That every run ends is an assumption:
most runs have a timeout, but a job may be configured without one, and when such
a job hangs, no other job runs any more (see the observations below).

## What the violations show

* **A resumed run skips the interrupted task** (`Orchestrator_resume`). The
  runner's comment and `README-ORCHESTRATOR.md:67` promise to pick up where the
  run left off; the task that was `running` is never taken again, its dependents
  wait for ever and the run returns with status `running`.

* **Overlapping handlers plan twice** (`GoalLoop_dedup`). The pickup loop leaves
  deduplication to the idle handler, and the handler says that its new tasks keep
  it from being called again. It awaits two model calls before there are new
  tasks, ticks come every 2.5 seconds: a second one evaluates and plans as well,
  and both save the same iteration number.
* **A failed best-effort replay is acknowledged** (`DeliveryQueue_best_effort`).
  The queue promises to remove an entry after success. Recovery replays without
  a queue id, the swallowed error is then not looked at, and the entry goes.
* **A finished one-shot runs again** (`CronService_torn`). The state file is
  replaced before the config file; a crash in between leaves a deleted one-shot
  in the config without its state, and the next start finds it due.

Other disagreements, which the models contain and the properties make exceptions
for:

* retry is accepted in every status: it puts a task that waits for approval into
  the queue (`docs/projects.md:28` says it waits for the operator's approval).
  `ClaimNeedsOperator` therefore counts a retry of the task as the operator's
  decision: a claim needs one, but a retry will do;
* after a retry the outcome of the attempt still running is written over it
  (`queued` to `done`, past the graph in the header of `task-state.ts`), and a
  block is undone in the same way: `ImplementsLifecycle` promises nothing about
  the status of a task once it is disturbed;
* a dependency that is retried, blocked, or failed by the audit log between the
  claim and the start is missing from the worker's input, although
  `docs/projects.md:85-86` says that it gets the outputs of its dependencies:
  `MissingOutputWasDisturbed` shows that this is the only way;
* a failing audit append turns a saved `done` into `failed`;
* a task whose process died stays in progress until the operator retries it,
  although `docs/projects.md:30` says a worker is on it; `OrphanedOnlyByCrash`
  shows that a crash is the only way there;
* with the hypothesis of `NoDoubleClaim` dropped, a lock holder stalled past five
  seconds claims a task another process has claimed;
* without any fault a message is sent twice: it is enqueued, the startup recovery
  scans the queue, finds the entry unclaimed, sends, acknowledges and releases it,
  and only then does its own sender claim it, find no entry to mark, and send it
  all the same (`deliver.ts:1139`). `deliver.test.ts:2485-2489` says of a drain that
  claims the entry first that "the live path must not send"; it covers the drain
  that still holds its claim. `SentTwiceOnlyIfOvertaken` shows that, with the next
  item, it is the only way without faults;
* when the recovery's time budget runs out, the remaining entries are rewritten
  without a claim (`delivery-queue-recovery.ts:318`): an entry that its sender has
  acknowledged meanwhile comes back, or loses its mark, and is sent again
  (`clobbered` in `MarkedSentOnce` and `SentTwiceOnlyIfOvertaken`);
* a replay is not marked before it is sent, so a crash before its acknowledgement
  sends it once more (`exposed` in `MarkedSentOnce`);
* a job whose marker is cleared while it runs (it is disabled, run by hand while
  disabled, or its marker is two hours old) may be run a second time beside it
  (`excused` in `OneRunAtATime`);
* a cron slot that exists in memory only is lost: a manual run's preflight during
  the start-up computes the next run without saving it, the start's own
  maintenance finds nothing to change and does not save it either, and the tick
  at that time loads the file again and schedules the job ahead. The maintenance is
  meant to keep past-due jobs from being "silently skipped" (`timer.ts:865-867`);
  `DueSlotKept` holds of slots that are due in memory and in the file;
* the status in an orchestrator's run file stays `pending` until the run ends,
  although clients poll it.

Observations that no property states: the header of `goal-loop.ts` counts
replans, the code counts every evaluation; nothing sets a project that needs
input back to active; every job of a cron batch is marked running when the batch
starts, so a crash disables a one-shot that was still waiting in it, and a job
disabled or removed while it waits there runs all the same; adding a cron job
recomputes all of them and can skip another's due slot (the exception in
`DueSlotKept`); a cron job without timeout that hangs keeps every other from
running; a request may reuse the run id of an orchestrator run, even one under
way, and a second runner then starts over on its file (`orchestrator-http.ts:193`);
a planner that keeps throwing is paid for again on every tick; the restart notice
sends its queue entry without a claim, so that the startup
recovery may send it too; and in-process claims do not bind a second process on
the same state directory.

## What is proved

TLAPS checks the theorems for every value of the constants: any sets of
processes, ticks, tasks, messages, jobs and lanes, any caps and bounds, any
number of faults. Every safety property that a passing run checks is a theorem,
some of them under a hypothesis the theorem states. The properties make their
exceptions themselves, where the code behaves otherwise; a theorem says no more
than the property it names. What is assumed of the constants is named in the
modules:

* `BoardAssumption`, `OrchestratorAssumption`, `GoalLoopAssumption`,
  `DeliveryAssumption`, `CommandQueueAssumption`, `CronServiceAssumption`: the
  constants have their types, and names that stand for different things differ;
  for the orchestrator also that a plan lists tasks after their dependencies;
* `NoneIsNoRecord`, `NotRuns`, `NoneIsNoEntry`: the value that stands for a
  missing file is no record.

### The board

* `TypeCorrect`: types, together with `HeldInv` (a tick past its claim knows
  what it claimed), without which the record a worker settles would have no type.
* `QueueIsUnclaimed`: `QueuedIsUnclaimed`. It is not inductive, because a write
  prepared earlier may put a record back; `UnclaimedInv` says the same of the
  prepared writes.
* `ClaimedOncePerEntry`: `NoDoubleClaim`. The inductive invariant `ClaimInv` has
  three parts: `LockInv` (the ticks inside the lock are of one process, and a
  tick in its critical section is among them), `PendInv` (a prepared claim still
  has an unused entry in the queue) and `QueueInv` (so does a queued task). The
  step that needs all three is `ClaimSave`: using up an entry could spoil another
  prepared claim, which would have to belong to another process inside the lock.
  It holds until a lock is stolen.
* `OnlyCrashOrphans`: `OrphanedOnlyByCrash`, from `PreparedInv` (what a process
  has prepared to write fits what it is doing) and `WorkerInv` (a task in
  progress has a tick at work on it).
* `ClaimsNeedDecisions`: `ClaimNeedsOperator`, from `GateInv`: every entry of a
  task that needs approval into the queue, the one about to be saved included, has
  a decision of its own; `NoDoubleClaim` does the rest. Retries, blocks, audit
  faults and crashes may happen.
* `MissingOutputsWereDisturbed` and `BoardImplementsLifecycle`:
  `MissingOutputWasDisturbed` and the refinement of `TaskLifecycle`, each step of
  the board mapped to a step of the graph or a stutter. The invariant `LifeInv`
  says, of the tasks that are not disturbed, that what a process is about to
  overwrite is still what it read (`FreshInv`), that no two ticks hold the same
  task (`Alone`), and that the dependencies of a task at work stay done
  (`HoldInv`).

These three assume `OneGateway`, one process that serves the operator, which is
how the gateway is deployed (two could decide from the same record at the same
time), and hold until a lock is stolen.

### The orchestrator

* `CalledAtMostOnce`, `OutputsOnDisk`, `EarnedVerdict`: three safety invariants
  from one inductive invariant `IInv`. Its core is `Truthful`, of the runner's
  copy and of the file alike: pending means never called, succeeded means the
  worker returned ok, failed that it did not; and `Final`: a final status was
  computed from the tasks beside it. `SavedInv` (the file equals the copy while
  a worker runs) carries truth over a crash.
* `SettlesUninterrupted`: `UninterruptedSettles`, from `CalmInv`: without a
  crash the only running task is the current one, and a pass of the loop that
  finds nothing to run has settled everything. That a task remains runnable
  until then is a well-founded induction over the order of the plan.
* `TypeCorrect`.

### The goal loop

From one inductive invariant, `GoalInvariant`; every step is first summed up as
what it does to one writer (it loads, goes on, or finishes and saves), so that
each part is preserved over five kinds of steps and not over fourteen.

* `LoopTypeCorrect`: the counters keep their caps although everyone overwrites
  them. `CapInv`: a record that says the project is active has not passed the
  project's cap, wherever a copy of it is, and a request adds one for its event.
* `LoopIdlePlansBounded`: `IdlePlansBounded` is inductive together with the types,
  which say that the batches of idle handlers are among the open ones. The idle
  check and the start of a handler are one step, in which nothing is open and at
  least one more tick is free; a handler that plans trades itself for a batch.
* `LoopArchiveHolds`: `ArchiveInv`, whoever is under way while the project is
  archived was so when it was archived, or is a request.

### The delivery queue

From `QueueInvariant`.

* `QueueClaimsExclude`: at most one of the live send and the recovery passes
  works on a message, and `entriesInProgress` has it (`ClaimInv`). The other
  theorems rest on it.
* `QueueLosesNothing` (best-effort messages are exempt: for them it is false, see
  the violations): with `AckInv` (only a message that is settled is
  acknowledged, or one whose errors are swallowed) and `DraftInv` (an update has
  a draft exactly between its read and its write).
* `QueueSendsMarkedOnce` (clobbered entries and messages first accepted unmarked
  are exempt; a replay after the answer that nothing was sent is allowed):
  `KeepsMark`, every copy of an entry that a claim holder
  may write carries the mark, and `MarksLate`, only the live send marks, and
  after it got its claim.
* `QueueSendsTwiceOnlyIfOvertaken`: `SoonRemoved` and `NotesOvertaking`, without
  faults an entry outlives the platform's acceptance only as long as its holder
  takes to remove it.
* `QueueTypeCorrect`.

### The command queue

From `LanesInvariant`. `Shape` says that the active set of a lane is the set of
its started commands of the current generation and that a lane's sequence holds
its queued commands, each once; `FullInv` that a lane with a queue is full. The
pump is a lemma of its own about one lane's sequence (`LanePump`), which every
operation then cites.

* `LanesNeverIdle`, `LanesKeepLimit`, `LanesKeepOrder`: what the pump does and
  every operation calls it for; the limit is that of the step, since a lowered
  limit does not stop what runs.
* `LanesDrainTruthfully`: with `CapturedInv` and `ReleasedInv` (a started command
  has its slot unless a reset took it away).
* `LanesTypeCorrect`.

### The cron service

From `CronInvariant`: types, and for each job `JobInv`. Its parts tie the marker,
in memory and in the state file, to the run (`MarkerInv`), a run to its only owner
(`SoleInv`), and a one-shot that succeeded to the marker that it keeps until it is
disabled (`SuccInv`). Again each step is first summed up as what it does to one
job.

* `CronMarkersHaveRuns` and `CronTypeCorrect` have no exception.
* `CronRunsExclude` says nothing of a job whose marker was cleared under its run
  (it was disabled, run by hand while disabled, or declared stuck).
* `CronOneShotOnce` says nothing of a one-shot whose config write a crash cut off
  (`CronService_torn` shows it run again), that was enabled again, or whose marker
  was cleared under its run.
* `CronDueSlotKept`, an action property, from the same summary, speaks of slots
  that are due in memory and in the file, and excepts the staggering at a start,
  an update of the job and the addition of any job.

### What stays with TLC

The liveness properties (`EligibleIsClaimed`, `ClaimSettles`, `RunEnds`,
`PlanningStops`, `IdleIsHandled`, `ClaimsReleased`, `EveryCommandSettles`,
`EnabledJobsRun`): fairness and ENABLED are out of the prover's reach. The four
violated properties are counterexamples of TLC.

## What is not modelled

Of the modelled components: the prompts and parsers of the planner and of the
evaluators, torn task files, several projects in one tick, two runners on one
run id; messages of several payloads, the migration of old queue entries;
schedule expressions that do not parse, patches that reschedule a job, failure
alerts, two processes on one cron store.

Whole components: the contents of the audit log (its failures are modelled where
callers notice them), the requests, coding and activation of capabilities (of
them only the broker's save of the project is modelled), exec approvals, the
task and flow registries, pairing, commitments. The hazards list says what is
hard about the first two.

Model clients, workers' own work, message formatting, costs, the rest of the
inherited gateway, agents, channels, plugins, command line, configuration, apps
and user interface are I/O, presentation or adapters to external services. They
are by far the largest part of the repository, and what a model could say of
them would not be a translation of their code.

## Plan

1. Proofs: abstract specifications of the services, each refined step by step
   from the invariant that is there already: a lane as a first-come-first-served
   semaphore, an entry of the delivery queue as a message that is pending,
   delivered or failed, a cron job as idle or running.
2. Models still worth writing: `AuditLog` (append as read-last-hash and write,
   several processes, torn tails), `Capabilities` (life cycles over lists that
   are rewritten without a lock), and the composition of `GoalLoop` with
   `TaskBoard` through the open tasks.
