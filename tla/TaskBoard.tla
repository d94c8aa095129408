------------------------------ MODULE TaskBoard ------------------------------
(***************************************************************************)
(* The task board of one project and the auto-pickup loops that work it:   *)
(* task files on disk (projects/store.ts), the lifecycle helpers           *)
(* (projects/task-state.ts), race-safe claiming under the project's file   *)
(* lock (projects/task-claim.ts), the pickup tick (projects/               *)
(* pickup-loop.ts), the planner's persistPlan and the operator's HTTP      *)
(* handlers (gateway/projects-http.ts).                                    *)
(*                                                                         *)
(* A process runs one JavaScript event loop: a synchronous stretch of code *)
(* excludes the other code of its own process and nothing else.  A stretch *)
(* that reads a task file and later writes one is therefore two steps here *)
(* (the read leaves the computed record in pend), so that the file         *)
(* operations of other processes fall between them.                        *)
(***************************************************************************)
EXTENDS Integers, FiniteSets

CONSTANTS
  Proc,            \* processes that share the projects directory
  HttpProc,        \* those that serve /v1/projects
  Tick,            \* ticks that can be in flight; a timer fires regardless of earlier ticks
  ProcOf,          \* the process a tick runs in
  Task,            \* task ids
  Plans,           \* the sets of tasks one persistPlan call saves
  NRoles,          \* roles with a worker, numbered in the order a tick asks them
  RoleOf,          \* the role of each task
  DependsOn,       \* ids each task depends on; an id outside Task is never on disk
  Priority,        \* PRIORITY_ORDER of each task's priority
  NeedsApproval,   \* tasks whose draft says requiresApproval
  None,            \* no process, no record, no pending write
  MaxRetries, MaxBlocks, MaxCrashes, MaxAuditFaults, MaxStalls   \* bounds of the model

ASSUME BoardAssumption ==
  /\ HttpProc \subseteq Proc
  /\ ProcOf \in [Tick -> Proc]
  /\ Plans \subseteq SUBSET Task
  /\ NRoles \in Nat \ {0}
  /\ RoleOf \in [Task -> Nat]
  /\ \A t \in Task : t \notin DependsOn[t]     \* persistPlan filters a task's own id
  /\ Priority \in [Task -> Nat]
  /\ NeedsApproval \subseteq Task
  /\ None \notin Tick /\ None \notin Proc /\ None \notin Task
  /\ {MaxRetries, MaxBlocks, MaxCrashes, MaxAuditFaults, MaxStalls} \subseteq Nat

VARIABLES
  store,      \* task files: a record, or None while the file does not exist
  active,     \* whether project.json has status "active"
  up,         \* processes that are running
  lock,       \* ticks inside withFileLock on .tasks.lock
  pc,         \* where each tick is
  at,         \* the role each tick is asking
  held,       \* the task each tick claimed, as it was when claimed
  got,        \* dependencies whose outputs the tick's worker was given
  pend,       \* per process: the record it has computed and is about to save
  planning,   \* per process: drafts persistPlan has still to save
  faults,     \* crashes, retries, blocks, audit faults and stolen locks so far
  enqueued,   \* history: times each task was saved as "queued"
  claims,     \* history: times each task was claimed
  decisions,  \* history: times the operator approved or retried each task
  disturbed   \* history: tasks retried, blocked, or hit by an audit fault

vars == <<store, active, up, lock, pc, at, held, got, pend, planning, faults,
          enqueued, claims, decisions, disturbed>>

Status == {"backlog", "queued", "in-progress", "review", "done", "blocked", "failed"}
Outcome == {"done", "review", "failed"}
TaskRecord == [status : Status, claimedBy : Proc \cup {None}, attempts : Nat]
Held == [id : Task, rec : TaskRecord]
PendingWrite == [by : Tick \cup {None}, id : Task, rec : TaskRecord]
Where == {"off", "claim", "locked", "unlock", "claimed", "running",
          "settle", "audit", "resettle", "reaudit"}

ASSUME NoneIsNoRecord == None \notin Held \cup TaskRecord \cup PendingWrite

OnDisk(t) == store[t] # None
HasStatus(t, s) == store[t] # None /\ store[t].status = s
-----------------------------------------------------------------------------
(* Lifecycle helpers, projects/task-state.ts *)

\* Mutant: the draft's requiresApproval is ignored.
CreateAlwaysQueued(t) ==
  [status |-> "queued", claimedBy |-> None, attempts |-> 0]

createTaskRecord(t) ==
  [status |-> IF t \in NeedsApproval THEN "backlog" ELSE "queued",
   claimedBy |-> None, attempts |-> 0]

\* Mutant: a dependency in review does not pause its dependents.
EligibleAfterReview(t) ==
  /\ HasStatus(t, "queued")
  /\ store[t].claimedBy = None
  /\ \A d \in DependsOn[t] : d \in Task /\ (HasStatus(d, "done") \/ HasStatus(d, "review"))

isTaskEligibleForPickup(t) ==
  /\ HasStatus(t, "queued")
  /\ store[t].claimedBy = None
  /\ \A d \in DependsOn[t] : d \in Task /\ HasStatus(d, "done")

\* Highest priority first.  Within a priority the code takes the oldest
\* createdAt; every age order is allowed here by leaving that choice open.
findEligibleTask(role) ==
  LET eligible == {t \in Task : RoleOf[t] = role /\ isTaskEligibleForPickup(t)}
  IN  {t \in eligible : \A u \in eligible : Priority[u] <= Priority[t]}

markTaskClaimed(rec, p) ==
  [status |-> "in-progress", claimedBy |-> p, attempts |-> rec.attempts + 1]

\* Mutant: a result that goes to review is saved without the new status.
SettleSkipsReview(rec, outcome) ==
  [rec EXCEPT !.status = IF outcome = "review" THEN @ ELSE outcome]

\* markTaskDone, markTaskInReview and markTaskFailed: the claim stays.
markTaskSettled(rec, outcome) == [rec EXCEPT !.status = outcome]

markTaskBlocked(rec) == [rec EXCEPT !.status = "blocked"]

resetClaim(rec) == [rec EXCEPT !.claimedBy = None]

\* markTaskQueued; the requiresApproval flag it drops is read by nothing.
approveTaskForQueue(rec) ==
  IF rec.status = "backlog" THEN [resetClaim(rec) EXCEPT !.status = "queued"] ELSE rec

\* Mutant: a retry leaves the claim on the record.
RetryKeepsClaim(rec) == [rec EXCEPT !.status = "queued"]

resetTaskForRetry(rec) == [resetClaim(rec) EXCEPT !.status = "queued"]
-----------------------------------------------------------------------------
Init ==
  /\ store = [t \in Task |-> None]
  /\ active = TRUE
  /\ up = Proc
  /\ lock = {}
  /\ pc = [k \in Tick |-> "off"]
  /\ at = [k \in Tick |-> 1]
  /\ held = [k \in Tick |-> None]
  /\ got = [k \in Tick |-> {}]
  /\ pend = [p \in Proc |-> None]
  /\ planning = [p \in Proc |-> {}]
  /\ faults = [crash |-> 0, retry |-> 0, block |-> 0, audit |-> 0, stall |-> 0]
  /\ enqueued = [t \in Task |-> 0]
  /\ claims = [t \in Task |-> 0]
  /\ decisions = [t \in Task |-> 0]
  /\ disturbed = {}

\* The event loop of p is inside a synchronous stretch of code.
Busy(p) ==
  \/ pend[p] # None
  \/ planning[p] # {}
  \/ \E k \in Tick : ProcOf[k] = p /\ pc[k] \in {"audit", "reaudit"}

\* Every write of a task file is a whole-file overwrite.
saveTask(t, rec) ==
  /\ store' = [store EXCEPT ![t] = rec]
  /\ enqueued' = [enqueued EXCEPT ![t] = IF rec.status = "queued" THEN @ + 1 ELSE @]

history == <<enqueued, claims, decisions, disturbed>>
Decide(t) == decisions' = [decisions EXCEPT ![t] = @ + 1]
Disturb(t) == disturbed' = disturbed \cup {t}
-----------------------------------------------------------------------------
(* persistPlan: the drafts of a plan are saved one by one in one stretch. *)

PlanStart(p, S) ==
  /\ p \in up /\ ~Busy(p)
  /\ \A t \in S : ~OnDisk(t)      \* a plan's ids carry a fresh prefix
  /\ \A q \in Proc : planning[q] \cap S = {}
  /\ planning' = [planning EXCEPT ![p] = S]
  /\ UNCHANGED <<store, active, up, lock, pc, at, held, got, pend, faults, history>>

PlanSave(p, t) ==
  /\ t \in planning[p]
  /\ saveTask(t, createTaskRecord(t))
  /\ planning' = [planning EXCEPT ![p] = @ \ {t}]
  /\ UNCHANGED <<active, up, lock, pc, at, held, got, pend, faults, claims, decisions, disturbed>>

\* A write or the audit append after it throws: the caller answers an error,
\* the drafts that are left are never saved, those that were saved stay.
PlanThrows(p) ==
  /\ planning[p] # {}
  /\ faults.audit < MaxAuditFaults
  /\ faults' = [faults EXCEPT !.audit = @ + 1]
  /\ planning' = [planning EXCEPT ![p] = {}]
  /\ UNCHANGED <<store, active, up, lock, pc, at, held, got, pend, history>>
-----------------------------------------------------------------------------
(* The operator's handlers: load, decide, save, in one stretch.  None of   *)
(* them takes the project's lock.                                          *)

OperatorReads(p, t, rec) ==
  /\ p \in HttpProc \cap up /\ ~Busy(p)
  /\ pend' = [pend EXCEPT ![p] = [by |-> None, id |-> t, rec |-> rec]]
  /\ UNCHANGED <<store, active, up, lock, pc, at, held, got, planning, enqueued, claims>>

\* Mutant: approve does not answer 409 to a task that left the backlog.
ApproveAnyStatus(p, t) ==
  /\ OnDisk(t) /\ decisions[t] = 0
  /\ OperatorReads(p, t, approveTaskForQueue(store[t]))
  /\ Decide(t)
  /\ UNCHANGED <<faults, disturbed>>

ApproveTask(p, t) ==
  /\ HasStatus(t, "backlog")      \* 409 otherwise
  /\ OperatorReads(p, t, approveTaskForQueue(store[t]))
  /\ Decide(t)
  /\ UNCHANGED <<faults, disturbed>>

RetryTask(p, t) ==
  /\ OnDisk(t)
  /\ faults.retry < MaxRetries
  /\ OperatorReads(p, t, resetTaskForRetry(store[t]))
  /\ faults' = [faults EXCEPT !.retry = @ + 1]
  /\ Decide(t) /\ Disturb(t)

BlockTask(p, t) ==
  /\ OnDisk(t)
  /\ faults.block < MaxBlocks
  /\ OperatorReads(p, t, markTaskBlocked(store[t]))
  /\ faults' = [faults EXCEPT !.block = @ + 1]
  /\ Disturb(t) /\ UNCHANGED decisions

OperatorSave(p) ==
  /\ pend[p] # None /\ pend[p].by = None
  /\ saveTask(pend[p].id, pend[p].rec)
  /\ pend' = [pend EXCEPT ![p] = None]
  /\ UNCHANGED <<active, up, lock, pc, at, held, got, planning, faults, claims, decisions, disturbed>>

ArchiveProject(p) ==
  /\ p \in HttpProc \cap up /\ ~Busy(p)
  /\ active
  /\ active' = FALSE
  /\ UNCHANGED <<store, up, lock, pc, at, held, got, pend, planning, faults, history>>
-----------------------------------------------------------------------------
(* The pickup tick *)

TickStarts(k) ==
  /\ pc[k] = "off"
  /\ ProcOf[k] \in up /\ ~Busy(ProcOf[k])
  /\ active                       \* read once per tick, never again
  /\ pc' = [pc EXCEPT ![k] = "claim"]
  /\ at' = [at EXCEPT ![k] = 1]
  /\ UNCHANGED <<store, active, up, lock, held, got, pend, planning, faults, history>>

\* Mutant: the scan does not wait for another process's lock.
AcquireWithoutWaiting(k) ==
  /\ pc[k] = "claim"
  /\ ~Busy(ProcOf[k])
  /\ lock' = lock \cup {k}
  /\ pc' = [pc EXCEPT ![k] = "locked"]
  /\ UNCHANGED <<store, active, up, at, held, got, pend, planning, faults, history>>

\* The lock is re-entrant within a process; between processes it excludes.
\* The sidecar file of a dead holder is reclaimed at once, so a crash frees
\* the lock (Crash); that of a holder stalled past the stale limit is stolen.
AcquireLock(k) ==
  /\ pc[k] = "claim"
  /\ ~Busy(ProcOf[k])
  /\ \/ /\ \A j \in lock : ProcOf[j] = ProcOf[k]
        /\ lock' = lock \cup {k}
        /\ UNCHANGED faults
     \/ /\ \E j \in lock : ProcOf[j] # ProcOf[k]
        /\ faults.stall < MaxStalls
        /\ faults' = [faults EXCEPT !.stall = @ + 1]
        /\ lock' = {k}
  /\ pc' = [pc EXCEPT ![k] = "locked"]
  /\ UNCHANGED <<store, active, up, at, held, got, pend, planning, history>>

ClaimScan(k) ==
  LET p == ProcOf[k]
      found == findEligibleTask(at[k])
  IN  /\ pc[k] = "locked"
      /\ ~Busy(p)
      /\ \/ /\ found = {}
            /\ pc' = [pc EXCEPT ![k] = "unlock"]
            /\ UNCHANGED pend
         \/ \E t \in found :
            /\ pend' = [pend EXCEPT ![p] = [by |-> k, id |-> t,
                                            rec |-> markTaskClaimed(store[t], p)]]
            /\ UNCHANGED pc
      /\ UNCHANGED <<store, active, up, lock, at, held, got, planning, faults, history>>

ClaimSave(k) ==
  LET w == pend[ProcOf[k]]
  IN  /\ pc[k] = "locked"
      /\ w # None /\ w.by = k
      /\ saveTask(w.id, w.rec)
      /\ claims' = [claims EXCEPT ![w.id] = @ + 1]
      /\ held' = [held EXCEPT ![k] = [id |-> w.id, rec |-> w.rec]]
      /\ pend' = [pend EXCEPT ![ProcOf[k]] = None]
      /\ pc' = [pc EXCEPT ![k] = "unlock"]
      /\ UNCHANGED <<active, up, lock, at, got, planning, faults, decisions, disturbed>>

\* Mutant: one role too many.
NextRolePastEnd(k) ==
  IF at[k] <= NRoles
  THEN /\ pc' = [pc EXCEPT ![k] = "claim"]
       /\ at' = [at EXCEPT ![k] = @ + 1]
  ELSE /\ pc' = [pc EXCEPT ![k] = "off"]
       /\ at' = [at EXCEPT ![k] = 1]

\* Mutant: the tick returns after the first role.
FirstRoleOnly(k) ==
  /\ pc' = [pc EXCEPT ![k] = "off"]
  /\ at' = [at EXCEPT ![k] = 1]

\* On to the next role of the project, or the end of the tick.
NextRole(k) ==
  IF at[k] < NRoles
  THEN /\ pc' = [pc EXCEPT ![k] = "claim"]
       /\ at' = [at EXCEPT ![k] = @ + 1]
  ELSE /\ pc' = [pc EXCEPT ![k] = "off"]
       /\ at' = [at EXCEPT ![k] = 1]

ReleaseLock(k) ==
  /\ pc[k] = "unlock"
  /\ ~Busy(ProcOf[k])
  /\ lock' = lock \ {k}
  /\ IF held[k] = None
     THEN NextRole(k)
     ELSE pc' = [pc EXCEPT ![k] = "claimed"] /\ UNCHANGED at
  /\ UNCHANGED <<store, active, up, held, got, pend, planning, faults, history>>

\* The lock has been released: the board may have changed since the claim.
StartWorker(k) ==
  /\ pc[k] = "claimed"
  /\ ~Busy(ProcOf[k])
  /\ got' = [got EXCEPT ![k] = {d \in DependsOn[held[k].id] \cap Task : HasStatus(d, "done")}]
  /\ pc' = [pc EXCEPT ![k] = "running"]
  /\ UNCHANGED <<store, active, up, lock, at, held, pend, planning, faults, history>>

\* The outcome is written over the record as it was claimed.
WorkerReturns(k, outcome) ==
  /\ pc[k] = "running"
  /\ ~Busy(ProcOf[k])
  /\ pend' = [pend EXCEPT ![ProcOf[k]] =
                 [by |-> k, id |-> held[k].id,
                  rec |-> markTaskSettled(held[k].rec, outcome)]]
  /\ pc' = [pc EXCEPT ![k] = "settle"]
  /\ UNCHANGED <<store, active, up, lock, at, held, got, planning, faults, history>>

SettleSave(k) ==
  LET w == pend[ProcOf[k]]
  IN  /\ pc[k] \in {"settle", "resettle"}
      /\ w # None /\ w.by = k
      /\ saveTask(w.id, w.rec)
      /\ pend' = [pend EXCEPT ![ProcOf[k]] = None]
      /\ pc' = [pc EXCEPT ![k] = IF @ = "settle" THEN "audit" ELSE "reaudit"]
      /\ UNCHANGED <<active, up, lock, at, held, got, planning, faults, claims, decisions, disturbed>>

AuditOk(k) ==
  /\ pc[k] \in {"audit", "reaudit"}
  /\ NextRole(k)
  /\ held' = [held EXCEPT ![k] = None]
  /\ got' = [got EXCEPT ![k] = {}]
  /\ UNCHANGED <<store, active, up, lock, pend, planning, faults, history>>

\* An append that throws lands in the catch of runWorkerForTask, which saves
\* the task as failed whatever was saved before.  A second throw leaves the
\* tick as an unhandled rejection and ends the process (Crash).
AuditThrows(k) ==
  /\ pc[k] = "audit"
  /\ faults.audit < MaxAuditFaults
  /\ faults' = [faults EXCEPT !.audit = @ + 1]
  /\ pend' = [pend EXCEPT ![ProcOf[k]] =
                 [by |-> k, id |-> held[k].id,
                  rec |-> markTaskSettled(held[k].rec, "failed")]]
  /\ pc' = [pc EXCEPT ![k] = "resettle"]
  /\ Disturb(held[k].id)
  /\ UNCHANGED <<store, active, up, lock, at, held, got, planning, enqueued, claims, decisions>>
-----------------------------------------------------------------------------
(* A process dies: killed, or by a rejection no tick handles (a lock       *)
(* timeout, an audit append that throws).  Only the files survive.         *)
Crash(p) ==
  LET mine == {k \in Tick : ProcOf[k] = p}
  IN  /\ p \in up
      /\ faults.crash < MaxCrashes
      /\ faults' = [faults EXCEPT !.crash = @ + 1]
      /\ up' = up \ {p}
      /\ lock' = lock \ mine
      /\ pc' = [k \in Tick |-> IF k \in mine THEN "off" ELSE pc[k]]
      /\ at' = [k \in Tick |-> IF k \in mine THEN 1 ELSE at[k]]
      /\ held' = [k \in Tick |-> IF k \in mine THEN None ELSE held[k]]
      /\ got' = [k \in Tick |-> IF k \in mine THEN {} ELSE got[k]]
      /\ pend' = [pend EXCEPT ![p] = None]
      /\ planning' = [planning EXCEPT ![p] = {}]
      /\ UNCHANGED <<store, active, history>>

Restart(p) ==
  /\ p \in Proc \ up
  /\ up' = up \cup {p}
  /\ UNCHANGED <<store, active, lock, pc, at, held, got, pend, planning, faults, history>>
-----------------------------------------------------------------------------
Operator(p) ==
  \/ \E t \in Task : ApproveTask(p, t) \/ RetryTask(p, t) \/ BlockTask(p, t)
  \/ ArchiveProject(p)

Planner(p) == (\E S \in Plans : PlanStart(p, S)) \/ PlanThrows(p)

\* What the code does by itself once it has been started.
TickStep(k) ==
  \/ AcquireLock(k) \/ ClaimScan(k) \/ ClaimSave(k) \/ ReleaseLock(k)
  \/ StartWorker(k)
  \/ \E outcome \in Outcome : WorkerReturns(k, outcome)
  \/ SettleSave(k) \/ AuditOk(k)

Turn(p) == OperatorSave(p) \/ \E t \in Task : PlanSave(p, t)

Next ==
  \/ \E p \in Proc : Operator(p) \/ Planner(p) \/ Turn(p) \/ Crash(p) \/ Restart(p)
  \/ \E k \in Tick : TickStarts(k) \/ TickStep(k) \/ AuditThrows(k)

Spec == Init /\ [][Next]_vars
-----------------------------------------------------------------------------
(* Properties *)

\* The values each variable takes.
TypeOK ==
  /\ store \in [Task -> TaskRecord \cup {None}]
  /\ active \in BOOLEAN
  /\ up \subseteq Proc
  /\ lock \subseteq Tick
  /\ pc \in [Tick -> Where]
  /\ at \in [Tick -> 1..NRoles]
  /\ held \in [Tick -> Held \cup {None}]
  /\ got \in [Tick -> SUBSET Task]
  /\ pend \in [Proc -> PendingWrite \cup {None}]
  /\ planning \in [Proc -> SUBSET Task]
  /\ faults \in [crash : Nat, retry : Nat, block : Nat, audit : Nat, stall : Nat]
  /\ enqueued \in [Task -> Nat]
  /\ claims \in [Task -> Nat]
  /\ decisions \in [Task -> Nat]
  /\ disturbed \subseteq Task

\* "Two workers can't claim the same task even if they race": however many
\* loops scan the board, a task is claimed at most once for each time it was
\* put in the queue (claimTask under the project's lock), as long as the lock
\* was never taken from a live holder that stalled past the stale limit.
NoDoubleClaim == faults.stall = 0 => \A t \in Task : claims[t] <= enqueued[t]

\* isTaskEligibleForPickup also wants claimedBy unset: every path that puts
\* a task back in the queue clears the claim, or the task would sit in the
\* queue for ever without being eligible.
QueuedIsUnclaimed == \A t \in Task : HasStatus(t, "queued") => store[t].claimedBy = None

\* A task in "in-progress" has a tick that claimed it and still runs it.
InProgressHasWorker ==
  \A t \in Task : HasStatus(t, "in-progress") =>
    \E k \in Tick : held[k] # None /\ held[k].id = t

\* Only the death of a process leaves a task in progress without a worker:
\* no order of retries, blocks, stolen locks and stale writes does.
OrphanedOnlyByCrash == faults.crash = 0 => InProgressHasWorker

\* "Waiting for operator approval before pickup": every claim of a task that
\* needs approval uses up a decision of its own, an approve or a retry of that
\* task by the operator.  A plan, a block, a crash, a late outcome or a save of
\* something else never puts it in the queue.  (A retry counts as an approval:
\* handleRetryTask asks for no more.)  A stolen lock lets one decision be used
\* twice.
ClaimNeedsOperator ==
  faults.stall = 0 => \A t \in NeedsApproval : claims[t] <= decisions[t]

\* "... and the outputs of its dependencies": they are read after the lock was
\* released, so one may be missing.  It was then itself retried or blocked by
\* the operator, or marked failed because its audit append threw; what happens
\* to other tasks, crashes and claims of other loops do not take it away.
MissingOutputWasDisturbed ==
  faults.stall = 0 =>
    \A k \in Tick : pc[k] = "running" => DependsOn[held[k].id] \ got[k] \subseteq disturbed

\* The board implements the lifecycle of its tasks, each until it is disturbed.
StatusOf ==
  [t \in Task |-> IF t \in disturbed THEN "disturbed"
                  ELSE IF OnDisk(t) THEN store[t].status ELSE "absent"]
Lifecycle == INSTANCE TaskLifecycle WITH status <- StatusOf
ImplementsLifecycle == Lifecycle!Spec

\* The timer keeps firing, a worker's promise settles, a gateway that exited
\* is started again and contacted (the first contact starts its loop).  The
\* operator need not approve, retry, block or plan anything.
Fairness ==
  /\ \A p \in Proc : WF_vars(Turn(p)) /\ WF_vars(Restart(p))
  /\ \A k \in Tick : WF_vars(TickStarts(k)) /\ WF_vars(TickStep(k))

FairSpec == Spec /\ Fairness

\* A task that may be picked up is: it does not stay eligible for ever while
\* the project is active, across a crash and a restart of the gateway too.
EligibleIsClaimed ==
  \A t \in Task : RoleOf[t] \in 1..NRoles =>
    (isTaskEligibleForPickup(t) ~> ~isTaskEligibleForPickup(t) \/ ~active)

\* Work in progress is settled, unless the process that ran it died.
ClaimSettles ==
  \A t \in Task :
    HasStatus(t, "in-progress") ~> ~HasStatus(t, "in-progress") \/ faults.crash > 0
=============================================================================
