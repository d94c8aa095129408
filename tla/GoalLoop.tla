------------------------------ MODULE GoalLoop ------------------------------
(***************************************************************************)
(* The two loops that drive a project towards its goal: the idle handler   *)
(* of the pickup loop (gateway/projects-runtime.ts), called by every tick  *)
(* that finds the project idle, and the goal loop (projects/goal-loop.ts)  *)
(* with its operator requests.  Each loads the project record, awaits a    *)
(* model, and saves the record it loaded with its own changes; so does the *)
(* capability broker, a worker.  Each keeps a counter of its own in the    *)
(* record, with a cap of its own.                                          *)
(*                                                                         *)
(* One project.  A batch of tasks is open until its last task is done,     *)
(* failed or blocked; the life of its tasks is that of TaskBoard.          *)
(***************************************************************************)
EXTENDS Integers, FiniteSets

CONSTANTS
  Pickup,        \* overlapping ticks of the pickup loop
  Http,          \* concurrent requests to evaluate or replan
  MaxIterations, \* cap of metadata.iteration, of the idle handler
  MaxCount,      \* maxIterations of the project, cap of iterationCount
  MaxEvents      \* bound on operator requests, failures and crashes

Mission == {"loop"} \cup Http
Writer == Pickup \cup Mission \cup {"worker"}

ASSUME GoalLoopAssumption ==
  /\ Pickup \cap Http = {} /\ {"loop", "worker"} \cap (Pickup \cup Http) = {}
  /\ {MaxIterations, MaxCount, MaxEvents} \subseteq Nat
  /\ IsFiniteSet(Pickup)

VARIABLES
  proj,       \* the project record: status, metadata.iteration, iterationCount
  open,       \* open batches
  planned,    \* the project has tasks
  pc,         \* how far each writer is
  snap,       \* the record it will save
  replan,     \* whether a mission iteration may plan: no work open, or forced
  events,     \* counts what MaxEvents bounds
  fromIdle,   \* history: the open batches that idle handlers planned
  inflight    \* history: the writers under way when the project was archived

vars == <<proj, open, planned, pc, snap, replan, events, fromIdle, inflight>>

\* A new project's record.
New == [status |-> "active", iter |-> 0, count |-> 0]

Init ==
  /\ proj = New
  /\ open = 0 /\ planned = FALSE
  /\ pc = [w \in Writer |-> "idle"]
  /\ snap = [w \in Writer |-> New]
  /\ replan = [h \in Mission |-> FALSE]
  /\ events = 0
  /\ fromIdle = 0 /\ inflight = {}
-----------------------------------------------------------------------------
Event == events < MaxEvents /\ events' = events + 1

\* Writer w is done with its snapshot.
Ends(w) == pc' = [pc EXCEPT ![w] = "idle"] /\ snap' = [snap EXCEPT ![w] = New]

Opens(n) == open' = open + n /\ planned' = (planned \/ n > 0)

\* Mutant: the status of the tasks is not looked at.
IdleWithTasks == planned

\* isProjectIdle: there are tasks and all of them are settled.
isProjectIdle == planned /\ open = 0

\* Mutant: the status is not looked at again after the role loop.
OnIdleWhateverStatus(p) ==
  /\ pc[p] = "idle" /\ isProjectIdle
  /\ pc' = [pc EXCEPT ![p] = "evaluating"]
  /\ snap' = [snap EXCEPT ![p] = proj]
  /\ UNCHANGED <<proj, open, planned, replan, events>>

\* runPickupTick calls onProjectIdle with the project as it is now.
OnProjectIdle(p) ==
  /\ pc[p] = "idle" /\ proj.status = "active" /\ isProjectIdle
  /\ pc' = [pc EXCEPT ![p] = "evaluating"]
  /\ snap' = [snap EXCEPT ![p] = proj]
  /\ UNCHANGED <<proj, open, planned, replan, events>>

\* Mutant: no cap.
VerdictsUncapped(r) == {"achieved", "needs-more", "stuck"}

\* evaluate: the cap, or the verdict of the model; a failing model is stuck.
Verdicts(r) == IF r.iter >= MaxIterations THEN {"stuck"} ELSE {"achieved", "needs-more", "stuck"}

\* The record is loaded again; the next iteration follows the one evaluated.
NeedsMore(p) ==
  /\ snap' = [snap EXCEPT ![p] = [proj EXCEPT !.iter = snap[p].iter + 1]]
  /\ pc' = [pc EXCEPT ![p] = "planning"]
  /\ UNCHANGED <<proj>>

\* buildGoalLoopHandler, when the evaluation is there.  The audit log may throw
\* before it is acted upon; that is only logged.
HandlerEvaluated(p) ==
  /\ pc[p] = "evaluating"
  /\ \/ /\ \E v \in Verdicts(snap[p]) :
             \/ v = "achieved" /\ proj' = [snap[p] EXCEPT !.status = "achieved"] /\ Ends(p)
             \/ v = "stuck" /\ proj' = [snap[p] EXCEPT !.status = "needs-input"] /\ Ends(p)
             \/ v = "needs-more" /\ NeedsMore(p)
        /\ UNCHANGED <<events>>
     \/ Event /\ Ends(p) /\ UNCHANGED <<proj>>
  /\ UNCHANGED <<open, planned, replan>>

\* Mutant: an empty plan is no reason to stop.
EmptyPlanIgnored(p) == UNCHANGED <<proj>>

\* No new tasks: the operator has to step in.
EmptyPlan(p) == proj' = [snap[p] EXCEPT !.status = "needs-input"]

\* The plan is there: its tasks and then the record are saved.  The planner, or
\* the audit log after some tasks were saved, may throw; that is only logged.
HandlerPlanned(p) ==
  /\ pc[p] = "planning"
  /\ \/ /\ proj' = snap[p]
        /\ Opens(1)
        /\ UNCHANGED <<events>>
     \/ EmptyPlan(p) /\ UNCHANGED <<open, planned, events>>
     \/ /\ Event
        /\ \E n \in 0..1 : Opens(n)
        /\ UNCHANGED <<proj>>
  /\ Ends(p)
  /\ UNCHANGED <<replan>>
-----------------------------------------------------------------------------
\* tickGoalLoop takes the project up; one tick at a time.  Tasks in the backlog,
\* waiting for an approval, are no work under way for shouldReplan.
TickGoalLoop ==
  /\ pc["loop"] = "idle" /\ proj.status = "active"
  /\ pc' = [pc EXCEPT !["loop"] = "evaluating"]
  /\ snap' = [snap EXCEPT !["loop"] = proj]
  /\ \E backlog \in BOOLEAN : replan' = [replan EXCEPT !["loop"] = (open = 0 \/ backlog)]
  /\ UNCHANGED <<proj, open, planned, events>>

\* POST /v1/mission/<id>/evaluate and /replan, whatever the status; the tasks
\* are listed when the model client is there.
HttpLoads(h) ==
  /\ pc[h] = "idle" /\ Event
  /\ pc' = [pc EXCEPT ![h] = "loading"]
  /\ snap' = [snap EXCEPT ![h] = proj]
  /\ UNCHANGED <<proj, open, planned, replan>>

HttpLists(h) ==
  /\ pc[h] = "loading"
  /\ pc' = [pc EXCEPT ![h] = "evaluating"]
  /\ \E force \in BOOLEAN : replan' = [replan EXCEPT ![h] = (open = 0 \/ force)]
  /\ UNCHANGED <<proj, open, planned, snap, events>>

\* Mutant: an iteration leaves the counter alone.
NotCounted(h, status) == [snap[h] EXCEPT !.status = status]

\* The record that an iteration ends with; every evaluation counts.
Counted(h, status) == [snap[h] EXCEPT !.status = status, !.count = @ + 1]

\* runOneIteration, when the evaluation is there; a failing model ends it.
IterationEvaluated(h) ==
  /\ pc[h] = "evaluating"
  /\ \/ proj' = Counted(h, "achieved") /\ Ends(h) /\ UNCHANGED <<events>>
     \/ proj' = Counted(h, "needs-input") /\ Ends(h) /\ UNCHANGED <<events>>   \* blocked, or the cap
     \/ /\ snap[h].count < MaxCount /\ ~replan[h]
        /\ proj' = Counted(h, snap[h].status)
        /\ Ends(h) /\ UNCHANGED <<events>>
     \/ /\ snap[h].count < MaxCount /\ replan[h]
        /\ pc' = [pc EXCEPT ![h] = "planning"]
        /\ UNCHANGED <<proj, snap, events>>
     \/ Event /\ Ends(h) /\ UNCHANGED <<proj>>
  /\ UNCHANGED <<open, planned, replan>>

\* The plan is there, or it is empty or failed: the iteration counts.
IterationPlanned(h) ==
  /\ pc[h] = "planning"
  /\ \E n \in 0..1 : Opens(n)
  /\ proj' = Counted(h, snap[h].status)
  /\ Ends(h)
  /\ UNCHANGED <<replan, events>>
-----------------------------------------------------------------------------
\* A tick of the pickup loop hands a task and the project it loaded to a worker.
WorkerStarts ==
  /\ pc["worker"] = "idle" /\ proj.status = "active" /\ open > 0
  /\ pc' = [pc EXCEPT !["worker"] = "working"]
  /\ snap' = [snap EXCEPT !["worker"] = proj]
  /\ UNCHANGED <<proj, open, planned, replan, events>>

\* The batch is settled; the capability broker also asks for the operator.
WorkerEnds ==
  /\ pc["worker"] = "working"
  /\ open' = open - 1
  /\ \/ UNCHANGED <<proj>>
     \/ proj' = [snap["worker"] EXCEPT !.status = "needs-input"]
  /\ Ends("worker")
  /\ UNCHANGED <<planned, replan, events>>

\* handleFromPrompt, handleCommitPlan: the operator adds tasks, or retries settled ones.
OperatorPlans ==
  /\ Event
  /\ Opens(1)
  /\ UNCHANGED <<proj, pc, snap, replan>>

handleArchiveProject ==
  /\ Event /\ proj.status # "archived"
  /\ proj' = [proj EXCEPT !.status = "archived"]
  /\ UNCHANGED <<open, planned, pc, snap, replan>>

\* The gateway dies and starts again.
Crash ==
  /\ Event
  /\ pc' = [w \in Writer |-> "idle"]
  /\ snap' = [w \in Writer |-> New]
  /\ UNCHANGED <<proj, open, planned, replan>>
-----------------------------------------------------------------------------
\* A batch that is settled is one of the idle handlers' or another one.
History ==
  /\ \/ open' > open /\ fromIdle' = IF \E p \in Pickup : pc[p] = "planning" /\ pc'[p] = "idle"
                                    THEN fromIdle + 1 ELSE fromIdle
     \/ open' = open /\ fromIdle' = fromIdle
     \/ open' < open /\ fromIdle' \in {fromIdle - 1, fromIdle} \cap 0..open'
  /\ inflight' = IF proj.status # "archived" /\ proj'.status = "archived"
                 THEN {w \in Writer : pc'[w] # "idle"}
                 ELSE {w \in inflight : pc'[w] # "idle"}

Step(w) ==
  \/ w \in Pickup /\ (OnProjectIdle(w) \/ HandlerEvaluated(w) \/ HandlerPlanned(w))
  \/ w \in Http /\ HttpLists(w)
  \/ w \in Mission /\ (IterationEvaluated(w) \/ IterationPlanned(w))
  \/ w = "worker" /\ (WorkerStarts \/ WorkerEnds)

Next ==
  /\ \/ \E w \in Writer : Step(w)
     \/ TickGoalLoop
     \/ \E h \in Http : HttpLoads(h)
     \/ OperatorPlans \/ handleArchiveProject \/ Crash
  /\ History

Spec == Init /\ [][Next]_vars

\* The timer of the pickup loop fires, models answer or fail, and workers
\* return.  The goal loop is opt-in: its timer may or may not fire.
FairSpec == Spec /\ \A w \in Writer : WF_vars(Step(w) /\ History)
-----------------------------------------------------------------------------
(* Properties *)

Record == [status : {"active", "achieved", "needs-input", "archived"},
           iter : 0..MaxIterations, count : 0..(MaxCount + 1 + MaxEvents)]

\* The values each variable takes; the counters do not pass their caps, but for
\* the requests of an operator who goes on.
TypeOK ==
  /\ proj \in Record
  /\ open \in Nat /\ planned \in BOOLEAN
  /\ pc \in [Writer -> {"idle", "loading", "evaluating", "planning", "working"}]
  /\ snap \in [Writer -> Record]
  /\ replan \in [Mission -> BOOLEAN]
  /\ events \in 0..MaxEvents
  /\ fromIdle \in 0..open /\ inflight \subseteq Writer

\* Overlapping ticks may each plan for the same idle project, but the batches
\* that idle handlers opened and those they may still open are never more than
\* the ticks that can overlap: whatever the goal loop, the requests, the operator
\* and late saves do in between, tasks in work keep further handlers out.
IdlePlansBounded == fromIdle + Cardinality({p \in Pickup : pc[p] # "idle"}) <= Cardinality(Pickup)

\* "The handler is responsible for its own dedup", and its new tasks keep it from
\* being called again: it plans for a project that is idle.
PlannedWhenIdle ==
  [][(\E w \in Pickup : pc[w] = "planning" /\ pc'[w] = "idle") /\ open' > open => open = 0]_vars

\* An archived project leaves that status only through a writer that was under
\* way when it was archived, or through a request of the operator.
ArchivedUndoneInFlight ==
  [][proj.status = "archived" /\ proj'.status # "archived" =>
       \E w \in inflight \cup Http : pc[w] # "idle" /\ pc'[w] = "idle"]_vars

\* "so a runaway loop can't keep planning forever": however the writers
\* overwrite each other's counters, the loops come to rest.
PlanningStops == <>[](\A w \in Writer \ {"worker"} : pc[w] = "idle")

\* An active project whose tasks are all settled gets new ones or a verdict.
IdleIsHandled == (proj.status = "active" /\ isProjectIdle) ~> ~(proj.status = "active" /\ isProjectIdle)
=============================================================================
