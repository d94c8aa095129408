---------------------------- MODULE Orchestrator ----------------------------
(***************************************************************************)
(* One orchestrator run: the pure transitions of orchestrator/run-state.ts,*)
(* the runner of orchestrator/runner.ts that walks the task list one task  *)
(* at a time, and the run file of orchestrator/run-store.ts, which is all  *)
(* that survives a crash.  A run is resumed by calling the runner on the   *)
(* loaded file.                                                            *)
(***************************************************************************)
EXTENDS Integers

CONSTANTS
  N,             \* tasks of the workflow, numbered in list order
  Deps,          \* the tasks each task depends on
  NoWorker,      \* tasks whose role has no worker in the registry
  MayTear,       \* whether a crash may fall inside the write of the run file
  MaxCrashes,    \* bound on crashes
  Absent, Torn   \* no run file; a run file cut short

Tasks == 1..N

ASSUME OrchestratorAssumption ==
  /\ N \in Nat \ {0}
  /\ Deps \in [Tasks -> SUBSET Tasks]
  /\ \A t \in Tasks : \A d \in Deps[t] : d < t   \* a plan lists tasks in dependency order
  /\ NoWorker \subseteq Tasks
  /\ MayTear \in BOOLEAN
  /\ MaxCrashes \in Nat
  /\ Absent # Torn

TaskStatus == {"pending", "running", "succeeded", "failed"}
RunStatus == {"pending", "running", "succeeded", "failed"}
Run == [status : RunStatus, tasks : [Tasks -> TaskStatus]]

ASSUME NotRuns == Absent \notin Run /\ Torn \notin Run

VARIABLES
  disk,      \* the run file
  mem,       \* the runner's current run
  pc,        \* where the runner is
  after,     \* where it goes once the run file is written
  cur,       \* the task it is running
  aborted,   \* options.signal
  crashes,   \* crashes so far
  ran,       \* history: times each task's worker was called
  oked       \* history: tasks whose worker returned ok

vars == <<disk, mem, pc, after, cur, aborted, crashes, ran, oked>>
-----------------------------------------------------------------------------
(* orchestrator/run-state.ts *)

createRunFromWorkflow == [status |-> "pending", tasks |-> [t \in Tasks |-> "pending"]]

Runnable(tasks) ==
  {t \in Tasks : tasks[t] = "pending" /\ \A d \in Deps[t] : tasks[d] = "succeeded"}

\* Mutant: a finished dependency counts, whatever became of it.
NextAfterSettled(tasks, t) ==
  /\ tasks[t] = "pending"
  /\ \A d \in Deps[t] : tasks[d] \in {"succeeded", "failed"}
  /\ \A u \in Runnable(tasks) : t <= u

\* Mutant: a task left running is taken again.
NextTakesRunning(tasks, t) ==
  /\ tasks[t] \in {"pending", "running"}
  /\ \A d \in Deps[t] : tasks[d] = "succeeded"

\* t is the first task in the list that can run.
nextRunnableTask(tasks, t) == t \in Runnable(tasks) /\ \A u \in Runnable(tasks) : t <= u

\* Mutant: one failed task fails the run, whatever can still run.
StatusFailsEarly(tasks) ==
  LET some(s) == \E t \in Tasks : tasks[t] = s
  IN  CASE some("running") -> "running"
        [] some("failed") -> "failed"
        [] \A t \in Tasks : tasks[t] = "succeeded" -> "succeeded"
        [] OTHER -> IF \A t \in Tasks : tasks[t] = "pending" THEN "pending" ELSE "running"

computeRunStatus(tasks) ==
  LET some(s) == \E t \in Tasks : tasks[t] = s
  IN  CASE some("running") -> "running"
        [] \A t \in Tasks : tasks[t] \in {"succeeded", "failed"} ->
             IF some("failed") THEN "failed" ELSE "succeeded"
        [] \A t \in Tasks : tasks[t] = "pending" -> "pending"
        [] OTHER -> IF Runnable(tasks) = {} /\ some("failed") THEN "failed" ELSE "running"

withTransitionedStatus(run) == [run EXCEPT !.status = computeRunStatus(run.tasks)]

\* Mutant: the word the project board uses for success.
MarkWithBoardStatus(run, t, s) ==
  [run EXCEPT !.tasks[t] = IF s = "succeeded" THEN "done" ELSE s]

\* markTaskRunning, markTaskSucceeded, markTaskFailed: run.status is left alone.
markTask(run, t, s) == [run EXCEPT !.tasks[t] = s]
-----------------------------------------------------------------------------
Init ==
  /\ disk = Absent
  /\ mem = createRunFromWorkflow
  /\ pc = "off" /\ after = "off"
  /\ cur = 1
  /\ aborted = FALSE
  /\ crashes = 0
  /\ ran = [t \in Tasks |-> 0]
  /\ oked = {}

\* saveRun truncates and rewrites the file, then the runner goes on at next.
SaveThen(run, next) == mem' = run /\ pc' = "truncate" /\ after' = next

Truncate ==
  /\ pc = "truncate"
  /\ disk' = Torn
  /\ pc' = "write"
  /\ UNCHANGED <<mem, after, cur, aborted, crashes, ran, oked>>

Write ==
  /\ pc = "write"
  /\ disk' = mem
  /\ pc' = after
  /\ UNCHANGED <<mem, after, cur, aborted, crashes, ran, oked>>

\* runOrchestratorRun on a new run, or on the one loadRun returns (null for
\* a file that does not parse).
Start ==
  /\ pc = "off" /\ disk = Absent
  /\ SaveThen(withTransitionedStatus(createRunFromWorkflow), "loop")
  /\ UNCHANGED <<disk, cur, aborted, crashes, ran, oked>>

Resume ==
  /\ pc \in {"off", "returned"} /\ disk \in Run
  /\ aborted' = FALSE             \* each call brings its own signal
  /\ SaveThen(withTransitionedStatus(disk), "loop")
  /\ UNCHANGED <<disk, cur, crashes, ran, oked>>

Abort ==
  /\ pc \notin {"off", "returned"} /\ ~aborted
  /\ aborted' = TRUE
  /\ UNCHANGED <<disk, mem, pc, after, cur, crashes, ran, oked>>

TakeTask(t) ==
  /\ pc = "loop" /\ ~aborted
  /\ nextRunnableTask(mem.tasks, t)
  /\ cur' = t
  /\ SaveThen(markTask(mem, t, "running"), "call")
  /\ UNCHANGED <<disk, aborted, crashes, ran, oked>>

CallWorker ==
  /\ pc = "call" /\ cur \notin NoWorker
  /\ ran' = [ran EXCEPT ![cur] = @ + 1]
  /\ pc' = "work"
  /\ UNCHANGED <<disk, mem, after, cur, aborted, crashes, oked>>

\* Mutant: a task without a worker is put back to wait for one.
NoWorkerWaits ==
  /\ pc = "call" /\ cur \in NoWorker
  /\ SaveThen(markTask(mem, cur, "pending"), "loop")
  /\ UNCHANGED <<disk, cur, aborted, crashes, ran, oked>>

NoWorkerFails ==
  /\ pc = "call" /\ cur \in NoWorker
  /\ SaveThen(markTask(mem, cur, "failed"), "loop")
  /\ UNCHANGED <<disk, cur, aborted, crashes, ran, oked>>

WorkerSucceeds ==
  /\ pc = "work"
  /\ oked' = oked \cup {cur}
  /\ SaveThen(markTask(mem, cur, "succeeded"), "loop")
  /\ UNCHANGED <<disk, cur, aborted, crashes, ran>>

\* The worker throws or returns ok = false.
WorkerFails ==
  /\ pc = "work"
  /\ SaveThen(markTask(mem, cur, "failed"), "loop")
  /\ UNCHANGED <<disk, cur, aborted, crashes, ran, oked>>

\* Mutant: the run is saved at the end without being transitioned.
FinishUntransitioned ==
  /\ pc = "loop"
  /\ aborted \/ Runnable(mem.tasks) = {}
  /\ SaveThen(mem, "returned")
  /\ UNCHANGED <<disk, cur, aborted, crashes, ran, oked>>

Finish ==
  /\ pc = "loop"
  /\ aborted \/ Runnable(mem.tasks) = {}
  /\ SaveThen(withTransitionedStatus(mem), "returned")
  /\ UNCHANGED <<disk, cur, aborted, crashes, ran, oked>>

Crash ==
  /\ pc \notin {"off", "returned"}
  /\ disk = Torn => MayTear
  /\ crashes < MaxCrashes
  /\ crashes' = crashes + 1
  /\ pc' = "off" /\ aborted' = FALSE
  /\ UNCHANGED <<disk, mem, after, cur, ran, oked>>

Runner ==
  \/ Truncate \/ Write \/ CallWorker \/ NoWorkerFails
  \/ WorkerSucceeds \/ WorkerFails \/ Finish
  \/ \E t \in Tasks : TakeTask(t)

Next == Start \/ Resume \/ Runner \/ Abort \/ Crash

Spec == Init /\ [][Next]_vars
-----------------------------------------------------------------------------
(* Properties *)

\* The values each variable takes.
TypeOK ==
  /\ disk \in Run \cup {Absent, Torn}
  /\ mem \in Run
  /\ pc \in {"off", "truncate", "write", "loop", "call", "work", "returned"}
  /\ after \in {"off", "loop", "call", "returned"}
  /\ cur \in Tasks
  /\ aborted \in BOOLEAN
  /\ crashes \in Nat
  /\ ran \in [Tasks -> Nat]
  /\ oked \subseteq Tasks

\* "No work is repeated": over any number of crashes and resumes the worker
\* of a task is called at most once.
NoWorkRepeated == \A t \in Tasks : ran[t] <= 1

\* When a worker is called the file already holds the outputs of all the
\* tasks it depends on, each returned by that task's worker.
OutputsPersisted ==
  pc \in {"call", "work"} =>
    /\ disk = mem
    /\ \A d \in Deps[cur] : disk.tasks[d] = "succeeded" /\ d \in oked

\* A run on disk says "succeeded" only if every worker returned ok, and
\* "failed" only if no task is left that could still run.
VerdictIsEarned ==
  disk \in Run =>
    /\ disk.status = "succeeded" => oked = Tasks
    /\ disk.status = "failed" => oked # Tasks /\ Runnable(disk.tasks) = {}

\* runOrchestratorRun returns when "every remaining pending task is blocked
\* by a failed dependency, or every task is terminal".
Blocked(tasks, t) ==
  tasks[t] = "pending" /\ \E d \in Deps[t] : tasks[d] \in {"failed", "pending"}

ReturnsWhenSettled ==
  pc = "returned" /\ ~aborted =>
    /\ disk \in Run
    /\ \A t \in Tasks : disk.tasks[t] \in {"succeeded", "failed"} \/ Blocked(disk.tasks, t)
    /\ disk.status \in {"succeeded", "failed"}

\* A run that was never interrupted returns settled.
UninterruptedSettles == crashes = 0 => ReturnsWhenSettled

\* The runner takes its next step and a crashed run is resumed.
Launch == pc = "off" /\ (Start \/ Resume)
FairSpec == Spec /\ WF_vars(Runner) /\ WF_vars(Launch)

\* Resumed as often as it crashed, the runner comes to an end, unless a crash
\* tore the run file, which loadRun then answers null for.
RunEnds == <>(pc = "returned" \/ (pc = "off" /\ disk = Torn))
=============================================================================
