-------------------------- MODULE OrchestratorProofs --------------------------
(***************************************************************************)
(* Theorems about an orchestrator run for workflows of any size and shape, *)
(* any number of crashes, torn run files, aborts and resumes.              *)
(***************************************************************************)
EXTENDS Orchestrator, WellFoundedInduction, TLAPS

\* A status computed for the tasks of a run is a run status; "succeeded" and
\* "failed" say of the tasks what their names say.
LEMMA StatusSound ==
  ASSUME NEW tasks \in [Tasks -> TaskStatus]
  PROVE  /\ computeRunStatus(tasks) \in RunStatus
         /\ computeRunStatus(tasks) = "succeeded" => \A t \in Tasks : tasks[t] = "succeeded"
         /\ computeRunStatus(tasks) = "failed" =>
              (\E t \in Tasks : tasks[t] = "failed") /\ Runnable(tasks) = {}
  BY DEF computeRunStatus, Runnable, TaskStatus, RunStatus

\* The status transition leaves the tasks alone and returns a run.
LEMMA TransitionType ==
  ASSUME NEW run \in Run
  PROVE  /\ withTransitionedStatus(run) \in Run
         /\ withTransitionedStatus(run).tasks = run.tasks
         /\ withTransitionedStatus(run).status = computeRunStatus(run.tasks)
  BY StatusSound DEF Run, withTransitionedStatus

\* Marking a task changes that task's status and nothing else of the run.
LEMMA MarkType ==
  ASSUME NEW run \in Run, NEW t \in Tasks, NEW s \in TaskStatus
  PROVE  /\ markTask(run, t, s) \in Run
         /\ markTask(run, t, s).status = run.status
         /\ markTask(run, t, s).tasks = [run.tasks EXCEPT ![t] = s]
  BY DEF Run, markTask

\* A new run is a run whose tasks are all pending.
LEMMA CreateType ==
  /\ createRunFromWorkflow \in Run
  /\ createRunFromWorkflow.status = "pending"
  /\ \A t \in Tasks : createRunFromWorkflow.tasks[t] = "pending"
  BY DEF createRunFromWorkflow, Run, RunStatus, TaskStatus

\* The first runnable task is pending and its dependencies have succeeded.
LEMMA NextIsRunnable ==
  ASSUME NEW tasks, NEW t, nextRunnableTask(tasks, t)
  PROVE  /\ t \in Tasks /\ t \in Runnable(tasks) /\ tasks[t] = "pending"
         /\ \A d \in Deps[t] : tasks[d] = "succeeded"
  BY DEF nextRunnableTask, Runnable
-----------------------------------------------------------------------------
(* Type correctness *)

\* Every step of the runner keeps the types.
LEMMA TypeStep == TypeOK /\ [Next]_vars => TypeOK'
<1> SUFFICES ASSUME TypeOK, [Next]_vars PROVE TypeOK'
    OBVIOUS
<1> USE OrchestratorAssumption
<1>1. ASSUME NEW run \in Run, NEW next \in {"loop", "call", "returned"}, SaveThen(run, next)
      PROVE  mem' \in Run /\ pc' = "truncate" /\ after' \in {"off", "loop", "call", "returned"}
    BY <1>1 DEF SaveThen
<1>2. CASE Truncate
    BY <1>2 DEF Truncate, TypeOK
<1>3. CASE Write
    BY <1>3 DEF Write, TypeOK
<1>4. CASE Start
    BY <1>4, <1>1, CreateType, TransitionType DEF Start, TypeOK
<1>5. CASE Resume
    BY <1>5, <1>1, TransitionType DEF Resume, TypeOK
<1>6. CASE Abort
    BY <1>6 DEF Abort, TypeOK
<1>7. ASSUME NEW t \in Tasks, TakeTask(t) PROVE TypeOK'
    <2>1. markTask(mem, t, "running") \in Run
        BY MarkType DEF TypeOK, TaskStatus
    <2>2. QED
        BY <1>1, <1>7, <2>1 DEF TakeTask, TypeOK
<1>8. CASE CallWorker
    BY <1>8 DEF CallWorker, TypeOK
<1>9. markTask(mem, cur, "failed") \in Run /\ markTask(mem, cur, "succeeded") \in Run
    BY MarkType DEF TypeOK, TaskStatus
<1>10. CASE NoWorkerFails
    BY <1>1, <1>9, <1>10 DEF NoWorkerFails, TypeOK
<1>11. CASE WorkerSucceeds
    BY <1>1, <1>9, <1>11 DEF WorkerSucceeds, TypeOK
<1>12. CASE WorkerFails
    BY <1>1, <1>9, <1>12 DEF WorkerFails, TypeOK
<1>13. CASE Finish
    BY <1>1, <1>13, TransitionType DEF Finish, TypeOK
<1>14. CASE Crash
    <2>1. /\ crashes' = crashes + 1 /\ pc' = "off" /\ aborted' = FALSE
          /\ UNCHANGED <<disk, mem, after, cur, ran, oked>>
        BY <1>14 DEF Crash
    <2>2. crashes' \in Nat
        BY <2>1 DEF TypeOK
    <2>3. aborted' \in BOOLEAN
        BY <2>1
    <2>4. QED
        BY <2>1, <2>2, <2>3 DEF TypeOK
<1>15. CASE UNCHANGED vars
    BY <1>15 DEF vars, TypeOK
<1>16. QED
    BY <1>2, <1>3, <1>4, <1>5, <1>6, <1>7, <1>8, <1>10, <1>11, <1>12, <1>13, <1>14, <1>15
       DEF Next, Runner

\* The variables of a run always have their types.
THEOREM TypeCorrect == Spec => []TypeOK
<1>1. Init => TypeOK
    <2> SUFFICES ASSUME Init PROVE TypeOK
        OBVIOUS
    <2>1. cur \in Tasks /\ crashes \in Nat /\ ran \in [Tasks -> Nat]
        BY OrchestratorAssumption DEF Init, Tasks
    <2>2. aborted \in BOOLEAN
        BY DEF Init
    <2>3. QED
        BY <2>1, <2>2, CreateType DEF Init, TypeOK
<1>2. QED
    BY <1>1, TypeStep, PTL DEF Spec
-----------------------------------------------------------------------------
(* The inductive invariant *)

\* What a run, in memory or on disk, says of its tasks is true of the workers:
\* a pending task's worker was never called, a succeeded one returned ok, a
\* failed one did not.
Truthful(run) ==
  \A t \in Tasks :
    /\ run.tasks[t] = "pending" => ran[t] = 0
    /\ run.tasks[t] = "succeeded" => t \in oked
    /\ run.tasks[t] = "failed" => t \notin oked

\* A final status was computed from these tasks and they have not moved since.
Final(run) ==
  /\ run.status = "succeeded" => \A t \in Tasks : run.tasks[t] = "succeeded"
  /\ run.status = "failed" =>
       (\E t \in Tasks : run.tasks[t] = "failed") /\ Runnable(run.tasks) = {}

RunInv == /\ Truthful(mem) /\ Final(mem)
          /\ disk \in Run => Truthful(disk) /\ Final(disk)

\* The runner has taken task cur and not settled it.
Taken == pc \in {"call", "work"} \/ (pc \in {"truncate", "write"} /\ after = "call")

TakenInv ==
  Taken => /\ mem.tasks[cur] = "running" /\ cur \notin oked
           /\ \A d \in Deps[cur] : mem.tasks[d] = "succeeded"
           /\ mem.status \notin {"succeeded", "failed"}
           /\ ran[cur] = IF pc = "work" THEN 1 ELSE 0

SavedInv == pc \in {"call", "work"} => disk = mem

CalledInv == \A t \in Tasks : ran[t] <= 1 /\ (t \in oked => ran[t] = 1)

\* Before the first save nothing has been called.
FreshInv == disk = Absent => pc \in {"off", "truncate"} /\ \A t \in Tasks : ran[t] = 0

IInv == RunInv /\ TakenInv /\ SavedInv /\ CalledInv /\ FreshInv

\* The status transition keeps a run truthful and makes its status final only
\* when it is.
LEMMA TransitionInv ==
  ASSUME NEW run \in Run, Truthful(run)
  PROVE  Truthful(withTransitionedStatus(run)) /\ Final(withTransitionedStatus(run))
<1>1. run.tasks \in [Tasks -> TaskStatus]
    BY DEF Run
<1>2. QED
    BY <1>1, TransitionType, StatusSound DEF Truthful, Final

\* Saving a truthful run that is not about to call a worker keeps the
\* invariant.
LEMMA SaveInv ==
  ASSUME TypeOK, IInv, NEW run \in Run, Truthful(run), Final(run),
         NEW next \in {"loop", "returned"}, SaveThen(run, next),
         pc # "write", UNCHANGED <<disk, ran, oked>>
  PROVE  IInv'
<1>1. RunInv'
    BY DEF SaveThen, IInv, RunInv, Truthful, Final
<1>2. ~Taken'
    BY DEF SaveThen, Taken
<1>3. QED
    BY <1>1, <1>2 DEF SaveThen, IInv, TakenInv, SavedInv, CalledInv, FreshInv

\* Settling the taken task with a verdict that is true of its worker keeps
\* the invariant.
LEMMA SettleInv ==
  ASSUME TypeOK, IInv, pc \in {"call", "work"}, NEW s \in {"succeeded", "failed"},
         SaveThen(markTask(mem, cur, s), "loop"), UNCHANGED <<disk, ran>>,
         oked' = IF s = "succeeded" THEN oked \cup {cur} ELSE oked,
         s = "succeeded" => pc = "work"
  PROVE  IInv'
<1> DEFINE run == markTask(mem, cur, s)
<1>1. mem \in Run /\ cur \in Tasks /\ mem.tasks \in [Tasks -> TaskStatus] /\ disk = mem
    BY DEF TypeOK, Run, IInv, SavedInv
<1>2. run.status = mem.status /\ run.tasks = [mem.tasks EXCEPT ![cur] = s]
    <2>1. s \in TaskStatus
        BY DEF TaskStatus
    <2>2. QED
        BY <1>1, <2>1, MarkType
<1>3. mem' = run /\ pc' = "truncate" /\ after' = "loop"
    BY DEF SaveThen
<1>4. /\ mem.tasks[cur] = "running" /\ cur \notin oked
      /\ mem.status \notin {"succeeded", "failed"}
      /\ s = "succeeded" => ran[cur] = 1
    BY DEF IInv, TakenInv, Taken
<1>5. Truthful(mem) /\ Final(mem)
    BY DEF IInv, RunInv
<1>6. Truthful(mem)' /\ Truthful(disk)'
    BY <1>1, <1>2, <1>3, <1>4, <1>5 DEF Truthful
<1>7. Final(mem)' /\ Final(disk)'
    BY <1>1, <1>2, <1>3, <1>4 DEF Final
<1>8. CalledInv'
    BY <1>4 DEF IInv, CalledInv
<1>9. FreshInv'
    BY <1>1, NotRuns DEF FreshInv
<1>10. QED
    BY <1>3, <1>6, <1>7, <1>8, <1>9 DEF IInv, RunInv, TakenInv, Taken, SavedInv

\* Every step of the runner keeps the invariant.
LEMMA InvStep == TypeOK /\ IInv /\ [Next]_vars => IInv'
<1> SUFFICES ASSUME TypeOK, IInv, [Next]_vars PROVE IInv'
    OBVIOUS
<1> USE OrchestratorAssumption, NotRuns
<1>1. mem \in Run /\ mem.tasks \in [Tasks -> TaskStatus] /\ cur \in Tasks
      /\ ran \in [Tasks -> Nat] /\ oked \subseteq Tasks
    BY DEF TypeOK, Run
<1>2. Truthful(mem) /\ Final(mem) /\ (disk \in Run => Truthful(disk) /\ Final(disk))
    BY DEF IInv, RunInv
<1>3. CASE Truncate
    BY <1>3 DEF Truncate, IInv, RunInv, TakenInv, Taken, SavedInv, CalledInv, FreshInv,
                Truthful, Final
<1>4. CASE Write
    BY <1>1, <1>4 DEF Write, IInv, RunInv, TakenInv, Taken, SavedInv, CalledInv, FreshInv,
                Truthful, Final, TypeOK
<1>5. CASE Start
    <2>1. \A t \in Tasks : ran[t] = 0
        BY <1>5 DEF Start, IInv, FreshInv
    <2>2. Truthful(createRunFromWorkflow)
        BY <2>1, CreateType DEF Truthful
    <2>3. QED
        BY <1>5, <2>2, CreateType, TransitionInv, TransitionType, SaveInv DEF Start
<1>6. CASE Resume
    BY <1>2, <1>6, TransitionInv, TransitionType, SaveInv DEF Resume
<1>7. CASE Abort
    BY <1>7 DEF Abort, IInv, RunInv, TakenInv, Taken, SavedInv, CalledInv, FreshInv,
                Truthful, Final
<1>8. ASSUME NEW t \in Tasks, TakeTask(t) PROVE IInv'
    <2> DEFINE run == markTask(mem, t, "running")
    <2>1. /\ mem.tasks[t] = "pending" /\ t \in Runnable(mem.tasks)
          /\ \A d \in Deps[t] : mem.tasks[d] = "succeeded"
        BY <1>8, NextIsRunnable DEF TakeTask
    <2>2. run.status = mem.status /\ run.tasks = [mem.tasks EXCEPT ![t] = "running"]
        BY <1>1, MarkType DEF TaskStatus
    <2>3. /\ mem' = run /\ cur' = t /\ pc' = "truncate" /\ after' = "call"
          /\ UNCHANGED <<disk, ran, oked>> /\ pc = "loop"
        BY <1>8 DEF TakeTask, SaveThen
    <2>4. mem.status \notin {"succeeded", "failed"}
        BY <1>2, <2>1 DEF Final
    <2>5. ran[t] = 0 /\ t \notin oked
        BY <1>2, <2>1 DEF Truthful, IInv, CalledInv
    <2>6. \A d \in Deps[t] : run.tasks[d] = "succeeded"
        BY <1>1, <2>1, <2>2
    <2>7. RunInv'
        BY <1>1, <1>2, <2>2, <2>3, <2>4 DEF RunInv, Truthful, Final
    <2>8. TakenInv'
        BY <1>1, <2>2, <2>3, <2>4, <2>5, <2>6 DEF TakenInv
    <2>9. QED
        BY <2>3, <2>7, <2>8 DEF IInv, SavedInv, CalledInv, FreshInv
<1>9. CASE CallWorker
    <2>1. /\ disk = mem /\ mem.tasks[cur] = "running" /\ cur \notin oked /\ ran[cur] = 0
          /\ \A d \in Deps[cur] : mem.tasks[d] = "succeeded"
          /\ mem.status \notin {"succeeded", "failed"}
        BY <1>9 DEF CallWorker, IInv, SavedInv, TakenInv, Taken
    <2>2. /\ ran' = [ran EXCEPT ![cur] = @ + 1] /\ pc' = "work"
          /\ UNCHANGED <<disk, mem, cur, oked>>
        BY <1>9 DEF CallWorker
    <2>3. Truthful(mem)' /\ Final(mem)'
        BY <1>1, <1>2, <2>1, <2>2 DEF Truthful, Final
    <2>4. RunInv'
        BY <2>1, <2>2, <2>3 DEF RunInv, Truthful, Final
    <2>5. TakenInv' /\ SavedInv'
        BY <1>1, <2>1, <2>2 DEF TakenInv, SavedInv
    <2>6. CalledInv'
        BY <1>1, <2>1, <2>2 DEF IInv, CalledInv
    <2>7. FreshInv'
        BY <1>1, <2>1, <2>2 DEF FreshInv
    <2>8. QED
        BY <2>4, <2>5, <2>6, <2>7 DEF IInv
<1>10. CASE NoWorkerFails
    BY <1>10, SettleInv DEF NoWorkerFails
<1>11. CASE WorkerSucceeds
    BY <1>11, SettleInv DEF WorkerSucceeds
<1>12. CASE WorkerFails
    BY <1>12, SettleInv DEF WorkerFails
<1>13. CASE Finish
    BY <1>1, <1>2, <1>13, TransitionInv, TransitionType, SaveInv DEF Finish
<1>14. CASE Crash
    BY <1>14 DEF Crash, IInv, RunInv, TakenInv, Taken, SavedInv, CalledInv, FreshInv,
                 Truthful, Final
<1>15. CASE UNCHANGED vars
    BY <1>15 DEF vars, IInv, RunInv, TakenInv, Taken, SavedInv, CalledInv, FreshInv,
                 Truthful, Final
<1>16. QED
    BY <1>3, <1>4, <1>5, <1>6, <1>7, <1>8, <1>9, <1>10, <1>11, <1>12, <1>13, <1>14, <1>15
       DEF Next, Runner

\* The runner starts in the invariant and never leaves it.
LEMMA Invariant == Spec => []IInv
<1>1. Init => IInv
    BY CreateType, NotRuns DEF Init, IInv, RunInv, TakenInv, Taken, SavedInv, CalledInv,
                               FreshInv, Truthful, Final
<1>2. QED
    BY <1>1, InvStep, TypeCorrect, PTL DEF Spec
-----------------------------------------------------------------------------
\* "No work is repeated": however often a run crashes and is resumed, the
\* worker of each task is called at most once.
THEOREM CalledAtMostOnce == Spec => []NoWorkRepeated
<1>1. IInv => NoWorkRepeated
    BY DEF IInv, CalledInv, NoWorkRepeated
<1>2. QED
    BY <1>1, Invariant, PTL

\* A worker is called only once the run file holds, as succeeded, every task
\* its own task depends on, and the worker of each of them returned ok.
THEOREM OutputsOnDisk == Spec => []OutputsPersisted
<1>1. TypeOK /\ IInv => OutputsPersisted
    <2> SUFFICES ASSUME TypeOK, IInv, pc \in {"call", "work"}
                 PROVE  /\ disk = mem
                        /\ \A d \in Deps[cur] : disk.tasks[d] = "succeeded" /\ d \in oked
        BY DEF OutputsPersisted
    <2>1. disk = mem /\ Truthful(mem)
        BY DEF IInv, SavedInv, RunInv
    <2>2. \A d \in Deps[cur] : mem.tasks[d] = "succeeded"
        BY DEF IInv, TakenInv, Taken
    <2>3. Deps[cur] \subseteq Tasks
        BY OrchestratorAssumption DEF TypeOK
    <2>4. QED
        BY <2>1, <2>2, <2>3 DEF Truthful
<1>2. QED
    BY <1>1, Invariant, TypeCorrect, PTL

\* The verdict in a run file is the workers' own: "succeeded" only if all of
\* them returned ok, "failed" only if one did not and nothing can still run.
THEOREM EarnedVerdict == Spec => []VerdictIsEarned
<1>1. TypeOK /\ IInv => VerdictIsEarned
    BY DEF IInv, RunInv, Truthful, Final, VerdictIsEarned, TypeOK
<1>2. QED
    BY <1>1, Invariant, TypeCorrect, PTL
-----------------------------------------------------------------------------
(* A run that was never interrupted returns settled *)

\* The least-number principle, for sets of numbers.
LEMMA Least ==
  ASSUME NEW S \in SUBSET Nat, S # {}
  PROVE  \E x \in S : \A y \in S : x <= y
<1> DEFINE R == {ss \in Nat \X Nat : ss[1] < ss[2]}
<1>1. IsWellFoundedOn(R, Nat)
    BY NatLessThanWellFounded DEF OpToRel
<1>2. PICK x \in S : \A y \in S : <<y, x>> \notin R
    BY <1>1, WFMin
<1>3. ASSUME NEW y \in S PROVE x <= y
    <2>1. x \in Nat /\ y \in Nat
        OBVIOUS
    <2>2. y < x => <<y, x>> \in R
        BY <2>1
    <2>3. QED
        BY <1>2, <2>1, <2>2
<1>4. QED
    BY <1>3

\* Every task is over or blocked, and the status says which.
Settled(run) ==
  /\ \A t \in Tasks : run.tasks[t] \in {"succeeded", "failed"} \/ Blocked(run.tasks, t)
  /\ run.status \in {"succeeded", "failed"}

\* When nothing runs and nothing can run, the run is settled: a pending task is
\* pending because of a task before it that failed, since the first pending
\* task has only finished tasks before it.
LEMMA NothingLeftSettles ==
  ASSUME NEW run \in Run, Runnable(run.tasks) = {}, \A t \in Tasks : run.tasks[t] # "running"
  PROVE  Settled(withTransitionedStatus(run))
<1> DEFINE tasks == run.tasks
           Waiting == {t \in Tasks : tasks[t] = "pending"}
<1> USE OrchestratorAssumption
<1>1. tasks \in [Tasks -> TaskStatus]
    BY DEF Run
<1>2. ASSUME NEW t \in Waiting PROVE \E d \in Deps[t] : tasks[d] # "succeeded"
    BY <1>2 DEF Runnable
<1>3. \A t \in Tasks : tasks[t] \in {"succeeded", "failed"} \/ Blocked(tasks, t)
    <2>1. ASSUME NEW t \in Waiting PROVE Blocked(tasks, t)
        <3>1. PICK d \in Deps[t] : tasks[d] # "succeeded"
            BY <1>2
        <3>2. d \in Tasks
            OBVIOUS
        <3>3. tasks[d] \in {"failed", "pending"}
            BY <1>1, <3>1, <3>2 DEF TaskStatus
        <3>4. QED
            BY <3>3 DEF Blocked
    <2>2. QED
        BY <1>1, <2>1 DEF TaskStatus
<1>4. Waiting # {} => \E t \in Tasks : tasks[t] = "failed"
    <2>1. SUFFICES ASSUME Waiting # {} PROVE \E t \in Tasks : tasks[t] = "failed"
        OBVIOUS
    <2>2. Waiting \in SUBSET Nat
        BY DEF Tasks
    <2>3. PICK t \in Waiting : \A u \in Waiting : t <= u
        BY <2>1, <2>2, Least
    <2>4. PICK d \in Deps[t] : tasks[d] # "succeeded"
        BY <1>2
    <2>5. d \in Tasks /\ d < t /\ t \in Nat /\ d \in Nat
        BY DEF Tasks
    <2>6. tasks[d] # "pending"
        BY <2>3, <2>5
    <2>7. QED
        BY <1>1, <2>4, <2>5, <2>6 DEF TaskStatus
<1>5. computeRunStatus(tasks) \in {"succeeded", "failed"}
    <2>1. CASE Waiting = {}
        <3>1. \A t \in Tasks : tasks[t] \in {"succeeded", "failed"}
            BY <1>1, <2>1 DEF TaskStatus
        <3>2. 1 \in Tasks
            BY DEF Tasks
        <3>3. /\ ~\E t \in Tasks : tasks[t] = "running"
              /\ ~\A t \in Tasks : tasks[t] = "pending"
            BY <2>1, <3>2
        <3>4. QED
            BY <3>1, <3>3 DEF computeRunStatus
    <2>2. CASE Waiting # {}
        <3>1. \E t \in Tasks : tasks[t] = "failed"
            BY <1>4, <2>2
        <3>2. /\ ~\E t \in Tasks : tasks[t] = "running"
              /\ ~\A t \in Tasks : tasks[t] \in {"succeeded", "failed"}
              /\ ~\A t \in Tasks : tasks[t] = "pending"
              /\ Runnable(tasks) = {}
            BY <2>2, <3>1
        <3>3. QED
            BY <3>1, <3>2 DEF computeRunStatus
    <2>3. QED
        BY <2>1, <2>2
<1>6. QED
    BY <1>3, <1>5, TransitionType DEF Settled

\* The last save of a call that was not aborted.
Finishing == ~aborted /\ (pc = "returned" \/ (pc \in {"truncate", "write"} /\ after = "returned"))

\* Without a crash the file follows the memory and only the taken task runs.
CalmInv ==
  /\ \A t \in Tasks : mem.tasks[t] = "running" => Taken /\ t = cur
  /\ pc \in {"loop", "call", "work", "returned"} => disk = mem
  /\ pc = "off" => disk = Absent
  /\ pc \in {"truncate", "write"} => after # "off"
  /\ Finishing => Settled(mem)

\* Every step but a crash keeps a call on its way to a settled run.
LEMMA CalmStep == TypeOK /\ IInv /\ CalmInv /\ [Next]_vars /\ crashes' = 0 => CalmInv'
<1> SUFFICES ASSUME TypeOK, IInv, CalmInv, [Next]_vars, crashes' = 0 PROVE CalmInv'
    OBVIOUS
<1> USE OrchestratorAssumption, NotRuns
<1>1. mem \in Run /\ mem.tasks \in [Tasks -> TaskStatus] /\ cur \in Tasks
    BY DEF TypeOK, Run
<1>2. CASE Truncate
    BY <1>2 DEF Truncate, CalmInv, Taken, Finishing
<1>3. CASE Write
    BY <1>3 DEF Write, CalmInv, Taken, Finishing, TypeOK
<1>4. ASSUME NEW run \in Run, SaveThen(run, "loop"), \A t \in Tasks : run.tasks[t] # "running"
      PROVE  CalmInv'
    BY <1>4 DEF SaveThen, CalmInv, Taken, Finishing
<1>5. CASE Start
    <2>1. withTransitionedStatus(createRunFromWorkflow) \in Run
          /\ \A t \in Tasks : withTransitionedStatus(createRunFromWorkflow).tasks[t] # "running"
        BY CreateType, TransitionType
    <2>2. QED
        BY <1>4, <1>5, <2>1 DEF Start
<1>6. CASE Resume
    <2>1. disk = mem /\ \A t \in Tasks : mem.tasks[t] # "running"
        BY <1>6 DEF Resume, CalmInv, Taken
    <2>2. QED
        BY <1>1, <1>4, <1>6, <2>1, TransitionType DEF Resume
<1>7. CASE Abort
    BY <1>7 DEF Abort, CalmInv, Taken, Finishing
<1>8. ASSUME NEW t \in Tasks, TakeTask(t) PROVE CalmInv'
    <2>1. markTask(mem, t, "running").tasks = [mem.tasks EXCEPT ![t] = "running"]
        BY <1>1, MarkType DEF TaskStatus
    <2>2. \A u \in Tasks : mem.tasks[u] # "running"
        BY <1>8 DEF TakeTask, CalmInv, Taken
    <2>3. mem' = markTask(mem, t, "running") /\ cur' = t /\ pc' = "truncate" /\ after' = "call"
        BY <1>8 DEF TakeTask, SaveThen
    <2>4. QED
        BY <1>1, <2>1, <2>2, <2>3 DEF CalmInv, Taken, Finishing
<1>9. CASE CallWorker
    BY <1>9 DEF CallWorker, CalmInv, Taken, Finishing
<1>10. ASSUME NEW s \in {"succeeded", "failed"}, SaveThen(markTask(mem, cur, s), "loop") PROVE CalmInv'
    <2>1. s \in TaskStatus
        BY DEF TaskStatus
    <2>2. /\ markTask(mem, cur, s) \in Run
          /\ markTask(mem, cur, s).tasks = [mem.tasks EXCEPT ![cur] = s]
        BY <1>1, <2>1, MarkType
    <2>3. \A t \in Tasks : markTask(mem, cur, s).tasks[t] # "running"
        BY <1>1, <2>2 DEF CalmInv
    <2>4. QED
        BY <1>4, <1>10, <2>2, <2>3
<1>11. CASE NoWorkerFails \/ WorkerSucceeds \/ WorkerFails
    BY <1>10, <1>11 DEF NoWorkerFails, WorkerSucceeds, WorkerFails
<1>12. CASE Finish
    <2>1. \A t \in Tasks : mem.tasks[t] # "running"
        BY <1>12 DEF Finish, CalmInv, Taken
    <2>2. mem' = withTransitionedStatus(mem) /\ pc' = "truncate" /\ after' = "returned"
          /\ UNCHANGED aborted
        BY <1>12 DEF Finish, SaveThen
    <2>3. withTransitionedStatus(mem).tasks = mem.tasks
        BY <1>1, TransitionType
    <2>4. ~aborted => Settled(withTransitionedStatus(mem))
        BY <1>1, <1>12, <2>1, NothingLeftSettles DEF Finish
    <2>5. ~aborted => Settled(mem)'
        BY <2>2, <2>4 DEF Settled
    <2>6. QED
        BY <2>1, <2>2, <2>3, <2>5 DEF CalmInv, Finishing
<1>13. CASE Crash
    BY <1>13 DEF Crash, TypeOK
<1>14. CASE UNCHANGED vars
    BY <1>14 DEF vars, CalmInv, Taken, Finishing
<1>15. QED
    BY <1>2, <1>3, <1>5, <1>6, <1>7, <1>8, <1>9, <1>11, <1>12, <1>13, <1>14 DEF Next, Runner

\* runOrchestratorRun returns when every task is over or blocked, with a final
\* status, on workflows of any size and shape: unless it was aborted, or a
\* process died while a task was running.
THEOREM SettlesUninterrupted == Spec => []UninterruptedSettles
<1> DEFINE Inv == crashes = 0 => CalmInv
<1>1. Init => Inv
    BY CreateType DEF Init, CalmInv, Finishing
<1>2. TypeOK /\ IInv /\ Inv /\ [Next]_vars => Inv'
    <2>1. TypeOK /\ [Next]_vars /\ crashes' = 0 => crashes = 0
        BY DEF TypeOK, Next, Runner, Start, Resume, Truncate, Write, CallWorker, NoWorkerFails,
               WorkerSucceeds, WorkerFails, Finish, TakeTask, Abort, Crash, vars
    <2>2. QED
        BY <2>1, CalmStep
<1>3. TypeOK /\ Inv => UninterruptedSettles
    BY DEF CalmInv, Finishing, Settled, UninterruptedSettles, ReturnsWhenSettled, TypeOK
<1> HIDE DEF Inv
<1>4. QED
    BY <1>1, <1>2, <1>3, Invariant, TypeCorrect, PTL DEF Spec
=============================================================================
