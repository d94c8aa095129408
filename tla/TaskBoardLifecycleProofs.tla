---------------------- MODULE TaskBoardLifecycleProofs ----------------------
(***************************************************************************)
(* Theorems about the life of a task on the board: who works on a task in  *)
(* progress, the approval gate, what a worker is given, and the refinement *)
(* of TaskLifecycle.                                                       *)
(***************************************************************************)
EXTENDS TaskBoardProofs

-----------------------------------------------------------------------------
(* Prepared writes *)

\* The tick has claimed a task and has not written its outcome yet.
Working(k) == held[k] # None /\ pc[k] \in {"unlock", "claimed", "running", "settle"}

\* What a process is about to write: an operator's handler puts a task in the
\* queue or blocks it; a tick claims a task, or settles the one it holds.
Prepared(w, p) ==
  /\ w.by = None => w.rec.status \in {"queued", "blocked"}
  /\ w.by # None =>
       /\ ProcOf[w.by] = p
       /\ pc[w.by] \in {"locked", "settle", "resettle"}
       /\ pc[w.by] = "locked" => w.rec.status = "in-progress"
       /\ pc[w.by] # "locked" => w.id = held[w.by].id /\ w.rec.status \in Outcome
PreparedInv == \A p \in Proc : pend[p] # None => Prepared(pend[p], p)

\* Only tick k moves: the prepared writes of the other processes stay as they are.
OnlyTick(k) ==
  /\ \A j \in Tick : j # k => pc'[j] = pc[j] /\ held'[j] = held[j]
  /\ \A q \in Proc : q # ProcOf[k] => pend'[q] = pend[q]

\* A step keeps the writes prepared by the processes it does not touch.
LEMMA OthersPrepared ==
  ASSUME TypeOK, PreparedInv, NEW k \in Tick, OnlyTick(k),
         NEW q \in Proc, q # ProcOf[k], pend'[q] # None
  PROVE  Prepared(pend[q], q)'
<1>1. pend'[q] = pend[q] /\ Prepared(pend[q], q)
    BY DEF OnlyTick, PreparedInv
<1>2. CASE pend[q].by = None
    BY <1>1, <1>2 DEF Prepared
<1>3. CASE pend[q].by # None
    <2>1. pend[q].by \in Tick /\ pend[q].by # k
        BY <1>1, <1>3 DEF TypeOK, PendingWrite, Prepared
    <2>2. pc'[pend[q].by] = pc[pend[q].by] /\ held'[pend[q].by] = held[pend[q].by]
        BY <2>1 DEF OnlyTick
    <2>3. QED
        BY <1>1, <1>3, <2>2 DEF Prepared
<1>4. QED
    BY <1>2, <1>3

\* Which steps of a tick leave the others alone.
LEMMA TickStepsAlone ==
  ASSUME TypeOK, NEW k \in Tick, TickStarts(k) \/ TickStep(k) \/ AuditThrows(k)
  PROVE  OnlyTick(k)
<1> USE BoardAssumption DEF TypeOK, OnlyTick
<1>1. CASE TickStarts(k)
    BY <1>1 DEF TickStarts
<1>2. CASE AcquireLock(k)
    BY <1>2 DEF AcquireLock
<1>3. CASE ClaimScan(k)
    BY <1>3 DEF ClaimScan
<1>4. CASE ClaimSave(k)
    BY <1>4 DEF ClaimSave
<1>5. CASE ReleaseLock(k)
    BY <1>5 DEF ReleaseLock, NextRole
<1>6. CASE StartWorker(k)
    BY <1>6 DEF StartWorker
<1>7. CASE \E o \in Outcome : WorkerReturns(k, o)
    BY <1>7 DEF WorkerReturns
<1>8. CASE SettleSave(k)
    BY <1>8 DEF SettleSave
<1>9. CASE AuditOk(k)
    BY <1>9 DEF AuditOk, NextRole
<1>10. CASE AuditThrows(k)
    BY <1>10 DEF AuditThrows
<1>11. QED
    BY <1>1, <1>2, <1>3, <1>4, <1>5, <1>6, <1>7, <1>8, <1>9, <1>10 DEF TickStep

\* Every step keeps the prepared writes as described.
LEMMA PreparedStep == TypeOK /\ HeldInv /\ PreparedInv /\ [Next]_vars => PreparedInv'
<1> SUFFICES ASSUME TypeOK, HeldInv, PreparedInv, [Next]_vars PROVE PreparedInv'
    OBVIOUS
<1> USE BoardAssumption
<1>1. ASSUME UNCHANGED <<pend, pc, held>> PROVE PreparedInv'
    BY <1>1 DEF PreparedInv, Prepared
<1>2. ASSUME NEW p \in Proc, NEW t \in Task, NEW rec, OperatorReads(p, t, rec),
             rec.status \in {"queued", "blocked"}
      PROVE  PreparedInv'
    <2>1. /\ \A q \in Proc : pend'[q] = IF q = p THEN [by |-> None, id |-> t, rec |-> rec]
                                       ELSE pend[q]
          /\ UNCHANGED <<pc, held>>
        BY <1>2 DEF OperatorReads, TypeOK
    <2>2. QED
        BY <1>2, <2>1 DEF PreparedInv, Prepared
<1>3. ASSUME NEW p \in Proc, NEW t \in Task, ApproveTask(p, t) PROVE PreparedInv'
    <2>1. store[t] \in TaskRecord /\ store[t].status = "backlog"
        BY <1>3 DEF ApproveTask, HasStatus, TypeOK
    <2>2. approveTaskForQueue(store[t]).status = "queued"
        BY <2>1 DEF approveTaskForQueue, resetClaim, TaskRecord
    <2>3. QED
        BY <1>2, <1>3, <2>2 DEF ApproveTask
<1>4. ASSUME NEW p \in Proc, NEW t \in Task, RetryTask(p, t) PROVE PreparedInv'
    <2>1. store[t] \in TaskRecord
        BY <1>4 DEF RetryTask, OnDisk, TypeOK
    <2>2. resetTaskForRetry(store[t]).status = "queued"
        BY <2>1 DEF resetTaskForRetry, resetClaim, TaskRecord
    <2>3. QED
        BY <1>2, <1>4, <2>2 DEF RetryTask
<1>5. ASSUME NEW p \in Proc, NEW t \in Task, BlockTask(p, t) PROVE PreparedInv'
    <2>1. store[t] \in TaskRecord
        BY <1>5 DEF BlockTask, OnDisk, TypeOK
    <2>2. QED
        BY <1>2, <1>5, <2>1, HelpersUnclaim DEF BlockTask
<1>6. ASSUME NEW p \in Proc, OperatorSave(p) PROVE PreparedInv'
    BY <1>6 DEF OperatorSave, PreparedInv, Prepared, TypeOK
<1>7. ASSUME NEW k \in Tick, OnlyTick(k),
             pend'[ProcOf[k]] # None => Prepared(pend[ProcOf[k]], ProcOf[k])'
      PROVE  PreparedInv'
    BY <1>7, OthersPrepared DEF PreparedInv
<1>8. ASSUME NEW k \in Tick, ClaimScan(k) PROVE PreparedInv'
    <2>1. OnlyTick(k)
        BY <1>8, TickStepsAlone DEF TickStep
    <2>2. pend'[ProcOf[k]] # None => Prepared(pend[ProcOf[k]], ProcOf[k])'
        <3>1. pend[ProcOf[k]] = None /\ pc[k] = "locked" /\ ProcOf[k] \in Proc
            BY <1>8 DEF ClaimScan, Busy
        <3>2. ASSUME NEW t \in findEligibleTask(at[k]), UNCHANGED pc,
                     pend' = [pend EXCEPT ![ProcOf[k]] =
                                [by |-> k, id |-> t, rec |-> markTaskClaimed(store[t], ProcOf[k])]]
              PROVE  Prepared(pend[ProcOf[k]], ProcOf[k])'
            BY <3>1, <3>2 DEF Prepared, markTaskClaimed, TypeOK
        <3>3. QED
            BY <1>8, <3>1, <3>2 DEF ClaimScan
    <2>3. QED
        BY <1>7, <2>1, <2>2
<1>9. ASSUME NEW k \in Tick, ClaimSave(k) \/ SettleSave(k) PROVE PreparedInv'
    <2>1. OnlyTick(k)
        BY <1>9, TickStepsAlone DEF TickStep
    <2>2. pend'[ProcOf[k]] = None
        BY <1>9 DEF ClaimSave, SettleSave, TypeOK
    <2>3. QED
        BY <1>7, <2>1, <2>2
<1>10. ASSUME NEW k \in Tick, NEW o \in Outcome, NEW s \in {"settle", "resettle"}, Claimed(k),
              OnlyTick(k), UNCHANGED held, pc' = [pc EXCEPT ![k] = s],
              pend' = [pend EXCEPT ![ProcOf[k]] =
                         [by |-> k, id |-> held[k].id, rec |-> markTaskSettled(held[k].rec, o)]]
       PROVE  PreparedInv'
    <2>1. held[k].rec \in TaskRecord
        BY <1>10 DEF HeldInv, TypeOK, Held
    <2>2. markTaskSettled(held[k].rec, o).status \in Outcome
        BY <2>1, HelpersUnclaim
    <2>3. pend'[ProcOf[k]] = [by |-> k, id |-> held[k].id, rec |-> markTaskSettled(held[k].rec, o)]
        BY <1>10 DEF TypeOK
    <2>4. pc'[k] = s
        BY <1>10 DEF TypeOK
    <2>5. Prepared(pend[ProcOf[k]], ProcOf[k])'
        BY <1>10, <2>2, <2>3, <2>4 DEF Prepared
    <2>6. QED
        BY <1>7, <1>10, <2>5
<1>11. ASSUME NEW k \in Tick, NEW o \in Outcome, WorkerReturns(k, o) PROVE PreparedInv'
    BY <1>10, <1>11, TickStepsAlone DEF WorkerReturns, Claimed, TickStep
<1>12. ASSUME NEW k \in Tick, AuditThrows(k) PROVE PreparedInv'
    BY <1>10, <1>12, TickStepsAlone DEF AuditThrows, Claimed, Outcome
<1>13. ASSUME NEW k \in Tick,
              TickStarts(k) \/ AcquireLock(k) \/ ReleaseLock(k) \/ StartWorker(k) \/ AuditOk(k)
       PROVE  PreparedInv'
    <2>1. OnlyTick(k) /\ UNCHANGED pend
        BY <1>13, TickStepsAlone DEF TickStep, TickStarts, AcquireLock, ReleaseLock, StartWorker, AuditOk
    <2>2. pc[k] \notin {"locked", "settle", "resettle"}
        BY <1>13 DEF TickStarts, AcquireLock, ReleaseLock, StartWorker, AuditOk
    <2>3. ASSUME pend[ProcOf[k]] # None PROVE Prepared(pend[ProcOf[k]], ProcOf[k])'
        <3>1. Prepared(pend[ProcOf[k]], ProcOf[k])
            BY <2>3 DEF PreparedInv
        <3>2. CASE pend[ProcOf[k]].by = None
            BY <2>1, <3>1, <3>2 DEF Prepared
        <3>3. CASE pend[ProcOf[k]].by # None
            <4>1. pend[ProcOf[k]].by \in Tick /\ pend[ProcOf[k]].by # k
                BY <2>2, <2>3, <3>1, <3>3 DEF Prepared, TypeOK, PendingWrite
            <4>2. QED
                BY <2>1, <3>1, <4>1 DEF Prepared, OnlyTick
        <3>4. QED
            BY <3>2, <3>3
    <2>4. QED
        BY <1>7, <2>1, <2>3
<1>14. ASSUME NEW p \in Proc, Crash(p) PROVE PreparedInv'
    <2>1. ASSUME NEW q \in Proc, pend'[q] # None PROVE Prepared(pend[q], q)'
        <3>1. q # p /\ pend'[q] = pend[q] /\ Prepared(pend[q], q)
            BY <1>14, <2>1 DEF Crash, TypeOK, PreparedInv
        <3>2. pend[q].by # None => pend[q].by \in Tick /\ ProcOf[pend[q].by] = q
            BY <2>1, <3>1 DEF TypeOK, PendingWrite, Prepared
        <3>3. pend[q].by # None =>
                pc'[pend[q].by] = pc[pend[q].by] /\ held'[pend[q].by] = held[pend[q].by]
            BY <1>14, <3>1, <3>2 DEF Crash
        <3>4. QED
            BY <3>1, <3>3 DEF Prepared
    <2>2. QED
        BY <2>1 DEF PreparedInv
<1>15. ASSUME NEW p \in Proc,
              Planner(p) \/ ArchiveProject(p) \/ Restart(p) \/ \E t \in Task : PlanSave(p, t)
       PROVE  UNCHANGED <<pend, pc, held>>
    BY <1>15 DEF Planner, PlanStart, PlanThrows, ArchiveProject, Restart, PlanSave
<1>16. QED
    BY <1>1, <1>3, <1>4, <1>5, <1>6, <1>8, <1>9, <1>11, <1>12, <1>13, <1>14, <1>15
       DEF Next, Operator, Turn, TickStep, vars

\* The prepared writes are as described in every behaviour.
LEMMA AlwaysPrepared == Spec => []PreparedInv
<1>1. Init => PreparedInv
    BY DEF Init, PreparedInv
<1>2. QED
    BY <1>1, PreparedStep, TypeCorrect, PTL DEF Spec

\* The counters of faults never go down.
LEMMA FaultsGrow ==
  ASSUME TypeOK, [Next]_vars
  PROVE  /\ faults'.crash >= faults.crash /\ faults'.retry >= faults.retry
         /\ faults'.block >= faults.block /\ faults'.audit >= faults.audit
         /\ faults'.stall >= faults.stall
<1> DEFINE Grow == /\ faults'.crash >= faults.crash /\ faults'.retry >= faults.retry
                   /\ faults'.block >= faults.block /\ faults'.audit >= faults.audit
                   /\ faults'.stall >= faults.stall
<1> USE DEF TypeOK
<1>1. ASSUME UNCHANGED faults PROVE Grow
    BY <1>1
<1>2. ASSUME NEW p \in Proc, Operator(p) \/ PlanThrows(p) \/ Crash(p) PROVE Grow
    BY <1>2 DEF Operator, ApproveTask, RetryTask, BlockTask, ArchiveProject, PlanThrows, Crash
<1>3. ASSUME NEW p \in Proc, (\E S \in Plans : PlanStart(p, S)) \/ Turn(p) \/ Restart(p)
      PROVE  UNCHANGED faults
    BY <1>3 DEF PlanStart, Turn, PlanSave, OperatorSave, Restart
<1>4. ASSUME NEW k \in Tick, AcquireLock(k) \/ AuditThrows(k) PROVE Grow
    BY <1>4 DEF AcquireLock, AuditThrows
<1>5. ASSUME NEW k \in Tick,
             \/ TickStarts(k) \/ ClaimScan(k) \/ ClaimSave(k) \/ ReleaseLock(k)
             \/ StartWorker(k) \/ SettleSave(k) \/ AuditOk(k)
             \/ \E o \in Outcome : WorkerReturns(k, o)
      PROVE  UNCHANGED faults
    BY <1>5 DEF TickStarts, ClaimScan, ClaimSave, ReleaseLock, StartWorker, SettleSave,
                AuditOk, WorkerReturns
<1>6. QED
    BY <1>1, <1>2, <1>3, <1>4, <1>5 DEF Next, Planner, TickStep, vars
-----------------------------------------------------------------------------
(* Only a crash orphans a task *)

\* A task in progress on disk is held by a tick that has still to settle it.
WorkerInv ==
  \A t \in Task : HasStatus(t, "in-progress") => \E k \in Tick : Working(k) /\ held[k].id = t

\* A step that lets nobody stop working and writes no task in progress keeps
\* every such task with its worker.
LEMMA KeepsWorkers ==
  ASSUME WorkerInv,
         \A k \in Tick : Working(k) => Working(k)' /\ held'[k] = held[k],
         \A t \in Task : HasStatus(t, "in-progress")' => HasStatus(t, "in-progress")
  PROVE  WorkerInv'
  BY DEF WorkerInv

\* Every step but a crash keeps a task in progress with its worker.
LEMMA WorkerStep ==
  TypeOK /\ HeldInv /\ PreparedInv /\ WorkerInv /\ [Next]_vars /\ faults'.crash = 0 => WorkerInv'
<1> SUFFICES ASSUME TypeOK, HeldInv, PreparedInv, WorkerInv, [Next]_vars, faults'.crash = 0
             PROVE  WorkerInv'
    OBVIOUS
<1> USE BoardAssumption
<1>1. ASSUME UNCHANGED <<pc, held>>,
             \A t \in Task : HasStatus(t, "in-progress")' => HasStatus(t, "in-progress")
      PROVE  WorkerInv'
    BY <1>1, KeepsWorkers DEF Working
<1>2. ASSUME NEW t \in Task, NEW rec, rec.status # "in-progress", saveTask(t, rec)
      PROVE  \A u \in Task : HasStatus(u, "in-progress")' => HasStatus(u, "in-progress")
    BY <1>2 DEF saveTask, HasStatus, TypeOK
<1>3. ASSUME NEW p \in Proc, NEW t \in Task, PlanSave(p, t) PROVE WorkerInv'
    <2>1. createTaskRecord(t).status # "in-progress"
        BY DEF createTaskRecord
    <2>2. QED
        BY <1>1, <1>2, <1>3, <2>1 DEF PlanSave
<1>4. ASSUME NEW p \in Proc, OperatorSave(p) PROVE WorkerInv'
    <2>1. pend[p].id \in Task /\ pend[p].rec.status # "in-progress"
        BY <1>4 DEF OperatorSave, PreparedInv, Prepared, TypeOK, PendingWrite
    <2>2. QED
        BY <1>1, <1>2, <1>4, <2>1 DEF OperatorSave
<1>5. ASSUME NEW k \in Tick, ClaimSave(k) PROVE WorkerInv'
    <2> DEFINE w == pend[ProcOf[k]]
    <2>1. w.id \in Task /\ w.rec \in TaskRecord /\ pc[k] = "locked"
        BY <1>5 DEF ClaimSave, TypeOK, PendingWrite
    <2>2. /\ store' = [store EXCEPT ![w.id] = w.rec]
          /\ held' = [held EXCEPT ![k] = [id |-> w.id, rec |-> w.rec]]
          /\ pc' = [pc EXCEPT ![k] = "unlock"]
        BY <1>5 DEF ClaimSave, saveTask
    <2>3. held'[k].id = w.id /\ held'[k] # None /\ pc'[k] = "unlock"
        <3>1. held'[k] = [id |-> w.id, rec |-> w.rec] /\ pc'[k] = "unlock"
            BY <2>2 DEF TypeOK
        <3>2. held'[k] # None
            BY <2>1, <3>1, NoneIsNoRecord DEF Held
        <3>3. QED
            BY <3>1, <3>2
    <2>4. Working(k)'
        BY <2>3 DEF Working
    <2>5. ASSUME NEW j \in Tick, Working(j) PROVE Working(j)' /\ held'[j] = held[j]
        BY <2>1, <2>2, <2>5 DEF Working, TypeOK
    <2>6. ASSUME NEW t \in Task, HasStatus(t, "in-progress")', t # w.id
          PROVE  HasStatus(t, "in-progress")
        BY <2>2, <2>6 DEF HasStatus, TypeOK
    <2>7. QED
        BY <2>3, <2>4, <2>5, <2>6 DEF WorkerInv
<1>6. ASSUME NEW k \in Tick, SettleSave(k) PROVE WorkerInv'
    <2> DEFINE w == pend[ProcOf[k]]
    <2>1. w.id \in Task /\ w.rec \in TaskRecord /\ w.id = held[k].id /\ w.rec.status # "in-progress"
        BY <1>6 DEF SettleSave, TypeOK, PendingWrite, PreparedInv, Prepared, Outcome
    <2>2. store' = [store EXCEPT ![w.id] = w.rec] /\ UNCHANGED held
        BY <1>6 DEF SettleSave, saveTask
    <2>3. ASSUME NEW j \in Tick, j # k, Working(j) PROVE Working(j)' /\ held'[j] = held[j]
        BY <1>6, <2>3 DEF SettleSave, Working, TypeOK
    <2>4. ASSUME NEW t \in Task, HasStatus(t, "in-progress")'
          PROVE  HasStatus(t, "in-progress") /\ t # held[k].id
        BY <2>1, <2>2, <2>4 DEF HasStatus, TypeOK
    <2>5. QED
        BY <2>3, <2>4 DEF WorkerInv
<1>7. ASSUME NEW k \in Tick,
             \/ TickStarts(k) \/ AcquireLock(k) \/ ClaimScan(k) \/ ReleaseLock(k)
             \/ StartWorker(k) \/ AuditOk(k) \/ AuditThrows(k)
             \/ \E o \in Outcome : WorkerReturns(k, o)
      PROVE  WorkerInv'
    <2>1. UNCHANGED store
        BY <1>7 DEF TickStarts, AcquireLock, ClaimScan, ReleaseLock, StartWorker, AuditOk,
                    AuditThrows, WorkerReturns
    <2>2. ASSUME Working(k) PROVE Working(k)' /\ held'[k] = held[k]
        BY <1>7, <2>2 DEF TickStarts, AcquireLock, ClaimScan, ReleaseLock, StartWorker, AuditOk,
                    AuditThrows, WorkerReturns, Working, TypeOK
    <2>3. ASSUME NEW j \in Tick, j # k, Working(j) PROVE Working(j)' /\ held'[j] = held[j]
        BY <1>7, <2>3, TickStepsAlone DEF TickStep, OnlyTick, Working
    <2>4. QED
        BY <2>1, <2>2, <2>3, KeepsWorkers DEF HasStatus
<1>8. ASSUME NEW p \in Proc, Crash(p) PROVE FALSE
    BY <1>8 DEF Crash, TypeOK
<1>9. ASSUME NEW p \in Proc, Operator(p) \/ Planner(p) \/ Restart(p)
      PROVE  UNCHANGED <<store, pc, held>>
    BY <1>9 DEF Operator, ApproveTask, RetryTask, BlockTask, OperatorReads, ArchiveProject,
                Planner, PlanStart, PlanThrows, Restart
<1>10. ASSUME UNCHANGED <<store, pc, held>> PROVE WorkerInv'
    BY <1>1, <1>10 DEF HasStatus
<1>11. QED
    BY <1>3, <1>4, <1>5, <1>6, <1>7, <1>8, <1>9, <1>10 DEF Next, Turn, TickStep, vars

\* As long as no process died, a task in progress is held by a tick: retries,
\* blocks, stolen locks, failing audit appends and late writes of stale
\* records never leave one that nobody will settle.
THEOREM OnlyCrashOrphans == Spec => []OrphanedOnlyByCrash
<1> DEFINE Inv == faults.crash = 0 => WorkerInv
<1>1. Init => Inv
    BY DEF Init, WorkerInv, HasStatus
<1>2. TypeOK /\ HeldInv /\ PreparedInv /\ Inv /\ [Next]_vars => Inv'
    <2>1. TypeOK /\ [Next]_vars /\ faults'.crash = 0 => faults.crash = 0
        BY FaultsGrow DEF TypeOK
    <2>2. QED
        BY <2>1, WorkerStep
<1>3. Inv => OrphanedOnlyByCrash
    BY DEF OrphanedOnlyByCrash, InProgressHasWorker, WorkerInv, Working
<1> HIDE DEF Inv
<1>4. QED
    BY <1>1, <1>2, <1>3, TypeCorrect, AlwaysPrepared, PTL DEF Spec
-----------------------------------------------------------------------------
(* The approval gate *)

\* An operator's handler is about to put t in the queue.
Asked(t) ==
  \E p \in Proc : /\ pend[p] # None /\ pend[p].by = None
                  /\ pend[p].id = t /\ pend[p].rec.status = "queued"

\* One gateway serves the HTTP API: no two handlers run at the same time.
OneGateway == \A p, q \in HttpProc : p = q

\* Every entry of a task that needs approval into the queue, the one that is
\* about to be saved included, has a decision of the operator of its own.
GateInv ==
  /\ \A p \in Proc : pend[p] # None /\ pend[p].by = None => p \in HttpProc
  /\ \A t \in NeedsApproval : /\ enqueued[t] <= decisions[t]
                              /\ Asked(t) => enqueued[t] + 1 <= decisions[t]

\* Every step keeps the gate.
LEMMA GateStep ==
  ASSUME TypeOK, HeldInv, PreparedInv, GateInv, OneGateway, [Next]_vars
  PROVE  GateInv'
<1> USE BoardAssumption
\* A step that asks for no new entry and enters nothing into the queue.
<1>1. ASSUME \A q \in Proc : pend'[q] # None =>
               \/ pend'[q] = pend[q] \/ pend'[q].by # None
               \/ q \in HttpProc /\ pend'[q].rec.status # "queued",
             \A t \in NeedsApproval : enqueued'[t] = enqueued[t] /\ decisions'[t] = decisions[t]
      PROVE  GateInv'
    <2>1. ASSUME NEW t, Asked(t)' PROVE Asked(t)
        BY <1>1, <2>1 DEF Asked
    <2>2. ASSUME NEW q \in Proc, pend'[q] # None, pend'[q].by = None PROVE q \in HttpProc
        BY <1>1, <2>2 DEF GateInv
    <2>3. QED
        BY <1>1, <2>1, <2>2 DEF GateInv
\* A decision of the operator asks for one entry.
<1>2. ASSUME NEW p \in Proc, NEW t \in Task, NEW rec, OperatorReads(p, t, rec), Decide(t)
      PROVE  GateInv'
    <2>1. /\ \A q \in Proc : pend'[q] = IF q = p THEN [by |-> None, id |-> t, rec |-> rec] ELSE pend[q]
          /\ p \in HttpProc /\ pend[p] = None /\ UNCHANGED enqueued
        BY <1>2 DEF OperatorReads, TypeOK, Busy
    <2>2. \A u \in Task : decisions'[u] = IF u = t THEN decisions[u] + 1 ELSE decisions[u]
        BY <1>2 DEF Decide, TypeOK
    <2>3. ASSUME NEW q \in Proc, pend[q] # None, pend[q].by = None PROVE FALSE
        BY <2>1, <2>3 DEF GateInv, OneGateway
    <2>4. ASSUME NEW u, Asked(u)' PROVE u = t
        <3>1. PICK q \in Proc : pend'[q] # None /\ pend'[q].by = None /\ pend'[q].id = u
            BY <2>4 DEF Asked
        <3>2. q = p
            BY <2>1, <2>3, <3>1
        <3>3. QED
            BY <2>1, <3>1, <3>2
    <2>5. ASSUME NEW u \in NeedsApproval
          PROVE  enqueued'[u] <= decisions'[u] /\ (Asked(u)' => enqueued'[u] + 1 <= decisions'[u])
        <3>1. u \in Task /\ enqueued[u] \in Nat /\ decisions[u] \in Nat /\ enqueued[u] <= decisions[u]
            BY DEF TypeOK, GateInv
        <3>2. QED
            BY <2>1, <2>2, <2>4, <3>1
    <2>6. QED
        BY <2>1, <2>3, <2>5 DEF GateInv
<1>3. ASSUME NEW t \in Task, NEW rec \in TaskRecord, saveTask(t, rec), UNCHANGED decisions,
             t \in NeedsApproval => rec.status # "queued",
             \A q \in Proc : pend'[q] # None => pend'[q] = pend[q]
      PROVE  GateInv'
    <2>1. \A u \in NeedsApproval : enqueued'[u] = enqueued[u]
        BY <1>3 DEF saveTask, TypeOK
    <2>2. QED
        BY <1>1, <1>3, <2>1
<1>4. ASSUME NEW p \in Proc, NEW t \in Task, PlanSave(p, t) PROVE GateInv'
    <2>1. t \in NeedsApproval => createTaskRecord(t).status # "queued"
        BY DEF createTaskRecord
    <2>2. QED
        BY <1>3, <1>4, <2>1, CreateType DEF PlanSave
<1>5. ASSUME NEW p \in Proc, NEW t \in Task, ApproveTask(p, t) \/ RetryTask(p, t) PROVE GateInv'
    BY <1>2, <1>5 DEF ApproveTask, RetryTask
<1>6. ASSUME NEW p \in Proc, NEW t \in Task, BlockTask(p, t) PROVE GateInv'
    <2>1. store[t] \in TaskRecord
        BY <1>6 DEF BlockTask, OnDisk, TypeOK
    <2>2. markTaskBlocked(store[t]).status = "blocked"
        BY <2>1, HelpersUnclaim
    <2>3. /\ \A q \in Proc : q # p => pend'[q] = pend[q]
          /\ pend'[p].rec.status # "queued" /\ p \in HttpProc
          /\ UNCHANGED <<enqueued, decisions>>
        BY <1>6, <2>2 DEF BlockTask, OperatorReads, TypeOK
    <2>4. QED
        BY <1>1, <2>3
<1>7. ASSUME NEW p \in Proc, OperatorSave(p) PROVE GateInv'
    <2>1. /\ pend[p].id \in Task /\ pend[p].rec \in TaskRecord
          /\ pend[p] # None /\ pend[p].by = None /\ p \in HttpProc
        BY <1>7 DEF OperatorSave, TypeOK, PendingWrite, GateInv
    <2>2. \A q \in Proc : pend'[q] = IF q = p THEN None ELSE pend[q]
        BY <1>7 DEF OperatorSave, TypeOK
    <2>3. ASSUME NEW q \in Proc, pend'[q] # None, pend'[q].by = None PROVE FALSE
        BY <2>1, <2>2, <2>3 DEF GateInv, OneGateway
    <2>4. ASSUME NEW u \in NeedsApproval PROVE enqueued'[u] <= decisions'[u] /\ ~Asked(u)'
        <3>1. u \in Task /\ enqueued[u] \in Nat /\ decisions[u] \in Nat /\ enqueued[u] <= decisions[u]
            BY DEF TypeOK, GateInv
        <3>2. enqueued'[u] = IF u = pend[p].id /\ pend[p].rec.status = "queued"
                             THEN enqueued[u] + 1 ELSE enqueued[u]
            BY <1>7, <2>1, <3>1 DEF OperatorSave, saveTask, TypeOK
        <3>3. u = pend[p].id /\ pend[p].rec.status = "queued" => enqueued[u] + 1 <= decisions[u]
            BY <2>1 DEF GateInv, Asked
        <3>4. decisions'[u] = decisions[u]
            BY <1>7 DEF OperatorSave
        <3>5. ~Asked(u)'
            BY <2>3 DEF Asked
        <3>6. QED
            BY <3>1, <3>2, <3>3, <3>4, <3>5
    <2>5. QED
        BY <2>3, <2>4 DEF GateInv
<1>8. ASSUME NEW k \in Tick, ClaimSave(k) \/ SettleSave(k) PROVE GateInv'
    <2> DEFINE w == pend[ProcOf[k]]
    <2>1. ProcOf[k] \in Proc /\ w # None /\ w.by = k /\ k # None
        BY <1>8 DEF ClaimSave, SettleSave
    <2>2. w.id \in Task /\ w.rec \in TaskRecord
        BY <2>1 DEF TypeOK, PendingWrite
    <2>3. w.rec.status # "queued"
        BY <1>8, <2>1 DEF PreparedInv, Prepared, ClaimSave, SettleSave, Outcome
    <2>4. \A q \in Proc : pend'[q] # None => pend'[q] = pend[q]
        BY <1>8 DEF ClaimSave, SettleSave, TypeOK
    <2>5. saveTask(w.id, w.rec) /\ UNCHANGED decisions
        BY <1>8 DEF ClaimSave, SettleSave
    <2>6. QED
        BY <1>3, <2>2, <2>3, <2>4, <2>5
\* What a tick prepares is its own.
<1>9. ASSUME NEW k \in Tick,
             \/ TickStarts(k) \/ AcquireLock(k) \/ ClaimScan(k) \/ ReleaseLock(k)
             \/ StartWorker(k) \/ AuditOk(k) \/ AuditThrows(k)
             \/ \E o \in Outcome : WorkerReturns(k, o)
      PROVE  GateInv'
    <2>1. UNCHANGED <<enqueued, decisions>>
        BY <1>9 DEF TickStarts, AcquireLock, ClaimScan, ReleaseLock, StartWorker, AuditOk,
                    AuditThrows, WorkerReturns, history
    <2>2. \A q \in Proc : q # ProcOf[k] => pend'[q] = pend[q]
        BY <1>9, TickStepsAlone DEF TickStep, OnlyTick
    <2>3. pend'[ProcOf[k]] = pend[ProcOf[k]] \/ pend'[ProcOf[k]].by = k
        <3>1. CASE UNCHANGED pend
            BY <3>1
        <3>2. ASSUME NEW t, NEW rec, pend' = [pend EXCEPT ![ProcOf[k]] = [by |-> k, id |-> t, rec |-> rec]]
              PROVE  pend'[ProcOf[k]].by = k
            BY <3>2 DEF TypeOK
        <3>3. QED
            BY <1>9, <3>1, <3>2 DEF TickStarts, AcquireLock, ClaimScan, ReleaseLock, StartWorker,
                                    AuditOk, AuditThrows, WorkerReturns
    <2>4. QED
        BY <1>1, <2>1, <2>2, <2>3
<1>10. ASSUME NEW p \in Proc, Crash(p) PROVE GateInv'
    <2>1. /\ \A q \in Proc : pend'[q] # None => pend'[q] = pend[q]
          /\ UNCHANGED <<enqueued, decisions>>
        BY <1>10 DEF Crash, TypeOK, history
    <2>2. QED
        BY <1>1, <2>1
<1>11. ASSUME NEW p \in Proc, Planner(p) \/ ArchiveProject(p) \/ Restart(p)
       PROVE  UNCHANGED <<pend, enqueued, decisions>>
    BY <1>11 DEF Planner, PlanStart, PlanThrows, ArchiveProject, Restart, history
<1>12. ASSUME UNCHANGED <<pend, enqueued, decisions>> PROVE GateInv'
    BY <1>1, <1>12
<1>13. QED
    BY <1>4, <1>5, <1>6, <1>7, <1>8, <1>9, <1>10, <1>11, <1>12
       DEF Next, Operator, Turn, TickStep, vars, history

\* "Waiting for operator approval before pickup": with one gateway serving the
\* operator, and until a lock is stolen, a task that needs approval is claimed
\* at most as often as the operator approved or retried it.  Plans, retries and
\* blocks of any tasks, crashes, failing audit appends and late outcomes may come
\* in between; a retry of the task counts as an approval, as it does in the code.
THEOREM ClaimsNeedDecisions == ASSUME OneGateway PROVE Spec => []ClaimNeedsOperator
<1>1. Init => GateInv
    BY BoardAssumption DEF Init, GateInv, Asked
<1>2. TypeOK /\ HeldInv /\ PreparedInv /\ GateInv /\ [Next]_vars => GateInv'
    BY GateStep
<1>3. TypeOK /\ GateInv /\ NoDoubleClaim => ClaimNeedsOperator
    <2> SUFFICES ASSUME TypeOK, GateInv, NoDoubleClaim, faults.stall = 0, NEW t \in NeedsApproval
                 PROVE  claims[t] <= decisions[t]
        BY DEF ClaimNeedsOperator
    <2>1. /\ claims[t] \in Nat /\ enqueued[t] \in Nat /\ decisions[t] \in Nat
          /\ claims[t] <= enqueued[t]
        BY BoardAssumption DEF TypeOK, NoDoubleClaim
    <2>2. enqueued[t] <= decisions[t]
        BY DEF GateInv
    <2>3. QED
        BY <2>1, <2>2
<1>4. QED
    BY <1>1, <1>2, <1>3, TypeCorrect, AlwaysPrepared, ClaimedOncePerEntry, PTL DEF Spec
-----------------------------------------------------------------------------
(* The life of a task until it is disturbed *)

\* Task t has status s, unless it was disturbed.
Is(t, s) == t \in disturbed \/ HasStatus(t, s)

\* A plan's drafts are not on disk, and no other plan saves them.
PlanInv ==
  \A p \in Proc : \A t \in planning[p] :
    ~OnDisk(t) /\ \A q \in Proc : t \in planning[q] => q = p

Ready(t) == \A d \in DependsOn[t] : d \in Task /\ Is(d, "done")

\* The record a process is about to replace is still what it read, unless the
\* task was disturbed.
Fresh(p) ==
  /\ pend[p].by = None =>
       /\ p \in HttpProc /\ OnDisk(pend[p].id)
       /\ pend[p].id \notin disturbed =>
            HasStatus(pend[p].id, "backlog") /\ pend[p].rec.status = "queued"
  /\ pend[p].by # None /\ pc[pend[p].by] = "locked" =>
       Is(pend[p].id, "queued") /\ Ready(pend[p].id)
FreshInv == \A p \in Proc : pend[p] # None => Fresh(p)

\* A tick holds a task from its claim to its settlement; in that time the task
\* is in progress and its dependencies stay done, except those disturbed.
Holds(k) ==
  /\ pc[k] \in {"off", "claim", "locked"} => held[k] = None
  /\ pc[k] = "resettle" => held[k].id \in disturbed
  /\ held[k] # None => OnDisk(held[k].id)
  /\ Working(k) => Is(held[k].id, "in-progress") /\ Ready(held[k].id)
  /\ pc[k] = "running" => DependsOn[held[k].id] \ got[k] \subseteq disturbed
HoldInv == \A k \in Tick : Holds(k)

\* No two ticks work on one task that was not disturbed.
Alone ==
  \A j, k \in Tick : /\ Working(j) /\ Working(k) /\ held[j].id = held[k].id
                     /\ held[j].id \notin disturbed
                     => j = k

LifeInv ==
  LockInv /\ PlanInv /\ FreshInv /\ HoldInv /\ Alone /\ \A t \in disturbed : OnDisk(t)

\* What the status of every task is after a save.
LEMMA SaveStatus ==
  ASSUME TypeOK, NEW t \in Task, NEW rec \in TaskRecord, store' = [store EXCEPT ![t] = rec]
  PROVE  /\ \A u \in Task : \A s : HasStatus(u, s)' <=> IF u = t THEN rec.status = s ELSE HasStatus(u, s)
         /\ \A u \in Task : OnDisk(u)' <=> u = t \/ OnDisk(u)
<1>1. rec # None
    BY NoneIsNoRecord
<1>2. \A u \in Task : store'[u] = IF u = t THEN rec ELSE store[u]
    BY DEF TypeOK
<1>3. QED
    BY <1>1, <1>2 DEF HasStatus, OnDisk

\* A save leaves every other task, and every disturbed one, as it is described.
LEMMA SaveKeeps ==
  ASSUME TypeOK, NEW t \in Task, NEW rec \in TaskRecord, store' = [store EXCEPT ![t] = rec],
         UNCHANGED disturbed, NEW u \in Task, NEW s, Is(u, s), u # t \/ t \in disturbed
  PROVE  Is(u, s)'
<1>1. HasStatus(u, s)' <=> IF u = t THEN rec.status = s ELSE HasStatus(u, s)
    BY SaveStatus
<1>2. QED
    BY <1>1 DEF Is

\* The save of a plan creates a file that is not on disk yet.
LEMMA PlanSaves ==
  ASSUME TypeOK, LifeInv, NEW p \in Proc, NEW t \in Task, PlanSave(p, t)
  PROVE  /\ store' = [store EXCEPT ![t] = createTaskRecord(t)] /\ UNCHANGED disturbed
         /\ createTaskRecord(t) \in TaskRecord /\ ~OnDisk(t) /\ t \notin disturbed
<1>1. ~OnDisk(t) /\ createTaskRecord(t) \in TaskRecord
    BY CreateType DEF PlanSave, LifeInv, PlanInv
<1>2. QED
    BY <1>1 DEF PlanSave, saveTask, LifeInv

\* The operator's save puts a task from the backlog in the queue, unless the
\* task was disturbed.
LEMMA OperatorSaves ==
  ASSUME TypeOK, LifeInv, NEW p \in Proc, OperatorSave(p)
  PROVE  LET w == pend[p]
         IN  /\ w.id \in Task /\ w.rec \in TaskRecord /\ p \in HttpProc
             /\ store' = [store EXCEPT ![w.id] = w.rec] /\ UNCHANGED disturbed
             /\ OnDisk(w.id)
             /\ w.id \notin disturbed => HasStatus(w.id, "backlog") /\ w.rec.status = "queued"
<1>1. pend[p].id \in Task /\ pend[p].rec \in TaskRecord
    BY DEF OperatorSave, TypeOK, PendingWrite
<1>2. Fresh(p)
    BY DEF OperatorSave, LifeInv, FreshInv
<1>3. QED
    BY <1>1, <1>2 DEF OperatorSave, saveTask, Fresh

\* The save of a claim replaces a queued task that is ready.
LEMMA ClaimSaves ==
  ASSUME TypeOK, PreparedInv, LifeInv, NEW k \in Tick, ClaimSave(k)
  PROVE  LET w == pend[ProcOf[k]]
         IN  /\ w.id \in Task /\ w.rec \in TaskRecord
             /\ store' = [store EXCEPT ![w.id] = w.rec] /\ UNCHANGED disturbed
             /\ OnDisk(w.id) /\ w.rec.status = "in-progress"
             /\ Is(w.id, "queued") /\ Ready(w.id)
<1> DEFINE w == pend[ProcOf[k]]
<1> ProcOf[k] \in Proc /\ w # None /\ w.by = k /\ k # None
    BY BoardAssumption DEF ClaimSave
<1>1. w.id \in Task /\ w.rec \in TaskRecord
    BY DEF TypeOK, PendingWrite
<1>2. Fresh(ProcOf[k]) /\ Prepared(w, ProcOf[k])
    BY DEF LifeInv, FreshInv, PreparedInv
<1>3. pc[k] = "locked" /\ store' = [store EXCEPT ![w.id] = w.rec] /\ UNCHANGED disturbed
    BY DEF ClaimSave, saveTask
<1>4. Is(w.id, "queued") /\ Ready(w.id) /\ w.rec.status = "in-progress"
    BY <1>2, <1>3 DEF Fresh, Prepared
<1>5. OnDisk(w.id)
    BY <1>4 DEF Is, HasStatus, OnDisk, LifeInv
<1>6. QED
    BY <1>1, <1>3, <1>4, <1>5

\* The save of an outcome replaces the task in progress that the tick holds,
\* unless the task was disturbed; the second save is of a disturbed task.
LEMMA SettleSaves ==
  ASSUME TypeOK, HeldInv, PreparedInv, LifeInv, NEW k \in Tick, SettleSave(k)
  PROVE  LET w == pend[ProcOf[k]]
         IN  /\ w.id \in Task /\ w.rec \in TaskRecord
             /\ store' = [store EXCEPT ![w.id] = w.rec] /\ UNCHANGED disturbed
             /\ w.id = held[k].id /\ held[k] # None /\ OnDisk(w.id) /\ w.rec.status \in Outcome
             /\ Is(w.id, "in-progress")
             /\ w.id \notin disturbed => Working(k)
<1> DEFINE w == pend[ProcOf[k]]
<1> ProcOf[k] \in Proc /\ w # None /\ w.by = k /\ k # None
    BY BoardAssumption DEF SettleSave
<1>1. w.id \in Task /\ w.rec \in TaskRecord
    BY DEF TypeOK, PendingWrite
<1>2. pc[k] \in {"settle", "resettle"} /\ Holds(k) /\ held[k] # None
    BY DEF SettleSave, LifeInv, HoldInv, HeldInv, Claimed
<1>3. w.id = held[k].id /\ w.rec.status \in Outcome
    BY <1>2 DEF PreparedInv, Prepared
<1>4. pc[k] = "settle" => Working(k) /\ Is(w.id, "in-progress")
    BY <1>2, <1>3 DEF Working, Holds
<1>5. pc[k] = "resettle" => w.id \in disturbed
    BY <1>2, <1>3 DEF Holds
<1>6. store' = [store EXCEPT ![w.id] = w.rec] /\ UNCHANGED disturbed
    BY DEF SettleSave, saveTask
<1>7. QED
    BY <1>1, <1>2, <1>3, <1>4, <1>5, <1>6 DEF Holds, Is

\* Only four kinds of step write task files.
LEMMA FourSaves ==
  ASSUME [Next]_vars
  PROVE  \/ UNCHANGED store
         \/ \E p \in Proc : OperatorSave(p) \/ \E t \in Task : PlanSave(p, t)
         \/ \E k \in Tick : ClaimSave(k) \/ SettleSave(k)
<1>1. ASSUME NEW p \in Proc, Operator(p) \/ Planner(p) \/ Crash(p) \/ Restart(p)
      PROVE  UNCHANGED store
    BY <1>1 DEF Operator, ApproveTask, RetryTask, BlockTask, OperatorReads, ArchiveProject,
                Planner, PlanStart, PlanThrows, Crash, Restart
<1>2. ASSUME NEW k \in Tick,
             \/ TickStarts(k) \/ AcquireLock(k) \/ ClaimScan(k) \/ ReleaseLock(k)
             \/ StartWorker(k) \/ AuditOk(k) \/ AuditThrows(k)
             \/ \E o \in Outcome : WorkerReturns(k, o)
      PROVE  UNCHANGED store
    BY <1>2 DEF TickStarts, AcquireLock, ClaimScan, ReleaseLock, StartWorker, AuditOk,
                AuditThrows, WorkerReturns
<1>3. QED
    BY <1>1, <1>2 DEF Next, Turn, TickStep, vars

\* A step that disturbs a task disturbs one on disk and writes no task file.
LEMMA Disturbs ==
  ASSUME TypeOK, HeldInv, LifeInv, [Next]_vars
  PROVE  \/ UNCHANGED disturbed
         \/ UNCHANGED store /\ \E t \in Task : OnDisk(t) /\ disturbed' = disturbed \cup {t}
<1> DEFINE Goal == \/ UNCHANGED disturbed
                   \/ UNCHANGED store /\ \E t \in Task : OnDisk(t) /\ disturbed' = disturbed \cup {t}
<1>1. ASSUME NEW p \in Proc, NEW t \in Task, RetryTask(p, t) \/ BlockTask(p, t) PROVE Goal
    BY <1>1 DEF RetryTask, BlockTask, OperatorReads, Disturb
<1>2. ASSUME NEW k \in Tick, AuditThrows(k) PROVE Goal
    <2>1. held[k] # None /\ held[k].id \in Task /\ Holds(k)
        BY <1>2 DEF AuditThrows, HeldInv, Claimed, TypeOK, Held, LifeInv, HoldInv
    <2>2. QED
        BY <1>2, <2>1 DEF AuditThrows, Disturb, Holds
<1>3. ASSUME NEW p \in Proc,
             \/ Planner(p) \/ Turn(p) \/ Crash(p) \/ Restart(p) \/ ArchiveProject(p)
             \/ \E t \in Task : ApproveTask(p, t)
      PROVE  UNCHANGED disturbed
    BY <1>3 DEF Planner, PlanStart, PlanThrows, Turn, PlanSave, OperatorSave, Crash, Restart,
                ArchiveProject, ApproveTask, history
<1>4. ASSUME NEW k \in Tick, TickStarts(k) \/ TickStep(k) PROVE UNCHANGED disturbed
    BY <1>4 DEF TickStarts, TickStep, AcquireLock, ClaimScan, ClaimSave, ReleaseLock, StartWorker,
                WorkerReturns, SettleSave, AuditOk, history
<1>5. QED
    BY <1>1, <1>2, <1>3, <1>4 DEF Next, Operator, vars, history

\* A task that is done stays done or is disturbed, one that was saved stays on
\* disk, and what was disturbed remains so.
LEMMA DoneStays ==
  ASSUME TypeOK, HeldInv, PreparedInv, LifeInv, [Next]_vars, NEW u \in Task
  PROVE  /\ Is(u, "done") => Is(u, "done")'
         /\ OnDisk(u) => OnDisk(u)'
         /\ OnDisk(u)' => OnDisk(u) \/ \E p \in Proc : PlanSave(p, u)
<1> DEFINE Goal == /\ Is(u, "done") => Is(u, "done")'
                   /\ OnDisk(u) => OnDisk(u)'
                   /\ OnDisk(u)' => OnDisk(u) \/ \E p \in Proc : PlanSave(p, u)
<1>1. disturbed \subseteq disturbed'
    BY Disturbs
<1>2. CASE UNCHANGED store
    BY <1>1, <1>2 DEF Is, HasStatus, OnDisk
<1>3. ASSUME NEW t \in Task, NEW rec \in TaskRecord, store' = [store EXCEPT ![t] = rec],
             UNCHANGED disturbed,
             t \in disturbed \/ ~HasStatus(t, "done"), OnDisk(t) \/ \E p \in Proc : PlanSave(p, t)
      PROVE  Goal
    <2>1. Is(u, "done") => u # t \/ t \in disturbed
        BY <1>3 DEF Is
    <2>2. Is(u, "done") => Is(u, "done")'
        BY <1>3, <2>1, SaveKeeps
    <2>3. OnDisk(u)' <=> u = t \/ OnDisk(u)
        BY <1>3, SaveStatus
    <2>4. QED
        BY <1>3, <2>2, <2>3
<1>4. ASSUME NEW p \in Proc, NEW t \in Task, PlanSave(p, t) PROVE Goal
    BY <1>3, <1>4, PlanSaves DEF HasStatus, OnDisk
<1>5. ASSUME NEW p \in Proc, OperatorSave(p) PROVE Goal
    <2>1. pend[p].id \in disturbed \/ ~HasStatus(pend[p].id, "done")
        BY <1>5, OperatorSaves DEF HasStatus
    <2>2. QED
        BY <1>3, <1>5, <2>1, OperatorSaves
<1>6. ASSUME NEW k \in Tick, ClaimSave(k) PROVE Goal
    <2>1. pend[ProcOf[k]].id \in disturbed \/ ~HasStatus(pend[ProcOf[k]].id, "done")
        BY <1>6, ClaimSaves DEF Is, HasStatus
    <2>2. QED
        BY <1>3, <1>6, <2>1, ClaimSaves
<1>7. ASSUME NEW k \in Tick, SettleSave(k) PROVE Goal
    <2>1. pend[ProcOf[k]].id \in disturbed \/ ~HasStatus(pend[ProcOf[k]].id, "done")
        BY <1>7, SettleSaves DEF Is, HasStatus
    <2>2. QED
        BY <1>3, <1>7, <2>1, SettleSaves
<1>8. QED
    BY <1>2, <1>4, <1>5, <1>6, <1>7, FourSaves

\* A task that is ready stays ready.
LEMMA ReadyStays ==
  ASSUME TypeOK, HeldInv, PreparedInv, LifeInv, [Next]_vars, NEW t, Ready(t)
  PROVE  Ready(t)'
  BY DoneStays DEF Ready

\* What was disturbed is on disk and stays there.
LEMMA DisturbedOnDisk ==
  ASSUME TypeOK, HeldInv, PreparedInv, LifeInv, [Next]_vars
  PROVE  (\A t \in disturbed : OnDisk(t))' /\ disturbed \subseteq disturbed'
<1>1. \A t \in disturbed' : t \in Task /\ OnDisk(t)
    BY Disturbs DEF LifeInv, TypeOK
<1>2. QED
    BY <1>1, Disturbs, DoneStays

\* Drafts stay off the disk until their own plan saves them.
LEMMA PlanStep ==
  ASSUME TypeOK, HeldInv, PreparedInv, LifeInv, [Next]_vars
  PROVE  PlanInv'
<1> USE BoardAssumption
<1>1. ASSUME \A p \in Proc : planning'[p] \subseteq planning[p],
             \A p \in Proc : \A t \in Task : PlanSave(p, t) => t \notin planning'[p]
      PROVE  PlanInv'
    <2>1. ASSUME NEW p \in Proc, NEW t \in planning'[p] PROVE ~OnDisk(t)'
        <3>1. t \in Task /\ t \in planning[p] /\ ~OnDisk(t)
            BY <1>1, <2>1 DEF TypeOK, LifeInv, PlanInv
        <3>2. ASSUME NEW q \in Proc, PlanSave(q, t) PROVE FALSE
            <4>1. t \in planning[q]
                BY <3>2 DEF PlanSave
            <4>2. q = p
                BY <3>1, <4>1 DEF LifeInv, PlanInv
            <4>3. QED
                BY <1>1, <2>1, <3>1, <3>2, <4>2
        <3>3. QED
            BY <3>1, <3>2, DoneStays
    <2>2. QED
        BY <1>1, <2>1 DEF LifeInv, PlanInv
<1>2. ASSUME NEW p \in Proc, NEW S \in Plans, PlanStart(p, S) PROVE PlanInv'
    <2>1. \A q \in Proc : planning'[q] = IF q = p THEN S ELSE planning[q]
        BY <1>2 DEF PlanStart, TypeOK
    <2>2. UNCHANGED store
        BY <1>2 DEF PlanStart
    <2>3. (\A t \in S : ~OnDisk(t)) /\ \A q \in Proc : planning[q] \cap S = {}
        BY <1>2 DEF PlanStart
    <2>4. QED
        BY <2>1, <2>2, <2>3 DEF LifeInv, PlanInv, OnDisk
<1>3. ASSUME NEW p \in Proc, NEW t \in Task, PlanSave(p, t) PROVE PlanInv'
    <2>1. \A q \in Proc : planning'[q] \subseteq planning[q]
        BY <1>3 DEF PlanSave, TypeOK
    <2>2. \A q \in Proc : \A u \in Task : PlanSave(q, u) => u \notin planning'[q]
        BY DEF PlanSave, TypeOK
    <2>3. QED
        BY <1>1, <2>1, <2>2
<1>4. ASSUME NEW p \in Proc, Operator(p) \/ PlanThrows(p) \/ OperatorSave(p) \/ Crash(p) \/ Restart(p)
      PROVE  PlanInv'
    <2>1. \A q \in Proc : planning'[q] \subseteq planning[q]
        BY <1>4 DEF Operator, ApproveTask, RetryTask, BlockTask, OperatorReads, ArchiveProject,
                    PlanThrows, OperatorSave, Crash, Restart, TypeOK
    <2>2. \A q \in Proc : \A t \in Task : PlanSave(q, t) => t \notin planning'[q]
        BY DEF PlanSave, TypeOK
    <2>3. QED
        BY <1>1, <2>1, <2>2
<1>5. ASSUME UNCHANGED planning PROVE PlanInv'
    <2>1. \A q \in Proc : \A t \in Task : PlanSave(q, t) => t \notin planning'[q]
        BY DEF PlanSave, TypeOK
    <2>2. QED
        BY <1>1, <1>5, <2>1
<1>6. ASSUME NEW k \in Tick, TickStarts(k) \/ TickStep(k) \/ AuditThrows(k) PROVE UNCHANGED planning
    BY <1>6 DEF TickStarts, TickStep, AcquireLock, ClaimScan, ClaimSave, ReleaseLock, StartWorker,
                WorkerReturns, SettleSave, AuditOk, AuditThrows
<1>7. QED
    BY <1>2, <1>3, <1>4, <1>5, <1>6 DEF Next, Planner, Turn, vars

\* A prepared write stays fresh.  Between a tick's scan and its save the lock
\* keeps the other claims away, and nothing else takes a task off the queue.
LEMMA FreshStep ==
  ASSUME TypeOK, HeldInv, PreparedInv, LifeInv, OneGateway, [Next]_vars
  PROVE  FreshInv'
<1> USE BoardAssumption
<1> DEFINE ByTick(q) == pend[q].by # None /\ pc[pend[q].by] = "locked"
           Stays(q) == /\ pend'[q] = pend[q]
                       /\ pend[q].by # None /\ pc'[pend[q].by] = "locked" => pc[pend[q].by] = "locked"
\* A write that stays prepared is fresh when the task it replaces keeps its status.
<1>1. ASSUME NEW q \in Proc, pend[q] # None, Stays(q),
             pend[q].by = None /\ Is(pend[q].id, "backlog") => Is(pend[q].id, "backlog")',
             ByTick(q) /\ Is(pend[q].id, "queued") => Is(pend[q].id, "queued")'
      PROVE  Fresh(q)'
    <2>1. Fresh(q) /\ pend[q].id \in Task
        BY <1>1 DEF LifeInv, FreshInv, TypeOK, PendingWrite
    <2>2. Ready(pend[q].id) => Ready(pend[q].id)'
        <3>1. \A t : Ready(t) => Ready(t)'
            BY ReadyStays
        <3>2. pend'[q].id = pend[q].id
            BY <1>1
        <3>3. QED
            BY <3>1, <3>2 DEF Ready
    <2>3. CASE pend[q].by = None
        <3>0. (\A u \in Task : OnDisk(u) => OnDisk(u)') /\ disturbed \subseteq disturbed'
            BY DoneStays, DisturbedOnDisk
        <3>1. OnDisk(pend[q].id)' /\ disturbed \subseteq disturbed'
            BY <1>1, <2>1, <2>3, <3>0 DEF Fresh, OnDisk
        <3>2. pend[q].id \notin disturbed' => HasStatus(pend[q].id, "backlog")' /\ pend[q].rec.status = "queued"
            BY <1>1, <2>1, <2>3, <3>1 DEF Fresh, Is
        <3>3. QED
            BY <1>1, <2>1, <2>3, <3>1, <3>2 DEF Fresh, OnDisk, HasStatus
    <2>4. CASE pend[q].by # None
        <3>1. pend'[q] = pend[q] /\ (ByTick(q)' => ByTick(q))
            BY <1>1
        <3>2. ByTick(q)' => Is(pend[q].id, "queued")' /\ Ready(pend[q].id)'
            BY <1>1, <2>1, <2>2, <2>4, <3>1 DEF Fresh
        <3>3. QED
            BY <2>4, <3>1, <3>2 DEF Fresh, Is, HasStatus, Ready
    <2>5. QED
        BY <2>3, <2>4
\* The tick a write is prepared for belongs to the process that saves it.
<1>2. ASSUME NEW q \in Proc, pend[q] # None, pend[q].by # None
      PROVE  pend[q].by \in Tick /\ ProcOf[pend[q].by] = q /\ pc[pend[q].by] \in {"locked", "settle", "resettle"}
    BY <1>2 DEF PreparedInv, Prepared, TypeOK, PendingWrite
\* Nothing is written.
<1>3. ASSUME UNCHANGED store, NEW q \in Proc, pend[q] # None, Stays(q) PROVE Fresh(q)'
    BY <1>1, <1>3, DisturbedOnDisk DEF Is, HasStatus
\* A task is written.
<1>4. ASSUME NEW t \in Task, NEW rec \in TaskRecord, store' = [store EXCEPT ![t] = rec],
             UNCHANGED disturbed,
             \A q \in Proc : pend'[q] # None =>
               /\ Stays(q)
               /\ pend[q].by = None /\ Is(pend[q].id, "backlog") => pend[q].id # t \/ t \in disturbed
               /\ ByTick(q) /\ Is(pend[q].id, "queued") => pend[q].id # t \/ t \in disturbed
      PROVE  FreshInv'
    <2>1. ASSUME NEW q \in Proc, pend'[q] # None PROVE Fresh(q)'
        <3>1. pend'[q] = pend[q] /\ pend[q].id \in Task
            BY <1>4, <2>1 DEF TypeOK, PendingWrite
        <3>2. \A s : Is(pend[q].id, s) /\ (pend[q].id # t \/ t \in disturbed) => Is(pend[q].id, s)'
            <4>1. \A u \in Task : \A s : Is(u, s) /\ (u # t \/ t \in disturbed) => Is(u, s)'
                BY <1>4, SaveKeeps
            <4>2. QED
                BY <3>1, <4>1 DEF Is, HasStatus
        <3>3. QED
            BY <1>1, <1>4, <2>1, <3>1, <3>2
    <2>2. QED
        BY <2>1 DEF FreshInv
\* A handler of the operator reads the task it is about to replace.
<1>5. ASSUME NEW p \in Proc, NEW t \in Task, NEW rec, OperatorReads(p, t, rec), OnDisk(t),
             t \notin disturbed' => HasStatus(t, "backlog") /\ rec.status = "queued"
      PROVE  FreshInv'
    <2>1. /\ \A q \in Proc : pend'[q] = IF q = p THEN [by |-> None, id |-> t, rec |-> rec] ELSE pend[q]
          /\ UNCHANGED <<pc, store>> /\ p \in HttpProc
        BY <1>5 DEF OperatorReads, TypeOK
    <2>2. ASSUME NEW q \in Proc, pend'[q] # None PROVE Fresh(q)'
        <3>1. CASE q = p
            BY <1>5, <2>1, <3>1 DEF Fresh, HasStatus, OnDisk
        <3>2. CASE q # p
            BY <1>3, <2>1, <2>2, <3>2
        <3>3. QED
            BY <3>1, <3>2
    <2>3. QED
        BY <2>2 DEF FreshInv
<1>6. ASSUME NEW p \in Proc, NEW t \in Task, ApproveTask(p, t) PROVE FreshInv'
    <2>1. store[t] \in TaskRecord /\ store[t].status = "backlog" /\ OnDisk(t)
        BY <1>6 DEF ApproveTask, HasStatus, OnDisk, TypeOK
    <2>2. approveTaskForQueue(store[t]).status = "queued"
        BY <2>1 DEF approveTaskForQueue, resetClaim, TaskRecord
    <2>3. QED
        BY <1>5, <1>6, <2>1, <2>2 DEF ApproveTask
<1>7. ASSUME NEW p \in Proc, NEW t \in Task, RetryTask(p, t) \/ BlockTask(p, t) PROVE FreshInv'
    <2>1. OnDisk(t) /\ t \in disturbed'
        BY <1>7 DEF RetryTask, BlockTask, Disturb
    <2>2. QED
        BY <1>5, <1>7, <2>1 DEF RetryTask, BlockTask
<1>8. ASSUME NEW p \in Proc, NEW t \in Task, PlanSave(p, t) PROVE FreshInv'
    <2>1. UNCHANGED <<pend, pc>> /\ \A u \in Task : \A s : Is(u, s) => u # t
        <3>1. ~OnDisk(t) /\ t \notin disturbed
            BY <1>8, PlanSaves
        <3>2. QED
            BY <1>8, <3>1 DEF PlanSave, Is, HasStatus, OnDisk
    <2>2. \A q \in Proc : pend[q] # None => pend[q].id \in Task
        BY DEF TypeOK, PendingWrite
    <2>3. QED
        BY <1>4, <1>8, <2>1, <2>2, PlanSaves
<1>9. ASSUME NEW p \in Proc, OperatorSave(p) PROVE FreshInv'
    <2>1. /\ \A q \in Proc : pend'[q] = IF q = p THEN None ELSE pend[q]
          /\ UNCHANGED pc
        BY <1>9 DEF OperatorSave, TypeOK
    <2>2. p \in HttpProc /\ Is(pend[p].id, "backlog")
        BY <1>9, OperatorSaves DEF Is
    <2>3. \A q \in Proc : pend[q] # None /\ pend[q].by = None => q = p
        BY <2>2 DEF LifeInv, FreshInv, Fresh, OneGateway
    <2>4. \A q \in Proc : Is(pend[q].id, "queued") => pend[q].id # pend[p].id \/ pend[p].id \in disturbed
        BY <2>2 DEF Is, HasStatus
    <2>5. QED
        BY <1>4, <1>9, <2>1, <2>3, <2>4, OperatorSaves
<1>10. ASSUME NEW k \in Tick, ClaimSave(k) PROVE FreshInv'
    <2> DEFINE w == pend[ProcOf[k]]
    <2>1. /\ \A q \in Proc : pend'[q] = IF q = ProcOf[k] THEN None ELSE pend[q]
          /\ \A j \in Tick : pc'[j] = IF j = k THEN "unlock" ELSE pc[j]
          /\ pc[k] = "locked"
        BY <1>10 DEF ClaimSave, TypeOK
    <2>2. Is(w.id, "queued")
        BY <1>10, ClaimSaves
    <2>3. ASSUME NEW q \in Proc, pend'[q] # None PROVE Stays(q) /\ ~ByTick(q)
        <3>1. q # ProcOf[k] /\ pend'[q] = pend[q]
            BY <2>1, <2>3
        <3>2. ~ByTick(q)
            BY <1>2, <2>1, <2>3, <3>1 DEF LifeInv, LockInv
        <3>3. QED
            BY <1>2, <2>1, <2>3, <3>1, <3>2
    <2>4. \A q \in Proc : Is(pend[q].id, "backlog") => pend[q].id # w.id \/ w.id \in disturbed
        BY <2>2 DEF Is, HasStatus
    <2>5. QED
        BY <1>4, <1>10, <2>3, <2>4, ClaimSaves
<1>11. ASSUME NEW k \in Tick, SettleSave(k) PROVE FreshInv'
    <2> DEFINE w == pend[ProcOf[k]]
    <2>1. /\ \A q \in Proc : pend'[q] = IF q = ProcOf[k] THEN None ELSE pend[q]
          /\ \A j \in Tick : pc'[j] = "locked" => pc[j] = "locked"
        BY <1>11 DEF SettleSave, TypeOK
    <2>2. Is(w.id, "in-progress")
        BY <1>11, SettleSaves
    <2>3. \A q \in Proc : Is(pend[q].id, "backlog") \/ Is(pend[q].id, "queued")
                         => pend[q].id # w.id \/ w.id \in disturbed
        BY <2>2 DEF Is, HasStatus
    <2>4. QED
        BY <1>2, <1>4, <1>11, <2>1, <2>3, SettleSaves
<1>12. ASSUME NEW k \in Tick, ClaimScan(k) PROVE FreshInv'
    <2>1. UNCHANGED <<store, disturbed>> /\ pc[k] = "locked" /\ pend[ProcOf[k]] = None
        BY <1>12 DEF ClaimScan, Busy, history
    <2>2. CASE UNCHANGED pend /\ pc' = [pc EXCEPT ![k] = "unlock"]
        <3>1. \A j \in Tick : pc'[j] = "locked" => pc[j] = "locked"
            BY <2>2 DEF TypeOK
        <3>2. QED
            BY <1>2, <1>3, <2>1, <2>2, <3>1 DEF FreshInv
    <2>3. ASSUME NEW t \in findEligibleTask(at[k]), UNCHANGED pc,
                 pend' = [pend EXCEPT ![ProcOf[k]] =
                            [by |-> k, id |-> t, rec |-> markTaskClaimed(store[t], ProcOf[k])]]
          PROVE  FreshInv'
        <3>1. \A q \in Proc : pend'[q] = IF q = ProcOf[k]
                THEN [by |-> k, id |-> t, rec |-> markTaskClaimed(store[t], ProcOf[k])] ELSE pend[q]
            BY <2>3 DEF TypeOK
        <3>2. Is(t, "queued") /\ Ready(t)
            BY DEF findEligibleTask, isTaskEligibleForPickup, Ready, Is
        <3>3. Is(t, "queued")' /\ Ready(t)'
            BY <2>1, <3>2 DEF HasStatus, Ready, Is
        <3>4. ASSUME NEW q \in Proc, pend'[q] # None PROVE Fresh(q)'
            <4>1. CASE q = ProcOf[k]
                BY <3>1, <3>3, <4>1 DEF Fresh
            <4>2. CASE q # ProcOf[k]
                BY <1>3, <2>1, <2>3, <3>1, <3>4, <4>2
            <4>3. QED
                BY <4>1, <4>2
        <3>5. QED
            BY <3>4 DEF FreshInv
    <2>4. QED
        BY <1>12, <2>2, <2>3 DEF ClaimScan
\* A tick prepares the outcome of its task.
<1>13. ASSUME NEW k \in Tick, (\E o \in Outcome : WorkerReturns(k, o)) \/ AuditThrows(k) PROVE FreshInv'
    <2>1. /\ \A q \in Proc : q # ProcOf[k] => pend'[q] = pend[q]
          /\ \A j \in Tick : pc'[j] = "locked" => pc[j] = "locked"
          /\ pc'[k] # "locked" /\ UNCHANGED store /\ pend'[ProcOf[k]].by = k
        BY <1>13 DEF WorkerReturns, AuditThrows, TypeOK
    <2>2. ASSUME NEW q \in Proc, pend'[q] # None PROVE Fresh(q)'
        <3>1. CASE q = ProcOf[k]
            BY <2>1, <3>1 DEF Fresh
        <3>2. CASE q # ProcOf[k]
            BY <1>2, <1>3, <2>1, <2>2, <3>2
        <3>3. QED
            BY <3>1, <3>2
    <2>3. QED
        BY <2>2 DEF FreshInv
<1>14. ASSUME NEW k \in Tick, TickStarts(k) \/ AcquireLock(k) \/ ReleaseLock(k) \/ StartWorker(k) \/ AuditOk(k)
       PROVE  FreshInv'
    <2>1. UNCHANGED <<store, pend>> /\ OnlyTick(k)
        BY <1>14, TickStepsAlone DEF TickStarts, TickStep, AcquireLock, ReleaseLock, StartWorker, AuditOk
    <2>2. pc[k] \notin {"locked", "settle", "resettle"}
        BY <1>14 DEF TickStarts, AcquireLock, ReleaseLock, StartWorker, AuditOk
    <2>3. ASSUME NEW q \in Proc, pend[q] # None, pend[q].by # None
          PROVE  pc'[pend[q].by] = pc[pend[q].by]
        BY <1>2, <2>1, <2>2, <2>3 DEF OnlyTick
    <2>4. QED
        BY <1>3, <2>1, <2>3 DEF FreshInv
<1>15. ASSUME NEW p \in Proc, Crash(p) PROVE FreshInv'
    <2>1. /\ \A q \in Proc : pend'[q] = IF q = p THEN None ELSE pend[q]
          /\ \A j \in Tick : pc'[j] = "locked" => pc[j] = "locked"
          /\ UNCHANGED store
        BY <1>15 DEF Crash, TypeOK
    <2>2. QED
        BY <1>2, <1>3, <2>1 DEF FreshInv
<1>16. ASSUME NEW p \in Proc, Planner(p) \/ ArchiveProject(p) \/ Restart(p)
       PROVE  UNCHANGED <<store, pend, pc>>
    BY <1>16 DEF Planner, PlanStart, PlanThrows, ArchiveProject, Restart
<1>17. ASSUME UNCHANGED <<store, pend, pc>> PROVE FreshInv'
    BY <1>3, <1>17 DEF FreshInv
<1>18. QED
    BY <1>6, <1>7, <1>8, <1>9, <1>10, <1>11, <1>12, <1>13, <1>14, <1>15, <1>16, <1>17
       DEF Next, Operator, Turn, TickStep, vars

\* A tick that holds a task keeps it in progress and to itself until the task
\* is disturbed.
LEMMA HoldStep ==
  ASSUME TypeOK, HeldInv, PreparedInv, LifeInv, [Next]_vars
  PROVE  HoldInv' /\ Alone'
<1> USE BoardAssumption
<1> DEFINE Same(j) == pc'[j] = pc[j] /\ held'[j] = held[j] /\ got'[j] = got[j]
           Kept(j) == Working(j) => Is(held[j].id, "in-progress")'
<1>0. disturbed \subseteq disturbed' /\ \A u \in Task : OnDisk(u) => OnDisk(u)'
    BY DisturbedOnDisk, DoneStays
\* A tick that does not move holds its task when the task stays in progress.
<1>1. ASSUME NEW j \in Tick, Working(j), held'[j] = held[j] PROVE Ready(held[j].id)'
    <2>1. Ready(held[j].id)
        BY <1>1 DEF LifeInv, HoldInv, Holds
    <2>2. \A t : Ready(t) => Ready(t)'
        BY ReadyStays
    <2>3. QED
        BY <1>1, <2>1, <2>2 DEF Ready
<1>2. ASSUME NEW j \in Tick, Same(j), Kept(j) PROVE Holds(j)'
    <2>1. Holds(j) /\ (held[j] # None => held[j].id \in Task)
        BY DEF LifeInv, HoldInv, TypeOK, Held
    <2>2. Working(j)' <=> Working(j)
        BY <1>2 DEF Working
    <2>3. held'[j] # None => OnDisk(held[j].id)'
        BY <1>0, <1>2, <2>1 DEF Holds, OnDisk
    <2>4. pc'[j] = "resettle" => held'[j].id \in disturbed'
        BY <1>0, <1>2, <2>1 DEF Holds
    <2>5. pc'[j] = "running" => DependsOn[held'[j].id] \ got'[j] \subseteq disturbed'
        BY <1>0, <1>2, <2>1 DEF Holds
    <2>6. Working(j)' => Is(held[j].id, "in-progress")' /\ Ready(held[j].id)'
        BY <1>1, <1>2, <2>2
    <2>7. pc'[j] \in {"off", "claim", "locked"} => held'[j] = None
        BY <1>2, <2>1 DEF Holds
    <2>8. QED
        BY <2>3, <2>4, <2>5, <2>6, <2>7 DEF Holds
<1>3. ASSUME \A j \in Tick : Working(j)' => Working(j) /\ held'[j] = held[j] PROVE Alone'
    BY <1>0, <1>3 DEF LifeInv, Alone
<1>4. ASSUME UNCHANGED <<pc, held, got>>, \A j \in Tick : Kept(j)
      PROVE  HoldInv' /\ Alone'
    <2>1. \A j \in Tick : Same(j) /\ (Working(j)' <=> Working(j))
        BY <1>4 DEF Working
    <2>2. HoldInv'
        BY <1>2, <1>4, <2>1 DEF HoldInv
    <2>3. QED
        BY <1>3, <1>4, <2>1, <2>2
<1>5. ASSUME UNCHANGED store, NEW j \in Tick, held'[j] = held[j] PROVE Kept(j)
    <2>1. Working(j) => Is(held[j].id, "in-progress")
        BY DEF LifeInv, HoldInv, Holds
    <2>2. QED
        BY <1>0, <1>5, <2>1 DEF Is, HasStatus
\* A tick moves and writes no file.
<1>6. ASSUME UNCHANGED store, NEW k \in Tick, Holds(k)', Working(k)' => Working(k) /\ held'[k] = held[k],
             \A j \in Tick : j # k => Same(j)
      PROVE  HoldInv' /\ Alone'
    <2>1. ASSUME NEW j \in Tick, j # k PROVE Holds(j)'
        BY <1>2, <1>5, <1>6, <2>1
    <2>2. Alone'
        BY <1>3, <1>6 DEF Working
    <2>3. QED
        BY <1>6, <2>1, <2>2 DEF HoldInv
\* A task is written: the ticks that hold another one, or a disturbed one, are kept.
<1>7. ASSUME NEW t \in Task, NEW rec \in TaskRecord, store' = [store EXCEPT ![t] = rec],
             UNCHANGED disturbed,
             NEW j \in Tick, held'[j] = held[j], Working(j) => held[j].id # t \/ t \in disturbed
      PROVE  Kept(j)
    <2>1. Working(j) => held[j].id \in Task /\ Is(held[j].id, "in-progress")
        BY <1>7 DEF LifeInv, HoldInv, Holds, Working, TypeOK, Held
    <2>2. \A u \in Task : \A s : Is(u, s) /\ (u # t \/ t \in disturbed) => Is(u, s)'
        BY <1>7, SaveKeeps
    <2>3. QED
        BY <1>7, <2>1, <2>2 DEF Is, HasStatus
<1>8. ASSUME NEW p \in Proc, NEW t \in Task, PlanSave(p, t)
      PROVE  HoldInv' /\ Alone'
    <2>1. ~OnDisk(t)
        BY <1>8, PlanSaves
    <2>2. ASSUME NEW j \in Tick, Working(j) PROVE held[j].id # t
        BY <2>1, <2>2 DEF LifeInv, HoldInv, Holds, Working
    <2>3. UNCHANGED <<pc, held, got>>
        BY <1>8 DEF PlanSave
    <2>4. \A j \in Tick : Kept(j)
        BY <1>7, <1>8, <2>2, <2>3, PlanSaves
    <2>5. QED
        BY <1>4, <2>3, <2>4
<1>9. ASSUME NEW p \in Proc, OperatorSave(p) PROVE HoldInv' /\ Alone'
    <2>1. Is(pend[p].id, "backlog")
        BY <1>9, OperatorSaves DEF Is
    <2>2. ASSUME NEW j \in Tick, Working(j) PROVE held[j].id # pend[p].id \/ pend[p].id \in disturbed
        BY <2>1, <2>2 DEF LifeInv, HoldInv, Holds, Is, HasStatus
    <2>3. UNCHANGED <<pc, held, got>>
        BY <1>9 DEF OperatorSave
    <2>4. \A j \in Tick : Kept(j)
        BY <1>7, <1>9, <2>2, <2>3, OperatorSaves
    <2>5. QED
        BY <1>4, <2>3, <2>4
<1>10. ASSUME NEW k \in Tick, ClaimSave(k) PROVE HoldInv' /\ Alone'
    <2> DEFINE w == pend[ProcOf[k]]
    <2>1. /\ w.id \in Task /\ w.rec \in TaskRecord
          /\ store' = [store EXCEPT ![w.id] = w.rec] /\ UNCHANGED disturbed
          /\ OnDisk(w.id) /\ w.rec.status = "in-progress" /\ Is(w.id, "queued") /\ Ready(w.id)
        BY <1>10, ClaimSaves
    <2>2. /\ pc'[k] = "unlock" /\ held'[k] = [id |-> w.id, rec |-> w.rec]
          /\ \A j \in Tick : j # k => Same(j)
        BY <1>10 DEF ClaimSave, TypeOK
    <2>3. ASSUME NEW j \in Tick, Working(j) PROVE held[j].id # w.id \/ w.id \in disturbed
        BY <2>1, <2>3 DEF LifeInv, HoldInv, Holds, Is, HasStatus
    <2>4. ASSUME NEW j \in Tick, j # k PROVE Holds(j)' /\ (Working(j)' <=> Working(j))
        <3>1. held'[j] = held[j] /\ Same(j)
            BY <2>2, <2>4
        <3>2. Kept(j)
            BY <1>7, <2>1, <2>3, <3>1
        <3>3. QED
            BY <1>2, <3>1, <3>2 DEF Working
    <2>5. Holds(k)'
        <3>1. \A t : Ready(t) => Ready(t)'
            BY ReadyStays
        <3>2. store'[w.id] = w.rec /\ w.rec # None
            BY <2>1, NoneIsNoRecord DEF TypeOK
        <3>3. held'[k].id = w.id /\ Ready(held'[k].id)
            BY <2>1, <2>2 DEF Ready
        <3>4. OnDisk(held[k].id)' /\ Is(held[k].id, "in-progress")'
            BY <2>1, <3>2, <3>3 DEF OnDisk, HasStatus, Is
        <3>5. Ready(held[k].id)'
            BY <3>1, <3>3 DEF Ready
        <3>6. QED
            BY <2>2, <3>4, <3>5 DEF Holds
    <2>6. Alone'
        <3>1. held'[k].id = w.id /\ \A j \in Tick : j # k => held'[j] = held[j]
            BY <2>2
        <3>2. ASSUME NEW i \in Tick, NEW j \in Tick, Working(i)', Working(j)', held'[i].id = held'[j].id,
                     held'[i].id \notin disturbed', i # k, j # k
              PROVE  i = j
            BY <2>1, <2>4, <3>1, <3>2 DEF LifeInv, Alone
        <3>3. ASSUME NEW j \in Tick, Working(j)', j # k, held'[j].id = w.id PROVE w.id \in disturbed'
            BY <2>1, <2>3, <2>4, <3>1, <3>3
        <3>4. QED
            BY <3>1, <3>2, <3>3 DEF Alone
    <2>7. QED
        BY <2>4, <2>5, <2>6 DEF HoldInv
<1>11. ASSUME NEW k \in Tick, SettleSave(k) PROVE HoldInv' /\ Alone'
    <2> DEFINE w == pend[ProcOf[k]]
    <2>1. /\ w.id \in Task /\ w.rec \in TaskRecord
          /\ store' = [store EXCEPT ![w.id] = w.rec] /\ UNCHANGED disturbed
          /\ w.id = held[k].id /\ held[k] # None /\ OnDisk(w.id)
          /\ w.id \notin disturbed => Working(k)
        BY <1>11, SettleSaves
    <2>2. /\ pc'[k] \in {"audit", "reaudit"} /\ UNCHANGED <<held, got>>
          /\ \A j \in Tick : j # k => Same(j)
        BY <1>11 DEF SettleSave, TypeOK
    <2>3. ASSUME NEW j \in Tick, j # k PROVE Holds(j)' /\ (Working(j)' <=> Working(j))
        <3>1. Working(j) => held[j].id # w.id \/ w.id \in disturbed
            BY <2>1, <2>3 DEF LifeInv, Alone
        <3>2. Kept(j)
            BY <1>7, <2>1, <2>2, <3>1
        <3>3. QED
            BY <1>2, <2>2, <2>3, <3>2 DEF Working
    <2>4. Holds(k)' /\ ~Working(k)'
        <3>1. OnDisk(held[k].id)'
            BY <1>0, <2>1, <2>2 DEF OnDisk
        <3>2. QED
            BY <2>2, <3>1 DEF Holds, Working
    <2>5. Alone'
        BY <1>3, <2>2, <2>3, <2>4
    <2>6. QED
        BY <2>3, <2>4, <2>5 DEF HoldInv
<1>12. ASSUME NEW k \in Tick, TickStarts(k) \/ AcquireLock(k) \/ ClaimScan(k) \/ ReleaseLock(k)
                              \/ StartWorker(k) \/ AuditOk(k) \/ AuditThrows(k)
                              \/ \E o \in Outcome : WorkerReturns(k, o)
       PROVE  UNCHANGED store /\ \A j \in Tick : j # k => Same(j)
    <2>1. UNCHANGED store /\ \A j \in Tick : j # k => got'[j] = got[j]
        BY <1>12 DEF TickStarts, AcquireLock, ClaimScan, ReleaseLock, StartWorker, AuditOk,
                     AuditThrows, WorkerReturns, TypeOK
    <2>2. OnlyTick(k)
        BY <1>12, TickStepsAlone DEF TickStep
    <2>3. QED
        BY <2>1, <2>2 DEF OnlyTick
\* Steps before the claim, and the release when nothing was claimed.
<1>13. ASSUME NEW k \in Tick,
              \/ TickStarts(k) \/ AcquireLock(k) \/ ClaimScan(k)
              \/ ReleaseLock(k) /\ held[k] = None
              \/ AuditOk(k)
       PROVE  HoldInv' /\ Alone'
    <2>1. Holds(k)
        BY DEF LifeInv, HoldInv
    <2>2. held'[k] = None /\ pc'[k] \in {"off", "claim", "locked", "unlock"}
        <3>1. CASE TickStarts(k) \/ AcquireLock(k) \/ ClaimScan(k)
            BY <2>1, <3>1 DEF TickStarts, AcquireLock, ClaimScan, TypeOK, Holds
        <3>2. CASE ReleaseLock(k) /\ held[k] = None
            BY <3>2 DEF ReleaseLock, NextRole, TypeOK
        <3>3. CASE AuditOk(k)
            BY <3>3 DEF AuditOk, NextRole, TypeOK
        <3>4. QED
            BY <1>13, <3>1, <3>2, <3>3
    <2>3. Holds(k)' /\ ~Working(k)'
        BY <2>2 DEF Holds, Working
    <2>4. QED
        BY <1>6, <1>12, <1>13, <2>3
\* Steps of a tick that works on a task.
<1>14. ASSUME NEW k \in Tick,
              \/ ReleaseLock(k) /\ held[k] # None
              \/ StartWorker(k) \/ \E o \in Outcome : WorkerReturns(k, o)
       PROVE  HoldInv' /\ Alone'
    <2>1. Holds(k) /\ held[k] # None /\ Working(k) /\ held[k].id \in Task
        BY <1>14 DEF LifeInv, HoldInv, HeldInv, Claimed, Working, ReleaseLock, StartWorker,
                     WorkerReturns, TypeOK, Held
    <2>2. held'[k] = held[k] /\ pc'[k] \in {"claimed", "running", "settle"} /\ UNCHANGED store
        BY <1>14, <2>1 DEF ReleaseLock, StartWorker, WorkerReturns, TypeOK
    <2>3. Is(held[k].id, "in-progress")' /\ Ready(held[k].id)' /\ OnDisk(held[k].id)'
        BY <1>0, <1>1, <1>5, <2>1, <2>2 DEF Holds, OnDisk
    <2>4. pc'[k] = "running" => DependsOn[held[k].id] \ got'[k] \subseteq disturbed
        <3>1. ASSUME StartWorker(k) PROVE DependsOn[held[k].id] \ got'[k] \subseteq disturbed
            <4>1. got'[k] = {d \in DependsOn[held[k].id] \cap Task : HasStatus(d, "done")}
                BY <3>1 DEF StartWorker, TypeOK
            <4>2. Ready(held[k].id)
                BY <2>1 DEF Holds
            <4>3. QED
                BY <4>1, <4>2 DEF Ready, Is
        <3>2. QED
            BY <1>14, <2>1, <3>1 DEF ReleaseLock, WorkerReturns, TypeOK
    <2>5. Holds(k)'
        BY <1>0, <2>2, <2>3, <2>4 DEF Holds
    <2>6. QED
        BY <1>6, <1>12, <1>14, <2>1, <2>2, <2>5
\* An audit append that throws disturbs the task that was just settled.
<1>15. ASSUME NEW k \in Tick, AuditThrows(k) PROVE HoldInv' /\ Alone'
    <2>1. Holds(k) /\ held[k] # None /\ held[k].id \in Task
        BY <1>15 DEF LifeInv, HoldInv, HeldInv, Claimed, AuditThrows, TypeOK, Held
    <2>2. held'[k] = held[k] /\ pc'[k] = "resettle" /\ UNCHANGED store /\ held[k].id \in disturbed'
        BY <1>15 DEF AuditThrows, Disturb, TypeOK
    <2>3. OnDisk(held[k].id)'
        BY <2>1, <2>2 DEF Holds, OnDisk
    <2>4. Holds(k)' /\ ~Working(k)'
        BY <2>2, <2>3 DEF Holds, Working
    <2>5. QED
        BY <1>6, <1>12, <1>15, <2>4
<1>16. ASSUME NEW p \in Proc, Crash(p) PROVE HoldInv' /\ Alone'
    <2>1. ASSUME NEW j \in Tick PROVE Same(j) \/ (pc'[j] = "off" /\ held'[j] = None)
        BY <1>16 DEF Crash
    <2>2. UNCHANGED store
        BY <1>16 DEF Crash
    <2>3. ASSUME NEW j \in Tick PROVE Holds(j)' /\ (Working(j)' => Working(j) /\ held'[j] = held[j])
        <3>1. CASE Same(j)
            BY <1>2, <1>5, <2>2, <3>1 DEF Working
        <3>2. CASE pc'[j] = "off" /\ held'[j] = None
            BY <3>2 DEF Holds, Working
        <3>3. QED
            BY <2>1, <3>1, <3>2
    <2>4. QED
        BY <1>3, <2>3 DEF HoldInv
<1>17. ASSUME NEW p \in Proc, Planner(p) \/ Operator(p) \/ Restart(p)
       PROVE  UNCHANGED <<store, pc, held, got>>
    BY <1>17 DEF Planner, PlanStart, PlanThrows, Operator, ApproveTask, RetryTask, BlockTask,
                 OperatorReads, ArchiveProject, Restart
<1>18. ASSUME UNCHANGED <<store, pc, held, got>> PROVE HoldInv' /\ Alone'
    BY <1>4, <1>5, <1>18
<1>19. QED
    BY <1>8, <1>9, <1>10, <1>11, <1>13, <1>14, <1>15, <1>16, <1>17, <1>18
       DEF Next, Turn, TickStep, vars

\* Until a lock is stolen, the board's invariant holds.
LEMMA AlwaysLife == ASSUME OneGateway PROVE Spec => [](faults.stall = 0 => LifeInv)
<1> DEFINE Inv == faults.stall = 0 => LifeInv
<1>1. Init => Inv
    BY DEF Init, LifeInv, LockInv, PlanInv, FreshInv, HoldInv, Holds, Alone, Working
<1>2. TypeOK /\ HeldInv /\ PreparedInv /\ Inv /\ [Next]_vars => Inv'
    <2> SUFFICES ASSUME TypeOK, HeldInv, PreparedInv, Inv, [Next]_vars, faults'.stall = 0 PROVE LifeInv'
        OBVIOUS
    <2>1. LifeInv
        BY StallStep
    <2>2. LockInv'
        BY <2>1, LockStep DEF LifeInv
    <2>3. PlanInv' /\ FreshInv'
        BY <2>1, PlanStep, FreshStep
    <2>4. HoldInv' /\ Alone' /\ (\A t \in disturbed : OnDisk(t))'
        BY <2>1, HoldStep, DisturbedOnDisk
    <2>5. QED
        BY <2>2, <2>3, <2>4 DEF LifeInv
<1>3. Inv => (faults.stall = 0 => LifeInv)
    OBVIOUS
<1> HIDE DEF Inv
<1>4. QED
    BY <1>1, <1>2, <1>3, TypeCorrect, AlwaysPrepared, PTL DEF Spec

\* "... and the outputs of its dependencies": with one gateway serving the
\* operator, and until a lock is stolen, a dependency whose output is missing
\* when a worker runs was itself retried, blocked or hit by a failing audit
\* append: crashes, plans, other claims and whatever happens to other tasks
\* between the release of the lock and the read never take an output away.
THEOREM MissingOutputsWereDisturbed == ASSUME OneGateway PROVE Spec => []MissingOutputWasDisturbed
<1>1. (faults.stall = 0 => LifeInv) => MissingOutputWasDisturbed
    BY DEF LifeInv, HoldInv, Holds, MissingOutputWasDisturbed
<1>2. QED
    BY <1>1, AlwaysLife, PTL
-----------------------------------------------------------------------------
(* The board implements the lifecycle of its tasks *)

\* A step that disturbs nothing and leaves a task's file or a disturbed task
\* alone leaves its mapped status alone.
LEMMA StatusStays ==
  ASSUME NEW t \in Task, UNCHANGED disturbed, store'[t] = store[t] \/ t \in disturbed
  PROVE  StatusOf'[t] = StatusOf[t]
  BY DEF StatusOf, OnDisk

\* A save changes the mapped status of the task that is written, if at all.
LEMMA SaveMaps ==
  ASSUME TypeOK, NEW t \in Task, NEW rec \in TaskRecord, store' = [store EXCEPT ![t] = rec],
         UNCHANGED disturbed
  PROVE  IF t \in disturbed THEN StatusOf' = StatusOf
         ELSE StatusOf' = [StatusOf EXCEPT ![t] = rec.status]
<1>1. rec # None
    BY NoneIsNoRecord
<1>2. \A u \in Task : store'[u] = IF u = t THEN rec ELSE store[u]
    BY DEF TypeOK
<1>3. \A u \in Task : u # t \/ t \in disturbed => StatusOf'[u] = StatusOf[u]
    BY <1>2, StatusStays
<1>4. t \notin disturbed => StatusOf'[t] = rec.status
    BY <1>1, <1>2 DEF StatusOf, OnDisk
<1>5. /\ StatusOf = [u \in Task |-> StatusOf[u]]
      /\ StatusOf' = [u \in Task |-> StatusOf'[u]]
    BY DEF StatusOf
<1> HIDE DEF StatusOf
<1>6. QED
    BY <1>3, <1>4, <1>5

\* The mapped status is the status on disk, unless the task was disturbed.
LEMMA MappedStatus ==
  ASSUME NEW t \in Task, NEW s, Is(t, s)
  PROVE  StatusOf[t] = IF t \in disturbed THEN "disturbed" ELSE s
  BY DEF Is, HasStatus, StatusOf, OnDisk

\* A step that disturbs a task is a step of the lifecycle or leaves every
\* mapped status alone.
LEMMA DisturbMaps ==
  ASSUME TypeOK, NEW t \in Task, OnDisk(t), UNCHANGED store, disturbed' = disturbed \cup {t}
  PROVE  Lifecycle!Disturb(t) \/ UNCHANGED StatusOf
<1>1. /\ StatusOf = [u \in Task |-> StatusOf[u]]
      /\ StatusOf' = [u \in Task |-> StatusOf'[u]]
    BY DEF StatusOf
<1>2. \A u \in Task : StatusOf'[u] = IF u = t THEN "disturbed" ELSE StatusOf[u]
    BY DEF StatusOf, OnDisk
<1>3. StatusOf[t] # "absent"
    BY DEF StatusOf, TypeOK, TaskRecord, Status, OnDisk
<1> HIDE DEF StatusOf
<1>4. StatusOf' = [StatusOf EXCEPT ![t] = "disturbed"]
    BY <1>1, <1>2
<1>5. QED
    BY <1>3, <1>4 DEF Lifecycle!Disturb, Lifecycle!Becomes

\* Every step of the board is a step of the lifecycle or leaves every status alone.
LEMMA LifecycleStep ==
  ASSUME TypeOK, HeldInv, PreparedInv, LifeInv, [Next]_vars
  PROVE  Lifecycle!Next \/ UNCHANGED StatusOf
<1> DEFINE Goal == Lifecycle!Next \/ UNCHANGED StatusOf
<1>1. CASE UNCHANGED <<store, disturbed>>
    BY <1>1 DEF StatusOf, OnDisk
<1>2. ASSUME NEW t \in Task, OnDisk(t), UNCHANGED store, disturbed' = disturbed \cup {t} PROVE Goal
    BY <1>2, DisturbMaps DEF Lifecycle!Next
<1>3. ASSUME NEW p \in Proc, NEW t \in Task, PlanSave(p, t) PROVE Lifecycle!Create(t)
    <2>1. StatusOf' = [StatusOf EXCEPT ![t] = createTaskRecord(t).status]
        BY <1>3, PlanSaves, SaveMaps
    <2>2. StatusOf[t] = "absent"
        BY <1>3, PlanSaves DEF StatusOf
    <2>3. QED
        BY <2>1, <2>2 DEF Lifecycle!Create, Lifecycle!Becomes, createTaskRecord
<1>4. ASSUME NEW p \in Proc, OperatorSave(p) PROVE Goal
    <2> DEFINE w == pend[p]
    <2>1. /\ w.id \in Task /\ w.rec \in TaskRecord
          /\ store' = [store EXCEPT ![w.id] = w.rec] /\ UNCHANGED disturbed
          /\ w.id \notin disturbed => HasStatus(w.id, "backlog") /\ w.rec.status = "queued"
        BY <1>4, OperatorSaves
    <2>2. CASE w.id \in disturbed
        BY <2>1, <2>2, SaveMaps
    <2>3. CASE w.id \notin disturbed
        <3>1. StatusOf' = [StatusOf EXCEPT ![w.id] = "queued"]
            BY <2>1, <2>3, SaveMaps
        <3>2. StatusOf[w.id] = "backlog"
            BY <2>1, <2>3, MappedStatus DEF Is
        <3>3. Lifecycle!Approve(w.id)
            BY <3>1, <3>2 DEF Lifecycle!Approve, Lifecycle!Becomes
        <3>4. QED
            BY <2>1, <3>3 DEF Lifecycle!Next
    <2>4. QED
        BY <2>2, <2>3
<1>5. ASSUME NEW k \in Tick, ClaimSave(k) PROVE Goal
    <2> DEFINE w == pend[ProcOf[k]]
    <2>1. /\ w.id \in Task /\ w.rec \in TaskRecord
          /\ store' = [store EXCEPT ![w.id] = w.rec] /\ UNCHANGED disturbed
          /\ w.rec.status = "in-progress" /\ Is(w.id, "queued") /\ Ready(w.id)
        BY <1>5, ClaimSaves
    <2>2. CASE w.id \in disturbed
        BY <2>1, <2>2, SaveMaps
    <2>3. CASE w.id \notin disturbed
        <3>1. StatusOf' = [StatusOf EXCEPT ![w.id] = "in-progress"]
            BY <2>1, <2>3, SaveMaps
        <3>2. StatusOf[w.id] = "queued"
            BY <2>1, <2>3, MappedStatus
        <3>3. \A d \in DependsOn[w.id] : d \in Task /\ StatusOf[d] \in {"done", "disturbed"}
            BY <2>1, MappedStatus DEF Ready
        <3>4. Lifecycle!Claim(w.id)
            BY <3>1, <3>2, <3>3 DEF Lifecycle!Claim, Lifecycle!Becomes
        <3>5. QED
            BY <2>1, <3>4 DEF Lifecycle!Next
    <2>4. QED
        BY <2>2, <2>3
<1>6. ASSUME NEW k \in Tick, SettleSave(k) PROVE Goal
    <2> DEFINE w == pend[ProcOf[k]]
    <2>1. /\ w.id \in Task /\ w.rec \in TaskRecord
          /\ store' = [store EXCEPT ![w.id] = w.rec] /\ UNCHANGED disturbed
          /\ w.rec.status \in Outcome /\ Is(w.id, "in-progress")
        BY <1>6, SettleSaves
    <2>2. CASE w.id \in disturbed
        BY <2>1, <2>2, SaveMaps
    <2>3. CASE w.id \notin disturbed
        <3>1. StatusOf' = [StatusOf EXCEPT ![w.id] = w.rec.status]
            BY <2>1, <2>3, SaveMaps
        <3>2. StatusOf[w.id] = "in-progress"
            BY <2>1, <2>3, MappedStatus
        <3>3. w.rec.status \in Lifecycle!Outcome
            BY <2>1 DEF Lifecycle!Outcome, Outcome
        <3>4. Lifecycle!Settle(w.id, w.rec.status)
            BY <3>1, <3>2, <3>3 DEF Lifecycle!Settle, Lifecycle!Becomes
        <3>5. QED
            BY <2>1, <3>3, <3>4 DEF Lifecycle!Next
    <2>4. QED
        BY <2>2, <2>3
<1>7. ASSUME NEW p \in Proc, NEW t \in Task, PlanSave(p, t) PROVE Goal
    BY <1>3, <1>7 DEF Lifecycle!Next
<1>8. QED
    BY <1>1, <1>2, <1>4, <1>5, <1>6, <1>7, FourSaves, Disturbs

\* The board implements the status graph of task-state.ts one file at a time:
\* with one gateway serving the operator and no stolen lock, each task that was
\* not retried, blocked or hit by a failing audit append is created once,
\* approved from the backlog, claimed from the queue when everything it depends
\* on is done (or was itself disturbed), and settled from in-progress, however
\* ticks of several processes interleave and crash between their reads and
\* their writes, and whatever happens to the disturbed tasks around it.
THEOREM BoardImplementsLifecycle ==
  ASSUME OneGateway PROVE Spec /\ [](faults.stall = 0) => ImplementsLifecycle
<1>1. Init => Lifecycle!Init
    BY DEF Init, Lifecycle!Init, StatusOf, OnDisk
<1>2. TypeOK /\ HeldInv /\ PreparedInv /\ LifeInv /\ [Next]_vars => [Lifecycle!Next]_StatusOf
    BY LifecycleStep
<1>3. QED
    BY <1>1, <1>2, AlwaysLife, AlwaysPrepared, TypeCorrect, PTL
       DEF Spec, ImplementsLifecycle, Lifecycle!Spec
=============================================================================
