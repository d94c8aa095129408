--------------------------- MODULE TaskBoardProofs ---------------------------
(***************************************************************************)
(* Theorems about the task board for any number of processes, ticks and    *)
(* tasks, and any bounds.                                                  *)
(***************************************************************************)
EXTENDS TaskBoard, TLAPS

-----------------------------------------------------------------------------
(* Type correctness *)

\* The records the lifecycle helpers return are task records.
LEMMA HelperTypes ==
  ASSUME NEW rec \in TaskRecord
  PROVE  /\ \A p \in Proc : markTaskClaimed(rec, p) \in TaskRecord
         /\ \A o \in Outcome : markTaskSettled(rec, o) \in TaskRecord
         /\ markTaskBlocked(rec) \in TaskRecord
         /\ approveTaskForQueue(rec) \in TaskRecord
         /\ resetTaskForRetry(rec) \in TaskRecord
<1> USE DEF TaskRecord, Status
<1>1. ASSUME NEW p \in Proc PROVE markTaskClaimed(rec, p) \in TaskRecord
    BY DEF markTaskClaimed
<1>2. ASSUME NEW o \in Outcome PROVE markTaskSettled(rec, o) \in TaskRecord
    BY DEF markTaskSettled, Outcome
<1>3. markTaskBlocked(rec) \in TaskRecord
    BY DEF markTaskBlocked
<1>4. resetClaim(rec) \in TaskRecord
    BY DEF resetClaim
<1>5. approveTaskForQueue(rec) \in TaskRecord /\ resetTaskForRetry(rec) \in TaskRecord
    BY <1>4 DEF approveTaskForQueue, resetTaskForRetry
<1>6. QED
    BY <1>1, <1>2, <1>3, <1>5

\* A new task's record is a task record.
LEMMA CreateType ==
  ASSUME NEW t \in Task
  PROVE  createTaskRecord(t) \in TaskRecord
  BY DEF createTaskRecord, TaskRecord, Status

\* Saving a task keeps the store and the count of queue entries well typed.
LEMMA SaveType ==
  ASSUME TypeOK, NEW t \in Task, NEW rec \in TaskRecord, saveTask(t, rec)
  PROVE  store' \in [Task -> TaskRecord \cup {None}] /\ enqueued' \in [Task -> Nat]
  BY DEF TypeOK, saveTask

\* A tick moves to a role that exists or ends.
LEMMA NextRoleType ==
  ASSUME TypeOK, NEW k \in Tick, NextRole(k)
  PROVE  pc' \in [Tick -> Where] /\ at' \in [Tick -> 1..NRoles]
  BY BoardAssumption DEF TypeOK, NextRole, Where

\* A tick past its claim remembers what it claimed.
Claimed(k) == pc[k] \in {"claimed", "running", "settle", "audit", "resettle", "reaudit"}
HeldInv == \A k \in Tick : Claimed(k) => held[k] # None

\* The initial board is well typed and nothing is claimed.
LEMMA TypeInit == Init => TypeOK /\ HeldInv
  BY BoardAssumption DEF Init, TypeOK, Where, HeldInv, Claimed

\* Every step of the code keeps the types.
LEMMA TypeStep == TypeOK /\ HeldInv /\ [Next]_vars => TypeOK'
<1> SUFFICES ASSUME TypeOK, HeldInv, [Next]_vars PROVE TypeOK'
    OBVIOUS
<1> USE BoardAssumption
<1>1. ASSUME NEW p \in Proc, NEW S \in Plans, PlanStart(p, S) PROVE TypeOK'
    BY <1>1 DEF PlanStart, TypeOK, history
<1>2. ASSUME NEW p \in Proc, NEW t \in Task, PlanSave(p, t) PROVE TypeOK'
    BY <1>2, CreateType, SaveType DEF PlanSave, TypeOK
<1>3. ASSUME NEW p \in Proc, NEW t \in Task, NEW rec \in TaskRecord, OperatorReads(p, t, rec)
      PROVE  /\ pend' \in [Proc -> PendingWrite \cup {None}]
             /\ UNCHANGED <<store, active, up, lock, pc, at, held, got, planning, enqueued, claims>>
    BY <1>3 DEF OperatorReads, TypeOK, PendingWrite
<1>4. ASSUME NEW p \in Proc, NEW t \in Task, ApproveTask(p, t) PROVE TypeOK'
    <2>1. store[t] \in TaskRecord
        BY <1>4 DEF ApproveTask, HasStatus, TypeOK
    <2>2. approveTaskForQueue(store[t]) \in TaskRecord
        BY <2>1, HelperTypes
    <2>3. OperatorReads(p, t, approveTaskForQueue(store[t]))
        BY <1>4 DEF ApproveTask
    <2>4. decisions' \in [Task -> Nat]
        BY <1>4 DEF ApproveTask, Decide, TypeOK
    <2>5. QED
        BY <1>4, <1>3, <2>2, <2>3, <2>4 DEF ApproveTask, TypeOK
<1>5. ASSUME NEW p \in Proc, NEW t \in Task, RetryTask(p, t) PROVE TypeOK'
    <2>1. store[t] \in TaskRecord
        BY <1>5 DEF RetryTask, OnDisk, TypeOK
    <2>2. resetTaskForRetry(store[t]) \in TaskRecord
        BY <2>1, HelperTypes
    <2>3. OperatorReads(p, t, resetTaskForRetry(store[t]))
        BY <1>5 DEF RetryTask
    <2>4. faults' \in [crash : Nat, retry : Nat, block : Nat, audit : Nat, stall : Nat]
        BY <1>5 DEF RetryTask, TypeOK
    <2>5. decisions' \in [Task -> Nat] /\ disturbed' \subseteq Task
        BY <1>5 DEF RetryTask, Decide, Disturb, TypeOK
    <2>6. QED
        BY <1>5, <1>3, <2>2, <2>3, <2>4, <2>5 DEF RetryTask, TypeOK
<1>6. ASSUME NEW p \in Proc, NEW t \in Task, BlockTask(p, t) PROVE TypeOK'
    <2>1. store[t] \in TaskRecord
        BY <1>6 DEF BlockTask, OnDisk, TypeOK
    <2>2. markTaskBlocked(store[t]) \in TaskRecord
        BY <2>1, HelperTypes
    <2>3. OperatorReads(p, t, markTaskBlocked(store[t]))
        BY <1>6 DEF BlockTask
    <2>4. faults' \in [crash : Nat, retry : Nat, block : Nat, audit : Nat, stall : Nat]
        BY <1>6 DEF BlockTask, TypeOK
    <2>5. decisions' \in [Task -> Nat] /\ disturbed' \subseteq Task
        BY <1>6 DEF BlockTask, Disturb, TypeOK
    <2>6. QED
        BY <1>6, <1>3, <2>2, <2>3, <2>4, <2>5 DEF BlockTask, TypeOK
<1>7. ASSUME NEW p \in Proc, OperatorSave(p) PROVE TypeOK'
    <2>1. pend[p].id \in Task /\ pend[p].rec \in TaskRecord
        BY <1>7 DEF OperatorSave, TypeOK, PendingWrite
    <2>2. QED
        BY <1>7, <2>1, SaveType DEF OperatorSave, TypeOK
<1>8. ASSUME NEW p \in Proc, ArchiveProject(p) PROVE TypeOK'
    BY <1>8 DEF ArchiveProject, TypeOK, history
<1>9. ASSUME NEW k \in Tick, TickStarts(k) PROVE TypeOK'
    BY <1>9 DEF TickStarts, TypeOK, history, Where
<1>10. ASSUME NEW k \in Tick, AcquireLock(k) PROVE TypeOK'
    <2>1. faults' \in [crash : Nat, retry : Nat, block : Nat, audit : Nat, stall : Nat]
        BY <1>10 DEF AcquireLock, TypeOK
    <2>2. lock' \subseteq Tick /\ pc' \in [Tick -> Where]
        BY <1>10 DEF AcquireLock, TypeOK, Where
    <2>3. QED
        BY <1>10, <2>1, <2>2 DEF AcquireLock, TypeOK, history
<1>11. ASSUME NEW k \in Tick, ClaimScan(k) PROVE TypeOK'
    <2>1. /\ pc' \in [Tick -> Where]
          /\ pend' \in [Proc -> PendingWrite \cup {None}]
        <3>1. CASE pc' = [pc EXCEPT ![k] = "unlock"] /\ UNCHANGED pend
            BY <3>1 DEF TypeOK, Where
        <3>2. CASE \E t \in findEligibleTask(at[k]) :
                     /\ pend' = [pend EXCEPT ![ProcOf[k]] =
                                   [by |-> k, id |-> t,
                                    rec |-> markTaskClaimed(store[t], ProcOf[k])]]
                     /\ UNCHANGED pc
            <4>1. PICK t \in findEligibleTask(at[k]) :
                     /\ pend' = [pend EXCEPT ![ProcOf[k]] =
                                   [by |-> k, id |-> t,
                                    rec |-> markTaskClaimed(store[t], ProcOf[k])]]
                     /\ UNCHANGED pc
                BY <3>2
            <4>2. t \in Task /\ store[t] \in TaskRecord
                BY DEF findEligibleTask, isTaskEligibleForPickup, HasStatus, TypeOK
            <4>3. markTaskClaimed(store[t], ProcOf[k]) \in TaskRecord
                BY <4>2, HelperTypes
            <4>4. QED
                BY <4>1, <4>2, <4>3 DEF TypeOK, PendingWrite
        <3>3. QED
            BY <3>1, <3>2, <1>11 DEF ClaimScan
    <2>2. QED
        BY <1>11, <2>1 DEF ClaimScan, TypeOK, history
<1>12. ASSUME NEW k \in Tick, ClaimSave(k) PROVE TypeOK'
    <2> DEFINE w == pend[ProcOf[k]]
    <2>1. w.id \in Task /\ w.rec \in TaskRecord
        BY <1>12 DEF ClaimSave, TypeOK, PendingWrite
    <2>2. store' \in [Task -> TaskRecord \cup {None}] /\ enqueued' \in [Task -> Nat]
        BY <1>12, <2>1, SaveType DEF ClaimSave
    <2>3. held' \in [Tick -> Held \cup {None}]
        BY <1>12, <2>1 DEF ClaimSave, TypeOK, Held
    <2>4. claims' \in [Task -> Nat] /\ pend' \in [Proc -> PendingWrite \cup {None}]
        BY <1>12, <2>1 DEF ClaimSave, TypeOK
    <2>5. pc' \in [Tick -> Where]
        BY <1>12 DEF ClaimSave, TypeOK, Where
    <2>6. QED
        BY <1>12, <2>2, <2>3, <2>4, <2>5 DEF ClaimSave, TypeOK
<1>13. ASSUME NEW k \in Tick, ReleaseLock(k) PROVE TypeOK'
    <2>1. pc' \in [Tick -> Where] /\ at' \in [Tick -> 1..NRoles]
        BY <1>13, NextRoleType DEF ReleaseLock, TypeOK, Where
    <2>2. QED
        BY <1>13, <2>1 DEF ReleaseLock, TypeOK, history
<1>14. ASSUME NEW k \in Tick, StartWorker(k) PROVE TypeOK'
    BY <1>14 DEF StartWorker, TypeOK, history, Where
<1>15. ASSUME NEW k \in Tick, NEW o \in Outcome, WorkerReturns(k, o) PROVE TypeOK'
    <2>1. held[k].id \in Task /\ held[k].rec \in TaskRecord
        BY <1>15 DEF WorkerReturns, HeldInv, Claimed, TypeOK, Held
    <2>2. markTaskSettled(held[k].rec, o) \in TaskRecord
        BY <2>1, HelperTypes
    <2>3. pend' \in [Proc -> PendingWrite \cup {None}]
        BY <1>15, <2>1, <2>2 DEF WorkerReturns, TypeOK, PendingWrite
    <2>4. QED
        BY <1>15, <2>3 DEF WorkerReturns, TypeOK, history, Where
<1>16. ASSUME NEW k \in Tick, SettleSave(k) PROVE TypeOK'
    <2> DEFINE w == pend[ProcOf[k]]
    <2>1. w.id \in Task /\ w.rec \in TaskRecord
        BY <1>16 DEF SettleSave, TypeOK, PendingWrite
    <2>2. store' \in [Task -> TaskRecord \cup {None}] /\ enqueued' \in [Task -> Nat]
        BY <1>16, <2>1, SaveType DEF SettleSave
    <2>3. pend' \in [Proc -> PendingWrite \cup {None}] /\ pc' \in [Tick -> Where]
        BY <1>16 DEF SettleSave, TypeOK, Where
    <2>4. QED
        BY <1>16, <2>2, <2>3 DEF SettleSave, TypeOK
<1>17. ASSUME NEW k \in Tick, AuditOk(k) PROVE TypeOK'
    BY <1>17, NextRoleType DEF AuditOk, TypeOK, history
<1>18. ASSUME NEW k \in Tick, AuditThrows(k) PROVE TypeOK'
    <2>1. held[k].id \in Task /\ held[k].rec \in TaskRecord
        BY <1>18 DEF AuditThrows, HeldInv, Claimed, TypeOK, Held
    <2>2. markTaskSettled(held[k].rec, "failed") \in TaskRecord
        BY <2>1, HelperTypes DEF Outcome
    <2>3. pend' \in [Proc -> PendingWrite \cup {None}]
        BY <1>18, <2>1, <2>2 DEF AuditThrows, TypeOK, PendingWrite
    <2>4. faults' \in [crash : Nat, retry : Nat, block : Nat, audit : Nat, stall : Nat]
        BY <1>18 DEF AuditThrows, TypeOK
    <2>5. disturbed' \subseteq Task
        BY <1>18, <2>1 DEF AuditThrows, Disturb, TypeOK
    <2>6. QED
        BY <1>18, <2>3, <2>4, <2>5 DEF AuditThrows, TypeOK, Where
<1>19. ASSUME NEW p \in Proc, Crash(p) PROVE TypeOK'
    <2>1. faults' \in [crash : Nat, retry : Nat, block : Nat, audit : Nat, stall : Nat]
        BY <1>19, SMTT(30) DEF Crash, TypeOK
    <2>2. /\ pc' \in [Tick -> Where]
          /\ at' \in [Tick -> 1..NRoles]
          /\ held' \in [Tick -> Held \cup {None}]
          /\ got' \in [Tick -> SUBSET Task]
        BY <1>19 DEF Crash, TypeOK, Where
    <2>3. QED
        BY <1>19, <2>1, <2>2 DEF Crash, TypeOK, history
<1>20. ASSUME NEW p \in Proc, Restart(p) PROVE TypeOK'
    BY <1>20 DEF Restart, TypeOK, history
<1>21. CASE UNCHANGED vars
    BY <1>21 DEF vars, TypeOK
<1>22. ASSUME NEW p \in Proc, PlanThrows(p) PROVE TypeOK'
    <2>1. faults' \in [crash : Nat, retry : Nat, block : Nat, audit : Nat, stall : Nat]
        BY <1>22 DEF PlanThrows, TypeOK
    <2>2. QED
        BY <1>22, <2>1 DEF PlanThrows, TypeOK, history
<1>23. QED
    BY <1>1, <1>2, <1>4, <1>5, <1>6, <1>7, <1>8, <1>9, <1>10, <1>11, <1>12, <1>13, <1>14,
       <1>15, <1>16, <1>17, <1>18, <1>19, <1>20, <1>21, <1>22
       DEF Next, Operator, Planner, Turn, TickStep

\* Every step keeps a claimed task with the tick that claimed it.
LEMMA HeldStep == TypeOK /\ HeldInv /\ [Next]_vars => HeldInv'
<1> SUFFICES ASSUME TypeOK, HeldInv, [Next]_vars PROVE HeldInv'
    OBVIOUS
<1> USE BoardAssumption DEF HeldInv, Claimed, TypeOK
<1>1. ASSUME UNCHANGED <<pc, held>> PROVE HeldInv'
    BY <1>1
<1>2. ASSUME NEW k \in Tick, TickStarts(k) PROVE HeldInv'
    BY <1>2 DEF TickStarts
<1>3. ASSUME NEW k \in Tick, AcquireLock(k) PROVE HeldInv'
    BY <1>3 DEF AcquireLock
<1>4. ASSUME NEW k \in Tick, ClaimScan(k) PROVE HeldInv'
    BY <1>4 DEF ClaimScan
<1>5. ASSUME NEW k \in Tick, ClaimSave(k) PROVE HeldInv'
    BY <1>5 DEF ClaimSave
<1>6. ASSUME NEW k \in Tick, ReleaseLock(k) PROVE HeldInv'
    BY <1>6 DEF ReleaseLock, NextRole
<1>7. ASSUME NEW k \in Tick, StartWorker(k) PROVE HeldInv'
    BY <1>7 DEF StartWorker
<1>8. ASSUME NEW k \in Tick, NEW o \in Outcome, WorkerReturns(k, o) PROVE HeldInv'
    BY <1>8 DEF WorkerReturns
<1>9. ASSUME NEW k \in Tick, SettleSave(k) PROVE HeldInv'
    BY <1>9 DEF SettleSave
<1>10. ASSUME NEW k \in Tick, AuditOk(k) PROVE HeldInv'
    BY <1>10 DEF AuditOk, NextRole
<1>11. ASSUME NEW k \in Tick, AuditThrows(k) PROVE HeldInv'
    BY <1>11 DEF AuditThrows
<1>12. ASSUME NEW p \in Proc, Crash(p) PROVE HeldInv'
    BY <1>12 DEF Crash
<1>13. ASSUME NEW p \in Proc, Operator(p) \/ Planner(p) \/ Turn(p) \/ Restart(p)
       PROVE  UNCHANGED <<pc, held>>
    BY <1>13 DEF Operator, Planner, Turn, Restart, ApproveTask, RetryTask, BlockTask,
                 OperatorReads, ArchiveProject, PlanStart, PlanThrows, OperatorSave, PlanSave
<1>14. QED
    BY <1>1, <1>2, <1>3, <1>4, <1>5, <1>6, <1>7, <1>8, <1>9, <1>10, <1>11, <1>12, <1>13
       DEF Next, TickStep, vars

\* The variables of the board always have their types.
THEOREM TypeCorrect == Spec => [](TypeOK /\ HeldInv)
<1>1. TypeOK /\ HeldInv /\ [Next]_vars => (TypeOK /\ HeldInv)'
    BY TypeStep, HeldStep
<1>2. QED
    BY <1>1, TypeInit, PTL DEF Spec
-----------------------------------------------------------------------------
(* A queued task is never claimed *)

\* A record on disk, or about to be written, that is queued has no claim.
Unclaimed(rec) == rec.status = "queued" => rec.claimedBy = None
UnclaimedInv ==
  /\ \A t \in Task : OnDisk(t) => Unclaimed(store[t])
  /\ \A p \in Proc : pend[p] # None => Unclaimed(pend[p].rec)

\* The records the helpers return are unclaimed when they are queued.
LEMMA HelpersUnclaim ==
  ASSUME NEW rec \in TaskRecord
  PROVE  /\ \A p \in Proc : markTaskClaimed(rec, p).status = "in-progress"
         /\ \A o \in Outcome : markTaskSettled(rec, o).status = o
         /\ markTaskBlocked(rec).status = "blocked"
         /\ Unclaimed(rec) => Unclaimed(approveTaskForQueue(rec))
         /\ Unclaimed(resetTaskForRetry(rec))
  BY DEF TaskRecord, markTaskClaimed, markTaskSettled, markTaskBlocked,
         approveTaskForQueue, resetTaskForRetry, resetClaim, Unclaimed

\* A write of an unclaimed record keeps the disk unclaimed.
LEMMA SaveUnclaimed ==
  ASSUME TypeOK, UnclaimedInv, NEW t \in Task, NEW rec, Unclaimed(rec), saveTask(t, rec)
  PROVE  \A u \in Task : store'[u] # None => Unclaimed(store'[u])
  BY DEF TypeOK, UnclaimedInv, saveTask, OnDisk

\* Every step of the code keeps queued records unclaimed.
LEMMA UnclaimedStep == TypeOK /\ HeldInv /\ UnclaimedInv /\ [Next]_vars => UnclaimedInv'
<1> SUFFICES ASSUME TypeOK, HeldInv, UnclaimedInv, [Next]_vars PROVE UnclaimedInv'
    OBVIOUS
<1> USE BoardAssumption
<1>1. ASSUME UNCHANGED <<store, pend>> PROVE UnclaimedInv'
    BY <1>1 DEF UnclaimedInv, OnDisk
<1>2. ASSUME NEW p \in Proc, NEW b, NEW t, NEW rec, Unclaimed(rec),
             pend' = [pend EXCEPT ![p] = [by |-> b, id |-> t, rec |-> rec]], UNCHANGED store
      PROVE  UnclaimedInv'
    BY <1>2 DEF UnclaimedInv, OnDisk, TypeOK
<1>3. ASSUME NEW p \in Proc, NEW t \in Task, NEW rec, Unclaimed(rec), OperatorReads(p, t, rec)
      PROVE  UnclaimedInv'
    BY <1>2, <1>3 DEF OperatorReads
<1>4. ASSUME NEW p \in Proc, NEW t \in Task, PlanSave(p, t) PROVE UnclaimedInv'
    <2>1. Unclaimed(createTaskRecord(t))
        BY DEF createTaskRecord, Unclaimed
    <2>2. QED
        BY <1>4, <2>1, SaveUnclaimed DEF PlanSave, UnclaimedInv, OnDisk
<1>5. ASSUME NEW p \in Proc, NEW t \in Task, ApproveTask(p, t) PROVE UnclaimedInv'
    <2>1. store[t] \in TaskRecord /\ Unclaimed(store[t])
        BY <1>5 DEF ApproveTask, HasStatus, TypeOK, UnclaimedInv, OnDisk
    <2>2. QED
        BY <1>3, <1>5, <2>1, HelpersUnclaim DEF ApproveTask
<1>6. ASSUME NEW p \in Proc, NEW t \in Task, RetryTask(p, t) PROVE UnclaimedInv'
    <2>1. store[t] \in TaskRecord
        BY <1>6 DEF RetryTask, OnDisk, TypeOK
    <2>2. QED
        BY <1>3, <1>6, <2>1, HelpersUnclaim DEF RetryTask
<1>7. ASSUME NEW p \in Proc, NEW t \in Task, BlockTask(p, t) PROVE UnclaimedInv'
    <2>1. store[t] \in TaskRecord
        BY <1>7 DEF BlockTask, OnDisk, TypeOK
    <2>2. Unclaimed(markTaskBlocked(store[t]))
        BY <2>1, HelpersUnclaim DEF Unclaimed
    <2>3. QED
        BY <1>3, <1>7, <2>2 DEF BlockTask
<1>8. ASSUME NEW p \in Proc, OperatorSave(p) PROVE UnclaimedInv'
    <2>1. pend[p].id \in Task /\ Unclaimed(pend[p].rec)
        BY <1>8 DEF OperatorSave, TypeOK, PendingWrite, UnclaimedInv
    <2>2. QED
        BY <1>8, <2>1, SaveUnclaimed DEF OperatorSave, UnclaimedInv, OnDisk, TypeOK
<1>9. ASSUME NEW k \in Tick, ClaimScan(k) PROVE UnclaimedInv'
    <2>1. CASE UNCHANGED pend
        BY <1>1, <1>9, <2>1 DEF ClaimScan
    <2>2. ASSUME NEW t \in findEligibleTask(at[k]),
                 pend' = [pend EXCEPT ![ProcOf[k]] =
                            [by |-> k, id |-> t, rec |-> markTaskClaimed(store[t], ProcOf[k])]]
          PROVE  UnclaimedInv'
        <3>1. Unclaimed(markTaskClaimed(store[t], ProcOf[k]))
            BY DEF markTaskClaimed, Unclaimed
        <3>2. UNCHANGED store
            BY <1>9 DEF ClaimScan
        <3>3. ProcOf[k] \in Proc
            OBVIOUS
        <3>4. QED
            BY <1>2, <2>2, <3>1, <3>2, <3>3
    <2>3. QED
        BY <1>9, <2>1, <2>2 DEF ClaimScan
<1>10. ASSUME NEW k \in Tick, ClaimSave(k) \/ SettleSave(k) PROVE UnclaimedInv'
    <2>1. pend[ProcOf[k]].id \in Task /\ Unclaimed(pend[ProcOf[k]].rec)
        BY <1>10 DEF ClaimSave, SettleSave, TypeOK, PendingWrite, UnclaimedInv
    <2>2. saveTask(pend[ProcOf[k]].id, pend[ProcOf[k]].rec)
        BY <1>10 DEF ClaimSave, SettleSave
    <2>3. pend' = [pend EXCEPT ![ProcOf[k]] = None]
        BY <1>10 DEF ClaimSave, SettleSave
    <2>4. QED
        BY <2>1, <2>2, <2>3, SaveUnclaimed DEF UnclaimedInv, OnDisk, TypeOK
<1>11. ASSUME NEW k \in Tick, NEW o \in Outcome, Claimed(k),
              pend' = [pend EXCEPT ![ProcOf[k]] =
                         [by |-> k, id |-> held[k].id, rec |-> markTaskSettled(held[k].rec, o)]],
              UNCHANGED store
       PROVE  UnclaimedInv'
    <2>1. held[k].rec \in TaskRecord
        BY <1>11 DEF HeldInv, TypeOK, Held
    <2>2. Unclaimed(markTaskSettled(held[k].rec, o))
        BY <2>1, HelpersUnclaim DEF Unclaimed, Outcome
    <2>3. ProcOf[k] \in Proc
        OBVIOUS
    <2>4. QED
        BY <1>2, <1>11, <2>2, <2>3
<1>12. ASSUME NEW k \in Tick, NEW o \in Outcome, WorkerReturns(k, o) PROVE UnclaimedInv'
    BY <1>11, <1>12 DEF WorkerReturns, Claimed
<1>13. ASSUME NEW k \in Tick, AuditThrows(k) PROVE UnclaimedInv'
    BY <1>11, <1>13 DEF AuditThrows, Claimed, Outcome
<1>14. ASSUME NEW p \in Proc, Crash(p) PROVE UnclaimedInv'
    BY <1>14 DEF Crash, UnclaimedInv, OnDisk, TypeOK
<1>15. ASSUME NEW p \in Proc, Planner(p) \/ ArchiveProject(p) \/ Restart(p)
       PROVE  UNCHANGED <<store, pend>>
    BY <1>15 DEF Planner, PlanStart, PlanThrows, ArchiveProject, Restart
<1>16. ASSUME NEW k \in Tick,
              TickStarts(k) \/ AcquireLock(k) \/ ReleaseLock(k) \/ StartWorker(k) \/ AuditOk(k)
       PROVE  UNCHANGED <<store, pend>>
    BY <1>16 DEF TickStarts, AcquireLock, ReleaseLock, StartWorker, AuditOk
<1>17. QED
    BY <1>1, <1>4, <1>5, <1>6, <1>7, <1>8, <1>9, <1>10, <1>12, <1>13, <1>14, <1>15, <1>16
       DEF Next, Operator, Turn, TickStep, vars

\* However the operator's handlers, the workers' late writes and crashes
\* interleave, a task in the queue carries no claim and can be picked up.
THEOREM QueueIsUnclaimed == Spec => []QueuedIsUnclaimed
<1>1. Init => UnclaimedInv
    BY DEF Init, UnclaimedInv, OnDisk
<1>2. UnclaimedInv => QueuedIsUnclaimed
    BY DEF UnclaimedInv, QueuedIsUnclaimed, Unclaimed, HasStatus, OnDisk
<1>3. QED
    BY <1>1, <1>2, TypeCorrect, UnclaimedStep, PTL DEF Spec
-----------------------------------------------------------------------------
(* No task is claimed twice for one entry in the queue *)

\* The ticks inside withFileLock belong to one process, and a tick in its
\* critical section is among them.
LockInv ==
  /\ \A j, k \in lock : ProcOf[j] = ProcOf[k]
  /\ \A k \in Tick : pc[k] \in {"locked", "unlock"} => k \in lock

\* A write a tick has prepared is its process's, never puts a task in the
\* queue, and, if it is a claim, still has an entry in the queue to use up.
PendInv ==
  \A p \in Proc : pend[p] # None /\ pend[p].by # None =>
    /\ ProcOf[pend[p].by] = p
    /\ pc[pend[p].by] \in {"locked", "settle", "resettle"}
    /\ pend[p].rec.status # "queued"
    /\ pc[pend[p].by] = "locked" => claims[pend[p].id] < enqueued[pend[p].id]

\* A task that is in the queue has an entry no claim has used.
QueueInv ==
  \A t \in Task : /\ claims[t] <= enqueued[t]
                  /\ HasStatus(t, "queued") => claims[t] < enqueued[t]

ClaimInv == LockInv /\ PendInv /\ QueueInv
\* Saving a record that is not queued uses no new entry; saving a queued one
\* adds an entry.  Either way the queue's accounts stay right.
LEMMA SaveQueue ==
  ASSUME TypeOK, QueueInv, NEW t \in Task, NEW rec \in TaskRecord, saveTask(t, rec),
         UNCHANGED claims
  PROVE  QueueInv' /\ \A u \in Task : enqueued[u] <= enqueued'[u]
  BY BoardAssumption DEF TypeOK, QueueInv, saveTask, HasStatus

\* A step that steals no lock keeps the lock exclusive between processes.
LEMMA LockStep == TypeOK /\ LockInv /\ [Next]_vars /\ faults'.stall = 0 => LockInv'
<1> SUFFICES ASSUME TypeOK, LockInv, [Next]_vars, faults'.stall = 0 PROVE LockInv'
    OBVIOUS
<1> USE BoardAssumption DEF LockInv, TypeOK
<1>1. ASSUME UNCHANGED <<lock, pc>> PROVE LockInv'
    BY <1>1
<1>2. ASSUME NEW k \in Tick, TickStarts(k) PROVE LockInv'
    BY <1>2 DEF TickStarts
<1>3. ASSUME NEW k \in Tick, AcquireLock(k) PROVE LockInv'
    BY <1>3 DEF AcquireLock
<1>4. ASSUME NEW k \in Tick, ClaimScan(k) PROVE LockInv'
    BY <1>4 DEF ClaimScan
<1>5. ASSUME NEW k \in Tick, ClaimSave(k) PROVE LockInv'
    BY <1>5 DEF ClaimSave
<1>6. ASSUME NEW k \in Tick, ReleaseLock(k) PROVE LockInv'
    BY <1>6 DEF ReleaseLock, NextRole
<1>7. ASSUME NEW k \in Tick, StartWorker(k) PROVE LockInv'
    BY <1>7 DEF StartWorker
<1>8. ASSUME NEW k \in Tick, NEW o \in Outcome, WorkerReturns(k, o) PROVE LockInv'
    BY <1>8 DEF WorkerReturns
<1>9. ASSUME NEW k \in Tick, SettleSave(k) PROVE LockInv'
    BY <1>9 DEF SettleSave
<1>10. ASSUME NEW k \in Tick, AuditOk(k) PROVE LockInv'
    BY <1>10 DEF AuditOk, NextRole
<1>11. ASSUME NEW k \in Tick, AuditThrows(k) PROVE LockInv'
    BY <1>11 DEF AuditThrows
<1>12. ASSUME NEW p \in Proc, Crash(p) PROVE LockInv'
    BY <1>12 DEF Crash
<1>13. ASSUME NEW p \in Proc, Operator(p) \/ Planner(p) \/ Turn(p) \/ Restart(p)
       PROVE  UNCHANGED <<lock, pc>>
    BY <1>13 DEF Operator, Planner, Turn, Restart, ApproveTask, RetryTask, BlockTask,
                 OperatorReads, ArchiveProject, PlanStart, PlanThrows, OperatorSave, PlanSave
<1>14. QED
    BY <1>1, <1>2, <1>3, <1>4, <1>5, <1>6, <1>7, <1>8, <1>9, <1>10, <1>11, <1>12, <1>13
       DEF Next, TickStep, vars

\* Every step keeps the prepared writes and the queue's accounts right.  The
\* step that matters is ClaimSave: the lock keeps every other prepared claim
\* away while one is saved.
LEMMA QueueStep ==
  TypeOK /\ HeldInv /\ ClaimInv /\ [Next]_vars => (PendInv /\ QueueInv)'
<1> SUFFICES ASSUME TypeOK, HeldInv, LockInv, PendInv, QueueInv, [Next]_vars
             PROVE  PendInv' /\ QueueInv'
    BY DEF ClaimInv
<1> USE BoardAssumption
<1>1. ASSUME UNCHANGED <<store, enqueued, claims>> PROVE QueueInv'
    BY <1>1 DEF QueueInv, HasStatus
<1>2. ASSUME NEW p \in Proc, NEW t \in Task, NEW rec, OperatorReads(p, t, rec)
      PROVE  PendInv' /\ QueueInv'
    BY <1>1, <1>2 DEF OperatorReads, PendInv, TypeOK
<1>3. ASSUME NEW p \in Proc, \E t \in Task : ApproveTask(p, t) \/ RetryTask(p, t) \/ BlockTask(p, t)
      PROVE  PendInv' /\ QueueInv'
    BY <1>2, <1>3 DEF ApproveTask, RetryTask, BlockTask
<1>4. ASSUME NEW p \in Proc, NEW t \in Task, PlanSave(p, t) PROVE PendInv' /\ QueueInv'
    <2>1. QueueInv' /\ \A u \in Task : enqueued[u] <= enqueued'[u]
        BY <1>4, CreateType, SaveQueue DEF PlanSave
    <2>2. PendInv'
        BY <1>4, <2>1, TypeStep DEF PlanSave, PendInv, TypeOK, PendingWrite
    <2>3. QED
        BY <2>1, <2>2
<1>5. ASSUME NEW p \in Proc, OperatorSave(p) PROVE PendInv' /\ QueueInv'
    <2>1. pend[p].id \in Task /\ pend[p].rec \in TaskRecord
        BY <1>5 DEF OperatorSave, TypeOK, PendingWrite
    <2>2. QueueInv' /\ \A u \in Task : enqueued[u] <= enqueued'[u]
        BY <1>5, <2>1, SaveQueue DEF OperatorSave
    <2>3. PendInv'
        BY <1>5, <2>2, TypeStep DEF OperatorSave, PendInv, TypeOK, PendingWrite
    <2>4. QED
        BY <2>2, <2>3
<1>6. ASSUME NEW k \in Tick, ClaimScan(k) PROVE PendInv' /\ QueueInv'
    <2>1. QueueInv'
        BY <1>1, <1>6 DEF ClaimScan, history
    <2>2. ASSUME UNCHANGED pend, pc' = [pc EXCEPT ![k] = "unlock"] PROVE PendInv'
        <3>1. pend[ProcOf[k]] = None /\ UNCHANGED <<claims, enqueued>>
            BY <1>6 DEF ClaimScan, Busy, history
        <3>2. ASSUME NEW q \in Proc, pend[q] # None, pend[q].by # None
              PROVE  pc'[pend[q].by] = pc[pend[q].by]
            BY <2>2, <3>1, <3>2 DEF PendInv, TypeOK, PendingWrite
        <3>3. QED
            BY <2>2, <3>1, <3>2 DEF PendInv
    <2>3. ASSUME NEW t \in findEligibleTask(at[k]), UNCHANGED pc,
                 pend' = [pend EXCEPT ![ProcOf[k]] =
                            [by |-> k, id |-> t, rec |-> markTaskClaimed(store[t], ProcOf[k])]]
          PROVE  PendInv'
        <3>1. t \in Task /\ claims[t] < enqueued[t]
            BY DEF findEligibleTask, isTaskEligibleForPickup, QueueInv
        <3>2. markTaskClaimed(store[t], ProcOf[k]).status # "queued"
            BY DEF markTaskClaimed
        <3>3. pc[k] = "locked" /\ UNCHANGED <<pc, claims, enqueued>>
            BY <1>6, <2>3 DEF ClaimScan, history
        <3>4. QED
            BY <2>3, <3>1, <3>2, <3>3 DEF PendInv, TypeOK
    <2>4. QED
        BY <1>6, <2>1, <2>2, <2>3 DEF ClaimScan
<1>7. ASSUME NEW k \in Tick, ClaimSave(k) PROVE PendInv' /\ QueueInv'
    <2> DEFINE p == ProcOf[k]
               w == pend[p]
    <2>1. /\ p \in Proc /\ w # None /\ w.by = k /\ pc[k] = "locked"
          /\ w.id \in Task /\ w.rec \in TaskRecord
        BY <1>7 DEF ClaimSave, TypeOK, PendingWrite
    <2>2. w.rec.status # "queued" /\ claims[w.id] < enqueued[w.id]
        BY <2>1 DEF PendInv, TypeOK
    <2>3. /\ store' = [store EXCEPT ![w.id] = w.rec]
          /\ enqueued' = enqueued
          /\ claims' = [claims EXCEPT ![w.id] = @ + 1]
        BY <1>7, <2>2 DEF ClaimSave, saveTask, TypeOK
    <2>4. QueueInv'
        BY <2>1, <2>2, <2>3 DEF QueueInv, HasStatus, TypeOK
    <2>5. ASSUME NEW q \in Proc, pend'[q] # None, pend'[q].by # None
          PROVE  /\ pend'[q] = pend[q] /\ pend[q].by \in Tick /\ pend[q].by # k
                 /\ pc[pend[q].by] # "locked" /\ pc'[pend[q].by] = pc[pend[q].by]
        <3>1. q # p /\ pend'[q] = pend[q]
            BY <1>7, <2>1, <2>5 DEF ClaimSave, TypeOK
        <3>2. pend[q].by \in Tick /\ ProcOf[pend[q].by] = q
            BY <2>5, <3>1 DEF PendInv, TypeOK, PendingWrite
        <3>3. pc[pend[q].by] # "locked"
            BY <2>1, <3>1, <3>2 DEF LockInv
        <3>4. QED
            BY <1>7, <3>1, <3>2, <3>3 DEF ClaimSave, TypeOK
    <2>6. PendInv'
        BY <2>5 DEF PendInv
    <2>7. QED
        BY <2>4, <2>6
<1>8. ASSUME NEW k \in Tick, SettleSave(k) PROVE PendInv' /\ QueueInv'
    <2> DEFINE p == ProcOf[k]
               w == pend[p]
    <2>1. p \in Proc /\ w # None /\ w.by = k /\ w.id \in Task /\ w.rec \in TaskRecord
        BY <1>8 DEF SettleSave, TypeOK, PendingWrite
    <2>2. QueueInv' /\ \A u \in Task : enqueued[u] <= enqueued'[u]
        BY <1>8, <2>1, SaveQueue DEF SettleSave
    <2>3. w.rec.status # "queued"
        BY <2>1 DEF PendInv, TypeOK
    <2>4. enqueued' = enqueued /\ claims' = claims
        BY <1>8, <2>3 DEF SettleSave, saveTask, TypeOK
    <2>5. ASSUME NEW q \in Proc, pend'[q] # None, pend'[q].by # None
          PROVE  /\ pend'[q] = pend[q] /\ pc'[pend[q].by] = pc[pend[q].by]
        <3>1. q # p /\ pend'[q] = pend[q]
            BY <1>8, <2>1, <2>5 DEF SettleSave, TypeOK
        <3>2. pend[q].by \in Tick /\ ProcOf[pend[q].by] = q
            BY <2>5, <3>1 DEF PendInv, TypeOK, PendingWrite
        <3>3. QED
            BY <1>8, <3>1, <3>2 DEF SettleSave, TypeOK
    <2>6. PendInv'
        BY <2>4, <2>5 DEF PendInv
    <2>7. QED
        BY <2>2, <2>6
<1>9. ASSUME NEW k \in Tick, NEW o \in Outcome, NEW s \in {"settle", "resettle"}, Claimed(k),
             pend' = [pend EXCEPT ![ProcOf[k]] =
                        [by |-> k, id |-> held[k].id, rec |-> markTaskSettled(held[k].rec, o)]],
             pc' = [pc EXCEPT ![k] = s], UNCHANGED <<store, enqueued, claims>>
      PROVE  PendInv' /\ QueueInv'
    <2>1. held[k].rec \in TaskRecord
        BY <1>9 DEF HeldInv, TypeOK, Held
    <2>2. markTaskSettled(held[k].rec, o).status # "queued"
        BY <2>1, HelpersUnclaim DEF Outcome
    <2>3. ASSUME NEW q \in Proc, pend'[q] # None, pend'[q].by # None
          PROVE  \/ q = ProcOf[k]
                 \/ pend'[q] = pend[q] /\ pc'[pend[q].by] = pc[pend[q].by]
        BY <1>9, <2>3 DEF PendInv, TypeOK, PendingWrite
    <2>4. PendInv'
        BY <1>9, <2>2, <2>3 DEF PendInv, TypeOK
    <2>5. QED
        BY <1>1, <1>9, <2>4
<1>10. ASSUME NEW k \in Tick, NEW o \in Outcome, WorkerReturns(k, o) PROVE PendInv' /\ QueueInv'
    BY <1>9, <1>10 DEF WorkerReturns, Claimed, history
<1>11. ASSUME NEW k \in Tick, AuditThrows(k) PROVE PendInv' /\ QueueInv'
    BY <1>9, <1>11 DEF AuditThrows, Claimed, Outcome, history
\* The other steps of a tick touch neither the files nor a prepared write of
\* their own process.
<1>12. ASSUME NEW k \in Tick,
              TickStarts(k) \/ AcquireLock(k) \/ ReleaseLock(k) \/ StartWorker(k) \/ AuditOk(k)
       PROVE  PendInv' /\ QueueInv'
    <2>1. UNCHANGED <<store, pend, enqueued, claims>>
        BY <1>12 DEF TickStarts, AcquireLock, ReleaseLock, StartWorker, AuditOk, history
    <2>2. pc[k] \in {"off", "claim", "unlock", "claimed", "audit", "reaudit"}
        BY <1>12 DEF TickStarts, AcquireLock, ReleaseLock, StartWorker, AuditOk
    <2>3. \A j \in Tick : j # k => pc'[j] = pc[j]
        BY <1>12 DEF TickStarts, AcquireLock, ReleaseLock, StartWorker, AuditOk, NextRole, TypeOK
    <2>4. PendInv'
        BY <2>1, <2>2, <2>3 DEF PendInv, TypeOK, PendingWrite
    <2>5. QED
        BY <1>1, <2>1, <2>4
<1>13. ASSUME NEW p \in Proc, Crash(p) PROVE PendInv' /\ QueueInv'
    <2>1. UNCHANGED <<store, enqueued, claims>>
        BY <1>13 DEF Crash, history
    <2>2. ASSUME NEW q \in Proc, pend'[q] # None, pend'[q].by # None
          PROVE  pend'[q] = pend[q] /\ pc'[pend[q].by] = pc[pend[q].by]
        <3>1. q # p /\ pend'[q] = pend[q]
            BY <1>13, <2>2 DEF Crash, TypeOK
        <3>2. pend[q].by \in Tick /\ ProcOf[pend[q].by] = q
            BY <2>2, <3>1 DEF PendInv, TypeOK, PendingWrite
        <3>3. QED
            BY <1>13, <3>1, <3>2 DEF Crash
    <2>3. PendInv'
        BY <2>1, <2>2 DEF PendInv
    <2>4. QED
        BY <1>1, <2>1, <2>3
<1>14. ASSUME NEW p \in Proc, Planner(p) \/ ArchiveProject(p) \/ Restart(p)
       PROVE  UNCHANGED <<store, pend, pc, enqueued, claims>>
    BY <1>14 DEF Planner, PlanStart, PlanThrows, ArchiveProject, Restart, history
<1>15. ASSUME UNCHANGED <<store, pend, pc, enqueued, claims>> PROVE PendInv' /\ QueueInv'
    BY <1>1, <1>15 DEF PendInv
<1>16. QED
    BY <1>3, <1>4, <1>5, <1>6, <1>7, <1>8, <1>10, <1>11, <1>12, <1>13, <1>14, <1>15
       DEF Next, Operator, Turn, TickStep, vars

\* The count of stolen locks never goes down.
LEMMA StallStep == TypeOK /\ [Next]_vars /\ faults'.stall = 0 => faults.stall = 0
<1> SUFFICES ASSUME TypeOK, [Next]_vars PROVE faults'.stall >= faults.stall
    BY DEF TypeOK
<1> USE DEF TypeOK
<1>1. ASSUME UNCHANGED faults PROVE faults'.stall >= faults.stall
    BY <1>1
<1>2. ASSUME NEW p \in Proc, Operator(p) \/ PlanThrows(p) \/ Crash(p)
      PROVE  faults'.stall >= faults.stall
    BY <1>2 DEF Operator, ApproveTask, RetryTask, BlockTask, ArchiveProject, PlanThrows, Crash
<1>3. ASSUME NEW p \in Proc, (\E S \in Plans : PlanStart(p, S)) \/ Turn(p) \/ Restart(p)
      PROVE  UNCHANGED faults
    BY <1>3 DEF PlanStart, Turn, PlanSave, OperatorSave, Restart
<1>4. ASSUME NEW k \in Tick, AcquireLock(k) \/ AuditThrows(k) PROVE faults'.stall >= faults.stall
    BY <1>4 DEF AcquireLock, AuditThrows
<1>5. ASSUME NEW k \in Tick,
             \/ TickStarts(k) \/ ClaimScan(k) \/ ClaimSave(k) \/ ReleaseLock(k)
             \/ StartWorker(k) \/ SettleSave(k) \/ AuditOk(k)
             \/ \E o \in Outcome : WorkerReturns(k, o)
      PROVE  UNCHANGED faults
    BY <1>5 DEF TickStarts, ClaimScan, ClaimSave, ReleaseLock, StartWorker, SettleSave,
                AuditOk, WorkerReturns
<1>6. QED
    BY <1>1, <1>2, <1>3, <1>4, <1>5 DEF Next, Planner, TickStep, vars

\* "Two workers can't claim the same task even if they race": as long as no
\* lock was stolen from a live holder, a task is claimed at most once for each
\* time it entered the queue, for any number of processes, overlapping ticks,
\* operators, retries and crashes.
THEOREM ClaimedOncePerEntry == Spec => []NoDoubleClaim
<1> DEFINE Inv == faults.stall = 0 => ClaimInv
<1>1. Init => Inv
    BY BoardAssumption DEF Init, ClaimInv, LockInv, PendInv, QueueInv, HasStatus
<1>2. TypeOK /\ HeldInv /\ Inv /\ [Next]_vars => Inv'
    BY StallStep, LockStep, QueueStep DEF ClaimInv
<1>3. Inv => NoDoubleClaim
    BY DEF ClaimInv, QueueInv, NoDoubleClaim
<1> HIDE DEF Inv
<1>4. QED
    BY <1>1, <1>2, <1>3, TypeCorrect, PTL DEF Spec
=============================================================================
