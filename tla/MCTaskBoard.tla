----------------------------- MODULE MCTaskBoard -----------------------------
(* Small boards for TLC. *)
EXTENDS TaskBoard, TLC

CONSTANTS gw, cli, k1, k2, k3, t1, t2, t3

\* One gateway whose timer fires again while an earlier tick is still waiting.
OneProc == {gw}
TwoTicks == {k1, k2}
TwoTicksOf == [k \in TwoTicks |-> gw]

\* A gateway with two overlapping ticks and a second loop in another process.
TwoProcs == {gw, cli}
ThreeTicks == {k1, k2, k3}
ThreeTicksOf == [k \in ThreeTicks |-> IF k = k3 THEN cli ELSE gw]

\* t2 depends on t1 and needs approval; t3 is a second role's, of another plan.
TwoTasks == {t1, t2}
TwoPlans == {{t1, t2}}
TwoRoleOf == [t \in TwoTasks |-> 1]
TwoDependsOn == [t \in TwoTasks |-> IF t = t2 THEN {t1} ELSE {}]
TwoPriority == [t \in TwoTasks |-> 1]
NeedT2 == {t2}

OneTask == {t1}
OnePlan == {{t1}}
OneRoleOf == [t \in OneTask |-> 1]
OneDependsOn == [t \in OneTask |-> {}]
OnePriority == [t \in OneTask |-> 1]

ThreeTasks == {t1, t2, t3}
ThreePlans == {{t1, t2}, {t3}}
ThreeRoleOf == [t \in ThreeTasks |-> IF t = t3 THEN 2 ELSE 1]
ThreeDependsOn == [t \in ThreeTasks |-> IF t = t2 THEN {t1} ELSE {}]
ThreePriority == [t \in ThreeTasks |-> IF t = t1 THEN 2 ELSE 1]

NoTasks == {}
TickSymmetry == Permutations({k1, k2})
=============================================================================
