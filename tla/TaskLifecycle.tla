---------------------------- MODULE TaskLifecycle ----------------------------
(***************************************************************************)
(* What the board promises of a task's status, one file at a time: the     *)
(* status graph of projects/task-state.ts and the pickup rule that a task  *)
(* is claimed only when everything it depends on is done.  The operator    *)
(* may retry or block a task in any status, and a failing audit append     *)
(* turns a saved result into a failure: from then on the outcome of an     *)
(* earlier attempt may be saved over it and no promise is left.  Such a    *)
(* task is "disturbed"; the others keep to the graph.                      *)
(***************************************************************************)
CONSTANTS Task, DependsOn, NeedsApproval

VARIABLE status      \* the status of each task, "absent" before it is planned

Outcome == {"done", "review", "failed"}

Init == status = [t \in Task |-> "absent"]

Becomes(t, s) == status' = [status EXCEPT ![t] = s]

Create(t) ==
  /\ status[t] = "absent"
  /\ Becomes(t, IF t \in NeedsApproval THEN "backlog" ELSE "queued")

Approve(t) == status[t] = "backlog" /\ Becomes(t, "queued")

Claim(t) ==
  /\ status[t] = "queued"
  /\ \A d \in DependsOn[t] : d \in Task /\ status[d] \in {"done", "disturbed"}
  /\ Becomes(t, "in-progress")

Settle(t, s) == status[t] = "in-progress" /\ s \in Outcome /\ Becomes(t, s)

Disturb(t) == status[t] # "absent" /\ Becomes(t, "disturbed")

Next ==
  \E t \in Task :
    \/ Create(t) \/ Approve(t) \/ Claim(t) \/ Disturb(t)
    \/ \E s \in Outcome : Settle(t, s)

Spec == Init /\ [][Next]_status
=============================================================================
