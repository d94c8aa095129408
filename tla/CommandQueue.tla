---------------------------- MODULE CommandQueue ----------------------------
(***************************************************************************)
(* The in-process command lanes of process/command-queue.ts: every lane    *)
(* runs at most maxConcurrent of its entries, first come first served.     *)
(* Modelled with the callers that make it hard: entries whose task awaits  *)
(* an entry of another lane (agents/pi-embedded-runner), tasks that        *)
(* outlive their timeout, lanes cleared by /new and reset by stuck-session *)
(* recovery, and the in-process restart of cli/gateway-cli/run-loop.ts.    *)
(*                                                                         *)
(* A task id stands for its entry: each entry is started at most once.     *)
(***************************************************************************)
EXTENDS Integers, Sequences, SequencesExt

CONSTANTS
  Task,        \* the commands
  Requested,   \* the lane each one is enqueued for
  Nested,      \* the command each one enqueues and awaits, or None
  HasTimeout,  \* commands enqueued with taskTimeoutMs
  Hangs,       \* commands whose task never returns
  CronSizes,   \* the configured limits of the cron lanes
  MainSizes,   \* the configured limits of the main lane
  MaxResets,   \* bound on the generation from which a lane is still reset
  None

Global == {"main", "cron", "cron-nested"}
Lane == Global \cup {Requested[t] : t \in Task}
Session == Lane \ Global
Inner == {Nested[t] : t \in Task} \ {None}

ASSUME CommandQueueAssumption ==
  /\ None \notin Task
  /\ Nested \in [Task -> Task \cup {None}]
  /\ HasTimeout \subseteq Task /\ Hangs \subseteq Task
  /\ CronSizes \subseteq Nat \ {0} /\ MainSizes \subseteq Nat \ {0}
  /\ MaxResets \in Nat

VARIABLES
  queue,     \* the entries waiting in each lane
  active,    \* activeTaskIds of each lane
  max,       \* maxConcurrent of each lane
  gen,       \* generation of each lane
  entry,     \* the promise of each command
  body,      \* its task, which may outlive the promise
  tgen,      \* the generation it was started in
  draining,  \* gatewayDraining
  wait,      \* the restart: waitForActiveTasks and its answer
  captured,  \* the active tasks it waits for
  released   \* history: commands whose slot a reset took away

vars == <<queue, active, max, gen, entry, body, tgen, draining, wait, captured, released>>
restartVars == <<draining, wait, captured>>

Init ==
  /\ queue = [l \in Lane |-> <<>>]
  /\ active = [l \in Lane |-> {}]
  /\ max = [l \in Lane |-> 1]
  /\ gen = [l \in Lane |-> 0]
  /\ entry = [t \in Task |-> "new"]
  /\ body = [t \in Task |-> "off"]
  /\ tgen = [t \in Task |-> 0]
  /\ draining = FALSE /\ wait = "no" /\ captured = {}
  /\ released = {}
-----------------------------------------------------------------------------
\* Mutant: what a command of the cron lane awaits queues up behind it.
GlobalLaneIsRequested(l) == l

\* resolveGlobalLane: work nested in the cron lane has a lane of its own.
resolveGlobalLane(l) == IF l = "cron" THEN "cron-nested" ELSE l

laneOf(t) == IF t \in Inner THEN resolveGlobalLane(Requested[t]) ELSE Requested[t]

\* Mutant: one more than the limit.
SlotsOffByOne(a, m) == 1 + m - Cardinality(a)

Slots(a, m) == m - Cardinality(a)

\* Mutant: the latest entry first.
TakeLast(q, n) == IF n <= 0 THEN <<>> ELSE SubSeq(q, Len(q) - n + 1, Len(q))

TakeFirst(q, n) == SubSeq(q, 1, n)   \* empty when n <= 0

\* drainLane: the entries of queue q that start next to the active ones a.
Started(q, a, m) == IF Len(q) <= Slots(a, m) THEN q ELSE TakeFirst(q, Slots(a, m))

\* What lane.queue.shift() leaves behind.
Left(q, a, m) == SubSeq(q, Len(Started(q, a, m)) + 1, Len(q))

\* The pump of the given lanes, from the state the caller leaves behind: queues
\* q, active sets a, limits m, generations g, promises e and bodies b.
Pump(lanes, q, a, m, g, e, b) ==
  /\ active' = [l \in Lane |->
       IF l \in lanes THEN a[l] \cup ToSet(Started(q[l], a[l], m[l])) ELSE a[l]]
  /\ queue' = [l \in Lane |-> IF l \in lanes THEN Left(q[l], a[l], m[l]) ELSE q[l]]
  /\ entry' = [t \in Task |->
       IF e[t] = "queued" /\ t \in active'[laneOf(t)] THEN "started" ELSE e[t]]
  /\ body' = [t \in Task |->
       IF e[t] = "queued" /\ entry'[t] = "started" THEN "running" ELSE b[t]]
  /\ max' = m /\ gen' = g
  /\ tgen' = [t \in Task |->
       IF e[t] = "queued" /\ entry'[t] = "started" THEN gen'[laneOf(t)] ELSE tgen[t]]

\* Mutant: only the main lane is looked at.
PendingInMain(a) == a["main"] \cap captured # {}

hasPendingActiveTasks(a) == \E l \in Lane : a[l] \cap captured # {}

\* notifyActiveTaskWaiters
Notify(a) ==
  /\ wait' = IF wait = "waiting" /\ ~hasPendingActiveTasks(a) THEN "drained" ELSE wait
  /\ UNCHANGED <<draining, captured>>
-----------------------------------------------------------------------------
\* enqueueCommandInLane; while the gateway drains the promise is rejected.
Enqueue(t) ==
  LET l == laneOf(t)
  IN  /\ entry[t] = "new"
      /\ IF draining
         THEN /\ entry' = [entry EXCEPT ![t] = "settled"]
              /\ UNCHANGED <<queue, active, max, gen, body, tgen>>
         ELSE Pump({l}, [queue EXCEPT ![l] = Append(@, t)], active, max, gen,
                   [entry EXCEPT ![t] = "queued"], body)
      /\ UNCHANGED <<restartVars, released>>

EnqueueCommand(t) == t \notin Inner /\ Enqueue(t)

\* A running task enqueues the command it awaits.
EnqueueNested(t) == body[t] = "running" /\ Nested[t] # None /\ Enqueue(Nested[t])

\* completeTask, and for the current generation the waiters and the pump; then
\* the promise settles.
Complete(t, b) ==
  LET l == laneOf(t)
      a == IF tgen[t] = gen[l] THEN [active EXCEPT ![l] = @ \ {t}] ELSE active
  IN  IF tgen[t] = gen[l]
      THEN Pump({l}, queue, a, max, gen, [entry EXCEPT ![t] = "settled"], b) /\ Notify(a)
      ELSE /\ entry' = [entry EXCEPT ![t] = "settled"] /\ body' = b
           /\ UNCHANGED <<queue, active, max, gen, tgen, restartVars>>

\* The task returns or throws.
TaskEnds(t) ==
  /\ body[t] = "running" /\ t \notin Hangs
  /\ Nested[t] # None => entry[Nested[t]] = "settled"
  /\ LET b == [body EXCEPT ![t] = "off"]
     IN  IF entry[t] = "started" THEN Complete(t, b)
         ELSE /\ body' = b                           \* too late: timed out before
              /\ UNCHANGED <<queue, active, max, gen, entry, tgen, restartVars>>
  /\ UNCHANGED <<released>>

\* runQueueEntryTask: the timeout wins the race, the task goes on unobserved.
TaskTimesOut(t) ==
  /\ t \in HasTimeout /\ entry[t] = "started"
  /\ Complete(t, body)
  /\ UNCHANGED <<released>>

\* Mutant: a larger limit is only noticed by the next completion.
ConcurrencyWithoutPump(c, n) ==
  /\ max' = [max EXCEPT !["cron"] = c, !["cron-nested"] = c, !["main"] = n]
  /\ UNCHANGED <<queue, active, gen, entry, body, tgen, restartVars, released>>

\* setCommandLaneConcurrency for each global lane when the gateway starts and
\* when its configuration is reloaded (the subagent lane is like main).
applyGatewayLaneConcurrency(c, n) ==
  /\ Pump(Global, queue, active,
          [max EXCEPT !["cron"] = c, !["cron-nested"] = c, !["main"] = n], gen, entry, body)
  /\ UNCHANGED <<restartVars, released>>

\* Mutant: a cleared promise gets a state nobody settles.
ClearLeavesPromise(l) ==
  /\ l \in Session /\ queue[l] # <<>>
  /\ entry' = [t \in Task |-> IF t \in ToSet(queue[l]) THEN "cleared" ELSE entry[t]]
  /\ queue' = [queue EXCEPT ![l] = <<>>]
  /\ UNCHANGED <<active, max, gen, body, tgen, restartVars, released>>

\* Called for a session's lane when its pending messages are dropped.
clearCommandLane(l) ==
  /\ l \in Session /\ queue[l] # <<>>
  /\ entry' = [t \in Task |-> IF t \in ToSet(queue[l]) THEN "settled" ELSE entry[t]]
  /\ queue' = [queue EXCEPT ![l] = <<>>]
  /\ UNCHANGED <<active, max, gen, body, tgen, restartVars, released>>

\* resetCommandLane for one lane, resetAllLanes for all of them.
Reset(lanes) ==
  LET a == [l \in Lane |-> IF l \in lanes THEN {} ELSE active[l]]
  IN  /\ Pump(lanes, queue, a, max, [l \in Lane |-> IF l \in lanes THEN gen[l] + 1 ELSE gen[l]],
              entry, body)
      /\ released' = released \cup UNION {active[l] : l \in lanes}

\* Stuck-session recovery.
resetCommandLane(l) ==
  /\ l \in Session /\ gen[l] < MaxResets
  /\ Reset({l})
  /\ Notify([active EXCEPT ![l] = {}])

\* The run loop: refuse new commands and wait for the active ones, unless
\* there are none or the restart is forced.
RestartBegins ==
  /\ wait = "no" /\ \A l \in Lane : gen[l] < MaxResets
  /\ draining' = TRUE
  /\ captured' = UNION {active[l] : l \in Lane}
  /\ wait' \in IF captured' = {} THEN {"drained"} ELSE {"waiting", "timeout"}
  /\ UNCHANGED <<queue, active, max, gen, entry, body, tgen, released>>

DrainTimesOut ==
  /\ wait = "waiting"
  /\ wait' = "timeout"
  /\ UNCHANGED <<queue, active, max, gen, entry, body, tgen, draining, captured, released>>

\* The next iteration of the loop: resetAllLanes.
RestartEnds ==
  /\ wait \in {"drained", "timeout"}
  /\ Reset(Lane)
  /\ draining' = FALSE /\ wait' = "no" /\ captured' = {}
-----------------------------------------------------------------------------
TaskStep(t) == EnqueueNested(t) \/ TaskEnds(t) \/ TaskTimesOut(t)

Next ==
  \/ \E t \in Task : EnqueueCommand(t) \/ TaskStep(t)
  \/ \E l \in Lane : clearCommandLane(l) \/ resetCommandLane(l)
  \/ \E c \in CronSizes, n \in MainSizes : applyGatewayLaneConcurrency(c, n)
  \/ RestartBegins \/ DrainTimesOut \/ RestartEnds

Spec == Init /\ [][Next]_vars

\* Timers fire and tasks that can return do; nobody has to clear, reset,
\* reconfigure or restart.
Fairness == \A t \in Task : WF_vars(TaskStep(t))

FairSpec == Spec /\ Fairness
-----------------------------------------------------------------------------
(* Properties *)

\* The values each variable takes.
TypeOK ==
  /\ queue \in [Lane -> Seq(Task)]
  /\ active \in [Lane -> SUBSET Task]
  /\ max \in [Lane -> Nat \ {0}]
  /\ gen \in [Lane -> Nat]
  /\ entry \in [Task -> {"new", "queued", "started", "settled"}]
  /\ body \in [Task -> {"off", "running"}]
  /\ tgen \in [Task -> Nat]
  /\ draining \in BOOLEAN
  /\ wait \in {"no", "waiting", "drained", "timeout"}
  /\ captured \subseteq Task /\ released \subseteq Task

\* The tasks of a lane whose caller still waits, of the current generation.
Current(l) ==
  {t \in Task : laneOf(t) = l /\ entry[t] = "started" /\ body[t] = "running" /\ tgen[t] = gen[l]}

\* A lane with entries waiting has no free slot, after completions, timeouts,
\* resets and changes of the limit alike: nothing would pump it later.
NoIdleSlot == \A l \in Lane : queue[l] # <<>> => Cardinality(Current(l)) >= max[l]

\* No step starts a task in a lane that is full: what runs beyond the limit is
\* a task that timed out, was released by a reset, or was there before the
\* limit was lowered.
StartsWithinLimit ==
  [][\A l \in Lane :
       ~(Current(l)' \subseteq Current(l)) => Cardinality(Current(l)') <= max'[l]]_vars

\* "runs tasks one at a time in order": a step that starts u and leaves t
\* waiting in the same lane finds u ahead of t in the queue, be it a step of
\* either of them, of the tasks before them, a reset or a reconfiguration.
Ahead(u, t) ==
  \E i, j \in 1..Len(queue[laneOf(t)]) :
    i < j /\ queue[laneOf(t)][i] = u /\ queue[laneOf(t)][j] = t

FirstComeFirstServed ==
  [][\A t, u \in Task :
       /\ laneOf(t) = laneOf(u)
       /\ entry[t] = "queued" /\ entry'[t] = "queued"
       /\ entry[u] # "started" /\ entry'[u] = "started"
       => Ahead(u, t)]_vars

\* The restart is told that the active work is drained only when every task it
\* captured has settled or had its lane reset.
DrainedMeansSettled ==
  wait = "drained" => \A t \in captured : entry[t] = "settled" \/ t \in released

\* "the lane is released so queued work is not blocked forever": every accepted
\* command settles, even behind a task that hangs but has a timeout, and even
\* when it awaits work of another lane.
EveryCommandSettles ==
  \A t \in Task : entry[t] \in {"queued", "started"} ~> entry[t] = "settled"
=============================================================================
