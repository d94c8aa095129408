---------------------------- MODULE GoalLoopProofs ----------------------------
(***************************************************************************)
(* Theorems about the record of a project and its writers, for any number  *)
(* of overlapping idle handlers and operator requests, any caps and any    *)
(* number of failures, archives and crashes.                               *)
(***************************************************************************)
EXTENDS GoalLoop, FiniteSetTheorems, TLAPS

\* Writer w has loaded the record and will save it.
UnderWay(w) == pc[w] # "idle"

\* The count of record r is at most n; the record of a project that is still
\* active has not passed the project's own cap.
Within(r, n) == r.count <= n /\ (r.status = "active" => r.count <= MaxCount)

\* Why the counters stay within their caps: an iteration that goes beyond the
\* cap leaves the project inactive, after which only requests go on, one event
\* each; nobody but the worker closes a batch, and it has one open.
CapInv ==
  /\ Within(proj, MaxCount + 1 + events)
  /\ \A p \in Pickup : Within(snap[p], MaxCount + 1 + events)
  /\ \A h \in Http : Within(snap[h], MaxCount + (IF UnderWay(h) THEN events ELSE 0))
  /\ \A w \in {"loop", "worker"} : snap[w].status = "active" /\ snap[w].count <= MaxCount
  /\ \A h \in Mission : pc[h] = "planning" => snap[h].count < MaxCount
  /\ UnderWay("worker") => open > 0

\* Whoever is under way while the project is archived was so when it was
\* archived, or is a request.
ArchiveInv == proj.status = "archived" => \A w \in Writer : UnderWay(w) => w \in inflight \cup Http

\* The kinds of writers are distinct.
LEMMA Kinds ==
  /\ "worker" \in Writer /\ Mission \subseteq Writer /\ Pickup \subseteq Writer /\ "loop" \in Mission
  /\ Pickup \cap Mission = {} /\ Mission = {"loop"} \cup Http
  /\ "worker" \notin Pickup \cup Mission /\ "loop" \notin Pickup \cup Http
  /\ MaxCount \in Nat /\ MaxIterations \in Nat /\ MaxEvents \in Nat
  BY GoalLoopAssumption DEF Writer, Mission

\* The record of a new project is one.
LEMMA NewTyped == New \in Record /\ New.status = "active" /\ New.iter = 0 /\ New.count = 0
  BY GoalLoopAssumption DEF New, Record
-----------------------------------------------------------------------------
(* Types and caps *)

\* The history keeps its types whatever the step does.
LEMMA HistoryTyped ==
  ASSUME TypeOK, History, open' \in Nat
  PROVE  fromIdle' \in 0..open' /\ inflight' \subseteq Writer
<1>1. open \in Nat /\ fromIdle \in 0..open
    BY DEF TypeOK
<1>2. fromIdle' \in 0..open'
    BY <1>1 DEF History
<1>3. inflight' \subseteq Writer
    BY DEF TypeOK, History
<1>4. QED
    BY <1>2, <1>3

\* A writer that saves record r, or leaves the record alone, and is done.
LEMMA EndsTyped ==
  ASSUME TypeOK, NEW w \in Writer, Ends(w)
  PROVE  /\ pc' \in [Writer -> {"idle", "loading", "evaluating", "planning", "working"}]
         /\ snap' \in [Writer -> Record]
         /\ pc'[w] = "idle" /\ snap'[w] = New
         /\ \A v \in Writer \ {w} : pc'[v] = pc[v] /\ snap'[v] = snap[v]
  BY NewTyped DEF TypeOK, Ends

\* A record whose status or counter is set is the record with these values.
LEMMA Changed ==
  ASSUME NEW r \in Record, NEW v
  PROVE  /\ [r EXCEPT !.status = v] = [status |-> v, iter |-> r.iter, count |-> r.count]
         /\ [r EXCEPT !.iter = v] = [status |-> r.status, iter |-> v, count |-> r.count]
         /\ [r EXCEPT !.status = v, !.count = @ + 1] = [status |-> v, iter |-> r.iter, count |-> r.count + 1]
<1>1. r = [status |-> r.status, iter |-> r.iter, count |-> r.count]
    BY DEF Record
<1>2. [r EXCEPT !.status = v] = [status |-> v, iter |-> r.iter, count |-> r.count]
    BY <1>1
<1>3. [r EXCEPT !.iter = v] = [status |-> r.status, iter |-> v, count |-> r.count]
    BY <1>1
<1>4. [r EXCEPT !.status = v, !.count = @ + 1] = [status |-> v, iter |-> r.iter, count |-> r.count + 1]
    <2>1. [r EXCEPT !.status = v, !.count = @ + 1] = [[r EXCEPT !.status = v] EXCEPT !.count = r.count + 1]
        OBVIOUS
    <2>2. [[status |-> v, iter |-> r.iter, count |-> r.count] EXCEPT !.count = r.count + 1]
            = [status |-> v, iter |-> r.iter, count |-> r.count + 1]
        OBVIOUS
    <2>3. QED
        BY <1>2, <2>1, <2>2
<1>5. QED
    BY <1>2, <1>3, <1>4

\* An iteration counts once in the record it saves.
LEMMA CountedTyped ==
  ASSUME TypeOK, CapInv, NEW h \in Mission, UnderWay(h),
         NEW status \in {"active", "achieved", "needs-input", "archived"},
         status = "active" => snap[h].count < MaxCount
  PROVE  /\ Counted(h, status) \in Record
         /\ Counted(h, status).status = status
         /\ Counted(h, status).iter = snap[h].iter
         /\ Counted(h, status).count = snap[h].count + 1
         /\ Within(Counted(h, status), MaxCount + 1 + events)
<1>1. snap[h] \in Record /\ events \in 0..MaxEvents /\ MaxCount \in Nat /\ MaxEvents \in Nat
    BY Kinds DEF TypeOK
<1>2. snap[h].count \in Nat /\ snap[h].iter \in 0..MaxIterations
    BY <1>1 DEF Record
<1>3. snap[h].count <= MaxCount + events
    <2>1. CASE h = "loop"
        BY <2>1, <1>1, <1>2 DEF CapInv
    <2>2. CASE h \in Http
        BY <2>2, <1>1, <1>2 DEF CapInv, Within
    <2>3. QED
        BY <2>1, <2>2, Kinds
<1>4. Counted(h, status) = [status |-> status, iter |-> snap[h].iter, count |-> snap[h].count + 1]
    BY <1>1, Changed DEF Counted
<1>5. snap[h].count + 1 \in 0..(MaxCount + 1 + MaxEvents)
    BY <1>1, <1>2, <1>3
<1>6. QED
    BY <1>1, <1>2, <1>3, <1>4, <1>5 DEF Record, Within
-----------------------------------------------------------------------------
(* What the steps do *)

\* A new value of the counter of events.
Counts == events' \in {events, events + 1} /\ events' <= MaxEvents

\* w is done: it has saved its record, or given up.
Finishes(w) ==
  /\ UnderWay(w) /\ Ends(w)
  /\ open' \in Nat /\ (open' >= open \/ w = "worker")
  /\ planned' \in BOOLEAN /\ replan' = replan /\ Counts
  /\ proj' \in Record /\ Within(proj', MaxCount + 1 + events')

\* What the steps of a writer that does not save have in common.
Moves(w, p, r) ==
  /\ pc' = [pc EXCEPT ![w] = p] /\ snap' = [snap EXCEPT ![w] = r]
  /\ UNCHANGED <<proj, open, planned>>
  /\ replan' \in [Mission -> BOOLEAN] /\ Counts

\* w loads an active project, or any on request.
Loads(w) ==
  /\ ~UnderWay(w)
  /\ \E p \in {"loading", "evaluating", "working"} : Moves(w, p, proj)
  /\ (w \in Http /\ events' = events + 1) \/ (w \notin Http /\ proj.status = "active")
  /\ w = "worker" => open > 0
  /\ w \in Pickup => open = 0

\* w plans next, or lists the tasks first; the idle handler loads again.
Continues(w) ==
  /\ UnderWay(w)
  /\ \/ w \in Mission /\ \E p \in {"evaluating", "planning"} :
           Moves(w, p, snap[w]) /\ (p = "planning" => snap[w].count < MaxCount)
     \/ /\ w \in Pickup /\ pc[w] = "evaluating" /\ snap[w].iter < MaxIterations
        /\ Moves(w, "planning", [proj EXCEPT !.iter = snap[w].iter + 1])

\* The operator adds tasks or archives the project.
Operates ==
  /\ UNCHANGED <<pc, snap, replan>>
  /\ events' = events + 1 /\ Counts
  /\ open' \in Nat /\ open' >= open /\ planned' \in BOOLEAN
  /\ \/ proj' = proj
     \/ proj' = [proj EXCEPT !.status = "archived"] /\ open' = open

Effect ==
  \/ \E w \in Writer : Finishes(w) \/ Loads(w) \/ Continues(w)
  \/ Operates
  \/ Crash

\* An event that is counted stays within the bound.
LEMMA EventCounts ==
  ASSUME TypeOK
  PROVE  /\ Event => events' = events + 1 /\ Counts
         /\ UNCHANGED events => Counts
  BY Kinds DEF TypeOK, Event, Counts

\* Adding batches, or none.
LEMMA OpensTyped ==
  ASSUME open \in Nat, NEW n \in 0..1, Opens(n)
  PROVE  open' \in Nat /\ open' >= open /\ planned' \in BOOLEAN
<1>1. open' \in Nat /\ open' >= open
    BY DEF Opens
<1>2. planned' \in BOOLEAN
    BY DEF Opens
<1>3. QED
    BY <1>1, <1>2

\* The idle handler loads, evaluates, plans and saves.
LEMMA PickupEffect ==
  ASSUME TypeOK, CapInv, NEW p \in Pickup,
         OnProjectIdle(p) \/ HandlerEvaluated(p) \/ HandlerPlanned(p)
  PROVE  Finishes(p) \/ Loads(p) \/ Continues(p)
<1>1. p \in Writer /\ p \notin Http /\ p # "worker" /\ p \notin Mission /\ MaxCount \in Nat /\ MaxIterations \in Nat
    BY Kinds
<1>2. snap[p] \in Record /\ proj \in Record /\ open \in Nat /\ planned \in BOOLEAN
      /\ replan \in [Mission -> BOOLEAN] /\ events \in Nat /\ events <= MaxEvents
    BY <1>1, Kinds DEF TypeOK
<1>3. Within(snap[p], MaxCount + 1 + events) /\ Within(proj, MaxCount + 1 + events)
    BY DEF CapInv
<1>4. CASE OnProjectIdle(p)
    BY <1>1, <1>2, <1>4, EventCounts DEF OnProjectIdle, isProjectIdle, Loads, Moves, UnderWay
<1>5. ASSUME NEW r \in Record, Within(r, MaxCount + 1 + events), proj' = proj \/ proj' = r, Counts
      PROVE  proj' \in Record /\ Within(proj', MaxCount + 1 + events')
    BY <1>1, <1>2, <1>3, <1>5 DEF Within, Counts, Record
<1>6. ASSUME NEW v \in {"achieved", "needs-input"}
      PROVE  LET r == [snap[p] EXCEPT !.status = v]
             IN  r \in Record /\ Within(r, MaxCount + 1 + events) /\ r.iter = snap[p].iter /\ r.count = snap[p].count
    BY <1>1, <1>2, <1>3, <1>6, Changed DEF Record, Within
<1>7. CASE HandlerEvaluated(p)
    <2>1. CASE \E v \in {"achieved", "needs-input"} : proj' = [snap[p] EXCEPT !.status = v] /\ Ends(p)
        <3>1. Counts /\ UNCHANGED <<open, planned, replan>> /\ UnderWay(p)
            BY <1>7, <2>1, EventCounts DEF HandlerEvaluated, UnderWay
        <3>2. PICK v \in {"achieved", "needs-input"} : proj' = [snap[p] EXCEPT !.status = v] /\ Ends(p)
            BY <2>1
        <3>3. proj' \in Record /\ Within(proj', MaxCount + 1 + events')
              /\ proj'.iter = snap[p].iter /\ proj'.count = snap[p].count
            BY <3>1, <3>2, <1>5, <1>6
        <3>4. QED
            BY <1>2, <3>1, <3>2, <3>3 DEF Finishes
    <2>2. CASE "needs-more" \in Verdicts(snap[p]) /\ NeedsMore(p) /\ UNCHANGED events
        <3>1. snap[p].iter < MaxIterations
            BY <1>1, <1>2, <2>2 DEF Verdicts, Record
        <3>2. QED
            BY <1>2, <1>7, <2>2, <3>1, EventCounts DEF NeedsMore, HandlerEvaluated, Continues, Moves, UnderWay
    <2>3. CASE Event /\ Ends(p) /\ UNCHANGED proj
        BY <1>2, <1>3, <1>5, <1>7, <2>3, EventCounts DEF HandlerEvaluated, Finishes, UnderWay
    <2>4. QED
        BY <1>7, <2>1, <2>2, <2>3 DEF HandlerEvaluated
<1>8. CASE HandlerPlanned(p)
    <2>1. UnderWay(p) /\ pc[p] = "planning" /\ Ends(p) /\ replan' = replan /\ Counts
        BY <1>8, EventCounts DEF HandlerPlanned, UnderWay
    <2>2. open' \in Nat /\ open' >= open /\ planned' \in BOOLEAN
        <3>1. (\E n \in 0..1 : Opens(n)) \/ UNCHANGED <<open, planned>>
            BY <1>8 DEF HandlerPlanned
        <3>2. QED
            BY <1>2, <3>1, OpensTyped
    <2>3. proj' \in Record /\ Within(proj', MaxCount + 1 + events')
        BY <1>3, <1>2, <1>5, <1>6, <1>8, <2>1 DEF HandlerPlanned, EmptyPlan
    <2>4. proj' # proj => proj'.iter = snap[p].iter /\ proj'.count = snap[p].count
        BY <1>6, <1>8 DEF HandlerPlanned, EmptyPlan
    <2>5. QED
        BY <2>1, <2>2, <2>3, <2>4 DEF Finishes
<1>9. QED
    BY <1>4, <1>7, <1>8

\* The goal loop and the requests evaluate and plan; their iteration counts.
LEMMA MissionEffect ==
  ASSUME TypeOK, CapInv, NEW h \in Mission,
         (h = "loop" /\ TickGoalLoop) \/ (h \in Http /\ (HttpLoads(h) \/ HttpLists(h)))
           \/ IterationEvaluated(h) \/ IterationPlanned(h)
  PROVE  Finishes(h) \/ Loads(h) \/ Continues(h)
<1>1. h \in Writer /\ h # "worker" /\ h \notin Pickup /\ MaxCount \in Nat /\ ("loop" \notin Http)
    BY Kinds
<1>2. snap[h] \in Record /\ proj \in Record /\ open \in Nat /\ planned \in BOOLEAN
      /\ replan \in [Mission -> BOOLEAN] /\ events \in Nat /\ events <= MaxEvents
    BY <1>1, Kinds DEF TypeOK
<1>3. Within(proj, MaxCount + 1 + events)
    BY DEF CapInv
<1>4. CASE h = "loop" /\ TickGoalLoop
    <2>1. replan' \in [Mission -> BOOLEAN]
        BY <1>2, <1>4 DEF TickGoalLoop
    <2>2. QED
        BY <1>1, <1>2, <1>4, <2>1, EventCounts DEF TickGoalLoop, Loads, Moves, UnderWay
<1>5. CASE h \in Http /\ HttpLoads(h)
    BY <1>1, <1>2, <1>5, EventCounts DEF HttpLoads, Loads, Moves, UnderWay
<1>6. CASE h \in Http /\ HttpLists(h)
    <2>1. replan' \in [Mission -> BOOLEAN]
        BY <1>2, <1>6 DEF HttpLists
    <2>2. snap' = [snap EXCEPT ![h] = snap[h]]
        BY <1>1, <1>6 DEF HttpLists, TypeOK
    <2>3. Moves(h, "evaluating", snap[h]) /\ UnderWay(h)
        BY <1>6, <2>1, <2>2, EventCounts DEF HttpLists, Moves, UnderWay
    <2>4. QED
        BY <2>3 DEF Continues
<1>7. ASSUME NEW status \in {"active", "achieved", "needs-input", "archived"},
             status = "active" => snap[h].count < MaxCount,
             proj' = Counted(h, status), Ends(h), UnderWay(h),
             open' \in Nat, open' >= open, planned' \in BOOLEAN, replan' = replan, UNCHANGED events
      PROVE  Finishes(h)
    <2>1. /\ proj' \in Record /\ Within(proj', MaxCount + 1 + events')
          /\ proj'.iter = snap[h].iter /\ proj'.count = snap[h].count + 1
        BY <1>7, CountedTyped
    <2>2. Counts
        BY <1>7, EventCounts
    <2>3. QED
        BY <1>1, <1>7, <2>1, <2>2 DEF Finishes
<1>8. snap[h].status \in {"active", "achieved", "needs-input", "archived"} /\ snap[h].count \in Nat
    BY <1>2 DEF Record
<1>9. CASE IterationEvaluated(h)
    <2>1. UnderWay(h) /\ open' \in Nat /\ open' >= open /\ planned' \in BOOLEAN /\ replan' = replan
          /\ UNCHANGED <<open, planned, replan>>
        BY <1>2, <1>9 DEF IterationEvaluated, UnderWay
    <2>2. CASE UNCHANGED events /\ Ends(h) /\ \E status \in {"achieved", "needs-input"} : proj' = Counted(h, status)
        BY <1>7, <2>1, <2>2
    <2>3. CASE snap[h].count < MaxCount /\ proj' = Counted(h, snap[h].status) /\ Ends(h) /\ UNCHANGED events
        BY <1>7, <1>8, <2>1, <2>3
    <2>4. CASE snap[h].count < MaxCount /\ pc' = [pc EXCEPT ![h] = "planning"] /\ UNCHANGED <<proj, snap, events>>
        <3>1. snap' = [snap EXCEPT ![h] = snap[h]]
            BY <1>1, <2>4 DEF TypeOK
        <3>2. Moves(h, "planning", snap[h])
            BY <1>2, <2>1, <2>4, <3>1, EventCounts DEF Moves
        <3>3. QED
            BY <2>1, <2>4, <3>2 DEF Continues
    <2>5. CASE Event /\ Ends(h) /\ UNCHANGED proj
        <3>1. Counts /\ Within(proj, MaxCount + 1 + events')
            BY <1>1, <1>2, <1>3, <2>5, EventCounts DEF Counts, Within, Record
        <3>2. QED
            BY <1>2, <2>1, <2>5, <3>1 DEF Finishes
    <2>6. QED
        BY <1>9, <2>2, <2>3, <2>4, <2>5 DEF IterationEvaluated
<1>10. CASE IterationPlanned(h)
    <2>1. open' \in Nat /\ open' >= open /\ planned' \in BOOLEAN
        BY <1>2, <1>10, OpensTyped DEF IterationPlanned
    <2>2. snap[h].count < MaxCount
        BY <1>10 DEF IterationPlanned, CapInv
    <2>3. QED
        BY <1>7, <1>8, <1>10, <2>1, <2>2 DEF IterationPlanned, UnderWay
<1>11. QED
    BY <1>4, <1>5, <1>6, <1>9, <1>10

\* A worker is handed the project, and may save it when it is done.
LEMMA WorkerEffect ==
  ASSUME TypeOK, CapInv, WorkerStarts \/ WorkerEnds
  PROVE  Finishes("worker") \/ Loads("worker")
<1> DEFINE w == "worker"
<1>1. w \in Writer /\ w \notin Pickup /\ w \notin Http /\ MaxCount \in Nat
    BY Kinds
<1>2. snap[w] \in Record /\ proj \in Record /\ open \in Nat /\ planned \in BOOLEAN
      /\ replan \in [Mission -> BOOLEAN] /\ events \in Nat /\ events <= MaxEvents
    BY <1>1, Kinds DEF TypeOK
<1>3. CASE WorkerStarts
    BY <1>1, <1>2, <1>3, EventCounts DEF WorkerStarts, Loads, Moves, UnderWay
<1>4. CASE WorkerEnds
    <2>1. UnderWay(w) /\ Ends(w) /\ open > 0 /\ open' = open - 1
          /\ UNCHANGED <<planned, replan, events>> /\ Counts
        BY <1>4, EventCounts DEF WorkerEnds, UnderWay, CapInv
    <2>2. Within(proj, MaxCount + 1 + events)
        BY DEF CapInv
    <2>3. CASE UNCHANGED proj
        BY <1>1, <1>2, <2>1, <2>2, <2>3 DEF Finishes
    <2>4. CASE proj' = [snap[w] EXCEPT !.status = "needs-input"]
        <3>1. /\ proj' \in Record /\ proj'.status = "needs-input"
              /\ proj'.iter = snap[w].iter /\ proj'.count = snap[w].count
            BY <1>2, <2>4, Changed DEF Record
        <3>2. snap[w].count <= MaxCount /\ snap[w].count \in Nat
            BY <1>2 DEF CapInv, Record
        <3>3. Within(proj', MaxCount + 1 + events')
            BY <1>1, <1>2, <2>1, <3>1, <3>2 DEF Within
        <3>4. ~(open' > open)
            BY <1>2, <2>1
        <3>5. QED
            BY <1>2, <2>1, <3>1, <3>3, <3>4 DEF Finishes
    <2>5. QED
        BY <1>4, <2>3, <2>4 DEF WorkerEnds
<1>5. QED
    BY <1>3, <1>4

\* The operator's requests.
LEMMA OperatorEffect ==
  ASSUME TypeOK, CapInv, OperatorPlans \/ handleArchiveProject
  PROVE  Operates
<1>1. open \in Nat /\ planned \in BOOLEAN
    BY DEF TypeOK
<1>2. CASE OperatorPlans
    BY <1>1, <1>2, EventCounts, OpensTyped DEF OperatorPlans, Operates
<1>3. CASE handleArchiveProject
    BY <1>1, <1>3, EventCounts DEF handleArchiveProject, Operates
<1>4. QED
    BY <1>2, <1>3

\* Every step is of one of these kinds.
LEMMA StepEffect ==
  ASSUME TypeOK, CapInv, Next
  PROVE  Effect /\ History
<1>1. History
    BY DEF Next
<1>2. ASSUME NEW w \in Writer, Step(w)
      PROVE  Finishes(w) \/ Loads(w) \/ Continues(w)
    BY <1>2, Kinds, PickupEffect, MissionEffect, WorkerEffect DEF Step
<1>3. CASE TickGoalLoop
    BY <1>1, <1>3, Kinds, MissionEffect DEF Effect
<1>4. ASSUME NEW h \in Http, HttpLoads(h)
      PROVE  Effect
    BY <1>4, Kinds, MissionEffect DEF Effect
<1>5. CASE OperatorPlans \/ handleArchiveProject
    BY <1>1, <1>5, OperatorEffect DEF Effect
<1>6. CASE \E w \in Writer : Step(w)
    BY <1>1, <1>2, <1>6 DEF Effect
<1>7. CASE Crash
    BY <1>1, <1>7 DEF Effect
<1>8. QED
    BY <1>1, <1>3, <1>4, <1>5, <1>6, <1>7 DEF Next

\* The types and the caps are kept.
LEMMA CapStep ==
  ASSUME TypeOK, CapInv, [Next]_vars
  PROVE  TypeOK' /\ CapInv'
<1>1. CASE UNCHANGED vars
    <2>1. TypeOK'
        BY <1>1 DEF vars, TypeOK
    <2>2. CapInv'
        BY <1>1 DEF vars, CapInv, UnderWay
    <2>3. QED
        BY <2>1, <2>2
<1>2. /\ proj \in Record /\ open \in Nat /\ planned \in BOOLEAN
      /\ pc \in [Writer -> {"idle", "loading", "evaluating", "planning", "working"}]
      /\ snap \in [Writer -> Record] /\ replan \in [Mission -> BOOLEAN]
      /\ events \in Nat /\ events <= MaxEvents
    BY Kinds DEF TypeOK
<1>3. /\ "worker" \in Writer /\ Mission \subseteq Writer /\ Pickup \subseteq Writer /\ Http \subseteq Mission
      /\ Pickup \cap Mission = {} /\ Mission = {"loop"} \cup Http /\ "worker" \notin Pickup \cup Mission
      /\ "loop" \notin Pickup \cup Http /\ MaxCount \in Nat /\ MaxIterations \in Nat /\ MaxEvents \in Nat
    BY Kinds
<1>4. \A w \in Writer : snap[w].count \in Nat /\ snap[w].iter \in 0..MaxIterations
    BY <1>2 DEF Record
<1>5. proj.count \in Nat
    BY <1>2 DEF Record
\* Records that nobody changes stay within the caps.
<1>6. ASSUME Counts
      PROVE  /\ events' \in 0..MaxEvents /\ events <= events'
             /\ \A p \in Pickup : Within(snap[p], MaxCount + 1 + events')
             /\ \A h \in Http : Within(snap[h], MaxCount + (IF UnderWay(h) THEN events' ELSE 0))
             /\ Within(proj, MaxCount + 1 + events')
    <2>1. events' \in 0..MaxEvents /\ events <= events' /\ events' \in Nat
        BY <1>2, <1>6 DEF Counts
    <2>2. \A p \in Pickup : Within(snap[p], MaxCount + 1 + events')
        BY <1>2, <1>3, <1>4, <2>1 DEF CapInv, Within
    <2>3. \A h \in Http : Within(snap[h], MaxCount + (IF UnderWay(h) THEN events' ELSE 0))
        BY <1>2, <1>3, <1>4, <2>1 DEF CapInv, Within
    <2>4. Within(proj, MaxCount + 1 + events')
        BY <1>2, <1>3, <1>5, <2>1 DEF CapInv, Within
    <2>5. QED
        BY <2>1, <2>2, <2>3, <2>4
<1>7. ASSUME NEW w \in Writer, Finishes(w), History
      PROVE  TypeOK' /\ CapInv'
    <2>1. /\ pc' \in [Writer -> {"idle", "loading", "evaluating", "planning", "working"}]
          /\ snap' \in [Writer -> Record]
          /\ pc'[w] = "idle" /\ snap'[w] = New
          /\ \A v \in Writer \ {w} : pc'[v] = pc[v] /\ snap'[v] = snap[v]
        BY <1>7, EndsTyped DEF Finishes
    <2>2. Counts /\ proj' \in Record /\ Within(proj', MaxCount + 1 + events')
          /\ open' \in Nat /\ (open' >= open \/ w = "worker") /\ planned' \in BOOLEAN /\ replan' = replan
        BY <1>7 DEF Finishes
    <2>3. TypeOK'
        BY <1>2, <1>6, <1>7, <2>1, <2>2, HistoryTyped DEF TypeOK
    <2>4. CapInv'
        <3>1. \A p \in Pickup : Within(snap'[p], MaxCount + 1 + events')
            BY <1>2, <1>3, <1>6, <2>1, <2>2, NewTyped DEF Within, Counts
        <3>2. \A h \in Http : Within(snap'[h], MaxCount + (IF UnderWay(h)' THEN events' ELSE 0))
            BY <1>2, <1>3, <1>6, <2>1, <2>2, NewTyped DEF Within, UnderWay
        <3>3. \A v \in {"loop", "worker"} : snap'[v].status = "active" /\ snap'[v].count <= MaxCount
            BY <1>3, <2>1, NewTyped DEF CapInv
        <3>4. \A h \in Mission : pc'[h] = "planning" => snap'[h].count < MaxCount
            BY <1>3, <2>1 DEF CapInv
        <3>5. UnderWay("worker")' => open' > 0
            BY <1>2, <1>3, <2>1, <2>2 DEF CapInv, UnderWay
        <3>6. QED
            BY <2>2, <3>1, <3>2, <3>3, <3>4, <3>5 DEF CapInv
    <2>5. QED
        BY <2>3, <2>4
\* A writer that goes on has a record within the caps.
<1>8. ASSUME NEW w \in Writer, NEW p \in {"loading", "evaluating", "planning", "working"}, NEW r \in Record,
             Moves(w, p, r), History,
             w \in Pickup => Within(r, MaxCount + 1 + events'),
             w \in Http => Within(r, MaxCount + events'),
             w \in {"loop", "worker"} => r.status = "active" /\ r.count <= MaxCount,
             w \in Mission /\ p = "planning" => r.count < MaxCount,
             w = "worker" => open > 0
      PROVE  TypeOK' /\ CapInv'
    <2>1. /\ pc' \in [Writer -> {"idle", "loading", "evaluating", "planning", "working"}]
          /\ snap' \in [Writer -> Record]
          /\ pc'[w] = p /\ snap'[w] = r
          /\ \A v \in Writer \ {w} : pc'[v] = pc[v] /\ snap'[v] = snap[v]
        BY <1>2, <1>8 DEF Moves
    <2>2. Counts /\ UNCHANGED <<proj, open, planned>> /\ replan' \in [Mission -> BOOLEAN]
        BY <1>8 DEF Moves
    <2>3. TypeOK'
        BY <1>2, <1>6, <1>8, <2>1, <2>2, HistoryTyped DEF TypeOK
    <2>4. CapInv'
        <3>1. \A q \in Pickup : Within(snap'[q], MaxCount + 1 + events')
            BY <1>3, <1>6, <1>8, <2>1, <2>2
        <3>2. \A h \in Http : Within(snap'[h], MaxCount + (IF UnderWay(h)' THEN events' ELSE 0))
            BY <1>3, <1>6, <1>8, <2>1, <2>2 DEF UnderWay
        <3>3. \A v \in {"loop", "worker"} : snap'[v].status = "active" /\ snap'[v].count <= MaxCount
            BY <1>3, <1>8, <2>1 DEF CapInv
        <3>4. \A h \in Mission : pc'[h] = "planning" => snap'[h].count < MaxCount
            BY <1>3, <1>8, <2>1 DEF CapInv
        <3>5. UnderWay("worker")' => open' > 0
            BY <1>3, <1>8, <2>1, <2>2 DEF CapInv, UnderWay
        <3>6. QED
            BY <1>6, <2>2, <3>1, <3>2, <3>3, <3>4, <3>5 DEF CapInv
    <2>5. QED
        BY <2>3, <2>4
<1>9. ASSUME NEW w \in Writer, Loads(w), History
      PROVE  TypeOK' /\ CapInv'
    <2>1. PICK p \in {"loading", "evaluating", "working"} : Moves(w, p, proj)
        BY <1>9 DEF Loads
    <2>2. Counts /\ ((w \in Http /\ events' = events + 1) \/ (w \notin Http /\ proj.status = "active"))
          /\ (w = "worker" => open > 0)
        BY <1>9, <2>1 DEF Loads, Moves
    <2>3. w \in Http => Within(proj, MaxCount + events')
        BY <1>2, <1>3, <1>5, <2>2 DEF CapInv, Within
    <2>4. w \in {"loop", "worker"} => proj.status = "active" /\ proj.count <= MaxCount
        BY <1>3, <2>2 DEF CapInv, Within
    <2>5. QED
        BY <1>2, <1>6, <1>8, <1>9, <2>1, <2>2, <2>3, <2>4
<1>10. ASSUME NEW w \in Writer, Continues(w), History
      PROVE  TypeOK' /\ CapInv'
    <2>1. CASE w \in Mission
        <3>1. PICK p \in {"evaluating", "planning"} : Moves(w, p, snap[w]) /\ (p = "planning" => snap[w].count < MaxCount)
            BY <1>3, <1>10, <2>1 DEF Continues
        <3>2. Counts /\ UnderWay(w) /\ snap[w] \in Record /\ w \notin Pickup /\ w # "worker"
            BY <1>2, <1>3, <1>10, <2>1, <3>1 DEF Continues, Moves
        <3>3. w \in Http => Within(snap[w], MaxCount + events')
            BY <1>6, <3>2
        <3>4. w \in {"loop", "worker"} => snap[w].status = "active" /\ snap[w].count <= MaxCount
            BY DEF CapInv
        <3>5. QED
            BY <1>8, <1>10, <3>1, <3>2, <3>3, <3>4
    <2>2. CASE w \in Pickup
        <3> DEFINE r == [proj EXCEPT !.iter = snap[w].iter + 1]
        <3>1. Moves(w, "planning", r) /\ Counts /\ snap[w].iter < MaxIterations
            BY <1>3, <1>10, <2>2 DEF Continues, Moves
        <3>2. r \in Record /\ r.status = proj.status /\ r.count = proj.count
            <4>1. r = [status |-> proj.status, iter |-> snap[w].iter + 1, count |-> proj.count]
                BY <1>2, Changed
            <4>2. snap[w].iter + 1 \in 0..MaxIterations
                BY <1>3, <1>4, <3>1
            <4>3. QED
                BY <1>2, <4>1, <4>2 DEF Record
        <3>3. Within(r, MaxCount + 1 + events')
            BY <1>6, <3>1, <3>2 DEF Within
        <3> HIDE DEF r
        <3>4. QED
            BY <1>3, <1>8, <1>10, <2>2, <3>1, <3>2, <3>3
    <2>3. QED
        BY <1>10, <2>1, <2>2 DEF Continues
<1>11. ASSUME Operates, History
       PROVE  TypeOK' /\ CapInv'
    <2>1. Counts /\ UNCHANGED <<pc, snap, replan>> /\ open' \in Nat /\ open' >= open /\ planned' \in BOOLEAN
        BY <1>11 DEF Operates
    <2>2. proj' \in Record /\ Within(proj', MaxCount + 1 + events')
        <3>1. CASE proj' = proj
            BY <1>2, <1>6, <2>1, <3>1
        <3>2. CASE proj' = [proj EXCEPT !.status = "archived"]
            <4>1. proj' \in Record /\ proj'.status = "archived" /\ proj'.count = proj.count
                BY <1>2, <3>2, Changed DEF Record
            <4>2. QED
                BY <1>6, <2>1, <4>1 DEF Within
        <3>3. QED
            BY <1>11, <3>1, <3>2 DEF Operates
    <2>3. TypeOK'
        BY <1>2, <1>6, <1>11, <2>1, <2>2, HistoryTyped DEF TypeOK
    <2>4. CapInv'
        BY <1>2, <1>6, <2>1, <2>2 DEF CapInv, UnderWay
    <2>5. QED
        BY <2>3, <2>4
<1>12. ASSUME Crash, History
       PROVE  TypeOK' /\ CapInv'
    <2>1. Counts /\ UNCHANGED <<proj, open, planned, replan>>
          /\ pc' = [w \in Writer |-> "idle"] /\ snap' = [w \in Writer |-> New]
        BY <1>12, EventCounts DEF Crash
    <2>2. TypeOK'
        BY <1>2, <1>6, <1>12, <2>1, HistoryTyped, NewTyped DEF TypeOK
    <2>3. CapInv'
        <3>1. \A w \in Writer : pc'[w] = "idle" /\ snap'[w] = New
            BY <2>1
        <3>2. Within(New, MaxCount) /\ Within(New, MaxCount + 1 + events')
            BY <1>3, <1>6, <2>1, NewTyped DEF Within
        <3>3. QED
            BY <1>3, <1>6, <2>1, <3>1, <3>2, NewTyped DEF CapInv, UnderWay
    <2>4. QED
        BY <2>2, <2>3
<1>13. QED
    BY <1>1, <1>7, <1>9, <1>10, <1>11, <1>12, StepEffect DEF Effect
-----------------------------------------------------------------------------
(* The batches of idle handlers *)

\* A handler that loads finds nothing open, one that saves gives its place to
\* the batch it opens, and nobody else touches these numbers.
LEMMA IdleStep ==
  ASSUME TypeOK, CapInv, IdlePlansBounded, [Next]_vars
  PROVE  IdlePlansBounded'
<1> DEFINE S == {p \in Pickup : UnderWay(p)}
           T == {p \in Pickup : UnderWay(p)'}
           N == Cardinality(Pickup)
<1>1. CASE UNCHANGED vars
    BY <1>1 DEF vars, IdlePlansBounded
<1>2. SUFFICES ASSUME Effect, History
               PROVE  fromIdle' + Cardinality(T) <= N
    BY <1>1, StepEffect DEF IdlePlansBounded, UnderWay
<1>3. /\ IsFiniteSet(Pickup) /\ IsFiniteSet(S) /\ N \in Nat
      /\ Cardinality(S) \in Nat /\ Cardinality(T) \in Nat /\ Cardinality(T) <= N
    <2>1. IsFiniteSet(Pickup)
        BY GoalLoopAssumption
    <2>2. S \subseteq Pickup /\ T \subseteq Pickup
        OBVIOUS
    <2>3. IsFiniteSet(S) /\ IsFiniteSet(T) /\ Cardinality(T) <= N
        BY <2>1, <2>2, FS_Subset
    <2>4. QED
        BY <2>1, <2>3, FS_CardinalityType
<1>4. open \in Nat /\ fromIdle \in 0..open /\ pc \in [Writer -> {"idle", "loading", "evaluating", "planning", "working"}]
    BY DEF TypeOK
<1>5. fromIdle + Cardinality(S) <= N
    BY DEF IdlePlansBounded, UnderWay
<1>6. fromIdle' \in {fromIdle - 1, fromIdle, fromIdle + 1}
    BY <1>2, <1>4 DEF History
<1>7. ASSUME \A p \in Pickup : pc'[p] = pc[p]
      PROVE  fromIdle' + Cardinality(T) <= N
    <2>1. T = S
        BY <1>7 DEF UnderWay
    <2>2. ~\E p \in Pickup : pc[p] = "planning" /\ pc'[p] = "idle"
        BY <1>7
    <2>3. fromIdle' \in {fromIdle - 1, fromIdle}
        BY <1>2, <1>4, <2>2 DEF History
    <2> HIDE DEF S, T, N
    <2>4. QED
        BY <1>3, <1>4, <1>5, <2>1, <2>3
<1>8. ASSUME open' = open
      PROVE  fromIdle' = fromIdle
    BY <1>2, <1>4, <1>8 DEF History
<1>9. ASSUME NEW w \in Pickup, Finishes(w)
      PROVE  fromIdle' + Cardinality(T) <= N
    <2>1. UnderWay(w) /\ ~UnderWay(w)' /\ \A v \in Pickup \ {w} : pc'[v] = pc[v]
        BY <1>9, Kinds, EndsTyped DEF Finishes, UnderWay
    <2>2. T = S \ {w} /\ w \in S
        BY <2>1 DEF UnderWay
    <2>3. Cardinality(T) = Cardinality(S) - 1
        BY <1>3, <2>2, FS_RemoveElement
    <2> HIDE DEF S, T, N
    <2>4. QED
        BY <1>3, <1>4, <1>5, <1>6, <2>3
<1>10. ASSUME NEW w \in Pickup, Loads(w)
       PROVE  fromIdle' + Cardinality(T) <= N
    <2>1. open = 0 /\ open' = open
        BY <1>10 DEF Loads, Moves
    <2>2. fromIdle' = 0
        BY <1>4, <1>8, <2>1
    <2> HIDE DEF S, T, N
    <2>3. QED
        BY <1>3, <2>2
<1>11. ASSUME NEW w \in Pickup, Continues(w)
       PROVE  fromIdle' + Cardinality(T) <= N
    <2>1. open' = open
        BY <1>11 DEF Continues, Moves
    <2>2. UnderWay(w) /\ \A v \in Pickup \ {w} : pc'[v] = pc[v]
        BY <1>4, <1>11, Kinds DEF Continues, Moves
    <2>3. T \subseteq S
        BY <2>2 DEF UnderWay
    <2>4. Cardinality(T) <= Cardinality(S)
        BY <1>3, <2>3, FS_Subset
    <2> HIDE DEF S, T, N
    <2>5. QED
        BY <1>3, <1>4, <1>5, <1>8, <2>1, <2>4
<1>12. ASSUME NEW w \in Writer \ Pickup, Finishes(w) \/ Loads(w) \/ Continues(w)
       PROVE  fromIdle' + Cardinality(T) <= N
    <2>1. PICK q : pc' = [pc EXCEPT ![w] = q]
        BY <1>12 DEF Finishes, Ends, Loads, Continues, Moves
    <2>2. \A p \in Pickup : pc'[p] = pc[p]
        BY <1>4, <2>1, Kinds
    <2>3. QED
        BY <1>7, <2>2
<1>13. CASE Operates
    BY <1>7, <1>13 DEF Operates
<1>14. CASE Crash
    <2>1. open' = open /\ T = {}
        BY <1>14, Kinds DEF Crash, UnderWay
    <2>2. Cardinality(T) = 0
        BY <2>1, FS_EmptySet
    <2> HIDE DEF S, T, N
    <2>3. QED
        BY <1>3, <1>4, <1>5, <1>8, <2>1, <2>2
<1>15. QED
    BY <1>2, <1>9, <1>10, <1>11, <1>12, <1>13, <1>14 DEF Effect
-----------------------------------------------------------------------------
(* Archived projects *)

\* While the project is archived, nobody but a request gets under way.
LEMMA ArchiveStep ==
  ASSUME TypeOK, CapInv, ArchiveInv, [Next]_vars
  PROVE  ArchiveInv'
<1>1. CASE UNCHANGED vars
    BY <1>1 DEF vars, ArchiveInv, UnderWay
<1>2. SUFFICES ASSUME Effect, History, proj'.status = "archived",
                      NEW v \in Writer, UnderWay(v)', v \notin Http
               PROVE  v \in inflight'
    BY <1>1, StepEffect DEF ArchiveInv
<1>3. CASE proj.status # "archived"
    BY <1>2, <1>3 DEF History, UnderWay
<1>4. CASE proj.status = "archived"
    <2>1. UnderWay(v) => v \in inflight'
        BY <1>2, <1>4 DEF ArchiveInv, History, UnderWay
    <2>2. CASE Operates \/ Crash
        BY <1>2, <2>1, <2>2 DEF Operates, Crash, UnderWay
    <2>3. ASSUME NEW w \in Writer, Finishes(w) \/ Loads(w) \/ Continues(w)
          PROVE  UnderWay(v)
        <3>1. CASE v = w
            BY <1>2, <1>4, <2>3, <3>1 DEF Finishes, Loads, Continues
        <3>2. CASE v # w
            BY <1>2, <2>3, <3>2 DEF Finishes, Ends, Loads, Continues, Moves, TypeOK, UnderWay
        <3>3. QED
            BY <3>1, <3>2
    <2>4. QED
        BY <1>2, <2>1, <2>2, <2>3 DEF Effect
<1>5. QED
    BY <1>3, <1>4

\* Only a writer that is done takes a project out of the archive.
LEMMA UndoneStep ==
  ASSUME TypeOK, CapInv, ArchiveInv, Next, proj.status = "archived", proj'.status # "archived"
  PROVE  \E w \in inflight \cup Http : pc[w] # "idle" /\ pc'[w] = "idle"
<1>1. Effect /\ proj \in Record
    BY StepEffect DEF TypeOK
<1>2. ~Operates
    <2>1. [proj EXCEPT !.status = "archived"].status = "archived"
        BY <1>1, Changed
    <2>2. QED
        BY <2>1 DEF Operates
<1>3. PICK w \in Writer : Finishes(w)
    BY <1>1, <1>2 DEF Effect, Loads, Continues, Moves, Crash
<1>4. UnderWay(w) /\ pc'[w] = "idle"
    BY <1>3, EndsTyped DEF Finishes
<1>5. QED
    BY <1>4 DEF ArchiveInv, UnderWay
-----------------------------------------------------------------------------
(* The theorems *)

GoalInv == TypeOK /\ CapInv /\ IdlePlansBounded /\ ArchiveInv

\* A new project has no writers under way.
LEMMA GoalInit == Init => GoalInv
<1>1. SUFFICES ASSUME Init
               PROVE  GoalInv
    OBVIOUS
<1>2. /\ proj = New /\ \A w \in Writer : pc[w] = "idle" /\ snap[w] = New
      /\ New \in Record /\ New.status = "active" /\ New.iter = 0 /\ New.count = 0
    BY <1>1, NewTyped DEF Init
<1>3. TypeOK
    <2>1. pc \in [Writer -> {"idle", "loading", "evaluating", "planning", "working"}]
          /\ snap \in [Writer -> Record] /\ replan \in [Mission -> BOOLEAN]
        BY <1>1, <1>2 DEF Init
    <2>2. open \in Nat /\ events \in 0..MaxEvents /\ fromIdle \in 0..open
        BY <1>1, Kinds DEF Init
    <2>3. planned \in BOOLEAN /\ inflight \subseteq Writer
        BY <1>1 DEF Init
    <2>4. QED
        BY <1>2, <2>1, <2>2, <2>3 DEF TypeOK
<1>4. CapInv
    <2>1. Within(New, MaxCount) /\ Within(New, MaxCount + 0) /\ Within(New, MaxCount + 1 + events)
        BY <1>1, <1>2, Kinds DEF Init, Within
    <2>2. /\ \A p \in Pickup : snap[p] = New
          /\ \A h \in Http : snap[h] = New /\ ~UnderWay(h)
          /\ \A w \in {"loop", "worker"} : snap[w] = New /\ ~UnderWay(w)
          /\ \A h \in Mission : pc[h] = "idle"
        BY <1>2, Kinds DEF UnderWay
    <2>3. \A h \in Http : Within(snap[h], MaxCount + (IF UnderWay(h) THEN events ELSE 0))
        BY <2>1, <2>2
    <2>4. New.count <= MaxCount
        BY <1>2, Kinds
    <2>5. QED
        BY <1>2, <2>1, <2>2, <2>3, <2>4 DEF CapInv
<1>5. IdlePlansBounded
    <2>1. {p \in Pickup : pc[p] # "idle"} = {}
        BY <1>2, Kinds
    <2>2. Cardinality(Pickup) \in Nat /\ Cardinality({}) = 0
        BY GoalLoopAssumption, FS_CardinalityType, FS_EmptySet
    <2>3. QED
        BY <1>1, <2>1, <2>2 DEF Init, IdlePlansBounded
<1>6. ArchiveInv
    BY <1>2 DEF ArchiveInv
<1>7. QED
    BY <1>3, <1>4, <1>5, <1>6 DEF GoalInv

\* The inductive invariant of a project's record and its writers.
THEOREM GoalInvariant == Spec => []GoalInv
<1>1. GoalInv /\ [Next]_vars => GoalInv'
    BY CapStep, IdleStep, ArchiveStep DEF GoalInv
<1>2. QED
    BY <1>1, GoalInit, PTL DEF Spec

\* The variables keep their types, and the counters their caps: however the
\* writers overwrite each other's records, metadata.iteration never passes the
\* evaluator's cap, and iterationCount passes maxIterations by one at most and
\* by what the operator's requests add.
THEOREM LoopTypeCorrect == Spec => []TypeOK
<1>1. GoalInv => TypeOK
    BY DEF GoalInv
<1>2. QED
    BY <1>1, GoalInvariant, PTL

\* However many ticks overlap and whatever the goal loop, requests, the operator,
\* late saves and crashes do in between, the open batches of idle handlers and
\* the handlers under way are together no more than the overlapping ticks.
THEOREM LoopIdlePlansBounded == Spec => []IdlePlansBounded
<1>1. GoalInv => IdlePlansBounded
    BY DEF GoalInv
<1>2. QED
    BY <1>1, GoalInvariant, PTL

\* Neither loop takes up an archived project: it leaves the archive only
\* through a writer that was under way when it was archived, or a request.
THEOREM LoopArchiveHolds == Spec => ArchivedUndoneInFlight
<1>1. GoalInv /\ [Next]_vars =>
        [proj.status = "archived" /\ proj'.status # "archived" =>
           \E w \in inflight \cup Http : pc[w] # "idle" /\ pc'[w] = "idle"]_vars
    BY UndoneStep DEF GoalInv
<1>2. QED
    BY <1>1, GoalInvariant, PTL DEF Spec, ArchivedUndoneInFlight
=============================================================================
