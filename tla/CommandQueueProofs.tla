------------------------- MODULE CommandQueueProofs -------------------------
(***************************************************************************)
(* Theorems about the command lanes for any commands, limits and resets.   *)
(***************************************************************************)
EXTENDS CommandQueue, FiniteSetTheorems, SequenceTheorems, TLAPS

Entry == {"new", "queued", "started", "settled"}
Body == {"off", "running"}

Distinct(q) == \A i, j \in 1..Len(q) : q[i] = q[j] => i = j
-----------------------------------------------------------------------------
(* Lanes and sequences *)

\* Every command goes to a lane.
LEMMA LaneOfOK ==
  ASSUME NEW t \in Task
  PROVE  laneOf(t) \in Lane
  BY DEF laneOf, resolveGlobalLane, Lane, Global

\* The elements of a sequence, by their places.
LEMMA ElementsOf ==
  ASSUME NEW S, NEW s \in Seq(S)
  PROVE  /\ ToSet(s) = {s[i] : i \in 1..Len(s)}
         /\ ToSet(s) \subseteq S
         /\ s = <<>> <=> ToSet(s) = {}
<1>1. DOMAIN s = 1..Len(s) /\ Len(s) \in Nat /\ \A i \in 1..Len(s) : s[i] \in S
    OBVIOUS
<1>2. s # <<>> => Len(s) > 0
    BY EmptySeq, <1>1
<1>3. s = <<>> => Len(s) = 0
    OBVIOUS
<1>4. ToSet(s) = {s[i] : i \in 1..Len(s)}
    BY <1>1 DEF ToSet
<1>5. s # <<>> => s[1] \in ToSet(s)
    BY <1>1, <1>2, <1>4
<1>6. s = <<>> => ToSet(s) = {}
    BY <1>1, <1>3, <1>4
<1>7. QED
    BY <1>1, <1>4, <1>5, <1>6

\* A sequence without repetition has as many elements as places.
LEMMA DistinctCount ==
  ASSUME NEW S, NEW s \in Seq(S), Distinct(s)
  PROVE  IsFiniteSet(ToSet(s)) /\ Cardinality(ToSet(s)) = Len(s)
<1>1. ToSet(s) = {s[i] : i \in 1..Len(s)} /\ Len(s) \in Nat
    BY ElementsOf
<1>2. s \in [1..Len(s) -> ToSet(s)]
    BY <1>1
<1>3. s \in Bijection(1..Len(s), ToSet(s))
    BY <1>1, <1>2 DEF Distinct, Bijection, Injection, Surjection, IsInjective
<1>4. IsFiniteSet(1..Len(s)) /\ Cardinality(1..Len(s)) = Len(s)
    <2>1. 1 \in Int /\ Len(s) \in Int /\ (1 <= Len(s) \/ Len(s) = 0)
        BY <1>1
    <2>2. IsFiniteSet(1..Len(s)) /\ Cardinality(1..Len(s)) = IF 1 > Len(s) THEN 0 ELSE Len(s) - 1 + 1
        BY <2>1, FS_Interval
    <2>3. QED
        BY <1>1, <2>2
<1>5. ExistsBijection(1..Len(s), ToSet(s))
    BY <1>3 DEF ExistsBijection
<1>6. QED
    BY <1>4, <1>5, FS_Bijection

\* Appending a new element.
LEMMA AppendDistinct ==
  ASSUME NEW S, NEW s \in Seq(S), Distinct(s), NEW t \in S, t \notin ToSet(s)
  PROVE  /\ Append(s, t) \in Seq(S) /\ Distinct(Append(s, t))
         /\ ToSet(Append(s, t)) = ToSet(s) \cup {t}
         /\ Len(Append(s, t)) = Len(s) + 1
         /\ \A i \in 1..Len(s) : Append(s, t)[i] = s[i]
         /\ Append(s, t)[Len(s) + 1] = t
<1> DEFINE u == Append(s, t)
<1>1. /\ u \in Seq(S) /\ Len(s) \in Nat /\ Len(u) = Len(s) + 1
      /\ \A i \in 1..Len(s) : u[i] = s[i]
      /\ u[Len(s) + 1] = t
    BY AppendProperties
<1> HIDE DEF u
<1>2. /\ ToSet(s) = {s[i] : i \in 1..Len(s)}
      /\ ToSet(u) = {u[i] : i \in 1..Len(u)}
    BY <1>1, ElementsOf
<1>3. Distinct(u)
    <2>1. SUFFICES ASSUME NEW i \in 1..Len(u), NEW j \in 1..Len(u), u[i] = u[j]
                   PROVE  i = j
        BY DEF Distinct
    <2>2. \A k \in 1..Len(s) : s[k] # t
        BY <1>2
    <2>3. CASE i \in 1..Len(s) /\ j \in 1..Len(s)
        BY <1>1, <2>1, <2>3 DEF Distinct
    <2>4. CASE i = Len(s) + 1 \/ j = Len(s) + 1
        BY <1>1, <2>1, <2>2, <2>4
    <2>5. QED
        BY <1>1, <2>3, <2>4
<1>4. ToSet(u) = ToSet(s) \cup {t}
    BY <1>1, <1>2
<1>5. QED
    BY <1>1, <1>3, <1>4 DEF u

\* drainLane: what starts is the front of the queue, what is left the rest;
\* something is left only when the lane is full, and something starts only up
\* to the limit.
LEMMA LanePump ==
  ASSUME NEW q \in Seq(Task), Distinct(q), NEW a \in SUBSET Task, IsFiniteSet(a),
         NEW m \in Nat \ {0}, a \cap ToSet(q) = {}
  PROVE  /\ Left(q, a, m) \in Seq(Task) /\ Distinct(Left(q, a, m))
         /\ ToSet(q) = ToSet(Started(q, a, m)) \cup ToSet(Left(q, a, m))
         /\ ToSet(Started(q, a, m)) \cap ToSet(Left(q, a, m)) = {}
         /\ IsFiniteSet(a \cup ToSet(Started(q, a, m)))
         /\ Left(q, a, m) # <<>> => Cardinality(a \cup ToSet(Started(q, a, m))) >= m
         /\ \/ ToSet(Started(q, a, m)) = {}
            \/ Cardinality(a \cup ToSet(Started(q, a, m))) <= m
         /\ \E n \in 0..Len(q) : \A i \in 1..Len(q) : q[i] \in ToSet(Started(q, a, m)) <=> i <= n
<1> DEFINE s == Started(q, a, m)
           r == Left(q, a, m)
           k == Slots(a, m)
           n == Len(s)
<1>1. Len(q) \in Nat /\ Cardinality(a) \in Nat /\ k = m - Cardinality(a) /\ k \in Int
    BY FS_CardinalityType DEF Slots
<1>2. /\ s \in Seq(Task) /\ n \in 0..Len(q)
      /\ n = IF Len(q) <= k THEN Len(q) ELSE IF k <= 0 THEN 0 ELSE k
      /\ \A i \in 1..n : s[i] = q[i]
    <2>1. CASE Len(q) <= k
        BY <1>1, <2>1 DEF Started
    <2>2. CASE ~(Len(q) <= k)
        <3>1. s = SubSeq(q, 1, k)
            BY <2>2 DEF Started, TakeFirst
        <3>2. \A i \in 1..k : q[i] \in Task
            BY <1>1, <2>2
        <3> HIDE DEF s, k
        <3>3. /\ SubSeq(q, 1, k) \in Seq(Task)
              /\ Len(SubSeq(q, 1, k)) = IF 1 <= k THEN k - 1 + 1 ELSE 0
              /\ \A i \in 1..(k - 1 + 1) : SubSeq(q, 1, k)[i] = q[1 + i - 1]
            BY <1>1, <3>2, SubSeqProperties
        <3>4. n = IF k <= 0 THEN 0 ELSE k
            BY <1>1, <3>1, <3>3
        <3>5. \A i \in 1..n : i \in 1..(k - 1 + 1) /\ 1 + i - 1 = i
            BY <1>1, <3>4
        <3>6. \A i \in 1..n : s[i] = q[i]
            BY <3>1, <3>3, <3>5
        <3>7. QED
            BY <1>1, <2>2, <3>1, <3>3, <3>4, <3>6
    <2>3. QED
        BY <2>1, <2>2
<1>3. /\ r \in Seq(Task) /\ Len(r) = Len(q) - n
      /\ \A i \in 1..Len(r) : r[i] = q[n + i]
    <2>1. r = SubSeq(q, n + 1, Len(q))
        BY DEF Left
    <2> HIDE DEF n, r, s, k
    <2> DEFINE first == n + 1
    <2>2. first \in Nat /\ Len(q) \in Nat /\ \A i \in first..Len(q) : q[i] \in Task
        BY <1>1, <1>2
    <2> HIDE DEF first
    <2>3a. /\ SubSeq(q, first, Len(q)) \in Seq(Task)
           /\ Len(SubSeq(q, first, Len(q))) = IF first <= Len(q) THEN Len(q) - first + 1 ELSE 0
           /\ \A i \in 1..(Len(q) - first + 1) : SubSeq(q, first, Len(q))[i] = q[first + i - 1]
        BY <1>1, <2>2, SubSeqProperties
    <2>3. /\ SubSeq(q, n + 1, Len(q)) \in Seq(Task)
          /\ Len(SubSeq(q, n + 1, Len(q))) = IF n + 1 <= Len(q) THEN Len(q) - (n + 1) + 1 ELSE 0
          /\ \A i \in 1..(Len(q) - (n + 1) + 1) : SubSeq(q, n + 1, Len(q))[i] = q[(n + 1) + i - 1]
        BY <2>3a DEF first
    <2>4. Len(r) = Len(q) - n
        BY <1>1, <1>2, <2>1, <2>3
    <2>5. \A i \in 1..Len(r) : i \in 1..(Len(q) - (n + 1) + 1) /\ (n + 1) + i - 1 = n + i
        BY <1>1, <1>2, <2>4
    <2>6. \A i \in 1..Len(r) : r[i] = q[n + i]
        BY <2>1, <2>3, <2>5
    <2>7. QED
        BY <2>1, <2>3, <2>4, <2>6
<1> HIDE DEF s, r, k
<1>4. /\ ToSet(q) = {q[i] : i \in 1..Len(q)}
      /\ ToSet(s) = {s[i] : i \in 1..Len(s)}
      /\ ToSet(r) = {r[i] : i \in 1..Len(r)}
    BY <1>2, <1>3, ElementsOf
<1>5. Distinct(s) /\ Distinct(r)
    <2>1. Distinct(s)
        <3>1. \A i \in 1..Len(s) : i \in 1..Len(q)
            BY <1>1, <1>2
        <3>2. QED
            BY <1>2, <3>1 DEF Distinct
    <2>2. Distinct(r)
        <3>1. SUFFICES ASSUME NEW i \in 1..Len(r), NEW j \in 1..Len(r), r[i] = r[j]
                       PROVE  i = j
            BY DEF Distinct
        <3>2. n + i \in 1..Len(q) /\ n + j \in 1..Len(q)
            <4>1. n \in Nat /\ Len(q) \in Nat /\ Len(r) = Len(q) - n
                BY <1>1, <1>2, <1>3
            <4>2. QED
                BY <3>1, <4>1
        <3>3. n + i = n + j
            BY <1>3, <3>1, <3>2 DEF Distinct
        <3>4. QED
            BY <1>1, <1>2, <1>3, <3>3
    <2>3. QED
        BY <2>1, <2>2
<1>6. \A i \in 1..Len(q) : q[i] \in ToSet(s) <=> i <= n
    BY <1>1, <1>2, <1>4 DEF Distinct
<1>7. \A i \in 1..Len(q) : q[i] \in ToSet(r) <=> i > n
    <2>1. ASSUME NEW i \in 1..Len(q), q[i] \in ToSet(r)
          PROVE  i > n
        <3>1. PICK j \in 1..Len(r) : q[i] = q[n + j]
            BY <1>3, <1>4, <2>1
        <3>2. n + j \in 1..Len(q)
            BY <1>1, <1>2, <1>3
        <3>3. i = n + j
            BY <3>1, <3>2 DEF Distinct
        <3>4. QED
            BY <1>1, <1>2, <1>3, <3>3
    <2>2. ASSUME NEW i \in 1..Len(q), i > n
          PROVE  q[i] \in ToSet(r)
        <3>1. i - n \in 1..Len(r) /\ n + (i - n) = i
            BY <1>1, <1>2, <1>3, <2>2
        <3>2. QED
            BY <1>3, <1>4, <3>1
    <2>3. QED
        BY <2>1, <2>2
<1>8. ToSet(s) \subseteq ToSet(q) /\ ToSet(r) \subseteq ToSet(q)
    <2>1. \A i \in 1..Len(s) : i \in 1..Len(q) /\ s[i] = q[i]
        BY <1>1, <1>2
    <2>2. \A i \in 1..Len(r) : n + i \in 1..Len(q) /\ r[i] = q[n + i]
        BY <1>1, <1>2, <1>3
    <2>3. QED
        BY <1>4, <2>1, <2>2
<1>9. /\ ToSet(q) = ToSet(s) \cup ToSet(r)
      /\ ToSet(s) \cap ToSet(r) = {}
    <2>1. ASSUME NEW x \in ToSet(q)
          PROVE  (x \in ToSet(s) /\ x \notin ToSet(r)) \/ (x \notin ToSet(s) /\ x \in ToSet(r))
        <3>1. PICK i \in 1..Len(q) : x = q[i]
            BY <1>4
        <3>2. i <= n \/ i > n
            BY <1>1, <1>2
        <3>3. ~(i <= n /\ i > n)
            BY <1>1, <1>2
        <3>4. QED
            BY <1>6, <1>7, <3>1, <3>2, <3>3
    <2>2. QED
        BY <1>8, <2>1
<1>10. /\ IsFiniteSet(a \cup ToSet(s))
       /\ Cardinality(a \cup ToSet(s)) = Cardinality(a) + n
    <2>1. IsFiniteSet(ToSet(s)) /\ Cardinality(ToSet(s)) = n
        BY <1>2, <1>5, DistinctCount
    <2>2. a \cap ToSet(s) = {}
        BY <1>8
    <2>3. Cardinality({}) = 0
        BY FS_EmptySet
    <2>4. /\ IsFiniteSet(a \cup ToSet(s))
          /\ Cardinality(a \cup ToSet(s)) =
               Cardinality(a) + Cardinality(ToSet(s)) - Cardinality(a \cap ToSet(s))
        BY <2>1, FS_Union
    <2>5. Cardinality(a \cap ToSet(s)) = 0
        BY <2>2, <2>3
    <2>6. QED
        BY <1>1, <1>2, <2>1, <2>4, <2>5
<1>11. r # <<>> => Cardinality(a \cup ToSet(s)) >= m
    <2>1. r # <<>> => Len(r) > 0
        BY <1>3, EmptySeq
    <2>2. QED
        BY <1>1, <1>2, <1>3, <1>10, <2>1
<1>12. ToSet(s) = {} \/ Cardinality(a \cup ToSet(s)) <= m
    <2>1. n = 0 => ToSet(s) = {}
        BY <1>4
    <2>2. QED
        BY <1>1, <1>2, <1>10, <2>1
<1>13. QED
    BY <1>2, <1>3, <1>5, <1>6, <1>9, <1>10, <1>11, <1>12 DEF s, r
-----------------------------------------------------------------------------
(* The lanes and the commands                                              *)

\* Lane by lane and command by command: queued is waiting in its lane, started
\* and of the current generation is active there.  Stated of the values that
\* the pump is given, and of the variables themselves.
Lanes(q, a, m, g) ==
  /\ q \in [Lane -> Seq(Task)] /\ a \in [Lane -> SUBSET Task]
  /\ m \in [Lane -> Nat \ {0}] /\ g \in [Lane -> Nat]
  /\ \A l \in Lane : Distinct(q[l]) /\ IsFiniteSet(a[l])

Commands(e, b) ==
  /\ e \in [Task -> Entry] /\ b \in [Task -> Body] /\ tgen \in [Task -> Nat]
  /\ \A t \in Task : e[t] = "started" => b[t] = "running"

Waiting(q, e) ==
  \A l \in Lane, t \in Task : t \in ToSet(q[l]) <=> l = laneOf(t) /\ e[t] = "queued"

Running(a, g, e) ==
  /\ \A l \in Lane, t \in Task :
       t \in a[l] <=> l = laneOf(t) /\ e[t] = "started" /\ tgen[t] = g[l]
  /\ \A t \in Task : tgen[t] <= g[laneOf(t)]

Shape(q, a, m, g, e, b) ==
  Lanes(q, a, m, g) /\ Commands(e, b) /\ Waiting(q, e) /\ Running(a, g, e)

LaneInv == Shape(queue, active, max, gen, entry, body)

\* The active tasks of a lane are the current ones.
LEMMA ActiveIsCurrent ==
  ASSUME LaneInv, NEW l \in Lane
  PROVE  Current(l) = active[l]
<1>1. active[l] \subseteq Task
    BY DEF LaneInv, Shape, Lanes
<1>2. \A t \in Task : t \in active[l] <=> t \in Current(l)
    BY DEF LaneInv, Shape, Running, Commands, Current
<1>3. Current(l) \subseteq Task
    BY DEF Current
<1>4. QED
    BY <1>1, <1>2, <1>3

\* The same of the state after a step.
LEMMA ActiveIsCurrentNext ==
  ASSUME LaneInv', NEW l \in Lane
  PROVE  Current(l)' = active'[l]
<1>1. active'[l] \subseteq Task
    BY DEF LaneInv, Shape, Lanes
<1>2. \A t \in Task : t \in active'[l] <=> t \in Current(l)'
    BY DEF LaneInv, Shape, Running, Commands, Current
<1>3. Current(l)' \subseteq Task
    BY DEF Current
<1>4. QED
    BY <1>1, <1>2, <1>3

\* The pump keeps the shape, leaves no lane idle that it looked at, and starts
\* within the limit and in order.
LEMMA PumpKeeps ==
  ASSUME NEW q, NEW a, NEW m, NEW g, NEW e, NEW b, NEW lanes \in SUBSET Lane,
         Shape(q, a, m, g, e, b), Pump(lanes, q, a, m, g, e, b)
  PROVE  /\ LaneInv'
         /\ max' = m /\ gen' = g
         /\ \A l \in lanes : queue'[l] # <<>> => Cardinality(active'[l]) >= max'[l]
         /\ \A l \in lanes : active'[l] = a[l] \/ Cardinality(active'[l]) <= max'[l]
         /\ \A l \in Lane \ lanes : active'[l] = a[l] /\ queue'[l] = q[l]
         /\ \A l \in Lane : a[l] \subseteq active'[l] /\ \A t \in active'[l] \ a[l] : e[t] = "queued"
         /\ \A t \in Task : /\ entry'[t] # e[t] => e[t] = "queued" /\ entry'[t] = "started"
                            /\ e[t] = "queued" /\ entry'[t] = "started" => t \in active'[laneOf(t)]
         /\ \A l \in Lane : \E n \in 0..Len(q[l]) : \A i \in 1..Len(q[l]) :
              e[q[l][i]] = "queued" /\ (entry'[q[l][i]] = "started" <=> i <= n)
<1> DEFINE s(l) == Started(q[l], a[l], m[l])
           r(l) == Left(q[l], a[l], m[l])
<1>0. Lanes(q, a, m, g) /\ Commands(e, b) /\ Waiting(q, e) /\ Running(a, g, e)
    BY DEF Shape
<1>1. ASSUME NEW l \in Lane
      PROVE  /\ q[l] \in Seq(Task) /\ Distinct(q[l]) /\ a[l] \in SUBSET Task /\ IsFiniteSet(a[l])
             /\ m[l] \in Nat \ {0} /\ a[l] \cap ToSet(q[l]) = {} /\ ToSet(q[l]) \subseteq Task
    <2>1. q[l] \in Seq(Task) /\ Distinct(q[l]) /\ a[l] \in SUBSET Task /\ IsFiniteSet(a[l])
          /\ m[l] \in Nat \ {0}
        BY <1>0 DEF Lanes
    <2>2. ToSet(q[l]) \subseteq Task
        BY <2>1, ElementsOf
    <2>3. \A t \in Task : ~(t \in a[l] /\ t \in ToSet(q[l]))
        BY <1>0 DEF Waiting, Running
    <2>4. QED
        BY <2>1, <2>2, <2>3
<1>2. ASSUME NEW l \in Lane
      PROVE  /\ r(l) \in Seq(Task) /\ Distinct(r(l))
             /\ ToSet(q[l]) = ToSet(s(l)) \cup ToSet(r(l))
             /\ ToSet(s(l)) \cap ToSet(r(l)) = {}
             /\ IsFiniteSet(a[l] \cup ToSet(s(l)))
             /\ r(l) # <<>> => Cardinality(a[l] \cup ToSet(s(l))) >= m[l]
             /\ ToSet(s(l)) = {} \/ Cardinality(a[l] \cup ToSet(s(l))) <= m[l]
             /\ \E n \in 0..Len(q[l]) : \A i \in 1..Len(q[l]) : q[l][i] \in ToSet(s(l)) <=> i <= n
    BY <1>1, LanePump
<1>3. /\ \A l \in Lane : active'[l] = IF l \in lanes THEN a[l] \cup ToSet(s(l)) ELSE a[l]
      /\ \A l \in Lane : queue'[l] = IF l \in lanes THEN r(l) ELSE q[l]
      /\ active' = [l \in Lane |-> active'[l]] /\ queue' = [l \in Lane |-> queue'[l]]
      /\ max' = m /\ gen' = g
    BY DEF Pump
<1>4. /\ \A t \in Task : entry'[t] =
           IF e[t] = "queued" /\ t \in active'[laneOf(t)] THEN "started" ELSE e[t]
      /\ \A t \in Task : body'[t] =
           IF e[t] = "queued" /\ entry'[t] = "started" THEN "running" ELSE b[t]
      /\ \A t \in Task : tgen'[t] =
           IF e[t] = "queued" /\ entry'[t] = "started" THEN g[laneOf(t)] ELSE tgen[t]
      /\ entry' = [t \in Task |-> entry'[t]] /\ body' = [t \in Task |-> body'[t]]
      /\ tgen' = [t \in Task |-> tgen'[t]]
    BY <1>3 DEF Pump
<1> HIDE DEF s, r
\* A command starts exactly when it is at the front of a pumped lane.
<1>5. ASSUME NEW t \in Task
      PROVE  /\ entry'[t] \in Entry /\ body'[t] \in Body /\ tgen'[t] \in Nat
             /\ tgen'[t] <= g[laneOf(t)]
             /\ entry'[t] = "started" => body'[t] = "running"
             /\ entry'[t] # e[t] => e[t] = "queued" /\ entry'[t] = "started"
             /\ e[t] = "queued" =>
                  (entry'[t] = "started" <=> laneOf(t) \in lanes /\ t \in ToSet(s(laneOf(t))))
    <2>1. laneOf(t) \in Lane
        BY LaneOfOK
    <2>2. e[t] \in Entry /\ b[t] \in Body /\ tgen[t] \in Nat /\ g[laneOf(t)] \in Nat
          /\ tgen[t] <= g[laneOf(t)] /\ (e[t] = "started" => b[t] = "running")
        BY <1>0, <2>1 DEF Lanes, Commands, Running
    <2>3. e[t] = "queued" => t \notin a[laneOf(t)]
        BY <1>0, <2>1 DEF Running
    <2>4. e[t] = "queued" => (t \in active'[laneOf(t)] <=> laneOf(t) \in lanes /\ t \in ToSet(s(laneOf(t))))
        BY <1>3, <2>1, <2>3
    <2>5. e[t] = "queued" => (entry'[t] = "started" <=> t \in active'[laneOf(t)])
        BY <1>4
    <2>6. QED
        BY <1>4, <2>2, <2>4, <2>5 DEF Entry, Body
<1>6. Lanes(queue, active, max, gen)'
    <2>1. ASSUME NEW l \in Lane
          PROVE  queue'[l] \in Seq(Task) /\ Distinct(queue'[l])
        <3>1. queue'[l] = r(l) \/ queue'[l] = q[l]
            BY <1>3
        <3>2. q[l] \in Seq(Task) /\ Distinct(q[l])
            BY <1>1
        <3>3. r(l) \in Seq(Task) /\ Distinct(r(l))
            BY <1>2
        <3>4. QED
            BY <3>1, <3>2, <3>3
    <2>2. ASSUME NEW l \in Lane
          PROVE  active'[l] \in SUBSET Task /\ IsFiniteSet(active'[l])
        <3>1. active'[l] = a[l] \cup ToSet(s(l)) \/ active'[l] = a[l]
            BY <1>3
        <3>2. a[l] \in SUBSET Task /\ IsFiniteSet(a[l]) /\ ToSet(q[l]) \subseteq Task
            BY <1>1
        <3>3. ToSet(s(l)) \subseteq ToSet(q[l]) /\ IsFiniteSet(a[l] \cup ToSet(s(l)))
            BY <1>2
        <3>4. QED
            BY <3>1, <3>2, <3>3
    <2>3. queue' \in [Lane -> Seq(Task)] /\ active' \in [Lane -> SUBSET Task]
        BY <1>3, <2>1, <2>2
    <2>4. max' \in [Lane -> Nat \ {0}] /\ gen' \in [Lane -> Nat]
        BY <1>0, <1>3 DEF Lanes
    <2>5. QED
        BY <2>1, <2>2, <2>3, <2>4 DEF Lanes
<1>7. Commands(entry, body)'
    BY <1>4, <1>5 DEF Commands
<1>8. Waiting(queue, entry)'
    <2>1. SUFFICES ASSUME NEW l \in Lane, NEW t \in Task
                   PROVE  t \in ToSet(queue'[l]) <=> l = laneOf(t) /\ entry'[t] = "queued"
        BY DEF Waiting
    <2>2. t \in ToSet(q[l]) <=> l = laneOf(t) /\ e[t] = "queued"
        BY <1>0 DEF Waiting
    <2>3. CASE l \notin lanes
        BY <1>3, <1>5, <2>2, <2>3
    <2>4. CASE l \in lanes
        <3>1. t \in ToSet(queue'[l]) <=> t \in ToSet(q[l]) /\ t \notin ToSet(s(l))
            BY <1>2, <1>3, <2>4
        <3>2. QED
            BY <1>5, <2>2, <2>4, <3>1
    <2>5. QED
        BY <2>3, <2>4
<1>9. Running(active, gen, entry)'
    <2>1. ASSUME NEW l \in Lane, NEW t \in Task
          PROVE  t \in active'[l] <=> l = laneOf(t) /\ entry'[t] = "started" /\ tgen'[t] = gen'[l]
        <3>1. t \in a[l] <=> l = laneOf(t) /\ e[t] = "started" /\ tgen[t] = g[l]
            BY <1>0 DEF Running
        <3>2. t \in ToSet(s(l)) => l = laneOf(t) /\ e[t] = "queued"
            BY <1>0, <1>2 DEF Waiting
        <3>3. CASE e[t] = "queued"
            <4>1. l = laneOf(t) /\ entry'[t] = "started" => tgen'[t] = gen'[l]
                BY <1>3, <1>4, <3>3
            <4>2. t \in active'[l] <=> l \in lanes /\ t \in ToSet(s(l))
                BY <1>3, <3>1, <3>3
            <4>3. QED
                BY <1>5, <3>2, <3>3, <4>1, <4>2
        <3>4. CASE e[t] # "queued"
            <4>1. entry'[t] = e[t] /\ tgen'[t] = tgen[t]
                BY <1>4, <3>4
            <4>2. t \in active'[l] <=> t \in a[l]
                BY <1>3, <3>2, <3>4
            <4>3. QED
                BY <1>3, <3>1, <4>1, <4>2
        <3>5. QED
            BY <3>3, <3>4
    <2>2. \A t \in Task : tgen'[t] <= gen'[laneOf(t)]
        BY <1>3, <1>5
    <2>3. QED
        BY <2>1, <2>2 DEF Running
<1>10. LaneInv'
    BY <1>6, <1>7, <1>8, <1>9 DEF LaneInv, Shape
<1>11. ASSUME NEW l \in Lane
       PROVE  /\ l \in lanes => /\ queue'[l] # <<>> => Cardinality(active'[l]) >= max'[l]
                                /\ active'[l] = a[l] \/ Cardinality(active'[l]) <= max'[l]
              /\ a[l] \subseteq active'[l]
              /\ \A t \in active'[l] \ a[l] : e[t] = "queued"
    <2>1. ToSet(s(l)) = {} => a[l] \cup ToSet(s(l)) = a[l]
        OBVIOUS
    <2>2. \A t \in ToSet(s(l)) : e[t] = "queued"
        BY <1>0, <1>1, <1>2 DEF Waiting
    <2>3. QED
        BY <1>2, <1>3, <2>1, <2>2
<1>12. ASSUME NEW l \in Lane
       PROVE  \E n \in 0..Len(q[l]) : \A i \in 1..Len(q[l]) :
                e[q[l][i]] = "queued" /\ (entry'[q[l][i]] = "started" <=> i <= n)
    <2>1. PICK k \in 0..Len(q[l]) : \A i \in 1..Len(q[l]) : q[l][i] \in ToSet(s(l)) <=> i <= k
        BY <1>2
    <2> DEFINE n == IF l \in lanes THEN k ELSE 0
    <2>2. n \in 0..Len(q[l]) /\ Len(q[l]) \in Nat
        BY <1>1, <2>1
    <2>3. ASSUME NEW i \in 1..Len(q[l])
          PROVE  e[q[l][i]] = "queued" /\ (entry'[q[l][i]] = "started" <=> i <= n)
        <3>1. q[l][i] \in ToSet(q[l]) /\ q[l][i] \in Task
            BY <1>1, ElementsOf
        <3>2. laneOf(q[l][i]) = l /\ e[q[l][i]] = "queued"
            BY <1>0, <3>1 DEF Waiting
        <3>3. entry'[q[l][i]] = "started" <=> l \in lanes /\ q[l][i] \in ToSet(s(l))
            BY <1>5, <3>1, <3>2
        <3>4. i <= n <=> l \in lanes /\ i <= k
            BY <2>2
        <3>5. QED
            BY <2>1, <3>2, <3>3, <3>4
    <2>4. QED
        BY <2>2, <2>3
<1>13. \A t \in Task : e[t] = "queued" /\ entry'[t] = "started" => t \in active'[laneOf(t)]
    BY <1>4
<1>14. QED
    BY <1>3, <1>5, <1>10, <1>11, <1>12, <1>13
-----------------------------------------------------------------------------
(* The inductive invariant, and what a step does                           *)

FullInv == \A l \in Lane : queue[l] # <<>> => Cardinality(active[l]) >= max[l]

\* A started command has its slot unless a reset took it away.
ReleasedInv ==
  \A t \in Task : entry[t] = "started" => t \in active[laneOf(t)] \/ t \in released

\* The restart waits for commands that have begun.
CapturedInv == \A t \in captured : entry[t] \in {"started", "settled"}

RestInv ==
  /\ draining \in BOOLEAN /\ wait \in {"no", "waiting", "drained", "timeout"}
  /\ captured \subseteq Task /\ released \subseteq Task

QueueInv == LaneInv /\ FullInv /\ ReleasedInv /\ CapturedInv /\ RestInv /\ DrainedMeansSettled

\* FirstComeFirstServed for one step.
InOrder ==
  \A t, u \in Task :
    /\ laneOf(t) = laneOf(u)
    /\ entry[t] = "queued" /\ entry'[t] = "queued"
    /\ entry[u] # "started" /\ entry'[u] = "started"
    => Ahead(u, t)

Moves ==
  /\ LaneInv' /\ FullInv'
  /\ \A l \in Lane : active'[l] \subseteq active[l] \/ Cardinality(active'[l]) <= max'[l]
  /\ \A l \in Lane : \A t \in active[l] :
       t \in active'[l] \/ entry'[t] = "settled" \/ t \in released'
  /\ \A t \in Task : /\ entry[t] = "settled" => entry'[t] = "settled"
                     /\ entry[t] = "started" => entry'[t] \in {"started", "settled"}
                     /\ entry[t] # "started" /\ entry'[t] = "started" => t \in active'[laneOf(t)]
  /\ released \subseteq released'
  /\ InOrder

\* What a step does to the restart's wait.
WaitStep ==
  \/ /\ captured' = captured
     /\ wait' = "drained" => wait = "drained" \/ \A t \in captured : t \notin active'[laneOf(t)]
  \/ /\ captured' \subseteq {t \in Task : entry'[t] = "started"}
     /\ wait' = "drained" => captured' = {}

\* Those two are all that the invariant needs.
LEMMA StepKeeps ==
  ASSUME QueueInv, Moves, WaitStep, RestInv'
  PROVE  QueueInv'
<1>1. LaneInv' /\ FullInv'
    BY DEF Moves
<1>2. ReleasedInv'
    <2>1. SUFFICES ASSUME NEW t \in Task, entry'[t] = "started"
                   PROVE  t \in active'[laneOf(t)] \/ t \in released'
        BY DEF ReleasedInv
    <2>2. laneOf(t) \in Lane
        BY LaneOfOK
    <2>3. CASE entry[t] = "started"
        <3>1. t \in active[laneOf(t)] \/ t \in released
            BY <2>3 DEF QueueInv, ReleasedInv
        <3>2. QED
            BY <2>1, <2>2, <3>1 DEF Moves
    <2>4. CASE entry[t] # "started"
        BY <2>1, <2>4 DEF Moves
    <2>5. QED
        BY <2>3, <2>4
<1>3. CapturedInv'
    BY DEF WaitStep, Moves, QueueInv, CapturedInv, RestInv
<1>4. DrainedMeansSettled'
    <2>1. SUFFICES ASSUME wait' = "drained", NEW t \in captured'
                   PROVE  entry'[t] = "settled" \/ t \in released'
        BY DEF DrainedMeansSettled
    <2>2. t \in Task /\ entry'[t] \in {"started", "settled"}
        BY <1>3 DEF CapturedInv, RestInv
    <2>3. CASE wait = "drained" /\ captured' = captured
        BY <2>1, <2>2, <2>3 DEF QueueInv, DrainedMeansSettled, Moves
    <2>4. CASE \A u \in captured' : u \notin active'[laneOf(u)]
        BY <1>2, <2>2, <2>4 DEF ReleasedInv
    <2>5. QED
        BY <2>1, <2>3, <2>4 DEF WaitStep
<1>5. QED
    BY <1>1, <1>2, <1>3, <1>4 DEF QueueInv

\* A step that pumps some lanes.
LEMMA PumpMoves ==
  ASSUME QueueInv, NEW q, NEW a, NEW m, NEW g, NEW e, NEW b, NEW lanes \in SUBSET Lane,
         Shape(q, a, m, g, e, b), Pump(lanes, q, a, m, g, e, b),
         released \subseteq released',
         \A l \in Lane : /\ Len(queue[l]) <= Len(q[l])
                         /\ \A i \in 1..Len(queue[l]) : q[l][i] = queue[l][i],
         \A l \in Lane : /\ a[l] \subseteq active[l]
                         /\ \A t \in active[l] \ a[l] : e[t] = "settled" \/ t \in released',
         \A l \in Lane \ lanes : q[l] = queue[l] /\ a[l] = active[l] /\ m[l] = max[l],
         \A t \in Task : \/ e[t] = entry[t]
                         \/ entry[t] = "new" /\ e[t] = "queued"
                         \/ entry[t] = "started" /\ e[t] = "settled"
  PROVE  /\ Moves
         /\ \A l \in Lane : \A t \in active'[l] \ a[l] : e[t] = "queued"
<1>1. /\ LaneInv'
      /\ max' = m /\ gen' = g
      /\ \A l \in lanes : queue'[l] # <<>> => Cardinality(active'[l]) >= max'[l]
      /\ \A l \in lanes : active'[l] = a[l] \/ Cardinality(active'[l]) <= max'[l]
      /\ \A l \in Lane \ lanes : active'[l] = a[l] /\ queue'[l] = q[l]
      /\ \A l \in Lane : a[l] \subseteq active'[l] /\ \A t \in active'[l] \ a[l] : e[t] = "queued"
      /\ \A t \in Task : /\ entry'[t] # e[t] => e[t] = "queued" /\ entry'[t] = "started"
                         /\ e[t] = "queued" /\ entry'[t] = "started" => t \in active'[laneOf(t)]
      /\ \A l \in Lane : \E n \in 0..Len(q[l]) : \A i \in 1..Len(q[l]) :
           e[q[l][i]] = "queued" /\ (entry'[q[l][i]] = "started" <=> i <= n)
    BY PumpKeeps
<1>2. FullInv'
    BY <1>1 DEF FullInv, QueueInv
<1>3. \A l \in Lane : active'[l] \subseteq active[l] \/ Cardinality(active'[l]) <= max'[l]
    BY <1>1
<1>4. \A t \in Task : /\ entry[t] = "settled" => entry'[t] = "settled"
                      /\ entry[t] = "started" => entry'[t] \in {"started", "settled"}
                      /\ entry[t] # "started" /\ entry'[t] = "started" => t \in active'[laneOf(t)]
    BY <1>1
<1>5. ASSUME NEW l \in Lane, NEW t \in active[l]
      PROVE  t \in active'[l] \/ entry'[t] = "settled" \/ t \in released'
    <2>1. t \in Task
        BY DEF QueueInv, LaneInv, Shape, Lanes
    <2>2. QED
        BY <1>1, <2>1
<1>6. InOrder
    <2>1. SUFFICES ASSUME NEW t \in Task, NEW u \in Task, laneOf(t) = laneOf(u),
                          entry[t] = "queued", entry'[t] = "queued",
                          entry[u] # "started", entry'[u] = "started"
                   PROVE  Ahead(u, t)
        BY DEF InOrder
    <2> DEFINE l == laneOf(t)
    <2>2. l \in Lane
        BY LaneOfOK
    <2>3. e[u] = "queued" /\ e[t] = "queued"
        BY <1>1, <2>1
    <2>4. /\ q[l] \in Seq(Task) /\ Distinct(q[l]) /\ queue[l] \in Seq(Task)
          /\ u \in ToSet(q[l]) /\ t \in ToSet(q[l]) /\ t \in ToSet(queue[l])
        BY <2>1, <2>2, <2>3 DEF QueueInv, LaneInv, Shape, Lanes, Waiting
    <2> HIDE DEF l
    <2>5. PICK i \in 1..Len(q[l]) : u = q[l][i]
        BY <2>4, ElementsOf
    <2>6. PICK j \in 1..Len(queue[l]) : t = queue[l][j]
        BY <2>4, ElementsOf
    <2>7. /\ Len(queue[l]) \in Nat /\ Len(q[l]) \in Nat /\ Len(queue[l]) <= Len(q[l])
          /\ q[l][j] = t /\ j \in 1..Len(q[l])
        BY <2>2, <2>4, <2>6
    <2>8. PICK n \in 0..Len(q[l]) : \A k \in 1..Len(q[l]) :
            e[q[l][k]] = "queued" /\ (entry'[q[l][k]] = "started" <=> k <= n)
        BY <1>1, <2>2
    <2>9. i <= n /\ ~(j <= n)
        BY <2>1, <2>5, <2>7, <2>8
    <2>10. i < j /\ i \in 1..Len(queue[l])
        BY <2>5, <2>6, <2>7, <2>9
    <2>11. queue[l][i] = u
        BY <2>2, <2>5, <2>10
    <2>12. QED
        BY <2>6, <2>10, <2>11 DEF Ahead, l
<1>7. QED
    BY <1>1, <1>2, <1>3, <1>4, <1>5, <1>6 DEF Moves

\* A step that starts nothing.
LEMMA StillMoves ==
  ASSUME QueueInv, LaneInv', UNCHANGED <<active, max, released>>,
         \A l \in Lane : queue'[l] # <<>> => queue[l] # <<>>,
         \A t \in Task : /\ entry'[t] # entry[t] => entry'[t] = "settled"
  PROVE  Moves
<1>1. FullInv'
    BY DEF QueueInv, FullInv
<1>2. InOrder
    BY DEF InOrder
<1>3. \A t \in Task : /\ entry[t] = "settled" => entry'[t] = "settled"
                      /\ entry[t] = "started" => entry'[t] \in {"started", "settled"}
                      /\ entry[t] # "started" /\ entry'[t] = "started" => t \in active'[laneOf(t)]
    OBVIOUS
<1>4. QED
    BY <1>1, <1>2, <1>3 DEF Moves
-----------------------------------------------------------------------------
(* The actions *)

Effect == Moves /\ WaitStep /\ RestInv'

\* A command is enqueued, or refused by a draining gateway.
LEMMA EnqueueEffect ==
  ASSUME QueueInv, NEW t \in Task, Enqueue(t)
  PROVE  Effect
<1> DEFINE l == laneOf(t)
           q == [queue EXCEPT ![l] = Append(@, t)]
           e == [entry EXCEPT ![t] = "queued"]
<1>1. /\ l \in Lane /\ entry[t] = "new" /\ LaneInv
      /\ UNCHANGED <<draining, wait, captured, released>>
    BY LaneOfOK DEF Enqueue, restartVars, QueueInv
<1>2. RestInv' /\ WaitStep
    BY <1>1 DEF QueueInv, RestInv, WaitStep
<1>3. /\ queue \in [Lane -> Seq(Task)] /\ entry \in [Task -> Entry]
      /\ \A k \in Lane : queue[k] \in Seq(Task) /\ Distinct(queue[k])
    BY <1>1 DEF LaneInv, Shape, Lanes, Commands
<1>4. CASE draining
    <2>1. /\ entry' = [entry EXCEPT ![t] = "settled"]
          /\ UNCHANGED <<queue, active, max, gen, body, tgen>>
        BY <1>4 DEF Enqueue
    <2>2. \A u \in Task : entry'[u] = IF u = t THEN "settled" ELSE entry[u]
        BY <1>3, <2>1
    <2>3. entry' \in [Task -> Entry]
        BY <1>3, <2>1 DEF Entry
    <2>4. LaneInv'
        <3>1. Lanes(queue, active, max, gen)' /\ Commands(entry, body)'
            BY <1>1, <2>1, <2>2, <2>3 DEF LaneInv, Shape, Lanes, Commands
        <3>2. Waiting(queue, entry)' /\ Running(active, gen, entry)'
            BY <1>1, <2>1, <2>2 DEF LaneInv, Shape, Waiting, Running
        <3>3. QED
            BY <3>1, <3>2 DEF LaneInv, Shape
    <2>5. Moves
        BY <1>1, <2>1, <2>2, <2>4, StillMoves
    <2>6. QED
        BY <1>2, <2>5 DEF Effect
<1>5. CASE ~draining
    <2>1. Pump({l}, q, active, max, gen, e, body)
        BY <1>5 DEF Enqueue
    <2>2. \A u \in Task : e[u] = IF u = t THEN "queued" ELSE entry[u]
        BY <1>3
    <2>3. t \notin ToSet(queue[l])
        BY <1>1 DEF LaneInv, Shape, Waiting
    <2>4. /\ Append(queue[l], t) \in Seq(Task) /\ Distinct(Append(queue[l], t))
          /\ ToSet(Append(queue[l], t)) = ToSet(queue[l]) \cup {t}
          /\ Len(Append(queue[l], t)) = Len(queue[l]) + 1
          /\ \A i \in 1..Len(queue[l]) : Append(queue[l], t)[i] = queue[l][i]
        BY <1>1, <1>3, <2>3, AppendDistinct
    <2>5. /\ q \in [Lane -> Seq(Task)] /\ q[l] = Append(queue[l], t)
          /\ \A k \in Lane \ {l} : q[k] = queue[k]
        BY <1>1, <1>3, <2>4
    <2>6. e \in [Task -> Entry]
        BY <1>3 DEF Entry
    <2> HIDE DEF q, e
    <2>7. Shape(q, active, max, gen, e, body)
        <3>1. Lanes(q, active, max, gen)
            BY <1>1, <1>3, <2>4, <2>5 DEF LaneInv, Shape, Lanes
        <3>2. Commands(e, body)
            BY <1>1, <2>2, <2>6 DEF LaneInv, Shape, Commands
        <3>3. Waiting(q, e)
            <4>1. SUFFICES ASSUME NEW k \in Lane, NEW u \in Task
                           PROVE  u \in ToSet(q[k]) <=> k = laneOf(u) /\ e[u] = "queued"
                BY DEF Waiting
            <4>2. u \in ToSet(queue[k]) <=> k = laneOf(u) /\ entry[u] = "queued"
                BY <1>1 DEF LaneInv, Shape, Waiting
            <4>3. u \in ToSet(q[k]) <=> u \in ToSet(queue[k]) \/ (k = l /\ u = t)
                BY <2>4, <2>5
            <4>4. QED
                BY <1>1, <2>2, <4>2, <4>3
        <3>4. Running(active, gen, e)
            BY <1>1, <2>2 DEF LaneInv, Shape, Running
        <3>5. QED
            BY <3>1, <3>2, <3>3, <3>4 DEF Shape
    <2>8. \A k \in Lane : /\ Len(queue[k]) <= Len(q[k])
                          /\ \A i \in 1..Len(queue[k]) : q[k][i] = queue[k][i]
        <3>1. ASSUME NEW k \in Lane, k # l
              PROVE  q[k] = queue[k] /\ Len(queue[k]) <= Len(q[k])
            BY <1>3, <2>5, <3>1
        <3>2. /\ Len(queue[l]) <= Len(q[l])
              /\ \A i \in 1..Len(queue[l]) : q[l][i] = queue[l][i]
            BY <1>3, <2>4, <2>5
        <3>3. QED
            BY <3>1, <3>2
    <2>9. {l} \in SUBSET Lane /\ \A u \in Task : e[u] = entry[u] \/ (entry[u] = "new" /\ e[u] = "queued")
        BY <1>1, <2>2
    <2>10. /\ \A k \in Lane : active[k] \subseteq active[k] /\ \A u \in active[k] \ active[k] :
                e[u] = "settled" \/ u \in released'
           /\ \A k \in Lane \ {l} : q[k] = queue[k] /\ active[k] = active[k] /\ max[k] = max[k]
        BY <2>5
    <2> HIDE DEF l
    <2>11. Moves
        BY <1>1, <2>1, <2>7, <2>8, <2>9, <2>10, PumpMoves
    <2>12. QED
        BY <1>2, <2>11 DEF Effect
<1>6. QED
    BY <1>4, <1>5

\* No lane has a captured command left: the restart may be told so.
LEMMA NotifyWaits ==
  ASSUME QueueInv, NEW a, NEW e, Notify(a),
         \A l \in Lane : \A t \in active'[l] \ a[l] : e[t] = "queued",
         \A t \in Task : entry[t] \in {"started", "settled"} => e[t] # "queued"
  PROVE  WaitStep /\ draining' = draining /\ captured' = captured
         /\ wait' \in {wait, "drained"}
<1>1. captured' = captured /\ draining' = draining /\ wait' \in {wait, "drained"}
    BY DEF Notify
<1>2. ASSUME wait' = "drained", wait # "drained", NEW t \in captured
      PROVE  t \notin active'[laneOf(t)]
    <2>1. t \in Task /\ entry[t] \in {"started", "settled"}
        BY DEF QueueInv, RestInv, CapturedInv
    <2>2. laneOf(t) \in Lane
        BY <2>1, LaneOfOK
    <2>3. ~hasPendingActiveTasks(a)
        BY <1>2 DEF Notify
    <2>4. t \notin a[laneOf(t)]
        BY <2>2, <2>3 DEF hasPendingActiveTasks
    <2>5. QED
        BY <2>1, <2>2, <2>4
<1>3. WaitStep
    BY <1>1, <1>2 DEF WaitStep
<1>4. QED
    BY <1>1, <1>3

\* A command settles: its task returned or timed out.
LEMMA CompleteEffect ==
  ASSUME QueueInv, NEW t \in Task, entry[t] = "started", NEW b, Complete(t, b),
         b \in [Task -> Body], \A u \in Task \ {t} : b[u] = body[u], released' = released
  PROVE  Effect
<1> DEFINE l == laneOf(t)
           a == [active EXCEPT ![l] = @ \ {t}]
           e == [entry EXCEPT ![t] = "settled"]
<1>1. l \in Lane /\ LaneInv /\ RestInv
    BY LaneOfOK DEF QueueInv
<1>2. /\ queue \in [Lane -> Seq(Task)] /\ entry \in [Task -> Entry]
      /\ active \in [Lane -> SUBSET Task] /\ \A k \in Lane : IsFiniteSet(active[k])
    BY <1>1 DEF LaneInv, Shape, Lanes, Commands
<1>3. e \in [Task -> Entry] /\ \A u \in Task : e[u] = IF u = t THEN "settled" ELSE entry[u]
    BY <1>2 DEF Entry
<1>4. Commands(e, b) /\ Waiting(queue, e)
    <2>1. Commands(e, b)
        BY <1>1, <1>3 DEF LaneInv, Shape, Commands
    <2>2. Waiting(queue, e)
        BY <1>1, <1>3 DEF LaneInv, Shape, Waiting
    <2>3. QED
        BY <2>1, <2>2
<1>5. CASE tgen[t] = gen[l]
    <2>1. Pump({l}, queue, a, max, gen, e, b) /\ Notify(a)
        BY <1>5 DEF Complete
    <2>2. /\ a \in [Lane -> SUBSET Task] /\ a[l] = active[l] \ {t}
          /\ \A k \in Lane \ {l} : a[k] = active[k]
        BY <1>1, <1>2
    <2>3. \A k \in Lane : IsFiniteSet(a[k])
        <3>1. \A k \in Lane : IsFiniteSet(active[k])
            BY <1>2
        <3> DEFINE S == active[l]
        <3>a. IsFiniteSet(S)
            BY <1>1, <3>1
        <3> HIDE DEF S
        <3>b. IsFiniteSet(S \ {t})
            BY <3>a, FS_RemoveElement
        <3>2. IsFiniteSet(active[l] \ {t})
            BY <3>b DEF S
        <3>3. QED
            BY <2>2, <3>1, <3>2
    <2> HIDE DEF a, e
    <2>4. Shape(queue, a, max, gen, e, b)
        <3>1. Lanes(queue, a, max, gen)
            BY <1>1, <2>2, <2>3 DEF LaneInv, Shape, Lanes
        <3>2. Running(a, gen, e)
            <4>1. SUFFICES ASSUME NEW k \in Lane, NEW u \in Task
                           PROVE  u \in a[k] <=> k = laneOf(u) /\ e[u] = "started" /\ tgen[u] = gen[k]
                BY <1>1 DEF LaneInv, Shape, Running
            <4>2. u \in active[k] <=> k = laneOf(u) /\ entry[u] = "started" /\ tgen[u] = gen[k]
                BY <1>1 DEF LaneInv, Shape, Running
            <4>3. u \in a[k] <=> u \in active[k] /\ ~(k = l /\ u = t)
                BY <2>2
            <4>4. QED
                BY <1>3, <4>2, <4>3
        <3>3. QED
            BY <1>4, <3>1, <3>2 DEF Shape
    <2>5. \A k \in Lane : /\ Len(queue[k]) <= Len(queue[k])
                          /\ \A i \in 1..Len(queue[k]) : queue[k][i] = queue[k][i]
        BY <1>2
    <2>6. \A k \in Lane : /\ a[k] \subseteq active[k]
                          /\ \A u \in active[k] \ a[k] : e[u] = "settled" \/ u \in released'
        BY <1>3, <2>2
    <2>7. /\ {l} \in SUBSET Lane
          /\ \A k \in Lane \ {l} : queue[k] = queue[k] /\ a[k] = active[k] /\ max[k] = max[k]
          /\ \A u \in Task : e[u] = entry[u] \/ (entry[u] = "started" /\ e[u] = "settled")
        BY <1>1, <1>3, <2>2
    <2> HIDE DEF l
    <2>8. Moves /\ \A k \in Lane : \A u \in active'[k] \ a[k] : e[u] = "queued"
        BY <2>1, <2>4, <2>5, <2>6, <2>7, PumpMoves
    <2>9. \A u \in Task : entry[u] \in {"started", "settled"} => e[u] # "queued"
        BY <1>3
    <2>10. WaitStep /\ draining' = draining /\ captured' = captured /\ wait' \in {wait, "drained"}
        BY <2>1, <2>8, <2>9, NotifyWaits
    <2>11. QED
        BY <1>1, <2>8, <2>10 DEF Effect, RestInv
<1>6. CASE tgen[t] # gen[l]
    <2>1. /\ entry' = e /\ body' = b
          /\ UNCHANGED <<queue, active, max, gen, tgen, draining, wait, captured>>
        BY <1>6 DEF Complete, restartVars
    <2> HIDE DEF e
    <2>2. LaneInv'
        <3>1. Running(active, gen, entry)'
            BY <1>1, <1>3, <1>6, <2>1 DEF LaneInv, Shape, Running
        <3>2. Lanes(queue, active, max, gen)'
            BY <1>1, <2>1 DEF LaneInv, Shape, Lanes
        <3>3. Commands(entry, body)' /\ Waiting(queue, entry)'
            BY <1>4, <2>1 DEF Commands, Waiting
        <3>4. QED
            BY <3>1, <3>2, <3>3 DEF LaneInv, Shape
    <2>3. Moves
        BY <1>3, <2>1, <2>2, StillMoves
    <2>4. WaitStep /\ RestInv'
        BY <1>1, <2>1 DEF WaitStep, RestInv
    <2>5. QED
        BY <2>3, <2>4 DEF Effect
<1>7. QED
    BY <1>5, <1>6

\* A task returns, or its timeout fires.
LEMMA TaskEffect ==
  ASSUME QueueInv, NEW t \in Task, TaskEnds(t) \/ TaskTimesOut(t)
  PROVE  Effect
<1>1. LaneInv /\ RestInv /\ body \in [Task -> Body] /\ released' = released
    BY DEF QueueInv, LaneInv, Shape, Commands, TaskEnds, TaskTimesOut
<1>2. CASE TaskTimesOut(t)
    BY <1>1, <1>2, CompleteEffect DEF TaskTimesOut
<1>3. CASE TaskEnds(t)
    <2> DEFINE b == [body EXCEPT ![t] = "off"]
    <2>1. b \in [Task -> Body] /\ \A u \in Task : b[u] = IF u = t THEN "off" ELSE body[u]
        BY <1>1 DEF Body
    <2>2. CASE entry[t] = "started"
        <3>1. Complete(t, b)
            BY <1>3, <2>2 DEF TaskEnds
        <3> HIDE DEF b
        <3>2. QED
            BY <1>1, <2>1, <2>2, <3>1, CompleteEffect
    <2>3. CASE entry[t] # "started"
        <3>1. /\ body' = b
              /\ UNCHANGED <<queue, active, max, gen, entry, tgen, draining, wait, captured>>
            BY <1>3, <2>3 DEF TaskEnds, restartVars
        <3> HIDE DEF b
        <3>2. LaneInv'
            <4>1. Lanes(queue, active, max, gen)' /\ Commands(entry, body)'
                BY <1>1, <2>1, <2>3, <3>1 DEF LaneInv, Shape, Lanes, Commands
            <4>2. Waiting(queue, entry)' /\ Running(active, gen, entry)'
                BY <1>1, <3>1 DEF LaneInv, Shape, Waiting, Running
            <4>3. QED
                BY <4>1, <4>2 DEF LaneInv, Shape
        <3>3. Moves
            BY <1>1, <3>1, <3>2, StillMoves
        <3>4. WaitStep /\ RestInv'
            BY <1>1, <3>1 DEF WaitStep, RestInv
        <3>5. QED
            BY <3>3, <3>4 DEF Effect
    <2>4. QED
        BY <2>2, <2>3
<1>4. QED
    BY <1>2, <1>3

\* The limits are configured, and the lanes pumped.
LEMMA LimitEffect ==
  ASSUME QueueInv, NEW c \in CronSizes, NEW n \in MainSizes, applyGatewayLaneConcurrency(c, n)
  PROVE  Effect
<1> DEFINE m == [max EXCEPT !["cron"] = c, !["cron-nested"] = c, !["main"] = n]
<1>1. /\ LaneInv /\ RestInv /\ Pump(Global, queue, active, m, gen, entry, body)
      /\ UNCHANGED <<draining, wait, captured, released>>
    BY DEF applyGatewayLaneConcurrency, restartVars, QueueInv
<1>2. c \in Nat \ {0} /\ n \in Nat \ {0} /\ Global \in SUBSET Lane
    BY CommandQueueAssumption DEF Lane
<1>3. max \in [Lane -> Nat \ {0}] /\ queue \in [Lane -> Seq(Task)]
    BY <1>1 DEF LaneInv, Shape, Lanes
<1>4. m \in [Lane -> Nat \ {0}] /\ \A l \in Lane \ Global : m[l] = max[l]
    BY <1>2, <1>3 DEF Global
<1> HIDE DEF m
<1>5. Shape(queue, active, m, gen, entry, body)
    BY <1>1, <1>4 DEF LaneInv, Shape, Lanes
<1>6. \A k \in Lane : /\ Len(queue[k]) <= Len(queue[k])
                      /\ \A i \in 1..Len(queue[k]) : queue[k][i] = queue[k][i]
    BY <1>3
<1>7. /\ \A k \in Lane : active[k] \subseteq active[k] /\ \A u \in active[k] \ active[k] :
           entry[u] = "settled" \/ u \in released'
      /\ \A k \in Lane \ Global : queue[k] = queue[k] /\ active[k] = active[k] /\ m[k] = max[k]
      /\ \A u \in Task : entry[u] = entry[u]
      /\ released \subseteq released'
    BY <1>1, <1>4
<1>8. Moves
    BY <1>1, <1>2, <1>5, <1>6, <1>7, PumpMoves
<1>9. WaitStep /\ RestInv'
    BY <1>1 DEF WaitStep, RestInv
<1>10. QED
    BY <1>8, <1>9 DEF Effect

\* The queue of a session is cleared.
LEMMA ClearEffect ==
  ASSUME QueueInv, NEW l \in Lane, clearCommandLane(l)
  PROVE  Effect
<1>1. /\ LaneInv /\ RestInv
      /\ entry' = [t \in Task |-> IF t \in ToSet(queue[l]) THEN "settled" ELSE entry[t]]
      /\ queue' = [queue EXCEPT ![l] = <<>>]
      /\ UNCHANGED <<active, max, gen, body, tgen, draining, wait, captured, released>>
    BY DEF clearCommandLane, restartVars, QueueInv
<1>2. /\ queue \in [Lane -> Seq(Task)] /\ entry \in [Task -> Entry]
      /\ \A t \in Task : t \in ToSet(queue[l]) <=> l = laneOf(t) /\ entry[t] = "queued"
    BY <1>1 DEF LaneInv, Shape, Lanes, Commands, Waiting
<1>3. \A t \in Task : entry'[t] = IF t \in ToSet(queue[l]) THEN "settled" ELSE entry[t]
    BY <1>1
<1>4. /\ <<>> \in Seq(Task) /\ Distinct(<<>>)
    BY DEF Distinct
<1>5. /\ queue' \in [Lane -> Seq(Task)] /\ queue'[l] = <<>>
      /\ \A k \in Lane \ {l} : queue'[k] = queue[k]
    BY <1>1, <1>2, <1>4
<1>6. \A t \in Task : t \notin ToSet(queue'[l])
    BY <1>4, <1>5, ElementsOf
<1>7. LaneInv'
    <2>1. Lanes(queue, active, max, gen)'
        BY <1>1, <1>4, <1>5 DEF LaneInv, Shape, Lanes
    <2>2. Commands(entry, body)'
        <3>1. entry' \in [Task -> Entry]
            BY <1>1, <1>2 DEF Entry
        <3>2. QED
            BY <1>1, <1>3, <3>1 DEF LaneInv, Shape, Commands
    <2>3. Waiting(queue, entry)'
        <3>1. SUFFICES ASSUME NEW k \in Lane, NEW t \in Task
                       PROVE  t \in ToSet(queue'[k]) <=> k = laneOf(t) /\ entry'[t] = "queued"
            BY DEF Waiting
        <3>2. t \in ToSet(queue[k]) <=> k = laneOf(t) /\ entry[t] = "queued"
            BY <1>1 DEF LaneInv, Shape, Waiting
        <3>3. CASE k = l
            BY <1>2, <1>3, <1>6, <3>3
        <3>4. CASE k # l
            BY <1>2, <1>3, <1>5, <3>2, <3>4
        <3>5. QED
            BY <3>3, <3>4
    <2>4. Running(active, gen, entry)'
        BY <1>1, <1>2, <1>3 DEF LaneInv, Shape, Running
    <2>5. QED
        BY <2>1, <2>2, <2>3, <2>4 DEF LaneInv, Shape
<1>8. \A k \in Lane : queue'[k] # <<>> => queue[k] # <<>>
    BY <1>5
<1>9. Moves
    BY <1>1, <1>3, <1>7, <1>8, StillMoves
<1>10. WaitStep /\ RestInv'
    BY <1>1 DEF WaitStep, RestInv
<1>11. QED
    BY <1>9, <1>10 DEF Effect

\* Some lanes are reset: their slots are given up, and what waits starts.
LEMMA ResetMoves ==
  ASSUME QueueInv, NEW lanes \in SUBSET Lane, Reset(lanes)
  PROVE  /\ Moves
         /\ \A l \in Lane : \A t \in active'[l] \ (IF l \in lanes THEN {} ELSE active[l]) :
              entry[t] = "queued"
         /\ released' \subseteq Task
<1> DEFINE a == [l \in Lane |-> IF l \in lanes THEN {} ELSE active[l]]
           g == [l \in Lane |-> IF l \in lanes THEN gen[l] + 1 ELSE gen[l]]
<1>1. /\ LaneInv /\ RestInv /\ Pump(lanes, queue, a, max, g, entry, body)
      /\ released' = released \cup UNION {active[l] : l \in lanes}
    BY DEF Reset, QueueInv
<1>2. /\ queue \in [Lane -> Seq(Task)] /\ active \in [Lane -> SUBSET Task] /\ gen \in [Lane -> Nat]
      /\ tgen \in [Task -> Nat]
      /\ \A t \in Task : tgen[t] <= gen[laneOf(t)]
    BY <1>1 DEF LaneInv, Shape, Lanes, Running, Commands
<1>3. /\ a \in [Lane -> SUBSET Task] /\ g \in [Lane -> Nat]
      /\ \A l \in Lane : a[l] = IF l \in lanes THEN {} ELSE active[l]
      /\ \A l \in Lane : g[l] = IF l \in lanes THEN gen[l] + 1 ELSE gen[l]
    BY <1>2
<1> HIDE DEF a, g
<1>4. \A l \in lanes : active[l] \subseteq released'
    BY <1>1
<1>5. released' \subseteq Task /\ released \subseteq released'
    BY <1>1, <1>2 DEF RestInv
<1>6. Shape(queue, a, max, g, entry, body)
    <2>1. Lanes(queue, a, max, g)
        <3>1. \A l \in Lane : IsFiniteSet(a[l])
            BY <1>1, <1>3, FS_EmptySet DEF LaneInv, Shape, Lanes
        <3>2. QED
            BY <1>1, <1>3, <3>1 DEF LaneInv, Shape, Lanes
    <2>2. Running(a, g, entry)
        <3>1. ASSUME NEW l \in Lane, NEW t \in Task
              PROVE  t \in a[l] <=> l = laneOf(t) /\ entry[t] = "started" /\ tgen[t] = g[l]
            <4>1. t \in active[l] <=> l = laneOf(t) /\ entry[t] = "started" /\ tgen[t] = gen[l]
                BY <1>1 DEF LaneInv, Shape, Running
            <4>2. l = laneOf(t) => tgen[t] # gen[l] + 1
                BY <1>2
            <4>3. QED
                BY <1>3, <4>1, <4>2
        <3>2. ASSUME NEW t \in Task
              PROVE  tgen[t] <= g[laneOf(t)]
            <4>1. laneOf(t) \in Lane
                BY LaneOfOK
            <4>2. gen[laneOf(t)] \in Nat /\ tgen[t] \in Nat /\ tgen[t] <= gen[laneOf(t)]
                BY <1>2, <4>1
            <4>3. g[laneOf(t)] = gen[laneOf(t)] \/ g[laneOf(t)] = gen[laneOf(t)] + 1
                BY <1>3, <4>1
            <4>4. \A m, n, k \in Nat : m <= n /\ (k = n \/ k = n + 1) => m <= k
                OBVIOUS
            <4>5. QED
                BY <1>3, <4>1, <4>2, <4>3, <4>4
        <3>3. QED
            BY <3>1, <3>2 DEF Running
    <2>3. Commands(entry, body) /\ Waiting(queue, entry)
        BY <1>1 DEF LaneInv, Shape
    <2>4. QED
        BY <2>1, <2>2, <2>3 DEF Shape
<1>7. \A k \in Lane : /\ Len(queue[k]) <= Len(queue[k])
                      /\ \A i \in 1..Len(queue[k]) : queue[k][i] = queue[k][i]
    BY <1>2
<1>8. /\ \A k \in Lane : a[k] \subseteq active[k] /\ \A u \in active[k] \ a[k] :
           entry[u] = "settled" \/ u \in released'
      /\ \A k \in Lane \ lanes : queue[k] = queue[k] /\ a[k] = active[k] /\ max[k] = max[k]
      /\ \A u \in Task : entry[u] = entry[u]
    BY <1>3, <1>4
<1>9. Moves /\ \A l \in Lane : \A t \in active'[l] \ a[l] : entry[t] = "queued"
    BY <1>1, <1>5, <1>6, <1>7, <1>8, PumpMoves
<1>10. QED
    BY <1>3, <1>5, <1>9

\* A stuck lane is reset, or the restart takes its steps.
LEMMA ResetEffect ==
  ASSUME QueueInv,
         (\E l \in Lane : resetCommandLane(l)) \/ RestartBegins \/ DrainTimesOut \/ RestartEnds
  PROVE  Effect
<1>1. LaneInv /\ RestInv
    BY DEF QueueInv
<1>2. ASSUME NEW l \in Lane, resetCommandLane(l)
      PROVE  Effect
    <2> DEFINE a == [active EXCEPT ![l] = {}]
    <2>1. Reset({l}) /\ Notify(a) /\ {l} \in SUBSET Lane
        BY <1>2 DEF resetCommandLane
    <2>2. \A k \in Lane : a[k] = IF k \in {l} THEN {} ELSE active[k]
        BY <1>1 DEF LaneInv, Shape, Lanes
    <2> HIDE DEF a
    <2>3. Moves /\ released' \subseteq Task /\ \A k \in Lane : \A t \in active'[k] \ a[k] : entry[t] = "queued"
        BY <2>1, <2>2, ResetMoves
    <2>4. \A t \in Task : entry[t] \in {"started", "settled"} => entry[t] # "queued"
        OBVIOUS
    <2>5. WaitStep /\ draining' = draining /\ captured' = captured /\ wait' \in {wait, "drained"}
        BY <2>1, <2>3, <2>4, NotifyWaits
    <2>6. QED
        BY <1>1, <2>3, <2>5 DEF Effect, RestInv
<1>3. CASE RestartBegins
    <2>1. /\ UNCHANGED <<queue, active, max, gen, entry, body, tgen, released>>
          /\ captured' = UNION {active[l] : l \in Lane} /\ draining' = TRUE
          /\ wait' \in IF captured' = {} THEN {"drained"} ELSE {"waiting", "timeout"}
        BY <1>3 DEF RestartBegins
    <2>2. LaneInv'
        BY <1>1, <2>1 DEF LaneInv, Shape, Lanes, Commands, Waiting, Running
    <2>3. Moves
        BY <1>1, <2>1, <2>2, StillMoves
    <2>4. \A l \in Lane : active[l] \subseteq {t \in Task : entry[t] = "started"}
        BY <1>1 DEF LaneInv, Shape, Lanes, Running
    <2>5. captured' \subseteq {t \in Task : entry'[t] = "started"}
        BY <2>1, <2>4
    <2>6. wait' = "drained" => captured' = {}
        BY <2>1
    <2>7. WaitStep /\ RestInv'
        BY <1>1, <2>1, <2>5, <2>6 DEF WaitStep, RestInv
    <2>8. QED
        BY <2>3, <2>7 DEF Effect
<1>4. CASE DrainTimesOut
    <2>1. /\ UNCHANGED <<queue, active, max, gen, entry, body, tgen, draining, captured, released>>
          /\ wait' = "timeout"
        BY <1>4 DEF DrainTimesOut
    <2>2. LaneInv'
        BY <1>1, <2>1 DEF LaneInv, Shape, Lanes, Commands, Waiting, Running
    <2>3. Moves
        BY <1>1, <2>1, <2>2, StillMoves
    <2>4. WaitStep /\ RestInv'
        BY <1>1, <2>1 DEF WaitStep, RestInv
    <2>5. QED
        BY <2>3, <2>4 DEF Effect
<1>5. CASE RestartEnds
    <2>1. Reset(Lane) /\ Lane \in SUBSET Lane /\ draining' = FALSE /\ wait' = "no" /\ captured' = {}
        BY <1>5 DEF RestartEnds
    <2>2. Moves /\ released' \subseteq Task
        BY <2>1, ResetMoves
    <2>3. WaitStep /\ RestInv'
        BY <2>1, <2>2 DEF WaitStep, RestInv
    <2>4. QED
        BY <2>2, <2>3 DEF Effect
<1>6. QED
    BY <1>2, <1>3, <1>4, <1>5

\* Every step does no more than Effect allows.
LEMMA StepEffect ==
  ASSUME QueueInv, Next
  PROVE  Effect
<1>1. ASSUME NEW t \in Task, EnqueueCommand(t) \/ EnqueueNested(t)
      PROVE  Effect
    <2>1. Enqueue(t) \/ (Nested[t] # None /\ Enqueue(Nested[t]))
        BY <1>1 DEF EnqueueCommand, EnqueueNested
    <2>2. Nested[t] # None => Nested[t] \in Task
        BY CommandQueueAssumption
    <2>3. QED
        BY <2>1, <2>2, EnqueueEffect
<1>2. ASSUME NEW t \in Task, TaskEnds(t) \/ TaskTimesOut(t)
      PROVE  Effect
    BY <1>2, TaskEffect
<1>3. ASSUME NEW c \in CronSizes, NEW n \in MainSizes, applyGatewayLaneConcurrency(c, n)
      PROVE  Effect
    BY <1>3, LimitEffect
<1>4. ASSUME NEW l \in Lane, clearCommandLane(l)
      PROVE  Effect
    BY <1>4, ClearEffect
<1>5. CASE (\E l \in Lane : resetCommandLane(l)) \/ RestartBegins \/ DrainTimesOut \/ RestartEnds
    BY <1>5, ResetEffect
<1>6. QED
    BY <1>1, <1>2, <1>3, <1>4, <1>5 DEF Next, TaskStep

\* At first nothing waits and nothing runs.
LEMMA QueueInit == Init => QueueInv
<1>1. SUFFICES ASSUME Init
               PROVE  QueueInv
    OBVIOUS
<1>2. Distinct(<<>>) /\ <<>> \in Seq(Task) /\ \A t \in Task : t \notin ToSet(<<>>)
    <2>1. <<>> \in Seq(Task)
        OBVIOUS
    <2>2. ToSet(<<>>) = {}
        BY <2>1, ElementsOf
    <2>3. Distinct(<<>>)
        BY DEF Distinct
    <2>4. QED
        BY <2>1, <2>2, <2>3
<1>3. Lanes(queue, active, max, gen)
    BY <1>1, <1>2, FS_EmptySet DEF Init, Lanes
<1>4. Commands(entry, body)
    BY <1>1 DEF Init, Commands, Entry, Body
<1>5. Waiting(queue, entry)
    BY <1>1, <1>2 DEF Init, Waiting
<1>6. Running(active, gen, entry)
    <2>1. \A t \in Task : laneOf(t) \in Lane
        BY LaneOfOK
    <2>2. QED
        BY <1>1, <2>1 DEF Init, Running
<1>7. FullInv /\ ReleasedInv /\ CapturedInv /\ RestInv /\ DrainedMeansSettled
    BY <1>1 DEF Init, FullInv, ReleasedInv, CapturedInv, RestInv, DrainedMeansSettled
<1>8. QED
    BY <1>3, <1>4, <1>5, <1>6, <1>7 DEF QueueInv, LaneInv, Shape

\* Every step preserves the invariant.
LEMMA QueueStep == QueueInv /\ [Next]_vars => QueueInv'
<1>1. SUFFICES ASSUME QueueInv, [Next]_vars
               PROVE  QueueInv'
    OBVIOUS
<1>2. CASE Next
    BY <1>1, <1>2, StepEffect, StepKeeps DEF Effect
<1>3. CASE UNCHANGED vars
    BY <1>1, <1>3 DEF vars, QueueInv, LaneInv, Shape, Lanes, Commands, Waiting, Running, FullInv,
       ReleasedInv, CapturedInv, RestInv, DrainedMeansSettled, laneOf
<1>4. QED
    BY <1>1, <1>2, <1>3
-----------------------------------------------------------------------------
(* The theorems *)

\* The inductive invariant of the lanes.
THEOREM LanesInvariant == Spec => []QueueInv
  BY QueueInit, QueueStep, PTL DEF Spec

\* Every variable keeps its type.
THEOREM LanesTypeCorrect == Spec => []TypeOK
<1>1. QueueInv => TypeOK
    BY DEF QueueInv, LaneInv, Shape, Lanes, Commands, RestInv, TypeOK, Entry, Body
<1>2. QED
    BY <1>1, LanesInvariant, PTL

\* A lane with entries waiting has no free slot, whatever completed, timed
\* out, was cleared, reset or reconfigured: drainLane was called when needed.
THEOREM LanesNeverIdle == Spec => []NoIdleSlot
<1>1. QueueInv => NoIdleSlot
    BY ActiveIsCurrent DEF QueueInv, FullInv, NoIdleSlot
<1>2. QED
    BY <1>1, LanesInvariant, PTL

\* waitForActiveTasks reports drained only when what it captured has settled
\* or was released by a reset.
THEOREM LanesDrainTruthfully == Spec => []DrainedMeansSettled
<1>1. QueueInv => DrainedMeansSettled
    BY DEF QueueInv
<1>2. QED
    BY <1>1, LanesInvariant, PTL

\* No step starts a task in a lane that is full.
THEOREM LanesKeepLimit == Spec => StartsWithinLimit
<1>1. ASSUME QueueInv, [Next]_vars
      PROVE  [\A l \in Lane : ~(Current(l)' \subseteq Current(l)) => Cardinality(Current(l)') <= max'[l]]_vars
    <2>1. SUFFICES ASSUME Next, NEW l \in Lane, ~(Current(l)' \subseteq Current(l))
                   PROVE  Cardinality(Current(l)') <= max'[l]
        BY <1>1
    <2>2. Moves /\ LaneInv /\ LaneInv'
        BY <1>1, <2>1, StepEffect DEF Effect, Moves, QueueInv
    <2>3. Current(l) = active[l] /\ Current(l)' = active'[l]
        BY <2>2, ActiveIsCurrent, ActiveIsCurrentNext
    <2>4. QED
        BY <2>1, <2>2, <2>3 DEF Moves
<1>2. QED
    BY <1>1, LanesInvariant, PTL DEF Spec, StartsWithinLimit

\* Every lane serves its queue in order: whatever starts was ahead of what is
\* left waiting.
THEOREM LanesKeepOrder == Spec => FirstComeFirstServed
<1>1. ASSUME QueueInv, Next
      PROVE  InOrder
    BY <1>1, StepEffect DEF Effect, Moves
<1>2. QueueInv /\ [Next]_vars => [InOrder]_vars
    BY <1>1
<1>3. QED
    BY <1>2, LanesInvariant, PTL DEF Spec, FirstComeFirstServed, InOrder
=============================================================================
