------------------------- MODULE CronServiceProofs -------------------------
(***************************************************************************)
(* Theorems about the cron service for any jobs, manual runs and limits.   *)
(***************************************************************************)
EXTENDS CronService, FiniteSetTheorems, TLAPS

Cfg == {"absent", "on", "off", "gone"}
NextRun == {"none", "later", "due"}
Marker == {"none", "fresh", "stuck"}
Last == {"none", "ok", "skipped", "error"}
JobState == [cfg : Cfg, next : NextRun, marker : Marker, last : Last, errors : 0..(MaxAttempts + 1)]
FileState == [next : NextRun, marker : Marker]
RunState == {"-", "waiting", "running"} \cup Outcomes
-----------------------------------------------------------------------------
(* The operators on one job *)

IsState(x, c, k) == x \in JobState /\ x.cfg = c /\ x.marker = k

\* Changing the fields of a job's state gives a job's state.
LEMMA FieldsOK ==
  ASSUME NEW b \in JobState
  PROVE  /\ \A n \in NextRun : IsState([b EXCEPT !.next = n], b.cfg, b.marker)
         /\ \A k \in Marker : IsState([b EXCEPT !.marker = k], b.cfg, k)
         /\ \A n \in NextRun, k \in Marker :
              IsState([b EXCEPT !.next = n, !.marker = k], b.cfg, k)
         /\ \A c \in Cfg : IsState([b EXCEPT !.cfg = c], c, b.marker)
         /\ \A c \in Cfg, n \in NextRun : IsState([b EXCEPT !.cfg = c, !.next = n], c, b.marker)
         /\ \A c \in Cfg, n \in NextRun, k \in Marker :
              IsState([b EXCEPT !.cfg = c, !.next = n, !.marker = k], c, k)
         /\ \A k \in Marker, e \in 0..(MaxAttempts + 1), l \in Last :
              IsState([b EXCEPT !.marker = k, !.errors = e, !.last = l], b.cfg, k)
         /\ \A k \in Marker, l \in Last, e \in 0..(MaxAttempts + 1), n \in NextRun, c \in Cfg :
              IsState([b EXCEPT !.marker = k, !.last = l, !.errors = e, !.next = n, !.cfg = c], c, k)
<1>1. ASSUME NEW x \in JobState
      PROVE  /\ \A n \in NextRun : IsState([x EXCEPT !.next = n], x.cfg, x.marker)
             /\ \A k \in Marker : IsState([x EXCEPT !.marker = k], x.cfg, k)
             /\ \A c \in Cfg : IsState([x EXCEPT !.cfg = c], c, x.marker)
             /\ \A e \in 0..(MaxAttempts + 1) : IsState([x EXCEPT !.errors = e], x.cfg, x.marker)
             /\ \A l \in Last : IsState([x EXCEPT !.last = l], x.cfg, x.marker)
    <2>1. \A n \in NextRun : IsState([x EXCEPT !.next = n], x.cfg, x.marker)
        BY DEF JobState, IsState
    <2>2. \A k \in Marker : IsState([x EXCEPT !.marker = k], x.cfg, k)
        BY DEF JobState, IsState
    <2>3. \A c \in Cfg : IsState([x EXCEPT !.cfg = c], c, x.marker)
        BY DEF JobState, IsState
    <2>4. \A e \in 0..(MaxAttempts + 1) : IsState([x EXCEPT !.errors = e], x.cfg, x.marker)
        BY DEF JobState, IsState
    <2>5. \A l \in Last : IsState([x EXCEPT !.last = l], x.cfg, x.marker)
        BY DEF JobState, IsState
    <2>6. QED
        BY <2>1, <2>2, <2>3, <2>4, <2>5
<1>2. ASSUME NEW n \in NextRun, NEW k \in Marker
      PROVE  IsState([b EXCEPT !.next = n, !.marker = k], b.cfg, k)
    <2> DEFINE x == [b EXCEPT !.next = n]
    <2>1. IsState(x, b.cfg, b.marker)
        BY <1>1
    <2> HIDE DEF x
    <2>2. IsState([x EXCEPT !.marker = k], b.cfg, k)
        BY <1>1, <2>1 DEF IsState
    <2>3. QED
        BY <2>2 DEF x
<1>3. ASSUME NEW c \in Cfg, NEW n \in NextRun
      PROVE  IsState([b EXCEPT !.cfg = c, !.next = n], c, b.marker)
    <2> DEFINE x == [b EXCEPT !.cfg = c]
    <2>1. IsState(x, c, b.marker)
        BY <1>1
    <2> HIDE DEF x
    <2>2. IsState([x EXCEPT !.next = n], c, b.marker)
        BY <1>1, <2>1 DEF IsState
    <2>3. QED
        BY <2>2 DEF x
<1>4. ASSUME NEW c \in Cfg, NEW n \in NextRun, NEW k \in Marker
      PROVE  IsState([b EXCEPT !.cfg = c, !.next = n, !.marker = k], c, k)
    <2> DEFINE x == [b EXCEPT !.cfg = c, !.next = n]
    <2>1. IsState(x, c, b.marker)
        BY <1>3
    <2> HIDE DEF x
    <2>2. IsState([x EXCEPT !.marker = k], c, k)
        BY <1>1, <2>1 DEF IsState
    <2>3. QED
        BY <2>2 DEF x
<1>5. ASSUME NEW k \in Marker, NEW e \in 0..(MaxAttempts + 1), NEW l \in Last
      PROVE  /\ IsState([b EXCEPT !.marker = k, !.errors = e, !.last = l], b.cfg, k)
             /\ IsState([b EXCEPT !.marker = k, !.last = l, !.errors = e], b.cfg, k)
    <2> DEFINE x == [b EXCEPT !.marker = k]
               y == [x EXCEPT !.errors = e]
               z == [x EXCEPT !.last = l]
    <2>1. IsState(x, b.cfg, k)
        BY <1>1
    <2> HIDE DEF x
    <2>2. IsState(y, b.cfg, k) /\ IsState(z, b.cfg, k)
        BY <1>1, <2>1 DEF IsState
    <2> HIDE DEF y, z
    <2>3. IsState([y EXCEPT !.last = l], b.cfg, k) /\ IsState([z EXCEPT !.errors = e], b.cfg, k)
        BY <1>1, <2>2 DEF IsState
    <2>4. QED
        BY <2>3 DEF x, y, z
<1>6. ASSUME NEW k \in Marker, NEW l \in Last, NEW e \in 0..(MaxAttempts + 1), NEW n \in NextRun, NEW c \in Cfg
      PROVE  IsState([b EXCEPT !.marker = k, !.last = l, !.errors = e, !.next = n, !.cfg = c], c, k)
    <2> DEFINE x == [b EXCEPT !.marker = k, !.last = l, !.errors = e]
               y == [x EXCEPT !.next = n]
    <2>1. IsState(x, b.cfg, k)
        BY <1>5
    <2> HIDE DEF x
    <2>2. IsState(y, b.cfg, k)
        BY <1>1, <2>1 DEF IsState
    <2> HIDE DEF y
    <2>3. IsState([y EXCEPT !.cfg = c], c, k)
        BY <1>1, <2>2 DEF IsState
    <2>4. QED
        BY <2>3 DEF x, y
<1>7. QED
    BY <1>1, <1>2, <1>3, <1>4, <1>5, <1>6

\* The next run that is computed is one.
LEMMA NextRunOK ==
  ASSUME NEW j, NEW b
  PROVE  computeJobNextRun(j, b) \in NextRun
  BY DEF computeJobNextRun, NextRun

\* A job without state.
LEMMA BlankOK ==
  ASSUME NEW c \in Cfg
  PROVE  Blank(c) \in JobState /\ Blank(c).cfg = c /\ Blank(c).marker = "none"
  BY CronServiceAssumption DEF Blank, JobState, NextRun, Marker, Last

\* The maintenance leaves the configuration alone, takes a marker only from a
\* disabled job or when it is stuck, and leaves a job due that is due.
LEMMA MaintainOK ==
  ASSUME NEW j \in Job, NEW b \in JobState
  PROVE  /\ Maintain(j, b) \in JobState
         /\ Maintain(j, b).cfg = b.cfg
         /\ Maintain(j, b).marker \in {"none", b.marker}
         /\ b.cfg = "on" /\ b.next = "due" => Maintain(j, b).next = "due"
<1>1. b.cfg \in Cfg /\ b.next \in NextRun /\ b.marker \in Marker
    BY DEF JobState
<1>2. CASE b.cfg = "off"
    <2>1. Maintain(j, b) = [b EXCEPT !.next = "none", !.marker = "none"]
        BY <1>2 DEF Maintain
    <2>2. IsState(Maintain(j, b), b.cfg, "none")
        BY <2>1, FieldsOK DEF NextRun, Marker
    <2>3. QED
        BY <1>2, <2>2 DEF IsState
<1>3. CASE b.cfg = "on" /\ b.marker = "stuck"
    <2>1. Maintain(j, b) = [b EXCEPT !.marker = "none"]
        BY <1>3 DEF Maintain
    <2>2. IsState(Maintain(j, b), b.cfg, "none")
        BY <2>1, FieldsOK DEF Marker
    <2>3. Maintain(j, b).next = b.next
        BY <2>1 DEF JobState
    <2>4. QED
        BY <1>3, <2>2, <2>3 DEF IsState
<1>4. CASE b.cfg = "on" /\ b.marker # "stuck" /\ b.next = "none"
    <2>1. Maintain(j, b) = [b EXCEPT !.next = computeJobNextRun(j, b)]
        BY <1>4 DEF Maintain
    <2>2. IsState(Maintain(j, b), b.cfg, b.marker)
        BY <2>1, NextRunOK, FieldsOK
    <2>3. QED
        BY <1>4, <2>2 DEF IsState
<1>5. CASE b.cfg \notin {"on", "off"} \/ (b.cfg = "on" /\ b.marker # "stuck" /\ b.next # "none")
    <2>1. Maintain(j, b) = b
        BY <1>5 DEF Maintain
    <2>2. QED
        BY <2>1
<1>6. QED
    BY <1>2, <1>3, <1>4, <1>5

\* The count of errors stays within its range.
LEMMA ErrorsOK ==
  ASSUME NEW j \in Job, NEW b \in JobState, NEW r
  PROVE  CountErrors(j, b, r) \in 0..(MaxAttempts + 1)
  BY CronServiceAssumption DEF CountErrors, JobState

\* A result takes the marker, disables a one-shot that ended well, enables
\* nothing, and is dropped when the job is not in the store.
LEMMA ResultOK ==
  ASSUME NEW j \in Job, NEW b \in JobState, NEW r \in Outcomes
  PROVE  /\ applyJobResult(j, b, r) \in JobState
         /\ b.cfg \notin {"on", "off"} => applyJobResult(j, b, r) = b
         /\ b.cfg \in {"on", "off"} => /\ applyJobResult(j, b, r).marker = "none"
                                       /\ applyJobResult(j, b, r).cfg # "absent"
         /\ applyJobResult(j, b, r).cfg = "on" => b.cfg = "on" /\ ~(j \in At /\ r = "ok")
<1> DEFINE errors == CountErrors(j, b, r)
           last == IF r = "transient" THEN "error" ELSE r
           done == [b EXCEPT !.marker = "none", !.errors = errors, !.last = last]
           n == IF b.cfg = "on" THEN "later" ELSE "none"
<1>1. errors \in 0..(MaxAttempts + 1) /\ last \in Last
    BY ErrorsOK DEF Last, Outcomes
<1> HIDE DEF errors, last
<1>2. done \in JobState /\ done.marker = "none" /\ done.cfg = b.cfg
    <2>1. IsState(done, b.cfg, "none")
        BY <1>1, FieldsOK DEF Marker
    <2>2. QED
        BY <2>1 DEF IsState
<1>a. applyJobResult(j, b, r) =
        CASE b.cfg \notin {"on", "off"} -> b
          [] b.cfg \in {"on", "off"} /\ r = "ok" /\ j \in DeleteAfterRun -> Blank("gone")
          [] b.cfg \in {"on", "off"} /\ j \in At /\ r = "transient" /\ errors <= MaxAttempts ->
               [done EXCEPT !.next = "later"]
          [] b.cfg \in {"on", "off"} /\ j \in At /\ ~(r = "ok" /\ j \in DeleteAfterRun)
               /\ ~(r = "transient" /\ errors <= MaxAttempts) ->
               [done EXCEPT !.cfg = "off", !.next = "none"]
          [] OTHER -> [done EXCEPT !.next = n]
    BY Zenon DEF applyJobResult, errors, last
<1> HIDE DEF done
<1>3. CASE b.cfg \notin {"on", "off"}
    <2>1. applyJobResult(j, b, r) = b
        BY <1>a, <1>3
    <2>2. QED
        BY <1>3, <2>1
<1>4. CASE b.cfg \in {"on", "off"} /\ r = "ok" /\ j \in DeleteAfterRun
    <2>1. applyJobResult(j, b, r) = Blank("gone")
        BY <1>a, <1>4
    <2>2. QED
        BY <1>4, <2>1, BlankOK DEF Cfg
<1>5. CASE b.cfg \in {"on", "off"} /\ j \in At /\ r = "transient" /\ errors <= MaxAttempts
    <2>1. applyJobResult(j, b, r) = [done EXCEPT !.next = "later"]
        BY <1>a, <1>5
    <2>2. "later" \in NextRun
        BY DEF NextRun
    <2>3. IsState([done EXCEPT !.next = "later"], done.cfg, done.marker)
        BY <1>2, <2>2, FieldsOK
    <2>4. QED
        BY <1>2, <1>5, <2>1, <2>3 DEF IsState
<1>6. CASE b.cfg \in {"on", "off"} /\ j \in At /\ ~(r = "ok" /\ j \in DeleteAfterRun)
               /\ ~(r = "transient" /\ errors <= MaxAttempts)
    <2>1. applyJobResult(j, b, r) = [done EXCEPT !.cfg = "off", !.next = "none"]
        BY <1>a, <1>6
    <2>2. IsState(applyJobResult(j, b, r), "off", done.marker)
        <3>1. "off" \in Cfg /\ "none" \in NextRun
            BY DEF NextRun, Cfg
        <3>2. IsState([done EXCEPT !.cfg = "off", !.next = "none"], "off", done.marker)
            BY <1>2, <3>1, FieldsOK
        <3>3. QED
            BY <2>1, <3>2
    <2>3. QED
        BY <1>2, <1>6, <2>2 DEF IsState
<1>7. CASE b.cfg \in {"on", "off"} /\ j \notin At
    <2>1. j \notin DeleteAfterRun
        BY <1>7, CronServiceAssumption
    <2>2. applyJobResult(j, b, r) = [done EXCEPT !.next = n]
        BY <1>a, <1>7, <2>1
    <2>3. n \in NextRun
        BY DEF NextRun
    <2> HIDE DEF n
    <2>4. IsState([done EXCEPT !.next = n], done.cfg, done.marker)
        BY <1>2, <2>3, FieldsOK
    <2>5. QED
        BY <1>2, <1>7, <2>2, <2>4 DEF IsState
<1>8. QED
    BY <1>3, <1>4, <1>5, <1>6, <1>7
-----------------------------------------------------------------------------
(* What a step does to one job *)

Typed ==
  /\ job \in [Job -> JobState] /\ file \in [Job -> FileState] /\ disk \in [Job -> Cfg]
  /\ exec \in [Owner -> [Job -> RunState]]

\* The process lives on, and start() does not go back.
Flows == boot # "down" /\ boot' # "down" /\ (boot' = "marked" => boot = "marked")

SameRuns(j) == \A o \in Owner : exec'[o][j] = exec[o][j]
OtherRuns(j, o) == \A p \in Owner \ {o} : exec'[p][j] = exec[p][j]

\* The job is marked, in memory or in the state file.
Marked(j) == job[j].marker # "none" \/ file[j].marker # "none"

\* The state file follows the memory, or keeps its marker, or its being unmarked.
Written(j) == file'[j].marker = job'[j].marker
Kept(j) == file'[j].marker = "none" <=> file[j].marker = "none"

\* The runs of the job go on; its marker may be taken, or be set again in
\* memory, and its config written.
Goes(j) ==
  /\ boot' = boot \/ Flows
  /\ disk'[j] \in {disk[j], job[j].cfg}
  /\ job'[j].cfg = job[j].cfg
  /\ job'[j].marker # "none" => Marked(j) \/ (Run(j) /\ j \in held)
  /\ Written(j) \/ Kept(j)
  /\ boot = "down" => Kept(j) /\ (job'[j].marker = "none" => job[j].marker = "none")
  /\ j \in held' => j \in held
  /\ \A o \in Owner : /\ exec'[o][j] = "-" <=> exec[o][j] = "-"
                      /\ exec[o][j] = "ok" => exec'[o][j] = "ok"

\* A run of the job begins, by hand or because it is enabled and due.
Begins(j) ==
  /\ Flows
  /\ disk[j] = job[j].cfg /\ disk'[j] = disk[j]
  /\ job[j].cfg \in {"on", "off"} /\ (job[j].marker = "none" \/ file[j].marker = "none")
  /\ job'[j].cfg = job[j].cfg /\ job'[j].marker = "fresh" /\ Written(j)
  /\ \E o \in Owner : /\ exec'[o][j] \in {"waiting", "running"}
                      /\ o = "catchup" => boot' # "marked"
                      /\ o \in {"tick", "catchup"} => job[j].cfg = "on"
                      /\ OtherRuns(j, o)

\* A result of the job is stored, or dropped.
Ends(j) ==
  /\ Flows
  /\ disk'[j] = disk[j]
  /\ \E o \in Owner : /\ exec[o][j] \in Outcomes /\ exec'[o][j] = "-"
                      /\ OtherRuns(j, o)
                      /\ job'[j].cfg = "on" => job[j].cfg = "on" /\ ~(j \in At /\ exec[o][j] = "ok")
  /\ job[j].cfg \in {"on", "off"} =>
       job'[j].marker = "none" /\ job'[j].cfg # "absent" /\ Written(j)
  /\ job[j].cfg \notin {"on", "off"} =>
       job'[j].cfg = job[j].cfg /\ (job'[j].marker # "none" => Marked(j)) /\ (Written(j) \/ Kept(j))
  /\ j \in held' => j \in held /\ (job'[j].cfg = "gone" => job[j].cfg = "gone")

\* The job is added, updated or removed.
Edited(j) ==
  /\ Flows
  /\ disk'[j] = disk[j] /\ SameRuns(j)
  /\ job[j].cfg # "gone" /\ job'[j].cfg \in {"on", "off", "gone"}
  /\ job'[j].marker \in {"none", job[j].marker} /\ Written(j)
  /\ job'[j].cfg = "gone" => job'[j].marker = "none"
  /\ j \in held' => j \in held /\ job[j].cfg = "absent"

\* The start of the service clears the marker.
Marks(j) ==
  /\ boot = "down" /\ boot' = "marked"
  /\ disk'[j] = disk[j] /\ SameRuns(j)
  /\ job'[j].marker = "none" /\ Written(j)
  /\ job'[j].cfg \in {job[j].cfg, "off"}
  /\ job[j].marker # "none" /\ j \in At => job'[j].cfg = "off"
  /\ j \in held' => j \in held

\* The process dies.
Dies(j) ==
  /\ boot # "down" /\ boot' = "down"
  /\ disk'[j] = disk[j]
  /\ \A o \in Owner : exec'[o][j] = "-"
  /\ job'[j].cfg = disk[j] /\ job'[j].marker = file[j].marker /\ Kept(j)
  /\ j \notin held'

Kind(j) == Goes(j) \/ Begins(j) \/ Ends(j) \/ Edited(j) \/ Marks(j) \/ Dies(j)

\* DueSlotKept for one job and one step.
SlotKept(j) ==
  /\ Runnable(job[j]) /\ file[j].next = "due" /\ ~Run(j) /\ job'[j].cfg = "on" /\ job'[j].next # "due"
  => \/ \E o \in Owner : exec'[o][j] # "-"
     \/ j \in deferred
     \/ \E patch \in Patch : update(j, patch)
     \/ \E k \in Job : job[k].cfg = "absent" /\ job'[k].cfg = "on"

Summary == Typed' /\ \A j \in Job : Kind(j) /\ SlotKept(j)

\* Typed is the part of TypeOK that the runs are about.
LEMMA TypedOK == TypeOK => Typed
  BY DEF TypeOK, Typed, JobState, FileState, RunState, Cfg, NextRun, Marker, Last

\* The next states of the jobs have the type, and are computed job by job.
LEMMA MaintainAllOK ==
  ASSUME NEW jobs \in [Job -> JobState]
  PROVE  /\ MaintainAll(jobs) \in [Job -> JobState]
         /\ \A j \in Job : MaintainAll(jobs)[j] = Maintain(j, jobs[j])
  BY MaintainOK DEF MaintainAll

\* The same of recomputeNextRuns.
LEMMA RecomputeAllOK ==
  ASSUME NEW jobs \in [Job -> JobState]
  PROVE  /\ RecomputeAll(jobs) \in [Job -> JobState]
         /\ \A j \in Job : /\ RecomputeAll(jobs)[j].cfg = jobs[j].cfg
                           /\ RecomputeAll(jobs)[j].marker \in {"none", jobs[j].marker}
<1> DEFINE b(j) == Maintain(j, jobs[j])
           c(j) == IF jobs[j].cfg = "on" /\ jobs[j].marker # "stuck" /\ b(j).next = "due"
                   THEN [b(j) EXCEPT !.next = computeJobNextRun(j, b(j))] ELSE b(j)
<1>1. \A j \in Job : /\ b(j) \in JobState /\ b(j).cfg = jobs[j].cfg
                     /\ b(j).marker \in {"none", jobs[j].marker}
    BY MaintainOK
<1>2. RecomputeAll(jobs) = [j \in Job |-> c(j)]
    BY DEF RecomputeAll
<1> HIDE DEF b
<1>3. ASSUME NEW j \in Job
      PROVE  /\ c(j) \in JobState /\ c(j).cfg = jobs[j].cfg
             /\ c(j).marker \in {"none", jobs[j].marker}
    <2>1. IsState([b(j) EXCEPT !.next = computeJobNextRun(j, b(j))], b(j).cfg, b(j).marker)
        BY <1>1, NextRunOK, FieldsOK
    <2>2. QED
        BY <1>1, <2>1 DEF IsState
<1> HIDE DEF c
<1>4. QED
    BY <1>2, <1>3

\* What a block under locked() may rely on.
LEMMA LockedOK ==
  ASSUME Locked
  PROVE  boot # "down" /\ \A j \in Job : disk[j] = job[j].cfg
  BY DEF Locked, Writing

\* What persist() leaves in the state file.
LEMMA PersistsOK ==
  ASSUME job' \in [Job -> JobState], Persists
  PROVE  file' \in [Job -> FileState] /\ \A j \in Job : Written(j)
<1> DEFINE e(j) == [next |-> job'[j].next, marker |-> job'[j].marker]
<1>1. ASSUME NEW j \in Job
      PROVE  e(j) \in FileState /\ e(j).marker = job'[j].marker
    <2>1. job'[j].next \in NextRun /\ job'[j].marker \in Marker
        BY DEF JobState
    <2>2. QED
        BY <2>1 DEF FileState
<1>2. file' = [j \in Job |-> e(j)]
    BY DEF Persists, Saved
<1> HIDE DEF e
<1>3. QED
    BY <1>1, <1>2 DEF Written

\* The jobs that a block begins with: the memory, or what it loads again.
LEMMA BaseOK ==
  ASSUME Typed, NEW jobs, jobs = job \/ jobs = Reloaded
  PROVE  /\ jobs \in [Job -> JobState]
         /\ \A j \in Job : /\ jobs[j].cfg = job[j].cfg
                           /\ jobs[j].marker # "none" => Marked(j)
                           /\ jobs[j].marker = "none" => job[j].marker = "none" \/ file[j].marker = "none"
                           /\ job[j].next = "due" /\ file[j].next = "due" => jobs[j].next = "due"
<1>1. CASE jobs = job
    BY <1>1 DEF Typed, Marked
<1>2. CASE jobs = Reloaded
    <2>1. ASSUME NEW j \in Job
          PROVE  /\ jobs[j] \in JobState /\ jobs[j].cfg = job[j].cfg
                 /\ jobs[j].marker = file[j].marker /\ jobs[j].next = file[j].next
        <3> DEFINE n == file[j].next
                   k == file[j].marker
                   x == [job[j] EXCEPT !.next = n]
        <3>1. job[j] \in JobState /\ n \in NextRun /\ k \in Marker
            BY DEF Typed, FileState
        <3>2. jobs[j] = [job[j] EXCEPT !.next = n, !.marker = k]
            BY <1>2 DEF Reloaded
        <3> HIDE DEF n, k
        <3>3. IsState(jobs[j], job[j].cfg, k)
            <4>1. IsState([job[j] EXCEPT !.next = n, !.marker = k], job[j].cfg, k)
                BY <3>1, FieldsOK
            <4>2. QED
                BY <3>2, <4>1
        <3>4. jobs[j] = [x EXCEPT !.marker = k]
            BY <3>2
        <3>5. x \in JobState /\ x.next = n
            <4>1. IsState(x, job[j].cfg, job[j].marker)
                BY <3>1, FieldsOK
            <4>2. x.next = n
                BY <3>1, SMTT(20) DEF JobState
            <4>3. QED
                BY <4>1, <4>2 DEF IsState
        <3> HIDE DEF x
        <3>6. jobs[j].next = n
            BY <3>4, <3>5 DEF JobState
        <3>7. QED
            BY <3>3, <3>6 DEF IsState, n, k
    <2>2. jobs = [j \in Job |-> jobs[j]]
        BY <1>2 DEF Reloaded
    <2>3. jobs \in [Job -> JobState]
        BY <2>1, <2>2
    <2>4. QED
        BY <2>1, <2>3 DEF Marked
<1>3. QED
    BY <1>1, <1>2

\* The maintenance of all jobs: the runs go on.
LEMMA MaintenanceSummary ==
  ASSUME Typed, Locked, Flows, disk' = disk, exec' = exec,
         NEW jobs, jobs = job \/ jobs = Reloaded, job' = MaintainAll(jobs),
         file' = file \/ Persists, held' \subseteq held
  PROVE  Summary
<1>1. /\ job' \in [Job -> JobState]
      /\ \A j \in Job : job'[j] = Maintain(j, jobs[j])
    BY BaseOK, MaintainAllOK
<1>2. file' \in [Job -> FileState] /\ \A j \in Job : Written(j) \/ Kept(j)
    BY <1>1, PersistsOK DEF Typed, Kept
<1>3. Typed'
    BY <1>1, <1>2 DEF Typed
<1>4. ASSUME NEW j \in Job
      PROVE  Kind(j) /\ SlotKept(j)
    <2>1. /\ jobs[j] \in JobState /\ jobs[j].cfg = job[j].cfg
          /\ jobs[j].marker # "none" => Marked(j)
          /\ job[j].next = "due" /\ file[j].next = "due" => jobs[j].next = "due"
        BY BaseOK
    <2>2. /\ job'[j].cfg = jobs[j].cfg
          /\ job'[j].marker \in {"none", jobs[j].marker}
          /\ jobs[j].cfg = "on" /\ jobs[j].next = "due" => job'[j].next = "due"
        BY <1>1, <2>1, MaintainOK
    <2>3. Goes(j)
        BY <1>2, <2>1, <2>2 DEF Goes, Flows
    <2>4. SlotKept(j)
        BY <2>1, <2>2 DEF SlotKept, Runnable
    <2>5. QED
        BY <2>3, <2>4 DEF Kind
<1>5. QED
    BY <1>3, <1>4 DEF Summary

\* The jobs of a batch are marked, in the jobs that the block begins with.
Marking(o, now, jobs) ==
  /\ o = "catchup" => boot' # "marked"
  /\ \A j \in Job : exec[o][j] = "-"
  /\ \A j \in now : jobs[j].cfg = "on" /\ jobs[j].marker = "none"
  /\ job' = [j \in Job |-> IF j \in now THEN [jobs[j] EXCEPT !.marker = "fresh"] ELSE jobs[j]]
  /\ exec' = [exec EXCEPT ![o] = [j \in Job |-> IF j \in now THEN "waiting" ELSE "-"]]
  /\ (now = {} /\ file' = file) \/ Persists
  /\ held' \subseteq held \cup now

\* A batch is marked: the timer's, or the catch-up's.
LEMMA BatchSummary ==
  ASSUME Typed, Locked, Flows, disk' = disk,
         NEW o \in {"tick", "catchup"}, NEW now \in SUBSET Job,
         NEW jobs, jobs = job \/ jobs = Reloaded, Marking(o, now, jobs)
  PROVE  Summary
<1> USE DEF Marking
<1>0. o \in Owner
    BY DEF Owner
<1>1. ASSUME NEW j \in Job
      PROVE  /\ j \in now => IsState(job'[j], job[j].cfg, "fresh") /\ job'[j].next = jobs[j].next
             /\ j \notin now => job'[j] = jobs[j]
             /\ job'[j] \in JobState
             /\ jobs[j].cfg = job[j].cfg
             /\ jobs[j].marker # "none" => Marked(j)
             /\ jobs[j].marker = "none" => job[j].marker = "none" \/ file[j].marker = "none"
             /\ job[j].next = "due" /\ file[j].next = "due" => jobs[j].next = "due"
    <2>1. /\ jobs[j] \in JobState
          /\ jobs[j].cfg = job[j].cfg
          /\ jobs[j].marker # "none" => Marked(j)
          /\ jobs[j].marker = "none" => job[j].marker = "none" \/ file[j].marker = "none"
          /\ job[j].next = "due" /\ file[j].next = "due" => jobs[j].next = "due"
        BY BaseOK
    <2>2. IsState([jobs[j] EXCEPT !.marker = "fresh"], jobs[j].cfg, "fresh")
        BY <2>1, FieldsOK DEF Marker
    <2>3. [jobs[j] EXCEPT !.marker = "fresh"].next = jobs[j].next
        BY <2>1 DEF JobState
    <2>4. /\ j \in now => job'[j] = [jobs[j] EXCEPT !.marker = "fresh"]
          /\ j \notin now => job'[j] = jobs[j]
        OBVIOUS
    <2>5. /\ j \in now => IsState(job'[j], job[j].cfg, "fresh") /\ job'[j].next = jobs[j].next
          /\ job'[j] \in JobState
        BY <2>1, <2>2, <2>3, <2>4 DEF IsState
    <2>6. QED
        BY <2>1, <2>4, <2>5
<1>2. /\ \A j \in Job : exec'[o][j] = IF j \in now THEN "waiting" ELSE "-"
      /\ \A p \in Owner \ {o} : exec'[p] = exec[p]
    BY <1>0 DEF Typed
<1>3. job' \in [Job -> JobState]
    <2>1. \A j \in Job : job'[j] \in JobState
        BY <1>1
    <2>2. job' = [j \in Job |-> job'[j]]
        OBVIOUS
    <2>3. QED
        BY <2>1, <2>2
<1>4. file' \in [Job -> FileState] /\ (Persists => \A j \in Job : Written(j))
    BY <1>3, PersistsOK DEF Typed
<1>5. Typed'
    <2>1. [j \in Job |-> IF j \in now THEN "waiting" ELSE "-"] \in [Job -> RunState]
        BY DEF RunState
    <2>2. exec' \in [Owner -> [Job -> RunState]]
        BY <1>0, <2>1 DEF Typed
    <2>3. QED
        BY <1>3, <1>4, <2>2 DEF Typed
<1>6. ASSUME NEW j \in Job
      PROVE  Kind(j) /\ SlotKept(j)
    <2>1. CASE j \in now
        <3>1. Begins(j)
            <4>1. /\ exec'[o][j] \in {"waiting", "running"} /\ OtherRuns(j, o)
                BY <1>2, <2>1 DEF OtherRuns
            <4>2. Written(j)
                BY <1>4, <2>1
            <4>3. /\ disk[j] = job[j].cfg /\ (o = "catchup" => boot' # "marked")
                  /\ jobs[j].cfg = "on" /\ jobs[j].marker = "none"
                BY <2>1, LockedOK
            <4> HIDE DEF Marking
            <4>4. /\ job'[j].cfg = job[j].cfg /\ job'[j].marker = "fresh" /\ job[j].cfg = "on"
                  /\ job[j].marker = "none" \/ file[j].marker = "none"
                BY <1>1, <2>1, <4>3 DEF IsState
            <4>5. QED
                BY <1>0, <4>1, <4>2, <4>3, <4>4 DEF Begins
        <3>2. SlotKept(j)
            BY <1>0, <1>2, <2>1 DEF SlotKept
        <3>3. QED
            BY <3>1, <3>2 DEF Kind
    <2>2. CASE j \notin now
        <3>1. \A p \in Owner : exec'[p][j] = exec[p][j]
            BY <1>2, <2>2
        <3>2. Written(j) \/ Kept(j)
            BY <1>4 DEF Kept
        <3>3. job'[j] = jobs[j]
            BY <1>1, <2>2
        <3>4. job'[j].cfg = job[j].cfg /\ (job'[j].marker # "none" => Marked(j))
            BY <1>1, <3>3
        <3>5. Goes(j)
            BY <2>2, <3>1, <3>2, <3>4 DEF Goes, Flows
        <3>6. SlotKept(j)
            <4>1. job[j].next = "due" /\ file[j].next = "due" => job'[j].next = "due"
                BY <1>1, <3>3
            <4>2. QED
                BY <4>1 DEF SlotKept, Runnable
        <3>7. QED
            BY <3>5, <3>6 DEF Kind
    <2>3. QED
        BY <2>1, <2>2
<1>7. QED
    BY <1>5, <1>6 DEF Summary

\* The results of one owner are applied; the start staggers what it deferred.
LEMMA ResultsSummary ==
  ASSUME Typed, Locked, Flows, disk' = disk,
         NEW o \in Owner, NEW late \in SUBSET deferred,
         \A j \in Job : exec[o][j] \notin {"waiting", "running"},
         NEW base, base = job \/ base = Reloaded,
         job' = MaintainAll([j \in Job |->
           IF j \in late /\ ApplyResults(o, base)[j].cfg = "on"
           THEN [ApplyResults(o, base)[j] EXCEPT !.next = "later"] ELSE ApplyResults(o, base)[j]]),
         exec' = [exec EXCEPT ![o] = Idle],
         Persists, held' \subseteq held, \A j \in held' : job'[j].cfg # "gone"
  PROVE  Summary
<1> DEFINE a(j) == IF exec[o][j] \in Outcomes THEN applyJobResult(j, base[j], exec[o][j]) ELSE base[j]
           b(j) == IF j \in late /\ a(j).cfg = "on" THEN [a(j) EXCEPT !.next = "later"] ELSE a(j)
           jobs == [j \in Job |-> b(j)]
<1>1. job' = MaintainAll(jobs)
    BY DEF ApplyResults
<1>2. \A j \in Job : exec[o][j] \in RunState /\ base[j] \in JobState
    BY BaseOK DEF Typed
<1>3. \A j \in Job : exec[o][j] \in Outcomes \cup {"-"}
    BY <1>2 DEF RunState
<1>4. ASSUME NEW j \in Job
      PROVE  /\ a(j) \in JobState
             /\ exec[o][j] = "-" => a(j) = base[j]
             /\ exec[o][j] \in Outcomes =>
                  /\ base[j].cfg \notin {"on", "off"} => a(j) = base[j]
                  /\ base[j].cfg \in {"on", "off"} => a(j).marker = "none" /\ a(j).cfg # "absent"
                  /\ a(j).cfg = "on" => base[j].cfg = "on" /\ ~(j \in At /\ exec[o][j] = "ok")
    <2>1. CASE exec[o][j] \in Outcomes
        <3>1. a(j) = applyJobResult(j, base[j], exec[o][j]) /\ exec[o][j] # "-"
            BY <2>1 DEF Outcomes
        <3>2. QED
            BY <1>2, <2>1, <3>1, ResultOK
    <2>2. CASE exec[o][j] = "-"
        <3>1. a(j) = base[j] /\ exec[o][j] \notin Outcomes
            BY <2>2 DEF Outcomes
        <3>2. QED
            BY <1>2, <3>1
    <2>3. QED
        BY <1>3, <2>1, <2>2
<1> HIDE DEF a
<1>5. ASSUME NEW j \in Job
      PROVE  /\ b(j) \in JobState /\ b(j).cfg = a(j).cfg /\ b(j).marker = a(j).marker
             /\ j \notin deferred => b(j) = a(j)
    <2>1. "later" \in NextRun
        BY DEF NextRun
    <2>2. IsState([a(j) EXCEPT !.next = "later"], a(j).cfg, a(j).marker)
        BY <1>4, <2>1, FieldsOK
    <2>3. QED
        BY <1>4, <2>2 DEF IsState
<1> HIDE DEF b
<1>6. jobs \in [Job -> JobState] /\ \A j \in Job : jobs[j] = b(j)
    BY <1>5
<1> HIDE DEF jobs
<1>7. job' \in [Job -> JobState] /\ \A j \in Job : job'[j] = Maintain(j, b(j))
    BY <1>1, <1>6, MaintainAllOK
<1>8. /\ \A j \in Job : exec'[o][j] = "-"
      /\ \A p \in Owner \ {o} : exec'[p] = exec[p]
    BY DEF Typed, Idle
<1>9. file' \in [Job -> FileState] /\ \A j \in Job : Written(j)
    BY <1>7, PersistsOK
<1>10. Typed'
    <2>1. Idle \in [Job -> RunState]
        BY DEF Idle, RunState
    <2>2. exec' \in [Owner -> [Job -> RunState]]
        BY <2>1 DEF Typed
    <2>3. QED
        BY <1>7, <1>9, <2>2 DEF Typed
<1>11. ASSUME NEW j \in Job
       PROVE  Kind(j) /\ SlotKept(j)
    <2>1. /\ job'[j].cfg = a(j).cfg
          /\ job'[j].marker \in {"none", a(j).marker}
          /\ b(j).cfg = "on" /\ b(j).next = "due" => job'[j].next = "due"
        <3>1. b(j) \in JobState
            BY <1>5
        <3>2. /\ Maintain(j, b(j)).cfg = b(j).cfg
              /\ Maintain(j, b(j)).marker \in {"none", b(j).marker}
              /\ b(j).cfg = "on" /\ b(j).next = "due" => Maintain(j, b(j)).next = "due"
            BY <3>1, MaintainOK
        <3>3. QED
            BY <1>5, <1>7, <3>2
    <2>2. /\ base[j].cfg = job[j].cfg
          /\ base[j].marker # "none" => Marked(j)
          /\ job[j].next = "due" /\ file[j].next = "due" => base[j].next = "due"
        BY BaseOK
    <2>3. SlotKept(j)
        <3>1. SUFFICES ASSUME Runnable(job[j]), file[j].next = "due", ~Run(j), j \notin deferred
                       PROVE  job'[j].next = "due"
            BY DEF SlotKept
        <3>2. b(j) = base[j]
            BY <1>4, <1>5, <3>1 DEF Run
        <3>3. QED
            BY <2>1, <2>2, <3>1, <3>2 DEF Runnable
    <2>4. CASE exec[o][j] = "-"
        <3>1. \A p \in Owner : exec'[p][j] = exec[p][j]
            BY <1>8, <2>4
        <3>2. a(j) = base[j]
            BY <1>4, <2>4
        <3>3. Goes(j)
            BY <1>9, <2>1, <2>2, <3>1, <3>2 DEF Goes, Flows
        <3>4. QED
            BY <2>3, <3>3 DEF Kind
    <2>5. CASE exec[o][j] \in Outcomes
        <3>1. exec'[o][j] = "-" /\ OtherRuns(j, o)
            BY <1>8 DEF OtherRuns
        <3>2. /\ job[j].cfg \in {"on", "off"} => a(j).marker = "none" /\ a(j).cfg # "absent"
              /\ job[j].cfg \notin {"on", "off"} => a(j) = base[j]
              /\ a(j).cfg = "on" => job[j].cfg = "on" /\ ~(j \in At /\ exec[o][j] = "ok")
            BY <1>4, <2>2, <2>5
        <3>3. Ends(j)
            BY <1>9, <2>1, <2>2, <2>5, <3>1, <3>2 DEF Ends
        <3>4. QED
            BY <2>3, <3>3 DEF Kind
    <2>6. QED
        BY <1>3, <2>4, <2>5
<1>12. QED
    BY <1>10, <1>11 DEF Summary

\* A step on one job: the runs of the others go on.
LEMMA PointSummary ==
  ASSUME Typed, boot' = boot, disk' = disk, NEW k \in Job, NEW x \in JobState,
         job' = [job EXCEPT ![k] = x],
         Persists \/ (file' \in [Job -> FileState] /\ \A j \in Job \ {k} : Kept(j)),
         boot = "down" => \A j \in Job \ {k} : Kept(j),
         held' \subseteq held,
         exec' \in [Owner -> [Job -> RunState]],
         \A j \in Job \ {k} : SameRuns(j),
         Kind(k), SlotKept(k)
  PROVE  Summary
<1>1. job' \in [Job -> JobState] /\ \A j \in Job \ {k} : job'[j] = job[j]
    BY DEF Typed
<1>2. file' \in [Job -> FileState] /\ \A j \in Job \ {k} : Written(j) \/ Kept(j)
    BY <1>1, PersistsOK
<1>3. Typed'
    BY <1>1, <1>2 DEF Typed
<1>4. ASSUME NEW j \in Job \ {k}
      PROVE  Goes(j) /\ SlotKept(j)
    BY <1>1, <1>2 DEF Goes, SameRuns, SlotKept, Runnable, Marked
<1>5. QED
    BY <1>3, <1>4 DEF Summary, Kind

\* Nothing happens to the jobs but that their config is written.
LEMMA StutterSummary ==
  ASSUME Typed, boot' = boot, disk' \in [Job -> Cfg], job' = job, file' = file,
         held' \subseteq held,
         \A j \in Job : disk'[j] \in {disk[j], job[j].cfg},
         exec' \in [Owner -> [Job -> RunState]],
         \A o \in Owner, j \in Job : /\ exec'[o][j] = "-" <=> exec[o][j] = "-"
                                     /\ exec[o][j] = "ok" => exec'[o][j] = "ok"
  PROVE  Summary
<1>1. Typed'
    BY DEF Typed
<1>2. ASSUME NEW j \in Job
      PROVE  Goes(j) /\ SlotKept(j)
    BY DEF Goes, SlotKept, Runnable, Marked, Kept
<1>3. QED
    BY <1>1, <1>2 DEF Summary, Kind
-----------------------------------------------------------------------------
(* The summary of every action *)

\* The timer and the end of its batch.
LEMMA TickSummary ==
  ASSUME TypeOK, onTimer \/ TickApplies
  PROVE  Summary
<1>0. Typed /\ "tick" \in Owner
    BY TypedOK DEF Owner
<1>1. CASE onTimer
    <2> DEFINE due == {j \in Job : Runnable(Reloaded[j])}
               jobs == Reloaded
    <2>1. /\ Locked /\ Flows /\ disk' = disk /\ exec["tick"] = Idle
          /\ Persists /\ held' = due
        BY <1>1, LockedOK DEF onTimer, Flows, bootVars
    <2>2. CASE due = {}
        <3>1. job' = MaintainAll(jobs) /\ exec' = exec
            BY <1>1, <2>2 DEF onTimer
        <3>2. jobs = Reloaded
            OBVIOUS
        <3>3. held' \subseteq held
            BY <2>1, <2>2
        <3> HIDE DEF jobs, due
        <3>4. QED
            BY <1>0, <2>1, <3>1, <3>2, <3>3, MaintenanceSummary
    <2>3. CASE due # {}
        <3>1. /\ job' = [j \in Job |-> IF j \in due THEN [jobs[j] EXCEPT !.marker = "fresh"] ELSE jobs[j]]
              /\ exec' = [exec EXCEPT !["tick"] = [j \in Job |-> IF j \in due THEN "waiting" ELSE "-"]]
            BY <1>1, <2>3 DEF onTimer
        <3>2. /\ \A j \in Job : exec["tick"][j] = "-"
              /\ \A j \in due : jobs[j].cfg = "on" /\ jobs[j].marker = "none"
              /\ due \in SUBSET Job
              /\ jobs = Reloaded
            BY <2>1 DEF Idle, Runnable
        <3> HIDE DEF due, jobs
        <3>3. Marking("tick", due, jobs)
            BY <2>1, <3>1, <3>2 DEF Marking
        <3>4. QED
            BY <1>0, <2>1, <3>2, <3>3, BatchSummary
    <2>4. QED
        BY <2>2, <2>3
<1>2. CASE TickApplies
    <2> DEFINE base == Reloaded
    <2>1. /\ Locked /\ Flows /\ disk' = disk
          /\ exec' = [exec EXCEPT !["tick"] = Idle]
          /\ \A j \in Job : exec["tick"][j] \notin {"waiting", "running"}
          /\ Persists /\ held' = {}
        BY <1>2, LockedOK DEF TickApplies, Flows, bootVars, Finished
    <2>2. job' = MaintainAll([j \in Job |->
            IF j \in {} /\ ApplyResults("tick", base)[j].cfg = "on"
            THEN [ApplyResults("tick", base)[j] EXCEPT !.next = "later"]
            ELSE ApplyResults("tick", base)[j]])
        <3>1. ApplyResults("tick", base) = [j \in Job |-> ApplyResults("tick", base)[j]]
            BY DEF ApplyResults
        <3>2. [j \in Job |-> IF j \in {} /\ ApplyResults("tick", base)[j].cfg = "on"
                             THEN [ApplyResults("tick", base)[j] EXCEPT !.next = "later"]
                             ELSE ApplyResults("tick", base)[j]]
              = [j \in Job |-> ApplyResults("tick", base)[j]]
            OBVIOUS
        <3>3. QED
            BY <1>2, <3>1, <3>2 DEF TickApplies
    <2>3. {} \in SUBSET deferred /\ base = Reloaded
        OBVIOUS
    <2> HIDE DEF base
    <2>4. QED
        BY <1>0, <2>1, <2>2, <2>3, ResultsSummary
<1>3. QED
    BY <1>1, <1>2

\* A run returns.
LEMMA RunEndsSummary ==
  ASSUME TypeOK, NEW o \in Owner, NEW j \in Job, RunEnds(o, j)
  PROVE  Summary
<1>1. /\ Typed /\ boot' = boot /\ disk' = disk /\ job' = job /\ file' = file /\ held' = held
      /\ exec[o][j] = "running"
    BY TypedOK DEF RunEnds, bootVars
<1>2. PICK r \in RunState \ {"-"} : exec' = [exec EXCEPT ![o][j] = r]
    BY DEF RunEnds, Outcome, Outcomes, RunState
<1>3. exec' \in [Owner -> [Job -> RunState]]
    BY <1>1, <1>2 DEF Typed
<1>4. \A p \in Owner, k \in Job : exec'[p][k] = IF p = o /\ k = j THEN r ELSE exec[p][k]
    BY <1>1, <1>2 DEF Typed
<1>5. disk' \in [Job -> Cfg]
    BY <1>1 DEF Typed
<1>6. \A p \in Owner, k \in Job : /\ exec'[p][k] = "-" <=> exec[p][k] = "-"
                                  /\ exec[p][k] = "ok" => exec'[p][k] = "ok"
    BY <1>1, <1>2, <1>4
<1>7. QED
    BY <1>1, <1>3, <1>5, <1>6, StutterSummary

\* A run starts, and may mark its job again.
LEMMA RunStartsSummary ==
  ASSUME TypeOK, NEW o \in Owner, NEW j \in Job, RunStarts(o, j)
  PROVE  Summary
<1>1. /\ Typed /\ boot' = boot /\ disk' = disk /\ file' = file /\ held' \subseteq held
      /\ exec[o][j] = "waiting" /\ exec' = [exec EXCEPT ![o][j] = "running"]
    BY TypedOK DEF RunStarts, bootVars
<1>2. exec' \in [Owner -> [Job -> RunState]]
    BY <1>1 DEF Typed, RunState
<1>3. \A p \in Owner, k \in Job : exec'[p][k] = IF p = o /\ k = j THEN "running" ELSE exec[p][k]
    BY <1>1 DEF Typed
<1>4. \A p \in Owner, k \in Job : /\ exec'[p][k] = "-" <=> exec[p][k] = "-"
                                  /\ exec[p][k] = "ok" => exec'[p][k] = "ok"
    BY <1>1, <1>3
<1>5. Run(j) /\ \A k \in Job : Kept(k)
    BY <1>1 DEF Run, Kept
<1>6. CASE o = "tick" /\ j \in held
    <2> DEFINE x == [job[j] EXCEPT !.marker = "fresh"]
    <2>1. job[j] \in JobState
        BY <1>1 DEF Typed
    <2>2. IsState(x, job[j].cfg, "fresh")
        BY <2>1, FieldsOK DEF Marker
    <2>3. job' = [job EXCEPT ![j] = x] /\ job'[j] = x
        BY <1>1, <1>6 DEF RunStarts, Typed
    <2> HIDE DEF x
    <2>4. \A k \in Job \ {j} : SameRuns(k)
        BY <1>3 DEF SameRuns
    <2>5. Goes(j)
        BY <1>1, <1>4, <1>5, <1>6, <2>2, <2>3 DEF Goes, IsState
    <2>6. SlotKept(j)
        BY <1>5 DEF SlotKept
    <2>7. x \in JobState /\ Kind(j)
        BY <2>2, <2>5 DEF IsState, Kind
    <2>8. file' \in [Job -> FileState]
        BY <1>1 DEF Typed
    <2>9. QED
        BY <1>1, <1>2, <1>5, <2>3, <2>4, <2>6, <2>7, <2>8, PointSummary
<1>7. CASE ~(o = "tick" /\ j \in held)
    <2>1. job' = job
        BY <1>7 DEF RunStarts
    <2>2. disk' \in [Job -> Cfg]
        BY <1>1 DEF Typed
    <2>3. QED
        BY <1>1, <1>2, <1>4, <2>1, <2>2, StutterSummary
<1>8. QED
    BY <1>6, <1>7

\* The first block of start().
LEMMA StartMarksSummary ==
  ASSUME TypeOK, StartMarks
  PROVE  Summary
<1>1. /\ Typed /\ boot = "down" /\ boot' = "marked" /\ disk' = disk /\ exec' = exec
      /\ Persists /\ held' = held
    BY TypedOK DEF StartMarks
<1>2. ASSUME NEW j \in Job
      PROVE  /\ job'[j] \in JobState /\ job'[j].marker = "none"
             /\ job'[j].cfg \in {job[j].cfg, "off"}
             /\ job[j].marker # "none" /\ j \in At => job'[j].cfg = "off"
             /\ job[j].marker = "none" => job'[j] = job[j]
    <2>1. job[j] \in JobState
        BY <1>1 DEF Typed
    <2>2. CASE job[j].marker = "none"
        <3>1. job'[j] = job[j]
            BY <2>2 DEF StartMarks
        <3>2. QED
            BY <2>1, <2>2, <3>1
    <2>3. CASE job[j].marker # "none"
        <3> DEFINE c == IF j \in At THEN "off" ELSE job[j].cfg
                   e == CountErrors(j, job[j], "error")
                   b == [job[j] EXCEPT !.marker = "none", !.last = "error", !.errors = e,
                                       !.next = "none", !.cfg = c]
        <3>1. job'[j] = b
            <4>1. job'[j] = markInterruptedStartupRun(j, job[j])
                BY <2>3 DEF StartMarks
            <4>2. QED
                BY <4>1, <2>1 DEF markInterruptedStartupRun, JobState
        <3>2. /\ c \in Cfg /\ e \in 0..(MaxAttempts + 1)
              /\ "none" \in Marker /\ "error" \in Last /\ "none" \in NextRun
            BY <2>1, ErrorsOK DEF JobState, Cfg, Marker, Last, NextRun
        <3>3. c \in {job[j].cfg, "off"} /\ (j \in At => c = "off")
            OBVIOUS
        <3> HIDE DEF c, e
        <3>4. IsState(b, c, "none")
            BY <2>1, <3>2, FieldsOK
        <3>5. QED
            BY <2>3, <3>1, <3>3, <3>4 DEF IsState
    <2>4. QED
        BY <2>2, <2>3
<1>3. job' \in [Job -> JobState]
    <2>1. job' = [j \in Job |-> job'[j]]
        BY DEF StartMarks
    <2>2. QED
        BY <1>2, <2>1
<1>4. file' \in [Job -> FileState] /\ \A j \in Job : Written(j)
    BY <1>1, <1>3, PersistsOK
<1>5. Typed'
    BY <1>1, <1>3, <1>4 DEF Typed
<1>6. ASSUME NEW j \in Job
      PROVE  Marks(j) /\ SlotKept(j)
    BY <1>1, <1>2, <1>4 DEF Marks, SameRuns, SlotKept, Runnable
<1>7. QED
    BY <1>5, <1>6 DEF Summary, Kind

\* planStartupCatchup; no catch-up is running yet.
LEMMA StartPlansSummary ==
  ASSUME TypeOK, StartPlans, \A j \in Job : exec["catchup"][j] = "-"
  PROVE  Summary
<1>1. Typed /\ Locked /\ boot = "marked" /\ disk' = disk /\ held' \subseteq held
    BY TypedOK DEF StartPlans
<1>2. PICK m \in Missed : \E now \in SUBSET (m \ AgentTurn) :
        /\ job' = [j \in Job |-> IF j \in now THEN [job[j] EXCEPT !.marker = "fresh"] ELSE job[j]]
        /\ exec' = [exec EXCEPT !["catchup"] = [j \in Job |-> IF j \in now THEN "waiting" ELSE "-"]]
        /\ boot' = IF m = {} THEN "caughtUp" ELSE "catchup"
        /\ file' = IF m = {} THEN file ELSE Saved(job')
    BY DEF StartPlans
<1>3. PICK now \in SUBSET (m \ AgentTurn) :
        /\ job' = [j \in Job |-> IF j \in now THEN [job[j] EXCEPT !.marker = "fresh"] ELSE job[j]]
        /\ exec' = [exec EXCEPT !["catchup"] = [j \in Job |-> IF j \in now THEN "waiting" ELSE "-"]]
        /\ boot' = IF m = {} THEN "caughtUp" ELSE "catchup"
        /\ file' = IF m = {} THEN file ELSE Saved(job')
    BY <1>2
<1>4. \A j \in m : j \in Job /\ job[j].cfg = "on" /\ job[j].marker = "none"
    BY CronServiceAssumption DEF Missed, Runnable
<1>5. Flows /\ boot' # "marked"
    BY <1>1, <1>3 DEF Flows
<1>6. now \in SUBSET Job /\ \A j \in now : job[j].cfg = "on" /\ job[j].marker = "none"
    BY <1>3, <1>4
<1>7. (now = {} /\ file' = file) \/ Persists
    BY <1>3 DEF Persists
<1>8. Marking("catchup", now, job)
    BY <1>1, <1>3, <1>5, <1>6, <1>7 DEF Marking
<1>9. QED
    BY <1>1, <1>5, <1>6, <1>8, BatchSummary

\* The rest of start(), and the second file of a persist().
LEMMA StartSummary ==
  ASSUME TypeOK, StartApplies \/ StartArms \/ ConfigWritten
  PROVE  Summary
<1>0. Typed /\ "catchup" \in Owner
    BY TypedOK DEF Owner
<1>1. CASE StartApplies
    <2>1. /\ Locked /\ Flows /\ disk' = disk
          /\ exec' = [exec EXCEPT !["catchup"] = Idle]
          /\ \A j \in Job : exec["catchup"][j] \notin {"waiting", "running"}
          /\ Persists /\ held' \subseteq held /\ \A j \in held' : job'[j].cfg # "gone"
        BY <1>1, LockedOK DEF StartApplies, Flows
    <2>2. job' = MaintainAll([j \in Job |->
            IF j \in deferred /\ ApplyResults("catchup", job)[j].cfg = "on"
            THEN [ApplyResults("catchup", job)[j] EXCEPT !.next = "later"]
            ELSE ApplyResults("catchup", job)[j]])
        BY <1>1 DEF StartApplies
    <2>3. deferred \in SUBSET deferred
        OBVIOUS
    <2>4. QED
        BY <1>0, <2>1, <2>2, <2>3, ResultsSummary
<1>2. CASE StartArms
    <2>1. /\ Locked /\ Flows /\ disk' = disk /\ exec' = exec /\ job' = MaintainAll(job)
          /\ file' = file \/ Persists
          /\ held' \subseteq held
        BY <1>2, LockedOK DEF StartArms, Flows, PersistsIfChanged, Persists
    <2>2. QED
        BY <1>0, <2>1, MaintenanceSummary
<1>3. CASE ConfigWritten
    <2>1. /\ disk' = [j \in Job |-> job[j].cfg]
          /\ boot' = boot /\ job' = job /\ file' = file /\ held' = held /\ exec' = exec
        BY <1>3 DEF ConfigWritten, bootVars
    <2>2. \A j \in Job : job[j].cfg \in Cfg
        BY <1>0 DEF Typed, JobState
    <2>3. disk' \in [Job -> Cfg] /\ \A j \in Job : disk'[j] \in {disk[j], job[j].cfg}
        BY <2>1, <2>2
    <2>4. exec' \in [Owner -> [Job -> RunState]]
        BY <1>0, <2>1 DEF Typed
    <2>5. QED
        BY <1>0, <2>1, <2>3, <2>4, StutterSummary
<1>4. QED
    BY <1>1, <1>2, <1>3

\* add, update and remove.
LEMMA EditSummary ==
  ASSUME TypeOK, NEW k \in Job,
         add(k) \/ remove(k) \/ \E patch \in Patch : update(k, patch)
  PROVE  Summary
<1>0. Typed /\ job[k] \in JobState
    BY TypedOK DEF Typed
<1>1. Locked /\ Flows /\ boot' = boot /\ disk' = disk /\ exec' = exec /\ Persists
    BY LockedOK DEF add, remove, update, bootVars, Flows
<1>2. exec' \in [Owner -> [Job -> RunState]] /\ \A j \in Job : SameRuns(j)
    BY <1>0, <1>1 DEF Typed, SameRuns
<1>3. CASE add(k)
    <2> DEFINE jobs == [job EXCEPT ![k] = Blank("on")]
    <2>1. job[k].cfg = "absent" /\ job' = RecomputeAll(jobs) /\ held' = held
        BY <1>3 DEF add
    <2>2. Blank("on") \in JobState /\ Blank("on").cfg = "on" /\ Blank("on").marker = "none"
        BY BlankOK DEF Cfg
    <2>3. /\ jobs \in [Job -> JobState] /\ jobs[k] = Blank("on")
          /\ \A j \in Job \ {k} : jobs[j] = job[j]
        BY <1>0, <2>2 DEF Typed
    <2> HIDE DEF jobs
    <2>4. /\ job' \in [Job -> JobState]
          /\ \A j \in Job : job'[j].cfg = jobs[j].cfg /\ job'[j].marker \in {"none", jobs[j].marker}
        BY <2>1, <2>3, RecomputeAllOK
    <2>5. file' \in [Job -> FileState] /\ \A j \in Job : Written(j)
        BY <1>1, <2>4, PersistsOK
    <2>6. Typed'
        BY <1>1, <1>2, <2>4, <2>5, <1>0 DEF Typed
    <2>7. Edited(k)
        BY <1>1, <1>2, <2>1, <2>2, <2>3, <2>4, <2>5 DEF Edited
    <2>8. \A j \in Job \ {k} : Goes(j)
        BY <1>1, <2>1, <2>3, <2>4, <2>5 DEF Goes, Flows, Marked
    <2>9. \A j \in Job : SlotKept(j)
        BY <2>1, <2>2, <2>3, <2>4 DEF SlotKept
    <2>10. QED
        BY <2>6, <2>7, <2>8, <2>9 DEF Summary, Kind
<1>4. CASE remove(k)
    <2>1. job[k].cfg \in {"on", "off"} /\ job' = [job EXCEPT ![k] = Blank("gone")]
        BY <1>4 DEF remove
    <2>2. Blank("gone") \in JobState /\ Blank("gone").cfg = "gone" /\ Blank("gone").marker = "none"
        BY BlankOK DEF Cfg
    <2>3. job'[k] = Blank("gone")
        BY <1>0, <2>1 DEF Typed
    <2>4. job' \in [Job -> JobState] /\ held' \subseteq held /\ k \notin held'
        BY <1>0, <1>4, <2>1, <2>2 DEF Typed, remove
    <2>5. Written(k)
        BY <1>1, <2>4, PersistsOK
    <2>6. Kind(k) /\ SlotKept(k)
        BY <1>1, <1>2, <2>1, <2>2, <2>3, <2>4, <2>5 DEF Kind, Edited, SlotKept
    <2>7. boot # "down"
        BY <1>1 DEF Flows
    <2>8. QED
        BY <1>0, <1>1, <1>2, <2>1, <2>2, <2>4, <2>6, <2>7, PointSummary
<1>5. ASSUME NEW patch \in Patch, update(k, patch)
      PROVE  Summary
    <2> DEFINE n == computeJobNextRun(k, job[k])
               b == CASE patch = "enable" -> [job[k] EXCEPT !.cfg = "on", !.next = n]
                      [] patch = "disable" -> [job[k] EXCEPT !.cfg = "off", !.next = "none", !.marker = "none"]
                      [] OTHER -> IF job[k].cfg = "on" /\ job[k].next = "none"
                                  THEN [job[k] EXCEPT !.next = n] ELSE job[k]
    <2>1. job[k].cfg \in {"on", "off"}
        BY <1>5 DEF update
    <2>2. job' = [job EXCEPT ![k] = b]
        BY <1>0, <1>5 DEF update, Typed
    <2>3. n \in NextRun /\ "none" \in NextRun /\ "none" \in Marker /\ "on" \in Cfg /\ "off" \in Cfg
        BY NextRunOK DEF NextRun, Marker, Cfg
    <2> HIDE DEF n
    <2>4. /\ b \in JobState
          /\ b.cfg \in {"on", "off"} /\ b.marker \in {"none", job[k].marker}
        <3>1. CASE patch = "enable"
            <4>1. b = [job[k] EXCEPT !.cfg = "on", !.next = n]
                BY <3>1
            <4>2. IsState([job[k] EXCEPT !.cfg = "on", !.next = n], "on", job[k].marker)
                BY <1>0, <2>3, FieldsOK
            <4>3. QED
                BY <4>1, <4>2 DEF IsState
        <3>2. CASE patch = "disable"
            <4>1. b = [job[k] EXCEPT !.cfg = "off", !.next = "none", !.marker = "none"]
                BY <3>2
            <4>2. IsState([job[k] EXCEPT !.cfg = "off", !.next = "none", !.marker = "none"], "off", "none")
                BY <1>0, <2>3, FieldsOK
            <4>3. QED
                BY <4>1, <4>2 DEF IsState
        <3>3. CASE patch = "other"
            <4>1. b = IF job[k].cfg = "on" /\ job[k].next = "none"
                      THEN [job[k] EXCEPT !.next = n] ELSE job[k]
                BY <3>3
            <4>2. IsState([job[k] EXCEPT !.next = n], job[k].cfg, job[k].marker)
                BY <1>0, <2>3, FieldsOK
            <4>3. QED
                BY <1>0, <2>1, <4>1, <4>2 DEF IsState
        <3>4. QED
            BY <3>1, <3>2, <3>3 DEF Patch
    <2> HIDE DEF b
    <2>5. job'[k] = b
        BY <1>0, <2>2 DEF Typed
    <2>6. /\ job' \in [Job -> JobState] /\ held' \subseteq held /\ k \notin held'
          /\ boot # "down"
        BY <1>0, <1>1, <1>5, <2>2, <2>4 DEF Typed, update, Flows
    <2>7. Written(k)
        BY <1>1, <2>6, PersistsOK
    <2>8. Edited(k)
        BY <1>1, <1>2, <2>1, <2>4, <2>5, <2>6, <2>7 DEF Edited
    <2>9. SlotKept(k) /\ Kind(k)
        BY <1>5, <2>8 DEF SlotKept, Kind
    <2>10. QED
        BY <1>0, <1>1, <1>2, <2>2, <2>4, <2>6, <2>9, PointSummary
<1>6. QED
    BY <1>3, <1>4, <1>5

\* Reading requests, and the manual runs.
LEMMA ManualSummary ==
  ASSUME TypeOK,
         \/ list
         \/ \E m \in Manual, j \in Job, mode \in {"due", "force"} : Preflight(m, j, mode)
         \/ \E m \in Manual : Reserve(m) \/ FinishManual(m)
  PROVE  Summary
<1>0. Typed /\ Manual \subseteq Owner
    BY TypedOK DEF Owner
<1>1. CASE list \/ \E m \in Manual, j \in Job, mode \in {"due", "force"} : Preflight(m, j, mode)
    <2>1. /\ Locked /\ boot' = boot /\ disk' = disk /\ exec' = exec /\ job' = MaintainAll(job)
          /\ file' = file \/ Persists
          /\ held' \subseteq held
        BY <1>1 DEF list, Preflight, bootVars, PersistsIfChanged, Persists
    <2>2. Flows
        BY <2>1, LockedOK DEF Flows
    <2>3. QED
        BY <1>0, <2>1, <2>2, MaintenanceSummary
<1>2. ASSUME NEW m \in Manual, Reserve(m)
      PROVE  Summary
    <2> DEFINE k == asked[m]
               x == [job[k] EXCEPT !.marker = "fresh"]
    <2>1. k \in Job /\ Locked /\ boot' = boot /\ disk' = disk /\ held' = held
        BY <1>2 DEF Reserve, bootVars, TypeOK
    <2>2. Flows /\ disk[k] = job[k].cfg
        BY <2>1, LockedOK DEF Flows
    <2>3. CASE job[k].cfg \in {"on", "off"} /\ job[k].marker = "none"
        <3>1. /\ job' = [job EXCEPT ![k].marker = "fresh"] /\ exec' = [exec EXCEPT ![m][k] = "running"]
              /\ Persists
            BY <1>2, <2>3 DEF Reserve
        <3> HIDE DEF k
        <3>2. job[k] \in JobState
            BY <1>0, <2>1 DEF Typed
        <3>3. IsState(x, job[k].cfg, "fresh")
            BY <3>2, FieldsOK DEF Marker
        <3>4. job' = [job EXCEPT ![k] = x] /\ job'[k] = x
            BY <1>0, <2>1, <3>1 DEF Typed
        <3>5. "running" \in RunState
            BY DEF RunState
        <3>6. exec' \in [Owner -> [Job -> RunState]]
            BY <1>0, <2>1, <3>1, <3>5 DEF Typed
        <3>7. \A p \in Owner, j \in Job : exec'[p][j] = IF p = m /\ j = k THEN "running" ELSE exec[p][j]
            BY <1>0, <2>1, <3>1 DEF Typed
        <3> HIDE DEF x
        <3>8. \A j \in Job \ {k} : SameRuns(j)
            BY <3>7 DEF SameRuns
        <3>9. exec'[m][k] = "running" /\ OtherRuns(k, m)
            BY <1>0, <2>1, <3>7 DEF OtherRuns
        <3>10. m \notin {"tick", "catchup"}
            BY CronServiceAssumption
        <3>11. x \in JobState
            BY <3>3 DEF IsState
        <3>12. job' \in [Job -> JobState] /\ boot # "down"
            BY <1>0, <2>2, <3>4, <3>11 DEF Typed, Flows
        <3>13. Written(k)
            BY <2>1, <3>1, <3>12, PersistsOK
        <3>14. Begins(k)
            BY <1>0, <2>1, <2>2, <2>3, <3>3, <3>4, <3>9, <3>10, <3>13 DEF Begins, IsState
        <3>15. SlotKept(k) /\ Kind(k)
            BY <1>0, <3>9, <3>14 DEF SlotKept, Kind
        <3>16. QED
            BY <1>0, <2>1, <3>1, <3>4, <3>6, <3>8, <3>11, <3>12, <3>15, PointSummary
    <2>4. CASE ~(job[k].cfg \in {"on", "off"} /\ job[k].marker = "none")
        <3>1. job' = job /\ file' = file /\ exec' = exec
            BY <1>2, <2>4 DEF Reserve
        <3>2. disk' \in [Job -> Cfg] /\ exec' \in [Owner -> [Job -> RunState]]
            BY <1>0, <2>1, <3>1 DEF Typed
        <3>3. QED
            BY <1>0, <2>1, <3>1, <3>2, StutterSummary
    <2>5. QED
        BY <2>3, <2>4
<1>3. ASSUME NEW m \in Manual, FinishManual(m)
      PROVE  Summary
    <2>1. /\ Locked /\ boot' = boot /\ disk' = disk
          /\ exec' = [exec EXCEPT ![m] = Idle]
          /\ \A j \in Job : exec[m][j] \notin {"waiting", "running"}
        BY <1>3 DEF FinishManual, bootVars, Finished
    <2>2. Flows
        BY <2>1, LockedOK DEF Flows
    <2>3. CASE \E j \in Job : exec[m][j] # "-" /\ job[j].cfg \in {"on", "off"}
        <3> DEFINE base == Reloaded
        <3>1. job' = MaintainAll([j \in Job |->
                IF j \in {} /\ ApplyResults(m, base)[j].cfg = "on"
                THEN [ApplyResults(m, base)[j] EXCEPT !.next = "later"]
                ELSE ApplyResults(m, base)[j]])
            <4>1. ApplyResults(m, base) = [j \in Job |-> ApplyResults(m, base)[j]]
                BY DEF ApplyResults
            <4>2. [j \in Job |-> IF j \in {} /\ ApplyResults(m, base)[j].cfg = "on"
                                 THEN [ApplyResults(m, base)[j] EXCEPT !.next = "later"]
                                 ELSE ApplyResults(m, base)[j]]
                  = [j \in Job |-> ApplyResults(m, base)[j]]
                OBVIOUS
            <4>3. job' = MaintainAll(ApplyResults(m, base))
                BY <1>3, <2>3 DEF FinishManual
            <4>4. QED
                BY <4>1, <4>2, <4>3
        <3>2. Persists /\ held' = {}
            BY <1>3, <2>3 DEF FinishManual
        <3>3. {} \in SUBSET deferred /\ m \in Owner /\ base = Reloaded
            BY <1>0
        <3> HIDE DEF base
        <3>4. QED
            BY <1>0, <2>1, <2>2, <3>1, <3>2, <3>3, ResultsSummary
    <2>4. CASE \A j \in Job : exec[m][j] = "-" \/ job[j].cfg \notin {"on", "off"}
        <3>1. job' = job /\ file' = file /\ held' = held
            BY <1>3, <2>4 DEF FinishManual
        <3>2. /\ \A j \in Job : exec'[m][j] = "-"
              /\ \A p \in Owner \ {m} : exec'[p] = exec[p]
            BY <1>0, <2>1 DEF Typed, Idle
        <3>3. Typed'
            <4>1. Idle \in [Job -> RunState]
                BY DEF Idle, RunState
            <4>2. exec' \in [Owner -> [Job -> RunState]]
                BY <1>0, <2>1, <4>1 DEF Typed
            <4>3. QED
                BY <1>0, <2>1, <3>1, <4>2 DEF Typed
        <3>4. ASSUME NEW j \in Job
              PROVE  Kind(j)
            <4>1. CASE exec[m][j] = "-"
                <5>1. \A p \in Owner : exec'[p][j] = exec[p][j]
                    BY <3>2, <4>1
                <5>2. Goes(j)
                    BY <2>1, <3>1, <5>1 DEF Goes, Marked, Kept
                <5>3. QED
                    BY <5>2 DEF Kind
            <4>2. CASE exec[m][j] # "-"
                <5>1. exec[m][j] \in Outcomes
                    BY <1>0, <2>1, <4>2 DEF Typed, RunState
                <5>2. exec'[m][j] = "-" /\ OtherRuns(j, m) /\ m \in Owner
                    BY <1>0, <3>2 DEF OtherRuns
                <5>3. Ends(j)
                    BY <2>1, <2>2, <2>4, <3>1, <4>2, <5>1, <5>2 DEF Ends, Marked, Kept
                <5>4. QED
                    BY <5>3 DEF Kind
            <4>3. QED
                BY <4>1, <4>2
        <3>5. \A j \in Job : SlotKept(j)
            BY <3>1 DEF SlotKept, Runnable
        <3>6. QED
            BY <3>3, <3>4, <3>5 DEF Summary
    <2>5. QED
        BY <2>3, <2>4
<1>4. QED
    BY <1>1, <1>2, <1>3

\* Time passes.
LEMMA TimeSummary ==
  ASSUME TypeOK, NEW k \in Job, TimeComes(k) \/ MarkerAges(k)
  PROVE  Summary
<1>0. Typed /\ job[k] \in JobState
    BY TypedOK DEF Typed
<1>1. boot' = boot /\ disk' = disk /\ exec' = exec /\ held' = held
    BY DEF TimeComes, MarkerAges, bootVars
<1>2. exec' \in [Owner -> [Job -> RunState]] /\ \A j \in Job : SameRuns(j)
    BY <1>0, <1>1 DEF Typed, SameRuns
<1>f. file \in [Job -> FileState] /\ file[k] \in FileState
    BY <1>0 DEF Typed
<1>3. CASE TimeComes(k)
    <2> DEFINE n == IF job[k].next = "later" THEN "due" ELSE job[k].next
               x == [job[k] EXCEPT !.next = n]
    <2>1. job' = [job EXCEPT ![k] = x] /\ job'[k] = x
        BY <1>0, <1>3 DEF TimeComes, Typed, JobState
    <2>2. n \in NextRun
        BY <1>0 DEF JobState, NextRun
    <2>3. x.next = n
        BY <1>0 DEF JobState
    <2>4. Runnable(job[k]) => n = "due"
        BY DEF Runnable
    <2> HIDE DEF n
    <2>5. IsState(x, job[k].cfg, job[k].marker)
        BY <1>0, <2>2, FieldsOK
    <2> HIDE DEF x
    <2>6. file' \in [Job -> FileState] /\ \A j \in Job : Kept(j)
        <3> DEFINE l == IF file[k].next = "later" THEN "due" ELSE file[k].next
                   y == [file[k] EXCEPT !.next = l]
        <3>1. file' = [file EXCEPT ![k] = y]
            BY <1>3, <1>f DEF TimeComes, FileState
        <3>2. l \in NextRun
            BY <1>f DEF FileState, NextRun
        <3> HIDE DEF l
        <3>3. y \in FileState /\ y.marker = file[k].marker
            BY <1>f, <3>2 DEF FileState
        <3> HIDE DEF y
        <3>4. QED
            BY <1>f, <3>1, <3>3 DEF Kept
    <2>7. Goes(k)
        BY <1>1, <1>2, <2>1, <2>5, <2>6 DEF Goes, IsState, Marked, SameRuns
    <2>8. SlotKept(k)
        BY <2>1, <2>3, <2>4 DEF SlotKept
    <2>9. x \in JobState /\ Kind(k)
        BY <2>5, <2>7 DEF IsState, Kind
    <2>10. QED
        BY <1>0, <1>1, <1>2, <2>1, <2>6, <2>8, <2>9, PointSummary
<1>4. CASE MarkerAges(k)
    <2> DEFINE a(m) == IF m = "fresh" THEN "stuck" ELSE m
               y == [file[k] EXCEPT !.marker = a(file[k].marker)]
    <2>1. file' \in [Job -> FileState] /\ \A j \in Job : Kept(j)
        <3>1. file' = [file EXCEPT ![k] = y]
            BY <1>4, <1>f DEF MarkerAges, FileState
        <3>2. a(file[k].marker) \in Marker /\ (a(file[k].marker) = "none" <=> file[k].marker = "none")
            BY <1>f DEF FileState, Marker
        <3> HIDE DEF a
        <3>3. y \in FileState /\ (y.marker = "none" <=> file[k].marker = "none")
            BY <1>f, <3>2 DEF FileState
        <3> HIDE DEF y
        <3>4. QED
            BY <1>f, <3>1, <3>3 DEF Kept
    <2>2. PICK c \in {job[k].marker, a(job[k].marker)} : job' = [job EXCEPT ![k].marker = c]
        <3>1. job = [job EXCEPT ![k].marker = job[k].marker]
            BY <1>0 DEF Typed, JobState
        <3>2. job' = job \/ job' = [job EXCEPT ![k].marker = a(job[k].marker)]
            BY <1>4 DEF MarkerAges
        <3>3. QED
            BY <3>1, <3>2
    <2>3. c \in Marker /\ (c = "none" <=> job[k].marker = "none")
        BY <1>0 DEF JobState, Marker
    <2> DEFINE x == [job[k] EXCEPT !.marker = c]
    <2>4. job' = [job EXCEPT ![k] = x] /\ job'[k] = x /\ x.next = job[k].next
        BY <1>0, <2>2 DEF Typed, JobState
    <2>5. IsState(x, job[k].cfg, c)
        BY <1>0, <2>3, FieldsOK
    <2> HIDE DEF x
    <2>6. Goes(k)
        BY <1>1, <1>2, <2>1, <2>3, <2>4, <2>5 DEF Goes, IsState, Marked, SameRuns
    <2>7. SlotKept(k)
        BY <2>4 DEF SlotKept, Runnable
    <2>8. x \in JobState /\ Kind(k)
        BY <2>5, <2>6 DEF IsState, Kind
    <2>9. QED
        BY <1>0, <1>1, <1>2, <2>1, <2>4, <2>7, <2>8, PointSummary
<1>5. QED
    BY <1>3, <1>4

\* The process dies, and the next one reads the files.
LEMMA CrashSummary ==
  ASSUME TypeOK, Crash
  PROVE  Summary
<1>1. /\ Typed /\ boot # "down" /\ boot' = "down" /\ disk' = disk /\ file' = file
      /\ exec' = [o \in Owner |-> Idle] /\ held' = {}
      /\ job' = [j \in Job |-> [Reloaded[j] EXCEPT !.cfg = disk[j]]]
    BY TypedOK DEF Crash
<1>2. ASSUME NEW j \in Job
      PROVE  /\ IsState(job'[j], disk[j], file[j].marker)
             /\ job[j].next = "due" /\ file[j].next = "due" => job'[j].next = "due"
    <2> DEFINE b == Reloaded[j]
    <2>1. /\ b \in JobState /\ disk[j] \in Cfg
          /\ job[j].next = "due" /\ file[j].next = "due" => b.next = "due"
        BY <1>1, BaseOK DEF Typed
    <2>2. b.marker = file[j].marker
        BY <1>1 DEF Reloaded, Typed, JobState
    <2>3. job'[j] = [b EXCEPT !.cfg = disk[j]]
        BY <1>1
    <2> HIDE DEF b
    <2>4. IsState([b EXCEPT !.cfg = disk[j]], disk[j], b.marker)
        BY <2>1, FieldsOK
    <2>5. [b EXCEPT !.cfg = disk[j]].next = b.next
        BY <2>1 DEF JobState
    <2>6. QED
        BY <2>1, <2>2, <2>3, <2>4, <2>5
<1>3. Typed'
    <2>1. \A j \in Job : job'[j] \in JobState
        BY <1>2 DEF IsState
    <2>2. job' = [j \in Job |-> job'[j]]
        BY <1>1
    <2>3. job' \in [Job -> JobState]
        BY <2>1, <2>2
    <2>4. exec' \in [Owner -> [Job -> RunState]]
        BY <1>1 DEF Idle, RunState
    <2>5. QED
        BY <1>1, <2>3, <2>4 DEF Typed
<1>4. ASSUME NEW j \in Job
      PROVE  Dies(j) /\ SlotKept(j)
    BY <1>1, <1>2 DEF Dies, SlotKept, IsState, Idle, Runnable, Kept
<1>5. QED
    BY <1>3, <1>4 DEF Summary, Kind
-----------------------------------------------------------------------------
(* The inductive invariant, job by job *)

\* A job that is not in the store, or whose addition is not written yet, has
\* no marker.
StoreInv(j) ==
  job[j].cfg \in {"absent", "gone"} \/ disk[j] \in {"absent", "gone"} => ~Marked(j)

\* The tick's batch holds objects of the store.
HeldInv(j) ==
  j \in held => job[j].cfg \in {"on", "off"} /\ disk[j] \in {"on", "off"}

\* No run outlives the process, and the catch-up waits for its plan.
BootInv(j) ==
  /\ boot = "down" => ~Run(j)
  /\ boot = "marked" => exec["catchup"][j] = "-"

\* A job that has never been added has not run.
AbsentInv(j) ==
  job[j].cfg = "absent" \/ disk[j] = "absent" => ~Run(j) /\ j \notin succeeded

\* A marker has its run, and a run its marker, unless that was taken away.
MarkerInv(j) ==
  /\ boot # "down" /\ Marked(j) => Run(j)
  /\ Run(j) /\ j \notin excused => job[j].marker # "none" /\ file[j].marker # "none"

\* Two runs of a job are one, unless the marker was taken away.
SoleInv(j) ==
  j \notin excused => \A o, p \in Owner : exec[o][j] # "-" /\ exec[p][j] # "-" => o = p

\* A one-shot that succeeded keeps its marker until it is disabled.
SuccInv(j) ==
  j \in succeeded =>
    /\ j \notin excused
    /\ \/ j \in torn
       \/ job[j].cfg # "on"
       \/ /\ job[j].marker # "none" /\ file[j].marker # "none"
          /\ \A o \in Owner : exec[o][j] \in {"-", "ok"}

JobInv(j) ==
  /\ StoreInv(j) /\ HeldInv(j) /\ BootInv(j) /\ AbsentInv(j)
  /\ MarkerInv(j) /\ SoleInv(j) /\ SuccInv(j)

CronInv == TypeOK /\ \A j \in Job : JobInv(j)

\* What History records of one job.
Recorded(j) ==
  /\ j \in excused' <=>
       \E o \in Owner : /\ exec'[o][j] # "-"
                        /\ \/ j \in excused
                           \/ exec[o][j] # "-" /\ job[j].marker # "none" /\ job'[j].marker = "none"
  /\ j \in succeeded' => /\ j \in At /\ j \notin excused'
                         /\ j \in succeeded \/ \E o \in Owner : exec'[o][j] = "ok"
                         /\ ~(job[j].cfg = "off" /\ job'[j].cfg = "on" /\ boot' # "down")
  /\ j \in torn => j \in torn'
  /\ boot # "down" /\ boot' = "down" /\ j \in At /\ disk[j] # job[j].cfg => j \in torn'

\* History, job by job.
LEMMA HistoryRecords ==
  ASSUME TypeOK, History, NEW j \in Job
  PROVE  Recorded(j)
<1>1. /\ j \in excused' <=>
           \E o \in Owner : /\ exec'[o][j] # "-"
                            /\ \/ j \in excused
                               \/ exec[o][j] # "-" /\ job[j].marker # "none" /\ job'[j].marker = "none"
    BY DEF History
<1>2. succeeded \subseteq At
    BY DEF TypeOK
<1>3. j \in succeeded' => /\ j \in At /\ j \notin excused'
                          /\ j \in succeeded \/ \E o \in Owner : exec'[o][j] = "ok"
                          /\ ~(job[j].cfg = "off" /\ job'[j].cfg = "on" /\ boot' # "down")
    BY <1>2 DEF History
<1>4. /\ j \in torn => j \in torn'
      /\ boot # "down" /\ boot' = "down" /\ j \in At /\ disk[j] # job[j].cfg => j \in torn'
    BY DEF History
<1>5. QED
    BY <1>1, <1>3, <1>4 DEF Recorded

\* The runs of a job go on.
LEMMA GoesKeeps ==
  ASSUME NEW j \in Job, JobInv(j), Recorded(j), Goes(j)
  PROVE  JobInv(j)'
<1>1. /\ StoreInv(j) /\ HeldInv(j) /\ BootInv(j) /\ AbsentInv(j)
      /\ MarkerInv(j) /\ SoleInv(j) /\ SuccInv(j)
    BY DEF JobInv
<1>2. Run(j)' <=> Run(j)
    BY DEF Run, Goes
<1>3. j \notin excused' /\ Run(j) => j \notin excused
    BY <1>2 DEF Recorded, Run
<1>4. StoreInv(j)' /\ HeldInv(j)'
    BY <1>1 DEF StoreInv, HeldInv, Marked, Written, Kept, Goes
<1>5. "catchup" \in Owner
    BY DEF Owner
<1>6. BootInv(j)'
    BY <1>1, <1>2, <1>5 DEF BootInv, Goes, Flows
<1>7. AbsentInv(j)'
    <2>1. ~Run(j) /\ j \notin succeeded => j \notin succeeded'
        BY <1>2 DEF Recorded, Run
    <2>2. job'[j].cfg = "absent" \/ disk'[j] = "absent" => job[j].cfg = "absent" \/ disk[j] = "absent"
        BY DEF Goes
    <2>3. QED
        BY <1>1, <1>2, <2>1, <2>2 DEF AbsentInv
<1>8. j \notin excused' /\ Run(j) /\ job[j].marker # "none" => job'[j].marker # "none"
    BY <1>2 DEF Recorded, Run, Goes
<1>n. file[j].marker # "none" /\ job'[j].marker # "none" => file'[j].marker # "none"
    BY DEF Goes, Written, Kept
<1>9. MarkerInv(j)'
    <2>1. Marked(j)' => Marked(j) \/ Run(j)
        BY DEF Goes, Marked, Written, Kept
    <2>2. boot' # "down" => boot # "down"
        BY DEF Goes, Flows
    <2>3. QED
        BY <1>1, <1>2, <1>3, <1>8, <1>n, <2>1, <2>2 DEF MarkerInv
<1>10. SoleInv(j)'
    <2>1. SUFFICES ASSUME j \notin excused', NEW o \in Owner, NEW p \in Owner,
                          exec'[o][j] # "-", exec'[p][j] # "-"
                   PROVE  o = p
        BY DEF SoleInv
    <2>2. exec[o][j] # "-" /\ exec[p][j] # "-" /\ Run(j)
        BY <2>1 DEF Goes, Run
    <2>3. QED
        BY <1>1, <1>3, <2>1, <2>2 DEF SoleInv
<1>11. SuccInv(j)'
    <2>1. SUFFICES ASSUME j \in succeeded', j \notin torn', job'[j].cfg = "on"
                   PROVE  /\ job'[j].marker # "none" /\ file'[j].marker # "none"
                          /\ \A o \in Owner : exec'[o][j] \in {"-", "ok"}
        BY DEF SuccInv, Recorded
    <2>2. j \notin excused' /\ j \notin torn /\ job[j].cfg = "on"
        BY <2>1 DEF Recorded, Goes
    <2>3. CASE j \in succeeded
        <3>1. /\ job[j].marker # "none" /\ file[j].marker # "none"
              /\ \A o \in Owner : exec[o][j] \in {"-", "ok"}
            BY <1>1, <2>2, <2>3 DEF SuccInv
        <3>2. boot # "down" => Run(j)
            BY <1>1, <3>1 DEF MarkerInv, Marked
        <3>3. job'[j].marker # "none"
            BY <1>8, <2>2, <3>1, <3>2 DEF Goes
        <3>4. QED
            BY <1>n, <3>1, <3>3 DEF Goes
    <2>4. ASSUME NEW o \in Owner, exec'[o][j] = "ok"
          PROVE  /\ job'[j].marker # "none" /\ file'[j].marker # "none"
                 /\ \A p \in Owner : exec'[p][j] \in {"-", "ok"}
        <3>1. exec[o][j] # "-" /\ exec'[o][j] # "-" /\ Run(j)
            BY <2>4 DEF Goes, Run
        <3>2. job'[j].marker # "none" /\ file'[j].marker # "none"
            BY <1>2, <1>9, <2>2, <3>1 DEF MarkerInv
        <3>3. \A p \in Owner : exec'[p][j] # "-" => p = o
            BY <1>10, <2>2, <3>1 DEF SoleInv
        <3>4. QED
            BY <2>4, <3>2, <3>3
    <2>5. QED
        BY <2>1, <2>3, <2>4 DEF Recorded
<1>12. QED
    BY <1>4, <1>6, <1>7, <1>9, <1>10, <1>11 DEF JobInv

\* A run begins.
LEMMA BeginsKeeps ==
  ASSUME NEW j \in Job, JobInv(j), Recorded(j), Begins(j)
  PROVE  JobInv(j)'
<1>1. /\ StoreInv(j) /\ HeldInv(j) /\ BootInv(j) /\ AbsentInv(j)
      /\ MarkerInv(j) /\ SoleInv(j) /\ SuccInv(j)
    BY DEF JobInv
<1>2. PICK o \in Owner : /\ exec'[o][j] \in {"waiting", "running"}
                         /\ o = "catchup" => boot' # "marked"
                         /\ \A p \in Owner \ {o} : exec'[p][j] = exec[p][j]
    BY DEF Begins, OtherRuns
<1>3. Run(j)' /\ exec'[o][j] # "-"
    BY <1>2 DEF Run
<1>4. j \notin excused' => j \notin excused /\ ~Run(j)
    BY <1>1, <1>3 DEF Recorded, MarkerInv, Begins
<1>5. StoreInv(j)' /\ HeldInv(j)' /\ AbsentInv(j)'
    BY DEF StoreInv, HeldInv, AbsentInv, Begins
<1>6. BootInv(j)'
    <2>1. boot' # "down" /\ (boot' = "marked" => boot = "marked") /\ "catchup" \in Owner
        BY DEF Begins, Flows, Owner
    <2>2. QED
        BY <1>1, <1>2, <2>1 DEF BootInv
<1>7. MarkerInv(j)'
    BY <1>3 DEF MarkerInv, Begins, Written
<1>8. SoleInv(j)'
    BY <1>2, <1>4 DEF SoleInv, Run
<1>9. SuccInv(j)'
    <2>1. SUFFICES ASSUME j \in succeeded', j \notin torn', job'[j].cfg = "on"
                   PROVE  FALSE
        BY DEF SuccInv, Recorded
    <2>2. /\ j \notin torn /\ job[j].cfg = "on"
          /\ job[j].marker = "none" \/ file[j].marker = "none"
        BY <2>1 DEF Recorded, Begins
    <2>3. j \notin succeeded
        BY <1>1, <2>2 DEF SuccInv
    <2>4. ~Run(j)
        BY <1>4, <2>1 DEF Recorded
    <2>5. \A p \in Owner : exec'[p][j] # "ok"
        BY <1>2, <2>4 DEF Run
    <2>6. QED
        BY <2>1, <2>3, <2>5 DEF Recorded
<1>10. QED
    BY <1>5, <1>6, <1>7, <1>8, <1>9 DEF JobInv

\* A run ends.
LEMMA EndsKeeps ==
  ASSUME NEW j \in Job, job[j].cfg \in Cfg, job'[j].cfg \in Cfg, JobInv(j), Recorded(j), Ends(j)
  PROVE  JobInv(j)'
<1>1. /\ StoreInv(j) /\ HeldInv(j) /\ BootInv(j) /\ AbsentInv(j)
      /\ MarkerInv(j) /\ SoleInv(j) /\ SuccInv(j)
    BY DEF JobInv
<1>2. PICK o \in Owner :
        /\ exec[o][j] \in Outcomes /\ exec'[o][j] = "-"
        /\ \A p \in Owner \ {o} : exec'[p][j] = exec[p][j]
        /\ job'[j].cfg = "on" => job[j].cfg = "on" /\ ~(j \in At /\ exec[o][j] = "ok")
    BY DEF Ends, OtherRuns
<1>3. Run(j) /\ exec[o][j] # "-"
    BY <1>2 DEF Run, Outcomes
<1>4. \A p \in Owner : exec'[p][j] # "-" => p # o /\ exec[p][j] = exec'[p][j]
    BY <1>2
<1>5. j \notin excused' => ~Run(j)'
    <2>1. SUFFICES ASSUME NEW p \in Owner, exec'[p][j] # "-"
                   PROVE  j \in excused'
        BY DEF Run
    <2>2. j \in excused
        BY <1>1, <1>3, <1>4, <2>1 DEF SoleInv
    <2>3. QED
        BY <2>1, <2>2 DEF Recorded
<1>6. job[j].cfg # "absent" /\ disk[j] # "absent" /\ job'[j].cfg # "absent" /\ disk'[j] # "absent"
    BY <1>1, <1>3 DEF AbsentInv, Ends
<1>7. job'[j].marker = "none" /\ file'[j].marker = "none"
    BY <1>1 DEF StoreInv, Ends, Cfg, Marked, Written, Kept
<1>8. StoreInv(j)' /\ AbsentInv(j)' /\ HeldInv(j)'
    <2>1. HeldInv(j)'
        <3>1. SUFFICES ASSUME j \in held'
                       PROVE  job'[j].cfg \in {"on", "off"} /\ disk'[j] \in {"on", "off"}
            BY DEF HeldInv
        <3>2. job[j].cfg \in {"on", "off"} /\ disk'[j] \in {"on", "off"} /\ job'[j].cfg # "gone"
            BY <1>1, <3>1 DEF HeldInv, Ends
        <3>3. QED
            BY <1>6, <3>2 DEF Cfg
    <2>2. QED
        BY <1>6, <1>7, <2>1 DEF StoreInv, AbsentInv, Marked
<1>9. BootInv(j)'
    <2>1. boot' # "down" /\ (boot' = "marked" => boot = "marked") /\ "catchup" \in Owner
        BY DEF Ends, Flows, Owner
    <2>2. QED
        BY <1>1, <1>2, <2>1 DEF BootInv
<1>10. MarkerInv(j)'
    BY <1>5, <1>7 DEF MarkerInv, Marked
<1>11. SoleInv(j)'
    BY <1>5 DEF SoleInv, Run
<1>12. SuccInv(j)'
    <2>1. SUFFICES ASSUME j \in succeeded', j \notin torn', job'[j].cfg = "on"
                   PROVE  FALSE
        BY DEF SuccInv, Recorded
    <2>2. j \notin torn /\ job[j].cfg = "on" /\ j \in At /\ j \notin excused'
        BY <1>2, <2>1 DEF Recorded
    <2>3. exec[o][j] # "ok"
        BY <1>2, <2>1, <2>2
    <2>4. j \notin succeeded
        BY <1>1, <1>3, <2>2, <2>3 DEF SuccInv
    <2>5. PICK p \in Owner : exec'[p][j] = "ok"
        BY <2>1, <2>4 DEF Recorded
    <2>6. Run(j)'
        BY <2>5 DEF Run
    <2>7. QED
        BY <1>5, <2>2, <2>6
<1>13. QED
    BY <1>8, <1>9, <1>10, <1>11, <1>12 DEF JobInv

\* The job is added, updated or removed.
LEMMA EditedKeeps ==
  ASSUME NEW j \in Job, job[j].cfg \in Cfg, JobInv(j), Recorded(j), Edited(j)
  PROVE  JobInv(j)'
<1>1. /\ StoreInv(j) /\ HeldInv(j) /\ BootInv(j) /\ AbsentInv(j)
      /\ MarkerInv(j) /\ SoleInv(j) /\ SuccInv(j)
    BY DEF JobInv
<1>2. (Run(j)' <=> Run(j)) /\ \A o \in Owner : exec'[o][j] = exec[o][j]
    BY DEF Run, Edited, SameRuns
<1>3. boot # "down" /\ boot' # "down" /\ (boot' = "marked" => boot = "marked") /\ "catchup" \in Owner
    BY DEF Edited, Flows, Owner
<1>4. j \notin excused' /\ Run(j) => j \notin excused
    BY <1>2 DEF Recorded, Run
<1>5. j \notin excused' /\ Run(j) /\ job[j].marker # "none" => job'[j].marker # "none"
    BY <1>2 DEF Recorded, Run
<1>6. StoreInv(j)' /\ HeldInv(j)'
    BY <1>1 DEF StoreInv, HeldInv, Edited, Marked, Written
<1>7. BootInv(j)'
    BY <1>1, <1>2, <1>3 DEF BootInv
<1>8. AbsentInv(j)'
    <2>1. ~Run(j) /\ j \notin succeeded => j \notin succeeded'
        BY <1>2 DEF Recorded, Run
    <2>2. job'[j].cfg = "absent" \/ disk'[j] = "absent" => disk[j] = "absent"
        BY DEF Edited
    <2>3. QED
        BY <1>1, <1>2, <2>1, <2>2 DEF AbsentInv
<1>9. MarkerInv(j)'
    <2>1. job'[j].marker # "none" => job[j].marker # "none"
        BY DEF Edited
    <2>2. file'[j].marker = job'[j].marker
        BY DEF Edited, Written
    <2>3. QED
        BY <1>1, <1>2, <1>3, <1>4, <1>5, <2>1, <2>2 DEF MarkerInv, Marked
<1>10. SoleInv(j)'
    <2>1. SUFFICES ASSUME j \notin excused', NEW o \in Owner, NEW p \in Owner,
                          exec'[o][j] # "-", exec'[p][j] # "-"
                   PROVE  o = p
        BY DEF SoleInv
    <2>2. exec[o][j] # "-" /\ exec[p][j] # "-" /\ Run(j)
        BY <1>2, <2>1 DEF Run
    <2>3. QED
        BY <1>1, <1>4, <2>1, <2>2 DEF SoleInv
<1>11. SuccInv(j)'
    <2>1. SUFFICES ASSUME j \in succeeded', j \notin torn', job'[j].cfg = "on"
                   PROVE  /\ job'[j].marker # "none" /\ file'[j].marker # "none"
                          /\ \A o \in Owner : exec'[o][j] \in {"-", "ok"}
        BY DEF SuccInv, Recorded
    <2>2. j \notin excused' /\ j \notin torn /\ job[j].cfg # "off"
        BY <1>3, <2>1 DEF Recorded
    <2>3. CASE j \in succeeded
        <3>1. job[j].cfg # "absent"
            BY <1>1, <2>3 DEF AbsentInv
        <3>2. job[j].cfg # "gone"
            BY DEF Edited
        <3>3. job[j].cfg = "on"
            BY <2>2, <3>1, <3>2 DEF Cfg
        <3>4. job[j].marker # "none" /\ \A o \in Owner : exec[o][j] \in {"-", "ok"}
            BY <1>1, <2>2, <2>3, <3>3 DEF SuccInv
        <3>5. Run(j)
            BY <1>1, <1>3, <3>4 DEF MarkerInv, Marked
        <3>6. QED
            BY <1>2, <1>9, <2>2, <3>4, <3>5 DEF MarkerInv
    <2>4. ASSUME NEW o \in Owner, exec'[o][j] = "ok"
          PROVE  /\ job'[j].marker # "none" /\ file'[j].marker # "none"
                 /\ \A p \in Owner : exec'[p][j] \in {"-", "ok"}
        <3>1. exec'[o][j] # "-" /\ Run(j)
            BY <1>2, <2>4 DEF Run
        <3>2. job'[j].marker # "none" /\ file'[j].marker # "none"
            BY <1>2, <1>9, <2>2, <3>1 DEF MarkerInv
        <3>3. \A p \in Owner : exec'[p][j] # "-" => p = o
            BY <1>10, <2>2, <3>1 DEF SoleInv
        <3>4. QED
            BY <2>4, <3>2, <3>3
    <2>5. QED
        BY <2>1, <2>3, <2>4 DEF Recorded
<1>12. QED
    BY <1>6, <1>7, <1>8, <1>9, <1>10, <1>11 DEF JobInv

\* The service is started, or dies: no run is left.
LEMMA BootKeeps ==
  ASSUME NEW j \in Job, JobInv(j), Recorded(j), Marks(j) \/ Dies(j)
  PROVE  JobInv(j)'
<1>1. /\ StoreInv(j) /\ HeldInv(j) /\ BootInv(j) /\ AbsentInv(j)
      /\ MarkerInv(j) /\ SoleInv(j) /\ SuccInv(j)
    BY DEF JobInv
<1>2. \A o \in Owner : exec'[o][j] = "-"
    BY <1>1 DEF BootInv, Marks, Dies, SameRuns, Run
<1>3. ~Run(j)' /\ "catchup" \in Owner
    BY <1>2 DEF Run, Owner
<1>4. j \notin excused' /\ (j \in succeeded' => j \in succeeded)
    BY <1>2 DEF Recorded
<1>5. StoreInv(j)' /\ AbsentInv(j)' /\ HeldInv(j)'
    <2>1. StoreInv(j)'
        BY <1>1 DEF StoreInv, Marked, Marks, Dies, Written, Kept
    <2>2. AbsentInv(j)'
        BY <1>1, <1>3, <1>4 DEF AbsentInv, Marks, Dies
    <2>3. HeldInv(j)'
        BY <1>1 DEF HeldInv, Marks, Dies
    <2>4. QED
        BY <2>1, <2>2, <2>3
<1>6. BootInv(j)' /\ MarkerInv(j)' /\ SoleInv(j)'
    BY <1>2, <1>3 DEF BootInv, MarkerInv, SoleInv, Marked, Marks, Dies, Written
<1>7. SuccInv(j)'
    <2>1. SUFFICES ASSUME j \in succeeded', j \notin torn', job'[j].cfg = "on"
                   PROVE  job'[j].marker # "none" /\ file'[j].marker # "none"
        BY <1>2, <1>4 DEF SuccInv
    <2>2. j \in succeeded /\ j \notin torn /\ j \in At
        BY <1>4, <2>1 DEF Recorded
    <2>3. CASE Marks(j)
        BY <1>1, <2>1, <2>2, <2>3 DEF Marks, SuccInv
    <2>4. CASE Dies(j)
        <3>1. disk[j] = job[j].cfg
            BY <2>1, <2>2, <2>4 DEF Recorded, Dies
        <3>2. QED
            BY <1>1, <2>1, <2>2, <2>4, <3>1 DEF Dies, SuccInv, Kept
    <2>5. QED
        BY <2>3, <2>4
<1>8. QED
    BY <1>5, <1>6, <1>7 DEF JobInv
-----------------------------------------------------------------------------
(* The steps *)

\* The cases of a step.
LEMMA StepCases ==
  ASSUME Next
  PROVE  \/ onTimer \/ TickApplies
         \/ StartMarks \/ StartPlans
         \/ StartApplies \/ StartArms \/ ConfigWritten
         \/ \E k \in Job : add(k) \/ remove(k) \/ \E patch \in Patch : update(k, patch)
         \/ list
         \/ \E m \in Manual, j \in Job, mode \in {"due", "force"} : Preflight(m, j, mode)
         \/ \E m \in Manual : Reserve(m) \/ FinishManual(m)
         \/ \E o \in Owner, j \in Job : RunStarts(o, j) \/ RunEnds(o, j)
         \/ \E j \in Job : TimeComes(j) \/ MarkerAges(j)
         \/ Crash
  BY DEF Next, BootStep, Request, ExecStep

\* Every step is one of those that the summary names, for every job.
LEMMA StepSummary ==
  ASSUME CronInv, Next
  PROVE  Summary
<1>1. TypeOK
    BY DEF CronInv
<1>2. CASE onTimer \/ TickApplies
    BY <1>1, <1>2, TickSummary
<1>3. CASE StartMarks
    BY <1>1, <1>3, StartMarksSummary
<1>4. CASE StartPlans
    <2>1. boot = "marked"
        BY <1>4 DEF StartPlans
    <2>2. \A j \in Job : exec["catchup"][j] = "-"
        BY <2>1 DEF CronInv, JobInv, BootInv
    <2>3. QED
        BY <1>1, <1>4, <2>2, StartPlansSummary
<1>5. CASE StartApplies \/ StartArms \/ ConfigWritten
    BY <1>1, <1>5, StartSummary
<1>6. CASE \E k \in Job : add(k) \/ remove(k) \/ \E patch \in Patch : update(k, patch)
    BY <1>1, <1>6, EditSummary
<1>7. CASE \/ list
           \/ \E m \in Manual, j \in Job, mode \in {"due", "force"} : Preflight(m, j, mode)
           \/ \E m \in Manual : Reserve(m) \/ FinishManual(m)
    BY <1>1, <1>7, ManualSummary
<1>8. CASE \E o \in Owner, j \in Job : RunStarts(o, j) \/ RunEnds(o, j)
    BY <1>1, <1>8, RunStartsSummary, RunEndsSummary
<1>9. CASE \E j \in Job : TimeComes(j) \/ MarkerAges(j)
    BY <1>1, <1>9, TimeSummary
<1>10. CASE Crash
    BY <1>1, <1>10, CrashSummary
<1>11. QED
    BY <1>2, <1>3, <1>4, <1>5, <1>6, <1>7, <1>8, <1>9, <1>10, StepCases

\* The other variables keep their types.
LEMMA RestStep ==
  ASSUME TypeOK, Next
  PROVE  /\ (held \subseteq Job)'
         /\ (past \subseteq At)'
         /\ boot' \in {"down", "marked", "catchup", "caughtUp", "up"}
         /\ (skip \subseteq Job /\ deferred \subseteq Job)'
         /\ asked' \in [Manual -> Job \cup {None}]
         /\ timer' \in BOOLEAN
         /\ events' \in 0..MaxEvents
         /\ (excused \subseteq Job /\ succeeded \subseteq At /\ torn \subseteq At)'
<1>1. (past \subseteq At)'
    BY StepCases DEF TypeOK, onTimer, TickApplies, StartMarks, StartPlans, StartApplies, StartArms,
       ConfigWritten, add, remove, update, list, Preflight, Reserve, FinishManual, RunStarts,
       RunEnds, TimeComes, MarkerAges, Crash
<1>2. boot' \in {"down", "marked", "catchup", "caughtUp", "up"}
    BY StepCases DEF TypeOK, onTimer, TickApplies, StartMarks, StartPlans, StartApplies, StartArms,
       ConfigWritten, add, remove, update, list, Preflight, Reserve, FinishManual, RunStarts,
       RunEnds, TimeComes, MarkerAges, Crash, bootVars
<1>3. (skip \subseteq Job)'
    BY StepCases DEF TypeOK, onTimer, TickApplies, StartMarks, StartPlans, StartApplies, StartArms,
       ConfigWritten, add, remove, update, list, Preflight, Reserve, FinishManual, RunStarts,
       RunEnds, TimeComes, MarkerAges, Crash, bootVars
<1>4. (deferred \subseteq Job)'
    <2>1. \A m \in Missed : m \subseteq Job
        BY CronServiceAssumption DEF Missed
    <2>2. StartPlans => (deferred \subseteq Job)'
        BY <2>1 DEF StartPlans
    <2>3. QED
        BY <2>2, StepCases DEF TypeOK, onTimer, TickApplies, StartMarks, StartApplies, StartArms,
           ConfigWritten, add, remove, update, list, Preflight, Reserve, FinishManual, RunStarts,
           RunEnds, TimeComes, MarkerAges, Crash, bootVars
<1>5. asked' \in [Manual -> Job \cup {None}]
    <2>1. \/ asked' = asked \/ asked' = [m \in Manual |-> None]
          \/ \E m \in Manual, x \in Job \cup {None} : asked' = [asked EXCEPT ![m] = x]
        <3>1. ASSUME NEW m \in Manual, NEW j \in Job, NEW mode, Preflight(m, j, mode)
              PROVE  \E x \in Job \cup {None} : asked' = [asked EXCEPT ![m] = x]
            BY <3>1, Zenon DEF Preflight
        <3>2. ASSUME NEW m \in Manual, Reserve(m)
              PROVE  asked' = [asked EXCEPT ![m] = None]
            BY <3>2 DEF Reserve
        <3>3. QED
            BY <3>1, <3>2, StepCases DEF onTimer, TickApplies, StartMarks, StartPlans, StartApplies,
               StartArms, ConfigWritten, add, remove, update, list, FinishManual, RunStarts,
               RunEnds, TimeComes, MarkerAges, Crash
    <2>2. asked \in [Manual -> Job \cup {None}]
        BY DEF TypeOK
    <2>3. QED
        BY <2>1, <2>2
<1>6. timer' \in BOOLEAN
    <2>1. armTimer(job') \/ timer' = timer \/ timer' = FALSE
        BY StepCases DEF onTimer, TickApplies, StartMarks, StartPlans, StartApplies, StartArms,
           ConfigWritten, add, remove, update, list, Preflight, Reserve, FinishManual, RunStarts,
           RunEnds, TimeComes, MarkerAges, Crash
    <2>2. armTimer(job') => timer' \in BOOLEAN
        BY Zenon DEF armTimer
    <2>3. timer \in BOOLEAN
        BY DEF TypeOK
    <2>4. QED
        BY <2>1, <2>2, <2>3
<1>7. events' \in 0..MaxEvents
    <2>1. events' = events \/ (events < MaxEvents /\ events' = events + 1)
        BY StepCases DEF onTimer, TickApplies, StartMarks, StartPlans, StartApplies, StartArms,
           ConfigWritten, add, remove, update, list, Preflight, Reserve, FinishManual, RunStarts,
           RunEnds, TimeComes, MarkerAges, Crash
    <2>2. events \in 0..MaxEvents /\ MaxEvents \in Nat
        BY CronServiceAssumption DEF TypeOK
    <2>3. QED
        BY <2>1, <2>2
<1>8. (excused \subseteq Job /\ succeeded \subseteq At /\ torn \subseteq At)'
    BY DEF Next, History, TypeOK
<1>9. (held \subseteq Job)'
    BY StepCases DEF TypeOK, onTimer, TickApplies, StartMarks, StartPlans, StartApplies, StartArms,
       ConfigWritten, add, remove, update, list, Preflight, Reserve, FinishManual, RunStarts,
       RunEnds, TimeComes, MarkerAges, Crash
<1>10. QED
    BY <1>1, <1>2, <1>3, <1>4, <1>5, <1>6, <1>7, <1>8, <1>9

\* Every step preserves the invariant.
LEMMA CronStep == CronInv /\ [Next]_vars => CronInv'
<1>1. SUFFICES ASSUME CronInv, [Next]_vars
               PROVE  CronInv'
    OBVIOUS
<1>2. CASE UNCHANGED vars
    <2>1. TypeOK'
        BY <1>1, <1>2 DEF CronInv, TypeOK, vars
    <2>2. ASSUME NEW j \in Job
          PROVE  JobInv(j)'
        <3>1. JobInv(j)
            BY <1>1 DEF CronInv
        <3>2. QED
            BY <1>2, <3>1 DEF JobInv, StoreInv, HeldInv, BootInv, AbsentInv, MarkerInv, SoleInv, SuccInv,
                  Run, Marked, vars
    <2>3. QED
        BY <2>1, <2>2 DEF CronInv
<1>3. CASE Next
    <2>1. TypeOK /\ Summary /\ History
        BY <1>1, <1>3, StepSummary DEF CronInv, Next
    <2>2. TypeOK'
        <3>1. Typed'
            BY <2>1 DEF Summary
        <3>2. QED
            BY <1>3, <2>1, <3>1, RestStep
               DEF TypeOK, Typed, JobState, FileState, RunState, Cfg, NextRun, Marker, Last
    <2>3. ASSUME NEW j \in Job
          PROVE  JobInv(j)'
        <3>1. JobInv(j) /\ Kind(j)
            BY <1>1, <2>1 DEF CronInv, Summary
        <3>2. Recorded(j)
            BY <2>1, HistoryRecords
        <3>3. job[j].cfg \in Cfg /\ job'[j].cfg \in Cfg
            BY <2>1, TypedOK DEF Summary, Typed, JobState
        <3>4. QED
            BY <3>1, <3>2, <3>3, GoesKeeps, BeginsKeeps, EndsKeeps, EditedKeeps, BootKeeps DEF Kind
    <2>4. QED
        BY <2>2, <2>3 DEF CronInv
<1>4. QED
    BY <1>1, <1>2, <1>3

\* The invariant holds at first: nothing runs and nothing is marked.
LEMMA CronInit == Init => CronInv
<1>1. SUFFICES ASSUME Init
               PROVE  CronInv
    OBVIOUS
<1>2. /\ disk \in [Job -> Cfg]
      /\ \A j \in Job : disk[j] \in Cfg /\ job[j] = Blank(disk[j])
    BY <1>1 DEF Init, Cfg
<1>3. \A j \in Job : job[j] \in JobState /\ job[j].marker = "none" /\ job[j].cfg = disk[j]
    BY <1>2, BlankOK
<1>3a. file \in [Job -> FileState] /\ held = {} /\ \A j \in Job : file[j].marker = "none"
    <2> DEFINE e(j) == [next |-> job[j].next, marker |-> job[j].marker]
    <2>1. \A j \in Job : e(j) \in FileState /\ e(j).marker = "none"
        BY <1>3 DEF JobState, FileState
    <2>2. file = [j \in Job |-> e(j)] /\ held = {}
        BY <1>1 DEF Init, Saved
    <2> HIDE DEF e
    <2>3. QED
        BY <2>1, <2>2
<1>4. job \in [Job -> JobState]
    BY <1>1, <1>3 DEF Init
<1>5. exec \in [Owner -> [Job -> RunState]] /\ \A o \in Owner, j \in Job : exec[o][j] = "-"
    BY <1>1 DEF Init, Idle, RunState
<1>6. TypeOK
    <2>1. events \in 0..MaxEvents
        BY <1>1, CronServiceAssumption DEF Init
    <2>2. asked \in [Manual -> Job \cup {None}] /\ timer \in BOOLEAN
        BY <1>1 DEF Init
    <2>3. QED
        BY <1>1, <1>2, <1>3a, <1>4, <1>5, <2>1, <2>2
           DEF Init, TypeOK, JobState, FileState, RunState, Cfg, NextRun, Marker, Last
<1>7. ASSUME NEW j \in Job
      PROVE  JobInv(j)
    <2>1. ~Run(j) /\ j \notin succeeded /\ "catchup" \in Owner /\ boot = "down"
        BY <1>1, <1>5 DEF Run, Init, Owner
    <2>2. QED
        BY <1>3, <1>3a, <1>5, <2>1
           DEF JobInv, StoreInv, HeldInv, BootInv, AbsentInv, MarkerInv, SoleInv, SuccInv, Marked
<1>8. QED
    BY <1>6, <1>7 DEF CronInv
-----------------------------------------------------------------------------
(* The theorems *)

\* The inductive invariant of the cron service: the types, and for every job
\* that its marker and its runs belong together.
THEOREM CronInvariant == Spec => []CronInv
  BY CronInit, CronStep, PTL DEF Spec

\* Every variable keeps its type; the errors of a one-shot stay within the
\* retries that the configuration allows.
THEOREM CronTypeCorrect == Spec => []TypeOK
<1>1. CronInv => TypeOK
    BY DEF CronInv
<1>2. QED
    BY <1>1, CronInvariant, PTL

\* A running marker, in memory or in the state file, belongs to a run, whatever
\* crashed, was edited or removed: runningAtMs never blocks a job that nobody runs.
THEOREM CronMarkersHaveRuns == Spec => []NoLeakedMarker
<1>1. CronInv => NoLeakedMarker
    BY DEF CronInv, JobInv, MarkerInv, Marked, NoLeakedMarker
<1>2. QED
    BY <1>1, CronInvariant, PTL

\* The timer, the catch-up and the manual runs run a job at the same time only
\* if its marker was cleared under the run in progress: the job was disabled or
\* run by hand while disabled, or the marker was declared stuck.  Of such jobs the
\* theorem says nothing.
THEOREM CronRunsExclude == Spec => []OneRunAtATime
<1>1. ASSUME CronInv
      PROVE  OneRunAtATime
    <2>1. SUFFICES ASSUME NEW j \in Job, j \notin excused
                   PROVE  ~(Cardinality({o \in Owner : exec[o][j] # "-"}) > 1)
        BY DEF OneRunAtATime
    <2> DEFINE S == {o \in Owner : exec[o][j] # "-"}
    <2>2. \A o, p \in S : o = p
        BY <1>1, <2>1 DEF CronInv, JobInv, SoleInv
    <2>3. CASE S = {}
        <3>1. Cardinality(S) = 0
            BY <2>3, FS_EmptySet
        <3>2. QED
            BY <3>1
    <2>4. CASE S # {}
        <3>1. PICK o \in S : TRUE
            BY <2>4
        <3>2. S = {o}
            BY <2>2, <3>1
        <3> HIDE DEF S
        <3>3. Cardinality(S) = 1
            BY <3>2, FS_Singleton
        <3>4. QED
            BY <3>3 DEF S
    <2>5. QED
        BY <2>3, <2>4
<1>2. QED
    BY <1>1, CronInvariant, PTL

\* A one-shot whose run has returned ok is not started by the timer or the
\* catch-up again, across crashes before its result was stored too.  Exempt are
\* one-shots whose config write a crash cut off, which do start again, the ones
\* that were enabled again, and the ones whose marker was cleared under the run.
THEOREM CronOneShotOnce == Spec => OneShotOnce
<1>1. ASSUME CronInv, [Next]_vars
      PROVE  [\A j \in succeeded : Restarted(j) => j \in torn]_vars
    <2>1. SUFFICES ASSUME Next, NEW j \in succeeded, Restarted(j), j \notin torn
                   PROVE  FALSE
        BY <1>1
    <2>2. j \in Job /\ j \in succeeded
        BY <1>1, CronServiceAssumption DEF CronInv, TypeOK
    <2>3. SuccInv(j) /\ BootInv(j)
        BY <1>1, <2>2 DEF CronInv, JobInv
    <2>4. PICK o \in {"tick", "catchup"} : exec[o][j] = "-" /\ exec'[o][j] = "waiting"
        BY <2>1 DEF Restarted
    <2>5. o \in Owner
        BY DEF Owner
    <2>6. Kind(j)
        BY <1>1, <2>1, <2>2, StepSummary DEF Summary
    <2>7. Begins(j)
        <3>1. ~Goes(j) /\ ~Edited(j) /\ ~Marks(j) /\ ~Dies(j)
            BY <2>4, <2>5 DEF Goes, Edited, Marks, Dies, SameRuns
        <3>2. ~Ends(j)
            BY <2>4, <2>5 DEF Ends, OtherRuns
        <3>3. QED
            BY <2>6, <3>1, <3>2 DEF Kind
    <2>8. job[j].cfg = "on" /\ (job[j].marker = "none" \/ file[j].marker = "none")
        BY <2>4, <2>5, <2>7 DEF Begins, OtherRuns
    <2>9. QED
        BY <2>1, <2>2, <2>3, <2>8 DEF SuccInv
<1>2. QED
    BY <1>1, CronInvariant, PTL DEF Spec, OneShotOnce

\* A job that is due in memory and in the state file stays due until a run of it
\* begins, but for the staggering at the start, an update of the job, and the
\* addition of another, which does skip due slots.
THEOREM CronDueSlotKept == Spec => DueSlotKept
<1>1. ASSUME CronInv, Next
      PROVE  \A j \in Job : SlotKept(j)
    BY <1>1, StepSummary DEF Summary
<1>2. CronInv /\ [Next]_vars => [\A j \in Job : SlotKept(j)]_vars
    BY <1>1
<1>3. QED
    BY <1>2, CronInvariant, PTL DEF Spec, DueSlotKept, SlotKept
=============================================================================
