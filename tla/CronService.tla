---------------------------- MODULE CronService ----------------------------
(***************************************************************************)
(* The scheduler of cron/service: timer ticks that run the due jobs in a   *)
(* batch, manual runs, job edits, and the start of the service with its    *)
(* recovery of interrupted runs and its catch-up of missed ones.           *)
(*                                                                         *)
(* Every block that the code runs under locked() is one step.  Most blocks *)
(* that change the jobs end in persist(), which replaces the state file    *)
(* and then the config file: the step stands for the block up to the first *)
(* replacement, ConfigWritten for the second one, and a crash may fall in  *)
(* between.  Two blocks change the memory only; a tick and the end of a    *)
(* manual run read the files again.  Time is what it does to a job: its    *)
(* next run is ahead ("later") or its time has come ("due"), and its       *)
(* running marker is fresh or older than STUCK_RUN_MS.                     *)
(***************************************************************************)
EXTENDS Integers, FiniteSets

CONSTANTS
  Job,
  At,             \* one-shot jobs; the others recur
  Cron,           \* recurring jobs with a cron expression
  AgentTurn,      \* jobs that run an agent
  DeleteAfterRun, \* one-shots removed after a successful run
  Stored,         \* jobs that are in the store at first; others may be added
  Manual,         \* concurrent manual runs
  MaxConcurrent,  \* cronConfig.maxConcurrentRuns
  MaxImmediate,   \* maxMissedJobsPerRestart
  MaxAttempts,    \* retries of a one-shot after transient errors
  MaxEvents,      \* bound on crashes, edits and overlong runs together
  None

ASSUME CronServiceAssumption ==
  /\ At \subseteq Job /\ Cron \subseteq Job \ At /\ AgentTurn \subseteq Job
  /\ DeleteAfterRun \subseteq At /\ Stored \subseteq Job
  /\ None \notin Job
  /\ Manual \cap {"tick", "catchup"} = {}
  /\ MaxConcurrent \in Nat \ {0}
  /\ {MaxImmediate, MaxAttempts, MaxEvents} \subseteq Nat

VARIABLES
  job,       \* the store in memory
  file,      \* the state file, where the memory may be ahead of it
  held,      \* jobs that wait in the tick's batch and are still its objects
  disk,      \* the config file: presence and enabled flag of each job
  past,      \* one-shots whose time has come
  boot,      \* how far start() has come
  skip,      \* interruptedJobIds
  deferred,  \* plan.deferredJobs
  exec,      \* the runs: by whom, of which job, how far
  asked,     \* manual runs that passed their preflight
  timer,     \* a timer is armed
  events,    \* counts what MaxEvents bounds
  excused,   \* history: jobs that lost their marker while a run was in progress
  succeeded, \* history: one-shots whose run has returned ok
  torn       \* history: jobs whose config write was cut by a crash

vars == <<job, file, held, disk, past, boot, skip, deferred, exec, asked, timer,
          events, excused, succeeded, torn>>
systemVars == <<job, file, held, disk, past, boot, skip, deferred, exec, asked, timer, events>>
bootVars == <<boot, skip, deferred>>

Owner == {"tick", "catchup"} \cup Manual
Patch == {"enable", "disable", "other"}
Outcomes == {"ok", "skipped", "transient", "error"}
\* How a run can end.  A recurring job is scheduled ahead either way, a failed
\* one further: one outcome stands for all.
Outcome(j) == IF j \in At THEN Outcomes ELSE {"ok"}
Idle == [j \in Job |-> "-"]

\* A job without state: never run, no next run computed.
Blank(c) == [cfg |-> c, next |-> "none", marker |-> "none", last |-> "none", errors |-> 0]

\* What persist() writes of the jobs' state: the next run and runningAtMs; the
\* rest is never changed in memory alone.
Saved(jobs) == [j \in Job |-> [next |-> jobs[j].next, marker |-> jobs[j].marker]]

Init ==
  /\ disk = [j \in Job |-> IF j \in Stored THEN "on" ELSE "absent"]
  /\ job = [j \in Job |-> Blank(disk[j])]
  /\ file = Saved(job) /\ held = {}
  /\ past = {}
  /\ boot = "down" /\ skip = {} /\ deferred = {}
  /\ exec = [o \in Owner |-> Idle]
  /\ asked = [m \in Manual |-> None]
  /\ timer = FALSE
  /\ events = 0
  /\ excused = {} /\ succeeded = {} /\ torn = {}
-----------------------------------------------------------------------------
(* The store.                                                              *)

Writing == \E j \in Job : disk[j] # job[j].cfg

\* A block under locked(): the service is started and no persist() is going on.
Locked == boot # "down" /\ ~Writing

Run(j) == \E o \in Owner : exec[o][j] # "-"

\* ensureLoaded with forceReload: what is in memory only is gone.
Reloaded == [j \in Job |-> [job[j] EXCEPT !.next = file[j].next, !.marker = file[j].marker]]

\* persist(), of the jobs as they are now, or only if the block changed them.
Persists == file' = Saved(job')
PersistsIfChanged == file' = IF job' = job THEN file ELSE Saved(job')

\* isRunnableJob: enabled, not running, and its time has come.
Runnable(b) == b.cfg = "on" /\ b.marker = "none" /\ b.next = "due"

\* computeJobNextRunAtMs of an enabled job: a one-shot stays due until it ends
\* well, a recurring job is always scheduled ahead.
computeJobNextRun(j, b) ==
  IF j \notin At THEN "later"
  ELSE IF b.last = "ok" THEN "none"
  ELSE IF j \in past THEN "due" ELSE "later"

\* Mutant: a past-due job is rescheduled although it has not run (#13992).
MaintainAdvances(j, b) ==
  IF b.cfg = "on" THEN [b EXCEPT !.next = computeJobNextRun(j, b)] ELSE b

\* normalizeJobTickState and recomputeNextRunsForMaintenance for one job.
Maintain(j, b) ==
  CASE b.cfg = "off" -> [b EXCEPT !.next = "none", !.marker = "none"]
    [] b.cfg = "on" /\ b.marker = "stuck" -> [b EXCEPT !.marker = "none"]
    [] b.cfg = "on" /\ b.marker # "stuck" /\ b.next = "none" ->
         [b EXCEPT !.next = computeJobNextRun(j, b)]
    [] OTHER -> b

MaintainAll(jobs) == [j \in Job |-> Maintain(j, jobs[j])]

\* recomputeNextRuns: past-due jobs are rescheduled too.
RecomputeAll(jobs) ==
  [j \in Job |->
     LET b == Maintain(j, jobs[j])
     IN  IF jobs[j].cfg = "on" /\ jobs[j].marker # "stuck" /\ b.next = "due"
         THEN [b EXCEPT !.next = computeJobNextRun(j, b)] ELSE b]

\* armTimer: for the next run, or to look again when none is known.
armTimer(jobs) == timer' = \E j \in Job : jobs[j].cfg = "on"

\* Mutant: a failed run counts downwards.
CountDown(j, b, r) == IF r \in {"error", "transient"} THEN b.errors - 1 ELSE 0

CountErrors(j, b, r) ==
  IF j \notin At \/ r \notin {"error", "transient"} THEN 0
  ELSE IF b.errors > MaxAttempts THEN b.errors ELSE b.errors + 1

\* applyJobResult, and the removal that it asks for; the result of a job that
\* is not in the store any more is dropped.
applyJobResult(j, b, r) ==
  LET errors == CountErrors(j, b, r)
      done == [b EXCEPT !.marker = "none", !.errors = errors,
                        !.last = IF r = "transient" THEN "error" ELSE r]
  IN  CASE b.cfg \notin {"on", "off"} -> b
        [] b.cfg \in {"on", "off"} /\ r = "ok" /\ j \in DeleteAfterRun -> Blank("gone")
        [] b.cfg \in {"on", "off"} /\ j \in At /\ r = "transient" /\ errors <= MaxAttempts ->
             [done EXCEPT !.next = "later"]
        [] b.cfg \in {"on", "off"} /\ j \in At /\ ~(r = "ok" /\ j \in DeleteAfterRun)
             /\ ~(r = "transient" /\ errors <= MaxAttempts) ->
             [done EXCEPT !.cfg = "off", !.next = "none"]
        [] OTHER -> [done EXCEPT !.next = IF b.cfg = "on" THEN "later" ELSE "none"]

\* The results of one owner's runs.
ApplyResults(o, jobs) ==
  [j \in Job |-> IF exec[o][j] \in Outcomes THEN applyJobResult(j, jobs[j], exec[o][j])
                 ELSE jobs[j]]

\* saveCronStore: the second of the two files.
ConfigWritten ==
  /\ Writing
  /\ disk' = [j \in Job |-> job[j].cfg]
  /\ UNCHANGED <<job, file, held, past, bootVars, exec, asked, timer, events>>
-----------------------------------------------------------------------------
(* Executing runs.                                                         *)

\* The batch of a tick has MaxConcurrent workers, the catch-up runs in sequence.
Width(o) == IF o = "tick" THEN MaxConcurrent ELSE 1

\* A run of the batch marks its job again, in memory only and in vain when the
\* store holds another object for the job by now.
RunStarts(o, j) ==
  /\ exec[o][j] = "waiting"
  /\ Cardinality({k \in Job : exec[o][k] = "running"}) < Width(o)
  /\ exec' = [exec EXCEPT ![o][j] = "running"]
  /\ job' = IF o = "tick" /\ j \in held THEN [job EXCEPT ![j].marker = "fresh"] ELSE job
  /\ held' = IF o = "tick" THEN held \ {j} ELSE held
  /\ UNCHANGED <<file, disk, past, bootVars, asked, timer, events>>

\* executeJobCoreWithTimeout returns, with an error when the time is up.
RunEnds(o, j) ==
  /\ exec[o][j] = "running"
  /\ \E r \in Outcome(j) : exec' = [exec EXCEPT ![o][j] = r]
  /\ UNCHANGED <<job, file, held, disk, past, bootVars, asked, timer, events>>

Finished(o) ==
  /\ \E j \in Job : exec[o][j] # "-"
  /\ \A j \in Job : exec[o][j] \notin {"waiting", "running"}

\* onTimer, up to the end of its first block: load the jobs again, mark the due
\* ones, or only do the maintenance.  While a batch is running the timer is just armed again.
onTimer ==
  LET due == {j \in Job : Runnable(Reloaded[j])}
  IN  /\ timer /\ Locked /\ exec["tick"] = Idle
      /\ IF due = {}
         THEN /\ job' = MaintainAll(Reloaded)
              /\ armTimer(job')
              /\ UNCHANGED <<exec>>
         ELSE /\ job' = [j \in Job |-> IF j \in due THEN [Reloaded[j] EXCEPT !.marker = "fresh"]
                                       ELSE Reloaded[j]]
              /\ exec' = [exec EXCEPT !["tick"] = [j \in Job |-> IF j \in due THEN "waiting" ELSE "-"]]
              /\ UNCHANGED <<timer>>
      /\ Persists /\ held' = due
      /\ UNCHANGED <<disk, past, bootVars, asked, events>>

\* The last block of onTimer: every result of the batch, together.
TickApplies ==
  /\ Locked /\ Finished("tick")
  /\ exec' = [exec EXCEPT !["tick"] = Idle]
  /\ job' = MaintainAll(ApplyResults("tick", Reloaded))
  /\ Persists /\ held' = {}
  /\ armTimer(job')
  /\ UNCHANGED <<disk, past, bootVars, asked, events>>
-----------------------------------------------------------------------------
(* Starting the service.                                                   *)

\* Mutant: the interrupted one-shot stays enabled.
InterruptedStaysOn(j, b) ==
  [b EXCEPT !.marker = "none", !.last = "error", !.errors = CountErrors(j, b, "error"), !.next = "none"]

\* Mutant: only one-shots are cleaned up.
InterruptedKeepsMarker(j, b) ==
  IF j \notin At THEN b
  ELSE [b EXCEPT !.marker = "none", !.last = "error", !.errors = CountErrors(j, b, "error"),
                 !.next = "none", !.cfg = "off"]

markInterruptedStartupRun(j, b) ==
  [b EXCEPT !.marker = "none", !.last = "error", !.errors = CountErrors(j, b, "error"),
            !.next = "none", !.cfg = IF j \in At THEN "off" ELSE @]

\* start, first block.
StartMarks ==
  /\ boot = "down" /\ boot' = "marked"
  /\ skip' = {j \in Job : job[j].marker # "none"}
  /\ job' = [j \in Job |-> IF j \in skip' THEN markInterruptedStartupRun(j, job[j]) ELSE job[j]]
  /\ Persists
  /\ UNCHANGED <<held, disk, past, deferred, exec, asked, timer, events>>

\* The one-shots that a start leaves to the first tick: the ones that ran
\* before, but for a retry, whose time is after the failed run.  Whether a due
\* one-shot that failed is such a retry is left open.
Missed ==
  LET runnable == {j \in Job \ skip : Runnable(job[j])}
      ran == {j \in runnable \cap At : job[j].last # "none"}
      slots == {j \in Cron \ skip : /\ job[j].cfg = "on" /\ job[j].marker = "none"
                                    /\ job[j].next = "later" /\ job[j].last # "none"}
  IN  {(runnable \ ran) \cup retries \cup missed :
         retries \in SUBSET {j \in ran : job[j].last = "error"},
         missed \in SUBSET slots}   \* allowCronMissedRunByLastRun

\* planStartupCatchup
StartPlans ==
  /\ boot = "marked" /\ Locked
  /\ \E m \in Missed : \E now \in SUBSET (m \ AgentTurn) :
       /\ Cardinality(now) =
            IF Cardinality(m \ AgentTurn) < MaxImmediate THEN Cardinality(m \ AgentTurn) ELSE MaxImmediate
       /\ job' = [j \in Job |-> IF j \in now THEN [job[j] EXCEPT !.marker = "fresh"] ELSE job[j]]
       /\ exec' = [exec EXCEPT !["catchup"] = [j \in Job |-> IF j \in now THEN "waiting" ELSE "-"]]
       /\ deferred' = m \ now
       /\ boot' = IF m = {} THEN "caughtUp" ELSE "catchup"
       /\ file' = IF m = {} THEN file ELSE Saved(job')
  /\ UNCHANGED <<held, disk, past, skip, asked, timer, events>>

\* applyStartupCatchupOutcomes: the results, and the deferred jobs staggered.
StartApplies ==
  /\ boot = "catchup" /\ Locked
  /\ \A j \in Job : exec["catchup"][j] \notin {"waiting", "running"}
  /\ exec' = [exec EXCEPT !["catchup"] = Idle]
  /\ deferred' = {} /\ boot' = "caughtUp"
  /\ LET applied == ApplyResults("catchup", job)
     IN  job' = MaintainAll([j \in Job |->
           IF j \in deferred /\ applied[j].cfg = "on" THEN [applied[j] EXCEPT !.next = "later"]
           ELSE applied[j]])
  /\ Persists /\ held' = {j \in held : job'[j].cfg # "gone"}
  /\ UNCHANGED <<disk, past, skip, asked, timer, events>>

\* Mutant: the timer is left to the first request.
StartWithoutTimer ==
  /\ boot = "caughtUp" /\ Locked
  /\ job' = MaintainAll(job) /\ PersistsIfChanged
  /\ boot' = "up" /\ skip' = {}
  /\ UNCHANGED <<held, disk, past, deferred, exec, asked, timer, events>>

\* start, last block.
StartArms ==
  /\ boot = "caughtUp" /\ Locked
  /\ job' = MaintainAll(job) /\ PersistsIfChanged
  /\ armTimer(job')
  /\ boot' = "up" /\ skip' = {}
  /\ UNCHANGED <<held, disk, past, deferred, exec, asked, events>>
-----------------------------------------------------------------------------
(* Requests.                                                               *)

\* add: createJob, and all next runs computed anew.
add(j) ==
  /\ Locked /\ job[j].cfg = "absent"
  /\ job' = RecomputeAll([job EXCEPT ![j] = Blank("on")])
  /\ Persists
  /\ armTimer(job')
  /\ UNCHANGED <<held, disk, past, bootVars, exec, asked, events>>

\* update, with a patch that enables, disables or leaves the schedule alone.
update(j, patch) ==
  /\ Locked /\ job[j].cfg \in {"on", "off"} /\ events < MaxEvents
  /\ events' = events + 1
  /\ job' = [job EXCEPT ![j] =
       CASE patch = "enable" -> [@ EXCEPT !.cfg = "on", !.next = computeJobNextRun(j, job[j])]
         [] patch = "disable" -> [@ EXCEPT !.cfg = "off", !.next = "none", !.marker = "none"]
         [] OTHER -> IF @.cfg = "on" /\ @.next = "none"
                     THEN [@ EXCEPT !.next = computeJobNextRun(j, job[j])] ELSE @]
  /\ Persists /\ held' = held \ {j}
  /\ armTimer(job')
  /\ UNCHANGED <<disk, past, bootVars, exec, asked>>

remove(j) ==
  /\ Locked /\ job[j].cfg \in {"on", "off"}
  /\ job' = [job EXCEPT ![j] = Blank("gone")]
  /\ Persists /\ held' = held \ {j}
  /\ armTimer(job')
  /\ UNCHANGED <<disk, past, bootVars, exec, asked, events>>

\* list, listPage and status: ensureLoadedForRead.
list ==
  /\ Locked
  /\ job' = MaintainAll(job) /\ PersistsIfChanged
  /\ UNCHANGED <<held, disk, past, bootVars, exec, asked, timer, events>>

\* inspectManualRunPreflight: the maintenance, in memory only, and the answer
\* whether the job can run.  (Bound: a one-shot is run by hand only once its time
\* has come.)
Preflight(m, j, mode) ==
  /\ Locked /\ asked[m] = None /\ exec[m] = Idle
  /\ j \in At => j \in past
  /\ job' = MaintainAll(job)
  /\ asked' = [asked EXCEPT ![m] =
       IF /\ job[j].cfg \in {"on", "off"} /\ job'[j].marker = "none"
          /\ mode = "due" => Runnable(job'[j])
       THEN j ELSE None]
  /\ UNCHANGED <<file, held, disk, past, bootVars, exec, timer, events>>

\* Mutant: the marker is not looked at again.
ReserveUnchecked(m) ==
  LET j == asked[m]
  IN  /\ Locked /\ j # None
      /\ asked' = [asked EXCEPT ![m] = None]
      /\ IF job[j].cfg \in {"on", "off"}
         THEN /\ job' = [job EXCEPT ![j].marker = "fresh"]
              /\ Persists
              /\ exec' = [exec EXCEPT ![m][j] = "running"]
         ELSE UNCHANGED <<job, file, exec>>
      /\ UNCHANGED <<held, disk, past, bootVars, timer, events>>

\* prepareManualRun, second block: the run is reserved unless another one of
\* the job has begun or the job is gone.
Reserve(m) ==
  LET j == asked[m]
  IN  /\ Locked /\ j # None
      /\ asked' = [asked EXCEPT ![m] = None]
      /\ IF job[j].cfg \in {"on", "off"} /\ job[j].marker = "none"
         THEN /\ job' = [job EXCEPT ![j].marker = "fresh"]
              /\ Persists
              /\ exec' = [exec EXCEPT ![m][j] = "running"]
         ELSE UNCHANGED <<job, file, exec>>
      /\ UNCHANGED <<held, disk, past, bootVars, timer, events>>

\* finishPreparedManualRun, its locked block; it returns at once when the job
\* is gone, and merges the result into the jobs that it loads again.
FinishManual(m) ==
  /\ Locked /\ Finished(m)
  /\ exec' = [exec EXCEPT ![m] = Idle]
  /\ IF \E j \in Job : exec[m][j] # "-" /\ job[j].cfg \in {"on", "off"}
     THEN /\ job' = MaintainAll(ApplyResults(m, Reloaded))
          /\ Persists /\ held' = {}
          /\ armTimer(job')
     ELSE UNCHANGED <<job, file, held, timer>>
  /\ UNCHANGED <<disk, past, bootVars, asked, events>>
-----------------------------------------------------------------------------
(* Time and faults.                                                        *)

TimeComes(j) ==
  /\ job[j].next = "later" \/ (j \in At \ past /\ job[j].cfg \in {"on", "off"})
  /\ job' = [job EXCEPT ![j].next = IF @ = "later" THEN "due" ELSE @]
  /\ file' = [file EXCEPT ![j].next = IF @ = "later" THEN "due" ELSE @]
  /\ past' = past \cup ({j} \cap At)
  /\ UNCHANGED <<held, disk, bootVars, exec, asked, timer, events>>

\* A run, or the batch it is waiting in, takes longer than STUCK_RUN_MS.  The
\* marker in the file is the older one when the run has marked its job again.
MarkerAges(j) ==
  /\ "fresh" \in {job[j].marker, file[j].marker} /\ events < MaxEvents
  /\ file' = [file EXCEPT ![j].marker = IF @ = "fresh" THEN "stuck" ELSE @]
  /\ \/ job' = [job EXCEPT ![j].marker = IF @ = "fresh" THEN "stuck" ELSE @]
     \/ exec["tick"][j] = "running" /\ file[j].marker = "fresh" /\ UNCHANGED <<job>>
  /\ events' = events + 1
  /\ UNCHANGED <<held, disk, past, bootVars, exec, asked, timer>>

\* The process dies, or is stopped; the next one reads both files.
Crash ==
  /\ boot # "down" /\ events < MaxEvents
  /\ events' = events + 1
  /\ job' = [j \in Job |-> [Reloaded[j] EXCEPT !.cfg = disk[j]]]
  /\ exec' = [o \in Owner |-> Idle]
  /\ asked' = [m \in Manual |-> None]
  /\ boot' = "down" /\ skip' = {} /\ deferred' = {} /\ timer' = FALSE
  /\ held' = {}
  /\ UNCHANGED <<file, disk, past>>
-----------------------------------------------------------------------------
\* History, derived from each step.
History ==
  /\ excused' = {j \in Job :
       \E o \in Owner : /\ exec'[o][j] # "-"
                        /\ \/ j \in excused
                           \/ exec[o][j] # "-" /\ job[j].marker # "none" /\ job'[j].marker = "none"}
  /\ succeeded' = (succeeded \cup {j \in At : \E o \in Owner : exec'[o][j] = "ok"})
       \ (excused' \cup {j \in At : job[j].cfg = "off" /\ job'[j].cfg = "on" /\ boot' # "down"})
  /\ torn' = IF boot # "down" /\ boot' = "down" THEN torn \cup {j \in At : disk[j] # job[j].cfg}
             ELSE torn

ExecStep(o) ==
  \/ \E j \in Job : RunStarts(o, j) \/ RunEnds(o, j)
  \/ o = "tick" /\ TickApplies
  \/ o \in Manual /\ FinishManual(o)

BootStep == StartMarks \/ StartPlans \/ StartApplies \/ StartArms \/ ConfigWritten

Request ==
  \/ \E j \in Job : add(j) \/ remove(j)
  \/ \E j \in Job, patch \in Patch : update(j, patch)
  \/ \E m \in Manual, j \in Job, mode \in {"due", "force"} : Preflight(m, j, mode)
  \/ \E m \in Manual : Reserve(m)
  \/ list

Next ==
  /\ \/ onTimer \/ BootStep \/ Request \/ Crash
     \/ \E o \in Owner : ExecStep(o)
     \/ \E j \in Job : TimeComes(j) \/ MarkerAges(j)
  /\ History

Spec == Init /\ [][Next]_vars

\* Timers fire, start() and persist() go on, and time passes; requests and faults
\* need not happen.  That every run returns is an assumption: most runs have a
\* timeout, but a job may be configured without one.
Fairness ==
  /\ WF_systemVars(onTimer)
  /\ WF_systemVars(BootStep \/ ExecStep("catchup"))
  /\ \A o \in Owner \ {"catchup"} : WF_systemVars(ExecStep(o))
  /\ \A j \in Job : WF_<<job, past>>(TimeComes(j))

FairSpec == Spec /\ Fairness
-----------------------------------------------------------------------------
(* Properties *)

\* The values each variable takes.
TypeOK ==
  /\ job \in [Job -> [cfg : {"absent", "on", "off", "gone"}, next : {"none", "later", "due"},
                      marker : {"none", "fresh", "stuck"},
                      last : {"none", "ok", "skipped", "error"}, errors : 0..(MaxAttempts + 1)]]
  /\ file \in [Job -> [next : {"none", "later", "due"}, marker : {"none", "fresh", "stuck"}]]
  /\ disk \in [Job -> {"absent", "on", "off", "gone"}] /\ held \subseteq Job
  /\ past \subseteq At
  /\ boot \in {"down", "marked", "catchup", "caughtUp", "up"}
  /\ skip \subseteq Job /\ deferred \subseteq Job
  /\ exec \in [Owner -> [Job -> {"-", "waiting", "running"} \cup Outcomes]]
  /\ asked \in [Manual -> Job \cup {None}]
  /\ timer \in BOOLEAN
  /\ events \in 0..MaxEvents
  /\ excused \subseteq Job /\ succeeded \subseteq At /\ torn \subseteq At

\* "cannot start the same job concurrently": a job is in two runs, be they of
\* the timer, the catch-up or manual, only if its marker was taken away from
\* the first: the job was disabled meanwhile, or its marker declared stuck.
OneRunAtATime ==
  \A j \in Job : Cardinality({o \in Owner : exec[o][j] # "-"}) > 1 => j \in excused

\* A running marker, in memory or in the state file, belongs to a run: no path,
\* through a crash, an edit, a removal or a reload, leaves one behind that would
\* keep the job from running for hours.
NoLeakedMarker ==
  boot # "down" => \A j \in Job : job[j].marker # "none" \/ file[j].marker # "none" => Run(j)

\* A one-shot whose run has returned ok is not started by the timer or by the
\* catch-up again, even when the crash came before the result was stored;
\* except when that crash fell between the two files.
Restarted(j) ==
  \E o \in {"tick", "catchup"} : exec[o][j] = "-" /\ exec'[o][j] = "waiting"

OneShotOnce == [][\A j \in succeeded : Restarted(j) => j \in torn]_vars

\* "One-shot jobs stay due until they successfully finish", and no longer.
SucceededStaysDone == [][\A j \in succeeded : ~Restarted(j)]_vars

\* No step "silently" advances a job that is due in memory and in the state file:
\* it stays due until a run of it begins, unless the start staggers it, it is
\* edited, or a job is added.
DueSlotKept ==
  [][\A j \in Job :
       /\ Runnable(job[j]) /\ file[j].next = "due" /\ ~Run(j) /\ job'[j].cfg = "on" /\ job'[j].next # "due"
       => \/ \E o \in Owner : exec'[o][j] # "-"
          \/ j \in deferred
          \/ \E patch \in Patch : update(j, patch)
          \/ \E k \in Job : job[k].cfg = "absent" /\ job'[k].cfg = "on"]_vars

\* No enabled job waits for ever, whatever happens to the timer, and across
\* crashes: it runs again and again, or, a one-shot, until it has ended well.
EnabledJobsRun ==
  \A j \in Job : []<>(Run(j) \/ job[j].cfg # "on" \/ (j \in At /\ job[j].last = "ok"))
=============================================================================
