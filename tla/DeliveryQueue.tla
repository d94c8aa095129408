---------------------------- MODULE DeliveryQueue ----------------------------
(***************************************************************************)
(* The write-ahead queue of outbound messages: the entry files of          *)
(* infra/outbound/delivery-queue-storage.ts, the live send of              *)
(* infra/outbound/deliver.ts, the startup recovery and the reconnect       *)
(* drains of infra/outbound/delivery-queue-recovery.ts, and the restart    *)
(* notice of gateway/server-restart-sentinel.ts, which uses the queue      *)
(* without the in-process claim the others take.                           *)
(*                                                                         *)
(* A message is one payload.  An entry keeps its retry count and whether a *)
(* recoveryState is set: "send_attempt_started" and "unknown_after_send"   *)
(* are treated alike everywhere.  Time is left out: an entry that was      *)
(* tried before is found ready or still backing off.                       *)
(***************************************************************************)
EXTENDS Integers, FiniteSetsExt

CONSTANTS
  N,           \* messages, numbered in the order they are enqueued
  Kinds,       \* the kinds of messages sent
  Backlog,     \* messages an earlier process enqueued and did not get to send
  DrainKeys,   \* the accounts whose reconnect drains the queue
  MaxRetries,  \* MAX_RETRIES
  MayDefer,    \* whether startup recovery may run out of its time budget
  MaxFaults,   \* bound on crashes, storage errors and ambiguous sends
  None         \* no entry file

Msg == 1..N

\* "required" is queuePolicy "required", "best_effort" is bestEffort with its
\* errors swallowed, "notice" the restart notice.
Kind == {"plain", "required", "best_effort", "notice"}
Pass == DrainKeys \cup {"startup"}
Writer == {"live", "defer"} \cup Pass

ASSUME DeliveryAssumption ==
  /\ N \in Nat
  /\ Kinds \subseteq Kind /\ Backlog \subseteq Msg
  /\ "startup" \notin DrainKeys /\ "live" \notin DrainKeys /\ "defer" \notin DrainKeys
  /\ MaxRetries \in Nat \ {0}
  /\ MayDefer \in BOOLEAN
  /\ MaxFaults \in Nat

Entry == [retry : Nat, marked : BOOLEAN]
NewEntry == [retry |-> 0, marked |-> FALSE]

ASSUME NoneIsNoEntry == None \notin Entry

VARIABLES
  file,      \* the entry file of each message
  kind,      \* what each message is sent with
  failed,    \* messages whose entry was moved to failed/
  live,      \* where the sender of each message is
  at, cur,   \* where each recovery pass is, and the entry it works on
  todo,      \* the entries of the pass's snapshot still to be visited
  claimed,   \* entriesInProgress
  draft,     \* entries read by an update that has not written them back yet
  faults,    \* faults so far
  log        \* history: what happened to each message

passVars == <<at, cur, todo>>
vars == <<file, kind, failed, live, at, cur, todo, claimed, draft, faults, log>>

Log == [accepted : BOOLEAN,    \* its entry was written
        sent : 0..2,           \* times the platform accepted it (2: twice or more)
        exposed : BOOLEAN,     \* first accepted while its entry was unmarked
        clobbered : BOOLEAN,   \* a stale unclaimed write replaced its entry
        overtaken : BOOLEAN,   \* a pass claimed it before its own sender did
        withdrawn : BOOLEAN]   \* cancelled by a hook, aborted by the caller, or answered
                               \* by the channel without an error and without a message id

Init ==
  /\ file = [m \in Msg |-> IF m \in Backlog THEN NewEntry ELSE None]
  /\ kind \in [Msg -> Kinds]
  /\ failed = {} /\ claimed = {}
  /\ live = [m \in Msg |-> IF m \in Backlog THEN "done" ELSE "new"]
  /\ at = [p \in Pass |-> IF p = "startup" THEN "scan" ELSE "idle"]
  /\ cur = [p \in Pass |-> 0]
  /\ todo = [p \in Pass |-> {}]
  /\ draft = [w \in Writer |-> [m \in Msg |-> None]]
  /\ faults = 0
  /\ log = [m \in Msg |-> [accepted |-> m \in Backlog, sent |-> 0, exposed |-> FALSE,
                           clobbered |-> FALSE, overtaken |-> FALSE, withdrawn |-> FALSE]]
-----------------------------------------------------------------------------
(* Storage: an update reads the entry, changes it and writes it back, with *)
(* other work in between.                                                  *)

Pending == {m \in Msg : file[m] # None}

Fault == faults < MaxFaults /\ faults' = faults + 1

\* Mutant: the attempts that are left, not those made.
FailCountsDown(e) == [e EXCEPT !.retry = @ - 1]

failDelivery(e) == [e EXCEPT !.retry = @ + 1]

\* markDeliveryPlatformSendAttemptStarted, markDeliveryPlatformOutcomeUnknown
markDelivery(e) == [e EXCEPT !.marked = TRUE]

Read(w, m, e) == draft' = [draft EXCEPT ![w][m] = e] /\ file' = file

\* The write renames a temporary file over the entry: it also brings back an
\* entry that was removed since it was read.
WriteBack(w, m) ==
  /\ file' = [file EXCEPT ![m] = draft[w][m]]
  /\ draft' = [draft EXCEPT ![w][m] = None]

Forget(w, m) == draft' = [draft EXCEPT ![w][m] = None] /\ file' = file

Remove(m) == file' = [file EXCEPT ![m] = None]

\* The platform accepts m.
Accept(m) ==
  log' = [log EXCEPT ![m].sent = Min({2, @ + 1}),
                     ![m].exposed = @ \/ (log[m].sent = 0 /\ (file[m] = None \/ ~file[m].marked))]

Withdraw(m) == log' = [log EXCEPT ![m].withdrawn = TRUE]
-----------------------------------------------------------------------------
(* The live send *)

GoLive(m, l) == live' = [live EXCEPT ![m] = l] /\ claimed' = claimed
DoneLive(m) == live' = [live EXCEPT ![m] = "done"] /\ claimed' = claimed \ {m}

\* deliverOutboundPayloads and deliverRestartSentinelNotice write the entry
\* first; a sender that does not insist on it goes on without one.
Enqueue(m) ==
  /\ live[m] = "new" /\ \A l \in Msg : l < m => live[l] # "new"
  /\ \/ /\ file' = [file EXCEPT ![m] = NewEntry]
        /\ log' = [log EXCEPT ![m].accepted = TRUE]
        /\ GoLive(m, IF kind[m] = "notice" THEN "notice" ELSE "queued")
        /\ faults' = faults
     \/ /\ Fault
        /\ GoLive(m, IF kind[m] = "required" THEN "done" ELSE "direct")
        /\ UNCHANGED <<file, log>>
  /\ UNCHANGED <<kind, failed, passVars, draft>>

\* Without an entry: one attempt, or as many as the notice takes.
DirectSend(m) ==
  /\ live[m] = "direct"
  /\ \/ Accept(m) /\ faults' = faults /\ GoLive(m, "done")
     \/ UNCHANGED <<log, faults>> /\ GoLive(m, "done")
     \/ Accept(m) /\ Fault /\ GoLive(m, IF kind[m] = "notice" THEN "direct" ELSE "done")
  /\ UNCHANGED <<kind, file, failed, passVars, draft>>

\* withActiveDeliveryClaim: who finds the entry claimed returns [] at once.
LiveClaim(m) ==
  /\ live[m] = "queued"
  /\ IF m \in claimed THEN GoLive(m, "done")
     ELSE live' = [live EXCEPT ![m] = "hooks"] /\ claimed' = claimed \cup {m}
  /\ UNCHANGED <<kind, file, failed, passVars, draft, faults, log>>

\* What comes before the platform call: an abort or an error ends the attempt
\* (best effort takes the abort for a failure), a hook may cancel the payload,
\* which counts as delivered.
LivePrepares(m) ==
  /\ live[m] = "hooks"
  /\ \/ GoLive(m, "mark") /\ UNCHANGED log
     \/ GoLive(m, "fail") /\ UNCHANGED log
     \/ GoLive(m, "ack") /\ Withdraw(m)
     \/ kind[m] = "best_effort" /\ GoLive(m, "fail") /\ Withdraw(m)
  /\ UNCHANGED <<kind, file, failed, passVars, draft, faults>>

\* onPlatformSendStart: without the mark a required send fails, another sends
\* all the same.
Unmarked(m) == GoLive(m, IF kind[m] = "required" THEN "fail" ELSE "bare")

LiveMarks(m) ==
  /\ live[m] = "mark"
  /\ \/ file[m] # None /\ Read("live", m, markDelivery(file[m])) /\ GoLive(m, "marking")
        /\ faults' = faults
     \/ file[m] = None /\ Unmarked(m) /\ UNCHANGED <<file, draft, faults>>
     \/ Fault /\ Unmarked(m) /\ UNCHANGED <<file, draft>>
  /\ UNCHANGED <<kind, failed, passVars, log>>

LiveMarkWrites(m) ==
  /\ live[m] = "marking"
  /\ \/ WriteBack("live", m) /\ GoLive(m, "send") /\ faults' = faults
     \/ Fault /\ Forget("live", m) /\ Unmarked(m)
  /\ UNCHANGED <<kind, failed, passVars, log>>

\* The platform call: accepted, refused, or accepted and then reported as an
\* error (a timeout, a failing later payload, pin or transcript mirror).  A
\* sendPayload without a message id counts as nothing sent and is no error.
LiveSends(m) ==
  /\ live[m] \in {"send", "bare"}
  /\ \/ /\ Accept(m) \/ Withdraw(m)
        /\ faults' = faults
        /\ GoLive(m, IF live[m] = "send" THEN "unknown" ELSE "ack")
     \/ UNCHANGED <<log, faults>> /\ GoLive(m, "fail")
     \/ Accept(m) /\ Fault /\ GoLive(m, "fail")
  /\ UNCHANGED <<kind, file, failed, passVars, draft>>

\* Once results are back an error leaves the entry as it is.
OutcomeUnmarked(m) == IF kind[m] = "required" THEN DoneLive(m) ELSE GoLive(m, "ack")

LiveOutcome(m) ==
  /\ live[m] = "unknown"
  /\ \/ file[m] # None /\ Read("live", m, markDelivery(file[m])) /\ GoLive(m, "unknowing")
        /\ faults' = faults
     \/ file[m] = None /\ OutcomeUnmarked(m) /\ UNCHANGED <<file, draft, faults>>
     \/ Fault /\ OutcomeUnmarked(m) /\ UNCHANGED <<file, draft>>
  /\ UNCHANGED <<kind, failed, passVars, log>>

LiveOutcomeWrites(m) ==
  /\ live[m] = "unknowing"
  /\ \/ WriteBack("live", m) /\ GoLive(m, "ack") /\ faults' = faults
     \/ Fault /\ Forget("live", m) /\ OutcomeUnmarked(m)
  /\ UNCHANGED <<kind, failed, passVars, log>>

LiveAcks(m) ==
  /\ live[m] = "ack"
  /\ \/ Remove(m) /\ faults' = faults
     \/ Fault /\ file' = file
  /\ DoneLive(m)
  /\ UNCHANGED <<kind, failed, passVars, draft, log>>

\* failDelivery(...).catch(() => {})
LiveFails(m) ==
  /\ live[m] = "fail"
  /\ \/ file[m] # None /\ Read("live", m, failDelivery(file[m])) /\ GoLive(m, "failing")
        /\ faults' = faults
     \/ file[m] = None /\ DoneLive(m) /\ UNCHANGED <<file, draft, faults>>
     \/ Fault /\ DoneLive(m) /\ UNCHANGED <<file, draft>>
  /\ UNCHANGED <<kind, failed, passVars, log>>

LiveFailWrites(m) ==
  /\ live[m] = "failing"
  /\ \/ WriteBack("live", m) /\ faults' = faults
     \/ Fault /\ Forget("live", m)
  /\ DoneLive(m)
  /\ UNCHANGED <<kind, failed, passVars, log>>

\* The notice tries up to OUTBOUND_MAX_ATTEMPTS times with its entry in the
\* queue and no claim on it.
NoticeSends(m) ==
  /\ live[m] = "notice"
  /\ \/ Accept(m) /\ faults' = faults /\ live' = [live EXCEPT ![m] = "noticed"]
     \/ UNCHANGED <<log, faults>> /\ live' = [live EXCEPT ![m] = "nofail"]
     \/ Accept(m) /\ Fault /\ live' = live
  /\ UNCHANGED <<kind, file, failed, passVars, draft, claimed>>

NoticeAcks(m) ==
  /\ live[m] = "noticed"
  /\ \/ Remove(m) /\ faults' = faults
     \/ Fault /\ file' = file
  /\ live' = [live EXCEPT ![m] = "done"]
  /\ UNCHANGED <<kind, failed, passVars, draft, claimed, log>>

NoticeFails(m) ==
  /\ live[m] = "nofail"
  /\ \/ /\ file[m] # None /\ Read("live", m, failDelivery(file[m]))
        /\ live' = [live EXCEPT ![m] = "nofailing"] /\ faults' = faults
     \/ /\ (file[m] = None /\ faults' = faults) \/ Fault
        /\ live' = [live EXCEPT ![m] = "done"] /\ UNCHANGED <<file, draft>>
  /\ UNCHANGED <<kind, failed, passVars, claimed, log>>

NoticeFailWrites(m) ==
  /\ live[m] = "nofailing"
  /\ \/ WriteBack("live", m) /\ faults' = faults
     \/ Fault /\ Forget("live", m)
  /\ live' = [live EXCEPT ![m] = "done"]
  /\ UNCHANGED <<kind, failed, passVars, claimed, log>>
-----------------------------------------------------------------------------
(* Recovery passes: recoverPendingDeliveries at startup and one            *)
(* drainPendingDeliveries per account.                                     *)

Goto(p, a) ==
  at' = [at EXCEPT ![p] = a] /\ UNCHANGED <<cur, todo, claimed>>

\* Mutant: an early return outside the finally keeps the claim.
SkipKeepsClaim(p) ==
  /\ at' = [at EXCEPT ![p] = "loop"]
  /\ todo' = [todo EXCEPT ![p] = @ \ {cur[p]}]
  /\ UNCHANGED <<cur, claimed>>

\* finally { releaseRecoveryEntry(entry.id) } and on to the next entry.
ReleaseAndNext(p) ==
  /\ at' = [at EXCEPT ![p] = "loop"]
  /\ todo' = [todo EXCEPT ![p] = @ \ {cur[p]}]
  /\ claimed' = claimed \ {cur[p]}
  /\ cur' = cur

\* A second drain with the same key is turned away while one is in progress.
Drain(p) ==
  /\ p \in DrainKeys /\ at[p] = "idle" /\ Pending # {}
  /\ at' = [at EXCEPT ![p] = "loop"]
  /\ todo' = [todo EXCEPT ![p] = Pending]
  /\ UNCHANGED <<kind, file, failed, live, cur, claimed, draft, faults, log>>

StartupScan ==
  /\ at["startup"] = "scan"
  /\ at' = [at EXCEPT !["startup"] = "loop"]
  /\ todo' = [todo EXCEPT !["startup"] = Pending]
  /\ UNCHANGED <<kind, file, failed, live, cur, claimed, draft, faults, log>>

\* The next entry by enqueuedAt; one that is claimed is left to its owner.
Visit(p) ==
  /\ at[p] = "loop" /\ todo[p] # {}
  /\ LET m == Min(todo[p])
     IN  IF m \in claimed
         THEN todo' = [todo EXCEPT ![p] = @ \ {m}] /\ UNCHANGED <<at, cur, claimed, log>>
         ELSE /\ claimed' = claimed \cup {m}
              /\ cur' = [cur EXCEPT ![p] = m]
              /\ at' = [at EXCEPT ![p] = "check"]
              /\ log' = [log EXCEPT ![m].overtaken = @ \/ live[m] = "queued"]
              /\ todo' = todo
  /\ UNCHANGED <<kind, file, failed, live, draft, faults>>

PassEnds(p) ==
  /\ at[p] = "loop" /\ todo[p] = {}
  /\ at' = [at EXCEPT ![p] = "idle"]
  /\ cur' = [cur EXCEPT ![p] = 0]
  /\ UNCHANGED <<kind, file, failed, live, todo, claimed, draft, faults, log>>

\* Mutant: the snapshot is trusted once the entry is claimed.
CheckSnapshot(p) ==
  /\ at[p] = "check"
  /\ Goto(p, IF file[cur[p]] # None /\ file[cur[p]].marked THEN "reconcile" ELSE "deliver")
  /\ UNCHANGED <<kind, file, failed, live, draft, faults, log>>

\* Mutant: an entry whose send may have happened is replayed like any other.
CheckBlindly(p) ==
  /\ at[p] = "check"
  /\ IF file[cur[p]] = None THEN ReleaseAndNext(p) ELSE Goto(p, "deliver")
  /\ UNCHANGED <<kind, file, failed, live, draft, faults, log>>

\* The entry is read again under the claim.
Check(p) ==
  /\ at[p] = "check"
  /\ LET e == file[cur[p]]
     IN  \/ e = None /\ ReleaseAndNext(p)
         \/ e # None /\ e.retry >= MaxRetries /\ Goto(p, "limit")
         \/ e # None /\ e.retry \in 1..(MaxRetries - 1) /\ ReleaseAndNext(p)   \* backoff
         \/ /\ e # None /\ e.retry < MaxRetries
            /\ Goto(p, IF e.marked THEN "reconcile" ELSE "deliver")
  /\ UNCHANGED <<kind, file, failed, live, draft, faults, log>>

\* reconcileUnknownSend, where the channel has it, answers what happened or
\* leaves it open for another try; without an answer the entry is set aside.
Reconcile(p) ==
  /\ at[p] = "reconcile"
  /\ \/ log[cur[p]].sent > 0 /\ Goto(p, "ack")
     \/ log[cur[p]].sent = 0 /\ Goto(p, "deliver")
     \/ Goto(p, "fail")
     \/ Goto(p, "move")
  /\ UNCHANGED <<kind, file, failed, live, draft, faults, log>>

\* Mutant: the swallowed error of a best-effort message, for every message.
DeliverSwallows(p) ==
  /\ at[p] = "deliver"
  /\ Goto(p, "ack")
  /\ Accept(cur[p]) \/ UNCHANGED log
  /\ UNCHANGED <<kind, file, failed, live, draft, faults>>

\* deliver(... skipQueue): the same core without marks.  What a best-effort
\* payload throws ends in onError and the results look complete.
Deliver(p) ==
  /\ at[p] = "deliver"
  /\ LET m == cur[p]
     IN  \/ Accept(m) /\ faults' = faults /\ Goto(p, "ack")
         \/ Withdraw(m) /\ faults' = faults /\ Goto(p, "ack")        \* by a hook, or no id
         \/ UNCHANGED <<log, faults>> /\ Goto(p, "fail")
         \/ UNCHANGED <<log, faults>> /\ Goto(p, "move")         \* permanent error
         \/ kind[m] = "best_effort" /\ UNCHANGED <<log, faults>> /\ Goto(p, "ack")
         \/ Accept(m) /\ Fault /\ Goto(p, IF kind[m] = "best_effort" THEN "ack" ELSE "fail")
  /\ UNCHANGED <<kind, file, failed, live, draft>>

Ack(p) ==
  /\ at[p] = "ack"
  /\ \/ Remove(cur[p]) /\ ReleaseAndNext(p) /\ faults' = faults
     \/ Fault /\ Goto(p, "fail") /\ file' = file
  /\ UNCHANGED <<kind, failed, live, draft, log>>

Fail(p) ==
  /\ at[p] = "fail"
  /\ LET m == cur[p]
     IN  \/ /\ file[m] # None /\ Read(p, m, failDelivery(file[m]))
            /\ Goto(p, "failing") /\ faults' = faults
         \/ file[m] = None /\ ReleaseAndNext(p) /\ UNCHANGED <<file, draft, faults>>
         \/ Fault /\ ReleaseAndNext(p) /\ UNCHANGED <<file, draft>>
  /\ UNCHANGED <<kind, failed, live, log>>

FailWrites(p) ==
  /\ at[p] = "failing"
  /\ \/ WriteBack(p, cur[p]) /\ faults' = faults
     \/ Fault /\ Forget(p, cur[p])
  /\ ReleaseAndNext(p)
  /\ UNCHANGED <<kind, failed, live, log>>

\* moveToFailed.  Only a drain at the retry limit lets the error out, which
\* ends the whole drain.
Move(p) ==
  /\ at[p] \in {"move", "limit"}
  /\ LET m == cur[p]
     IN  \/ /\ file[m] # None /\ Remove(m) /\ failed' = failed \cup {m}
            /\ ReleaseAndNext(p) /\ faults' = faults
         \/ file[m] = None /\ ReleaseAndNext(p) /\ UNCHANGED <<file, failed, faults>>
         \/ /\ Fault /\ UNCHANGED <<file, failed>>
            /\ IF at[p] = "limit" /\ p \in DrainKeys
               THEN /\ at' = [at EXCEPT ![p] = "idle"]
                    /\ todo' = [todo EXCEPT ![p] = {}]
                    /\ claimed' = claimed \ {m}
                    /\ cur' = cur
               ELSE ReleaseAndNext(p)
  /\ UNCHANGED <<kind, live, draft, log>>

\* deferRemainingEntriesForBudget: failDelivery on every remaining entry at
\* once, claimed by someone or not.
Defer ==
  /\ MayDefer /\ at["startup"] = "loop" /\ todo["startup"] # {}
  /\ at' = [at EXCEPT !["startup"] = "defer"]
  /\ UNCHANGED <<kind, file, failed, live, cur, todo, claimed, draft, faults, log>>

DeferReads(m) ==
  /\ at["startup"] = "defer" /\ m \in todo["startup"]
  /\ todo' = [todo EXCEPT !["startup"] = @ \ {m}]
  /\ IF file[m] = None THEN UNCHANGED <<file, draft>> ELSE Read("defer", m, failDelivery(file[m]))
  /\ UNCHANGED <<kind, failed, live, at, cur, claimed, faults, log>>

DeferWrites(m) ==
  /\ draft["defer"][m] # None
  /\ WriteBack("defer", m)
  /\ log' = [log EXCEPT ![m].clobbered =
                @ \/ file[m] = None \/ file[m].marked # draft["defer"][m].marked]
  /\ UNCHANGED <<kind, failed, live, passVars, claimed, faults>>

DeferEnds ==
  /\ at["startup"] = "defer" /\ todo["startup"] = {}
  /\ \A m \in Msg : draft["defer"][m] = None
  /\ at' = [at EXCEPT !["startup"] = "idle"]
  /\ UNCHANGED <<kind, file, failed, live, cur, todo, claimed, draft, faults, log>>

\* Only the files survive; recovery starts over.
Crash ==
  /\ Fault
  /\ live' = [m \in Msg |-> IF live[m] = "new" THEN "new" ELSE "done"]
  /\ at' = [p \in Pass |-> IF p = "startup" THEN "scan" ELSE "idle"]
  /\ cur' = [p \in Pass |-> 0]
  /\ todo' = [p \in Pass |-> {}]
  /\ claimed' = {}
  /\ draft' = [w \in Writer |-> [m \in Msg |-> None]]
  /\ UNCHANGED <<kind, file, failed, log>>
-----------------------------------------------------------------------------
LiveStep(m) ==
  \/ DirectSend(m) \/ LiveClaim(m) \/ LivePrepares(m)
  \/ LiveMarks(m) \/ LiveMarkWrites(m) \/ LiveSends(m)
  \/ LiveOutcome(m) \/ LiveOutcomeWrites(m)
  \/ LiveAcks(m) \/ LiveFails(m) \/ LiveFailWrites(m)

NoticeStep(m) == NoticeSends(m) \/ NoticeAcks(m) \/ NoticeFails(m) \/ NoticeFailWrites(m)

PassStep(p) ==
  \/ Visit(p) \/ PassEnds(p) \/ Check(p) \/ Reconcile(p) \/ Deliver(p)
  \/ Ack(p) \/ Fail(p) \/ FailWrites(p) \/ Move(p)

DeferStep == DeferEnds \/ \E m \in Msg : DeferReads(m) \/ DeferWrites(m)

Next ==
  \/ \E m \in Msg : Enqueue(m) \/ LiveStep(m) \/ NoticeStep(m)
  \/ \E p \in Pass : Drain(p) \/ PassStep(p)
  \/ StartupScan \/ Defer \/ DeferStep \/ Crash

Spec == Init /\ [][Next]_vars

\* Awaited calls return and their continuations run; nothing obliges anyone
\* to send, to reconnect or to crash.
Fairness ==
  /\ \A m \in Msg : WF_vars(LiveStep(m))
  /\ \A p \in Pass : WF_vars(PassStep(p))
  /\ WF_vars(StartupScan) /\ WF_vars(DeferStep)

FairSpec == Spec /\ Fairness
-----------------------------------------------------------------------------
(* Properties *)

LivePC == {"new", "direct", "queued", "hooks", "mark", "marking", "send", "bare", "unknown",
           "unknowing", "ack", "fail", "failing", "notice", "noticed", "nofail", "nofailing", "done"}
PassPC == {"idle", "scan", "loop", "check", "reconcile", "deliver", "ack", "fail", "failing",
           "move", "limit", "defer"}

\* The values each variable takes.
TypeOK ==
  /\ file \in [Msg -> Entry \cup {None}]
  /\ kind \in [Msg -> Kind]
  /\ failed \subseteq Msg /\ claimed \subseteq Msg
  /\ live \in [Msg -> LivePC]
  /\ at \in [Pass -> PassPC]
  /\ cur \in [Pass -> Msg \cup {0}]
  /\ todo \in [Pass -> SUBSET Msg]
  /\ draft \in [Writer -> [Msg -> Entry \cup {None}]]
  /\ faults \in Nat
  /\ log \in [Msg -> Log]

\* "Write-ahead delivery queue: persist before sending, remove after success":
\* a message whose entry was written is in the queue or in failed/ until the
\* platform has accepted it, whatever crashes, storage errors and passes do.
AccountedFor(m) ==
  file[m] # None \/ m \in failed \/ log[m].sent > 0 \/ log[m].withdrawn

RemovedAfterSuccess == \A m \in Msg : log[m].accepted => AccountedFor(m)

\* The same where errors are not swallowed.
NothingLost ==
  \A m \in Msg : log[m].accepted /\ kind[m] # "best_effort" => AccountedFor(m)

\* A message the platform first accepted under the "send_attempt_started" mark
\* is accepted once: no crash, storage error, ambiguous send or racing pass has
\* it sent again.  Only an unclaimed writer can undo the mark.
MarkedSentOnce ==
  \A m \in Msg : log[m].sent > 1 /\ kind[m] # "notice" => log[m].exposed \/ log[m].clobbered

\* The claim and the second look under it keep the live send, the startup
\* recovery and the drains from sending a message twice.  Without faults a
\* message that uses the claim is sent twice in two ways only: a pass claimed
\* its entry before its own sender, which, when the pass is done, claims it
\* again and sends without a mark; or startup recovery's deferral wrote the
\* entry back unclaimed.
SentTwiceOnlyIfOvertaken ==
  \A m \in Msg : faults = 0 /\ log[m].sent > 1 /\ kind[m] # "notice" =>
               log[m].overtaken \/ log[m].clobbered

\* Whoever works on an entry, however it ends, gives up its claim: an entry
\* that stays claimed is skipped by every later pass of the process.
ClaimsReleased == \A m \in Msg : m \in claimed ~> m \notin claimed
=============================================================================
