------------------------- MODULE DeliveryQueueProofs -------------------------
(***************************************************************************)
(* Theorems about the outbound delivery queue for any number of messages,  *)
(* accounts that reconnect, retries and faults.                            *)
(***************************************************************************)
EXTENDS DeliveryQueue, WellFoundedInduction, TLAPS

-----------------------------------------------------------------------------
(* The inductive invariants *)

PassHolding == {"check", "reconcile", "deliver", "ack", "fail", "failing", "move", "limit"}
LiveHolding == {"hooks", "mark", "marking", "send", "bare", "unknown", "unknowing", "ack",
                "fail", "failing"}

Holds(p, m) == at[p] \in PassHolding /\ cur[p] = m

\* entriesInProgress is a lock: whoever works on an entry has claimed it, and
\* nobody else works on it.  The restart notice is not part of this.
ClaimInv ==
  /\ \A p \in Pass : at[p] \in PassHolding => cur[p] \in claimed
  /\ \A p, q \in Pass : Holds(p, cur[q]) /\ at[q] \in PassHolding => p = q
  /\ \A m \in Msg : live[m] \in LiveHolding => m \in claimed
  /\ \A m \in Msg, p \in Pass : live[m] \in LiveHolding => ~Holds(p, m)

LiveWriting == {"marking", "unknowing", "failing", "nofailing"}

\* An update has a draft exactly between its read and its write.
DraftInv ==
  /\ \A m \in Msg : draft["live"][m] # None <=> live[m] \in LiveWriting
  /\ \A p \in Pass, m \in Msg : draft[p][m] # None <=> at[p] = "failing" /\ cur[p] = m

\* The platform has the message, or a hook or its caller withdrew it.
Settled(m) == log[m].sent > 0 \/ log[m].withdrawn

\* Only a settled message is acknowledged, unless its errors are swallowed.
AckInv ==
  /\ \A m \in Msg : live[m] \in {"ack", "noticed", "unknown", "unknowing"} => Settled(m)
  /\ \A p \in Pass : at[p] = "ack" => Settled(cur[p]) \/ kind[cur[p]] = "best_effort"

NoticePC == {"notice", "noticed", "nofail", "nofailing"}

KindInv == \A m \in Msg : live[m] \in NoticePC => kind[m] = "notice"

Unmet(m) ==
  /\ file[m] = None /\ \A w \in Writer : draft[w][m] = None
  /\ \A p \in Pass : m \notin todo[p] /\ ~Holds(p, m)

\* A message that has no entry yet, or could not get one, is unknown to the
\* recovery passes.
Unqueued(m) ==
  /\ live[m] \in {"new", "direct"} => Unmet(m)
  /\ live[m] = "new" => log[m].sent = 0

\* Only the live send marks, and it does so after it got its claim.
MarksLate(m) ==
  live[m] \in {"queued", "hooks", "mark"} =>
    /\ file[m] = None \/ ~file[m].marked
    /\ \A w \in Writer : draft[w][m] = None \/ ~draft[w][m].marked

\* First accepted under its mark, which no stale write has undone.
Protected(m) ==
  log[m].sent > 0 /\ ~log[m].exposed /\ ~log[m].clobbered /\ kind[m] # "notice"

\* Such a message's sender is past its platform call, every copy of its entry
\* that a claim holder may write carries the mark, and no pass is about to
\* send it.
KeepsMark(m) ==
  Protected(m) =>
    /\ log[m].sent = 1
    /\ live[m] \in {"unknown", "unknowing", "ack", "fail", "failing", "done"}
    /\ file[m] = None \/ file[m].marked
    /\ \A w \in Writer : w = "defer" \/ draft[w][m] = None \/ draft[w][m].marked
    /\ \A p \in Pass : ~(Holds(p, m) /\ at[p] = "deliver")

\* A pass that holds an entry its sender has not claimed yet overtook it.
NotesOvertaking(m) ==
  live[m] = "queued" /\ ~log[m].overtaken => \A p \in Pass : ~Holds(p, m)

Orderly(m) ==
  /\ faults = 0 /\ log[m].sent > 0 /\ kind[m] # "notice"
  /\ ~log[m].overtaken /\ ~log[m].clobbered

\* Without faults an entry outlives the platform's acceptance only as long as
\* its one claim holder takes to remove it.
SoonRemoved(m) ==
  Orderly(m) =>
    /\ log[m].sent = 1
    /\ live[m] \in {"unknown", "unknowing", "ack", "done"}
    /\ file[m] = None \/ live[m] # "done" \/ \E p \in Pass : Holds(p, m) /\ at[p] = "ack"
    /\ \A p \in Pass : Holds(p, m) => at[p] \in {"check", "ack"}

MessageInv(m) ==
  Unqueued(m) /\ MarksLate(m) /\ KeepsMark(m) /\ NotesOvertaking(m) /\ SoonRemoved(m)
-----------------------------------------------------------------------------
(* The operators the queue is built from *)

\* The smallest of a set of messages is one of them.
LEMMA MinOfMsgs ==
  ASSUME NEW S \in SUBSET Msg, S # {}
  PROVE  Min(S) \in S
<1> DEFINE R == {ss \in Nat \X Nat : ss[1] < ss[2]}
<1>1. S \in SUBSET Nat
    BY DeliveryAssumption DEF Msg
<1>2. IsWellFoundedOn(R, Nat)
    BY NatLessThanWellFounded DEF OpToRel
<1>3. PICK x \in S : \A y \in S : <<y, x>> \notin R
    BY <1>1, <1>2, WFMin
<1>4. ASSUME NEW y \in S PROVE x <= y
    <2>1. x \in Nat /\ y \in Nat
        BY <1>1
    <2>2. y < x => <<y, x>> \in R
        BY <2>1
    <2>3. QED
        BY <1>3, <2>1, <2>2
<1>5. QED
    BY <1>4 DEF Min

\* The count of accepted sends stops at two.
LEMMA SentCount ==
  ASSUME NEW s \in 0..2
  PROVE  Min({2, s + 1}) = IF s = 2 THEN 2 ELSE s + 1
<1>1. \E x \in {2, s + 1} : \A y \in {2, s + 1} : x <= y
    OBVIOUS
<1>2. Min({2, s + 1}) \in {2, s + 1} /\ \A y \in {2, s + 1} : Min({2, s + 1}) <= y
    BY <1>1 DEF Min
<1>3. QED
    BY <1>2

\* An entry that was read is changed into an entry: marked for good, or tried
\* once more with its mark as it was.
LEMMA EntryUpdates ==
  ASSUME NEW e \in Entry
  PROVE  /\ failDelivery(e) \in Entry /\ failDelivery(e) # None
         /\ failDelivery(e).marked <=> e.marked
         /\ markDelivery(e) \in Entry /\ markDelivery(e) # None
         /\ markDelivery(e).marked
<1>1. e \in [retry : Nat, marked : BOOLEAN]
    BY DEF Entry
<1>2. ASSUME NEW b \in BOOLEAN PROVE [e EXCEPT !.marked = b] \in Entry
    BY <1>1 DEF Entry
<1>3. markDelivery(e) \in Entry /\ markDelivery(e).marked
    <2>1. [e EXCEPT !.marked = TRUE].marked
        BY <1>1
    <2>2. QED
        BY <1>2, <2>1 DEF markDelivery
<1>4. failDelivery(e) \in Entry /\ (failDelivery(e).marked <=> e.marked)
    BY <1>1 DEF Entry, failDelivery
<1>5. QED
    BY <1>3, <1>4, NoneIsNoEntry

\* A new entry is an unmarked entry.
LEMMA FreshEntry == NewEntry \in Entry /\ NewEntry # None /\ ~NewEntry.marked
<1>1. NewEntry \in Entry /\ ~NewEntry.marked
    BY DEF NewEntry, Entry
<1>2. QED
    BY <1>1, NoneIsNoEntry

\* Writing one draft leaves the others.
LEMMA DraftUpdates ==
  ASSUME draft \in [Writer -> [Msg -> Entry \cup {None}]],
         NEW w \in Writer, NEW m \in Msg, NEW e \in Entry \cup {None},
         draft' = [draft EXCEPT ![w][m] = e]
  PROVE  /\ draft' \in [Writer -> [Msg -> Entry \cup {None}]]
         /\ draft'[w][m] = e
         /\ \A v \in Writer, u \in Msg : v # w \/ u # m => draft'[v][u] = draft[v][u]
<1>1. [draft[w] EXCEPT ![m] = e] \in [Msg -> Entry \cup {None}]
    OBVIOUS
<1>2. draft' = [draft EXCEPT ![w] = [draft[w] EXCEPT ![m] = e]]
    OBVIOUS
<1>3. QED
    BY <1>1, <1>2

\* What the platform's acceptance leaves in the history of message m.
LEMMA AcceptLogs ==
  ASSUME TypeOK, NEW m \in Msg, Accept(m)
  PROVE  /\ log' \in [Msg -> Log]
         /\ \A u \in Msg : u # m => log'[u] = log[u]
         /\ log'[m].sent = IF log[m].sent = 2 THEN 2 ELSE log[m].sent + 1
         /\ log'[m].exposed <=> \/ log[m].exposed
                                \/ log[m].sent = 0 /\ (file[m] = None \/ ~file[m].marked)
         /\ log'[m].accepted = log[m].accepted /\ log'[m].clobbered = log[m].clobbered
         /\ log'[m].overtaken = log[m].overtaken /\ log'[m].withdrawn = log[m].withdrawn
<1> DEFINE l == log[m]
           x == l.exposed \/ (l.sent = 0 /\ (file[m] = None \/ ~file[m].marked))
           n == [accepted |-> l.accepted, sent |-> Min({2, l.sent + 1}), exposed |-> x,
                 clobbered |-> l.clobbered, overtaken |-> l.overtaken, withdrawn |-> l.withdrawn]
<1>1. l \in Log /\ log \in [Msg -> Log]
    BY DEF TypeOK
<1>2. l.sent \in 0..2 /\ x \in BOOLEAN
    BY <1>1 DEF Log
<1>3. Min({2, l.sent + 1}) = (IF l.sent = 2 THEN 2 ELSE l.sent + 1) /\ Min({2, l.sent + 1}) \in 0..2
    BY <1>2, SentCount
<1>4. log' = [log EXCEPT ![m] = log'[m]] /\ log'[m] = n
    <2>1. l = [accepted |-> l.accepted, sent |-> l.sent, exposed |-> l.exposed,
               clobbered |-> l.clobbered, overtaken |-> l.overtaken, withdrawn |-> l.withdrawn]
        BY <1>1 DEF Log
    <2>2. log'[m] = [[l EXCEPT !.sent = Min({2, @ + 1})]
                        EXCEPT !.exposed = @ \/ (log[m].sent = 0 /\ (file[m] = None \/ ~file[m].marked))]
        BY <1>1 DEF Accept
    <2>3. log' = [log EXCEPT ![m] = log'[m]]
        BY <1>1 DEF Accept
    <2>4. QED
        BY <2>1, <2>2, <2>3, Zenon
<1> HIDE DEF x
<1>5. n \in Log
    BY <1>1, <1>2, <1>3 DEF Log
<1>6. /\ log' \in [Msg -> Log]
      /\ \A u \in Msg : u # m => log'[u] = log[u]
    BY <1>1, <1>4, <1>5
<1>7. log'[m].exposed <=> x
    BY <1>2, <1>4
<1>8. QED
    BY <1>3, <1>4, <1>6, <1>7 DEF x

\* An entry that is written is noted.
LEMMA AcceptedLogs ==
  ASSUME TypeOK, NEW m \in Msg,
         log' = [log EXCEPT ![m].accepted = TRUE]
  PROVE  /\ log' \in [Msg -> Log]
         /\ \A u \in Msg : u # m => log'[u] = log[u]
         /\ log'[m].sent = log[m].sent
         /\ log'[m].exposed <=> log[m].exposed
         /\ log'[m].accepted <=> TRUE
         /\ log'[m].withdrawn <=> log[m].withdrawn
         /\ log'[m].overtaken <=> log[m].overtaken
         /\ log'[m].clobbered <=> log[m].clobbered
<1> DEFINE b == TRUE
<1>1. log \in [Msg -> Log] /\ log[m] \in Log /\ b \in BOOLEAN
    BY DEF TypeOK
<1>2. log' = [log EXCEPT ![m].accepted = b]
    OBVIOUS
<1> HIDE DEF b
<1>3. log'[m] = [log[m] EXCEPT !.accepted = b] /\ log'[m] \in Log
    <2>1. log'[m] = [log[m] EXCEPT !.accepted = b]
        BY <1>1, <1>2
    <2>2. \A x \in Log : [x EXCEPT !.accepted = b] \in Log
        BY <1>1 DEF Log
    <2>3. QED
        BY <1>1, <2>1, <2>2
<1>4. log' \in [Msg -> Log] /\ \A u \in Msg : u # m => log'[u] = log[u]
    BY <1>1, <1>2, <1>3
<1>5. /\ log'[m].sent = log[m].sent
      /\ log'[m].exposed <=> log[m].exposed
      /\ log'[m].accepted <=> b
      /\ log'[m].withdrawn <=> log[m].withdrawn
      /\ log'[m].overtaken <=> log[m].overtaken
      /\ log'[m].clobbered <=> log[m].clobbered
    BY <1>1, <1>3 DEF Log
<1>6. QED
    BY <1>4, <1>5 DEF b

\* A message that is cancelled or aborted is noted.
LEMMA WithdrawLogs ==
  ASSUME TypeOK, NEW m \in Msg,
         log' = [log EXCEPT ![m].withdrawn = TRUE]
  PROVE  /\ log' \in [Msg -> Log]
         /\ \A u \in Msg : u # m => log'[u] = log[u]
         /\ log'[m].sent = log[m].sent
         /\ log'[m].exposed <=> log[m].exposed
         /\ log'[m].withdrawn <=> TRUE
         /\ log'[m].accepted <=> log[m].accepted
         /\ log'[m].overtaken <=> log[m].overtaken
         /\ log'[m].clobbered <=> log[m].clobbered
<1> DEFINE b == TRUE
<1>1. log \in [Msg -> Log] /\ log[m] \in Log /\ b \in BOOLEAN
    BY DEF TypeOK
<1>2. log' = [log EXCEPT ![m].withdrawn = b]
    OBVIOUS
<1> HIDE DEF b
<1>3. log'[m] = [log[m] EXCEPT !.withdrawn = b] /\ log'[m] \in Log
    <2>1. log'[m] = [log[m] EXCEPT !.withdrawn = b]
        BY <1>1, <1>2
    <2>2. \A x \in Log : [x EXCEPT !.withdrawn = b] \in Log
        BY <1>1 DEF Log
    <2>3. QED
        BY <1>1, <2>1, <2>2
<1>4. log' \in [Msg -> Log] /\ \A u \in Msg : u # m => log'[u] = log[u]
    BY <1>1, <1>2, <1>3
<1>5. /\ log'[m].sent = log[m].sent
      /\ log'[m].exposed <=> log[m].exposed
      /\ log'[m].withdrawn <=> b
      /\ log'[m].accepted <=> log[m].accepted
      /\ log'[m].overtaken <=> log[m].overtaken
      /\ log'[m].clobbered <=> log[m].clobbered
    BY <1>1, <1>3 DEF Log
<1>6. QED
    BY <1>4, <1>5 DEF b

\* A pass that claims an entry notes whether it came before the sender.
LEMMA OvertakenLogs ==
  ASSUME TypeOK, NEW m \in Msg,
         log' = [log EXCEPT ![m].overtaken = @ \/ live[m] = "queued"]
  PROVE  /\ log' \in [Msg -> Log]
         /\ \A u \in Msg : u # m => log'[u] = log[u]
         /\ log'[m].sent = log[m].sent
         /\ log'[m].exposed <=> log[m].exposed
         /\ log'[m].overtaken <=> (log[m].overtaken \/ live[m] = "queued")
         /\ log'[m].accepted <=> log[m].accepted
         /\ log'[m].withdrawn <=> log[m].withdrawn
         /\ log'[m].clobbered <=> log[m].clobbered
<1> DEFINE b == (log[m].overtaken \/ live[m] = "queued")
<1>1. log \in [Msg -> Log] /\ log[m] \in Log /\ b \in BOOLEAN
    BY DEF TypeOK
<1>2. log' = [log EXCEPT ![m].overtaken = b]
    OBVIOUS
<1> HIDE DEF b
<1>3. log'[m] = [log[m] EXCEPT !.overtaken = b] /\ log'[m] \in Log
    <2>1. log'[m] = [log[m] EXCEPT !.overtaken = b]
        BY <1>1, <1>2
    <2>2. \A x \in Log : [x EXCEPT !.overtaken = b] \in Log
        BY <1>1 DEF Log
    <2>3. QED
        BY <1>1, <2>1, <2>2
<1>4. log' \in [Msg -> Log] /\ \A u \in Msg : u # m => log'[u] = log[u]
    BY <1>1, <1>2, <1>3
<1>5. /\ log'[m].sent = log[m].sent
      /\ log'[m].exposed <=> log[m].exposed
      /\ log'[m].overtaken <=> b
      /\ log'[m].accepted <=> log[m].accepted
      /\ log'[m].withdrawn <=> log[m].withdrawn
      /\ log'[m].clobbered <=> log[m].clobbered
    BY <1>1, <1>3 DEF Log
<1>6. QED
    BY <1>4, <1>5 DEF b

\* A deferred write notes whether it undid the work of somebody else.
LEMMA ClobberedLogs ==
  ASSUME TypeOK, NEW m \in Msg,
         log' = [log EXCEPT ![m].clobbered = 
           @ \/ file[m] = None \/ file[m].marked # draft["defer"][m].marked]
  PROVE  /\ log' \in [Msg -> Log]
         /\ \A u \in Msg : u # m => log'[u] = log[u]
         /\ log'[m].sent = log[m].sent
         /\ log'[m].exposed <=> log[m].exposed
         /\ log'[m].clobbered <=> (log[m].clobbered \/ file[m] = None \/ file[m].marked # draft["defer"][m].marked)
         /\ log'[m].accepted <=> log[m].accepted
         /\ log'[m].withdrawn <=> log[m].withdrawn
         /\ log'[m].overtaken <=> log[m].overtaken
<1> DEFINE b == (log[m].clobbered \/ file[m] = None \/ file[m].marked # draft["defer"][m].marked)
<1>1. log \in [Msg -> Log] /\ log[m] \in Log /\ b \in BOOLEAN
    BY DEF TypeOK
<1>2. log' = [log EXCEPT ![m].clobbered = b]
    OBVIOUS
<1> HIDE DEF b
<1>3. log'[m] = [log[m] EXCEPT !.clobbered = b] /\ log'[m] \in Log
    <2>1. log'[m] = [log[m] EXCEPT !.clobbered = b]
        BY <1>1, <1>2
    <2>2. \A x \in Log : [x EXCEPT !.clobbered = b] \in Log
        BY <1>1 DEF Log
    <2>3. QED
        BY <1>1, <2>1, <2>2
<1>4. log' \in [Msg -> Log] /\ \A u \in Msg : u # m => log'[u] = log[u]
    BY <1>1, <1>2, <1>3
<1>5. /\ log'[m].sent = log[m].sent
      /\ log'[m].exposed <=> log[m].exposed
      /\ log'[m].clobbered <=> b
      /\ log'[m].accepted <=> log[m].accepted
      /\ log'[m].withdrawn <=> log[m].withdrawn
      /\ log'[m].overtaken <=> log[m].overtaken
    BY <1>1, <1>3 DEF Log
<1>6. QED
    BY <1>4, <1>5 DEF b

SetFile(m, e) ==
  /\ file' \in [Msg -> Entry \cup {None}]
  /\ file'[m] = e /\ \A u \in Msg : u # m => file'[u] = file[u]

SetDraft(w, m, e) ==
  /\ draft' \in [Writer -> [Msg -> Entry \cup {None}]]
  /\ draft'[w][m] = e
  /\ \A v \in Writer, u \in Msg : v # w \/ u # m => draft'[v][u] = draft[v][u]

\* The storage operations touch one entry and one draft.
LEMMA Storage ==
  ASSUME TypeOK, NEW w \in Writer, NEW m \in Msg
  PROVE  /\ \A e \in Entry : Read(w, m, e) => SetDraft(w, m, e) /\ file' = file
         /\ WriteBack(w, m) => SetFile(m, draft[w][m]) /\ SetDraft(w, m, None)
         /\ Forget(w, m) => SetDraft(w, m, None) /\ file' = file
         /\ Remove(m) => SetFile(m, None)
<1>1. ASSUME NEW e \in Entry \cup {None}, draft' = [draft EXCEPT ![w][m] = e]
      PROVE  SetDraft(w, m, e)
    <2>1. draft \in [Writer -> [Msg -> Entry \cup {None}]]
        BY DEF TypeOK
    <2>2. QED
        BY <1>1, <2>1, DraftUpdates DEF SetDraft
<1>2. ASSUME NEW e \in Entry \cup {None}, file' = [file EXCEPT ![m] = e]
      PROVE  SetFile(m, e)
    BY <1>2 DEF TypeOK, SetFile
<1>3. draft[w][m] \in Entry \cup {None}
    BY DEF TypeOK
<1>4. QED
    BY <1>1, <1>2, <1>3 DEF Read, WriteBack, Forget, Remove

\* Who reads an entry to change it.
LEMMA Updates ==
  ASSUME TypeOK, NEW w \in Writer, NEW m \in Msg, file[m] # None
  PROVE  /\ Read(w, m, failDelivery(file[m])) =>
              /\ SetDraft(w, m, failDelivery(file[m])) /\ file' = file
              /\ draft'[w][m] \in Entry /\ draft'[w][m] # None
              /\ draft'[w][m].marked <=> file[m].marked
         /\ Read(w, m, markDelivery(file[m])) =>
              /\ SetDraft(w, m, markDelivery(file[m])) /\ file' = file
              /\ draft'[w][m] \in Entry /\ draft'[w][m] # None
              /\ draft'[w][m].marked
<1>1. file[m] \in Entry
    BY DEF TypeOK
<1>2. /\ failDelivery(file[m]) \in Entry /\ failDelivery(file[m]) # None
      /\ failDelivery(file[m]).marked <=> file[m].marked
      /\ markDelivery(file[m]) \in Entry /\ markDelivery(file[m]) # None
      /\ markDelivery(file[m]).marked
    BY <1>1, EntryUpdates
<1>3. ASSUME NEW e \in Entry, Read(w, m, e) 
      PROVE  SetDraft(w, m, e) /\ file' = file /\ draft'[w][m] = e
    BY <1>3, Storage DEF SetDraft
<1>4. QED
    BY <1>2, <1>3
-----------------------------------------------------------------------------
(* Types *)

\* What Next does, action by action.
LEMMA NextCases ==
  ASSUME Next
  PROVE  \/ \E m \in Msg :
              \/ Enqueue(m) \/ DirectSend(m) \/ LiveClaim(m) \/ LivePrepares(m)
              \/ LiveMarks(m) \/ LiveMarkWrites(m) \/ LiveSends(m) \/ LiveOutcome(m)
              \/ LiveOutcomeWrites(m) \/ LiveAcks(m) \/ LiveFails(m) \/ LiveFailWrites(m)
              \/ NoticeSends(m) \/ NoticeAcks(m) \/ NoticeFails(m) \/ NoticeFailWrites(m)
              \/ DeferReads(m) \/ DeferWrites(m)
         \/ \E p \in Pass :
              \/ Drain(p) \/ Visit(p) \/ PassEnds(p) \/ Check(p) \/ Reconcile(p) \/ Deliver(p)
              \/ Ack(p) \/ Fail(p) \/ FailWrites(p) \/ Move(p)
         \/ StartupScan \/ Defer \/ DeferEnds \/ Crash
  BY DEF Next, LiveStep, NoticeStep, PassStep, DeferStep

\* Who is a writer.
LEMMA Writers ==
  /\ "live" \in Writer /\ "defer" \in Writer /\ Pass \subseteq Writer /\ "startup" \in Pass
  /\ "live" \notin Pass /\ "defer" \notin Pass
  BY DeliveryAssumption DEF Writer, Pass

\* A pass that works on an entry works on a message.
LEMMA HeldIsMsg ==
  ASSUME TypeOK, ClaimInv, NEW p \in Pass, at[p] \in PassHolding
  PROVE  cur[p] \in Msg
  BY DEF TypeOK, ClaimInv

\* The control state of senders and passes keeps its type.
ControlOK ==
  /\ kind \in [Msg -> Kind]
  /\ failed \subseteq Msg /\ claimed \subseteq Msg
  /\ live \in [Msg -> LivePC]
  /\ at \in [Pass -> PassPC]
  /\ cur \in [Pass -> Msg \cup {0}]
  /\ todo \in [Pass -> SUBSET Msg]
  /\ faults \in Nat

\* A step keeps the type of the control state.
LEMMA ControlStep ==
  ASSUME TypeOK, ClaimInv, Next
  PROVE  ControlOK'
<1> ControlOK
    BY DEF TypeOK, ControlOK
<1>1. ASSUME NEW m \in Msg, Enqueue(m) PROVE ControlOK'
    BY <1>1, Writers DEF ControlOK, Enqueue, LivePC, GoLive, DoneLive, Fault, passVars, Unmarked, OutcomeUnmarked
<1>2. ASSUME NEW m \in Msg, DirectSend(m) PROVE ControlOK'
    BY <1>2, Writers DEF ControlOK, DirectSend, LivePC, GoLive, DoneLive, Fault, passVars, Unmarked, OutcomeUnmarked
<1>3. ASSUME NEW m \in Msg, LiveClaim(m) PROVE ControlOK'
    BY <1>3, Writers DEF ControlOK, LiveClaim, LivePC, GoLive, DoneLive, Fault, passVars, Unmarked, OutcomeUnmarked
<1>4. ASSUME NEW m \in Msg, LivePrepares(m) PROVE ControlOK'
    BY <1>4, Writers DEF ControlOK, LivePrepares, LivePC, GoLive, DoneLive, Fault, passVars, Unmarked, OutcomeUnmarked
<1>5. ASSUME NEW m \in Msg, LiveMarks(m) PROVE ControlOK'
    BY <1>5, Writers DEF ControlOK, LiveMarks, LivePC, GoLive, DoneLive, Fault, passVars, Unmarked, OutcomeUnmarked
<1>6. ASSUME NEW m \in Msg, LiveMarkWrites(m) PROVE ControlOK'
    BY <1>6, Writers DEF ControlOK, LiveMarkWrites, LivePC, GoLive, DoneLive, Fault, passVars, Unmarked, OutcomeUnmarked
<1>7. ASSUME NEW m \in Msg, LiveSends(m) PROVE ControlOK'
    BY <1>7, Writers DEF ControlOK, LiveSends, LivePC, GoLive, DoneLive, Fault, passVars, Unmarked, OutcomeUnmarked
<1>8. ASSUME NEW m \in Msg, LiveOutcome(m) PROVE ControlOK'
    BY <1>8, Writers DEF ControlOK, LiveOutcome, LivePC, GoLive, DoneLive, Fault, passVars, Unmarked, OutcomeUnmarked
<1>9. ASSUME NEW m \in Msg, LiveOutcomeWrites(m) PROVE ControlOK'
    BY <1>9, Writers DEF ControlOK, LiveOutcomeWrites, LivePC, GoLive, DoneLive, Fault, passVars, Unmarked, OutcomeUnmarked
<1>10. ASSUME NEW m \in Msg, LiveAcks(m) PROVE ControlOK'
    BY <1>10, Writers DEF ControlOK, LiveAcks, LivePC, GoLive, DoneLive, Fault, passVars, Unmarked, OutcomeUnmarked
<1>11. ASSUME NEW m \in Msg, LiveFails(m) PROVE ControlOK'
    BY <1>11, Writers DEF ControlOK, LiveFails, LivePC, GoLive, DoneLive, Fault, passVars, Unmarked, OutcomeUnmarked
<1>12. ASSUME NEW m \in Msg, LiveFailWrites(m) PROVE ControlOK'
    BY <1>12, Writers DEF ControlOK, LiveFailWrites, LivePC, GoLive, DoneLive, Fault, passVars, Unmarked, OutcomeUnmarked
<1>13. ASSUME NEW m \in Msg, NoticeSends(m) PROVE ControlOK'
    BY <1>13, Writers DEF ControlOK, NoticeSends, LivePC, GoLive, DoneLive, Fault, passVars, Unmarked, OutcomeUnmarked
<1>14. ASSUME NEW m \in Msg, NoticeAcks(m) PROVE ControlOK'
    BY <1>14, Writers DEF ControlOK, NoticeAcks, LivePC, GoLive, DoneLive, Fault, passVars, Unmarked, OutcomeUnmarked
<1>15. ASSUME NEW m \in Msg, NoticeFails(m) PROVE ControlOK'
    BY <1>15, Writers DEF ControlOK, NoticeFails, LivePC, GoLive, DoneLive, Fault, passVars, Unmarked, OutcomeUnmarked
<1>16. ASSUME NEW m \in Msg, NoticeFailWrites(m) PROVE ControlOK'
    BY <1>16, Writers DEF ControlOK, NoticeFailWrites, LivePC, GoLive, DoneLive, Fault, passVars, Unmarked, OutcomeUnmarked
<1>17. ASSUME NEW m \in Msg, DeferReads(m) PROVE ControlOK'
    BY <1>17, Writers DEF ControlOK, DeferReads, LivePC, GoLive, DoneLive, Fault, passVars, Unmarked, OutcomeUnmarked
<1>18. ASSUME NEW m \in Msg, DeferWrites(m) PROVE ControlOK'
    BY <1>18, Writers DEF ControlOK, DeferWrites, LivePC, GoLive, DoneLive, Fault, passVars, Unmarked, OutcomeUnmarked
<1>19. ASSUME NEW p \in Pass, Drain(p) PROVE ControlOK'
    BY <1>19, HeldIsMsg, MinOfMsgs
    DEF ControlOK, PassHolding, Drain, PassPC, Goto, ReleaseAndNext, Fault, passVars, Pending
<1>20. ASSUME NEW p \in Pass, Visit(p) PROVE ControlOK'
    BY <1>20, HeldIsMsg, MinOfMsgs
    DEF ControlOK, PassHolding, Visit, PassPC, Goto, ReleaseAndNext, Fault, passVars, Pending
<1>21. ASSUME NEW p \in Pass, PassEnds(p) PROVE ControlOK'
    BY <1>21, HeldIsMsg, MinOfMsgs
    DEF ControlOK, PassHolding, PassEnds, PassPC, Goto, ReleaseAndNext, Fault, passVars, Pending
<1>22. ASSUME NEW p \in Pass, Check(p) PROVE ControlOK'
    BY <1>22, HeldIsMsg, MinOfMsgs
    DEF ControlOK, PassHolding, Check, PassPC, Goto, ReleaseAndNext, Fault, passVars, Pending
<1>23. ASSUME NEW p \in Pass, Reconcile(p) PROVE ControlOK'
    BY <1>23, HeldIsMsg, MinOfMsgs
    DEF ControlOK, PassHolding, Reconcile, PassPC, Goto, ReleaseAndNext, Fault, passVars, Pending
<1>24. ASSUME NEW p \in Pass, Deliver(p) PROVE ControlOK'
    BY <1>24, HeldIsMsg, MinOfMsgs
    DEF ControlOK, PassHolding, Deliver, PassPC, Goto, ReleaseAndNext, Fault, passVars, Pending
<1>25. ASSUME NEW p \in Pass, Ack(p) PROVE ControlOK'
    BY <1>25, HeldIsMsg, MinOfMsgs
    DEF ControlOK, PassHolding, Ack, PassPC, Goto, ReleaseAndNext, Fault, passVars, Pending
<1>26. ASSUME NEW p \in Pass, Fail(p) PROVE ControlOK'
    BY <1>26, HeldIsMsg, MinOfMsgs
    DEF ControlOK, PassHolding, Fail, PassPC, Goto, ReleaseAndNext, Fault, passVars, Pending
<1>27. ASSUME NEW p \in Pass, FailWrites(p) PROVE ControlOK'
    BY <1>27, HeldIsMsg, MinOfMsgs
    DEF ControlOK, PassHolding, FailWrites, PassPC, Goto, ReleaseAndNext, Fault, passVars, Pending
<1>28. ASSUME NEW p \in Pass, Move(p) PROVE ControlOK'
    BY <1>28, HeldIsMsg, MinOfMsgs
    DEF ControlOK, PassHolding, Move, PassPC, Goto, ReleaseAndNext, Fault, passVars, Pending
<1>29. CASE StartupScan
    BY <1>29, Writers DEF ControlOK, StartupScan, PassPC, LivePC, Fault, Pending
<1>30. CASE Defer
    BY <1>30, Writers DEF ControlOK, Defer, PassPC, LivePC, Fault, Pending
<1>31. CASE DeferEnds
    BY <1>31, Writers DEF ControlOK, DeferEnds, PassPC, LivePC, Fault, Pending
<1>32. CASE Crash
    BY <1>32, Writers DEF ControlOK, Crash, PassPC, LivePC, Fault, Pending
<1>33. QED
    BY <1>1, <1>2, <1>3, <1>4, <1>5, <1>6, <1>7, <1>8, <1>9, <1>10, <1>11, <1>12, <1>13, <1>14, <1>15, <1>16, <1>17, <1>18, <1>19, <1>20, <1>21, <1>22, <1>23, <1>24, <1>25, <1>26, <1>27, <1>28, <1>29, <1>30, <1>31, <1>32, NextCases

\* The history only grows, and what is newly accepted has its entry.
LogGrows ==
  /\ log' \in [Msg -> Log]
  /\ \A u \in Msg :
       /\ log[u].sent <= log'[u].sent
       /\ log[u].withdrawn => log'[u].withdrawn
       /\ log[u].exposed => log'[u].exposed
       /\ log[u].clobbered => log'[u].clobbered
       /\ log[u].overtaken => log'[u].overtaken
       /\ log'[u].accepted => log[u].accepted \/ file'[u] # None

\* No step takes anything back from the history.
LEMMA LogStep ==
  ASSUME TypeOK, ClaimInv, Next
  PROVE  LogGrows
<1>1. log \in [Msg -> Log]
    BY DEF TypeOK
<1>2. ASSUME UNCHANGED log PROVE LogGrows
    BY <1>1, <1>2 DEF LogGrows, Log
<1>a. ASSUME NEW m \in Msg, log' \in [Msg -> Log], \A u \in Msg : u # m => log'[u] = log[u],
             log[m].sent <= log'[m].sent, log[m].withdrawn => log'[m].withdrawn,
             log[m].exposed => log'[m].exposed, log[m].clobbered => log'[m].clobbered,
             log[m].overtaken => log'[m].overtaken,
             log'[m].accepted => log[m].accepted \/ file'[m] # None
      PROVE  LogGrows
    <2>1. \A u \in Msg : log[u].sent <= log[u].sent
        BY <1>1 DEF Log
    <2>2. QED
        BY <1>1, <1>a, <2>1 DEF LogGrows
<1>b. \A u \in Msg : log[u].sent \in 0..2
    BY <1>1 DEF Log
<1>3. ASSUME NEW m \in Msg, Accept(m) PROVE LogGrows
    <2>1. log[m].sent <= log'[m].sent
        BY <1>3, <1>b, AcceptLogs
    <2>2. QED
        BY <1>3, <1>a, <2>1, AcceptLogs
<1>4. ASSUME NEW m \in Msg, Withdraw(m) PROVE LogGrows
    <2>1. log' = [log EXCEPT ![m].withdrawn = TRUE]
        BY <1>4 DEF Withdraw
    <2>2. /\ log' \in [Msg -> Log] /\ \A u \in Msg : u # m => log'[u] = log[u]
          /\ log'[m].sent = log[m].sent
          /\ log[m].exposed => log'[m].exposed
          /\ log[m].withdrawn => log'[m].withdrawn
          /\ log[m].clobbered => log'[m].clobbered
          /\ log[m].overtaken => log'[m].overtaken
          /\ log'[m].accepted => log[m].accepted
        BY <2>1, WithdrawLogs
    <2>3. QED
        BY <1>a, <1>b, <2>2
<1>5. ASSUME NEW m \in Msg, Enqueue(m) PROVE LogGrows
    <2>1. CASE UNCHANGED log
        BY <1>2, <2>1
    <2>2. CASE file' = [file EXCEPT ![m] = NewEntry] /\ log' = [log EXCEPT ![m].accepted = TRUE]
        <3>1. file'[m] # None
            BY <2>2, FreshEntry DEF TypeOK
        <3>2. /\ log' \in [Msg -> Log] /\ \A u \in Msg : u # m => log'[u] = log[u]
              /\ log'[m].sent = log[m].sent
              /\ log[m].exposed => log'[m].exposed
              /\ log[m].withdrawn => log'[m].withdrawn
              /\ log[m].clobbered => log'[m].clobbered
              /\ log[m].overtaken => log'[m].overtaken
            BY <2>2, AcceptedLogs
        <3>3. QED
            BY <1>a, <1>b, <3>1, <3>2
    <2>3. QED
        BY <1>5, <2>1, <2>2 DEF Enqueue
<1>6. ASSUME NEW p \in Pass, Visit(p) PROVE LogGrows
    <2>1. Min(todo[p]) \in Msg
        BY <1>6, MinOfMsgs DEF TypeOK, Visit
    <2>2. QED
        BY <1>2, <1>6, <1>a, <1>b, <2>1, OvertakenLogs DEF Visit
<1>7. ASSUME NEW m \in Msg, DeferWrites(m) PROVE LogGrows
    <2>1. log' = [log EXCEPT ![m].clobbered =
                    @ \/ file[m] = None \/ file[m].marked # draft["defer"][m].marked]
        BY <1>7 DEF DeferWrites
    <2>2. /\ log' \in [Msg -> Log] /\ \A u \in Msg : u # m => log'[u] = log[u]
          /\ log'[m].sent = log[m].sent
          /\ log[m].exposed => log'[m].exposed
          /\ log[m].withdrawn => log'[m].withdrawn
          /\ log[m].clobbered => log'[m].clobbered
          /\ log[m].overtaken => log'[m].overtaken
          /\ log'[m].accepted => log[m].accepted
        BY <2>1, ClobberedLogs
    <2>3. QED
        BY <1>a, <1>b, <2>2
<1>8. ASSUME NEW m \in Msg, DirectSend(m) \/ LivePrepares(m) \/ LiveSends(m) \/ NoticeSends(m) PROVE LogGrows
    BY <1>2, <1>3, <1>4, <1>8 DEF DirectSend, LivePrepares, LiveSends, NoticeSends
<1>9. ASSUME NEW p \in Pass, Deliver(p) PROVE LogGrows
    <2>1. cur[p] \in Msg
        BY <1>9, HeldIsMsg DEF Deliver, PassHolding
    <2>2. QED
        BY <1>2, <1>3, <1>4, <1>9, <2>1 DEF Deliver
<1>10. ASSUME NEW m \in Msg,
              \/ LiveClaim(m) \/ LiveMarks(m) \/ LiveMarkWrites(m) \/ LiveOutcome(m)
              \/ LiveOutcomeWrites(m) \/ LiveAcks(m) \/ LiveFails(m) \/ LiveFailWrites(m)
              \/ NoticeAcks(m) \/ NoticeFails(m) \/ NoticeFailWrites(m) \/ DeferReads(m)
       PROVE  LogGrows
    BY <1>2, <1>10 DEF LiveClaim, LiveMarks, LiveMarkWrites, LiveOutcome, LiveOutcomeWrites,
         LiveAcks, LiveFails, LiveFailWrites, NoticeAcks, NoticeFails, NoticeFailWrites, DeferReads
<1>11. ASSUME NEW p \in Pass,
              \/ Drain(p) \/ PassEnds(p) \/ Check(p) \/ Reconcile(p)
              \/ Ack(p) \/ Fail(p) \/ FailWrites(p) \/ Move(p)
       PROVE  LogGrows
    BY <1>2, <1>11 DEF Drain, PassEnds, Check, Reconcile, Ack, Fail, FailWrites, Move
<1>12. CASE StartupScan \/ Defer \/ DeferEnds \/ Crash
    BY <1>2, <1>12 DEF StartupScan, Defer, DeferEnds, Crash
<1>13. QED
    BY <1>5, <1>6, <1>7, <1>8, <1>9, <1>10, <1>11, <1>12, NextCases

StoreOK ==
  /\ file \in [Msg -> Entry \cup {None}]
  /\ draft \in [Writer -> [Msg -> Entry \cup {None}]]

\* A step keeps the types of the entries and the drafts.
LEMMA StoreStep ==
  ASSUME TypeOK, ClaimInv, Next
  PROVE  StoreOK'
<1>1. StoreOK
    BY DEF TypeOK, StoreOK
<1>2. ASSUME UNCHANGED <<file, draft>> PROVE StoreOK'
    BY <1>1, <1>2 DEF StoreOK
<1>3. ASSUME NEW w \in Writer, NEW m \in Msg,
             \/ file[m] # None /\ Read(w, m, failDelivery(file[m]))
             \/ file[m] # None /\ Read(w, m, markDelivery(file[m]))
             \/ WriteBack(w, m) \/ Forget(w, m)
             \/ Remove(m) /\ draft' = draft
      PROVE  StoreOK'
    BY <1>1, <1>3, Updates, Storage DEF StoreOK, SetDraft, SetFile
<1>4. NewEntry \in Entry
    BY FreshEntry
<1>5. ASSUME NEW m \in Msg, Enqueue(m) PROVE StoreOK'
    BY <1>1, <1>2, <1>4, <1>5 DEF Enqueue, StoreOK
<1>6. ASSUME NEW m \in Msg,
             \/ LiveMarks(m) \/ LiveMarkWrites(m) \/ LiveOutcome(m) \/ LiveOutcomeWrites(m)
             \/ LiveAcks(m) \/ LiveFails(m) \/ LiveFailWrites(m)
      PROVE  StoreOK'
    BY <1>2, <1>3, <1>6, Writers DEF LiveMarks, LiveMarkWrites, LiveOutcome, LiveOutcomeWrites,
         LiveAcks, LiveFails, LiveFailWrites
<1>7. ASSUME NEW m \in Msg,
             \/ NoticeAcks(m) \/ NoticeFails(m) \/ NoticeFailWrites(m)
             \/ DeferReads(m) \/ DeferWrites(m)
      PROVE  StoreOK'
    BY <1>2, <1>3, <1>7, Writers DEF NoticeAcks, NoticeFails, NoticeFailWrites, DeferReads, DeferWrites
<1>8. ASSUME NEW p \in Pass, Ack(p) \/ Fail(p) \/ FailWrites(p) \/ Move(p) PROVE StoreOK'
    <2>1. cur[p] \in Msg
        BY <1>8, HeldIsMsg DEF Ack, Fail, FailWrites, Move, PassHolding
    <2>2. QED
        BY <1>2, <1>3, <1>8, <2>1, Writers DEF Ack, Fail, FailWrites, Move
<1>9. ASSUME NEW m \in Msg,
             DirectSend(m) \/ LiveClaim(m) \/ LivePrepares(m) \/ LiveSends(m) \/ NoticeSends(m)
      PROVE  StoreOK'
    BY <1>2, <1>9 DEF DirectSend, LiveClaim, LivePrepares, LiveSends, NoticeSends
<1>10. ASSUME NEW p \in Pass,
              \/ Drain(p) \/ Visit(p) \/ PassEnds(p) \/ Check(p) \/ Reconcile(p) \/ Deliver(p)
       PROVE  StoreOK'
    BY <1>2, <1>10 DEF Drain, Visit, PassEnds, Check, Reconcile, Deliver
<1>11. CASE StartupScan \/ Defer \/ DeferEnds
    BY <1>2, <1>11 DEF StartupScan, Defer, DeferEnds
<1>12. CASE Crash
    BY <1>1, <1>12 DEF Crash, StoreOK
<1>13. QED
    BY <1>5, <1>6, <1>7, <1>8, <1>9, <1>10, <1>11, <1>12, NextCases

\* A step keeps the type invariant.
LEMMA TypeStep ==
  ASSUME TypeOK, ClaimInv, Next
  PROVE  TypeOK'
  BY ControlStep, LogStep, StoreStep DEF TypeOK, ControlOK, LogGrows, StoreOK
-----------------------------------------------------------------------------
(* Claims, drafts and kinds *)

\* A step keeps the claims exclusive.
LEMMA ClaimStep ==
  ASSUME TypeOK, ClaimInv, Next
  PROVE  ClaimInv'
<1> USE DEF PassHolding, LiveHolding
<1>1. ASSUME NEW m \in Msg, NEW l \in LivePC, GoLive(m, l), UNCHANGED <<at, cur>>,
             l \in LiveHolding => live[m] \in LiveHolding
      PROVE  ClaimInv'
    BY <1>1 DEF TypeOK, ClaimInv, Holds, GoLive
<1>2. ASSUME NEW m \in Msg, DoneLive(m), UNCHANGED <<at, cur>>, live[m] \in LiveHolding
      PROVE  ClaimInv'
    BY <1>2 DEF TypeOK, ClaimInv, Holds, DoneLive
<1>3. ASSUME NEW p \in Pass, NEW a \in PassPC, at' = [at EXCEPT ![p] = a],
             UNCHANGED <<live, cur, claimed>>, a \in PassHolding => at[p] \in PassHolding
      PROVE  ClaimInv'
    BY <1>3 DEF TypeOK, ClaimInv, Holds
<1>4. ASSUME NEW p \in Pass, NEW a \in PassPC \ PassHolding, at' = [at EXCEPT ![p] = a],
             claimed' = claimed \ {cur[p]}, UNCHANGED <<live, cur>>, at[p] \in PassHolding
      PROVE  ClaimInv'
    BY <1>4 DEF TypeOK, ClaimInv, Holds
<1>5. ASSUME UNCHANGED <<live, at, cur, claimed>> PROVE ClaimInv'
    BY <1>5 DEF ClaimInv, Holds
<1>6. ASSUME NEW m \in Msg, Enqueue(m) \/ DirectSend(m) \/ LivePrepares(m) PROVE ClaimInv'
    BY <1>1, <1>6 DEF Enqueue, DirectSend, LivePrepares, passVars, LivePC
<1>7. ASSUME NEW m \in Msg, LiveClaim(m) PROVE ClaimInv'
    <2>1. CASE m \in claimed
        BY <1>1, <1>7, <2>1 DEF LiveClaim, passVars, LivePC
    <2>2. CASE m \notin claimed
        BY <1>7, <2>2 DEF LiveClaim, passVars, TypeOK, ClaimInv, Holds
    <2>3. QED
        BY <2>1, <2>2
<1>8. ASSUME NEW m \in Msg, LiveMarks(m) \/ LiveMarkWrites(m) \/ LiveSends(m) PROVE ClaimInv'
    BY <1>1, <1>8 DEF LiveMarks, LiveMarkWrites, LiveSends, Unmarked, passVars, LivePC
<1>9. ASSUME NEW m \in Msg, LiveOutcome(m) \/ LiveOutcomeWrites(m) PROVE ClaimInv'
    BY <1>1, <1>2, <1>9 DEF LiveOutcome, LiveOutcomeWrites, OutcomeUnmarked, passVars, LivePC
<1>10. ASSUME NEW m \in Msg, LiveAcks(m) \/ LiveFails(m) \/ LiveFailWrites(m) PROVE ClaimInv'
    BY <1>1, <1>2, <1>10 DEF LiveAcks, LiveFails, LiveFailWrites, passVars, LivePC
<1>11. ASSUME NEW m \in Msg,
              NoticeSends(m) \/ NoticeAcks(m) \/ NoticeFails(m) \/ NoticeFailWrites(m)
       PROVE  ClaimInv'
    <2>1. UNCHANGED <<at, cur>> /\ claimed' = claimed
        BY <1>11 DEF NoticeSends, NoticeAcks, NoticeFails, NoticeFailWrites, passVars
    <2>2. \/ live' = live
          \/ \E l \in NoticePC \cup {"done"} : live' = [live EXCEPT ![m] = l]
        BY <1>11 DEF NoticeSends, NoticeAcks, NoticeFails, NoticeFailWrites, NoticePC
    <2>3. QED
        BY <1>1, <1>5, <2>1, <2>2 DEF GoLive, NoticePC, LivePC
<1>12. ASSUME NEW m \in Msg, DeferReads(m) \/ DeferWrites(m) PROVE ClaimInv'
    BY <1>5, <1>12 DEF DeferReads, DeferWrites, passVars
<1>13. ASSUME NEW p \in Pass, Drain(p) PROVE ClaimInv'
    BY <1>3, <1>13 DEF Drain, PassPC
<1>14. ASSUME NEW p \in Pass, Visit(p) PROVE ClaimInv'
    <2> DEFINE m == Min(todo[p])
    <2>1. m \in Msg
        BY <1>14, MinOfMsgs DEF TypeOK, Visit
    <2>2. CASE m \in claimed
        BY <1>5, <1>14, <2>2 DEF Visit
    <2>3. CASE m \notin claimed
        <3>1. /\ claimed' = claimed \cup {m} /\ cur' = [cur EXCEPT ![p] = m]
              /\ at' = [at EXCEPT ![p] = "check"] /\ live' = live
            BY <1>14, <2>3 DEF Visit
        <3> HIDE DEF m
        <3>2. at[p] = "loop"
            BY <1>14 DEF Visit
        <3>3. QED
            BY <2>1, <2>3, <3>1, <3>2 DEF TypeOK, ClaimInv, Holds
    <2>4. QED
        BY <2>2, <2>3
<1>15. ASSUME NEW p \in Pass, PassEnds(p) PROVE ClaimInv'
    BY <1>15 DEF PassEnds, TypeOK, ClaimInv, Holds
<1>16. ASSUME NEW p \in Pass, Check(p) \/ Reconcile(p) \/ Deliver(p) PROVE ClaimInv'
    BY <1>3, <1>4, <1>16 DEF Check, Reconcile, Deliver, Goto, ReleaseAndNext, PassPC
<1>17. ASSUME NEW p \in Pass, Ack(p) \/ Fail(p) \/ FailWrites(p) \/ Move(p) PROVE ClaimInv'
    BY <1>3, <1>4, <1>17 DEF Ack, Fail, FailWrites, Move, Goto, ReleaseAndNext, PassPC
<1>18. CASE StartupScan \/ Defer \/ DeferEnds
    BY <1>3, <1>18, Writers DEF StartupScan, Defer, DeferEnds, PassPC
<1>19. CASE Crash
    BY <1>19 DEF Crash, ClaimInv, Holds
<1>20. QED
    BY <1>6, <1>7, <1>8, <1>9, <1>10, <1>11, <1>12, <1>13, <1>14, <1>15, <1>16, <1>17, <1>18, <1>19,
       NextCases

\* A step keeps the restart notice's states to the restart notice.
LEMMA KindStep ==
  ASSUME TypeOK, KindInv, Next
  PROVE  KindInv'
<1> USE DEF NoticePC
<1>1. ASSUME NEW m \in Msg, NEW l \in LivePC, live' = [live EXCEPT ![m] = l], kind' = kind,
             l \in NoticePC => kind[m] = "notice"
      PROVE  KindInv'
    BY <1>1 DEF TypeOK, KindInv
<1>2. ASSUME UNCHANGED <<live, kind>> PROVE KindInv'
    BY <1>2 DEF KindInv
<1>3. ASSUME NEW m \in Msg, Enqueue(m) \/ DirectSend(m) \/ LiveClaim(m) \/ LivePrepares(m) PROVE KindInv'
    BY <1>1, <1>3 DEF Enqueue, DirectSend, LiveClaim, LivePrepares, GoLive, LivePC
<1>4. ASSUME NEW m \in Msg, LiveMarks(m) \/ LiveMarkWrites(m) \/ LiveSends(m) PROVE KindInv'
    BY <1>1, <1>4 DEF LiveMarks, LiveMarkWrites, LiveSends, Unmarked, GoLive, LivePC
<1>5. ASSUME NEW m \in Msg, LiveOutcome(m) \/ LiveOutcomeWrites(m) PROVE KindInv'
    BY <1>1, <1>5 DEF LiveOutcome, LiveOutcomeWrites, OutcomeUnmarked, GoLive, DoneLive, LivePC
<1>6. ASSUME NEW m \in Msg, LiveAcks(m) \/ LiveFails(m) \/ LiveFailWrites(m) PROVE KindInv'
    BY <1>1, <1>6 DEF LiveAcks, LiveFails, LiveFailWrites, GoLive, DoneLive, LivePC
<1>7. ASSUME NEW m \in Msg,
             NoticeSends(m) \/ NoticeAcks(m) \/ NoticeFails(m) \/ NoticeFailWrites(m)
      PROVE  KindInv'
    <2>1. kind[m] = "notice"
        BY <1>7 DEF KindInv, NoticeSends, NoticeAcks, NoticeFails, NoticeFailWrites
    <2>2. QED
        BY <1>1, <1>2, <1>7, <2>1 DEF NoticeSends, NoticeAcks, NoticeFails, NoticeFailWrites, LivePC
<1>8. ASSUME NEW m \in Msg, DeferReads(m) \/ DeferWrites(m) PROVE KindInv'
    BY <1>2, <1>8 DEF DeferReads, DeferWrites
<1>9. ASSUME NEW p \in Pass,
              \/ Drain(p) \/ Visit(p) \/ PassEnds(p) \/ Check(p) \/ Reconcile(p) \/ Deliver(p)
              \/ Ack(p) \/ Fail(p) \/ FailWrites(p) \/ Move(p)
      PROVE  KindInv'
    BY <1>2, <1>9 DEF Drain, Visit, PassEnds, Check, Reconcile, Deliver, Ack, Fail, FailWrites, Move
<1>10. CASE StartupScan \/ Defer \/ DeferEnds
    BY <1>2, <1>10 DEF StartupScan, Defer, DeferEnds
<1>11. CASE Crash
    BY <1>11 DEF Crash, KindInv
<1>12. QED
    BY <1>3, <1>4, <1>5, <1>6, <1>7, <1>8, <1>9, <1>10, <1>11, NextCases

\* A step keeps the drafts to those who are about to write.
LEMMA DraftStep ==
  ASSUME TypeOK, ClaimInv, DraftInv, Next
  PROVE  DraftInv'
<1> USE Writers
<1>1. ASSUME NEW m \in Msg, NEW l \in LivePC, live' = [live EXCEPT ![m] = l],
             UNCHANGED <<at, cur>>,
             \/ draft' = draft /\ live[m] \notin LiveWriting /\ l \notin LiveWriting
             \/ \E e \in Entry \cup {None} :
                  SetDraft("live", m, e) /\ (e # None <=> l \in LiveWriting)
      PROVE  DraftInv'
    <2>1. /\ live \in [Msg -> LivePC] /\ live'[m] = l
          /\ \A u \in Msg : u # m => live'[u] = live[u]
        BY <1>1 DEF TypeOK
    <2>2. CASE draft' = draft /\ live[m] \notin LiveWriting /\ l \notin LiveWriting
        BY <1>1, <2>1, <2>2 DEF DraftInv
    <2>3. CASE \E e \in Entry \cup {None} :
                 SetDraft("live", m, e) /\ (e # None <=> l \in LiveWriting)
        <3>1. \A u \in Msg : draft'["live"][u] # None <=> live'[u] \in LiveWriting
            BY <2>1, <2>3 DEF DraftInv, SetDraft
        <3>2. \A p \in Pass, u \in Msg : draft'[p][u] = draft[p][u]
            BY <2>3 DEF SetDraft
        <3>3. QED
            BY <1>1, <3>1, <3>2 DEF DraftInv
    <2>4. QED
        BY <1>1, <2>2, <2>3
<1>2. ASSUME NEW p \in Pass, NEW a \in PassPC, at' = [at EXCEPT ![p] = a], at[p] # "failing",
             a # "failing", draft' = draft, live' = live,
             cur' = cur \/ \E c \in Msg \cup {0} : cur' = [cur EXCEPT ![p] = c]
      PROVE  DraftInv'
    BY <1>2 DEF TypeOK, DraftInv
<1>3. ASSUME NEW p \in Pass, NEW a \in PassPC, at' = [at EXCEPT ![p] = a],
             UNCHANGED <<live, cur>>, cur[p] \in Msg,
             \/ at[p] # "failing" /\ a = "failing"
             \/ at[p] = "failing" /\ a # "failing",
             \E e \in Entry \cup {None} :
                  SetDraft(p, cur[p], e) /\ (e # None <=> a = "failing")
      PROVE  DraftInv'
    <2>1. at'[p] = a /\ \A q \in Pass : q # p => at'[q] = at[q]
        BY <1>3 DEF TypeOK
    <2>2. \A u \in Msg : draft'["live"][u] = draft["live"][u]
        BY <1>3 DEF SetDraft
    <2>3. \A q \in Pass, u \in Msg : q # p \/ u # cur[p] => draft'[q][u] = draft[q][u]
        BY <1>3 DEF SetDraft
    <2>4. draft'[p][cur[p]] # None <=> a = "failing"
        BY <1>3 DEF SetDraft
    <2>5. QED
        BY <1>3, <2>1, <2>2, <2>3, <2>4 DEF DraftInv
<1>4. ASSUME UNCHANGED <<live, at, cur>>,
             \/ draft' = draft
             \/ \E m \in Msg, e \in Entry \cup {None} : SetDraft("defer", m, e)
      PROVE  DraftInv'
    BY <1>4 DEF DraftInv, SetDraft
<1>5. ASSUME NEW m \in Msg, NEW l \in LivePC, Forget("live", m) \/ WriteBack("live", m),
             live' = [live EXCEPT ![m] = l], l \notin LiveWriting, UNCHANGED <<at, cur>>
      PROVE  DraftInv'
    BY <1>1, <1>5, Storage
<1>6. ASSUME NEW m \in Msg, NEW l \in LivePC, file[m] # None,
             \/ Read("live", m, failDelivery(file[m]))
             \/ Read("live", m, markDelivery(file[m])),
             live' = [live EXCEPT ![m] = l], l \in LiveWriting, UNCHANGED <<at, cur>>
      PROVE  DraftInv'
    <2>1. \E e \in Entry \cup {None} : SetDraft("live", m, e) /\ e # None
        BY <1>6, Updates DEF SetDraft
    <2>2. QED
        BY <1>1, <1>6, <2>1
<1>7. ASSUME NEW m \in Msg,
             \/ Enqueue(m) \/ DirectSend(m) \/ LiveClaim(m) \/ LivePrepares(m) \/ LiveSends(m)
             \/ LiveAcks(m)
      PROVE  DraftInv'
    BY <1>1, <1>7 DEF Enqueue, DirectSend, LiveClaim, LivePrepares, LiveSends, LiveAcks, GoLive,
         DoneLive, passVars, LivePC, LiveWriting
<1>8. ASSUME NEW m \in Msg, LiveMarks(m) \/ LiveMarkWrites(m) PROVE DraftInv'
    BY <1>1, <1>5, <1>6, <1>8 DEF LiveMarks, LiveMarkWrites, Unmarked, GoLive, passVars, LivePC,
         LiveWriting
<1>9. ASSUME NEW m \in Msg, LiveOutcome(m) \/ LiveOutcomeWrites(m) PROVE DraftInv'
    BY <1>1, <1>5, <1>6, <1>9 DEF LiveOutcome, LiveOutcomeWrites, OutcomeUnmarked, GoLive,
         DoneLive, passVars, LivePC, LiveWriting
<1>10. ASSUME NEW m \in Msg, LiveFails(m) \/ LiveFailWrites(m) PROVE DraftInv'
    BY <1>1, <1>5, <1>6, <1>10 DEF LiveFails, LiveFailWrites, GoLive, DoneLive, passVars, LivePC,
         LiveWriting
<1>11. ASSUME NEW m \in Msg, NoticeSends(m) \/ NoticeAcks(m) PROVE DraftInv'
    BY <1>1, <1>4, <1>11 DEF NoticeSends, NoticeAcks, passVars, LivePC, LiveWriting
<1>12. ASSUME NEW m \in Msg, NoticeFails(m) \/ NoticeFailWrites(m) PROVE DraftInv'
    BY <1>1, <1>5, <1>6, <1>12 DEF NoticeFails, NoticeFailWrites, passVars, LivePC, LiveWriting
<1>13. ASSUME NEW m \in Msg, DeferReads(m) PROVE DraftInv'
    <2>1. CASE file[m] = None
        BY <1>4, <1>13, <2>1 DEF DeferReads
    <2>2. CASE file[m] # None
        <3>1. \E e \in Entry \cup {None} : SetDraft("defer", m, e)
            BY <1>13, <2>2, Updates DEF DeferReads, SetDraft
        <3>2. QED
            BY <1>4, <1>13, <3>1 DEF DeferReads
    <2>3. QED
        BY <2>1, <2>2
<1>14. ASSUME NEW m \in Msg, DeferWrites(m) PROVE DraftInv'
    BY <1>4, <1>14, Storage DEF DeferWrites, passVars
<1>15. ASSUME NEW p \in Pass,
              Drain(p) \/ PassEnds(p) \/ Check(p) \/ Reconcile(p) \/ Deliver(p) \/ Ack(p) \/ Move(p)
       PROVE  DraftInv'
    BY <1>2, <1>15 DEF Drain, PassEnds, Check, Reconcile, Deliver, Ack, Move, Goto, ReleaseAndNext,
         PassPC
<1>16. ASSUME NEW p \in Pass, Visit(p) PROVE DraftInv'
    <2>1. Min(todo[p]) \in Msg
        BY <1>16, MinOfMsgs DEF TypeOK, Visit
    <2>2. QED
        BY <1>2, <1>4, <1>16, <2>1 DEF Visit, PassPC
<1>17. ASSUME NEW p \in Pass, Fail(p) PROVE DraftInv'
    <2>1. cur[p] \in Msg
        BY <1>17, HeldIsMsg DEF Fail, PassHolding
    <2>2. CASE file[cur[p]] # None /\ Read(p, cur[p], failDelivery(file[cur[p]])) /\ Goto(p, "failing")
        <3>1. \E e \in Entry \cup {None} : SetDraft(p, cur[p], e) /\ e # None
            BY <2>1, <2>2, Updates DEF SetDraft
        <3>2. QED
            BY <1>3, <1>17, <2>1, <2>2, <3>1 DEF Fail, Goto, PassPC
    <2>3. CASE ReleaseAndNext(p) /\ draft' = draft
        BY <1>2, <1>17, <2>3 DEF Fail, ReleaseAndNext, PassPC
    <2>4. QED
        BY <1>17, <2>2, <2>3 DEF Fail
<1>18. ASSUME NEW p \in Pass, FailWrites(p) PROVE DraftInv'
    <2>1. cur[p] \in Msg
        BY <1>18, HeldIsMsg DEF FailWrites, PassHolding
    <2>2. SetDraft(p, cur[p], None)
        BY <1>18, <2>1, Storage DEF FailWrites
    <2>3. QED
        BY <1>3, <1>18, <2>1, <2>2 DEF FailWrites, ReleaseAndNext, PassPC
<1>19. CASE StartupScan \/ Defer \/ DeferEnds
    BY <1>2, <1>19 DEF StartupScan, Defer, DeferEnds, PassPC
<1>20. CASE Crash
    BY <1>20 DEF Crash, DraftInv, LiveWriting
<1>21. QED
    BY <1>7, <1>8, <1>9, <1>10, <1>11, <1>12, <1>13, <1>14, <1>15, <1>16, <1>17, <1>18, <1>19, <1>20,
       NextCases
-----------------------------------------------------------------------------
(* Nothing is lost *)

\* A message keeps its kind.
LEMMA KindFixed ==
  ASSUME Next
  PROVE  kind' = kind
<1>1. ASSUME NEW m \in Msg,
             \/ Enqueue(m) \/ DirectSend(m) \/ LiveClaim(m) \/ LivePrepares(m)
             \/ LiveMarks(m) \/ LiveMarkWrites(m) \/ LiveSends(m) \/ LiveOutcome(m)
             \/ LiveOutcomeWrites(m) \/ LiveAcks(m) \/ LiveFails(m) \/ LiveFailWrites(m)
      PROVE  kind' = kind
    BY <1>1 DEF Enqueue, DirectSend, LiveClaim, LivePrepares, LiveMarks, LiveMarkWrites, LiveSends,
         LiveOutcome, LiveOutcomeWrites, LiveAcks, LiveFails, LiveFailWrites
<1>2. ASSUME NEW m \in Msg,
             \/ NoticeSends(m) \/ NoticeAcks(m) \/ NoticeFails(m) \/ NoticeFailWrites(m)
             \/ DeferReads(m) \/ DeferWrites(m)
      PROVE  kind' = kind
    BY <1>2 DEF NoticeSends, NoticeAcks, NoticeFails, NoticeFailWrites, DeferReads, DeferWrites
<1>3. ASSUME NEW p \in Pass,
              \/ Drain(p) \/ Visit(p) \/ PassEnds(p) \/ Check(p) \/ Reconcile(p) \/ Deliver(p)
              \/ Ack(p) \/ Fail(p) \/ FailWrites(p) \/ Move(p)
      PROVE  kind' = kind
    BY <1>3 DEF Drain, Visit, PassEnds, Check, Reconcile, Deliver, Ack, Fail, FailWrites, Move
<1>4. CASE StartupScan \/ Defer \/ DeferEnds \/ Crash
    BY <1>4 DEF StartupScan, Defer, DeferEnds, Crash
<1>5. QED
    BY <1>1, <1>2, <1>3, <1>4, NextCases

\* A settled message stays settled.
LEMMA SettledStays ==
  ASSUME TypeOK, ClaimInv, Next, NEW u \in Msg, Settled(u)
  PROVE  Settled(u)'
<1>1. log[u].sent \in 0..2 /\ log'[u].sent \in 0..2
    BY LogStep DEF TypeOK, LogGrows, Log
<1>2. QED
    BY <1>1, LogStep DEF LogGrows, Settled

\* The platform's acceptance and a withdrawal settle the message.
LEMMA NowSettled ==
  ASSUME TypeOK, NEW m \in Msg, Accept(m) \/ Withdraw(m)
  PROVE  Settled(m)'
<1>1. log[m].sent \in 0..2
    BY DEF TypeOK, Log
<1>2. CASE Accept(m)
    BY <1>1, <1>2, AcceptLogs DEF Settled
<1>3. CASE Withdraw(m)
    BY <1>3, WithdrawLogs DEF Settled, Withdraw
<1>4. QED
    BY <1>2, <1>3

\* A step that acknowledges has settled the message.
LEMMA AckStep ==
  ASSUME TypeOK, ClaimInv, AckInv, Next
  PROVE  AckInv'
<1> DEFINE AckPC == {"ack", "noticed", "unknown", "unknowing"}
           Excused(u) == kind[u] = "best_effort"
<1>1. \A u \in Msg : Settled(u) => Settled(u)'
    BY SettledStays
<1>2. kind' = kind
    BY KindFixed
<1>3. ASSUME NEW m \in Msg, NEW l \in LivePC, live' = [live EXCEPT ![m] = l],
             UNCHANGED <<at, cur>>, l \in AckPC => live[m] \in AckPC \/ Settled(m)'
      PROVE  AckInv'
    <2>1. \A u \in Msg : live'[u] \in AckPC => Settled(u)'
        BY <1>1, <1>3 DEF TypeOK, AckInv
    <2>2. \A p \in Pass : at[p] = "ack" => Settled(cur[p])' \/ Excused(cur[p])
        <3>1. \A p \in Pass : at[p] = "ack" => cur[p] \in Msg
            BY HeldIsMsg DEF PassHolding
        <3>2. QED
            BY <1>1, <1>3, <3>1 DEF AckInv, Settled
    <2>3. QED
        BY <1>2, <1>3, <2>1, <2>2 DEF AckInv, Settled
<1>4. ASSUME NEW p \in Pass, NEW a \in PassPC, at' = [at EXCEPT ![p] = a], live' = live,
             \/ cur' = cur /\ (a = "ack" => log'[cur[p]].sent > 0 \/ log'[cur[p]].withdrawn \/ Excused(cur[p]))
             \/ a # "ack" /\ \E c \in Msg \cup {0} : cur' = [cur EXCEPT ![p] = c]
      PROVE  AckInv'
    <2>1. \A u \in Msg : live'[u] \in AckPC => Settled(u)'
        BY <1>1, <1>4 DEF AckInv
    <2>2. ASSUME NEW q \in Pass, at'[q] = "ack"
          PROVE  Settled(cur[q])' \/ Excused(cur'[q])
        <3>1. cur'[q] = cur[q]
            BY <1>4, <2>2 DEF TypeOK
        <3>2. CASE q = p
            BY <1>4, <2>2, <3>1, <3>2 DEF TypeOK, Settled
        <3>3. CASE q # p
            <4>1. at[q] = "ack" /\ cur[q] \in Msg
                BY <1>4, <2>2, <3>3, HeldIsMsg DEF TypeOK, PassHolding
            <4>2. QED
                BY <1>1, <3>1, <4>1 DEF AckInv, Settled
        <3>4. QED
            BY <3>2, <3>3
    <2>3. QED
        BY <1>2, <2>1, <2>2 DEF AckInv
<1>5. ASSUME UNCHANGED <<live, at, cur>> PROVE AckInv'
    <2>1. \A p \in Pass : at[p] = "ack" => cur[p] \in Msg
        BY HeldIsMsg DEF PassHolding
    <2>2. QED
        BY <1>1, <1>2, <1>5, <2>1 DEF AckInv, Settled
<1>6. ASSUME NEW m \in Msg, Enqueue(m) \/ DirectSend(m) \/ LiveClaim(m) PROVE AckInv'
    BY <1>3, <1>6 DEF Enqueue, DirectSend, LiveClaim, GoLive, passVars, LivePC
<1>7. ASSUME NEW m \in Msg, LivePrepares(m) \/ LiveSends(m) PROVE AckInv'
    <2>1. \/ Settled(m)'
          \/ \E l \in {"mark", "fail"} : live' = [live EXCEPT ![m] = l]
        BY <1>7, NowSettled DEF LivePrepares, LiveSends, GoLive
    <2>2. \E l \in LivePC : live' = [live EXCEPT ![m] = l]
        BY <1>7 DEF LivePrepares, LiveSends, GoLive, LivePC
    <2>3. UNCHANGED <<at, cur>>
        BY <1>7 DEF LivePrepares, LiveSends, passVars
    <2>4. QED
        BY <1>3, <2>1, <2>2, <2>3 DEF LivePC
<1>8. ASSUME NEW m \in Msg, LiveMarks(m) \/ LiveMarkWrites(m) PROVE AckInv'
    BY <1>3, <1>8 DEF LiveMarks, LiveMarkWrites, Unmarked, GoLive, passVars, LivePC
<1>9. ASSUME NEW m \in Msg, LiveOutcome(m) \/ LiveOutcomeWrites(m) PROVE AckInv'
    BY <1>3, <1>9 DEF LiveOutcome, LiveOutcomeWrites, OutcomeUnmarked, GoLive, DoneLive, passVars, LivePC
<1>10. ASSUME NEW m \in Msg, LiveAcks(m) \/ LiveFails(m) \/ LiveFailWrites(m) PROVE AckInv'
    BY <1>3, <1>10 DEF LiveAcks, LiveFails, LiveFailWrites, GoLive, DoneLive, passVars, LivePC
<1>11. ASSUME NEW m \in Msg, NoticeSends(m) PROVE AckInv'
    <2>1. Accept(m) => Settled(m)'
        BY NowSettled
    <2>2. QED
        BY <1>3, <1>5, <1>11, <2>1 DEF NoticeSends, passVars, LivePC
<1>12. ASSUME NEW m \in Msg, NoticeAcks(m) \/ NoticeFails(m) \/ NoticeFailWrites(m) PROVE AckInv'
    BY <1>3, <1>12 DEF NoticeAcks, NoticeFails, NoticeFailWrites, passVars, LivePC
<1>13. ASSUME NEW m \in Msg, DeferReads(m) \/ DeferWrites(m) PROVE AckInv'
    BY <1>5, <1>13 DEF DeferReads, DeferWrites, passVars
<1>14. ASSUME NEW p \in Pass, Drain(p) \/ PassEnds(p) \/ Check(p) PROVE AckInv'
    BY <1>4, <1>14 DEF Drain, PassEnds, Check, Goto, ReleaseAndNext, PassPC
<1>15. ASSUME NEW p \in Pass, Visit(p) PROVE AckInv'
    <2>1. Min(todo[p]) \in Msg
        BY <1>15, MinOfMsgs DEF TypeOK, Visit
    <2>2. QED
        BY <1>4, <1>5, <1>15, <2>1 DEF Visit, PassPC
<1>16. ASSUME NEW p \in Pass, Reconcile(p) PROVE AckInv'
    BY <1>4, <1>16 DEF Reconcile, Goto, PassPC
<1>17. ASSUME NEW p \in Pass, Deliver(p) PROVE AckInv'
    <2>1. cur[p] \in Msg
        BY <1>17, HeldIsMsg DEF Deliver, PassHolding
    <2>2. Accept(cur[p]) \/ Withdraw(cur[p]) => log'[cur[p]].sent > 0 \/ log'[cur[p]].withdrawn
        <3>1. ASSUME NEW m \in Msg, Accept(m) \/ Withdraw(m) PROVE log'[m].sent > 0 \/ log'[m].withdrawn
            BY <3>1, NowSettled DEF Settled
        <3>2. QED
            BY <2>1, <3>1
    <2>3. QED
        BY <1>4, <1>17, <2>2 DEF Deliver, Goto, PassPC
<1>18. ASSUME NEW p \in Pass, Ack(p) \/ Fail(p) \/ FailWrites(p) \/ Move(p) PROVE AckInv'
    BY <1>4, <1>18 DEF Ack, Fail, FailWrites, Move, Goto, ReleaseAndNext, PassPC
<1>19. CASE StartupScan \/ Defer \/ DeferEnds
    BY <1>4, <1>19, Writers DEF StartupScan, Defer, DeferEnds, PassPC
<1>20. CASE Crash
    BY <1>20 DEF Crash, AckInv
<1>21. QED
    BY <1>6, <1>7, <1>8, <1>9, <1>10, <1>11, <1>12, <1>13, <1>14, <1>15, <1>16, <1>17, <1>18, <1>19,
       <1>20, NextCases

\* A step loses no message: an entry is removed only once it is settled, its
\* errors are swallowed or it is moved to failed/, and no draft is empty.
LEMMA LostStep ==
  ASSUME TypeOK, ClaimInv, DraftInv, AckInv, NothingLost, Next
  PROVE  NothingLost'
<1> DEFINE Excused(u) == kind[u] = "best_effort"
<1>1. \A u \in Msg : Settled(u) => Settled(u)'
    BY SettledStays
<1>2. kind' = kind
    BY KindFixed
<1>3. \A u \in Msg : log'[u].accepted => log[u].accepted \/ file'[u] # None
    BY LogStep DEF LogGrows
<1>4. ASSUME failed \subseteq failed',
             \A u \in Msg : file[u] # None /\ file'[u] = None => Settled(u) \/ u \in failed' \/ Excused(u)
      PROVE  NothingLost'
    BY <1>1, <1>2, <1>3, <1>4 DEF NothingLost, AccountedFor, Settled
<1>5. ASSUME NEW w \in Writer, NEW m \in Msg, draft[w][m] # None, WriteBack(w, m), failed' = failed
      PROVE  NothingLost'
    BY <1>4, <1>5, Storage DEF SetFile
<1>6. ASSUME NEW m \in Msg, Remove(m), failed \subseteq failed', Settled(m) \/ m \in failed' \/ Excused(m)
      PROVE  NothingLost'
    <2>1. SetFile(m, None)
        BY <1>6, Writers, Storage
    <2>2. QED
        BY <1>4, <1>6, <2>1 DEF SetFile
<1>7. ASSUME UNCHANGED <<file, failed>> PROVE NothingLost'
    BY <1>4, <1>7
<1>8. ASSUME NEW m \in Msg, Enqueue(m) PROVE NothingLost'
    BY <1>4, <1>7, <1>8, FreshEntry DEF Enqueue, TypeOK
<1>9. ASSUME NEW m \in Msg,
             DirectSend(m) \/ LiveClaim(m) \/ LivePrepares(m) \/ LiveMarks(m) \/ LiveSends(m)
             \/ LiveOutcome(m) \/ LiveFails(m) \/ NoticeSends(m) \/ NoticeFails(m)
      PROVE  NothingLost'
    BY <1>7, <1>9 DEF DirectSend, LiveClaim, LivePrepares, LiveMarks, LiveSends, LiveOutcome,
         LiveFails, NoticeSends, NoticeFails, Read
<1>10. ASSUME NEW m \in Msg,
              LiveMarkWrites(m) \/ LiveOutcomeWrites(m) \/ LiveFailWrites(m) \/ NoticeFailWrites(m)
       PROVE  NothingLost'
    <2>1. draft["live"][m] # None
        BY <1>10 DEF DraftInv, LiveWriting, LiveMarkWrites, LiveOutcomeWrites, LiveFailWrites,
             NoticeFailWrites
    <2>2. failed' = failed /\ (WriteBack("live", m) \/ Forget("live", m))
        BY <1>10 DEF LiveMarkWrites, LiveOutcomeWrites, LiveFailWrites, NoticeFailWrites
    <2>3. QED
        BY <1>5, <1>7, <2>1, <2>2, Writers DEF Forget
<1>11. ASSUME NEW m \in Msg, LiveAcks(m) \/ NoticeAcks(m) PROVE NothingLost'
    <2>1. Settled(m)
        BY <1>11 DEF AckInv, LiveAcks, NoticeAcks
    <2>2. QED
        BY <1>6, <1>7, <1>11, <2>1 DEF LiveAcks, NoticeAcks
<1>12. ASSUME NEW m \in Msg, DeferReads(m) PROVE NothingLost'
    BY <1>7, <1>12 DEF DeferReads, Read
<1>13. ASSUME NEW m \in Msg, DeferWrites(m) PROVE NothingLost'
    BY <1>5, <1>13, Writers DEF DeferWrites
<1>14. ASSUME NEW p \in Pass, Drain(p) \/ Visit(p) \/ PassEnds(p) \/ Check(p) \/ Reconcile(p) \/ Deliver(p)
       PROVE  NothingLost'
    BY <1>7, <1>14 DEF Drain, Visit, PassEnds, Check, Reconcile, Deliver
<1>15. ASSUME NEW p \in Pass, Ack(p) PROVE NothingLost'
    <2>1. cur[p] \in Msg
        BY <1>15, HeldIsMsg DEF Ack, PassHolding
    <2>2. Settled(cur[p]) \/ Excused(cur[p])
        BY <1>15 DEF AckInv, Ack
    <2>3. QED
        BY <1>6, <1>7, <1>15, <2>1, <2>2 DEF Ack
<1>16. ASSUME NEW p \in Pass, Fail(p) PROVE NothingLost'
    BY <1>7, <1>16 DEF Fail, Read
<1>17. ASSUME NEW p \in Pass, FailWrites(p) PROVE NothingLost'
    <2>1. cur[p] \in Msg /\ p \in Writer
        BY <1>17, HeldIsMsg, Writers DEF FailWrites, PassHolding
    <2>2. draft[p][cur[p]] # None
        BY <1>17, <2>1 DEF DraftInv, FailWrites
    <2>3. QED
        BY <1>5, <1>7, <1>17, <2>1, <2>2 DEF FailWrites, Forget
<1>18. ASSUME NEW p \in Pass, Move(p) PROVE NothingLost'
    <2>1. cur[p] \in Msg
        BY <1>18, HeldIsMsg DEF Move, PassHolding
    <2>2. QED
        BY <1>6, <1>7, <1>18, <2>1 DEF Move
<1>19. CASE StartupScan \/ Defer \/ DeferEnds \/ Crash
    BY <1>7, <1>19 DEF StartupScan, Defer, DeferEnds, Crash
<1>20. QED
    BY <1>8, <1>9, <1>10, <1>11, <1>12, <1>13, <1>14, <1>15, <1>16, <1>17, <1>18, <1>19, NextCases
-----------------------------------------------------------------------------
(* A step works on one message *)

\* A step leaves message u as it was.
Same(u) ==
  /\ live'[u] = live[u] /\ file'[u] = file[u] /\ log'[u] = log[u] /\ kind'[u] = kind[u]
  /\ \A w \in Writer : draft'[w][u] = draft[w][u]
  /\ \A q \in Pass : /\ Holds(q, u)' <=> Holds(q, u)
                     /\ Holds(q, u) => at'[q] = at[q]
                     /\ u \in todo'[q] => u \in todo[q] \/ file[u] # None
  /\ faults \in Nat /\ faults' \in Nat /\ faults <= faults'

\* What holds of a message goes on to hold while nobody works on it.
LEMMA SameKeeps ==
  ASSUME NEW u \in Msg, MessageInv(u), Same(u)
  PROVE  MessageInv(u)'
<1>1. Unqueued(u)'
    BY DEF MessageInv, Same, Unqueued, Unmet
<1>2. MarksLate(u)'
    BY DEF MessageInv, Same, MarksLate
<1>3. KeepsMark(u)'
    BY DEF MessageInv, Same, KeepsMark, Protected
<1>4. NotesOvertaking(u)'
    BY DEF MessageInv, Same, NotesOvertaking
<1>5. SoonRemoved(u)'
    BY DEF MessageInv, Same, SoonRemoved, Orderly
<1>6. QED
    BY <1>1, <1>2, <1>3, <1>4, <1>5 DEF MessageInv

\* The storage operations and the history of one message.
LEMMA OneMessage ==
  ASSUME TypeOK, NEW m \in Msg, NEW w \in Writer
  PROVE  /\ \/ file[m] # None /\ Read(w, m, failDelivery(file[m]))
            \/ file[m] # None /\ Read(w, m, markDelivery(file[m]))
            \/ WriteBack(w, m) \/ Forget(w, m)
            \/ Remove(m) /\ draft' = draft
            \/ UNCHANGED <<file, draft>>
            => \A u \in Msg : u # m =>
                 file'[u] = file[u] /\ \A v \in Writer : draft'[v][u] = draft[v][u]
         /\ Accept(m) \/ Withdraw(m) \/ UNCHANGED log => \A u \in Msg : u # m => log'[u] = log[u]
<1>1. Remove(m) => SetFile(m, None)
    BY Storage
<1>2. Accept(m) \/ Withdraw(m) \/ UNCHANGED log => \A u \in Msg : u # m => log'[u] = log[u]
    BY AcceptLogs, WithdrawLogs DEF Withdraw
<1>3. QED
    BY <1>1, <1>2, Storage, Updates DEF SetFile, SetDraft

\* A sender's step works on its own message.
LEMMA SenderFrame ==
  ASSUME TypeOK, NEW m \in Msg, NEW u \in Msg, u # m,
         \/ Enqueue(m) \/ DirectSend(m) \/ LiveClaim(m) \/ LivePrepares(m)
         \/ LiveMarks(m) \/ LiveMarkWrites(m) \/ LiveSends(m) \/ LiveOutcome(m)
         \/ LiveOutcomeWrites(m) \/ LiveAcks(m) \/ LiveFails(m) \/ LiveFailWrites(m)
         \/ NoticeSends(m) \/ NoticeAcks(m) \/ NoticeFails(m) \/ NoticeFailWrites(m)
  PROVE  Same(u)
<1> USE Writers
<1>1. ASSUME live'[u] = live[u], file'[u] = file[u], log'[u] = log[u], kind' = kind,
             \A v \in Writer : draft'[v][u] = draft[v][u], UNCHANGED <<at, cur, todo>>,
             faults' = faults \/ Fault
      PROVE  Same(u)
    BY <1>1 DEF TypeOK, Same, Holds, Fault
<1>2. CASE Enqueue(m)
    <2>1. file'[u] = file[u] /\ log'[u] = log[u]
        BY <1>2, AcceptedLogs DEF Enqueue, TypeOK
    <2>2. QED
        BY <1>1, <1>2, <2>1 DEF Enqueue, GoLive, passVars, TypeOK
<1>3. CASE DirectSend(m) \/ LivePrepares(m) \/ LiveSends(m)
    BY <1>1, <1>3, OneMessage DEF DirectSend, LivePrepares, LiveSends, GoLive, passVars, TypeOK
<1>4. CASE LiveClaim(m) \/ LiveMarks(m) \/ LiveMarkWrites(m)
    BY <1>1, <1>4, OneMessage DEF LiveClaim, LiveMarks, LiveMarkWrites, GoLive, Unmarked, passVars, TypeOK
<1>5. CASE LiveOutcome(m) \/ LiveOutcomeWrites(m)
    BY <1>1, <1>5, OneMessage DEF LiveOutcome, LiveOutcomeWrites, GoLive, DoneLive, OutcomeUnmarked,
         passVars, TypeOK
<1>6. CASE LiveAcks(m) \/ LiveFails(m) \/ LiveFailWrites(m)
    BY <1>1, <1>6, OneMessage DEF LiveAcks, LiveFails, LiveFailWrites, GoLive, DoneLive, passVars, TypeOK
<1>7. CASE NoticeSends(m) \/ NoticeAcks(m) \/ NoticeFails(m) \/ NoticeFailWrites(m)
    BY <1>1, <1>7, OneMessage DEF NoticeSends, NoticeAcks, NoticeFails, NoticeFailWrites, passVars, TypeOK
<1>8. QED
    BY <1>2, <1>3, <1>4, <1>5, <1>6, <1>7

\* The deferred updates work on one message each.
LEMMA DeferFrame ==
  ASSUME TypeOK, NEW m \in Msg, NEW u \in Msg, u # m, DeferReads(m) \/ DeferWrites(m)
  PROVE  Same(u)
<1> USE Writers
<1>1. UNCHANGED <<live, at, cur, kind, faults>> /\ \A q \in Pass : todo'[q] \subseteq todo[q]
    BY DEF DeferReads, DeferWrites, passVars, TypeOK
<1>2. file'[u] = file[u] /\ \A v \in Writer : draft'[v][u] = draft[v][u]
    BY OneMessage DEF DeferReads, DeferWrites
<1>3. log'[u] = log[u]
    <2>1. CASE DeferReads(m)
        BY <2>1 DEF DeferReads
    <2>2. CASE DeferWrites(m)
        BY <2>2, ClobberedLogs DEF DeferWrites
    <2>3. QED
        BY <2>1, <2>2
<1>4. QED
    BY <1>1, <1>2, <1>3 DEF Same, Holds, TypeOK

\* A pass between two entries works on no message.
LEMMA IdleFrame ==
  ASSUME TypeOK, NEW u \in Msg,
         \/ \E p \in Pass : Drain(p) \/ PassEnds(p)
         \/ StartupScan \/ Defer \/ DeferEnds
  PROVE  Same(u)
<1> USE Writers
<1>1. ASSUME NEW p \in Pass, NEW a \in PassPC \ PassHolding, at' = [at EXCEPT ![p] = a],
             at[p] \notin PassHolding,
             cur' = cur \/ cur' = [cur EXCEPT ![p] = 0], todo' = todo \/ todo' = [todo EXCEPT ![p] = Pending],
             UNCHANGED <<live, file, log, kind, draft, faults>>
      PROVE  Same(u)
    <2>1. \A q \in Pass : q # p => at'[q] = at[q] /\ cur'[q] = cur[q] /\ todo'[q] = todo[q]
        BY <1>1 DEF TypeOK
    <2>2. at'[p] = a /\ ~Holds(p, u) /\ ~Holds(p, u)'
        BY <1>1 DEF TypeOK, Holds
    <2>3. u \in todo'[p] => u \in todo[p] \/ file[u] # None
        BY <1>1 DEF TypeOK, Pending
    <2>4. QED
        BY <1>1, <2>1, <2>2, <2>3 DEF Same, Holds, TypeOK
<1>2. QED
    BY <1>1 DEF Drain, PassEnds, StartupScan, Defer, DeferEnds, PassHolding, PassPC

\* A pass works on the entry it holds, or on the next one.
LEMMA PassFrame ==
  ASSUME TypeOK, ClaimInv, NEW p \in Pass, NEW u \in Msg,
         \/ Visit(p) /\ u # Min(todo[p])
         \/ /\ Check(p) \/ Reconcile(p) \/ Deliver(p) \/ Ack(p) \/ Fail(p) \/ FailWrites(p) \/ Move(p)
            /\ u # cur[p]
  PROVE  Same(u)
<1> USE Writers
<1>1. ASSUME NEW a \in PassPC, NEW c \in Msg, at' = [at EXCEPT ![p] = a],
             cur' = [cur EXCEPT ![p] = c], \A q \in Pass : todo'[q] \subseteq todo[q],
             a \in PassHolding => c # u, at[p] \in PassHolding => cur[p] # u,
             file'[u] = file[u], log'[u] = log[u], \A v \in Writer : draft'[v][u] = draft[v][u],
             UNCHANGED <<live, kind>>, faults' = faults \/ Fault
      PROVE  Same(u)
    <2>1. \A q \in Pass : q # p => at'[q] = at[q] /\ cur'[q] = cur[q]
        BY <1>1 DEF TypeOK
    <2>2. ~Holds(p, u) /\ ~Holds(p, u)'
        BY <1>1 DEF TypeOK, Holds
    <2>3. faults \in Nat /\ faults' \in Nat /\ faults <= faults'
        BY <1>1 DEF TypeOK, Fault
    <2>4. QED
        BY <1>1, <2>1, <2>2, <2>3 DEF Same, Holds
<1>2. CASE Visit(p) /\ u # Min(todo[p])
    <2> DEFINE m == Min(todo[p])
    <2>1. m \in Msg
        BY <1>2, MinOfMsgs DEF TypeOK, Visit
    <2> HIDE DEF m
    <2>2. CASE m \in claimed
        <3>1. /\ todo' = [todo EXCEPT ![p] = @ \ {m}]
              /\ UNCHANGED <<at, cur, log, kind, file, live, draft, faults>>
            BY <1>2, <2>2 DEF Visit, m
        <3>2. QED
            BY <3>1 DEF Same, Holds, TypeOK
    <2>3. CASE m \notin claimed
        <3>1. /\ cur' = [cur EXCEPT ![p] = m] /\ at' = [at EXCEPT ![p] = "check"]
              /\ log' = [log EXCEPT ![m].overtaken = @ \/ live[m] = "queued"]
              /\ UNCHANGED <<todo, kind, file, live, draft, faults>> /\ at[p] = "loop" /\ u # m
            BY <1>2, <2>3 DEF Visit, m
        <3>2. log'[u] = log[u]
            BY <2>1, <3>1, OvertakenLogs
        <3>3. QED
            BY <1>1, <2>1, <3>1, <3>2 DEF PassPC, PassHolding
    <2>4. QED
        BY <2>2, <2>3
<1>3. ASSUME u # cur[p],
             Check(p) \/ Reconcile(p) \/ Deliver(p) \/ Ack(p) \/ Fail(p) \/ FailWrites(p) \/ Move(p)
      PROVE  Same(u)
    <2>1. cur[p] \in Msg
        BY <1>3, HeldIsMsg DEF Check, Reconcile, Deliver, Ack, Fail, FailWrites, Move, PassHolding
    <2>2. cur' = [cur EXCEPT ![p] = cur[p]]
        BY <1>3 DEF Check, Reconcile, Deliver, Ack, Fail, FailWrites, Move, Goto, ReleaseAndNext, TypeOK
    <2>3. \A q \in Pass : todo'[q] \subseteq todo[q]
        <3>1. todo' = todo \/ \E S : todo' = [todo EXCEPT ![p] = @ \ S]
            <4>1. todo' = todo \/ todo' = [todo EXCEPT ![p] = @ \ {cur[p]}] \/ todo' = [todo EXCEPT ![p] = {}]
                BY <1>3 DEF Check, Reconcile, Deliver, Ack, Fail, FailWrites, Move, Goto, ReleaseAndNext
            <4>2. todo' = [todo EXCEPT ![p] = {}] => todo' = [todo EXCEPT ![p] = @ \ todo[p]]
                OBVIOUS
            <4>3. QED
                BY <4>1, <4>2
        <3>2. QED
            BY <3>1 DEF TypeOK
    <2>4. \E a \in PassPC : at' = [at EXCEPT ![p] = a]
        BY <1>3 DEF Check, Reconcile, Deliver, Ack, Fail, FailWrites, Move, Goto, ReleaseAndNext, PassPC
    <2>5. live' = live /\ kind' = kind /\ (faults' = faults \/ Fault)
        BY <1>3 DEF Check, Reconcile, Deliver, Ack, Fail, FailWrites, Move
    <2>6. log'[u] = log[u]
        BY <1>3, <2>1, OneMessage DEF Check, Reconcile, Deliver, Ack, Fail, FailWrites, Move
    <2>7. file'[u] = file[u] /\ \A v \in Writer : draft'[v][u] = draft[v][u]
        BY <1>3, <2>1, OneMessage DEF Check, Reconcile, Deliver, Ack, Fail, FailWrites, Move
    <2>8. QED
        BY <1>1, <1>3, <2>1, <2>2, <2>3, <2>4, <2>5, <2>6, <2>7
<1>4. QED
    BY <1>2, <1>3
-----------------------------------------------------------------------------
(* What a step does to the message it works on *)

\* A sender's step keeps what holds of its message.
LEMMA SenderKeeps ==
  ASSUME TypeOK, ClaimInv, DraftInv, KindInv, NEW m \in Msg, MessageInv(m),
         \/ Enqueue(m) \/ DirectSend(m) \/ LiveClaim(m) \/ LivePrepares(m)
         \/ LiveMarks(m) \/ LiveMarkWrites(m) \/ LiveSends(m) \/ LiveOutcome(m)
         \/ LiveOutcomeWrites(m) \/ LiveAcks(m) \/ LiveFails(m) \/ LiveFailWrites(m)
         \/ NoticeSends(m) \/ NoticeAcks(m) \/ NoticeFails(m) \/ NoticeFailWrites(m)
  PROVE  MessageInv(m)'
<1> USE Writers
<1> USE DEF MessageInv, Unqueued, Unmet, MarksLate, KeepsMark, Protected, NotesOvertaking,
            SoonRemoved, Orderly
<1>1. UNCHANGED <<at, cur, todo>> /\ \A p \in Pass : Holds(p, m)' <=> Holds(p, m)
    BY DEF Enqueue, DirectSend, LiveClaim, LivePrepares, LiveMarks, LiveMarkWrites, LiveSends,
         LiveOutcome, LiveOutcomeWrites, LiveAcks, LiveFails, LiveFailWrites, NoticeSends,
         NoticeAcks, NoticeFails, NoticeFailWrites, passVars, Holds
<1>2. kind' = kind /\ faults \in Nat /\ (faults' = faults \/ faults' = faults + 1)
    BY DEF Enqueue, DirectSend, LiveClaim, LivePrepares, LiveMarks, LiveMarkWrites, LiveSends,
         LiveOutcome, LiveOutcomeWrites, LiveAcks, LiveFails, LiveFailWrites, NoticeSends,
         NoticeAcks, NoticeFails, NoticeFailWrites, Fault, TypeOK
<1>3. ASSUME live[m] \in LiveHolding PROVE \A p \in Pass : ~Holds(p, m) /\ draft[p][m] = None
    BY <1>3 DEF ClaimInv, DraftInv, Holds, PassHolding
<1>4. log[m].sent \in 0..2 /\ live \in [Msg -> LivePC]
    BY DEF TypeOK, Log
<1>5. CASE Enqueue(m)
    <2>1. live[m] = "new" /\ Unmet(m) /\ log[m].sent = 0 /\ draft' = draft
        BY <1>5 DEF Enqueue
    <2>2. log'[m].sent = 0
        BY <1>5, <2>1, AcceptedLogs DEF Enqueue
    <2>3. CASE file' = [file EXCEPT ![m] = NewEntry] /\ live'[m] \in {"notice", "queued"}
        BY <1>1, <2>1, <2>2, <2>3, FreshEntry DEF TypeOK
    <2>4. CASE file' = file /\ live'[m] \in {"done", "direct"}
        BY <1>1, <2>1, <2>2, <2>4
    <2>5. QED
        BY <1>4, <1>5, <2>3, <2>4 DEF Enqueue, GoLive
<1>6. CASE DirectSend(m)
    <2>1. live[m] = "direct" /\ Unmet(m) /\ UNCHANGED <<file, draft>>
        BY <1>6 DEF DirectSend
    <2>2. live'[m] = "done" \/ (live'[m] = "direct" /\ kind[m] = "notice")
        BY <1>4, <1>6 DEF DirectSend, GoLive
    <2>3. CASE Accept(m)
        BY <1>1, <1>2, <1>4, <2>1, <2>2, <2>3, AcceptLogs
    <2>4. CASE UNCHANGED log
        BY <1>1, <1>2, <1>4, <2>1, <2>2, <2>4
    <2>5. QED
        BY <1>6, <2>3, <2>4 DEF DirectSend
<1>7. CASE LiveClaim(m)
    <2>1. live[m] = "queued" /\ live'[m] \in {"done", "hooks"} /\ UNCHANGED <<file, draft, log, faults>>
        BY <1>4, <1>7 DEF LiveClaim, GoLive
    <2>2. QED
        BY <1>1, <1>2, <1>4, <2>1
<1>8. CASE LivePrepares(m)
    <2>1. live[m] = "hooks" /\ live'[m] \in {"mark", "fail", "ack"} /\ UNCHANGED <<file, draft, faults>>
        BY <1>4, <1>8 DEF LivePrepares, GoLive
    <2>2. log'[m].sent = log[m].sent /\ (log'[m].exposed <=> log[m].exposed)
          /\ (log'[m].clobbered <=> log[m].clobbered) /\ (log'[m].overtaken <=> log[m].overtaken)
        BY <1>8, WithdrawLogs DEF LivePrepares, Withdraw
    <2>3. QED
        BY <1>1, <1>2, <1>4, <2>1, <2>2
<1>9. CASE LiveMarks(m)
    <2>1. live[m] = "mark" /\ live'[m] \in {"marking", "fail", "bare"} /\ UNCHANGED <<log, file>>
        BY <1>4, <1>9 DEF LiveMarks, GoLive, Unmarked, Read
    <2>2. QED
        BY <1>1, <1>2, <1>4, <2>1
<1>10. CASE LiveMarkWrites(m)
    <2>1. live[m] = "marking" /\ live'[m] \in {"send", "fail", "bare"} /\ UNCHANGED log
        BY <1>4, <1>10 DEF LiveMarkWrites, GoLive, Unmarked
    <2>2. QED
        BY <1>1, <1>2, <1>4, <2>1
<1>11. CASE LiveSends(m)
    <2>1. live[m] \in {"send", "bare"} /\ UNCHANGED <<file, draft>>
        BY <1>11 DEF LiveSends
    <2>2. live'[m] \in {"unknown", "ack", "fail"}
        BY <1>4, <1>11 DEF LiveSends, GoLive
    <2>3. \A w \in Writer : w # "defer" => draft[w][m] = None
        <3>1. draft["live"][m] = None
            BY <2>1 DEF DraftInv, LiveWriting
        <3>2. \A w \in Writer : w # "defer" => w = "live" \/ w \in Pass
            BY DEF Writer
        <3>3. QED
            BY <1>3, <2>1, <3>1, <3>2 DEF LiveHolding
    <2>4. \A p \in Pass : ~Holds(p, m)
        BY <1>3, <2>1 DEF LiveHolding
    <2>5. CASE Accept(m) /\ (faults' = faults => live'[m] \in {"unknown", "ack"})
        <3>1. ~Protected(m) /\ ~Orderly(m)
            BY <2>1
        <3>2. QED
            BY <1>1, <1>2, <1>4, <2>1, <2>2, <2>3, <2>4, <2>5, <3>1, AcceptLogs
    <2>6. CASE UNCHANGED <<log, faults>>
        BY <1>1, <1>2, <1>4, <2>1, <2>2, <2>6
    <2>7. CASE Withdraw(m) /\ faults' = faults
        <3>1. log'[m].sent = log[m].sent /\ (log'[m].exposed <=> log[m].exposed)
              /\ (log'[m].clobbered <=> log[m].clobbered) /\ (log'[m].overtaken <=> log[m].overtaken)
            BY <2>7, WithdrawLogs DEF Withdraw
        <3>2. QED
            BY <1>1, <1>2, <1>4, <2>1, <2>2, <2>7, <3>1
    <2>8. QED
        BY <1>2, <1>4, <1>11, <2>5, <2>6, <2>7 DEF LiveSends, GoLive, Fault
<1>12. CASE LiveOutcome(m)
    <2>1. live[m] = "unknown" /\ live'[m] \in {"unknowing", "ack", "done"} /\ UNCHANGED <<log, file>>
        BY <1>4, <1>12 DEF LiveOutcome, GoLive, DoneLive, OutcomeUnmarked, Read
    <2>2. live'[m] = "done" => file[m] = None \/ faults' = faults + 1
        BY <1>2, <1>4, <1>12 DEF LiveOutcome, GoLive, DoneLive, OutcomeUnmarked, Fault
    <2>3. \A w \in Writer : draft'[w][m] = draft[w][m] \/ draft'[w][m].marked
        BY <1>12, Updates DEF LiveOutcome, SetDraft
    <2>4. QED
        BY <1>1, <1>2, <1>4, <2>1, <2>2, <2>3
<1>13. CASE LiveOutcomeWrites(m)
    <2>1. live[m] = "unknowing" /\ live'[m] \in {"ack", "done"} /\ UNCHANGED log
        BY <1>4, <1>13 DEF LiveOutcomeWrites, GoLive, DoneLive, OutcomeUnmarked
    <2>2. live'[m] = "done" => faults' = faults + 1
        BY <1>2, <1>4, <1>13 DEF LiveOutcomeWrites, GoLive, DoneLive, OutcomeUnmarked, Fault
    <2>3. /\ \A w \in Writer : draft'[w][m] = draft[w][m] \/ draft'[w][m] = None
          /\ file'[m] = file[m] \/ file'[m] = draft["live"][m]
        BY <1>13, Storage DEF LiveOutcomeWrites, SetDraft, SetFile
    <2>4. QED
        BY <1>1, <1>2, <1>4, <2>1, <2>2, <2>3
<1>14. CASE LiveAcks(m)
    <2>1. live[m] = "ack" /\ live'[m] = "done" /\ UNCHANGED <<log, draft>>
        BY <1>4, <1>14 DEF LiveAcks, DoneLive
    <2>2. file'[m] = None \/ (file'[m] = file[m] /\ faults' = faults + 1)
        BY <1>14, Storage DEF LiveAcks, SetFile, Fault
    <2>3. QED
        BY <1>1, <1>2, <1>4, <2>1, <2>2
<1>15. CASE LiveFails(m)
    <2>1. live[m] = "fail" /\ live'[m] \in {"failing", "done"} /\ UNCHANGED <<log, file>>
        BY <1>4, <1>15 DEF LiveFails, GoLive, DoneLive, Read
    <2>2. \A w \in Writer : \/ draft'[w][m] = draft[w][m]
                            \/ file[m] # None /\ (draft'[w][m].marked <=> file[m].marked)
        BY <1>15, Updates DEF LiveFails, SetDraft
    <2>3. QED
        BY <1>1, <1>2, <1>4, <2>1, <2>2
<1>16. CASE LiveFailWrites(m)
    <2>1. live[m] = "failing" /\ live'[m] = "done" /\ UNCHANGED log
        BY <1>4, <1>16 DEF LiveFailWrites, DoneLive
    <2>2. /\ \A w \in Writer : draft'[w][m] = draft[w][m] \/ draft'[w][m] = None
          /\ file'[m] = file[m] \/ file'[m] = draft["live"][m]
        BY <1>16, Storage DEF LiveFailWrites, SetDraft, SetFile
    <2>3. QED
        BY <1>1, <1>2, <1>4, <2>1, <2>2
<1>17. CASE NoticeSends(m) \/ NoticeAcks(m) \/ NoticeFails(m) \/ NoticeFailWrites(m)
    <2>1. kind[m] = "notice"
        BY <1>17 DEF KindInv, NoticePC, NoticeSends, NoticeAcks, NoticeFails, NoticeFailWrites
    <2>2. live'[m] \in {"notice", "noticed", "nofail", "nofailing", "done"}
        BY <1>4, <1>17 DEF NoticeSends, NoticeAcks, NoticeFails, NoticeFailWrites
    <2>3. QED
        BY <1>1, <1>2, <2>1, <2>2
<1>18. QED
    BY <1>5, <1>6, <1>7, <1>8, <1>9, <1>10, <1>11, <1>12, <1>13, <1>14, <1>15, <1>16, <1>17

\* A pass's step keeps what holds of the message it works on.
LEMMA PassKeeps ==
  ASSUME TypeOK, ClaimInv, DraftInv, KindInv, NEW p \in Pass, NEW m \in Msg, MessageInv(m),
         \/ Visit(p) /\ m = Min(todo[p])
         \/ /\ Check(p) \/ Reconcile(p) \/ Deliver(p) \/ Ack(p) \/ Fail(p) \/ FailWrites(p) \/ Move(p)
            /\ m = cur[p]
  PROVE  MessageInv(m)'
<1> USE Writers
<1> USE DEF MessageInv, Unqueued, Unmet, MarksLate, KeepsMark, Protected, NotesOvertaking,
            SoonRemoved, Orderly
<1>1. log[m].sent \in 0..2 /\ at \in [Pass -> PassPC] /\ cur \in [Pass -> Msg \cup {0}]
    BY DEF TypeOK, Log
<1>2. ASSUME Visit(p), m = Min(todo[p]) PROVE MessageInv(m)'
    <2>1. UNCHANGED <<live, file, draft, kind, faults>> /\ at[p] = "loop"
        BY <1>2 DEF Visit
    <2>2. CASE m \in claimed
        <3>1. UNCHANGED <<at, cur, log>> /\ \A q \in Pass : todo'[q] \subseteq todo[q]
            BY <1>2, <2>2 DEF Visit, TypeOK
        <3>2. QED
            BY <2>1, <3>1 DEF Holds
    <2>3. CASE m \notin claimed
        <3>1. /\ cur' = [cur EXCEPT ![p] = m] /\ at' = [at EXCEPT ![p] = "check"] /\ todo' = todo
              /\ log' = [log EXCEPT ![m].overtaken = @ \/ live[m] = "queued"]
            BY <1>2, <2>3 DEF Visit
        <3>2. m \in todo[p]
            BY <1>2, MinOfMsgs DEF TypeOK, Visit
        <3>3. \A q \in Pass : ~Holds(q, m)
            BY <2>3 DEF ClaimInv, Holds
        <3>4. live[m] \notin LiveHolding /\ live[m] \notin {"new", "direct"}
            BY <2>3, <3>2 DEF ClaimInv
        <3>5. \A q \in Pass : Holds(q, m)' => at'[q] = "check"
            BY <1>1, <3>1, <3>3 DEF Holds
        <3>6. /\ log'[m].sent = log[m].sent /\ (log'[m].exposed <=> log[m].exposed)
              /\ log'[m].clobbered <=> log[m].clobbered
              /\ log'[m].overtaken <=> (log[m].overtaken \/ live[m] = "queued")
            BY <3>1, OvertakenLogs
        <3>7. QED
            BY <1>1, <2>1, <3>2, <3>3, <3>4, <3>5, <3>6
    <2>4. QED
        BY <2>2, <2>3
<1>3. ASSUME at[p] \in PassHolding, m = cur[p]
      PROVE  /\ Holds(p, m) /\ \A q \in Pass : q # p => ~Holds(q, m)
             /\ live[m] \notin LiveHolding /\ live[m] \notin {"new", "direct"}
             /\ kind[m] # "notice" => live[m] \in {"queued", "done"}
             /\ draft["live"][m] # None => kind[m] = "notice"
             /\ \A q \in Pass : at[p] # "failing" \/ q # p => draft[q][m] = None
    <2>1. Holds(p, m) /\ \A q \in Pass : q # p => ~Holds(q, m)
        BY <1>3 DEF ClaimInv, Holds
    <2>2. live[m] \notin LiveHolding /\ live[m] \notin {"new", "direct"}
        BY <2>1 DEF ClaimInv
    <2>3. kind[m] # "notice" => live[m] \in {"queued", "done"}
        BY <2>2 DEF TypeOK, LivePC, LiveHolding, KindInv, NoticePC
    <2>4. draft["live"][m] # None => kind[m] = "notice"
        BY <2>3 DEF DraftInv, LiveWriting
    <2>5. \A q \in Pass : at[p] # "failing" \/ q # p => draft[q][m] = None
        BY <1>3, <2>1 DEF DraftInv, Holds, PassHolding
    <2>6. QED
        BY <2>1, <2>2, <2>3, <2>4, <2>5
<1>4. ASSUME at[p] \in PassHolding, m = cur[p], NEW a \in PassPC, at' = [at EXCEPT ![p] = a],
             cur' = cur
      PROVE  /\ at'[p] = a /\ (Holds(p, m)' <=> a \in PassHolding)
             /\ \A q \in Pass : q # p => ~Holds(q, m)'
    BY <1>1, <1>3, <1>4 DEF Holds
<1>5. ASSUME Check(p), m = cur[p] PROVE MessageInv(m)'
    <2>1. at[p] = "check" /\ UNCHANGED <<live, file, draft, log, kind, faults, cur>>
        BY <1>5 DEF Check, Goto, ReleaseAndNext
    <2>2. \E a \in {"loop", "limit", "reconcile", "deliver"} :
             /\ at' = [at EXCEPT ![p] = a]
             /\ a = "deliver" => ~file[m].marked
             /\ a # "loop" => file[m] # None
        BY <1>5 DEF Check, Goto, ReleaseAndNext
    <2>3. PICK a \in {"loop", "limit", "reconcile", "deliver"} :
             /\ at' = [at EXCEPT ![p] = a]
             /\ a = "deliver" => ~file[m].marked
             /\ a # "loop" => file[m] # None
        BY <2>2
    <2>4. at'[p] = a /\ (Holds(p, m)' <=> a # "loop") /\ \A q \in Pass : q # p => ~Holds(q, m)'
        BY <1>4, <1>5, <2>1, <2>3 DEF PassHolding, PassPC
    <2>5. QED
        BY <1>3, <1>5, <2>1, <2>3, <2>4 DEF PassHolding
<1>6. ASSUME Reconcile(p), m = cur[p] PROVE MessageInv(m)'
    <2>1. at[p] = "reconcile" /\ UNCHANGED <<live, file, draft, log, kind, faults, cur>>
        BY <1>6 DEF Reconcile, Goto
    <2>2. PICK a \in {"ack", "deliver", "fail", "move"} :
             at' = [at EXCEPT ![p] = a] /\ (a = "deliver" => log[m].sent = 0)
        BY <1>6 DEF Reconcile, Goto
    <2>3. at'[p] = a /\ \A q \in Pass : q # p => ~Holds(q, m)'
        BY <1>4, <1>6, <2>1, <2>2 DEF PassHolding, PassPC
    <2>4. QED
        BY <1>1, <1>3, <1>6, <2>1, <2>2, <2>3 DEF PassHolding
<1>7. ASSUME Deliver(p), m = cur[p] PROVE MessageInv(m)'
    <2>1. at[p] = "deliver" /\ UNCHANGED <<live, file, draft, kind, cur>>
        BY <1>7 DEF Deliver, Goto
    <2>2. PICK a \in {"ack", "fail", "move"} : at' = [at EXCEPT ![p] = a]
        BY <1>7 DEF Deliver, Goto
    <2>3. at'[p] = a /\ Holds(p, m)' /\ \A q \in Pass : q # p => ~Holds(q, m)'
        BY <1>4, <1>7, <2>1, <2>2 DEF PassHolding, PassPC
    <2>4. ~Protected(m) /\ ~Orderly(m)
        BY <1>3, <1>7, <2>1 DEF PassHolding
    <2>5. CASE Accept(m) /\ ((a = "ack" /\ faults' = faults) \/ faults' = faults + 1)
        <3>1. \A w \in Writer : w # "defer" /\ draft[w][m] # None => kind[m] = "notice"
            <4>1. \A w \in Writer : w # "defer" => w = "live" \/ w \in Pass
                BY DEF Writer
            <4>2. QED
                BY <1>3, <1>7, <2>1, <4>1 DEF PassHolding
        <3>2. log[m].sent = 0 /\ file[m] # None /\ file[m].marked /\ kind[m] # "notice" => live[m] = "done"
            BY <1>3, <1>7, <2>1 DEF PassHolding
        <3>3. ~log[m].overtaken => live[m] # "queued"
            BY <1>3, <1>7, <2>1 DEF PassHolding
        <3>4. faults \in Nat
            BY DEF TypeOK
        <3>5. /\ log'[m].sent = IF log[m].sent = 2 THEN 2 ELSE log[m].sent + 1
              /\ log'[m].exposed <=> \/ log[m].exposed
                                     \/ log[m].sent = 0 /\ (file[m] = None \/ ~file[m].marked)
              /\ log'[m].clobbered = log[m].clobbered /\ log'[m].overtaken = log[m].overtaken
            BY <2>5, AcceptLogs
        <3>6. live[m] \notin {"new", "direct"}
            BY <1>3, <1>7, <2>1 DEF PassHolding
        <3>7. (Unqueued(m) /\ MarksLate(m) /\ NotesOvertaking(m))'
            BY <1>3, <1>7, <2>1, <2>3, <3>3, <3>5, <3>6 DEF PassHolding
        <3>8. KeepsMark(m)'
            BY <1>1, <2>1, <2>3, <2>4, <3>1, <3>2, <3>5
        <3>9. ASSUME Orderly(m)' PROVE SoonRemoved(m)'
            <4>1. faults = 0 /\ a = "ack"
                BY <2>5, <3>4, <3>9
            <4>2. log[m].sent = 0 /\ log'[m].sent = 1
                BY <1>1, <2>1, <2>4, <3>5, <3>9, <4>1
            <4>3. live'[m] = "done"
                BY <1>3, <1>7, <2>1, <3>3, <3>5, <3>9 DEF PassHolding
            <4>4. QED
                BY <2>3, <4>1, <4>2, <4>3
        <3>10. QED
            BY <3>7, <3>8, <3>9
    <2>6. CASE (Withdraw(m) \/ UNCHANGED log) /\ faults' = faults
        <3>1. /\ log'[m].sent = log[m].sent /\ (log'[m].exposed <=> log[m].exposed)
              /\ log'[m].clobbered <=> log[m].clobbered
              /\ log'[m].overtaken <=> log[m].overtaken
            BY <2>6, WithdrawLogs DEF Withdraw
        <3>2. QED
            BY <1>1, <1>3, <1>7, <2>1, <2>3, <2>4, <2>6, <3>1 DEF PassHolding
    <2>7. QED
        <3>1. at' = [at EXCEPT ![p] = "ack"] => a = "ack"
            BY <1>1, <2>3
        <3>2. QED
            BY <1>7, <2>5, <2>6, <3>1 DEF Deliver, Goto, Fault
<1>8. ASSUME Ack(p), m = cur[p] PROVE MessageInv(m)'
    <2>1. at[p] = "ack" /\ UNCHANGED <<live, draft, log, kind, cur>>
        BY <1>8 DEF Ack, Goto, ReleaseAndNext
    <2>2. faults \in Nat
        BY DEF TypeOK
    <2>3. CASE file' = file /\ faults' = faults + 1 /\ at' = [at EXCEPT ![p] = "fail"]
        <3>1. at'[p] = "fail" /\ \A q \in Pass : q # p => ~Holds(q, m)'
            BY <1>4, <1>8, <2>1, <2>3 DEF PassHolding, PassPC
        <3>2. QED
            BY <1>3, <1>8, <2>1, <2>2, <2>3, <3>1 DEF PassHolding
    <2>4. CASE Remove(m) /\ faults' = faults /\ at' = [at EXCEPT ![p] = "loop"]
        <3>1. at'[p] = "loop" /\ \A q \in Pass : ~Holds(q, m)'
            BY <1>4, <1>8, <2>1, <2>4 DEF PassHolding, PassPC
        <3>2. file'[m] = None
            BY <2>4, Storage DEF SetFile
        <3>3. QED
            BY <1>3, <1>8, <2>1, <2>4, <3>1, <3>2 DEF PassHolding
    <2>5. QED
        BY <1>8, <2>3, <2>4 DEF Ack, Goto, ReleaseAndNext, Fault
<1>9. ASSUME Fail(p), m = cur[p] PROVE MessageInv(m)'
    <2>1. at[p] = "fail" /\ UNCHANGED <<live, file, log, kind, cur>>
        BY <1>9 DEF Fail, Goto, ReleaseAndNext, Read
    <2>2. PICK a \in {"failing", "loop"} : at' = [at EXCEPT ![p] = a]
        BY <1>9 DEF Fail, Goto, ReleaseAndNext
    <2>3. at'[p] = a /\ \A q \in Pass : q # p => ~Holds(q, m)'
        BY <1>4, <1>9, <2>1, <2>2 DEF PassHolding, PassPC
    <2>4. \A w \in Writer : \/ draft'[w][m] = draft[w][m]
                            \/ file[m] # None /\ (draft'[w][m].marked <=> file[m].marked)
        BY <1>9, Updates DEF Fail, SetDraft
    <2>5. faults \in Nat /\ (faults' = faults \/ faults' = faults + 1)
        BY <1>9 DEF Fail, Fault, TypeOK
    <2>6. ~Orderly(m)
        BY <1>3, <1>9, <2>1 DEF PassHolding
    <2>7. QED
        BY <1>3, <1>9, <2>1, <2>3, <2>4, <2>5, <2>6 DEF PassHolding
<1>10. ASSUME FailWrites(p), m = cur[p] PROVE MessageInv(m)'
    <2>1. at[p] = "failing" /\ UNCHANGED <<live, log, kind, cur>> /\ at' = [at EXCEPT ![p] = "loop"]
        BY <1>10 DEF FailWrites, ReleaseAndNext
    <2>2. \A q \in Pass : ~Holds(q, m)'
        BY <1>4, <1>10, <2>1 DEF PassHolding, PassPC
    <2>3. /\ \A w \in Writer : draft'[w][m] = draft[w][m] \/ draft'[w][m] = None
          /\ file'[m] = file[m] \/ file'[m] = draft[p][m]
        BY <1>10, Storage DEF FailWrites, SetDraft, SetFile
    <2>4. faults \in Nat /\ (faults' = faults \/ faults' = faults + 1)
        BY <1>10 DEF FailWrites, Fault, TypeOK
    <2>5. ~Orderly(m)
        BY <1>3, <1>10, <2>1 DEF PassHolding
    <2>6. p # "defer"
        OBVIOUS
    <2>7. QED
        BY <1>3, <1>10, <2>1, <2>2, <2>3, <2>4, <2>5, <2>6 DEF PassHolding
<1>11. ASSUME Move(p), m = cur[p] PROVE MessageInv(m)'
    <2>1. at[p] \in {"move", "limit"} /\ UNCHANGED <<live, draft, log, kind, cur>>
        BY <1>11 DEF Move, ReleaseAndNext
    <2>2. \E a \in {"loop", "idle"} : at' = [at EXCEPT ![p] = a]
        BY <1>11 DEF Move, ReleaseAndNext
    <2>3. \A q \in Pass : ~Holds(q, m)'
        BY <1>4, <1>11, <2>1, <2>2 DEF PassHolding, PassPC
    <2>4. file'[m] = file[m] \/ file'[m] = None
        BY <1>11, Storage DEF Move, SetFile
    <2>5. faults \in Nat /\ (faults' = faults \/ faults' = faults + 1)
        BY <1>11 DEF Move, Fault, TypeOK
    <2>6. ~Orderly(m)
        BY <1>3, <1>11, <2>1 DEF PassHolding
    <2>7. QED
        BY <1>3, <1>11, <2>1, <2>3, <2>4, <2>5, <2>6 DEF PassHolding
<1>12. QED
    BY <1>2, <1>5, <1>6, <1>7, <1>8, <1>9, <1>10, <1>11

\* The deferred updates keep what holds of the message: the write that is not
\* covered by a claim admits to undoing the mark.
LEMMA DeferKeeps ==
  ASSUME TypeOK, DraftInv, NEW m \in Msg, MessageInv(m), DeferReads(m) \/ DeferWrites(m)
  PROVE  MessageInv(m)'
<1> USE Writers
<1> USE DEF MessageInv, Unqueued, Unmet, MarksLate, KeepsMark, Protected, NotesOvertaking,
            SoonRemoved, Orderly
<1>1. /\ UNCHANGED <<live, at, cur, kind, faults>> /\ \A q \in Pass : todo'[q] \subseteq todo[q]
      /\ \A q \in Pass : Holds(q, m)' <=> Holds(q, m)
    <2>1. UNCHANGED <<live, at, cur, kind, faults>>
        BY DEF DeferReads, DeferWrites, passVars
    <2>2. \A q \in Pass : todo'[q] \subseteq todo[q]
        BY DEF DeferReads, DeferWrites, passVars, TypeOK
    <2>3. QED
        BY <2>1, <2>2 DEF Holds
<1>2. CASE DeferReads(m)
    <2>1. m \in todo["startup"] /\ UNCHANGED <<log, file>>
        BY <1>2 DEF DeferReads, Read
    <2>2. live[m] \notin {"new", "direct"}
        BY <2>1
    <2>3. \A w \in Writer : w # "defer" => draft'[w][m] = draft[w][m]
        BY <1>2, Updates DEF DeferReads, SetDraft
    <2>4. \/ draft'["defer"][m] = draft["defer"][m]
          \/ file[m] # None /\ (draft'["defer"][m].marked <=> file[m].marked)
        BY <1>2, Updates DEF DeferReads, SetDraft
    <2>5. QED
        BY <1>1, <2>1, <2>2, <2>3, <2>4
<1>3. CASE DeferWrites(m)
    <2> DEFINE e == draft["defer"][m]
    <2>1. e # None /\ live[m] \notin {"new", "direct"}
        BY <1>3 DEF DeferWrites
    <2>2. /\ file'[m] = e
          /\ \A w \in Writer : draft'[w][m] = draft[w][m] \/ draft'[w][m] = None
        BY <1>3, Storage DEF DeferWrites, SetFile, SetDraft
    <2>3. /\ log'[m].sent = log[m].sent /\ (log'[m].exposed <=> log[m].exposed)
          /\ log'[m].overtaken <=> log[m].overtaken
          /\ log'[m].clobbered <=> (log[m].clobbered \/ file[m] = None \/ file[m].marked # e.marked)
        BY <1>3, ClobberedLogs DEF DeferWrites
    <2> HIDE DEF e
    <2>4. ~log'[m].clobbered => ~log[m].clobbered /\ file[m] # None /\ (e.marked <=> file[m].marked)
        BY <2>3
    <2>5. (Unqueued(m) /\ NotesOvertaking(m))'
        BY <1>1, <2>1, <2>3
    <2>6. MarksLate(m)'
        BY <1>1, <2>1, <2>2 DEF e
    <2>7. KeepsMark(m)'
        BY <1>1, <2>2, <2>3, <2>4
    <2>8. SoonRemoved(m)'
        BY <1>1, <2>2, <2>3, <2>4
    <2>9. QED
        BY <2>5, <2>6, <2>7, <2>8
<1>4. QED
    BY <1>2, <1>3

\* After a crash only the entries and the history are left.
LEMMA CrashKeeps ==
  ASSUME TypeOK, NEW m \in Msg, MessageInv(m), Crash
  PROVE  MessageInv(m)'
<1> USE DEF MessageInv, Unqueued, Unmet, MarksLate, KeepsMark, Protected, NotesOvertaking,
            SoonRemoved, Orderly
<1>1. /\ live'[m] = (IF live[m] = "new" THEN "new" ELSE "done")
      /\ \A p \in Pass : ~Holds(p, m)' /\ m \notin todo'[p]
      /\ \A w \in Writer : draft'[w][m] = None
      /\ UNCHANGED <<kind, file, log>>
    BY DEF Crash, Holds, PassHolding
<1>2. faults' # 0
    BY DEF Crash, Fault, TypeOK
<1>3. QED
    BY <1>1, <1>2

QueueInv ==
  /\ TypeOK /\ ClaimInv /\ DraftInv /\ KindInv /\ AckInv /\ NothingLost
  /\ \A m \in Msg : MessageInv(m)

\* The queue starts with the backlog's entries and nobody at work.
LEMMA QueueInit == Init => QueueInv
<1> SUFFICES ASSUME Init PROVE QueueInv
    OBVIOUS
<1> USE DeliveryAssumption, Writers
<1>1. TypeOK
    <2>1. file \in [Msg -> Entry \cup {None}] /\ kind \in [Msg -> Kind]
        BY FreshEntry DEF Init
    <2>2. log \in [Msg -> Log]
        BY DEF Init, Log
    <2>3. /\ failed \subseteq Msg /\ claimed \subseteq Msg
          /\ live \in [Msg -> LivePC]
          /\ at \in [Pass -> PassPC]
          /\ cur \in [Pass -> Msg \cup {0}]
          /\ todo \in [Pass -> SUBSET Msg]
          /\ draft \in [Writer -> [Msg -> Entry \cup {None}]]
          /\ faults \in Nat
        BY DEF Init, LivePC, PassPC
    <2>4. QED
        BY <2>1, <2>2, <2>3 DEF TypeOK
<1>2. \A p \in Pass : at[p] \notin PassHolding /\ at[p] \notin {"ack", "failing"}
    BY DEF Init, PassHolding
<1>3. \A m \in Msg : live[m] \in {"new", "done"}
    BY DEF Init
<1>4. ClaimInv /\ KindInv /\ AckInv
    BY <1>2, <1>3 DEF ClaimInv, KindInv, AckInv, Holds, LiveHolding, NoticePC
<1>5. DraftInv
    BY <1>2, <1>3 DEF DraftInv, Init, LiveWriting
<1>6. NothingLost
    BY FreshEntry DEF NothingLost, AccountedFor, Init
<1>7. ASSUME NEW m \in Msg PROVE MessageInv(m)
    <2>1. log[m].sent = 0
        BY DEF Init
    <2>2. live[m] \in {"new", "direct"} => Unmet(m)
        BY <1>2 DEF Init, Unmet, Holds
    <2>3. QED
        BY <1>3, <2>1, <2>2 DEF MessageInv, Unqueued, MarksLate, KeepsMark, Protected, NotesOvertaking,
             SoonRemoved, Orderly
<1>8. QED
    BY <1>1, <1>4, <1>5, <1>6, <1>7 DEF QueueInv

\* Every step keeps the whole invariant.
LEMMA QueueStep == QueueInv /\ [Next]_vars => QueueInv'
<1> SUFFICES ASSUME QueueInv, [Next]_vars PROVE QueueInv'
    OBVIOUS
<1>1. CASE Next
    <2> USE <1>1 DEF QueueInv
    <2>1. TypeOK' /\ ClaimInv' /\ DraftInv' /\ KindInv' /\ AckInv' /\ NothingLost'
        BY TypeStep, ClaimStep, DraftStep, KindStep, AckStep, LostStep
    <2>2. ASSUME NEW u \in Msg PROVE MessageInv(u)'
        <3>1. MessageInv(u)
            OBVIOUS
        <3>2. ASSUME Same(u) PROVE MessageInv(u)'
            BY <3>1, <3>2, SameKeeps
        <3>3. ASSUME NEW m \in Msg,
                     \/ Enqueue(m) \/ DirectSend(m) \/ LiveClaim(m) \/ LivePrepares(m)
                     \/ LiveMarks(m) \/ LiveMarkWrites(m) \/ LiveSends(m) \/ LiveOutcome(m)
                     \/ LiveOutcomeWrites(m) \/ LiveAcks(m) \/ LiveFails(m) \/ LiveFailWrites(m)
                     \/ NoticeSends(m) \/ NoticeAcks(m) \/ NoticeFails(m) \/ NoticeFailWrites(m)
              PROVE  MessageInv(u)'
            BY <3>1, <3>2, <3>3, SenderFrame, SenderKeeps
        <3>4. ASSUME NEW m \in Msg, DeferReads(m) \/ DeferWrites(m) PROVE MessageInv(u)'
            BY <3>1, <3>2, <3>4, DeferFrame, DeferKeeps
        <3>5. ASSUME NEW p \in Pass,
                     \/ Visit(p) \/ Check(p) \/ Reconcile(p) \/ Deliver(p)
                     \/ Ack(p) \/ Fail(p) \/ FailWrites(p) \/ Move(p)
              PROVE  MessageInv(u)'
            BY <3>1, <3>2, <3>5, PassFrame, PassKeeps
        <3>6. CASE (\E p \in Pass : Drain(p) \/ PassEnds(p)) \/ StartupScan \/ Defer \/ DeferEnds
            BY <3>2, <3>6, IdleFrame
        <3>7. CASE Crash
            BY <3>1, <3>7, CrashKeeps
        <3>8. QED
            BY <3>3, <3>4, <3>5, <3>6, <3>7, NextCases
    <2>3. QED
        BY <2>1, <2>2
<1>2. CASE UNCHANGED vars
    BY <1>2 DEF vars, QueueInv, TypeOK, ClaimInv, DraftInv, KindInv, NoticePC, AckInv, Settled,
         NothingLost, AccountedFor, MessageInv, Unqueued, Unmet, MarksLate, KeepsMark, Protected,
         NotesOvertaking, SoonRemoved, Orderly, Holds, LiveWriting
<1>3. QED
    BY <1>1, <1>2
-----------------------------------------------------------------------------
(* Theorems *)

\* The whole invariant holds of every behaviour.
THEOREM QueueInvariant == Spec => []QueueInv
  BY QueueInit, QueueStep, PTL DEF Spec

\* Senders, passes, entries, drafts and the history keep to their types.
THEOREM QueueTypeCorrect == Spec => []TypeOK
<1>1. QueueInv => TypeOK
    BY DEF QueueInv
<1>2. QED
    BY <1>1, QueueInvariant, PTL

\* entriesInProgress works as a lock among the live sends and the passes: at
\* any time at most one of them works on a message, and it has it claimed.
THEOREM QueueClaimsExclude == Spec => []ClaimInv
<1>1. QueueInv => ClaimInv
    BY DEF QueueInv
<1>2. QED
    BY <1>1, QueueInvariant, PTL

\* "persist before sending, remove after success", for the plain, required and
\* notice messages: whatever crashes, storage errors, ambiguous sends and racing
\* passes do, one whose entry was written is in the queue, in failed/, with the
\* platform, or withdrawn (cancelled, aborted, or answered without a message
\* id).  It is false of best_effort messages, whose errors are swallowed.
THEOREM QueueLosesNothing == Spec => []NothingLost
<1>1. QueueInv => NothingLost
    BY DEF QueueInv
<1>2. QED
    BY <1>1, QueueInvariant, PTL

\* However many faults there are, a message first accepted under its
\* "send_attempt_started" mark is accepted once, unless the unclaimed write of
\* deferRemainingEntriesForBudget replaced its entry.  A marked entry may be
\* replayed when reconciliation answers that it was not sent; it was not
\* accepted then.  Messages first accepted unmarked (replays, sends without an
\* entry) and the restart notice are outside this claim.
THEOREM QueueSendsMarkedOnce == Spec => []MarkedSentOnce
<1>1. QueueInv => MarkedSentOnce
    <2>1. SUFFICES ASSUME QueueInv, NEW m \in Msg, log[m].sent > 1, kind[m] # "notice"
                   PROVE  log[m].exposed \/ log[m].clobbered
        BY DEF MarkedSentOnce
    <2>2. log[m].sent \in 0..2 /\ KeepsMark(m)
        BY <2>1 DEF QueueInv, MessageInv, TypeOK, Log
    <2>3. QED
        BY <2>1, <2>2 DEF KeepsMark, Protected
<1>2. QED
    BY <1>1, QueueInvariant, PTL

\* Without faults, live send, startup recovery and any number of reconnect
\* drains together have the platform accept a message twice in two ways only: a
\* pass got hold of the entry before its own sender, or the unclaimed write of
\* deferRemainingEntriesForBudget replaced the entry.  Both happen.  The
\* restart notice, which takes no claim, is outside this claim.
THEOREM QueueSendsTwiceOnlyIfOvertaken == Spec => []SentTwiceOnlyIfOvertaken
<1>1. QueueInv => SentTwiceOnlyIfOvertaken
    <2>1. SUFFICES ASSUME QueueInv, NEW m \in Msg, faults = 0, log[m].sent > 1, kind[m] # "notice"
                   PROVE  log[m].overtaken \/ log[m].clobbered
        BY DEF SentTwiceOnlyIfOvertaken
    <2>2. log[m].sent \in 0..2 /\ SoonRemoved(m)
        BY <2>1 DEF QueueInv, MessageInv, TypeOK, Log
    <2>3. QED
        BY <2>1, <2>2 DEF SoonRemoved, Orderly
<1>2. QED
    BY <1>1, QueueInvariant, PTL
=============================================================================
