------------------------- MODULE AgentSession_proof -------------------------
(* Proofs about AgentSession, for every set of messages, every bound on turns,
   steps and crashes, and a root or a sub-agent's Session.

   The inductive invariant is Typed /\ Mail.  Mail has four parts.  Accounts:
   every message ever seen is queued, claimed or dropped, what was said was
   claimed, and is said once.  Batch: what an operation handed over still fits
   the record it is written to, event by event.  Service: a claim the log has
   only half of is one whose rest is in hand, as long as the store serves, and
   what may run was let run in this life of the process.  Final: an ended
   Session has nothing torn and nothing that may run.

   An operation is shown to hand over a batch that fits (Operation and the
   lemmas before it), a write to keep the invariant whatever the event
   (WriteMail), and a crash to leave it true at any point of a batch, since
   every part speaks of the events not yet written (CrashStep).  The
   refinement of AgentMailbox follows from the invariant in both states of a
   step. *)
EXTENDS AgentSession, FiniteSetTheorems, SequenceTheorems, TLAPS

(* ------------------------------- invariants ------------------------------- *)

\* The events, by what an operation may write with them: alone, of a claim, or besides.
SoloTypes  == {"Enqueued", "InboxItemResumed", "InboxItemSteered", "InboxItemRemoved",
               "InboxReordered", "SessionResumed"}
ClaimTypes == {"StepInputClaim", "Claimed", "TurnStart", "StepStart", "UserMessage"}
PlainTypes == {"InboxPaused", "Discarded", "TurnEnd", "StepEnd", "AssistantMessage",
               "RequestUsage", "AgentStatus", "SessionEnded"}

Events ==
  [type : {"StepInputClaim"}, claim : Claims]
  \cup [type : {"Enqueued"}, lane : Lanes, msg : Msgs, held : BOOLEAN]
  \cup [type : {"Claimed", "Discarded", "InboxReordered"}, lane : Lanes, msgs : Seq(Msgs)]
  \cup [type : {"InboxPaused"}, ids : SUBSET Msgs]
  \cup [type : {"InboxItemResumed", "InboxItemSteered"}, msg : Msgs]
  \cup [type : {"InboxItemRemoved"}, lane : Lanes, msg : Msgs]
  \cup [type : {"TurnStart", "StepStart"}, id : 1..MaxSteps]
  \cup [type : {"UserMessage"}, line : [msg : Msgs, step : 1..MaxSteps]]
  \cup [type : {"AssistantMessage"}, answer : {"text", "tools"}]
  \cup [type : {"AgentStatus", "SessionEnded"}, status : Statuses]
  \cup [type : {"TurnEnd", "StepEnd", "RequestUsage", "SessionResumed", "Rename"}]

\* What is written is a sequence of events, and a driver at work has a turn.
Typed ==
  /\ TypeOK /\ pending \in Seq(Events)
  /\ stage \in Working \cup Waiting => scope.turn # 0

\* A claim is the first event of its batch; what it says, and a rename, come last.
Rank(e) == IF e.type = "StepInputClaim" THEN 1
           ELSE IF e.type \in {"UserMessage", "Rename"} THEN 3 ELSE 2

InOrder(p) == \A i, j \in DOMAIN p : i < j => Rank(p[i]) <= Rank(p[j]) /\ Rank(p[j]) # 1

SaysOnce(p) ==
  \A i, j \in DOMAIN p :
    p[i].type = "UserMessage" /\ p[j].type = "UserMessage" /\ p[i].line.msg = p[j].line.msg
      => i = j

ClaimSet(c) == Range(c.turnMsgs) \cup Range(c.stepMsgs)

\* What the events of a batch do to a message, a turn and a step.
Has(p, type)  == \E e \in Range(p) : e.type = type
Takes(p, m)   == \E e \in Range(p) : e.type = "Claimed" /\ m \in Range(e.msgs)
Says(p, m)    == \E e \in Range(p) : e.type = "UserMessage" /\ e.line.msg = m
Intends(p, m) == \E e \in Range(p) : e.type = "StepInputClaim" /\ m \in ClaimSet(e.claim)
Opens(p, t)   == \E e \in Range(p) : e.type = "TurnStart" /\ e.id = t
Starts(p, s)  == \E e \in Range(p) : e.type = "StepStart" /\ e.id = s

\* Claim c, of step k, is complete once the events of p are written.
Follows(p, c, k) ==
  /\ \A m \in ClaimSet(c) : m \in Queued => Takes(p, m)
  /\ \A m \in ClaimSet(c) : m \in SaidMsgs \/ Says(p, m)
  /\ c.start => c.turn \in log.turns \/ Opens(p, c.turn)
  /\ k \in log.steps \/ Starts(p, k)

Done(c, k) ==
  /\ ClaimSet(c) \cap Queued = {} /\ ClaimSet(c) \subseteq SaidMsgs
  /\ c.start => c.turn \in log.turns
  /\ k \in log.steps

Complete == \A k \in DOMAIN log.claims : Done(log.claims[k], k)

\* Every message ever seen is queued, claimed or dropped; what was said was claimed,
\* is said once and is no longer queued.
Accounts ==
  /\ inbox.seen = Queued \cup ClaimedMsgs \cup dropped
  /\ dropped \cap (Queued \cup ClaimedMsgs) = {}
  /\ Range(inbox.nextTurn) \cap Range(inbox.nextStep) = {}
  /\ inbox.paused \subseteq inbox.seen
  /\ SaidMsgs \subseteq ClaimedMsgs /\ SaidMsgs \cap Queued = {}
  /\ \A i, j \in DOMAIN said : said[i].msg = said[j].msg => i = j

\* What the operation that wrote e with batch p knew of the inbox still holds.
Ready(p, e) ==
  /\ e.type = "Enqueued" => (FailedRoot => e.held)
  /\ e.type = "InboxItemSteered" => e.msg \in Range(inbox.nextTurn)
  /\ e.type = "InboxItemRemoved" => e.msg \in Range(inbox[e.lane])
  /\ e.type = "InboxReordered" => Range(e.msgs) = Range(inbox[e.lane])
  /\ e.type = "Rename" => ended \/ Has(p, "SessionEnded")
  /\ e.type \in SoloTypes => Len(p) = 1

\* The claim at the head of a batch takes what may run, when no other claim is torn.
Sound(p, e) ==
  e.type = "StepInputClaim" =>
    /\ Complete /\ ClaimSet(e.claim) \subseteq Unpaused
    /\ Follows(p, e.claim, NextStepId) /\ NextStepId <= MaxSteps

\* A batch as it may be in hand: of a claim, or of none, and then no claim is torn.
Fitting(p) ==
  /\ InOrder(p) /\ SaysOnce(p)
  /\ \/ \A e \in Range(p) : e.type \in ClaimTypes
     \/ Complete /\ \A e \in Range(p) : e.type \notin ClaimTypes
  /\ \A e \in Range(p) : Ready(p, e) /\ Sound(p, e)
  /\ \A m \in Msgs : Says(p, m) => m \notin SaidMsgs /\ (m \in Queued => Takes(p, m))
  /\ \A m \in Msgs : Says(p, m) \/ Takes(p, m) => m \in ClaimedMsgs \/ Intends(p, m)

Batch == Fitting(pending)

LoadTypes == {"Claimed", "TurnStart", "StepStart", "UserMessage", "InboxPaused"}

\* While the store serves, a torn claim is one whose rest is in hand, and what may run
\* was submitted in this life of the process; a load writes repairs only.
Service ==
  /\ ~loading => /\ \A k \in DOMAIN log.claims : Follows(pending, log.claims[k], k)
                 /\ Unpaused \subseteq told
  /\ loading => \A e \in Range(pending) : e.type \in LoadTypes
  /\ Len(log.claims) <= MaxSteps

\* An ended Session has nothing torn and nothing that may run.
Final ==
  /\ ended \/ archived => Complete
  /\ archived => ended
  /\ EndedHoldsInput

Mail == Accounts /\ Batch /\ Service /\ Final

(* --------------------------- how the record moves ------------------------- *)

Box == [nextTurn : Seq(Msgs), nextStep : Seq(Msgs), seen : SUBSET Msgs, paused : SUBSET Msgs]

Logs == [claims : Seq(Claims), turns : SUBSET (1..MaxSteps), steps : SUBSET (1..MaxSteps),
         open : Scopes, live : Scopes, answer : {"none", "text", "tools"}, usage : BOOLEAN]

Laned(b, lane, q)           == [b EXCEPT ![lane] = q]
LanedPaused(b, lane, q, p)  == [b EXCEPT ![lane] = q, !.paused = p]
LanedSeen(b, lane, q, s, p) == [b EXCEPT ![lane] = q, !.seen = s, !.paused = p]
SteeredBox(b, q, r)         == [b EXCEPT !.nextTurn = q, !.nextStep = r]

\* Writing one lane keeps the shape of the inbox.
LEMMA LanedBox ==
  ASSUME NEW b \in Box, NEW lane \in Lanes, NEW q \in Seq(Msgs)
  PROVE  LET r == Laned(b, lane, q) IN
         /\ r \in Box /\ r.seen = b.seen /\ r.paused = b.paused
         /\ r[lane] = q /\ \A l \in Lanes \ {lane} : r[l] = b[l]
<1> SUFFICES ASSUME NEW r, r = [b EXCEPT ![lane] = q]
             PROVE  /\ r \in Box /\ r.seen = b.seen /\ r.paused = b.paused
                    /\ r[lane] = q /\ \A l \in Lanes \ {lane} : r[l] = b[l]
  BY Zenon DEF Laned
<1>1. CASE lane = "nextTurn"
  <2>1. r = [b EXCEPT !.nextTurn = q]
    BY <1>1, Zenon
  <2> QED
    BY <1>1, <2>1 DEF Box, Lanes
<1>2. CASE lane = "nextStep"
  <2>1. r = [b EXCEPT !.nextStep = q]
    BY <1>2, Zenon
  <2> QED
    BY <1>2, <2>1 DEF Box, Lanes
<1> QED
  BY <1>1, <1>2 DEF Lanes

\* A lane and what is paused together.
LEMMA LanedPausedBox ==
  ASSUME NEW b \in Box, NEW lane \in Lanes, NEW q \in Seq(Msgs), NEW p \in SUBSET Msgs
  PROVE  LET r == LanedPaused(b, lane, q, p) IN
         /\ r \in Box /\ r.seen = b.seen /\ r.paused = p
         /\ r[lane] = q /\ \A l \in Lanes \ {lane} : r[l] = b[l]
<1> DEFINE b1 == Laned(b, lane, q)
<1>1. b1 \in Box /\ b1.seen = b.seen /\ b1[lane] = q /\ \A l \in Lanes \ {lane} : b1[l] = b[l]
  BY LanedBox
<1>2. LanedPaused(b, lane, q, p) = [b1 EXCEPT !.paused = p]
  BY Zenon DEF LanedPaused, Laned
<1> HIDE DEF b1
<1> QED
  BY <1>1, <1>2 DEF Box, Lanes

\* A lane that gains a message, with what was seen and what is paused.
LEMMA LanedSeenBox ==
  ASSUME NEW b \in Box, NEW lane \in Lanes, NEW q \in Seq(Msgs), NEW s \in SUBSET Msgs,
         NEW p \in SUBSET Msgs
  PROVE  LET r == LanedSeen(b, lane, q, s, p) IN
         /\ r \in Box /\ r.seen = s /\ r.paused = p
         /\ r[lane] = q /\ \A l \in Lanes \ {lane} : r[l] = b[l]
<1> DEFINE b1 == Laned(b, lane, q)
<1>1. b1 \in Box /\ b1[lane] = q /\ \A l \in Lanes \ {lane} : b1[l] = b[l]
  BY LanedBox
<1>2. LanedSeen(b, lane, q, s, p) = [b1 EXCEPT !.seen = s, !.paused = p]
  BY Zenon DEF LanedSeen, Laned
<1> HIDE DEF b1
<1> QED
  BY <1>1, <1>2 DEF Box, Lanes

\* Both lanes, as a steered message moves.
LEMMA SteeredBoxBox ==
  ASSUME NEW b \in Box, NEW q \in Seq(Msgs), NEW t \in Seq(Msgs)
  PROVE  LET r == SteeredBox(b, q, t) IN
         /\ r \in Box /\ r.seen = b.seen /\ r.paused = b.paused
         /\ r.nextTurn = q /\ r.nextStep = t
  BY DEF SteeredBox, Box

\* What each event of a boundary leaves of the log.
LEMMA Bounds == MaxSteps \in Nat /\ MaxCrashes \in Nat /\ NoScope \in Scopes
  BY BoundAssumption DEF NoScope, Scopes

\* A scope that gains or loses its turn or step is a scope.
LEMMA ScopeMoves ==
  ASSUME NEW s \in Scopes, NEW t \in 0..MaxSteps, NEW r
  PROVE  /\ r = [s EXCEPT !.turn = t] => r \in Scopes
         /\ r = [s EXCEPT !.step = t] => r \in Scopes /\ r.step = t /\ r.turn = s.turn
  BY DEF Scopes

\* What each boundary does to the log, field by field: a claim,
LEMMA ClaimLogged ==
  ASSUME NEW g \in Logs, NEW c \in Claims, NEW r, r = [g EXCEPT !.claims = Append(@, c)]
  PROVE  r \in Logs /\ r.claims = Append(g.claims, c) /\ r.turns = g.turns /\ r.steps = g.steps
<1>1. PICK q : q = Append(g.claims, c)
  OBVIOUS
<1>2. g.claims \in Seq(Claims)
  BY DEF Logs
<1>3. q \in Seq(Claims)
  BY <1>1, <1>2
<1>4. r = [g EXCEPT !.claims = q]
  BY <1>1
<1> QED
  BY <1>1, <1>3, <1>4 DEF Logs

TurnOpened(g, t) == [g EXCEPT !.turns = @ \cup {t}, !.open.turn = t, !.live.turn = t]

\* the start of a turn,
LEMMA TurnLogged ==
  ASSUME NEW g \in Logs, NEW t \in 1..MaxSteps, NEW r, r = TurnOpened(g, t)
  PROVE  r \in Logs /\ r.claims = g.claims /\ r.turns = g.turns \cup {t} /\ r.steps = g.steps
<1>1. PICK o, l : o = [g.open EXCEPT !.turn = t] /\ l = [g.live EXCEPT !.turn = t]
  OBVIOUS
<1>2. o \in Scopes /\ l \in Scopes /\ t \in 0..MaxSteps
  <2>1. g.open \in Scopes /\ g.live \in Scopes /\ t \in 0..MaxSteps
    BY Bounds DEF Logs
  <2> QED
    BY <1>1, <2>1, ScopeMoves
<1>3. r = [g EXCEPT !.turns = g.turns \cup {t}, !.open = o, !.live = l]
  BY <1>1 DEF Logs, TurnOpened
<1>4. PICK q : q = g.turns \cup {t}
  OBVIOUS
<1>5. q \in SUBSET (1..MaxSteps)
  BY <1>4 DEF Logs
<1>6. r = [g EXCEPT !.turns = q, !.open = o, !.live = l]
  BY <1>3, <1>4
<1> QED
  BY <1>2, <1>4, <1>5, <1>6 DEF Logs

StepOpened(g, t) == [g EXCEPT !.steps = @ \cup {t}, !.open.step = t, !.live.step = t,
                              !.answer = "none", !.usage = FALSE]

\* the start of a step,
LEMMA StepLogged ==
  ASSUME NEW g \in Logs, NEW t \in 1..MaxSteps
  PROVE  LET r == StepOpened(g, t)
         IN  r \in Logs /\ r.claims = g.claims /\ r.turns = g.turns /\ r.steps = g.steps \cup {t}
<1> SUFFICES ASSUME NEW r, r = [g EXCEPT !.steps = @ \cup {t}, !.open.step = t, !.live.step = t,
                                         !.answer = "none", !.usage = FALSE]
             PROVE  r \in Logs /\ r.claims = g.claims /\ r.turns = g.turns
                    /\ r.steps = g.steps \cup {t}
  BY Zenon DEF StepOpened
<1>1. PICK o, l : o = [g.open EXCEPT !.step = t] /\ l = [g.live EXCEPT !.step = t]
  OBVIOUS
<1>2. o \in Scopes /\ l \in Scopes /\ t \in 0..MaxSteps
  <2>1. g.open \in Scopes /\ g.live \in Scopes /\ t \in 0..MaxSteps
    BY Bounds DEF Logs
  <2> QED
    BY <1>1, <2>1, ScopeMoves
<1>3. PICK q : q = g.steps \cup {t}
  OBVIOUS
<1>4. q \in SUBSET (1..MaxSteps)
  BY <1>3 DEF Logs
<1>5. r = [g EXCEPT !.steps = q, !.open = o, !.live = l, !.answer = "none", !.usage = FALSE]
  BY <1>1, <1>3 DEF Logs
<1> QED
  BY <1>2, <1>3, <1>4, <1>5 DEF Logs

\* the end of a step,
LEMMA StepEndLogged ==
  ASSUME NEW g \in Logs, NEW r, r = [g EXCEPT !.open.step = 0, !.live.step = 0]
  PROVE  r \in Logs /\ r.claims = g.claims /\ r.turns = g.turns /\ r.steps = g.steps
<1>1. PICK o, l : o = [g.open EXCEPT !.step = 0] /\ l = [g.live EXCEPT !.step = 0]
  OBVIOUS
<1>2. o \in Scopes /\ l \in Scopes
  <2>1. g.open \in Scopes /\ g.live \in Scopes /\ 0 \in 0..MaxSteps
    BY Bounds DEF Logs
  <2> QED
    BY <1>1, <2>1, ScopeMoves
<1>3. r = [g EXCEPT !.open = o, !.live = l]
  BY <1>1 DEF Logs
<1> QED
  BY <1>2, <1>3 DEF Logs

\* the end of a turn,
LEMMA TurnEndLogged ==
  ASSUME NEW g \in Logs, NEW r,
         \/ r = [g EXCEPT !.open = NoScope, !.live = NoScope, !.answer = "none", !.usage = FALSE]
         \/ r = [g EXCEPT !.live = NoScope, !.answer = "none", !.usage = FALSE]
         \/ r = [g EXCEPT !.usage = TRUE]
  PROVE  r \in Logs /\ r.claims = g.claims /\ r.turns = g.turns /\ r.steps = g.steps
<1>1. CASE r = [g EXCEPT !.open = NoScope, !.live = NoScope, !.answer = "none", !.usage = FALSE]
  BY <1>1, Bounds DEF Logs
<1>2. CASE r = [g EXCEPT !.live = NoScope, !.answer = "none", !.usage = FALSE]
  BY <1>2, Bounds DEF Logs
<1>3. CASE r = [g EXCEPT !.usage = TRUE]
  BY <1>3 DEF Logs
<1> QED
  BY <1>1, <1>2, <1>3

\* and an answer.
LEMMA AnswerLogged ==
  ASSUME NEW g \in Logs, NEW kind \in {"text", "tools"}, NEW r, r = [g EXCEPT !.answer = kind]
  PROVE  r \in Logs /\ r.claims = g.claims /\ r.turns = g.turns /\ r.steps = g.steps
  BY DEF Logs

(* ---------------------------- what may be claimed ------------------------- *)

\* The fields of the inbox and of the log, one by one.
LEMMA TypedBox ==
  ASSUME Typed
  PROVE  /\ inbox \in Box /\ log \in Logs /\ pending \in Seq(Events)
         /\ inbox.nextTurn \in Seq(Msgs) /\ inbox.nextStep \in Seq(Msgs)
         /\ \A l \in Lanes : inbox[l] \in Seq(Msgs) /\ Range(inbox[l]) \subseteq Queued
         /\ Queued \subseteq Msgs /\ inbox.paused \subseteq Msgs /\ inbox.seen \subseteq Msgs
         /\ \A k \in DOMAIN log.claims : log.claims[k] \in Claims
<1>1. inbox \in Box /\ log \in Logs /\ pending \in Seq(Events)
  BY DEF Typed, TypeOK, Box, Logs
<1>2. inbox.nextTurn \in Seq(Msgs) /\ inbox.nextStep \in Seq(Msgs)
  BY <1>1 DEF Box
<1>3. \A l \in Lanes : inbox[l] \in Seq(Msgs) /\ Range(inbox[l]) \subseteq Queued
  BY <1>2 DEF Lanes, Queued
<1>4. Range(inbox.nextTurn) \subseteq Msgs /\ Range(inbox.nextStep) \subseteq Msgs
  BY <1>2, RangeOfSeq
<1>5. inbox.paused \subseteq Msgs /\ inbox.seen \subseteq Msgs /\ log.claims \in Seq(Claims)
  BY <1>1 DEF Box, Logs
<1>6. \A k \in DOMAIN log.claims : log.claims[k] \in Claims
  BY <1>5
<1> QED
  BY <1>1, <1>2, <1>3, <1>4, <1>5, <1>6 DEF Queued

\* An arrangement is a sequence of messages.
LEMMA ArrangementSeq == \A r \in Arrangements : r \in Seq(Msgs)
<1>1. Cardinality(Msgs) \in Nat
  BY MsgsAssumption, FS_CardinalityType
<1> QED
  BY <1>1 DEF Arrangements

\* An arrangement of what is kept of q.
LEMMA KeptOf ==
  ASSUME NEW q, NEW S, NEW r \in Kept(q, S)
  PROVE  r \in Seq(Msgs) /\ Range(r) = Range(q) \cap S /\ IsInjective(r)
  BY ArrangementSeq DEF Kept, Arrangements

\* A turn takes a message of its lane that is not paused, or none.
LEMMA TurnClaimOf ==
  ASSUME Typed, NEW q \in TurnClaims
  PROVE  q \in Seq(Msgs) /\ Range(q) \subseteq Range(inbox.nextTurn) \ inbox.paused
         /\ IsInjective(q)
<1>1. inbox.nextTurn \in Seq(Msgs)
  BY TypedBox
<1>2. CASE q = <<>>
  BY <1>2 DEF Range, IsInjective
<1>3. ASSUME NEW i \in DOMAIN inbox.nextTurn, inbox.nextTurn[i] \notin inbox.paused,
             q = <<inbox.nextTurn[i]>>
      PROVE  q \in Seq(Msgs) /\ Range(q) \subseteq Range(inbox.nextTurn) \ inbox.paused
             /\ IsInjective(q)
  <2>1. inbox.nextTurn[i] \in Msgs /\ inbox.nextTurn[i] \in Range(inbox.nextTurn) \ inbox.paused
    BY <1>1, <1>3 DEF Range
  <2> QED
    BY <1>3, <2>1 DEF Range, IsInjective
<1> QED
  BY <1>2, <1>3 DEF TurnClaims

\* A step takes messages of its lane that are not paused.
LEMMA StepClaimOf ==
  ASSUME Typed, NEW q \in StepClaims
  PROVE  q \in Seq(Msgs) /\ Range(q) = Range(inbox.nextStep) \ inbox.paused /\ IsInjective(q)
<1>1. q \in Seq(Msgs) /\ Range(q) = Range(inbox.nextStep) \cap (Msgs \ inbox.paused)
      /\ IsInjective(q)
  BY KeptOf DEF StepClaims
<1>2. Range(inbox.nextStep) \subseteq Msgs
  BY TypedBox, RangeOfSeq
<1> QED
  BY <1>1, <1>2

(* -------------------------- events and their batches ---------------------- *)

\* The fields of an event, by its type.
LEMMA EventFields ==
  ASSUME NEW e \in Events
  PROVE  /\ e.type \in SoloTypes \cup ClaimTypes \cup PlainTypes \cup {"Rename"}
         /\ e.type = "StepInputClaim" => e.claim \in Claims
         /\ e.type \in {"Enqueued", "InboxItemRemoved"} => e.lane \in Lanes
         /\ e.type \in {"Claimed", "Discarded", "InboxReordered"} =>
              e.lane \in Lanes /\ e.msgs \in Seq(Msgs)
         /\ e.type \in {"Enqueued", "InboxItemRemoved", "InboxItemResumed", "InboxItemSteered"} =>
              e.msg \in Msgs
         /\ e.type = "Enqueued" => e.held \in BOOLEAN
         /\ e.type = "InboxPaused" => e.ids \subseteq Msgs
         /\ e.type \in {"TurnStart", "StepStart"} => e.id \in 1..MaxSteps
         /\ e.type = "UserMessage" =>
              e.line \in [msg : Msgs, step : 1..MaxSteps] /\ e.line.msg \in Msgs
         /\ e.type = "AssistantMessage" => e.answer \in {"text", "tools"}
         /\ e.type \in {"AgentStatus", "SessionEnded"} => e.status \in Statuses
  BY DEF Events, SoloTypes, ClaimTypes, PlainTypes

\* The set of events of a kind.
Plain == {e \in Events : e.type \in PlainTypes}
Mid   == {e \in Events : e.type \in {"Claimed", "TurnStart", "StepStart"}}
Lines == {e \in Events : e.type = "UserMessage"}

\* The constructors of plain events make plain events,
LEMMA PlainMade ==
  /\ TurnEnd \in Plain /\ StepEnd \in Plain /\ Usage \in Plain
  /\ \A kind \in {"text", "tools"} : Assistant(kind) \in Plain
  /\ \A s \in Statuses : Status(s) \in Plain /\ SessionEnded(s) \in Plain
  /\ \A ids \in SUBSET Msgs : Paused(ids) \in Plain
  BY DEF Plain, PlainTypes, Events, TurnEnd, StepEnd, Usage, Assistant, Status, SessionEnded, Paused

\* of a discarded lane too.
LEMMA DiscardMade ==
  ASSUME Typed, NEW lane \in Lanes
  PROVE  Discarded(lane) \in Plain
  BY TypedBox DEF Discarded, Plain, PlainTypes, Events

\* The constructors of the events of a claim after its head.
LEMMA MidMade ==
  /\ \A lane \in Lanes, q \in Seq(Msgs) :
       Claimed(lane, q) \in Mid /\ Claimed(lane, q).type = "Claimed" /\ Claimed(lane, q).msgs = q
  /\ \A t \in 1..MaxSteps :
       /\ TurnStart(t) \in Mid /\ TurnStart(t).type = "TurnStart" /\ TurnStart(t).id = t
       /\ StepStart(t) \in Mid /\ StepStart(t).type = "StepStart" /\ StepStart(t).id = t
  BY DEF Mid, Events, Claimed, TurnStart, StepStart

\* The head of a claim.
LEMMA ClaimMade ==
  ASSUME NEW t \in 1..MaxSteps, NEW start \in BOOLEAN, NEW q \in Seq(Msgs), NEW r \in Seq(Msgs),
         NEW e, e = Claim(t, start, q, r)
  PROVE  /\ e \in Events /\ e.type = "StepInputClaim" /\ e.claim \in Claims
         /\ e.claim.turn = t /\ e.claim.start = start /\ ClaimSet(e.claim) = Range(q) \cup Range(r)
  BY DEF Claim, Events, Claims, ClaimSet

\* The messages of a claim, said one by one.
LEMMA LinesMade ==
  ASSUME NEW q \in Seq(Msgs), NEW s \in 1..MaxSteps
  PROVE  /\ UserMessages(q, s) \in Seq(Lines)
         /\ \A m : Says(UserMessages(q, s), m) <=> m \in Range(q)
         /\ IsInjective(q) => SaysOnce(UserMessages(q, s))
<1> DEFINE u == UserMessages(q, s)
<1>1. Len(q) \in Nat /\ DOMAIN q = 1..Len(q) /\ \A i \in DOMAIN q : q[i] \in Msgs
  OBVIOUS
<1>2. DOMAIN u = DOMAIN q /\ \A i \in DOMAIN q : u[i].type = "UserMessage" /\ u[i].line.msg = q[i]
  BY DEF UserMessages
<1>3. \A i \in DOMAIN q : u[i] \in Lines
  BY <1>1 DEF UserMessages, Lines, Events
<1>4. u \in [1..Len(q) -> Lines]
  BY <1>1, <1>3 DEF UserMessages
<1>5. u \in Seq(Lines)
  BY <1>1, <1>4
<1> HIDE DEF u
<1>6. \A m : Says(u, m) <=> m \in Range(q)
  BY <1>2 DEF Says, Range
<1>7. IsInjective(q) => SaysOnce(u)
  BY <1>2 DEF IsInjective, SaysOnce
<1> QED
  BY <1>5, <1>6, <1>7 DEF u

(* -------------------------------- batches --------------------------------- *)

\* An optional event is a sequence of none or one.
LEMMA OptSeq ==
  ASSUME NEW S, NEW c \in BOOLEAN, NEW e, c => e \in S
  PROVE  Opt(c, e) \in Seq(S) /\ Range(Opt(c, e)) = IF c THEN {e} ELSE {}
  BY DEF Opt, Range

\* A batch of one event.
LEMMA OneSeq ==
  ASSUME NEW S, NEW e \in S
  PROVE  <<e>> \in Seq(S) /\ Range(<<e>>) = {e} /\ Len(<<e>>) = 1 /\ <<e>> # <<>>
  BY DEF Range

\* Joining batches joins what they hold.
LEMMA JoinSeq ==
  ASSUME NEW S, NEW p \in Seq(S), NEW q \in Seq(S)
  PROVE  p \o q \in Seq(S) /\ Range(p \o q) = Range(p) \cup Range(q)
  BY ConcatProperties, RangeConcatenation

\* A batch is taken apart from its head.
LEMMA HeadAndTail ==
  ASSUME NEW S, NEW p \in Seq(S), p # <<>>
  PROVE  /\ Head(p) \in S /\ Tail(p) \in Seq(S) /\ Len(Tail(p)) = Len(p) - 1 /\ Len(p) \in Nat
         /\ Range(p) = {Head(p)} \cup Range(Tail(p))
         /\ InOrder(p) => /\ InOrder(Tail(p))
                          /\ \A e \in Range(Tail(p)) : Rank(Head(p)) <= Rank(e) /\ Rank(e) # 1
         /\ SaysOnce(p) => /\ SaysOnce(Tail(p))
                           /\ Head(p).type = "UserMessage" => ~Says(Tail(p), Head(p).line.msg)
<1>1. /\ Head(p) \in S /\ Tail(p) \in Seq(S) /\ Len(Tail(p)) = Len(p) - 1 /\ Len(p) \in Nat
      /\ \A i \in 1..Len(Tail(p)) : Tail(p)[i] = p[i + 1]
  BY HeadTailProperties
<1>2. Head(p) = p[1] /\ Len(p) >= 1 /\ DOMAIN p = 1..Len(p) /\ DOMAIN Tail(p) = 1..(Len(p) - 1)
  BY <1>1
<1>3. \A i \in DOMAIN Tail(p) : Tail(p)[i] = p[i + 1] /\ i + 1 \in DOMAIN p /\ i + 1 > 1
  BY <1>1, <1>2
<1>4. \A i \in DOMAIN p : i = 1 \/ (i - 1 \in DOMAIN Tail(p) /\ Tail(p)[i - 1] = p[i])
  BY <1>1, <1>2
<1>5. Range(p) = {Head(p)} \cup Range(Tail(p))
  <2>1. \A e \in Range(p) : e \in {Head(p)} \cup Range(Tail(p))
    BY <1>2, <1>4 DEF Range
  <2>2. \A e \in Range(Tail(p)) : e \in Range(p)
    BY <1>3 DEF Range
  <2>3. Head(p) \in Range(p)
    BY <1>1, <1>2 DEF Range
  <2> QED
    BY <2>1, <2>2, <2>3
<1>6. ASSUME InOrder(p)
      PROVE  /\ InOrder(Tail(p))
             /\ \A e \in Range(Tail(p)) : Rank(Head(p)) <= Rank(e) /\ Rank(e) # 1
  <2>1. InOrder(Tail(p))
    BY <1>2, <1>3, <1>6 DEF InOrder
  <2>2. \A i \in DOMAIN Tail(p) : Rank(Head(p)) <= Rank(Tail(p)[i]) /\ Rank(Tail(p)[i]) # 1
    BY <1>1, <1>2, <1>3, <1>6 DEF InOrder
  <2> QED
    BY <2>1, <2>2 DEF Range
<1>7. ASSUME SaysOnce(p)
      PROVE  /\ SaysOnce(Tail(p))
             /\ Head(p).type = "UserMessage" => ~Says(Tail(p), Head(p).line.msg)
  <2>1. SaysOnce(Tail(p))
    BY <1>2, <1>3, <1>7 DEF SaysOnce
  <2>2. ASSUME Head(p).type = "UserMessage", NEW i \in DOMAIN Tail(p),
               Tail(p)[i].type = "UserMessage", Tail(p)[i].line.msg = Head(p).line.msg
        PROVE  FALSE
    BY <1>1, <1>2, <1>3, <1>7, <2>2 DEF SaysOnce
  <2> QED
    BY <2>1, <2>2 DEF Says, Range
<1> QED
  BY <1>1, <1>5, <1>6, <1>7

(* ----------------------- an event reaches the inbox ----------------------- *)

QueuedIn(b) == Range(b.nextTurn) \cup Range(b.nextStep)
ApartIn(b)  == Range(b.nextTurn) \cap Range(b.nextStep) = {}

\* A message appended to a lane.
LEMMA AppendRange ==
  ASSUME NEW q \in Seq(Msgs), NEW m \in Msgs
  PROVE  Append(q, m) \in Seq(Msgs) /\ Range(Append(q, m)) = Range(q) \cup {m}
<1>1. Append(q, m) = q \o <<m>>
  OBVIOUS
<1>2. <<m>> \in Seq(Msgs) /\ Range(<<m>>) = {m}
  BY OneSeq
<1>3. q \o <<m>> \in Seq(Msgs) /\ Range(q \o <<m>>) = Range(q) \cup Range(<<m>>)
  BY <1>2, JoinSeq, ZenonT(30)
<1> QED
  BY <1>1, <1>2, <1>3

\* When one lane gains or loses messages, so does the inbox.
LEMMA LaneGains ==
  ASSUME NEW b \in Box, NEW r \in Box, NEW lane \in Lanes, NEW S,
         \A l \in Lanes \ {lane} : r[l] = b[l], Range(r[lane]) = Range(b[lane]) \cup S
  PROVE  /\ QueuedIn(r) = QueuedIn(b) \cup S
         /\ ApartIn(b) /\ S \cap (QueuedIn(b) \ Range(b[lane])) = {} => ApartIn(r)
<1>1. CASE lane = "nextTurn"
  BY <1>1, "nextStep" \in Lanes \ {lane} DEF QueuedIn, ApartIn, Lanes
<1>2. CASE lane = "nextStep"
  BY <1>2, "nextTurn" \in Lanes \ {lane} DEF QueuedIn, ApartIn, Lanes
<1> QED
  BY <1>1, <1>2 DEF Lanes

\* A lane that loses messages: what is queued loses them.
LEMMA LaneLoses ==
  ASSUME NEW b \in Box, NEW r \in Box, NEW lane \in Lanes, NEW S,
         \A l \in Lanes \ {lane} : r[l] = b[l], Range(r[lane]) = Range(b[lane]) \ S,
         ApartIn(b), S \subseteq Range(b[lane])
  PROVE  QueuedIn(r) = QueuedIn(b) \ S /\ ApartIn(r)
<1>1. CASE lane = "nextTurn"
  BY <1>1, "nextStep" \in Lanes \ {lane} DEF QueuedIn, ApartIn, Lanes
<1>2. CASE lane = "nextStep"
  BY <1>2, "nextTurn" \in Lanes \ {lane} DEF QueuedIn, ApartIn, Lanes
<1> QED
  BY <1>1, <1>2 DEF Lanes

\* A lane that keeps its messages: what is queued stays.
LEMMA LaneKeeps ==
  ASSUME NEW b \in Box, NEW r \in Box, NEW lane \in Lanes,
         \A l \in Lanes \ {lane} : r[l] = b[l], Range(r[lane]) = Range(b[lane]), ApartIn(b)
  PROVE  QueuedIn(r) = QueuedIn(b) /\ ApartIn(r)
<1>1. CASE lane = "nextTurn"
  BY <1>1, "nextStep" \in Lanes \ {lane} DEF QueuedIn, ApartIn, Lanes
<1>2. CASE lane = "nextStep"
  BY <1>2, "nextTurn" \in Lanes \ {lane} DEF QueuedIn, ApartIn, Lanes
<1> QED
  BY <1>1, <1>2 DEF Lanes

\* A lane is not one of the other fields of the inbox.
LEMMA LaneNotPaused == \A l \in Lanes : l # "paused" /\ l # "seen"
  BY DEF Lanes

\* What an event of the inbox does to what is queued, seen and paused.
Moves(gone, new, p) ==
  /\ inbox' \in Box /\ inbox'.paused = p /\ inbox'.seen = inbox.seen \cup new
  /\ Queued' = (Queued \ gone) \cup new /\ ApartIn(inbox')
  /\ UNCHANGED <<log, said, status, ended, archived>>

\* A submission queues its message and, unless it is held, lets it run.
LEMMA EnqueuedMoves ==
  ASSUME Typed, ApartIn(inbox), Queued \subseteq inbox.seen,
         NEW e \in Events, e.type = "Enqueued", ApplyInbox(e), Fits(e)
  PROVE  /\ Moves({}, {e.msg}, IF e.held THEN inbox.paused \cup {e.msg} ELSE inbox.paused)
         /\ told' = IF e.held THEN told ELSE told \cup {e.msg}
         /\ UNCHANGED dropped
<1>1. e.lane \in Lanes /\ e.msg \in Msgs /\ inbox \in Box /\ inbox[e.lane] \in Seq(Msgs)
      /\ e.msg \notin inbox.seen
  BY EventFields, TypedBox DEF Fits
<1>2. PICK q : q = Append(inbox[e.lane], e.msg)
  OBVIOUS
<1>3. PICK s, p : s = inbox.seen \cup {e.msg}
           /\ p = IF e.held THEN inbox.paused \cup {e.msg} ELSE inbox.paused
  OBVIOUS
<1>4. q \in Seq(Msgs) /\ Range(q) = Range(inbox[e.lane]) \cup {e.msg}
  BY <1>1, <1>2, AppendRange
<1>5. s \in SUBSET Msgs /\ p \in SUBSET Msgs
  BY <1>1, <1>3 DEF Box
<1>6. /\ inbox' = [inbox EXCEPT ![e.lane] = Append(@, e.msg), !.seen = @ \cup {e.msg},
                                !.paused = IF e.held THEN @ \cup {e.msg} ELSE @]
      /\ told' = IF e.held THEN told ELSE told \cup {e.msg}
      /\ UNCHANGED <<dropped, log, said, status, ended, archived>>
  BY DEF ApplyInbox
<1>7. inbox' = LanedSeen(inbox, e.lane, Append(inbox[e.lane], e.msg), inbox.seen \cup {e.msg},
                         IF e.held THEN inbox.paused \cup {e.msg} ELSE inbox.paused)
  <2>1. e.lane \in DOMAIN inbox
    BY <1>1 DEF Box, Lanes
  <2> QED
    BY <1>6, <2>1 DEF LanedSeen
<1>8. inbox' = LanedSeen(inbox, e.lane, q, s, p)
  BY <1>2, <1>3, <1>7
<1>9. /\ inbox' \in Box /\ inbox'.seen = s /\ inbox'.paused = p
      /\ inbox'[e.lane] = q /\ \A l \in Lanes \ {e.lane} : inbox'[l] = inbox[l]
  BY <1>1, <1>4, <1>5, <1>8, LanedSeenBox
<1>10. {e.msg} \cap QueuedIn(inbox) = {}
  BY <1>1 DEF QueuedIn, Queued
<1>11. QueuedIn(inbox') = QueuedIn(inbox) \cup {e.msg} /\ ApartIn(inbox')
  <2>1. PICK S : S = {e.msg}
    OBVIOUS
  <2>2. /\ Range(inbox'[e.lane]) = Range(inbox[e.lane]) \cup S
        /\ S \cap (QueuedIn(inbox) \ Range(inbox[e.lane])) = {}
    BY <1>4, <1>9, <1>10, <2>1
  <2>3. QueuedIn(inbox') = QueuedIn(inbox) \cup S /\ ApartIn(inbox')
    BY <1>1, <1>9, <2>2, LaneGains
  <2> QED
    BY <2>1, <2>3
<1>12. Queued' = QueuedIn(inbox') /\ Queued = QueuedIn(inbox)
  BY DEF Queued, QueuedIn
<1> QED
  BY <1>3, <1>6, <1>9, <1>11, <1>12 DEF Moves

\* A claim takes its messages out of a lane.
LEMMA ClaimedMoves ==
  ASSUME Typed, ApartIn(inbox), NEW e \in Events, e.type = "Claimed", ApplyInbox(e), Fits(e)
  PROVE  /\ Moves(Range(e.msgs), {}, inbox.paused \ Range(e.msgs))
         /\ Range(e.msgs) \subseteq Queued
         /\ UNCHANGED <<told, dropped>>
<1>1. e.lane \in Lanes /\ e.msgs \in Seq(Msgs) /\ inbox \in Box /\ inbox[e.lane] \in Seq(Msgs)
      /\ Range(inbox[e.lane]) \subseteq Queued
  BY EventFields, TypedBox
<1>2. Range(e.msgs) \subseteq Range(inbox[e.lane])
  <2>1. CASE e.lane = "nextTurn"
    BY <2>1, TurnClaimOf DEF Fits
  <2>2. CASE e.lane = "nextStep"
    BY <2>2, StepClaimOf DEF Fits
  <2> QED
    BY <1>1, <2>1, <2>2 DEF Lanes
<1>3. PICK rest \in Kept(inbox[e.lane], Msgs \ Range(e.msgs)) :
        inbox' = [inbox EXCEPT ![e.lane] = rest, !.paused = @ \ Range(e.msgs)]
  BY DEF ApplyInbox
<1>4. UNCHANGED <<told, dropped, log, said, status, ended, archived>>
  BY DEF ApplyInbox
<1>5. PICK p : p = inbox.paused \ Range(e.msgs)
  OBVIOUS
<1>6. p \in SUBSET Msgs /\ rest \in Seq(Msgs)
  BY <1>1, <1>5, KeptOf DEF Box
<1>7. Range(rest) = Range(inbox[e.lane]) \ Range(e.msgs)
  <2>1. Range(rest) = Range(inbox[e.lane]) \cap (Msgs \ Range(e.msgs))
    BY KeptOf
  <2>2. Range(inbox[e.lane]) \subseteq Msgs
    BY <1>1, RangeOfSeq
  <2> QED
    BY <2>1, <2>2
<1>8. inbox' = LanedPaused(inbox, e.lane, rest, p)
  <2>1. e.lane \in DOMAIN inbox
    BY <1>1 DEF Box, Lanes
  <2> QED
    BY <1>1, <1>3, <1>5, <2>1, LaneNotPaused DEF LanedPaused
<1>9. /\ inbox' \in Box /\ inbox'.seen = inbox.seen /\ inbox'.paused = p
      /\ inbox'[e.lane] = rest /\ \A l \in Lanes \ {e.lane} : inbox'[l] = inbox[l]
  BY <1>1, <1>6, <1>8, LanedPausedBox
<1>10. QueuedIn(inbox') = QueuedIn(inbox) \ Range(e.msgs) /\ ApartIn(inbox')
  BY <1>1, <1>2, <1>7, <1>9, LaneLoses
<1>11. Queued' = QueuedIn(inbox') /\ Queued = QueuedIn(inbox)
  BY DEF Queued, QueuedIn
<1> QED
  BY <1>1, <1>2, <1>4, <1>5, <1>9, <1>10, <1>11 DEF Moves

\* A discarded lane is empty and its messages are dropped.
LEMMA DiscardedMoves ==
  ASSUME Typed, ApartIn(inbox), NEW e \in Events, e.type = "Discarded", ApplyInbox(e), Fits(e)
  PROVE  /\ Moves(Range(e.msgs), {}, inbox.paused)
         /\ Range(e.msgs) \subseteq Queued /\ dropped' = dropped \cup Range(e.msgs)
         /\ UNCHANGED told
<1>1. e.lane \in Lanes /\ inbox \in Box /\ inbox[e.lane] \in Seq(Msgs)
      /\ Range(inbox[e.lane]) \subseteq Queued /\ e.msgs = inbox[e.lane]
  BY EventFields, TypedBox DEF Fits
<1>2. /\ inbox' = [inbox EXCEPT ![e.lane] = <<>>] /\ dropped' = dropped \cup Range(e.msgs)
      /\ UNCHANGED <<told, log, said, status, ended, archived>>
  BY DEF ApplyInbox
<1>3. inbox' = Laned(inbox, e.lane, <<>>) /\ <<>> \in Seq(Msgs)
  BY <1>2 DEF Laned
<1>4. /\ inbox' \in Box /\ inbox'.seen = inbox.seen /\ inbox'.paused = inbox.paused
      /\ inbox'[e.lane] = <<>> /\ \A l \in Lanes \ {e.lane} : inbox'[l] = inbox[l]
  BY <1>1, <1>3, LanedBox, ZenonT(30)
<1>5. PICK S : S = Range(e.msgs)
  OBVIOUS
<1>6. Range(inbox'[e.lane]) = Range(inbox[e.lane]) \ S /\ S \subseteq Range(inbox[e.lane])
  BY <1>1, <1>4, <1>5 DEF Range
<1>8. QueuedIn(inbox') = QueuedIn(inbox) \ S /\ ApartIn(inbox')
  BY <1>1, <1>4, <1>6, LaneLoses
<1>7. Queued' = QueuedIn(inbox') /\ Queued = QueuedIn(inbox)
  BY DEF Queued, QueuedIn
<1> QED
  BY <1>1, <1>2, <1>4, <1>5, <1>7, <1>8 DEF Moves

\* A removed message leaves its lane and is dropped.
LEMMA RemovedMoves ==
  ASSUME Typed, ApartIn(inbox), NEW e \in Events, e.type = "InboxItemRemoved", ApplyInbox(e),
         e.msg \in Range(inbox[e.lane])
  PROVE  /\ Moves({e.msg}, {}, inbox.paused \ {e.msg})
         /\ e.msg \in Queued /\ dropped' = dropped \cup {e.msg} /\ UNCHANGED told
<1>1. e.lane \in Lanes /\ inbox \in Box /\ inbox[e.lane] \in Seq(Msgs)
      /\ Range(inbox[e.lane]) \subseteq Queued /\ Range(inbox[e.lane]) \subseteq Msgs
  BY EventFields, TypedBox
<1>2. PICK rest \in Kept(inbox[e.lane], Msgs \ {e.msg}) :
        inbox' = [inbox EXCEPT ![e.lane] = rest, !.paused = @ \ {e.msg}]
  BY DEF ApplyInbox
<1>3. dropped' = dropped \cup {e.msg} /\ UNCHANGED <<told, log, said, status, ended, archived>>
  BY DEF ApplyInbox
<1>4. PICK p, S : p = inbox.paused \ {e.msg} /\ S = {e.msg}
  OBVIOUS
<1>5. p \in SUBSET Msgs /\ rest \in Seq(Msgs)
  BY <1>1, <1>4, KeptOf DEF Box
<1>6. Range(rest) = Range(inbox[e.lane]) \ S
  <2>1. Range(rest) = Range(inbox[e.lane]) \cap (Msgs \ {e.msg})
    BY KeptOf
  <2> QED
    BY <1>1, <1>4, <2>1
<1>7. inbox' = LanedPaused(inbox, e.lane, rest, p)
  <2>1. e.lane \in DOMAIN inbox
    BY <1>1 DEF Box, Lanes
  <2> QED
    BY <1>1, <1>2, <1>4, <2>1, LaneNotPaused DEF LanedPaused
<1>8. /\ inbox' \in Box /\ inbox'.seen = inbox.seen /\ inbox'.paused = p
      /\ inbox'[e.lane] = rest /\ \A l \in Lanes \ {e.lane} : inbox'[l] = inbox[l]
  BY <1>1, <1>5, <1>7, LanedPausedBox
<1>9. Range(inbox'[e.lane]) = Range(inbox[e.lane]) \ S /\ S \subseteq Range(inbox[e.lane])
  BY <1>4, <1>6, <1>8
<1>10. QueuedIn(inbox') = QueuedIn(inbox) \ S /\ ApartIn(inbox')
  BY <1>1, <1>8, <1>9, LaneLoses
<1>11. Queued' = QueuedIn(inbox') /\ Queued = QueuedIn(inbox)
  BY DEF Queued, QueuedIn
<1> QED
  BY <1>1, <1>3, <1>4, <1>8, <1>10, <1>11 DEF Moves

\* A steered message changes lanes: what is queued stays.
LEMMA SteeredMoves ==
  ASSUME Typed, ApartIn(inbox), NEW e \in Events, e.type = "InboxItemSteered", ApplyInbox(e),
         e.msg \in Range(inbox.nextTurn)
  PROVE  Moves({}, {}, inbox.paused) /\ UNCHANGED <<told, dropped>>
<1>1. inbox \in Box /\ inbox.nextTurn \in Seq(Msgs) /\ inbox.nextStep \in Seq(Msgs)
      /\ Range(inbox.nextTurn) \subseteq Msgs /\ e.msg \in Msgs
  BY EventFields, TypedBox, RangeOfSeq
<1>2. PICK rest \in Kept(inbox.nextTurn, Msgs \ {e.msg}) :
        inbox' = [inbox EXCEPT !.nextTurn = rest, !.nextStep = Append(@, e.msg)]
  BY DEF ApplyInbox
<1>3. UNCHANGED <<told, dropped, log, said, status, ended, archived>>
  BY DEF ApplyInbox
<1>4. PICK q : q = Append(inbox.nextStep, e.msg)
  OBVIOUS
<1>5. q \in Seq(Msgs) /\ Range(q) = Range(inbox.nextStep) \cup {e.msg}
  BY <1>1, <1>4, AppendRange
<1>6. rest \in Seq(Msgs) /\ Range(rest) = Range(inbox.nextTurn) \ {e.msg}
  <2>1. rest \in Seq(Msgs) /\ Range(rest) = Range(inbox.nextTurn) \cap (Msgs \ {e.msg})
    BY KeptOf
  <2> QED
    BY <1>1, <2>1
<1>7. inbox' = SteeredBox(inbox, rest, q)
  BY <1>1, <1>2, <1>4 DEF SteeredBox, Box
<1>8. /\ inbox' \in Box /\ inbox'.seen = inbox.seen /\ inbox'.paused = inbox.paused
      /\ inbox'.nextTurn = rest /\ inbox'.nextStep = q
  <2>1. inbox \in Box /\ rest \in Seq(Msgs) /\ q \in Seq(Msgs)
    BY <1>1, <1>5, <1>6
  <2> QED
    BY <1>7, <2>1, SteeredBoxBox, ZenonT(30)
<1>9. Queued' = Queued /\ ApartIn(inbox')
  BY <1>5, <1>6, <1>8 DEF Queued, ApartIn
<1> QED
  BY <1>3, <1>8, <1>9 DEF Moves

\* An order of a lane changes nothing of what is queued.
LEMMA ReorderedMoves ==
  ASSUME Typed, ApartIn(inbox), NEW e \in Events, e.type = "InboxReordered", ApplyInbox(e),
         Range(e.msgs) = Range(inbox[e.lane])
  PROVE  Moves({}, {}, inbox.paused) /\ UNCHANGED <<told, dropped>>
<1>1. e.lane \in Lanes /\ inbox \in Box /\ inbox[e.lane] \in Seq(Msgs) /\ e.msgs \in Seq(Msgs)
  BY EventFields, TypedBox
<1>2. /\ inbox' = [inbox EXCEPT ![e.lane] = e.msgs]
      /\ UNCHANGED <<told, dropped, log, said, status, ended, archived>>
  BY DEF ApplyInbox
<1>3. inbox' = Laned(inbox, e.lane, e.msgs)
  BY <1>2 DEF Laned
<1>4. /\ inbox' \in Box /\ inbox'.seen = inbox.seen /\ inbox'.paused = inbox.paused
      /\ inbox'[e.lane] = e.msgs /\ \A l \in Lanes \ {e.lane} : inbox'[l] = inbox[l]
  BY <1>1, <1>3, LanedBox
<1>5. Range(inbox'[e.lane]) = Range(inbox[e.lane])
  BY <1>4
<1>6. QueuedIn(inbox') = QueuedIn(inbox) /\ ApartIn(inbox')
  BY <1>1, <1>4, <1>5, LaneKeeps
<1>7. Queued' = QueuedIn(inbox') /\ Queued = QueuedIn(inbox)
  BY DEF Queued, QueuedIn
<1> QED
  BY <1>2, <1>4, <1>6, <1>7 DEF Moves

\* A pause and a resumption touch what is paused, and what the user let run.
LEMMA PausedMoves ==
  ASSUME Typed, ApartIn(inbox), NEW e \in Events, ApplyInbox(e)
  PROVE  /\ e.type = "InboxPaused" =>
              Moves({}, {}, inbox.paused \cup e.ids) /\ told' = told \ e.ids /\ UNCHANGED dropped
         /\ e.type = "InboxItemResumed" =>
              /\ Moves({}, {}, inbox.paused \ {e.msg}) /\ told' = told \cup {e.msg}
              /\ UNCHANGED dropped
<1> SUFFICES ASSUME e.type \in {"InboxPaused", "InboxItemResumed"},
                    NEW p, p = IF e.type = "InboxPaused" THEN inbox.paused \cup e.ids
                               ELSE inbox.paused \ {e.msg}
             PROVE  Moves({}, {}, p)
  BY DEF ApplyInbox
<1>1. inbox \in Box /\ p \in SUBSET Msgs
  BY EventFields, TypedBox
<1>2. inbox' = [inbox EXCEPT !.paused = p] /\ UNCHANGED <<log, said, status, ended, archived>>
  <2>1. UNCHANGED <<log, said, status, ended, archived>>
    BY DEF ApplyInbox
  <2>2. e.type = "InboxPaused" => inbox' = [inbox EXCEPT !.paused = @ \cup e.ids]
    BY DEF ApplyInbox
  <2>3. e.type = "InboxItemResumed" => inbox' = [inbox EXCEPT !.paused = @ \ {e.msg}]
    BY DEF ApplyInbox
  <2> QED
    BY <2>1, <2>2, <2>3
<1>3. /\ inbox' \in Box /\ inbox'.seen = inbox.seen /\ inbox'.paused = p
      /\ \A l \in Lanes : inbox'[l] = inbox[l]
  BY <1>1, <1>2 DEF Box, Lanes
<1>4. Queued' = Queued /\ ApartIn(inbox')
  BY <1>3, "nextTurn" \in Lanes, "nextStep" \in Lanes DEF Queued, ApartIn, Lanes
<1> QED
  BY <1>2, <1>3, <1>4 DEF Moves

(* ------------------- claims, and whether they are complete ----------------- *)

\* The messages of a claim, as a set.
LEMMA ClaimRange ==
  ASSUME NEW c \in Claims
  PROVE  Range(ClaimMsgs(c)) = ClaimSet(c) /\ ClaimSet(c) \subseteq Msgs
<1>1. c.turnMsgs \in Seq(Msgs) /\ c.stepMsgs \in Seq(Msgs)
  BY DEF Claims
<1> QED
  BY <1>1, JoinSeq, RangeOfSeq DEF ClaimMsgs, ClaimSet

\* No claim is torn exactly when the repair finds none unfinished.
LEMMA CompleteIs ==
  ASSUME Typed
  PROVE  /\ Complete <=> Unfinished = {}
         /\ ClaimedMsgs = UNION {ClaimSet(log.claims[k]) : k \in DOMAIN log.claims}
<1>1. \A k \in DOMAIN log.claims : Range(ClaimMsgs(log.claims[k])) = ClaimSet(log.claims[k])
  BY TypedBox, ClaimRange
<1>2. ASSUME NEW k \in DOMAIN log.claims
      PROVE  k \notin Unfinished <=> Done(log.claims[k], k)
  BY <1>1, <1>2 DEF Unfinished, Done
<1>3. Complete <=> Unfinished = {}
  BY <1>2 DEF Complete, Unfinished
<1>4. ClaimedMsgs = UNION {ClaimSet(log.claims[k]) : k \in DOMAIN log.claims}
  BY <1>1 DEF ClaimedMsgs
<1> QED
  BY <1>3, <1>4

\* A complete claim has left the queue for the transcript.
LEMMA CompleteClaims ==
  ASSUME Typed, Complete
  PROVE  ClaimedMsgs \cap Queued = {} /\ ClaimedMsgs \subseteq SaidMsgs
  BY CompleteIs DEF Complete, Done

\* A claim appended to the log is the claim of the next step.
LEMMA ClaimAdded ==
  ASSUME Typed, NEW c \in Claims, log'.claims = Append(log.claims, c)
  PROVE  /\ ClaimedMsgs' = ClaimedMsgs \cup ClaimSet(c)
         /\ NextStepId \notin DOMAIN log.claims
         /\ DOMAIN log'.claims = DOMAIN log.claims \cup {NextStepId}
         /\ log'.claims[NextStepId] = c
         /\ \A k \in DOMAIN log.claims : log'.claims[k] = log.claims[k]
<1>1. log.claims \in Seq(Claims) /\ Len(log.claims) \in Nat
  BY TypedBox DEF Logs
<1>2. /\ NextStepId = Len(log.claims) + 1
      /\ DOMAIN log.claims = 1..Len(log.claims) /\ DOMAIN log'.claims = 1..(Len(log.claims) + 1)
      /\ log'.claims[NextStepId] = c
      /\ \A k \in DOMAIN log.claims : log'.claims[k] = log.claims[k]
  BY <1>1 DEF NextStepId
<1>3. /\ NextStepId \notin DOMAIN log.claims
      /\ DOMAIN log'.claims = DOMAIN log.claims \cup {NextStepId}
  BY <1>1, <1>2
<1>4. ClaimedMsgs' = ClaimedMsgs \cup ClaimSet(c)
  <2>1. \A k \in DOMAIN log'.claims : Range(ClaimMsgs(log'.claims[k])) = ClaimSet(log'.claims[k])
    BY <1>2, <1>3, TypedBox, ClaimRange
  <2>2. ClaimedMsgs' = UNION {ClaimSet(log'.claims[k]) : k \in DOMAIN log'.claims}
    BY <2>1 DEF ClaimedMsgs
  <2>3. PICK s : s = log'.claims
    OBVIOUS
  <2>4. \A k \in DOMAIN s : k \in DOMAIN log.claims \/ k = NextStepId
    BY <1>3, <2>3
  <2>5. PICK A, B : /\ A = UNION {ClaimSet(s[k]) : k \in DOMAIN s}
                    /\ B = UNION {ClaimSet(log.claims[k]) : k \in DOMAIN log.claims}
    OBVIOUS
  <2>6. NextStepId \in DOMAIN s /\ s[NextStepId] = c /\ \A k \in DOMAIN log.claims :
          k \in DOMAIN s /\ s[k] = log.claims[k]
    BY <1>2, <1>3, <2>3
  <2>7. \A m : m \in A <=> \E k \in DOMAIN s : m \in ClaimSet(s[k])
    BY <2>5
  <2>8. \A m : m \in B <=> \E k \in DOMAIN log.claims : m \in ClaimSet(log.claims[k])
    BY <2>5
  <2>9. \A m : m \in A <=> m \in B \/ m \in ClaimSet(c)
    BY <2>4, <2>6, <2>7, <2>8
  <2>10. ClaimedMsgs' = A /\ ClaimedMsgs = B
    BY <2>2, <2>3, <2>5, CompleteIs
  <2> QED
    BY <2>9, <2>10
<1> QED
  BY <1>2, <1>3, <1>4

\* A line added to the transcript says its message, and once if it was not said.
LEMMA LineAdded ==
  ASSUME Typed, NEW line \in [msg : Msgs, step : 1..MaxSteps], said' = Append(said, line)
  PROVE  /\ SaidMsgs' = SaidMsgs \cup {line.msg}
         /\ (/\ \A i, j \in DOMAIN said : said[i].msg = said[j].msg => i = j
             /\ line.msg \notin SaidMsgs)
              => \A i, j \in DOMAIN said' : said'[i].msg = said'[j].msg => i = j
<1>1. said \in Seq([msg : Msgs, step : 1..MaxSteps]) /\ Len(said) \in Nat
  BY DEF Typed, TypeOK
<1>2. /\ DOMAIN said = 1..Len(said) /\ DOMAIN said' = 1..(Len(said) + 1)
      /\ said'[Len(said) + 1] = line /\ \A i \in DOMAIN said : said'[i] = said[i]
  BY <1>1
<1>3. DOMAIN said' = DOMAIN said \cup {Len(said) + 1} /\ Len(said) + 1 \notin DOMAIN said
  BY <1>1, <1>2
<1>4. SaidMsgs' = SaidMsgs \cup {line.msg}
  <2>1. \A m : (\E i \in DOMAIN said' : m = said'[i].msg) <=>
               ((\E i \in DOMAIN said : m = said[i].msg) \/ m = line.msg)
    BY <1>2, <1>3
  <2> QED
    BY <2>1 DEF SaidMsgs
<1> QED
  BY <1>2, <1>3, <1>4 DEF SaidMsgs

\* Complete claims stay complete while the record grows around them.
LEMMA CompleteStays ==
  ASSUME Typed, Complete, log'.claims = log.claims, log.turns \subseteq log'.turns,
         log.steps \subseteq log'.steps, said' = said, Queued' \cap ClaimedMsgs = {}
  PROVE  Complete'
<1>1. SaidMsgs' = SaidMsgs
  BY DEF SaidMsgs
<1>2. ASSUME NEW k \in DOMAIN log.claims
      PROVE  Done(log.claims[k], k)'
  <2>1. Done(log.claims[k], k) /\ ClaimSet(log.claims[k]) \cap Queued' = {}
    BY <1>2, CompleteIs DEF Complete
  <2> QED
    BY <1>1, <2>1 DEF Done
<1> QED
  BY <1>2 DEF Complete

(* ------------------------- the rest of the batch -------------------------- *)

\* Behind an event that belongs to no claim.
LEMMA OtherTail ==
  ASSUME Typed, Batch, pending # <<>>, pending' = Tail(pending), Complete',
         Head(pending).type \notin ClaimTypes, Head(pending).type = "SessionEnded" => ended',
         ended => ended' \/ Head(pending).type \in SoloTypes
  PROVE  /\ Batch' /\ Complete /\ Ready(pending, Head(pending))
         /\ \A e \in Range(pending') : e.type \notin ClaimTypes
<1> DEFINE e == Head(pending)
<1>1. /\ e \in Events /\ pending' \in Seq(Events) /\ Len(pending') = Len(pending) - 1
      /\ Len(pending) \in Nat
      /\ Range(pending) = {e} \cup Range(pending')
      /\ InOrder(pending') /\ SaysOnce(pending')
  BY HeadAndTail DEF Typed, Batch, Fitting
<1>2. Complete /\ \A f \in Range(pending) : f.type \notin ClaimTypes
  BY <1>1 DEF Batch, Fitting
<1>3. \A f \in Range(pending) : Ready(pending, f)
  BY DEF Batch, Fitting
<1>4. ASSUME NEW f \in Range(pending')
      PROVE  Ready(pending, f)' /\ Sound(pending, f)'
  <2>1. Ready(pending, f) /\ f.type \notin ClaimTypes
    BY <1>1, <1>2, <1>3, <1>4
  <2>2. f.type \notin SoloTypes
    <3>1. f.type \in SoloTypes => Len(pending') = 0
      BY <1>1, <2>1 DEF Ready
    <3>2. Len(pending') # 0
      BY <1>1, <1>4 DEF Range
    <3> QED
      BY <3>1, <3>2
  <2>3. e.type \notin SoloTypes
    <3>1. e.type \in SoloTypes => Len(pending') = 0
      BY <1>1, <1>3 DEF Ready
    <3>2. Len(pending') # 0
      BY <1>1, <1>4 DEF Range
    <3> QED
      BY <3>1, <3>2
  <2>4. f.type = "Rename" => ended' \/ Has(pending', "SessionEnded")
    BY <1>1, <2>1, <2>3 DEF Ready, Has
  <2>5. f.type # "Enqueued" /\ f.type # "InboxItemSteered" /\ f.type # "InboxItemRemoved"
        /\ f.type # "InboxReordered"
    BY <2>2 DEF SoloTypes
  <2> QED
    BY <2>1, <2>2, <2>4, <2>5 DEF Ready, Sound, ClaimTypes
<1>5. \A m : ~Says(pending', m) /\ ~Takes(pending', m)
  BY <1>1, <1>2 DEF Says, Takes, ClaimTypes
<1>6. Batch'
  <2>1. \A f \in Range(pending') : f.type \notin ClaimTypes
    BY <1>1, <1>2
  <2> QED
    BY <1>1, <1>4, <1>5, <2>1 DEF Batch, Fitting
<1> QED
  BY <1>1, <1>2, <1>3, <1>6

\* An event of the inbox that no claim wrote.
LEMMA InboxWrite ==
  ASSUME Typed, Mail, pending # <<>>, pending' = Tail(pending), loading' = loading,
         Head(pending).type \notin ClaimTypes, ~archived,
         NEW gone \in SUBSET Queued, NEW new \in SUBSET Msgs, NEW p, Moves(gone, new, p),
         new \cap inbox.seen = {}, p \subseteq inbox.seen \cup new, dropped' = dropped \cup gone,
         Head(pending).type # "SessionEnded",
         ~loading => Queued' \ p \subseteq told',
         ended => Queued' \ p \subseteq Unpaused /\ (new = {} \/ FailedRoot)
  PROVE  Mail'
<1>1. Complete
  <2>1. Head(pending) \in Range(pending)
    BY HeadAndTail DEF Typed
  <2> QED
    BY <2>1 DEF Mail, Batch, Fitting
<1>2. /\ log' = log /\ said' = said /\ SaidMsgs' = SaidMsgs /\ ClaimedMsgs' = ClaimedMsgs
      /\ UNCHANGED <<status, ended, archived>>
  BY DEF Moves, SaidMsgs, ClaimedMsgs
<1>3. Queued' = (Queued \ gone) \cup new /\ inbox'.paused = p /\ inbox'.seen = inbox.seen \cup new
      /\ Range(inbox'.nextTurn) \cap Range(inbox'.nextStep) = {}
  BY DEF Moves, ApartIn
<1>4. /\ inbox.seen = Queued \cup ClaimedMsgs \cup dropped
      /\ dropped \cap (Queued \cup ClaimedMsgs) = {}
      /\ SaidMsgs \subseteq ClaimedMsgs /\ SaidMsgs \cap Queued = {}
      /\ \A i, j \in DOMAIN said : said[i].msg = said[j].msg => i = j
      /\ ClaimedMsgs \cap Queued = {}
  BY <1>1, CompleteClaims DEF Mail, Accounts
<1>5. Accounts'
  <2>1. inbox'.seen = Queued' \cup ClaimedMsgs' \cup dropped'
        /\ dropped' \cap (Queued' \cup ClaimedMsgs') = {}
    BY <1>2, <1>3, <1>4
  <2>2. inbox'.paused \subseteq inbox'.seen /\ SaidMsgs' \subseteq ClaimedMsgs'
        /\ SaidMsgs' \cap Queued' = {}
    BY <1>2, <1>3, <1>4
  <2> QED
    BY <1>2, <1>3, <1>4, <2>1, <2>2 DEF Accounts
<1>6. Complete'
  BY <1>1, <1>2, <1>3, <1>4, CompleteStays
<1>7. Batch' /\ \A e \in Range(pending') : e.type \notin ClaimTypes
  BY <1>2, <1>6, OtherTail DEF Mail
<1>8. Service'
  <2>1. ~loading' => \A k \in DOMAIN log'.claims : Follows(pending, log.claims[k], k)'
    BY <1>2, <1>6 DEF Complete, Done, Follows
  <2>2. loading' => \A e \in Range(pending') : e.type \in LoadTypes
    BY HeadAndTail DEF Mail, Service, Typed
  <2>3. ~loading' => Unpaused' \subseteq told'
    BY <1>3 DEF Unpaused
  <2> QED
    BY <1>2, <2>1, <2>2, <2>3 DEF Service, Mail
<1>9. Final'
  <2>1. EndedHoldsInput'
    BY <1>2, <1>3 DEF Mail, Final, EndedHoldsInput, RetainsPausedInputs, Unpaused, InboxEmpty,
       FailedRoot
  <2> QED
    BY <1>2, <1>6, <2>1 DEF Mail, Final
<1> QED
  BY <1>5, <1>7, <1>8, <1>9 DEF Mail

\* The head of a batch is one of its events, and the tail is a batch.
LEMMA HeadIs ==
  ASSUME Typed, Batch, pending # <<>>
  PROVE  /\ Head(pending) \in Events /\ Head(pending) \in Range(pending)
         /\ Ready(pending, Head(pending)) /\ Sound(pending, Head(pending))
         /\ Tail(pending) \in Seq(Events) /\ Range(Tail(pending)) \subseteq Range(pending)
<1>1. pending \in Seq(Events)
  BY DEF Typed
<1>2. /\ Head(pending) \in Events /\ Tail(pending) \in Seq(Events)
      /\ Range(pending) = {Head(pending)} \cup Range(Tail(pending))
  BY <1>1, HeadAndTail
<1> QED
  BY <1>2 DEF Batch, Fitting

\* The user's operations, pauses and discarded input keep the mail.
LEMMA InboxMail ==
  ASSUME Typed, Mail, pending # <<>>, pending' = Tail(pending), loading' = loading,
         Accepts(Head(pending)), ApplyInbox(Head(pending)), Head(pending).type # "Claimed"
  PROVE  Mail'
<1> DEFINE e == Head(pending)
<1>1. e \in Events /\ Ready(pending, e)
  BY HeadIs DEF Mail
<1>2. /\ ApartIn(inbox) /\ Queued \subseteq inbox.seen /\ inbox.paused \subseteq inbox.seen
      /\ ~archived /\ Fits(e) /\ Admits(e) /\ (~loading => Unpaused \subseteq told)
  BY DEF Mail, Accounts, ApartIn, Accepts, Service
<1>3. ApplyInbox(e) /\ e.type # "Claimed"
  OBVIOUS
<1> HIDE DEF e
<1>4. ended => FailedRoot /\ e.type \in {"Enqueued", "InboxPaused"}
  BY <1>2, <1>3 DEF Admits, FailedAdmission, ApplyInbox
<1>5. ASSUME NEW gone \in SUBSET Queued, NEW new \in SUBSET Msgs, NEW p, Moves(gone, new, p),
             new \cap inbox.seen = {}, p \subseteq inbox.seen \cup new,
             dropped' = dropped \cup gone,
             ~loading => Queued' \ p \subseteq told',
             ended => Queued' \ p \subseteq Unpaused, new = {} \/ e.type = "Enqueued"
      PROVE  Mail'
  <2>1. e.type \notin ClaimTypes /\ e.type # "SessionEnded"
    BY <1>3 DEF ApplyInbox, ClaimTypes
  <2> QED
    BY <1>2, <1>4, <1>5, <2>1, InboxWrite DEF e
<1>6. CASE e.type = "Enqueued"
  <2>1. PICK p : p = IF e.held THEN inbox.paused \cup {e.msg} ELSE inbox.paused
    OBVIOUS
  <2>2. Moves({}, {e.msg}, p) /\ told' = (IF e.held THEN told ELSE told \cup {e.msg})
        /\ UNCHANGED dropped
    BY <1>1, <1>2, <1>3, <1>6, <2>1, EnqueuedMoves
  <2>3. e.msg \in Msgs /\ e.msg \notin inbox.seen
    BY <1>1, <1>2, <1>6, EventFields DEF Fits
  <2>4. Queued' = Queued \cup {e.msg}
    BY <2>2 DEF Moves
  <2>5. ~loading => Queued' \ p \subseteq told'
    BY <1>2, <2>1, <2>2, <2>4 DEF Unpaused
  <2>6. ended => Queued' \ p \subseteq Unpaused
    BY <1>1, <1>4, <1>6, <2>1, <2>4 DEF Unpaused, Ready
  <2>7. PICK new : new = {e.msg}
    OBVIOUS
  <2>8. Moves({}, new, p) /\ new \in SUBSET Msgs /\ new \cap inbox.seen = {}
        /\ p \subseteq inbox.seen \cup new
    BY <1>2, <2>1, <2>2, <2>3, <2>7
  <2>9. {} \in SUBSET Queued /\ dropped' = dropped \cup {}
    BY <2>2
  <2> QED
    BY <1>5, <1>6, <2>5, <2>6, <2>8, <2>9
<1>7. CASE e.type = "Discarded"
  <2>1. /\ Moves(Range(e.msgs), {}, inbox.paused) /\ Range(e.msgs) \in SUBSET Queued
        /\ dropped' = dropped \cup Range(e.msgs) /\ UNCHANGED told
    BY <1>1, <1>2, <1>3, <1>7, DiscardedMoves
  <2>2. Queued' \subseteq Queued
    BY <2>1 DEF Moves
  <2> QED
    BY <1>2, <1>5, <2>1, <2>2 DEF Unpaused
<1>8. CASE e.type = "InboxItemRemoved"
  <2>1. PICK S, p : S = {e.msg} /\ p = inbox.paused \ {e.msg}
    OBVIOUS
  <2>2. Moves(S, {}, p) /\ S \in SUBSET Queued /\ dropped' = dropped \cup S /\ UNCHANGED told
    BY <1>1, <1>2, <1>3, <1>8, <2>1, RemovedMoves DEF Ready
  <2>3. Queued' = Queued \ S
    BY <2>2 DEF Moves
  <2>4. Queued' \ p \subseteq Unpaused /\ p \subseteq inbox.seen \cup {}
    BY <1>2, <2>1, <2>3 DEF Unpaused
  <2> QED
    BY <1>2, <1>5, <2>2, <2>4
<1>9. CASE e.type \in {"InboxItemSteered", "InboxReordered"}
  <2>1. Moves({}, {}, inbox.paused) /\ UNCHANGED <<told, dropped>>
    BY <1>1, <1>2, <1>3, <1>9, SteeredMoves, ReorderedMoves DEF Ready
  <2>2. Queued' = Queued
    BY <2>1 DEF Moves
  <2> QED
    BY <1>2, <1>5, <2>1, <2>2 DEF Unpaused
<1>10. CASE e.type = "InboxPaused"
  <2>1. PICK p : p = inbox.paused \cup e.ids
    OBVIOUS
  <2>2. Moves({}, {}, p) /\ told' = told \ e.ids /\ UNCHANGED dropped
    BY <1>1, <1>2, <1>3, <1>10, <2>1, PausedMoves
  <2>3. Queued' = Queued
    BY <2>2 DEF Moves
  <2>4. Queued' \ p \subseteq Unpaused \ e.ids /\ p \subseteq inbox.seen \cup {}
    BY <1>2, <1>10, <2>1, <2>3 DEF Unpaused, Fits
  <2> QED
    BY <1>2, <1>5, <2>2, <2>4
<1>11. CASE e.type = "InboxItemResumed"
  <2>1. PICK p : p = inbox.paused \ {e.msg}
    OBVIOUS
  <2>2. Moves({}, {}, p) /\ told' = told \cup {e.msg} /\ UNCHANGED dropped
    BY <1>1, <1>2, <1>3, <1>11, <2>1, PausedMoves
  <2>3. Queued' = Queued
    BY <2>2 DEF Moves
  <2>4. Queued' \ p \subseteq Unpaused \cup {e.msg} /\ p \subseteq inbox.seen \cup {}
    BY <1>2, <2>1, <2>3 DEF Unpaused
  <2> QED
    BY <1>2, <1>4, <1>5, <1>11, <2>2, <2>4
<1> QED
  BY <1>3, <1>6, <1>7, <1>8, <1>9, <1>10, <1>11 DEF ApplyInbox

(* ----------------- an event reaches the rest of the record ---------------- *)

\* What the boundary and status events leave alone.
LEMMA LogMoves ==
  ASSUME Typed, NEW e \in Events, ApplyBoundary(e) \/ ApplyStatus(e)
  PROVE  /\ log' \in Logs
         /\ UNCHANGED <<inbox, said, told, dropped>>
         /\ e.type \notin ClaimTypes =>
              log'.claims = log.claims /\ log'.turns = log.turns /\ log'.steps = log.steps
         /\ e.type = "StepInputClaim" =>
              /\ e.claim \in Claims /\ log'.claims = Append(log.claims, e.claim)
              /\ log'.turns = log.turns /\ log'.steps = log.steps
         /\ e.type = "TurnStart" =>
              log'.claims = log.claims /\ log'.turns = log.turns \cup {e.id}
              /\ log'.steps = log.steps
         /\ e.type = "StepStart" =>
              log'.claims = log.claims /\ log'.turns = log.turns
              /\ log'.steps = log.steps \cup {e.id}
<1>1. log \in Logs /\ UNCHANGED <<inbox, said, told, dropped>>
  BY TypedBox DEF ApplyBoundary, ApplyStatus
<1>2. CASE e.type = "StepInputClaim"
  <2>1. e.claim \in Claims
    BY <1>2, EventFields
  <2>2. log' = [log EXCEPT !.claims = Append(@, e.claim)]
    BY <1>2 DEF ApplyBoundary, ApplyStatus
  <2> QED
    BY <1>1, <1>2, <2>1, <2>2, ClaimLogged DEF ClaimTypes
<1>3. CASE e.type = "TurnStart"
  <2>1. e.id \in 1..MaxSteps
    BY <1>3, EventFields
  <2>2. log' = TurnOpened(log, e.id)
    BY <1>3 DEF ApplyBoundary, ApplyStatus, TurnOpened
  <2>3. log' \in Logs /\ log'.claims = log.claims /\ log'.turns = log.turns \cup {e.id}
        /\ log'.steps = log.steps
    <3>1. PICK r : r = log'
      OBVIOUS
    <3>2. r = TurnOpened(log, e.id)
      BY <2>2, <3>1
    <3>3. r \in Logs /\ r.claims = log.claims /\ r.turns = log.turns \cup {e.id}
          /\ r.steps = log.steps
      <4>1. log \in Logs
        BY <1>1
      <4> QED
        BY <2>1, <3>2, <4>1, TurnLogged
    <3> QED
      BY <3>1, <3>3
  <2> QED
    BY <1>1, <1>3, <2>3 DEF ClaimTypes
<1>4. CASE e.type = "StepStart"
  <2>1. e.id \in 1..MaxSteps
    BY <1>4, EventFields
  <2>2. log' = [log EXCEPT !.steps = @ \cup {e.id}, !.open.step = e.id, !.live.step = e.id,
                           !.answer = "none", !.usage = FALSE]
    BY <1>4 DEF ApplyBoundary, ApplyStatus
  <2>3. log' \in Logs /\ log'.claims = log.claims /\ log'.turns = log.turns
        /\ log'.steps = log.steps \cup {e.id}
    <3>1. log' = StepOpened(log, e.id)
      BY <2>2, Zenon DEF StepOpened
    <3> QED
      BY <1>1, <2>1, <3>1, StepLogged
  <2> QED
    BY <1>1, <1>4, <2>3 DEF ClaimTypes
<1>5. CASE e.type = "StepEnd"
  <2>1. log' = [log EXCEPT !.open.step = 0, !.live.step = 0]
    BY <1>5 DEF ApplyBoundary, ApplyStatus
  <2> QED
    BY <1>1, <1>5, <2>1, StepEndLogged
<1>6. CASE e.type = "AssistantMessage"
  <2>1. log' = [log EXCEPT !.answer = e.answer] /\ e.answer \in {"text", "tools"}
    BY <1>6, EventFields DEF ApplyBoundary, ApplyStatus
  <2> QED
    BY <1>1, <1>6, <2>1, AnswerLogged
<1>7. CASE e.type \in {"TurnEnd", "SessionResumed", "RequestUsage"}
  <2>1. \/ log' =
          [log EXCEPT !.open = NoScope, !.live = NoScope, !.answer = "none", !.usage = FALSE]
        \/ log' = [log EXCEPT !.live = NoScope, !.answer = "none", !.usage = FALSE]
        \/ log' = [log EXCEPT !.usage = TRUE]
    BY <1>7 DEF ApplyBoundary, ApplyStatus
  <2> QED
    BY <1>1, <1>7, <2>1, TurnEndLogged
<1>8. CASE e.type \in {"AgentStatus", "SessionEnded", "Rename"}
  BY <1>1, <1>8 DEF ApplyBoundary, ApplyStatus
<1> QED
  BY <1>1, <1>2, <1>3, <1>4, <1>5, <1>6, <1>7, <1>8 DEF ApplyBoundary, ApplyStatus

\* The ends of turns and steps, answers, and the status, keep the mail.
LEMMA StatusMail ==
  ASSUME Typed, Mail, pending # <<>>, pending' = Tail(pending), loading' = loading,
         Accepts(Head(pending)), ApplyBoundary(Head(pending)) \/ ApplyStatus(Head(pending)),
         Head(pending).type \notin ClaimTypes
  PROVE  Mail'
<1> DEFINE e == Head(pending)
<1>1. e \in Events /\ e \in Range(pending) /\ Ready(pending, e)
  BY HeadIs DEF Mail
<1>2. ~archived /\ Fits(e) /\ Admits(e)
  BY DEF Accepts
<1>3. /\ inbox' = inbox /\ said' = said /\ told' = told /\ dropped' = dropped
      /\ log'.claims = log.claims /\ log'.turns = log.turns /\ log'.steps = log.steps
  BY <1>1, LogMoves
<1>4. /\ Queued' = Queued /\ Unpaused' = Unpaused /\ SaidMsgs' = SaidMsgs
      /\ ClaimedMsgs' = ClaimedMsgs /\ InboxEmpty' = InboxEmpty
  BY <1>3 DEF Queued, Unpaused, SaidMsgs, ClaimedMsgs, InboxEmpty
<1>5. Complete /\ ClaimedMsgs \cap Queued = {}
  BY <1>1, CompleteClaims DEF Mail, Batch, Fitting
<1>6. Complete'
  BY <1>3, <1>4, <1>5, CompleteStays
<1>7. /\ e.type = "SessionEnded" => ended' /\ (InboxEmpty \/ RetainsPausedInputs(e.status))
                                    /\ status' = e.status
      /\ ended => ended' \/ e.type = "SessionResumed"
      /\ ended /\ ended' => status' = status
      /\ ended' => ended \/ e.type = "SessionEnded"
      /\ archived' => ended' /\ ended
  <2>1. e.type = "Rename" => ended
    <3>1. ASSUME e.type = "Rename"
          PROVE  ~Has(pending, "SessionEnded")
      <4>1. \A f \in Range(pending) : Rank(e) <= Rank(f)
        BY HeadAndTail DEF Typed, Mail, Batch, Fitting, Rank
      <4> QED
        BY <3>1, <4>1 DEF Rank, Has
    <3> QED
      BY <1>1, <3>1 DEF Ready
  <2> HIDE DEF e
  <2>2. ApplyBoundary(e) \/ ApplyStatus(e)
    BY DEF e
  <2>3. ended => e.type \in {"SessionResumed", "Rename", "Enqueued", "InboxPaused"}
    BY <1>2 DEF Admits, FailedAdmission
  <2>4. CASE ApplyBoundary(e)
    BY <1>2, <2>3, <2>4 DEF ApplyBoundary
  <2>5. CASE ApplyStatus(e)
    BY <1>2, <2>1, <2>3, <2>5 DEF ApplyStatus, Fits
  <2> QED
    BY <2>2, <2>4, <2>5
<1>8. Accounts'
  BY <1>3, <1>4 DEF Mail, Accounts
<1>9. Batch'
  BY <1>6, <1>7, OtherTail DEF Mail, SoloTypes
<1>10. Service'
  <2>1. ~loading' => \A k \in DOMAIN log'.claims : Follows(pending, log.claims[k], k)'
    BY <1>3, <1>4, <1>6 DEF Complete, Done, Follows
  <2>2. loading' => \A f \in Range(pending') : f.type \in LoadTypes
    BY HeadAndTail DEF Mail, Service, Typed
  <2> QED
    BY <1>3, <1>4, <2>1, <2>2 DEF Service, Mail
<1>11. Final'
  <2>2. EndedHoldsInput'
    BY <1>4, <1>7 DEF Mail, Final, EndedHoldsInput, RetainsPausedInputs
  <2> QED
    BY <1>6, <1>7, <2>2 DEF Final
<1> QED
  BY <1>8, <1>9, <1>10, <1>11 DEF Mail

(* ---------------------- an event of a claim is written --------------------- *)

\* What an event of a claim does to the queue, the transcript, the log and the intents.
Claiming(e) ==
  /\ \A m : m \in Queued' <=> m \in Queued /\ ~(e.type = "Claimed" /\ m \in Range(e.msgs))
  /\ \A m : m \in SaidMsgs' <=> m \in SaidMsgs \/ (e.type = "UserMessage" /\ m = e.line.msg)
  /\ \A m : m \in ClaimedMsgs' <=>
              m \in ClaimedMsgs \/ (e.type = "StepInputClaim" /\ m \in ClaimSet(e.claim))
  /\ \A t : t \in log'.turns <=> t \in log.turns \/ (e.type = "TurnStart" /\ t = e.id)
  /\ \A s : s \in log'.steps <=> s \in log.steps \/ (e.type = "StepStart" /\ s = e.id)

\* An event of a claim, other than its head, keeps every claim and takes or says a message.
LEMMA ClaimingMoves ==
  ASSUME Typed, ApartIn(inbox), NEW e \in Events, e.type \in ClaimTypes, Fits(e),
         ApplyInbox(e) \/ ApplyBoundary(e) \/ ApplyUserMessage(e) \/ ApplyStatus(e)
  PROVE  /\ Claiming(e) /\ ApartIn(inbox') /\ UNCHANGED <<status, ended, archived, told, dropped>>
         /\ inbox'.seen = inbox.seen /\ inbox'.paused \subseteq inbox.paused
         /\ Unpaused' \subseteq Unpaused
         /\ e.type # "StepInputClaim" => log'.claims = log.claims
         /\ e.type # "UserMessage" => said' = said
         /\ e.type = "Claimed" => Range(e.msgs) \subseteq Queued
<1>1. CASE e.type = "Claimed"
  <2>1. ApplyInbox(e)
    BY <1>1 DEF ApplyBoundary, ApplyUserMessage, ApplyStatus
  <2>2. /\ Moves(Range(e.msgs), {}, inbox.paused \ Range(e.msgs))
        /\ Range(e.msgs) \subseteq Queued /\ UNCHANGED <<told, dropped>>
    BY <1>1, <2>1, ClaimedMoves
  <2>3. /\ Queued' = Queued \ Range(e.msgs) /\ inbox'.paused = inbox.paused \ Range(e.msgs)
        /\ inbox'.seen = inbox.seen /\ ApartIn(inbox')
        /\ UNCHANGED <<log, said, status, ended, archived>>
    BY <2>2 DEF Moves
  <2>4. SaidMsgs' = SaidMsgs /\ ClaimedMsgs' = ClaimedMsgs /\ Unpaused' \subseteq Unpaused
    BY <2>3 DEF SaidMsgs, ClaimedMsgs, Unpaused
  <2> QED
    BY <1>1, <2>2, <2>3, <2>4 DEF Claiming
<1>2. CASE e.type = "UserMessage"
  <2>1. ApplyUserMessage(e) /\ e.line \in [msg : Msgs, step : 1..MaxSteps]
    BY <1>2, EventFields DEF ApplyInbox, ApplyBoundary, ApplyStatus
  <2>2. said' = Append(said, e.line)
        /\ UNCHANGED <<inbox, log, status, ended, archived, told, dropped>>
    BY <2>1 DEF ApplyUserMessage
  <2>3. SaidMsgs' = SaidMsgs \cup {e.line.msg}
    BY <2>1, <2>2, LineAdded
  <2>4. Queued' = Queued /\ ClaimedMsgs' = ClaimedMsgs /\ Unpaused' = Unpaused
    BY <2>2 DEF Queued, ClaimedMsgs, Unpaused
  <2> QED
    BY <1>2, <2>2, <2>3, <2>4 DEF Claiming
<1>3. CASE e.type \in {"StepInputClaim", "TurnStart", "StepStart"}
  <2>1. ApplyBoundary(e)
    BY <1>3 DEF ApplyInbox, ApplyUserMessage, ApplyStatus
  <2>2. UNCHANGED <<inbox, said, status, ended, archived, told, dropped>>
    BY <2>1 DEF ApplyBoundary
  <2>3. Queued' = Queued /\ SaidMsgs' = SaidMsgs /\ Unpaused' = Unpaused
    BY <2>2 DEF Queued, SaidMsgs, Unpaused
  <2>4. /\ e.type = "StepInputClaim" =>
              /\ ClaimedMsgs' = ClaimedMsgs \cup ClaimSet(e.claim)
              /\ log'.turns = log.turns /\ log'.steps = log.steps
        /\ e.type # "StepInputClaim" => log'.claims = log.claims /\ ClaimedMsgs' = ClaimedMsgs
    <3>1. e.type # "StepInputClaim" => log'.claims = log.claims
      BY <1>3, <2>1, LogMoves
    <3>2. log'.claims = log.claims => ClaimedMsgs' = ClaimedMsgs
      BY DEF ClaimedMsgs
    <3>3. e.type = "StepInputClaim" =>
            /\ e.claim \in Claims /\ log'.claims = Append(log.claims, e.claim)
            /\ log'.turns = log.turns /\ log'.steps = log.steps
      BY <2>1, LogMoves
    <3> QED
      BY <3>1, <3>2, <3>3, ClaimAdded
  <2>5. /\ e.type = "TurnStart" => log'.turns = log.turns \cup {e.id} /\ log'.steps = log.steps
        /\ e.type = "StepStart" => log'.turns = log.turns /\ log'.steps = log.steps \cup {e.id}
    BY <2>1, LogMoves
  <2> QED
    BY <1>3, <2>2, <2>3, <2>4, <2>5 DEF Claiming
<1> QED
  BY <1>1, <1>2, <1>3 DEF ClaimTypes

\* What a claim still lacks is in the rest of the batch.
LEMMA FollowsOn ==
  ASSUME Typed, pending # <<>>, pending' = Tail(pending), Claiming(Head(pending)),
         NEW c, NEW k, Follows(pending, c, k)
  PROVE  Follows(pending, c, k)'
<1> DEFINE e == Head(pending)
<1>1. Range(pending) = {e} \cup Range(pending')
  BY HeadAndTail DEF Typed
<1> HIDE DEF e
<1>2. Claiming(e)
  BY DEF e
<1>3. ASSUME NEW m \in ClaimSet(c), m \in Queued'
      PROVE  Takes(pending', m)
  <2>1. m \in Queued /\ ~(e.type = "Claimed" /\ m \in Range(e.msgs))
    BY <1>2, <1>3 DEF Claiming
  <2>2. Takes(pending, m)
    BY <1>3, <2>1 DEF Follows
  <2> QED
    BY <1>1, <2>1, <2>2 DEF Takes
<1>4. ASSUME NEW m \in ClaimSet(c)
      PROVE  m \in SaidMsgs' \/ Says(pending', m)
  <2>1. m \in SaidMsgs \/ Says(pending, m)
    BY <1>4 DEF Follows
  <2>2. m \in SaidMsgs' <=> m \in SaidMsgs \/ (e.type = "UserMessage" /\ m = e.line.msg)
    BY <1>2 DEF Claiming
  <2> QED
    BY <1>1, <2>1, <2>2 DEF Says
<1>5. c.start => c.turn \in log'.turns \/ Opens(pending', c.turn)
  BY <1>1, <1>2 DEF Follows, Claiming, Opens
<1>6. k \in log'.steps \/ Starts(pending', k)
  BY <1>1, <1>2 DEF Follows, Claiming, Starts
<1> QED
  BY <1>3, <1>4, <1>5, <1>6 DEF Follows

\* Behind an event of a claim.
LEMMA ClaimTail ==
  ASSUME Typed, Batch, pending # <<>>, pending' = Tail(pending),
         Head(pending).type \in ClaimTypes, Claiming(Head(pending))
  PROVE  /\ Batch'
         /\ Head(pending).type # "StepInputClaim" =>
              \A m \in Msgs : Says(pending, m) \/ Takes(pending, m) => m \in ClaimedMsgs
         /\ \A m \in Msgs : Head(pending).type = "UserMessage" /\ m = Head(pending).line.msg =>
              m \notin SaidMsgs /\ m \notin Queued
<1> DEFINE e == Head(pending)
<1>1. /\ e \in Events /\ pending' \in Seq(Events)
      /\ Range(pending) = {e} \cup Range(pending')
      /\ InOrder(pending') /\ SaysOnce(pending')
      /\ \A f \in Range(pending') : Rank(e) <= Rank(f) /\ Rank(f) # 1
      /\ e.type = "UserMessage" => ~Says(pending', e.line.msg)
  BY HeadAndTail DEF Typed, Batch, Fitting
<1> HIDE DEF e
<1>2. e.type \in ClaimTypes /\ Claiming(e) /\ e \in Range(pending)
  BY <1>1 DEF e
<1>3. \A f \in Range(pending) : f.type \in ClaimTypes
  BY <1>2 DEF Batch, Fitting
<1>4. \A f \in Range(pending') : f.type # "StepInputClaim"
  BY <1>1 DEF Rank
<1>5. \A f \in Range(pending') : f.type \in ClaimTypes /\ Ready(pending, f)' /\ Sound(pending, f)'
  BY <1>1, <1>3, <1>4 DEF Ready, Sound, ClaimTypes, SoloTypes
<1>6. ASSUME NEW m \in Msgs
      PROVE  Says(pending, m) => m \notin SaidMsgs /\ (m \in Queued => Takes(pending, m))
  BY DEF Batch, Fitting
<1>7. ASSUME NEW m \in Msgs
      PROVE  Says(pending, m) \/ Takes(pending, m) => m \in ClaimedMsgs \/ Intends(pending, m)
  BY DEF Batch, Fitting
<1>8. ASSUME NEW m \in Msgs, Intends(pending, m)
      PROVE  e.type = "StepInputClaim" /\ m \in ClaimSet(e.claim)
  BY <1>1, <1>4, <1>8 DEF Intends
<1>9. ASSUME NEW m \in Msgs, e.type = "UserMessage", m = e.line.msg
      PROVE  m \notin SaidMsgs /\ m \notin Queued
  <2>1. Says(pending, m)
    BY <1>2, <1>9 DEF Says
  <2>2. ~Takes(pending, m)
    BY <1>1, <1>9 DEF Rank, Takes
  <2> QED
    BY <1>6, <2>1, <2>2
<1>10. ASSUME NEW m \in Msgs, Says(pending', m)
       PROVE  m \notin SaidMsgs' /\ (m \in Queued' => Takes(pending', m))
  <2>1. Says(pending, m)
    BY <1>1, <1>10 DEF Says
  <2>2. m \notin SaidMsgs /\ (m \in Queued => Takes(pending, m))
    BY <1>6, <2>1
  <2>3. ~(e.type = "UserMessage" /\ m = e.line.msg)
    BY <1>1, <1>10
  <2>4. m \in Queued' => m \in Queued /\ ~(e.type = "Claimed" /\ m \in Range(e.msgs))
    BY <1>2 DEF Claiming
  <2> QED
    BY <1>1, <1>2, <2>2, <2>3, <2>4 DEF Claiming, Takes
<1>11. ASSUME NEW m \in Msgs, Says(pending', m) \/ Takes(pending', m)
       PROVE  m \in ClaimedMsgs'
  <2>1. Says(pending, m) \/ Takes(pending, m)
    BY <1>1, <1>11 DEF Says, Takes
  <2> QED
    BY <1>2, <1>7, <1>8, <2>1 DEF Claiming
<1>12. Batch'
  BY <1>1, <1>5, <1>10, <1>11 DEF Batch, Fitting
<1> QED
  BY <1>7, <1>8, <1>9, <1>12 DEF e

\* The events of a claim keep the mail.
LEMMA ClaimMail ==
  ASSUME Typed, Mail, pending # <<>>, pending' = Tail(pending), loading' = loading,
         NEW e, e = Head(pending), e.type \in ClaimTypes, Accepts(e),
         ApplyInbox(e) \/ ApplyBoundary(e) \/ ApplyUserMessage(e) \/ ApplyStatus(e)
  PROVE  Mail'
<1>1. e \in Events /\ e \in Range(pending) /\ Sound(pending, e) /\ Batch
  BY HeadIs DEF Mail
<1>2. Fits(e) /\ Admits(e) /\ ApartIn(inbox)
  BY DEF Accepts, Mail, Accounts, ApartIn
<1>3. /\ Claiming(e) /\ ApartIn(inbox') /\ UNCHANGED <<status, ended, archived, told, dropped>>
      /\ inbox'.seen = inbox.seen /\ inbox'.paused \subseteq inbox.paused
      /\ Unpaused' \subseteq Unpaused
      /\ e.type # "StepInputClaim" => log'.claims = log.claims
      /\ e.type # "UserMessage" => said' = said
      /\ e.type = "Claimed" => Range(e.msgs) \subseteq Queued
  BY <1>1, <1>2, ClaimingMoves
<1>4. /\ Batch'
      /\ e.type # "StepInputClaim" =>
           \A m \in Msgs : Says(pending, m) \/ Takes(pending, m) => m \in ClaimedMsgs
      /\ \A m \in Msgs : e.type = "UserMessage" /\ m = e.line.msg =>
           m \notin SaidMsgs /\ m \notin Queued
  BY <1>1, <1>3, ClaimTail
<1>5. ~ended /\ ~archived
  BY <1>2 DEF Admits, FailedAdmission, ClaimTypes, Accepts
<1>6. /\ \A m : m \in Queued' <=> m \in Queued /\ ~(e.type = "Claimed" /\ m \in Range(e.msgs))
      /\ \A m : m \in SaidMsgs' <=> m \in SaidMsgs \/ (e.type = "UserMessage" /\ m = e.line.msg)
      /\ \A m : m \in ClaimedMsgs' <=>
                  m \in ClaimedMsgs \/ (e.type = "StepInputClaim" /\ m \in ClaimSet(e.claim))
  BY <1>3 DEF Claiming
<1>7. e.type = "StepInputClaim" =>
        Complete /\ ClaimSet(e.claim) \subseteq Unpaused /\ Follows(pending, e.claim, NextStepId)
  BY <1>1 DEF Sound
<1>8. /\ inbox.seen = Queued \cup ClaimedMsgs \cup dropped
      /\ dropped \cap (Queued \cup ClaimedMsgs) = {}
      /\ inbox.paused \subseteq inbox.seen /\ SaidMsgs \subseteq ClaimedMsgs
      /\ SaidMsgs \cap Queued = {}
      /\ \A i, j \in DOMAIN said : said[i].msg = said[j].msg => i = j
  BY DEF Mail, Accounts
<1>9. \A m \in Msgs : e.type = "Claimed" /\ m \in Range(e.msgs) => m \in ClaimedMsgs
  BY <1>1, <1>4 DEF Takes
<1>10. \A m \in Msgs : e.type = "UserMessage" /\ m = e.line.msg => m \in ClaimedMsgs
  BY <1>1, <1>4 DEF Says
<1>11. /\ e.type = "UserMessage" =>
            e.line.msg \in Msgs /\ e.line \in [msg : Msgs, step : 1..MaxSteps]
       /\ Queued \subseteq Msgs
  BY <1>1, EventFields, TypedBox
<1>12. Accounts'
  <2>1. \A m : m \in inbox'.seen <=> m \in Queued' \/ m \in ClaimedMsgs' \/ m \in dropped'
    BY <1>3, <1>6, <1>7, <1>8, <1>9, <1>11 DEF Unpaused
  <2>2. \A m : m \in dropped' => m \notin Queued' /\ m \notin ClaimedMsgs'
    BY <1>3, <1>6, <1>7, <1>8 DEF Unpaused
  <2>3. \A m : m \in SaidMsgs' => m \in ClaimedMsgs' /\ m \notin Queued'
    BY <1>4, <1>6, <1>8, <1>10, <1>11
  <2>4. \A i, j \in DOMAIN said' : said'[i].msg = said'[j].msg => i = j
    <3>1. CASE e.type = "UserMessage"
      <4>1. said' = Append(said, e.line)
        BY <3>1 DEF ApplyInbox, ApplyBoundary, ApplyUserMessage, ApplyStatus
      <4> QED
        BY <1>4, <1>8, <1>11, <3>1, <4>1, LineAdded
    <3>2. CASE e.type # "UserMessage"
      BY <1>3, <1>8, <3>2
    <3> QED
      BY <3>1, <3>2
  <2>5. inbox'.paused \subseteq inbox'.seen
    BY <1>3, <1>8
  <2>6. Range(inbox'.nextTurn) \cap Range(inbox'.nextStep) = {}
    BY <1>3 DEF ApartIn
  <2>7. inbox'.seen = Queued' \cup ClaimedMsgs' \cup dropped'
    BY <2>1
  <2>8. dropped' \cap (Queued' \cup ClaimedMsgs') = {}
    BY <2>2
  <2>9. SaidMsgs' \subseteq ClaimedMsgs' /\ SaidMsgs' \cap Queued' = {}
    BY <2>3
  <2> QED
    BY <2>4, <2>5, <2>6, <2>7, <2>8, <2>9 DEF Accounts
<1>13. ~loading => (\A k \in DOMAIN log.claims : Follows(pending, log.claims[k], k))'
  <2>1. CASE e.type = "StepInputClaim"
    <3>1. ApplyBoundary(e)
      BY <2>1 DEF ApplyInbox, ApplyUserMessage, ApplyStatus
    <3>2. e.claim \in Claims /\ log'.claims = Append(log.claims, e.claim)
      BY <1>1, <2>1, <3>1, LogMoves
    <3>3. /\ DOMAIN log'.claims = DOMAIN log.claims \cup {NextStepId}
          /\ log'.claims[NextStepId] = e.claim
          /\ \A k \in DOMAIN log.claims : log'.claims[k] = log.claims[k]
      BY <3>2, ClaimAdded
    <3>4. \A k \in DOMAIN log'.claims : Follows(pending, log'.claims[k], k)
      BY <1>7, <2>1, <3>3 DEF Complete, Done, Follows
    <3>5. \A k \in DOMAIN log'.claims : \A c : c = log'.claims[k] => Follows(pending, c, k)'
      BY <1>3, <3>4, FollowsOn
    <3> QED
      BY <3>5 DEF Follows
  <2>2. CASE e.type # "StepInputClaim" /\ ~loading
    <3>1. log'.claims = log.claims
      BY <1>3, <2>2
    <3>2. \A k \in DOMAIN log.claims : Follows(pending, log.claims[k], k)
      BY <2>2 DEF Mail, Service
    <3>3. \A k \in DOMAIN log'.claims : \A c : c = log'.claims[k] => Follows(pending, c, k)'
      BY <1>3, <3>1, <3>2, FollowsOn
    <3> QED
      BY <3>3 DEF Follows
  <2> QED
    BY <2>1, <2>2
<1>14. Service'
  <2>1. loading' => \A f \in Range(pending') : f.type \in LoadTypes
    BY HeadAndTail DEF Mail, Service, Typed
  <2>2. ~loading' => Unpaused' \subseteq told'
    BY <1>3 DEF Mail, Service
  <2>3. Len(log'.claims) <= MaxSteps
    <3>1. CASE e.type = "StepInputClaim"
      <4>1. log.claims \in Seq(Claims) /\ e.claim \in Claims
        BY <1>1, <3>1, TypedBox, EventFields DEF Logs
      <4>2. log'.claims = Append(log.claims, e.claim)
        <5>1. ApplyBoundary(e)
          BY <3>1 DEF ApplyInbox, ApplyUserMessage, ApplyStatus
        <5> QED
          BY <1>1, <3>1, <5>1, LogMoves
      <4>3. Len(log'.claims) = Len(log.claims) + 1
        BY <4>1, <4>2
      <4>4. Len(log.claims) + 1 <= MaxSteps
        BY <1>1, <3>1 DEF Sound, NextStepId
      <4> QED
        BY <4>3, <4>4
    <3>2. CASE e.type # "StepInputClaim"
      BY <1>3, <3>2 DEF Mail, Service
    <3> QED
      BY <3>1, <3>2
  <2> QED
    BY <1>13, <2>1, <2>2, <2>3 DEF Service
<1>15. Final'
  BY <1>3, <1>5 DEF Final, EndedHoldsInput
<1> QED
  BY <1>4, <1>12, <1>14, <1>15 DEF Mail

\* One event of the batch reaches the record: the account of the messages.
LEMMA WriteMail ==
  ASSUME Typed, Mail, WriteEvent
  PROVE  Mail'
<1>1. PICK e : e = Head(pending)
  OBVIOUS
<1>2. /\ pending # <<>> /\ pending' = Tail(pending) /\ loading' = loading /\ Accepts(e)
      /\ ApplyInbox(e) \/ ApplyBoundary(e) \/ ApplyUserMessage(e) \/ ApplyStatus(e)
  BY <1>1 DEF WriteEvent
<1>3. CASE e.type \in ClaimTypes
  BY <1>1, <1>2, <1>3, ClaimMail
<1>4. CASE e.type \notin ClaimTypes /\ ApplyInbox(e)
  BY <1>1, <1>2, <1>4, InboxMail DEF ClaimTypes
<1>5. CASE e.type \notin ClaimTypes /\ (ApplyBoundary(e) \/ ApplyStatus(e))
  BY <1>1, <1>2, <1>5, StatusMail
<1>6. CASE e.type \notin ClaimTypes /\ ApplyUserMessage(e)
  BY <1>6 DEF ApplyUserMessage, ClaimTypes
<1> QED
  BY <1>2, <1>3, <1>4, <1>5, <1>6

(* ------------------------- an operation hands over ------------------------ *)

\* An operation hands over a batch that fits.
LEMMA Handed ==
  ASSUME Typed, Mail, NEW b, Write(b), Fitting(b),
         pending = <<>>, loading => \A e \in Range(b) : e.type \in LoadTypes
  PROVE  Mail'
<1>1. /\ pending' = b /\ inbox' = inbox /\ log' = log /\ said' = said /\ dropped' = dropped
      /\ told' = told /\ UNCHANGED <<status, ended, archived, loading>>
  BY DEF Write, durable
<1>2. /\ Queued' = Queued /\ SaidMsgs' = SaidMsgs /\ ClaimedMsgs' = ClaimedMsgs
      /\ Unpaused' = Unpaused /\ NextStepId' = NextStepId /\ FailedRoot' = FailedRoot
  BY <1>1 DEF Queued, SaidMsgs, ClaimedMsgs, Unpaused, NextStepId, FailedRoot
<1>3. Complete' <=> Complete
  BY <1>1, <1>2 DEF Complete, Done
<1>4. \A p, c, k : Follows(p, c, k)' <=> Follows(p, c, k)
  BY <1>1, <1>2 DEF Follows
<1>5. \A p, e : Ready(p, e)' <=> Ready(p, e)
  BY <1>1, <1>2 DEF Ready
<1>6. \A p, e : Sound(p, e)' <=> Sound(p, e)
  BY <1>1, <1>2, <1>3, <1>4 DEF Sound
<1>7. Batch'
  BY <1>1, <1>2, <1>3, <1>5, <1>6 DEF Batch, Fitting
<1>8. Accounts'
  BY <1>1, <1>2 DEF Mail, Accounts
<1>9. Service'
  <2>1. \A m : ~Takes(<<>>, m) /\ ~Says(<<>>, m) /\ ~Opens(<<>>, m) /\ ~Starts(<<>>, m)
    BY DEF Takes, Says, Opens, Starts, Range
  <2>2. ASSUME ~loading, NEW k \in DOMAIN log.claims
        PROVE  Follows(b, log.claims[k], k)
    <3>1. Follows(<<>>, log.claims[k], k)
      BY <2>2 DEF Mail, Service
    <3> QED
      BY <2>1, <3>1 DEF Follows
  <2>3. (~loading => \A k \in DOMAIN log.claims : Follows(pending, log.claims[k], k))'
    BY <1>1, <1>4, <2>2
  <2> QED
    BY <1>1, <1>2, <2>3 DEF Mail, Service
<1>10. Final'
  BY <1>1, <1>2, <1>3 DEF Mail, Final, EndedHoldsInput, InboxEmpty, RetainsPausedInputs
<1> QED
  BY <1>7, <1>8, <1>9, <1>10 DEF Mail

\* The store serves: nothing is torn.
LEMMA ServingComplete ==
  ASSUME Mail, Serving
  PROVE  Complete
<1>1. \A m : ~Takes(<<>>, m) /\ ~Says(<<>>, m) /\ ~Opens(<<>>, m) /\ ~Starts(<<>>, m)
  BY DEF Takes, Says, Opens, Starts, Range
<1>2. \A k \in DOMAIN log.claims : Follows(<<>>, log.claims[k], k)
  BY DEF Mail, Service, Serving
<1> QED
  BY <1>1, <1>2 DEF Complete, Done, Follows

\* A batch of plain events fits when no claim is torn.
LEMMA PlainFits ==
  ASSUME NEW b \in Seq(Plain), Complete
  PROVE  b \in Seq(Events) /\ Fitting(b)
<1>1. \A i \in DOMAIN b : b[i] \in Plain
  OBVIOUS
<1>2. \A f \in Plain : /\ f \in Events /\ f.type \in PlainTypes /\ Rank(f) = 2
                       /\ f.type \notin ClaimTypes /\ f.type \notin SoloTypes
                       /\ f.type # "Rename"
  BY DEF Plain, PlainTypes, ClaimTypes, SoloTypes, Rank
<1>3. \A f \in Range(b) : f \in Plain
  BY <1>1 DEF Range
<1>4. b \in Seq(Events)
  BY <1>2
<1>5. InOrder(b) /\ SaysOnce(b)
  BY <1>1, <1>2 DEF InOrder, SaysOnce, PlainTypes
<1>6. \A f \in Range(b) : Ready(b, f) /\ Sound(b, f) /\ f.type \notin ClaimTypes
  BY <1>2, <1>3 DEF Ready, Sound, SoloTypes, PlainTypes
<1>7. \A m : ~Says(b, m) /\ ~Takes(b, m)
  BY <1>6 DEF Says, Takes, ClaimTypes
<1> QED
  BY <1>4, <1>5, <1>6, <1>7 DEF Fitting

\* So does an event that is written alone.
LEMMA SoloFits ==
  ASSUME NEW e \in Events, e.type \in SoloTypes, Complete, Ready(<<e>>, e)
  PROVE  <<e>> \in Seq(Events) /\ Fitting(<<e>>)
<1>1. <<e>> \in Seq(Events) /\ Range(<<e>>) = {e} /\ DOMAIN <<e>> = {1}
  BY DEF Range
<1>2. InOrder(<<e>>) /\ SaysOnce(<<e>>)
  BY <1>1 DEF InOrder, SaysOnce
<1>3. Sound(<<e>>, e) /\ e.type \notin ClaimTypes
  BY DEF Sound, SoloTypes, ClaimTypes
<1>4. \A m : ~Says(<<e>>, m) /\ ~Takes(<<e>>, m)
  BY <1>1, <1>3 DEF Says, Takes, ClaimTypes
<1> QED
  BY <1>1, <1>2, <1>3, <1>4 DEF Fitting

\* A Session that is closed for the archive ends before the log moves.
LEMMA MovedFits ==
  ASSUME NEW b \in Seq(Plain), Complete, ended \/ Has(b, "SessionEnded")
  PROVE  b \o <<Rename>> \in Seq(Events) /\ Fitting(b \o <<Rename>>)
<1> DEFINE p == b \o <<Rename>>
<1>1. Rename \in Events /\ Rename.type = "Rename" /\ Rank(Rename) = 3
  BY DEF Rename, Events, Rank
<1>2. b \in Seq(Events) /\ Fitting(b) /\ Len(b) \in Nat
  BY PlainFits
<1>3. p \in Seq(Events) /\ Range(p) = Range(b) \cup {Rename}
  <2>1. <<Rename>> \in Seq(Events) /\ Range(<<Rename>>) = {Rename}
    BY <1>1, OneSeq
  <2>2. PICK q : q = <<Rename>>
    OBVIOUS
  <2>3. b \o q \in Seq(Events) /\ Range(b \o q) = Range(b) \cup Range(q)
    BY <1>2, <2>1, <2>2, JoinSeq, ZenonT(30)
  <2> QED
    BY <2>1, <2>2, <2>3
<1>4. \A f \in Plain : f.type \in PlainTypes /\ Rank(f) = 2
  BY DEF Plain, PlainTypes, Rank
<1>5. /\ DOMAIN p = 1..(Len(b) + 1) /\ p[Len(b) + 1] = Rename
      /\ \A i \in 1..Len(b) : p[i] = b[i] /\ b[i] \in Plain
  BY <1>2
<1>6. InOrder(p)
  <2>1. \A i \in DOMAIN p : i \in 1..Len(b) \/ i = Len(b) + 1
    BY <1>2, <1>5
  <2>2. \A i, j \in DOMAIN p : i < j => i \in 1..Len(b)
    BY <1>2, <1>5
  <2> QED
    BY <1>1, <1>4, <1>5, <2>1, <2>2 DEF InOrder
<1>7. \A f \in Range(p) : f.type \in PlainTypes \/ f = Rename
  BY <1>3, <1>4 DEF Range
<1> HIDE DEF p
<1>8. SaysOnce(p)
  BY <1>1, <1>7 DEF SaysOnce, PlainTypes, Range
<1>9. \A f \in Range(p) : Ready(p, f) /\ Sound(p, f) /\ f.type \notin ClaimTypes
  <2>1. ended \/ Has(p, "SessionEnded")
    BY <1>3 DEF Has
  <2> QED
    BY <1>1, <1>7, <2>1 DEF Ready, Sound, PlainTypes, ClaimTypes, SoloTypes
<1>10. \A m : ~Says(p, m) /\ ~Takes(p, m)
  BY <1>9 DEF Says, Takes, ClaimTypes
<1>11. Fitting(p)
  BY <1>6, <1>8, <1>9, <1>10 DEF Fitting
<1> QED
  BY <1>3, <1>11 DEF p

\* What an operation may make of the driver.
Driven ==
  /\ stage' \in Stages /\ scope' \in Scopes /\ halt' \in {"no", "interrupt", "cancel"}
  /\ stage' \in Working \cup Waiting => scope'.turn # 0

\* An operation that writes a fitting batch and moves the driver soundly.
LEMMA Operation ==
  ASSUME Typed, Mail, NEW b, Write(b), b \in Seq(Events) /\ Fitting(b), Driven,
         pending = <<>>, loading => \A e \in Range(b) : e.type \in LoadTypes
  PROVE  Typed' /\ Mail'
<1>1. Typed'
  BY DEF Typed, TypeOK, Write, durable, Driven
<1>2. Mail'
  BY Handed
<1> QED
  BY <1>1, <1>2

\* The same for a batch of plain events,
LEMMA PlainOperation ==
  ASSUME Typed, Mail, Serving, NEW b \in Seq(Plain), Write(b), Driven
  PROVE  Typed' /\ Mail'
<1>1. Complete
  BY ServingComplete
<1>2. b \in Seq(Events) /\ Fitting(b)
  BY <1>1, PlainFits
<1> QED
  BY <1>2, Operation DEF Serving

\* and for an event alone.
LEMMA SoloOperation ==
  ASSUME Typed, Mail, Serving, NEW e \in Events, e.type \in SoloTypes, Ready(<<e>>, e),
         Write(<<e>>), Driven
  PROVE  Typed' /\ Mail'
<1>1. Complete
  BY ServingComplete
<1>2. <<e>> \in Seq(Events) /\ Fitting(<<e>>)
  BY <1>1, SoloFits
<1> QED
  BY <1>2, Operation DEF Serving

\* The batches that the operations build from plain events.
LEMMA PlainBatches ==
  ASSUME Typed
  PROVE  /\ <<>> \in Seq(Plain) /\ <<StepEnd>> \in Seq(Plain) /\ <<TurnEnd>> \in Seq(Plain)
         /\ \A s \in Statuses : <<Status(s)>> \in Seq(Plain) /\ StatusIs(s) \in Seq(Plain)
         /\ <<Assistant("text"), Usage, StepEnd>> \in Seq(Plain)
         /\ <<Assistant("tools"), Usage>> \in Seq(Plain)
         /\ <<StepEnd, Status("Waiting")>> \in Seq(Plain)
         /\ \A c \in BOOLEAN : Opt(c, StepEnd) \in Seq(Plain)
         /\ \A s \in Scopes : CloseScope(s) \in Seq(Plain)
         /\ PauseBatch \in Seq(Plain) /\ TerminateBatch \in Seq(Plain) /\ CancelBatch \in Seq(Plain)
         /\ \A kind \in {"interrupt", "cancel"} : StopBatch(kind) \in Seq(Plain)
<1>1. /\ TurnEnd \in Plain /\ StepEnd \in Plain /\ Usage \in Plain
      /\ Assistant("text") \in Plain /\ Assistant("tools") \in Plain
      /\ \A s \in Statuses : Status(s) \in Plain /\ SessionEnded(s) \in Plain
      /\ Paused(Queued) \in Plain
      /\ \A lane \in Lanes : Discarded(lane) \in Plain /\ Paused(Range(inbox[lane])) \in Plain
  <2>1. \A lane \in Lanes : Range(inbox[lane]) \in SUBSET Msgs /\ Queued \in SUBSET Msgs
    BY TypedBox
  <2>2. Queued \in SUBSET Msgs
    BY TypedBox
  <2> QED
    BY <2>1, <2>2, PlainMade, DiscardMade
<1>2. /\ <<>> \in Seq(Plain) /\ <<StepEnd>> \in Seq(Plain) /\ <<TurnEnd>> \in Seq(Plain)
      /\ <<Assistant("text"), Usage, StepEnd>> \in Seq(Plain)
      /\ <<Assistant("tools"), Usage>> \in Seq(Plain)
  BY <1>1
<1>3. {"Idle", "Running", "Waiting", "Failed", "Cancelled"} \subseteq Statuses
  BY DEF Statuses, Terminal
<1>4. /\ \A s \in Statuses : <<Status(s)>> \in Seq(Plain) /\ StatusIs(s) \in Seq(Plain)
      /\ <<StepEnd, Status("Waiting")>> \in Seq(Plain)
  BY <1>1, <1>3 DEF StatusIs, Opt
<1>5. \A c \in BOOLEAN : Opt(c, StepEnd) \in Seq(Plain)
  BY <1>1 DEF Opt
<1>6. \A c \in BOOLEAN : Opt(c, StepEnd) \o <<TurnEnd>> \in Seq(Plain)
  BY <1>2, <1>5
<1>7. \A s \in Scopes : CloseScope(s) \in Seq(Plain)
  BY <1>2, <1>6 DEF CloseScope
<1>8. PauseBatch \in Seq(Plain)
  <2>1. (IF log.open.turn = 0 THEN <<>>
         ELSE Opt(log.open.step # 0, StepEnd) \o <<TurnEnd>>) \in Seq(Plain)
    BY <1>2, <1>6
  <2>2. Opt(Queued # {}, Paused(Queued)) \in Seq(Plain)
    BY <1>1 DEF Opt
  <2>3. <<Status("Idle")>> \in Seq(Plain)
    BY <1>3, <1>4
  <2> QED
    BY <2>1, <2>2, <2>3 DEF PauseBatch
<1>9. TerminateBatch \in Seq(Plain)
  <2> DEFINE Settle(lane) == Opt(inbox[lane] # <<>>,
                              IF IsRoot THEN Paused(Range(inbox[lane])) ELSE Discarded(lane))
  <2>1. \A lane \in Lanes : Settle(lane) \in Seq(Plain)
    BY <1>1 DEF Opt
  <2>2. Settle("nextTurn") \in Seq(Plain) /\ Settle("nextStep") \in Seq(Plain)
    BY <2>1 DEF Lanes
  <2>3. <<Status("Failed"), SessionEnded("Failed")>> \in Seq(Plain)
    BY <1>1, <1>3
  <2>4. TerminateBatch = Settle("nextTurn") \o Settle("nextStep")
                         \o <<Status("Failed"), SessionEnded("Failed")>>
    BY DEF TerminateBatch
  <2> HIDE DEF Settle
  <2> QED
    BY <2>2, <2>3, <2>4
<1>10. CancelBatch \in Seq(Plain)
  <2>1. /\ Opt(inbox.nextTurn # <<>>, Discarded("nextTurn")) \in Seq(Plain)
        /\ Opt(inbox.nextStep # <<>>, Discarded("nextStep")) \in Seq(Plain)
    BY <1>1 DEF Opt, Lanes
  <2>2. /\ <<Status("Cancelled"), SessionEnded("Cancelled")>> \in Seq(Plain)
        /\ <<SessionEnded("Cancelled")>> \in Seq(Plain)
    BY <1>1, <1>3
  <2> QED
    BY <2>1, <2>2 DEF CancelBatch
<1>11. \A kind \in {"interrupt", "cancel"} : StopBatch(kind) \in Seq(Plain)
  BY <1>2, <1>8, <1>10 DEF StopBatch
<1> QED
  BY <1>2, <1>4, <1>5, <1>7, <1>8, <1>9, <1>10, <1>11

(* ------------------------- the operations, in turn ------------------------ *)

\* What the user does to one message of the inbox.
LEMMA UserInput ==
  ASSUME Typed, Mail, NEW m \in Msgs, NEW lane \in Lanes,
         \/ \E held \in BOOLEAN, target \in {0} \cup log.turns : Submit(m, lane, held, target)
         \/ ResumeItem(m) \/ Steer(m) \/ Remove(lane, m)
  PROVE  Typed' /\ Mail'
<1>1. Driven /\ Serving
  BY DEF Submit, ResumeItem, Steer, Remove, Driven, driver, Typed, TypeOK
<1>2. ASSUME NEW held \in BOOLEAN, NEW target, Submit(m, lane, held, target)
      PROVE  Typed' /\ Mail'
  <2>1. PICK e : e = Submission(m, lane, held, target)
    OBVIOUS
  <2>2. e \in Events /\ e.type = "Enqueued" /\ (FailedRoot => e.held)
    BY <1>2, <2>1 DEF Submission, Enqueued, Events, Lanes, FailedRoot
  <2>3. e.type \in SoloTypes /\ Ready(<<e>>, e)
    BY <2>2 DEF SoloTypes, Ready
  <2>4. Write(<<e>>)
    BY <1>2, <2>1 DEF Submit
  <2> QED
    BY <1>1, <2>2, <2>3, <2>4, SoloOperation
<1>3. ASSUME ResumeItem(m)
      PROVE  Typed' /\ Mail'
  <2>1. PICK e : e = Resumed(m)
    OBVIOUS
  <2>2. e \in Events /\ e.type \in SoloTypes /\ Ready(<<e>>, e)
    BY <2>1 DEF Resumed, Events, SoloTypes, Ready
  <2> QED
    BY <1>1, <1>3, <2>1, <2>2, SoloOperation DEF ResumeItem
<1>4. ASSUME Steer(m)
      PROVE  Typed' /\ Mail'
  <2>1. PICK e : e = Steered(m)
    OBVIOUS
  <2>2. e \in Events /\ e.type \in SoloTypes /\ Ready(<<e>>, e)
    BY <1>4, <2>1 DEF Steered, Events, SoloTypes, Ready, Steer
  <2> QED
    BY <1>1, <1>4, <2>1, <2>2, SoloOperation DEF Steer
<1>5. ASSUME Remove(lane, m)
      PROVE  Typed' /\ Mail'
  <2>1. PICK e : e = Removed(lane, m)
    OBVIOUS
  <2>2. e \in Events /\ e.type \in SoloTypes /\ Ready(<<e>>, e)
    BY <1>5, <2>1 DEF Removed, Events, SoloTypes, Ready, Remove
  <2> QED
    BY <1>1, <1>5, <2>1, <2>2, SoloOperation DEF Remove
<1> QED
  BY <1>2, <1>3, <1>4, <1>5

\* The user orders a lane anew.
LEMMA ReorderStep ==
  ASSUME Typed, Mail, NEW lane \in Lanes, NEW order \in Arrangements, Reorder(lane, order)
  PROVE  Typed' /\ Mail'
<1>1. Driven /\ Serving
  BY DEF Reorder, Driven, driver, Typed, TypeOK
<1>2. PICK e : e = Reordered(lane, order)
  OBVIOUS
<1>3. e \in Events /\ e.type \in SoloTypes /\ Ready(<<e>>, e)
  BY <1>2, ArrangementSeq DEF Reordered, Events, SoloTypes, Ready, Reorder
<1> QED
  BY <1>1, <1>2, <1>3, SoloOperation DEF Reorder

\* Where the driver may be, and what a working one has.
LEMMA DriverTypes ==
  ASSUME Typed
  PROVE  /\ stage \in Stages /\ scope \in Scopes /\ halt \in {"no", "interrupt", "cancel"}
         /\ scope.turn \in 0..MaxSteps /\ scope.step \in 0..MaxSteps
         /\ stage \in Working \cup Waiting => scope.turn \in 1..MaxSteps
         /\ log.live \in Scopes /\ NoScope \in Scopes
         /\ ScopeStep(0) \in Scopes /\ ScopeStep(0).turn = scope.turn
         /\ \A s \in 1..MaxSteps : ScopeStep(s) \in Scopes /\ ScopeStep(s).turn = scope.turn
<1>1. stage \in Stages /\ scope \in Scopes /\ halt \in {"no", "interrupt", "cancel"}
  BY DEF Typed, TypeOK
<1>2. scope.turn \in 0..MaxSteps /\ scope.step \in 0..MaxSteps
  BY <1>1 DEF Scopes
<1>3. stage \in Working \cup Waiting => scope.turn \in 1..MaxSteps
  BY <1>2, Bounds DEF Typed
<1>4. log.live \in Scopes /\ NoScope \in Scopes
  BY TypedBox, Bounds DEF Logs
<1>5. ASSUME NEW s \in 0..MaxSteps
      PROVE  ScopeStep(s) \in Scopes /\ ScopeStep(s).turn = scope.turn
  BY <1>1, ScopeMoves DEF ScopeStep
<1> QED
  BY <1>1, <1>2, <1>3, <1>4, <1>5, Bounds

\* The stages at rest are neither working nor waiting.
LEMMA StageNames ==
  /\ Working \cup Waiting \cup Resting \cup Closing = Stages
  /\ (Resting \cup Closing) \cap (Working \cup Waiting) = {}
  /\ {"detached", "parked", "failed"} = Resting /\ {"failing", "aborting"} = Closing
  /\ {"announcing", "stepping", "tools", "settled", "hooked", "continuing"} = Working
  /\ {"waiting", "recovering"} = Waiting
  BY DEF Stages, Working, Waiting, Resting, Closing

\* The stops, a resumption of a recovered turn, and an answered question.
LEMMA UserPlain ==
  ASSUME Typed, Mail,
         \/ \E kind \in {"interrupt", "cancel"} : RequestStop(kind) \/ StopDetached(kind)
         \/ ResumeRecovery \/ ToolResolved
  PROVE  Typed' /\ Mail'
<1>1. ASSUME NEW kind \in {"interrupt", "cancel"}, RequestStop(kind)
      PROVE  Typed' /\ Mail'
  <2>1. Driven /\ Serving /\ Write(<<>>)
    BY <1>1, DriverTypes DEF RequestStop, Driven
  <2> QED
    BY <2>1, PlainOperation, PlainBatches
<1>2. ASSUME NEW kind \in {"interrupt", "cancel"}, StopDetached(kind)
      PROVE  Typed' /\ Mail'
  <2>1. Driven /\ Serving /\ Write(StopBatch(kind))
    BY <1>2, DriverTypes, Bounds DEF StopDetached, Driven, driver
  <2>2. StopBatch(kind) \in Seq(Plain)
    BY PlainBatches
  <2> QED
    BY <2>1, <2>2, PlainOperation
<1>3. ASSUME ResumeRecovery
      PROVE  Typed' /\ Mail'
  <2>1. PICK b : b = Opt(scope.step # 0, StepEnd) \o <<Status("Running")>>
    OBVIOUS
  <2>2. b \in Seq(Plain)
    <3>1. Opt(scope.step # 0, StepEnd) \in Seq(Plain) /\ <<Status("Running")>> \in Seq(Plain)
      BY PlainBatches DEF Statuses
    <3> QED
      BY <2>1, <3>1
  <2>3. Driven /\ Serving /\ Write(b)
    BY <1>3, <2>1, DriverTypes, StageNames DEF ResumeRecovery, Driven
  <2> QED
    BY <2>2, <2>3, PlainOperation
<1>4. ASSUME ToolResolved
      PROVE  Typed' /\ Mail'
  <2>1. Driven /\ Serving /\ Write(StatusIs("Running"))
    BY <1>4, DriverTypes, StageNames DEF ToolResolved, DriverIs, Driven
  <2>2. StatusIs("Running") \in Seq(Plain)
    BY PlainBatches DEF Statuses
  <2> QED
    BY <2>1, <2>2, PlainOperation
<1> QED
  BY <1>1, <1>2, <1>3, <1>4

\* The user resumes a failed root Session.
LEMMA ResumeSessionStep ==
  ASSUME Typed, Mail, ResumeSession
  PROVE  Typed' /\ Mail'
<1>1. Driven /\ Serving /\ Write(<<SessionResumed>>)
  BY DriverTypes, StageNames DEF ResumeSession, Driven
<1>2. PICK e : e = SessionResumed
  OBVIOUS
<1>3. e \in Events /\ e.type \in SoloTypes /\ Ready(<<e>>, e)
  BY <1>2 DEF SessionResumed, Events, SoloTypes, Ready
<1> QED
  BY <1>1, <1>2, <1>3, SoloOperation

\* The user archives the Session, ending it first.
LEMMA ArchiveStep ==
  ASSUME Typed, Mail, Archive
  PROVE  Typed' /\ Mail'
<1>1. PICK r : r = IF ended THEN <<>> ELSE <<Status("Completed"), SessionEnded("Completed")>>
  OBVIOUS
<1>2. PICK moved \in BOOLEAN : Write(r \o Opt(moved, Rename))
           /\ stage' = IF moved THEN "detached" ELSE stage
  BY <1>1 DEF Archive
<1>3. Driven /\ Serving
  BY <1>2, DriverTypes, StageNames DEF Archive, Driven
<1>4. Complete
  BY <1>3, ServingComplete
<1>5. r \in Seq(Plain)
  <2>1. Status("Completed") \in Plain /\ SessionEnded("Completed") \in Plain
    BY PlainMade DEF Statuses, Terminal
  <2> QED
    BY <1>1, <2>1
<1>6. ended \/ Has(r, "SessionEnded")
  <2>1. ~ended => r[2].type = "SessionEnded" /\ 2 \in DOMAIN r
    BY <1>1 DEF SessionEnded
  <2> QED
    BY <2>1 DEF Has, Range
<1>7. CASE moved
  <2>1. Write(r \o <<Rename>>)
    BY <1>2, <1>7 DEF Opt
  <2>2. r \o <<Rename>> \in Seq(Events) /\ Fitting(r \o <<Rename>>)
    BY <1>4, <1>5, <1>6, MovedFits
  <2> QED
    BY <1>3, <2>1, <2>2, Operation DEF Serving
<1>8. CASE ~moved
  <2>1. Write(r)
    BY <1>2, <1>5, <1>8 DEF Opt
  <2> QED
    BY <1>3, <1>5, <2>1, PlainOperation
<1> QED
  BY <1>7, <1>8

\* A driver takes over what the log left open.
LEMMA AttachStep ==
  ASSUME Typed, Mail, Attach
  PROVE  Typed' /\ Mail'
<1>1. Serving /\ halt' = halt
  BY DEF Attach
<1>2. CASE Write(<<>>)
  <2>1. Driven
    BY <1>1, <1>2, DriverTypes, StageNames DEF Attach, Driven, NoScope
  <2> QED
    BY <1>1, <1>2, <2>1, PlainOperation, PlainBatches
<1>3. CASE Write(CloseScope(log.live)) /\ stage' = "aborting" /\ scope' = NoScope
  <2>1. Driven
    BY <1>1, <1>3, DriverTypes, StageNames DEF Driven
  <2>2. CloseScope(log.live) \in Seq(Plain)
    BY PlainBatches, DriverTypes
  <2> QED
    BY <1>1, <1>3, <2>1, <2>2, PlainOperation
<1> QED
  BY <1>2, <1>3 DEF Attach

\* A turn that goes on, or rests.
LEMMA TurnPlain ==
  ASSUME Typed, Mail,
         \/ Announce \/ GoIdle \/ AnswerText \/ AnswerTools \/ ToolsComplete \/ ToolsWait
         \/ EndTurnIfNoStepInput
  PROVE  Typed' /\ Mail'
<1>1. /\ StatusIs("Running") \in Seq(Plain) /\ <<Status("Idle")>> \in Seq(Plain)
      /\ <<Assistant("text"), Usage, StepEnd>> \in Seq(Plain)
      /\ <<Assistant("tools"), Usage>> \in Seq(Plain) /\ <<StepEnd>> \in Seq(Plain)
      /\ <<StepEnd, Status("Waiting")>> \in Seq(Plain) /\ <<Status("Waiting")>> \in Seq(Plain)
      /\ <<TurnEnd>> \in Seq(Plain) /\ <<>> \in Seq(Plain)
  BY PlainBatches DEF Statuses
<1>2. CASE Announce
  <2>1. Driven /\ Serving /\ Write(StatusIs("Running"))
    BY <1>2, DriverTypes, StageNames DEF Announce, DriverIs, Driven
  <2> QED
    BY <1>1, <2>1, PlainOperation
<1>3. CASE GoIdle
  <2>1. Driven /\ Serving /\ Write(<<Status("Idle")>>)
    BY <1>3, DriverTypes, StageNames DEF GoIdle, DriverIs, Driven
  <2> QED
    BY <1>1, <2>1, PlainOperation
<1>4. CASE AnswerText
  <2>1. Driven /\ Serving /\ Write(<<Assistant("text"), Usage, StepEnd>>)
    BY <1>4, DriverTypes, StageNames DEF AnswerText, Driven
  <2> QED
    BY <1>1, <2>1, PlainOperation
<1>5. CASE AnswerTools
  <2>1. Driven /\ Serving /\ Write(<<Assistant("tools"), Usage>>)
    BY <1>5, DriverTypes, StageNames DEF AnswerTools, DriverIs, Driven
  <2> QED
    BY <1>1, <2>1, PlainOperation
<1>6. CASE ToolsComplete
  <2>1. Driven /\ Serving /\ Write(<<StepEnd>>)
    BY <1>6, DriverTypes, StageNames DEF ToolsComplete, Driven
  <2> QED
    BY <1>1, <2>1, PlainOperation
<1>7. CASE ToolsWait
  <2>1. Driven /\ Serving
    BY <1>7, DriverTypes, StageNames DEF ToolsWait, Driven
  <2> QED
    BY <1>1, <1>7, <2>1, PlainOperation DEF ToolsWait
<1>8. CASE EndTurnIfNoStepInput
  <2>1. Driven /\ Serving
    BY <1>8, DriverTypes, StageNames DEF EndTurnIfNoStepInput, Driven
  <2> QED
    BY <1>1, <1>8, <2>1, PlainOperation DEF EndTurnIfNoStepInput
<1> QED
  BY <1>2, <1>3, <1>4, <1>5, <1>6, <1>7, <1>8

\* A turn that is given up, and a Session that is.
LEMMA GivenUpPlain ==
  ASSUME Typed, Mail,
         \/ DriverPauses \/ FailTurn \/ Terminate \/ TurnLimitExceeded \/ DriverRejected
         \/ StopAtStep \/ FinishStop \/ StopRefused
  PROVE  Typed' /\ Mail'
<1>1. /\ PauseBatch \in Seq(Plain) /\ CloseScope(scope) \in Seq(Plain)
      /\ TerminateBatch \in Seq(Plain) /\ <<>> \in Seq(Plain)
      /\ \A kind \in {"interrupt", "cancel"} : StopBatch(kind) \in Seq(Plain)
  BY PlainBatches, DriverTypes
<1>2. CASE DriverPauses
  <2>1. Driven /\ Serving /\ Write(PauseBatch)
    BY <1>2, DriverTypes, StageNames DEF DriverPauses, Driven
  <2> QED
    BY <1>1, <2>1, PlainOperation
<1>3. CASE FailTurn
  <2>1. Driven /\ Serving /\ Write(CloseScope(scope))
    BY <1>3, DriverTypes, StageNames DEF FailTurn, Driven
  <2> QED
    BY <1>1, <2>1, PlainOperation
<1>4. CASE Terminate
  <2>1. Driven /\ Serving /\ Write(TerminateBatch)
    BY <1>4, DriverTypes, StageNames DEF Terminate, DriverIs, Driven
  <2> QED
    BY <1>1, <2>1, PlainOperation
<1>5. CASE TurnLimitExceeded
  <2>1. Driven /\ Serving /\ Write(TerminateBatch)
    BY <1>5, DriverTypes, StageNames DEF TurnLimitExceeded, DriverIs, Driven
  <2> QED
    BY <1>1, <2>1, PlainOperation
<1>6. CASE DriverRejected
  <2>1. Driven /\ Serving /\ Write(<<>>)
    BY <1>6, DriverTypes, StageNames DEF DriverRejected, DriverIs, Driven
  <2> QED
    BY <1>1, <2>1, PlainOperation
<1>7. CASE StopAtStep
  <2>1. Driven /\ Serving /\ Write(CloseScope(scope))
    BY <1>7, DriverTypes, StageNames DEF StopAtStep, Driven
  <2> QED
    BY <1>1, <2>1, PlainOperation
<1>8. CASE FinishStop
  <2>1. Driven /\ Serving
    BY <1>8, DriverTypes, StageNames DEF FinishStop, Driven
  <2> QED
    BY <1>1, <1>8, <2>1, DriverTypes, PlainOperation DEF FinishStop
<1>9. CASE StopRefused
  <2>1. Driven /\ Serving /\ Write(<<>>)
    BY <1>9, DriverTypes, StageNames DEF StopRefused, Driven
  <2> QED
    BY <1>1, <2>1, PlainOperation
<1> QED
  BY <1>2, <1>3, <1>4, <1>5, <1>6, <1>7, <1>8, <1>9

(* ------------------------------ claim batches ----------------------------- *)

\* The part of a claim's batch before what it says.
Front(p) == /\ p \in Seq(Events) /\ InOrder(p)
            /\ \A e \in Range(p) : e.type \in ClaimTypes \ {"UserMessage"}

\* The events of a claim after its head, before what it says.
LEMMA MidFront ==
  ASSUME NEW q \in Seq(Mid)
  PROVE  Front(q)
<1>1. \A i \in DOMAIN q : q[i] \in Mid
  OBVIOUS
<1>2. \A e \in Mid : e \in Events /\ Rank(e) = 2 /\ e.type \in ClaimTypes \ {"UserMessage"}
  BY DEF Mid, Rank, ClaimTypes
<1> QED
  BY <1>1, <1>2 DEF Front, InOrder, Range

\* The head of a claim, alone.
LEMMA ClaimFront ==
  ASSUME NEW e \in Events, e.type = "StepInputClaim"
  PROVE  Front(<<e>>) /\ Range(<<e>>) = {e}
  BY DEF Front, InOrder, ClaimTypes, Range

\* Two batches one after the other.
LEMMA JoinOrder ==
  ASSUME NEW p \in Seq(Events), NEW q \in Seq(Events), NEW r, r = p \o q,
         InOrder(p), InOrder(q), \A f \in Range(q) : Rank(f) # 1,
         \A e \in Range(p), f \in Range(q) : Rank(e) <= Rank(f)
  PROVE  r \in Seq(Events) /\ Range(r) = Range(p) \cup Range(q) /\ InOrder(r)
<1>1. r \in Seq(Events) /\ Range(r) = Range(p) \cup Range(q)
  BY JoinSeq
<1>2. Len(p) \in Nat /\ Len(q) \in Nat /\ DOMAIN p = 1..Len(p) /\ DOMAIN q = 1..Len(q)
  OBVIOUS
<1>3. /\ DOMAIN r = 1..(Len(p) + Len(q)) /\ \A i \in 1..Len(p) : r[i] = p[i]
      /\ \A i \in DOMAIN r : i > Len(p) => r[i] = q[i - Len(p)] /\ i - Len(p) \in 1..Len(q)
  BY <1>2, ConcatProperties
<1>4. ASSUME NEW i \in DOMAIN r, NEW j \in DOMAIN r, i < j
      PROVE  Rank(r[i]) <= Rank(r[j]) /\ Rank(r[j]) # 1
  <2>1. CASE j \in 1..Len(p)
    <3>1. i \in 1..Len(p) /\ r[i] = p[i] /\ r[j] = p[j]
      BY <1>2, <1>3, <1>4, <2>1
    <3> QED
      BY <1>2, <1>4, <2>1, <3>1 DEF InOrder
  <2>2. CASE j \notin 1..Len(p)
    <3>1. j > Len(p) /\ r[j] = q[j - Len(p)] /\ j - Len(p) \in DOMAIN q
      BY <1>2, <1>3, <1>4, <2>2
    <3>2. r[j] \in Range(q)
      BY <3>1 DEF Range
    <3>3. CASE i \in 1..Len(p)
      <4>1. r[i] \in Range(p)
        BY <1>2, <1>3, <3>3 DEF Range
      <4> QED
        BY <3>2, <4>1
    <3>4. CASE i \notin 1..Len(p)
      <4>1. /\ r[i] = q[i - Len(p)] /\ i - Len(p) \in DOMAIN q /\ i - Len(p) < j - Len(p)
        BY <1>2, <1>3, <1>4, <3>4
      <4> QED
        BY <3>1, <3>2, <4>1 DEF InOrder
    <3> QED
      BY <3>3, <3>4
  <2> QED
    BY <2>1, <2>2
<1> QED
  BY <1>1, <1>4 DEF InOrder

\* Such a front grows by such events.
LEMMA FrontJoin ==
  ASSUME NEW p, Front(p), NEW q \in Seq(Mid), NEW r, r = p \o q
  PROVE  Front(r) /\ Range(r) = Range(p) \cup Range(q)
<1>1. /\ p \in Seq(Events) /\ InOrder(p) /\ q \in Seq(Events) /\ InOrder(q)
      /\ \A e \in Range(p) : e.type \in ClaimTypes \ {"UserMessage"}
      /\ \A e \in Range(q) : e.type \in ClaimTypes \ {"UserMessage"}
  BY MidFront DEF Front
<1>2. \A f \in Range(q) : Rank(f) = 2
  BY DEF Range, Mid, Rank
<1>3. \A e \in Range(p) : Rank(e) \in {1, 2}
  BY <1>1 DEF Rank, ClaimTypes
<1>4. r \in Seq(Events) /\ Range(r) = Range(p) \cup Range(q) /\ InOrder(r)
  <2>1. /\ \A f \in Range(q) : Rank(f) # 1
        /\ \A e \in Range(p), f \in Range(q) : Rank(e) <= Rank(f)
    BY <1>2, <1>3
  <2> QED
    BY <1>1, <2>1, JoinOrder
<1> QED
  BY <1>1, <1>4 DEF Front

\* A front followed by what the claim says is in order and says each message once.
LEMMA FrontSays ==
  ASSUME NEW p, Front(p), NEW u \in Seq(Lines), SaysOnce(u), NEW r, r = p \o u
  PROVE  /\ r \in Seq(Events) /\ Range(r) = Range(p) \cup Range(u) /\ InOrder(r) /\ SaysOnce(r)
         /\ \A e \in Range(r) : e.type \in ClaimTypes
<1>1. /\ p \in Seq(Events) /\ InOrder(p)
      /\ \A e \in Range(p) : e.type \in ClaimTypes \ {"UserMessage"}
  BY DEF Front
<1>2. \A i \in DOMAIN u : u[i] \in Lines
  OBVIOUS
<1>3. \A f \in Lines : f \in Events /\ f.type = "UserMessage" /\ Rank(f) = 3
  BY DEF Lines, Rank
<1>4. u \in Seq(Events) /\ InOrder(u) /\ \A f \in Range(u) : f.type = "UserMessage" /\ Rank(f) = 3
  BY <1>2, <1>3 DEF InOrder, Range
<1>5. \A e \in Range(p) : Rank(e) \in {1, 2}
  BY <1>1 DEF Rank, ClaimTypes
<1>6. r \in Seq(Events) /\ Range(r) = Range(p) \cup Range(u) /\ InOrder(r)
  <2>1. /\ \A f \in Range(u) : Rank(f) # 1
        /\ \A e \in Range(p), f \in Range(u) : Rank(e) <= Rank(f)
    BY <1>4, <1>5
  <2> QED
    BY <1>1, <1>4, <2>1, JoinOrder
<1>7. SaysOnce(r)
  <2>1. Len(p) \in Nat /\ Len(u) \in Nat /\ DOMAIN p = 1..Len(p) /\ DOMAIN u = 1..Len(u)
    BY <1>1
  <2>2. /\ DOMAIN r = 1..(Len(p) + Len(u)) /\ \A i \in 1..Len(p) : r[i] = p[i]
        /\ \A i \in DOMAIN r : i > Len(p) => r[i] = u[i - Len(p)] /\ i - Len(p) \in 1..Len(u)
    BY <1>1, <2>1, ConcatProperties
  <2>3. ASSUME NEW i \in DOMAIN r, r[i].type = "UserMessage"
        PROVE  i > Len(p) /\ r[i] = u[i - Len(p)] /\ i - Len(p) \in DOMAIN u
    <3>1. i \in 1..Len(p) => r[i] \in Range(p)
      BY <2>1, <2>2 DEF Range
    <3>2. i \notin 1..Len(p)
      BY <1>1, <2>3, <3>1
    <3> QED
      BY <2>1, <2>2, <3>2
  <2>4. ASSUME NEW i \in DOMAIN r, NEW j \in DOMAIN r, r[i].type = "UserMessage",
               r[j].type = "UserMessage", r[i].line.msg = r[j].line.msg
        PROVE  i = j
    <3>1. i - Len(p) = j - Len(p)
      BY <2>3, <2>4 DEF SaysOnce
    <3> QED
      BY <2>1, <2>2, <3>1
  <2> QED
    BY <2>4 DEF SaysOnce
<1> QED
  BY <1>1, <1>4, <1>6, <1>7 DEF ClaimTypes

\* A claim's batch takes and says what the claim says, of what may run.
LEMMA ClaimFits ==
  ASSUME Typed, Mail, Complete, NEW p \in Seq(Events), InOrder(p), SaysOnce(p), NEW c \in Claims,
         \A e \in Range(p) : e.type \in ClaimTypes /\ (e.type = "StepInputClaim" => e.claim = c),
         \A m : Takes(p, m) <=> m \in ClaimSet(c), \A m : Says(p, m) <=> m \in ClaimSet(c),
         \A m \in ClaimSet(c) : Intends(p, m), ClaimSet(c) \subseteq Unpaused,
         c.start => Opens(p, c.turn), Starts(p, NextStepId), NextStepId <= MaxSteps
  PROVE  Fitting(p)
<1>1. Follows(p, c, NextStepId)
  BY DEF Follows
<1>2. \A e \in Range(p) : Ready(p, e) /\ Sound(p, e)
  BY <1>1 DEF Ready, Sound, ClaimTypes, SoloTypes
<1>3. SaidMsgs \cap Queued = {}
  BY DEF Mail, Accounts
<1>4. \A m \in Msgs : Says(p, m) => m \notin SaidMsgs /\ Takes(p, m)
  BY <1>3 DEF Unpaused
<1> QED
  BY <1>2, <1>4 DEF Fitting

\* The rest of a torn claim takes and says what is missing.
LEMMA RestFits ==
  ASSUME Typed, Mail, NEW p \in Seq(Events), InOrder(p), SaysOnce(p), NEW k \in DOMAIN log.claims,
         NEW c, c = log.claims[k],
         \A e \in Range(p) : e.type \in ClaimTypes \ {"StepInputClaim"},
         \A m : Takes(p, m) <=> m \in ClaimSet(c) \cap Queued,
         \A m : Says(p, m) <=> m \in ClaimSet(c) \ SaidMsgs
  PROVE  Fitting(p)
<1>1. \A e \in Range(p) : Ready(p, e) /\ Sound(p, e)
  BY DEF Ready, Sound, ClaimTypes, SoloTypes
<1>2. ClaimSet(c) \subseteq ClaimedMsgs
  BY CompleteIs
<1> QED
  BY <1>1, <1>2 DEF Fitting

\* An optional event of a claim.
LEMMA MidOpt ==
  /\ \A lane \in Lanes, q \in Seq(Msgs) :
       /\ Opt(q # <<>>, Claimed(lane, q)) \in Seq(Mid)
       /\ \A e : e \in Range(Opt(q # <<>>, Claimed(lane, q))) <=> q # <<>> /\ e = Claimed(lane, q)
  /\ \A c \in BOOLEAN, t \in 1..MaxSteps :
       /\ Opt(c, TurnStart(t)) \in Seq(Mid) /\ Opt(c, StepStart(t)) \in Seq(Mid)
       /\ \A e : e \in Range(Opt(c, TurnStart(t))) <=> c /\ e = TurnStart(t)
       /\ \A e : e \in Range(Opt(c, StepStart(t))) <=> c /\ e = StepStart(t)
<1>1. ASSUME NEW e \in Mid, NEW c \in BOOLEAN
      PROVE  Opt(c, e) \in Seq(Mid) /\ \A f : f \in Range(Opt(c, e)) <=> c /\ f = e
  BY <1>1, OptSeq
<1> QED
  BY <1>1, MidMade

\* Two sequences without repetition and without a common message join to one.
LEMMA JoinInjective ==
  ASSUME NEW p \in Seq(Msgs), NEW q \in Seq(Msgs), IsInjective(p), IsInjective(q),
         Range(p) \cap Range(q) = {}
  PROVE  IsInjective(p \o q)
<1> DEFINE r == p \o q
<1>1. /\ Len(p) \in Nat /\ Len(q) \in Nat /\ DOMAIN p = 1..Len(p) /\ DOMAIN q = 1..Len(q)
      /\ DOMAIN r = 1..(Len(p) + Len(q)) /\ \A i \in 1..Len(p) : r[i] = p[i]
      /\ \A i \in DOMAIN r : i > Len(p) => r[i] = q[i - Len(p)] /\ i - Len(p) \in 1..Len(q)
  BY ConcatProperties
<1> HIDE DEF r
<1>2. \A i \in 1..Len(p) : r[i] \in Range(p)
  BY <1>1 DEF Range
<1>3. \A i \in DOMAIN r : i > Len(p) => r[i] \in Range(q)
  BY <1>1 DEF Range
<1>4. ASSUME NEW i \in DOMAIN r, NEW j \in DOMAIN r, r[i] = r[j]
      PROVE  i = j
  <2>1. CASE i \in 1..Len(p) /\ j \in 1..Len(p)
    BY <1>1, <1>4, <2>1 DEF IsInjective
  <2>2. CASE i > Len(p) /\ j > Len(p)
    <3>1. i - Len(p) = j - Len(p)
      BY <1>1, <1>4, <2>2 DEF IsInjective
    <3> QED
      BY <1>1, <1>4, <3>1
  <2> QED
    BY <1>1, <1>2, <1>3, <1>4, <2>1, <2>2
<1> QED
  BY <1>4 DEF IsInjective, r

\* What a claim's batch holds makes it fit.
LEMMA ClaimContents ==
  ASSUME Typed, Mail, Complete, NEW tq \in Seq(Msgs), NEW sq \in Seq(Msgs), NEW s \in 1..MaxSteps,
         s = NextStepId, NEW e0, e0.type = "StepInputClaim", NEW c \in Claims, c = e0.claim,
         c.start => c.turn = s, ClaimSet(c) =
           Range(tq) \cup Range(sq), ClaimSet(c) \subseteq Unpaused,
         NEW u, \A e \in Range(u) : e.type = "UserMessage", \A m : Says(u, m) <=> m \in ClaimSet(c),
         NEW p \in Seq(Events), InOrder(p), SaysOnce(p), \A e \in Range(p) : e.type \in ClaimTypes,
         \A e : e \in Range(p) <=>
           \/ e = e0 \/ (tq # <<>> /\ e = Claimed("nextTurn", tq)) \/ (c.start /\ e = TurnStart(s))
           \/ (sq # <<>> /\ e = Claimed("nextStep", sq)) \/ e = StepStart(s) \/ e \in Range(u)
  PROVE  Fitting(p)
<1>1. /\ Claimed("nextTurn", tq).type = "Claimed" /\ Claimed("nextTurn", tq).msgs = tq
      /\ Claimed("nextStep", sq).type = "Claimed" /\ Claimed("nextStep", sq).msgs = sq
      /\ TurnStart(s).type = "TurnStart" /\ TurnStart(s).id = s
      /\ StepStart(s).type = "StepStart" /\ StepStart(s).id = s
  BY DEF Claimed, TurnStart, StepStart
<1>2. ASSUME NEW m
      PROVE  Takes(p, m) <=> m \in ClaimSet(c)
  <2>1. (m \in Range(tq) => tq # <<>>) /\ (m \in Range(sq) => sq # <<>>)
    BY DEF Range
  <2>2. ASSUME m \in Range(tq)
        PROVE  Takes(p, m)
    BY <1>1, <2>1, <2>2 DEF Takes
  <2>3. ASSUME m \in Range(sq)
        PROVE  Takes(p, m)
    BY <1>1, <2>1, <2>3 DEF Takes
  <2>4. ASSUME NEW e \in Range(p), e.type = "Claimed", m \in Range(e.msgs)
        PROVE  m \in ClaimSet(c)
    BY <1>1, <2>4
  <2> QED
    BY <2>2, <2>3, <2>4 DEF Takes
<1>3. ASSUME NEW m
      PROVE  Says(p, m) <=> m \in ClaimSet(c)
  <2>1. ASSUME NEW e \in Range(p), e.type = "UserMessage"
        PROVE  e \in Range(u)
    BY <1>1, <2>1
  <2> QED
    BY <2>1 DEF Says
<1>4. \A e \in Range(p) : e.type = "StepInputClaim" => e.claim = c
  BY <1>1
<1>5. \A m \in ClaimSet(c) : Intends(p, m)
  BY DEF Intends
<1>6. c.start => Opens(p, c.turn)
  BY <1>1 DEF Opens
<1>7. Starts(p, NextStepId) /\ NextStepId <= MaxSteps
  BY <1>1 DEF Starts
<1> QED
  BY <1>2, <1>3, <1>4, <1>5, <1>6, <1>7, ClaimFits

\* A turn begins: claim, messages taken, boundaries, messages said.
LEMMA BeginTurnStep ==
  ASSUME Typed, Mail, BeginTurn
  PROVE  Typed' /\ Mail'
<1> DEFINE s == NextStepId
<1>1. Serving /\ s <= MaxSteps /\ Complete
  BY ServingComplete DEF BeginTurn
<1>2. s \in 1..MaxSteps /\ Len(log.claims) \in Nat
  BY <1>1, TypedBox, Bounds DEF NextStepId, Logs
<1>3. PICK tq \in TurnClaims, sq \in StepClaims :
        Write(<<Claim(s, TRUE, tq, sq)>> \o Opt(tq # <<>>, Claimed("nextTurn", tq))
              \o <<TurnStart(s)>> \o Opt(sq # <<>>, Claimed("nextStep", sq))
              \o <<StepStart(s)>> \o UserMessages(tq \o sq, s))
  BY DEF BeginTurn
<1>4. /\ tq \in Seq(Msgs) /\ Range(tq) \subseteq Range(inbox.nextTurn) \ inbox.paused
      /\ IsInjective(tq)
      /\ sq \in Seq(Msgs) /\ Range(sq) = Range(inbox.nextStep) \ inbox.paused /\ IsInjective(sq)
  BY TurnClaimOf, StepClaimOf
<1>5. PICK said2 : said2 = tq \o sq
  OBVIOUS
<1>6. said2 \in Seq(Msgs) /\ Range(said2) = Range(tq) \cup Range(sq) /\ IsInjective(said2)
  <2>1. Range(tq) \cap Range(sq) = {}
    BY <1>4 DEF Mail, Accounts
  <2> QED
    BY <1>4, <1>5, <2>1, JoinSeq, JoinInjective
<1>7. PICK e0, q1, q2, q3, q4, u :
        /\ e0 = Claim(s, TRUE, tq, sq)
        /\ q1 = Opt(tq # <<>>, Claimed("nextTurn", tq)) /\ q2 = <<TurnStart(s)>>
        /\ q3 = Opt(sq # <<>>, Claimed("nextStep", sq)) /\ q4 = <<StepStart(s)>>
        /\ u = UserMessages(said2, s)
  OBVIOUS
<1>8. PICK c : c = e0.claim
  OBVIOUS
<1> HIDE DEF s
<1>9. /\ e0 \in Events /\ e0.type = "StepInputClaim" /\ c \in Claims
      /\ c.turn = s /\ c.start /\ ClaimSet(c) = Range(tq) \cup Range(sq)
  <2>1. PICK start \in BOOLEAN : start
    OBVIOUS
  <2>2. e0 = Claim(s, start, tq, sq)
    BY <1>7, <2>1
  <2>3. /\ e0 \in Events /\ e0.type = "StepInputClaim" /\ e0.claim \in Claims
        /\ e0.claim.turn = s /\ e0.claim.start = start
        /\ ClaimSet(e0.claim) = Range(tq) \cup Range(sq)
    BY <1>2, <1>4, <2>2, ClaimMade
  <2> QED
    BY <1>8, <2>1, <2>3
<1>10. /\ q1 \in Seq(Mid) /\ q2 \in Seq(Mid) /\ q3 \in Seq(Mid) /\ q4 \in Seq(Mid)
       /\ \A e : e \in Range(q1) <=> tq # <<>> /\ e = Claimed("nextTurn", tq)
       /\ \A e : e \in Range(q2) <=> e = TurnStart(s)
       /\ \A e : e \in Range(q3) <=> sq # <<>> /\ e = Claimed("nextStep", sq)
       /\ \A e : e \in Range(q4) <=> e = StepStart(s)
  <2>1. "nextTurn" \in Lanes /\ "nextStep" \in Lanes
    BY DEF Lanes
  <2>2. q2 = Opt(TRUE, TurnStart(s)) /\ q4 = Opt(TRUE, StepStart(s))
    BY <1>7 DEF Opt
  <2> QED
    BY <1>2, <1>4, <1>7, <2>1, <2>2, MidOpt
<1>11. /\ u \in Seq(Lines) /\ SaysOnce(u) /\ \A m : Says(u, m) <=> m \in ClaimSet(c)
  BY <1>2, <1>6, <1>7, <1>9, LinesMade
<1>12. PICK p1, p2, p3, p4, p : p1 = <<e0>> \o q1 /\ p2 = p1 \o q2 /\ p3 = p2 \o q3
                               /\ p4 = p3 \o q4 /\ p = p4 \o u
  OBVIOUS
<1>13. /\ Front(p4) /\ \A e : e \in Range(p4) <=> \/ e = e0 \/ e \in Range(q1) \/ e \in Range(q2)
                                                  \/ e \in Range(q3) \/ e \in Range(q4)
  <2>1. Front(<<e0>>) /\ Range(<<e0>>) = {e0}
    BY <1>9, ClaimFront
  <2>2. Front(p1) /\ Range(p1) = Range(<<e0>>) \cup Range(q1)
    BY <1>10, <1>12, <2>1, FrontJoin
  <2>3. Front(p2) /\ Range(p2) = Range(p1) \cup Range(q2)
    BY <1>10, <1>12, <2>2, FrontJoin
  <2>4. Front(p3) /\ Range(p3) = Range(p2) \cup Range(q3)
    BY <1>10, <1>12, <2>3, FrontJoin
  <2>5. Front(p4) /\ Range(p4) = Range(p3) \cup Range(q4)
    <3>1. Front(p3) /\ q4 \in Seq(Mid) /\ p4 = p3 \o q4
      BY <1>10, <1>12, <2>4
    <3> QED
      BY <3>1, FrontJoin
  <2>6. Range(p4) = ((({e0} \cup Range(q1)) \cup Range(q2)) \cup Range(q3)) \cup Range(q4)
    BY <2>1, <2>2, <2>3, <2>4, <2>5
  <2> QED
    BY <2>5, <2>6
<1>14. /\ p \in Seq(Events) /\ Range(p) = Range(p4) \cup Range(u) /\ InOrder(p) /\ SaysOnce(p)
       /\ \A e \in Range(p) : e.type \in ClaimTypes
  <2>1. Front(p4) /\ u \in Seq(Lines) /\ SaysOnce(u) /\ p = p4 \o u
    BY <1>11, <1>12, <1>13
  <2> QED
    BY <2>1, FrontSays
<1>15. \A e : e \in Range(p) <=>
         \/ e = e0 \/ (tq # <<>> /\ e = Claimed("nextTurn", tq)) \/ e = TurnStart(s)
         \/ (sq # <<>> /\ e = Claimed("nextStep", sq)) \/ e = StepStart(s) \/ e \in Range(u)
  BY <1>10, <1>13, <1>14
<1>16. \A e \in Range(u) : e.type = "UserMessage"
  BY <1>11 DEF Range, Lines
<1>17. ClaimSet(c) \subseteq Unpaused
  BY <1>4, <1>9 DEF Unpaused, Queued
<1>18. Fitting(p)
  <2>1. s = NextStepId /\ (c.start => c.turn = s)
    BY <1>9 DEF s
  <2>2. \A e : e \in Range(p) <=>
          \/ e = e0 \/ (tq # <<>> /\ e = Claimed("nextTurn", tq)) \/ (c.start /\ e = TurnStart(s))
          \/ (sq # <<>> /\ e = Claimed("nextStep", sq)) \/ e = StepStart(s) \/ e \in Range(u)
    BY <1>9, <1>15
  <2>3. tq \in Seq(Msgs) /\ sq \in Seq(Msgs) /\ s \in 1..MaxSteps /\ Complete
    BY <1>1, <1>2, <1>4
  <2>4. /\ e0.type = "StepInputClaim" /\ c \in Claims /\ c = e0.claim
        /\ ClaimSet(c) = Range(tq) \cup Range(sq) /\ ClaimSet(c) \subseteq Unpaused
    BY <1>8, <1>9, <1>17
  <2>5. /\ \A m : Says(u, m) <=> m \in ClaimSet(c)
        /\ p \in Seq(Events) /\ InOrder(p) /\ SaysOnce(p)
        /\ \A e \in Range(p) : e.type \in ClaimTypes
    BY <1>11, <1>14
  <2> QED
    BY <1>16, <2>1, <2>2, <2>3, <2>4, <2>5, ClaimContents
<1>19. Write(p)
  BY <1>3, <1>5, <1>7, <1>12
<1>20. Driven
  <2>1. stage' = "announcing" /\ scope' = [turn |-> s, step |-> s] /\ halt' = halt
    BY DEF BeginTurn, s
  <2>2. scope' \in Scopes /\ scope'.turn # 0
    BY <1>2, <2>1 DEF Scopes
  <2> QED
    BY <2>1, <2>2, DriverTypes, StageNames DEF Driven
<1> QED
  BY <1>1, <1>14, <1>18, <1>19, <1>20, Operation DEF Serving

\* A further step of the turn begins.
LEMMA NextStepStep ==
  ASSUME Typed, Mail, Serving, NEW sq \in StepClaims, NextStep(sq), stage \in Working, halt' = halt
  PROVE  Typed' /\ Mail'
<1> DEFINE s == NextStepId
<1>1. s <= MaxSteps /\ Complete
  BY ServingComplete DEF NextStep
<1>2. s \in 1..MaxSteps /\ scope.turn \in 1..MaxSteps
  BY <1>1, TypedBox, Bounds, DriverTypes DEF NextStepId, Logs
<1>3. Write(<<Claim(scope.turn, FALSE, <<>>, sq)>> \o Opt(sq # <<>>, Claimed("nextStep", sq))
            \o <<StepStart(s)>> \o UserMessages(sq, s))
  BY DEF NextStep
<1>4. /\ sq \in Seq(Msgs) /\ Range(sq) = Range(inbox.nextStep) \ inbox.paused /\ IsInjective(sq)
      /\ <<>> \in Seq(Msgs) /\ Range(<<>>) = {}
  BY StepClaimOf DEF Range
<1>5. PICK e0, q1, q2, u, tq :
        /\ e0 = Claim(scope.turn, FALSE, tq, sq) /\ tq = <<>>
        /\ q1 = Opt(sq # <<>>, Claimed("nextStep", sq)) /\ q2 = <<StepStart(s)>>
        /\ u = UserMessages(sq, s)
  OBVIOUS
<1>6. PICK c : c = e0.claim
  OBVIOUS
<1> HIDE DEF s
<1>7. /\ e0 \in Events /\ e0.type = "StepInputClaim" /\ c \in Claims
      /\ ~c.start /\ ClaimSet(c) = Range(tq) \cup Range(sq) /\ tq \in Seq(Msgs) /\ Range(tq) = {}
  <2>1. PICK start \in BOOLEAN : ~start
    OBVIOUS
  <2>2. e0 = Claim(scope.turn, start, tq, sq) /\ tq \in Seq(Msgs) /\ Range(tq) = {}
    BY <1>4, <1>5, <2>1
  <2>3. /\ e0 \in Events /\ e0.type = "StepInputClaim" /\ e0.claim \in Claims
        /\ e0.claim.start = start /\ ClaimSet(e0.claim) = Range(tq) \cup Range(sq)
    BY <1>2, <1>4, <2>2, ClaimMade
  <2> QED
    BY <1>6, <2>1, <2>2, <2>3
<1>8. /\ q1 \in Seq(Mid) /\ q2 \in Seq(Mid)
      /\ \A e : e \in Range(q1) <=> sq # <<>> /\ e = Claimed("nextStep", sq)
      /\ \A e : e \in Range(q2) <=> e = StepStart(s)
  <2>1. "nextStep" \in Lanes
    BY DEF Lanes
  <2>2. q2 = Opt(TRUE, StepStart(s)) /\ TRUE \in BOOLEAN
    BY <1>5 DEF Opt
  <2>3. q1 = Opt(sq # <<>>, Claimed("nextStep", sq)) /\ sq \in Seq(Msgs)
    BY <1>4, <1>5
  <2>4. q1 \in Seq(Mid) /\ \A e : e \in Range(q1) <=> sq # <<>> /\ e = Claimed("nextStep", sq)
    BY <2>1, <2>3, MidOpt
  <2>5. q2 \in Seq(Mid) /\ \A e : e \in Range(q2) <=> e = StepStart(s)
    BY <1>2, <2>2, MidOpt
  <2> QED
    BY <2>4, <2>5
<1>9. /\ u \in Seq(Lines) /\ SaysOnce(u) /\ \A m : Says(u, m) <=> m \in ClaimSet(c)
  BY <1>2, <1>4, <1>5, <1>7, LinesMade
<1>10. PICK p1, p2, p : p1 = <<e0>> \o q1 /\ p2 = p1 \o q2 /\ p = p2 \o u
  OBVIOUS
<1>11. Front(p2) /\ \A e : e \in Range(p2) <=> e = e0 \/ e \in Range(q1) \/ e \in Range(q2)
  <2>1. Front(<<e0>>) /\ Range(<<e0>>) = {e0}
    BY <1>7, ClaimFront
  <2>2. Front(p1) /\ Range(p1) = Range(<<e0>>) \cup Range(q1)
    BY <1>8, <1>10, <2>1, FrontJoin
  <2>3. Front(p2) /\ Range(p2) = Range(p1) \cup Range(q2)
    BY <1>8, <1>10, <2>2, FrontJoin
  <2> QED
    BY <2>1, <2>2, <2>3
<1>12. /\ p \in Seq(Events) /\ Range(p) = Range(p2) \cup Range(u) /\ InOrder(p) /\ SaysOnce(p)
       /\ \A e \in Range(p) : e.type \in ClaimTypes
  <2>1. Front(p2) /\ u \in Seq(Lines) /\ SaysOnce(u) /\ p = p2 \o u
    BY <1>9, <1>10, <1>11
  <2> QED
    BY <2>1, FrontSays
<1>13. \A e \in Range(u) : e.type = "UserMessage"
  BY <1>9 DEF Range, Lines
<1>14. ClaimSet(c) \subseteq Unpaused
  BY <1>4, <1>7 DEF Unpaused, Queued
<1>15. Fitting(p)
  <2>1. s = NextStepId /\ (c.start => c.turn = s)
    BY <1>7 DEF s
  <2>2. \A e : e \in Range(p) <=>
          \/ e = e0 \/ (tq # <<>> /\ e = Claimed("nextTurn", tq)) \/ (c.start /\ e = TurnStart(s))
          \/ (sq # <<>> /\ e = Claimed("nextStep", sq)) \/ e = StepStart(s) \/ e \in Range(u)
    BY <1>5, <1>7, <1>8, <1>11, <1>12
  <2>3. tq \in Seq(Msgs) /\ sq \in Seq(Msgs) /\ s \in 1..MaxSteps /\ Complete
    BY <1>1, <1>2, <1>4, <1>7
  <2>4. /\ e0.type = "StepInputClaim" /\ c \in Claims /\ c = e0.claim
        /\ ClaimSet(c) = Range(tq) \cup Range(sq) /\ ClaimSet(c) \subseteq Unpaused
    BY <1>6, <1>7, <1>14
  <2>5. /\ \A m : Says(u, m) <=> m \in ClaimSet(c)
        /\ p \in Seq(Events) /\ InOrder(p) /\ SaysOnce(p)
        /\ \A e \in Range(p) : e.type \in ClaimTypes
    BY <1>9, <1>12
  <2> QED
    BY <1>13, <2>1, <2>2, <2>3, <2>4, <2>5, ClaimContents
<1>16. Write(p)
  BY <1>3, <1>5, <1>10
<1>17. Driven
  <2>1. stage' = "stepping" /\ scope' = ScopeStep(s) /\ halt' = halt
    BY DEF NextStep, s
  <2>2. scope' \in Scopes /\ scope'.turn # 0
    BY <1>2, <2>1, DriverTypes
  <2> QED
    BY <2>1, <2>2, DriverTypes, StageNames DEF Driven
<1> QED
  BY <1>12, <1>15, <1>16, <1>17, Operation DEF Serving

\* The two ways a further step comes about.
LEMMA StepSteps ==
  ASSUME Typed, Mail, BeginStepOrEndTurn \/ BeginContinuationStep
  PROVE  Typed' /\ Mail'
<1>1. Serving /\ halt' = halt /\ stage \in Working
  BY DEF BeginStepOrEndTurn, BeginContinuationStep, Working
<1>2. ASSUME NEW sq \in StepClaims, NextStep(sq)
      PROVE  Typed' /\ Mail'
  BY <1>1, <1>2, NextStepStep
<1>3. ASSUME Write(<<TurnEnd>>), stage' = "parked", scope' = NoScope
      PROVE  Typed' /\ Mail'
  <2>1. Driven
    BY <1>1, <1>3, DriverTypes, StageNames DEF Driven
  <2> QED
    BY <1>1, <1>3, <2>1, PlainOperation, PlainBatches
<1> QED
  BY <1>2, <1>3 DEF BeginStepOrEndTurn, BeginContinuationStep

(* ---------------------------- crash and restart --------------------------- *)

\* A crash cuts the batch; what it leaves torn is one claim at most, and none is lost.
LEMMA CrashStep ==
  ASSUME Typed, Mail, Crash
  PROVE  Typed' /\ Mail'
<1>1. /\ inbox' = inbox /\ log' = log /\ said' = said /\ dropped' = dropped
      /\ UNCHANGED <<status, ended, archived>>
      /\ loading' = TRUE /\ pending' = <<>> /\ told' = {} /\ stage' = "detached" /\ scope' = NoScope
      /\ halt' = "no" /\ crashes < MaxCrashes /\ crashes' = crashes + 1
  BY DEF Crash, durable
<1>2. /\ Queued' = Queued /\ SaidMsgs' = SaidMsgs /\ ClaimedMsgs' = ClaimedMsgs
      /\ Unpaused' = Unpaused
  BY <1>1 DEF Queued, SaidMsgs, ClaimedMsgs, Unpaused
<1>3. Complete' <=> Complete
  BY <1>1, <1>2 DEF Complete, Done
<1>4. Typed'
  <2>1. crashes' \in 0..MaxCrashes /\ stage' \in Stages /\ scope' \in Scopes
        /\ stage' \notin Working \cup Waiting
    BY <1>1, Bounds, StageNames DEF Typed, TypeOK
  <2> QED
    BY <1>1, <2>1 DEF Typed, TypeOK
<1>5. Batch'
  <2>1. Range(<<>>) = {} /\ DOMAIN <<>> = {}
    BY DEF Range
  <2>2. InOrder(<<>>) /\ SaysOnce(<<>>) /\ \A m : ~Says(<<>>, m) /\ ~Takes(<<>>, m)
    BY <2>1 DEF InOrder, SaysOnce, Says, Takes
  <2> QED
    BY <1>1, <2>1, <2>2 DEF Batch, Fitting
<1>6. Accounts'
  BY <1>1, <1>2 DEF Mail, Accounts
<1>7. Service'
  BY <1>1 DEF Mail, Service, Range
<1>8. Final'
  BY <1>1, <1>2, <1>3 DEF Mail, Final, EndedHoldsInput, InboxEmpty, RetainsPausedInputs
<1> QED
  BY <1>4, <1>5, <1>6, <1>7, <1>8 DEF Mail

\* The store opens for service: nothing torn, nothing free to run.
LEMMA OpenStep ==
  ASSUME Typed, Mail, OpenForService
  PROVE  Typed' /\ Mail'
<1>1. /\ inbox' = inbox /\ log' = log /\ said' = said /\ dropped' = dropped /\ told' = told
      /\ UNCHANGED <<status, ended, archived, driver, crashes>>
      /\ loading /\ loading' = FALSE /\ pending = <<>> /\ pending' = <<>>
  BY DEF OpenForService, durable
<1>2. /\ Queued' = Queued /\ SaidMsgs' = SaidMsgs /\ ClaimedMsgs' = ClaimedMsgs
      /\ Unpaused' = Unpaused
  BY <1>1 DEF Queued, SaidMsgs, ClaimedMsgs, Unpaused
<1>3. Complete
  BY CompleteIs DEF OpenForService, Mail, Final
<1>4. Unpaused = {}
  BY DEF OpenForService, Mail, Final, EndedHoldsInput, RetainsPausedInputs, InboxEmpty, Unpaused
<1>5. Complete'
  BY <1>1, <1>2, <1>3 DEF Complete, Done
<1>6. Typed'
  BY <1>1 DEF Typed, TypeOK, driver
<1>7. Batch'
  <2>1. Range(<<>>) = {} /\ DOMAIN <<>> = {}
    BY DEF Range
  <2>2. InOrder(<<>>) /\ SaysOnce(<<>>) /\ \A m : ~Says(<<>>, m) /\ ~Takes(<<>>, m)
    BY <2>1 DEF InOrder, SaysOnce, Says, Takes
  <2> QED
    BY <1>1, <2>1, <2>2 DEF Batch, Fitting
<1>8. Accounts'
  BY <1>1, <1>2 DEF Mail, Accounts
<1>9. Service'
  <2>1. (\A k \in DOMAIN log.claims : Follows(pending, log.claims[k], k))'
    BY <1>5 DEF Complete, Done, Follows
  <2> QED
    BY <1>1, <1>2, <1>4, <2>1 DEF Mail, Service
<1>10. Final'
  BY <1>1, <1>2, <1>5 DEF Mail, Final, EndedHoldsInput, InboxEmpty, RetainsPausedInputs
<1> QED
  BY <1>6, <1>7, <1>8, <1>9, <1>10 DEF Mail

\* The repair writes what is missing of a torn claim.
LEMMA RepairStep ==
  ASSUME Typed, Mail, RepairClaims
  PROVE  Typed' /\ Mail'
<1>1. pending = <<>> /\ UNCHANGED driver
  BY DEF RepairClaims
<1>2. PICK k, c, tq, sq, un :
        /\ k \in Unfinished /\ c = log.claims[k] /\ tq \in Kept(c.turnMsgs, Queued)
        /\ sq \in Kept(c.stepMsgs, Queued)
        /\ un \in Kept(ClaimMsgs(c), Msgs \ SaidMsgs)
        /\ Write(Opt(tq # <<>>, Claimed("nextTurn", tq)) \o Opt(sq # <<>>, Claimed("nextStep", sq))
                 \o Opt(c.start /\ c.turn \notin log.turns, TurnStart(c.turn))
                 \o Opt(k \notin log.steps, StepStart(k)) \o UserMessages(un, k))
  BY DEF RepairClaims
<1>3. k \in DOMAIN log.claims /\ c \in Claims /\ k \in 1..MaxSteps
  <2>1. k \in DOMAIN log.claims /\ log.claims \in Seq(Claims) /\ Len(log.claims) <= MaxSteps
    BY <1>2, TypedBox DEF Unfinished, Logs, Mail, Service
  <2> QED
    BY <1>2, <2>1, Bounds
<1>4. c.turn \in 1..MaxSteps /\ c.start \in BOOLEAN /\ Range(ClaimMsgs(c)) = ClaimSet(c)
      /\ ClaimSet(c) \subseteq Msgs
  BY <1>3, ClaimRange DEF Claims
<1>5. /\ tq \in Seq(Msgs) /\ Range(tq) = Range(c.turnMsgs) \cap Queued
      /\ sq \in Seq(Msgs) /\ Range(sq) = Range(c.stepMsgs) \cap Queued
      /\ un \in Seq(Msgs) /\ Range(un) = ClaimSet(c) \cap (Msgs \ SaidMsgs) /\ IsInjective(un)
  BY <1>2, <1>4, KeptOf
<1>6. PICK a, b : a = (c.start /\ c.turn \notin log.turns) /\ b = (k \notin log.steps)
  OBVIOUS
<1>7. PICK q1, q2, q3, q4, u :
        /\ q1 = Opt(tq # <<>>, Claimed("nextTurn", tq))
        /\ q2 = Opt(sq # <<>>, Claimed("nextStep", sq))
        /\ q3 = Opt(a, TurnStart(c.turn)) /\ q4 = Opt(b, StepStart(k)) /\ u = UserMessages(un, k)
  OBVIOUS
<1>8. /\ q1 \in Seq(Mid) /\ q2 \in Seq(Mid)
      /\ \A e : e \in Range(q1) <=> tq # <<>> /\ e = Claimed("nextTurn", tq)
      /\ \A e : e \in Range(q2) <=> sq # <<>> /\ e = Claimed("nextStep", sq)
  <2>1. "nextTurn" \in Lanes /\ "nextStep" \in Lanes
    BY DEF Lanes
  <2> QED
    BY <1>5, <1>7, <2>1, MidOpt
<1>9. /\ q3 \in Seq(Mid) /\ q4 \in Seq(Mid)
      /\ \A e : e \in Range(q3) => e = TurnStart(c.turn)
      /\ \A e : e \in Range(q4) => e = StepStart(k)
  <2>1. a \in BOOLEAN /\ b \in BOOLEAN
    BY <1>4, <1>6
  <2> QED
    BY <1>3, <1>4, <1>7, <2>1, MidOpt
<1>10. u \in Seq(Lines) /\ SaysOnce(u) /\ \A m : Says(u, m) <=> m \in ClaimSet(c) \ SaidMsgs
  <2>1. u \in Seq(Lines) /\ SaysOnce(u) /\ \A m : Says(u, m) <=> m \in Range(un)
    BY <1>3, <1>5, <1>7, LinesMade
  <2>2. Range(un) = ClaimSet(c) \ SaidMsgs
    BY <1>4, <1>5
  <2> QED
    BY <2>1, <2>2
<1>11. PICK p2, p3, p4, p : p2 = q1 \o q2 /\ p3 = p2 \o q3 /\ p4 = p3 \o q4 /\ p = p4 \o u
  OBVIOUS
<1>12. Front(p4) /\ \A e : e \in Range(p4) <=> \/ e \in Range(q1) \/ e \in Range(q2)
                                               \/ e \in Range(q3) \/ e \in Range(q4)
  <2>1. Front(q1)
    BY <1>8, MidFront
  <2>2. Front(p2) /\ Range(p2) = Range(q1) \cup Range(q2)
    BY <1>8, <1>11, <2>1, FrontJoin
  <2>3. Front(p3) /\ Range(p3) = Range(p2) \cup Range(q3)
    BY <1>9, <1>11, <2>2, FrontJoin
  <2>4. Front(p4) /\ Range(p4) = Range(p3) \cup Range(q4)
    BY <1>9, <1>11, <2>3, FrontJoin
  <2> QED
    BY <2>2, <2>3, <2>4
<1>13. p \in Seq(Events) /\ Range(p) = Range(p4) \cup Range(u) /\ InOrder(p) /\ SaysOnce(p)
  <2>1. Front(p4) /\ u \in Seq(Lines) /\ SaysOnce(u) /\ p = p4 \o u
    BY <1>10, <1>11, <1>12
  <2> QED
    BY <2>1, FrontSays
<1>14. \A e \in Range(u) : e.type = "UserMessage"
  BY <1>10 DEF Range, Lines
<1>15. /\ Claimed("nextTurn", tq).type = "Claimed" /\ Claimed("nextTurn", tq).msgs = tq
       /\ Claimed("nextStep", sq).type = "Claimed" /\ Claimed("nextStep", sq).msgs = sq
       /\ TurnStart(c.turn).type = "TurnStart" /\ StepStart(k).type = "StepStart"
  BY DEF Claimed, TurnStart, StepStart
<1>16. ASSUME NEW e \in Range(p)
       PROVE  \/ tq # <<>> /\ e = Claimed("nextTurn", tq)
              \/ sq # <<>> /\ e = Claimed("nextStep", sq)
              \/ e = TurnStart(c.turn)
              \/ e = StepStart(k)
              \/ e \in Range(u)
  BY <1>8, <1>9, <1>12, <1>13
<1>17. \A e \in Range(p) : e.type \in {"Claimed", "TurnStart", "StepStart", "UserMessage"}
  BY <1>14, <1>15, <1>16
<1>18. ASSUME NEW m
       PROVE  Takes(p, m) <=> m \in ClaimSet(c) \cap Queued
  <2>1. (m \in Range(tq) => tq # <<>>) /\ (m \in Range(sq) => sq # <<>>)
    BY DEF Range
  <2>2. m \in Range(tq) => Takes(p, m)
    BY <1>8, <1>12, <1>13, <1>15, <2>1 DEF Takes
  <2>3. m \in Range(sq) => Takes(p, m)
    BY <1>8, <1>12, <1>13, <1>15, <2>1 DEF Takes
  <2>4. ASSUME NEW e \in Range(p), e.type = "Claimed", m \in Range(e.msgs)
        PROVE  m \in Range(tq) \/ m \in Range(sq)
    BY <1>14, <1>15, <1>16, <2>4
  <2>5. m \in ClaimSet(c) \cap Queued <=> m \in Range(tq) \/ m \in Range(sq)
    BY <1>5 DEF ClaimSet
  <2> QED
    BY <2>2, <2>3, <2>4, <2>5 DEF Takes
<1>19. ASSUME NEW m
       PROVE  Says(p, m) <=> m \in ClaimSet(c) \ SaidMsgs
  <2>1. ASSUME NEW e \in Range(p), e.type = "UserMessage"
        PROVE  e \in Range(u)
    BY <1>15, <1>16, <2>1
  <2> QED
    BY <1>10, <1>13, <2>1 DEF Says
<1>20. Fitting(p)
  <2>1. \A e \in Range(p) : e.type \in ClaimTypes \ {"StepInputClaim"}
    BY <1>17 DEF ClaimTypes
  <2> QED
    BY <1>2, <1>3, <1>13, <1>18, <1>19, <2>1, RestFits
<1>21. Write(p)
  BY <1>2, <1>6, <1>7, <1>11
<1>22. Driven
  BY <1>1 DEF Driven, driver, Typed, TypeOK
<1>23. \A e \in Range(p) : e.type \in LoadTypes
  BY <1>17 DEF LoadTypes
<1> QED
  BY <1>1, <1>13, <1>20, <1>21, <1>22, <1>23, Operation

\* A load pauses the input it found free to run.
LEMMA PauseStep ==
  ASSUME Typed, Mail, PauseRestored
  PROVE  Typed' /\ Mail'
<1>1. pending = <<>> /\ UNCHANGED driver /\ Unfinished = {} /\ Write(<<Paused(Unpaused)>>)
  BY DEF PauseRestored
<1>2. Complete
  BY <1>1, CompleteIs
<1>3. Paused(Unpaused) \in Plain /\ Paused(Unpaused).type = "InboxPaused"
  <2>1. Unpaused \in SUBSET Msgs
    BY TypedBox DEF Unpaused
  <2> QED
    BY <2>1, PlainMade DEF Paused
<1>4. PICK e : e = Paused(Unpaused)
  OBVIOUS
<1>5. <<e>> \in Seq(Plain) /\ Range(<<e>>) = {e}
  BY <1>3, <1>4, OneSeq
<1>6. <<e>> \in Seq(Events) /\ Fitting(<<e>>)
  BY <1>2, <1>5, PlainFits
<1>7. \A f \in Range(<<e>>) : f.type \in LoadTypes
  BY <1>3, <1>4, <1>5 DEF LoadTypes
<1>8. Driven
  BY <1>1 DEF Driven, driver, Typed, TypeOK
<1> QED
  BY <1>1, <1>4, <1>6, <1>7, <1>8, Operation

(* ----------------------------- the specification -------------------------- *)

\* One event of the batch reaches the record: its shape.
LEMMA WriteTyped ==
  ASSUME Typed, Mail, WriteEvent
  PROVE  Typed'
<1>1. PICK e : e = Head(pending)
  OBVIOUS
<1>2. /\ pending # <<>> /\ pending' = Tail(pending) /\ loading' = loading /\ Accepts(e)
      /\ ApplyInbox(e) \/ ApplyBoundary(e) \/ ApplyUserMessage(e) \/ ApplyStatus(e)
      /\ UNCHANGED <<driver, crashes>>
  BY <1>1 DEF WriteEvent
<1>3. e \in Events /\ pending' \in Seq(Events) /\ Ready(pending, e) /\ Fits(e)
  BY <1>1, <1>2, HeadIs DEF Mail, Accepts
<1>4. ApartIn(inbox) /\ Queued \subseteq inbox.seen
  BY DEF Mail, Accounts, ApartIn
<1>5. CASE ApplyInbox(e)
  <2>1. /\ inbox' \in Box /\ told' \in SUBSET Msgs /\ dropped' \in SUBSET Msgs
    <3>1. Queued \subseteq Msgs /\ told \subseteq Msgs /\ dropped \subseteq Msgs
      BY TypedBox DEF Typed, TypeOK
    <3>2. CASE e.type = "Enqueued"
      BY <1>3, <1>4, <1>5, <3>1, <3>2, EnqueuedMoves, EventFields DEF Moves
    <3>3. CASE e.type = "Claimed"
      BY <1>3, <1>4, <1>5, <3>1, <3>3, ClaimedMoves DEF Moves
    <3>4. CASE e.type = "Discarded"
      BY <1>3, <1>4, <1>5, <3>1, <3>4, DiscardedMoves DEF Moves
    <3>5. CASE e.type = "InboxItemRemoved"
      BY <1>3, <1>4, <1>5, <3>1, <3>5, RemovedMoves, EventFields DEF Moves, Ready
    <3>6. CASE e.type \in {"InboxItemSteered", "InboxReordered"}
      BY <1>3, <1>4, <1>5, <3>1, <3>6, SteeredMoves, ReorderedMoves DEF Moves, Ready
    <3>7. CASE e.type \in {"InboxPaused", "InboxItemResumed"}
      BY <1>3, <1>4, <1>5, <3>1, <3>7, PausedMoves, EventFields DEF Moves
    <3> QED
      BY <1>5, <3>2, <3>3, <3>4, <3>5, <3>6, <3>7 DEF ApplyInbox
  <2>2. UNCHANGED <<log, said, status, ended, archived>>
    BY <1>5 DEF ApplyInbox
  <2> QED
    BY <1>2, <1>3, <2>1, <2>2 DEF Typed, TypeOK, driver, Box
<1>6. CASE ApplyBoundary(e) \/ ApplyStatus(e)
  <2>1. log' \in Logs /\ UNCHANGED <<inbox, said, told, dropped>>
    BY <1>3, <1>6, LogMoves
  <2>2. status' \in Statuses /\ ended' \in BOOLEAN /\ archived' \in BOOLEAN
    <3>1. e.type \in {"AgentStatus", "SessionEnded"} => e.status \in Statuses
      BY <1>3, EventFields
    <3> QED
      BY <1>6, <3>1 DEF ApplyBoundary, ApplyStatus, Typed, TypeOK, Statuses
  <2> QED
    BY <1>2, <1>3, <2>1, <2>2 DEF Typed, TypeOK, driver, Logs
<1>7. CASE ApplyUserMessage(e)
  <2>1. e.line \in [msg : Msgs, step : 1..MaxSteps]
    BY <1>3, <1>7, EventFields DEF ApplyUserMessage
  <2>2. said' = Append(said, e.line)
        /\ UNCHANGED <<inbox, log, status, ended, archived, told, dropped>>
    BY <1>7 DEF ApplyUserMessage
  <2>3. said' \in Seq([msg : Msgs, step : 1..MaxSteps])
    BY <2>1, <2>2 DEF Typed, TypeOK
  <2> QED
    BY <1>2, <1>3, <2>2, <2>3 DEF Typed, TypeOK, driver
<1> QED
  BY <1>2, <1>5, <1>6, <1>7

\* The initial state has the shape, and no message.
LEMMA InitHolds ==
  ASSUME Init
  PROVE  Typed /\ Mail
<1>1. /\ inbox = [nextTurn |-> <<>>, nextStep |-> <<>>, seen |-> {}, paused |-> {}]
      /\ log.claims = <<>> /\ log.turns = {} /\ log.steps = {}
      /\ said = <<>> /\ status = "Idle" /\ ended = FALSE /\ archived = FALSE
      /\ pending = <<>> /\ loading = FALSE
      /\ stage = "detached" /\ scope = NoScope /\ halt = "no"
      /\ crashes = 0 /\ told = {} /\ dropped = {}
  BY DEF Init
<1>2. Range(<<>>) = {} /\ DOMAIN <<>> = {}
  BY DEF Range
<1>3. Typed
  <2>1. log \in Logs
    BY Bounds DEF Init, Logs
  <2>2. inbox \in Box
    BY <1>1 DEF Box
  <2>3. stage \in Stages /\ stage \notin Working \cup Waiting /\ status \in Statuses
    BY <1>1 DEF Stages, Resting, Working, Waiting, Statuses
  <2>4. said \in Seq([msg : Msgs, step : 1..MaxSteps]) /\ pending \in Seq(Events)
    BY <1>1
  <2>5. crashes \in 0..MaxCrashes /\ scope \in Scopes
    BY <1>1, Bounds
  <2> QED
    BY <1>1, <2>1, <2>2, <2>3, <2>4, <2>5 DEF Typed, TypeOK, Box, Logs
<1>4. Queued = {} /\ SaidMsgs = {} /\ ClaimedMsgs = {} /\ Unpaused = {}
  BY <1>1, <1>2 DEF Queued, SaidMsgs, ClaimedMsgs, Unpaused
<1>5. Accounts
  BY <1>1, <1>2, <1>4 DEF Accounts
<1>6. Complete
  BY <1>1, <1>2 DEF Complete
<1>7. InOrder(<<>>) /\ SaysOnce(<<>>) /\ \A m : ~Says(<<>>, m) /\ ~Takes(<<>>, m)
  BY <1>2 DEF InOrder, SaysOnce, Says, Takes
<1>8. Batch
  BY <1>1, <1>2, <1>6, <1>7 DEF Batch, Fitting
<1>9. Service
  BY <1>1, <1>2, <1>4, Bounds DEF Service
<1>10. Final
  BY <1>1, <1>6 DEF Final, EndedHoldsInput
<1> QED
  BY <1>3, <1>5, <1>8, <1>9, <1>10 DEF Mail

\* What the invariant speaks of is the record, the batch and the promise to the user.
LEMMA StutterMail ==
  ASSUME Mail, UNCHANGED <<inbox, log, said, status, ended, archived, dropped, pending>>,
         UNCHANGED <<loading, told>>
  PROVE  Mail'
<1>1. /\ Queued' = Queued /\ SaidMsgs' = SaidMsgs /\ ClaimedMsgs' = ClaimedMsgs
      /\ Unpaused' = Unpaused /\ NextStepId' = NextStepId /\ FailedRoot' = FailedRoot
  BY DEF Queued, SaidMsgs, ClaimedMsgs, Unpaused, NextStepId, FailedRoot
<1>2. Complete' <=> Complete
  BY <1>1 DEF Complete, Done
<1>3. \A p, c, k : Follows(p, c, k)' <=> Follows(p, c, k)
  BY <1>1 DEF Follows
<1>4. \A p, e : (Ready(p, e)' <=> Ready(p, e)) /\ (Sound(p, e)' <=> Sound(p, e))
  BY <1>1, <1>2, <1>3 DEF Ready, Sound
<1>5. Batch'
  BY <1>1, <1>2, <1>4 DEF Mail, Batch, Fitting
<1>6. Accounts' /\ Final'
  BY <1>1, <1>2 DEF Mail, Accounts, Final, EndedHoldsInput, InboxEmpty, RetainsPausedInputs
<1>7. Service'
  BY <1>1, <1>3 DEF Mail, Service
<1> QED
  BY <1>5, <1>6, <1>7 DEF Mail

\* Every step keeps the shape of the state and the account of the messages.
LEMMA StepHolds ==
  ASSUME Typed, Mail, [Next]_vars
  PROVE  Typed' /\ Mail'
<1>1. CASE WriteEvent
  BY <1>1, WriteMail, WriteTyped
<1>2. CASE UserStep
  <2>1. ASSUME NEW m \in Msgs, NEW lane \in Lanes,
               \/ \E held \in BOOLEAN, target \in {0} \cup log.turns : Submit(m, lane, held, target)
               \/ Remove(lane, m)
        PROVE  Typed' /\ Mail'
    BY <2>1, UserInput
  <2>2. ASSUME NEW m \in Msgs, ResumeItem(m) \/ Steer(m)
        PROVE  Typed' /\ Mail'
    <3>1. "nextTurn" \in Lanes
      BY DEF Lanes
    <3> QED
      BY <2>2, <3>1, UserInput
  <2>3. ASSUME NEW lane \in Lanes, NEW order \in Arrangements, Reorder(lane, order)
        PROVE  Typed' /\ Mail'
    BY <2>3, ReorderStep
  <2>4. ASSUME \/ \E kind \in {"interrupt", "cancel"} : RequestStop(kind) \/ StopDetached(kind)
               \/ ResumeRecovery \/ ToolResolved
        PROVE  Typed' /\ Mail'
    BY <2>4, UserPlain
  <2>5. ASSUME ResumeSession \/ Archive
        PROVE  Typed' /\ Mail'
    BY <2>5, ResumeSessionStep, ArchiveStep
  <2> QED
    BY <1>2, <2>1, <2>2, <2>3, <2>4, <2>5 DEF UserStep
<1>3. CASE DriverStep
  BY <1>3, AttachStep, BeginTurnStep, TurnPlain, StepSteps, GivenUpPlain DEF DriverStep
<1>4. CASE RestartStep
  BY <1>4, RepairStep, PauseStep, OpenStep DEF RestartStep
<1>5. CASE Crash
  BY <1>5, CrashStep
<1>6. CASE UNCHANGED vars
  <2>1. UNCHANGED <<inbox, log, said, status, ended, archived, dropped, pending, loading, stage,
                    scope, halt, crashes, told>>
    BY <1>6 DEF vars, durable, driver
  <2>2. Typed'
    BY <2>1 DEF Typed, TypeOK
  <2> QED
    BY <2>1, <2>2, StutterMail
<1> QED
  BY <1>1, <1>2, <1>3, <1>4, <1>5, <1>6 DEF Next

(* --------------------------------- theorems ------------------------------- *)

\* The shape of the record holds in every reachable state, whatever was crashed or torn.
THEOREM TypeCorrect == Spec => []TypeOK
<1>1. Init => Typed /\ Mail
  BY InitHolds
<1>2. Typed /\ Mail /\ [Next]_vars => Typed' /\ Mail'
  BY StepHolds
<1>3. Typed => TypeOK
  BY DEF Typed
<1> QED
  BY <1>1, <1>2, <1>3, PTL DEF Spec

\* The account of every message, batch and torn claim: the inductive invariant itself.
THEOREM MailKept == Spec => [](Typed /\ Mail)
<1>1. Init => Typed /\ Mail
  BY InitHolds
<1>2. Typed /\ Mail /\ [Next]_vars => Typed' /\ Mail'
  BY StepHolds
<1> QED
  BY <1>1, <1>2, PTL DEF Spec

\* No message is said twice to the model, and none that was said is still queued, for
\* every point at which a batch may be torn and every number of crashes.
THEOREM SaidOnce == Spec => []ExactlyOnce
<1>1. Mail => ExactlyOnce
  BY DEF Mail, Accounts, ExactlyOnce
<1> QED
  BY <1>1, MailKept, PTL

\* Between two operations every accepted message is in exactly one place: a lane, the
\* transcript, or among those given up.
THEOREM AllAccounted == Spec => []NothingLost
<1>1. ASSUME Typed, Mail, Serving
      PROVE  /\ inbox.seen = Queued \cup SaidMsgs \cup dropped
             /\ dropped \cap (Queued \cup SaidMsgs) = {}
             /\ Range(inbox.nextTurn) \cap Range(inbox.nextStep) = {}
  <2>1. ClaimedMsgs \subseteq SaidMsgs
    BY <1>1, ServingComplete, CompleteClaims
  <2>2. Accounts
    BY <1>1 DEF Mail
  <2>3. ClaimedMsgs = SaidMsgs
    BY <2>1, <2>2 DEF Accounts
  <2> QED
    BY <2>2, <2>3 DEF Accounts
<1>2. Typed /\ Mail => NothingLost
  BY <1>1 DEF NothingLost
<1> QED
  BY <1>2, MailKept, PTL

\* What an ended Session still holds is a failed root's input, and all of it is paused.
THEOREM EndedIsSettled == Spec => []EndedHoldsInput
<1>1. Mail => EndedHoldsInput
  BY DEF Mail, Final
<1> QED
  BY <1>1, MailKept, PTL

(* ---------------------------- a step, for the mailbox --------------------- *)

\* Every step but a write, a crash and the opening leaves what is recorded alone.
LEMMA OthersKeep ==
  ASSUME UserStep \/ DriverStep \/ RepairClaims \/ PauseRestored
  PROVE  UNCHANGED <<durable, loading>>
<1>1. UserStep => UNCHANGED <<durable, loading>>
  BY DEF UserStep, Submit, ResumeItem, Steer, Remove, Reorder, RequestStop, StopDetached,
         ResumeSession, Archive, ResumeRecovery, ToolResolved, Write
<1>2. Attach \/ BeginTurn \/ Announce \/ GoIdle \/ AnswerText \/ AnswerTools
        => UNCHANGED <<durable, loading>>
  BY DEF Attach, BeginTurn, Announce, GoIdle, AnswerText, AnswerTools, Write
<1>3. ToolsComplete \/ ToolsWait \/ EndTurnIfNoStepInput \/ BeginStepOrEndTurn
        \/ BeginContinuationStep \/ DriverPauses => UNCHANGED <<durable, loading>>
  BY DEF ToolsComplete, ToolsWait, EndTurnIfNoStepInput, BeginStepOrEndTurn,
         BeginContinuationStep, DriverPauses, NextStep, Write
<1>4. FailTurn \/ Terminate \/ TurnLimitExceeded \/ DriverRejected \/ StopAtStep
        \/ FinishStop \/ StopRefused => UNCHANGED <<durable, loading>>
  BY DEF FailTurn, Terminate, TurnLimitExceeded, DriverRejected, StopAtStep, FinishStop,
         StopRefused, Write
<1>5. RepairClaims \/ PauseRestored => UNCHANGED <<durable, loading>>
  BY DEF RepairClaims, PauseRestored, Write
<1> QED
  BY <1>1, <1>2, <1>3, <1>4, <1>5 DEF DriverStep

\* The event a write takes from its batch.
LEMMA Written ==
  ASSUME Typed, Mail, WriteEvent
  PROVE  \E e \in Events :
           /\ Fits(e) /\ Ready(pending, e) /\ Sound(pending, e) /\ loading' = loading
           /\ ApplyInbox(e) \/ ApplyBoundary(e) \/ ApplyUserMessage(e) \/ ApplyStatus(e)
           /\ loading => e.type \in LoadTypes
           /\ e.type \in ClaimTypes \/ Complete
<1>1. PICK e : e = Head(pending)
  OBVIOUS
<1>2. /\ pending # <<>> /\ loading' = loading /\ Fits(e)
      /\ ApplyInbox(e) \/ ApplyBoundary(e) \/ ApplyUserMessage(e) \/ ApplyStatus(e)
  BY <1>1 DEF WriteEvent, Accepts
<1>3. e \in Events /\ e \in Range(pending) /\ Ready(pending, e) /\ Sound(pending, e)
  BY <1>1, <1>2, HeadIs DEF Mail
<1>4. /\ loading => e.type \in LoadTypes
      /\ e.type \in ClaimTypes \/ Complete
  BY <1>3 DEF Mail, Service, Batch, Fitting
<1> QED
  BY <1>2, <1>3, <1>4

\* The claims of the log move with a claim only, and it takes what may run.
LEMMA OneClaim ==
  ASSUME Typed, Mail, NEW e \in Events, ApplyBoundary(e), Sound(pending, e),
         loading => e.type \in LoadTypes
  PROVE  \/ log'.claims = log.claims
         \/ /\ e.type = "StepInputClaim" /\ e.claim \in Claims /\ ~loading
            /\ log'.claims = Append(log.claims, e.claim) /\ ClaimSet(e.claim) \subseteq Unpaused
<1>1. CASE e.type = "StepInputClaim"
  <2>1. ClaimSet(e.claim) \subseteq Unpaused
    BY <1>1 DEF Sound
  <2>2. ~loading
    BY <1>1 DEF LoadTypes
  <2> QED
    BY <1>1, <2>1, <2>2, LogMoves
<1>2. CASE e.type # "StepInputClaim"
  <2>1. e.type \in {"TurnStart", "StepStart"} \/ e.type \notin ClaimTypes
    BY <1>2 DEF ApplyBoundary, ClaimTypes
  <2> QED
    BY <2>1, LogMoves
<1> QED
  BY <1>1, <1>2

\* The claims alone say what was claimed.
LEMMA ClaimsKept ==
  ASSUME log'.claims = log.claims
  PROVE  ClaimedMsgs' = ClaimedMsgs
  BY DEF ClaimedMsgs

\* A message enters a model request only if it was submitted to run, or resumed, in this
\* life of the process.
THEOREM ToldBeforeClaimed == Spec => OnlyToldIsClaimed
<1> DEFINE Told == \A k \in DOMAIN log'.claims \ DOMAIN log.claims :
                     Range(ClaimMsgs(log'.claims[k])) \subseteq told
<1>1. ASSUME Typed, Mail, [Next]_vars
      PROVE  Told
  <2>1. CASE WriteEvent
    <3>1. PICK e \in Events :
            /\ Sound(pending, e)
            /\ loading => e.type \in LoadTypes
            /\ ApplyInbox(e) \/ ApplyBoundary(e) \/ ApplyUserMessage(e) \/ ApplyStatus(e)
      BY <1>1, <2>1, Written
    <3>2. CASE ApplyBoundary(e)
      <4>1. CASE log'.claims = log.claims
        BY <4>1
      <4>2. CASE /\ e.claim \in Claims /\ ~loading /\ log'.claims = Append(log.claims, e.claim)
                 /\ ClaimSet(e.claim) \subseteq Unpaused
        <5>1. DOMAIN log'.claims = DOMAIN log.claims \cup {NextStepId}
              /\ log'.claims[NextStepId] = e.claim
          BY <1>1, <4>2, ClaimAdded
        <5>2. ClaimSet(e.claim) \subseteq told
          BY <1>1, <4>2 DEF Mail, Service
        <5>3. Range(ClaimMsgs(e.claim)) \subseteq told
          BY <4>2, <5>2, ClaimRange
        <5> QED
          BY <5>1, <5>3
      <4> QED
        BY <1>1, <3>1, <3>2, <4>1, <4>2, OneClaim
    <3>3. CASE ApplyInbox(e) \/ ApplyUserMessage(e)
      BY <3>3 DEF ApplyInbox, ApplyUserMessage
    <3>4. CASE ApplyStatus(e)
      <4>1. log'.claims = log.claims
        BY <1>1, <3>4, LogMoves DEF ApplyStatus, ClaimTypes
      <4> QED
        BY <4>1
    <3> QED
      BY <3>1, <3>2, <3>3, <3>4
  <2>2. CASE UserStep \/ DriverStep \/ RepairClaims \/ PauseRestored
    BY <2>2, OthersKeep DEF durable
  <2>3. CASE OpenForService \/ Crash
    BY <2>3 DEF OpenForService, Crash, durable
  <2>4. CASE UNCHANGED vars
    BY <2>4 DEF vars, durable
  <2> QED
    BY <1>1, <2>1, <2>2, <2>3, <2>4 DEF Next, RestartStep
<1>2. Typed /\ Mail /\ [Next]_vars => [Told]_vars
  BY <1>1
<1> QED
  BY <1>2, MailKept, PTL DEF Spec, OnlyToldIsClaimed

(* ------------------------------- the refinement --------------------------- *)

\* What each fate says of a message, when the accounts hold.
LEMMA FateIs ==
  ASSUME Mail, NEW m \in Msgs
  PROVE  /\ Fate(m) = "dropped" <=> m \in dropped
         /\ Fate(m) = "delivered" <=> m \in ClaimedMsgs
         /\ Fate(m) = "held" <=> m \in Queued \cap inbox.paused /\ m \notin ClaimedMsgs
         /\ Fate(m) = "queued" <=> m \in Unpaused /\ m \notin ClaimedMsgs
         /\ Fate(m) = "absent" <=> m \notin inbox.seen
  BY DEF Mail, Accounts, Fate, Unpaused

\* A message keeps its fate when no set it depends on gains or loses it.
LEMMA FateKept ==
  ASSUME NEW m, (m \in dropped)' <=> m \in dropped, (m \in ClaimedMsgs)' <=> m \in ClaimedMsgs,
         (m \in inbox.paused)' <=> m \in inbox.paused, (m \in Queued)' <=> m \in Queued
  PROVE  Fate(m)' = Fate(m)
  BY DEF Fate

\* The mailbox's view of the record.
Boxes == [m \in Msgs |-> Fate(m)]

Become(S, fate) == [m \in Msgs |-> IF m \in S THEN fate ELSE Boxes[m]]

Turned(S, fate) ==
  /\ S \subseteq Msgs /\ \A m \in S : Fate(m)' = fate
  /\ \A m \in Msgs \ S : Fate(m)' = Fate(m)

\* When the messages of S turn to a fate, the box does what the mailbox does.
LEMMA BoxMoves ==
  ASSUME NEW S, NEW fate, Turned(S, fate)
  PROVE  Boxes' = Become(S, fate)
  BY DEF Boxes, Become, Turned

\* The steps of the mailbox, read off the Session's state.
LEMMA MailAccepts ==
  ASSUME ~loading, ~loading', NEW m \in Msgs, Fate(m) = "absent", NEW fate \in {"queued", "held"},
         Turned({m}, fate)
  PROVE  Mailbox!Next
<1>1. Boxes' = Become({m}, fate)
  BY BoxMoves
<1>2. Mailbox!Accept(m)
  BY <1>1 DEF Boxes, Become, Mailbox!Accept, Mailbox!Become
<1> QED
  BY <1>2 DEF Mailbox!Next

\* A held message is let run.
LEMMA MailReleases ==
  ASSUME ~loading, ~loading', NEW m \in Msgs, Fate(m) = "held", Turned({m}, "queued")
  PROVE  Mailbox!Next
<1>1. Boxes' = Become({m}, "queued")
  BY BoxMoves
<1>2. Mailbox!Release(m)
  BY <1>1 DEF Boxes, Become, Mailbox!Release, Mailbox!Become
<1> QED
  BY <1>2 DEF Mailbox!Next

\* Messages are held.
LEMMA MailHolds ==
  ASSUME loading' = loading, NEW S \in SUBSET Msgs, \A m \in S : Fate(m) \in {"queued", "held"},
         Turned(S, "held")
  PROVE  Mailbox!Next
<1>1. Boxes' = Become(S, "held")
  BY BoxMoves
<1>2. Mailbox!Hold(S)
  BY <1>1 DEF Boxes, Become, Mailbox!Hold, Mailbox!Become, Mailbox!Having
<1> QED
  BY <1>2 DEF Mailbox!Next

\* Messages that may run are delivered.
LEMMA MailDelivers ==
  ASSUME ~loading, ~loading', NEW S \in SUBSET Msgs, \A m \in S : Fate(m) = "queued",
         Turned(S, "delivered")
  PROVE  Mailbox!Next
<1>1. Boxes' = Become(S, "delivered")
  BY BoxMoves
<1>2. Mailbox!Deliver(S)
  BY <1>1 DEF Boxes, Become, Mailbox!Deliver, Mailbox!Become, Mailbox!Having
<1> QED
  BY <1>2 DEF Mailbox!Next

\* Messages are dropped.
LEMMA MailDrops ==
  ASSUME ~loading, ~loading', NEW S \in SUBSET Msgs, \A m \in S : Fate(m) \in {"queued", "held"},
         Turned(S, "dropped")
  PROVE  Mailbox!Next
<1>1. Boxes' = Become(S, "dropped")
  BY BoxMoves
<1>2. Mailbox!Drop(S)
  BY <1>1 DEF Boxes, Become, Mailbox!Drop, Mailbox!Become, Mailbox!Having
<1> QED
  BY <1>2 DEF Mailbox!Next

\* No fate changes: a crash, an opening, or a step the mailbox does not see.
LEMMA MailStutters ==
  ASSUME \A m \in Msgs : Fate(m)' = Fate(m)
  PROVE  /\ loading' = loading => UNCHANGED Mailbox!vars
         /\ ~loading /\ loading' => Mailbox!Next
         /\ loading /\ ~loading' /\ (\A m \in Msgs : Fate(m) # "queued") => Mailbox!Next
<1>1. Boxes' = Boxes
  BY DEF Boxes
<1>2. loading' = loading => UNCHANGED Mailbox!vars
  BY <1>1 DEF Boxes, Mailbox!vars
<1>3. ~loading /\ loading' => Mailbox!Crash
  BY <1>1 DEF Boxes, Mailbox!Crash
<1>4. loading /\ ~loading' /\ (\A m \in Msgs : Fate(m) # "queued") => Mailbox!Reopen
  BY <1>1 DEF Boxes, Mailbox!Reopen, Mailbox!Having
<1> QED
  BY <1>2, <1>3, <1>4 DEF Mailbox!Next

(* One event of the inbox, as the mailbox sees it. *)
LEMMA InboxStep ==
  ASSUME Typed, Mail, Accounts', NEW e \in Events, ApplyInbox(e), Fits(e), Ready(pending, e),
         loading' = loading, loading => e.type \in LoadTypes, e.type \in ClaimTypes \/ Complete
  PROVE  Mailbox!Next \/ UNCHANGED Mailbox!vars
<1>1. /\ ApartIn(inbox) /\ Queued \subseteq inbox.seen
      /\ dropped \cap (Queued \cup ClaimedMsgs) = {}
      /\ ClaimedMsgs' = ClaimedMsgs
  <2>1. log' = log
    BY DEF ApplyInbox
  <2>2. ClaimedMsgs' = ClaimedMsgs
    BY <2>1, ClaimsKept
  <2> QED
    BY <2>2 DEF Mail, Accounts, ApartIn
<1>2. e.type \notin ClaimTypes => ClaimedMsgs \cap Queued = {}
  BY CompleteClaims
<1>3. e.type \notin LoadTypes => ~loading /\ ~loading'
  OBVIOUS
<1>4. CASE e.type = "Enqueued"
  <2>1. PICK m, fate : m = e.msg /\ fate = IF e.held THEN "held" ELSE "queued"
    OBVIOUS
  <2>2. m \in Msgs /\ m \notin inbox.seen /\ fate \in {"held", "queued"}
    BY <1>4, <2>1, EventFields DEF Fits
  <2>3. Fate(m) = "absent" /\ m \notin dropped /\ m \notin ClaimedMsgs /\ m \notin Queued
    BY <2>2, FateIs DEF Mail, Accounts
  <2>4. /\ Queued' = Queued \cup {m} /\ UNCHANGED dropped
        /\ inbox'.paused = IF e.held THEN inbox.paused \cup {m} ELSE inbox.paused
    BY <1>1, <1>4, <2>1, EnqueuedMoves DEF Moves
  <2>5. m \notin inbox.paused
    BY <2>2 DEF Mail, Accounts
  <2>6. Fate(m)' = fate
    BY <1>1, <2>1, <2>3, <2>4, <2>5 DEF Fate
  <2>7. ASSUME NEW n \in Msgs \ {m}
        PROVE  Fate(n)' = Fate(n)
    BY <1>1, <2>4, <2>7, FateKept
  <2>8. Turned({m}, fate)
    BY <2>2, <2>6, <2>7 DEF Turned
  <2>9. ~loading /\ ~loading'
    BY <1>3, <1>4 DEF LoadTypes
  <2> QED
    BY <2>2, <2>3, <2>8, <2>9, MailAccepts
<1>5. CASE e.type = "Claimed"
  <2>1. /\ Queued' = Queued \ Range(e.msgs) /\ Range(e.msgs) \subseteq Queued /\ UNCHANGED dropped
        /\ inbox'.paused = inbox.paused \ Range(e.msgs) /\ inbox'.seen = inbox.seen
    BY <1>1, <1>5, ClaimedMoves DEF Moves
  <2>2. Range(e.msgs) \subseteq ClaimedMsgs
    BY <1>1, <2>1 DEF Mail, Accounts
  <2>3. ASSUME NEW n \in Msgs
        PROVE  Fate(n)' = Fate(n)
    BY <1>1, <2>1, <2>2 DEF Fate
  <2> QED
    BY <2>3, MailStutters
<1>6. CASE e.type = "Discarded"
  <2>1. PICK S : S = Range(e.msgs)
    OBVIOUS
  <2>2. /\ Queued' = Queued \ S /\ S \subseteq Queued /\ dropped' = dropped \cup S
        /\ inbox'.paused = inbox.paused
    BY <1>1, <1>6, <2>1, DiscardedMoves DEF Moves
  <2>3. ~loading /\ ~loading' /\ ClaimedMsgs \cap Queued = {} /\ S \in SUBSET Msgs
    BY <1>2, <1>3, <1>6, <2>2, TypedBox DEF LoadTypes, ClaimTypes
  <2>4. \A m \in S : Fate(m) \in {"queued", "held"}
    BY <1>1, <2>2, <2>3 DEF Fate
  <2>5. Turned(S, "dropped")
    BY <1>1, <2>2, <2>3 DEF Turned, Fate
  <2> QED
    BY <2>3, <2>4, <2>5, MailDrops
<1>7. CASE e.type = "InboxItemRemoved"
  <2>1. PICK m : m = e.msg
    OBVIOUS
  <2>2. /\ Queued' = Queued \ {m} /\ m \in Queued /\ dropped' = dropped \cup {m}
        /\ inbox'.paused = inbox.paused \ {m}
    BY <1>1, <1>7, <2>1, RemovedMoves DEF Moves, Ready
  <2>3. ~loading /\ ~loading' /\ ClaimedMsgs \cap Queued = {} /\ {m} \in SUBSET Msgs
    BY <1>2, <1>3, <1>7, <2>2, TypedBox DEF LoadTypes, ClaimTypes
  <2>4. \A n \in {m} : Fate(n) \in {"queued", "held"}
    BY <1>1, <2>2, <2>3 DEF Fate
  <2>5. Turned({m}, "dropped")
    BY <1>1, <2>2, <2>3 DEF Turned, Fate
  <2> QED
    BY <2>3, <2>4, <2>5, MailDrops
<1>8. CASE e.type \in {"InboxItemSteered", "InboxReordered"}
  <2>1. /\ Queued' = Queued /\ UNCHANGED dropped /\ inbox'.paused = inbox.paused
    BY <1>1, <1>8, SteeredMoves, ReorderedMoves DEF Moves, Ready
  <2>2. ASSUME NEW n \in Msgs
        PROVE  Fate(n)' = Fate(n)
    BY <1>1, <2>1 DEF Fate
  <2> QED
    BY <2>2, MailStutters
<1>9. CASE e.type = "InboxPaused"
  <2>1. PICK S : S = e.ids
    OBVIOUS
  <2>2. /\ Queued' = Queued /\ S \subseteq Queued /\ UNCHANGED dropped
        /\ inbox'.paused = inbox.paused \cup S
    BY <1>1, <1>9, <2>1, PausedMoves DEF Moves, Fits
  <2>3. ClaimedMsgs \cap Queued = {} /\ S \in SUBSET Msgs
    BY <1>2, <1>9, <2>2, TypedBox DEF ClaimTypes
  <2>4. \A m \in S : Fate(m) \in {"queued", "held"}
    BY <1>1, <2>2, <2>3 DEF Fate
  <2>5. Turned(S, "held")
    BY <1>1, <2>2, <2>3 DEF Turned, Fate
  <2> QED
    BY <2>3, <2>4, <2>5, MailHolds
<1>10. CASE e.type = "InboxItemResumed"
  <2>1. PICK m : m = e.msg
    OBVIOUS
  <2>2. /\ Queued' = Queued /\ m \in Queued \cap inbox.paused /\ UNCHANGED dropped
        /\ inbox'.paused = inbox.paused \ {m}
    BY <1>1, <1>10, <2>1, PausedMoves DEF Moves, Fits
  <2>3. ~loading /\ ~loading' /\ ClaimedMsgs \cap Queued = {} /\ m \in Msgs
    BY <1>2, <1>3, <1>10, <2>2, TypedBox DEF LoadTypes, ClaimTypes
  <2>4. Fate(m) = "held"
    BY <1>1, <2>2, <2>3 DEF Fate
  <2>5. Turned({m}, "queued")
    BY <1>1, <2>2, <2>3 DEF Turned, Fate
  <2> QED
    BY <2>3, <2>4, <2>5, MailReleases
<1> QED
  BY <1>4, <1>5, <1>6, <1>7, <1>8, <1>9, <1>10 DEF ApplyInbox

\* Of the boundaries, only the claim of a step is seen.
LEMMA BoundaryStep ==
  ASSUME Typed, Mail, NEW e \in Events, ApplyBoundary(e), Sound(pending, e),
         loading' = loading, loading => e.type \in LoadTypes
  PROVE  Mailbox!Next \/ UNCHANGED Mailbox!vars
<1>1. UNCHANGED <<inbox, dropped>> /\ Queued' = Queued
  BY DEF ApplyBoundary, Queued
<1>2. CASE log'.claims = log.claims
  <2>1. ASSUME NEW n \in Msgs
        PROVE  Fate(n)' = Fate(n)
    BY <1>1, <1>2, ClaimsKept DEF Fate
  <2> QED
    BY <2>1, MailStutters
<1>3. CASE /\ e.type = "StepInputClaim" /\ e.claim \in Claims /\ ~loading
           /\ log'.claims = Append(log.claims, e.claim) /\ ClaimSet(e.claim) \subseteq Unpaused
  <2>1. PICK S : S = ClaimSet(e.claim)
    OBVIOUS
  <2>2. ClaimedMsgs' = ClaimedMsgs \cup S /\ S \subseteq Unpaused /\ S \subseteq Msgs
    BY <1>3, <2>1, ClaimAdded, ClaimRange
  <2>3. ClaimedMsgs \cap Queued = {} /\ dropped \cap Queued = {}
    BY <1>3, CompleteClaims DEF Sound, Mail, Accounts
  <2>4. \A m \in S : Fate(m) = "queued"
    BY <2>2, <2>3 DEF Fate, Unpaused
  <2>5. Turned(S, "delivered")
    BY <1>1, <2>2, <2>3 DEF Turned, Fate, Unpaused
  <2> QED
    BY <1>3, <2>2, <2>4, <2>5, MailDelivers
<1> QED
  BY <1>2, <1>3, OneClaim

\* A step that leaves the inbox, the claims and the dropped messages alone.
LEMMA FatesKept ==
  ASSUME UNCHANGED <<inbox, dropped>>, log'.claims = log.claims
  PROVE  \A m \in Msgs : Fate(m)' = Fate(m)
<1>1. Queued' = Queued /\ ClaimedMsgs' = ClaimedMsgs
  BY ClaimsKept DEF Queued
<1> QED
  BY <1>1 DEF Fate

\* Every step of the Session is a step of the mailbox, or none.
LEMMA MailboxStep ==
  ASSUME Typed, Mail, Accounts', [Next]_vars
  PROVE  Mailbox!Next \/ UNCHANGED Mailbox!vars
<1>1. CASE WriteEvent
  <2>1. PICK e \in Events :
          /\ Fits(e) /\ Ready(pending, e) /\ Sound(pending, e) /\ loading' = loading
          /\ ApplyInbox(e) \/ ApplyBoundary(e) \/ ApplyUserMessage(e) \/ ApplyStatus(e)
          /\ loading => e.type \in LoadTypes
          /\ e.type \in ClaimTypes \/ Complete
    BY <1>1, Written
  <2>2. CASE ApplyInbox(e)
    BY <2>1, <2>2, InboxStep
  <2>3. CASE ApplyBoundary(e)
    BY <2>1, <2>3, BoundaryStep
  <2>4. CASE ApplyUserMessage(e)
    BY <2>1, <2>4, FatesKept, MailStutters DEF ApplyUserMessage
  <2>5. CASE ApplyStatus(e)
    <3>1. UNCHANGED <<inbox, dropped>> /\ log'.claims = log.claims
      BY <2>5, LogMoves DEF ApplyStatus, ClaimTypes
    <3> QED
      BY <2>1, <3>1, FatesKept, MailStutters
  <2> QED
    BY <2>1, <2>2, <2>3, <2>4, <2>5
<1>2. CASE UserStep \/ DriverStep \/ RepairClaims \/ PauseRestored
  BY <1>2, OthersKeep, FatesKept, MailStutters DEF durable
<1>3. CASE OpenForService
  <2>1. UNCHANGED <<inbox, dropped, log>> /\ loading /\ ~loading'
    BY <1>3 DEF OpenForService, durable
  <2>2. Unpaused = {}
    BY <1>3 DEF OpenForService, Mail, Final, EndedHoldsInput, InboxEmpty, RetainsPausedInputs,
                Unpaused
  <2>3. \A m \in Msgs : Fate(m) # "queued"
    BY <2>2, FateIs
  <2> QED
    BY <2>1, <2>3, FatesKept, MailStutters
<1>4. CASE Crash
  <2>1. UNCHANGED <<inbox, dropped, log>> /\ loading' = TRUE /\ loading \in BOOLEAN
    BY <1>4 DEF Crash, durable, Typed, TypeOK
  <2> QED
    BY <2>1, FatesKept, MailStutters
<1>5. CASE UNCHANGED vars
  <2>1. UNCHANGED <<inbox, dropped, log, loading>>
    BY <1>5 DEF vars, durable
  <2> QED
    BY <2>1, FatesKept, MailStutters
<1> QED
  BY <1>1, <1>2, <1>3, <1>4, <1>5 DEF Next, RestartStep

\* Initially every message is absent and the store serves.
LEMMA MailboxInit ==
  ASSUME Init
  PROVE  Mailbox!Init
<1>1. Mail /\ inbox.seen = {} /\ loading = FALSE
  BY InitHolds DEF Init
<1>2. \A m \in Msgs : Fate(m) = "absent"
  BY <1>1, FateIs
<1> QED
  BY <1>1, <1>2 DEF Mailbox!Init

\* The Session implements the mailbox: every message has one fate at a time, it is
\* delivered from the queue only, delivered and dropped are final, and a restart leaves
\* nothing free to run before the store serves again.
THEOREM SessionIsMailbox == Spec => RefinesMailbox
<1>1. Init => Mailbox!Init
  BY MailboxInit
<1>2. Typed /\ Mail /\ (Typed /\ Mail)' /\ [Next]_vars => [Mailbox!Next]_(Mailbox!vars)
  BY MailboxStep DEF Mail
<1> QED
  BY <1>1, <1>2, MailKept, PTL DEF Spec, RefinesMailbox, Mailbox!Spec

=============================================================================
