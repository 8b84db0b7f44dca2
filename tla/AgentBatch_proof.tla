-------------------------- MODULE AgentBatch_proof --------------------------
(* Proof that an operation of AgentSession never hands over a batch the record
   refuses half way, for every set of messages and every point at which a batch
   may be torn.

   The inductive invariant is Agreed, next to that of AgentSession_proof.  It has
   an order of the events of a batch (Sorted), so that what stands behind the head
   says which events may not precede it; the numbers that a claim, a turn and a
   step share (Numbered, Numbers); and for every event still to be written that
   the record, once the events before it are written, accepts it (Acceptable). *)
EXTENDS AgentSession_proof

(* ------------------------------- invariants ------------------------------- *)

\* Where an event may stand in a batch: written alone, of a claim, or of an end.
Place(e) ==
  IF e.type \in SoloTypes THEN 0
  ELSE IF e.type = "StepInputClaim" THEN 1
  ELSE IF e.type = "Claimed" THEN (IF e.lane = "nextTurn" THEN 2 ELSE 3)
  ELSE IF e.type = "TurnStart" THEN 3
  ELSE IF e.type = "StepStart" THEN 5
  ELSE IF e.type = "UserMessage" THEN 6
  ELSE IF e.type = "AssistantMessage" THEN 7
  ELSE IF e.type = "RequestUsage" THEN 8
  ELSE IF e.type = "StepEnd" THEN 9
  ELSE IF e.type = "TurnEnd" THEN 10
  ELSE IF e.type = "InboxPaused" THEN 11
  ELSE IF e.type = "Discarded" THEN (IF e.lane = "nextTurn" THEN 12 ELSE 13)
  ELSE IF e.type = "AgentStatus" THEN 14
  ELSE IF e.type = "SessionEnded" THEN 15
  ELSE 16

\* One event may precede the other: a claim takes from a lane and starts its turn in
\* either order, and it says several messages; a failed Session pauses both lanes.
Before(e, f) ==
  \/ Place(e) < Place(f)
  \/ Place(e) = Place(f) /\ (e.type # f.type \/ e.type \in {"UserMessage", "InboxPaused"})

Sorted(p) == \A i, j \in DOMAIN p : i < j => Before(p[i], p[j])

\* The step a batch belongs to, and the claim of that step.
Opening(p) == \E e \in Range(p) : e.type = "StepInputClaim"
Nr(p)      == IF Opening(p) THEN NextStepId ELSE Len(log.claims)
Begun(p)   == IF Opening(p) THEN Head(p).claim ELSE log.claims[Len(log.claims)]

\* Claims are numbered as their steps are, and only the last can be torn.
Numbered ==
  /\ log.turns \subseteq DOMAIN log.claims /\ log.steps \subseteq DOMAIN log.claims
  /\ \A k \in DOMAIN log.claims :
       /\ log.claims[k].start => log.claims[k].turn = k
       /\ k # Len(log.claims) => Done(log.claims[k], k)
  /\ \A k \in log.turns : log.claims[k].start

\* A batch opens, starts and speaks for its own step.
Numbers(p) ==
  \A e \in Range(p) :
    /\ e.type = "StepInputClaim" => (e.claim.start => e.claim.turn = NextStepId)
    /\ e.type = "TurnStart" =>
         e.id = Nr(p) /\ e.id \notin log.turns /\ Nr(p) # 0 /\ Begun(p).start
    /\ e.type = "StepStart" => e.id = Nr(p) /\ e.id \notin log.steps /\ Nr(p) # 0
    /\ e.type = "UserMessage" => e.line.step = Nr(p) /\ Nr(p) # 0

\* What the rest of a batch does to a message that is queued.
Discards(p, m) == \E e \in Range(p) : e.type = "Discarded" /\ m \in Range(e.msgs)
Holds(p, m)    == \E e \in Range(p) : e.type = "InboxPaused" /\ m \in e.ids

\* The messages of a claim are those the inbox offers, as long as it holds them.
Offered(c) ==
  /\ Range(c.turnMsgs) \cap Queued # {} => c.turnMsgs \in TurnClaims
  /\ Range(c.stepMsgs) \cap Queued # {} => c.stepMsgs \in StepClaims

\* Once the Session ends, nothing is queued that may run.
Settles(p, e) ==
  /\ e.status \in Terminal
  /\ \A f \in Range(p) : f.type = "AgentStatus" => f.status = e.status
  /\ Has(p, "AgentStatus") \/ e.status = status
  /\ \A m \in Queued :
       Discards(p, m) \/ (e.status = "Failed" /\ IsRoot /\ (m \in inbox.paused \/ Holds(p, m)))

\* When the events of p before e are written, the record accepts e.
Acceptable(p, e) ==
  /\ ~archived
  /\ ended => FailedAdmission(e) \/ e.type \in {"SessionResumed", "Rename"}
  /\ status \in Terminal /\ ~ended => e.type \in {"SessionEnded", "Rename"}
  /\ e.type = "SessionResumed" => ended /\ IsRoot
  /\ e.type = "Enqueued" => e.msg \notin inbox.seen
  /\ e.type = "StepInputClaim" => Offered(e.claim)
  /\ e.type = "Claimed" /\ e.lane = "nextTurn" => e.msgs \in TurnClaims
  /\ e.type = "Claimed" /\ e.lane = "nextStep" => e.msgs \in StepClaims
  /\ e.type = "Discarded" => e.msgs = inbox[e.lane]
  /\ e.type = "InboxPaused" => e.ids \subseteq Queued
  /\ e.type = "InboxItemResumed" => e.msg \in Queued \cap inbox.paused
  /\ e.type = "AgentStatus" /\ e.status \in Terminal => Has(p, "SessionEnded")
  /\ e.type = "SessionEnded" => Settles(p, e)

\* What a batch must be to be handed over.
Agrees(p) == Sorted(p) /\ Numbers(p) /\ \A e \in Range(p) : Acceptable(p, e)

\* What the record must be.
Settled == status \in Terminal => Complete /\ Unpaused = {}

Agreed ==
  /\ Agrees(pending) /\ Numbered /\ Settled
  /\ \A k \in DOMAIN log.claims : Offered(log.claims[k])

(* -------------------------- the order of a batch -------------------------- *)

\* Two batches one after the other are in order when every event of the first may
\* precede every event of the second.
LEMMA JoinSorted ==
  ASSUME NEW p \in Seq(Events), NEW q \in Seq(Events), NEW r, r = p \o q,
         Sorted(p), Sorted(q), \A e \in Range(p), f \in Range(q) : Before(e, f)
  PROVE  r \in Seq(Events) /\ Sorted(r) /\ Range(r) = Range(p) \cup Range(q)
<1>1. r \in Seq(Events) /\ Range(r) = Range(p) \cup Range(q)
  BY JoinSeq
<1>2. Len(p) \in Nat /\ Len(q) \in Nat /\ DOMAIN p = 1..Len(p) /\ DOMAIN q = 1..Len(q)
  OBVIOUS
<1>3. /\ DOMAIN r = 1..(Len(p) + Len(q)) /\ \A i \in 1..Len(p) : r[i] = p[i]
      /\ \A i \in DOMAIN r : i > Len(p) => r[i] = q[i - Len(p)] /\ i - Len(p) \in 1..Len(q)
  BY <1>2, ConcatProperties
<1>4. ASSUME NEW i \in DOMAIN r, NEW j \in DOMAIN r, i < j
      PROVE  Before(r[i], r[j])
  <2>1. CASE j \in 1..Len(p)
    <3>1. i \in 1..Len(p) /\ r[i] = p[i] /\ r[j] = p[j]
      BY <1>2, <1>3, <1>4, <2>1
    <3> QED
      BY <1>2, <1>4, <2>1, <3>1 DEF Sorted
  <2>2. CASE j \notin 1..Len(p)
    <3>1. j > Len(p) /\ r[j] = q[j - Len(p)] /\ j - Len(p) \in DOMAIN q
      BY <1>2, <1>3, <1>4, <2>2
    <3>2. r[j] \in Range(q)
      BY <3>1 DEF Range
    <3>3. CASE i \in 1..Len(p)
      <4>1. r[i] \in Range(p)
        BY <1>2, <1>3, <3>3 DEF Range
      <4> QED
        BY <3>2, <4>1
    <3>4. CASE i \notin 1..Len(p)
      <4>1. /\ r[i] = q[i - Len(p)] /\ i - Len(p) \in DOMAIN q /\ i - Len(p) < j - Len(p)
        BY <1>2, <1>3, <1>4, <3>4
      <4> QED
        BY <3>1, <4>1 DEF Sorted
    <3> QED
      BY <3>3, <3>4
  <2> QED
    BY <2>1, <2>2
<1> QED
  BY <1>1, <1>4 DEF Sorted

\* A batch of one event, or of none, is in order.
LEMMA ShortSorted ==
  /\ <<>> \in Seq(Events) /\ Sorted(<<>>) /\ Range(<<>>) = {}
  /\ \A e \in Events : <<e>> \in Seq(Events) /\ Sorted(<<e>>) /\ Range(<<e>>) = {e}
<1>1. <<>> \in Seq(Events) /\ Sorted(<<>>) /\ Range(<<>>) = {}
  BY DEF Sorted, Range
<1>2. ASSUME NEW e \in Events
      PROVE  <<e>> \in Seq(Events) /\ Sorted(<<e>>) /\ Range(<<e>>) = {e}
  <2>1. <<e>> \in Seq(Events) /\ Range(<<e>>) = {e} /\ DOMAIN <<e>> = {1}
    BY DEF Range
  <2> QED
    BY <2>1 DEF Sorted
<1> QED
  BY <1>1, <1>2

\* An optional event is such a batch.
LEMMA OptSorted ==
  ASSUME NEW c \in BOOLEAN, NEW e, c => e \in Events
  PROVE  /\ Opt(c, e) \in Seq(Events) /\ Sorted(Opt(c, e))
         /\ \A f : f \in Range(Opt(c, e)) <=> c /\ f = e
<1>1. CASE c
  BY <1>1, ShortSorted DEF Opt
<1>2. CASE ~c
  BY <1>2, ShortSorted DEF Opt
<1> QED
  BY <1>1, <1>2

\* Behind the head of a batch that is in order.
LEMMA SortedTail ==
  ASSUME NEW p \in Seq(Events), p # <<>>, Sorted(p)
  PROVE  Sorted(Tail(p)) /\ \A f \in Range(Tail(p)) : Before(Head(p), f)
<1>1. /\ Len(Tail(p)) = Len(p) - 1 /\ Len(p) \in Nat
      /\ \A i \in 1..Len(Tail(p)) : Tail(p)[i] = p[i + 1]
  BY HeadTailProperties
<1>2. Head(p) = p[1] /\ Len(p) >= 1 /\ DOMAIN p = 1..Len(p) /\ DOMAIN Tail(p) = 1..(Len(p) - 1)
  BY <1>1
<1>3. \A i \in DOMAIN Tail(p) : Tail(p)[i] = p[i + 1] /\ i + 1 \in DOMAIN p /\ i + 1 > 1
  BY <1>1, <1>2
<1>4. Sorted(Tail(p))
  BY <1>2, <1>3 DEF Sorted
<1>5. \A i \in DOMAIN Tail(p) : Before(Head(p), Tail(p)[i])
  BY <1>2, <1>3 DEF Sorted
<1> QED
  BY <1>4, <1>5 DEF Range

(* ------------------------ what the write of an event does ----------------- *)

\* The event a write takes, and what is behind it.
LEMMA HeadWritten ==
  ASSUME Typed, Mail, WriteEvent, NEW e, e = Head(pending)
  PROVE  /\ e \in Events /\ e \in Range(pending) /\ pending # <<>> /\ pending \in Seq(Events)
         /\ pending' = Tail(pending) /\ pending' \in Seq(Events)
         /\ Range(pending) = {e} \cup Range(pending')
         /\ Accepts(e) /\ Fits(e) /\ Admits(e) /\ Ready(pending, e) /\ Sound(pending, e)
         /\ ApplyInbox(e) \/ ApplyBoundary(e) \/ ApplyUserMessage(e) \/ ApplyStatus(e)
         /\ ApartIn(inbox) /\ Queued \subseteq inbox.seen /\ ~archived
         /\ e.type \in SoloTypes => Range(pending') = {}
         /\ \A f \in Range(pending') :
              /\ f \in Events /\ f.type # "StepInputClaim" /\ f.type \notin SoloTypes
              /\ f.type \in ClaimTypes <=> e.type \in ClaimTypes
         /\ e.type \notin ClaimTypes => Complete
<1>1. /\ pending # <<>> /\ pending' = Tail(pending) /\ Accepts(e)
      /\ ApplyInbox(e) \/ ApplyBoundary(e) \/ ApplyUserMessage(e) \/ ApplyStatus(e)
  BY DEF WriteEvent
<1>2. /\ e \in Events /\ e \in Range(pending) /\ Ready(pending, e) /\ Sound(pending, e)
      /\ pending' \in Seq(Events) /\ pending \in Seq(Events)
  BY <1>1, HeadIs DEF Mail, Typed
<1>3. /\ Range(pending) = {e} \cup Range(pending') /\ Len(pending') = Len(pending) - 1
      /\ Len(pending) \in Nat
      /\ \A f \in Range(pending') : Rank(e) <= Rank(f) /\ Rank(f) # 1
  BY <1>1, <1>2, HeadAndTail DEF Mail, Batch, Fitting
<1>4. ApartIn(inbox) /\ Queued \subseteq inbox.seen /\ ~archived /\ Fits(e) /\ Admits(e)
  BY <1>1 DEF Mail, Accounts, ApartIn, Accepts
<1>5. Len(pending') = 0 => Range(pending') = {}
  BY <1>2 DEF Range
<1>6. e.type \in SoloTypes => Range(pending') = {}
  BY <1>2, <1>3, <1>5 DEF Ready
<1>7. ASSUME NEW f \in Range(pending')
      PROVE  /\ f \in Events /\ f.type # "StepInputClaim" /\ f.type \notin SoloTypes
             /\ f.type \in ClaimTypes <=> e.type \in ClaimTypes
  <2>1. f \in Events
    BY <1>2, <1>7, RangeOfSeq
  <2>2. f.type # "StepInputClaim"
    BY <1>3, <1>7 DEF Rank
  <2>3. f.type \notin SoloTypes
    <3>1. Ready(pending, f)
      BY <1>3, <1>7 DEF Mail, Batch, Fitting
    <3>2. f.type \in SoloTypes => Range(pending') = {}
      BY <1>3, <1>5, <3>1 DEF Ready
    <3> QED
      BY <1>7, <3>2
  <2>4. f.type \in ClaimTypes <=> e.type \in ClaimTypes
    BY <1>3, <1>7 DEF Mail, Batch, Fitting
  <2> QED
    BY <2>1, <2>2, <2>3, <2>4
<1>8. e.type \notin ClaimTypes => Complete
  BY <1>2 DEF Mail, Batch, Fitting
<1> QED
  BY <1>1, <1>2, <1>3, <1>4, <1>6, <1>7, <1>8

\* What becomes of the status, the end and the archive.
LEMMA StatusMoves ==
  ASSUME NEW e, ApplyInbox(e) \/ ApplyBoundary(e) \/ ApplyUserMessage(e) \/ ApplyStatus(e)
  PROVE  /\ e.type \in {"AgentStatus", "SessionEnded"} => status' = e.status
         /\ e.type = "SessionResumed" => status' = "Idle"
         /\ e.type \notin {"AgentStatus", "SessionEnded", "SessionResumed"} => status' = status
         /\ e.type = "SessionEnded" => ended' = TRUE
         /\ e.type = "SessionResumed" => ended' = FALSE
         /\ e.type \notin {"SessionEnded", "SessionResumed"} => ended' = ended
         /\ e.type # "Rename" => archived' = archived
<1>1. CASE ApplyInbox(e)
  BY <1>1 DEF ApplyInbox
<1>2. CASE ApplyBoundary(e)
  BY <1>2 DEF ApplyBoundary
<1>3. CASE ApplyUserMessage(e)
  BY <1>3 DEF ApplyUserMessage
<1>4. CASE ApplyStatus(e)
  BY <1>4 DEF ApplyStatus
<1> QED
  BY <1>1, <1>2, <1>3, <1>4

InboxTypes == {"Enqueued", "Claimed", "Discarded", "InboxPaused", "InboxItemResumed",
               "InboxItemSteered", "InboxItemRemoved", "InboxReordered"}

\* Two states of the inbox offer the same, when a lane and what is paused are the same.
LEMMA OffersKept ==
  ASSUME inbox'.paused = inbox.paused
  PROVE  /\ inbox'.nextTurn = inbox.nextTurn => TurnClaims' = TurnClaims
         /\ inbox'.nextStep = inbox.nextStep => StepClaims' = StepClaims
  BY DEF TurnClaims, StepClaims

\* An event of another kind leaves the inbox alone.
LEMMA InboxStays ==
  ASSUME NEW e, ApplyInbox(e) \/ ApplyBoundary(e) \/ ApplyUserMessage(e) \/ ApplyStatus(e),
         e.type \notin InboxTypes
  PROVE  /\ inbox' = inbox /\ Queued' = Queued /\ Unpaused' = Unpaused
         /\ TurnClaims' = TurnClaims /\ StepClaims' = StepClaims
<1>1. inbox' = inbox
  <2>1. CASE ApplyInbox(e)
    BY <2>1 DEF ApplyInbox, InboxTypes
  <2>2. CASE ApplyBoundary(e)
    BY <2>2 DEF ApplyBoundary
  <2>3. CASE ApplyUserMessage(e)
    BY <2>3 DEF ApplyUserMessage
  <2>4. CASE ApplyStatus(e)
    BY <2>4 DEF ApplyStatus
  <2> QED
    BY <2>1, <2>2, <2>3, <2>4
<1> QED
  BY <1>1, OffersKept DEF Queued, Unpaused

\* A claim takes what is not paused: it leaves the pauses and the other lane alone.
LEMMA ClaimedLanes ==
  ASSUME Typed, NEW e \in Events, e.type = "Claimed", ApplyInbox(e), Fits(e)
  PROVE  /\ inbox'.paused = inbox.paused
         /\ \A l \in Lanes \ {e.lane} : inbox'[l] = inbox[l]
<1>1. e.lane \in Lanes /\ e.msgs \in Seq(Msgs) /\ inbox \in Box /\ inbox[e.lane] \in Seq(Msgs)
  BY EventFields, TypedBox
<1>2. Range(e.msgs) \cap inbox.paused = {}
  <2>1. CASE e.lane = "nextTurn"
    BY <2>1, TurnClaimOf DEF Fits
  <2>2. CASE e.lane = "nextStep"
    BY <2>2, StepClaimOf DEF Fits
  <2> QED
    BY <1>1, <2>1, <2>2 DEF Lanes
<1>3. PICK rest \in Kept(inbox[e.lane], Msgs \ Range(e.msgs)) :
        inbox' = [inbox EXCEPT ![e.lane] = rest, !.paused = @ \ Range(e.msgs)]
  BY DEF ApplyInbox
<1>4. PICK p : p = inbox.paused \ Range(e.msgs)
  OBVIOUS
<1>5. p = inbox.paused /\ p \in SUBSET Msgs /\ rest \in Seq(Msgs)
  BY <1>1, <1>2, <1>4, KeptOf DEF Box
<1>6. inbox' = LanedPaused(inbox, e.lane, rest, p)
  <2>1. e.lane \in DOMAIN inbox
    BY <1>1 DEF Box, Lanes
  <2> QED
    BY <1>1, <1>3, <1>4, <2>1, LaneNotPaused DEF LanedPaused
<1>7. inbox'.paused = p /\ \A l \in Lanes \ {e.lane} : inbox'[l] = inbox[l]
  BY <1>1, <1>5, <1>6, LanedPausedBox
<1> QED
  BY <1>5, <1>7

\* A discarded lane leaves the other one and the pauses alone, a pause both lanes.
LEMMA EndingLanes ==
  ASSUME Typed, NEW e \in Events, ApplyInbox(e)
  PROVE  /\ e.type = "Discarded" => /\ inbox'.paused = inbox.paused
                                    /\ \A l \in Lanes \ {e.lane} : inbox'[l] = inbox[l]
         /\ e.type = "InboxPaused" => /\ \A l \in Lanes : inbox'[l] = inbox[l]
                                      /\ inbox'.paused = inbox.paused \cup e.ids
<1>1. inbox \in Box
  BY TypedBox
<1>2. ASSUME e.type = "Discarded"
      PROVE  /\ inbox'.paused = inbox.paused
             /\ \A l \in Lanes \ {e.lane} : inbox'[l] = inbox[l]
  <2>1. e.lane \in Lanes /\ <<>> \in Seq(Msgs)
    BY <1>2, EventFields
  <2>2. inbox' = Laned(inbox, e.lane, <<>>)
    BY <1>2 DEF ApplyInbox, Laned
  <2> QED
    BY <1>1, <2>1, <2>2, LanedBox, ZenonT(30)
<1>3. ASSUME e.type = "InboxPaused"
      PROVE  /\ \A l \in Lanes : inbox'[l] = inbox[l]
             /\ inbox'.paused = inbox.paused \cup e.ids
  <2>1. PICK p : p = inbox.paused \cup e.ids
    OBVIOUS
  <2>2. inbox' = [inbox EXCEPT !.paused = p]
    BY <1>3, <2>1 DEF ApplyInbox
  <2> QED
    BY <1>1, <2>1, <2>2 DEF Box, Lanes
<1> QED
  BY <1>2, <1>3

(* ----------------------- the record stays in agreement --------------------- *)

\* Written claims, said messages and started steps stay; the queue only loses messages.
LEMMA DoneStays ==
  ASSUME NEW e, Claiming(e), NEW c, NEW k, Done(c, k)
  PROVE  Done(c, k)'
  BY DEF Done, Claiming

\* An event of no claim leaves every claim complete.
LEMMA OtherComplete ==
  ASSUME Typed, Mail, WriteEvent, NEW e, e = Head(pending), e.type \notin ClaimTypes
  PROVE  /\ Complete' /\ log'.claims = log.claims /\ log'.turns = log.turns
         /\ log'.steps = log.steps
<1>1. /\ e \in Events /\ Fits(e) /\ Ready(pending, e) /\ ApartIn(inbox)
      /\ Queued \subseteq inbox.seen
      /\ ApplyInbox(e) \/ ApplyBoundary(e) \/ ApplyUserMessage(e) \/ ApplyStatus(e)
  BY HeadWritten
<1>2. Complete /\ ClaimedMsgs \cap Queued = {} /\ ClaimedMsgs \subseteq inbox.seen
  BY HeadWritten, CompleteClaims DEF Mail, Accounts
<1>3. ASSUME ApplyInbox(e)
      PROVE  log' = log /\ said' = said /\ Queued' \cap ClaimedMsgs = {}
  <2>1. log' = log /\ said' = said
    BY <1>3 DEF ApplyInbox
  <2>2. CASE e.type = "Enqueued"
    <3>1. Queued' = Queued \cup {e.msg} /\ e.msg \notin inbox.seen
      BY <1>1, <1>3, <2>2, EnqueuedMoves DEF Moves, Fits
    <3> QED
      BY <1>2, <2>1, <3>1
  <2>3. CASE e.type = "Discarded"
    <3>1. Queued' = Queued \ Range(e.msgs)
      BY <1>1, <1>3, <2>3, DiscardedMoves DEF Moves
    <3> QED
      BY <1>2, <2>1, <3>1
  <2>4. CASE e.type = "InboxItemRemoved"
    <3>1. Queued' = Queued \ {e.msg}
      BY <1>1, <1>3, <2>4, RemovedMoves DEF Moves, Ready
    <3> QED
      BY <1>2, <2>1, <3>1
  <2>5. CASE e.type \in {"InboxItemSteered", "InboxReordered", "InboxPaused", "InboxItemResumed"}
    <3>1. Queued' = Queued
      BY <1>1, <1>3, <2>5, SteeredMoves, ReorderedMoves, PausedMoves DEF Moves, Ready
    <3> QED
      BY <1>2, <2>1, <3>1
  <2> QED
    BY <1>3, <2>2, <2>3, <2>4, <2>5 DEF ApplyInbox, ClaimTypes
<1>4. CASE ApplyInbox(e)
  BY <1>2, <1>3, <1>4, CompleteStays
<1>5. CASE ApplyBoundary(e) \/ ApplyStatus(e)
  <2>1. /\ UNCHANGED <<inbox, said>> /\ log'.claims = log.claims /\ log'.turns = log.turns
        /\ log'.steps = log.steps
    BY <1>1, <1>5, LogMoves
  <2>2. Queued' = Queued
    BY <2>1 DEF Queued
  <2> QED
    BY <1>2, <2>1, <2>2, CompleteStays
<1>6. ~ApplyUserMessage(e)
  BY DEF ApplyUserMessage, ClaimTypes
<1> QED
  BY <1>1, <1>4, <1>5, <1>6

\* A turn is offered one list of messages.
LEMMA OneTurnOffer ==
  ASSUME Typed, NEW q \in TurnClaims, NEW r \in TurnClaims
  PROVE  q = r
<1>1. inbox.nextTurn \in Seq(Msgs) /\ Len(inbox.nextTurn) \in Nat
  BY TypedBox
<1>2. CASE Range(inbox.nextTurn) \subseteq inbox.paused
  BY <1>2 DEF TurnClaims
<1>3. CASE ~(Range(inbox.nextTurn) \subseteq inbox.paused)
  <2>1. PICK i \in DOMAIN inbox.nextTurn :
          /\ q = <<inbox.nextTurn[i]>> /\ inbox.nextTurn[i] \notin inbox.paused
          /\ \A k \in 1..(i - 1) : inbox.nextTurn[k] \in inbox.paused
    BY <1>3 DEF TurnClaims
  <2>2. PICK j \in DOMAIN inbox.nextTurn :
          /\ r = <<inbox.nextTurn[j]>> /\ inbox.nextTurn[j] \notin inbox.paused
          /\ \A k \in 1..(j - 1) : inbox.nextTurn[k] \in inbox.paused
    BY <1>3 DEF TurnClaims
  <2>3. i \in 1..Len(inbox.nextTurn) /\ j \in 1..Len(inbox.nextTurn)
    BY <1>1
  <2>4. ~(i < j) /\ ~(j < i)
    BY <1>1, <2>1, <2>2, <2>3
  <2>5. i = j
    BY <1>1, <2>3, <2>4
  <2> QED
    BY <2>1, <2>2, <2>5
<1> QED
  BY <1>2, <1>3

\* What a claim was offered is offered as long as it is queued, while its batch is written.
LEMMA OfferStays ==
  ASSUME Typed, ApartIn(inbox), NEW e \in Events, e.type \in ClaimTypes, Fits(e),
         ApplyInbox(e) \/ ApplyBoundary(e) \/ ApplyUserMessage(e) \/ ApplyStatus(e),
         NEW c, Offered(c)
  PROVE  Offered(c)'
<1>1. CASE e.type # "Claimed"
  <2>1. e.type \notin InboxTypes
    BY <1>1 DEF ClaimTypes, InboxTypes
  <2>2. Queued' = Queued /\ TurnClaims' = TurnClaims /\ StepClaims' = StepClaims
    BY <2>1, InboxStays
  <2> QED
    BY <2>2 DEF Offered
<1>2. CASE e.type = "Claimed"
  <2>1. ApplyInbox(e)
    BY <1>2 DEF ApplyBoundary, ApplyUserMessage, ApplyStatus
  <2>2. /\ inbox'.paused = inbox.paused /\ \A l \in Lanes \ {e.lane} : inbox'[l] = inbox[l]
        /\ Queued' = Queued \ Range(e.msgs)
    BY <1>2, <2>1, ClaimedLanes, ClaimedMoves DEF Moves
  <2>3. CASE e.lane = "nextTurn"
    <3>1. StepClaims' = StepClaims
      BY <2>2, <2>3, OffersKept DEF Lanes
    <3>2. e.msgs \in TurnClaims
      BY <1>2, <2>3 DEF Fits
    <3>3. Range(c.turnMsgs) \cap Queued # {} => c.turnMsgs = e.msgs
      BY <3>2, OneTurnOffer DEF Offered
    <3>4. Range(c.turnMsgs) \cap Queued' = {}
      BY <2>2, <3>3
    <3>5. Range(c.stepMsgs) \cap Queued' # {} => Range(c.stepMsgs) \cap Queued # {}
      BY <2>2
    <3> QED
      BY <3>1, <3>4, <3>5 DEF Offered
  <2>4. CASE e.lane = "nextStep"
    <3>1. TurnClaims' = TurnClaims
      BY <2>2, <2>4, OffersKept DEF Lanes
    <3>2. e.msgs \in StepClaims
      BY <1>2, <2>4 DEF Fits
    <3>3. Range(c.stepMsgs) \cap Queued # {} => Range(c.stepMsgs) = Range(e.msgs)
      BY <3>2, StepClaimOf DEF Offered
    <3>4. Range(c.stepMsgs) \cap Queued' = {}
      BY <2>2, <3>3
    <3>5. Range(c.turnMsgs) \cap Queued' # {} => Range(c.turnMsgs) \cap Queued # {}
      BY <2>2
    <3> QED
      BY <3>1, <3>4, <3>5 DEF Offered
  <2> QED
    BY <1>2, <2>3, <2>4, EventFields DEF Lanes
<1> QED
  BY <1>1, <1>2

\* The numbers of a batch do not change while it is written.
LEMMA NumberStays ==
  ASSUME Typed, Mail, WriteEvent, NEW e, e = Head(pending), e.type \in ClaimTypes
  PROVE  /\ Claiming(e) /\ ~Opening(pending')
         /\ e.type # "StepInputClaim" => ~Opening(pending) /\ log'.claims = log.claims
         /\ e.type = "StepInputClaim" =>
              /\ Opening(pending) /\ e.claim \in Claims
              /\ DOMAIN log'.claims = DOMAIN log.claims \cup {NextStepId}
              /\ NextStepId \notin DOMAIN log.claims
              /\ log'.claims[NextStepId] = e.claim /\ Len(log'.claims) = NextStepId
              /\ \A k \in DOMAIN log.claims : log'.claims[k] = log.claims[k]
         /\ Nr(pending)' = Nr(pending) /\ Begun(pending)' = Begun(pending)
<1>1. /\ e \in Events /\ e \in Range(pending) /\ Fits(e) /\ ApartIn(inbox)
      /\ Range(pending) = {e} \cup Range(pending')
      /\ ApplyInbox(e) \/ ApplyBoundary(e) \/ ApplyUserMessage(e) \/ ApplyStatus(e)
      /\ \A f \in Range(pending') : f.type # "StepInputClaim"
  BY HeadWritten
<1>2. Claiming(e) /\ (e.type # "StepInputClaim" => log'.claims = log.claims)
  BY <1>1, ClaimingMoves
<1>3. ~Opening(pending') /\ (Opening(pending) <=> e.type = "StepInputClaim")
  BY <1>1 DEF Opening
<1>4. CASE e.type = "StepInputClaim"
  <2>1. e.claim \in Claims /\ log'.claims = Append(log.claims, e.claim)
    <3>1. ApplyBoundary(e)
      BY <1>1, <1>4 DEF ApplyInbox, ApplyUserMessage, ApplyStatus
    <3> QED
      BY <1>1, <1>4, <3>1, LogMoves
  <2>2. /\ DOMAIN log'.claims = DOMAIN log.claims \cup {NextStepId}
        /\ NextStepId \notin DOMAIN log.claims
        /\ log'.claims[NextStepId] = e.claim
        /\ \A k \in DOMAIN log.claims : log'.claims[k] = log.claims[k]
    BY <2>1, ClaimAdded
  <2>3. Len(log'.claims) = NextStepId
    <3>1. log.claims \in Seq(Claims)
      BY TypedBox DEF Logs
    <3> QED
      BY <2>1, <3>1 DEF NextStepId
  <2>4. Nr(pending)' = Nr(pending) /\ Begun(pending)' = Begun(pending)
    BY <1>3, <1>4, <2>2, <2>3 DEF Nr, Begun
  <2> QED
    BY <1>2, <1>3, <1>4, <2>1, <2>2, <2>3, <2>4
<1>5. CASE e.type # "StepInputClaim"
  <2>1. Nr(pending)' = Nr(pending) /\ Begun(pending)' = Begun(pending)
    BY <1>2, <1>3, <1>5 DEF Nr, Begun
  <2> QED
    BY <1>2, <1>3, <1>5, <2>1
<1> QED
  BY <1>4, <1>5

\* Claims, turns and steps keep their numbers.
LEMMA NumberedWrite ==
  ASSUME Typed, Mail, Agreed, WriteEvent
  PROVE  Numbered'
<1>1. PICK e : e = Head(pending)
  OBVIOUS
<1>2. e \in Range(pending) /\ e \in Events /\ Sound(pending, e)
  BY <1>1, HeadWritten
<1>3. Len(log.claims) \in Nat /\ DOMAIN log.claims = 1..Len(log.claims)
  BY TypedBox DEF Logs
<1>4. Numbered
  BY DEF Agreed
<1>5. CASE e.type \notin ClaimTypes
  <2>1. /\ Complete' /\ log'.claims = log.claims /\ log'.turns = log.turns
        /\ log'.steps = log.steps
    BY <1>1, <1>5, OtherComplete
  <2> QED
    BY <1>4, <2>1 DEF Numbered, Complete
<1>6. CASE e.type = "StepInputClaim"
  <2>1. /\ Claiming(e)
        /\ DOMAIN log'.claims = DOMAIN log.claims \cup {NextStepId}
        /\ NextStepId \notin DOMAIN log.claims
        /\ log'.claims[NextStepId] = e.claim /\ Len(log'.claims) = NextStepId
        /\ \A k \in DOMAIN log.claims : log'.claims[k] = log.claims[k]
    BY <1>1, <1>6, NumberStays DEF ClaimTypes
  <2>2. /\ log'.turns = log.turns /\ log'.steps = log.steps
    BY <1>6, <2>1 DEF Claiming
  <2>3. e.claim.start => e.claim.turn = NextStepId
    BY <1>2, <1>6 DEF Agreed, Agrees, Numbers
  <2>4. Complete
    BY <1>2, <1>6 DEF Sound
  <2>5. ASSUME NEW k \in DOMAIN log.claims
        PROVE  Done(log.claims[k], k)'
    <3>1. PICK c : c = log.claims[k]
      OBVIOUS
    <3>2. Done(c, k)
      BY <2>4, <2>5, <3>1 DEF Complete
    <3>3. Done(c, k)'
      BY <2>1, <3>2, DoneStays
    <3> QED
      BY <2>1, <2>5, <3>1, <3>3 DEF Done
  <2>6. \A k \in DOMAIN log'.claims :
          /\ log'.claims[k].start => log'.claims[k].turn = k
          /\ k # Len(log'.claims) => Done(log.claims[k], k)'
    BY <1>4, <2>1, <2>3, <2>5 DEF Numbered
  <2> QED
    BY <1>4, <2>1, <2>2, <2>6 DEF Numbered
<1>7. CASE e.type \in ClaimTypes \ {"StepInputClaim"}
  <2>1. Claiming(e) /\ ~Opening(pending) /\ log'.claims = log.claims
    BY <1>1, <1>7, NumberStays
  <2>2. ASSUME NEW k \in DOMAIN log.claims, k # Len(log.claims)
        PROVE  Done(log.claims[k], k)'
    <3>1. PICK c : c = log.claims[k]
      OBVIOUS
    <3>2. Done(c, k)'
      BY <1>4, <2>1, <2>2, <3>1, DoneStays DEF Numbered
    <3> QED
      BY <2>1, <3>1, <3>2 DEF Done
  <2>3. Nr(pending) = Len(log.claims) /\ Begun(pending) = log.claims[Len(log.claims)]
    BY <2>1 DEF Nr, Begun
  <2>4. ASSUME NEW t \in log'.turns
        PROVE  t \in DOMAIN log.claims /\ log.claims[t].start
    <3>1. t \in log.turns \/ (e.type = "TurnStart" /\ t = e.id)
      BY <2>1 DEF Claiming
    <3>2. e.type = "TurnStart" =>
            e.id = Len(log.claims) /\ e.id # 0 /\ log.claims[Len(log.claims)].start
      BY <1>2, <2>3 DEF Agreed, Agrees, Numbers
    <3> QED
      BY <1>3, <1>4, <3>1, <3>2 DEF Numbered
  <2>5. ASSUME NEW s \in log'.steps
        PROVE  s \in DOMAIN log.claims
    <3>1. s \in log.steps \/ (e.type = "StepStart" /\ s = e.id)
      BY <2>1 DEF Claiming
    <3>2. e.type = "StepStart" => e.id = Len(log.claims) /\ e.id # 0
      BY <1>2, <2>3 DEF Agreed, Agrees, Numbers
    <3> QED
      BY <1>3, <1>4, <3>1, <3>2 DEF Numbered
  <2> QED
    BY <1>4, <2>1, <2>2, <2>4, <2>5 DEF Numbered
<1> QED
  BY <1>5, <1>6, <1>7

\* The rest of a batch keeps its numbers.
LEMMA NumbersWrite ==
  ASSUME Typed, Mail, Agreed, WriteEvent
  PROVE  Numbers(pending)'
<1>1. PICK e : e = Head(pending)
  OBVIOUS
<1>2. /\ e \in Range(pending) /\ Range(pending) = {e} \cup Range(pending')
      /\ pending # <<>> /\ pending \in Seq(Events) /\ pending' = Tail(pending)
      /\ \A f \in Range(pending') : /\ f.type # "StepInputClaim"
                                    /\ f.type \in ClaimTypes <=> e.type \in ClaimTypes
  BY <1>1, HeadWritten
<1>3. Numbers(pending) /\ \A f \in Range(pending') : Before(e, f)
  BY <1>1, <1>2, SortedTail DEF Agreed, Agrees
<1>4. CASE e.type \notin ClaimTypes
  BY <1>2, <1>4 DEF Numbers, ClaimTypes
<1>5. CASE e.type \in ClaimTypes
  <2>1. Claiming(e) /\ Nr(pending)' = Nr(pending) /\ Begun(pending)' = Begun(pending)
    BY <1>1, <1>5, NumberStays
  <2>2. ASSUME NEW f \in Range(pending')
        PROVE  /\ f.type = "TurnStart" =>
                    /\ f.id = Nr(pending)' /\ f.id \notin log'.turns /\ Nr(pending)' # 0
                    /\ Begun(pending)'.start
               /\ f.type = "StepStart" =>
                    f.id = Nr(pending)' /\ f.id \notin log'.steps /\ Nr(pending)' # 0
               /\ f.type = "UserMessage" => f.line.step = Nr(pending)' /\ Nr(pending)' # 0
    <3>1. f \in Range(pending) /\ Before(e, f)
      BY <1>2, <1>3
    <3>2. /\ f.type = "TurnStart" =>
               f.id = Nr(pending) /\ f.id \notin log.turns /\ Nr(pending) # 0
               /\ Begun(pending).start
          /\ f.type = "StepStart" => f.id = Nr(pending) /\ f.id \notin log.steps /\ Nr(pending) # 0
          /\ f.type = "UserMessage" => f.line.step = Nr(pending) /\ Nr(pending) # 0
      BY <1>3, <3>1 DEF Numbers
    <3>3. f.type \in {"TurnStart", "StepStart"} => e.type # f.type
      BY <3>1 DEF Before, Place, SoloTypes
    <3>4. /\ f.type = "TurnStart" => f.id \notin log'.turns
          /\ f.type = "StepStart" => f.id \notin log'.steps
      BY <2>1, <3>2, <3>3 DEF Claiming
    <3> QED
      BY <2>1, <3>2, <3>4
  <2> QED
    BY <1>2, <2>2 DEF Numbers
<1> QED
  BY <1>4, <1>5

\* What the end of a Session needs of the queue is kept while the batch is written.
LEMMA SettlesWrite ==
  ASSUME Typed, Mail, Agreed, WriteEvent, NEW f \in Range(pending'), f.type = "SessionEnded"
  PROVE  Settles(pending, f)'
<1>1. PICK e : e = Head(pending)
  OBVIOUS
<1>2. /\ e \in Events /\ e \in Range(pending) /\ Range(pending) = {e} \cup Range(pending')
      /\ pending # <<>> /\ pending \in Seq(Events) /\ pending' = Tail(pending)
      /\ ApplyInbox(e) \/ ApplyBoundary(e) \/ ApplyUserMessage(e) \/ ApplyStatus(e)
      /\ Fits(e) /\ ApartIn(inbox)
      /\ \A g \in Range(pending') : g.type \in ClaimTypes <=> e.type \in ClaimTypes
      /\ e.type \in SoloTypes => Range(pending') = {}
  BY <1>1, HeadWritten
<1>3. Before(e, f) /\ Settles(pending, f) /\ Acceptable(pending, f)
  BY <1>1, <1>2, SortedTail DEF Agreed, Agrees, Acceptable
<1>4. e.type \in PlainTypes \ {"SessionEnded"}
  <2>1. e.type \in SoloTypes \cup ClaimTypes \cup PlainTypes \cup {"Rename"}
    BY <1>2, EventFields
  <2>2. e.type \notin ClaimTypes /\ e.type \notin SoloTypes
    BY <1>2 DEF ClaimTypes
  <2>3. e.type # "Rename" /\ e.type # "SessionEnded"
    BY <1>3 DEF Before, Place, SoloTypes
  <2> QED
    BY <2>1, <2>2, <2>3
<1>5. \A g \in Range(pending') : g.type = "AgentStatus" => g.status = f.status
  BY <1>2, <1>3 DEF Settles
<1>6. Has(pending', "AgentStatus") \/ f.status = status'
  <2>1. CASE e.type = "AgentStatus"
    BY <1>2, <1>3, <2>1, StatusMoves DEF Settles
  <2>2. CASE e.type # "AgentStatus"
    <3>1. status' = status
      BY <1>2, <1>4, <2>2, StatusMoves DEF PlainTypes
    <3> QED
      BY <1>2, <1>3, <2>2, <3>1 DEF Settles, Has
  <2> QED
    BY <2>1, <2>2
<1>7. ASSUME NEW m \in Queued'
      PROVE  \/ Discards(pending', m)
             \/ f.status = "Failed" /\ IsRoot /\ (m \in inbox'.paused \/ Holds(pending', m))
  <2>1. CASE e.type = "Discarded"
    <3>1. ApplyInbox(e)
      BY <1>2, <2>1 DEF ApplyBoundary, ApplyUserMessage, ApplyStatus
    <3>2. Queued' = Queued \ Range(e.msgs) /\ inbox'.paused = inbox.paused
      BY <1>2, <2>1, <3>1, DiscardedMoves DEF Moves
    <3> QED
      BY <1>2, <1>3, <1>7, <2>1, <3>2 DEF Settles, Discards, Holds
  <2>2. CASE e.type = "InboxPaused"
    <3>1. ApplyInbox(e)
      BY <1>2, <2>2 DEF ApplyBoundary, ApplyUserMessage, ApplyStatus
    <3>2. Queued' = Queued /\ inbox'.paused = inbox.paused \cup e.ids
      BY <1>2, <2>2, <3>1, PausedMoves DEF Moves
    <3> QED
      BY <1>2, <1>3, <1>7, <2>2, <3>2 DEF Settles, Discards, Holds
  <2>3. CASE e.type \notin {"Discarded", "InboxPaused"}
    <3>1. inbox' = inbox /\ Queued' = Queued
      BY <1>2, <1>4, <2>3, InboxStays DEF PlainTypes, InboxTypes
    <3> QED
      BY <1>2, <1>3, <1>7, <2>3, <3>1 DEF Settles, Discards, Holds
  <2> QED
    BY <2>1, <2>2, <2>3
<1> QED
  BY <1>3, <1>5, <1>6, <1>7 DEF Settles

\* The lanes an event to come speaks of are left alone by what precedes it.
LEMMA LanesWrite ==
  ASSUME Typed, Mail, Agreed, WriteEvent, NEW f \in Range(pending')
  PROVE  /\ f.type = "Claimed" /\ f.lane = "nextTurn" => (f.msgs \in TurnClaims)'
         /\ f.type = "Claimed" /\ f.lane = "nextStep" => (f.msgs \in StepClaims)'
         /\ f.type = "Discarded" => f.msgs = inbox'[f.lane]
         /\ f.type = "InboxPaused" => f.ids \subseteq Queued'
<1>1. PICK e : e = Head(pending)
  OBVIOUS
<1>2. /\ e \in Events /\ e \in Range(pending) /\ Range(pending) = {e} \cup Range(pending')
      /\ pending # <<>> /\ pending \in Seq(Events) /\ pending' = Tail(pending)
      /\ ApplyInbox(e) \/ ApplyBoundary(e) \/ ApplyUserMessage(e) \/ ApplyStatus(e)
      /\ Fits(e) /\ ApartIn(inbox)
      /\ \A g \in Range(pending') : g \in Events /\ (g.type \in ClaimTypes <=> e.type \in ClaimTypes)
      /\ e.type \in SoloTypes => Range(pending') = {}
  BY <1>1, HeadWritten
<1>3. Before(e, f) /\ Acceptable(pending, f)
  BY <1>1, <1>2, SortedTail DEF Agreed, Agrees
<1>4. e.type \in SoloTypes \cup ClaimTypes \cup PlainTypes \cup {"Rename"} /\ e.type \notin SoloTypes
  BY <1>2, EventFields
<1>5. ASSUME e.type \notin InboxTypes
      PROVE  TurnClaims' = TurnClaims /\ StepClaims' = StepClaims /\ Queued' = Queued
             /\ inbox' = inbox
  BY <1>2, <1>5, InboxStays
<1>6. CASE f.type = "Claimed"
  <2>1. e.type \in ClaimTypes
    BY <1>2, <1>6 DEF ClaimTypes
  <2>2. f.lane \in Lanes
    BY <1>2, <1>6, EventFields
  <2>3. CASE e.type = "Claimed"
    <3>1. e.lane = "nextTurn" /\ f.lane = "nextStep"
      <4>1. e.lane \in Lanes
        BY <1>2, <2>3, EventFields
      <4> QED
        BY <1>3, <1>6, <2>2, <2>3, <4>1 DEF Before, Place, Lanes, SoloTypes
    <3>2. ApplyInbox(e)
      BY <1>2, <2>3 DEF ApplyBoundary, ApplyUserMessage, ApplyStatus
    <3>3. inbox'.paused = inbox.paused /\ inbox'.nextStep = inbox.nextStep
      BY <1>2, <2>3, <3>1, <3>2, ClaimedLanes DEF Lanes
    <3>4. StepClaims' = StepClaims
      BY <3>3, OffersKept
    <3> QED
      BY <1>3, <1>6, <3>1, <3>4 DEF Acceptable
  <2>4. CASE e.type # "Claimed"
    <3>1. TurnClaims' = TurnClaims /\ StepClaims' = StepClaims
      BY <1>5, <2>1, <2>4 DEF InboxTypes, ClaimTypes
    <3> QED
      BY <1>3, <1>6, <3>1 DEF Acceptable
  <2> QED
    BY <2>3, <2>4
<1>7. CASE f.type = "Discarded"
  <2>1. e.type \in PlainTypes \cup {"Rename"} /\ f.msgs = inbox[f.lane] /\ f.lane \in Lanes
    BY <1>2, <1>3, <1>4, <1>7, EventFields DEF Acceptable, ClaimTypes
  <2>2. CASE e.type = "Discarded"
    <3>1. e.lane = "nextTurn" /\ f.lane = "nextStep"
      <4>1. e.lane \in Lanes
        BY <1>2, <2>2, EventFields
      <4> QED
        BY <1>3, <1>7, <2>1, <2>2, <4>1 DEF Before, Place, Lanes, SoloTypes
    <3>2. ApplyInbox(e)
      BY <1>2, <2>2 DEF ApplyBoundary, ApplyUserMessage, ApplyStatus
    <3>3. inbox'.nextStep = inbox.nextStep
      BY <1>2, <2>2, <3>1, <3>2, EndingLanes DEF Lanes
    <3> QED
      BY <1>7, <2>1, <3>1, <3>3
  <2>3. CASE e.type = "InboxPaused"
    <3>1. ApplyInbox(e)
      BY <1>2, <2>3 DEF ApplyBoundary, ApplyUserMessage, ApplyStatus
    <3>2. inbox'[f.lane] = inbox[f.lane]
      BY <1>2, <2>1, <2>3, <3>1, EndingLanes
    <3> QED
      BY <1>7, <2>1, <3>2
  <2>4. CASE e.type \notin {"Discarded", "InboxPaused"}
    BY <1>5, <1>7, <2>1, <2>4 DEF PlainTypes, InboxTypes
  <2> QED
    BY <2>2, <2>3, <2>4
<1>8. CASE f.type = "InboxPaused"
  <2>1. e.type \in PlainTypes \cup {"Rename"} /\ f.ids \subseteq Queued
    BY <1>2, <1>3, <1>4, <1>8 DEF Acceptable, ClaimTypes
  <2>2. CASE e.type = "InboxPaused"
    <3>1. ApplyInbox(e)
      BY <1>2, <2>2 DEF ApplyBoundary, ApplyUserMessage, ApplyStatus
    <3>2. Queued' = Queued
      BY <1>2, <2>2, <3>1, PausedMoves DEF Moves
    <3> QED
      BY <1>8, <2>1, <3>2
  <2>3. CASE e.type # "InboxPaused"
    <3>1. e.type # "Discarded"
      BY <1>3, <1>8 DEF Before, Place, SoloTypes
    <3> QED
      BY <1>5, <1>8, <2>1, <2>3, <3>1 DEF PlainTypes, InboxTypes
  <2> QED
    BY <2>2, <2>3
<1> QED
  BY <1>6, <1>7, <1>8

\* The places of an event that is not written alone.
LEMMA Places ==
  ASSUME NEW e \in Events, NEW f \in Events, e.type \notin SoloTypes, f.type \notin SoloTypes,
         Before(e, f)
  PROVE  /\ e.type # "Rename"
         /\ e.type = "SessionEnded" => f.type = "Rename"
         /\ e.type = "AgentStatus" => f.type \in {"SessionEnded", "Rename"}
<1>1. /\ e.type \in ClaimTypes \cup PlainTypes \cup {"Rename"}
      /\ f.type \in ClaimTypes \cup PlainTypes \cup {"Rename"}
  BY EventFields
<1>2. Place(f) \in 1..16 /\ (f.type # "Rename" => Place(f) \in 1..15)
      /\ (f.type \notin {"Rename", "SessionEnded"} => Place(f) \in 1..14)
  <2>1. f.type \in ClaimTypes => Place(f) \in {1, 2, 3, 5, 6}
    BY DEF Place, ClaimTypes, SoloTypes
  <2>2. f.type \in PlainTypes => Place(f) \in {7, 8, 9, 10, 11, 12, 13, 14, 15}
    BY DEF Place, PlainTypes, SoloTypes
  <2>3. f.type \in PlainTypes \ {"SessionEnded"} => Place(f) \in {7, 8, 9, 10, 11, 12, 13, 14}
    BY DEF Place, PlainTypes, SoloTypes
  <2>4. f.type = "Rename" => Place(f) = 16
    BY DEF Place, SoloTypes
  <2>5. f.type = "Rename" => f.type \notin ClaimTypes \cup PlainTypes
    BY DEF ClaimTypes, PlainTypes
  <2>6. f.type = "SessionEnded" => f.type \notin ClaimTypes
    BY DEF ClaimTypes
  <2> QED
    BY <1>1, <2>1, <2>2, <2>3, <2>4, <2>5, <2>6
<1>3. /\ e.type = "Rename" => Place(e) = 16
      /\ e.type = "SessionEnded" => Place(e) = 15
      /\ e.type = "AgentStatus" => Place(e) = 14
  BY DEF Place, SoloTypes
<1>4. Place(e) < Place(f) \/ (Place(e) = Place(f) /\ (e.type # f.type \/ e.type \in {"UserMessage", "InboxPaused"}))
  BY DEF Before
<1>5. f.type = "Rename" => Place(f) = 16
  BY DEF Place, SoloTypes
<1>6. f.type = "SessionEnded" => Place(f) = 15
  BY DEF Place, SoloTypes
<1>7. e.type # "Rename"
  BY <1>2, <1>3, <1>4
<1>8. e.type = "SessionEnded" => f.type = "Rename"
  BY <1>2, <1>3, <1>4, <1>6
<1>9. Place(f) = 14 => f.type \in {"AgentStatus"}
  BY <1>1 DEF Place, ClaimTypes, PlainTypes, SoloTypes
<1>10. e.type = "AgentStatus" => f.type \in {"SessionEnded", "Rename"}
  BY <1>2, <1>3, <1>4, <1>9
<1> QED
  BY <1>7, <1>8, <1>10

\* What the record accepted of the rest of a batch it still accepts.
LEMMA AcceptableWrite ==
  ASSUME Typed, Mail, Agreed, WriteEvent, NEW f \in Range(pending')
  PROVE  Acceptable(pending, f)'
<1>1. PICK e : e = Head(pending)
  OBVIOUS
<1>2. /\ e \in Events /\ e \in Range(pending) /\ Range(pending) = {e} \cup Range(pending')
      /\ pending # <<>> /\ pending \in Seq(Events) /\ pending' = Tail(pending)
      /\ ApplyInbox(e) \/ ApplyBoundary(e) \/ ApplyUserMessage(e) \/ ApplyStatus(e)
      /\ f \in Events /\ f.type # "StepInputClaim" /\ f.type \notin SoloTypes
      /\ e.type \in SoloTypes => Range(pending') = {}
  BY <1>1, HeadWritten
<1>3. Before(e, f) /\ Acceptable(pending, f) /\ Acceptable(pending, e)
  BY <1>1, <1>2, SortedTail DEF Agreed, Agrees
<1>4. e.type \notin SoloTypes
  BY <1>2
<1>5. /\ e.type # "Rename" /\ e.type # "SessionResumed" /\ e.type # "Enqueued"
      /\ e.type = "SessionEnded" => f.type = "Rename"
      /\ e.type = "AgentStatus" => f.type \in {"SessionEnded", "Rename"}
      /\ f.type # "SessionResumed" /\ f.type # "Enqueued" /\ f.type # "InboxItemResumed"
  BY <1>2, <1>3, <1>4, Places DEF SoloTypes
<1>6. ~archived' /\ archived' = archived
  BY <1>2, <1>3, <1>5, StatusMoves DEF Acceptable
<1>7. ASSUME ended', f.type # "Rename"
      PROVE  FailedAdmission(f)'
  <2>1. e.type # "SessionEnded" /\ ended /\ ended' = ended
    BY <1>2, <1>5, <1>7, StatusMoves
  <2>2. FailedRoot /\ f.type = "InboxPaused" /\ e.type = "InboxPaused"
    BY <1>3, <1>5, <1>7, <2>1 DEF Acceptable, FailedAdmission
  <2>3. status' = status
    BY <1>2, <2>2, StatusMoves
  <2> QED
    BY <1>6, <2>1, <2>2, <2>3 DEF FailedAdmission, FailedRoot
<1>8. ASSUME status' \in Terminal, ~ended'
      PROVE  f.type \in {"SessionEnded", "Rename"}
  <2>1. CASE e.type = "AgentStatus"
    BY <1>5, <2>1
  <2>2. CASE e.type # "AgentStatus"
    <3>1. e.type # "SessionEnded"
      BY <1>2, <1>8, StatusMoves
    <3>2. status' = status /\ ended' = ended
      BY <1>2, <1>5, <2>2, <3>1, StatusMoves
    <3> QED
      BY <1>3, <1>8, <3>2 DEF Acceptable
  <2> QED
    BY <2>1, <2>2
<1>9. f.type = "AgentStatus" /\ f.status \in Terminal => Has(pending', "SessionEnded")
  BY <1>2, <1>3, <1>5 DEF Acceptable, Has
<1>10. f.type = "SessionEnded" => Settles(pending, f)'
  BY SettlesWrite
<1>11. /\ f.type = "Claimed" /\ f.lane = "nextTurn" => (f.msgs \in TurnClaims)'
       /\ f.type = "Claimed" /\ f.lane = "nextStep" => (f.msgs \in StepClaims)'
       /\ f.type = "Discarded" => f.msgs = inbox'[f.lane]
       /\ f.type = "InboxPaused" => f.ids \subseteq Queued'
  BY LanesWrite
<1> QED
  BY <1>2, <1>5, <1>6, <1>7, <1>8, <1>9, <1>10, <1>11 DEF Acceptable

\* A Session that ends leaves nothing torn and nothing that may run.
LEMMA SettledWrite ==
  ASSUME Typed, Mail, Agreed, WriteEvent
  PROVE  Settled'
<1> SUFFICES ASSUME status' \in Terminal
             PROVE  Complete' /\ Unpaused' = {}
  BY DEF Settled
<1>1. PICK e : e = Head(pending)
  OBVIOUS
<1>2. /\ e \in Events /\ e \in Range(pending) /\ Range(pending) = {e} \cup Range(pending')
      /\ pending # <<>> /\ pending \in Seq(Events) /\ pending' = Tail(pending)
      /\ ApplyInbox(e) \/ ApplyBoundary(e) \/ ApplyUserMessage(e) \/ ApplyStatus(e)
      /\ Ready(pending, e) /\ Fits(e) /\ ApartIn(inbox)
      /\ e.type \in SoloTypes => Range(pending') = {}
      /\ \A f \in Range(pending') : f \in Events /\ f.type \notin SoloTypes
  BY <1>1, HeadWritten
<1>3. Acceptable(pending, e) /\ Settled /\ \A f \in Range(pending') : Before(e, f)
  BY <1>1, <1>2, SortedTail DEF Agreed, Agrees
<1>4. ASSUME e.type \in {"AgentStatus", "SessionEnded"}
      PROVE  Complete' /\ Unpaused' = {}
  <2>1. e.type \notin ClaimTypes /\ e.type \notin InboxTypes /\ e.type \notin SoloTypes
    BY <1>4 DEF ClaimTypes, InboxTypes, SoloTypes
  <2>2. Complete' /\ inbox' = inbox /\ Unpaused' = Unpaused /\ status' = e.status
    BY <1>1, <1>2, <1>4, <2>1, OtherComplete, InboxStays, StatusMoves
  <2>3. \A f \in Range(pending') : f.type \in {"SessionEnded", "Rename"}
    BY <1>2, <1>3, <1>4, <2>1, Places
  <2>4. \A m : ~Discards(pending, m) /\ ~Holds(pending, m)
    BY <1>2, <1>4, <2>3 DEF Discards, Holds
  <2>5. PICK g \in Range(pending) : g.type = "SessionEnded"
    BY <1>2, <1>3, <1>4, <2>2 DEF Acceptable, Has
  <2>6. Settles(pending, g)
    BY <2>5 DEF Agreed, Agrees, Acceptable
  <2>7. \A m \in Queued : m \in inbox.paused
    BY <2>4, <2>6 DEF Settles
  <2> QED
    BY <2>2, <2>7 DEF Unpaused
<1>5. ASSUME e.type \notin {"AgentStatus", "SessionEnded"}
      PROVE  Complete' /\ Unpaused' = {}
  <2>1. e.type # "SessionResumed" /\ status' = status /\ status \in Terminal /\ Unpaused = {}
    BY <1>2, <1>3, <1>5, StatusMoves DEF Terminal, Settled
  <2>2. e.type \in {"Enqueued", "InboxPaused", "Rename"}
    BY <1>3, <1>5, <2>1 DEF Acceptable, FailedAdmission
  <2>3. Complete'
    BY <1>1, <2>2, OtherComplete DEF ClaimTypes
  <2>4. CASE e.type = "Enqueued"
    <3>1. ended /\ FailedRoot /\ e.held
      BY <1>2, <1>3, <2>1, <2>4 DEF Acceptable, FailedAdmission, Ready
    <3>2. ApplyInbox(e)
      BY <1>2, <2>4 DEF ApplyBoundary, ApplyUserMessage, ApplyStatus
    <3>3. Queued' = Queued \cup {e.msg} /\ inbox'.paused = inbox.paused \cup {e.msg}
      <4>1. Queued \subseteq inbox.seen
        BY DEF Mail, Accounts
      <4> QED
        BY <1>2, <2>4, <3>1, <3>2, <4>1, EnqueuedMoves DEF Moves
    <3> QED
      BY <2>1, <2>3, <3>3 DEF Unpaused
  <2>5. CASE e.type = "InboxPaused"
    <3>1. ApplyInbox(e)
      BY <1>2, <2>5 DEF ApplyBoundary, ApplyUserMessage, ApplyStatus
    <3>2. Queued' = Queued /\ inbox'.paused = inbox.paused \cup e.ids
      BY <1>2, <2>5, <3>1, PausedMoves DEF Moves
    <3> QED
      BY <2>1, <2>3, <3>2 DEF Unpaused
  <2>6. CASE e.type = "Rename"
    BY <1>2, <2>1, <2>3, <2>6, InboxStays DEF InboxTypes
  <2> QED
    BY <2>2, <2>4, <2>5, <2>6
<1> QED
  BY <1>4, <1>5

\* What every claim was offered it is offered as long as it is queued.
LEMMA OffersWrite ==
  ASSUME Typed, Mail, Agreed, WriteEvent
  PROVE  \A k \in DOMAIN log'.claims : Offered(log.claims[k])'
<1>1. PICK e : e = Head(pending)
  OBVIOUS
<1>2. /\ e \in Events /\ e \in Range(pending) /\ Fits(e) /\ ApartIn(inbox)
      /\ ApplyInbox(e) \/ ApplyBoundary(e) \/ ApplyUserMessage(e) \/ ApplyStatus(e)
  BY <1>1, HeadWritten
<1>3. Acceptable(pending, e) /\ \A k \in DOMAIN log.claims : Offered(log.claims[k])
  BY <1>2 DEF Agreed, Agrees
<1>4. CASE e.type \notin ClaimTypes
  <2>1. Complete'
    BY <1>1, <1>4, OtherComplete
  <2>2. ASSUME NEW k \in DOMAIN log'.claims
        PROVE  Offered(log.claims[k])'
    <3>1. ClaimSet(log'.claims[k]) \cap Queued' = {}
      BY <2>1, <2>2 DEF Complete, Done
    <3> QED
      BY <3>1 DEF Offered, ClaimSet
  <2> QED
    BY <2>2
<1>5. CASE e.type \in ClaimTypes
  <2>1. ASSUME NEW c, Offered(c)
        PROVE  Offered(c)'
    BY <1>2, <1>5, <2>1, OfferStays
  <2>2. ASSUME NEW k \in DOMAIN log'.claims
        PROVE  \E c : log'.claims[k] = c /\ Offered(c)
    <3>1. CASE e.type = "StepInputClaim"
      BY <1>1, <1>3, <1>5, <2>2, <3>1, NumberStays DEF Acceptable
    <3>2. CASE e.type # "StepInputClaim"
      BY <1>1, <1>3, <1>5, <2>2, <3>2, NumberStays
    <3> QED
      BY <3>1, <3>2
  <2>3. ASSUME NEW k \in DOMAIN log'.claims
        PROVE  Offered(log.claims[k])'
    <3>1. PICK c : log'.claims[k] = c /\ Offered(c)
      BY <2>2, <2>3
    <3>2. Offered(c)'
      BY <2>1, <3>1
    <3> QED
      BY <3>1, <3>2 DEF Offered
  <2> QED
    BY <2>3
<1> QED
  BY <1>4, <1>5

\* One event of a batch reaches the record: the rest of it is accepted too.
LEMMA AgreedWrite ==
  ASSUME Typed, Mail, Agreed, WriteEvent
  PROVE  Agreed'
<1>1. pending # <<>> /\ pending \in Seq(Events) /\ pending' = Tail(pending) /\ Sorted(pending)
  BY HeadWritten DEF Agreed, Agrees
<1>2. Sorted(pending')
  BY <1>1, SortedTail
<1>3. Numbers(pending)' /\ Numbered' /\ Settled'
      /\ \A f \in Range(pending') : Acceptable(pending, f)'
  BY NumbersWrite, NumberedWrite, SettledWrite, AcceptableWrite
<1>4. Agrees(pending)'
  BY <1>2, <1>3 DEF Agrees, Sorted
<1> QED
  BY <1>3, <1>4, OffersWrite DEF Agreed

(* ------------------------ what is handed over agrees ----------------------- *)

\* A batch that agrees with the record is one that may be handed over.
LEMMA AgreedHanded ==
  ASSUME Agreed, UNCHANGED durable, NEW b, pending' = b, Agrees(b)
  PROVE  Agreed'
<1>1. /\ inbox' = inbox /\ log' = log /\ said' = said /\ status' = status /\ ended' = ended
      /\ archived' = archived
  BY DEF durable
<1>2. /\ Queued' = Queued /\ Unpaused' = Unpaused /\ TurnClaims' = TurnClaims
      /\ StepClaims' = StepClaims /\ FailedRoot' = FailedRoot /\ NextStepId' = NextStepId
      /\ SaidMsgs' = SaidMsgs
  BY <1>1, OffersKept DEF Queued, Unpaused, FailedRoot, NextStepId, SaidMsgs
<1>3. ASSUME NEW c
      PROVE  Offered(c)' <=> Offered(c)
  BY <1>2 DEF Offered
<1>4. (\A k \in DOMAIN log.claims : Offered(log.claims[k]))'
  <2>1. ASSUME NEW k \in DOMAIN log.claims
        PROVE  Offered(log.claims[k])'
    <3>1. PICK c : c = log.claims[k]
      OBVIOUS
    <3>2. Offered(c)'
      BY <1>3, <2>1, <3>1 DEF Agreed
    <3> QED
      BY <1>1, <3>1, <3>2 DEF Offered
  <2> QED
    BY <1>1, <2>1
<1>5. Complete' <=> Complete
  BY <1>1, <1>2 DEF Complete, Done
<1>6. Settled'
  BY <1>1, <1>2, <1>5 DEF Agreed, Settled
<1>7. Numbered'
  <2>1. Numbered
    BY DEF Agreed
  <2>2. ASSUME NEW c, NEW k
        PROVE  Done(c, k)' <=> Done(c, k)
    BY <1>1, <1>2 DEF Done
  <2>3. ASSUME NEW k \in DOMAIN log.claims, k # Len(log.claims)
        PROVE  Done(log.claims[k], k)'
    <3>1. PICK c : c = log.claims[k]
      OBVIOUS
    <3>2. Done(c, k)'
      BY <2>1, <2>2, <2>3, <3>1 DEF Numbered
    <3> QED
      BY <1>1, <3>1, <3>2 DEF Done
  <2> QED
    BY <1>1, <2>1, <2>3 DEF Numbered
<1>8. Numbers(pending)'
  BY <1>1, <1>2 DEF Agrees, Numbers, Nr, Begun, Opening
<1>9. ASSUME NEW f \in Range(b)
      PROVE  Acceptable(pending, f)'
  <2>1. Acceptable(b, f)
    BY <1>9 DEF Agrees
  <2>2. f.type = "StepInputClaim" => Offered(f.claim)'
    BY <2>1, <1>2 DEF Acceptable, Offered
  <2>3. f.type = "SessionEnded" => Settles(pending, f)'
    BY <1>1, <1>2, <2>1 DEF Acceptable, Settles, Has, Discards, Holds
  <2>4. FailedAdmission(f)' <=> FailedAdmission(f)
    BY <1>2 DEF FailedAdmission
  <2> QED
    BY <1>1, <1>2, <2>1, <2>2, <2>3, <2>4 DEF Acceptable, Has
<1>10. Agrees(pending)'
  BY <1>8, <1>9 DEF Agrees, Sorted
<1> QED
  BY <1>4, <1>6, <1>7, <1>10 DEF Agreed

\* An operation hands its batch over and leaves the record alone.
LEMMA AgreedWritten ==
  ASSUME Agreed, NEW b, Write(b), Agrees(b)
  PROVE  Agreed'
  BY AgreedHanded DEF Write

\* An empty batch.
LEMMA EmptyAgrees == Agrees(<<>>)
  BY ShortSorted DEF Agrees, Numbers

\* An event that is written alone, and that the record accepts.
LEMMA AloneAgrees ==
  ASSUME NEW e \in Events, e.type \in SoloTypes, Accepts(e)
  PROVE  Agrees(<<e>>)
<1>1. Sorted(<<e>>) /\ Range(<<e>>) = {e}
  BY ShortSorted
<1>2. /\ e.type \notin ClaimTypes /\ e.type # "Discarded" /\ e.type # "InboxPaused"
      /\ e.type # "AgentStatus" /\ e.type # "SessionEnded" /\ e.type # "Rename"
  BY DEF SoloTypes, ClaimTypes
<1>3. Numbers(<<e>>)
  BY <1>1, <1>2 DEF Numbers, ClaimTypes
<1>4. Acceptable(<<e>>, e)
  BY <1>2 DEF Acceptable, Accepts, Admits, Fits, ClaimTypes
<1> QED
  BY <1>1, <1>3, <1>4 DEF Agrees

\* The events a turn ends, pauses and changes its status with.
Calm(e) ==
  \/ e.type \in {"AssistantMessage", "RequestUsage", "StepEnd", "TurnEnd"}
  \/ e.type = "InboxPaused" /\ e.ids \subseteq Queued
  \/ e.type = "AgentStatus" /\ e.status \notin Terminal

\* An open Session takes them.
LEMMA CalmAgrees ==
  ASSUME Mutable, NEW b, Sorted(b), \A e \in Range(b) : Calm(e)
  PROVE  Agrees(b)
  BY DEF Agrees, Numbers, Acceptable, Calm, Mutable

\* A batch in order with one event more, or perhaps one.
LEMMA SortedJoin ==
  ASSUME NEW p \in Seq(Events), Sorted(p), NEW e \in Events, \A f \in Range(p) : Before(f, e)
  PROVE  /\ p \o <<e>> \in Seq(Events) /\ Sorted(p \o <<e>>)
         /\ Range(p \o <<e>>) = Range(p) \cup {e}
<1>1. <<e>> \in Seq(Events) /\ Sorted(<<e>>) /\ Range(<<e>>) = {e}
  BY ShortSorted
<1>2. \A f \in Range(p), g \in Range(<<e>>) : Before(f, g)
  BY <1>1
<1>3. PICK r : r = p \o <<e>>
  OBVIOUS
<1>4. r \in Seq(Events) /\ Sorted(r) /\ Range(r) = Range(p) \cup Range(<<e>>)
  BY <1>1, <1>2, <1>3, JoinSorted
<1> QED
  BY <1>1, <1>3, <1>4

\* Where the events of a turn and of its end stand.
LEMMA CalmPlaces ==
  /\ Place(StepEnd) = 9 /\ Place(TurnEnd) = 10 /\ Place(Usage) = 8
  /\ \A kind : Place(Assistant(kind)) = 7
  /\ \A ids : Place(Paused(ids)) = 11 /\ Paused(ids).type = "InboxPaused"
  /\ \A s : Place(Status(s)) = 14 /\ Place(SessionEnded(s)) = 15
  BY DEF Place, SoloTypes, StepEnd, TurnEnd, Usage, Assistant, Paused, Status, SessionEnded

\* They are events, and calm ones.
LEMMA CalmMade ==
  /\ StepEnd \in Events /\ TurnEnd \in Events /\ Usage \in Events
  /\ Calm(StepEnd) /\ Calm(TurnEnd) /\ Calm(Usage)
  /\ \A kind \in {"text", "tools"} : Assistant(kind) \in Events /\ Calm(Assistant(kind))
  /\ \A s \in Statuses \ Terminal : Status(s) \in Events /\ Calm(Status(s))
  /\ {"Idle", "Running", "Waiting"} \subseteq Statuses \ Terminal
<1>1. /\ StepEnd.type = "StepEnd" /\ TurnEnd.type = "TurnEnd" /\ Usage.type = "RequestUsage"
      /\ \A kind : Assistant(kind).type = "AssistantMessage"
      /\ \A s : Status(s).type = "AgentStatus" /\ Status(s).status = s
  BY DEF StepEnd, TurnEnd, Usage, Assistant, Status
<1> QED
  BY <1>1, PlainMade DEF Calm, Plain, Statuses, Terminal

\* Calm events in order, none of them behind place n.
Row(b, n) ==
  b \in Seq(Events) /\ Sorted(b) /\ \A e \in Range(b) : Calm(e) /\ Place(e) \in 0..n

\* Rows grow by an event that stands behind them, or by none.
LEMMA RowGrows ==
  ASSUME NEW p, NEW n \in Nat, Row(p, n), NEW e \in Events, Calm(e), NEW m \in Nat, Place(e) = m, n < m
  PROVE  /\ Row(p, m) /\ Row(p \o <<e>>, m)
         /\ \A c \in BOOLEAN : Row(p \o Opt(c, e), m)
<1>1. p \in Seq(Events) /\ Sorted(p) /\ \A f \in Range(p) : Calm(f) /\ Place(f) \in 0..n
  BY DEF Row
<1>2. \A f \in Range(p) : Before(f, e) /\ Place(f) \in 0..m
  BY <1>1 DEF Before
<1>3. Row(p, m)
  BY <1>1, <1>2 DEF Row
<1>4. Row(p \o <<e>>, m)
  <2>1. /\ p \o <<e>> \in Seq(Events) /\ Sorted(p \o <<e>>)
        /\ Range(p \o <<e>>) = Range(p) \cup {e}
    BY <1>1, <1>2, SortedJoin
  <2> QED
    BY <1>1, <1>2, <2>1 DEF Row
<1>5. p \o <<>> = p
  BY <1>1
<1> QED
  BY <1>3, <1>4, <1>5 DEF Opt

\* The rows of one event, or of none.
LEMMA RowStarts ==
  /\ \A n \in Nat : Row(<<>>, n)
  /\ \A e \in Events, n \in Nat : Calm(e) /\ Place(e) = n => Row(<<e>>, n)
  /\ \A e \in Events, n \in Nat, c \in BOOLEAN : Calm(e) /\ Place(e) = n => Row(Opt(c, e), n)
<1>1. \A n \in Nat : Row(<<>>, n)
  BY ShortSorted DEF Row
<1>2. \A e \in Events, n \in Nat : Calm(e) /\ Place(e) = n => Row(<<e>>, n)
  BY ShortSorted DEF Row
<1> QED
  BY <1>1, <1>2 DEF Opt

\* A row agrees with an open Session.
LEMMA RowAgrees ==
  ASSUME Mutable, NEW b, NEW n, Row(b, n)
  PROVE  Agrees(b)
  BY CalmAgrees DEF Row

\* Short sequences, one event at a time.
LEMMA Pairs ==
  /\ \A a, b \in Events : <<a>> \o <<b>> = <<a, b>>
  /\ \A a, b, c \in Events : <<a, b>> \o <<c>> = <<a, b, c>>
<1>1. ASSUME NEW a \in Events, NEW b \in Events
      PROVE  <<a>> \o <<b>> = <<a, b>>
  <2>1. PICK r, t : r = <<a>> \o <<b>> /\ t = <<a, b>>
    OBVIOUS
  <2>2. /\ <<a>> \in Seq(Events) /\ <<b>> \in Seq(Events) /\ Len(<<a>>) = 1 /\ Len(<<b>>) = 1
        /\ t \in Seq(Events) /\ Len(t) = 2 /\ t[1] = a /\ t[2] = b
    BY <2>1
  <2>3. r \in Seq(Events) /\ Len(r) = 2 /\ r[1] = a /\ r[2] = b
    BY <2>1, <2>2, ConcatProperties
  <2>4. \A i \in 1..Len(r) : r[i] = t[i]
    BY <2>2, <2>3
  <2>5. r = t
    BY <2>2, <2>3, <2>4, SeqEqual
  <2> QED
    BY <2>1, <2>5
<1>2. ASSUME NEW a \in Events, NEW b \in Events, NEW c \in Events
      PROVE  <<a, b>> \o <<c>> = <<a, b, c>>
  <2>1. PICK r, t : r = <<a, b>> \o <<c>> /\ t = <<a, b, c>>
    OBVIOUS
  <2>2. /\ <<a, b>> \in Seq(Events) /\ <<c>> \in Seq(Events) /\ Len(<<a, b>>) = 2
        /\ Len(<<c>>) = 1
        /\ t \in Seq(Events) /\ Len(t) = 3 /\ t[1] = a /\ t[2] = b /\ t[3] = c
    BY <2>1
  <2>3. r \in Seq(Events) /\ Len(r) = 3 /\ r[1] = a /\ r[2] = b /\ r[3] = c
    BY <2>1, <2>2, ConcatProperties
  <2>4. \A i \in 1..Len(r) : r[i] = t[i]
    BY <2>2, <2>3
  <2>5. r = t
    BY <2>2, <2>3, <2>4, SeqEqual
  <2> QED
    BY <2>1, <2>5
<1> QED
  BY <1>1, <1>2

\* What closes a scope.
LEMMA ScopeRow ==
  ASSUME NEW s
  PROVE  Row(CloseScope(s), 10)
<1>1. Row(<<>>, 10) /\ Row(Opt(s.step # 0, StepEnd), 9)
  BY RowStarts, CalmMade, CalmPlaces
<1>2. Row(Opt(s.step # 0, StepEnd) \o <<TurnEnd>>, 10)
  BY <1>1, RowGrows, CalmMade, CalmPlaces
<1> QED
  BY <1>1, <1>2 DEF CloseScope

\* What pauses the input.
LEMMA PauseRow ==
  ASSUME Typed
  PROVE  Row(PauseBatch, 14)
<1>1. PICK a : a = IF log.open.turn = 0 THEN <<>> ELSE Opt(log.open.step # 0, StepEnd) \o <<TurnEnd>>
  OBVIOUS
<1>2. Row(a, 10)
  <2>1. Row(<<>>, 10) /\ Row(Opt(log.open.step # 0, StepEnd), 9)
    BY RowStarts, CalmMade, CalmPlaces
  <2>2. Row(Opt(log.open.step # 0, StepEnd) \o <<TurnEnd>>, 10)
    BY <2>1, RowGrows, CalmMade, CalmPlaces
  <2> QED
    BY <1>1, <2>1, <2>2
<1>3. PICK b, e : b = a \o Opt(Queued # {}, e) /\ e = Paused(Queued)
  OBVIOUS
<1>4. Row(b, 11)
  <2>1. e \in Events /\ Calm(e) /\ Place(e) = 11
    <3>1. Queued \in SUBSET Msgs
      BY TypedBox
    <3>2. e \in Events /\ e.type = "InboxPaused" /\ e.ids = Queued
      BY <1>3, <3>1 DEF Paused, Events
    <3> QED
      BY <1>3, <3>2, CalmPlaces DEF Calm
  <2>2. \A c \in BOOLEAN : Row(a \o Opt(c, e), 11)
    <3>1. 10 \in Nat /\ 11 \in Nat /\ 10 < 11
      OBVIOUS
    <3> QED
      BY <1>2, <2>1, <3>1, RowGrows
  <2> QED
    BY <1>3, <2>2
<1>5. Row(b \o <<Status("Idle")>>, 14)
  BY <1>4, RowGrows, CalmMade, CalmPlaces
<1>6. PauseBatch = b \o <<Status("Idle")>>
  BY <1>1, <1>3 DEF PauseBatch
<1> QED
  BY <1>5, <1>6

\* The short batches of a turn that goes on, or rests.
LEMMA TurnRows ==
  /\ Row(<<>>, 14) /\ Row(<<StepEnd>>, 14) /\ Row(<<TurnEnd>>, 14)
  /\ \A s \in {"Idle", "Running", "Waiting"} :
       /\ Row(<<Status(s)>>, 14) /\ Row(StatusIs(s), 14) /\ Row(<<StepEnd, Status(s)>>, 14)
       /\ \A c \in BOOLEAN : Row(Opt(c, StepEnd) \o <<Status(s)>>, 14)
  /\ Row(<<Assistant("text"), Usage, StepEnd>>, 14) /\ Row(<<Assistant("tools"), Usage>>, 14)
<1>1. Row(<<>>, 14) /\ Row(<<StepEnd>>, 9) /\ Row(<<TurnEnd>>, 10)
      /\ Row(<<>>, 9)
  BY RowStarts, CalmMade, CalmPlaces
<1>2. Row(<<StepEnd>>, 14) /\ Row(<<TurnEnd>>, 14)
  BY <1>1 DEF Row
<1>3. ASSUME NEW s \in {"Idle", "Running", "Waiting"}
      PROVE  /\ Row(<<Status(s)>>, 14) /\ Row(StatusIs(s), 14) /\ Row(<<StepEnd, Status(s)>>, 14)
             /\ \A c \in BOOLEAN : Row(Opt(c, StepEnd) \o <<Status(s)>>, 14)
  <2>1. PICK e : e = Status(s)
    OBVIOUS
  <2>2. e \in Events /\ Calm(e) /\ Place(e) = 14
    BY <2>1, CalmMade, CalmPlaces
  <2>3. Row(<<e>>, 14) /\ \A c \in BOOLEAN : Row(Opt(c, e), 14)
    BY <2>2, RowStarts
  <2>4. Row(<<StepEnd>> \o <<e>>, 14)
    BY <1>1, <2>2, RowGrows
  <2>5. <<StepEnd>> \o <<e>> = <<StepEnd, e>>
    BY <2>2, CalmMade, Pairs
  <2>6. ASSUME NEW c \in BOOLEAN
        PROVE  Row(Opt(c, StepEnd) \o <<e>>, 14)
    <3>1. Row(Opt(c, StepEnd), 9)
      BY <1>1 DEF Opt
    <3> QED
      BY <2>2, <3>1, RowGrows
  <2> QED
    BY <2>1, <2>3, <2>4, <2>5, <2>6 DEF StatusIs
<1>4. \A kind \in {"text", "tools"} : Row(<<Assistant(kind)>>, 7) /\ Row(<<Assistant(kind), Usage>>, 8)
  <2>1. ASSUME NEW kind \in {"text", "tools"}
        PROVE  Row(<<Assistant(kind)>>, 7) /\ Row(<<Assistant(kind), Usage>>, 8)
    <3>1. Row(<<Assistant(kind)>>, 7)
      BY RowStarts, CalmMade, CalmPlaces
    <3>2. Row(<<Assistant(kind)>> \o <<Usage>>, 8)
      BY <3>1, RowGrows, CalmMade, CalmPlaces
    <3>3. <<Assistant(kind)>> \o <<Usage>> = <<Assistant(kind), Usage>>
      BY CalmMade, Pairs
    <3> QED
      BY <3>1, <3>2, <3>3
  <2> QED
    BY <2>1
<1>5. Row(<<Assistant("text"), Usage>> \o <<StepEnd>>, 9)
  BY <1>4, RowGrows, CalmMade, CalmPlaces
<1>6. <<Assistant("text"), Usage>> \o <<StepEnd>> = <<Assistant("text"), Usage, StepEnd>>
  BY CalmMade, Pairs
<1>7. \A b, n : n \in {8, 9} /\ Row(b, n) => Row(b, 14)
  BY DEF Row
<1>8. Row(<<Assistant("text"), Usage, StepEnd>>, 14) /\ Row(<<Assistant("tools"), Usage>>, 14)
  BY <1>4, <1>5, <1>6, <1>7
<1> QED
  BY <1>1, <1>2, <1>3, <1>8

\* What an end does to a lane first.
Settling(e) ==
  \/ e.type = "Discarded" /\ e.msgs = inbox[e.lane]
  \/ e.type = "InboxPaused" /\ e.ids \subseteq Queued

\* An open Session takes the batch that ends it, when nothing stays queued that may run.
LEMMA EndAgrees ==
  ASSUME Typed, Mutable, NEW a \in Seq(Events), Sorted(a),
         \A e \in Range(a) : Settling(e) /\ Place(e) \in 11..13, NEW s \in Terminal,
         \A m \in Queued : Discards(a, m) \/ (s = "Failed" /\ IsRoot /\ Holds(a, m)),
         NEW moved \in BOOLEAN, NEW b, b = a \o <<Status(s), SessionEnded(s)>>
  PROVE  Agrees(b \o Opt(moved, Rename))
<1>1. PICK x, y, z : x = Status(s) /\ y = SessionEnded(s) /\ z = Rename
  OBVIOUS
<1>2. /\ x \in Events /\ x.type = "AgentStatus" /\ x.status = s /\ Place(x) = 14
      /\ y \in Events /\ y.type = "SessionEnded" /\ y.status = s /\ Place(y) = 15
      /\ z \in Events /\ z.type = "Rename" /\ Place(z) = 16
  <2>1. s \in Statuses
    BY DEF Statuses
  <2>2. /\ x \in Events /\ x.type = "AgentStatus" /\ x.status = s
        /\ y \in Events /\ y.type = "SessionEnded" /\ y.status = s
        /\ z \in Events /\ z.type = "Rename"
    BY <1>1, <2>1 DEF Status, SessionEnded, Rename, Events
  <2> QED
    BY <2>2 DEF Place, SoloTypes
<1>3. <<x, y>> \in Seq(Events) /\ Sorted(<<x, y>>) /\ Range(<<x, y>>) = {x, y}
  <2>1. <<x>> \in Seq(Events) /\ Sorted(<<x>>) /\ Range(<<x>>) = {x}
    BY <1>2, ShortSorted
  <2>2. Before(x, y)
    BY <1>2 DEF Before
  <2>3. /\ <<x>> \o <<y>> \in Seq(Events) /\ Sorted(<<x>> \o <<y>>)
        /\ Range(<<x>> \o <<y>>) = {x} \cup {y}
    BY <1>2, <2>1, <2>2, SortedJoin
  <2> QED
    BY <1>2, <2>3, Pairs
<1>4. b \in Seq(Events) /\ Sorted(b) /\ Range(b) = Range(a) \cup {x, y}
  <2>1. PICK t : t = <<x, y>> /\ b = a \o t
    BY <1>1
  <2>2. t \in Seq(Events) /\ Sorted(t) /\ Range(t) = {x, y}
    BY <1>3, <2>1
  <2>3. ASSUME NEW e \in Range(a), NEW f \in Range(t)
        PROVE  Before(e, f)
    <3>1. Place(e) \in 11..13 /\ Place(f) \in {14, 15}
      BY <1>2, <2>2
    <3> QED
      BY <3>1 DEF Before
  <2>4. b \in Seq(Events) /\ Sorted(b) /\ Range(b) = Range(a) \cup Range(t)
    BY <2>1, <2>2, <2>3, JoinSorted, ZenonT(30)
  <2> QED
    BY <2>2, <2>4
<1>5. PICK g : g = b \o Opt(moved, z)
  OBVIOUS
<1>6. Sorted(g) /\ \A e : e \in Range(g) <=> e \in Range(a) \/ e = x \/ e = y \/ (moved /\ e = z)
  <2>1. Opt(moved, z) \in Seq(Events) /\ Sorted(Opt(moved, z))
        /\ \A f : f \in Range(Opt(moved, z)) <=> moved /\ f = z
    BY <1>2, OptSorted
  <2>2. ASSUME NEW e \in Range(b), NEW f \in Range(Opt(moved, z))
        PROVE  Before(e, f)
    <3>1. Place(e) \in 11..15
      <4>1. e \in Range(a) => Place(e) \in 11..15
        OBVIOUS
      <4>2. 14 \in 11..15 /\ 15 \in 11..15
        OBVIOUS
      <4> QED
        BY <1>2, <1>4, <4>1, <4>2
    <3>2. Place(f) = 16
      BY <1>2, <2>1
    <3> QED
      BY <3>1, <3>2 DEF Before
  <2>3. Sorted(g) /\ Range(g) = Range(b) \cup Range(Opt(moved, z))
    BY <1>4, <1>5, <2>1, <2>2, JoinSorted
  <2> QED
    BY <1>4, <2>1, <2>3
<1>7. \A e \in Range(a) : e.type \in {"Discarded", "InboxPaused"}
  BY DEF Settling
<1>8. Numbers(g)
  BY <1>2, <1>6, <1>7 DEF Numbers
<1>9. Has(g, "AgentStatus") /\ Has(g, "SessionEnded")
  BY <1>2, <1>6 DEF Has
<1>10. Settles(g, y)
  <2>1. \A m : (Discards(a, m) => Discards(g, m)) /\ (Holds(a, m) => Holds(g, m))
    BY <1>6 DEF Discards, Holds
  <2>2. \A f \in Range(g) : f.type = "AgentStatus" => f.status = s
    BY <1>2, <1>6, <1>7
  <2> QED
    BY <1>2, <1>9, <2>1, <2>2 DEF Settles
<1>11. ASSUME NEW e \in Range(g)
       PROVE  Acceptable(g, e)
  <2>1. CASE e \in Range(a)
    BY <1>7, <2>1 DEF Acceptable, Settling, Mutable
  <2>2. CASE e = x
    BY <1>2, <1>9, <2>2 DEF Acceptable, Mutable
  <2>3. CASE e = y
    BY <1>2, <1>10, <2>3 DEF Acceptable, Mutable
  <2>4. CASE e = z
    BY <1>2, <2>4 DEF Acceptable, Mutable
  <2> QED
    BY <1>6, <1>11, <2>1, <2>2, <2>3, <2>4
<1>12. Agrees(g)
  BY <1>6, <1>8, <1>11 DEF Agrees
<1> QED
  BY <1>1, <1>5, <1>12

\* The same when the log stays where it is.
LEMMA EndAgreesHere ==
  ASSUME Typed, Mutable, NEW a \in Seq(Events), Sorted(a),
         \A e \in Range(a) : Settling(e) /\ Place(e) \in 11..13, NEW s \in Terminal,
         \A m \in Queued : Discards(a, m) \/ (s = "Failed" /\ IsRoot /\ Holds(a, m)),
         NEW b, b = a \o <<Status(s), SessionEnded(s)>>
  PROVE  Agrees(b)
<1>1. PICK moved \in BOOLEAN : ~moved
  OBVIOUS
<1>2. Agrees(b \o Opt(moved, Rename))
  BY EndAgrees
<1>3. b \in Seq(Events)
  <2>1. Status(s) \in Events /\ SessionEnded(s) \in Events
    BY PlainMade DEF Plain, Statuses
  <2>2. <<Status(s), SessionEnded(s)>> \in Seq(Events)
    BY <2>1
  <2> QED
    BY <2>2
<1>4. b \o Opt(moved, Rename) = b
  BY <1>1, <1>3 DEF Opt
<1> QED
  BY <1>2, <1>4

\* The events that settle the two lanes.
LEMMA LanesSettle ==
  ASSUME Typed, NEW lane \in Lanes, NEW e, NEW held \in BOOLEAN,
         e = IF held THEN Paused(Range(inbox[lane])) ELSE Discarded(lane)
  PROVE  /\ e \in Events /\ Settling(e)
         /\ held => e.type = "InboxPaused" /\ e.ids = Range(inbox[lane]) /\ Place(e) = 11
         /\ ~held => /\ e.type = "Discarded" /\ e.msgs = inbox[lane]
                     /\ Place(e) = IF lane = "nextTurn" THEN 12 ELSE 13
<1>1. inbox[lane] \in Seq(Msgs) /\ Range(inbox[lane]) \subseteq Queued /\ Queued \subseteq Msgs
  BY TypedBox
<1>2. CASE held
  <2>1. e \in Events /\ e.type = "InboxPaused" /\ e.ids = Range(inbox[lane])
    BY <1>1, <1>2 DEF Paused, Events
  <2> QED
    BY <1>1, <1>2, <2>1 DEF Settling, Place, SoloTypes
<1>3. CASE ~held
  <2>1. e \in Events /\ e.type = "Discarded" /\ e.lane = lane /\ e.msgs = inbox[lane]
    BY <1>1, <1>3 DEF Discarded, Events
  <2> QED
    BY <1>1, <1>3, <2>1 DEF Settling, Place, SoloTypes
<1> QED
  BY <1>2, <1>3

\* Both lanes, one after the other, are paused or discarded with all they hold.
LEMMA BothSettle ==
  ASSUME Typed, NEW held \in BOOLEAN, NEW e, NEW f,
         e = IF held THEN Paused(Range(inbox.nextTurn)) ELSE Discarded("nextTurn"),
         f = IF held THEN Paused(Range(inbox.nextStep)) ELSE Discarded("nextStep"),
         NEW a, a = Opt(inbox.nextTurn # <<>>, e) \o Opt(inbox.nextStep # <<>>, f)
  PROVE  /\ a \in Seq(Events) /\ Sorted(a)
         /\ \A d \in Range(a) : Settling(d) /\ Place(d) \in 11..13
         /\ \A m \in Queued : IF held THEN Holds(a, m) ELSE Discards(a, m)
<1>1. /\ e \in Events /\ Settling(e) /\ f \in Events /\ Settling(f)
      /\ held => /\ e.type = "InboxPaused" /\ e.ids = Range(inbox.nextTurn) /\ Place(e) = 11
                 /\ f.type = "InboxPaused" /\ f.ids = Range(inbox.nextStep) /\ Place(f) = 11
      /\ ~held => /\ e.type = "Discarded" /\ e.msgs = inbox.nextTurn /\ Place(e) = 12
                  /\ f.type = "Discarded" /\ f.msgs = inbox.nextStep /\ Place(f) = 13
  <2>1. "nextTurn" \in Lanes /\ "nextStep" \in Lanes
    BY DEF Lanes
  <2>2. /\ e \in Events /\ Settling(e)
        /\ held => e.type = "InboxPaused" /\ e.ids = Range(inbox.nextTurn) /\ Place(e) = 11
        /\ ~held => e.type = "Discarded" /\ e.msgs = inbox.nextTurn /\ Place(e) = 12
    BY <2>1, LanesSettle
  <2>3. /\ f \in Events /\ Settling(f)
        /\ held => f.type = "InboxPaused" /\ f.ids = Range(inbox.nextStep) /\ Place(f) = 11
        /\ ~held => f.type = "Discarded" /\ f.msgs = inbox.nextStep /\ Place(f) = 13
    BY <2>1, LanesSettle
  <2> QED
    BY <2>2, <2>3
<1>2. PICK q1, q2 : q1 = Opt(inbox.nextTurn # <<>>, e) /\ q2 = Opt(inbox.nextStep # <<>>, f)
  OBVIOUS
<1>3. /\ q1 \in Seq(Events) /\ Sorted(q1) /\ \A d : d \in Range(q1) <=> inbox.nextTurn # <<>> /\ d = e
      /\ q2 \in Seq(Events) /\ Sorted(q2) /\ \A d : d \in Range(q2) <=> inbox.nextStep # <<>> /\ d = f
  BY <1>1, <1>2, OptSorted
<1>4. Before(e, f)
  BY <1>1 DEF Before
<1>5. a \in Seq(Events) /\ Sorted(a) /\ Range(a) = Range(q1) \cup Range(q2)
  <2>1. \A d \in Range(q1), g \in Range(q2) : Before(d, g)
    BY <1>3, <1>4
  <2>2. a = q1 \o q2 /\ q1 \in Seq(Events) /\ q2 \in Seq(Events) /\ Sorted(q1) /\ Sorted(q2)
    BY <1>2, <1>3
  <2> QED
    BY <2>1, <2>2, JoinSorted
<1>6. \A d \in Range(a) : Settling(d) /\ Place(d) \in 11..13
  <2>1. Place(e) \in 11..13 /\ Place(f) \in 11..13
    BY <1>1
  <2> QED
    BY <1>1, <1>3, <1>5, <2>1
<1>7. ASSUME NEW m \in Queued
      PROVE  IF held THEN Holds(a, m) ELSE Discards(a, m)
  <2>1. CASE m \in Range(inbox.nextTurn)
    <3>1. inbox.nextTurn # <<>>
      BY <2>1 DEF Range
    <3>2. e \in Range(a)
      BY <1>3, <1>5, <3>1
    <3> QED
      BY <1>1, <2>1, <3>2 DEF Holds, Discards
  <2>2. CASE m \in Range(inbox.nextStep)
    <3>1. inbox.nextStep # <<>>
      BY <2>2 DEF Range
    <3>2. f \in Range(a)
      BY <1>3, <1>5, <3>1
    <3> QED
      BY <1>1, <2>2, <3>2 DEF Holds, Discards
  <2> QED
    BY <1>7, <2>1, <2>2 DEF Queued
<1> QED
  BY <1>5, <1>6, <1>7

\* A Session that fails, and one that is cancelled.
LEMMA EndBatches ==
  ASSUME Typed
  PROVE  /\ Mutable => Agrees(TerminateBatch)
         /\ ~archived /\ ~ended /\ CancelOk => Agrees(CancelBatch)
<1>1. {"Failed", "Cancelled"} \subseteq Terminal
  BY DEF Terminal
<1>2. ASSUME Mutable
      PROVE  Agrees(TerminateBatch)
  <2>1. PICK held : held = IsRoot
    OBVIOUS
  <2>2. PICK e, f :
          /\ e = IF held THEN Paused(Range(inbox.nextTurn)) ELSE Discarded("nextTurn")
          /\ f = IF held THEN Paused(Range(inbox.nextStep)) ELSE Discarded("nextStep")
    OBVIOUS
  <2>3. PICK a : a = Opt(inbox.nextTurn # <<>>, e) \o Opt(inbox.nextStep # <<>>, f)
    OBVIOUS
  <2>4. held \in BOOLEAN
    BY <2>1, RootAssumption
  <2>5. /\ a \in Seq(Events) /\ Sorted(a)
        /\ \A d \in Range(a) : Settling(d) /\ Place(d) \in 11..13
        /\ \A m \in Queued : IF held THEN Holds(a, m) ELSE Discards(a, m)
    BY <2>2, <2>3, <2>4, BothSettle
  <2>6. TerminateBatch = a \o <<Status("Failed"), SessionEnded("Failed")>>
    BY <2>1, <2>2, <2>3 DEF TerminateBatch
  <2> QED
    BY <1>1, <1>2, <2>1, <2>4, <2>5, <2>6, EndAgreesHere
<1>3. ASSUME ~archived, ~ended, CancelOk
      PROVE  Agrees(CancelBatch)
  <2>1. CASE status \notin Terminal
    <3>1. PICK e, f, a, held :
            /\ held \in BOOLEAN /\ ~held
            /\ e = IF held THEN Paused(Range(inbox.nextTurn)) ELSE Discarded("nextTurn")
            /\ f = IF held THEN Paused(Range(inbox.nextStep)) ELSE Discarded("nextStep")
            /\ a = Opt(inbox.nextTurn # <<>>, e) \o Opt(inbox.nextStep # <<>>, f)
      <4>1. PICK held \in BOOLEAN : ~held
        OBVIOUS
      <4> QED
        BY <4>1
    <3>2. /\ a \in Seq(Events) /\ Sorted(a)
          /\ \A d \in Range(a) : Settling(d) /\ Place(d) \in 11..13
          /\ \A m \in Queued : Discards(a, m)
      BY <3>1, BothSettle
    <3>3. CancelBatch = a \o <<Status("Cancelled"), SessionEnded("Cancelled")>>
      BY <2>1, <3>1 DEF CancelBatch
    <3> QED
      BY <1>1, <1>3, <2>1, <3>2, <3>3, EndAgreesHere DEF Mutable
  <2>2. CASE status \in Terminal
    <3>1. PICK y : y = SessionEnded("Cancelled")
      OBVIOUS
    <3>2. /\ y \in Events /\ y.type = "SessionEnded" /\ y.status = "Cancelled"
          /\ CancelBatch = <<y>> /\ status = "Cancelled" /\ Queued = {}
      BY <1>1, <1>3, <2>2, <3>1 DEF SessionEnded, Events, Statuses, CancelBatch, CancelOk, InboxEmpty
    <3>3. Sorted(<<y>>) /\ Range(<<y>>) = {y}
      BY <3>2, ShortSorted
    <3>4. Settles(<<y>>, y)
      BY <1>1, <3>2, <3>3 DEF Settles
    <3>5. Acceptable(<<y>>, y) /\ Numbers(<<y>>)
      BY <1>3, <3>2, <3>3, <3>4 DEF Acceptable, Numbers
    <3> QED
      BY <3>2, <3>3, <3>5 DEF Agrees
  <2> QED
    BY <2>1, <2>2
<1> QED
  BY <1>2, <1>3

\* A stop of the user, and the archive.
LEMMA StopAgrees ==
  ASSUME Typed, ~archived, NEW kind \in {"interrupt", "cancel"}, StopOk(kind)
  PROVE  Agrees(StopBatch(kind))
<1>1. CASE ended
  BY <1>1, EmptyAgrees DEF StopBatch
<1>2. CASE ~ended /\ kind = "cancel"
  BY <1>2, EndBatches DEF StopBatch, StopOk
<1>3. CASE ~ended /\ kind = "interrupt"
  <2>1. Mutable /\ StopBatch(kind) = PauseBatch
    BY <1>3 DEF StopBatch, StopOk
  <2> QED
    BY <2>1, PauseRow, RowAgrees
<1> QED
  BY <1>1, <1>2, <1>3

(* ------------------------- the operations, in turn ------------------------ *)

\* What the user does to the inbox is written alone.
LEMMA InputAgreed ==
  ASSUME Typed, Agreed, NEW m \in Msgs, NEW lane \in Lanes,
         \/ \E held \in BOOLEAN, target \in {0} \cup log.turns : Submit(m, lane, held, target)
         \/ ResumeItem(m) \/ Steer(m) \/ Remove(lane, m)
         \/ \E order \in Arrangements : Reorder(lane, order)
  PROVE  Agreed'
<1>1. ASSUME NEW e \in Events, e.type \in SoloTypes, Accepts(e), Write(<<e>>)
      PROVE  Agreed'
  BY <1>1, AloneAgrees, AgreedWritten
<1>2. ASSUME NEW held \in BOOLEAN, NEW target, Submit(m, lane, held, target)
      PROVE  Agreed'
  <2>1. PICK e : e = Submission(m, lane, held, target)
    OBVIOUS
  <2>2. e \in Events /\ e.type = "Enqueued"
    BY <2>1 DEF Submission, Enqueued, Events, Lanes, FailedRoot
  <2> QED
    BY <1>1, <1>2, <2>1, <2>2 DEF Submit, SoloTypes
<1>3. ASSUME ResumeItem(m)
      PROVE  Agreed'
  <2>1. PICK e : e = Resumed(m)
    OBVIOUS
  <2>2. e \in Events /\ e.type = "InboxItemResumed" /\ e.msg = m
    BY <2>1 DEF Resumed, Events
  <2>3. Accepts(e)
    BY <1>3, <2>2 DEF ResumeItem, Mutable, Accepts, Admits, Fits
  <2> QED
    BY <1>1, <1>3, <2>1, <2>2, <2>3 DEF ResumeItem, SoloTypes
<1>4. ASSUME Steer(m)
      PROVE  Agreed'
  <2>1. PICK e : e = Steered(m)
    OBVIOUS
  <2>2. e \in Events /\ e.type = "InboxItemSteered"
    BY <2>1 DEF Steered, Events
  <2>3. Accepts(e)
    BY <1>4, <2>2 DEF Steer, Mutable, Accepts, Admits, Fits
  <2> QED
    BY <1>1, <1>4, <2>1, <2>2, <2>3 DEF Steer, SoloTypes
<1>5. ASSUME Remove(lane, m)
      PROVE  Agreed'
  <2>1. PICK e : e = Removed(lane, m)
    OBVIOUS
  <2>2. e \in Events /\ e.type = "InboxItemRemoved"
    BY <2>1 DEF Removed, Events
  <2>3. Accepts(e)
    BY <1>5, <2>2 DEF Remove, Mutable, Accepts, Admits, Fits
  <2> QED
    BY <1>1, <1>5, <2>1, <2>2, <2>3 DEF Remove, SoloTypes
<1>6. ASSUME NEW order \in Arrangements, Reorder(lane, order)
      PROVE  Agreed'
  <2>1. PICK e : e = Reordered(lane, order)
    OBVIOUS
  <2>2. e \in Events /\ e.type = "InboxReordered"
    BY <2>1, ArrangementSeq DEF Reordered, Events
  <2>3. Accepts(e)
    BY <1>6, <2>2 DEF Reorder, Mutable, Accepts, Admits, Fits
  <2> QED
    BY <1>1, <1>6, <2>1, <2>2, <2>3 DEF Reorder, SoloTypes
<1> QED
  BY <1>2, <1>3, <1>4, <1>5, <1>6

\* The user resumes or archives a Session.
LEMMA ResumeArchiveAgreed ==
  ASSUME Typed, Agreed, ResumeSession \/ Archive
  PROVE  Agreed'
<1>1. CASE ResumeSession
  <2>1. PICK e : e = SessionResumed
    OBVIOUS
  <2>2. e \in Events /\ e.type = "SessionResumed" /\ e.type \in SoloTypes
    BY <2>1 DEF SessionResumed, Events, SoloTypes
  <2>3. Accepts(e)
    BY <1>1, <2>2 DEF ResumeSession, Accepts, Admits, Fits
  <2>4. Write(<<e>>)
    BY <1>1, <2>1 DEF ResumeSession
  <2> QED
    BY <2>2, <2>3, <2>4, AloneAgrees, AgreedWritten
<1>2. CASE Archive
  <2>1. ~archived /\ (ended \/ (status = "Idle" /\ InboxEmpty))
    BY <1>2 DEF Archive
  <2>2. PICK r : r = IF ended THEN <<>> ELSE <<Status("Completed"), SessionEnded("Completed")>>
    OBVIOUS
  <2>3. PICK moved \in BOOLEAN : Write(r \o Opt(moved, Rename))
    BY <1>2, <2>2 DEF Archive
  <2>4. CASE ended
    <3>1. PICK z, b : z = Rename /\ b = Opt(moved, z)
      OBVIOUS
    <3>2. z \in Events /\ z.type = "Rename"
      BY <3>1 DEF Rename, Events
    <3>3. b \in Seq(Events) /\ Sorted(b) /\ \A e : e \in Range(b) <=> moved /\ e = z
      BY <3>1, <3>2, OptSorted
    <3>4. Agrees(b)
      BY <2>1, <2>4, <3>2, <3>3 DEF Agrees, Numbers, Acceptable
    <3>5. <<>> \o b = b
      BY <3>3
    <3> QED
      BY <2>2, <2>3, <2>4, <3>1, <3>4, <3>5, AgreedWritten
  <2>5. CASE ~ended
    <3>1. Mutable /\ Queued = {} /\ "Completed" \in Terminal
      BY <2>1, <2>5 DEF Mutable, Terminal, InboxEmpty
    <3>2. PICK a : a = <<>>
      OBVIOUS
    <3>3. a \in Seq(Events) /\ Sorted(a) /\ Range(a) = {}
      BY <3>2, ShortSorted
    <3>4. r = a \o <<Status("Completed"), SessionEnded("Completed")>>
      <4>1. Status("Completed") \in Events /\ SessionEnded("Completed") \in Events
        BY PlainMade DEF Plain, Statuses, Terminal
      <4>2. PICK t : t = <<Status("Completed"), SessionEnded("Completed")>>
        OBVIOUS
      <4>3. t \in Seq(Events)
        BY <4>1, <4>2
      <4>4. <<>> \o t = t
        BY <4>3
      <4> QED
        BY <2>2, <2>5, <3>2, <4>2, <4>4
    <3>5. Agrees(r \o Opt(moved, Rename))
      BY <3>1, <3>3, <3>4, EndAgrees
    <3> QED
      BY <2>3, <3>5, AgreedWritten
  <2> QED
    BY <2>4, <2>5
<1> QED
  BY <1>1, <1>2

\* A turn that goes on or rests.
LEMMA TurnAgreed ==
  ASSUME Typed, Agreed,
         \/ Attach \/ Announce \/ GoIdle \/ AnswerText \/ AnswerTools \/ ToolsComplete \/ ToolsWait
         \/ ToolResolved \/ ResumeRecovery \/ EndTurnIfNoStepInput \/ DriverPauses \/ FailTurn
         \/ StopAtStep
         \/ \E kind \in {"interrupt", "cancel"} : RequestStop(kind)
         \/ DriverRejected \/ StopRefused
  PROVE  Agreed'
<1>1. ASSUME NEW b, Write(b), b = <<>> \/ (Mutable /\ \E n \in {10, 14} : Row(b, n))
      PROVE  Agreed'
  BY <1>1, EmptyAgrees, RowAgrees, AgreedWritten
<1>2. CASE Attach \/ FailTurn \/ StopAtStep
  BY <1>1, <1>2, ScopeRow DEF Attach, FailTurn, StopAtStep
<1>3. CASE Announce \/ GoIdle \/ ToolResolved
  BY <1>1, <1>3, TurnRows DEF Announce, GoIdle, ToolResolved
<1>4. CASE AnswerText \/ AnswerTools
  BY <1>1, <1>4, TurnRows DEF AnswerText, AnswerTools
<1>5. CASE ToolsComplete \/ ToolsWait
  BY <1>1, <1>5, TurnRows DEF ToolsComplete, ToolsWait
<1>6. CASE ResumeRecovery
  <2>1. PICK c \in BOOLEAN : c = (scope.step # 0)
    OBVIOUS
  <2>2. Row(Opt(c, StepEnd) \o <<Status("Running")>>, 14)
    BY TurnRows
  <2>3. Mutable /\ Write(Opt(c, StepEnd) \o <<Status("Running")>>)
    BY <1>6, <2>1 DEF ResumeRecovery
  <2> QED
    BY <1>1, <2>2, <2>3
<1>7. CASE EndTurnIfNoStepInput
  BY <1>1, <1>7, TurnRows DEF EndTurnIfNoStepInput
<1>8. CASE DriverPauses
  BY <1>1, <1>8, PauseRow DEF DriverPauses
<1>9. CASE DriverRejected \/ StopRefused \/ \E kind \in {"interrupt", "cancel"} : RequestStop(kind)
  BY <1>1, <1>9 DEF DriverRejected, StopRefused, RequestStop
<1> QED
  BY <1>2, <1>3, <1>4, <1>5, <1>6, <1>7, <1>8, <1>9

\* A Session that fails, and a stop of the user.
LEMMA EndAgreed ==
  ASSUME Typed, Agreed,
         \/ Terminate \/ TurnLimitExceeded \/ FinishStop
         \/ \E kind \in {"interrupt", "cancel"} : StopDetached(kind)
  PROVE  Agreed'
<1>1. CASE Terminate \/ TurnLimitExceeded
  <2>1. Mutable /\ Write(TerminateBatch)
    BY <1>1 DEF Terminate, TurnLimitExceeded
  <2> QED
    BY <2>1, EndBatches, AgreedWritten
<1>2. CASE FinishStop
  <2>1. ~archived /\ halt \in {"interrupt", "cancel"} /\ StopOk(halt) /\ Write(StopBatch(halt))
    BY <1>2, DriverTypes DEF FinishStop
  <2> QED
    BY <2>1, StopAgrees, AgreedWritten
<1>3. ASSUME NEW kind \in {"interrupt", "cancel"}, StopDetached(kind)
      PROVE  Agreed'
  <2>1. ~archived /\ StopOk(kind) /\ Write(StopBatch(kind))
    BY <1>3 DEF StopDetached
  <2> QED
    BY <2>1, StopAgrees, AgreedWritten
<1> QED
  BY <1>1, <1>2, <1>3

\* What a restart pauses, the start of the service, and a crash.
LEMMA RestartAgreed ==
  ASSUME Typed, Agreed, PauseRestored \/ OpenForService \/ Crash
  PROVE  Agreed'
<1>1. CASE PauseRestored
  <2>1. Mutable /\ Write(<<Paused(Unpaused)>>)
    BY <1>1 DEF PauseRestored, Agreed, Settled, Mutable
  <2>2. PICK e : e = Paused(Unpaused)
    OBVIOUS
  <2>3. Unpaused \in SUBSET Msgs /\ Unpaused \subseteq Queued
    BY TypedBox DEF Unpaused
  <2>4. e \in Events /\ Calm(e) /\ Place(e) = 11
    <3>1. e \in Events /\ e.type = "InboxPaused" /\ e.ids = Unpaused
      BY <2>2, <2>3 DEF Paused, Events
    <3> QED
      BY <2>2, <2>3, <3>1, CalmPlaces DEF Calm
  <2>5. Row(<<e>>, 11)
    BY <2>4, RowStarts
  <2> QED
    BY <2>1, <2>2, <2>5, RowAgrees, AgreedWritten
<1>2. CASE OpenForService
  <2>1. UNCHANGED durable /\ pending' = pending
    BY <1>2 DEF OpenForService
  <2> QED
    BY <2>1, AgreedHanded DEF Agreed
<1>3. CASE Crash
  <2>1. UNCHANGED durable /\ pending' = <<>>
    BY <1>3 DEF Crash
  <2> QED
    BY <2>1, AgreedHanded, EmptyAgrees
<1> QED
  BY <1>1, <1>2, <1>3

(* ------------------------------ claim batches ----------------------------- *)

Adds(r, p, c, e) == r = p \o Opt(c, e)

\* A batch in order that an optional event follows.
LEMMA SortedOpt ==
  ASSUME NEW p \in Seq(Events), Sorted(p), NEW c \in BOOLEAN, NEW e \in Events,
         \A f \in Range(p) : Before(f, e), NEW r, Adds(r, p, c, e)
  PROVE  /\ r \in Seq(Events) /\ Sorted(r)
         /\ \A f : f \in Range(r) <=> f \in Range(p) \/ (c /\ f = e)
         /\ p # <<>> => r # <<>> /\ Head(r) = Head(p)
<1>1. CASE c
  <2>1. r = p \o <<e>>
    BY <1>1 DEF Opt, Adds
  <2>2. r \in Seq(Events) /\ Sorted(r) /\ Range(r) = Range(p) \cup {e}
    BY <2>1, SortedJoin
  <2>3. p # <<>> => r # <<>> /\ Head(r) = Head(p)
    <3>1. <<e>> \in Seq(Events) /\ Len(<<e>>) = 1
      OBVIOUS
    <3>2. Len(r) = Len(p) + 1 /\ \A i \in 1..Len(r) : i <= Len(p) => r[i] = p[i]
      BY <2>1, <3>1, ConcatProperties
    <3>3. p # <<>> => Len(p) >= 1 /\ Len(p) \in Nat /\ Head(p) = p[1]
      OBVIOUS
    <3> QED
      BY <2>2, <3>2, <3>3
  <2> QED
    BY <1>1, <2>2, <2>3
<1>2. CASE ~c
  <2>1. r = p
    BY <1>2 DEF Opt, Adds
  <2> QED
    BY <1>2, <2>1
<1> QED
  BY <1>1, <1>2

\* Where the events of a claim stand.
LEMMA ClaimPlaces ==
  /\ \A e : e.type = "StepInputClaim" => Place(e) = 1
  /\ \A q : Place(Claimed("nextTurn", q)) = 2 /\ Claimed("nextTurn", q).type = "Claimed"
  /\ \A q : Place(Claimed("nextStep", q)) = 3 /\ Claimed("nextStep", q).type = "Claimed"
  /\ \A t : Place(TurnStart(t)) = 3 /\ TurnStart(t).type = "TurnStart"
  /\ \A t : Place(StepStart(t)) = 5 /\ StepStart(t).type = "StepStart"
  /\ \A e : e.type = "UserMessage" => Place(e) = 6
  BY DEF Place, SoloTypes, Claimed, TurnStart, StepStart

\* What a step says is in order, and said by that step.
LEMMA LinesSorted ==
  ASSUME NEW q \in Seq(Msgs), NEW s \in 1..MaxSteps, NEW u, u = UserMessages(q, s)
  PROVE  /\ u \in Seq(Events) /\ Sorted(u)
         /\ \A e \in Range(u) : e.type = "UserMessage" /\ e.line.step = s /\ Place(e) = 6
<1>1. u \in Seq(Lines)
  BY LinesMade
<1>2. \A i \in DOMAIN u : u[i] \in Events /\ u[i].type = "UserMessage"
  BY <1>1 DEF Lines
<1>3. u \in Seq(Events)
  BY <1>1, <1>2
<1>4. \A i \in DOMAIN u : u[i].line.step = s
  BY DEF UserMessages
<1>5. \A i \in DOMAIN u : Place(u[i]) = 6
  BY <1>2, ClaimPlaces
<1>6. Sorted(u)
  BY <1>2, <1>5 DEF Sorted, Before
<1> QED
  BY <1>2, <1>3, <1>4, <1>5, <1>6 DEF Range

Speaks(r, p, q, s) == r = p \o UserMessages(q, s)

\* A batch in order that these lines follow.
LEMMA LinesFollow ==
  ASSUME NEW p \in Seq(Events), Sorted(p), \A f \in Range(p) : Place(f) \in 1..5,
         NEW q \in Seq(Msgs), NEW s \in 1..MaxSteps, NEW r, Speaks(r, p, q, s)
  PROVE  /\ Sorted(r) /\ (p # <<>> => r # <<>> /\ Head(r) = Head(p))
         /\ \A e \in Range(r) : e \in Range(p) \/ (e.type = "UserMessage" /\ e.line.step = s)
         /\ \A e \in Range(p) : e \in Range(r)
<1>1. PICK u : u = UserMessages(q, s) /\ r = p \o u
  BY DEF Speaks
<1>2. /\ u \in Seq(Events) /\ Sorted(u)
      /\ \A e \in Range(u) : e.type = "UserMessage" /\ e.line.step = s /\ Place(e) = 6
  BY <1>1, LinesSorted
<1>3. ASSUME NEW e \in Range(p), NEW f \in Range(u)
      PROVE  Before(e, f)
  <2>1. Place(e) \in 1..5 /\ Place(f) = 6
    BY <1>2
  <2> QED
    BY <2>1 DEF Before
<1>4. r \in Seq(Events) /\ Sorted(r) /\ Range(r) = Range(p) \cup Range(u)
  BY <1>1, <1>2, <1>3, JoinSorted
<1>5. p # <<>> => r # <<>> /\ Head(r) = Head(p)
  <2>1. Len(r) = Len(p) + Len(u) /\ \A i \in 1..Len(r) : i <= Len(p) => r[i] = p[i]
    BY <1>1, <1>2, ConcatProperties
  <2>2. p # <<>> => Len(p) >= 1 /\ Len(p) \in Nat /\ Head(p) = p[1]
    OBVIOUS
  <2>3. Len(u) \in Nat
    BY <1>2
  <2> QED
    BY <1>4, <2>1, <2>2, <2>3
<1> QED
  BY <1>2, <1>4, <1>5

\* The batch of a claim, each of its events there or left out.
ClaimRow(p, q, s, a0, e0, a1, e1, a2, e2, a3, e3, a4, e4) ==
  /\ a0 \in BOOLEAN /\ a1 \in BOOLEAN /\ a2 \in BOOLEAN /\ a3 \in BOOLEAN /\ a4 \in BOOLEAN
  /\ e0 \in Events /\ e1 \in Events /\ e2 \in Events /\ e3 \in Events /\ e4 \in Events
  /\ Place(e0) = 1 /\ Place(e1) = 2 /\ Place(e2) = 3 /\ Place(e3) = 3 /\ e2.type # e3.type
  /\ Place(e4) = 5 /\ q \in Seq(Msgs) /\ s \in 1..MaxSteps
  /\ \E p0, p1, p2, p3, p4 :
       /\ p0 = Opt(a0, e0) /\ Adds(p1, p0, a1, e1) /\ Adds(p2, p1, a2, e2)
       /\ Adds(p3, p2, a3, e3) /\ Adds(p4, p3, a4, e4) /\ Speaks(p, p4, q, s)

\* What such a batch holds, and its order.
ClaimHolds(p, s, a0, e0, a1, e1, a2, e2, a3, e3, a4, e4) ==
  /\ Sorted(p) /\ (a0 => p # <<>> /\ Head(p) = e0 /\ e0 \in Range(p))
  /\ \A e \in Range(p) : \/ (a0 /\ e = e0) \/ (a1 /\ e = e1) \/ (a2 /\ e = e2)
                         \/ (a3 /\ e = e3) \/ (a4 /\ e = e4)
                         \/ (e.type = "UserMessage" /\ e.line.step = s)
  /\ (a1 => e1 \in Range(p)) /\ (a2 => e2 \in Range(p)) /\ (a3 => e3 \in Range(p))
  /\ (a4 => e4 \in Range(p))

\* The batch of a claim, what is missing of it left out, is in order.
LEMMA ClaimOrder ==
  ASSUME NEW p, NEW q, NEW s, NEW a0, NEW e0, NEW a1, NEW e1, NEW a2, NEW e2, NEW a3, NEW e3,
         NEW a4, NEW e4, ClaimRow(p, q, s, a0, e0, a1, e1, a2, e2, a3, e3, a4, e4)
  PROVE  ClaimHolds(p, s, a0, e0, a1, e1, a2, e2, a3, e3, a4, e4)
<1>0. PICK p0, p1, p2, p3, p4 :
        /\ p0 = Opt(a0, e0) /\ Adds(p1, p0, a1, e1) /\ Adds(p2, p1, a2, e2)
        /\ Adds(p3, p2, a3, e3) /\ Adds(p4, p3, a4, e4) /\ Speaks(p, p4, q, s)
  BY DEF ClaimRow
<1>a. /\ a0 \in BOOLEAN /\ a1 \in BOOLEAN /\ a2 \in BOOLEAN /\ a3 \in BOOLEAN /\ a4 \in BOOLEAN
      /\ e0 \in Events /\ e1 \in Events /\ e2 \in Events /\ e3 \in Events /\ e4 \in Events
      /\ q \in Seq(Msgs) /\ s \in 1..MaxSteps
  BY DEF ClaimRow
<1>b. /\ Place(e0) = 1 /\ Place(e1) = 2 /\ Place(e2) = 3 /\ Place(e3) = 3 /\ e2.type # e3.type
      /\ Place(e4) = 5
  BY DEF ClaimRow
<1>1. p0 \in Seq(Events) /\ Sorted(p0) /\ \A f : f \in Range(p0) <=> a0 /\ f = e0
  BY <1>0, <1>a, OptSorted
<1>2. a0 => p0 # <<>> /\ Head(p0) = e0 /\ e0 \in Range(p0)
  BY <1>0, <1>a, <1>1 DEF Opt
<1>3. /\ p1 \in Seq(Events) /\ Sorted(p1)
      /\ \A f : f \in Range(p1) <=> f \in Range(p0) \/ (a1 /\ f = e1)
      /\ p0 # <<>> => p1 # <<>> /\ Head(p1) = Head(p0)
  <2>1. \A f \in Range(p0) : Before(f, e1)
    BY <1>b, <1>1 DEF Before
  <2> QED
    BY <1>0, <1>a, <1>1, <2>1, SortedOpt
<1>4. /\ p2 \in Seq(Events) /\ Sorted(p2)
      /\ \A f : f \in Range(p2) <=> f \in Range(p1) \/ (a2 /\ f = e2)
      /\ p1 # <<>> => p2 # <<>> /\ Head(p2) = Head(p1)
  <2>1. \A f \in Range(p1) : Before(f, e2)
    BY <1>b, <1>1, <1>3 DEF Before
  <2> QED
    BY <1>0, <1>a, <1>3, <2>1, SortedOpt
<1>5. /\ p3 \in Seq(Events) /\ Sorted(p3)
      /\ \A f : f \in Range(p3) <=> f \in Range(p2) \/ (a3 /\ f = e3)
      /\ p2 # <<>> => p3 # <<>> /\ Head(p3) = Head(p2)
  <2>1. Before(e0, e3) /\ Before(e1, e3) /\ Before(e2, e3)
    BY <1>b DEF Before
  <2>2. \A f \in Range(p2) : f = e0 \/ f = e1 \/ f = e2
    BY <1>1, <1>3, <1>4
  <2>3. \A f \in Range(p2) : Before(f, e3)
    BY <2>1, <2>2
  <2> QED
    BY <1>0, <1>a, <1>4, <2>3, SortedOpt
<1>6. /\ p4 \in Seq(Events) /\ Sorted(p4)
      /\ \A f : f \in Range(p4) <=> f \in Range(p3) \/ (a4 /\ f = e4)
      /\ p3 # <<>> => p4 # <<>> /\ Head(p4) = Head(p3)
  <2>1. Before(e0, e4) /\ Before(e1, e4) /\ Before(e2, e4) /\ Before(e3, e4)
    BY <1>b DEF Before
  <2>2. \A f \in Range(p3) : f = e0 \/ f = e1 \/ f = e2 \/ f = e3
    BY <1>1, <1>3, <1>4, <1>5
  <2>3. \A f \in Range(p3) : Before(f, e4)
    BY <2>1, <2>2
  <2> QED
    BY <1>0, <1>a, <1>5, <2>3, SortedOpt
<1>7. \A f : f \in Range(p4) <=> \/ (a0 /\ f = e0) \/ (a1 /\ f = e1) \/ (a2 /\ f = e2)
                                 \/ (a3 /\ f = e3) \/ (a4 /\ f = e4)
  BY <1>1, <1>3, <1>4, <1>5, <1>6
<1>8. \A f \in Range(p4) : Place(f) \in 1..5
  BY <1>b, <1>7
<1>9. /\ Sorted(p) /\ (p4 # <<>> => p # <<>> /\ Head(p) = Head(p4))
      /\ \A e \in Range(p) : e \in Range(p4) \/ (e.type = "UserMessage" /\ e.line.step = s)
      /\ \A e \in Range(p4) : e \in Range(p)
  BY <1>0, <1>a, <1>6, <1>8, LinesFollow
<1>10. a0 => p # <<>> /\ Head(p) = e0 /\ e0 \in Range(p)
  BY <1>2, <1>3, <1>4, <1>5, <1>6, <1>7, <1>9
<1>11. /\ (a1 => e1 \in Range(p)) /\ (a2 => e2 \in Range(p)) /\ (a3 => e3 \in Range(p))
       /\ (a4 => e4 \in Range(p))
  BY <1>7, <1>9
<1> QED
  BY <1>7, <1>9, <1>10, <1>11 DEF ClaimHolds

\* The events of a claim after its head, one by one.
LEMMA ClaimParts ==
  ASSUME NEW t \in 1..MaxSteps, NEW s \in 1..MaxSteps, NEW tq \in Seq(Msgs), NEW sq \in Seq(Msgs),
         NEW ct, ct = Claimed("nextTurn", tq), NEW cs, cs = Claimed("nextStep", sq),
         NEW ts, ts = TurnStart(t), NEW ss, ss = StepStart(s)
  PROVE  /\ ct \in Events /\ ct.type = "Claimed" /\ ct.lane = "nextTurn" /\ ct.msgs = tq
         /\ cs \in Events /\ cs.type = "Claimed" /\ cs.lane = "nextStep" /\ cs.msgs = sq
         /\ ts \in Events /\ ts.type = "TurnStart" /\ ts.id = t
         /\ ss \in Events /\ ss.type = "StepStart" /\ ss.id = s
         /\ Place(ct) = 2 /\ Place(cs) = 3 /\ Place(ts) = 3 /\ Place(ss) = 5
  BY ClaimPlaces DEF Claimed, TurnStart, StepStart, Events, Lanes

\* The number of a new step is not taken.
LEMMA NewNumber ==
  ASSUME Typed, Agreed, NEW s, s = NextStepId
  PROVE  s \notin log.turns /\ s \notin log.steps /\ s # 0
<1>1. log.claims \in Seq(Claims) /\ Len(log.claims) \in Nat
  BY TypedBox DEF Logs
<1>2. s \notin DOMAIN log.claims /\ s # 0
  BY <1>1 DEF NextStepId
<1> QED
  BY <1>2 DEF Agreed, Numbered

\* The batch of a new claim.
ClaimBatch(p, s, e0, ct, cs, ts, ss) ==
  /\ e0.type = "StepInputClaim" /\ (e0.claim.start => e0.claim.turn = s)
  /\ e0.claim.turnMsgs = <<>> \/ e0.claim.turnMsgs \in TurnClaims
  /\ e0.claim.stepMsgs \in StepClaims
  /\ ct.type = "Claimed" /\ ct.lane = "nextTurn" /\ ct.msgs = e0.claim.turnMsgs
  /\ cs.type = "Claimed" /\ cs.lane = "nextStep" /\ cs.msgs = e0.claim.stepMsgs
  /\ ts.type = "TurnStart" /\ ts.id = s /\ ss.type = "StepStart" /\ ss.id = s
  /\ Sorted(p) /\ p # <<>> /\ Head(p) = e0 /\ e0 \in Range(p)
  /\ \A e \in Range(p) : \/ e = e0 \/ (e0.claim.turnMsgs # <<>> /\ e = ct)
                         \/ (e0.claim.start /\ e = ts) \/ e = cs \/ e = ss
                         \/ (e.type = "UserMessage" /\ e.line.step = s)

\* A new claim with its batch agrees with an open Session.
LEMMA ClaimAgrees ==
  ASSUME Typed, Agreed, Mutable, NEW s, s = NextStepId, NEW p, NEW e0, NEW ct, NEW cs, NEW ts,
         NEW ss, ClaimBatch(p, s, e0, ct, cs, ts, ss)
  PROVE  Agrees(p)
<1>0. PICK tq, sq : tq = e0.claim.turnMsgs /\ sq = e0.claim.stepMsgs
  OBVIOUS
<1>c. /\ Sorted(p) /\ p # <<>> /\ Head(p) = e0 /\ e0 \in Range(p)
       /\ \A e \in Range(p) : \/ e = e0 \/ (tq # <<>> /\ e = ct) \/ (e0.claim.start /\ e = ts)
                              \/ e = cs \/ e = ss
                              \/ (e.type = "UserMessage" /\ e.line.step = s)
  BY <1>0 DEF ClaimBatch
<1>a. /\ e0.type = "StepInputClaim" /\ (e0.claim.start => e0.claim.turn = s)
      /\ tq = <<>> \/ tq \in TurnClaims
      /\ sq \in StepClaims
      /\ ct.type = "Claimed" /\ ct.lane = "nextTurn" /\ ct.msgs = tq
      /\ cs.type = "Claimed" /\ cs.lane = "nextStep" /\ cs.msgs = sq
      /\ ts.type = "TurnStart" /\ ts.id = s /\ ss.type = "StepStart" /\ ss.id = s
  BY <1>0 DEF ClaimBatch
<1>1. Opening(p) /\ Nr(p) = s /\ Begun(p) = e0.claim
  BY <1>a, <1>c DEF Opening, Nr, Begun
<1>2. s \notin log.turns /\ s \notin log.steps /\ s # 0
  BY NewNumber
<1>3. Numbers(p)
  <2>1. ASSUME NEW e \in Range(p)
        PROVE  /\ e.type = "StepInputClaim" => (e.claim.start => e.claim.turn = NextStepId)
               /\ e.type = "TurnStart" =>
                    e.id = Nr(p) /\ e.id \notin log.turns /\ Nr(p) # 0 /\ Begun(p).start
               /\ e.type = "StepStart" => e.id = Nr(p) /\ e.id \notin log.steps /\ Nr(p) # 0
               /\ e.type = "UserMessage" => e.line.step = Nr(p) /\ Nr(p) # 0
    <3>1. CASE e = e0
      BY <1>a, <3>1
    <3>2. CASE tq # <<>> /\ e = ct
      BY <1>a, <3>2
    <3>3. CASE e0.claim.start /\ e = ts
      BY <1>a, <1>1, <1>2, <3>3
    <3>4. CASE e = cs
      BY <1>a, <3>4
    <3>5. CASE e = ss
      BY <1>a, <1>1, <1>2, <3>5
    <3>6. CASE e.type = "UserMessage" /\ e.line.step = s
      BY <1>a, <1>1, <1>2, <3>6
    <3> QED
      BY <1>c, <3>1, <3>2, <3>3, <3>4, <3>5, <3>6
  <2> QED
    BY <2>1 DEF Numbers
<1>4. Offered(e0.claim)
  <2>1. tq = <<>> => Range(tq) = {}
    BY DEF Range
  <2> QED
    BY <1>0, <1>a, <2>1 DEF Offered
<1>5. ~archived /\ ~ended /\ status \notin Terminal
  BY DEF Mutable
<1>6. \A e \in Range(p) : Acceptable(p, e)
  <2>1. ASSUME NEW e \in Range(p)
        PROVE  Acceptable(p, e)
    <3>1. CASE e = e0
      BY <1>4, <1>5, <1>a, <3>1 DEF Acceptable
    <3>2. CASE tq # <<>> /\ e = ct
      BY <1>0, <1>5, <1>a, <3>2 DEF Acceptable
    <3>3. CASE e = ts
      BY <1>5, <1>a, <3>3 DEF Acceptable
    <3>4. CASE e = cs
      BY <1>0, <1>5, <1>a, <3>4 DEF Acceptable
    <3>5. CASE e = ss
      BY <1>5, <1>a, <3>5 DEF Acceptable
    <3>6. CASE e.type = "UserMessage"
      BY <1>5, <1>a, <3>6 DEF Acceptable
    <3> QED
      BY <1>c, <3>1, <3>2, <3>3, <3>4, <3>5, <3>6
  <2> QED
    BY <2>1
<1> QED
  BY <1>c, <1>3, <1>6 DEF Agrees

\* What is left of a turn's offer is all of it.
LEMMA TurnOfferLeft ==
  ASSUME Typed, NEW q \in TurnClaims, NEW r \in Kept(q, Queued), r # <<>>
  PROVE  r = q
<1>1. r \in Seq(Msgs) /\ Range(r) = Range(q) \cap Queued /\ IsInjective(r)
  BY KeptOf
<1>2. PICK m \in Msgs : q = <<m>>
  <2>1. q # <<>>
    BY <1>1 DEF Range
  <2>2. inbox.nextTurn \in Seq(Msgs)
    BY TypedBox
  <2> QED
    BY <2>1, <2>2 DEF TurnClaims
<1>3. Range(q) = {m} /\ q \in Seq(Msgs) /\ Len(q) = 1 /\ q[1] = m
  BY <1>2 DEF Range
<1>4. Len(r) \in Nat /\ Len(r) # 0 /\ DOMAIN r = 1..Len(r)
  BY <1>1
<1>5. \A i \in DOMAIN r : r[i] = m
  BY <1>1, <1>3 DEF Range
<1>6. Len(r) = 1
  <2>1. ASSUME Len(r) # 1
        PROVE  FALSE
    <3>1. 1 \in DOMAIN r /\ 2 \in DOMAIN r
      BY <1>4, <2>1
    <3> QED
      BY <1>1, <1>5, <3>1 DEF IsInjective
  <2> QED
    BY <2>1
<1>7. \A i \in 1..Len(r) : r[i] = q[i]
  BY <1>3, <1>4, <1>5, <1>6
<1> QED
  BY <1>1, <1>3, <1>6, <1>7, SeqEqual

\* What is left of a step's offer is all of it, in the order of the lane.
LEMMA StepOfferLeft ==
  ASSUME Typed, NEW q \in StepClaims, NEW r \in Kept(q, Queued)
  PROVE  r \in StepClaims
<1>1. r \in Arrangements /\ Range(r) = Range(q) \cap Queued
  BY DEF Kept
<1>2. Range(q) = Range(inbox.nextStep) \cap (Msgs \ inbox.paused) /\ Range(q) \subseteq Queued
  BY DEF StepClaims, Kept, Queued
<1>3. ASSUME NEW i \in DOMAIN r, NEW j \in DOMAIN r, NEW k \in DOMAIN inbox.nextStep,
             NEW l \in DOMAIN inbox.nextStep,
             i < j /\ r[i] = inbox.nextStep[k] /\ r[j] = inbox.nextStep[l]
      PROVE  k < l
  <2>1. r[i] \in Range(q) /\ r[j] \in Range(q)
    BY <1>1, <1>3 DEF Range
  <2>2. PICK a \in DOMAIN q, b \in DOMAIN q : r[i] = q[a] /\ r[j] = q[b]
    BY <2>1 DEF Range
  <2>3. a < b
    BY <1>3, <2>2 DEF Kept
  <2> QED
    BY <1>3, <2>2, <2>3 DEF StepClaims, Kept
<1> QED
  BY <1>1, <1>2, <1>3 DEF StepClaims, Kept

\* An event that is left out, and one that is not.
LEMMA AddsOne ==
  ASSUME NEW p \in Seq(Events), NEW e, NEW out \in BOOLEAN, ~out, NEW in \in BOOLEAN, in
  PROVE  Adds(p, p, out, e) /\ Adds(p \o <<e>>, p, in, e)
<1>1. p \o <<>> = p
  OBVIOUS
<1> QED
  BY <1>1 DEF Adds, Opt

\* The order of a claim that is written, not repaired.
LEMMA ClaimFrom ==
  ASSUME NEW e0 \in Events, Place(e0) = 1
  PROVE  /\ <<e0>> \in Seq(Events) /\ Sorted(<<e0>>) /\ <<e0>> # <<>> /\ Head(<<e0>>) = e0
         /\ Range(<<e0>>) = {e0}
  BY ShortSorted

\* What the start of a turn writes.
LEMMA BeginTurnWrites ==
  ASSUME Typed, BeginTurn
  PROVE  \E p, e0, ct, cs, ts, ss :
           /\ Write(p) /\ ClaimBatch(p, NextStepId, e0, ct, cs, ts, ss) /\ e0.claim.start
           /\ ts \in Range(p) /\ ss \in Range(p)
<1>1. PICK s : s = NextStepId
  OBVIOUS
<1>2. Mutable /\ s \in 1..MaxSteps
  BY <1>1, TypedBox, Bounds DEF NextStepId, Logs, BeginTurn
<1>3. PICK tq \in TurnClaims, sq \in StepClaims :
        Write(<<Claim(s, TRUE, tq, sq)>> \o Opt(tq # <<>>, Claimed("nextTurn", tq))
              \o <<TurnStart(s)>> \o Opt(sq # <<>>, Claimed("nextStep", sq))
              \o <<StepStart(s)>> \o UserMessages(tq \o sq, s))
  BY <1>1 DEF BeginTurn
<1>4. tq \in Seq(Msgs) /\ sq \in Seq(Msgs) /\ tq \o sq \in Seq(Msgs)
  BY TurnClaimOf, StepClaimOf
<1>5. PICK said2 : said2 = tq \o sq
  OBVIOUS
<1>6. PICK ct, cs, ts, ss :
        /\ ct = Claimed("nextTurn", tq) /\ cs = Claimed("nextStep", sq)
        /\ ts = TurnStart(s) /\ ss = StepStart(s)
  OBVIOUS
<1>7. PICK yes \in BOOLEAN : yes
  OBVIOUS
<1>8. PICK e0 : e0 = Claim(s, yes, tq, sq)
  OBVIOUS
<1>9. /\ e0 \in Events /\ e0.type = "StepInputClaim" /\ e0.claim.turn = s /\ e0.claim.start = yes
      /\ e0.claim.turnMsgs = tq /\ e0.claim.stepMsgs = sq /\ Place(e0) = 1
  <2>1. e0 \in Events /\ e0.type = "StepInputClaim" /\ e0.claim.turn = s /\ e0.claim.start = yes
    BY <1>2, <1>4, <1>8, ClaimMade
  <2>2. e0.claim.turnMsgs = tq /\ e0.claim.stepMsgs = sq
    BY <1>8 DEF Claim
  <2> QED
    BY <2>1, <2>2, ClaimPlaces
<1>10. PICK ta \in BOOLEAN : ta = (tq # <<>>)
  OBVIOUS
<1>11. PICK sa \in BOOLEAN : sa = (sq # <<>>)
  OBVIOUS
<1>12. PICK p0, p1, p2, p3, p4, p :
         /\ p0 = <<e0>> /\ p1 = p0 \o Opt(ta, ct) /\ p2 = p1 \o <<ts>> /\ p3 = p2 \o Opt(sa, cs)
         /\ p4 = p3 \o <<ss>> /\ p = p4 \o UserMessages(said2, s)
  OBVIOUS
<1>13. Write(p)
  <2>1. yes = TRUE
    BY <1>7
  <2>2. <<Claim(s, TRUE, tq, sq)>> = p0
    BY <1>8, <1>12, <2>1
  <2> QED
    BY <1>3, <1>5, <1>6, <1>10, <1>11, <1>12, <2>2
<1>15. /\ ct \in Events /\ ct.type = "Claimed" /\ ct.lane = "nextTurn" /\ ct.msgs = tq
       /\ cs \in Events /\ cs.type = "Claimed" /\ cs.lane = "nextStep" /\ cs.msgs = sq
       /\ ts \in Events /\ ts.type = "TurnStart" /\ ts.id = s
       /\ ss \in Events /\ ss.type = "StepStart" /\ ss.id = s
       /\ Place(ct) = 2 /\ Place(cs) = 3 /\ Place(ts) = 3 /\ Place(ss) = 5
  BY <1>2, <1>4, <1>6, ClaimParts
<1>14. ClaimRow(p, said2, s, yes, e0, ta, ct, yes, ts, sa, cs, yes, ss)
  <2>1. /\ p0 = Opt(yes, e0) /\ Adds(p1, p0, ta, ct) /\ Adds(p2, p1, yes, ts)
        /\ Adds(p3, p2, sa, cs) /\ Adds(p4, p3, yes, ss) /\ Speaks(p, p4, said2, s)
    BY <1>7, <1>12 DEF Adds, Opt, Speaks
  <2>2. ts.type # cs.type /\ said2 \in Seq(Msgs)
    BY <1>4, <1>5, <1>15
  <2> QED
    BY <1>2, <1>7, <1>9, <1>10, <1>11, <1>15, <2>1, <2>2 DEF ClaimRow
<1>16. ClaimHolds(p, s, yes, e0, ta, ct, yes, ts, sa, cs, yes, ss)
  BY <1>14, ClaimOrder
<1>17. ClaimBatch(p, s, e0, ct, cs, ts, ss)
  BY <1>3, <1>7, <1>9, <1>10, <1>15, <1>16 DEF ClaimHolds, ClaimBatch
<1>18. e0.claim.start /\ ts \in Range(p) /\ ss \in Range(p)
  BY <1>7, <1>9, <1>16 DEF ClaimHolds
<1> QED
  BY <1>1, <1>13, <1>17, <1>18

\* A turn begins: what it writes agrees.
LEMMA BeginTurnAgreed ==
  ASSUME Typed, Agreed, BeginTurn
  PROVE  Agreed'
<1>1. PICK p, e0, ct, cs, ts, ss :
        Write(p) /\ ClaimBatch(p, NextStepId, e0, ct, cs, ts, ss)
  BY BeginTurnWrites
<1>2. Mutable
  BY DEF BeginTurn
<1> QED
  BY <1>1, <1>2, ClaimAgrees, AgreedWritten

\* What a further step writes.
StepBatch(t, s, sq) ==
  <<Claim(t, FALSE, <<>>, sq)>> \o Opt(sq # <<>>, Claimed("nextStep", sq))
  \o <<StepStart(s)>> \o UserMessages(sq, s)

\* It is the batch of a claim that starts no turn.
LEMMA StepBatchHolds ==
  ASSUME Typed, NEW sq \in StepClaims, NEW t \in 1..MaxSteps,
         NEW s \in 1..MaxSteps, NEW p, p = StepBatch(t, s, sq)
  PROVE  \E e0, ct, cs, ts, ss :
           /\ ClaimBatch(p, s, e0, ct, cs, ts, ss) /\ ~e0.claim.start /\ e0.claim.turn = t
           /\ ss \in Range(p)
<1>a. PICK tq : tq = <<>>
  OBVIOUS
<1>4. tq \in Seq(Msgs)
  BY <1>a
<1>5. sq \in Seq(Msgs)
  BY StepClaimOf
<1>6. PICK ct, cs, ts, ss :
        /\ ct = Claimed("nextTurn", tq) /\ cs = Claimed("nextStep", sq)
        /\ ts = TurnStart(s) /\ ss = StepStart(s)
  OBVIOUS
<1>7. PICK yes \in BOOLEAN, no \in BOOLEAN : yes /\ ~no
  OBVIOUS
<1>8. PICK e0 : e0 = Claim(t, no, tq, sq)
  OBVIOUS
<1>9. /\ e0 \in Events /\ e0.type = "StepInputClaim" /\ ~e0.claim.start /\ e0.claim.turn = t
      /\ e0.claim.turnMsgs = tq /\ e0.claim.stepMsgs = sq /\ Place(e0) = 1
  <2>1. /\ e0 \in Events /\ e0.type = "StepInputClaim" /\ e0.claim.start = no
        /\ e0.claim.turn = t
    BY <1>4, <1>5, <1>7, <1>8, ClaimMade
  <2>2. e0.claim.turnMsgs = tq /\ e0.claim.stepMsgs = sq
    BY <1>8 DEF Claim
  <2> QED
    BY <1>7, <2>1, <2>2, ClaimPlaces
<1>10. PICK sa \in BOOLEAN : sa = (sq # <<>>)
  OBVIOUS
<1>b. yes \in BOOLEAN /\ no \in BOOLEAN /\ sa \in BOOLEAN
  BY <1>7, <1>10
<1>11. PICK p0, p3, p4 :
         /\ p0 = <<e0>> /\ p3 = p0 \o Opt(sa, cs) /\ p4 = p3 \o <<ss>>
         /\ p = p4 \o UserMessages(sq, s)
  BY <1>a, <1>6, <1>7, <1>8, <1>10 DEF StepBatch
<1>13. p0 \in Seq(Events) /\ Sorted(p0) /\ p0 # <<>> /\ Head(p0) = e0 /\ Range(p0) = {e0}
  BY <1>9, <1>11, ClaimFrom
<1>15. /\ ct \in Events /\ ct.type = "Claimed" /\ ct.lane = "nextTurn" /\ ct.msgs = tq
       /\ cs \in Events /\ cs.type = "Claimed" /\ cs.lane = "nextStep" /\ cs.msgs = sq
       /\ ts \in Events /\ ts.type = "TurnStart" /\ ts.id = s
       /\ ss \in Events /\ ss.type = "StepStart" /\ ss.id = s
       /\ Place(ct) = 2 /\ Place(cs) = 3 /\ Place(ts) = 3 /\ Place(ss) = 5
  BY <1>4, <1>5, <1>6, ClaimParts
<1>14. ClaimRow(p, sq, s, yes, e0, no, ct, no, ts, sa, cs, yes, ss)
  <2>1. Adds(p0, p0, no, ct) /\ Adds(p0, p0, no, ts)
    BY <1>7, <1>13, AddsOne
  <2>2. Adds(p3, p0, sa, cs) /\ Speaks(p, p4, sq, s)
    BY <1>11 DEF Adds, Speaks
  <2>3. Adds(p4, p3, yes, ss) /\ p0 = Opt(yes, e0)
    BY <1>7, <1>11 DEF Adds, Opt
  <2>4. ts.type # cs.type
    BY <1>15
  <2>5. \E b0, b1, b2, b3, b4 :
          /\ b0 = Opt(yes, e0) /\ Adds(b1, b0, no, ct) /\ Adds(b2, b1, no, ts)
          /\ Adds(b3, b2, sa, cs) /\ Adds(b4, b3, yes, ss) /\ Speaks(p, b4, sq, s)
    BY <2>1, <2>2, <2>3
  <2> QED
    BY <1>b, <1>5, <1>9, <1>15, <2>4, <2>5 DEF ClaimRow
<1>16. ClaimHolds(p, s, yes, e0, no, ct, no, ts, sa, cs, yes, ss)
  BY <1>14, ClaimOrder
<1>17. ClaimBatch(p, s, e0, ct, cs, ts, ss)
  <2>1. e0.claim.turnMsgs = <<>>
    BY <1>a, <1>9
  <2> QED
    BY <1>7, <1>9, <1>15, <1>16, <2>1 DEF ClaimHolds, ClaimBatch
<1>18. ss \in Range(p)
  BY <1>7, <1>16 DEF ClaimHolds
<1> QED
  BY <1>9, <1>17, <1>18

\* What the operation writes is such a batch.
LEMMA NextStepWrites ==
  ASSUME Typed, NEW sq \in StepClaims, scope.turn \in 1..MaxSteps, NextStep(sq)
  PROVE  \E p, e0, ct, cs, ts, ss :
           /\ Write(p) /\ ClaimBatch(p, NextStepId, e0, ct, cs, ts, ss)
           /\ ~e0.claim.start /\ e0.claim.turn = scope.turn /\ ss \in Range(p)
<1>1. PICK s, t, p : s = NextStepId /\ t = scope.turn /\ p = StepBatch(t, s, sq)
  OBVIOUS
<1>2. s \in 1..MaxSteps /\ t \in 1..MaxSteps
  BY <1>1, TypedBox, Bounds DEF NextStepId, Logs, NextStep
<1>3. Write(p)
  BY <1>1 DEF NextStep, StepBatch
<1>4. PICK e0, ct, cs, ts, ss :
        /\ ClaimBatch(p, s, e0, ct, cs, ts, ss) /\ ~e0.claim.start /\ e0.claim.turn = t
        /\ ss \in Range(p)
  BY <1>1, <1>2, StepBatchHolds
<1> QED
  BY <1>1, <1>3, <1>4

\* A turn goes on: what a further step writes agrees.
LEMMA NextStepAgreed ==
  ASSUME Typed, Agreed, Mutable, NEW sq \in StepClaims, scope.turn \in 1..MaxSteps, NextStep(sq)
  PROVE  Agreed'
<1>1. PICK p, e0, ct, cs, ts, ss :
        Write(p) /\ ClaimBatch(p, NextStepId, e0, ct, cs, ts, ss)
  BY NextStepWrites
<1> QED
  BY <1>1, ClaimAgrees, AgreedWritten

\* The two ways a further step comes about.
LEMMA StepAgreed ==
  ASSUME Typed, Agreed, BeginStepOrEndTurn \/ BeginContinuationStep
  PROVE  Agreed'
<1>1. Mutable /\ stage \in Working
  BY DEF BeginStepOrEndTurn, BeginContinuationStep, Working
<1>2. scope.turn \in 1..MaxSteps
  BY <1>1, DriverTypes
<1>3. ASSUME NEW sq \in StepClaims, NextStep(sq)
      PROVE  Agreed'
  BY <1>1, <1>2, <1>3, NextStepAgreed
<1>4. ASSUME Write(<<TurnEnd>>)
      PROVE  Agreed'
  BY <1>1, <1>4, TurnRows, RowAgrees, AgreedWritten
<1> QED
  BY <1>3, <1>4 DEF BeginStepOrEndTurn, BeginContinuationStep

(* --------------------------------- repair --------------------------------- *)

\* A torn claim is the last one, of an open Session, and its turn is its own.
LEMMA TornIsLast ==
  ASSUME Typed, Mail, Agreed, ~ended, ~archived, NEW k \in Unfinished, NEW c, c = log.claims[k]
  PROVE  /\ Mutable /\ k = Len(log.claims) /\ k \in DOMAIN log.claims /\ k \in 1..MaxSteps
         /\ (c.start => c.turn = k) /\ c \in Claims /\ Offered(c)
<1>1. k \in DOMAIN log.claims /\ c \in Claims /\ log.claims \in Seq(Claims)
  BY TypedBox DEF Unfinished, Logs
<1>2. ~Complete
  BY CompleteIs
<1>3. Mutable
  BY <1>2 DEF Agreed, Settled, Mutable
<1>4. ~Done(c, k)
  <2>1. Range(ClaimMsgs(c)) = ClaimSet(c)
    BY <1>1, ClaimRange
  <2> QED
    BY <2>1 DEF Unfinished, Done
<1>5. k = Len(log.claims) /\ (c.start => c.turn = k) /\ Offered(c)
  BY <1>1, <1>4 DEF Agreed, Numbered
<1>6. Len(log.claims) <= MaxSteps
  BY DEF Mail, Service
<1> QED
  BY <1>1, <1>3, <1>5, <1>6, Bounds

\* The batch that repairs a torn claim.
RepairBatch(p, k, c, ct, cs, ts, ss) ==
  /\ ct.type = "Claimed" /\ ct.lane = "nextTurn" /\ (ct \in Range(p) => ct.msgs \in TurnClaims)
  /\ cs.type = "Claimed" /\ cs.lane = "nextStep" /\ (cs \in Range(p) => cs.msgs \in StepClaims)
  /\ ts.type = "TurnStart" /\ ts.id = c.turn
  /\ (ts \in Range(p) => c.start /\ c.turn \notin log.turns)
  /\ ss.type = "StepStart" /\ ss.id = k /\ (ss \in Range(p) => k \notin log.steps)
  /\ Sorted(p)
  /\ \A e \in Range(p) : e = ct \/ e = cs \/ e = ts \/ e = ss
                         \/ (e.type = "UserMessage" /\ e.line.step = k)

\* What is missing of a torn claim agrees with the Session.
LEMMA RepairAgrees ==
  ASSUME Mutable, NEW k, k = Len(log.claims), k # 0, NEW c, c = log.claims[k],
         c.start => c.turn = k,
         NEW p, NEW ct, NEW cs, NEW ts, NEW ss, RepairBatch(p, k, c, ct, cs, ts, ss)
  PROVE  Agrees(p)
<1>a. /\ ct.type = "Claimed" /\ ct.lane = "nextTurn" /\ (ct \in Range(p) => ct.msgs \in TurnClaims)
      /\ cs.type = "Claimed" /\ cs.lane = "nextStep" /\ (cs \in Range(p) => cs.msgs \in StepClaims)
      /\ ts.type = "TurnStart" /\ ts.id = c.turn
      /\ (ts \in Range(p) => c.start /\ c.turn \notin log.turns)
      /\ ss.type = "StepStart" /\ ss.id = k /\ (ss \in Range(p) => k \notin log.steps)
  BY DEF RepairBatch
<1>b. /\ Sorted(p)
      /\ \A e \in Range(p) : e = ct \/ e = cs \/ e = ts \/ e = ss
                             \/ (e.type = "UserMessage" /\ e.line.step = k)
  BY DEF RepairBatch
<1>1. ~Opening(p)
  BY <1>a, <1>b DEF Opening
<1>2. Nr(p) = k /\ Begun(p) = c
  BY <1>1 DEF Nr, Begun
<1>3. Numbers(p)
  <2>1. ASSUME NEW e \in Range(p)
        PROVE  /\ e.type = "StepInputClaim" => (e.claim.start => e.claim.turn = NextStepId)
               /\ e.type = "TurnStart" =>
                    e.id = Nr(p) /\ e.id \notin log.turns /\ Nr(p) # 0 /\ Begun(p).start
               /\ e.type = "StepStart" => e.id = Nr(p) /\ e.id \notin log.steps /\ Nr(p) # 0
               /\ e.type = "UserMessage" => e.line.step = Nr(p) /\ Nr(p) # 0
    <3>1. CASE e = ct \/ e = cs
      BY <1>a, <3>1
    <3>2. CASE e = ts
      BY <1>a, <1>2, <2>1, <3>2
    <3>3. CASE e = ss
      BY <1>a, <1>2, <2>1, <3>3
    <3>4. CASE e.type = "UserMessage" /\ e.line.step = k
      BY <1>2, <3>4
    <3> QED
      BY <1>b, <3>1, <3>2, <3>3, <3>4
  <2> QED
    BY <2>1 DEF Numbers
<1>4. ~archived /\ ~ended /\ status \notin Terminal
  BY DEF Mutable
<1>5. ASSUME NEW e \in Range(p)
      PROVE  Acceptable(p, e)
  <2>1. CASE e = ct
    BY <1>a, <1>4, <1>5, <2>1 DEF Acceptable
  <2>2. CASE e = cs
    BY <1>a, <1>4, <1>5, <2>2 DEF Acceptable
  <2>3. CASE e = ts
    BY <1>a, <1>4, <2>3 DEF Acceptable
  <2>4. CASE e = ss
    BY <1>a, <1>4, <2>4 DEF Acceptable
  <2>5. CASE e.type = "UserMessage"
    BY <1>4, <2>5 DEF Acceptable
  <2> QED
    BY <1>b, <2>1, <2>2, <2>3, <2>4, <2>5
<1> QED
  BY <1>b, <1>3, <1>5 DEF Agrees

\* What a repair writes.
LEMMA RepairWrites ==
  ASSUME Typed, Mail, Agreed, RepairClaims
  PROVE  \E p, k, c, ct, cs, ts, ss :
           /\ Write(p) /\ RepairBatch(p, k, c, ct, cs, ts, ss)
           /\ Mutable /\ k = Len(log.claims) /\ k # 0 /\ c = log.claims[k]
           /\ (c.start => c.turn = k) /\ (c.start /\ k \notin log.turns => ts \in Range(p))
<1>1. ~ended /\ ~archived
  BY DEF RepairClaims
<1>2. PICK k, c, tq, sq, un :
        /\ k \in Unfinished /\ c = log.claims[k] /\ tq \in Kept(c.turnMsgs, Queued)
        /\ sq \in Kept(c.stepMsgs, Queued)
        /\ un \in Kept(ClaimMsgs(c), Msgs \ SaidMsgs)
        /\ Write(Opt(tq # <<>>, Claimed("nextTurn", tq)) \o Opt(sq # <<>>, Claimed("nextStep", sq))
                 \o Opt(c.start /\ c.turn \notin log.turns, TurnStart(c.turn))
                 \o Opt(k \notin log.steps, StepStart(k)) \o UserMessages(un, k))
  BY DEF RepairClaims
<1>3. /\ Mutable /\ k = Len(log.claims) /\ k \in DOMAIN log.claims /\ k \in 1..MaxSteps
      /\ (c.start => c.turn = k) /\ c \in Claims /\ Offered(c)
  BY <1>1, <1>2, TornIsLast
<1>4. /\ tq \in Seq(Msgs) /\ Range(tq) = Range(c.turnMsgs) \cap Queued
      /\ sq \in Seq(Msgs) /\ Range(sq) = Range(c.stepMsgs) \cap Queued
      /\ un \in Seq(Msgs)
  BY <1>2, KeptOf
<1>5. tq # <<>> => tq \in TurnClaims
  <2>1. ASSUME tq # <<>>
        PROVE  c.turnMsgs \in TurnClaims
    <3>1. Range(tq) # {}
      BY <1>4, <2>1 DEF Range
    <3> QED
      BY <1>3, <1>4, <3>1 DEF Offered
  <2> QED
    BY <1>2, <2>1, TurnOfferLeft
<1>6. sq # <<>> => sq \in StepClaims
  <2>1. ASSUME sq # <<>>
        PROVE  c.stepMsgs \in StepClaims
    <3>1. Range(sq) # {}
      BY <1>4, <2>1 DEF Range
    <3> QED
      BY <1>3, <1>4, <3>1 DEF Offered
  <2> QED
    BY <1>2, <2>1, StepOfferLeft
<1>7. PICK no \in BOOLEAN : ~no
  OBVIOUS
<1>8. PICK ta \in BOOLEAN, sa \in BOOLEAN : ta = (tq # <<>>) /\ sa = (sq # <<>>)
  OBVIOUS
<1>9. PICK a, b : a = (c.start /\ c.turn \notin log.turns) /\ b = (k \notin log.steps)
  OBVIOUS
<1>10. a \in BOOLEAN /\ b \in BOOLEAN /\ c.turn \in 1..MaxSteps
  BY <1>3, <1>9 DEF Claims
<1>11. PICK e0, ct, cs, ts, ss :
         /\ e0 = Claim(k, no, tq, sq)
         /\ ct = Claimed("nextTurn", tq) /\ cs = Claimed("nextStep", sq)
         /\ ts = TurnStart(c.turn) /\ ss = StepStart(k)
  OBVIOUS
<1>12. /\ ct \in Events /\ ct.type = "Claimed" /\ ct.lane = "nextTurn" /\ ct.msgs = tq
       /\ cs \in Events /\ cs.type = "Claimed" /\ cs.lane = "nextStep" /\ cs.msgs = sq
       /\ ts \in Events /\ ts.type = "TurnStart" /\ ts.id = c.turn
       /\ ss \in Events /\ ss.type = "StepStart" /\ ss.id = k
       /\ Place(ct) = 2 /\ Place(cs) = 3 /\ Place(ts) = 3 /\ Place(ss) = 5
  BY <1>3, <1>4, <1>10, <1>11, ClaimParts
<1>13. e0 \in Events /\ Place(e0) = 1
  <2>1. e0 \in Events /\ e0.type = "StepInputClaim"
    BY <1>3, <1>4, <1>7, <1>11, ClaimMade
  <2> QED
    BY <2>1, ClaimPlaces
<1>14. PICK p0, p1, p2, p3, p4, p :
         /\ p0 = <<>> /\ p1 = Opt(ta, ct) /\ p2 = p1 \o Opt(sa, cs) /\ p3 = p2 \o Opt(a, ts)
         /\ p4 = p3 \o Opt(b, ss) /\ p = p4 \o UserMessages(un, k)
  OBVIOUS
<1>15. Write(p)
  BY <1>2, <1>8, <1>9, <1>11, <1>14
<1>16. ClaimRow(p, un, k, no, e0, ta, ct, sa, cs, a, ts, b, ss)
  <2>1. p0 = Opt(no, e0)
    BY <1>7, <1>14 DEF Opt
  <2>2. p1 \in Seq(Events)
    BY <1>8, <1>12, <1>14, OptSorted
  <2>3. Adds(p1, p0, ta, ct)
    BY <1>14, <2>2 DEF Adds
  <2>4. Adds(p2, p1, sa, cs) /\ Adds(p3, p2, a, ts) /\ Adds(p4, p3, b, ss) /\ Speaks(p, p4, un, k)
    BY <1>14 DEF Adds, Speaks
  <2>5. cs.type # ts.type
    BY <1>12
  <2>6. \E b0, b1, b2, b3, b4 :
          /\ b0 = Opt(no, e0) /\ Adds(b1, b0, ta, ct) /\ Adds(b2, b1, sa, cs)
          /\ Adds(b3, b2, a, ts) /\ Adds(b4, b3, b, ss) /\ Speaks(p, b4, un, k)
    BY <2>1, <2>3, <2>4
  <2> QED
    BY <1>3, <1>4, <1>7, <1>8, <1>10, <1>12, <1>13, <2>5, <2>6 DEF ClaimRow
<1>17. ClaimHolds(p, k, no, e0, ta, ct, sa, cs, a, ts, b, ss)
  BY <1>16, ClaimOrder
<1>18. /\ Sorted(p)
       /\ \A e \in Range(p) : (ta /\ e = ct) \/ (sa /\ e = cs) \/ (a /\ e = ts) \/ (b /\ e = ss)
                              \/ (e.type = "UserMessage" /\ e.line.step = k)
  BY <1>7, <1>17 DEF ClaimHolds
<1>19. RepairBatch(p, k, c, ct, cs, ts, ss)
  <2>1. ct \in Range(p) => ct.msgs \in TurnClaims
    BY <1>5, <1>8, <1>12, <1>18
  <2>2. cs \in Range(p) => cs.msgs \in StepClaims
    BY <1>6, <1>8, <1>12, <1>18
  <2>3. ts \in Range(p) => c.start /\ c.turn \notin log.turns
    BY <1>9, <1>12, <1>18
  <2>4. ss \in Range(p) => k \notin log.steps
    BY <1>9, <1>12, <1>18
  <2>5. \A e \in Range(p) : e = ct \/ e = cs \/ e = ts \/ e = ss
                             \/ (e.type = "UserMessage" /\ e.line.step = k)
    BY <1>18
  <2> QED
    BY <1>12, <1>18, <2>1, <2>2, <2>3, <2>4, <2>5 DEF RepairBatch
<1>20. c.start /\ k \notin log.turns => ts \in Range(p)
  BY <1>3, <1>9, <1>17 DEF ClaimHolds
<1>21. k # 0
  BY <1>3
<1> QED
  BY <1>2, <1>3, <1>15, <1>19, <1>20, <1>21

\* The repair of a torn claim.
LEMMA RepairAgreed ==
  ASSUME Typed, Mail, Agreed, RepairClaims
  PROVE  Agreed'
<1>1. PICK p, k, c, ct, cs, ts, ss :
        /\ Write(p) /\ RepairBatch(p, k, c, ct, cs, ts, ss)
        /\ Mutable /\ k = Len(log.claims) /\ k # 0 /\ c = log.claims[k] /\ (c.start => c.turn = k)
  BY RepairWrites
<1> QED
  BY <1>1, RepairAgrees, AgreedWritten

(* ----------------------------- the specification -------------------------- *)

\* Nothing may stand behind the rename of an archived log, and behind the end of a
\* Session only that rename.
LEMMA HeadIsLate ==
  ASSUME Typed, Batch, Agreed, pending # <<>>, NEW e, e = Head(pending), NEW f \in Range(pending),
         f.type \in {"SessionEnded", "AgentStatus", "Discarded", "InboxPaused"}
  PROVE  /\ e.type # "Rename"
         /\ e.type = "SessionEnded" => f.type = "SessionEnded"
<1>1. /\ pending \in Seq(Events) /\ e \in Events /\ Range(pending) = {e} \cup Range(Tail(pending))
      /\ f \in Events
  BY TypedBox, HeadIs, HeadAndTail, RangeOfSeq DEF Batch, Fitting
<1>2. CASE f = e
  BY <1>2
<1>3. CASE f \in Range(Tail(pending)) /\ e.type \in {"Rename", "SessionEnded"}
  <2>1. Before(e, f)
    BY <1>1, <1>3, SortedTail DEF Agreed, Agrees
  <2>2. e.type \notin SoloTypes /\ f.type \notin SoloTypes
    BY <1>3 DEF SoloTypes
  <2> QED
    BY <1>1, <2>1, <2>2, Places
<1> QED
  BY <1>1, <1>2, <1>3

\* The record accepts the event at the head of a batch that agrees with it.
LEMMA HeadAccepted ==
  ASSUME Typed, Mail, Agreed, pending # <<>>, NEW e, e = Head(pending)
  PROVE  Accepts(e)
<1>1. Batch /\ e \in Range(pending) /\ Acceptable(pending, e) /\ Ready(pending, e)
  BY HeadIs DEF Mail, Agreed, Agrees
<1>2. Admits(e)
  <2>1. ASSUME status \in Terminal, ~ended
        PROVE  e.type = "SessionEnded"
    <3>1. e.type \in {"SessionEnded", "Rename"}
      BY <1>1, <2>1 DEF Acceptable
    <3>2. ASSUME e.type = "Rename"
          PROVE  FALSE
      <4>1. PICK f \in Range(pending) : f.type = "SessionEnded"
        BY <1>1, <2>1, <3>2 DEF Ready, Has
      <4> QED
        BY <1>1, <3>2, <4>1, HeadIsLate
    <3> QED
      BY <3>1, <3>2
  <2> QED
    BY <1>1, <2>1 DEF Acceptable, Admits
<1>3. ASSUME e.type = "SessionEnded"
      PROVE  /\ InboxEmpty \/ RetainsPausedInputs(e.status)
             /\ status \in Terminal => status = e.status
  <2>1. Settles(pending, e)
    BY <1>1, <1>3 DEF Acceptable
  <2>2. \A f \in Range(pending) : f.type \notin {"AgentStatus", "Discarded", "InboxPaused"}
    BY <1>1, <1>3, HeadIsLate
  <2>3. e.status = status
    BY <2>1, <2>2 DEF Settles, Has
  <2>4. \A m \in Queued : e.status = "Failed" /\ IsRoot /\ m \in inbox.paused
    BY <2>1, <2>2 DEF Settles, Discards, Holds
  <2> QED
    BY <2>3, <2>4 DEF InboxEmpty, RetainsPausedInputs, Unpaused
<1>4. Fits(e)
  BY <1>1, <1>3 DEF Acceptable, Fits
<1> QED
  BY <1>1, <1>2, <1>4 DEF Accepts, Acceptable

\* The empty record agrees with the empty batch.
LEMMA AgreedInit ==
  ASSUME Init
  PROVE  Agreed
<1>1. /\ log.claims = <<>> /\ log.turns = {} /\ log.steps = {} /\ status = "Idle"
      /\ pending = <<>>
  BY DEF Init
<1>2. Agrees(pending)
  BY <1>1, EmptyAgrees
<1>3. DOMAIN log.claims = {} /\ status \notin Terminal
  BY <1>1 DEF Terminal
<1> QED
  BY <1>1, <1>2, <1>3 DEF Agreed, Numbered, Settled

\* Every step keeps record and batch in agreement.
LEMMA AgreedNext ==
  ASSUME Typed, Mail, Agreed, [Next]_vars
  PROVE  Agreed'
<1>1. CASE WriteEvent
  BY <1>1, AgreedWrite
<1>2. CASE UserStep
  <2>1. ASSUME NEW m \in Msgs, NEW lane \in Lanes,
               \/ \E held \in BOOLEAN, target \in {0} \cup log.turns : Submit(m, lane, held, target)
               \/ Remove(lane, m)
        PROVE  Agreed'
    BY <2>1, InputAgreed
  <2>2. ASSUME NEW m \in Msgs, ResumeItem(m) \/ Steer(m)
        PROVE  Agreed'
    <3>1. "nextTurn" \in Lanes
      BY DEF Lanes
    <3> QED
      BY <2>2, <3>1, InputAgreed
  <2>3. ASSUME NEW lane \in Lanes, NEW order \in Arrangements, Reorder(lane, order)
        PROVE  Agreed'
    <3>1. Msgs # {}
      <4>1. order \in Seq(Msgs) /\ inbox[lane] \in Seq(Msgs) /\ order # inbox[lane]
        BY <2>3, ArrangementSeq, TypedBox DEF Reorder
      <4>2. \A q \in Seq(Msgs) : Msgs = {} => q = <<>>
        OBVIOUS
      <4> QED
        BY <4>1, <4>2
    <3>2. PICK m \in Msgs : TRUE
      BY <3>1
    <3> QED
      BY <2>3, <3>2, InputAgreed
  <2>4. ASSUME NEW kind \in {"interrupt", "cancel"}, RequestStop(kind) \/ StopDetached(kind)
        PROVE  Agreed'
    BY <2>4, TurnAgreed, EndAgreed
  <2>5. ASSUME ResumeSession \/ Archive
        PROVE  Agreed'
    BY <2>5, ResumeArchiveAgreed
  <2>6. ASSUME ResumeRecovery \/ ToolResolved
        PROVE  Agreed'
    BY <2>6, TurnAgreed
  <2> QED
    BY <1>2, <2>1, <2>2, <2>3, <2>4, <2>5, <2>6 DEF UserStep
<1>3. CASE DriverStep
  <2>1. CASE BeginTurn
    BY <2>1, BeginTurnAgreed
  <2>2. CASE BeginStepOrEndTurn \/ BeginContinuationStep
    BY <2>2, StepAgreed
  <2>3. CASE Terminate \/ TurnLimitExceeded \/ FinishStop
    BY <2>3, EndAgreed
  <2>4. CASE \/ Attach \/ Announce \/ GoIdle \/ AnswerText \/ AnswerTools \/ ToolsComplete
             \/ ToolsWait \/ EndTurnIfNoStepInput \/ DriverPauses \/ FailTurn \/ StopAtStep
             \/ DriverRejected \/ StopRefused
    BY <2>4, TurnAgreed
  <2> QED
    BY <1>3, <2>1, <2>2, <2>3, <2>4 DEF DriverStep
<1>4. CASE RestartStep
  BY <1>4, RepairAgreed, RestartAgreed DEF RestartStep
<1>5. CASE Crash
  BY <1>5, RestartAgreed
<1>6. CASE UNCHANGED vars
  <2>1. UNCHANGED durable /\ pending' = pending
    BY <1>6 DEF vars
  <2> QED
    BY <2>1, AgreedHanded DEF Agreed
<1> QED
  BY <1>1, <1>2, <1>3, <1>4, <1>5, <1>6 DEF Next

(* --------------------------------- theorems ------------------------------- *)

\* Record and batch agree in every reachable state: the inductive invariant itself.
THEOREM AgreementKept == Spec => [](Typed /\ Mail /\ Agreed)
<1>1. Init => Typed /\ Mail /\ Agreed
  BY InitHolds, AgreedInit
<1>2. Typed /\ Mail /\ Agreed /\ [Next]_vars => Typed' /\ Mail' /\ Agreed'
  BY StepHolds, AgreedNext
<1> QED
  BY <1>1, <1>2, PTL DEF Spec

\* No batch is refused half way: whatever was torn, repaired, paused or resumed before,
\* the record accepts every event an operation built from the record it saw.
THEOREM NoBatchRefused == Spec => []BatchAccepted
<1>1. Typed /\ Mail /\ Agreed => BatchAccepted
  BY HeadAccepted DEF BatchAccepted
<1> QED
  BY <1>1, AgreementKept, PTL
=============================================================================
