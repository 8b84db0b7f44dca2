------------------------ MODULE AgentTranscript_proof ------------------------
(* Proof that a step says to the model what its claim intended, in the order of the
   claim, whatever was torn and repaired before.

   The inductive invariant is Recital, next to those of AgentSession_proof and
   AgentBatch_proof.  It says what the transcript holds of each claim, complete or
   torn: a part of its messages that is closed to the left (Spoken); and what the
   batch in hand says besides: the rest, in the same order (Tells). *)
EXTENDS AgentBatch_proof

(* ------------------------------- invariants ------------------------------- *)

\* The sequence lists messages of r in the order of r.
Lists(q, r) ==
  \A i, j \in DOMAIN q, a, b \in DOMAIN r : i < j /\ q[i] = r[a] /\ q[j] = r[b] => a < b

\* What step k said so far of the messages q of its claim.
Spoken(k, q) ==
  /\ IsInjective(q)
  /\ \A i, j \in SaidIn(k), a, b \in DOMAIN q :
       i < j /\ said[i].msg = q[a] /\ said[j].msg = q[b] => a < b
  /\ \A a, b \in DOMAIN q : a < b /\ q[b] \in SaidMsgs => q[a] \in SaidMsgs

\* A line is of the claim of its step, a message of one claim.
Sourced ==
  \A i \in DOMAIN said : /\ said[i].step \in DOMAIN log.claims
                         /\ said[i].msg \in ClaimSet(log.claims[said[i].step])
Distinct ==
  \A k, l \in DOMAIN log.claims :
    k # l => ClaimSet(log.claims[k]) \cap ClaimSet(log.claims[l]) = {}

\* A batch that speaks says the rest of the messages q, in order.
TellsRest(p, q) ==
  /\ \A m : Says(p, m) => m \in Range(q)
  /\ \A i, j \in DOMAIN p, a, b \in DOMAIN q :
       /\ p[i].type = "UserMessage" /\ p[j].type = "UserMessage" /\ i < j
       /\ p[i].line.msg = q[a] /\ p[j].line.msg = q[b]
       => a < b
  /\ \A m \in Range(q) : m \in SaidMsgs \/ Says(p, m)

Tells(p) ==
  /\ Opening(p) => IsInjective(ClaimMsgs(Begun(p)))
  /\ Has(p, "UserMessage") => TellsRest(p, ClaimMsgs(Begun(p)))

Recital ==
  /\ Sourced /\ Distinct /\ Tells(pending)
  /\ \A k \in DOMAIN log.claims : Spoken(k, ClaimMsgs(log.claims[k]))

(* ------------------------ an event reaches the record --------------------- *)

\* Only a line adds to the transcript.
LEMMA SaidStays ==
  ASSUME NEW e, ApplyInbox(e) \/ ApplyBoundary(e) \/ ApplyUserMessage(e) \/ ApplyStatus(e)
  PROVE  /\ e.type # "UserMessage" => said' = said
         /\ e.type = "UserMessage" => said' = Append(said, e.line) /\ log' = log
<1>1. CASE ApplyInbox(e)
  BY <1>1 DEF ApplyInbox
<1>2. CASE ApplyBoundary(e)
  BY <1>2 DEF ApplyBoundary
<1>3. CASE ApplyUserMessage(e)
  BY <1>3 DEF ApplyUserMessage
<1>4. CASE ApplyStatus(e)
  BY <1>4 DEF ApplyStatus
<1> QED
  BY <1>1, <1>2, <1>3, <1>4

\* What is known of the event at the head, in terms of the messages of its claim.
LEMMA LineHead ==
  ASSUME Typed, Mail, Agreed, Recital, WriteEvent, NEW e, e = Head(pending),
         e.type = "UserMessage", NEW k, k = Len(log.claims), NEW q, q = ClaimMsgs(log.claims[k])
  PROVE  /\ e.line.step = k /\ k \in DOMAIN log.claims /\ e.line.msg \notin SaidMsgs
         /\ e.line \in [msg : Msgs, step : 1..MaxSteps] /\ e.line.msg \in Range(q)
         /\ TellsRest(pending, q) /\ Range(q) = ClaimSet(log.claims[k])
<1>1. /\ e \in Range(pending) /\ e \in Events /\ Range(pending) = {e} \cup Range(pending')
      /\ \A f \in Range(pending') : f.type # "StepInputClaim"
  BY HeadWritten
<1>2. ~Opening(pending)
  BY <1>1 DEF Opening
<1>3. Nr(pending) = k /\ ClaimMsgs(Begun(pending)) = q
  BY <1>2 DEF Nr, Begun
<1>4. e.line.step = k /\ k # 0
  BY <1>1, <1>3 DEF Agreed, Agrees, Numbers
<1>5. k \in DOMAIN log.claims
  BY <1>4, TypedBox DEF Logs
<1>6. e.line \in [msg : Msgs, step : 1..MaxSteps] /\ e.line.msg \in Msgs
  BY <1>1, EventFields
<1>7. Says(pending, e.line.msg) /\ Has(pending, "UserMessage")
  BY <1>1 DEF Says, Has
<1>8. e.line.msg \notin SaidMsgs
  BY <1>6, <1>7 DEF Mail, Batch, Fitting
<1>9. TellsRest(pending, q)
  BY <1>3, <1>7 DEF Recital, Tells
<1>10. e.line.msg \in Range(q)
  BY <1>7, <1>9 DEF TellsRest
<1>11. Range(q) = ClaimSet(log.claims[k])
  BY <1>5, TypedBox, ClaimRange
<1> QED
  BY <1>4, <1>5, <1>6, <1>8, <1>9, <1>10, <1>11

\* The message of a line that may be said is the next of its claim.
LEMMA LineNext ==
  ASSUME NEW p \in Seq(Events), p # <<>>, Head(p).type = "UserMessage", NEW q, TellsRest(p, q),
         NEW b \in DOMAIN q, Head(p).line.msg = q[b], IsInjective(q),
         NEW a \in DOMAIN q, a < b, DOMAIN q \subseteq Nat
  PROVE  q[a] \in SaidMsgs
<1>1. Len(p) \in Nat /\ DOMAIN p = 1..Len(p) /\ p[1] = Head(p) /\ 1 \in DOMAIN p
  OBVIOUS
<1>2. q[a] \in SaidMsgs \/ Says(p, q[a])
  BY DEF TellsRest, Range
<1>3. ASSUME NEW j \in DOMAIN p, p[j].type = "UserMessage", p[j].line.msg = q[a]
      PROVE  FALSE
  <2>1. CASE j = 1
    <3>1. q[a] = q[b]
      BY <1>1, <1>3, <2>1
    <3> QED
      BY <3>1 DEF IsInjective
  <2>2. CASE 1 < j
    <3>1. b < a
      BY <1>1, <1>3, <2>2 DEF TellsRest
    <3> QED
      BY <3>1
  <2> QED
    BY <1>1, <1>3, <2>1, <2>2
<1> QED
  BY <1>2, <1>3 DEF Says, Range

\* The transcript after a line.
LEMMA LineSpoken ==
  ASSUME Typed, NEW k, NEW q, Spoken(k, q), NEW line \in [msg : Msgs, step : 1..MaxSteps],
         said' = Append(said, line), line.msg \notin SaidMsgs, DOMAIN q \subseteq Nat,
         \A b \in DOMAIN q : q[b] = line.msg =>
           line.step = k /\ \A a \in DOMAIN q : a < b => q[a] \in SaidMsgs
  PROVE  Spoken(k, q)'
<1>1. /\ said \in Seq([msg : Msgs, step : 1..MaxSteps]) /\ Len(said) \in Nat
      /\ DOMAIN said = 1..Len(said) /\ DOMAIN said' = 1..(Len(said) + 1)
      /\ said'[Len(said) + 1] = line /\ \A i \in DOMAIN said : said'[i] = said[i]
  BY DEF Typed, TypeOK
<1>2. SaidMsgs' = SaidMsgs \cup {line.msg}
  BY LineAdded
<1>3. \A i \in DOMAIN said : said[i].msg \in SaidMsgs
  BY DEF SaidMsgs
<1>4. ASSUME NEW i \in SaidIn(k)', NEW j \in SaidIn(k)', NEW a \in DOMAIN q, NEW b \in DOMAIN q,
             i < j, said'[i].msg = q[a], said'[j].msg = q[b]
      PROVE  a < b
  <2>1. i \in DOMAIN said' /\ j \in DOMAIN said' /\ said'[i].step = k /\ said'[j].step = k
    BY <1>4 DEF SaidIn
  <2>2. i \in DOMAIN said /\ i \in SaidIn(k) /\ said[i].msg = q[a]
    BY <1>1, <1>4, <2>1 DEF SaidIn
  <2>3. CASE j \in DOMAIN said
    <3>1. j \in SaidIn(k) /\ said[j].msg = q[b]
      BY <1>1, <1>4, <2>1, <2>3 DEF SaidIn
    <3> QED
      BY <1>4, <2>2, <3>1 DEF Spoken
  <2>4. CASE j = Len(said) + 1
    <3>1. q[b] = line.msg /\ q[a] \in SaidMsgs
      BY <1>1, <1>3, <1>4, <2>2, <2>4
    <3>2. a # b
      BY <3>1
    <3>3. ~(b < a)
      BY <3>1 DEF Spoken
    <3> QED
      BY <1>4, <3>2, <3>3
  <2> QED
    BY <1>1, <2>1, <2>3, <2>4
<1>5. ASSUME NEW a \in DOMAIN q, NEW b \in DOMAIN q, a < b, q[b] \in SaidMsgs'
      PROVE  q[a] \in SaidMsgs'
  BY <1>2, <1>5 DEF Spoken
<1> QED
  BY <1>4, <1>5 DEF Spoken

\* A line is said: the transcript, and what remains to be said.
LEMMA LineWrite ==
  ASSUME Typed, Mail, Agreed, Recital, WriteEvent, NEW e, e = Head(pending),
         e.type = "UserMessage"
  PROVE  Recital'
<1>1. PICK k, q, line : /\ k = Len(log.claims) /\ q = ClaimMsgs(log.claims[k])
                        /\ line = e.line
  OBVIOUS
<1>2. /\ line.step = k /\ k \in DOMAIN log.claims /\ line.msg \notin SaidMsgs
      /\ line \in [msg : Msgs, step : 1..MaxSteps] /\ line.msg \in Range(q)
      /\ TellsRest(pending, q) /\ Range(q) = ClaimSet(log.claims[k])
  BY <1>1, LineHead
<1>3. /\ e \in Range(pending) /\ e \in Events /\ pending \in Seq(Events) /\ pending # <<>>
      /\ Range(pending) = {e} \cup Range(pending') /\ pending' = Tail(pending)
      /\ ApplyInbox(e) \/ ApplyBoundary(e) \/ ApplyUserMessage(e) \/ ApplyStatus(e)
      /\ \A f \in Range(pending') : f.type # "StepInputClaim"
  BY HeadWritten
<1>4. said' = Append(said, line) /\ log' = log
  BY <1>1, <1>3, SaidStays
<1>5. SaidMsgs' = SaidMsgs \cup {line.msg}
  BY <1>2, <1>4, LineAdded
<1>6. /\ DOMAIN said = 1..Len(said) /\ DOMAIN said' = 1..(Len(said) + 1)
      /\ said'[Len(said) + 1] = line /\ \A i \in DOMAIN said : said'[i] = said[i]
      /\ Len(said) \in Nat
  BY <1>4 DEF Typed, TypeOK
<1>7. Sourced'
  <2>1. ASSUME NEW i \in DOMAIN said'
        PROVE  /\ said'[i].step \in DOMAIN log.claims
               /\ said'[i].msg \in ClaimSet(log.claims[said'[i].step])
    <3>1. CASE i \in DOMAIN said
      BY <1>6, <3>1 DEF Recital, Sourced
    <3>2. CASE i = Len(said) + 1
      BY <1>2, <1>6, <3>2
    <3> QED
      BY <1>6, <2>1, <3>1, <3>2
  <2> QED
    BY <1>4, <2>1 DEF Sourced
<1>8. Distinct'
  BY <1>4 DEF Recital, Distinct
<1>9. \A l \in DOMAIN log.claims : /\ Spoken(l, ClaimMsgs(log.claims[l]))
                                   /\ ClaimMsgs(log.claims[l]) \in Seq(Msgs)
                                   /\ Range(ClaimMsgs(log.claims[l])) = ClaimSet(log.claims[l])
  <2>1. ASSUME NEW c \in Claims
        PROVE  ClaimMsgs(c) \in Seq(Msgs)
    BY DEF Claims, ClaimMsgs
  <2> QED
    BY <2>1, TypedBox, ClaimRange DEF Recital
<1>10. ASSUME NEW l \in DOMAIN log.claims
       PROVE  Spoken(l, ClaimMsgs(log.claims[l]))'
  <2>1. PICK r : r = ClaimMsgs(log.claims[l])
    OBVIOUS
  <2>2. Spoken(l, r) /\ r \in Seq(Msgs) /\ DOMAIN r \subseteq Nat /\ Range(r) = ClaimSet(log.claims[l])
    BY <1>9, <2>1
  <2>3. ASSUME NEW b \in DOMAIN r, r[b] = line.msg
        PROVE  line.step = l /\ \A a \in DOMAIN r : a < b => r[a] \in SaidMsgs
    <3>1. r[b] \in Range(r)
      BY DEF Range
    <3>2. l = k
      <4>1. line.msg \in ClaimSet(log.claims[l]) /\ line.msg \in ClaimSet(log.claims[k])
        BY <1>2, <2>2, <2>3, <3>1
      <4>2. Distinct /\ k \in DOMAIN log.claims
        BY <1>2 DEF Recital
      <4> QED
        BY <4>1, <4>2, Zenon DEF Distinct
    <3>3. r = q
      BY <1>1, <2>1, <3>2
    <3>4. \A a \in DOMAIN r : a < b => r[a] \in SaidMsgs
      BY <1>1, <1>2, <1>3, <2>2, <2>3, <3>3, LineNext DEF Spoken
    <3> QED
      BY <1>2, <3>2, <3>4
  <2>4. Spoken(l, r)'
    BY <1>2, <1>4, <2>2, <2>3, LineSpoken
  <2> QED
    BY <1>4, <2>1, <2>4 DEF Spoken, SaidIn
<1>11. Tells(pending)'
  <2>1. ~Opening(pending) /\ ~Opening(pending')
    BY <1>3 DEF Opening
  <2>2. /\ Len(pending') = Len(pending) - 1 /\ Len(pending) \in Nat
        /\ \A i \in 1..Len(pending') : pending'[i] = pending[i + 1]
        /\ DOMAIN pending' = 1..Len(pending') /\ DOMAIN pending = 1..Len(pending)
    BY <1>3, HeadTailProperties
  <2>3. \A i \in DOMAIN pending' : pending'[i] = pending[i + 1] /\ i + 1 \in DOMAIN pending
    BY <2>2
  <2>4. \A m : Says(pending, m) <=> Says(pending', m) \/ m = line.msg
    BY <1>1, <1>3 DEF Says
  <2>5. TellsRest(pending, q)'
    <3>1. \A m : Says(pending', m) => m \in Range(q)
      BY <1>2, <2>4 DEF TellsRest
    <3>2. ASSUME NEW i \in DOMAIN pending', NEW j \in DOMAIN pending', NEW a \in DOMAIN q,
                 NEW b \in DOMAIN q, pending'[i].type = "UserMessage",
                 pending'[j].type = "UserMessage", i < j,
                 pending'[i].line.msg = q[a], pending'[j].line.msg = q[b]
          PROVE  a < b
      <4>1. /\ i + 1 \in DOMAIN pending /\ j + 1 \in DOMAIN pending /\ i + 1 < j + 1
            /\ pending'[i] = pending[i + 1] /\ pending'[j] = pending[j + 1]
        BY <2>2, <2>3, <3>2
      <4>2. PICK x, y : x = i + 1 /\ y = j + 1
        OBVIOUS
      <4> QED
        BY <1>2, <3>2, <4>1, <4>2 DEF TellsRest
    <3>3. \A m \in Range(q) : m \in SaidMsgs' \/ Says(pending', m)
      BY <1>2, <1>5, <2>4 DEF TellsRest
    <3> QED
      BY <3>1, <3>2, <3>3 DEF TellsRest, Says
  <2>6. ClaimMsgs(Begun(pending))' = q
    BY <1>1, <1>4, <2>1 DEF Begun
  <2> QED
    BY <2>1, <2>5, <2>6 DEF Tells, Opening
<1> QED
  BY <1>4, <1>7, <1>8, <1>10, <1>11 DEF Recital

\* What remains to be said does not change while nothing is said.
LEMMA TailTells ==
  ASSUME NEW p \in Seq(Events), p # <<>>, Head(p).type # "UserMessage", said' = said, NEW q,
         TellsRest(p, q)
  PROVE  TellsRest(Tail(p), q)'
<1>1. PICK r : r = Tail(p)
  OBVIOUS
<1>2. /\ Len(r) = Len(p) - 1 /\ Len(p) \in Nat /\ r \in Seq(Events)
      /\ \A i \in 1..Len(r) : r[i] = p[i + 1]
      /\ DOMAIN r = 1..Len(r) /\ DOMAIN p = 1..Len(p)
  BY <1>1, HeadTailProperties
<1>3. \A i \in DOMAIN r : r[i] = p[i + 1] /\ i + 1 \in DOMAIN p
  BY <1>2
<1>4. Range(p) = {Head(p)} \cup Range(r)
  BY <1>1, HeadAndTail
<1>5. \A m : Says(p, m) <=> Says(r, m)
  BY <1>4 DEF Says
<1>6. ASSUME NEW i \in DOMAIN r, NEW j \in DOMAIN r, NEW a \in DOMAIN q, NEW b \in DOMAIN q,
             r[i].type = "UserMessage", r[j].type = "UserMessage", i < j,
             r[i].line.msg = q[a], r[j].line.msg = q[b]
      PROVE  a < b
  <2>1. /\ i + 1 \in DOMAIN p /\ j + 1 \in DOMAIN p /\ i + 1 < j + 1
        /\ r[i] = p[i + 1] /\ r[j] = p[j + 1]
    BY <1>2, <1>3, <1>6
  <2>2. PICK x, y : x = i + 1 /\ y = j + 1
    OBVIOUS
  <2> QED
    BY <1>6, <2>1, <2>2 DEF TellsRest
<1>7. SaidMsgs' = SaidMsgs
  BY DEF SaidMsgs
<1>8. TellsRest(r, q)'
  BY <1>5, <1>6, <1>7 DEF TellsRest, Says
<1> QED
  BY <1>1, <1>8 DEF TellsRest, Says

\* A claim is recorded.
LEMMA ClaimWrite ==
  ASSUME Typed, Mail, Agreed, Recital, WriteEvent, NEW e, e = Head(pending),
         e.type = "StepInputClaim"
  PROVE  Recital'
<1>1. PICK k, c : k = NextStepId /\ c = e.claim
  OBVIOUS
<1>2. /\ e \in Range(pending) /\ e \in Events /\ pending \in Seq(Events) /\ pending # <<>>
      /\ Range(pending) = {e} \cup Range(pending') /\ pending' = Tail(pending)
      /\ ApplyInbox(e) \/ ApplyBoundary(e) \/ ApplyUserMessage(e) \/ ApplyStatus(e)
      /\ Sound(pending, e)
  BY HeadWritten
<1>3. /\ ~Opening(pending') /\ Opening(pending) /\ c \in Claims /\ k \notin DOMAIN log.claims
      /\ DOMAIN log'.claims = DOMAIN log.claims \cup {k} /\ log'.claims[k] = c
      /\ \A l \in DOMAIN log.claims : log'.claims[l] = log.claims[l]
      /\ Begun(pending)' = Begun(pending)
  BY <1>1, NumberStays DEF ClaimTypes
<1>4. said' = said
  BY <1>2, SaidStays
<1>5. SaidMsgs' = SaidMsgs
  BY <1>4 DEF SaidMsgs
<1>6. ClaimSet(c) \subseteq Queued /\ Complete
  BY <1>1, <1>2 DEF Sound, Unpaused
<1>7. SaidMsgs \cap Queued = {} /\ ClaimedMsgs \cap Queued = {}
  BY <1>6, CompleteClaims DEF Mail, Accounts
<1>8. \A l \in DOMAIN log.claims : ClaimSet(log.claims[l]) \cap ClaimSet(c) = {}
  <2>1. \A l \in DOMAIN log.claims : ClaimSet(log.claims[l]) \subseteq ClaimedMsgs
    BY CompleteIs
  <2> QED
    BY <1>6, <1>7, <2>1
<1>9. Sourced'
  <2>1. \A i \in DOMAIN said : said[i].step \in DOMAIN log'.claims
                               /\ said[i].msg \in ClaimSet(log'.claims[said[i].step])
    BY <1>3 DEF Recital, Sourced
  <2> QED
    BY <1>4, <2>1 DEF Sourced
<1>10. Distinct'
  <2>1. PICK f : f = log'.claims
    OBVIOUS
  <2>2. ASSUME NEW l \in DOMAIN f, NEW n \in DOMAIN f, l # n
        PROVE  ClaimSet(f[l]) \cap ClaimSet(f[n]) = {}
    <3>1. CASE l \in DOMAIN log.claims /\ n \in DOMAIN log.claims
      <4>1. f[l] = log.claims[l] /\ f[n] = log.claims[n] /\ Distinct
        BY <1>3, <2>1, <3>1 DEF Recital
      <4> QED
        BY <2>2, <3>1, <4>1 DEF Distinct
    <3>2. CASE l = k /\ n \in DOMAIN log.claims
      BY <1>3, <1>8, <2>1, <3>2
    <3>3. CASE n = k /\ l \in DOMAIN log.claims
      BY <1>3, <1>8, <2>1, <3>3
    <3> QED
      BY <1>3, <2>1, <2>2, <3>1, <3>2, <3>3
  <2> QED
    BY <2>1, <2>2 DEF Distinct
<1>11. Spoken(k, ClaimMsgs(c))'
  <2>1. PICK q : q = ClaimMsgs(c)
    OBVIOUS
  <2>2. IsInjective(q)
    BY <1>1, <1>3, <2>1 DEF Recital, Tells, Begun
  <2>3. SaidIn(k) = {}
    BY <1>3 DEF Recital, Sourced, SaidIn
  <2>4. \A b \in DOMAIN q : q[b] \notin SaidMsgs
    <3>1. Range(q) = ClaimSet(c)
      BY <1>3, <2>1, ClaimRange
    <3>2. \A b \in DOMAIN q : q[b] \in ClaimSet(c)
      BY <3>1 DEF Range
    <3> QED
      BY <1>6, <1>7, <3>2
  <2>5. Spoken(k, q)
    BY <2>2, <2>3, <2>4 DEF Spoken
  <2>6. Spoken(k, q)'
    BY <1>4, <1>5, <2>5 DEF Spoken, SaidIn
  <2> QED
    BY <2>1, <2>6 DEF Spoken, SaidIn
<1>12. ASSUME NEW l \in DOMAIN log.claims
       PROVE  Spoken(l, ClaimMsgs(log.claims[l]))'
  <2>1. PICK q : q = ClaimMsgs(log.claims[l])
    OBVIOUS
  <2>2. Spoken(l, q)
    BY <2>1 DEF Recital
  <2>3. Spoken(l, q)'
    BY <1>4, <1>5, <2>2 DEF Spoken, SaidIn
  <2>4. ClaimMsgs(log.claims[l])' = q
    BY <1>3, <2>1
  <2> QED
    BY <2>3, <2>4 DEF Spoken, SaidIn
<1>13. Tells(pending)'
  <2>1. ASSUME Has(pending', "UserMessage")
        PROVE  TellsRest(pending, ClaimMsgs(Begun(pending)))'
    <3>1. PICK p, q : p = pending /\ q = ClaimMsgs(Begun(pending))
      OBVIOUS
    <3>2. TellsRest(p, q) /\ p \in Seq(Events) /\ p # <<>> /\ Head(p).type # "UserMessage"
      BY <1>2, <2>1, <3>1 DEF Has, Recital, Tells
    <3>3. TellsRest(pending, q)'
      <4>1. TellsRest(Tail(p), q)'
        BY <1>4, <3>2, TailTells
      <4>2. pending' = Tail(p)
        BY <1>2, <3>1
      <4> QED
        BY <4>1, <4>2 DEF TellsRest, Says
    <3>4. ClaimMsgs(Begun(pending))' = q
      BY <1>3, <3>1
    <3> QED
      BY <3>3, <3>4 DEF TellsRest, Says
  <2> QED
    BY <1>3, <2>1 DEF Tells, Has, Opening
<1> QED
  BY <1>3, <1>9, <1>10, <1>11, <1>12, <1>13 DEF Recital, Spoken, SaidIn

\* Every other event leaves claims and transcript alone.
LEMMA OtherWrite ==
  ASSUME Typed, Mail, Agreed, Recital, WriteEvent, NEW e, e = Head(pending),
         e.type \notin {"StepInputClaim", "UserMessage"}
  PROVE  Recital'
<1>1. /\ e \in Range(pending) /\ e \in Events /\ pending \in Seq(Events) /\ pending # <<>>
      /\ Range(pending) = {e} \cup Range(pending') /\ pending' = Tail(pending)
      /\ ApplyInbox(e) \/ ApplyBoundary(e) \/ ApplyUserMessage(e) \/ ApplyStatus(e)
      /\ \A f \in Range(pending') : f.type # "StepInputClaim"
  BY HeadWritten
<1>2. said' = said
  BY <1>1, SaidStays
<1>3. SaidMsgs' = SaidMsgs
  BY <1>2 DEF SaidMsgs
<1>4. log'.claims = log.claims
  BY NumberStays, OtherComplete
<1>5. ~Opening(pending) /\ ~Opening(pending')
  BY <1>1 DEF Opening
<1>6. Begun(pending)' = Begun(pending)
  BY <1>4, <1>5 DEF Begun
<1>7. Tells(pending)'
  <2>1. ASSUME Has(pending', "UserMessage")
        PROVE  TellsRest(pending, ClaimMsgs(Begun(pending)))'
    <3>1. PICK p, q : p = pending /\ q = ClaimMsgs(Begun(pending))
      OBVIOUS
    <3>2. TellsRest(p, q) /\ p \in Seq(Events) /\ p # <<>> /\ Head(p).type # "UserMessage"
      BY <1>1, <2>1, <3>1 DEF Has, Recital, Tells
    <3>3. TellsRest(pending, q)'
      <4>1. TellsRest(Tail(p), q)'
        BY <1>2, <3>2, TailTells
      <4>2. pending' = Tail(p)
        BY <1>1, <3>1
      <4> QED
        BY <4>1, <4>2 DEF TellsRest, Says
    <3>4. ClaimMsgs(Begun(pending))' = q
      BY <1>6, <3>1
    <3> QED
      BY <3>3, <3>4 DEF TellsRest, Says
  <2> QED
    BY <1>5, <2>1 DEF Tells, Has, Opening
<1>8. Sourced' /\ Distinct'
  BY <1>2, <1>4 DEF Recital, Sourced, Distinct
<1>9. \A k \in DOMAIN log.claims : Spoken(k, ClaimMsgs(log.claims[k]))'
  BY <1>2, <1>3, <1>4 DEF Recital, Spoken, SaidIn
<1> QED
  BY <1>4, <1>7, <1>8, <1>9 DEF Recital

(* --------------------- what the operations hand over ---------------------- *)

\* An operation leaves the transcript alone.
LEMMA RecitalHanded ==
  ASSUME Recital, UNCHANGED <<log, said>>, NEW p, pending' = p, Tells(p)
  PROVE  Recital'
<1>1. SaidMsgs' = SaidMsgs
  BY DEF SaidMsgs
<1>2. Begun(pending)' = Begun(p)
  BY DEF Begun, Opening
<1>3. TellsRest(p, ClaimMsgs(Begun(p)))' <=> TellsRest(p, ClaimMsgs(Begun(p)))
  BY <1>1, <1>2 DEF TellsRest, Says, Begun, Opening
<1>4. Tells(pending)'
  BY <1>2, <1>3 DEF Tells, Has, Opening
<1>5. Sourced' /\ Distinct'
  BY DEF Recital, Sourced, Distinct
<1>6. \A k \in DOMAIN log.claims : Spoken(k, ClaimMsgs(log.claims[k]))'
  BY <1>1 DEF Recital, Spoken, SaidIn
<1> QED
  BY <1>4, <1>5, <1>6 DEF Recital

\* Nor is there anything to tell in a batch without a claim and without a line.
Mute(p) == \A e \in Range(p) : e.type \notin {"StepInputClaim", "UserMessage"}

\* Such a batch keeps the recital.
LEMMA MuteKeeps ==
  ASSUME Recital, NEW p, Write(p), Mute(p)
  PROVE  Recital'
<1>1. Tells(p)
  BY DEF Mute, Tells, Opening, Has
<1>2. UNCHANGED <<log, said>> /\ pending' = p
  BY DEF Write, durable
<1> QED
  BY <1>1, <1>2, RecitalHanded

\* Plain events, and an event alone, are mute.
LEMMA MuteBatches ==
  /\ \A b \in Seq(Plain) : Mute(b)
  /\ \A e : e.type \in SoloTypes => Mute(<<e>>)
<1>1. ASSUME NEW b \in Seq(Plain)
      PROVE  Mute(b)
  <2>1. \A i \in DOMAIN b : b[i] \in Plain
    OBVIOUS
  <2>2. \A f \in Plain : f.type \notin {"StepInputClaim", "UserMessage"}
    BY DEF Plain, PlainTypes
  <2> QED
    BY <2>1, <2>2 DEF Mute, Range
<1>2. ASSUME NEW e, e.type \in SoloTypes
      PROVE  Mute(<<e>>)
  <2>1. e.type \notin {"StepInputClaim", "UserMessage"}
    BY <1>2 DEF SoloTypes
  <2>2. \A f \in Range(<<e>>) : f = e
    BY DEF Range
  <2> QED
    BY <2>1, <2>2 DEF Mute
<1> QED
  BY <1>1, <1>2

\* What the user does is mute: a message is said when a step takes it.
LEMMA MuteInput ==
  ASSUME Recital,
         \/ \E m \in Msgs :
              \/ \E lane \in Lanes, held \in BOOLEAN, target \in {0} \cup log.turns :
                   Submit(m, lane, held, target)
              \/ ResumeItem(m) \/ Steer(m) \/ \E lane \in Lanes : Remove(lane, m)
         \/ \E lane \in Lanes, order \in Arrangements : Reorder(lane, order)
         \/ ResumeSession
  PROVE  Recital'
<1>1. /\ \A m, lane, held, target : Submission(m, lane, held, target).type \in SoloTypes
      /\ \A m : Resumed(m).type \in SoloTypes /\ Steered(m).type \in SoloTypes
      /\ \A lane, m : Removed(lane, m).type \in SoloTypes
      /\ \A lane, order : Reordered(lane, order).type \in SoloTypes
      /\ SessionResumed.type \in SoloTypes
  BY DEF Submission, Enqueued, Resumed, Steered, Removed, SessionResumed, Reordered, SoloTypes
<1>2. \E e : e.type \in SoloTypes /\ Write(<<e>>)
  <2>1. ASSUME NEW m, NEW lane, NEW held, NEW target, Submit(m, lane, held, target)
        PROVE  \E e : e.type \in SoloTypes /\ Write(<<e>>)
    BY <1>1, <2>1 DEF Submit
  <2>2. ASSUME NEW m, ResumeItem(m) \/ Steer(m)
        PROVE  \E e : e.type \in SoloTypes /\ Write(<<e>>)
    BY <1>1, <2>2 DEF ResumeItem, Steer
  <2>3. ASSUME NEW lane, NEW m, Remove(lane, m)
        PROVE  \E e : e.type \in SoloTypes /\ Write(<<e>>)
    BY <1>1, <2>3 DEF Remove
  <2>4. ASSUME NEW lane, NEW order, Reorder(lane, order)
        PROVE  \E e : e.type \in SoloTypes /\ Write(<<e>>)
    BY <1>1, <2>4 DEF Reorder
  <2>5. CASE ResumeSession
    BY <1>1, <2>5 DEF ResumeSession
  <2> QED
    BY <2>1, <2>2, <2>3, <2>4, <2>5
<1> QED
  BY <1>2, MuteBatches, MuteKeeps

\* Archiving ends the Session and says nothing.
LEMMA MuteArchive ==
  ASSUME Recital, Archive
  PROVE  Recital'
<1>1. PICK a : a = (IF ended THEN <<>> ELSE <<Status("Completed"), SessionEnded("Completed")>>)
  OBVIOUS
<1>2. PICK moved \in BOOLEAN : Write(a \o Opt(moved, Rename))
  BY <1>1 DEF Archive
<1>3. PICK b, p : b = Opt(moved, Rename) /\ p = a \o b
  OBVIOUS
<1>4. /\ Status("Completed") \in Plain /\ SessionEnded("Completed") \in Plain
      /\ Rename \in Events /\ Rename.type = "Rename"
  BY PlainMade DEF Statuses, Terminal, Rename, Events
<1>5. a \in Seq(Plain) /\ a \in Seq(Events)
  <2>1. a \in Seq(Plain)
    BY <1>1, <1>4
  <2>2. \A f \in Plain : f \in Events
    BY DEF Plain
  <2> QED
    BY <2>1, <2>2
<1>6. b \in Seq(Events) /\ \A e \in Range(b) : e.type = "Rename"
  BY <1>3, <1>4 DEF Opt, Range
<1>7. Range(p) = Range(a) \cup Range(b)
  BY <1>3, <1>5, <1>6, JoinSeq
<1>8. Mute(p)
  BY <1>5, <1>6, <1>7, MuteBatches DEF Mute
<1> QED
  BY <1>2, <1>3, <1>8, MuteKeeps

\* So do the operations of a driver that does not begin a step, and of a stop.
LEMMA MuteDriver ==
  ASSUME Typed, Recital,
         \/ \E kind \in {"interrupt", "cancel"} : RequestStop(kind) \/ StopDetached(kind)
         \/ Attach \/ Announce \/ GoIdle \/ AnswerText \/ AnswerTools \/ ToolsComplete
         \/ ToolsWait \/ ToolResolved \/ ResumeRecovery \/ EndTurnIfNoStepInput
         \/ DriverPauses \/ FailTurn \/ Terminate \/ TurnLimitExceeded \/ DriverRejected
         \/ StopAtStep \/ FinishStop \/ StopRefused
  PROVE  Recital'
<1>1. /\ <<>> \in Seq(Plain) /\ <<StepEnd>> \in Seq(Plain) /\ <<TurnEnd>> \in Seq(Plain)
      /\ \A s \in {"Idle", "Running", "Waiting"} :
           <<Status(s)>> \in Seq(Plain) /\ StatusIs(s) \in Seq(Plain)
      /\ <<Assistant("text"), Usage, StepEnd>> \in Seq(Plain)
      /\ <<Assistant("tools"), Usage>> \in Seq(Plain)
      /\ <<StepEnd, Status("Waiting")>> \in Seq(Plain)
      /\ CloseScope(scope) \in Seq(Plain) /\ CloseScope(log.live) \in Seq(Plain)
      /\ PauseBatch \in Seq(Plain) /\ TerminateBatch \in Seq(Plain)
      /\ \A kind \in {"interrupt", "cancel"} : StopBatch(kind) \in Seq(Plain)
  BY PlainBatches, DriverTypes DEF Statuses
<1>2. Opt(scope.step # 0, StepEnd) \o <<Status("Running")>> \in Seq(Plain)
  <2>1. Opt(scope.step # 0, StepEnd) \in Seq(Plain)
    BY PlainBatches
  <2> QED
    BY <1>1, <2>1
<1>3. \E b \in Seq(Plain) : Write(b)
  <2>1. ASSUME NEW kind \in {"interrupt", "cancel"}, RequestStop(kind) \/ StopDetached(kind)
        PROVE  \E b \in Seq(Plain) : Write(b)
    BY <1>1, <2>1 DEF RequestStop, StopDetached
  <2>2. CASE Attach
    BY <1>1, <2>2 DEF Attach
  <2>3. CASE Announce \/ GoIdle \/ AnswerText \/ AnswerTools \/ ToolsComplete \/ ToolsWait
    BY <1>1, <2>3 DEF Announce, GoIdle, AnswerText, AnswerTools, ToolsComplete, ToolsWait
  <2>4. CASE ToolResolved \/ ResumeRecovery \/ EndTurnIfNoStepInput
    BY <1>1, <1>2, <2>4 DEF ToolResolved, ResumeRecovery, EndTurnIfNoStepInput
  <2>5. CASE DriverPauses \/ FailTurn \/ Terminate \/ TurnLimitExceeded \/ DriverRejected
    BY <1>1, <2>5 DEF DriverPauses, FailTurn, Terminate, TurnLimitExceeded, DriverRejected
  <2>6. CASE StopAtStep \/ StopRefused
    BY <1>1, <2>6 DEF StopAtStep, StopRefused
  <2>7. CASE FinishStop
    <3>1. halt \in {"interrupt", "cancel"}
      BY <2>7, DriverTypes DEF FinishStop
    <3> QED
      BY <1>1, <2>7, <3>1 DEF FinishStop
  <2> QED
    BY <2>1, <2>2, <2>3, <2>4, <2>5, <2>6, <2>7
<1> QED
  BY <1>3, MuteBatches, MuteKeeps

(* ------------------------- what a claim's batch tells --------------------- *)

Silent == {e \in Events : e.type # "UserMessage"}

\* Where the parts of a joined batch lie.
LEMMA JoinedAt ==
  ASSUME NEW S, NEW b \in Seq(S), NEW c \in Seq(S)
  PROVE  /\ Len(b) \in Nat /\ Len(c) \in Nat /\ DOMAIN (b \o c) = 1..(Len(b) + Len(c))
         /\ \A i \in 1..Len(b) : (b \o c)[i] = b[i]
         /\ \A i \in DOMAIN (b \o c) : i > Len(b) =>
              (b \o c)[i] = c[i - Len(b)] /\ i - Len(b) \in 1..Len(c)
<1> DEFINE r == b \o c
<1>1. /\ Len(b) \in Nat /\ Len(c) \in Nat /\ DOMAIN r = 1..(Len(b) + Len(c))
      /\ \A i \in 1..Len(b) : r[i] = b[i]
      /\ \A i \in DOMAIN r : i > Len(b) => r[i] = c[i - Len(b)] /\ i - Len(b) \in 1..Len(c)
  BY ConcatProperties
<1> QED
  BY <1>1

\* The lines at the end of a batch tell the rest of a claim.
LEMMA LinesTell ==
  ASSUME NEW a \in Seq(Silent), NEW q \in Seq(Msgs), NEW r \in Seq(Msgs), NEW s \in 1..MaxSteps,
         NEW p, p = a \o UserMessages(q, s), Lists(q, r), Range(q) \subseteq Range(r),
         Range(r) \subseteq SaidMsgs \cup Range(q)
  PROVE  TellsRest(p, r)
<1>1. PICK u : u = UserMessages(q, s)
  OBVIOUS
<1>2. /\ u \in Seq(Lines) /\ (\A m : Says(u, m) <=> m \in Range(q))
      /\ DOMAIN u = DOMAIN q /\ \A i \in DOMAIN q : u[i].line.msg = q[i]
  BY <1>1, LinesMade DEF UserMessages
<1>3. u \in Seq(Events) /\ a \in Seq(Events)
  BY <1>2 DEF Lines, Silent
<1>4. Range(p) = Range(a) \cup Range(u)
  BY <1>1, <1>3, JoinSeq
<1>5. \A e \in Range(a) : e.type # "UserMessage"
  BY DEF Silent, Range
<1>6. \A m : Says(p, m) <=> m \in Range(q)
  BY <1>2, <1>4, <1>5 DEF Says
<1>7. /\ Len(a) \in Nat /\ Len(q) \in Nat /\ DOMAIN a = 1..Len(a) /\ DOMAIN q = 1..Len(q)
      /\ Len(u) = Len(q) /\ Len(u) \in Nat
  BY <1>2, <1>3
<1>8. /\ DOMAIN p = 1..(Len(a) + Len(q)) /\ \A i \in 1..Len(a) : p[i] = a[i]
      /\ \A i \in DOMAIN p : i > Len(a) => p[i] = u[i - Len(a)] /\ i - Len(a) \in 1..Len(q)
  <2>1. /\ DOMAIN (a \o u) = 1..(Len(a) + Len(u)) /\ \A i \in 1..Len(a) : (a \o u)[i] = a[i]
        /\ \A i \in DOMAIN (a \o u) : i > Len(a) =>
             (a \o u)[i] = u[i - Len(a)] /\ i - Len(a) \in 1..Len(u)
    BY <1>3, JoinedAt
  <2>2. p = a \o u
    BY <1>1
  <2> QED
    BY <1>7, <2>1, <2>2
<1>9. ASSUME NEW i \in DOMAIN p, p[i].type = "UserMessage"
      PROVE  i - Len(a) \in DOMAIN q /\ p[i].line.msg = q[i - Len(a)]
  <2>1. ~(i \in 1..Len(a))
    BY <1>5, <1>7, <1>8, <1>9 DEF Range
  <2>2. i > Len(a)
    BY <1>7, <1>8, <2>1
  <2> QED
    BY <1>2, <1>7, <1>8, <2>2
<1>10. ASSUME NEW i \in DOMAIN p, NEW j \in DOMAIN p, NEW x \in DOMAIN r, NEW y \in DOMAIN r,
              p[i].type = "UserMessage", p[j].type = "UserMessage", i < j,
              p[i].line.msg = r[x], p[j].line.msg = r[y]
       PROVE  x < y
  <2>1. PICK k, l : k = i - Len(a) /\ l = j - Len(a)
    OBVIOUS
  <2>2. k \in DOMAIN q /\ l \in DOMAIN q /\ q[k] = r[x] /\ q[l] = r[y]
    BY <1>9, <1>10, <2>1
  <2>3. k < l
    BY <1>7, <1>8, <1>10, <2>1
  <2> QED
    BY <2>2, <2>3 DEF Lists
<1> QED
  BY <1>6, <1>10 DEF TellsRest

\* A new claim is told in full.
LEMMA ClaimTells ==
  ASSUME NEW e0, e0.type = "StepInputClaim", NEW a \in Seq(Silent), a # <<>>, Head(a) = e0,
         NEW q \in Seq(Msgs), ClaimMsgs(e0.claim) = q, IsInjective(q), NEW s \in 1..MaxSteps,
         NEW p, p = a \o UserMessages(q, s)
  PROVE  Tells(p)
<1>1. PICK u : u = UserMessages(q, s)
  OBVIOUS
<1>2. Lists(q, q) /\ Range(q) \subseteq Range(q) /\ Range(q) \subseteq SaidMsgs \cup Range(q)
  BY DEF Lists, IsInjective
<1>3. TellsRest(p, q)
  BY <1>2, LinesTell
<1>4. u \in Seq(Events) /\ a \in Seq(Events) /\ p = a \o u
  <2>1. u \in Seq(Lines)
    BY <1>1, LinesMade
  <2>2. (\A f \in Lines : f \in Events) /\ (\A f \in Silent : f \in Events)
    BY DEF Lines, Silent
  <2> QED
    BY <1>1, <2>1, <2>2
<1>5. Len(a) \in Nat /\ 1 \in DOMAIN a /\ a[1] = e0 /\ e0 \in Range(a) /\ 1 \in 1..Len(a)
  BY DEF Range
<1>6. Opening(p)
  <2>1. e0 \in Range(p)
    BY <1>4, <1>5, JoinSeq
  <2> QED
    BY <2>1 DEF Opening
<1>7. Head(p) = e0
  <2>1. (a \o u)[1] = a[1] /\ a \o u \in Seq(Events) /\ 1 \in DOMAIN (a \o u)
    BY <1>4, <1>5, JoinedAt, JoinSeq
  <2> QED
    BY <1>4, <1>5, <2>1
<1>8. ClaimMsgs(Begun(p)) = q
  BY <1>6, <1>7 DEF Begun
<1> QED
  BY <1>3, <1>8 DEF Tells

\* The events before the lines, taken together.
LEMMA SilentJoins ==
  ASSUME NEW a \in Seq(Silent), a # <<>>, NEW b \in Seq(Mid)
  PROVE  a \o b \in Seq(Silent) /\ a \o b # <<>> /\ Head(a \o b) = Head(a)
<1>1. b \in Seq(Silent)
  <2>1. \A f \in Mid : f \in Silent
    BY DEF Mid, Silent
  <2> QED
    BY <2>1
<1>2. Len(a) \in Nat /\ 1 \in 1..Len(a) /\ Head(a) = a[1]
  OBVIOUS
<1>3. (a \o b)[1] = a[1] /\ a \o b \in Seq(Silent) /\ 1 \in DOMAIN (a \o b)
  BY <1>1, <1>2, JoinedAt, JoinSeq
<1> QED
  BY <1>2, <1>3

\* The head of a claim's batch.
LEMMA SilentHead ==
  ASSUME NEW t \in 1..MaxSteps, NEW start \in BOOLEAN, NEW tq \in Seq(Msgs), NEW sq \in Seq(Msgs),
         NEW e0, e0 = Claim(t, start, tq, sq), NEW a, a = <<e0>>
  PROVE  e0.type = "StepInputClaim" /\ a \in Seq(Silent) /\ a # <<>> /\ Head(a) = e0
<1>1. e0 \in Events /\ e0.type = "StepInputClaim"
  BY ClaimMade
<1>2. e0 \in Silent
  BY <1>1 DEF Silent
<1> QED
  BY <1>1, <1>2

\* A turn begins: its batch tells the whole claim.
LEMMA TellBeginTurn ==
  ASSUME Typed, Mail, BeginTurn
  PROVE  \E p : Write(p) /\ Tells(p)
<1>1. PICK s : s = NextStepId
  OBVIOUS
<1>2. s \in 1..MaxSteps
  BY <1>1, TypedBox, Bounds DEF NextStepId, Logs, BeginTurn
<1>3. PICK tq \in TurnClaims, sq \in StepClaims :
        Write(<<Claim(s, TRUE, tq, sq)>> \o Opt(tq # <<>>, Claimed("nextTurn", tq))
              \o <<TurnStart(s)>> \o Opt(sq # <<>>, Claimed("nextStep", sq))
              \o <<StepStart(s)>> \o UserMessages(tq \o sq, s))
  BY <1>1 DEF BeginTurn
<1>4. /\ tq \in Seq(Msgs) /\ sq \in Seq(Msgs) /\ tq \o sq \in Seq(Msgs)
      /\ IsInjective(tq) /\ IsInjective(sq) /\ Range(tq) \cap Range(sq) = {}
  <2>1. /\ Range(tq) \subseteq Range(inbox.nextTurn) /\ tq \in Seq(Msgs) /\ IsInjective(tq)
        /\ Range(sq) \subseteq Range(inbox.nextStep) /\ sq \in Seq(Msgs) /\ IsInjective(sq)
    BY TurnClaimOf, StepClaimOf
  <2>2. Range(inbox.nextTurn) \cap Range(inbox.nextStep) = {}
    BY DEF Mail, Accounts
  <2> QED
    BY <2>1, <2>2
<1>5. IsInjective(tq \o sq)
  BY <1>4, JoinInjective
<1>a. PICK yes \in BOOLEAN : yes
  OBVIOUS
<1>6. PICK q, e0, b1, b2, b3, b4 :
        /\ q = tq \o sq /\ e0 = Claim(s, yes, tq, sq)
        /\ b1 = Opt(tq # <<>>, Claimed("nextTurn", tq)) /\ b2 = <<TurnStart(s)>>
        /\ b3 = Opt(sq # <<>>, Claimed("nextStep", sq)) /\ b4 = <<StepStart(s)>>
  OBVIOUS
<1>7. PICK a0, a1, a2, a3, a4, p :
        /\ a0 = <<e0>> /\ a1 = a0 \o b1 /\ a2 = a1 \o b2 /\ a3 = a2 \o b3 /\ a4 = a3 \o b4
        /\ p = a4 \o UserMessages(q, s)
  OBVIOUS
<1>8. Write(p)
  <2>1. <<Claim(s, TRUE, tq, sq)>> = a0
    <3>1. yes = TRUE
      BY <1>a
    <3> QED
      BY <1>6, <1>7, <3>1
  <2> QED
    BY <1>3, <1>6, <1>7, <2>1
<1>9. b1 \in Seq(Mid) /\ b2 \in Seq(Mid) /\ b3 \in Seq(Mid) /\ b4 \in Seq(Mid)
  <2>1. TurnStart(s) \in Mid /\ StepStart(s) \in Mid
    BY <1>2, MidMade
  <2>2. b1 \in Seq(Mid) /\ b3 \in Seq(Mid)
    BY <1>4, <1>6, MidOpt DEF Lanes
  <2> QED
    BY <1>6, <2>1, <2>2, OneSeq
<1>10. /\ e0.type = "StepInputClaim" /\ ClaimMsgs(e0.claim) = q
       /\ a0 \in Seq(Silent) /\ a0 # <<>> /\ Head(a0) = e0
  <2>1. ClaimMsgs(e0.claim) = q
    BY <1>6 DEF Claim, ClaimMsgs
  <2> QED
    BY <1>a, <1>2, <1>4, <1>6, <1>7, <2>1, SilentHead
<1>11. a1 \in Seq(Silent) /\ a1 # <<>> /\ Head(a1) = e0
  BY <1>7, <1>9, <1>10, SilentJoins
<1>12. a2 \in Seq(Silent) /\ a2 # <<>> /\ Head(a2) = e0
  BY <1>7, <1>9, <1>11, SilentJoins
<1>13. a3 \in Seq(Silent) /\ a3 # <<>> /\ Head(a3) = e0
  BY <1>7, <1>9, <1>12, SilentJoins
<1>14. a4 \in Seq(Silent) /\ a4 # <<>> /\ Head(a4) = e0
  BY <1>7, <1>9, <1>13, SilentJoins
<1>15. q \in Seq(Msgs) /\ IsInjective(q)
  BY <1>4, <1>5, <1>6
<1>16. Tells(p)
  BY <1>2, <1>7, <1>10, <1>14, <1>15, ClaimTells
<1> QED
  BY <1>8, <1>16

\* So does that of a further step.
LEMMA TellNextStep ==
  ASSUME Typed, NEW sq \in StepClaims, scope.turn \in 1..MaxSteps, NextStep(sq)
  PROVE  \E p : Write(p) /\ Tells(p)
<1>1. PICK s, t, tq : s = NextStepId /\ t = scope.turn /\ tq = <<>>
  OBVIOUS
<1>2. s \in 1..MaxSteps /\ t \in 1..MaxSteps
  BY <1>1, TypedBox, Bounds DEF NextStepId, Logs, NextStep
<1>3. sq \in Seq(Msgs) /\ IsInjective(sq) /\ tq \in Seq(Msgs) /\ tq \o sq = sq
  BY <1>1, StepClaimOf
<1>a. PICK no \in BOOLEAN : ~no
  OBVIOUS
<1>4. PICK e0, b1, b2 :
        /\ e0 = Claim(t, no, tq, sq)
        /\ b1 = Opt(sq # <<>>, Claimed("nextStep", sq)) /\ b2 = <<StepStart(s)>>
  OBVIOUS
<1>5. PICK a0, a1, a2, p :
        /\ a0 = <<e0>> /\ a1 = a0 \o b1 /\ a2 = a1 \o b2 /\ p = a2 \o UserMessages(sq, s)
  OBVIOUS
<1>6. Write(p)
  <2>1. <<Claim(t, FALSE, <<>>, sq)>> = a0
    <3>1. no = FALSE
      BY <1>a
    <3> QED
      BY <1>1, <1>4, <1>5, <3>1
  <2> QED
    BY <1>1, <1>4, <1>5, <2>1 DEF NextStep
<1>7. b1 \in Seq(Mid) /\ b2 \in Seq(Mid)
  <2>1. StepStart(s) \in Mid
    BY <1>2, MidMade
  <2>2. b1 \in Seq(Mid)
    BY <1>3, <1>4, MidOpt DEF Lanes
  <2> QED
    BY <1>4, <2>1, <2>2, OneSeq
<1>8. /\ e0.type = "StepInputClaim" /\ ClaimMsgs(e0.claim) = sq
      /\ a0 \in Seq(Silent) /\ a0 # <<>> /\ Head(a0) = e0
  <2>1. ClaimMsgs(e0.claim) = sq
    BY <1>3, <1>4 DEF Claim, ClaimMsgs
  <2> QED
    BY <1>a, <1>2, <1>3, <1>4, <1>5, <2>1, SilentHead
<1>9. a1 \in Seq(Silent) /\ a1 # <<>> /\ Head(a1) = e0
  BY <1>5, <1>7, <1>8, SilentJoins
<1>10. a2 \in Seq(Silent) /\ a2 # <<>> /\ Head(a2) = e0
  BY <1>5, <1>7, <1>9, SilentJoins
<1>11. Tells(p)
  BY <1>2, <1>3, <1>5, <1>8, <1>10, ClaimTells
<1> QED
  BY <1>6, <1>11

\* The repair of a torn claim tells what the transcript lacks of it.
LEMMA TellRepair ==
  ASSUME Typed, Mail, Agreed, RepairClaims
  PROVE  \E p : Write(p) /\ Tells(p)
<1>1. ~ended /\ ~archived
  BY DEF RepairClaims
<1>2. PICK k, c, tq, sq, un :
        /\ k \in Unfinished /\ c = log.claims[k] /\ tq \in Kept(c.turnMsgs, Queued)
        /\ sq \in Kept(c.stepMsgs, Queued)
        /\ un \in Kept(ClaimMsgs(c), Msgs \ SaidMsgs)
        /\ Write(Opt(tq # <<>>, Claimed("nextTurn", tq)) \o Opt(sq # <<>>, Claimed("nextStep", sq))
                 \o Opt(c.start /\ c.turn \notin log.turns, TurnStart(c.turn))
                 \o Opt(k \notin log.steps, StepStart(k)) \o UserMessages(un, k))
  BY DEF RepairClaims
<1>3. k = Len(log.claims) /\ k \in 1..MaxSteps /\ c \in Claims
  BY <1>1, <1>2, TornIsLast
<1>4. PICK r : r = ClaimMsgs(c)
  OBVIOUS
<1>5. r \in Seq(Msgs) /\ Range(r) \subseteq Msgs
  BY <1>3, <1>4, ClaimRange DEF Claims, ClaimMsgs
<1>6. /\ tq \in Seq(Msgs) /\ sq \in Seq(Msgs)
      /\ un \in Seq(Msgs) /\ Range(un) = Range(r) \cap (Msgs \ SaidMsgs)
  BY <1>2, <1>4, KeptOf
<1>7. Lists(un, r)
  BY <1>2, <1>4 DEF Kept, Lists
<1>8. Range(un) \subseteq Range(r) /\ Range(r) \subseteq SaidMsgs \cup Range(un)
  BY <1>5, <1>6
<1>9. PICK x \in BOOLEAN, y \in BOOLEAN :
        x = (c.start /\ c.turn \notin log.turns) /\ y = (k \notin log.steps)
  OBVIOUS
<1>10. PICK b1, b2, b3, b4, u :
         /\ b1 = Opt(tq # <<>>, Claimed("nextTurn", tq))
         /\ b2 = Opt(sq # <<>>, Claimed("nextStep", sq))
         /\ b3 = Opt(x, TurnStart(c.turn)) /\ b4 = Opt(y, StepStart(k))
         /\ u = UserMessages(un, k)
  OBVIOUS
<1>11. PICK a2, a3, a, p : a2 = b1 \o b2 /\ a3 = a2 \o b3 /\ a = a3 \o b4 /\ p = a \o u
  OBVIOUS
<1>12. Write(p)
  BY <1>2, <1>9, <1>10, <1>11
<1>13. b1 \in Seq(Mid) /\ b2 \in Seq(Mid) /\ b3 \in Seq(Mid) /\ b4 \in Seq(Mid)
  <2>1. b1 \in Seq(Mid) /\ b2 \in Seq(Mid)
    BY <1>6, <1>10, MidOpt DEF Lanes
  <2>2. c.turn \in 1..MaxSteps
    BY <1>3 DEF Claims
  <2> QED
    BY <1>3, <1>9, <1>10, <2>1, <2>2, MidOpt
<1>14. a \in Seq(Mid)
  BY <1>11, <1>13
<1>15. /\ a \in Seq(Silent) /\ a \in Seq(Events)
       /\ \A e \in Range(a) : e.type # "StepInputClaim"
  <2>1. \A f \in Mid : f \in Silent /\ f \in Events /\ f.type # "StepInputClaim"
    BY DEF Mid, Silent
  <2>2. \A e \in Range(a) : e \in Mid
    BY <1>14 DEF Range
  <2> QED
    BY <1>14, <2>1, <2>2
<1>16. u \in Seq(Events) /\ \A e \in Range(u) : e.type # "StepInputClaim"
  <2>1. u \in Seq(Lines)
    BY <1>3, <1>6, <1>10, LinesMade
  <2>2. \A f \in Lines : f \in Events /\ f.type # "StepInputClaim"
    BY DEF Lines
  <2>3. \A e \in Range(u) : e \in Lines
    BY <2>1 DEF Range
  <2> QED
    BY <2>1, <2>2, <2>3
<1>17. TellsRest(p, r)
  BY <1>3, <1>5, <1>6, <1>7, <1>8, <1>10, <1>11, <1>15, LinesTell
<1>18. ~Opening(p)
  <2>1. Range(a \o u) = Range(a) \cup Range(u)
    BY <1>15, <1>16, JoinSeq
  <2> QED
    BY <1>11, <1>15, <1>16, <2>1 DEF Opening
<1>19. ClaimMsgs(Begun(p)) = r
  BY <1>2, <1>3, <1>4, <1>18 DEF Begun
<1>20. Tells(p)
  BY <1>17, <1>18, <1>19 DEF Tells
<1> QED
  BY <1>12, <1>20

\* An operation whose batch tells keeps the recital.
LEMMA RecitalWritten ==
  ASSUME Recital, \E p : Write(p) /\ Tells(p)
  PROVE  Recital'
<1>1. PICK p : Write(p) /\ Tells(p)
  OBVIOUS
<1>2. UNCHANGED <<log, said>> /\ pending' = p
  BY <1>1 DEF Write, durable
<1> QED
  BY <1>1, <1>2, RecitalHanded

\* A step of a running turn, or its end.
LEMMA RecitalStep ==
  ASSUME Typed, Recital, BeginStepOrEndTurn \/ BeginContinuationStep
  PROVE  Recital'
<1>1. Mutable /\ stage \in Working
  BY DEF BeginStepOrEndTurn, BeginContinuationStep, Working
<1>2. scope.turn \in 1..MaxSteps
  BY <1>1, DriverTypes
<1>3. ASSUME NEW sq \in StepClaims, NextStep(sq)
      PROVE  Recital'
  BY <1>2, <1>3, TellNextStep, RecitalWritten
<1>4. ASSUME Write(<<TurnEnd>>)
      PROVE  Recital'
  <2>1. <<TurnEnd>> \in Seq(Plain)
    BY PlainBatches
  <2> QED
    BY <1>4, <2>1, MuteBatches, MuteKeeps
<1> QED
  BY <1>3, <1>4 DEF BeginStepOrEndTurn, BeginContinuationStep

\* The steps of a restart that say nothing, and the crash.
LEMMA RecitalRestart ==
  ASSUME Typed, Recital, PauseRestored \/ OpenForService \/ Crash
  PROVE  Recital'
<1>1. CASE PauseRestored
  <2>1. <<Paused(Unpaused)>> \in Seq(Plain)
    <3>1. Unpaused \in SUBSET Msgs
      BY TypedBox DEF Unpaused
    <3>2. Paused(Unpaused) \in Plain
      BY <3>1, PlainMade
    <3> QED
      BY <3>2, OneSeq
  <2> QED
    BY <1>1, <2>1, MuteBatches, MuteKeeps DEF PauseRestored
<1>2. CASE OpenForService
  <2>1. UNCHANGED <<log, said, pending>>
    BY <1>2 DEF OpenForService, durable
  <2> QED
    BY <2>1, RecitalHanded DEF Recital
<1>3. CASE Crash
  <2>1. UNCHANGED <<log, said>> /\ pending' = <<>>
    BY <1>3 DEF Crash, durable
  <2>2. Tells(<<>>)
    BY DEF Tells, Opening, Has, Range
  <2> QED
    BY <2>1, <2>2, RecitalHanded
<1> QED
  BY <1>1, <1>2, <1>3

(* --------------------------- the inductive invariant ---------------------- *)

\* Nothing is said at first.
LEMMA RecitalInit ==
  ASSUME Init
  PROVE  Recital
  BY DEF Init, Recital, Sourced, Distinct, Tells, Opening, Has, Range

\* Each step keeps the recital.
LEMMA RecitalNext ==
  ASSUME Typed, Mail, Agreed, Recital, [Next]_vars
  PROVE  Recital'
<1>1. CASE WriteEvent
  <2>1. PICK e : e = Head(pending)
    OBVIOUS
  <2> QED
    BY <1>1, <2>1, LineWrite, ClaimWrite, OtherWrite
<1>2. CASE UserStep
  <2>1. CASE Archive
    BY <2>1, MuteArchive
  <2>2. CASE ResumeRecovery \/ ToolResolved
    BY <2>2, MuteDriver
  <2>3. ASSUME NEW kind \in {"interrupt", "cancel"}, RequestStop(kind) \/ StopDetached(kind)
        PROVE  Recital'
    BY <2>3, MuteDriver
  <2>4. ASSUME \/ \E m \in Msgs :
                    \/ \E lane \in Lanes, held \in BOOLEAN, target \in {0} \cup log.turns :
                         Submit(m, lane, held, target)
                    \/ ResumeItem(m) \/ Steer(m) \/ \E lane \in Lanes : Remove(lane, m)
               \/ \E lane \in Lanes, order \in Arrangements : Reorder(lane, order)
               \/ ResumeSession
        PROVE  Recital'
    BY <2>4, MuteInput
  <2> QED
    BY <1>2, <2>1, <2>2, <2>3, <2>4 DEF UserStep
<1>3. CASE DriverStep
  <2>1. CASE BeginTurn
    BY <2>1, TellBeginTurn, RecitalWritten
  <2>2. CASE BeginStepOrEndTurn \/ BeginContinuationStep
    BY <2>2, RecitalStep
  <2>3. CASE \/ Attach \/ Announce \/ GoIdle \/ AnswerText \/ AnswerTools \/ ToolsComplete
             \/ ToolsWait \/ EndTurnIfNoStepInput \/ DriverPauses \/ FailTurn \/ Terminate
             \/ TurnLimitExceeded \/ DriverRejected \/ StopAtStep \/ FinishStop \/ StopRefused
    BY <2>3, MuteDriver
  <2> QED
    BY <1>3, <2>1, <2>2, <2>3 DEF DriverStep
<1>4. CASE RestartStep
  BY <1>4, TellRepair, RecitalWritten, RecitalRestart DEF RestartStep
<1>5. CASE Crash
  BY <1>5, RecitalRestart
<1>6. CASE UNCHANGED vars
  <2>1. UNCHANGED <<log, said, pending>>
    BY <1>6 DEF vars, durable
  <2> QED
    BY <2>1, RecitalHanded DEF Recital
<1> QED
  BY <1>1, <1>2, <1>3, <1>4, <1>5, <1>6 DEF Next

\* At most one claim is torn, the last; none when the store serves.
LEMMA TornClaims ==
  ASSUME Typed, Mail, Agreed
  PROVE  /\ Cardinality(Unfinished) <= 1
         /\ Serving => Complete
<1>1. PICK n : n = Len(log.claims)
  OBVIOUS
<1>2. Unfinished \subseteq {n}
  <2>1. ASSUME NEW k \in Unfinished
        PROVE  k = n
    <3>1. k \in DOMAIN log.claims
      BY <2>1 DEF Unfinished
    <3>2. log.claims[k] \in Claims /\ Range(ClaimMsgs(log.claims[k])) = ClaimSet(log.claims[k])
      BY <3>1, TypedBox, ClaimRange
    <3>3. ~Done(log.claims[k], k)
      BY <2>1, <3>2 DEF Unfinished, Done
    <3> QED
      BY <1>1, <3>1, <3>3 DEF Agreed, Numbered
  <2> QED
    BY <2>1
<1>3. Cardinality(Unfinished) <= 1
  <2>1. IsFiniteSet({n}) /\ Cardinality({n}) = 1
    BY FS_Singleton
  <2> QED
    BY <1>2, <2>1, FS_Subset
<1>4. ASSUME Serving
      PROVE  Complete
  <2>1. \A m : ~Takes(pending, m) /\ ~Says(pending, m)
    BY <1>4 DEF Serving, Takes, Says, Range
  <2>2. \A k : ~Starts(pending, k) /\ ~Opens(pending, k)
    BY <1>4 DEF Serving, Starts, Opens, Range
  <2>3. ASSUME NEW k \in DOMAIN log.claims
        PROVE  Done(log.claims[k], k)
    <3>1. PICK c : c = log.claims[k]
      OBVIOUS
    <3>2. Follows(pending, c, k)
      BY <1>4, <3>1 DEF Mail, Service, Serving
    <3>3. Done(c, k)
      BY <2>1, <2>2, <3>2 DEF Follows, Done
    <3> QED
      BY <3>1, <3>3
  <2> QED
    BY <2>3 DEF Complete
<1> QED
  BY <1>3, <1>4

\* Of a complete claim everything is said, in its order.
LEMMA CompleteRecited ==
  ASSUME Typed, Mail, Recital, Complete, NEW k \in DOMAIN log.claims
  PROVE  Recited(k, ClaimMsgs(log.claims[k]))
<1>1. PICK c, q : c = log.claims[k] /\ q = ClaimMsgs(c)
  OBVIOUS
<1>2. c \in Claims /\ Range(q) = ClaimSet(c) /\ q \in Seq(Msgs) /\ DOMAIN q \subseteq Nat
  <2>1. c \in Claims
    BY <1>1, TypedBox
  <2>2. q \in Seq(Msgs)
    BY <1>1, <2>1 DEF Claims, ClaimMsgs
  <2> QED
    BY <1>1, <2>1, <2>2, ClaimRange
<1>3. Done(c, k) /\ Spoken(k, q)
  BY <1>1 DEF Complete, Recital
<1>4. DOMAIN said \subseteq Nat
  BY DEF Typed, TypeOK
<1>5. {said[i].msg : i \in SaidIn(k)} = Range(q)
  <2>1. ASSUME NEW i \in SaidIn(k)
        PROVE  said[i].msg \in Range(q)
    BY <1>1, <1>2 DEF SaidIn, Recital, Sourced
  <2>2. ASSUME NEW m \in Range(q)
        PROVE  \E i \in SaidIn(k) : said[i].msg = m
    <3>1. m \in ClaimSet(c) /\ m \in SaidMsgs
      BY <1>2, <1>3 DEF Done
    <3>2. PICK i \in DOMAIN said : said[i].msg = m
      BY <3>1 DEF SaidMsgs
    <3>3. PICK l : l = said[i].step
      OBVIOUS
    <3>4. l \in DOMAIN log.claims /\ m \in ClaimSet(log.claims[l]) /\ Distinct
      BY <3>2, <3>3 DEF Recital, Sourced
    <3>5. l = k
      BY <1>1, <3>1, <3>4 DEF Distinct
    <3> QED
      BY <3>2, <3>3, <3>5 DEF SaidIn
  <2> QED
    BY <2>1, <2>2
<1>6. ASSUME NEW i \in SaidIn(k), NEW j \in SaidIn(k), NEW a \in DOMAIN q, NEW b \in DOMAIN q,
             said[i].msg = q[a], said[j].msg = q[b]
      PROVE  i < j <=> a < b
  <2>1. i \in DOMAIN said /\ j \in DOMAIN said /\ i \in Nat /\ j \in Nat /\ a \in Nat /\ b \in Nat
    BY <1>2, <1>4 DEF SaidIn
  <2>2. i < j => a < b
    BY <1>3, <1>6 DEF Spoken
  <2>3. j < i => b < a
    BY <1>3, <1>6 DEF Spoken
  <2>4. i = j => a = b
    BY <1>3, <1>6 DEF Spoken, IsInjective
  <2> QED
    BY <2>1, <2>2, <2>3, <2>4
<1>7. Recited(k, q)
  BY <1>5, <1>6 DEF Recited
<1> QED
  BY <1>1, <1>7

(* -------------------------------- theorems -------------------------------- *)

\* In every state the transcript holds of each claim a part that is closed to the
\* left, in the order of the claim, and the batch in hand says the rest.
THEOREM RecitalKept == Spec => [](Typed /\ Mail /\ Agreed /\ Recital)
<1>1. Init => Typed /\ Mail /\ Agreed /\ Recital
  BY InitHolds, AgreedInit, RecitalInit
<1>2. Typed /\ Mail /\ Agreed /\ Recital /\ [Next]_vars => Typed' /\ Mail' /\ Agreed' /\ Recital'
  BY StepHolds, AgreedNext, RecitalNext
<1> QED
  BY <1>1, <1>2, PTL DEF Spec

\* At most one claim is torn at a time, none when the store serves, and a Step is
\* sent what its claim intended, the turn's message first, in the order claimed.
THEOREM StepsSayWhatWasClaimed == Spec => []TranscriptFollowsClaims
<1>1. ASSUME Typed, Mail, Agreed, Recital
      PROVE  TranscriptFollowsClaims
  <2>1. Cardinality(Unfinished) <= 1
    BY <1>1, TornClaims
  <2>2. ASSUME Serving
        PROVE  /\ Unfinished = {}
               /\ log.steps = DOMAIN log.claims
               /\ \A k \in DOMAIN log.claims : Recited(k, ClaimMsgs(log.claims[k]))
    <3>1. Complete
      BY <1>1, <2>2, TornClaims
    <3>2. Unfinished = {}
      BY <1>1, <3>1, CompleteIs
    <3>3. log.steps = DOMAIN log.claims
      <4>1. log.steps \subseteq DOMAIN log.claims
        BY <1>1 DEF Agreed, Numbered
      <4>2. \A k \in DOMAIN log.claims : k \in log.steps
        BY <3>1 DEF Complete, Done
      <4> QED
        BY <4>1, <4>2
    <3>4. \A k \in DOMAIN log.claims : Recited(k, ClaimMsgs(log.claims[k]))
      BY <1>1, <3>1, CompleteRecited
    <3> QED
      BY <3>2, <3>3, <3>4
  <2> QED
    BY <2>1, <2>2 DEF TranscriptFollowsClaims
<1>2. Spec => [](Typed /\ Mail /\ Agreed /\ Recital)
  BY RecitalKept
<1> QED
  BY <1>1, <1>2, PTL
=============================================================================
