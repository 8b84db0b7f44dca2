-------------------------- MODULE AgentScope_proof --------------------------
(* Proof that the driver of AgentSession works in the turn and the step the log has
   open, and that turns and steps nest in the log, whatever was torn, repaired,
   stopped or resumed before.

   The inductive invariant is ScopeInv, next to those of AgentSession_proof and
   AgentBatch_proof.  Positions says where the log stands: a claim whose batch was
   torn finds the scope its boundaries expect, and so do the boundaries still to be
   written.  InScope says where the batch in hand takes the log: to the scope of a
   driver at work, and to no scope when the driver is parked. *)
EXTENDS AgentBatch_proof

(* ------------------------------- invariants ------------------------------- *)

\* The turn and the step that are open.
Stands(t, s) == log.live.turn = t /\ log.live.step = s

\* A claim without its turn finds no turn open, one without its step no step.
Expects(c, k) ==
  /\ k \in log.steps => (c.start => k \in log.turns)
  /\ k \notin log.steps => Stands(IF c.start /\ k \notin log.turns THEN 0 ELSE c.turn, 0)

\* What the boundaries of a batch expect when they are written.
Heeds(p) ==
  \A e \in Range(p) :
    /\ e.type = "StepInputClaim" => Stands(IF e.claim.start THEN 0 ELSE e.claim.turn, 0)
    /\ e.type = "StepStart" => (Begun(p).start => e.id \in log.turns \/ Opens(p, e.id))

Positions ==
  /\ log.live.turn # 0 => log.open.turn = log.live.turn
  /\ log.live.turn = 0 => log.live.step = 0
  /\ Len(log.claims) # 0 => Expects(log.claims[Len(log.claims)], Len(log.claims))
  /\ Heeds(pending)

\* The batch takes the log to the scope s,
Lands(p, s) ==
  /\ \A e \in Range(p) :
       /\ e.type \notin {"TurnEnd", "SessionResumed"}
       /\ e.type = "TurnStart" => s.turn = e.id
       /\ e.type = "StepStart" => s.step = e.id
       /\ e.type = "StepEnd" => s.step = 0
  /\ Has(p, "TurnStart") \/ s.turn = log.live.turn
  /\ Has(p, "StepStart") \/ Has(p, "StepEnd") \/ s.step = log.live.step

\* or to none.
LandsNowhere(p) ==
  /\ \A e \in Range(p) : e.type \notin {"TurnStart", "StepStart"}
  /\ Has(p, "TurnEnd") \/ Has(p, "SessionResumed") \/ log.live.turn = 0

\* A driver at stage t with the scope s, and the batch p in hand.
Walks(p, s, t) ==
  /\ t \in Working \cup Waiting => Lands(p, s)
  /\ t = "parked" /\ ~loading => LandsNowhere(p)
  /\ t \in {"settled", "hooked", "continuing"} => s.step = 0
  /\ t \in {"detached", "parked"} \cup Closing => s = NoScope
  /\ loading => t = "detached"

InScope == Walks(pending, scope, stage)

ScopeInv == Positions /\ InScope

(* ---------------------------- how the log moves --------------------------- *)

\* What an event does to the scope that is open.
LEMMA LiveMoves ==
  ASSUME Typed, NEW e \in Events,
         ApplyInbox(e) \/ ApplyBoundary(e) \/ ApplyUserMessage(e) \/ ApplyStatus(e)
  PROVE  /\ e.type = "TurnStart" =>
              log'.live.turn = e.id /\ log'.open.turn = e.id /\ log'.live.step = log.live.step
         /\ e.type = "StepStart" =>
              /\ log'.live.step = e.id /\ log'.live.turn = log.live.turn
              /\ log'.open.turn = log.open.turn
         /\ e.type = "StepEnd" =>
              /\ log'.live.step = 0 /\ log'.live.turn = log.live.turn
              /\ log'.open.turn = log.open.turn
         /\ e.type \in {"TurnEnd", "SessionResumed"} => log'.live.turn = 0 /\ log'.live.step = 0
         /\ e.type \notin {"TurnStart", "StepStart", "StepEnd", "TurnEnd", "SessionResumed"} =>
              log'.live = log.live /\ log'.open = log.open
<1>1. log \in Logs
  BY TypedBox
<1>2. CASE ApplyInbox(e) \/ ApplyUserMessage(e)
  BY <1>2 DEF ApplyInbox, ApplyUserMessage
<1>3. CASE ApplyStatus(e)
  <2>1. CASE e.type = "SessionResumed"
    <3>1. log' = [log EXCEPT !.live = NoScope, !.answer = "none", !.usage = FALSE]
      BY <1>3, <2>1 DEF ApplyStatus
    <3> QED
      BY <1>1, <2>1, <3>1 DEF Logs, NoScope
  <2>2. CASE e.type # "SessionResumed"
    <3>1. log' = log /\ e.type \in {"AgentStatus", "SessionEnded", "Rename"}
      BY <1>3, <2>2 DEF ApplyStatus
    <3> QED
      BY <3>1
  <2> QED
    BY <2>1, <2>2
<1>4. CASE ApplyBoundary(e)
  <2>1. CASE e.type = "StepInputClaim"
    <3>1. log' = [log EXCEPT !.claims = Append(@, e.claim)]
      BY <1>4, <2>1 DEF ApplyBoundary
    <3> QED
      BY <1>1, <2>1, <3>1 DEF Logs
  <2>2. CASE e.type = "TurnStart"
    <3>1. log' = TurnOpened(log, e.id)
      BY <1>4, <2>2 DEF ApplyBoundary, TurnOpened
    <3> QED
      BY <1>1, <2>2, <3>1 DEF Logs, Scopes, TurnOpened
  <2>3. CASE e.type = "StepStart"
    <3>1. log' = [log EXCEPT !.steps = @ \cup {e.id}, !.open.step = e.id, !.live.step = e.id,
                             !.answer = "none", !.usage = FALSE]
      BY <1>4, <2>3 DEF ApplyBoundary
    <3>2. log' = StepOpened(log, e.id)
      BY <3>1, Zenon DEF StepOpened
    <3> QED
      BY <1>1, <2>3, <3>2 DEF Logs, Scopes, StepOpened
  <2>4. CASE e.type = "StepEnd"
    <3>1. log' = [log EXCEPT !.open.step = 0, !.live.step = 0]
      BY <1>4, <2>4 DEF ApplyBoundary
    <3> QED
      BY <1>1, <2>4, <3>1 DEF Logs, Scopes
  <2>5. CASE e.type = "TurnEnd"
    <3>1. log' = [log EXCEPT !.open = NoScope, !.live = NoScope, !.answer = "none",
                             !.usage = FALSE]
      BY <1>4, <2>5 DEF ApplyBoundary
    <3> QED
      BY <1>1, <2>5, <3>1 DEF Logs, NoScope
  <2>6. CASE e.type \in {"AssistantMessage", "RequestUsage"}
    <3>1. log' = [log EXCEPT !.answer = e.answer] \/ log' = [log EXCEPT !.usage = TRUE]
      BY <1>4, <2>6 DEF ApplyBoundary
    <3> QED
      BY <1>1, <2>6, <3>1 DEF Logs
  <2> QED
    BY <1>4, <2>1, <2>2, <2>3, <2>4, <2>5, <2>6 DEF ApplyBoundary
<1> QED
  BY <1>2, <1>3, <1>4

\* An event that is no boundary of a claim leaves claims, turns and steps alone.
LEMMA RecordStays ==
  ASSUME Typed, NEW e \in Events,
         ApplyInbox(e) \/ ApplyBoundary(e) \/ ApplyUserMessage(e) \/ ApplyStatus(e),
         e.type \notin {"StepInputClaim", "TurnStart", "StepStart"}
  PROVE  log'.claims = log.claims /\ log'.turns = log.turns /\ log'.steps = log.steps
<1>1. CASE ApplyInbox(e) \/ ApplyUserMessage(e)
  BY <1>1 DEF ApplyInbox, ApplyUserMessage
<1>2. CASE ApplyBoundary(e) \/ ApplyStatus(e)
  <2>1. e.type \notin ClaimTypes
    BY <1>2 DEF ApplyBoundary, ApplyStatus, ClaimTypes
  <2> QED
    BY <1>2, <2>1, LogMoves
<1> QED
  BY <1>1, <1>2

(* ----------------------- a boundary reaches the log ----------------------- *)

\* Where a boundary at the head of the batch finds the log.
LEMMA HeadStands ==
  ASSUME Typed, Mail, Agreed, Positions, WriteEvent, NEW e, e = Head(pending),
         NEW n, n = Len(log.claims), NEW c, c = log.claims[n]
  PROVE  /\ e.type = "TurnStart" => /\ Stands(0, 0) /\ e.id = n /\ n # 0 /\ n \notin log.steps
                                    /\ c.start /\ c.turn = n
         /\ e.type = "StepStart" => /\ Stands(c.turn, 0) /\ e.id = n /\ n # 0 /\ c.turn # 0
                                    /\ c.start => n \in log.turns
<1>1. /\ e \in Range(pending) /\ pending \in Seq(Events) /\ e \in Events /\ pending # <<>>
      /\ Range(pending) = {e} \cup Range(pending') /\ pending' = Tail(pending)
      /\ \A f \in Range(pending') : f \in Events /\ f.type # "StepInputClaim"
  BY HeadWritten
<1>2. n \in Nat /\ DOMAIN log.claims = 1..n
  BY TypedBox DEF Logs
<1>3. ASSUME e.type \in {"TurnStart", "StepStart"}
      PROVE  /\ Nr(pending) = n /\ Begun(pending) = c /\ n # 0 /\ e.id = n /\ c \in Claims
             /\ Expects(c, n) /\ (c.start => c.turn = n)
  <2>1. ~Opening(pending)
    BY <1>1, <1>3 DEF Opening
  <2>2. Nr(pending) = n /\ Begun(pending) = c
    BY <2>1 DEF Nr, Begun
  <2>3. e.id = n /\ n # 0
    BY <1>1, <1>3, <2>2 DEF Agreed, Agrees, Numbers
  <2>4. n \in DOMAIN log.claims
    BY <1>2, <2>3
  <2> QED
    BY <2>2, <2>3, <2>4, TypedBox DEF Agreed, Numbered, Positions
<1>4. ASSUME e.type = "TurnStart"
      PROVE  Stands(0, 0) /\ n \notin log.steps /\ c.start
  <2>1. e.id \notin log.turns /\ c.start
    BY <1>1, <1>3, <1>4 DEF Agreed, Agrees, Numbers
  <2>2. n \notin log.steps
    BY <1>3, <1>4, <2>1 DEF Expects
  <2> QED
    BY <1>3, <1>4, <2>1, <2>2 DEF Expects
<1>5. ASSUME e.type = "StepStart"
      PROVE  /\ Stands(c.turn, 0) /\ c.turn # 0
             /\ c.start => n \in log.turns
  <2>1. e.id \notin log.steps
    BY <1>1, <1>5 DEF Agreed, Agrees, Numbers
  <2>2. ~Opens(pending, e.id)
    <3>1. ASSUME NEW f \in Range(pending'), f.type = "TurnStart"
          PROVE  FALSE
      <4>1. Before(e, f)
        BY <1>1, <3>1, SortedTail DEF Agreed, Agrees
      <4>2. Place(e) = 5 /\ Place(f) = 3
        BY <1>5, <3>1 DEF Place, SoloTypes
      <4> QED
        BY <4>1, <4>2 DEF Before
    <3> QED
      BY <1>1, <1>5, <3>1 DEF Opens
  <2>3. c.start => n \in log.turns
    BY <1>1, <1>3, <1>5, <2>2 DEF Positions, Heeds
  <2>4. c.turn # 0
    <3>1. c.turn \in 1..MaxSteps
      BY <1>3, <1>5 DEF Claims
    <3> QED
      BY <3>1, Bounds
  <2> QED
    BY <1>3, <1>5, <2>1, <2>3, <2>4 DEF Expects
<1> QED
  BY <1>3, <1>4, <1>5

\* The rest of a batch finds what it expects.
LEMMA HeedsWrite ==
  ASSUME Typed, Mail, Agreed, Positions, WriteEvent
  PROVE  Heeds(pending)'
<1>1. PICK e : e = Head(pending)
  OBVIOUS
<1>2. /\ e \in Range(pending) /\ e \in Events /\ Range(pending) = {e} \cup Range(pending')
      /\ ApplyInbox(e) \/ ApplyBoundary(e) \/ ApplyUserMessage(e) \/ ApplyStatus(e)
      /\ \A f \in Range(pending') :
           f.type # "StepInputClaim" /\ (f.type \in ClaimTypes <=> e.type \in ClaimTypes)
  BY <1>1, HeadWritten
<1>3. ASSUME NEW f \in Range(pending'), f.type = "StepStart", Begun(pending)'.start
      PROVE  f.id \in log'.turns \/ Opens(pending', f.id)
  <2>1. e.type \in ClaimTypes
    BY <1>2, <1>3 DEF ClaimTypes
  <2>2. Begun(pending).start /\ Claiming(e)
    BY <1>1, <1>3, <2>1, NumberStays
  <2>3. f.id \in log.turns \/ Opens(pending, f.id)
    BY <1>2, <1>3, <2>2 DEF Positions, Heeds
  <2>4. log.turns \subseteq log'.turns /\ (e.type = "TurnStart" => e.id \in log'.turns)
    BY <2>2 DEF Claiming
  <2>5. Opens(pending, f.id) => Opens(pending', f.id) \/ (e.type = "TurnStart" /\ e.id = f.id)
    BY <1>2 DEF Opens
  <2> QED
    BY <2>3, <2>4, <2>5
<1> QED
  BY <1>2, <1>3 DEF Heeds, Opens

\* An event of a batch leaves the log where the next claim or boundary expects it.
LEMMA PositionsWrite ==
  ASSUME Typed, Mail, Agreed, Positions, WriteEvent
  PROVE  Positions'
<1>1. PICK e, n, c : e = Head(pending) /\ n = Len(log.claims) /\ c = log.claims[n]
  OBVIOUS
<1>2. /\ e \in Range(pending) /\ e \in Events
      /\ ApplyInbox(e) \/ ApplyBoundary(e) \/ ApplyUserMessage(e) \/ ApplyStatus(e)
      /\ e.type \notin ClaimTypes => Complete
  BY <1>1, HeadWritten
<1>3. Heeds(pending)'
  BY HeedsWrite
<1>4. n \in Nat /\ DOMAIN log.claims = 1..n
  BY <1>1, TypedBox DEF Logs
<1>5. CASE e.type = "StepInputClaim"
  <2>1. /\ log'.claims[NextStepId] = e.claim /\ Len(log'.claims) = NextStepId /\ Claiming(e)
    BY <1>1, <1>5, NumberStays DEF ClaimTypes
  <2>2. log'.live = log.live /\ log'.open = log.open
    BY <1>2, <1>5, LiveMoves
  <2>3. log'.turns = log.turns /\ log'.steps = log.steps
    BY <1>5, <2>1 DEF Claiming
  <2>4. Stands(IF e.claim.start THEN 0 ELSE e.claim.turn, 0)
    BY <1>2, <1>5 DEF Positions, Heeds
  <2>5. PICK k, d : k = NextStepId /\ d = e.claim
    OBVIOUS
  <2>6. k \notin log.turns /\ k \notin log.steps
    BY <2>5, NewNumber
  <2>7. Expects(d, k)'
    BY <2>2, <2>3, <2>4, <2>5, <2>6 DEF Expects, Stands
  <2>8. Expects(log.claims[Len(log.claims)], Len(log.claims))'
    BY <2>1, <2>5, <2>7 DEF Expects, Stands
  <2> QED
    BY <1>3, <2>2, <2>8 DEF Positions
<1>6. CASE e.type = "TurnStart"
  <2>1. /\ Stands(0, 0) /\ e.id = n /\ n # 0 /\ n \notin log.steps /\ c.start /\ c.turn = n
    BY <1>1, <1>6, HeadStands
  <2>2. /\ log'.live.turn = e.id /\ log'.open.turn = e.id /\ log'.live.step = log.live.step
    BY <1>2, <1>6, LiveMoves
  <2>3. Claiming(e) /\ log'.claims = log.claims
    BY <1>1, <1>6, NumberStays DEF ClaimTypes
  <2>4. log'.turns = log.turns \cup {e.id} /\ log'.steps = log.steps
    BY <1>6, <2>3 DEF Claiming
  <2>5. Expects(c, n)'
    BY <2>1, <2>2, <2>4 DEF Expects, Stands
  <2> QED
    BY <1>1, <1>3, <2>1, <2>2, <2>3, <2>5 DEF Positions, Expects, Stands
<1>7. CASE e.type = "StepStart"
  <2>1. /\ Stands(c.turn, 0) /\ e.id = n /\ n # 0 /\ c.turn # 0
        /\ c.start => n \in log.turns
    BY <1>1, <1>7, HeadStands
  <2>2. /\ log'.live.turn = log.live.turn /\ log'.open.turn = log.open.turn
    BY <1>2, <1>7, LiveMoves
  <2>3. Claiming(e) /\ log'.claims = log.claims
    BY <1>1, <1>7, NumberStays DEF ClaimTypes
  <2>4. log'.turns = log.turns /\ log'.steps = log.steps \cup {e.id}
    BY <1>7, <2>3 DEF Claiming
  <2>5. Expects(c, n)'
    BY <2>1, <2>2, <2>4 DEF Expects, Stands
  <2> QED
    BY <1>1, <1>3, <2>1, <2>2, <2>3, <2>5 DEF Positions, Expects, Stands
<1>8. CASE e.type \notin {"StepInputClaim", "TurnStart", "StepStart"}
  <2>1. log'.claims = log.claims /\ log'.turns = log.turns /\ log'.steps = log.steps
    BY <1>2, <1>8, RecordStays
  <2>2. CASE e.type \in {"StepEnd", "TurnEnd", "SessionResumed"}
    <3>1. n # 0 => n \in log.steps
      BY <1>1, <1>2, <1>4, <2>2 DEF ClaimTypes, Complete, Done
    <3>2. n # 0 => Expects(c, n)'
      BY <1>1, <2>1, <3>1 DEF Positions, Expects
    <3>3. /\ log'.live.turn # 0 => log'.open.turn = log'.live.turn
          /\ log'.live.turn = 0 => log'.live.step = 0
      BY <1>2, <2>2, LiveMoves DEF Positions
    <3> QED
      BY <1>1, <1>3, <2>1, <3>2, <3>3 DEF Positions, Expects, Stands
  <2>3. CASE e.type \notin {"StepEnd", "TurnEnd", "SessionResumed"}
    <3>1. log'.live = log.live /\ log'.open = log.open
      BY <1>2, <1>8, <2>3, LiveMoves
    <3> QED
      BY <1>3, <2>1, <3>1 DEF Positions, Expects, Stands
  <2> QED
    BY <2>2, <2>3
<1> QED
  BY <1>5, <1>6, <1>7, <1>8

\* The rest of a batch takes the log where the whole batch did.
LEMMA InScopeWrite ==
  ASSUME Typed, Mail, Agreed, ScopeInv, WriteEvent
  PROVE  InScope'
<1>1. PICK e : e = Head(pending)
  OBVIOUS
<1>2. /\ e \in Range(pending) /\ e \in Events /\ Range(pending) = {e} \cup Range(pending')
      /\ ApplyInbox(e) \/ ApplyBoundary(e) \/ ApplyUserMessage(e) \/ ApplyStatus(e)
  BY <1>1, HeadWritten
<1>3. UNCHANGED <<stage, scope, loading>>
  BY DEF WriteEvent, driver
<1>4. ASSUME Lands(pending, scope)
      PROVE  Lands(pending, scope)'
  <2>1. \A f \in Range(pending') :
          /\ f.type \notin {"TurnEnd", "SessionResumed"}
          /\ f.type = "TurnStart" => scope.turn = f.id
          /\ f.type = "StepStart" => scope.step = f.id
          /\ f.type = "StepEnd" => scope.step = 0
    BY <1>2, <1>4 DEF Lands
  <2>2. Has(pending', "TurnStart") \/ scope.turn = log'.live.turn
    BY <1>2, <1>4, LiveMoves DEF Lands, Has
  <2>3. Has(pending', "StepStart") \/ Has(pending', "StepEnd") \/ scope.step = log'.live.step
    BY <1>2, <1>4, LiveMoves DEF Lands, Has
  <2> QED
    BY <1>3, <2>1, <2>2, <2>3 DEF Lands, Has
<1>5. ASSUME LandsNowhere(pending)
      PROVE  LandsNowhere(pending)'
  <2>1. Has(pending', "TurnEnd") \/ Has(pending', "SessionResumed") \/ log'.live.turn = 0
    BY <1>2, <1>5, LiveMoves DEF LandsNowhere, Has
  <2> QED
    BY <1>2, <1>5, <2>1 DEF LandsNowhere, Has
<1> QED
  BY <1>3, <1>4, <1>5 DEF ScopeInv, InScope, Walks

(* --------------------- what the operations hand over ---------------------- *)

\* An operation that writes a batch leading where it takes the driver.
LEMMA Taken ==
  ASSUME Positions, NEW p, Write(p), Heeds(p), NEW s, scope' = s, NEW t, stage' = t, Walks(p, s, t)
  PROVE  ScopeInv'
<1>1. log' = log /\ pending' = p /\ loading' = loading
  BY DEF Write, durable
<1>2. Heeds(pending)'
  <2>1. Begun(pending)' = Begun(p)
    BY <1>1 DEF Begun, Opening
  <2> QED
    BY <1>1, <2>1 DEF Heeds, Stands, Opens
<1>3. Expects(log.claims[Len(log.claims)], Len(log.claims))'
        <=> Expects(log.claims[Len(log.claims)], Len(log.claims))
  BY <1>1 DEF Expects, Stands
<1>4. Positions'
  BY <1>1, <1>2, <1>3 DEF Positions
<1>5. InScope'
  BY <1>1 DEF InScope, Walks, Lands, LandsNowhere, Has
<1> QED
  BY <1>4, <1>5 DEF ScopeInv

\* A batch without a claim or the start of a step expects nothing.
Unclaimed(p) == \A e \in Range(p) : e.type \notin {"StepInputClaim", "TurnStart", "StepStart"}

\* A batch that opens or closes nothing stays in the scope.
Stays(p) == /\ Unclaimed(p)
            /\ \A e \in Range(p) : e.type \notin {"StepEnd", "TurnEnd", "SessionResumed"}

\* Where a Session that serves finds the driver.
LEMMA ServingScope ==
  ASSUME Typed, ScopeInv, Serving
  PROVE  /\ Positions
         /\ stage \in Working \cup Waiting =>
              scope.turn = log.live.turn /\ scope.step = log.live.step /\ scope.turn # 0
         /\ stage = "parked" => Stands(0, 0)
         /\ stage \in {"settled", "hooked", "continuing"} => scope.step = 0
         /\ stage \in {"detached", "parked"} \cup Closing => scope = NoScope
<1>1. pending = <<>> /\ ~loading
  BY DEF Serving
<1>2. \A type : ~Has(pending, type)
  BY <1>1 DEF Has, Range
<1> QED
  BY <1>1, <1>2 DEF ScopeInv, InScope, Walks, Lands, LandsNowhere, Positions, Stands, Typed

\* The driver comes to rest outside its turn,
LEMMA RestsApart ==
  ASSUME Typed, ScopeInv, Serving, NEW p, Write(p), Unclaimed(p),
         stage' \in {"detached", "failed"} \cup Closing,
         stage' = "failed" \/ scope' = NoScope
  PROVE  ScopeInv'
<1>1. PICK s, t : s = scope' /\ t = stage'
  OBVIOUS
<1>2. Heeds(p)
  BY DEF Unclaimed, Heeds
<1>3. Walks(p, s, t)
  BY <1>1, StageNames DEF Walks, Serving, Resting, Closing, Working, Waiting
<1> QED
  BY <1>1, <1>2, <1>3, ServingScope, Taken

\* or parks, with the turn closed,
LEMMA Parks ==
  ASSUME Typed, ScopeInv, Serving, NEW p, Write(p), Unclaimed(p), stage' = "parked",
         scope' = NoScope, Has(p, "TurnEnd") \/ log.live.turn = 0
  PROVE  ScopeInv'
<1>1. PICK s, t : s = scope' /\ t = stage'
  OBVIOUS
<1>2. Heeds(p)
  BY DEF Unclaimed, Heeds
<1>3. Walks(p, s, t)
  BY <1>1, <1>2 DEF Walks, Unclaimed, LandsNowhere, Serving, Closing, Working, Waiting
<1> QED
  BY <1>1, <1>2, <1>3, ServingScope, Taken

\* or goes on where it is,
LEMMA GoesOn ==
  ASSUME Typed, ScopeInv, Serving, NEW p, Write(p), Stays(p),
         stage' \in Working \cup Waiting, scope'.turn = log.live.turn, scope'.step = log.live.step,
         stage' \in {"settled", "hooked", "continuing"} => scope'.step = 0
  PROVE  ScopeInv'
<1>1. PICK s, t : s = scope' /\ t = stage'
  OBVIOUS
<1>2. Heeds(p)
  BY DEF Stays, Unclaimed, Heeds
<1>3. Lands(p, s)
  BY <1>1 DEF Lands, Stays, Unclaimed
<1>4. Walks(p, s, t)
  BY <1>1, <1>3 DEF Walks, Serving, Closing, Working, Waiting
<1> QED
  BY <1>1, <1>2, <1>4, ServingScope, Taken

\* or with the step ended.
LEMMA EndsStep ==
  ASSUME Typed, ScopeInv, Serving, NEW p, Write(p), Unclaimed(p),
         \A e \in Range(p) : e.type \notin {"TurnEnd", "SessionResumed"},
         stage' \in Working \cup Waiting, scope'.turn = log.live.turn, scope'.step = 0,
         Has(p, "StepEnd") \/ log.live.step = 0
  PROVE  ScopeInv'
<1>1. PICK s, t : s = scope' /\ t = stage'
  OBVIOUS
<1>2. Heeds(p)
  BY DEF Unclaimed, Heeds
<1>3. Lands(p, s)
  BY <1>1 DEF Lands, Unclaimed
<1>4. Walks(p, s, t)
  BY <1>1, <1>3 DEF Walks, Serving, Closing, Working, Waiting
<1> QED
  BY <1>1, <1>2, <1>4, ServingScope, Taken

\* What concerns the inbox or the status alone leaves the driver where it is.
LEMMA Undisturbed ==
  ASSUME Typed, ScopeInv, Serving, NEW p, Write(p), Stays(p), UNCHANGED <<stage, scope>>
  PROVE  ScopeInv'
<1>1. PICK s, t : s = scope /\ t = stage
  OBVIOUS
<1>2. Heeds(p)
  BY DEF Stays, Unclaimed, Heeds
<1>3. t \in Working \cup Waiting => Lands(p, s)
  BY <1>1, ServingScope DEF Lands, Stays, Unclaimed
<1>4. t = "parked" => LandsNowhere(p)
  BY <1>1, ServingScope DEF LandsNowhere, Stays, Unclaimed, Stands
<1>5. Walks(p, s, t)
  BY <1>1, <1>3, <1>4, ServingScope DEF Walks, Serving
<1> QED
  BY <1>1, <1>2, <1>5, ServingScope, Taken

\* A batch that begins a step in the scope.
LEMMA Begins ==
  ASSUME Typed, ScopeInv, Serving, NEW p, Write(p), NEW k, NEW e0, NEW ct, NEW cs, NEW ts, NEW ss,
         ClaimBatch(p, k, e0, ct, cs, ts, ss), ss \in Range(p),
         e0.claim.start => ts \in Range(p) /\ Stands(0, 0) /\ scope'.turn = k,
         ~e0.claim.start => Stands(e0.claim.turn, 0) /\ scope'.turn = log.live.turn,
         scope'.step = k, stage' \in {"announcing", "stepping"}
  PROVE  ScopeInv'
<1>1. PICK s, t : s = scope' /\ t = stage'
  OBVIOUS
<1>2. /\ e0.type = "StepInputClaim" /\ ts.type = "TurnStart" /\ ts.id = k
      /\ ss.type = "StepStart" /\ ss.id = k /\ Head(p) = e0 /\ e0 \in Range(p)
      /\ ct.type = "Claimed" /\ cs.type = "Claimed"
      /\ \A e \in Range(p) : \/ e = e0 \/ e = ct \/ (e0.claim.start /\ e = ts) \/ e = cs \/ e = ss
                             \/ e.type = "UserMessage"
  BY DEF ClaimBatch
<1>3. Begun(p) = e0.claim
  BY <1>2 DEF Begun, Opening
<1>4. Heeds(p)
  <2>1. e0.claim.start => Opens(p, k)
    BY <1>2 DEF Opens
  <2> QED
    BY <1>2, <1>3, <2>1 DEF Heeds
<1>5. Lands(p, s)
  BY <1>1, <1>2 DEF Lands, Has
<1>6. Walks(p, s, t)
  BY <1>1, <1>5 DEF Walks, Serving, Closing, Working, Waiting
<1> QED
  BY <1>1, <1>4, <1>6, ServingScope, Taken

(* ------------------------- the batches without a claim -------------------- *)

\* Plain events begin nothing.
LEMMA PlainUnclaimed ==
  ASSUME NEW b \in Seq(Plain)
  PROVE  Unclaimed(b)
<1>1. \A i \in DOMAIN b : b[i] \in Plain
  OBVIOUS
<1>2. \A f \in Plain : f.type \notin {"StepInputClaim", "TurnStart", "StepStart"}
  BY DEF Plain, PlainTypes
<1> QED
  BY <1>1, <1>2 DEF Unclaimed, Range

\* The batches of a driver that goes on in its step, or waits in it,
LEMMA StayingBatches ==
  /\ Stays(<<>>) /\ Stays(<<Assistant("tools"), Usage>>)
  /\ \A s : Stays(<<Status(s)>>) /\ Stays(StatusIs(s))
  /\ \A e : e.type \in SoloTypes \ {"SessionResumed"} => Stays(<<e>>)
  /\ \A ids : Stays(<<Paused(ids)>>)
<1>1. \A e : Range(<<e>>) = {e}
  BY DEF Range
<1>2. Range(<<>>) = {}
  BY DEF Range
<1>3. Range(<<Assistant("tools"), Usage>>) = {Assistant("tools"), Usage}
  BY DEF Range
<1>4. /\ Assistant("tools").type = "AssistantMessage" /\ Usage.type = "RequestUsage"
      /\ \A s : Status(s).type = "AgentStatus"
      /\ \A ids : Paused(ids).type = "InboxPaused"
  BY DEF Assistant, Usage, Status, Paused
<1>5. Stays(<<>>)
  BY <1>2 DEF Stays, Unclaimed
<1>6. Stays(<<Assistant("tools"), Usage>>)
  BY <1>3, <1>4 DEF Stays, Unclaimed
<1>7. \A s : Stays(<<Status(s)>>)
  BY <1>1, <1>4 DEF Stays, Unclaimed
<1>8. \A s : Stays(StatusIs(s))
  BY <1>5, <1>7 DEF StatusIs, Opt
<1>9. ASSUME NEW e, e.type \in SoloTypes \ {"SessionResumed"}
      PROVE  Stays(<<e>>)
  <2>1. e.type \notin {"StepInputClaim", "TurnStart", "StepStart", "StepEnd", "TurnEnd",
                      "SessionResumed"}
    BY <1>9 DEF SoloTypes
  <2>2. \A f \in Range(<<e>>) : f = e
    BY <1>1
  <2> QED
    BY <2>1, <2>2 DEF Stays, Unclaimed
<1>10. \A ids : Stays(<<Paused(ids)>>)
  BY <1>1, <1>4 DEF Stays, Unclaimed
<1> QED
  BY <1>5, <1>6, <1>7, <1>8, <1>9, <1>10

\* A batch that ends the step and keeps the turn.
Ending(p) == /\ Unclaimed(p) /\ Has(p, "StepEnd")
             /\ \A e \in Range(p) : e.type \notin {"TurnEnd", "SessionResumed"}

\* and of one that ends its step.
LEMMA EndingBatches ==
  Ending(<<StepEnd>>) /\ Ending(<<Assistant("text"), Usage, StepEnd>>)
  /\ \A s : Ending(<<StepEnd, Status(s)>>)
<1>1. /\ Range(<<StepEnd>>) = {StepEnd}
      /\ Range(<<Assistant("text"), Usage, StepEnd>>) = {Assistant("text"), Usage, StepEnd}
      /\ \A s : Range(<<StepEnd, Status(s)>>) = {StepEnd, Status(s)}
  BY DEF Range
<1>2. /\ StepEnd.type = "StepEnd" /\ Assistant("text").type = "AssistantMessage"
      /\ Usage.type = "RequestUsage" /\ \A s : Status(s).type = "AgentStatus"
  BY DEF StepEnd, Assistant, Usage, Status
<1> QED
  BY <1>1, <1>2 DEF Ending, Unclaimed, Has

\* What closes an open turn ends it.
LEMMA ClosingBatches ==
  ASSUME Typed
  PROVE  /\ Has(<<TurnEnd>>, "TurnEnd")
         /\ \A s \in Scopes : s.turn # 0 => Has(CloseScope(s), "TurnEnd")
         /\ log.open.turn # 0 => Has(PauseBatch, "TurnEnd")
<1>1. Range(<<TurnEnd>>) = {TurnEnd} /\ TurnEnd.type = "TurnEnd" /\ TurnEnd \in Events
  BY PlainMade DEF Range, TurnEnd, Plain
<1>2. \A c \in BOOLEAN : Opt(c, StepEnd) \in Seq(Events)
  BY PlainMade DEF Plain, Opt
<1>3. <<TurnEnd>> \in Seq(Events)
  BY <1>1
<1>4. ASSUME NEW c \in BOOLEAN
      PROVE  /\ TurnEnd \in Range(Opt(c, StepEnd) \o <<TurnEnd>>)
             /\ Opt(c, StepEnd) \o <<TurnEnd>> \in Seq(Events)
  <2>1. PICK a, b : a = Opt(c, StepEnd) /\ b = <<TurnEnd>>
    OBVIOUS
  <2>2. a \in Seq(Events) /\ b \in Seq(Events) /\ TurnEnd \in Range(b)
    BY <1>1, <1>2, <1>3, <2>1
  <2>3. TurnEnd \in Range(a \o b) /\ a \o b \in Seq(Events)
    BY <2>2, JoinSeq
  <2> QED
    BY <2>1, <2>3
<1>5. \A s \in Scopes : s.turn # 0 => Has(CloseScope(s), "TurnEnd")
  BY <1>1, <1>4 DEF CloseScope, Has
<1>6. ASSUME log.open.turn # 0
      PROVE  Has(PauseBatch, "TurnEnd")
  <2>1. PICK a, b, c : /\ a = Opt(log.open.step # 0, StepEnd) \o <<TurnEnd>>
                       /\ b = Opt(Queued # {}, Paused(Queued)) /\ c = <<Status("Idle")>>
    OBVIOUS
  <2>2. PauseBatch = a \o b \o c
    BY <1>6, <2>1 DEF PauseBatch
  <2>3. Paused(Queued) \in Events /\ Status("Idle") \in Events
    <3>1. Queued \in SUBSET Msgs
      BY TypedBox
    <3> QED
      BY <3>1, PlainMade DEF Plain, Statuses
  <2>4. a \in Seq(Events) /\ TurnEnd \in Range(a)
    BY <1>4, <2>1
  <2>5. b \in Seq(Events) /\ c \in Seq(Events)
    BY <2>1, <2>3 DEF Opt
  <2>6. TurnEnd \in Range(a \o b \o c)
    <3>1. PICK d : d = a \o b
      OBVIOUS
    <3>2. d \in Seq(Events) /\ TurnEnd \in Range(d)
      BY <2>4, <2>5, <3>1, JoinSeq
    <3>3. TurnEnd \in Range(d \o c)
      BY <2>5, <3>2, JoinSeq
    <3> QED
      BY <3>1, <3>3
  <2> QED
    BY <1>1, <2>2, <2>6 DEF Has
<1> QED
  BY <1>1, <1>5, <1>6 DEF Has

(* ------------------------- the operations, in turn ------------------------ *)

\* What the user does to one message of the inbox, or to their order.
LEMMA InputScope ==
  ASSUME Typed, ScopeInv, NEW m \in Msgs, NEW lane \in Lanes,
         \/ \E held \in BOOLEAN, target \in {0} \cup log.turns : Submit(m, lane, held, target)
         \/ ResumeItem(m) \/ Steer(m) \/ Remove(lane, m)
         \/ \E order \in Arrangements : Reorder(lane, order)
  PROVE  ScopeInv'
<1>1. Serving /\ UNCHANGED <<stage, scope>>
  BY DEF Submit, ResumeItem, Steer, Remove, Reorder, driver
<1>2. \E e : e.type \in SoloTypes \ {"SessionResumed"} /\ Write(<<e>>)
  <2>1. ASSUME NEW held \in BOOLEAN, NEW target \in {0} \cup log.turns,
               Submit(m, lane, held, target)
        PROVE  \E e : e.type \in SoloTypes \ {"SessionResumed"} /\ Write(<<e>>)
    <3>1. Submission(m, lane, held, target).type \in SoloTypes \ {"SessionResumed"}
      BY DEF Submission, Enqueued, SoloTypes
    <3> QED
      BY <2>1, <3>1 DEF Submit
  <2>2. CASE ResumeItem(m)
    <3>1. Resumed(m).type \in SoloTypes \ {"SessionResumed"}
      BY DEF Resumed, SoloTypes
    <3> QED
      BY <2>2, <3>1 DEF ResumeItem
  <2>3. CASE Steer(m)
    <3>1. Steered(m).type \in SoloTypes \ {"SessionResumed"}
      BY DEF Steered, SoloTypes
    <3> QED
      BY <2>3, <3>1 DEF Steer
  <2>4. CASE Remove(lane, m)
    <3>1. Removed(lane, m).type \in SoloTypes \ {"SessionResumed"}
      BY DEF Removed, SoloTypes
    <3> QED
      BY <2>4, <3>1 DEF Remove
  <2>5. ASSUME NEW order \in Arrangements, Reorder(lane, order)
        PROVE  \E e : e.type \in SoloTypes \ {"SessionResumed"} /\ Write(<<e>>)
    <3>1. Reordered(lane, order).type \in SoloTypes \ {"SessionResumed"}
      BY DEF Reordered, SoloTypes
    <3> QED
      BY <2>5, <3>1 DEF Reorder
  <2> QED
    BY <2>1, <2>2, <2>3, <2>4, <2>5
<1>3. PICK e : e.type \in SoloTypes \ {"SessionResumed"} /\ Write(<<e>>)
  BY <1>2
<1>4. Stays(<<e>>)
  BY <1>3, StayingBatches
<1> QED
  BY <1>1, <1>3, <1>4, Undisturbed

\* The stops, of a driver or without one.
LEMMA StopScope ==
  ASSUME Typed, ScopeInv,
         \/ \E kind \in {"interrupt", "cancel"} : RequestStop(kind) \/ StopDetached(kind)
         \/ FinishStop \/ StopRefused \/ StopAtStep
  PROVE  ScopeInv'
<1>1. ASSUME NEW kind \in {"interrupt", "cancel"}, RequestStop(kind) \/ StopRefused
      PROVE  ScopeInv'
  <2>1. Serving /\ Write(<<>>) /\ UNCHANGED <<stage, scope>>
    BY <1>1 DEF RequestStop, StopRefused
  <2> QED
    BY <2>1, StayingBatches, Undisturbed
<1>2. ASSUME NEW kind \in {"interrupt", "cancel"}, StopDetached(kind) \/ FinishStop
      PROVE  ScopeInv'
  <2>1. Serving /\ stage' = "detached" /\ scope' = NoScope
    BY <1>2, ServingScope DEF StopDetached, FinishStop, driver
  <2>2. PICK k \in {"interrupt", "cancel"} : Write(StopBatch(k))
    <3>1. CASE StopDetached(kind)
      BY <3>1 DEF StopDetached
    <3>2. CASE FinishStop
      <4>1. halt \in {"interrupt", "cancel"}
        BY <3>2, DriverTypes DEF FinishStop
      <4> QED
        BY <3>2, <4>1 DEF FinishStop
    <3> QED
      BY <1>2, <3>1, <3>2
  <2>3. Unclaimed(StopBatch(k))
    BY PlainBatches, PlainUnclaimed
  <2> QED
    BY <2>1, <2>2, <2>3, RestsApart
<1>3. CASE StopAtStep
  <2>1. PICK p : p = CloseScope(scope)
    OBVIOUS
  <2>2. /\ Serving /\ Write(p) /\ stage' = "parked" /\ scope' = NoScope
        /\ stage \in Working \cup Waiting
    BY <1>3, <2>1 DEF StopAtStep
  <2>3. scope.turn # 0
    BY <2>2, ServingScope
  <2>4. Unclaimed(p) /\ Has(p, "TurnEnd")
    BY <2>1, <2>3, DriverTypes, PlainBatches, PlainUnclaimed, ClosingBatches
  <2> QED
    BY <2>2, <2>4, Parks
<1> QED
  BY <1>1, <1>2, <1>3

\* The Session is resumed, or archived.
LEMMA ResumeArchiveScope ==
  ASSUME Typed, ScopeInv, ResumeSession \/ Archive
  PROVE  ScopeInv'
<1>1. CASE ResumeSession
  <2>1. PICK p : p = <<SessionResumed>>
    OBVIOUS
  <2>2. Serving /\ Write(p) /\ stage' = "detached" /\ scope' = NoScope
    BY <1>1, <2>1 DEF ResumeSession
  <2>3. Unclaimed(p)
    BY <2>1 DEF Unclaimed, Range, SessionResumed
  <2> QED
    BY <2>2, <2>3, RestsApart
<1>2. CASE Archive
  <2>7. PICK a : a = (IF ended THEN <<>> ELSE <<Status("Completed"), SessionEnded("Completed")>>)
    OBVIOUS
  <2>8. PICK moved \in BOOLEAN :
          Write(a \o Opt(moved, Rename)) /\ stage' = IF moved THEN "detached" ELSE stage
    BY <1>2, <2>7 DEF Archive
  <2>9. PICK b : b = Opt(moved, Rename)
    OBVIOUS
  <2>1. Write(a \o b) /\ stage' \in {"detached", stage}
    BY <2>8, <2>9
  <2>2. Serving /\ scope' = scope /\ scope = NoScope /\ stage \in Resting
    BY <1>2 DEF Archive
  <2>3. PICK p : p = a \o b
    OBVIOUS
  <2>4. Stays(p)
    <3>1. Rename \in Events /\ Rename.type = "Rename"
      BY DEF Rename, Events
    <3>2. /\ Status("Completed") \in Events /\ SessionEnded("Completed") \in Events
          /\ Status("Completed").type = "AgentStatus"
          /\ SessionEnded("Completed").type = "SessionEnded"
      BY DEF Status, SessionEnded, Events, Statuses, Terminal
    <3>3. /\ a \in Seq(Events)
          /\ \A e \in Range(a) : e.type \in {"AgentStatus", "SessionEnded"}
      BY <2>7, <3>2 DEF Range
    <3>4. b \in Seq(Events) /\ \A e \in Range(b) : e.type = "Rename"
      BY <2>9, <3>1 DEF Opt, Range
    <3>5. Range(p) = Range(a) \cup Range(b)
      BY <2>3, <3>3, <3>4, JoinSeq
    <3> QED
      BY <3>3, <3>4, <3>5 DEF Stays, Unclaimed
  <2>5. CASE stage' = stage
    BY <2>1, <2>2, <2>3, <2>4, <2>5, Undisturbed
  <2>6. CASE stage' = "detached"
    BY <2>1, <2>2, <2>3, <2>4, <2>6, RestsApart DEF Stays
  <2> QED
    BY <2>1, <2>5, <2>6
<1> QED
  BY <1>1, <1>2

\* A driver takes over what the log left open.
LEMMA AttachScope ==
  ASSUME Typed, ScopeInv, Attach
  PROVE  ScopeInv'
<1>1. Serving
  BY DEF Attach
<1>2. CASE log.live.turn = 0 /\ Write(<<>>) /\ stage' = "parked" /\ scope' = NoScope
  <2>1. Unclaimed(<<>>)
    BY StayingBatches DEF Stays
  <2> QED
    BY <1>1, <1>2, <2>1, Parks
<1>3. CASE /\ Write(<<>>) /\ scope' = log.live
           /\ stage' \in {"stepping"} \cup Waiting
  <2>1. /\ stage' \in Working \cup Waiting
        /\ stage' \notin {"settled", "hooked", "continuing"}
    BY <1>3 DEF Working, Waiting
  <2> QED
    BY <1>1, <1>3, <2>1, StayingBatches, GoesOn
<1>4. CASE Write(CloseScope(log.live)) /\ stage' = "aborting" /\ scope' = NoScope
  <2>1. Unclaimed(CloseScope(log.live))
    BY DriverTypes, PlainBatches, PlainUnclaimed
  <2>2. stage' \in Closing
    BY <1>4 DEF Closing
  <2> QED
    BY <1>1, <1>4, <2>1, <2>2, RestsApart
<1>5. \/ log.live.turn = 0 /\ Write(<<>>) /\ stage' = "parked" /\ scope' = NoScope
      \/ Write(<<>>) /\ scope' = log.live /\ stage' \in {"stepping"} \cup Waiting
      \/ Write(CloseScope(log.live)) /\ stage' = "aborting" /\ scope' = NoScope
  BY DEF Attach, Waiting
<1> QED
  BY <1>2, <1>3, <1>4, <1>5

\* A driver goes on in its step, or waits in it.
LEMMA StayScope ==
  ASSUME Typed, ScopeInv, Announce \/ AnswerTools \/ ToolResolved \/ GoIdle
  PROVE  ScopeInv'
<1>1. Serving /\ scope' = scope
  BY DEF Announce, AnswerTools, ToolResolved, GoIdle, DriverIs
<1>2. PICK p : Write(p) /\ Stays(p)
  BY StayingBatches DEF Announce, AnswerTools, ToolResolved, GoIdle
<1>3. CASE GoIdle
  <2>1. stage' = stage
    BY <1>3 DEF GoIdle, DriverIs
  <2> QED
    BY <1>1, <1>2, <2>1, Undisturbed
<1>4. CASE Announce \/ AnswerTools \/ ToolResolved
  <2>1. stage \in {"announcing", "stepping", "waiting"} /\ stage' \in {"stepping", "tools"}
    BY <1>4 DEF Announce, AnswerTools, ToolResolved, DriverIs
  <2>2. stage \in Working \cup Waiting /\ stage' \in Working \cup Waiting
    BY <2>1 DEF Working, Waiting
  <2> QED
    BY <1>1, <1>2, <2>1, <2>2, ServingScope, GoesOn
<1> QED
  BY <1>3, <1>4

\* A driver ends its step, and keeps its turn.
LEMMA EndScope ==
  ASSUME Typed, ScopeInv, AnswerText \/ ToolsComplete \/ ToolsWait \/ ResumeRecovery
  PROVE  ScopeInv'
<1>1. Serving
  BY DEF AnswerText, ToolsComplete, ToolsWait, ResumeRecovery
<1>2. /\ stage \in {"stepping", "tools", "recovering"}
      /\ stage' \in {"settled", "continuing", "waiting"}
  BY DEF AnswerText, ToolsComplete, ToolsWait, ResumeRecovery
<1>3. stage \in Working \cup Waiting /\ stage' \in Working \cup Waiting
  BY <1>2 DEF Working, Waiting
<1>4. /\ scope.turn = log.live.turn /\ scope.step = log.live.step
      /\ ScopeStep(0).turn = scope.turn /\ ScopeStep(0).step = 0
  BY <1>1, <1>3, ServingScope, DriverTypes DEF ScopeStep, Scopes
<1>5. ASSUME NEW p, Write(p), Ending(p), scope' = ScopeStep(0)
      PROVE  ScopeInv'
  BY <1>1, <1>3, <1>4, <1>5, EndsStep DEF Ending
<1>6. CASE AnswerText \/ ToolsComplete
  <2>1. scope' = ScopeStep(0)
    BY <1>6 DEF AnswerText, ToolsComplete
  <2>2. PICK p : Write(p) /\ Ending(p)
    BY <1>6, EndingBatches DEF AnswerText, ToolsComplete
  <2> QED
    BY <1>5, <2>1, <2>2
<1>7. CASE ToolsWait
  <2>1. CASE Write(<<StepEnd, Status("Waiting")>>) /\ scope' = ScopeStep(0)
    BY <1>5, <2>1, EndingBatches
  <2>2. CASE Write(<<Status("Waiting")>>) /\ scope' = scope /\ stage' = "waiting"
    BY <1>1, <1>3, <1>4, <2>2, StayingBatches, GoesOn
  <2> QED
    BY <1>7, <2>1, <2>2 DEF ToolsWait
<1>8. CASE ResumeRecovery
  <2>1. scope' = ScopeStep(0)
    BY <1>8 DEF ResumeRecovery
  <2>2. CASE scope.step # 0
    <3>1. PICK p : p = <<StepEnd>> \o <<Status("Running")>>
      OBVIOUS
    <3>2. Opt(scope.step # 0, StepEnd) = <<StepEnd>>
      BY <2>2 DEF Opt
    <3>3. Write(p)
      BY <1>8, <3>1, <3>2 DEF ResumeRecovery
    <3>4. Range(p) = {StepEnd, Status("Running")}
      <4>1. StepEnd \in Events /\ Status("Running") \in Events
        BY PlainMade DEF Plain, Statuses
      <4>2. PICK a, b : a = <<StepEnd>> /\ b = <<Status("Running")>>
        OBVIOUS
      <4>3. /\ a \in Seq(Events) /\ b \in Seq(Events)
            /\ Range(a) = {StepEnd} /\ Range(b) = {Status("Running")}
        BY <4>1, <4>2, OneSeq
      <4>4. Range(a \o b) = Range(a) \cup Range(b)
        BY <4>3, JoinSeq
      <4> QED
        BY <3>1, <4>2, <4>3, <4>4
    <3>5. StepEnd.type = "StepEnd" /\ Status("Running").type = "AgentStatus"
      BY DEF StepEnd, Status
    <3>6. Ending(p)
      BY <3>4, <3>5 DEF Ending, Unclaimed, Has
    <3> QED
      BY <1>5, <2>1, <3>3, <3>6
  <2>3. CASE scope.step = 0
    <3>1. Opt(scope.step # 0, StepEnd) \o <<Status("Running")>> = <<Status("Running")>>
      BY <2>3 DEF Opt
    <3>2. Write(<<Status("Running")>>)
      BY <1>8, <3>1 DEF ResumeRecovery
    <3> QED
      BY <1>1, <1>3, <1>4, <2>1, <2>3, <3>2, StayingBatches, GoesOn
  <2> QED
    BY <2>2, <2>3
<1> QED
  BY <1>6, <1>7, <1>8

\* A driver gives up its turn, or the Session.
LEMMA GiveUpScope ==
  ASSUME Typed, ScopeInv,
         DriverPauses \/ FailTurn \/ Terminate \/ TurnLimitExceeded \/ DriverRejected
  PROVE  ScopeInv'
<1>1. Serving
  BY DEF DriverPauses, FailTurn, Terminate, TurnLimitExceeded, DriverRejected
<1>2. CASE DriverPauses
  <2>1. Write(PauseBatch) /\ stage' = "parked" /\ scope' = NoScope
    BY <1>2 DEF DriverPauses
  <2>2. Unclaimed(PauseBatch)
    BY PlainBatches, PlainUnclaimed
  <2>3. Has(PauseBatch, "TurnEnd") \/ log.live.turn = 0
    BY <1>1, ClosingBatches, ServingScope DEF Positions
  <2> QED
    BY <1>1, <2>1, <2>2, <2>3, Parks
<1>3. CASE FailTurn
  <2>1. PICK p : p = CloseScope(scope)
    OBVIOUS
  <2>2. /\ Write(p) /\ stage' \in {"failing", "parked"} /\ scope' = NoScope /\ stage \in Working
    BY <1>3, <2>1 DEF FailTurn
  <2>3. scope.turn # 0
    BY <1>1, <2>2, ServingScope
  <2>4. Unclaimed(p) /\ Has(p, "TurnEnd")
    BY <2>1, <2>3, DriverTypes, PlainBatches, PlainUnclaimed, ClosingBatches
  <2>5. CASE stage' = "parked"
    BY <1>1, <2>2, <2>4, <2>5, Parks
  <2>6. CASE stage' = "failing"
    BY <1>1, <2>2, <2>4, <2>6, RestsApart DEF Closing
  <2> QED
    BY <2>2, <2>5, <2>6
<1>4. CASE Terminate \/ TurnLimitExceeded
  <2>1. Write(TerminateBatch) /\ scope' = scope
    BY <1>4 DEF Terminate, TurnLimitExceeded, DriverIs
  <2>2. Unclaimed(TerminateBatch)
    BY PlainBatches, PlainUnclaimed
  <2>3. stage' \in {"failed", "detached"} /\ scope = NoScope
    BY <1>1, <1>4, ServingScope DEF Terminate, TurnLimitExceeded, DriverIs
  <2> QED
    BY <1>1, <2>1, <2>2, <2>3, RestsApart
<1>5. CASE DriverRejected
  <2>1. Write(<<>>) /\ scope' = scope /\ stage' = IF stage = "aborting" THEN "detached" ELSE "failed"
    BY <1>5 DEF DriverRejected, DriverIs
  <2>2. Unclaimed(<<>>)
    BY StayingBatches DEF Stays
  <2>3. stage = "aborting" => scope = NoScope
    BY <1>1, ServingScope DEF Closing
  <2> QED
    BY <1>1, <2>1, <2>2, <2>3, RestsApart
<1> QED
  BY <1>2, <1>3, <1>4, <1>5

\* A turn begins, goes on or ends.
LEMMA TurnScope ==
  ASSUME Typed, Agreed, ScopeInv,
         BeginTurn \/ EndTurnIfNoStepInput \/ BeginStepOrEndTurn \/ BeginContinuationStep
  PROVE  ScopeInv'
<1>1. Serving
  BY DEF BeginTurn, EndTurnIfNoStepInput, BeginStepOrEndTurn, BeginContinuationStep
<1>2. CASE BeginTurn
  <2>1. stage = "parked" /\ stage' = "announcing"
        /\ scope' = [turn |-> NextStepId, step |-> NextStepId]
    BY <1>2 DEF BeginTurn
  <2>2. PICK p, e0, ct, cs, ts, ss :
          /\ Write(p) /\ ClaimBatch(p, NextStepId, e0, ct, cs, ts, ss) /\ e0.claim.start
          /\ ts \in Range(p) /\ ss \in Range(p)
    BY <1>2, BeginTurnWrites
  <2>3. Stands(0, 0) /\ scope'.turn = NextStepId /\ scope'.step = NextStepId
    BY <1>1, <2>1, ServingScope
  <2> QED
    BY <1>1, <2>1, <2>2, <2>3, Begins
<1>3. CASE Write(<<TurnEnd>>) /\ stage' = "parked" /\ scope' = NoScope
  <2>1. Unclaimed(<<TurnEnd>>) /\ Has(<<TurnEnd>>, "TurnEnd")
    BY PlainBatches, PlainUnclaimed, ClosingBatches
  <2> QED
    BY <1>1, <1>3, <2>1, Parks
<1>4. CASE Write(<<>>) /\ stage = "settled" /\ stage' = "hooked" /\ scope' = scope
  <2>1. /\ stage \in Working \cup Waiting /\ stage' \in Working \cup Waiting
        /\ stage \in {"settled", "hooked", "continuing"}
    BY <1>4 DEF Working
  <2> QED
    BY <1>1, <1>4, <2>1, StayingBatches, ServingScope, GoesOn
<1>5. ASSUME NEW sq \in StepClaims, NextStep(sq), stage \in {"hooked", "continuing"}
      PROVE  ScopeInv'
  <2>1. /\ stage \in Working \cup Waiting /\ stage' = "stepping"
        /\ scope' = ScopeStep(NextStepId) /\ NextStepId <= MaxSteps
    BY <1>5 DEF Working, NextStep
  <2>2. NextStepId \in 1..MaxSteps /\ scope.turn \in 1..MaxSteps
    BY <2>1, TypedBox, Bounds, DriverTypes DEF NextStepId, Logs
  <2>3. PICK p, e0, ct, cs, ts, ss :
          /\ Write(p) /\ ClaimBatch(p, NextStepId, e0, ct, cs, ts, ss)
          /\ ~e0.claim.start /\ e0.claim.turn = scope.turn /\ ss \in Range(p)
    BY <1>5, <2>2, NextStepWrites
  <2>4. scope'.turn = scope.turn /\ scope'.step = NextStepId
    BY <2>1, <2>2, DriverTypes DEF ScopeStep, Scopes
  <2>5. Stands(scope.turn, 0) /\ scope.turn = log.live.turn
    BY <1>1, <1>5, <2>1, ServingScope DEF Stands
  <2> QED
    BY <1>1, <2>1, <2>3, <2>4, <2>5, Begins
<1>6. CASE EndTurnIfNoStepInput
  BY <1>3, <1>4, <1>6 DEF EndTurnIfNoStepInput
<1>7. CASE BeginStepOrEndTurn
  BY <1>3, <1>5, <1>7 DEF BeginStepOrEndTurn
<1>8. CASE BeginContinuationStep
  BY <1>5, <1>8 DEF BeginContinuationStep
<1> QED
  BY <1>2, <1>6, <1>7, <1>8

\* A crash leaves a torn batch where it stood; what is restored is repaired and paused.
LEMMA RestartScope ==
  ASSUME Typed, Mail, Agreed, ScopeInv, RestartStep \/ Crash
  PROVE  ScopeInv'
<1>1. ASSUME loading, NEW p, Write(p), Heeds(p), UNCHANGED driver
      PROVE  ScopeInv'
  <2>1. PICK s, t : s = scope /\ t = stage
    OBVIOUS
  <2>2. t = "detached" /\ s = NoScope
    BY <1>1, <2>1 DEF ScopeInv, InScope, Walks
  <2>3. Walks(p, s, t)
    BY <2>2 DEF Walks, Working, Waiting, Closing
  <2> QED
    BY <1>1, <2>1, <2>3, Taken DEF ScopeInv, driver
<1>2. CASE RepairClaims
  <2>1. PICK p, k, c, ct, cs, ts, ss :
          /\ Write(p) /\ RepairBatch(p, k, c, ct, cs, ts, ss) /\ k = Len(log.claims)
          /\ c = log.claims[k] /\ (c.start => c.turn = k)
          /\ (c.start /\ k \notin log.turns => ts \in Range(p))
    BY <1>2, RepairWrites
  <2>2. /\ ct.type = "Claimed" /\ cs.type = "Claimed" /\ ts.type = "TurnStart"
        /\ ts.id = c.turn /\ ss.type = "StepStart" /\ ss.id = k
        /\ \A e \in Range(p) : e = ct \/ e = cs \/ e = ts \/ e = ss \/ e.type = "UserMessage"
    BY <2>1 DEF RepairBatch
  <2>3. Begun(p) = c
    BY <2>1, <2>2 DEF Begun, Opening
  <2>4. c.start => k \in log.turns \/ Opens(p, k)
    BY <2>1, <2>2 DEF Opens
  <2>5. Heeds(p)
    BY <2>2, <2>3, <2>4 DEF Heeds
  <2>6. loading /\ UNCHANGED driver
    BY <1>2 DEF RepairClaims
  <2> QED
    BY <1>1, <2>1, <2>5, <2>6
<1>3. CASE PauseRestored
  <2>1. Heeds(<<Paused(Unpaused)>>)
    BY StayingBatches DEF Heeds, Stays, Unclaimed
  <2> QED
    BY <1>1, <1>3, <2>1 DEF PauseRestored
<1>4. CASE OpenForService
  <2>1. UNCHANGED <<log, pending, stage, scope>> /\ stage = "detached" /\ scope = NoScope
    BY <1>4 DEF OpenForService, durable, driver, ScopeInv, InScope, Walks
  <2>2. Positions'
    BY <2>1 DEF ScopeInv, Positions, Heeds, Expects, Stands, Begun, Opening, Opens
  <2>3. InScope'
    BY <1>4, <2>1 DEF OpenForService, InScope, Walks, Working, Waiting, Closing
  <2> QED
    BY <2>2, <2>3 DEF ScopeInv
<1>5. CASE Crash
  <2>1. log' = log /\ pending' = <<>> /\ stage' = "detached" /\ scope' = NoScope
    BY <1>5 DEF Crash, durable
  <2>2. Heeds(pending)'
    BY <2>1 DEF Heeds, Range
  <2>3. Positions'
    BY <2>1, <2>2 DEF ScopeInv, Positions, Expects, Stands
  <2>4. InScope'
    BY <2>1 DEF InScope, Walks, Working, Waiting, Closing
  <2> QED
    BY <2>3, <2>4 DEF ScopeInv
<1> QED
  BY <1>2, <1>3, <1>4, <1>5 DEF RestartStep

(* ----------------------------- the specification -------------------------- *)

\* The empty log has nothing open.
LEMMA ScopeInit ==
  ASSUME Init
  PROVE  ScopeInv
<1>1. /\ log.claims = <<>> /\ log.live = NoScope /\ pending = <<>> /\ stage = "detached"
      /\ scope = NoScope
  BY DEF Init
<1>2. Positions
  BY <1>1 DEF Positions, Heeds, Range, NoScope
<1>3. InScope
  BY <1>1 DEF InScope, Walks, Working, Waiting, Closing
<1> QED
  BY <1>2, <1>3 DEF ScopeInv

\* Every step keeps the driver and the log together.
LEMMA ScopeNext ==
  ASSUME Typed, Mail, Agreed, ScopeInv, [Next]_vars
  PROVE  ScopeInv'
<1>1. CASE WriteEvent
  BY <1>1, PositionsWrite, InScopeWrite DEF ScopeInv
<1>2. CASE UserStep
  <2>1. ASSUME NEW m \in Msgs, NEW lane \in Lanes,
               \/ \E held \in BOOLEAN, target \in {0} \cup log.turns : Submit(m, lane, held, target)
               \/ Remove(lane, m)
        PROVE  ScopeInv'
    BY <2>1, InputScope
  <2>2. ASSUME NEW m \in Msgs, ResumeItem(m) \/ Steer(m)
        PROVE  ScopeInv'
    <3>1. "nextTurn" \in Lanes
      BY DEF Lanes
    <3> QED
      BY <2>2, <3>1, InputScope
  <2>3. ASSUME NEW lane \in Lanes, NEW order \in Arrangements, Reorder(lane, order)
        PROVE  ScopeInv'
    <3>1. Stays(<<Reordered(lane, order)>>)
      BY StayingBatches DEF Reordered, SoloTypes
    <3> QED
      BY <2>3, <3>1, Undisturbed DEF Reorder, driver
  <2>4. ASSUME NEW kind \in {"interrupt", "cancel"}, RequestStop(kind) \/ StopDetached(kind)
        PROVE  ScopeInv'
    BY <2>4, StopScope
  <2>5. ASSUME ResumeSession \/ Archive
        PROVE  ScopeInv'
    BY <2>5, ResumeArchiveScope
  <2>6. ASSUME ResumeRecovery \/ ToolResolved
        PROVE  ScopeInv'
    BY <2>6, EndScope, StayScope
  <2> QED
    BY <1>2, <2>1, <2>2, <2>3, <2>4, <2>5, <2>6 DEF UserStep
<1>3. CASE DriverStep
  <2>1. CASE BeginTurn \/ EndTurnIfNoStepInput \/ BeginStepOrEndTurn \/ BeginContinuationStep
    BY <2>1, TurnScope
  <2>2. CASE Attach
    BY <2>2, AttachScope
  <2>3. CASE Announce \/ GoIdle \/ AnswerTools
    BY <2>3, StayScope
  <2>4. CASE AnswerText \/ ToolsComplete \/ ToolsWait
    BY <2>4, EndScope
  <2>5. CASE DriverPauses \/ FailTurn \/ Terminate \/ TurnLimitExceeded \/ DriverRejected
    BY <2>5, GiveUpScope
  <2>6. CASE StopAtStep \/ FinishStop \/ StopRefused
    BY <2>6, StopScope
  <2> QED
    BY <1>3, <2>1, <2>2, <2>3, <2>4, <2>5, <2>6 DEF DriverStep
<1>4. CASE RestartStep \/ Crash
  BY <1>4, RestartScope
<1>5. CASE UNCHANGED vars
  <2>1. UNCHANGED <<log, pending, loading, stage, scope>>
    BY <1>5 DEF vars, durable, driver
  <2>2. Positions'
    BY <2>1 DEF ScopeInv, Positions, Heeds, Expects, Stands, Begun, Opening, Opens
  <2>3. InScope'
    BY <2>1 DEF ScopeInv, InScope, Walks, Lands, LandsNowhere, Has
  <2> QED
    BY <2>2, <2>3 DEF ScopeInv
<1> QED
  BY <1>1, <1>2, <1>3, <1>4, <1>5 DEF Next

(* --------------------------------- theorems ------------------------------- *)

\* The inductive invariant itself, in every reachable state.
THEOREM ScopeKept == Spec => [](Typed /\ Mail /\ Agreed /\ ScopeInv)
<1>1. Init => Typed /\ Mail /\ Agreed /\ ScopeInv
  BY InitHolds, AgreedInit, ScopeInit
<1>2. Typed /\ Mail /\ Agreed /\ ScopeInv /\ [Next]_vars => Typed' /\ Mail' /\ Agreed' /\ ScopeInv'
  BY StepHolds, AgreedNext, ScopeNext
<1> QED
  BY <1>1, <1>2, PTL DEF Spec

\* The driver works in the turn and the step the log has open.
THEOREM DriverIsWhereTheLogIs == Spec => []ScopeMatchesLog
<1>1. ASSUME Typed, ScopeInv
      PROVE  ScopeMatchesLog
  <2>1. ASSUME Serving, scope # NoScope, stage # "failed"
        PROVE  log.live = scope
    <3>1. stage \in Stages /\ scope \in Scopes /\ log.live \in Scopes
      BY <1>1, DriverTypes
    <3>2. stage \in Working \cup Waiting
      BY <1>1, <2>1, <3>1, ServingScope, StageNames
    <3>3. scope.turn = log.live.turn /\ scope.step = log.live.step
      BY <1>1, <2>1, <3>2, ServingScope
    <3> QED
      BY <3>1, <3>3 DEF Scopes
  <2> QED
    BY <2>1 DEF ScopeMatchesLog
<1> QED
  BY <1>1, ScopeKept, PTL

\* A turn starts when none is open, and a step in an open turn without an open step,
\* crashes, stops and resumed Sessions notwithstanding.
THEOREM TurnsAndStepsNest == Spec => BoundariesNest
<1> DEFINE Nested == /\ log'.turns # log.turns => log.live = NoScope
                     /\ log'.steps # log.steps => log.live.turn # 0 /\ log.live.step = 0
<1>1. ASSUME Typed, Mail, Agreed, ScopeInv, [Next]_vars
      PROVE  Nested
  <2>1. CASE WriteEvent
    <3>1. PICK e, n, c : e = Head(pending) /\ n = Len(log.claims) /\ c = log.claims[n]
      OBVIOUS
    <3>2. /\ e \in Events
          /\ ApplyInbox(e) \/ ApplyBoundary(e) \/ ApplyUserMessage(e) \/ ApplyStatus(e)
      BY <1>1, <2>1, <3>1, HeadWritten
    <3>3. CASE e.type = "TurnStart"
      <4>1. Stands(0, 0)
        BY <1>1, <2>1, <3>1, <3>3, HeadStands DEF ScopeInv
      <4>2. log.live \in Scopes
        BY <1>1, DriverTypes
      <4>3. log.live = NoScope
        BY <4>1, <4>2 DEF Stands, Scopes, NoScope
      <4>4. log'.steps = log.steps
        BY <1>1, <2>1, <3>1, <3>3, NumberStays DEF Claiming, ClaimTypes
      <4> QED
        BY <4>3, <4>4
    <3>4. CASE e.type = "StepStart"
      <4>1. Stands(c.turn, 0) /\ c.turn # 0
        BY <1>1, <2>1, <3>1, <3>4, HeadStands DEF ScopeInv
      <4>2. log'.turns = log.turns
        BY <1>1, <2>1, <3>1, <3>4, NumberStays DEF Claiming, ClaimTypes
      <4> QED
        BY <4>1, <4>2 DEF Stands
    <3>5. CASE e.type = "StepInputClaim"
      <4>1. log'.turns = log.turns /\ log'.steps = log.steps
        BY <1>1, <2>1, <3>1, <3>5, NumberStays DEF Claiming, ClaimTypes
      <4> QED
        BY <4>1
    <3>6. CASE e.type \notin {"StepInputClaim", "TurnStart", "StepStart"}
      BY <1>1, <3>2, <3>6, RecordStays
    <3> QED
      BY <3>3, <3>4, <3>5, <3>6
  <2>2. CASE UserStep \/ DriverStep \/ RepairClaims \/ PauseRestored
    BY <2>2, OthersKeep DEF durable
  <2>3. CASE OpenForService \/ Crash
    BY <2>3 DEF OpenForService, Crash, durable
  <2>4. CASE UNCHANGED vars
    BY <2>4 DEF vars, durable
  <2> QED
    BY <1>1, <2>1, <2>2, <2>3, <2>4 DEF Next, RestartStep
<1>2. Typed /\ Mail /\ Agreed /\ ScopeInv /\ [Next]_vars => [Nested]_vars
  BY <1>1
<1> QED
  BY <1>2, ScopeKept, PTL DEF Spec, BoundariesNest
=============================================================================
