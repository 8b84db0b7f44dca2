------------------------------ MODULE AgentSession ------------------------------
(* One Agent Session: its append-only event log, the inbox the log projects to,
   and every operation that appends to it.
   Source: src/src-tauri/src/agent_runtime/{session,inbox,driver,runtime}.rs.

   The store appends BATCHES.  A batch is validated against the record, written
   with one write, and only then installed in memory, all under the store lock;
   but the log is repaired after a crash by cutting it at the last complete line,
   so that ANY PREFIX of the last batch may survive.  "pending" is what remains to
   be written of the batch in hand: WriteEvent moves one event to the log, no other
   operation runs meanwhile, and a Crash in between leaves the torn batch behind.

   The log itself is kept as the projections the code scans it for. *)

EXTENDS Naturals, Sequences, FiniteSets, Functions

CONSTANTS Msgs,       \* the messages submitted (messageId with its submission)
          UserMsgs,   \* those a user wrote: only they can be steered
          IsRoot,     \* a root Session (FALSE: a sub-agent's)
          TurnLimit,  \* max_turns_per_session: the next turn fails the Session
          MaxSteps,   \* bound: steps begun in the whole run
          MaxCrashes  \* bound: crashes of the process

ASSUME MsgsAssumption  == IsFiniteSet(Msgs) /\ UserMsgs \subseteq Msgs
ASSUME RootAssumption  == IsRoot \in BOOLEAN
ASSUME BoundAssumption == {TurnLimit, MaxSteps, MaxCrashes} \subseteq Nat

VARIABLES
  (* what the log says *)
  inbox,     \* the two lanes, the message ids ever seen, the paused ids
  log,       \* claim intents, turns and steps started, the open turn and step
  said,      \* the UserMessage events: the transcript the model is sent
  status, ended, archived,
  (* the process *)
  pending,   \* events of the current batch not yet written
  loading,   \* the store has not yet repaired and paused what it restored
  stage, scope, halt,   \* the driver, its active turn and step, a stop in progress
  crashes,
  (* history *)
  told,      \* messages a user of THIS process submitted to run or resumed
  dropped    \* messages removed or discarded

durable == <<inbox, log, said, status, ended, archived, dropped>>
driver  == <<stage, scope, halt>>
vars    == <<durable, pending, loading, driver, crashes, told>>

Lanes    == {"nextTurn", "nextStep"}
Terminal == {"Completed", "Failed", "Cancelled"}
Statuses == {"Idle", "Running", "Waiting"} \cup Terminal
Resting  == {"detached", "parked", "failed"}  \* no entry; no scope; phase Stopping
Working  == {"announcing", "stepping", "tools", "settled", "hooked", "continuing"}
Waiting  == {"waiting", "recovering"}         \* for a decision; for resume_recovery
Closing  == {"failing", "aborting"}           \* scope closed, terminate to follow
Stages   == Resting \cup Working \cup Waiting \cup Closing
NoScope  == [turn |-> 0, step |-> 0]

(* -------------------------------- sequences ------------------------------- *)

\* Every sequence of distinct messages.
Arrangements == UNION {{s \in [1..n -> Msgs] : IsInjective(s)} : n \in 0..Cardinality(Msgs)}

\* The one arrangement that keeps of q the elements in S, in the order of q.
Kept(q, S) ==
  {r \in Arrangements :
     /\ Range(r) = Range(q) \cap S
     /\ \A i, j \in DOMAIN r : \A k, l \in DOMAIN q :
          i < j /\ r[i] = q[k] /\ r[j] = q[l] => k < l}

Opt(condition, event) == IF condition THEN <<event>> ELSE <<>>

(* -------------------------------- the inbox ------------------------------- *)

Queued   == Range(inbox.nextTurn) \cup Range(inbox.nextStep)
Unpaused == Queued \ inbox.paused

\* Mutant: the head of the lane is taken, paused or not.
TurnClaimsHead == {IF inbox.nextTurn = <<>> THEN <<>> ELSE <<Head(inbox.nextTurn)>>}

\* The first message of the lane that is not paused, if there is one.
TurnClaims ==
  LET lane == inbox.nextTurn
  IN  IF Range(lane) \subseteq inbox.paused THEN {<<>>}
      ELSE {<<lane[i]>> : i \in {j \in DOMAIN lane :
                                   /\ lane[j] \notin inbox.paused
                                   /\ \A k \in 1..(j - 1) : lane[k] \in inbox.paused}}

StepClaims == Kept(inbox.nextStep, Msgs \ inbox.paused)

NoStepInput == Range(inbox.nextStep) \subseteq inbox.paused
InboxEmpty  == Queued = {}

RetainsPausedInputs(s) == s = "Failed" /\ IsRoot /\ Unpaused = {}

(* -------------------------------- the events ------------------------------ *)

Claim(t, start, turnMsgs, stepMsgs) ==
  [type |-> "StepInputClaim",
   claim |-> [turn |-> t, start |-> start, turnMsgs |-> turnMsgs, stepMsgs |-> stepMsgs]]
Enqueued(lane, m, held) == [type |-> "Enqueued", lane |-> lane, msg |-> m, held |-> held]
Claimed(lane, msgs)     == [type |-> "Claimed", lane |-> lane, msgs |-> msgs]
Discarded(lane)         == [type |-> "Discarded", lane |-> lane, msgs |-> inbox[lane]]
Paused(ids)             == [type |-> "InboxPaused", ids |-> ids]
Resumed(m)              == [type |-> "InboxItemResumed", msg |-> m]
Steered(m)              == [type |-> "InboxItemSteered", msg |-> m]
Removed(lane, m)        == [type |-> "InboxItemRemoved", lane |-> lane, msg |-> m]
Reordered(lane, msgs)   == [type |-> "InboxReordered", lane |-> lane, msgs |-> msgs]
TurnStart(t)            == [type |-> "TurnStart", id |-> t]
TurnEnd                 == [type |-> "TurnEnd"]
StepStart(s)            == [type |-> "StepStart", id |-> s]
StepEnd                 == [type |-> "StepEnd"]
UserMessages(msgs, s)   == [i \in DOMAIN msgs |->
                              [type |-> "UserMessage", line |-> [msg |-> msgs[i], step |-> s]]]
Assistant(kind)         == [type |-> "AssistantMessage", answer |-> kind]
Usage                   == [type |-> "RequestUsage"]
Status(s)               == [type |-> "AgentStatus", status |-> s]
SessionEnded(s)         == [type |-> "SessionEnded", status |-> s]
SessionResumed          == [type |-> "SessionResumed"]
Rename                  == [type |-> "Rename"]  \* no event: the log moves to the archive

StatusIs(s) == Opt(status # s, Status(s))

FailedRoot == ended /\ status = "Failed" /\ IsRoot /\ ~archived

FailedAdmission(e) == FailedRoot /\ e.type \in {"Enqueued", "InboxPaused"}

\* validate_event_transition: may this event follow what the log says?
Admits(e) ==
  /\ ended => FailedAdmission(e) \/ e.type \in {"SessionResumed", "Rename"}
  /\ status \in Terminal /\ ~ended => e.type = "SessionEnded"
  /\ e.type = "SessionResumed" => ended /\ IsRoot

\* The rest of that function, and what the inbox operation behind the event demands.
Fits(e) ==
  /\ e.type = "Enqueued" => e.msg \notin inbox.seen
  /\ e.type = "Claimed" /\ e.lane = "nextTurn" => e.msgs \in TurnClaims
  /\ e.type = "Claimed" /\ e.lane = "nextStep" => e.msgs \in StepClaims
  /\ e.type = "Discarded" => e.msgs = inbox[e.lane]
  /\ e.type = "InboxPaused" => e.ids \subseteq Queued
  /\ e.type = "InboxItemResumed" => e.msg \in Queued \cap inbox.paused
  /\ e.type = "SessionEnded" => /\ InboxEmpty \/ RetainsPausedInputs(e.status)
                                /\ status \in Terminal => status = e.status

Accepts(e) == ~archived /\ Admits(e) /\ Fits(e)

(* ---------------------- one event reaches the record ---------------------- *)

ApplyInbox(e) ==
  /\ \/ /\ e.type = "Enqueued"
        /\ inbox' = [inbox EXCEPT ![e.lane] = Append(@, e.msg),
                                  !.seen = @ \cup {e.msg},
                                  !.paused = IF e.held THEN @ \cup {e.msg} ELSE @]
        /\ told' = IF e.held THEN told ELSE told \cup {e.msg}
        /\ UNCHANGED dropped
     \/ /\ e.type = "Claimed"
        /\ \E rest \in Kept(inbox[e.lane], Msgs \ Range(e.msgs)) :
             inbox' = [inbox EXCEPT ![e.lane] = rest, !.paused = @ \ Range(e.msgs)]
        /\ UNCHANGED <<told, dropped>>
     \/ /\ e.type = "Discarded"
        /\ inbox' = [inbox EXCEPT ![e.lane] = <<>>]
        /\ dropped' = dropped \cup Range(e.msgs)
        /\ UNCHANGED told
     \/ /\ e.type = "InboxPaused"
        /\ inbox' = [inbox EXCEPT !.paused = @ \cup e.ids]
        /\ told' = told \ e.ids
        /\ UNCHANGED dropped
     \/ /\ e.type = "InboxItemResumed"
        /\ inbox' = [inbox EXCEPT !.paused = @ \ {e.msg}]
        /\ told' = told \cup {e.msg}
        /\ UNCHANGED dropped
     \/ /\ e.type = "InboxItemSteered"
        /\ \E rest \in Kept(inbox.nextTurn, Msgs \ {e.msg}) :
             inbox' = [inbox EXCEPT !.nextTurn = rest, !.nextStep = Append(@, e.msg)]
        /\ UNCHANGED <<told, dropped>>
     \/ /\ e.type = "InboxItemRemoved"
        /\ \E rest \in Kept(inbox[e.lane], Msgs \ {e.msg}) :
             inbox' = [inbox EXCEPT ![e.lane] = rest, !.paused = @ \ {e.msg}]
        /\ dropped' = dropped \cup {e.msg}
        /\ UNCHANGED told
     \/ /\ e.type = "InboxReordered"
        /\ inbox' = [inbox EXCEPT ![e.lane] = e.msgs]
        /\ UNCHANGED <<told, dropped>>
  /\ UNCHANGED <<log, said, status, ended, archived>>

\* "open" is the scan of pause_input, of enqueue_submission and of the steer check;
\* "live" that of recover_open_scope, which a SessionResumed also resets.
ApplyBoundary(e) ==
  /\ \/ /\ e.type = "StepInputClaim"
        /\ log' = [log EXCEPT !.claims = Append(@, e.claim)]
     \/ /\ e.type = "TurnStart"
        /\ log' = [log EXCEPT !.turns = @ \cup {e.id}, !.open.turn = e.id, !.live.turn = e.id]
     \/ /\ e.type = "StepStart"
        /\ log' = [log EXCEPT !.steps = @ \cup {e.id}, !.open.step = e.id, !.live.step = e.id,
                              !.answer = "none", !.usage = FALSE]
     \/ /\ e.type = "StepEnd"
        /\ log' = [log EXCEPT !.open.step = 0, !.live.step = 0]
     \/ /\ e.type = "TurnEnd"
        /\ log' = [log EXCEPT !.open = NoScope, !.live = NoScope,
                              !.answer = "none", !.usage = FALSE]
     \/ e.type = "AssistantMessage" /\ log' = [log EXCEPT !.answer = e.answer]
     \/ e.type = "RequestUsage" /\ log' = [log EXCEPT !.usage = TRUE]
  /\ UNCHANGED <<inbox, said, status, ended, archived, told, dropped>>

ApplyUserMessage(e) ==
  /\ e.type = "UserMessage"
  /\ said' = Append(said, e.line)
  /\ UNCHANGED <<inbox, log, status, ended, archived, told, dropped>>

ApplyStatus(e) ==
  /\ \/ /\ e.type = "AgentStatus"
        /\ status' = e.status /\ UNCHANGED <<log, ended, archived>>
     \/ /\ e.type = "SessionEnded"
        /\ status' = e.status /\ ended' = TRUE /\ UNCHANGED <<log, archived>>
     \/ /\ e.type = "SessionResumed"
        /\ status' = "Idle" /\ ended' = FALSE
        /\ log' = [log EXCEPT !.live = NoScope, !.answer = "none", !.usage = FALSE]
        /\ UNCHANGED archived
     \/ /\ e.type = "Rename"
        /\ archived' = TRUE /\ UNCHANGED <<log, status, ended>>
  /\ UNCHANGED <<inbox, said, told, dropped>>

WriteEvent ==
  /\ pending # <<>>
  /\ LET e == Head(pending)
     IN  /\ Accepts(e)
         /\ ApplyInbox(e) \/ ApplyBoundary(e) \/ ApplyUserMessage(e) \/ ApplyStatus(e)
  /\ pending' = Tail(pending)
  /\ UNCHANGED <<loading, driver, crashes>>

\* An operation takes the store lock and hands its batch over to be written.
Write(batch) == pending' = batch /\ UNCHANGED <<durable, loading, crashes, told>>

Serving == pending = <<>> /\ ~loading
Mutable == ~archived /\ ~ended /\ status \notin Terminal

(* ----------------------------- the user's inbox --------------------------- *)

\* receive_submission, enqueue_submission.  target is the turn the message was
\* written for (0: none): a nextStep message that comes too late for it moves on.
Submission(m, lane, held, target) ==
  LET late == lane = "nextStep" /\ target \notin {0, log.open.turn}
  IN  Enqueued(IF late THEN "nextTurn" ELSE lane, m, held \/ FailedRoot)

\* Mutant: a failed Session's input is queued like any other.
SubmitAsSent(m, lane, held, target) ==
  LET e == [Submission(m, lane, held, target) EXCEPT !.held = held]
  IN  Serving /\ Accepts(e) /\ Write(<<e>>) /\ UNCHANGED driver

Submit(m, lane, held, target) ==
  /\ Serving /\ Accepts(Submission(m, lane, held, target))
  /\ Write(<<Submission(m, lane, held, target)>>)
  /\ UNCHANGED driver

ResumeItem(m) ==
  /\ Serving /\ Mutable /\ m \in Queued \cap inbox.paused
  /\ Write(<<Resumed(m)>>) /\ UNCHANGED driver

\* The runtime's has_active_driver, and validate_steer_target.
Steer(m) ==
  /\ Serving /\ Mutable /\ stage \in Working /\ halt = "no"
  /\ status = "Running" /\ log.open.turn # 0
  /\ m \in UserMsgs \cap Range(inbox.nextTurn)
  /\ Write(<<Steered(m)>>) /\ UNCHANGED driver

Remove(lane, m) ==
  /\ Serving /\ Mutable /\ m \in Range(inbox[lane])
  /\ Write(<<Removed(lane, m)>>) /\ UNCHANGED driver

Reorder(lane, order) ==
  /\ Serving /\ Mutable /\ Range(order) = Range(inbox[lane]) /\ order # inbox[lane]
  /\ Write(<<Reordered(lane, order)>>) /\ UNCHANGED driver

(* --------------------------------- the turn ------------------------------- *)

DriverIs(s) == stage' = s /\ UNCHANGED <<scope, halt>>
ScopeStep(s) == [scope EXCEPT !.step = s]

\* Mutant: a scope with an open step is closed by the end of the step alone.
CloseStepOnly(s) == IF s.turn = 0 THEN <<>> ELSE IF s.step # 0 THEN <<StepEnd>> ELSE <<TurnEnd>>

CloseScope(s) == IF s.turn = 0 THEN <<>> ELSE Opt(s.step # 0, StepEnd) \o <<TurnEnd>>

\* derive_recovery_checkpoint is Available or Required, or WaitingApproval.
RecoveryWaits ==
  \/ log.live.step # 0 /\ log.answer # "none"
  \/ log.answer = "tools"
  \/ log.answer = "text" /\ ~log.usage

\* start with recover_open_scope: the driver takes over what the log left open.
Attach ==
  /\ Serving /\ stage = "detached" /\ halt = "no" /\ ~ended /\ ~archived
  /\ \/ /\ log.live.turn = 0
        /\ Write(<<>>) /\ stage' = "parked" /\ scope' = NoScope
     \/ /\ log.live.turn # 0 /\ log.live.step # 0 /\ log.answer = "none"
        /\ Write(<<>>) /\ stage' = "stepping" /\ scope' = log.live
     \/ /\ log.live.turn # 0 /\ status # "Cancelled" /\ RecoveryWaits
        /\ stage' \in (IF log.answer = "tools" THEN Waiting ELSE {"recovering"})
        /\ Write(<<>>) /\ scope' = log.live
     \/ /\ log.live.turn # 0 /\ ~RecoveryWaits /\ Mutable
        /\ ~(log.live.step # 0 /\ log.answer = "none")
        /\ Write(CloseScope(log.live)) /\ stage' = "aborting" /\ scope' = NoScope
  /\ UNCHANGED halt

NextStepId == Len(log.claims) + 1

\* begin_turn_step, under the admission gate.
BeginTurn ==
  /\ Serving /\ Mutable /\ stage = "parked" /\ halt = "no" /\ Unpaused # {}
  /\ Cardinality(log.turns) < TurnLimit /\ NextStepId <= MaxSteps
  /\ \E turnMsgs \in TurnClaims, stepMsgs \in StepClaims :
       Write(<<Claim(NextStepId, TRUE, turnMsgs, stepMsgs)>>
             \o Opt(turnMsgs # <<>>, Claimed("nextTurn", turnMsgs))
             \o <<TurnStart(NextStepId)>>
             \o Opt(stepMsgs # <<>>, Claimed("nextStep", stepMsgs))
             \o <<StepStart(NextStepId)>>
             \o UserMessages(turnMsgs \o stepMsgs, NextStepId))
  /\ stage' = "announcing" /\ scope' = [turn |-> NextStepId, step |-> NextStepId]
  /\ UNCHANGED halt

Announce ==
  /\ Serving /\ Mutable /\ stage = "announcing"
  /\ Write(StatusIs("Running")) /\ DriverIs("stepping")

GoIdle ==
  /\ Serving /\ Mutable /\ stage = "parked" /\ halt = "no" /\ Unpaused = {} /\ status # "Idle"
  /\ Write(<<Status("Idle")>>) /\ DriverIs("parked")

\* commit_response without tool calls; "continuing": the completion check, or a
\* response cut off at the output limit, asks for another step of the turn.
AnswerText ==
  /\ Serving /\ Mutable /\ stage = "stepping"
  /\ Write(<<Assistant("text"), Usage, StepEnd>>)
  /\ stage' \in {"settled", "continuing"} /\ scope' = ScopeStep(0) /\ UNCHANGED halt

AnswerTools ==
  /\ Serving /\ Mutable /\ stage = "stepping"
  /\ Write(<<Assistant("tools"), Usage>>) /\ DriverIs("tools")

\* Mutant: the next step is made active before it has begun.
ToolsCompleteAhead ==
  /\ Serving /\ Mutable /\ stage = "tools"
  /\ Write(<<StepEnd>>) /\ stage' = "continuing" /\ scope' = ScopeStep(NextStepId)
  /\ UNCHANGED halt

ToolsComplete ==
  /\ Serving /\ Mutable /\ stage = "tools"
  /\ Write(<<StepEnd>>) /\ stage' = "continuing" /\ scope' = ScopeStep(0) /\ UNCHANGED halt

\* Mutant: the step stays active when an approval ended it.
ToolsWaitInStep ==
  /\ Serving /\ Mutable /\ stage = "tools"
  /\ Write(<<StepEnd, Status("Waiting")>>) \/ Write(<<Status("Waiting")>>)
  /\ stage' = "waiting" /\ UNCHANGED <<scope, halt>>

\* A native approval (or a scheduler failure) ends the step, a question does not.
ToolsWait ==
  /\ Serving /\ Mutable /\ stage = "tools"
  /\ \/ Write(<<StepEnd, Status("Waiting")>>) /\ scope' = ScopeStep(0)
     \/ Write(<<Status("Waiting")>>) /\ UNCHANGED scope
  /\ stage' = "waiting" /\ UNCHANGED halt

\* A decision or an answer: resume_after_tool, continue_questions.
ToolResolved ==
  /\ Serving /\ Mutable /\ stage = "waiting" /\ halt = "no"
  /\ Write(StatusIs("Running")) /\ DriverIs("tools")

ResumeRecovery ==
  /\ Serving /\ Mutable /\ stage = "recovering" /\ halt = "no"
  /\ Write(Opt(scope.step # 0, StepEnd) \o <<Status("Running")>>)
  /\ stage' = "continuing" /\ scope' = ScopeStep(0) /\ UNCHANGED halt

EndTurnIfNoStepInput ==
  /\ Serving /\ Mutable /\ stage = "settled"
  /\ IF NoStepInput
     THEN Write(<<TurnEnd>>) /\ stage' = "parked" /\ scope' = NoScope
     ELSE Write(<<>>) /\ stage' = "hooked" /\ UNCHANGED scope
  /\ UNCHANGED halt

\* The next step of the turn, with the input it takes from nextStep.
NextStep(stepMsgs) ==
  /\ NextStepId <= MaxSteps
  /\ Write(<<Claim(scope.turn, FALSE, <<>>, stepMsgs)>>
           \o Opt(stepMsgs # <<>>, Claimed("nextStep", stepMsgs))
           \o <<StepStart(NextStepId)>>
           \o UserMessages(stepMsgs, NextStepId))
  /\ stage' = "stepping" /\ scope' = ScopeStep(NextStepId)

BeginStepOrEndTurn ==
  /\ Serving /\ Mutable /\ stage = "hooked"
  /\ \E stepMsgs \in StepClaims :
       IF stepMsgs = <<>>
       THEN Write(<<TurnEnd>>) /\ stage' = "parked" /\ scope' = NoScope
       ELSE NextStep(stepMsgs)
  /\ UNCHANGED halt

BeginContinuationStep ==
  /\ Serving /\ Mutable /\ stage = "continuing"
  /\ \E stepMsgs \in StepClaims : NextStep(stepMsgs)
  /\ UNCHANGED halt

(* ----------------------------- the turn is given up ----------------------- *)

\* pause_input, of a user's stop and of a driver that needs the user.
PauseBatch ==
  (IF log.open.turn = 0 THEN <<>> ELSE Opt(log.open.step # 0, StepEnd) \o <<TurnEnd>>)
  \o Opt(Queued # {}, Paused(Queued))
  \o <<Status("Idle")>>

DriverPauses ==
  /\ Serving /\ Mutable /\ stage \in {"announcing", "stepping", "tools", "hooked", "continuing"}
  /\ Write(PauseBatch) /\ stage' = "parked" /\ scope' = NoScope /\ UNCHANGED halt

\* close_open_scope after an error or a spent budget: the Session fails next, or,
\* with more turns queued, only this turn does.
FailTurn ==
  /\ Serving /\ Mutable /\ stage \in Working
  /\ Write(CloseScope(scope))
  /\ stage' \in {"failing", "parked"} /\ scope' = NoScope /\ UNCHANGED halt

\* Mutants: the status is written first; a sub-agent's input is kept as a root's is.
TerminateStatusFirst ==
  LET Settle(lane) == Opt(inbox[lane] # <<>>,
                          IF IsRoot THEN Paused(Range(inbox[lane])) ELSE Discarded(lane))
  IN  <<Status("Failed")>> \o Settle("nextTurn") \o Settle("nextStep") \o <<SessionEnded("Failed")>>

TerminateKeepsAll ==
  LET Settle(lane) == Opt(inbox[lane] # <<>>, Paused(Range(inbox[lane])))
  IN  Settle("nextTurn") \o Settle("nextStep") \o <<Status("Failed"), SessionEnded("Failed")>>

\* terminate(Failed): a root keeps its input, paused; a sub-agent's is discarded.
TerminateBatch ==
  LET Settle(lane) == Opt(inbox[lane] # <<>>,
                          IF IsRoot THEN Paused(Range(inbox[lane])) ELSE Discarded(lane))
  IN  Settle("nextTurn") \o Settle("nextStep") \o <<Status("Failed"), SessionEnded("Failed")>>

Terminate ==
  /\ Serving /\ Mutable /\ stage \in Closing
  /\ Write(TerminateBatch)
  /\ DriverIs(IF stage = "failing" THEN "failed" ELSE "detached")

TurnLimitExceeded ==
  /\ Serving /\ Mutable /\ stage = "parked"
  /\ Cardinality(log.turns) >= TurnLimit /\ ~InboxEmpty
  /\ Write(TerminateBatch) /\ DriverIs("failed")

\* The record refuses every batch of the driver; it settles with its scope open.
DriverRejected ==
  /\ Serving /\ ~Mutable /\ stage \in Working \cup Closing
  /\ Write(<<>>) /\ DriverIs(IF stage = "aborting" THEN "detached" ELSE "failed")

(* --------------------------------- the user stops ------------------------- *)

RequestStop(kind) ==
  /\ Serving /\ stage # "detached" /\ halt = "no"
  /\ Write(<<>>) /\ halt' = kind /\ UNCHANGED <<stage, scope>>

\* The driver, or after it finish, closes the scope the stop found open.
StopAtStep ==
  /\ Serving /\ Mutable /\ halt # "no" /\ stage \in Working \cup Waiting
  /\ Write(CloseScope(scope)) /\ stage' = "parked" /\ scope' = NoScope /\ UNCHANGED halt

\* cancel: a torn cancellation is completed, another terminal status is an error.
CancelOk == status \notin Terminal \/ (status = "Cancelled" /\ InboxEmpty)

CancelBatch ==
  IF status \in Terminal THEN <<SessionEnded("Cancelled")>>
  ELSE Opt(inbox.nextTurn # <<>>, Discarded("nextTurn"))
       \o Opt(inbox.nextStep # <<>>, Discarded("nextStep"))
       \o <<Status("Cancelled"), SessionEnded("Cancelled")>>

\* cancel or interrupt, unless the Session has ended.
StopOk(kind)    == ended \/ (kind = "cancel" /\ CancelOk) \/ (kind = "interrupt" /\ Mutable)
StopBatch(kind) == IF ended THEN <<>> ELSE IF kind = "cancel" THEN CancelBatch ELSE PauseBatch

FinishStop ==
  /\ Serving /\ ~archived /\ halt # "no" /\ stage \in {"parked", "failed"} /\ scope = NoScope
  /\ StopOk(halt) /\ Write(StopBatch(halt))
  /\ stage' = "detached" /\ halt' = "no" /\ UNCHANGED scope

StopRefused ==
  /\ Serving /\ halt # "no" /\ stage \notin Closing
  /\ ~Mutable /\ (~StopOk(halt) \/ scope # NoScope)
  /\ Write(<<>>) /\ halt' = "no" /\ UNCHANGED <<stage, scope>>

StopDetached(kind) ==
  /\ Serving /\ ~archived /\ stage = "detached" /\ StopOk(kind)
  /\ Write(StopBatch(kind)) /\ UNCHANGED driver

ResumeSession ==
  /\ Serving /\ ended /\ IsRoot /\ ~archived /\ stage \in Resting /\ halt = "no"
  /\ Write(<<SessionResumed>>) /\ stage' = "detached" /\ scope' = NoScope /\ UNCHANGED halt

\* The rename may fail after the Session was closed for it.
Archive ==
  /\ Serving /\ ~archived /\ stage \in Resting /\ halt = "no" /\ scope = NoScope
  /\ ended \/ (status = "Idle" /\ InboxEmpty)
  /\ \E moved \in BOOLEAN :
       /\ Write((IF ended THEN <<>> ELSE <<Status("Completed"), SessionEnded("Completed")>>)
                \o Opt(moved, Rename))
       /\ stage' = IF moved THEN "detached" ELSE stage
  /\ UNCHANGED <<scope, halt>>

(* ---------------------------- crash and restart --------------------------- *)

\* read_log_repairing_bad_tail: whole lines survive, the rest of the batch is cut.
Crash ==
  /\ crashes < MaxCrashes
  /\ crashes' = crashes + 1
  /\ loading' = TRUE /\ pending' = <<>> /\ told' = {}
  /\ stage' = "detached" /\ scope' = NoScope /\ halt' = "no"
  /\ UNCHANGED durable

SaidMsgs     == {said[i].msg : i \in DOMAIN said}
ClaimMsgs(c) == c.turnMsgs \o c.stepMsgs

\* Mutant: a claim is complete once its step has started.
UnfinishedBeforeStep ==
  {k \in DOMAIN log.claims : \/ log.claims[k].start /\ log.claims[k].turn \notin log.turns
                             \/ k \notin log.steps}

\* The claims whose batch was torn.
Unfinished ==
  {k \in DOMAIN log.claims :
     LET c == log.claims[k]
     IN  \/ Range(ClaimMsgs(c)) \cap Queued # {}
         \/ c.start /\ c.turn \notin log.turns
         \/ k \notin log.steps
         \/ ~(Range(ClaimMsgs(c)) \subseteq SaidMsgs)}

\* Mutants: the repair says every message of the claim again; or the step's first.
RepairSaying(messagesOf(_), known) ==
  /\ loading /\ pending = <<>> /\ ~ended /\ ~archived
  /\ \E k \in Unfinished :
       LET c == log.claims[k]
       IN  \E turnMsgs \in Kept(c.turnMsgs, Queued), stepMsgs \in Kept(c.stepMsgs, Queued),
              unsaid \in Kept(messagesOf(c), Msgs \ known) :
             Write(Opt(turnMsgs # <<>>, Claimed("nextTurn", turnMsgs))
                   \o Opt(stepMsgs # <<>>, Claimed("nextStep", stepMsgs))
                   \o Opt(c.start /\ c.turn \notin log.turns, TurnStart(c.turn))
                   \o Opt(k \notin log.steps, StepStart(k))
                   \o UserMessages(unsaid, k))
  /\ UNCHANGED driver
RepairSayingAll       == RepairSaying(ClaimMsgs, {})
RepairSayingStepFirst == RepairSaying(LAMBDA c : c.stepMsgs \o c.turnMsgs, SaidMsgs)

\* repair_step_claims: what is missing of the batch, in the order of the batch.
RepairClaims ==
  /\ loading /\ pending = <<>> /\ ~ended /\ ~archived
  /\ \E k \in Unfinished :
       LET c == log.claims[k]
       IN  \E turnMsgs \in Kept(c.turnMsgs, Queued), stepMsgs \in Kept(c.stepMsgs, Queued),
              unsaid \in Kept(ClaimMsgs(c), Msgs \ SaidMsgs) :
             Write(Opt(turnMsgs # <<>>, Claimed("nextTurn", turnMsgs))
                   \o Opt(stepMsgs # <<>>, Claimed("nextStep", stepMsgs))
                   \o Opt(c.start /\ c.turn \notin log.turns, TurnStart(c.turn))
                   \o Opt(k \notin log.steps, StepStart(k))
                   \o UserMessages(unsaid, k))
  /\ UNCHANGED driver

\* Mutant: the restored input is paused before torn claims are repaired.
PauseRestoredFirst ==
  /\ loading /\ pending = <<>> /\ ~ended /\ ~archived /\ Unpaused # {}
  /\ Write(<<Paused(Unpaused)>>) /\ UNCHANGED driver

\* pause_restored_inputs, after the repair.
PauseRestored ==
  /\ loading /\ pending = <<>> /\ ~ended /\ ~archived
  /\ Unfinished = {} /\ Unpaused # {}
  /\ Write(<<Paused(Unpaused)>>) /\ UNCHANGED driver

\* Mutant: the store serves what it restored without pausing it.
OpenUnpaused ==
  /\ loading /\ pending = <<>>
  /\ ended \/ archived \/ Unfinished = {}
  /\ loading' = FALSE
  /\ UNCHANGED <<durable, pending, driver, crashes, told>>

OpenForService ==
  /\ loading /\ pending = <<>>
  /\ ended \/ archived \/ (Unfinished = {} /\ Unpaused = {})
  /\ loading' = FALSE
  /\ UNCHANGED <<durable, pending, driver, crashes, told>>

(* -------------------------------------------------------------------------- *)

Init ==
  /\ inbox = [nextTurn |-> <<>>, nextStep |-> <<>>, seen |-> {}, paused |-> {}]
  /\ log = [claims |-> <<>>, turns |-> {}, steps |-> {}, open |-> NoScope, live |-> NoScope,
            answer |-> "none", usage |-> FALSE]
  /\ said = <<>> /\ status = "Idle" /\ ended = FALSE /\ archived = FALSE
  /\ pending = <<>> /\ loading = FALSE
  /\ stage = "detached" /\ scope = NoScope /\ halt = "no"
  /\ crashes = 0 /\ told = {} /\ dropped = {}

UserStep ==
  \/ \E m \in Msgs :
       \/ \E lane \in Lanes, held \in BOOLEAN, target \in {0} \cup log.turns :
            Submit(m, lane, held, target)
       \/ ResumeItem(m) \/ Steer(m) \/ \E lane \in Lanes : Remove(lane, m)
  \/ \E lane \in Lanes, order \in Arrangements : Reorder(lane, order)
  \/ \E kind \in {"interrupt", "cancel"} : RequestStop(kind) \/ StopDetached(kind)
  \/ ResumeSession \/ Archive \/ ResumeRecovery \/ ToolResolved

DriverStep ==
  \/ Attach \/ BeginTurn \/ Announce \/ GoIdle \/ AnswerText \/ AnswerTools
  \/ ToolsComplete \/ ToolsWait \/ EndTurnIfNoStepInput \/ BeginStepOrEndTurn
  \/ BeginContinuationStep \/ DriverPauses \/ FailTurn \/ Terminate
  \/ TurnLimitExceeded \/ DriverRejected \/ StopAtStep \/ FinishStop \/ StopRefused

RestartStep == RepairClaims \/ PauseRestored \/ OpenForService

Next == WriteEvent \/ UserStep \/ DriverStep \/ RestartStep \/ Crash

Spec     == Init /\ [][Next]_vars
FairSpec == Spec /\ WF_vars(WriteEvent) /\ WF_vars(RestartStep)

(* ------------------------------- properties ------------------------------- *)

Scopes == [turn : 0..MaxSteps, step : 0..MaxSteps]

Claims == [turn : 1..MaxSteps, start : BOOLEAN, turnMsgs : Seq(Msgs), stepMsgs : Seq(Msgs)]

\* The shape of the record and of the driver's state.
TypeOK ==
  /\ inbox \in [nextTurn : Seq(Msgs), nextStep : Seq(Msgs),
                seen : SUBSET Msgs, paused : SUBSET Msgs]
  /\ log \in [claims : Seq(Claims), turns : SUBSET (1..MaxSteps), steps : SUBSET (1..MaxSteps),
              open : Scopes, live : Scopes,
              answer : {"none", "text", "tools"}, usage : BOOLEAN]
  /\ said \in Seq([msg : Msgs, step : 1..MaxSteps])
  /\ status \in Statuses /\ ended \in BOOLEAN /\ archived \in BOOLEAN
  /\ loading \in BOOLEAN /\ stage \in Stages /\ scope \in Scopes
  /\ halt \in {"no", "interrupt", "cancel"}
  /\ crashes \in 0..MaxCrashes /\ told \in SUBSET Msgs /\ dropped \in SUBSET Msgs

\* append_payloads_locked never meets, in the middle of a batch an operation built
\* from the record it saw, an event the record refuses: the operations agree with
\* validate_event_transition and the inbox replay on what may follow what.  This is
\* also why repair_step_claims can always complete a torn claim.
BatchAccepted == pending # <<>> => Accepts(Head(pending))

\* Whatever was torn and repaired, no message is said twice to the model, and none
\* that was said is still queued (the store's claims; reliable-submission.md).
ExactlyOnce ==
  /\ \A i, j \in DOMAIN said : said[i].msg = said[j].msg => i = j
  /\ Serving => SaidMsgs \cap Queued = {}

\* Between two operations a message the Session accepted is in exactly one place:
\* a lane of the inbox, the transcript, or among those given up.
NothingLost ==
  Serving => /\ inbox.seen = Queued \cup SaidMsgs \cup dropped
             /\ dropped \cap (Queued \cup SaidMsgs) = {}
             /\ Range(inbox.nextTurn) \cap Range(inbox.nextStep) = {}

\* The lines a Step said to the model, and that they are q, in the order of q.
SaidIn(k) == {i \in DOMAIN said : said[i].step = k}

Recited(k, q) ==
  /\ {said[i].msg : i \in SaidIn(k)} = Range(q)
  /\ \A i, j \in SaidIn(k), a, b \in DOMAIN q :
       said[i].msg = q[a] /\ said[j].msg = q[b] => (i < j <=> a < b)

\* At most one claim is torn at a time, none when the store serves, and a Step is
\* sent what its claim intended, the turn's message first, in the order claimed.
TranscriptFollowsClaims ==
  /\ Cardinality(Unfinished) <= 1
  /\ Serving => /\ Unfinished = {}
                /\ log.steps = DOMAIN log.claims
                /\ \A k \in DOMAIN log.claims : Recited(k, ClaimMsgs(log.claims[k]))

\* A Session ends with an empty inbox, but for a failed root Session, whose input
\* is kept and is all paused: nothing of it can run before the user resumes it.
EndedHoldsInput == ended => InboxEmpty \/ RetainsPausedInputs(status)

\* The driver works in the turn and the step the log has open.
ScopeMatchesLog == Serving /\ scope # NoScope /\ stage # "failed" => log.live = scope

\* A Turn starts when none is open, and a Step in an open Turn without an open
\* Step, crashes, stops and resumed Sessions notwithstanding.
BoundariesNest ==
  [][/\ log'.turns # log.turns => log.live = NoScope
     /\ log'.steps # log.steps => log.live.turn # 0 /\ log.live.step = 0]_vars

\* A message enters a model request only if it was submitted to run, or resumed, in
\* this life of the process: what a restart or a stop found queued waits for the user.
OnlyToldIsClaimed ==
  [][\A k \in DOMAIN log'.claims \ DOMAIN log.claims :
       Range(ClaimMsgs(log'.claims[k])) \subseteq told]_vars

\* An interrupted or failed load ends: the store serves again.
Reopens == loading ~> ~loading

\* "every complete log-record prefix remains recoverable" (reliable-submission.md):
\* a Session that serves is open, ended, or can still be closed.
Recoverable == Serving /\ ~archived => Mutable \/ StopOk("cancel")

(* -------------------------------- refinement ------------------------------ *)

ClaimedMsgs == UNION {Range(ClaimMsgs(log.claims[k])) : k \in DOMAIN log.claims}

Fate(m) ==
  IF m \in dropped THEN "dropped"
  ELSE IF m \in ClaimedMsgs THEN "delivered"
  ELSE IF m \notin Queued THEN "absent"
  ELSE IF m \in inbox.paused THEN "held" ELSE "queued"

Mailbox == INSTANCE AgentMailbox WITH box <- [m \in Msgs |-> Fate(m)], up <- ~loading

\* The Session implements the mailbox: exactly one fate per message, delivery from
\* the queue only, nothing left free by a restart.
RefinesMailbox == Mailbox!Spec
================================================================================
