------------------------------- MODULE ToolCalls -------------------------------
(***************************************************************************)
(* The tool calls of one model step, from the assistant's message to the   *)
(* next request:                                                           *)
(*   agent_runtime/tool_pipeline.rs  the scheduler, approvals, expiry,     *)
(*                                   cancellation, recovery                *)
(*   agent_runtime/recovery.rs       the checkpoint read from the log      *)
(*   agent_runtime/runtime.rs        decisions, stop, start, resume,       *)
(*                                   reconciliation, the driver's wake     *)
(*   agent_runtime/session.rs        which tool events the log accepts     *)
(*                                                                         *)
(* The scheduler runs in whoever owns it: the driver, the command of a     *)
(* decision or of a resumed authorization, or the watcher of expiry.       *)
(***************************************************************************)
EXTENDS Naturals, FiniteSets

CONSTANTS N,         \* the calls of the step are 1 .. N
          KindOf,    \* what each call is, see Kinds
          Limit,     \* parallel calls
          Wakes,     \* submissions that wake the driver
          Stops,     \* may the user stop the agent?
          Faults,    \* infrastructure failures: hooks, workers, the log
          Crashes    \* how often the process dies

Calls == 1 .. N
Kinds == {"read",      \* allowed, may overlap others
          "write",     \* allowed, runs alone
          "ask",       \* needs an approval
          "bad",       \* its preparation fails
          "plan",      \* settled by the session itself
          "delegate"}  \* orchestration: dispatched and awaited in place

ToolAssumption ==
  /\ N \in Nat /\ KindOf \in [Calls -> Kinds] /\ Limit \in Nat \ {0}
  /\ {Wakes, Faults, Crashes} \subseteq Nat /\ Stops \in BOOLEAN

VARIABLES
  log,     \* durable: the calls, the turn and step, Required, the next request
  up, phase, cancelled, \* the process and the agent's entry
  pend,    \* the registry of pending approvals
  sched,   \* the scheduler: its owner, the next call, results that wait their turn
  worker,  \* the blocking workers
  drive,   \* the driver's task, which holds the driver's slot unless "off"
  watch,   \* the watcher of expiry, which does not
  dec,     \* the command of a decision or of a resumed authorization
  stop,    \* stop_session
  said, ran, \* history: the user's answer; how often a call took effect
  wakes, faults, crashes

entry == <<up, phase, cancelled>>
bounds == <<wakes, faults, crashes>>
vars == <<log, up, phase, cancelled, pend, sched, worker, drive, watch, dec, stop, said, ran, bounds>>

Approvals == {"none", "requested", "approved", "rejected", "expired", "cancelled"}
Results   == {"none", "completed", "failed", "rejected", "cancelled", "timedOut"}
NoSched   == [by |-> "none", next |-> 1, stage |-> "next", ready |-> {}, barrier |-> FALSE,
              failing |-> FALSE]
NoDec     == [at |-> "off", call |-> 1]

TypeOK ==
  /\ log \in [call : [Calls -> [made : BOOLEAN, approval : Approvals, sent : BOOLEAN, result : Results]],
              open : BOOLEAN, step : BOOLEAN, required : BOOLEAN, asked : BOOLEAN, refused : BOOLEAN]
  /\ up \in BOOLEAN /\ cancelled \in BOOLEAN
  /\ phase \in {"running", "waiting", "disposed"}
  /\ pend \in [Calls -> {"none", "requested", "authorized", "executing", "expired"}]
  /\ sched \in [by : {"none", "driver", "decide", "watch"}, next : 1 .. N + 1, stage : {"next", "made", "asked"},
                ready : SUBSET Calls, barrier : BOOLEAN, failing : BOOLEAN]
  /\ worker \in [Calls -> {"idle", "going", "acting", "over"}]
  /\ drive \in {"off", "calls", "settled", "lead", "model"}
  /\ watch \in {"off", "watch", "expired", "calls"}
  /\ dec \in [at : {"off", "claimed", "approved", "executing", "continue", "calls", "ended"}, call : Calls]
  /\ stop \in {"no", "cancelling", "joining", "closing", "done"}
  /\ said \in [Calls -> {"nothing", "approve", "reject"}] /\ ran \in [Calls -> 0 .. 2]

Init ==
  /\ log = [call |-> [c \in Calls |-> [made |-> FALSE, approval |-> "none", sent |-> FALSE, result |-> "none"]],
            open |-> TRUE, step |-> TRUE, required |-> FALSE, asked |-> FALSE, refused |-> FALSE]
  /\ up = TRUE /\ phase = "running" /\ cancelled = FALSE
  /\ pend = [c \in Calls |-> "none"] /\ sched = [NoSched EXCEPT !.by = "driver"]
  /\ worker = [c \in Calls |-> "idle"]
  /\ drive = "calls" /\ watch = "off" /\ dec = NoDec /\ stop = "no"
  /\ said = [c \in Calls |-> "nothing"] /\ ran = [c \in Calls |-> 0]
  /\ wakes = 0 /\ faults = 0 /\ crashes = 0

----------------------------------------------------------------------------
(* The log accepts an event only where its history allows it.              *)
CallAllowed(l, c) == ~l.call[c].made

ApprovalAllowed(l, c, status) ==
  LET k == l.call[c] IN
  /\ k.made /\ k.result = "none"
  /\ CASE status \in {"requested", "automatic"} -> k.approval = "none"
       [] status = "cancelled" /\ k.approval = "approved" -> ~k.sent
       [] OTHER -> k.approval = "requested"

ExecutionAllowed(l, c) ==
  LET k == l.call[c] IN k.approval = "approved" /\ ~k.sent /\ k.result = "none"

ResultAllowed(l, c, status) ==
  LET k == l.call[c] IN
  /\ k.made /\ k.result = "none"
  /\ CASE k.approval = "approved"  -> k.sent
       [] k.approval = "rejected"  -> status = "rejected"
       [] k.approval = "expired"   -> status = "timedOut"
       [] k.approval = "cancelled" -> status = "cancelled"
       [] k.approval = "requested" -> FALSE
       [] k.approval = "none"      -> status \in {"rejected", "failed"}

Or(l, allowed, next) == IF allowed THEN next ELSE [l EXCEPT !.refused = TRUE]
Made(l, c)           == Or(l, CallAllowed(l, c), [l EXCEPT !.call[c].made = TRUE])
Approval(l, c, status) ==
  Or(l, ApprovalAllowed(l, c, status),
     [l EXCEPT !.call[c].approval = IF status = "automatic" THEN "approved" ELSE status])
Sent(l, c)           == Or(l, ExecutionAllowed(l, c), [l EXCEPT !.call[c].sent = TRUE])
Result(l, c, status) == Or(l, ResultAllowed(l, c, status), [l EXCEPT !.call[c].result = status])

MadeOnce(l, c)           == IF l.call[c].made THEN l ELSE Made(l, c)
Rejected(l, c)           == Result(Made(l, c), c, "rejected")
Settled(l, c, approval, status) == Result(Approval(l, c, approval), c, status)
NotStarted(l, S) ==
  [l EXCEPT !.call = [c \in Calls |-> IF c \in S THEN Rejected(l, c).call[c] ELSE l.call[c]],
            !.refused = @ \/ \E c \in S : Rejected(l, c).refused]
Rest(l, c) == {d \in Calls : d > c /\ l.call[d].result = "none"}

Failure(l) == [l EXCEPT !.step = FALSE, !.required = TRUE]
Closed(l)  == [l EXCEPT !.open = FALSE, !.step = FALSE]

Uncertain(l, c) == l.call[c].sent /\ l.call[c].result = "none"

Checkpoint(l) ==
  LET Open(approval) == \E c \in Calls : l.call[c].approval = approval /\ l.call[c].result = "none"
  IN  IF \E c \in Calls : Uncertain(l, c) THEN "execution"
      ELSE IF ~l.open THEN "none"
      ELSE IF Open("approved") THEN "authorized"
      ELSE IF Open("requested") THEN "approval"
      ELSE IF \E c \in Calls : l.call[c].result # "none" THEN IF l.required THEN "model" ELSE "committed"
      ELSE IF l.step THEN "model" ELSE "none"

----------------------------------------------------------------------------
(* The scheduler.                                                          *)
Running == {c \in Calls : worker[c] # "idle"}
Alone(c) == KindOf[c] # "read"
Outcomes == {"completed", "failed", "cancelled"}

Ready == {c \in sched.ready : \A d \in Running \cup sched.ready : c <= d}
Begin(owner, first) == [NoSched EXCEPT !.by = owner, !.next = first]

\* mutant: a call is admitted beside one that runs alone
MayAdmitBehindBarrier ==
  /\ sched.by # "none" /\ ~sched.failing /\ Ready = {} /\ sched.stage = "next"
  /\ ~cancelled /\ sched.next <= N /\ Cardinality(Running) < Limit
MayAdmit ==
  /\ sched.by # "none" /\ ~sched.failing /\ Ready = {} /\ sched.stage = "next"
  /\ ~cancelled /\ ~sched.barrier /\ sched.next <= N /\ Cardinality(Running) < Limit

Commit ==
  /\ sched.by # "none" /\ ~sched.failing
  /\ \E c \in Ready, status \in Outcomes : log' = Result(log, c, status)
                                                       /\ sched' = [sched EXCEPT !.ready = @ \ {c}]
  /\ UNCHANGED <<entry, pend, worker, drive, watch, dec, stop, said, ran, bounds>>

Drain ==
  /\ MayAdmit /\ Alone(sched.next) /\ Running # {}
  /\ sched' = [sched EXCEPT !.barrier = TRUE]
  /\ UNCHANGED <<log, entry, pend, worker, drive, watch, dec, stop, said, ran, bounds>>

(* A call refused when it is prepared waits for the calls before it and     *)
(* ends there; a change of the plan runs where it is admitted, in one batch *)
(* with its result.                                                         *)
Refuse(c) ==
  /\ KindOf[c] = "bad" /\ log' = Rejected(log, c)
  /\ sched' = [sched EXCEPT !.next = @ + 1] /\ UNCHANGED worker
ChangePlan(c) ==
  /\ KindOf[c] = "plan"
  /\ \E status \in {"completed", "failed"} :
       log' = Result(Sent(Approval(Made(log, c), c, "automatic"), c), c, status)
  /\ sched' = [sched EXCEPT !.next = @ + 1] /\ UNCHANGED worker

Admit ==
  LET c == sched.next IN
  /\ MayAdmit /\ (Alone(c) => Running = {})
  /\ \/ Refuse(c)
     \/ ChangePlan(c)
     \/ /\ KindOf[c] = "delegate"
        /\ log' = Sent(Approval(Made(log, c), c, "automatic"), c)
        /\ worker' = [worker EXCEPT ![c] = "going"]
        /\ sched' = [sched EXCEPT !.next = @ + 1, !.barrier = TRUE]
     \/ /\ KindOf[c] \in {"read", "write"}
        /\ log' = Approval(MadeOnce(log, c), c, "automatic")
        /\ sched' = [sched EXCEPT !.stage = "made"] /\ UNCHANGED worker
     \/ /\ KindOf[c] = "ask" /\ log' = MadeOnce(log, c)
        /\ sched' = [sched EXCEPT !.stage = "made"] /\ UNCHANGED worker
  /\ UNCHANGED <<entry, pend, drive, watch, dec, stop, said, ran, bounds>>

DispatchNext ==
  LET c == sched.next IN
  /\ sched.stage = "made" /\ KindOf[c] \in {"read", "write"}
  /\ log' = Sent(log, c) /\ worker' = [worker EXCEPT ![c] = "going"]
  /\ sched' = [sched EXCEPT !.next = @ + 1, !.stage = "next", !.barrier = Alone(c)]
  /\ UNCHANGED <<entry, pend, drive, watch, dec, stop, said, ran, bounds>>

(* A worker that starts after the cancellation does nothing.               *)
Starts(c) ==
  /\ worker[c] = "going"
  /\ IF cancelled THEN worker' = [worker EXCEPT ![c] = "over"] /\ UNCHANGED ran
     ELSE /\ worker' = [worker EXCEPT ![c] = "acting"]
          /\ ran' = [ran EXCEPT ![c] = IF @ < 2 THEN @ + 1 ELSE @]
  /\ UNCHANGED <<log, entry, pend, sched, drive, watch, dec, stop, said, bounds>>

Ends(c) ==
  /\ worker[c] = "acting" /\ worker' = [worker EXCEPT ![c] = "over"]
  /\ UNCHANGED <<log, entry, pend, sched, drive, watch, dec, stop, said, ran, bounds>>

Join ==
  /\ sched.by # "none" /\ sched.stage = "next" /\ (Ready = {} \/ sched.failing) /\ (MayAdmit => Running = {})
  /\ \E c \in Calls :
       /\ worker[c] = "over" /\ worker' = [worker EXCEPT ![c] = "idle"]
       /\ sched' = [sched EXCEPT !.ready = IF sched.failing THEN @ ELSE @ \cup {c},
                                 !.barrier = @ /\ Running # {c}]
  /\ UNCHANGED <<log, entry, pend, drive, watch, dec, stop, said, ran, bounds>>

Fault ==
  /\ sched.by # "none" /\ ~sched.failing /\ sched.stage # "asked" /\ faults < Faults /\ faults' = faults + 1
  /\ sched' = [sched EXCEPT !.failing = TRUE, !.stage = "next", !.ready = {}]
  /\ UNCHANGED <<log, entry, pend, worker, drive, watch, dec, stop, said, ran, wakes, crashes>>

(* An approval: the record is published before the entry is told to wait.  *)
AskRequest ==
  LET c == sched.next IN
  /\ sched.stage = "made" /\ KindOf[c] = "ask" /\ sched' = [sched EXCEPT !.stage = "asked"]
  /\ log' = [Approval(log, c, "requested") EXCEPT !.step = FALSE]
  /\ pend' = [pend EXCEPT ![c] = "requested"]
  /\ UNCHANGED <<entry, worker, drive, watch, dec, stop, said, ran, bounds>>

Drop(p, c) == [p EXCEPT ![c] = "none"]

Acquires == stop = "no" /\ phase = "running" /\ drive = "off" /\ log.open

Settlement ==
  LET drained == ~sched.failing /\ sched.stage = "next" /\ Running = {} /\ sched.ready = {}
  IN  IF sched.failing /\ Running = {} THEN "failed"
      ELSE IF sched.stage = "asked" THEN "waiting"
      ELSE IF drained /\ cancelled THEN "cancelled"
      ELSE IF drained /\ sched.next > N THEN "completed" ELSE "none"

Unaccepted == {c \in Calls : c >= sched.next /\ ~log.call[c].made}
LeftOver   == {c \in Calls : c >= sched.next}

Return ==
  LET how == Settlement IN
  /\ sched.by # "none" /\ how # "none" /\ sched' = NoSched
  /\ phase' = IF how \in {"waiting", "failed"} THEN "waiting" ELSE phase
  /\ log' = CASE how = "failed"    -> LET l == Failure(NotStarted(log, Unaccepted))
                                      IN  IF sched.by = "watch" THEN Closed(l) ELSE l
              [] how = "cancelled" -> LET l == NotStarted(log, LeftOver)
                                      IN  IF sched.by = "driver" THEN Closed(l) ELSE l
              [] how = "completed" -> [log EXCEPT !.step = FALSE]
              [] how = "waiting"   -> log
  /\ drive' = CASE sched.by = "driver" ->
                     CASE how = "completed" -> "lead" [] how = "cancelled" -> "off" [] OTHER -> "settled"
                [] sched.by = "watch" /\ how = "completed" -> IF Acquires THEN "lead" ELSE drive
                [] OTHER -> drive
  /\ watch' = IF sched.by = "watch" THEN IF how = "waiting" THEN "watch" ELSE "off" ELSE watch
  /\ dec' = IF sched.by # "decide" THEN dec
            ELSE [dec EXCEPT !.at = IF how = "failed" THEN "off" ELSE "ended"]
  /\ pend' = IF sched.by = "decide" /\ how = "failed" THEN Drop(pend, dec.call) ELSE pend
  /\ UNCHANGED <<up, cancelled, worker, stop, said, ran, bounds>>

(* resume_after_tool, then the scheduler for what is left of the step.     *)
Continue(owner, c) == phase' = "running" /\ sched' = Begin(owner, c + 1)

----------------------------------------------------------------------------
(* A decision, or a resumed authorization, in the command that made it.    *)
Answers == {"approve", "reject", "late"}
Claims(c) == pend[c] = "requested"

After(answer) == IF answer = "approve" THEN "claimed" ELSE "continue"

Decide(c) ==
  /\ up /\ dec.at = "off" /\ Claims(c) /\ stop # "done"
  /\ \E answer \in Answers :
       /\ pend' = [pend EXCEPT ![c] = "executing"]
       /\ said' = [said EXCEPT ![c] = IF answer = "approve" THEN "approve" ELSE "reject"]
       /\ dec' = [at |-> After(answer), call |-> c]
       /\ log' = CASE After(answer) = "claimed" -> log
                   [] answer = "reject"         -> Settled(log, c, "rejected", "rejected")
                   [] OTHER                     -> Settled(log, c, "expired", "timedOut")
  /\ UNCHANGED <<entry, sched, worker, drive, watch, stop, ran, bounds>>

(* The policy is asked again: the approval is committed or withdrawn.      *)
Revalidate ==
  /\ dec.at = "claimed"
  /\ \/ log' = Approval(log, dec.call, "approved") /\ dec' = [dec EXCEPT !.at = "approved"]
     \/ log' = Settled(log, dec.call, "cancelled", "cancelled") /\ dec' = [dec EXCEPT !.at = "continue"]
  /\ UNCHANGED <<entry, pend, sched, worker, drive, watch, stop, said, ran, bounds>>

Dispatch ==
  /\ dec.at = "approved" /\ dec' = [dec EXCEPT !.at = "executing"]
  /\ log' = Sent(log, dec.call) /\ worker' = [worker EXCEPT ![dec.call] = "going"]
  /\ UNCHANGED <<entry, pend, sched, drive, watch, stop, said, ran, bounds>>

Finish ==
  /\ dec.at = "executing" /\ worker[dec.call] = "over"
  /\ dec' = [dec EXCEPT !.at = "continue"] /\ worker' = [worker EXCEPT ![dec.call] = "idle"]
  /\ \E status \in Outcomes : log' = Result(log, dec.call, status)
  /\ UNCHANGED <<entry, pend, sched, drive, watch, stop, said, ran, bounds>>

(* The log fails the decision: its guard reopens what was never decided.   *)
Reopened(c) == IF log.call[c].approval = "requested" THEN "requested" ELSE "none"
DecisionFails ==
  /\ dec.at \in {"claimed", "approved", "executing"} /\ worker[dec.call] \notin {"going", "acting"}
  /\ faults < Faults /\ faults' = faults + 1
  /\ dec' = NoDec /\ pend' = [pend EXCEPT ![dec.call] = Reopened(dec.call)]
  /\ worker' = [worker EXCEPT ![dec.call] = "idle"]
  /\ UNCHANGED <<log, entry, sched, drive, watch, stop, said, ran, wakes, crashes>>

ContinueDecided ==
  /\ dec.at = "continue" /\ sched.by = "none" /\ dec' = [dec EXCEPT !.at = "calls"]
  /\ Continue("decide", dec.call)
  /\ UNCHANGED <<log, up, cancelled, pend, worker, drive, watch, stop, said, ran, bounds>>

EndDecision ==
  /\ dec.at = "ended" /\ dec' = NoDec /\ pend' = Drop(pend, dec.call)
  /\ drive' = IF Acquires THEN "lead" ELSE drive
  /\ UNCHANGED <<log, entry, sched, worker, watch, stop, said, ran, bounds>>

----------------------------------------------------------------------------
(* The driver outside the scheduler, and the watcher of expiry.            *)
Wake ==
  /\ up /\ wakes < Wakes /\ wakes' = wakes + 1 /\ Acquires /\ drive' = "lead"
  /\ UNCHANGED <<log, entry, pend, sched, worker, watch, dec, stop, said, ran, faults, crashes>>

SettleWaiting ==
  /\ drive = "settled"
  /\ IF phase = "running" /\ ~cancelled
     THEN drive' = "lead" /\ UNCHANGED watch
     ELSE drive' = "off" /\ watch' = IF watch = "off" THEN "watch" ELSE watch
  /\ UNCHANGED <<log, entry, pend, sched, worker, dec, stop, said, ran, bounds>>

Lead ==
  /\ drive = "lead"
  /\ IF cancelled \/ ~log.open THEN drive' = "off" /\ log' = Closed(log)
     ELSE drive' = "model" /\ log' = [log EXCEPT !.asked = TRUE, !.step = TRUE]
  /\ UNCHANGED <<entry, pend, sched, worker, watch, dec, stop, said, ran, bounds>>

Reply ==
  /\ drive = "model" /\ drive' = "off" /\ log' = Closed(log)
  /\ UNCHANGED <<entry, pend, sched, worker, watch, dec, stop, said, ran, bounds>>

Watched == {c \in Calls : pend[c] = "requested"}
Expire ==
  /\ watch = "watch"
  /\ \/ /\ Watched = {} /\ watch' = "off" /\ UNCHANGED pend
     \/ /\ Watched # {} /\ watch' = "expired"
        /\ pend' = [pend EXCEPT ![CHOOSE c \in Watched : TRUE] = "expired"]
  /\ UNCHANGED <<log, entry, sched, worker, drive, dec, stop, said, ran, bounds>>

Expired ==
  /\ watch = "expired" /\ sched.by = "none" /\ watch' = "calls"
  /\ \E c \in Calls :
       /\ pend[c] = "expired" /\ pend' = [pend EXCEPT ![c] = "none"]
       /\ log' = Settled(log, c, "expired", "timedOut") /\ Continue("watch", c)
  /\ UNCHANGED <<up, cancelled, worker, drive, dec, stop, said, ran, bounds>>

----------------------------------------------------------------------------
(* Stop: cancel what is pending, join what executes, close the turn.       *)
StopBegin ==
  /\ Stops /\ up /\ stop = "no" /\ log.open /\ stop' = "cancelling" /\ cancelled' = TRUE
  /\ UNCHANGED <<log, up, phase, pend, sched, worker, drive, watch, dec, said, ran, bounds>>

Cancels(c) == pend[c] \in {"requested", "authorized"}

CancelPending(c) ==
  /\ stop = "cancelling" /\ Cancels(c) /\ pend' = [pend EXCEPT ![c] = "none"]
  /\ log' = NotStarted(Settled(log, c, "cancelled", "cancelled"), Rest(log, c))
  /\ UNCHANGED <<entry, sched, worker, drive, watch, dec, stop, said, ran, bounds>>

\* mutant: stop waits for the driver only
JoinsNothing == TRUE
Joins == \A c \in Calls : pend[c] # "executing"

StopStep ==
  /\ \/ /\ stop = "cancelling" /\ \A c \in Calls : ~Cancels(c)
        /\ stop' = "joining" /\ UNCHANGED <<log, phase>>
     \/ stop = "joining" /\ Joins /\ stop' = "closing" /\ UNCHANGED <<log, phase>>
     \/ stop = "closing" /\ drive = "off" /\ stop' = "done" /\ phase' = "disposed" /\ log' = Closed(log)
  /\ UNCHANGED <<up, cancelled, pend, sched, worker, drive, watch, dec, said, ran, bounds>>

----------------------------------------------------------------------------
(* The process dies and starts again.                                      *)
Crash ==
  /\ up /\ crashes < Crashes /\ crashes' = crashes + 1 /\ stop = "no" /\ log.open /\ ~log.asked
  /\ up' = FALSE /\ phase' = "running" /\ cancelled' = FALSE
  /\ pend' = [c \in Calls |-> "none"] /\ sched' = NoSched /\ worker' = [c \in Calls |-> "idle"]
  /\ drive' = "off" /\ watch' = "off" /\ dec' = NoDec
  /\ UNCHANGED <<log, stop, said, ran, wakes, faults>>

Restored(c, late) ==
  LET k == log.call[c] IN
  CASE k.result # "none"                    -> "none"
    [] k.approval = "approved" /\ ~k.sent   -> "authorized"
    [] k.approval = "requested" /\ ~late    -> "requested"
    [] OTHER                                -> "none"

Start ==
  /\ ~up /\ up' = TRUE
  /\ \E late \in BOOLEAN :
       LET timedOut == {c \in Calls : late /\ log.call[c].approval = "requested"
                                           /\ log.call[c].result = "none"}
       IN  /\ pend' = [c \in Calls |-> Restored(c, late)]
           /\ IF Checkpoint(log) = "none" THEN log' = Closed(log) /\ phase' = "waiting" /\ UNCHANGED drive
              ELSE IF timedOut = {}
              THEN /\ phase' = "waiting" /\ UNCHANGED drive
                   /\ log' = [log EXCEPT !.required = @ \/ Checkpoint(log) = "execution"]
              ELSE LET c == CHOOSE c \in timedOut : TRUE
                   IN  /\ log' = NotStarted(Settled(log, c, "expired", "timedOut"), Rest(log, c))
                       /\ phase' = "running" /\ drive' = "lead"
  /\ UNCHANGED <<cancelled, sched, worker, watch, dec, stop, said, ran, bounds>>

(* The recovery commands, which the user is offered while the agent waits. *)
Offered == up /\ phase = "waiting" /\ dec.at = "off" /\ sched.by = "none" /\ drive = "off"
              /\ watch \in {"off", "watch"} /\ stop = "no"

ResumeAuthorized ==
  /\ Offered /\ Checkpoint(log) = "authorized" /\ ~log.required
  /\ \E c \in Calls : /\ pend[c] = "authorized" /\ pend' = [pend EXCEPT ![c] = "executing"]
                      /\ dec' = [at |-> "approved", call |-> c]
  /\ UNCHANGED <<log, entry, sched, worker, drive, watch, stop, said, ran, bounds>>

ResumeRecovery ==
  /\ Offered /\ Checkpoint(log) \in {"model", "committed"} /\ log.open
  /\ log' = [log EXCEPT !.step = FALSE, !.required = FALSE]
  /\ phase' = "running" /\ drive' = "lead"
  /\ UNCHANGED <<up, cancelled, pend, sched, worker, watch, dec, stop, said, ran, bounds>>

Reconcile ==
  /\ Offered /\ Checkpoint(log) = "execution" /\ log.open
  /\ \E c \in Calls, status \in {"completed", "cancelled"} :
       /\ Uncertain(log, c) /\ \A d \in Calls : Uncertain(log, d) => d <= c
       /\ log' = [Result(log, c, status) EXCEPT !.step = FALSE, !.required = FALSE]
  /\ phase' = "running" /\ drive' = "lead"
  /\ UNCHANGED <<up, cancelled, pend, sched, worker, watch, dec, stop, said, ran, bounds>>

----------------------------------------------------------------------------
Machine == \/ Commit \/ Drain \/ Admit \/ DispatchNext \/ Join \/ AskRequest \/ Return
           \/ Revalidate \/ Dispatch \/ Finish \/ ContinueDecided \/ EndDecision
           \/ SettleWaiting \/ Lead \/ Reply \/ Expire \/ Expired \/ StopStep
           \/ \E c \in Calls : Starts(c) \/ Ends(c) \/ CancelPending(c)
World   == \/ Fault \/ DecisionFails \/ Wake \/ StopBegin \/ Crash \/ Start
           \/ ResumeAuthorized \/ ResumeRecovery \/ Reconcile \/ \E c \in Calls : Decide(c)
Next == Machine \/ World
Spec == Init /\ [][Next]_vars

(* Every task of the process goes on, and tools and models answer; when   *)
(* users decide, stop or restart is up to them.                            *)
FairSpec ==
  /\ Spec
  /\ WF_vars(Commit \/ Drain \/ Admit \/ DispatchNext \/ Join \/ AskRequest \/ Return)
  /\ WF_vars(Revalidate \/ Dispatch \/ Finish \/ ContinueDecided \/ EndDecision)
  /\ WF_vars(SettleWaiting \/ Lead \/ Reply) /\ WF_vars(Expire \/ Expired)
  /\ WF_vars(StopStep) /\ \A c \in Calls : WF_vars(Starts(c) \/ Ends(c)) /\ WF_vars(CancelPending(c))
----------------------------------------------------------------------------
(* No call takes effect twice, crashes and recoveries included: what was   *)
(* dispatched is never dispatched again.                                   *)
NoReplay == \A c \in Calls : ran[c] <= 1

(* What needs an approval takes effect only after the user's, and what the *)
(* policy rejected never does.                                             *)
OnlyAllowed ==
  \A c \in Calls : ran[c] > 0 => /\ KindOf[c] \notin {"bad", "plan"}
                                 /\ KindOf[c] = "ask" => said[c] = "approve"

(* An exclusive call runs with no other beside it, and only when every     *)
(* call before it has its result.                                          *)
RunsAlone ==
  \A c \in Calls : worker[c] = "acting" /\ KindOf[c] # "read" =>
    \A d \in Calls \ {c} : worker[d] # "acting" /\ (d < c => log.call[d].result # "none")

(* Results are committed in the model's order, however calls overlap and   *)
(* decisions, expiry and stop come, unless a failure rejects what was not  *)
(* begun or a crash leaves calls of unknown outcome, reconciled last first.*)
InOrder ==
  faults = 0 /\ crashes = 0 =>
    \A c, d \in Calls : d < c /\ log.call[c].result # "none" => log.call[d].result # "none"

(* Whatever order decision, expiry, stop and scheduler come in, none of    *)
(* them appends an event the log refuses: each call is settled once.  Not  *)
(* so after a failure and a crash: what the failure rejected behind an     *)
(* authorized call is admitted again when the call is resumed.             *)
NothingRefused == faults = 0 \/ crashes = 0 => ~log.refused

(* When stop returns no tool of the agent is at work, but for one that the *)
(* watcher of expiry runs: stop joins the driver and the decisions only.   *)
StopIsQuiet ==
  stop = "done" => \A c \in Calls : worker[c] = "acting" => sched.by = "watch"

(* The next request is built only when every call of the step has its      *)
(* result.                                                                 *)
HistoryIsComplete == drive = "model" => \A c \in Calls : log.call[c].result # "none"

(* A decision that was accepted returns, and so does stop.                 *)
DecisionsEnd == dec.at # "off" ~> dec.at = "off"
StopEnds == stop = "cancelling" ~> stop = "done"

(* After a stop no call of the step stays without a result.                *)
NothingLeftBehind == stop = "done" ~> \A c \in Calls : log.call[c].result # "none"

(* An approval nobody answers expires.                                     *)
ApprovalsExpire == \A c \in Calls : pend[c] = "requested" ~> pend[c] # "requested"
=============================================================================
