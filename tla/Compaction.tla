------------------------------ MODULE Compaction ------------------------------
(* Compaction of an Agent's history: the log of a session, the surface a request is made
   of, and the four places where the driver replaces a prefix of the history by a summary
   (compaction.rs, surface.rs, driver.rs). A step asks for at most one tool call, named
   after the step. Sizes are counted in units: a message is one, a tool result two. *)
EXTENDS Naturals, Sequences, FiniteSets, FiniteSetsExt

CONSTANTS
  Threshold, Target, Hard,  \* compaction_threshold_tokens, compaction_target_tokens, the hard limit
  MaxItems,                 \* MAX_COMPACTION_ITEMS: tool outcomes a checkpoint lists
  MaxTurns, MaxSteps, MaxStops, MaxCrashes, MaxFaults  \* bounds

BudgetAssumption ==
  /\ Target \in Nat /\ Threshold \in Nat /\ Hard \in Nat /\ Target < Threshold /\ Threshold <= Hard
  /\ MaxItems \in Nat \ {0}

VARIABLES
  log,        \* the committed events
  pc,         \* the driver
  turn, step, \* its scope (0: none)
  op,         \* the compaction that runs: volatile
  cancelled,  \* the cancellation of the entry
  tried,      \* prepared_budget_recovery_attempted of the step
  lost,       \* history variable: a marker was left behind by a crash or a failed write
  used

vars == <<log, pc, turn, step, op, cancelled, tried, lost, used>>

Event(k) == [k |-> k, turn |-> turn, step |-> step, gen |-> 0, thr |-> 0, w |-> 0,
             st |-> "", id |-> 0, listed |-> {}]
Idx       == DOMAIN log
Kind(K)   == {i \in Idx : log[i].k \in K}
NoOp      == [site |-> "none", id |-> 0, gen |-> 0, len |-> 0, est |-> 0, left |-> <<>>,
              first |-> 0, thr |-> 0, w |-> 0]

Init ==
  /\ log = <<>> /\ pc = "idle" /\ turn = 0 /\ step = 0 /\ op = NoOp /\ cancelled = FALSE
  /\ tried = FALSE /\ lost = FALSE
  /\ used = [turns |-> 0, steps |-> 0, ops |-> 0, stops |-> 0, crashes |-> 0, faults |-> 0]

Log(es) == log' = log \o es
Open    == IF step = 0 THEN <<>> ELSE <<Event("stepEnd")>>
Close   == Open \o (IF turn = 0 THEN <<>> ELSE <<[Event("turnEnd") EXCEPT !.step = 0]>>)
Recovery(st) == [Event("recovery") EXCEPT !.turn = 0, !.step = 0, !.st = st]

(* ------------------------------- the surface ------------------------------- *)
Summaries  == Kind({"summary"})
Through    == IF Summaries = {} THEN 0 ELSE log[Max(Summaries)].thr
Generation == IF Summaries = {} THEN 0 ELSE log[Max(Summaries)].gen
Steps(w, K) == {log[i].step : i \in {j \in w : log[j].k \in K}}
\* A call without a result when its turn ends gets a synthetic one; a later result, and
\* the one that settles an unknown outcome, take the place of the earlier.
Closed(w) == {log[i].step : i \in {j \in w : log[j].k = "call" /\
                \E c \in w : c > j /\ log[c].k \in {"turnEnd", "resumed"}}}
Answered(w) == Steps(w, {"result"}) \cup Closed(w)
SizeAfter(thr, w, n) ==  \* of the first n events, those up to thr replaced by a summary of w
  LET tail == (thr + 1)..n IN
  w + Cardinality({i \in tail : log[i].k \in {"user", "call", "text"}}) + 2 * Cardinality(Answered(tail))
Size == SizeAfter(Through, IF Summaries = {} THEN 0 ELSE log[Max(Summaries)].w, Len(log))

(* ------------------------------- the boundaries ------------------------------- *)
\* A start without its end; a session that is resumed starts afresh.
InFlight ==
  \E i \in Kind({"start"}) : /\ \A j \in Kind({"end"}) : log[j].id # log[i].id
                             /\ \A j \in Kind({"resumed"}) : j < i
Settled == {0} \cup {i \in Kind({"recovery"}) : log[i].st # "required"}
\* The first recovery that is still required: nothing from it on is a boundary.
Unresolved == {i \in Kind({"recovery"}) : i > Max(Settled)}
Safe(w) ==
  /\ Steps(w, {"call"}) \subseteq Steps(w, {"result"})
  /\ Steps(w, {"requested"}) \subseteq Steps(w, {"decided"})
  /\ LET r == {i \in w : log[i].k = "recovery"} IN r # {} => log[Max(r)].st # "required"
Starts(i) == IF log[i].k = "stepEnd"
             THEN {j \in (Through + 1)..(i - 1) : log[j].k = "step" /\ log[j].step = log[i].step}
             ELSE {j \in (Through + 1)..(i - 1) : /\ log[j].k = "turn" /\ log[j].turn = log[i].turn
                                                  /\ \A e \in (j + 1)..(i - 1) : log[e].k # "turnEnd"}
\* Where the search stops: at the end of the active turn, and at what is not recovered.
Limit(active) == Min({Len(log) + 1} \cup Unresolved \cup
                     {i \in Kind({"turnEnd"}) : i > Through /\ log[i].turn = active /\ Starts(i) # {}})
Boundaries(active) ==
  {i \in Kind({"stepEnd", "turnEnd"}) :
     /\ i > Through /\ i < Limit(active) /\ Starts(i) # {} /\ Safe((Through + 1)..i)}
\* The first that is enough, else the last; when it does not do, the last is tried.
Enough(i, est) == est + 1 - (Size - SizeAfter(i, 0, Len(log))) <= Target
Attempts(active, est) ==
  LET all == Boundaries(active)
      first == IF \E i \in all : Enough(i, est) THEN Min({i \in all : Enough(i, est)}) ELSE Max(all)
  IN IF first = Max(all) THEN <<first>> ELSE <<first, Max(all)>>

(* ------------------------------- compact ------------------------------- *)
\* The snapshot is taken and the start appended; a failed write leaves nothing behind.
MayStart == ~InFlight /\ Boundaries(turn) # {}
Compact(site, est) ==
  /\ MayStart
  /\ op' = [NoOp EXCEPT !.site = site, !.id = used.ops + 1, !.gen = Generation + 1, !.len = Len(log),
                        !.est = est, !.left = Attempts(turn, est), !.first = Head(Attempts(turn, est))]
  /\ Log(<<[Event("start") EXCEPT !.id = used.ops + 1]>>) /\ pc' = "attempt"
  /\ used' = [used EXCEPT !.ops = @ + 1]
Pending     == IF turn = 0 THEN 1 ELSE 0  \* input the next step claims
Projected(b, w) == op.est - Size + SizeAfter(b, w, op.len)
Fits(b, w)  == \/ Projected(b, w) <= Target
               \/ Projected(b, w) < Threshold /\ Projected(b, w) < op.est
\* What the model makes of the text: a summary of 1 or 2, none in time or of use (0), an error.
Synthesized == 0..3
Fails       == pc' = "finish" /\ UNCHANGED <<op, cancelled>>
Skip        == op' = [op EXCEPT !.left = Tail(@)] /\ UNCHANGED <<pc, cancelled>>
Take(b, w)  == op' = [op EXCEPT !.w = w, !.thr = b] /\ pc' = "commit" /\ UNCHANGED cancelled
\* One attempt: what no summary can save is not tried; a summary that is not to be had is
\* replaced by an extract at the end of a step, and is a failure at the end of a turn.
Attempt ==
  /\ pc = "attempt" /\ UNCHANGED <<log, turn, step, tried, lost, used>>
  /\ IF cancelled \/ op.left = <<>> THEN Fails
     ELSE LET b == Head(op.left) IN
          IF Projected(b, 0) >= Threshold THEN Skip
          ELSE \E r \in Synthesized :
                 LET extract == r = 0 /\ log[b].k = "stepEnd"
                     w == IF extract THEN 1 ELSE r
                 IN IF r = 3 \/ (r = 0 /\ ~extract) THEN Fails ELSE IF Fits(b, w) THEN Take(b, w) ELSE Skip
Listed(b) == {i \in Kind({"result"}) : i <= b /\
                Cardinality({j \in Kind({"result"}) : j > i /\ j <= b}) < MaxItems}
Ended(thr, st) == [Event("end") EXCEPT !.id = op.id, !.gen = op.gen, !.thr = thr, !.st = st]
\* Summary and end are one batch.
Commit ==
  /\ pc = "commit" /\ UNCHANGED <<turn, step, cancelled, tried, lost>>
  /\ \/ /\ ~cancelled /\ pc' = "done" /\ UNCHANGED <<op, used>>
        /\ Log(<<[Event("summary") EXCEPT !.gen = op.gen, !.thr = op.thr, !.w = op.w,
                                          !.listed = Listed(op.thr)], Ended(op.thr, "completed")>>)
     \/ /\ pc' = "finish" /\ UNCHANGED <<log, op>>
        /\ \/ cancelled /\ UNCHANGED used
           \/ used.faults < MaxFaults /\ used' = [used EXCEPT !.faults = @ + 1]
Finish ==
  /\ pc = "finish" /\ pc' = "failed" /\ UNCHANGED <<turn, step, op, cancelled, tried>>
  /\ \/ Log(<<Ended(op.first, IF cancelled THEN "cancelled" ELSE "failed")>>) /\ UNCHANGED <<lost, used>>
     \/ /\ used.faults < MaxFaults /\ used' = [used EXCEPT !.faults = @ + 1]
        /\ lost' = TRUE /\ UNCHANGED log

(* ------------------------------- the driver ------------------------------- *)
\* The scope is closed; a pause for want of room also clears the recovery.
Stopped(es) ==
  /\ Log(Close \o es) /\ turn' = 0 /\ step' = 0 /\ pc' = "idle" /\ op' = NoOp /\ cancelled' = FALSE
  /\ UNCHANGED <<tried, lost, used>>
PauseContextBudget == Stopped(<<Recovery("none")>>)
\* mutant: the operation is kept
ToKeeping(p) == pc' = p /\ UNCHANGED <<op, log, turn, step, cancelled, tried, lost, used>>
\* The turn goes on at p without an operation.
To(p) == pc' = p /\ op' = NoOp /\ UNCHANGED <<log, turn, step, cancelled, tried, lost, used>>
Without(site, est) ==
  IF est > Hard /\ turn = 0 THEN To("overfull")
  ELSE IF site \in {"prepared", "tooLarge"} \/ est > Hard THEN PauseContextBudget
  ELSE To(IF site = "hook" THEN "claim" ELSE "prepare")
Budgeted(site, est, otherwise) ==
  IF est < Threshold THEN To(otherwise)
  ELSE IF MayStart THEN Compact(site, est) /\ UNCHANGED <<turn, step, cancelled, tried, lost>>
  ELSE Without(site, est)
Settle ==
  /\ pc \in {"done", "failed"}
  /\ IF cancelled THEN Stopped(<<>>)
     ELSE IF pc = "failed" THEN Without(op.site, op.est)
     ELSE To(IF op.site = "hook" THEN "claim" ELSE "step")

Begin ==
  /\ pc = "idle" /\ used.turns < MaxTurns /\ used.steps < MaxSteps
  /\ pc' = "hook" /\ used' = [used EXCEPT !.turns = @ + 1]
  /\ UNCHANGED <<log, turn, step, op, cancelled, tried, lost>>
Hook == pc = "hook" /\ Budgeted("hook", Size + Pending, "claim")
\* Input there is no room for is claimed, too: it belongs to the turn it stops.
Claim ==
  LET t == IF turn = 0 THEN used.turns ELSE turn
      E(k, s) == [Event(k) EXCEPT !.turn = t, !.step = s]
      new == used.steps + 1
  IN /\ pc \in {"claim", "overfull"} /\ pc' = (IF pc = "claim" THEN "step" ELSE "pause")
     /\ turn' = t /\ step' = new /\ tried' = FALSE
     /\ Log((IF turn = 0 THEN <<E("turn", 0)>> ELSE <<>>) \o <<E("step", new)>> \o
            (IF turn = 0 THEN <<E("user", new)>> ELSE <<>>))
     /\ used' = [used EXCEPT !.steps = new] /\ UNCHANGED <<op, cancelled, lost>>
Pause    == pc = "pause" /\ PauseContextBudget
Assemble == pc = "step" /\ Budgeted("input", Size, "prepare")
\* What the provider is sent may be larger than what was assembled; one attempt a step.
Prepare ==
  \E est \in Size..(Size + 1) :
    /\ pc = "prepare"
    /\ IF est <= Hard THEN To("send")
       ELSE IF tried THEN PauseContextBudget
       ELSE IF ~MayStart THEN Without("prepared", est)
       ELSE Compact("prepared", est) /\ tried' = TRUE /\ UNCHANGED <<turn, step, cancelled, lost>>
TooLarge ==
  /\ pc = "send" /\ used.faults < MaxFaults
  /\ IF MayStart THEN /\ Compact("tooLarge", Size) /\ UNCHANGED <<turn, step, cancelled, tried, lost>>
     ELSE Without("tooLarge", Size)
Answer ==
  /\ pc = "send" /\ Log(<<Event("text")>> \o Close) /\ turn' = 0 /\ step' = 0 /\ pc' = "idle"
  /\ UNCHANGED <<op, cancelled, tried, lost, used>>
Call ==
  /\ pc = "send" /\ used.steps < MaxSteps /\ UNCHANGED <<turn, step, op, cancelled, tried, lost, used>>
  /\ \/ Log(<<Event("call"), Event("exec")>>) /\ pc' = "run"
     \/ Log(<<Event("call"), Event("requested"), Event("stepEnd")>>) /\ pc' = "approval"
Decide ==  \* an approval runs the tool, anything else is its result
  /\ pc = "approval" /\ UNCHANGED <<turn, op, cancelled, tried, lost, used>>
  /\ \/ Log(<<Event("decided"), Event("exec")>>) /\ pc' = "run" /\ UNCHANGED step
     \/ Log(<<Event("decided"), Event("result"), Event("stepEnd")>>) /\ pc' = "hook" /\ step' = 0
Result ==
  /\ pc = "run" /\ step' = 0 /\ UNCHANGED <<turn, op, cancelled, tried, lost, used>>
  /\ \/ Log(<<Event("result"), Event("stepEnd")>>) /\ pc' = "hook"
     \/ /\ pc' = "waiting"
        /\ Log(<<[Event("result") EXCEPT !.st = "uncertain"], Event("stepEnd"), Recovery("required")>>)
Stop ==
  /\ used.stops < MaxStops
  /\ \/ /\ pc \in {"attempt", "commit", "finish"} /\ ~cancelled /\ cancelled' = TRUE
        /\ UNCHANGED <<log, pc, turn, step, op>>
     \/ /\ pc \in {"claim", "overfull", "step", "prepare", "send", "run", "approval", "waiting"}
        /\ Log(CASE pc = "run" -> <<Event("result")>> \o Close
                 [] pc = "approval" -> <<Event("decided"), Event("result"), [Event("turnEnd") EXCEPT !.step = 0]>>
                 [] OTHER -> Close)
        /\ turn' = 0 /\ step' = 0 /\ pc' = "idle" /\ UNCHANGED <<op, cancelled>>
  /\ used' = [used EXCEPT !.stops = @ + 1] /\ UNCHANGED <<tried, lost>>

(* ------------------------------- recovery ------------------------------- *)
\* The calls whose outcome is not known: the last of them is settled by hand, at any time
\* nothing runs, and its turn then goes on.
Known(w) == {log[i].step : i \in {j \in w : log[j].k = "result" /\ log[j].st # "uncertain"}}
Unknown  == Steps(Idx, {"exec"}) \ Known(Idx)
Reconcile ==
  /\ pc \in {"waiting", "idle"} /\ Unknown # {}
  /\ LET s == Max(Unknown)
         t == log[CHOOSE i \in Kind({"exec"}) : log[i].step = s].turn
         E(k) == [Event(k) EXCEPT !.turn = t, !.step = s]
     IN /\ Log(<<E("result")>> \o (IF s \in Steps(Idx, {"stepEnd"}) THEN <<>> ELSE <<E("stepEnd")>>)
               \o <<Recovery("done")>>)
        /\ turn' = t
  /\ step' = 0 /\ pc' = "hook" /\ UNCHANGED <<op, cancelled, tried, lost, used>>
Crash ==
  /\ used.crashes < MaxCrashes /\ used' = [used EXCEPT !.crashes = @ + 1]
  /\ pc \in {"attempt", "commit", "finish", "run"} /\ pc' = "down" /\ op' = NoOp /\ cancelled' = FALSE
  /\ lost' = (lost \/ pc # "run") /\ UNCHANGED <<log, turn, step, tried>>
\* A step that had claimed its input goes on; a dispatched call waits to be settled; with a
\* compaction in flight all that is left is to abort the session.
Restart ==
  /\ pc = "down"
  /\ IF step # 0 /\ step \notin Steps(Idx, {"call", "text"}) THEN To("step")
     ELSE IF step \in Unknown
     THEN /\ Log(<<Recovery("required")>>) /\ pc' = "waiting"
          /\ UNCHANGED <<turn, step, op, cancelled, tried, lost, used>>
     ELSE To("blocked")
Abort ==
  /\ pc = "blocked" /\ Log(Close) /\ turn' = 0 /\ step' = 0 /\ pc' = "ended"
  /\ UNCHANGED <<op, cancelled, tried, lost, used>>
Resume ==
  /\ pc = "ended" /\ used.turns < MaxTurns /\ Log(<<Event("resumed")>>) /\ pc' = "idle" /\ lost' = FALSE
  /\ UNCHANGED <<turn, step, op, cancelled, tried, used>>

Compacts == Attempt \/ Commit \/ Finish
Drives   == Settle \/ Hook \/ Claim \/ Pause \/ Assemble \/ Prepare \/ TooLarge \/ Answer \/ Call \/ Result
Next == Compacts \/ Drives \/ Begin \/ Decide \/ Stop \/ Reconcile \/ Crash \/ Restart \/ Abort \/ Resume
Spec == Init /\ [][Next]_vars
FairSpec == Spec /\ WF_vars(Compacts \/ Drives)

(* ------------------------------- properties ------------------------------- *)
TypeOK ==
  /\ turn \in 0..MaxTurns /\ step \in Nat /\ cancelled \in BOOLEAN /\ tried \in BOOLEAN /\ lost \in BOOLEAN
  /\ pc \in {"idle", "hook", "claim", "overfull", "pause", "step", "prepare", "send", "run", "approval", "waiting",
             "attempt", "commit", "finish", "done", "failed", "down", "blocked", "ended"}
  /\ (op # NoOp) = (pc \in {"attempt", "commit", "finish", "done", "failed"})
  /\ \A i \in Idx : log[i].thr < i /\ log[i].listed \subseteq 1..log[i].thr

\* Every log that is written can be read again: generations follow each other, what is
\* replaced grows and ends where a step or a turn does, also in what a failure reports.
Before(i) == {j \in Summaries : j < i}
Advances(i) ==
  /\ log[log[i].thr].k \in {"stepEnd", "turnEnd"}
  /\ log[i].gen = Cardinality(Before(i)) + 1
  /\ \A j \in Before(i) : log[j].thr < log[i].thr
LogDerives ==
  /\ \A i \in Summaries : Advances(i) /\ i < Len(log) /\ log[i + 1].k = "end" /\ log[i + 1].st = "completed"
  /\ \A i \in Kind({"end"}) :
       IF log[i].st = "completed" THEN log[i - 1].k = "summary" /\ log[i - 1].thr = log[i].thr ELSE Advances(i)

\* A request is never made of a history the provider's protocol refuses: every call in it
\* has a result, and every result its call. The exception is a call whose outcome was
\* reported as unknown and then summarised: an unknown outcome counts as a result where
\* boundaries are looked for, so the one that settles it later has its call in the summary.
Doubtful == {log[i].step : i \in {j \in Kind({"result"}) : j <= Through /\ log[j].st = "uncertain"}}
HistoryAccepted ==
  pc = "send" =>
    LET tail == (Through + 1)..Len(log) IN Steps(tail, {"call"}) = Answered(tail) \ Doubtful

\* A call whose outcome is not known, and that was replaced by a summary, is in the last
\* summary's list, unless as many results came after it as the list holds.
UnknownStaysKnown ==
  Summaries # {} =>
    LET s == log[Max(Summaries)] IN
    \A i \in Kind({"result"}) :
      i <= s.thr /\ log[i].st = "uncertain" /\ log[i].step \in Unknown
        => i \in s.listed \/ Cardinality({j \in s.listed : j > i}) = MaxItems

\* A compaction leaves a marker that blocks later ones only when the application died or
\* the log could not be written.
MarkersClose == InFlight /\ ~lost => pc \in {"attempt", "commit", "finish"}

\* A turn settles, whatever the sizes are and however often a compaction fails.
TurnSettles == (pc = "hook") ~> (pc \in {"idle", "waiting", "approval", "down", "ended"})
===============================================================================
