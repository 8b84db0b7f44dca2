------------------------------- MODULE Fleet -------------------------------
(* The Fleet coordinator (subagent.rs): a plan over ordered targets in waves; a run
   takes one planned target after the other through four child Agents - explorer,
   operator, verifier, reviewer - and stops at the failure threshold; commands and
   tools pause, resume, abort and reconcile. The plan is changed in memory, in short
   critical sections; its copy in the parent's log is appended later, outside them.
   The children themselves are SubAgents'. *)
EXTENDS Naturals, FiniteSets

CONSTANTS
  NumTargets,   \* the targets of the request, in its order
  Canary, Wave, Threshold,   \* the policy of the plan
  Runners,      \* the calls of start and resume (commands, or tools of the parent)
  Controls,     \* the calls of pause, abort and reconcile
  Ops,          \* what those calls may ask: "pause", "abort", "reconcile"
  MaxStarts, MaxControls, MaxCrashes   \* bounds

Targets == 1..NumTargets

PolicyAssumption ==
  /\ NumTargets \in Nat \ {0}
  /\ Canary \in 1..NumTargets /\ Wave \in Nat \ {0} /\ Threshold \in Nat
  /\ {MaxStarts, MaxControls, MaxCrashes} \subseteq Nat

VARIABLES
  fleet,    \* the FleetRuntime in memory
  loaded,   \* whether it is there
  logged,   \* the last fleet state in the parent's log
  runner,   \* [Runners -> the run in progress]
  control,  \* [Controls -> the call in progress]
  alive,    \* the role children whose driver may still work
  worked,   \* how often an operator finished its work on a target (the world's view)
  used      \* how often the bounded choices were taken

vars == <<fleet, loaded, logged, runner, control, alive, worked, used>>

Roles     == 1..4        \* Explorer, Operator, Verifier, Reviewer
Operator  == 2
Stages    == <<"exploring", "operating", "verifying", "reviewing">>
Finished  == {"completed", "failed"}
Terminal  == {"completed", "aborted", "failed"}

\* create_fleet: the canary first, then waves of equal size.
WaveOf(t) == IF t <= Canary THEN 1 ELSE 2 + ((t - Canary - 1) \div Wave)
TotalWaves == 1 + ((NumTargets - Canary + Wave - 1) \div Wave)
Plan ==
  [status |-> "planned", failures |-> 0, wave |-> 0,
   state |-> [t \in Targets |-> "planned"], kids |-> {}]

Idle == [pc |-> "idle", target |-> 1, role |-> 1, failed |-> FALSE, copy |-> Plan, kids |-> {}]
Init ==
  /\ fleet = Plan /\ loaded = TRUE /\ logged = Plan
  /\ runner = [r \in Runners |-> Idle] /\ control = [c \in Controls |-> Idle]
  /\ alive = {} /\ worked = [t \in Targets |-> 0]
  /\ used = [w \in {"starts", "controls", "crashes", "kids"} |-> 0]

Count(what)   == [used EXCEPT ![what] = @ + 1]
Loaded        == IF loaded THEN fleet ELSE logged          \* ensure_fleet_loaded
Runs(r, pc)   == runner[r].pc = pc
Goes(r, pc)   == runner' = [runner EXCEPT ![r].pc = pc]
Planned       == {t \in Targets : fleet.state[t] = "planned"}
Last(S)       == CHOOSE t \in S : \A u \in S : u <= t    \* mutant: takes the last one
First(S)      == CHOOSE t \in S : \A u \in S : t <= u

(* --------------------------------- run_fleet ------------------------------ *)
Start(r) ==
  /\ Runs(r, "idle") /\ used["starts"] < MaxStarts /\ used' = Count("starts")
  /\ loaded' = TRUE
  /\ IF Loaded.status \in Terminal
       THEN fleet' = Loaded /\ UNCHANGED runner
       ELSE fleet' = [Loaded EXCEPT !.status = "running"] /\ Goes(r, "pick")
  /\ UNCHANGED <<logged, control, alive, worked>>

\* The next planned target, read in one critical section; none left, the end is
\* decided in another.
Pick(r) ==
  /\ Runs(r, "pick")
  /\ runner' = [runner EXCEPT ![r] =
       IF fleet.status # "running" THEN Idle
       ELSE IF Planned = {} THEN [@ EXCEPT !.pc = "finish"]
       ELSE [@ EXCEPT !.pc = "take", !.target = First(Planned), !.role = 1, !.failed = FALSE]]
  /\ UNCHANGED <<fleet, loaded, logged, control, alive, worked, used>>
Verdict == IF fleet.failures > Threshold THEN "failed" ELSE "completed"
Finish(r) ==
  /\ Runs(r, "finish")
  /\ fleet' = [fleet EXCEPT !.status = Verdict]
  /\ runner' = [runner EXCEPT ![r].pc = "last", ![r].copy = fleet']
  /\ UNCHANGED <<loaded, logged, control, alive, worked, used>>
Take(r) ==
  LET t == runner[r].target IN
  /\ Runs(r, "take")
  /\ fleet' = [fleet EXCEPT !.wave = WaveOf(t), !.state[t] = "exploring"]
  /\ Goes(r, "create")
  /\ UNCHANGED <<loaded, logged, control, alive, worked, used>>

\* One role: the child is created and woken, then listed, then it settles: completed
\* or failed by itself, or cancelled from outside.
Kid(r) == <<runner[r].target, runner[r].role, used["kids"]>>
Create(r) ==
  /\ Runs(r, "create") /\ used' = Count("kids")
  /\ alive' = alive \cup {Kid(r)}
  /\ runner' = [runner EXCEPT ![r].pc = "list", ![r].kids = {Kid(r)}]
  /\ UNCHANGED <<fleet, loaded, logged, control, worked>>
List(r) ==
  LET t == runner[r].target IN
  /\ Runs(r, "list")
  /\ fleet' = [fleet EXCEPT !.kids = @ \cup runner[r].kids, !.state[t] = Stages[runner[r].role]]
  /\ Goes(r, "wait")
  /\ UNCHANGED <<loaded, logged, control, alive, worked, used>>
Settles(r) ==
  LET t == runner[r].target  mine == runner[r].kids IN
  /\ Runs(r, "wait") /\ UNCHANGED <<fleet, loaded, logged, control, used>>
  /\ \/ /\ mine \subseteq alive /\ alive' = alive \ mine                  \* completed
        /\ worked' = IF runner[r].role = Operator THEN [worked EXCEPT ![t] = @ + 1] ELSE worked
        /\ runner' = [runner EXCEPT
             ![r].role = IF @ = 4 THEN 4 ELSE @ + 1,
             ![r].pc = IF runner[r].role = 4 THEN "score" ELSE "create"]
     \/ /\ alive' = alive \ mine /\ UNCHANGED worked           \* failed or cancelled
        /\ runner' = [runner EXCEPT ![r].failed = TRUE, ![r].pc = "score"]

\* The target's outcome and the threshold; the copy that is appended is taken here.
Over(f)     == f > Threshold
\* mutant: a failed target is planned again
ScoredAgain(f, t, failed) ==
  IF ~failed THEN [f EXCEPT !.state[t] = "completed"]
  ELSE [f EXCEPT !.failures = @ + 1, !.state[t] = "planned",
                 !.status = IF Over(f.failures + 1) THEN "failed" ELSE @]
Scored(f, t, failed) ==
  IF ~failed THEN [f EXCEPT !.state[t] = "completed"]
  ELSE [f EXCEPT !.failures = @ + 1, !.state[t] = "failed",
                 !.status = IF Over(f.failures + 1) THEN "failed" ELSE @]
Score(r) ==
  /\ Runs(r, "score")
  /\ fleet' = Scored(fleet, runner[r].target, runner[r].failed)
  /\ runner' = [runner EXCEPT ![r].pc = "write", ![r].copy = fleet']
  /\ UNCHANGED <<loaded, logged, control, alive, worked, used>>
Write(r) ==
  /\ Runs(r, "write") \/ Runs(r, "last")
  /\ logged' = runner[r].copy
  /\ runner' = [runner EXCEPT ![r] =
       IF Runs(r, "last") \/ runner[r].copy.status = "failed" THEN Idle ELSE [@ EXCEPT !.pc = "pick"]]
  /\ UNCHANGED <<fleet, loaded, control, alive, worked, used>>

(* ------------------- pause, abort, reconcile: set_fleet_status ------------ *)
Status(op) == IF op = "pause" THEN "paused" ELSE "aborted"
\* A reconciliation changes no target: it notes evidence and settles an "uncertain"
\* target, which no code makes one.
Asked(op)  == IF op = "reconcile" THEN Loaded ELSE [Loaded EXCEPT !.status = Status(op)]
Control(c) ==
  /\ control[c].pc = "idle" /\ used["controls"] < MaxControls /\ used' = Count("controls")
  /\ loaded' = TRUE
  /\ \E op \in Ops :
       IF op # "reconcile" /\ Loaded.status \in Terminal
         THEN fleet' = Loaded /\ UNCHANGED control
         ELSE /\ fleet' = Asked(op)
              /\ control' = [control EXCEPT ![c].pc = op, ![c].copy = fleet', ![c].kids = fleet'.kids]
  /\ UNCHANGED <<logged, runner, alive, worked>>
Record(c) ==
  /\ control[c].pc \in Ops
  /\ logged' = control[c].copy
  /\ control' = [control EXCEPT ![c] = IF @.pc = "abort" THEN [@ EXCEPT !.pc = "cancel"] ELSE Idle]
  /\ UNCHANGED <<fleet, loaded, runner, alive, worked, used>>
\* abort_fleet: the children listed when the status changed, those not ended yet.
Cancel(c) ==
  /\ control[c].pc = "cancel"
  /\ LET left == control[c].kids \cap alive IN
       IF left = {}
         THEN control' = [control EXCEPT ![c] = [Idle EXCEPT !.pc = "aborted"]] /\ UNCHANGED alive
         ELSE (\E k \in left : alive' = alive \ {k}) /\ UNCHANGED control
  /\ UNCHANGED <<fleet, loaded, logged, runner, worked, used>>

\* The process dies: the log keeps the last copy, the children start nothing again.
Crash ==
  /\ used["crashes"] < MaxCrashes /\ used' = Count("crashes")
  /\ loaded' = FALSE /\ fleet' = logged /\ alive' = {}
  /\ runner' = [r \in Runners |-> Idle] /\ control' = [c \in Controls |-> Idle]
  /\ UNCHANGED <<logged, worked>>

(* ------------------------------ specification ---------------------------- *)
Run(r)  == \/ Pick(r) \/ Finish(r) \/ Take(r) \/ Create(r) \/ List(r)
           \/ Settles(r) \/ Score(r) \/ Write(r)
Next ==
  \/ \E r \in Runners : Start(r) \/ Run(r)
  \/ \E c \in Controls : Control(c) \/ Record(c) \/ Cancel(c)
  \/ Crash
Spec == Init /\ [][Next]_vars
\* A run and a control that has begun go on; a child settles (SubAgents).
FairSpec == /\ Spec /\ \A r \in Runners : WF_vars(Run(r))
            /\ \A c \in Controls : WF_vars(Record(c)) /\ WF_vars(Cancel(c))

(* ------------------------------- properties ------------------------------ *)
TypeOK ==
  /\ \A f \in {fleet, logged} :
       /\ f.status \in Terminal \cup {"planned", "running", "paused"}
       /\ f.state \in [Targets -> Finished \cup {"planned"} \cup {Stages[i] : i \in Roles}]
       /\ f.wave \in 0..TotalWaves /\ f.failures \in Nat
  /\ \A k \in alive : k[1] \in Targets /\ k[2] \in Roles

Begins(t) == fleet.state[t] = "planned" /\ fleet'.state[t] = "exploring"
\* A wave begins when every target of the waves before it has its outcome: the
\* canary decides before anybody else is touched.  So while runs do not overlap:
\* nothing keeps a second start or resume from running beside the first.
WavesInOrder ==
  [][\A t \in Targets : Begins(t) =>
       \A u \in Targets : WaveOf(u) < WaveOf(t) => fleet.state[u] \in Finished]_vars

\* Past the failure threshold no further target is touched, while runs do not overlap.
ThresholdHolds ==
  [][\A t \in Targets : Begins(t) =>
       Cardinality({u \in Targets : fleet.state[u] = "failed"}) <= Threshold]_vars

\* A target is completed after all four roles have, the operator exactly once; of two
\* runs at once both may take it, and then each runs an operator.
WorkedOnce == \A t \in Targets :
  /\ worked[t] <= 1
  /\ fleet.state[t] = "completed" => worked[t] = 1

\* A run that nobody pauses or aborts comes to an end of the plan.
RunEnds == \A r \in Runners : ~Runs(r, "idle") ~> Runs(r, "idle")

\* "Resume a paused Fleet from its durable checkpoint", "Fleet run settled": when the
\* plan is completed every target has its outcome and no child works on.
CompletedMeansDone ==
  fleet.status = "completed" => alive = {} /\ \A t \in Targets : fleet.state[t] \in Finished

\* "terminal Fleet cannot change state"
TerminalStays == [][fleet.status \in Terminal /\ loaded' => fleet'.status = fleet.status]_vars

\* "Abort a Fleet and cancel every active target child tree": when the abort has
\* returned nothing works on.
AbortIsQuiet == (\E c \in Controls : control[c].pc = "aborted") => alive = {}

============================================================================
