------------------------------ MODULE MCAgentWork ------------------------------
(* What an agent's turn is made of, and what its work is shown as: small instances of nine
   components.  They share no state; "part" says which of them a behaviour is about. *)
EXTENDS Naturals, Sequences, TLC

CONSTANTS None

VARIABLES part,   \* the component this behaviour is about
  toolsLog, up, phase, toolsCancelled, pend, sched, toolsWorker, toolsDrive, watch, dec, stop,
  toolsSaid, ran, wakes, toolsFaults, crashes,
  inbox, childLog, childSaid, status, ended, archived, dropped, pending, loading, stage,
  scope, halt, childCrashes, told,
  kidsLog, entry, handle, kidsDrive, over, call, gate, barred, detached, done, kidsUsed,
  fleet, loaded, logged, runner, control, alive, worked, fleetUsed,
  compactionLog, compactionPc, turn, step, op, compactionCancelled, tried, lost,
  compactionUsed,
  stepPc, run, stepLog, sink, channel, lock, stepWorker, flusher, broken, stepCancelled, late,
  stepFaults,
  history, lengths, loopChanged, loopSeen, failures, histogram, loopUsed, queue, loopPc,
  steps, since, round,
  dialect, fault, streamSaid, prov, wire, streamPart, conn, acc, shown, streamSeen, timer,
  token, outcome, answer, repeats,
  clock, guards, activities, finished, watermarks, categories, prefs, enabled, success,
  failed, preview, results, slots, ownerOrder, copy, copied, petChanged, settings

\* One step of a turn: calls that overlap, wait for the user or for time to run out, or run
\* alone; a stop, a failure and a crash.
Turn == INSTANCE ToolCalls WITH
  N <- 5, KindOf <- <<"read","read","ask","write","read">>, Limit <- 2, Wakes <- 0, Stops <- TRUE,
  Faults <- 1, Crashes <- 1, log <- toolsLog, cancelled <- toolsCancelled,
  worker <- toolsWorker, drive <- toolsDrive, said <- toolsSaid, faults <- toolsFaults
\* The Session of a sub-agent, whose input is discarded where a root's is kept.
Child == INSTANCE AgentSession WITH
  Msgs <- {"m1", "m2"}, UserMsgs <- {"m1"}, IsRoot <- FALSE, TurnLimit <- 1, MaxSteps <- 3,
  MaxCrashes <- 2, log <- childLog, said <- childSaid, crashes <- childCrashes
\* A child that can be continued, its parent's tools and the user.
Children == INSTANCE SubAgents WITH
  Root <- "root", Kids <- {"a"}, Parent <- [k \in {"a"} |-> "root"], Lasting <- {"a"},
  Tools <- {"spawn","send","retry","cancel"}, Commands <- {"send","cancel","stop"},
  MaxCommands <- 1, MaxSends <- 1, MaxFails <- 1, MaxPauses <- 0, MaxTimeouts <- 0,
  MaxCrashes <- 1, log <- kidsLog, drive <- kidsDrive, used <- kidsUsed
\* A child with a child of its own, which the user cancels and stops.
Tree == INSTANCE SubAgents WITH
  Root <- "root", Kids <- {"a","b"},
  Parent <- [k \in {"a","b"} |-> IF k = "b" THEN "a" ELSE "root"], Lasting <- {},
  Tools <- {"spawn"}, Commands <- {"cancel","stop"}, MaxCommands <- 2, MaxSends <- 0,
  MaxFails <- 0, MaxPauses <- 0, MaxTimeouts <- 0, MaxCrashes <- 0, log <- kidsLog,
  drive <- kidsDrive, used <- kidsUsed
\* Three targets in two waves, run twice, with a pause, abort or reconciliation.
Coordinator == INSTANCE Fleet WITH
  NumTargets <- 3, Canary <- 1, Wave <- 2, Threshold <- 1, Runners <- {"r1"},
  Controls <- {"c1"}, Ops <- {"pause","abort","reconcile"}, MaxStarts <- 2, MaxControls <- 1,
  MaxCrashes <- 0, used <- fleetUsed
\* Two turns of three steps; every second step fills the budget.
Compacted == INSTANCE Compaction WITH
  Threshold <- 5, Target <- 3, Hard <- 7, MaxItems <- 2, MaxTurns <- 2,
  MaxSteps <- 3, MaxStops <- 1, MaxCrashes <- 1, MaxFaults <- 1, log <- compactionLog,
  pc <- compactionPc, cancelled <- compactionCancelled, used <- compactionUsed
\* One request, retried, with a buffer of one event and a channel of two.
Request == INSTANCE ModelStep WITH
  MaxTokens <- 6, Near <- 2, Reserve <- 2, PolicyAttempts <- 2, NetworkAttempts <- 2,
  MaxChunks <- 2, BatchMax <- 1, ChannelSize <- 2, MaxSteps <- 1, MaxFaults <- 1,
  pc <- stepPc, log <- stepLog, worker <- stepWorker, cancelled <- stepCancelled,
  faults <- stepFaults
\* Every sequence of nine steps of two kinds: longer than twice the longest cycle.
Loops == INSTANCE LoopDetector WITH
  Signatures <- {1,2}, Evidence <- {}, Files <- {}, Periods <- 3, Limit <- 2, MaxSteps <- 9,
  MaxUser <- 0, MaxEdits <- 0, changed <- loopChanged, seen <- loopSeen, used <- loopUsed,
  pc <- loopPc
\* A text and a tool call of two fragments each, in every dialect, a frame repeated.
Answers == INSTANCE ProviderStream WITH
  Dialects <- {"anthropic","chat","cumulative","responses","ollama"},
  Keys <- {"text","tool"}, Tools <- {"tool"}, Whole <- 2,
  MaxRepeats <- 1, Errors <- {}, said <- streamSaid, part <- streamPart, seen <- streamSeen
\* A conversation and a transfer with two runs; the user changes the settings once.
Bubbles == INSTANCE PetArbiter WITH
  Tasks <- {<<"ai", "chat">>, <<"sftp", "copy">>}, Started <- {"running"},
  Reported <- {"approval", "succeeded"}, MaxRuns <- 2, MaxRevision <- 1, MaxTime <- 1,
  MaxDelay <- 0, MaxSettings <- 1, SuccessTtl <- 1, FailureTtl <- 2, HistoryLimit <- 1,
  MessagesOn <- TRUE, changed <- petChanged

Parts ==
  {"tools", "child", "kids", "tree", "fleet", "compaction", "step", "loop", "stream", "pet"}
ASSUME Instances ==
  /\ Turn!ToolAssumption
  /\ Children!TreeAssumption
  /\ Tree!TreeAssumption
  /\ Coordinator!PolicyAssumption
  /\ Compacted!BudgetAssumption
  /\ Request!StepAssumption
  /\ Loops!LoopAssumption
  /\ Answers!StreamAssumption
  /\ Bubbles!TtlAssumption

toolsVars ==
  <<toolsLog, up, phase, toolsCancelled, pend, sched, toolsWorker, toolsDrive, watch, dec,
    stop, toolsSaid, ran, wakes, toolsFaults, crashes>>
childVars ==
  <<inbox, childLog, childSaid, status, ended, archived, dropped, pending, loading, stage,
    scope, halt, childCrashes, told>>
kidsVars ==
  <<kidsLog, entry, handle, kidsDrive, over, call, gate, barred, detached, done, kidsUsed>>
fleetVars ==
  <<fleet, loaded, logged, runner, control, alive, worked, fleetUsed>>
compactionVars ==
  <<compactionLog, compactionPc, turn, step, op, compactionCancelled, tried, lost,
    compactionUsed>>
stepVars ==
  <<stepPc, run, stepLog, sink, channel, lock, stepWorker, flusher, broken, stepCancelled,
    late, stepFaults>>
loopVars ==
  <<history, lengths, loopChanged, loopSeen, failures, histogram, loopUsed, queue, loopPc,
    steps, since, round>>
streamVars ==
  <<dialect, fault, streamSaid, prov, wire, streamPart, conn, acc, shown, streamSeen, timer,
    token, outcome, answer, repeats>>
petVars ==
  <<clock, guards, activities, finished, watermarks, categories, prefs, enabled, success,
    failed, preview, results, slots, ownerOrder, copy, copied, petChanged, settings>>
all ==
  <<part, toolsVars, childVars, kidsVars, fleetVars, compactionVars, stepVars, loopVars, streamVars,
  petVars>>

\* The components a behaviour is not about stay in one initial state.
PartsInit ==
  /\ part \in Parts
  /\ Turn!Init
  /\ Child!Init
  /\ CASE part = "tree" -> Tree!Init
       [] OTHER -> Children!Init
  /\ Coordinator!Init
  /\ Compacted!Init
  /\ Request!Init
  /\ Loops!Init
  /\ Answers!Init
  /\ part = "stream" \/ dialect = "chat"
  /\ Bubbles!Init

PartsNext ==
  /\ UNCHANGED part
  /\ \/ part = "tools" /\ Turn!Next
     \/ part = "child" /\ Child!Next
     \/ part = "kids" /\ Children!Next
     \/ part = "tree" /\ Tree!Next
     \/ part = "fleet" /\ Coordinator!Next
     \/ part = "compaction" /\ Compacted!Next
     \/ part = "step" /\ Request!Next
     \/ part = "loop" /\ Loops!Next
     \/ part = "stream" /\ Answers!Next
     \/ part = "pet" /\ Bubbles!Next
  /\ part # "tools" => UNCHANGED toolsVars
  /\ part # "child" => UNCHANGED childVars
  /\ part \notin {"kids", "tree"} => UNCHANGED kidsVars
  /\ part # "fleet" => UNCHANGED fleetVars
  /\ part # "compaction" => UNCHANGED compactionVars
  /\ part # "step" => UNCHANGED stepVars
  /\ part # "loop" => UNCHANGED loopVars
  /\ part # "stream" => UNCHANGED streamVars
  /\ part # "pet" => UNCHANGED petVars

PartsSpec == PartsInit /\ [][PartsNext]_all

\* What tells two states apart: the rest does not change.
Seen == <<part, CASE part = "tools" -> toolsVars
                 [] part = "child" -> childVars
                 [] part \in {"kids", "tree"} -> kidsVars
                 [] part = "fleet" -> fleetVars
                 [] part = "compaction" -> compactionVars
                 [] part = "step" -> stepVars
                 [] part = "loop" -> loopVars
                 [] part = "stream" -> streamVars
                 [] part = "pet" -> petVars>>

(* ------------------------------- properties ------------------------------- *)

\* Each component's state keeps its shape.
PartsTypeOK ==
  CASE part = "tools" -> Turn!TypeOK
    [] part = "child" -> Child!TypeOK
    [] part = "kids" -> Children!TypeOK
    [] part = "tree" -> Tree!TypeOK
    [] part = "fleet" -> Coordinator!TypeOK
    [] part = "compaction" -> Compacted!TypeOK
    [] part = "step" -> Request!TypeOK
    [] part = "loop" -> Loops!TypeOK
    [] part = "stream" -> Answers!TypeOK
    [] part = "pet" -> Bubbles!TypeOK

\* What has been done is not done again: a tool call takes effect once, whatever dies and is
\* recovered (tool_pipeline.rs); a fleet's operator works once on a target, as long as no
\* second run of the plan is started beside the first (subagent.rs); a model call is tried a
\* bounded number of times (driver.rs); a bubble that has ended is not shown again
\* (arbiter.rs).
DoneOnce ==
  /\ part = "tools" => Turn!NoReplay
  /\ part = "fleet" => Coordinator!WorkedOnce
  /\ part = "step" => Request!TriedBounded
  /\ part = "pet" => Bubbles!NothingReplayed

\* When a stop or a cancellation has returned, nothing it named is at work or comes back: no
\* tool acts but those the watcher of expiry runs, which a stop does not join; no driver runs
\* in the tree, and none for an agent that was taken out of the registry; the Session of a
\* sub-agent that ended holds no input that could run (tool_pipeline.rs, subagent.rs,
\* session.rs).
StopsHold ==
  /\ part = "child" => Child!EndedHoldsInput
  /\ part = "tools" => Turn!StopIsQuiet
  /\ part = "kids" => Children!NoGhost /\ Children!CancelHolds
  /\ part = "tree" => Tree!NoGhost /\ Tree!CancelHolds /\ Tree!StopIsQuiet

\* What acts may act, in an order the log and the provider accept: a call runs after the
\* approval it needs and alone if it must; results are committed in the model's order until
\* something fails, and nobody appends an event the log refuses, unless calls are recovered
\* after a failure and a crash; the log of a compaction derives, each request's history pairs
\* its calls with results, except for a call whose unknown outcome was summarised before it
\* was settled, and such a call stays listed; a detector counts exactly the repeated cycles
\* of the steps that made no progress.
AsPermitted ==
  /\ part = "tools" => Turn!RunsAlone /\ Turn!OnlyAllowed /\ Turn!NothingRefused /\ Turn!InOrder
  /\ part = "compaction" => Compacted!LogDerives /\ Compacted!HistoryAccepted /\ Compacted!MarkersClose
     /\ Compacted!UnknownStaysKnown
  /\ part = "step" => Request!WithinBudget /\ Request!AskedWhileRunning
  /\ part = "loop" => Loops!CountsCycles
  /\ part = "pet" => Bubbles!DetailsAllowed

\* An answer is the whole of what the provider said, the log has it in the order it came,
\* and what is kept of it is what was shown (stream parsers, driver.rs, event batching); a
\* copy of a bubble that counts as current is the bubble, and no bubble changes while its
\* writer sleeps (petdex/message_snapshot.rs, petdex/arbiter.rs).
AnswersAreWhole ==
  /\ part = "stream" => Answers!AnswersAreWhole /\ Answers!ShownIsSaid
  /\ part = "step" => Request!ChunksInOrder /\ Request!KeptIsShown
  /\ part = "pet" => Bubbles!CurrentIsSame /\ Bubbles!SleepsThroughNothing /\ Bubbles!EveryoneOnce

\* A wave of a fleet begins after the waves before it and below the failure threshold, as
\* long as one run at a time works on the plan; a message to a child starts no second turn; an
\* owner that stays keeps its bubble's place and
\* a short prompt of a source runs to its end (petdex/slots.rs, petdex/arbiter.rs).
StepsInOrder ==
  /\ Coordinator!WavesInOrder /\ Coordinator!ThresholdHolds /\ Children!ServedOnce
  /\ Bubbles!KeepsSlot /\ Bubbles!PromptRunsOut
================================================================================
