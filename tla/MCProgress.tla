------------------------------ MODULE MCProgress -------------------------------
(* What must end: sixteen small instances of components under the fairness of their
   threads and tasks.  They share no state; "part" says which of them a behaviour is about. *)
EXTENDS Naturals, Sequences, TLC

CONSTANTS k1, c1, c2, p1, p2, x1, User, NoOne

VARIABLES part,   \* the component this behaviour is about
  toolsLog, up, toolsPhase, toolsCancelled, pend, sched, toolsWorker, drive, watch, dec,
  toolsStop, toolsSaid, ran, wakes, toolsFaults, crashes,
  stepPc, run, stepLog, sink, channel, lock, stepWorker, flusher, broken, stepCancelled,
  stepLate, stepFaults,
  pool, idle, unverified, inflight, slots, conns, sftpCaller, calls, sftpFaults,
  forwardOps, forwardWorker, forwardView, forwardStart, forwardStop, forwardMain,
  forwardClosing,
  orphanOps, orphanWorker, orphanView, orphanStart, orphanStop, orphanMain, orphanClosing,
  probeCaller, probeWorker, scope, watcher, bridge, probeStop, handed, probeOutcome, net,
  world, tool, checks, pagesPhase, pagesOutcome, visited, files, pagesUsed, results, cut,
  stable, cursor, basis, got, pagesTold, changes,
  processKind, processCaller, processWorker, os, life, confirmed, mail, processLate, pending,
  expired, sent, writes, writer, tracked, killer, processToken, processStop,
  compactionLog, compactionPc, compactionTurn, step, op, compactionCancelled, tried, lost,
  compactionUsed,
  dialect, fault, streamSaid, prov, wire, streamPart, conn, acc, shown, seen, timer,
  streamToken, streamOutcome, answer, repeats,
  file, inside, plan, at, temp, backup, kept, flagged, stopped, displaced, drifted, put,
  filesOutcome,
  spent,
  leaseTurn, takenOver, leaseFenced, leaseGuard, leaseLease, leaseReady, owner, broker, reg,
  n, leasePc, leaseKind, leaseCmd, leaseStop, leaseCloser, leaseShell, moves, stops, stray,
  fleet, loaded, logged, runner, control, alive, worked, fleetUsed,
  managed, sshChan, flags, attempt, sshWorker, waiter, sshCloser, terms, transports, order,
  io, typed, sshTold, agent,
  interactiveTurn, interactiveCancelled, call, interactiveLease, interactiveReady,
  interactiveGuard, interactiveFenced, active, tomb, sweep, taker, interactiveCloser, usable,
  away, interactiveLate, orphans, interactiveOps, turns, takeovers,
  native, jobsShell, line, jobsChan, rec, jobsCmd, prep, job, next, jobsCaller, jobsCancelled

K(far, how) == [remote |-> far, call |-> how]
Two(x, y) == (p1 :> x) @@ (p2 :> y)

Plan(how, isRemote, from, to) ==
  [kind |-> how, remote |-> isRemote, dry |-> FALSE, expects |-> from, writes |-> to]
SomePlans ==
  {Plan("patch", r, "a", "b") : r \in BOOLEAN} \cup {Plan("transfer", TRUE, "a", "c")}

\* A step of two reads and a call the user is asked about; the turn may be stopped.
Turn == INSTANCE ToolCalls WITH
  N <- 3, KindOf <- <<"read", "read", "ask">>, Limit <- 2, Wakes <- 0, Stops <- TRUE,
  Faults <- 0, Crashes <- 0, log <- toolsLog, phase <- toolsPhase,
  cancelled <- toolsCancelled, worker <- toolsWorker, stop <- toolsStop, said <- toolsSaid,
  faults <- toolsFaults
\* One request, retried, with a buffer of one event and a channel of two.
Request == INSTANCE ModelStep WITH
  MaxTokens <- 6, Near <- 2, Reserve <- 2, PolicyAttempts <- 2, NetworkAttempts <- 2,
  MaxChunks <- 1, BatchMax <- 1, ChannelSize <- 2, MaxSteps <- 1, MaxFaults <- 0,
  pc <- stepPc, log <- stepLog, worker <- stepWorker, cancelled <- stepCancelled,
  late <- stepLate, faults <- stepFaults
\* Two callers of one key, two calls in all, one fault.
Pool == INSTANCE SftpPool WITH
  Callers <- {c1,c2}, Keys <- {k1}, MaxCalls <- 2, MaxFaults <- 1, caller <- sftpCaller,
  faults <- sftpFaults
\* A local forward that the user stops.
Forward == INSTANCE PortForward WITH
  MaxOps <- 1, Owners <- {"a"}, Users <- {"u"}, Stoppers <- {"s"}, Local <- TRUE,
  MaxHistory <- 1, ops <- forwardOps, worker <- forwardWorker, view <- forwardView,
  start <- forwardStart, stop <- forwardStop, main <- forwardMain, closing <- forwardClosing
\* A local forward whose owner closes.
Ownerless == INSTANCE PortForward WITH
  MaxOps <- 1, Owners <- {"a"}, Users <- {"u"}, Stoppers <- {}, Local <- TRUE,
  MaxHistory <- 1, ops <- orphanOps, worker <- orphanWorker, view <- orphanView,
  start <- orphanStart, stop <- orphanStop, main <- orphanMain, closing <- orphanClosing
\* A probe through a jump host.
Probe == INSTANCE LoopbackProbe WITH
  Jump <- TRUE, Req <- 1, Resp <- 1, caller <- probeCaller, worker <- probeWorker,
  stop <- probeStop, outcome <- probeOutcome
\* A search, listing or reading of two files in pages.
Pages == INSTANCE FilePages WITH
  Paths <- 1..2, Contents <- {<<1>>, <<1, 2>>}, Hits <- {<<1>>, <<1, 2>>}, Named <- {2},
  Heavy <- {}, MaxFiles <- 2, MaxBytes <- 3, PageSize <- 2, PageBytes <- 3, MaxChanges <- 1,
  phase <- pagesPhase, outcome <- pagesOutcome, used <- pagesUsed, told <- pagesTold
\* Two local processes of a task.
Processes == INSTANCE NativeProcess WITH
  Procs <- {p1,p2}, Kinds <- {Two(K(FALSE, "background"), K(FALSE, "exec"))}, Capacity <- 2,
  MaxRunning <- 1, WriteSize <- 2, MaxWrites <- 0, kind <- processKind,
  caller <- processCaller, worker <- processWorker, late <- processLate,
  token <- processToken, stop <- processStop
\* A turn of two steps whose budget is exceeded.
Compacted == INSTANCE Compaction WITH
  Threshold <- 5, Target <- 3, Hard <- 7, MaxItems <- 2, MaxTurns <- 1,
  MaxSteps <- 2, MaxStops <- 1, MaxCrashes <- 1, MaxFaults <- 1, log <- compactionLog,
  pc <- compactionPc, turn <- compactionTurn, cancelled <- compactionCancelled,
  used <- compactionUsed
\* A text and a tool call of two fragments each from one provider, which may stall.
Answers == INSTANCE ProviderStream WITH
  Dialects <- {"chat"}, Keys <- {"text","tool"}, Tools <- {"tool"}, Whole <- 2,
  MaxRepeats <- 0, Errors <- {}, said <- streamSaid, part <- streamPart,
  token <- streamToken, outcome <- streamOutcome
\* One call of a file tool; another program edits the file.
Files == INSTANCE FileTools WITH
  Ops <- {"o1"}, Values <- {"a","b","c"}, Plans <- SomePlans, Capacity <- 2, MaxEdits <- 1,
  MaxRefused <- 0, MaxLost <- 0, MaxCrashes <- 0, outcome <- filesOutcome
\* An agent in a shell, and the user.
Lease == INSTANCE TerminalLease WITH
  Agents <- {x1}, Ancestors <- [a \in {x1} |-> {}], Kinds <- {"typed","native"}, MaxOps <- 1,
  UserMoves <- 1, Stops <- 1, MaxEvents <- 1, CanRollBack <- FALSE,
  turn <- leaseTurn, fenced <- leaseFenced, guard <- leaseGuard, lease <- leaseLease,
  ready <- leaseReady, pc <- leasePc, kind <- leaseKind, cmd <- leaseCmd, stop <- leaseStop,
  closer <- leaseCloser, shell <- leaseShell
\* Two targets in two waves; a pause, abort or reconciliation.
Coordinator == INSTANCE Fleet WITH
  NumTargets <- 2, Canary <- 1, Wave <- 1, Threshold <- 1, Runners <- {"r1"},
  Controls <- {"c1"}, Ops <- {"pause","abort","reconcile"}, MaxStarts <- 1, MaxControls <- 1,
  MaxCrashes <- 0, used <- fleetUsed
\* A session whose network may fail and that the user closes.
Session == INSTANCE TerminalSessions WITH
  Sessions <- {x1}, NoSession <- NoOne, Replaces <- [s \in {x1} |-> NoOne], Capacity <- 1,
  MaxChunks <- 1, MaxInputs <- 0, Events <- {"close","network"}, chan <- sshChan,
  worker <- sshWorker, closer <- sshCloser, told <- sshTold
\* An agent with one command, and a user who takes over once and may close the terminal.
Interactive == INSTANCE InteractiveTerminal WITH
  Agents <- {x1}, Ancestors <- [x \in {x1} |-> {}], MaxOps <- 1, MaxTurns <- 1,
  MaxTakeovers <- 1, CanClose <- TRUE, turn <- interactiveTurn,
  cancelled <- interactiveCancelled, lease <- interactiveLease, ready <- interactiveReady,
  guard <- interactiveGuard, fenced <- interactiveFenced, closer <- interactiveCloser,
  late <- interactiveLate, ops <- interactiveOps
\* A background job, and the end of its task.
Jobs == INSTANCE ShellJobs WITH
  MaxOps <- 1, Degrades <- FALSE, shell <- jobsShell, chan <- jobsChan, cmd <- jobsCmd,
  caller <- jobsCaller, cancelled <- jobsCancelled

Parts ==
  {"tools", "step", "sftp", "forward", "orphan", "probe", "pages", "process", "compaction",
  "stream", "files", "lease", "fleet", "ssh", "interactive", "jobs"}
ASSUME Instances ==
  /\ Turn!ToolAssumption
  /\ Request!StepAssumption
  /\ Forward!BoundsAssumption
  /\ Ownerless!BoundsAssumption
  /\ Probe!ProbeAssumption
  /\ Pages!PagesAssumption
  /\ Processes!ProcessAssumption
  /\ Compacted!BudgetAssumption
  /\ Answers!StreamAssumption
  /\ Files!FileAssumption
  /\ Lease!TerminalAssumption
  /\ Coordinator!PolicyAssumption
  /\ Session!TerminalsAssumption
  /\ Interactive!InteractiveAssumption
  /\ Jobs!MaxOpsAssumption

toolsVars ==
  <<toolsLog, up, toolsPhase, toolsCancelled, pend, sched, toolsWorker, drive, watch, dec,
    toolsStop, toolsSaid, ran, wakes, toolsFaults, crashes>>
stepVars ==
  <<stepPc, run, stepLog, sink, channel, lock, stepWorker, flusher, broken, stepCancelled,
    stepLate, stepFaults>>
sftpVars ==
  <<pool, idle, unverified, inflight, slots, conns, sftpCaller, calls, sftpFaults>>
forwardVars ==
  <<forwardOps, forwardWorker, forwardView, forwardStart, forwardStop, forwardMain,
    forwardClosing>>
orphanVars ==
  <<orphanOps, orphanWorker, orphanView, orphanStart, orphanStop, orphanMain, orphanClosing>>
probeVars ==
  <<probeCaller, probeWorker, scope, watcher, bridge, probeStop, handed, probeOutcome, net>>
pagesVars ==
  <<world, tool, checks, pagesPhase, pagesOutcome, visited, files, pagesUsed, results, cut,
    stable, cursor, basis, got, pagesTold, changes>>
processVars ==
  <<processKind, processCaller, processWorker, os, life, confirmed, mail, processLate,
    pending, expired, sent, writes, writer, tracked, killer, processToken, processStop>>
compactionVars ==
  <<compactionLog, compactionPc, compactionTurn, step, op, compactionCancelled, tried, lost,
    compactionUsed>>
streamVars ==
  <<dialect, fault, streamSaid, prov, wire, streamPart, conn, acc, shown, seen, timer,
    streamToken, streamOutcome, answer, repeats>>
filesVars ==
  <<file, inside, plan, at, temp, backup, kept, flagged, stopped, displaced, drifted, put,
    filesOutcome, spent>>
leaseVars ==
  <<leaseTurn, takenOver, leaseFenced, leaseGuard, leaseLease, leaseReady, owner, broker,
    reg, n, leasePc, leaseKind, leaseCmd, leaseStop, leaseCloser, leaseShell, moves, stops,
    stray>>
fleetVars ==
  <<fleet, loaded, logged, runner, control, alive, worked, fleetUsed>>
sshVars ==
  <<managed, sshChan, flags, attempt, sshWorker, waiter, sshCloser, terms, transports, order,
    io, typed, sshTold, agent>>
interactiveVars ==
  <<interactiveTurn, interactiveCancelled, call, interactiveLease, interactiveReady,
    interactiveGuard, interactiveFenced, active, tomb, sweep, taker, interactiveCloser,
    usable, away, interactiveLate, orphans, interactiveOps, turns, takeovers>>
jobsVars ==
  <<native, jobsShell, line, jobsChan, rec, jobsCmd, prep, job, next, jobsCaller,
    jobsCancelled>>
all ==
  <<part, toolsVars, stepVars, sftpVars, forwardVars, orphanVars, probeVars, pagesVars,
  processVars, compactionVars, streamVars, filesVars, leaseVars, fleetVars, sshVars,
  interactiveVars, jobsVars>>

\* The components a behaviour is not about stay in one initial state.
PartsInit ==
  /\ part \in Parts
  /\ Turn!Init
  /\ Request!Init
  /\ Pool!Init
  /\ Forward!Init
  /\ Ownerless!Init
  /\ Probe!Init
  /\ Pages!Init
  /\ part = "pages" \/ (tool = "list" /\ checks /\ world = [p \in 1..2 |-> Pages!Gone])
  /\ Processes!Init
  /\ Compacted!Init
  /\ Answers!Init
  /\ Files!Init
  /\ part = "files" \/ (file = "a" /\ plan = [o \in {"o1"} |-> Plan("transfer", TRUE, "a", "c")])
  /\ Lease!Init
  /\ part = "lease" \/ leaseKind = [x \in {x1} |-> "typed"]
  /\ Coordinator!Init
  /\ Session!Init
  /\ Interactive!Init
  /\ Jobs!Init

PartsNext ==
  /\ UNCHANGED part
  /\ \/ part = "tools" /\ Turn!Next
     \/ part = "step" /\ Request!Next
     \/ part = "sftp" /\ Pool!Next
     \/ part = "forward" /\ Forward!Next
     \/ part = "orphan" /\ Ownerless!Next
     \/ part = "probe" /\ Probe!Next
     \/ part = "pages" /\ Pages!Next
     \/ part = "process" /\ Processes!Next
     \/ part = "compaction" /\ Compacted!Next
     \/ part = "stream" /\ Answers!Next
     \/ part = "files" /\ Files!Next
     \/ part = "lease" /\ Lease!Next
     \/ part = "fleet" /\ Coordinator!Next
     \/ part = "ssh" /\ Session!Next
     \/ part = "interactive" /\ Interactive!Next
     \/ part = "jobs" /\ Jobs!Next
  /\ part # "tools" => UNCHANGED toolsVars
  /\ part # "step" => UNCHANGED stepVars
  /\ part # "sftp" => UNCHANGED sftpVars
  /\ part # "forward" => UNCHANGED forwardVars
  /\ part # "orphan" => UNCHANGED orphanVars
  /\ part # "probe" => UNCHANGED probeVars
  /\ part # "pages" => UNCHANGED pagesVars
  /\ part # "process" => UNCHANGED processVars
  /\ part # "compaction" => UNCHANGED compactionVars
  /\ part # "stream" => UNCHANGED streamVars
  /\ part # "files" => UNCHANGED filesVars
  /\ part # "lease" => UNCHANGED leaseVars
  /\ part # "fleet" => UNCHANGED fleetVars
  /\ part # "ssh" => UNCHANGED sshVars
  /\ part # "interactive" => UNCHANGED interactiveVars
  /\ part # "jobs" => UNCHANGED jobsVars

PartsSpec == PartsInit /\ [][PartsNext]_all

\* What tells two states apart: the rest does not change.
Seen == <<part, CASE part = "tools" -> toolsVars
                 [] part = "step" -> stepVars
                 [] part = "sftp" -> sftpVars
                 [] part = "forward" -> forwardVars
                 [] part = "orphan" -> orphanVars
                 [] part = "probe" -> probeVars
                 [] part = "pages" -> pagesVars
                 [] part = "process" -> processVars
                 [] part = "compaction" -> compactionVars
                 [] part = "stream" -> streamVars
                 [] part = "files" -> filesVars
                 [] part = "lease" -> leaseVars
                 [] part = "fleet" -> fleetVars
                 [] part = "ssh" -> sshVars
                 [] part = "interactive" -> interactiveVars
                 [] part = "jobs" -> jobsVars>>

(* The fairness is that of the components' FairSpec, of the part a behaviour is about: a
   thread that can go on does, a deadline passes, an answer that was asked for comes.  The
   i-th weakly fair action of each part: *)
Fair(i) ==
  \/ /\ part = "tools"
     /\ \/ i = 1 /\ (Turn!Commit \/ Turn!Drain \/ Turn!Admit \/ Turn!DispatchNext \/ Turn!Join
                       \/ Turn!AskRequest \/ Turn!Return)
        \/ i = 2 /\ (Turn!Revalidate \/ Turn!Dispatch \/ Turn!Finish \/ Turn!ContinueDecided
                       \/ Turn!EndDecision)
        \/ i = 3 /\ (Turn!SettleWaiting \/ Turn!Lead \/ Turn!Reply)
        \/ i = 4 /\ (Turn!Expire \/ Turn!Expired)
        \/ i = 5 /\ Turn!StopStep
        \/ \E c \in 1..3 : \/ i = 5 + c /\ (Turn!Starts(c) \/ Turn!Ends(c))
                           \/ i = 8 + c /\ Turn!CancelPending(c)
  \/ /\ part = "step"
     /\ \/ i = 1 /\ Request!DriverStep
        \/ i = 2 /\ Request!Writer
        \/ i = 3 /\ Request!Flush
        \/ i = 4 /\ Request!InEmit
        \/ i = 5 /\ Request!Return /\ Request!Child
        \/ i = 6 /\ Request!Expire("stream")
  \/ part = "sftp" /\ i \in 1..2 /\ Pool!CallerStep(<<c1, c2>>[i])
  \/ /\ part = "forward"
     /\ \/ i = 1 /\ Forward!WorkerStep(1)
        \/ i \in 2..3 /\ Forward!StartStep(<<"a", "u">>[i - 1])
        \/ i \in 4..6 /\ Forward!StopStep(<<"a", "u", "s">>[i - 3])
  \/ /\ part = "orphan"
     /\ \/ i = 1 /\ Ownerless!WorkerStep(1)
        \/ i \in 2..3 /\ Ownerless!StartStep(<<"a", "u">>[i - 1])
        \/ i \in 4..5 /\ Ownerless!StopStep(<<"a", "u">>[i - 3])
  \/ /\ part = "probe"
     /\ \/ i = 1 /\ Probe!CallerStep
        \/ i = 2 /\ Probe!WorkerStep
        \/ i = 3 /\ Probe!Watch
        \/ i = 4 /\ Probe!BridgeStep
        \/ i = 5 /\ Probe!Late
  \/ part = "pages" /\ i = 1 /\ Pages!Step
  \/ /\ part = "process"
     /\ \/ i = 1 /\ Processes!Stopping
        \/ \E j \in 1..2 : LET p == <<p1, p2>>[j] IN
             \/ i = 1 + j /\ Processes!Worker(p)
             \/ i = 3 + j /\ Processes!Deadline(p)
             \/ i = 5 + j /\ (Processes!WriteDeadline(p) \/ Processes!WriteTimesOut(p))
             \/ i = 7 + j /\ processCaller[p] # "idle" /\ Processes!Call(p)
  \/ part = "compaction" /\ i = 1 /\ (Compacted!Compacts \/ Compacted!Drives)
  \/ /\ part = "stream"
     /\ \/ i = 1 /\ Answers!Tick
        \/ i = 2 /\ (Answers!IsCancelled \/ Answers!Broken \/ Answers!Conclude)
  \/ part = "files" /\ i = 1 /\ Files!Step("o1")
  \/ /\ part = "lease"
     /\ \/ i = 1 /\ Lease!Deliver
        \/ i = 2 /\ Lease!Stopping
        \/ i = 3 /\ Lease!Executes(x1)
  \/ /\ part = "fleet"
     /\ \/ i = 1 /\ Coordinator!Run("r1")
        \/ i = 2 /\ Coordinator!Record("c1")
        \/ i = 3 /\ Coordinator!Cancel("c1")
  \/ /\ part = "ssh"
     /\ \/ i = 1 /\ Session!ConnectStep(x1) /\ ~Session!At(x1, {"dial", "shell"})
        \/ i = 2 /\ attempt[x1].cut /\ Session!ConnectStep(x1)
        \/ i = 3 /\ Session!LoopStep(x1)
        \/ i = 4 /\ Session!EndStep(x1)
        \/ i = 5 /\ Session!WaiterStep(x1)
        \/ i = 6 /\ Session!WatcherStep(x1)
        \/ i = 7 /\ Session!DropSender(x1)
        \/ i = 8 /\ Session!CloseStep(x1)
        \/ i = 9 /\ Session!Deadline(x1)
        \/ i = 10 /\ Session!StartupTimeout(x1)
  \/ /\ part = "interactive"
     /\ \/ i = 1 /\ Interactive!TakeStep
        \/ i = 2 /\ Interactive!CallStep(x1)
        \/ i = 3 /\ interactiveCancelled[x1] # "no" /\ Interactive!EndTurn(x1)
        \/ i \in 4..5 /\ Interactive!SweepStep(<<x1, <<"driver", "stop">>[i - 3]>>)
  \/ /\ part = "jobs"
     /\ \/ i = 1 /\ \E c \in Jobs!Callers : Jobs!CallerStep(c)
        \/ i = 2 /\ Jobs!LaunchEnds
        \/ i = 3 /\ Jobs!Shell
        \/ i = 4 /\ Jobs!Apply

FairSpec == PartsSpec /\ \A i \in 1..11 : WF_Seen(UNCHANGED part /\ Fair(i))

(* ------------------------------- properties ------------------------------- *)

\* What is under way in each part, and what it must come to: the i-th of each part.
Asked(i) ==
  CASE part = "tools" -> i = 1 /\ dec.at # "off"
    [] part = "step" -> i = 1 /\ stepPc = "stream"
    [] part = "sftp" -> ~Pool!At(<<c1, c2>>[i], "rest")
    [] part = "probe" -> i = 1 /\ probeWorker.pc = "dial"
    [] part = "pages" -> i = 1 /\ pagesPhase # "ended"
    [] part = "process" -> processCaller[<<p1, p2>>[i]] = "waiting"
    [] part = "compaction" -> i = 1 /\ compactionPc = "hook"
    [] part = "stream" -> i = 1 /\ streamOutcome = Answers!Nothing
    [] part = "files" -> i = 1 /\ ~Files!Done("o1")
    [] part = "lease" -> i = 1 /\ leasePc[x1] # "idle"
    [] part = "ssh" -> i = 1 /\ waiter[x1].at = "waiting"
    [] part = "fleet" -> i = 1 /\ ~Coordinator!Runs("r1", "idle")
    [] OTHER -> FALSE
Answered(i) ==
  CASE part = "tools" -> dec.at = "off"
    [] part = "step" -> stepPc \in {"check", "end"}
    [] part = "sftp" -> Pool!At(<<c1, c2>>[i], "rest")
    [] part = "probe" -> probeCaller.pc = "back" /\ probeWorker.pc = "gone" /\ Probe!Joined
    [] part = "pages" -> pagesPhase = "ended"
    [] part = "process" -> processCaller[<<p1, p2>>[i]] = "done"
    [] part = "compaction" -> compactionPc \in {"idle", "waiting", "approval", "down", "ended"}
    [] part = "stream" -> streamOutcome # Answers!Nothing
    [] part = "files" -> Files!Done("o1")
    [] part = "lease" -> leasePc[x1] = "idle"
    [] part = "ssh" -> waiter[x1].at \in {"ok", "failed"}
    [] part = "fleet" -> Coordinator!Runs("r1", "idle")
    [] OTHER -> FALSE

\* What has been stopped or has lost its owner, and the rest it must come to.
Stopped(i) ==
  CASE part = "tools" -> toolsStop = <<"cancelling", "done">>[i]
    [] part = "forward" -> i = 1 /\ forwardOps[1].cancel
    [] part = "orphan" -> /\ i = 1 /\ orphanView[1].auto /\ orphanView[1].owners = {}
                          /\ orphanStart["a"].pc \in {"idle", "done"}
    [] part = "process" -> life[<<p1, p2>>[i]] = "Running"
    [] part = "ssh" -> i = 1 /\ (sshCloser[x1] = "done" \/ waiter[x1].at = "failed")
    [] part = "interactive" -> i = 1 /\ interactiveCancelled[x1] # "no"
    [] part = "jobs" -> i = 1 /\ jobsCancelled
    [] OTHER -> FALSE
AtRest(i) ==
  CASE part = "tools" -> IF i = 1 THEN toolsStop = "done"
                         ELSE \A c \in Turn!Calls : toolsLog.call[c].result # "none"
    [] part = "forward" -> ~Forward!IsActive(1)
    [] part = "orphan" -> ~Ownerless!IsActive(1)
    [] part = "process" -> Processes!Terminal(<<p1, p2>>[i])
    [] part = "ssh" -> Session!At(x1, {"done"}) /\ managed[x1] = "absent"
    [] part = "interactive" -> /\ interactiveLease.agent # x1 \/ interactiveCloser = "done"
                               /\ interactiveGuard.owner # x1
    [] part = "jobs" -> jobsCaller["clean"].pc = "done"
    [] OTHER -> FALSE

\* Whoever calls gets an answer, whatever fails, hangs or is lost on the way: each decision of
\* a step returns, a model request settles, a caller that waits for another's connection goes
\* on when that one dies, a probe ends with all its threads, a reader of pages reaches the
\* end, a process call, an answer of a provider, a file call, a session's creation, a terminal
\* command, a run of a fleet and a turn whose budget is used up come to an end.
CallsEnd == \A i \in 1..2 : Asked(i) ~> Answered(i)

\* What was stopped or has lost its owner comes to rest, and leaves nothing running: a turn
\* that was stopped has no call left, a forward's worker ends and closes its connection, and
\* each process reaches an end that is recorded; a session that was closed is gone from the
\* registry, a cancelled agent holds no terminal that is open, and the end of a task ends its
\* job.
StopsEnd == \A i \in 1..2 : Stopped(i) ~> AtRest(i)
================================================================================
