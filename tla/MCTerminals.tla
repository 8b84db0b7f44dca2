------------------------------ MODULE MCTerminals ------------------------------
(* Terminals and processes: sixteen small instances of seven components.  They share no state;
   "part" says which of them a behaviour is about. *)
EXTENDS Naturals, Sequences, FiniteSets, SequencesExt, TLC

CONSTANTS x1, x2, User, NoOne, p1, p2

VARIABLES part,   \* the component this behaviour is about
  leaseTurn, takenOver, leaseFenced, leaseGuard, leaseLease, leaseReady, owner, leaseBroker,
  leaseReg, n, pc, leaseKind, leaseCmd, leaseStop, leaseCloser, leaseShell, moves, stops,
  stray,
  managed, sshChan, sshFlags, attempt, sshWorker, waiter, sshCloser, terms, transports, order,
  io, typed, sshTold, agent,
  shellShell, tty, reader, queue, shellTold, create, shellReg, cmds, shellFlags, timer, wk,
  shellBroker, front, shown,
  interTurn, interCancelled, call, interLease, interReady, interGuard, interFenced, active,
  tomb, sweep, taker, interCloser, usable, away, interLate, orphans, ops, turns, takeovers,
  native, jobsShell, line, jobsChan, rec, jobsCmd, prep, job, next, jobsCaller, jobsCancelled,
  procKind, procCaller, procWorker, os, life, confirmed, mail, procLate, pending, expired,
  sent, writes, writer, tracked, killer, token, procStop,
  written, pos, kept, total, exceeded, output

K(far, how) == [remote |-> far, call |-> how]
Two(k1, k2) == (p1 :> k1) @@ (p2 :> k2)

\* Two agents that do not know each other, in a shell with native integration.
Lease == INSTANCE TerminalLease WITH
  Agents <- {x1,x2}, Ancestors <- [a \in {x1,x2} |-> {}], Kinds <- {"native"}, MaxOps <- 1,
  UserMoves <- 1, Stops <- 1, MaxEvents <- 1, CanRollBack <- FALSE,
  turn <- leaseTurn, fenced <- leaseFenced, guard <- leaseGuard, lease <- leaseLease,
  ready <- leaseReady, broker <- leaseBroker, reg <- leaseReg, kind <- leaseKind,
  cmd <- leaseCmd, stop <- leaseStop, closer <- leaseCloser, shell <- leaseShell
\* An agent and the agent it delegated to, in a shell they type into.
Family == INSTANCE TerminalLease WITH
  Agents <- {x1,x2}, Ancestors <- [a \in {x1,x2} |-> IF a = x2 THEN {x1} ELSE {}],
  Kinds <- {"typed"}, MaxOps <- 1, UserMoves <- 1, Stops <- 1, MaxEvents <- 1,
  CanRollBack <- FALSE, turn <- leaseTurn, fenced <- leaseFenced,
  guard <- leaseGuard, lease <- leaseLease, ready <- leaseReady, broker <- leaseBroker,
  reg <- leaseReg, kind <- leaseKind, cmd <- leaseCmd, stop <- leaseStop,
  closer <- leaseCloser, shell <- leaseShell
\* One agent in a shell of either kind, and the feature may be switched off.
Rollout == INSTANCE TerminalLease WITH
  Agents <- {x1}, Ancestors <- [a \in {x1} |-> {}], Kinds <- {"typed","native"}, MaxOps <- 1,
  UserMoves <- 2, Stops <- 1, MaxEvents <- 1, CanRollBack <- TRUE, turn <- leaseTurn,
  fenced <- leaseFenced, guard <- leaseGuard, lease <- leaseLease, ready <- leaseReady,
  broker <- leaseBroker, reg <- leaseReg, kind <- leaseKind, cmd <- leaseCmd,
  stop <- leaseStop, closer <- leaseCloser, shell <- leaseShell
\* A session and the one that replaces it; its network may fail.
Reconnected == INSTANCE TerminalSessions WITH
  Sessions <- {x1,x2}, NoSession <- NoOne,
  Replaces <- [s \in {x1,x2} |-> IF s = x2 THEN x1 ELSE NoOne], Capacity <- 1,
  MaxChunks <- 1, MaxInputs <- 0, Events <- {"network"}, chan <- sshChan, flags <- sshFlags,
  worker <- sshWorker, closer <- sshCloser, told <- sshTold
\* A session that is closed while an agent works in it.
Closing == INSTANCE TerminalSessions WITH
  Sessions <- {x1}, NoSession <- NoOne, Replaces <- [s \in {x1} |-> NoOne], Capacity <- 1,
  MaxChunks <- 0, MaxInputs <- 0, Events <- {"close","agent","network"}, chan <- sshChan,
  flags <- sshFlags, worker <- sshWorker, closer <- sshCloser, told <- sshTold
\* A session whose view starts late, pauses and is closed.
Viewed == INSTANCE TerminalSessions WITH
  Sessions <- {x1}, NoSession <- NoOne, Replaces <- [s \in {x1} |-> NoOne], Capacity <- 1,
  MaxChunks <- 0, MaxInputs <- 0, Events <- {"close","agent","view"}, chan <- sshChan,
  flags <- sshFlags, worker <- sshWorker, closer <- sshCloser, told <- sshTold
\* A session with two inputs and two chunks of output.
Typed == INSTANCE TerminalSessions WITH
  Sessions <- {x1}, NoSession <- NoOne, Replaces <- [s \in {x1} |-> NoOne], Capacity <- 1,
  MaxChunks <- 2, MaxInputs <- 2, Events <- {}, chan <- sshChan, flags <- sshFlags,
  worker <- sshWorker, closer <- sshCloser, told <- sshTold
\* A local shell that prints twice and is typed into; its second chunk ends inside a character.
Shell == INSTANCE LocalShell WITH
  MaxOut <- 2, Split <- {2}, Capacity <- 1, Limit <- 1, MaxPauses <- 0, MaxWrites <- 1,
  shell <- shellShell, told <- shellTold, reg <- shellReg, flags <- shellFlags,
  broker <- shellBroker
\* An agent and the agent it may delegate to, and a user who takes over once.
Interactive == INSTANCE InteractiveTerminal WITH
  Agents <- {x1,x2}, Ancestors <- [a \in {x1,x2} |-> IF a = x2 THEN {x1} ELSE {}],
  MaxOps <- 1, MaxTurns <- 1, MaxTakeovers <- 1, CanClose <- FALSE, turn <- interTurn,
  cancelled <- interCancelled, lease <- interLease, ready <- interReady, guard <- interGuard,
  fenced <- interFenced, closer <- interCloser, late <- interLate
\* One agent with two operations in a terminal that may be closed.
ClosedUnder == INSTANCE InteractiveTerminal WITH
  Agents <- {x1}, Ancestors <- [a \in {x1} |-> {}], MaxOps <- 2, MaxTurns <- 1,
  MaxTakeovers <- 1, CanClose <- TRUE, turn <- interTurn, cancelled <- interCancelled,
  lease <- interLease, ready <- interReady, guard <- interGuard, fenced <- interFenced,
  closer <- interCloser, late <- interLate
\* A background job with two operations on it.
Jobs == INSTANCE ShellJobs WITH
  MaxOps <- 2, Degrades <- FALSE, shell <- jobsShell, chan <- jobsChan, cmd <- jobsCmd,
  caller <- jobsCaller, cancelled <- jobsCancelled
\* The same with one operation, and a shell whose integration may break.
Degraded == INSTANCE ShellJobs WITH
  MaxOps <- 1, Degrades <- TRUE, shell <- jobsShell, chan <- jobsChan, cmd <- jobsCmd,
  caller <- jobsCaller, cancelled <- jobsCancelled
\* Two local processes of a task.
Processes == INSTANCE NativeProcess WITH
  Procs <- {p1,p2}, Kinds <- {Two(K(FALSE, "background"), K(FALSE, "exec"))}, Capacity <- 2,
  MaxRunning <- 1, WriteSize <- 1, MaxWrites <- 0, kind <- procKind, caller <- procCaller,
  worker <- procWorker, late <- procLate, stop <- procStop
\* Two processes of a task on another host, in a registry that holds one.
RemoteProcesses == INSTANCE NativeProcess WITH
  Procs <- {p1,p2}, Kinds <- {Two(K(TRUE, "background"), K(TRUE, "diagnostic"))},
  Capacity <- 1, MaxRunning <- 1, WriteSize <- 1, MaxWrites <- 0, kind <- procKind,
  caller <- procCaller, worker <- procWorker, late <- procLate, stop <- procStop
\* A process here or on another host that is written to twice, two pieces at a time.
Written == INSTANCE NativeProcess WITH
  Procs <- {p1}, Kinds <- {p1 :> K(far, "background") : far \in BOOLEAN}, Capacity <- 1,
  MaxRunning <- 1, WriteSize <- 2, MaxWrites <- 2, kind <- procKind, caller <- procCaller,
  worker <- procWorker, late <- procLate, stop <- procStop
\* Everything a command writes in up to three characters, around the limits.
Captured == INSTANCE OutputCapture WITH
  Outputs <- {[stdout |-> o, stderr |-> e] : o \in BoundedSeq(1..3, 3), e \in {<< >>, <<1, 1>>, <<2, 3>>}},
  StdoutCapture <- 4, StderrCapture <- 2, HardLimit <- 8, ChunkSize <- 3

Parts ==
  {"lease", "family", "rollout", "ssh", "agents", "views", "typing", "shell", "interactive", "closed",
  "jobs", "degraded", "process", "remote", "input", "capture"}
ASSUME Instances ==
  /\ Lease!TerminalAssumption
  /\ Family!TerminalAssumption
  /\ Rollout!TerminalAssumption
  /\ Reconnected!TerminalsAssumption
  /\ Closing!TerminalsAssumption
  /\ Viewed!TerminalsAssumption
  /\ Typed!TerminalsAssumption
  /\ Shell!LocalAssumption
  /\ Interactive!InteractiveAssumption
  /\ ClosedUnder!InteractiveAssumption
  /\ Jobs!MaxOpsAssumption
  /\ Degraded!MaxOpsAssumption
  /\ Processes!ProcessAssumption
  /\ RemoteProcesses!ProcessAssumption
  /\ Written!ProcessAssumption
  /\ Captured!CaptureAssumption

leaseVars ==
  <<leaseTurn, takenOver, leaseFenced, leaseGuard, leaseLease, leaseReady, owner,
    leaseBroker, leaseReg, n, pc, leaseKind, leaseCmd, leaseStop, leaseCloser, leaseShell,
    moves, stops, stray>>
sshVars ==
  <<managed, sshChan, sshFlags, attempt, sshWorker, waiter, sshCloser, terms, transports,
    order, io, typed, sshTold, agent>>
shellVars ==
  <<shellShell, tty, reader, queue, shellTold, create, shellReg, cmds, shellFlags, timer, wk,
    shellBroker, front, shown>>
interVars ==
  <<interTurn, interCancelled, call, interLease, interReady, interGuard, interFenced, active,
    tomb, sweep, taker, interCloser, usable, away, interLate, orphans, ops, turns, takeovers>>
jobsVars ==
  <<native, jobsShell, line, jobsChan, rec, jobsCmd, prep, job, next, jobsCaller,
    jobsCancelled>>
procVars ==
  <<procKind, procCaller, procWorker, os, life, confirmed, mail, procLate, pending, expired,
    sent, writes, writer, tracked, killer, token, procStop>>
captureVars ==
  <<written, pos, kept, total, exceeded, output>>
all ==
  <<part, leaseVars, sshVars, shellVars, interVars, jobsVars, procVars, captureVars>>

\* The components a behaviour is not about stay in one initial state.
PartsInit ==
  /\ part \in Parts
  /\ CASE part = "family" -> Family!Init
       [] part = "rollout" -> Rollout!Init
       [] OTHER -> Lease!Init
  /\ CASE part = "agents" -> Closing!Init
       [] part = "views" -> Viewed!Init
       [] part = "typing" -> Typed!Init
       [] OTHER -> Reconnected!Init
  /\ Shell!Init
  /\ IF part = "closed" THEN ClosedUnder!Init ELSE Interactive!Init
  /\ CASE part = "degraded" -> Degraded!Init
       [] OTHER -> Jobs!Init
  /\ CASE part = "remote" -> RemoteProcesses!Init
       [] part = "input" -> Written!Init
       [] OTHER -> Processes!Init
  /\ Captured!Init
  /\ part = "capture" \/ written = [s \in {"stdout", "stderr"} |-> << >>]

PartsNext ==
  /\ UNCHANGED part
  /\ \/ part = "lease" /\ Lease!Next
     \/ part = "family" /\ Family!Next
     \/ part = "rollout" /\ Rollout!Next
     \/ part = "ssh" /\ Reconnected!Next
     \/ part = "agents" /\ Closing!Next
     \/ part = "views" /\ Viewed!Next
     \/ part = "typing" /\ Typed!Next
     \/ part = "shell" /\ Shell!Next
     \/ part = "interactive" /\ Interactive!Next
     \/ part = "closed" /\ ClosedUnder!Next
     \/ part = "jobs" /\ Jobs!Next
     \/ part = "degraded" /\ Degraded!Next
     \/ part = "process" /\ Processes!Next
     \/ part = "remote" /\ RemoteProcesses!Next
     \/ part = "input" /\ Written!Next
     \/ part = "capture" /\ Captured!Next
  /\ part \notin {"lease", "family", "rollout"} => UNCHANGED leaseVars
  /\ part \notin {"ssh", "agents", "views", "typing"} => UNCHANGED sshVars
  /\ part # "shell" => UNCHANGED shellVars
  /\ part \notin {"interactive", "closed"} => UNCHANGED interVars
  /\ part \notin {"jobs", "degraded"} => UNCHANGED jobsVars
  /\ part \notin {"process", "remote", "input"} => UNCHANGED procVars
  /\ part # "capture" => UNCHANGED captureVars

PartsSpec == PartsInit /\ [][PartsNext]_all

(* ------------------------------- properties ------------------------------- *)

\* Each component's state keeps its shape.
PartsTypeOK ==
  CASE part = "lease" -> Lease!TypeOK
    [] part = "family" -> Family!TypeOK
    [] part = "rollout" -> Rollout!TypeOK
    [] part = "ssh" -> Reconnected!TypeOK
    [] part = "agents" -> Closing!TypeOK
    [] part = "views" -> Viewed!TypeOK
    [] part = "typing" -> Typed!TypeOK
    [] part = "shell" -> Shell!TypeOK
    [] part = "interactive" -> Interactive!TypeOK
    [] part = "closed" -> ClosedUnder!TypeOK
    [] part = "jobs" -> Jobs!TypeOK
    [] part = "degraded" -> Degraded!TypeOK
    [] part = "process" -> Processes!TypeOK
    [] part = "remote" -> RemoteProcesses!TypeOK
    [] part = "input" -> Written!TypeOK
    [] OTHER -> TRUE

\* A terminal has one author at a time: no interruption, takeover, roll-back or delegation lets
\* a line of the user run into an agent's command, or one agent interrupt another's, and after
\* a takeover no agent types that was then in a turn (terminal_lease.rs, terminal_execute.rs,
\* interactive.rs).  Not claimed, because the code does not ensure it: all this when an answer
\* of the view or a deadline has overtaken an event of an earlier key (terminal_broker.rs:2671);
\* quiet of an agent that is delegated after the takeover (terminal_lease.rs:367); and that a
\* lease is registered when a late operation took its place (terminal_interactive.rs:494).
OneAuthor ==
  /\ part = "lease" => Lease!OneAuthor /\ Lease!OwnInterrupts /\ Lease!DirtyIsGuarded
  /\ part = "family" => Family!OneAuthor /\ Family!OwnInterrupts /\ Family!DirtyIsGuarded
  /\ part = "rollout" => Rollout!OneAuthor /\ Rollout!OwnInterrupts /\ Rollout!DirtyIsGuarded
  /\ part = "interactive" => Interactive!TakenOverIsQuiet /\ Interactive!LeaseIsRegistered
  /\ part = "closed" => ClosedUnder!TakenOverIsQuiet /\ ClosedUnder!LeaseIsRegistered

\* Nothing is held or left running by something that is over: no lease or guard outlives its
\* turn, an open terminal has the worker that will close it, what runs can be found by its
\* handle or is reported as uncertain, and what a stop found and reports as stopped is
\* (terminal_lease.rs, connection workers, local_terminal.rs, shell_jobs.rs, process.rs).  The
\* exceptions: an operation whose registration went in the place of another one
\* (terminal_interactive.rs:494), and a process whose start is refused when it has been spawned
\* (runtime.rs:1493) or is under way when its task is cancelled (see StoppedIsGone).
NothingLeftBehind ==
  /\ part = "lease" => Lease!NobodyLockedOut
  /\ part = "family" => Family!NobodyLockedOut
  /\ part = "rollout" => Rollout!NobodyLockedOut
  /\ part = "interactive" => Interactive!NothingOutlivesTurns
  /\ part = "closed" => ClosedUnder!NothingOutlivesTurns
  /\ part = "ssh" => Reconnected!OpenIsServed /\ Reconnected!ReadyIsNotCut
  /\ part = "agents" => Closing!OpenIsServed /\ Closing!ReadyIsNotCut
  /\ part = "shell" => Shell!NothingLeft
  /\ part = "jobs" => Jobs!NoJobForgotten /\ Jobs!SaysTheTruth
  /\ part = "degraded" => Degraded!NoJobForgotten /\ Degraded!SaysTheTruth
  /\ part = "process" => Processes!RunningIsTracked /\ Processes!ListedIsGone
  /\ part = "remote" => RemoteProcesses!RunningIsTracked /\ RemoteProcesses!ConfirmedIsGone
       /\ RemoteProcesses!ListedIsGone

\* A cancellation of a task that reports no error has left none of its processes running: "A
\* task cancellation retains any process handle still reported as running and returns an error
\* instead of discarding that handle" (file-and-script-execution.md:73-75).  cancel_task lists
\* the registry once (process.rs:449), while a call of the task may have spawned a process that
\* it enters in the registry afterwards.
StoppedIsGone == part = "process" => Processes!StoppedIsGone

\* What a shell prints is shown whole and in order by whoever shows or keeps it, and what is
\* typed reaches it in order, whatever is merged, paused, cut or replaced on the way.
StreamsInOrder ==
  /\ part = "ssh" => Reconnected!OwnOutput
  /\ part = "views" => Viewed!ShownInFull
  /\ part = "typing" => Typed!InputKeepsItsOrder /\ Typed!ShownInFull
  /\ part = "shell" => Shell!InOrder /\ Shell!ShadowLeads /\ Shell!AllShown /\ Shell!NothingMissed
  /\ part = "input" => Written!InputOnce
  /\ part = "capture" => Captured!FrontAndTail /\ Captured!TruncatedIsTold
                           /\ Captured!WholeCharacters /\ Captured!Bounded

\* What is over stays over: an agent fenced by a takeover gets no lease again in its turn, a
\* session that was removed is not put back, the late end of a transport closes no newer one
\* nor cancels agents that moved on, and the end of a job is final.
EndsAreFinal ==
  [][/\ part = "lease" => Lease!FencesHold
     /\ part = "family" => Family!FencesHold
     /\ part = "rollout" => Rollout!FencesHold
     /\ part = "ssh" => Reconnected!KeepsRemoved /\ Reconnected!ClosesItsOwn
     /\ part = "agents" => Closing!KeepsRemoved /\ Closing!ClosesItsOwn /\ Closing!CancelsOwn
     /\ part = "jobs" => Jobs!KeepsFinal]_all
================================================================================
