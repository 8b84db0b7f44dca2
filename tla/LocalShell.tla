----------------------------- MODULE LocalShell -----------------------------
(***************************************************************************)
(* A local terminal (commands.rs: create_local_session; models.rs: the     *)
(* session registry and the output flags; lib.rs: emit_data and            *)
(* emit_closed).                                                           *)
(*                                                                         *)
(* A reader thread puts what the shell prints into a bounded queue, a      *)
(* worker takes it from there, shows it to the broker as raw bytes and to  *)
(* the frontend as text.  Until the frontend says that it listens the text *)
(* is held back; while the frontend is behind it pauses the worker.  The   *)
(* worker ends with the shell, which may leave a process behind that keeps *)
(* the terminal open, or with the user's close.                            *)
(***************************************************************************)
EXTENDS Naturals, Sequences, SequencesExt

CONSTANTS
    MaxOut,     \* bound: chunks the shell prints
    Split,      \* the chunks that end inside a character
    Capacity,   \* LOCAL_OUTPUT_QUEUE_CAPACITY
    Limit,      \* LOCAL_STARTUP_OUTPUT_BUFFER_LIMIT_BYTES, in chunks
    MaxPauses,  \* bound: how often the frontend pauses the output
    MaxWrites   \* bound: lines, keys or sizes the frontend sends

LocalAssumption ==
    MaxOut \in Nat /\ Split \subseteq 1 .. MaxOut /\ Capacity \in Nat \ {0}
    /\ Limit \in Nat /\ MaxPauses \in Nat /\ MaxWrites \in Nat

VARIABLES
    shell,      \* [state, made, held]: the shell; a process it left holds the terminal
    tty,        \* chunks printed and not read
    reader,     \* [pc, chunk]
    queue,      \* the output channel
    told,       \* the child's waiter has reported the exit
    create,     \* create_local_session: where it is
    reg,        \* the registry's entry: "absent", "present", "gone", "dropped"
    cmds,       \* the command channel
    flags,      \* [ready, paused, wake]: the shared flags and the wake-up
    timer,      \* the start-up timeout: "runs", "sent", "taken"
    wk,         \* the worker: [pc, live, paused, closed, dropped, exited, rclosed, pending, buffered]
    broker,     \* [state, seen]: the generation and the chunks observed
    front,      \* [listens, pauses, writes, closes]: the frontend
    shown       \* [all, heard]: chunks emitted, and those someone listened to

vars == <<shell, tty, reader, queue, told, create, reg, cmds, flags, timer, wk, broker, front, shown>>

Init ==
    /\ shell = [state |-> "none", made |-> 0, held |-> FALSE]
    /\ tty = <<>> /\ reader = [pc |-> "none", chunk |-> 0] /\ queue = <<>> /\ told = FALSE
    /\ create = "start" /\ reg = "absent" /\ cmds = <<>>
    /\ flags = [ready |-> FALSE, paused |-> FALSE, wake |-> FALSE]
    /\ timer = "runs"
    /\ wk = [pc |-> "none", live |-> FALSE, paused |-> FALSE, closed |-> FALSE, dropped |-> FALSE, exited |-> FALSE,
             rclosed |-> FALSE, pending |-> <<>>, buffered |-> <<>>]
    /\ broker = [state |-> "none", seen |-> <<>>]
    /\ front = [listens |-> FALSE, pauses |-> 0, writes |-> 0, closes |-> "no"]
    /\ shown = [all |-> <<>>, heard |-> <<>>]

TypeOK ==
    /\ shell.state \in {"none", "up", "dead"} /\ shell.made \in 0 .. MaxOut
    /\ Len(queue) <= Capacity
    /\ reader.pc \in {"none", "read", "push", "done"}
    /\ create \in {"start", "spawned", "inserted", "attached", "registered", "done", "failed"}
    /\ reg \in {"absent", "present", "gone", "dropped"}
    /\ timer \in {"runs", "sent", "taken"}
    /\ wk.pc \in {"none", "top", "release", "select", "shut", "drain", "tail", "gate", "gated", "flush", "done"}
    /\ broker.state \in {"none", "open", "closed"}
    /\ front.closes \in {"no", "broker", "session", "done"}

-----------------------------------------------------------------------------
(* Creation *)

SpawnShell ==
    /\ create = "start" /\ create' = "spawned"
    /\ shell' = [shell EXCEPT !.state = "up"]
    /\ UNCHANGED <<tty, reader, queue, told, reg, cmds, flags, timer, wk, broker, front, shown>>

Insert ==
    /\ create = "spawned" /\ create' = "inserted" /\ reg' = "present"
    /\ UNCHANGED <<shell, tty, reader, queue, told, cmds, flags, timer, wk, broker, front, shown>>

Attach ==
    /\ create = "inserted" /\ create' = "attached"
    /\ broker' = [broker EXCEPT !.state = "open"]
    /\ UNCHANGED <<shell, tty, reader, queue, told, reg, cmds, flags, timer, wk, front, shown>>

\* The integration's channel is registered, or the terminal marked degraded.
Register ==
    /\ create = "attached" /\ create' = "registered"
    /\ UNCHANGED <<shell, tty, reader, queue, told, reg, cmds, flags, timer, wk, broker, front, shown>>

\* The threads start and the frontend learns the session.
StartWorker ==
    /\ create = "registered" /\ create' = "done"
    /\ reader' = [reader EXCEPT !.pc = "read"]
    /\ wk' = [wk EXCEPT !.pc = "top"]
    /\ UNCHANGED <<shell, tty, queue, told, reg, cmds, flags, timer, broker, front, shown>>

\* remove_failed_session_registration
Unregistered == "absent"

\* rollback_local_broker_attachment_failure: the entry goes, the shell is
\* killed and waited for.
RollBack ==
    /\ create \in {"spawned", "inserted", "attached"} /\ create' = "failed"
    /\ reg' = Unregistered
    /\ shell' = [shell EXCEPT !.state = "dead"]
    /\ UNCHANGED <<tty, reader, queue, told, cmds, flags, timer, wk, broker, front, shown>>

-----------------------------------------------------------------------------
(* The shell and the threads that watch it *)

Prints ==
    /\ shell.made < MaxOut
    /\ shell.state = "up" \/ (shell.state = "dead" /\ shell.held)
    /\ shell' = [shell EXCEPT !.made = @ + 1] /\ tty' = Append(tty, shell.made + 1)
    /\ UNCHANGED <<reader, queue, told, create, reg, cmds, flags, timer, wk, broker, front, shown>>

\* The shell ends; a process it started may keep the terminal open and end later.
ShellEnds ==
    /\ \/ shell.state = "up" /\ create = "done"
          /\ \E h \in BOOLEAN : shell' = [shell EXCEPT !.state = "dead", !.held = h]
       \/ shell.held /\ shell' = [shell EXCEPT !.held = FALSE]
    /\ UNCHANGED <<tty, reader, queue, told, create, reg, cmds, flags, timer, wk, broker, front, shown>>

WaiterReports ==
    /\ create = "done" /\ shell.state = "dead" /\ ~told /\ told' = TRUE
    /\ UNCHANGED <<shell, tty, reader, queue, create, reg, cmds, flags, timer, wk, broker, front, shown>>

\* The end of file comes when nobody holds the terminal any more.
ReaderReads ==
    /\ reader.pc = "read"
    /\ IF tty # <<>>
       THEN reader' = [pc |-> "push", chunk |-> Head(tty)] /\ tty' = Tail(tty)
       ELSE /\ shell.state = "dead" /\ ~shell.held
            /\ reader' = [reader EXCEPT !.pc = "done"] /\ UNCHANGED tty
    /\ UNCHANGED <<shell, queue, told, create, reg, cmds, flags, timer, wk, broker, front, shown>>

Room == Len(queue) < Capacity

\* The send blocks on a full queue and fails when the worker has gone.
ReaderPushes ==
    /\ reader.pc = "push"
    /\ \/ /\ wk.pc # "done" /\ Room
          /\ queue' = Append(queue, reader.chunk)
          /\ reader' = [reader EXCEPT !.pc = "read"]
       \/ /\ wk.pc = "done"
          /\ reader' = [reader EXCEPT !.pc = "done"] /\ UNCHANGED queue
    /\ UNCHANGED <<shell, tty, told, create, reg, cmds, flags, timer, wk, broker, front, shown>>

TimerFires ==
    /\ create = "done" /\ timer = "runs" /\ timer' = "sent"
    /\ UNCHANGED <<shell, tty, reader, queue, told, create, reg, cmds, flags, wk, broker, front, shown>>

-----------------------------------------------------------------------------
(* The worker *)

\* should_release_local_startup_output
Release(paused) ==
    /\ ~wk.live /\ ~paused
    /\ flags.ready \/ timer # "runs" \/ Len(wk.buffered) > Limit

Emit(s) ==
    shown' = [all |-> shown.all \o s, heard |-> IF front.listens THEN shown.heard \o s ELSE shown.heard]

\* observe_terminal_raw_output: refused once the generation is closed.
Observe(s) == broker' = IF broker.state = "open" THEN [broker EXCEPT !.seen = @ \o s] ELSE broker

\* drain_decoded_output: what ends inside a character waits for the rest.
Decoded(s) == IF s # <<>> /\ Last(s) \in Split THEN Front(s) ELSE s
Rest(s) == SubSeq(s, Len(Decoded(s)) + 1, Len(s))

Top ==
    /\ wk.pc = "top"
    /\ wk' = [wk EXCEPT !.paused = flags.paused, !.pc = "release"]
    /\ UNCHANGED <<shell, tty, reader, queue, told, create, reg, cmds, flags, timer, broker, front, shown>>

ReleaseStart ==
    /\ wk.pc = "release"
    /\ IF Release(wk.paused)
       THEN Emit(wk.buffered) /\ wk' = [wk EXCEPT !.live = TRUE, !.buffered = <<>>, !.pc = "select"]
       ELSE wk' = [wk EXCEPT !.pc = "select"] /\ UNCHANGED shown
    /\ UNCHANGED <<shell, tty, reader, queue, told, create, reg, cmds, flags, timer, broker, front>>

\* The hang-up (ProcessSignaller) ends a shell that does not ignore it.
Killed ==
    \/ shell' = [shell EXCEPT !.state = "dead"]
    \/ UNCHANGED shell

OnCommand ==
    /\ wk.pc = "select" /\ cmds # <<>> /\ cmds' = Tail(cmds)
    /\ IF Head(cmds) = "close"
       THEN /\ wk' = [wk EXCEPT !.closed = TRUE, !.pc = "shut"]
            /\ flags' = [flags EXCEPT !.paused = FALSE]
            /\ Killed
       ELSE wk' = [wk EXCEPT !.pc = "top"] /\ UNCHANGED <<flags, shell>>
    /\ UNCHANGED <<tty, reader, queue, told, create, reg, timer, broker, front, shown>>

\* The registry was dropped without a close.
Dropped == cmds = <<>> /\ reg = "dropped"

OnDropped ==
    /\ wk.pc = "select" /\ Dropped
    /\ wk' = [wk EXCEPT !.dropped = TRUE, !.pc = "shut"]
    /\ flags' = [flags EXCEPT !.paused = FALSE]
    /\ Killed
    /\ UNCHANGED <<tty, reader, queue, told, create, reg, cmds, timer, broker, front, shown>>

\* No command waits.
Idle == cmds = <<>> /\ ~Dropped

OnExit ==
    /\ wk.pc = "select" /\ Idle /\ told
    /\ wk' = [wk EXCEPT !.exited = TRUE, !.pc = "shut"]
    /\ UNCHANGED <<shell, tty, reader, queue, told, create, reg, cmds, flags, timer, broker, front, shown>>

OnWake ==
    /\ wk.pc = "select" /\ Idle /\ ~told /\ flags.wake
    /\ flags' = [flags EXCEPT !.wake = FALSE]
    /\ wk' = [wk EXCEPT !.pc = "top"]
    /\ UNCHANGED <<shell, tty, reader, queue, told, create, reg, cmds, timer, broker, front, shown>>

\* Nothing before it in the order of select_biased.
Quiet == Idle /\ ~told /\ ~flags.wake

OnOutput ==
    /\ wk.pc = "select" /\ Quiet /\ ~wk.paused /\ ~wk.rclosed
    /\ \/ /\ queue # <<>> /\ queue' = <<>> /\ Observe(queue)
          /\ LET all == wk.pending \o queue
                 rest == [wk EXCEPT !.pending = Rest(all), !.pc = "top"]
             IN IF wk.live
                THEN Emit(Decoded(all)) /\ wk' = rest
                ELSE wk' = [rest EXCEPT !.buffered = @ \o Decoded(all)] /\ UNCHANGED shown
       \/ /\ queue = <<>> /\ reader.pc = "done"
          /\ wk' = [wk EXCEPT !.rclosed = TRUE, !.pc = "top"]
          /\ UNCHANGED <<queue, broker, shown>>
    /\ UNCHANGED <<shell, tty, reader, told, create, reg, cmds, flags, timer, front>>

OnTimer ==
    /\ wk.pc = "select" /\ Quiet /\ (queue = <<>> \/ wk.paused) /\ ~wk.live /\ ~wk.paused
    /\ timer = "sent" /\ timer' = "taken"
    /\ wk' = [wk EXCEPT !.pc = "top"]
    /\ UNCHANGED <<shell, tty, reader, queue, told, create, reg, cmds, flags, broker, front, shown>>

\* The loop is left: the output is no longer paused and the terminal released.
Shut ==
    /\ wk.pc = "shut"
    /\ flags' = [flags EXCEPT !.paused = FALSE]
    /\ wk' = [wk EXCEPT !.pc = "drain"]
    /\ UNCHANGED <<shell, tty, reader, queue, told, create, reg, cmds, timer, broker, front, shown>>

Drained == wk.rclosed /\ wk.exited

Drain ==
    /\ wk.pc = "drain" /\ ~Drained
    /\ \/ /\ ~wk.rclosed /\ queue # <<>> /\ queue' = Tail(queue) /\ Observe(<<Head(queue)>>)
          /\ wk' = [wk EXCEPT !.pending = Append(@, Head(queue))]
       \/ /\ ~wk.rclosed /\ queue = <<>> /\ reader.pc = "done"
          /\ wk' = [wk EXCEPT !.rclosed = TRUE] /\ UNCHANGED <<queue, broker>>
       \/ /\ (wk.rclosed \/ (queue = <<>> /\ reader.pc # "done")) /\ ~wk.exited /\ told
          /\ wk' = [wk EXCEPT !.exited = TRUE] /\ UNCHANGED <<queue, broker>>
    /\ UNCHANGED <<shell, tty, reader, told, create, reg, cmds, flags, timer, front, shown>>

\* The watchdog: the waiters that are left are detached.
MayLeave == TRUE

LeaveDrain ==
    /\ wk.pc = "drain" /\ MayLeave
    /\ wk' = [wk EXCEPT !.pc = "tail"]
    /\ UNCHANGED <<shell, tty, reader, queue, told, create, reg, cmds, flags, timer, broker, front, shown>>

\* The rest of the queue.  What was held back at the start still waits for
\* the frontend unless there is nothing of it or the user closed.
DrainTail ==
    /\ wk.pc = "tail" /\ queue' = <<>> /\ Observe(queue)
    /\ LET all == wk.pending \o queue
           live == wk.live \/ (Decoded(all) # <<>> /\ flags.ready)
           gated == wk.buffered # <<>> \/ all # <<>>
       IN wk' = [wk EXCEPT !.live = live,
                           !.buffered = @ \o Decoded(all),
                           !.pending = Rest(all),
                           !.pc = IF ~live /\ gated /\ ~wk.closed /\ ~wk.dropped THEN "gate" ELSE "flush"]
    /\ UNCHANGED <<shell, tty, reader, told, create, reg, cmds, flags, timer, front, shown>>

Gate ==
    /\ wk.pc = "gate"
    /\ wk' = [wk EXCEPT !.paused = flags.paused,
                        !.live = Release(flags.paused),
                        !.pc = IF Release(flags.paused) THEN "flush" ELSE "gated"]
    /\ UNCHANGED <<shell, tty, reader, queue, told, create, reg, cmds, flags, timer, broker, front, shown>>

Gated ==
    /\ wk.pc = "gated"
    /\ \/ /\ cmds # <<>> /\ cmds' = Tail(cmds)
          /\ wk' = IF Head(cmds) = "close" THEN [wk EXCEPT !.closed = TRUE, !.pc = "flush"]
                   ELSE [wk EXCEPT !.pc = "gate"]
          /\ UNCHANGED <<flags, timer>>
       \/ /\ Dropped /\ wk' = [wk EXCEPT !.pc = "flush"] /\ UNCHANGED <<cmds, flags, timer>>
       \/ /\ Idle /\ flags.wake /\ flags' = [flags EXCEPT !.wake = FALSE]
          /\ wk' = [wk EXCEPT !.pc = "gate"] /\ UNCHANGED <<cmds, timer>>
       \/ /\ Idle /\ ~flags.wake /\ ~wk.paused /\ timer = "sent" /\ timer' = "taken"
          /\ wk' = [wk EXCEPT !.pc = "gate"] /\ UNCHANGED <<cmds, flags>>
    /\ UNCHANGED <<shell, tty, reader, queue, told, create, reg, broker, front, shown>>

\* flush_pending_output: what ends inside a character is shown as well.
LastOutput == wk.buffered \o wk.pending

\* The last output, the status and the closed event, which closes the generation.
Flush ==
    /\ wk.pc = "flush"
    /\ IF wk.live THEN Emit(LastOutput) ELSE UNCHANGED shown
    /\ wk' = [wk EXCEPT !.pc = "done", !.buffered = <<>>, !.pending = <<>>]
    /\ broker' = [broker EXCEPT !.state = "closed"]
    /\ UNCHANGED <<shell, tty, reader, queue, told, create, reg, cmds, flags, timer, front>>

-----------------------------------------------------------------------------
(* The frontend *)

Known == create = "done" /\ reg = "present"

Listen ==
    /\ create = "done" /\ ~front.listens /\ front' = [front EXCEPT !.listens = TRUE]
    /\ UNCHANGED <<shell, tty, reader, queue, told, create, reg, cmds, flags, timer, wk, broker, shown>>

\* wake_for_output_state_change: the flag first, then the wake-up.
Wakes == TRUE

\* mark_session_ready
MarkReady ==
    /\ Known /\ front.listens /\ ~flags.ready
    /\ flags' = [flags EXCEPT !.ready = TRUE, !.wake = Wakes]
    /\ UNCHANGED <<shell, tty, reader, queue, told, create, reg, cmds, timer, wk, broker, front, shown>>

\* set_session_output_paused
SetPaused(p) ==
    /\ Known /\ front.listens /\ p # flags.paused
    /\ p => front.pauses < MaxPauses
    /\ front' = [front EXCEPT !.pauses = IF p THEN @ + 1 ELSE @]
    /\ flags' = [flags EXCEPT !.paused = p, !.wake = Wakes]
    /\ UNCHANGED <<shell, tty, reader, queue, told, create, reg, cmds, timer, wk, broker, shown>>

\* enqueue_session_command: a line, a key or a new size.
Write ==
    /\ Known /\ front.listens /\ front.writes < MaxWrites /\ wk.pc # "done"
    /\ cmds' = Append(cmds, "write") /\ front' = [front EXCEPT !.writes = @ + 1]
    /\ UNCHANGED <<shell, tty, reader, queue, told, create, reg, flags, timer, wk, broker, shown>>

\* close_session: first the broker's generation, then the session.
CloseBroker ==
    /\ create = "done" /\ front.closes = "no" /\ reg = "present"
    /\ front' = [front EXCEPT !.closes = "broker"]
    /\ broker' = [broker EXCEPT !.state = "closed"]
    /\ UNCHANGED <<shell, tty, reader, queue, told, create, reg, cmds, flags, timer, wk, shown>>

CloseSession ==
    /\ front.closes = "broker" /\ front' = [front EXCEPT !.closes = "done"]
    /\ reg' = "gone"
    /\ cmds' = IF wk.pc = "done" THEN cmds ELSE Append(cmds, "close")
    /\ UNCHANGED <<shell, tty, reader, queue, told, create, flags, timer, wk, broker, shown>>

\* The application goes down and drops the registry.
DropRegistry ==
    /\ Known /\ front.closes = "no" /\ reg' = "dropped"
    /\ UNCHANGED <<shell, tty, reader, queue, told, create, cmds, flags, timer, wk, broker, front, shown>>

-----------------------------------------------------------------------------
Worker ==
    \/ Top \/ ReleaseStart \/ OnCommand \/ OnDropped \/ OnExit \/ OnWake \/ OnOutput \/ OnTimer
    \/ Shut \/ Drain \/ LeaveDrain \/ DrainTail \/ Gate \/ Gated \/ Flush

Threads == ReaderReads \/ ReaderPushes \/ WaiterReports

Creates == SpawnShell \/ Insert \/ Attach \/ Register \/ StartWorker

Next ==
    \/ Creates \/ RollBack \/ Prints \/ ShellEnds \/ Threads \/ TimerFires \/ Worker
    \/ Listen \/ MarkReady \/ \E p \in BOOLEAN : SetPaused(p)
    \/ Write \/ CloseBroker \/ CloseSession \/ DropRegistry

Spec == Init /\ [][Next]_vars

\* Threads run, time passes, a paused frontend catches up; nobody has to
\* listen, to close or to end.
FairSpec ==
    /\ Spec
    /\ WF_vars(Worker) /\ WF_vars(Threads) /\ WF_vars(TimerFires)
    /\ WF_vars(SetPaused(FALSE)) /\ WF_vars(CloseSession)

-----------------------------------------------------------------------------
(* Properties *)

\* What is shown is what the shell printed, in order, without a hole or a
\* repetition, and no character is shown in halves before the end.
InOrder ==
    /\ shown.all = [i \in 1 .. Len(shown.all) |-> i]
    /\ shown.all # <<>> /\ wk.pc # "done" => Last(shown.all) \notin Split

\* The broker's record is never behind the display.
ShadowLeads ==
    broker.state = "open" => Len(shown.all) + Len(wk.buffered) + Len(wk.pending) <= Len(broker.seen)

\* When the reader has come to the end before the worker leaves, everything
\* the shell printed is shown, unless it is still held back.
AllShown ==
    wk.pc = "done" /\ wk.rclosed /\ wk.live =>
        Len(shown.all) = shell.made

\* A frontend that listens before the start-up limits run out misses nothing.
NothingMissed ==
    front.listens /\ timer = "runs" /\ shell.made <= Limit => shown.heard = shown.all

\* A creation that failed leaves no entry and no shell.
NothingLeft == create = "failed" => reg = "absent" /\ shell.state = "dead"

\* Output reaches the display, whoever listens, unless the user closes.
OutputFlows ==
    \A i \in 1 .. MaxOut :
        shell.made >= i /\ i \notin Split /\ create = "done" ~> Len(shown.all) >= i \/ wk.pc = "done"

\* The session ends with its shell, with the user's close and with the registry.
SessionEnds ==
    /\ shell.state = "dead" /\ create = "done" ~> wk.pc = "done"
    /\ front.closes = "broker" \/ reg = "dropped" ~> wk.pc = "done"

\* The shell does not outlive its session.
ShellDiesWithSession == wk.pc = "done" => shell.state = "dead"
=============================================================================
