----------------------------- MODULE ShellJobs -----------------------------
(***************************************************************************)
(* A background job of an agent in the native shell of a terminal          *)
(* (terminal_broker.rs: prepare_shell_job .. record_shell_job_cleanup and  *)
(* the job events of accept_integration_event; terminal_jobs.rs: the shell *)
(* helpers; native/runtime.rs: execute_terminal_command in the background  *)
(* and manage_shell_job; native/terminal_execute.rs: cleanup_shell_jobs).  *)
(*                                                                         *)
(* The job is launched by a line of the shell and from then on observed    *)
(* and stopped only by further lines at the same prompt.  What the broker  *)
(* knows of it comes through the control channel: a queue of events the    *)
(* shell fills and the reader empties.  One line is in the terminal at a   *)
(* time; a caller that stops waiting leaves its line behind.               *)
(*                                                                         *)
(* Operation 1 is the launch, the later ones are looks (poll) or stops, by *)
(* the tool (manage) or by the end of the task (clean).                    *)
(***************************************************************************)
EXTENDS Naturals, Sequences

CONSTANTS
    MaxOps,     \* bound: operations, the launch included
    Degrades    \* TRUE: the control channel may fail

MaxOpsAssumption == MaxOps \in Nat \ {0}

VARIABLES
    native,     \* the job in the shell: [proc, term, filed, known]
    shell,      \* the shell: "prompt" or "cycle" (between a line and its prompt)
    line,       \* lines sent to the shell and not yet read: <<[op, what]>>
    chan,       \* events written to the control channel and not yet applied
    rec,        \* the terminal's record: [integ, prompt, pending, active]
    cmd,        \* operation -> [state, started, sent, asked, code, probe, stale]
    prep,       \* operation -> what was prepared for it
    job,        \* the broker's job: [state, active, exit, rev, accepted, lost, stop, launched]
    next,       \* the next operation number
    caller,     \* "launch", "manage", "clean" -> [pc, op, rev, sent]
    cancelled   \* the task was cancelled

vars == <<native, shell, line, chan, rec, cmd, prep, job, next, caller, cancelled>>

Ops      == 1 .. MaxOps
Callers  == {"launch", "manage", "clean"}
Final    == {"exited", "rejected"}
Settled  == {"completed", "failed", "cancelled", "timedOut", "uncertain"}

\* An event: its kind, the operation whose line caused it (which the broker
\* cannot see) and its text: a state, an exit status or the line itself.
Ev(k, op, v) == [k |-> k, op |-> op, v |-> v]
JobEv(s, op) == Ev("B", op, s)

Init ==
    /\ native = [proc |-> "none", term |-> FALSE, filed |-> FALSE, known |-> FALSE]
    /\ shell = "prompt" /\ line = <<>> /\ chan = <<>>
    /\ rec = [integ |-> "ready", prompt |-> TRUE, pending |-> FALSE, active |-> 0]
    /\ cmd = [o \in Ops |-> [state |-> "none", started |-> FALSE, sent |-> FALSE,
                             asked |-> FALSE, code |-> "-", probe |-> "none", stale |-> FALSE]]
    /\ prep = [o \in Ops |-> "none"]
    /\ job = [state |-> "none", active |-> "unknown", exit |-> FALSE, rev |-> 0,
              accepted |-> FALSE, lost |-> FALSE, stop |-> FALSE, launched |-> FALSE]
    /\ next = 1
    /\ caller = [c \in Callers |-> [pc |-> "idle", op |-> 0, rev |-> 0, sent |-> FALSE]]
    /\ cancelled = FALSE

TypeOK ==
    /\ native.proc \in {"none", "running", "stopped", "done"}
    /\ shell \in {"prompt", "cycle"}
    /\ \A i \in 1 .. Len(line) : line[i].what \in {"launch", "poll", "stop", "int", "probe"}
    /\ \A i \in 1 .. Len(chan) : chan[i].k \in {"S", "F", "B", "E", "P", "Q", "J", "A"}
    /\ rec.integ \in {"ready", "degraded"} /\ rec.active \in 0 .. MaxOps
    /\ \A o \in Ops : cmd[o].state \in {"none", "submitted", "running", "cancelRequested"} \cup Settled
    /\ job.state \in {"none", "starting", "running", "stopped", "stopRequested", "uncertain"} \cup Final
    /\ job.active \in {"unknown", "yes", "no"}
    /\ next \in 1 .. MaxOps + 1

-----------------------------------------------------------------------------
(* The broker's helpers *)

\* What shell_job does when the terminal or its integration is gone.
Lost(j) ==
    [j EXCEPT !.lost = TRUE,
              !.active = IF @ = "no" THEN "no" ELSE "unknown",
              !.state = IF @ \in Final THEN @ ELSE "uncertain"]

Live == rec.integ = "ready"

\* shell_job: reading the job marks it when it can no longer be observed.
Seen == IF Live \/ job.state = "none" THEN job ELSE Lost(job)

\* mutant: what could not be confirmed becomes uncertain, over or not
DoubtsTheEnd(j) == [j EXCEPT !.state = "uncertain"]

Uncertain(j) == IF j.state \in Final THEN j ELSE [j EXCEPT !.state = "uncertain"]

\* mark_command_uncertain and settle_command_uncertain
SettleUncertain(c) == IF c.state \in Settled THEN c ELSE [c EXCEPT !.state = "uncertain"]

\* degrade_record: the active command is settled, no prompt is trusted.
Degraded(r) == [r EXCEPT !.integ = "degraded", !.prompt = FALSE]

\* retire_command: a line the shell never took leaves the prompt as it was.
Retired(r, c) ==
    [r EXCEPT !.active = 0,
              !.prompt = IF ~c.started /\ ~r.pending THEN r.integ = "ready" ELSE @]

\* begin_command_with_submission and the lease: one operation at a time.
MayBegin ==
    /\ Live /\ rec.prompt /\ rec.active = 0
    /\ \A c \in Callers : caller[c].pc \notin {"send", "wait"}

\* prepare_shell_job_control
Controllable(j) ==
    /\ ~j.lost /\ j.active # "no" /\ j.state \notin Final
    /\ ~(j.state = "starting" /\ ~j.accepted)

\* validate_prepared_shell_job: what was prepared is still what is sent, in
\* the same integration and by the holder of the lease.
Valid(op) == prep[op] # "none" /\ Live /\ rec.active = op

Over(j) == j.state \in Final \/ j.active = "no"

-----------------------------------------------------------------------------
(* The executor: one line in the terminal at a time *)

Begin(op) ==
    /\ MayBegin
    /\ rec' = [rec EXCEPT !.active = op, !.prompt = FALSE]
    /\ cmd' = [cmd EXCEPT ![op].state = "submitted"]

\* The editor is asked whether it is empty, and asked again after a prompt
\* that came in between (refresh_native_read_only_probe).
Probe(op) ==
    /\ cmd[op].state = "submitted" /\ ~cmd[op].sent
    /\ cmd[op].probe = "none" \/ (cmd[op].probe = "again" /\ rec.prompt)
    /\ cmd' = [cmd EXCEPT ![op].probe = "out", ![op].stale = FALSE]
    /\ line' = Append(line, [op |-> op, what |-> "probe"])
    /\ UNCHANGED rec

\* finish_native_read_only_probe
Confirmed(op) == cmd[op].probe = "ok" /\ ~cmd[op].stale

\* The gate: the line is sent only while the command is still submitted, its
\* editor was confirmed empty and what was prepared is valid.
Send(op) ==
    /\ cmd[op].state = "submitted" /\ ~cmd[op].sent /\ Confirmed(op) /\ Valid(op)
    /\ cmd' = [cmd EXCEPT ![op].sent = TRUE]
    /\ rec' = [rec EXCEPT !.pending = TRUE]
    /\ line' = Append(line, [op |-> op, what |-> prep[op]])

\* finish_registration: what was prepared goes, the command is retired.
Finish(op, c) ==
    /\ prep' = [prep EXCEPT ![op] = "none"]
    /\ rec' = IF rec.active = op THEN Retired(rec, c) ELSE rec

\* The editor was not confirmed empty, the view was not ready, the deadline
\* passed or the operation was cancelled before its line was sent.  A launch
\* of which nothing was typed is rejected (reject_unsubmitted_shell_job).
FailBegun(op) ==
    /\ cmd[op].state # "none" /\ ~cmd[op].sent
    /\ cmd' = [cmd EXCEPT ![op] = SettleUncertain(@)]
    /\ \/ UNCHANGED job
       \/ /\ prep[op] = "launch" /\ rec.active = op
          /\ job' = [job EXCEPT !.state = "rejected", !.active = "no"]
    /\ Finish(op, cmd[op])

\* wait_management, the command settled.
WaitSettled(op) ==
    /\ cmd[op].sent /\ cmd[op].state \in Settled
    /\ Finish(op, cmd[op])
    /\ UNCHANGED <<cmd, line>>

\* wait_management, the deadline: the interrupt is sent once and the outcome
\* is not waited for.
WaitTimesOut(op) ==
    /\ cmd[op].sent /\ cmd[op].state \notin Settled
    /\ cmd' = [cmd EXCEPT ![op] = SettleUncertain(@)]
    /\ line' = IF cmd[op].asked THEN line ELSE Append(line, [op |-> op, what |-> "int"])
    /\ Finish(op, cmd[op])

Rest(c, s) == caller' = [caller EXCEPT ![c].pc = s]

-----------------------------------------------------------------------------
(* The launch: execute_terminal_command with background *)

PrepareLaunch ==
    /\ caller["launch"].pc = "idle" /\ Live /\ next = 1
    /\ job' = [job EXCEPT !.state = "starting"]
    /\ prep' = [prep EXCEPT ![1] = "launch"]
    /\ next' = 2 /\ Rest("launch", "begin")
    /\ UNCHANGED <<native, shell, line, chan, rec, cmd, cancelled>>

\* The revalidation of every stage: a cancelled tool goes no further.
MayGoOn(c) == c = "clean" \/ ~cancelled

BeginStep(c) ==
    LET op == IF c = "launch" THEN 1 ELSE caller[c].op IN
    /\ caller[c].pc = "begin" /\ MayGoOn(c)
    /\ Begin(op) /\ Rest(c, "send")
    /\ UNCHANGED <<native, shell, line, chan, prep, job, next, cancelled>>

SendStep(c) ==
    LET op == IF c = "launch" THEN 1 ELSE caller[c].op IN
    /\ caller[c].pc = "send" /\ MayGoOn(c)
    /\ \/ Probe(op) /\ UNCHANGED caller
       \/ Send(op) /\ Rest(c, "wait")
    /\ UNCHANGED <<native, shell, chan, prep, job, next, cancelled>>

\* The start failed: nothing was sent.  Any deadline may pass before it.
StartFails(c) ==
    LET op == IF c = "launch" THEN 1 ELSE caller[c].op IN
    /\ caller[c].pc \in {"begin", "send"}
    /\ \/ caller[c].pc = "send" /\ FailBegun(op)
       \/ /\ caller[c].pc = "begin"
          /\ prep' = [prep EXCEPT ![op] = "none"] /\ UNCHANGED <<cmd, job, rec>>
    /\ Rest(c, "failed")
    /\ UNCHANGED <<native, shell, line, chan, next, cancelled>>

WaitStep(c) ==
    LET op == IF c = "launch" THEN 1 ELSE caller[c].op IN
    /\ caller[c].pc = "wait"
    /\ WaitSettled(op) \/ WaitTimesOut(op)
    /\ Rest(c, "look")
    /\ UNCHANGED <<native, shell, chan, job, next, cancelled>>

\* A launch nobody confirmed stays uncertain: its line is not sent again.
LaunchEnds ==
    /\ caller["launch"].pc \in {"failed", "look"}
    /\ job' = IF Seen.launched \/ Seen.state = "rejected" THEN Seen ELSE Uncertain(Seen)
    /\ Rest("launch", "done")
    /\ UNCHANGED <<native, shell, line, chan, rec, cmd, prep, next, cancelled>>

-----------------------------------------------------------------------------
(* Looking at the job and stopping it: manage_shell_job, cleanup_shell_jobs *)

\* The tool is asked to wait for the job (sent) or to stop it.
Manage ==
    /\ caller["manage"].pc = "idle" /\ job.state # "none" /\ ~cancelled
    /\ \E stopping \in BOOLEAN :
          caller' = [caller EXCEPT !["manage"] = [@ EXCEPT !.pc = "read", !.sent = ~stopping]]
    /\ UNCHANGED <<native, shell, line, chan, rec, cmd, prep, job, next, cancelled>>

\* The task ends: cancel_task asks the operation in the terminal to end
\* (request_where) and then looks for jobs (shell_jobs_for_cleanup).
CancelTask ==
    /\ ~cancelled /\ cancelled' = TRUE
    /\ LET op == rec.active IN
       IF op = 0 \/ cmd[op].state \in Settled
       THEN UNCHANGED <<cmd, job, rec, line>>
       ELSE IF cmd[op].sent
       THEN /\ cmd' = [cmd EXCEPT ![op].state = "cancelRequested", ![op].asked = TRUE]
            /\ line' = IF cmd[op].asked THEN line ELSE Append(line, [op |-> op, what |-> "int"])
            /\ UNCHANGED <<job, rec>>
       ELSE /\ cmd' = [cmd EXCEPT ![op].state = "cancelled", ![op].asked = TRUE]
            /\ job' = IF prep[op] = "launch" THEN [job EXCEPT !.state = "rejected", !.active = "no"] ELSE job
            /\ rec' = Retired(rec, cmd[op])
            /\ UNCHANGED line
    /\ Rest("clean", IF /\ job'.state \notin Final \cup {"none"}
                        /\ ~job'.lost /\ job'.active # "no"
                     THEN "read" ELSE "done")
    /\ UNCHANGED <<native, shell, chan, prep, next>>

\* One turn of the loop of either: over, out of reach, or a line is prepared
\* (a stop once, then looks).  The tool's wait may also end by its deadline.
ReadJob(c) ==
    /\ c \in {"manage", "clean"} /\ caller[c].pc = "read"
    /\ \/ /\ Over(Seen) \/ Seen.lost
          /\ job' = IF c = "clean" /\ ~Over(Seen) THEN Uncertain(Seen) ELSE Seen
          /\ Rest(c, "done")
          /\ UNCHANGED <<prep, next>>
       \/ /\ MayGoOn(c) /\ ~Over(Seen) /\ ~Seen.lost
          /\ Controllable(Seen) /\ rec.prompt /\ rec.active = 0 /\ next <= MaxOps
          /\ prep' = [prep EXCEPT ![next] = IF caller[c].sent THEN "poll" ELSE "stop"]
          /\ caller' = [caller EXCEPT ![c] = [@ EXCEPT !.pc = "begin", !.op = next, !.rev = job.rev]]
          /\ next' = next + 1 /\ UNCHANGED job
    /\ UNCHANGED <<native, shell, line, chan, rec, cmd, cancelled>>

\* mutant: the clean-up gives up without a word
GivesUpQuietly(c) == Seen

\* The deadline: the tool reports the last observation, the clean-up records
\* that the end of the job could not be confirmed (record_shell_job_cleanup).
\* The tool may also be cancelled here.  The five seconds of the clean-up are
\* longer than the two a cancelled operation may still wait for its end.
Overdue(c) == IF c = "clean" /\ ~Over(Seen) THEN Uncertain(Seen) ELSE Seen

DeadlinePasses(c) ==
    /\ c \in {"manage", "clean"} /\ caller[c].pc = "read"
    /\ c = "clean" => \A d \in Callers : caller[d].pc \notin {"send", "wait"}
    /\ job' = Overdue(c)
    /\ Rest(c, "done")
    /\ UNCHANGED <<native, shell, line, chan, rec, cmd, prep, next, cancelled>>

\* Only a completed line that changed what is known is an observation.
Observed(c) ==
    LET o == caller[c].op IN
    cmd[o].state = "completed" /\ cmd[o].code = "0" /\ Seen.rev > caller[c].rev

AfterControl(c) ==
    /\ c \in {"manage", "clean"} /\ caller[c].pc = "look"
    /\ IF Observed(c)
       THEN /\ job' = Seen
            /\ IF Seen.state = "uncertain"
               THEN Rest(c, "done")
               ELSE caller' = [caller EXCEPT ![c] =
                      [@ EXCEPT !.pc = "read", !.sent = @ \/ Seen.stop]]
       ELSE /\ job' = IF c = "clean" THEN Overdue(c) ELSE Uncertain(Seen)
            /\ Rest(c, "done")
    /\ UNCHANGED <<native, shell, line, chan, rec, cmd, prep, next, cancelled>>

ControlFails(c) ==
    /\ c \in {"manage", "clean"} /\ caller[c].pc = "failed"
    /\ job' = Overdue(c)
    /\ Rest(c, "done")
    /\ UNCHANGED <<native, shell, line, chan, rec, cmd, prep, next, cancelled>>

-----------------------------------------------------------------------------
(* The shell *)

Read == /\ line # <<>> /\ shell = "prompt" /\ line' = Tail(line)

Emit(es) == chan' = IF Live THEN chan \o es ELSE chan

\* __shellspan_accept_native: the source is refused, or the group is started.
\* preexec announces the line.
ShellLaunches ==
    /\ Read /\ Head(line).what = "launch"
    /\ \/ /\ Emit(<<Ev("J", Head(line).op, "launch"), Ev("P", 0, "-"), Ev("Q", 0, "-")>>)
          /\ UNCHANGED <<native, shell>>
       \/ /\ native' = [native EXCEPT !.proc = "running", !.known = TRUE]
          /\ shell' = "cycle" /\ Emit(<<Ev("S", Head(line).op, "launch")>>)
    /\ UNCHANGED <<rec, cmd, prep, job, next, caller, cancelled>>

\* __shellspan_job_confirm_zsh, __shellspan_prompt_cycle: what the shell
\* knows of the job it has just started.
Confirm ==
    IF native.known THEN <<JobEv("running", 1)>>
    ELSE IF native.filed
    THEN <<JobEv("running", 1), Ev("F", 1, "-"), JobEv("settled-", 1)>>
    ELSE <<JobEv("rejected", 1)>>

ShellPrompts ==
    /\ shell = "cycle" /\ shell' = "prompt"
    /\ Emit(Confirm \o <<Ev("E", 1, "0"), Ev("P", 0, "-"), Ev("Q", 0, "-")>>)
    /\ native' = [native EXCEPT !.filed = IF native.known THEN @ ELSE FALSE]
    /\ UNCHANGED <<line, rec, cmd, prep, job, next, caller, cancelled>>

Cycle(op, es, status) ==
    Emit(<<Ev("S", op, Head(line).what)>> \o es \o
         <<Ev("E", op, status), Ev("P", 0, "-"), Ev("Q", 0, "-")>>)

Completion == IF native.filed THEN <<Ev("F", 1, "-")>> ELSE <<>>

\* __shellspan_job_control: a job in the table is looked at or signalled, one
\* that has left it is waited for; its exit status may be known already.
ShellControls ==
    LET op == Head(line).op
        what == Head(line).what
    IN
    /\ Read /\ what \in {"poll", "stop"}
    /\ \/ /\ native.proc \in {"running", "stopped"} /\ what = "stop"
          /\ native' = [native EXCEPT !.term = TRUE, !.proc = "running"]
          /\ Cycle(op, <<JobEv("stopRequested", op)>>, "0")
       \/ /\ native.proc \in {"running", "stopped"} /\ what = "stop"
          /\ native' = [native EXCEPT !.proc = "done", !.filed = TRUE]   \* it ended before the signal
          /\ Cycle(op, <<JobEv("uncertain", op)>>, "other")
       \/ /\ native.proc \in {"running", "stopped"} /\ what = "poll"
          /\ UNCHANGED native
          /\ Cycle(op, <<JobEv(native.proc, op)>>, "0")
       \/ /\ native.proc \in {"none", "done"}
          /\ native' = [native EXCEPT !.filed = FALSE, !.known = FALSE]
          /\ Cycle(op, Completion \o <<JobEv(IF native.known THEN "settled" ELSE "settled-", op)>>, "0")
    /\ UNCHANGED <<shell, rec, cmd, prep, job, next, caller, cancelled>>

\* __shellspan_native_checkpoint
ShellAnswers ==
    /\ Read /\ Head(line).what = "probe"
    /\ Emit(<<Ev("A", Head(line).op, "-")>>)
    /\ UNCHANGED <<native, shell, rec, cmd, prep, job, next, caller, cancelled>>

\* An interrupt at the prompt: a new prompt.
ShellInterrupted ==
    /\ Read /\ Head(line).what = "int"
    /\ Emit(<<Ev("P", 0, "-"), Ev("Q", 0, "-")>>)
    /\ UNCHANGED <<native, shell, rec, cmd, prep, job, next, caller, cancelled>>

\* The program of the job: it ends (its exit status is written first), it may
\* be stopped and continued; the shell may drop it from its table.
Program ==
    /\ \/ native.proc = "running" /\ native' = [native EXCEPT !.proc = "done", !.filed = TRUE]
       \/ native.proc = "running" /\ ~native.term /\ native' = [native EXCEPT !.proc = "stopped"]
       \/ native.proc = "done" /\ native.known /\ native' = [native EXCEPT !.known = FALSE]
    /\ UNCHANGED <<shell, line, chan, rec, cmd, prep, job, next, caller, cancelled>>

-----------------------------------------------------------------------------
(* accept_integration_event *)

Accepted ==
    /\ rec.active # 0 /\ cmd[rec.active].started
    /\ cmd[rec.active].state \in {"running", "cancelRequested"}

\* The active operation is a look or a stop of this job.
FreshControl == Accepted /\ prep[rec.active] \in {"poll", "stop"}

\* Events outside a command of this job, or of a job that is over, are dropped.
Hears ==
    /\ job.state \notin Final /\ job.active # "no" /\ ~job.lost /\ Accepted
    /\ rec.active = 1 \/ FreshControl
    /\ job.state = "uncertain" => FreshControl

SettledJob(j, known) ==
    [j EXCEPT !.active = "no", !.exit = @ \/ known,
              !.state = IF j.exit \/ known THEN "exited" ELSE "uncertain"]

JobAfter(e) ==
    LET j == [job EXCEPT !.rev = @ + 1] IN
    CASE e.k = "F" -> [j EXCEPT !.exit = TRUE, !.launched = TRUE]
      [] e.v = "running" -> [j EXCEPT !.launched = TRUE, !.active = "yes", !.state = "running"]
      [] e.v = "stopRequested" ->
            [j EXCEPT !.launched = TRUE, !.active = "yes", !.stop = TRUE, !.state = e.v]
      [] e.v = "settled" -> SettledJob(j, TRUE)
      [] e.v = "settled-" -> SettledJob(j, FALSE)
      [] e.v = "stopped" -> [j EXCEPT !.active = "yes", !.state = e.v]
      [] e.v = "rejected" -> [j EXCEPT !.active = "no", !.state = e.v]
      [] OTHER -> [j EXCEPT !.active = "unknown", !.state = e.v]

\* The reader fails on an event out of order: the integration is degraded.
Breaks ==
    /\ rec' = Degraded(rec)
    /\ cmd' = IF rec.active = 0 THEN cmd ELSE [cmd EXCEPT ![rec.active] = SettleUncertain(@)]
    /\ chan' = <<>> /\ UNCHANGED job

OnJob(e) ==
    /\ job' = IF Hears THEN JobAfter(e) ELSE job
    /\ UNCHANGED <<rec, cmd>> /\ chan' = Tail(chan)

OnStart(e) ==
    LET op == rec.active IN
    IF op = 0
    THEN /\ rec' = [rec EXCEPT !.prompt = FALSE]
         /\ UNCHANGED <<cmd, job>> /\ chan' = Tail(chan)
    ELSE IF cmd[op].state \notin {"submitted", "cancelRequested"} \/ e.v # prep[op]
    THEN Breaks
    ELSE /\ cmd' = [cmd EXCEPT ![op].started = TRUE,
                               ![op].state = IF @ = "submitted" THEN "running" ELSE @]
         /\ rec' = [rec EXCEPT !.prompt = FALSE, !.pending = FALSE]
         /\ job' = IF prep[op] = "launch" THEN [job EXCEPT !.accepted = TRUE] ELSE job
         /\ chan' = Tail(chan)

\* settle_command_from_integration
OnEnd(e) ==
    LET op == rec.active IN
    IF op # 0 /\ cmd[op].state \notin Settled \cup {"running", "cancelRequested"}
    THEN Breaks
    ELSE /\ rec' = [rec EXCEPT !.prompt = FALSE]
         /\ cmd' = IF op = 0 \/ cmd[op].state \in Settled THEN cmd
                   ELSE [cmd EXCEPT ![op].state = IF cmd[op].asked THEN "cancelled" ELSE "completed",
                                    ![op].code = e.v]
         /\ UNCHANGED job /\ chan' = Tail(chan)

\* NativeCheckpoint: an answer asked for before the last prompt is drained.
OnAnswer(e) ==
    LET op == rec.active IN
    /\ cmd' = IF op # 0 /\ cmd[op].state = "submitted" /\ cmd[op].probe = "out"
              THEN [cmd EXCEPT ![op].probe = IF cmd[op].stale THEN "again" ELSE "ok"] ELSE cmd
    /\ UNCHANGED <<rec, job>> /\ chan' = Tail(chan)

\* A prompt while the editor is being asked makes the answer stale; a prompt
\* while the line is on its way means the line was lost.
OnPromptStart(e) ==
    IF rec.active # 0 /\ cmd[rec.active].state = "submitted" /\ ~cmd[rec.active].sent
    THEN /\ rec' = [rec EXCEPT !.prompt = FALSE]
         /\ cmd' = [cmd EXCEPT ![rec.active].stale = TRUE,
                               ![rec.active].probe = IF @ = "ok" THEN "again" ELSE @]
         /\ UNCHANGED job /\ chan' = Tail(chan)
    ELSE IF rec.pending /\ rec.active # 0 /\ cmd[rec.active].state = "submitted"
    THEN Breaks
    ELSE /\ rec' = [rec EXCEPT !.prompt = FALSE]
         /\ UNCHANGED <<cmd, job>> /\ chan' = Tail(chan)

OnPromptEnd(e) ==
    /\ rec' = [rec EXCEPT !.prompt = TRUE, !.pending = FALSE]
    /\ UNCHANGED <<cmd, job>> /\ chan' = Tail(chan)

\* InputRejected: the parser refused the line, nothing ran.
OnRejected(e) ==
    LET op == rec.active IN
    IF op # 0 /\ (cmd[op].state \in Settled \/ e.v # prep[op])
    THEN Breaks
    ELSE /\ cmd' = IF op = 0 THEN cmd
                   ELSE [cmd EXCEPT ![op].state = IF cmd[op].asked THEN "cancelled" ELSE "failed"]
         /\ rec' = [rec EXCEPT !.pending = TRUE]
         /\ job' = IF op # 0 /\ prep[op] = "launch"
                   THEN [job EXCEPT !.state = "rejected", !.active = "no"] ELSE job
         /\ chan' = Tail(chan)

Apply ==
    /\ chan # <<>> /\ Live
    /\ LET e == Head(chan) IN
       CASE e.k \in {"B", "F"} -> OnJob(e)
         [] e.k = "S" -> OnStart(e)
         [] e.k = "E" -> OnEnd(e)
         [] e.k = "P" -> OnPromptStart(e)
         [] e.k = "Q" -> OnPromptEnd(e)
         [] e.k = "A" -> OnAnswer(e)
         [] OTHER -> OnRejected(e)
    /\ UNCHANGED <<native, shell, line, prep, next, caller, cancelled>>

\* integration_channel_closed
ChannelFails ==
    /\ Degrades /\ Live /\ Breaks
    /\ UNCHANGED <<native, shell, line, prep, next, caller, cancelled>>

-----------------------------------------------------------------------------
CallerStep(c) ==
    \/ BeginStep(c) \/ SendStep(c) \/ StartFails(c) \/ WaitStep(c)
    \/ ReadJob(c) \/ DeadlinePasses(c) \/ AfterControl(c) \/ ControlFails(c)

Shell == ShellLaunches \/ ShellPrompts \/ ShellControls \/ ShellAnswers \/ ShellInterrupted

Next ==
    \/ PrepareLaunch \/ LaunchEnds \/ Manage \/ CancelTask
    \/ \E c \in Callers : CallerStep(c)
    \/ Shell \/ Program \/ Apply \/ ChannelFails

Spec == Init /\ [][Next]_vars

\* Threads run, the shell reads, the reader reads; no program has to end.
FairSpec ==
    /\ Spec
    /\ WF_vars(\E c \in Callers : CallerStep(c)) /\ WF_vars(LaunchEnds)
    /\ WF_vars(Shell) /\ WF_vars(Apply)

-----------------------------------------------------------------------------
(* Properties *)

\* What the broker says for certain of the job is so: a job called inactive
\* or exited is not running, and a job called rejected never ran.
SaysTheTruth ==
    /\ job.active = "no" => native.proc \in {"none", "done"}
    /\ job.state = "exited" => native.proc = "done"
    /\ job.state = "rejected" => native.proc = "none" /\ \A i \in 1 .. Len(line) : line[i].what # "launch"

\* An end is final: no late or repeated event brings a job back.
KeepsFinal ==
    /\ job.state \in Final => job'.state = job.state
    /\ job.active = "no" => job'.active = "no"
FinalStays == [][KeepsFinal]_vars

\* When the end of the task is done with the job, the job is over or is
\* recorded as uncertain: a process that still runs is never reported as if
\* it were being looked after.
NoJobForgotten ==
    caller["clean"].pc = "done" /\ native.proc \in {"running", "stopped"} =>
        Seen.state = "uncertain"

\* The end of the task ends, whatever the job and the terminal do.
CleanEnds == cancelled ~> caller["clean"].pc = "done"
=============================================================================
