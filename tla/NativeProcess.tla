------------------------------ MODULE NativeProcess ------------------------------
(* Commands an agent runs outside the terminal (native/process.rs, and exec_command,
   write_stdin, wait_process, kill_process and the diagnostics that use it): each has a
   worker thread that owns the child or the SSH channel, a mailbox of controls, a state that
   is settled once, and a place in the registry. The callers, the task's cancellation, the
   deadline and the process itself run beside the worker. *)
EXTENDS Naturals, Sequences, FiniteSets

CONSTANTS
  Procs,
  Kinds,        \* what each process may be, see KindType
  Capacity,     \* processes the registry holds
  MaxRunning,   \* running ones that admit one more
  WriteSize,    \* pieces of one input
  MaxWrites     \* inputs written to a process

KindType == [remote : BOOLEAN, call : {"exec", "background", "diagnostic"}]
ProcessAssumption ==
  /\ Kinds \subseteq [Procs -> KindType] /\ {Capacity, MaxRunning, WriteSize} \subseteq Nat \ {0}
  /\ MaxWrites \in Nat

VARIABLES
  kind,
  caller,      \* of each process: the tool call that starts it
  worker,      \* its worker thread
  os,          \* the process on its host
  life, confirmed,   \* the managed state
  mail,        \* controls for the worker
  late,        \* whether its deadline has passed
  pending, expired,  \* pieces of the input being written, and whether its time is up
  sent, writes, writer,  \* pieces the process took, inputs asked for, and the caller of write_stdin
  tracked,     \* the registry
  killer,      \* kill_process and wait_process of the agent
  token,       \* the task's cancellation
  stop         \* cancel_task: where it is, what it listed and has to do, and whether it failed

process == <<os, life, confirmed, late>>
input == <<pending, expired, sent, writes, writer>>
vars == <<kind, caller, worker, process, mail, input, tracked, killer, token, stop>>

Init ==
  /\ kind \in Kinds
  /\ caller = [p \in Procs |-> "idle"] /\ worker = [p \in Procs |-> "none"] /\ os = [p \in Procs |-> "none"]
  /\ life = [p \in Procs |-> "none"] /\ confirmed = [p \in Procs |-> FALSE] /\ mail = [p \in Procs |-> << >>]
  /\ late = [p \in Procs |-> FALSE] /\ pending = [p \in Procs |-> 0] /\ expired = [p \in Procs |-> FALSE]
  /\ sent = [p \in Procs |-> 0] /\ writes = [p \in Procs |-> 0] /\ writer = [p \in Procs |-> "idle"]
  /\ tracked = {} /\ killer = [p \in Procs |-> "idle"] /\ token = FALSE
  /\ stop = [at |-> "no", listed |-> {}, todo |-> {}, failed |-> FALSE]

Set(f, p, v) == [f EXCEPT ![p] = v]
Terminal(p) == life[p] \notin {"none", "Running"}
Running == {p \in tracked : life[p] = "Running"}
Remote(p) == kind[p].remote
Diagnostic(p) == kind[p].call = "diagnostic"

Has(p, what) == \E i \in DOMAIN mail[p] : mail[p][i] = what
\* A kill is the last control a worker takes: another one is not kept here.
Killed(p) == IF Has(p, "kill") THEN mail ELSE Set(mail, p, Append(mail[p], "kill"))

(* ------------------------------- the call that starts it ------------------- *)
\* The check, the start and the entry are three steps: other calls, and the task's
\* cancellation, come in between.
Admit(p) ==
  /\ caller[p] = "idle" /\ ~token
  /\ caller' = Set(caller, p, IF Cardinality(Running) < MaxRunning /\ Cardinality(tracked) < Capacity
                              THEN "admitted" ELSE "refused")
  /\ UNCHANGED <<kind, worker, process, mail, input, tracked, killer, token, stop>>
Spawn(p) ==
  /\ caller[p] = "admitted" /\ caller' = Set(caller, p, "spawned") /\ life' = Set(life, p, "Running")
  /\ IF Remote(p) THEN worker' = Set(worker, p, "start") /\ UNCHANGED os
     ELSE worker' = Set(worker, p, "loop") /\ os' = Set(os, p, "running")
  /\ UNCHANGED <<kind, confirmed, late, mail, input, tracked, killer, token, stop>>
\* A command that cannot be entered is left to itself, a diagnostic is killed.
Insert(p) ==
  /\ caller[p] = "spawned"
  /\ IF Cardinality(tracked) < Capacity
     THEN /\ tracked' = tracked \cup {p} /\ UNCHANGED mail
          /\ caller' = Set(caller, p, IF kind[p].call = "background" THEN "done" ELSE "waiting")
     ELSE /\ UNCHANGED tracked /\ caller' = Set(caller, p, "refused")
          /\ mail' = IF Diagnostic(p) THEN Killed(p) ELSE mail
  /\ UNCHANGED <<kind, worker, process, input, killer, token, stop>>
ForgetIfTerminal(p) == tracked' = IF Terminal(p) THEN tracked \ {p} ELSE tracked
\* The foreground call waits a second longer than its process may take.
Returns(p) ==
  /\ caller[p] = "waiting" /\ (Terminal(p) \/ (late[p] /\ ~Diagnostic(p))) /\ caller' = Set(caller, p, "done")
  /\ ForgetIfTerminal(p)
  /\ UNCHANGED <<kind, worker, process, mail, input, killer, token, stop>>
\* A diagnostic looks at the task's cancellation as it waits, kills, and waits a second for it.
Interrupts(p) ==
  /\ Diagnostic(p) /\ token /\ ~Terminal(p)
  /\ \/ /\ caller[p] = "waiting" /\ worker[p] # "gone" /\ caller' = Set(caller, p, "killing")
        /\ mail' = Killed(p) /\ UNCHANGED tracked
     \/ /\ caller[p] = "killing" /\ caller' = Set(caller, p, "done") /\ ForgetIfTerminal(p) /\ UNCHANGED mail
  /\ UNCHANGED <<kind, worker, process, input, killer, token, stop>>
Interrupted(p) ==
  /\ caller[p] = "killing" /\ Terminal(p) /\ caller' = Set(caller, p, "done") /\ ForgetIfTerminal(p)
  /\ UNCHANGED <<kind, worker, process, mail, input, killer, token, stop>>

(* ---------------------------------- the worker ----------------------------- *)
\* finish: the first outcome stays. What waits for the worker's answer gets none.
Finish(p, how, sure) ==
  /\ life' = Set(life, p, IF life[p] = "Running" THEN how ELSE life[p])
  /\ confirmed' = Set(confirmed, p, IF life[p] = "Running" THEN sure ELSE confirmed[p])
  /\ worker' = Set(worker, p, "gone") /\ mail' = Set(mail, p, << >>) /\ pending' = Set(pending, p, 0)
Answer(p, what) == writer' = IF writer[p] = "waiting" THEN Set(writer, p, what) ELSE writer
Unanswered(p) == Answer(p, "error")
Others == UNCHANGED <<kind, caller, tracked, killer, token, stop>>
Head1(p, what) == mail[p] # << >> /\ Head(mail[p]) = what
Rest(p) == Set(mail, p, Tail(mail[p]))

TakeInput(p) ==
  /\ worker[p] = "loop" /\ ~Remote(p) /\ Head1(p, "write") /\ mail' = Rest(p)
  /\ pending' = Set(pending, p, WriteSize)
  /\ UNCHANGED <<worker, process, expired, sent, writes, writer>> /\ Others
OneLess(p) == pending[p] - 1
\* The process takes a piece of its input.
Takes(p) ==
  /\ worker[p] = "loop" /\ ~Remote(p) /\ pending[p] > 0 /\ os[p] = "running" /\ ~expired[p]
  /\ pending' = Set(pending, p, OneLess(p)) /\ sent' = Set(sent, p, sent[p] + 1)
  /\ IF OneLess(p) = 0 THEN Answer(p, "ok") ELSE UNCHANGED writer
  /\ UNCHANGED <<worker, process, mail, expired, writes>> /\ Others
\* Time is up for an input: the process is ended, lest it reads the rest later.
InputExpires(p) ==
  /\ worker[p] = "loop" /\ ~Remote(p) /\ pending[p] > 0 /\ expired[p]
  /\ os' = Set(os, p, "gone") /\ Finish(p, "Failed", TRUE) /\ Unanswered(p)
  /\ UNCHANGED <<late, expired, sent, writes>> /\ Others
BrokenPipe(p) ==
  /\ worker[p] = "loop" /\ ~Remote(p) /\ pending[p] > 0 /\ os[p] = "gone" /\ ~expired[p]
  /\ pending' = Set(pending, p, 0) /\ Unanswered(p)
  /\ UNCHANGED <<worker, process, mail, expired, sent, writes>> /\ Others
\* A signal, and a hard one two seconds later for what has not ended.
KillLocal(p) ==
  /\ worker[p] = "loop" /\ ~Remote(p) /\ Head1(p, "kill") /\ mail' = Rest(p)
  /\ worker' = Set(worker, p, "killing") /\ os' \in {os, Set(os, p, "gone")}
  /\ UNCHANGED <<life, confirmed, late, input>> /\ Others
Settle(p) ==
  /\ worker[p] = "killing" /\ os' = Set(os, p, "gone") /\ Finish(p, "Cancelled", TRUE) /\ Unanswered(p)
  /\ UNCHANGED <<late, expired, sent, writes>> /\ Others
Observe(p) ==
  /\ worker[p] = "loop" /\ ~Remote(p) /\ os[p] = "gone" /\ Finish(p, "Exited", TRUE) /\ Unanswered(p)
  /\ UNCHANGED <<os, late, expired, sent, writes>> /\ Others
OverdueLocal(p) ==
  /\ worker[p] = "loop" /\ ~Remote(p) /\ late[p]
  /\ os' = Set(os, p, "gone") /\ Finish(p, "TimedOut", TRUE) /\ Unanswered(p)
  /\ UNCHANGED <<late, expired, sent, writes>> /\ Others

\* Before each step of the connection: a kill and the deadline end it, an input is refused.
Steps == << "start", "connect", "connected", "open", "opened", "dispatch" >>
After(at) == CHOOSE next \in {Steps[i] : i \in 2..6} : \E i \in 1..5 : Steps[i] = at /\ Steps[i + 1] = next
Stopped(p) == Head1(p, "kill") \/ (Diagnostic(p) /\ token)
Refuse(p) ==
  /\ Remote(p) /\ worker[p] \in {"start", "connected", "opened", "closing"} /\ Head1(p, "write")
  /\ mail' = Rest(p) /\ Unanswered(p)
  /\ UNCHANGED <<worker, process, pending, expired, sent, writes>> /\ Others
Proceed(p) ==
  /\ Remote(p) /\ worker[p] \in {"start", "connected", "opened"} /\ ~Head1(p, "write")
  /\ IF Stopped(p) \/ late[p]
     THEN Finish(p, IF Stopped(p) THEN "Cancelled" ELSE "TimedOut", FALSE) /\ Unanswered(p)
     ELSE worker' = Set(worker, p, After(worker[p])) /\ UNCHANGED <<life, confirmed, mail, pending, writer>>
  /\ UNCHANGED <<os, late, expired, sent, writes>> /\ Others
\* Connecting, opening a channel and starting the command block, and may fail: the command
\* may have been started all the same.
Connect(p) ==
  /\ Remote(p) /\ worker[p] \in {"connect", "open", "dispatch"}
  /\ \/ /\ IF worker[p] = "dispatch" THEN worker' = Set(worker, p, "loop") /\ os' = Set(os, p, "running")
           ELSE worker' = Set(worker, p, After(worker[p])) /\ UNCHANGED os
        /\ UNCHANGED <<life, confirmed, mail, pending, writer>>
     \/ /\ Finish(p, IF Diagnostic(p) /\ token THEN "Cancelled" ELSE IF Diagnostic(p) /\ late[p] THEN "TimedOut"
                     ELSE "Failed", FALSE) /\ Unanswered(p)
        /\ os' \in IF worker[p] = "dispatch" THEN {os, Set(os, p, "running")} ELSE {os}
  /\ UNCHANGED <<late, expired, sent, writes>> /\ Others
\* Closing the channel does not end the process for certain.
NotSure == FALSE
KillRemote(p) ==
  /\ Remote(p) /\ worker[p] \in {"loop", "closing"} /\ Stopped(p)
  /\ Finish(p, "Cancelled", NotSure) /\ Unanswered(p)
  /\ UNCHANGED <<os, late, expired, sent, writes>> /\ Others
Watched == {"loop", "closing"}
OverdueRemote(p) ==
  /\ Remote(p) /\ worker[p] \in Watched /\ late[p]
  /\ Finish(p, "TimedOut", NotSure) /\ Unanswered(p)
  /\ UNCHANGED <<os, late, expired, sent, writes>> /\ Others
\* The input is written at once, as far as the process takes it.
WriteRemote(p) ==
  /\ Remote(p) /\ worker[p] = "loop" /\ Head1(p, "write") /\ mail' = Rest(p)
  /\ \E n \in 0..WriteSize, what \in {"ok", "error"} :
       /\ n > 0 => ~expired[p]
       /\ what = "ok" => n = WriteSize
       /\ sent' = Set(sent, p, sent[p] + n) /\ Answer(p, what)
  /\ UNCHANGED <<worker, process, pending, expired, writes>> /\ Others
Eof(p) ==
  /\ Remote(p) /\ worker[p] = "loop" /\ os[p] = "gone" /\ worker' = Set(worker, p, "closing")
  /\ UNCHANGED <<process, mail, input>> /\ Others
Status(p) ==
  /\ Remote(p) /\ worker[p] = "closing" /\ Finish(p, "Exited", TRUE) /\ Unanswered(p)
  /\ UNCHANGED <<os, late, expired, sent, writes>> /\ Others
\* The connection fails.
Lost(p) ==
  /\ Remote(p) /\ worker[p] \in {"loop", "closing"} /\ Finish(p, "Failed", FALSE) /\ Unanswered(p)
  /\ UNCHANGED <<os, late, expired, sent, writes>> /\ Others

(* ---------------------------- the agent's other calls ---------------------- *)
Known(p) == p \in tracked /\ caller[p] = "done" /\ ~token
Write(p) ==
  /\ Known(p) /\ ~Terminal(p) /\ worker[p] # "gone" /\ writes[p] < MaxWrites
  /\ writer[p] # "waiting" /\ pending[p] = 0 /\ ~Has(p, "write")
  /\ writes' = Set(writes, p, writes[p] + 1) /\ writer' = Set(writer, p, "waiting") /\ expired' = Set(expired, p, FALSE)
  /\ mail' = Set(mail, p, Append(mail[p], "write"))
  /\ UNCHANGED <<kind, caller, worker, process, pending, sent, tracked, killer, token, stop>>
\* The caller of write_stdin waits three seconds longer than the input may take.
WriteTimesOut(p) ==
  /\ writer[p] = "waiting" /\ expired[p] /\ pending[p] = 0 /\ writer' = Set(writer, p, "error")
  /\ UNCHANGED <<kind, caller, worker, process, mail, pending, expired, sent, writes, tracked, killer, token, stop>>
Kill(p) ==
  /\ Known(p) /\ killer[p] = "idle" /\ ~Terminal(p)
  /\ IF worker[p] = "gone" THEN UNCHANGED <<mail, killer>>
     ELSE mail' = Killed(p) /\ killer' = Set(killer, p, "waiting")
  /\ UNCHANGED <<kind, caller, worker, process, input, tracked, token, stop>>
\* wait_process and the end of kill_process: a settled handle is given up, time may be up first.
Collect(p) ==
  /\ p \in tracked /\ (Known(p) \/ killer[p] = "waiting") /\ killer' = Set(killer, p, "idle")
  /\ Terminal(p) \/ killer[p] = "waiting"
  /\ ForgetIfTerminal(p)
  /\ UNCHANGED <<kind, caller, worker, process, mail, input, token, stop>>

(* --------------------------------- cancel_task ----------------------------- *)
Cancel ==
  /\ ~token /\ token' = TRUE
  /\ UNCHANGED <<kind, caller, worker, process, mail, input, tracked, killer, stop>>
List ==
  /\ token /\ stop.at = "no" /\ stop' = [stop EXCEPT !.at = "next", !.listed = tracked, !.todo = tracked]
  /\ UNCHANGED <<kind, caller, worker, process, mail, input, tracked, killer, token>>
\* A control that cannot be sent is an error, though the process may just have ended.
StopKills(p) ==
  /\ stop.at = "next" /\ p \in stop.todo
  /\ IF Terminal(p) THEN stop' = [stop EXCEPT !.todo = @ \ {p}] /\ tracked' = tracked \ {p} /\ UNCHANGED mail
     ELSE /\ stop' = [stop EXCEPT !.at = p] /\ UNCHANGED tracked
          /\ mail' = Killed(p)
  /\ UNCHANGED <<kind, caller, worker, process, input, killer, token>>
\* After three seconds: the handle of what has not ended is kept, and the stop fails.
SaysSo(p) == ~Terminal(p)
StopCollects(p) ==
  /\ stop.at = p /\ ForgetIfTerminal(p)
  /\ stop' = [stop EXCEPT !.at = "next", !.todo = @ \ {p}, !.failed = @ \/ SaysSo(p)]
  /\ UNCHANGED <<kind, caller, worker, process, mail, input, killer, token>>
StopEnds ==
  /\ stop.at = "next" /\ stop.todo = {} /\ stop' = [stop EXCEPT !.at = "ended"]
  /\ UNCHANGED <<kind, caller, worker, process, mail, input, tracked, killer, token>>

(* ------------------------------ the process and time ----------------------- *)
Ends(p) ==
  /\ os[p] = "running" /\ os' = Set(os, p, "gone")
  /\ UNCHANGED <<kind, caller, worker, life, confirmed, late, mail, input, tracked, killer, token, stop>>
Deadline(p) ==
  /\ life[p] = "Running" /\ ~late[p] /\ late' = Set(late, p, TRUE)
  /\ UNCHANGED <<kind, caller, worker, os, life, confirmed, mail, input, tracked, killer, token, stop>>
WriteDeadline(p) ==
  /\ writer[p] = "waiting" /\ ~expired[p] /\ expired' = Set(expired, p, TRUE)
  /\ UNCHANGED <<kind, caller, worker, process, mail, pending, sent, writes, writer, tracked, killer, token, stop>>

Call(p) == Admit(p) \/ Spawn(p) \/ Insert(p) \/ Returns(p) \/ Interrupts(p) \/ Interrupted(p)
Worker(p) ==
  \/ TakeInput(p) \/ InputExpires(p) \/ BrokenPipe(p) \/ KillLocal(p) \/ Settle(p) \/ Observe(p) \/ OverdueLocal(p)
  \/ Refuse(p) \/ Proceed(p) \/ Connect(p) \/ KillRemote(p) \/ OverdueRemote(p) \/ WriteRemote(p)
FromHost(p) == Eof(p) \/ Status(p) \/ Lost(p)
Stopping == List \/ StopEnds \/ \E p \in Procs : StopKills(p) \/ StopCollects(p)
Next ==
  \/ \E p \in Procs : \/ Call(p) \/ Worker(p) \/ FromHost(p) \/ Takes(p) \/ Write(p) \/ WriteTimesOut(p) \/ Kill(p) \/ Collect(p)
                      \/ Ends(p) \/ Deadline(p) \/ WriteDeadline(p)
  \/ Cancel \/ Stopping
Spec == Init /\ [][Next]_vars
\* Threads run, blocking calls on the network end, time passes. A process need not read or end,
\* its host need not report its end.
FairSpec ==
  /\ Spec /\ WF_vars(Stopping)
  /\ \A p \in Procs : WF_vars(Worker(p)) /\ WF_vars(Deadline(p)) /\ WF_vars(WriteDeadline(p) \/ WriteTimesOut(p))
                      /\ WF_vars(caller[p] # "idle" /\ Call(p))

(* -------------------------------- properties ------------------------------- *)
\* A process that was started has a worker until its state is settled, and nobody waits for a
\* worker that has gone.
TypeOK ==
  /\ \A p \in Procs : /\ (worker[p] = "gone") = Terminal(p)
                      /\ worker[p] = "gone" => mail[p] \in Seq({"kill"}) /\ pending[p] = 0 /\ writer[p] # "waiting"
                      /\ pending[p] \in 0..WriteSize
  /\ Cardinality(tracked) <= Capacity
\* protocol/agent/runtime/diagnostic-tools.md:33: an end that is reported as confirmed is one.
ConfirmedIsGone == \A p \in Procs : confirmed[p] => os[p] = "gone"
\* protocol/agent/runtime/file-and-script-execution.md:73: a cancellation that reports no error
\* has left no handle of a process that is still reported as running. Not so for one that was
\* started and not yet entered in the registry when cancel_task listed it.
StoppedIsGone == stop.at = "ended" /\ ~stop.failed => \A p \in tracked : life[p] # "Running"
\* What holds: it has left none of those it found in the registry.
ListedIsGone == stop.at = "ended" /\ ~stop.failed => \A p \in stop.listed : life[p] # "Running"
\* A process that runs can be found by its handle, once the call that started it has returned
\* one. A call that is refused because the registry filled up after its check returns none, and
\* leaves the process it has started to itself.
RunningIsTracked == \A p \in Procs : caller[p] = "done" /\ life[p] = "Running" => p \in tracked
\* protocol/agent/runtime/file-and-script-execution.md:67: an input is written once, in its order,
\* and what was accepted is what was written.
InputOnce ==
  \A p \in Procs : sent[p] + pending[p] <= WriteSize * writes[p] /\ (writer[p] = "ok" => pending[p] = 0)
\* protocol/agent/runtime/diagnostic-tools.md:43: at most so many are admitted. Not so when two
\* calls overlap.
AtMost == Cardinality({p \in Procs : Diagnostic(p) /\ life[p] = "Running"}) <= MaxRunning
\* Every process that was started is settled, and the calls return.
AllSettle == \A p \in Procs : life[p] = "Running" ~> Terminal(p)
CallsReturn == /\ \A p \in Procs : caller[p] = "waiting" ~> caller[p] = "done"
               /\ token ~> stop.at = "ended"
=============================================================================
