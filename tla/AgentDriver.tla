------------------------------- MODULE AgentDriver -------------------------------
(* Who drives an Agent Session, and when.
   Source: src/src-tauri/src/agent_runtime/{runtime,registry,driver,user_questions}.rs.

   An attached Agent Session has an entry: an admission flag, a phase, a
   cancellation token, an active scope and one worker slot, the driver lease.  Every
   command that leaves work behind "wakes" the entry: it tries to take the slot and
   spawn a task that drives turns until the Session is idle or waits for the user.
   The slot is also taken by commands that need the Session to hold still (archive,
   the choice of the execution surface, binding a directory, a terminal's reconnect),
   and a wake that finds it taken gives up.

   Concurrent here: the tasks; the main thread, which runs the synchronous commands
   one after another; and the asynchronous commands, submission, stop, reconnect.
   The session store is a lock around each of its operations, one step each. *)

EXTENDS Naturals, FiniteSets

CONSTANTS Tasks,         \* tasks spawned and not yet finished, at most
          Reservations,  \* the commands that reserve the worker slot
          Pauses,        \* what may make a driver pause and ask the user to act
          MaxEntries,    \* bound: times the Session is attached
          MaxInputs,     \* bound: messages submitted
          MaxQuestions,  \* bound: questions asked
          MaxReserved    \* bound: reservations made

Commands == {"archive", "surface", "bind", "reconnect"}
Needs    == {"contextBudget", "executionInput"}

ASSUME TaskAssumption        == IsFiniteSet(Tasks) /\ Tasks \cap {"none", "main", "reconnect"} = {}
ASSUME ReservationAssumption == Reservations \subseteq Commands
ASSUME PauseAssumption       == Pauses \subseteq Needs
ASSUME DriverBoundAssumption == {MaxEntries, MaxInputs, MaxQuestions, MaxReserved} \subseteq Nat

VARIABLES
  (* each entry that was attached *)
  admitting, cancelled, phase, scope,
  lease,      \* who has the worker slot
  (* the registries *)
  live,       \* the entry in the registry (0: none)
  handle,     \* its handle is there to be taken by a stop
  stopping,   \* the stop fence
  gate,       \* who holds terminal_submission_gate
  attached,   \* entries attached so far
  (* the record in the store *)
  ready, held,   \* messages the next step may claim; paused messages
  question,      \* none; asked; answered and not yet continued
  status, ended,
  (* the control of each process *)
  task, main, submit, reconnect, stop,
  count       \* messages, questions and reservations so far

entry    == <<admitting, cancelled, phase, scope, lease>>
registry == <<live, handle, stopping, gate, attached>>
record   == <<ready, held, question, status, ended>>
control  == <<task, main, submit, reconnect, stop>>
vars     == <<entry, registry, record, control, count>>

Entries == 1..MaxEntries
Phases  == {"Idle", "Running", "Waiting", "Stopping", "Disposed"}

\* A task in drive_agent, or settling with the lease still held.
Driving == {"top", "idle", "idleStatus", "begin", "work", "failing", "failed", "waiting",
            "yield", "release"} \cup Needs

At(pc, e) == [pc |-> pc, e |-> e]
Off       == At("off", 0)

Goto(w, pc) == task' = [task EXCEPT ![w].pc = pc]
Free(w)     == task[w] = Off

(* ----------------------------- the worker slot ---------------------------- *)

\* Mutants: the slot is not looked at; the phase and the admission are not.
MayAcquireTaken(e)   == admitting[e] /\ phase[e] \notin {"Waiting", "Stopping", "Disposed"}
MayAcquireStopped(e) == lease[e] = "none"

\* try_acquire_driver, under the admission gate.
MayAcquire(e) == admitting[e] /\ phase[e] \notin {"Waiting", "Stopping", "Disposed"} /\ lease[e] = "none"

TakeSlot(e, who) == lease' = [lease EXCEPT ![e] = who]
DropSlot(e)      == lease' = [lease EXCEPT ![e] = "none"]

\* wake: is there an entry, and anything for it to do?
ToWake == IF live # 0 /\ (scope[live] \/ ready > 0) THEN At("wake", live) ELSE Off

\* The second half of wake, for the process at p: spawn a task or give up.
Spawn(e) ==
  IF MayAcquire(e)
  THEN \E w \in Tasks : Free(w) /\ TakeSlot(e, w) /\ task' = [task EXCEPT ![w] = At("top", e)]
  ELSE UNCHANGED <<lease, task>>

(* -------------------------------- the driver ------------------------------ *)

Is(w, pc)      == task[w].pc = pc
Of(w)          == task[w].e
SetPhase(e, p) == phase' = [phase EXCEPT ![e] = p]
SetScope(e, s) == scope' = [scope EXCEPT ![e] = s]
OnlyTasks      == UNCHANGED <<admitting, cancelled, registry, held, main, submit, reconnect, stop>>

\* continue_questions, under the question gate: the answered call gets its result and
\* the calls after it go on.
Continues(e, w) ==
  /\ ~cancelled[e] /\ scope[e] /\ question = "answered"
  /\ question' = "none" /\ status' = "Running"
  /\ Goto(w, "work") /\ UNCHANGED scope

\* The top of drive_agent_inner.
Top(w) ==
  /\ Is(w, "top")
  /\ LET e == Of(w) IN
     \/ /\ cancelled[e]
        /\ SetScope(e, FALSE) /\ Goto(w, "release") /\ UNCHANGED <<question, status>>
     \/ /\ ~cancelled[e] /\ scope[e] /\ question = "asked"
        /\ Goto(w, "waiting") /\ UNCHANGED <<scope, question, status>>
     \/ Continues(e, w)
     \/ /\ ~cancelled[e] /\ scope[e] /\ question = "none"
        /\ Goto(w, "work") /\ UNCHANGED <<scope, question, status>>
     \/ /\ ~cancelled[e] /\ ~scope[e]
        /\ Goto(w, IF ~admitting[e] THEN "release" ELSE IF ready = 0 THEN "idle" ELSE "begin")
        /\ UNCHANGED <<scope, question, status>>
  /\ UNCHANGED <<phase, lease, ready, ended, count>> /\ OnlyTasks

\* Nothing to claim: the phase is set, then the status is appended.
SettleIdle(w) ==
  /\ \/ Is(w, "idle") /\ SetPhase(Of(w), "Idle") /\ Goto(w, "idleStatus") /\ UNCHANGED status
     \/ Is(w, "idleStatus") /\ status' = "Idle" /\ Goto(w, "yield") /\ UNCHANGED phase
  /\ UNCHANGED <<scope, lease, ready, question, ended, count>> /\ OnlyTasks

\* Mutant: what the last look found is claimed, though it may be gone.
BeginUnchecked(w) ==
  /\ Is(w, "begin")
  /\ LET e == Of(w) IN
     \/ /\ ~admitting[e] \/ cancelled[e]
        /\ Goto(w, "release") /\ UNCHANGED <<phase, scope, ready, status>>
     \/ /\ admitting[e] /\ ~cancelled[e]
        /\ ready' = ready - 1
        /\ SetScope(e, TRUE) /\ SetPhase(e, "Running") /\ status' = "Running"
        /\ Goto(w, "work")
  /\ UNCHANGED <<lease, question, ended, count>> /\ OnlyTasks

\* begin_turn_step under the admission gate, with the scope, the phase, the status.
Begin(w) ==
  /\ Is(w, "begin")
  /\ LET e == Of(w) IN
     \/ /\ ~admitting[e] \/ cancelled[e]
        /\ Goto(w, "release") /\ UNCHANGED <<phase, scope, ready, status>>
     \/ /\ admitting[e] /\ ~cancelled[e] /\ ready = 0
        /\ SetPhase(e, "Idle") /\ status' = "Idle"
        /\ Goto(w, "yield") /\ UNCHANGED <<scope, ready>>
     \/ /\ admitting[e] /\ ~cancelled[e] /\ ready > 0
        /\ ready' = ready - 1
        /\ SetScope(e, TRUE) /\ SetPhase(e, "Running") /\ status' = "Running"
        /\ Goto(w, "work")
  /\ UNCHANGED <<lease, question, ended, count>> /\ OnlyTasks

\* request_question, under the question gate: the request and the status Waiting are
\* one batch, then the phase is set.
Asks(e, w) ==
  /\ ~cancelled[e] /\ live = e /\ count.questions < MaxQuestions
  /\ question' = "asked" /\ status' = "Waiting" /\ SetPhase(e, "Waiting")
  /\ count' = [count EXCEPT !.questions = @ + 1]
  /\ Goto(w, "waiting") /\ UNCHANGED scope

\* The steps of the turn, down to their settlement: the turn ends, fails, is
\* cancelled, or asks.
Work(w) ==
  /\ Is(w, "work")
  /\ LET e == Of(w) IN
     \/ /\ SetScope(e, FALSE)
        /\ Goto(w, IF cancelled[e] THEN "release" ELSE "top")
        /\ UNCHANGED <<phase, question, status, count>>
     \/ /\ SetScope(e, FALSE) /\ Goto(w, "failing")
        /\ UNCHANGED <<phase, question, status, count>>
     \/ Asks(e, w)
  /\ UNCHANGED <<lease, ready, ended>> /\ OnlyTasks

\* A request over the context budget, or an execution that needs the user: the input
\* is paused and the turn ended, in the store; then the scope and the phase are set.
\* The first settles as Waiting, the second as Idle.
Pause(w) ==
  /\ LET e == Of(w) IN
     \/ /\ Is(w, "work")
        /\ \/ "contextBudget" \in Pauses /\ Goto(w, "contextBudget") /\ UNCHANGED phase
           \/ "executionInput" \in Pauses /\ Goto(w, "executionInput") /\ SetPhase(e, "Waiting")
        /\ held' = held + ready /\ ready' = 0 /\ status' = "Idle" /\ UNCHANGED scope
     \/ /\ task[w].pc \in Needs
        /\ SetScope(e, FALSE) /\ SetPhase(e, "Idle")
        /\ Goto(w, IF Is(w, "contextBudget") THEN "waiting" ELSE "yield")
        /\ UNCHANGED <<ready, held, status>>
  /\ UNCHANGED <<admitting, cancelled, lease, registry, question, ended,
                 main, submit, reconnect, stop, count>>

\* terminate(Failed): the input of a root is kept, paused; then the phase is set.
Fail(w) ==
  /\ \/ /\ Is(w, "failing")
        /\ ended' = TRUE /\ status' = "Failed" /\ ready' = 0 /\ held' = held + ready
        /\ Goto(w, "failed") /\ UNCHANGED phase
     \/ /\ Is(w, "failed") /\ SetPhase(Of(w), "Stopping") /\ Goto(w, "release")
        /\ UNCHANGED <<ready, held, status, ended>>
  /\ UNCHANGED <<admitting, cancelled, scope, lease, registry, question,
                 main, submit, reconnect, stop, count>>

\* Mutant: the slot is given up without the question gate, whatever was answered.
SettleWaitingBlindly(w) ==
  /\ Is(w, "waiting") /\ DropSlot(Of(w)) /\ task' = [task EXCEPT ![w] = Off]
  /\ UNCHANGED <<phase, scope, ready, question, status, ended, count>> /\ OnlyTasks

\* Waiting: under the question gate the task goes on if an answer has come in, or
\* else gives the slot up (and finds no approval to wait for).
SettleWaiting(w) ==
  /\ Is(w, "waiting")
  /\ IF phase[Of(w)] = "Running" /\ ~cancelled[Of(w)]
     THEN Goto(w, "top") /\ UNCHANGED lease
     ELSE DropSlot(Of(w)) /\ task' = [task EXCEPT ![w] = Off]
  /\ UNCHANGED <<phase, scope, ready, question, status, ended, count>> /\ OnlyTasks

\* Mutant: a cancelled task ends without giving the slot up.
ReleaseUnlessCancelled(w) ==
  /\ Is(w, "yield") \/ Is(w, "release")
  /\ task' = [task EXCEPT ![w] = Off]
  /\ IF cancelled[Of(w)] THEN UNCHANGED lease ELSE DropSlot(Of(w))
  /\ UNCHANGED <<phase, scope, ready, question, status, ended, count>> /\ OnlyTasks

\* The task gives the slot up; after an idle settlement it looks once more.
Release(w) ==
  /\ \/ /\ Is(w, "release") /\ task' = [task EXCEPT ![w] = Off]
     \/ /\ Is(w, "yield")
        /\ IF cancelled[Of(w)] THEN task' = [task EXCEPT ![w] = Off] ELSE Goto(w, "recheck")
  /\ DropSlot(Of(w))
  /\ UNCHANGED <<phase, scope, ready, question, status, ended, count>> /\ OnlyTasks

Recheck(w) ==
  /\ \/ /\ Is(w, "recheck")
        /\ IF ready > 0 THEN Goto(w, "reacquire") ELSE task' = [task EXCEPT ![w] = Off]
        /\ UNCHANGED lease
     \/ /\ Is(w, "reacquire")
        /\ IF MayAcquire(Of(w))
           THEN TakeSlot(Of(w), w) /\ Goto(w, "top")
           ELSE task' = [task EXCEPT ![w] = Off] /\ UNCHANGED lease
  /\ UNCHANGED <<phase, scope, ready, question, status, ended, count>> /\ OnlyTasks

TaskStep(w) ==
  \/ Top(w) \/ SettleIdle(w) \/ Begin(w) \/ Work(w) \/ Pause(w) \/ Fail(w)
  \/ SettleWaiting(w) \/ Release(w) \/ Recheck(w)

(* --------------- submissions, under terminal_submission_gate -------------- *)

\* receive_submission: the fence is checked and the message enqueued; an ended
\* Session keeps it, paused, and is not woken.
Submit ==
  /\ submit = Off /\ gate = "free" /\ ~stopping /\ count.inputs < MaxInputs
  /\ ~ended \/ status = "Failed"
  /\ count' = [count EXCEPT !.inputs = @ + 1]
  /\ IF ended
     THEN held' = held + 1 /\ UNCHANGED <<ready, submit, gate>>
     ELSE ready' = ready + 1 /\ submit' = At("look", 0) /\ gate' = "submit" /\ UNCHANGED held
  /\ UNCHANGED <<entry, live, handle, stopping, attached, question, status, ended,
                 task, main, reconnect, stop>>

SubmitWakes ==
  /\ \/ /\ submit.pc = "look" /\ submit' = ToWake /\ UNCHANGED <<lease, task>>
     \/ /\ submit.pc = "wake" /\ Spawn(submit.e) /\ submit' = Off
  /\ gate' = IF submit' = Off THEN "free" ELSE gate
  /\ UNCHANGED <<admitting, cancelled, phase, scope, live, handle, stopping, attached, record,
                 main, reconnect, stop, count>>

(* ------------------- the main thread: synchronous commands ---------------- *)

Inbox == ready + held

\* start attaches an entry, under the terminal gate, or finds one; either way it wakes.
Start ==
  /\ main = Off /\ gate = "free" /\ ~stopping /\ ~ended
  /\ \/ live # 0 /\ UNCHANGED <<live, handle, attached>>
     \/ /\ live = 0 /\ attached < MaxEntries
        /\ live' = attached + 1 /\ attached' = attached + 1 /\ handle' = TRUE
  /\ gate' = "main" /\ main' = At("look", 0)
  /\ UNCHANGED <<entry, stopping, record, task, submit, reconnect, stop, count>>

\* mutate_inbox: a paused message is resumed.
ResumeItem ==
  /\ main = Off /\ held > 0 /\ ~ended
  /\ held' = held - 1 /\ ready' = ready + 1 /\ main' = At("look", 0)
  /\ UNCHANGED <<entry, registry, question, status, ended, task, submit, reconnect, stop, count>>

\* mutate_inbox: a message is removed; no one is woken.
RemoveItem ==
  /\ main = Off /\ ~ended
  /\ \/ ready > 0 /\ ready' = ready - 1 /\ UNCHANGED held
     \/ held > 0 /\ held' = held - 1 /\ UNCHANGED ready
  /\ UNCHANGED <<entry, registry, question, status, ended, control, count>>

\* submit_question_answer, under the question gate.
Answer ==
  /\ main = Off /\ question = "asked" /\ live # 0 /\ ~ended
  /\ ~cancelled[live]
  /\ question' = "answered" /\ SetPhase(live, "Running") /\ main' = At("look", 0)
  /\ UNCHANGED <<admitting, cancelled, scope, lease, registry, ready, held, status, ended,
                 task, submit, reconnect, stop, count>>

MainWakes ==
  /\ \/ /\ main.pc = "look" /\ main' = ToWake /\ UNCHANGED <<lease, task>>
     \/ /\ main.pc = "wake" /\ Spawn(main.e) /\ main' = Off
  /\ gate' = IF main' = Off /\ gate = "main" THEN "free" ELSE gate
  /\ UNCHANGED <<admitting, cancelled, phase, scope, live, handle, stopping, attached, record,
                 submit, reconnect, stop, count>>

\* try_acquire_archive: whatever the phase and the admission are.
Reserve(command) ==
  /\ main = Off /\ command \in Reservations \ {"reconnect"} /\ count.reserved < MaxReserved
  /\ live # 0 /\ lease[live] = "none" /\ TakeSlot(live, "main")
  /\ main' = At(command, live) /\ count' = [count EXCEPT !.reserved = @ + 1]
  /\ UNCHANGED <<admitting, cancelled, phase, scope, registry, record,
                 task, submit, reconnect, stop>>

\* archive_session looks at the entry, then the store at the record.
Archive ==
  /\ LET e == main.e IN
     \/ /\ main.pc = "archive"
        /\ main' = At(IF ~ended /\ (phase[e] # "Idle" \/ scope[e])
                      THEN "archiveRefused" ELSE "archiveStore", e)
        /\ UNCHANGED <<status, ended>>
     \/ /\ main.pc = "archiveStore"
        /\ IF ended \/ (status = "Idle" /\ Inbox = 0)
           THEN /\ status' = IF ended THEN status ELSE "Completed"
                /\ ended' = TRUE /\ main' = At("archived", e)
           ELSE main' = At("archiveRefused", e) /\ UNCHANGED <<status, ended>>
  /\ UNCHANGED <<entry, registry, ready, held, question, task, submit, reconnect, stop, count>>

\* The archived Session's entry is stopped, disposed of and detached.
Archived ==
  /\ main.pc = "archived"
  /\ admitting' = [admitting EXCEPT ![main.e] = FALSE] /\ SetPhase(main.e, "Disposed")
  /\ live' = 0 /\ handle' = FALSE
  /\ main' = At("unreserve", main.e)
  /\ UNCHANGED <<cancelled, scope, lease, stopping, gate, attached, record,
                 task, submit, reconnect, stop, count>>

\* The guard drops: the slot is free again.
Unreserve ==
  /\ main.pc \in {"archiveRefused", "unreserve", "surface", "bind"}
  /\ DropSlot(main.e)
  /\ main' = CASE main.pc = "archiveRefused" -> At("archiveRetry", main.e)
               [] main.pc = "surface"        -> At("surfaceRetry", main.e)
               [] OTHER                      -> Off
  /\ UNCHANGED <<admitting, cancelled, phase, scope, registry, record,
                 task, submit, reconnect, stop, count>>

\* Mutant: a command leaves the input that came meanwhile to the next wake.
NoRetry ==
  /\ main.pc \in {"archiveRetry", "surfaceRetry"} /\ main' = Off
  /\ UNCHANGED <<entry, registry, record, task, submit, reconnect, stop, count>>

\* What was committed while the slot was reserved found it taken: wake again.
Retry ==
  /\ main.pc \in {"archiveRetry", "surfaceRetry"}
  /\ main' = IF ~ended /\ (Inbox > 0 \/ (main.pc = "archiveRetry" /\ status = "Running"))
             THEN At("look", 0) ELSE Off
  /\ UNCHANGED <<entry, registry, record, task, submit, reconnect, stop, count>>

MainStep == MainWakes \/ Archive \/ Archived \/ Unreserve \/ Retry

(* ------------------------- reconnect_terminal ------------------------------ *)

ReconnectReserve ==
  /\ reconnect = Off /\ "reconnect" \in Reservations /\ count.reserved < MaxReserved
  /\ live # 0 /\ lease[live] = "none" /\ TakeSlot(live, "reconnect")
  /\ reconnect' = At("reserved", live) /\ count' = [count EXCEPT !.reserved = @ + 1]
  /\ UNCHANGED <<admitting, cancelled, phase, scope, registry, record, task, main, submit, stop>>

\* Refused (the turn is not settled) or done, the slot is dropped; nothing is woken.
ReconnectEnds ==
  /\ reconnect.pc = "reserved" /\ DropSlot(reconnect.e) /\ reconnect' = Off
  /\ UNCHANGED <<admitting, cancelled, phase, scope, registry, record,
                 task, main, submit, stop, count>>

(* ------------------------- stop_session ----------------------------------- *)

StopAt(pc)          == stop' = [stop EXCEPT !.pc = pc]
OnlyStop            == UNCHANGED <<lease, gate, attached, task, main, submit, reconnect, count>>
CloseAdmission(e)   == admitting' = [admitting EXCEPT ![e] = FALSE] /\ SetPhase(e, "Stopping")

\* begin_session_stop raises the fence and closes admission, under the terminal gate.
BeginStop(kind) ==
  /\ stop.pc = "off" /\ gate = "free" /\ ~stopping
  /\ stopping' = TRUE /\ stop' = [pc |-> "take", e |-> live, kind |-> kind]
  /\ IF live # 0 THEN CloseAdmission(live) ELSE UNCHANGED <<admitting, phase>>
  /\ UNCHANGED <<cancelled, scope, live, handle, record>> /\ OnlyStop

\* The handle is taken; without one the record is settled directly.
TakeHandle ==
  /\ stop.pc = "take"
  /\ \/ /\ handle /\ handle' = FALSE
        /\ stop' = [stop EXCEPT !.pc = "cancel", !.e = live]
        /\ CloseAdmission(live)
     \/ /\ ~handle
        /\ StopAt(IF live # 0 THEN "end" ELSE "settleRecord")
        /\ UNCHANGED <<handle, admitting, phase>>
  /\ UNCHANGED <<cancelled, scope, live, stopping, record>> /\ OnlyStop

\* Mutant: the open questions outlive the cancellation.
CancelTokenOnly ==
  /\ stop.pc = "cancel"
  /\ cancelled' = [cancelled EXCEPT ![stop.e] = TRUE] /\ StopAt("finish")
  /\ UNCHANGED <<admitting, phase, scope, live, handle, stopping, record>>
  /\ OnlyStop

\* cancel_session, under the question gate: the token, then the open questions.
CancelTools ==
  /\ stop.pc = "cancel"
  /\ cancelled' = [cancelled EXCEPT ![stop.e] = TRUE] /\ question' = "none"
  /\ StopAt("finish")
  /\ UNCHANGED <<admitting, phase, scope, live, handle, stopping, ready, held, status, ended>>
  /\ OnlyStop

\* finish closes admission again, waits for the slot, and closes the scope.
FinishClosesAdmission ==
  /\ stop.pc = "finish" /\ CloseAdmission(stop.e) /\ StopAt("await")
  /\ UNCHANGED <<cancelled, scope, live, handle, stopping, record>> /\ OnlyStop

\* Mutant: the scope is closed without waiting for the driver.
CloseWithoutWaiting ==
  /\ stop.pc = "await" /\ SetScope(stop.e, FALSE) /\ StopAt("settle")
  /\ UNCHANGED <<admitting, cancelled, phase, live, handle, stopping, record>> /\ OnlyStop

AwaitIdle ==
  /\ stop.pc = "await" /\ lease[stop.e] = "none"
  /\ SetScope(stop.e, FALSE) /\ StopAt("settle")
  /\ UNCHANGED <<admitting, cancelled, phase, live, handle, stopping, record>> /\ OnlyStop

\* sessions.cancel or sessions.interrupt, unless the Session has ended.
SettleRecord ==
  /\ stop.pc \in {"settle", "settleRecord"}
  /\ IF ended THEN UNCHANGED <<ready, held, status, ended>>
     ELSE /\ ready' = 0
          /\ IF stop.kind = "cancel"
             THEN held' = 0 /\ status' = "Cancelled" /\ ended' = TRUE
             ELSE held' = Inbox /\ status' = "Idle" /\ UNCHANGED ended
  /\ StopAt(IF stop.pc = "settle" THEN "dispose" ELSE "end")
  /\ UNCHANGED <<admitting, cancelled, phase, scope, live, handle, stopping, question>> /\ OnlyStop

Dispose ==
  /\ \/ stop.pc = "dispose" /\ SetPhase(stop.e, "Disposed") /\ StopAt("detach") /\ UNCHANGED live
     \/ stop.pc = "detach" /\ live' = 0 /\ StopAt("end") /\ UNCHANGED phase
  /\ UNCHANGED <<admitting, cancelled, scope, handle, stopping, record>> /\ OnlyStop

EndStop ==
  /\ stop.pc = "end" /\ stopping' = FALSE /\ stop' = [stop EXCEPT !.pc = "off", !.e = 0]
  /\ UNCHANGED <<admitting, cancelled, phase, scope, live, handle, record>> /\ OnlyStop

StopStep ==
  \/ TakeHandle \/ CancelTools \/ FinishClosesAdmission \/ AwaitIdle
  \/ SettleRecord \/ Dispose \/ EndStop

(* -------------------------------------------------------------------------- *)

Init ==
  /\ admitting = [e \in Entries |-> TRUE] /\ cancelled = [e \in Entries |-> FALSE]
  /\ phase = [e \in Entries |-> "Idle"] /\ scope = [e \in Entries |-> FALSE]
  /\ lease = [e \in Entries |-> "none"]
  /\ live = 0 /\ handle = FALSE /\ stopping = FALSE /\ gate = "free" /\ attached = 0
  /\ ready = 0 /\ held = 0 /\ question = "none" /\ status = "Idle" /\ ended = FALSE
  /\ task = [w \in Tasks |-> Off] /\ main = Off /\ submit = Off /\ reconnect = Off
  /\ stop = [pc |-> "off", e |-> 0, kind |-> "cancel"]
  /\ count = [inputs |-> 0, questions |-> 0, reserved |-> 0]

\* What the user does, and need not do.
UserStep ==
  \/ Submit \/ Start \/ ResumeItem \/ RemoveItem \/ Answer \/ ReconnectReserve
  \/ \E command \in Commands : Reserve(command)
  \/ \E kind \in {"cancel", "interrupt"} : BeginStop(kind)

Next ==
  \/ UserStep \/ (\E w \in Tasks : TaskStep(w))
  \/ SubmitWakes \/ MainStep \/ ReconnectEnds \/ StopStep

Spec == Init /\ [][Next]_vars

\* A thread or task that can go on does; a step of a turn ends; the user owes nothing.
FairSpec ==
  /\ Spec
  /\ \A w \in Tasks : WF_vars(TaskStep(w))
  /\ WF_vars(SubmitWakes) /\ WF_vars(MainStep) /\ WF_vars(ReconnectEnds) /\ WF_vars(StopStep)

(* ------------------------------- properties ------------------------------- *)

Holders == Tasks \cup {"none", "main", "reconnect"}

TaskPlaces == Driving \cup {"off", "recheck", "reacquire"}
MainPlaces == {"off", "look", "wake", "archive", "archiveStore", "archiveRefused", "archiveRetry",
               "archived", "unreserve", "surface", "surfaceRetry", "bind"}
StopPlaces == {"off", "take", "cancel", "finish", "await", "settle", "settleRecord", "dispose",
               "detach", "end"}

Counts == [inputs : 0..MaxInputs, questions : 0..MaxQuestions, reserved : 0..MaxReserved]

FlagsOK ==
  /\ admitting \in [Entries -> BOOLEAN] /\ cancelled \in [Entries -> BOOLEAN]
  /\ scope \in [Entries -> BOOLEAN]
  /\ handle \in BOOLEAN /\ stopping \in BOOLEAN /\ ended \in BOOLEAN

EntryOK == phase \in [Entries -> Phases] /\ lease \in [Entries -> Holders]

RegistryOK == live \in 0..MaxEntries /\ attached \in 0..MaxEntries /\ gate \in {"free", "main", "submit"}

RecordOK ==
  /\ ready \in Nat /\ held \in Nat /\ question \in {"none", "asked", "answered"}
  /\ status \in {"Idle", "Running", "Waiting", "Failed", "Completed", "Cancelled"}

ControlOK ==
  /\ task \in [Tasks -> [pc : TaskPlaces, e : 0..MaxEntries]]
  /\ main \in [pc : MainPlaces, e : 0..MaxEntries]
  /\ submit \in [pc : {"off", "look", "wake"}, e : 0..MaxEntries]
  /\ reconnect \in [pc : {"off", "reserved"}, e : 0..MaxEntries]
  /\ stop \in [pc : StopPlaces, e : 0..MaxEntries, kind : {"cancel", "interrupt"}]

\* The shape of the entries, the record and the control of every process.
TypeOK == FlagsOK /\ EntryOK /\ RegistryOK /\ RecordOK /\ ControlOK /\ count \in Counts

Drives(w) == task[w].pc \in Driving

\* Places where main has the slot; and stop has closed an entry, then waited it out.
Reserved  == {"archive", "archiveStore", "archiveRefused", "archived", "unreserve", "surface", "bind"}
WaitedOut == {"settle", "dispose", "detach"}
Closed    == {"cancel", "finish", "await"} \cup WaitedOut

\* A task that drives an entry has its slot, and so has a command that reserved it.
SlotIsHeld ==
  /\ \A w \in Tasks : Drives(w) => lease[Of(w)] = w
  /\ main.pc \in Reserved => lease[main.e] = "main"
  /\ reconnect.pc = "reserved" => lease[reconnect.e] = "reconnect"

\* No process refers to an entry that was not attached.
EntriesKnown ==
  /\ live <= attached /\ (handle => live # 0)
  /\ \A w \in Tasks : Of(w) <= attached /\ (task[w].pc # "off" => Of(w) # 0)
  /\ \A p \in {main, submit, reconnect} : p.e <= attached
  /\ main.pc \in Reserved \cup {"wake"} => main.e # 0
  /\ submit.pc = "wake" => submit.e # 0
  /\ reconnect.pc = "reserved" => reconnect.e # 0
  /\ stop.pc # "off" => stopping

\* An entry that is not, or no longer, the live one is never driven again.
OthersAreQuiet ==
  \A e \in Entries : /\ e > attached => lease[e] = "none"
                     /\ e <= attached /\ e # live => ~admitting[e] /\ lease[e] \notin Tasks

\* Only the live entry can be detached, and only when no task drives it.
DetachesQuietly ==
  /\ main.pc \in Reserved => live \in {0, main.e}
  /\ stop.pc \in Closed => /\ live \in {0, stop.e} /\ stop.e \in Entries
                           /\ stop.e <= attached /\ ~admitting[stop.e] /\ ~handle
  /\ stop.pc \in WaitedOut => lease[stop.e] \notin Tasks

\* Who has the worker slot of which entry, through every stop, archive and attach.
Ownership == SlotIsHeld /\ EntriesKnown /\ OthersAreQuiet /\ DetachesQuietly

\* At most one task drives the Session at any time, across the entries it has had
\* (a stopped one, and the one attached after it).
OneDriver == \A v, w \in Tasks : Drives(v) /\ Drives(w) => v = w

\* Once a stop settles the record, or an archive or a failure has ended the Session,
\* no task is inside a turn and no turn is active.
StopIsQuiet ==
  stop.pc \in {"settle", "settleRecord", "dispose", "detach"} \/ ended =>
    /\ \A w \in Tasks : task[w].pc \notin {"idle", "idleStatus", "begin", "work", "failing"} \cup Needs
    /\ \A e \in Entries : ~scope[e]

\* An open question belongs to the active scope of the live entry: an answer that is
\* accepted always has a turn to continue in.
QuestionHasScope == question # "none" => live # 0 /\ scope[live]

\* What may run is taken by a driver, unless the user stops the Session, it ends, or
\* it waits for an answer: a wake that found the slot taken is made up for.
InputIsTaken ==
  (ready > 0 /\ live # 0) ~> (ready = 0 \/ stopping \/ ended \/ question = "asked")

\* An accepted answer is continued by a driver or given up by a stop: "no accepted
\* answer can fall into a release/reacquire gap" (runtime.rs).
AnswerContinued == question = "answered" ~> question # "answered"

\* A stop that has begun finishes, whoever has the worker slot.
StopEnds == stopping ~> ~stopping
================================================================================
