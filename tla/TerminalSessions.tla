-------------------------- MODULE TerminalSessions --------------------------
(***************************************************************************)
(* The remote terminals: create_session and close_session of commands.rs,  *)
(* the worker thread of session.rs, the connection deadline                *)
(* (connection/terminal_deadline.rs), the registry SessionManager of       *)
(* models.rs and the generations TerminalSessionBroker keeps of each       *)
(* terminal.  A session is one SSH transport; a session created with       *)
(* replaces_session_id becomes the next generation of its predecessor's    *)
(* terminal.  Each session has a worker, a watcher of its deadline, the    *)
(* command that waits for its connection, and perhaps a close; all of them *)
(* meet in the registry and in the broker.                                 *)
(*                                                                         *)
(* A terminal is named by the session that opened its first generation.    *)
(* Bytes are chunks, numbered as the shell prints them.                    *)
(***************************************************************************)
EXTENDS Naturals, Sequences, FiniteSets

CONSTANTS
    Sessions,       \* the ids create_session draws
    NoSession,
    Replaces,       \* [Sessions -> Sessions or NoSession], replaces_session_id
    Capacity,       \* closed_session_capacity
    MaxChunks,      \* bound: what a shell prints
    MaxInputs,      \* bound: inputs typed into a session
    Events          \* bound: which of view, agent, network, transport and close take part

TerminalsAssumption ==
    /\ NoSession \notin Sessions
    /\ Replaces \in [Sessions -> Sessions \cup {NoSession}]
    /\ {Capacity, MaxChunks, MaxInputs} \subseteq Nat
    /\ Events \subseteq {"view", "agent", "network", "transport", "close"}

VARIABLES
    managed,    \* SessionManager: the status of a session, or "absent"
    chan,       \* its command channel: the queue, whether the sender lives, the wake pipe
    flags,      \* output_ready and output_paused, shared with the worker
    attempt,    \* Attempt of terminal_deadline, and whether 30 s have passed
    worker,     \* where the thread of spawn_ssh_thread is, why it ended, whether the loop progressed
    waiter,     \* create_session: what it waits for, and what it returned
    closer,     \* close_session
    terms,      \* BrokerState.sessions
    transports, \* BrokerState.transports
    order,      \* BrokerState.closed_session_order
    io,         \* what the shell printed, the worker read and the view was shown
    typed,      \* [accepted, applied]: the input write_session and resize_session took
    told,       \* the events the view received
    agent       \* the conversation bound to a terminal, and whether its driver runs

vars == <<managed, chan, flags, attempt, worker, waiter, closer, terms, transports, order,
          io, typed, told, agent>>

registry == <<managed, chan>>
broker == <<terms, transports, order>>

None == [gen |-> 0, by |-> NoSession, open |-> FALSE, reason |-> "none", preds |-> {}, out |-> <<>>]
Detached == [term |-> NoSession, gen |-> 0, active |-> FALSE]
Close == [kind |-> "close", n |-> 0]

At(s, places) == worker[s].at \in places
Goto(s, place) == worker' = [worker EXCEPT ![s].at = place]
Fails(s, why) == worker' = [worker EXCEPT ![s] = [at |-> "finish", why |-> why, busy |-> FALSE]]

Init ==
    /\ managed = [s \in Sessions |-> "absent"]
    /\ chan = [s \in Sessions |-> [q |-> <<>>, sender |-> FALSE, wake |-> FALSE]]
    /\ flags = [s \in Sessions |-> [ready |-> FALSE, paused |-> FALSE]]
    /\ attempt = [s \in Sessions |-> [late |-> FALSE, cancelled |-> FALSE, ready |-> FALSE,
                                      finished |-> FALSE, watcher |-> "none", cut |-> FALSE]]
    /\ worker = [s \in Sessions |-> [at |-> "none", why |-> "none", busy |-> FALSE]]
    /\ waiter = [s \in Sessions |-> [at |-> "none", result |-> "none"]]
    /\ closer = [s \in Sessions |-> "none"]
    /\ terms = [t \in Sessions |-> None]
    /\ transports = [s \in Sessions |-> Detached]
    /\ order = <<>>
    /\ io = [s \in Sessions |-> [printed |-> 0, read |-> 0, shown |-> 0, live |-> FALSE, slow |-> FALSE]]
    /\ typed = [s \in Sessions |-> [accepted |-> <<>>, applied |-> <<>>]]
    /\ told = [s \in Sessions |-> [connected |-> FALSE, closed |-> "none"]]
    /\ agent = [bound |-> NoSession, running |-> FALSE]

-----------------------------------------------------------------------------
(* The registry. *)

\* SessionManager::close and ::remove take the entry out under the lock; the
\* sender is dropped when the entry is, after Close was sent on it.
RemovesWith(s, commands) ==
    IF managed[s] = "absent" THEN UNCHANGED registry
    ELSE /\ managed' = [managed EXCEPT ![s] = "absent"]
         /\ chan' = [chan EXCEPT ![s].q = @ \o commands, ![s].wake = @ \/ commands # <<>>]

DropSender(s) ==
    /\ managed[s] = "absent" /\ chan[s].sender
    /\ chan' = [chan EXCEPT ![s].sender = FALSE]
    /\ UNCHANGED <<managed, flags, attempt, worker, waiter, closer, broker, io, typed, told, agent>>

SetStatus(s, status) ==
    managed' = IF managed[s] = "absent" THEN managed ELSE [managed EXCEPT ![s] = status]

-----------------------------------------------------------------------------
(* The broker: attach_transport, close_transport, observe_raw_output. *)

Latest(s) == transports[s].active /\ terms[transports[s].term].by = s

\* The terminal moves to the end of the list of closed ones.
Listed(o, t) == Append(SelectSeq(o, LAMBDA u : u # t), t)

Remember(t, ts, trs, o) ==
    LET o1 == Listed(o, t)
        evicted == IF Len(o1) > Capacity THEN {o1[i] : i \in 1 .. Len(o1) - Capacity} ELSE {}
        gone == {u \in evicted : ~ts[u].open}
    IN  /\ terms' = [u \in Sessions |-> IF u \in gone THEN None ELSE ts[u]]
        /\ transports' = [s \in Sessions |-> IF trs[s].term \in gone THEN Detached ELSE trs[s]]
        /\ order' = IF Len(o1) > Capacity THEN SubSeq(o1, Len(o1) - Capacity + 1, Len(o1)) ELSE o1

Ended(record, reason) == [record EXCEPT !.open = FALSE, !.reason = reason]

CloseTransport(s, reason) ==
    LET t == transports[s].term IN
    IF transports[s].active /\ terms[t].open /\ terms[t].gen = transports[s].gen /\ terms[t].by = s
    THEN Remember(t, [terms EXCEPT ![t] = Ended(@, reason)],
                  [transports EXCEPT ![s].active = FALSE], order)
    ELSE UNCHANGED broker

Predecessor(s) == Replaces[s]

MayAttach(s) ==
    \/ Predecessor(s) = NoSession
    \/ LET p == transports[Predecessor(s)] IN
       /\ p.gen # 0 /\ terms[p.term].gen = p.gen
       /\ terms[p.term].open => terms[p.term].by = Predecessor(s)

\* Only the newest transport of a terminal stays known.
Attach(s) ==
    LET p == IF Predecessor(s) = NoSession THEN Detached ELSE transports[Predecessor(s)]
        t == IF Predecessor(s) = NoSession THEN s ELSE p.term
        gen == p.gen + 1
    IN  /\ terms' = [terms EXCEPT ![t] =
                [gen |-> gen, by |-> s, open |-> TRUE, reason |-> "none", out |-> <<>>,
                 preds |-> @.preds \cup ({Predecessor(s)} \ {NoSession})]]
        /\ transports' = [r \in Sessions |->
                IF r = s THEN [term |-> t, gen |-> gen, active |-> TRUE]
                ELSE IF transports[r].term = t THEN Detached ELSE transports[r]]
        /\ order' = SelectSeq(order, LAMBDA u : u # t)

Observe(s, chunk) ==
    IF Latest(s) /\ terms[transports[s].term].open /\ terms[transports[s].term].gen = transports[s].gen
    THEN /\ terms' = [terms EXCEPT ![transports[s].term].out = Append(@, [by |-> s, chunk |-> chunk])]
         /\ UNCHANGED <<transports, order>>
    ELSE UNCHANGED broker

-----------------------------------------------------------------------------
(* create_session: registers the session, starts its worker and waits. *)

Create(s) ==
    /\ worker[s].at = "none"
    /\ Predecessor(s) # NoSession => waiter[Predecessor(s)].at = "ok"
    /\ managed' = [managed EXCEPT ![s] = "connecting"]
    /\ chan' = [chan EXCEPT ![s].sender = TRUE]
    /\ attempt' = [attempt EXCEPT ![s].watcher = "watching"]
    /\ Goto(s, "dial")
    /\ waiter' = [waiter EXCEPT ![s].at = "waiting"]
    /\ UNCHANGED <<flags, closer, broker, io, typed, told, agent>>

\* The worker connected: the command returns if the broker still knows the transport.
Connected(s) ==
    /\ waiter[s] = [at |-> "waiting", result |-> "ok"]
    /\ IF transports[s].active
       THEN waiter' = [waiter EXCEPT ![s].at = "ok"] /\ UNCHANGED registry
       ELSE waiter' = [waiter EXCEPT ![s].at = "failed"] /\ RemovesWith(s, <<Close>>)
    /\ UNCHANGED <<flags, attempt, worker, closer, broker, io, typed, told, agent>>

ConnectFailed(s) ==
    /\ waiter[s] = [at |-> "waiting", result |-> "error"]
    /\ waiter' = [waiter EXCEPT ![s].at = "failed"]
    /\ RemovesWith(s, <<>>)
    /\ UNCHANGED <<flags, attempt, worker, closer, broker, io, typed, told, agent>>

\* SSH_CONNECT_RESULT_WAIT, one second after the deadline of the attempt.
WaitTimesOut(s) ==
    /\ waiter[s] = [at |-> "waiting", result |-> "none"] /\ attempt[s].late
    /\ waiter' = [waiter EXCEPT ![s].at = "failed"]
    /\ RemovesWith(s, <<Close>>)
    /\ UNCHANGED <<flags, attempt, worker, closer, broker, io, typed, told, agent>>

WaiterStep(s) == Connected(s) \/ ConnectFailed(s) \/ WaitTimesOut(s)

-----------------------------------------------------------------------------
(* The deadline: TerminalConnectionGuard's watcher, Attempt::check, complete. *)

Deadline(s) ==
    /\ attempt[s].watcher # "none" /\ ~attempt[s].late
    /\ attempt' = [attempt EXCEPT ![s].late = TRUE]
    /\ UNCHANGED <<registry, flags, worker, waiter, closer, broker, io, typed, told, agent>>

Check(s) == ~attempt[s].late /\ ~attempt[s].cancelled

\* The watcher polls: it cancels first, and shuts the sockets down a step later.
WatcherCancels(s) ==
    /\ attempt[s].watcher = "watching" /\ ~attempt[s].finished
    /\ managed[s] = "absent" \/ attempt[s].late
    /\ attempt' = [attempt EXCEPT ![s].cancelled = TRUE, ![s].watcher = "interrupting"]
    /\ UNCHANGED <<registry, flags, worker, waiter, closer, broker, io, typed, told, agent>>

Interrupted(a) == IF a.ready THEN a ELSE [a EXCEPT !.cut = TRUE]

WatcherInterrupts(s) ==
    /\ attempt[s].watcher = "interrupting"
    /\ attempt' = [attempt EXCEPT ![s] = [Interrupted(@) EXCEPT !.watcher = "done"]]
    /\ UNCHANGED <<registry, flags, worker, waiter, closer, broker, io, typed, told, agent>>

WatcherEnds(s) ==
    /\ attempt[s].watcher = "watching" /\ attempt[s].finished
    /\ attempt' = [attempt EXCEPT ![s].watcher = "done"]
    /\ UNCHANGED <<registry, flags, worker, waiter, closer, broker, io, typed, told, agent>>

WatcherStep(s) == WatcherCancels(s) \/ WatcherInterrupts(s) \/ WatcherEnds(s)

-----------------------------------------------------------------------------
(* The worker, up to a connected session.  Every blocking call can fail. *)

NetworkFails(s) ==
    /\ "network" \in Events /\ At(s, {"dial", "shell", "publish"})
    /\ Fails(s, "network")
    /\ UNCHANGED <<registry, flags, attempt, waiter, closer, broker, io, typed, told, agent>>

\* Address, socket, handshake, host key, authentication: the attempt is checked throughout.
Dial(s) ==
    /\ At(s, {"dial"})
    /\ IF Check(s) THEN Goto(s, "shell") ELSE Fails(s, "cancelled")
    /\ UNCHANGED <<registry, flags, attempt, waiter, closer, broker, io, typed, told, agent>>

\* Integration files, the PTY channel and the shell: only cut sockets stop these.
StartShell(s) ==
    /\ At(s, {"shell"})
    /\ IF attempt[s].cut THEN Fails(s, "cut") ELSE Goto(s, "target")
    /\ UNCHANGED <<registry, flags, attempt, waiter, closer, broker, io, typed, told, agent>>

\* on_broker_attached: the session must still be registered ...
CheckTarget(s) ==
    /\ At(s, {"target"})
    /\ IF managed[s] = "absent" THEN Fails(s, "cancelled") ELSE Goto(s, "attach")
    /\ UNCHANGED <<registry, flags, attempt, waiter, closer, broker, io, typed, told, agent>>

\* ... and becomes the current transport of its terminal.
AttachBroker(s) ==
    /\ At(s, {"attach"})
    /\ IF MayAttach(s) THEN Attach(s) /\ Goto(s, "publish")
       ELSE UNCHANGED broker /\ Fails(s, "refused")
    /\ UNCHANGED <<registry, flags, attempt, waiter, closer, io, typed, told, agent>>

\* commit_connection_ready: under the registry's lock, and complete() under the sockets'.
Commit(s) ==
    /\ At(s, {"publish"})
    /\ IF managed[s] # "absent" /\ Check(s)
       THEN /\ managed' = [managed EXCEPT ![s] = "connected"]
            /\ attempt' = [attempt EXCEPT ![s].ready = TRUE, ![s].finished = TRUE]
            /\ Goto(s, "announce")
       ELSE Fails(s, "cancelled") /\ UNCHANGED <<managed, attempt>>
    /\ UNCHANGED <<chan, flags, waiter, closer, broker, io, typed, told, agent>>

\* publish_ssh_connection_ready: the event first, the waiting command second.
Announce(s) ==
    /\ At(s, {"announce"})
    /\ told' = [told EXCEPT ![s].connected = TRUE]
    /\ IF waiter[s].at = "waiting"
       THEN waiter' = [waiter EXCEPT ![s].result = "ok"] /\ Goto(s, "loop")
       ELSE UNCHANGED waiter /\ Fails(s, "unheard")
    /\ UNCHANGED <<registry, flags, attempt, closer, broker, io, typed, agent>>

ConnectStep(s) == Dial(s) \/ StartShell(s) \/ CheckTarget(s) \/ AttachBroker(s) \/ Commit(s) \/ Announce(s)

-----------------------------------------------------------------------------
(* session_loop: startup output, commands, one read, and the idle wait. *)

\* mutant: only the last size change of the whole batch is kept
CoalesceAll(batch) ==
    LET Superseded(i) == /\ batch[i].kind = "resize"
                         /\ \E j \in i + 1 .. Len(batch) : batch[j].kind = "resize"
        writes == SelectSeq([i \in DOMAIN batch |-> i], LAMBDA i : batch[i].kind # "resize")
        last == SelectSeq([i \in DOMAIN batch |-> i], LAMBDA i : batch[i].kind = "resize" /\ ~Superseded(i))
    IN  [k \in 1 .. Len(writes) + Len(last) |-> batch[(last \o writes)[k]]]

\* A size change directly before another is dropped; writes keep their order.
Coalesce(batch) ==
    LET Superseded(i) == /\ batch[i].kind = "resize" /\ i < Len(batch)
                         /\ batch[i + 1].kind = "resize"
        kept == SelectSeq([i \in DOMAIN batch |-> i], LAMBDA i : ~Superseded(i))
    IN  [k \in DOMAIN kept |-> batch[kept[k]]]

UpToClose(batch) ==
    LET closes == {i \in DOMAIN batch : batch[i] = Close} IN
    IF closes = {} THEN batch ELSE SubSeq(batch, 1, (CHOOSE i \in closes : \A j \in closes : i <= j) - 1)

\* The view attached its listeners, or five seconds passed, or too much is held.
ReleaseStartupOutput(s) ==
    /\ At(s, {"loop"}) /\ ~io[s].live
    /\ flags[s].ready \/ io[s].slow
    /\ io' = [io EXCEPT ![s].live = TRUE, ![s].shown = io[s].read]
    /\ UNCHANGED <<registry, flags, attempt, worker, waiter, closer, broker, typed, told, agent>>

StartupTimeout(s) ==
    /\ "view" \in Events /\ At(s, {"loop", "read", "idle"}) /\ ~io[s].live /\ ~io[s].slow
    /\ io' = [io EXCEPT ![s].slow = TRUE]
    /\ UNCHANGED <<registry, flags, attempt, worker, waiter, closer, broker, typed, told, agent>>

\* A disconnected channel ends the session before the commands taken from it run.
Finds(s) == IF chan[s].sender THEN "open" ELSE "dropped"

RunCommands(s) ==
    /\ At(s, {"loop"})
    /\ ~io[s].live => ~(flags[s].ready \/ io[s].slow)
    /\ chan' = [chan EXCEPT ![s].q = <<>>]
    /\ IF Finds(s) = "dropped"
       THEN Fails(s, "controllerDropped") /\ UNCHANGED typed
       ELSE LET run == Coalesce(UpToClose(chan[s].q)) IN
            /\ typed' = [typed EXCEPT ![s].applied = @ \o run]
            /\ IF Close \in {chan[s].q[i] : i \in DOMAIN chan[s].q}
               THEN Fails(s, "localClose")
               ELSE worker' = [worker EXCEPT ![s].busy = run # <<>>,
                        ![s].at = IF ~flags[s].paused THEN "read" ELSE IF run = <<>> THEN "idle" ELSE "loop"]
    /\ UNCHANGED <<managed, flags, attempt, waiter, closer, broker, io, told, agent>>

\* A write or a read fails for good: the transport is gone.
TransportFails(s) ==
    /\ "transport" \in Events /\ At(s, {"loop", "read"})
    /\ Fails(s, "network")
    /\ UNCHANGED <<registry, flags, attempt, waiter, closer, broker, io, typed, told, agent>>

\* Nothing more to read for now: what is held back for the view is shown.
ShownAtRest(s) == [io[s] EXCEPT !.shown = IF io[s].live THEN io[s].read ELSE @]

\* Output goes to the broker as it is read; text is shown when nothing more is to be read,
\* or at once past the flush threshold.
Read(s) ==
    /\ At(s, {"read"})
    /\ \/ /\ io[s].read < io[s].printed
          /\ \E flush \in BOOLEAN :
                io' = [io EXCEPT ![s].read = @ + 1,
                         ![s].shown = IF io[s].live /\ flush THEN io[s].read + 1 ELSE @]
          /\ Observe(s, io[s].read + 1)
          /\ Goto(s, "loop")
       \/ /\ io[s].read = io[s].printed
          /\ io' = [io EXCEPT ![s] = ShownAtRest(s)]
          /\ Goto(s, IF worker[s].busy THEN "loop" ELSE "idle")
          /\ UNCHANGED broker
    /\ UNCHANGED <<registry, flags, attempt, waiter, closer, typed, told, agent>>

ShellExits(s) ==
    /\ At(s, {"read"}) /\ io[s].read = io[s].printed
    /\ Fails(s, "remoteExit")
    /\ UNCHANGED <<registry, flags, attempt, waiter, closer, broker, io, typed, told, agent>>

\* wait_for_session_events: output, a byte in the wake pipe, which is drained, or
\* the time of the next keepalive.  A paused session sleeps 20 ms and leaves the pipe.
Wake(s) ==
    /\ At(s, {"idle"})
    /\ Goto(s, "loop")
    /\ chan' = [chan EXCEPT ![s].wake = IF flags[s].paused THEN @ ELSE FALSE]
    /\ UNCHANGED <<managed, flags, attempt, waiter, closer, broker, io, typed, told, agent>>

LoopStep(s) == ReleaseStartupOutput(s) \/ RunCommands(s) \/ Read(s) \/ Wake(s)

-----------------------------------------------------------------------------
(* The end of a worker. *)

\* flush_pending_output, graceful_shutdown and TerminalConnectionGuard::finish.
Flushed(s) == [io EXCEPT ![s].shown = io[s].read]

Finish(s) ==
    /\ At(s, {"finish"})
    /\ io' = Flushed(s)
    /\ attempt' = [attempt EXCEPT ![s] =
            [Interrupted(@) EXCEPT !.finished = TRUE,
                                   !.watcher = IF @ = "watching" THEN "done" ELSE @]]
    /\ Goto(s, "report")
    /\ UNCHANGED <<registry, flags, waiter, closer, broker, typed, told, agent>>

Orderly == {"controllerDropped", "localClose", "remoteExit"}

\* The waiting command learns of a failure before the status changes.
Report(s) ==
    /\ At(s, {"report"}) /\ attempt[s].watcher = "done"
    /\ waiter' = IF worker[s].why \notin Orderly /\ waiter[s].at = "waiting" /\ waiter[s].result = "none"
                 THEN [waiter EXCEPT ![s].result = "error"] ELSE waiter
    /\ SetStatus(s, IF worker[s].why \in Orderly THEN "disconnected" ELSE "error")
    /\ Goto(s, "closed")
    /\ UNCHANGED <<chan, flags, attempt, closer, broker, io, typed, told, agent>>

BrokerReason(why) ==
    CASE why = "localClose" -> "userClosed" [] why = "remoteExit" -> "remoteExit"
      [] OTHER -> "transportDisconnected"

\* emit_closed
EmitClosed(s) ==
    /\ At(s, {"closed"})
    /\ CloseTransport(s, BrokerReason(worker[s].why))
    /\ told' = [told EXCEPT ![s].closed = worker[s].why]
    /\ Goto(s, "done")
    /\ UNCHANGED <<registry, flags, attempt, waiter, closer, io, typed, agent>>

EndStep(s) == Finish(s) \/ Report(s) \/ EmitClosed(s)

-----------------------------------------------------------------------------
(* close_session, and the agent whose conversation is bound to the terminal. *)

Closing(s) == closer[s] \in {"begun", "cancelling", "broker", "registry"}

BeginClose(s) ==
    /\ "close" \in Events /\ worker[s].at # "none" /\ closer[s] = "none"
    /\ closer' = [closer EXCEPT ![s] = "begun"]
    /\ UNCHANGED <<registry, flags, attempt, worker, waiter, broker, io, typed, told, agent>>

\* stop_terminal_agents takes the conversations of the terminal, then cancels them.
SelectAgents(s) ==
    /\ closer[s] = "begun"
    /\ closer' = [closer EXCEPT ![s] = IF agent.bound = s THEN "cancelling" ELSE "broker"]
    /\ UNCHANGED <<registry, flags, attempt, worker, waiter, broker, io, typed, told, agent>>

CancelAgents(s) ==
    /\ closer[s] = "cancelling"
    /\ closer' = [closer EXCEPT ![s] = "broker"]
    /\ agent' = [agent EXCEPT !.running = FALSE]
    /\ UNCHANGED <<registry, flags, attempt, worker, waiter, broker, io, typed, told>>

CloseBroker(s) ==
    /\ closer[s] = "broker"
    /\ CloseTransport(s, "userClosed")
    /\ closer' = [closer EXCEPT ![s] = "registry"]
    /\ UNCHANGED <<registry, flags, attempt, worker, waiter, io, typed, told, agent>>

CloseRegistry(s) ==
    /\ closer[s] = "registry"
    /\ RemovesWith(s, <<Close>>)
    /\ closer' = [closer EXCEPT ![s] = "done"]
    /\ UNCHANGED <<flags, attempt, worker, waiter, broker, io, typed, told, agent>>

CloseStep(s) == SelectAgents(s) \/ CancelAgents(s) \/ CloseBroker(s) \/ CloseRegistry(s)

StartConversation(s) ==
    /\ "agent" \in Events /\ agent.bound = NoSession /\ waiter[s].at = "ok"
    /\ agent' = [agent EXCEPT !.bound = s]
    /\ UNCHANGED <<registry, flags, attempt, worker, waiter, closer, broker, io, typed, told>>

\* require_open_terminal_target, when a driver is registered.
StartAgent ==
    /\ agent.bound # NoSession /\ ~agent.running /\ ~Closing(agent.bound)
    /\ agent' = [agent EXCEPT !.running = TRUE]
    /\ UNCHANGED <<registry, flags, attempt, worker, waiter, closer, broker, io, typed, told>>

AgentSettles ==
    /\ agent.running
    /\ agent' = [agent EXCEPT !.running = FALSE]
    /\ UNCHANGED <<registry, flags, attempt, worker, waiter, closer, broker, io, typed, told>>

\* verify_reconnect_transport: the terminal of the new transport is open, and its own.
Replacement(old, new) ==
    LET r == terms[transports[new].term] IN old \in r.preds

OpenFor(s) ==
    /\ transports[s].term # NoSession
    /\ LET r == terms[transports[s].term] IN r.open /\ r.by = s

MayRebind(old, new) == ~Closing(old) /\ ~Closing(new)

\* reconnect_terminal, under the handle, closing and registry locks.
Rebind(s) ==
    /\ agent.bound \notin {NoSession, s} /\ ~agent.running
    /\ MayRebind(agent.bound, s)
    /\ managed[s] = "connected" /\ OpenFor(s)
    /\ Replacement(agent.bound, s) \/ managed[agent.bound] \notin {"connected", "connecting"}
    /\ agent' = [agent EXCEPT !.bound = s]
    /\ UNCHANGED <<registry, flags, attempt, worker, waiter, closer, broker, io, typed, told>>

AgentStep == StartAgent \/ AgentSettles \/ \E s \in Sessions : StartConversation(s) \/ Rebind(s)

-----------------------------------------------------------------------------
(* The user, the view and the shell. *)

\* write_session and resize_session: taken while the worker holds its end of the channel.
Type(s, kind) ==
    LET input == [kind |-> kind, n |-> Len(typed[s].accepted) + 1] IN
    /\ managed[s] # "absent" /\ ~At(s, {"done"}) /\ input.n <= MaxInputs
    /\ chan' = [chan EXCEPT ![s].q = Append(@, input), ![s].wake = TRUE]
    /\ typed' = [typed EXCEPT ![s].accepted = Append(@, input)]
    /\ UNCHANGED <<managed, flags, attempt, worker, waiter, closer, broker, io, told, agent>>

\* mark_session_ready and set_session_output_paused: the flag first, the wakeup second.
SetFlag(s, flag, value) ==
    /\ "view" \in Events /\ managed[s] # "absent" /\ flags[s][flag] # value
    /\ flags' = [flags EXCEPT ![s][flag] = value]
    /\ chan' = [chan EXCEPT ![s].wake = TRUE]
    /\ UNCHANGED <<managed, attempt, worker, waiter, closer, broker, io, typed, told, agent>>

ViewReady(s) == SetFlag(s, "ready", TRUE)
Pause(s) == SetFlag(s, "paused", TRUE)
Resume(s) == SetFlag(s, "paused", FALSE)

Prints(s) ==
    /\ At(s, {"loop", "read", "idle"}) /\ io[s].printed < MaxChunks
    /\ io' = [io EXCEPT ![s].printed = @ + 1]
    /\ UNCHANGED <<registry, flags, attempt, worker, waiter, closer, broker, typed, told, agent>>

UserStep(s) ==
    \/ Create(s) \/ BeginClose(s) \/ ViewReady(s) \/ Pause(s) \/ Resume(s)
    \/ \E kind \in {"write", "resize"} : Type(s, kind)

WorldStep(s) ==
    Deadline(s) \/ StartupTimeout(s) \/ NetworkFails(s) \/ TransportFails(s) \/ ShellExits(s) \/ Prints(s)

Machine(s) ==
    ConnectStep(s) \/ LoopStep(s) \/ EndStep(s) \/ WaiterStep(s) \/ WatcherStep(s)
    \/ DropSender(s) \/ CloseStep(s)

Next == AgentStep \/ \E s \in Sessions : Machine(s) \/ UserStep(s) \/ WorldStep(s)

Spec == Init /\ [][Next]_vars

\* Threads and clocks run; users, shells and networks do as they please: a server
\* may leave a connection attempt waiting until its sockets are shut down.
FairSpec ==
    /\ Spec
    /\ \A s \in Sessions :
        /\ WF_vars(ConnectStep(s) /\ ~At(s, {"dial", "shell"}))
        /\ WF_vars(attempt[s].cut /\ ConnectStep(s)) /\ WF_vars(LoopStep(s)) /\ WF_vars(EndStep(s))
        /\ WF_vars(WaiterStep(s)) /\ WF_vars(WatcherStep(s)) /\ WF_vars(DropSender(s))
        /\ WF_vars(CloseStep(s)) /\ WF_vars(Deadline(s)) /\ WF_vars(StartupTimeout(s))

-----------------------------------------------------------------------------
(* Properties *)

Places == {"none", "dial", "shell", "target", "attach", "publish", "announce", "loop", "read",
           "idle", "finish", "report", "closed", "done"}
Ends == {"none", "cut", "cancelled", "network", "refused", "unheard"} \cup Orderly

\* The shape of the state.
TypeOK ==
    /\ managed \in [Sessions -> {"absent", "connecting", "connected", "disconnected", "error"}]
    /\ \A s \in Sessions :
        /\ worker[s].at \in Places /\ worker[s].why \in Ends /\ worker[s].busy \in BOOLEAN
        /\ waiter[s].at \in {"none", "waiting", "ok", "failed"}
        /\ waiter[s].result \in {"none", "ok", "error"}
        /\ closer[s] \in {"none", "begun", "cancelling", "broker", "registry", "done"}
        /\ transports[s].term \in Sessions \cup {NoSession} /\ transports[s].gen \in Nat
        /\ terms[s].gen \in Nat /\ terms[s].preds \subseteq Sessions
        /\ io[s].shown <= io[s].read /\ io[s].read <= io[s].printed
        /\ told[s].closed \in Ends
    /\ agent.bound \in Sessions \cup {NoSession}

\* terminal_deadline: complete() and interrupt() meet under the sockets' lock.
\* The deadline, or a close seen by the watcher, never shuts the sockets of a
\* session that was committed as ready.
ReadyIsNotCut == \A s \in Sessions : attempt[s].ready => ~attempt[s].cut

\* models.rs, commit_connection_ready: what close or a failed create took out
\* of the registry is not put back by a late status or a late readiness.
KeepsRemoved ==
    \A s \in Sessions : worker[s].at # "none" /\ managed[s] = "absent" => managed'[s] = "absent"
RemovedStaysRemoved == [][KeepsRemoved]_vars

\* An open generation has a worker that will close it, and the broker finds it
\* by its transport: no failure after the attachment leaves one behind.
OpenIsServed ==
    \A t \in Sessions : terms[t].open =>
        /\ ~At(terms[t].by, {"none", "done"})
        /\ transports[terms[t].by] = [term |-> t, gen |-> terms[t].gen, active |-> TRUE]

\* A generation is closed by its own transport or by the one that replaces it:
\* the late end of an older transport does not close the newer one.
ClosesItsOwn ==
    \A t \in Sessions : terms[t].open /\ ~terms'[t].open =>
        worker'[terms[t].by] # worker[terms[t].by] \/ closer'[terms[t].by] # closer[terms[t].by]
ClosedByItsOwn == [][ClosesItsOwn]_vars

\* What the broker holds of a generation is what its own transport read, from
\* the first chunk on: a replaced transport that still reads adds nothing.
OwnOutput ==
    \A t \in Sessions : \A i \in DOMAIN terms[t].out : terms[t].out[i] = [by |-> terms[t].by, chunk |-> i]

\* remember_closed_session: what the broker keeps of closed terminals is
\* bounded, and no entry is kept that eviction would never reach.
ClosedAreBounded ==
    LET closed == {t \in Sessions : terms[t].gen # 0 /\ ~terms[t].open} IN
    Cardinality(closed) <= Capacity /\ closed \subseteq {order[i] : i \in DOMAIN order}

\* Everything the worker read was shown when the view hears the session closed.
ShownInFull == \A s \in Sessions : told[s].closed # "none" => io[s].shown = io[s].read

\* The writes of a sequence of inputs, each with the size the shell has when it comes.
Sized(inputs) ==
    LET writes == SelectSeq([i \in DOMAIN inputs |-> i], LAMBDA i : inputs[i].kind = "write")
        SizeAt(i) == {inputs[j].n : j \in {j \in 1 .. i - 1 : inputs[j].kind = "resize"}}
    IN  [k \in DOMAIN writes |->
            <<inputs[writes[k]].n, {n \in SizeAt(writes[k]) : \A m \in SizeAt(writes[k]) : m <= n}>>]

\* coalesce_session_commands: merging keeps every write, in order, and the size
\* that was set last before it.
InputKeepsItsOrder ==
    \A s \in Sessions : LET a == Sized(typed[s].applied) b == Sized(typed[s].accepted) IN
        Len(a) <= Len(b) /\ a = SubSeq(b, 1, Len(a))

\* runtime.rs, reconnect_terminal: a close cancels agents of the terminal it
\* closes; a conversation moved to the next terminal is out of its reach.
CancelsOwn ==
    \A s \in Sessions : closer[s] = "cancelling" /\ closer'[s] # "cancelling" => agent.bound = s
CancelsItsOwnAgents == [][CancelsOwn]_vars

\* The view is told of a close the user asked for as a local one.
UserCloseIsLocal == \A s \in Sessions : closer[s] # "none" => told[s].closed # "controllerDropped"

\* create_session returns, and once a session is closed or failed to connect
\* its worker ends and its entry is gone.
CreateReturns == \A s \in Sessions : waiter[s].at = "waiting" ~> waiter[s].at \in {"ok", "failed"}
CloseEnds ==
    \A s \in Sessions : (closer[s] = "done" \/ waiter[s].at = "failed")
        ~> (At(s, {"done"}) /\ managed[s] = "absent")

\* Output reaches the view unless it pauses the session: neither the idle wait
\* nor the startup gate keeps text for ever.
OutputReachesView ==
    \A s \in Sessions : []<>(io[s].shown = io[s].printed \/ flags[s].paused \/ At(s, {"report", "closed", "done"}))
=============================================================================
