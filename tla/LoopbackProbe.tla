---------------------------- MODULE LoopbackProbe ----------------------------
(* probe_http on a remote target: the caller (http_probe.rs) asks for a private
   connection to a port of the target's loopback (port_forward.rs), whose worker opens an
   SSH session of its own under a scope (connection.rs) that registers every socket and
   owns every helper thread, and pumps between the channel and a socket pair. One
   deadline and one cancellation hold for all of it. The server may stall at any point. *)
EXTENDS Naturals, Sequences

CONSTANTS
  Jump,        \* whether the target is reached through a jump host
  Req, Resp    \* chunks of the request and of the answer

ProbeAssumption == Jump \in BOOLEAN /\ Req \in Nat \ {0} /\ Resp \in Nat \ {0}

VARIABLES
  caller,   \* where execute_http_probe_native is, and its result
  worker,   \* the worker thread: the stage of its connection, or what follows
  scope,    \* the scope: finished, the sockets registered, those shut down
  watcher, bridge,   \* the scope's watcher thread; the thread that carries the jump
  stop,     \* the deadline has passed; the tool is cancelled; the transport is cancelled
  handed,   \* what is in the channel that hands the stream to the caller
  outcome,  \* what is in the channel that reports the worker's end
  net       \* the bytes: chunks at each place, and the ends seen and passed on

vars == <<caller, worker, scope, watcher, bridge, stop, handed, outcome, net>>

\* resolve_socket_addresses, connect_tcp_stream, open_authenticated_session,
\* open_jump_bridge and the channel itself.
Hop    == <<"handshake", "key", "auth">>
Stages == <<"resolve", "connect">> \o Hop \o (IF Jump THEN <<"tunnel">> \o Hop ELSE <<>>) \o <<"channel">>
Last   == Len(Stages)
Places == {"asked", "up", "served", "answer", "down", "toClient", "got"}
Zero   == [p \in Places |-> 0]

Init ==
  /\ caller = [pc |-> "check", res |-> "none"]
  /\ worker = [pc |-> "none", at |-> 0, err |-> FALSE]
  /\ scope = [finished |-> FALSE, sockets |-> 0, shut |-> 0]
  /\ watcher = "none" /\ bridge = "none" /\ handed = "empty" /\ outcome = "none"
  /\ stop = [late |-> FALSE, tool |-> FALSE, own |-> FALSE]
  /\ net = [at |-> Zero, clientGone |-> FALSE, serverDone |-> FALSE, tcpEof |-> FALSE,
            chanEof |-> FALSE, sentEof |-> FALSE, sentShut |-> FALSE]

Cancelled  == stop.tool \/ stop.own          \* the transport's token is a child of the tool's
Stopped    == scope.finished \/ Cancelled \/ stop.late
Late       == stop' = [stop EXCEPT !.late = TRUE] /\ UNCHANGED <<caller, worker, scope, watcher, bridge, handed, outcome, net>>
UserCancel == stop' = [stop EXCEPT !.tool = TRUE] /\ UNCHANGED <<caller, worker, scope, watcher, bridge, handed, outcome, net>>

(* ------------------------------- the caller ------------------------------- *)
Calls(pc)    == caller' = [caller EXCEPT !.pc = pc]
Returns(res) == caller' = [pc |-> "back", res |-> res]
Open ==
  /\ caller.pc = "check" /\ UNCHANGED <<scope, bridge, stop, handed, outcome, net>>
  /\ IF Cancelled \/ stop.late THEN Returns("err") /\ UNCHANGED <<worker, watcher>>
     ELSE Calls("opening") /\ worker' = [worker EXCEPT !.pc = "dial", !.at = 1] /\ watcher' = "watch"
\* The stream is awaited in slices of ten milliseconds; giving up drops the receiver.
GiveUp ==
  /\ caller.pc = "opening" /\ (Cancelled \/ stop.late)
  /\ Returns("err") /\ stop' = [stop EXCEPT !.own = @ \/ ~Cancelled]
  /\ handed' = "dropped" /\ UNCHANGED <<worker, scope, watcher, bridge, outcome, net>>
Receive ==
  /\ caller.pc = "opening" /\ handed \in {"stream", "error"}
  /\ IF handed = "stream" THEN Calls("exchange") ELSE Returns("err")
  /\ handed' = "dropped" /\ UNCHANGED <<worker, scope, watcher, bridge, stop, outcome, net>>
\* send_http_probe_over_stream: the request is written, the framed answer read; leaving it
\* for whatever reason closes the stream.
At(p) == net.at[p]
Moves(from, to) == net' = [net EXCEPT !.at[from] = @ - 1, !.at[to] = @ + 1]
Asked == At("asked") + At("up") + At("served")
Write ==
  /\ caller.pc = "exchange" /\ Asked < Req
  /\ net' = [net EXCEPT !.at["asked"] = @ + 1]
  /\ UNCHANGED <<caller, worker, scope, watcher, bridge, stop, handed, outcome>>
Read ==
  /\ caller.pc = "exchange" /\ At("toClient") > 0 /\ Moves("toClient", "got")
  /\ UNCHANGED <<caller, worker, scope, watcher, bridge, stop, handed, outcome>>
Broken == At("toClient") = 0 /\ At("got") < Resp /\ (net.sentShut \/ worker.pc # "pump")
Exchanged ==
  /\ caller.pc = "exchange" /\ (Cancelled \/ stop.late \/ At("got") = Resp \/ Broken)
  /\ caller' = [pc |-> "finish", res |-> IF At("got") = Resp /\ ~Cancelled THEN "ok" ELSE "err"]
  /\ net' = [net EXCEPT !.clientGone = TRUE]
  /\ UNCHANGED <<worker, scope, watcher, bridge, stop, handed, outcome>>
\* finish: the bridge is cancelled, its outcome awaited until the deadline, the worker
\* joined.
Finish ==
  /\ caller.pc = "finish" /\ stop' = [stop EXCEPT !.own = TRUE] /\ Calls("wait")
  /\ UNCHANGED <<worker, scope, watcher, bridge, handed, outcome, net>>
Wait ==
  /\ caller.pc = "wait" /\ UNCHANGED <<worker, scope, watcher, bridge, stop, handed, outcome, net>>
  /\ \/ stop.late /\ Returns("err")
     \/ outcome = "err" /\ worker.pc = "gone" /\ Returns("err")
     \/ outcome = "ok" /\ worker.pc = "gone" /\ Returns(caller.res)
CallerStep == Open \/ GiveUp \/ Receive \/ Write \/ Read \/ Exchanged \/ Finish \/ Wait

(* ------------------------- the worker's connection ------------------------ *)
Stage    == Stages[worker.at]
Socket   == IF worker.at <= 5 THEN 1 ELSE IF Stage = "tunnel" THEN 1 ELSE IF Jump THEN 2 ELSE 1
CutOff   == scope.shut >= Socket \/ (Socket = 2 /\ bridge = "over")
Goes(pc, err) == worker' = [worker EXCEPT !.pc = pc, !.err = err]
Unseen == Stage = "handshake" /\ scope.sockets < Socket       \* not registered yet
Advance ==
  /\ worker.pc = "dial" /\ ~Unseen /\ UNCHANGED <<caller, scope, watcher, stop, handed, outcome, net>>
  /\ Stage = "resolve" => ~Stopped
  /\ Stage \notin {"resolve", "connect"} => ~CutOff /\ (Socket = 2 => bridge = "pump")
  /\ bridge' = IF Stage = "tunnel" THEN "accept" ELSE bridge
  /\ worker' = IF worker.at < Last THEN [worker EXCEPT !.at = @ + 1] ELSE [worker EXCEPT !.pc = "hand"]
\* register_scoped_socket: refused when the scope has ended; between that look and the
\* entry the watcher may come by.
Look ==
  /\ worker.pc = "dial" /\ Unseen /\ ~Stopped /\ Goes("register", FALSE)
  /\ UNCHANGED <<caller, scope, watcher, bridge, stop, handed, outcome, net>>
Register ==
  /\ worker.pc = "register" /\ Goes("dial", FALSE)
  /\ scope' = [scope EXCEPT !.sockets = Socket]
  /\ UNCHANGED <<caller, watcher, bridge, stop, handed, outcome, net>>
\* The server refuses, or its own timeouts pass: at any time.
Refused ==
  /\ worker.pc = "dial" /\ Goes("leave", TRUE)
  /\ UNCHANGED <<caller, scope, watcher, bridge, stop, handed, outcome, net>>
\* What ends without the server: resolving watches the token, connecting has half a
\* second, the rest is in a call on a socket that was shut down.
MustFail ==
  \/ (Stage = "resolve" \/ Unseen) /\ Stopped
  \/ Stage = "connect"
  \/ CutOff
Interrupted == worker.pc = "dial" /\ MustFail /\ Refused
\* The flag is looked at, the pair is made, its other end handed over.
Hand ==
  /\ worker.pc = "hand" /\ UNCHANGED <<caller, scope, watcher, bridge, stop, outcome, net>>
  /\ IF handed = "dropped" \/ stop.late THEN Goes("leave", TRUE) /\ UNCHANGED handed
     ELSE Goes("pump", FALSE) /\ handed' = "stream"

(* ------------------------- bridge_scoped_connection ----------------------- *)
PumpStops ==
  /\ worker.pc = "pump" /\ UNCHANGED <<caller, scope, watcher, bridge, stop, handed, outcome, net>>
  /\ \/ Cancelled /\ Goes("leave", FALSE)
     \/ stop.late /\ Goes("leave", TRUE)
     \/ scope.shut > 0 /\ Goes("leave", TRUE)
     \/ net.sentEof /\ net.sentShut /\ Goes("leave", FALSE)
Pumps == worker.pc = "pump" /\ UNCHANGED <<caller, worker, scope, watcher, bridge, stop, handed, outcome>>
ReadTcp ==
  /\ Pumps /\ ~net.tcpEof /\ At("up") = 0
  /\ IF At("asked") > 0 THEN Moves("asked", "up") ELSE net.clientGone /\ net' = [net EXCEPT !.tcpEof = TRUE]
WriteChannel == Pumps /\ At("up") > 0 /\ scope.shut = 0 /\ Moves("up", "served")
MaySendEof == net.tcpEof /\ At("up") = 0 /\ ~net.sentEof
SendEof     == Pumps /\ MaySendEof /\ net' = [net EXCEPT !.sentEof = TRUE]
ReadChannel ==
  /\ Pumps /\ ~net.chanEof /\ At("down") = 0
  /\ IF At("answer") > 0 THEN Moves("answer", "down") ELSE net.serverDone /\ net' = [net EXCEPT !.chanEof = TRUE]
WriteTcp == Pumps /\ At("down") > 0 /\ ~net.clientGone /\ Moves("down", "toClient")
MayShutDownEarly == net.serverDone /\ ~net.sentShut     \* mutant: before what was read is written
MayShutDown == net.chanEof /\ At("down") = 0 /\ ~net.sentShut
ShutDown    == Pumps /\ MayShutDown /\ net' = [net EXCEPT !.sentShut = TRUE]
Pump == ReadTcp \/ WriteChannel \/ SendEof \/ ReadChannel \/ WriteTcp \/ ShutDown

\* The end of the scope: finished, every socket shut down, the jump's thread joined, the
\* watcher joined; only then the outcome is sent.
Leave ==
  /\ worker.pc = "leave" /\ Goes("joins", worker.err)
  /\ scope' = [scope EXCEPT !.finished = TRUE, !.shut = @ + (scope.sockets - @)]
  /\ UNCHANGED <<caller, watcher, bridge, stop, handed, outcome, net>>
Joined == bridge \in {"none", "over"} /\ watcher = "over"
Join ==
  /\ worker.pc = "joins" /\ Joined /\ Goes("gone", worker.err)
  /\ handed' = IF worker.err /\ handed = "empty" THEN "error" ELSE handed
  /\ outcome' = IF worker.err THEN "err" ELSE "ok"
  /\ UNCHANGED <<caller, scope, watcher, bridge, stop, net>>
WorkerStep == Interrupted \/ Look \/ Register \/ Hand \/ PumpStops \/ Pump \/ Leave \/ Join

(* --------------------- the watcher and the jump's thread ------------------ *)
\* Every ten milliseconds; it goes on after a cut, for sockets registered since.
Watch ==
  /\ watcher = "watch" /\ UNCHANGED <<caller, worker, bridge, stop, handed, outcome, net>>
  /\ \/ scope.finished /\ watcher' = "over" /\ UNCHANGED scope
     \/ /\ (Cancelled \/ stop.late) /\ scope.shut < scope.sockets
        /\ scope' = [scope EXCEPT !.shut = scope.sockets] /\ UNCHANGED watcher
BridgeStep ==
  /\ bridge \in {"accept", "pump"} /\ UNCHANGED <<caller, worker, scope, watcher, stop, handed, outcome, net>>
  /\ \/ Stopped /\ bridge' = "over"
     \/ bridge = "accept" /\ ~Stopped /\ bridge' = "pump"
     \/ bridge = "pump" /\ scope.shut > 0 /\ bridge' = "over"

(* -------------------------------- the server ------------------------------ *)
Answered == At("answer") + At("down") + At("toClient") + At("got")
Serve ==
  /\ worker.pc = "pump" /\ ~net.serverDone
  /\ \/ At("served") = Req /\ Answered < Resp /\ net' = [net EXCEPT !.at["answer"] = @ + 1]
     \/ net' = [net EXCEPT !.serverDone = TRUE]
  /\ UNCHANGED <<caller, worker, scope, watcher, bridge, stop, handed, outcome>>

World == Advance \/ Refused \/ Serve \/ Late \/ UserCancel
Next == CallerStep \/ WorkerStep \/ Watch \/ BridgeStep \/ World
Spec == Init /\ [][Next]_vars
\* Threads run; the server need not do anything.
QuickSpec == Spec /\ WF_vars(CallerStep) /\ WF_vars(WorkerStep) /\ WF_vars(Watch) /\ WF_vars(BridgeStep)
\* And the deadline comes.
FairSpec == QuickSpec /\ WF_vars(Late)

(* -------------------------------- properties ------------------------------ *)
TypeOK ==
  /\ caller.pc \in {"check", "opening", "exchange", "finish", "wait", "back"}
  /\ caller.res \in {"none", "ok", "err"}
  /\ worker.pc \in {"none", "dial", "register", "hand", "pump", "leave", "joins", "gone"}
  /\ worker.at \in 0..Last /\ scope.shut <= scope.sockets /\ scope.sockets <= 2
  /\ watcher \in {"none", "watch", "over"} /\ bridge \in {"none", "accept", "pump", "over"}
  /\ \A p \in Places : net.at[p] <= Req + Resp

\* An end is passed on after everything that came before it ("preserves_half_close").
EndsComeLast ==
  /\ net.sentEof => At("asked") + At("up") = 0
  /\ net.sentShut => At("answer") + At("down") = 0
\* A probe that succeeded leaves nothing behind: its worker, the jump's thread and the
\* watcher have been joined and its sockets are shut down.
NothingLeft ==
  caller.pc = "back" /\ caller.res = "ok" =>
    worker.pc = "gone" /\ Joined /\ scope.shut = scope.sockets /\ scope.finished
\* The probe answers, and all of its threads end, whatever the server does.
AllEnds == (worker.pc = "dial") ~> (caller.pc = "back" /\ worker.pc = "gone" /\ Joined)
\* Success is quick: once the answer is complete the probe ends without the deadline.
AnswerIsEnough == (caller.pc = "finish" /\ caller.res = "ok") ~> (caller.pc = "back")
=============================================================================
