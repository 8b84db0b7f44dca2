---------------------------- MODULE ForwardBridge ----------------------------
(* The connections inside one forward (port_forward.rs): for each, a thread copies from
   the client's socket to the channel and another back. All channels and the forwarding
   loop share the mutex of one SSH session. In a local forward the session is blocking: a
   read that finds nothing waits inside the mutex, until its timeout; in a remote forward
   it gives up at once and is tried again. *)
EXTENDS Naturals, FiniteSets

CONSTANTS
  Conns,      \* connections made to the listener
  Requests,   \* requests each client sends, one after the answer to the other
  Blocking,   \* a local forward
  Greets      \* whether the target speaks first

BridgeAssumption == Requests \in Nat \ {0} /\ {Blocking, Greets} \subseteq BOOLEAN

VARIABLES
  conn,    \* the state of each connection: the listener's queue, the channel, the end
  up, down,    \* the two copying threads: where they are and the chunk they hold
  lock,    \* the connection whose reader waits inside the session's mutex
  pipe     \* chunks on their way: to the bridge, to the target, back, to the client

vars == <<conn, up, down, lock, pipe>>

Nobody == "nobody"
Ways == {"asked", "toTarget", "served", "toBridge", "answered"}
Init ==
  /\ conn = [c \in Conns |-> "idle"] /\ lock = Nobody
  /\ up = [c \in Conns |-> "none"] /\ down = [c \in Conns |-> "none"]
  /\ pipe = [c \in Conns |-> [w \in Ways |-> 0]]

Free == lock = Nobody
Add(c, way)       == pipe' = [pipe EXCEPT ![c][way] = @ + 1]
Greeting          == IF Greets THEN 1 ELSE 0

(* -------------------------------- the ends -------------------------------- *)
Connect(c) ==
  /\ conn[c] = "idle" /\ conn' = [conn EXCEPT ![c] = "queued"]
  /\ UNCHANGED <<up, down, lock, pipe>>
\* A client waits for the greeting, if there is one, and for each answer.
Sent(c) == pipe[c]["asked"] + pipe[c]["toTarget"] + pipe[c]["served"] + (IF up[c] = "holds" THEN 1 ELSE 0)
Ask(c) ==
  /\ conn[c] \in {"queued", "open"} /\ Sent(c) < Requests
  /\ pipe[c]["answered"] = Greeting + Sent(c)
  /\ Add(c, "asked") /\ UNCHANGED <<conn, up, down, lock>>
Serve(c) ==
  /\ conn[c] = "open" /\ pipe[c]["toTarget"] > 0
  /\ pipe' = [pipe EXCEPT ![c]["toTarget"] = @ - 1, ![c]["served"] = @ + 1, ![c]["toBridge"] = @ + 1]
  /\ UNCHANGED <<conn, up, down, lock>>

(* --------------------------- the forwarding loop -------------------------- *)
\* Accept, open the channel (a request and its answer inside the mutex), spawn the two.
Accept(c) ==
  /\ conn[c] = "queued" /\ Free
  /\ conn' = [conn EXCEPT ![c] = "open"]
  /\ up' = [up EXCEPT ![c] = "reads"] /\ down' = [down EXCEPT ![c] = "reads"]
  /\ IF Greets THEN Add(c, "toBridge") ELSE UNCHANGED pipe
  /\ UNCHANGED lock

(* ------------------------------- copy_counted ----------------------------- *)
ReadClient(c) ==
  /\ up[c] = "reads" /\ pipe[c]["asked"] > 0
  /\ pipe' = [pipe EXCEPT ![c]["asked"] = @ - 1] /\ up' = [up EXCEPT ![c] = "holds"]
  /\ UNCHANGED <<conn, down, lock>>
WriteChannel(c) ==
  /\ up[c] = "holds" /\ Free
  /\ Add(c, "toTarget") /\ up' = [up EXCEPT ![c] = "reads"]
  /\ UNCHANGED <<conn, down, lock>>
\* A read takes the mutex: it finds a chunk, or waits inside (blocking), or is retried.
ReadChannel(c) ==
  /\ down[c] = "reads" /\ Free /\ UNCHANGED <<conn, up>>
  /\ IF pipe[c]["toBridge"] > 0
       THEN /\ down' = [down EXCEPT ![c] = "holds"] /\ UNCHANGED lock
            /\ pipe' = [pipe EXCEPT ![c]["toBridge"] = @ - 1]
       ELSE Blocking /\ lock' = c /\ down' = [down EXCEPT ![c] = "waits"] /\ UNCHANGED pipe
WaitEnds(c) ==
  /\ down[c] = "waits" /\ pipe[c]["toBridge"] > 0 /\ lock' = Nobody
  /\ down' = [down EXCEPT ![c] = "holds"] /\ pipe' = [pipe EXCEPT ![c]["toBridge"] = @ - 1]
  /\ UNCHANGED <<conn, up>>
\* The session's timeout is an error like any other: the copy back ends. (A target that
\* was asked answers before that.)
TimesOut(c) ==
  /\ down[c] = "waits" /\ pipe[c]["toBridge"] + pipe[c]["toTarget"] = 0 /\ lock' = Nobody
  /\ down' = [down EXCEPT ![c] = "ended"] /\ UNCHANGED <<conn, up, pipe>>
WriteClient(c) ==
  /\ down[c] = "holds" /\ Add(c, "answered") /\ down' = [down EXCEPT ![c] = "reads"]
  /\ UNCHANGED <<conn, up, lock>>

Bridge(c) ==
  Accept(c) \/ ReadClient(c) \/ WriteChannel(c) \/ ReadChannel(c) \/ WaitEnds(c) \/ TimesOut(c) \/ WriteClient(c)
Next == \E c \in Conns : Connect(c) \/ Ask(c) \/ Serve(c) \/ Bridge(c)
Spec == Init /\ [][Next]_vars
\* Threads run, timeouts pass, and a mutex that is free again and again is obtained.
FairSpec ==
  /\ Spec
  /\ \A c \in Conns : /\ WF_vars(Ask(c)) /\ WF_vars(Serve(c)) /\ SF_vars(Accept(c)) /\ WF_vars(ReadClient(c))
                      /\ SF_vars(WriteChannel(c)) /\ SF_vars(ReadChannel(c))
                      /\ WF_vars(WaitEnds(c)) /\ WF_vars(TimesOut(c)) /\ WF_vars(WriteClient(c))

(* -------------------------------- properties ------------------------------ *)
TypeOK ==
  /\ conn \in [Conns -> {"idle", "queued", "open"}] /\ lock \in Conns \cup {Nobody}
  /\ up \in [Conns -> {"none", "reads", "holds"}]
  /\ down \in [Conns -> {"none", "reads", "waits", "holds", "ended"}]
  /\ pipe \in [Conns -> [Ways -> 0..(Requests + 1)]]
  /\ \A c \in Conns : pipe[c]["toTarget"] <= 1
\* What the target said is with the client or on its way there, each chunk once, and the
\* session's mutex is kept by nobody but the one reader that waits inside.
NoChunkLost ==
  \A c \in Conns :
    /\ pipe[c]["answered"] + pipe[c]["toBridge"] + (IF down[c] = "holds" THEN 1 ELSE 0)
         = pipe[c]["served"] + (IF conn[c] = "open" THEN Greeting ELSE 0)
    /\ (lock = c) = (down[c] = "waits")
\* Where the target speaks first, every connection hears it: a reader that waits inside
\* the mutex lets the next connection in when its timeout passes.
GreetingArrives == \A c \in Conns : (conn[c] = "queued") ~> (pipe[c]["answered"] >= Greeting)
\* "reach a target through SSH": a client that connects gets all its answers.
AnswersArrive == \A c \in Conns : (conn[c] = "queued") ~> (pipe[c]["answered"] = Requests + Greeting)
=============================================================================
