----------------------------- MODULE PortForward -----------------------------
(* Port forwarding of one rule of one profile (port_forward.rs, the commands, and the
   store of the view). The commands run on the main thread; every forward has a worker
   thread of its own. Manager state changes under its lock, but what was changed is
   emitted after the lock is released, and the reply of a command reaches the view by
   another way than the events. Connections inside a forward are ForwardBridge's. *)
EXTENDS Naturals, FiniteSets, FiniteSetsExt

CONSTANTS
  MaxOps,       \* bound: the operations started in one behaviour
  Owners,       \* terminals that start the rule with their connection
  Users,        \* manual starts
  Stoppers,     \* manual stops, of one forward or of all
  Local,        \* whether this is a local rule, which holds a port of this computer
  MaxHistory    \* entries above which finished ones are pruned (200 in the code)

Ops     == 1..MaxOps
Clients == Owners \cup Users
BoundsAssumption == MaxOps \in Nat \ {0} /\ MaxHistory \in Nat /\ Local \in BOOLEAN

VARIABLES
  ops,      \* the manager's operations
  worker,   \* their worker threads
  view,     \* the runtimes of the view's store
  start,    \* startRule of each caller
  stop,     \* one stop in flight for each caller and stopper
  main,     \* the stop the main thread is about to emit the result of, if any
  closing   \* owners whose connection has ended

vars == <<ops, worker, view, start, stop, main, closing>>

Active   == {"starting", "running", "stopping"}
Final    == {"stopped", "failed"}
Status   == Active \cup Final
NoOp     == [st |-> "none", cancel |-> FALSE]
NoView   == [st |-> "none", owners |-> {}, auto |-> FALSE]
NoWork   == [pc |-> "none", msg |-> "none"]
NoStart  == [pc |-> "idle", op |-> 0, msg |-> "none", list |-> [o \in Ops |-> "none"]]
NoStop   == [pc |-> "idle", ops |-> {}, list |-> [o \in Ops |-> "none"]]
Stops    == Clients \cup Stoppers
Nobody   == "nobody"

Init ==
  /\ ops = [o \in Ops |-> NoOp] /\ worker = [o \in Ops |-> NoWork]
  /\ view = [o \in Ops |-> NoView] /\ main = Nobody /\ closing = {}
  /\ start = [c \in Clients |-> NoStart] /\ stop = [s \in Stops |-> NoStop]

IsActive(o)  == ops[o].st \in Active
ActiveOps    == {o \in Ops : IsActive(o)}
Listed       == [o \in Ops |-> ops[o].st]
Holding      == {o \in Ops : worker[o].pc \in {"open", "ready", "loop", "tick"}}

(* ---------------------------------- the view ------------------------------ *)
Shown(S)   == {o \in Ops : view[o].st \in S}
Newest(S)  == Max(S)
Merged(o, st) == [view EXCEPT ![o].st = st]                     \* mergeRuntime
MergedAll(list) ==
  [o \in Ops |-> IF list[o] = "none" THEN view[o] ELSE [view[o] EXCEPT !.st = list[o]]]
Attach(o, c) == [view EXCEPT ![o].owners = @ \cup ({c} \cap Owners)]

(* ------------------------------ the worker thread ------------------------- *)
Update(o, st)  == IF ops[o].st = "none" THEN ops ELSE [ops EXCEPT ![o].st = st]
Works(o, pc, msg) == worker' = [worker EXCEPT ![o] = [pc |-> pc, msg |-> msg]]
Quiet == UNCHANGED <<start, stop, main, closing>>

\* The connection is opened without a look at the flag, and the status is set to
\* running whatever it is.
Open(o) ==
  /\ worker[o].pc = "open"
  /\ \/ ops' = Update(o, "running") /\ Works(o, "ready", "running")
     \/ ops' = ops /\ Works(o, "end", "failed")
  /\ UNCHANGED view /\ Quiet
\* One round of the forwarding loop: leave it, or report.
Loop(o) ==
  /\ worker[o].pc = "loop"
  /\ IF ops[o].cancel THEN Works(o, "end", "stopped") ELSE Works(o, "tick", ops[o].st)
  /\ UNCHANGED <<ops, view>> /\ Quiet
\* The listener and the session are gone; the result is stored.
End(o) ==
  /\ worker[o].pc = "end"
  /\ ops' = Update(o, worker[o].msg) /\ Works(o, "last", worker[o].msg)
  /\ UNCHANGED view /\ Quiet
Emit(o) ==
  /\ worker[o].pc \in {"ready", "tick", "last"}
  /\ view' = Merged(o, worker[o].msg)
  /\ Works(o, IF worker[o].pc = "last" THEN "prune" ELSE "loop", "none")
  /\ UNCHANGED ops /\ Quiet
Known       == {o \in Ops : ops[o].st # "none"}
Prunable    == {o \in Ops : ops[o].st \in Final}
Prune(o) ==
  /\ worker[o].pc = "prune" /\ Works(o, "done", "none")
  /\ LET excess == IF Cardinality(Known) > MaxHistory THEN Cardinality(Known) - MaxHistory ELSE 0
     IN \E gone \in SUBSET Prunable :
          /\ Cardinality(gone) = Min({excess, Cardinality(Prunable)})
          /\ ops' = [p \in Ops |-> IF p \in gone THEN NoOp ELSE ops[p]]
  /\ UNCHANGED view /\ Quiet
WorkerStep(o) == Open(o) \/ Loop(o) \/ End(o) \/ Emit(o) \/ Prune(o)

(* ----------------------------- starting the rule -------------------------- *)
Starts(c, r) == start' = [start EXCEPT ![c] = r]
Goes(c, pc)  == Starts(c, [start[c] EXCEPT !.pc = pc])
Waits(c, o)  == Starts(c, [start[c] EXCEPT !.pc = "await", !.op = o])
\* An operation of its own is shown before the backend is asked.
Asks(c) ==
  LET fresh == {o \in Ops : view[o].st = "none" /\ ops[o].st = "none" /\ worker[o].pc = "none"}
      o == Min(fresh)
  IN /\ fresh # {}
     /\ view' = [view EXCEPT ![o] = [st |-> "starting", owners |-> {c} \cap Owners, auto |-> c \in Owners]]
     /\ Starts(c, [NoStart EXCEPT !.pc = "invoke", !.op = o])
StartRule(c) ==
  /\ start[c].pc \in {"idle", "again"} /\ UNCHANGED <<ops, worker, stop, main, closing>>
  /\ IF Shown({"stopping"}) # {} THEN Waits(c, Newest(Shown({"stopping"}))) /\ UNCHANGED view
     ELSE IF Shown(Active) # {} THEN view' = Attach(Newest(Shown(Active)), c) /\ Goes(c, "done")
     ELSE IF c \in Users THEN Goes(c, "prepare") /\ UNCHANGED view
     ELSE Asks(c)
Prepared(c) ==
  /\ start[c].pc = "prepare" /\ Asks(c) /\ UNCHANGED <<ops, worker, stop, main, closing>>
\* waitForPortForwardEnd: the forward ended in the view, or five seconds have passed.
Awaited(c) ==
  /\ start[c].pc = "await" /\ Goes(c, "again") /\ UNCHANGED <<ops, worker, view, stop, main, closing>>
\* start_port_forward: bind, register, emit, spawn.
Invoke(c) ==
  LET o == start[c].op IN
  /\ start[c].pc = "invoke" /\ main = Nobody /\ UNCHANGED <<stop, main, closing>>
  /\ IF Local /\ Holding # {} THEN UNCHANGED <<ops, worker, view>> /\ Starts(c, [start[c] EXCEPT !.pc = "reply", !.msg = "inUse"])
     ELSE IF ActiveOps # {} THEN UNCHANGED <<ops, worker, view>> /\ Starts(c, [start[c] EXCEPT !.pc = "reply", !.msg = "active"])
     ELSE /\ ops' = [ops EXCEPT ![o] = [st |-> "starting", cancel |-> FALSE]]
          /\ Works(o, "open", "none") /\ view' = Merged(o, "starting")
          /\ Starts(c, [start[c] EXCEPT !.pc = "reply", !.msg = "starting"])
\* mutant: what lost its owner while it was started is not stopped
KeepsOwnerless(o) == FALSE
LostItsOwner(o)   == view[o].auto /\ view[o].owners = {}
Reply(c) ==
  LET o == start[c].op IN
  /\ start[c].pc = "reply" /\ UNCHANGED <<ops, worker, main, closing>>
  /\ CASE start[c].msg = "starting" ->
            /\ view' = Merged(o, "starting") /\ Goes(c, "done")
            /\ IF LostItsOwner(o) THEN stop' = [stop EXCEPT ![c] = [NoStop EXCEPT !.pc = "invoke", !.ops = {o}]]
               ELSE UNCHANGED stop
       [] start[c].msg = "inUse" -> view' = Merged(o, "failed") /\ Goes(c, "done") /\ UNCHANGED stop
       [] OTHER -> view' = [view EXCEPT ![o] = NoView] /\ Goes(c, "hydrate") /\ UNCHANGED stop
\* Told that the rule is active, the store asks for the list and looks again.
List(c) ==
  /\ start[c].pc = "hydrate" /\ main = Nobody
  /\ Starts(c, [start[c] EXCEPT !.pc = "adopt", !.list = Listed])
  /\ UNCHANGED <<ops, worker, view, stop, main, closing>>
Adopt(c) ==
  LET seen  == MergedAll(start[c].list)
      up    == {o \in Ops : seen[o].st \in {"starting", "running"}}
      down  == {o \in Ops : seen[o].st = "stopping"}
  IN /\ start[c].pc = "adopt" /\ UNCHANGED <<ops, worker, stop, main, closing>>
     /\ IF up # {} THEN /\ view' = [seen EXCEPT ![Newest(up)].owners = @ \cup ({c} \cap Owners)]
                        /\ Goes(c, "done")
        ELSE /\ view' = seen
             /\ IF down # {} THEN Waits(c, Newest(down)) ELSE Goes(c, "done")
StartStep(c) ==
  Prepared(c) \/ Awaited(c) \/ Invoke(c) \/ Reply(c) \/ List(c) \/ Adopt(c)
    \/ (start[c].pc = "again" /\ StartRule(c))

(* --------------------------------- stopping ------------------------------- *)
\* stop_port_forward and stop_all_port_forwards: the flag and the status under the lock.
Cancelled(targets) ==
  [o \in Ops |-> IF o \in targets /\ ops[o].st # "none"
                   THEN [st |-> IF IsActive(o) THEN "stopping" ELSE ops[o].st, cancel |-> TRUE]
                   ELSE ops[o]]
Targets(s) == IF stop[s].ops = Ops THEN ActiveOps ELSE stop[s].ops \cap Known
Cancel(s) ==
  /\ stop[s].pc = "invoke" /\ main = Nobody /\ main' = s
  /\ ops' = Cancelled(Targets(s))
  /\ stop' = [stop EXCEPT ![s].pc = "emit",
       ![s].list = [o \in Ops |-> IF o \in Targets(s) THEN ops'[o].st ELSE "none"]]
  /\ UNCHANGED <<worker, view, start, closing>>
EmitStop(s) ==
  /\ stop[s].pc = "emit" /\ main' = Nobody
  /\ view' = MergedAll(stop[s].list) /\ stop' = [stop EXCEPT ![s].pc = "reply"]
  /\ UNCHANGED <<ops, worker, start, closing>>
ReplyStop(s) ==
  /\ stop[s].pc = "reply"
  /\ view' = MergedAll(stop[s].list) /\ stop' = [stop EXCEPT ![s] = [NoStop EXCEPT !.pc = "done"]]
  /\ UNCHANGED <<ops, worker, start, main, closing>>
StopStep(s) == Cancel(s) \/ EmitStop(s) \/ ReplyStop(s)

UserStop(s) ==
  /\ s \in Stoppers /\ stop[s].pc = "idle"
  /\ \E what \in {{o} : o \in Shown({"starting", "running"})} \cup {Ops} :
       stop' = [stop EXCEPT ![s] = [NoStop EXCEPT !.pc = "invoke", !.ops = what]]
  /\ UNCHANGED <<ops, worker, view, start, main, closing>>
\* stopOwner: the connection of an owner has ended.
StopOwner(c) ==
  LET owned == {o \in Ops : c \in view[o].owners}
      last  == {o \in owned : view[o].auto /\ view[o].owners = {c} /\ view[o].st \in Active}
  IN /\ c \in Owners \ closing /\ start[c].pc # "idle" /\ stop[c].pc = "idle"
     /\ closing' = closing \cup {c}
     /\ view' = [o \in Ops |-> [view[o] EXCEPT !.owners = @ \ {c}]]
     /\ stop' = IF last = {} THEN stop
                ELSE [stop EXCEPT ![c] = [NoStop EXCEPT !.pc = "invoke", !.ops = {Newest(last)}]]
     /\ UNCHANGED <<ops, worker, start, main>>

Begin(c) == start[c].pc = "idle" /\ c \notin closing /\ StartRule(c)

Next ==
  \/ \E o \in Ops : WorkerStep(o)
  \/ \E c \in Clients : Begin(c) \/ StartStep(c) \/ StopOwner(c)
  \/ \E s \in Stops : StopStep(s) \/ UserStop(s)
Spec == Init /\ [][Next]_vars
\* Threads and promises go on; the remote end answers or times out.
FairSpec ==
  /\ Spec
  /\ \A o \in Ops : WF_vars(WorkerStep(o))
  /\ \A c \in Clients : WF_vars(StartStep(c))
  /\ \A s \in Stops : WF_vars(StopStep(s))

(* -------------------------------- properties ------------------------------ *)
TypeOK ==
  /\ ops \in [Ops -> [st : Status \cup {"none"}, cancel : BOOLEAN]]
  /\ view \in [Ops -> [st : Status \cup {"none"}, owners : SUBSET Owners, auto : BOOLEAN]]
  /\ main \in Stops \cup {Nobody} /\ closing \subseteq Owners
  /\ \A o \in Ops : worker[o].pc \in {"none", "open", "ready", "loop", "tick", "end", "last", "prune", "done"}

\* A rule is forwarded by one worker at a time, and what forwards is listed as active:
\* neither a prune nor a late stop nor a second start hides it.
OneWorker == Cardinality(Holding) <= 1 /\ \A o \in Holding : IsActive(o)
\* A forward that has ended is never shown by the manager as anything else again.
KeepsFinal == \A o \in Ops : ops[o].st \in Final => ops'[o].st \in {ops[o].st, "none"}
FinalStays == [][KeepsFinal]_vars
\* A stop ends the forward, also one that comes while the connection is opened and
\* whose status the worker overwrites.
StopEnds == \A o \in Ops : ops[o].cancel ~> ~IsActive(o)
\* "deduplicates auto starts and stops after the last owner closes": a forward started
\* with connections that have all ended is not left running.
OwnerlessEnds ==
  \A o \in Ops : (view[o].auto /\ view[o].owners = {} /\ \A c \in Owners : start[c].pc \in {"idle", "done"})
                   ~> ~IsActive(o)
\* "waits for a stopping listener before starting the same rule again".
StartsAgain == \A c \in Clients : (start[c].pc = "await") ~> (start[c].pc = "done")
\* "Start when a terminal or SFTP session connects; stop after its last owning session
\* closes": with no manual stop a forward that has an owner is not being stopped.
KeptForOwner == Stoppers = {} => \A o \in Ops : view[o].owners # {} => ~ops[o].cancel
=============================================================================
