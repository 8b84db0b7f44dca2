------------------------------ MODULE TerminalLease ------------------------------
(***************************************************************************)
(* One SSH terminal that a user and several agents type into:              *)
(*   native/terminal_lease.rs    turn guards, command leases, takeover     *)
(*   native/terminal_execute.rs  the visible execution of one command      *)
(*   terminal_broker.rs          input admission and the shell's lifecycle *)
(*                               events                                    *)
(*                                                                         *)
(* Typed commands are sent in two chunks and an Enter; native ones are     *)
(* sent as a frame the shell's editor acknowledges, after a probe that the *)
(* editor is empty, and then accepted.  The shell is external: bytes reach *)
(* it in order, its events reach the broker later and in order.  An        *)
(* operation is the n-th command of an agent.                              *)
(***************************************************************************)
EXTENDS Naturals, Sequences, FiniteSets

CONSTANTS Agents, Ancestors,   \* Ancestors[a]: the agents a was delegated by
          User, NoOne,
          Kinds,               \* subset of {"typed", "native"}
          MaxOps,              \* commands per agent
          UserMoves, Stops,    \* what the user types; cancellations and takeovers
          MaxEvents,           \* events of the shell under way
          CanRollBack          \* is the feature switched off while in use?

TerminalAssumption ==
  /\ {User, NoOne} \cap Agents = {} /\ User # NoOne
  /\ Ancestors \in [Agents -> SUBSET Agents] /\ \A a \in Agents : a \notin Ancestors[a]
  /\ Kinds \subseteq {"typed", "native"} /\ CanRollBack \in BOOLEAN
  /\ {MaxOps, UserMoves, Stops, MaxEvents} \subseteq Nat

VARIABLES
  turn,       \* agents in a turn
  takenOver,  \* agents the user took this terminal from, in this turn
  fenced,     \* history: who shared the guard of an operation taken over, in this turn
  guard,      \* the turn guard: owner and delegates
  lease,      \* the command lease of the manager, an operation or None
  ready,      \* what the terminal's view answered about the lease
  owner,      \* the lease as the broker knows it, None for the user
  broker,     \* the broker's record of the terminal
  reg,        \* the operation registered with the executor
  n, pc, kind, \* each agent's operation: number, progress, how it is sent
  cmd,        \* each agent's command as the broker observes it
  stop,       \* a cancellation or takeover under way
  closer,     \* the roll-back: its progress and the operation it read
  shell,      \* the shell: its edit line, what it runs, events on their way.  History, hasty: did
              \* the view admit an operation, or one give up, while events were on their way?
  moves, stops, \* how often the user has acted
  stray       \* has a control key of an operation hit somebody else's input?

manager  == <<turn, takenOver, fenced, guard>>
executor == <<reg, n, pc, kind, stop, closer, stops>>
outside  == <<moves>>
vars == <<turn, takenOver, fenced, guard, lease, ready, owner, broker, reg, n, pc, kind, cmd, stop,
          closer, shell, moves, stops, stray>>

Op(a)   == [agent |-> a, n |-> n[a]]
None    == [agent |-> NoOne, n |-> 0]
Ops     == {None} \cup [agent : Agents, n : 1 .. MaxOps]
NoGuard == [owner |-> NoOne, delegates |-> {}]
Settled == {"completed", "cancelled", "timedOut", "takenOver", "uncertain", "failed"}
States  == {"submitted", "running", "cancelRequested"} \cup Settled
Idle    == [what |-> "none", op |-> None, phase |-> "picked"]
FreshCmd == [state |-> "submitted", asked |-> "none", sent |-> FALSE, entered |-> FALSE,
             started |-> FALSE, source |-> FALSE, empty |-> FALSE, acked |-> FALSE]

TypeOK ==
  /\ {turn, takenOver, fenced} \in SUBSET SUBSET Agents
  /\ guard \in [owner : Agents \cup {NoOne}, delegates : SUBSET Agents]
  /\ {lease, owner, reg} \in SUBSET Ops /\ ready \in {"pending", "ready", "rejected"}
  /\ broker \in [active : Ops, prompt : BOOLEAN, dirty : BOOLEAN, recovery : BOOLEAN,
                 clearing : Ops, integrated : BOOLEAN, rollout : BOOLEAN]
  /\ n \in [Agents -> 0 .. MaxOps] /\ kind \in [Agents -> {"typed", "native"}]
  /\ pc \in [Agents -> {"idle", "ready?", "begin", "register", "type", "type2", "enter", "probe",
                        "probed", "frame", "framed", "fail", "clear", "wait", "finish", "release"}]
  /\ \A a \in Agents : cmd[a].state \in States
  /\ stop.op \in Ops /\ closer.op \in Ops /\ {stray} \subseteq BOOLEAN
  /\ \A i \in DOMAIN shell.line : shell.line[i] \in Ops \cup {[agent |-> User, n |-> 0]}

Init ==
  /\ turn = {} /\ takenOver = {} /\ fenced = {} /\ guard = NoGuard
  /\ lease = None /\ ready = "pending" /\ owner = None
  /\ broker = [active |-> None, prompt |-> TRUE, dirty |-> FALSE, recovery |-> FALSE,
               clearing |-> None, integrated |-> TRUE, rollout |-> TRUE]
  /\ reg = None /\ n = [a \in Agents |-> 0] /\ pc = [a \in Agents |-> "idle"]
  /\ kind \in [Agents -> Kinds] /\ cmd = [a \in Agents |-> FreshCmd]
  /\ stop = Idle /\ closer = [phase |-> "none", op |-> None]
  /\ shell = [line |-> <<>>, run |-> <<>>, events |-> <<>>, unverified |-> FALSE,
              hasty |-> FALSE]
  /\ moves = 0 /\ stops = 0 /\ stray = FALSE

-----------------------------------------------------------------------------
(* Turn guards.  A turn that begins drops what an earlier one left; a turn   *)
(* that is not admitted goes on without the terminal.                        *)

Admits(g, a) == a = g.owner \/ a \in g.delegates
Without(a)   == IF guard.owner = a THEN NoGuard ELSE [guard EXCEPT !.delegates = @ \ {a}]

BeginTurn(a) ==
  LET renewed == guard.owner = a
      left    == IF renewed THEN takenOver ELSE takenOver \ {a}
      old     == IF renewed THEN guard ELSE Without(a)
      refused == left \cap ({a} \cup Ancestors[a]) # {} \/ ~broker.rollout
  IN  /\ a \notin turn /\ turn' = turn \cup {a} /\ takenOver' = left /\ UNCHANGED fenced
      /\ guard' = IF refused \/ Admits(old, a) THEN old
                  ELSE IF old.owner \in Ancestors[a] THEN [old EXCEPT !.delegates = @ \cup {a}]
                  ELSE IF old = NoGuard /\ lease.agent \in {NoOne, a}
                       THEN [owner |-> a, delegates |-> {}] ELSE old
      /\ UNCHANGED <<lease, ready, owner, broker, executor, cmd, shell, outside, stray>>

ReleaseTurn(a) == takenOver' = takenOver \ {a} /\ guard' = Without(a)

EndTurn(a) ==
  /\ a \in turn /\ pc[a] = "idle" /\ turn' = turn \ {a} /\ ReleaseTurn(a)
  /\ fenced' = fenced \ {a}
  /\ UNCHANGED <<lease, ready, owner, broker, executor, cmd, shell, outside, stray>>

-----------------------------------------------------------------------------
(* What reaches the shell, and what it answers.                              *)

UserMark == [agent |-> User, n |-> 0]
Emit(s, e) == [s EXCEPT !.events = Append(@, e)]
Event(what, op, ok) == [what |-> what, op |-> op, ok |-> ok]
Typed(op) == [shell EXCEPT !.line = Append(@, op)]
Unheard == [shell EXCEPT !.hasty = @ \/ shell.events # <<>>]

(* Enter runs the line.  The event carries the exact line: here whose it is, *)
(* and whether it is one whole command.                                      *)
Whole(line) == Len(line) = 2 /\ line[1] = line[2]
Entered ==
  IF shell.run # <<>> THEN [shell EXCEPT !.line = <<>>]
  ELSE IF shell.line = <<>> THEN Emit(shell, Event("prompt", None, TRUE))
  ELSE Emit([shell EXCEPT !.run = shell.line, !.line = <<>>],
            Event("start", shell.line[1], Whole(shell.line)))

Interrupted ==
  IF shell.run = <<>> THEN Emit([shell EXCEPT !.line = <<>>], Event("prompt", None, TRUE))
  ELSE Emit([shell EXCEPT !.run = <<>>, !.line = <<>>], Event("end", None, TRUE))

Cleared(op) == Emit([shell EXCEPT !.line = <<>>], Event("cleared", op, TRUE))

Foreign(op) == \E i \in 1 .. Len(shell.line \o shell.run) : (shell.line \o shell.run)[i] # op

(* Admission, under the manager's and the broker's locks.                    *)
AgentInput(op) ==
  /\ lease = op /\ owner = op /\ broker.rollout /\ broker.integrated /\ ~broker.recovery
  /\ broker.dirty => broker.active # None /\ cmd[broker.active.agent].state = "submitted"

UserInput == guard = NoGuard /\ lease = None /\ owner = None

SystemInput(op) == lease = op /\ owner = op /\ broker.rollout /\ broker.integrated

Pending == broker.dirty \/ (broker.active # None /\ cmd[broker.active.agent].state = "submitted")

UserTypes ==
  /\ moves < UserMoves /\ moves' = moves + 1
  /\ \/ UserInput /\ ~broker.dirty /\ ~broker.recovery /\ Len(shell.line) < 2
        /\ shell' = Typed(UserMark) /\ UNCHANGED broker
     \/ UserInput /\ ~broker.dirty /\ ~broker.recovery /\ Len(shell.events) < MaxEvents
        /\ shell' = [Entered EXCEPT !.unverified = TRUE]
        /\ broker' = [broker EXCEPT !.prompt = FALSE]
     \/ UserInput /\ Len(shell.events) < MaxEvents
        /\ shell' = Interrupted /\ UNCHANGED broker
  /\ UNCHANGED <<manager, lease, ready, owner, executor, cmd, stray>>

CommandEnds ==
  /\ shell.run # <<>> /\ shell' = Emit([shell EXCEPT !.run = <<>>], Event("end", None, TRUE))
  /\ UNCHANGED <<manager, lease, ready, owner, broker, executor, cmd, outside, stray>>

-----------------------------------------------------------------------------
(* Lifecycle events at the broker.  Degrading the integration makes the      *)
(* observed command uncertain.                                               *)

Settle(c, state) == IF c.state \in Settled THEN c ELSE [c EXCEPT !.state = state]
Observed == broker.active.agent
Degraded == [broker EXCEPT !.integrated = FALSE, !.prompt = FALSE]

PromptSeen ==
  IF /\ broker.active # None /\ cmd[Observed].state = "submitted"
     /\ broker.dirty \/ cmd[Observed].source
    THEN /\ broker' = [Degraded EXCEPT !.recovery = TRUE, !.dirty = TRUE]
         /\ cmd' = [cmd EXCEPT ![Observed].state = "uncertain"]
    ELSE /\ broker' = [broker EXCEPT !.prompt = TRUE,
                                     !.dirty = broker.recovery \/ broker.clearing # None]
         /\ UNCHANGED cmd

StartSeen(e) ==
  IF broker.active = None THEN broker' = [broker EXCEPT !.prompt = FALSE] /\ UNCHANGED cmd
  ELSE IF cmd[Observed].state \in {"submitted", "cancelRequested"} /\ e.op = broker.active /\ e.ok
    THEN /\ broker' = [broker EXCEPT !.prompt = FALSE, !.dirty = FALSE]
         /\ cmd' = [cmd EXCEPT ![Observed].started = TRUE,
                               ![Observed].state = IF @ = "submitted" THEN "running" ELSE @]
    ELSE /\ broker' = Degraded
         /\ cmd' = [cmd EXCEPT ![Observed] = Settle(@, "uncertain")]

EndSeen ==
  /\ broker' = [broker EXCEPT !.prompt = FALSE]
  /\ cmd' = IF broker.active # None /\ cmd[Observed].state \in {"running", "cancelRequested"}
              THEN [cmd EXCEPT ![Observed].state =
                      IF cmd[Observed].asked = "none" THEN "completed" ELSE cmd[Observed].asked]
              ELSE cmd

(* The answers of the native editor count for the operation they name.       *)
AnswerSeen(e) ==
  IF broker.active # e.op \/ cmd[e.op.agent].state # "submitted" THEN UNCHANGED <<broker, cmd>>
  ELSE IF e.what = "acked" THEN cmd' = [cmd EXCEPT ![e.op.agent].acked = TRUE] /\ UNCHANGED broker
  ELSE IF e.ok THEN cmd' = [cmd EXCEPT ![e.op.agent].empty = TRUE] /\ UNCHANGED broker
  ELSE /\ cmd' = [cmd EXCEPT ![e.op.agent].state = "failed"]
       /\ broker' = [broker EXCEPT !.prompt = TRUE, !.dirty = FALSE]

ClearSeen(e) ==
  /\ UNCHANGED cmd
  /\ broker' = IF broker.clearing # e.op THEN broker
               ELSE [broker EXCEPT !.clearing = None, !.prompt = TRUE, !.dirty = broker.recovery]

Deliver ==
  LET e == Head(shell.events)
  IN  /\ shell.events # <<>>
      /\ shell' = [shell EXCEPT !.unverified = FALSE, !.events =
                     IF e.what = "end" THEN <<Event("prompt", None, TRUE)>> \o Tail(@) ELSE Tail(@)]
      /\ IF ~broker.integrated THEN UNCHANGED <<broker, cmd>>
         ELSE CASE e.what = "prompt" -> PromptSeen
                [] e.what = "start" -> StartSeen(e)
                [] e.what = "end" -> EndSeen
                [] e.what \in {"probed", "acked"} -> AnswerSeen(e)
                [] e.what = "cleared" -> ClearSeen(e)
      /\ UNCHANGED <<manager, lease, ready, owner, executor, outside, stray>>

-----------------------------------------------------------------------------
(* Leases.  The lease of the manager and that of the broker change together. *)

Allowed(a) == a \notin takenOver

(* The broker lets an agent in where the shell waits for a command.          *)
AtPrompt ==
  /\ broker.rollout /\ broker.integrated /\ broker.prompt
  /\ broker.active = None /\ broker.clearing = None /\ ~broker.recovery

Acquire(a) ==
  /\ pc[a] = "idle" /\ a \in turn /\ n[a] < MaxOps
  /\ Allowed(a) /\ (guard = NoGuard \/ Admits(guard, a)) /\ lease = None
  /\ owner = None /\ AtPrompt
  /\ n' = [n EXCEPT ![a] = @ + 1] /\ pc' = [pc EXCEPT ![a] = "ready?"]
  /\ lease' = [agent |-> a, n |-> n[a] + 1] /\ owner' = lease' /\ ready' = "pending"
  /\ guard' = IF guard = NoGuard THEN [owner |-> a, delegates |-> {}] ELSE guard
  /\ UNCHANGED <<turn, takenOver, fenced, broker, reg, kind, cmd, stop, closer, shell, outside, stops,
                 stray>>

(* The terminal's view refuses a terminal in which the user has typed or     *)
(* whose answer to the user's last line it has not seen, and may refuse for  *)
(* reasons of its own.  Events of earlier keys may still be under way.       *)
UsersInput == UserMark \in {shell.line[i] : i \in DOMAIN shell.line} \/ shell.unverified

Acknowledge ==
  /\ lease # None /\ ready = "pending"
  /\ ready' \in {"rejected"} \cup IF UsersInput THEN {} ELSE {"ready"}
  /\ shell' = IF ready' = "ready" THEN Unheard ELSE shell
  /\ UNCHANGED <<manager, lease, owner, broker, executor, cmd, outside, stray>>

Release(op) ==
  IF lease = op THEN lease' = None /\ owner' = None ELSE UNCHANGED <<lease, owner>>

Goes(a, place) == pc' = [pc EXCEPT ![a] = place]
Rest(a) == UNCHANGED <<manager, ready, reg, n, kind, stop, closer, moves, stops>>

(* No answer in time counts as a refusal.                                    *)
WaitReady(a) ==
  /\ pc[a] = "ready?" /\ Rest(a) /\ UNCHANGED <<broker, cmd, shell, stray>>
  /\ IF lease = Op(a) /\ ready = "ready" THEN Goes(a, "begin") /\ UNCHANGED <<lease, owner>>
     ELSE Goes(a, "idle") /\ Release(Op(a))

Begin(a) ==
  /\ pc[a] = "begin" /\ Rest(a) /\ UNCHANGED <<shell, stray>>
  /\ \/ /\ Goes(a, "idle") /\ Release(Op(a)) /\ UNCHANGED <<broker, cmd>>
     \/ /\ owner = Op(a) /\ AtPrompt
        /\ broker' = [broker EXCEPT !.active = Op(a), !.prompt = FALSE]
        /\ cmd' = [cmd EXCEPT ![a] = FreshCmd] /\ Goes(a, "register")
        /\ UNCHANGED <<lease, owner>>

Retired(op, c) ==
  IF broker.active # op THEN broker
  ELSE [broker EXCEPT !.active = None,
                      !.prompt = IF ~c.started /\ ~broker.dirty THEN broker.integrated ELSE @]

MarkedUncertain(op) ==
  IF broker.active = op THEN Settle(cmd[op.agent], "uncertain") ELSE cmd[op.agent]

Register(a) ==
  /\ pc[a] = "register" /\ UNCHANGED <<turn, takenOver, fenced, guard, ready, n, kind, stop, closer,
                                       shell, moves, stops, stray>>
  /\ IF reg # None
       THEN /\ cmd' = [cmd EXCEPT ![a] = MarkedUncertain(Op(a))]
            /\ broker' = Retired(Op(a), cmd[a]) /\ Release(Op(a)) /\ Goes(a, "idle")
            /\ UNCHANGED reg
       ELSE /\ reg' = Op(a) /\ UNCHANGED <<broker, lease, owner>>
            /\ \/ /\ Goes(a, IF kind[a] = "typed" THEN "type" ELSE "probe") /\ UNCHANGED cmd
               \/ /\ Goes(a, "finish")
                  /\ cmd' = [cmd EXCEPT ![a] = MarkedUncertain(Op(a))]

(* Removing the registration, then retiring the command and releasing the    *)
(* lease; the registration may be another's by now.                          *)
Finish(a) ==
  /\ pc[a] = "finish"
  /\ IF reg = Op(a) THEN reg' = None /\ Goes(a, "release") ELSE UNCHANGED reg /\ Goes(a, "idle")
  /\ UNCHANGED <<manager, lease, ready, owner, broker, n, kind, cmd, stop, closer, shell, outside,
                 stops, stray>>

FinishRelease(a) ==
  /\ pc[a] = "release" /\ Rest(a) /\ UNCHANGED <<cmd, shell, stray>>
  /\ broker' = Retired(Op(a), cmd[a]) /\ Release(Op(a)) /\ Goes(a, "idle")

-----------------------------------------------------------------------------
(* Sending the command.  Each step holds the command's gate, which a         *)
(* cancellation or takeover keeps until it is done.                          *)

GateOpen(a)  == ~(stop.phase \in {"clearing", "releasing"} /\ stop.op = Op(a))
Sending(a, at) == /\ pc[a] = at /\ Rest(a) /\ UNCHANGED <<lease, owner, stray>>
Interrupts(a) == Goes(a, IF cmd[a].state \in {"cancelled", "takenOver"} THEN "wait" ELSE "fail")

StillSubmitted(a) == cmd[a].state = "submitted"

Send(a, at, next, bytes, command) ==
  /\ Sending(a, at) /\ GateOpen(a) /\ Len(bytes.events) <= MaxEvents
  /\ \/ /\ StillSubmitted(a) /\ AgentInput(Op(a))
        /\ shell' = bytes /\ cmd' = [cmd EXCEPT ![a] = command]
        /\ broker' = [broker EXCEPT !.dirty = IF at = "probe" THEN @ ELSE Pending]
        /\ Goes(a, next)
     \/ /\ StillSubmitted(a) /\ Goes(a, "fail")  \* refused, or a check fails
        /\ UNCHANGED <<shell, cmd, broker>>
     \/ ~StillSubmitted(a) /\ Interrupts(a) /\ UNCHANGED <<shell, cmd, broker>>

Type(a)  == LET c == [cmd[a] EXCEPT !.source = TRUE]
            IN  \/ Send(a, "type", "type2", Typed(Op(a)), c)
                \/ Send(a, "type2", "enter", Typed(Op(a)), c)
Enter(a) == Send(a, "enter", "wait", Entered, [cmd[a] EXCEPT !.entered = TRUE, !.source = TRUE])
Probe(a) == Send(a, "probe", "probed",
                 IF shell.run = <<>> THEN Emit(shell, Event("probed", Op(a), shell.line = <<>>))
                 ELSE shell, cmd[a])
Frame(a) == Send(a, "frame", "framed",
                 LET whole == [shell EXCEPT !.line = @ \o <<Op(a), Op(a)>>]
                 IN  IF shell.run = <<>> THEN Emit(whole, Event("acked", Op(a), TRUE)) ELSE whole,
                 [cmd[a] EXCEPT !.source = TRUE])

Probed(a) ==
  /\ Sending(a, "probed") /\ GateOpen(a) /\ UNCHANGED <<broker, cmd, shell>>
  /\ \/ cmd[a].state \in {"cancelled", "takenOver"} /\ Goes(a, "wait")
     \/ cmd[a].state \notin {"cancelled", "takenOver"} /\ cmd[a].empty /\ Goes(a, "frame")
     \/ cmd[a].state \notin {"cancelled", "takenOver"} /\ Goes(a, "fail")

NeedsRecovery(op) ==
  IF owner = op THEN [broker EXCEPT !.recovery = TRUE, !.dirty = TRUE] ELSE broker

Framed(a) ==
  /\ Sending(a, "framed") /\ UNCHANGED <<cmd, shell>>
  /\ \/ cmd[a].acked /\ Goes(a, "enter") /\ UNCHANGED broker
     \/ /\ GateOpen(a) /\ ~cmd[a].acked
        /\ IF cmd[a].state \in {"cancelled", "takenOver"} THEN Goes(a, "wait") /\ UNCHANGED broker
           ELSE broker' = NeedsRecovery(Op(a)) /\ Goes(a, "fail")

(* A command that could not be sent is retired, and its bytes are discarded  *)
(* if the terminal is still its own: by Ctrl-C, or by clearing the native    *)
(* editor, which the shell confirms.  A line the probe found not to be empty *)
(* is the user's.  A program may ignore the key.                             *)
ControlKey(op, bytes) ==
  IF SystemInput(op)
    THEN /\ shell' \in {bytes} \cup IF shell.run = <<>> THEN {} ELSE {shell}
         /\ stray' = (stray \/ Foreign(op))
  ELSE UNCHANGED <<shell, stray>>

CanClear(op, after) == SystemInput(op) /\ after.clearing = None

Discards(op, after) ==
  IF kind[op.agent] = "native" /\ CanClear(op, after)
    THEN /\ broker' = [after EXCEPT !.clearing = op, !.dirty = TRUE, !.prompt = FALSE]
         /\ ControlKey(op, IF shell.run = <<>> THEN Cleared(op) ELSE shell)
    ELSE /\ broker' = IF kind[op.agent] = "native" THEN NeedsRecovery(op) ELSE after
         /\ ControlKey(op, IF kind[op.agent] = "native" THEN shell ELSE Interrupted)

Fail(a) ==
  LET op    == Op(a)
      after == Retired(op, cmd[a])
      draft == kind[a] = "native" /\ ~cmd[a].empty
      again == cmd[a].state \in {"cancelled", "takenOver", "timedOut"}
  IN  /\ pc[a] = "fail" /\ GateOpen(a) /\ Rest(a) /\ UNCHANGED <<lease, owner>>
      /\ cmd' = [cmd EXCEPT ![a] = MarkedUncertain(op)]
      /\ IF lease = op /\ ~again /\ ~draft
           THEN /\ Discards(op, after)
                /\ Goes(a, IF broker'.clearing = op THEN "clear" ELSE "finish")
           ELSE broker' = after /\ Goes(a, "finish") /\ UNCHANGED <<shell, stray>>

ClearWait(a) ==
  /\ pc[a] = "clear" /\ Rest(a) /\ UNCHANGED <<lease, owner, cmd, shell, stray>>
  /\ Goes(a, "finish")
  /\ \/ broker.clearing # Op(a) /\ UNCHANGED broker
     \/ broker' = NeedsRecovery(Op(a))

-----------------------------------------------------------------------------
(* Waiting for the end of a command.  One that overstays is interrupted, and *)
(* one that does not end on an interrupt is uncertain.                       *)

Asks(c, state) ==
  IF c.state \in Settled THEN c
  ELSE [c EXCEPT !.asked = IF @ = "none" THEN state ELSE @, !.state = "cancelRequested",
                 !.sent = TRUE]
Sends(c) == c.state \notin Settled /\ ~c.sent

Overdue(a) == cmd[a].state = "cancelRequested"

Wait(a) ==
  /\ pc[a] = "wait" /\ Rest(a) /\ UNCHANGED <<lease, owner, broker>>
  /\ \/ cmd[a].state \in Settled /\ Goes(a, "finish") /\ UNCHANGED <<cmd, shell, stray>>
     \/ /\ cmd[a].state \in {"submitted", "running"} /\ Len(shell.events) < MaxEvents
        /\ cmd' = [cmd EXCEPT ![a] = Asks(@, "timedOut")]
        /\ ControlKey(Op(a), Interrupted) /\ UNCHANGED pc
     \/ /\ Overdue(a) /\ Goes(a, "finish") /\ shell' = Unheard
        /\ cmd' = [cmd EXCEPT ![a] = MarkedUncertain(Op(a))] /\ UNCHANGED stray

-----------------------------------------------------------------------------
(* Cancellation and takeover of the registered command.                      *)

PickStop(what) ==
  /\ stop = Idle /\ stops < Stops /\ reg # None /\ (what = "takeover" => lease = reg)
  /\ stop' = [what |-> what, op |-> reg, phase |-> "picked"] /\ stops' = stops + 1
  /\ UNCHANGED <<manager, lease, ready, owner, broker, reg, n, pc, kind, cmd, closer, shell,
                 outside, stray>>

Stays == UNCHANGED <<turn, ready, reg, n, pc, kind, closer, moves, stops>>

(* Under the gate: a command that was not entered is settled and retired     *)
(* before its bytes are discarded.                                           *)
StopSettle ==
  LET op      == stop.op
      c       == cmd[op.agent]
      asked   == Asks(c, IF stop.what = "takeover" THEN "takenOver" ELSE "cancelled")
      settled == IF c.entered \/ c.state \in Settled THEN asked
                 ELSE [asked EXCEPT !.state = asked.asked]
      after   == IF c.entered THEN broker ELSE Retired(op, c)
      lost    == ~c.entered /\ broker.active \notin {op, None}
      draft   == kind[op.agent] = "native" /\ ~c.entered /\ ~c.empty
      next    == IF stop.what = "takeover" THEN [stop EXCEPT !.phase = "releasing"] ELSE Idle
  IN  /\ stop.phase = "picked" /\ stop # Idle /\ pc[op.agent] # "clear" /\ Stays
      /\ UNCHANGED <<takenOver, fenced, guard, lease, owner>> /\ Len(shell.events) < MaxEvents
      /\ IF op # Op(op.agent) \/ lost
           THEN stop' = Idle /\ UNCHANGED <<broker, cmd, shell, stray>>
           ELSE /\ cmd' = [cmd EXCEPT ![op.agent] = settled]
                /\ IF Sends(c) /\ ~draft
                     THEN IF c.entered
                            THEN /\ ControlKey(op, Interrupted) /\ stop' = next
                                 /\ broker' = IF SystemInput(op) THEN after ELSE NeedsRecovery(op)
                            ELSE /\ Discards(op, after)
                                 /\ stop' = IF broker'.clearing = op
                                              THEN [stop EXCEPT !.phase = "clearing"] ELSE next
                     ELSE broker' = after /\ stop' = next /\ UNCHANGED <<shell, stray>>

StopCleared ==
  /\ stop.phase = "clearing" /\ Stays
  /\ UNCHANGED <<takenOver, fenced, guard, lease, owner, cmd, shell, stray>>
  /\ stop' = IF stop.what = "takeover" THEN [stop EXCEPT !.phase = "releasing"] ELSE Idle
  /\ \/ broker.clearing # stop.op /\ UNCHANGED broker
     \/ broker' = NeedsRecovery(stop.op)

(* The user gets the terminal back from everybody who shared the guard.      *)
Deprived(a) == {a} \cup IF Admits(guard, a) THEN {guard.owner} \cup guard.delegates ELSE {}

TakeOver ==
  LET op == stop.op
  IN  /\ stop.phase = "releasing" /\ Stays /\ stop' = Idle
      /\ UNCHANGED <<broker, cmd, shell, stray>>
      /\ IF lease = op
           THEN /\ Release(op) /\ takenOver' = takenOver \cup Deprived(op.agent)
                /\ fenced' = fenced \cup {a \in Agents :
                     \/ a = op.agent
                     \/ Admits(guard, op.agent) /\ Admits(guard, a)}
                /\ guard' = IF Admits(guard, op.agent) THEN NoGuard ELSE guard
           ELSE UNCHANGED <<lease, owner, takenOver, fenced, guard>>

-----------------------------------------------------------------------------
(* Switching the feature off ends the registered command as uncertain, then  *)
(* removes the guard, then the lease.                                        *)

RollBack ==
  /\ UNCHANGED <<turn, takenOver, fenced, ready, n, pc, kind, stop, shell, moves, stops, stray>>
  /\ \/ /\ CanRollBack /\ closer.phase = "none"
        /\ broker' = [broker EXCEPT !.rollout = FALSE]
        /\ closer' = [phase |-> IF reg = None THEN "guard" ELSE "unregister", op |-> reg]
        /\ cmd' = IF reg = None THEN cmd ELSE [cmd EXCEPT ![reg.agent] = Settle(@, "uncertain")]
        /\ UNCHANGED <<guard, lease, owner, reg>>
     \/ /\ closer.phase = "unregister" /\ UNCHANGED <<guard, lease, owner, broker, cmd>>
        /\ reg' = IF reg = closer.op THEN None ELSE reg
        /\ closer' = [closer EXCEPT !.phase = IF reg = closer.op THEN "retire" ELSE "guard"]
     \/ /\ closer.phase = "retire" /\ closer' = [closer EXCEPT !.phase = "guard"]
        /\ broker' = Retired(closer.op, cmd[closer.op.agent]) /\ Release(closer.op)
        /\ UNCHANGED <<guard, reg, cmd>>
     \/ /\ closer.phase = "guard" /\ guard' = NoGuard
        /\ closer' = [closer EXCEPT !.phase = "lease"]
        /\ UNCHANGED <<lease, owner, reg, broker, cmd>>
     \/ /\ closer.phase = "lease" /\ closer' = [closer EXCEPT !.phase = "done"]
        /\ lease' = None /\ owner' = IF owner = lease THEN None ELSE owner
        /\ UNCHANGED <<guard, reg, broker, cmd>>

-----------------------------------------------------------------------------
SendStep(a) == Type(a) \/ Enter(a) \/ Probe(a) \/ Probed(a) \/ Frame(a) \/ Framed(a)
Executes(a) == \/ WaitReady(a) \/ Begin(a) \/ Register(a) \/ SendStep(a) \/ Fail(a)
               \/ ClearWait(a) \/ Wait(a) \/ Finish(a) \/ FinishRelease(a)
Stopping == StopSettle \/ StopCleared \/ TakeOver

Next ==
  \/ \E a \in Agents : BeginTurn(a) \/ EndTurn(a) \/ Acquire(a) \/ Executes(a)
  \/ UserTypes \/ CommandEnds \/ Deliver \/ Acknowledge
  \/ (\E what \in {"cancel", "takeover"} : PickStop(what)) \/ Stopping \/ RollBack

Spec == Init /\ [][Next]_vars

(* Waits are bounded by deadlines, and the shell's events arrive.            *)
FairSpec == /\ Spec /\ WF_vars(Deliver) /\ WF_vars(Stopping)
            /\ \A a \in Agents : WF_vars(Executes(a))

-----------------------------------------------------------------------------
(* Properties.                                                               *)

(* The next three hold as long as the view's answers, and the deadlines of   *)
(* commands, come after the events of earlier keys.  The code does not make  *)
(* sure of that: a prompt that arrives late lifts the guard of a command the *)
(* roll-back has ended half-way (terminal_broker.rs:2671), or lets an        *)
(* operation in while a command runs that was given up or is the user's.     *)

(* What the shell runs is one author's line, and an agent's line is its      *)
(* whole command: no interruption, takeover or roll-back lets a user's Enter *)
(* run half of a command, or lets two commands run together                  *)
(* (terminal_broker.rs:3570-3572).                                           *)
OneAuthor ==
  shell.run # <<>> /\ ~shell.hasty =>
    /\ \A i \in DOMAIN shell.run : shell.run[i] = shell.run[1]
    /\ shell.run[1] # UserMark => Whole(shell.run)

(* No control key of an operation interrupts or clears anything but its own  *)
(* command: neither a draft of the user nor the command of another agent.    *)
OwnInterrupts == stray => shell.hasty

(* Bytes of an agent in the edit line are behind the recovery guard, which   *)
(* outlives its lease.                                                       *)
DirtyIsGuarded ==
  \A i \in DOMAIN shell.line : shell.line[i] # UserMark =>
    broker.dirty \/ broker.recovery \/ lease # None \/ shell.hasty

(* A turn guard belongs to an agent in a turn, and a lease to an operation   *)
(* in progress: the user is not locked out of a terminal nobody uses.        *)
NobodyLockedOut ==
  /\ guard.owner # NoOne => guard.owner \in turn
  /\ lease # None => \/ lease = Op(lease.agent) /\ pc[lease.agent] # "idle"
                     \/ closer.phase \in {"retire", "guard", "lease"}
  /\ owner = lease

(* "Takeover restores user ownership and fences every later Agent input for  *)
(* the turn" (terminal-execution-compatibility.md:137-138), of every agent   *)
(* that shared the guard.                                                    *)
FencesHold     == \A a \in Agents : lease.agent # a /\ lease'.agent = a => a \notin fenced
TakeoverFences == [][FencesHold]_vars

(* The same for the agents delegated by one of them.                         *)
TakeoverFencesFamily ==
  [][\A a \in Agents : lease.agent # a /\ lease'.agent = a
       => ({a} \cup Ancestors[a]) \cap fenced = {}]_vars

(* Every operation ends and gives the terminal back.                         *)
OperationsEnd == \A a \in Agents : pc[a] # "idle" ~> pc[a] = "idle"
================================================================================
