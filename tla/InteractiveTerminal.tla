--------------------------- MODULE InteractiveTerminal ---------------------------
(***************************************************************************)
(* Input of Agents to the program in the foreground of a terminal:         *)
(*   native/terminal_interactive.rs  the registered operation of a terminal *)
(*   native/runtime.rs               revalidation, takeover, turn release  *)
(*   agent_runtime/runtime.rs        what the start and end of a turn do   *)
(*                                                                         *)
(* An operation is a lease that outlives the call that took it: the next   *)
(* calls of its Agent use it until the turn ends, the Agent asks for the   *)
(* prompt, the user takes the terminal over, stops the Agent or closes the *)
(* terminal.  The registry, the tombstones of takeovers and the lease      *)
(* manager have locks of their own, so all of these interleave.            *)
(* Each Agent has a task of its own, so tombstones name Agents only.  The  *)
(* lease manager and the broker keep the same owner (module TerminalLease) *)
(* and are one variable here.  Bytes, screens and waits are left out.      *)
(***************************************************************************)
EXTENDS Naturals, FiniteSets

CONSTANTS Agents, Ancestors,  \* Ancestors[a]: the Agents a was delegated by
          NoOne,
          MaxOps, MaxTurns,   \* operations and turns of an Agent
          MaxTakeovers,
          CanClose            \* may the terminal close, or the feature be switched off?

InteractiveAssumption ==
  /\ Ancestors \in [Agents -> SUBSET Agents] /\ \A a \in Agents : a \notin Ancestors[a]
  /\ NoOne \notin Agents /\ CanClose \in BOOLEAN
  /\ {MaxOps, MaxTurns, MaxTakeovers} \subseteq Nat

VARIABLES
  turn,       \* of each Agent: "off", "starting", "on" or "ending"
  cancelled,  \* of each Agent: "no", "asked", or "swept" once cancel_task has returned
  call,       \* of each Agent: where its write_terminal_input is, and with which operation
  lease, ready, \* the lease of the terminal and what its view answered
  guard,      \* the turn guard
  fenced,     \* Agents the lease manager refuses for the rest of their turn
  active,     \* the operation registered for the terminal
  tomb,       \* Agents whose operation was taken over (the registry's tombstones)
  sweep,      \* the releases under way: an Agent's turn boundary, or a stop of it
  taker,      \* a takeover under way
  closer,     \* the end of the terminal, or the roll-back of the feature
  usable,     \* is the terminal open and the feature on?
  away, late, \* history: Agents in turns taken over; ways in which an Agent typed too late
  orphans,    \* history: operations whose registration went in the place of another's
  ops, turns, takeovers

vars == <<turn, cancelled, call, lease, ready, guard, fenced, active, tomb, sweep, taker, closer,
          usable, away, late, orphans, ops, turns, takeovers>>

None    == [agent |-> NoOne, n |-> 0]
Ops     == {None} \cup [agent : Agents, n : 1 .. MaxOps]
NoGuard == [owner |-> NoOne, delegates |-> {}]
Sweepers == {"driver", "stop"}
NoSweep == [pc |-> "none", why |-> "end", op |-> None]
Idle    == [pc |-> "idle", op |-> None]

TypeOK ==
  /\ turn \in [Agents -> {"off", "starting", "on", "ending"}]
  /\ cancelled \in [Agents -> {"no", "asked", "swept"}]
  /\ call \in [Agents -> [pc : {"idle", "checked", "waiting", "granted", "registered", "validated"},
                          op : Ops]]
  /\ {lease, active} \subseteq Ops /\ ready \in {"pending", "ready", "rejected"}
  /\ guard \in [owner : Agents \cup {NoOne}, delegates : SUBSET Agents]
  /\ {fenced, tomb, away} \subseteq SUBSET Agents
  /\ sweep \in [Agents \X Sweepers -> [pc : {"none", "list", "free", "drop", "forget", "leave",
                                             "join", "begin"},
                                       why : {"start", "end", "cancel"}, op : Ops]]
  /\ taker \in [pc : {"none", "read", "checked", "released"}, op : Ops]
  /\ closer \in {"none", "closing", "rollingBack", "closed", "rolledBack", "done"}
  /\ usable \in BOOLEAN /\ late \subseteq {"takeover", "cancel"} /\ orphans \subseteq Ops
  /\ ops \in [Agents -> 0 .. MaxOps] /\ turns \in [Agents -> 0 .. MaxTurns]
  /\ takeovers \in 0 .. MaxTakeovers

Init ==
  /\ turn = [a \in Agents |-> "off"] /\ cancelled = [a \in Agents |-> "no"]
  /\ call = [a \in Agents |-> Idle]
  /\ lease = None /\ ready = "pending" /\ guard = NoGuard /\ fenced = {}
  /\ active = None /\ tomb = {} /\ sweep = [s \in Agents \X Sweepers |-> NoSweep]
  /\ taker = [pc |-> "none", op |-> None] /\ closer = "none" /\ usable = TRUE
  /\ away = {} /\ late = {} /\ orphans = {}
  /\ ops = [a \in Agents |-> 0] /\ turns = [a \in Agents |-> 0] /\ takeovers = 0

---------------------------------------------------------------------------
(* The lease manager                                                       *)

\* The lease of a closed terminal cannot be released: the broker has no record of it.
Released(op) == IF op # None /\ lease = op /\ closer # "done" THEN None ELSE lease
Admits(a)    == guard.owner = a \/ a \in guard.delegates

Goes(a, pc, op) == call' = [call EXCEPT ![a] = [pc |-> pc, op |-> op]]
Returns(a)      == Goes(a, "idle", None)

\* Those in a turn who share that of an operation: whose guard admits its Agent, and those
\* delegated by them.
Sharing(a) ==
  LET o == IF Admits(a) THEN guard.owner ELSE a
  IN {b \in Agents : turn[b] = "on" /\ (b = o \/ o \in Ancestors[b])}

\* The registration of the TERMINAL goes, whichever it is by now.
Unregister(op) == active' = None /\ orphans' = orphans \cup ({active} \ {None, op})

---------------------------------------------------------------------------
(* write_terminal_input                                                    *)

\* The call looks at the registry: a tombstone or another's operation refuses it, an
\* operation of the Agent's own is used again.
Check(a) ==
  /\ turn[a] = "on" /\ cancelled[a] = "no" /\ call[a] = Idle
  /\ usable /\ a \notin tomb
  /\ \/ active = None /\ ops[a] < MaxOps /\ Goes(a, "checked", None)
     \/ active # None /\ active.agent = a /\ Goes(a, "registered", active)
  /\ UNCHANGED <<turn, cancelled, lease, ready, guard, fenced, active, tomb, sweep, taker,
                 closer, usable, away, late, orphans, ops, turns, takeovers>>

\* The lease is taken: not by an Agent the user took the terminal from, not under another's
\* turn guard, and not while somebody has it.
Acquire(a) ==
  /\ call[a].pc = "checked"
  /\ LET op == [agent |-> a, n |-> ops[a] + 1]
     IN IF usable /\ a \notin fenced /\ (guard = NoGuard \/ Admits(a)) /\ lease = None
        THEN /\ lease' = op /\ ready' = "pending" /\ ops' = [ops EXCEPT ![a] = @ + 1]
             /\ guard' = IF guard = NoGuard THEN [owner |-> a, delegates |-> {}] ELSE guard
             /\ Goes(a, "waiting", op)
        ELSE Returns(a) /\ UNCHANGED <<lease, ready, ops, guard>>
  /\ UNCHANGED <<turn, cancelled, fenced, active, tomb, sweep, taker, closer, usable, away, late,
                 orphans, turns, takeovers>>

\* The terminal's view says whether the user has nothing under way in it.
Answer ==
  /\ lease # None /\ ready = "pending" /\ ready' \in {"ready", "rejected"}
  /\ UNCHANGED <<turn, cancelled, call, lease, guard, fenced, active, tomb, sweep, taker, closer,
                 usable, away, late, orphans, ops, turns, takeovers>>

\* The call waits for it, at most FRONTEND_READY_TIMEOUT; anything else releases the lease.
WaitReady(a) ==
  /\ call[a].pc = "waiting"
  /\ IF lease = call[a].op /\ ready = "ready"
     THEN Goes(a, "granted", call[a].op) /\ UNCHANGED lease
     ELSE Returns(a) /\ lease' = Released(call[a].op)
  /\ UNCHANGED <<turn, cancelled, ready, guard, fenced, active, tomb, sweep, taker, closer,
                 usable, away, late, orphans, ops, turns, takeovers>>

\* The operation is registered, unless another call has registered one meanwhile.
Register(a) ==
  /\ call[a].pc = "granted"
  /\ IF active = None
     THEN active' = call[a].op /\ Goes(a, "registered", call[a].op) /\ UNCHANGED lease
     ELSE Returns(a) /\ lease' = Released(call[a].op) /\ UNCHANGED active
  /\ UNCHANGED <<turn, cancelled, ready, guard, fenced, tomb, sweep, taker, closer, usable, away,
                 late, orphans, ops, turns, takeovers>>

\* A screen that seems to ask for a credential, or a terminal that is no longer the one the
\* call was checked for, ends the operation.
Refuse(a) ==
  /\ call[a].pc = "registered"
  /\ lease' = Released(call[a].op) /\ Unregister(call[a].op) /\ Returns(a)
  /\ UNCHANGED <<turn, cancelled, ready, guard, fenced, tomb, sweep, taker, closer, usable, away,
                 late, ops, turns, takeovers>>

\* The terminal is usable and its lease one of the Agent's.
Revalidate(a) ==
  /\ call[a].pc = "registered" /\ usable /\ lease.agent = a
  /\ Goes(a, "validated", call[a].op)
  /\ UNCHANGED <<turn, cancelled, lease, ready, guard, fenced, active, tomb, sweep, taker,
                 closer, usable, away, late, orphans, ops, turns, takeovers>>

\* The input is admitted if the operation has the lease.  A refusal leaves the registration.
Write(a) ==
  /\ call[a].pc = "validated" /\ Returns(a)
  /\ late' = late
       \cup (IF lease = call[a].op /\ a \in away THEN {"takeover"} ELSE {})
       \cup (IF lease = call[a].op /\ cancelled[a] = "swept" THEN {"cancel"} ELSE {})
  /\ UNCHANGED <<turn, cancelled, lease, ready, guard, fenced, active, tomb, sweep, taker,
                 closer, usable, away, orphans, ops, turns, takeovers>>

\* A visible command needs the prompt: the Agent's own operation ends there.
ReleaseAtPrompt(a) ==
  /\ turn[a] = "on" /\ cancelled[a] = "no" /\ call[a] = Idle /\ usable
  /\ active # None /\ active.agent = a
  /\ lease' = Released(active) /\ Unregister(active)
  /\ UNCHANGED <<turn, cancelled, call, ready, guard, fenced, tomb, sweep, taker, closer, usable,
                 away, late, ops, turns, takeovers>>

---------------------------------------------------------------------------
(* Turn boundaries and stops: release_where in its steps                   *)

Step(s, pc) == sweep' = [sweep EXCEPT ![s].pc = pc]

StartTurn(a) ==
  /\ turn[a] = "off" /\ turns[a] < MaxTurns /\ sweep[<<a, "stop">>].pc = "none" /\ call[a] = Idle
  /\ turn' = [turn EXCEPT ![a] = "starting"] /\ turns' = [turns EXCEPT ![a] = @ + 1]
  /\ sweep' = [sweep EXCEPT ![<<a, "driver">>] =
                 [pc |-> IF guard.owner = a THEN "begin" ELSE "list", why |-> "start", op |-> None]]
  /\ UNCHANGED <<cancelled, call, lease, ready, guard, fenced, active, tomb, taker, closer,
                 usable, away, late, orphans, ops, takeovers>>

\* The turn ends once its calls have returned.
EndTurn(a) ==
  /\ turn[a] = "on" /\ call[a] = Idle
  /\ turn' = [turn EXCEPT ![a] = "ending"]
  /\ sweep' = [sweep EXCEPT ![<<a, "driver">>] = [pc |-> "list", why |-> "end", op |-> None]]
  /\ UNCHANGED <<cancelled, call, lease, ready, guard, fenced, active, tomb, taker, closer,
                 usable, away, late, orphans, ops, turns, takeovers>>

Stop(a) ==
  /\ turn[a] = "on" /\ cancelled[a] = "no" /\ sweep[<<a, "stop">>].pc = "none"
  /\ cancelled' = [cancelled EXCEPT ![a] = "asked"]
  /\ sweep' = [sweep EXCEPT ![<<a, "stop">>] = [pc |-> "list", why |-> "cancel", op |-> None]]
  /\ UNCHANGED <<turn, call, lease, ready, guard, fenced, active, tomb, taker, closer, usable,
                 away, late, orphans, ops, turns, takeovers>>

List(s) ==
  /\ sweep[s].pc = "list"
  /\ sweep' = [sweep EXCEPT ![s].pc = "free",
                            ![s].op = IF active.agent = s[1] THEN active ELSE None]
  /\ UNCHANGED <<turn, cancelled, call, lease, ready, guard, fenced, active, tomb, taker, closer,
                 usable, away, late, orphans, ops, turns, takeovers>>

\* A cancellation interrupts the program first.
Free(s) ==
  /\ sweep[s].pc = "free" /\ Step(s, "drop") /\ lease' = Released(sweep[s].op)
  /\ UNCHANGED <<turn, cancelled, call, ready, guard, fenced, active, tomb, taker, closer,
                 usable, away, late, orphans, ops, turns, takeovers>>

Drop(s) ==
  /\ sweep[s].pc = "drop"
  /\ IF sweep[s].op # None THEN Unregister(sweep[s].op) ELSE UNCHANGED <<active, orphans>>
  /\ sweep' = [sweep EXCEPT ![s].pc = IF sweep[s].why = "cancel" THEN "join" ELSE "forget",
                            ![s].op = None]
  /\ cancelled' = IF sweep[s].why = "cancel" THEN [cancelled EXCEPT ![s[1]] = "swept"] ELSE cancelled
  /\ UNCHANGED <<turn, call, lease, ready, guard, fenced, tomb, taker, closer, usable, away,
                 late, ops, turns, takeovers>>

\* A stop joins the calls and the driver and then releases the turn again.
Join(s) ==
  /\ sweep[s].pc = "join" /\ call[s[1]] = Idle /\ turn[s[1]] = "off"
  /\ sweep' = [sweep EXCEPT ![s] = [pc |-> "list", why |-> "end", op |-> None]]
  /\ UNCHANGED <<turn, cancelled, call, lease, ready, guard, fenced, active, tomb, taker, closer,
                 usable, away, late, orphans, ops, turns, takeovers>>

Forget(s) ==
  /\ sweep[s].pc = "forget" /\ Step(s, "leave") /\ tomb' = tomb \ {s[1]}
  /\ UNCHANGED <<turn, cancelled, call, lease, ready, guard, fenced, active, taker, closer,
                 usable, away, late, orphans, ops, turns, takeovers>>

\* release_turn of the lease manager: the fence and the guard of the turn go.
Leave(s) ==
  /\ sweep[s].pc = "leave"
  /\ fenced' = fenced \ {s[1]}
  /\ guard' = IF guard.owner = s[1] THEN NoGuard ELSE [guard EXCEPT !.delegates = @ \ {s[1]}]
  /\ IF sweep[s].why = "start"
     THEN Step(s, "begin") /\ UNCHANGED <<turn, cancelled, away>>
     ELSE /\ sweep' = [sweep EXCEPT ![s] = NoSweep]
          /\ turn' = IF s[2] = "driver" THEN [turn EXCEPT ![s[1]] = "off"] ELSE turn
          /\ cancelled' = IF s[2] = "stop" THEN [cancelled EXCEPT ![s[1]] = "no"] ELSE cancelled
          /\ away' = away \ {s[1]}
  /\ UNCHANGED <<call, lease, ready, active, tomb, taker, closer, usable, late, orphans, ops,
                 turns, takeovers>>

\* The turn guard of a turn that starts.  A refusal is logged; the turn goes on.
Begin(s) ==
  /\ sweep[s].pc = "begin"
  /\ sweep' = [sweep EXCEPT ![s] = NoSweep] /\ turn' = [turn EXCEPT ![s[1]] = "on"]
  /\ LET a == s[1]
     IN guard' = IF ({a} \cup Ancestors[a]) \cap fenced # {} THEN guard
                 ELSE IF guard = NoGuard /\ (lease = None \/ lease.agent = a)
                      THEN [owner |-> a, delegates |-> {}]
                 ELSE IF ~Admits(a) /\ guard.owner \in Ancestors[a]
                      THEN [guard EXCEPT !.delegates = @ \cup {a}]
                 ELSE guard
  /\ UNCHANGED <<cancelled, call, lease, ready, fenced, active, tomb, taker, closer, usable,
                 away, late, orphans, ops, turns, takeovers>>

---------------------------------------------------------------------------
(* The user takes the terminal over                                        *)

\* The view names the operation of the lease it shows; only a registered one can be taken.
AskTakeover ==
  /\ taker.pc = "none" /\ takeovers < MaxTakeovers /\ active # None
  /\ taker' = [pc |-> "read", op |-> active] /\ takeovers' = takeovers + 1
  /\ UNCHANGED <<turn, cancelled, call, lease, ready, guard, fenced, active, tomb, sweep, closer,
                 usable, away, late, orphans, ops, turns>>

\* The lease must still be the operation's; then the program is interrupted.
Interrupt ==
  /\ taker.pc = "read"
  /\ taker' = IF lease = taker.op THEN [taker EXCEPT !.pc = "checked"]
                                  ELSE [pc |-> "none", op |-> None]
  /\ UNCHANGED <<turn, cancelled, call, lease, ready, guard, fenced, active, tomb, sweep, closer,
                 usable, away, late, orphans, ops, turns, takeovers>>

\* mutant: the lease goes before anybody is fenced
FencesLater ==
  /\ taker.pc = "checked"
  /\ IF lease \in {None, taker.op} /\ closer # "done"
     THEN /\ taker' = [taker EXCEPT !.pc = "released"] /\ lease' = None
          /\ away' = IF lease = None THEN away ELSE away \cup Sharing(taker.op.agent)
     ELSE taker' = [pc |-> "none", op |-> None] /\ UNCHANGED <<lease, away>>
  /\ UNCHANGED <<turn, cancelled, call, ready, guard, fenced, active, tomb, sweep, closer,
                 usable, late, orphans, ops, turns, takeovers>>

\* release_after_takeover: the lease and the guard go, all who shared the guard are fenced.
\* Without a lease nothing happens and the takeover goes on; another's lease ends it.
TakeOver ==
  /\ taker.pc = "checked"
  /\ IF lease = taker.op /\ closer # "done"
     THEN LET a == taker.op.agent IN
          /\ lease' = None /\ taker' = [taker EXCEPT !.pc = "released"]
          /\ guard' = IF Admits(a) THEN NoGuard ELSE guard
          /\ fenced' = fenced \cup {a} \cup (IF Admits(a) THEN {guard.owner} \cup guard.delegates ELSE {})
          /\ away' = away \cup Sharing(a)
     ELSE /\ taker' = IF lease = None THEN [taker EXCEPT !.pc = "released"]
                                      ELSE [pc |-> "none", op |-> None]
          /\ UNCHANGED <<lease, guard, fenced, away>>
  /\ UNCHANGED <<turn, cancelled, call, ready, active, tomb, sweep, closer, usable, late,
                 orphans, ops, turns, takeovers>>

\* mutant: the tombstone names the operation
BuriesOperation ==
  /\ taker.pc = "released" /\ taker' = [pc |-> "none", op |-> None]
  /\ Unregister(taker.op) /\ tomb' = tomb \cup {taker.op}
  /\ UNCHANGED <<turn, cancelled, call, lease, ready, guard, fenced, sweep, closer, usable, away,
                 late, ops, turns, takeovers>>

\* The registration of the terminal goes and the Agent's tombstone is set.
Bury ==
  /\ taker.pc = "released" /\ taker' = [pc |-> "none", op |-> None]
  /\ Unregister(taker.op) /\ tomb' = tomb \cup {taker.op.agent}
  /\ UNCHANGED <<turn, cancelled, call, lease, ready, guard, fenced, sweep, closer, usable, away,
                 late, ops, turns, takeovers>>

---------------------------------------------------------------------------
(* The end of the terminal, and the roll-back                              *)

\* The feature is switched off before its leases are reconciled.
RollBack ==
  /\ CanClose /\ closer = "none" /\ closer' = "rollingBack" /\ usable' = FALSE
  /\ UNCHANGED <<turn, cancelled, call, lease, ready, guard, fenced, active, tomb, sweep, taker,
                 away, late, orphans, ops, turns, takeovers>>

\* terminal_closed: the registration goes, and if there was one the guard and the lease.
Close ==
  /\ CanClose /\ closer \in {"none", "rollingBack"}
  /\ active' = None
  /\ LET sweeps == active # None \/ closer = "rollingBack" IN
     /\ guard' = IF sweeps THEN NoGuard ELSE guard
     /\ lease' = IF sweeps THEN None ELSE lease
  /\ closer' = IF closer = "none" THEN "closed" ELSE "rolledBack"
  /\ UNCHANGED <<turn, cancelled, call, ready, fenced, tomb, sweep, taker, usable, away, late,
                 orphans, ops, turns, takeovers>>

\* The broker closes the generation after that.
Closed ==
  /\ closer = "closed" /\ closer' = "done" /\ usable' = FALSE
  /\ UNCHANGED <<turn, cancelled, call, lease, ready, guard, fenced, active, tomb, sweep, taker,
                 away, late, orphans, ops, turns, takeovers>>

---------------------------------------------------------------------------
CallStep(a)  == Acquire(a) \/ WaitReady(a) \/ Register(a) \/ Refuse(a) \/ Revalidate(a) \/ Write(a)
SweepStep(s) == List(s) \/ Free(s) \/ Drop(s) \/ Join(s) \/ Forget(s) \/ Leave(s) \/ Begin(s)
TakeStep     == Interrupt \/ TakeOver \/ Bury

Next ==
  \/ \E a \in Agents : \/ Check(a) \/ CallStep(a) \/ ReleaseAtPrompt(a)
                       \/ StartTurn(a) \/ EndTurn(a) \/ Stop(a)
  \/ \E s \in Agents \X Sweepers : SweepStep(s)
  \/ Answer \/ AskTakeover \/ TakeStep \/ RollBack \/ Close \/ Closed

Spec == Init /\ [][Next]_vars

\* Threads run; a stopped driver ends its turn once its calls have returned.
FairSpec ==
  /\ Spec /\ WF_vars(TakeStep)
  /\ \A a \in Agents : WF_vars(CallStep(a)) /\ WF_vars(cancelled[a] # "no" /\ EndTurn(a))
  /\ \A s \in Agents \X Sweepers : WF_vars(SweepStep(s))

---------------------------------------------------------------------------
Quiet == /\ taker.pc = "none" /\ closer \in {"none", "rolledBack"}
         /\ \A s \in Agents \X Sweepers : sweep[s].pc \in {"none", "join"}

\* A lease no call is working on is the registered operation's, and that operation has its
\* lease: otherwise nobody would release it, and the user could neither type nor take over.
\* Except where the registration went in the place of another's: the entries of a release are
\* removed by terminal, after the leases (terminal_interactive.rs:494).
LeaseIsRegistered ==
  Quiet => /\ lease # None /\ call[lease.agent] = Idle => active = lease \/ lease \in orphans
           /\ active # None /\ call[active.agent] = Idle => lease = active

\* When no turn is on nothing of one is left: no registration and no guard, and no lease or
\* fence, with that exception: such a lease stays, and a takeover of it fences an Agent that is
\* in no turn.  (A tombstone may be left: the start of the next turn removes it.)
NothingOutlivesTurns ==
  (\A a \in Agents : turn[a] = "off" /\ call[a] = Idle) /\ Quiet
     => /\ active = None /\ guard = NoGuard
        /\ lease \in {None} \cup orphans /\ fenced \subseteq {op.agent : op \in orphans}

\* After the user has taken the terminal over, no Agent that was in the turn types into it until
\* its own turn ends.  (One delegated afterwards may: only the Agents of the guard are fenced,
\* terminal_lease.rs:367.)
TakenOverIsQuiet == "takeover" \notin late

\* Once a stop has released the terminal, the stopped Agent does not type any more.
CancelledIsQuiet == "cancel" \notin late

\* A stop ends with the terminal free of the stopped Agent, but for such a lease and for one
\* of a terminal that has been closed meanwhile, which nobody can release or take any more.
StopFrees ==
  \A a \in Agents : cancelled[a] # "no"
     ~> (lease.agent # a \/ lease \in orphans \/ closer = "done") /\ guard.owner # a
=============================================================================
