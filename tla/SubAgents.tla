----------------------------- MODULE SubAgents -----------------------------
(* The tree of delegated Agents (subagent.rs, registry.rs): a caller - the
   running tool of a parent's own driver, or a command of the user - creates a
   child Session and its Agent, sends a continuable child more input, starts a
   failed one again, waits for it to settle, or cancels its whole subtree; the
   stop of the root cancels every child before it disposes of the root. The
   child's driver task claims input, ends, fails or pauses its turn, gives the
   slot back and looks once more for work. Detail left to other modules: the
   steps of a turn (AgentDriver), the log itself (AgentSession), approvals and
   executions (ToolCalls), the fleet above the children (Fleet). *)
EXTENDS Naturals, Sequences, FiniteSets

CONSTANTS
  Root,         \* the Session the user talks to
  Kids,         \* the Sessions that may be created below it
  Parent,       \* [Kids -> Agents]
  Lasting,      \* the children created as continuable
  Tools,        \* what the parents' models call: "spawn", "send", "retry", "cancel"
  Commands,     \* what the user commands, the same and "stop"
  MaxCommands, MaxSends, MaxFails, MaxPauses, MaxTimeouts, MaxCrashes  \* bounds

Agents  == Kids \cup {Root}
Callers == {Parent[k] : k \in Kids}
User    == "user"
Stop    == "stop"
Procs   == Callers \cup {User, Stop}

TreeAssumption ==
  /\ Root \notin Kids /\ Parent \in [Kids -> Agents] /\ Lasting \subseteq Kids
  /\ {MaxCommands, MaxSends, MaxFails, MaxPauses, MaxTimeouts, MaxCrashes} \subseteq Nat

VARIABLES
  log,       \* [Agents -> the Session]: status, inbox, failed turns, recoveries, served input
  entry,     \* [Agents -> the registered Agent]: resident, generation, admission, cancelled
  handle,    \* the children whose handle the manager holds
  drive,     \* [Agents -> where the driver is]
  over,      \* children whose driver task has given the slot back and looks for work
  call,      \* [Procs -> the operation in progress]
  gate,      \* who holds recovery_gate across an await, or "free"
  barred,    \* cancelled_children: in memory only
  detached,  \* children whose cancellation the parent's log records
  done,      \* Sessions named by a cancellation that has returned
  used       \* how often the bounded choices were taken

vars == <<log, entry, handle, drive, over, call, gate, barred, detached, done, used>>

Task    == <<"task", 0>>                                    \* the delegation
Cure(t) == <<"cure", t>>                                    \* recovery_id of failed turn t
Msgs    == {Task} \cup {<<"input", n>> : n \in 1..MaxSends} \cup {Cure(t) : t \in 1..MaxFails}
Over    == {"failed", "completed", "cancelled"}
Ended(a)    == log[a].st \in Over
Below(a)    == {k \in Kids : Parent[k] = a /\ log[k].st # "none"}   \* child_session_ids
Inbox(a)    == log[a].ready \cup log[a].paused
Admits(a)   == entry[a].on /\ entry[a].admits /\ ~entry[a].cut

NoLog(st) == [st |-> st, ready |-> {}, paused |-> {}, fails |-> 0, cures |-> {}, served |-> {}]
NoCall    == [op |-> "none", kid |-> Root, at |-> "none", gen |-> 0, due |-> FALSE,
              turn |-> 0, todo |-> {}, left |-> {}]
Resident(gen) == [on |-> TRUE, gen |-> gen, admits |-> TRUE, cut |-> FALSE]
Count(what)   == [used EXCEPT ![what] = @ + 1]

Init ==
  /\ log    = [a \in Agents |-> NoLog(IF a = Root THEN "running" ELSE "none")]
  /\ entry  = [a \in Agents |-> [Resident(0) EXCEPT !.on = (a = Root)]]
  /\ handle = {} /\ over = {} /\ barred = {} /\ detached = {} /\ done = {}
  /\ drive  = [a \in Agents |-> IF a = Root THEN "turn" ELSE "off"]
  /\ call   = [p \in Procs |-> NoCall]
  /\ gate   = "free"
  /\ used   = [w \in {"commands", "sends", "pauses", "timeouts", "crashes"} |-> 0]

(* ------------------------------- primitives ------------------------------ *)
At(p, place)   == call[p].at = place
Goes(p, place) == call' = [call EXCEPT ![p].at = place]

\* The call of p returns; a tool gives the step back to its driver.
Back(p, d) == IF p \in Callers THEN [d EXCEPT ![p] = "turn"] ELSE d
Returns(p) == call' = [call EXCEPT ![p] = NoCall] /\ drive' = Back(p, drive)

\* AgentEntry::try_acquire_driver by the wake of k, given its entry.
Woken(k, e, d) == IF e.admits /\ d[k] = "off" THEN [d EXCEPT ![k] = "lead"] ELSE d

\* A registered Agent is gone: whoever waits on it gets one last change to look at.
Detach(k)    == [entry EXCEPT ![k].on = FALSE, ![k].admits = FALSE, ![k].cut = TRUE]
LastLook(k, c) == [p \in Procs |->
  IF c[p].at = "watch" /\ c[p].kid = k /\ c[p].gen = entry[k].gen
    THEN [c[p] EXCEPT !.due = TRUE] ELSE c[p]]

\* ensure_resident: the child, or first its parents, get an entry again; none is
\* attached to an ended Session or below an owner that stops.
Lineage[a \in Agents] == IF a = Root \/ entry[a].on THEN {} ELSE {a} \cup Lineage[Parent[a]]
EnsureResident(k) ==
  LET cold == Lineage[k] IN
  /\ entry'  = [a \in Agents |-> IF a \in cold THEN Resident(entry[a].gen + 1) ELSE entry[a]]
  /\ handle' = handle \cup cold
CanReside(k) ==
  LET cold == Lineage[k] IN
  /\ \A c \in cold : ~Ended(c) /\ (Parent[c] \in cold \/ Admits(Parent[c]))

\* descendants_postorder, with the Session itself, as a set; the next one of an
\* order is one whose descendants are through.
Above[a \in Agents] == IF a = Root THEN {} ELSE {Parent[a]} \cup Above[Parent[a]]
Tree(k)    == {d \in Kids : log[d].st # "none" /\ (d = k \/ k \in Above[d])}
Deepest(S) == CHOOSE d \in S : \A o \in S : d \notin Above[o]

Close(k, st) == [log EXCEPT ![k].st = st, ![k].ready = {}, ![k].paused = {}]

(* ----------------------------- the operations ---------------------------- *)
\* A caller takes up an operation: a tool call of a parent whose driver is in a
\* turn, or a command; "stop" has a process of its own, as it runs beside both.
Ask(p, op, k, t) ==
  call' = [call EXCEPT ![p] = [NoCall EXCEPT !.op = op, !.kid = k, !.at = op, !.turn = t]]
Calls(p) ==
  /\ drive[p] = "turn" /\ ~entry[p].cut
  /\ \E op \in Tools, k \in Kids, t \in 0..MaxFails :
       /\ Parent[k] = p /\ (op = "retry") = (t > 0)
       /\ op = "spawn" <=> log[k].st = "none"
       /\ Ask(p, op, k, t)
  /\ drive' = [drive EXCEPT ![p] = "tool"]
  /\ UNCHANGED used
Commanded ==
  /\ At(User, "none") /\ used["commands"] < MaxCommands /\ used' = Count("commands")
  /\ \E op \in Commands \ {"stop"}, k \in Kids, t \in 0..MaxFails :
       /\ (op = "retry") = (t > 0)
       /\ op = "spawn" <=> log[k].st = "none"
       /\ log[Parent[k]].st # "none"
       /\ Ask(User, op, k, t)
  /\ UNCHANGED drive

\* create_child: the descriptor and the child's log in one transaction; only the
\* parent's end refuses it. Then the Agent, its handle, the delegation, the wake.
SpawnRefusedBy(k) == Ended(Parent[k])
SpawnCreate(p) ==
  LET k == call[p].kid IN
  /\ At(p, "spawn") /\ UNCHANGED <<entry, handle, over>>
  /\ \/ /\ (SpawnRefusedBy(k) \/ log[k].st # "none" \/ ~entry[Parent[k]].on)
        /\ Returns(p) /\ UNCHANGED log
     \/ /\ ~SpawnRefusedBy(k) /\ log[k].st = "none" /\ entry[Parent[k]].on
        /\ log' = [log EXCEPT ![k].st = "idle"]
        /\ Goes(p, "attach") /\ UNCHANGED drive
SpawnAttach(p) ==
  LET k == call[p].kid IN
  /\ At(p, "attach") /\ UNCHANGED <<log, over, handle>>
  /\ \/ (Ended(k) \/ entry[k].on) /\ Returns(p) /\ UNCHANGED entry
     \/ /\ ~Ended(k) /\ ~entry[k].on
        /\ entry' = [entry EXCEPT ![k] = Resident(@.gen + 1)]
        /\ Goes(p, "deliver") /\ UNCHANGED drive
SpawnDeliver(p) ==
  LET k == call[p].kid IN
  /\ At(p, "deliver") /\ UNCHANGED <<entry, over>>
  /\ handle' = handle \cup {k}
  /\ \/ Ended(k) /\ Returns(p) /\ UNCHANGED log
     \/ /\ ~Ended(k)
        /\ log' = [log EXCEPT ![k].ready = @ \cup {Task}]
        /\ drive' = Woken(k, entry[k], drive)
        /\ call' = [call EXCEPT ![p] = IF p = User THEN NoCall ELSE [@ EXCEPT !.at = "seek"]]

\* send_input: continuable, not ended, resident below an admitting owner; the
\* input is admitted under the child's gate, and the child woken.
\* (Assumed: no input arrives in the instant between the two critical sections of
\* create_child that register the Agent and keep its handle.)
Shown(k) == entry[k].on => k \in handle
SendInput(p) ==
  LET k == call[p].kid IN
  /\ At(p, "send") /\ gate = "free" /\ Shown(k) /\ UNCHANGED over
  /\ \/ /\ (k \notin Lasting \/ Ended(k) \/ ~CanReside(k) \/ (entry[k].on /\ ~Admits(k))
              \/ used["sends"] = MaxSends)
        /\ Returns(p) /\ UNCHANGED <<log, entry, handle, used>>
     \/ /\ k \in Lasting /\ ~Ended(k) /\ CanReside(k) /\ (entry[k].on => Admits(k))
        /\ used["sends"] < MaxSends /\ used' = Count("sends")
        /\ EnsureResident(k)
        /\ log' = [log EXCEPT ![k].ready = @ \cup {<<"input", used["sends"] + 1>>}]
        /\ drive' = Woken(k, entry'[k], drive)
        /\ call' = [call EXCEPT ![p] = IF p = User THEN NoCall ELSE [@ EXCEPT !.at = "seek"]]

(* retry_child: recovery_gate is held from the first check to the wake *)
\* validate_child_retry_record: a receipt that was claimed answers at once; else
\* the latest failed turn of a continuable child, nothing but its recovery queued.
Recovered(k, t)   == t \in log[k].cures /\ Cure(t) \notin Inbox(k)
Recoverable(k, t) ==
  /\ k \in Lasting /\ t = log[k].fails /\ Inbox(k) \subseteq {Cure(t)}
  /\ log[k].st = "failed" \/ (log[k].st = "idle" /\ t \in log[k].cures)
WasCancelled(k)   == k \in barred \/ k \in detached
RetryBegins(p) ==
  LET k == call[p].kid  t == call[p].turn
      fine == Recoverable(k, t) /\ ~Recovered(k, t) /\ ~WasCancelled(k) /\ ~Ended(Parent[k])
                /\ CanReside(Parent[k]) /\ (entry[Parent[k]].on => Admits(Parent[k]))
                /\ (Ended(k) => k \in handle \/ ~entry[k].on)
  IN
  /\ At(p, "retry") /\ gate = "free" /\ UNCHANGED <<log, over>>
  /\ \/ /\ Recovered(k, t) \/ ~fine
        /\ call' = [call EXCEPT ![p] = IF Recovered(k, t) /\ p # User
                                         THEN [@ EXCEPT !.at = "seek"] ELSE NoCall]
        /\ drive' = IF Recovered(k, t) THEN drive ELSE Back(p, drive)
        /\ UNCHANGED <<entry, handle, gate>>
     \/ /\ fine /\ gate' = p
        /\ EnsureResident(Parent[k])
        /\ Goes(p, IF Ended(k) /\ k \in handle THEN "join" ELSE "reopen")
        /\ UNCHANGED drive
\* The failed child's old Agent is stopped, joined and taken out of the registry.
RetryJoins(p) ==
  LET k == call[p].kid IN
  /\ At(p, "join") /\ drive[k] = "off"
  /\ entry' = Detach(k) /\ handle' = handle \ {k} /\ over' = over \ {k}
  /\ call' = LastLook(k, [call EXCEPT ![p].at = "reopen"])
  /\ UNCHANGED <<log, drive, gate>>
\* retry_child_failure looks again in the log: a recovery that was claimed, or waits
\* free, is kept; one that was paused is resumed.
RetryReopens(p) ==
  LET k == call[p].kid  t == call[p].turn IN
  /\ At(p, "reopen") /\ UNCHANGED <<entry, handle, over>>
  /\ \/ /\ ~Recovered(k, t) /\ ~Recoverable(k, t)
        /\ Returns(p) /\ gate' = "free" /\ UNCHANGED log
     \/ /\ Recovered(k, t) \/ Recoverable(k, t)
        /\ log' = IF Recovered(k, t) THEN log
                  ELSE [log EXCEPT ![k].st = "idle", ![k].cures = @ \cup {t},
                                   ![k].ready = @ \cup {Cure(t)}, ![k].paused = @ \ {Cure(t)}]
        /\ Goes(p, "revive") /\ UNCHANGED <<gate, drive>>
RetryRevives(p) ==
  LET k == call[p].kid IN
  /\ At(p, "revive") /\ gate' = "free" /\ UNCHANGED <<log, over>>
  /\ \/ ~CanReside(k) /\ Returns(p) /\ UNCHANGED <<entry, handle>>
     \/ /\ CanReside(k) /\ EnsureResident(k)
        /\ drive' = Woken(k, entry'[k], drive)
        /\ call' = [call EXCEPT ![p] = IF p = User THEN NoCall ELSE [@ EXCEPT !.at = "seek"]]

(* await_settlement and settle_spawn, for the tools *)
WatchBegins(p) ==
  LET k == call[p].kid IN
  /\ At(p, "seek")
  /\ \/ ~entry[k].on /\ Returns(p)
     \/ /\ entry[k].on /\ UNCHANGED drive
        /\ call' = [call EXCEPT ![p].at = "watch", ![p].gen = entry[k].gen, ![p].due = FALSE]
Current(p) == entry[call[p].kid].on /\ entry[call[p].kid].gen = call[p].gen
Settled(p) ==
  LET k == call[p].kid IN
  /\ Current(p) => drive[k] = "off"
  /\ Ended(k) \/ (log[k].st = "idle" /\ Inbox(k) = {})
\* The waiter looks when its Agent changed: while that Agent is registered at any
\* time, afterwards once more. A cancelled call comes first (biased select).
WatchSettles(p) ==
  /\ At(p, "watch") /\ (Current(p) \/ call[p].due) /\ ~entry[p].cut
  /\ IF Settled(p) THEN Goes(p, "settle")
                   ELSE ~Current(p) /\ call' = [call EXCEPT ![p].due = FALSE]
  /\ UNCHANGED drive
WatchCut(p) ==
  /\ At(p, "watch") /\ entry[p].cut
  /\ Goes(p, "cancel") /\ UNCHANGED <<drive, used>>
WatchTimesOut(p) ==
  /\ At(p, "watch") /\ ~entry[p].cut /\ used["timeouts"] < MaxTimeouts
  /\ used' = Count("timeouts") /\ Goes(p, "cancel") /\ UNCHANGED drive
\* A one-shot child that is idle ends now; the result is committed in the
\* parent's log, and fails if the parent has ended.
CommitRefusedBy(k) == Ended(Parent[k])     \* commit_subagent_settlement
Settles(p) ==
  LET k == call[p].kid IN
  /\ At(p, "settle")
  /\ log' = IF k \notin Lasting /\ log[k].st = "idle" THEN Close(k, "completed") ELSE log
  /\ IF CommitRefusedBy(k) THEN Returns(p) ELSE Goes(p, "release") /\ UNCHANGED drive
\* release_continuable / the one-shot's dispose: try_suspend refuses a child that
\* runs, owns children, or has input; a settled one-shot has nothing to join.
Suspendable(k) == Admits(k) /\ drive[k] = "off" /\ log[k].st = "idle" /\ Inbox(k) = {}
Releases(p) ==
  LET k == call[p].kid
      goes == k \in handle /\ (IF k \in Lasting THEN Below(k) = {} /\ Suspendable(k) ELSE Ended(k))
  IN
  /\ At(p, "release")
  /\ k \notin Lasting /\ k \in handle => drive[k] = "off"
  /\ entry'  = IF goes THEN Detach(k) ELSE entry
  /\ handle' = IF goes THEN handle \ {k} ELSE handle
  /\ over'   = IF goes THEN over \ {k} ELSE over
  /\ call'   = LET c == [call EXCEPT ![p] = NoCall] IN IF goes THEN LastLook(k, c) ELSE c
  /\ drive'  = Back(p, drive)

(* cancel_tree, and the stop of the root *)
\* The order is taken before the gate; every Session of it is barred at once.
CancelBegins(p) ==
  /\ At(p, "cancel") /\ call' = [call EXCEPT ![p].at = "bar", ![p].todo = Tree(call[p].kid)]
CancelBars(p) ==
  /\ At(p, "bar") /\ gate = "free"
  /\ barred' = barred \cup call[p].todo /\ Goes(p, "fence")
Target(p) == Deepest(call[p].todo)
\* One Session: its admission closes, or, without an Agent, it ends in the log.
CancelFences(p) ==
  LET k == Target(p) IN
  /\ At(p, "fence") /\ gate = "free"
  /\ IF k \in handle
       THEN entry' = [entry EXCEPT ![k].admits = FALSE] /\ Goes(p, "halt") /\ UNCHANGED log
       ELSE /\ log' = IF Ended(k) THEN log ELSE Close(k, "cancelled")
            /\ Goes(p, "note") /\ UNCHANGED entry
CancelHalts(p) ==
  /\ At(p, "halt")
  /\ entry' = [entry EXCEPT ![Target(p)].cut = TRUE] /\ Goes(p, "joined")
\* finish(): the driver is joined, the log ended unless it is, the Agent detached.
Joined(k) == drive[k] = "off"
CancelJoins(p) ==
  LET k == Target(p) IN
  /\ At(p, "joined") /\ Joined(k)
  /\ log' = IF Ended(k) THEN log ELSE Close(k, "cancelled")
  /\ entry' = Detach(k) /\ handle' = handle \ {k} /\ over' = over \ {k}
  /\ call' = LastLook(k, [call EXCEPT ![p].at = "note"])
\* SubagentDetached in the parent's log; then the next, or the call goes on.
CancelNotes(p) ==
  LET k == Target(p)  rest == call[p].todo \ {k} IN
  /\ At(p, "note")
  /\ detached' = IF Ended(Parent[k]) THEN detached ELSE detached \cup {k}
  /\ call' = [call EXCEPT ![p].todo = rest, ![p].at = IF rest = {} THEN "end" ELSE "fence"]
CancelReturns(p) ==
  /\ At(p, "end")
  /\ done' = done \cup {k \in Tree(call[p].kid) : k \in barred}
  /\ \/ /\ p = Stop /\ call' = [call EXCEPT ![p].at = "next"] /\ UNCHANGED drive
     \/ /\ p # Stop /\ (p = User \/ call[p].op = "cancel") /\ Returns(p)
     \/ /\ p \in Callers /\ call[p].op # "cancel" /\ Goes(p, "settle") /\ UNCHANGED drive

\* stop_session: admission closes, the children are listed once and cancelled one
\* after the other, then the root's own Agent is disposed of.
StopBegins ==
  /\ "stop" \in Commands /\ At(Stop, "none") /\ entry[Root].on
  /\ entry' = [entry EXCEPT ![Root].admits = FALSE]
  /\ call' = [call EXCEPT ![Stop] = [NoCall EXCEPT !.op = "stop", !.at = "next", !.left = Below(Root)]]
StopNext ==
  /\ At(Stop, "next") /\ call[Stop].left # {}
  /\ \E k \in call[Stop].left :
       call' = [call EXCEPT ![Stop].kid = k, ![Stop].at = "cancel", ![Stop].left = @ \ {k}]
StopCuts ==
  /\ At(Stop, "next") /\ call[Stop].left = {}
  /\ entry' = [entry EXCEPT ![Root].cut = TRUE] /\ Goes(Stop, "root")
StopJoins ==
  /\ At(Stop, "root") /\ Joined(Root)
  /\ log' = Close(Root, "cancelled")
  /\ entry' = Detach(Root) /\ Goes(Stop, "stopped")

(* ------------------------------- the drivers ----------------------------- *)
\* The driver looks for input: ended or no longer admitting, it is over; with nothing
\* free to claim it settles idle, gives the slot back and its task looks once more.
Leads(k) ==
  /\ drive[k] = "lead" /\ UNCHANGED <<over, used>>
  /\ \/ /\ ~Admits(k) \/ Ended(k)
        /\ drive' = [drive EXCEPT ![k] = "off"] /\ UNCHANGED log
     \/ /\ Admits(k) /\ ~Ended(k) /\ log[k].ready = {}
        /\ drive' = [drive EXCEPT ![k] = "leave"] /\ UNCHANGED log
     \/ /\ Admits(k) /\ ~Ended(k)
        /\ \E m \in log[k].ready :
             log' = [log EXCEPT ![k].st = "running", ![k].ready = @ \ {m}, ![k].served = @ \cup {m}]
        /\ drive' = [drive EXCEPT ![k] = "turn"]
Leaves(k) ==
  /\ drive[k] = "leave" /\ drive' = [drive EXCEPT ![k] = "off"]
  /\ over' = over \cup {k} /\ UNCHANGED <<log, used>>
TurnEnds(k) ==
  /\ drive[k] = "turn" /\ ~entry[k].cut /\ k \in Kids
  /\ log' = [log EXCEPT ![k].st = "idle"] /\ drive' = [drive EXCEPT ![k] = "lead"]
  /\ UNCHANGED <<over, used>>
TurnFails(k) ==
  /\ drive[k] = "turn" /\ ~entry[k].cut /\ k \in Kids /\ log[k].fails < MaxFails
  /\ log' = [Close(k, "failed") EXCEPT ![k].fails = @ + 1]
  /\ drive' = [drive EXCEPT ![k] = "off"] /\ UNCHANGED <<over, used>>
\* pause_context_budget: the turn is closed and everything queued is paused.
TurnPauses(k) ==
  /\ drive[k] = "turn" /\ ~entry[k].cut /\ k \in Kids /\ used["pauses"] < MaxPauses
  /\ used' = Count("pauses")
  /\ log' = [log EXCEPT ![k].st = "idle", ![k].paused = Inbox(k), ![k].ready = {}]
  /\ drive' = [drive EXCEPT ![k] = "leave"] /\ UNCHANGED over
TurnIsCut(k) ==
  /\ drive[k] = "turn" /\ entry[k].cut
  /\ drive' = [drive EXCEPT ![k] = "off"] /\ UNCHANGED <<log, over, used>>
\* The wake loop: any input left, paused input too, and the slot is taken again.
HasWork(k) == Inbox(k) # {}
LooksAgain(k) ==
  /\ k \in over /\ over' = over \ {k}
  /\ drive' = IF HasWork(k) /\ ~entry[k].cut THEN Woken(k, entry[k], drive) ELSE drive
DriverStep(k) == Leads(k) \/ Leaves(k) \/ TurnEnds(k) \/ TurnFails(k) \/ TurnPauses(k) \/ TurnIsCut(k)

\* The process dies while no child is in a turn (AgentSession has the torn turn):
\* memory is gone, what is queued is paused, the user takes the root up again.
Crash ==
  /\ used["crashes"] < MaxCrashes /\ used' = Count("crashes")
  /\ \A k \in Kids : log[k].st # "running"
  /\ log[Root].st = "running"
  /\ log'   = [a \in Agents |-> [log[a] EXCEPT !.ready = {}, !.paused = Inbox(a)]]
  /\ entry' = [a \in Agents |-> IF a = Root THEN Resident(entry[a].gen + 1)
                                 ELSE [entry[a] EXCEPT !.on = FALSE, !.admits = FALSE]]
  /\ drive' = [a \in Agents |-> IF a = Root THEN "turn" ELSE "off"]
  /\ call'  = [p \in Procs |-> NoCall]
  /\ handle' = {} /\ over' = {} /\ barred' = {} /\ gate' = "free"
  /\ UNCHANGED <<detached, done>>

(* ------------------------------ specification ---------------------------- *)
Spawning(p) == /\ SpawnCreate(p) \/ SpawnAttach(p) \/ SpawnDeliver(p)
               /\ UNCHANGED <<gate, barred, detached, done, used>>
Sending(p)  == SendInput(p) /\ UNCHANGED <<gate, barred, detached, done>>
Retrying(p) == /\ RetryBegins(p) \/ RetryJoins(p) \/ RetryReopens(p) \/ RetryRevives(p)
               /\ UNCHANGED <<barred, detached, done, used>>
Watching(p) ==
  /\ UNCHANGED <<gate, barred, detached, done>>
  /\ \/ WatchBegins(p) /\ UNCHANGED <<log, entry, handle, over, used>>
     \/ WatchSettles(p) /\ UNCHANGED <<log, entry, handle, over, used>>
     \/ WatchCut(p) /\ UNCHANGED <<log, entry, handle, over>>
     \/ Settles(p) /\ UNCHANGED <<entry, handle, over, used>>
     \/ Releases(p) /\ UNCHANGED <<log, used>>
TimingOut(p) == WatchTimesOut(p) /\ UNCHANGED <<log, entry, handle, over, gate, barred, detached, done>>
Cancelling(p) ==
  /\ UNCHANGED <<gate, used>>
  /\ \/ CancelBegins(p) /\ UNCHANGED <<log, entry, handle, drive, over, barred, detached, done>>
     \/ CancelBars(p) /\ UNCHANGED <<log, entry, handle, drive, over, detached, done>>
     \/ CancelFences(p) /\ UNCHANGED <<handle, drive, over, barred, detached, done>>
     \/ CancelHalts(p) /\ UNCHANGED <<log, handle, drive, over, barred, detached, done>>
     \/ CancelJoins(p) /\ UNCHANGED <<drive, barred, detached, done>>
     \/ CancelNotes(p) /\ UNCHANGED <<log, entry, handle, drive, over, barred, done>>
     \/ CancelReturns(p) /\ UNCHANGED <<log, entry, handle, over, barred, detached>>
Stopping ==
  /\ UNCHANGED <<handle, drive, over, gate, barred, detached, done, used>>
  /\ \/ StopNext /\ UNCHANGED <<log, entry>>
     \/ StopCuts /\ UNCHANGED log
     \/ StopJoins
Driving(k) == /\ DriverStep(k)
              /\ UNCHANGED <<entry, handle, call, gate, barred, detached, done>>
Looking(k) == LooksAgain(k) /\ UNCHANGED <<log, entry, handle, call, gate, barred, detached, done, used>>
Asking ==
  /\ UNCHANGED <<log, handle, over, gate, barred, detached, done>>
  /\ \/ (\E p \in Callers : Calls(p)) /\ UNCHANGED entry
     \/ Commanded /\ UNCHANGED entry
     \/ StopBegins /\ UNCHANGED <<drive, used>>

Proceeds(p) == Spawning(p) \/ Sending(p) \/ Retrying(p) \/ Watching(p) \/ Cancelling(p)
Next ==
  \/ \E p \in Procs : Proceeds(p) \/ TimingOut(p)
  \/ Stopping \/ Asking \/ Crash
  \/ \E k \in Agents : Driving(k) \/ Looking(k)

Spec == Init /\ [][Next]_vars

\* Every task the program has started goes on and a turn comes to an end; nobody
\* must call, command, time out or crash. The one lock tasks wait for across an
\* await, recovery_gate, is a fair queue.
FairSpec ==
  /\ Spec /\ WF_vars(Stopping)
  /\ \A p \in Procs : SF_vars(Proceeds(p))
  /\ \A k \in Agents : WF_vars(Driving(k)) /\ WF_vars(Looking(k))

(* ------------------------------- properties ------------------------------ *)
TypeOK ==
  /\ \A a \in Agents :
       /\ log[a].st \in Over \cup {"none", "idle", "running"}
       /\ log[a].ready \cup log[a].paused \cup log[a].served \subseteq Msgs
       /\ log[a].ready \cap log[a].paused = {}
       /\ drive[a] \in {"off", "lead", "leave", "turn", "tool"}
  /\ handle \cup over \cup barred \cup detached \cup done \subseteq Kids
  /\ gate \in Procs \cup {"free"}
  /\ \A p \in Procs : call[p].todo \cup call[p].left \subseteq Kids

\* A driver runs only while its Agent is registered: whoever takes an Agent out of
\* the registry - dispose, suspension, a retry - has joined its driver first.
NoGhost == \A a \in Agents : drive[a] # "off" => entry[a].on

\* What a cancellation that has returned named is over for good: no retry, input
\* or wake brings it back, in this life of the process or the next.
CancelHolds == \A k \in done : Ended(k) /\ drive[k] = "off"

\* When the stop of the root returns, no driver below it runs and every one-shot
\* child has ended ...
StopIsQuiet == At(Stop, "stopped") =>
  \A k \in Kids : drive[k] = "off" /\ (k \notin Lasting => log[k].st = "none" \/ Ended(k))

\* ... and nothing it delegated can ever go on.
NoOrphan == At(Stop, "stopped") => \A k \in Kids : log[k].st = "none" \/ Ended(k)

\* No message starts two turns: neither an input nor the recovery of a failed turn,
\* whoever asks for it and how often.
ServedOnce == [][\A k \in Kids : \A m \in log[k].served : m \notin log'[k].ready]_vars

\* What was queued for a child is claimed, unless the child ends or pauses.
InputIsServed ==
  \A k \in Kids, m \in Msgs : (m \in log[k].ready) ~> (m \notin log[k].ready)

\* Every call of a tool and every command returns.
CallsEnd == \A p \in Callers \cup {User} : ~At(p, "none") ~> At(p, "none")
\* So does the stop.
StopEnds == ~At(Stop, "none") ~> At(Stop, "stopped")

\* A child that nobody sends anything comes to rest: its driver gives the slot back
\* and leaves it.
ChildRests == \A k \in Kids : <>[](drive[k] # "lead")
============================================================================
