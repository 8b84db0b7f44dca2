------------------------------- MODULE ReviewedSsh -------------------------------
(* One reviewed command on a remote host (execution/ssh.rs, cancellation.rs): the caller
   registers the operation under an id, a worker connects and runs the command, and whoever is
   first - a cancellation, the deadline or the caller that has the worker's outcome - settles
   the operation. Ids are used again while a worker of an earlier operation still holds its
   handle. *)
EXTENDS Naturals, FiniteSets

CONSTANTS
  Runs,     \* calls of execute_reviewed_ssh_command
  Ids,      \* operation ids
  None
ReviewedAssumption == None \notin Runs /\ Ids # {}

VARIABLES
  id,        \* the operation id of each call
  caller,    \* where the call is
  worker,    \* where its thread is
  terminal,  \* the entry both share
  late,      \* whether the deadline has passed
  registry,  \* the entry registered under each id
  box,       \* the worker's outcome on its way to the caller
  outcome,   \* the outcome the caller has
  result,    \* what the call returned
  command,   \* the command on its host
  held       \* whether the call or its worker still holds a handle
vars == <<id, caller, worker, terminal, late, registry, box, outcome, result, command, held>>

Init ==
  /\ id \in [Runs -> Ids]
  /\ caller = [r \in Runs |-> "idle"] /\ worker = [r \in Runs |-> "none"]
  /\ terminal = [r \in Runs |-> "running"] /\ late = [r \in Runs |-> FALSE]
  /\ registry = [i \in Ids |-> None] /\ held = [r \in Runs |-> FALSE]
  /\ box = [r \in Runs |-> "none"] /\ outcome = [r \in Runs |-> "none"] /\ result = [r \in Runs |-> "none"]
  /\ command = [r \in Runs |-> "none"]

Set(f, r, v) == [f EXCEPT ![r] = v]
Active(r) == caller[r] \in {"registered", "frozen", "waiting", "settling", "returning"}

(* ------------------------------- the terminal state ------------------------ *)
ClaimAnyway(r, what) == terminal' = Set(terminal, r, what)     \* mutant: a store in place of the exchange
Claim(r, what) == terminal' = IF terminal[r] = "running" THEN Set(terminal, r, what) ELSE terminal
\* What a look at the operation shows: a deadline that has passed is claimed on the way.
Seen(r) == IF terminal[r] = "running" /\ late[r] THEN "timedOut" ELSE terminal[r]
Ends(r) == Seen(r) # "running"
AsOutcome(state) == IF state = "finished" THEN "failed" ELSE state

Cancel(i) ==
  /\ registry[i] # None /\ Claim(registry[i], "cancelled")
  /\ UNCHANGED <<id, caller, worker, late, registry, box, outcome, result, command, held>>
Late(r) ==
  /\ Active(r) /\ ~late[r] /\ late' = Set(late, r, TRUE)
  /\ UNCHANGED <<id, caller, worker, terminal, registry, box, outcome, result, command, held>>

(* ----------------------------------- the call ------------------------------ *)
Register(r) ==
  /\ caller[r] = "idle"
  /\ IF registry[id[r]] = None
     THEN /\ registry' = Set(registry, id[r], r) /\ held' = Set(held, r, TRUE)
          /\ caller' = Set(caller, r, "registered") /\ UNCHANGED result
     ELSE /\ caller' = Set(caller, r, "refused") /\ result' = Set(result, r, "failed")
          /\ UNCHANGED <<registry, held>>
  /\ UNCHANGED <<id, worker, terminal, late, box, outcome, command>>
\* Before each stage the operation is looked at; a stage may find that the profile has
\* changed, or the credential is gone.
Stage(r, from, to) ==
  /\ caller[r] = from /\ Claim(r, Seen(r))
  /\ \/ /\ Ends(r) /\ caller' = Set(caller, r, "settling") /\ outcome' = Set(outcome, r, AsOutcome(Seen(r)))
     \/ /\ ~Ends(r) /\ caller' = Set(caller, r, "settling") /\ outcome' = Set(outcome, r, "failed")
     \/ /\ ~Ends(r) /\ caller' = Set(caller, r, to) /\ UNCHANGED outcome
  /\ worker' = IF caller'[r] = "waiting" THEN Set(worker, r, "start") ELSE worker
  /\ UNCHANGED <<id, late, registry, box, result, command, held>>
Revalidate(r) == Stage(r, "registered", "frozen")
Start(r) == Stage(r, "frozen", "waiting")
\* While it waits the caller looks at the operation every 25 ms.
Looks(r) ==
  /\ caller[r] = "waiting" /\ Ends(r) /\ Claim(r, Seen(r))
  /\ caller' = Set(caller, r, "settling") /\ outcome' = Set(outcome, r, AsOutcome(Seen(r)))
  /\ UNCHANGED <<id, worker, late, registry, box, result, command, held>>
Receives(r) ==
  /\ caller[r] = "waiting" /\ box[r] # "none" /\ Claim(r, "finished")
  /\ outcome' = Set(outcome, r, IF terminal[r] = "running" THEN box[r] ELSE AsOutcome(Seen(r)))
  /\ caller' = Set(caller, r, "settling") /\ box' = Set(box, r, "none")
  /\ UNCHANGED <<id, worker, late, registry, result, command, held>>
Verdict(r, state) == IF state \in {"cancelled", "timedOut"} THEN state ELSE outcome[r]
Settle(r) ==
  /\ caller[r] = "settling"
  /\ Claim(r, IF late[r] THEN "timedOut" ELSE "finished")
  /\ result' = Set(result, r, Verdict(r, terminal'[r])) /\ caller' = Set(caller, r, "returning")
  /\ UNCHANGED <<id, worker, late, registry, box, outcome, command, held>>
RemoveOwn(r) == registry' = IF registry[id[r]] = r THEN Set(registry, id[r], None) ELSE registry
Returns(r) ==
  /\ caller[r] = "returning" /\ RemoveOwn(r) /\ caller' = Set(caller, r, "done")
  /\ UNCHANGED <<id, worker, terminal, late, box, outcome, result, command, held>>
\* The last handle goes with the worker.
Drop(r) ==
  /\ held[r] /\ caller[r] = "done" /\ worker[r] \in {"none", "over"}
  /\ held' = Set(held, r, FALSE) /\ RemoveOwn(r)
  /\ UNCHANGED <<id, caller, worker, terminal, late, box, outcome, result, command>>

(* ---------------------------------- the worker ----------------------------- *)
Sends(r, what) == worker' = Set(worker, r, "over") /\ box' = Set(box, r, what)
\* The worker looks before it connects, before it opens a channel, and as it reads.
Stops(r) ==
  /\ worker[r] \in {"start", "channel", "collect", "closing"} /\ Ends(r)
  /\ Claim(r, Seen(r)) /\ Sends(r, AsOutcome(Seen(r)))
  /\ UNCHANGED <<id, caller, late, registry, outcome, result, command, held>>
Connects(r) ==
  /\ worker[r] \in {"start", "channel"} /\ ~Ends(r)
  /\ worker' = Set(worker, r, IF worker[r] = "start" THEN "connect" ELSE "open")
  /\ UNCHANGED <<id, caller, terminal, late, registry, box, outcome, result, command, held>>
Connected(r) ==
  /\ worker[r] = "connect" /\ worker' = Set(worker, r, "channel")
  /\ UNCHANGED <<id, caller, terminal, late, registry, box, outcome, result, command, held>>
Executes(r) ==
  /\ worker[r] = "open" /\ worker' = Set(worker, r, "collect") /\ command' = Set(command, r, "running")
  /\ UNCHANGED <<id, caller, terminal, late, registry, box, outcome, result, held>>
\* The connection, the channel or the start fails, the output exceeds its limit, or the
\* worker panics.
Fails(r) ==
  /\ worker[r] \in {"connect", "open", "collect", "closing"} /\ Sends(r, "failed")
  /\ UNCHANGED <<id, caller, terminal, late, registry, outcome, result, command, held>>
Over == {"ended"}
Eof(r) ==
  /\ worker[r] = "collect" /\ command[r] \in Over /\ ~Ends(r) /\ worker' = Set(worker, r, "closing")
  /\ UNCHANGED <<id, caller, terminal, late, registry, box, outcome, result, command, held>>
Status(r) ==
  /\ worker[r] = "closing" /\ ~Ends(r) /\ Sends(r, "completed")
  /\ UNCHANGED <<id, caller, terminal, late, registry, outcome, result, command, held>>
CommandEnds(r) ==
  /\ command[r] = "running" /\ command' = Set(command, r, "ended")
  /\ UNCHANGED <<id, caller, worker, terminal, late, registry, box, outcome, result, held>>

Call(r) == Register(r) \/ Revalidate(r) \/ Start(r) \/ Looks(r) \/ Receives(r) \/ Settle(r) \/ Returns(r)
Works(r) == Stops(r) \/ Connects(r) \/ Connected(r) \/ Executes(r) \/ Fails(r) \/ Eof(r) \/ Status(r)
Next ==
  \/ \E r \in Runs : Call(r) \/ Drop(r) \/ Works(r) \/ CommandEnds(r) \/ Late(r)
  \/ \E i \in Ids : Cancel(i)
Spec == Init /\ [][Next]_vars
\* The caller runs and time passes. A worker may hang in the network for ever.
FairSpec == Spec /\ \A r \in Runs : WF_vars(Call(r)) /\ WF_vars(Late(r))

(* --------------------------------- properties ------------------------------ *)
\* A worker sends once, as it ends, and a call that returns has settled its operation.
TypeOK ==
  \A r \in Runs : /\ worker[r] # "over" => box[r] = "none"
                  /\ caller[r] \in {"settling", "returning"} => outcome[r] # "none"
                  /\ caller[r] \in {"returning", "done"} => terminal[r] # "running"
\* cancellation.rs:91: the first of cancel, timeout and finish stays.
KeepsFirst == \A r \in Runs : terminal[r] # "running" => terminal'[r] = terminal[r]
FirstStays == [][KeepsFirst]_vars
\* What the call returns is what the operation was settled as: an acknowledged cancellation is
\* reported as one, and only a finished operation shows the worker's outcome.
ResultIsVerdict ==
  \A r \in Runs : caller[r] \in {"returning", "done"} =>
    IF terminal[r] = "finished" THEN result[r] \in {"completed", "failed"} ELSE result[r] = terminal[r]
\* A call that has not settled can be cancelled under its id, though earlier operations of the
\* same id still have their workers.
CancelReachesIt == \A r \in Runs : Active(r) => registry[id[r]] = r
\* A call is reported as completed when its command has ended.
CompletedRan == \A r \in Runs : result[r] = "completed" => command[r] = "ended"
\* Every call returns, whatever its worker does.
CallsReturn == \A r \in Runs : Active(r) ~> caller[r] = "done"
=============================================================================
