------------------------------ MODULE ModelStep ------------------------------
(* One step of the driver as it asks the model (driver.rs, stream_writer.rs): admission
   against the task's budget, the request, the stream of chunks through a buffer and a
   writer thread into the log, and what each way of ending does. Compaction and tools are
   other modules. Sizes are units of tokens; all chunks are text. *)
EXTENDS Naturals, Sequences, FiniteSets

CONSTANTS
  MaxTokens,     \* the task's budget, 0 for none
  Near,          \* how close to it the checkpoint is made
  Reserve,       \* tokens reserved for an answer; no answer is longer
  PolicyAttempts, NetworkAttempts,  \* of one call, for a transient and a network failure
  MaxChunks,     \* chunks of one answer
  BatchMax,      \* events in the buffer before it is flushed
  ChannelSize,   \* commands between the buffer and the writer
  MaxSteps, MaxFaults   \* bounds: steps of the turn, failed writes

StepAssumption ==
  /\ {MaxTokens, Near, Reserve, MaxChunks, MaxFaults} \subseteq Nat
  /\ {PolicyAttempts, NetworkAttempts, BatchMax, ChannelSize, MaxSteps} \subseteq Nat \ {0}

VARIABLES
  pc,        \* where the driver is
  run,       \* its locals: request, attempt, size of the frozen call, result, step, network window
  log,       \* the session's events of the turn
  sink,      \* the buffer and what has been collected
  channel,   \* commands for the writer
  lock,      \* who holds the buffer
  worker,    \* the thread that polls the provider
  flusher,   \* a flush: its place and its result
  broken,    \* the writer met an error
  cancelled, \* the Agent's token
  late,      \* deadlines that have passed
  faults     \* writes that failed

vars == <<pc, run, log, sink, channel, lock, worker, flusher, broken, cancelled, late, faults>>

Event(kind, req, size) == [kind |-> kind, req |-> req, size |-> size]
Append1(kind, size)    == log' = Append(log, Event(kind, run.req, size))
Of(kinds)              == SelectSeq(log, LAMBDA e : e.kind \in kinds)
Larger(a, b)           == IF a > b THEN a ELSE b
EmptySink == [batch |-> << >>, closed |-> FALSE, err |-> FALSE, got |-> 0]

Init ==
  /\ pc = "check"
  /\ run = [req |-> 0, attempt |-> 1, size |-> 0, res |-> "none", step |-> 1, net |-> FALSE,
            retry |-> "none"]
  /\ log = << >> /\ sink = EmptySink /\ channel = << >> /\ lock = "none"
  /\ worker = "gone" /\ flusher = [at |-> "idle", close |-> FALSE, ok |-> TRUE]
  /\ broken = FALSE /\ cancelled = FALSE /\ late = {} /\ faults = 0

Streams == <<sink, channel, lock, worker, flusher, broken>>
Outside == <<cancelled, late>>
Goto(p) == pc' = p /\ run' = run
End(res) == pc' = "end" /\ run' = [run EXCEPT !.res = res]

(* ------------------------- what the log says of the task ------------------------- *)
Tokens ==
  LET Sum[i \in 0..Len(log)] ==
        IF i = 0 THEN 0
        ELSE Sum[i - 1] + (IF log[i].kind \in {"context", "usage"} THEN log[i].size ELSE 0)
  IN  Sum[Len(log)]
\* Only the event of a failed checkpoint would stop the next one, besides the artifact.
Checkpointed == Of({"artifact", "unavailable"}) # << >>
Status ==
  LET states == Of({"running", "waiting"})
  IN  IF states = << >> THEN "running" ELSE states[Len(states)].kind
Statuses(kind) == IF Status = kind THEN << >> ELSE <<Event(kind, run.req, 0)>>
Decision(size) ==
  LET projected == Tokens + size + Reserve
  IN  IF MaxTokens = 0 THEN "continue"
      ELSE IF Tokens >= MaxTokens \/ projected > MaxTokens THEN "stop"
      ELSE IF ~Checkpointed /\ projected + Near >= MaxTokens THEN "checkpoint" ELSE "continue"

(* ---------------------------- before the request --------------------------- *)
Spent == MaxTokens > 0 /\ Tokens >= MaxTokens
StopForTokens ==
  \/ End(IF cancelled THEN "cancelled" ELSE "failed") /\ UNCHANGED <<log, faults>>
  \/ ~cancelled /\ Append1("exhausted", 0) /\ End("failed") /\ UNCHANGED faults
\* The head of the loop: cancellation, budgets, then the announcement of a retry.
Check ==
  /\ pc = "check" /\ UNCHANGED <<Streams, Outside>>
  /\ \/ cancelled /\ End("cancelled") /\ UNCHANGED <<log, faults>>
     \/ ~cancelled /\ Spent /\ StopForTokens
     \/ ~cancelled /\ ~Spent /\ "active" \in late /\ End("failed") /\ UNCHANGED <<log, faults>>
     \/ /\ ~cancelled /\ ~Spent /\ "active" \notin late /\ run.retry = "none"
        /\ Goto("build") /\ UNCHANGED <<log, faults>>
     \/ /\ ~cancelled /\ ~Spent /\ "active" \notin late /\ run.retry # "none"
        /\ log' = log \o (IF run.retry = "network" THEN Statuses("waiting") ELSE << >>)
                      \o <<Event("retry", run.req + 1, run.attempt)>>
        /\ Goto("delay") /\ UNCHANGED faults
Resume ==
  /\ log' = log \o (IF run.retry = "network" THEN Statuses("running") ELSE << >>)
  /\ run' = [run EXCEPT !.retry = "none"]
Delay ==
  /\ pc = "delay" /\ UNCHANGED <<Streams, Outside, faults>>
  /\ \/ cancelled /\ End("cancelled") /\ UNCHANGED log
     \/ pc' = "build" /\ Resume
\* A call is assembled once; its retries send the same one.
Build ==
  /\ pc = "build" /\ pc' = "admit" /\ UNCHANGED <<log, Streams, Outside, faults>>
  /\ IF run.size = 0 THEN \E s \in 1..2 : run' = [run EXCEPT !.size = s] ELSE UNCHANGED run
Checkpoint ==
  \/ ~cancelled /\ Append1("artifact", 0) /\ Goto("open") /\ UNCHANGED faults
  \/ cancelled /\ End("cancelled") /\ UNCHANGED <<log, faults>>
  \/ /\ ~cancelled /\ faults < MaxFaults /\ faults' = faults + 1
     /\ log' = log \o <<Event("tried", run.req, 0)>>
                   \o Statuses("running") \* the reason travels with a status that did not change
     /\ Goto("open")
Admit ==
  /\ pc = "admit" /\ UNCHANGED <<Streams, Outside>>
  /\ CASE Decision(run.size) = "stop"       -> StopForTokens
       [] Decision(run.size) = "checkpoint" -> Checkpoint
       [] OTHER                             -> Goto("open") /\ UNCHANGED <<log, faults>>
Open ==
  /\ pc = "open" /\ UNCHANGED <<Outside, flusher>>
  /\ \/ cancelled /\ End("cancelled") /\ UNCHANGED <<log, faults, sink, channel, lock, worker, broken>>
     \/ /\ ~cancelled /\ log' = Append(log, Event("context", run.req + 1, run.size))
        /\ sink' = EmptySink /\ channel' = << >> /\ lock' = "none" /\ broken' = FALSE
        /\ worker' = "ready" /\ pc' = "stream"
        /\ run' = [run EXCEPT !.req = @ + 1, !.res = "none"] /\ UNCHANGED faults
     \/ /\ ~cancelled /\ faults < MaxFaults /\ faults' = faults + 1 /\ End("error")
        /\ UNCHANGED <<log, sink, channel, lock, worker, broken>>

(* ------------------------------- the provider ------------------------------ *)
\* The child token: cancelled with the Agent's, or by the driver before it joins.
Child == cancelled \/ pc = "join"
WorkerOnly == UNCHANGED <<pc, run, log, flusher, broken, cancelled, late, faults>>
Accepts == ~sink.closed /\ ~Child
\* emit: the buffer is locked; a full one is sent to the writer first, inside the lock.
Emit ==
  /\ worker = "ready" /\ lock = "none" /\ sink.got < MaxChunks
  /\ IF sink.err \/ broken \/ ~Accepts
     THEN worker' = "done" /\ UNCHANGED lock
     ELSE worker' = "holds" /\ lock' = "worker"
  /\ UNCHANGED <<sink, channel>> /\ WorkerOnly
Full == Len(sink.batch) >= BatchMax
SendFull ==
  /\ worker = "holds" /\ Full
  /\ \/ broken /\ sink' = [sink EXCEPT !.err = TRUE, !.batch = << >>]
        /\ worker' = "done" /\ lock' = "none" /\ UNCHANGED channel
     \/ /\ ~broken /\ Len(channel) < ChannelSize
        /\ channel' = Append(channel, sink.batch) /\ sink' = [sink EXCEPT !.batch = << >>]
        /\ UNCHANGED <<worker, lock>>
  /\ WorkerOnly
Buffer ==
  /\ worker = "holds" /\ ~Full
  /\ sink' = [sink EXCEPT !.batch = Append(@, sink.got + 1)]
  /\ worker' = "buffered" /\ lock' = "none" /\ UNCHANGED channel /\ WorkerOnly
Collect ==
  /\ worker = "buffered" /\ sink' = [sink EXCEPT !.got = @ + 1]
  /\ worker' = "ready" /\ UNCHANGED <<lock, channel>> /\ WorkerOnly
\* The provider returns, or the worker sees its token cancelled.
Return ==
  /\ worker = "ready" /\ worker' = "done"
  /\ UNCHANGED <<sink, lock, channel>> /\ WorkerOnly

(* ----------------------------- the writer thread --------------------------- *)
Write ==
  /\ channel # << >> /\ Head(channel) # << >> /\ channel' = Tail(channel)
  /\ \/ broken /\ UNCHANGED <<log, broken, faults>>
     \/ /\ ~broken /\ UNCHANGED <<broken, faults>>
        /\ log' = log \o [i \in 1..Len(Head(channel)) |-> Event("chunk", run.req, Head(channel)[i])]
     \/ ~broken /\ faults < MaxFaults /\ faults' = faults + 1 /\ broken' = TRUE /\ UNCHANGED log
  /\ UNCHANGED <<pc, run, sink, lock, worker, flusher, cancelled, late>>
\* The fence is the empty command; its answer is whether an error was met.
Fence ==
  /\ channel # << >> /\ Head(channel) = << >> /\ channel' = Tail(channel)
  /\ flusher' = [flusher EXCEPT !.at = "done", !.ok = ~broken] /\ lock' = "none"
  /\ sink' = [sink EXCEPT !.err = @ \/ broken]
  /\ UNCHANGED <<pc, run, log, worker, broken, cancelled, late, faults>>

(* --------------------------------- a flush --------------------------------- *)
FlushOnly == UNCHANGED <<pc, run, log, worker, broken, cancelled, late, faults>>
StartFlush(close) == flusher' = [at |-> "lock", close |-> close, ok |-> TRUE]
FlushLock ==
  /\ flusher.at = "lock" /\ lock = "none"
  /\ sink' = [sink EXCEPT !.closed = @ \/ flusher.close]
  /\ IF sink.err
     THEN flusher' = [flusher EXCEPT !.at = "done", !.ok = FALSE] /\ UNCHANGED lock
     ELSE flusher' = [flusher EXCEPT !.at = "send"] /\ lock' = "flusher"
  /\ UNCHANGED channel /\ FlushOnly
Unfenced ==  \* mutant: the buffer is handed over, the writer not waited for
  /\ flusher' = [flusher EXCEPT !.at = "done"] /\ lock' = "none" /\ UNCHANGED channel
SendFence ==
  /\ Len(channel) < ChannelSize /\ channel' = Append(channel, << >>)
  /\ flusher' = [flusher EXCEPT !.at = "fence"] /\ UNCHANGED lock
FlushSend ==
  /\ flusher.at = "send" /\ FlushOnly
  /\ \/ /\ sink.batch # << >> /\ broken /\ sink' = [sink EXCEPT !.batch = << >>, !.err = TRUE]
        /\ flusher' = [flusher EXCEPT !.at = "done", !.ok = FALSE] /\ lock' = "none" /\ UNCHANGED channel
     \/ /\ sink.batch # << >> /\ ~broken /\ Len(channel) < ChannelSize
        /\ channel' = Append(channel, sink.batch) /\ sink' = [sink EXCEPT !.batch = << >>]
        /\ UNCHANGED <<flusher, lock>>
     \/ sink.batch = << >> /\ SendFence /\ UNCHANGED sink

(* ------------------------------ while it streams --------------------------- *)
Stop(res, p) == pc' = p /\ run' = [run EXCEPT !.res = res]
Deadlines == {"active", "stream"} \cup (IF run.net THEN {"network"} ELSE {})
Results == {"ok", "length", "transient", "network", "limit", "fatal"}
\* select!: cancellation, the deadline, the worker, the tick, in this order.
Select ==
  /\ pc = "stream" /\ UNCHANGED <<log, sink, channel, lock, worker, broken, Outside, faults>>
  /\ \/ cancelled /\ Stop("cancelled", "join") /\ UNCHANGED flusher
     \/ ~cancelled /\ late \cap Deadlines # {} /\ Stop("deadline", "join") /\ UNCHANGED flusher
     \/ /\ ~cancelled /\ late \cap Deadlines = {} /\ worker = "done"
        /\ \E res \in Results :
             \* a storage error is terminal, and there is no answer without a chunk
             /\ sink.err \/ broken => res = "fatal"
             /\ res \in {"ok", "length"} => sink.got > 0
             /\ Stop(res, "close")
        /\ StartFlush(TRUE)
     \/ /\ ~cancelled /\ late \cap Deadlines = {} /\ worker # "done" /\ sink.batch # << >>
        /\ Goto("tick") /\ StartFlush(FALSE)
Ticked ==
  /\ pc = "tick" /\ flusher.at = "done" /\ flusher' = [flusher EXCEPT !.at = "idle"]
  /\ IF flusher.ok THEN Goto("stream") ELSE Stop("fatal", "join")
  /\ UNCHANGED <<log, sink, channel, lock, worker, broken, Outside, faults>>
Joined    == worker = "done"
Join ==
  /\ pc = "join" /\ Joined /\ Goto("close") /\ StartFlush(TRUE)
  /\ UNCHANGED <<log, sink, channel, lock, worker, broken, Outside, faults>>
Close ==
  /\ pc = "close" /\ flusher.at = "done" /\ flusher' = [flusher EXCEPT !.at = "idle"]
  /\ CASE ~flusher.ok -> End("error")
       [] flusher.ok /\ cancelled  -> Stop("cancelled", "settle")
       [] flusher.ok /\ ~cancelled -> Goto("settle")
  /\ UNCHANGED <<log, sink, channel, lock, worker, broken, Outside, faults>>

(* -------------------------------- settlement ------------------------------- *)
Interrupted == IF sink.got = 0 THEN << >> ELSE <<Event("interrupted", run.req, sink.got)>>
Failure     == <<Event("failure", run.req, run.attempt)>>
Writes(events, res) == log' = log \o events /\ End(res) /\ UNCHANGED faults
Cancelled == run.res = "cancelled" /\ Writes(Interrupted, "cancelled")
Overdue   == run.res = "deadline" /\ Writes(Interrupted \o Failure, "failed")
Fatal     == run.res = "fatal" /\ Writes(Failure, "failed")
\* Twice the token is looked at before the answer is written.
Commit ==
  /\ run.res = "ok"
  /\ \/ cancelled /\ End("cancelled") /\ UNCHANGED <<log, faults>>
     \/ ~cancelled /\ \E out \in 0..Reserve :
          Writes(<<Event("message", run.req, sink.got), Event("usage", run.req, out)>>, "done")
Continuations == Len(Of({"continue"}))
\* A partial answer is kept and the turn goes on, at most twice.
SettleLimit(before, usage) ==
  LET more == Continuations < 2
  IN  /\ log' = log \o before \o Interrupted \o usage
                    \o (IF more THEN <<Event("continue", run.req, 0)>> ELSE << >>)
                    \o <<Event("stepEnd", run.req, 0)>>
      /\ End(IF more THEN "tools" ELSE "failed") /\ UNCHANGED faults
Length ==
  \/ run.res = "length" /\ cancelled /\ End("cancelled") /\ UNCHANGED <<log, faults>>
  \/ run.res = "length" /\ ~cancelled /\ SettleLimit(<< >>, <<Event("usage", run.req, Reserve)>>)
  \/ run.res = "limit" /\ SettleLimit(Failure, << >>)
\* RetryPolicy::plan, then the network's own recovery within its window.
MayRetry == run.attempt < PolicyAttempts
Plan ==
  IF MayRetry THEN "ordinary"
  ELSE IF run.res = "network" /\ run.attempt < Larger(NetworkAttempts, PolicyAttempts) /\ "network" \notin late
       THEN "network" ELSE "none"
NextAttempt(plan) ==
  run' = [run EXCEPT !.retry = plan, !.attempt = @ + 1, !.net = @ \/ run.res = "network"]
Retry ==
  /\ run.res \in {"transient", "network"} /\ log' = log \o Failure /\ UNCHANGED faults
  /\ IF cancelled THEN End("cancelled")
     ELSE IF Plan = "none" THEN End("failed") ELSE pc' = "check" /\ NextAttempt(Plan)
Unsettled == faults < MaxFaults /\ faults' = faults + 1 /\ End("error") /\ UNCHANGED log
Settle ==
  /\ pc = "settle" /\ UNCHANGED <<Streams, Outside>>
  /\ Cancelled \/ Overdue \/ Fatal \/ Commit \/ Length \/ Retry \/ Unsettled
\* The driver goes on with the next step of the turn.
NextStep ==
  /\ pc = "end" /\ run.res \in {"tools", "done"} /\ run.step < MaxSteps
  /\ pc' = "check" /\ run' = [run EXCEPT !.attempt = 1, !.size = 0, !.res = "none",
                                         !.step = @ + 1, !.net = FALSE, !.retry = "none"]
  /\ late' = late \ {"stream", "network"} /\ UNCHANGED <<log, Streams, cancelled, faults>>

(* ---------------------------------- outside -------------------------------- *)
Cancel ==
  /\ ~cancelled /\ pc # "end" /\ cancelled' = TRUE
  /\ UNCHANGED <<pc, run, log, Streams, late, faults>>
\* Time passes: the window only once it is open, the stream's limit while it runs.
Expire(d) ==
  /\ d \notin late /\ late' = late \cup {d} /\ pc # "end"
  /\ d = "network" => run.net
  /\ d = "stream" => pc \in {"stream", "tick"}
  /\ UNCHANGED <<pc, run, log, Streams, cancelled, faults>>

DriverStep == Check \/ Delay \/ Build \/ Admit \/ Open \/ Select \/ Ticked \/ Join \/ Close \/ Settle
InEmit == SendFull \/ Buffer \/ Collect
Writer == Write \/ Fence
Flush  == FlushLock \/ FlushSend
Next ==
  \/ DriverStep \/ NextStep \/ Emit \/ InEmit \/ Return \/ Writer \/ Flush \/ Cancel
  \/ \E d \in {"active", "stream", "network"} : Expire(d)

Spec == Init /\ [][Next]_vars
\* The provider may be silent for ever; the token, the threads and the deadline are not.
FairSpec ==
  /\ Spec /\ WF_vars(DriverStep) /\ WF_vars(Writer) /\ WF_vars(Flush)
  /\ WF_vars(InEmit) /\ WF_vars(Return /\ Child) /\ WF_vars(Expire("stream"))

(* -------------------------------- properties ------------------------------- *)
\* Each part of the state keeps to its values; a lock is held only by a thread inside it.
TypeOK ==
  /\ pc \in {"check", "delay", "build", "admit", "open", "stream", "tick", "join", "close",
             "settle", "end"}
  /\ run.retry \in {"none", "ordinary", "network"} /\ run.size \in 0..2
  /\ worker \in {"ready", "holds", "buffered", "done", "gone"} /\ (lock = "worker") = (worker = "holds")
  /\ flusher.at \in {"idle", "lock", "send", "fence", "done"}
  /\ (lock = "flusher") = (flusher.at \in {"send", "fence"})
  /\ Len(channel) <= ChannelSize /\ faults <= MaxFaults

Chunks(r)  == SelectSeq(log, LAMBDA e : e.kind = "chunk" /\ e.req = r)
Settling   == {"message", "interrupted", "failure", "usage"}
\* The chunks of a request are in the log in the order they came, none is missing between
\* two, and none comes after the events that settle the request or open another.
ChunksInOrder ==
  /\ \A r \in 1..run.req : \A i \in 1..Len(Chunks(r)) : Chunks(r)[i].size = i
  /\ \A i, j \in 1..Len(log) :
       i < j /\ log[j].kind = "chunk" =>
         ~(log[i].kind \in Settling \cup {"context"} /\ log[i].req # log[j].req /\ log[i].req > log[j].req)
         /\ ~(log[i].kind \in Settling /\ log[i].req = log[j].req)
\* What is kept of an answer, whole or interrupted, is what was shown of it: every
\* collected chunk is in the log before it, and the log has no other.
KeptIsShown ==
  \A i \in 1..Len(log) : log[i].kind \in {"message", "interrupted"} =>
    log[i].size = Len(Chunks(log[i].req))
\* Whatever is retried, the estimated tokens of a task stay within its budget.
WithinBudget == MaxTokens > 0 => Tokens <= MaxTokens
\* A request is asked while the session runs, never while it is said to wait.
AskedWhileRunning == pc \in {"stream", "tick", "join", "close", "settle"} => Status = "running"
\* A call is tried a bounded number of times, transient and network failures together.
TriedBounded == run.req <= run.step * Larger(PolicyAttempts, NetworkAttempts)
\* The comment at the failed checkpoint (driver.rs:1278): it is recorded so that it is
\* not tried again on every step.
TriedOnce == Len(Of({"artifact", "tried"})) <= 1
\* A request that is cancelled or too old settles, whatever the provider does.
StepSettles == pc = "stream" ~> pc \in {"check", "end"}
=============================================================================
