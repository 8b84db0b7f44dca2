# Verification of ShellSpan

ShellSpan is a desktop SSH, SFTP and terminal client (Tauri: a Rust process and a
TypeScript front end) with an agent that works in the user's terminals.  These TLA+
modules model the parts of it in which several threads, tasks, processes and people act at
once, or in which a crash, a failed step or a late answer can come between: the durable
record of an Agent Session, the concurrent commands that drive it, its tools and children,
the terminals it shares with the user, connections, transfers, forwards and files.

Paths below are relative to the repository; `ar/` stands for
`src-tauri/src/agent_runtime/`, `t/` for `src-tauri/src/`.

## 1. Inventory

| part | state | operations | hard because |
|---|---|---|---|
| session store (`ar/session.rs`, `event.rs`) | one append-only JSONL log per Session; its projection: inbox, status, ended, archived | enqueue, mutate, begin turn/step, end, pause, cancel, terminate, resume, archive, load and repair | a batch is several lines, a crash keeps any prefix; the log is repaired by appending, and the repair may be torn |
| inbox (`ar/inbox.rs`) | lanes nextTurn and nextStep, paused ids, ids seen | enqueue, claim, discard, remove, reorder, steer, pause, resume; replay | replay must refuse nothing the store wrote |
| registry (`ar/registry.rs`) | per attached Session: admission, phase, cancellation, scope, one worker slot | attach, acquire, reserve, stop, finish, detach, suspend | entries are replaced while old tasks may still run |
| runtime (`ar/runtime.rs`) | handles, stop fence, terminal submission gate | submit, start, wake, answer, decide, reserve and release, stop, archive, reconnect, bind, recover | lost wake-ups; commands on three kinds of threads |
| driver (`ar/driver.rs`) | the task of one entry | claim, request, commit, settle | reads before awaits, settlement races |
| a step's request (`ar/driver.rs`, `stream_writer.rs`), loop detection (`driver_progress.rs`) | budget, retries, buffer and writer thread; running counts | admit, stream, flush, settle, retry; count, warn, stop | chunks and settlements reach the log by two ways |
| compaction and surface (`ar/compaction.rs`, `surface.rs`) | summaries and markers in the log | compact at four places, derive the surface | one failed append leaves the log underivable |
| user questions (`ar/user_questions.rs`) | open questions in the log, a gate | ask, answer, continue, cancel, restore | an answer commits while the driver lets go |
| tool pipeline (`ar/tool_pipeline.rs`, `recovery.rs`) | prepared, approved, dispatched calls; a checkpoint derived from the log | prepare, approve, dispatch, result, expire, cancel, resume, reconcile | effects whose outcome a crash hides |
| sub-agents and fleet (`ar/subagent.rs`) | a tree of Sessions; a plan over targets | spawn, send input, retry, wait, suspend, cancel descendants; start, resume, pause, abort, reconcile | parent and child stop, time out and wake each other |
| providers (`t/llm/`) | frames, accumulators, deadlines; routes and their secrets | stream, accumulate, finish, fail; save, edit, recover | a cut stream looks like half an answer; two stores, one crash |
| terminal lease (`ar/native/terminal_lease.rs`, `terminal_execute.rs`) | turn guards, leases, take-overs | begin turn, acquire, write, release, take over | four locks, a user at the same keyboard |
| interactive input (`ar/native/terminal_interactive.rs`) | registered operations, tombstones | register, type, release, take over | a lease that outlives the call that took it |
| background jobs (`ar/native/terminal_jobs.rs`, `t/terminal_broker.rs`) | records fed by a control channel | launch, look, stop, clean up | everything is said through one prompt |
| native processes (`ar/native/process.rs`), captures (`t/execution/output.rs`) | a registry, mailboxes, one worker each | spawn, write, wait, kill, settle | a process, its worker, callers, deadlines and a cancellation |
| file tools (`ar/native/filesystem.rs`, `checkpoint.rs`) | checkpoints, cursors | write, patch, transfer, trash; list, search, read | remote replacement takes several requests |
| terminals (`t/session.rs`, `models.rs`, `commands.rs`, `connection/terminal_deadline.rs`) | sessions, generations, output flags | create, publish, close, replace, evict; local shells | four threads meet in the registry |
| SFTP pool (`t/sftp_pool.rs`) | pooled connections, in-flight slots | lead, follow, time out, verify, evict | a late leader and its successor |
| transfers and batches (`t/remote_fs.rs`) | temporaries, backups, progress | upload, copy, download, delete, publish, roll back | any request may fail after it was executed |
| known hosts and connections (`t/known_hosts.rs`, `connection.rs`) | the file; hops of a connection | trust, remove, check, preflight | the file is rewritten in place |
| port forwarding, loopback probes (`t/port_forward.rs`, `ar/http_probe.rs`) | operations, cancel flags, bridges, a scope | start, stop, prune, copy; probe | worker, replies and events go different ways |
| reviewed execution (`t/execution/`) | one terminal state per operation | register, cancel, time out, finish | three racers, an id used again |
| key chain (`t/keychain.rs`) | one item of secrets | read, change, write back | refers to rows of another store |
| pet (`t/petdex/`) | runs, results, bubbles, settings | fold, expire, copy, compare | a copy that is stale when written |
| directory requests, the view's queue of path operations, skills, artifacts, images, database, logs, UI | | | not modelled, section 7 |

How they meet.  A front-end command enters the runtime, which commits to the session
store first and then *wakes* the driver through the registry's slot; the driver claims
input and commits responses through the store, runs tools through the pipeline, which
takes terminal leases, starts processes, opens pooled SFTP connections and spawns children;
questions and approvals leave a turn open and let go of the slot; stop and archive close the
entry and settle the record.  The store is one lock, and the registry's gates and slot
order everything else.  The terminal broker, the connection code and the transfers serve
the user's own commands in the same way and know nothing of Sessions.

What makes each part correct: the store keeps every accepted message and sends it to the
model at most once, whatever a crash leaves of a batch; nothing restored runs unasked; a
Session is driven by one task; a stop is final before it reports; no accepted input or
answer is left without a driver; an effect is never repeated; an answer is the whole of what
was said; a terminal has one author; a late leader, result or request never replaces its
successor's; a file is whole, old or new; a caller gets an answer and is told what happened.

## 2. Modules

One module per component.  Each states its state, one action per operation or critical
section, the fairness of its own threads, and its properties; each header says what is left
out.  Sections named *mutants* hold plausible bugs of the definition after them, which no
specification uses: they show that the properties can fail.
The map of `PROJECT.json` lists the definitions that between them stand for the lines of a
component; a helper whose lines lie inside another's is not listed separately.

### The Session and its driver

`AgentSession` -- one Session's record and every operation on it.  `inbox`, `log`, `said`,
`status`, `ended`, `archived` are the projections the code scans its log for: `log.claims`
the StepInputClaim records, `log.open` and `log.live` the two scans for the open turn and
step (`pause_input`, `recover_open_scope`; only the second is reset by a resumed Session),
`said` the UserMessage events of claimed messages.  An operation checks the record and hands
over a batch (`Write`); `WriteEvent` moves one event of it to the log and is where
`validate_event_transition` (`Admits`, `Fits`) and the inbox replay apply.  No operation
starts while `pending` is not empty, because the store holds its lock; a `Crash` in
between leaves the prefix that was written.  After it `RepairClaims`
(`repair_step_claims`), `PauseRestored` and `OpenForService` are the load.  `stage`, `scope`
and `halt` are the driver reduced to where it is in its turn and whether a stop waits.

`AgentMailbox` -- the abstract specification: each message has one fate (absent, queued,
held, delivered, dropped), delivered and dropped are final, only queued messages are
delivered, and a restart leaves none queued.  `AgentSession` implements it; `Fate` is the
refinement mapping: a message is delivered when its claim intent is in the log, which is
the first event of the batch that consumes it.

`AgentDriver` -- who drives a Session.  Each attachment is an entry with an admission flag,
a phase, a cancellation token, a scope and a slot (`lease`).  Tasks run `drive_agent` and
the loop around it in `wake` (`Top`, `SettleIdle`, `Begin`, `Work`, `Pause`, `Fail`,
`SettleWaiting`, `Release`, `Recheck`).  `main` is the main thread, which runs synchronous
commands one at a time (start, inbox mutations, answer, archive and the other reservations);
`submit`, `reconnect` and `stop` are the asynchronous ones.  The record is reduced to what
waking depends on: how much input is ready or held, whether a question is asked or answered,
the status, the end.  Each critical section of the code (admission gate, question gate,
terminal submission gate, store lock) is one action.

### An agent's work

| module | models | reduced or left out |
|---|---|---|
| `ToolCalls` | the calls of one step, from the assistant's message to the next request: admission, parallel reads, barriers, approvals, decisions, expiry, cancellation, crash, checkpoint, reconciliation | recovery commands only while the agent waits; a crash only before the next request; child budgets, artifacts |
| `SubAgents` | the tree: spawn, continuation, retry, wait with time-out, suspension, cancellation of a subtree, stop of the root, restart | one call per parent at a time, budgets are numbers, a crash only while no child is inside a turn |
| `Fleet` | plan, waves, the four roles, threshold, pause, abort, reconcile, the copy in the parent's log | errors that end a run in mid-target |
| `ModelStep` | one step's requests: budget admission, buffer, channel, writer thread and fence, retries, deadlines, cancellation | sizes are units, an answer is no longer than its reserve |
| `ProviderStream` | a streamed answer in four dialects (five adapters): framing, accumulation, what is shown, deadlines, ends, error kinds | a text is a number of fragments, frames are handed over one by one |
| `Compaction` | the surface derived from the log, `compact`, its four call sites, pauses, crashes | sizes are units, one call per step |
| `LoopDetector` | the running count of repeated tool steps against the definition `Cycles` on the whole sequence; warning and stop | a signature is a value |
| `PetArbiter` | what the desktop pet is told: runs, results, prompts, three bubbles, copies of them | delivery to the pet's process; a revision is in the set `changed` once it has grown |

### Terminals and processes

| module | models | reduced or left out |
|---|---|---|
| `TerminalLease` | turn guards, leases, typed and native commands, take-over, roll-back, the broker's input admission | PowerShell, private job control, animation |
| `InteractiveTerminal` | the operation an agent's keys belong to | lease manager and broker owner are one variable |
| `TerminalSessions` | remote terminals: creation under a deadline, attach, publish, loop, close, generations, eviction, the agents of a terminal | shell integration, keepalives |
| `LocalShell` | reader, waiter, worker, held-back start, pause, split characters, watchdog | what a line does to the shell; Windows' console |
| `ShellJobs` | a background job observed through prompt lines and a control channel | its shell runs the EXIT trap; a clean-up has 5 s, more than a line's 2 s |
| `NativeProcess` | processes outside the terminal, their workers, controls, deadlines and callers | a process is its group |
| `OutputCapture` | front and tail of each stream, cut at characters | a byte is its place in its character |

### Connections, transfers and files

| module | models | reduced or left out |
|---|---|---|
| `SftpPool` | lookup, probe, leader and followers, time-outs, panic guard, ageing, invalidation | activity owners |
| `RemoteTransfer` | staged uploads and copies with publication, backup, rollback; a request may be executed and reported as failed | directories as sources, permissions, times |
| `RemoteBatch` | batches of uploads, downloads, deletions | a single upload is a step |
| `HostTrust` | the known-hosts file, checks, hops, preflight | one lock, complete lines; markers and hashed names |
| `RouteStore` | the vault, model routes with their journal, a key's secret and row | single faults; validity of a route |
| `PortForward` | one rule: workers, events, replies, the view's store and its owners | several rules; main-thread commands are serial |
| `ForwardBridge` | the copying threads of a forward's connections and the SSH session's mutex | half-closed connections; a target answers within the read's 15 s |
| `LoopbackProbe` | a private connection with its scope, jump thread, pump, deadline | HTTP framing; the server may stall anywhere |
| `FileTools` | the calls that change a file, checkpoints, cancellation, remote replacement in requests | a content is a value |
| `FilePages` | list, search, read in pages while files change | |
| `ReviewedSsh` | one reviewed command: registration, cancellation, deadline, worker | validation is a step that may fail; only test builds call it in this commit |

### Composition

`MCAgentSession` and `MCAgentDriver` give `AgentSession` and `AgentDriver` their constants.
The other components share no state with each other, so that a composition of two would
only multiply their states; four modules hold them side by side instead.
`MCAgentWork`, `MCTerminals`, `MCRemote` and `MCProgress` instantiate
one to three small instances of each component, a variable `part` picks the one a
behaviour is about, and the others stay in one initial state.  Each property of these
modules is a conjunction "in part p, P holds" of the components' own properties that answer
the same question; the `ASSUME Instances` in each has TLC check the components'
assumptions.  `VIEW Seen` drops the variables that do not change.

## 3. Runs

| run | instance | what it shows |
|---|---|---|
| `session_safety` | root, 3 messages (1 of a user), 2 turns, 3 steps, 1 crash; 1.95 M states | no operation's batch is refused half-way (`BatchAccepted`); a message is said at most once (`ExactlyOnce`), is always in one place (`NothingLost`), and reaches the step that claimed it, in order (`TranscriptFollowsClaims`); an ended Session holds no runnable input; driver and log agree on the open scope |
| `session_restarts` | root, 2 messages, 2 crashes; 348 k states | turns and steps nest through every torn batch; only what a user of this process submitted or resumed is claimed; the mailbox is implemented; a load ends |
| `session_torn_end` | 2 messages, 1 crash | *violated*: finding 1 |
| `driver_safety` | 2 tasks, 2 attachments, 2 messages, 1 question, 1 reservation of any command, both kinds of pause; 175 k states | one driver, slot ownership, a stop that is quiet, questions that have a turn |
| `driver_liveness` | 1 attachment, reservations that wake afterwards, the pause that looks again; 95 k states | ready input is taken, accepted answers continue, stops end |
| `driver_reconnect` | as above with the reconnect's reservation | *violated*: finding 2 |
| `driver_budget_pause` | as above with the budget pause | *violated*: finding 3 |
| `agent_work` | parts tools, child (the Session of a sub-agent: 2 messages, 1 turn, 2 crashes), kids, tree, fleet, compaction, step, loop, stream, pet; 1.54 M states | what is done is not done again (`DoneOnce`), stops hold (`StopsHold`), what acts may act, in an order log and provider accept (`AsPermitted`), an answer is whole and logged in order (`AnswersAreWhole`), waves, owners and messages keep their order (`StepsInOrder`) |
| `terminals` | parts lease, family, rollout, ssh, agents, views, typing, shell, interactive, closed, jobs, degraded, process, remote, input, capture; 1.97 M states | one author per terminal, nothing left behind, streams in order, ends are final |
| `process_cancelled` | the same | *violated*: finding 4 |
| `remote` | parts sftp, transfer, batch, trust, rotation, routes, forward, forwards, bridge, greeting, probe, files, pages, reviewed; 3.06 M states | nothing is lost, reports are true, what is settled stays; for the pool: every claimed key has its leader, no redundant handshake, no entry displaced |
| `progress` | parts tools, step, sftp, forward, orphan, probe, pages, process, compaction, stream, files, lease, fleet, ssh, interactive, jobs; 180 k states | under the fairness of the parts' own threads a call ends (`CallsEnd`) and what is stopped comes to rest (`StopsEnd`) |

Each takes between a few seconds and three minutes with two workers.

Bounds.  *Session*: three messages give two in one lane plus one in the other, every order
of a claim of two, and a message submitted behind both; the messages of the runtime are
interchangeable (symmetry), the user's is not, since only it can be steered.  Two turns of
which the limit is reached and three steps cover a turn that continues and a turn after it.
One crash may fall between any two events; the second one of `session_restarts` falls inside
the repair of the first.  *Driver*: two tasks are all that can matter to one slot and a stale
entry; two attachments give a stopped entry and its successor; two messages, one that is
being worked on and one that arrives meanwhile.  *Parts*: the comment before each instance
says what it is; the choice is two actors that race, one more thing than they can hold, one
fault, and one crash where something is durable.  Loop detection runs over every sequence
longer than twice its longest cycle; captures over every text of three characters of up to
three bytes around limits of four and two.  Some actions are not fired by the instances chosen
here, because the instance in which they matter is too large beside the others:
time-outs of a parent's wait and its children's pauses (598 k states), a wake between the
calls of a step (431 k), a paused local shell (859 k), the crash of a fleet, a second step of
`ModelStep`, an error inside a stream, lost file requests, the roll-back of a lease between
two agents (1.2 and 1.6 M before late events were let in), a terminal that closes under two
agents (5.6 M).  They were checked in instances of their own, where the properties of the
runs hold, and the modules keep the constants that enable them.  The one exception is a second
run of a fleet's plan beside the first, which is in no run: see section 4.
Deadlock is not an error in any run: an archived Session, a closed terminal, and a run whose
bounds are used up, stop.

Fairness.  `AgentSession`: a write in hand and the load go on (`WriteEvent`,
`RestartStep`): both run on one thread under the store lock; no user step is fair, and
neither is the driver.  `AgentDriver`: every task and every command under way takes its next
step if it can (the Tokio scheduler and the main loop), a step of a turn ends (model
requests have deadlines, tools are joined), and users owe nothing.  `driver_liveness` has
only the archive and surface reservations and the `executionInput` pause because the others
lose wake-ups: that is what the two violated runs show.  `MCProgress`: `Fair(i)` lists
the weakly fair steps of each part, one per thread, task or blocked caller; a deadline
passes; a network, a provider, a process and a user owe nothing.  Three are narrower than
"the thread goes on": a terminal's dial and shell requests are fair once the deadline has
cut their sockets (`attempt.cut`), a turn's end in `interactive` once it was cancelled, and
a caller of a process once it waits.

## 4. Findings

1. *Torn end.*  `terminate` and `archive` write the terminal status and the end of the
   Session as two events.  A crash between them leaves a record which refuses every batch, which
   `cancel` will not close unless the status is Cancelled, and which is neither ended nor
   idle: it can be neither resumed nor archived.  `reliable-submission.md:93-94` promises
   that every complete prefix of the log remains recoverable.
2. *Reconnect loses an answer.*  `reconnect_terminal` takes the worker slot and drops it
   without waking.  A question answered meanwhile stays answered, with no driver, until the next
   command wakes the Session.  Archive and the choice of the surface wake again for
   this very reason (`ar/runtime.rs:2136-2140`); `bind_project_root` has the same
   shape as the reconnect.
3. *Budget pause loses a message.*  After `pause_context_budget` the driver settles as
   Waiting although the Session is idle, so it does not look for input once more when it has
   let go of the slot; a message committed in that window is acknowledged and left.
4. *Cancelled while it starts.*  `exec_command` looks at the registry, spawns its process and
   enters it in three steps; `cancel_task` lists the registry once.  A process spawned before
   the list and entered after it is neither killed nor reported: the cancellation says Ok and
   the process runs on.  `file-and-script-execution.md:73-75` promises that a cancellation
   returns an error for every handle still reported as running.

Writing the modules met more of the kind.  Each row is a property as one would like to state
it, and where the code breaks it.  Where the runs claim a part of it, the instances contain the
steps that break the whole, and the property is stated with the exception, in the module
and in the comment of the run's property: last column.  The other rows no run claims.

| property | fails when | because | what the runs claim |
|---|---|---|---|
| `SftpPool!DiscardedStaysOut` | two callers | a leader whose second lookup hits publishes what another has discarded since (`t/connection.rs:120`) | -- |
| `RemoteTransfer!DirectoriesSpared` | another client writes | the destination's kind is read before the rename (`t/remote_fs.rs:4285`) | -- |
| `RemoteTransfer!NoSplice`, `NoPartialFile` | the source changes | a copy resumes by the size of its temporary (`t/remote_fs.rs:2404`) | whole files of sources that keep still |
| `RemoteBatch!OwnDownloadsKept` | policy overwrite | two entries of one name (`t/remote_fs.rs:1425`) | -- |
| `RemoteBatch!CompletedIsThere` | an entry is a link | any error of a link's download ends in an empty file and Ok (`t/remote_fs.rs:1645`) | entries that are no links; a link may be empty |
| `RemoteBatch!AllDiscoveredRemoved` | a directory has a child | children are added to the total twice (`t/remote_fs.rs:3727`) | -- |
| `TerminalLease!OneAuthor`, `OwnInterrupts`, `DirtyIsGuarded` | an answer of the view or a deadline overtakes an event of an earlier key | an earlier prompt unlocks a line with half a command (`t/terminal_broker.rs:2671`) | all three, unless that has happened (`shell.hasty`) |
| `TerminalLease!TakeoverFencesFamily`, `InteractiveTerminal!TakenOverIsQuiet` | an agent delegates after a take-over | acquisition looks for the agent alone among the fenced (`ar/native/terminal_lease.rs:367`) | agents that were in a turn at the take-over |
| `InteractiveTerminal!CancelledIsQuiet` | a stop comes while a call waits for the view | a cancellation releases registered operations only (`ar/native/terminal_interactive.rs:460`) | -- |
| `InteractiveTerminal!NothingOutlivesTurns`, `LeaseIsRegistered` | a call registers between the sweeps of a turn's end | entries are removed by terminal after their leases (`ar/native/terminal_interactive.rs:496`) | all but operations whose place another registration took (`orphans`) |
| `TerminalSessions!UserCloseIsLocal` | any close | Close and the dropped sender arrive together (`t/session.rs:1000`) | -- |
| `LocalShell!ShellDiesWithSession` | a shell ignores SIGHUP | the killer only sends it (`t/commands.rs:880`) | -- |
| `ToolCalls!HistoryIsComplete` | `Wakes` > 0, or a crash in mid-step is resumed | the driver asks while calls of the step have no result (`ar/tool_pipeline.rs:2786`, `ar/runtime.rs:2335`) | -- |
| `ToolCalls!ApprovalsExpire` | a decided step asks again | the watcher has ended (`ar/tool_pipeline.rs:2888`) | -- |
| `ToolCalls!StopIsQuiet` | an expired call is followed by a barrier | stop does not join what the watcher of expiry runs (`ar/runtime.rs:1851`) | calls the watcher of expiry does not run |
| `SubAgents!NoOrphan` | a spawn during a stop | children are listed once (`ar/subagent.rs:940`) | -- |
| `SubAgents!ChildRests` | `MaxPauses` > 0 | the wake loop looks at paused messages as well (`ar/subagent.rs:1411`) | -- |
| `SubAgents`: a parent's wait ends | a user retries a failed child before the wait has looked | it watches the Agent that was replaced (`ar/subagent.rs:1319`) | -- |
| `Fleet!CompletedMeansDone`, `WorkedOnce`, `WavesInOrder`, `ThresholdHolds` | two runners, or a crash in mid-target | only *planned* targets are taken (`ar/subagent.rs:594`, `:613`) | the last three, of a plan that one run at a time works on |
| `Fleet!TerminalStays`, `AbortIsQuiet` | an abort beside a run | the run looks at the status only before it takes a target (`ar/subagent.rs:391`, `:724`) | -- |
| `PortForward!StartsAgain` | a stop's reply comes after the worker's last event | the view is left at *stopping* (`t/commands.rs:2722`) | -- |
| `PortForward!KeptForOwner` | a connection opens while the last owner closes | it is given the forward that is about to stop (`src/stores/portForwardStore.ts:281`) | -- |
| `ForwardBridge!AnswersArrive` | a local forward whose client speaks first | the reader waits inside the mutex the writer needs (`t/port_forward.rs:1030`) | -- |
| `RouteStore!NoOrphans` | two accesses fail | journal entries of secrets that could not be deleted are cleared (`t/llm/routes.rs:407`) | one failed access at most, as is proved |
| `Compaction!HistoryAccepted` | a call of unknown outcome is summarised before it is settled | an uncertain result counts as a result (`ar/compaction.rs:1226`) | all other calls; such a call stays listed (`UnknownStaysKnown`) |
| `ModelStep!TriedOnce` | a checkpoint fails | the record of the attempt is not written when the status does not change (`ar/driver.rs:1281`) | -- |
| `ProviderStream!LimitIsLimit` | the limit is reached inside a tool call | Anthropic closes the tool block first (`t/llm/adapters/anthropic/mod.rs:867`) | -- |
| `ProviderStream!SameRecovery` | an error with a null code | the type is then not looked at (`t/llm/transport/stream.rs:289`) | -- |
| `FileTools!ReplacesWhatWasReviewed`, `NothingVanishes` | the file changes after the last look | the last look and the replacement are two steps (`ar/native/filesystem.rs:1836`) | calls whose file does not (`drifted`) |
| `FileTools!StopsInTime` | a cancellation comes before the registration | an operation is registered with a fresh flag (`ar/native/filesystem.rs:96`) | registered calls |
| `NativeProcess!AtMost`, `StoppedIsGone` | two calls overlap, or a call and a cancellation | the check, the start and the entry are three steps (`ar/native/runtime.rs:1493`, `diagnostics.rs:75`, `process.rs:449`) | no process the cancellation listed is left (`ListedIsGone`); finding 4 |

Liveness outside the runs.  `SubAgents` and `ForwardBridge` need strong fairness of a
shared slot or mutex, `LocalShell`, `RemoteBatch`, `RemoteTransfer` and `ReviewedSsh` state
that their operations end; each module has its `FairSpec`, and `progress` leaves
them out for their size.

## 5. Proofs

Eight modules, each checked by the TLA+ proof system to the last leaf.  A theorem holds for
every value of the constants; the run that states the same property shows it on an instance.

| module | theorem | property | says |
|---|---|---|---|
| `AgentDriver_proof` | `TypeCorrect` | `TypeOK` | the state keeps its shape |
| | `SlotOwnership` | `Ownership` | who drives or reserves an entry has its slot; entries let go of stay quiet |
| | `ExclusiveDriver` | `OneDriver` | no two tasks ever drive the Session |
| | `QuietStop` | `StopIsQuiet` | once a stop settles the record, or the Session has ended, nobody is inside a turn |
| | `QuestionInScope` | `QuestionHasScope` | an open question belongs to the live entry's scope |
| `AgentSession_proof` | `TypeCorrect` | `TypeOK` | the record, the batch and the driver keep their shape |
| | `MailKept` | | the inductive invariant, `Typed /\ Mail` |
| | `SaidOnce` | `ExactlyOnce` | no message is said twice, none that was said is queued |
| | `AllAccounted` | `NothingLost` | every accepted message is in exactly one place |
| | `EndedIsSettled` | `EndedHoldsInput` | an ended Session holds paused input of a failed root at most |
| | `ToldBeforeClaimed` | `OnlyToldIsClaimed` | a step claims only what a user of this process let run (an action property) |
| | `SessionIsMailbox` | `RefinesMailbox` | the Session implements `AgentMailbox` |
| `AgentBatch_proof` | `AgreementKept` | | the inductive invariant of batches, `Agreed` |
| | `NoBatchRefused` | `BatchAccepted` | the record refuses no event in the middle of a batch |
| `AgentScope_proof` | `ScopeKept` | | the inductive invariant of scopes, `ScopeInv` |
| | `DriverIsWhereTheLogIs` | `ScopeMatchesLog` | the driver works in the turn and step the log has open |
| | `TurnsAndStepsNest` | `BoundariesNest` | turns and steps nest, in repairs too (an action property) |
| `AgentTranscript_proof` | `RecitalKept` | | the inductive invariant of the transcript, `Recital` |
| | `StepsSayWhatWasClaimed` | `TranscriptFollowsClaims` | a step is sent what it claimed, in that order |
| `SftpPool_proof` | `TypeCorrect` | | the state keeps its shape |
| | `SlotsAreLed` | `SlotHasLeader` | a claimed key has a pending slot with one leader at work |
| | `EntriesStay` | `NeverDisplaced` | an entry gives way only by being removed first (an action property) |
| | `NoHandshakeTwice` | `NoRedundantHandshake` | the current generation of a key does not handshake while the pool has a connection |
| `HostTrust_proof` | `TrustTyped` | `TypeOK`, in `PartsTypeOK` | the state keeps its shape |
| | `TrustKept` | | the inductive invariant of host trust, `TrustInv` |
| | `SentWhereConfirmed` | `OnlyConfirmed`, in `ReportsTheTruth` | credentials go only where the user trusted that key for that endpoint |
| | `CancelledSentNothing` | `CancelledSendsNothing`, in `ReportsTheTruth` | a cancelled preflight sent nothing to its target |
| | `FileAsAsked` | `FileIsWhatWasAsked`, in `ReportsTheTruth` | the file says what was asked for, whenever nobody writes it |
| `RouteStore_proof` | `StoreTyped` | `TypeOK`, in `PartsTypeOK` | the state keeps its shape |
| | `StoreKept` | | the inductive invariant of the store, `StoreInv` |
| | `DocumentsResolve` | `CommittedResolves`, in `NothingLost` | what the committed document names is stored |
| | `RunsResolve` | `FrozenResolves`, in `NothingLost` | a run finds the secrets of its snapshot while the application lives |
| | `OrphansAreFound` | `NoOrphans`, in `NothingLost` | what no document ever named is in the journal, if one access failed at most |
| | `RoutesAreTheirOwn` | `SnapshotIsCommitted`, `OwnSecrets`, in `ReportsTheTruth` | what is published is committed, and every route has its own secrets |
| | `RefusalsChangeNothing` | `RefusedChangesNothing`, in `ReportsTheTruth` | a refused edit of the key left its secret and its row alone |

Assumptions.  `AgentDriver`: the tasks are finitely many, the names of the other holders of
a slot are not tasks, reservations and pauses are among those of the code, bounds are
naturals.  `AgentSession`: the messages are finitely many, those of users are among them, bounds are
naturals, `IsRoot` is a Boolean.  `SftpPool`: bounds are naturals; `KeyAssumption`, that there
is a key, because a caller at rest has one in its record.  `HostTrust`: the file to begin with
is a set of lines, who answers at an endpoint presents a key, `NoOne` is no caller and no
endpoint, bounds are naturals.  `RouteStore`: the threads are different from each other and
from `None`, routes are finitely many, routes and secrets are positive numbers, bounds are
naturals.  TLC evaluates all of them.  `FileAsAsked` alone has a
hypothesis more: no file to begin with names one pair of endpoint and key on two lines.  A
removal (`remove_known_host`) takes away the lines that begin with the row it was asked about,
so that in a file with such a pair the key would stay trusted by the other line.  The program
itself writes no such pair: a trust first takes its endpoint out of every line.

*One driver.*  `OneDriver` is not inductive.  Two tasks that hold slots of one entry are the
same task, but nothing in `OneDriver` says that they drive the same entry: the Session may have
been stopped and attached again.  `Ownership` supplies it.  `SlotIsHeld`: whoever drives or
reserves has the slot of its entry.  `OthersAreQuiet`: an entry that is not the live one
admits nothing and is held by no task.  To keep that, the steps that detach (`Dispose`,
`Archived`) must know that no task holds the entry, which is `DetachesQuietly`: past
`AwaitIdle` the slot of a closed entry is not a task's and cannot become one because
admission is closed, and an archive has the slot itself.  `EntriesKnown` keeps references in
range.  `TypeStep` and the four `...Step` lemmas take the steps by who takes them, then action
by action; `OwnedByOne` draws the conclusion.

*Quiet stops and questions.*  Both need to know what a step may have seen closed.
`Settled` says it: `ScopesClose` (only the live entry has an active scope, and whoever detaches
it, ends the Session or settles its record has seen that scope closed), `EndIsFinal` (in an ended
Session a task only gives up its slot and no wake can take it again) and
`QuestionsClose` (which includes the property; neither a driver past the top of its loop nor
a cancelled entry has an open question).  `WakeSettles` and the lemmas beside
it show that each actor keeps `Settled`; the theorems combine it with `Ownership`.

*The mailbox.*  `Mail` is the core of the work.  `ExactlyOnce` and `NothingLost` speak of
finished operations, but a batch is written event by event and may be cut anywhere, so the
invariant must account for the rest of a batch.  `Accounts` places every message: queued,
claimed or given up, and what was said was claimed.  `Batch` says that what is in hand fits
the record it will be written to: a batch is of a claim or of none, what it says has not been
said and is no longer queued by the time it is, and the facts its operation checked still
hold.  `Service` says that as long as the store serves, a claim of which the log has half
has its rest in hand, and that a load writes repairs only; after a crash `Batch` and
`Service` say nothing of the missing rest, which is what makes them hold at any cut.
`Final` ties the end of a Session to complete claims.  `Operation` and the lemmas about each command show that
an operation hands over a batch that fits, `WriteMail` that writing its next event keeps
`Mail`, `CrashStep` and `RepairStep` that a crash and the repair do.

`SessionIsMailbox` takes each step to a step of the mailbox or a stutter: `Fate` is a chain
of tests, and `FateIs` gives its value from where a message is.  A claim's first event
delivers all its messages at once, and the later events of its batch change no fate.

*Batches.*  The record checks each event as it is written (`Accepts`); an operation checked only
the state it started from.  `Agreed` joins the two.  `Agrees(pending)` says of the batch that
its events stand in the order of the code (`Sorted`, by `Place` and `Before`), that they
carry the number of their claim (`Numbers`), and that for each event the record will accept
it once those before it are written (`Acceptable`): an event that needs an open
Session, a queued message or a pause has it now, or an earlier event of the batch provides it
(`Settles` for the end of a Session, which needs an empty inbox or a paused one).
`Numbered` says that claims have the numbers of their steps and only the last can be torn,
`Settled` that an ended record has nothing torn and nothing free, and `Offered` that
a torn claim's messages are still what the inbox offers, so that its repair is
accepted.  `HeadAccepted` draws the conclusion for the next event; each operation has a lemma
that its batch agrees (rows of events for the short ones, `ClaimRow` for turns, steps and
repairs), `AgreedWrite` that writing the head leaves a batch that agrees.

*Scopes.*  `ScopeInv` has two parts.  `Positions`: where the log stands, a torn claim finds
the turn and step its missing boundaries expect (`Expects`), and so do the boundaries still
in hand (`Heeds`); `HeadStands` gives `BoundariesNest`.  `InScope`: the batch in hand takes
the log to the driver's scope while it works (`Lands`) and to no scope when it has parked
(`LandsNowhere`), so that nothing is left to say once the batch is written.  A crash leaves
`Positions` of the torn claim and a detached driver.

*The transcript.*  `TranscriptFollowsClaims` speaks of finished operations; a crash may leave
half the lines of a step, and the repair appends the others.  `Recital` says that the lines
come from their step's claim and that claims share no message (`Sourced`, `Distinct`), that
what was said of a claim is closed to the left and in its order (`Spoken`), and
that the batch in hand says exactly the rest, in order (`Tells`).  With left-closedness, whatever
the batch or a repair says next comes after what was said: `LineNext`, `LineSpoken`.
`RecitalNext` takes the steps: batches of a claim say all (`ClaimTells`), a repair says
what `Kept` leaves (`TellRepair`), and every other batch says nothing (`MuteKeeps`).

*The pool.*  `LeadersAlone` says that a leader's slot is pending and its own, and that a
claimed key has its leader; `StepRoles` and `LeadersMove` say who may change that.  For
`NoHandshakeTwice` a leader must remember what it saw at its second look, and that while it owns
the key only it publishes: `LooksAgain`.

*Host keys.*  `OnlyConfirmed` looks at what was sent, long after the key was looked up, and
the file may have changed in between.  `TrustInv` therefore says of each caller what it has
relied on.  `RouteShape`: on every route, direct or through a jump host, the step
before an authentication is the look-up of that host's key, and the step before the look-up
is the handshake that received it.  `Vetted`: so whoever is about to authenticate has found
the key it saw for that endpoint in the file, at a time when all the file said was
confirmed; what was confirmed stays so.  A writer rewrites the file in pieces and a crash may
leave any number of them: `Asked` says that what it still has to write was confirmed too
(`RestConfirmed`).  For `FileIsWhatWasAsked`, `FileInv` adds what the holder of the lock has in
hand: the lines it has read give, together with its own change, what is meant to be trusted
(`ExcludingPairs`, `RemovingPairs`).

*Routes and secrets.*  `CommittedResolves` speaks of the committed document, and a commit makes
the candidate of a save the committed document in one step: the invariant has to know by then
that all its secrets are stored.  `SaverOK` follows the save.  `Staged`: before the commit no
document has ever named what it has staged (so that deleting it harms nobody), its candidate
names that and what the committed document names, and from the first access to the keychain
it is journaled.  `Kept`: what it has set so far is stored, and when it gives up, what it has
deleted so far is gone unless a second access failed.  `Locks` keeps others away: one save at
a time, under the lock of the snapshot; who writes the keychain item holds its lock and has
read the item as it is, so that it takes nothing back that another has written; nobody else
works while the store is opened.  `World` makes references new: those ever journaled
or published are below the counter.  `EditorOK` remembers what an edit of the key found,
`OpenerOK` that recovery deletes only what the document does not name and clears a journal entry
only when its secret is deleted or a document has named it.  The run has one
thread that saves, two faults and one crash; the theorems hold for any number.  `NoOrphans` and
`RefusedChangesNothing` are bounded to one failed access because with two they are false (for
`NoOrphans` see section 4): the program does not retry what it could not delete or put back.

Only model-checked.  Liveness (`Reopens`,
`InputIsTaken`, `AnswerContinued`, `StopEnds`, `CallsEnd`, `StopsEnd`) rests on fairness and
`ENABLED`, which the prover does not reason about.  The properties of `agent_work`,
`terminals` and those of the other parts of `remote` are model-checked.

Proving changed the model where it could not be reasoned about: the message a claim takes was
picked with `CHOOSE` and is now described (`TurnClaims`, `Kept`: the set of the sequences that
fit, which has one element); definitions by `CASE` whose guards overlap, of which TLA+ leaves
open which one counts, are now chains of `IF`.  `TranscriptFollowsClaims` compared filtered
sequences, and what `SelectSeq` computes on every input is an induction the provers cannot use;
it now says the same of positions (`SaidIn`, `Recited`).

## 6. Abstractions

`AgentSession`: contents, receipts of client operations, revisions, metrics, compaction and
tool events change no variable and are left out, and so are edits of a text and messages the
runtime writes without an inbox (the completion check).  A storage error in a living
process is not modelled, a crash is.  A crashed write leaves whole lines: the partial line
is cut by the load.  `MaxSteps`, `MaxCrashes` bound the run; `TurnLimit` is the program's.

`AgentDriver`: what `wake` reads before it takes the slot is one step; the four steps in
which an archived entry is closed and detached are one, with the slot held; a turn is one
step that ends, fails, pauses or asks; a failed preparation is `Begin` then `Work`.  Left
out: approvals, skills and recovery as reasons to wait (`ToolCalls` has them); a stop whose tools
fail to join and which puts its handle back; resumed Sessions and restarts (in
`AgentSession`); sub-agents, whose own wake differs (`SubAgents`).

Elsewhere a step is one critical section, one request, one read or write, or one event of
a channel; a text, a key, a path or a payload is a value of a small set; time is a deadline
that may pass whenever the code waits under it.  Threads that only pass on what they get are
part of the step of their reader.  The table of section 2 has what each module reduces.

## 7. Not modelled

The execution surface, skills, artifacts and images (data and I/O; the admission race of an
image with a stop is planned), the policy table of the native tools, what a screen
shows and what shell integration prints, the store of directory requests and the view's
queue of path operations (planned), the database, logs, health checks and plumbing of
commands, the user interface and the vendored PTY library.  `PROJECT.json` names each with
its reason.

## 8. Plan

1. Prove the Session's properties of a sub-agent that is resumed, once it is modelled.
2. Prove a second refinement: `SftpPool` against "one connection per key".
3. A proof module for `RemoteTransfer` (`NeverLost`, `NoPartialFile`), whose invariants run
   already.
4. `AgentDriver` with the directory binding's own wake, and `AgentSession` with resumed
   sub-agents.
5. Modules for the queue of path operations and the store of directory requests.
