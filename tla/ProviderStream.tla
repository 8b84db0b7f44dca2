---------------------------- MODULE ProviderStream ----------------------------
(* A streamed answer of a model provider and the adapter that reads it (llm/adapters,
   llm/transport): frames are cut out of the bytes, each is applied to an accumulator and
   emitted to the sink, and the end of the stream becomes an answer or an error. A text is
   a number of fragments; the arguments of a tool call are JSON once they have all of
   theirs. *)
EXTENDS Naturals, Sequences, FiniteSets, SequencesExt

CONSTANTS
  Dialects,    \* among "anthropic", "chat", "cumulative", "responses", "ollama"
  Keys,        \* blocks an answer may have
  Tools,       \* those that are tool calls
  Whole,       \* fragments of a tool call's arguments, and the most of a text
  MaxRepeats,  \* frames of structure a provider or a proxy repeats
  Errors       \* what a provider may report: [code, type, status]

StreamAssumption ==
  Tools \subseteq Keys /\ Whole \in Nat \ {0} /\ MaxRepeats \in Nat
  /\ \A e \in Errors : DOMAIN e = {"code", "type", "status"}

VARIABLES
  dialect,   \* of the provider
  fault,     \* the error it reports, in place of a stream or inside it
  said,      \* the provider's answer so far: its blocks in order
  prov,      \* its stage, the open block, why it stops
  wire,      \* whole frames on their way
  part,      \* whether a part of the next frame has been read
  conn,      \* the connection: open, closed after the last frame, or broken
  acc,       \* the accumulator of the adapter
  shown,     \* what was emitted to the sink: the blocks by their output index
  seen,      \* whether a first byte has come
  timer,     \* how much of the time for the first byte, or for a frame, has passed: 0 or 1
  token,     \* the cancellation token
  outcome,   \* the adapter's result
  answer,    \* its content
  repeats

vars == <<dialect, fault, said, prov, wire, part, conn, acc, shown, seen, timer, token, outcome, answer, repeats>>

Block(key, size) == [key |-> key, size |-> size]
Place(blocks, key) == {i \in 1..Len(blocks) : blocks[i].key = key}
Holds(blocks, key) == Place(blocks, key) # {}
SizeOf(blocks, key) == IF Holds(blocks, key) THEN blocks[CHOOSE i \in Place(blocks, key) : TRUE].size ELSE 0
\* The block of a key gets a size; a new one goes to the end.
Put(blocks, key, size) ==
  IF Holds(blocks, key)
  THEN [i \in 1..Len(blocks) |-> IF blocks[i].key = key THEN Block(key, size) ELSE blocks[i]]
  ELSE Append(blocks, Block(key, size))
Frame(e, key, size) == [e |-> e, key |-> key, size |-> size]
Nothing == "nothing"

Init ==
  /\ fault = [how |-> Nothing, error |-> [code |-> "absent", type |-> "absent", status |-> 200]]
  /\ dialect \in Dialects /\ said = << >> /\ wire = << >> /\ part = FALSE /\ conn = "open"
  /\ prov = [stage |-> "start", open |-> Nothing, why |-> Nothing]
  /\ acc = [started |-> FALSE, open |-> Nothing, done |-> "no", why |-> Nothing,
            blocks |-> << >>, items |-> << >>]
  /\ shown = << >> /\ seen = FALSE /\ timer = 0 /\ token = "live" /\ outcome = Nothing /\ answer = << >>
  /\ repeats = 0

Adapter == <<acc, shown, seen, timer, outcome, answer, part>>
Is(set) == dialect \in set

(* -------------------------------- the provider ----------------------------- *)
Sends(frame) == wire' = Append(wire, frame)
ProviderOnly == UNCHANGED <<dialect, fault, conn, Adapter, token, repeats>>
\* It speaks while it is listened to, a frame at a time.
Turn(stage) == prov.stage = stage /\ conn = "open" /\ outcome = Nothing /\ wire = << >>
Begin ==
  /\ Turn("start") /\ prov' = [prov EXCEPT !.stage = "blocks"] /\ timer' = 0
  /\ IF Is({"anthropic"}) THEN Sends(Frame("start", Nothing, 0)) ELSE UNCHANGED wire
  /\ UNCHANGED <<dialect, fault, said, part, conn, acc, shown, seen, token, outcome, answer, repeats>>
\* Blocks are opened one after the other; only Anthropic and Responses say so. Ollama is
\* assumed to have one line with tool calls, which count from nought in each line.
OpenBlock(key) ==
  /\ Turn("blocks") /\ prov.open = Nothing /\ ~Holds(said, key)
  /\ Is({"ollama"}) /\ key \in Tools => \A b \in Range(said) : b.key \notin Tools
  /\ said' = Append(said, Block(key, 0)) /\ prov' = [prov EXCEPT !.open = key]
  /\ IF Is({"anthropic", "responses"}) THEN Sends(Frame("open", key, 0)) ELSE UNCHANGED wire
  /\ ProviderOnly
\* Ollama sends a tool call in one line; a cumulative stream all there is so far.
Speak ==
  /\ Turn("blocks") /\ prov.open # Nothing
  /\ LET old == SizeOf(said, prov.open)
         new == IF Is({"ollama"}) /\ prov.open \in Tools THEN Whole ELSE old + 1
     IN  /\ old < new /\ new <= Whole /\ said' = Put(said, prov.open, new)
         /\ Sends(Frame("delta", prov.open, IF Is({"cumulative"}) THEN new ELSE new - old))
  /\ UNCHANGED prov /\ ProviderOnly
CloseBlock ==
  /\ Turn("blocks") /\ prov.open # Nothing /\ SizeOf(said, prov.open) > 0
  /\ prov.open \in Tools => SizeOf(said, prov.open) = Whole
  /\ prov' = [prov EXCEPT !.open = Nothing]
  /\ IF Is({"anthropic", "responses"}) THEN Sends(Frame("close", prov.open, SizeOf(said, prov.open)))
     ELSE UNCHANGED wire
  /\ UNCHANGED said /\ ProviderOnly
\* It stops between blocks, or at its limit inside one: Anthropic closes that block.
Stop(why) ==
  /\ Turn("blocks") /\ said # << >>
  /\ why = "stop" => prov.open = Nothing
  /\ why = "length" /\ prov.open \in Tools => ~Is({"ollama"})
  /\ prov' = [prov EXCEPT !.stage = "stopped", !.open = Nothing, !.why = why]
  /\ wire' = wire
       \o (IF Is({"anthropic"}) /\ prov.open # Nothing
           THEN <<Frame("close", prov.open, SizeOf(said, prov.open))>> ELSE << >>)
       \o (IF Is({"anthropic", "chat", "cumulative"}) THEN <<Frame("reason", why, 0)>> ELSE << >>)
  /\ UNCHANGED said /\ ProviderOnly
\* The last frame: message_stop, [DONE], response.completed or incomplete, done. A completed
\* response repeats its items, has none, or leaves them out.
Finish ==
  /\ Turn("stopped") /\ prov' = [prov EXCEPT !.stage = "ended"]
  /\ \E key \in (IF Is({"responses"}) THEN {"items", "empty", "none"} ELSE {prov.why}) :
       Sends(Frame("end", IF prov.why = "length" THEN "length" ELSE key, 0))
  /\ UNCHANGED said /\ ProviderOnly
Repeat ==
  /\ repeats < MaxRepeats /\ Len(wire) = 1 /\ Last(wire).e # "delta" /\ conn = "open" /\ outcome = Nothing
  /\ Is({"anthropic"}) /\ repeats' = repeats + 1 /\ Sends(Last(wire))
  /\ UNCHANGED <<dialect, fault, said, prov, conn, Adapter, token>>
Close ==
  /\ conn = "open" /\ outcome = Nothing /\ conn' \in {"closed", "broken"}
  /\ UNCHANGED <<dialect, fault, said, prov, wire, Adapter, token, repeats>>
Cancel ==
  /\ token = "live" /\ outcome = Nothing /\ token' = "cancelled"
  /\ UNCHANGED <<dialect, fault, said, prov, wire, conn, Adapter, repeats>>
\* It answers the request with an error, or breaks off a stream with one.
Refuse(e) ==
  /\ Turn("start") /\ prov' = [prov EXCEPT !.stage = "refused"]
  /\ fault' = [how |-> "response", error |-> e]
  /\ UNCHANGED <<dialect, said, wire, conn, Adapter, token, repeats>>
GiveUp(e) ==
  /\ Turn("blocks") /\ prov' = [prov EXCEPT !.stage = "ended"]
  /\ fault' = [how |-> "stream", error |-> e] /\ Sends(Frame("error", Nothing, 0))
  /\ UNCHANGED <<dialect, said, conn, Adapter, token, repeats>>

(* ------------------------------ errors get a kind -------------------------- *)
Permanent == {"insufficient_quota", "billing_hard_limit_reached", "content_policy_violation",
              "invalid_request_error", "model_not_found"}
\* normalize_provider_error: by the code, and if that says nothing by the status.
Kind(status, name) ==
  IF name \in Permanent THEN "terminal"
  ELSE IF name = "context_length_exceeded" THEN "context"
  ELSE CASE status \in {401, 403} -> "authentication"
         [] status = 429 -> "rate"
         [] status \in {408, 409, 425} \cup 500..599 -> "retryable"
         [] OTHER -> "terminal"
\* The code, or the type when that is not a string.
Name(e) == IF e.code \in {"absent", "null"} THEN e.type ELSE e.code
\* In a stream the type is only looked at when there is no code, were it null.
Typed(e) == IF e.code = "absent" THEN e.type ELSE e.code
StatusOf(name) ==
  CASE name \in {"rate_limit_exceeded", "rate_limit_error", "insufficient_quota"} -> 429
    [] name \in {"provider_overloaded", "overloaded_error", "server_error", "server"} -> 503
    [] name = "provider_unavailable" -> 502
    [] name \in {"timeout", "request_timeout"} -> 408
    [] name \in {"authentication", "authentication_error", "invalid_api_key"} -> 401
    [] name \in {"permission_denied", "permission_error", "content_policy_violation"} -> 403
    [] OTHER -> 400
AnthropicStatus(type) ==
  CASE type = "authentication_error" -> 401 [] type = "permission_error" -> 403
    [] type = "rate_limit_error" -> 429 [] type = "overloaded_error" -> 529 [] OTHER -> 500
\* Anthropic and Ollama hand on the message only.
StreamKind(e) ==
  CASE dialect = "anthropic" -> Kind(AnthropicStatus(e.type), "none")
    [] dialect = "ollama" -> Kind(400, "none")
    [] OTHER -> Kind(StatusOf(Typed(e)), Name(e))
Retryable(kind) == kind \in {"retryable", "transport", "timeout", "firstByte", "headers", "closed", "empty", "rate"}

(* ---------------------------- one frame is applied ------------------------- *)
Emits(key, n) == shown' = Put(shown, key, SizeOf(shown, key) + n)
Quiet == UNCHANGED shown
Fails(code) == outcome' = code /\ UNCHANGED <<acc, shown, answer>>
Goes(a) == acc' = a /\ UNCHANGED <<outcome, answer>>
\* What a fragment adds to a text, and the text after it; names, ids and arguments alike.
Extend(old, size, cumulative) ==
  IF ~cumulative THEN [text |-> old + size, delta |-> size]
  ELSE IF size >= old THEN [text |-> size, delta |-> size - old] ELSE [text |-> old, delta |-> 0]

\* Anthropic: the sequence of events is checked.
Started(f) ==
  IF acc.started THEN Fails("protocol") ELSE Goes([acc EXCEPT !.started = TRUE]) /\ Quiet
Opened(f) ==
  IF ~acc.started \/ acc.done # "no" \/ acc.open # Nothing \/ Holds(acc.blocks, f.key) THEN Fails("protocol")
  ELSE /\ Goes([acc EXCEPT !.open = f.key, !.blocks = Append(@, Block(f.key, 0))])
       /\ Emits(f.key, 0)
Fragment(f) ==
  IF acc.open # f.key THEN Fails("protocol")
  ELSE /\ Goes([acc EXCEPT !.blocks = Put(@, f.key, SizeOf(@, f.key) + f.size)]) /\ Emits(f.key, f.size)
Valid(key, size) == key \in Tools => size = Whole
Closed(f) ==
  IF acc.open # f.key \/ ~Valid(f.key, SizeOf(acc.blocks, f.key)) THEN Fails("protocol")
  ELSE Goes([acc EXCEPT !.open = Nothing]) /\ Quiet
Reason(f) ==
  IF ~acc.started \/ acc.open # Nothing \/ acc.why # Nothing THEN Fails("protocol")
  ELSE Goes([acc EXCEPT !.why = f.key]) /\ Quiet
Stopped(f) ==
  IF ~acc.started \/ acc.done # "no" \/ acc.open # Nothing \/ acc.why = Nothing THEN Fails("protocol")
  ELSE Goes([acc EXCEPT !.done = "all"]) /\ Quiet
Anthropic(f) ==
  CASE f.e = "start" -> Started(f) [] f.e = "open" -> Opened(f) [] f.e = "delta" -> Fragment(f)
    [] f.e = "close" -> Closed(f) [] f.e = "reason" -> Reason(f) [] f.e = "end" -> Stopped(f)

\* Chat completions: a block begins with its first fragment; a reason completes it.
ChatDelta(f) ==
  LET x == Extend(SizeOf(acc.blocks, f.key), f.size, dialect = "cumulative")
  IN  /\ Goes([acc EXCEPT !.blocks = Put(@, f.key, x.text)])
      /\ IF x.delta > 0 THEN Emits(f.key, x.delta) ELSE Quiet
ChatDone(f) ==
  /\ Quiet
  /\ Goes(IF f.e = "reason" THEN [acc EXCEPT !.done = "reason", !.why = f.key] ELSE [acc EXCEPT !.done = "all"])
Chat(f) == IF f.e = "delta" THEN ChatDelta(f) ELSE ChatDone(f)

\* Ollama: one line may both speak and be the last; a length is an error at once.
Ollama(f) ==
  IF f.e = "delta"
  THEN /\ Goes([acc EXCEPT !.blocks = Put(@, f.key, SizeOf(@, f.key) + f.size)]) /\ Emits(f.key, f.size)
  ELSE IF f.key = "length" THEN Fails("limit")
  ELSE Goes([acc EXCEPT !.done = "all", !.why = f.key]) /\ Quiet

\* Responses: items are kept beside what was streamed; the last event may replace them.
Item(f) == /\ Goes([acc EXCEPT !.items = Put(@, f.key, f.size),
                              !.blocks = IF f.key \in Tools THEN Put(@, f.key, f.size) ELSE @])
           /\ IF f.key \in Tools /\ ~Holds(shown, f.key) THEN Emits(f.key, 0) ELSE Quiet
Delta(f) ==
  Goes([acc EXCEPT !.blocks = Put(@, f.key, SizeOf(@, f.key) + f.size)]) /\ Emits(f.key, f.size)
Completed(f) ==
  IF f.key = "length" THEN Fails("limit")
  ELSE /\ Quiet
       /\ Goes([acc EXCEPT !.done = "all",
            !.items = CASE f.key = "items" -> said [] f.key = "empty" -> << >> [] OTHER -> @])
Responses(f) ==
  CASE f.e \in {"open", "close"} -> Item(f) [] f.e = "delta" -> Delta(f) [] OTHER -> Completed(f)

Apply(f) ==
  IF f.e = "error" THEN Fails(StreamKind(fault.error))
  ELSE CASE dialect = "anthropic" -> Anthropic(f) [] dialect = "responses" -> Responses(f)
         [] dialect = "ollama" -> Ollama(f) [] OTHER -> Chat(f)

(* ------------------------------ reading the stream ------------------------- *)
Reading == outcome = Nothing
World == UNCHANGED <<dialect, fault, said, prov, token, repeats>>
\* Chat goes on after the reason, for the usage; the others stop at the end's frame.
Enough == acc.done = "all"
Awaits == Reading /\ token = "live" /\ ~Enough
AfterBytes == IF seen THEN timer ELSE 0
\* A chunk with a part of a frame, or a comment: only the wait for the first byte is over.
ReadPart ==
  /\ Awaits /\ wire # << >> /\ part' = TRUE /\ seen' = TRUE /\ timer' = AfterBytes
  /\ UNCHANGED <<acc, shown, outcome, answer, wire, conn>> /\ World
ReadFrame ==
  /\ Awaits /\ wire # << >> /\ wire' = Tail(wire) /\ part' = FALSE /\ seen' = TRUE /\ timer' = 0
  /\ Apply(Head(wire)) /\ UNCHANGED conn /\ World
Tick ==
  /\ Awaits
  /\ IF timer = 0 THEN timer' = 1 /\ UNCHANGED outcome
     ELSE outcome' = (IF seen THEN "timeout" ELSE IF prov.stage = "start" THEN "headers" ELSE "firstByte") /\ UNCHANGED timer
  /\ UNCHANGED <<acc, shown, answer, part, seen, wire, conn>> /\ World
IsCancelled ==
  /\ Reading /\ token = "cancelled" /\ ~Enough /\ outcome' = "cancelled"
  /\ UNCHANGED <<acc, shown, answer, part, seen, timer, wire, conn>> /\ World
Refused ==
  /\ Awaits /\ prov.stage = "refused" /\ outcome' = Kind(fault.error.status, Name(fault.error))
  /\ UNCHANGED <<acc, shown, answer, part, seen, timer, wire, conn>> /\ World
\* The body fails; or it ends inside a frame, and what is left is taken for a last one, which
\* it may not be.
Broken ==
  /\ Awaits /\ wire = << >> /\ conn = "broken" /\ outcome' = "transport"
  /\ UNCHANGED <<acc, shown, answer, part, seen, timer, wire, conn>> /\ World
Cut ==
  /\ Awaits /\ wire # << >> /\ conn = "closed" /\ part /\ wire' = << >> /\ part' = FALSE
  /\ outcome' \in {Nothing, "protocol"}
  /\ UNCHANGED <<acc, shown, answer, seen, timer, conn>> /\ World

(* --------------------------------- the answer ------------------------------ *)
\* A response's items, or what was streamed of it when there are none.
Items    == acc.items
Streamed == acc.blocks
Said == IF dialect = "responses" /\ Items # << >> THEN Items ELSE Streamed
\* Anthropic's is not retried.
Early == IF ~seen THEN "empty" ELSE IF Is({"anthropic"}) THEN "protocol" ELSE "closed"
Ended  == acc.done # "no"
AtLimit == acc.why = "length"
Judge ==
  IF ~Ended THEN Early
  ELSE IF AtLimit THEN "limit"
  ELSE IF \E b \in Range(Said) : ~Valid(b.key, b.size) THEN "protocol"
  ELSE IF \A b \in Range(Said) : b.key \notin Tools /\ b.size = 0 THEN "empty"
  ELSE "answer"
Conclude ==
  /\ Reading /\ (Enough \/ (token = "live" /\ wire = << >> /\ conn = "closed"))
  /\ outcome' = Judge /\ answer' = (IF Judge = "answer" THEN Said ELSE << >>)
  /\ UNCHANGED <<acc, shown, part, seen, timer, wire, conn>> /\ World

Provider == Begin \/ Speak \/ CloseBlock \/ Finish \/ (\E k \in Keys : OpenBlock(k))
                  \/ (\E e \in Errors : Refuse(e) \/ GiveUp(e))
                  \/ (\E w \in {"stop", "length"} : Stop(w))
Reader == ReadFrame \/ IsCancelled \/ Refused \/ Broken \/ Cut \/ Conclude
Next == Provider \/ Repeat \/ Close \/ Cancel \/ ReadPart \/ Tick \/ Reader
Spec == Init /\ [][Next]_vars
\* Nothing is asked of the provider: time passes, and the adapter does what it can.
FairSpec == Spec /\ WF_vars(Tick) /\ WF_vars(IsCancelled \/ Broken \/ Conclude)

(* -------------------------------- properties ------------------------------- *)
\* Sizes stay within what a provider says; there is an answer exactly when that is the result.
TypeOK ==
  /\ \A b \in Range(said) \cup Range(acc.blocks) \cup Range(shown) : b.key \in Keys /\ b.size \in 0..Whole
  /\ timer \in {0, 1} /\ (answer # << >>) = (outcome = "answer")

Bare(blocks) == SelectSeq(blocks, LAMBDA b : b.size > 0)
\* An answer is the whole of what a provider said that stopped by itself: nothing is lost,
\* doubled or out of order, whatever the connection does.
AnswersAreWhole ==
  outcome = "answer" => prov.why = "stop" /\ Bare(answer) = Bare(said)
\* What the user has seen is a part of what was said, and for an answer all of it.
ShownIsSaid ==
  /\ \A b \in Range(shown) : b.size <= SizeOf(said, b.key)
  /\ outcome = "answer" => \A b \in Range(said) : SizeOf(shown, b.key) = b.size
\* protocol/agent/runtime/turn-and-task-plan.md:67: a response that ends with a length is an
\* output limit, with a tool call cut off or not: neither an answer nor a broken protocol.
LimitIsLimit ==
  prov.why = "length" /\ conn = "open" /\ repeats = 0 => outcome \notin {"protocol", "answer"}
\* protocol/agent/runtime/reliable-submission.md:128: an error inside a stream of chat
\* completions or Responses is retried exactly when it would be as the response to a request.
SameRecovery ==
  fault.how = "stream" /\ Is({"chat", "cumulative", "responses"})
    /\ outcome \in {"terminal", "context", "authentication", "rate", "retryable"}
  => Retryable(outcome) = Retryable(Kind(fault.error.status, Name(fault.error)))
\* A read ends whatever the provider does.
ReadEnds == <>(outcome # Nothing)
=============================================================================
