------------------------------ MODULE OutputCapture ------------------------------
(* What is kept of a command's output (execution/output.rs, and CaptureBufferNative of
   native/process.rs): the front and the tail of each stream, however the bytes arrive, with a
   limit on all that is read. A byte is the place it has in its character; what the bytes
   decode to are whole characters or a broken one. *)
EXTENDS Naturals, Sequences, SequencesExt

CONSTANTS
  Outputs,        \* what the command may write: for each stream the widths of its characters
  StdoutCapture, StderrCapture,   \* bytes kept of each
  HardLimit,      \* bytes read in all
  ChunkSize       \* bytes one read returns at most
Streams == {"stdout", "stderr"}
CaptureAssumption ==
  /\ Outputs \subseteq [Streams -> Seq(1..4)]
  /\ {StdoutCapture, StderrCapture, HardLimit, ChunkSize} \subseteq Nat

VARIABLES
  written,   \* the bytes of each stream
  pos,       \* how many of them have been read
  kept,      \* the capture of each stream, and the native kernel's of stdout
  total, exceeded,
  output     \* what finish returned
vars == <<written, pos, kept, total, exceeded, output>>

\* The n-th character of a stream, its bytes from the lead to the last continuation.
Character(n, width) == [i \in 1..width |-> [char |-> n, at |-> i, width |-> width]]
Bytes(widths) == FlattenSeq([n \in DOMAIN widths |-> Character(n, widths[n])])
Smaller(a, b) == IF a < b THEN a ELSE b
FirstN(s, n) == SubSeq(s, 1, Smaller(n, Len(s)))
LastN(s, n) == SubSeq(s, Len(s) - Smaller(n, Len(s)) + 1, Len(s))

(* ---------------------------------- a capture ------------------------------ *)
New(limit, parts, whole) ==
  [limit |-> limit, headLimit |-> (limit * parts) \div whole, tailLimit |-> limit - (limit * parts) \div whole,
   head |-> << >>, tail |-> << >>, read |-> 0]
CaptureBufferNative(limit) == New(limit, 3, 4)
\* A short piece pushes out as many bytes of the tail as are too many, a long one all.
PushTail(tail, bytes, limit) ==
  IF limit = 0 \/ bytes = << >> THEN tail
  ELSE IF Len(bytes) >= limit THEN LastN(bytes, limit)
  ELSE LET excess == IF Len(tail) + Len(bytes) > limit THEN Len(tail) + Len(bytes) - limit ELSE 0
       IN  SubSeq(tail, excess + 1, Len(tail)) \o bytes
Push(c, bytes) ==
  LET n == Smaller(c.headLimit - Len(c.head), Len(bytes))
  IN  [c EXCEPT !.read = @ + Len(bytes), !.head = @ \o FirstN(bytes, n),
                !.tail = PushTail(@, SubSeq(bytes, n + 1, Len(bytes)), c.tailLimit)]
Truncated(c) == c.read > c.limit
\* A front that ends within a character goes back to its lead, a tail that begins within one
\* goes on to the next.
PrefixWithoutIncompleteTail(head) ==
  IF head = << >> \/ head[Len(head)].at = head[Len(head)].width THEN Len(head)
  ELSE Len(head) - head[Len(head)].at
TailStart(tail) ==
  IF \E i \in DOMAIN tail : tail[i].at = 1
  THEN CHOOSE i \in DOMAIN tail : tail[i].at = 1 /\ \A j \in 1..(i - 1) : tail[j].at # 1
  ELSE Len(tail) + 1
\* Head and tail are decoded apart when something is missing between them.
Decoded(c) ==
  IF Truncated(c) THEN FirstN(c.head, PrefixWithoutIncompleteTail(c.head)) \o SubSeq(c.tail, TailStart(c.tail), Len(c.tail))
  ELSE c.head \o c.tail
Finish(c) == [text |-> Decoded(c), truncated |-> Truncated(c), read |-> c.read, captured |-> Len(c.head) + Len(c.tail)]

(* -------------------------------- the collector ---------------------------- *)
Init ==
  /\ \E o \in Outputs : written = [s \in Streams |-> Bytes(o[s])]
  /\ pos = [s \in Streams |-> 0] /\ total = 0 /\ exceeded = FALSE /\ output = "none"
  /\ kept = [stdout |-> New(StdoutCapture, 3, 4), stderr |-> New(StderrCapture, 1, 2),
             native |-> CaptureBufferNative(StdoutCapture)]
Exceeds(n) == n > HardLimit
\* One read of one stream, as much as the transport has.
Read(s) ==
  /\ output = "none" /\ ~exceeded
  /\ \E n \in 1..Smaller(ChunkSize, Len(written[s]) - pos[s]) :
       LET bytes == SubSeq(written[s], pos[s] + 1, pos[s] + n)
           fed == IF s = "stdout" THEN {"stdout", "native"} ELSE {"stderr"}
       IN  /\ kept' = [k \in DOMAIN kept |-> IF k \in fed THEN Push(kept[k], bytes) ELSE kept[k]]
           /\ pos' = [pos EXCEPT ![s] = @ + n]
           /\ total' = total + n /\ exceeded' = Exceeds(total + n)
  /\ UNCHANGED <<written, output>>
\* The command has ended and everything has been read, or the limit has been exceeded.
FinishAll ==
  /\ output = "none" /\ (exceeded \/ \A s \in Streams : pos[s] = Len(written[s]))
  /\ output' = IF exceeded THEN "limit" ELSE "whole"
  /\ UNCHANGED <<written, pos, kept, total, exceeded>>
Next == FinishAll \/ \E s \in Streams : Read(s)
Spec == Init /\ [][Next]_vars

(* --------------------------------- properties ------------------------------ *)
Source(k) == IF k = "stderr" THEN "stderr" ELSE "stdout"
ReadOf(k) == SubSeq(written[Source(k)], 1, pos[Source(k)])
\* What is kept of a stream does not depend on how its bytes arrived: the first bytes, and the
\* last of the rest.
FrontAndTail ==
  \A k \in DOMAIN kept :
    LET rest == SubSeq(ReadOf(k), kept[k].headLimit + 1, Len(ReadOf(k)))
    IN  kept[k].head = FirstN(ReadOf(k), kept[k].headLimit) /\ kept[k].tail = LastN(rest, kept[k].tailLimit)
\* A result that is not marked as truncated is all that was read, and one that is marked is not.
TruncatedIsTold ==
  output = "whole" => \A k \in DOMAIN kept : Finish(kept[k]).truncated = (Finish(kept[k]).captured < Len(ReadOf(k)))
\* The text of a finished stream is made of whole characters, in their order.
Whole(text) ==
  \A i \in DOMAIN text : /\ text[i].at > 1 => i > 1 /\ text[i - 1] = [text[i] EXCEPT !.at = @ - 1]
                         /\ text[i].at < text[i].width => i < Len(text) /\ text[i + 1] = [text[i] EXCEPT !.at = @ + 1]
                         /\ i > 1 => text[i - 1].char <= text[i].char
WholeCharacters == output = "whole" => \A s \in Streams : Whole(Finish(kept[s]).text)
\* A result that is returned has not read more than the limit, and what is kept of it fits.
Bounded ==
  /\ output = "whole" => total <= HardLimit
  /\ \A k \in DOMAIN kept : Len(kept[k].head) + Len(kept[k].tail) <= kept[k].limit
=============================================================================
