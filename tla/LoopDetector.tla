----------------------------- MODULE LoopDetector -----------------------------
(* The detection of a turn that goes round in circles (driver_progress.rs): a running
   count of repeated tool steps, updated with every event of the log, and what the driver
   does with it. A step's signature stands for its calls, their arguments and results. *)
EXTENDS Integers, Sequences, FiniteSets, FiniteSetsExt

CONSTANTS
  Signatures,   \* what a step of tool calls may look like
  Evidence,     \* kinds of evidence a step may record
  Files,        \* targets of file edits
  Periods,      \* the longest cycle looked for: 5
  Limit,        \* max_identical_tool_steps
  MaxSteps, MaxUser, MaxEdits   \* bounds: steps, user messages and edits of the turn

LoopAssumption ==
  Periods \in Nat \ {0} /\ Limit \in Nat \ {0} /\ {MaxSteps, MaxUser, MaxEdits} \subseteq Nat

VARIABLES
  history, lengths,   \* Repetitions: the last signatures, and how long each period has held
  changed, seen,      \* whether the open step made progress; the evidence recorded so far
  failures, histogram,\* failed edits of each file, and how many files have each count
  used,               \* the one recovery has been spent
  queue,              \* user messages waiting for the next step
  pc,                 \* what the driver does next
  steps, since,       \* (history) steps so far; signatures since the count was last reset
  round               \* (history) of the stops and recoveries: the signatures that led to it

vars == <<history, lengths, changed, seen, failures, histogram, used, queue, pc, steps, since, round>>

Counts == 0..MaxEdits
Init ==
  /\ history = << >> /\ lengths = [p \in 1..Periods |-> 0]
  /\ changed = FALSE /\ seen = {} /\ used = FALSE /\ queue = 0 /\ pc = "step"
  /\ failures = [f \in Files |-> 0] /\ histogram = [n \in Counts |-> 0]
  /\ steps = 0 /\ since = << >> /\ round = << >>

(* ------------------------------- Repetitions ------------------------------- *)
Least(a, b) == IF a < b THEN a ELSE b
Starts(p)     == Least(p, Len(history) + 1)
Recent(h)   == IF Len(h) > Periods THEN Tail(h) ELSE h
Push(s) ==
  /\ lengths' = [p \in 1..Periods |->
       IF Len(history) >= p /\ history[Len(history) + 1 - p] = s THEN lengths[p] + 1 ELSE Starts(p)]
  /\ history' = Recent(Append(history, s))
  /\ since' = Append(since, s)
Reset == history' = << >> /\ lengths' = [p \in 1..Periods |-> 0] /\ since' = << >>
Repeating == {p \in 1..Periods : lengths[p] >= 2 * p}
Count ==
  IF Repeating = {} THEN (IF history = << >> THEN 0 ELSE 1)
  ELSE Max({lengths[p] \div p : p \in Repeating})

(* --------------------------------- the events ------------------------------ *)
Edits == <<failures, histogram>>
\* A step ends with its tools done: progress resets the count before it is counted.
EndTools(s) ==
  /\ pc = "step" /\ steps < MaxSteps /\ steps' = steps + 1 /\ pc' = "look" /\ changed' = FALSE
  /\ IF changed
     THEN /\ lengths' = [p \in 1..Periods |-> 1] /\ history' = <<s>> /\ since' = <<s>>
     ELSE Push(s)
  /\ UNCHANGED <<seen, Edits, used, queue, round>>
\* A step that ends otherwise, or whose calls have no result.
EndOther ==
  /\ pc = "step" /\ steps < MaxSteps /\ steps' = steps + 1 /\ pc' = "look"
  /\ changed' = FALSE /\ Reset /\ UNCHANGED <<seen, Edits, used, queue, round>>
\* Evidence counts as progress once; an approval or an answer whenever it comes.
NoteEvidence(e) ==
  /\ pc = "step" /\ ~changed /\ steps < MaxSteps
  /\ changed' = (e \notin seen) /\ seen' = seen \cup {e} /\ e \notin seen
  /\ UNCHANGED <<history, lengths, Edits, used, queue, pc, steps, since, round>>
SetFailures(f, n) ==
  /\ failures' = [failures EXCEPT ![f] = n]
  /\ histogram' = [c \in Counts |->
       histogram[c] - (IF failures[f] = c /\ c > 0 THEN 1 ELSE 0) + (IF n = c /\ c > 0 THEN 1 ELSE 0)]
Clear == failures' = [f \in Files |-> 0] /\ histogram' = [n \in Counts |-> 0]
\* A failed edit, or one refused before it ran; a verified write of other bytes.
Edit(f) ==
  /\ pc = "step"
  /\ \/ failures[f] < MaxEdits /\ SetFailures(f, failures[f] + 1)
     \/ failures[f] > 0 /\ SetFailures(f, 0)
  /\ UNCHANGED <<history, lengths, changed, seen, used, queue, pc, steps, since, round>>

(* --------------------------------- the driver ------------------------------ *)
Submit ==
  /\ pc # "stopped" /\ queue < MaxUser /\ queue' = queue + 1
  /\ UNCHANGED <<history, lengths, changed, seen, Edits, used, pc, steps, since, round>>
Looping == Limit > 0 /\ Count >= Limit
\* After each step, unless the user has written: one warning, then the turn fails.
Warned    == used' = TRUE
Look ==
  /\ pc = "look" /\ UNCHANGED <<changed, seen, Edits, queue, steps>>
  /\ \/ (~Looping \/ queue > 0) /\ pc' = "claim" /\ UNCHANGED <<history, lengths, used, since, round>>
     \/ /\ Looping /\ queue = 0 /\ used /\ pc' = "stopped" /\ round' = Append(round, since)
        /\ UNCHANGED <<history, lengths, used, since>>
     \/ /\ Looping /\ queue = 0 /\ ~used /\ pc' = "claim" /\ round' = Append(round, since)
        /\ Reset /\ Warned
\* What the user wrote enters the turn with the next step and starts the count anew.
Claim ==
  /\ pc = "claim" /\ pc' = "step" /\ UNCHANGED <<changed, seen, steps>>
  /\ IF queue > 0
     THEN Reset /\ used' = FALSE /\ queue' = 0 /\ Clear /\ round' = << >>
     ELSE UNCHANGED <<history, lengths, used, queue, Edits, since, round>>

Next ==
  \/ \E s \in Signatures : EndTools(s)
  \/ \E e \in Evidence : NoteEvidence(e)
  \/ \E f \in Files : Edit(f)
  \/ EndOther \/ Submit \/ Look \/ Claim
Spec == Init /\ [][Next]_vars

(* -------------------------------- properties ------------------------------- *)
\* The kept history is short, whatever the turn's length.
TypeOK ==
  /\ Len(history) <= Periods /\ \A p \in 1..Periods : lengths[p] \in 0..MaxSteps
  /\ used \in BOOLEAN /\ pc \in {"step", "look", "claim", "stopped"}

\* The end of s of length n goes round with period p.
Cyclic(s, n, p) == \A i \in (Len(s) - n + p + 1)..Len(s) : s[i] = s[i - p]
Cycles(s) ==
  LET full == {k \in (1..Periods) \X (2..Len(s)) :
                 k[1] * k[2] <= Len(s) /\ Cyclic(s, k[1] * k[2], k[1])}
  IN  IF full # {} THEN Max({k[2] : k \in full}) ELSE IF s = << >> THEN 0 ELSE 1
\* The running count is the largest number of whole cycles the turn has just gone through.
CountsCycles == Count = Cycles(since)
\* The driver warns once and stops at the second loop, with no message of the user between.
StopsAtSecond ==
  /\ Len(round) <= 2 /\ (pc = "stopped") = (Len(round) = 2)
  /\ \A i \in 1..Len(round) : Cycles(round[i]) >= Limit
\* The histogram of failed edits agrees with the files it counts.
HistogramAgrees ==
  \A n \in Counts \ {0} : histogram[n] = Cardinality({f \in Files : failures[f] = n})
=============================================================================
