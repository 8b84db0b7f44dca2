----------------------------- MODULE HostTrust -----------------------------
(* Which host keys are trusted, and who is sent credentials: known_hosts.rs (the file, its
   checks, trusting an endpoint), commands.rs (listing and removing entries, the commands
   of the connection preflight) and connection.rs (the hops of a connection, directly or
   through a jump host, and the preflight that reports them). A host may change its key
   at any time, and the application may die while the file is rewritten. *)
EXTENDS Naturals, Sequences, FiniteSets, SequencesExt

CONSTANTS
  Endpoints, Keys, Callers, NoOne,
  Files, Hosts,                    \* what the file may hold and the hosts present at the start
  MaxOps, MaxRotations, MaxCrashes \* bounds

Lines == [at : SUBSET Endpoints, key : Keys]
TrustAssumption ==
  /\ NoOne \notin Callers \cup Endpoints /\ Files \subseteq SUBSET Lines /\ Hosts \subseteq [Endpoints -> Keys]
  /\ MaxOps \in Nat /\ MaxRotations \in Nat /\ MaxCrashes \in Nat

VARIABLES
  file,      \* the lines of known_hosts
  hosts,     \* the key each endpoint presents (or whoever answers for it)
  lock,      \* KNOWN_HOSTS_WRITE_LOCK
  op,        \* the operation of each caller
  reported,  \* the fingerprints shown to the user
  confirmed, \* what the user trusted: the entries at the start and each confirmation
  sent,      \* the credentials sent: the endpoint and the key it had presented
  trusted,   \* what the file means to hold whenever nobody writes it
  used       \* operations, rotations and crashes so far

vars == <<file, hosts, lock, op, reported, confirmed, sent, trusted, used>>

Pairs(lines) == UNION {{<<e, l.key>> : e \in l.at} : l \in lines}
Idle == [kind |-> "none", at |-> NoOne, jump |-> NoOne, pats |-> {}, pc |-> 0, seen |-> NoOne,
         wants |-> NoOne, flag |-> FALSE, status |-> "none", report |-> <<>>, rest |-> {},
         sentIt |-> FALSE]
Init ==
  /\ file \in Files /\ hosts \in Hosts /\ lock = NoOne
  /\ op = [c \in Callers |-> Idle] /\ reported = {} /\ sent = {}
  /\ confirmed = Pairs(file) /\ trusted = Pairs(file)
  /\ used = [ops |-> 0, rotations |-> 0, crashes |-> 0]

(* ------------------------- the hops of a connection ------------------------- *)
Hop(hop) == <<[do |-> "handshake", hop |-> hop], [do |-> "key", hop |-> hop], [do |-> "auth", hop |-> hop]>>
Route(o) ==
  <<[do |-> "dns", hop |-> "first"], [do |-> "tcp", hop |-> "first"]>>
    \o (IF o.jump # NoOne THEN Hop("jump") \o <<[do |-> "tunnel", hop |-> "jump"]>> ELSE <<>>)
    \o (IF o.kind = "check" THEN SubSeq(Hop("target"), 1, 2) ELSE Hop("target"))
\* The steps a preflight reports; the handshake is reported under the key it brings.
Id(s) == IF s.do = "handshake" THEN [s EXCEPT !.do = "key"] ELSE s
Expected(o) == SelectSeq(Route(o), LAMBDA s : s.do # "handshake")
EndpointOf(o, s) == IF s.hop = "jump" \/ (s.hop = "first" /\ o.jump # NoOne) THEN o.jump ELSE o.at

Verdict(e, k) ==
  IF <<e, k>> \in Pairs(file) THEN "match"
  ELSE IF \E x \in Keys : <<e, x>> \in Pairs(file) THEN "mismatch" ELSE "unknown"

\* The recorder: what was done, then everything expected that was not reached.
Push(o, s, status) == Append(o.report, [id |-> Id(s), status |-> status])
Finish(o, report, status) ==
  LET done == {report[i].id : i \in 1..Len(report)}
      left == SelectSeq(Expected(o), LAMBDA s : s \notin done)
  IN [o EXCEPT !.pc = 0, !.status = status,
               !.report = IF o.kind # "preflight" THEN <<>>
                          ELSE report \o [i \in 1..Len(left) |-> [id |-> left[i], status |-> "blocked"]]]
Passed(o, s) ==
  LET report == IF s.do = "handshake" THEN o.report ELSE Push(o, s, "passed")
  IN IF o.pc = Len(Route(o)) THEN Finish(o, report, "passed")
     ELSE [o EXCEPT !.pc = @ + 1, !.report = IF o.kind = "preflight" THEN report ELSE <<>>]
Failed(o, s) == Finish(o, Push(o, s, "failed"), "failed")

\* The preflight looks at its flag before each of these, and only before these.
Looks(s) == s.do \in {"dns", "tcp", "handshake", "tunnel"} \/ (s.do = "auth" /\ s.hop = "jump")

Kinds == {"connect", "preflight", "check"}
Working(c) == op[c].pc # 0
Becomes(c, o) == op' = [op EXCEPT ![c] = o]
Start(c) ==
  \E kind \in Kinds, e \in Endpoints, j \in Endpoints \cup {NoOne} :
    /\ ~Working(c) /\ used.ops < MaxOps /\ j # e /\ (kind = "check" => j = NoOne)
    /\ Becomes(c, [Idle EXCEPT !.kind = kind, !.at = e, !.jump = j, !.pc = 1])
    /\ used' = [used EXCEPT !.ops = @ + 1]
    /\ UNCHANGED <<file, hosts, lock, reported, confirmed, sent, trusted>>

Reaches(c, s) ==  \* resolving, connecting, opening the tunnel: they succeed or fail
  /\ s.do \in {"dns", "tcp", "tunnel"}
  /\ \/ Becomes(c, Passed(op[c], s))
     \/ Becomes(c, Failed(op[c], s))
  /\ UNCHANGED <<reported, sent>>
Handshake(c, s) ==
  /\ s.do = "handshake" /\ UNCHANGED <<reported, sent>>
  /\ \/ Becomes(c, Passed([op[c] EXCEPT !.seen = hosts[EndpointOf(op[c], s)]], s))
     \/ Becomes(c, Failed(op[c], s))
Verify(c, s) ==
  LET o == op[c] e == EndpointOf(o, s) verdict == Verdict(e, o.seen)
  IN /\ s.do = "key" /\ UNCHANGED sent
     /\ reported' = IF verdict = "match" /\ o.kind # "check" THEN reported ELSE reported \cup {<<e, o.seen>>}
     /\ Becomes(c, CASE verdict = "match"    -> Passed(o, s)
                     [] verdict = "unknown"  -> Finish(o, Push(o, s, "warning"), "attention")
                     [] verdict = "mismatch" -> Failed(o, s))
Authenticate(c, s) ==
  LET o == [op[c] EXCEPT !.sentIt = @ \/ s.hop = "target"]
  IN /\ s.do = "auth" /\ sent' = sent \cup {<<EndpointOf(o, s), o.seen>>} /\ UNCHANGED reported
     /\ Becomes(c, Passed(o, s)) \/ Becomes(c, Failed(o, s))
Cancelled(c, s) ==
  /\ op[c].kind = "preflight" /\ op[c].flag /\ Looks(s)
  /\ Becomes(c, Finish(op[c], op[c].report, "cancelled")) /\ UNCHANGED <<reported, sent>>
Connection(c) ==
  /\ Working(c) /\ op[c].kind \in Kinds /\ UNCHANGED <<file, hosts, lock, confirmed, trusted, used>>
  /\ LET s == Route(op[c])[op[c].pc]
     IN \/ Cancelled(c, s)
        \/ /\ ~(op[c].kind = "preflight" /\ op[c].flag /\ Looks(s))
           /\ Reaches(c, s) \/ Handshake(c, s) \/ Verify(c, s) \/ Authenticate(c, s)
Cancel(c) ==
  /\ Working(c) /\ op[c].kind = "preflight" /\ ~op[c].flag
  /\ Becomes(c, [op[c] EXCEPT !.flag = TRUE])
  /\ UNCHANGED <<file, hosts, lock, reported, confirmed, sent, trusted, used>>

(* --------------------------- trusting and removing --------------------------- *)
\* The user confirms a fingerprint that was shown, or asks to remove a listed row: a row is
\* a line of the file, named by all the patterns of the line.
Listed == {l.at : l \in file}
Confirm(c) ==
  \E p \in reported :
    /\ ~Working(c) /\ used.ops < MaxOps /\ used' = [used EXCEPT !.ops = @ + 1]
    /\ Becomes(c, [Idle EXCEPT !.kind = "trust", !.at = p[1], !.wants = p[2], !.pc = 1])
    /\ confirmed' = confirmed \cup {p}
    /\ UNCHANGED <<file, hosts, lock, reported, sent, trusted>>
AskRemoval(c) ==
  \E pats \in Listed :
    /\ ~Working(c) /\ used.ops < MaxOps /\ used' = [used EXCEPT !.ops = @ + 1]
    /\ Becomes(c, [Idle EXCEPT !.kind = "remove", !.pats = pats, !.pc = 1])
    /\ UNCHANGED <<file, hosts, lock, reported, confirmed, sent, trusted>>
Writing(c) == Working(c) /\ op[c].kind \in {"trust", "remove"}

\* mutant: the write lock is not taken while the key is fetched and the file read
LockAnyway(c) ==
  /\ Writing(c) /\ op[c].pc = 1 /\ lock' = c
  /\ Becomes(c, [op[c] EXCEPT !.pc = 2])
  /\ UNCHANGED <<file, hosts, reported, confirmed, sent, trusted, used>>
Lock(c) ==
  /\ Writing(c) /\ op[c].pc = 1 /\ lock = NoOne /\ lock' = c
  /\ Becomes(c, [op[c] EXCEPT !.pc = 2])
  /\ UNCHANGED <<file, hosts, reported, confirmed, sent, trusted, used>>
Confirmed(expected, actual) == expected = actual
FetchKey(c) ==
  LET k == hosts[op[c].at]
  IN /\ Writing(c) /\ op[c].pc = 2 /\ op[c].kind = "trust" /\ lock = c
     /\ \/ Confirmed(op[c].wants, k) /\ Becomes(c, [op[c] EXCEPT !.pc = 3, !.seen = k]) /\ UNCHANGED lock
        \/ Becomes(c, [op[c] EXCEPT !.pc = 0, !.status = "failed"]) /\ lock' = NoOne
     /\ UNCHANGED <<file, hosts, reported, confirmed, sent, trusted, used>>

Excluding(e) == {[at |-> {p[1]}, key |-> p[2]] : p \in {q \in Pairs(file) : q[1] # e}}
\* Both rewrite the file in place: it is emptied first.
Read(c) ==
  LET o == op[c]
      lines == IF o.kind = "trust" THEN Excluding(o.at) \cup {[at |-> {o.at}, key |-> o.seen]}
               ELSE {l \in file : l.at # o.pats}
  IN /\ Writing(c) /\ lock = c /\ o.pc = (IF o.kind = "trust" THEN 3 ELSE 2)
     /\ Becomes(c, [o EXCEPT !.pc = 4, !.rest = lines]) /\ file' = {}
     /\ trusted' = IF o.kind = "trust" THEN {p \in trusted : p[1] # o.at} \cup {<<o.at, o.seen>>}
                   ELSE trusted \ Pairs({l \in file : l.at = o.pats})
     /\ UNCHANGED <<hosts, lock, reported, confirmed, sent, used>>
Write(c) ==
  /\ Writing(c) /\ op[c].pc = 4
  /\ \/ \E l \in op[c].rest : /\ file' = file \cup {l} /\ UNCHANGED lock
                              /\ Becomes(c, [op[c] EXCEPT !.rest = @ \ {l}])
     \/ /\ op[c].rest = {} /\ lock' = NoOne /\ UNCHANGED file
        /\ Becomes(c, [op[c] EXCEPT !.pc = 0, !.status = "passed"])
  /\ UNCHANGED <<hosts, reported, confirmed, sent, trusted, used>>

(* -------------------------------- the world -------------------------------- *)
Rotate ==
  \E e \in Endpoints, k \in Keys :
    /\ used.rotations < MaxRotations /\ hosts[e] # k /\ hosts' = [hosts EXCEPT ![e] = k]
    /\ used' = [used EXCEPT !.rotations = @ + 1]
    /\ UNCHANGED <<file, lock, op, reported, confirmed, sent, trusted>>
Crash ==
  /\ used.crashes < MaxCrashes /\ used' = [used EXCEPT !.crashes = @ + 1]
  /\ op' = [c \in Callers |-> Idle] /\ lock' = NoOne /\ reported' = {} /\ trusted' = Pairs(file)
  /\ UNCHANGED <<file, hosts, confirmed, sent>>

CallerStep(c) ==
  \/ Start(c) \/ Connection(c) \/ Cancel(c) \/ Confirm(c) \/ AskRemoval(c)
  \/ Lock(c) \/ FetchKey(c) \/ Read(c) \/ Write(c)
Next == Rotate \/ Crash \/ \E c \in Callers : CallerStep(c)
Spec == Init /\ [][Next]_vars

(* -------------------------------- properties -------------------------------- *)
\* The types of the variables.
TypeOK ==
  /\ file \subseteq Lines /\ hosts \in [Endpoints -> Keys] /\ lock \in Callers \cup {NoOne}
  /\ \A c \in Callers : op[c].pc \in 0..9 /\ op[c].rest \subseteq Lines
  /\ reported \cup confirmed \cup sent \cup trusted \subseteq Endpoints \X Keys
  /\ \A c \in Callers : (lock = c) = (Writing(c) /\ op[c].pc > 1)

\* Credentials go only to an endpoint whose key the user trusted for that very endpoint,
\* whatever was trusted, removed, rotated, half written or lost in a crash meanwhile.
OnlyConfirmed == sent \subseteq confirmed

\* Whenever nobody writes it, the file says exactly what the trusts and removals asked
\* for: none undoes another, none takes other endpoints of a line along, and a key that
\* was replaced is no longer accepted.
FileIsWhatWasAsked == lock = NoOne => Pairs(file) = trusted

\* A finished preflight reports every step it promised once, in order; what follows the
\* step that stopped it was not run, and it passed only if every step did.
ReportIsComplete ==
  \A c \in Callers : op[c].kind = "preflight" /\ op[c].status # "none" =>
    LET r == op[c].report
    IN /\ [i \in 1..Len(r) |-> r[i].id] = Expected(op[c])
       /\ \A i, j \in 1..Len(r) : i < j /\ r[i].status # "passed" => r[j].status = "blocked"
       /\ (op[c].status = "passed") = (\A i \in 1..Len(r) : r[i].status = "passed")

\* A preflight that says it was cancelled sent nothing to the target.
CancelledSendsNothing == \A c \in Callers : op[c].status = "cancelled" => ~op[c].sentIt
=============================================================================
