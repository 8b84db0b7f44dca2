-------------------------- MODULE HostTrust_proof --------------------------
(* Proofs about HostTrust: whatever was trusted, removed, rotated, half written or lost
   in a crash, credentials go only to an endpoint whose key the user trusted for that
   very endpoint; a preflight that was cancelled sent none to the target; and whenever
   nobody writes it, the file says what the trusts and the removals asked for.

   The inductive invariant is TrustInv.  Its heart is that a connection which is about
   to authenticate has found its key in the file (Vetted), that what the file says was
   confirmed, and that so was what a writer still has to put into it.  FileInv, on top
   of it, says what a writer has in hand. *)
EXTENDS HostTrust, SequenceTheorems, TLAPS

(* --------------------------------- routes --------------------------------- *)

Steps == [do : {"dns", "tcp", "tunnel", "handshake", "key", "auth"}, hop : {"first", "jump", "target"}]

\* Before a host is authenticated to, its key is looked up, and before that it is
\* received from the same host; after the target there is nothing.
WellRouted(r, jump) ==
  /\ r \in Seq(Steps) /\ Len(r) \in 1..9 /\ r[1].do = "dns"
  /\ \A i \in 1..Len(r) :
       /\ r[i].hop = "jump" => jump # NoOne
       /\ r[i].do = "auth" /\ r[i].hop # "jump" => i = Len(r)
  /\ \A i, j \in 1..Len(r) : j = i + 1 =>
       /\ r[j].do = "auth" => r[i] = [do |-> "key", hop |-> r[j].hop]
       /\ r[j].do = "key" => r[i] = [do |-> "handshake", hop |-> r[j].hop]

\* What joining two sequences gives, place by place.
LEMMA JoinedAt ==
  ASSUME NEW S, NEW a \in Seq(S), NEW b \in Seq(S), NEW r, r = a \o b
  PROVE  /\ r \in Seq(S) /\ Len(a) \in Nat /\ Len(b) \in Nat /\ Len(r) = Len(a) + Len(b)
         /\ \A i \in 1..Len(a) : r[i] = a[i]
         /\ \A i \in 1..Len(b) : r[Len(a) + i] = b[i]
  BY ConcatProperties

\* Every route of a connection or a check is of this kind (connection.rs).
LEMMA RouteShape ==
  ASSUME NEW o
  PROVE  WellRouted(Route(o), o.jump)
<1> DEFINE S(d, h) == [do |-> d, hop |-> h]
           head == <<S("dns", "first"), S("tcp", "first")>>
           hop(h) == <<S("handshake", h), S("key", h), S("auth", h)>>
           tunnel == <<S("tunnel", "jump")>>
<1>1. head \in Seq(Steps) /\ hop("jump") \in Seq(Steps) /\ hop("target") \in Seq(Steps)
      /\ tunnel \in Seq(Steps) /\ <<>> \in Seq(Steps)
  BY DEF Steps
<1>2. PICK seen \in Seq(Steps) : /\ seen = SubSeq(hop("target"), 1, 2) /\ Len(seen) = 2
                                 /\ seen[1] = S("handshake", "target") /\ seen[2] = S("key", "target")
  <2>1. SubSeq(hop("target"), 1, 2) \in Seq(Steps) /\ Len(SubSeq(hop("target"), 1, 2)) = 2
        /\ \A i \in 1..2 : SubSeq(hop("target"), 1, 2)[i] = hop("target")[1 + i - 1]
    BY <1>1, SubSeqProperties
  <2>2. PICK q \in Seq(Steps) : q = SubSeq(hop("target"), 1, 2)
    BY <2>1
  <2>3. Len(q) = 2 /\ q[1] = hop("target")[1] /\ q[2] = hop("target")[2]
    BY <2>1, <2>2
  <2> QED
    BY <2>2, <2>3
<1>3. PICK jumps \in Seq(Steps) : /\ jumps = hop("jump") \o tunnel
                                  /\ Len(jumps) = 4
                                  /\ jumps[1] = S("handshake", "jump") /\ jumps[2] = S("key", "jump")
                                  /\ jumps[3] = S("auth", "jump") /\ jumps[4] = S("tunnel", "jump")
  <2>1. PICK j \in Seq(Steps) : j = hop("jump") \o tunnel
    BY <1>1, JoinedAt
  <2>2. Len(hop("jump")) = 3 /\ Len(tunnel) = 1
    OBVIOUS
  <2>3. /\ Len(j) = 4 /\ \A i \in 1..3 : j[i] = hop("jump")[i]
        /\ \A i \in 1..1 : j[3 + i] = tunnel[i]
    BY <1>1, <2>1, <2>2, JoinedAt
  <2>4. j[1] = hop("jump")[1] /\ j[2] = hop("jump")[2] /\ j[3] = hop("jump")[3] /\ j[4] = tunnel[1]
    BY <2>3
  <2> QED
    BY <2>1, <2>3, <2>4
<1>4. PICK h \in Seq(Steps) : /\ h = head /\ Len(h) = 2 /\ h[1] = S("dns", "first") /\ h[2] = S("tcp", "first")
  BY <1>1
<1>5. PICK t \in Seq(Steps) : /\ t = hop("target") /\ Len(t) = 3 /\ t[1] = S("handshake", "target")
                              /\ t[2] = S("key", "target") /\ t[3] = S("auth", "target")
  BY <1>1
<1>6. Route(o) = (h \o (IF o.jump # NoOne THEN jumps ELSE <<>>))
                   \o (IF o.kind = "check" THEN seen ELSE t)
  BY <1>2, <1>3, <1>4, <1>5 DEF Route, Hop
<1> HIDE DEF head, hop, tunnel
<1>7. PICK m \in Seq(Steps) : m = IF o.jump # NoOne THEN jumps ELSE <<>>
  BY <1>1, <1>3
<1>8. PICK e \in Seq(Steps) : e = IF o.kind = "check" THEN seen ELSE t
  BY <1>2, <1>5
<1>9. PICK hm \in Seq(Steps) : hm = h \o m
  BY <1>4, <1>7, JoinedAt
<1>10. PICK r \in Seq(Steps) : r = hm \o e
  BY <1>8, <1>9, JoinedAt
<1>11. r = Route(o)
  BY <1>6, <1>7, <1>8, <1>9, <1>10
<1>12. WellRouted(r, o.jump)
  <2>1. e[1] = S("handshake", "target") /\ e[2] = S("key", "target")
    BY <1>2, <1>5, <1>8
  <2>2. Len(m) \in Nat /\ Len(hm) = 2 + Len(m) /\ hm[1] = S("dns", "first") /\ hm[2] = S("tcp", "first")
        /\ \A i \in 1..Len(m) : hm[2 + i] = m[i]
    <3>1. Len(m) \in Nat /\ Len(hm) = Len(h) + Len(m)
      BY <1>9, JoinedAt
    <3>2. \A i \in 1..Len(h) : hm[i] = h[i]
      BY <1>9, JoinedAt
    <3>3. \A i \in 1..Len(m) : hm[Len(h) + i] = m[i]
      BY <1>9, JoinedAt
    <3>4. hm[1] = h[1] /\ hm[2] = h[2]
      BY <1>4, <3>2
    <3> QED
      BY <1>4, <3>1, <3>3, <3>4
  <2>3. /\ Len(r) = Len(hm) + Len(e) /\ \A i \in 1..Len(hm) : r[i] = hm[i]
        /\ \A i \in 1..Len(e) : r[Len(hm) + i] = e[i]
    <3>1. Len(r) = Len(hm) + Len(e)
      BY <1>10, JoinedAt
    <3>2. \A i \in 1..Len(hm) : r[i] = hm[i]
      BY <1>10, JoinedAt
    <3>3. \A i \in 1..Len(e) : r[Len(hm) + i] = e[i]
      BY <1>10, JoinedAt
    <3> QED
      BY <3>1, <3>2, <3>3
  <2>4. r[1] = S("dns", "first") /\ r[2] = S("tcp", "first")
    BY <2>2, <2>3
  <2>5. CASE o.jump = NoOne /\ o.kind = "check"
    <3>1. Len(hm) = 2
      BY <1>7, <2>2, <2>5
    <3>2. Len(e) = 2
      BY <1>2, <1>5, <1>8, <2>5
    <3>3. Len(r) = 4
      BY <2>3, <3>1, <3>2
    <3>4. 1 \in 1..Len(e) /\ 2 \in 1..Len(e) /\ 2 + 1 = 3 /\ 2 + 2 = 4
      BY <3>2
    <3>5. \A i \in 1..Len(e) : r[2 + i] = e[i]
      BY <2>3, <3>1, Zenon
    <3>6. r[2 + 1] = e[1] /\ r[2 + 2] = e[2]
      BY <3>4, <3>5, Zenon
    <3>7. r[3] = S("handshake", "target") /\ r[4] = S("key", "target")
      BY <2>1, <3>2, <3>4, <3>6
    <3> QED
      BY <2>4, <2>5, <3>3, <3>7 DEF WellRouted, Steps
  <2>6. CASE o.jump = NoOne /\ o.kind # "check"
    <3>1. Len(hm) = 2
      BY <1>7, <2>2, <2>6
    <3>2. Len(e) = 3 /\ e[3] = S("auth", "target")
      BY <1>2, <1>5, <1>8, <2>6
    <3>3. Len(r) = 5
      BY <2>3, <3>1, <3>2
    <3>4. 1 \in 1..Len(e) /\ 2 \in 1..Len(e) /\ 3 \in 1..Len(e) /\ 2 + 1 = 3 /\ 2 + 2 = 4 /\ 2 + 3 = 5
      BY <3>2
    <3>5. \A i \in 1..Len(e) : r[2 + i] = e[i]
      BY <2>3, <3>1, Zenon
    <3>6. r[2 + 1] = e[1] /\ r[2 + 2] = e[2] /\ r[2 + 3] = e[3]
      BY <3>4, <3>5, Zenon
    <3>7. r[3] = S("handshake", "target") /\ r[4] = S("key", "target") /\ r[5] = S("auth", "target")
      BY <2>1, <3>2, <3>4, <3>6
    <3> QED
      BY <2>4, <2>6, <3>3, <3>7 DEF WellRouted, Steps
  <2>7. CASE o.jump # NoOne /\ o.kind = "check"
    <3>1. m = jumps /\ Len(m) = 4 /\ Len(hm) = 6
      <4>1. m = jumps
        BY <1>7, <2>7
      <4>2. Len(m) = 4
        BY <1>3, <4>1
      <4> QED
        BY <2>2, <4>1, <4>2
    <3>2. /\ 2 + 1 = 3 /\ 2 + 2 = 4 /\ 2 + 3 = 5 /\ 2 + 4 = 6
          /\ 1 \in 1..Len(m) /\ 2 \in 1..Len(m) /\ 3 \in 1..Len(m) /\ 4 \in 1..Len(m)
      BY <3>1
    <3>3. hm[2 + 1] = m[1] /\ hm[2 + 2] = m[2] /\ hm[2 + 3] = m[3] /\ hm[2 + 4] = m[4]
      BY <2>2, <3>2, Zenon
    <3>4. /\ hm[3] = S("handshake", "jump") /\ hm[4] = S("key", "jump")
          /\ hm[5] = S("auth", "jump") /\ hm[6] = S("tunnel", "jump")
      BY <1>3, <3>1, <3>2, <3>3
    <3>5. 3 \in 1..Len(hm) /\ 4 \in 1..Len(hm) /\ 5 \in 1..Len(hm) /\ 6 \in 1..Len(hm)
      BY <3>1
    <3>6. r[3] = hm[3] /\ r[4] = hm[4] /\ r[5] = hm[5] /\ r[6] = hm[6]
      BY <2>3, <3>5, Zenon
    <3>7. Len(e) = 2
      BY <1>2, <1>5, <1>8, <2>7
    <3>8. Len(r) = 8
      BY <2>3, <3>1, <3>7
    <3>9. 1 \in 1..Len(e) /\ 2 \in 1..Len(e) /\ 6 + 1 = 7 /\ 6 + 2 = 8
      BY <3>7
    <3>10. \A i \in 1..Len(e) : r[6 + i] = e[i]
      BY <2>3, <3>1, Zenon
    <3>11. r[6 + 1] = e[1] /\ r[6 + 2] = e[2]
      BY <3>9, <3>10, Zenon
    <3>12. r[7] = S("handshake", "target") /\ r[8] = S("key", "target")
      BY <2>1, <3>7, <3>9, <3>11
    <3> QED
      BY <2>4, <2>7, <3>8, <3>12, <3>4, <3>6 DEF WellRouted, Steps
  <2>8. CASE o.jump # NoOne /\ o.kind # "check"
    <3>1. m = jumps /\ Len(m) = 4 /\ Len(hm) = 6
      <4>1. m = jumps
        BY <1>7, <2>8
      <4>2. Len(m) = 4
        BY <1>3, <4>1
      <4> QED
        BY <2>2, <4>1, <4>2
    <3>2. /\ 2 + 1 = 3 /\ 2 + 2 = 4 /\ 2 + 3 = 5 /\ 2 + 4 = 6
          /\ 1 \in 1..Len(m) /\ 2 \in 1..Len(m) /\ 3 \in 1..Len(m) /\ 4 \in 1..Len(m)
      BY <3>1
    <3>3. hm[2 + 1] = m[1] /\ hm[2 + 2] = m[2] /\ hm[2 + 3] = m[3] /\ hm[2 + 4] = m[4]
      BY <2>2, <3>2, Zenon
    <3>4. /\ hm[3] = S("handshake", "jump") /\ hm[4] = S("key", "jump")
          /\ hm[5] = S("auth", "jump") /\ hm[6] = S("tunnel", "jump")
      BY <1>3, <3>1, <3>2, <3>3
    <3>5. 3 \in 1..Len(hm) /\ 4 \in 1..Len(hm) /\ 5 \in 1..Len(hm) /\ 6 \in 1..Len(hm)
      BY <3>1
    <3>6. r[3] = hm[3] /\ r[4] = hm[4] /\ r[5] = hm[5] /\ r[6] = hm[6]
      BY <2>3, <3>5, Zenon
    <3>7. Len(e) = 3 /\ e[3] = S("auth", "target")
      BY <1>2, <1>5, <1>8, <2>8
    <3>8. Len(r) = 9
      BY <2>3, <3>1, <3>7
    <3>9. 1 \in 1..Len(e) /\ 2 \in 1..Len(e) /\ 3 \in 1..Len(e) /\ 6 + 1 = 7 /\ 6 + 2 = 8 /\ 6 + 3 = 9
      BY <3>7
    <3>10. \A i \in 1..Len(e) : r[6 + i] = e[i]
      BY <2>3, <3>1, Zenon
    <3>11. r[6 + 1] = e[1] /\ r[6 + 2] = e[2] /\ r[6 + 3] = e[3]
      BY <3>9, <3>10, Zenon
    <3>12. r[7] = S("handshake", "target") /\ r[8] = S("key", "target") /\ r[9] = S("auth", "target")
      BY <2>1, <3>7, <3>9, <3>11
    <3> QED
      BY <2>4, <2>8, <3>8, <3>12, <3>4, <3>6 DEF WellRouted, Steps
  <2> QED
    BY <2>5, <2>6, <2>7, <2>8
<1> QED
  BY <1>11, <1>12

(* ------------------------------- invariants ------------------------------- *)

Fields == {"kind", "at", "jump", "pats", "pc", "seen", "wants", "flag", "status", "report",
           "rest", "sentIt"}

\* A connection that is about to look a key up has received it, and one that is about to
\* authenticate has found it in the file, for the endpoint it will authenticate to.
Vetted(o, conf) ==
  /\ o.pc \in 1..Len(Route(o)) /\ o.at \in Endpoints /\ o.jump \in Endpoints \cup {NoOne} /\ ~o.sentIt
  /\ Route(o)[o.pc].do \in {"key", "auth"} => o.seen \in Keys
  /\ Route(o)[o.pc].do = "auth" => <<EndpointOf(o, Route(o)[o.pc]), o.seen>> \in conf

\* A trust writes the key that was confirmed for its endpoint.
Asked(o, conf) ==
  /\ o.pc \in 1..4 /\ o.at \in Endpoints /\ o.wants \in Keys /\ <<o.at, o.wants>> \in conf
  /\ o.pc \in {3, 4} => o.seen = o.wants

OpOK(o, conf) ==
  /\ DOMAIN o = Fields /\ o.pc \in Nat /\ o.rest \subseteq Lines
  /\ o.pc # 0 => o.kind \in Kinds \cup {"trust", "remove"}
  /\ o.pc # 0 /\ o.kind \in Kinds => Vetted(o, conf)
  /\ o.pc # 0 /\ o.kind = "trust" => Asked(o, conf)
  /\ o.pc # 0 /\ o.kind = "remove" => o.pc \in {1, 2, 4}
  /\ o.pc = 4 /\ o.kind \in {"trust", "remove"} => Pairs(o.rest) \subseteq conf
  /\ o.status = "cancelled" => ~o.sentIt

Holding(o) == o.pc # 0 /\ o.kind \in {"trust", "remove"} /\ o.pc > 1

WorldOK ==
  /\ file \subseteq Lines /\ hosts \in [Endpoints -> Keys] /\ lock \in Callers \cup {NoOne}
  /\ reported \subseteq Endpoints \X Keys /\ confirmed \subseteq Endpoints \X Keys
  /\ trusted \subseteq Endpoints \X Keys

TrustInv ==
  /\ WorldOK /\ Pairs(file) \subseteq confirmed /\ sent \subseteq confirmed /\ DOMAIN op = Callers
  /\ \A c \in Callers : OpOK(op[c], confirmed) /\ (lock = c <=> Holding(op[c]))

\* No two lines name the same pair, so that a pair goes with the line that is removed.
Distinct(lines) == \A l, m \in lines : l.key = m.key /\ l.at \cap m.at # {} => l = m

\* What is in the file, and what its writer still has to put into it.
FileInv ==
  /\ lock = NoOne => Distinct(file) /\ Pairs(file) = trusted
  /\ \A c \in Callers : lock = c /\ op[c].pc # 4 => Distinct(file) /\ Pairs(file) = trusted
  /\ \A c \in Callers : lock = c /\ op[c].pc = 4 =>
       Distinct(file \cup op[c].rest) /\ Pairs(file \cup op[c].rest) = trusted

(* ---------------------------------- lines ---------------------------------- *)

\* A pair is in a set of lines when one of the lines names it.
LEMMA PairIn ==
  ASSUME NEW lines, NEW p
  PROVE  p \in Pairs(lines) <=> \E l \in lines : \E e \in l.at : p = <<e, l.key>>
  BY DEF Pairs

\* More lines name more pairs.
LEMMA PairsGrow ==
  ASSUME NEW a, NEW b, a \subseteq b
  PROVE  Pairs(a) \subseteq Pairs(b)
  BY DEF Pairs

\* The pairs of two sets of lines.
LEMMA PairsJoin ==
  ASSUME NEW a, NEW b
  PROVE  Pairs(a \cup b) = Pairs(a) \cup Pairs(b)
  BY DEF Pairs

\* Lines name endpoints and keys.
LEMMA PairsType ==
  ASSUME NEW a, a \subseteq Lines
  PROVE  Pairs(a) \subseteq Endpoints \X Keys
  BY DEF Pairs, Lines

\* A writer that trusts an endpoint keeps the pairs of the others (known_hosts.rs).
LEMMA ExcludingPairs ==
  ASSUME NEW e \in Endpoints, file \subseteq Lines
  PROVE  /\ Excluding(e) \subseteq Lines /\ Distinct(Excluding(e))
         /\ Pairs(Excluding(e)) = {p \in Pairs(file) : p[1] # e}
         /\ \A l \in Excluding(e) : e \notin l.at
<1>1. Pairs(file) \subseteq Endpoints \X Keys
  BY PairsType
<1>2. Excluding(e) \subseteq Lines /\ \A l \in Excluding(e) : e \notin l.at
  BY <1>1 DEF Excluding, Lines
<1>3. Distinct(Excluding(e))
  BY <1>1 DEF Excluding, Distinct
<1>4. ASSUME NEW p
      PROVE  p \in Pairs(Excluding(e)) <=> p \in Pairs(file) /\ p[1] # e
  <2>1. ASSUME p \in Pairs(Excluding(e))
        PROVE  p \in Pairs(file) /\ p[1] # e
    <3>1. PICK l \in Excluding(e) : \E x \in l.at : p = <<x, l.key>>
      BY <2>1, PairIn
    <3>2. PICK q \in Pairs(file) : q[1] # e /\ l = [at |-> {q[1]}, key |-> q[2]]
      BY <3>1 DEF Excluding
    <3>3. p = <<q[1], q[2]>>
      BY <3>1, <3>2
    <3>4. p = q
      BY <1>1, <3>2, <3>3
    <3> QED
      BY <3>2, <3>4
  <2>2. ASSUME p \in Pairs(file), p[1] # e
        PROVE  p \in Pairs(Excluding(e))
    <3>1. [at |-> {p[1]}, key |-> p[2]] \in Excluding(e)
      BY <2>2 DEF Excluding
    <3>2. p = <<p[1], p[2]>>
      BY <1>1, <2>2
    <3>3. PICK l : l = [at |-> {p[1]}, key |-> p[2]]
      OBVIOUS
    <3>4. l \in Excluding(e) /\ p[1] \in l.at /\ p = <<p[1], l.key>>
      BY <3>1, <3>2, <3>3
    <3> QED
      BY <3>4, PairIn
  <2> QED
    BY <2>1, <2>2
<1>5. Pairs(Excluding(e)) = {p \in Pairs(file) : p[1] # e}
  BY <1>4
<1> QED
  BY <1>2, <1>3, <1>5

\* A removal takes the pairs of its lines along and no other, if no two lines name the
\* same pair (commands.rs).
LEMMA RemovingPairs ==
  ASSUME NEW pats, file \subseteq Lines, Distinct(file)
  PROVE  Pairs({l \in file : l.at # pats}) = Pairs(file) \ Pairs({l \in file : l.at = pats})
<1>1. ASSUME NEW p \in Pairs({l \in file : l.at # pats})
      PROVE  p \in Pairs(file) /\ p \notin Pairs({l \in file : l.at = pats})
  <2>1. PICK l \in file : l.at # pats /\ \E x \in l.at : p = <<x, l.key>>
    BY PairIn
  <2>2. PICK x \in l.at : p = <<x, l.key>>
    BY <2>1
  <2>3. ASSUME p \in Pairs({m \in file : m.at = pats}) PROVE FALSE
    <3>1. PICK m \in file : m.at = pats /\ \E y \in m.at : p = <<y, m.key>>
      BY <2>3, PairIn
    <3>2. PICK y \in m.at : p = <<y, m.key>>
      BY <3>1
    <3>3. x = y /\ l.key = m.key
      BY <2>2, <3>2
    <3>4. l = m
      BY <3>3 DEF Distinct
    <3> QED
      BY <2>1, <3>1, <3>4
  <2>4. p \in Pairs(file)
    BY <2>1, PairIn
  <2> QED
    BY <2>3, <2>4
<1>2. ASSUME NEW p \in Pairs(file), p \notin Pairs({l \in file : l.at = pats})
      PROVE  p \in Pairs({l \in file : l.at # pats})
  <2>1. PICK l \in file : \E x \in l.at : p = <<x, l.key>>
    BY PairIn
  <2>2. l.at # pats
    BY <1>2, <2>1, PairIn
  <2> QED
    BY <2>1, <2>2, PairIn
<1> QED
  BY <1>1, <1>2

(* ------------------------------- operations ------------------------------- *)

\* What an operation that goes on keeps.
Same(o, p) ==
  /\ DOMAIN p = Fields /\ p.kind = o.kind /\ p.at = o.at /\ p.jump = o.jump /\ p.seen = o.seen
  /\ p.rest = o.rest /\ p.sentIt = o.sentIt

\* A route and its endpoints are those of the request.
LEMMA SameRoute ==
  ASSUME NEW o, NEW p, o.kind = p.kind, o.jump = p.jump, o.at = p.at
  PROVE  Route(o) = Route(p) /\ \A s : EndpointOf(o, s) = EndpointOf(p, s)
  BY DEF Route, EndpointOf

\* The endpoint of each step is one the request names.
LEMMA EndpointIn ==
  ASSUME NEW o, o.at \in Endpoints, o.jump \in Endpoints \cup {NoOne}, NEW i \in 1..Len(Route(o))
  PROVE  EndpointOf(o, Route(o)[i]) \in Endpoints
<1>1. Route(o)[i].hop = "jump" => o.jump # NoOne
  BY RouteShape DEF WellRouted
<1> QED
  BY <1>1 DEF EndpointOf

\* What ending does to an operation: only its report is more than it says here.
LEMMA FinishIs ==
  ASSUME NEW o, DOMAIN o = Fields, NEW report, NEW status
  PROVE  LET p == Finish(o, report, status) IN Same(o, p) /\ p.pc = 0 /\ p.status = status
<1>1. PICK x : Finish(o, report, status) = [o EXCEPT !.pc = 0, !.status = status, !.report = x]
  BY DEF Finish
<1> QED
  BY <1>1 DEF Same, Fields

\* An operation that ended is in order, if a cancelled one had sent nothing.
LEMMA EndsOK ==
  ASSUME NEW conf, NEW o, DOMAIN o = Fields, o.rest \subseteq Lines, NEW report, NEW status,
         status = "cancelled" => ~o.sentIt
  PROVE  OpOK(Finish(o, report, status), conf) /\ ~Holding(Finish(o, report, status))
<1>1. PICK p : p = Finish(o, report, status)
  OBVIOUS
<1>2. Same(o, p) /\ p.pc = 0 /\ p.status = status
  BY <1>1, FinishIs
<1>3. OpOK(p, conf) /\ ~Holding(p)
  BY <1>2 DEF OpOK, Holding, Same
<1> QED
  BY <1>1, <1>3

\* A step that passed leads to the next one, or to the end: what the next one needs is
\* what this one brought.
LEMMA AdvancesOK ==
  ASSUME NEW conf, NEW o, OpOK(o, conf), o.pc # 0, o.kind \in Kinds, NEW s, s = Route(o)[o.pc],
         NEW q, DOMAIN q = Fields, q.kind = o.kind, q.at = o.at, q.jump = o.jump, q.pc = o.pc,
         q.rest = o.rest, q.status = o.status,
         IF s.do = "handshake" THEN q.seen \in Keys ELSE q.seen = o.seen,
         s.do = "key" => <<EndpointOf(o, s), o.seen>> \in conf,
         q.sentIt => s.do = "auth" /\ s.hop # "jump"
  PROVE  OpOK(Passed(q, s), conf) /\ ~Holding(Passed(q, s))
<1>1. Vetted(o, conf) /\ o.pc \in 1..Len(Route(o)) /\ Len(Route(o)) \in Nat
  BY RouteShape DEF OpOK, Vetted, WellRouted
<1>2. Route(q) = Route(o) /\ \A x : EndpointOf(q, x) = EndpointOf(o, x)
  BY SameRoute
<1>3. CASE q.pc = Len(Route(q))
  <2>1. PICK report : Passed(q, s) = Finish(q, report, "passed")
    BY <1>3 DEF Passed
  <2>2. q.rest \subseteq Lines
    BY DEF OpOK
  <2> QED
    BY <2>1, <2>2, EndsOK
<1>4. CASE q.pc # Len(Route(q))
  <2>1. PICK report : Passed(q, s) = [q EXCEPT !.pc = @ + 1, !.report = report]
    BY <1>4 DEF Passed
  <2>2. PICK p : p = Passed(q, s)
    OBVIOUS
  <2>3. /\ DOMAIN p = Fields /\ p.kind = o.kind /\ p.at = o.at /\ p.jump = o.jump /\ p.seen = q.seen
        /\ p.pc = o.pc + 1 /\ p.rest = o.rest /\ p.status = o.status /\ p.sentIt = q.sentIt
    BY <2>1, <2>2 DEF Fields
  <2>4. Route(p) = Route(o) /\ \A x : EndpointOf(p, x) = EndpointOf(o, x)
    BY <2>3, SameRoute
  <2>5. PICK n : n = Route(o)[o.pc + 1]
    OBVIOUS
  <2>6. o.pc + 1 \in 1..Len(Route(o)) /\ o.pc + 1 # 0 /\ o.pc + 1 \in Nat
    BY <1>1, <1>2, <1>4
  <2>7. /\ n.do = "auth" => s = [do |-> "key", hop |-> n.hop]
        /\ n.do = "key" => s = [do |-> "handshake", hop |-> n.hop]
    <3>1. o.pc \in 1..Len(Route(o)) /\ o.pc + 1 \in 1..Len(Route(o))
      BY <1>1, <2>6
    <3> QED
      BY <2>5, <3>1, RouteShape, Zenon DEF WellRouted
  <2>8. ~p.sentIt
    <3>1. s.do = "auth" /\ s.hop # "jump" => o.pc = Len(Route(o))
      BY <1>1, RouteShape DEF WellRouted
    <3> QED
      BY <1>2, <1>4, <2>3, <3>1
  <2>9. n.do = "key" => p.seen \in Keys
    BY <2>3, <2>7
  <2>10. n.do = "auth" => p.seen \in Keys /\ <<EndpointOf(p, n), p.seen>> \in conf
    <3> SUFFICES ASSUME n.do = "auth" PROVE p.seen \in Keys /\ <<EndpointOf(p, n), p.seen>> \in conf
      OBVIOUS
    <3>1. s.do = "key" /\ s.hop = n.hop /\ p.seen = o.seen
      BY <2>3, <2>7
    <3>2. EndpointOf(p, n) = EndpointOf(o, s)
      BY <2>3, <3>1 DEF EndpointOf
    <3>3. o.seen \in Keys
      BY <1>1, <3>1 DEF Vetted
    <3> QED
      BY <3>1, <3>2, <3>3
  <2>11. Vetted(p, conf)
    BY <1>1, <2>3, <2>4, <2>5, <2>6, <2>8, <2>9, <2>10 DEF Vetted
  <2>12. OpOK(p, conf) /\ ~Holding(p)
    BY <2>3, <2>6, <2>8, <2>11 DEF OpOK, Holding, Kinds
  <2> QED
    BY <2>2, <2>12
<1> QED
  BY <1>3, <1>4

\* An operation stays in order when more is confirmed.
LEMMA MoreConfirmed ==
  ASSUME NEW conf, NEW more, conf \subseteq more, NEW o, OpOK(o, conf)
  PROVE  OpOK(o, more)
  BY DEF OpOK, Vetted, Asked

(* ---------------------------------- steps ---------------------------------- *)

\* In the initial states nobody works and the user trusts what the file says.
LEMMA InitTrust ==
  ASSUME TrustAssumption, Init
  PROVE  TrustInv
<1>1. DOMAIN Idle = Fields /\ Idle.pc = 0 /\ Idle.rest = {} /\ Idle.status = "none"
  BY DEF Idle, Fields
<1>2. OpOK(Idle, confirmed) /\ ~Holding(Idle)
  BY <1>1 DEF OpOK, Holding
<1>3. file \subseteq Lines /\ hosts \in [Endpoints -> Keys]
  BY DEF Init, TrustAssumption
<1>4. WorldOK
  BY <1>3, PairsType DEF Init, WorldOK
<1>5. \A c \in Callers : op[c] = Idle /\ lock # c
  BY DEF Init, TrustAssumption
<1> QED
  BY <1>2, <1>4, <1>5 DEF Init, TrustInv

\* A step of one caller, whatever else it does.
LEMMA CallerMoves ==
  ASSUME TrustInv, NEW c \in Callers, NEW o, op' = [op EXCEPT ![c] = o], OpOK(o, confirmed'),
         confirmed \subseteq confirmed', lock' = c <=> Holding(o),
         \A d \in Callers \ {c} : lock' = d <=> lock = d,
         WorldOK', Pairs(file') \subseteq confirmed', sent' \subseteq confirmed'
  PROVE  TrustInv'
<1>1. DOMAIN op = Callers
  BY DEF TrustInv
<1>2. DOMAIN op' = Callers /\ op'[c] = o /\ \A d \in Callers \ {c} : op'[d] = op[d]
  BY <1>1
<1>3. ASSUME NEW d \in Callers
      PROVE  OpOK(op'[d], confirmed') /\ (lock' = d <=> Holding(op'[d]))
  <2>1. CASE d = c
    BY <1>2, <2>1
  <2>2. CASE d # c
    <3>1. OpOK(op[d], confirmed) /\ (lock = d <=> Holding(op[d]))
      BY DEF TrustInv
    <3> QED
      BY <1>2, <2>2, <3>1, MoreConfirmed
  <2> QED
    BY <2>1, <2>2
<1> QED
  BY <1>2, <1>3 DEF TrustInv

\* A caller that does not hold the lock and will not hold it, and the world as it is.
LEMMA CallerGoesOn ==
  ASSUME TrustInv, NEW c \in Callers, ~Holding(op[c]), NEW o, op' = [op EXCEPT ![c] = o],
         OpOK(o, confirmed'), ~Holding(o), UNCHANGED <<file, hosts, lock, trusted>>,
         reported' \subseteq Endpoints \X Keys, confirmed \subseteq confirmed',
         confirmed' \subseteq Endpoints \X Keys, sent' \subseteq confirmed'
  PROVE  TrustInv'
<1>1. lock # c
  BY DEF TrustInv
<1>2. WorldOK' /\ Pairs(file') \subseteq confirmed'
  BY DEF TrustInv, WorldOK
<1> QED
  BY <1>1, <1>2, CallerMoves

\* A connection, a preflight or a check begins.
LEMMA StartKeepsTrust ==
  ASSUME TrustInv, NEW c \in Callers, Start(c)
  PROVE  TrustInv'
<1>1. PICK kind \in Kinds, e \in Endpoints, j \in Endpoints \cup {NoOne} :
        /\ ~Working(c) /\ Becomes(c, [Idle EXCEPT !.kind = kind, !.at = e, !.jump = j, !.pc = 1])
        /\ UNCHANGED <<file, hosts, lock, reported, confirmed, sent, trusted>>
  BY DEF Start
<1>2. PICK o : o = [Idle EXCEPT !.kind = kind, !.at = e, !.jump = j, !.pc = 1]
  OBVIOUS
<1>3. /\ DOMAIN o = Fields /\ o.kind = kind /\ o.at = e /\ o.jump = j /\ o.pc = 1 /\ o.rest = {}
      /\ o.sentIt = FALSE /\ o.status = "none"
  BY <1>2 DEF Idle, Fields
<1>4. 1 \in 1..Len(Route(o)) /\ Route(o)[1].do = "dns"
  <2>1. Len(Route(o)) \in 1..9 /\ Route(o)[1].do = "dns"
    BY RouteShape DEF WellRouted
  <2> QED
    BY <2>1
<1>5. Vetted(o, confirmed)
  BY <1>3, <1>4 DEF Vetted
<1>6. OpOK(o, confirmed) /\ ~Holding(o)
  BY <1>3, <1>5 DEF OpOK, Holding, Kinds
<1>7. ~Holding(op[c])
  BY <1>1 DEF Working, Holding
<1> QED
  BY <1>1, <1>2, <1>6, <1>7, CallerGoesOn DEF Becomes, TrustInv, WorldOK

\* The step a connection is at, and what is known of it.
LEMMA AtStep ==
  ASSUME TrustInv, NEW c \in Callers, Working(c), op[c].kind \in Kinds, NEW s, s = Route(op[c])[op[c].pc]
  PROVE  /\ OpOK(op[c], confirmed) /\ Vetted(op[c], confirmed) /\ ~Holding(op[c])
         /\ DOMAIN op[c] = Fields /\ op[c].pc # 0 /\ op[c].rest \subseteq Lines
         /\ EndpointOf(op[c], s) \in Endpoints /\ ~op[c].sentIt
<1>1. OpOK(op[c], confirmed) /\ op[c].pc # 0
  BY DEF TrustInv, Working
<1>2. Vetted(op[c], confirmed)
  BY <1>1 DEF OpOK
<1> QED
  BY <1>1, <1>2, EndpointIn DEF OpOK, Vetted, Holding, Kinds

\* Resolving, connecting and tunnelling bring nothing that is trusted.
LEMMA ReachesOK ==
  ASSUME TrustInv, NEW c \in Callers, Working(c), op[c].kind \in Kinds, NEW s,
         s = Route(op[c])[op[c].pc], Reaches(c, s),
         UNCHANGED <<file, hosts, lock, confirmed, trusted>>
  PROVE  TrustInv'
<1>1. PICK o : o = op[c]
  OBVIOUS
<1>2. /\ OpOK(o, confirmed) /\ ~Holding(o) /\ DOMAIN o = Fields /\ o.pc # 0
      /\ o.rest \subseteq Lines /\ ~o.sentIt
  BY <1>1, AtStep
<1>3. s.do \in {"dns", "tcp", "tunnel"}
  BY DEF Reaches
<1>4. OpOK(Passed(o, s), confirmed) /\ ~Holding(Passed(o, s))
  BY <1>1, <1>2, <1>3, AdvancesOK
<1>5. OpOK(Failed(o, s), confirmed) /\ ~Holding(Failed(o, s))
  BY <1>2, EndsOK DEF Failed
<1>6. PICK p : op' = [op EXCEPT ![c] = p] /\ OpOK(p, confirmed) /\ ~Holding(p)
  BY <1>1, <1>4, <1>5 DEF Reaches, Becomes
<1> QED
  BY <1>1, <1>2, <1>6, CallerGoesOn DEF Reaches, TrustInv, WorldOK

\* A handshake brings the key the host presents now.
LEMMA HandshakeOK ==
  ASSUME TrustInv, NEW c \in Callers, Working(c), op[c].kind \in Kinds, NEW s,
         s = Route(op[c])[op[c].pc], Handshake(c, s),
         UNCHANGED <<file, hosts, lock, confirmed, trusted>>
  PROVE  TrustInv'
<1>1. PICK o : o = op[c]
  OBVIOUS
<1>2. /\ OpOK(o, confirmed) /\ ~Holding(o) /\ DOMAIN o = Fields /\ o.pc # 0
      /\ o.rest \subseteq Lines /\ ~o.sentIt /\ EndpointOf(o, s) \in Endpoints
  BY <1>1, AtStep
<1>3. s.do = "handshake"
  BY DEF Handshake
<1>4. hosts[EndpointOf(o, s)] \in Keys
  BY <1>2 DEF TrustInv, WorldOK
<1>5. PICK q : q = [o EXCEPT !.seen = hosts[EndpointOf(o, s)]]
  OBVIOUS
<1>6. /\ DOMAIN q = Fields /\ q.kind = o.kind /\ q.at = o.at /\ q.jump = o.jump /\ q.pc = o.pc
      /\ q.rest = o.rest /\ q.status = o.status /\ q.seen \in Keys /\ q.sentIt = o.sentIt
  BY <1>2, <1>4, <1>5 DEF Fields
<1>7. OpOK(Passed(q, s), confirmed) /\ ~Holding(Passed(q, s))
  BY <1>1, <1>2, <1>3, <1>6, AdvancesOK
<1>8. OpOK(Failed(o, s), confirmed) /\ ~Holding(Failed(o, s))
  BY <1>2, EndsOK DEF Failed
<1>9. PICK p : op' = [op EXCEPT ![c] = p] /\ OpOK(p, confirmed) /\ ~Holding(p)
  BY <1>1, <1>5, <1>7, <1>8 DEF Handshake, Becomes
<1> QED
  BY <1>1, <1>2, <1>9, CallerGoesOn DEF Handshake, TrustInv, WorldOK

\* A key that is looked up is passed only if the file names it for that endpoint.
LEMMA VerifyOK ==
  ASSUME TrustInv, NEW c \in Callers, Working(c), op[c].kind \in Kinds, NEW s,
         s = Route(op[c])[op[c].pc], Verify(c, s),
         UNCHANGED <<file, hosts, lock, confirmed, trusted>>
  PROVE  TrustInv'
<1>1. PICK o : o = op[c]
  OBVIOUS
<1>2. /\ OpOK(o, confirmed) /\ ~Holding(o) /\ DOMAIN o = Fields /\ o.pc # 0
      /\ o.rest \subseteq Lines /\ ~o.sentIt /\ EndpointOf(o, s) \in Endpoints /\ Vetted(o, confirmed)
  BY <1>1, AtStep
<1>3. s.do = "key"
  BY DEF Verify
<1>4. PICK e : e = EndpointOf(o, s)
  OBVIOUS
<1>5. o.seen \in Keys
  BY <1>1, <1>2, <1>3 DEF Vetted
<1>6. reported' \subseteq Endpoints \X Keys
  BY <1>1, <1>2, <1>5 DEF Verify, TrustInv, WorldOK
<1>7. Verdict(e, o.seen) \in {"match", "unknown", "mismatch"}
  BY DEF Verdict
<1>8. CASE Verdict(e, o.seen) = "match"
  <2>1. <<e, o.seen>> \in confirmed
    BY <1>8 DEF Verdict, TrustInv
  <2>2. OpOK(Passed(o, s), confirmed) /\ ~Holding(Passed(o, s))
    BY <1>1, <1>2, <1>3, <1>4, <2>1, AdvancesOK
  <2>3. op' = [op EXCEPT ![c] = Passed(o, s)]
    BY <1>1, <1>4, <1>8 DEF Verify, Becomes
  <2> QED
    BY <1>1, <1>2, <1>6, <2>2, <2>3, CallerGoesOn DEF Verify, TrustInv, WorldOK
<1>9. CASE Verdict(e, o.seen) = "unknown"
  <2>1. PICK p : p = Finish(o, Push(o, s, "warning"), "attention")
    OBVIOUS
  <2>2. OpOK(p, confirmed) /\ ~Holding(p)
    BY <1>2, <2>1, EndsOK
  <2>3. op' = [op EXCEPT ![c] = p]
    BY <1>1, <1>4, <1>9, <2>1 DEF Verify, Becomes
  <2> QED
    BY <1>1, <1>2, <1>6, <2>2, <2>3, CallerGoesOn DEF Verify, TrustInv, WorldOK
<1>10. CASE Verdict(e, o.seen) = "mismatch"
  <2>1. OpOK(Failed(o, s), confirmed) /\ ~Holding(Failed(o, s))
    BY <1>2, EndsOK DEF Failed
  <2>2. op' = [op EXCEPT ![c] = Failed(o, s)]
    BY <1>1, <1>4, <1>10 DEF Verify, Becomes
  <2> QED
    BY <1>1, <1>2, <1>6, <2>1, <2>2, CallerGoesOn DEF Verify, TrustInv, WorldOK
<1> QED
  BY <1>7, <1>8, <1>9, <1>10

\* Credentials go to the endpoint whose key was looked up.
LEMMA AuthenticateOK ==
  ASSUME TrustInv, NEW c \in Callers, Working(c), op[c].kind \in Kinds, NEW s,
         s = Route(op[c])[op[c].pc], Authenticate(c, s),
         UNCHANGED <<file, hosts, lock, confirmed, trusted>>
  PROVE  TrustInv'
<1>1. PICK o : o = op[c]
  OBVIOUS
<1>2. /\ OpOK(o, confirmed) /\ ~Holding(o) /\ DOMAIN o = Fields /\ o.pc # 0
      /\ o.rest \subseteq Lines /\ ~o.sentIt /\ Vetted(o, confirmed)
  BY <1>1, AtStep
<1>3. s.do = "auth"
  BY DEF Authenticate
<1>4. <<EndpointOf(o, s), o.seen>> \in confirmed
  BY <1>1, <1>2, <1>3 DEF Vetted
<1>5. PICK q : q = [o EXCEPT !.sentIt = @ \/ s.hop = "target"]
  OBVIOUS
<1>6. /\ DOMAIN q = Fields /\ q.kind = o.kind /\ q.at = o.at /\ q.jump = o.jump /\ q.pc = o.pc
      /\ q.rest = o.rest /\ q.status = o.status /\ q.seen = o.seen
      /\ q.sentIt = (o.sentIt \/ s.hop = "target")
  BY <1>2, <1>5 DEF Fields
<1>7. q.sentIt => s.do = "auth" /\ s.hop # "jump"
  BY <1>2, <1>3, <1>6
<1>8. EndpointOf(q, s) = EndpointOf(o, s)
  BY <1>6, SameRoute
<1>9. sent' \subseteq confirmed
  BY <1>1, <1>4, <1>5, <1>6, <1>8 DEF Authenticate, TrustInv
<1>10. OpOK(Passed(q, s), confirmed) /\ ~Holding(Passed(q, s))
  BY <1>1, <1>2, <1>3, <1>6, <1>7, AdvancesOK
<1>11. OpOK(Failed(q, s), confirmed) /\ ~Holding(Failed(q, s))
  BY <1>2, <1>6, EndsOK DEF Failed
<1>12. PICK p : op' = [op EXCEPT ![c] = p] /\ OpOK(p, confirmed) /\ ~Holding(p)
  BY <1>1, <1>5, <1>10, <1>11 DEF Authenticate, Becomes
<1> QED
  BY <1>1, <1>2, <1>9, <1>12, CallerGoesOn DEF Authenticate, TrustInv, WorldOK

\* A preflight that is cancelled has sent nothing to the target.
LEMMA CancelledOK ==
  ASSUME TrustInv, NEW c \in Callers, Working(c), op[c].kind \in Kinds, NEW s,
         s = Route(op[c])[op[c].pc], Cancelled(c, s),
         UNCHANGED <<file, hosts, lock, confirmed, trusted>>
  PROVE  TrustInv'
<1>1. PICK o : o = op[c]
  OBVIOUS
<1>2. ~Holding(o) /\ DOMAIN o = Fields /\ o.rest \subseteq Lines /\ ~o.sentIt
  BY <1>1, AtStep
<1>3. PICK p : p = Finish(o, o.report, "cancelled")
  OBVIOUS
<1>4. OpOK(p, confirmed) /\ ~Holding(p)
  BY <1>2, <1>3, EndsOK
<1>5. op' = [op EXCEPT ![c] = p]
  BY <1>1, <1>3 DEF Cancelled, Becomes
<1> QED
  BY <1>1, <1>2, <1>4, <1>5, CallerGoesOn DEF Cancelled, TrustInv, WorldOK

\* Every step of a connection.
LEMMA ConnectionKeepsTrust ==
  ASSUME TrustInv, NEW c \in Callers, Connection(c)
  PROVE  TrustInv'
<1>1. PICK s : s = Route(op[c])[op[c].pc]
  OBVIOUS
<1>2. /\ Working(c) /\ op[c].kind \in Kinds /\ UNCHANGED <<file, hosts, lock, confirmed, trusted>>
      /\ Cancelled(c, s) \/ Reaches(c, s) \/ Handshake(c, s) \/ Verify(c, s) \/ Authenticate(c, s)
  BY <1>1 DEF Connection
<1> QED
  BY <1>1, <1>2, CancelledOK, ReachesOK, HandshakeOK, VerifyOK, AuthenticateOK

\* The user cancels a preflight.
LEMMA CancelKeepsTrust ==
  ASSUME TrustInv, NEW c \in Callers, Cancel(c)
  PROVE  TrustInv'
<1>1. PICK o : o = op[c]
  OBVIOUS
<1>2. OpOK(o, confirmed) /\ o.kind = "preflight" /\ ~Holding(o)
  BY <1>1 DEF TrustInv, Cancel, Holding
<1>3. PICK p : p = [o EXCEPT !.flag = TRUE]
  OBVIOUS
<1>4. /\ DOMAIN p = Fields /\ p.kind = o.kind /\ p.at = o.at /\ p.jump = o.jump /\ p.pc = o.pc
      /\ p.rest = o.rest /\ p.status = o.status /\ p.seen = o.seen /\ p.sentIt = o.sentIt
      /\ p.wants = o.wants
  BY <1>2, <1>3 DEF OpOK, Fields
<1>5. Route(p) = Route(o) /\ \A s : EndpointOf(p, s) = EndpointOf(o, s)
  BY <1>4, SameRoute
<1>6. OpOK(p, confirmed) /\ ~Holding(p)
  BY <1>2, <1>4, <1>5 DEF OpOK, Vetted, Asked, Holding
<1> QED
  BY <1>1, <1>2, <1>3, <1>6, CallerGoesOn DEF Cancel, Becomes, TrustInv, WorldOK

\* The user confirms a key: it is trusted for the endpoint it was reported for.
LEMMA ConfirmKeepsTrust ==
  ASSUME TrustInv, NEW c \in Callers, Confirm(c)
  PROVE  TrustInv'
<1>1. PICK p \in reported :
        /\ ~Working(c) /\ Becomes(c, [Idle EXCEPT !.kind = "trust", !.at = p[1], !.wants = p[2], !.pc = 1])
        /\ confirmed' = confirmed \cup {p} /\ UNCHANGED <<file, hosts, lock, reported, sent, trusted>>
  BY DEF Confirm
<1>2. PICK o : o = [Idle EXCEPT !.kind = "trust", !.at = p[1], !.wants = p[2], !.pc = 1]
  OBVIOUS
<1>3. /\ DOMAIN o = Fields /\ o.kind = "trust" /\ o.at = p[1] /\ o.wants = p[2] /\ o.pc = 1
      /\ o.rest = {} /\ o.sentIt = FALSE /\ o.status = "none"
  BY <1>2 DEF Idle, Fields
<1>4. p \in Endpoints \X Keys
  BY DEF TrustInv, WorldOK
<1>5. p[1] \in Endpoints /\ p[2] \in Keys /\ p = <<p[1], p[2]>>
  BY <1>4
<1>6. <<o.at, o.wants>> \in confirmed'
  BY <1>1, <1>3, <1>5
<1>7. Asked(o, confirmed')
  BY <1>3, <1>5, <1>6 DEF Asked
<1>8. OpOK(o, confirmed') /\ ~Holding(o)
  BY <1>3, <1>7 DEF OpOK, Holding, Kinds
<1>9. ~Holding(op[c])
  BY <1>1 DEF Working, Holding
<1>10. op' = [op EXCEPT ![c] = o] /\ confirmed \subseteq confirmed' /\ confirmed' \subseteq Endpoints \X Keys
  BY <1>1, <1>2, <1>4 DEF Becomes, TrustInv, WorldOK
<1> QED
  BY <1>1, <1>8, <1>9, <1>10, CallerGoesOn DEF TrustInv, WorldOK

\* The user asks to remove a row.
LEMMA AskRemovalKeepsTrust ==
  ASSUME TrustInv, NEW c \in Callers, AskRemoval(c)
  PROVE  TrustInv'
<1>1. PICK pats \in Listed :
        /\ ~Working(c) /\ Becomes(c, [Idle EXCEPT !.kind = "remove", !.pats = pats, !.pc = 1])
        /\ UNCHANGED <<file, hosts, lock, reported, confirmed, sent, trusted>>
  BY DEF AskRemoval
<1>2. PICK o : o = [Idle EXCEPT !.kind = "remove", !.pats = pats, !.pc = 1]
  OBVIOUS
<1>3. /\ DOMAIN o = Fields /\ o.kind = "remove" /\ o.pc = 1 /\ o.rest = {} /\ o.status = "none"
  BY <1>2 DEF Idle, Fields
<1>4. OpOK(o, confirmed) /\ ~Holding(o)
  BY <1>3 DEF OpOK, Holding, Kinds
<1>5. ~Holding(op[c])
  BY <1>1 DEF Working, Holding
<1> QED
  BY <1>1, <1>2, <1>4, <1>5, CallerGoesOn DEF Becomes, TrustInv, WorldOK

\* A writer waits for the others.
LEMMA LockKeepsTrust ==
  ASSUME TrustInv, TrustAssumption, NEW c \in Callers, Lock(c)
  PROVE  TrustInv'
<1>1. PICK o : o = op[c]
  OBVIOUS
<1>2. /\ OpOK(o, confirmed) /\ o.pc = 1 /\ o.kind \in {"trust", "remove"} /\ lock = NoOne /\ lock' = c
      /\ op' = [op EXCEPT ![c] = [o EXCEPT !.pc = 2]]
  BY <1>1 DEF TrustInv, Lock, Writing, Working, Becomes
<1>3. PICK p : p = [o EXCEPT !.pc = 2]
  OBVIOUS
<1>4. /\ DOMAIN p = Fields /\ p.kind = o.kind /\ p.at = o.at /\ p.pc = 2 /\ p.rest = o.rest
      /\ p.status = o.status /\ p.sentIt = o.sentIt /\ p.wants = o.wants
  BY <1>2, <1>3 DEF OpOK, Fields
<1>5. OpOK(p, confirmed) /\ Holding(p)
  BY <1>2, <1>4 DEF OpOK, Asked, Holding, Kinds
<1>6. WorldOK' /\ confirmed' = confirmed /\ file' = file /\ sent' = sent
  BY <1>2 DEF Lock, TrustInv, WorldOK
<1>7. \A d \in Callers \ {c} : lock' = d <=> lock = d
  BY <1>2 DEF TrustAssumption
<1> QED
  BY <1>2, <1>3, <1>5, <1>6, <1>7, CallerMoves DEF TrustInv

\* The key that is written is the one that was confirmed: another is refused.
LEMMA FetchKeyKeepsTrust ==
  ASSUME TrustInv, TrustAssumption, NEW c \in Callers, FetchKey(c)
  PROVE  TrustInv'
<1>1. PICK o : o = op[c]
  OBVIOUS
<1>2. /\ OpOK(o, confirmed) /\ o.pc = 2 /\ o.kind = "trust" /\ lock = c
      /\ UNCHANGED <<file, hosts, reported, confirmed, sent, trusted, used>>
  BY <1>1 DEF TrustInv, FetchKey, Writing
<1>3. Asked(o, confirmed)
  BY <1>2 DEF OpOK
<1>4. WorldOK' <=> WorldOK /\ lock' \in Callers \cup {NoOne}
  BY <1>2 DEF WorldOK, TrustInv
<1>5. PICK k : k = hosts[o.at]
  OBVIOUS
<1>6. CASE o.wants = k /\ op' = [op EXCEPT ![c] = [o EXCEPT !.pc = 3, !.seen = k]] /\ lock' = lock
  <2>1. PICK p : p = [o EXCEPT !.pc = 3, !.seen = k]
    OBVIOUS
  <2>2. /\ DOMAIN p = Fields /\ p.kind = o.kind /\ p.at = o.at /\ p.pc = 3 /\ p.rest = o.rest
        /\ p.status = o.status /\ p.sentIt = o.sentIt /\ p.wants = o.wants /\ p.seen = k
    BY <1>2, <2>1 DEF OpOK, Fields
  <2>3. OpOK(p, confirmed) /\ Holding(p)
    BY <1>2, <1>3, <1>6, <2>2 DEF OpOK, Asked, Holding, Kinds
  <2> QED
    BY <1>2, <1>4, <1>6, <2>1, <2>3, CallerMoves DEF TrustInv, WorldOK
<1>7. CASE op' = [op EXCEPT ![c] = [o EXCEPT !.pc = 0, !.status = "failed"]] /\ lock' = NoOne
  <2>1. PICK p : p = [o EXCEPT !.pc = 0, !.status = "failed"]
    OBVIOUS
  <2>2. DOMAIN p = Fields /\ p.pc = 0 /\ p.rest = o.rest /\ p.status = "failed"
    BY <1>2, <2>1 DEF OpOK, Fields
  <2>3. OpOK(p, confirmed) /\ ~Holding(p)
    BY <1>2, <2>2 DEF OpOK, Holding
  <2>4. lock' # c /\ \A d \in Callers \ {c} : lock' = d <=> lock = d
    BY <1>2, <1>7 DEF TrustAssumption
  <2> QED
    BY <1>2, <1>4, <1>7, <2>1, <2>3, <2>4, CallerMoves DEF TrustInv, WorldOK
<1> QED
  BY <1>1, <1>2, <1>5, <1>6, <1>7 DEF FetchKey, Confirmed, Becomes

\* What a writer will put into the file names confirmed pairs only.
LEMMA RestConfirmed ==
  ASSUME TrustInv, NEW c \in Callers, Read(c)
  PROVE  /\ op'[c].rest \subseteq Lines /\ Pairs(op'[c].rest) \subseteq confirmed
         /\ op[c].kind = "trust" =>
              op'[c].rest = Excluding(op[c].at) \cup {[at |-> {op[c].at}, key |-> op[c].seen]}
         /\ op[c].kind # "trust" => op'[c].rest = {l \in file : l.at # op[c].pats}
         /\ op' = [op EXCEPT ![c] = [op[c] EXCEPT !.pc = 4, !.rest = op'[c].rest]]
<1>1. PICK o : o = op[c]
  OBVIOUS
<1>2. /\ OpOK(o, confirmed) /\ Writing(c) /\ o.pc = IF o.kind = "trust" THEN 3 ELSE 2
      /\ file \subseteq Lines /\ Pairs(file) \subseteq confirmed /\ DOMAIN op = Callers
  BY <1>1 DEF TrustInv, Read, WorldOK
<1>3. PICK lines : lines = IF o.kind = "trust" THEN Excluding(o.at) \cup {[at |-> {o.at}, key |-> o.seen]}
                           ELSE {l \in file : l.at # o.pats}
  OBVIOUS
<1>4. op' = [op EXCEPT ![c] = [o EXCEPT !.pc = 4, !.rest = lines]]
  BY <1>1, <1>3 DEF Read, Becomes
<1>5. op'[c].rest = lines
  BY <1>1, <1>2, <1>4 DEF OpOK, Fields
<1>6. CASE o.kind = "trust"
  <2>1. Asked(o, confirmed) /\ o.seen = o.wants
    BY <1>1, <1>2, <1>6 DEF OpOK, Asked, Writing, Working
  <2>2. PICK l : l = [at |-> {o.at}, key |-> o.seen]
    OBVIOUS
  <2>3. l \in Lines /\ Pairs({l}) \subseteq confirmed
    <3>1. l.at = {o.at} /\ l.key = o.seen /\ o.at \in Endpoints /\ o.seen \in Keys
      BY <2>1, <2>2 DEF Asked
    <3>2. ASSUME NEW p \in Pairs({l}) PROVE p \in confirmed
      <4>1. PICK x \in l.at : p = <<x, l.key>>
        BY <3>2, PairIn
      <4> QED
        BY <2>1, <3>1, <4>1 DEF Asked
    <3> QED
      BY <2>2, <3>1, <3>2 DEF Lines
  <2>4. lines = Excluding(o.at) \cup {l} /\ o.at \in Endpoints
    BY <1>3, <1>6, <2>1, <2>2 DEF Asked
  <2>5. Excluding(o.at) \subseteq Lines /\ Pairs(Excluding(o.at)) \subseteq confirmed
    BY <1>2, <2>4, ExcludingPairs
  <2>6. lines \subseteq Lines /\ Pairs(lines) \subseteq confirmed
    BY <2>3, <2>4, <2>5, PairsJoin
  <2> QED
    BY <1>1, <1>3, <1>4, <1>5, <1>6, <2>6
<1>7. CASE o.kind # "trust"
  <2>1. lines = {l \in file : l.at # o.pats}
    BY <1>3, <1>7
  <2>2. lines \subseteq file
    BY <2>1
  <2>3. lines \subseteq Lines /\ Pairs(lines) \subseteq confirmed
    BY <1>2, <2>2, PairsGrow
  <2> QED
    BY <1>1, <1>4, <1>5, <1>7, <2>1, <2>3
<1> QED
  BY <1>6, <1>7

\* The file is emptied, to be written again.
LEMMA ReadKeepsTrust ==
  ASSUME TrustInv, NEW c \in Callers, Read(c)
  PROVE  TrustInv'
<1>1. PICK o : o = op[c]
  OBVIOUS
<1>2. PICK rest : rest = op'[c].rest
  OBVIOUS
<1>3. PICK p : p = [o EXCEPT !.pc = 4, !.rest = rest]
  OBVIOUS
<1>4. /\ rest \subseteq Lines /\ Pairs(rest) \subseteq confirmed /\ op' = [op EXCEPT ![c] = p]
  BY <1>1, <1>2, <1>3, RestConfirmed
<1>5. /\ OpOK(o, confirmed) /\ o.pc # 0 /\ o.kind \in {"trust", "remove"} /\ lock = c /\ file' = {}
      /\ o.pc = (IF o.kind = "trust" THEN 3 ELSE 2) /\ UNCHANGED <<hosts, lock, reported, confirmed, sent>>
  BY <1>1 DEF TrustInv, Read, Writing, Working
<1>6. /\ DOMAIN p = Fields /\ p.kind = o.kind /\ p.at = o.at /\ p.pc = 4 /\ p.rest = rest
      /\ p.status = o.status /\ p.sentIt = o.sentIt /\ p.wants = o.wants /\ p.seen = o.seen
  BY <1>3, <1>5 DEF OpOK, Fields
<1>7. OpOK(p, confirmed) /\ Holding(p)
  BY <1>4, <1>5, <1>6 DEF OpOK, Asked, Holding, Kinds
<1>8. trusted' \subseteq Endpoints \X Keys
  <2>1. CASE o.kind = "trust"
    <3>1. o.at \in Endpoints /\ o.seen \in Keys
      BY <1>5, <2>1 DEF OpOK, Asked
    <3>2. trusted' = {q \in trusted : q[1] # o.at} \cup {<<o.at, o.seen>>}
      BY <1>1, <2>1 DEF Read
    <3> QED
      BY <3>1, <3>2 DEF TrustInv, WorldOK
  <2>2. CASE o.kind # "trust"
    BY <1>1, <2>2 DEF Read, TrustInv, WorldOK
  <2> QED
    BY <2>1, <2>2
<1>9. WorldOK' /\ Pairs(file') \subseteq confirmed'
  BY <1>5, <1>8 DEF TrustInv, WorldOK, Pairs
<1> QED
  BY <1>4, <1>5, <1>7, <1>9, CallerMoves DEF TrustInv

\* One line after the other is written, and the lock is given back.
LEMMA WriteKeepsTrust ==
  ASSUME TrustInv, TrustAssumption, NEW c \in Callers, Write(c)
  PROVE  TrustInv'
<1>1. PICK o : o = op[c]
  OBVIOUS
<1>2. /\ OpOK(o, confirmed) /\ o.pc = 4 /\ o.kind \in {"trust", "remove"} /\ Holding(o) /\ lock = c
      /\ UNCHANGED <<hosts, reported, confirmed, sent, trusted, used>>
  BY <1>1 DEF TrustInv, Write, Writing, Working, Holding
<1>3. o.rest \subseteq Lines /\ Pairs(o.rest) \subseteq confirmed
  BY <1>2 DEF OpOK
<1>4. ASSUME NEW l \in o.rest, file' = file \cup {l}, lock' = lock,
             op' = [op EXCEPT ![c] = [o EXCEPT !.rest = @ \ {l}]]
      PROVE  TrustInv'
  <2>1. PICK p : p = [o EXCEPT !.rest = @ \ {l}]
    OBVIOUS
  <2>2. /\ DOMAIN p = Fields /\ p.kind = o.kind /\ p.at = o.at /\ p.pc = o.pc /\ p.rest = o.rest \ {l}
        /\ p.status = o.status /\ p.sentIt = o.sentIt /\ p.wants = o.wants /\ p.seen = o.seen
    BY <1>2, <2>1 DEF OpOK, Fields
  <2>3. Pairs(p.rest) \subseteq confirmed /\ p.rest \subseteq Lines
    BY <1>3, <2>2, PairsGrow
  <2>4. OpOK(p, confirmed) /\ Holding(p)
    BY <1>2, <2>2, <2>3 DEF OpOK, Asked, Holding, Kinds
  <2>5. Pairs({l}) \subseteq confirmed
    BY <1>3, PairsGrow
  <2>6. Pairs(file') \subseteq confirmed
    BY <1>4, <2>5, PairsJoin DEF TrustInv
  <2>7. WorldOK'
    BY <1>2, <1>3, <1>4 DEF TrustInv, WorldOK
  <2> QED
    BY <1>2, <1>4, <2>1, <2>4, <2>6, <2>7, CallerMoves DEF TrustInv
<1>5. ASSUME lock' = NoOne, file' = file,
             op' = [op EXCEPT ![c] = [o EXCEPT !.pc = 0, !.status = "passed"]]
      PROVE  TrustInv'
  <2>1. PICK p : p = [o EXCEPT !.pc = 0, !.status = "passed"]
    OBVIOUS
  <2>2. DOMAIN p = Fields /\ p.pc = 0 /\ p.rest = o.rest /\ p.status = "passed"
    BY <1>2, <2>1 DEF OpOK, Fields
  <2>3. OpOK(p, confirmed) /\ ~Holding(p)
    BY <1>3, <2>2 DEF OpOK, Holding
  <2>4. lock' # c /\ \A d \in Callers \ {c} : lock' = d <=> lock = d
    BY <1>2, <1>5 DEF TrustAssumption
  <2>5. WorldOK'
    BY <1>2, <1>5 DEF TrustInv, WorldOK
  <2> QED
    BY <1>2, <1>5, <2>1, <2>3, <2>4, <2>5, CallerMoves DEF TrustInv
<1> QED
  BY <1>1, <1>4, <1>5 DEF Write, Becomes

\* A host changes its key.
LEMMA RotateKeepsTrust ==
  ASSUME TrustInv, Rotate
  PROVE  TrustInv'
<1>1. PICK e \in Endpoints, k \in Keys : hosts' = [hosts EXCEPT ![e] = k]
  BY DEF Rotate
<1>2. hosts' \in [Endpoints -> Keys]
  BY <1>1 DEF TrustInv, WorldOK
<1>3. UNCHANGED <<file, lock, op, reported, confirmed, sent, trusted>>
  BY DEF Rotate
<1> QED
  BY <1>2, <1>3 DEF TrustInv, WorldOK

\* The application dies: what is in the file stays, whatever was still to be written.
LEMMA CrashKeepsTrust ==
  ASSUME TrustInv, TrustAssumption, Crash
  PROVE  TrustInv'
<1>1. DOMAIN Idle = Fields /\ Idle.pc = 0 /\ Idle.rest = {} /\ Idle.status = "none"
  BY DEF Idle, Fields
<1>2. OpOK(Idle, confirmed) /\ ~Holding(Idle)
  BY <1>1 DEF OpOK, Holding
<1>3. /\ op' = [c \in Callers |-> Idle] /\ lock' = NoOne /\ reported' = {} /\ trusted' = Pairs(file)
      /\ UNCHANGED <<file, hosts, confirmed, sent>>
  BY DEF Crash
<1>4. WorldOK'
  BY <1>3, PairsType DEF TrustInv, WorldOK
<1>5. \A c \in Callers : op'[c] = Idle /\ lock' # c
  BY <1>3 DEF TrustAssumption
<1> QED
  BY <1>2, <1>3, <1>4, <1>5 DEF TrustInv

\* Every step.
LEMMA StepKeepsTrust ==
  ASSUME TrustAssumption, TrustInv, [Next]_vars
  PROVE  TrustInv'
<1>1. CASE UNCHANGED vars
  BY <1>1 DEF vars, TrustInv, WorldOK
<1>2. CASE Rotate
  BY <1>2, RotateKeepsTrust
<1>3. CASE Crash
  BY <1>3, CrashKeepsTrust
<1>4. ASSUME NEW c \in Callers, CallerStep(c)
      PROVE  TrustInv'
  <2>1. CASE Start(c) \/ Cancel(c) \/ Confirm(c) \/ AskRemoval(c)
    BY <2>1, StartKeepsTrust, CancelKeepsTrust, ConfirmKeepsTrust, AskRemovalKeepsTrust
  <2>2. CASE Connection(c)
    BY <2>2, ConnectionKeepsTrust
  <2>3. CASE Lock(c) \/ FetchKey(c) \/ Read(c) \/ Write(c)
    BY <2>3, LockKeepsTrust, FetchKeyKeepsTrust, ReadKeepsTrust, WriteKeepsTrust
  <2> QED
    BY <1>4, <2>1, <2>2, <2>3 DEF CallerStep
<1> QED
  BY <1>1, <1>2, <1>3, <1>4 DEF Next

\* What is trusted and what is in hand is in order in every state of the component.
THEOREM TrustKept == ASSUME TrustAssumption PROVE Spec => []TrustInv
<1>1. Init => TrustInv
  BY InitTrust
<1>2. TrustInv /\ [Next]_vars => TrustInv'
  BY StepKeepsTrust
<1> QED
  BY <1>1, <1>2, PTL DEF Spec

\* Credentials go only to an endpoint whose key the user trusted for that very endpoint
\* (connection.rs, known_hosts.rs): OnlyConfirmed, for every set of endpoints, keys and
\* callers and every file to begin with.
THEOREM SentWhereConfirmed == ASSUME TrustAssumption PROVE Spec => []OnlyConfirmed
<1>1. TrustInv => OnlyConfirmed
  BY DEF TrustInv, OnlyConfirmed
<1> QED
  BY <1>1, TrustKept, PTL

\* A preflight that says it was cancelled sent nothing to the target (connection.rs).
THEOREM CancelledSentNothing == ASSUME TrustAssumption PROVE Spec => []CancelledSendsNothing
<1>1. TrustInv => CancelledSendsNothing
  BY DEF TrustInv, OpOK, CancelledSendsNothing
<1> QED
  BY <1>1, TrustKept, PTL

\* The variables keep their types, and the lock is held by whoever is writing.
THEOREM TrustTyped == ASSUME TrustAssumption PROVE Spec => []TypeOK
<1>1. ASSUME TrustInv PROVE TypeOK
  <2>1. ASSUME NEW c \in Callers
        PROVE  /\ op[c].pc \in 0..9 /\ op[c].rest \subseteq Lines
               /\ (lock = c) = (Writing(c) /\ op[c].pc > 1)
    <3>1. OpOK(op[c], confirmed) /\ (lock = c <=> Holding(op[c]))
      BY <1>1 DEF TrustInv
    <3>2. op[c].pc \in 0..9
      <4>1. CASE op[c].pc = 0
        BY <4>1
      <4>2. CASE op[c].pc # 0 /\ op[c].kind \in Kinds
        <5>1. op[c].pc \in 1..Len(Route(op[c])) /\ Len(Route(op[c])) \in 1..9
          BY <3>1, <4>2, RouteShape DEF OpOK, Vetted, WellRouted
        <5>2. PICK n \in 1..9 : n = Len(Route(op[c]))
          BY <5>1
        <5>3. op[c].pc \in 1..n
          BY <5>1, <5>2
        <5> QED
          BY <5>3
      <4>3. CASE op[c].pc # 0 /\ op[c].kind = "trust"
        BY <3>1, <4>3 DEF OpOK, Asked
      <4>4. CASE op[c].pc # 0 /\ op[c].kind = "remove"
        BY <3>1, <4>4 DEF OpOK
      <4> QED
        BY <3>1, <4>1, <4>2, <4>3, <4>4 DEF OpOK
    <3> QED
      BY <3>1, <3>2 DEF OpOK, Holding, Writing, Working
  <2>2. sent \subseteq Endpoints \X Keys
    BY <1>1 DEF TrustInv, WorldOK
  <2> QED
    BY <1>1, <2>1, <2>2 DEF TypeOK, TrustInv, WorldOK
<1> QED
  BY <1>1, TrustKept, PTL

(* -------------------------------- the file -------------------------------- *)

\* A step that leaves the file alone, and the lock and what its holder has in hand too.
LEMMA FileUntouched ==
  ASSUME TrustInv, FileInv, UNCHANGED <<file, lock, trusted>>,
         \A c \in Callers : lock = c => op'[c].pc = op[c].pc /\ op'[c].rest = op[c].rest
  PROVE  FileInv'
  BY DEF FileInv

\* A step of a caller that does not hold the lock.
LEMMA OthersKeepFile ==
  ASSUME TrustInv, FileInv, NEW c \in Callers, ~Holding(op[c]), NEW o, op' = [op EXCEPT ![c] = o],
         UNCHANGED <<file, lock, trusted>>
  PROVE  FileInv'
<1>1. lock # c /\ DOMAIN op = Callers
  BY DEF TrustInv
<1>2. \A d \in Callers : lock = d => op'[d] = op[d]
  BY <1>1
<1> QED
  BY <1>2, FileUntouched

\* Connections and requests do not write.
LEMMA ReadersKeepFile ==
  ASSUME TrustInv, FileInv, NEW c \in Callers,
         Start(c) \/ Connection(c) \/ Cancel(c) \/ Confirm(c) \/ AskRemoval(c)
  PROVE  FileInv'
<1>1. ~Holding(op[c]) /\ UNCHANGED <<file, lock, trusted>>
  BY DEF Start, Connection, Cancel, Confirm, AskRemoval, Working, Holding, Kinds
<1>2. \E o : op' = [op EXCEPT ![c] = o]
  <2>1. CASE Start(c)
    BY <2>1 DEF Start, Becomes
  <2>2. CASE Cancel(c)
    BY <2>2 DEF Cancel, Becomes
  <2>3. CASE Confirm(c)
    BY <2>3 DEF Confirm, Becomes
  <2>4. CASE AskRemoval(c)
    BY <2>4 DEF AskRemoval, Becomes
  <2>5. CASE Connection(c)
    <3>1. PICK s : Cancelled(c, s) \/ Reaches(c, s) \/ Handshake(c, s) \/ Verify(c, s) \/ Authenticate(c, s)
      BY <2>5 DEF Connection
    <3>2. CASE Cancelled(c, s)
      BY <3>2 DEF Cancelled, Becomes
    <3>3. CASE Reaches(c, s)
      BY <3>3 DEF Reaches, Becomes
    <3>4. CASE Handshake(c, s)
      BY <3>4 DEF Handshake, Becomes
    <3>5. CASE Verify(c, s)
      <4>1. \E o : Becomes(c, o)
        BY <3>5 DEF Verify
      <4> QED
        BY <4>1 DEF Becomes
    <3>6. CASE Authenticate(c, s)
      <4>1. \E o : Becomes(c, o)
        BY <3>6 DEF Authenticate
      <4> QED
        BY <4>1 DEF Becomes
    <3> QED
      BY <3>1, <3>2, <3>3, <3>4, <3>5, <3>6
  <2> QED
    BY <2>1, <2>2, <2>3, <2>4, <2>5
<1> QED
  BY <1>1, <1>2, OthersKeepFile

\* Taking the lock and fetching the key: the file is as it was.
LEMMA FetchingKeepsFile ==
  ASSUME TrustAssumption, TrustInv, TrustInv', FileInv, NEW c \in Callers, Lock(c) \/ FetchKey(c)
  PROVE  FileInv'
<1>1. /\ UNCHANGED <<file, trusted>> /\ lock \in {NoOne, c} /\ lock' \in {NoOne, c} /\ op[c].pc # 4
      /\ Distinct(file) /\ Pairs(file) = trusted
  <2>1. CASE Lock(c)
    BY <2>1 DEF Lock, FileInv
  <2>2. CASE FetchKey(c)
    <3>1. lock = c /\ op[c].pc = 2 /\ lock' \in {NoOne, c} /\ UNCHANGED <<file, trusted>>
      BY <2>2 DEF FetchKey
    <3> QED
      BY <3>1 DEF FileInv
  <2> QED
    BY <2>1, <2>2
<1>2. op'[c].pc # 4
  <2>1. DOMAIN op = Callers /\ DOMAIN op[c] = Fields
    BY DEF TrustInv, OpOK
  <2>2. CASE Lock(c)
    BY <2>1, <2>2 DEF Lock, Becomes, Fields
  <2>3. CASE FetchKey(c)
    <3>1. PICK k : k = hosts[op[c].at]
      OBVIOUS
    <3>2. \/ op' = [op EXCEPT ![c] = [op[c] EXCEPT !.pc = 3, !.seen = k]]
          \/ op' = [op EXCEPT ![c] = [op[c] EXCEPT !.pc = 0, !.status = "failed"]]
      BY <2>3, <3>1 DEF FetchKey, Becomes
    <3>3. PICK o, p : /\ o = op[c] /\ op' = [op EXCEPT ![c] = p] /\ DOMAIN o = Fields
                      /\ p = [o EXCEPT !.pc = 3, !.seen = k] \/ p = [o EXCEPT !.pc = 0, !.status = "failed"]
      BY <2>1, <3>2
    <3>4. p.pc # 4
      <4>1. CASE p = [o EXCEPT !.pc = 3, !.seen = k]
        BY <3>3, <4>1 DEF Fields
      <4>2. CASE p = [o EXCEPT !.pc = 0, !.status = "failed"]
        BY <3>3, <4>2 DEF Fields
      <4> QED
        BY <3>3, <4>1, <4>2
    <3> QED
      BY <2>1, <3>3, <3>4
  <2> QED
    BY <2>2, <2>3
<1>3. \A d \in Callers : lock' = d => d = c
  BY <1>1 DEF TrustAssumption
<1> QED
  BY <1>1, <1>2, <1>3 DEF FileInv

\* What a writer has in hand is all there is while the file is empty.
LEMMA ReadGives ==
  ASSUME TrustAssumption, TrustInv, NEW c \in Callers, Read(c), lock' = c, file' = {},
         Distinct(op'[c].rest), Pairs(op'[c].rest) = trusted'
  PROVE  FileInv'
<1>1. PICK rest : rest = op'[c].rest
  OBVIOUS
<1>2. op' = [op EXCEPT ![c] = [op[c] EXCEPT !.pc = 4, !.rest = rest]]
  BY <1>1, RestConfirmed
<1>3. DOMAIN op = Callers /\ DOMAIN op[c] = Fields
  BY DEF TrustInv, OpOK
<1>4. op'[c].pc = 4
  BY <1>2, <1>3 DEF Fields
<1>5. file' \cup op'[c].rest = op'[c].rest
  OBVIOUS
<1>6. lock' # NoOne /\ \A d \in Callers : lock' = d => d = c
  BY DEF TrustAssumption
<1> QED
  BY <1>4, <1>5, <1>6 DEF FileInv

\* A trust puts its pair in place of the others of its endpoint, a removal takes its
\* lines out; both have it all in hand when they empty the file.
LEMMA ReadKeepsFile ==
  ASSUME TrustAssumption, TrustInv, FileInv, NEW c \in Callers, Read(c)
  PROVE  FileInv'
<1>1. PICK o : o = op[c]
  OBVIOUS
<1>2. PICK rest : rest = op'[c].rest
  OBVIOUS
<1>3. /\ OpOK(o, confirmed) /\ o.pc # 0 /\ o.kind \in {"trust", "remove"} /\ lock = c /\ file' = {}
      /\ o.pc = (IF o.kind = "trust" THEN 3 ELSE 2) /\ lock' = lock /\ file \subseteq Lines
  BY <1>1 DEF TrustInv, Read, Writing, Working, WorldOK
<1>4. Distinct(file) /\ Pairs(file) = trusted
  BY <1>1, <1>3 DEF FileInv
<1>5. CASE o.kind = "trust"
  <2>1. o.at \in Endpoints /\ o.seen \in Keys
    BY <1>3, <1>5 DEF OpOK, Asked
  <2>2. PICK l : l = [at |-> {o.at}, key |-> o.seen]
    OBVIOUS
  <2>3. rest = Excluding(o.at) \cup {l}
    BY <1>1, <1>2, <1>5, <2>2, RestConfirmed
  <2>4. /\ Distinct(Excluding(o.at)) /\ Pairs(Excluding(o.at)) = {q \in Pairs(file) : q[1] # o.at}
        /\ \A m \in Excluding(o.at) : o.at \notin m.at
    BY <1>3, <2>1, ExcludingPairs
  <2>5. Distinct(rest)
    <3>1. ASSUME NEW m \in rest, NEW n \in rest, m.key = n.key, m.at \cap n.at # {}
          PROVE  m = n
      <4>1. l.at = {o.at}
        BY <2>2
      <4>2. CASE m \in Excluding(o.at) /\ n \in Excluding(o.at)
        BY <2>4, <3>1, <4>2 DEF Distinct
      <4>3. CASE m = l /\ n \in Excluding(o.at)
        BY <2>4, <3>1, <4>1, <4>3
      <4>4. CASE m \in Excluding(o.at) /\ n = l
        BY <2>4, <3>1, <4>1, <4>4
      <4> QED
        BY <2>3, <4>2, <4>3, <4>4
    <3> QED
      BY <3>1 DEF Distinct
  <2>6. Pairs({l}) = {<<o.at, o.seen>>}
    BY <2>2 DEF Pairs
  <2>7. Pairs(rest) = {q \in Pairs(file) : q[1] # o.at} \cup {<<o.at, o.seen>>}
    BY <2>3, <2>4, <2>6, PairsJoin
  <2>8. trusted' = {q \in trusted : q[1] # o.at} \cup {<<o.at, o.seen>>}
    BY <1>1, <1>5 DEF Read
  <2>9. Pairs(rest) = trusted'
    BY <1>4, <2>7, <2>8
  <2> QED
    BY <1>2, <1>3, <2>5, <2>9, ReadGives
<1>6. CASE o.kind # "trust"
  <2>1. rest = {l \in file : l.at # o.pats}
    BY <1>1, <1>2, <1>6, RestConfirmed
  <2>2. Distinct(rest)
    BY <1>4, <2>1 DEF Distinct
  <2>3. Pairs(rest) = Pairs(file) \ Pairs({l \in file : l.at = o.pats})
    BY <1>3, <1>4, <2>1, RemovingPairs
  <2>4. trusted' = trusted \ Pairs({l \in file : l.at = o.pats})
    BY <1>1, <1>6 DEF Read
  <2>5. Pairs(rest) = trusted'
    BY <1>4, <2>3, <2>4
  <2> QED
    BY <1>2, <1>3, <2>2, <2>5, ReadGives
<1> QED
  BY <1>5, <1>6

\* What is written was in hand, and when nothing is left the file has it all.
LEMMA WriteKeepsFile ==
  ASSUME TrustAssumption, TrustInv, FileInv, NEW c \in Callers, Write(c)
  PROVE  FileInv'
<1>1. PICK o : o = op[c]
  OBVIOUS
<1>2. /\ DOMAIN op = Callers /\ DOMAIN o = Fields /\ o.pc = 4 /\ Holding(o) /\ lock = c /\ trusted' = trusted
  BY <1>1 DEF TrustInv, OpOK, Write, Writing, Working, Holding
<1>3. Distinct(file \cup o.rest) /\ Pairs(file \cup o.rest) = trusted
  BY <1>1, <1>2 DEF FileInv
<1>4. c # NoOne
  BY DEF TrustAssumption
<1>5. ASSUME NEW l \in o.rest, file' = file \cup {l}, lock' = lock,
             op' = [op EXCEPT ![c] = [o EXCEPT !.rest = @ \ {l}]]
      PROVE  FileInv'
  <2>1. op'[c].pc = 4 /\ op'[c].rest = o.rest \ {l}
    BY <1>2, <1>5 DEF Fields
  <2>2. file' \cup op'[c].rest = file \cup o.rest
    BY <1>5, <2>1
  <2>3. lock' # NoOne /\ \A d \in Callers : lock' = d => d = c
    BY <1>2, <1>4, <1>5
  <2> QED
    BY <1>2, <1>3, <2>1, <2>2, <2>3 DEF FileInv
<1>6. ASSUME o.rest = {}, lock' = NoOne, file' = file
      PROVE  FileInv'
  <2>1. file \cup o.rest = file
    BY <1>6
  <2>2. \A d \in Callers : lock' # d
    BY <1>6 DEF TrustAssumption
  <2> QED
    BY <1>2, <1>3, <1>6, <2>1, <2>2 DEF FileInv
<1> QED
  BY <1>1, <1>5, <1>6 DEF Write, Becomes

\* A crash leaves what had been written.
LEMMA CrashKeepsFile ==
  ASSUME TrustAssumption, TrustInv, FileInv, Crash
  PROVE  FileInv'
<1>1. lock' = NoOne /\ file' = file /\ trusted' = Pairs(file)
  BY DEF Crash
<1>2. \A c \in Callers : lock' # c
  BY <1>1 DEF TrustAssumption
<1>3. Distinct(file)
  <2>1. CASE lock = NoOne
    BY <2>1 DEF FileInv
  <2>2. CASE lock # NoOne
    <3>1. PICK c \in Callers : lock = c
      BY <2>2 DEF TrustInv, WorldOK
    <3>2. CASE op[c].pc # 4
      BY <3>1, <3>2 DEF FileInv
    <3>3. CASE op[c].pc = 4
      <4>1. Distinct(file \cup op[c].rest)
        BY <3>1, <3>3 DEF FileInv
      <4> QED
        BY <4>1 DEF Distinct
    <3> QED
      BY <3>2, <3>3
  <2> QED
    BY <2>1, <2>2
<1> QED
  BY <1>1, <1>2, <1>3 DEF FileInv

\* Every step.
LEMMA StepKeepsFile ==
  ASSUME TrustAssumption, TrustInv, TrustInv', FileInv, [Next]_vars
  PROVE  FileInv'
<1>1. CASE UNCHANGED vars
  BY <1>1 DEF vars, FileInv
<1>2. CASE Rotate
  BY <1>2, FileUntouched DEF Rotate
<1>3. CASE Crash
  BY <1>3, CrashKeepsFile
<1>4. ASSUME NEW c \in Callers, CallerStep(c)
      PROVE  FileInv'
  <2>1. CASE Start(c) \/ Connection(c) \/ Cancel(c) \/ Confirm(c) \/ AskRemoval(c)
    BY <2>1, ReadersKeepFile
  <2>2. CASE Lock(c) \/ FetchKey(c)
    BY <2>2, FetchingKeepsFile
  <2>3. CASE Read(c) \/ Write(c)
    BY <2>3, ReadKeepsFile, WriteKeepsFile
  <2> QED
    BY <1>4, <2>1, <2>2, <2>3 DEF CallerStep
<1> QED
  BY <1>1, <1>2, <1>3, <1>4 DEF Next

\* Whenever nobody writes it, the file says exactly what the trusts and the removals asked
\* for (known_hosts.rs, commands.rs): FileIsWhatWasAsked, for every set of endpoints, keys
\* and callers.  It needs that the file to begin with names no pair on two lines: who
\* removes one of two such lines still trusts the key by the other.
THEOREM FileAsAsked ==
  ASSUME TrustAssumption, \A lines \in Files : Distinct(lines)
  PROVE  Spec => []FileIsWhatWasAsked
<1>1. Init => FileInv
  <2> SUFFICES ASSUME Init PROVE FileInv
    OBVIOUS
  <2>1. Distinct(file) /\ Pairs(file) = trusted /\ \A c \in Callers : lock # c
    BY DEF Init, TrustAssumption
  <2> QED
    BY <2>1 DEF FileInv
<1>2. TrustInv /\ TrustInv' /\ FileInv /\ [Next]_vars => FileInv'
  BY StepKeepsFile
<1>3. FileInv => FileIsWhatWasAsked
  BY DEF FileInv, FileIsWhatWasAsked
<1> QED
  BY <1>1, <1>2, <1>3, TrustKept, PTL DEF Spec
=============================================================================
