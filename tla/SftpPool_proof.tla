------------------------------ MODULE SftpPool_proof ------------------------------
(* Proofs about SftpPool, for every number of callers, keys, calls and faults.  What the
   rules of the pool rest on is that a slot has one leader for as long as it is pending:
   a key is claimed with a new slot, and whoever frees a key or publishes to a slot is its
   leader or has seen it pending.  Shape gives the state its types, LeadersAlone says who leads,
   and LooksAgain what a leader still knows of the pool from its second look. *)
EXTENDS SftpPool, FiniteSetTheorems, SequenceTheorems, TLAPS

(* ------------------------------- invariants ------------------------------- *)

SlotStates == [state : {"pending", "ready", "failed"}, conn : Nat]
ConnStates == [key : Keys, open : BOOLEAN, up : BOOLEAN, user : Callers \cup {"none"}]
CallStates == [pc : Places, key : Keys, conn : Nat, slot : Nat, todo : SUBSET Nat,
               probes : BOOLEAN, abortable : BOOLEAN, aborted : BOOLEAN]

\* The records and sequences behind TypeOK; a slot that is ready has a connection.
Shape ==
  /\ slots \in Seq(SlotStates) /\ conns \in Seq(ConnStates)
  /\ caller \in [Callers -> CallStates]
  /\ calls \in Nat /\ faults \in Nat
  /\ \A s \in DOMAIN slots : slots[s].state = "ready" => slots[s].conn # 0

\* A leader has a pending slot to itself, and a claimed key has a leader for it.
LeadersAlone ==
  /\ \A c \in Callers : Leads(c) => slots[caller[c].slot].state = "pending"
  /\ \A c, d \in Callers : Leads(c) /\ Leads(d) /\ caller[c].slot = caller[d].slot => c = d
  /\ \A k \in Keys : inflight[k] # 0 =>
       \E c \in Callers : Leads(c) /\ caller[c].slot = inflight[k] /\ Key(c) = k

\* From its second look on, a leader that owns its key finds there what it saw, or nothing.
LooksAgain ==
  \A c \in Callers :
    /\ At(c, "handshake") => caller[c].conn = 0
    /\ Leads(c) /\ Owns(c) /\ caller[c].pc \in {"evict", "probe", "handshake"} =>
         pool[Key(c)] \in {0, caller[c].conn}

(* ------------------------ how a caller's record moves --------------------- *)

\* A caller at rest.
LEMMA RestingState ==
  /\ Resting \in CallStates
  /\ Resting.slot = 0 /\ Resting.pc = "rest" /\ Resting.conn = 0 /\ Resting.todo = {}
  BY KeyAssumption DEF Resting, CallStates, Places

\* A caller that moves keeps the fields the move does not name, and the others keep all.
LEMMA SetMoves ==
  ASSUME Shape, NEW c \in Callers, NEW r \in CallStates, Set(c, r)
  PROVE  /\ caller' \in [Callers -> CallStates] /\ caller'[c] = r
         /\ \A d \in Callers \ {c} : caller'[d] = caller[d]
  BY DEF Shape, Set

\* A caller goes on with a connection,
LEMMA WithConnMoves ==
  ASSUME Shape, NEW c \in Callers, NEW pc \in Places, NEW n \in Nat, WithConn(c, pc, n)
  PROVE  /\ caller' \in [Callers -> CallStates]
         /\ caller'[c].pc = pc /\ caller'[c].conn = n
         /\ caller'[c].key = caller[c].key /\ caller'[c].slot = caller[c].slot
         /\ caller'[c].todo = caller[c].todo
         /\ \A d \in Callers \ {c} : caller'[d] = caller[d]
<1>1. caller' = [caller EXCEPT ![c] = [caller[c] EXCEPT !.pc = pc, !.conn = n]]
  BY DEF Shape, WithConn
<1>2. [caller[c] EXCEPT !.pc = pc, !.conn = n] \in CallStates
  BY DEF Shape, CallStates
<1> QED
  BY <1>1, <1>2 DEF Shape, CallStates

\* or as it is,
LEMMA GotoMoves ==
  ASSUME Shape, NEW c \in Callers, NEW pc \in Places, Goto(c, pc)
  PROVE  /\ caller' \in [Callers -> CallStates]
         /\ caller'[c].pc = pc /\ caller'[c].conn = caller[c].conn
         /\ caller'[c].key = caller[c].key /\ caller'[c].slot = caller[c].slot
         /\ caller'[c].todo = caller[c].todo
         /\ \A d \in Callers \ {c} : caller'[d] = caller[d]
<1>1. caller' = [caller EXCEPT ![c] = [caller[c] EXCEPT !.pc = pc]]
  BY DEF Shape, Goto
<1>2. [caller[c] EXCEPT !.pc = pc] \in CallStates
  BY DEF Shape, CallStates
<1> QED
  BY <1>1, <1>2 DEF Shape, CallStates

\* A sequence that grows keeps its elements.
LEMMA AppendGrows ==
  ASSUME NEW S, NEW s \in Seq(S), NEW x \in S
  PROVE  /\ Append(s, x) \in Seq(S) /\ Len(Append(s, x)) = Len(s) + 1 /\ Len(s) \in Nat
         /\ \A i \in 1..Len(s) : Append(s, x)[i] = s[i]
         /\ Append(s, x)[Len(s) + 1] = x
  OBVIOUS

\* The record of a caller after a lookup found n, and in todo what it swept.
Looked(q, u, k, n, todo) ==
  [q EXCEPT !.pc = "evict", !.conn = n, !.probes = k \in u, !.todo = todo]

\* Such a record is a caller's.
LEMMA LookedUp ==
  ASSUME NEW q \in CallStates, NEW u, NEW k, NEW n \in Nat, NEW todo \in SUBSET Nat
  PROVE  LET r == Looked(q, u, k, n, todo) IN
         /\ r \in CallStates
         /\ r.pc = "evict" /\ r.conn = n /\ r.todo = todo /\ r.key = q.key /\ r.slot = q.slot
<1> SUFFICES ASSUME NEW r, r =
                      [q EXCEPT !.pc = "evict", !.conn = n, !.probes = k \in u, !.todo = todo]
             PROVE  /\ r \in CallStates
                    /\ r.pc = "evict" /\ r.conn = n /\ r.todo = todo /\ r.key = q.key
                    /\ r.slot = q.slot
  BY Zenon DEF Looked
<1>1. r.pc = "evict" /\ r.conn = n /\ r.todo = todo /\ r.key = q.key /\ r.slot = q.slot
  BY DEF CallStates
<1>2. r \in CallStates
  <2>1. r.probes = (k \in u)
    BY DEF CallStates
  <2>2. r.probes \in BOOLEAN
    BY <2>1
  <2>3. r = [pc |-> "evict", key |-> q.key, conn |-> n, slot |-> q.slot, todo |-> todo,
             probes |-> r.probes, abortable |-> q.abortable, aborted |-> q.aborted]
    BY DEF CallStates
  <2> QED
    BY <2>2, <2>3 DEF CallStates, Places
<1> QED
  BY <1>1, <1>2

\* A caller takes a slot,
LEMMA WithSlotMoves ==
  ASSUME Shape, NEW c \in Callers, NEW pc \in Places, NEW s \in Nat, WithSlot(c, pc, s)
  PROVE  /\ caller' \in [Callers -> CallStates]
         /\ caller'[c].pc = pc /\ caller'[c].slot = s
         /\ caller'[c].key = caller[c].key /\ caller'[c].conn = caller[c].conn
         /\ caller'[c].todo = caller[c].todo
         /\ \A d \in Callers \ {c} : caller'[d] = caller[d]
<1>1. caller' = [caller EXCEPT ![c] = [caller[c] EXCEPT !.pc = pc, !.slot = s]]
  BY DEF Shape, WithSlot
<1>2. [caller[c] EXCEPT !.pc = pc, !.slot = s] \in CallStates
  BY DEF Shape, CallStates
<1> QED
  BY <1>1, <1>2 DEF Shape, CallStates

\* or what it has to close.
LEMMA WithTodoMoves ==
  ASSUME Shape, NEW c \in Callers, NEW pc \in Places, NEW n \in Nat, NEW todo \in SUBSET Nat,
         WithTodo(c, pc, n, todo)
  PROVE  /\ caller' \in [Callers -> CallStates]
         /\ caller'[c].pc = pc /\ caller'[c].conn = n /\ caller'[c].todo = todo
         /\ caller'[c].key = caller[c].key /\ caller'[c].slot = caller[c].slot
         /\ \A d \in Callers \ {c} : caller'[d] = caller[d]
<1>1. caller' = [caller EXCEPT ![c] = [caller[c] EXCEPT !.pc = pc, !.conn = n, !.todo = todo]]
  BY DEF Shape, WithTodo
<1>2. [caller[c] EXCEPT !.pc = pc, !.conn = n, !.todo = todo] \in CallStates
  BY DEF Shape, CallStates
<1> QED
  BY <1>1, <1>2 DEF Shape, CallStates

\* The record of a connection when one of its fields is set.
LEMMA ConnRecords ==
  ASSUME NEW q \in ConnStates
  PROVE  /\ [q EXCEPT !.open = FALSE] \in ConnStates /\ [q EXCEPT !.up = FALSE] \in ConnStates
         /\ \A u \in Callers \cup {"none"} : [q EXCEPT !.user = u] \in ConnStates
  BY DEF ConnStates

(* ------------------------------ the type invariant ------------------------ *)

Typed == Shape /\ TypeOK

\* Callers and pool are well-formed at first.
LEMMA TypedInit == Init => Typed
<1> SUFFICES ASSUME Init PROVE Typed
  OBVIOUS
<1>1. Shape
  BY RestingState, CallAssumption DEF Init, Shape
<1>2. \A c \in Callers : CallOK(c)
  BY RestingState DEF Init, CallOK, Resting, CallStates
<1>3. TypeOK
  BY <1>2 DEF Init, TypeOK
<1> QED
  BY <1>1, <1>3 DEF Typed

\* The slots and the connections there were stay; those of a slot that is ready do too.
Grows ==
  /\ slots' \in Seq(SlotStates) /\ conns' \in Seq(ConnStates)
  /\ Len(slots) \in Nat /\ Len(slots') \in Nat /\ Len(slots) <= Len(slots')
  /\ Len(conns) \in Nat /\ Len(conns') \in Nat /\ Len(conns) <= Len(conns')
  /\ \A s \in DOMAIN slots' :
       slots'[s].conn \in 0..Len(conns') /\ (slots'[s].state = "ready" => slots'[s].conn # 0)

\* A step by one caller that leaves it in a legal state leaves all in one.
LEMMA OneMoves ==
  ASSUME Typed, Grows, NEW c \in Callers, CallOK(c)',
         caller' \in [Callers -> CallStates], \A d \in Callers \ {c} : caller'[d] = caller[d],
         pool' \in [Keys -> 0..Len(conns')], inflight' \in [Keys -> 0..Len(slots')],
         idle' \subseteq Keys, unverified' \subseteq Keys, calls' \in Nat, faults' \in Nat
  PROVE  Typed'
<1>1. Shape'
  BY DEF Grows, Shape
<1>2. \A d \in Callers \ {c} : CallOK(d)'
  <2> SUFFICES ASSUME NEW d \in Callers \ {c} PROVE CallOK(d)'
    OBVIOUS
  <2>1. CallOK(d) /\ caller'[d] = caller[d] /\ caller[d] \in CallStates
    BY DEF Typed, TypeOK, Shape
  <2>2. DOMAIN conns = 1..Len(conns) /\ DOMAIN conns' = 1..Len(conns')
    BY DEF Typed, Shape, Grows
  <2>3. caller[d].conn \in 0..Len(conns') /\ caller[d].slot \in 0..Len(slots')
        /\ caller[d].todo \subseteq DOMAIN conns'
    BY <2>1, <2>2 DEF CallOK, Grows, CallStates
  <2> QED
    BY <2>1, <2>3 DEF CallOK
<1>3. /\ \A s \in DOMAIN slots' :
           slots'[s].state \in {"pending", "ready", "failed"} /\ slots'[s].conn \in 0..Len(conns')
      /\ \A n \in DOMAIN conns' :
           conns'[n].key \in Keys /\ conns'[n].user \in Callers \cup {"none"}
  <2>1. \A s \in DOMAIN slots' : slots'[s] \in SlotStates
    BY DEF Grows
  <2>2. \A n \in DOMAIN conns' : conns'[n] \in ConnStates
    BY DEF Grows
  <2> QED
    BY <2>1, <2>2 DEF Grows, SlotStates, ConnStates
<1> QED
  BY <1>1, <1>2, <1>3 DEF Typed, TypeOK

\* Nothing grows in a step that leaves the slots and the connections alone.
LEMMA StaysGrown == Typed /\ UNCHANGED <<slots, conns>> => Grows
  BY DEF Typed, Shape, TypeOK, Grows

\* A connection changes in one field; nothing grows.
LEMMA ConnChanges ==
  ASSUME Typed, UNCHANGED slots, NEW n \in DOMAIN conns, NEW r \in ConnStates,
         conns' = [conns EXCEPT ![n] = r]
  PROVE  Grows /\ Len(conns') = Len(conns)
<1>1. n \in 1..Len(conns)
  BY DEF Typed, Shape
<1>2. conns' \in Seq(ConnStates) /\ Len(conns') = Len(conns)
  BY <1>1, ExceptSeq DEF Typed, Shape
<1> QED
  BY <1>2 DEF Typed, Shape, TypeOK, Grows

\* A slot is replaced; nothing grows.
LEMMA SlotChanges ==
  ASSUME Typed, UNCHANGED conns, NEW s \in DOMAIN slots, NEW r \in SlotStates,
         r.conn \in 0..Len(conns), r.state = "ready" => r.conn # 0, slots' = [slots EXCEPT ![s] = r]
  PROVE  Grows /\ Len(slots') = Len(slots) /\ DOMAIN slots' = DOMAIN slots /\ slots'[s] = r
         /\ \A i \in DOMAIN slots \ {s} : slots'[i] = slots[i]
<1>1. s \in 1..Len(slots) /\ DOMAIN slots = 1..Len(slots)
  BY DEF Typed, Shape
<1>2. /\ slots' \in Seq(SlotStates) /\ Len(slots') = Len(slots)
      /\ \A i \in 1..Len(slots) : slots'[i] = IF i = s THEN r ELSE slots[i]
  BY <1>1, ExceptSeq DEF Typed, Shape
<1>3. DOMAIN slots' = 1..Len(slots)
  BY <1>2
<1>4. \A i \in DOMAIN slots' :
        slots'[i].conn \in 0..Len(conns) /\ (slots'[i].state = "ready" => slots'[i].conn # 0)
  BY <1>1, <1>2, <1>3 DEF Typed, Shape, TypeOK
<1> QED
  BY <1>1, <1>2, <1>3, <1>4 DEF Typed, Shape, Grows

\* What a caller is known to have before it moves.
LEMMA CallerHas ==
  ASSUME Typed, NEW c \in Callers
  PROVE  /\ caller[c] \in CallStates /\ CallOK(c) /\ Key(c) \in Keys
         /\ DOMAIN conns = 1..Len(conns) /\ DOMAIN slots = 1..Len(slots)
         /\ Len(conns) \in Nat /\ Len(slots) \in Nat
         /\ pool[Key(c)] \in 0..Len(conns) /\ inflight[Key(c)] \in 0..Len(slots)
  BY DEF Typed, Shape, TypeOK, Key, CallStates

\* A call that ends is at rest, with nothing in hand.
LEMMA RestingOK == ASSUME Typed, Grows, NEW c \in Callers, Ends(c)
  PROVE  /\ CallOK(c)' /\ caller' \in [Callers -> CallStates] /\ caller'[c] = Resting
         /\ \A d \in Callers \ {c} : caller'[d] = caller[d]
<1>1. /\ caller' \in [Callers -> CallStates] /\ caller'[c] = Resting
      /\ \A d \in Callers \ {c} : caller'[d] = caller[d]
  BY SetMoves, RestingState DEF Ends, Typed
<1>2. CallOK(c)'
  BY <1>1, KeyAssumption DEF CallOK, Resting, Places, Grows
<1> QED
  BY <1>1, <1>2

\* A caller that goes on to a place it is fit for.
LEMMA GoesOn ==
  ASSUME Typed, Grows, NEW c \in Callers, NEW pc \in Places, Goto(c, pc),
         pc \in {"probe", "use", "using"} => caller[c].conn # 0,
         pc \in {"handshake", "finish", "wait", "givenUp"} => caller[c].slot # 0
  PROVE  /\ CallOK(c)' /\ caller' \in [Callers -> CallStates]
         /\ \A d \in Callers \ {c} : caller'[d] = caller[d]
<1>1. /\ caller[c].key \in Keys /\ caller[c].conn \in 0..Len(conns)
      /\ caller[c].slot \in 0..Len(slots)
      /\ caller[c].todo \subseteq DOMAIN conns
  BY CallerHas DEF CallOK
<1>2. DOMAIN conns = 1..Len(conns) /\ DOMAIN conns' = 1..Len(conns')
  BY DEF Typed, Shape, Grows
<1>3. /\ caller[c].conn \in 0..Len(conns') /\ caller[c].slot \in 0..Len(slots')
      /\ caller[c].todo \subseteq DOMAIN conns'
  BY <1>1, <1>2 DEF Grows
<1> QED
  BY <1>1, <1>3, GotoMoves DEF Typed, CallOK

\* A caller that goes on with a connection, or with none to a place that needs none.
LEMMA GoesOnWith ==
  ASSUME Typed, Grows, NEW c \in Callers, NEW pc \in {"use", "finish"}, NEW n \in 0..Len(conns'),
         WithConn(c, pc, n),
         pc = "use" => n # 0, pc = "finish" => caller[c].slot # 0
  PROVE  /\ CallOK(c)' /\ caller' \in [Callers -> CallStates]
         /\ \A d \in Callers \ {c} : caller'[d] = caller[d]
<1>1. /\ caller[c].key \in Keys /\ caller[c].slot \in 0..Len(slots)
      /\ caller[c].todo \subseteq DOMAIN conns
  BY CallerHas DEF CallOK
<1>2. DOMAIN conns = 1..Len(conns) /\ DOMAIN conns' = 1..Len(conns')
  BY DEF Typed, Shape, Grows
<1>3. caller[c].slot \in 0..Len(slots') /\ caller[c].todo \subseteq DOMAIN conns' /\ n \in Nat
  BY <1>1, <1>2 DEF Grows
<1>4. pc \in Places
  BY DEF Places
<1> QED
  BY <1>1, <1>3, <1>4, WithConnMoves DEF Typed, CallOK

\* A call that fails, or goes on to invalidate the key.
LEMMA FailsOK ==
  ASSUME Typed, Grows, NEW c \in Callers, Fails(c)
  PROVE  /\ CallOK(c)' /\ caller' \in [Callers -> CallStates]
         /\ \A d \in Callers \ {c} : caller'[d] = caller[d]
  BY RestingOK, GoesOn DEF Fails, Places

\* A step of one caller keeps the types.
LEMMA TypedMove ==
  ASSUME Typed, NEW c \in Callers,
         CallerStep(c) \/ Panic(c) \/ GiveUp(c) \/ Start(c) \/ Supersede(c)
  PROVE  Typed'
<1>0. /\ caller[c] \in CallStates /\ CallOK(c) /\ Key(c) \in Keys
      /\ DOMAIN conns = 1..Len(conns) /\ DOMAIN slots = 1..Len(slots)
      /\ Len(conns) \in Nat /\ Len(slots) \in Nat
      /\ pool[Key(c)] \in 0..Len(conns) /\ inflight[Key(c)] \in 0..Len(slots)
  BY CallerHas
<1> USE <1>0
<1>1. CASE Lookup(c)
  <2>1. Grows
    BY <1>1, StaysGrown DEF Lookup
  <2>2. CASE Ends(c) /\ UNCHANGED maps
    BY <1>1, <2>1, <2>2, RestingOK, OneMoves DEF Lookup, maps, bounds, Typed, TypeOK, Shape
  <2>3. CASE ~(caller[c].aborted /\ LooksFirst(c))
    <3> DEFINE swept == {x \in idle : pool[x] # 0}
               gone  == {pool[x] : x \in swept}
               r     == Looked(caller[c], unverified, Key(c), pool'[Key(c)], gone)
    <3>1. /\ pool' = [x \in Keys |-> IF x \in swept THEN 0 ELSE pool[x]]
          /\ idle' = idle \ (swept \cup {Key(c)}) /\ unverified' = unverified \ swept
          /\ Set(c, r) /\ UNCHANGED <<inflight, slots, conns, calls, faults>>
      BY <1>1, <2>3 DEF Lookup, bounds, Looked
    <3>2. pool' \in [Keys -> 0..Len(conns)] /\ idle' \subseteq Keys /\ unverified' \subseteq Keys
      BY <3>1 DEF Typed, TypeOK
    <3>3. gone \subseteq 1..Len(conns)
      BY DEF Typed, TypeOK
    <3>4. r \in CallStates /\ r.pc = "evict" /\ r.conn = pool'[Key(c)] /\ r.todo = gone
          /\ r.key = Key(c) /\ r.slot = caller[c].slot
      <4>1. pool'[Key(c)] \in Nat /\ gone \in SUBSET Nat /\ "evict" \in Places
        BY <3>2, <3>3 DEF Places
      <4> HIDE DEF gone
      <4> QED
        BY <4>1, LookedUp DEF Key
    <3>5. /\ caller' \in [Callers -> CallStates] /\ caller'[c] = r
          /\ \A d \in Callers \ {c} : caller'[d] = caller[d]
      BY <3>1, <3>4, SetMoves DEF Typed
    <3>6. CallOK(c)'
      <4>1. DOMAIN conns' = 1..Len(conns) /\ Len(slots') = Len(slots)
        BY <3>1
      <4> HIDE DEF gone, r
      <4> QED
        BY <3>1, <3>2, <3>3, <3>4, <3>5, <4>1 DEF CallOK, Places, Key
    <3> HIDE DEF gone, r
    <3> QED
      BY <2>1, <3>1, <3>2, <3>5, <3>6, OneMoves DEF Typed, TypeOK, Shape
  <2> QED
    BY <1>1, <2>2, <2>3 DEF Lookup
<1>2. CASE Disconnect(c)
  <2>1. PICK n \in caller[c].todo :
          /\ conns' = [conns EXCEPT ![n].open = FALSE]
          /\ Set(c, [caller[c] EXCEPT !.todo = @ \ {n}])
    BY <1>2 DEF Disconnect
  <2>2. n \in DOMAIN conns
    BY <2>1 DEF CallOK
  <2>3. Grows /\ Len(conns') = Len(conns)
    <3>1. [conns[n] EXCEPT !.open = FALSE] \in ConnStates
      BY <2>2, ConnRecords, ElementOfSeq DEF Typed, Shape
    <3>2. conns' = [conns EXCEPT ![n] = [conns[n] EXCEPT !.open = FALSE]]
      BY <2>1
    <3> QED
      BY <1>2, <2>2, <3>1, <3>2, ConnChanges DEF Disconnect
  <2>4. [caller[c] EXCEPT !.todo = @ \ {n}] \in CallStates
    BY DEF CallStates
  <2>5. /\ caller' \in [Callers -> CallStates] /\ caller'[c] = [caller[c] EXCEPT !.todo = @ \ {n}]
        /\ \A d \in Callers \ {c} : caller'[d] = caller[d]
    BY <2>1, <2>4, SetMoves DEF Typed
  <2>6. CallOK(c)'
    BY <1>2, <2>3, <2>5 DEF CallOK, CallStates, Grows, Disconnect
  <2> QED
    BY <1>2, <2>3, <2>5, <2>6, OneMoves DEF Disconnect, maps, bounds, Typed, TypeOK, Shape
<1>3. CASE Found(c)
  <2>1. Grows
    BY <1>3, StaysGrown DEF Found
  <2>2. CASE Ends(c)
    BY <1>3, <2>1, <2>2, RestingOK, OneMoves DEF Found, maps, bounds, Typed, TypeOK, Shape
  <2>3. ASSUME NEW pc \in {"claim", "handshake", "probe", "use", "finish"}, Goto(c, pc),
               pc \in {"probe", "use"} => caller[c].conn # 0,
               pc \in {"handshake", "finish"} => caller[c].slot # 0
        PROVE  Typed'
    <3>1. CallOK(c)' /\ caller' \in [Callers -> CallStates]
          /\ \A d \in Callers \ {c} : caller'[d] = caller[d]
      BY <2>1, <2>3, GoesOn DEF Places
    <3> QED
      BY <1>3, <2>1, <3>1, OneMoves DEF Found, maps, bounds, Typed, TypeOK, Shape
  <2> QED
    BY <1>3, <2>2, <2>3 DEF Found, LooksFirst
<1>4. CASE Probe(c)
  <2>1. Grows /\ UNCHANGED <<slots, conns, inflight, idle, calls, faults>>
    BY <1>4, StaysGrown DEF Probe, bounds, maps
  <2>2. pool' \in [Keys -> 0..Len(conns')] /\ unverified' \subseteq Keys
    <3>1. pool' = pool \/ pool' = [pool EXCEPT ![Key(c)] = 0]
      BY <1>4 DEF Probe, maps
    <3>2. unverified' = unverified \/ unverified' = unverified \ {Key(c)}
      BY <1>4 DEF Probe, maps
    <3> QED
      BY <2>1, <3>1, <3>2 DEF Typed, TypeOK
  <2>3. /\ CallOK(c)' /\ caller' \in [Callers -> CallStates]
        /\ \A d \in Callers \ {c} : caller'[d] = caller[d]
    <3>1. CASE Ends(c)
      BY <2>1, <3>1, RestingOK
    <3>2. CASE Goto(c, IF LooksFirst(c) THEN "use" ELSE "finish")
      BY <1>4, <2>1, <3>2, GoesOn DEF Probe, At, Places, LooksFirst, CallOK
    <3>3. CASE WithTodo(c, "evict", 0, IF pool[Key(c)] = caller[c].conn THEN {caller[c].conn} ELSE {})
      <4>1. caller[c].conn \in 1..Len(conns)
        BY <1>4 DEF Probe, At, CallOK
      <4>2. PICK todo \in SUBSET (1..Len(conns)) : WithTodo(c, "evict", 0, todo)
        BY <3>3, <4>1
      <4>3. todo \in SUBSET Nat /\ 0 \in Nat /\ "evict" \in Places
        BY <4>2 DEF Places
      <4>4. /\ caller' \in [Callers -> CallStates] /\ caller'[c].pc = "evict" /\ caller'[c].conn = 0
            /\ caller'[c].todo = todo /\ caller'[c].key = caller[c].key
            /\ caller'[c].slot = caller[c].slot
            /\ \A d \in Callers \ {c} : caller'[d] = caller[d]
        BY <4>2, <4>3, WithTodoMoves DEF Typed
      <4>5. CallOK(c)'
        BY <2>1, <4>3, <4>4 DEF CallOK
      <4> QED
        BY <4>4, <4>5
    <3> QED
      BY <1>4, <3>1, <3>2, <3>3 DEF Probe
  <2> QED
    BY <2>1, <2>2, <2>3, OneMoves DEF Typed, TypeOK, Shape
<1>5. CASE Claim(c)
  <2>1. UNCHANGED <<pool, idle, unverified, conns, calls, faults>>
    BY <1>5 DEF Claim, bounds
  <2>2. CASE Ends(c) /\ UNCHANGED <<inflight, slots>>
    BY <2>1, <2>2, StaysGrown, RestingOK, OneMoves DEF Typed, TypeOK, Shape
  <2>3. CASE /\ inflight[Key(c)] # 0 /\ WithSlot(c, "wait", inflight[Key(c)])
             /\ UNCHANGED <<inflight, slots>>
    <3>1. inflight[Key(c)] \in Nat /\ "wait" \in Places
      BY DEF Places
    <3>2. /\ caller' \in [Callers -> CallStates] /\ \A d \in Callers \ {c} : caller'[d] = caller[d]
          /\ caller'[c].pc = "wait" /\ caller'[c].slot = inflight[Key(c)]
          /\ caller'[c].key = caller[c].key /\ caller'[c].conn = caller[c].conn
          /\ caller'[c].todo = caller[c].todo
      BY <2>3, <3>1, WithSlotMoves DEF Typed
    <3>3. CallOK(c)'
      BY <2>1, <2>3, <3>2 DEF CallOK, Places
    <3> QED
      BY <2>1, <2>3, <3>2, <3>3, StaysGrown, OneMoves DEF Typed, TypeOK, Shape
  <2>4. CASE /\ slots' = Append(slots, [state |-> "pending", conn |-> 0])
             /\ inflight' = [inflight EXCEPT ![Key(c)] = Len(slots')]
             /\ WithSlot(c, "lookup", Len(slots'))
    <3>1. [state |-> "pending", conn |-> 0] \in SlotStates
      BY DEF SlotStates
    <3>2. /\ slots' \in Seq(SlotStates) /\ Len(slots') = Len(slots) + 1
          /\ slots'[Len(slots) + 1] = [state |-> "pending", conn |-> 0]
          /\ \A i \in 1..Len(slots) : slots'[i] = slots[i]
      BY <2>4, <3>1, AppendGrows DEF Typed, Shape
    <3>3. Grows
      <4>1. DOMAIN slots' = 1..(Len(slots) + 1)
        BY <3>2
      <4>2. \A i \in 1..Len(slots) :
              slots[i].conn \in 0..Len(conns) /\ (slots[i].state = "ready" => slots[i].conn # 0)
        BY DEF Typed, TypeOK, Shape
      <4> QED
        BY <2>1, <3>2, <4>1, <4>2 DEF Grows, Typed, Shape
    <3>4. Len(slots') \in Nat /\ "lookup" \in Places
      BY <3>2 DEF Places
    <3>5. /\ caller' \in [Callers -> CallStates] /\ \A d \in Callers \ {c} : caller'[d] = caller[d]
          /\ caller'[c].pc = "lookup" /\ caller'[c].slot = Len(slots')
          /\ caller'[c].key = caller[c].key /\ caller'[c].conn = caller[c].conn
          /\ caller'[c].todo = caller[c].todo
      BY <2>4, <3>4, WithSlotMoves DEF Typed
    <3>6. CallOK(c)'
      BY <2>1, <3>2, <3>5 DEF CallOK, Places
    <3>7. inflight' \in [Keys -> 0..Len(slots')]
      BY <2>4, <3>2 DEF Typed, TypeOK
    <3> QED
      BY <2>1, <3>3, <3>5, <3>6, <3>7, OneMoves DEF Typed, TypeOK, Shape
  <2> QED
    BY <1>5, <2>2, <2>3, <2>4 DEF Claim
<1>6. CASE Handshake(c)
  <2>1. UNCHANGED <<pool, idle, unverified, inflight, slots, calls, faults>>
    BY <1>6 DEF Handshake, maps, bounds
  <2>2. CASE WithConn(c, "finish", 0) /\ UNCHANGED conns
    <3>1. Grows
      BY <2>1, <2>2, StaysGrown
    <3>2. /\ CallOK(c)' /\ caller' \in [Callers -> CallStates]
          /\ \A d \in Callers \ {c} : caller'[d] = caller[d]
      <4>1. caller[c].slot # 0 /\ 0 \in 0..Len(conns')
        BY <1>6, <3>1 DEF Handshake, At, CallOK, Grows
      <4> QED
        BY <2>2, <3>1, <4>1, GoesOnWith
    <3> QED
      BY <2>1, <2>2, <3>1, <3>2, OneMoves DEF Typed, TypeOK, Shape
  <2>3. CASE /\ conns' =
                  Append(conns, [key |-> Key(c), open |-> TRUE, up |-> TRUE, user |-> "none"])
             /\ WithConn(c, "finish", Len(conns'))
    <3>1. [key |-> Key(c), open |-> TRUE, up |-> TRUE, user |-> "none"] \in ConnStates
      BY DEF ConnStates
    <3>2. conns' \in Seq(ConnStates) /\ Len(conns') = Len(conns) + 1
      BY <2>3, <3>1, AppendGrows DEF Typed, Shape
    <3>3. Grows
      BY <2>1, <3>2 DEF Grows, Typed, TypeOK, Shape
    <3>4. /\ CallOK(c)' /\ caller' \in [Callers -> CallStates]
          /\ \A d \in Callers \ {c} : caller'[d] = caller[d]
      <4>1. caller[c].slot # 0 /\ Len(conns') \in 0..Len(conns')
        BY <1>6, <3>3 DEF Handshake, At, CallOK, Grows
      <4> QED
        BY <2>3, <3>3, <4>1, GoesOnWith
    <3>5. pool' \in [Keys -> 0..Len(conns')]
      BY <2>1, <3>2 DEF Typed, TypeOK
    <3> QED
      BY <2>1, <3>3, <3>4, <3>5, OneMoves DEF Typed, TypeOK, Shape
  <2> QED
    BY <1>6, <2>2, <2>3 DEF Handshake
<1>7. CASE Finish(c)
  <2> DEFINE s == caller[c].slot
             n == caller[c].conn
             r == IF n # 0 /\ Owns(c) THEN Kept(Key(c), n) ELSE n
  <2>1. UNCHANGED <<conns, calls, faults>> /\ s \in DOMAIN slots
    BY <1>7 DEF Finish, At, CallOK, bounds
  <2>2. r \in 0..Len(conns) /\ (n # 0 => r # 0) /\ (n = 0 => r = 0)
    BY DEF Kept, CallOK
  <2>3. /\ pool' = pool \/ pool' = [pool EXCEPT ![Key(c)] = r]
        /\ idle' \subseteq Keys /\ unverified' \subseteq Keys
        /\ inflight' = inflight \/ inflight' = [inflight EXCEPT ![Key(c)] = 0]
        /\ slots' =
             [slots EXCEPT ![s] = [state |-> IF n = 0 THEN "failed" ELSE "ready", conn |-> r]]
        /\ IF n = 0 THEN Fails(c) ELSE WithConn(c, "use", r)
    BY <1>7 DEF Finish, Typed, TypeOK
  <2>4. [state |-> IF n = 0 THEN "failed" ELSE "ready", conn |-> r] \in SlotStates
    BY <2>2 DEF SlotStates
  <2> HIDE DEF s, n, r
  <2>5. Grows /\ Len(slots') = Len(slots)
    BY <2>1, <2>2, <2>3, <2>4, SlotChanges
  <2>6. /\ CallOK(c)' /\ caller' \in [Callers -> CallStates]
        /\ \A d \in Callers \ {c} : caller'[d] = caller[d]
    BY <2>1, <2>2, <2>3, <2>5, FailsOK, GoesOnWith
  <2>7. pool' \in [Keys -> 0..Len(conns')] /\ inflight' \in [Keys -> 0..Len(slots')]
    <3>1. pool \in [Keys -> 0..Len(conns)] /\ inflight \in [Keys -> 0..Len(slots)]
          /\ r \in 0..Len(conns)
      BY <2>2 DEF Typed, TypeOK
    <3>2. pool' \in [Keys -> 0..Len(conns)]
      BY <2>3, <3>1
    <3>3. inflight' \in [Keys -> 0..Len(slots)]
      BY <2>3, <3>1
    <3> QED
      BY <2>1, <2>5, <3>2, <3>3
  <2> QED
    BY <2>1, <2>3, <2>5, <2>6, <2>7, OneMoves DEF Typed, Shape
<1>8. CASE Panic(c)
  <2>1. UNCHANGED <<pool, idle, unverified, conns, calls>> /\ faults' \in Nat /\ Ends(c)
        /\ caller[c].slot \in DOMAIN slots
    BY <1>8 DEF Panic, At, CallOK, Typed, Shape
  <2>2. PICK r \in SlotStates : /\ slots' = [slots EXCEPT ![caller[c].slot] = r]
                                /\ r.conn = slots[caller[c].slot].conn
                                /\ r.state = "ready" => slots[caller[c].slot].state = "ready"
    <3> DEFINE q == slots[caller[c].slot]
               r == [q EXCEPT !.state = IF @ = "pending" THEN "failed" ELSE @]
    <3>1. q \in SlotStates
      BY <2>1, ElementOfSeq DEF Typed, Shape
    <3>2. r \in SlotStates /\ r.conn = q.conn /\ (r.state = "ready" => q.state = "ready")
      BY <3>1 DEF SlotStates
    <3>3. slots' = [slots EXCEPT ![caller[c].slot] = r]
      BY <1>8 DEF Panic
    <3> HIDE DEF r
    <3> QED
      BY <3>2, <3>3
  <2>3. r.conn \in 0..Len(conns) /\ (r.state = "ready" => r.conn # 0)
    BY <2>1, <2>2 DEF Typed, TypeOK, Shape
  <2>4. Grows /\ Len(slots') = Len(slots)
    BY <2>1, <2>2, <2>3, SlotChanges
  <2>5. inflight' \in [Keys -> 0..Len(slots')]
    BY <1>8, <2>4 DEF Panic, Typed, TypeOK
  <2> QED
    BY <2>1, <2>4, <2>5, RestingOK, OneMoves DEF Typed, TypeOK, Shape
<1>9. CASE Follow(c)
  <2>1. Grows /\ UNCHANGED <<pool, idle, unverified, inflight, slots, conns, calls, faults>>
        /\ caller[c].slot \in DOMAIN slots
    BY <1>9, StaysGrown DEF Follow, maps, bounds, At, CallOK
  <2>2. ASSUME slots[caller[c].slot].state = "ready", WithConn(c, "use", slots[caller[c].slot].conn)
        PROVE  /\ CallOK(c)' /\ caller' \in [Callers -> CallStates]
               /\ \A d \in Callers \ {c} : caller'[d] = caller[d]
    <3>1. slots[caller[c].slot].conn # 0 /\ slots[caller[c].slot].conn \in 0..Len(conns')
      BY <2>1, <2>2 DEF Typed, Shape, TypeOK
    <3> QED
      BY <2>1, <2>2, <3>1, GoesOnWith
  <2>3. /\ CallOK(c)' /\ caller' \in [Callers -> CallStates]
        /\ \A d \in Callers \ {c} : caller'[d] = caller[d]
    BY <1>9, <2>1, <2>2, RestingOK, FailsOK DEF Follow
  <2> QED
    BY <2>1, <2>3, OneMoves DEF Typed, TypeOK, Shape
<1>10. CASE GiveUp(c)
  <2>1. /\ Grows /\ UNCHANGED <<pool, idle, unverified, inflight, slots, conns, calls>>
        /\ faults' \in Nat /\ Goto(c, "givenUp") /\ caller[c].slot # 0
    BY <1>10, StaysGrown DEF GiveUp, maps, At, CallOK, Typed, Shape
  <2>2. /\ CallOK(c)' /\ caller' \in [Callers -> CallStates]
        /\ \A d \in Callers \ {c} : caller'[d] = caller[d]
    BY <2>1, GoesOn DEF Places
  <2> QED
    BY <2>1, <2>2, OneMoves DEF Typed, TypeOK, Shape
<1>11. CASE FreeKey(c)
  <2>1. /\ Grows /\ UNCHANGED <<pool, idle, unverified, slots, conns, calls, faults>>
        /\ inflight' = inflight \/ inflight' = [inflight EXCEPT ![Key(c)] = 0]
        /\ Goto(c, "invalidate")
    BY <1>11, StaysGrown DEF FreeKey, bounds
  <2>2. /\ CallOK(c)' /\ caller' \in [Callers -> CallStates]
        /\ \A d \in Callers \ {c} : caller'[d] = caller[d]
    BY <2>1, GoesOn DEF Places
  <2>3. inflight' \in [Keys -> 0..Len(slots')]
    BY <2>1 DEF Typed, TypeOK
  <2> QED
    BY <2>1, <2>2, <2>3, OneMoves DEF Typed, TypeOK, Shape
<1>12. CASE Start(c)
  <2>1. UNCHANGED <<pool, idle, unverified, inflight, slots, conns, faults>> /\ calls' \in Nat
    <3>1. UNCHANGED <<pool, idle, unverified, inflight, slots, conns, faults>> /\ calls' = calls + 1
      BY <1>12, Zenon DEF Start, maps
    <3> QED
      BY <3>1 DEF Typed, Shape
  <2>2. Grows
    BY <2>1, StaysGrown
  <2>3. PICK k \in Keys, listing \in BOOLEAN, pc \in {"lookup", "invalidate"} :
          Set(c, [Resting EXCEPT !.pc = pc, !.key = k, !.abortable = listing])
    BY <1>12 DEF Start
  <2>4. PICK r \in CallStates : Set(c, r) /\ r.pc = pc /\ r.key = k /\ r.slot = 0 /\ r.conn = 0
             /\ r.todo = {}
    <3>1. PICK r : r = [Resting EXCEPT !.pc = pc, !.key = k, !.abortable = listing]
      OBVIOUS
    <3>2. r \in CallStates /\ r.pc = pc /\ r.key = k /\ r.slot = 0 /\ r.conn = 0 /\ r.todo = {}
      BY <3>1, RestingState DEF CallStates, Places
    <3>3. Set(c, r)
      BY <2>3, <3>1
    <3> QED
      BY <3>2, <3>3
  <2>5. /\ caller' \in [Callers -> CallStates] /\ caller'[c] = r
        /\ \A d \in Callers \ {c} : caller'[d] = caller[d]
    BY <2>4, SetMoves DEF Typed
  <2>6. CallOK(c)'
    BY <2>2, <2>4, <2>5 DEF CallOK, Places, Grows
  <2> QED
    BY <2>1, <2>2, <2>5, <2>6, OneMoves DEF Typed, TypeOK, Shape
<1>13. CASE Use(c)
  <2>1. UNCHANGED <<pool, idle, unverified, inflight, slots, calls, faults>>
        /\ caller[c].conn \in DOMAIN conns
    BY <1>13 DEF Use, maps, bounds, At, CallOK
  <2>2. CASE Ends(c) /\ UNCHANGED conns
    BY <2>1, <2>2, StaysGrown, RestingOK, OneMoves DEF Typed, TypeOK, Shape
  <2>3. CASE Goto(c, "using") /\ conns' = [conns EXCEPT ![caller[c].conn].user = c]
    <3>1. conns[caller[c].conn] \in ConnStates
      BY <2>1, ElementOfSeq DEF Typed, Shape
    <3>2. [conns[caller[c].conn] EXCEPT !.user = c] \in ConnStates
      BY <3>1, ConnRecords
    <3>3. conns' = [conns EXCEPT ![caller[c].conn] = [conns[caller[c].conn] EXCEPT !.user = c]]
      BY <2>3
    <3>4. Grows /\ Len(conns') = Len(conns)
      BY <2>1, <3>2, <3>3, ConnChanges
    <3>5. /\ CallOK(c)' /\ caller' \in [Callers -> CallStates]
          /\ \A d \in Callers \ {c} : caller'[d] = caller[d]
      BY <1>13, <2>3, <3>4, GoesOn DEF Places, Use, At, CallOK
    <3> QED
      BY <2>1, <3>4, <3>5, OneMoves DEF Typed, TypeOK, Shape
  <2> QED
    BY <1>13, <2>2, <2>3 DEF Use
<1>14. CASE Return(c)
  <2>1. /\ UNCHANGED <<pool, idle, unverified, inflight, slots, calls, faults>>
        /\ caller[c].conn \in DOMAIN conns
        /\ conns' = [conns EXCEPT ![caller[c].conn].user = "none"] /\ Fails(c)
    BY <1>14 DEF Return, maps, bounds, At, CallOK, Fails
  <2>2. conns[caller[c].conn] \in ConnStates
    BY <2>1, ElementOfSeq DEF Typed, Shape
  <2>3. [conns[caller[c].conn] EXCEPT !.user = "none"] \in ConnStates
    BY <2>2, ConnRecords
  <2>4. conns' = [conns EXCEPT ![caller[c].conn] = [conns[caller[c].conn] EXCEPT !.user = "none"]]
    BY <2>1
  <2>5. Grows /\ Len(conns') = Len(conns)
    BY <2>1, <2>3, <2>4, ConnChanges
  <2> QED
    BY <2>1, <2>5, FailsOK, OneMoves DEF Typed, TypeOK, Shape
<1>15. CASE Invalidate(c)
  <2>1. /\ Grows /\ UNCHANGED <<idle, unverified, inflight, slots, conns, calls, faults>>
        /\ pool' = [pool EXCEPT ![Key(c)] = 0]
        /\ WithTodo(c, "close", caller[c].conn, {pool[Key(c)]} \ {0})
    BY <1>15, StaysGrown DEF Invalidate, bounds
  <2>2. PICK todo \in SUBSET (1..Len(conns)) : WithTodo(c, "close", caller[c].conn, todo)
    BY <2>1
  <2>3. todo \in SUBSET Nat /\ caller[c].conn \in Nat /\ "close" \in Places
    BY DEF Places, CallOK
  <2>4. /\ caller' \in [Callers -> CallStates] /\ caller'[c].pc = "close"
        /\ caller'[c].conn = caller[c].conn
        /\ caller'[c].todo = todo /\ caller'[c].key = caller[c].key
        /\ caller'[c].slot = caller[c].slot
        /\ \A d \in Callers \ {c} : caller'[d] = caller[d]
    BY <2>2, <2>3, WithTodoMoves DEF Typed
  <2>5. CallOK(c)'
    BY <2>1, <2>3, <2>4 DEF CallOK
  <2>6. pool' \in [Keys -> 0..Len(conns')]
    BY <2>1 DEF Typed, TypeOK
  <2> QED
    BY <2>1, <2>4, <2>5, <2>6, OneMoves DEF Typed, TypeOK, Shape
<1>16. CASE Closed(c)
  <2>1. Grows /\ UNCHANGED <<pool, idle, unverified, inflight, slots, conns, calls, faults>>
        /\ Ends(c)
    BY <1>16, StaysGrown DEF Closed, maps, bounds
  <2> QED
    BY <2>1, RestingOK, OneMoves DEF Typed, TypeOK, Shape
<1>17. CASE Supersede(c)
  <2>1. Grows /\ UNCHANGED <<pool, idle, unverified, inflight, slots, conns, calls, faults>>
    BY <1>17, StaysGrown DEF Supersede, maps, bounds
  <2>2. Set(c, [caller[c] EXCEPT !.aborted = TRUE])
    BY <1>17 DEF Supersede, Set
  <2>3. [caller[c] EXCEPT !.aborted = TRUE] \in CallStates
    BY DEF CallStates
  <2>4. /\ caller' \in [Callers -> CallStates] /\ caller'[c] = [caller[c] EXCEPT !.aborted = TRUE]
        /\ \A d \in Callers \ {c} : caller'[d] = caller[d]
    BY <2>2, <2>3, SetMoves DEF Typed
  <2>5. CallOK(c)'
    BY <2>1, <2>4 DEF CallOK, CallStates
  <2> QED
    BY <2>1, <2>4, <2>5, OneMoves DEF Typed, TypeOK, Shape
<1> QED
  BY <1>1, <1>2, <1>3, <1>4, <1>5, <1>6, <1>7, <1>8, <1>9, <1>10, <1>11, <1>12, <1>13, <1>14,
     <1>15, <1>16, <1>17 DEF CallerStep

\* Every step keeps the types.
LEMMA TypedStep == Typed /\ [Next]_vars => Typed'
<1> SUFFICES ASSUME Typed, [Next]_vars PROVE Typed'
  OBVIOUS
<1>1. ASSUME NEW k \in Keys, Age(k) PROVE Typed'
  BY <1>1 DEF Age, bounds, Typed, TypeOK, Shape, CallOK
<1>2. ASSUME NEW n \in DOMAIN conns, ServerDrops(n) PROVE Typed'
  <2>1. conns[n] \in ConnStates
    BY ElementOfSeq DEF Typed, Shape
  <2>2. [conns[n] EXCEPT !.up = FALSE] \in ConnStates
    BY <2>1, ConnRecords
  <2>3. conns' = [conns EXCEPT ![n] = [conns[n] EXCEPT !.up = FALSE]]
        /\ UNCHANGED <<maps, slots, caller, calls>> /\ faults' \in Nat
    BY <1>2 DEF ServerDrops, Typed, Shape
  <2>4. Grows /\ Len(conns') = Len(conns)
    BY <2>2, <2>3, ConnChanges
  <2>5. \A c \in Callers : CallOK(c)'
    BY <2>3, <2>4 DEF Typed, TypeOK, Shape, CallOK, Grows
  <2> QED
    BY <2>3, <2>4, <2>5 DEF maps, Grows, Typed, TypeOK, Shape, SlotStates, ConnStates
<1>3. CASE UNCHANGED vars
  BY <1>3 DEF vars, maps, bounds, Typed, TypeOK, Shape, CallOK
<1> QED
  BY <1>1, <1>2, <1>3, TypedMove DEF Next

\* The state of the pool always has its shape.
THEOREM TypeCorrect == Spec => []TypeOK
<1>1. Typed => TypeOK
  BY DEF Typed
<1> QED
  BY <1>1, TypedInit, TypedStep, PTL DEF Spec

(* ------------------------- one leader for each slot ----------------------- *)

\* What a step of caller c does to who leads.  It keeps its role and its slot; or it claims
\* its key with a new slot; or it resigns, and frees the key it owned; or, having given
\* up, it frees the key of a leader that may still be at work.
KeepsRole(c) ==
  /\ UNCHANGED <<slots, inflight>> /\ Leads(c)' = Leads(c)
  /\ Leads(c) => caller'[c].slot = caller[c].slot /\ caller'[c].key = caller[c].key

Claims(c) ==
  /\ ~Leads(c) /\ caller'[c].pc = "lookup" /\ caller'[c].slot = Len(slots) + 1
  /\ caller'[c].key = caller[c].key
  /\ Len(slots') = Len(slots) + 1 /\ slots'[Len(slots) + 1].state = "pending"
  /\ \A i \in DOMAIN slots : slots'[i] = slots[i]
  /\ inflight' = [inflight EXCEPT ![Key(c)] = Len(slots) + 1]

Releases(c) == inflight' = IF Owns(c) THEN [inflight EXCEPT ![Key(c)] = 0] ELSE inflight

Resigns(c) ==
  /\ Leads(c) /\ ~Leads(c)' /\ Releases(c)
  /\ Len(slots') = Len(slots) /\ \A i \in DOMAIN slots \ {caller[c].slot} : slots'[i] = slots[i]

Frees(c) == ~Leads(c) /\ ~Leads(c)' /\ UNCHANGED slots /\ Releases(c)

Roles(c) == KeepsRole(c) \/ Claims(c) \/ Resigns(c) \/ Frees(c)

Step(c) == CallerStep(c) \/ Panic(c) \/ GiveUp(c) \/ Start(c) \/ Supersede(c)

\* Where each step leaves the caller that takes it.
LEMMA EndsRole ==
  ASSUME Typed, NEW c \in Callers, Ends(c)
  PROVE  ~Leads(c)' /\ \A d \in Callers \ {c} : caller'[d] = caller[d]
  BY SetMoves, RestingState DEF Ends, Typed, Leads

\* A caller that moves keeps its slot and connection.
LEMMA GotoRole ==
  ASSUME Typed, NEW c \in Callers, NEW pc \in Places, Goto(c, pc)
  PROVE  /\ caller'[c].pc = pc /\ caller'[c].slot = caller[c].slot /\ caller'[c].key = caller[c].key
         /\ caller'[c].conn = caller[c].conn
         /\ \A d \in Callers \ {c} : caller'[d] = caller[d]
  BY GotoMoves DEF Typed

\* A caller that fails no longer leads.
LEMMA FailsRole ==
  ASSUME Typed, NEW c \in Callers, Fails(c)
  PROVE  ~Leads(c)' /\ \A d \in Callers \ {c} : caller'[d] = caller[d]
  BY EndsRole, GotoRole DEF Fails, Leads, Places

\* Each step has one of the four roles, and moves one caller.
LEMMA StepRoles ==
  ASSUME Typed, NEW c \in Callers, Step(c)
  PROVE  Roles(c) /\ \A d \in Callers \ {c} : caller'[d] = caller[d]
<1>0. /\ caller[c] \in CallStates /\ CallOK(c) /\ Key(c) \in Keys
      /\ DOMAIN slots = 1..Len(slots) /\ Len(slots) \in Nat
      /\ inflight[Key(c)] \in 0..Len(slots) /\ inflight \in [Keys -> 0..Len(slots)]
  BY CallerHas DEF Typed, TypeOK
<1>1. CASE Lookup(c)
  <2>1. UNCHANGED <<slots, inflight>>
    BY <1>1 DEF Lookup, maps
  <2>2. CASE Ends(c) /\ LooksFirst(c)
    BY <2>1, <2>2, EndsRole DEF LooksFirst, Leads, Roles, KeepsRole
  <2>3. CASE ~(caller[c].aborted /\ LooksFirst(c))
    <3>1. PICK n \in Nat,
               todo \in SUBSET Nat : Set(c, Looked(caller[c], unverified, Key(c), n, todo))
      <4> DEFINE gone == {pool[x] : x \in {y \in idle : pool[y] # 0}}
      <4>1. pool'[Key(c)] \in Nat /\ gone \in SUBSET Nat
        BY <1>0, <1>1, <2>3 DEF Lookup, Typed, TypeOK, Shape
      <4>2. Set(c, Looked(caller[c], unverified, Key(c), pool'[Key(c)], gone))
        BY <1>1, <2>3 DEF Lookup, Looked
      <4> HIDE DEF gone
      <4> QED
        BY <4>1, <4>2
    <3> DEFINE r == Looked(caller[c], unverified, Key(c), n, todo)
    <3>2. r \in CallStates /\ r.pc = "evict" /\ r.key = caller[c].key /\ r.slot = caller[c].slot
      BY <1>0, LookedUp
    <3>3. caller'[c] = r /\ \A d \in Callers \ {c} : caller'[d] = caller[d]
      BY <3>1, <3>2, SetMoves DEF Typed
    <3> HIDE DEF r
    <3> QED
      BY <1>1, <2>1, <3>2, <3>3 DEF Lookup, At, Leads, Roles, KeepsRole
  <2> QED
    BY <1>1, <2>2, <2>3 DEF Lookup
<1>2. CASE Disconnect(c)
  <2>1. PICK todo \in SUBSET caller[c].todo : Set(c, [caller[c] EXCEPT !.todo = todo])
    BY <1>2 DEF Disconnect
  <2>2. [caller[c] EXCEPT !.todo = todo] \in CallStates
    BY <1>0 DEF CallStates
  <2>3. /\ caller'[c] = [caller[c] EXCEPT !.todo = todo]
        /\ \A d \in Callers \ {c} : caller'[d] = caller[d]
    BY <2>1, <2>2, SetMoves DEF Typed
  <2>4. caller'[c].pc = caller[c].pc /\ caller'[c].slot = caller[c].slot
        /\ caller'[c].key = caller[c].key
    BY <1>0, <2>3 DEF CallStates
  <2> QED
    BY <1>2, <2>3, <2>4 DEF Disconnect, maps, Leads, Roles, KeepsRole
<1>3. CASE Found(c)
  <2>1. UNCHANGED <<slots, inflight>> /\ At(c, "evict")
    BY <1>3 DEF Found, maps
  <2>2. CASE Ends(c) /\ LooksFirst(c)
    BY <2>1, <2>2, EndsRole DEF LooksFirst, Leads, Roles, KeepsRole
  <2>3. ASSUME NEW pc \in {"claim", "handshake", "probe", "use", "finish"}, Goto(c, pc),
               LooksFirst(c) \/ pc \in {"handshake", "probe", "finish"}
        PROVE  Roles(c) /\ \A d \in Callers \ {c} : caller'[d] = caller[d]
    BY <2>1, <2>3, GotoRole DEF Places, LooksFirst, At, Leads, Roles, KeepsRole
  <2> QED
    BY <1>3, <2>2, <2>3 DEF Found
<1>4. CASE Probe(c)
  <2>1. UNCHANGED <<slots, inflight>> /\ At(c, "probe")
    BY <1>4 DEF Probe, maps
  <2>2. CASE Ends(c) /\ LooksFirst(c)
    BY <2>1, <2>2, EndsRole DEF LooksFirst, Leads, Roles, KeepsRole
  <2>3. CASE Goto(c, IF LooksFirst(c) THEN "use" ELSE "finish")
    BY <2>1, <2>3, GotoRole DEF Places, LooksFirst, At, Leads, Roles, KeepsRole
  <2>4. ASSUME NEW todo \in SUBSET Nat, WithTodo(c, "evict", 0, todo)
        PROVE  Roles(c) /\ \A d \in Callers \ {c} : caller'[d] = caller[d]
    <3>1. /\ caller'[c].pc = "evict" /\ caller'[c].key = caller[c].key
          /\ caller'[c].slot = caller[c].slot
          /\ \A d \in Callers \ {c} : caller'[d] = caller[d]
      BY <2>4, WithTodoMoves DEF Places, Typed
    <3> QED
      BY <2>1, <3>1 DEF At, Leads, Roles, KeepsRole
  <2>5. (IF pool[Key(c)] = caller[c].conn THEN {caller[c].conn} ELSE {}) \in SUBSET Nat
    BY <1>0 DEF CallStates
  <2> QED
    BY <1>4, <2>2, <2>3, <2>4, <2>5 DEF Probe
<1>5. CASE Claim(c)
  <2>1. At(c, "claim")
    BY <1>5 DEF Claim
  <2>2. CASE Ends(c) /\ UNCHANGED <<inflight, slots>>
    BY <2>1, <2>2, EndsRole DEF At, Leads, Roles, KeepsRole
  <2>3. CASE WithSlot(c, "wait", inflight[Key(c)]) /\ UNCHANGED <<inflight, slots>>
    <3>1. caller'[c].pc = "wait" /\ \A d \in Callers \ {c} : caller'[d] = caller[d]
      BY <1>0, <2>3, WithSlotMoves DEF Places, Typed
    <3> QED
      BY <2>1, <2>3, <3>1 DEF At, Leads, Roles, KeepsRole
  <2>4. CASE /\ slots' = Append(slots, [state |-> "pending", conn |-> 0])
             /\ inflight' = [inflight EXCEPT ![Key(c)] = Len(slots')]
             /\ WithSlot(c, "lookup", Len(slots'))
    <3>1. [state |-> "pending", conn |-> 0] \in SlotStates
      BY DEF SlotStates
    <3>2. /\ Len(slots') = Len(slots) + 1
          /\ slots'[Len(slots) + 1] = [state |-> "pending", conn |-> 0]
          /\ \A i \in 1..Len(slots) : slots'[i] = slots[i]
      BY <2>4, <3>1, AppendGrows DEF Typed, Shape
    <3>3. /\ caller'[c].pc = "lookup" /\ caller'[c].slot = Len(slots) + 1
          /\ caller'[c].key = caller[c].key
          /\ \A d \in Callers \ {c} : caller'[d] = caller[d]
      BY <1>0, <2>4, <3>2, WithSlotMoves DEF Places, Typed
    <3> QED
      BY <1>0, <2>1, <2>4, <3>2, <3>3 DEF At, Leads, Roles, Claims
  <2> QED
    BY <1>5, <2>2, <2>3, <2>4 DEF Claim
<1>6. CASE Handshake(c)
  <2>1. UNCHANGED <<slots, inflight>> /\ At(c, "handshake") /\ caller[c].slot # 0
    BY <1>0, <1>6 DEF Handshake, maps, At, CallOK
  <2>2. PICK n \in Nat : WithConn(c, "finish", n)
    <3>1. Len(conns) + 1 \in Nat
          /\ Len(Append(conns, [key |-> Key(c), open |-> TRUE, up |-> TRUE, user |-> "none"])) =
               Len(conns) + 1
      BY <1>0, AppendGrows DEF Typed, Shape, ConnStates
    <3> QED
      BY <1>6, <3>1 DEF Handshake
  <2>3. /\ caller'[c].pc = "finish" /\ caller'[c].key = caller[c].key
        /\ caller'[c].slot = caller[c].slot
        /\ \A d \in Callers \ {c} : caller'[d] = caller[d]
    BY <2>2, WithConnMoves DEF Places, Typed
  <2> QED
    BY <2>1, <2>3 DEF At, Leads, Roles, KeepsRole
<1>7. CASE Finish(c)
  <2> DEFINE n == caller[c].conn
             r == IF n # 0 /\ Owns(c) THEN Kept(Key(c), n) ELSE n
  <2>1. Releases(c) /\ Leads(c) /\ caller[c].slot \in DOMAIN slots
    BY <1>0, <1>7 DEF Finish, Releases, At, CallOK, Leads
  <2>2. r \in Nat
    BY <1>0 DEF Kept, CallOK, Typed, TypeOK
  <2>3. /\ slots' =
             [slots EXCEPT ![caller[c].slot] = [state |-> IF n = 0 THEN "failed" ELSE "ready", conn |-> r]]
        /\ IF n = 0 THEN Fails(c) ELSE WithConn(c, "use", r)
    BY <1>7 DEF Finish
  <2> HIDE DEF n, r
  <2>4. Len(slots') = Len(slots) /\ \A i \in DOMAIN slots \ {caller[c].slot} : slots'[i] = slots[i]
    BY <1>0, <2>1, <2>3 DEF Typed, Shape
  <2>5. ~Leads(c)' /\ \A d \in Callers \ {c} : caller'[d] = caller[d]
    BY <2>2, <2>3, FailsRole, WithConnMoves DEF Leads, Places, Typed
  <2> QED
    BY <2>1, <2>4, <2>5 DEF Roles, Resigns
<1>8. CASE Panic(c)
  <2>1. Releases(c) /\ Leads(c) /\ caller[c].slot \in DOMAIN slots /\ Ends(c)
    BY <1>0, <1>8 DEF Panic, Releases, At, CallOK, Leads
  <2>2. Len(slots') = Len(slots) /\ \A i \in DOMAIN slots \ {caller[c].slot} : slots'[i] = slots[i]
    BY <1>0, <1>8, <2>1 DEF Panic, Typed, Shape
  <2> QED
    BY <2>1, <2>2, EndsRole DEF Roles, Resigns
<1>9. CASE Follow(c)
  <2>1. UNCHANGED <<slots, inflight>> /\ ~Leads(c)
    BY <1>9 DEF Follow, maps, At, Leads
  <2>2. CASE WithConn(c, "use", slots[caller[c].slot].conn)
    <3>1. slots[caller[c].slot].conn \in Nat
      BY <1>0, <1>9 DEF Follow, At, CallOK, Typed, TypeOK, Shape
    <3> QED
      BY <2>1, <2>2, <3>1, WithConnMoves DEF Leads, Places, Typed, Roles, KeepsRole
  <2> QED
    <3>1. Ends(c) \/ Fails(c) \/ WithConn(c, "use", slots[caller[c].slot].conn)
      BY <1>9 DEF Follow
    <3>2. CASE Ends(c) \/ Fails(c)
      <4>1. ~Leads(c)' /\ \A d \in Callers \ {c} : caller'[d] = caller[d]
        BY <3>2, EndsRole, FailsRole
      <4> QED
        BY <2>1, <4>1 DEF Leads, Roles, KeepsRole
    <3> QED
      BY <2>2, <3>1, <3>2
<1>10. CASE GiveUp(c)
  BY <1>10, GotoRole DEF GiveUp, maps, At, Leads, Places, Roles, KeepsRole
<1>11. CASE FreeKey(c)
  BY <1>11, GotoRole DEF FreeKey, At, Leads, Places, Roles, Frees, Releases
<1>12. CASE Start(c)
  <2>1. UNCHANGED <<slots, inflight>> /\ ~Leads(c)
    BY <1>12 DEF Start, maps, At, Leads
  <2>2. PICK r : Set(c, r) /\ r \in CallStates /\ r.slot = 0
    <3>1. PICK k, listing, pc, r :
            /\ k \in Keys /\ listing \in BOOLEAN /\ pc \in {"lookup", "invalidate"}
            /\ Set(c, r) /\ r = [Resting EXCEPT !.pc = pc, !.key = k, !.abortable = listing]
      BY <1>12 DEF Start
    <3>2. r \in CallStates /\ r.slot = 0
      BY <3>1, RestingState DEF CallStates, Places
    <3> QED
      BY <3>1, <3>2
  <2> QED
    BY <2>1, <2>2, SetMoves DEF Typed, Leads, Roles, KeepsRole
<1>13. CASE Use(c)
  BY <1>13, EndsRole, GotoRole DEF Use, maps, At, Leads, Places, Roles, KeepsRole
<1>14. CASE Return(c)
  BY <1>14, FailsRole DEF Return, Fails, maps, At, Leads, Roles, KeepsRole
<1>15. CASE Invalidate(c)
  <2>1. {pool[Key(c)]} \ {0} \in SUBSET Nat /\ caller[c].conn \in Nat
    BY <1>0 DEF Typed, TypeOK, CallStates
  <2> QED
    BY <1>15, <2>1, WithTodoMoves DEF Invalidate, Typed, At, Leads, Places, Roles, KeepsRole
<1>16. CASE Closed(c)
  BY <1>16, EndsRole DEF Closed, maps, At, Leads, Roles, KeepsRole
<1>17. CASE Supersede(c)
  <2>1. caller' = [caller EXCEPT ![c] = [caller[c] EXCEPT !.aborted = TRUE]]
        /\ UNCHANGED <<slots, inflight>>
    BY <1>17 DEF Supersede, maps
  <2>2. /\ caller'[c].pc = caller[c].pc /\ caller'[c].slot = caller[c].slot
        /\ caller'[c].key = caller[c].key
        /\ \A d \in Callers \ {c} : caller'[d] = caller[d]
    BY <1>0, <2>1 DEF Typed, Shape, CallStates
  <2> QED
    BY <2>1, <2>2 DEF Leads, Roles, KeepsRole
<1> QED
  BY <1>1, <1>2, <1>3, <1>4, <1>5, <1>6, <1>7, <1>8, <1>9, <1>10, <1>11, <1>12, <1>13, <1>14,
     <1>15, <1>16, <1>17 DEF Step, CallerStep

\* Nobody leads at first.
LEMMA LeadersInit == Init => LeadersAlone
  BY RestingState DEF Init, LeadersAlone, Leads

\* Whatever role a step has, slots keep their one leader and claimed keys keep theirs.
LEMMA LeadersMove ==
  ASSUME Typed, LeadersAlone, NEW c \in Callers, Step(c)
  PROVE  LeadersAlone'
<1>0. /\ DOMAIN slots = 1..Len(slots) /\ Len(slots) \in Nat /\ inflight \in [Keys -> 0..Len(slots)]
      /\ \A d \in Callers : caller[d].slot \in 0..Len(slots) /\ Key(d) \in Keys
  BY CallerHas DEF Typed, TypeOK, CallOK
<1>1. \A d \in Callers \ {c} : caller'[d] = caller[d] /\ Leads(d)' = Leads(d) /\ Key(d)' = Key(d)
  BY StepRoles DEF Leads, Key
<1>2. CASE KeepsRole(c)
  BY <1>1, <1>2 DEF KeepsRole, LeadersAlone, Leads, Key
<1>3. CASE Claims(c)
  <2>1. /\ Leads(c)' /\ caller'[c].slot = Len(slots) + 1 /\ Key(c)' = Key(c)
        /\ slots'[Len(slots) + 1].state = "pending"
    BY <1>0, <1>3 DEF Claims, Leads, Key
  <2>2. \A d \in Callers \ {c} : Leads(d) =>
          caller[d].slot \in DOMAIN slots /\ caller[d].slot # Len(slots) + 1
    BY <1>0 DEF Leads
  <2>3. \A d \in Callers : Leads(d)' => slots'[caller'[d].slot].state = "pending"
    BY <1>1, <1>3, <2>1, <2>2 DEF Claims, LeadersAlone
  <2>4. \A d, e \in Callers : Leads(d)' /\ Leads(e)' /\ caller'[d].slot = caller'[e].slot => d = e
    BY <1>1, <2>1, <2>2 DEF LeadersAlone
  <2>5. ASSUME NEW k \in Keys, inflight'[k] # 0
        PROVE  \E d \in Callers : Leads(d)' /\ caller'[d].slot = inflight'[k] /\ Key(d)' = k
    <3>1. CASE k = Key(c)
      BY <1>0, <1>3, <2>1, <3>1 DEF Claims
    <3>2. CASE k # Key(c)
      <4>1. inflight'[k] = inflight[k]
        BY <1>0, <1>3, <3>2 DEF Claims
      <4>2. PICK d \in Callers : Leads(d) /\ caller[d].slot = inflight[k] /\ Key(d) = k
        BY <2>5, <4>1 DEF LeadersAlone
      <4>3. d # c
        BY <1>3, <4>2 DEF Claims
      <4> QED
        BY <1>1, <4>1, <4>2, <4>3
    <3> QED
      BY <3>1, <3>2
  <2> QED
    BY <2>3, <2>4, <2>5 DEF LeadersAlone
<1>4. ASSUME ~Leads(c)', Releases(c),
             \/ UNCHANGED slots /\ ~Leads(c)
             \/ Leads(c) /\ \A i \in DOMAIN slots \ {caller[c].slot} : slots'[i] = slots[i]
      PROVE  LeadersAlone'
  <2>1. \A d \in Callers \ {c} : Leads(d) => caller[d].slot \in DOMAIN slots
    BY <1>0 DEF Leads
  <2>2. \A d \in Callers \ {c} : Leads(d) => slots'[caller[d].slot] = slots[caller[d].slot]
    BY <1>4, <2>1 DEF LeadersAlone
  <2>3. \A d \in Callers : Leads(d)' => slots'[caller'[d].slot].state = "pending"
    BY <1>1, <1>4, <2>2 DEF LeadersAlone
  <2>4. \A d, e \in Callers : Leads(d)' /\ Leads(e)' /\ caller'[d].slot = caller'[e].slot => d = e
    BY <1>1, <1>4 DEF LeadersAlone
  <2>5. ASSUME NEW k \in Keys, inflight'[k] # 0
        PROVE  \E d \in Callers : Leads(d)' /\ caller'[d].slot = inflight'[k] /\ Key(d)' = k
    <3>1. inflight'[k] = inflight[k] /\ (k = Key(c) => ~Owns(c))
      BY <1>0, <1>4, <2>5 DEF Releases
    <3>2. PICK d \in Callers : Leads(d) /\ caller[d].slot = inflight[k] /\ Key(d) = k
      BY <2>5, <3>1 DEF LeadersAlone
    <3>3. d # c
      BY <3>1, <3>2 DEF Owns
    <3> QED
      BY <1>1, <3>1, <3>2, <3>3
  <2> QED
    BY <2>3, <2>4, <2>5 DEF LeadersAlone
<1> QED
  BY <1>2, <1>3, <1>4, StepRoles DEF Roles, Resigns, Frees

\* The environment leaves the slots, the claims and the callers alone.
LEMMA LeadersStep == Typed /\ LeadersAlone /\ [Next]_vars => LeadersAlone'
<1> SUFFICES ASSUME Typed, LeadersAlone, [Next]_vars PROVE LeadersAlone'
  OBVIOUS
<1>1. ASSUME UNCHANGED <<slots, inflight, caller>> PROVE LeadersAlone'
  BY <1>1 DEF LeadersAlone, Leads, Key
<1>2. ASSUME NEW k \in Keys, Age(k) PROVE LeadersAlone'
  BY <1>1, <1>2 DEF Age
<1>3. ASSUME NEW n \in DOMAIN conns, ServerDrops(n) PROVE LeadersAlone'
  BY <1>1, <1>3 DEF ServerDrops, maps
<1>4. CASE UNCHANGED vars
  BY <1>1, <1>4 DEF vars, maps
<1> QED
  BY <1>2, <1>3, <1>4, LeadersMove DEF Next, Step

\* In every state, then.
LEMMA LeadersAlways == Spec => []LeadersAlone
  BY LeadersInit, LeadersStep, TypedInit, TypedStep, PTL DEF Spec

\* A claimed key has exactly one leader, at work on a pending slot: nobody waits on a slot
\* that no one will resolve (sftp_pool.rs, ConnectLeaderGuard).
THEOREM SlotsAreLed == Spec => []SlotHasLeader
<1>1. LeadersAlone => SlotHasLeader
  <2> SUFFICES ASSUME LeadersAlone, NEW k \in Keys, inflight[k] # 0
               PROVE  /\ slots[inflight[k]].state = "pending"
                      /\ Cardinality({c \in Callers : Leads(c) /\ caller[c].slot = inflight[k]}) = 1
    BY DEF SlotHasLeader
  <2>1. PICK c \in Callers : Leads(c) /\ caller[c].slot = inflight[k]
    BY DEF LeadersAlone
  <2>2. {d \in Callers : Leads(d) /\ caller[d].slot = inflight[k]} = {c}
    BY <2>1 DEF LeadersAlone
  <2>3. slots[inflight[k]].state = "pending"
    BY <2>1 DEF LeadersAlone
  <2> QED
    BY <2>2, <2>3, FS_Singleton
<1> QED
  BY <1>1, LeadersAlways, PTL

(* ------------------------- what the pool has for a key -------------------- *)

\* Only the leader of the current generation fills a key, and only an empty one.
LEMMA PoolMoves ==
  ASSUME Typed, NEW c \in Callers, Step(c), NEW k \in Keys
  PROVE  \/ pool'[k] \in {0, pool[k]}
         \/ pool[k] = 0 /\ k = Key(c) /\ At(c, "finish") /\ Owns(c)
<1>0. pool \in [Keys -> 0..Len(conns)] /\ Key(c) \in Keys
  BY CallerHas DEF Typed, TypeOK
<1>1. CASE Lookup(c)
  BY <1>0, <1>1 DEF Lookup, maps
<1>2. CASE Probe(c)
  BY <1>0, <1>2 DEF Probe, maps
<1>3. CASE Finish(c)
  BY <1>0, <1>3 DEF Finish, Kept
<1>4. CASE Invalidate(c)
  BY <1>0, <1>4 DEF Invalidate
<1>5. CASE UNCHANGED pool
  BY <1>5
<1> QED
  BY <1>1, <1>2, <1>3, <1>4, <1>5 DEF Step, CallerStep, Disconnect, Found, Claim, Handshake, Follow,
     FreeKey, Use, Return, Closed, Panic, GiveUp, Start, Supersede, maps

\* An entry gives way to another one only by being removed first.
THEOREM EntriesStay == Spec => NeverDisplaced
<1>1. Typed /\ [Next]_vars =>
        [\A k \in Keys : pool[k] # 0 /\ pool'[k] # 0 => pool'[k] = pool[k]]_pool
  <2> SUFFICES ASSUME Typed, [Next]_vars, NEW k \in Keys, pool[k] # 0, pool'[k] # 0, pool' # pool
               PROVE  pool'[k] = pool[k]
    OBVIOUS
  <2>1. ASSUME NEW x \in Keys, Age(x) PROVE FALSE
    BY <2>1 DEF Age
  <2>2. ASSUME NEW n \in DOMAIN conns, ServerDrops(n) PROVE FALSE
    BY <2>2 DEF ServerDrops, maps
  <2>3. CASE UNCHANGED vars
    BY <2>3 DEF vars, maps
  <2> QED
    BY <2>1, <2>2, <2>3, PoolMoves DEF Next, Step
<1> QED
  BY <1>1, TypedInit, TypedStep, PTL DEF Spec, NeverDisplaced

(* --------------------- what a leader knows of the pool -------------------- *)

\* A leader that looks: what its own step leaves it with.
Informed(c) ==
  /\ At(c, "handshake") => caller[c].conn = 0
  /\ Leads(c) /\ Owns(c) /\ caller[c].pc \in {"evict", "probe", "handshake"} =>
       pool[Key(c)] \in {0, caller[c].conn}

\* What a step leaves its own caller with.
LEMMA LookingMove ==
  ASSUME Typed, LooksAgain, NEW c \in Callers, Step(c)
  PROVE  Informed(c)'
<1>0. /\ caller[c] \in CallStates /\ CallOK(c) /\ Key(c) \in Keys
      /\ pool \in [Keys -> 0..Len(conns)]
  BY CallerHas DEF Typed, TypeOK
<1>1. ASSUME caller'[c].pc \notin {"evict", "probe", "handshake"} PROVE Informed(c)'
  BY <1>1 DEF At, Informed
<1>2. ASSUME Ends(c) \/ Fails(c) PROVE Informed(c)'
  <2>1. caller'[c].pc \in {"rest", "invalidate"}
    BY <1>2, SetMoves, RestingState, GotoRole DEF Ends, Fails, Places, Typed
  <2> QED
    BY <1>1, <2>1
<1>3. ASSUME NEW pc \in Places \ {"evict", "probe", "handshake"}, Goto(c, pc) PROVE Informed(c)'
  BY <1>1, <1>3, GotoRole
\* A caller that has looked and goes on with what it saw.
<1>4. ASSUME UNCHANGED <<pool, inflight>>, caller[c].pc \in {"evict", "probe", "handshake"},
             caller'[c].key = caller[c].key, caller'[c].slot = caller[c].slot,
             caller'[c].conn = caller[c].conn, At(c, "handshake")' => caller[c].conn = 0
      PROVE  Informed(c)'
  BY <1>4 DEF LooksAgain, Informed, Leads, Owns, Key, At
<1>5. CASE Lookup(c)
  <2>1. CASE Ends(c)
    BY <1>2, <2>1
  <2>2. CASE ~(caller[c].aborted /\ LooksFirst(c))
    <3>1. PICK todo \in SUBSET Nat :
                 Set(c, Looked(caller[c], unverified, Key(c), pool'[Key(c)], todo))
      <4> DEFINE gone == {pool[x] : x \in {y \in idle : pool[y] # 0}}
      <4>1. gone \in SUBSET Nat
        BY <1>0, <2>2 DEF Typed, TypeOK, Shape
      <4>2. Set(c, Looked(caller[c], unverified, Key(c), pool'[Key(c)], gone))
        BY <1>5, <2>2 DEF Lookup, Looked
      <4> HIDE DEF gone
      <4> QED
        BY <4>1, <4>2
    <3>2. pool'[Key(c)] \in Nat
      BY <1>0, <1>5, <2>2 DEF Lookup
    <3> DEFINE r == Looked(caller[c], unverified, Key(c), pool'[Key(c)], todo)
    <3>3. r \in CallStates /\ r.pc = "evict" /\ r.key = caller[c].key /\ r.conn = pool'[Key(c)]
      BY <1>0, <3>2, LookedUp
    <3>4. caller'[c] = r
      BY <3>1, <3>3, SetMoves DEF Typed
    <3> HIDE DEF r
    <3> QED
      BY <3>3, <3>4 DEF At, Key, Informed
  <2> QED
    BY <1>5, <2>1, <2>2 DEF Lookup
<1>6. CASE Disconnect(c)
  <2>1. PICK todo \in SUBSET caller[c].todo : Set(c, [caller[c] EXCEPT !.todo = todo])
    BY <1>6 DEF Disconnect
  <2>2. [caller[c] EXCEPT !.todo = todo] \in CallStates
    BY <1>0 DEF CallStates
  <2>3. caller'[c] = [caller[c] EXCEPT !.todo = todo]
    BY <2>1, <2>2, SetMoves DEF Typed
  <2>4. /\ caller'[c].pc = caller[c].pc /\ caller'[c].slot = caller[c].slot
        /\ caller'[c].key = caller[c].key /\ caller'[c].conn = caller[c].conn
    BY <1>0, <2>3 DEF CallStates
  <2>5. caller[c].pc \in {"evict", "close"} /\ UNCHANGED <<pool, inflight>>
    BY <1>6 DEF Disconnect, maps
  <2>6. CASE caller[c].pc = "evict"
    BY <1>4, <2>4, <2>5, <2>6 DEF At
  <2>7. CASE caller[c].pc = "close"
    BY <1>1, <2>4, <2>7
  <2> QED
    BY <2>5, <2>6, <2>7
<1>7. CASE Found(c)
  <2>1. UNCHANGED <<pool, inflight>> /\ At(c, "evict")
    BY <1>7 DEF Found, maps
  <2>2. ASSUME NEW pc \in {"handshake", "probe"}, Goto(c, pc),
               pc = "handshake" => caller[c].conn = 0
        PROVE  Informed(c)'
    BY <1>4, <2>1, <2>2, GotoRole DEF At, Places
  <2> QED
    BY <1>2, <1>3, <1>7, <2>2 DEF Found, Places
<1>8. CASE Probe(c)
  <2>1. UNCHANGED inflight /\ At(c, "probe")
    BY <1>8 DEF Probe, maps
  <2>2. CASE Ends(c) \/ Goto(c, IF LooksFirst(c) THEN "use" ELSE "finish")
    BY <1>2, <1>3, <2>2 DEF Places
  <2>3. CASE /\ pool' = IF pool[Key(c)] = caller[c].conn THEN [pool EXCEPT ![Key(c)] = 0] ELSE pool
             /\ WithTodo(c, "evict", 0, IF pool[Key(c)] = caller[c].conn THEN {caller[c].conn} ELSE {})
    <3>1. (IF pool[Key(c)] = caller[c].conn THEN {caller[c].conn} ELSE {}) \in SUBSET Nat
      BY <1>0 DEF CallStates
    <3>2. /\ caller'[c].pc = "evict" /\ caller'[c].key = caller[c].key
          /\ caller'[c].slot = caller[c].slot /\ caller'[c].conn = 0
      BY <2>3, <3>1, WithTodoMoves DEF Places, Typed
    <3>3. pool'[Key(c)] = IF pool[Key(c)] = caller[c].conn THEN 0 ELSE pool[Key(c)]
      BY <1>0, <2>3
    <3>4. Leads(c) /\ Owns(c) => pool[Key(c)] \in {0, caller[c].conn}
      BY <2>1 DEF LooksAgain, At
    <3> QED
      BY <2>1, <3>2, <3>3, <3>4 DEF Informed, At, Key, Owns, Leads
  <2> QED
    BY <1>8, <2>2, <2>3 DEF Probe
<1>9. CASE Claim(c)
  <2>1. CASE WithSlot(c, "wait", inflight[Key(c)])
    <3>1. inflight[Key(c)] \in Nat
      BY <1>0 DEF Typed, TypeOK, Shape
    <3>2. caller'[c].pc = "wait"
      BY <2>1, <3>1, WithSlotMoves DEF Places, Typed
    <3> QED
      BY <1>1, <3>2
  <2>2. CASE WithSlot(c, "lookup", Len(slots'))
             /\ slots' = Append(slots, [state |-> "pending", conn |-> 0])
    <3>1. Len(slots') \in Nat
      BY <2>2, AppendGrows DEF Typed, Shape, SlotStates
    <3>2. caller'[c].pc = "lookup"
      BY <2>2, <3>1, WithSlotMoves DEF Places, Typed
    <3> QED
      BY <1>1, <3>2
  <2> QED
    BY <1>2, <1>9, <2>1, <2>2 DEF Claim
<1>10. ASSUME NEW pc \in {"finish", "use"}, NEW n \in Nat, WithConn(c, pc, n) PROVE Informed(c)'
  BY <1>1, <1>10, WithConnMoves DEF Places, Typed
<1>11. CASE Handshake(c)
  <2>1. Len(conns) + 1 \in Nat
        /\ Len(Append(conns, [key |-> Key(c), open |-> TRUE, up |-> TRUE, user |-> "none"])) =
             Len(conns) + 1
    BY <1>0, AppendGrows DEF Typed, Shape, ConnStates
  <2> QED
    BY <1>10, <1>11, <2>1 DEF Handshake
<1>12. CASE Finish(c)
  <2> DEFINE n == caller[c].conn
             r == IF n # 0 /\ Owns(c) THEN Kept(Key(c), n) ELSE n
  <2>1. r \in Nat
    BY <1>0 DEF Kept, CallOK, Typed, TypeOK
  <2>2. IF n = 0 THEN Fails(c) ELSE WithConn(c, "use", r)
    BY <1>12 DEF Finish
  <2> HIDE DEF n, r
  <2> QED
    BY <1>2, <1>10, <2>1, <2>2
<1>13. CASE Follow(c)
  <2>1. slots[caller[c].slot].conn \in Nat
    BY <1>0, <1>13 DEF Follow, At, CallOK, Typed, TypeOK, Shape
  <2> QED
    BY <1>2, <1>10, <1>13, <2>1 DEF Follow
<1>14. CASE Start(c)
  <2>1. PICK k, listing, pc, r :
          /\ k \in Keys /\ listing \in BOOLEAN /\ pc \in {"lookup", "invalidate"}
          /\ Set(c, r) /\ r = [Resting EXCEPT !.pc = pc, !.key = k, !.abortable = listing]
    BY <1>14 DEF Start
  <2>2. r \in CallStates /\ r.pc \in {"lookup", "invalidate"}
    BY <2>1, RestingState DEF CallStates, Places
  <2> QED
    BY <1>1, <2>1, <2>2, SetMoves DEF Typed
<1>15. CASE Invalidate(c)
  <2>1. {pool[Key(c)]} \ {0} \in SUBSET Nat /\ caller[c].conn \in Nat
    BY <1>0 DEF Typed, TypeOK, CallStates
  <2>2. caller'[c].pc = "close"
    BY <1>15, <2>1, WithTodoMoves DEF Invalidate, Typed, Places
  <2> QED
    BY <1>1, <2>2
<1>16. CASE Supersede(c)
  <2>1. caller' = [caller EXCEPT ![c] = [caller[c] EXCEPT !.aborted = TRUE]]
        /\ UNCHANGED <<pool, inflight>>
    BY <1>16 DEF Supersede, maps
  <2>2. /\ caller'[c].pc = caller[c].pc /\ caller'[c].slot = caller[c].slot
        /\ caller'[c].key = caller[c].key /\ caller'[c].conn = caller[c].conn
    BY <1>0, <2>1 DEF Typed, Shape, CallStates
  <2>3. CASE caller[c].pc \in {"evict", "probe", "handshake"}
    BY <1>4, <2>1, <2>2, <2>3 DEF LooksAgain, At
  <2> QED
    BY <1>1, <2>2, <2>3
<1>17. CASE Panic(c) \/ GiveUp(c) \/ FreeKey(c) \/ Use(c) \/ Return(c) \/ Closed(c)
  BY <1>2, <1>3, <1>17 DEF Panic, GiveUp, FreeKey, Use, Return, Closed, Places
<1> QED
  BY <1>5, <1>6, <1>7, <1>8, <1>9, <1>11, <1>12, <1>13, <1>14, <1>15, <1>16, <1>17
     DEF Step, CallerStep

\* The step of another caller: who still leads an owned key led it before, and only it
\* may have filled the key.
LEMMA OthersStayInformed ==
  ASSUME Typed, LeadersAlone, LooksAgain, NEW c \in Callers, Step(c), NEW d \in Callers \ {c}
  PROVE  Informed(d)'
<1>0. /\ caller[d].slot \in 0..Len(slots) /\ Len(slots) \in Nat /\ Key(d) \in Keys
      /\ Key(c) \in Keys
      /\ inflight \in [Keys -> 0..Len(slots)]
  BY CallerHas DEF Typed, TypeOK, CallOK
<1>1. caller'[d] = caller[d] /\ Leads(d)' = Leads(d) /\ Key(d)' = Key(d) /\ Roles(c)
  BY StepRoles DEF Leads, Key
<1>2. ASSUME Leads(d), Owns(d)' PROVE Owns(d)
  <2>1. inflight'[Key(d)] = caller[d].slot /\ caller[d].slot # 0 /\ caller[d].slot # Len(slots) + 1
    BY <1>0, <1>1, <1>2 DEF Owns, Leads
  <2>2. inflight'[Key(d)] \in {inflight[Key(d)], 0, Len(slots) + 1}
    BY <1>0, <1>1 DEF Roles, KeepsRole, Claims, Resigns, Frees, Releases
  <2> QED
    BY <2>1, <2>2 DEF Owns
<1>3. ASSUME Leads(d), Owns(d), caller[d].pc \in {"evict", "probe", "handshake"}
      PROVE  pool'[Key(d)] \in {0, caller[d].conn}
  <2>1. pool[Key(d)] \in {0, caller[d].conn}
    BY <1>3 DEF LooksAgain
  <2>2. ASSUME Key(d) = Key(c), At(c, "finish"), Owns(c) PROVE FALSE
    <3>1. Leads(c) /\ caller[c].slot = caller[d].slot
      BY <1>3, <2>2 DEF Owns, Leads, At
    <3> QED
      BY <1>3, <3>1 DEF LeadersAlone
  <2> QED
    BY <1>0, <2>1, <2>2, PoolMoves
<1> QED
  BY <1>1, <1>2, <1>3 DEF Informed, LooksAgain, At

\* Nobody has looked at first.
LEMMA LookingInit == Init => LooksAgain
  BY RestingState DEF Init, LooksAgain, Leads, At

\* Each step keeps what leaders know.
LEMMA LookingStep == Typed /\ LeadersAlone /\ LooksAgain /\ [Next]_vars => LooksAgain'
<1> SUFFICES ASSUME Typed, LeadersAlone, LooksAgain, [Next]_vars PROVE LooksAgain'
  OBVIOUS
<1>1. ASSUME UNCHANGED <<pool, inflight, caller>> PROVE LooksAgain'
  BY <1>1 DEF LooksAgain, Leads, Owns, Key, At
<1>2. ASSUME NEW k \in Keys, Age(k) PROVE LooksAgain'
  BY <1>1, <1>2 DEF Age
<1>3. ASSUME NEW n \in DOMAIN conns, ServerDrops(n) PROVE LooksAgain'
  BY <1>1, <1>3 DEF ServerDrops, maps
<1>4. CASE UNCHANGED vars
  BY <1>1, <1>4 DEF vars, maps
<1>5. ASSUME NEW c \in Callers, Step(c) PROVE LooksAgain'
  <2>1. \A d \in Callers : Informed(d)'
    BY <1>5, LookingMove, OthersStayInformed
  <2> QED
    BY <2>1 DEF Informed, LooksAgain
<1> QED
  BY <1>2, <1>3, <1>4, <1>5 DEF Next, Step

\* Nobody handshakes for a key that has a connection, unless it was given up on: the leader
\* of the current generation looks again after it claimed (sftp_pool.rs, get_with_abort).
THEOREM NoHandshakeTwice == Spec => []NoRedundantHandshake
<1>1. Typed /\ LooksAgain => NoRedundantHandshake
  <2> SUFFICES ASSUME Typed, LooksAgain, NEW c \in Callers, At(c, "handshake"), Owns(c)
               PROVE  pool[Key(c)] = 0
    BY DEF NoRedundantHandshake
  <2>1. Leads(c)
    BY CallerHas DEF At, Leads, CallOK, Typed, TypeOK
  <2> QED
    BY <2>1 DEF LooksAgain, At
<1> QED
  BY <1>1, LookingInit, LookingStep, LeadersInit, LeadersStep, TypedInit, TypedStep, PTL DEF Spec
===========
