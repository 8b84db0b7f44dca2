-------------------------------- MODULE SftpPool ---------------------------------
(* The pool of SFTP connections and the callers that share it.
   Source: src/src-tauri/src/{sftp_pool,connection,remote_fs}.rs.

   A caller looks its key up, probes a connection that was not verified lately, and on
   a miss claims the handshake of the key: the first caller leads, the others follow
   and wait on the leader's slot.  The two maps have a lock each: `sessions` (here pool,
   idle, unverified) and `in_flight`.  A connection is a mutex of its own, held
   while it is used, probed or disconnected, and never while a map is locked.

   A followed handshake may take longer than its followers wait: the first to give up
   frees the key, and a late leader is then one of an older generation. *)

EXTENDS Naturals, Sequences, FiniteSets

CONSTANTS Callers,   \* threads that use the pool
          Keys,      \* what makes two connections the same connection
          MaxCalls,  \* bound: calls made
          MaxFaults  \* bound: connections the server drops, panics and time-outs

ASSUME CallAssumption == MaxCalls \in Nat /\ MaxFaults \in Nat
ASSUME KeyAssumption  == Keys # {}

VARIABLES
  pool,        \* sessions: the connection of each key (0: none)
  idle,        \* keys whose entry was last used longer than SFTP_POOL_IDLE_TTL ago
  unverified,  \* keys whose entry was verified longer than SFTP_POOL_HEALTH_CHECK_IDLE ago
  inflight,    \* in_flight: the slot of each key (0: none)
  slots,       \* ConnectState of each slot there was
  conns,       \* each connection there was
  caller,      \* the control of each caller
  calls, faults

maps   == <<pool, idle, unverified, inflight>>
bounds == <<calls, faults>>
vars   == <<maps, slots, conns, caller, bounds>>

Resting == [pc |-> "rest", key |-> CHOOSE k \in Keys : TRUE, conn |-> 0, slot |-> 0,
            todo |-> {}, probes |-> FALSE, abortable |-> FALSE, aborted |-> FALSE]

At(c, pc)        == caller[c].pc = pc
Key(c)           == caller[c].key
Set(c, r)        == caller' = [caller EXCEPT ![c] = r]
Goto(c, pc)      == caller' = [caller EXCEPT ![c].pc = pc]
WithConn(c, pc, n) == caller' = [caller EXCEPT ![c].pc = pc, ![c].conn = n]
WithSlot(c, pc, s) == caller' = [caller EXCEPT ![c].pc = pc, ![c].slot = s]
\* The caller has found n, and todo is what it disconnects first.
WithTodo(c, pc, n, todo) == caller' = [caller EXCEPT ![c].pc = pc, ![c].conn = n, ![c].todo = todo]
Ends(c)          == Set(c, Resting)
\* A call that fails invalidates the key if is_connection_error says so.
Fails(c)         == Ends(c) \/ Goto(c, "invalidate")
LooksFirst(c)    == caller[c].slot = 0
Alive(n)         == conns[n].open /\ conns[n].up
Locked(n)        == conns[n].user # "none"

(* -------------------------------- get_with_abort -------------------------- *)

\* The first half, under the sessions lock: sweep what is idle, find what is wanted.
Lookup(c) ==
  /\ At(c, "lookup")
  /\ LET k == Key(c)
         swept == {x \in idle : pool[x] # 0} IN
     IF caller[c].aborted /\ LooksFirst(c)
     THEN Ends(c) /\ UNCHANGED maps
     ELSE /\ pool' = [x \in Keys |-> IF x \in swept THEN 0 ELSE pool[x]]
          /\ idle' = idle \ (swept \cup {k})
          /\ unverified' = unverified \ swept
          /\ Set(c, [caller[c] EXCEPT !.pc = "evict", !.conn = pool'[k],
                                      !.probes = k \in unverified,
                                      !.todo = {pool[x] : x \in swept}])
          /\ UNCHANGED inflight
  /\ UNCHANGED <<slots, conns, bounds>>

\* disconnect_entries: each entry waits for whoever uses its connection.
Disconnect(c) ==
  /\ caller[c].pc \in {"evict", "close"}
  /\ \E n \in caller[c].todo :
       /\ ~Locked(n)
       /\ conns' = [conns EXCEPT ![n].open = FALSE]
       /\ Set(c, [caller[c] EXCEPT !.todo = @ \ {n}])
  /\ UNCHANGED <<maps, slots, bounds>>

\* What follows a lookup: a hit is used, or published by the leader that looked again.
Found(c) ==
  /\ At(c, "evict") /\ caller[c].todo = {}
  /\ IF caller[c].aborted /\ LooksFirst(c) THEN Ends(c)
     ELSE Goto(c, IF caller[c].conn = 0 THEN IF LooksFirst(c) THEN "claim" ELSE "handshake"
                  ELSE IF caller[c].probes THEN "probe"
                  ELSE IF LooksFirst(c) THEN "use" ELSE "finish")
  /\ UNCHANGED <<maps, slots, conns, bounds>>

\* connection_is_healthy with the connection's mutex, then mark_verified or
\* remove_if_same, which both look whether the entry is still the probed one.
Probe(c) ==
  /\ At(c, "probe") /\ ~Locked(caller[c].conn)
  /\ LET k == Key(c)
         n == caller[c].conn
         same == pool[k] = n IN
     IF caller[c].aborted /\ LooksFirst(c) THEN Ends(c) /\ UNCHANGED maps
     ELSE IF Alive(n)
     THEN /\ unverified' = IF same THEN unverified \ {k} ELSE unverified
          /\ Goto(c, IF LooksFirst(c) THEN "use" ELSE "finish")
          /\ UNCHANGED <<pool, idle, inflight>>
     ELSE /\ pool' = IF same THEN [pool EXCEPT ![k] = 0] ELSE pool
          /\ WithTodo(c, "evict", 0, IF same THEN {n} ELSE {})
          /\ UNCHANGED <<idle, unverified, inflight>>
  /\ UNCHANGED <<slots, conns, bounds>>

(* ------------------------------- one handshake ---------------------------- *)

\* Mutant: the leader does not look again.
ClaimAtOnce(c) ==
  /\ At(c, "claim")
  /\ LET k == Key(c) IN
     IF caller[c].aborted THEN Ends(c) /\ UNCHANGED <<inflight, slots>>
     ELSE IF inflight[k] # 0
     THEN WithSlot(c, "wait", inflight[k])
          /\ UNCHANGED <<inflight, slots>>
     ELSE /\ slots' = Append(slots, [state |-> "pending", conn |-> 0])
          /\ inflight' = [inflight EXCEPT ![k] = Len(slots')]
          /\ WithSlot(c, "handshake", Len(slots'))
  /\ UNCHANGED <<pool, idle, unverified, conns, bounds>>

\* begin_connect, then for the leader a second lookup.
Claim(c) ==
  /\ At(c, "claim")
  /\ LET k == Key(c) IN
     IF caller[c].aborted THEN Ends(c) /\ UNCHANGED <<inflight, slots>>
     ELSE IF inflight[k] # 0
     THEN WithSlot(c, "wait", inflight[k])
          /\ UNCHANGED <<inflight, slots>>
     ELSE /\ slots' = Append(slots, [state |-> "pending", conn |-> 0])
          /\ inflight' = [inflight EXCEPT ![k] = Len(slots')]
          /\ WithSlot(c, "lookup", Len(slots'))
  /\ UNCHANGED <<pool, idle, unverified, conns, bounds>>

\* create_sftp_connection, whatever became of the caller's own request.
Handshake(c) ==
  /\ At(c, "handshake")
  /\ \/ /\ conns' = Append(conns, [key |-> Key(c), open |-> TRUE, up |-> TRUE, user |-> "none"])
        /\ WithConn(c, "finish", Len(conns'))
     \/ WithConn(c, "finish", 0) /\ UNCHANGED conns
  /\ UNCHANGED <<maps, slots, bounds>>

\* connect_generation_is_current
Owns(c) == inflight[Key(c)] = caller[c].slot

\* get_or_insert: what the pool has is kept and returned.
Kept(k, n) == IF pool[k] # 0 THEN pool[k] ELSE n

\* Mutant: the outcome is published and the key stays claimed.
FinishClaimed(c) ==
  /\ At(c, "finish")
  /\ LET k == Key(c)
         n == caller[c].conn
         r == IF n # 0 /\ Owns(c) THEN Kept(k, n) ELSE n IN
     /\ pool' = IF Owns(c) THEN [pool EXCEPT ![k] = IF n = 0 THEN @ ELSE r] ELSE pool
     /\ idle' = IF Owns(c) /\ n # 0 THEN idle \ {k} ELSE idle
     /\ unverified' = IF Owns(c) /\ n # 0 /\ pool[k] = 0 THEN unverified \ {k} ELSE unverified
     /\ slots' = [slots EXCEPT ![caller[c].slot] =
                    [state |-> IF n = 0 THEN "failed" ELSE "ready", conn |-> r]]
     /\ IF n = 0 THEN Fails(c) ELSE WithConn(c, "use", r)
  /\ UNCHANGED <<inflight, conns, bounds>>

\* Mutant: whoever finishes inserts.
FinishInserting(c) ==
  /\ At(c, "finish")
  /\ LET k == Key(c)
         n == caller[c].conn IN
     /\ pool' = IF n # 0 THEN [pool EXCEPT ![k] = n] ELSE pool
     /\ slots' = [slots EXCEPT ![caller[c].slot] =
                    [state |-> IF n = 0 THEN "failed" ELSE "ready", conn |-> n]]
     /\ inflight' = IF Owns(c) THEN [inflight EXCEPT ![k] = 0] ELSE inflight
     /\ IF n = 0 THEN Fails(c) ELSE WithConn(c, "use", n)
  /\ UNCHANGED <<idle, unverified, conns, bounds>>

\* finish_connect, which holds in_flight throughout: insert if the generation is
\* current, publish to the followers of the own slot, free the key.
Finish(c) ==
  /\ At(c, "finish")
  /\ LET k == Key(c)
         n == caller[c].conn
         publishes == n # 0 /\ Owns(c)
         r == IF publishes THEN Kept(k, n) ELSE n IN
     /\ pool' = IF publishes THEN [pool EXCEPT ![k] = r] ELSE pool
     /\ idle' = IF publishes THEN idle \ {k} ELSE idle
     /\ unverified' = IF publishes /\ pool[k] = 0 THEN unverified \ {k} ELSE unverified
     /\ slots' = [slots EXCEPT ![caller[c].slot] =
                    [state |-> IF n = 0 THEN "failed" ELSE "ready", conn |-> r]]
     /\ inflight' = IF Owns(c) THEN [inflight EXCEPT ![k] = 0] ELSE inflight
     /\ IF n = 0 THEN Fails(c) ELSE WithConn(c, "use", r)
  /\ UNCHANGED <<conns, bounds>>

\* Mutant: no guard, the key and the slot stay as they are.
PanicUnguarded(c) ==
  /\ At(c, "handshake") /\ faults < MaxFaults
  /\ Ends(c) /\ faults' = faults + 1
  /\ UNCHANGED <<maps, slots, conns, calls>>

\* A leader panics: ConnectLeaderGuard fails its slot and frees its key.
Panic(c) ==
  /\ At(c, "handshake") /\ faults < MaxFaults
  /\ slots' = [slots EXCEPT ![caller[c].slot].state = IF @ = "pending" THEN "failed" ELSE @]
  /\ inflight' = IF Owns(c) THEN [inflight EXCEPT ![Key(c)] = 0] ELSE inflight
  /\ Ends(c) /\ faults' = faults + 1
  /\ UNCHANGED <<pool, idle, unverified, conns, calls>>

\* wait_connect: the outcome of the slot, unless the follower itself was superseded.
Follow(c) ==
  /\ At(c, "wait")
  /\ LET s == slots[caller[c].slot] IN
     \/ caller[c].aborted /\ Ends(c)
     \/ ~caller[c].aborted /\ s.state = "ready" /\ WithConn(c, "use", s.conn)
     \/ ~caller[c].aborted /\ s.state = "failed" /\ Fails(c)
  /\ UNCHANGED <<maps, slots, conns, bounds>>

\* SFTP_CONNECT_WAIT_TIMEOUT while the slot is pending; the state is unlocked ...
GiveUp(c) ==
  /\ At(c, "wait") /\ faults < MaxFaults
  /\ ~caller[c].aborted /\ slots[caller[c].slot].state = "pending"
  /\ Goto(c, "givenUp") /\ faults' = faults + 1
  /\ UNCHANGED <<maps, slots, conns, calls>>

\* ... before the key is freed.  "timed out" is a connection error to the caller.
FreeKey(c) ==
  /\ At(c, "givenUp")
  /\ inflight' = IF Owns(c) THEN [inflight EXCEPT ![Key(c)] = 0] ELSE inflight
  /\ Goto(c, "invalidate")
  /\ UNCHANGED <<pool, idle, unverified, slots, conns, bounds>>

(* ------------------------------ using a connection ------------------------ *)

\* list_remote_directory and the operations that connect as it does, and those that
\* only close the key: disconnect_sftp, the end of a terminal, and a transfer whose
\* dedicated connection failed.
Start(c) ==
  /\ At(c, "rest") /\ calls < MaxCalls
  /\ \E k \in Keys, listing \in BOOLEAN, pc \in {"lookup", "invalidate"} :
       Set(c, [Resting EXCEPT !.pc = pc, !.key = k, !.abortable = listing])
  /\ calls' = calls + 1
  /\ UNCHANGED <<maps, slots, conns, faults>>

\* with_connection_lock_if_current: the flag is read again once the mutex is held.
Use(c) ==
  /\ At(c, "use") /\ ~Locked(caller[c].conn)
  /\ IF caller[c].aborted THEN Ends(c) /\ UNCHANGED conns
     ELSE Goto(c, "using") /\ conns' = [conns EXCEPT ![caller[c].conn].user = c]
  /\ UNCHANGED <<maps, slots, bounds>>

\* The operation returns; over a dead connection it fails.
Return(c) ==
  /\ At(c, "using")
  /\ conns' = [conns EXCEPT ![caller[c].conn].user = "none"]
  /\ IF Alive(caller[c].conn) THEN Fails(c) ELSE Goto(c, "invalidate")
  /\ UNCHANGED <<maps, slots, bounds>>

\* invalidate: whatever entry the key has now is removed, then disconnected.
Invalidate(c) ==
  /\ At(c, "invalidate")
  /\ pool' = [pool EXCEPT ![Key(c)] = 0]
  /\ WithTodo(c, "close", caller[c].conn, {pool[Key(c)]} \ {0})
  /\ UNCHANGED <<idle, unverified, inflight, slots, conns, bounds>>

Closed(c) ==
  /\ At(c, "close") /\ caller[c].todo = {} /\ Ends(c)
  /\ UNCHANGED <<maps, slots, conns, bounds>>

(* -------------------------------- environment ----------------------------- *)

\* A newer request of the same pane.
Supersede(c) ==
  /\ ~At(c, "rest") /\ caller[c].abortable /\ ~caller[c].aborted
  /\ caller' = [caller EXCEPT ![c].aborted = TRUE]
  /\ UNCHANGED <<maps, slots, conns, bounds>>

\* Half a minute, then five minutes, pass.
Age(k) ==
  /\ pool[k] # 0
  /\ \/ k \notin unverified /\ unverified' = unverified \cup {k} /\ UNCHANGED idle
     \/ k \in unverified \ idle /\ idle' = idle \cup {k} /\ UNCHANGED unverified
  /\ UNCHANGED <<pool, inflight, slots, conns, caller, bounds>>

ServerDrops(n) ==
  /\ conns[n].up /\ faults < MaxFaults
  /\ conns' = [conns EXCEPT ![n].up = FALSE] /\ faults' = faults + 1
  /\ UNCHANGED <<maps, slots, caller, calls>>

Init ==
  /\ pool = [k \in Keys |-> 0] /\ inflight = [k \in Keys |-> 0]
  /\ idle = {} /\ unverified = {}
  /\ slots = <<>> /\ conns = <<>>
  /\ caller = [c \in Callers |-> Resting]
  /\ calls = 0 /\ faults = 0

\* Steps a caller takes by itself.
CallerStep(c) ==
  \/ Lookup(c) \/ Disconnect(c) \/ Found(c) \/ Probe(c) \/ Claim(c) \/ Handshake(c)
  \/ Finish(c) \/ Follow(c) \/ FreeKey(c) \/ Use(c) \/ Return(c) \/ Invalidate(c) \/ Closed(c)

Next ==
  \/ \E c \in Callers : CallerStep(c) \/ Panic(c) \/ GiveUp(c) \/ Start(c) \/ Supersede(c)
  \/ \E k \in Keys : Age(k)
  \/ \E n \in DOMAIN conns : ServerDrops(n)

Spec     == Init /\ [][Next]_vars
FairSpec == Spec /\ \A c \in Callers : WF_vars(CallerStep(c))

(* -------------------------------- properties ------------------------------ *)

Places == {"rest", "lookup", "evict", "probe", "claim", "handshake", "finish", "wait",
           "givenUp", "use", "using", "invalidate", "close"}

\* A caller at work on a connection or a slot has one.
CallOK(c) ==
  /\ caller[c].pc \in Places /\ caller[c].key \in Keys
  /\ caller[c].conn \in 0..Len(conns) /\ caller[c].slot \in 0..Len(slots)
  /\ caller[c].todo \subseteq DOMAIN conns
  /\ caller[c].pc \in {"probe", "use", "using"} => caller[c].conn # 0
  /\ caller[c].pc \in {"handshake", "finish", "wait", "givenUp"} => caller[c].slot # 0

(* The state keeps its shape. *)
TypeOK ==
  /\ pool \in [Keys -> 0..Len(conns)] /\ inflight \in [Keys -> 0..Len(slots)]
  /\ idle \subseteq Keys /\ unverified \subseteq Keys
  /\ \A s \in DOMAIN slots :
       slots[s].state \in {"pending", "ready", "failed"} /\ slots[s].conn \in 0..Len(conns)
  /\ \A n \in DOMAIN conns :
       conns[n].key \in Keys /\ conns[n].user \in Callers \cup {"none"}
  /\ \A c \in Callers : CallOK(c)

Leads(c) == caller[c].slot # 0 /\ caller[c].pc \in {"lookup", "evict", "probe", "handshake", "finish"}

(* Nobody handshakes for a key that has a connection, unless it was given up on: only the
   current generation fills the pool, and it looks once more after it claimed. *)
NoRedundantHandshake ==
  \A c \in Callers : At(c, "handshake") /\ Owns(c) => pool[Key(c)] = 0

(* A claimed key has exactly one leader, still at work on a pending slot, so that a later
   caller never waits on a slot nobody will resolve. *)
SlotHasLeader ==
  \A k \in Keys : inflight[k] # 0 =>
    /\ slots[inflight[k]].state = "pending"
    /\ Cardinality({c \in Callers : Leads(c) /\ caller[c].slot = inflight[k]}) = 1

(* An entry gives way to another one only by being removed first: a late leader never
   displaces the connection of its successor. *)
NeverDisplaced ==
  [][\A k \in Keys : pool[k] # 0 /\ pool'[k] # 0 => pool'[k] = pool[k]]_pool

(* Every call ends, although followers wait for leaders and whoever closes a connection
   waits for whoever uses it, and although no follower need ever time out. *)
CallsEnd == \A c \in Callers : ~At(c, "rest") ~> At(c, "rest")

(* A connection the pool has disconnected is not in the pool: it is "being discarded
   anyway" (sftp_pool.rs:58). *)
DiscardedStaysOut == \A k \in Keys : pool[k] # 0 => conns[pool[k]].open
================================================================================
