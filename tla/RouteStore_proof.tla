------------------------- MODULE RouteStore_proof -------------------------
(* Proofs about RouteStore: wherever a save fails or the application dies, and however
   often, what a document names is stored; a run finds the secrets of its snapshot as
   long as the application lives; recovery finds every orphan if one access failed; no
   route is given the secret of another.

   The inductive invariant is StoreInv.  It follows a save from its journal to its
   publication (SaverOK): what it has staged is named by no document before the commit,
   and is stored when the commit comes.  EditorOK follows an edit of the SSH key,
   OpenerOK the recovery. *)
EXTENDS RouteStore, FiniteSetTheorems, TLAPS

(* ------------------------------- invariants ------------------------------- *)

Refs   == 1..MaxRefs
Values == 0..MaxRefs \cup Secrets
Docs   == [rev : Nat, ref : [Routes -> 0..MaxRefs]]
Places == {"idle", "load", "save", "journal", "set", "unset", "unsetting", "commit", "uncommit",
           "publish", "open", "recover", "forget", "failed", "upsert", "refused", "drop"}
Threads == [pc : Places, left : SUBSET Refs, staged : SUBSET (Refs \cup Secrets), cand : Docs,
            copy : [0..MaxRefs -> Values], name : 0..MaxRefs, value : Values, ok : Places,
            bad : Places, old : Values, res : {"none", "ok", "refused"}]

Typed ==
  /\ vault \in [0..MaxRefs -> Values] /\ doc \in Docs /\ snap \in Docs
  /\ journal \subseteq Refs /\ row \in {0} \cup Secrets
  /\ proc \in [Procs -> Threads] /\ mutex \in Savers \cup {None}
  /\ ghost \in [run : SUBSET Refs, ever : SUBSET Refs, owner : [Refs -> Routes \cup {0}],
                secret : Values, row : {0} \cup Secrets]
  /\ used \in [refs : 0..MaxRefs, edits : Nat, faults : Nat, crashes : Nat]

\* Who changes the item holds its lock and has read it as it is; who saves holds the lock
\* of the snapshot; while the store is opened nobody else is at work.
Locks ==
  /\ \A p \in Procs : (vlock = p <=> At(p, "save")) /\ (At(p, "save") => proc[p].copy = vault)
  /\ \A w \in Savers : mutex = w <=> ~At(w, "idle")
  /\ ~Up => mutex = None /\ At(Editor, "idle") /\ ghost.run = RefsOf(doc)

\* What documents name was named by nobody else, and is stored.
World ==
  /\ RefsOf(doc) \subseteq ghost.run /\ ghost.run \subseteq ghost.ever
  /\ \A n \in ghost.ever \cup journal : n <= used.refs
  /\ \A n \in Refs : vault[n] \in {0, n}
  /\ vault[Key] \in {0} \cup Secrets /\ ghost.secret \in {0} \cup Secrets

Calling(o) == o.pc \in {"load", "save"}

\* What a save has staged.
Staged(o) ==
  /\ o.left \subseteq o.staged /\ o.staged \subseteq 1..used.refs
  /\ \A r \in Routes : o.cand.ref[r] # 0 => ghost.owner[o.cand.ref[r]] = r
  /\ IF o.pc = "publish" THEN doc = o.cand /\ o.staged \subseteq ghost.ever
     ELSE /\ o.staged \cap ghost.ever = {} /\ snap = doc /\ o.staged \subseteq RefsOf(o.cand)
          /\ RefsOf(o.cand) \subseteq o.staged \cup RefsOf(doc) /\ o.cand.rev = doc.rev + 1
  /\ IF o.pc = "journal" THEN o.staged \ o.left \subseteq journal
     ELSE o.pc # "publish" => o.staged \subseteq journal

\* The secrets it has stored, and those it has deleted again.
Stores(stored)   == \A n \in stored : vault[n] = n
Deletes(deleted) == used.faults # 0 /\ (used.faults < 2 => \A n \in deleted : vault[n] = 0)
Kept(o) ==
  /\ o.pc = "set"       => Stores(o.staged \ o.left)
  /\ o.pc = "commit"    => Stores(o.staged)
  /\ o.pc = "unset"     => used.faults # 0
  /\ o.pc = "unsetting" => Deletes(o.staged \ o.left)
  /\ Calling(o) =>
       /\ o.name \in o.staged \ o.left
       /\ \/ o.ok = "set" /\ o.bad = "unset" /\ o.value = o.name /\ Stores((o.staged \ o.left) \ {o.name})
          \/ o.ok = "unsetting" /\ o.bad = "unsetting" /\ o.value = 0
               /\ Deletes((o.staged \ o.left) \ {o.name})
          \/ o.ok = "uncommit" /\ o.bad = "uncommit" /\ o.value = 0

SaverOK(o) ==
  /\ o.pc \in {"idle", "journal", "set", "load", "save", "unset", "unsetting", "commit", "uncommit", "publish"}
  /\ o.pc # "idle" => Staged(o) /\ Kept(o)

\* An edit of the key that fails leaves the secret and the row as it found them.
AsBefore == vault[Key] = ghost.secret /\ row = ghost.row
EditorOK(o) ==
  /\ o.pc \in {"idle", "load", "save", "upsert", "refused", "drop"}
  /\ Calling(o) =>
       /\ o.name = Key /\ o.res = "none"
       /\ \/ o.ok = "upsert" /\ o.bad = "refused" /\ o.value \in Secrets /\ o.old = ghost.secret /\ AsBefore
          \/ o.ok = "refused" /\ o.bad = "refused" /\ o.value = ghost.secret /\ row = ghost.row /\ used.faults # 0
          \/ o.ok = "drop" /\ o.bad = "idle" /\ o.value = 0
  /\ o.pc = "upsert" => o.res = "none" /\ o.value \in Secrets /\ o.old = ghost.secret /\ row = ghost.row
  /\ o.pc = "refused" \/ o.res = "refused" => (used.faults < 2 => AsBefore)
  /\ o.pc = "drop" => o.res = "none"
  /\ o.res = "refused" => o.pc = "idle"

\* Recovery deletes what the document does not name and forgets what is deleted.
OpenerOK(o) ==
  /\ o.pc \in {"idle", "open", "recover", "load", "save", "forget", "failed"}
  /\ o.pc \in {"recover", "load", "save", "forget"} => snap = doc
  /\ Calling(o) => /\ o.name \in Refs \ RefsOf(doc) /\ o.value = 0 /\ o.ok = "forget" /\ o.bad = "failed"
  /\ o.pc = "forget" => o.name \in Refs /\ (vault[o.name] = 0 \/ o.name \in ghost.ever)

Workers ==
  /\ \A w \in Savers : SaverOK(proc[w])
  /\ EditorOK(proc[Editor]) /\ OpenerOK(proc[Opener])

StoreInv ==
  /\ Typed /\ Locks /\ World /\ Workers
  /\ FrozenResolves /\ SnapshotIsCommitted /\ OwnSecrets
  /\ used.faults < 2 => NoOrphans

(* -------------------------------- references -------------------------------- *)

\* The references of a save are the next ones, one for each secret that is given
\* (llm/routes.rs).
LEMMA FreshRefs ==
  ASSUME StoreAssumption, used.refs \in Nat, NEW given \in SUBSET Routes
  PROVE  /\ Cardinality(given) \in Nat
         /\ \A r \in given : Fresh(r, given) \in (used.refs + 1)..(used.refs + Cardinality(given))
         /\ \A r, s \in given : Fresh(r, given) = Fresh(s, given) => r = s
<1> DEFINE Upto(r) == {x \in given : x <= r}
<1>1. IsFiniteSet(given)
  BY FS_Subset DEF StoreAssumption
<1>2. Cardinality(given) \in Nat
  BY <1>1, FS_CardinalityType
<1>3. ASSUME NEW r \in given
      PROVE  Cardinality(Upto(r)) \in 1..Cardinality(given)
  <2>1. Upto(r) \in SUBSET given /\ r \in Upto(r)
    BY DEF StoreAssumption
  <2>2. IsFiniteSet(Upto(r)) /\ Cardinality(Upto(r)) <= Cardinality(given)
    BY <1>1, <2>1, FS_Subset
  <2>3. Cardinality(Upto(r)) \in Nat /\ Cardinality(Upto(r)) # 0
    BY <2>1, <2>2, FS_CardinalityType, FS_EmptySet
  <2> QED
    BY <1>2, <2>2, <2>3
<1>4. ASSUME NEW r \in given, NEW s \in given, r < s
      PROVE  Cardinality(Upto(r)) # Cardinality(Upto(s))
  <2>1. r \in Nat /\ s \in Nat
    BY DEF StoreAssumption
  <2>2. Upto(r) \in SUBSET Upto(s) /\ s \in Upto(s) /\ s \notin Upto(r)
    <3>1. ASSUME NEW x \in given, x <= r
          PROVE  x <= s
      <4>1. x \in Nat
        BY DEF StoreAssumption
      <4> QED
        BY <1>4, <2>1, <3>1, <4>1
    <3>2. s <= s /\ ~(s <= r)
      BY <1>4, <2>1
    <3> QED
      BY <3>1, <3>2
  <2>3. IsFiniteSet(Upto(s))
    BY <1>1, FS_Subset
  <2> QED
    BY <2>2, <2>3, FS_Subset
<1>5. \A r \in given : Fresh(r, given) = used.refs + Cardinality(Upto(r))
  BY DEF Fresh
<1> HIDE DEF Upto
<1>6. \A r \in given : Fresh(r, given) \in (used.refs + 1)..(used.refs + Cardinality(given))
  BY <1>2, <1>3, <1>5
<1>7. ASSUME NEW r \in given, NEW s \in given, Fresh(r, given) = Fresh(s, given)
      PROVE  r = s
  <2>1. r \in Nat /\ s \in Nat /\ Cardinality(Upto(r)) \in Nat /\ Cardinality(Upto(s)) \in Nat
    BY <1>3 DEF StoreAssumption
  <2>2. Cardinality(Upto(r)) = Cardinality(Upto(s))
    BY <1>5, <1>7, <2>1
  <2>3. ~(r < s) /\ ~(s < r)
    BY <1>4, <2>2
  <2> QED
    BY <2>1, <2>3
<1> QED
  BY <1>2, <1>6, <1>7

(* --------------------------------- threads --------------------------------- *)

\* A thread at rest.
LEMMA RestIsThread ==
  ASSUME StoreAssumption
  PROVE  /\ Rest \in Threads /\ Rest.pc = "idle" /\ Rest.left = {} /\ Rest.res = "none"
         /\ [Rest EXCEPT !.pc = "open"] \in Threads /\ [Rest EXCEPT !.pc = "open"].pc = "open"
<1>1. MaxRefs \in Nat
  BY DEF StoreAssumption
<1>2. [rev |-> 0, ref |-> [r \in Routes |-> 0]] \in Docs
  BY <1>1 DEF Docs
<1>3. 0 \in Values /\ [n \in 0..MaxRefs |-> 0] \in [0..MaxRefs -> Values]
  BY <1>1 DEF Values
<1>4. {"idle", "open"} \subseteq Places
  BY DEF Places
<1>5. Rest \in Threads
  BY <1>1, <1>2, <1>3, <1>4 DEF Rest, Threads
<1>6. [Rest EXCEPT !.pc = "open"] \in Threads /\ [Rest EXCEPT !.pc = "open"].pc = "open"
  BY <1>4, <1>5 DEF Threads
<1> QED
  BY <1>5, <1>6 DEF Rest

\* Where a thread can be.
LEMMA PlacesAre ==
  /\ {"idle", "load", "save", "journal", "set", "unset", "unsetting", "commit", "uncommit"} \subseteq Places
  /\ {"publish", "open", "recover", "forget", "failed", "upsert", "refused", "drop"} \subseteq Places
  BY DEF Places

\* A thread has gone to the vault.
Goes(w, left, name, value, ok, bad) ==
  proc' = [proc EXCEPT ![w].left = left, ![w].pc = "load", ![w].name = name, ![w].value = value,
                       ![w].ok = ok, ![w].bad = bad]
Went(w, left, name, value, ok, bad) ==
  /\ proc' \in [Procs -> Threads] /\ \A p \in Procs \ {w} : proc'[p] = proc[p]
  /\ proc'[w].left = left /\ proc'[w].pc = "load" /\ proc'[w].name = name /\ proc'[w].value = value
  /\ proc'[w].ok = ok /\ proc'[w].bad = bad /\ proc'[w].staged = proc[w].staged
  /\ proc'[w].cand = proc[w].cand /\ proc'[w].old = proc[w].old /\ proc'[w].res = proc[w].res

\* The fields of a thread that goes to the vault.
LEMMA Calls ==
  ASSUME proc \in [Procs -> Threads], NEW w \in Procs, NEW left \in SUBSET Refs, NEW name \in 0..MaxRefs,
         NEW value \in Values, NEW ok \in Places, NEW bad \in Places,
         Goes(w, left, name, value, ok, bad)
  PROVE  Went(w, left, name, value, ok, bad)
<1> DEFINE q == [proc[w] EXCEPT !.left = left, !.pc = "load", !.name = name, !.value = value, !.ok = ok,
                                !.bad = bad]
<1>1. "load" \in Places /\ proc[w] \in Threads
  BY PlacesAre
<1>2. q \in Threads
  BY <1>1 DEF Threads
<1>3. /\ q.left = left /\ q.pc = "load" /\ q.name = name /\ q.value = value
      /\ q.ok = ok /\ q.bad = bad /\ q.staged = proc[w].staged
      /\ q.cand = proc[w].cand /\ q.old = proc[w].old /\ q.res = proc[w].res
  BY <1>1 DEF Threads
<1>4. proc' = [proc EXCEPT ![w] = q]
  BY DEF Goes
<1> HIDE DEF q
<1>5. proc'[w] = q /\ \A p \in Procs \ {w} : proc'[p] = proc[p]
  BY <1>4
<1>6. proc' \in [Procs -> Threads]
  BY <1>2, <1>4
<1> QED
  BY <1>3, <1>5, <1>6 DEF Went

\* While a save is under way the store is open and no other save is.
LEMMA OneSaver ==
  ASSUME StoreAssumption, Typed, Locks, NEW w \in Savers, ~At(w, "idle")
  PROVE  Up /\ mutex = w /\ \A v \in Savers \ {w} : At(v, "idle")
  BY DEF StoreAssumption, Typed, Locks, Up, At

\* What an edit promises stands while others are at work.
LEMMA EditorFrame ==
  ASSUME EditorOK(proc[Editor]), proc'[Editor] = proc[Editor], used.faults \in Nat, used'.faults \in Nat,
         used'.faults >= used.faults, vault'[Key] = vault[Key], row' = row,
         ghost'.secret = ghost.secret, ghost'.row = ghost.row
  PROVE  EditorOK(proc[Editor])'
<1>1. AsBefore' = AsBefore
  BY DEF AsBefore
<1> QED
  BY <1>1 DEF EditorOK, Calling

\* What a save promises stands while the key is edited.
LEMMA SaverFrame ==
  ASSUME NEW w \in Savers, SaverOK(proc[w]), proc'[w] = proc[w],
         proc[w].pc # "idle" => proc[w].staged \subseteq Refs,
         used.faults \in Nat, used'.faults \in Nat, used'.faults >= used.faults, used'.refs = used.refs,
         \A n \in Refs : vault'[n] = vault[n],
         journal' = journal, ghost'.ever = ghost.ever, ghost'.owner = ghost.owner,
         doc' = doc, snap' = snap
  PROVE  SaverOK(proc[w])'
<1> SUFFICES ASSUME proc[w].pc # "idle"
             PROVE  Staged(proc[w])' /\ Kept(proc[w])'
  BY DEF SaverOK
<1>1. Staged(proc[w]) /\ Kept(proc[w])
  BY DEF SaverOK
<1>2. Staged(proc[w])'
  BY <1>1 DEF Staged, RefsOf
<1>3. ASSUME NEW s, s \subseteq proc[w].staged
      PROVE  /\ Stores(s) => \A n \in s : vault'[n] = n
             /\ Deletes(s) => used'.faults # 0 /\ (used'.faults < 2 => \A n \in s : vault'[n] = 0)
  BY <1>3 DEF Stores, Deletes
<1>4. Kept(proc[w])'
  BY <1>1, <1>3 DEF Kept, Calling, Stores, Deletes
<1> QED
  BY <1>2, <1>4

(* ------------------------------ a step of a save ------------------------------ *)

\* A step of a save concerns no other thread.
LEMMA SaverWorkers ==
  ASSUME StoreAssumption, StoreInv, NEW w \in Savers, used'.faults \in Nat,
         \A p \in Procs \ {w} : proc'[p] = proc[p],
         vault'[Key] = vault[Key], row' = row,
         ghost'.secret = ghost.secret, ghost'.row = ghost.row, used'.faults >= used.faults,
         Up, mutex \in {w, None}, SaverOK(proc[w])'
  PROVE  /\ Workers' /\ proc'[Opener].pc = "idle" /\ w \in Procs /\ w # None
         /\ \A v \in Savers \ {w} : proc'[v].pc = "idle"
<1>1. Typed /\ Locks /\ Workers
  BY DEF StoreInv
<1>2. /\ w \in Procs /\ w # Opener /\ w # Editor /\ w # None /\ Editor \in Procs /\ Opener \in Procs
      /\ Editor # Opener /\ \A v \in Savers : v \in Procs /\ v # None /\ v # Editor /\ v # Opener
  BY DEF StoreAssumption, Procs
<1>3. proc'[Opener] = proc[Opener] /\ proc'[Editor] = proc[Editor] /\ proc[Opener].pc = "idle"
  BY <1>2 DEF Up, At
<1>4. \A v \in Savers \ {w} : proc'[v] = proc[v] /\ proc'[v].pc = "idle"
  <2> SUFFICES ASSUME NEW v \in Savers \ {w}
               PROVE  proc'[v] = proc[v] /\ proc'[v].pc = "idle"
    OBVIOUS
  <2>1. mutex # v
    BY <1>2
  <2> QED
    BY <1>1, <1>2, <2>1 DEF Locks, At
<1>5. \A v \in Savers : SaverOK(proc[v])'
  <2> SUFFICES ASSUME NEW v \in Savers
               PROVE  SaverOK(proc[v])'
    OBVIOUS
  <2>1. CASE v = w
    BY <2>1
  <2>2. CASE v # w
    BY <1>4, <2>2 DEF SaverOK
  <2> QED
    BY <2>1, <2>2
<1>6. EditorOK(proc[Editor])'
  <2>1. used.faults \in Nat
    BY <1>1 DEF Typed
  <2> QED
    BY <1>1, <1>3, <2>1, EditorFrame DEF Workers
<1>7. OpenerOK(proc[Opener])'
  BY <1>3 DEF OpenerOK, Calling
<1> QED
  BY <1>2, <1>3, <1>4, <1>5, <1>6, <1>7 DEF Workers

\* A step of a save that leaves the keychain alone keeps the locks, if it keeps its own
\* promise.
LEMMA SaverMoves ==
  ASSUME StoreAssumption, StoreInv, NEW w \in Savers, Typed',
         \A p \in Procs \ {w} : proc'[p] = proc[p],
         vault' = vault, vlock' = vlock, row' = row,
         ghost'.secret = ghost.secret, ghost'.row = ghost.row, used'.faults >= used.faults,
         Up, mutex \in {w, None}, ~At(w, "save"), proc'[w].pc # "save",
         mutex' = IF proc'[w].pc = "idle" THEN None ELSE w,
         SaverOK(proc[w])'
  PROVE  Locks' /\ Workers'
<1>1. /\ Workers' /\ proc'[Opener].pc = "idle" /\ w \in Procs /\ w # None
      /\ \A v \in Savers \ {w} : proc'[v].pc = "idle"
  <2>1. used'.faults \in Nat
    BY DEF Typed
  <2> QED
    BY <2>1, SaverWorkers
<1>2. \A p \in Procs : (vlock' = p <=> proc'[p].pc = "save") /\ (proc'[p].pc = "save" => proc'[p].copy = vault')
  <2> SUFFICES ASSUME NEW p \in Procs
               PROVE  (vlock' = p <=> proc'[p].pc = "save") /\ (proc'[p].pc = "save" => proc'[p].copy = vault')
    OBVIOUS
  <2>1. (vlock = p <=> proc[p].pc = "save") /\ (proc[p].pc = "save" => proc[p].copy = vault)
    BY DEF StoreInv, Locks, At
  <2>2. CASE p = w
    BY <2>1, <2>2 DEF At
  <2>3. CASE p # w
    BY <2>1, <2>3
  <2> QED
    BY <2>2, <2>3
<1>3. \A v \in Savers : mutex' = v <=> ~(proc'[v].pc = "idle")
  <2> SUFFICES ASSUME NEW v \in Savers
               PROVE  mutex' = v <=> ~(proc'[v].pc = "idle")
    OBVIOUS
  <2>1. v # None
    BY DEF StoreAssumption
  <2>2. CASE v = w
    BY <2>1, <2>2
  <2>3. CASE v # w
    BY <1>1, <2>1, <2>3
  <2> QED
    BY <2>2, <2>3
<1> QED
  BY <1>1, <1>2, <1>3 DEF Locks, At, Up

\* What a step that touches neither the keychain nor the document, and journals no less,
\* keeps.
LEMMA QuietWorld ==
  ASSUME StoreAssumption, StoreInv, Typed', UNCHANGED <<vault, doc, ghost>>,
         used'.refs = used.refs, used'.faults >= used.faults,
         journal \subseteq journal', \A n \in journal' : n <= used.refs
  PROVE  World' /\ FrozenResolves' /\ OwnSecrets' /\ (used'.faults < 2 => NoOrphans')
<1>1. World'
  BY DEF World, StoreInv, RefsOf
<1>2. FrozenResolves'
  BY DEF StoreInv, FrozenResolves
<1>3. OwnSecrets'
  BY DEF StoreInv, OwnSecrets
<1>4. ASSUME used'.faults < 2
      PROVE  NoOrphans'
  <2>1. used.faults < 2
    BY <1>4 DEF StoreInv, Typed
  <2> QED
    BY <2>1 DEF StoreInv, NoOrphans
<1> QED
  BY <1>1, <1>2, <1>3, <1>4

\* What holds of a save under way.
LEMMA Saving ==
  ASSUME StoreAssumption, StoreInv, NEW w \in Savers, ~At(w, "idle")
  PROVE  /\ w \in Procs /\ w # Opener /\ w # Editor /\ w # None /\ proc[w] \in Threads
         /\ Up /\ mutex = w /\ Staged(proc[w]) /\ Kept(proc[w])
<1>1. Typed /\ Locks /\ SaverOK(proc[w])
  BY DEF StoreInv, Workers
<1>2. w \in Procs /\ w # Opener /\ w # Editor /\ w # None
  BY DEF StoreAssumption, Procs
<1> QED
  BY <1>1, <1>2, OneSaver DEF SaverOK, At, Typed

\* What a step of a save that leaves everything but the journal alone has to show.
LEMMA SaverKeeps ==
  ASSUME StoreAssumption, StoreInv, NEW w \in Savers, ~At(w, "idle"), ~At(w, "save"), ~At(w, "publish"),
         \A p \in Procs \ {w} : proc'[p] = proc[p], proc' \in [Procs -> Threads],
         UNCHANGED <<vault, vlock, doc, snap, row, ghost>>,
         used' \in [refs : 0..MaxRefs, edits : Nat, faults : Nat, crashes : Nat],
         used'.refs = used.refs, used'.faults >= used.faults,
         journal \subseteq journal', \A n \in journal' : n \in Refs /\ n <= used.refs,
         proc'[w].pc # "save", mutex' = IF proc'[w].pc = "idle" THEN None ELSE w,
         SaverOK(proc[w])'
  PROVE  StoreInv'
<1>1. Up /\ mutex = w /\ Staged(proc[w])
  BY Saving
<1>2. Typed'
  BY DEF Typed, StoreInv
<1>3. Locks' /\ Workers'
  BY <1>1, <1>2, SaverMoves
<1>4. World' /\ FrozenResolves' /\ OwnSecrets' /\ (used'.faults < 2 => NoOrphans')
  BY <1>2, QuietWorld
<1>5. snap = doc
  BY <1>1 DEF Staged, At
<1>6. SnapshotIsCommitted'
  BY <1>5 DEF SnapshotIsCommitted
<1> QED
  BY <1>2, <1>3, <1>4, <1>6 DEF StoreInv

\* What a step of a save that only moves on has to show.
LEMMA SaverGoes ==
  ASSUME StoreAssumption, StoreInv, NEW w \in Savers, ~At(w, "idle"), ~At(w, "save"), ~At(w, "publish"),
         \A p \in Procs \ {w} : proc'[p] = proc[p], proc' \in [Procs -> Threads],
         UNCHANGED <<vault, vlock, doc, snap, mutex, journal, row, ghost, used>>,
         proc'[w].pc \notin {"idle", "save"}, SaverOK(proc[w])'
  PROVE  StoreInv'
<1>1. mutex = w
  BY Saving
<1>2. /\ used' \in [refs : 0..MaxRefs, edits : Nat, faults : Nat, crashes : Nat]
      /\ used'.refs = used.refs /\ used'.faults >= used.faults
  BY DEF StoreInv, Typed
<1>3. journal \subseteq journal' /\ \A n \in journal' : n \in Refs /\ n <= used.refs
  BY DEF StoreInv, Typed, World
<1> QED
  BY <1>1, <1>2, <1>3, SaverKeeps

\* A save notes the references it will store before it touches the keychain (llm/routes.rs).
LEMMA JournalKeeps ==
  ASSUME StoreAssumption, StoreInv, NEW w \in Savers, Journal(w)
  PROVE  StoreInv'
<1> DEFINE o == proc[w]
           q == proc'[w]
<1>1. /\ w \in Procs /\ o \in Threads /\ mutex = w /\ Staged(o) /\ o.pc = "journal" /\ proc \in [Procs -> Threads]
      /\ Up /\ w # None
  BY Saving DEF Journal, At, StoreInv, Typed
<1>2. /\ o.left \subseteq o.staged /\ o.staged \subseteq 1..used.refs /\ o.staged \subseteq Refs
      /\ o.staged \ o.left \subseteq journal /\ used.refs \in 0..MaxRefs /\ MaxRefs \in Nat
      /\ used \in [refs : 0..MaxRefs, edits : Nat, faults : Nat, crashes : Nat] /\ journal \subseteq Refs
      /\ \A n \in journal : n <= used.refs
  BY <1>1 DEF Staged, StoreInv, Typed, StoreAssumption, Refs, World
<1>3. UNCHANGED <<vault, vlock, doc, snap, row, ghost>>
  BY DEF Journal
<1>4. CASE \E r \in o.left : /\ journal' = journal \cup {r} /\ UNCHANGED <<mutex, used>>
                             /\ proc' = [proc EXCEPT ![w].left = @ \ {r}]
  <2>1. PICK r \in o.left : /\ journal' = journal \cup {r} /\ UNCHANGED <<mutex, used>>
                            /\ proc' = [proc EXCEPT ![w].left = @ \ {r}]
    BY <1>4
  <2>2. /\ q = [o EXCEPT !.left = @ \ {r}] /\ \A p \in Procs \ {w} : proc'[p] = proc[p]
        /\ proc' \in [Procs -> Threads]
    BY <1>1, <2>1 DEF Threads
  <2>3. q.pc = "journal" /\ q.left = o.left \ {r} /\ q.staged = o.staged /\ q.cand = o.cand
    BY <1>1, <2>2 DEF Threads
  <2>4. Staged(o)'
    BY <1>1, <1>2, <1>3, <2>1, <2>3 DEF Staged, RefsOf
  <2>5. SaverOK(proc[w])'
    BY <2>3, <2>4 DEF SaverOK, Kept, Calling
  <2>6. journal \subseteq journal' /\ \A n \in journal' : n \in Refs /\ n <= used.refs
    BY <1>2, <2>1
  <2>7. ~At(w, "idle") /\ ~At(w, "save") /\ ~At(w, "publish")
    BY <1>1 DEF At
  <2>8. /\ used' \in [refs : 0..MaxRefs, edits : Nat, faults : Nat, crashes : Nat]
        /\ used'.refs = used.refs /\ used'.faults >= used.faults
    BY <1>2, <2>1
  <2>9. proc'[w].pc # "save" /\ mutex' = IF proc'[w].pc = "idle" THEN None ELSE w
    BY <1>1, <2>1, <2>3
  <2> HIDE DEF o, q
  <2> QED
    BY <1>3, <2>2, <2>5, <2>6, <2>7, <2>8, <2>9, SaverKeeps
<1>5. CASE /\ o.left = {} /\ UNCHANGED <<journal, mutex, used>>
           /\ proc' = [proc EXCEPT ![w].pc = "set", ![w].left = o.staged]
  <2>1. /\ q = [o EXCEPT !.pc = "set", !.left = o.staged] /\ \A p \in Procs \ {w} : proc'[p] = proc[p]
        /\ proc' \in [Procs -> Threads]
    BY <1>1, <1>2, <1>5 DEF Threads, Places
  <2>2. q.pc = "set" /\ q.left = o.staged /\ q.staged = o.staged /\ q.cand = o.cand
    BY <1>1, <2>1 DEF Threads
  <2>3. Staged(o)'
    BY <1>1, <1>2, <1>3, <1>5, <2>2 DEF Staged, RefsOf
  <2>4. SaverOK(proc[w])'
    BY <2>2, <2>3 DEF SaverOK, Kept, Calling, Stores
  <2> QED
    BY <1>1, <1>2, <1>3, <1>5, <2>1, <2>2, <2>4, SaverKeeps DEF At
<1>6. CASE o.left # {} /\ Fault /\ Ends(w) /\ UNCHANGED journal
  <2>1. q = Rest /\ q.pc = "idle" /\ mutex' = None
        /\ (\A p \in Procs \ {w} : proc'[p] = proc[p]) /\ proc' \in [Procs -> Threads]
    BY <1>1, <1>6, RestIsThread DEF Ends
  <2>2. /\ used' \in [refs : 0..MaxRefs, edits : Nat, faults : Nat, crashes : Nat]
        /\ used'.refs = used.refs /\ used'.faults >= used.faults
    BY <1>2, <1>6 DEF Fault
  <2>3. SaverOK(proc[w])'
    BY <2>1 DEF SaverOK
  <2> QED
    BY <1>1, <1>2, <1>3, <1>6, <2>1, <2>2, <2>3, SaverKeeps DEF At
<1> QED
  BY <1>4, <1>5, <1>6 DEF Journal

\* A save goes on to its next secret, or to its commit when all are stored (llm/routes.rs).
LEMMA SetSecretsKeeps ==
  ASSUME StoreAssumption, StoreInv, NEW w \in Savers, SetSecrets(w)
  PROVE  StoreInv'
<1> DEFINE o == proc[w]
           q == proc'[w]
<1>1. /\ w \in Procs /\ o \in Threads /\ mutex = w /\ Staged(o) /\ Kept(o) /\ o.pc = "set"
      /\ proc \in [Procs -> Threads] /\ Up /\ w # None
  BY Saving DEF SetSecrets, At, StoreInv, Typed
<1>2. /\ o.left \subseteq o.staged /\ o.staged \subseteq 1..used.refs /\ o.staged \subseteq Refs
      /\ o.staged \subseteq journal /\ Stores(o.staged \ o.left) /\ MaxRefs \in Nat
      /\ used \in [refs : 0..MaxRefs, edits : Nat, faults : Nat, crashes : Nat] /\ journal \subseteq Refs
      /\ \A n \in journal : n <= used.refs
  BY <1>1 DEF Staged, Kept, StoreInv, Typed, StoreAssumption, Refs, World
<1>3. UNCHANGED <<vault, vlock, doc, snap, mutex, journal, row, ghost, used>>
  BY DEF SetSecrets
<1>4. CASE o.left = {} /\ To(w, "commit")
  <2>1. /\ q = [o EXCEPT !.pc = "commit"] /\ \A p \in Procs \ {w} : proc'[p] = proc[p]
        /\ proc' \in [Procs -> Threads]
    BY <1>1, <1>4 DEF To, Threads, Places
  <2>2. q.pc = "commit" /\ q.left = o.left /\ q.staged = o.staged /\ q.cand = o.cand
    BY <1>1, <2>1 DEF Threads
  <2>3. Staged(o)'
    BY <1>1, <1>2, <1>3, <2>2 DEF Staged, RefsOf
  <2>4. SaverOK(proc[w])'
    BY <1>2, <1>3, <1>4, <2>2, <2>3 DEF SaverOK, Kept, Calling, Stores
  <2> QED
    BY <1>1, <1>3, <2>1, <2>2, <2>4, SaverGoes DEF At
<1>5. CASE \E r \in o.left :
             proc' = [proc EXCEPT ![w].left = @ \ {r}, ![w].pc = "load", ![w].name = r, ![w].value = r,
                                  ![w].ok = "set", ![w].bad = "unset"]
  <2>1. PICK r \in o.left :
             proc' = [proc EXCEPT ![w].left = @ \ {r}, ![w].pc = "load", ![w].name = r, ![w].value = r,
                                  ![w].ok = "set", ![w].bad = "unset"]
    BY <1>5
  <2>2. r \in Refs /\ r \in 0..MaxRefs /\ r \in Values /\ r \in o.staged
    BY <1>2 DEF Refs, Values
  <2>3. o.left \ {r} \in SUBSET Refs /\ "set" \in Places /\ "unset" \in Places
    BY <1>2, PlacesAre
  <2>4. Goes(w, o.left \ {r}, r, r, "set", "unset")
    BY <2>1 DEF Goes
  <2>5. Went(w, o.left \ {r}, r, r, "set", "unset")
    BY <1>1, <2>2, <2>3, <2>4, Calls
  <2>6. Staged(o)'
    BY <1>1, <1>2, <1>3, <2>5 DEF Staged, RefsOf, Went
  <2>7. Kept(o)'
    BY <1>2, <1>3, <2>2, <2>5 DEF Kept, Calling, Stores, Went
  <2>8. SaverOK(proc[w])'
    BY <2>5, <2>6, <2>7 DEF SaverOK, Went
  <2> QED
    BY <1>1, <1>3, <2>5, <2>8, SaverGoes DEF At, Went
<1> QED
  BY <1>4, <1>5 DEF SetSecrets

\* A secret cannot be stored: those already stored are to be deleted again (llm/routes.rs).
LEMMA UnsetKeeps ==
  ASSUME StoreAssumption, StoreInv, NEW w \in Savers, Unset(w)
  PROVE  StoreInv'
<1> DEFINE o == proc[w]
           q == proc'[w]
<1>1. /\ w \in Procs /\ o \in Threads /\ mutex = w /\ Staged(o) /\ Kept(o) /\ o.pc = "unset"
      /\ proc \in [Procs -> Threads] /\ Up /\ w # None
  BY Saving DEF Unset, At, StoreInv, Typed
<1>2. /\ o.left \subseteq o.staged /\ o.staged \subseteq 1..used.refs /\ o.staged \subseteq Refs
      /\ o.staged \subseteq journal /\ used.faults # 0 /\ MaxRefs \in Nat
      /\ used \in [refs : 0..MaxRefs, edits : Nat, faults : Nat, crashes : Nat] /\ journal \subseteq Refs
      /\ \A n \in journal : n <= used.refs
  BY <1>1 DEF Staged, Kept, StoreInv, Typed, StoreAssumption, Refs, World
<1>3. UNCHANGED <<vault, vlock, doc, snap, mutex, journal, row, ghost, used>>
  BY DEF Unset
<1>4. /\ q = [o EXCEPT !.pc = "unsetting", !.left = o.staged] /\ \A p \in Procs \ {w} : proc'[p] = proc[p]
      /\ proc' \in [Procs -> Threads]
  <2>1. proc' = [proc EXCEPT ![w].pc = "unsetting", ![w].left = o.staged]
    BY DEF Unset
  <2>2. [o EXCEPT !.pc = "unsetting", !.left = o.staged] \in Threads
    BY <1>1, <1>2 DEF Threads, Places
  <2> HIDE DEF o
  <2> QED
    BY <1>1, <2>1, <2>2 DEF o
<1>5. q.pc = "unsetting" /\ q.left = o.staged /\ q.staged = o.staged /\ q.cand = o.cand
  BY <1>1, <1>4 DEF Threads
<1>6. Staged(o)'
  BY <1>1, <1>2, <1>3, <1>5 DEF Staged, RefsOf
<1>7. SaverOK(proc[w])'
  BY <1>2, <1>3, <1>5, <1>6 DEF SaverOK, Kept, Calling, Deletes
<1> QED
  BY <1>1, <1>3, <1>4, <1>5, <1>7, SaverGoes DEF At

\* The numbers of a save under way.
LEMMA InHand ==
  ASSUME StoreAssumption, StoreInv, NEW w \in Savers, ~At(w, "idle")
  PROVE  /\ proc[w].left \subseteq proc[w].staged /\ proc[w].staged \subseteq Refs /\ 0 \in Values
         /\ \A n \in proc[w].staged : n \in 0..MaxRefs /\ n \in Values
         /\ MaxRefs \in Nat /\ journal \subseteq Refs /\ \A n \in journal : n <= used.refs
         /\ used \in [refs : 0..MaxRefs, edits : Nat, faults : Nat, crashes : Nat]
         /\ proc \in [Procs -> Threads]
<1>1. proc[w].left \subseteq proc[w].staged /\ proc[w].staged \subseteq 1..used.refs
  BY Saving DEF Staged
<1> QED
  BY <1>1 DEF StoreInv, Typed, StoreAssumption, Refs, Values, World

\* A save that gives up takes the next secret to delete (llm/routes.rs).
LEMMA DeleteKeeps ==
  ASSUME StoreAssumption, StoreInv, NEW w \in Savers, NEW pc \in {"unsetting", "uncommit"}, Delete(w, pc)
  PROVE  StoreInv'
<1> DEFINE o == proc[w]
           q == proc'[w]
<1>1. w \in Procs /\ mutex = w /\ Staged(o) /\ Kept(o) /\ o.pc = pc /\ ~At(w, "idle") /\ w # None
  BY Saving DEF Delete, At
<1>2. /\ o.left \subseteq o.staged /\ o.staged \subseteq Refs /\ 0 \in Values
      /\ \A n \in o.staged : n \in 0..MaxRefs /\ n \in Values
  BY <1>1, InHand
<1>3. UNCHANGED <<vault, vlock, doc, snap, mutex, journal, row, ghost, used>>
  BY DEF Delete
<1>4. PICK r \in o.left : Goes(w, o.left \ {r}, r, 0, pc, pc)
  BY DEF Delete, Goes
<1>5. proc \in [Procs -> Threads] /\ o.left \ {r} \in SUBSET Refs /\ pc \in Places /\ r \in 0..MaxRefs
      /\ r \in o.staged
  BY <1>1, <1>2, PlacesAre, InHand
<1>6. Went(w, o.left \ {r}, r, 0, pc, pc)
  BY <1>1, <1>2, <1>4, <1>5, Calls
<1>7. Staged(o)'
  BY <1>1, <1>2, <1>3, <1>6 DEF Staged, RefsOf, Went
<1>8. Kept(o)'
  BY <1>1, <1>2, <1>3, <1>5, <1>6 DEF Kept, Calling, Deletes, Went
<1>9. SaverOK(proc[w])'
  BY <1>6, <1>7, <1>8 DEF SaverOK, Went
<1> QED
  BY <1>1, <1>3, <1>6, <1>9, SaverGoes DEF At, Went

\* A save that ends.
LEMMA EndsAtRest ==
  ASSUME StoreAssumption, proc \in [Procs -> Threads], NEW w \in Savers, Ends(w)
  PROVE  /\ proc' \in [Procs -> Threads] /\ (\A p \in Procs \ {w} : proc'[p] = proc[p])
         /\ proc'[w].pc = "idle" /\ mutex' = None /\ SaverOK(proc[w])'
<1>1. w \in Procs
  BY DEF Procs
<1>2. proc'[w] = Rest /\ (\A p \in Procs \ {w} : proc'[p] = proc[p]) /\ mutex' = None
  BY <1>1 DEF Ends
<1>3. proc' \in [Procs -> Threads] /\ proc'[w].pc = "idle"
  BY <1>2, RestIsThread DEF Ends
<1> QED
  BY <1>2, <1>3 DEF SaverOK

\* A save that could not commit has tried to delete its secrets and ends (llm/routes.rs).
LEMMA UncommittedKeeps ==
  ASSUME StoreAssumption, StoreInv, NEW w \in Savers, Uncommitted(w)
  PROVE  StoreInv'
<1>1. ~At(w, "idle") /\ ~At(w, "save") /\ ~At(w, "publish") /\ Ends(w)
      /\ UNCHANGED <<vault, vlock, doc, snap, journal, row, ghost, used>>
  BY DEF Uncommitted, At
<1>2. /\ proc' \in [Procs -> Threads] /\ (\A p \in Procs \ {w} : proc'[p] = proc[p])
      /\ proc'[w].pc = "idle" /\ mutex' = None /\ SaverOK(proc[w])'
  BY <1>1, InHand, EndsAtRest
<1>3. /\ used' \in [refs : 0..MaxRefs, edits : Nat, faults : Nat, crashes : Nat]
      /\ used'.refs = used.refs /\ used'.faults >= used.faults
  BY <1>1, InHand
<1>4. journal \subseteq journal' /\ \A n \in journal' : n \in Refs /\ n <= used.refs
  BY <1>1, InHand
<1> QED
  BY <1>1, <1>2, <1>3, <1>4, SaverKeeps

\* The end of a save that clears the journal: it names what was deleted, or published.
LEMMA ClearingKeeps ==
  ASSUME StoreAssumption, StoreInv, NEW w \in Savers, ~At(w, "idle"), ~At(w, "save"), Cleared(w), Ends(w),
         UNCHANGED <<vault, vlock, doc, row, ghost>>, snap' \in Docs, snap' = doc,
         used.faults < 2 => \A n \in proc[w].staged : vault[n] # 0 => n \in ghost.ever
  PROVE  StoreInv'
<1>1. Up /\ mutex = w
  BY Saving
<1>2. /\ proc' \in [Procs -> Threads] /\ (\A p \in Procs \ {w} : proc'[p] = proc[p])
      /\ proc'[w].pc = "idle" /\ mutex' = None /\ SaverOK(proc[w])'
  BY InHand, EndsAtRest
<1>3. /\ used' \in [refs : 0..MaxRefs, edits : Nat, faults : Nat, crashes : Nat]
      /\ used'.refs = used.refs /\ used'.faults >= used.faults /\ journal' \subseteq journal
  <2>1. used \in [refs : 0..MaxRefs, edits : Nat, faults : Nat, crashes : Nat]
    BY InHand
  <2> QED
    BY <2>1 DEF Cleared, Fault
<1>4. Typed'
  BY <1>2, <1>3 DEF Typed, StoreInv
<1>5. Locks' /\ Workers'
  BY <1>1, <1>2, <1>3, <1>4, SaverMoves DEF At
<1>6. World' /\ FrozenResolves' /\ OwnSecrets'
  BY <1>3 DEF World, StoreInv, RefsOf, FrozenResolves, OwnSecrets
<1>7. SnapshotIsCommitted'
  BY DEF SnapshotIsCommitted
<1>8. ASSUME used'.faults < 2
      PROVE  NoOrphans'
  <2>1. used.faults < 2
    BY <1>3, <1>8 DEF StoreInv, Typed
  <2>2. NoOrphans /\ \A n \in proc[w].staged : vault[n] # 0 => n \in ghost.ever
    BY <2>1 DEF StoreInv
  <2>3. journal \ proc[w].staged \subseteq journal'
    BY DEF Cleared
  <2> QED
    BY <2>2, <2>3 DEF NoOrphans
<1> QED
  BY <1>4, <1>5, <1>6, <1>7, <1>8 DEF StoreInv

\* A save that could not store its secrets clears its journal entries and ends (llm/routes.rs).
LEMMA UnjournalKeeps ==
  ASSUME StoreAssumption, StoreInv, NEW w \in Savers, Unjournal(w)
  PROVE  StoreInv'
<1>1. /\ ~At(w, "idle") /\ ~At(w, "save") /\ Cleared(w) /\ Ends(w) /\ proc[w].pc = "unsetting"
      /\ proc[w].left = {} /\ UNCHANGED <<vault, vlock, doc, snap, row, ghost>>
  BY DEF Unjournal, At
<1>2. Staged(proc[w]) /\ Kept(proc[w])
  BY <1>1, Saving
<1>3. snap' \in Docs /\ snap' = doc
  BY <1>1, <1>2 DEF Staged, StoreInv, Typed
<1>4. used.faults < 2 => \A n \in proc[w].staged : vault[n] = 0
  BY <1>1, <1>2 DEF Kept, Deletes
<1> QED
  BY <1>1, <1>3, <1>4, ClearingKeeps

\* A save that is committed is published, and clears its journal entries (llm/routes.rs).
LEMMA PublishKeeps ==
  ASSUME StoreAssumption, StoreInv, NEW w \in Savers, Publish(w)
  PROVE  StoreInv'
<1>1. /\ ~At(w, "idle") /\ ~At(w, "save") /\ Cleared(w) /\ Ends(w) /\ proc[w].pc = "publish"
      /\ snap' = proc[w].cand /\ UNCHANGED <<vault, vlock, doc, row, ghost>>
  BY DEF Publish, At
<1>2. Staged(proc[w])
  BY <1>1, Saving
<1>3. snap' \in Docs /\ snap' = doc /\ proc[w].staged \subseteq ghost.ever
  BY <1>1, <1>2 DEF Staged, StoreInv, Typed
<1> QED
  BY <1>1, <1>3, ClearingKeeps

\* The document of a save becomes the committed one, or the commit fails (llm/routes.rs, db.rs).
LEMMA CommitKeeps ==
  ASSUME StoreAssumption, StoreInv, NEW w \in Savers, Commit(w)
  PROVE  StoreInv'
<1> DEFINE o == proc[w]
           q == proc'[w]
<1>1. /\ w \in Procs /\ mutex = w /\ Staged(o) /\ Kept(o) /\ o.pc = "commit" /\ ~At(w, "idle") /\ w # None
      /\ Up /\ o \in Threads /\ ~At(w, "save") /\ ~At(w, "publish")
  BY Saving DEF Commit, At
<1>2. /\ o.left \subseteq o.staged /\ o.staged \subseteq Refs /\ proc \in [Procs -> Threads]
      /\ o.staged \subseteq journal /\ Stores(o.staged) /\ o.staged \subseteq RefsOf(o.cand)
      /\ RefsOf(o.cand) \subseteq o.staged \cup RefsOf(doc) /\ snap = doc
      /\ used \in [refs : 0..MaxRefs, edits : Nat, faults : Nat, crashes : Nat] /\ journal \subseteq Refs
      /\ \A n \in journal : n <= used.refs
  BY <1>1, InHand DEF Staged, Kept
<1>3. UNCHANGED <<vault, vlock, snap, mutex, journal, row>>
  BY DEF Commit
<1>4. CASE /\ doc' = o.cand /\ To(w, "publish") /\ UNCHANGED used
           /\ ghost' = [ghost EXCEPT !.run = @ \cup RefsOf(o.cand), !.ever = @ \cup RefsOf(o.cand)]
  <2>1. /\ q = [o EXCEPT !.pc = "publish"] /\ (\A p \in Procs \ {w} : proc'[p] = proc[p])
        /\ proc' \in [Procs -> Threads]
    BY <1>1, <1>2, <1>4, PlacesAre DEF To, Threads
  <2>2. q.pc = "publish" /\ q.left = o.left /\ q.staged = o.staged /\ q.cand = o.cand
    BY <1>1, <2>1 DEF Threads
  <2>3. RefsOf(o.cand) \subseteq Refs /\ o.cand \in Docs /\ RefsOf(doc) \subseteq ghost.run
        /\ ghost.run \subseteq ghost.ever /\ \A n \in ghost.ever : n <= used.refs
    <3>1. RefsOf(doc) \subseteq ghost.run /\ ghost.run \subseteq ghost.ever /\ \A n \in ghost.ever : n <= used.refs
      BY DEF StoreInv, World
    <3>2. ghost.run \subseteq Refs
      BY DEF StoreInv, Typed
    <3>3. o.cand \in Docs
      BY <1>1 DEF Threads
    <3> QED
      BY <1>2, <3>1, <3>2, <3>3
  <2>4. /\ ghost' \in [run : SUBSET Refs, ever : SUBSET Refs, owner : [Refs -> Routes \cup {0}],
                       secret : Values, row : {0} \cup Secrets]
        /\ ghost'.run = ghost.run \cup RefsOf(o.cand) /\ ghost'.ever = ghost.ever \cup RefsOf(o.cand)
        /\ ghost'.owner = ghost.owner /\ ghost'.secret = ghost.secret /\ ghost'.row = ghost.row
    BY <1>4, <2>3 DEF StoreInv, Typed
  <2>5. Typed'
    BY <1>3, <1>4, <2>1, <2>3, <2>4 DEF Typed, StoreInv
  <2>6. Staged(o)'
    BY <1>1, <1>2, <1>4, <2>2, <2>4 DEF Staged
  <2>7. SaverOK(proc[w])'
    BY <2>2, <2>6 DEF SaverOK, Kept, Calling
  <2>8. used'.faults >= used.faults
    BY <1>2, <1>4
  <2>9. Locks' /\ Workers'
    BY <1>1, <1>3, <1>4, <2>1, <2>2, <2>4, <2>5, <2>7, <2>8, SaverMoves
  <2>10. World'
    <3>1. RefsOf(doc)' = RefsOf(o.cand)
      BY <1>4 DEF RefsOf
    <3>2. RefsOf(doc)' \subseteq ghost'.run /\ ghost'.run \subseteq ghost'.ever
      BY <2>3, <2>4, <3>1
    <3>3. \A n \in RefsOf(o.cand) : n <= used.refs
      BY <1>2, <2>3
    <3>4. \A n \in ghost'.ever \cup journal' : n <= used'.refs
      BY <1>2, <1>3, <1>4, <2>3, <2>4, <3>3
    <3> QED
      BY <1>3, <2>4, <3>2, <3>4 DEF World, StoreInv
  <2>11. FrozenResolves'
    <3>1. \A n \in ghost.run : vault[n] = n
      BY DEF StoreInv, FrozenResolves
    <3>2. \A n \in RefsOf(o.cand) : vault[n] = n
      BY <1>2, <2>3, <3>1 DEF Stores
    <3> QED
      BY <1>3, <2>4, <3>1, <3>2 DEF FrozenResolves
  <2>12. OwnSecrets'
    BY <1>1, <1>4, <2>4 DEF OwnSecrets, Staged
  <2>13. SnapshotIsCommitted'
    BY <1>1, <1>3 DEF SnapshotIsCommitted
  <2>14. (used'.faults < 2 => NoOrphans')
    BY <1>3, <1>4, <2>4 DEF NoOrphans, StoreInv
  <2> QED
    BY <2>5, <2>9, <2>10, <2>11, <2>12, <2>13, <2>14 DEF StoreInv
<1>5. CASE /\ Fault /\ proc' = [proc EXCEPT ![w].pc = "uncommit", ![w].left = o.staged]
           /\ UNCHANGED <<doc, ghost>>
  <2>1. /\ q = [o EXCEPT !.pc = "uncommit", !.left = o.staged] /\ (\A p \in Procs \ {w} : proc'[p] = proc[p])
        /\ proc' \in [Procs -> Threads]
    BY <1>1, <1>2, <1>5, PlacesAre DEF Threads
  <2>2. q.pc = "uncommit" /\ q.left = o.staged /\ q.staged = o.staged /\ q.cand = o.cand
    BY <1>1, <2>1 DEF Threads
  <2>3. /\ used' \in [refs : 0..MaxRefs, edits : Nat, faults : Nat, crashes : Nat]
        /\ used'.refs = used.refs /\ used'.faults >= used.faults
    BY <1>2, <1>5 DEF Fault
  <2>4. Staged(o)'
    BY <1>1, <1>2, <1>3, <1>5, <2>2, <2>3 DEF Staged, RefsOf
  <2>5. SaverOK(proc[w])'
    BY <2>2, <2>4 DEF SaverOK, Kept, Calling
  <2>6. journal \subseteq journal' /\ \A n \in journal' : n \in Refs /\ n <= used.refs
    BY <1>2, <1>3
  <2> QED
    BY <1>1, <1>3, <1>5, <2>1, <2>2, <2>3, <2>5, <2>6, SaverKeeps
<1> QED
  BY <1>4, <1>5 DEF Commit

\* A save begins: its references are new, and its document names them and what the
\* committed one named (llm/routes.rs).
LEMMA BeginKeeps ==
  ASSUME StoreAssumption, StoreInv, NEW w \in Savers, Begin(w)
  PROVE  StoreInv'
<1> DEFINE Ref(given, auth) == [r \in Routes |-> IF r \in given THEN Fresh(r, given) ELSE auth[r]]
           Mine(given, auth) == {Ref(given, auth)[r] : r \in given}
<1>1. PICK given \in SUBSET Routes, auth \in [Routes -> {0} \cup RefsOf(snap)] :
        /\ Up /\ At(w, "idle") /\ mutex = None /\ Accepted(auth, given)
        /\ used.refs + Cardinality(given) <= MaxRefs
        /\ mutex' = w /\ used' = [used EXCEPT !.refs = @ + Cardinality(given)]
        /\ proc' = [proc EXCEPT ![w] = [Rest EXCEPT !.pc = "journal", !.left = Mine(given, auth),
                                          !.staged = Mine(given, auth),
                                          !.cand = [rev |-> snap.rev + 1, ref |-> Ref(given, auth)]]]
        /\ ghost' = [ghost EXCEPT !.owner = [n \in 1..MaxRefs |-> IF n \in Mine(given, auth)
                                               THEN CHOOSE r \in given : Ref(given, auth)[r] = n
                                               ELSE ghost.owner[n]]]
        /\ UNCHANGED <<vault, vlock, doc, snap, journal, row>>
  BY DEF Begin
<1>2. /\ Typed /\ World /\ snap = doc /\ OwnSecrets /\ MaxRefs \in Nat /\ used.refs \in Nat
      /\ used \in [refs : 0..MaxRefs, edits : Nat, faults : Nat, crashes : Nat]
      /\ proc \in [Procs -> Threads] /\ w \in Procs /\ w # None
  BY <1>1 DEF StoreInv, SnapshotIsCommitted, StoreAssumption, Typed, Procs
<1>3. /\ Cardinality(given) \in Nat
      /\ \A r \in given : Fresh(r, given) \in (used.refs + 1)..(used.refs + Cardinality(given))
      /\ \A r, s \in given : Fresh(r, given) = Fresh(s, given) => r = s
  BY <1>2, FreshRefs
<1> DEFINE ref == [r \in Routes |-> IF r \in given THEN Fresh(r, given) ELSE auth[r]]
           mine == {ref[r] : r \in given}
           cand == [rev |-> snap.rev + 1, ref |-> ref]
           q == [Rest EXCEPT !.pc = "journal", !.left = mine, !.staged = mine, !.cand = cand]
           o == proc[w]
<1>4. /\ proc' = [proc EXCEPT ![w] = q]
      /\ ghost' = [ghost EXCEPT !.owner = [n \in 1..MaxRefs |-> IF n \in mine
                                              THEN CHOOSE r \in given : ref[r] = n ELSE ghost.owner[n]]]
  BY <1>1
<1>5. ref = [r \in Routes |-> ref[r]] /\ mine = {ref[r] : r \in given}
  OBVIOUS
<1>6. /\ \A r \in given : ref[r] = Fresh(r, given)
      /\ \A r \in Routes \ given : ref[r] \in {0, doc.ref[r]}
  <2>1. \A r \in given : r \in Routes /\ ref[r] = Fresh(r, given)
    OBVIOUS
  <2>2. \A r \in Routes \ given : ref[r] = auth[r]
    OBVIOUS
  <2>3. \A r \in Routes \ given : auth[r] \in {0, doc.ref[r]}
    BY <1>1, <1>2 DEF Accepted
  <2> QED
    BY <2>1, <2>2, <2>3
<1> HIDE DEF ref
<1>7. \A n \in mine : n \in Refs /\ n > used.refs /\ n <= used.refs + Cardinality(given)
  <2> SUFFICES ASSUME NEW r \in given
               PROVE  ref[r] \in Refs /\ ref[r] > used.refs /\ ref[r] <= used.refs + Cardinality(given)
    OBVIOUS
  <2>1. ref[r] \in (used.refs + 1)..(used.refs + Cardinality(given))
    BY <1>3, <1>6
  <2>2. used.refs + Cardinality(given) <= MaxRefs
    BY <1>1
  <2> QED
    BY <1>2, <1>3, <2>1, <2>2 DEF Refs
<1>8. /\ used'.refs = used.refs + Cardinality(given) /\ used'.faults = used.faults /\ used'.refs >= used.refs
      /\ used' \in [refs : 0..MaxRefs, edits : Nat, faults : Nat, crashes : Nat] /\ used.faults \in Nat
  BY <1>1, <1>2, <1>3
<1>9. ref \in [Routes -> 0..MaxRefs] /\ RefsOf(doc) \subseteq Refs /\ doc.rev \in Nat
  <2>1. doc.ref \in [Routes -> 0..MaxRefs] /\ doc.rev \in Nat
    BY <1>2 DEF Typed, Docs
  <2>2. \A r \in Routes : ref[r] \in 0..MaxRefs
    <3> SUFFICES ASSUME NEW r \in Routes
                 PROVE  ref[r] \in 0..MaxRefs
      OBVIOUS
    <3>1. CASE r \in given
      BY <1>1, <1>2, <1>3, <1>6, <3>1
    <3>2. CASE r \notin given
      BY <1>2, <1>6, <2>1, <3>2
    <3> QED
      BY <3>1, <3>2
  <2>3. RefsOf(doc) \subseteq Refs
    BY <1>2, <2>1 DEF RefsOf, Refs
  <2> QED
    BY <1>5, <2>1, <2>2, <2>3
<1> HIDE DEF mine
<1>10. cand \in Docs /\ cand.rev = doc.rev + 1 /\ cand.ref = ref /\ mine \subseteq Refs
  BY <1>2, <1>7, <1>9 DEF Docs
<1>11. proc' = [proc EXCEPT ![w] = q]
  BY <1>4
<1> HIDE DEF cand
<1>12. /\ q \in Threads /\ q.pc = "journal" /\ q.left = mine /\ q.staged = mine /\ q.cand = cand
  BY <1>10, RestIsThread, PlacesAre DEF Threads
<1> HIDE DEF q
<1>13. /\ proc' \in [Procs -> Threads] /\ proc'[w] = q /\ \A p \in Procs \ {w} : proc'[p] = proc[p]
  BY <1>2, <1>11, <1>12
<1>14. /\ ghost'.owner = [n \in Refs |-> IF n \in mine THEN CHOOSE r \in given : ref[r] = n ELSE ghost.owner[n]]
       /\ ghost'.run = ghost.run /\ ghost'.ever = ghost.ever
       /\ ghost'.secret = ghost.secret /\ ghost'.row = ghost.row
       /\ ghost' = [run |-> ghost'.run, ever |-> ghost'.ever, owner |-> ghost'.owner,
                    secret |-> ghost'.secret, row |-> ghost'.row]
  <2>1. ghost \in [run : SUBSET Refs, ever : SUBSET Refs, owner : [Refs -> Routes \cup {0}],
                   secret : Values, row : {0} \cup Secrets]
    BY <1>2 DEF Typed
  <2>2. ghost' = [ghost EXCEPT !.owner = [n \in Refs |-> IF n \in mine
                                            THEN CHOOSE r \in given : ref[r] = n ELSE ghost.owner[n]]]
    BY <1>4 DEF Refs
  <2> QED
    BY <2>1, <2>2
<1>15. \A r \in given : ghost'.owner[ref[r]] = r
  <2> SUFFICES ASSUME NEW r \in given
               PROVE  ghost'.owner[ref[r]] = r
    OBVIOUS
  <2>1. ref[r] \in mine /\ ref[r] \in Refs
    BY <1>5, <1>7
  <2>2. ghost'.owner[ref[r]] = CHOOSE s \in given : ref[s] = ref[r]
    BY <1>14, <2>1
  <2>3. \A s \in given : ref[s] = ref[r] => s = r
    BY <1>3, <1>6
  <2> QED
    BY <2>2, <2>3
<1>16. \A n \in Refs \ mine : ghost'.owner[n] = ghost.owner[n]
  BY <1>14
<1>17. \A n \in mine : n \notin ghost.ever /\ n \notin RefsOf(doc)
  <2>1. \A n \in ghost.ever : n <= used.refs
    BY <1>2 DEF World
  <2>2. RefsOf(doc) \subseteq ghost.ever /\ ghost.ever \subseteq Refs
    BY <1>2 DEF World, Typed
  <2>3. ASSUME NEW n \in mine, n \in ghost.ever
        PROVE  FALSE
    BY <1>2, <1>7, <2>1, <2>3 DEF Refs
  <2> QED
    BY <2>2, <2>3
<1>18. \A r \in Routes : doc.ref[r] # 0 => ghost'.owner[doc.ref[r]] = r
  <2> SUFFICES ASSUME NEW r \in Routes, doc.ref[r] # 0
               PROVE  ghost'.owner[doc.ref[r]] = r
    OBVIOUS
  <2>1. doc.ref[r] \in RefsOf(doc)
    BY DEF RefsOf
  <2>2. doc.ref[r] \in Refs \ mine
    BY <1>9, <1>17, <2>1
  <2> QED
    BY <1>2, <1>16, <2>2 DEF OwnSecrets
<1>19. \A n \in Refs : ghost'.owner[n] \in Routes \cup {0}
  <2> SUFFICES ASSUME NEW n \in Refs
               PROVE  ghost'.owner[n] \in Routes \cup {0}
    OBVIOUS
  <2>1. CASE n \in mine
    BY <1>5, <1>15, <2>1
  <2>2. CASE n \notin mine
    BY <1>2, <1>16, <2>2 DEF Typed
  <2> QED
    BY <2>1, <2>2
<1>20. Typed'
  <2>1. ghost'.owner \in [Refs -> Routes \cup {0}]
    BY <1>14, <1>19
  <2>2. ghost' \in [run : SUBSET Refs, ever : SUBSET Refs, owner : [Refs -> Routes \cup {0}],
                    secret : Values, row : {0} \cup Secrets]
    BY <1>2, <1>14, <2>1 DEF Typed
  <2>3. mutex' \in Savers \cup {None}
    BY <1>1
  <2> QED
    BY <1>1, <1>2, <1>8, <1>13, <2>2, <2>3 DEF Typed
<1>21. Staged(o)'
  <2>1. mine \subseteq 1..used'.refs
    BY <1>2, <1>3, <1>7, <1>8 DEF Refs
  <2>2. \A r \in Routes : ref[r] # 0 => ghost'.owner[ref[r]] = r
    BY <1>6, <1>15, <1>18
  <2>3. mine \subseteq RefsOf(cand)
    <3> SUFFICES ASSUME NEW r \in given
                 PROVE  ref[r] \in RefsOf(cand)
      BY <1>5
    <3>1. ref[r] # 0
      BY <1>5, <1>7 DEF Refs
    <3> QED
      BY <1>10, <3>1 DEF RefsOf
  <2>4. RefsOf(cand) \subseteq mine \cup RefsOf(doc)
    <3> SUFFICES ASSUME NEW r \in Routes, ref[r] # 0
                 PROVE  ref[r] \in mine \cup RefsOf(doc)
      BY <1>10 DEF RefsOf
    <3>1. CASE r \in given
      BY <1>5, <3>1
    <3>2. CASE r \notin given
      BY <1>6, <3>2 DEF RefsOf
    <3> QED
      BY <3>1, <3>2
  <2>5. doc' = doc /\ snap' = doc /\ RefsOf(doc)' = RefsOf(doc) /\ journal' = journal
    BY <1>1, <1>2 DEF RefsOf
  <2>6. o' = q /\ mine \cap ghost'.ever = {}
    BY <1>13, <1>14, <1>17
  <2> QED
    BY <1>10, <1>12, <2>1, <2>2, <2>3, <2>4, <2>5, <2>6 DEF Staged
<1>22. SaverOK(proc[w])'
  BY <1>12, <1>13, <1>21 DEF SaverOK, Kept, Calling
<1>23. Locks' /\ Workers'
  <2>1. proc'[w].pc = "journal" /\ used'.faults >= used.faults
    BY <1>8, <1>12, <1>13
  <2> QED
    BY <1>1, <1>13, <1>14, <1>20, <1>22, <2>1, SaverMoves DEF At
<1>24. World'
  <2>1. \A n \in ghost.ever \cup journal : n <= used'.refs
    <3>1. \A n \in ghost.ever \cup journal : n <= used.refs /\ n \in Refs
      BY <1>2 DEF World, Typed
    <3> QED
      BY <1>2, <1>3, <1>8, <3>1 DEF Refs
  <2>2. RefsOf(doc)' = RefsOf(doc)
    BY <1>1 DEF RefsOf
  <2> QED
    BY <1>1, <1>2, <1>14, <2>1, <2>2 DEF World
<1>25. FrozenResolves' /\ SnapshotIsCommitted' /\ OwnSecrets'
  BY <1>1, <1>2, <1>14, <1>18 DEF FrozenResolves, SnapshotIsCommitted, OwnSecrets, StoreInv
<1>26. (used'.faults < 2 => NoOrphans')
  BY <1>1, <1>8, <1>14 DEF NoOrphans, StoreInv
<1> QED
  BY <1>20, <1>23, <1>24, <1>25, <1>26 DEF StoreInv

(* ------------------------- an access to the keychain ------------------------- *)

\* An access moves its thread on and changes nothing else of it.
Same(p) ==
  /\ proc' \in [Procs -> Threads] /\ \A r \in Procs \ {p} : proc'[r] = proc[r]
  /\ proc'[p].left = proc[p].left /\ proc'[p].staged = proc[p].staged /\ proc'[p].cand = proc[p].cand
  /\ proc'[p].name = proc[p].name /\ proc'[p].value = proc[p].value /\ proc'[p].ok = proc[p].ok
  /\ proc'[p].bad = proc[p].bad /\ proc'[p].old = proc[p].old /\ proc'[p].res = proc[p].res
Counts ==
  /\ used' \in [refs : 0..MaxRefs, edits : Nat, faults : Nat, crashes : Nat] /\ used'.refs = used.refs
  /\ used'.faults \in Nat /\ used.faults \in Nat
Faulted == Counts /\ used'.faults = used.faults + 1
Unfaulted == Counts /\ used'.faults = used.faults

\* The item is read as it is.
Loaded(p) == vlock' = p /\ proc'[p].pc = "save" /\ proc'[p].copy = vault /\ vault' = vault /\ Unfaulted
\* It is written with one entry changed.
Saved(p)  == /\ vlock' = None /\ proc'[p].pc = proc[p].ok /\ Unfaulted
             /\ vault' = [vault EXCEPT ![proc[p].name] = proc[p].value]
\* It can be neither read nor written.
Missed(p) == vlock' = None /\ proc'[p].pc = proc[p].bad /\ vault' = vault /\ Faulted

\* A step of a thread's place.
LEMMA ToPlace ==
  ASSUME proc \in [Procs -> Threads], NEW p \in Procs, NEW pc \in Places, To(p, pc)
  PROVE  Same(p) /\ proc'[p].pc = pc /\ proc'[p].copy = proc[p].copy
<1>1. proc[p] \in Threads
  OBVIOUS
<1>2. proc'[p] = [proc[p] EXCEPT !.pc = pc] /\ \A r \in Procs \ {p} : proc'[r] = proc[r]
  BY DEF To
<1>3. proc'[p] \in Threads
  BY <1>1, <1>2 DEF Threads
<1>4. proc' \in [Procs -> Threads]
  BY <1>2, <1>3 DEF To
<1> QED
  BY <1>1, <1>2, <1>4 DEF Same, Threads

\* The counters after a fault and without one.
LEMMA Counting ==
  ASSUME StoreInv
  PROVE  (Fault => Faulted) /\ (used' = used => Unfaulted)
<1>1. used \in [refs : 0..MaxRefs, edits : Nat, faults : Nat, crashes : Nat]
  BY DEF StoreInv, Typed
<1> QED
  BY <1>1 DEF Fault, Faulted, Unfaulted, Counts

\* What reading the item does (keychain.rs).
LEMMA LoadMoves ==
  ASSUME StoreAssumption, StoreInv, NEW p \in Procs, Load(p)
  PROVE  /\ Same(p) /\ (Loaded(p) \/ Missed(p))
         /\ proc[p].pc = "load" /\ UNCHANGED <<doc, snap, mutex, journal, row, ghost>>
<1>1. proc \in [Procs -> Threads] /\ proc[p] \in Threads /\ vault \in [0..MaxRefs -> Values]
  BY DEF StoreInv, Typed
<1>2. proc[p].pc = "load" /\ vlock = None /\ UNCHANGED <<vault, doc, snap, mutex, journal, row, ghost>>
  BY DEF Load, At
<1>3. CASE vlock' = p /\ proc' = [proc EXCEPT ![p].pc = "save", ![p].copy = vault] /\ UNCHANGED used
  <2>1. proc'[p] = [proc[p] EXCEPT !.pc = "save", !.copy = vault] /\ \A r \in Procs \ {p} : proc'[r] = proc[r]
    BY <1>1, <1>3
  <2>2. "save" \in Places
    BY PlacesAre
  <2>3. proc'[p] \in Threads
    BY <1>1, <2>1, <2>2 DEF Threads
  <2>4. proc' \in [Procs -> Threads]
    BY <1>1, <1>3, <2>3
  <2>5. Same(p) /\ proc'[p].pc = "save" /\ proc'[p].copy = vault
    BY <1>1, <2>1, <2>4 DEF Same, Threads
  <2> QED
    BY <1>2, <1>3, <2>5, Counting DEF Loaded
<1>4. CASE Fault /\ To(p, proc[p].bad) /\ UNCHANGED vlock
  <2>1. proc[p].bad \in Places
    BY <1>1 DEF Threads
  <2>2. Same(p) /\ proc'[p].pc = proc[p].bad
    BY <1>1, <1>4, <2>1, ToPlace
  <2> QED
    BY <1>2, <1>4, <2>2, Counting DEF Missed
<1> QED
  BY <1>3, <1>4 DEF Load

\* What writing the item does: who writes has read it as it is (keychain.rs).
LEMMA SaveMoves ==
  ASSUME StoreAssumption, StoreInv, NEW p \in Procs, Save(p)
  PROVE  /\ Same(p) /\ (Saved(p) \/ Missed(p))
         /\ proc[p].pc = "save" /\ UNCHANGED <<doc, snap, mutex, journal, row, ghost>>
<1>1. proc \in [Procs -> Threads] /\ proc[p] \in Threads
  BY DEF StoreInv, Typed
<1>2. /\ proc[p].pc = "save" /\ vlock' = None /\ UNCHANGED <<doc, snap, mutex, journal, row, ghost>>
      /\ proc[p].copy = vault
  BY DEF Save, At, StoreInv, Locks
<1>3. proc[p].ok \in Places /\ proc[p].bad \in Places
  BY <1>1 DEF Threads
<1>4. CASE /\ vault' = [proc[p].copy EXCEPT ![proc[p].name] = proc[p].value]
           /\ To(p, proc[p].ok) /\ UNCHANGED used
  BY <1>1, <1>2, <1>3, <1>4, ToPlace, Counting DEF Saved
<1>5. CASE Fault /\ To(p, proc[p].bad) /\ UNCHANGED vault
  BY <1>1, <1>2, <1>3, <1>5, ToPlace, Counting DEF Missed
<1> QED
  BY <1>4, <1>5 DEF Save

\* An access keeps the types, and the locks if its thread goes where it should.
LEMMA AccessLocks ==
  ASSUME StoreAssumption, StoreInv, NEW p \in Procs, Same(p), Loaded(p) \/ Saved(p) \/ Missed(p),
         proc[p].pc \in {"load", "save"}, UNCHANGED <<doc, snap, mutex, journal, row, ghost>>,
         proc[p].pc = "save" \/ vlock = None,
         Saved(p) => proc[p].ok # "save", Missed(p) => proc[p].bad # "save",
         p # Editor => proc'[p].pc # "idle"
  PROVE  Typed' /\ Locks'
<1>1. Typed /\ Locks /\ proc[p] \in Threads /\ Typed
  BY DEF StoreInv, Typed
<1>2. vault' \in [0..MaxRefs -> Values]
  <2>1. vault \in [0..MaxRefs -> Values] /\ proc[p].name \in 0..MaxRefs /\ proc[p].value \in Values
    BY <1>1 DEF Typed, Threads
  <2> QED
    BY <2>1 DEF Loaded, Saved, Missed
<1>3. Counts
  BY DEF Loaded, Saved, Missed, Faulted, Unfaulted
<1>4. Typed'
  BY <1>1, <1>2, <1>3 DEF Typed, Same, Counts
<1>5. None \notin Procs /\ Editor \in Procs /\ Opener \in Procs /\ Savers \subseteq Procs
      /\ Editor \notin Savers /\ Opener \notin Savers /\ Editor # Opener
  BY DEF StoreAssumption, Procs
<1>6. \A r \in Procs \ {p} : proc[r].pc # "save" /\ proc'[r] = proc[r] /\ vlock # r
  <2> SUFFICES ASSUME NEW r \in Procs \ {p}
               PROVE  proc[r].pc # "save" /\ vlock # r
    BY DEF Same
  <2>1. proc[p].pc = "save" => vlock = p
    BY <1>1 DEF Locks, At
  <2>2. vlock = r <=> proc[r].pc = "save"
    BY <1>1 DEF Locks, At
  <2> QED
    BY <1>5, <2>1, <2>2
<1>7. \A r \in Procs : (vlock' = r <=> proc'[r].pc = "save") /\ (proc'[r].pc = "save" => proc'[r].copy = vault')
  <2>1. CASE Loaded(p)
    BY <1>6, <2>1 DEF Loaded
  <2>2. CASE Saved(p)
    BY <1>5, <1>6, <2>2 DEF Saved
  <2>3. CASE Missed(p)
    BY <1>5, <1>6, <2>3 DEF Missed
  <2> QED
    BY <2>1, <2>2, <2>3
<1>8. \A w \in Savers : mutex' = w <=> ~(proc'[w].pc = "idle")
  <2> SUFFICES ASSUME NEW w \in Savers
               PROVE  mutex' = w <=> ~(proc'[w].pc = "idle")
    OBVIOUS
  <2>1. mutex = w <=> ~(proc[w].pc = "idle")
    BY <1>1 DEF Locks, At
  <2>2. CASE w = p
    BY <1>5, <2>1, <2>2
  <2>3. CASE w # p
    BY <1>5, <1>6, <2>1, <2>3
  <2> QED
    BY <2>2, <2>3
<1>9. ASSUME proc'[Opener].pc # "idle"
      PROVE  mutex' = None /\ proc'[Editor].pc = "idle" /\ ghost'.run = RefsOf(doc')
  <2>1. proc[Opener].pc # "idle"
    <3>1. CASE p = Opener
      BY <3>1
    <3>2. CASE p # Opener
      BY <1>5, <1>6, <1>9, <3>2
    <3> QED
      BY <3>1, <3>2
  <2>2. mutex = None /\ proc[Editor].pc = "idle" /\ ghost.run = RefsOf(doc)
    BY <1>1, <2>1 DEF Locks, Up, At
  <2>3. p # Editor
    BY <2>2
  <2> QED
    BY <1>5, <1>6, <2>2, <2>3
<1> QED
  BY <1>4, <1>7, <1>8, <1>9 DEF Locks, At, Up, RefsOf

\* What a failed access, and one that reads, keeps.
LEMMA ReadWorld ==
  ASSUME StoreAssumption, StoreInv, Typed', NEW p \in Procs, Loaded(p) \/ Missed(p),
         UNCHANGED <<doc, snap, mutex, journal, row, ghost>>, Up' => Up
  PROVE  World' /\ FrozenResolves' /\ OwnSecrets' /\ SnapshotIsCommitted' /\ (used'.faults < 2 => NoOrphans')
<1>1. vault' = vault /\ used'.refs = used.refs /\ used'.faults >= used.faults
  BY DEF Loaded, Missed, Faulted, Unfaulted, Counts
<1>2. \A n \in journal : n <= used.refs
  BY DEF StoreInv, World
<1>3. World' /\ FrozenResolves' /\ OwnSecrets' /\ (used'.faults < 2 => NoOrphans')
  BY <1>1, <1>2, QuietWorld
<1>4. SnapshotIsCommitted'
  BY DEF StoreInv, SnapshotIsCommitted
<1> QED
  BY <1>3, <1>4

\* What writing an entry keeps: the reference written belongs to no run, and is found in
\* the journal if a secret is stored.
LEMMA WriteWorld ==
  ASSUME StoreAssumption, StoreInv, Typed', NEW p \in Procs, Saved(p), proc[p] \in Threads,
         proc[p].name # Key => /\ proc[p].name \notin ghost.run /\ proc[p].value \in {0, proc[p].name}
                               /\ (proc[p].value # 0 => proc[p].name \in journal),
         proc[p].name = Key => proc[p].value \in {0} \cup Secrets,
         UNCHANGED <<doc, snap, mutex, journal, row, ghost>>, Up' => Up
  PROVE  World' /\ FrozenResolves' /\ OwnSecrets' /\ SnapshotIsCommitted' /\ (used'.faults < 2 => NoOrphans')
<1>1. /\ vault \in [0..MaxRefs -> Values] /\ World /\ FrozenResolves /\ proc[p].name \in 0..MaxRefs
      /\ used'.refs = used.refs /\ used'.faults = used.faults /\ MaxRefs \in Nat
      /\ ghost.run \subseteq Refs
  BY DEF StoreInv, Typed, Saved, Unfaulted, Counts, Threads, StoreAssumption
<1>2. /\ vault'[proc[p].name] = proc[p].value
      /\ \A n \in 0..MaxRefs : n # proc[p].name => vault'[n] = vault[n]
  BY <1>1 DEF Saved
<1>3. Key \in 0..MaxRefs /\ Key \notin Refs /\ Refs \subseteq 0..MaxRefs
  BY <1>1 DEF Key, Refs
<1>4. \A n \in Refs : vault'[n] \in {0, n}
  BY <1>1, <1>2, <1>3 DEF World
<1>5. vault'[Key] \in {0} \cup Secrets
  BY <1>1, <1>2, <1>3 DEF World
<1>6. World'
  BY <1>1, <1>4, <1>5 DEF World, RefsOf
<1>7. FrozenResolves'
  BY <1>1, <1>2, <1>3 DEF FrozenResolves
<1>8. OwnSecrets' /\ SnapshotIsCommitted'
  BY DEF StoreInv, OwnSecrets, SnapshotIsCommitted
<1>9. ASSUME used'.faults < 2
      PROVE  NoOrphans'
  <2>1. NoOrphans
    BY <1>1, <1>9 DEF StoreInv
  <2> QED
    BY <1>1, <1>2, <1>3, <2>1 DEF NoOrphans, Refs
<1> QED
  BY <1>6, <1>7, <1>8, <1>9

(* ----------------------- who goes to the keychain, and why ----------------------- *)

\* A thread that reads or writes the item.
Accesses(p) ==
  /\ Same(p) /\ (Loaded(p) \/ Saved(p) \/ Missed(p)) /\ Calling(proc[p])
  /\ UNCHANGED <<doc, snap, mutex, journal, row, ghost>> /\ (proc[p].pc = "save" \/ vlock = None)

\* An access to the keychain item is one of the cases Accesses lists (keychain.rs).
LEMMA AccessIs ==
  ASSUME StoreAssumption, StoreInv, NEW p \in Procs, Load(p) \/ Save(p)
  PROVE  Accesses(p)
<1>1. CASE Load(p)
  BY <1>1, LoadMoves DEF Accesses, Calling, Load
<1>2. CASE Save(p)
  BY <1>2, SaveMoves DEF Accesses, Calling
<1> QED
  BY <1>1, <1>2

\* A save that stores a secret, or deletes it again (llm/routes.rs).
LEMMA SaverAccess ==
  ASSUME StoreAssumption, StoreInv, NEW w \in Savers, Accesses(w)
  PROVE  StoreInv'
<1> DEFINE o == proc[w]
<1>1. /\ w \in Procs /\ mutex = w /\ Staged(o) /\ Kept(o) /\ Calling(o) /\ w # Editor /\ w # Opener
      /\ Up /\ o \in Threads /\ o.pc \in {"load", "save"}
  BY Saving DEF Accesses, Calling, At
<1>2. /\ Same(w) /\ (Loaded(w) \/ Saved(w) \/ Missed(w)) /\ (o.pc = "save" \/ vlock = None)
      /\ UNCHANGED <<doc, snap, mutex, journal, row, ghost>>
  BY DEF Accesses
<1>3. /\ o.staged \cap ghost.ever = {} /\ o.staged \subseteq journal /\ o.staged \subseteq Refs
      /\ o.name \in o.staged \ o.left /\ ghost.run \subseteq ghost.ever /\ Key \notin Refs /\ MaxRefs \in Nat
  BY <1>1, InHand DEF Staged, Kept, Calling, StoreInv, World, Key, Refs, At
<1>4. /\ o.ok \in {"set", "unsetting", "uncommit"} /\ o.bad \in {"unset", "unsetting", "uncommit"}
      /\ o.value \in {0, o.name}
  BY <1>1 DEF Kept
<1>5. Counts /\ used'.faults >= used.faults
  BY <1>2 DEF Loaded, Saved, Missed, Faulted, Unfaulted, Counts
<1>6. o'.pc \in {"save", "set", "unset", "unsetting", "uncommit"}
  BY <1>2, <1>4 DEF Loaded, Saved, Missed
<1>7. Typed' /\ Locks'
  BY <1>1, <1>2, <1>4, <1>6, AccessLocks
<1>8. Staged(o)'
  <2>1. o'.left = o.left /\ o'.staged = o.staged /\ o'.cand = o.cand
    BY <1>2 DEF Same
  <2>2. o.pc # "publish" /\ o.pc # "journal" /\ o'.pc # "publish" /\ o'.pc # "journal"
    BY <1>1, <1>6
  <2> QED
    BY <1>1, <1>2, <1>5, <2>1, <2>2 DEF Staged, RefsOf, Counts
<1>9. Kept(o)'
  <2>1. /\ o'.left = o.left /\ o'.staged = o.staged /\ o'.name = o.name /\ o'.value = o.value
        /\ o'.ok = o.ok /\ o'.bad = o.bad
    BY <1>2 DEF Same
  <2>2. CASE Loaded(w)
    <3>1. o'.pc = "save" /\ vault' = vault /\ used'.faults = used.faults
      BY <2>2 DEF Loaded, Unfaulted
    <3> QED
      BY <1>1, <2>1, <3>1 DEF Kept, Calling, Stores, Deletes
  <2>3. CASE Missed(w)
    <3>1. o'.pc = o.bad /\ vault' = vault /\ used'.faults = used.faults + 1 /\ used.faults \in Nat
      BY <2>3 DEF Missed, Faulted, Counts
    <3>2. CASE o.bad = "unset"
      BY <3>1, <3>2 DEF Kept, Calling
    <3>3. CASE o.bad = "unsetting"
      <4>1. used.faults # 0
        BY <1>1, <3>3 DEF Kept, Deletes
      <4> QED
        BY <3>1, <3>3, <4>1 DEF Kept, Calling, Deletes
    <3>4. CASE o.bad = "uncommit"
      BY <3>1, <3>4 DEF Kept, Calling
    <3> QED
      BY <1>4, <3>2, <3>3, <3>4
  <2>4. CASE Saved(w)
    <3>1. /\ o'.pc = o.ok /\ vault' = [vault EXCEPT ![o.name] = o.value] /\ used'.faults = used.faults
          /\ vault \in [0..MaxRefs -> Values] /\ o.name \in 0..MaxRefs
      BY <1>1, <2>4 DEF Saved, Unfaulted, StoreInv, Typed, Threads
    <3>2. vault'[o.name] = o.value /\ \A n \in Refs : n # o.name => vault'[n] = vault[n]
      BY <1>3, <3>1 DEF Refs
    <3>3. CASE o.ok = "set"
      <4>1. o.value = o.name /\ Stores((o.staged \ o.left) \ {o.name})
        BY <1>1, <3>3 DEF Kept
      <4>2. \A n \in o.staged \ o.left : vault'[n] = n
        BY <1>3, <3>2, <4>1 DEF Stores
      <4> QED
        BY <2>1, <3>1, <3>3, <4>2 DEF Kept, Calling, Stores
    <3>4. CASE o.ok = "unsetting"
      <4>1. o.value = 0 /\ Deletes((o.staged \ o.left) \ {o.name})
        BY <1>1, <3>4 DEF Kept
      <4>2. used.faults < 2 => \A n \in o.staged \ o.left : vault'[n] = 0
        BY <1>3, <3>2, <4>1 DEF Deletes
      <4>3. used.faults # 0
        BY <4>1 DEF Deletes
      <4> QED
        BY <2>1, <3>1, <3>4, <4>2, <4>3 DEF Kept, Calling, Deletes
    <3>5. CASE o.ok = "uncommit"
      BY <3>1, <3>5 DEF Kept, Calling
    <3> QED
      BY <1>4, <3>3, <3>4, <3>5
  <2> QED
    BY <1>2, <2>2, <2>3, <2>4
<1>10. SaverOK(proc[w])'
  BY <1>6, <1>8, <1>9 DEF SaverOK
<1>11. vault'[Key] = vault[Key]
  BY <1>1, <1>2, <1>3 DEF Loaded, Saved, Missed, StoreInv, Typed, Threads, Key
<1>12. Workers' /\ (Up' => Up)
  <2>1. \A p \in Procs \ {w} : proc'[p] = proc[p]
    BY <1>2 DEF Same
  <2> QED
    BY <1>1, <1>2, <1>5, <1>10, <1>11, <2>1, SaverWorkers DEF Counts
<1>13. World' /\ FrozenResolves' /\ OwnSecrets' /\ SnapshotIsCommitted' /\ (used'.faults < 2 => NoOrphans')
  <2>1. CASE Loaded(w) \/ Missed(w)
    BY <1>1, <1>2, <1>7, <1>12, <2>1, ReadWorld
  <2>2. CASE Saved(w)
    <3>1. proc[w].name # Key /\ proc[w].name \notin ghost.run /\ proc[w].name \in journal
      BY <1>3
    <3> QED
      BY <1>1, <1>2, <1>4, <1>7, <1>12, <2>2, <3>1, WriteWorld
  <2> QED
    BY <1>2, <2>1, <2>2
<1> QED
  BY <1>7, <1>12, <1>13 DEF StoreInv

\* What an edit of the key leaves to the others.
LEMMA EditorWorkers ==
  ASSUME StoreAssumption, StoreInv, used'.faults \in Nat, used'.faults >= used.faults, used'.refs = used.refs,
         \A p \in Procs \ {Editor} : proc'[p] = proc[p], \A n \in Refs : vault'[n] = vault[n],
         UNCHANGED <<doc, snap, journal>>, ghost'.ever = ghost.ever, ghost'.owner = ghost.owner,
         Up, EditorOK(proc[Editor])'
  PROVE  Workers' /\ Up'
<1>1. /\ Editor \in Procs /\ Opener \in Procs /\ Editor # Opener
      /\ \A v \in Savers : v \in Procs /\ v # Editor /\ v # None
  BY DEF StoreAssumption, Procs
<1>2. used.faults \in Nat
  BY DEF StoreInv, Typed
<1>3. \A v \in Savers : SaverOK(proc[v])'
  <2> SUFFICES ASSUME NEW v \in Savers
               PROVE  SaverOK(proc[v])'
    OBVIOUS
  <2>1. SaverOK(proc[v]) /\ proc'[v] = proc[v]
    BY <1>1 DEF StoreInv, Workers
  <2>2. proc[v].pc # "idle" => proc[v].staged \subseteq Refs
    BY InHand DEF At
  <2> QED
    BY <1>2, <2>1, <2>2, SaverFrame
<1>4. proc'[Opener].pc = "idle"
  BY <1>1 DEF Up, At
<1> QED
  BY <1>3, <1>4 DEF Workers, OpenerOK, Calling, Up, At

\* An edit of the key at the keychain (commands.rs).
LEMMA EditorAccess ==
  ASSUME StoreAssumption, StoreInv, Accesses(Editor)
  PROVE  StoreInv'
<1> DEFINE o == proc[Editor]
<1>1. /\ Editor \in Procs /\ Editor # Opener /\ EditorOK(o) /\ Calling(o) /\ o.pc \in {"load", "save"}
      /\ o \in Threads /\ Key \in 0..MaxRefs /\ Key \notin Refs /\ Refs \subseteq 0..MaxRefs
      /\ vault \in [0..MaxRefs -> Values]
  BY DEF StoreAssumption, Procs, StoreInv, Workers, Accesses, Calling, Typed, Key, Refs
<1>2. /\ Same(Editor) /\ (Loaded(Editor) \/ Saved(Editor) \/ Missed(Editor)) /\ (o.pc = "save" \/ vlock = None)
      /\ UNCHANGED <<doc, snap, mutex, journal, row, ghost>>
  BY DEF Accesses
<1>3. Up
  BY <1>1 DEF StoreInv, Locks, At
<1>4. /\ o.name = Key /\ o.res = "none" /\ o.ok \in {"upsert", "refused", "drop"} /\ o.bad \in {"refused", "idle"}
      /\ o.value \in {0} \cup Secrets
  BY <1>1 DEF EditorOK, StoreInv, World
<1>5. Counts /\ used'.faults >= used.faults
  BY <1>2 DEF Loaded, Saved, Missed, Faulted, Unfaulted, Counts
<1>6. Typed' /\ Locks'
  BY <1>1, <1>2, <1>4, AccessLocks
<1>7. \A n \in Refs : vault'[n] = vault[n]
  BY <1>1, <1>2, <1>4 DEF Loaded, Saved, Missed
<1>8. EditorOK(o)'
  <2>1. /\ o'.name = o.name /\ o'.value = o.value /\ o'.ok = o.ok /\ o'.bad = o.bad /\ o'.old = o.old
        /\ o'.res = o.res
    BY <1>2 DEF Same
  <2>2. CASE Loaded(Editor)
    <3>1. o'.pc = "save" /\ vault' = vault /\ used'.faults = used.faults /\ AsBefore' = AsBefore
      BY <1>2, <2>2 DEF Loaded, Unfaulted, AsBefore
    <3> QED
      BY <1>1, <1>2, <2>1, <3>1 DEF EditorOK, Calling
  <2>3. CASE Missed(Editor)
    <3>1. /\ o'.pc = o.bad /\ vault' = vault /\ used'.faults = used.faults + 1 /\ used.faults \in Nat
          /\ AsBefore' = AsBefore
      BY <1>2, <2>3 DEF Missed, Faulted, Counts, AsBefore
    <3>2. o.bad = "refused" => (used'.faults < 2 => AsBefore)
      BY <1>1, <3>1 DEF EditorOK
    <3> QED
      BY <1>4, <2>1, <3>1, <3>2 DEF EditorOK, Calling
  <2>4. CASE Saved(Editor)
    <3>1. o'.pc = o.ok /\ vault'[Key] = o.value
      BY <1>1, <1>4, <2>4 DEF Saved
    <3>2. CASE o.ok = "upsert"
      <4>1. o.value \in Secrets /\ o.old = ghost.secret /\ row = ghost.row
        BY <1>1, <3>2 DEF EditorOK, AsBefore
      <4> QED
        BY <1>2, <1>4, <2>1, <3>1, <3>2, <4>1 DEF EditorOK, Calling
    <3>3. CASE o.ok = "refused"
      <4>1. o.value = ghost.secret /\ row = ghost.row
        BY <1>1, <3>3 DEF EditorOK
      <4> QED
        BY <1>2, <1>4, <2>1, <3>1, <3>3, <4>1 DEF EditorOK, Calling, AsBefore
    <3>4. CASE o.ok = "drop"
      BY <1>4, <2>1, <3>1, <3>4 DEF EditorOK, Calling
    <3> QED
      BY <1>4, <3>2, <3>3, <3>4
  <2> QED
    BY <1>2, <2>2, <2>3, <2>4
<1>9. Workers' /\ (Up' => Up)
  <2>1. \A p \in Procs \ {Editor} : proc'[p] = proc[p]
    BY <1>2 DEF Same
  <2> QED
    BY <1>2, <1>3, <1>5, <1>7, <1>8, <2>1, EditorWorkers DEF Counts
<1>10. World' /\ FrozenResolves' /\ OwnSecrets' /\ SnapshotIsCommitted' /\ (used'.faults < 2 => NoOrphans')
  <2>1. CASE Loaded(Editor) \/ Missed(Editor)
    BY <1>1, <1>2, <1>6, <1>9, <2>1, ReadWorld
  <2>2. CASE Saved(Editor)
    BY <1>1, <1>2, <1>4, <1>6, <1>9, <2>2, WriteWorld
  <2> QED
    BY <1>2, <2>1, <2>2
<1> QED
  BY <1>6, <1>9, <1>10 DEF StoreInv

\* While the store is opened nobody else is at work, and the key is left alone.
LEMMA OpenerWorkers ==
  ASSUME StoreAssumption, StoreInv, ~Up, used'.faults \in Nat, used'.faults >= used.faults,
         \A p \in Procs \ {Opener} : proc'[p] = proc[p], vault'[Key] = vault[Key],
         UNCHANGED <<row, ghost>>, OpenerOK(proc[Opener])'
  PROVE  Workers'
<1>1. /\ Editor \in Procs /\ Editor # Opener
      /\ \A v \in Savers : v \in Procs /\ v # Opener /\ v # None
  BY DEF StoreAssumption, Procs
<1>2. used.faults \in Nat /\ EditorOK(proc[Editor])
  BY DEF StoreInv, Typed, Workers
<1>3. \A v \in Savers : proc'[v].pc = "idle"
  BY <1>1 DEF StoreInv, Locks, At
<1>4. EditorOK(proc[Editor])'
  BY <1>1, <1>2, EditorFrame
<1> QED
  BY <1>3, <1>4 DEF Workers, SaverOK

\* The recovery at the keychain: it deletes what the document does not name (llm/routes.rs).
LEMMA OpenerAccess ==
  ASSUME StoreAssumption, StoreInv, Accesses(Opener)
  PROVE  StoreInv'
<1> DEFINE o == proc[Opener]
<1>1. /\ Opener \in Procs /\ Editor # Opener /\ OpenerOK(o) /\ Calling(o) /\ o.pc \in {"load", "save"}
      /\ o \in Threads /\ Key \in 0..MaxRefs /\ Key \notin Refs /\ Refs \subseteq 0..MaxRefs
      /\ vault \in [0..MaxRefs -> Values] /\ ~Up
  BY DEF StoreAssumption, Procs, StoreInv, Workers, Accesses, Calling, Typed, Key, Refs, Up, At
<1>2. /\ Same(Opener) /\ (Loaded(Opener) \/ Saved(Opener) \/ Missed(Opener)) /\ (o.pc = "save" \/ vlock = None)
      /\ UNCHANGED <<doc, snap, mutex, journal, row, ghost>>
  BY DEF Accesses
<1>3. /\ o.name \in Refs \ RefsOf(doc) /\ o.value = 0 /\ o.ok = "forget" /\ o.bad = "failed"
      /\ ghost.run = RefsOf(doc) /\ snap = doc
  BY <1>1 DEF OpenerOK, StoreInv, Locks
<1>4. Counts /\ used'.faults >= used.faults
  BY <1>2 DEF Loaded, Saved, Missed, Faulted, Unfaulted, Counts
<1>5. o'.pc \in {"save", "forget", "failed"}
  BY <1>2, <1>3 DEF Loaded, Saved, Missed
<1>6. Typed' /\ Locks'
  BY <1>1, <1>2, <1>3, <1>5, AccessLocks
<1>7. vault'[Key] = vault[Key]
  BY <1>1, <1>2, <1>3 DEF Loaded, Saved, Missed
<1>8. OpenerOK(o)'
  <2>1. o'.name = o.name /\ o'.value = o.value /\ o'.ok = o.ok /\ o'.bad = o.bad
    BY <1>2 DEF Same
  <2>2. CASE Saved(Opener)
    <3>1. o'.pc = "forget" /\ vault'[o.name] = 0
      BY <1>1, <1>3, <2>2 DEF Saved
    <3> QED
      BY <1>2, <1>3, <2>1, <3>1 DEF OpenerOK, Calling
  <2>3. CASE Loaded(Opener)
    BY <1>2, <1>3, <2>1, <2>3 DEF Loaded, OpenerOK, Calling, RefsOf
  <2>4. CASE Missed(Opener)
    BY <1>3, <2>4 DEF Missed, OpenerOK, Calling
  <2> QED
    BY <1>2, <2>2, <2>3, <2>4
<1>9. Workers'
  <2>1. \A p \in Procs \ {Opener} : proc'[p] = proc[p]
    BY <1>2 DEF Same
  <2> QED
    BY <1>1, <1>2, <1>4, <1>7, <1>8, <2>1, OpenerWorkers DEF Counts
<1>10. ~Up'
  BY <1>5 DEF Up, At
<1>11. World' /\ FrozenResolves' /\ OwnSecrets' /\ SnapshotIsCommitted' /\ (used'.faults < 2 => NoOrphans')
  <2>1. CASE Loaded(Opener) \/ Missed(Opener)
    BY <1>1, <1>2, <1>6, <1>10, <2>1, ReadWorld
  <2>2. CASE Saved(Opener)
    <3>1. o.name # Key /\ o.name \notin ghost.run /\ o.value = 0
      BY <1>1, <1>3
    <3> QED
      BY <1>1, <1>2, <1>6, <1>10, <2>2, <3>1, WriteWorld
  <2> QED
    BY <1>2, <2>1, <2>2
<1> QED
  BY <1>6, <1>9, <1>11 DEF StoreInv

(* ------------------------------- the SSH key ------------------------------- *)

\* A step of an edit that leaves the keychain alone has to keep its promise only.
LEMMA EditorMoves ==
  ASSUME StoreAssumption, StoreInv, Typed', \A p \in Procs \ {Editor} : proc'[p] = proc[p],
         UNCHANGED <<vault, vlock, doc, snap, mutex, journal>>,
         ghost'.run = ghost.run, ghost'.ever = ghost.ever, ghost'.owner = ghost.owner,
         ghost'.secret \in {0} \cup Secrets, used'.refs = used.refs, used'.faults >= used.faults,
         Up, proc[Editor].pc # "save", proc'[Editor].pc # "save", EditorOK(proc[Editor])'
  PROVE  StoreInv'
<1>1. /\ Editor \in Procs /\ Opener \in Procs /\ Editor # Opener
      /\ \A v \in Savers : v \in Procs /\ v # Editor
  BY DEF StoreAssumption, Procs
<1>2. Workers' /\ Up'
  <2>1. used'.faults \in Nat
    BY DEF Typed
  <2> QED
    BY <2>1, EditorWorkers
<1>3. Locks'
  <2>1. \A p \in Procs : (vlock' = p <=> proc'[p].pc = "save") /\ (proc'[p].pc = "save" => proc'[p].copy = vault')
    <3> SUFFICES ASSUME NEW p \in Procs
                 PROVE  (vlock' = p <=> proc'[p].pc = "save") /\ (proc'[p].pc = "save" => proc'[p].copy = vault')
      OBVIOUS
    <3>1. (vlock = p <=> proc[p].pc = "save") /\ (proc[p].pc = "save" => proc[p].copy = vault)
      BY DEF StoreInv, Locks, At
    <3>2. CASE p = Editor
      BY <3>1, <3>2
    <3>3. CASE p # Editor
      BY <3>1, <3>3
    <3> QED
      BY <3>2, <3>3
  <2>2. \A v \in Savers : mutex' = v <=> ~(proc'[v].pc = "idle")
    BY <1>1 DEF StoreInv, Locks, At
  <2> QED
    BY <1>2, <2>1, <2>2 DEF Locks, At
<1>4. World'
  BY DEF StoreInv, World, RefsOf
<1>5. FrozenResolves' /\ OwnSecrets' /\ SnapshotIsCommitted'
  BY DEF StoreInv, FrozenResolves, OwnSecrets, SnapshotIsCommitted
<1>6. ASSUME used'.faults < 2
      PROVE  NoOrphans'
  <2>1. NoOrphans
    BY <1>6 DEF StoreInv, Typed
  <2> QED
    BY <2>1 DEF NoOrphans
<1> QED
  BY <1>2, <1>3, <1>4, <1>5, <1>6 DEF StoreInv

\* What is known of the editor between two steps.
LEMMA Editing ==
  ASSUME StoreAssumption, StoreInv
  PROVE  /\ Editor \in Procs /\ proc \in [Procs -> Threads] /\ proc[Editor] \in Threads /\ EditorOK(proc[Editor])
         /\ (proc[Editor].pc # "idle" => Up) /\ vault[Key] \in {0} \cup Secrets /\ Key \in 0..MaxRefs
         /\ used \in [refs : 0..MaxRefs, edits : Nat, faults : Nat, crashes : Nat]
         /\ ghost \in [run : SUBSET Refs, ever : SUBSET Refs, owner : [Refs -> Routes \cup {0}],
                       secret : Values, row : {0} \cup Secrets]
         /\ ghost.secret \in {0} \cup Secrets /\ {0} \cup Secrets \subseteq Values /\ row \in {0} \cup Secrets
  BY DEF StoreAssumption, Procs, StoreInv, Typed, Workers, Locks, At, World, Key, Values

\* An edit that gives the key a secret begins (commands.rs).
LEMMA StoreKeyKeeps ==
  ASSUME StoreAssumption, StoreInv, StoreKey
  PROVE  StoreInv'
<1>1. PICK v \in Secrets :
        /\ Up /\ At(Editor, "idle") /\ used' = [used EXCEPT !.edits = @ + 1]
        /\ proc' = [proc EXCEPT ![Editor] = [Rest EXCEPT !.pc = "load", !.name = Key, !.value = v, !.old = vault[Key],
                                             !.staged = {v}, !.ok = "upsert", !.bad = "refused"]]
        /\ ghost' = [ghost EXCEPT !.secret = vault[Key], !.row = row]
        /\ UNCHANGED <<vault, vlock, doc, snap, mutex, journal, row>>
  BY DEF StoreKey
<1> DEFINE q == [Rest EXCEPT !.pc = "load", !.name = Key, !.value = v, !.old = vault[Key],
                             !.staged = {v}, !.ok = "upsert", !.bad = "refused"]
<1>2. /\ q \in Threads /\ q.pc = "load" /\ q.name = Key /\ q.value = v /\ q.old = vault[Key] /\ q.ok = "upsert"
      /\ q.bad = "refused" /\ q.res = "none"
  <2>1. v \in Values /\ vault[Key] \in Values /\ {v} \in SUBSET (Refs \cup Secrets)
    BY Editing
  <2> QED
    BY <2>1, Editing, RestIsThread, PlacesAre DEF Threads
<1>3. proc' = [proc EXCEPT ![Editor] = q]
  BY <1>1
<1> HIDE DEF q
<1>4. proc' \in [Procs -> Threads] /\ proc'[Editor] = q /\ \A p \in Procs \ {Editor} : proc'[p] = proc[p]
  BY <1>2, <1>3, Editing
<1>5. /\ ghost'.run = ghost.run /\ ghost'.ever = ghost.ever /\ ghost'.owner = ghost.owner
      /\ ghost'.secret = vault[Key] /\ ghost'.row = row
      /\ ghost' \in [run : SUBSET Refs, ever : SUBSET Refs, owner : [Refs -> Routes \cup {0}],
                     secret : Values, row : {0} \cup Secrets]
  <2>1. vault[Key] \in Values /\ row \in {0} \cup Secrets
    BY Editing
  <2> QED
    BY <1>1, <2>1, Editing
<1>6. /\ used' \in [refs : 0..MaxRefs, edits : Nat, faults : Nat, crashes : Nat]
      /\ used'.refs = used.refs /\ used'.faults >= used.faults
  BY <1>1, Editing
<1>7. Typed'
  BY <1>1, <1>4, <1>5, <1>6 DEF StoreInv, Typed
<1>8. EditorOK(proc[Editor])'
  BY <1>1, <1>2, <1>4, <1>5 DEF EditorOK, Calling, AsBefore
<1>9. proc[Editor].pc # "save" /\ proc'[Editor].pc # "save" /\ ghost'.secret \in {0} \cup Secrets
  BY <1>1, <1>2, <1>4, <1>5, Editing DEF At
<1> QED
  BY <1>1, <1>4, <1>5, <1>6, <1>7, <1>8, <1>9, EditorMoves

\* An edit that ends, and one that removes the key.
LEMMA EditorRests ==
  ASSUME StoreAssumption, StoreInv, Up, UNCHANGED <<vault, vlock, doc, snap, mutex, journal, ghost>>,
         row' \in {0} \cup Secrets, Counts, used'.faults >= used.faults, proc[Editor].pc # "save",
         NEW q \in Threads, proc' = [proc EXCEPT ![Editor] = q], q.pc = "idle" \/ (q.pc = "load" /\ q.name = Key
           /\ q.ok = "drop" /\ q.bad = "idle" /\ q.value = 0 /\ q.res = "none"),
         q.res = "refused" => q.pc = "idle" /\ (used'.faults < 2 => AsBefore')
  PROVE  StoreInv'
<1>1. proc' \in [Procs -> Threads] /\ proc'[Editor] = q /\ \A p \in Procs \ {Editor} : proc'[p] = proc[p]
  BY Editing
<1>2. Typed'
  BY <1>1 DEF StoreInv, Typed, Counts
<1>3. EditorOK(proc[Editor])'
  BY <1>1 DEF EditorOK, Calling
<1>4. proc'[Editor].pc # "save" /\ ghost'.secret \in {0} \cup Secrets /\ used'.refs = used.refs
  BY <1>1, Editing DEF Counts
<1> QED
  BY <1>1, <1>2, <1>3, <1>4, EditorMoves

\* The row of the key is written after its secret, or the secret is put back (commands.rs).
LEMMA UpsertKeeps ==
  ASSUME StoreAssumption, StoreInv, Upsert
  PROVE  StoreInv'
<1> DEFINE o == proc[Editor]
<1>1. /\ o.pc = "upsert" /\ Up /\ o \in Threads /\ o.value \in Secrets /\ o.old = ghost.secret /\ row = ghost.row
      /\ o.res = "none" /\ UNCHANGED <<vault, vlock, doc, snap, mutex, journal, ghost>>
  BY Editing DEF Upsert, At, EditorOK
<1>2. CASE row' = o.value /\ UNCHANGED used /\ proc' = [proc EXCEPT ![Editor] = [Rest EXCEPT !.res = "ok"]]
  <2>1. [Rest EXCEPT !.res = "ok"] \in Threads /\ [Rest EXCEPT !.res = "ok"].pc = "idle"
        /\ [Rest EXCEPT !.res = "ok"].res = "ok"
    BY RestIsThread DEF Threads
  <2>2. PICK q \in Threads : q = [Rest EXCEPT !.res = "ok"]
    BY <2>1
  <2>3. Counts /\ used'.faults >= used.faults
    BY <1>2, Counting DEF Unfaulted, Counts
  <2> QED
    BY <1>1, <1>2, <2>1, <2>2, <2>3, EditorRests
<1>3. CASE Fault /\ UNCHANGED row /\ Call(Editor, Key, o.old, "refused", "refused")
  <2> DEFINE q == [o EXCEPT !.pc = "load", !.name = Key, !.value = o.old, !.ok = "refused", !.bad = "refused"]
  <2>1. o.old \in Values /\ "load" \in Places /\ "refused" \in Places /\ Key \in 0..MaxRefs
    BY <1>1, PlacesAre, Editing DEF Threads
  <2>2. q \in Threads
    BY <1>1, <2>1 DEF Threads
  <2>3. /\ q.pc = "load" /\ q.name = Key /\ q.value = ghost.secret /\ q.ok = "refused"
        /\ q.bad = "refused" /\ q.res = "none"
    BY <1>1 DEF Threads
  <2>4. proc' = [proc EXCEPT ![Editor] = q]
    BY <1>3 DEF Call
  <2> HIDE DEF q
  <2>5. proc' \in [Procs -> Threads] /\ proc'[Editor] = q /\ \A p \in Procs \ {Editor} : proc'[p] = proc[p]
    BY <2>2, <2>4, Editing
  <2>6. Counts /\ used'.faults = used.faults + 1 /\ used'.faults >= used.faults /\ used'.faults # 0
    BY <1>3, Counting DEF Faulted, Counts
  <2>7. Typed'
    BY <1>1, <1>3, <2>5, <2>6 DEF StoreInv, Typed, Counts
  <2>8. EditorOK(proc[Editor])'
    BY <1>1, <1>3, <2>3, <2>5, <2>6 DEF EditorOK, Calling
  <2>9. o.pc # "save" /\ proc'[Editor].pc # "save" /\ ghost'.secret \in {0} \cup Secrets /\ used'.refs = used.refs
    BY <1>1, <2>3, <2>5, <2>6, Editing DEF Counts
  <2> QED
    BY <1>1, <2>5, <2>6, <2>7, <2>8, <2>9, EditorMoves
<1> QED
  BY <1>2, <1>3 DEF Upsert

\* An edit whose secret was not stored is refused (commands.rs).
LEMMA RefusedKeeps ==
  ASSUME StoreAssumption, StoreInv, Refused
  PROVE  StoreInv'
<1>1. /\ proc[Editor].pc = "refused" /\ Up /\ UNCHANGED <<vault, vlock, doc, snap, mutex, journal, row, ghost, used>>
      /\ proc' = [proc EXCEPT ![Editor] = [Rest EXCEPT !.res = "refused"]]
  BY Editing DEF Refused, At
<1>2. [Rest EXCEPT !.res = "refused"] \in Threads /\ [Rest EXCEPT !.res = "refused"].pc = "idle"
  BY RestIsThread DEF Threads
<1>3. PICK q \in Threads : q = [Rest EXCEPT !.res = "refused"]
  BY <1>2
<1>4. Counts /\ used'.faults >= used.faults
  BY <1>1, Counting DEF Unfaulted, Counts
<1>5. used'.faults < 2 => AsBefore'
  BY <1>1, Editing DEF EditorOK, AsBefore
<1>6. row' \in {0} \cup Secrets
  BY <1>1, Editing
<1> QED
  BY <1>1, <1>2, <1>3, <1>4, <1>5, <1>6, EditorRests

\* An edit that removes the key begins (commands.rs).
LEMMA DeleteKeyKeeps ==
  ASSUME StoreAssumption, StoreInv, DeleteKey
  PROVE  StoreInv'
<1>1. /\ proc[Editor].pc = "idle" /\ Up /\ UNCHANGED <<vault, vlock, doc, snap, mutex, journal, row, ghost>>
      /\ used' = [used EXCEPT !.edits = @ + 1]
      /\ proc' = [proc EXCEPT ![Editor] = [Rest EXCEPT !.pc = "load", !.name = Key, !.ok = "drop"]]
  BY DEF DeleteKey, At
<1>2. PICK q \in Threads : q = [Rest EXCEPT !.pc = "load", !.name = Key, !.ok = "drop"]
  BY RestIsThread, Editing, PlacesAre DEF Threads
<1>3. q.pc = "load" /\ q.name = Key /\ q.ok = "drop" /\ q.bad = "idle" /\ q.value = 0 /\ q.res = "none"
  BY <1>2 DEF Rest
<1>4. Counts /\ used'.faults >= used.faults
  BY <1>1, Editing DEF Counts
<1>5. row' \in {0} \cup Secrets
  BY <1>1, Editing
<1> QED
  BY <1>1, <1>2, <1>3, <1>4, <1>5, EditorRests

\* The row of a removed key is deleted, whatever became of its secret (commands.rs).
LEMMA DropRowKeeps ==
  ASSUME StoreAssumption, StoreInv, DropRow
  PROVE  StoreInv'
<1>1. /\ proc[Editor].pc = "drop" /\ Up /\ UNCHANGED <<vault, vlock, doc, snap, mutex, journal, ghost>>
      /\ proc' = [proc EXCEPT ![Editor] = Rest]
  BY Editing DEF DropRow, At
<1>2. PICK q \in Threads : q = Rest
  BY RestIsThread
<1>3. Counts /\ used'.faults >= used.faults /\ row' \in {0} \cup Secrets
  BY Counting, Editing DEF DropRow, Faulted, Unfaulted, Counts
<1>4. q.pc = "idle" /\ q.res = "none"
  BY <1>2, RestIsThread
<1> QED
  BY <1>1, <1>2, <1>3, <1>4, EditorRests

(* --------------------------- opening and recovering --------------------------- *)

\* A step of the opening that leaves the keychain alone: what it takes out of the journal
\* is deleted or belongs to a document.
LEMMA OpenerMoves ==
  ASSUME StoreAssumption, StoreInv, Typed', ~Up, \A p \in Procs \ {Opener} : proc'[p] = proc[p],
         UNCHANGED <<vault, vlock, doc, mutex, row, ghost>>, used'.refs = used.refs, used'.faults >= used.faults,
         journal' \subseteq journal, \A n \in journal \ journal' : vault[n] = 0 \/ n \in ghost.ever,
         proc[Opener].pc # "save", proc'[Opener].pc # "save", proc'[Opener].pc = "idle" => snap' = doc,
         OpenerOK(proc[Opener])'
  PROVE  StoreInv'
<1>1. /\ Editor \in Procs /\ Opener \in Procs /\ Editor # Opener
      /\ \A v \in Savers : v \in Procs /\ v # Opener
  BY DEF StoreAssumption, Procs
<1>2. mutex = None /\ proc[Editor].pc = "idle" /\ ghost.run = RefsOf(doc)
  BY DEF StoreInv, Locks, At
<1>3. Workers'
  <2>1. used'.faults \in Nat
    BY DEF Typed
  <2> QED
    BY <2>1, OpenerWorkers
<1>4. Locks'
  <2>1. \A p \in Procs : (vlock' = p <=> proc'[p].pc = "save") /\ (proc'[p].pc = "save" => proc'[p].copy = vault')
    <3> SUFFICES ASSUME NEW p \in Procs
                 PROVE  (vlock' = p <=> proc'[p].pc = "save") /\ (proc'[p].pc = "save" => proc'[p].copy = vault')
      OBVIOUS
    <3>1. (vlock = p <=> proc[p].pc = "save") /\ (proc[p].pc = "save" => proc[p].copy = vault)
      BY DEF StoreInv, Locks, At
    <3>2. CASE p = Opener
      BY <3>1, <3>2
    <3>3. CASE p # Opener
      BY <3>1, <3>3
    <3> QED
      BY <3>2, <3>3
  <2>2. \A v \in Savers : mutex' = v <=> ~(proc'[v].pc = "idle")
    BY <1>1 DEF StoreInv, Locks, At
  <2>3. mutex' = None /\ proc'[Editor].pc = "idle" /\ ghost'.run = RefsOf(doc')
    BY <1>1, <1>2
  <2> QED
    BY <2>1, <2>2, <2>3 DEF Locks, At, RefsOf
<1>5. World'
  BY DEF StoreInv, World, RefsOf
<1>6. FrozenResolves' /\ OwnSecrets'
  BY DEF StoreInv, FrozenResolves, OwnSecrets
<1>7. SnapshotIsCommitted'
  BY DEF SnapshotIsCommitted, Up, At
<1>8. ASSUME used'.faults < 2
      PROVE  NoOrphans'
  <2>1. NoOrphans
    BY <1>8 DEF StoreInv, Typed
  <2> QED
    BY <2>1 DEF NoOrphans
<1> QED
  BY <1>3, <1>4, <1>5, <1>6, <1>7, <1>8 DEF StoreInv

\* What is known of the opener at work.
LEMMA Opening ==
  ASSUME StoreAssumption, StoreInv, ~At(Opener, "idle")
  PROVE  /\ Opener \in Procs /\ ~Up /\ proc \in [Procs -> Threads] /\ proc[Opener] \in Threads
         /\ OpenerOK(proc[Opener]) /\ proc[Opener].left \subseteq Refs /\ journal \subseteq Refs /\ Refs \subseteq 0..MaxRefs
         /\ RefsOf(doc) \subseteq ghost.ever /\ 0 \in Values /\ doc \in Docs /\ snap \in Docs
<1>1. Opener \in Procs /\ ~Up /\ proc \in [Procs -> Threads] /\ MaxRefs \in Nat
  <2>1. ~Up
    BY DEF Up, At
  <2> QED
    BY <2>1 DEF StoreAssumption, Procs, StoreInv, Typed
<1>2. proc[Opener] \in Threads /\ OpenerOK(proc[Opener]) /\ journal \subseteq Refs /\ doc \in Docs /\ snap \in Docs
  BY <1>1 DEF StoreInv, Typed, Workers
<1>3. proc[Opener].left \subseteq Refs
  BY <1>2 DEF Threads
<1>4. Refs \subseteq 0..MaxRefs /\ 0 \in Values
  BY <1>1 DEF Refs, Values
<1>5. RefsOf(doc) \subseteq ghost.ever
  BY DEF StoreInv, World
<1> QED
  BY <1>1, <1>2, <1>3, <1>4, <1>5

\* The store is opened: the committed document is published and the journal read (llm/routes.rs).
LEMMA OpenKeeps ==
  ASSUME StoreAssumption, StoreInv, Open
  PROVE  StoreInv'
<1> DEFINE o == proc[Opener]
<1>1. /\ o.pc = "open" /\ ~At(Opener, "idle") /\ snap' = doc
      /\ proc' = [proc EXCEPT ![Opener].pc = "recover", ![Opener].left = journal]
      /\ UNCHANGED <<vault, vlock, doc, mutex, journal, row, ghost, used>>
  BY DEF Open, At
<1>2. proc'[Opener] = [o EXCEPT !.pc = "recover", !.left = journal] /\ \A p \in Procs \ {Opener} : proc'[p] = proc[p]
  BY <1>1, Opening
<1>3. proc'[Opener] \in Threads /\ proc'[Opener].pc = "recover"
  BY <1>1, <1>2, Opening, PlacesAre DEF Threads
<1>4. proc' \in [Procs -> Threads]
  BY <1>1, <1>3, Opening
<1>5. Typed' /\ used'.faults >= used.faults
  BY <1>1, <1>4 DEF StoreInv, Typed
<1>6. OpenerOK(proc[Opener])'
  BY <1>1, <1>3 DEF OpenerOK, Calling
<1> QED
  BY <1>1, <1>2, <1>3, <1>5, <1>6, Opening, OpenerMoves

\* Recovery takes the next journaled reference, or ends (llm/routes.rs).
LEMMA RecoverKeeps ==
  ASSUME StoreAssumption, StoreInv, Recover
  PROVE  StoreInv'
<1> DEFINE o == proc[Opener]
<1>1. /\ o.pc = "recover" /\ ~At(Opener, "idle") /\ UNCHANGED <<vault, vlock, doc, snap, mutex, journal, row, ghost, used>>
  BY DEF Recover, At
<1>2. snap = doc /\ Opener \in Procs /\ o \in Threads /\ proc \in [Procs -> Threads] /\ ~Up
  BY <1>1, Opening DEF OpenerOK
<1>3. used'.faults >= used.faults /\ used'.refs = used.refs
  BY <1>1 DEF StoreInv, Typed
<1>4. CASE o.left = {} /\ To(Opener, "idle")
  <2>1. Same(Opener) /\ proc'[Opener].pc = "idle"
    BY <1>2, <1>4, ToPlace, PlacesAre
  <2>2. Typed'
    BY <1>1, <2>1 DEF StoreInv, Typed, Same
  <2>3. OpenerOK(proc[Opener])'
    BY <2>1 DEF OpenerOK, Calling
  <2> QED
    BY <1>1, <1>2, <1>3, <2>1, <2>2, <2>3, OpenerMoves DEF Same
<1>5. CASE \E r \in o.left :
             proc' = [proc EXCEPT ![Opener].left = @ \ {r}, ![Opener].name = r, ![Opener].value = 0,
                                  ![Opener].pc = IF Unreferenced(r) THEN "load" ELSE "forget",
                                  ![Opener].ok = "forget", ![Opener].bad = "failed"]
  <2>1. PICK r \in o.left :
             proc' = [proc EXCEPT ![Opener].left = @ \ {r}, ![Opener].name = r, ![Opener].value = 0,
                                  ![Opener].pc = IF Unreferenced(r) THEN "load" ELSE "forget",
                                  ![Opener].ok = "forget", ![Opener].bad = "failed"]
    BY <1>5
  <2>2. PICK pc \in {"load", "forget"} : pc = IF Unreferenced(r) THEN "load" ELSE "forget"
    OBVIOUS
  <2>3. PICK left \in SUBSET Refs : left = o.left \ {r}
    BY <1>1, Opening
  <2> DEFINE q == [o EXCEPT !.left = left, !.name = r, !.value = 0, !.pc = pc, !.ok = "forget", !.bad = "failed"]
  <2>4. r \in Refs /\ r \in 0..MaxRefs /\ 0 \in Values /\ {"load", "forget", "failed"} \subseteq Places
    BY <1>1, Opening, PlacesAre
  <2>5. q \in Threads
    BY <1>2, <2>4 DEF Threads
  <2>6. q.pc = pc /\ q.name = r /\ q.value = 0 /\ q.ok = "forget" /\ q.bad = "failed"
    BY <1>2 DEF Threads
  <2>7. proc' = [proc EXCEPT ![Opener] = q]
    BY <2>1, <2>2, <2>3
  <2> HIDE DEF q
  <2>8. proc' \in [Procs -> Threads] /\ proc'[Opener] = q /\ \A p \in Procs \ {Opener} : proc'[p] = proc[p]
    BY <1>2, <2>5, <2>7
  <2>9. Typed'
    BY <1>1, <2>8 DEF StoreInv, Typed
  <2>10. OpenerOK(proc[Opener])'
    <3>1. CASE Unreferenced(r)
      <4>1. r \notin RefsOf(doc') /\ pc = "load" /\ snap' = doc'
        BY <1>1, <1>2, <2>2, <3>1 DEF Unreferenced, RefsOf
      <4> QED
        BY <2>4, <2>6, <2>8, <4>1 DEF OpenerOK, Calling, RefsOf
    <3>2. CASE ~Unreferenced(r)
      <4>1. r \in ghost'.ever /\ pc = "forget" /\ snap' = doc'
        BY <1>1, <1>2, <2>2, <3>2, Opening DEF Unreferenced
      <4> QED
        BY <2>4, <2>6, <2>8, <4>1 DEF OpenerOK, Calling
    <3> QED
      BY <3>1, <3>2
  <2> QED
    BY <1>1, <1>2, <1>3, <2>2, <2>6, <2>8, <2>9, <2>10, OpenerMoves
<1> QED
  BY <1>4, <1>5 DEF Recover

\* Recovery clears the journal entry of a reference it has dealt with (llm/routes.rs).
LEMMA ForgetKeeps ==
  ASSUME StoreAssumption, StoreInv, Forget
  PROVE  StoreInv'
<1> DEFINE o == proc[Opener]
<1>1. /\ o.pc = "forget" /\ ~At(Opener, "idle") /\ UNCHANGED <<vault, vlock, doc, snap, mutex, row, ghost>>
  BY DEF Forget, At
<1>2. /\ snap = doc /\ Opener \in Procs /\ proc \in [Procs -> Threads] /\ ~Up
      /\ (vault[o.name] = 0 \/ o.name \in ghost.ever)
  BY <1>1, Opening DEF OpenerOK
<1>3. PICK pc \in {"recover", "failed"} : To(Opener, pc)
  BY DEF Forget
<1>4. Same(Opener) /\ proc'[Opener].pc = pc
  BY <1>2, <1>3, ToPlace, PlacesAre
<1>5. /\ journal' \subseteq journal /\ journal \ journal' \subseteq {o.name}
      /\ Counts /\ used'.faults >= used.faults
  BY Counting DEF Forget, Faulted, Unfaulted, Counts
<1>6. Typed'
  BY <1>1, <1>4, <1>5 DEF StoreInv, Typed, Same, Counts
<1>7. OpenerOK(proc[Opener])'
  BY <1>1, <1>2, <1>4 DEF OpenerOK, Calling
<1> QED
  BY <1>1, <1>2, <1>4, <1>5, <1>6, <1>7, OpenerMoves DEF Same, Counts

\* A store that could not be opened is opened again (llm/routes.rs).
LEMMA RetryKeeps ==
  ASSUME StoreAssumption, StoreInv, Retry
  PROVE  StoreInv'
<1>1. /\ proc[Opener].pc = "failed" /\ ~At(Opener, "idle")
      /\ UNCHANGED <<vault, vlock, doc, snap, mutex, journal, row, ghost, used>>
      /\ proc' = [proc EXCEPT ![Opener] = [Rest EXCEPT !.pc = "open"]]
  BY DEF Retry, At
<1>2. PICK q \in Threads : q = [Rest EXCEPT !.pc = "open"] /\ q.pc = "open"
  BY RestIsThread
<1>3. proc' \in [Procs -> Threads] /\ proc'[Opener] = q /\ \A p \in Procs \ {Opener} : proc'[p] = proc[p]
  BY <1>1, <1>2, Opening
<1>4. Typed' /\ used'.faults >= used.faults
  BY <1>1, <1>3 DEF StoreInv, Typed
<1>5. OpenerOK(proc[Opener])'
  BY <1>2, <1>3 DEF OpenerOK, Calling
<1> QED
  BY <1>1, <1>2, <1>3, <1>4, <1>5, Opening, OpenerMoves

(* --------------------------------- the whole --------------------------------- *)

\* The invariant holds of an empty document that no secret belongs to.
LEMMA InitStore ==
  ASSUME StoreAssumption, Init
  PROVE  StoreInv
<1>1. MaxRefs \in Nat /\ None \notin Procs /\ Editor \in Procs /\ Opener \in Procs /\ Savers \subseteq Procs
  BY DEF StoreAssumption, Procs
<1>2. \A p \in Procs : proc[p] = Rest
  BY DEF Init
<1>3. /\ doc = [rev |-> 1, ref |-> [r \in Routes |-> 0]] /\ snap = doc /\ journal = {} /\ row = 0
      /\ vault = [n \in 0..MaxRefs |-> 0] /\ vlock = None /\ mutex = None
      /\ ghost = [run |-> {}, ever |-> {}, owner |-> [n \in 1..MaxRefs |-> 0], secret |-> 0, row |-> 0]
      /\ used = [refs |-> 0, edits |-> 0, faults |-> 0, crashes |-> 0]
  BY DEF Init
<1>4. doc.ref = [r \in Routes |-> 0] /\ RefsOf(doc) = {}
  BY <1>3 DEF RefsOf
<1>5. Typed
  <2>1. doc \in Docs /\ vault \in [0..MaxRefs -> Values]
    BY <1>1, <1>3 DEF Docs, Values
  <2>2. ghost \in [run : SUBSET Refs, ever : SUBSET Refs, owner : [Refs -> Routes \cup {0}],
                   secret : Values, row : {0} \cup Secrets]
    BY <1>1, <1>3 DEF Refs, Values
  <2>3. used \in [refs : 0..MaxRefs, edits : Nat, faults : Nat, crashes : Nat]
    BY <1>1, <1>3
  <2>4. proc \in [Procs -> Threads]
    BY RestIsThread DEF Init
  <2> QED
    BY <1>3, <2>1, <2>2, <2>3, <2>4 DEF Typed
<1>6. \A p \in Procs : proc[p].pc = "idle" /\ proc[p].res = "none"
  BY <1>2, RestIsThread
<1>7. Locks /\ Workers
  BY <1>1, <1>3, <1>6 DEF Locks, Workers, At, Up, SaverOK, EditorOK, OpenerOK, Calling
<1>8. Key \in 0..MaxRefs /\ \A n \in Refs : n \in 0..MaxRefs
  BY <1>1 DEF Key, Refs
<1>9. World
  BY <1>3, <1>4, <1>8 DEF World
<1>10. FrozenResolves /\ SnapshotIsCommitted /\ OwnSecrets
  BY <1>3, <1>4 DEF FrozenResolves, SnapshotIsCommitted, OwnSecrets
<1>11. NoOrphans
  BY <1>3, <1>8 DEF NoOrphans, Refs
<1> QED
  BY <1>5, <1>7, <1>9, <1>10, <1>11 DEF StoreInv

\* The application dies: what it held in memory is gone.
LEMMA CrashKeeps ==
  ASSUME StoreAssumption, StoreInv, Crash
  PROVE  StoreInv'
<1>1. /\ used' = [used EXCEPT !.crashes = @ + 1] /\ vlock' = None /\ mutex' = None
      /\ proc' = [p \in Procs |-> IF p = Opener THEN [Rest EXCEPT !.pc = "open"] ELSE Rest]
      /\ ghost' = [ghost EXCEPT !.run = RefsOf(doc)] /\ UNCHANGED <<vault, doc, snap, journal, row>>
  BY DEF Crash
<1>2. /\ None \notin Procs /\ Editor \in Procs /\ Opener \in Procs /\ Editor # Opener
      /\ \A v \in Savers : v \in Procs /\ v # Opener
  BY DEF StoreAssumption, Procs
<1>3. /\ proc' \in [Procs -> Threads] /\ proc'[Opener].pc = "open"
      /\ \A p \in Procs \ {Opener} : proc'[p].pc = "idle" /\ proc'[p].res = "none"
  BY <1>1, <1>2, RestIsThread
<1>4. /\ ghost \in [run : SUBSET Refs, ever : SUBSET Refs, owner : [Refs -> Routes \cup {0}],
                    secret : Values, row : {0} \cup Secrets]
      /\ used \in [refs : 0..MaxRefs, edits : Nat, faults : Nat, crashes : Nat]
      /\ RefsOf(doc) \subseteq ghost.run /\ ghost.run \subseteq ghost.ever
  BY DEF StoreInv, Typed, World
<1>5. /\ ghost' \in [run : SUBSET Refs, ever : SUBSET Refs, owner : [Refs -> Routes \cup {0}],
                     secret : Values, row : {0} \cup Secrets]
      /\ ghost'.run = RefsOf(doc) /\ ghost'.ever = ghost.ever /\ ghost'.owner = ghost.owner
      /\ ghost'.secret = ghost.secret /\ ghost'.row = ghost.row
  <2>1. RefsOf(doc) \in SUBSET Refs
    BY <1>4
  <2> QED
    BY <1>1, <1>4, <2>1
<1>6. /\ used' \in [refs : 0..MaxRefs, edits : Nat, faults : Nat, crashes : Nat]
      /\ used'.refs = used.refs /\ used'.faults = used.faults
  BY <1>1, <1>4
<1>7. RefsOf(doc)' = RefsOf(doc)
  BY <1>1 DEF RefsOf
<1>8. Typed'
  BY <1>1, <1>3, <1>5, <1>6 DEF StoreInv, Typed
<1>9. \A p \in Procs : proc'[p].pc \in {"idle", "open"}
  BY <1>3
<1>10. Locks'
  BY <1>1, <1>2, <1>3, <1>5, <1>7, <1>9 DEF Locks, At, Up
<1>11. Workers'
  BY <1>2, <1>3 DEF Workers, SaverOK, EditorOK, OpenerOK, Calling
<1>12. World'
  BY <1>1, <1>4, <1>5, <1>6, <1>7 DEF StoreInv, World
<1>13. FrozenResolves' /\ OwnSecrets'
  BY <1>1, <1>4, <1>5 DEF StoreInv, FrozenResolves, OwnSecrets
<1>14. SnapshotIsCommitted'
  BY <1>3 DEF SnapshotIsCommitted, Up, At
<1>15. (used'.faults < 2 => NoOrphans')
  BY <1>1, <1>5, <1>6 DEF StoreInv, NoOrphans
<1> QED
  BY <1>8, <1>10, <1>11, <1>12, <1>13, <1>14, <1>15 DEF StoreInv

\* Every step keeps the invariant.
LEMMA StepKeepsStore ==
  ASSUME StoreAssumption, StoreInv, [Next]_vars
  PROVE  StoreInv'
<1>1. CASE UNCHANGED vars
  <2>1. Typed' /\ Locks' /\ World'
    BY <1>1 DEF vars, StoreInv, Typed, Locks, World, At, Up, RefsOf
  <2>2. Workers'
    BY <1>1 DEF vars, StoreInv, Workers, SaverOK, EditorOK, OpenerOK, Calling, Staged, Kept, Stores, Deletes,
                AsBefore, RefsOf
  <2>3. FrozenResolves' /\ SnapshotIsCommitted' /\ OwnSecrets' /\ (used'.faults < 2 => NoOrphans')
    BY <1>1 DEF vars, StoreInv, FrozenResolves, SnapshotIsCommitted, OwnSecrets, NoOrphans, Up, At
  <2> QED
    BY <2>1, <2>2, <2>3 DEF StoreInv
<1>2. ASSUME NEW w \in Savers, SaverStep(w)
      PROVE  StoreInv'
  <2>1. CASE Begin(w) \/ Journal(w) \/ SetSecrets(w) \/ Unset(w)
    BY <2>1, BeginKeeps, JournalKeeps, SetSecretsKeeps, UnsetKeeps
  <2>2. CASE Delete(w, "unsetting") \/ Delete(w, "uncommit")
    BY <2>2, DeleteKeeps
  <2>3. CASE Unjournal(w) \/ Commit(w) \/ Uncommitted(w) \/ Publish(w)
    BY <2>3, UnjournalKeeps, CommitKeeps, UncommittedKeeps, PublishKeeps
  <2> QED
    BY <1>2, <2>1, <2>2, <2>3 DEF SaverStep
<1>3. CASE EditorStep
  BY <1>3, StoreKeyKeeps, UpsertKeeps, RefusedKeeps, DeleteKeyKeeps, DropRowKeeps DEF EditorStep
<1>4. CASE OpenerStep
  BY <1>4, OpenKeeps, RecoverKeeps, ForgetKeeps, RetryKeeps DEF OpenerStep
<1>5. CASE Crash
  BY <1>5, CrashKeeps
<1>6. ASSUME NEW p \in Procs, Load(p) \/ Save(p)
      PROVE  StoreInv'
  <2>1. Accesses(p)
    BY <1>6, AccessIs
  <2>2. p \in Savers \/ p = Editor \/ p = Opener
    BY DEF Procs
  <2> QED
    BY <2>1, <2>2, SaverAccess, EditorAccess, OpenerAccess
<1> QED
  BY <1>1, <1>2, <1>3, <1>4, <1>5, <1>6 DEF Next

\* What is stored, journaled and named is in order in every state of the component.
THEOREM StoreKept == ASSUME StoreAssumption PROVE Spec => []StoreInv
<1>1. Init => StoreInv
  BY InitStore
<1>2. StoreInv /\ [Next]_vars => StoreInv'
  BY StepKeepsStore
<1> QED
  BY <1>1, <1>2, PTL DEF Spec

\* The variables keep their types, and the lock of the vault is held while its item is
\* changed (keychain.rs).
THEOREM StoreTyped == ASSUME StoreAssumption PROVE Spec => []TypeOK
<1>1. StoreInv => TypeOK
  <2> SUFFICES ASSUME StoreInv
               PROVE  TypeOK
    OBVIOUS
  <2>1. RefsOf(doc) \subseteq Refs /\ RefsOf(snap) \subseteq Refs
    BY DEF StoreInv, Typed, Docs, RefsOf, Refs, StoreAssumption
  <2>2. \A p \in Procs : (vlock = p) = At(p, "save")
    BY DEF StoreInv, Locks, At
  <2> QED
    BY <2>1, <2>2 DEF TypeOK, StoreInv, Typed, Values, Refs
<1> QED
  BY <1>1, StoreKept, PTL

\* The committed document never names a secret that is not stored (llm/routes.rs):
\* CommittedResolves, for any number of saves, faults and crashes.
THEOREM DocumentsResolve == ASSUME StoreAssumption PROVE Spec => []CommittedResolves
<1>1. StoreInv => CommittedResolves
  BY DEF StoreInv, World, FrozenResolves, CommittedResolves
<1> QED
  BY <1>1, StoreKept, PTL

\* A run finds the secrets of the snapshot it took as long as the application lives
\* (llm/routes.rs): FrozenResolves.
THEOREM RunsResolve == ASSUME StoreAssumption PROVE Spec => []FrozenResolves
<1>1. StoreInv => FrozenResolves
  BY DEF StoreInv
<1> QED
  BY <1>1, StoreKept, PTL

\* As long as one access failed at most, a stored secret that no document ever named is in
\* the journal, where recovery finds it (llm/routes.rs): NoOrphans.
THEOREM OrphansAreFound == ASSUME StoreAssumption PROVE Spec => [](used.faults < 2 => NoOrphans)
<1>1. StoreInv => (used.faults < 2 => NoOrphans)
  BY DEF StoreInv
<1> QED
  BY <1>1, StoreKept, PTL

\* Outside a save the published snapshot is the committed document, and no route is given
\* the secret of another (llm/routes.rs): SnapshotIsCommitted, OwnSecrets.
THEOREM RoutesAreTheirOwn == ASSUME StoreAssumption PROVE Spec => [](SnapshotIsCommitted /\ OwnSecrets)
<1>1. StoreInv => SnapshotIsCommitted /\ OwnSecrets
  BY DEF StoreInv
<1> QED
  BY <1>1, StoreKept, PTL

\* An edit of the SSH key that was refused left its secret and its row as they were, if one
\* access failed at most (commands.rs): RefusedChangesNothing.
THEOREM RefusalsChangeNothing == ASSUME StoreAssumption PROVE Spec => []RefusedChangesNothing
<1>1. StoreInv => RefusedChangesNothing
  BY DEF StoreInv, Workers, EditorOK, AsBefore, RefusedChangesNothing
<1> QED
  BY <1>1, StoreKept, PTL
=============================================================================
