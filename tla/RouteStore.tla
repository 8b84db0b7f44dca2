----------------------------- MODULE RouteStore -----------------------------
(* The secrets of the application and the documents that refer to them: the credential
   vault, one keychain item that is read, changed and written back (keychain.rs); the
   model routes, a document in the database whose routes name versioned secrets
   (llm/routes.rs, db.rs); and an SSH key, whose secret is in the vault and whose row is
   in the database (commands.rs). Any access to the keychain or the database may fail
   and the application may die between any two of them. *)
EXTENDS Naturals, FiniteSets

CONSTANTS
  Savers, Editor, Opener, None,  \* the threads: they save routes, edit the key, open the store
  Routes, Secrets,               \* the routes; the secrets the key may be given (both 1..n)
  MaxRefs, MaxEdits, MaxFaults, MaxCrashes  \* bounds

StoreAssumption ==
  /\ {Editor, Opener, None} \cap Savers = {} /\ Editor # Opener /\ None \notin {Editor, Opener}
  /\ Routes \subseteq Nat \ {0} /\ IsFiniteSet(Routes) /\ Secrets \subseteq Nat \ {0}
  /\ MaxRefs \in Nat /\ MaxEdits \in Nat /\ MaxFaults \in Nat /\ MaxCrashes \in Nat

VARIABLES
  vault,    \* the keychain item: the secret of each reference; account 0 is the SSH key's
  vlock,    \* the operation lock of the vault
  doc,      \* the committed document: its revision and the reference each route names
  snap,     \* the published snapshot
  mutex,    \* the lock of the published snapshot, held by a whole save
  journal,  \* the preferences llm.pendingCredential.<reference>
  row,      \* the row of the key in the database: the secret it describes, or 0
  proc,     \* the threads
  ghost,    \* references published in this run, ever, whose they are; what an edit found
  used      \* references, edits, faults and crashes so far

vars == <<vault, vlock, doc, snap, mutex, journal, row, proc, ghost, used>>

Procs == Savers \cup {Editor, Opener}
Key   == 0
Rest  == [pc |-> "idle", left |-> {}, staged |-> {}, cand |-> [rev |-> 0, ref |-> [r \in Routes |-> 0]],
          copy |-> [n \in 0..MaxRefs |-> 0], name |-> 0, value |-> 0, ok |-> "idle", bad |-> "idle",
          old |-> 0, res |-> "none"]
RefsOf(d) == {d.ref[r] : r \in Routes} \ {0}

Init ==  \* an empty document is committed when there is none
  /\ vault = [n \in 0..MaxRefs |-> 0] /\ vlock = None /\ mutex = None /\ journal = {} /\ row = 0
  /\ doc = [rev |-> 1, ref |-> [r \in Routes |-> 0]] /\ snap = doc
  /\ proc = [p \in Procs |-> Rest]
  /\ ghost = [run |-> {}, ever |-> {}, owner |-> [n \in 1..MaxRefs |-> 0], secret |-> 0, row |-> 0]
  /\ used = [refs |-> 0, edits |-> 0, faults |-> 0, crashes |-> 0]

Up       == proc[Opener].pc = "idle"
At(p, pc) == proc[p].pc = pc
To(p, pc) == proc' = [proc EXCEPT ![p].pc = pc]
Fault    == used.faults < MaxFaults /\ used' = [used EXCEPT !.faults = @ + 1]

(* ---------------------------- the credential vault ---------------------------- *)
\* set_credential and delete_credential (a deletion writes 0): under the lock the item is
\* loaded, changed and saved; loading fails closed, also on a version that is not known.
Call(p, name, value, ok, bad) ==
  proc' = [proc EXCEPT ![p].pc = "load", ![p].name = name, ![p].value = value,
                       ![p].ok = ok, ![p].bad = bad]
Load(p) ==
  /\ At(p, "load") /\ vlock = None
  /\ \/ vlock' = p /\ proc' = [proc EXCEPT ![p].pc = "save", ![p].copy = vault] /\ UNCHANGED used
     \/ Fault /\ To(p, proc[p].bad) /\ UNCHANGED vlock
  /\ UNCHANGED <<vault, doc, snap, mutex, journal, row, ghost>>
Save(p) ==
  /\ At(p, "save") /\ vlock' = None
  /\ \/ /\ vault' = [proc[p].copy EXCEPT ![proc[p].name] = proc[p].value]
        /\ To(p, proc[p].ok) /\ UNCHANGED used
     \/ Fault /\ To(p, proc[p].bad) /\ UNCHANGED vault
  /\ UNCHANGED <<doc, snap, mutex, journal, row, ghost>>

(* ------------------------------ saving the routes ------------------------------ *)
Accepted(auth, given) == \A r \in Routes \ given : auth[r] \in {0, snap.ref[r]}
Fresh(r, given) == used.refs + Cardinality({x \in given : x <= r})
Begin(w) ==
  \E given \in SUBSET Routes, auth \in [Routes -> {0} \cup RefsOf(snap)] :
    LET ref  == [r \in Routes |-> IF r \in given THEN Fresh(r, given) ELSE auth[r]]
        mine == {ref[r] : r \in given}
    IN /\ Up /\ At(w, "idle") /\ mutex = None /\ Accepted(auth, given)
       /\ snap.rev <= MaxRefs + 1 /\ used.refs + Cardinality(given) <= MaxRefs /\ ref # snap.ref
       /\ \A r \in given : auth[r] = snap.ref[r]
       /\ mutex' = w /\ used' = [used EXCEPT !.refs = @ + Cardinality(given)]
       /\ proc' = [proc EXCEPT ![w] = [Rest EXCEPT !.pc = "journal", !.left = mine, !.staged = mine,
                                       !.cand = [rev |-> snap.rev + 1, ref |-> ref]]]
       /\ ghost' = [ghost EXCEPT !.owner = [n \in 1..MaxRefs |-> IF n \in mine
                                              THEN CHOOSE r \in given : ref[r] = n ELSE @[n]]]
       /\ UNCHANGED <<vault, vlock, doc, snap, journal, row>>
Ends(w) == proc' = [proc EXCEPT ![w] = Rest] /\ mutex' = None
\* The references are journaled before the keychain is touched.
Journal(w) ==
  /\ At(w, "journal") /\ UNCHANGED <<vault, vlock, doc, snap, row, ghost>>
  /\ \/ \E r \in proc[w].left : /\ journal' = journal \cup {r} /\ UNCHANGED <<mutex, used>>
                                /\ proc' = [proc EXCEPT ![w].left = @ \ {r}]
     \/ /\ proc[w].left = {} /\ UNCHANGED <<journal, mutex, used>>
        /\ proc' = [proc EXCEPT ![w].pc = "set", ![w].left = proc[w].staged]
     \/ proc[w].left # {} /\ Fault /\ Ends(w) /\ UNCHANGED journal
SetSecrets(w) ==
  /\ At(w, "set")
  /\ IF proc[w].left = {} THEN To(w, "commit")
     ELSE \E r \in proc[w].left :
            proc' = [proc EXCEPT ![w].left = @ \ {r}, ![w].pc = "load", ![w].name = r, ![w].value = r,
                                 ![w].ok = "set", ![w].bad = "unset"]
  /\ UNCHANGED <<vault, vlock, doc, snap, mutex, journal, row, ghost, used>>
\* A secret that cannot be stored: all are deleted again, whatever comes of it, and the
\* journal is cleared.
Unset(w) ==
  /\ At(w, "unset") /\ proc' = [proc EXCEPT ![w].pc = "unsetting", ![w].left = proc[w].staged]
  /\ UNCHANGED <<vault, vlock, doc, snap, mutex, journal, row, ghost, used>>
Delete(w, pc) ==
  /\ At(w, pc) /\ proc[w].left # {}
  /\ \E r \in proc[w].left :
       proc' = [proc EXCEPT ![w].left = @ \ {r}, ![w].pc = "load", ![w].name = r, ![w].value = 0,
                            ![w].ok = pc, ![w].bad = pc]
  /\ UNCHANGED <<vault, vlock, doc, snap, mutex, journal, row, ghost, used>>
\* Failures of clearing the journal are ignored.
Cleared(w) ==
  \/ journal' = journal \ proc[w].staged /\ UNCHANGED used
  \/ Fault /\ UNCHANGED journal
Unjournal(w) ==
  /\ At(w, "unsetting") /\ proc[w].left = {} /\ Cleared(w) /\ Ends(w)
  /\ UNCHANGED <<vault, vlock, doc, snap, row, ghost>>
Commit(w) ==
  /\ At(w, "commit") /\ UNCHANGED <<vault, vlock, snap, mutex, journal, row>>
  /\ \/ /\ doc.rev + 1 = proc[w].cand.rev /\ doc' = proc[w].cand /\ To(w, "publish") /\ UNCHANGED used
        /\ ghost' = [ghost EXCEPT !.run = @ \cup RefsOf(proc[w].cand), !.ever = @ \cup RefsOf(proc[w].cand)]
     \/ /\ Fault /\ proc' = [proc EXCEPT ![w].pc = "uncommit", ![w].left = proc[w].staged]
        /\ UNCHANGED <<doc, ghost>>
Uncommitted(w) ==  \* the journal keeps them
  /\ At(w, "uncommit") /\ proc[w].left = {} /\ Ends(w)
  /\ UNCHANGED <<vault, vlock, doc, snap, journal, row, ghost, used>>
Publish(w) ==
  /\ At(w, "publish") /\ snap' = proc[w].cand /\ Cleared(w) /\ Ends(w)
  /\ UNCHANGED <<vault, vlock, doc, row, ghost>>

(* --------------------------- opening and recovering --------------------------- *)
Open ==
  /\ At(Opener, "open") /\ snap' = doc
  /\ proc' = [proc EXCEPT ![Opener].pc = "recover", ![Opener].left = journal]
  /\ UNCHANGED <<vault, vlock, doc, mutex, journal, row, ghost, used>>
Unreferenced(r) == r \notin RefsOf(snap)
Recover ==
  /\ At(Opener, "recover") /\ UNCHANGED <<vault, vlock, doc, snap, mutex, journal, row, ghost, used>>
  /\ IF proc[Opener].left = {} THEN To(Opener, "idle")
     ELSE \E r \in proc[Opener].left :
            proc' = [proc EXCEPT ![Opener].left = @ \ {r}, ![Opener].name = r, ![Opener].value = 0,
                                 ![Opener].pc = IF Unreferenced(r) THEN "load" ELSE "forget",
                                 ![Opener].ok = "forget", ![Opener].bad = "failed"]
Forget ==
  /\ At(Opener, "forget") /\ UNCHANGED <<vault, vlock, doc, snap, mutex, row, ghost>>
  /\ \/ journal' = journal \ {proc[Opener].name} /\ To(Opener, "recover") /\ UNCHANGED used
     \/ Fault /\ To(Opener, "failed") /\ UNCHANGED journal
Retry ==  \* the application did not start: the user starts it again
  /\ At(Opener, "failed") /\ proc' = [proc EXCEPT ![Opener] = [Rest EXCEPT !.pc = "open"]]
  /\ UNCHANGED <<vault, vlock, doc, snap, mutex, journal, row, ghost, used>>

(* ------------------------------ the SSH key ------------------------------ *)
StoreKey ==
  \E v \in Secrets :
    /\ Up /\ At(Editor, "idle") /\ vlock = None /\ used.edits < MaxEdits
    /\ used' = [used EXCEPT !.edits = @ + 1]
    /\ proc' = [proc EXCEPT ![Editor] = [Rest EXCEPT !.pc = "load", !.name = Key, !.value = v, !.old = vault[Key],
                                         !.staged = {v}, !.ok = "upsert", !.bad = "refused"]]
    /\ ghost' = [ghost EXCEPT !.secret = vault[Key], !.row = row]
    /\ UNCHANGED <<vault, vlock, doc, snap, mutex, journal, row>>
Upsert ==
  /\ At(Editor, "upsert") /\ UNCHANGED <<vault, vlock, doc, snap, mutex, journal, ghost>>
  /\ \/ /\ row' = proc[Editor].value /\ UNCHANGED used /\ proc' = [proc EXCEPT ![Editor] = [Rest EXCEPT !.res = "ok"]]
     \/ Fault /\ UNCHANGED row /\ Call(Editor, Key, proc[Editor].old, "refused", "refused")
Refused ==
  /\ At(Editor, "refused") /\ proc' = [proc EXCEPT ![Editor] = [Rest EXCEPT !.res = "refused"]]
  /\ UNCHANGED <<vault, vlock, doc, snap, mutex, journal, row, ghost, used>>
DeleteKey ==
  /\ Up /\ At(Editor, "idle") /\ used.edits < MaxEdits /\ used' = [used EXCEPT !.edits = @ + 1]
  /\ proc' = [proc EXCEPT ![Editor] = [Rest EXCEPT !.pc = "load", !.name = Key, !.ok = "drop"]]
  /\ UNCHANGED <<vault, vlock, doc, snap, mutex, journal, row, ghost>>
DropRow ==
  /\ At(Editor, "drop") /\ proc' = [proc EXCEPT ![Editor] = Rest]
  /\ (row' = 0 /\ UNCHANGED used) \/ (Fault /\ UNCHANGED row)
  /\ UNCHANGED <<vault, vlock, doc, snap, mutex, journal, ghost>>

Crash ==
  /\ used.crashes < MaxCrashes /\ used' = [used EXCEPT !.crashes = @ + 1]
  /\ proc' = [p \in Procs |-> IF p = Opener THEN [Rest EXCEPT !.pc = "open"] ELSE Rest]
  /\ vlock' = None /\ mutex' = None /\ ghost' = [ghost EXCEPT !.run = RefsOf(doc)]
  /\ UNCHANGED <<vault, doc, snap, journal, row>>

SaverStep(w) ==
  \/ Begin(w) \/ Journal(w) \/ SetSecrets(w) \/ Unset(w) \/ Delete(w, "unsetting") \/ Unjournal(w)
  \/ Commit(w) \/ Delete(w, "uncommit") \/ Uncommitted(w) \/ Publish(w)
EditorStep == StoreKey \/ Upsert \/ Refused \/ DeleteKey \/ DropRow
OpenerStep == Open \/ Recover \/ Forget \/ Retry
Next ==
  \/ \E w \in Savers : SaverStep(w)
  \/ EditorStep \/ OpenerStep \/ Crash
  \/ \E p \in Procs : Load(p) \/ Save(p)
Spec == Init /\ [][Next]_vars

(* -------------------------------- properties -------------------------------- *)
\* The types of the variables, and that the vault's lock is held while the item is changed.
TypeOK ==
  /\ vault \in [0..MaxRefs -> 0..MaxRefs \cup Secrets] /\ journal \subseteq 1..MaxRefs
  /\ RefsOf(doc) \cup RefsOf(snap) \subseteq 1..MaxRefs /\ row \in {0} \cup Secrets
  /\ \A p \in Procs : (vlock = p) = At(p, "save")

\* The committed document never names a secret that is not stored, wherever a save fails
\* or the application dies.
CommittedResolves == \A n \in RefsOf(doc) : vault[n] = n

\* A run that took a snapshot finds its secrets as long as the application lives, whatever
\* is saved meanwhile.
FrozenResolves == \A n \in ghost.run : vault[n] = n

\* A stored secret that no document ever named can be found again through the journal:
\* recovery removes every orphan.  With two failed accesses it is not so: the journal entries
\* of secrets that could not be deleted are cleared (llm/routes.rs:407).
NoOrphans == \A n \in 1..MaxRefs : vault[n] # 0 => n \in ghost.ever \cup journal

\* Outside a save the published snapshot is the committed document.
SnapshotIsCommitted == Up /\ mutex = None => snap = doc

\* No route is ever given the secret of another.
OwnSecrets == \A r \in Routes : doc.ref[r] # 0 => ghost.owner[doc.ref[r]] = r

\* An edit of the key that was refused leaves its secret and its row as they were, if only
\* one access failed.
RefusedChangesNothing ==
  proc[Editor].res = "refused" /\ used.faults < 2 => vault[Key] = ghost.secret /\ row = ghost.row
=============================================================================
