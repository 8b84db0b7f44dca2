----------------------------- MODULE RemoteTransfer ------------------------------
(***************************************************************************)
(* Staged transfers of src/src-tauri/src/remote_fs.rs: uploads from this   *)
(* machine and copies between hosts.  Each operation of Ops carries one    *)
(* file to the same remote name; another client of the server writes that  *)
(* name as well.  A file is a sequence of chunks, each marked with the     *)
(* version of the source it was read from.                                 *)
(*                                                                         *)
(* Every SFTP request is a step.  A request may fail, or be executed and   *)
(* reported as failed (its reply came too late); a connection may be lost  *)
(* for good; the application may die.  MaxFaults bounds these together,    *)
(* MaxOther the writes of the other client, MaxChanges the changes of a    *)
(* source, whose operations are of the kinds in Unstable.                  *)
(*                                                                         *)
(* Left out: directories as sources (their replacement is documented as    *)
(* not atomic), symbolic links (staged and published as files are),        *)
(* permissions and times.                                                  *)
(***************************************************************************)
EXTENDS Naturals, Sequences, FiniteSets, TLC

CONSTANTS Ops, Kinds, Policies, Size, MaxAttempts, MaxFaults, MaxOther, MaxChanges, Unstable

TransferAssumption ==
  /\ Kinds \subseteq {"upload", "copy"} /\ Unstable \subseteq Kinds
  /\ Policies \subseteq {"fail", "skip", "overwrite", "replace"}
  /\ Size \in Nat \ {0} /\ MaxAttempts \in Nat \ {0}
  /\ {MaxFaults, MaxOther, MaxChanges} \subseteq Nat

VARIABLES
  dest,       \* what the destination name holds
  tmp, bak,   \* what each operation's staging and backup names hold
  source,     \* each operation's source file, as a sequence of versions
  op,         \* each operation's control state
  link,       \* does its connection still work?
  cancelled,  \* its cancellation flag
  overwrites, \* does the server honour the OVERWRITE flag of a rename?
  emptied,    \* the name is empty because nothing was there, or another client removed it
  published,  \* the operations whose file has been under the name
  hit,        \* the operations that met a fault
  faults, others, changes

vars == <<dest, tmp, bak, source, op, link, cancelled, overwrites, emptied, published, hit,
          faults, others, changes>>

Item(by, data) == [by |-> by, data |-> data]
Absent    == Item("absent", <<>>)
Directory == Item("directory", <<>>)
Files     == {Item(by, <<>>) : by \in {"old", "other"}}
Versions  == 1 .. MaxChanges + 1
Chunks    == UNION {[1 .. n -> Versions] : n \in 0 .. Size}
Staged    == {Item(o, data) : o \in Ops, data \in Chunks}
Entries   == {Absent, Directory} \cup Files \cup Staged

Working == {"plan", "attempt", "write", "check", "direct", "inspect", "backup", "publish",
            "clean", "unlink", "rollback", "backoff"}
Reports == {"completed", "skipped", "failed", "died"}
Ended(o) == op[o].pc \in Reports

TypeOK ==
  /\ dest \in Entries
  /\ tmp \in [Ops -> {Absent} \cup Staged] /\ bak \in [Ops -> Entries]
  /\ source \in [Ops -> Chunks]
  /\ op \in [Ops -> [kind : Kinds, policy : Policies, pc : Working \cup Reports, allow : BOOLEAN,
                     undo : BOOLEAN, attempt : 0 .. MaxAttempts, size : 0 .. Size,
                     shown : Nat, credited : 0 .. Size, at : 0 .. Size]]
  /\ link \in [Ops -> BOOLEAN] /\ cancelled \in [Ops -> BOOLEAN]
  /\ {overwrites, emptied} \subseteq BOOLEAN
  /\ published \subseteq Ops /\ hit \subseteq Ops
  /\ faults \in 0 .. MaxFaults /\ others \in 0 .. MaxOther /\ changes \in 0 .. MaxChanges

Init ==
  /\ dest \in {Absent, Directory, Item("old", <<>>)}
  /\ tmp = [o \in Ops |-> Absent] /\ bak = [o \in Ops |-> Absent]
  /\ source = [o \in Ops |-> [i \in 1 .. Size |-> 1]]
  /\ op \in [Ops -> [kind : Kinds, policy : Policies, pc : {"plan"}, allow : {FALSE},
                     undo : {FALSE}, attempt : {0}, size : {0}, shown : {0}, credited : {0},
                     at : {0}]]
  /\ link = [o \in Ops |-> TRUE] /\ cancelled = [o \in Ops |-> FALSE]
  /\ overwrites \in BOOLEAN
  /\ emptied = (dest = Absent)
  /\ published = {} /\ hit = {}
  /\ faults = 0 /\ others = 0 /\ changes = 0

-----------------------------------------------------------------------------
(* A request the server would accept iff `can`: what it does and what the    *)
(* caller is told.                                                           *)

Replies(o, can) ==
  LET truth == [done |-> can, ok |-> can]
      fault == {[done |-> FALSE, ok |-> FALSE], [done |-> can, ok |-> FALSE]}
  IN  IF ~link[o] THEN {[done |-> FALSE, ok |-> FALSE]}
      ELSE {truth} \cup IF can /\ faults < MaxFaults THEN fault ELSE {}

Sent(o, can, r) ==
  /\ faults' = IF link[o] /\ r.ok # can THEN faults + 1 ELSE faults
  /\ hit' = IF r.ok # can THEN hit \cup {o} ELSE hit

Sets(o, fields) == op' = [op EXCEPT ![o] = fields @@ @]
Goes(o, pc) == Sets(o, [pc |-> pc])

(* Who fails removes its staging file first; a copy may try again.           *)

AfterFailure(o, attempts) ==
  IF op[o].kind = "copy" /\ attempts < MaxAttempts /\ ~cancelled[o] THEN "backoff" ELSE "unlink"

-----------------------------------------------------------------------------
(* Transferring.                                                             *)

Overwriting(o) == op[o].policy \in {"overwrite", "replace"}

(* Names and policies are resolved before anything is transferred; only a    *)
(* copy forgets its permission to overwrite when there is nothing there.     *)
Plan(o) ==
  LET exists == dest # Absent
      allow  == Overwriting(o) /\ (exists \/ op[o].kind = "upload")
  IN  /\ op[o].pc = "plan"
      /\ \E r \in Replies(o, TRUE) :
           /\ Sent(o, TRUE, r)
           /\ Sets(o, [pc |-> IF ~r.ok \/ cancelled[o] \/ (exists /\ op[o].policy = "fail")
                                THEN "failed"
                              ELSE IF exists /\ op[o].policy = "skip" THEN "skipped"
                              ELSE "attempt",
                       allow |-> allow, size |-> Len(source[o])])
      /\ UNCHANGED <<dest, tmp, bak, source, link, cancelled, overwrites, emptied, published,
                     others, changes>>

(* An attempt looks for a staging file and resumes at its end; without one   *)
(* it creates it, exclusively.  An upload makes one attempt.  Progress is    *)
(* credited for what no earlier attempt has been credited for.               *)

Uncredited(o, offset) == IF offset > op[o].credited THEN offset - op[o].credited ELSE 0

ResumeAt(o) ==
  IF op[o].kind = "copy" /\ Len(tmp[o].data) <= op[o].size THEN Len(tmp[o].data) ELSE 0

Attempt(o) ==
  LET at == ResumeAt(o)
      n  == op[o].attempt + 1
  IN  /\ op[o].pc = "attempt"
      /\ \E r \in Replies(o, TRUE) :
           /\ Sent(o, TRUE, r)
           /\ tmp' = IF r.done /\ at = 0 THEN [tmp EXCEPT ![o] = Item(o, <<>>)] ELSE tmp
           /\ Sets(o, IF r.ok
                        THEN [attempt |-> n, at |-> at,
                              pc |-> IF at > 0 /\ at = op[o].size THEN "check" ELSE "write",
                              shown |-> op[o].shown + Uncredited(o, at),
                              credited |-> op[o].credited + Uncredited(o, at)]
                        ELSE [attempt |-> n, pc |-> AfterFailure(o, n)])
      /\ UNCHANGED <<dest, bak, source, link, cancelled, overwrites, emptied, published,
                     others, changes>>

(* One chunk; the end of the source ends the attempt.                        *)
Write(o) ==
  LET at   == op[o].at + 1
      more == at <= Len(source[o])
      data == Append(tmp[o].data, source[o][at])
  IN  /\ op[o].pc = "write"
      /\ IF cancelled[o]
           THEN Goes(o, "unlink") /\ UNCHANGED <<tmp, faults, hit>>
           ELSE \E r \in Replies(o, TRUE) :
                  /\ Sent(o, TRUE, r)
                  /\ tmp' = IF more /\ r.done THEN [tmp EXCEPT ![o].data = data] ELSE tmp
                  /\ Sets(o, IF ~r.ok THEN [pc |-> AfterFailure(o, op[o].attempt)]
                             ELSE IF ~more THEN [pc |-> "check"]
                             ELSE [at |-> at, shown |-> op[o].shown + Uncredited(o, at),
                                   credited |-> op[o].credited + Uncredited(o, at)])
      /\ UNCHANGED <<dest, bak, source, link, cancelled, overwrites, emptied, published,
                     others, changes>>

Backoff(o) ==
  /\ op[o].pc = "backoff"
  /\ Goes(o, IF cancelled[o] THEN "unlink" ELSE "attempt")
  /\ UNCHANGED <<dest, tmp, bak, source, link, cancelled, overwrites, emptied, published, hit,
                 faults, others, changes>>

(* Only an upload compares the size of what it staged with its source.       *)

Verified(o) == op[o].kind = "upload" => Len(tmp[o].data) = op[o].size

Check(o) ==
  LET next == IF op[o].kind = "upload" THEN "inspect" ELSE "direct"
  IN  /\ op[o].pc = "check"
      /\ \E r \in Replies(o, TRUE) :
           /\ Sent(o, TRUE, r)
           /\ Goes(o, IF cancelled[o] \/ (op[o].kind = "upload" /\ ~(r.ok /\ Verified(o)))
                        THEN "unlink" ELSE next)
      /\ UNCHANGED <<dest, tmp, bak, source, link, cancelled, overwrites, emptied, published,
                     others, changes>>

-----------------------------------------------------------------------------
(* Publishing: the staging file takes the name; what had it waits under a    *)
(* backup name until that is done, and is brought back if it is not.         *)

Publishes(o) == dest' = tmp[o] /\ tmp' = [tmp EXCEPT ![o] = Absent]
                /\ published' = published \cup {o} /\ emptied' = FALSE
KeepsOld == UNCHANGED <<dest, tmp, bak, published, emptied>>

(* Without the OVERWRITE flag a rename onto an existing name is refused.     *)

CanTake(o, over) ==
  tmp[o] # Absent /\ (dest = Absent \/ (over /\ overwrites /\ dest # Directory))

(* A copy first renames over the destination, if it may.                     *)
Direct(o) ==
  LET can == CanTake(o, op[o].allow)
  IN  /\ op[o].pc = "direct"
      /\ \E r \in Replies(o, can) :
           /\ Sent(o, can, r)
           /\ IF r.done THEN Publishes(o) /\ UNCHANGED bak ELSE KeepsOld
           /\ Goes(o, IF r.ok THEN "completed" ELSE IF op[o].allow THEN "inspect" ELSE "unlink")
      /\ UNCHANGED <<source, link, cancelled, overwrites, others, changes>>

Inspect(o) ==
  LET upload == op[o].kind = "upload"
  IN  /\ op[o].pc = "inspect"
      /\ \E r \in Replies(o, TRUE) :
           /\ Sent(o, TRUE, r)
           /\ Goes(o, IF r.ok /\ dest = Absent /\ upload THEN "publish"
                      ELSE IF r.ok /\ dest # Absent /\ op[o].allow
                              /\ (dest = Directory => op[o].policy = "replace") THEN "backup"
                      ELSE "unlink")
      /\ UNCHANGED <<dest, tmp, bak, source, link, cancelled, overwrites, emptied, published,
                     others, changes>>

AsideRemoved(o) == dest' = Absent /\ UNCHANGED bak  \* mutant: removed, not renamed

Aside(o) == dest' = Absent /\ bak' = [bak EXCEPT ![o] = dest]

Backup(o) ==
  LET can == dest # Absent
  IN  /\ op[o].pc = "backup"
      /\ \E r \in Replies(o, can) :
           /\ Sent(o, can, r)
           /\ IF r.done THEN Aside(o) ELSE UNCHANGED <<bak, dest>>
           /\ Sets(o, [pc |-> IF r.ok THEN "publish" ELSE "unlink", undo |-> r.ok])
      /\ UNCHANGED <<tmp, source, link, cancelled, overwrites, emptied, published, others,
                     changes>>

Publish(o) ==
  LET can == CanTake(o, FALSE)
  IN  /\ op[o].pc = "publish"
      /\ \E r \in Replies(o, can) :
           /\ Sent(o, can, r)
           /\ IF r.done THEN Publishes(o) /\ UNCHANGED bak ELSE KeepsOld
           /\ Goes(o, IF r.ok THEN IF op[o].undo THEN "clean" ELSE "completed"
                      ELSE IF op[o].kind = "copy" THEN "rollback" ELSE "unlink")
      /\ UNCHANGED <<source, link, cancelled, overwrites, others, changes>>

Clean(o) ==
  /\ op[o].pc = "clean"
  /\ \E r \in Replies(o, TRUE) :
       /\ Sent(o, TRUE, r)
       /\ bak' = IF r.done THEN [bak EXCEPT ![o] = Absent] ELSE bak
  /\ Goes(o, "completed")
  /\ UNCHANGED <<dest, tmp, source, link, cancelled, overwrites, emptied, published, others,
                 changes>>

Rollback(o) ==
  LET can == bak[o] # Absent /\ dest = Absent
  IN  /\ op[o].pc = "rollback"
      /\ \E r \in Replies(o, can) :
           /\ Sent(o, can, r)
           /\ IF r.done
                THEN dest' = bak[o] /\ bak' = [bak EXCEPT ![o] = Absent] /\ emptied' = FALSE
                ELSE UNCHANGED <<dest, bak, emptied>>
      /\ Sets(o, [pc |-> "unlink", undo |-> FALSE])
      /\ UNCHANGED <<tmp, source, link, cancelled, overwrites, published, others, changes>>

(* An upload whose publication failed unlinks before it rolls back, too.     *)
Unlink(o) ==
  LET can == tmp[o] # Absent
  IN  /\ op[o].pc = "unlink"
      /\ \E r \in Replies(o, can) :
           /\ Sent(o, can, r)
           /\ tmp' = IF r.done THEN [tmp EXCEPT ![o] = Absent] ELSE tmp
      /\ Goes(o, IF op[o].undo THEN "rollback" ELSE "failed")
      /\ UNCHANGED <<dest, bak, source, link, cancelled, overwrites, emptied, published, others,
                     changes>>

-----------------------------------------------------------------------------
(* What happens around an operation.                                         *)

Cancel(o) ==
  /\ ~Ended(o) /\ ~cancelled[o]
  /\ cancelled' = [cancelled EXCEPT ![o] = TRUE]
  /\ UNCHANGED <<dest, tmp, bak, source, op, link, overwrites, emptied, published, hit, faults,
                 others, changes>>

Disconnect(o) ==
  /\ ~Ended(o) /\ link[o] /\ faults < MaxFaults
  /\ link' = [link EXCEPT ![o] = FALSE] /\ hit' = hit \cup {o} /\ faults' = faults + 1
  /\ UNCHANGED <<dest, tmp, bak, source, op, cancelled, overwrites, emptied, published, others,
                 changes>>

Die ==
  /\ faults < MaxFaults /\ \E o \in Ops : ~Ended(o)
  /\ op' = [o \in Ops |-> IF Ended(o) THEN op[o] ELSE [op[o] EXCEPT !.pc = "died"]]
  /\ hit' = hit \cup {o \in Ops : ~Ended(o)} /\ faults' = faults + 1
  /\ UNCHANGED <<dest, tmp, bak, source, link, cancelled, overwrites, emptied, published,
                 others, changes>>

OtherWrites ==
  /\ others < MaxOther /\ others' = others + 1
  /\ dest' \in {Absent, Directory, Item("other", <<>>)} \ {dest}
  /\ emptied' = (dest' = Absent)
  /\ UNCHANGED <<tmp, bak, source, op, link, cancelled, overwrites, published, hit, faults,
                 changes>>

(* A new version of the source, as long or shorter: of a local file at any   *)
(* time, of a remote one by a replacement that spares who reads the old one. *)
SourceChanges(o) ==
  /\ op[o].kind \in Unstable /\ changes < MaxChanges
  /\ op[o].kind = "copy" => op[o].pc = "backoff"
  /\ changes' = changes + 1
  /\ \E n \in 0 .. Size : source' = [source EXCEPT ![o] = [i \in 1 .. n |-> changes + 2]]
  /\ UNCHANGED <<dest, tmp, bak, op, link, cancelled, overwrites, emptied, published, hit,
                 faults, others>>

Step(o) ==
  \/ Plan(o) \/ Attempt(o) \/ Write(o) \/ Backoff(o) \/ Check(o) \/ Direct(o) \/ Inspect(o)
  \/ Backup(o) \/ Publish(o) \/ Clean(o) \/ Rollback(o) \/ Unlink(o)

Next ==
  \/ \E o \in Ops : Step(o) \/ Cancel(o) \/ Disconnect(o) \/ SourceChanges(o)
  \/ Die \/ OtherWrites

Spec == Init /\ [][Next]_vars
FairSpec == Spec /\ \A o \in Ops : WF_vars(Step(o))

-----------------------------------------------------------------------------
(* Properties.                                                               *)

(* Whatever fails, is cancelled or dies, a file under the real name is never *)
(* a part of what its operation set out to transfer                          *)
(* (remote_fs.rs:4188-4190, 2182-2184), as long as the source is what it was *)
(* when the operation looked at its size.                                    *)
NoPartialFile == dest.by \in Ops /\ changes = 0 => Len(dest.data) = op[dest.by].size

(* The published file is not a splice of two versions of its source: a       *)
(* resumed copy continues the file it began (remote_fs.rs:2182-2186).        *)
NoSplice ==
  dest.by \in Ops => \A i, j \in DOMAIN dest.data : dest.data[i] = dest.data[j]

(* An operation never leaves the name empty without the displaced entry      *)
(* waiting under a backup name: overwriting loses nothing, even when the     *)
(* application dies between two renames or a rollback fails.                 *)
NeverLost == dest = Absent /\ ~emptied => \E o \in Ops : bak[o] # Absent

(* No operation moves or replaces an entry its policy protects, also one     *)
(* another client put there after the names were resolved                    *)
(* (remote_fs.rs:2288-2290).                                                 *)
Respects        == \A o \in Ops : op'[o] # op[o] /\ dest' # dest /\ dest # Absent => Overwriting(o)
PolicyRespected == [][Respects]_vars

(* Only Replace takes a directory out of the way; Overwrite refuses, as the  *)
(* message of prepare_upload_destination_backup says ("remote path is a      *)
(* directory").  It looks first and renames later.                           *)
DirectoriesSpared ==
  [][\A o \in Ops : op'[o] # op[o] /\ dest' # dest /\ dest = Directory
        => op[o].policy = "replace"]_vars

(* Completed means that the file has been under the name; what ended without *)
(* meeting a fault left no staging file and no backup, unless it failed, the *)
(* name was taken meanwhile and the previous entry could not be brought back.*)
ReportsTheTruth ==
  \A o \in Ops :
    /\ op[o].pc = "completed" => o \in published
    /\ Ended(o) /\ o \notin hit =>
         /\ tmp[o] = Absent
         /\ op[o].pc # "completed" => o \notin published
         /\ bak[o] # Absent => op[o].pc = "failed" /\ (others > 0 \/ published # {})

(* Progress counts every byte once, however many attempts are made.          *)
CountedOnce == \A o \in Ops : op[o].shown <= op[o].size
                 /\ (op[o].pc = "completed" /\ changes = 0 => op[o].shown = op[o].size)

(* Every operation ends, also when its connection stays lost.                *)
TransfersEnd == \A o \in Ops : <>Ended(o)
================================================================================
