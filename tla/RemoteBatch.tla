------------------------------- MODULE RemoteBatch -------------------------------
(***************************************************************************)
(* The batches of src/src-tauri/src/remote_fs.rs: uploads and downloads,   *)
(* which go on after an entry that fails and report every entry, and       *)
(* deletions, which stop at the first failure.  How a single upload stages *)
(* and publishes its file is RemoteTransfer's subject; here it is a step.  *)
(* A download writes its destination in place.                             *)
(*                                                                         *)
(* An entry of a batch is a file, a symbolic link (to a file or to nothing *)
(* that can be opened) or a directory with one file in it.  Meanwhile      *)
(* another client removes entries and adds children to directories, the    *)
(* connection is lost (once), and the user cancels.                        *)
(***************************************************************************)
EXTENDS Naturals, Sequences, FiniteSets

CONSTANTS Entries,   \* the entries a batch may hold: [name, type, opens, policy]
          Names, N,  \* base names; the number of entries of a batch
          Directions \* subset of {"upload", "download", "delete"}

BatchAssumption ==
  /\ Entries \subseteq [name : Names, type : {"file", "link", "dir"}, opens : BOOLEAN,
                        policy : {"rename", "overwrite", "replace", "skip", "fail"}]
  /\ N \in Nat \ {0} /\ Directions \subseteq {"upload", "download", "delete"}

VARIABLES
  direction, batch,  \* the request
  there,             \* remote sources, or remote targets of a deletion, still there
  extra,             \* directories into which another client has put a child
  target,            \* what each destination name holds
  taken,             \* names known or reserved at the destination
  pc, i, path,       \* where the batch is; the name the entry was given
  results,           \* one outcome per entry processed
  total, completed,  \* steps of a deletion, as its progress reports them
  removed,           \* what the deletion removed
  cancelled, link,   \* the user's flag; does the connection work?
  pooled             \* is the pool's connection to the host kept?

vars == <<direction, batch, there, extra, target, taken, pc, i, path, results, total, completed,
          removed, cancelled, link, pooled>>

Copies      == {[name |-> n, copy |-> k] : n \in Names, k \in 0 .. N}
None        == [from |-> 0, state |-> "none"]
Old         == [from |-> 0, state |-> "whole"]
Holds(k, s) == [from |-> k, state |-> s]
Nodes       == (1 .. N) \X {"self", "child"}
Outcomes    == {"completed", "skipped", "failed"}
Entry       == batch[i]
Tree(k)     == {<<k, "self">>} \cup IF batch[k].type = "dir" THEN {<<k, "child">>} ELSE {}

TypeOK ==
  /\ direction \in Directions /\ batch \in [1 .. N -> Entries]
  /\ there \subseteq Nodes /\ extra \subseteq 1 .. N
  /\ target \in [Copies -> {None, Old} \cup {Holds(k, s) : k \in 1 .. N,
                                               s \in {"part", "whole", "empty"}}]
  /\ taken \subseteq Copies /\ path \in Copies
  /\ pc \in {"scan", "next", "write", "link", "list", "child", "self", "returned", "error"}
  /\ i \in 1 .. N + 1 /\ results \in UNION {[1 .. n -> Outcomes] : n \in 0 .. N}
  /\ total \in Nat /\ completed \in 0 .. total /\ removed \subseteq Nodes
  /\ {cancelled, link, pooled} \subseteq BOOLEAN

Init ==
  /\ direction \in Directions /\ batch \in [1 .. N -> Entries]
  /\ there = UNION {Tree(k) : k \in 1 .. N} /\ extra = {}
  /\ \E old \in SUBSET Names :
       /\ taken = {[name |-> n, copy |-> 0] : n \in old}
       /\ target = [c \in Copies |-> IF c \in taken THEN Old ELSE None]
  /\ pc = "scan" /\ i = 1 /\ path = [name |-> batch[1].name, copy |-> 0]
  /\ results = <<>> /\ total = 0 /\ completed = 0 /\ removed = {}
  /\ cancelled = FALSE /\ link = TRUE /\ pooled = TRUE

-----------------------------------------------------------------------------
(* Outcomes.  A request that fails because the connection is lost makes the  *)
(* caller give up the pooled connection to that host, too.                   *)

Request == UNCHANGED <<direction, batch>>
Outside == UNCHANGED <<there, extra, cancelled, link>>

Reports(outcome) ==
  /\ results' = Append(results, outcome)
  /\ pooled' = (pooled /\ (link \/ cancelled \/ outcome # "failed"))
  /\ i' = i + 1 /\ pc' = "next"

Aborts == pc' = "error" /\ pooled' = (pooled /\ (link \/ cancelled)) /\ UNCHANGED <<results, i>>

(* The whole tree is inspected before anything is transferred; a deletion    *)
(* inspects as it goes.                                                      *)
Scan ==
  /\ pc = "scan" /\ Request /\ Outside
  /\ IF direction # "delete" /\ (cancelled \/ ~link \/ there # UNION {Tree(k) : k \in 1 .. N})
       THEN Aborts
       ELSE pc' = "next" /\ UNCHANGED <<results, i, pooled>>
  /\ UNCHANGED <<target, taken, path, total, completed, removed>>

-----------------------------------------------------------------------------
(* Uploads and downloads.                                                    *)

Base  == [name |-> Entry.name, copy |-> 0]
Fresh == CHOOSE c \in Copies : /\ c.name = Entry.name /\ c \notin taken
                               /\ \A k \in 0 .. c.copy - 1 : [c EXCEPT !.copy = k] \in taken

(* The names an entry may be given; none when its policy refuses a conflict. *)

Resolved ==
  CASE Base \notin taken -> {Base}
    [] Base \in taken /\ Entry.policy = "rename" /\ direction = "download" -> {Fresh}
    [] Base \in taken /\ Entry.policy \in {"overwrite", "replace"} -> {Base}
    [] OTHER -> {}

NextEntry ==
  /\ pc = "next" /\ direction # "delete" /\ Request /\ Outside
  /\ \/ /\ i > N /\ pc' = IF cancelled THEN "error" ELSE "returned"
        /\ UNCHANGED <<target, taken, path, results, i, pooled>>
     \/ /\ i <= N /\ cancelled
        /\ i' = N + 1 /\ pc' = "error" /\ UNCHANGED <<target, taken, path, results, pooled>>
     \/ /\ i <= N /\ ~cancelled /\ Resolved = {}
        /\ Reports(IF Entry.policy = "skip" THEN "skipped" ELSE "failed")
        /\ UNCHANGED <<target, taken, path>>
     \/ /\ i <= N /\ ~cancelled
        /\ \E name \in Resolved :
             /\ path' = name
             /\ IF direction = "upload"
                  THEN pc' = "write" /\ UNCHANGED <<target, taken>>
                  ELSE /\ taken' = taken \cup {name}
                       /\ target' = IF Entry.policy = "replace"
                                      THEN [target EXCEPT ![name] = None] ELSE target
                       /\ pc' = IF Entry.type = "link" THEN "link" ELSE "write"
        /\ UNCHANGED <<results, i, pooled>>
  /\ UNCHANGED <<total, completed, removed>>

(* A file leaves its old content or its new one when it is uploaded; what an *)
(* interrupted download leaves is a part of it.                              *)
UploadEntry ==
  /\ pc = "write" /\ direction = "upload" /\ Request /\ Outside
  /\ \/ /\ link /\ ~cancelled /\ Reports("completed")
        /\ taken' = taken \cup {path}
        /\ target' = [target EXCEPT ![path] = Holds(i, "whole")]
     \/ /\ ~link \/ cancelled \/ Entry.type = "link"
        /\ Reports("failed") /\ UNCHANGED <<taken, target>>
  /\ UNCHANGED <<path, total, completed, removed>>

Opens == link /\ ~cancelled /\ <<i, "self">> \in there /\ Entry.opens

Fetched(outcome, state) ==
  /\ Reports(outcome)
  /\ target' = IF state = "same" THEN target ELSE [target EXCEPT ![path] = Holds(i, state)]

DownloadEntry ==
  /\ pc = "write" /\ direction = "download" /\ Request /\ Outside
  /\ IF Opens THEN Fetched("completed", "whole")
     ELSE \E state \in {"same", "part"} : Fetched("failed", state)
  /\ UNCHANGED <<taken, path, total, completed, removed>>

(* A link that cannot be fetched as a file is replaced by an empty file, so  *)
(* that the batch goes on.                                                   *)
DownloadLink ==
  /\ pc = "link" /\ Request /\ Outside
  /\ IF Opens THEN Fetched("completed", "whole") ELSE Fetched("completed", "empty")
  /\ UNCHANGED <<taken, path, total, completed, removed>>

-----------------------------------------------------------------------------
(* Deletion: one walk, children before their directory.  A directory that is *)
(* not empty cannot be removed.                                              *)

Counted(n) == total' = total + n

Discover ==
  /\ pc = "next" /\ direction = "delete" /\ Request /\ Outside
  /\ \/ i > N /\ pc' = "returned" /\ UNCHANGED <<results, i, pooled, total>>
     \/ /\ i <= N /\ (cancelled \/ ~link \/ <<i, "self">> \notin there)
        /\ Aborts /\ Counted(IF cancelled THEN 0 ELSE 1)
     \/ /\ i <= N /\ ~cancelled /\ link /\ <<i, "self">> \in there
        /\ Counted(1)
        /\ pc' = IF Entry.type = "dir" THEN "list" ELSE "self"
        /\ UNCHANGED <<results, i, pooled>>
  /\ UNCHANGED <<target, taken, path, completed, removed>>

(* Children are counted when they are listed, and each of them again when it *)
(* is its turn.  An added child is listed if it is already there.            *)
ListChildren ==
  LET children == (Tree(i) \cap there) \ {<<i, "self">>}
      added    == IF i \in extra THEN 1 ELSE 0
  IN  /\ pc = "list" /\ Request /\ UNCHANGED <<there, cancelled, link>>
      /\ IF ~link THEN Aborts /\ UNCHANGED <<total, completed, extra>>
         ELSE /\ Counted(Cardinality(children) + 2 * added)
              /\ completed' = completed + added /\ extra' = extra \ {i}
              /\ pc' = IF children = {} THEN "self" ELSE "child"
              /\ UNCHANGED <<results, i, pooled>>
      /\ UNCHANGED <<target, taken, path, removed>>

RemovedAt(node) == removed' = removed \cup {node} /\ there' = there \ {node}

Child ==
  /\ pc = "child" /\ Request /\ UNCHANGED <<extra, cancelled, link>>
  /\ IF cancelled \/ ~link \/ <<i, "child">> \notin there
       THEN Aborts /\ UNCHANGED <<there, removed, completed>>
            /\ Counted(IF cancelled THEN 0 ELSE 1)
       ELSE /\ RemovedAt(<<i, "child">>) /\ Counted(1) /\ completed' = completed + 1
            /\ pc' = "self" /\ UNCHANGED <<results, i, pooled>>
  /\ UNCHANGED <<target, taken, path>>

Empty == ~(<<i, "child">> \in there \/ i \in extra)

Self ==
  /\ pc = "self" /\ Request /\ UNCHANGED <<extra, cancelled, link>>
  /\ IF cancelled \/ ~link \/ <<i, "self">> \notin there \/ ~Empty
       THEN Aborts /\ UNCHANGED <<there, removed, completed>>
       ELSE /\ RemovedAt(<<i, "self">>) /\ completed' = completed + 1
            /\ i' = i + 1 /\ pc' = "next" /\ UNCHANGED <<results, pooled>>
  /\ UNCHANGED <<target, taken, path, total>>

-----------------------------------------------------------------------------
(* What happens around a batch.                                              *)

Ended == pc \in {"returned", "error"}
Rest == UNCHANGED <<direction, batch, target, taken, pc, i, path, results, total, completed,
                    removed, pooled>>

Cancel     == ~Ended /\ ~cancelled /\ cancelled' = TRUE /\ Rest /\ UNCHANGED <<there, extra, link>>
Disconnect == ~Ended /\ link /\ link' = FALSE /\ Rest /\ UNCHANGED <<there, extra, cancelled>>

OtherClient(k) ==
  /\ ~Ended /\ Rest /\ UNCHANGED <<cancelled, link>>
  /\ \/ there' = there \ Tree(k) /\ there' # there /\ extra' = extra \ {k}
     \/ batch[k].type = "dir" /\ <<k, "self">> \in there /\ k \notin extra
        /\ extra' = extra \cup {k} /\ UNCHANGED there

Walk == Scan \/ NextEntry \/ UploadEntry \/ DownloadEntry \/ DownloadLink
          \/ Discover \/ ListChildren \/ Child \/ Self

Next == Walk \/ Cancel \/ Disconnect \/ \E k \in 1 .. N : OtherClient(k)

Spec == Init /\ [][Next]_vars
FairSpec == Spec /\ WF_vars(Walk)

-----------------------------------------------------------------------------
(* Properties.                                                               *)

(* Without Overwrite and Replace a download displaces nothing: neither what  *)
(* was there nor another entry of the batch that has the same name.          *)
DisplacesNothing ==
  \A c \in Copies : direction = "download" /\ target[c].state = "whole" => target'[c] = target[c]
NothingDisplaced == [][DisplacesNothing]_vars

(* "Two remote entries sharing a file name (from different parent            *)
(* directories) never overwrite each other's download"                       *)
(* (remote_fs.rs:1267-1268).                                                 *)
OwnDownloadsKept ==
  [][\A c \in Copies : direction = "download" /\ target[c].from # 0 /\ target[c].state = "whole"
        => target'[c] = target[c]]_vars

(* An entry the caller is told is completed has its content at a name of its *)
(* own, where no later entry has displaced it.  A link is the exception: any *)
(* failure to fetch it, a lost connection too, leaves an empty file that is  *)
(* reported as completed (remote_fs.rs:1646-1649).                           *)
CompletedIsThere ==
  pc = "returned" /\ direction = "download" =>
    \A k \in 1 .. N : results[k] = "completed" =>
      \E c \in Copies, state \in {"whole", "empty"} :
         target[c] = Holds(k, state) /\ (state = "empty" => batch[k].type = "link")

(* A failing entry costs the others nothing: a batch that returns has an     *)
(* outcome for each, and the name of a completed upload holds that entry or  *)
(* a later one of the batch.                                                 *)
EveryEntryReported ==
  /\ pc = "returned" /\ direction # "delete" => Len(results) = N
  /\ direction = "upload" => \A k \in 1 .. Len(results) : results[k] = "completed" =>
       \E later \in k .. N :
          target[[name |-> batch[k].name, copy |-> 0]] = Holds(later, "whole")

(* A deletion removes nothing it has not listed, and reports success only    *)
(* when everything is gone, children another client added in time included.  *)
DeletesWhatItListed ==
  /\ \A k \in extra : <<k, "self">> \notin removed
  /\ pc = "returned" /\ direction = "delete" =>
       \A k \in 1 .. N : Tree(k) \cap there = {} /\ k \notin extra

(* The progress of a deletion reaches what it has discovered                 *)
(* (remote_fs.rs:884-886: "removed N of M discovered so far").               *)
AllDiscoveredRemoved == pc = "returned" => completed = total

BatchEnds == <>Ended
================================================================================
