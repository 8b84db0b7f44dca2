------------------------------- MODULE FilePages -------------------------------
(* The agent's tools that read files page by page: list_directory, search_text and read_file
   (native/filesystem.rs). Every page looks at the target again; a cursor names the result it
   is a page of, and a search says when its bounds made it stop. The files change meanwhile. *)
EXTENDS Naturals, Sequences, FiniteSets, SequencesExt, FiniteSetsExt

CONSTANTS
  Paths,       \* files, in the order of their names: 1, 2, ...
  Contents,    \* what a file may hold: a sequence of characters, each the bytes it takes
  Hits,        \* contents the query is found in
  Named,       \* paths whose name the query is found in
  Heavy,       \* paths whose entry alone is more than a page may hold
  MaxFiles, MaxBytes,     \* bounds of a search
  PageSize, PageBytes,    \* bounds of a page
  MaxChanges

Gone == << >>
Bytes(content) == FoldSeq(+, 0, content)
PagesAssumption ==
  /\ Paths = 1..Cardinality(Paths) /\ Hits \subseteq Contents /\ Named \cup Heavy \subseteq Paths
  /\ \A c \in Contents : c # Gone /\ c \in Seq(1..4)
  /\ {MaxFiles, MaxBytes, PageSize, PageBytes, MaxChanges} \subseteq Nat /\ PageSize > 0

VARIABLES
  world,    \* the files
  tool, checks,         \* what is asked, and whether read_file names the digest of its first page
  phase, outcome,
  visited, files, used, results, cut,    \* one call's walk: see Visit and Match
  stable,   \* files that have not changed during the call
  cursor,   \* where the next page begins, and of what
  basis,    \* what the first page was a page of
  got,      \* the pages so far
  told,     \* whether the last page said there is more than it shows
  changes

walk == <<visited, files, used, results, cut>>
paging == <<cursor, basis, got, told>>
vars == <<world, tool, checks, phase, outcome, walk, stable, paging, changes>>

Fresh == [at |-> 0, of |-> << >>, first |-> TRUE]
Init ==
  /\ world \in [Paths -> Contents \cup {Gone}] /\ tool \in {"list", "search", "read"} /\ checks \in BOOLEAN
  /\ phase = "idle" /\ outcome = "none" /\ visited = {} /\ files = << >> /\ used = 0 /\ results = {}
  /\ cut = FALSE /\ stable = Paths /\ cursor = Fresh /\ basis = << >> /\ got = << >> /\ told = FALSE
  /\ changes = 0

Ends(how) == phase' = "ended" /\ outcome' = how
Asked == UNCHANGED <<world, tool, checks, changes>>

(* ------------------------------- listing and searching --------------------- *)
Ask ==
  /\ phase = "idle" /\ phase' = IF tool = "read" THEN "reading" ELSE "walking"
  /\ visited' = {} /\ files' = << >> /\ used' = 0 /\ results' = {} /\ cut' = FALSE /\ stable' = Paths
  /\ Asked /\ UNCHANGED <<outcome, paging>>
Entry(p) == [path |-> p, what |-> Bytes(world[p])]
FullAt == MaxFiles
\* One entry of the directory, in any order; a search collects the files it will read.
Visit(p) ==
  /\ phase = "walking" /\ p \notin visited /\ Len(files) < FullAt /\ visited' = visited \cup {p}
  /\ results' = IF tool = "list" /\ world[p] # Gone THEN results \cup {Entry(p)} ELSE results
  /\ files' = IF tool = "search" /\ world[p] # Gone THEN Append(files, p) ELSE files
  /\ Asked /\ UNCHANGED <<phase, outcome, used, cut, stable, paging>>
Cut == Len(files) >= MaxFiles
Walked ==
  /\ phase = "walking" /\ (visited = Paths \/ Len(files) >= FullAt)
  /\ cut' = Cut /\ phase' = IF tool = "list" THEN "paging" ELSE "matching"
  /\ Asked /\ UNCHANGED <<outcome, visited, files, used, results, stable, paging>>
ByName(p) == IF p \in Named THEN {[path |-> p, what |-> 0]} ELSE {}
ByContent(p) == IF world[p] \in Hits THEN {[path |-> p, what |-> 1]} ELSE {}
\* A file that cannot be read fails the search; one too many bytes end it.
Match ==
  /\ phase = "matching" /\ files # << >>
  /\ LET p == Head(files) IN
     IF world[p] = Gone THEN Ends("failed") /\ UNCHANGED <<files, used, results, cut>>
     ELSE IF used + Bytes(world[p]) > MaxBytes
     THEN /\ cut' = TRUE /\ results' = results \cup ByName(p) /\ files' = << >>
          /\ UNCHANGED <<used, phase, outcome>>
     ELSE /\ used' = used + Bytes(world[p]) /\ results' = results \cup ByName(p) \cup ByContent(p)
          /\ files' = Tail(files) /\ UNCHANGED <<cut, phase, outcome>>
  /\ Asked /\ UNCHANGED <<visited, stable, paging>>
Matched == phase = "matching" /\ files = << >> /\ phase' = "paging"
           /\ Asked /\ UNCHANGED <<outcome, walk, stable, paging>>
Listing == SetToSortSeq(results, LAMBDA a, b : a.path < b.path \/ (a.path = b.path /\ a.what < b.what))

(* --------------------------------- a page of it ---------------------------- *)
SameListing(listing) == cursor.first \/ cursor.of = listing
Weight(s) == FoldSeq(LAMBDA e, sum : sum + (IF e.path \in Heavy THEN PageBytes + 1 ELSE 1), 0, s)
\* As many as fit; the last entry is given up as long as they are too long together.
End(listing) ==
  Max({e \in cursor.at..Min({cursor.at + PageSize, Len(listing)}) :
         e = cursor.at \/ Weight(SubSeq(listing, cursor.at + 1, e)) <= PageBytes})
Stuck(listing) == End(listing) = cursor.at /\ cursor.at < Len(listing)
NextAt(end) == end
Page ==
  /\ phase = "paging"
  /\ IF ~SameListing(Listing) \/ cursor.at > Len(Listing) \/ Stuck(Listing)
     THEN Ends("failed") /\ UNCHANGED paging
     ELSE LET end == End(Listing) IN
       /\ got' = got \o SubSeq(Listing, cursor.at + 1, end)
       /\ basis' = IF cursor.first THEN Listing ELSE basis
       /\ told' = ((tool = "search" /\ cut) \/ end < Len(Listing))
       /\ cursor' = [at |-> NextAt(end), of |-> Listing, first |-> FALSE]
       /\ IF end < Len(Listing) THEN phase' = "idle" /\ UNCHANGED outcome ELSE Ends("complete")
  /\ Asked /\ UNCHANGED <<walk, stable>>

(* ----------------------------------- read_file ----------------------------- *)
Boundaries(content) == {Bytes(SubSeq(content, 1, n)) : n \in 0..Len(content)}
Floor(content, n) == Max({b \in Boundaries(content) : b <= n})
\* The characters between two boundaries.
Slice(content, from, to) ==
  LET index(b) == CHOOSE n \in 0..Len(content) : Bytes(SubSeq(content, 1, n)) = b
  IN SubSeq(content, index(from) + 1, index(to))
\* The reader continues where the last page ended, whatever the file is by now.
Read ==
  /\ phase = "reading"
  /\ LET now  == world[1]
         size == Bytes(now)
         end  == Floor(now, Min({cursor.at + PageBytes, size})) IN
     IF \/ now = Gone
        \/ checks /\ ~cursor.first /\ cursor.of # now
        \/ cursor.at > size \/ cursor.at \notin Boundaries(now)
        \/ end = cursor.at /\ end < size
     THEN Ends("failed") /\ UNCHANGED paging
     ELSE /\ got' = got \o Slice(now, cursor.at, end)
          /\ basis' = IF cursor.first THEN now ELSE basis
          /\ cursor' = [at |-> end, of |-> now, first |-> FALSE] /\ told' = (end < size)
          /\ IF end < size THEN phase' = "idle" /\ UNCHANGED outcome ELSE Ends("complete")
  /\ Asked /\ UNCHANGED <<walk, stable>>

Change(p, content) ==
  /\ changes < MaxChanges /\ changes' = changes + 1 /\ content # world[p] /\ phase # "ended"
  /\ world' = [world EXCEPT ![p] = content] /\ stable' = stable \ {p}
  /\ UNCHANGED <<tool, checks, phase, outcome, walk, paging>>

Step == Ask \/ Walked \/ Match \/ Matched \/ Page \/ Read \/ \E p \in Paths : Visit(p)
Next == Step \/ \E p \in Paths, c \in Contents \cup {Gone} : Change(p, c)
Spec == Init /\ [][Next]_vars
\* A call that was asked goes on, and the agent asks for the next page.
FairSpec == Spec /\ WF_vars(Step)

(* -------------------------------- properties ------------------------------- *)
\* Only what was found is paged, and a page that is not the last says so.
TypeOK ==
  /\ phase \in {"idle", "walking", "matching", "paging", "reading", "ended"}
  /\ outcome \in {"none", "complete", "failed"} /\ (phase = "ended") = (outcome # "none")
  /\ used <= MaxBytes /\ Len(files) <= MaxFiles
  /\ cursor.at <= IF tool = "read" THEN Bytes(cursor.of) ELSE Len(cursor.of)
  /\ outcome = "none" /\ ~cursor.first => told
\* The pages an agent has been given are the beginning of one result, whatever changed between
\* the calls; those of read_file are when it names the digest.
PagesAreOneResult == tool # "read" \/ checks => IsPrefix(got, basis)
CompleteIsAll == outcome = "complete" /\ (tool # "read" \/ checks) => got = basis
\* A file that was there during the whole call, and is found, is shown, unless the result says
\* that it stopped at its bounds.
NothingMissedSilently ==
  outcome = "complete" /\ tool = "search" /\ ~told =>
    \A p \in stable : world[p] # Gone => ByName(p) \cup ByContent(p) \subseteq Range(got)
\* Asking for page after page ends.
ReaderEnds == <>(phase = "ended")
=============================================================================
