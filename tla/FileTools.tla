------------------------------- MODULE FileTools -------------------------------
(* The agent's tools that change one file: write_file, apply_patch and edit_file,
   transfer_file and trash_file (native/filesystem.rs), with the checkpoint that is kept of
   what they replace (native/checkpoint.rs). Calls run beside each other, beside whoever
   else edits the file, and beside cancellation; a remote file is replaced in several
   requests, each of which may fail. *)
EXTENDS Naturals, Sequences, FiniteSets, SequencesExt

CONSTANTS
  Ops,       \* calls on the file
  Values,    \* contents
  Plans,     \* what a call may ask for, see PlanType
  Capacity,  \* checkpoints that are kept
  MaxEdits,  \* changes by others
  MaxRefused, MaxLost, MaxCrashes

Absent  == "absent"
Nothing == "nothing"
PlanType == [kind : {"write", "patch", "transfer", "trash"}, remote : BOOLEAN, dry : BOOLEAN,
             expects : Values \cup {Absent}, writes : Values \cup {Absent}]
FileAssumption ==
  /\ Plans \subseteq PlanType /\ Capacity \in Nat \ {0} /\ {Absent, Nothing} \cap Values = {}
  /\ \A p \in Plans : /\ p.kind = "patch" => p.expects # Absent /\ p.writes # p.expects
                      /\ p.kind = "trash" => ~p.remote /\ p.expects # Absent /\ p.writes = Absent
                      /\ p.dry => p.kind = "patch"
  /\ {MaxEdits, MaxRefused, MaxLost, MaxCrashes} \subseteq Nat

VARIABLES
  file,       \* its content
  inside,     \* whether its directory is a real one of the frozen root
  plan,       \* of each call
  at,         \* where each call is
  temp,       \* the file a call has staged beside it
  backup,     \* what a call has moved out of the way
  kept,       \* the checkpoint store, oldest first
  flagged,    \* the registry's flag of a call
  stopped,    \* when a call's task was cancelled: "early" is before the call is registered
  displaced,  \* what a call's replacement took the place of
  drifted,    \* history: calls whose file changed after their last look at it
  put,        \* calls whose content has been put in place
  outcome,
  spent       \* faults and edits so far

vars == <<file, inside, plan, at, temp, backup, kept, flagged, stopped, displaced, drifted, put,
          outcome, spent>>

Init ==
  /\ file \in Values \cup {Absent} /\ inside = TRUE /\ plan \in [Ops -> Plans]
  /\ at = [o \in Ops |-> "asked"] /\ temp = [o \in Ops |-> Nothing] /\ backup = [o \in Ops |-> Nothing]
  /\ kept = << >> /\ flagged = [o \in Ops |-> FALSE] /\ stopped = [o \in Ops |-> "no"]
  /\ displaced = [o \in Ops |-> Nothing] /\ drifted = {} /\ put = {} /\ outcome = [o \in Ops |-> Nothing]
  /\ spent = [edits |-> 0, refused |-> 0, lost |-> 0, crashes |-> 0]

Remote(o) == plan[o].remote
Done(o) == at[o] = "done"
Goes(o, place) == at' = [at EXCEPT ![o] = place] /\ UNCHANGED outcome
Ends(o, how) == at' = [at EXCEPT ![o] = "done"] /\ outcome' = [outcome EXCEPT ![o] = how]
\* A change of the file comes too late for those that have had their last look at it.
Drifts(by) == drifted' = drifted \cup {o \in Ops \ by : at[o] = "clear" /\ file' # file}
Unstaged == UNCHANGED <<temp, backup>>
Disk == UNCHANGED <<file, inside, displaced, drifted, put>>
Rest == UNCHANGED <<plan, stopped, spent>>

(* ------------------------------- looking at the file ----------------------- *)
\* Every look starts at the frozen root and refuses a link on the way.
Resolved == inside
Matches(o) == Resolved /\ file = plan[o].expects
Unchanged(o)  == Matches(o)            \* the digest, or the absence, of the precondition
\* ensure_active: the flag is looked at at the beginning of a step.
LastFlag(o) == flagged[o]
\* The preview for the approval; a transfer's says only what was asked.
Review(o) ==
  /\ at[o] = "asked"
  /\ IF plan[o].kind # "transfer" /\ ~Matches(o) THEN Ends(o, "refused") ELSE Goes(o, "approved")
  /\ Unstaged /\ Disk /\ Rest /\ UNCHANGED <<kept, flagged>>
Begin(o) ==
  /\ at[o] = "approved" /\ Goes(o, "begun") /\ flagged' = [flagged EXCEPT ![o] = FALSE]
  /\ Unstaged /\ Disk /\ Rest /\ UNCHANGED kept
\* The same look again; a dry run ends here, trash has nothing to stage.
Plan(o) ==
  /\ at[o] = "begun"
  /\ IF flagged[o] THEN Ends(o, "cancelled")
     ELSE IF ~Matches(o) THEN Ends(o, "refused")
     ELSE IF plan[o].dry THEN Ends(o, "validated")
     ELSE Goes(o, IF plan[o].kind = "trash" THEN "seen" ELSE "planned")
  /\ Unstaged /\ Disk /\ Rest /\ UNCHANGED <<kept, flagged>>

(* --------------------------------- the checkpoint -------------------------- *)
Original(o) == plan[o].expects
\* The oldest are given up when there are too many.
Bounded(records) == IF Len(records) > Capacity THEN Tail(records) ELSE records
Keep(o) ==
  /\ at[o] = "planned" /\ Goes(o, "kept")
  /\ kept' = Bounded(Append(kept, [op |-> o, content |-> Original(o)]))
  /\ Unstaged /\ Disk /\ Rest /\ UNCHANGED flagged

(* ------------------------------ replacing atomically ----------------------- *)
Check(o) ==
  /\ at[o] = "kept"
  /\ IF flagged[o] THEN Ends(o, "cancelled") ELSE IF ~Unchanged(o) THEN Ends(o, "refused") ELSE Goes(o, "checked")
  /\ Unstaged /\ Disk /\ Rest /\ UNCHANGED <<kept, flagged>>
\* The content goes into a file of its own. Only a remote write is cut short by the flag.
WriteTemp(o) ==
  /\ at[o] = "checked"
  /\ IF Remote(o) /\ flagged[o] THEN Ends(o, "cancelled") /\ UNCHANGED temp
     ELSE Goes(o, "written") /\ temp' = [temp EXCEPT ![o] = plan[o].writes]
  /\ Disk /\ Rest /\ UNCHANGED <<backup, kept, flagged>>
\* A remote one gets the permissions and is read back: cancelled there, it is left.
Stage(o) ==
  /\ at[o] = "written"
  /\ IF Remote(o) /\ flagged[o] THEN Ends(o, "cancelled") ELSE Goes(o, "staged")
  /\ Unstaged /\ Disk /\ Rest /\ UNCHANGED <<kept, flagged>>
\* The last look. What was staged locally goes with the handle; a remote file is removed
\* when the content has drifted, and left when the call is cancelled or the path is gone.
Recheck(o) ==
  /\ at[o] \in {"staged", "seen"}
  /\ IF LastFlag(o)
     THEN Ends(o, "cancelled") /\ temp' = IF Remote(o) THEN temp ELSE [temp EXCEPT ![o] = Nothing]
     ELSE IF ~Unchanged(o)
     THEN Ends(o, "refused") /\ temp' = IF Remote(o) /\ ~inside THEN temp ELSE [temp EXCEPT ![o] = Nothing]
     ELSE Goes(o, "clear") /\ UNCHANGED temp
  /\ Disk /\ Rest /\ UNCHANGED <<backup, kept, flagged>>
ByBackup(o) == Remote(o) /\ plan[o].expects # Absent
\* Whatever is there now is moved out of the way: what has gone cannot be.
Backup(o) ==
  /\ at[o] = "clear" /\ ByBackup(o)
  /\ IF file = Absent THEN Ends(o, "failed") /\ UNCHANGED <<file, backup, displaced, drifted>>
     ELSE Goes(o, "backed") /\ backup' = [backup EXCEPT ![o] = file] /\ file' = Absent
          /\ displaced' = [displaced EXCEPT ![o] = file] /\ Drifts({o})
  /\ Rest /\ UNCHANGED <<inside, temp, kept, flagged, put>>
RollsBack(o) ==
  IF file = Absent THEN file' = backup[o] /\ backup' = [backup EXCEPT ![o] = Nothing] ELSE UNCHANGED <<file, backup>>
\* A local file, and the trash, take what is there; a remote rename does not overwrite.
Replace(o) ==
  /\ \/ at[o] = "clear" /\ ~ByBackup(o)
     \/ at[o] = "backed"
  /\ IF Remote(o) /\ file # Absent
     THEN /\ Ends(o, IF ByBackup(o) THEN "unconfirmed" ELSE "failed")
          /\ UNCHANGED <<file, displaced, drifted, put>>
     ELSE /\ Goes(o, IF plan[o].kind = "trash" THEN "verified" ELSE "put")
          /\ file' = plan[o].writes /\ put' = put \cup {o} /\ Drifts({o})
          /\ displaced' = IF ByBackup(o) THEN displaced ELSE [displaced EXCEPT ![o] = file]
  /\ temp' = [temp EXCEPT ![o] = Nothing]
  /\ Rest /\ UNCHANGED <<inside, backup, kept, flagged>>
Unlink(o) ==
  /\ at[o] = "put" /\ backup[o] # Nothing /\ backup' = [backup EXCEPT ![o] = Nothing]
  /\ UNCHANGED <<at, outcome, temp, kept, flagged>> /\ Disk /\ Rest
\* The file is read again: only that makes the call a success.
Verify(o) ==
  /\ at[o] = "put" /\ backup[o] = Nothing
  /\ IF flagged[o] THEN Ends(o, "cancelled")
     ELSE IF Resolved /\ file = plan[o].writes THEN Ends(o, "ok") ELSE Ends(o, "failed")
  /\ Unstaged /\ Disk /\ Rest /\ UNCHANGED <<kept, flagged>>
Trashed(o) ==
  /\ at[o] = "verified" /\ Ends(o, "ok") /\ Unstaged /\ Disk /\ Rest /\ UNCHANGED <<kept, flagged>>

(* -------------------------------- faults and others ------------------------ *)
Registered(o) == at[o] \notin {"asked", "approved", "done"}
Cancel(o) ==
  /\ stopped[o] = "no" /\ ~Done(o) /\ at[o] # "asked"
  /\ flagged' = [flagged EXCEPT ![o] = Registered(o)]
  /\ stopped' = [stopped EXCEPT ![o] = IF ~Registered(o) THEN "early"
                                        ELSE IF at[o] \in {"clear", "backed", "put", "verified"} THEN "late"
                                        ELSE "inTime"]
  /\ UNCHANGED <<at, outcome, plan, spent, kept>> /\ Unstaged /\ Disk
Counts(fault) == spent' = [spent EXCEPT ![fault] = @ + 1]
\* The server, or the disk, refuses a step.
Refused(o) ==
  /\ spent.refused < MaxRefused /\ Counts("refused") /\ at[o] \in {"checked", "written", "clear", "backed", "put"}
  /\ ~Done(o) /\ (at[o] = "put" => backup[o] # Nothing)
  /\ IF at[o] = "backed"
     THEN /\ RollsBack(o) /\ Drifts({o})
          /\ Ends(o, IF file = Absent THEN "failed" ELSE "unconfirmed")
          /\ temp' = [temp EXCEPT ![o] = Nothing]
          /\ displaced' = [displaced EXCEPT ![o] = IF file = Absent THEN Nothing ELSE @]
     ELSE /\ Ends(o, "failed") /\ UNCHANGED <<file, backup, displaced, drifted>>
          /\ temp' = [temp EXCEPT ![o] = IF Remote(o) /\ (at[o] = "written" \/ ByBackup(o)) THEN @ ELSE Nothing]
  /\ UNCHANGED <<inside, put, kept, flagged, plan, stopped>>
\* The connection goes: the request it was in may have been done, and nothing is cleaned up.
Lost(o) ==
  /\ spent.lost < MaxLost /\ Counts("lost") /\ Remote(o) /\ Registered(o)
  /\ Ends(o, IF at[o] = "backed" THEN "unconfirmed" ELSE "failed")
  /\ \/ UNCHANGED <<file, backup, temp, displaced, drifted, put>>
     \/ /\ at[o] = "clear" /\ ByBackup(o) /\ file # Absent
        /\ backup' = [backup EXCEPT ![o] = file] /\ displaced' = [displaced EXCEPT ![o] = file]
        /\ file' = Absent /\ Drifts({o}) /\ UNCHANGED <<temp, put>>
     \/ /\ at[o] = "backed" \/ (at[o] = "clear" /\ ~ByBackup(o))
        /\ file = Absent
        /\ file' = plan[o].writes /\ temp' = [temp EXCEPT ![o] = Nothing] /\ put' = put \cup {o}
        /\ displaced' = (IF ByBackup(o) THEN displaced ELSE [displaced EXCEPT ![o] = Absent])
        /\ Drifts({o}) /\ UNCHANGED backup
  /\ UNCHANGED <<inside, kept, flagged, plan, stopped>>
\* The program ends where it is, with all its calls.
Crash ==
  /\ spent.crashes < MaxCrashes /\ Counts("crashes")
  /\ outcome' = [o \in Ops |-> IF Done(o) THEN outcome[o] ELSE "crashed"] /\ at' = [o \in Ops |-> "done"]
  /\ UNCHANGED <<file, inside, plan, temp, backup, kept, flagged, stopped, displaced, drifted, put>>
Edit(v) ==
  /\ spent.edits < MaxEdits /\ Counts("edits") /\ file' = v /\ file # v /\ Drifts({})
  /\ UNCHANGED <<inside, plan, at, temp, backup, kept, flagged, stopped, displaced, put, outcome>>
Relink ==
  /\ spent.edits < MaxEdits /\ Counts("edits") /\ inside' = ~inside
  /\ UNCHANGED <<file, plan, at, temp, backup, kept, flagged, stopped, displaced, drifted, put, outcome>>

Step(o) ==
  \/ Review(o) \/ Begin(o) \/ Plan(o) \/ Keep(o) \/ Check(o) \/ WriteTemp(o) \/ Stage(o) \/ Recheck(o)
  \/ Backup(o) \/ Replace(o) \/ Unlink(o) \/ Verify(o) \/ Trashed(o)
Next ==
  \/ \E o \in Ops : Step(o) \/ Cancel(o) \/ Refused(o) \/ Lost(o)
  \/ Crash \/ Relink \/ \E v \in Values \cup {Absent} : Edit(v)
Spec == Init /\ [][Next]_vars
\* A call that is running goes on.
FairSpec == Spec /\ \A o \in Ops : WF_vars(Step(o))

(* -------------------------------- properties ------------------------------- *)
Places == {"asked", "approved", "begun", "planned", "seen", "kept", "checked", "written", "staged",
           "clear", "backed", "put", "verified", "done"}
\* Only a call that is replacing the file has something staged or moved away, and only one
\* that has ended an outcome.
TypeOK ==
  /\ file \in Values \cup {Absent} /\ at \in [Ops -> Places]
  /\ Len(kept) <= Capacity /\ {put, drifted} \subseteq SUBSET Ops
  /\ \A o \in Ops : /\ Done(o) = (outcome[o] # Nothing)
                    /\ backup[o] # Nothing => ByBackup(o) /\ displaced[o] = backup[o]
                    /\ temp[o] # Nothing => temp[o] = plan[o].writes

\* What a call replaces, moves away or puts into the trash is the content its precondition
\* named and the user reviewed, if the file stayed as it was at the call's last look. The look
\* and the replacement are two steps (filesystem.rs:1828-1837): what changes between them is
\* replaced unseen.
ReplacesWhatWasReviewed ==
  \A o \in Ops : displaced[o] # Nothing /\ o \notin drifted => displaced[o] = plan[o].expects
\* What a call has taken the place of is in the checkpoint store, moved aside, or in the trash,
\* with the same exception: no checkpoint has what a call has not seen.
NothingVanishes ==
  \A o \in Ops : displaced[o] \in Values /\ plan[o].kind # "trash" /\ o \notin drifted
                   => [op |-> o, content |-> displaced[o]] \in Range(kept) \cup {[op |-> o, content |-> backup[o]]}
\* A call that does not succeed has put back what it moved away, or says it is not sure: unless
\* the connection went before it knew.
TakenIsPutBack ==
  spent.lost = 0 => \A o \in Ops : Done(o) /\ backup[o] # Nothing
                   => o \in put \/ outcome[o] \in {"unconfirmed", "crashed"}
\* A call that is cancelled once it is registered, and before the last look at its file, leaves
\* the file as it is. Before that nothing is flagged: a call is registered with a flag of its own
\* that is not set (filesystem.rs:86), and goes on.
StopsInTime == \A o \in Ops : stopped[o] = "inTime" => displaced[o] = Nothing /\ o \notin put
\* Every call ends.
CallsEnd == \A o \in Ops : <>Done(o)
=============================================================================
