--------------------------- MODULE AgentDriver_proof ---------------------------
(* Proofs about AgentDriver, for every number of tasks, entries, messages, questions
   and reservations: its type invariant, the ownership of the worker slot, that no two
   tasks ever drive the Session, that nothing runs once a stop has reached its end, and
   that an open question always has a live scope to be answered in.

   Neither OneDriver nor StopIsQuiet is inductive.  That two tasks never have the slots of
   two entries follows from what a stop and an archive have done before they let go of an
   entry: Ownership is what they have done.  That no scope and no question outlives the
   Session follows from what each of them has seen closed by then: Settled is that.

   The steps are taken together by who takes them: a task, the user, the main thread,
   the asynchronous submission and reconnect, a stop. *)
EXTENDS AgentDriver, TLAPS

\* The bounds and the holders of the slot, one by one.
LEMMA Bounds == /\ MaxEntries \in Nat /\ MaxInputs \in Nat
                /\ MaxQuestions \in Nat /\ MaxReserved \in Nat
  BY DriverBoundAssumption

\* No task has the name of another holder.
LEMMA Names == "none" \notin Tasks /\ "main" \notin Tasks /\ "reconnect" \notin Tasks
  BY TaskAssumption

(* ------------------------------ the type invariant ------------------------ *)

\* The shape of the state holds initially, part by part.
LEMMA TypeInit == Init => TypeOK
<1> SUFFICES ASSUME Init PROVE TypeOK
  OBVIOUS
<1>1. FlagsOK
  BY Zenon DEF Init, FlagsOK
<1>2. EntryOK
  BY DEF Init, EntryOK, Phases, Holders
<1>3. RegistryOK
  BY Bounds DEF Init, RegistryOK
<1>4. RecordOK
  BY DEF Init, RecordOK
<1>5. ControlOK
  BY Bounds DEF Init, ControlOK, TaskPlaces, MainPlaces, StopPlaces, Off, At
<1>6. count \in Counts
  BY Bounds DEF Init, Counts
<1> QED
  BY <1>1, <1>2, <1>3, <1>4, <1>5, <1>6 DEF TypeOK

\* Every step of every process keeps the shape of the state.
LEMMA TypeStep == TypeOK /\ [Next]_vars => TypeOK'
<1> SUFFICES ASSUME TypeOK, [Next]_vars PROVE TypeOK'
  OBVIOUS
<1>1. ASSUME NEW w \in Tasks, TaskStep(w) PROVE TypeOK'
  <2>1. FlagsOK'
    BY <1>1 DEF TaskStep, Top, Continues, SettleIdle, Begin, Work, Asks, Pause, Fail,
         SettleWaiting, Release,
         Recheck, TypeOK, FlagsOK, SetScope, OnlyTasks, registry
  <2>2. EntryOK'
    BY <1>1 DEF TaskStep, Top, Continues, SettleIdle, Begin, Work, Asks, Pause, Fail,
         SettleWaiting, Release,
         Recheck, TypeOK, EntryOK, Phases, Holders, SetPhase, DropSlot, TakeSlot
  <2>3. RegistryOK'
    BY <1>1 DEF TaskStep, Top, Continues, SettleIdle, Begin, Work, Asks, Pause, Fail,
         SettleWaiting, Release,
         Recheck, TypeOK, RegistryOK, OnlyTasks, registry
  <2>4. RecordOK'
    BY <1>1 DEF TaskStep, Top, Continues, SettleIdle, Begin, Work, Asks, Pause, Fail,
         SettleWaiting, Release,
         Recheck, TypeOK, RecordOK, SetScope, OnlyTasks
  <2>5. ControlOK'
    BY <1>1, Bounds DEF TaskStep, Top, Continues, SettleIdle, Begin, Work, Asks, Pause, Fail,
         SettleWaiting,
         Release, Recheck, TypeOK, ControlOK, TaskPlaces, Driving, Needs, SetScope, Goto,
         OnlyTasks, Off, At
  <2>6. count' \in Counts
    BY <1>1, Bounds DEF TaskStep, Top, Continues, SettleIdle, Begin, Work, Asks, Pause, Fail,
         SettleWaiting,
         Release, Recheck, TypeOK, Counts, SetScope
  <2> QED
    BY <2>1, <2>2, <2>3, <2>4, <2>5, <2>6 DEF TypeOK
<1>2. CASE UserStep
  <2>1. FlagsOK'
    BY <1>2 DEF UserStep, Submit, Start, ResumeItem, RemoveItem, Answer, ReconnectReserve,
         Reserve, BeginStop, TypeOK, FlagsOK, entry, record, registry, CloseAdmission
  <2>2. EntryOK'
    BY <1>2 DEF UserStep, Submit, Start, ResumeItem, RemoveItem, Answer, ReconnectReserve,
         Reserve, BeginStop, TypeOK, EntryOK, Phases, Holders, entry, SetPhase, TakeSlot,
         CloseAdmission, OnlyStop
  <2>3. RegistryOK'
    BY <1>2, Bounds DEF UserStep, Submit, Start, ResumeItem, RemoveItem, Answer,
         ReconnectReserve, Reserve, BeginStop, TypeOK, RegistryOK, registry, OnlyStop
  <2>4. RecordOK'
    BY <1>2 DEF UserStep, Submit, Start, ResumeItem, RemoveItem, Answer, ReconnectReserve,
         Reserve, BeginStop, TypeOK, RecordOK, record
  <2>5. ControlOK'
    BY <1>2, Bounds DEF UserStep, Submit, Start, ResumeItem, RemoveItem, Answer,
         ReconnectReserve, Reserve, BeginStop, Commands, TypeOK, ControlOK, RegistryOK,
         MainPlaces, StopPlaces, At, control, OnlyStop
  <2>6. count' \in Counts
    BY <1>2, Bounds DEF UserStep, Submit, Start, ResumeItem, RemoveItem, Answer,
         ReconnectReserve, Reserve, BeginStop, TypeOK, Counts, OnlyStop
  <2> QED
    BY <2>1, <2>2, <2>3, <2>4, <2>5, <2>6 DEF TypeOK
<1>3. CASE MainStep
  <2>1. FlagsOK'
    BY <1>3 DEF MainStep, MainWakes, Archive, Archived, Unreserve, Retry, TypeOK, FlagsOK,
         record, entry, registry
  <2>2. EntryOK'
    BY <1>3 DEF MainStep, MainWakes, Archive, Archived, Unreserve, Retry, TypeOK, EntryOK,
         Phases, Holders, Spawn, TakeSlot, entry, SetPhase, DropSlot
  <2>3. RegistryOK'
    BY <1>3, Bounds DEF MainStep, MainWakes, Archive, Archived, Unreserve, Retry, TypeOK,
         RegistryOK, registry
  <2>4. RecordOK'
    BY <1>3 DEF MainStep, MainWakes, Archive, Archived, Unreserve, Retry, TypeOK, RecordOK,
         record
  <2>5. ControlOK'
    BY <1>3, Bounds DEF MainStep, MainWakes, Archive, Archived, Unreserve, Retry, TypeOK,
         ControlOK, RegistryOK, TaskPlaces, MainPlaces, Driving, ToWake, At, Off, Spawn
  <2>6. count' \in Counts
    BY <1>3 DEF MainStep, MainWakes, Archive, Archived, Unreserve, Retry, TypeOK
  <2> QED
    BY <2>1, <2>2, <2>3, <2>4, <2>5, <2>6 DEF TypeOK
<1>4. CASE SubmitWakes \/ ReconnectEnds
  <2>1. FlagsOK'
    BY <1>4 DEF SubmitWakes, ReconnectEnds, TypeOK, FlagsOK, record, registry
  <2>2. EntryOK'
    BY <1>4 DEF SubmitWakes, ReconnectEnds, TypeOK, EntryOK, Holders, Spawn, TakeSlot, DropSlot
  <2>3. RegistryOK'
    BY <1>4 DEF SubmitWakes, ReconnectEnds, TypeOK, RegistryOK, registry
  <2>4. RecordOK'
    BY <1>4 DEF SubmitWakes, ReconnectEnds, TypeOK, RecordOK, record
  <2>5. ControlOK'
    BY <1>4, Bounds DEF SubmitWakes, ReconnectEnds, TypeOK, ControlOK, RegistryOK, TaskPlaces,
         Driving, ToWake, At, Off, Spawn
  <2>6. count' \in Counts
    BY <1>4 DEF SubmitWakes, ReconnectEnds, TypeOK
  <2> QED
    BY <2>1, <2>2, <2>3, <2>4, <2>5, <2>6 DEF TypeOK
<1>5. CASE StopStep
  <2>1. FlagsOK'
    BY <1>5 DEF StopStep, TakeHandle, CancelTools, FinishClosesAdmission, AwaitIdle,
         SettleRecord, Dispose, EndStop, TypeOK, FlagsOK, CloseAdmission, record, SetScope
  <2>2. EntryOK'
    BY <1>5 DEF StopStep, TakeHandle, CancelTools, FinishClosesAdmission, AwaitIdle,
         SettleRecord, Dispose, EndStop, TypeOK, EntryOK, Phases, CloseAdmission, SetPhase,
         OnlyStop
  <2>3. RegistryOK'
    BY <1>5, Bounds DEF StopStep, TakeHandle, CancelTools, FinishClosesAdmission, AwaitIdle,
         SettleRecord, Dispose, EndStop, TypeOK, RegistryOK, OnlyStop, SetScope
  <2>4. RecordOK'
    BY <1>5 DEF StopStep, TakeHandle, CancelTools, FinishClosesAdmission, AwaitIdle,
         SettleRecord, Dispose, EndStop, TypeOK, RecordOK, record, SetScope, Inbox
  <2>5. ControlOK'
    <3>1. CASE TakeHandle
      BY <3>1 DEF TakeHandle, TypeOK, ControlOK, RegistryOK, StopPlaces, StopAt, OnlyStop
    <3>2. CASE CancelTools
      BY <3>2 DEF CancelTools, TypeOK, ControlOK, StopPlaces, StopAt, OnlyStop
    <3>3. CASE FinishClosesAdmission
      BY <3>3 DEF FinishClosesAdmission, TypeOK, ControlOK, StopPlaces, StopAt, OnlyStop
    <3>4. CASE AwaitIdle
      BY <3>4 DEF AwaitIdle, TypeOK, ControlOK, StopPlaces, StopAt, OnlyStop
    <3>5. CASE SettleRecord
      BY <3>5 DEF SettleRecord, TypeOK, ControlOK, StopPlaces, StopAt, OnlyStop
    <3>6. CASE Dispose
      BY <3>6 DEF Dispose, TypeOK, ControlOK, StopPlaces, StopAt, OnlyStop
    <3>7. CASE EndStop
      <4>1. stop' = [pc |-> "off", e |-> 0, kind |-> stop.kind]
        BY <3>7 DEF EndStop, TypeOK, ControlOK
      <4>2. stop.kind \in {"cancel", "interrupt"}
        BY DEF TypeOK, ControlOK
      <4> QED
        BY <3>7, <4>1, <4>2, Bounds DEF EndStop, TypeOK, ControlOK, StopPlaces, OnlyStop
    <3> QED
      BY <1>5, <3>1, <3>2, <3>3, <3>4, <3>5, <3>6, <3>7 DEF StopStep
  <2>6. count' \in Counts
    BY <1>5 DEF StopStep, TakeHandle, CancelTools, FinishClosesAdmission, AwaitIdle,
         SettleRecord, Dispose, EndStop, TypeOK, OnlyStop
  <2> QED
    BY <2>1, <2>2, <2>3, <2>4, <2>5, <2>6 DEF TypeOK
<1>6. CASE UNCHANGED vars
  BY <1>6 DEF vars, entry, registry, record, control, TypeOK, FlagsOK, EntryOK, RegistryOK,
       RecordOK, ControlOK
<1> QED
  BY <1>1, <1>2, <1>3, <1>4, <1>5, <1>6 DEF Next

\* The state always has its shape.
THEOREM TypeCorrect == Spec => []TypeOK
  BY TypeInit, TypeStep, PTL DEF Spec

(* ------------------------ who has the worker slot ------------------------- *)

\* Nobody has the slot of an entry before any is attached.
LEMMA OwnershipInit == Init => Ownership
<1> SUFFICES ASSUME Init PROVE Ownership
  OBVIOUS
<1>1. SlotIsHeld
  BY DEF Init, SlotIsHeld, Drives, Driving, Needs, Reserved, Off, At
<1>2. EntriesKnown
  BY DEF Init, EntriesKnown, Of, Reserved, Off, At
<1>3. OthersAreQuiet
  BY Bounds, Names DEF Init, OthersAreQuiet, Entries
<1>4. DetachesQuietly
  BY DEF Init, DetachesQuietly, Reserved, Closed, WaitedOut, Off, At
<1> QED
  BY <1>1, <1>2, <1>3, <1>4 DEF Ownership

\* A step of a task moves that task only, and takes or drops the slot of its own entry.
LEMMA TaskMoves ==
  ASSUME TypeOK, Ownership, NEW w \in Tasks, TaskStep(w)
  PROVE  /\ \A v \in Tasks \ {w} : task'[v] = task[v]
         /\ task[w].pc # "off" /\ (task'[w] = Off \/ Of(w)' = Of(w))
         /\ \/ lease' = lease
            \/ lease[Of(w)] = w /\ DropSlot(Of(w))
            \/ lease[Of(w)] = "none" /\ admitting[Of(w)] /\ TakeSlot(Of(w), w)
         /\ Drives(w)' => lease'[Of(w)'] = w
         /\ UNCHANGED <<admitting, registry, main, submit, reconnect, stop>>
<1>1. CASE Top(w)
  BY <1>1 DEF Top, Continues, TypeOK, ControlOK, Ownership, SlotIsHeld, Drives, Driving, Of, Is,
       SetScope,
       Goto, OnlyTasks
<1>2. CASE SettleIdle(w)
  BY <1>2 DEF SettleIdle, TypeOK, ControlOK, Ownership, SlotIsHeld, Drives, Driving, Of, Is,
       Goto, OnlyTasks
<1>3. CASE Begin(w)
  BY <1>3 DEF Begin, TypeOK, ControlOK, Ownership, SlotIsHeld, Drives, Driving, Of, Is, Goto,
       SetScope, OnlyTasks
<1>4. CASE Work(w)
  BY <1>4 DEF Work, Asks, TypeOK, ControlOK, Ownership, SlotIsHeld, Drives, Driving, Of, Is,
       SetScope,
       Goto, OnlyTasks
<1>5. CASE Fail(w)
  BY <1>5 DEF Fail, TypeOK, ControlOK, Ownership, SlotIsHeld, Drives, Driving, Of, Is, Goto
<1>6. CASE SettleWaiting(w)
  BY <1>6 DEF SettleWaiting, TypeOK, ControlOK, Ownership, SlotIsHeld, Drives, Driving, Needs,
       Of, Is, Goto, Off, At, OnlyTasks
<1>7. CASE Release(w)
  BY <1>7 DEF Release, TypeOK, ControlOK, Ownership, SlotIsHeld, Drives, Driving, Needs, Of, Is,
       Off, At, Goto, OnlyTasks
<1>8. CASE Recheck(w)
  BY <1>8, Bounds DEF Recheck, TypeOK, ControlOK, EntryOK, EntriesKnown, Entries, Ownership,
       Drives, Driving, Needs, Of, Is, Goto, Off, At, MayAcquire, TakeSlot, OnlyTasks
<1>9. CASE Pause(w)
  BY <1>9 DEF Pause, TypeOK, ControlOK, Ownership, SlotIsHeld, Drives, Driving, Needs, Of, Is,
       SetScope, Goto
<1> QED
  BY <1>1, <1>2, <1>3, <1>4, <1>5, <1>6, <1>7, <1>8, <1>9 DEF TaskStep

\* A wake takes the slot for the task it spawns, and disturbs no holder.
LEMMA SpawnTakes ==
  ASSUME TypeOK, SlotIsHeld, NEW e \in Entries, Spawn(e)
  PROVE  /\ \A w \in Tasks : Drives(w)' => lease'[Of(w)'] = w
         /\ \A f \in Entries :
              lease'[f] # lease[f] =>
                f = e /\ lease[f] = "none" /\ lease'[f] \in Tasks /\ admitting[f]
<1>1. CASE MayAcquire(e)
  <2>1. PICK w \in Tasks : Free(w) /\ TakeSlot(e, w) /\ task' = [task EXCEPT ![w] = At("top", e)]
    BY <1>1 DEF Spawn
  <2>2. \A v \in Tasks \ {w} : task'[v] = task[v]
    BY <2>1 DEF TypeOK, ControlOK
  <2>3. Of(w)' = e /\ lease'[e] = w
    BY <2>1 DEF TypeOK, ControlOK, EntryOK, TakeSlot, Of, At
  <2>4. \A f \in Entries :
            lease'[f] # lease[f] =>
                f = e /\ lease[f] = "none" /\ lease'[f] \in Tasks /\ admitting[f]
    BY <1>1, <2>1 DEF MayAcquire, TakeSlot
  <2>5. ASSUME NEW v \in Tasks \ {w}, Drives(v)' PROVE lease'[Of(v)'] = v
    <3>1. lease[Of(v)] = v
      BY <2>2, <2>5 DEF SlotIsHeld, Drives
    <3>2. Of(v) # e
      BY <1>1, <3>1, Names DEF MayAcquire
    <3> QED
      BY <2>1, <2>2, <3>1, <3>2 DEF TakeSlot, Of
  <2> QED
    BY <2>3, <2>4, <2>5
<1>2. CASE ~MayAcquire(e)
  BY <1>2 DEF Spawn, SlotIsHeld, Drives, Of
<1> QED
  BY <1>1, <1>2

\* A process that has the slot keeps it until it drops it itself.
LEMMA SlotIsHeldStep == TypeOK /\ Ownership /\ [Next]_vars => SlotIsHeld'
<1> SUFFICES ASSUME TypeOK, Ownership, [Next]_vars PROVE SlotIsHeld'
  OBVIOUS
<1>1. ASSUME NEW w \in Tasks, TaskStep(w) PROVE SlotIsHeld'
  <2>1. /\ \A v \in Tasks \ {w} : task'[v] = task[v]
        /\ Drives(w)' => lease'[Of(w)'] = w
        /\ main' = main /\ reconnect' = reconnect
    BY <1>1, TaskMoves
  <2>2. ASSUME NEW e \in Entries, lease[e] \notin {w, "none"} PROVE lease'[e] = lease[e]
    BY <1>1, <2>2, TaskMoves DEF DropSlot, TakeSlot, TypeOK, EntryOK
  <2>3. ASSUME NEW v \in Tasks \ {w}, Drives(v)' PROVE lease'[Of(v)'] = v
    <3>1. Drives(v) /\ Of(v)' = Of(v)
      BY <2>1, <2>3 DEF Drives, Of
    <3>2. lease[Of(v)] = v /\ Of(v) \in Entries
      BY <3>1 DEF Ownership, SlotIsHeld, EntriesKnown, Drives, Driving, Needs, Of, TypeOK,
           ControlOK, Entries
    <3> QED
      BY <2>2, <3>1, <3>2, Names
  <2>4. main.pc \in Reserved => lease'[main.e] = "main"
    <3>1. main.pc \in Reserved => lease[main.e] = "main" /\ main.e \in Entries
      BY DEF Ownership, SlotIsHeld, EntriesKnown, TypeOK, ControlOK, Entries
    <3> QED
      BY <2>2, <3>1, Names
  <2>5. reconnect.pc = "reserved" => lease'[reconnect.e] = "reconnect"
    <3>1. reconnect.pc = "reserved" => lease[reconnect.e] = "reconnect" /\ reconnect.e \in Entries
      BY DEF Ownership, SlotIsHeld, EntriesKnown, TypeOK, ControlOK, Entries
    <3> QED
      BY <2>2, <3>1, Names
  <2> QED
    BY <2>1, <2>3, <2>4, <2>5 DEF SlotIsHeld
<1>2. CASE UserStep
  <2>1. CASE Submit \/ Start \/ ResumeItem \/ RemoveItem \/ Answer
    BY <2>1 DEF Submit, Start, ResumeItem, RemoveItem, Answer, Ownership, SlotIsHeld, Reserved,
         Drives, Of, At, Off, entry, control
  <2>2. CASE ReconnectReserve
    BY <2>2, Names DEF ReconnectReserve, Ownership, SlotIsHeld, EntriesKnown, Reserved, Drives,
         Of, At, Off, TakeSlot, TypeOK, EntryOK, RegistryOK, Entries
  <2>3. ASSUME NEW command \in Commands, Reserve(command) PROVE SlotIsHeld'
    BY <2>3, Names DEF Reserve, Commands, Ownership, SlotIsHeld, EntriesKnown, Reserved, Drives,
         Of, At, Off, TakeSlot, TypeOK, EntryOK, RegistryOK, Entries
  <2>4. ASSUME NEW kind \in {"cancel", "interrupt"}, BeginStop(kind) PROVE SlotIsHeld'
    BY <2>4 DEF BeginStop, OnlyStop, Ownership, SlotIsHeld, Drives, Of
  <2> QED
    BY <1>2, <2>1, <2>2, <2>3, <2>4 DEF UserStep
<1>3. CASE MainStep
  <2>1. CASE MainWakes
    <3>1. main.pc = "wake" => main.e \in Entries
      BY DEF Ownership, EntriesKnown, TypeOK, ControlOK, Entries
    <3>2. CASE main.pc = "look"
      BY <2>1, <3>2 DEF MainWakes, Ownership, SlotIsHeld, Drives, Reserved, Of, ToWake, At, Off
    <3>3. CASE main.pc = "wake" /\ Spawn(main.e) /\ main' = Off
      BY <2>1, <3>1, <3>3, SpawnTakes DEF MainWakes, Ownership, SlotIsHeld, EntriesKnown,
           Reserved, TypeOK, ControlOK, Entries, At, Off
    <3> QED
      BY <2>1, <3>2, <3>3 DEF MainWakes
  <2>2. CASE Archive
    BY <2>2 DEF Archive, Ownership, SlotIsHeld, Drives, Reserved, Of, At, entry
  <2>3. CASE Archived
    BY <2>3 DEF Archived, Ownership, SlotIsHeld, Drives, Reserved, Of, At
  <2>4. CASE Unreserve
    BY <2>4, Names DEF Unreserve, Ownership, SlotIsHeld, Drives, Reserved, Of, DropSlot, At, Off
  <2>5. CASE Retry
    BY <2>5 DEF Retry, Ownership, SlotIsHeld, Drives, Reserved, Of, At, Off, entry
  <2> QED
    BY <1>3, <2>1, <2>2, <2>3, <2>4, <2>5 DEF MainStep
<1>4. CASE SubmitWakes \/ ReconnectEnds
  <2>1. CASE SubmitWakes
    <3>1. submit.pc = "wake" => submit.e \in Entries
      BY DEF Ownership, EntriesKnown, TypeOK, ControlOK, Entries
    <3>2. CASE submit.pc = "look"
      BY <2>1, <3>2 DEF SubmitWakes, Ownership, SlotIsHeld, Drives, Of
    <3>3. CASE submit.pc = "wake" /\ Spawn(submit.e) /\ submit' = Off
      BY <2>1, <3>1, <3>3, SpawnTakes DEF SubmitWakes, Ownership, SlotIsHeld, EntriesKnown,
           TypeOK, ControlOK, Entries
    <3> QED
      BY <2>1, <3>2, <3>3 DEF SubmitWakes
  <2>2. CASE ReconnectEnds
    BY <2>2, Names DEF ReconnectEnds, Ownership, SlotIsHeld, Drives, Of, DropSlot, Off, At
  <2> QED
    BY <1>4, <2>1, <2>2
<1>5. CASE StopStep
  BY <1>5 DEF StopStep, TakeHandle, CancelTools, FinishClosesAdmission, AwaitIdle, SettleRecord,
       Dispose, EndStop, Ownership, SlotIsHeld, Drives, Of, OnlyStop
<1>6. CASE UNCHANGED vars
  BY <1>6 DEF vars, entry, control, Ownership, SlotIsHeld, Drives, Of
<1> QED
  BY <1>1, <1>2, <1>3, <1>4, <1>5, <1>6 DEF Next

\* A process only ever comes to refer to the live entry.
LEMMA EntriesKnownStep == TypeOK /\ Ownership /\ [Next]_vars => EntriesKnown'
<1> SUFFICES ASSUME TypeOK, Ownership, [Next]_vars PROVE EntriesKnown'
  OBVIOUS
<1>1. ASSUME NEW w \in Tasks, TaskStep(w) PROVE EntriesKnown'
  BY <1>1, TaskMoves DEF Ownership, EntriesKnown, TypeOK, RegistryOK, Of, Off, At, registry
<1>2. CASE UserStep
  BY <1>2 DEF UserStep, Submit, Start, ResumeItem, RemoveItem, Answer, ReconnectReserve,
       Reserve, BeginStop, Ownership, Reserved, Of, EntriesKnown, TypeOK, RegistryOK, ControlOK,
       At, registry, control, OnlyStop
<1>3. CASE MainStep
  BY <1>3 DEF MainStep, MainWakes, Archive, Archived, Unreserve, Retry, Ownership, Reserved, Of,
       EntriesKnown, TypeOK, RegistryOK, ControlOK, ToWake, At, Off, Spawn, registry
<1>4. CASE SubmitWakes \/ ReconnectEnds
  BY <1>4 DEF SubmitWakes, ReconnectEnds, Ownership, Of, EntriesKnown, TypeOK, RegistryOK,
       ControlOK, ToWake, At, Off, Spawn, registry
<1>5. CASE StopStep
  <2>1. CASE TakeHandle
    BY <2>1 DEF TakeHandle, Ownership, Of, EntriesKnown, OnlyStop
  <2>2. CASE CancelTools
    BY <2>2 DEF CancelTools, Ownership, Of, EntriesKnown, OnlyStop
  <2>3. CASE FinishClosesAdmission
    BY <2>3 DEF FinishClosesAdmission, Ownership, Of, EntriesKnown, OnlyStop
  <2>4. CASE AwaitIdle
    BY <2>4 DEF AwaitIdle, Ownership, Of, EntriesKnown, OnlyStop
  <2>5. CASE SettleRecord
    BY <2>5 DEF SettleRecord, Ownership, Of, EntriesKnown, OnlyStop
  <2>6. CASE Dispose
    BY <2>6 DEF Dispose, Ownership, Of, EntriesKnown, TypeOK, RegistryOK, DetachesQuietly,
         Closed, WaitedOut, OnlyStop
  <2>7. CASE EndStop
    BY <2>7 DEF EndStop, Ownership, Of, EntriesKnown, OnlyStop
  <2> QED
    BY <1>5, <2>1, <2>2, <2>3, <2>4, <2>5, <2>6, <2>7 DEF StopStep
<1>6. CASE UNCHANGED vars
  BY <1>6 DEF vars, registry, control, Ownership, Of, EntriesKnown
<1> QED
  BY <1>1, <1>2, <1>3, <1>4, <1>5, <1>6 DEF Next

\* A task takes the slot of an admitting entry only, and no entry admits again.
LEMMA OthersAreQuietStep == TypeOK /\ Ownership /\ [Next]_vars => OthersAreQuiet'
<1> SUFFICES ASSUME TypeOK, Ownership, [Next]_vars PROVE OthersAreQuiet'
  OBVIOUS
<1>1. ASSUME NEW w \in Tasks, TaskStep(w) PROVE OthersAreQuiet'
  <2>1. Of(w) \in Entries /\ Of(w) <= attached
    BY <1>1, TaskMoves DEF Ownership, EntriesKnown, TypeOK, ControlOK, Entries, Of
  <2> QED
    BY <1>1, <2>1, TaskMoves DEF Ownership, OthersAreQuiet, TypeOK, RegistryOK, EntryOK,
         registry, DropSlot, TakeSlot
<1>2. CASE UserStep
  <2>1. CASE Submit \/ ResumeItem \/ RemoveItem
    BY <2>1 DEF Submit, ResumeItem, RemoveItem, Ownership, OthersAreQuiet, entry, registry
  <2>2. CASE Answer
    BY <2>2 DEF Answer, Ownership, OthersAreQuiet, registry
  <2>3. CASE Start
    BY <2>3, Bounds, Names DEF Start, Ownership, OthersAreQuiet, EntriesKnown, TypeOK,
         RegistryOK, Entries, entry
  <2>4. CASE ReconnectReserve
    BY <2>4, Names DEF ReconnectReserve, Ownership, OthersAreQuiet, EntriesKnown, TypeOK,
         EntryOK, RegistryOK, Entries, TakeSlot, registry
  <2>5. ASSUME NEW command \in Commands, Reserve(command) PROVE OthersAreQuiet'
    BY <2>5, Names DEF Reserve, Ownership, OthersAreQuiet, EntriesKnown, TypeOK, EntryOK,
         RegistryOK, Entries, TakeSlot, registry
  <2>6. ASSUME NEW kind \in {"cancel", "interrupt"}, BeginStop(kind) PROVE OthersAreQuiet'
    BY <2>6 DEF BeginStop, Ownership, OthersAreQuiet, TypeOK, FlagsOK, CloseAdmission, OnlyStop
  <2> QED
    BY <1>2, <2>1, <2>2, <2>3, <2>4, <2>5, <2>6 DEF UserStep
<1>3. CASE MainStep
  <2>1. CASE MainWakes
    <3>1. main.pc = "wake" => main.e \in Entries
      BY DEF Ownership, EntriesKnown, TypeOK, ControlOK, Entries
    <3>2. CASE main.pc = "look"
      BY <2>1, <3>2 DEF MainWakes, Ownership, OthersAreQuiet
    <3>3. CASE main.pc = "wake" /\ Spawn(main.e) /\ main' = Off
      <4>1. UNCHANGED <<admitting, live, attached>> /\ main.e <= attached
        BY <2>1 DEF MainWakes, Ownership, EntriesKnown
      <4>2. ASSUME NEW f \in Entries, lease'[f] # lease[f] PROVE f <= attached /\ admitting[f]
        BY <3>1, <3>3, <4>1, <4>2, SpawnTakes DEF Ownership
      <4> QED
        BY <4>1, <4>2 DEF Ownership, OthersAreQuiet, TypeOK, RegistryOK
    <3> QED
      BY <2>1, <3>2, <3>3 DEF MainWakes
  <2>2. CASE Archive
    BY <2>2 DEF Archive, Ownership, OthersAreQuiet, entry, registry
  <2>3. CASE Archived
    BY <2>3, Names DEF Archived, Ownership, TypeOK, FlagsOK, SlotIsHeld, OthersAreQuiet,
         DetachesQuietly, Reserved
  <2>4. CASE Unreserve
    BY <2>4, Names DEF Unreserve, Ownership, OthersAreQuiet, DropSlot, registry
  <2>5. CASE Retry
    BY <2>5 DEF Retry, Ownership, OthersAreQuiet, entry, registry
  <2> QED
    BY <1>3, <2>1, <2>2, <2>3, <2>4, <2>5 DEF MainStep
<1>4. CASE SubmitWakes \/ ReconnectEnds
  <2>1. CASE SubmitWakes
    <3>1. submit.pc = "wake" => submit.e \in Entries
      BY DEF Ownership, EntriesKnown, TypeOK, ControlOK, Entries
    <3>2. CASE submit.pc = "look"
      BY <2>1, <3>2 DEF SubmitWakes, Ownership, OthersAreQuiet
    <3>3. CASE submit.pc = "wake" /\ Spawn(submit.e) /\ submit' = Off
      <4>1. UNCHANGED <<admitting, live, attached>> /\ submit.e <= attached
        BY <2>1 DEF SubmitWakes, Ownership, EntriesKnown
      <4>2. ASSUME NEW f \in Entries, lease'[f] # lease[f] PROVE f <= attached /\ admitting[f]
        BY <3>1, <3>3, <4>1, <4>2, SpawnTakes DEF Ownership
      <4> QED
        BY <4>1, <4>2 DEF Ownership, OthersAreQuiet, TypeOK, RegistryOK
    <3> QED
      BY <2>1, <3>2, <3>3 DEF SubmitWakes
  <2>2. CASE ReconnectEnds
    BY <2>2, Names DEF ReconnectEnds, Ownership, OthersAreQuiet, DropSlot, registry
  <2> QED
    BY <1>4, <2>1, <2>2
<1>5. CASE StopStep
  BY <1>5 DEF StopStep, TakeHandle, CancelTools, FinishClosesAdmission, AwaitIdle, SettleRecord,
       Dispose, EndStop, Ownership, TypeOK, FlagsOK, OthersAreQuiet, DetachesQuietly, Closed,
       WaitedOut, CloseAdmission, OnlyStop
<1>6. CASE UNCHANGED vars
  BY <1>6 DEF vars, entry, registry, Ownership, OthersAreQuiet
<1> QED
  BY <1>1, <1>2, <1>3, <1>4, <1>5, <1>6 DEF Next

\* A stop has closed the admission before it waits, and has waited before it detaches.
LEMMA DetachesQuietlyStep == TypeOK /\ Ownership /\ [Next]_vars => DetachesQuietly'
<1> SUFFICES ASSUME TypeOK, Ownership, [Next]_vars PROVE DetachesQuietly'
  OBVIOUS
<1>1. ASSUME NEW w \in Tasks, TaskStep(w) PROVE DetachesQuietly'
  BY <1>1, TaskMoves DEF Ownership, DetachesQuietly, TypeOK, EntryOK, registry, DropSlot,
       TakeSlot, Closed
<1>2. CASE UserStep
  <2>1. CASE Submit \/ ResumeItem \/ RemoveItem \/ Answer
    BY <2>1 DEF Submit, ResumeItem, RemoveItem, Answer, Ownership, DetachesQuietly, Reserved, At,
         entry, registry, control
  <2>2. CASE Start
    BY <2>2 DEF Start, Ownership, DetachesQuietly, EntriesKnown, Reserved, Closed, WaitedOut, At,
         entry
  <2>3. CASE ReconnectReserve
    BY <2>3, Names DEF ReconnectReserve, Ownership, DetachesQuietly, EntriesKnown, TypeOK,
         EntryOK, WaitedOut, TakeSlot, registry
  <2>4. ASSUME NEW command \in Commands, Reserve(command) PROVE DetachesQuietly'
    BY <2>4, Names DEF Reserve, Ownership, DetachesQuietly, EntriesKnown, TypeOK, EntryOK,
         WaitedOut, At, TakeSlot, registry
  <2>5. ASSUME NEW kind \in {"cancel", "interrupt"}, BeginStop(kind) PROVE DetachesQuietly'
    BY <2>5 DEF BeginStop, Ownership, DetachesQuietly, Closed, WaitedOut, OnlyStop
  <2> QED
    BY <1>2, <2>1, <2>2, <2>3, <2>4, <2>5 DEF UserStep
<1>3. CASE MainStep
  <2>1. CASE MainWakes
    <3>1. main.pc = "wake" => main.e \in Entries
      BY DEF Ownership, EntriesKnown, TypeOK, ControlOK, Entries
    <3>2. CASE main.pc = "look"
      BY <2>1, <3>2 DEF MainWakes, Ownership, DetachesQuietly, Reserved, ToWake, At, Off
    <3>3. CASE main.pc = "wake" /\ Spawn(main.e) /\ main' = Off
      BY <2>1, <3>1, <3>3, SpawnTakes DEF MainWakes, Ownership, DetachesQuietly, Reserved,
           Closed, At, Off
    <3> QED
      BY <2>1, <3>2, <3>3 DEF MainWakes
  <2>2. CASE Archive
    BY <2>2 DEF Archive, Ownership, DetachesQuietly, Reserved, At, entry, registry
  <2>3. CASE Archived
    BY <2>3 DEF Archived, Ownership, DetachesQuietly
  <2>4. CASE Unreserve
    BY <2>4, Names DEF Unreserve, Ownership, DetachesQuietly, Reserved, DropSlot, At, Off,
         registry
  <2>5. CASE Retry
    BY <2>5 DEF Retry, Ownership, DetachesQuietly, Reserved, At, Off, entry, registry
  <2> QED
    BY <1>3, <2>1, <2>2, <2>3, <2>4, <2>5 DEF MainStep
<1>4. CASE SubmitWakes \/ ReconnectEnds
  <2>1. CASE SubmitWakes
    <3>1. submit.pc = "wake" => submit.e \in Entries
      BY DEF Ownership, EntriesKnown, TypeOK, ControlOK, Entries
    <3>2. CASE submit.pc = "look"
      BY <2>1, <3>2 DEF SubmitWakes, Ownership, DetachesQuietly
    <3>3. CASE submit.pc = "wake" /\ Spawn(submit.e) /\ submit' = Off
      BY <2>1, <3>1, <3>3, SpawnTakes DEF SubmitWakes, Ownership, DetachesQuietly, Closed
    <3> QED
      BY <2>1, <3>2, <3>3 DEF SubmitWakes
  <2>2. CASE ReconnectEnds
    BY <2>2, Names DEF ReconnectEnds, Ownership, DetachesQuietly, DropSlot, registry
  <2> QED
    BY <1>4, <2>1, <2>2
<1>5. CASE StopStep
  <2>1. CASE TakeHandle
    <3>1. CASE handle /\ stop' = [stop EXCEPT !.pc = "cancel", !.e = live]
      <4>1. stop'.pc = "cancel" /\ stop'.e = live /\ live' = live
        BY <2>1, <3>1 DEF TakeHandle, TypeOK, ControlOK
      <4>2. live \in Entries /\ live <= attached /\ attached' = attached
        BY <2>1, <3>1 DEF TakeHandle, OnlyStop, Ownership, EntriesKnown, TypeOK, RegistryOK,
             Entries
      <4>3. handle' = FALSE /\ admitting' = [admitting EXCEPT ![live] = FALSE]
        BY <2>1, <3>1 DEF TakeHandle, CloseAdmission
      <4>4. ~admitting'[live]
        BY <4>2, <4>3 DEF TypeOK, FlagsOK
      <4> QED
        BY <2>1, <4>1, <4>2, <4>3, <4>4 DEF TakeHandle, OnlyStop, Ownership, DetachesQuietly,
             WaitedOut
    <3>2. CASE stop'.pc \in {"end", "settleRecord"}
      BY <2>1, <3>2 DEF TakeHandle, OnlyStop, Ownership, DetachesQuietly, Closed, WaitedOut
    <3> QED
      BY <2>1, <3>1, <3>2 DEF TakeHandle, StopAt, TypeOK, ControlOK
  <2>2. CASE CancelTools
    BY <2>2 DEF CancelTools, Ownership, DetachesQuietly, Closed, WaitedOut, StopAt, OnlyStop
  <2>3. CASE FinishClosesAdmission
    BY <2>3 DEF FinishClosesAdmission, Ownership, DetachesQuietly, Closed, WaitedOut,
         CloseAdmission, StopAt, OnlyStop
  <2>4. CASE AwaitIdle
    BY <2>4, Names DEF AwaitIdle, Ownership, DetachesQuietly, Closed, StopAt, OnlyStop
  <2>5. CASE SettleRecord
    BY <2>5 DEF SettleRecord, Ownership, DetachesQuietly, Closed, WaitedOut, StopAt, OnlyStop
  <2>6. CASE Dispose
    BY <2>6 DEF Dispose, Ownership, TypeOK, ControlOK, DetachesQuietly, Closed, WaitedOut,
         StopAt, OnlyStop
  <2>7. CASE EndStop
    BY <2>7 DEF EndStop, Ownership, DetachesQuietly, Closed, WaitedOut, OnlyStop
  <2> QED
    BY <1>5, <2>1, <2>2, <2>3, <2>4, <2>5, <2>6, <2>7 DEF StopStep
<1>6. CASE UNCHANGED vars
  BY <1>6 DEF vars, entry, registry, control, Ownership, DetachesQuietly
<1> QED
  BY <1>1, <1>2, <1>3, <1>4, <1>5, <1>6 DEF Next

\* Who has the slot of which entry, through every stop, archive and attach.
THEOREM SlotOwnership == Spec => []Ownership
<1>1. TypeOK /\ Ownership /\ [Next]_vars => Ownership'
  BY SlotIsHeldStep, EntriesKnownStep, OthersAreQuietStep, DetachesQuietlyStep DEF Ownership
<1> QED
  BY <1>1, OwnershipInit, TypeCorrect, PTL DEF Spec

\* A task that drives has the slot of the live entry.
LEMMA DriverIsLive ==
  ASSUME TypeOK, Ownership, NEW w \in Tasks, Drives(w)
  PROVE  live \in Entries /\ Of(w) = live /\ lease[live] = w
<1>1. lease[Of(w)] = w
  BY DEF Ownership, SlotIsHeld
<1>2. Of(w) \in Entries /\ Of(w) <= attached
  BY DEF Ownership, EntriesKnown, TypeOK, ControlOK, Entries, Drives, Driving, Needs, Of
<1> QED
  BY <1>1, <1>2 DEF Ownership, OthersAreQuiet

\* Two tasks that drive have the slot of the same entry.
LEMMA OwnedByOne == TypeOK /\ Ownership => OneDriver
  BY DriverIsLive DEF OneDriver

\* At most one task drives the Session at any time, whatever entries it has had: the
\* log of a Session has one writer of turns.
THEOREM ExclusiveDriver == Spec => []OneDriver
  BY OwnedByOne, TypeCorrect, SlotOwnership, PTL

(* -------------------- a stop and an end leave nothing running ------------- *)

\* Only the live entry has an active scope, and the processes that detach it, end the
\* Session or settle its record have seen that scope closed.
ScopesClose ==
  /\ \A e \in Entries : scope[e] => e = live
  /\ main.pc \in {"archiveStore", "archived"} => ~scope[main.e]
  /\ \A w \in Tasks : Is(w, "failing") => ~scope[Of(w)]
  /\ stop.pc \in WaitedOut => ~scope[stop.e]
  /\ stop.pc = "settleRecord" => live = 0

\* In an ended Session a task only gives up the slot, and no wake can take it again.
EndIsFinal ==
  ended => /\ \A w \in Tasks : Drives(w) => task[w].pc \in {"failed", "release"}
           /\ \A e \in Entries : ~scope[e]
           /\ live # 0 => \/ ~admitting[live]
                          \/ phase[live] \in {"Stopping", "Disposed"}
                          \/ main.pc = "archived"
                          \/ \E w \in Tasks : Is(w, "failed")

\* A driver past the top has no open question, and neither has a cancelled entry.
QuestionsClose ==
  /\ QuestionHasScope
  /\ \A w \in Tasks : Drives(w) /\ task[w].pc \notin {"top", "waiting"} => question = "none"
  /\ \A w \in Tasks : Is(w, "work") => scope[Of(w)]
  /\ live # 0 /\ cancelled[live] => question = "none"
  /\ stop.pc \in Closed \ {"cancel"} => cancelled[stop.e]

Settled == ScopesClose /\ EndIsFinal /\ QuestionsClose

\* Nothing runs, nothing has ended and nothing is asked before the first start.
LEMMA SettledInit == Init => Settled
  BY DEF Init, Settled, ScopesClose, EndIsFinal, QuestionsClose, QuestionHasScope, WaitedOut,
     Closed, Is, Drives, Driving, Needs, Off, At

\* While a task drives, no other does, no command has the slot, and no stop has waited
\* for it.
LEMMA DriverAlone ==
  ASSUME TypeOK, Ownership, Settled, NEW w \in Tasks, Drives(w)
  PROVE  /\ live \in Entries /\ live # 0 /\ Of(w) = live
         /\ \A v \in Tasks \ {w} : ~Drives(v)
         /\ main.pc \notin Reserved /\ stop.pc \notin WaitedOut \cup {"settleRecord"}
         /\ ended => task[w].pc \in {"failed", "release"}
<1>1. live \in Entries /\ live # 0 /\ Of(w) = live /\ lease[live] = w
  BY DriverIsLive, Bounds DEF Entries
<1>2. \A v \in Tasks \ {w} : ~Drives(v)
  BY OwnedByOne DEF OneDriver
<1>3. main.pc \notin Reserved
  BY <1>1, Names DEF Ownership, SlotIsHeld, DetachesQuietly
<1>4. stop.pc \notin WaitedOut
  BY <1>1 DEF Ownership, DetachesQuietly, WaitedOut, Closed
<1>5. stop.pc # "settleRecord"
  BY <1>1 DEF Settled, ScopesClose
<1> QED
  BY <1>1, <1>2, <1>3, <1>4, <1>5 DEF Settled, EndIsFinal

\* Nobody can take the slot of an entry once the Session has ended.
LEMMA EndKeepsSlot ==
  ASSUME TypeOK, Ownership, Settled, ended, NEW e \in Entries, e <= attached
  PROVE  ~MayAcquire(e)
<1>1. CASE e # live
  BY <1>1 DEF Ownership, OthersAreQuiet, MayAcquire
<1>2. CASE e = live /\ main.pc = "archived"
  BY <1>2, Bounds, Names DEF Ownership, SlotIsHeld, DetachesQuietly, Reserved, MayAcquire, Entries
<1>3. ASSUME e = live, NEW w \in Tasks, Is(w, "failed") PROVE ~MayAcquire(e)
  BY <1>3, DriverIsLive, Names DEF MayAcquire, Is, Drives, Driving
<1> QED
  BY <1>1, <1>2, <1>3, Bounds DEF Settled, EndIsFinal, MayAcquire, Entries

\* A task opens the scope of the live entry only to work in it, ends the Session only
\* when its turn has failed and closed its scope, and asks only in an open scope.
LEMMA TaskSettles ==
  ASSUME TypeOK, Ownership, Settled, NEW w \in Tasks, TaskStep(w)
  PROVE  Settled'
<1>1. UNCHANGED <<admitting, cancelled, live, main, stop>>
      /\ \A v \in Tasks \ {w} : task'[v] = task[v]
  BY TaskMoves DEF TaskStep, Top, Continues, SettleIdle, Begin, Work, Asks, Pause, Fail,
       SettleWaiting, Release,
     Recheck, OnlyTasks, registry
<1>2. ASSUME Drives(w)
      PROVE  /\ live \in Entries /\ live # 0 /\ Of(w) = live
             /\ \A v \in Tasks \ {w} : ~Drives(v) /\ ~Drives(v)'
             /\ main.pc \notin Reserved /\ stop.pc \notin WaitedOut \cup {"settleRecord"}
             /\ ended => task[w].pc \in {"failed", "release"}
  BY <1>1, <1>2, DriverAlone DEF Drives
<1>3. CASE Top(w)
  <2>1. Drives(w)
    BY <1>3 DEF Top, Continues, Is, Drives, Driving
  <2>2. ScopesClose'
    BY <1>1, <1>2, <1>3, <2>1 DEF Top, Continues, TypeOK, FlagsOK, ControlOK, Settled,
         ScopesClose, Is, Of,
       Drives, Driving, Goto, SetScope, Reserved
  <2>3. EndIsFinal'
    BY <1>1, <1>2, <1>3, <2>1 DEF Top, Continues, Is, EndIsFinal
  <2>4. QuestionsClose'
    BY <1>1, <1>2, <1>3, <2>1 DEF Top, Continues, TypeOK, FlagsOK, ControlOK, RecordOK, Settled,
         QuestionsClose,
       QuestionHasScope, Is, Of, Drives, Driving, Goto, SetScope
  <2> QED
    BY <2>2, <2>3, <2>4 DEF Settled
<1>4. CASE SettleIdle(w)
  <2>1. Drives(w)
    BY <1>4 DEF SettleIdle, Is, Drives, Driving
  <2>2. ScopesClose'
    BY <1>1, <1>2, <1>4, <2>1 DEF SettleIdle, TypeOK, FlagsOK, ControlOK, Settled, ScopesClose,
         Is,
       Of,
       Drives, Driving, Needs, Goto, SetScope, Reserved, Off, At
  <2>3. EndIsFinal'
    BY <1>1, <1>2, <1>4, <2>1 DEF SettleIdle, TypeOK, FlagsOK, ControlOK, EntryOK, Settled,
       ScopesClose,
       EndIsFinal, Is, Of, Drives, Driving, Needs, Goto, SetPhase, DropSlot, Off, At, Reserved
  <2>4. QuestionsClose'
    BY <1>1, <1>2, <1>4, <2>1 DEF SettleIdle, TypeOK, FlagsOK, ControlOK, RecordOK, Settled,
       QuestionsClose, QuestionHasScope, Is, Of, Drives, Driving, Needs, Goto, SetScope, Off, At
  <2> QED
    BY <2>2, <2>3, <2>4 DEF Settled
<1>5. CASE Begin(w)
  <2>1. Drives(w)
    BY <1>5 DEF Begin, Is, Drives, Driving
  <2>2. ScopesClose'
    BY <1>1, <1>2, <1>5, <2>1 DEF Begin, TypeOK, FlagsOK, ControlOK, Settled, ScopesClose, Is, Of,
       Drives, Driving, Needs, Goto, SetScope, Reserved, Off, At
  <2>3. EndIsFinal'
    BY <1>1, <1>2, <1>5, <2>1 DEF Begin, TypeOK, FlagsOK, ControlOK, EntryOK, Settled,
         ScopesClose,
       EndIsFinal, Is, Of, Drives, Driving, Needs, Goto, SetPhase, DropSlot, Off, At, Reserved
  <2>4. QuestionsClose'
    BY <1>1, <1>2, <1>5, <2>1 DEF Begin, TypeOK, FlagsOK, ControlOK, RecordOK, Settled,
       QuestionsClose, QuestionHasScope, Is, Of, Drives, Driving, Needs, Goto, SetScope, Off, At
  <2> QED
    BY <2>2, <2>3, <2>4 DEF Settled
<1>6. CASE Work(w)
  <2>1. Drives(w)
    BY <1>6 DEF Work, Asks, Is, Drives, Driving
  <2>2. ScopesClose'
    BY <1>1, <1>2, <1>6, <2>1 DEF Work, Asks, TypeOK, FlagsOK, ControlOK, Settled, ScopesClose,
         Is, Of,
       Drives, Driving, Needs, Goto, SetScope, Reserved, Off, At
  <2>3. EndIsFinal'
    BY <1>1, <1>2, <1>6, <2>1 DEF Work, Asks, TypeOK, FlagsOK, ControlOK, EntryOK, Settled,
         ScopesClose,
       EndIsFinal, Is, Of, Drives, Driving, Needs, Goto, SetPhase, DropSlot, Off, At, Reserved
  <2>4. QuestionsClose'
    BY <1>1, <1>2, <1>6, <2>1 DEF Work, Asks, TypeOK, FlagsOK, ControlOK, RecordOK, Settled,
       QuestionsClose, QuestionHasScope, Is, Of, Drives, Driving, Needs, Goto, SetScope, Off, At
  <2> QED
    BY <2>2, <2>3, <2>4 DEF Settled
<1>7. CASE Pause(w)
  <2>1. Drives(w)
    BY <1>7 DEF Pause, Is, Drives, Driving, Needs
  <2>2. ScopesClose'
    BY <1>1, <1>2, <1>7, <2>1 DEF Pause, TypeOK, FlagsOK, ControlOK, Settled, ScopesClose, Is, Of,
       Drives, Driving, Needs, Goto, SetScope, Reserved, Off, At
  <2>3. EndIsFinal'
    BY <1>1, <1>2, <1>7, <2>1 DEF Pause, TypeOK, FlagsOK, ControlOK, EntryOK, Settled,
         ScopesClose,
       EndIsFinal, Is, Of, Drives, Driving, Needs, Goto, SetPhase, DropSlot, Off, At, Reserved
  <2>4. QuestionsClose'
    BY <1>1, <1>2, <1>7, <2>1 DEF Pause, TypeOK, FlagsOK, ControlOK, RecordOK, Settled,
       QuestionsClose, QuestionHasScope, Is, Of, Drives, Driving, Needs, Goto, SetScope, Off, At
  <2> QED
    BY <2>2, <2>3, <2>4 DEF Settled
<1>8. CASE Fail(w)
  <2>1. Drives(w)
    BY <1>8 DEF Fail, Is, Drives, Driving
  <2>2. ScopesClose'
    BY <1>1, <1>2, <1>8, <2>1 DEF Fail, TypeOK, FlagsOK, ControlOK, Settled, ScopesClose, Is, Of,
       Drives, Driving, Needs, Goto, SetScope, Reserved, Off, At
  <2>3. EndIsFinal'
    <3>1. CASE Is(w, "failing")
      <4>1. Is(w, "failed")' /\ scope' = scope
        BY <1>8, <3>1 DEF Fail, Is, Goto, TypeOK, ControlOK
      <4>2. \A e \in Entries : ~scope[e]
        BY <1>2, <2>1, <3>1 DEF Settled, ScopesClose
      <4>3. \A v \in Tasks : Drives(v)' => task'[v].pc \in {"failed", "release"}
        BY <1>2, <2>1, <4>1 DEF Is
      <4> QED
        BY <4>1, <4>2, <4>3 DEF EndIsFinal
    <3>2. CASE Is(w, "failed")
      <4>1. Is(w, "release")' /\ phase'[live] = "Stopping" /\ UNCHANGED <<ended, scope>>
        BY <1>2, <1>8, <2>1, <3>2 DEF Fail, Is, Goto, SetPhase, TypeOK, ControlOK, EntryOK
      <4> QED
        BY <1>1, <1>2, <2>1, <4>1 DEF Settled, EndIsFinal, Is
    <3> QED
      BY <1>8, <3>1, <3>2 DEF Fail
  <2>4. QuestionsClose'
    BY <1>1, <1>2, <1>8, <2>1 DEF Fail, TypeOK, FlagsOK, ControlOK, RecordOK, Settled,
       QuestionsClose, QuestionHasScope, Is, Of, Drives, Driving, Needs, Goto, SetScope, Off, At
  <2> QED
    BY <2>2, <2>3, <2>4 DEF Settled
<1>9. CASE SettleWaiting(w)
  <2>1. Drives(w)
    BY <1>9 DEF SettleWaiting, Is, Drives, Driving
  <2>2. ScopesClose'
    BY <1>1, <1>2, <1>9, <2>1 DEF SettleWaiting, TypeOK, FlagsOK, ControlOK, Settled, ScopesClose,
       Is, Of,
       Drives, Driving, Needs, Goto, SetScope, Reserved, Off, At
  <2>3. EndIsFinal'
    BY <1>1, <1>2, <1>9, <2>1 DEF SettleWaiting, TypeOK, FlagsOK, ControlOK, EntryOK, Settled,
       ScopesClose,
       EndIsFinal, Is, Of, Drives, Driving, Needs, Goto, SetPhase, DropSlot, Off, At, Reserved
  <2>4. QuestionsClose'
    BY <1>1, <1>2, <1>9, <2>1 DEF SettleWaiting, TypeOK, FlagsOK, ControlOK, RecordOK, Settled,
       QuestionsClose, QuestionHasScope, Is, Of, Drives, Driving, Needs, Goto, SetScope, Off, At
  <2> QED
    BY <2>2, <2>3, <2>4 DEF Settled
<1>10. CASE Release(w)
  <2>1. Drives(w)
    BY <1>10 DEF Release, Is, Drives, Driving
  <2>2. ScopesClose'
    BY <1>1, <1>2, <1>10, <2>1 DEF Release, TypeOK, FlagsOK, ControlOK, Settled, ScopesClose, Is,
       Of,
       Drives, Driving, Needs, Goto, SetScope, Reserved, Off, At
  <2>3. EndIsFinal'
    BY <1>1, <1>2, <1>10, <2>1 DEF Release, TypeOK, FlagsOK, ControlOK, EntryOK, Settled,
       ScopesClose,
       EndIsFinal, Is, Of, Drives, Driving, Needs, Goto, SetPhase, DropSlot, Off, At, Reserved
  <2>4. QuestionsClose'
    BY <1>1, <1>2, <1>10, <2>1 DEF Release, TypeOK, FlagsOK, ControlOK, RecordOK, Settled,
       QuestionsClose, QuestionHasScope, Is, Of, Drives, Driving, Needs, Goto, SetScope, Off, At
  <2> QED
    BY <2>2, <2>3, <2>4 DEF Settled
<1>11. CASE Recheck(w)
  <2>1. UNCHANGED <<phase, scope, question, ended>>
    BY <1>11 DEF Recheck
  <2>2. ~Drives(w) /\ (Drives(w)' => Is(w, "top")')
    BY <1>11 DEF Recheck, Is, Drives, Driving, Needs, Goto, Off, At, TypeOK, ControlOK
  <2>3. Of(w) \in Entries /\ Of(w) <= attached
    BY TaskMoves DEF Ownership, EntriesKnown, TypeOK, ControlOK, Entries, Of
  <2>4. ASSUME ended PROVE ~Drives(w)'
    BY <1>11, <2>2, <2>3, <2>4, EndKeepsSlot DEF Recheck, Is, Drives, Driving, Needs, Goto, Off,
         At,
       TypeOK, ControlOK
  <2>5. \A v \in Tasks \ {w} : Drives(v)' = Drives(v) /\ Of(v)' = Of(v) /\ task'[v].pc = task[v].pc
    BY <1>1 DEF Drives, Of
  <2>6. ScopesClose'
    BY <1>1, <2>1, <2>2, <2>5 DEF Settled, ScopesClose, Is, Drives, Driving
  <2>7. EndIsFinal'
    BY <1>1, <2>1, <2>2, <2>4, <2>5 DEF Settled, EndIsFinal, Is, Drives, Driving
  <2>8. QuestionsClose'
    BY <1>1, <2>1, <2>2, <2>5 DEF Settled, QuestionsClose, QuestionHasScope, Is, Of, Drives,
         Driving
  <2> QED
    BY <2>6, <2>7, <2>8 DEF Settled
<1> QED
  BY <1>3, <1>4, <1>5, <1>6, <1>7, <1>8, <1>9, <1>10, <1>11 DEF TaskStep

\* A wake spawns a task at the top, and none in an ended Session.
LEMMA SpawnSettles ==
  ASSUME TypeOK, Ownership, Settled, NEW e \in Entries, e <= attached, Spawn(e)
  PROVE  /\ \A w \in Tasks : task'[w] = task[w] \/ (task'[w].pc = "top" /\ ~ended /\ Free(w))
<1>1. CASE MayAcquire(e)
  <2>1. ~ended
    BY <1>1, EndKeepsSlot
  <2> QED
    BY <1>1, <2>1 DEF Spawn, TypeOK, ControlOK, At
<1>2. CASE ~MayAcquire(e)
  BY <1>2 DEF Spawn
<1> QED
  BY <1>1, <1>2

\* A wake keeps what is settled, whichever process it runs in.
LEMMA WakeSettles ==
  ASSUME TypeOK, Ownership, Settled,
         UNCHANGED <<admitting, cancelled, phase, scope, live, question, ended, stop>>,
         \A w \in Tasks : task'[w] = task[w] \/ (task'[w].pc = "top" /\ ~ended /\ Free(w)),
         main' = main \/ (main'.pc \notin {"archiveStore", "archived"} /\ main.pc # "archived")
  PROVE  Settled'
<1>1. ScopesClose'
  BY DEF Settled, ScopesClose, Is, Of
<1>2. EndIsFinal'
  BY DEF Settled, EndIsFinal, Is, Drives
<1>3. QuestionsClose'
  BY DEF Settled, QuestionsClose, QuestionHasScope, Is, Of, Drives
<1> QED
  BY <1>1, <1>2, <1>3 DEF Settled

\* What the user does starts no turn and ends no Session; an answer needs a question.
LEMMA UserSettles == TypeOK /\ Ownership /\ Settled /\ UserStep => Settled'
<1> SUFFICES ASSUME TypeOK, Ownership, Settled, UserStep PROVE Settled'
  OBVIOUS
<1>1. CASE Submit \/ ResumeItem \/ RemoveItem
  BY <1>1, WakeSettles DEF Submit, ResumeItem, RemoveItem, entry, record, registry, control, At,
       Off
<1>2. CASE Start
  <2>1. live = 0 \/ live' = live
    BY <1>2 DEF Start
  <2>2. CASE live' = live
    BY <1>2, <2>2, WakeSettles DEF Start, entry, record, At, Off
  <2>3. CASE live = 0
    <3>1. \A e \in Entries : ~scope[e]
      BY <2>3, Bounds DEF Settled, ScopesClose, Entries
    <3>2. question = "none" /\ ~ended /\ UNCHANGED <<entry, record, task, stop>>
          /\ main' = At("look", 0)
      BY <1>2, <2>3, <3>1 DEF Start, Settled, QuestionsClose, QuestionHasScope
    <3>3. stop.pc \notin WaitedOut \cup {"settleRecord"}
      BY <1>2 DEF Start, Ownership, EntriesKnown, WaitedOut
    <3>4. ScopesClose'
      BY <3>1, <3>2, <3>3 DEF Settled, ScopesClose, Is, Of, At, entry
    <3>5. EndIsFinal'
      BY <3>2 DEF EndIsFinal, record
    <3>6. QuestionsClose'
      BY <3>1, <3>2 DEF Settled, QuestionsClose, QuestionHasScope, Is, Of, entry, record
    <3> QED
      BY <3>4, <3>5, <3>6 DEF Settled
  <2> QED
    BY <2>1, <2>2, <2>3
<1>3. CASE Answer
  <2>1. ~ended /\ question = "asked" /\ ~cancelled[live]
        /\ UNCHANGED <<admitting, cancelled, scope, live, ended, task, stop>>
        /\ main' = At("look", 0)
    BY <1>3 DEF Answer, registry
  <2>2. ScopesClose'
    BY <2>1 DEF Settled, ScopesClose, Is, Of, At
  <2>3. EndIsFinal'
    BY <2>1 DEF EndIsFinal
  <2>4. QuestionsClose'
    BY <2>1 DEF Settled, QuestionsClose, QuestionHasScope, Is, Of, Drives
  <2> QED
    BY <2>2, <2>3, <2>4 DEF Settled
<1>4. CASE ReconnectReserve
  BY <1>4, WakeSettles DEF ReconnectReserve, registry, record
<1>5. ASSUME NEW command \in Commands, Reserve(command) PROVE Settled'
  BY <1>5, WakeSettles DEF Reserve, Commands, registry, record, At, Off
<1>6. ASSUME NEW kind \in {"cancel", "interrupt"}, BeginStop(kind) PROVE Settled'
  <2>1. /\ UNCHANGED <<cancelled, scope, live, question, ended, task, main>>
        /\ stop'.pc = "take" /\ stop.pc = "off"
        /\ live # 0 => ~admitting'[live]
    BY <1>6, Bounds DEF BeginStop, OnlyStop, record, CloseAdmission, TypeOK, FlagsOK, RegistryOK,
       Entries
  <2>2. ScopesClose'
    BY <2>1 DEF Settled, ScopesClose, Is, Of, WaitedOut
  <2>3. EndIsFinal'
    BY <2>1 DEF Settled, EndIsFinal, Is, Drives
  <2>4. QuestionsClose'
    BY <2>1 DEF Settled, QuestionsClose, QuestionHasScope, Is, Of, Drives, Closed, WaitedOut
  <2> QED
    BY <2>2, <2>3, <2>4 DEF Settled
<1> QED
  BY <1>1, <1>2, <1>3, <1>4, <1>5, <1>6 DEF UserStep

\* An archive ends the Session only while it has the slot and no turn is active.
LEMMA MainSettles == TypeOK /\ Ownership /\ Settled /\ MainStep => Settled'
<1> SUFFICES ASSUME TypeOK, Ownership, Settled, MainStep PROVE Settled'
  OBVIOUS
<1>1. CASE MainWakes
  <2>1. main.pc = "wake" => main.e \in Entries /\ main.e <= attached
    BY DEF Ownership, EntriesKnown, TypeOK, ControlOK, Entries
  <2>2. CASE main.pc = "look"
    BY <1>1, <2>2, WakeSettles DEF MainWakes, record, ToWake, At, Off
  <2>3. CASE main.pc = "wake" /\ Spawn(main.e) /\ main' = Off
    BY <1>1, <2>1, <2>3, SpawnSettles, WakeSettles DEF MainWakes, record, At, Off
  <2> QED
    BY <1>1, <2>2, <2>3 DEF MainWakes
<1>2. CASE Archive
  <2>1. \A w \in Tasks : ~Drives(w)
    BY <1>2, DriverAlone DEF Archive, Reserved
  <2>2. /\ UNCHANGED <<admitting, cancelled, phase, scope, live, question, task, stop>>
        /\ main'.e = main.e /\ main'.pc \in {"archiveRefused", "archiveStore", "archived"}
        /\ main'.pc = "archived" => main.pc = "archiveStore"
        /\ main'.pc = "archiveStore" => ended \/ ~scope[main.e]
        /\ ended' # ended => main.pc = "archiveStore" /\ main'.pc = "archived"
        /\ ended => ended'
        /\ main.pc # "archived"
    BY <1>2 DEF Archive, entry, registry, At
  <2>3. main.e \in Entries /\ live \in {0, main.e}
    BY <1>2, Bounds DEF Archive, Ownership, EntriesKnown, DetachesQuietly, Reserved, TypeOK,
       ControlOK, Entries
  <2>4. ScopesClose'
    BY <2>2, <2>3 DEF Settled, ScopesClose, EndIsFinal, Is, Of
  <2>5. EndIsFinal'
    <3>1. CASE ended' = ended
      BY <2>2, <3>1 DEF Settled, EndIsFinal, Is, Drives
    <3>2. CASE ended' # ended
      BY <2>1, <2>2, <2>3, <3>2, Bounds DEF Settled, ScopesClose, EndIsFinal, Drives, Entries
    <3> QED
      BY <3>1, <3>2
  <2>6. QuestionsClose'
    BY <2>2 DEF Settled, QuestionsClose, QuestionHasScope, Is, Of, Drives
  <2> QED
    BY <2>4, <2>5, <2>6 DEF Settled
<1>3. CASE Archived
  <2>1. \A w \in Tasks : ~Drives(w)
    BY <1>3, DriverAlone DEF Archived, Reserved
  <2>2. main.e \in Entries /\ live \in {0, main.e} /\ ~scope[main.e]
    BY <1>3, Bounds DEF Archived, Ownership, EntriesKnown, DetachesQuietly, Reserved, TypeOK,
       ControlOK, Entries, Settled, ScopesClose
  <2>3. \A e \in Entries : ~scope[e]
    BY <2>2, Bounds DEF Settled, ScopesClose, Entries
  <2>4. question = "none"
    BY <2>2, <2>3 DEF Settled, QuestionsClose, QuestionHasScope
  <2>5. UNCHANGED <<cancelled, scope, question, ended, task, stop>> /\ live' = 0
        /\ main'.pc = "unreserve"
    BY <1>3 DEF Archived, record, At
  <2>6. ScopesClose'
    BY <2>3, <2>5 DEF Settled, ScopesClose, Is, Of
  <2>7. EndIsFinal'
    BY <2>5 DEF Settled, EndIsFinal, Drives
  <2>8. QuestionsClose'
    BY <2>4, <2>5 DEF Settled, QuestionsClose, QuestionHasScope, Is, Of
  <2> QED
    BY <2>6, <2>7, <2>8 DEF Settled
<1>4. CASE Unreserve
  BY <1>4, WakeSettles DEF Unreserve, registry, record, At, Off
<1>5. CASE Retry
  BY <1>5, WakeSettles DEF Retry, entry, registry, record, At, Off
<1> QED
  BY <1>1, <1>2, <1>3, <1>4, <1>5 DEF MainStep

\* A submission wakes a task, a reconnect drops the slot.
LEMMA AsyncSettles == TypeOK /\ Ownership /\ Settled /\ (SubmitWakes \/ ReconnectEnds) => Settled'
<1> SUFFICES ASSUME TypeOK, Ownership, Settled, SubmitWakes \/ ReconnectEnds PROVE Settled'
  OBVIOUS
<1>1. CASE SubmitWakes
  <2>1. submit.pc = "wake" => submit.e \in Entries /\ submit.e <= attached
    BY DEF Ownership, EntriesKnown, TypeOK, ControlOK, Entries
  <2> QED
    BY <1>1, <2>1, SpawnSettles, WakeSettles DEF SubmitWakes, record
<1>2. CASE ReconnectEnds
  BY <1>2, WakeSettles DEF ReconnectEnds, registry, record
<1> QED
  BY <1>1, <1>2

\* A stop cancels the questions before it waits, and closes the scope before it settles.
LEMMA StopSettles == TypeOK /\ Ownership /\ Settled /\ StopStep => Settled'
<1> SUFFICES ASSUME TypeOK, Ownership, Settled, StopStep PROVE Settled'
  OBVIOUS
<1>1. UNCHANGED <<task, main>>
  BY DEF StopStep, TakeHandle, CancelTools, FinishClosesAdmission, AwaitIdle, SettleRecord,
       Dispose,
     EndStop, OnlyStop
<1>2. stop.pc \in Closed => stop.e \in Entries /\ live \in {0, stop.e} /\ ~admitting[stop.e]
  BY DEF Ownership, DetachesQuietly
<1>3. CASE TakeHandle
  <2>1. /\ UNCHANGED <<cancelled, scope, live, question, ended>>
        /\ stop'.pc \in {"cancel", "end",
             "settleRecord"} /\ (stop'.pc = "settleRecord" => live = 0)
        /\ UNCHANGED <<admitting, phase>> \/ (live # 0 /\ ~admitting'[live])
    <3>1. UNCHANGED <<cancelled, scope, live, question, ended>>
      BY <1>3 DEF TakeHandle, record
    <3>2. CASE handle /\ stop' = [stop EXCEPT !.pc = "cancel", !.e = live] /\ CloseAdmission(live)
      <4>1. live \in Entries /\ live # 0
        BY <3>2, Bounds DEF Ownership, EntriesKnown, TypeOK, RegistryOK, Entries
      <4>2. stop'.pc = "cancel"
        BY <3>2 DEF TypeOK, ControlOK
      <4>3. ~admitting'[live]
        BY <3>2, <4>1 DEF CloseAdmission, TypeOK, FlagsOK
      <4> QED
        BY <3>1, <4>1, <4>2, <4>3
    <3>3. CASE StopAt(IF live # 0 THEN "end" ELSE "settleRecord") /\ UNCHANGED <<admitting,
         phase>>
      BY <3>1, <3>3 DEF StopAt, TypeOK, ControlOK
    <3> QED
      BY <1>3, <3>2, <3>3 DEF TakeHandle
  <2>2. ScopesClose'
    BY <1>1, <2>1 DEF Settled, ScopesClose, Is, Of, WaitedOut
  <2>3. EndIsFinal'
    BY <1>1, <2>1 DEF Settled, EndIsFinal, Is, Drives
  <2>4. QuestionsClose'
    BY <1>1, <2>1 DEF Settled, QuestionsClose, QuestionHasScope, Is, Of, Drives, Closed, WaitedOut
  <2> QED
    BY <2>2, <2>3, <2>4 DEF Settled
<1>4. CASE CancelTools
  <2>1. /\ UNCHANGED <<admitting, phase, scope, live, ended>> /\ question' = "none"
        /\ cancelled' = [cancelled EXCEPT ![stop.e] = TRUE]
        /\ stop'.pc = "finish" /\ stop'.e = stop.e /\ stop.e \in Entries
    BY <1>2, <1>4 DEF CancelTools, StopAt, Closed, TypeOK, ControlOK
  <2>2. ScopesClose'
    BY <1>1, <2>1 DEF Settled, ScopesClose, Is, Of, WaitedOut
  <2>3. EndIsFinal'
    BY <1>1, <2>1 DEF Settled, EndIsFinal, Is, Drives
  <2>4. QuestionsClose'
    BY <1>1, <2>1 DEF Settled, QuestionsClose, QuestionHasScope, Is, Of, TypeOK, FlagsOK
  <2> QED
    BY <2>2, <2>3, <2>4 DEF Settled
<1>5. CASE FinishClosesAdmission
  <2>1. /\ UNCHANGED <<cancelled, scope, live, question, ended>>
        /\ admitting' = [admitting EXCEPT ![stop.e] = FALSE]
        /\ phase' = [phase EXCEPT ![stop.e] = "Stopping"]
        /\ stop.pc = "finish" /\ stop'.pc = "await" /\ stop'.e = stop.e
    BY <1>5 DEF FinishClosesAdmission, CloseAdmission, SetPhase, StopAt, record, TypeOK, ControlOK
  <2>2. ScopesClose'
    BY <1>1, <2>1 DEF Settled, ScopesClose, Is, Of, WaitedOut
  <2>3. EndIsFinal'
    <3>1. live # 0 => ~admitting'[live]
      BY <1>2, <2>1 DEF Closed, TypeOK, FlagsOK
    <3> QED
      BY <1>1, <2>1, <3>1 DEF Settled, EndIsFinal, Is, Drives
  <2>4. QuestionsClose'
    BY <1>1, <2>1 DEF Settled, QuestionsClose, QuestionHasScope, Is, Of, Drives, Closed, WaitedOut
  <2> QED
    BY <2>2, <2>3, <2>4 DEF Settled
<1>6. CASE AwaitIdle
  <2>1. /\ UNCHANGED <<admitting, phase, cancelled, live, question, ended>>
        /\ scope' = [scope EXCEPT ![stop.e] = FALSE] /\ lease[stop.e] = "none"
        /\ stop.pc = "await" /\ stop'.pc = "settle" /\ stop'.e = stop.e /\ stop.e \in Entries
    BY <1>2, <1>6 DEF AwaitIdle, SetScope, StopAt, Closed, record, TypeOK, ControlOK
  <2>2. cancelled[stop.e] /\ live \in {0, stop.e}
    BY <1>2, <2>1 DEF Settled, QuestionsClose, Closed, WaitedOut
  <2>3. \A w \in Tasks : ~Drives(w)
    BY <2>1, <2>2, DriverIsLive, Names, Bounds DEF Entries
  <2>4. question = "none"
    BY <2>2 DEF Settled, QuestionsClose, QuestionHasScope
  <2>5. ScopesClose'
    BY <1>1, <2>1 DEF Settled, ScopesClose, Is, Of, WaitedOut, TypeOK, FlagsOK
  <2>6. EndIsFinal'
    BY <1>1, <2>1 DEF Settled, EndIsFinal, Is, Drives, TypeOK, FlagsOK
  <2>7. QuestionsClose'
    BY <1>1, <2>1, <2>2, <2>3, <2>4 DEF Settled, QuestionsClose, QuestionHasScope, Is, Of, Drives,
       Driving
  <2> QED
    BY <2>5, <2>6, <2>7 DEF Settled
<1>7. CASE SettleRecord
  <2>1. /\ UNCHANGED <<admitting, phase, cancelled, scope, live, question>>
        /\ stop.pc \in {"settle", "settleRecord"}
        /\ stop'.pc = (IF stop.pc = "settle" THEN "dispose" ELSE "end") /\ stop'.e = stop.e
        /\ ended => ended'
    BY <1>7 DEF SettleRecord, StopAt, TypeOK, ControlOK
  <2>2. \A w \in Tasks : ~Drives(w)
    BY <2>1, DriverAlone DEF WaitedOut
  <2>3. \A e \in Entries : ~scope[e]
    BY <1>2, <2>1, Bounds DEF Settled, ScopesClose, Closed, WaitedOut, Entries
  <2>4. live # 0 => ~admitting[live]
    BY <1>2, <2>1 DEF Settled, ScopesClose, Closed, WaitedOut
  <2>5. ScopesClose'
    BY <1>1, <2>1 DEF Settled, ScopesClose, Is, Of, WaitedOut
  <2>6. EndIsFinal'
    BY <1>1, <2>1, <2>2, <2>3, <2>4 DEF EndIsFinal, Is, Drives
  <2>7. QuestionsClose'
    BY <1>1, <2>1 DEF Settled, QuestionsClose, QuestionHasScope, Is, Of, Drives, Closed, WaitedOut
  <2> QED
    BY <2>5, <2>6, <2>7 DEF Settled
<1>8. CASE Dispose
  <2>1. /\ UNCHANGED <<admitting, cancelled, scope, question, ended>>
        /\ stop.pc \in {"dispose", "detach"} /\ stop'.e = stop.e
        /\ \/ stop.pc = "dispose" /\ stop'.pc = "detach" /\ UNCHANGED live
           \/ stop.pc = "detach" /\ stop'.pc = "end" /\ live' = 0
    BY <1>8 DEF Dispose, StopAt, record, TypeOK, ControlOK
  <2>2. \A w \in Tasks : ~Drives(w)
    BY <2>1, DriverAlone DEF WaitedOut
  <2>3. \A e \in Entries : ~scope[e]
    BY <1>2, <2>1, Bounds DEF Settled, ScopesClose, Closed, WaitedOut, Entries
  <2>4. live # 0 => ~admitting[live] /\ question = "none"
    BY <1>2, <2>1, <2>3 DEF Settled, QuestionsClose, QuestionHasScope, Closed, WaitedOut
  <2>5. ScopesClose'
    BY <1>1, <2>1, <2>3 DEF Settled, ScopesClose, Is, Of, WaitedOut
  <2>6. EndIsFinal'
    BY <1>1, <2>1, <2>3, <2>2, <2>4 DEF EndIsFinal, Drives
  <2>7. QuestionsClose'
    BY <1>1, <2>1, <2>3, <2>4 DEF Settled, QuestionsClose, QuestionHasScope, Is, Of, Drives,
         Closed,
       WaitedOut
  <2> QED
    BY <2>5, <2>6, <2>7 DEF Settled
<1>9. CASE EndStop
  <2>1. UNCHANGED <<admitting, phase, cancelled, scope, live, question,
       ended>> /\ stop'.pc = "off"
    BY <1>9 DEF EndStop, record, TypeOK, ControlOK
  <2>2. ScopesClose'
    BY <1>1, <2>1 DEF Settled, ScopesClose, Is, Of, WaitedOut
  <2>3. EndIsFinal'
    BY <1>1, <2>1 DEF Settled, EndIsFinal, Is, Drives
  <2>4. QuestionsClose'
    BY <1>1, <2>1 DEF Settled, QuestionsClose, QuestionHasScope, Is, Of, Drives, Closed, WaitedOut
  <2> QED
    BY <2>2, <2>3, <2>4 DEF Settled
<1> QED
  BY <1>3, <1>4, <1>5, <1>6, <1>7, <1>8, <1>9 DEF StopStep

\* What is settled stays settled, through every interleaving of the processes.
LEMMA SettledAlways == Spec => []Settled
<1>1. TypeOK /\ Ownership /\ Settled /\ [Next]_vars => Settled'
  <2> SUFFICES ASSUME TypeOK, Ownership, Settled, [Next]_vars PROVE Settled'
    OBVIOUS
  <2>1. CASE UNCHANGED vars
    BY <2>1, WakeSettles DEF vars, entry, registry, record, control
  <2> QED
    BY <2>1, TaskSettles, UserSettles, MainSettles, AsyncSettles, StopSettles DEF Next
<1> QED
  BY <1>1, SettledInit, TypeCorrect, SlotOwnership, PTL DEF Spec

\* When a stop settles the record, or the Session has ended, no task is inside a turn and
\* no scope is active: what the log says of the turn is the last that is said of it.
THEOREM QuietStop == Spec => []StopIsQuiet
<1>1. TypeOK /\ Ownership /\ Settled => StopIsQuiet
  <2> SUFFICES ASSUME TypeOK, Ownership, Settled PROVE StopIsQuiet
    OBVIOUS
  <2>1. CASE ended
    BY <2>1 DEF Settled, EndIsFinal, StopIsQuiet, Drives, Driving, Needs
  <2>2. CASE stop.pc \in WaitedOut \cup {"settleRecord"}
    <3>1. \A w \in Tasks : ~Drives(w)
      BY <2>2, DriverAlone
    <3>2. \A e \in Entries : ~scope[e]
      BY <2>2, Bounds DEF Settled, ScopesClose, Ownership, DetachesQuietly, Closed, WaitedOut,
         Entries
    <3> QED
      BY <3>1, <3>2 DEF StopIsQuiet, Drives, Driving
  <2> QED
    BY <2>1, <2>2 DEF StopIsQuiet, WaitedOut
<1> QED
  BY <1>1, TypeCorrect, SlotOwnership, SettledAlways, PTL

\* An open or answered question always belongs to the active scope of the live entry, so
\* an answer that is accepted has a turn to go on in.
THEOREM QuestionInScope == Spec => []QuestionHasScope
<1>1. Settled => QuestionHasScope
  BY DEF Settled, QuestionsClose
<1> QED
  BY <1>1, SettledAlways, PTL
================================================================================
