------------------------------ MODULE PetArbiter ------------------------------
(* What the desktop pet is told to show: petdex/arbiter.rs folds the life
   cycles that ActivityGuards report into one action and up to three bubbles
   (petdex/slots.rs), and petdex/message_snapshot.rs hands copies of the
   bubbles to the writer and judges later whether a copy is still current.
   Time is a small clock; texts are left out but for whether a bubble carries
   optional details.  A slot's revision and generation only ever grow and are
   only compared with those of the last copy: `changed' is the set of slots in
   which either grew since. *)
EXTENDS Integers, Sequences, FiniteSets, SequencesExt, FiniteSetsExt

CONSTANTS Tasks,        \* the <<source, owner>> pairs that may start a run
          Started,      \* the phases a run may start in
          Reported,     \* the phases a guard may move to
          MaxRuns, MaxRevision, MaxTime, MaxDelay,      \* bounds
          MaxSettings,                          \* bound on settings changed
          SuccessTtl, FailureTtl, HistoryLimit,
          MessagesOn,   \* the preferences the application starts with
          None          \* no value

TtlAssumption == SuccessTtl \in Nat \ {0} /\ FailureTtl \in Nat \ {0}

VARIABLES clock, guards, activities, finished, watermarks, categories, prefs,
          enabled, success, failed, preview, results, slots, ownerOrder,
          copy, copied, changed, settings

shown == <<slots, ownerOrder, changed>>
pulses == <<success, failed, preview>>
registry == <<activities, finished, watermarks>>
config == <<categories, prefs, enabled, settings>>
copies == <<copy, copied>>
vars == <<clock, guards, registry, config, pulses, results, shown, copies>>

Sources == {t[1] : t \in Tasks}
Owners == {t[2] : t \in Tasks}
Runs == 1 .. MaxRuns

Never == MaxTime + FailureTtl + SuccessTtl + 1

Ended == {"succeeded", "failed", "cancelled"}
Waits == {"approval", "answer"}

\* A run that works or waits, as opposed to one that has a result to show.
Running(phase) == phase \in {"connecting", "running"} \cup Waits

Ttl(state) == CASE state \in {"waving", "jumping"} -> SuccessTtl
                [] state = "failed" -> FailureTtl
                [] OTHER -> Never

MessageExpiry(e) == CASE e.phase = "failed" -> e.at + FailureTtl
                      [] e.phase \in {"succeeded", "connected"} -> e.at + SuccessTtl
                      [] OTHER -> Never

Priority(phase) == CASE phase = "failed" -> 0
                     [] phase = "approval" -> 1
                     [] phase = "answer" -> 2
                     [] phase \in {"succeeded", "connected"} -> 3
                     [] phase = "running" -> 4
                     [] phase = "connecting" -> 5
                     [] OTHER -> 6

Active == {r \in Runs : activities[r] # None}

-------------------------------------------------------------------------------
(* The bubbles: what each owner shows, who gets a slot of its own. *)

Alive(res, now) == {e \in res : MessageExpiry(e) > now}

\* Handles of established connections are not work; their result is.
EventsOf(acts, res, cats) ==
    {acts[r] : r \in {x \in Runs : acts[x] # None /\ acts[x].source \in cats
                                   /\ acts[x].phase # "connected"}} \cup res

Better(e, f) == \/ Priority(e.phase) < Priority(f.phase)
                \/ Priority(e.phase) = Priority(f.phase) /\ e.run <= f.run

\* One owner's bubble: the phase (and details) of its most urgent event, the
\* first reported among equals.
Content(o, events) ==
    LET mine == {e \in events : e.owner = o}
        best == CHOOSE e \in mine : \A f \in mine : Better(e, f)
    IN  [members |-> <<o>>, runs |-> {e.run : e \in mine}, phase |-> best.phase,
         details |-> best.details,
         active |-> Cardinality({e \in mine : Running(e.phase)}),
         busy |-> \E e \in mine : Running(e.phase),
         expiry |-> Min({MessageExpiry(e) : e \in {f \in mine :
                           Priority(f.phase) = Priority(best.phase)}})]

Displayed(o) == \E i \in 1 .. 3 : slots[i].binding = o

\* The owners in order of urgency; among equals those shown already come
\* first, then those known longest.
Ranked(owners, order, content) ==
    LET Place(o) == CHOOSE i \in DOMAIN order : order[i] = o
        Seen(o) == IF Displayed(o) THEN 0 ELSE 1
        Before(o, p) ==
            \/ Priority(content[o].phase) < Priority(content[p].phase)
            \/ /\ Priority(content[o].phase) = Priority(content[p].phase)
               /\ \/ Seen(o) < Seen(p)
                  \/ Seen(o) = Seen(p) /\ Place(o) < Place(p)
    IN  SetToSortSeq(owners, Before)

Summary(rest, content) ==
    [content[rest[1]] EXCEPT
        !.details = FALSE, !.members = rest,
        !.runs = UNION {content[rest[i]].runs : i \in DOMAIN rest},
        !.active = FoldSeq(LAMBDA o, n : content[o].active + n, 0, rest),
        !.busy = \E i \in DOMAIN rest : content[rest[i]].busy,
        !.expiry = Min({content[rest[i]].expiry : i \in DOMAIN rest})]

NoBubbles == [i \in 1 .. 3 |-> [binding |-> None, content |-> None]]

\* Bindings of the three slots: the summary takes the third, everybody who
\* stays keeps the slot, the others fill the gaps in order.
Bind(top, summarised) ==
    LET kept == [i \in 1 .. 3 |->
                   IF summarised /\ i = 3 THEN "summary"
                   ELSE IF slots[i].binding \in ToSet(top) THEN slots[i].binding
                   ELSE None]
        free == SetToSortSeq({i \in 1 .. 3 : kept[i] = None}, <)
        new == SelectSeq(top, LAMBDA o : \A i \in 1 .. 3 : kept[i] # o)
    IN  [i \in 1 .. 3 |->
           IF kept[i] # None THEN kept[i]
           ELSE LET k == CHOOSE j \in DOMAIN free : free[j] = i
                IN  IF k <= Len(new) THEN new[k] ELSE None]

TopOwners(ranked) == SubSeq(ranked, 1, IF Len(ranked) > 3 THEN 2 ELSE Len(ranked))

Changed(old, new) == {i \in 1 .. 3 : old[i] # new[i]}

\* project_slots over the given registry and results.
Projected(acts, res, cats) ==
    LET events == EventsOf(acts, res, cats)
        owners == {e.owner : e \in events}
        content == [o \in owners |-> Content(o, events)]
        FirstRun(o) == Min({e.run : e \in {f \in events : f.owner = o}})
        stay == SelectSeq(ownerOrder, LAMBDA o : o \in owners)
        order == stay \o SetToSortSeq(owners \ ToSet(stay),
                                      LAMBDA o, p : FirstRun(o) < FirstRun(p))
        ranked == Ranked(owners, order, content)
        bound == Bind(TopOwners(ranked), Len(ranked) > 3)
        Shows(i) == CASE bound[i] = None -> None
                      [] bound[i] = "summary" -> Summary(SubSeq(ranked, 3, Len(ranked)), content)
                      [] OTHER -> content[bound[i]]
    IN  [order |-> order,
         slots |-> [i \in 1 .. 3 |-> [binding |-> bound[i], content |-> Shows(i)]]]

Rebind(p) == slots' = p.slots /\ ownerOrder' = p.order

Project(acts, res, cats) ==
    LET p == Projected(acts, res, cats)
    IN  /\ Rebind(p)
        /\ changed' = IF copied THEN changed \cup Changed(slots, p.slots) ELSE {}

-------------------------------------------------------------------------------
(* The arbiter. *)

\* A source's short prompt runs to its end before the next one counts.
Pulse(shownNow, state, at, now) ==
    IF \/ at + Ttl(state) <= now
       \/ shownNow # None /\ shownNow.expiry > now
    THEN shownNow
    ELSE [state |-> state, expiry |-> at + Ttl(state)]

Pulsed(e, was) ==
    CASE e.phase = "succeeded" -> "jumping"
      [] e.phase = "failed" -> "failed"
      [] e.phase = "connected" /\ was = "connecting" -> "waving"
      [] OTHER -> None

\* What stays of the details a run has gathered.
Details(e, known) ==
    /\ known /\ activities[e.run].details
    /\ prefs.on /\ prefs.details /\ e.source \in categories

\* Results a report takes away: the run's own when it ends, those of the whole
\* conversation when a new turn of it starts.
StillTold(res, e) ==
    {x \in res : /\ e.phase \in Ended => x.run # e.run
                 /\ e.revision = 0 /\ e.source = "ai" => x.owner # e.owner}

\* Whether the registry takes a report at all.
Taken(e) ==
    LET key == e.run
        known == activities[key] # None
    IN  /\ ~ \E i \in DOMAIN finished : finished[i] = key
        /\ known => e.revision > activities[key].revision
        /\ ~known => /\ key > watermarks[e.source]
                     /\ e.revision = 0
                     /\ e.phase \notin Ended

\* The copy on its way is cancelled; none counts as current any more.
NoCopy == copied' = FALSE /\ copy' = NoBubbles /\ changed' = {}

Cleared(acts) == [r \in Runs |-> IF acts[r] = None THEN None
                                 ELSE [acts[r] EXCEPT !.details = FALSE]]

\* clear_presentation: nothing is shown while the pet is switched off.
NothingShown(acts) ==
    /\ activities' = Cleared(acts)
    /\ results' = {}
    /\ success' = [s \in Sources |-> None]
    /\ failed' = [s \in Sources |-> None]
    /\ preview' = None

\* record_event's end: the registry follows, the presentation only if enabled.
Record(acts, res, pulse) ==
    IF ~enabled
    THEN NothingShown(acts) /\ Project(Cleared(acts), {}, categories)
    ELSE /\ activities' = acts /\ results' = res
         /\ success' = pulse.success /\ failed' = pulse.failed
         /\ UNCHANGED <<preview, shown>>

\* The short prompts after a report.
PulseOf(e, state) ==
    [success |-> IF state \in {None, "failed"} THEN success
                 ELSE [success EXCEPT ![e.source] = Pulse(@, state, e.at, clock)],
     failed |-> IF state # "failed" THEN failed
                ELSE [failed EXCEPT ![e.source] = Pulse(@, state, e.at, clock)]]

\* apply() under the coordinator's lock.  The time of a phase only matters to
\* results and prompts: the registry keeps none.
Apply(report) ==
    LET r == report.run
        known == activities[r] # None
        was == IF known THEN activities[r].phase ELSE None
        e == [report EXCEPT !.details = Details(report, known)]
        visible == e.source \in categories
        old == StillTold(Alive(results, clock), e)
        tells == visible /\ e.phase # was /\ MessageExpiry(e) \in clock + 1 .. Never - 1
        state == IF visible THEN Pulsed(e, was) ELSE None
        history == Append(finished, r)
    IN  /\ watermarks' = [watermarks EXCEPT ![e.source] = Max({@, r})]
        /\ finished' = IF ~Taken(report) \/ e.phase \notin Ended THEN finished
                       ELSE IF Len(history) > HistoryLimit THEN Tail(history)
                       ELSE history
        /\ IF Taken(report)
           THEN Record([activities EXCEPT ![r] = 
                         IF e.phase \in Ended THEN None ELSE [e EXCEPT !.at = 0]],
                       IF tells THEN old \cup {e} ELSE old, PulseOf(e, state))
           ELSE Record(activities, results, [success |-> success, failed |-> failed])

\* What is left of the short prompts at a given time.
Left(pulse, now) == [s \in Sources |-> IF pulse[s] # None /\ pulse[s].expiry > now
                                       THEN pulse[s] ELSE None]
PreviewLeft(now) == IF preview # None /\ preview.expiry > now THEN preview ELSE None

Soonest(pulse) ==
    LET there == {pulse[s] : s \in {x \in Sources : pulse[x] # None}}
    IN  IF there = {} THEN None
        ELSE LET first == Min({t.expiry : t \in there})
             IN  CHOOSE t \in there : t.expiry = first

\* The action the pet should perform at a given time.
Target(now) ==
    LET visible == {activities[r] : r \in {x \in Active :
                                           activities[x].source \in categories}}
        InPhase(S) == \E e \in visible : e.phase \in S
        short == IF Soonest(Left(failed, now)) # None THEN Soonest(Left(failed, now))
                 ELSE IF InPhase(Waits) THEN None
                 ELSE IF PreviewLeft(now) # None THEN PreviewLeft(now)
                 ELSE Soonest(Left(success, now))
    IN  IF short # None THEN short
        ELSE [state |-> IF InPhase(Waits) THEN "waiting"
                        ELSE IF InPhase({"running"}) THEN "running"
                        ELSE IF InPhase({"connecting"}) THEN "waiting" ELSE "idle",
              expiry |-> Never]

Prompts(now) == ({Left(success, now)[x] : x \in Sources}
                 \cup {Left(failed, now)[x] : x \in Sources}
                 \cup {PreviewLeft(now)}) \ {None}

\* When the writer must look again; asked right after target().
NextExpiry(now) == Min({Never} \cup {t.expiry : t \in Prompts(now)}
                       \cup {MessageExpiry(e) : e \in Alive(results, now)})

PreviewOverridden(now) ==
    \/ Soonest(Left(failed, now)) # None
    \/ \E r \in Active : activities[r].source \in categories
                         /\ activities[r].phase \in Waits

-------------------------------------------------------------------------------
Init ==
    /\ clock = 0
    /\ guards = [r \in Runs |-> None]
    /\ activities = [r \in Runs |-> None]
    /\ finished = <<>>
    /\ watermarks = [s \in Sources |-> 0]
    /\ categories = Sources
    /\ prefs = [on |-> MessagesOn, details |-> MessagesOn]
    /\ enabled = TRUE
    /\ success = [s \in Sources |-> None]
    /\ failed = [s \in Sources |-> None]
    /\ preview = None
    /\ results = {}
    /\ slots = NoBubbles
    /\ ownerOrder = <<>>
    /\ copy = NoBubbles
    /\ copied = FALSE
    /\ changed = {}
    /\ settings = 0

\* ActivityGuard::create: the run id is taken and reported under one lock.
Begin(task, phase) ==
    LET r == Cardinality({x \in Runs : guards[x] # None}) + 1
        Mine(x) == guards[x] # None /\ guards[x].owner = task[2]
        e == [run |-> r, source |-> task[1], owner |-> task[2], revision |-> 0,
              phase |-> phase, at |-> clock, details |-> FALSE]
    IN  /\ r \in Runs
        \* a conversation ends its turn before it starts the next
        /\ task[1] = "ai" => \A x \in Runs : Mine(x) =>
                guards[x].phase \in Ended
        /\ guards' = [guards EXCEPT ![r] = [e EXCEPT !.at = 0]]
        /\ Apply(e)
        /\ UNCHANGED <<clock, config, copies>>

\* The guard notes the new phase and its time before it waits for the lock.
Transition(r, phase, at) ==
    /\ guards[r] # None
    /\ guards[r].phase \notin Ended
    /\ guards[r].revision < MaxRevision
    /\ clock - at \in 0 .. MaxDelay
    /\ LET e == [guards[r] EXCEPT !.revision = @ + 1, !.phase = phase, !.at = at]
       IN  guards' = [guards EXCEPT ![r] = [e EXCEPT !.at = 0]] /\ Apply(e)
    /\ UNCHANGED <<clock, config, copies>>

\* The worker offers a title or a reply; it is evaluated under the lock.
OfferDetails(r) ==
    /\ enabled
    /\ guards[r] # None /\ guards[r].phase \notin Ended
    /\ prefs.on /\ prefs.details /\ guards[r].source \in categories
    /\ activities' = [activities EXCEPT ![r] =
                        IF @ = None THEN None ELSE [@ EXCEPT !.details = TRUE]]
    /\ results' = Alive(results, clock)
    /\ Project(activities', results', categories)
    /\ UNCHANGED <<clock, guards, finished, watermarks, config, pulses, copies>>

\* Details of the sources that are no longer shown are dropped at once.
Hide(acts, cats) ==
    [r \in Runs |-> IF acts[r] # None /\ acts[r].source \notin cats
                    THEN [acts[r] EXCEPT !.details = FALSE] ELSE acts[r]]

\* The adapter's set_categories also cancels every copy that is on its way.
SetCategories(cats) ==
    /\ cats # categories
    /\ settings < MaxSettings /\ settings' = settings + 1
    /\ categories' = cats
    /\ activities' = Hide(activities, cats)
    /\ results' = {e \in results : e.source \in cats}
    /\ success' = [s \in Sources |-> IF s \in cats THEN success[s] ELSE None]
    /\ failed' = [s \in Sources |-> IF s \in cats THEN failed[s] ELSE None]
    /\ NoCopy
    \* refresh_diagnostic computes the target only for a live writer.
    /\ UNCHANGED <<clock, guards, finished, watermarks, prefs, enabled, preview,
                   slots, ownerOrder>>

\* Every slot counts as changed, whatever it shows.
SetPreferences(new) ==
    /\ new # prefs
    /\ settings < MaxSettings /\ settings' = settings + 1
    /\ prefs' = new
    /\ activities' = Cleared(activities)
    /\ results' = {[e EXCEPT !.details = FALSE] : e \in Alive(results, clock)}
    /\ Rebind(Projected(activities', results', categories))
    /\ NoCopy
    /\ UNCHANGED <<clock, guards, finished, watermarks, categories, enabled,
                   pulses>>

SwitchOff ==
    /\ enabled
    /\ settings < MaxSettings /\ settings' = settings + 1
    /\ enabled' = FALSE
    /\ NoCopy
    /\ NothingShown(activities)
    /\ Rebind(Projected(Cleared(activities), {}, categories))
    /\ UNCHANGED <<clock, guards, finished, watermarks, categories, prefs>>

SwitchOn ==
    /\ ~enabled
    /\ enabled' = TRUE
    /\ NothingShown(activities)
    /\ Project(Cleared(activities), {}, categories)
    /\ UNCHANGED <<clock, guards, finished, watermarks, categories, prefs,
                   settings, copies>>

StartPreview ==
    /\ enabled
    /\ settings < MaxSettings /\ settings' = settings + 1
    /\ success' = Left(success, clock)
    /\ failed' = Left(failed, clock)
    /\ preview' = [state |-> "waving", expiry |-> clock + SuccessTtl]
    /\ results' = Alive(results, clock)
    /\ Project(activities, results', categories)
    /\ UNCHANGED <<clock, guards, registry, categories, prefs, enabled, copies>>

\* Only the preview of this test is taken back.
CancelPreview(startedAt) ==
    /\ preview # None /\ preview.expiry = startedAt + SuccessTtl
    /\ preview' = None
    /\ UNCHANGED <<clock, guards, registry, config, success, failed, results,
                   shown, copies>>

\* arbitration_snapshot and refresh_diagnostic compute the target: what has
\* expired is forgotten, the bubbles are projected.
Settle ==
    /\ enabled
    /\ success' = Left(success, clock)
    /\ failed' = Left(failed, clock)
    /\ preview' = PreviewLeft(clock)
    /\ results' = Alive(results, clock)
    /\ UNCHANGED <<clock, guards, registry, config>>

Look == /\ Settle
        /\ Project(activities, Alive(results, clock), categories)
        /\ UNCHANGED copies

\* message_snapshot: the writer takes a copy of the bubbles.
Snapshot ==
    /\ prefs.on
    /\ Settle
    /\ LET p == Projected(activities, Alive(results, clock), categories)
       IN  Rebind(p) /\ copy' = p.slots
    /\ copied' = TRUE /\ changed' = {}

Now == Projected(activities, Alive(results, clock), categories)

\* message_snapshot_is_current, which projects once more before it compares.
Current == IF enabled /\ copied THEN (1 .. 3) \ (changed \cup Changed(slots, Now.slots))
           ELSE {}

Tick == /\ clock < MaxTime
        /\ clock' = clock + 1
        /\ UNCHANGED <<guards, registry, config, pulses, results, shown, copies>>

Next ==
    \/ \E t \in Tasks, p \in Started : Begin(t, p)
    \/ \E r \in Runs, p \in Reported, at \in 0 .. MaxTime : Transition(r, p, at)
    \/ \E r \in Runs : OfferDetails(r)
    \/ \E c \in SUBSET Sources : SetCategories(c)
    \/ \E p \in [on : BOOLEAN, details : BOOLEAN] : SetPreferences(p)
    \/ SwitchOff \/ SwitchOn \/ StartPreview
    \/ \E t \in 0 .. MaxTime : CancelPreview(t)
    \/ Look \/ Snapshot \/ Tick

Spec == Init /\ [][Next]_vars

-------------------------------------------------------------------------------
Short == [state : {"waving", "jumping", "failed"}, expiry : Nat]

TypeOK ==
    /\ clock \in 0 .. MaxTime
    /\ \A r \in Active : activities[r].run = r /\ activities[r].phase \notin Ended
    /\ \A e \in results : MessageExpiry(e) # Never
    /\ finished \in Seq(Runs) /\ Len(finished) <= HistoryLimit
    /\ \A s \in Sources : success[s] \in Short \cup {None} /\ failed[s] \in Short \cup {None}
    /\ preview \in Short \cup {None}
    /\ changed \subseteq 1 .. 3
    /\ copied => enabled

\* Every owner with something to show is in exactly one bubble: its own or the
\* summary (slots.rs: project; the design: the summary counts nobody twice).
EveryoneOnce ==
    LET bubbles == Now.slots
        owners == {e.owner : e \in EventsOf(activities, Alive(results, clock), categories)}
    IN  \A o \in owners :
          Cardinality({i \in 1 .. 3 : /\ bubbles[i].binding # None
                                      /\ o \in ToSet(bubbles[i].content.members)}) = 1

\* The writer may sleep until the next expiry: until then neither the action
\* nor any bubble changes by itself (arbiter.rs: next_expiry, target, prune).
SleepsThroughNothing ==
    LET wake == NextExpiry(clock)
        target == Target(clock)
        bubbles == Now.slots
    IN  \A t \in clock + 1 .. MaxTime :
          t < wake =>
            /\ Target(t) = target
            /\ Projected(activities, Alive(results, t), categories).slots = bubbles

\* A copy judged current shows what the bubble shows now (message_snapshot.rs:
\* message_snapshot_is_current compares counters only).
CurrentIsSame ==
    LET bubbles == Now.slots IN \A i \in Current : copy[i] = bubbles[i]

\* Optional details exist only while they are switched on for their source, and
\* no copy with details is current once they are off (arbiter.rs: clear_details,
\* set_categories, apply; message_snapshot.rs).
DetailsAllowed ==
    LET Allowed(e) == e.details => prefs.on /\ prefs.details /\ e.source \in categories
    IN  /\ \A r \in Active : Allowed(activities[r])
        /\ \A e \in results : Allowed(e)
        /\ \A i \in Current :
             copy[i].content # None /\ copy[i].content.details =>
               prefs.on /\ prefs.details

\* What happened while the pet was switched off is not shown afterwards
\* (petdex.rs: record_event; arbiter.rs: clear_presentation).
NothingReplayed ==
    ~enabled => /\ results = {} /\ preview = None
                /\ \A s \in Sources : success[s] = None /\ failed[s] = None

\* An owner that keeps a bubble keeps its slot, unless the summary needs it
\* (slots.rs: project).
KeepsSlot ==
    [][\A o \in Owners, i, j \in 1 .. 3 :
         slots[i].binding = o /\ slots'[j].binding = o =>
           (i = j) \/ (i = 3 /\ slots'[3].binding = "summary")]_vars

\* A short prompt is neither extended nor replaced before its end by another
\* one of its source (arbiter.rs: pulse_at).
PromptRunsOut ==
    [][\A s \in Sources :
         success[s] # None /\ success[s].expiry > clock =>
           \/ success'[s] = success[s]
           \/ ~enabled'
           \/ s \notin categories']_vars
===============================================================================
