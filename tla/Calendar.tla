------------------------------- MODULE Calendar -------------------------------
(***************************************************************************)
(* The calendar (packages/core/src/calendar): events, the occurrences that *)
(* their rules produce inside a window around now, and the sweep that      *)
(* moves the window (apps/worker, materialise-occurrences).                *)
(*                                                                         *)
(* Every writer of an event takes the event's row lock, reads the          *)
(* occurrences, decides what to insert and delete, and commits.  The       *)
(* statement that prunes old occurrences takes no event's lock, so it is   *)
(* a step of its own between another's reading and commit.  A command      *)
(* reads the clock and the caller's visibility before it waits for a lock. *)
(*                                                                         *)
(* A day is the unit of time.  An event's kind, zone and length are one    *)
(* start and one length; a rule is a step and a number of occurrences,     *)
(* since Recurrence is about what a rule says.                             *)
(***************************************************************************)
EXTENDS Integers, FiniteSets

CONSTANTS
  Event,        \* calendar_event ids
  Child,        \* the members some readers may not see
  Request,      \* requests that can be under way at once
  Horizon,      \* HORIZON_DAYS
  Trailing,     \* TRAILING_DAYS
  Start,        \* the days an event may be given
  Length,       \* the lengths an event may be given
  Rule,         \* recurrence rules: [every, count], no limit being count 0
  MaxDay,       \* bound: the last day the clock reaches
  MaxServed,    \* bound: requests served
  MaxFailures   \* bound: transactions of the sweep that fail

ASSUME WindowAssumption == {Horizon, Trailing} \subseteq Nat \ {0}
ASSUME BoundAssumption == {MaxDay, MaxServed, MaxFailures} \subseteq Nat
ASSUME InputAssumption ==
  /\ Start \subseteq Nat /\ Length \subseteq Nat
  /\ Rule \subseteq [every : Nat \ {0}, count : Nat]
ASSUME RequestAssumption == {"nobody", "sweep"} \cap Request = {}

OneOff == [every |-> 0, count |-> 1]   \* recurrence_rule is NULL
Absent == [status |-> "absent"]
Nobody == "nobody"
Sweep  == "sweep"
Null   == -1                           \* materialised_through is NULL

VARIABLES
  now,       \* the clock, in days
  event,     \* calendar_event, with event_participant
  slot,      \* event_occurrence: for each event, the days it has a row for
  holder,    \* who holds the event's row lock
  request,   \* where each request is
  sweep,     \* where the sweep is
  hidden,    \* external: the children the reader does not guard at present
  served,    \* requests served so far
  failures   \* transactions of the sweep that failed so far

tables == <<event, slot>>
vars   == <<now, tables, holder, request, sweep, hidden, served, failures>>

------------------------------------------------------------------------------
(* What a rule produces, and what should be materialised of it. *)

WindowFrom(t) == t - Trailing
WindowTo(t)   == t + Horizon

IsRecurring(row) == row.rule # OneOff
InUse == {e \in Event : event[e] # Absent}

\* The days of the row's rule before a day, COUNT counted from the start.
ProducedBefore(row, end) ==
  IF IsRecurring(row)
    THEN {d \in row.start .. end - 1 :
            /\ (d - row.start) % row.rule.every = 0
            /\ row.rule.count = 0 \/ (d - row.start) \div row.rule.every < row.rule.count}
    ELSE {row.start}

\* The expansion met the end of the rule: the candidate after the last one lies
\* in a period the loop still looks at, a day past the window at most.
Exhausted(row, end) ==
  LET last == row.start + (row.rule.count - 1) * row.rule.every
  IN row.rule.count > 0 /\ last < end /\ last + row.rule.every <= end + 1

PlannedDays(row, t) ==
  IF IsRecurring(row)
    THEN {d \in ProducedBefore(row, WindowTo(t)) : d >= WindowFrom(t)}
    ELSE {row.start}
ThroughAfter(row, t) ==
  IF ~IsRecurring(row) \/ Exhausted(row, WindowTo(t)) THEN Null ELSE WindowTo(t)

\* The difference between the plan and the rows read, older rows than the
\* window left for pruning: a kept row keeps its cancellation.
Reconcile(row, t, rows) ==
  LET planned == PlannedDays(row, t)
      scope   == {d \in DOMAIN rows : ~IsRecurring(row) \/ d >= WindowFrom(t)}
  IN [insert |-> planned \ scope, keep |-> planned \cap scope,
      delete |-> scope \ planned, length |-> row.length]

\* CalendarEvent: a new event, what an edit makes of one, whether the days it
\* produces may have moved, and the marker of how far they are materialised.
NewEvent(start, length, rule, who) ==
  [status |-> "confirmed", start |-> start, length |-> length, rule |-> rule, who |-> who,
   through |-> Null]
Edited(row, start, length, rule, who) ==
  [row EXCEPT !.start = start, !.length = length, !.rule = rule, !.who = who]
SameTiming(a, b)  == a.start = b.start /\ a.length = b.length
Reschedules(a, b) == ~SameTiming(a, b) \/ a.rule # b.rule
Cancelled(row)    == [row EXCEPT !.status = "cancelled"]
Recorded(row, t)  == [row EXCEPT !.through = ThroughAfter(row, t)]

\* rematerialise: the marker and the difference it describes, for one commit.
Rematerialise(row, t, rows) == [row |-> Recorded(row, t), plan |-> Reconcile(row, t, rows)]

\* Mutant of Apply: the rows are rebuilt, not reconciled.
ApplyRegenerated(plan, rows) ==
  [d \in plan.keep \cup plan.insert |-> [length |-> plan.length, off |-> FALSE]]

\* applyPlan: a row pruned since it was read is not missed, and a row already
\* there is left alone by the insertion (ON CONFLICT DO NOTHING).
Apply(plan, rows) ==
  LET kept == DOMAIN rows \ plan.delete
  IN [d \in kept \cup plan.insert |->
        CASE d \notin kept     -> [length |-> plan.length, off |-> FALSE]
          [] d \in plan.keep   -> [rows[d] EXCEPT !.length = plan.length]
          [] OTHER             -> rows[d]]

\* A cancelled occurrence keeps its row.
Off(rows, d) == [rows EXCEPT ![d].off = TRUE]

Pruned(rows, before) == [d \in {c \in DOMAIN rows : c >= before} |-> rows[d]]

NoRows == [d \in {} |-> 0]

------------------------------------------------------------------------------
Idle == [phase |-> "idle"]

Init ==
  /\ now     = 0
  /\ event   = [e \in Event |-> Absent]
  /\ slot    = [e \in Event |-> NoRows]
  /\ holder  = [e \in Event |-> Nobody]
  /\ request = [p \in Request |-> Idle]
  /\ sweep   = Idle
  /\ hidden  = {}
  /\ served  = 0
  /\ failures = 0

Free(e) == holder[e] = Nobody
Done(p) == request' = [request EXCEPT ![p] = Idle]

\* The clock and the visibility a command works with, resolved before its
\* transaction (resolveVisibility, deps.clock.now).
Arrive(p) ==
  /\ request[p] = Idle /\ served < MaxServed
  /\ request' = [request EXCEPT ![p] = [phase |-> "called", at |-> now, hidden |-> hidden]]
  /\ served' = served + 1
  /\ UNCHANGED <<now, tables, holder, sweep, hidden, failures>>

\* A participant outside the family, an invalid timing or rule, a transaction
\* that timed out or the process dying: nothing is written and the lock goes.
Refuse(p) ==
  /\ request[p] # Idle
  /\ Done(p)
  /\ holder' = [e \in Event |-> IF holder[e] = p THEN Nobody ELSE holder[e]]
  /\ UNCHANGED <<now, tables, sweep, hidden, served, failures>>

\* The row and its occurrences become visible together at the commit.
Save(e, row, rows) ==
  event' = [event EXCEPT ![e] = row] /\ slot' = [slot EXCEPT ![e] = rows]

CreateEvent(p, e, start, length, rule, who) ==
  /\ request[p].phase = "called" /\ event[e] = Absent
  /\ LET made == Rematerialise(NewEvent(start, length, rule, who), request[p].at, NoRows)
     IN Save(e, made.row, Apply(made.plan, NoRows))
  /\ Done(p)
  /\ UNCHANGED <<now, holder, sweep, hidden, served, failures>>

\* The lock is granted and no participant is hidden from the caller; a hidden
\* event is answered like a missing one (Refuse).
Reaches(p, e) ==
  /\ request[p].phase = "called" /\ e \in InUse /\ Free(e)
  /\ event[e].who \cap request[p].hidden = {}

\* updateEvent up to the commit: the rows are read and the difference planned.
PlanUpdate(p, e, start, length, rule, who) ==
  /\ Reaches(p, e)
  /\ LET row  == Edited(event[e], start, length, rule, who)
         made == Rematerialise(row, request[p].at, slot[e])
         Planned(new, plans) == [phase |-> "planned", event |-> e, row |-> new, plan |-> plans]
     IN /\ row # event[e]
        /\ request' = [request EXCEPT ![p] =
             IF Reschedules(event[e], row) THEN Planned(made.row, {made.plan})
                                           ELSE Planned(row, {})]
  /\ holder' = [holder EXCEPT ![e] = p]
  /\ UNCHANGED <<now, tables, sweep, hidden, served, failures>>

CommitUpdate(p) ==
  /\ request[p].phase = "planned"
  /\ LET e == request[p].event
     IN /\ IF request[p].plan = {} THEN Save(e, request[p].row, slot[e])
           ELSE \E plan \in request[p].plan : Save(e, request[p].row, Apply(plan, slot[e]))
        /\ holder' = [holder EXCEPT ![e] = Nobody]
  /\ Done(p)
  /\ UNCHANGED <<now, sweep, hidden, served, failures>>

\* cancelEvent: the occurrences keep their slots.
CancelEvent(p, e) ==
  /\ Reaches(p, e)
  /\ event' = [event EXCEPT ![e] = Cancelled(@)]
  /\ Done(p)
  /\ UNCHANGED <<now, slot, holder, sweep, hidden, served, failures>>

\* cancelOccurrence, found by its id under this event.
CancelOccurrence(p, e, d) ==
  /\ Reaches(p, e) /\ d \in DOMAIN slot[e]
  /\ slot' = [slot EXCEPT ![e] = Off(@, d)]
  /\ Done(p)
  /\ UNCHANGED <<now, event, holder, sweep, hidden, served, failures>>

------------------------------------------------------------------------------
(* The sweep: one transaction for each event that is due, then one to prune. *)

\* Mutant of Due: a series is extended only once it has run out.
DueOnceRunOut(t) ==
  {e \in InUse : /\ IsRecurring(event[e]) /\ event[e].status = "confirmed"
                 /\ event[e].through \in 0 .. t}

\* findEventsDueForMaterialisation, soonest end of the horizon first.
Due(t) ==
  {e \in InUse : /\ IsRecurring(event[e]) /\ event[e].status = "confirmed"
                 /\ event[e].through \in 0 .. WindowTo(t) - 1}

StartSweep ==
  /\ sweep = Idle
  /\ sweep' = [phase |-> "extending", at |-> now,
               due |-> [e \in Due(now) |-> event[e].through]]
  /\ UNCHANGED <<now, tables, holder, request, hidden, served, failures>>

NextDue(e) ==
  /\ sweep.phase = "extending" /\ e \in DOMAIN sweep.due
  /\ \A f \in DOMAIN sweep.due : sweep.due[e] <= sweep.due[f]
DueWithout(e) == [f \in DOMAIN sweep.due \ {e} |-> sweep.due[f]]
Without(e) == [phase |-> "extending", at |-> sweep.at, due |-> DueWithout(e)]
Extension(e, t) ==
  [phase |-> "planned", at |-> sweep.at, due |-> DueWithout(e),
   event |-> e, now |-> t, plan |-> Reconcile(event[e], t, slot[e])]

\* Mutant of PlanExtension: findById in place of lockById.
PlanExtensionUnlocked(e) ==
  /\ NextDue(e)
  /\ \E t \in sweep.at .. now :
       sweep' = IF e \in Due(t) THEN Extension(e, t) ELSE Without(e)
  /\ UNCHANGED <<now, tables, holder, request, hidden, served, failures>>

\* materialiseHorizon up to the commit, or its early returns. Its clock was
\* read before it waited for the lock.
PlanExtension(e) ==
  /\ NextDue(e) /\ Free(e)
  /\ \E t \in sweep.at .. now :
       IF e \in Due(t)
         THEN sweep' = Extension(e, t) /\ holder' = [holder EXCEPT ![e] = Sweep]
         ELSE sweep' = Without(e) /\ UNCHANGED holder
  /\ UNCHANGED <<now, tables, request, hidden, served, failures>>

Resumed == [phase |-> "extending", at |-> sweep.at, due |-> sweep.due]

CommitExtension ==
  /\ sweep.phase = "planned"
  /\ LET e == sweep.event
     IN /\ Save(e, Recorded(event[e], sweep.now),
                Pruned(Apply(sweep.plan, slot[e]), WindowFrom(sweep.now)))
        /\ holder' = [holder EXCEPT ![e] = Nobody]
  /\ sweep' = Resumed
  /\ UNCHANGED <<now, request, hidden, served, failures>>

\* One event fails alone and the pass goes on.
ExtensionFails ==
  /\ failures < MaxFailures /\ failures' = failures + 1
  /\ \/ /\ sweep.phase = "planned" /\ sweep' = Resumed
        /\ holder' = [holder EXCEPT ![sweep.event] = Nobody]
     \/ \E e \in Event : NextDue(e) /\ sweep' = Without(e) /\ UNCHANGED holder
  /\ UNCHANGED <<now, tables, request, hidden, served>>

Old(e, t) == {d \in DOMAIN slot[e] : d < WindowFrom(t)}

\* findFamiliesWithPrunableOccurrences, and pruneRecurringBefore: one statement
\* that waits for no event's lock and sees the rules as they were committed.
FindPrunable ==
  /\ sweep.phase = "extending" /\ sweep.due = NoRows
  /\ sweep' = IF \E e \in InUse : IsRecurring(event[e]) /\ Old(e, sweep.at) # {}
                THEN [phase |-> "pruning", at |-> sweep.at] ELSE Idle
  /\ UNCHANGED <<now, tables, holder, request, hidden, served, failures>>

PruneTrailing ==
  /\ sweep.phase = "pruning"
  /\ \E t \in sweep.at .. now :
       slot' = [e \in Event |-> IF e \in InUse /\ IsRecurring(event[e])
                                  THEN Pruned(slot[e], WindowFrom(t)) ELSE slot[e]]
  /\ sweep' = Idle
  /\ UNCHANGED <<now, event, holder, request, hidden, served, failures>>

------------------------------------------------------------------------------
(* The surroundings. *)

\* The worker dies: its transaction is rolled back and the pass is over.
SweepDies ==
  /\ sweep # Idle
  /\ failures < MaxFailures /\ failures' = failures + 1
  /\ sweep' = Idle
  /\ holder' = [e \in Event |-> IF holder[e] = Sweep THEN Nobody ELSE holder[e]]
  /\ UNCHANGED <<now, tables, request, hidden, served>>

DayPasses ==
  /\ now < MaxDay /\ now' = now + 1
  /\ UNCHANGED <<tables, holder, request, sweep, hidden, served, failures>>

\* A guardianship of the reader's is granted or ends.
GuardianshipChanges(c) ==
  /\ hidden' = IF c \in hidden THEN hidden \ {c} ELSE hidden \cup {c}
  /\ UNCHANGED <<now, tables, holder, request, sweep, served, failures>>

Command(p) ==
  \/ Arrive(p) \/ Refuse(p) \/ CommitUpdate(p)
  \/ \E e \in Event :
       \/ CancelEvent(p, e)
       \/ \E d \in DOMAIN slot[e] : CancelOccurrence(p, e, d)
       \/ \E start \in Start, length \in Length, rule \in Rule \cup {OneOff},
             who \in SUBSET Child :
            \/ CreateEvent(p, e, start, length, rule, who)
            \/ PlanUpdate(p, e, start, length, rule, who)

SweepPasses ==
  \/ StartSweep \/ CommitExtension \/ FindPrunable \/ PruneTrailing
  \/ \E e \in Event : PlanExtension(e)

Next ==
  \/ \E p \in Request : Command(p)
  \/ SweepPasses \/ ExtensionFails \/ SweepDies \/ DayPasses
  \/ \E c \in Child : GuardianshipChanges(c)

\* The scheduler keeps calling the sweep, and a transaction ends in fifteen
\* seconds one way or the other.
Fairness ==
  /\ WF_vars(SweepPasses)
  /\ \A p \in Request : WF_vars(Refuse(p) \/ CommitUpdate(p))

Spec == Init /\ [][Next]_vars /\ Fairness

------------------------------------------------------------------------------
Continues(e) ==
  e \in InUse /\ IsRecurring(event[e]) /\ event[e].status = "confirmed"

\* What is stored of an event and of an occurrence, and what is planned.
EventRows ==
  [status : {"confirmed", "cancelled"}, start : Start, length : Length,
   rule : Rule \cup {OneOff}, who : SUBSET Child, through : {Null} \cup Nat]
SomeOf(keys, rows) == UNION {[S -> rows] : S \in SUBSET keys}
SlotRows == SomeOf(Nat, [length : Length, off : BOOLEAN])
Plans ==
  [insert : SUBSET Nat, keep : SUBSET Nat, delete : SUBSET Nat, length : Length]
Calls    == [phase : {"called"}, at : Nat, hidden : SUBSET Child]
Planning == [phase : {"planned"}, event : Event, row : EventRows, plan : SUBSET Plans]
SweepStates ==
  {Idle} \cup [phase : {"pruning"}, at : Nat]
  \cup [phase : {"extending"}, at : Nat, due : SomeOf(Event, Nat)]
  \cup [phase : {"planned"}, at : Nat, due : SomeOf(Event, Nat),
         event : Event, now : Nat, plan : Plans]

TypeOK ==
  /\ now \in 0..MaxDay /\ served \in 0..MaxServed /\ failures \in 0..MaxFailures
  /\ hidden \subseteq Child
  /\ event \in [Event -> EventRows \cup {Absent}]
  /\ slot \in [Event -> SlotRows]
  /\ \A e \in Event \ InUse : slot[e] = NoRows
  /\ request \in [Request -> {Idle} \cup Calls \cup Planning]
  /\ sweep \in SweepStates
  \* Whoever holds a row's lock is in the middle of a transaction over it.
  /\ holder \in [Event -> {Nobody, Sweep} \cup Request]
  /\ \A p \in Request, e \in Event :
       holder[e] = p <=> request[p].phase = "planned" /\ request[p].event = e
  /\ \A e \in Event : holder[e] = Sweep <=> sweep.phase = "planned" /\ sweep.event = e

\* SC-005, behind the trailing edge left to pruning: an event's rows are
\* exactly the days its present rule produces as far as it says it is
\* materialised, at its present length, whoever wrote them last and with
\* whatever idea of the time (rematerialise, materialised_through).
OccurrencesFollowTheRule ==
  \A e \in InUse :
    LET end      == IF event[e].through = Null THEN now + Horizon ELSE event[e].through
        current  == {d \in DOMAIN slot[e] : d >= WindowFrom(now)}
    IN /\ current = {d \in ProducedBefore(event[e], end) : d >= WindowFrom(now)}
       /\ \A d \in current : slot[e][d].length = event[e].length

\* FR-022: an occurrence that was cancelled stays so, through edits, sweeps and
\* their overlaps, while the rule keeps its day and the window of the writer
\* that had the last word reaches it (reconcile).
CancellationSurvives ==
  [][\A e \in InUse : \A d \in DOMAIN slot[e] : slot[e][d].off =>
       \/ d \in DOMAIN slot'[e] /\ slot'[e][d].off
       \/ d < WindowFrom(now)
       \/ d \notin ProducedBefore(event'[e], IF event'[e].through = Null
                                               THEN now + Horizon ELSE event'[e].through)]_vars

\* FR-024: once no more days pass, every continuing series reaches the horizon,
\* and no series keeps a row behind the trailing edge.
HorizonCatchesUp ==
  <>[](\A e \in InUse :
         /\ Continues(e) => event[e].through = Null \/ event[e].through >= WindowTo(now)
         /\ IsRecurring(event[e]) => Old(e, now) = {})

==============================================================================
