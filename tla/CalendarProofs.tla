---------------------------- MODULE CalendarProofs ----------------------------
(***************************************************************************)
(* Proofs about Calendar, for every set of events, every window and every  *)
(* number of overlapping requests: types and locks, occurrences that are   *)
(* those of the present rule, and cancelled occurrences that stay so.      *)
(***************************************************************************)
EXTENDS TLAPS, Calendar

\* The rows of an event are those of its rule, behind the trailing edge left
\* to pruning; OccurrencesFollowTheRule says it of every event.
End(row, today) == IF row.through = Null THEN today + Horizon ELSE row.through
Follows(row, rows, today) ==
  LET current == {d \in DOMAIN rows : d >= WindowFrom(today)} IN
  /\ current = {d \in ProducedBefore(row, End(row, today)) : d >= WindowFrom(today)}
  /\ \A d \in current : rows[d].length = row.length

\* A series without a marker has its last occurrence inside the window.
Last(row) == row.start + (row.rule.count - 1) * row.rule.every
RunOut(row, today) ==
  /\ ~IsRecurring(row) => row.through = Null
  /\ IsRecurring(row) /\ row.through = Null =>
       row.rule.count > 0 /\ Last(row) < WindowTo(today)

\* A plan that was made at t for a row says of every stored occurrence that
\* pruning does not take whether it stays, and misses none.
Fits(plan, row, t, rows, today) ==
  /\ t \in 0..today
  /\ plan.length = row.length
  /\ plan.insert \cup plan.keep = PlannedDays(row, t)
  /\ plan.insert \cap plan.keep = {}
  /\ plan.delete \cap PlannedDays(row, t) = {}
  /\ \A d \in DOMAIN rows : d >= WindowFrom(today) => d \in plan.keep \cup plan.delete
  /\ \A d \in plan.keep : d >= WindowFrom(today) => d \in DOMAIN rows

\* An edit that moves no occurrence.
SameSeries(a, b) ==
  a.start = b.start /\ a.length = b.length /\ a.rule = b.rule /\ a.through = b.through

\* What a request or the sweep has decided under a row's lock is still so.
RequestFine(r, events, slots, today) ==
  /\ r.phase = "called" => r.at <= today
  /\ r.phase = "planned" =>
       /\ events[r.event] # Absent
       /\ r.plan = {} => SameSeries(r.row, events[r.event])
       /\ \A plan \in r.plan : \E t \in 0..today :
            /\ r.row.through = ThroughAfter(r.row, t)
            /\ Fits(plan, r.row, t, slots[r.event], today)
SweepFine(s, events, slots, today) ==
  s.phase = "planned" =>
    /\ events[s.event] # Absent
    /\ Fits(s.plan, events[s.event], s.now, slots[s.event], today)

RowFine(row, rows, today) == row # Absent => Follows(row, rows, today) /\ RunOut(row, today)

IInv ==
  /\ TypeOK
  /\ \A e \in Event : RowFine(event[e], slot[e], now)
  /\ \A p \in Request : RequestFine(request[p], event, slot, now)
  /\ SweepFine(sweep, event, slot, now)

\* The parts of TypeOK: the surroundings, the tables, who does what, and locks.
RequestStates == {Idle} \cup Calls \cup Planning
WorldTypes ==
  /\ now \in 0..MaxDay /\ served \in 0..MaxServed /\ failures \in 0..MaxFailures
  /\ hidden \subseteq Child
TableTypes ==
  /\ event \in [Event -> EventRows \cup {Absent}]
  /\ slot \in [Event -> SlotRows]
  /\ \A e \in Event : event[e] = Absent => slot[e] = NoRows
WorkTypes == request \in [Request -> RequestStates] /\ sweep \in SweepStates
LockTypes ==
  /\ holder \in [Event -> {Nobody, Sweep} \cup Request]
  /\ \A p \in Request, e \in Event :
       holder[e] = p <=> request[p].phase = "planned" /\ request[p].event = e
  /\ \A e \in Event : holder[e] = Sweep <=> sweep.phase = "planned" /\ sweep.event = e

\* The step leaves of an event's rows all that pruning does not take.
Quiet(e) ==
  /\ event'[e] = event[e]
  /\ \A d \in Nat : d >= WindowFrom(now') =>
       /\ d \in DOMAIN slot'[e] <=> d \in DOMAIN slot[e]
       /\ d \in DOMAIN slot'[e] => slot'[e][d].length = slot[e][d].length

------------------------------------------------------------------------------
(* Rules, windows and plans. *)

LEMMA RowFacts ==
  ASSUME NEW row \in EventRows
  PROVE  /\ row.start \in Nat /\ row.length \in Length
         /\ row.through \in {Null} \cup Nat
         /\ row.who \subseteq Child
         /\ row.rule.every \in Nat /\ row.rule.count \in Nat
         /\ IsRecurring(row) => row.rule.every > 0
<1>1. /\ row.start \in Start /\ row.length \in Length /\ row.rule \in Rule \cup {OneOff}
      /\ row.through \in {Null} \cup Nat /\ row.who \in SUBSET Child
  BY DEF EventRows
<1>2. row.rule # OneOff => row.rule \in [every : Nat \ {0}, count : Nat]
  BY <1>1, InputAssumption
<1>3. OneOff.every = 0 /\ OneOff.count = 1
  BY DEF OneOff
<1>4. row.rule.every \in Nat /\ row.rule.count \in Nat
  BY <1>2, <1>3
<1>5. row.rule # OneOff => row.rule.every > 0
  BY <1>2
<1> QED
  BY <1>1, <1>4, <1>5, InputAssumption DEF IsRecurring

LEMMA RowApart == Absent \notin EventRows
  BY DEF Absent, EventRows

\* An occurrence counted from the start is at most the last one.
LEMMA Multiples ==
  ASSUME NEW m \in Nat, NEW every \in Nat \ {0}, NEW count \in Nat,
         m % every = 0, m \div every < count
  PROVE  m <= (count - 1) * every
<1> DEFINE q == m \div every
<1>1. q \in Nat /\ m = every * q
  OBVIOUS
<1>2. q <= count - 1
  BY <1>1
<1> HIDE DEF q
<1>3. every * q <= every * (count - 1)
  BY <1>1, <1>2
<1> QED
  BY <1>1, <1>3

\* A rule that is over produces nothing more, however far one looks.
LEMMA OverIsOver ==
  ASSUME NEW row \in EventRows, NEW end \in Int, NEW later \in Int, end <= later,
         IsRecurring(row) => row.rule.count > 0 /\ Last(row) < end
  PROVE  ProducedBefore(row, later) = ProducedBefore(row, end)
<1>1. CASE ~IsRecurring(row)
  BY <1>1 DEF ProducedBefore
<1>2. CASE IsRecurring(row)
  <2> DEFINE start == row.start
             every == row.rule.every
             count == row.rule.count
             Of(d) == (d - start) % every = 0
             Within(d) == count = 0 \/ (d - start) \div every < count
  <2>1. /\ start \in Nat /\ every \in Nat \ {0} /\ count \in Nat
        /\ count > 0 /\ Last(row) < end /\ Last(row) = start + (count - 1) * every
    BY <1>2, RowFacts DEF Last
  <2>2. \A e \in Int : ProducedBefore(row, e) = {d \in start .. e - 1 : Of(d) /\ Within(d)}
    BY <1>2 DEF ProducedBefore
  <2>3. ASSUME NEW d \in start .. later - 1, Of(d), Within(d) PROVE d < end
    <3>1. d - start \in Nat
      BY <2>1
    <3> DEFINE m == d - start
    <3>4. m % every = 0 /\ m \div every < count
      BY <2>1, <2>3
    <3>5. m \in Nat /\ every \in Nat \ {0} /\ count \in Nat
      BY <2>1, <3>1
    <3> HIDE DEF m, every, count
    <3>6. m <= (count - 1) * every
      BY <3>4, <3>5, Multiples
    <3> USE DEF m, every, count
    <3>2. d - start <= (count - 1) * every
      BY <3>6
    <3> DEFINE n == (count - 1) * every
    <3>3. n \in Int
      BY <2>1
    <3> HIDE DEF n, start, every, count
    <3> QED
      BY <2>1, <3>2, <3>3 DEF n
  <2> HIDE DEF Of, Within, start
  <2>4. /\ ProducedBefore(row, later) = {d \in start .. later - 1 : Of(d) /\ Within(d)}
        /\ ProducedBefore(row, end) = {d \in start .. end - 1 : Of(d) /\ Within(d)}
    BY <2>2
  <2>5. start \in Int
    BY <2>1
  <2>6. ASSUME NEW d
        PROVE  d \in start .. later - 1 /\ Of(d) /\ Within(d)
                 <=> d \in start .. end - 1 /\ Of(d) /\ Within(d)
    BY <2>3, <2>5
  <2> QED
    BY <2>4, <2>6
<1> QED
  BY <1>1, <1>2


LEMMA ProducedDays ==
  ASSUME NEW row \in EventRows, NEW end \in Int
  PROVE  ProducedBefore(row, end) \subseteq Nat
<1>1. row.start \in Nat
  BY RowFacts
<1>2. CASE ~IsRecurring(row)
  BY <1>1, <1>2 DEF ProducedBefore
<1>3. CASE IsRecurring(row)
  <2>1. ProducedBefore(row, end) \subseteq row.start .. end - 1
    BY <1>3 DEF ProducedBefore
  <2> QED
    BY <1>1, <2>1
<1> QED
  BY <1>2, <1>3

\* How far a row says it is materialised agrees with what was planned for it.
LEMMA PlanReaches ==
  ASSUME NEW row \in EventRows, NEW t \in Nat, NEW today \in Nat, t <= today,
         row.through = ThroughAfter(row, t)
  PROVE  /\ RunOut(row, today)
         /\ \A d : d >= WindowFrom(today) =>
              (d \in ProducedBefore(row, End(row, today)) <=> d \in PlannedDays(row, t))
<1>1. /\ WindowTo(t) \in Nat /\ WindowTo(t) <= WindowTo(today) /\ WindowTo(today) \in Nat
      /\ WindowFrom(t) \in Int /\ WindowFrom(today) \in Int
      /\ WindowFrom(t) <= WindowFrom(today)
      /\ Null \notin Nat
  BY WindowAssumption DEF WindowTo, WindowFrom, Null
<1>2. CASE ~IsRecurring(row)
  <2>1. row.through = Null
    BY <1>2 DEF ThroughAfter
  <2>2. RunOut(row, today)
    BY <1>2, <2>1 DEF RunOut
  <2> QED
    BY <1>2, <2>2 DEF ProducedBefore, PlannedDays
<1>3. CASE IsRecurring(row) /\ Exhausted(row, WindowTo(t))
  <2>1. row.through = Null /\ End(row, today) = WindowTo(today)
    BY <1>3 DEF ThroughAfter, End, WindowTo
  <2>2. row.rule.count > 0 /\ Last(row) < WindowTo(t)
    BY <1>3 DEF Exhausted, Last
  <2>3. ProducedBefore(row, WindowTo(today)) = ProducedBefore(row, WindowTo(t))
    BY <1>1, <2>2, OverIsOver
  <2>4. Last(row) \in Int
    BY RowFacts DEF Last
  <2>5. RunOut(row, today)
    BY <1>1, <1>3, <2>2, <2>4 DEF RunOut
  <2>6. PlannedDays(row, t) = {d \in ProducedBefore(row, WindowTo(t)) : d >= WindowFrom(t)}
    BY <1>3 DEF PlannedDays
  <2>7. ProducedBefore(row, WindowTo(t)) \subseteq Nat
    BY <1>1, ProducedDays
  <2> QED
    BY <1>1, <2>1, <2>3, <2>5, <2>6, <2>7
<1>4. CASE IsRecurring(row) /\ ~Exhausted(row, WindowTo(t))
  <2>1. row.through = WindowTo(t) /\ row.through # Null
    BY <1>1, <1>4 DEF ThroughAfter
  <2>2. End(row, today) = WindowTo(t)
    BY <2>1 DEF End
  <2>3. RunOut(row, today)
    BY <1>4, <2>1 DEF RunOut
  <2>4. PlannedDays(row, t) = {d \in ProducedBefore(row, WindowTo(t)) : d >= WindowFrom(t)}
    BY <1>4 DEF PlannedDays
  <2>5. ProducedBefore(row, WindowTo(t)) \subseteq Nat
    BY <1>1, ProducedDays
  <2> QED
    BY <1>1, <2>2, <2>3, <2>4, <2>5
<1> QED
  BY <1>2, <1>3, <1>4


LEMMA PartialFacts ==
  ASSUME NEW S, NEW R, NEW f \in SomeOf(S, R)
  PROVE  DOMAIN f \subseteq S /\ f \in [DOMAIN f -> R]
  BY DEF SomeOf

LEMMA PartialType ==
  ASSUME NEW S, NEW R, NEW T \in SUBSET S, NEW f \in [T -> R]
  PROVE  f \in SomeOf(S, R)
  BY DEF SomeOf

LEMMA SlotFacts ==
  ASSUME NEW rows \in SlotRows
  PROVE  /\ DOMAIN rows \subseteq Nat
         /\ \A d \in DOMAIN rows : /\ rows[d] \in [length : Length, off : BOOLEAN]
                                   /\ rows[d].length \in Length /\ rows[d].off \in BOOLEAN
<1>1. DOMAIN rows \subseteq Nat /\ rows \in [DOMAIN rows -> [length : Length, off : BOOLEAN]]
  BY PartialFacts DEF SlotRows
<1> QED
  BY <1>1

LEMMA SlotType ==
  ASSUME NEW D \in SUBSET Nat, NEW f, f = [d \in D |-> f[d]],
         \A d \in D : f[d] \in [length : Length, off : BOOLEAN]
  PROVE  f \in SlotRows
<1>1. f \in [D -> [length : Length, off : BOOLEAN]]
  OBVIOUS
<1> QED
  BY <1>1, PartialType DEF SlotRows

LEMMA NoRowsType == NoRows \in SlotRows /\ DOMAIN NoRows = {}
<1>1. NoRows \in [{} -> [length : Length, off : BOOLEAN]] /\ DOMAIN NoRows = {}
  BY DEF NoRows
<1> QED
  BY <1>1, PartialType DEF SlotRows

LEMMA PlannedNat ==
  ASSUME NEW row \in EventRows, NEW t \in Nat
  PROVE  PlannedDays(row, t) \in SUBSET Nat
<1>1. row.start \in Nat /\ WindowTo(t) \in Int
  BY RowFacts, WindowAssumption DEF WindowTo
<1> QED
  BY <1>1, ProducedDays DEF PlannedDays

\* The difference between a plan and the rows it was made from.
LEMMA ReconcileFits ==
  ASSUME NEW row \in EventRows, NEW t \in Nat, NEW today \in Nat, t <= today,
         NEW rows \in SlotRows
  PROVE  /\ Reconcile(row, t, rows) \in Plans
         /\ Fits(Reconcile(row, t, rows), row, t, rows, today)
<1> DEFINE planned == PlannedDays(row, t)
           scope   == {d \in DOMAIN rows : ~IsRecurring(row) \/ d >= WindowFrom(t)}
           plan    == Reconcile(row, t, rows)
<1>1. plan = [insert |-> planned \ scope, keep |-> planned \cap scope,
              delete |-> scope \ planned, length |-> row.length]
  BY DEF Reconcile
<1>2. planned \in SUBSET Nat /\ scope \in SUBSET Nat
  BY PlannedNat, SlotFacts
<1>3. row.length \in Length
  BY RowFacts
<1>4. /\ WindowFrom(t) \in Int /\ WindowFrom(today) \in Int
      /\ WindowFrom(t) <= WindowFrom(today)
  BY WindowAssumption DEF WindowFrom
<1>5. \A d \in DOMAIN rows : d >= WindowFrom(today) => d \in scope
  BY <1>4, SlotFacts
<1>6. scope \subseteq DOMAIN rows
  OBVIOUS
<1> HIDE DEF planned, scope, plan
<1>7. /\ plan.insert = planned \ scope /\ plan.keep = planned \cap scope
      /\ plan.delete = scope \ planned /\ plan.length = row.length
  BY <1>1
<1>8. plan \in Plans
  BY <1>1, <1>2, <1>3 DEF Plans
<1>9. Fits(plan, row, t, rows, today)
  BY <1>5, <1>6, <1>7 DEF Fits, planned
<1> QED
  BY <1>8, <1>9 DEF plan

\* A plan fits as long as its rows lose nothing but what pruning takes.
LEMMA FitsStays ==
  ASSUME NEW plan \in Plans, NEW row, NEW t, NEW rows \in SlotRows, NEW after \in SlotRows,
         NEW today \in Nat, NEW later \in Nat, today <= later,
         Fits(plan, row, t, rows, today),
         \A d \in Nat : d >= WindowFrom(later) => (d \in DOMAIN after <=> d \in DOMAIN rows)
  PROVE  Fits(plan, row, t, after, later)
<1>1. /\ WindowFrom(today) \in Int /\ WindowFrom(later) \in Int
      /\ WindowFrom(today) <= WindowFrom(later)
  BY WindowAssumption DEF WindowFrom
<1>2. plan.keep \in SUBSET Nat /\ DOMAIN rows \subseteq Nat /\ DOMAIN after \subseteq Nat
  BY SlotFacts DEF Plans
<1>3. t \in 0..later
  BY DEF Fits
<1>4. \A d \in DOMAIN after : d >= WindowFrom(later) => d \in plan.keep \cup plan.delete
  BY <1>1, <1>2 DEF Fits
<1>5. \A d \in plan.keep : d >= WindowFrom(later) => d \in DOMAIN after
  BY <1>1, <1>2 DEF Fits
<1> QED
  BY <1>3, <1>4, <1>5 DEF Fits


\* The rows of an event go on following its rule as time passes and pruning
\* takes its part.
LEMMA FollowsStays ==
  ASSUME NEW row \in EventRows, NEW rows \in SlotRows, NEW after \in SlotRows,
         NEW today \in Nat, NEW later \in Nat, today <= later,
         Follows(row, rows, today), RunOut(row, today),
         \A d \in Nat : d >= WindowFrom(later) =>
           /\ d \in DOMAIN after <=> d \in DOMAIN rows
           /\ d \in DOMAIN after => after[d].length = rows[d].length
  PROVE  Follows(row, after, later) /\ RunOut(row, later)
<1>1. /\ WindowFrom(today) \in Int /\ WindowFrom(later) \in Int
      /\ WindowFrom(today) <= WindowFrom(later)
      /\ WindowTo(today) \in Nat /\ WindowTo(later) \in Nat
      /\ WindowTo(today) <= WindowTo(later)
      /\ WindowTo(today) = today + Horizon /\ WindowTo(later) = later + Horizon
  BY WindowAssumption DEF WindowFrom, WindowTo
<1>2. Last(row) \in Int
  BY RowFacts DEF Last
<1>3. RunOut(row, later)
  BY <1>1, <1>2 DEF RunOut
<1>4. ProducedBefore(row, End(row, later)) = ProducedBefore(row, End(row, today))
  <2>1. CASE row.through = Null
    <3>1. IsRecurring(row) => row.rule.count > 0 /\ Last(row) < WindowTo(today)
      BY <2>1 DEF RunOut
    <3>2. ProducedBefore(row, WindowTo(later)) = ProducedBefore(row, WindowTo(today))
      BY <1>1, <3>1, OverIsOver
    <3> QED
      BY <1>1, <2>1, <3>2 DEF End
  <2>2. CASE row.through # Null
    BY <2>2 DEF End
  <2> QED
    BY <2>1, <2>2
<1> DEFINE days == ProducedBefore(row, End(row, today))
<1>5. DOMAIN rows \subseteq Nat /\ DOMAIN after \subseteq Nat
  BY SlotFacts
<1>6. days \subseteq Nat
  <2>1. End(row, today) \in Int
    BY <1>1, RowFacts DEF End, Null
  <2> QED
    BY <2>1, ProducedDays
<1> HIDE DEF days
<1>7. /\ {d \in DOMAIN rows : d >= WindowFrom(today)} = {d \in days : d >= WindowFrom(today)}
      /\ \A d \in DOMAIN rows : d >= WindowFrom(today) => rows[d].length = row.length
  BY DEF Follows, days
<1>9. \A d \in Nat : d >= WindowFrom(later) => d >= WindowFrom(today)
  BY <1>1
<1>10. \A d \in Nat : d >= WindowFrom(later) => (d \in DOMAIN after <=> d \in days)
  BY <1>7, <1>9
<1>8. /\ {d \in DOMAIN after : d >= WindowFrom(later)} = {d \in days : d >= WindowFrom(later)}
      /\ \A d \in DOMAIN after : d >= WindowFrom(later) => after[d].length = row.length
  <2>1. {d \in DOMAIN after : d >= WindowFrom(later)} = {d \in days : d >= WindowFrom(later)}
    BY <1>5, <1>6, <1>10
  <2>2. ASSUME NEW d \in DOMAIN after, d >= WindowFrom(later)
        PROVE  after[d].length = row.length
    BY <1>5, <1>7, <1>9, <2>2
  <2> QED
    BY <2>1, <2>2
<1> QED
  BY <1>3, <1>4, <1>8 DEF Follows, days

\* What a commit makes of the rows by a plan that fits.
Survives(row, rows, after, today) ==
  \A d \in DOMAIN rows : rows[d].off =>
    \/ d \in DOMAIN after /\ after[d].off
    \/ d < WindowFrom(today)
    \/ d \notin ProducedBefore(row, End(row, today))

LEMMA ApplyFacts ==
  ASSUME NEW plan \in Plans, NEW rows \in SlotRows, plan.insert \cap plan.keep = {}
  PROVE  /\ Apply(plan, rows) \in SlotRows
         /\ DOMAIN Apply(plan, rows) = (DOMAIN rows \ plan.delete) \cup plan.insert
         /\ \A d \in DOMAIN Apply(plan, rows) :
              LET slotted == Apply(plan, rows)[d] IN
              /\ d \in plan.keep \/ d \notin DOMAIN rows \ plan.delete =>
                   slotted.length = plan.length
              /\ d \in DOMAIN rows \ plan.delete => slotted.off = rows[d].off
<1> DEFINE kept  == DOMAIN rows \ plan.delete
           all   == kept \cup plan.insert
           fresh == [length |-> plan.length, off |-> FALSE]
           Of(d) == CASE d \notin kept     -> fresh
                      [] d \in plan.keep   -> [rows[d] EXCEPT !.length = plan.length]
                      [] OTHER             -> rows[d]
           after == Apply(plan, rows)
<1> HIDE DEF kept, all
<1>1. after = [d \in all |-> Of(d)]
  BY DEF Apply, kept, all
<1>2. /\ plan.length \in Length /\ plan.insert \in SUBSET Nat
      /\ DOMAIN rows \subseteq Nat
  BY SlotFacts DEF Plans
<1>3. \A d \in DOMAIN rows : /\ rows[d] \in [length : Length, off : BOOLEAN]
                             /\ rows[d].length \in Length /\ rows[d].off \in BOOLEAN
  BY SlotFacts
<1>4. all \in SUBSET Nat
  BY <1>2 DEF all, kept
<1>5. ASSUME NEW d \in all
      PROVE  /\ Of(d) \in [length : Length, off : BOOLEAN]
             /\ d \in plan.keep \/ d \notin kept => Of(d).length = plan.length
             /\ d \in kept => Of(d).off = rows[d].off
  <2>1. CASE d \notin kept
    <3>1. fresh \in [length : Length, off : BOOLEAN] /\ fresh.length = plan.length
      BY <1>2
    <3> HIDE DEF fresh
    <3>3. d \notin plan.keep
      BY <2>1 DEF all
    <3>2. Of(d) = fresh
      BY <2>1, <3>3
    <3> HIDE DEF Of
    <3> QED
      BY <2>1, <3>1, <3>2
  <2>2. CASE d \in kept /\ d \in plan.keep
    <3> DEFINE old == rows[d]
    <3>1. old \in [length : Length, off : BOOLEAN]
      BY <1>3, <2>2 DEF kept
    <3>2. Of(d) = [old EXCEPT !.length = plan.length]
      BY <2>2
    <3> HIDE DEF old, Of
    <3>3. [old EXCEPT !.length = plan.length] \in [length : Length, off : BOOLEAN]
      BY <1>2, <3>1
    <3>4. /\ [old EXCEPT !.length = plan.length].length = plan.length
          /\ [old EXCEPT !.length = plan.length].off = old.off
      BY <3>1
    <3> QED
      BY <2>2, <3>2, <3>3, <3>4 DEF old
  <2>3. CASE d \in kept /\ d \notin plan.keep
    <3>1. Of(d) = rows[d]
      BY <2>3
    <3> QED
      BY <1>3, <2>3, <3>1 DEF kept
  <2> QED
    BY <2>1, <2>2, <2>3
<1> HIDE DEF Of, after
<1>6. DOMAIN after = all /\ \A d \in all : after[d] = Of(d)
  BY <1>1
<1>7. after \in SlotRows
  <2>1. after = [d \in all |-> after[d]]
    BY <1>1, <1>6
  <2> QED
    BY <1>4, <1>5, <1>6, <2>1, SlotType
<1>8. \A d \in all : /\ d \in plan.keep \/ d \notin kept => after[d].length = plan.length
                     /\ d \in kept => after[d].off = rows[d].off
  BY <1>5, <1>6
<1> QED
  BY <1>6, <1>7, <1>8 DEF after, all, kept


LEMMA ApplyFits ==
  ASSUME NEW row \in EventRows, NEW rows \in SlotRows, NEW plan \in Plans,
         NEW t \in Nat, NEW today \in Nat,
         row.through = ThroughAfter(row, t), Fits(plan, row, t, rows, today)
  PROVE  /\ Apply(plan, rows) \in SlotRows
         /\ Follows(row, Apply(plan, rows), today) /\ RunOut(row, today)
         /\ Survives(row, rows, Apply(plan, rows), today)
<1> DEFINE after == Apply(plan, rows)
           days  == ProducedBefore(row, End(row, today))
           from  == WindowFrom(today)
<1>1. /\ t <= today /\ plan.length = row.length
      /\ plan.insert \cup plan.keep = PlannedDays(row, t)
      /\ plan.insert \cap plan.keep = {}
      /\ plan.delete \cap PlannedDays(row, t) = {}
      /\ \A d \in DOMAIN rows : d >= from => d \in plan.keep \cup plan.delete
      /\ \A d \in plan.keep : d >= from => d \in DOMAIN rows
  BY DEF Fits
<1>2. /\ RunOut(row, today)
      /\ \A d : d >= from => (d \in days <=> d \in PlannedDays(row, t))
  BY <1>1, PlanReaches
<1>3. /\ after \in SlotRows
      /\ DOMAIN after = (DOMAIN rows \ plan.delete) \cup plan.insert
      /\ \A d \in DOMAIN after :
           /\ d \in plan.keep \/ d \notin DOMAIN rows \ plan.delete =>
                after[d].length = plan.length
           /\ d \in DOMAIN rows \ plan.delete => after[d].off = rows[d].off
  BY <1>1, ApplyFacts
<1> HIDE DEF after, days, from
<1>4. \A d : d >= from => (d \in DOMAIN after <=> d \in days)
  BY <1>1, <1>2, <1>3
<1>5. {d \in DOMAIN after : d >= from} = {d \in days : d >= from}
  BY <1>4
<1>6. ASSUME NEW d \in DOMAIN after, d >= from PROVE after[d].length = row.length
  BY <1>1, <1>3, <1>6
<1>7. Follows(row, after, today)
  BY <1>5, <1>6 DEF Follows, days, from
<1>8. Survives(row, rows, after, today)
  <2> SUFFICES ASSUME NEW d \in DOMAIN rows, rows[d].off,
                      ~(d < from), d \in days
               PROVE  d \in DOMAIN after /\ after[d].off
    BY DEF Survives, days, from
  <2>1. d >= from
    BY SlotFacts, WindowAssumption DEF from, WindowFrom
  <2>2. d \in DOMAIN after /\ d \notin plan.delete
    BY <1>1, <1>2, <1>4, <2>1
  <2> QED
    BY <1>3, <2>2
<1> QED
  BY <1>2, <1>3, <1>7, <1>8 DEF after


------------------------------------------------------------------------------
(* States and steps. *)

LEMMA TypeSplit == TypeOK <=> WorldTypes /\ TableTypes /\ WorkTypes /\ LockTypes
  BY DEF TypeOK, WorldTypes, TableTypes, WorkTypes, LockTypes, InUse, RequestStates

LEMMA TypeJoin ==
  ASSUME WorldTypes', TableTypes', WorkTypes', LockTypes'
  PROVE  TypeOK'
  BY DEF TypeOK, WorldTypes, TableTypes, WorkTypes, LockTypes, InUse, RequestStates

LEMMA Phases ==
  /\ Idle.phase = "idle"
  /\ \A r \in Calls : r.phase = "called" /\ r.at \in Nat /\ r.hidden \subseteq Child
  /\ \A r \in Planning : /\ r.phase = "planned" /\ r.event \in Event
                         /\ r.row \in EventRows /\ r.plan \subseteq Plans
  /\ Nobody \notin Request /\ Sweep \notin Request /\ Nobody # Sweep
  BY RequestAssumption DEF Idle, Calls, Planning, Nobody, Sweep

LEMMA SweepPhases ==
  ASSUME NEW s \in SweepStates
  PROVE  /\ s.phase \in {"idle", "pruning", "extending", "planned"}
         /\ s.phase # "idle" => s.at \in Nat
         /\ s.phase \in {"extending", "planned"} => s.due \in SomeOf(Event, Nat)
         /\ s.phase = "planned" => s.event \in Event /\ s.now \in Nat /\ s.plan \in Plans
  BY DEF SweepStates, Idle

LEMMA Facts ==
  ASSUME TypeOK
  PROVE  /\ now \in Nat /\ \A e \in Event : slot[e] \in SlotRows
         /\ \A e \in Event : event[e] # Absent => event[e] \in EventRows
         /\ \A e \in Event : e \in InUse <=> event[e] # Absent
         /\ \A p \in Request : request[p] \in RequestStates
         /\ WindowFrom(now) \in Int
  BY WindowAssumption DEF TypeOK, InUse, RequestStates, WindowFrom

LEMMA SeriesFollow ==
  ASSUME NEW row, NEW new, SameSeries(new, row), NEW rows, NEW today,
         Follows(row, rows, today), RunOut(row, today)
  PROVE  Follows(new, rows, today) /\ RunOut(new, today)
<1>1. /\ IsRecurring(new) = IsRecurring(row) /\ Last(new) = Last(row)
      /\ End(new, today) = End(row, today)
  BY DEF SameSeries, IsRecurring, Last, End
<1>2. \A end : ProducedBefore(new, end) = ProducedBefore(row, end)
  BY <1>1 DEF ProducedBefore, SameSeries
<1> QED
  BY <1>1, <1>2 DEF Follows, RunOut, SameSeries

LEMMA RequestStays ==
  ASSUME TypeOK, TypeOK', now <= now', NEW r \in RequestStates,
         RequestFine(r, event, slot, now), r.phase = "planned" => Quiet(r.event)
  PROVE  RequestFine(r, event', slot', now')
<1>1. now \in Nat /\ now' \in Nat
  BY BoundAssumption DEF TypeOK
<1>2. CASE r = Idle
  BY <1>2, Phases DEF RequestFine
<1>3. CASE r \in Calls
  BY <1>1, <1>3, Phases DEF RequestFine
<1>4. CASE r \in Planning
  <2> DEFINE e == r.event
  <2>1. /\ e \in Event /\ r.plan \subseteq Plans /\ r.phase = "planned" /\ Quiet(e)
    BY <1>4, Phases
  <2>2. slot[e] \in SlotRows /\ slot'[e] \in SlotRows
    BY <2>1 DEF TypeOK
  <2>3. /\ event[e] # Absent /\ (r.plan = {} => SameSeries(r.row, event[e]))
        /\ \A plan \in r.plan : \E t \in 0..now :
             r.row.through = ThroughAfter(r.row, t) /\ Fits(plan, r.row, t, slot[e], now)
    BY <2>1 DEF RequestFine
  <2>4. ASSUME NEW plan \in r.plan, NEW t \in 0..now, Fits(plan, r.row, t, slot[e], now)
        PROVE  t \in 0..now' /\ Fits(plan, r.row, t, slot'[e], now')
    <3> DEFINE before == slot[e]
               after  == slot'[e]
    <3>1. \A d \in Nat : d >= WindowFrom(now') => (d \in DOMAIN after <=> d \in DOMAIN before)
      BY <2>1 DEF Quiet
    <3>2. plan \in Plans /\ before \in SlotRows /\ after \in SlotRows
      BY <2>1, <2>2
    <3>3. Fits(plan, r.row, t, before, now)
      BY <2>4
    <3> DEFINE later == now'
    <3>4. later \in Nat /\ now <= later
      BY <1>1
    <3> HIDE DEF before, after, later
    <3>5. Fits(plan, r.row, t, after, later)
      BY <1>1, <3>1, <3>2, <3>3, <3>4, FitsStays DEF later
    <3> QED
      BY <1>1, <3>5 DEF after, later
  <2>5. \A plan \in r.plan : \E t \in 0..now' :
          r.row.through = ThroughAfter(r.row, t) /\ Fits(plan, r.row, t, slot'[e], now')
    BY <2>3, <2>4
  <2>6. event'[e] # Absent /\ (r.plan = {} => SameSeries(r.row, event'[e]))
    BY <2>1, <2>3 DEF Quiet
  <2> QED
    BY <2>1, <2>5, <2>6 DEF RequestFine
<1> QED
  BY <1>2, <1>3, <1>4 DEF RequestStates

LEMMA SweepStays ==
  ASSUME TypeOK, TypeOK', now <= now', NEW s \in SweepStates,
         SweepFine(s, event, slot, now), s.phase = "planned" => Quiet(s.event)
  PROVE  SweepFine(s, event', slot', now')
<1> SUFFICES ASSUME s.phase = "planned" PROVE SweepFine(s, event', slot', now')
  BY DEF SweepFine
<1>1. now \in Nat /\ now' \in Nat
  BY BoundAssumption DEF TypeOK
<1> DEFINE e      == s.event
           before == slot[e]
           after  == slot'[e]
           later  == now'
<1>2. e \in Event /\ s.plan \in Plans /\ Quiet(e)
  BY SweepPhases
<1>3. before \in SlotRows /\ after \in SlotRows
  BY <1>2 DEF TypeOK
<1>4. event[e] # Absent /\ Fits(s.plan, event[e], s.now, before, now)
  BY DEF SweepFine
<1>5. /\ event'[e] = event[e]
      /\ \A d \in Nat : d >= WindowFrom(later) => (d \in DOMAIN after <=> d \in DOMAIN before)
  BY <1>2 DEF Quiet
<1>6. later \in Nat /\ now <= later
  BY <1>1
<1> HIDE DEF before, after, later
<1>7. Fits(s.plan, event[e], s.now, after, later)
  BY <1>1, <1>2, <1>3, <1>4, <1>5, <1>6, FitsStays
<1> QED
  BY <1>4, <1>5, <1>7 DEF SweepFine, after, later

LEMMA RowStays ==
  ASSUME TypeOK, TypeOK', now <= now', NEW e \in Event,
         RowFine(event[e], slot[e], now), Quiet(e)
  PROVE  RowFine(event'[e], slot'[e], now')
<1>1. now \in Nat /\ now' \in Nat
  BY BoundAssumption DEF TypeOK
<1> DEFINE before == slot[e]
           after  == slot'[e]
           later  == now'
<1>2. before \in SlotRows /\ after \in SlotRows
  BY DEF TypeOK
<1>3. /\ event'[e] = event[e]
      /\ \A d \in Nat : d >= WindowFrom(later) =>
           /\ d \in DOMAIN after <=> d \in DOMAIN before
           /\ d \in DOMAIN after => after[d].length = before[d].length
  BY DEF Quiet
<1>4. CASE event[e] = Absent
  BY <1>3, <1>4 DEF RowFine
<1>5. CASE event[e] # Absent
  <2>1. /\ event[e] \in EventRows
        /\ Follows(event[e], before, now) /\ RunOut(event[e], now)
    BY <1>5, Facts DEF RowFine
  <2>2. later \in Nat /\ now <= later
    BY <1>1
  <2> HIDE DEF before, after, later
  <2>3. Follows(event[e], after, later) /\ RunOut(event[e], later)
    BY <1>1, <1>2, <1>3, <2>1, <2>2, FollowsStays
  <2> QED
    BY <1>3, <2>3 DEF RowFine, after, later
<1> QED
  BY <1>4, <1>5

\* A step keeps the invariant if every row, request and sweep is left alone or
\* fine after it.
LEMMA Steps ==
  ASSUME IInv, TypeOK', now <= now',
         \A e \in Event : Quiet(e) \/ RowFine(event'[e], slot'[e], now'),
         \A p \in Request :
           \/ /\ request'[p] = request[p]
              /\ request[p].phase = "planned" => Quiet(request[p].event)
           \/ RequestFine(request'[p], event', slot', now'),
         \/ sweep' = sweep /\ (sweep.phase = "planned" => Quiet(sweep.event))
         \/ SweepFine(sweep', event', slot', now')
  PROVE  IInv'
<1>1. \A e \in Event : RowFine(event'[e], slot'[e], now')
  BY RowStays DEF IInv
<1>2. \A p \in Request : RequestFine(request'[p], event', slot', now')
  BY RequestStays, Facts DEF IInv
<1>3. sweep \in SweepStates
  BY DEF IInv, TypeOK
<1>4. SweepFine(sweep', event', slot', now')
  BY <1>3, SweepStays DEF IInv
<1> QED
  BY <1>1, <1>2, <1>4 DEF IInv


\* The same of a step that takes no more than pruning does.
LEMMA QuietSteps ==
  ASSUME IInv, TypeOK', now <= now', \A e \in Event : Quiet(e),
         \A p \in Request : request'[p] = request[p]
                           \/ RequestFine(request'[p], event', slot', now'),
         sweep' = sweep \/ SweepFine(sweep', event', slot', now')
  PROVE  IInv'
<1>1. ASSUME NEW p \in Request, request[p].phase = "planned"
      PROVE  Quiet(request[p].event)
  <2>1. request[p] \in Planning
    BY <1>1, Facts, Phases DEF IInv, RequestStates
  <2> QED
    BY <2>1, Phases
<1>2. sweep.phase = "planned" => Quiet(sweep.event)
  BY SweepPhases DEF IInv, TypeOK
<1>3. \A p \in Request :
        \/ /\ request'[p] = request[p]
           /\ request[p].phase = "planned" => Quiet(request[p].event)
        \/ RequestFine(request'[p], event', slot', now')
  BY <1>1
<1> QED
  BY <1>2, <1>3, Steps

------------------------------------------------------------------------------
(* Steps that leave the tables alone. *)

LEMMA QuietTables ==
  ASSUME UNCHANGED tables
  PROVE  \A e \in Event : Quiet(e)
  BY DEF tables, Quiet

LEMMA TablesKept ==
  ASSUME TableTypes, UNCHANGED tables
  PROVE  TableTypes'
  BY DEF tables, TableTypes

\* One request moves.
LEMMA PutRequest ==
  ASSUME WorkTypes, NEW p \in Request, NEW r \in RequestStates,
         request' = [request EXCEPT ![p] = r]
  PROVE  /\ request' \in [Request -> RequestStates] /\ request'[p] = r
         /\ \A q \in Request \ {p} : request'[q] = request[q]
  BY DEF WorkTypes

\* A request that holds no lock comes or goes.
LEMMA UnlockedRequest ==
  ASSUME LockTypes, WorkTypes, NEW p \in Request, NEW r \in RequestStates,
         request[p].phase # "planned", r.phase # "planned",
         request' = [request EXCEPT ![p] = r], UNCHANGED <<holder, sweep>>
  PROVE  LockTypes' /\ WorkTypes'
<1>1. /\ request' \in [Request -> RequestStates] /\ request'[p] = r
      /\ \A q \in Request \ {p} : request'[q] = request[q]
  BY PutRequest
<1>2. \A q \in Request : request'[q].phase = "planned" <=> request[q].phase = "planned"
  BY <1>1
<1>3. ASSUME NEW q \in Request, NEW e \in Event
      PROVE  holder'[e] = q <=> request'[q].phase = "planned" /\ request'[q].event = e
  BY <1>1, <1>2 DEF LockTypes
<1>4. WorkTypes'
  BY <1>1 DEF WorkTypes
<1> QED
  BY <1>3, <1>4 DEF LockTypes

\* The sweep moves without a lock.
LEMMA UnlockedSweep ==
  ASSUME LockTypes, WorkTypes, sweep.phase # "planned", sweep' \in SweepStates,
         sweep'.phase # "planned", UNCHANGED <<holder, request>>
  PROVE  LockTypes' /\ WorkTypes'
  BY DEF LockTypes, WorkTypes

LEMMA IdleFine ==
  ASSUME NEW events, NEW slots, NEW today
  PROVE  RequestFine(Idle, events, slots, today)
  BY Phases DEF RequestFine

LEMMA ArriveSafe ==
  ASSUME IInv, NEW p \in Request, Arrive(p)
  PROVE  IInv'
<1>1. WorldTypes /\ TableTypes /\ WorkTypes /\ LockTypes /\ now \in Nat
  BY TypeSplit, Facts DEF IInv
<1> DEFINE r == [phase |-> "called", at |-> now, hidden |-> hidden]
<1>2. r \in RequestStates /\ r.phase = "called" /\ r.at = now
  BY <1>1 DEF RequestStates, Calls, WorldTypes
<1>3. request' = [request EXCEPT ![p] = r] /\ request[p].phase # "planned"
  BY Phases DEF Arrive
<1> HIDE DEF r
<1>4. LockTypes' /\ WorkTypes'
  BY <1>1, <1>2, <1>3, UnlockedRequest DEF Arrive
<1>5. WorldTypes'
  BY <1>1, BoundAssumption DEF Arrive, WorldTypes
<1>6. TypeOK'
  BY <1>1, <1>4, <1>5, TablesKept, TypeJoin DEF Arrive
<1>7. /\ request'[p] = r
      /\ \A q \in Request \ {p} : request'[q] = request[q]
  BY <1>1, <1>2, <1>3, PutRequest
<1>8. RequestFine(request'[p], event', slot', now')
  BY <1>1, <1>2, <1>7 DEF Arrive, RequestFine
<1>9. \A e \in Event : Quiet(e)
  BY QuietTables DEF Arrive
<1>10. now' = now /\ sweep' = sweep
  BY DEF Arrive
<1> QED
  BY <1>1, <1>6, <1>7, <1>8, <1>9, <1>10, QuietSteps


LEMMA RefuseSafe ==
  ASSUME IInv, NEW p \in Request, Refuse(p)
  PROVE  IInv'
<1>1. WorldTypes /\ TableTypes /\ WorkTypes /\ LockTypes /\ now \in Nat
  BY TypeSplit, Facts DEF IInv
<1>2. Idle \in RequestStates /\ request' = [request EXCEPT ![p] = Idle]
  BY DEF RequestStates, Refuse, Done
<1>3. /\ request' \in [Request -> RequestStates] /\ request'[p] = Idle
      /\ \A q \in Request \ {p} : request'[q] = request[q]
  BY <1>1, <1>2, PutRequest
<1>4. /\ holder' = [e \in Event |-> IF holder[e] = p THEN Nobody ELSE holder[e]]
      /\ sweep' = sweep /\ now' = now
  BY DEF Refuse
<1>5. WorkTypes' /\ WorldTypes'
  BY <1>1, <1>3, <1>4 DEF WorkTypes, WorldTypes, Refuse
<1>6. LockTypes'
  <2>1. \A e \in Event : holder'[e] = IF holder[e] = p THEN Nobody ELSE holder[e]
    BY <1>4
  <2>2. holder' \in [Event -> {Nobody, Sweep} \cup Request]
    BY <1>1, <1>4 DEF LockTypes
  <2>3. ASSUME NEW q \in Request, NEW e \in Event
        PROVE  holder'[e] = q <=> request'[q].phase = "planned" /\ request'[q].event = e
    <3>1. CASE q = p
      BY <1>3, <2>1, <3>1, Phases
    <3>2. CASE q # p
      <4>1. holder'[e] = q <=> holder[e] = q
        BY <2>1, <3>2, Phases
      <4> QED
        BY <1>1, <1>3, <3>2, <4>1 DEF LockTypes
    <3> QED
      BY <3>1, <3>2
  <2>4. \A e \in Event : holder'[e] = Sweep <=> holder[e] = Sweep
    BY <2>1, Phases
  <2> QED
    BY <1>1, <1>4, <2>2, <2>3, <2>4 DEF LockTypes
<1>7. TypeOK'
  BY <1>1, <1>5, <1>6, TablesKept, TypeJoin DEF Refuse
<1>8. \A e \in Event : Quiet(e)
  BY QuietTables DEF Refuse
<1> QED
  BY <1>1, <1>3, <1>4, <1>7, <1>8, IdleFine, QuietSteps

LEMMA SurroundingsSafe ==
  ASSUME IInv, DayPasses \/ \E c \in Child : GuardianshipChanges(c)
  PROVE  IInv'
<1>1. WorldTypes /\ TableTypes /\ WorkTypes /\ LockTypes /\ now \in Nat
  BY TypeSplit, Facts DEF IInv
<1>2. UNCHANGED <<tables, holder, request, sweep>>
  BY DEF DayPasses, GuardianshipChanges
<1>3. WorldTypes' /\ now <= now'
  BY <1>1, BoundAssumption DEF DayPasses, GuardianshipChanges, WorldTypes
<1>4. TypeOK'
  <2>1. WorkTypes' /\ LockTypes'
    BY <1>1, <1>2 DEF WorkTypes, LockTypes
  <2> QED
    BY <1>1, <1>2, <1>3, <2>1, TablesKept, TypeJoin
<1>5. \A e \in Event : Quiet(e)
  BY <1>2, QuietTables
<1> QED
  BY <1>2, <1>3, <1>4, <1>5, QuietSteps

LEMMA StartSweepSafe ==
  ASSUME IInv, StartSweep
  PROVE  IInv'
<1>1. WorldTypes /\ TableTypes /\ WorkTypes /\ LockTypes /\ now \in Nat
  BY TypeSplit, Facts DEF IInv
<1> DEFINE due == [e \in Due(now) |-> event[e].through]
<1>2. due \in SomeOf(Event, Nat)
  <2>1. Due(now) \in SUBSET Event
    BY DEF Due, InUse
  <2>2. \A e \in Due(now) : event[e].through \in Nat
    <3>1. \A e \in Due(now) : event[e].through \in 0 .. WindowTo(now) - 1
      BY DEF Due
    <3>2. WindowTo(now) \in Nat
      BY <1>1, WindowAssumption DEF WindowTo
    <3> QED
      BY <3>1, <3>2
  <2>3. due \in [Due(now) -> Nat]
    BY <2>2
  <2> QED
    BY <2>1, <2>3, PartialType
<1>3. /\ sweep = Idle /\ sweep' = [phase |-> "extending", at |-> now, due |-> due]
      /\ UNCHANGED <<now, tables, holder, request, hidden, served, failures>>
  BY DEF StartSweep
<1> HIDE DEF due
<1>4. sweep' \in SweepStates /\ sweep'.phase = "extending" /\ sweep.phase = "idle"
  BY <1>1, <1>2, <1>3, Phases DEF SweepStates
<1>5. LockTypes' /\ WorkTypes'
  BY <1>1, <1>3, <1>4, UnlockedSweep
<1>6. WorldTypes'
  BY <1>1, <1>3 DEF WorldTypes
<1>7. TypeOK'
  BY <1>1, <1>3, <1>5, <1>6, TablesKept, TypeJoin
<1>8. SweepFine(sweep', event', slot', now')
  BY <1>4 DEF SweepFine
<1> QED
  BY <1>1, <1>3, <1>7, <1>8, QuietTables, QuietSteps

LEMMA FindPrunableSafe ==
  ASSUME IInv, FindPrunable
  PROVE  IInv'
<1>1. WorldTypes /\ TableTypes /\ WorkTypes /\ LockTypes /\ now \in Nat
  BY TypeSplit, Facts DEF IInv
<1>2. /\ sweep.phase = "extending" /\ sweep' \in {[phase |-> "pruning", at |-> sweep.at], Idle}
      /\ UNCHANGED <<now, tables, holder, request, hidden, served, failures>>
  BY DEF FindPrunable
<1>3. sweep' \in SweepStates /\ sweep'.phase # "planned"
  <2>1. sweep.at \in Nat
    BY <1>1, <1>2, SweepPhases DEF WorkTypes
  <2> QED
    BY <1>2, <2>1, Phases DEF SweepStates
<1>4. LockTypes' /\ WorkTypes'
  BY <1>1, <1>2, <1>3, UnlockedSweep
<1>5. WorldTypes'
  BY <1>1, <1>2 DEF WorldTypes
<1>6. TypeOK'
  BY <1>1, <1>2, <1>4, <1>5, TablesKept, TypeJoin
<1>7. SweepFine(sweep', event', slot', now')
  BY <1>3 DEF SweepFine
<1> QED
  BY <1>1, <1>2, <1>6, <1>7, QuietTables, QuietSteps


------------------------------------------------------------------------------
(* Rows that are written. *)

LEMMA RecordedFacts ==
  ASSUME NEW row \in EventRows, NEW t \in Nat
  PROVE  LET new == Recorded(row, t) IN
         /\ new \in EventRows /\ new.through = ThroughAfter(new, t)
         /\ \A plan, rows, today :
              Fits(plan, row, t, rows, today) => Fits(plan, new, t, rows, today)
<1> DEFINE through == ThroughAfter(row, t)
           new     == Recorded(row, t)
<1>1. through \in {Null} \cup Nat
  BY WindowAssumption DEF ThroughAfter, WindowTo
<1> HIDE DEF through
<1>2. new = [row EXCEPT !.through = through]
  BY DEF Recorded, through
<1>3. [row EXCEPT !.through = through] \in EventRows
  BY <1>1 DEF EventRows
<1>4. /\ new.start = row.start /\ new.length = row.length /\ new.rule = row.rule
      /\ new.through = through
  BY <1>2 DEF EventRows
<1> HIDE DEF new
<1>5. IsRecurring(new) = IsRecurring(row)
  BY <1>4 DEF IsRecurring
<1>6. ThroughAfter(new, t) = ThroughAfter(row, t)
  BY <1>4, <1>5 DEF ThroughAfter, Exhausted
<1>7. \A end : ProducedBefore(new, end) = ProducedBefore(row, end)
  BY <1>4, <1>5 DEF ProducedBefore
<1>8. PlannedDays(new, t) = PlannedDays(row, t)
  BY <1>4, <1>5, <1>7 DEF PlannedDays
<1>9. \A plan, rows, today :
        Fits(plan, row, t, rows, today) => Fits(plan, new, t, rows, today)
  BY <1>4, <1>8 DEF Fits
<1> QED
  BY <1>2, <1>3, <1>4, <1>6, <1>9 DEF new, through

LEMMA PrunedFacts ==
  ASSUME NEW rows \in SlotRows, NEW before \in Int
  PROVE  /\ Pruned(rows, before) \in SlotRows
         /\ DOMAIN Pruned(rows, before) = {d \in DOMAIN rows : d >= before}
         /\ \A d \in DOMAIN Pruned(rows, before) : Pruned(rows, before)[d] = rows[d]
<1> DEFINE left  == {d \in DOMAIN rows : d >= before}
           after == Pruned(rows, before)
<1>1. after = [d \in left |-> rows[d]]
  BY DEF Pruned
<1>2. left \in SUBSET Nat /\ \A d \in left : rows[d] \in [length : Length, off : BOOLEAN]
  BY SlotFacts
<1> HIDE DEF left, after
<1>3. DOMAIN after = left /\ \A d \in left : after[d] = rows[d]
  BY <1>1
<1>4. after = [d \in left |-> after[d]]
  BY <1>1, <1>3
<1>5. after \in SlotRows
  BY <1>2, <1>3, <1>4, SlotType
<1> QED
  BY <1>3, <1>5 DEF left, after

LEMMA SaveFacts ==
  ASSUME TableTypes, NEW e \in Event, NEW row \in EventRows, NEW rows \in SlotRows,
         Save(e, row, rows)
  PROVE  /\ TableTypes' /\ event'[e] = row /\ slot'[e] = rows
         /\ \A f \in Event \ {e} : event'[f] = event[f] /\ slot'[f] = slot[f]
<1>1. /\ event' = [event EXCEPT ![e] = row] /\ slot' = [slot EXCEPT ![e] = rows]
      /\ event \in [Event -> EventRows \cup {Absent}] /\ slot \in [Event -> SlotRows]
  BY DEF Save, TableTypes
<1>2. /\ event' \in [Event -> EventRows \cup {Absent}] /\ slot' \in [Event -> SlotRows]
      /\ event'[e] = row /\ slot'[e] = rows
      /\ \A f \in Event \ {e} : event'[f] = event[f] /\ slot'[f] = slot[f]
  BY <1>1
<1>3. \A f \in Event : event'[f] = Absent => slot'[f] = NoRows
  BY <1>2, RowApart DEF TableTypes
<1> QED
  BY <1>2, <1>3 DEF TableTypes

\* Rows that did not change are quiet, and so is a row of which only
\* cancellations or pruning were written.
LEMMA SameQuiet ==
  ASSUME NEW e \in Event, event'[e] = event[e], slot'[e] = slot[e]
  PROVE  Quiet(e)
  BY DEF Quiet

\* One row is written by a step, and whoever held its lock lets go of it.
LEMMA WriteSteps ==
  ASSUME IInv, TypeOK', UNCHANGED now, NEW e \in Event,
         RowFine(event'[e], slot'[e], now),
         \A f \in Event \ {e} : event'[f] = event[f] /\ slot'[f] = slot[f],
         \A p \in Request :
           \/ request'[p] = request[p] /\ (request[p].phase = "planned" => request[p].event # e)
           \/ request'[p] = Idle,
         \/ sweep' = sweep /\ (sweep.phase = "planned" => sweep.event # e)
         \/ sweep'.phase # "planned"
  PROVE  IInv'
<1>1. now' = now /\ now \in Nat
  BY Facts DEF IInv
<1>2. \A f \in Event \ {e} : Quiet(f)
  BY SameQuiet
<1>3. \A f \in Event : Quiet(f) \/ RowFine(event'[f], slot'[f], now')
  BY <1>1, <1>2
<1>4. ASSUME NEW p \in Request
      PROVE  \/ /\ request'[p] = request[p]
                /\ request[p].phase = "planned" => Quiet(request[p].event)
             \/ RequestFine(request'[p], event', slot', now')
  <2>1. CASE request'[p] = Idle
    BY <2>1, IdleFine
  <2>2. CASE request'[p] = request[p] /\ (request[p].phase = "planned" => request[p].event # e)
    <3>1. request[p].phase = "planned" => request[p].event \in Event
      BY Facts, Phases DEF IInv, RequestStates
    <3> QED
      BY <1>2, <2>2, <3>1
  <2> QED
    BY <2>1, <2>2
<1>5. \/ sweep' = sweep /\ (sweep.phase = "planned" => Quiet(sweep.event))
      \/ SweepFine(sweep', event', slot', now')
  <2>1. sweep.phase = "planned" => sweep.event \in Event
    BY SweepPhases DEF IInv, TypeOK
  <2> QED
    BY <1>2, <2>1 DEF SweepFine
<1> QED
  BY <1>1, <1>3, <1>4, <1>5, Steps


LEMMA FreeUnplanned ==
  ASSUME LockTypes, NEW e \in Event, Free(e)
  PROVE  /\ \A p \in Request : request[p].phase = "planned" => request[p].event # e
         /\ sweep.phase = "planned" => sweep.event # e
<1>1. holder[e] = Nobody
  BY DEF Free
<1> QED
  BY <1>1, Phases DEF LockTypes

LEMMA CallFacts ==
  ASSUME IInv, NEW p \in Request, request[p].phase = "called"
  PROVE  /\ request[p] \in Calls /\ request[p].at \in 0..now
         /\ request[p].hidden \subseteq Child
<1>1. request[p] \in Calls
  <2>1. request[p] \in RequestStates
    BY Facts DEF IInv
  <2> QED
    BY <2>1, Phases DEF RequestStates
<1>2. request[p].at <= now
  BY DEF IInv, RequestFine
<1> QED
  BY <1>1, <1>2, Phases, Facts DEF IInv

\* A request that held no lock is done.
LEMMA DoneTypes ==
  ASSUME LockTypes, WorkTypes, NEW p \in Request, request[p].phase = "called",
         Done(p), UNCHANGED <<holder, sweep>>
  PROVE  /\ LockTypes' /\ WorkTypes'
         /\ request'[p] = Idle /\ \A q \in Request \ {p} : request'[q] = request[q]
<1>1. Idle \in RequestStates /\ request' = [request EXCEPT ![p] = Idle]
  BY DEF RequestStates, Done
<1>2. Idle.phase # "planned" /\ request[p].phase # "planned"
  BY Phases
<1>3. LockTypes' /\ WorkTypes'
  BY <1>1, <1>2, UnlockedRequest
<1> QED
  BY <1>1, <1>3, PutRequest

LEMMA CreateEventSafe ==
  ASSUME IInv, NEW p \in Request, NEW e \in Event, NEW start \in Start, NEW length \in Length,
         NEW rule \in Rule \cup {OneOff}, NEW who \in SUBSET Child,
         CreateEvent(p, e, start, length, rule, who)
  PROVE  IInv'
<1>1. WorldTypes /\ TableTypes /\ WorkTypes /\ LockTypes /\ now \in Nat
  BY TypeSplit, Facts DEF IInv
<1> DEFINE t    == request[p].at
           made == NewEvent(start, length, rule, who)
           row  == Recorded(made, t)
           plan == Reconcile(made, t, NoRows)
<1>2. /\ request[p].phase = "called" /\ event[e] = Absent
      /\ Save(e, row, Apply(plan, NoRows)) /\ Done(p)
      /\ UNCHANGED <<now, holder, sweep, hidden, served, failures>>
  BY DEF CreateEvent, Rematerialise
<1>3. t \in Nat /\ t <= now
  BY <1>1, <1>2, CallFacts
<1>4. made \in EventRows
  BY DEF NewEvent, EventRows
<1> HIDE DEF made, t
<1>5. row \in EventRows /\ row.through = ThroughAfter(row, t)
  BY <1>3, <1>4, RecordedFacts
<1>6. plan \in Plans /\ Fits(plan, made, t, NoRows, now)
  BY <1>1, <1>3, <1>4, NoRowsType, ReconcileFits
<1>7. Fits(plan, row, t, NoRows, now)
  BY <1>3, <1>4, <1>6, RecordedFacts
<1> HIDE DEF row, plan
<1>8. /\ Apply(plan, NoRows) \in SlotRows
      /\ Follows(row, Apply(plan, NoRows), now) /\ RunOut(row, now)
  BY <1>1, <1>3, <1>5, <1>6, <1>7, NoRowsType, ApplyFits
<1>9. /\ TableTypes' /\ event'[e] = row /\ slot'[e] = Apply(plan, NoRows)
      /\ \A f \in Event \ {e} : event'[f] = event[f] /\ slot'[f] = slot[f]
  BY <1>1, <1>2, <1>5, <1>8, SaveFacts
<1>10. /\ LockTypes' /\ WorkTypes'
       /\ request'[p] = Idle /\ \A q \in Request \ {p} : request'[q] = request[q]
  BY <1>1, <1>2, DoneTypes
<1>11. TypeOK'
  <2>1. WorldTypes'
    BY <1>1, <1>2 DEF WorldTypes
  <2> QED
    BY <1>9, <1>10, <2>1, TypeJoin
<1>12. RowFine(event'[e], slot'[e], now)
  BY <1>8, <1>9 DEF RowFine
<1>13. /\ \A q \in Request : request[q].phase = "planned" => request[q].event # e
       /\ sweep.phase = "planned" => sweep.event # e
  BY <1>2 DEF IInv, RequestFine, SweepFine
<1> QED
  BY <1>2, <1>9, <1>10, <1>11, <1>12, <1>13, WriteSteps

LEMMA CancelEventSafe ==
  ASSUME IInv, NEW p \in Request, NEW e \in Event, CancelEvent(p, e)
  PROVE  IInv'
<1>1. WorldTypes /\ TableTypes /\ WorkTypes /\ LockTypes /\ now \in Nat
  BY TypeSplit, Facts DEF IInv
<1> DEFINE old == event[e]
           row == Cancelled(old)
<1>2. /\ request[p].phase = "called" /\ e \in InUse /\ Free(e)
      /\ event' = [event EXCEPT ![e] = row] /\ Done(p)
      /\ UNCHANGED <<now, slot, holder, sweep, hidden, served, failures>>
  BY DEF CancelEvent, Reaches
<1>3. old \in EventRows /\ slot[e] \in SlotRows /\ old # Absent
  BY <1>1, <1>2, Facts DEF IInv
<1> HIDE DEF old
<1>4. row \in EventRows /\ SameSeries(row, old)
  BY <1>3 DEF EventRows, Cancelled, SameSeries
<1> HIDE DEF row
<1>5. Save(e, row, slot[e])
  BY <1>1, <1>2 DEF Save, TableTypes
<1>6. /\ TableTypes' /\ event'[e] = row /\ slot'[e] = slot[e]
      /\ \A f \in Event \ {e} : event'[f] = event[f] /\ slot'[f] = slot[f]
  BY <1>1, <1>3, <1>4, <1>5, SaveFacts
<1>7. /\ LockTypes' /\ WorkTypes'
      /\ request'[p] = Idle /\ \A q \in Request \ {p} : request'[q] = request[q]
  BY <1>1, <1>2, DoneTypes
<1>8. TypeOK'
  <2>1. WorldTypes'
    BY <1>1, <1>2 DEF WorldTypes
  <2> QED
    BY <1>6, <1>7, <2>1, TypeJoin
<1>9. RowFine(event'[e], slot'[e], now)
  <2>1. Follows(old, slot[e], now) /\ RunOut(old, now)
    BY <1>3 DEF IInv, RowFine, old
  <2> QED
    BY <1>4, <1>6, <2>1, SeriesFollow DEF RowFine
<1>10. /\ \A q \in Request : request[q].phase = "planned" => request[q].event # e
       /\ sweep.phase = "planned" => sweep.event # e
  BY <1>1, <1>2, FreeUnplanned
<1> QED
  BY <1>2, <1>6, <1>7, <1>8, <1>9, <1>10, WriteSteps

LEMMA OffFacts ==
  ASSUME NEW rows \in SlotRows, NEW d \in DOMAIN rows
  PROVE  /\ Off(rows, d) \in SlotRows /\ DOMAIN Off(rows, d) = DOMAIN rows
         /\ Off(rows, d)[d].off
         /\ \A c \in DOMAIN rows : Off(rows, d)[c].length = rows[c].length
         /\ \A c \in DOMAIN rows \ {d} : Off(rows, d)[c] = rows[c]
<1> DEFINE new   == [rows[d] EXCEPT !.off = TRUE]
           after == Off(rows, d)
           yes   == TRUE
<1>1. /\ DOMAIN rows \in SUBSET Nat
      /\ \A c \in DOMAIN rows : rows[c] \in [length : Length, off : BOOLEAN]
      /\ rows = [c \in DOMAIN rows |-> rows[c]]
  BY SlotFacts, PartialFacts DEF SlotRows
<1>2. /\ new \in [length : Length, off : BOOLEAN] /\ new.length = rows[d].length
      /\ new.off
  <2> DEFINE row == rows[d]
  <2>1. row \in [length : Length, off : BOOLEAN]
    BY <1>1
  <2> HIDE DEF row
  <2>2. /\ [row EXCEPT !.off = TRUE] \in [length : Length, off : BOOLEAN]
        /\ [row EXCEPT !.off = TRUE].length = row.length
        /\ [row EXCEPT !.off = TRUE].off
    BY <2>1
  <2> QED
    BY <2>2 DEF row
<1>3. after = [rows EXCEPT ![d] = new]
  BY DEF Off
<1> HIDE DEF new, after
<1>4. /\ DOMAIN after = DOMAIN rows /\ after[d] = new
      /\ \A c \in DOMAIN rows \ {d} : after[c] = rows[c]
      /\ after = [c \in DOMAIN rows |-> after[c]]
  BY <1>1, <1>3
<1>5. \A c \in DOMAIN rows : after[c] \in [length : Length, off : BOOLEAN]
  BY <1>1, <1>2, <1>4
<1>6. after \in SlotRows
  BY <1>1, <1>4, <1>5, SlotType
<1> QED
  BY <1>2, <1>4, <1>6 DEF after

LEMMA CancelOccurrenceSafe ==
  ASSUME IInv, NEW p \in Request, NEW e \in Event, NEW d \in DOMAIN slot[e],
         CancelOccurrence(p, e, d)
  PROVE  IInv'
<1>1. WorldTypes /\ TableTypes /\ WorkTypes /\ LockTypes /\ now \in Nat
  BY TypeSplit, Facts DEF IInv
<1> DEFINE rows == slot[e]
           new  == Off(rows, d)
<1>2. /\ request[p].phase = "called" /\ e \in InUse /\ Free(e)
      /\ slot' = [slot EXCEPT ![e] = new] /\ Done(p)
      /\ UNCHANGED <<now, event, holder, sweep, hidden, served, failures>>
  BY DEF CancelOccurrence, Reaches
<1>3. event[e] \in EventRows /\ rows \in SlotRows /\ event[e] # Absent
  BY <1>1, <1>2, Facts DEF IInv
<1>4. /\ new \in SlotRows /\ DOMAIN new = DOMAIN rows
      /\ \A c \in DOMAIN rows : new[c].length = rows[c].length
  BY <1>3, OffFacts
<1> HIDE DEF new
<1>5. Save(e, event[e], new)
  BY <1>1, <1>2 DEF Save, TableTypes
<1>6. /\ TableTypes' /\ event'[e] = event[e] /\ slot'[e] = new
      /\ \A f \in Event \ {e} : event'[f] = event[f] /\ slot'[f] = slot[f]
  BY <1>1, <1>3, <1>4, <1>5, SaveFacts
<1>7. /\ LockTypes' /\ WorkTypes'
      /\ request'[p] = Idle /\ \A q \in Request \ {p} : request'[q] = request[q]
  BY <1>1, <1>2, DoneTypes
<1>8. TypeOK'
  <2>1. WorldTypes'
    BY <1>1, <1>2 DEF WorldTypes
  <2> QED
    BY <1>6, <1>7, <2>1, TypeJoin
<1>9. \A f \in Event : Quiet(f)
  BY <1>4, <1>6, SameQuiet DEF Quiet
<1>10. \A q \in Request : request'[q] = request[q]
                       \/ RequestFine(request'[q], event', slot', now')
  BY <1>7, IdleFine
<1>11. now' = now /\ now <= now' /\ sweep' = sweep
  BY <1>1, <1>2
<1> QED
  BY <1>8, <1>9, <1>10, <1>11, QuietSteps


\* The trailing edge of a pass is that of a moment that has come.
LEMMA PrunedFrom ==
  ASSUME IInv, PruneTrailing
  PROVE  \E from \in Int :
           /\ from <= WindowFrom(now)
           /\ slot' = [e \in Event |-> IF e \in InUse /\ IsRecurring(event[e])
                                         THEN Pruned(slot[e], from) ELSE slot[e]]
<1>1. now \in Nat /\ sweep \in SweepStates /\ sweep.phase = "pruning"
  BY TypeSplit, Facts DEF IInv, WorkTypes, PruneTrailing
<1>2. sweep.at \in Nat
  BY <1>1, SweepPhases
<1>3. PICK t \in sweep.at .. now :
        slot' = [e \in Event |-> IF e \in InUse /\ IsRecurring(event[e])
                                   THEN Pruned(slot[e], WindowFrom(t)) ELSE slot[e]]
  BY DEF PruneTrailing
<1>4. WindowFrom(t) \in Int /\ WindowFrom(t) <= WindowFrom(now)
  BY <1>1, <1>2, WindowAssumption DEF WindowFrom
<1> QED
  BY <1>3, <1>4

LEMMA PruneSafe ==
  ASSUME IInv, PruneTrailing
  PROVE  IInv'
<1>1. /\ WorldTypes /\ TableTypes /\ WorkTypes /\ LockTypes /\ now \in Nat
      /\ WindowFrom(now) \in Int
  BY TypeSplit, Facts DEF IInv
<1> DEFINE OfSeries(e) == e \in InUse /\ IsRecurring(event[e])
           PrunesUpTo(from) ==
             slot' = [e \in Event |-> IF OfSeries(e) THEN Pruned(slot[e], from) ELSE slot[e]]
<1>12. PICK from \in Int : from <= WindowFrom(now) /\ PrunesUpTo(from)
  BY <1>1, PrunedFrom
<1>2. /\ sweep.phase = "pruning" /\ sweep' = Idle
      /\ slot' = [e \in Event |-> IF OfSeries(e) THEN Pruned(slot[e], from) ELSE slot[e]]
      /\ UNCHANGED <<now, event, holder, request, hidden, served, failures>>
  BY <1>12 DEF PruneTrailing
<1>3. now' = now /\ event' = event
  BY <1>2
<1>4. ASSUME NEW e \in Event
      PROVE  /\ slot'[e] \in SlotRows /\ (event'[e] = Absent => slot'[e] = NoRows)
             /\ Quiet(e)
  <2> DEFINE rows == slot[e]
  <2>1. rows \in SlotRows
    BY <1>1 DEF TableTypes
  <2>2. CASE OfSeries(e)
    <3>1. slot'[e] = Pruned(rows, from) /\ event[e] # Absent
      BY <1>2, <2>2 DEF InUse
    <3>2. /\ Pruned(rows, from) \in SlotRows
          /\ DOMAIN Pruned(rows, from) = {d \in DOMAIN rows : d >= from}
          /\ \A d \in DOMAIN Pruned(rows, from) : Pruned(rows, from)[d] = rows[d]
      BY <1>12, <2>1, PrunedFacts
    <3> QED
      BY <1>1, <1>3, <1>12, <3>1, <3>2 DEF Quiet
  <2>3. CASE ~OfSeries(e)
    <3>1. slot'[e] = slot[e]
      BY <1>2, <2>3
    <3> QED
      BY <1>1, <1>3, <2>1, <3>1, SameQuiet DEF TableTypes
  <2> QED
    BY <2>2, <2>3
<1> HIDE DEF OfSeries
<1>5. slot' \in [Event -> SlotRows]
  BY <1>2, <1>4
<1>6. TableTypes'
  BY <1>1, <1>3, <1>4, <1>5 DEF TableTypes
<1>7. sweep' \in SweepStates /\ sweep'.phase = "idle"
  BY <1>2, Phases DEF SweepStates
<1>8. LockTypes' /\ WorkTypes'
  BY <1>1, <1>2, <1>7, UnlockedSweep
<1>9. TypeOK'
  <2>1. WorldTypes'
    BY <1>1, <1>2 DEF WorldTypes
  <2> QED
    BY <1>6, <1>8, <2>1, TypeJoin
<1>10. SweepFine(sweep', event', slot', now')
  BY <1>7 DEF SweepFine
<1>11. now <= now' /\ request' = request
  BY <1>1, <1>2
<1> QED
  BY <1>4, <1>9, <1>10, <1>11, QuietSteps

------------------------------------------------------------------------------
(* Transactions over an event's row. *)

LEMMA PlanUpdateSafe ==
  ASSUME IInv, NEW p \in Request, NEW e \in Event, NEW start \in Start, NEW length \in Length,
         NEW rule \in Rule \cup {OneOff}, NEW who \in SUBSET Child,
         PlanUpdate(p, e, start, length, rule, who)
  PROVE  IInv'
<1>1. WorldTypes /\ TableTypes /\ WorkTypes /\ LockTypes /\ now \in Nat
  BY TypeSplit, Facts DEF IInv
<1> DEFINE t    == request[p].at
           old  == event[e]
           rows == slot[e]
           made == Edited(old, start, length, rule, who)
           row  == Recorded(made, t)
           plan == Reconcile(made, t, rows)
           Planned(new, plans) ==
             [phase |-> "planned", event |-> e, row |-> new, plan |-> plans]
           new  == IF Reschedules(old, made) THEN Planned(row, {plan}) ELSE Planned(made, {})
<1>2. /\ request[p].phase = "called" /\ e \in InUse /\ Free(e)
      /\ request' = [request EXCEPT ![p] = new]
      /\ holder' = [holder EXCEPT ![e] = p]
      /\ UNCHANGED <<now, tables, sweep, hidden, served, failures>>
  BY DEF PlanUpdate, Reaches, Rematerialise
<1>3. t \in Nat /\ t <= now
  BY <1>1, <1>2, CallFacts
<1>4. old \in EventRows /\ rows \in SlotRows /\ old # Absent
  BY <1>1, <1>2, Facts DEF IInv
<1> HIDE DEF old, t, rows
<1>5. /\ made \in EventRows
      /\ made.start = start /\ made.length = length /\ made.rule = rule
      /\ made.through = old.through
  <2>1. made = [old EXCEPT !.start = start, !.length = length, !.rule = rule, !.who = who]
    BY DEF Edited
  <2> QED
    BY <1>4, <2>1 DEF EventRows
<1> HIDE DEF made
<1>6. ~Reschedules(old, made) => SameSeries(made, old)
  BY <1>5 DEF Reschedules, SameTiming, SameSeries
<1>7. row \in EventRows /\ row.through = ThroughAfter(row, t)
  BY <1>3, <1>5, RecordedFacts
<1>8. plan \in Plans /\ Fits(plan, made, t, rows, now)
  BY <1>1, <1>3, <1>4, <1>5, ReconcileFits
<1>9. Fits(plan, row, t, rows, now)
  BY <1>3, <1>5, <1>8, RecordedFacts
<1> HIDE DEF row, plan
<1>10. /\ new \in Planning /\ new.phase = "planned" /\ new.event = e
       /\ new.plan = {} => new.row = made /\ ~Reschedules(old, made)
       /\ \A x \in new.plan : x = plan /\ new.row = row
  <2>1. CASE Reschedules(old, made)
    <3>1. new = Planned(row, {plan})
      BY <2>1
    <3> QED
      BY <1>7, <1>8, <3>1 DEF Planning
  <2>2. CASE ~Reschedules(old, made)
    <3>1. new = Planned(made, {})
      BY <2>2
    <3> QED
      BY <1>5, <2>2, <3>1 DEF Planning
  <2> QED
    BY <2>1, <2>2
<1> HIDE DEF new
<1>11. /\ request' \in [Request -> RequestStates] /\ request'[p] = new
       /\ \A q \in Request \ {p} : request'[q] = request[q]
  BY <1>1, <1>2, <1>10, PutRequest DEF RequestStates
<1>12. LockTypes'
  <2>1. /\ holder[e] = Nobody /\ holder' \in [Event -> {Nobody, Sweep} \cup Request]
        /\ \A f \in Event : holder'[f] = IF f = e THEN p ELSE holder[f]
    BY <1>1, <1>2 DEF LockTypes, Free
  <2>2. ASSUME NEW q \in Request, NEW f \in Event
        PROVE  holder'[f] = q <=> request'[q].phase = "planned" /\ request'[q].event = f
    <3>1. holder[f] = q <=> request[q].phase = "planned" /\ request[q].event = f
      BY <1>1 DEF LockTypes
    <3>2. CASE q = p
      <4>1. request[q].phase # "planned"
        BY <1>2, <3>2
      <4> QED
        BY <1>10, <1>11, <2>1, <3>1, <3>2, <4>1
    <3>3. CASE q # p
      BY <1>11, <2>1, <3>1, <3>3, Phases
    <3> QED
      BY <3>2, <3>3
  <2>3. \A f \in Event : holder'[f] = Sweep <=> holder[f] = Sweep
    BY <2>1, Phases
  <2> QED
    BY <1>1, <1>2, <2>1, <2>2, <2>3 DEF LockTypes
<1>13. TypeOK'
  <2>1. WorldTypes' /\ WorkTypes'
    BY <1>1, <1>2, <1>11 DEF WorldTypes, WorkTypes
  <2> QED
    BY <1>1, <1>2, <1>12, <2>1, TablesKept, TypeJoin
<1>14. RequestFine(new, event, slot, now)
  <2>1. new.plan = {} => SameSeries(new.row, event[e])
    BY <1>6, <1>10 DEF old
  <2>2. ASSUME NEW x \in new.plan
        PROVE  \E u \in 0..now : /\ new.row.through = ThroughAfter(new.row, u)
                                 /\ Fits(x, new.row, u, slot[e], now)
    <3>1. t \in 0..now
      BY <1>1, <1>3
    <3> QED
      BY <1>7, <1>9, <1>10, <3>1 DEF rows
  <2>3. event[e] # Absent
    BY <1>4 DEF old
  <2> QED
    BY <1>10, <2>1, <2>2, <2>3 DEF RequestFine
<1>15. /\ event' = event /\ slot' = slot /\ now' = now /\ now <= now' /\ sweep' = sweep
       /\ \A f \in Event : Quiet(f)
  BY <1>1, <1>2, QuietTables DEF tables
<1>16. \A q \in Request : request'[q] = request[q]
                       \/ RequestFine(request'[q], event', slot', now')
  BY <1>11, <1>14, <1>15
<1> QED
  BY <1>13, <1>15, <1>16, QuietSteps


LEMMA PlannedFacts ==
  ASSUME IInv, NEW p \in Request, request[p].phase = "planned"
  PROVE  /\ request[p] \in Planning /\ holder[request[p].event] = p
         /\ event[request[p].event] # Absent
<1>1. request[p] \in Planning
  BY Facts, Phases DEF IInv, RequestStates
<1>2. request[p].event \in Event
  BY <1>1, Phases
<1> QED
  BY <1>1, <1>2 DEF IInv, TypeOK, RequestFine

\* What an edit leaves behind.
LEMMA UpdateWrites ==
  ASSUME IInv, NEW p \in Request, CommitUpdate(p)
  PROVE  LET e == request[p].event IN
         /\ TableTypes' /\ event'[e] \in EventRows
         /\ RowFine(event'[e], slot'[e], now)
         /\ slot'[e] = slot[e] \/ Survives(event'[e], slot[e], slot'[e], now)
         /\ \A f \in Event \ {e} : event'[f] = event[f] /\ slot'[f] = slot[f]
<1>1. TableTypes /\ now \in Nat
  BY TypeSplit, Facts DEF IInv
<1> DEFINE r    == request[p]
           e    == r.event
           row  == r.row
           rows == slot[e]
<1>2. r.phase = "planned" /\ r \in Planning /\ event[e] # Absent
  BY PlannedFacts DEF CommitUpdate
<1>3. e \in Event /\ row \in EventRows /\ r.plan \subseteq Plans
  BY <1>2, Phases
<1>4. rows \in SlotRows
  BY <1>3, Facts DEF IInv
<1>5. /\ r.plan = {} => SameSeries(row, event[e])
      /\ \A plan \in r.plan : \E t \in 0..now :
           row.through = ThroughAfter(row, t) /\ Fits(plan, row, t, rows, now)
  BY <1>2 DEF IInv, RequestFine
<1>6. CASE r.plan = {}
  <2>1. Save(e, row, rows)
    BY <1>6 DEF CommitUpdate
  <2>2. /\ TableTypes' /\ event'[e] = row /\ slot'[e] = rows
        /\ \A f \in Event \ {e} : event'[f] = event[f] /\ slot'[f] = slot[f]
    BY <1>1, <1>3, <1>4, <2>1, SaveFacts
  <2>3. Follows(event[e], rows, now) /\ RunOut(event[e], now)
    BY <1>2, <1>3 DEF IInv, RowFine
  <2>4. Follows(row, rows, now) /\ RunOut(row, now)
    BY <1>5, <1>6, <2>3, SeriesFollow
  <2> QED
    BY <1>3, <2>2, <2>4 DEF RowFine
<1>7. CASE r.plan # {}
  <2>1. PICK plan \in r.plan : Save(e, row, Apply(plan, rows))
    BY <1>7 DEF CommitUpdate
  <2>2. PICK t \in 0..now : /\ row.through = ThroughAfter(row, t)
                            /\ Fits(plan, row, t, rows, now)
    BY <1>5
  <2>3. t \in Nat /\ plan \in Plans
    BY <1>1, <1>3
  <2> DEFINE after == Apply(plan, rows)
  <2>4. /\ after \in SlotRows
        /\ Follows(row, after, now) /\ RunOut(row, now) /\ Survives(row, rows, after, now)
    BY <1>1, <1>3, <1>4, <2>2, <2>3, ApplyFits
  <2> HIDE DEF after
  <2>5. Save(e, row, after)
    BY <2>1 DEF after
  <2>6. /\ TableTypes' /\ event'[e] = row /\ slot'[e] = after
        /\ \A f \in Event \ {e} : event'[f] = event[f] /\ slot'[f] = slot[f]
    BY <1>1, <1>3, <2>4, <2>5, SaveFacts
  <2> QED
    BY <1>3, <2>4, <2>6 DEF RowFine
<1> QED
  BY <1>6, <1>7

LEMMA CommitUpdateSafe ==
  ASSUME IInv, NEW p \in Request, CommitUpdate(p)
  PROVE  IInv'
<1>1. WorldTypes /\ TableTypes /\ WorkTypes /\ LockTypes /\ now \in Nat
  BY TypeSplit, Facts DEF IInv
<1> DEFINE e == request[p].event
<1>2. /\ request[p].phase = "planned" /\ holder' = [holder EXCEPT ![e] = Nobody] /\ Done(p)
      /\ UNCHANGED <<now, sweep, hidden, served, failures>>
  BY DEF CommitUpdate
<1>3. e \in Event /\ holder[e] = p
  BY <1>2, PlannedFacts, Phases
<1>4. /\ TableTypes' /\ RowFine(event'[e], slot'[e], now)
      /\ \A f \in Event \ {e} : event'[f] = event[f] /\ slot'[f] = slot[f]
  BY UpdateWrites
<1>5. Idle \in RequestStates /\ request' = [request EXCEPT ![p] = Idle]
  BY <1>2 DEF RequestStates, Done
<1>6. /\ request' \in [Request -> RequestStates] /\ request'[p] = Idle
      /\ \A q \in Request \ {p} : request'[q] = request[q]
  BY <1>1, <1>5, PutRequest
<1>7. \A q \in Request, f \in Event :
        holder[f] = q <=> request[q].phase = "planned" /\ request[q].event = f
  BY <1>1 DEF LockTypes
<1>8. LockTypes'
  <2>1. /\ holder' \in [Event -> {Nobody, Sweep} \cup Request]
        /\ \A f \in Event : holder'[f] = IF f = e THEN Nobody ELSE holder[f]
    BY <1>1, <1>2, <1>3 DEF LockTypes
  <2>2. ASSUME NEW q \in Request, NEW f \in Event
        PROVE  holder'[f] = q <=> request'[q].phase = "planned" /\ request'[q].event = f
    <3>1. CASE q = p
      <4>1. request'[q].phase # "planned"
        BY <1>6, <3>1, Phases
      <4>2. holder[f] = q => f = e
        BY <1>7, <3>1
      <4> QED
        BY <2>1, <3>1, <4>1, <4>2, Phases
    <3>2. CASE q # p
      BY <1>3, <1>6, <1>7, <2>1, <3>2, Phases
    <3> QED
      BY <3>1, <3>2
  <2>3. \A f \in Event : holder'[f] = Sweep <=> holder[f] = Sweep
    BY <1>3, <2>1, Phases
  <2> QED
    BY <1>1, <1>2, <2>1, <2>2, <2>3 DEF LockTypes
<1>9. TypeOK'
  <2>1. WorldTypes' /\ WorkTypes'
    BY <1>1, <1>2, <1>6 DEF WorldTypes, WorkTypes
  <2> QED
    BY <1>4, <1>8, <2>1, TypeJoin
<1>10. \A q \in Request \ {p} : request[q].phase = "planned" => request[q].event # e
  BY <1>3, <1>7
<1>11. sweep.phase = "planned" => sweep.event # e
  BY <1>1, <1>3, Phases DEF LockTypes
<1>12. now' = now /\ sweep' = sweep
  BY <1>2
<1> QED
  BY <1>3, <1>4, <1>6, <1>9, <1>10, <1>11, <1>12, WriteSteps


LEMMA DueFacts ==
  ASSUME NEW e, sweep \in SweepStates, sweep.phase \in {"extending", "planned"}
  PROVE  /\ sweep.at \in Nat /\ sweep.due \in SomeOf(Event, Nat)
         /\ DueWithout(e) \in SomeOf(Event, Nat)
<1>1. sweep.at \in Nat /\ sweep.due \in SomeOf(Event, Nat)
  BY SweepPhases
<1> DEFINE due == sweep.due
           rest == DOMAIN due \ {e}
<1>2. DOMAIN due \subseteq Event /\ due \in [DOMAIN due -> Nat]
  BY <1>1, PartialFacts
<1>3. rest \in SUBSET Event /\ [f \in rest |-> due[f]] \in [rest -> Nat]
  BY <1>2
<1> HIDE DEF rest
<1>4. [f \in rest |-> due[f]] \in SomeOf(Event, Nat)
  BY <1>3, PartialType
<1> QED
  BY <1>1, <1>4 DEF DueWithout, rest

LEMMA PlanExtensionSafe ==
  ASSUME IInv, NEW e \in Event, PlanExtension(e)
  PROVE  IInv'
<1>1. WorldTypes /\ TableTypes /\ WorkTypes /\ LockTypes /\ now \in Nat
  BY TypeSplit, Facts DEF IInv
<1>2. /\ sweep.phase = "extending" /\ Free(e)
      /\ UNCHANGED <<now, tables, request, hidden, served, failures>>
  BY DEF PlanExtension, NextDue
<1> DEFINE due  == DueWithout(e)
<1>3. sweep.at \in Nat /\ due \in SomeOf(Event, Nat)
  BY <1>1, <1>2, DueFacts DEF WorkTypes
<1>8. PICK t \in sweep.at .. now :
        IF e \in Due(t)
          THEN sweep' = Extension(e, t) /\ holder' = [holder EXCEPT ![e] = Sweep]
          ELSE sweep' = Without(e) /\ UNCHANGED holder
  BY DEF PlanExtension
<1>9. t \in Nat /\ t <= now
  BY <1>1, <1>3
<1> DEFINE plan == Reconcile(event[e], t, slot[e])
<1>4. /\ now' = now /\ now <= now' /\ request' = request /\ event' = event /\ slot' = slot
      /\ \A f \in Event : Quiet(f)
  BY <1>1, <1>2, QuietTables DEF tables
<1>5. WorldTypes' /\ TableTypes'
  BY <1>1, <1>2, TablesKept DEF WorldTypes
<1> HIDE DEF due
<1>6. CASE e \in Due(t)
  <2>1. e \in InUse
    BY <1>6 DEF Due
  <2>2. event[e] \in EventRows /\ slot[e] \in SlotRows /\ event[e] # Absent
    BY <2>1, Facts DEF IInv
  <2>3. plan \in Plans /\ Fits(plan, event[e], t, slot[e], now)
    BY <1>1, <1>9, <2>2, ReconcileFits
  <2> HIDE DEF plan
  <2>4. /\ sweep' = [phase |-> "planned", at |-> sweep.at, due |-> due,
                     event |-> e, now |-> t, plan |-> plan]
        /\ holder' = [holder EXCEPT ![e] = Sweep]
    BY <1>6, <1>8 DEF Extension, due, plan
  <2>5. /\ sweep' \in SweepStates /\ sweep'.phase = "planned" /\ sweep'.event = e
        /\ sweep'.plan = plan /\ sweep'.now = t
    BY <1>3, <1>9, <2>3, <2>4 DEF SweepStates
  <2>6. LockTypes'
    <3>1. /\ holder[e] = Nobody /\ holder' \in [Event -> {Nobody, Sweep} \cup Request]
          /\ \A f \in Event : holder'[f] = IF f = e THEN Sweep ELSE holder[f]
      BY <1>1, <1>2, <2>4 DEF LockTypes, Free
    <3>2. \A q \in Request, f \in Event : holder'[f] = q <=> holder[f] = q
      BY <3>1, Phases
    <3>3. \A f \in Event : holder[f] # Sweep
      BY <1>1, <1>2 DEF LockTypes
    <3>4. \A f \in Event : holder'[f] = Sweep <=> sweep'.phase = "planned" /\ sweep'.event = f
      BY <2>5, <3>1, <3>3
    <3> QED
      BY <1>1, <1>4, <3>1, <3>2, <3>4 DEF LockTypes
  <2>7. TypeOK'
    BY <1>1, <1>4, <1>5, <2>5, <2>6, TypeJoin DEF WorkTypes
  <2>8. SweepFine(sweep', event', slot', now')
    BY <1>4, <2>2, <2>3, <2>5 DEF SweepFine
  <2> QED
    BY <1>4, <2>7, <2>8, QuietSteps
<1>7. CASE e \notin Due(t)
  <2>1. sweep' = [phase |-> "extending", at |-> sweep.at, due |-> due] /\ holder' = holder
    BY <1>7, <1>8 DEF Without, due
  <2>2. sweep' \in SweepStates /\ sweep'.phase = "extending"
    BY <1>3, <2>1 DEF SweepStates
  <2>3. LockTypes' /\ WorkTypes'
    BY <1>1, <1>2, <1>4, <2>1, <2>2, UnlockedSweep
  <2>4. TypeOK'
    BY <1>5, <2>3, TypeJoin
  <2>5. SweepFine(sweep', event', slot', now')
    BY <2>2 DEF SweepFine
  <2> QED
    BY <1>4, <2>4, <2>5, QuietSteps
<1> QED
  BY <1>6, <1>7

\* The sweep gives up its lock and goes on, or is over.
LEMMA SweepReleases ==
  ASSUME LockTypes, WorkTypes, sweep' \in SweepStates, sweep'.phase # "planned",
         UNCHANGED request,
         holder' \in [Event -> {Nobody, Sweep} \cup Request],
         \A f \in Event : holder'[f] = IF holder[f] = Sweep THEN Nobody ELSE holder[f]
  PROVE  LockTypes' /\ WorkTypes'
<1>1. \A q \in Request, f \in Event : holder'[f] = q <=> holder[f] = q
  BY Phases
<1>2. \A f \in Event : holder'[f] # Sweep
  BY Phases
<1> QED
  BY <1>1, <1>2 DEF LockTypes, WorkTypes

LEMMA ResumedFacts ==
  ASSUME sweep \in SweepStates, sweep.phase = "planned"
  PROVE  Resumed \in SweepStates /\ Resumed.phase = "extending"
<1>1. sweep.at \in Nat /\ sweep.due \in SomeOf(Event, Nat)
  BY DueFacts
<1> QED
  BY <1>1 DEF Resumed, SweepStates

LEMMA ExtensionFailsSafe ==
  ASSUME IInv, ExtensionFails
  PROVE  IInv'
<1>1. WorldTypes /\ TableTypes /\ WorkTypes /\ LockTypes /\ now \in Nat
  BY TypeSplit, Facts DEF IInv
<1>2. /\ failures < MaxFailures /\ failures' = failures + 1
      /\ UNCHANGED <<now, tables, request, hidden, served>>
  BY DEF ExtensionFails
<1>3. WorldTypes' /\ TableTypes'
  <2>1. WorldTypes'
    BY <1>1, <1>2, BoundAssumption DEF WorldTypes
  <2> QED
    BY <1>1, <1>2, <2>1, TablesKept
<1>4. sweep' \in SweepStates /\ sweep'.phase = "extending" /\ LockTypes' /\ WorkTypes'
  <2>1. CASE /\ sweep.phase = "planned" /\ sweep' = Resumed
             /\ holder' = [holder EXCEPT ![sweep.event] = Nobody]
    <3>1. sweep' \in SweepStates /\ sweep'.phase = "extending"
      BY <1>1, <2>1, ResumedFacts DEF WorkTypes
    <3> DEFINE e == sweep.event
    <3>2. e \in Event /\ \A f \in Event : holder[f] = Sweep <=> e = f
      BY <1>1, <2>1, SweepPhases DEF WorkTypes, LockTypes
    <3>3. /\ holder' \in [Event -> {Nobody, Sweep} \cup Request]
          /\ \A f \in Event : holder'[f] = IF f = e THEN Nobody ELSE holder[f]
      BY <1>1, <2>1, <3>2 DEF LockTypes
    <3>4. \A f \in Event : holder'[f] = IF holder[f] = Sweep THEN Nobody ELSE holder[f]
      BY <3>2, <3>3
    <3> QED
      BY <1>1, <1>2, <3>1, <3>3, <3>4, SweepReleases
  <2>2. CASE \E e \in Event : NextDue(e) /\ sweep' = Without(e) /\ UNCHANGED holder
    <3>1. PICK e \in Event : NextDue(e) /\ sweep' = Without(e) /\ UNCHANGED holder
      BY <2>2
    <3>2. sweep.phase = "extending"
      BY <3>1 DEF NextDue
    <3> DEFINE due == DueWithout(e)
    <3>3. sweep.at \in Nat /\ due \in SomeOf(Event, Nat)
      BY <1>1, <3>2, DueFacts DEF WorkTypes
    <3>4. sweep' = [phase |-> "extending", at |-> sweep.at, due |-> due]
      BY <3>1 DEF Without
    <3> HIDE DEF due
    <3>5. sweep' \in SweepStates /\ sweep'.phase = "extending"
      BY <3>3, <3>4 DEF SweepStates
    <3> QED
      BY <1>1, <1>2, <3>1, <3>2, <3>5, UnlockedSweep
  <2> QED
    BY <2>1, <2>2 DEF ExtensionFails
<1>5. TypeOK'
  BY <1>3, <1>4, TypeJoin
<1>6. SweepFine(sweep', event', slot', now')
  BY <1>4 DEF SweepFine
<1>7. now <= now' /\ request' = request /\ \A f \in Event : Quiet(f)
  BY <1>1, <1>2, QuietTables
<1> QED
  BY <1>5, <1>6, <1>7, QuietSteps

LEMMA SweepDiesSafe ==
  ASSUME IInv, SweepDies
  PROVE  IInv'
<1>1. WorldTypes /\ TableTypes /\ WorkTypes /\ LockTypes /\ now \in Nat
  BY TypeSplit, Facts DEF IInv
<1>2. /\ failures < MaxFailures /\ failures' = failures + 1 /\ sweep' = Idle
      /\ holder' = [e \in Event |-> IF holder[e] = Sweep THEN Nobody ELSE holder[e]]
      /\ UNCHANGED <<now, tables, request, hidden, served>>
  BY DEF SweepDies
<1>3. WorldTypes' /\ TableTypes'
  <2>1. WorldTypes'
    BY <1>1, <1>2, BoundAssumption DEF WorldTypes
  <2> QED
    BY <1>1, <1>2, <2>1, TablesKept
<1>4. sweep' \in SweepStates /\ sweep'.phase = "idle"
  BY <1>2, Phases DEF SweepStates
<1>5. LockTypes' /\ WorkTypes'
  <2>1. holder' \in [Event -> {Nobody, Sweep} \cup Request]
    BY <1>1, <1>2 DEF LockTypes
  <2> QED
    BY <1>1, <1>2, <1>4, <2>1, SweepReleases
<1>6. TypeOK'
  BY <1>3, <1>5, TypeJoin
<1>7. SweepFine(sweep', event', slot', now')
  BY <1>4 DEF SweepFine
<1>8. now <= now' /\ request' = request /\ \A f \in Event : Quiet(f)
  BY <1>1, <1>2, QuietTables
<1> QED
  BY <1>6, <1>7, <1>8, QuietSteps


\* What an extension leaves behind.
LEMMA ExtensionWrites ==
  ASSUME IInv, CommitExtension
  PROVE  LET e == sweep.event IN
         /\ e \in Event /\ TableTypes'
         /\ RowFine(event'[e], slot'[e], now)
         /\ Survives(event'[e], slot[e], slot'[e], now)
         /\ \A f \in Event \ {e} : event'[f] = event[f] /\ slot'[f] = slot[f]
<1>1. TableTypes /\ now \in Nat /\ sweep \in SweepStates /\ sweep.phase = "planned"
  BY TypeSplit, Facts DEF IInv, WorkTypes, CommitExtension
<1> DEFINE e     == sweep.event
           t     == sweep.now
           plan  == sweep.plan
           rows  == slot[e]
           row   == Recorded(event[e], t)
           after == Apply(plan, rows)
           left  == Pruned(after, WindowFrom(t))
<1>2. e \in Event /\ t \in Nat /\ plan \in Plans
  BY <1>1, SweepPhases
<1>3. event[e] # Absent /\ Fits(plan, event[e], t, rows, now)
  BY <1>1 DEF IInv, SweepFine
<1>4. event[e] \in EventRows /\ rows \in SlotRows /\ t <= now
  BY <1>1, <1>2, <1>3, Facts DEF IInv, Fits
<1>5. Save(e, row, left)
  BY DEF CommitExtension
<1> HIDE DEF plan, t, rows
<1>6. /\ row \in EventRows /\ row.through = ThroughAfter(row, t)
      /\ Fits(plan, row, t, rows, now)
  BY <1>2, <1>3, <1>4, RecordedFacts
<1> HIDE DEF row
<1>7. /\ after \in SlotRows
      /\ Follows(row, after, now) /\ RunOut(row, now) /\ Survives(row, rows, after, now)
  BY <1>1, <1>2, <1>4, <1>6, ApplyFits
<1> HIDE DEF after
<1>8. /\ WindowFrom(t) \in Int /\ WindowFrom(now) \in Int
      /\ WindowFrom(t) <= WindowFrom(now)
  BY <1>1, <1>2, <1>4, WindowAssumption DEF WindowFrom
<1>9. /\ left \in SlotRows /\ DOMAIN left = {d \in DOMAIN after : d >= WindowFrom(t)}
      /\ \A d \in DOMAIN left : left[d] = after[d]
  BY <1>7, <1>8, PrunedFacts
<1> HIDE DEF left
<1>10. Follows(row, left, now) /\ RunOut(row, now)
  <2>1. \A d \in Nat : d >= WindowFrom(now) =>
          /\ d \in DOMAIN left <=> d \in DOMAIN after
          /\ d \in DOMAIN left => left[d].length = after[d].length
    BY <1>8, <1>9
  <2>2. now <= now
    BY <1>1
  <2> QED
    BY <1>1, <1>6, <1>7, <1>9, <2>1, <2>2, FollowsStays
<1>11. Survives(row, rows, left, now)
  <2> SUFFICES ASSUME NEW d \in DOMAIN rows, rows[d].off, ~(d < WindowFrom(now)),
                      ~(d \notin ProducedBefore(row, End(row, now)))
               PROVE  d \in DOMAIN left /\ left[d].off
    BY DEF Survives
  <2>1. d \in DOMAIN after /\ after[d].off
    BY <1>7 DEF Survives
  <2>2. d \in Nat
    BY <1>4, SlotFacts
  <2>3. d >= WindowFrom(t)
    BY <1>8, <2>2
  <2> QED
    BY <1>9, <2>1, <2>3
<1>12. /\ TableTypes' /\ event'[e] = row /\ slot'[e] = left
       /\ \A f \in Event \ {e} : event'[f] = event[f] /\ slot'[f] = slot[f]
  BY <1>1, <1>2, <1>5, <1>6, <1>9, SaveFacts
<1>13. RowFine(event'[e], slot'[e], now)
  BY <1>10, <1>12 DEF RowFine
<1> QED
  BY <1>2, <1>11, <1>12, <1>13 DEF rows

LEMMA CommitExtensionSafe ==
  ASSUME IInv, CommitExtension
  PROVE  IInv'
<1>1. WorldTypes /\ TableTypes /\ WorkTypes /\ LockTypes /\ now \in Nat
  BY TypeSplit, Facts DEF IInv
<1> DEFINE e == sweep.event
<1>2. /\ sweep.phase = "planned" /\ holder' = [holder EXCEPT ![e] = Nobody] /\ sweep' = Resumed
      /\ UNCHANGED <<now, request, hidden, served, failures>>
  BY DEF CommitExtension
<1>3. /\ e \in Event /\ TableTypes' /\ RowFine(event'[e], slot'[e], now)
      /\ \A f \in Event \ {e} : event'[f] = event[f] /\ slot'[f] = slot[f]
  BY ExtensionWrites
<1>4. sweep' \in SweepStates /\ sweep'.phase = "extending"
  BY <1>1, <1>2, ResumedFacts DEF WorkTypes
<1>5. \A f \in Event : holder[f] = Sweep <=> e = f
  BY <1>1, <1>2 DEF LockTypes
<1>6. /\ holder' \in [Event -> {Nobody, Sweep} \cup Request]
      /\ \A f \in Event : holder'[f] = IF holder[f] = Sweep THEN Nobody ELSE holder[f]
  BY <1>1, <1>2, <1>3, <1>5 DEF LockTypes
<1>7. LockTypes' /\ WorkTypes'
  BY <1>1, <1>2, <1>4, <1>6, SweepReleases
<1>8. TypeOK'
  <2>1. WorldTypes'
    BY <1>1, <1>2 DEF WorldTypes
  <2> QED
    BY <1>3, <1>7, <2>1, TypeJoin
<1>9. \A p \in Request : request[p].phase = "planned" => request[p].event # e
  BY <1>1, <1>3, <1>5, Phases DEF LockTypes
<1>10. now' = now /\ request' = request /\ sweep'.phase # "planned"
  BY <1>2, <1>4
<1> QED
  BY <1>3, <1>8, <1>9, <1>10, WriteSteps

------------------------------------------------------------------------------
(* The theorems. *)

LEMMA Initially == Init => IInv
<1> SUFFICES ASSUME Init PROVE IInv
  OBVIOUS
<1>1. /\ now = 0 /\ served = 0 /\ failures = 0 /\ hidden = {} /\ sweep = Idle
      /\ event = [e \in Event |-> Absent] /\ slot = [e \in Event |-> NoRows]
      /\ holder = [e \in Event |-> Nobody] /\ request = [p \in Request |-> Idle]
  BY DEF Init
<1>2. WorldTypes
  BY <1>1, BoundAssumption DEF WorldTypes
<1>3. TableTypes
  BY <1>1, NoRowsType DEF TableTypes
<1>4. WorkTypes
  BY <1>1 DEF WorkTypes, RequestStates, SweepStates
<1>5. LockTypes
  BY <1>1, Phases DEF LockTypes
<1>6. TypeOK
  BY <1>2, <1>3, <1>4, <1>5, TypeSplit
<1>7. \A e \in Event : RowFine(event[e], slot[e], now)
  BY <1>1 DEF RowFine
<1>8. \A p \in Request : RequestFine(request[p], event, slot, now)
  BY <1>1, IdleFine
<1>9. SweepFine(sweep, event, slot, now)
  BY <1>1, Phases DEF SweepFine
<1> QED
  BY <1>6, <1>7, <1>8, <1>9 DEF IInv

LEMMA CommandSafe ==
  ASSUME IInv, NEW p \in Request, Command(p)
  PROVE  IInv'
<1>1. CASE Arrive(p)
  BY <1>1, ArriveSafe
<1>2. CASE Refuse(p)
  BY <1>2, RefuseSafe
<1>3. CASE CommitUpdate(p)
  BY <1>3, CommitUpdateSafe
<1>4. ASSUME NEW e \in Event, CancelEvent(p, e)
      PROVE  IInv'
  BY <1>4, CancelEventSafe
<1>5. ASSUME NEW e \in Event, NEW d \in DOMAIN slot[e], CancelOccurrence(p, e, d)
      PROVE  IInv'
  BY <1>5, CancelOccurrenceSafe
<1>6. ASSUME NEW e \in Event, NEW start \in Start, NEW length \in Length,
             NEW rule \in Rule \cup {OneOff}, NEW who \in SUBSET Child,
             \/ CreateEvent(p, e, start, length, rule, who)
             \/ PlanUpdate(p, e, start, length, rule, who)
      PROVE  IInv'
  BY <1>6, CreateEventSafe, PlanUpdateSafe
<1> QED
  BY <1>1, <1>2, <1>3, <1>4, <1>5, <1>6 DEF Command

LEMMA Unchanging ==
  ASSUME IInv, UNCHANGED vars
  PROVE  IInv'
<1>1. UNCHANGED <<now, tables, holder, request, sweep, hidden, served, failures>>
  BY DEF vars
<1>2. WorldTypes' /\ TableTypes' /\ WorkTypes' /\ LockTypes' /\ now \in Nat
  <2>1. WorldTypes /\ TableTypes /\ WorkTypes /\ LockTypes /\ now \in Nat
    BY TypeSplit, Facts DEF IInv
  <2> QED
    BY <1>1, <2>1, TablesKept DEF WorldTypes, WorkTypes, LockTypes
<1>3. TypeOK' /\ now <= now' /\ \A e \in Event : Quiet(e)
  BY <1>1, <1>2, TypeJoin, QuietTables
<1> QED
  BY <1>1, <1>3, QuietSteps

LEMMA Inductive == Spec => []IInv
<1>1. IInv /\ [Next]_vars => IInv'
  <2> SUFFICES ASSUME IInv, [Next]_vars PROVE IInv'
    OBVIOUS
  <2>1. ASSUME NEW p \in Request, Command(p) PROVE IInv'
    BY <2>1, CommandSafe
  <2>2. CASE SweepPasses
    BY <2>2, StartSweepSafe, CommitExtensionSafe, FindPrunableSafe, PruneSafe,
       PlanExtensionSafe DEF SweepPasses
  <2>3. CASE ExtensionFails \/ SweepDies
    BY <2>3, ExtensionFailsSafe, SweepDiesSafe
  <2>4. CASE DayPasses \/ \E c \in Child : GuardianshipChanges(c)
    BY <2>4, SurroundingsSafe
  <2>5. CASE UNCHANGED vars
    BY <2>5, Unchanging
  <2> QED
    BY <2>1, <2>2, <2>3, <2>4, <2>5 DEF Next
<1> QED
  BY Initially, <1>1, PTL DEF Spec

\* Types of the tables, of what is planned, and of the locks: who holds one is
\* in the middle of a transaction over that event, and nobody else is.
THEOREM TypeCorrect == Spec => []TypeOK
<1>1. IInv => TypeOK
  BY DEF IInv
<1> QED
  BY <1>1, Inductive, PTL

\* Behind the trailing edge left to pruning, the occurrences of every event are
\* those of its present rule, as far as it says it is materialised, and of its
\* present length, whoever wrote them last and with whatever idea of the time.
THEOREM RuleIsFollowed == Spec => []OccurrencesFollowTheRule
<1>1. IInv => OccurrencesFollowTheRule
  <2> SUFFICES ASSUME IInv, NEW e \in InUse
               PROVE  LET end     == IF event[e].through = Null
                                       THEN now + Horizon ELSE event[e].through
                          current == {d \in DOMAIN slot[e] : d >= WindowFrom(now)}
                      IN /\ current = {d \in ProducedBefore(event[e], end) : d >= WindowFrom(now)}
                         /\ \A d \in current : slot[e][d].length = event[e].length
    BY DEF OccurrencesFollowTheRule
  <2>1. e \in Event /\ event[e] # Absent
    BY DEF InUse
  <2>2. Follows(event[e], slot[e], now)
    BY <2>1 DEF IInv, RowFine
  <2> QED
    BY <2>2 DEF Follows, End
<1> QED
  BY <1>1, Inductive, PTL


\* An occurrence that was cancelled is there and cancelled after a step, or out
\* of the window, or no longer one the rule produces.
StaysOff(e) == \A d \in DOMAIN slot[e] : slot[e][d].off =>
  \/ d \in DOMAIN slot'[e] /\ slot'[e][d].off
  \/ d < WindowFrom(now)
  \/ d \notin ProducedBefore(event'[e], End(event'[e], now))

LEMMA OffStays ==
  ASSUME IInv, [Next]_vars, NEW e \in InUse
  PROVE  StaysOff(e)
<1>1. e \in Event /\ slot[e] \in SlotRows /\ event[e] # Absent /\ TableTypes
  BY TypeSplit, Facts DEF IInv, InUse
<1>2. ASSUME slot'[e] = slot[e] PROVE StaysOff(e)
  BY <1>2 DEF StaysOff
<1>3. ASSUME Survives(event'[e], slot[e], slot'[e], now) PROVE StaysOff(e)
  BY <1>3 DEF StaysOff, Survives
<1>4. ASSUME NEW p \in Request, Command(p) PROVE StaysOff(e)
  <2>1. CASE Arrive(p) \/ Refuse(p)
    BY <1>2, <2>1 DEF Arrive, Refuse, tables
  <2>2. CASE CommitUpdate(p)
    <3>1. CASE e = request[p].event
      BY <1>2, <1>3, <2>2, <3>1, UpdateWrites
    <3>2. CASE e # request[p].event
      BY <1>1, <1>2, <2>2, <3>2, UpdateWrites
    <3> QED
      BY <3>1, <3>2
  <2>3. ASSUME NEW f \in Event, CancelEvent(p, f) PROVE StaysOff(e)
    BY <1>2, <2>3 DEF CancelEvent
  <2>4. ASSUME NEW f \in Event, NEW d \in DOMAIN slot[f], CancelOccurrence(p, f, d)
        PROVE  StaysOff(e)
    <3>1. slot' = [slot EXCEPT ![f] = Off(slot[f], d)] /\ slot \in [Event -> SlotRows]
      BY <1>1, <2>4 DEF CancelOccurrence, TableTypes
    <3>2. CASE e # f
      BY <1>1, <1>2, <3>1, <3>2
    <3>3. CASE e = f
      <4> DEFINE rows == slot[e]
                 new  == Off(rows, d)
      <4>1. slot'[e] = new /\ rows \in SlotRows /\ d \in DOMAIN rows
        BY <1>1, <2>4, <3>1, <3>3
      <4>2. /\ DOMAIN new = DOMAIN rows /\ new[d].off
            /\ \A c \in DOMAIN rows \ {d} : new[c] = rows[c]
        BY <4>1, OffFacts
      <4> HIDE DEF new
      <4>3. ASSUME NEW c \in DOMAIN rows, rows[c].off PROVE c \in DOMAIN new /\ new[c].off
        BY <4>2, <4>3
      <4> QED
        BY <4>1, <4>3 DEF StaysOff
    <3> QED
      BY <3>2, <3>3
  <2>5. ASSUME NEW f \in Event, NEW start, NEW length, NEW rule, NEW who,
               CreateEvent(p, f, start, length, rule, who)
        PROVE  StaysOff(e)
    <3>1. event[f] = Absent /\ slot \in [Event -> SlotRows]
      BY <1>1, <2>5 DEF CreateEvent, TableTypes
    <3>2. slot'[e] = slot[e]
      BY <1>1, <2>5, <3>1 DEF CreateEvent, Save
    <3> QED
      BY <1>2, <3>2
  <2>6. ASSUME NEW f \in Event, NEW start, NEW length, NEW rule, NEW who,
               PlanUpdate(p, f, start, length, rule, who)
        PROVE  StaysOff(e)
    BY <1>2, <2>6 DEF PlanUpdate, tables
  <2> QED
    BY <1>4, <2>1, <2>2, <2>3, <2>4, <2>5, <2>6 DEF Command
<1>5. CASE CommitExtension
  <2>1. CASE e = sweep.event
    BY <1>3, <1>5, <2>1, ExtensionWrites
  <2>2. CASE e # sweep.event
    BY <1>1, <1>2, <1>5, <2>2, ExtensionWrites
  <2> QED
    BY <2>1, <2>2
<1>6. CASE PruneTrailing
  <2>1. PICK from \in Int :
          /\ from <= WindowFrom(now)
          /\ slot' = [f \in Event |-> IF f \in InUse /\ IsRecurring(event[f])
                                        THEN Pruned(slot[f], from) ELSE slot[f]]
    BY <1>6, PrunedFrom
  <2> DEFINE rows == slot[e]
             left == Pruned(rows, from)
  <2>2. WindowFrom(now) \in Int /\ rows \in SlotRows
    BY <1>1, Facts DEF IInv
  <2>3. /\ DOMAIN left = {d \in DOMAIN rows : d >= from}
        /\ \A d \in DOMAIN left : left[d] = rows[d]
    BY <2>2, PrunedFacts
  <2>4. slot'[e] = left \/ slot'[e] = slot[e]
    BY <1>1, <2>1
  <2> HIDE DEF left
  <2>5. ASSUME slot'[e] = left, NEW d \in DOMAIN rows, rows[d].off
        PROVE  \/ d \in DOMAIN slot'[e] /\ slot'[e][d].off
               \/ d < WindowFrom(now)
    <3>1. d \in Nat
      BY <2>2, SlotFacts
    <3> QED
      BY <2>1, <2>2, <2>3, <2>5, <3>1
  <2> QED
    BY <1>2, <2>4, <2>5 DEF StaysOff
<1>7. CASE \/ StartSweep \/ FindPrunable \/ ExtensionFails \/ SweepDies \/ DayPasses
           \/ \E f \in Event : PlanExtension(f)
           \/ \E c \in Child : GuardianshipChanges(c)
           \/ UNCHANGED vars
  BY <1>2, <1>7 DEF StartSweep, FindPrunable, ExtensionFails, SweepDies, DayPasses,
     PlanExtension, GuardianshipChanges, vars, tables
<1> QED
  BY <1>4, <1>5, <1>6, <1>7 DEF Next, SweepPasses

\* An occurrence that was cancelled stays so through edits, sweeps, pruning and
\* their overlaps, while the rule produces its day and the window reaches it.
THEOREM CancelledStaysCancelled == Spec => CancellationSurvives
<1>1. IInv /\ [Next]_vars =>
        [\A e \in InUse : \A d \in DOMAIN slot[e] : slot[e][d].off =>
           \/ d \in DOMAIN slot'[e] /\ slot'[e][d].off
           \/ d < WindowFrom(now)
           \/ d \notin ProducedBefore(event'[e], IF event'[e].through = Null
                THEN now + Horizon ELSE event'[e].through)]_vars
  BY OffStays DEF StaysOff, End
<1> QED
  BY <1>1, Inductive, PTL DEF Spec, CancellationSurvives

==============================================================================
