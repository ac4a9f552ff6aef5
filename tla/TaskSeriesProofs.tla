--------------------------- MODULE TaskSeriesProofs ---------------------------
(***************************************************************************)
(* Proofs about TaskSeries, for every set of tasks, members, sweeps, rules *)
(* and dues: the shape of a series through closing, reopening, editing and *)
(* erasure, what a version stands for, and what a sweep announces.         *)
(***************************************************************************)
EXTENDS TLAPS, WellFoundedInduction, TaskSeries

Used(t) == task[t].status # "unused"

\* Rows are allocated in order, so the next row is newer than every other.
InOrder == \A t, u \in Task : u < t /\ Used(t) => Used(u)

\* A series bears the name of its first task, as long as that one is there.
SeriesRooted ==
  \A t \in Existing : LET first == task[t].series IN
    first # NoTask => Used(first) /\ (Exists(first) => task[first].series = first)

\* A predecessor is there, has given up its flag for good, and is found by an
\* erasure that has found its successor.
PredsStay ==
  \A t \in Existing : LET p == task[t].pred IN
    p # NoTask => /\ Exists(p) /\ ~task[p].head /\ task[p].series # NoTask
                  /\ t \in erasing => p \in erasing

\* A task that recurs and is not the head has its successor.
OthersSucceeded ==
  \A t \in Existing :
    task[t].rule # NoRule /\ ~task[t].head => \E u \in Existing : task[u].pred = t

\* A head that stays closed is at the end of its rule, or its series was stopped.
RuleOver(row) ==
  row.status \in Closed /\ row.head => SuccessorDue(row, row.closedAt) = NoDue
HeadsOver == \A t \in Existing : t \in stopped \/ RuleOver(task[t])

\* The marker of a row is what was last announced for it.
MarkerTrue ==
  \A t \in Task : /\ ~Used(t) => announced[t] = <<>>
                  /\ Exists(t) => task[t].reported = LastAnnounced(t)

SeriesInv ==
  /\ InOrder /\ SeriesRooted /\ PredsStay /\ OthersSucceeded /\ HeadsOver
  /\ erasing \subseteq Existing
  /\ OneNewestHead /\ OneSuccessor
IInv == TypeOK /\ SeriesInv /\ MarkerTrue /\ NotAnnouncedAgain

\* What a change of one row leaves alone: the place of the row in its series.
Present == {"open", "completed", "cancelled"}
Keeps(t, row) ==
  /\ row \in TaskRows /\ IsSound(row)
  /\ t \in stopped' \/ RuleOver(row)
  /\ row.status \in Present
  /\ row.pred = task[t].pred
  /\ \/ row.series = task[t].series
     \/ task[t].series = NoTask /\ row.series = t /\ row.head
  /\ row.head => task[t].head \/ task[t].series = NoTask
  /\ row.rule # NoRule /\ ~row.head => task[t].rule # NoRule /\ ~task[t].head

\* A commit of a member's change: a new version, and the same marker.
Alters(t, row) ==
  /\ t \in Existing
  /\ Keeps(t, row)
  /\ row.reported = task[t].reported
  /\ row.version > task[t].version

\* A row as createTask inserts it.
Fresh(t, row) ==
  /\ row \in TaskRows /\ IsSound(row)
  /\ row.status = "open" /\ row.pred = NoTask /\ row.reported = NoMoment
  /\ row.series \in {NoTask, t}
  /\ row.rule # NoRule => row.head

\* The two rows of a close that hands the series over.
Hands(t, old, s, new) ==
  /\ t \in Existing /\ task[t].head /\ task[t].series # NoTask
  /\ old \in TaskRows /\ IsSound(old)
  /\ old.status \in Closed /\ ~old.head
  /\ old.pred = task[t].pred /\ old.series = task[t].series
  /\ old.reported = task[t].reported /\ old.version > task[t].version
  /\ new \in TaskRows /\ IsSound(new)
  /\ new.status = "open" /\ new.head /\ new.pred = t
  /\ new.series = task[t].series /\ new.reported = NoMoment
  /\ DueMoment(new.due) > Later(DueMoment(old.due), old.closedAt)

HandOverOf(t, old, s, new) ==
  /\ IsNext(s)
  /\ task' = [task EXCEPT ![t] = old, ![s] = new]

------------------------------------------------------------------------------
(* Dues and schedules *)

LEMMA LeastOf ==
  ASSUME NEW S, S \subseteq Nat, S # {}
  PROVE  \E x \in S : \A y \in S : x <= y
  <1> DEFINE R == {ss \in Nat \X Nat : ss[1] < ss[2]}
  <1>1. IsWellFoundedOn(R, Nat)
    BY NatLessThanWellFounded, Zenon DEF OpToRel
  <1>2. \A x, y \in Nat : <<y, x>> \in R <=> y < x
    OBVIOUS
  <1> HIDE DEF R
  <1>3. PICK x \in S : \A y \in S : ~ (<<y, x>> \in R)
    BY <1>1, WFMin, Zenon
  <1>4. ASSUME NEW y \in S
        PROVE  x <= y
    <2>1. ~ (y < x)
      BY <1>2, <1>3, Zenon
    <2> QED
      BY <2>1
  <1> QED
    BY <1>4

\* What nextOccurrenceAfter finds is later than the moment it is asked about.
LEMMA NextAfterIsLater ==
  ASSUME NEW rule \in Rule, NEW anchor \in Nat, NEW moment \in Nat,
         NextAfter(rule, anchor, moment) # NoMoment
  PROVE  /\ NextAfter(rule, anchor, moment) \in Nat
         /\ NextAfter(rule, anchor, moment) > moment
  <1> DEFINE later == {at \in Scheduled(rule, anchor) : at > moment}
  <1>1. Every[rule] \in Nat /\ Count[rule] \in Nat /\ Horizon \in Nat
    BY RuleAssumption, BoundAssumption
  <1>2. \A k, n \in Nat : anchor + 2 * k * n \in Nat
    OBVIOUS
  <1>3. Scheduled(rule, anchor) \subseteq Nat
    BY <1>1, <1>2 DEF Scheduled
  <1>4. /\ later # {}
        /\ NextAfter(rule, anchor, moment)
             = CHOOSE at \in later : \A at2 \in later : at <= at2
    BY DEF NextAfter
  <1>5. \E at \in later : \A at2 \in later : at <= at2
    <2>1. later \subseteq Nat
      BY <1>3
    <2> HIDE DEF later
    <2> QED
      BY <1>4, <2>1, LeastOf
  <1>6. NextAfter(rule, anchor, moment) \in later
    <2> HIDE DEF later
    <2> QED
      BY <1>4, <1>5
  <1> QED
    BY <1>3, <1>6

LEMMA DueMomentType ==
  ASSUME NEW due \in [at : Nat, timed : BOOLEAN]
  PROVE  DueMoment(due) \in Nat
  BY DEF DueMoment

LEMMA AsDueIsLater ==
  ASSUME NEW due, IsDue(due), NEW at \in Nat, at > DueMoment(due),
         NEW moment \in Nat, at > moment
  PROVE  LET next == AsDue(at, due.timed) IN
         IsDue(next) /\ next # NoDue /\ DueMoment(next) > moment
  <1> DEFINE next == AsDue(at, due.timed)
             day  == IF due.timed THEN at ELSE 2 * (at \div 2)
  <1>1. due.timed \in BOOLEAN /\ due.at \in Nat \ {0} /\ at \in Nat \ {0}
    BY DEF IsDue, DueMoment
  <1>2. next = [at |-> day, timed |-> due.timed]
    BY <1>1 DEF AsDue, NoMoment
  <1>3. CASE due.timed
    <2>1. day = at
      BY <1>3
    <2> QED
      BY <1>1, <1>2, <1>3, <2>1 DEF IsDue, DueMoment, NoDue
  <1>4. CASE ~due.timed
    <2>1. due.at >= 1 /\ at > due.at + 2
      BY <1>1, <1>4 DEF DueMoment
    <2>2. day = 2 * (at \div 2)
      BY <1>4
    <2>3. day \in Nat /\ day + 2 > at /\ day % 2 = 0
      BY <1>1, <2>2
    <2>4. day # 0
      BY <1>1, <2>1, <2>3
    <2> QED
      BY <1>1, <1>2, <1>4, <2>3, <2>4 DEF IsDue, DueMoment, NoDue
  <1> QED
    BY <1>1, <1>3, <1>4

\* A successor is due after its head was, and after the close.
LEMMA SuccessorDueIsLater ==
  ASSUME NEW row \in TaskRows, IsSound(row), NEW closedAt \in Nat,
         SuccessorDue(row, closedAt) # NoDue
  PROVE  /\ row.head /\ row.rule \in Rule /\ row.rule # NoRule
         /\ IsDue(SuccessorDue(row, closedAt))
         /\ DueMoment(SuccessorDue(row, closedAt)) > Later(DueMoment(row.due), closedAt)
  <1> DEFINE moment == Later(DueMoment(row.due), closedAt)
             at     == NextAfter(row.rule, row.anchor, moment)
  <1>1. /\ row.head /\ row.rule # NoRule
        /\ SuccessorDue(row, closedAt) = AsDue(at, row.due.timed)
    BY DEF SuccessorDue
  <1>2. /\ row.rule \in Rule /\ row.anchor \in Nat /\ IsDue(row.due)
        /\ DueMoment(row.due) \in Nat
    BY <1>1, DueMomentType DEF TaskRows, Rules, IsSound
  <1>3. moment \in Nat /\ moment >= DueMoment(row.due) /\ moment >= closedAt
    BY <1>2 DEF Later
  <1>4. at # NoMoment
    BY <1>1 DEF AsDue
  <1>5. at \in Nat /\ at > moment
    BY <1>2, <1>3, <1>4, NextAfterIsLater
  <1> HIDE DEF at, moment
  <1>6. at > DueMoment(row.due)
    BY <1>2, <1>3, <1>5
  <1>7. IsDue(AsDue(at, row.due.timed)) /\ DueMoment(AsDue(at, row.due.timed)) > moment
    BY <1>2, <1>3, <1>5, <1>6, AsDueIsLater
  <1> QED
    BY <1>1, <1>2, <1>7 DEF moment


------------------------------------------------------------------------------
(* What each command of a member does to the table *)

LEMMA RowType ==
  ASSUME TypeOK, NEW t \in Task
  PROVE  /\ t \in Nat \ {0}
         /\ task[t] \in TaskRows /\ IsSound(task[t])
         /\ now \in Nat
         /\ task[t].version \in 0..MaxVersion
         /\ t \in Existing => task[t].status \in Present
  BY TaskAssumption, BoundAssumption
     DEF TypeOK, TaskRows, Existing, Exists, Status, Present

LEMMA BlankType == Blank \in TaskRows /\ IsSound(Blank)
  BY BoundAssumption
     DEF Blank, TaskRows, Status, NoDue, NoRule, NoTask, NoMoment, Rules, IsSound

\* The methods of a task, field by field.
LEMMA RelinquishedFields ==
  ASSUME NEW row \in TaskRows
  PROVE  LET new == Relinquished(row) IN
         /\ new \in TaskRows
         /\ ~new.head
         /\ new.status = row.status /\ new.due = row.due /\ new.rule = row.rule
         /\ new.anchor = row.anchor /\ new.series = row.series
         /\ new.pred = row.pred /\ new.reported = row.reported
         /\ new.closedAt = row.closedAt /\ new.version = row.version
  BY DEF Relinquished, TaskRows

LEMMA ClosedFields ==
  ASSUME NEW row \in TaskRows, row.version + 1 \in 0..MaxVersion,
         NEW status \in Status, NEW at \in Nat
  PROVE  LET new == ClosedAs(row, status, at) IN
         /\ new \in TaskRows
         /\ new.status = status /\ new.closedAt = at
         /\ new.version = row.version + 1
         /\ new.due = row.due /\ new.rule = row.rule /\ new.anchor = row.anchor
         /\ new.series = row.series /\ new.pred = row.pred
         /\ new.head = row.head /\ new.reported = row.reported
  <1> DEFINE mid == [row EXCEPT !.status = status, !.closedAt = at]
  <1>1. /\ mid \in TaskRows
        /\ mid.status = status /\ mid.closedAt = at
        /\ mid.version = row.version
        /\ mid.due = row.due /\ mid.rule = row.rule /\ mid.anchor = row.anchor
        /\ mid.series = row.series /\ mid.pred = row.pred
        /\ mid.head = row.head /\ mid.reported = row.reported
    BY DEF TaskRows
  <1>2. ClosedAs(row, status, at) = [mid EXCEPT !.version = @ + 1]
    BY DEF ClosedAs, Commit
  <1> HIDE DEF mid
  <1> QED
    BY <1>1, <1>2 DEF TaskRows

LEMMA SuccessorFields ==
  ASSUME NEW row \in TaskRows, NEW due \in [at : Nat, timed : BOOLEAN],
         NEW t \in Task
  PROVE  LET new == SuccessorOf(t, row, due) IN
         /\ new \in TaskRows
         /\ new.status = "open" /\ new.due = due /\ new.pred = t /\ new.head
         /\ new.reported = NoMoment /\ new.version = 1
         /\ new.rule = row.rule /\ new.anchor = row.anchor
         /\ new.series = row.series
  <1> DEFINE new == SuccessorOf(t, row, due)
  <1>1. MaxVersion \in Nat \ {0}
    BY BoundAssumption
  <1>2. /\ new.status = "open" /\ new.due = due /\ new.pred = t /\ new.head
        /\ new.reported = NoMoment /\ new.version = 1
        /\ new.rule = row.rule /\ new.anchor = row.anchor
        /\ new.series = row.series
    BY DEF SuccessorOf, TaskRows
  <1> DEFINE mid == [row EXCEPT !.status = "open", !.due = due, !.pred = t]
             end == [mid EXCEPT !.head = TRUE, !.reported = NoMoment,
                                !.closedAt = NoMoment]
  <1>3. mid \in TaskRows
    BY DEF TaskRows, Status
  <1>4. end \in TaskRows
    <2> HIDE DEF mid
    <2> QED
      BY <1>3 DEF TaskRows, NoMoment
  <1>5. new \in TaskRows
    <2>1. new = [end EXCEPT !.version = 1]
      BY DEF SuccessorOf
    <2> HIDE DEF new, end
    <2> QED
      BY <1>1, <1>4, <2>1 DEF TaskRows
  <1> QED
    BY <1>2, <1>5

\* An edit of a row that can still be edited, with what it leaves alone.
LEMMA EditedType ==
  ASSUME TypeOK, NEW t \in Existing, Editable(t),
         NEW row \in TaskRows, IsSound(row), row.status = "open",
         row.pred = task[t].pred, row.reported = task[t].reported,
         row.version = task[t].version,
         \/ row.series = task[t].series
         \/ task[t].series = NoTask /\ row.series = t /\ row.head,
         row.head => task[t].head \/ task[t].series = NoTask,
         row.rule # NoRule /\ ~row.head => task[t].rule # NoRule /\ ~task[t].head
  PROVE  Alters(t, Commit(row))
  <1>1. t \in Task /\ task[t].version \in 0..MaxVersion /\ MaxVersion \in Nat
    BY RowType, BoundAssumption DEF Existing
  <1>2. row.version + 1 \in 0..MaxVersion /\ row.version + 1 > task[t].version
    BY <1>1 DEF Editable
  <1>3. Commit(row) = [status |-> row.status, due |-> row.due, rule |-> row.rule,
                       anchor |-> row.anchor, series |-> row.series,
                       pred |-> row.pred, head |-> row.head,
                       reported |-> row.reported, assignees |-> row.assignees,
                       closedAt |-> row.closedAt, version |-> row.version + 1]
    BY DEF Commit, TaskRows
  <1>4. Commit(row) \in TaskRows
    BY <1>2, <1>3 DEF TaskRows
  <1>5. IsSound(Commit(row)) /\ RuleOver(Commit(row))
    BY <1>3 DEF IsSound, RuleOver, Closed
  <1> QED
    BY <1>2, <1>3, <1>4, <1>5 DEF Alters, Keeps, Present

LEMMA ClosedType ==
  ASSUME TypeOK, NEW t \in Existing, Editable(t), NEW status \in Closed,
         NEW at \in Nat
  PROVE  LET row == ClosedAs(task[t], status, at) IN
         /\ row \in TaskRows /\ IsSound(row)
         /\ row.status = status /\ row.closedAt = at
         /\ row.pred = task[t].pred /\ row.series = task[t].series
         /\ row.head = task[t].head /\ row.rule = task[t].rule
         /\ row.reported = task[t].reported /\ row.version > task[t].version
  <1> DEFINE old == task[t]
             row == ClosedAs(old, status, at)
  <1>1. /\ t \in Task /\ old.version \in 0..MaxVersion /\ MaxVersion \in Nat
        /\ old \in TaskRows /\ IsSound(old) /\ now \in Nat
    BY RowType, BoundAssumption DEF Existing
  <1>2. old.version + 1 \in 0..MaxVersion /\ old.version + 1 > old.version
    BY <1>1 DEF Editable
  <1>3. /\ row \in TaskRows
        /\ row.status = status /\ row.closedAt = at
        /\ row.version = old.version + 1
        /\ row.due = old.due /\ row.rule = old.rule /\ row.anchor = old.anchor
        /\ row.series = old.series /\ row.pred = old.pred
        /\ row.head = old.head /\ row.reported = old.reported
    BY <1>1, <1>2, ClosedFields DEF Closed, Status
  <1>4. IsSound(row)
    BY <1>1, <1>3 DEF IsSound
  <1> QED
    BY <1>2, <1>3, <1>4

LEMMA CloseCases ==
  ASSUME TypeOK, NEW t \in Existing, Editable(t), NEW status \in Closed,
         NEW spawn \in BOOLEAN, spawn \/ t \in stopped', NEW at \in Nat,
         CloseAs(t, status, spawn, at)
  PROVE  \/ \E row : Alters(t, row) /\ Put(t, row)
         \/ \E s \in Task : \E old, new : Hands(t, old, s, new) /\ HandOverOf(t, old, s, new)
  <1> DEFINE closed == ClosedAs(task[t], status, at)
             due    == IF spawn THEN SuccessorDue(closed, at) ELSE NoDue
  <1>1. /\ closed \in TaskRows /\ IsSound(closed)
        /\ closed.status = status /\ closed.closedAt = at
        /\ closed.pred = task[t].pred /\ closed.series = task[t].series
        /\ closed.head = task[t].head /\ closed.rule = task[t].rule
        /\ closed.reported = task[t].reported /\ closed.version > task[t].version
    BY ClosedType
  <1>2. /\ t \in Task
        /\ MaxVersion \in Nat \ {0}
    BY RowType, BoundAssumption DEF Existing
  <1>3. CASE due = NoDue
    <2>1. Put(t, closed)
      BY <1>3 DEF CloseAs
    <2>2. t \in stopped' \/ RuleOver(closed)
      BY <1>1, <1>3 DEF RuleOver
    <2> HIDE DEF closed
    <2>3. Keeps(t, closed)
      BY <1>1, <2>2 DEF Keeps, Present, Closed
    <2> QED
      BY <1>1, <2>1, <2>3 DEF Alters
  <1>4. CASE due # NoDue
    <2>1. spawn /\ due = SuccessorDue(closed, at)
      BY <1>4
    <2>2. PICK s \in Task : HandOver(t, closed, s, due)
      BY <1>4 DEF CloseAs
    <2> DEFINE new == SuccessorOf(t, closed, due)
               old == Relinquished(closed)
    <2> HIDE DEF closed
    <2>3. /\ closed.head /\ closed.rule \in Rule /\ closed.rule # NoRule
          /\ IsDue(due) /\ due # NoDue
          /\ DueMoment(due) > Later(DueMoment(closed.due), closed.closedAt)
      BY <1>1, <1>2, <1>4, <2>1, SuccessorDueIsLater
    <2> HIDE DEF due
    <2>4. closed.series # NoTask /\ closed.anchor # NoMoment /\ closed.due # NoDue
      BY <1>1, <2>3 DEF IsSound
    <2>5. /\ old \in TaskRows /\ ~old.head
          /\ old.status = closed.status /\ old.due = closed.due
          /\ old.rule = closed.rule /\ old.anchor = closed.anchor
          /\ old.series = closed.series /\ old.pred = closed.pred
          /\ old.reported = closed.reported /\ old.version = closed.version
          /\ old.closedAt = closed.closedAt
      BY <1>1, RelinquishedFields
    <2>6. due \in [at : Nat, timed : BOOLEAN]
      BY <2>3 DEF IsDue
    <2>7. /\ new \in TaskRows
          /\ new.status = "open" /\ new.due = due /\ new.pred = t /\ new.head
          /\ new.reported = NoMoment /\ new.series = closed.series
          /\ new.rule = closed.rule /\ new.anchor = closed.anchor
      BY <1>1, <1>2, <2>6, SuccessorFields
    <2>8. IsSound(old)
      BY <1>1, <2>5 DEF IsSound
    <2>9. IsSound(new)
      BY <2>3, <2>4, <2>7 DEF IsSound
    <2>10. HandOverOf(t, old, s, new)
      BY <2>2 DEF HandOver, HandOverOf
    <2>11. Hands(t, old, s, new)
      BY <1>1, <2>3, <2>4, <2>5, <2>7, <2>8, <2>9 DEF Hands
    <2> QED
      BY <2>10, <2>11
  <1> QED
    BY <1>3, <1>4


LEMMA DueType ==
  ASSUME TypeOK, NEW t \in Task, NEW due \in Dues \cup {task[t].due}
  PROVE  /\ due \in [at : Nat, timed : BOOLEAN]
         /\ due = NoDue \/ IsDue(due)
         /\ due # NoDue => AnchorOf(due) \in Nat \ {0}
  <1>1. due \in DueInput => IsDue(due)
    BY DueAssumption
  <1>2. due = task[t].due => due = NoDue \/ IsDue(due)
    BY RowType DEF IsSound
  <1>3. due = NoDue \/ IsDue(due)
    BY <1>1, <1>2 DEF Dues
  <1>4. CASE due = NoDue
    BY <1>4 DEF NoDue
  <1>5. CASE IsDue(due)
    BY <1>5 DEF IsDue, AnchorOf
  <1> QED
    BY <1>3, <1>4, <1>5

LEMMA CreateCases ==
  ASSUME TypeOK, NEW t \in Task, NEW due \in Dues, NEW rule \in Rules,
         Create(t, due, rule)
  PROVE  \E row : Fresh(t, row) /\ Insert(t, row)
  <1>1. PICK who \in SUBSET Member : Insert(t, NewTask(t, due, rule, who))
    BY DEF Create
  <1> DEFINE row    == NewTask(t, due, rule, who)
             anchor == IF rule = NoRule THEN NoMoment ELSE AnchorOf(due)
             series == IF rule = NoRule THEN NoTask ELSE t
             flag   == rule # NoRule
             mid    == [Blank EXCEPT !.status = "open", !.due = due, !.rule = rule]
             end    == [mid EXCEPT !.anchor = anchor, !.series = series,
                                   !.head = flag]
  <1>2. /\ rule # NoRule => due # NoDue
        /\ due \in [at : Nat, timed : BOOLEAN]
        /\ due = NoDue \/ IsDue(due)
        /\ due # NoDue => AnchorOf(due) \in Nat \ {0}
        /\ MaxVersion \in Nat \ {0}
    BY DueType, BoundAssumption DEF Create
  <1>3. /\ mid \in TaskRows
        /\ mid.status = "open" /\ mid.due = due /\ mid.rule = rule
        /\ mid.pred = NoTask /\ mid.reported = NoMoment
    <2>1. /\ Blank.pred = NoTask /\ Blank.reported = NoMoment
      BY DEF Blank
    <2>2. Blank \in TaskRows
      BY BlankType
    <2> HIDE DEF Blank
    <2> QED
      BY <1>2, <2>1, <2>2 DEF TaskRows, Status
  <1>4. /\ flag \in BOOLEAN /\ (flag <=> rule # NoRule)
        /\ anchor \in Nat /\ (rule # NoRule => anchor # NoMoment)
        /\ series \in Task \cup {NoTask} /\ series \in {NoTask, t}
        /\ rule # NoRule => series = t /\ series # NoTask
    BY <1>2, TaskAssumption DEF NoMoment, NoTask
  <1>5. /\ end \in TaskRows
        /\ end.status = "open" /\ end.due = due /\ end.rule = rule
        /\ end.pred = NoTask /\ end.reported = NoMoment
        /\ end.anchor = anchor /\ end.series = series
        /\ end.head = flag
    <2> HIDE DEF mid, anchor, series, flag
    <2> QED
      BY <1>3, <1>4 DEF TaskRows
  <1>6. row = [end EXCEPT !.assignees = who, !.version = 1]
    BY Zenon DEF NewTask
  <1> HIDE DEF row, end, anchor, series, flag
  <1>7. /\ row \in TaskRows
        /\ row.status = "open" /\ row.due = due /\ row.rule = rule
        /\ row.pred = NoTask /\ row.reported = NoMoment
        /\ row.anchor = anchor /\ row.series = series
        /\ row.head = flag
    <2> DEFINE last == [end EXCEPT !.assignees = who]
    <2>1. /\ last \in TaskRows
          /\ last.status = "open" /\ last.due = due /\ last.rule = rule
          /\ last.pred = NoTask /\ last.reported = NoMoment
          /\ last.anchor = anchor /\ last.series = series
          /\ last.head = flag
      BY <1>5 DEF TaskRows
    <2>2. row = [last EXCEPT !.version = 1]
      BY <1>6
    <2> HIDE DEF last
    <2> QED
      BY <1>2, <2>1, <2>2 DEF TaskRows
  <1>8. IsSound(row)
    BY <1>2, <1>4, <1>7 DEF IsSound
  <1>9. Fresh(t, row)
    BY <1>4, <1>7, <1>8 DEF Fresh
  <1> QED
    BY <1>1, <1>9 DEF row

LEMMA UpdateCases ==
  ASSUME TypeOK, NEW t \in Task, NEW v, NEW due \in Dues \cup {task[t].due},
         NEW rule \in Rules, Update(t, v, due, rule)
  PROVE  \E row : Alters(t, row) /\ Put(t, row)
  <1>1. PICK row \in WithRule(t, due, rule) :
          /\ row.status = "open" /\ (row.rule # NoRule => row.due # NoDue)
          /\ Put(t, Commit(row))
    BY DEF Update, Edited
  <1>2. t \in Existing /\ Editable(t)
    BY DEF Update, Locked, Existing
  <1> DEFINE old == task[t]
  <1>3. /\ due \in [at : Nat, timed : BOOLEAN]
        /\ due = NoDue \/ IsDue(due)
        /\ due # NoDue => AnchorOf(due) \in Nat \ {0}
        /\ old \in TaskRows /\ IsSound(old) /\ t \in Nat \ {0}
    BY DueType, RowType
  <1>4. CASE rule = old.rule
    <2>1. row = [old EXCEPT !.due = due]
      BY <1>1, <1>4 DEF WithRule
    <2> HIDE DEF old
    <2>2. /\ row \in TaskRows
          /\ row.due = due /\ row.status = old.status /\ row.rule = old.rule
          /\ row.anchor = old.anchor /\ row.series = old.series
          /\ row.pred = old.pred /\ row.head = old.head
          /\ row.reported = old.reported /\ row.version = old.version
      BY <1>3, <2>1 DEF TaskRows
    <2>3. IsSound(row)
      BY <1>1, <1>3, <2>2 DEF IsSound
    <2> USE DEF old
    <2> QED
      BY <1>1, <1>2, <2>2, <2>3, EditedType
  <1>5. CASE rule # old.rule /\ rule = NoRule
    <2>1. row = [old EXCEPT !.due = due, !.rule = NoRule, !.anchor = NoMoment,
                            !.head = FALSE]
      BY <1>1, <1>5 DEF WithRule
    <2> DEFINE mid == [old EXCEPT !.due = due, !.rule = NoRule]
    <2> HIDE DEF old
    <2>2. /\ mid \in TaskRows
          /\ mid.due = due /\ mid.status = old.status /\ mid.rule = NoRule
          /\ mid.series = old.series
          /\ mid.pred = old.pred
          /\ mid.reported = old.reported /\ mid.version = old.version
      BY <1>3 DEF TaskRows, Rules
    <2>3. row = [mid EXCEPT !.anchor = NoMoment, !.head = FALSE]
      BY <2>1
    <2> HIDE DEF mid
    <2>4. /\ row \in TaskRows
          /\ row.due = due /\ row.status = old.status /\ row.rule = NoRule
          /\ row.series = old.series /\ ~row.head
          /\ row.pred = old.pred
          /\ row.reported = old.reported /\ row.version = old.version
      BY <2>2, <2>3 DEF TaskRows, NoMoment
    <2>5. IsSound(row)
      BY <1>3, <2>4 DEF IsSound
    <2> USE DEF old
    <2> QED
      BY <1>1, <1>2, <2>4, <2>5, EditedType
  <1>6. CASE rule # old.rule /\ rule # NoRule
    <2> DEFINE series == IF old.series = NoTask THEN t ELSE old.series
               anchor == AnchorOf(due)
    <2>1. /\ row = [old EXCEPT !.due = due, !.rule = rule, !.anchor = AnchorOf(due),
                      !.series = IF @ = NoTask THEN t ELSE @, !.head = TRUE]
          /\ old.series = NoTask \/ old.head
      BY <1>1, <1>6 DEF WithRule
    <2> DEFINE mid == [old EXCEPT !.due = due, !.rule = rule]
    <2>2. row = [mid EXCEPT !.anchor = anchor, !.series = series, !.head = TRUE]
      <3> HIDE DEF old
      <3> QED
        BY <1>3, <2>1 DEF TaskRows
    <2> HIDE DEF old
    <2>3. /\ mid \in TaskRows
          /\ mid.due = due /\ mid.status = old.status /\ mid.rule = rule
          /\ mid.pred = old.pred
          /\ mid.reported = old.reported /\ mid.version = old.version
      BY <1>3 DEF TaskRows
    <2> HIDE DEF mid
    <2>4. series \in Task \cup {NoTask} /\ series # NoTask
      BY <1>3 DEF TaskRows, NoTask
    <2>5. row.due = due /\ row.rule = rule /\ due # NoDue /\ anchor \in Nat \ {0}
      <3>1. row.due = due /\ row.rule = rule
        BY <2>2, <2>3 DEF TaskRows
      <3> QED
        BY <1>1, <1>3, <1>6, <3>1
    <2> HIDE DEF series, anchor
    <2>6. /\ row \in TaskRows
          /\ row.status = old.status /\ row.series = series /\ row.anchor = anchor
          /\ row.head /\ row.pred = old.pred
          /\ row.reported = old.reported /\ row.version = old.version
      BY <2>2, <2>3, <2>4, <2>5 DEF TaskRows
    <2>7. IsSound(row)
      BY <1>3, <1>6, <2>4, <2>5, <2>6 DEF IsSound, NoMoment
    <2>8. \/ row.series = old.series
          \/ old.series = NoTask /\ row.series = t
      BY <2>6 DEF series
    <2> USE DEF old
    <2> QED
      BY <1>1, <1>2, <2>1, <2>6, <2>7, <2>8, EditedType
  <1> QED
    BY <1>4, <1>5, <1>6


LEMMA ReopenCases ==
  ASSUME TypeOK, NEW t \in Task, NEW v, Reopen(t, v)
  PROVE  \E row : Alters(t, row) /\ Put(t, row)
  <1> DEFINE old == task[t]
             row == [old EXCEPT !.status = "open", !.closedAt = NoMoment]
  <1>1. t \in Existing /\ Editable(t) /\ Put(t, Commit(row))
    BY DEF Reopen, Reopened, Locked, Existing
  <1>2. old \in TaskRows /\ IsSound(old)
    BY RowType
  <1>3. /\ row \in TaskRows
        /\ row.status = "open" /\ row.due = old.due /\ row.rule = old.rule
        /\ row.anchor = old.anchor /\ row.series = old.series
        /\ row.pred = old.pred /\ row.head = old.head
        /\ row.reported = old.reported /\ row.version = old.version
    <2> HIDE DEF old
    <2> QED
      BY <1>2 DEF TaskRows, Status, NoMoment
  <1> HIDE DEF row
  <1>4. IsSound(row)
    BY <1>2, <1>3 DEF IsSound
  <1> QED
    BY <1>1, <1>3, <1>4, EditedType

LEMMA AssigneeCases ==
  ASSUME TypeOK, NEW t \in Task, NEW m \in Member, Assign(t, m) \/ Unassign(t, m)
  PROVE  \E row : Alters(t, row) /\ Put(t, row)
  <1> DEFINE old == task[t]
  <1>1. t \in Existing /\ Editable(t) /\ old.status = "open"
    BY DEF Assign, Unassign, Existing
  <1>2. old \in TaskRows /\ IsSound(old)
    BY RowType
  <1>3. PICK who \in SUBSET Member : Put(t, Commit([old EXCEPT !.assignees = who]))
    <2>1. old.assignees \subseteq Member
      BY <1>2 DEF TaskRows
    <2>2. CASE Assign(t, m)
      <3>1. Put(t, Commit([old EXCEPT !.assignees = old.assignees \cup {m}]))
        BY <2>2 DEF Assign, Assigned
      <3> QED
        BY <2>1, <3>1
    <2>3. CASE Unassign(t, m)
      <3>1. Put(t, Commit([old EXCEPT !.assignees = old.assignees \ {m}]))
        BY <2>3 DEF Unassign, Unassigned
      <3> QED
        BY <2>1, <3>1
    <2> QED
      BY <2>2, <2>3
  <1> DEFINE row == [old EXCEPT !.assignees = who]
  <1>4. /\ row \in TaskRows
        /\ row.status = old.status /\ row.due = old.due /\ row.rule = old.rule
        /\ row.anchor = old.anchor /\ row.series = old.series
        /\ row.pred = old.pred /\ row.head = old.head
        /\ row.reported = old.reported /\ row.version = old.version
    <2> HIDE DEF old
    <2> QED
      BY <1>2 DEF TaskRows
  <1>5. Put(t, Commit(row))
    BY <1>3
  <1> HIDE DEF row
  <1>6. IsSound(row)
    BY <1>2, <1>4 DEF IsSound
  <1> QED
    BY <1>1, <1>4, <1>5, <1>6, EditedType

\* A command inserts a row, changes one, or hands a series over.
LEMMA MemberCases ==
  ASSUME TypeOK, NEW t \in Task, MemberStep(t)
  PROVE  /\ UNCHANGED <<now, announced, candidates, erasing, gone>>
         /\ stopped' \in {stopped, stopped \cup {t}}
         /\ \/ \E row : Fresh(t, row) /\ Insert(t, row)
            \/ \E row : Alters(t, row) /\ Put(t, row)
            \/ \E s \in Task : \E old, new :
                 Hands(t, old, s, new) /\ HandOverOf(t, old, s, new)
  <1>1. CASE \E due \in Dues, rule \in Rules : Create(t, due, rule)
    BY <1>1, CreateCases DEF Create
  <1>2. CASE \E v \in 1..MaxVersion, due \in Dues \cup {task[t].due}, rule \in Rules :
               Update(t, v, due, rule)
    BY <1>2, UpdateCases DEF Update
  <1>3. CASE \E v \in 1..MaxVersion : Reopen(t, v)
    BY <1>3, ReopenCases DEF Reopen
  <1>4. CASE \E m \in Member : Assign(t, m) \/ Unassign(t, m)
    BY <1>4, AssigneeCases DEF Assign, Unassign
  <1>5. ASSUME NEW v \in 1..MaxVersion, NEW at \in Nat, Complete(t, v, at)
        PROVE  /\ UNCHANGED <<now, announced, candidates, erasing, gone, stopped>>
               /\ \/ \E row : Alters(t, row) /\ Put(t, row)
                  \/ \E s \in Task : \E old, new :
                       Hands(t, old, s, new) /\ HandOverOf(t, old, s, new)
    <2>1. /\ t \in Existing /\ Editable(t)
          /\ CloseAs(t, "completed", TRUE, at)
          /\ UNCHANGED <<now, announced, candidates, erasing, gone, stopped>>
      BY <1>5 DEF Complete, Locked, Existing
    <2>2. "completed" \in Closed /\ TRUE \in BOOLEAN
      BY DEF Closed
    <2> QED
      BY <2>1, <2>2, CloseCases
  <1>6. ASSUME NEW v \in 1..MaxVersion, NEW at \in Nat,
               NEW scope \in {"instance", "series"}, Cancel(t, v, scope, at)
        PROVE  /\ UNCHANGED <<now, announced, candidates, erasing, gone>>
               /\ stopped' \in {stopped, stopped \cup {t}}
               /\ \/ \E row : Alters(t, row) /\ Put(t, row)
                  \/ \E s \in Task : \E old, new :
                       Hands(t, old, s, new) /\ HandOverOf(t, old, s, new)
    <2> DEFINE spawn == scope = "instance"
    <2>1. /\ t \in Existing /\ Editable(t)
          /\ CloseAs(t, "cancelled", spawn, at)
          /\ UNCHANGED <<now, announced, candidates, erasing, gone>>
          /\ stopped' = IF scope = "series" THEN stopped \cup {t} ELSE stopped
      BY <1>6 DEF Cancel, Locked, Existing
    <2>2. "cancelled" \in Closed /\ spawn \in BOOLEAN
      BY DEF Closed
    <2>3. spawn \/ t \in stopped'
      BY <2>1
    <2> HIDE DEF spawn
    <2> QED
      BY <2>1, <2>2, <2>3, CloseCases
  <1>7. ClockReadings \subseteq Nat
    BY BoundAssumption DEF ClockReadings
  <1> QED
    BY <1>1, <1>2, <1>3, <1>4, <1>5, <1>6, <1>7 DEF MemberStep, Create, Update, Reopen, Assign, Unassign


------------------------------------------------------------------------------
(* The series, through every change of the table *)

\* A change of one row that leaves its place in the series alone.
LEMMA KeepsInv ==
  ASSUME TypeOK, SeriesInv, NEW t \in Existing, NEW row, Keeps(t, row),
         Put(t, row), erasing' = erasing, stopped \subseteq stopped'
  PROVE  SeriesInv'
  <1>1. /\ t \in Task /\ t \in Nat \ {0}
        /\ row.status \in Present /\ Exists(t) /\ Used(t)
    BY RowType DEF Existing, Exists, Used, Keeps
  <1>2. \A u \in Task : task'[u] = IF u = t THEN row ELSE task[u]
    BY <1>1 DEF Put, TypeOK
  <1>3. \A u \in Task : Used(u)' = Used(u) /\ Exists(u)' = Exists(u)
    BY <1>1, <1>2 DEF Used, Exists, Present
  <1>4. Existing' = Existing
    BY <1>3 DEF Existing
  <1>5. \A u \in Existing : u \in Task /\ Exists(u) /\ Used(u)
    BY DEF Existing, Exists, Used
  <1>6. InOrder'
    BY <1>3 DEF InOrder, SeriesInv
  <1>7. SeriesRooted'
    <2> SUFFICES ASSUME NEW u \in Existing, NEW first, first # NoTask,
                        task'[u].series = first
                 PROVE  Used(first)' /\ (Exists(first)' => task'[first].series = first)
      BY <1>4 DEF SeriesRooted
    <2>1. \/ task[u].series = first
          \/ u = t /\ first = t
      BY <1>2, <1>5 DEF Keeps
    <2>2. CASE u = t /\ first = t
      BY <1>1, <1>3, <2>2
    <2>3. CASE task[u].series = first
      <3>1. Used(first) /\ (Exists(first) => task[first].series = first)
        BY <2>3 DEF SeriesInv, SeriesRooted
      <3>2. first \in Task
        BY <1>5, <2>3, RowType DEF TaskRows
      <3>3. Exists(first) => task'[first].series = first
        BY <1>1, <1>2, <3>1, <3>2 DEF Keeps
      <3> QED
        BY <1>3, <3>1, <3>2, <3>3
    <2> QED
      BY <2>1, <2>2, <2>3
  <1>8. PredsStay'
    <2> SUFFICES ASSUME NEW u \in Existing, NEW p, p # NoTask, task'[u].pred = p
                 PROVE  /\ Exists(p)' /\ ~task'[p].head /\ task'[p].series # NoTask
                        /\ u \in erasing => p \in erasing
      BY <1>4 DEF PredsStay
    <2>1. task[u].pred = p
      BY <1>2, <1>5 DEF Keeps
    <2>2. /\ p \in Task
          /\ Exists(p) /\ ~task[p].head /\ task[p].series # NoTask
          /\ u \in erasing => p \in erasing
      BY <1>5, <2>1, RowType DEF SeriesInv, PredsStay, TaskRows
    <2>3. ~task'[p].head /\ task'[p].series # NoTask
      BY <1>2, <2>2 DEF Keeps
    <2> QED
      BY <1>3, <2>2, <2>3
  <1>9. OthersSucceeded'
    <2> SUFFICES ASSUME NEW u \in Existing, task'[u].rule # NoRule, ~task'[u].head
                 PROVE  \E w \in Existing : task'[w].pred = u
      BY <1>4 DEF OthersSucceeded
    <2>1. task[u].rule # NoRule /\ ~task[u].head
      BY <1>2, <1>5 DEF Keeps
    <2>2. PICK w \in Existing : task[w].pred = u
      BY <2>1 DEF SeriesInv, OthersSucceeded
    <2> QED
      BY <1>2, <1>5, <2>2 DEF Keeps
  <1>10. HeadsOver'
    <2>1. \A u \in Existing : u \in stopped' \/ RuleOver(task'[u])
      BY <1>2, <1>5 DEF SeriesInv, HeadsOver, Keeps
    <2> QED
      BY <1>4, <2>1 DEF HeadsOver, RuleOver, SuccessorDue
  <1>11. (erasing \subseteq Existing)'
    BY <1>4 DEF SeriesInv
  <1>12. OneNewestHead'
    <2> SUFFICES ASSUME NEW a \in Existing, NEW b \in Existing, task'[a].head,
                        task'[a].series = task'[b].series, task'[a].series # NoTask,
                        a # b
                 PROVE  ~task'[b].head /\ b < a
      BY <1>4 DEF OneNewestHead, SameSeries
    <2>1. \A u \in Existing : task[u].series # t \/ task[t].series = t
      BY <1>1 DEF SeriesInv, SeriesRooted, NoTask
    <2>2. task[a].series = task[b].series /\ task[a].series # NoTask
      BY <1>1, <1>2, <1>5, <2>1 DEF Keeps, NoTask
    <2>3. task[a].head
      BY <1>2, <1>5, <2>2 DEF Keeps
    <2>4. ~task[b].head /\ b < a
      BY <2>2, <2>3 DEF SeriesInv, OneNewestHead, SameSeries
    <2> QED
      BY <1>2, <1>5, <2>2, <2>4 DEF Keeps
  <1>13. OneSuccessor'
    <2> SUFFICES ASSUME NEW a \in Existing, NEW b \in Existing,
                        task'[a].pred = task'[b].pred, task'[a].pred # NoTask
                 PROVE  a = b
      BY <1>4 DEF OneSuccessor
    <2>1. task[a].pred = task[b].pred /\ task[a].pred # NoTask
      BY <1>2, <1>5 DEF Keeps
    <2> QED
      BY <2>1 DEF SeriesInv, OneSuccessor
  <1> QED
    BY <1>6, <1>7, <1>8, <1>9, <1>10, <1>11, <1>12, <1>13 DEF SeriesInv


\* A new task, with a series of its own or none.
LEMMA InsertInv ==
  ASSUME TypeOK, SeriesInv, NEW t \in Task, NEW row, Fresh(t, row), Insert(t, row),
         erasing' = erasing, stopped \subseteq stopped'
  PROVE  SeriesInv'
  <1>1. /\ t \in Nat \ {0} /\ ~Used(t) /\ ~Exists(t) /\ t \notin Existing
        /\ \A u \in Task : u < t => Used(u)
    BY RowType DEF Insert, IsNext, Existing, Exists, Used
  <1>2. \A u \in Task : task'[u] = IF u = t THEN row ELSE task[u]
    BY DEF Insert, Put, TypeOK
  <1>3. /\ Used(t)' /\ Exists(t)'
        /\ \A u \in Task : u # t => Used(u)' = Used(u) /\ Exists(u)' = Exists(u)
    BY <1>2 DEF Used, Exists, Fresh
  <1>4. Existing' = Existing \cup {t}
    BY <1>3 DEF Existing
  <1>5. \A u \in Existing : u \in Task /\ u # t /\ Exists(u) /\ Used(u)
    BY <1>1 DEF Existing, Exists, Used
  <1>6. InOrder'
    BY <1>1, <1>3 DEF InOrder, SeriesInv
  <1>7. SeriesRooted'
    <2> SUFFICES ASSUME NEW u \in Existing \cup {t}, NEW first, first # NoTask,
                        task'[u].series = first
                 PROVE  Used(first)' /\ (Exists(first)' => task'[first].series = first)
      BY <1>4 DEF SeriesRooted
    <2>1. CASE u = t
      BY <1>2, <1>3, <2>1 DEF Fresh
    <2>2. CASE u # t
      <3>1. Used(first) /\ (Exists(first) => task[first].series = first)
        BY <1>2, <1>5, <2>2 DEF SeriesInv, SeriesRooted
      <3>2. first \in Task
        BY <1>2, <1>5, <2>2, RowType DEF TaskRows
      <3> QED
        BY <1>1, <1>2, <1>3, <3>1, <3>2
    <2> QED
      BY <2>1, <2>2
  <1>8. PredsStay'
    <2> SUFFICES ASSUME NEW u \in Existing \cup {t}, NEW p, p # NoTask,
                        task'[u].pred = p
                 PROVE  /\ Exists(p)' /\ ~task'[p].head /\ task'[p].series # NoTask
                        /\ u \in erasing => p \in erasing
      BY <1>4 DEF PredsStay
    <2>1. u # t
      BY <1>2 DEF Fresh
    <2>2. /\ p \in Task
          /\ Exists(p) /\ ~task[p].head /\ task[p].series # NoTask
          /\ u \in erasing => p \in erasing
      BY <1>2, <1>5, <2>1, RowType DEF SeriesInv, PredsStay, TaskRows
    <2> QED
      BY <1>1, <1>2, <1>3, <2>2
  <1>9. OthersSucceeded'
    <2> SUFFICES ASSUME NEW u \in Existing \cup {t}, task'[u].rule # NoRule,
                        ~task'[u].head
                 PROVE  \E w \in Existing : task'[w].pred = u
      BY <1>4 DEF OthersSucceeded
    <2>1. u # t
      BY <1>2 DEF Fresh
    <2>2. PICK w \in Existing : task[w].pred = u
      BY <1>2, <1>5, <2>1 DEF SeriesInv, OthersSucceeded
    <2> QED
      BY <1>2, <1>5, <2>2
  <1>10. HeadsOver'
    <2>1. \A u \in Existing \cup {t} : u \in stopped' \/ RuleOver(task'[u])
      BY <1>2, <1>5 DEF SeriesInv, HeadsOver, RuleOver, Fresh, Closed
    <2> QED
      BY <1>4, <2>1 DEF HeadsOver, RuleOver, SuccessorDue
  <1>11. (erasing \subseteq Existing)'
    BY <1>4 DEF SeriesInv
  <1>12. OneNewestHead'
    <2> SUFFICES ASSUME NEW a \in Existing \cup {t}, NEW b \in Existing \cup {t},
                        task'[a].head, task'[a].series = task'[b].series,
                        task'[a].series # NoTask, a # b
                 PROVE  ~task'[b].head /\ b < a
      BY <1>4 DEF OneNewestHead, SameSeries
    <2>1. \A u \in Existing : task[u].series # t
      BY <1>1 DEF SeriesInv, SeriesRooted, NoTask
    <2>2. a # t /\ b # t
      BY <1>2, <1>5, <2>1 DEF Fresh
    <2> QED
      BY <1>2, <1>5, <2>2 DEF SeriesInv, OneNewestHead, SameSeries
  <1>13. OneSuccessor'
    <2> SUFFICES ASSUME NEW a \in Existing \cup {t}, NEW b \in Existing \cup {t},
                        task'[a].pred = task'[b].pred, task'[a].pred # NoTask
                 PROVE  a = b
      BY <1>4 DEF OneSuccessor
    <2>1. a # t /\ b # t
      BY <1>2 DEF Fresh
    <2> QED
      BY <1>2, <1>5, <2>1 DEF SeriesInv, OneSuccessor
  <1> QED
    BY <1>6, <1>7, <1>8, <1>9, <1>10, <1>11, <1>12, <1>13 DEF SeriesInv

\* A close that hands the series over: the successor is newer than every other
\* instance, and the head had no successor yet, because it still was the head.
LEMMA HandOverInv ==
  ASSUME TypeOK, SeriesInv, NEW t, NEW old, NEW s \in Task, NEW new,
         Hands(t, old, s, new), HandOverOf(t, old, s, new), erasing' = erasing,
         stopped \subseteq stopped'
  PROVE  SeriesInv'
  <1>1. /\ s \in Nat \ {0} /\ ~Used(s) /\ ~Exists(s) /\ s \notin Existing
        /\ \A u \in Task : u < s => Used(u)
    BY RowType DEF HandOverOf, IsNext, Existing, Exists, Used
  <1>2. /\ t \in Task /\ t \in Existing /\ t # s /\ Used(t) /\ Exists(t)
        /\ t \in Nat \ {0}
    BY <1>1, RowType DEF Hands, Existing, Exists, Used
  <1>3. \A u \in Task : task'[u] = IF u = s THEN new ELSE IF u = t THEN old ELSE task[u]
    BY <1>2 DEF HandOverOf, TypeOK
  <1>4. /\ Used(s)' /\ Exists(s)'
        /\ \A u \in Task : u # s => Used(u)' = Used(u) /\ Exists(u)' = Exists(u)
    BY <1>2, <1>3 DEF Used, Exists, Hands, Closed
  <1>5. Existing' = Existing \cup {s}
    BY <1>4 DEF Existing
  <1>6. \A u \in Existing : u \in Task /\ u # s /\ Exists(u) /\ Used(u)
    BY <1>1 DEF Existing, Exists, Used
  <1>7. \A u \in Existing : /\ task'[u].series = task[u].series
                            /\ task'[u].pred = task[u].pred
                            /\ task'[u].head => task[u].head /\ u # t
    BY <1>3, <1>6 DEF Hands
  <1>8. InOrder'
    BY <1>1, <1>4 DEF InOrder, SeriesInv
  <1>9. SeriesRooted'
    <2> SUFFICES ASSUME NEW u \in Existing \cup {s}, NEW first, first # NoTask,
                        task'[u].series = first
                 PROVE  Used(first)' /\ (Exists(first)' => task'[first].series = first)
      BY <1>5 DEF SeriesRooted
    <2>1. PICK w \in Existing : task[w].series = first
      BY <1>2, <1>3, <1>7 DEF Hands
    <2>2. Used(first) /\ (Exists(first) => task[first].series = first)
      BY <2>1 DEF SeriesInv, SeriesRooted
    <2>3. first \in Task
      BY <1>6, <2>1, RowType DEF TaskRows
    <2> QED
      BY <1>1, <1>4, <1>7, <2>2, <2>3 DEF Existing
  <1>10. PredsStay'
    <2> SUFFICES ASSUME NEW u \in Existing \cup {s}, NEW p, p # NoTask,
                        task'[u].pred = p
                 PROVE  /\ Exists(p)' /\ ~task'[p].head /\ task'[p].series # NoTask
                        /\ u \in erasing => p \in erasing
      BY <1>5 DEF PredsStay
    <2>1. CASE u = s
      <3>1. p = t /\ s \notin erasing
        BY <1>1, <1>3, <2>1 DEF Hands, SeriesInv
      <3> QED
        BY <1>2, <1>3, <1>4, <2>1, <3>1 DEF Hands
    <2>2. CASE u # s
      <3>1. /\ p \in Task
            /\ Exists(p) /\ ~task[p].head /\ task[p].series # NoTask
            /\ u \in erasing => p \in erasing
        BY <1>6, <1>7, <2>2, RowType DEF SeriesInv, PredsStay, TaskRows
      <3>2. p \in Existing
        BY <3>1 DEF Existing
      <3> QED
        BY <1>1, <1>4, <1>7, <3>1, <3>2
    <2> QED
      BY <2>1, <2>2
  <1>11. OthersSucceeded'
    <2> SUFFICES ASSUME NEW u \in Existing \cup {s}, task'[u].rule # NoRule,
                        ~task'[u].head
                 PROVE  \E w \in Existing \cup {s} : task'[w].pred = u
      BY <1>5 DEF OthersSucceeded
    <2>1. u # s
      BY <1>3 DEF Hands
    <2>2. CASE u = t
      BY <1>3, <2>2 DEF Hands
    <2>3. CASE u # t
      <3>1. PICK w \in Existing : task[w].pred = u
        BY <1>3, <1>6, <2>1, <2>3 DEF SeriesInv, OthersSucceeded
      <3> QED
        BY <1>7, <3>1
    <2> QED
      BY <2>2, <2>3
  <1>12. HeadsOver'
    <2>1. \A u \in Existing \cup {s} : u \in stopped' \/ RuleOver(task'[u])
      BY <1>3, <1>6 DEF SeriesInv, HeadsOver, RuleOver, Hands, Closed
    <2> QED
      BY <1>5, <2>1 DEF HeadsOver, RuleOver, SuccessorDue
  <1>13. (erasing \subseteq Existing)'
    BY <1>5 DEF SeriesInv
  <1>14. OneNewestHead'
    <2> SUFFICES ASSUME NEW a \in Existing \cup {s}, NEW b \in Existing \cup {s},
                        task'[a].head, task'[a].series = task'[b].series,
                        task'[a].series # NoTask, a # b
                 PROVE  ~task'[b].head /\ b < a
      BY <1>5 DEF OneNewestHead, SameSeries
    <2>1. ASSUME NEW u \in Existing, task[u].series = task[t].series
          PROVE  ~task'[u].head /\ u < s
      <3>1. u = t \/ (~task[u].head /\ u < t)
        BY <1>2, <2>1 DEF SeriesInv, OneNewestHead, SameSeries, Hands
      <3>2. t < s
        BY <1>1, <1>2 DEF SeriesInv, InOrder
      <3>3. u \in Nat
        BY <1>6, TaskAssumption
      <3> QED
        BY <1>1, <1>2, <1>7, <2>1, <3>1, <3>2, <3>3
    <2>2. CASE a = s
      BY <1>3, <1>7, <2>1, <2>2 DEF Hands
    <2>3. CASE a # s
      <3>1. b # s
        BY <1>3, <1>7, <2>1, <2>3 DEF Hands
      <3> QED
        BY <1>7, <2>3, <3>1 DEF SeriesInv, OneNewestHead, SameSeries
    <2> QED
      BY <2>2, <2>3
  <1>15. OneSuccessor'
    <2> SUFFICES ASSUME NEW a \in Existing \cup {s}, NEW b \in Existing \cup {s},
                        task'[a].pred = task'[b].pred, task'[a].pred # NoTask
                 PROVE  a = b
      BY <1>5 DEF OneSuccessor
    <2>1. \A u \in Existing : task[u].pred # t
      BY <1>2 DEF SeriesInv, PredsStay, Hands, NoTask
    <2> QED
      BY <1>3, <1>7, <2>1 DEF SeriesInv, OneSuccessor, Hands
  <1> QED
    BY <1>8, <1>9, <1>10, <1>11, <1>12, <1>13, <1>14, <1>15 DEF SeriesInv


\* The end of an erasure: the rows it found go, and no row is left between.
LEMMA RemovedInv ==
  ASSUME TypeOK, SeriesInv, NEW G, G = {} \/ G = erasing, erasing' = erasing \ G,
         stopped' = stopped,
         \A u \in G : task'[u].status = "erased",
         \A u \in Task \ G :
           /\ task'[u].status = task[u].status /\ task'[u].due = task[u].due
           /\ task'[u].rule = task[u].rule /\ task'[u].anchor = task[u].anchor
           /\ task'[u].series = task[u].series /\ task'[u].head = task[u].head
           /\ task'[u].closedAt = task[u].closedAt
           /\ task'[u].pred = IF task[u].pred \in G THEN NoTask ELSE task[u].pred
  PROVE  SeriesInv'
  <1>1. /\ G \subseteq Existing
        /\ \A u \in Existing : u \in Task /\ Exists(u) /\ Used(u)
    BY DEF SeriesInv, Existing, Exists, Used
  <1>2. \A u \in Task : Used(u)' = Used(u) /\ (Exists(u)' <=> Exists(u) /\ u \notin G)
    BY <1>1 DEF Used, Exists
  <1>3. Existing' = Existing \ G
    BY <1>1, <1>2 DEF Existing
  <1>4. \A t \in Existing \ G :
          /\ t \in Task \ G
          /\ task'[t].pred # NoTask => task'[t].pred = task[t].pred /\ task[t].pred \notin G
    BY <1>1
  <1>5. InOrder'
    BY <1>2 DEF InOrder, SeriesInv
  <1>6. SeriesRooted'
    <2> SUFFICES ASSUME NEW u \in Existing \ G, NEW first, first # NoTask,
                        task'[u].series = first
                 PROVE  Used(first)' /\ (Exists(first)' => task'[first].series = first)
      BY <1>3 DEF SeriesRooted
    <2>1. task[u].series = first
      BY <1>4
    <2>2. Used(first) /\ (Exists(first) => task[first].series = first)
      BY <2>1 DEF SeriesInv, SeriesRooted
    <2>3. first \in Task
      BY <1>1, <2>1, RowType DEF TaskRows
    <2> QED
      BY <1>2, <2>2, <2>3
  <1>7. PredsStay'
    <2> SUFFICES ASSUME NEW u \in Existing \ G, NEW p, p # NoTask, task'[u].pred = p
                 PROVE  /\ Exists(p)' /\ ~task'[p].head /\ task'[p].series # NoTask
                        /\ u \in erasing \ G => p \in erasing \ G
      BY <1>3 DEF PredsStay
    <2>1. task[u].pred = p /\ p \notin G
      BY <1>4
    <2>2. /\ p \in Task
          /\ Exists(p) /\ ~task[p].head /\ task[p].series # NoTask
          /\ u \in erasing => p \in erasing
      BY <1>1, <2>1, RowType DEF SeriesInv, PredsStay, TaskRows
    <2> QED
      BY <1>2, <2>1, <2>2
  <1>8. OthersSucceeded'
    <2> SUFFICES ASSUME NEW u \in Existing \ G, task'[u].rule # NoRule, ~task'[u].head
                 PROVE  \E w \in Existing \ G : task'[w].pred = u
      BY <1>3 DEF OthersSucceeded
    <2>1. PICK w \in Existing : task[w].pred = u
      BY <1>4 DEF SeriesInv, OthersSucceeded
    <2>2. w \notin G
      <3>1. u \in Task \ {NoTask}
        BY <1>1, TaskAssumption DEF NoTask
      <3> QED
        BY <2>1, <3>1 DEF SeriesInv, PredsStay
    <2>3. task'[w].pred = u
      BY <1>1, <2>1, <2>2
    <2> QED
      BY <2>2, <2>3
  <1>9. HeadsOver'
    <2>1. ASSUME NEW u \in Existing \ G
          PROVE  u \in stopped' \/ RuleOver(task'[u])
      <3>1. u \in stopped \/ RuleOver(task[u])
        BY <2>1 DEF SeriesInv, HeadsOver
      <3>2. \A at : SuccessorDue(task'[u], at) = SuccessorDue(task[u], at)
        BY <1>4, <2>1 DEF SuccessorDue
      <3> QED
        BY <1>4, <2>1, <3>1, <3>2 DEF RuleOver
    <2> QED
      BY <1>3, <2>1 DEF HeadsOver, RuleOver, SuccessorDue
  <1>10. (erasing \subseteq Existing)'
    BY <1>3 DEF SeriesInv
  <1>11. OneNewestHead'
    BY <1>3, <1>4 DEF SeriesInv, OneNewestHead, SameSeries
  <1>12. OneSuccessor'
    BY <1>3, <1>4 DEF SeriesInv, OneSuccessor
  <1> QED
    BY <1>5, <1>6, <1>7, <1>8, <1>9, <1>10, <1>11, <1>12 DEF SeriesInv

------------------------------------------------------------------------------
(* The steps *)

LEMMA EraseEndRows ==
  ASSUME TypeOK, EraseEnd
  PROVE  /\ task' \in [Task -> TaskRows]
         /\ \A u \in Task : IsSound(task'[u])
         /\ \A u \in erasing : task'[u].status = "erased"
         /\ \A u \in Task \ erasing :
              /\ task'[u].status = task[u].status /\ task'[u].due = task[u].due
              /\ task'[u].rule = task[u].rule /\ task'[u].anchor = task[u].anchor
              /\ task'[u].series = task[u].series /\ task'[u].head = task[u].head
              /\ task'[u].reported = task[u].reported
              /\ task'[u].assignees = task[u].assignees
              /\ task'[u].closedAt = task[u].closedAt
              /\ task'[u].version = task[u].version
              /\ task'[u].pred = IF task[u].pred \in erasing THEN NoTask ELSE task[u].pred
  <1> DEFINE gap(u) == Erased(task[u])
             cut(u) == [task[u] EXCEPT !.pred = NoTask]
             row(u) == IF u \in erasing THEN gap(u)
                       ELSE IF task[u].pred \in erasing THEN cut(u) ELSE task[u]
  <1>1. task' = [u \in Task |-> row(u)]
    BY DEF EraseEnd
  <1>2. ASSUME NEW u \in Task
        PROVE  gap(u) \in TaskRows /\ gap(u).status = "erased" /\ IsSound(gap(u))
    <2>1. Blank \in TaskRows /\ IsSound(Blank)
      BY BlankType
    <2>2. task[u].version \in 0..MaxVersion
      BY RowType
    <2> HIDE DEF Blank
    <2> QED
      BY <2>1, <2>2 DEF Erased, TaskRows, Status, IsSound
  <1>3. ASSUME NEW u \in Task
        PROVE  /\ cut(u) \in TaskRows /\ IsSound(cut(u))
               /\ cut(u).status = task[u].status /\ cut(u).due = task[u].due
               /\ cut(u).rule = task[u].rule /\ cut(u).anchor = task[u].anchor
               /\ cut(u).series = task[u].series /\ cut(u).head = task[u].head
               /\ cut(u).reported = task[u].reported
               /\ cut(u).assignees = task[u].assignees
               /\ cut(u).closedAt = task[u].closedAt
               /\ cut(u).version = task[u].version
               /\ cut(u).pred = NoTask
    <2> DEFINE old == task[u]
               new == [old EXCEPT !.pred = NoTask]
    <2>1. old \in TaskRows /\ IsSound(old)
      BY <1>3, RowType
    <2> HIDE DEF old
    <2>2. /\ new \in TaskRows /\ IsSound(new)
          /\ new.status = old.status /\ new.due = old.due
          /\ new.rule = old.rule /\ new.anchor = old.anchor
          /\ new.series = old.series /\ new.head = old.head
          /\ new.reported = old.reported
          /\ new.assignees = old.assignees
          /\ new.closedAt = old.closedAt
          /\ new.version = old.version
          /\ new.pred = NoTask
      BY <2>1 DEF TaskRows, IsSound
    <2> USE DEF old
    <2> QED
      BY <2>2
  <1>4. erasing \subseteq Task /\ \A u \in Task : task[u] \in TaskRows /\ IsSound(task[u])
    BY DEF TypeOK
  <1> HIDE DEF gap, cut
  <1> QED
    BY <1>1, <1>2, <1>3, <1>4

LEMMA EraseMemberRows ==
  ASSUME TypeOK, NEW m \in Member, EraseMember(m)
  PROVE  /\ task' \in [Task -> TaskRows]
         /\ \A u \in Task :
              /\ IsSound(task'[u])
              /\ task'[u].status = task[u].status /\ task'[u].due = task[u].due
              /\ task'[u].rule = task[u].rule /\ task'[u].anchor = task[u].anchor
              /\ task'[u].series = task[u].series /\ task'[u].head = task[u].head
              /\ task'[u].reported = task[u].reported
              /\ task'[u].assignees = task[u].assignees \ {m}
              /\ task'[u].closedAt = task[u].closedAt
              /\ task'[u].version = task[u].version
              /\ task'[u].pred = task[u].pred
  <1> DEFINE cut(u) == [task[u] EXCEPT !.assignees = @ \ {m}]
  <1>1. task' = [u \in Task |-> cut(u)]
    BY DEF EraseMember
  <1>2. ASSUME NEW u \in Task
        PROVE  /\ cut(u) \in TaskRows /\ IsSound(cut(u))
               /\ cut(u).status = task[u].status /\ cut(u).due = task[u].due
               /\ cut(u).rule = task[u].rule /\ cut(u).anchor = task[u].anchor
               /\ cut(u).series = task[u].series /\ cut(u).head = task[u].head
               /\ cut(u).reported = task[u].reported
               /\ cut(u).assignees = task[u].assignees \ {m}
               /\ cut(u).closedAt = task[u].closedAt
               /\ cut(u).version = task[u].version
               /\ cut(u).pred = task[u].pred
    <2> DEFINE old == task[u]
               new == [old EXCEPT !.assignees = @ \ {m}]
    <2>1. old \in TaskRows /\ IsSound(old)
      BY <1>2, RowType
    <2> HIDE DEF old
    <2>2. /\ new \in TaskRows /\ IsSound(new)
          /\ new.status = old.status /\ new.due = old.due
          /\ new.rule = old.rule /\ new.anchor = old.anchor
          /\ new.series = old.series /\ new.head = old.head
          /\ new.reported = old.reported
          /\ new.assignees = old.assignees \ {m}
          /\ new.closedAt = old.closedAt
          /\ new.version = old.version
          /\ new.pred = old.pred
      BY <2>1 DEF TaskRows, IsSound
    <2> USE DEF old
    <2> QED
      BY <2>2
  <1> HIDE DEF cut
  <1> QED
    BY <1>1, <1>2


LEMMA ReportCases ==
  ASSUME TypeOK, NEW p \in Sweeper, NEW t \in Task, NEW at, Report(p, t, at)
  PROVE  /\ UNCHANGED <<now, erasing, gone, stopped>>
         /\ candidates' \in [Sweeper -> SUBSET Task]
         /\ \/ UNCHANGED <<task, announced>>
            \/ /\ t \in Existing /\ NeedsReport(t, at)
               /\ Put(t, OverdueReported(task[t]))
               /\ Keeps(t, OverdueReported(task[t]))
               /\ OverdueReported(task[t]).reported = DueMoment(task[t].due)
               /\ DueMoment(task[t].due) \in Nat
               /\ announced' = [announced EXCEPT ![t] = Append(@, DueMoment(task[t].due))]
  <1>1. /\ UNCHANGED <<now, erasing, gone, stopped>>
        /\ candidates' \in [Sweeper -> SUBSET Task]
    BY DEF Report, TypeOK
  <1>2. CASE ~NeedsReport(t, at)
    BY <1>1, <1>2 DEF Report
  <1>3. CASE NeedsReport(t, at)
    <2> DEFINE old == task[t]
               row == OverdueReported(old)
    <2>1. /\ Put(t, row)
          /\ announced' = [announced EXCEPT ![t] = Append(@, DueMoment(task[t].due))]
      BY <1>3 DEF Report
    <2>2. t \in Existing /\ old.status = "open"
      BY <1>3 DEF NeedsReport, IsOverdue, Existing, Exists
    <2>3. old \in TaskRows /\ IsSound(old)
      BY RowType
    <2>4. DueMoment(old.due) \in Nat
      BY <2>3, DueMomentType DEF TaskRows
    <2>5. /\ row \in TaskRows
          /\ row.status = old.status /\ row.due = old.due /\ row.rule = old.rule
          /\ row.anchor = old.anchor /\ row.series = old.series
          /\ row.head = old.head /\ row.pred = old.pred
          /\ row.reported = DueMoment(old.due)
      <3> HIDE DEF old
      <3> QED
        BY <2>3, <2>4 DEF OverdueReported, TaskRows
    <2> HIDE DEF row
    <2>6. IsSound(row) /\ RuleOver(row)
      BY <2>2, <2>3, <2>5 DEF IsSound, RuleOver, Closed
    <2>7. Keeps(t, row)
      BY <2>2, <2>5, <2>6 DEF Keeps, Present
    <2> QED
      BY <1>1, <1>3, <2>1, <2>2, <2>4, <2>5, <2>7 DEF row
  <1> QED
    BY <1>2, <1>3

LEMMA AnnouncedOnce ==
  ASSUME NEW s \in Seq(Nat), NEW e \in Nat, s # <<>> => s[Len(s)] # e,
         \A i \in 1..(Len(s) - 1) : s[i] # s[i + 1]
  PROVE  LET after == Append(s, e) IN
         /\ after \in Seq(Nat) /\ after # <<>> /\ after[Len(after)] = e
         /\ \A i \in 1..(Len(after) - 1) : after[i] # after[i + 1]
  <1> DEFINE after == Append(s, e)
  <1>1. /\ after \in Seq(Nat) /\ Len(after) = Len(s) + 1 /\ Len(s) \in Nat
        /\ \A i \in 1..Len(s) : after[i] = s[i]
        /\ after[Len(s) + 1] = e
    OBVIOUS
  <1>2. Len(s) # 0 => s # <<>>
    OBVIOUS
  <1> HIDE DEF after
  <1>3. ASSUME NEW i \in 1..Len(s)
        PROVE  after[i] # after[i + 1]
    <2>1. CASE i = Len(s)
      BY <1>1, <1>2, <1>3, <2>1
    <2>2. CASE i # Len(s)
      <3>1. i \in 1..(Len(s) - 1) /\ i + 1 \in 1..Len(s)
        BY <1>1, <2>2
      <3> QED
        BY <1>1, <3>1
    <2> QED
      BY <2>1, <2>2
  <1>4. after # <<>>
    BY <1>1
  <1> QED
    BY <1>1, <1>3, <1>4 DEF after

\* One row at a time: what a step of a member or a sweep leaves well typed.
LEMMA PutType ==
  ASSUME TypeOK, NEW t \in Task, NEW row \in TaskRows, IsSound(row), Put(t, row)
  PROVE  /\ task' \in [Task -> TaskRows]
         /\ \A u \in Task : IsSound(task'[u])
         /\ \A u \in Task : task'[u] = IF u = t THEN row ELSE task[u]
  <1>1. /\ task \in [Task -> TaskRows]
        /\ \A u \in Task : IsSound(task[u])
    BY DEF TypeOK
  <1>2. \A u \in Task : task'[u] = IF u = t THEN row ELSE task[u]
    BY <1>1 DEF Put
  <1>3. task' \in [Task -> TaskRows]
    BY <1>1 DEF Put
  <1> QED
    BY <1>1, <1>2, <1>3

LEMMA HandOverType ==
  ASSUME TypeOK, NEW t, NEW old, NEW s \in Task, NEW new,
         Hands(t, old, s, new), HandOverOf(t, old, s, new)
  PROVE  /\ task' \in [Task -> TaskRows]
         /\ \A u \in Task : IsSound(task'[u])
         /\ t \in Task /\ t # s
         /\ \A u \in Task :
              task'[u] = IF u = s THEN new ELSE IF u = t THEN old ELSE task[u]
  <1>1. t \in Task /\ t # s
    BY DEF Hands, HandOverOf, IsNext, Existing, Exists
  <1>2. /\ task \in [Task -> TaskRows]
        /\ \A u \in Task : IsSound(task[u])
    BY DEF TypeOK
  <1>3. old \in TaskRows /\ new \in TaskRows /\ IsSound(old) /\ IsSound(new)
    BY DEF Hands
  <1>4. task' = [task EXCEPT ![t] = old, ![s] = new]
    BY DEF HandOverOf
  <1> QED
    BY <1>1, <1>2, <1>3, <1>4

LEMMA MemberType ==
  ASSUME TypeOK, NEW t \in Task, MemberStep(t)
  PROVE  TypeOK'
  <1>1. UNCHANGED <<now, announced, candidates, erasing, gone>>
    BY MemberCases
  <1>2. task' \in [Task -> TaskRows] /\ \A u \in Task : IsSound(task'[u])
    <2>1. ASSUME NEW row, Fresh(t, row), Insert(t, row)
          PROVE  task' \in [Task -> TaskRows] /\ \A u \in Task : IsSound(task'[u])
      BY <2>1, PutType DEF Fresh, Insert
    <2>2. ASSUME NEW row, Alters(t, row), Put(t, row)
          PROVE  task' \in [Task -> TaskRows] /\ \A u \in Task : IsSound(task'[u])
      BY <2>2, PutType DEF Alters, Keeps
    <2>3. ASSUME NEW s \in Task, NEW old, NEW new,
                 Hands(t, old, s, new), HandOverOf(t, old, s, new)
          PROVE  task' \in [Task -> TaskRows] /\ \A u \in Task : IsSound(task'[u])
      BY <2>3, HandOverType
    <2> QED
      BY <2>1, <2>2, <2>3, MemberCases
  <1> QED
    BY <1>1, <1>2, MemberCases DEF TypeOK


LEMMA SweepType ==
  ASSUME TypeOK, NEW p \in Sweeper, SweepStep(p)
  PROVE  TypeOK'
  <1>1. CASE Discover(p)
    <2>1. /\ UNCHANGED <<task, now, announced, erasing, gone, stopped>>
          /\ candidates' = [candidates EXCEPT ![p] = {t \in Task : NeedsReport(t, now)}]
      BY <1>1 DEF Discover
    <2>2. candidates' \in [Sweeper -> SUBSET Task]
      BY <2>1 DEF TypeOK
    <2> QED
      BY <2>1, <2>2 DEF TypeOK
  <1>2. CASE \E S \in SUBSET candidates[p] : ReportLost(p, S)
    <2>1. /\ UNCHANGED <<task, now, announced, erasing, gone, stopped>>
          /\ candidates' \in [Sweeper -> SUBSET Task]
      BY <1>2 DEF ReportLost, TypeOK
    <2> QED
      BY <2>1 DEF TypeOK
  <1>3. ASSUME NEW t \in Task, NEW at, Report(p, t, at)
        PROVE  TypeOK'
    <2>1. /\ UNCHANGED <<now, erasing, gone, stopped>>
          /\ candidates' \in [Sweeper -> SUBSET Task]
      BY <1>3, ReportCases
    <2>2. CASE UNCHANGED <<task, announced>>
      BY <2>1, <2>2 DEF TypeOK
    <2>3. ASSUME NEW row, Put(t, row), Keeps(t, row), NEW due \in Nat,
                 announced' = [announced EXCEPT ![t] = Append(@, due)]
          PROVE  TypeOK'
      <3>1. task' \in [Task -> TaskRows] /\ \A u \in Task : IsSound(task'[u])
        BY <2>3, PutType DEF Keeps
      <3>2. announced' \in [Task -> Seq(Nat)]
        BY <2>3 DEF TypeOK
      <3> QED
        BY <2>1, <3>1, <3>2 DEF TypeOK
    <2> QED
      BY <1>3, <2>2, <2>3, ReportCases
  <1> QED
    BY <1>1, <1>2, <1>3 DEF SweepStep

LEMMA StepType == TypeOK /\ [Next]_vars => TypeOK'
  <1> SUFFICES ASSUME TypeOK, [Next]_vars
               PROVE  TypeOK'
    OBVIOUS
  <1>1. CASE TimePasses
    BY <1>1, BoundAssumption DEF TimePasses, TypeOK
  <1>2. CASE EraseBegin
    BY <1>2 DEF EraseBegin, TypeOK, Existing
  <1>3. CASE EraseEnd
    <2>1. task' \in [Task -> TaskRows] /\ \A u \in Task : IsSound(task'[u])
      BY <1>3, EraseEndRows
    <2> QED
      BY <1>3, <2>1 DEF EraseEnd, TypeOK
  <1>4. ASSUME NEW m \in Member, EraseMember(m)
        PROVE  TypeOK'
    <2>1. task' \in [Task -> TaskRows] /\ \A u \in Task : IsSound(task'[u])
      BY <1>4, EraseMemberRows
    <2> QED
      BY <1>4, <2>1 DEF EraseMember, TypeOK
  <1>5. CASE UNCHANGED vars
    BY <1>5 DEF vars, TypeOK
  <1> QED
    BY <1>1, <1>2, <1>3, <1>4, <1>5, MemberType, SweepType DEF Next

\* Steps that leave the table and the erasure alone.
LEMMA QuietInv ==
  ASSUME SeriesInv, UNCHANGED <<task, erasing, stopped>>
  PROVE  SeriesInv'
  BY DEF SeriesInv, InOrder, SeriesRooted, PredsStay, OthersSucceeded, HeadsOver,
         RuleOver, SuccessorDue, OneNewestHead, OneSuccessor, SameSeries, Existing,
         Exists, Used

LEMMA StepSeries == TypeOK /\ SeriesInv /\ [Next]_vars => SeriesInv'
  <1> SUFFICES ASSUME TypeOK, SeriesInv, [Next]_vars
               PROVE  SeriesInv'
    OBVIOUS
  <1>1. CASE TimePasses \/ UNCHANGED vars
    BY <1>1, QuietInv DEF TimePasses, vars
  <1>2. CASE EraseBegin
    <2>1. task' = task /\ erasing' = Existing /\ stopped' = stopped
      BY <1>2 DEF EraseBegin
    <2>2. Existing' = Existing
      BY <2>1 DEF Existing, Exists
    <2>3. PredsStay'
      BY <2>1, <2>2, RowType DEF SeriesInv, PredsStay, Existing, Exists, TaskRows
    <2>4. /\ InOrder' /\ SeriesRooted' /\ OthersSucceeded' /\ HeadsOver'
          /\ OneNewestHead' /\ OneSuccessor'
      BY <2>1
      DEF SeriesInv, InOrder, SeriesRooted, OthersSucceeded, HeadsOver, RuleOver,
          SuccessorDue, OneNewestHead, OneSuccessor, SameSeries, Existing, Exists, Used
    <2> QED
      BY <2>1, <2>2, <2>3, <2>4 DEF SeriesInv
  <1>3. CASE EraseEnd
    <2>1. erasing' = erasing \ erasing /\ stopped' = stopped
      BY <1>3 DEF EraseEnd
    <2> QED
      BY <1>3, <2>1, EraseEndRows, RemovedInv
  <1>4. ASSUME NEW m \in Member, EraseMember(m)
        PROVE  SeriesInv'
    <2> DEFINE G == {}
    <2>1. erasing' = erasing \ G /\ stopped' = stopped
      BY <1>4 DEF EraseMember
    <2>2. \A u \in G : task'[u].status = "erased"
      OBVIOUS
    <2>3. \A u \in Task \ G :
           /\ task'[u].status = task[u].status /\ task'[u].due = task[u].due
           /\ task'[u].rule = task[u].rule /\ task'[u].anchor = task[u].anchor
           /\ task'[u].series = task[u].series /\ task'[u].head = task[u].head
           /\ task'[u].closedAt = task[u].closedAt
           /\ task'[u].pred = IF task[u].pred \in G THEN NoTask ELSE task[u].pred
      BY <1>4, EraseMemberRows
    <2>4. G = {}
      OBVIOUS
    <2> HIDE DEF G
    <2> QED
      BY <2>1, <2>2, <2>3, <2>4, RemovedInv
  <1>5. ASSUME NEW t \in Task, MemberStep(t)
        PROVE  SeriesInv'
    <2>1. erasing' = erasing /\ stopped \subseteq stopped'
      BY <1>5, MemberCases
    <2>2. ASSUME NEW row, Fresh(t, row), Insert(t, row)
          PROVE  SeriesInv'
      BY <2>1, <2>2, InsertInv
    <2>3. ASSUME NEW row, Alters(t, row), Put(t, row)
          PROVE  SeriesInv'
      BY <2>1, <2>3, KeepsInv DEF Alters
    <2>4. ASSUME NEW s \in Task, NEW old, NEW new,
                 Hands(t, old, s, new), HandOverOf(t, old, s, new)
          PROVE  SeriesInv'
      BY <2>1, <2>4, HandOverInv
    <2> QED
      BY <1>5, <2>2, <2>3, <2>4, MemberCases
  <1>6. ASSUME NEW p \in Sweeper, SweepStep(p)
        PROVE  SeriesInv'
    <2>1. CASE Discover(p) \/ \E S \in SUBSET candidates[p] : ReportLost(p, S)
      BY <2>1, QuietInv DEF Discover, ReportLost
    <2>2. ASSUME NEW t \in Task, NEW at, Report(p, t, at)
          PROVE  SeriesInv'
      BY <2>2, ReportCases, QuietInv, KeepsInv
    <2> QED
      BY <1>6, <2>1, <2>2 DEF SweepStep
  <1> QED
    BY <1>1, <1>2, <1>3, <1>4, <1>5, <1>6 DEF Next


LEMMA MarkerKept ==
  ASSUME MarkerTrue, NotAnnouncedAgain, announced' = announced,
         \A u \in Task :
           /\ Used(u) => Used(u)'
           /\ Exists(u)' => \/ Exists(u) /\ task'[u].reported = task[u].reported
                            \/ ~Used(u) /\ task'[u].reported = NoMoment
  PROVE  MarkerTrue' /\ NotAnnouncedAgain'
  <1>1. \A u \in Task : LastAnnounced(u)' = LastAnnounced(u)
    BY DEF LastAnnounced
  <1>2. \A u \in Task : ~Used(u) => LastAnnounced(u) = NoMoment
    BY DEF MarkerTrue, LastAnnounced
  <1>3. MarkerTrue'
    BY <1>1, <1>2 DEF MarkerTrue
  <1>4. NotAnnouncedAgain'
    BY DEF NotAnnouncedAgain
  <1> QED
    BY <1>3, <1>4

LEMMA MemberMarker ==
  ASSUME TypeOK, MarkerTrue, NotAnnouncedAgain, NEW t \in Task, MemberStep(t)
  PROVE  MarkerTrue' /\ NotAnnouncedAgain'
  <1>1. announced' = announced
    BY MemberCases
  <1>2. ASSUME NEW row, Fresh(t, row), Insert(t, row)
        PROVE  MarkerTrue' /\ NotAnnouncedAgain'
    <2>1. \A u \in Task : task'[u] = IF u = t THEN row ELSE task[u]
      BY <1>2, PutType DEF Insert, Fresh
    <2>2. ~Used(t) /\ row.reported = NoMoment /\ row.status = "open"
      BY <1>2 DEF Insert, IsNext, Used, Fresh
    <2> QED
      BY <1>1, <2>1, <2>2, MarkerKept DEF Used, Exists
  <1>3. ASSUME NEW row, Alters(t, row), Put(t, row)
        PROVE  MarkerTrue' /\ NotAnnouncedAgain'
    <2>1. \A u \in Task : task'[u] = IF u = t THEN row ELSE task[u]
      BY <1>3, PutType DEF Alters, Keeps
    <2>2. Exists(t) /\ row.reported = task[t].reported /\ row.status \in Present
      BY <1>3 DEF Alters, Keeps, Existing
    <2> QED
      BY <1>1, <2>1, <2>2, MarkerKept DEF Used, Exists, Present
  <1>4. ASSUME NEW s \in Task, NEW old, NEW new,
               Hands(t, old, s, new), HandOverOf(t, old, s, new)
        PROVE  MarkerTrue' /\ NotAnnouncedAgain'
    <2>1. /\ t # s
          /\ \A u \in Task :
               task'[u] = IF u = s THEN new ELSE IF u = t THEN old ELSE task[u]
      BY <1>4, HandOverType
    <2>2. /\ ~Used(s) /\ new.reported = NoMoment /\ new.status = "open"
          /\ Exists(t) /\ old.reported = task[t].reported /\ old.status \in Closed
      BY <1>4 DEF Hands, HandOverOf, IsNext, Used, Existing
    <2> QED
      BY <1>1, <2>1, <2>2, MarkerKept DEF Used, Exists, Closed
  <1> QED
    BY <1>2, <1>3, <1>4, MemberCases

LEMMA ReportMarker ==
  ASSUME TypeOK, MarkerTrue, NotAnnouncedAgain,
         NEW p \in Sweeper, NEW t \in Task, NEW at, Report(p, t, at)
  PROVE  MarkerTrue' /\ NotAnnouncedAgain'
  <1>1. CASE UNCHANGED <<task, announced>>
    BY <1>1, MarkerKept DEF Used, Exists
  <1>2. CASE ~UNCHANGED <<task, announced>>
    <2> DEFINE row == OverdueReported(task[t])
               due == DueMoment(task[t].due)
               s   == announced[t]
    <2>1. /\ t \in Existing /\ NeedsReport(t, at)
          /\ Put(t, row) /\ Keeps(t, row)
          /\ row.reported = due /\ due \in Nat
          /\ announced' = [announced EXCEPT ![t] = Append(@, due)]
      BY <1>2, ReportCases
    <2>2. s \in Seq(Nat) /\ announced \in [Task -> Seq(Nat)]
      BY DEF TypeOK
    <2>3. s # <<>> => s[Len(s)] # due
      BY <2>1 DEF MarkerTrue, LastAnnounced, NeedsReport, Existing
    <2>4. \A i \in 1..(Len(s) - 1) : s[i] # s[i + 1]
      BY DEF NotAnnouncedAgain
    <2>5. \A u \in Task : /\ task'[u] = IF u = t THEN row ELSE task[u]
                          /\ announced'[u] = IF u = t THEN Append(s, due) ELSE announced[u]
      BY <2>1, <2>2, PutType DEF Keeps
    <2>6. row.status \in Present /\ Exists(t)
      BY <2>1 DEF Keeps, Existing
    <2> HIDE DEF row, due, s
    <2> DEFINE after == Append(s, due)
    <2>7. /\ after # <<>> /\ after[Len(after)] = due
          /\ \A i \in 1..(Len(after) - 1) : after[i] # after[i + 1]
      BY <2>1, <2>2, <2>3, <2>4, AnnouncedOnce
    <2>8. \A u \in Task : announced'[u] = IF u = t THEN after ELSE announced[u]
      BY <2>5
    <2> HIDE DEF after
    <2>9. NotAnnouncedAgain'
      BY <2>7, <2>8 DEF NotAnnouncedAgain
    <2>10. MarkerTrue'
      BY <2>1, <2>5, <2>6, <2>7, <2>8 DEF MarkerTrue, LastAnnounced, Used, Exists, Present
    <2> QED
      BY <2>9, <2>10
  <1> QED
    BY <1>1, <1>2

LEMMA StepMarker ==
  TypeOK /\ MarkerTrue /\ NotAnnouncedAgain /\ [Next]_vars
    => MarkerTrue' /\ NotAnnouncedAgain'
  <1> SUFFICES ASSUME TypeOK, MarkerTrue, NotAnnouncedAgain, [Next]_vars
               PROVE  MarkerTrue' /\ NotAnnouncedAgain'
    OBVIOUS
  <1>1. CASE UNCHANGED <<task, announced>>
    BY <1>1, MarkerKept DEF Used, Exists
  <1>2. CASE EraseEnd
    <2>1. \A u \in Task :
            \/ task'[u].status = "erased"
            \/ /\ task'[u].status = task[u].status
               /\ task'[u].reported = task[u].reported
      BY <1>2, EraseEndRows
    <2>2. announced' = announced
      BY <1>2 DEF EraseEnd
    <2> QED
      BY <2>1, <2>2, MarkerKept DEF Used, Exists
  <1>3. ASSUME NEW m \in Member, EraseMember(m)
        PROVE  MarkerTrue' /\ NotAnnouncedAgain'
    <2>1. \A u \in Task : /\ task'[u].status = task[u].status
                          /\ task'[u].reported = task[u].reported
      BY <1>3, EraseMemberRows
    <2>2. announced' = announced
      BY <1>3 DEF EraseMember
    <2> QED
      BY <2>1, <2>2, MarkerKept DEF Used, Exists
  <1>4. ASSUME NEW p \in Sweeper, SweepStep(p)
        PROVE  MarkerTrue' /\ NotAnnouncedAgain'
    <2>1. CASE Discover(p) \/ \E S \in SUBSET candidates[p] : ReportLost(p, S)
      BY <1>1, <2>1 DEF Discover, ReportLost
    <2> QED
      BY <1>4, <2>1, ReportMarker DEF SweepStep
  <1> QED
    BY <1>1, <1>2, <1>3, <1>4, MemberMarker DEF Next, TimePasses, EraseBegin, vars

------------------------------------------------------------------------------
LEMMA InitInv == Init => IInv
  <1> SUFFICES ASSUME Init
               PROVE  IInv
    OBVIOUS
  <1>1. task = [t \in Task |-> Blank] /\ Blank \in TaskRows /\ IsSound(Blank)
    BY BlankType DEF Init
  <1>2. \A t \in Task : task[t].status = "unused" /\ task[t] = Blank
    BY <1>1 DEF Blank
  <1>3. Existing = {} /\ \A t \in Task : ~Used(t) /\ ~Exists(t)
    BY <1>2 DEF Existing, Exists, Used
  <1>4. TypeOK
    <2> HIDE DEF Blank
    <2> QED
      BY <1>1, <1>2, BoundAssumption DEF Init, TypeOK
  <1>5. SeriesInv
    BY <1>3 DEF Init, SeriesInv, InOrder, SeriesRooted, PredsStay, OthersSucceeded,
                HeadsOver, OneNewestHead, OneSuccessor
  <1>6. MarkerTrue /\ NotAnnouncedAgain
    BY <1>3 DEF Init, MarkerTrue, NotAnnouncedAgain
  <1> QED
    BY <1>4, <1>5, <1>6 DEF IInv

LEMMA StepInv == IInv /\ [Next]_vars => IInv'
  BY StepType, StepSeries, StepMarker DEF IInv

LEMMA Inductive == Spec => []IInv
  BY InitInv, StepInv, PTL DEF Spec


------------------------------------------------------------------------------
(* The theorems *)

\* Every row meets the table's CHECKs, and its version never passes the bound.
THEOREM TypeCorrect == Spec => []TypeOK
  BY Inductive, PTL DEF IInv

\* FR-019: a series has one head and it is the newest instance
\* (task.aggregate.ts:362, 394).
THEOREM TheHeadIsNewest == Spec => []OneNewestHead
  <1>1. IInv => OneNewestHead
    BY DEF IInv, SeriesInv
  <1> QED
    BY <1>1, Inductive, PTL

\* FR-022: an instance reopened and completed again spawns nothing more
\* (close-task.command.ts:34).
THEOREM SpawnsAtMostOnce == Spec => []OneSuccessor
  <1>1. IInv => OneSuccessor
    BY DEF IInv, SeriesInv
  <1> QED
    BY <1>1, Inductive, PTL

\* FR-020, FR-023: closing never breaks a series off: what is closed has its
\* successor, or is the head of a series that was stopped as a series, or whose
\* rule gave no further due when it was closed (close-task.command.ts:29, 149).
THEOREM SeriesGoesOn == Spec => []NoGap
  <1>1. IInv => NoGap
    <2> SUFFICES ASSUME IInv, NEW t \in Existing, task[t].status \in Closed,
                        task[t].rule # NoRule, task[t].head
                 PROVE  t \in stopped \/ SuccessorDue(task[t], task[t].closedAt) = NoDue
      BY DEF NoGap, IInv, SeriesInv, OthersSucceeded
    <2> QED
      BY DEF IInv, SeriesInv, HeadsOver, RuleOver
  <1> QED
    BY <1>1, Inductive, PTL

\* FR-027: a due moment is announced once in a row, whatever the sweeps found
\* and however often they failed (report-overdue.command.ts:26).
THEOREM AnnouncedMomentsDiffer == Spec => []NotAnnouncedAgain
  <1>1. IInv => NotAnnouncedAgain
    BY DEF IInv
  <1> QED
    BY <1>1, Inductive, PTL

\* FR-021: a successor is due after its predecessor was due, and after the
\* moment it was closed at, whatever the rule and however late the close
\* (successor.ts:13-16, 37).
THEOREM SuccessorsStartAhead == Spec => SuccessorStartsAhead
  <1> DEFINE Ahead(t) ==
        LET head == task'[task'[t].pred]
        IN DueMoment(task'[t].due) > Later(DueMoment(head.due), head.closedAt)
  <1>1. ASSUME IInv, [Next]_vars, NEW t \in Task, ~Exists(t), Exists(t)',
               task'[t].pred # NoTask
        PROVE  Ahead(t)
    <2>1. task[t].status \in {"unused", "erased"}
          /\ task'[t].status \notin {"unused", "erased"}
      BY <1>1 DEF Exists
    <2>2. CASE UNCHANGED task
      BY <2>1, <2>2
    <2>3. CASE EraseEnd
      BY <1>1, <2>1, <2>3, EraseEndRows DEF IInv
    <2>4. ASSUME NEW m \in Member, EraseMember(m)
          PROVE  FALSE
      BY <1>1, <2>1, <2>4, EraseMemberRows DEF IInv
    <2>5. ASSUME NEW p \in Sweeper, NEW u \in Task, NEW at, Report(p, u, at)
          PROVE  FALSE
      <3>1. u \in Existing /\ Put(u, OverdueReported(task[u]))
        BY <1>1, <2>1, <2>5, ReportCases DEF IInv
      <3>2. u # t
        BY <1>1, <3>1 DEF Existing
      <3> QED
        BY <1>1, <2>1, <3>1, <3>2 DEF Put, IInv, TypeOK
    <2>6. ASSUME NEW u \in Task, MemberStep(u)
          PROVE  Ahead(t)
      <3>1. TypeOK
        BY <1>1 DEF IInv
      <3>2. ASSUME NEW row, Fresh(u, row), Insert(u, row)
            PROVE  FALSE
        BY <1>1, <2>1, <3>1, <3>2, PutType DEF Fresh, Insert
      <3>3. ASSUME NEW row, Alters(u, row), Put(u, row)
            PROVE  FALSE
        <4>1. u # t
          BY <1>1, <3>3 DEF Alters, Existing
        <4> QED
          BY <2>1, <3>1, <3>3, <4>1, PutType DEF Alters, Keeps, Existing
      <3>4. ASSUME NEW s \in Task, NEW old, NEW new,
                   Hands(u, old, s, new), HandOverOf(u, old, s, new)
            PROVE  Ahead(t)
        <4>1. u # t
          BY <1>1, <3>4 DEF Hands, Existing
        <4>2. t = s
          BY <2>1, <3>1, <3>4, <4>1, HandOverType
        <4>3. task'[t] = new /\ task'[u] = old
          BY <3>1, <3>4, <4>1, <4>2, HandOverType
        <4> QED
          BY <3>4, <4>3 DEF Hands
      <3> QED
        BY <2>6, <3>1, <3>2, <3>3, <3>4, MemberCases
    <2> HIDE DEF Ahead
    <2> QED
      BY <1>1, <2>2, <2>3, <2>4, <2>5, <2>6
      DEF Next, SweepStep, Discover, ReportLost, TimePasses, EraseBegin, vars
  <1>2. IInv /\ [Next]_vars
          => [\A t \in Task : ~Exists(t) /\ Exists(t)' /\ task'[t].pred # NoTask
                => Ahead(t)]_vars
    BY <1>1
  <1> QED
    BY <1>2, Inductive, PTL DEF Spec, SuccessorStartsAhead


\* Read, of a row and of those who are gone, and what an erasure takes of it.
Shown(row, G)   == [row EXCEPT !.reported = NoMoment, !.pred = NoTask, !.assignees = @ \ G]
Without(row, H) == [row EXCEPT !.assignees = @ \ H]

\* What a client reads of a row changes only by what an erasure takes away.
LEMMA ReadFields ==
  ASSUME NEW row \in TaskRows, NEW G
  PROVE  LET r == Shown(row, G) IN
         /\ r \in TaskRows
         /\ r.status = row.status /\ r.due = row.due /\ r.rule = row.rule
         /\ r.anchor = row.anchor /\ r.series = row.series /\ r.pred = NoTask
         /\ r.head = row.head /\ r.reported = NoMoment
         /\ r.assignees = row.assignees \ G
         /\ r.closedAt = row.closedAt /\ r.version = row.version
  <1> DEFINE mid == [row EXCEPT !.reported = NoMoment, !.pred = NoTask]
             r   == Shown(row, G)
  <1>1. /\ mid \in TaskRows
        /\ mid.status = row.status /\ mid.due = row.due /\ mid.rule = row.rule
        /\ mid.anchor = row.anchor /\ mid.series = row.series /\ mid.pred = NoTask
        /\ mid.head = row.head /\ mid.reported = NoMoment
        /\ mid.assignees = row.assignees
        /\ mid.closedAt = row.closedAt /\ mid.version = row.version
    BY DEF TaskRows, NoMoment
  <1>2. r = [mid EXCEPT !.assignees = @ \ G]
    BY DEF TaskRows, Shown
  <1> HIDE DEF mid, r
  <1>3. /\ r \in TaskRows
        /\ r.status = row.status /\ r.due = row.due /\ r.rule = row.rule
        /\ r.anchor = row.anchor /\ r.series = row.series /\ r.pred = NoTask
        /\ r.head = row.head /\ r.reported = NoMoment
        /\ r.assignees = row.assignees \ G
        /\ r.closedAt = row.closedAt /\ r.version = row.version
    BY <1>1, <1>2 DEF TaskRows
  <1> QED
    BY <1>3 DEF r

LEMMA SameRow ==
  ASSUME NEW a \in TaskRows, NEW b \in TaskRows,
         a.status = b.status, a.due = b.due, a.rule = b.rule, a.anchor = b.anchor,
         a.series = b.series, a.pred = b.pred, a.head = b.head,
         a.reported = b.reported, a.assignees = b.assignees,
         a.closedAt = b.closedAt, a.version = b.version
  PROVE  a = b
  BY DEF TaskRows

LEMMA ReadKept ==
  ASSUME NEW row \in TaskRows, NEW new \in TaskRows, NEW G, NEW H,
         new.status = row.status, new.due = row.due, new.rule = row.rule,
         new.anchor = row.anchor, new.series = row.series, new.head = row.head,
         new.assignees \ H = (row.assignees \ G) \ H,
         new.closedAt = row.closedAt, new.version = row.version
  PROVE  Shown(new, H) = Without(Shown(row, G), H)
  <1> DEFINE a == Shown(new, H)
             r == Shown(row, G)
             b == Without(r, H)
  <1>1. /\ a \in TaskRows
        /\ a.status = new.status /\ a.due = new.due /\ a.rule = new.rule
        /\ a.anchor = new.anchor /\ a.series = new.series /\ a.pred = NoTask
        /\ a.head = new.head /\ a.reported = NoMoment
        /\ a.assignees = new.assignees \ H
        /\ a.closedAt = new.closedAt /\ a.version = new.version
    BY ReadFields
  <1>2. /\ r \in TaskRows
        /\ r.status = row.status /\ r.due = row.due /\ r.rule = row.rule
        /\ r.anchor = row.anchor /\ r.series = row.series /\ r.pred = NoTask
        /\ r.head = row.head /\ r.reported = NoMoment
        /\ r.assignees = row.assignees \ G
        /\ r.closedAt = row.closedAt /\ r.version = row.version
    BY ReadFields
  <1> HIDE DEF a, r
  <1>3. /\ b \in TaskRows
        /\ b.status = r.status /\ b.due = r.due /\ b.rule = r.rule
        /\ b.anchor = r.anchor /\ b.series = r.series /\ b.pred = r.pred
        /\ b.head = r.head /\ b.reported = r.reported
        /\ b.assignees = r.assignees \ H
        /\ b.closedAt = r.closedAt /\ b.version = r.version
    BY <1>2 DEF TaskRows, Without
  <1> HIDE DEF b
  <1>4. /\ a.status = b.status /\ a.due = b.due /\ a.rule = b.rule
        /\ a.anchor = b.anchor /\ a.series = b.series /\ a.pred = b.pred
        /\ a.reported = b.reported /\ a.assignees = b.assignees
        /\ a.closedAt = b.closedAt /\ a.version = b.version
    BY <1>1, <1>2, <1>3
  <1>5. a.head = b.head
    BY <1>1, <1>2, <1>3
  <1>6. a = b
    BY <1>1, <1>3, <1>4, <1>5, SameRow
  <1> QED
    BY <1>6 DEF a, b, r

\* FR-011: two commits never leave one version of a task in two states, and
\* what changes without a commit, the overdue marker and the traces of what
\* was erased, is nothing a client's edit could overwrite
\* (task.aggregate.ts:129).
THEOREM VersionsNameStates == Spec => VersionNamesState
  <1> DEFINE Named(t) ==
        \/ task'[t].version > task[t].version
        \/ /\ task'[t].version = task[t].version
           /\ Read(task[t])' = [Read(task[t]) EXCEPT !.assignees = @ \ gone']
           /\ task'[t].pred \in {task[t].pred, NoTask}
  <1>1. ASSUME TypeOK, TypeOK', NEW t \in Task, NEW row, row = task[t],
               NEW new, new = task'[t],
               new.status = row.status, new.due = row.due, new.rule = row.rule,
               new.anchor = row.anchor, new.series = row.series,
               new.head = row.head, new.closedAt = row.closedAt,
               new.version = row.version, new.pred \in {row.pred, NoTask},
               new.assignees \ gone' = (row.assignees \ gone) \ gone'
        PROVE  Named(t)
    <2>1. row \in TaskRows /\ new \in TaskRows
      BY <1>1 DEF TypeOK
    <2>2. Read(task[t])' = [Read(task[t]) EXCEPT !.assignees = @ \ gone']
      <3>1. /\ Read(task[t])' = Shown(new, gone')
            /\ Read(task[t]) = Shown(row, gone)
        BY <1>1 DEF Read, Shown
      <3>2. Shown(new, gone') = Without(Shown(row, gone), gone')
        BY <1>1, <2>1, ReadKept
      <3>3. [Read(task[t]) EXCEPT !.assignees = @ \ gone']
              = Without(Shown(row, gone), gone')
        BY <3>1 DEF Without
      <3> QED
        BY <3>1, <3>2, <3>3
    <2> QED
      BY <1>1, <2>2
  <1>2. ASSUME TypeOK, [Next]_vars, NEW t \in Task, Exists(t), Exists(t)'
        PROVE  Named(t)
    <2>1. TypeOK'
      BY <1>2, StepType
    <2>2. CASE task'[t] = task[t] /\ gone' = gone
      <3>1. task[t].assignees \ gone' = (task[t].assignees \ gone) \ gone'
        BY <2>2
      <3> HIDE DEF Named
      <3> QED
        BY <1>1, <1>2, <2>1, <2>2, <3>1
    <2>3. CASE EraseEnd
      <3>1. t \notin erasing /\ gone' = gone
        BY <1>2, <2>3, EraseEndRows DEF Exists, EraseEnd
      <3> HIDE DEF Named
      <3> QED
        BY <1>1, <1>2, <2>1, <2>3, <3>1, EraseEndRows
    <2>4. ASSUME NEW m \in Member, EraseMember(m)
          PROVE  Named(t)
      <3>1. gone' = gone \cup {m}
        BY <2>4 DEF EraseMember
      <3>2. task'[t].assignees \ gone' = (task[t].assignees \ gone) \ gone'
        BY <1>2, <2>4, <3>1, EraseMemberRows
      <3> HIDE DEF Named
      <3> QED
        BY <1>1, <1>2, <2>1, <2>4, <3>2, EraseMemberRows
    <2>5. ASSUME NEW p \in Sweeper, NEW u \in Task, NEW at, Report(p, u, at)
          PROVE  Named(t)
      <3>1. gone' = gone
        BY <2>5 DEF Report
      <3>2. CASE task'[t] = task[t]
        BY <2>2, <3>1, <3>2
      <3>3. CASE task'[t] # task[t]
        <4> DEFINE old == task[t]
        <4>1. Put(u, OverdueReported(task[u]))
          BY <1>2, <2>5, <3>3, ReportCases
        <4>2. u = t /\ task'[t] = OverdueReported(old)
          BY <1>2, <3>3, <4>1 DEF Put, TypeOK
        <4>3. old \in TaskRows
          BY <1>2, RowType
        <4> DEFINE new == OverdueReported(old)
        <4> HIDE DEF old
        <4>4. /\ new.status = old.status /\ new.due = old.due
              /\ new.rule = old.rule /\ new.anchor = old.anchor
              /\ new.series = old.series /\ new.head = old.head
              /\ new.closedAt = old.closedAt /\ new.version = old.version
              /\ new.pred = old.pred /\ new.assignees = old.assignees
          BY <4>3 DEF OverdueReported, TaskRows
        <4> HIDE DEF new, Named
        <4>5. new = task'[t] /\ old = task[t]
          BY <4>2 DEF new, old
        <4>6. new.assignees \ gone' = (old.assignees \ gone) \ gone'
          BY <3>1, <4>4
        <4> QED
          BY <1>1, <1>2, <2>1, <4>4, <4>5, <4>6
      <3> QED
        BY <3>2, <3>3
    <2>6. ASSUME NEW u \in Task, MemberStep(u)
          PROVE  Named(t)
      <3>1. gone' = gone
        BY <1>2, <2>6, MemberCases
      <3>2. ASSUME NEW row, Fresh(u, row), Insert(u, row)
            PROVE  task'[t] = task[t]
        <4>1. u # t
          BY <1>2, <3>2 DEF Insert, IsNext, Exists
        <4> QED
          BY <1>2, <3>2, <4>1, PutType DEF Fresh, Insert
      <3>3. ASSUME NEW row, Alters(u, row), Put(u, row)
            PROVE  task'[t] = task[t] \/ task'[t].version > task[t].version
        BY <1>2, <3>3, PutType DEF Alters, Keeps
      <3>4. ASSUME NEW s \in Task, NEW old, NEW new,
                   Hands(u, old, s, new), HandOverOf(u, old, s, new)
            PROVE  task'[t] = task[t] \/ task'[t].version > task[t].version
        <4>1. t # s
          BY <1>2, <3>4 DEF HandOverOf, IsNext, Exists
        <4> QED
          BY <1>2, <3>4, <4>1, HandOverType DEF Hands
      <3> QED
        BY <1>2, <2>2, <2>6, <3>1, <3>2, <3>3, <3>4, MemberCases
    <2>7. task' = task /\ gone' = gone => Named(t)
      BY <2>2
    <2> HIDE DEF Named
    <2> QED
      BY <1>2, <2>3, <2>4, <2>5, <2>6, <2>7
      DEF Next, SweepStep, Discover, ReportLost, TimePasses, EraseBegin, vars
  <1>3. IInv /\ [Next]_vars
          => [\A t \in Task : Exists(t) /\ Exists(t)' => Named(t)]_vars
    BY <1>2 DEF IInv
  <1> QED
    BY <1>3, Inductive, PTL DEF Spec, VersionNamesState

==============================================================================
