------------------------------ MODULE Recurrence ------------------------------
(***************************************************************************)
(* The recurrence kernel (packages/kernel/src/recurrence): expanding a     *)
(* rule over a window, finding the occurrence after an instant, and        *)
(* turning a reading of the wall clock into an instant.                    *)
(*                                                                         *)
(* A date is a number of days since Monday 1 January 2024, a reading or an *)
(* instant a number of hours since the start of that day; the calendar is  *)
(* right from 1901 to 2099.  A caller expands one window after another, as *)
(* the horizon of an event moves on.                                       *)
(***************************************************************************)
EXTENDS Integers, FiniteSets, SequencesExt

CONSTANTS
  Series,          \* rules with their start (DTSTART) and zone
  Step,            \* hours by which a window is widened
  Horizon,         \* bound: the end of the last window, in hours
  MaxWidth,        \* bound: the width of a window, in hours
  MaxPeriods,      \* bound: periods looked at (200 000 in the code)
  MaxSteps,        \* bound: windows nextOccurrenceAfter tries (64 in the code)
  MaxOccurrences,  \* what one expansion may produce
  Reach            \* bound: the last date of any series, in days

VARIABLES
  series,  \* the series that is expanded
  from,    \* its window: instants in [from, to)
  to

vars == <<series, from, to>>

Day  == 24

------------------------------------------------------------------------------
(* Rules. *)

\* What parse lets through: which parts go together and their ranges.  A rule
\* without COUNT has the count 0.
IsRule(r) ==
  /\ r.freq \in {"DAILY", "WEEKLY", "MONTHLY", "YEARLY"}
  /\ r.interval \in Nat \ {0}
  /\ r.count \in Nat
  /\ r.until.kind \in {"none", "date", "utc", "local"}
  /\ r.count = 0 \/ r.until.kind = "none"
  /\ \A d \in r.byDay :
       /\ d.weekday \in 0 .. 6 /\ d.ordinal \in -53 .. 53
       /\ d.ordinal # 0 => r.freq \in {"MONTHLY", "YEARLY"}
       /\ r.freq = "MONTHLY" => d.ordinal \in -5 .. 5
  /\ r.byMonthDay \subseteq (-31 .. 31) \ {0}
  /\ r.freq = "WEEKLY" => r.byMonthDay = {}
  /\ r.byMonth \subseteq 1 .. 12
  /\ r.wkst \in 0 .. 6

ASSUME SeriesAssumption == \A s \in Series : IsRule(s.rule)

------------------------------------------------------------------------------
(* Dates: months are counted from January 2024. *)

DaysBefore == <<0, 31, 59, 90, 120, 151, 181, 212, 243, 273, 304, 334>>
MonthStart(m) ==
  LET year == (m % 48) \div 12
  IN 1461 * (m \div 48) + 365 * year + DaysBefore[(m % 12) + 1]
     + (IF year > 0 \/ m % 12 > 1 THEN 1 ELSE 0)
DaysInMonth(m) == MonthStart(m + 1) - MonthStart(m)
MonthOf(date) ==
  LET near == (48 * date) \div 1461
  IN CHOOSE m \in near - 1 .. near + 1 : MonthStart(m) <= date /\ date < MonthStart(m + 1)
DayOf(date)   == date - MonthStart(MonthOf(date)) + 1
YearOf(date)  == MonthOf(date) \div 12
MonthNumber(m)  == (m % 12) + 1
WeekdayOf(date) == date % 7
StartOfWeek(date, wkst) == date - ((WeekdayOf(date) - wkst) % 7)
MonthDates(m) == MonthStart(m) .. MonthStart(m + 1) - 1
YearDates(y)  == MonthStart(12 * y) .. MonthStart(12 * y + 12) - 1

------------------------------------------------------------------------------
(* The clock of a zone: [initial, changes], each change with the instant it *)
(* comes at and the hours east of UTC from then on.                         *)

OffsetAt(zone, instant) ==
  LET past == {c \in zone.changes : c.at <= instant}
  IN IF past = {} THEN zone.initial
     ELSE (CHOOSE c \in past : \A d \in past : d.at <= c.at).offset
InstantToLocal(zone, instant) == instant + OffsetAt(zone, instant)

\* Mutant of LocalToInstant: a reading that does not exist under the later offset.
LocalToInstantLater(zone, local) ==
  LET before == OffsetAt(zone, local - Day)
      after  == OffsetAt(zone, local + Day)
      real   == {i \in {local - before, local - after} : InstantToLocal(zone, i) = local}
  IN IF real # {} THEN Min(real) ELSE local - after

\* The offsets a day either side give the candidates; the earlier real one, or
\* the reading under the offset in force before the gap.
LocalToInstant(zone, local) ==
  LET before == OffsetAt(zone, local - Day)
      after  == OffsetAt(zone, local + Day)
      real   == {i \in {local - before, local - after} : InstantToLocal(zone, i) = local}
  IN IF real # {} THEN Min(real) ELSE local - before

DateAt(zone, instant) == InstantToLocal(zone, instant) \div Day

------------------------------------------------------------------------------
(* The dates of one period. *)

ResolveMonthDays(m, byMonthDay) ==
  {IF n > 0 THEN MonthStart(m) + n - 1 ELSE MonthStart(m + 1) + n : n \in byMonthDay}
    \cap MonthDates(m)

\* BYDAY within a month or a year: every such weekday, or the ordinal-th of them.
ExpandByDay(scope, byDay) ==
  UNION {LET matching == {d \in scope : WeekdayOf(d) = rule.weekday}
         IN matching \cap
              CASE rule.ordinal = 0 -> matching
                [] rule.ordinal > 0 -> {Min(matching) + 7 * (rule.ordinal - 1)}
                [] rule.ordinal < 0 -> {Max(matching) + 7 * (rule.ordinal + 1)} : rule \in byDay}

MatchesByDay(date, byDay) ==
  byDay = {} \/ date \in ExpandByDay(MonthDates(MonthOf(date)), byDay)
MatchesByMonthDay(date, byMonthDay) ==
  byMonthDay = {} \/ date \in ResolveMonthDays(MonthOf(date), byMonthDay)
MatchesByMonth(m, byMonth) == byMonth = {} \/ MonthNumber(m) \in byMonth

DailyDates(r, start, k) ==
  {d \in {start + k * r.interval} :
     /\ MatchesByMonth(MonthOf(d), r.byMonth)
     /\ MatchesByMonthDay(d, r.byMonthDay)
     /\ MatchesByDay(d, r.byDay)}

WeeklyDates(r, start, k) ==
  LET week == StartOfWeek(start, r.wkst) + 7 * k * r.interval
      days == IF r.byDay = {} THEN {WeekdayOf(start)} ELSE {d.weekday : d \in r.byDay}
  IN {d \in week .. week + 6 : WeekdayOf(d) \in days /\ MatchesByMonth(MonthOf(d), r.byMonth)}

MonthlyDates(r, start, k) ==
  LET m == MonthOf(start) + k * r.interval
  IN IF ~MatchesByMonth(m, r.byMonth) THEN {}
     ELSE IF r.byMonthDay # {}
       THEN {d \in ResolveMonthDays(m, r.byMonthDay) : MatchesByDay(d, r.byDay)}
     ELSE IF r.byDay # {} THEN ExpandByDay(MonthDates(m), r.byDay)
     ELSE ResolveMonthDays(m, {DayOf(start)})

YearlyDates(r, start, k) ==
  LET year   == YearOf(start) + k * r.interval
      months == {12 * year + n - 1 : n \in r.byMonth}
      all    == {12 * year + n : n \in 0 .. 11}
  IN IF r.byMonthDay # {}
       THEN {d \in UNION {ResolveMonthDays(m, r.byMonthDay)
                            : m \in IF months = {} THEN all ELSE months} :
               MatchesByDay(d, r.byDay)}
     ELSE IF r.byDay # {}
       THEN IF months = {} THEN ExpandByDay(YearDates(year), r.byDay)
            ELSE UNION {ExpandByDay(MonthDates(m), r.byDay) : m \in months}
     ELSE UNION {ResolveMonthDays(m, {DayOf(start)})
                   : m \in IF months = {} THEN {12 * year + (MonthOf(start) % 12)} ELSE months}

CandidatesForPeriod(r, start, k) ==
  CASE r.freq = "DAILY"   -> DailyDates(r, start, k)
    [] r.freq = "WEEKLY"  -> WeeklyDates(r, start, k)
    [] r.freq = "MONTHLY" -> MonthlyDates(r, start, k)
    [] r.freq = "YEARLY"  -> YearlyDates(r, start, k)

------------------------------------------------------------------------------
(* Expanding a rule over a window. *)

PeriodsBetween(r, start, date) ==
  CASE r.freq = "DAILY"   -> (date - start) \div r.interval
    [] r.freq = "WEEKLY"  ->
         (StartOfWeek(date, r.wkst) - StartOfWeek(start, r.wkst)) \div (7 * r.interval)
    [] r.freq = "MONTHLY" -> (MonthOf(date) - MonthOf(start)) \div r.interval
    [] r.freq = "YEARLY"  -> (YearOf(date) - YearOf(start)) \div r.interval

PeriodStart(r, start, k) ==
  LET step == k * r.interval
  IN CASE r.freq = "DAILY"   -> start + step
       [] r.freq = "WEEKLY"  -> StartOfWeek(start, r.wkst) + 7 * step
       [] r.freq = "MONTHLY" -> MonthStart(MonthOf(start) + step)
       [] r.freq = "YEARLY"  -> MonthStart(12 * (YearOf(start) + step))

BeyondUntil(r, local, instant) ==
  CASE r.until.kind = "none"  -> FALSE
    [] r.until.kind = "date"  -> local \div Day > r.until.at
    [] r.until.kind = "utc"   -> instant > r.until.at
    [] r.until.kind = "local" -> local > r.until.at

\* Mutant of FirstPeriod: the period of the window's start counts as passed.
FirstPeriodAfter(s, first) ==
  IF s.rule.count # 0 THEN 0
  ELSE Max({0, PeriodsBetween(s.rule, s.dtstart \div Day, DateAt(s.zone, first)) + 1})

\* Without a COUNT the periods that end before the window are skipped, with two
\* days and one period to spare.
FirstPeriod(s, first) ==
  IF s.rule.count # 0 THEN 0
  ELSE Max({0, PeriodsBetween(s.rule, s.dtstart \div Day, DateAt(s.zone, first) - 2) - 1})

Periods(s, first, last) ==
  LET k == FirstPeriod(s, first)
  IN {n \in k .. k + MaxPeriods - 1 :
        PeriodStart(s.rule, s.dtstart \div Day, n) <= DateAt(s.zone, last) + 1}

\* The readings the loop comes by, from the earliest on.
Readings(s, first, last) ==
  LET dates  == UNION {CandidatesForPeriod(s.rule, s.dtstart \div Day, k)
                         : k \in Periods(s, first, last)}
      locals == {Day * d + (s.dtstart % Day) : d \in dates}
  IN {l \in locals : l >= s.dtstart}

\* Mutant of Ends: the occurrence that COUNT names last is left out.
EndsEarly(s, locals, l) ==
  \/ BeyondUntil(s.rule, l, LocalToInstant(s.zone, l))
  \/ s.rule.count # 0 /\ Cardinality({m \in locals : m <= l}) >= s.rule.count

\* The rule is over at this reading of those the loop comes by.
Ends(s, locals, l) ==
  \/ BeyondUntil(s.rule, l, LocalToInstant(s.zone, l))
  \/ s.rule.count # 0 /\ Cardinality({m \in locals : m <= l}) > s.rule.count

\* The loop stops at the first reading that is beyond the rule or the window.
Stop(s, locals, last) ==
  LET beyond == {l \in locals : Ends(s, locals, l) \/ LocalToInstant(s.zone, l) >= last}
  IN IF beyond = {} THEN Day * Reach ELSE Min(beyond)

Found(s, locals, stop, first) ==
  {i \in {LocalToInstant(s.zone, l) : l \in {m \in locals : m < stop}} : i >= first}

Outcome(s, locals, stop, found) ==
  [ok          |-> Cardinality(found) <= MaxOccurrences,
   occurrences |-> found,
   exhausted   |-> stop \in locals /\ Ends(s, locals, stop)]

Expand(s, first, last) ==
  LET locals == Readings(s, first, last)
      stop   == Stop(s, locals, last)
  IN Outcome(s, locals, stop, Found(s, locals, stop, first))

------------------------------------------------------------------------------
(* The first occurrence after an instant: windows that double in width. *)

MaxSpan == 3660
InitialSpan(r) ==
  LET a == CASE r.freq = "DAILY" -> 2 [] r.freq = "WEEKLY" -> 8
             [] r.freq = "MONTHLY" -> 32 [] r.freq = "YEARLY" -> 367
  IN Min({a * r.interval, MaxSpan})

\* Mutant of NextFrom: the instant itself is not passed over.
NextFromIncluded(after) == after

NextFrom(after) == after + 1

\* What a window answers, or what the windows after it do.
Answered(e, later) ==
  CASE ~e.ok              -> [ok |-> FALSE, next |-> {}]
    [] e.occurrences # {} -> [ok |-> TRUE, next |-> {Min(e.occurrences)}]
    [] e.exhausted        -> [ok |-> TRUE, next |-> {}]
    [] OTHER              -> later

\* Adjacent windows, the first just after the instant, until one answers.
NextOccurrenceAfter(s, after) ==
  LET span[n \in 0 .. MaxSteps] ==
        IF n = 0 THEN InitialSpan(s.rule) ELSE Min({2 * span[n - 1], MaxSpan})
      start[n \in 0 .. MaxSteps] ==
        IF n = 0 THEN NextFrom(after) ELSE start[n - 1] + Day * span[n - 1]
      try[n \in 0 .. MaxSteps] ==
        IF n = MaxSteps THEN [ok |-> TRUE, next |-> {}]
        ELSE Answered(Expand(s, start[n], start[n] + Day * span[n]), try[n + 1])
  IN try[0]

------------------------------------------------------------------------------
(* What RFC 5545 says of a date, date by date: the reference. *)

InPeriod(r, start, d) ==
  CASE r.freq = "DAILY"   -> (d - start) % r.interval = 0
    [] r.freq = "WEEKLY"  ->
         (StartOfWeek(d, r.wkst) - StartOfWeek(start, r.wkst)) % (7 * r.interval) = 0
    [] r.freq = "MONTHLY" -> (MonthOf(d) - MonthOf(start)) % r.interval = 0
    [] r.freq = "YEARLY"  -> (YearOf(d) - YearOf(start)) % r.interval = 0

\* The ordinal of a date among its weekdays, from either end of its scope.
HasOrdinal(d, n, scope) ==
  LET alike == {e \in scope : WeekdayOf(e) = WeekdayOf(d)}
  IN \/ n = 0
     \/ n = Cardinality({e \in alike : e <= d})
     \/ -n = Cardinality({e \in alike : e >= d})

OnDay(r, start, d) ==
  LET scope == IF r.freq = "YEARLY" /\ r.byMonth = {} /\ r.byMonthDay = {}
                 THEN YearDates(YearOf(d)) ELSE MonthDates(MonthOf(d))
  IN IF r.byDay = {} /\ r.byMonthDay = {}
       THEN CASE r.freq = "DAILY"  -> TRUE
              [] r.freq = "WEEKLY" -> WeekdayOf(d) = WeekdayOf(start)
              [] OTHER             -> DayOf(d) = DayOf(start)
     ELSE /\ r.byMonthDay # {} =>
               \/ DayOf(d) \in r.byMonthDay
               \/ DayOf(d) - DaysInMonth(MonthOf(d)) - 1 \in r.byMonthDay
          /\ r.byDay # {} =>
               \E b \in r.byDay : b.weekday = WeekdayOf(d) /\ HasOrdinal(d, b.ordinal, scope)

InMonth(r, start, d) ==
  IF r.freq = "YEARLY" /\ r.byMonth = {} /\ r.byDay = {} /\ r.byMonthDay = {}
    THEN MonthNumber(MonthOf(d)) = MonthNumber(MonthOf(start))
    ELSE r.byMonth = {} \/ MonthNumber(MonthOf(d)) \in r.byMonth

\* A reading as people understand it: the first instant at which the clock shows
\* it, or, when it is skipped, as much later as the clock is put forward.
Understood(zone, local) ==
  LET shown == {i \in local - 15 .. local + 15 : InstantToLocal(zone, i) = local}
      gap   == CHOOSE c \in zone.changes :
                 /\ local >= c.at + OffsetAt(zone, c.at - 1)
                 /\ local < c.at + c.offset
  IN IF shown # {} THEN Min(shown) ELSE local - OffsetAt(zone, gap.at - 1)

\* The instants of a series up to a date.
Occurrences(s, last) ==
  LET r     == s.rule
      start == s.dtstart \div Day
      dates == {d \in start .. last :
                  InPeriod(r, start, d) /\ InMonth(r, start, d) /\ OnDay(r, start, d)}
      local(d) == Day * d + (s.dtstart % Day)
      within(d) ==
        /\ r.count # 0 => Cardinality({e \in dates : e <= d}) <= r.count
        /\ r.until.kind = "date"  => d <= r.until.at
        /\ r.until.kind = "utc"   => Understood(s.zone, local(d)) <= r.until.at
        /\ r.until.kind = "local" => local(d) <= r.until.at
  IN {Understood(s.zone, local(d)) : d \in {e \in dates : within(e)}}

Reference == [s \in Series |-> Occurrences(s, Reach)]

------------------------------------------------------------------------------
TypeOK ==
  /\ series \in Series
  /\ from \in Int /\ to \in Int /\ from <= to /\ to <= Horizon /\ to - from <= MaxWidth

\* A window opens at any time about the start of a series.
Init ==
  /\ series \in Series
  /\ from \in {series.dtstart - Step, series.dtstart, series.dtstart + 1}
  /\ to = from

\* A longer window is asked for, or the one that follows.
Widen ==
  /\ to + Step <= Horizon /\ to + Step - from <= MaxWidth
  /\ to' = to + Step
  /\ UNCHANGED <<series, from>>

Proceed ==
  /\ from < to /\ from' = to
  /\ UNCHANGED <<series, to>>

Next == Widen \/ Proceed

Spec == Init /\ [][Next]_vars

------------------------------------------------------------------------------
Expansion == Expand(series, from, to)

\* SC-003, FR-010: an expansion finds every instant of the rule in its window
\* and no other, however far the window is from the start of the series.
ExpandsTheRule ==
  Expansion.ok => Expansion.occurrences = {i \in Reference[series] : from <= i /\ i < to}

\* An expansion that reports the rule as ended has not left anything out
\* (materialisation stops there for good), and only an ended rule is reported.
ExhaustedIsOver ==
  Expansion.exhausted => \A i \in Reference[series] : i < to

\* The next occurrence of a chore is the first after the instant it is asked
\* for, and there is none only if none is to come.
NextIsNext ==
  LET later  == {i \in Reference[series] : i > from}
      answer == NextOccurrenceAfter(series, from)
  IN answer.ok => answer.next = IF later = {} THEN {} ELSE {Min(later)}

==============================================================================
