---------------------------- MODULE MCRecurrence ----------------------------
(***************************************************************************)
(* Series for TLC: each frequency with the parts it allows, in London,     *)
(* New York and two zones that keep one offset, through the clock changes  *)
(* of 2024.                                                                *)
(***************************************************************************)
EXTENDS Recurrence

Hour(day, hour) == 24 * day + hour

Changes(at, offset, later, back) == {[at |-> at, offset |-> offset], [at |-> later, offset |-> back]}
London     == [initial |-> 0,   changes |-> Changes(Hour(90, 1), 1, Hour(300, 1), 0)]
NewYork    == [initial |-> -5,  changes |-> Changes(Hour(69, 7), -4, Hour(307, 6), -5)]
Kiritimati == [initial |-> 14,  changes |-> {}]
Honolulu   == [initial |-> -10, changes |-> {}]

Until(kind, at) == [kind |-> kind, at |-> at]
Every(freq, interval) ==
  [freq |-> freq, interval |-> interval, count |-> 0, until |-> Until("none", 0),
   byDay |-> {}, byMonthDay |-> {}, byMonth |-> {}, wkst |-> 0]
On(weekday, ordinal) == [weekday |-> weekday, ordinal |-> ordinal]
From(dtstart, zone, rule) == [rule |-> rule, dtstart |-> dtstart, zone |-> zone]

\* Readings that are skipped in London on 31 March and shown twice on 27 October.
Skipped == Hour(83, 1)

SeriesSet ==
  {From(Skipped, London, Every("DAILY", 1)),
   From(Hour(60, 23), NewYork, [Every("DAILY", 3) EXCEPT !.byMonthDay = {1, -1}]),
   From(Hour(3, 0), Kiritimati, [Every("DAILY", 1) EXCEPT !.byMonth = {2, 7}, !.byDay = {On(4, 0)}]),
   From(Skipped, London, Every("WEEKLY", 1)),
   From(Hour(66, 2), NewYork, [Every("WEEKLY", 2) EXCEPT !.byDay = {On(0, 0), On(6, 0)}, !.wkst = 6]),
   From(Hour(2, 23), Honolulu, [Every("WEEKLY", 3) EXCEPT !.until = Until("utc", Hour(129, 9))]),
   From(Hour(30, 9), London, Every("MONTHLY", 1)),
   From(Hour(59, 0), Kiritimati, [Every("MONTHLY", 1) EXCEPT !.byMonthDay = {-1, 30}, !.count = 7]),
   From(Hour(10, 1), London, [Every("MONTHLY", 1) EXCEPT !.byDay = {On(6, -1)}]),
   From(Hour(4, 23), NewYork, [Every("MONTHLY", 2) EXCEPT !.byDay = {On(4, 5)},
                                                          !.until = Until("date", 303)]),
   From(Hour(59, 9), London, Every("YEARLY", 1)),
   From(Hour(0, 12), London, [Every("YEARLY", 1) EXCEPT !.byDay = {On(0, 20), On(3, -1)}]),
   From(Hour(0, 1), London, [Every("YEARLY", 1) EXCEPT !.byMonth = {3, 10}, !.byDay = {On(6, -1)},
                                                       !.until = Until("local", Hour(300, 1))]),
   From(Hour(0, 9), NewYork, [Every("YEARLY", 1) EXCEPT !.byMonth = {2}, !.byMonthDay = {30}]),
   From(Hour(12, 7), Honolulu, [Every("DAILY", 10) EXCEPT !.count = 5])}
==============================================================================
