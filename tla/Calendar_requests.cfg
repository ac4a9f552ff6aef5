\* Two overlapping requests and the sweep over one event, for three days.
SPECIFICATION Spec
CONSTANTS
  Event = {"e"}
  Child = {"kit"}
  Request = {"p", "q"}
  Horizon = 2
  Trailing = 1
  Start = {0, 1}
  Length = {1}
  Rule <- Rules
  MaxDay = 2
  MaxServed = 3
  MaxFailures = 1
INVARIANTS
  OccurrencesFollowTheRule
PROPERTIES
  CancellationSurvives
  HorizonCatchesUp
CHECK_DEADLOCK FALSE
