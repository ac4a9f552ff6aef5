\* A series under two rules, three changes by members, two sweeps and an erasure.
SPECIFICATION Spec
CONSTANTS
  Task = {1, 2, 3}
  Member = {m}
  Sweeper = {p, q}
  Rule = {1, 2}
  Horizon = 6
  MaxCreated = 1
  Moments = {0, 8}
  MaxVersion = 4
  MaxChanges = 3
  DueInput <- DayOne
  Every <- MCEvery
  Count <- MCCount
INVARIANTS
  OneNewestHead
  OneSuccessor
  NoGap
  NotAnnouncedAgain
PROPERTIES
  SuccessorStartsAhead
  VersionNamesState
  EveryMissIsAnnounced
CHECK_DEADLOCK FALSE
