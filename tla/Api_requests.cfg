\* Two requests at a time, two calls under one key, one fault.
SPECIFICATION Spec
CONSTANTS
  Call <- Calls
  Plans <- Uses
  Change <- Changes
  p = p
  q = q
  Attempt <- TwoRequests
  Limit = 1
  MaxFaults = 1
  MaxEffects = 2
INVARIANTS
  DoneOnce
  OneAnswerAKey
  AnswersAreOnesOwn
  GoneAreToldNothing
PROPERTIES
  EveryCallIsAnswered
CHECK_DEADLOCK FALSE
