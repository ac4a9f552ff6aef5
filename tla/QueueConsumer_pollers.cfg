\* Two pollers, one copy of an event and a malformed message, two receives each.
SPECIFICATION Spec
CONSTANTS
  p1 = p1
  p2 = p2
  Event <- MCEvent
  EventOf <- OneEventOf
  Message <- OneCopy
  Malformed <- MCMalformed
  Poller <- MCPoller
  MaxReceive = 2
  BatchSize = 2
INVARIANTS
  RepeatsAccountedFor
PROPERTIES
  EveryMessageSettles
  LetterIsFound
