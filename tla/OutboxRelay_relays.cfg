\* Two relays, two rows, two queues, a batch of two, two faults.
SPECIFICATION Spec
CONSTANTS
  r1 = r1
  r2 = r2
  Event <- TwoEvents
  Queue <- MCQueue
  Destinations <- TwoDestinations
  Relay <- MCRelay
  BatchSize = 2
  MaxFaults = 2
  MaxCutoff = 1
INVARIANTS
  DuplicatesAccountedFor
PROPERTIES
  RefinesOutbox
  EveryRowPublished
