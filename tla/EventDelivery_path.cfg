\* A relay and a poller, one row for two queues, one fault, two receives.
SPECIFICATION PathSpec
CONSTANTS
  r1 = r1
  p1 = p1
  Event <- OneRow
  Queue <- MCQueue
  Destinations <- MCDestinations
  Relay <- MCRelay
  BatchSize = 1
  MaxFaults = 1
  MaxCutoff = 0
  Consumed = 1
  Watcher = r1
  Message <- MCMessage
  EventOf <- MCEventOf
  Malformed <- NoMalformed
  Poller <- MCPoller
  MaxReceive = 2
  PollSize = 1
INVARIANTS
  NoEventVanishes
PROPERTIES
  KeepsPromise
  EveryEventEnds
