\* Two sweeps of different cadence whose passes may hang, fail or succeed.
SPECIFICATION Spec
CONSTANTS
  fast = fast
  slow = slow
  Sweep <- MCSweep
  Cadence <- MCCadence
  Deadline = 2
  MaxWaiting = 2
INVARIANTS
  NoOverlap
  CleanStopIsQuiet
  AlertedOnce
PROPERTIES
  StallIsAlerted
