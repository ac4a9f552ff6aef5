\* Windows of up to 160 days over the fifteen series, into the third year.
SPECIFICATION Spec
CONSTANTS
  Series <- SeriesSet
  Step = 955
  Horizon = 18000
  MaxWidth = 3820
  MaxPeriods = 500
  MaxSteps = 12
  MaxOccurrences = 150
  Reach = 8000
INVARIANTS
  ExpandsTheRule
  ExhaustedIsOver
  NextIsNext
CHECK_DEADLOCK FALSE
