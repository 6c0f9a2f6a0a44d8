\* Three turns, a clock that runs past two rests of a circuit.
CONSTANTS
  t1 = t1
  t2 = t2
  t3 = t3
  Turns <- SharedBy
  Threshold = 2
  Recovery = 4
  Budget = 3
  PerCall = 2
  Attempts = 2
  Concurrency = 2
  EndOfTime = 7
SPECIFICATION Spec
SYMMETRY Alike
INVARIANTS
  SingleProbe
  WithinDeadline
CHECK_DEADLOCK FALSE
