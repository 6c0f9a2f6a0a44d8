SPECIFICATION Spec
CONSTANTS
  turn = turn
  action = action
  Runs = {turn, action}
  Origin <- MCOrigin
  Requests = {w1, w2}
  Keys = {k1}
  MaxSteps = 11
  MaxFaults = 1
SYMMETRY Alike
INVARIANTS WholeWhenReady PassedIsFaithful RefusedForCause SoleExecutor
CONSTRAINT OneAfterTheOther
CHECK_DEADLOCK FALSE
