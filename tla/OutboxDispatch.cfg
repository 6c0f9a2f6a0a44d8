\* Two processes under one worker id, an event of every kind, one trouble.
CONSTANTS
  run = run
  bare = bare
  bad = bad
  p1 = p1
  p2 = p2
  w = w
  None = None
  Events <- EveryEvent
  Poison <- OnlyBad
  RunLinked <- OnlyRun
  Processes = {p1, p2}
  WorkerId <- OneWorkerId
  BatchSize = 2
  MaxAttempts = 2
  MaxTrouble = 1
SPECIFICATION FairSpec
INVARIANTS
  SoleHolder
PROPERTIES
  ImplementsContract
  EverySettles
  SupportedDispatched
CHECK_DEADLOCK FALSE
