\* Two workers under one id, batches of two, and a mutation that may be sent twice.
CONSTANTS
  once = once
  twice = twice
  p1 = p1
  p2 = p2
  w = w
  None = None
  Mutations = {once, twice}
  Workers = {p1, p2}
  WorkerId <- OneWorkerId
  BatchSize = 2
  MaxAttempts = 2
  MaxSends <- TwiceAtMost
  MaxTrouble = 1
SPECIFICATION FairSpec
INVARIANTS
  VerdictFresh
PROPERTIES
  ImplementsContract
  EveryCaseSettles
CHECK_DEADLOCK FALSE
