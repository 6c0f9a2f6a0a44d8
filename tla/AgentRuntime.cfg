\* A thread about one of two issues with one of everything that can go wrong, or a longer
\* one about a single repair.
SPECIFICATION FairSpec
CONSTANTS
  None = None
  Issues <- MCIssues
  Slots <- MCSlots
  Existing <- MCExisting
  Utterances <- MCUtterances
  MaxTurns = 5
  MaxMoves = 1
  MaxTrouble = 2
  MaxReads = 1
INVARIANTS
  CheckpointLoads
PROPERTIES
  BookedAsConfirmed
  NothingSentWhilePending
  EveryTurnEnds
CONSTRAINT BroadOrDeep
CHECK_DEADLOCK FALSE
