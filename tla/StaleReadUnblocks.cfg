\* A read of the thread that lasts longer than a turn.
SPECIFICATION Spec
CONSTANTS
  None = None
  Issues = {"tap"}
  Slots = {1}
  Existing <- OneTicket
  Utterances <- OneRequest
  MaxTurns = 4
  MaxMoves = 1
  MaxTrouble = 2
  MaxReads = 1
PROPERTIES
  UnsettledBlocks
CHECK_DEADLOCK FALSE
