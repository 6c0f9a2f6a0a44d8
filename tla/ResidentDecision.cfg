\* Every message of two marks, four conversations, every answer of one claim.
CONSTANTS
  Messages <- SmallMessages
  Contexts <- SmallContexts
  Answers <- SmallAnswers
SPECIFICATION RDSpec
INVARIANTS
  HumanAlwaysHeard
  AlarmFromMessage
  UnfoundedDecidesNothing
CHECK_DEADLOCK FALSE
