CONSTANTS
  Sessions = {"A", "B"}
  Keys = {1, 2}
  Tickets = {1, 2, 3, 4}
  Visits = {1, 2, 3, 4}
  Slots = {"am", "pm"}
  Subjects = {"door"}
  Starts <- AnyStage
  MaxSubmissions = 2
  MaxFaults = 1
  None = None
SPECIFICATION FairSpec
INVARIANTS
  BookingsSound
PROPERTIES
  ImplementsContract
  CommitsAreSerial
  SessionsEnd
CHECK_DEADLOCK FALSE
