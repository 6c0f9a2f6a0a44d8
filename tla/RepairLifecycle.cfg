\* Long histories of one ticket with three visits, and two tickets competing for one worker.
CONSTANTS
  t1 = t1
  t2 = t2
  a1 = a1
  a2 = a2
  a3 = a3
  w1 = w1
  s1 = s1
  None = None
  Tickets <- TwoTickets
  Appointments <- ThreeAppointments
  Workers = {w1}
  Slots <- AllSlots
  Times = {0, 1}
  Eligible <- EveryPair
  Subjects = {s1}
  MaxVersion = 9
SPECIFICATION Spec
SYMMETRY Identities
CONSTRAINT LongOrShort
INVARIANTS
  AggregateAgreement
  VisitProtocol
  HistoryMatches
PROPERTIES
  VersionCoversVisit
  ImplementsContract
  DuplicateExcused
CHECK_DEADLOCK FALSE
