\* What ensure_aggregate_consistency says of REWORK_REQUIRED tickets.
CONSTANTS
  t1 = t1
  t2 = t2
  a1 = a1
  a2 = a2
  a3 = a3
  w1 = w1
  s1 = s1
  None = None
  Tickets <- OneTicket
  Appointments <- ThreeAppointments
  Workers = {w1}
  Slots <- OneSlot
  Times = {0}
  Eligible <- EveryPair
  Subjects = {s1}
  MaxVersion = 6
SPECIFICATION Spec
SYMMETRY Identities
INVARIANT NoBookingOutsideVisit
CHECK_DEADLOCK FALSE
