----------------------- MODULE MCCommandTransactions -----------------------
(***************************************************************************)
(* Model values for model checking CommandTransactions: two connections,   *)
(* and the rows a repair may have reached before they start.               *)
(***************************************************************************)
EXTENDS CommandTransactions

\* Ticket 1 with its first visit in some state, ticket 2 open, ticket 3 and the other
\* visits not yet there.
Before(status, visit, log) ==
  [c \in Cells |->
     CASE c = TicketCell(1) -> TicketRow(status, 3, 0, "NONE", "leak")
       [] c = TicketCell(2) -> TicketRow("OPEN", 1, 0, "NONE", "lamp")
       [] c = VisitCell(1) -> VisitRow(visit, 1, 1, "am", "INITIAL_REPAIR", 0)
       [] c = LogCell(1) -> LogRow(log)
       [] c[1] = "TICKET" -> NoTicket
       [] c[1] = "VISIT" -> NoVisit
       [] OTHER -> LogRow(<<>>)]

Held(prior, visit, log) ==
  [Before("ESCALATED", visit, log) EXCEPT ![TicketCell(1)].prior = prior]

\* A visit that is accepted, under way or done, and a hold over an accepted one.
AnyStage ==
  {Before("SCHEDULED", "BOOKED", <<"ACCEPTED">>),
   Before("IN_PROGRESS", "BOOKED", <<"ACCEPTED", "STARTED">>),
   Before("PENDING_ACCEPTANCE", "FULFILLED", <<"ACCEPTED", "STARTED", "COMPLETED">>),
   Held("SCHEDULED", "BOOKED", <<"ACCEPTED">>)}
=============================================================================
