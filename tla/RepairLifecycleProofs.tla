----------------------- MODULE RepairLifecycleProofs -----------------------
(***************************************************************************)
(* Theorems of RepairLifecycle.  The inductive invariant comes first:      *)
(* well-typed rows, a latest appointment that is the only live one, empty  *)
(* logs of rows that do not exist, and a ticket that agrees with its       *)
(* visit.  A worker event finds its ticket through the appointment, so     *)
(* even type correctness needs OnlyLatestBooked; agreement needs both to   *)
(* know which visit a command changes.  On it rest what one step may do to *)
(* calendars and tickets, what the stored records of a repair tell about   *)
(* its past (its newest history row, the chain of appointments a           *)
(* reschedule builds, the worker events of one visit), and that the        *)
(* service implements RepairContract, every command being one step of the  *)
(* contract for the ticket it writes or a stutter.                         *)
(***************************************************************************)
EXTENDS RepairLifecycle, SequenceTheorems, TLAPS

-----------------------------------------------------------------------------
(***************************************************************************)
(* The rows of the transition table the commands look up.                  *)
(***************************************************************************)

\* Membership in one line of the transition table.
LEMMA RowsMembership ==
  ASSUME NEW f, NEW a, NEW to, NEW x, NEW f2, NEW a2, NEW to2, NEW A
  PROVE  [from |-> f, action |-> a, to |-> to, actor |-> x] \in Rows(f2, a2, to2, A)
           <=> f = f2 /\ a = a2 /\ to = to2 /\ x \in A
  BY DEF Rows

\* The table escalates from escalatable statuses, by the system or an operator.
LEMMA EscalateRows ==
  ASSUME NEW f, NEW x, Permitted(f, "ESCALATE", "ESCALATED", x)
  PROVE  f \in EscalatableStatus /\ x \in SystemOperator
  BY RowsMembership DEF Permitted, TicketTransitions, EscalatableStatus

\* The table reschedules scheduled tickets only, by the resident or an operator.
LEMMA RescheduleRows ==
  ASSUME NEW f, NEW x, Permitted(f, "RESCHEDULE", "SCHEDULED", x)
  PROVE  f = "SCHEDULED" /\ x \in ResidentOperator
  BY RowsMembership DEF Permitted, TicketTransitions

\* The statuses the table lets a resident accept in.
LEMMA AcceptRows ==
  ASSUME NEW f, NEW x, Permitted(f, "RESIDENT_ACCEPT", "CLOSED", x)
  PROVE  f \in {"SCHEDULED", "IN_PROGRESS", "PENDING_ACCEPTANCE"}
  BY RowsMembership DEF Permitted, TicketTransitions

\* The only status the table lets a resident reject in.
LEMMA RejectRows ==
  ASSUME NEW f, NEW x, Permitted(f, "RESIDENT_REJECT", "REWORK_REQUIRED", x)
  PROVE  f = "PENDING_ACCEPTANCE"
  BY RowsMembership DEF Permitted, TicketTransitions

-----------------------------------------------------------------------------
(***************************************************************************)
(* What the shared writes do to the rows they touch.                       *)
(***************************************************************************)
\* The effect of UpdateTicket on the two tables it writes.
Written(t, to, count, action, actor, emitted) ==
  /\ ticket' \in [Tickets -> TicketRow]
  /\ journal' \in [Tickets -> JournalRow]
  /\ ticket'[t].status = to
  /\ ticket'[t].escalated_from = IF to = "ESCALATED" THEN ticket[t].status ELSE "NONE"
  /\ ticket'[t].rework_count = count
  /\ ticket'[t].version = ticket[t].version + 1
  /\ ticket'[t].subject = ticket[t].subject
  /\ journal'[t] = [from |-> ticket[t].status, to |-> to, action |-> action,
                    actor |-> actor, version |-> ticket[t].version + 1,
                    emitted |-> emitted]
  /\ \A u \in Tickets \ {t} : ticket'[u] = ticket[u] /\ journal'[u] = journal[u]

\* A ticket update with well-typed arguments has the effect Written describes.
LEMMA UpdateTicketEffect ==
  ASSUME RowsOK, NEW t \in Tickets, NEW to \in TicketStatus, NEW count \in Nat,
         NEW action \in HistoryAction, NEW actor \in ActorType,
         NEW emitted \in SUBSET OutboxEventType,
         to = "ESCALATED" => ticket[t].status \in EscalatableStatus,
         UpdateTicket(t, to, count, action, actor, emitted)
  PROVE  Written(t, to, count, action, actor, emitted)
<1>. DEFINE row == [status |-> to,
                    escalated_from |-> IF to = "ESCALATED" THEN ticket[t].status ELSE "NONE",
                    rework_count |-> count, version |-> ticket[t].version + 1,
                    subject |-> ticket[t].subject]
<1>1. ticket[t] \in TicketRow /\ ticket \in [Tickets -> TicketRow]
  BY DEF RowsOK
<1>2. ticket[t].version \in 0..MaxVersion /\ ticket[t].version + 1 \in 0..MaxVersion
  BY <1>1, BoundAssumption DEF TicketRow, UpdateTicket
<1>3. row \in TicketRow
  BY <1>1, <1>2 DEF TicketRow
<1>4. ticket' = [ticket EXCEPT ![t] = row]
  BY <1>1 DEF UpdateTicket, NextVersion, TicketRow
<1>5. journal' = [journal EXCEPT ![t] = [from |-> ticket[t].status, to |-> to, action |-> action,
                                         actor |-> actor, version |-> ticket[t].version + 1,
                                         emitted |-> emitted]]
  BY DEF UpdateTicket, AppendJournal, NextVersion
<1>6. journal' \in [Tickets -> JournalRow]
  <2>1. [from |-> ticket[t].status, to |-> to, action |-> action, actor |-> actor,
         version |-> ticket[t].version + 1, emitted |-> emitted] \in JournalRow
    BY <1>1, <1>2 DEF JournalRow, TicketRow
  <2>. QED  BY <1>5, <2>1 DEF RowsOK
<1>. QED  BY <1>1, <1>3, <1>4, <1>5, <1>6 DEF RowsOK, Written

\* The event sets a command may add are sets of known events.
LEMMA EmittedType ==
  /\ StatusChanged \in SUBSET OutboxEventType
  /\ Just("ticket.created") \in SUBSET OutboxEventType
  /\ Just("appointment.rescheduled") \in SUBSET OutboxEventType
  /\ StatusChangedAnd("appointment.booked") \in SUBSET OutboxEventType
  /\ StatusChangedAnd("ticket.escalated") \in SUBSET OutboxEventType
  BY DEF StatusChanged, StatusChangedAnd, Just, OutboxEventType

\* An ended row is a row, of the same visit, with the new status.
LEMMA EndedType ==
  ASSUME NEW row \in AppointmentRow, NEW status \in AppointmentStatus
  PROVE  /\ Ended(row, status) \in AppointmentRow
         /\ Ended(row, status).status = status
         /\ Ended(row, status).ticket = row.ticket
         /\ Ended(row, status).worker = row.worker
         /\ Ended(row, status).slot = row.slot
         /\ Ended(row, status).purpose = row.purpose
         /\ Ended(row, status).supersedes = row.supersedes
<1>. DEFINE r == [row EXCEPT !.status = status]
<1>1. r = [ticket |-> row.ticket, worker |-> row.worker, slot |-> row.slot,
           purpose |-> row.purpose, status |-> status, version |-> row.version,
           supersedes |-> row.supersedes]
  BY DEF AppointmentRow
<1>2. Ended(row, status) = [r EXCEPT !.version = row.version + 1]
  BY DEF Ended
<1>. HIDE DEF r
<1>3. Ended(row, status) = [ticket |-> row.ticket, worker |-> row.worker, slot |-> row.slot,
                            purpose |-> row.purpose, status |-> status,
                            version |-> row.version + 1, supersedes |-> row.supersedes]
  BY <1>1, <1>2
<1>. QED  BY <1>3 DEF AppointmentRow

\* A newly booked row is a row.
LEMMA NewAppointmentType ==
  ASSUME NEW t \in Tickets, NEW w \in Workers, NEW s \in Slots,
         NEW purpose \in AppointmentPurpose, NEW old \in Appointments \cup {None}
  PROVE  NewAppointment(t, w, s, purpose, old) \in AppointmentRow
  BY DEF NewAppointment, AppointmentRow, AppointmentStatus

-----------------------------------------------------------------------------
(***************************************************************************)
(* Type correctness, one lemma per command.                                *)
(***************************************************************************)
\* The enumerated values the commands write.
LEMMA EnumNames ==
  /\ {"OPEN", "SCHEDULED", "IN_PROGRESS", "PENDING_ACCEPTANCE", "REWORK_REQUIRED", "CLOSED",
      "CANCELLED", "ESCALATED"} \subseteq TicketStatus
  /\ {"RESIDENT", "OPERATOR", "WORKER", "SYSTEM"} \subseteq ActorType
  /\ {"CREATE", "BOOK_APPOINTMENT", "RESCHEDULE", "RESIDENT_ACCEPT", "RESIDENT_REJECT",
      "ESCALATE"} \subseteq HistoryAction
  /\ \A d : RecoveryLabel(d) \in HistoryAction
  /\ \A e, p, d : WorkerTicketAction(e, p, d) \in HistoryAction
  BY DEF TicketStatus, EscalatableStatus, TerminalTicketStatus, ActorType, HistoryAction,
         TicketAction, RecoveryLabel, WorkerTicketAction

\* A creation in flight is for a ticket that is not stored yet and is the only one for it.
\* The tickets it has read are stored, and unless it is deliberate those about its subject
\* are settled.
CreationsSound ==
  /\ creating \in SUBSET Creation
  /\ \A c \in creating : ticket[c.ticket].status = "ABSENT"
  /\ \A c, d \in creating : c.ticket = d.ticket => c = d
  /\ \A c \in creating : \A u \in c.seen :
       /\ ticket[u].status # "ABSENT"
       /\ ticket[u].subject = c.subject /\ ~c.deliberate =>
            ticket[u].status \in TerminalTicketStatus

\* What inserting the row of creation c does.
Inserted(c) ==
  /\ c \in Creation /\ c.ticket \in Tickets /\ c.subject \in Subjects /\ c.actor \in ActorType
  /\ MaxVersion >= 1
  /\ ticket[c.ticket].status = "ABSENT"
  /\ ticket' = [ticket EXCEPT ![c.ticket] =
       [status |-> "OPEN", escalated_from |-> "NONE", rework_count |-> 0,
        version |-> 1, subject |-> c.subject]]
  /\ journal' = [journal EXCEPT ![c.ticket] =
       [from |-> "ABSENT", to |-> "OPEN", action |-> "CREATE", actor |-> c.actor,
        version |-> 1, emitted |-> Just("ticket.created")]]
  /\ creating' = creating \ {c}
  /\ UNCHANGED <<appointment, events, latest>>

LEMMA Created ==
  ASSUME CreationsSound, NEW c \in creating, CreateTicket(c)
  PROVE  Inserted(c)
  BY DEF CreationsSound, Creation, CreateTicket, AppendJournal, ResidentOperator, ActorType,
         Inserted

\* Creating a ticket keeps the tables well typed.
LEMMA CreateType ==
  ASSUME RowsOK, NEW c, Inserted(c)
  PROVE  RowsOK'
<1>1. [status |-> "OPEN", escalated_from |-> "NONE", rework_count |-> 0, version |-> 1,
       subject |-> c.subject] \in TicketRow
  BY BoundAssumption, EnumNames DEF TicketRow, Inserted
<1>2. [from |-> "ABSENT", to |-> "OPEN", action |-> "CREATE", actor |-> c.actor,
       version |-> 1, emitted |-> Just("ticket.created")] \in JournalRow
  BY BoundAssumption, EmittedType, EnumNames DEF JournalRow, Inserted
<1>. QED  BY <1>1, <1>2 DEF RowsOK, Inserted

-----------------------------------------------------------------------------
(***************************************************************************)
(* What each command writes to the ticket and its journal.                 *)
(***************************************************************************)
\* What booking writes to the ticket and its history.
LEMMA BookWrites ==
  ASSUME RowsOK, NEW t \in Tickets, NEW a \in Appointments, NEW w \in Workers,
         NEW s \in Slots, NEW actor \in ActorType, NEW at \in Times,
         BookAppointment(t, a, w, s, actor, at)
  PROVE  Written(t, "SCHEDULED", ticket[t].rework_count, "BOOK_APPOINTMENT", actor,
                 StatusChangedAnd("appointment.booked"))
<1>1. UpdateTicket(t, "SCHEDULED", ticket[t].rework_count, "BOOK_APPOINTMENT", actor,
                   StatusChangedAnd("appointment.booked"))
  BY DEF BookAppointment
<1>2. ticket[t].rework_count \in Nat
  BY DEF RowsOK, TicketRow
<1>. QED  BY <1>1, <1>2, UpdateTicketEffect, EmittedType, EnumNames

\* What rescheduling writes to the ticket and its history.
LEMMA RescheduleWrites ==
  ASSUME RowsOK, NEW t \in Tickets, NEW old \in Appointments, NEW a \in Appointments,
         NEW w \in Workers, NEW s \in Slots, NEW actor \in ActorType, NEW at \in Times,
         RescheduleAppointment(t, old, a, w, s, actor, at)
  PROVE  Written(t, "SCHEDULED", ticket[t].rework_count, "RESCHEDULE", actor,
                 Just("appointment.rescheduled"))
<1>1. UpdateTicket(t, "SCHEDULED", ticket[t].rework_count, "RESCHEDULE", actor,
                   Just("appointment.rescheduled"))
  BY DEF RescheduleAppointment
<1>2. ticket[t].rework_count \in Nat
  BY DEF RowsOK, TicketRow
<1>. QED  BY <1>1, <1>2, UpdateTicketEffect, EmittedType, EnumNames

\* What accepting writes to the ticket and its history.
LEMMA AcceptWrites ==
  ASSUME RowsOK, NEW t \in Tickets, NEW at \in Times, AcceptRepair(t, at)
  PROVE  Written(t, "CLOSED", ticket[t].rework_count, "RESIDENT_ACCEPT", "RESIDENT",
                 StatusChanged)
<1>1. UpdateTicket(t, "CLOSED", ticket[t].rework_count, "RESIDENT_ACCEPT", "RESIDENT",
                   StatusChanged)
  BY DEF AcceptRepair
<1>2. ticket[t].rework_count \in Nat
  BY DEF RowsOK, TicketRow
<1>. QED  BY <1>1, <1>2, UpdateTicketEffect, EmittedType, EnumNames

\* What rejecting writes to the ticket and its history.
LEMMA RejectWrites ==
  ASSUME RowsOK, NEW t \in Tickets, RejectRepair(t)
  PROVE  Written(t, "REWORK_REQUIRED", ticket[t].rework_count + 1, "RESIDENT_REJECT",
                 "RESIDENT", StatusChanged)
<1>1. UpdateTicket(t, "REWORK_REQUIRED", ticket[t].rework_count + 1, "RESIDENT_REJECT",
                   "RESIDENT", StatusChanged)
  BY DEF RejectRepair
<1>2. ticket[t].rework_count + 1 \in Nat
  BY DEF RowsOK, TicketRow
<1>. QED  BY <1>1, <1>2, UpdateTicketEffect, EmittedType, EnumNames

\* What escalating writes to the ticket and its history.
LEMMA EscalateWrites ==
  ASSUME RowsOK, NEW t \in Tickets, NEW actor \in ActorType, EscalateTicket(t, actor)
  PROVE  /\ ticket[t].status \in EscalatableStatus
         /\ Written(t, "ESCALATED", ticket[t].rework_count, "ESCALATE", actor,
                    StatusChangedAnd("ticket.escalated"))
<1>1. UpdateTicket(t, "ESCALATED", ticket[t].rework_count, "ESCALATE", actor,
                   StatusChangedAnd("ticket.escalated"))
  BY DEF EscalateTicket
<1>2. ticket[t].rework_count \in Nat
  BY DEF RowsOK, TicketRow
<1>3. ticket[t].status \in EscalatableStatus
  BY EscalateRows DEF EscalateTicket
<1>. QED  BY <1>1, <1>2, <1>3, UpdateTicketEffect, EmittedType, EnumNames

\* What recovering writes to the ticket and its history; it never escalates again.
LEMMA RecoverWrites ==
  ASSUME RowsOK, NEW t \in Tickets, NEW disposition \in RecoveryDisposition,
         NEW target \in TicketStatus, RecoverTicket(t, disposition, target)
  PROVE  /\ target # "ESCALATED"
         /\ Written(t, target,
              ticket[t].rework_count + (IF disposition = "APPROVE_REWORK" THEN 1 ELSE 0),
              RecoveryLabel(disposition), "OPERATOR", StatusChanged)
<1>. DEFINE count == ticket[t].rework_count + (IF disposition = "APPROVE_REWORK" THEN 1 ELSE 0)
<1>1. UpdateTicket(t, target, count, RecoveryLabel(disposition), "OPERATOR", StatusChanged)
  BY DEF RecoverTicket
<1>2. count \in Nat
  BY DEF RowsOK, TicketRow
<1>3. target # "ESCALATED"
  BY DEF RecoverTicket, RecoverTo, ResumeTo
<1>. HIDE DEF count
<1>4. Written(t, target, count, RecoveryLabel(disposition), "OPERATOR", StatusChanged)
  BY <1>1, <1>2, <1>3, UpdateTicketEffect, EmittedType, EnumNames
<1>. QED  BY <1>3, <1>4 DEF count

\* The part of OnlyLatestBooked that ties a stored appointment to its ticket.
LEMMA BookedOwner ==
  ASSUME RowsOK, OnlyLatestBooked, NEW a \in Appointments, Booked(a)
  PROVE  /\ appointment[a].ticket \in Tickets
         /\ latest[appointment[a].ticket] = a
         /\ Visit(appointment[a].ticket) = "BOOKED"
         /\ VisitEvent(appointment[a].ticket) = LastEvent(events[a])
  BY NoneAssumption DEF OnlyLatestBooked, Booked, Visit, VisitEvent

\* The statuses a worker event leads to; only progress leaves the ticket where it is.
LEMMA WorkerTargetType ==
  ASSUME NEW evt \in WorkerEventType, NEW purpose, NEW d \in FailureDisposition,
         NEW status \in TicketStatus, status = RequiredTicketStatus(evt)
  PROVE  /\ TicketAfter(evt, purpose, d, status) \in TicketStatus
         /\ AppointmentAfter(evt) \in AppointmentStatus
         /\ status \in {"SCHEDULED", "IN_PROGRESS"}
         /\ TicketAfter(evt, purpose, d, status) = status
              <=> evt \in {"ACCEPTED", "DEPARTED", "ARRIVED"}
  BY DEF TicketAfter, AppointmentAfter, RequiredTicketStatus, PreWorkEvent, WorkerEventType,
         TerminalEvent, TicketStatus, EscalatableStatus, AppointmentStatus,
         TerminalAppointmentStatus, FailureDisposition

\* The effect of a worker event on the two tables of the ticket.
WorkerWritten(t, a, evt, d, actor) ==
  \/ evt \in {"ACCEPTED", "DEPARTED", "ARRIVED"} /\ UNCHANGED <<ticket, journal>>
  \/ /\ evt \notin {"ACCEPTED", "DEPARTED", "ARRIVED"}
     /\ Written(t, TicketAfter(evt, appointment[a].purpose, d, ticket[t].status),
          ticket[t].rework_count
            + (IF evt = "FAILED_TO_COMPLETE" /\ d = "REWORK" THEN 1 ELSE 0),
          WorkerTicketAction(evt, appointment[a].purpose, d), actor, StatusChanged)

\* Every accepted worker event has the effect WorkerWritten describes.
LEMMA WorkerWrites ==
  ASSUME RowsOK, OnlyLatestBooked, NEW a \in Appointments, NEW evt \in WorkerEventType,
         NEW d \in FailureDisposition, NEW actor \in ActorType,
         RecordWorkerEvent(a, evt, d, actor), NEW t \in Tickets, t = appointment[a].ticket
  PROVE  WorkerWritten(t, a, evt, d, actor)
<1>. DEFINE to == TicketAfter(evt, appointment[a].purpose, d, ticket[t].status)
            count == ticket[t].rework_count
                       + (IF evt = "FAILED_TO_COMPLETE" /\ d = "REWORK" THEN 1 ELSE 0)
            label == WorkerTicketAction(evt, appointment[a].purpose, d)
<1>1. ticket[t] \in TicketRow /\ count \in Nat
  BY DEF RowsOK, TicketRow
<1>2. ticket[t].status = RequiredTicketStatus(evt)
  BY DEF RecordWorkerEvent
<1>3. ticket[t].status \in TicketStatus
  BY <1>2, EnumNames DEF RequiredTicketStatus
<1>4. to \in TicketStatus /\ ticket[t].status \in EscalatableStatus
  BY <1>2, <1>3, WorkerTargetType DEF EscalatableStatus
<1>5. label \in HistoryAction
  BY EnumNames
<1>6. CASE to = ticket[t].status
  BY <1>2, <1>3, <1>6, WorkerTargetType DEF RecordWorkerEvent, WorkerWritten
<1>7. CASE to # ticket[t].status
  <2>1. UpdateTicket(t, to, count, label, actor, StatusChanged)
    BY <1>7 DEF RecordWorkerEvent
  <2>2. evt \notin {"ACCEPTED", "DEPARTED", "ARRIVED"}
    BY <1>2, <1>3, <1>7, WorkerTargetType
  <2>. HIDE DEF to, count, label
  <2>3. Written(t, to, count, label, actor, StatusChanged)
    BY <1>1, <1>4, <1>5, <2>1, UpdateTicketEffect, EmittedType
  <2>. QED  BY <2>2, <2>3 DEF to, count, label, WorkerWritten
<1>. QED  BY <1>6, <1>7

-----------------------------------------------------------------------------
(***************************************************************************)
(* Type correctness.                                                       *)
(***************************************************************************)

\* Booking keeps the tables well typed.
LEMMA BookType ==
  ASSUME RowsOK, NEW t \in Tickets, NEW a \in Appointments, NEW w \in Workers,
         NEW s \in Slots, NEW actor \in ActorType, NEW at \in Times,
         BookAppointment(t, a, w, s, actor, at)
  PROVE  RowsOK'
<1>1. NewAppointment(t, w, s, BookingPurpose(ticket[t].status), None) \in AppointmentRow
  BY NewAppointmentType DEF BookingPurpose, AppointmentPurpose
<1>2. ticket' \in [Tickets -> TicketRow] /\ journal' \in [Tickets -> JournalRow]
  BY BookWrites DEF Written
<1>. QED  BY <1>1, <1>2 DEF RowsOK, BookAppointment

\* Rescheduling keeps the tables well typed.
LEMMA RescheduleType ==
  ASSUME RowsOK, NEW t \in Tickets, NEW old \in Appointments, NEW a \in Appointments,
         NEW w \in Workers, NEW s \in Slots, NEW actor \in ActorType, NEW at \in Times,
         RescheduleAppointment(t, old, a, w, s, actor, at)
  PROVE  RowsOK'
<1>1. appointment[old] \in AppointmentRow
  BY DEF RowsOK
<1>2. NewAppointment(t, w, s, appointment[old].purpose, old) \in AppointmentRow
  BY <1>1, NewAppointmentType DEF AppointmentRow
<1>3. Ended(appointment[old], "SUPERSEDED") \in AppointmentRow
  BY <1>1, EndedType DEF AppointmentStatus, TerminalAppointmentStatus
<1>4. ticket' \in [Tickets -> TicketRow] /\ journal' \in [Tickets -> JournalRow]
  BY RescheduleWrites DEF Written
<1>. QED  BY <1>2, <1>3, <1>4 DEF RowsOK, RescheduleAppointment

\* Accepting keeps the tables well typed.
LEMMA AcceptType ==
  ASSUME RowsOK, NEW t \in Tickets, NEW at \in Times, AcceptRepair(t, at)
  PROVE  RowsOK'
<1>1. latest[t] \in Appointments
  BY DEF RowsOK, AcceptRepair
<1>2. Ended(appointment[latest[t]], "FULFILLED") \in AppointmentRow
  BY <1>1, EndedType DEF RowsOK, AppointmentStatus, TerminalAppointmentStatus
<1>3. ticket' \in [Tickets -> TicketRow] /\ journal' \in [Tickets -> JournalRow]
  BY AcceptWrites DEF Written
<1>. QED  BY <1>1, <1>2, <1>3 DEF RowsOK, AcceptRepair

\* A worker event keeps the tables well typed.
LEMMA WorkerType ==
  ASSUME RowsOK, OnlyLatestBooked, NEW a \in Appointments, NEW evt \in WorkerEventType,
         NEW d \in FailureDisposition, NEW actor \in ActorType,
         RecordWorkerEvent(a, evt, d, actor)
  PROVE  RowsOK'
<1>1. ticket' \in [Tickets -> TicketRow] /\ journal' \in [Tickets -> JournalRow]
  <2>1. appointment[a].ticket \in Tickets
    BY BookedOwner DEF RecordWorkerEvent
  <2>2. WorkerWritten(appointment[a].ticket, a, evt, d, actor)
    BY <2>1, WorkerWrites
  <2>. QED  BY <2>2 DEF WorkerWritten, Written, RowsOK
<1>2. Ended(appointment[a], AppointmentAfter(evt)) \in AppointmentRow
  <2>1. AppointmentAfter(evt) \in AppointmentStatus
    BY DEF AppointmentAfter, AppointmentStatus, TerminalAppointmentStatus
  <2>. QED  BY <2>1, EndedType DEF RowsOK
<1>3. appointment' \in [Appointments -> AppointmentRow]
  BY <1>2 DEF RowsOK, RecordWorkerEvent
<1>4. events' \in [Appointments -> Seq(WorkerEventType)]
  BY DEF RowsOK, RecordWorkerEvent
<1>. QED  BY <1>1, <1>3, <1>4 DEF RowsOK, RecordWorkerEvent

\* Every command keeps the rows well typed.
LEMMA TypeStep ==
  ASSUME RowsOK, CreationsSound, OnlyLatestBooked, [Next]_vars
  PROVE  RowsOK'
<1>1. ASSUME NEW c \in creating, CreateTicket(c)
      PROVE  RowsOK'
  BY <1>1, Created, CreateType
<1>2. ASSUME NEW t \in Tickets, NEW a \in Appointments, NEW w \in Workers, NEW s \in Slots,
             NEW actor \in ActorType, NEW at \in Times, BookAppointment(t, a, w, s, actor, at)
      PROVE  RowsOK'
  BY <1>2, BookType
<1>3. ASSUME NEW t \in Tickets, NEW old \in Appointments, NEW a \in Appointments,
             NEW w \in Workers, NEW s \in Slots, NEW actor \in ActorType, NEW at \in Times,
             RescheduleAppointment(t, old, a, w, s, actor, at)
      PROVE  RowsOK'
  BY <1>3, RescheduleType
<1>4. ASSUME NEW t \in Tickets, NEW at \in Times, AcceptRepair(t, at)
      PROVE  RowsOK'
  BY <1>4, AcceptType
<1>5. ASSUME NEW t \in Tickets, RejectRepair(t)
      PROVE  RowsOK'
  BY <1>5, RejectWrites DEF RowsOK, Written, RejectRepair
<1>6. ASSUME NEW t \in Tickets, NEW actor \in ActorType, EscalateTicket(t, actor)
      PROVE  RowsOK'
  BY <1>6, EscalateWrites DEF RowsOK, Written, EscalateTicket
<1>7. ASSUME NEW t \in Tickets, NEW d \in RecoveryDisposition, NEW target \in TicketStatus,
             RecoverTicket(t, d, target)
      PROVE  RowsOK'
  <2>1. ticket' \in [Tickets -> TicketRow] /\ journal' \in [Tickets -> JournalRow]
    BY <1>7, RecoverWrites DEF Written
  <2>. QED  BY <1>7, <2>1 DEF RowsOK, RecoverTicket
<1>8. ASSUME NEW a \in Appointments, NEW evt \in WorkerEventType,
             NEW d \in FailureDisposition, NEW actor \in ActorType,
             RecordWorkerEvent(a, evt, d, actor)
      PROVE  RowsOK'
  BY <1>8, WorkerType
<1>9. CASE UNCHANGED rows
  BY <1>9 DEF RowsOK, rows
<1>. QED  BY <1>1, <1>2, <1>3, <1>4, <1>5, <1>6, <1>7, <1>8, <1>9
            DEF Next, TicketCommand, WorkerCommand, CheckDuplicate, vars, rows

-----------------------------------------------------------------------------
(***************************************************************************)
(* What each command does to a ticket's current visit.                     *)
(***************************************************************************)
\* Nothing has been recorded on an appointment that does not exist yet.
FreshLog == \A a \in Appointments : appointment[a].status = "ABSENT" => events[a] = <<>>

\* A command leaves ticket u and its current visit as they are.
Same(u) == ticket'[u] = ticket[u] /\ Visit(u)' = Visit(u) /\ VisitEvent(u)' = VisitEvent(u)
OthersSame(t) == \A u \in Tickets \ {t} : Same(u)

\* A command that writes only rows of ticket t, or rows that did not exist, leaves the
\* visits of all other tickets alone.
LEMMA Untouched ==
  ASSUME RowsOK, OnlyLatestBooked, NEW t \in Tickets,
         \A u \in Tickets \ {t} : ticket'[u] = ticket[u] /\ latest'[u] = latest[u],
         \A a \in Appointments :
           \/ appointment'[a] = appointment[a] /\ events'[a] = events[a]
           \/ appointment[a].status = "ABSENT"
           \/ appointment[a].ticket = t
  PROVE  OthersSame(t)
<1>. SUFFICES ASSUME NEW u \in Tickets \ {t} PROVE Same(u)
  BY DEF OthersSame
<1>1. ticket'[u] = ticket[u] /\ latest'[u] = latest[u]
  OBVIOUS
<1>2. latest[u] # None =>
        /\ latest[u] \in Appointments
        /\ appointment'[latest[u]] = appointment[latest[u]]
        /\ events'[latest[u]] = events[latest[u]]
  BY DEF OnlyLatestBooked, RowsOK
<1>. QED  BY <1>1, <1>2 DEF Same, Visit, VisitEvent

\* Booking starts from no live visit and makes the new row the current visit.
LEMMA BookEffect ==
  ASSUME RowsOK, OnlyLatestBooked, FreshLog, NEW t \in Tickets, NEW a \in Appointments,
         NEW w \in Workers, NEW s \in Slots, NEW actor \in ActorType, NEW at \in Times,
         BookAppointment(t, a, w, s, actor, at)
  PROVE  /\ ticket[t].status \in {"OPEN", "REWORK_REQUIRED"}
         /\ Visit(t) # "BOOKED"
         /\ Visit(t)' = "BOOKED" /\ VisitEvent(t)' = "NONE"
         /\ OthersSame(t)
<1>1. latest'[t] = a /\ appointment'[a].status = "BOOKED" /\ events'[a] = <<>>
  BY DEF RowsOK, BookAppointment, NewAppointment, FreshLog
<1>2. Visit(t) # "BOOKED"
  <2>1. SUFFICES ASSUME latest[t] # None, appointment[latest[t]].status = "BOOKED" PROVE FALSE
    BY DEF Visit
  <2>2. latest[t] \in Appointments /\ appointment[latest[t]].ticket = t
    BY <2>1 DEF RowsOK, OnlyLatestBooked
  <2>. QED  BY <2>1, <2>2, NoneAssumption DEF BookAppointment, Insertable, Booked
<1>3. OthersSame(t)
  <2>1. \A u \in Tickets \ {t} : ticket'[u] = ticket[u]
    BY BookWrites DEF Written
  <2>. QED  BY <2>1, Untouched DEF BookAppointment, RowsOK
<1>. QED  BY <1>1, <1>2, <1>3, NoneAssumption DEF BookAppointment, Visit, VisitEvent, LastEvent

\* Rescheduling replaces the latest appointment, which is the one it names.
LEMMA RescheduleEffect ==
  ASSUME RowsOK, OnlyLatestBooked, FreshLog, NEW t \in Tickets, NEW old \in Appointments,
         NEW a \in Appointments, NEW w \in Workers, NEW s \in Slots, NEW actor \in ActorType,
         NEW at \in Times, RescheduleAppointment(t, old, a, w, s, actor, at)
  PROVE  /\ ticket[t].status = "SCHEDULED"
         /\ latest[t] = old /\ a # old
         /\ Visit(t)' = "BOOKED" /\ VisitEvent(t)' = "NONE"
         /\ OthersSame(t)
<1>1. a # old /\ latest[t] = old /\ ticket[t].status = "SCHEDULED"
  BY BookedOwner, RescheduleRows DEF RescheduleAppointment, Booked
<1>2. latest'[t] = a /\ appointment'[a].status = "BOOKED" /\ events'[a] = <<>>
  BY <1>1 DEF RowsOK, RescheduleAppointment, NewAppointment, FreshLog
<1>3. OthersSame(t)
  <2>1. \A u \in Tickets \ {t} : ticket'[u] = ticket[u]
    BY RescheduleWrites DEF Written
  <2>. QED  BY <2>1, Untouched DEF RescheduleAppointment, RowsOK
<1>. QED  BY <1>1, <1>2, <1>3, NoneAssumption DEF Visit, VisitEvent, LastEvent

\* Accepting leaves the current visit fulfilled, with the events it had.
LEMMA AcceptEffect ==
  ASSUME RowsOK, OnlyLatestBooked, NEW t \in Tickets, NEW at \in Times, AcceptRepair(t, at)
  PROVE  /\ ticket[t].status \in {"SCHEDULED", "IN_PROGRESS", "PENDING_ACCEPTANCE"}
         /\ ReviewConsistent(t)
         /\ Visit(t)' = "FULFILLED" /\ VisitEvent(t)' = VisitEvent(t)
         /\ OthersSame(t)
<1>1. ticket[t].status \in {"SCHEDULED", "IN_PROGRESS", "PENDING_ACCEPTANCE"}
  BY AcceptRows DEF AcceptRepair
<1>2. ReviewConsistent(t) /\ Visit(t) \in {"BOOKED", "FULFILLED"}
  BY <1>1 DEF AcceptRepair, ReviewConsistent
<1>3. latest[t] \in Appointments /\ latest' = latest /\ events' = events
      /\ appointment[latest[t]].ticket = t
  BY DEF RowsOK, AcceptRepair, OnlyLatestBooked
<1>4. appointment'[latest[t]].status = "FULFILLED"
  <2>1. Ended(appointment[latest[t]], "FULFILLED").status = "FULFILLED"
    BY <1>3, EndedType DEF RowsOK, AppointmentStatus, TerminalAppointmentStatus
  <2>. QED  BY <1>2, <1>3, <2>1, NoneAssumption DEF AcceptRepair, RowsOK, Visit
<1>5. OthersSame(t)
  <2>1. \A u \in Tickets \ {t} : ticket'[u] = ticket[u]
    BY AcceptWrites DEF Written
  <2>. QED  BY <1>3, <2>1, Untouched DEF AcceptRepair, RowsOK
<1>. QED  BY <1>1, <1>2, <1>3, <1>4, <1>5, NoneAssumption DEF Visit, VisitEvent

\* A worker event is recorded on the ticket's current visit and becomes its last event.
LEMMA WorkerEffect ==
  ASSUME RowsOK, OnlyLatestBooked, NEW a \in Appointments, NEW evt \in WorkerEventType,
         NEW d \in FailureDisposition, NEW actor \in ActorType,
         RecordWorkerEvent(a, evt, d, actor), NEW t \in Tickets, t = appointment[a].ticket
  PROVE  /\ latest[t] = a /\ Visit(t) = "BOOKED" /\ VisitEvent(t) = LastEvent(events[a])
         /\ Visit(t)' = AppointmentAfter(evt) /\ VisitEvent(t)' = evt
         /\ OthersSame(t)
<1>1. latest[t] = a /\ Visit(t) = "BOOKED" /\ VisitEvent(t) = LastEvent(events[a])
  BY BookedOwner DEF RecordWorkerEvent
<1>2. appointment'[a].status = AppointmentAfter(evt)
  <2>1. AppointmentAfter(evt) \in AppointmentStatus
    BY DEF AppointmentAfter, AppointmentStatus, TerminalAppointmentStatus
  <2>2. Ended(appointment[a], AppointmentAfter(evt)).status = AppointmentAfter(evt)
    BY <2>1, EndedType DEF RowsOK
  <2>. QED  BY <2>2 DEF RecordWorkerEvent, RowsOK, Booked
<1>3. LastEvent(events'[a]) = evt
  <2>1. events[a] \in Seq(WorkerEventType) /\ events'[a] = Append(events[a], evt)
    BY DEF RowsOK, RecordWorkerEvent
  <2>. QED  BY <2>1 DEF LastEvent
<1>4. OthersSame(t)
  <2>. WorkerWritten(t, a, evt, d, actor)
    BY WorkerWrites
  <2>1. \A u \in Tickets \ {t} : ticket'[u] = ticket[u]
    BY DEF WorkerWritten, Written
  <2>2. \A b \in Appointments \ {a} : appointment'[b] = appointment[b] /\ events'[b] = events[b]
    BY DEF RecordWorkerEvent, RowsOK
  <2>3. latest' = latest
    BY DEF RecordWorkerEvent
  <2>. QED  BY <2>1, <2>2, <2>3, Untouched
<1>5. latest' = latest
  BY DEF RecordWorkerEvent
<1>. QED  BY <1>1, <1>2, <1>3, <1>4, <1>5, NoneAssumption DEF Visit, VisitEvent

\* Commands that touch neither appointments nor events leave every visit as it was.
LEMMA VisitsSame ==
  ASSUME UNCHANGED <<appointment, events, latest>>, NEW u
  PROVE  Visit(u)' = Visit(u) /\ VisitEvent(u)' = VisitEvent(u)
  BY DEF Visit, VisitEvent

-----------------------------------------------------------------------------
(***************************************************************************)
(* The only live visit of a ticket is its latest appointment.              *)
(***************************************************************************)
\* A created ticket stays created.
Alive == \A u \in Tickets : ticket[u].status # "ABSENT" => ticket'[u].status # "ABSENT"

\* A ticket written with a status of the enumeration is not absent, nor is any other.
LEMMA WrittenAlive ==
  ASSUME NEW t \in Tickets, NEW to \in TicketStatus, NEW count, NEW action, NEW actor,
         NEW emitted, Written(t, to, count, action, actor, emitted)
  PROVE  Alive /\ ticket'[t].status # "ABSENT"
  BY DEF Written, Alive, TicketStatus, EscalatableStatus, TerminalTicketStatus

\* A command that books nothing and only ever ends rows keeps OnlyLatestBooked and FreshLog.
LEMMA NothingBooked ==
  ASSUME RowsOK, OnlyLatestBooked, FreshLog, Alive, latest' = latest,
         \A b \in Appointments :
           \/ appointment'[b] = appointment[b] /\ events'[b] = events[b]
           \/ /\ appointment[b].status # "ABSENT" /\ appointment'[b].status # "ABSENT"
              /\ appointment'[b].ticket = appointment[b].ticket
              /\ appointment'[b].status = "BOOKED" => appointment[b].status = "BOOKED"
  PROVE  OnlyLatestBooked' /\ FreshLog'
<1>1. FreshLog'
  BY DEF FreshLog
<1>2. ASSUME NEW b \in Appointments, appointment'[b].status # "ABSENT"
      PROVE  /\ appointment'[b].ticket \in Tickets
             /\ ticket'[appointment'[b].ticket].status # "ABSENT"
             /\ appointment'[b].status = "BOOKED" => latest'[appointment'[b].ticket] = b
  BY <1>2 DEF OnlyLatestBooked, Booked, Alive
<1>3. ASSUME NEW t \in Tickets, latest'[t] # None
      PROVE  appointment'[latest'[t]].ticket = t /\ appointment'[latest'[t]].status # "ABSENT"
  BY <1>3 DEF OnlyLatestBooked, RowsOK
<1>. QED  BY <1>1, <1>2, <1>3 DEF OnlyLatestBooked, Booked

\* Apart from row a, no row of ticket t is live any more, and no row changes hands.
OtherVisitsOver(t, a) ==
  \A b \in Appointments \ {a} :
    /\ appointment'[b].ticket = appointment[b].ticket
    /\ appointment'[b].status = "ABSENT" <=> appointment[b].status = "ABSENT"
    /\ appointment'[b].status = "BOOKED" =>
         appointment[b].status = "BOOKED" /\ appointment[b].ticket # t

\* The same for a command that books one new row, once every other row of the ticket has
\* ended.
LEMMA OneBooked ==
  ASSUME RowsOK, OnlyLatestBooked, FreshLog, Alive, NEW t \in Tickets, NEW a \in Appointments,
         latest' = [latest EXCEPT ![t] = a], events' = events,
         ticket'[t].status # "ABSENT",
         appointment[a].status = "ABSENT", appointment'[a].ticket = t,
         appointment'[a].status = "BOOKED",
         OtherVisitsOver(t, a)
  PROVE  OnlyLatestBooked' /\ FreshLog'
<1>0. latest \in [Tickets -> Appointments \cup {None}]
  BY DEF RowsOK
<1>1. FreshLog'
  BY DEF FreshLog, OtherVisitsOver
<1>2. ASSUME NEW b \in Appointments, appointment'[b].status # "ABSENT"
      PROVE  /\ appointment'[b].ticket \in Tickets
             /\ ticket'[appointment'[b].ticket].status # "ABSENT"
             /\ appointment'[b].status = "BOOKED" => latest'[appointment'[b].ticket] = b
  <2>1. CASE b = a
    BY <1>0, <2>1
  <2>2. CASE b # a
    BY <1>0, <1>2, <2>2 DEF OnlyLatestBooked, Booked, Alive, OtherVisitsOver
  <2>. QED  BY <2>1, <2>2
<1>3. ASSUME NEW u \in Tickets, latest'[u] # None
      PROVE  appointment'[latest'[u]].ticket = u /\ appointment'[latest'[u]].status # "ABSENT"
  <2>1. CASE u = t
    BY <1>0, <2>1
  <2>2. CASE u # t
    <3>1. latest'[u] = latest[u] /\ latest[u] \in Appointments
      BY <1>0, <1>3, <2>2
    <3>. QED  BY <1>3, <3>1, <2>2 DEF OnlyLatestBooked, OtherVisitsOver
  <2>. QED  BY <2>1, <2>2
<1>. QED  BY <1>1, <1>2, <1>3 DEF OnlyLatestBooked, Booked

\* Booking keeps the latest appointment the only live one.
LEMMA BookKeeps ==
  ASSUME RowsOK, OnlyLatestBooked, FreshLog, NEW t \in Tickets, NEW a \in Appointments,
         NEW w \in Workers, NEW s \in Slots, NEW actor \in ActorType, NEW at \in Times,
         BookAppointment(t, a, w, s, actor, at)
  PROVE  OnlyLatestBooked' /\ FreshLog'
<1>1. Alive /\ ticket'[t].status # "ABSENT"
  BY BookWrites, WrittenAlive, EnumNames
<1>2. /\ latest' = [latest EXCEPT ![t] = a] /\ events' = events
      /\ appointment[a].status = "ABSENT" /\ appointment'[a].ticket = t
      /\ appointment'[a].status = "BOOKED"
  BY DEF BookAppointment, NewAppointment, RowsOK
<1>3. \A b \in Appointments \ {a} : appointment'[b] = appointment[b]
  BY DEF BookAppointment, RowsOK
<1>4. \A b \in Appointments \ {a} : appointment[b].status = "BOOKED" => appointment[b].ticket # t
  BY NoneAssumption DEF BookAppointment, Insertable, Booked
<1>5. OtherVisitsOver(t, a)
  BY <1>3, <1>4 DEF OtherVisitsOver
<1>. QED  BY <1>1, <1>2, <1>5, OneBooked

\* Rescheduling keeps the latest appointment the only live one.
LEMMA RescheduleKeeps ==
  ASSUME RowsOK, OnlyLatestBooked, FreshLog, NEW t \in Tickets, NEW old \in Appointments,
         NEW a \in Appointments, NEW w \in Workers, NEW s \in Slots, NEW actor \in ActorType,
         NEW at \in Times, RescheduleAppointment(t, old, a, w, s, actor, at)
  PROVE  OnlyLatestBooked' /\ FreshLog'
<1>1. Alive /\ ticket'[t].status # "ABSENT"
  BY RescheduleWrites, WrittenAlive, EnumNames
<1>2. a # old /\ appointment[old].status = "BOOKED" /\ appointment[a].status = "ABSENT"
  BY DEF RescheduleAppointment, Booked
<1>3. /\ latest' = [latest EXCEPT ![t] = a] /\ events' = events
      /\ appointment'[a].ticket = t /\ appointment'[a].status = "BOOKED"
  BY DEF RescheduleAppointment, NewAppointment, RowsOK
<1>4. appointment'[old].ticket = appointment[old].ticket
      /\ appointment'[old].status = "SUPERSEDED"
  <2>1. appointment'[old] = Ended(appointment[old], "SUPERSEDED")
    BY <1>2 DEF RescheduleAppointment, RowsOK
  <2>. QED  BY <2>1, EndedType DEF RowsOK, AppointmentStatus, TerminalAppointmentStatus
<1>5. \A b \in Appointments \ {a, old} : appointment'[b] = appointment[b]
  BY DEF RescheduleAppointment, RowsOK
<1>6. \A b \in Appointments \ {old} : appointment[b].status = "BOOKED" => appointment[b].ticket # t
  BY DEF RescheduleAppointment, Insertable, Booked
<1>7. OtherVisitsOver(t, a)
  <2>. SUFFICES ASSUME NEW b \in Appointments \ {a}
       PROVE  /\ appointment'[b].ticket = appointment[b].ticket
              /\ appointment'[b].status = "ABSENT" <=> appointment[b].status = "ABSENT"
              /\ appointment'[b].status = "BOOKED" =>
                   appointment[b].status = "BOOKED" /\ appointment[b].ticket # t
    BY DEF OtherVisitsOver
  <2>1. CASE b = old
    BY <1>2, <1>4, <2>1
  <2>2. CASE b # old
    BY <1>5, <1>6, <2>2
  <2>. QED  BY <2>1, <2>2
<1>. QED  BY <1>1, <1>2, <1>3, <1>7, OneBooked

\* Accepting keeps the latest appointment the only live one.
LEMMA AcceptKeeps ==
  ASSUME RowsOK, OnlyLatestBooked, FreshLog, NEW t \in Tickets, NEW at \in Times,
         AcceptRepair(t, at)
  PROVE  OnlyLatestBooked' /\ FreshLog'
<1>1. Alive
  BY AcceptWrites, WrittenAlive, EnumNames
<1>2. latest' = latest /\ events' = events /\ latest[t] \in Appointments
  BY DEF AcceptRepair, RowsOK
<1>3. \/ appointment' = appointment
      \/ /\ appointment[latest[t]].status = "BOOKED"
         /\ appointment' = [appointment EXCEPT
                              ![latest[t]] = Ended(appointment[latest[t]], "FULFILLED")]
  BY <1>2 DEF AcceptRepair, Visit
<1>4. /\ Ended(appointment[latest[t]], "FULFILLED").status = "FULFILLED"
      /\ Ended(appointment[latest[t]], "FULFILLED").ticket = appointment[latest[t]].ticket
  BY <1>2, EndedType DEF RowsOK, AppointmentStatus, TerminalAppointmentStatus
<1>. QED  BY <1>1, <1>2, <1>3, <1>4, NothingBooked DEF RowsOK

\* A worker event keeps the latest appointment the only live one.
LEMMA WorkerKeeps ==
  ASSUME RowsOK, OnlyLatestBooked, FreshLog, NEW a \in Appointments,
         NEW evt \in WorkerEventType, NEW d \in FailureDisposition, NEW actor \in ActorType,
         RecordWorkerEvent(a, evt, d, actor), NEW t \in Tickets, t = appointment[a].ticket
  PROVE  OnlyLatestBooked' /\ FreshLog'
<1>1. Alive
  <2>1. WorkerWritten(t, a, evt, d, actor)
    BY WorkerWrites
  <2>2. CASE UNCHANGED <<ticket, journal>>
    BY <2>2 DEF Alive
  <2>3. CASE Written(t, TicketAfter(evt, appointment[a].purpose, d, ticket[t].status),
               ticket[t].rework_count
                 + (IF evt = "FAILED_TO_COMPLETE" /\ d = "REWORK" THEN 1 ELSE 0),
               WorkerTicketAction(evt, appointment[a].purpose, d), actor, StatusChanged)
    <3>1. ticket[t].status = RequiredTicketStatus(evt)
      BY DEF RecordWorkerEvent
    <3>2. TicketAfter(evt, appointment[a].purpose, d, ticket[t].status) \in TicketStatus
      BY <3>1, WorkerTargetType, EnumNames DEF RequiredTicketStatus
    <3>. QED  BY <2>3, <3>2, WrittenAlive
  <2>. QED  BY <2>1, <2>2, <2>3 DEF WorkerWritten
<1>2. latest' = latest /\ appointment[a].status = "BOOKED"
      /\ \A b \in Appointments \ {a} : appointment'[b] = appointment[b] /\ events'[b] = events[b]
  BY DEF RecordWorkerEvent, Booked, RowsOK
<1>3. /\ appointment'[a].ticket = appointment[a].ticket
      /\ appointment'[a].status = AppointmentAfter(evt)
      /\ AppointmentAfter(evt) # "ABSENT"
  <2>1. AppointmentAfter(evt) \in AppointmentStatus /\ AppointmentAfter(evt) # "ABSENT"
    BY DEF AppointmentAfter, AppointmentStatus, TerminalAppointmentStatus
  <2>2. /\ Ended(appointment[a], AppointmentAfter(evt)).status = AppointmentAfter(evt)
        /\ Ended(appointment[a], AppointmentAfter(evt)).ticket = appointment[a].ticket
    BY <2>1, EndedType DEF RowsOK
  <2>. QED  BY <2>1, <2>2 DEF RecordWorkerEvent, RowsOK, Booked
<1>. QED  BY <1>1, <1>2, <1>3, NothingBooked

\* Every command keeps OnlyLatestBooked and FreshLog.
LEMMA LatestStep ==
  ASSUME RowsOK, CreationsSound, OnlyLatestBooked, FreshLog, [Next]_vars
  PROVE  OnlyLatestBooked' /\ FreshLog'
<1>1. ASSUME NEW c \in creating, CreateTicket(c)
      PROVE  OnlyLatestBooked' /\ FreshLog'
  <2>1. Alive /\ latest' = latest /\ appointment' = appointment /\ events' = events
    <3>1. Inserted(c)
      BY <1>1, Created
    <3>. QED  BY <3>1 DEF RowsOK, Alive, Inserted
  <2>. QED  BY <2>1, NothingBooked
<1>2. ASSUME NEW t \in Tickets, NEW a \in Appointments, NEW w \in Workers, NEW s \in Slots,
             NEW actor \in ActorType, NEW at \in Times, BookAppointment(t, a, w, s, actor, at)
      PROVE  OnlyLatestBooked' /\ FreshLog'
  BY <1>2, BookKeeps
<1>3. ASSUME NEW t \in Tickets, NEW old \in Appointments, NEW a \in Appointments,
             NEW w \in Workers, NEW s \in Slots, NEW actor \in ActorType, NEW at \in Times,
             RescheduleAppointment(t, old, a, w, s, actor, at)
      PROVE  OnlyLatestBooked' /\ FreshLog'
  BY <1>3, RescheduleKeeps
<1>4. ASSUME NEW t \in Tickets, NEW at \in Times, AcceptRepair(t, at)
      PROVE  OnlyLatestBooked' /\ FreshLog'
  BY <1>4, AcceptKeeps
<1>5. ASSUME NEW t \in Tickets, RejectRepair(t)
      PROVE  OnlyLatestBooked' /\ FreshLog'
  <2>1. latest' = latest /\ appointment' = appointment /\ events' = events
    BY <1>5 DEF RejectRepair
  <2>2. Alive
    BY <1>5, RejectWrites, WrittenAlive, EnumNames
  <2>. QED  BY <2>1, <2>2, NothingBooked
<1>6. ASSUME NEW t \in Tickets, NEW actor \in ActorType, EscalateTicket(t, actor)
      PROVE  OnlyLatestBooked' /\ FreshLog'
  <2>1. latest' = latest /\ appointment' = appointment /\ events' = events
    BY <1>6 DEF EscalateTicket
  <2>2. Alive
    BY <1>6, EscalateWrites, WrittenAlive, EnumNames
  <2>. QED  BY <2>1, <2>2, NothingBooked
<1>7. ASSUME NEW t \in Tickets, NEW d \in RecoveryDisposition, NEW target \in TicketStatus,
             RecoverTicket(t, d, target)
      PROVE  OnlyLatestBooked' /\ FreshLog'
  <2>1. latest' = latest /\ appointment' = appointment /\ events' = events
    BY <1>7 DEF RecoverTicket
  <2>2. Alive
    BY <1>7, RecoverWrites, WrittenAlive
  <2>. QED  BY <2>1, <2>2, NothingBooked
<1>8. ASSUME NEW a \in Appointments, NEW evt \in WorkerEventType,
             NEW d \in FailureDisposition, NEW actor \in ActorType,
             RecordWorkerEvent(a, evt, d, actor)
      PROVE  OnlyLatestBooked' /\ FreshLog'
  BY <1>8, WorkerKeeps, BookedOwner DEF RecordWorkerEvent
<1>9. CASE UNCHANGED rows
  BY <1>9, NothingBooked DEF rows, Alive
<1>. QED  BY <1>1, <1>2, <1>3, <1>4, <1>5, <1>6, <1>7, <1>8, <1>9
            DEF Next, TicketCommand, WorkerCommand, CheckDuplicate, vars, rows

-----------------------------------------------------------------------------
(***************************************************************************)
(* The ticket agrees with its visit.                                       *)
(***************************************************************************)
\* AggregateAgreement for one ticket.
Agrees(t) ==
  IF ticket[t].status = "ESCALATED"
  THEN /\ ticket[t].escalated_from \in EscalatableStatus
       /\ HoldFits(ticket[t].escalated_from, Visit(t), VisitEvent(t))
  ELSE /\ ticket[t].escalated_from = "NONE"
       /\ StatusFits(ticket[t].status, Visit(t), VisitEvent(t))

\* A command only has to establish agreement for the ticket it writes.
LEMMA AgreementLocal ==
  ASSUME AggregateAgreement, NEW t \in Tickets, OthersSame(t), Agrees(t)'
  PROVE  AggregateAgreement'
<1>1. ASSUME NEW u \in Tickets \ {t} PROVE Agrees(u)'
  <2>1. Same(u) /\ Agrees(u)
    BY DEF OthersSame, AggregateAgreement, Agrees
  <2>. QED  BY <2>1 DEF Same, Agrees
<1>2. \A u \in Tickets : Agrees(u)'
  BY <1>1
<1>. QED  BY <1>2 DEF AggregateAgreement, Agrees

\* Commands that leave appointments and events alone touch one ticket's agreement only.
LEMMA WrittenOthers ==
  ASSUME NEW t \in Tickets, NEW to, NEW count, NEW action, NEW actor, NEW emitted,
         Written(t, to, count, action, actor, emitted),
         UNCHANGED <<appointment, events, latest>>
  PROVE  OthersSame(t)
  BY VisitsSame DEF OthersSame, Same, Written

\* A new ticket has no visit, and needs none.
LEMMA CreateAgrees ==
  ASSUME RowsOK, AggregateAgreement, NEW c, Inserted(c)
  PROVE  AggregateAgreement'
<1>. DEFINE t == c.ticket
<1>1. /\ t \in Tickets /\ ticket[t].status = "ABSENT"
      /\ ticket'[t].status = "OPEN" /\ ticket'[t].escalated_from = "NONE"
      /\ \A u \in Tickets \ {t} : ticket'[u] = ticket[u]
      /\ UNCHANGED <<appointment, events, latest>>
  BY DEF RowsOK, Inserted
<1>. HIDE DEF t
<1>2. StatusFits("ABSENT", Visit(t), VisitEvent(t))
  BY <1>1 DEF AggregateAgreement
<1>3. StatusFits("OPEN", Visit(t), VisitEvent(t))
  BY <1>2 DEF StatusFits
<1>4. OthersSame(t) /\ Visit(t)' = Visit(t) /\ VisitEvent(t)' = VisitEvent(t)
  BY <1>1, VisitsSame DEF OthersSame, Same
<1>5. Agrees(t)'
  BY <1>1, <1>3, <1>4 DEF Agrees
<1>. QED  BY <1>1, <1>4, <1>5, AgreementLocal

\* A booked ticket is scheduled for a visit that has not started.
LEMMA BookAgrees ==
  ASSUME RowsOK, OnlyLatestBooked, FreshLog, AggregateAgreement,
         NEW t \in Tickets, NEW a \in Appointments, NEW w \in Workers, NEW s \in Slots,
         NEW actor \in ActorType, NEW at \in Times, BookAppointment(t, a, w, s, actor, at)
  PROVE  AggregateAgreement'
<1>1. Visit(t)' = "BOOKED" /\ VisitEvent(t)' = "NONE" /\ OthersSame(t)
  BY BookEffect
<1>2. ticket'[t].status = "SCHEDULED" /\ ticket'[t].escalated_from = "NONE"
  BY BookWrites DEF Written
<1>3. Agrees(t)'
  BY <1>1, <1>2 DEF Agrees, StatusFits
<1>. QED  BY <1>1, <1>3, AgreementLocal

\* A rescheduled ticket is scheduled for a visit that has not started.
LEMMA RescheduleAgrees ==
  ASSUME RowsOK, OnlyLatestBooked, FreshLog, AggregateAgreement,
         NEW t \in Tickets, NEW old \in Appointments, NEW a \in Appointments, NEW w \in Workers,
         NEW s \in Slots, NEW actor \in ActorType, NEW at \in Times,
         RescheduleAppointment(t, old, a, w, s, actor, at)
  PROVE  AggregateAgreement'
<1>1. Visit(t)' = "BOOKED" /\ VisitEvent(t)' = "NONE" /\ OthersSame(t)
  BY RescheduleEffect
<1>2. ticket'[t].status = "SCHEDULED" /\ ticket'[t].escalated_from = "NONE"
  BY RescheduleWrites DEF Written
<1>3. Agrees(t)'
  BY <1>1, <1>2 DEF Agrees, StatusFits
<1>. QED  BY <1>1, <1>3, AgreementLocal

\* A closed ticket has a fulfilled visit.
LEMMA AcceptAgrees ==
  ASSUME RowsOK, OnlyLatestBooked, AggregateAgreement, NEW t \in Tickets, NEW at \in Times,
         AcceptRepair(t, at)
  PROVE  AggregateAgreement'
<1>1. Visit(t)' = "FULFILLED" /\ OthersSame(t)
  BY AcceptEffect
<1>2. ticket'[t].status = "CLOSED" /\ ticket'[t].escalated_from = "NONE"
  BY AcceptWrites DEF Written
<1>3. Agrees(t)'
  BY <1>1, <1>2 DEF Agrees, StatusFits
<1>. QED  BY <1>1, <1>3, AgreementLocal

\* A ticket that waits for rework may have any visit behind it.
LEMMA RejectAgrees ==
  ASSUME RowsOK, AggregateAgreement, NEW t \in Tickets, RejectRepair(t)
  PROVE  AggregateAgreement'
<1>1. OthersSame(t)
  BY RejectWrites, WrittenOthers DEF RejectRepair
<1>2. ticket'[t].status = "REWORK_REQUIRED" /\ ticket'[t].escalated_from = "NONE"
  BY RejectWrites DEF Written
<1>3. Agrees(t)'
  BY <1>2 DEF Agrees, StatusFits
<1>. QED  BY <1>1, <1>3, AgreementLocal

\* A hold keeps the facts of the status it interrupts.
LEMMA EscalateAgrees ==
  ASSUME RowsOK, AggregateAgreement, NEW t \in Tickets, NEW actor \in ActorType,
         EscalateTicket(t, actor)
  PROVE  AggregateAgreement'
<1>1. OthersSame(t)
  BY EscalateWrites, WrittenOthers DEF EscalateTicket
<1>2. /\ ticket[t].status \in EscalatableStatus
      /\ ticket'[t].status = "ESCALATED" /\ ticket'[t].escalated_from = ticket[t].status
  BY EscalateWrites DEF Written
<1>3. Visit(t)' = Visit(t) /\ VisitEvent(t)' = VisitEvent(t)
  BY VisitsSame DEF EscalateTicket
<1>4. StatusFits(ticket[t].status, Visit(t), VisitEvent(t))
  BY <1>2 DEF AggregateAgreement, EscalatableStatus
<1>5. Agrees(t)'
  BY <1>2, <1>3, <1>4 DEF Agrees, HoldFits
<1>. QED  BY <1>1, <1>5, AgreementLocal

\* Recovery leads to a status that the facts kept by the hold fit.
LEMMA RecoverAgrees ==
  ASSUME RowsOK, AggregateAgreement, NEW t \in Tickets, NEW d \in RecoveryDisposition,
         NEW target \in TicketStatus, RecoverTicket(t, d, target)
  PROVE  AggregateAgreement'
<1>1. OthersSame(t)
  BY RecoverWrites, WrittenOthers DEF RecoverTicket
<1>2. target # "ESCALATED" /\ ticket'[t].status = target /\ ticket'[t].escalated_from = "NONE"
  BY RecoverWrites DEF Written
<1>3. Visit(t)' = Visit(t) /\ VisitEvent(t)' = VisitEvent(t)
  BY VisitsSame DEF RecoverTicket
<1>4. /\ HoldFits(ticket[t].escalated_from, Visit(t), VisitEvent(t))
      /\ RecoverTo(d, ticket[t].escalated_from, Visit(t), VisitEvent(t), target)
  BY DEF AggregateAgreement, RecoverTicket, EscalatableStatus
<1>5. StatusFits(target, Visit(t), VisitEvent(t))
  BY <1>4 DEF HoldFits, RecoverTo, ResumeTo, CancellationSafe, StatusFits
<1>6. Agrees(t)'
  BY <1>2, <1>3, <1>5 DEF Agrees
<1>. QED  BY <1>1, <1>6, AgreementLocal

\* A worker event moves the ticket and its visit to statuses that fit.
LEMMA WorkerAgrees ==
  ASSUME RowsOK, OnlyLatestBooked, AggregateAgreement, NEW a \in Appointments,
         NEW evt \in WorkerEventType, NEW d \in FailureDisposition, NEW actor \in ActorType,
         RecordWorkerEvent(a, evt, d, actor), NEW t \in Tickets, t = appointment[a].ticket
  PROVE  AggregateAgreement'
<1>1. /\ Visit(t) = "BOOKED" /\ Visit(t)' = AppointmentAfter(evt)
      /\ VisitEvent(t)' = evt /\ OthersSame(t)
  BY WorkerEffect
<1>2. ticket[t].status = RequiredTicketStatus(evt) /\ ticket[t].escalated_from = "NONE"
  BY DEF RecordWorkerEvent, AggregateAgreement, RequiredTicketStatus
<1>3. CASE evt \in {"ACCEPTED", "DEPARTED", "ARRIVED"}
  <2>1. WorkerWritten(t, a, evt, d, actor)
    BY WorkerWrites
  <2>2. ticket'[t] = ticket[t]
    BY <1>3, <2>1 DEF WorkerWritten
  <2>3. Agrees(t)'
    BY <1>1, <1>2, <1>3, <2>2
    DEF Agrees, StatusFits, RequiredTicketStatus, AppointmentAfter, PreWorkEvent
  <2>. QED  BY <1>1, <2>3, AgreementLocal
<1>4. CASE evt \notin {"ACCEPTED", "DEPARTED", "ARRIVED"}
  <2>. DEFINE to == TicketAfter(evt, appointment[a].purpose, d, ticket[t].status)
  <2>1. WorkerWritten(t, a, evt, d, actor)
    BY WorkerWrites
  <2>2. /\ ticket'[t].status = to
        /\ ticket'[t].escalated_from = IF to = "ESCALATED" THEN ticket[t].status ELSE "NONE"
    BY <1>4, <2>1 DEF WorkerWritten, Written
  <2>3. Agrees(t)'
    BY <1>1, <1>2, <1>4, <2>2
    DEF Agrees, StatusFits, HoldFits, RequiredTicketStatus, AppointmentAfter, TicketAfter,
        PreWorkEvent, TerminalEvent, WorkerEventType, EscalatableStatus, FailureDisposition
  <2>. QED  BY <1>1, <2>3, AgreementLocal
<1>. QED  BY <1>3, <1>4

\* Every command keeps a ticket in agreement with its visit.
LEMMA AgreementStep ==
  ASSUME RowsOK, CreationsSound, OnlyLatestBooked, FreshLog, AggregateAgreement, [Next]_vars
  PROVE  AggregateAgreement'
<1>1. ASSUME NEW c \in creating, CreateTicket(c)
      PROVE  AggregateAgreement'
  BY <1>1, Created, CreateAgrees
<1>2. ASSUME NEW t \in Tickets, NEW a \in Appointments, NEW w \in Workers, NEW s \in Slots,
             NEW actor \in ActorType, NEW at \in Times, BookAppointment(t, a, w, s, actor, at)
      PROVE  AggregateAgreement'
  BY <1>2, BookAgrees
<1>3. ASSUME NEW t \in Tickets, NEW old \in Appointments, NEW a \in Appointments,
             NEW w \in Workers, NEW s \in Slots, NEW actor \in ActorType, NEW at \in Times,
             RescheduleAppointment(t, old, a, w, s, actor, at)
      PROVE  AggregateAgreement'
  BY <1>3, RescheduleAgrees
<1>4. ASSUME NEW t \in Tickets, NEW at \in Times, AcceptRepair(t, at)
      PROVE  AggregateAgreement'
  BY <1>4, AcceptAgrees
<1>5. ASSUME NEW t \in Tickets, RejectRepair(t)
      PROVE  AggregateAgreement'
  BY <1>5, RejectAgrees
<1>6. ASSUME NEW t \in Tickets, NEW actor \in ActorType, EscalateTicket(t, actor)
      PROVE  AggregateAgreement'
  BY <1>6, EscalateAgrees
<1>7. ASSUME NEW t \in Tickets, NEW d \in RecoveryDisposition, NEW target \in TicketStatus,
             RecoverTicket(t, d, target)
      PROVE  AggregateAgreement'
  BY <1>7, RecoverAgrees
<1>8. ASSUME NEW a \in Appointments, NEW evt \in WorkerEventType,
             NEW d \in FailureDisposition, NEW actor \in ActorType,
             RecordWorkerEvent(a, evt, d, actor)
      PROVE  AggregateAgreement'
  <2>1. appointment[a].ticket \in Tickets
    BY <1>8, BookedOwner DEF RecordWorkerEvent
  <2>. QED  BY <1>8, <2>1, WorkerAgrees
<1>9. CASE UNCHANGED rows
  BY <1>9, VisitsSame DEF rows, AggregateAgreement
<1>. QED  BY <1>1, <1>2, <1>3, <1>4, <1>5, <1>6, <1>7, <1>8, <1>9
            DEF Next, TicketCommand, WorkerCommand, CheckDuplicate, vars, rows

-----------------------------------------------------------------------------
(***************************************************************************)
(* Creations in flight.                                                    *)
(***************************************************************************)
\* A ticket keeps its subject, is neither stored nor removed, and stays settled.
CarriesOn(v) ==
  /\ ticket'[v].subject = ticket[v].subject
  /\ ticket'[v].status = "ABSENT" <=> ticket[v].status = "ABSENT"
  /\ ticket[v].status \in TerminalTicketStatus => ticket'[v].status = ticket[v].status

\* Under a command that writes one ticket, neither settled nor absent, every ticket does.
LEMMA WrittenCarries ==
  ASSUME NEW t \in Tickets, NEW to \in TicketStatus, NEW count, NEW action, NEW actor,
         NEW emitted, Written(t, to, count, action, actor, emitted),
         ticket[t].status \in EscalatableStatus \cup {"ESCALATED"}
  PROVE  \A v \in Tickets : CarriesOn(v)
<1>1. ticket[t].status \notin TerminalTicketStatus \cup {"ABSENT"} /\ to # "ABSENT"
  BY DEF TerminalTicketStatus, EscalatableStatus, TicketStatus
<1>2. CarriesOn(t) /\ \A v \in Tickets \ {t} : CarriesOn(v)
  BY <1>1 DEF CarriesOn, Written
<1>. QED  BY <1>2

\* Every ticket carries on, unless one is inserted.
LEMMA CarryStep ==
  ASSUME RowsOK, OnlyLatestBooked, FreshLog, AggregateAgreement, [Next]_vars,
         ~\E c \in creating : CreateTicket(c)
  PROVE  \A v \in Tickets : CarriesOn(v)
<1>2. ASSUME NEW t \in Tickets, NEW a \in Appointments, NEW w \in Workers, NEW s \in Slots,
             NEW actor \in ActorType, NEW at \in Times, BookAppointment(t, a, w, s, actor, at)
      PROVE  \A v \in Tickets : CarriesOn(v)
  BY <1>2, BookWrites, WrittenCarries, EnumNames DEF BookAppointment, EscalatableStatus
<1>3. ASSUME NEW t \in Tickets, NEW old \in Appointments, NEW a \in Appointments,
             NEW w \in Workers, NEW s \in Slots, NEW actor \in ActorType, NEW at \in Times,
             RescheduleAppointment(t, old, a, w, s, actor, at)
      PROVE  \A v \in Tickets : CarriesOn(v)
  BY <1>3, RescheduleRows, RescheduleWrites, WrittenCarries, EnumNames
  DEF RescheduleAppointment, EscalatableStatus
<1>4. ASSUME NEW t \in Tickets, NEW at \in Times, AcceptRepair(t, at)
      PROVE  \A v \in Tickets : CarriesOn(v)
  BY <1>4, AcceptRows, AcceptWrites, WrittenCarries, EnumNames DEF AcceptRepair, EscalatableStatus
<1>5. ASSUME NEW t \in Tickets, RejectRepair(t)
      PROVE  \A v \in Tickets : CarriesOn(v)
  BY <1>5, RejectRows, RejectWrites, WrittenCarries, EnumNames DEF RejectRepair, EscalatableStatus
<1>6. ASSUME NEW t \in Tickets, NEW actor \in ActorType, EscalateTicket(t, actor)
      PROVE  \A v \in Tickets : CarriesOn(v)
  BY <1>6, EscalateWrites, WrittenCarries, EnumNames
<1>7. ASSUME NEW t \in Tickets, NEW d \in RecoveryDisposition, NEW target \in TicketStatus,
             RecoverTicket(t, d, target)
      PROVE  \A v \in Tickets : CarriesOn(v)
  <2>1. ticket[t].status = "ESCALATED"
    BY <1>7 DEF RecoverTicket, AggregateAgreement, EscalatableStatus
  <2>. QED  BY <1>7, <2>1, RecoverWrites, WrittenCarries
<1>8. ASSUME NEW a \in Appointments, NEW evt \in WorkerEventType,
             NEW d \in FailureDisposition, NEW actor \in ActorType,
             RecordWorkerEvent(a, evt, d, actor)
      PROVE  \A v \in Tickets : CarriesOn(v)
  <2>. DEFINE t == appointment[a].ticket
              to == TicketAfter(evt, appointment[a].purpose, d, ticket[t].status)
  <2>1. t \in Tickets
    BY <1>8, BookedOwner DEF RecordWorkerEvent
  <2>2. ticket[t].status \in EscalatableStatus
    BY <1>8 DEF RecordWorkerEvent, RequiredTicketStatus, EscalatableStatus
  <2>3. WorkerWritten(t, a, evt, d, actor)
    BY <1>8, <2>1, WorkerWrites
  <2>4. to \in TicketStatus
    BY <2>2, EnumNames DEF TicketAfter, TicketStatus
  <2>. HIDE DEF t
  <2>5. CASE UNCHANGED <<ticket, journal>>
    BY <2>5 DEF CarriesOn
  <2>. QED  BY <2>1, <2>2, <2>3, <2>4, <2>5, WrittenCarries DEF WorkerWritten
<1>9. CASE UNCHANGED rows
  BY <1>9 DEF rows, CarriesOn
<1>. QED  BY <1>2, <1>3, <1>4, <1>5, <1>6, <1>7, <1>8, <1>9
            DEF Next, TicketCommand, WorkerCommand, CheckDuplicate, vars, rows

\* A step that starts no creation and under which every ticket carries on keeps those in
\* flight sound.
LEMMA CarriedCreations ==
  ASSUME CreationsSound, creating' = creating, \A v \in Tickets : CarriesOn(v)
  PROVE  CreationsSound'
<1>1. \A c \in creating : c.ticket \in Tickets /\ c.seen \subseteq Tickets
  BY DEF CreationsSound, Creation
<1>. QED  BY <1>1 DEF CreationsSound, CarriesOn

\* Every step keeps the creations in flight sound.
LEMMA CreationsStep ==
  ASSUME RowsOK, CreationsSound, OnlyLatestBooked, FreshLog, AggregateAgreement, [Next]_vars
  PROVE  CreationsSound'
<1>1. ASSUME NEW c \in creating, CreateTicket(c)
      PROVE  CreationsSound'
  <2>1. /\ c.ticket \in Tickets /\ ticket[c.ticket].status = "ABSENT"
        /\ \A v \in Tickets \ {c.ticket} : ticket'[v] = ticket[v]
        /\ creating' = creating \ {c}
    <3>1. Inserted(c)
      BY <1>1, Created
    <3>. QED  BY <3>1 DEF RowsOK, Inserted
  <2>2. \A d \in creating' : /\ d \in creating /\ d.ticket \in Tickets \ {c.ticket}
                             /\ d.seen \subseteq Tickets \ {c.ticket}
    BY <2>1 DEF CreationsSound, Creation
  <2>3. \A d \in creating' : ticket'[d.ticket] = ticket[d.ticket]
    BY <2>1, <2>2
  <2>4. \A d \in creating' : \A u \in d.seen : ticket'[u] = ticket[u]
    BY <2>1, <2>2
  <2>. QED  BY <2>1, <2>2, <2>3, <2>4 DEF CreationsSound
<1>2. ASSUME NEW t \in Tickets, NEW subject \in Subjects, NEW actor \in ResidentOperator,
             NEW allow \in BOOLEAN, CheckDuplicate(t, subject, actor, allow)
      PROVE  CreationsSound'
  <2>. DEFINE stored == {u \in Tickets : ticket[u].status # "ABSENT"}
              deliberate == allow /\ actor = "OPERATOR"
              new == [ticket |-> t, subject |-> subject, actor |-> actor,
                      deliberate |-> deliberate, seen |-> stored]
  <2>1. creating' = creating \cup {new} /\ ticket' = ticket
    BY <1>2 DEF CheckDuplicate, rows
  <2>2. new \in Creation
    BY DEF Creation
  <2>3. t \notin stored /\ \A c \in creating : c.ticket # t
    BY <1>2 DEF CheckDuplicate
  <2>4. \A u \in stored : /\ ticket[u].status # "ABSENT"
                          /\ ticket[u].subject = subject /\ ~deliberate =>
                               ticket[u].status \in TerminalTicketStatus
    <3>1. HasExactOpenMatch(subject) => deliberate
      BY <1>2 DEF CheckDuplicate
    <3>2. ASSUME NEW u \in stored, ticket[u].subject = subject, ~deliberate
          PROVE  ticket[u].status \in TerminalTicketStatus
      BY <3>1, <3>2 DEF HasExactOpenMatch
    <3>. QED  BY <3>2
  <2>5. /\ new.ticket = t /\ new.subject = subject /\ new.deliberate = deliberate
        /\ new.seen = stored
    OBVIOUS
  <2>6. ticket[t].status = "ABSENT"
    BY <2>3
  <2>. HIDE DEF new, stored, deliberate
  <2>. QED  BY <2>1, <2>2, <2>3, <2>4, <2>5, <2>6 DEF CreationsSound
<1>3. CASE creating' = creating /\ ~\E c \in creating : CreateTicket(c)
  BY <1>3, CarryStep, CarriedCreations
<1>. QED  BY <1>1, <1>2, <1>3 DEF Next, vars

-----------------------------------------------------------------------------
(***************************************************************************)
(* The inductive invariant and what follows from it.                       *)
(***************************************************************************)
\* What the five parts of the proof establish together.
IInv == RowsOK /\ CreationsSound /\ OnlyLatestBooked /\ FreshLog /\ AggregateAgreement

\* The empty tables satisfy the inductive invariant.
LEMMA InitIInv == Init => IInv
<1>. SUFFICES ASSUME Init PROVE IInv
  OBVIOUS
<1>1. RowsOK
  <2>1. NoTicket \in TicketRow
    BY BoundAssumption DEF NoTicket, TicketRow
  <2>2. NoAppointment \in AppointmentRow
    BY DEF NoAppointment, AppointmentRow, AppointmentPurpose
  <2>3. NoJournal \in JournalRow
    BY BoundAssumption DEF NoJournal, JournalRow, ActorType, HistoryAction
  <2>. QED  BY <2>1, <2>2, <2>3 DEF Init, RowsOK
<1>2. OnlyLatestBooked /\ FreshLog
  BY DEF Init, OnlyLatestBooked, FreshLog, NoAppointment
<1>3. AggregateAgreement
  BY DEF Init, AggregateAgreement, NoTicket, Visit, VisitEvent, StatusFits
<1>4. CreationsSound
  BY DEF Init, CreationsSound
<1>. QED  BY <1>1, <1>2, <1>3, <1>4 DEF IInv

\* Every command preserves the inductive invariant.
LEMMA StepIInv == IInv /\ [Next]_vars => IInv'
  BY TypeStep, CreationsStep, LatestStep, AgreementStep DEF IInv

\* The inductive invariant holds of every reachable state.
THEOREM Inductive == Spec => []IInv
<1>. QED  BY InitIInv, StepIInv, PTL DEF Spec

\* Stored rows are well typed for every number of tickets, appointments and workers.
THEOREM TypeCorrect == Spec => []TypeOK
<1>1. IInv => TypeOK
  BY DEF IInv, TypeOK, CreationsSound
<1>. QED  BY <1>1, Inductive, PTL

\* A ticket never has a live visit besides its latest appointment.
THEOREM OnlyLatestBookedHolds == Spec => []OnlyLatestBooked
<1>1. IInv => OnlyLatestBooked
  BY DEF IInv
<1>. QED  BY <1>1, Inductive, PTL

\* A ticket, its latest appointment and the last event on it never disagree.
THEOREM AggregateAgreementHolds == Spec => []AggregateAgreement
<1>1. IInv => AggregateAgreement
  BY DEF IInv
<1>. QED  BY <1>1, Inductive, PTL

-----------------------------------------------------------------------------
(***************************************************************************)
(* Settled tickets and finished visits.                                    *)
(***************************************************************************)
\* The statuses a ticket can be in when a command other than creation writes it.
LEMMA TerminalNames ==
  /\ TerminalTicketStatus \cap (EscalatableStatus \cup {"ESCALATED", "ABSENT"}) = {}
  /\ TerminalAppointmentStatus \cap {"ABSENT", "BOOKED"} = {}
  BY DEF TerminalTicketStatus, EscalatableStatus, TerminalAppointmentStatus

\* A command that writes ticket t only, which is not settled, leaves settled tickets alone.
LEMMA OtherTicketsKept ==
  ASSUME NEW t \in Tickets, NEW to, NEW count, NEW action, NEW actor, NEW emitted,
         Written(t, to, count, action, actor, emitted),
         ticket[t].status \notin TerminalTicketStatus,
         \A u \in Tickets \ {t} : latest'[u] = latest[u]
  PROVE  SettledTicketsKept
  BY DEF SettledTicketsKept, Written

\* No command reaches a settled ticket or a finished visit.
LEMMA FrozenStep ==
  ASSUME IInv, [Next]_vars
  PROVE  SettledTicketsKept /\ FinishedVisitsKept
<1>. USE DEF IInv
<1>1. ASSUME NEW c \in creating, CreateTicket(c)
      PROVE  SettledTicketsKept /\ FinishedVisitsKept
  <2>1. Inserted(c)
    BY <1>1, Created
  <2>. QED  BY <2>1, TerminalNames DEF Inserted, SettledTicketsKept, FinishedVisitsKept, RowsOK
<1>2. ASSUME NEW t \in Tickets, NEW a \in Appointments, NEW w \in Workers, NEW s \in Slots,
             NEW actor \in ActorType, NEW at \in Times, BookAppointment(t, a, w, s, actor, at)
      PROVE  SettledTicketsKept /\ FinishedVisitsKept
  <2>1. SettledTicketsKept
    BY <1>2, BookWrites, OtherTicketsKept, TerminalNames
    DEF BookAppointment, EscalatableStatus, RowsOK
  <2>2. FinishedVisitsKept
    BY <1>2, TerminalNames DEF BookAppointment, FinishedVisitsKept, RowsOK
  <2>. QED  BY <2>1, <2>2
<1>3. ASSUME NEW t \in Tickets, NEW old \in Appointments, NEW a \in Appointments,
             NEW w \in Workers, NEW s \in Slots, NEW actor \in ActorType, NEW at \in Times,
             RescheduleAppointment(t, old, a, w, s, actor, at)
      PROVE  SettledTicketsKept /\ FinishedVisitsKept
  <2>1. ticket[t].status = "SCHEDULED"
    BY <1>3, RescheduleRows DEF RescheduleAppointment
  <2>2. SettledTicketsKept
    BY <1>3, <2>1, RescheduleWrites, OtherTicketsKept, TerminalNames
    DEF RescheduleAppointment, EscalatableStatus, RowsOK
  <2>3. FinishedVisitsKept
    BY <1>3, TerminalNames DEF RescheduleAppointment, FinishedVisitsKept, RowsOK, Booked
  <2>. QED  BY <2>2, <2>3
<1>4. ASSUME NEW t \in Tickets, NEW at \in Times, AcceptRepair(t, at)
      PROVE  SettledTicketsKept /\ FinishedVisitsKept
  <2>1. ticket[t].status \in EscalatableStatus
    BY <1>4, AcceptRows DEF AcceptRepair, EscalatableStatus
  <2>2. SettledTicketsKept
    BY <1>4, <2>1, AcceptWrites, OtherTicketsKept, TerminalNames DEF AcceptRepair
  <2>3. FinishedVisitsKept
    BY <1>4, TerminalNames DEF AcceptRepair, FinishedVisitsKept, RowsOK, Visit
  <2>. QED  BY <2>2, <2>3
<1>5. ASSUME NEW t \in Tickets, RejectRepair(t)
      PROVE  SettledTicketsKept /\ FinishedVisitsKept
  <2>1. ticket[t].status \in EscalatableStatus
    BY <1>5, RejectRows DEF RejectRepair, EscalatableStatus
  <2>2. SettledTicketsKept
    BY <1>5, <2>1, RejectWrites, OtherTicketsKept, TerminalNames DEF RejectRepair
  <2>. QED  BY <1>5, <2>2 DEF RejectRepair, FinishedVisitsKept
<1>6. ASSUME NEW t \in Tickets, NEW actor \in ActorType, EscalateTicket(t, actor)
      PROVE  SettledTicketsKept /\ FinishedVisitsKept
  <2>1. SettledTicketsKept
    BY <1>6, EscalateWrites, OtherTicketsKept, TerminalNames DEF EscalateTicket
  <2>. QED  BY <1>6, <2>1 DEF EscalateTicket, FinishedVisitsKept
<1>7. ASSUME NEW t \in Tickets, NEW d \in RecoveryDisposition, NEW target \in TicketStatus,
             RecoverTicket(t, d, target)
      PROVE  SettledTicketsKept /\ FinishedVisitsKept
  <2>1. ticket[t].status = "ESCALATED"
    BY <1>7 DEF RecoverTicket, AggregateAgreement, EscalatableStatus
  <2>2. \A u \in Tickets \ {t} : ticket'[u] = ticket[u] /\ journal'[u] = journal[u]
    BY <1>7, RecoverWrites DEF Written
  <2>3. SettledTicketsKept
    BY <1>7, <2>1, <2>2, TerminalNames DEF RecoverTicket, SettledTicketsKept
  <2>. QED  BY <1>7, <2>3 DEF RecoverTicket, FinishedVisitsKept
<1>8. ASSUME NEW a \in Appointments, NEW evt \in WorkerEventType,
             NEW d \in FailureDisposition, NEW actor \in ActorType,
             RecordWorkerEvent(a, evt, d, actor)
      PROVE  SettledTicketsKept /\ FinishedVisitsKept
  <2>. DEFINE t == appointment[a].ticket
  <2>1. t \in Tickets
    BY <1>8, BookedOwner DEF RecordWorkerEvent
  <2>2. ticket[t].status \notin TerminalTicketStatus
    BY <1>8, TerminalNames DEF RecordWorkerEvent, RequiredTicketStatus, EscalatableStatus
  <2>3. WorkerWritten(t, a, evt, d, actor)
    BY <1>8, <2>1, WorkerWrites
  <2>4. \A u \in Tickets \ {t} : ticket'[u] = ticket[u] /\ journal'[u] = journal[u]
    BY <2>3 DEF WorkerWritten, Written
  <2>5. SettledTicketsKept
    BY <1>8, <2>2, <2>4 DEF RecordWorkerEvent, SettledTicketsKept
  <2>6. FinishedVisitsKept
    BY <1>8, TerminalNames DEF RecordWorkerEvent, FinishedVisitsKept, RowsOK, Booked
  <2>. QED  BY <2>5, <2>6
<1>9. CASE UNCHANGED rows
  BY <1>9 DEF rows, SettledTicketsKept, FinishedVisitsKept
<1>. QED  BY <1>1, <1>2, <1>3, <1>4, <1>5, <1>6, <1>7, <1>8, <1>9
            DEF Next, TicketCommand, WorkerCommand, CheckDuplicate, vars, rows

\* Settled tickets, finished visits and their histories never change again.
THEOREM TerminalFrozenHolds == Spec => TerminalFrozen
<1>1. IInv /\ [Next]_vars => [SettledTicketsKept /\ FinishedVisitsKept]_vars
  BY FrozenStep
<1>. QED  BY <1>1, Inductive, PTL DEF Spec, TerminalFrozen

-----------------------------------------------------------------------------
(***************************************************************************)
(* Rework is accounted for.                                                *)
(***************************************************************************)
\* No ticket forgets rework, and only counted tickets come to wait for it.
ReworkGrows ==
  \A u \in Tickets :
    /\ ticket[u].status # "ABSENT" => ticket'[u].rework_count >= ticket[u].rework_count
    /\ ticket'[u].status = "REWORK_REQUIRED" =>
         ticket[u].status = "REWORK_REQUIRED" \/ ticket'[u].rework_count >= 1

\* Every row that is stored afterwards was stored before, for the same ticket and purpose,
\* or is new, for a ticket whose rework count covers its purpose.
PurposesCovered ==
  \A b \in Appointments :
    appointment'[b].status # "ABSENT" /\ appointment'[b].purpose = "REWORK" =>
      \/ /\ appointment[b].status # "ABSENT"
         /\ appointment'[b].ticket = appointment[b].ticket
         /\ appointment'[b].purpose = appointment[b].purpose
      \/ /\ appointment'[b].ticket \in Tickets
         /\ ticket[appointment'[b].ticket].status # "ABSENT"
         /\ ticket[appointment'[b].ticket].rework_count >= 1

\* Counts that only grow and purposes that are covered keep ReworkCounted.
LEMMA CountedKept ==
  ASSUME RowsOK, OnlyLatestBooked, ReworkCounted, ReworkGrows, PurposesCovered, RowsOK'
  PROVE  ReworkCounted'
<1>1. \A u \in Tickets : ticket[u].rework_count \in Nat /\ ticket'[u].rework_count \in Nat
  BY DEF RowsOK, TicketRow
<1>2. ASSUME NEW u \in Tickets, ticket'[u].status = "REWORK_REQUIRED"
      PROVE  ticket'[u].rework_count >= 1
  BY <1>1, <1>2 DEF ReworkGrows, ReworkCounted
<1>3. ASSUME NEW b \in Appointments, appointment'[b].status # "ABSENT",
             appointment'[b].purpose = "REWORK"
      PROVE  ticket'[appointment'[b].ticket].rework_count >= 1
  <2>1. /\ appointment'[b].ticket \in Tickets
        /\ ticket[appointment'[b].ticket].status # "ABSENT"
        /\ ticket[appointment'[b].ticket].rework_count >= 1
    BY <1>3 DEF PurposesCovered, ReworkCounted, OnlyLatestBooked
  <2>. QED  BY <1>1, <2>1 DEF ReworkGrows
<1>. QED  BY <1>2, <1>3 DEF ReworkCounted

\* A written ticket whose new count covers its new status keeps ReworkGrows.
LEMMA WrittenGrows ==
  ASSUME RowsOK, NEW t \in Tickets, NEW to, NEW count \in Nat, NEW action, NEW actor, NEW emitted,
         Written(t, to, count, action, actor, emitted),
         count >= ticket[t].rework_count,
         to = "REWORK_REQUIRED" => count >= 1
  PROVE  ReworkGrows
<1>1. \A u \in Tickets : ticket[u].rework_count \in Nat
  BY DEF RowsOK, TicketRow
<1>. QED  BY <1>1 DEF Written, ReworkGrows

\* Every command keeps rework accounted for.
LEMMA ReworkStep ==
  ASSUME IInv, ReworkCounted, [Next]_vars
  PROVE  ReworkCounted'
<1>. USE DEF IInv
<1>0. RowsOK' /\ \A u \in Tickets : ticket[u].rework_count \in Nat
  BY TypeStep DEF RowsOK, TicketRow
<1>. SUFFICES ReworkGrows /\ PurposesCovered
  BY <1>0, CountedKept
<1>1. ASSUME NEW c \in creating, CreateTicket(c)
      PROVE  ReworkGrows /\ PurposesCovered
  <2>1. /\ ticket[c.ticket].status = "ABSENT" /\ ticket'[c.ticket].status = "OPEN"
        /\ \A u \in Tickets \ {c.ticket} : ticket'[u] = ticket[u]
    <3>1. Inserted(c)
      BY <1>1, Created
    <3>. QED  BY <3>1 DEF RowsOK, Inserted
  <2>2. ReworkGrows
    BY <1>0, <2>1 DEF ReworkGrows
  <2>. QED  BY <1>1, <2>2 DEF CreateTicket, PurposesCovered
<1>2. ASSUME NEW t \in Tickets, NEW a \in Appointments, NEW w \in Workers, NEW s \in Slots,
             NEW actor \in ActorType, NEW at \in Times, BookAppointment(t, a, w, s, actor, at)
      PROVE  ReworkGrows /\ PurposesCovered
  <2>1. ReworkGrows
    BY <1>0, <1>2, BookWrites, WrittenGrows
  <2>2. /\ appointment'[a].ticket = t /\ ticket[t].status # "ABSENT"
        /\ appointment'[a].purpose = "REWORK" => ticket[t].rework_count >= 1
    BY <1>2 DEF BookAppointment, NewAppointment, RowsOK
  <2>. QED  BY <1>2, <2>1, <2>2 DEF BookAppointment, PurposesCovered, RowsOK
<1>3. ASSUME NEW t \in Tickets, NEW old \in Appointments, NEW a \in Appointments,
             NEW w \in Workers, NEW s \in Slots, NEW actor \in ActorType, NEW at \in Times,
             RescheduleAppointment(t, old, a, w, s, actor, at)
      PROVE  ReworkGrows /\ PurposesCovered
  <2>1. ReworkGrows
    BY <1>0, <1>3, RescheduleWrites, WrittenGrows
  <2>2. a # old /\ appointment[old].status = "BOOKED" /\ appointment[old].ticket = t
    BY <1>3 DEF RescheduleAppointment, Booked
  <2>3. /\ appointment'[a].ticket = t /\ ticket[t].status # "ABSENT"
        /\ appointment'[a].purpose = "REWORK" => ticket[t].rework_count >= 1
    BY <1>3, <2>2 DEF RescheduleAppointment, NewAppointment, RowsOK, ReworkCounted,
                      OnlyLatestBooked
  <2>4. /\ appointment'[old].ticket = appointment[old].ticket
        /\ appointment'[old].purpose = appointment[old].purpose
    <3>1. appointment'[old] = Ended(appointment[old], "SUPERSEDED")
      BY <1>3, <2>2 DEF RescheduleAppointment, RowsOK
    <3>. QED  BY <3>1, EndedType DEF RowsOK, AppointmentStatus, TerminalAppointmentStatus
  <2>5. \A b \in Appointments \ {a, old} : appointment'[b] = appointment[b]
    BY <1>3 DEF RescheduleAppointment, RowsOK
  <2>6. PurposesCovered
    BY <2>2, <2>3, <2>4, <2>5 DEF PurposesCovered
  <2>. QED  BY <2>1, <2>6
<1>4. ASSUME NEW t \in Tickets, NEW at \in Times, AcceptRepair(t, at)
      PROVE  ReworkGrows /\ PurposesCovered
  <2>1. ReworkGrows
    BY <1>0, <1>4, AcceptWrites, WrittenGrows
  <2>2. latest[t] \in Appointments /\ appointment[latest[t]].status # "ABSENT"
    BY <1>4 DEF AcceptRepair, RowsOK, OnlyLatestBooked
  <2>3. /\ Ended(appointment[latest[t]], "FULFILLED").ticket = appointment[latest[t]].ticket
        /\ Ended(appointment[latest[t]], "FULFILLED").purpose = appointment[latest[t]].purpose
    BY <2>2, EndedType DEF RowsOK, AppointmentStatus, TerminalAppointmentStatus
  <2>4. \/ appointment' = appointment
        \/ appointment' = [appointment EXCEPT
                             ![latest[t]] = Ended(appointment[latest[t]], "FULFILLED")]
    BY <1>4, <2>2 DEF AcceptRepair
  <2>. QED  BY <2>1, <2>2, <2>3, <2>4 DEF PurposesCovered, RowsOK
<1>5. ASSUME NEW t \in Tickets, RejectRepair(t)
      PROVE  ReworkGrows /\ PurposesCovered
  <2>1. ReworkGrows
    BY <1>0, <1>5, RejectWrites, WrittenGrows
  <2>. QED  BY <1>5, <2>1 DEF RejectRepair, PurposesCovered
<1>6. ASSUME NEW t \in Tickets, NEW actor \in ActorType, EscalateTicket(t, actor)
      PROVE  ReworkGrows /\ PurposesCovered
  <2>1. ReworkGrows
    BY <1>0, <1>6, EscalateWrites, WrittenGrows
  <2>. QED  BY <1>6, <2>1 DEF EscalateTicket, PurposesCovered
<1>7. ASSUME NEW t \in Tickets, NEW d \in RecoveryDisposition, NEW target \in TicketStatus,
             RecoverTicket(t, d, target)
      PROVE  ReworkGrows /\ PurposesCovered
  <2>. DEFINE count == ticket[t].rework_count + (IF d = "APPROVE_REWORK" THEN 1 ELSE 0)
  <2>1. Written(t, target, count, RecoveryLabel(d), "OPERATOR", StatusChanged)
    BY <1>7, RecoverWrites
  <2>2. target = "REWORK_REQUIRED" => d = "APPROVE_REWORK"
    BY <1>7 DEF RecoverTicket, RecoverTo, ResumeTo
  <2>3. count \in Nat /\ count >= ticket[t].rework_count
        /\ (target = "REWORK_REQUIRED" => count >= 1)
    BY <1>0, <2>2
  <2>. HIDE DEF count
  <2>4. ReworkGrows
    BY <2>1, <2>3, WrittenGrows
  <2>. QED  BY <1>7, <2>4 DEF RecoverTicket, PurposesCovered
<1>8. ASSUME NEW a \in Appointments, NEW evt \in WorkerEventType,
             NEW d \in FailureDisposition, NEW actor \in ActorType,
             RecordWorkerEvent(a, evt, d, actor)
      PROVE  ReworkGrows /\ PurposesCovered
  <2>. DEFINE t == appointment[a].ticket
              purpose == appointment[a].purpose
              to == TicketAfter(evt, purpose, d, ticket[t].status)
              count == ticket[t].rework_count
                         + (IF evt = "FAILED_TO_COMPLETE" /\ d = "REWORK" THEN 1 ELSE 0)
  <2>1. t \in Tickets /\ appointment[a].status = "BOOKED"
    BY <1>8, BookedOwner DEF RecordWorkerEvent, Booked
  <2>2. WorkerWritten(t, a, evt, d, actor)
    BY <1>8, <2>1, WorkerWrites
  <2>3. ReworkGrows
    <3>1. CASE UNCHANGED <<ticket, journal>>
      BY <1>0, <3>1 DEF ReworkGrows
    <3>2. CASE Written(t, to, count, WorkerTicketAction(evt, purpose, d), actor, StatusChanged)
      <4>1. to = "REWORK_REQUIRED" =>
              purpose = "REWORK" \/ (evt = "FAILED_TO_COMPLETE" /\ d = "REWORK")
        BY <1>8 DEF TicketAfter, RecordWorkerEvent, RequiredTicketStatus
      <4>2. purpose = "REWORK" => ticket[t].rework_count >= 1
        BY <2>1 DEF ReworkCounted
      <4>3. count \in Nat /\ count >= ticket[t].rework_count
            /\ (to = "REWORK_REQUIRED" => count >= 1)
        BY <1>0, <2>1, <4>1, <4>2
      <4>. HIDE DEF count, to, t, purpose
      <4>. QED  BY <2>1, <3>2, <4>3, WrittenGrows
    <3>. QED  BY <2>2, <3>1, <3>2 DEF WorkerWritten
  <2>4. AppointmentAfter(evt) \in AppointmentStatus
    BY DEF AppointmentAfter, AppointmentStatus, TerminalAppointmentStatus
  <2>5. /\ Ended(appointment[a], AppointmentAfter(evt)).ticket = appointment[a].ticket
        /\ Ended(appointment[a], AppointmentAfter(evt)).purpose = appointment[a].purpose
    BY <2>4, EndedType DEF RowsOK
  <2>6. \/ appointment' = appointment
        \/ appointment' = [appointment EXCEPT ![a] = Ended(appointment[a], AppointmentAfter(evt))]
    BY <1>8 DEF RecordWorkerEvent
  <2>7. PurposesCovered
    BY <2>1, <2>5, <2>6 DEF PurposesCovered, RowsOK
  <2>. QED  BY <2>3, <2>7
<1>9. CASE UNCHANGED rows
  BY <1>0, <1>9 DEF rows, ReworkGrows, PurposesCovered
<1>. QED  BY <1>1, <1>2, <1>3, <1>4, <1>5, <1>6, <1>7, <1>8, <1>9
            DEF Next, TicketCommand, WorkerCommand, CheckDuplicate, vars, rows

\* A ticket waits for rework, and a visit is for rework, only once rework was counted.
THEOREM ReworkCountedHolds == Spec => []ReworkCounted
<1>1. Init => ReworkCounted
  BY DEF Init, ReworkCounted, NoAppointment, NoTicket
<1>2. IInv /\ ReworkCounted /\ [Next]_vars => ReworkCounted'
  BY ReworkStep
<1>. QED  BY <1>1, <1>2, Inductive, PTL DEF Spec

-----------------------------------------------------------------------------
(***************************************************************************)
(* The ticket's version stands for its visits.                             *)
(***************************************************************************)
\* A command that changes rows of ticket t only, and moves its version, counts the change.
LEMMA ChangeCounted ==
  ASSUME NEW t \in Tickets, ticket'[t].version = ticket[t].version + 1,
         \A b \in Appointments :
           \/ appointment'[b].status = appointment[b].status /\ events'[b] = events[b]
           \/ appointment'[b].ticket = t
  PROVE  VisitChangeCounted
  BY DEF VisitChangeCounted

\* A visit changes only together with its ticket's version.
LEMMA VersionStep ==
  ASSUME IInv, [Next]_vars
  PROVE  VisitChangeCounted
<1>. USE DEF IInv
<1>1. ASSUME NEW c \in creating, CreateTicket(c)
      PROVE  VisitChangeCounted
  BY <1>1 DEF CreateTicket, VisitChangeCounted
<1>2. ASSUME NEW t \in Tickets, NEW a \in Appointments, NEW w \in Workers, NEW s \in Slots,
             NEW actor \in ActorType, NEW at \in Times, BookAppointment(t, a, w, s, actor, at)
      PROVE  VisitChangeCounted
  <2>1. ticket'[t].version = ticket[t].version + 1
    BY <1>2, BookWrites DEF Written
  <2>2. appointment'[a].ticket = t
    BY <1>2 DEF BookAppointment, NewAppointment, RowsOK
  <2>3. \A b \in Appointments \ {a} : appointment'[b] = appointment[b] /\ events'[b] = events[b]
    BY <1>2 DEF BookAppointment, RowsOK
  <2>. QED  BY <2>1, <2>2, <2>3, ChangeCounted
<1>3. ASSUME NEW t \in Tickets, NEW old \in Appointments, NEW a \in Appointments,
             NEW w \in Workers, NEW s \in Slots, NEW actor \in ActorType, NEW at \in Times,
             RescheduleAppointment(t, old, a, w, s, actor, at)
      PROVE  VisitChangeCounted
  <2>1. ticket'[t].version = ticket[t].version + 1
    BY <1>3, RescheduleWrites DEF Written
  <2>2. a # old /\ appointment[old].ticket = t
    BY <1>3 DEF RescheduleAppointment, Booked
  <2>3. appointment'[a].ticket = t
    BY <1>3 DEF RescheduleAppointment, NewAppointment, RowsOK
  <2>4. appointment'[old].ticket = t
    <3>1. appointment'[old] = Ended(appointment[old], "SUPERSEDED")
      BY <1>3, <2>2 DEF RescheduleAppointment, RowsOK
    <3>. QED  BY <2>2, <3>1, EndedType DEF RowsOK, AppointmentStatus, TerminalAppointmentStatus
  <2>5. \A b \in Appointments \ {a, old} :
          appointment'[b] = appointment[b] /\ events'[b] = events[b]
    BY <1>3 DEF RescheduleAppointment, RowsOK
  <2>. QED  BY <2>1, <2>3, <2>4, <2>5, ChangeCounted
<1>4. ASSUME NEW t \in Tickets, NEW at \in Times, AcceptRepair(t, at)
      PROVE  VisitChangeCounted
  <2>1. ticket'[t].version = ticket[t].version + 1
    BY <1>4, AcceptWrites DEF Written
  <2>2. latest[t] \in Appointments /\ appointment[latest[t]].ticket = t
    BY <1>4 DEF AcceptRepair, RowsOK, OnlyLatestBooked
  <2>3. Ended(appointment[latest[t]], "FULFILLED").ticket = t
    BY <2>2, EndedType DEF RowsOK, AppointmentStatus, TerminalAppointmentStatus
  <2>4. events' = events
        /\ \/ appointment' = appointment
           \/ appointment' = [appointment EXCEPT
                                ![latest[t]] = Ended(appointment[latest[t]], "FULFILLED")]
    BY <1>4, <2>2 DEF AcceptRepair
  <2>. QED  BY <2>1, <2>2, <2>3, <2>4, ChangeCounted DEF RowsOK
<1>5. ASSUME NEW t \in Tickets, RejectRepair(t)
      PROVE  VisitChangeCounted
  BY <1>5 DEF RejectRepair, VisitChangeCounted
<1>6. ASSUME NEW t \in Tickets, NEW actor \in ActorType, EscalateTicket(t, actor)
      PROVE  VisitChangeCounted
  BY <1>6 DEF EscalateTicket, VisitChangeCounted
<1>7. ASSUME NEW t \in Tickets, NEW d \in RecoveryDisposition, NEW target \in TicketStatus,
             RecoverTicket(t, d, target)
      PROVE  VisitChangeCounted
  BY <1>7 DEF RecoverTicket, VisitChangeCounted
<1>8. ASSUME NEW a \in Appointments, NEW evt \in WorkerEventType,
             NEW d \in FailureDisposition, NEW actor \in ActorType,
             RecordWorkerEvent(a, evt, d, actor)
      PROVE  VisitChangeCounted
  <2>. DEFINE t == appointment[a].ticket
  <2>1. t \in Tickets /\ appointment[a].status = "BOOKED"
    BY <1>8, BookedOwner DEF RecordWorkerEvent, Booked
  <2>2. WorkerWritten(t, a, evt, d, actor)
    BY <1>8, <2>1, WorkerWrites
  <2>3. \A b \in Appointments \ {a} : appointment'[b] = appointment[b] /\ events'[b] = events[b]
    BY <1>8 DEF RecordWorkerEvent, RowsOK
  <2>4. AppointmentAfter(evt) \in AppointmentStatus
    BY DEF AppointmentAfter, AppointmentStatus, TerminalAppointmentStatus
  <2>5. appointment'[a].ticket = t
    <3>1. Ended(appointment[a], AppointmentAfter(evt)).ticket = t
      BY <2>4, EndedType DEF RowsOK
    <3>. QED  BY <1>8, <3>1 DEF RecordWorkerEvent, RowsOK
  <2>6. CASE evt \in {"ACCEPTED", "DEPARTED", "ARRIVED"}
    <3>1. appointment' = appointment
      BY <1>8, <2>6 DEF RecordWorkerEvent, AppointmentAfter
    <3>2. events[a] \in Seq(WorkerEventType) /\ events'[a] = Append(events[a], evt)
      BY <1>8 DEF RecordWorkerEvent, RowsOK
    <3>3. Recorded("STARTED", events'[a]) => Recorded("STARTED", events[a])
      BY <2>6, <3>2 DEF Recorded
    <3>. QED  BY <2>3, <3>1, <3>3 DEF VisitChangeCounted
  <2>7. CASE evt \notin {"ACCEPTED", "DEPARTED", "ARRIVED"}
    <3>1. ticket'[t].version = ticket[t].version + 1
      BY <2>2, <2>7 DEF WorkerWritten, Written
    <3>. HIDE DEF t
    <3>. QED  BY <2>1, <2>3, <2>5, <3>1, ChangeCounted
  <2>. QED  BY <2>6, <2>7
<1>9. CASE UNCHANGED rows
  BY <1>9 DEF rows, VisitChangeCounted
<1>. QED  BY <1>1, <1>2, <1>3, <1>4, <1>5, <1>6, <1>7, <1>8, <1>9
            DEF Next, TicketCommand, WorkerCommand, CheckDuplicate, vars, rows

\* Whoever holds a ticket's current version holds the current state of its visits.
THEOREM VersionCoversVisitHolds == Spec => VersionCoversVisit
<1>1. IInv /\ [Next]_vars => [VisitChangeCounted]_vars
  BY VersionStep
<1>. QED  BY <1>1, Inductive, PTL DEF Spec, VersionCoversVisit

-----------------------------------------------------------------------------
(***************************************************************************)
(* Open duplicates.                                                        *)
(***************************************************************************)
\* A step under which every ticket carries on makes no twins.
LEMMA CarriedMakesNone ==
  ASSUME \A v \in Tickets : CarriesOn(v)
  PROVE  TwinsExcused
  BY DEF CarriesOn, TwinsExcused, OpenTwins

\* A creation that has read an open ticket about its subject is deliberate.
LEMMA CreateTwins ==
  ASSUME IInv, NEW c \in creating, CreateTicket(c)
  PROVE  TwinsExcused
<1>. USE DEF IInv
<1>1. /\ c.ticket \in Tickets /\ ticket[c.ticket].status = "ABSENT"
      /\ ticket'[c.ticket].subject = c.subject
      /\ \A v \in Tickets \ {c.ticket} : ticket'[v] = ticket[v]
      /\ c \in creating \ creating'
  <2>1. Inserted(c)
    BY Created
  <2>. QED  BY <2>1 DEF RowsOK, Inserted
<1>2. c.ticket \notin c.seen
  BY <1>1 DEF CreationsSound
<1>3. ASSUME NEW v \in Tickets \ {c.ticket}, ticket'[v].subject = c.subject,
             ticket'[v].status \notin TerminalTicketStatus
      PROVE  c.deliberate \/ {c.ticket, v} \cap c.seen = {}
  BY <1>1, <1>2, <1>3 DEF CreationsSound
<1>. SUFFICES ASSUME NEW v \in Tickets, NEW u \in Tickets, v # u,
                     OpenTwins(v, u)', ~OpenTwins(v, u)
              PROVE  c.ticket \in {v, u} /\ (c.deliberate \/ {v, u} \cap c.seen = {})
  BY <1>1 DEF TwinsExcused
<1>4. CASE c.ticket = v
  <2>1. ticket'[u].subject = c.subject /\ ticket'[u].status \notin TerminalTicketStatus
    BY <1>1, <1>4 DEF OpenTwins
  <2>. QED  BY <1>3, <1>4, <2>1
<1>5. CASE c.ticket = u
  <2>1. ticket'[v].subject = c.subject /\ ticket'[v].status \notin TerminalTicketStatus
    BY <1>1, <1>5 DEF OpenTwins
  <2>2. {v, u} = {c.ticket, v}
    BY <1>5
  <2>. QED  BY <1>3, <1>5, <2>1, <2>2
<1>6. CASE c.ticket # v /\ c.ticket # u
  BY <1>1, <1>6 DEF OpenTwins
<1>. QED  BY <1>4, <1>5, <1>6

\* Only a creation makes open twins, and then one that is excused.
LEMMA TwinsStep ==
  ASSUME IInv, [Next]_vars
  PROVE  TwinsExcused
<1>1. ASSUME NEW c \in creating, CreateTicket(c)
      PROVE  TwinsExcused
  BY <1>1, CreateTwins
<1>2. CASE ~\E c \in creating : CreateTicket(c)
  BY <1>2, CarryStep, CarriedMakesNone DEF IInv
<1>. QED  BY <1>1, <1>2

\* Apart from an operator's deliberate duplicates and creations that overtook one another,
\* no two open tickets are about one subject, however repairs are recovered or reworked.
THEOREM DuplicateExcusedHolds == Spec => DuplicateExcused
<1>1. IInv /\ [Next]_vars => [TwinsExcused]_vars
  BY TwinsStep
<1>. QED  BY <1>1, Inductive, PTL DEF Spec, DuplicateExcused

-----------------------------------------------------------------------------
(***************************************************************************)
(* The newest history row is one the transition table allows.              *)
(***************************************************************************)
\* A history row from `from` to `to` that says what HistoryMatches asks of it.
RowTells(from, to, action, actor, emitted, count) ==
  /\ \/ action = "CREATE" /\ from = "ABSENT" /\ to = "OPEN"
     \/ /\ from = "ESCALATED" /\ actor = "OPERATOR" /\ to \notin {"ESCALATED", "CLOSED"}
        /\ \E d \in RecoveryDisposition : action = RecoveryLabel(d)
     \/ Permitted(from, action, to, actor) /\ LabelAgrees(action, count)
  /\ "ticket.status_changed" \in emitted <=> from \notin {"ABSENT", to}

\* A command that writes such a row with the ticket keeps HistoryMatches.
LEMMA WrittenTells ==
  ASSUME HistoryMatches, NEW t \in Tickets, NEW to, NEW count, NEW action, NEW actor,
         NEW emitted, Written(t, to, count, action, actor, emitted),
         RowTells(ticket[t].status, to, action, actor, emitted, count)
  PROVE  HistoryMatches'
<1>. SUFFICES ASSUME NEW u \in Tickets, ticket'[u].status # "ABSENT"
              PROVE  /\ journal'[u].to = ticket'[u].status
                     /\ journal'[u].version = ticket'[u].version
                     /\ RowLegal(journal'[u], ticket'[u].rework_count)
                     /\ "ticket.status_changed" \in journal'[u].emitted
                          <=> journal'[u].from \notin {"ABSENT", journal'[u].to}
  BY DEF HistoryMatches
<1>1. CASE u = t
  <2>1. /\ journal'[t].from = ticket[t].status /\ journal'[t].to = to
        /\ journal'[t].action = action /\ journal'[t].actor = actor
        /\ journal'[t].version = ticket'[t].version /\ journal'[t].emitted = emitted
        /\ ticket'[t].status = to /\ ticket'[t].rework_count = count
    BY DEF Written
  <2>2. RowLegal(journal'[t], count)
    BY <2>1 DEF RowTells, RowLegal
  <2>. QED  BY <1>1, <2>1, <2>2 DEF RowTells
<1>2. CASE u # t
  BY <1>2 DEF HistoryMatches, Written
<1>. QED  BY <1>1, <1>2

\* The lines of the table that commands rely on without looking them up.
LEMMA TableLines ==
  /\ \A f \in {"OPEN", "REWORK_REQUIRED"}, x \in ResidentOperator :
       Permitted(f, "BOOK_APPOINTMENT", "SCHEDULED", x)
  /\ \A x \in WorkerOperator :
       /\ Permitted("SCHEDULED", "START_WORK", "IN_PROGRESS", x)
       /\ Permitted("SCHEDULED", "WORKER_REJECTED_INITIAL", "OPEN", x)
       /\ Permitted("SCHEDULED", "WORKER_REJECTED_REWORK", "REWORK_REQUIRED", x)
       /\ Permitted("SCHEDULED", "WORKER_CANCELLED_INITIAL", "OPEN", x)
       /\ Permitted("SCHEDULED", "WORKER_CANCELLED_REWORK", "REWORK_REQUIRED", x)
       /\ Permitted("IN_PROGRESS", "COMPLETE_WORK", "PENDING_ACCEPTANCE", x)
       /\ Permitted("IN_PROGRESS", "FAIL_WORK_REWORK", "REWORK_REQUIRED", x)
       /\ Permitted("IN_PROGRESS", "FAIL_WORK_ESCALATE", "ESCALATED", x)
  /\ \A x \in SystemOperator : Permitted("SCHEDULED", "REVIEWED_NO_SHOW", "ESCALATED", x)
  BY RowsMembership DEF Permitted, TicketTransitions

\* A worker event that moves its ticket takes a line of the table, with the label half
\* that agrees with the rework count.
LEMMA WorkerRowTells ==
  ASSUME NEW evt \in WorkerEventType, evt \notin {"ACCEPTED", "DEPARTED", "ARRIVED"},
         NEW d \in FailureDisposition, NEW actor \in EventActors(evt),
         NEW purpose \in AppointmentPurpose, NEW before \in Nat, NEW after \in Nat,
         evt \in {"REJECTED", "CANCELLED"} => PurposeAgrees(purpose, before) /\ after = before
  PROVE  RowTells(RequiredTicketStatus(evt),
                  TicketAfter(evt, purpose, d, RequiredTicketStatus(evt)),
                  WorkerTicketAction(evt, purpose, d), actor, StatusChanged, after)
<1>. DEFINE from == RequiredTicketStatus(evt)
            to == TicketAfter(evt, purpose, d, from)
            label == WorkerTicketAction(evt, purpose, d)
<1>1. evt \in {"STARTED", "COMPLETED", "FAILED_TO_COMPLETE", "NO_SHOW", "REJECTED", "CANCELLED"}
  BY DEF WorkerEventType, PreWorkEvent, TerminalEvent
<1>2. from \notin {"ABSENT", to}
  BY <1>1 DEF RequiredTicketStatus, TicketAfter, PreWorkEvent
<1>3. CASE evt \in {"STARTED", "COMPLETED", "FAILED_TO_COMPLETE"}
  <2>1. actor \in WorkerOperator
    BY <1>3 DEF EventActors
  <2>2. Permitted(from, label, to, actor)
    BY <1>3, <2>1, TableLines
    DEF RequiredTicketStatus, TicketAfter, WorkerTicketAction, PreWorkEvent, FailureDisposition
  <2>3. LabelAgrees(label, after)
    BY <1>3 DEF LabelAgrees, WorkerTicketAction
  <2>. QED  BY <1>2, <2>2, <2>3 DEF RowTells, StatusChanged
<1>4. CASE evt = "NO_SHOW"
  <2>1. Permitted(from, label, to, actor)
    BY <1>4, TableLines
    DEF RequiredTicketStatus, TicketAfter, WorkerTicketAction, PreWorkEvent, EventActors
  <2>2. LabelAgrees(label, after)
    BY <1>4 DEF LabelAgrees, WorkerTicketAction
  <2>. QED  BY <1>2, <2>1, <2>2 DEF RowTells, StatusChanged
<1>5. CASE evt \in {"REJECTED", "CANCELLED"}
  <2>1. actor \in WorkerOperator
    BY <1>5 DEF EventActors
  <2>2. Permitted(from, label, to, actor)
    BY <1>5, <2>1, TableLines
    DEF RequiredTicketStatus, TicketAfter, WorkerTicketAction, PreWorkEvent
  <2>3. LabelAgrees(label, after)
    BY <1>5 DEF LabelAgrees, WorkerTicketAction, PurposeAgrees, AppointmentPurpose
  <2>. QED  BY <1>2, <2>2, <2>3 DEF RowTells, StatusChanged
<1>. QED  BY <1>1, <1>3, <1>4, <1>5

\* Every command leaves a history row that tells what happened.
LEMMA HistoryStep ==
  ASSUME IInv, HistoryMatches, [Next]_vars
  PROVE  HistoryMatches'
<1>. USE DEF IInv
<1>1. ASSUME NEW c \in creating, CreateTicket(c)
      PROVE  HistoryMatches'
  <2>1. /\ ticket'[c.ticket].status = "OPEN" /\ ticket'[c.ticket].version = 1
        /\ journal'[c.ticket] = [from |-> "ABSENT", to |-> "OPEN", action |-> "CREATE",
                          actor |-> c.actor, version |-> 1, emitted |-> Just("ticket.created")]
        /\ \A u \in Tickets \ {c.ticket} : ticket'[u] = ticket[u] /\ journal'[u] = journal[u]
    <3>1. Inserted(c)
      BY <1>1, Created
    <3>. QED  BY <3>1 DEF RowsOK, Inserted
  <2>2. RowLegal(journal'[c.ticket], ticket'[c.ticket].rework_count)
    BY <2>1 DEF RowLegal
  <2>. QED  BY <2>1, <2>2 DEF HistoryMatches, Just
<1>2. ASSUME NEW t \in Tickets, NEW a \in Appointments, NEW w \in Workers, NEW s \in Slots,
             NEW actor \in ActorType, NEW at \in Times, BookAppointment(t, a, w, s, actor, at)
      PROVE  HistoryMatches'
  <2>1. RowTells(ticket[t].status, "SCHEDULED", "BOOK_APPOINTMENT", actor,
                 StatusChangedAnd("appointment.booked"), ticket[t].rework_count)
    BY <1>2, TableLines DEF BookAppointment, RowTells, LabelAgrees, StatusChangedAnd
  <2>. QED  BY <1>2, <2>1, BookWrites, WrittenTells
<1>3. ASSUME NEW t \in Tickets, NEW old \in Appointments, NEW a \in Appointments,
             NEW w \in Workers, NEW s \in Slots, NEW actor \in ActorType, NEW at \in Times,
             RescheduleAppointment(t, old, a, w, s, actor, at)
      PROVE  HistoryMatches'
  <2>1. Permitted(ticket[t].status, "RESCHEDULE", "SCHEDULED", actor)
    BY <1>3 DEF RescheduleAppointment
  <2>2. RowTells(ticket[t].status, "SCHEDULED", "RESCHEDULE", actor,
                 Just("appointment.rescheduled"), ticket[t].rework_count)
    BY <2>1, RescheduleRows DEF RowTells, LabelAgrees, Just
  <2>. QED  BY <1>3, <2>2, RescheduleWrites, WrittenTells
<1>4. ASSUME NEW t \in Tickets, NEW at \in Times, AcceptRepair(t, at)
      PROVE  HistoryMatches'
  <2>1. Permitted(ticket[t].status, "RESIDENT_ACCEPT", "CLOSED", "RESIDENT")
    BY <1>4 DEF AcceptRepair
  <2>2. RowTells(ticket[t].status, "CLOSED", "RESIDENT_ACCEPT", "RESIDENT", StatusChanged,
                 ticket[t].rework_count)
    BY <2>1, AcceptRows DEF RowTells, LabelAgrees, StatusChanged
  <2>. QED  BY <1>4, <2>2, AcceptWrites, WrittenTells
<1>5. ASSUME NEW t \in Tickets, RejectRepair(t)
      PROVE  HistoryMatches'
  <2>1. Permitted(ticket[t].status, "RESIDENT_REJECT", "REWORK_REQUIRED", "RESIDENT")
    BY <1>5 DEF RejectRepair
  <2>2. RowTells(ticket[t].status, "REWORK_REQUIRED", "RESIDENT_REJECT", "RESIDENT",
                 StatusChanged, ticket[t].rework_count + 1)
    BY <2>1, RejectRows DEF RowTells, LabelAgrees, StatusChanged
  <2>. QED  BY <1>5, <2>2, RejectWrites, WrittenTells
<1>6. ASSUME NEW t \in Tickets, NEW actor \in ActorType, EscalateTicket(t, actor)
      PROVE  HistoryMatches'
  <2>1. Permitted(ticket[t].status, "ESCALATE", "ESCALATED", actor)
    BY <1>6 DEF EscalateTicket
  <2>2. RowTells(ticket[t].status, "ESCALATED", "ESCALATE", actor,
                 StatusChangedAnd("ticket.escalated"), ticket[t].rework_count)
    BY <2>1, EscalateRows DEF RowTells, LabelAgrees, StatusChangedAnd, EscalatableStatus
  <2>. QED  BY <1>6, <2>2, EscalateWrites, WrittenTells
<1>7. ASSUME NEW t \in Tickets, NEW d \in RecoveryDisposition, NEW target \in TicketStatus,
             RecoverTicket(t, d, target)
      PROVE  HistoryMatches'
  <2>1. ticket[t].status = "ESCALATED"
    BY <1>7 DEF RecoverTicket, AggregateAgreement, EscalatableStatus
  <2>2. target \notin {"ESCALATED", "CLOSED"}
    BY <1>7 DEF RecoverTicket, RecoverTo, ResumeTo
  <2>3. RowTells(ticket[t].status, target, RecoveryLabel(d), "OPERATOR", StatusChanged,
          ticket[t].rework_count + (IF d = "APPROVE_REWORK" THEN 1 ELSE 0))
    BY <2>1, <2>2 DEF RowTells, StatusChanged
  <2>. QED  BY <1>7, <2>3, RecoverWrites, WrittenTells
<1>8. ASSUME NEW a \in Appointments, NEW evt \in WorkerEventType,
             NEW d \in FailureDisposition, NEW actor \in ActorType,
             RecordWorkerEvent(a, evt, d, actor)
      PROVE  HistoryMatches'
  <2>. DEFINE t == appointment[a].ticket
              purpose == appointment[a].purpose
              count == ticket[t].rework_count
                         + (IF evt = "FAILED_TO_COMPLETE" /\ d = "REWORK" THEN 1 ELSE 0)
  <2>1. t \in Tickets
    BY <1>8, BookedOwner DEF RecordWorkerEvent
  <2>2. WorkerWritten(t, a, evt, d, actor)
    BY <1>8, <2>1, WorkerWrites
  <2>3. CASE evt \in {"ACCEPTED", "DEPARTED", "ARRIVED"}
    BY <2>2, <2>3 DEF WorkerWritten, HistoryMatches
  <2>4. CASE evt \notin {"ACCEPTED", "DEPARTED", "ARRIVED"}
    <3>1. ticket[t].rework_count \in Nat /\ count \in Nat /\ purpose \in AppointmentPurpose
      BY <2>1 DEF RowsOK, TicketRow, AppointmentRow
    <3>2. /\ ticket[t].status = RequiredTicketStatus(evt)
          /\ actor \in EventActors(evt)
          /\ evt \in {"REJECTED", "CANCELLED"} => PurposeAgrees(purpose, ticket[t].rework_count)
      BY <1>8 DEF RecordWorkerEvent
    <3>3. evt \in {"REJECTED", "CANCELLED"} => count = ticket[t].rework_count
      BY <3>1
    <3>4. RowTells(ticket[t].status, TicketAfter(evt, purpose, d, ticket[t].status),
                   WorkerTicketAction(evt, purpose, d), actor, StatusChanged, count)
      BY <2>4, <3>1, <3>2, <3>3, WorkerRowTells
    <3>5. Written(t, TicketAfter(evt, purpose, d, ticket[t].status), count,
                  WorkerTicketAction(evt, purpose, d), actor, StatusChanged)
      BY <2>2, <2>4 DEF WorkerWritten
    <3>. HIDE DEF t, purpose, count
    <3>. QED  BY <2>1, <3>4, <3>5, WrittenTells
  <2>. QED  BY <2>3, <2>4
<1>9. CASE UNCHANGED rows
  BY <1>9 DEF rows, HistoryMatches
<1>. QED  BY <1>1, <1>2, <1>3, <1>4, <1>5, <1>6, <1>7, <1>8, <1>9
            DEF Next, TicketCommand, WorkerCommand, CheckDuplicate, vars, rows

\* The newest history row of a ticket carries its status and version, is a creation, a
\* recovery or a line of the transition table, and announces exactly the status changes:
\* record_worker_event and recover_ticket never look the table up.
THEOREM HistoryMatchesHolds == Spec => []HistoryMatches
<1>1. Init => HistoryMatches
  BY DEF Init, HistoryMatches, NoTicket
<1>2. IInv /\ HistoryMatches /\ [Next]_vars => HistoryMatches'
  BY HistoryStep
<1>. QED  BY <1>1, <1>2, Inductive, PTL DEF Spec

-----------------------------------------------------------------------------
(***************************************************************************)
(* The chain of appointments that reschedules build.                       *)
(***************************************************************************)
\* Only superseded rows are referred to, and a row that does not exist refers to none.
LinksBack ==
  \A c \in Appointments :
    /\ appointment[c].supersedes \in Appointments =>
         appointment[appointment[c].supersedes].status = "SUPERSEDED"
    /\ appointment[c].status = "ABSENT" => appointment[c].supersedes = None

\* A command that keeps every row's links, ticket and purpose, and which rows are superseded.
LinksKept ==
  \A b \in Appointments :
    /\ appointment'[b].supersedes = appointment[b].supersedes
    /\ appointment'[b].ticket = appointment[b].ticket
    /\ appointment'[b].purpose = appointment[b].purpose
    /\ appointment'[b].status = "SUPERSEDED" <=> appointment[b].status = "SUPERSEDED"
    /\ appointment'[b].status = "ABSENT" <=> appointment[b].status = "ABSENT"

\* Such a command keeps the chains.
LEMMA ChainsKept ==
  ASSUME SupersessionLinked, LinksBack, LinksKept
  PROVE  SupersessionLinked' /\ LinksBack'
<1>1. LinksBack'
  BY DEF LinksBack, LinksKept
<1>2. \A a : {c \in Appointments : appointment'[c].supersedes = a}
               = {c \in Appointments : appointment[c].supersedes = a}
  BY DEF LinksKept
<1>3. ASSUME NEW a \in Appointments, appointment'[a].status = "SUPERSEDED"
      PROVE  \E b \in Appointments :
               /\ {c \in Appointments : appointment'[c].supersedes = a} = {b}
               /\ appointment'[b].ticket = appointment'[a].ticket
               /\ appointment'[b].purpose = appointment'[a].purpose
  <2>1. PICK b \in Appointments :
          /\ {c \in Appointments : appointment[c].supersedes = a} = {b}
          /\ appointment[b].ticket = appointment[a].ticket
          /\ appointment[b].purpose = appointment[a].purpose
    BY <1>3 DEF SupersessionLinked, LinksKept
  <2>. QED  BY <1>2, <2>1 DEF LinksKept
<1>4. ASSUME NEW S \in SUBSET Appointments, S # {}
      PROVE  \E a \in S : appointment'[a].supersedes \notin S
  BY <1>4 DEF SupersessionLinked, LinksKept
<1>. QED  BY <1>1, <1>3, <1>4 DEF SupersessionLinked

\* A command that stores row a, whose link is `to`: None, or the row it ends as superseded.
Stored(a, to) ==
  /\ appointment[a].status = "ABSENT" /\ appointment'[a].status = "BOOKED"
  /\ appointment'[a].supersedes = to
  /\ to \in Appointments =>
       /\ to # a
       /\ appointment[to].status = "BOOKED" /\ appointment'[to].status = "SUPERSEDED"
       /\ appointment'[a].ticket = appointment[to].ticket
       /\ appointment'[a].purpose = appointment[to].purpose
       /\ appointment'[to].supersedes = appointment[to].supersedes
       /\ appointment'[to].ticket = appointment[to].ticket
       /\ appointment'[to].purpose = appointment[to].purpose
  /\ \A b \in Appointments \ {a, to} : appointment'[b] = appointment[b]

\* Storing a row at the head of its chain keeps the chains.
LEMMA ChainsGrow ==
  ASSUME SupersessionLinked, LinksBack, NEW a \in Appointments,
         NEW to \in Appointments \cup {None}, Stored(a, to)
  PROVE  SupersessionLinked' /\ LinksBack'
<1>1. \A b \in Appointments \ {a} : appointment'[b].supersedes = appointment[b].supersedes
  BY DEF Stored
<1>2. \A c \in Appointments : appointment[c].supersedes \notin {a, to} \cap Appointments
  BY DEF LinksBack, Stored
<1>3. appointment[a].supersedes = None /\ None \notin Appointments
  BY NoneAssumption DEF LinksBack, Stored
<1>4. LinksBack'
  <2>. SUFFICES ASSUME NEW c \in Appointments
                PROVE  /\ appointment'[c].supersedes \in Appointments =>
                            appointment'[appointment'[c].supersedes].status = "SUPERSEDED"
                       /\ appointment'[c].status = "ABSENT" => appointment'[c].supersedes = None
    BY DEF LinksBack
  <2>1. CASE c = a
    BY <2>1 DEF Stored
  <2>2. CASE c # a
    <3>1. appointment'[c].supersedes = appointment[c].supersedes
      BY <1>1, <2>2
    <3>2. appointment'[c].status = "ABSENT" => appointment[c].status = "ABSENT"
      BY <2>2 DEF Stored
    <3>3. appointment[c].supersedes \in Appointments =>
            appointment'[appointment[c].supersedes] = appointment[appointment[c].supersedes]
      BY <1>2 DEF Stored
    <3>. QED  BY <3>1, <3>2, <3>3 DEF LinksBack
  <2>. QED  BY <2>1, <2>2
<1>5. ASSUME NEW x \in Appointments, appointment'[x].status = "SUPERSEDED"
      PROVE  \E b \in Appointments :
               /\ {c \in Appointments : appointment'[c].supersedes = x} = {b}
               /\ appointment'[b].ticket = appointment'[x].ticket
               /\ appointment'[b].purpose = appointment'[x].purpose
  <2>1. CASE x = to
    <3>1. {c \in Appointments : appointment'[c].supersedes = x} = {a}
      BY <1>1, <1>2, <2>1 DEF Stored
    <3>. QED  BY <2>1, <3>1 DEF Stored
  <2>2. CASE x # to
    <3>1. x # a /\ appointment'[x] = appointment[x]
      BY <1>5, <2>2 DEF Stored
    <3>2. PICK b \in Appointments :
            /\ {c \in Appointments : appointment[c].supersedes = x} = {b}
            /\ appointment[b].ticket = appointment[x].ticket
            /\ appointment[b].purpose = appointment[x].purpose
      BY <1>5, <3>1 DEF SupersessionLinked
    <3>3. {c \in Appointments : appointment'[c].supersedes = x}
            = {c \in Appointments : appointment[c].supersedes = x}
      BY <1>1, <1>3, <2>2 DEF Stored
    <3>4. b # a
      BY <1>3, <3>2
    <3>5. appointment'[b].ticket = appointment[b].ticket
          /\ appointment'[b].purpose = appointment[b].purpose
      BY <3>4 DEF Stored
    <3>. QED  BY <3>1, <3>2, <3>3, <3>5
  <2>. QED  BY <2>1, <2>2
<1>6. ASSUME NEW S \in SUBSET Appointments, S # {}
      PROVE  \E x \in S : appointment'[x].supersedes \notin S
  <2>1. CASE a \notin S
    <3>1. PICK x \in S : appointment[x].supersedes \notin S
      BY <1>6 DEF SupersessionLinked
    <3>. QED  BY <1>1, <2>1, <3>1
  <2>2. CASE S = {a}
    BY <1>3, <2>2 DEF Stored
  <2>3. CASE a \in S /\ S # {a}
    <3>1. S \ {a} \in SUBSET Appointments /\ S \ {a} # {}
      BY <2>3
    <3>2. PICK x \in S \ {a} : appointment[x].supersedes \notin S \ {a}
      BY <3>1 DEF SupersessionLinked
    <3>3. appointment[x].supersedes # a
      BY <1>2
    <3>. QED  BY <1>1, <3>2, <3>3
  <2>. QED  BY <2>1, <2>2, <2>3
<1>. QED  BY <1>4, <1>5, <1>6 DEF SupersessionLinked

\* Ending a live row, other than by superseding it, keeps every link.
LEMMA EndKeepsLinks ==
  ASSUME RowsOK, NEW a \in Appointments, NEW status \in AppointmentStatus,
         status # "SUPERSEDED", appointment[a].status = "BOOKED",
         appointment' = [appointment EXCEPT ![a] = Ended(appointment[a], status)]
  PROVE  LinksKept
<1>1. /\ appointment'[a].status = status
      /\ appointment'[a].ticket = appointment[a].ticket
      /\ appointment'[a].purpose = appointment[a].purpose
      /\ appointment'[a].supersedes = appointment[a].supersedes
  BY EndedType DEF RowsOK
<1>2. \A b \in Appointments \ {a} : appointment'[b] = appointment[b]
  BY DEF RowsOK
<1>3. status # "ABSENT"
  BY DEF AppointmentStatus, TerminalAppointmentStatus
<1>. QED  BY <1>1, <1>2, <1>3 DEF LinksKept

\* Every command keeps the chains.
LEMMA ChainStep ==
  ASSUME IInv, SupersessionLinked, LinksBack, [Next]_vars
  PROVE  SupersessionLinked' /\ LinksBack'
<1>. USE DEF IInv
<1>0. appointment' = appointment => SupersessionLinked' /\ LinksBack'
  <2>1. appointment' = appointment => LinksKept
    BY DEF LinksKept
  <2>. QED  BY <2>1, ChainsKept
<1>1. ASSUME NEW c \in creating, CreateTicket(c)
      PROVE  SupersessionLinked' /\ LinksBack'
  BY <1>0, <1>1 DEF CreateTicket
<1>2. ASSUME NEW t \in Tickets, NEW a \in Appointments, NEW w \in Workers, NEW s \in Slots,
             NEW actor \in ActorType, NEW at \in Times, BookAppointment(t, a, w, s, actor, at)
      PROVE  SupersessionLinked' /\ LinksBack'
  <2>1. Stored(a, None)
    BY <1>2, NoneAssumption DEF BookAppointment, NewAppointment, Stored, RowsOK
  <2>. QED  BY <2>1, ChainsGrow
<1>3. ASSUME NEW t \in Tickets, NEW old \in Appointments, NEW a \in Appointments,
             NEW w \in Workers, NEW s \in Slots, NEW actor \in ActorType, NEW at \in Times,
             RescheduleAppointment(t, old, a, w, s, actor, at)
      PROVE  SupersessionLinked' /\ LinksBack'
  <2>1. /\ a # old /\ appointment[old].ticket = t
        /\ appointment[old].status = "BOOKED" /\ appointment[a].status = "ABSENT"
    BY <1>3 DEF RescheduleAppointment, Booked
  <2>2. /\ appointment'[a] = NewAppointment(t, w, s, appointment[old].purpose, old)
        /\ appointment'[old] = Ended(appointment[old], "SUPERSEDED")
        /\ \A b \in Appointments \ {a, old} : appointment'[b] = appointment[b]
    BY <1>3, <2>1 DEF RescheduleAppointment, RowsOK
  <2>3. /\ appointment'[old].status = "SUPERSEDED"
        /\ appointment'[old].supersedes = appointment[old].supersedes
        /\ appointment'[old].ticket = appointment[old].ticket
        /\ appointment'[old].purpose = appointment[old].purpose
    BY <2>2, EndedType DEF RowsOK, AppointmentStatus, TerminalAppointmentStatus
  <2>4. Stored(a, old)
    BY <2>1, <2>2, <2>3 DEF NewAppointment, Stored
  <2>. QED  BY <2>4, ChainsGrow
<1>4. ASSUME NEW t \in Tickets, NEW at \in Times, AcceptRepair(t, at)
      PROVE  SupersessionLinked' /\ LinksBack'
  <2>1. latest[t] \in Appointments
    BY <1>4 DEF AcceptRepair, RowsOK
  <2>2. CASE Visit(t) = "BOOKED"
    <3>1. appointment[latest[t]].status = "BOOKED"
      BY <2>1, <2>2 DEF Visit
    <3>2. LinksKept
      BY <1>4, <2>1, <2>2, <3>1, EndKeepsLinks
      DEF AcceptRepair, AppointmentStatus, TerminalAppointmentStatus
    <3>. QED  BY <3>2, ChainsKept
  <2>3. CASE Visit(t) # "BOOKED"
    BY <1>0, <1>4, <2>3 DEF AcceptRepair
  <2>. QED  BY <2>2, <2>3
<1>5. ASSUME NEW t \in Tickets, RejectRepair(t)
      PROVE  SupersessionLinked' /\ LinksBack'
  BY <1>0, <1>5 DEF RejectRepair
<1>6. ASSUME NEW t \in Tickets, NEW actor \in ActorType, EscalateTicket(t, actor)
      PROVE  SupersessionLinked' /\ LinksBack'
  BY <1>0, <1>6 DEF EscalateTicket
<1>7. ASSUME NEW t \in Tickets, NEW d \in RecoveryDisposition, NEW target \in TicketStatus,
             RecoverTicket(t, d, target)
      PROVE  SupersessionLinked' /\ LinksBack'
  BY <1>0, <1>7 DEF RecoverTicket
<1>8. ASSUME NEW a \in Appointments, NEW evt \in WorkerEventType,
             NEW d \in FailureDisposition, NEW actor \in ActorType,
             RecordWorkerEvent(a, evt, d, actor)
      PROVE  SupersessionLinked' /\ LinksBack'
  <2>1. AppointmentAfter(evt) \in AppointmentStatus \ {"SUPERSEDED"}
    BY DEF AppointmentAfter, AppointmentStatus, TerminalAppointmentStatus
  <2>2. CASE AppointmentAfter(evt) = "BOOKED"
    BY <1>0, <1>8, <2>2 DEF RecordWorkerEvent
  <2>3. CASE AppointmentAfter(evt) # "BOOKED"
    <3>1. /\ appointment[a].status = "BOOKED"
          /\ appointment' = [appointment EXCEPT ![a] = Ended(appointment[a], AppointmentAfter(evt))]
      BY <1>8, <2>3 DEF RecordWorkerEvent, Booked
    <3>2. LinksKept
      BY <2>1, <3>1, EndKeepsLinks
    <3>. QED  BY <3>2, ChainsKept
  <2>. QED  BY <2>2, <2>3
<1>9. CASE UNCHANGED rows
  BY <1>0, <1>9 DEF rows
<1>. QED  BY <1>1, <1>2, <1>3, <1>4, <1>5, <1>6, <1>7, <1>8, <1>9
            DEF Next, TicketCommand, WorkerCommand, CheckDuplicate, vars, rows

\* A superseded appointment has exactly one replacement, for the same ticket and purpose,
\* and the chains of replacements never loop, however often and on however many tickets
\* reschedule_appointment runs.
THEOREM SupersessionLinkedHolds == Spec => []SupersessionLinked
<1>1. Init => SupersessionLinked /\ LinksBack
  BY NoneAssumption DEF Init, SupersessionLinked, LinksBack, NoAppointment
<1>2. IInv /\ SupersessionLinked /\ LinksBack /\ [Next]_vars => SupersessionLinked' /\ LinksBack'
  BY ChainStep
<1>. QED  BY <1>1, <1>2, Inductive, PTL DEF Spec

-----------------------------------------------------------------------------
(***************************************************************************)
(* The worker events of one visit.                                         *)
(***************************************************************************)
\* Appending one element, by extensionality.
LEMMA AppendIs ==
  ASSUME NEW S, NEW s \in Seq(S), NEW e \in S, NEW r \in Seq(S),
         Len(r) = Len(s) + 1, r[Len(s) + 1] = e, \A i \in 1 .. Len(s) : r[i] = s[i]
  PROVE  Append(s, e) = r
<1>1. /\ Append(s, e) \in Seq(S) /\ Len(Append(s, e)) = Len(s) + 1
      /\ Append(s, e)[Len(s) + 1] = e
      /\ \A i \in 1 .. Len(s) : Append(s, e)[i] = s[i]
  BY AppendProperties
<1>2. \A i \in 1 .. Len(r) : Append(s, e)[i] = r[i]
  BY <1>1
<1>. QED  BY <1>1, <1>2, SeqEqual

\* What the last events say about a log that may belong to a live row.
LEMMA ApproachLogs ==
  /\ \A w \in Approach : w \in Seq(WorkerEventType) /\ LastEvent(w) # "STARTED"
  /\ \A w \in Approach : LastEvent(w) = "ACCEPTED" => w = <<"ACCEPTED">>
  /\ \A w \in Approach : LastEvent(w) = "DEPARTED" => w = <<"ACCEPTED", "DEPARTED">>
  /\ \A w \in Approach : LastEvent(Append(w, "STARTED")) = "STARTED"
<1>1. /\ {"ACCEPTED", "DEPARTED", "ARRIVED"} \subseteq WorkerEventType
      /\ "STARTED" \in WorkerEventType
  BY DEF WorkerEventType, PreWorkEvent, TerminalEvent
<1>2. ASSUME NEW w \in Approach PROVE w \in Seq(WorkerEventType)
  <2>1. CASE w = <<>>
    BY <2>1
  <2>2. CASE w = <<"ACCEPTED">>
    BY <1>1, <2>2
  <2>3. CASE w = <<"ACCEPTED", "DEPARTED">>
    BY <1>1, <2>3
  <2>4. CASE w = <<"ACCEPTED", "DEPARTED", "ARRIVED">>
    BY <1>1, <2>4
  <2>. QED  BY <2>1, <2>2, <2>3, <2>4 DEF Approach
<1>3. /\ LastEvent(<<>>) = "NONE" /\ LastEvent(<<"ACCEPTED">>) = "ACCEPTED"
      /\ LastEvent(<<"ACCEPTED", "DEPARTED">>) = "DEPARTED"
      /\ LastEvent(<<"ACCEPTED", "DEPARTED", "ARRIVED">>) = "ARRIVED"
  BY DEF LastEvent
<1>4. ASSUME NEW w \in Approach PROVE LastEvent(Append(w, "STARTED")) = "STARTED"
  <2>1. /\ Append(w, "STARTED") # <<>>
        /\ Append(w, "STARTED")[Len(Append(w, "STARTED"))] = "STARTED"
    BY <1>1, <1>2, AppendProperties
  <2>. QED  BY <2>1 DEF LastEvent
<1>. QED  BY <1>2, <1>3, <1>4 DEF Approach

\* The approach grows event by event.
LEMMA ApproachGrows ==
  /\ <<>> \in Approach
  /\ Append(<<>>, "ACCEPTED") \in Approach
  /\ Append(<<"ACCEPTED">>, "DEPARTED") \in Approach
  /\ Append(<<"ACCEPTED", "DEPARTED">>, "ARRIVED") \in Approach
  /\ Append(<<>>, "REJECTED") = <<"REJECTED">>
<1>1. Append(<<>>, "ACCEPTED") = <<"ACCEPTED">> /\ Append(<<>>, "REJECTED") = <<"REJECTED">>
  OBVIOUS
<1>2. Append(<<"ACCEPTED">>, "DEPARTED") = <<"ACCEPTED", "DEPARTED">>
  <2> DEFINE E == {"ACCEPTED", "DEPARTED"}
             s == <<"ACCEPTED">>
             r == <<"ACCEPTED", "DEPARTED">>
  <2>1. /\ s \in Seq(E) /\ r \in Seq(E) /\ Len(s) = 1 /\ Len(r) = 2
        /\ s[1] = "ACCEPTED" /\ r[1] = "ACCEPTED" /\ r[2] = "DEPARTED"
    OBVIOUS
  <2>2. "DEPARTED" \in E
    OBVIOUS
  <2> HIDE DEF E, s, r
  <2>3. /\ Len(r) = Len(s) + 1 /\ r[Len(s) + 1] = "DEPARTED"
        /\ \A i \in 1 .. Len(s) : r[i] = s[i]
    BY <2>1
  <2>4. Append(s, "DEPARTED") = r
    BY <2>1, <2>2, <2>3, AppendIs
  <2>. QED  BY <2>4 DEF s, r
<1>3. Append(<<"ACCEPTED", "DEPARTED">>, "ARRIVED") = <<"ACCEPTED", "DEPARTED", "ARRIVED">>
  <2> DEFINE E == {"ACCEPTED", "DEPARTED", "ARRIVED"}
             s == <<"ACCEPTED", "DEPARTED">>
             r == <<"ACCEPTED", "DEPARTED", "ARRIVED">>
  <2>1. /\ s \in Seq(E) /\ r \in Seq(E) /\ Len(s) = 2 /\ Len(r) = 3
        /\ s[1] = "ACCEPTED" /\ s[2] = "DEPARTED"
        /\ r[1] = "ACCEPTED" /\ r[2] = "DEPARTED" /\ r[3] = "ARRIVED"
    OBVIOUS
  <2>2. "ARRIVED" \in E
    OBVIOUS
  <2> HIDE DEF E, s, r
  <2>3. /\ Len(r) = Len(s) + 1 /\ r[Len(s) + 1] = "ARRIVED"
        /\ \A i \in 1 .. Len(s) : r[i] = s[i]
    BY <2>1
  <2>4. Append(s, "ARRIVED") = r
    BY <2>1, <2>2, <2>3, AppendIs
  <2>. QED  BY <2>4 DEF s, r
<1>. QED  BY <1>1, <1>2, <1>3 DEF Approach

\* The logs of a live row: an approach, after which work may have started.
LiveLog(log) == log \in Approach \/ \E w \in Approach : log = Append(w, "STARTED")

\* A live row has a live log.
LEMMA LiveRows ==
  ASSUME VisitProtocol, NEW a \in Appointments, Booked(a)
  PROVE  LiveLog(events[a])
  BY DEF VisitProtocol, VisitLog, Booked, LiveLog

\* A live log whose last event is not STARTED is an approach.
LEMMA NotStarted ==
  ASSUME NEW log, LiveLog(log), LastEvent(log) # "STARTED"
  PROVE  log \in Approach
  BY ApproachLogs DEF LiveLog

\* A command that changes row a only keeps the protocol if it keeps it for a.
LEMMA ProtocolLocal ==
  ASSUME VisitProtocol, NEW a \in Appointments, VisitLog(events'[a], appointment'[a].status),
         \A b \in Appointments \ {a} :
           appointment'[b].status = appointment[b].status /\ events'[b] = events[b]
  PROVE  VisitProtocol'
  BY DEF VisitProtocol

\* A worker event extends the log of a live row as the field protocol says, provided the
\* ticket is IN_PROGRESS exactly when work has started.
LEMMA LogGrows ==
  ASSUME NEW evt \in WorkerEventType, NEW log, LiveLog(log), SequenceAllows(evt, log),
         RequiredTicketStatus(evt) = "SCHEDULED" => LastEvent(log) # "STARTED",
         RequiredTicketStatus(evt) = "IN_PROGRESS" => LastEvent(log) = "STARTED"
  PROVE  VisitLog(Append(log, evt), AppointmentAfter(evt))
<1>1. CASE evt \in {"ACCEPTED", "DEPARTED", "ARRIVED"}
  <2>1. RequiredTicketStatus(evt) = "SCHEDULED" /\ AppointmentAfter(evt) = "BOOKED"
    BY <1>1 DEF RequiredTicketStatus, PreWorkEvent, AppointmentAfter
  <2>2. log \in Approach
    BY <2>1, NotStarted
  <2>3. Append(log, evt) \in Approach
    BY <1>1, <2>2, ApproachLogs, ApproachGrows DEF SequenceAllows
  <2>. QED  BY <2>1, <2>3 DEF VisitLog
<1>2. CASE evt = "REJECTED"
  <2>1. log = <<>> /\ AppointmentAfter(evt) = "CANCELLED"
    BY <1>2 DEF SequenceAllows, AppointmentAfter
  <2>. QED  BY <1>2, <2>1, ApproachGrows DEF VisitLog
<1>3. CASE evt \in {"STARTED", "NO_SHOW"}
  <2>1. RequiredTicketStatus(evt) = "SCHEDULED"
    BY <1>3 DEF RequiredTicketStatus, PreWorkEvent
  <2>2. log \in Approach
    BY <2>1, NotStarted
  <2>. QED  BY <1>3, <2>2 DEF VisitLog, AppointmentAfter
<1>4. CASE evt = "CANCELLED"
  <2>1. RequiredTicketStatus(evt) = "SCHEDULED" /\ AppointmentAfter(evt) = "CANCELLED"
    BY <1>4 DEF RequiredTicketStatus, PreWorkEvent, AppointmentAfter
  <2>2. log \in Approach
    BY <2>1, NotStarted
  <2>3. log # <<>>
    BY <1>4 DEF SequenceAllows, Recorded
  <2>. QED  BY <1>4, <2>1, <2>2, <2>3 DEF VisitLog
<1>5. CASE evt \in {"COMPLETED", "FAILED_TO_COMPLETE"}
  <2>1. RequiredTicketStatus(evt) = "IN_PROGRESS" /\ AppointmentAfter(evt) = "FULFILLED"
    BY <1>5 DEF RequiredTicketStatus, PreWorkEvent, AppointmentAfter
  <2>2. PICK w \in Approach : log = Append(w, "STARTED")
    BY <2>1, ApproachLogs DEF LiveLog
  <2>. QED  BY <1>5, <2>1, <2>2 DEF VisitLog
<1>. QED  BY <1>1, <1>2, <1>3, <1>4, <1>5 DEF WorkerEventType, PreWorkEvent, TerminalEvent

\* Every command keeps the field protocol.
LEMMA ProtocolStep ==
  ASSUME IInv, VisitProtocol, [Next]_vars
  PROVE  VisitProtocol'
<1>. USE DEF IInv
<1>0. UNCHANGED <<appointment, events>> => VisitProtocol'
  BY DEF VisitProtocol
<1>1. ASSUME NEW c \in creating, CreateTicket(c)
      PROVE  VisitProtocol'
  BY <1>0, <1>1 DEF CreateTicket
<1>2. ASSUME NEW t \in Tickets, NEW a \in Appointments, NEW w \in Workers, NEW s \in Slots,
             NEW actor \in ActorType, NEW at \in Times, BookAppointment(t, a, w, s, actor, at)
      PROVE  VisitProtocol'
  <2>1. /\ appointment'[a].status = "BOOKED" /\ events'[a] = <<>>
        /\ \A b \in Appointments \ {a} :
             appointment'[b].status = appointment[b].status /\ events'[b] = events[b]
    BY <1>2 DEF BookAppointment, NewAppointment, FreshLog, RowsOK
  <2>. QED  BY <2>1, ProtocolLocal, ApproachGrows DEF VisitLog
<1>3. ASSUME NEW t \in Tickets, NEW old \in Appointments, NEW a \in Appointments,
             NEW w \in Workers, NEW s \in Slots, NEW actor \in ActorType, NEW at \in Times,
             RescheduleAppointment(t, old, a, w, s, actor, at)
      PROVE  VisitProtocol'
  <2>a. Booked(old)
    BY <1>3 DEF RescheduleAppointment
  <2>b. a # old /\ latest[t] = old /\ ticket[t].status = "SCHEDULED"
    BY <1>3, RescheduleEffect
  <2>1. /\ a # old /\ Booked(old) /\ latest[t] = old /\ ticket[t].status = "SCHEDULED"
    BY <2>a, <2>b
  <2>2. StatusFits("SCHEDULED", Visit(t), VisitEvent(t))
    BY <2>1 DEF AggregateAgreement
  <2>3. events[old] \in Approach
    BY <2>1, <2>2, NoneAssumption, LiveRows, NotStarted DEF StatusFits, VisitEvent
  <2>4. /\ appointment'[old].status = "SUPERSEDED" /\ appointment'[a].status = "BOOKED"
        /\ events' = events /\ events[a] = <<>>
        /\ \A b \in Appointments \ {a, old} : appointment'[b].status = appointment[b].status
    <3>1. Ended(appointment[old], "SUPERSEDED").status = "SUPERSEDED"
      BY EndedType DEF RowsOK, AppointmentStatus, TerminalAppointmentStatus
    <3>. QED  BY <1>3, <2>1, <3>1 DEF RescheduleAppointment, NewAppointment, FreshLog, RowsOK
  <2>5. VisitLog(events'[old], appointment'[old].status)
        /\ VisitLog(events'[a], appointment'[a].status)
    BY <2>3, <2>4, ApproachGrows DEF VisitLog
  <2>. QED  BY <2>4, <2>5 DEF VisitProtocol
<1>4. ASSUME NEW t \in Tickets, NEW at \in Times, AcceptRepair(t, at)
      PROVE  VisitProtocol'
  <2>1. latest[t] \in Appointments /\ events' = events
    BY <1>4 DEF AcceptRepair, RowsOK
  <2>2. CASE Visit(t) = "BOOKED"
    <3>1. Booked(latest[t])
      BY <2>1, <2>2 DEF Visit, Booked
    <3>2. /\ appointment'[latest[t]].status = "FULFILLED"
          /\ \A b \in Appointments \ {latest[t]} : appointment'[b] = appointment[b]
      <4>1. Ended(appointment[latest[t]], "FULFILLED").status = "FULFILLED"
        BY <2>1, EndedType DEF RowsOK, AppointmentStatus, TerminalAppointmentStatus
      <4>. QED  BY <1>4, <2>1, <2>2, <4>1 DEF AcceptRepair, RowsOK
    <3>3. VisitLog(events[latest[t]], "FULFILLED")
      BY <2>1, <3>1, LiveRows DEF LiveLog, VisitLog
    <3>. QED  BY <2>1, <3>2, <3>3, ProtocolLocal
  <2>3. CASE Visit(t) # "BOOKED"
    BY <1>0, <1>4, <2>3 DEF AcceptRepair
  <2>. QED  BY <2>2, <2>3
<1>5. ASSUME NEW t \in Tickets, RejectRepair(t)
      PROVE  VisitProtocol'
  BY <1>0, <1>5 DEF RejectRepair
<1>6. ASSUME NEW t \in Tickets, NEW actor \in ActorType, EscalateTicket(t, actor)
      PROVE  VisitProtocol'
  BY <1>0, <1>6 DEF EscalateTicket
<1>7. ASSUME NEW t \in Tickets, NEW d \in RecoveryDisposition, NEW target \in TicketStatus,
             RecoverTicket(t, d, target)
      PROVE  VisitProtocol'
  BY <1>0, <1>7 DEF RecoverTicket
<1>8. ASSUME NEW a \in Appointments, NEW evt \in WorkerEventType,
             NEW d \in FailureDisposition, NEW actor \in ActorType,
             RecordWorkerEvent(a, evt, d, actor)
      PROVE  VisitProtocol'
  <2>. DEFINE t == appointment[a].ticket
  <2>1. /\ Booked(a) /\ t \in Tickets /\ Visit(t) = "BOOKED"
        /\ VisitEvent(t) = LastEvent(events[a])
    BY <1>8, BookedOwner DEF RecordWorkerEvent
  <2>2. ticket[t].status = RequiredTicketStatus(evt) /\ SequenceAllows(evt, events[a])
    BY <1>8 DEF RecordWorkerEvent
  <2>3. ticket[t].status # "ESCALATED" => StatusFits(ticket[t].status, Visit(t), VisitEvent(t))
    BY <2>1 DEF AggregateAgreement
  <2>4. /\ RequiredTicketStatus(evt) = "SCHEDULED" => LastEvent(events[a]) # "STARTED"
        /\ RequiredTicketStatus(evt) = "IN_PROGRESS" => LastEvent(events[a]) = "STARTED"
    BY <2>1, <2>2, <2>3 DEF StatusFits
  <2>5. VisitLog(Append(events[a], evt), AppointmentAfter(evt))
    BY <2>1, <2>2, <2>4, LiveRows, LogGrows
  <2>6. events'[a] = Append(events[a], evt) /\ appointment'[a].status = AppointmentAfter(evt)
    <3>1. AppointmentAfter(evt) \in AppointmentStatus
      BY DEF AppointmentAfter, AppointmentStatus, TerminalAppointmentStatus
    <3>2. Ended(appointment[a], AppointmentAfter(evt)).status = AppointmentAfter(evt)
      BY <3>1, EndedType DEF RowsOK
    <3>. QED  BY <1>8, <3>2 DEF RecordWorkerEvent, RowsOK, Booked
  <2>7. \A b \in Appointments \ {a} :
          appointment'[b].status = appointment[b].status /\ events'[b] = events[b]
    BY <1>8 DEF RecordWorkerEvent, RowsOK
  <2>. QED  BY <2>5, <2>6, <2>7, ProtocolLocal
<1>9. CASE UNCHANGED rows
  BY <1>0, <1>9 DEF rows
<1>. QED  BY <1>1, <1>2, <1>3, <1>4, <1>5, <1>6, <1>7, <1>8, <1>9
            DEF Next, TicketCommand, WorkerCommand, CheckDuplicate, vars, rows

\* A visit's worker events follow the field protocol, with work started at most once: no
\* rule of record_worker_event forbids a second STARTED, only the ticket's status does.
THEOREM VisitProtocolHolds == Spec => []VisitProtocol
<1>1. Init => VisitProtocol
  BY DEF Init, VisitProtocol, VisitLog, NoAppointment
<1>2. IInv /\ VisitProtocol /\ [Next]_vars => VisitProtocol'
  BY ProtocolStep
<1>. QED  BY <1>1, <1>2, Inductive, PTL DEF Spec

-----------------------------------------------------------------------------
(***************************************************************************)
(* RepairLifecycle implements RepairContract.                              *)
(***************************************************************************)
\* The stage of a ticket's current visit.
StageOf(t) == VisitStage(Visit(t), VisitEvent(t))

\* What the contract reads of a ticket.
LEMMA ReadsTicket ==
  ASSUME NEW t \in Tickets
  PROVE  /\ repair[t].status = ticket[t].status
         /\ repair[t].visit = StageOf(t)
         /\ \A statuses : Contract!InStatus(t, statuses) <=> ticket[t].status \in statuses
  BY DEF repair, StageOf, Contract!InStatus

\* A command that writes ticket t only is a move of the contract.
LEMMA MoveMaps ==
  ASSUME NEW t \in Tickets, OthersSame(t), NEW status, NEW stage,
         ticket'[t].status = status, StageOf(t)' = stage
  PROVE  Contract!Move(t, status, stage)
<1>1. repair' = [u \in Tickets |-> [status |-> ticket'[u].status, visit |-> StageOf(u)']]
  BY DEF repair, StageOf
<1>2. [repair EXCEPT ![t] = [status |-> status, visit |-> stage]]
        = [u \in Tickets |-> IF u = t THEN [status |-> status, visit |-> stage]
                             ELSE [status |-> ticket[u].status, visit |-> StageOf(u)]]
  BY DEF repair, StageOf
<1>3. \A u \in Tickets \ {t} : ticket'[u] = ticket[u] /\ StageOf(u)' = StageOf(u)
  BY DEF OthersSame, Same, StageOf
<1>. QED  BY <1>1, <1>2, <1>3 DEF Contract!Move

\* A command that changes no ticket's status and no visit's stage is a stutter.
LEMMA StutterMaps ==
  ASSUME \A t \in Tickets : ticket'[t].status = ticket[t].status /\ StageOf(t)' = StageOf(t)
  PROVE  UNCHANGED repair
  BY DEF repair, StageOf

-----------------------------------------------------------------------------
(***************************************************************************)
(* A live visit has no outcome yet.                                        *)
(***************************************************************************)
\* What the stage of a visit needs beyond IInv: no outcome is the last event of a live row.
NoOutcomeYet ==
  \A a \in Appointments : Booked(a) => LastEvent(events[a]) \notin TerminalEvent

\* Rows that stay live keep their log, and a new live row has an empty one.
LiveLogsKept ==
  \A a \in Appointments :
    Booked(a)' => \/ Booked(a) /\ events'[a] = events[a]
                  \/ events'[a] = <<>>

\* Keeping live logs, or starting them empty, keeps outcomes off live rows.
LEMMA LogsKept ==
  ASSUME NoOutcomeYet, LiveLogsKept
  PROVE  NoOutcomeYet'
  BY DEF NoOutcomeYet, LiveLogsKept, LastEvent, TerminalEvent

\* Only an event that leaves the appointment BOOKED is ever the last of a live row.
LEMMA OutcomeStep ==
  ASSUME IInv, NoOutcomeYet, [Next]_vars
  PROVE  NoOutcomeYet'
<1>. USE DEF IInv
<1>1. ASSUME NEW c \in creating, CreateTicket(c)
      PROVE  NoOutcomeYet'
  BY <1>1, LogsKept DEF CreateTicket, LiveLogsKept, Booked
<1>2. ASSUME NEW t \in Tickets, NEW a \in Appointments, NEW w \in Workers, NEW s \in Slots,
             NEW actor \in ActorType, NEW at \in Times, BookAppointment(t, a, w, s, actor, at)
      PROVE  NoOutcomeYet'
  BY <1>2, LogsKept DEF BookAppointment, LiveLogsKept, Booked, FreshLog, RowsOK
<1>3. ASSUME NEW t \in Tickets, NEW old \in Appointments, NEW a \in Appointments,
             NEW w \in Workers, NEW s \in Slots, NEW actor \in ActorType, NEW at \in Times,
             RescheduleAppointment(t, old, a, w, s, actor, at)
      PROVE  NoOutcomeYet'
  <2>1. Booked(old) /\ events' = events /\ events[a] = <<>>
    BY <1>3 DEF RescheduleAppointment, FreshLog
  <2>2. \A b \in Appointments \ {a, old} : appointment'[b] = appointment[b]
    BY <1>3 DEF RescheduleAppointment, RowsOK
  <2>. QED  BY <2>1, <2>2, LogsKept DEF LiveLogsKept, Booked
<1>4. ASSUME NEW t \in Tickets, NEW at \in Times, AcceptRepair(t, at)
      PROVE  NoOutcomeYet'
  <2>1. events' = events /\ latest[t] \in Appointments
    BY <1>4 DEF AcceptRepair, RowsOK
  <2>2. \/ appointment' = appointment
        \/ /\ Booked(latest[t])
           /\ \A b \in Appointments \ {latest[t]} : appointment'[b] = appointment[b]
    BY <1>4, <2>1 DEF AcceptRepair, Visit, Booked, RowsOK
  <2>. QED  BY <2>1, <2>2, LogsKept DEF LiveLogsKept, Booked
<1>5. ASSUME NEW t \in Tickets, RejectRepair(t)
      PROVE  NoOutcomeYet'
  BY <1>5, LogsKept DEF RejectRepair, LiveLogsKept, Booked
<1>6. ASSUME NEW t \in Tickets, NEW actor \in ActorType, EscalateTicket(t, actor)
      PROVE  NoOutcomeYet'
  BY <1>6, LogsKept DEF EscalateTicket, LiveLogsKept, Booked
<1>7. ASSUME NEW t \in Tickets, NEW d \in RecoveryDisposition, NEW target \in TicketStatus,
             RecoverTicket(t, d, target)
      PROVE  NoOutcomeYet'
  BY <1>7, LogsKept DEF RecoverTicket, LiveLogsKept, Booked
<1>8. ASSUME NEW a \in Appointments, NEW evt \in WorkerEventType,
             NEW d \in FailureDisposition, NEW actor \in ActorType,
             RecordWorkerEvent(a, evt, d, actor)
      PROVE  NoOutcomeYet'
  <2>1. \A b \in Appointments \ {a} : appointment'[b] = appointment[b] /\ events'[b] = events[b]
    BY <1>8 DEF RecordWorkerEvent, RowsOK
  <2>2. AppointmentAfter(evt) = "BOOKED" \/ evt \in TerminalEvent
    BY DEF AppointmentAfter, TerminalEvent, WorkerEventType, PreWorkEvent
  <2>3. AppointmentAfter(evt) \in AppointmentStatus
        /\ (evt \in TerminalEvent => AppointmentAfter(evt) # "BOOKED")
    BY DEF AppointmentAfter, AppointmentStatus, TerminalAppointmentStatus, TerminalEvent
  <2>4. evt \in TerminalEvent => appointment'[a].status # "BOOKED"
    <3>1. Ended(appointment[a], AppointmentAfter(evt)).status = AppointmentAfter(evt)
      BY <2>3, EndedType DEF RowsOK
    <3>. QED  BY <1>8, <2>3, <3>1 DEF RecordWorkerEvent, RowsOK
  <2>5. LastEvent(events'[a]) = evt
    <3>1. events[a] \in Seq(WorkerEventType) /\ events'[a] = Append(events[a], evt)
      BY <1>8 DEF RecordWorkerEvent, RowsOK
    <3>. QED  BY <3>1 DEF LastEvent
  <2>. QED  BY <2>1, <2>4, <2>5 DEF NoOutcomeYet, Booked
<1>9. CASE UNCHANGED rows
  BY <1>9, LogsKept DEF rows, LiveLogsKept, Booked
<1>. QED  BY <1>1, <1>2, <1>3, <1>4, <1>5, <1>6, <1>7, <1>8, <1>9
            DEF Next, TicketCommand, WorkerCommand, CheckDuplicate, vars, rows

\* A live visit never has an outcome as its last worker event.
THEOREM NoOutcomeYetHolds == Spec => []NoOutcomeYet
<1>1. Init => NoOutcomeYet
  BY DEF Init, NoOutcomeYet, Booked, NoAppointment
<1>2. IInv /\ NoOutcomeYet /\ [Next]_vars => NoOutcomeYet'
  BY OutcomeStep
<1>. QED  BY <1>1, <1>2, Inductive, PTL DEF Spec

-----------------------------------------------------------------------------
(***************************************************************************)
(* The simulation, one lemma per command.                                  *)
(***************************************************************************)
\* The stage of a visit supports every status its facts fit.
LEMMA FitsSupports ==
  ASSUME NEW status \in EscalatableStatus, NEW visit, NEW evt, StatusFits(status, visit, evt)
  PROVE  Contract!Supports(VisitStage(visit, evt), status)
  BY DEF StatusFits, Contract!Supports, VisitStage, EscalatableStatus

\* Creating a ticket opens it in the contract.
LEMMA CreateMaps ==
  ASSUME IInv, NEW c, Inserted(c)
  PROVE  c.ticket \in Tickets /\ Contract!Open(c.ticket)
<1>. DEFINE t == c.ticket
<1>1. /\ t \in Tickets /\ ticket[t].status = "ABSENT" /\ ticket'[t].status = "OPEN"
      /\ \A u \in Tickets \ {t} : ticket'[u] = ticket[u]
      /\ UNCHANGED <<appointment, events, latest>>
  BY DEF IInv, RowsOK, Inserted
<1>. HIDE DEF t
<1>2. OthersSame(t) /\ StageOf(t)' = StageOf(t)
  BY <1>1, VisitsSame DEF OthersSame, Same, StageOf
<1>3. StageOf(t) = "NONE"
  BY <1>1 DEF IInv, AggregateAgreement, StatusFits, StageOf, VisitStage
<1>. QED  BY <1>1, <1>2, <1>3, MoveMaps, ReadsTicket DEF Contract!Open, t

\* Booking a visit is Book: the old visit was over and the new one waits.
LEMMA BookMaps ==
  ASSUME IInv, NEW t \in Tickets, NEW a \in Appointments, NEW w \in Workers,
         NEW s \in Slots, NEW actor \in ActorType, NEW at \in Times,
         BookAppointment(t, a, w, s, actor, at)
  PROVE  Contract!Book(t)
<1>1. /\ ticket[t].status \in {"OPEN", "REWORK_REQUIRED"} /\ Visit(t) # "BOOKED"
      /\ Visit(t)' = "BOOKED" /\ VisitEvent(t)' = "NONE" /\ OthersSame(t)
  BY BookEffect DEF IInv
<1>2. ticket'[t].status = "SCHEDULED"
  BY BookWrites DEF IInv, Written
<1>3. StageOf(t) \notin Contract!Live /\ StageOf(t)' = "WAITING"
  BY <1>1 DEF StageOf, VisitStage, Contract!Live
<1>. QED  BY <1>1, <1>2, <1>3, MoveMaps, ReadsTicket DEF Contract!Book

\* Replacing a waiting visit by another is invisible to the contract.
LEMMA RescheduleMaps ==
  ASSUME IInv, NEW t \in Tickets, NEW old \in Appointments, NEW a \in Appointments,
         NEW w \in Workers, NEW s \in Slots, NEW actor \in ActorType, NEW at \in Times,
         RescheduleAppointment(t, old, a, w, s, actor, at)
  PROVE  UNCHANGED repair
<1>1. /\ ticket[t].status = "SCHEDULED"
      /\ Visit(t)' = "BOOKED" /\ VisitEvent(t)' = "NONE" /\ OthersSame(t)
  BY RescheduleEffect DEF IInv
<1>2. ticket'[t].status = "SCHEDULED"
  BY RescheduleWrites DEF IInv, Written
<1>3. StageOf(t)' = StageOf(t)
  BY <1>1 DEF IInv, AggregateAgreement, StatusFits, StageOf, VisitStage
<1>. QED  BY <1>1, <1>2, <1>3, StutterMaps DEF OthersSame, Same, StageOf

\* The resident's acceptance is Close, with the stage the visit had reached.
LEMMA AcceptMaps ==
  ASSUME IInv, NoOutcomeYet, NEW t \in Tickets, NEW at \in Times, AcceptRepair(t, at)
  PROVE  Contract!Close(t)
<1>1. /\ ticket[t].status \in {"SCHEDULED", "IN_PROGRESS", "PENDING_ACCEPTANCE"}
      /\ ReviewConsistent(t)
      /\ Visit(t)' = "FULFILLED" /\ VisitEvent(t)' = VisitEvent(t) /\ OthersSame(t)
  BY AcceptEffect DEF IInv
<1>2. ticket'[t].status = "CLOSED"
  BY AcceptWrites DEF IInv, Written
<1>3. CASE ticket[t].status = "PENDING_ACCEPTANCE"
  <2>1. StageOf(t)' = "COMPLETED"
    BY <1>1, <1>3 DEF ReviewConsistent, StageOf, VisitStage
  <2>. QED  BY <1>1, <1>2, <1>3, <2>1, MoveMaps, ReadsTicket DEF Contract!Close
<1>4. CASE ticket[t].status \in {"SCHEDULED", "IN_PROGRESS"}
  <2>1. Visit(t) = "BOOKED"
    BY <1>1, <1>4 DEF ReviewConsistent
  <2>2. VisitEvent(t) \notin TerminalEvent
    BY <2>1 DEF NoOutcomeYet, Booked, Visit, VisitEvent, IInv, RowsOK, AcceptRepair
  <2>3. StageOf(t)' = "CONFIRMED"
    BY <1>1, <2>2 DEF StageOf, VisitStage, TerminalEvent
  <2>. QED  BY <1>1, <1>2, <1>4, <2>3, MoveMaps, ReadsTicket DEF Contract!Close
<1>. QED  BY <1>1, <1>3, <1>4

\* The resident's rejection is Reject: the visit was completed.
LEMMA RejectMaps ==
  ASSUME IInv, NEW t \in Tickets, RejectRepair(t)
  PROVE  Contract!Reject(t)
<1>1. ticket[t].status = "PENDING_ACCEPTANCE" /\ UNCHANGED <<appointment, events, latest>>
  BY RejectRows DEF RejectRepair
<1>2. ticket'[t].status = "REWORK_REQUIRED" /\ OthersSame(t)
  <2>1. OthersSame(t)
    BY <1>1, RejectWrites, WrittenOthers DEF IInv
  <2>. QED  BY <2>1, RejectWrites DEF IInv, Written
<1>3. StageOf(t)' = "COMPLETED"
  BY <1>1, VisitsSame DEF IInv, AggregateAgreement, StatusFits, StageOf, VisitStage
<1>. QED  BY <1>1, <1>2, <1>3, MoveMaps, ReadsTicket DEF Contract!Reject

\* An escalation is Hold and leaves the visit as it is.
LEMMA EscalateMaps ==
  ASSUME IInv, NEW t \in Tickets, NEW actor \in ActorType, EscalateTicket(t, actor)
  PROVE  Contract!Hold(t)
<1>1. ticket[t].status \in EscalatableStatus
  BY EscalateWrites DEF IInv
<1>2. ticket'[t].status = "ESCALATED" /\ OthersSame(t)
  <2>1. OthersSame(t)
    BY EscalateWrites, WrittenOthers DEF IInv, EscalateTicket
  <2>. QED  BY <2>1, EscalateWrites DEF IInv, Written
<1>3. StageOf(t)' = StageOf(t)
  BY VisitsSame DEF EscalateTicket, StageOf
<1>. QED  BY <1>1, <1>2, <1>3, MoveMaps, ReadsTicket DEF Contract!Hold, EscalatableStatus

\* Every recovery is Release: its target is one the visit supports, or a cancellation
\* of a ticket whose visit is not live.
LEMMA RecoverMaps ==
  ASSUME IInv, NEW t \in Tickets, NEW d \in RecoveryDisposition, NEW target \in TicketStatus,
         RecoverTicket(t, d, target)
  PROVE  Contract!Release(t)
<1>1. ticket[t].status = "ESCALATED"
  BY DEF RecoverTicket, IInv, AggregateAgreement, EscalatableStatus
<1>2. ticket'[t].status = target /\ OthersSame(t)
  <2>1. OthersSame(t)
    BY RecoverWrites, WrittenOthers DEF IInv, RecoverTicket
  <2>. QED  BY <2>1, RecoverWrites DEF IInv, Written
<1>3. StageOf(t)' = StageOf(t)
  BY VisitsSame DEF RecoverTicket, StageOf
<1>4. /\ HoldFits(ticket[t].escalated_from, Visit(t), VisitEvent(t))
      /\ RecoverTo(d, ticket[t].escalated_from, Visit(t), VisitEvent(t), target)
  BY <1>1 DEF IInv, AggregateAgreement, RecoverTicket
<1>5. CASE target \in EscalatableStatus
  <2>1. StatusFits(target, Visit(t), VisitEvent(t))
    BY <1>4, <1>5 DEF HoldFits, RecoverTo, ResumeTo, CancellationSafe, StatusFits
  <2>2. Contract!Supports(StageOf(t), target)
    BY <1>5, <2>1, FitsSupports DEF StageOf
  <2>. QED  BY <1>1, <1>2, <1>3, <1>5, <2>2, MoveMaps, ReadsTicket
            DEF Contract!Release, EscalatableStatus
<1>6. CASE target \notin EscalatableStatus
  <2>1. target = "CANCELLED" /\ Visit(t) # "BOOKED"
    BY <1>4, <1>6 DEF RecoverTo, ResumeTo, CancellationSafe, EscalatableStatus
  <2>2. StageOf(t) \notin Contract!Live
    BY <2>1 DEF StageOf, VisitStage, Contract!Live
  <2>. QED  BY <1>1, <1>2, <1>3, <2>1, <2>2, MoveMaps, ReadsTicket DEF Contract!Release
<1>. QED  BY <1>5, <1>6

\* Every worker event is the contract step of its outcome, or progress it does not see.
LEMMA WorkerMaps ==
  ASSUME IInv, NEW a \in Appointments, NEW evt \in WorkerEventType,
         NEW d \in FailureDisposition, NEW actor \in ActorType,
         RecordWorkerEvent(a, evt, d, actor), NEW t \in Tickets, t = appointment[a].ticket
  PROVE  Contract!Step(t) \/ UNCHANGED repair
<1>1. /\ Visit(t) = "BOOKED"
      /\ Visit(t)' = AppointmentAfter(evt) /\ VisitEvent(t)' = evt /\ OthersSame(t)
  BY WorkerEffect DEF IInv
<1>2. ticket[t].status = RequiredTicketStatus(evt) /\ WorkerWritten(t, a, evt, d, actor)
  BY WorkerWrites DEF RecordWorkerEvent, IInv
<1>3. StageOf(t)' = VisitStage(AppointmentAfter(evt), evt)
  BY <1>1 DEF StageOf
<1>4. CASE evt \in {"ACCEPTED", "DEPARTED", "ARRIVED"}
  <2>1. ticket[t].status = "SCHEDULED" /\ ticket'[t] = ticket[t]
    BY <1>2, <1>4 DEF RequiredTicketStatus, PreWorkEvent, WorkerWritten
  <2>2. StageOf(t) = "WAITING"
    BY <2>1 DEF IInv, AggregateAgreement, StatusFits, StageOf, VisitStage
  <2>3. StageOf(t)' = "WAITING"
    BY <1>3, <1>4 DEF AppointmentAfter, VisitStage
  <2>4. \A u \in Tickets \ {t} : ticket'[u] = ticket[u] /\ StageOf(u)' = StageOf(u)
    BY <1>1 DEF OthersSame, Same, StageOf
  <2>. QED  BY <2>1, <2>2, <2>3, <2>4, StutterMaps
<1>5. CASE evt \notin {"ACCEPTED", "DEPARTED", "ARRIVED"}
  <2>1. ticket'[t].status = TicketAfter(evt, appointment[a].purpose, d, ticket[t].status)
    BY <1>2, <1>5 DEF WorkerWritten, Written
  <2>2. CASE evt = "STARTED"
    <3>1. /\ ticket[t].status = "SCHEDULED" /\ ticket'[t].status = "IN_PROGRESS"
          /\ StageOf(t)' = "STARTED"
      BY <1>2, <1>3, <2>1, <2>2
      DEF RequiredTicketStatus, TicketAfter, AppointmentAfter, VisitStage
    <3>. QED  BY <1>1, <3>1, MoveMaps, ReadsTicket DEF Contract!Step, Contract!Start
  <2>3. CASE evt \in {"REJECTED", "CANCELLED"}
    <3>1. /\ ticket[t].status = "SCHEDULED" /\ ticket'[t].status \in {"OPEN", "REWORK_REQUIRED"}
          /\ StageOf(t)' = "REFUSED"
      BY <1>2, <1>3, <2>1, <2>3
      DEF RequiredTicketStatus, PreWorkEvent, TicketAfter, AppointmentAfter, VisitStage
    <3>. QED  BY <1>1, <3>1, MoveMaps, ReadsTicket DEF Contract!Step, Contract!Refuse
  <2>4. CASE evt = "NO_SHOW"
    <3>1. /\ ticket[t].status = "SCHEDULED" /\ ticket'[t].status = "ESCALATED"
          /\ StageOf(t)' = "MISSED"
      BY <1>2, <1>3, <2>1, <2>4
      DEF RequiredTicketStatus, PreWorkEvent, TicketAfter, AppointmentAfter, VisitStage
    <3>. QED  BY <1>1, <3>1, MoveMaps, ReadsTicket DEF Contract!Step, Contract!Miss
  <2>5. CASE evt = "COMPLETED"
    <3>1. /\ ticket[t].status = "IN_PROGRESS" /\ ticket'[t].status = "PENDING_ACCEPTANCE"
          /\ StageOf(t)' = "COMPLETED"
      BY <1>2, <1>3, <2>1, <2>5
      DEF RequiredTicketStatus, PreWorkEvent, TicketAfter, AppointmentAfter, VisitStage
    <3>. QED  BY <1>1, <3>1, MoveMaps, ReadsTicket DEF Contract!Step, Contract!Complete
  <2>6. CASE evt = "FAILED_TO_COMPLETE"
    <3>1. /\ ticket[t].status = "IN_PROGRESS"
          /\ ticket'[t].status \in {"REWORK_REQUIRED", "ESCALATED"}
          /\ StageOf(t)' = "FAILED"
      BY <1>2, <1>3, <2>1, <2>6
      DEF RequiredTicketStatus, PreWorkEvent, TicketAfter, AppointmentAfter, VisitStage
    <3>. QED  BY <1>1, <3>1, MoveMaps, ReadsTicket DEF Contract!Step, Contract!Fail
  <2>. QED  BY <1>5, <2>2, <2>3, <2>4, <2>5, <2>6
            DEF WorkerEventType, PreWorkEvent, TerminalEvent
<1>. QED  BY <1>4, <1>5

-----------------------------------------------------------------------------
(***************************************************************************)
(* The refinement.                                                         *)
(***************************************************************************)
\* Both start without tickets.
LEMMA InitMaps == Init => Contract!Init
  BY DEF Init, Contract!Init, repair, NoTicket, Visit, VisitEvent, VisitStage

\* Every command is a step of the contract or changes nothing it speaks of.
LEMMA StepMaps ==
  ASSUME IInv, NoOutcomeYet, [Next]_vars
  PROVE  Contract!Next \/ UNCHANGED repair
<1>1. ASSUME NEW c \in creating, CreateTicket(c)
      PROVE  Contract!Next
  BY <1>1, Created, CreateMaps DEF IInv, Contract!Next, Contract!Step
<1>2. ASSUME NEW t \in Tickets, NEW a \in Appointments, NEW w \in Workers, NEW s \in Slots,
             NEW actor \in ActorType, NEW at \in Times, BookAppointment(t, a, w, s, actor, at)
      PROVE  Contract!Next
  BY <1>2, BookMaps DEF Contract!Next, Contract!Step
<1>3. ASSUME NEW t \in Tickets, NEW old \in Appointments, NEW a \in Appointments,
             NEW w \in Workers, NEW s \in Slots, NEW actor \in ActorType, NEW at \in Times,
             RescheduleAppointment(t, old, a, w, s, actor, at)
      PROVE  UNCHANGED repair
  BY <1>3, RescheduleMaps
<1>4. ASSUME NEW t \in Tickets, NEW at \in Times, AcceptRepair(t, at)
      PROVE  Contract!Next
  BY <1>4, AcceptMaps DEF Contract!Next, Contract!Step
<1>5. ASSUME NEW t \in Tickets, RejectRepair(t)
      PROVE  Contract!Next
  BY <1>5, RejectMaps DEF Contract!Next, Contract!Step
<1>6. ASSUME NEW t \in Tickets, NEW actor \in ActorType, EscalateTicket(t, actor)
      PROVE  Contract!Next
  BY <1>6, EscalateMaps DEF Contract!Next, Contract!Step
<1>7. ASSUME NEW t \in Tickets, NEW d \in RecoveryDisposition, NEW target \in TicketStatus,
             RecoverTicket(t, d, target)
      PROVE  Contract!Next
  BY <1>7, RecoverMaps DEF Contract!Next, Contract!Step
<1>8. ASSUME NEW a \in Appointments, NEW evt \in WorkerEventType,
             NEW d \in FailureDisposition, NEW actor \in ActorType,
             RecordWorkerEvent(a, evt, d, actor)
      PROVE  Contract!Next \/ UNCHANGED repair
  <2>1. appointment[a].ticket \in Tickets
    BY <1>8, BookedOwner DEF RecordWorkerEvent, IInv
  <2>. QED  BY <1>8, <2>1, WorkerMaps DEF Contract!Next
<1>9. CASE UNCHANGED rows
  BY <1>9, VisitsSame, StutterMaps DEF rows, StageOf
<1>. QED  BY <1>1, <1>2, <1>3, <1>4, <1>5, <1>6, <1>7, <1>8, <1>9
            DEF Next, TicketCommand, WorkerCommand, CheckDuplicate, vars, rows

\* RepairLifecycle implements RepairContract, for every number of tickets and visits.
THEOREM ImplementsContractHolds == Spec => ImplementsContract
<1>1. Init => Contract!Init
  BY InitMaps
<1>2. IInv /\ NoOutcomeYet /\ [Next]_vars => [Contract!Next]_repair
  BY StepMaps
<1>. QED  BY <1>1, <1>2, Inductive, NoOutcomeYetHolds, PTL
          DEF Spec, ImplementsContract, Contract!Spec
=============================================================================
