-------------------------- MODULE RepairLifecycle --------------------------
(***************************************************************************)
(* The repair aggregate of backend/app/application: tickets, their formal  *)
(* appointments and the worker events recorded on an appointment.  One     *)
(* action stands for one committed command of the FixFlow application      *)
(* services, the whole transaction at once: the rows it rewrites, the      *)
(* history row it appends and the outbox events it adds.  A command the    *)
(* code rejects rolls back everything and is a stuttering step here.       *)
(* Creation alone takes two steps: no lock or unique index ties the search *)
(* for an open match to the insertion, so creations may overtake another.  *)
(* Actors are represented by their type: the resident is the ticket's      *)
(* owner, the worker the appointment's worker.                             *)
(***************************************************************************)
EXTENDS RepairDomain

CONSTANTS
  Tickets,       \* ticket identities the id factory may hand out
  Appointments,  \* appointment identities
  Workers,
  Slots,         \* half-open visit intervals, records with fields from and to
  Times,         \* values of a command's occurred_at
  Eligible,      \* worker-slot pairs the static eligibility query accepts
  Subjects,      \* what an issue is about: resident, property, category and location
  MaxVersion,    \* bound on a ticket's version
  None

ASSUME NoneAssumption ==
  None \notin Tickets \cup Appointments \cup Workers \cup Slots \cup Subjects
ASSUME SlotAssumption == \A s \in Slots : s.from \in Nat /\ s.to \in Nat /\ s.from < s.to
ASSUME BoundAssumption == MaxVersion \in Nat /\ Times \subseteq Nat

VARIABLES
  ticket,       \* repair_tickets
  appointment,  \* appointments
  events,       \* worker_events of an appointment, in sequence_no order
  latest,       \* the most recently created appointment of a ticket
  journal,      \* newest ticket_status_history row and the outbox events added with it
  creating      \* creations that have looked for an open match and not inserted yet

rows == <<ticket, appointment, events, latest, journal>>
vars == <<ticket, appointment, events, latest, journal, creating>>

OutboxEventType ==
  {"ticket.created", "ticket.status_changed", "appointment.booked",
   "appointment.rescheduled", "ticket.escalated"}

\* The outbox events one command adds.
StatusChanged == {"ticket.status_changed"}
StatusChangedAnd(evt) == {"ticket.status_changed", evt}
Just(evt) == {evt}

RecoveryLabel(disposition) ==
  CASE disposition = "RESUME" -> "RECOVER_RESUME"
    [] disposition = "APPROVE_REWORK" -> "RECOVER_APPROVE_REWORK"
    [] OTHER -> "RECOVER_CANCEL"

\* What the action column of a history row may hold.
HistoryAction ==
  TicketAction \cup {"NONE", "CREATE", "RECOVER_RESUME", "RECOVER_APPROVE_REWORK", "RECOVER_CANCEL"}

Overlaps(s, r) == s.from < r.to /\ r.from < s.to
Booked(a) == appointment[a].status = "BOOKED"

\* The latest appointment as _recover_ticket, _review_repair and _book_appointment read it.
Visit(t) == IF latest[t] = None THEN "ABSENT" ELSE appointment[latest[t]].status
VisitEvent(t) == IF latest[t] = None THEN "NONE" ELSE LastEvent(events[latest[t]])

-----------------------------------------------------------------------------
NoTicket ==
  [status |-> "ABSENT", escalated_from |-> "NONE", rework_count |-> 0, version |-> 0,
   subject |-> None]
NoAppointment ==
  [ticket |-> None, worker |-> None, slot |-> None, purpose |-> "INITIAL_REPAIR",
   status |-> "ABSENT", version |-> 0, supersedes |-> None]
NoJournal ==
  [from |-> "ABSENT", to |-> "ABSENT", action |-> "NONE", actor |-> "SYSTEM",
   version |-> 0, emitted |-> {}]

Init ==
  /\ ticket = [t \in Tickets |-> NoTicket]
  /\ appointment = [a \in Appointments |-> NoAppointment]
  /\ events = [a \in Appointments |-> <<>>]
  /\ latest = [t \in Tickets |-> None]
  /\ journal = [t \in Tickets |-> NoJournal]
  /\ creating = {}

-----------------------------------------------------------------------------
(***************************************************************************)
(* The writes every command is put together from.                          *)
(***************************************************************************)
\* Fault: only a status change moves the version, so rescheduling does not.
NextVersionIfMoved(t, to) ==
  ticket[t].version + (IF ticket[t].status = to THEN 0 ELSE 1)

\* Every update of a ticket row moves its version by one.
NextVersion(t, to) == ticket[t].version + 1

AppendJournal(t, to, version, action, actor, emitted) ==
  journal' = [journal EXCEPT ![t] =
    [from |-> ticket[t].status, to |-> to, action |-> action, actor |-> actor,
     version |-> version, emitted |-> emitted]]

\* tickets.update and its history row: the status an
\* escalation came from is kept exactly while the ticket is escalated.
UpdateTicket(t, to, rework_count, action, actor, emitted) ==
  /\ ticket[t].version < MaxVersion
  /\ ticket' = [ticket EXCEPT
       ![t].status = to,
       ![t].escalated_from = IF to = "ESCALATED" THEN ticket[t].status ELSE "NONE",
       ![t].rework_count = rework_count,
       ![t].version = NextVersion(t, to)]
  /\ AppendJournal(t, to, NextVersion(t, to), action, actor, emitted)

NewAppointment(t, w, s, purpose, old) ==
  [ticket |-> t, worker |-> w, slot |-> s, purpose |-> purpose, status |-> "BOOKED",
   version |-> 1, supersedes |-> old]

Ended(row, status) == [row EXCEPT !.status = status, !.version = @ + 1]

\* uq_appointments_ticket_booked and ex_appointments_worker_booked_overlap, for a row
\* about to be inserted once `gone` is no longer BOOKED.
Insertable(t, w, s, gone) ==
  \A b \in Appointments \ {gone} :
    Booked(b) => /\ appointment[b].ticket # t
                 /\ appointment[b].worker = w => ~Overlaps(appointment[b].slot, s)

MayVisit(w, s, at) == at <= s.from /\ <<w, s>> \in Eligible

-----------------------------------------------------------------------------
\* Fault: a ticket on hold or awaiting acceptance or rework does not count as open.
HasMatchInProgress(subject) ==
  \E u \in Tickets : /\ ticket[u].subject = subject
                     /\ ticket[u].status \in {"OPEN", "SCHEDULED", "IN_PROGRESS"}

HasExactOpenMatch(subject) ==
  \E u \in Tickets : /\ ticket[u].subject = subject
                     /\ ticket[u].status \notin TerminalTicketStatus

\* _create_ticket up to the plan: `deliberate` is an operator's allow_duplicate, and `seen`
\* holds the tickets the search for an open match could read.
Creation ==
  [ticket : Tickets, subject : Subjects, actor : ResidentOperator, deliberate : BOOLEAN,
   seen : SUBSET Tickets]

CheckDuplicate(t, subject, actor, allow_duplicate) ==
  LET deliberate == allow_duplicate /\ actor = "OPERATOR"
      stored == {u \in Tickets : ticket[u].status # "ABSENT"}
  IN
  /\ t \notin stored \cup {c.ticket : c \in creating}
  /\ HasExactOpenMatch(subject) => deliberate
  /\ creating' = creating \cup {[ticket |-> t, subject |-> subject, actor |-> actor,
                               deliberate |-> deliberate, seen |-> stored]}
  /\ UNCHANGED rows

\* The rest of _create_ticket and the commit.
CreateTicket(c) ==
  /\ MaxVersion >= 1
  /\ creating' = creating \ {c}
  /\ ticket' = [ticket EXCEPT ![c.ticket] =
       [status |-> "OPEN", escalated_from |-> "NONE", rework_count |-> 0, version |-> 1,
        subject |-> c.subject]]
  /\ AppendJournal(c.ticket, "OPEN", 1, "CREATE", c.actor, Just("ticket.created"))
  /\ UNCHANGED <<appointment, events, latest>>

BookAppointment(t, a, w, s, actor, at) ==
  LET purpose == BookingPurpose(ticket[t].status) IN
  /\ ticket[t].status \in {"OPEN", "REWORK_REQUIRED"}
  /\ actor \in ResidentOperator
  /\ MayVisit(w, s, at)
  /\ purpose = "REWORK" =>
       /\ latest[t] # None
       /\ ticket[t].rework_count >= 1
       /\ Visit(t) \in TerminalAppointmentStatus
  /\ appointment[a].status = "ABSENT"
  /\ Insertable(t, w, s, None)
  /\ UpdateTicket(t, "SCHEDULED", ticket[t].rework_count, "BOOK_APPOINTMENT", actor,
                  StatusChangedAnd("appointment.booked"))
  /\ appointment' = [appointment EXCEPT ![a] = NewAppointment(t, w, s, purpose, None)]
  /\ latest' = [latest EXCEPT ![t] = a]
  /\ UNCHANGED events

\* Supersedes any BOOKED appointment of the ticket; the old row is released before the
\* replacement is inserted, so the replacement may keep its worker and interval.
RescheduleAppointment(t, old, a, w, s, actor, at) ==
  /\ Permitted(ticket[t].status, "RESCHEDULE", "SCHEDULED", actor)
  /\ appointment[old].ticket = t /\ Booked(old)
  /\ MayVisit(w, s, at)
  /\ appointment[a].status = "ABSENT"
  /\ Insertable(t, w, s, old)
  /\ UpdateTicket(t, "SCHEDULED", ticket[t].rework_count, "RESCHEDULE", actor,
                  Just("appointment.rescheduled"))
  /\ appointment' = [appointment EXCEPT
       ![old] = Ended(@, "SUPERSEDED"),
       ![a] = NewAppointment(t, w, s, appointment[old].purpose, old)]
  /\ latest' = [latest EXCEPT ![t] = a]
  /\ UNCHANGED events

\* ensure_aggregate_consistency on the latest appointment alone.
ReviewConsistent(t) ==
  /\ ticket[t].status = "SCHEDULED" => Visit(t) = "BOOKED"
  /\ ticket[t].status = "IN_PROGRESS" => Visit(t) = "BOOKED" /\ VisitEvent(t) = "STARTED"
  /\ ticket[t].status = "PENDING_ACCEPTANCE" =>
       Visit(t) = "FULFILLED" /\ VisitEvent(t) = "COMPLETED"

AcceptRepair(t, at) ==
  /\ latest[t] # None
  /\ ReviewConsistent(t)
  /\ Permitted(ticket[t].status, "RESIDENT_ACCEPT", "CLOSED", "RESIDENT")
  /\ ticket[t].status = "SCHEDULED" => at >= appointment[latest[t]].slot.from
  /\ UpdateTicket(t, "CLOSED", ticket[t].rework_count, "RESIDENT_ACCEPT", "RESIDENT",
                  StatusChanged)
  /\ appointment' = IF Visit(t) = "BOOKED"
                    THEN [appointment EXCEPT ![latest[t]] = Ended(@, "FULFILLED")]
                    ELSE appointment
  /\ UNCHANGED <<events, latest>>

RejectRepair(t) ==
  /\ latest[t] # None
  /\ ReviewConsistent(t)
  /\ Permitted(ticket[t].status, "RESIDENT_REJECT", "REWORK_REQUIRED", "RESIDENT")
  /\ UpdateTicket(t, "REWORK_REQUIRED", ticket[t].rework_count + 1, "RESIDENT_REJECT",
                  "RESIDENT", StatusChanged)
  /\ UNCHANGED <<appointment, events, latest>>

EscalateTicket(t, actor) ==
  /\ Permitted(ticket[t].status, "ESCALATE", "ESCALATED", actor)
  /\ UpdateTicket(t, "ESCALATED", ticket[t].rework_count, "ESCALATE", actor,
                  StatusChangedAnd("ticket.escalated"))
  /\ UNCHANGED <<appointment, events, latest>>

RecoverTicket(t, disposition, target) ==
  /\ ticket[t].escalated_from \in EscalatableStatus
  /\ RecoverTo(disposition, ticket[t].escalated_from, Visit(t), VisitEvent(t), target)
  /\ UpdateTicket(t, target,
       ticket[t].rework_count + (IF disposition = "APPROVE_REWORK" THEN 1 ELSE 0),
       RecoveryLabel(disposition), "OPERATOR", StatusChanged)
  /\ UNCHANGED <<appointment, events, latest>>

\* record_worker_event: ACCEPTED, DEPARTED and ARRIVED append an event and touch neither
\* the ticket nor the appointment row.
RecordWorkerEvent(a, evt, disposition, actor) ==
  LET t == appointment[a].ticket
      purpose == appointment[a].purpose
      to == TicketAfter(evt, purpose, disposition, ticket[t].status)
      after == AppointmentAfter(evt)
      rework == IF evt = "FAILED_TO_COMPLETE" /\ disposition = "REWORK" THEN 1 ELSE 0
  IN
  /\ Booked(a)
  /\ ticket[t].status = RequiredTicketStatus(evt)
  /\ actor \in EventActors(evt)
  /\ SequenceAllows(evt, events[a])
  /\ evt \in {"REJECTED", "CANCELLED"} => PurposeAgrees(purpose, ticket[t].rework_count)
  /\ IF to = ticket[t].status
     THEN UNCHANGED <<ticket, journal>>
     ELSE UpdateTicket(t, to, ticket[t].rework_count + rework,
                       WorkerTicketAction(evt, purpose, disposition), actor,
                       StatusChanged)
  /\ appointment' = IF after = "BOOKED"
                    THEN appointment
                    ELSE [appointment EXCEPT ![a] = Ended(@, after)]
  /\ events' = [events EXCEPT ![a] = Append(@, evt)]
  /\ UNCHANGED latest

-----------------------------------------------------------------------------
TicketCommand(t) ==
  \/ \E a \in Appointments, w \in Workers, s \in Slots, actor \in ActorType, at \in Times :
       BookAppointment(t, a, w, s, actor, at)
  \/ \E old, a \in Appointments, w \in Workers, s \in Slots, actor \in ActorType, at \in Times :
       RescheduleAppointment(t, old, a, w, s, actor, at)
  \/ \E at \in Times : AcceptRepair(t, at)
  \/ RejectRepair(t)
  \/ \E actor \in ActorType : EscalateTicket(t, actor)
  \/ \E disposition \in RecoveryDisposition, target \in TicketStatus :
       RecoverTicket(t, disposition, target)

WorkerCommand(a) ==
  \E evt \in WorkerEventType, disposition \in FailureDisposition, actor \in ActorType :
    RecordWorkerEvent(a, evt, disposition, actor)

Next ==
  \/ \E t \in Tickets, subject \in Subjects, actor \in ResidentOperator, allow \in BOOLEAN :
       CheckDuplicate(t, subject, actor, allow)
  \/ \E c \in creating : CreateTicket(c)
  \/ \E t \in Tickets : TicketCommand(t) /\ UNCHANGED creating
  \/ \E a \in Appointments : WorkerCommand(a) /\ UNCHANGED creating

Spec == Init /\ [][Next]_vars

-----------------------------------------------------------------------------
(***************************************************************************)
(* Types.                                                                  *)
(***************************************************************************)
TicketRow ==
  [status : TicketStatus \cup {"ABSENT"}, escalated_from : EscalatableStatus \cup {"NONE"},
   rework_count : Nat, version : 0..MaxVersion, subject : Subjects \cup {None}]
AppointmentRow ==
  [ticket : Tickets \cup {None}, worker : Workers \cup {None}, slot : Slots \cup {None},
   purpose : AppointmentPurpose, status : AppointmentStatus \cup {"ABSENT"}, version : Nat,
   supersedes : Appointments \cup {None}]
JournalRow ==
  [from : TicketStatus \cup {"ABSENT"}, to : TicketStatus \cup {"ABSENT"},
   action : HistoryAction, actor : ActorType, version : 0..MaxVersion, emitted : SUBSET OutboxEventType]

RowsOK ==
  /\ ticket \in [Tickets -> TicketRow]
  /\ appointment \in [Appointments -> AppointmentRow]
  /\ events \in [Appointments -> Seq(WorkerEventType)]
  /\ latest \in [Tickets -> Appointments \cup {None}]
  /\ journal \in [Tickets -> JournalRow]

\* Every row has the columns and the enumerated values of the schema.
TypeOK == RowsOK /\ creating \in SUBSET Creation

-----------------------------------------------------------------------------
(***************************************************************************)
(* Safety.                                                                 *)
(***************************************************************************)
\* A stored appointment belongs to a created ticket, and the only row of a ticket that
\* may be BOOKED is the one latest_for_ticket returns: review, recovery and rework
\* booking look at that row alone and never search for another live visit.
OnlyLatestBooked ==
  /\ \A a \in Appointments :
       appointment[a].status # "ABSENT" =>
         /\ appointment[a].ticket \in Tickets
         /\ ticket[appointment[a].ticket].status # "ABSENT"
         /\ Booked(a) => latest[appointment[a].ticket] = a
  /\ \A t \in Tickets :
       latest[t] # None => /\ appointment[latest[t]].ticket = t
                           /\ appointment[latest[t]].status # "ABSENT"

\* The visit facts that go with a ticket status while automation may act on it.
StatusFits(status, visit, evt) ==
  CASE status = "OPEN" -> visit \in {"ABSENT", "CANCELLED", "NO_SHOW"}
    [] status = "SCHEDULED" -> visit = "BOOKED" /\ evt # "STARTED"
    [] status = "IN_PROGRESS" -> visit = "BOOKED" /\ evt = "STARTED"
    [] status = "PENDING_ACCEPTANCE" -> visit = "FULFILLED" /\ evt = "COMPLETED"
    [] status = "CLOSED" -> visit = "FULFILLED"
    [] status = "CANCELLED" -> visit # "BOOKED"
    [] status = "REWORK_REQUIRED" -> TRUE
    [] OTHER -> visit = "ABSENT"

\* A hold keeps the facts it interrupted, or it is the outcome of a missed or failed visit.
HoldFits(prior, visit, evt) ==
  \/ StatusFits(prior, visit, evt)
  \/ prior = "SCHEDULED" /\ visit = "NO_SHOW"
  \/ prior = "IN_PROGRESS" /\ visit = "FULFILLED" /\ evt = "FAILED_TO_COMPLETE"

\* The ticket, its latest appointment row and the last worker event on it never disagree,
\* whatever mix of bookings, events, escalations and recoveries led here; a ticket
\* carries the status it was escalated from exactly while it is ESCALATED.
AggregateAgreement ==
  \A t \in Tickets :
    IF ticket[t].status = "ESCALATED"
    THEN /\ ticket[t].escalated_from \in EscalatableStatus
         /\ HoldFits(ticket[t].escalated_from, Visit(t), VisitEvent(t))
    ELSE /\ ticket[t].escalated_from = "NONE"
         /\ StatusFits(ticket[t].status, Visit(t), VisitEvent(t))

\* The ways a worker may approach a visit before work starts.
Approach == {<<>>, <<"ACCEPTED">>, <<"ACCEPTED", "DEPARTED">>,
             <<"ACCEPTED", "DEPARTED", "ARRIVED">>}

\* The event logs an appointment row of a given status may have.
VisitLog(log, status) ==
  \/ log = <<>> /\ status = "ABSENT"
  \/ log \in Approach /\ status \in {"BOOKED", "SUPERSEDED", "FULFILLED"}
  \/ \E w \in Approach :
       \/ log = Append(w, "STARTED") /\ status \in {"BOOKED", "FULFILLED"}
       \/ log = Append(w, "NO_SHOW") /\ status = "NO_SHOW"
       \/ \E evt \in {"COMPLETED", "FAILED_TO_COMPLETE"} :
            log = Append(Append(w, "STARTED"), evt) /\ status = "FULFILLED"
       \/ w # <<>> /\ log = Append(w, "CANCELLED") /\ status = "CANCELLED"
  \/ log = <<"REJECTED">> /\ status = "CANCELLED"

\* One visit's worker events follow the field protocol: the approach in order, work started
\* at most once and never after being superseded, at most one outcome, which is the last
\* event and agrees with the row.  No event rule forbids a second STARTED; only the
\* ticket status does, so recovery must never make a started visit SCHEDULED again.
VisitProtocol == \A a \in Appointments : VisitLog(events[a], appointment[a].status)

\* Rework is always accounted for: a ticket waits for rework, and a visit is booked as
\* rework, only after at least one rework was counted on the ticket.
ReworkCounted ==
  /\ \A t \in Tickets : ticket[t].status = "REWORK_REQUIRED" => ticket[t].rework_count >= 1
  /\ \A a \in Appointments :
       appointment[a].status # "ABSENT" /\ appointment[a].purpose = "REWORK" =>
         ticket[appointment[a].ticket].rework_count >= 1

\* What a history row may say: a creation, a recovery or a row of the transition table.
RowLegal(row, rework_count) ==
  \/ row.action = "CREATE" /\ row.from = "ABSENT" /\ row.to = "OPEN"
  \/ /\ row.from = "ESCALATED" /\ row.actor = "OPERATOR"
     /\ \E d \in RecoveryDisposition : row.action = RecoveryLabel(d)
     /\ row.to \notin {"ESCALATED", "CLOSED"}
  \/ /\ Permitted(row.from, row.action, row.to, row.actor)
     /\ LabelAgrees(row.action, rework_count)

\* Worker events and recoveries never consult the transition table, yet the newest history
\* row of every ticket is one the table (or a recovery disposition) allows, carries the
\* ticket's status and version, and was published as ticket.status_changed exactly when
\* the status changed.
HistoryMatches ==
  \A t \in Tickets : ticket[t].status # "ABSENT" =>
    LET row == journal[t] IN
    /\ row.to = ticket[t].status
    /\ row.version = ticket[t].version
    /\ RowLegal(row, ticket[t].rework_count)
    /\ "ticket.status_changed" \in row.emitted <=> row.from \notin {"ABSENT", row.to}

\* A superseded row has exactly one replacement, for the same ticket and purpose, and the
\* links never loop back: following them ends at a row that was booked afresh.
SupersessionLinked ==
  /\ \A a \in Appointments :
       appointment[a].status = "SUPERSEDED" =>
         \E b \in Appointments :
           /\ {c \in Appointments : appointment[c].supersedes = a} = {b}
           /\ appointment[b].ticket = appointment[a].ticket
           /\ appointment[b].purpose = appointment[a].purpose
  /\ \A S \in SUBSET Appointments :
       S # {} => \E a \in S : appointment[a].supersedes \notin S

-----------------------------------------------------------------------------
(***************************************************************************)
(* What a step may never do.                                               *)
(***************************************************************************)
\* A command that leaves a settled ticket and its history, or a finished visit and its
\* event log, as they are.
SettledTicketsKept ==
  \A t \in Tickets :
    ticket[t].status \in TerminalTicketStatus =>
      ticket'[t] = ticket[t] /\ latest'[t] = latest[t] /\ journal'[t] = journal[t]
FinishedVisitsKept ==
  \A a \in Appointments :
    appointment[a].status \in TerminalAppointmentStatus =>
      appointment'[a] = appointment[a] /\ events'[a] = events[a]

\* CLOSED and CANCELLED tickets and terminal appointment rows, with their event logs,
\* are immutable: no late worker event, booking, escalation or recovery reaches them.
TerminalFrozen == [][SettledTicketsKept /\ FinishedVisitsKept]_vars

\* A command that moves the version of the ticket by one whenever one of its visits changes.
VisitChangeCounted ==
  \A a \in Appointments :
    LET t == appointment'[a].ticket IN
    \/ appointment'[a].status # appointment[a].status
    \/ Recorded("STARTED", events'[a]) /\ ~Recorded("STARTED", events[a])
    => ticket'[t].version = ticket[t].version + 1

\* Whenever a visit starts, ends, is booked or is replaced, its ticket's version moves by
\* exactly one.  The commands read appointment rows without locking them and rely on the
\* ticket's version to notice that the visit they looked at has changed.
VersionCoversVisit == [][VisitChangeCounted]_vars

\* Two open tickets about the same subject.
OpenTwins(t, u) ==
  /\ ticket[t].subject = ticket[u].subject
  /\ {ticket[t].status, ticket[u].status} \cap (TerminalTicketStatus \cup {"ABSENT"}) = {}

\* A step after which two tickets are newly open twins, if any, ends a creation of one of
\* them that was deliberate or could not read the other.
TwinsExcused ==
  \A t, u \in Tickets :
    t # u /\ OpenTwins(t, u)' /\ ~OpenTwins(t, u) =>
      \E c \in creating \ creating' :
        c.ticket \in {t, u} /\ (c.deliberate \/ {t, u} \cap c.seen = {})

\* Two open tickets about the same thing only ever come from an operator who creates the
\* second one on purpose, or from a creation that looked for a match before the other was
\* stored.  Whatever happens to the tickets a creation has read while it is on its way, and
\* whatever is recovered, rejected or reworked, no other pair opens.
DuplicateExcused == [][TwinsExcused]_vars

-----------------------------------------------------------------------------
(***************************************************************************)
(* The aggregate implements the contract of RepairContract.                *)
(***************************************************************************)
VisitStage(visit, evt) ==
  CASE visit = "BOOKED" -> IF evt = "STARTED" THEN "STARTED" ELSE "WAITING"
    [] visit = "FULFILLED" -> IF evt = "COMPLETED" THEN "COMPLETED"
                              ELSE IF evt = "FAILED_TO_COMPLETE" THEN "FAILED"
                              ELSE "CONFIRMED"
    [] visit = "NO_SHOW" -> "MISSED"
    [] visit = "CANCELLED" -> "REFUSED"
    [] OTHER -> "NONE"

\* The contract's view of the rows.
repair == [t \in Tickets |-> [status |-> ticket[t].status,
                              visit |-> VisitStage(Visit(t), VisitEvent(t))]]

Contract == INSTANCE RepairContract WITH repair <- repair

\* Every command is one step of the contract, or changes nothing the contract speaks of:
\* whatever an operator's recovery does, the ticket leaves ESCALATED only into a status
\* that the stage of its visit supports.
ImplementsContract == Contract!Spec

-----------------------------------------------------------------------------
(***************************************************************************)
(* Two statements of the repository that do not hold of the code.          *)
(***************************************************************************)
\* ensure_aggregate_consistency: a ticket in one of these statuses with an active booking
\* is a conflict.  docs/STATE_MACHINE.md, business invariant 17, says the same.
NoBookingOutsideVisit ==
  \A t \in Tickets :
    ticket[t].status \in TerminalTicketStatus \cup {"OPEN", "REWORK_REQUIRED"} =>
      ~\E a \in Appointments : appointment[a].ticket = t /\ Booked(a)

\* docs/STATE_MACHINE.md, business invariant 23: "Appointment purpose and rework_count must
\* agree", of a visit that was just booked.
FreshBookingAgrees ==
  \A t \in Tickets :
    journal[t].action = "BOOK_APPOINTMENT" /\ ticket[t].status = "SCHEDULED" =>
      PurposeAgrees(appointment[latest[t]].purpose, ticket[t].rework_count)
=============================================================================
