---------------------------- MODULE RepairDomain ----------------------------
(***************************************************************************)
(* The pure decision rules of the repair domain (backend/app/domain): the  *)
(* frozen ticket transition table, escalation recovery, the worker-event   *)
(* rules and the purpose an appointment is booked for.  Nothing here has   *)
(* state; RepairLifecycle applies these rules to stored rows.              *)
(*                                                                         *)
(* A definition whose comment starts with "Fault:" is a plausible slip in  *)
(* the rule that follows it.  No specification uses one; each shows that a *)
(* property notices the slip.                                              *)
(***************************************************************************)
EXTENDS Naturals, Sequences

ActorType == {"RESIDENT", "OPERATOR", "WORKER", "SYSTEM"}

EscalatableStatus ==
  {"OPEN", "SCHEDULED", "IN_PROGRESS", "PENDING_ACCEPTANCE", "REWORK_REQUIRED"}
TerminalTicketStatus == {"CANCELLED", "CLOSED"}
TicketStatus == EscalatableStatus \cup TerminalTicketStatus \cup {"ESCALATED"}

TerminalAppointmentStatus == {"FULFILLED", "SUPERSEDED", "CANCELLED", "NO_SHOW"}
AppointmentStatus == TerminalAppointmentStatus \cup {"BOOKED"}
AppointmentPurpose == {"INITIAL_REPAIR", "REWORK"}

PreWorkEvent ==
  {"ACCEPTED", "REJECTED", "DEPARTED", "ARRIVED", "CANCELLED", "NO_SHOW"}
TerminalEvent ==
  {"REJECTED", "COMPLETED", "FAILED_TO_COMPLETE", "CANCELLED", "NO_SHOW"}
WorkerEventType == PreWorkEvent \cup TerminalEvent \cup {"STARTED"}

TicketAction ==
  {"BOOK_APPOINTMENT", "START_WORK", "RESCHEDULE", "WORKER_REJECTED_INITIAL",
   "WORKER_REJECTED_REWORK", "WORKER_CANCELLED_INITIAL", "WORKER_CANCELLED_REWORK",
   "RESIDENT_CANCELLED_APPOINTMENT_INITIAL", "RESIDENT_CANCELLED_APPOINTMENT_REWORK",
   "REVIEWED_NO_SHOW", "COMPLETE_WORK", "FAIL_WORK_REWORK", "FAIL_WORK_ESCALATE",
   "RESIDENT_ACCEPT", "RESIDENT_REJECT", "CANCEL_TICKET", "ESCALATE"}

\* Every failure reason is routed to one of these two dispositions.
FailureDisposition == {"REWORK", "ESCALATE"}
RecoveryDisposition == {"RESUME", "APPROVE_REWORK", "CANCEL"}

-----------------------------------------------------------------------------
(***************************************************************************)
(* The transition table, one row per status, action and permitted actor.   *)
(***************************************************************************)
Rows(from, action, to, actors) ==
  {[from |-> from, action |-> action, to |-> to, actor |-> x] : x \in actors}

ResidentOperator == {"RESIDENT", "OPERATOR"}
WorkerOperator == {"WORKER", "OPERATOR"}
SystemOperator == {"SYSTEM", "OPERATOR"}

TicketTransitions ==
  Rows("OPEN", "BOOK_APPOINTMENT", "SCHEDULED", ResidentOperator)
  \cup Rows("OPEN", "CANCEL_TICKET", "CANCELLED", ResidentOperator)
  \cup Rows("SCHEDULED", "START_WORK", "IN_PROGRESS", WorkerOperator)
  \cup Rows("SCHEDULED", "RESCHEDULE", "SCHEDULED", ResidentOperator)
  \cup Rows("SCHEDULED", "WORKER_REJECTED_INITIAL", "OPEN", WorkerOperator)
  \cup Rows("SCHEDULED", "WORKER_REJECTED_REWORK", "REWORK_REQUIRED", WorkerOperator)
  \cup Rows("SCHEDULED", "WORKER_CANCELLED_INITIAL", "OPEN", WorkerOperator)
  \cup Rows("SCHEDULED", "WORKER_CANCELLED_REWORK", "REWORK_REQUIRED", WorkerOperator)
  \cup Rows("SCHEDULED", "RESIDENT_CANCELLED_APPOINTMENT_INITIAL", "OPEN", ResidentOperator)
  \cup Rows("SCHEDULED", "RESIDENT_CANCELLED_APPOINTMENT_REWORK", "REWORK_REQUIRED",
            ResidentOperator)
  \cup Rows("SCHEDULED", "CANCEL_TICKET", "CANCELLED", ResidentOperator)
  \cup Rows("SCHEDULED", "REVIEWED_NO_SHOW", "ESCALATED", SystemOperator)
  \cup Rows("SCHEDULED", "RESIDENT_ACCEPT", "CLOSED", {"RESIDENT"})
  \cup Rows("IN_PROGRESS", "RESIDENT_ACCEPT", "CLOSED", {"RESIDENT"})
  \cup Rows("IN_PROGRESS", "COMPLETE_WORK", "PENDING_ACCEPTANCE", WorkerOperator)
  \cup Rows("IN_PROGRESS", "FAIL_WORK_REWORK", "REWORK_REQUIRED", WorkerOperator)
  \cup Rows("IN_PROGRESS", "FAIL_WORK_ESCALATE", "ESCALATED", WorkerOperator)
  \cup Rows("PENDING_ACCEPTANCE", "RESIDENT_ACCEPT", "CLOSED", {"RESIDENT"})
  \cup Rows("PENDING_ACCEPTANCE", "RESIDENT_REJECT", "REWORK_REQUIRED", {"RESIDENT"})
  \cup Rows("REWORK_REQUIRED", "BOOK_APPOINTMENT", "SCHEDULED", ResidentOperator)
  \cup Rows("REWORK_REQUIRED", "CANCEL_TICKET", "CANCELLED", {"OPERATOR"})
  \cup UNION {Rows(s, "ESCALATE", "ESCALATED", SystemOperator) : s \in EscalatableStatus}

\* Does the table let `actor` take a ticket from `from` to `to` by `action`?
Permitted(from, action, to, actor) ==
  [from |-> from, action |-> action, to |-> to, actor |-> actor] \in TicketTransitions

\* What the table's action preconditions add for the worker's refusals: the label's
\* INITIAL or REWORK half has to agree with the rework count.
LabelAgrees(action, rework_count) ==
  /\ action \in {"WORKER_REJECTED_INITIAL", "WORKER_CANCELLED_INITIAL"} => rework_count = 0
  /\ action \in {"WORKER_REJECTED_REWORK", "WORKER_CANCELLED_REWORK"} => rework_count >= 1

-----------------------------------------------------------------------------
(***************************************************************************)
(* Escalation recovery: the operator names a disposition, the target is    *)
(* derived.  `visit` is the status of the latest appointment ("ABSENT" when *)
(* there is none) and `evt` its latest worker event ("NONE" when none).    *)
(***************************************************************************)
\* Fault: the prior status decides before the live visit is looked at.
ResumeByPriorFirst(prior, visit, evt, target) ==
  prior \in {"OPEN", "SCHEDULED"} /\ target = "OPEN"

\* Fault: a live visit resumes as scheduled even when work has started.
ResumeIgnoringStart(prior, visit, evt, target) ==
  visit = "BOOKED" /\ prior # "PENDING_ACCEPTANCE" /\ target = "SCHEDULED"

ResumeTo(prior, visit, evt, target) ==
  \/ /\ visit = "BOOKED" /\ evt = "STARTED"
     /\ prior = "IN_PROGRESS"
     /\ target = "IN_PROGRESS"
  \/ /\ visit = "BOOKED" /\ evt # "STARTED"
     /\ prior \in {"OPEN", "SCHEDULED", "REWORK_REQUIRED"}
     /\ target = "SCHEDULED"
  \/ /\ visit = "FULFILLED" /\ evt = "COMPLETED"
     /\ prior \in {"IN_PROGRESS", "PENDING_ACCEPTANCE"}
     /\ target = "PENDING_ACCEPTANCE"
  \/ /\ visit # "BOOKED"
     /\ prior \in {"OPEN", "SCHEDULED"}
     /\ target = "OPEN"

\* Fault: a live visit does not stand in the way of a cancellation.
CancellationByPrior(prior, visit) == prior \in {"OPEN", "SCHEDULED", "REWORK_REQUIRED"}

CancellationSafe(prior, visit) ==
  visit # "BOOKED" /\ prior \in {"OPEN", "SCHEDULED", "REWORK_REQUIRED"}

RecoverTo(disposition, prior, visit, evt, target) ==
  \/ disposition = "RESUME" /\ ResumeTo(prior, visit, evt, target)
  \/ disposition = "APPROVE_REWORK" /\ target = "REWORK_REQUIRED"
  \/ disposition = "CANCEL" /\ CancellationSafe(prior, visit) /\ target = "CANCELLED"

-----------------------------------------------------------------------------
(***************************************************************************)
(* Worker events.                                                          *)
(***************************************************************************)
\* Fault: the worker reports his own no-show.
EventActorsUniform(evt) == WorkerOperator

EventActors(evt) == IF evt = "NO_SHOW" THEN SystemOperator ELSE WorkerOperator

RequiredTicketStatus(evt) ==
  IF evt \in PreWorkEvent \cup {"STARTED"} THEN "SCHEDULED" ELSE "IN_PROGRESS"

Recorded(evt, prior) == \E i \in DOMAIN prior : prior[i] = evt
LastEvent(prior) == IF prior = <<>> THEN "NONE" ELSE prior[Len(prior)]

SequenceAllows(evt, prior) ==
  /\ \A i \in DOMAIN prior : prior[i] \notin TerminalEvent
  /\ evt \in {"ACCEPTED", "REJECTED"} => prior = <<>>
  /\ evt = "DEPARTED" => LastEvent(prior) = "ACCEPTED"
  /\ evt = "ARRIVED" => LastEvent(prior) = "DEPARTED"
  /\ evt \in {"COMPLETED", "FAILED_TO_COMPLETE"} => LastEvent(prior) = "STARTED"
  /\ evt \in {"CANCELLED", "NO_SHOW"} => ~Recorded("STARTED", prior)
  /\ evt = "CANCELLED" => Recorded("ACCEPTED", prior)

PurposeAgrees(purpose, rework_count) == purpose = "REWORK" <=> rework_count > 0

TicketAfter(evt, purpose, disposition, current) ==
  CASE evt \in {"REJECTED", "CANCELLED"} ->
         IF purpose = "REWORK" THEN "REWORK_REQUIRED" ELSE "OPEN"
    [] evt = "STARTED" -> "IN_PROGRESS"
    [] evt = "COMPLETED" -> "PENDING_ACCEPTANCE"
    [] evt = "FAILED_TO_COMPLETE" ->
         IF disposition = "REWORK" THEN "REWORK_REQUIRED" ELSE "ESCALATED"
    [] evt = "NO_SHOW" -> "ESCALATED"
    [] OTHER -> current

AppointmentAfter(evt) ==
  CASE evt \in {"REJECTED", "CANCELLED"} -> "CANCELLED"
    [] evt \in {"COMPLETED", "FAILED_TO_COMPLETE"} -> "FULFILLED"
    [] evt = "NO_SHOW" -> "NO_SHOW"
    [] OTHER -> "BOOKED"

\* The action name the ticket's history row carries for a worker event.
WorkerTicketAction(evt, purpose, disposition) ==
  CASE evt = "STARTED" -> "START_WORK"
    [] evt = "COMPLETED" -> "COMPLETE_WORK"
    [] evt = "NO_SHOW" -> "REVIEWED_NO_SHOW"
    [] evt = "REJECTED" ->
         IF purpose = "REWORK" THEN "WORKER_REJECTED_REWORK" ELSE "WORKER_REJECTED_INITIAL"
    [] evt = "CANCELLED" ->
         IF purpose = "REWORK" THEN "WORKER_CANCELLED_REWORK" ELSE "WORKER_CANCELLED_INITIAL"
    [] OTHER ->
         IF disposition = "REWORK" THEN "FAIL_WORK_REWORK" ELSE "FAIL_WORK_ESCALATE"

\* A booking is for rework exactly when the ticket waits for rework.
BookingPurpose(status) ==
  IF status = "REWORK_REQUIRED" THEN "REWORK" ELSE "INITIAL_REPAIR"
=============================================================================
