--------------------------- MODULE RepairContract ---------------------------
(***************************************************************************)
(* What the repair aggregate promises a resident and an operator: a ticket *)
(* and its current visit move together.  Only two facts of a ticket are    *)
(* kept, its status and the stage of its current visit.  Appointment rows, *)
(* rescheduling, event logs, versions, purposes, actors and the status an  *)
(* escalation came from are the implementation's (RepairLifecycle).        *)
(***************************************************************************)
CONSTANT Tickets

VARIABLE repair  \* of each ticket: its status and the stage of its current visit

\* A visit that still occupies the worker's calendar.
Live == {"WAITING", "STARTED"}

\* The statuses the stage of the visit supports; automation goes on from no other.
Supports(stage, status) ==
  \/ status = "OPEN" /\ stage \in {"NONE", "REFUSED", "MISSED"}
  \/ status = "SCHEDULED" /\ stage = "WAITING"
  \/ status = "IN_PROGRESS" /\ stage = "STARTED"
  \/ status = "PENDING_ACCEPTANCE" /\ stage = "COMPLETED"
  \/ status = "REWORK_REQUIRED"

InStatus(t, statuses) == repair[t].status \in statuses
Move(t, status, stage) == repair' = [repair EXCEPT ![t] = [status |-> status, visit |-> stage]]

Init == repair = [t \in Tickets |-> [status |-> "ABSENT", visit |-> "NONE"]]

Open(t) == InStatus(t, {"ABSENT"}) /\ Move(t, "OPEN", "NONE")

Book(t) ==
  /\ InStatus(t, {"OPEN", "REWORK_REQUIRED"})
  /\ repair[t].visit \notin Live
  /\ Move(t, "SCHEDULED", "WAITING")

Start(t) == InStatus(t, {"SCHEDULED"}) /\ Move(t, "IN_PROGRESS", "STARTED")

\* The worker rejects or cancels before work starts.
Refuse(t) ==
  /\ InStatus(t, {"SCHEDULED"})
  /\ \E back \in {"OPEN", "REWORK_REQUIRED"} : Move(t, back, "REFUSED")

Miss(t) == InStatus(t, {"SCHEDULED"}) /\ Move(t, "ESCALATED", "MISSED")

Complete(t) == InStatus(t, {"IN_PROGRESS"}) /\ Move(t, "PENDING_ACCEPTANCE", "COMPLETED")

Fail(t) ==
  /\ InStatus(t, {"IN_PROGRESS"})
  /\ \E next \in {"REWORK_REQUIRED", "ESCALATED"} : Move(t, next, "FAILED")

\* The resident closes: a live visit counts as carried out on the resident's word.
Close(t) ==
  \/ /\ InStatus(t, {"SCHEDULED", "IN_PROGRESS"})
     /\ Move(t, "CLOSED", "CONFIRMED")
  \/ InStatus(t, {"PENDING_ACCEPTANCE"}) /\ Move(t, "CLOSED", "COMPLETED")

Reject(t) == InStatus(t, {"PENDING_ACCEPTANCE"}) /\ Move(t, "REWORK_REQUIRED", "COMPLETED")

Hold(t) ==
  /\ InStatus(t, {"OPEN", "SCHEDULED", "IN_PROGRESS", "PENDING_ACCEPTANCE", "REWORK_REQUIRED"})
  /\ Move(t, "ESCALATED", repair[t].visit)

\* An operator ends the hold: in a status the visit supports, or by cancelling a ticket
\* whose visit is not live.
Release(t) ==
  /\ InStatus(t, {"ESCALATED"})
  /\ \/ \E next \in {"OPEN", "SCHEDULED", "IN_PROGRESS", "PENDING_ACCEPTANCE",
                     "REWORK_REQUIRED"} :
          Supports(repair[t].visit, next) /\ Move(t, next, repair[t].visit)
     \/ repair[t].visit \notin Live /\ Move(t, "CANCELLED", repair[t].visit)

Step(t) ==
  \/ Open(t) \/ Book(t) \/ Start(t) \/ Refuse(t) \/ Miss(t) \/ Complete(t) \/ Fail(t)
  \/ Close(t) \/ Reject(t) \/ Hold(t) \/ Release(t)

Next == \E t \in Tickets : Step(t)

Spec == Init /\ [][Next]_repair
=============================================================================
