---------------------------- MODULE AgentRuntime ----------------------------
(***************************************************************************)
(* One conversation thread of the repair agent (backend/app/agent_runtime, *)
(* backend/app/agent): the graph of nodes that turns what a resident says  *)
(* into a ticket and an appointment, its checkpoint, the orchestrator that *)
(* starts and resumes it, and a reader that refreshes it meanwhile.        *)
(*                                                                         *)
(* The graph library is modelled from how the code uses it: a node's       *)
(* result is stored with the node that comes next; a node that raises      *)
(* leaves the checkpoint as it was; aupdate_state stores a state as the    *)
(* last node's result, so what comes next is decided anew and an interrupt *)
(* shown to the resident is gone.  The property database and the verdicts  *)
(* of reconciliation are the environment: other modules model them.        *)
(***************************************************************************)
EXTENDS Integers, Sequences, FiniteSets

CONSTANTS
  Issues,      \* what can be broken: category and normalized location
  Slots,       \* the slots that may be offered, numbered by rank
  Existing,    \* the tickets there may be when the thread begins
  Utterances,  \* what the interpretation of a message may extract
  MaxTurns,    \* bound on turns and resumes
  MaxMoves,    \* bound on what other actors do
  MaxTrouble,  \* bound on lost answers, failed calls and deaths of the process
  MaxReads,    \* bound on concurrent reads of the thread
  None

ASSUME SlotAssumption == Slots \subseteq Nat
ASSUME NoneAssumption ==
  None \notin Int /\ None \notin [ticket : Nat, appointment : Int \cup {None}]
ASSUME BoundAssumption == {MaxTurns, MaxMoves, MaxTrouble, MaxReads} \subseteq Nat

VARIABLES
  cp,         \* the checkpoint: the AgentState of the thread
  last,       \* the node whose result it is
  next,       \* the node to run next, END if the graph is through
  shown,      \* whether that node waits in an interrupt
  run,        \* the invocation of the graph under way
  tickets,    \* the property's tickets
  busy,       \* slots other tickets' appointments take
  receipts,   \* the records of committed operations, which hold their answers
  flying,     \* requests sent whose answer nobody awaits any more
  cases,      \* reconciliation cases by operation: status, and what they look for
  permitted,  \* the resident's relation to the property holds
  reader,     \* the state a concurrent get_state has read
  overtaken,  \* history: a get_state has stored over what it had not read
  screens,    \* slot lists the resident has been shown
  chosen,     \* history: the slots the resident has confirmed
  turns, moves, trouble, reads

thread == <<cp, last, next, shown, run>>
db == <<tickets, busy, receipts, flying, cases, permitted>>
user == <<screens, chosen>>
bounds == <<turns, moves, trouble, reads>>
vars == <<thread, db, reader, overtaken, user, bounds>>

END == "__end__"

\* The thread has a checkpoint: a node, or the start of one, has stored it.
Begun == last # END

\* A new row of a table that had none under the key.
Inserted(table, key, row) ==
  [k \in DOMAIN table \cup {key} |-> IF k = key THEN row ELSE table[k]]

NewThread ==
  [stage |-> "OPEN", verified |-> FALSE, intent |-> "UNKNOWN", version |-> 1, issue |-> None,
   windows |-> FALSE, slots |-> {}, slot |-> None, duplicates |-> {}, ticket |-> None,
   ticketVersion |-> None, appointment |-> None, appointmentVersion |-> None, cached |-> None,
   op |-> None, result |-> None, case |-> None, safety |-> FALSE, sufficient |-> FALSE,
   overdue |-> FALSE, missing |-> FALSE]

Appointment(id, slot) == [id |-> id, slot |-> slot, version |-> 1, past |-> FALSE]
Ticket(issue) == [issue |-> issue, version |-> 1, appointment |-> None, open |-> TRUE]

AppointmentRow == [id : Int, slot : Slots, version : Nat, past : BOOLEAN]
TicketRow == [issue : Issues, version : Nat, appointment : AppointmentRow \cup {None},
              open : BOOLEAN]

\* Appointments made before the thread have numbers of their own, below those it makes.
ASSUME ExistingAssumption ==
  /\ Existing \subseteq Seq(TicketRow)
  /\ \A before \in Existing : \A t, x \in DOMAIN before :
       before[t].appointment # None /\ before[x].appointment # None =>
         /\ before[t].appointment.id <= 0
         /\ before[t].appointment.id = before[x].appointment.id => t = x

Init ==
  /\ cp = None /\ last = END /\ next = END /\ shown = FALSE /\ run = None
  /\ tickets \in Existing
  /\ busy = {} /\ receipts = <<>> /\ flying = {} /\ cases = <<>>
  /\ permitted = TRUE /\ reader = None /\ overtaken = FALSE /\ screens = {} /\ chosen = {}
  /\ turns = 0 /\ moves = 0 /\ trouble = 0 /\ reads = 0

-----------------------------------------------------------------------------
(***************************************************************************)
(* The state and its validators.  A stage that no node or router asks for  *)
(* is OPEN.                                                                *)
(***************************************************************************)
TaskIntents ==
  {"NEW_REPAIR", "QUERY_TICKET_STATUS", "RESCHEDULE_APPOINTMENT", "CANCEL_APPOINTMENT",
   "CANCEL_TICKET", "REQUEST_HUMAN"}

Missing(s) ==
  \/ s.intent = "NEW_REPAIR" /\ s.issue = None
  \/ s.intent = "RESCHEDULE_APPOINTMENT" /\ ~s.windows

\* Of the rules that relate fields, three are left out for want of a second writer: a
\* thread keeps the property it begins with, merging alone writes a location, with its
\* normal form, and a message is appended under an id that no other has.
Loads(s) ==
  /\ s.cached # None => s.cached.ticket = s.ticket
  /\ s.slot # None => s.slot \in s.slots
  /\ s.missing = Missing(s)

NoSlots(s) == [s EXCEPT !.slots = {}, !.slot = None]

Merge(s, u) ==
  LET intent == IF u.intent \in TaskIntents THEN u.intent ELSE s.intent
      issue == IF u.issue # None THEN u.issue ELSE s.issue
      changed == \/ s.issue # None /\ issue # s.issue
                 \/ s.intent # "UNKNOWN" /\ intent # s.intent
                 \/ s.stage = "DONE" /\ u.intent \in TaskIntents
      risk == u.safety /\ ~s.safety
      kept == IF changed \/ risk
              THEN [NoSlots(s) EXCEPT !.sufficient = FALSE, !.duplicates = {}, !.op = None,
                                      !.result = None]
              ELSE s
      merged == [kept EXCEPT !.intent = intent, !.issue = issue, !.safety = @ \/ u.safety,
                             !.version = IF changed THEN @ + 1 ELSE @,
                             !.windows = u.windows \/ (@ /\ ~changed)]
  IN [merged EXCEPT !.missing = Missing(merged),
                    !.stage = IF merged.safety THEN "EMERGENCY_REVIEW"
                              ELSE IF Missing(merged) THEN "OPEN" ELSE @]

(***************************************************************************)
(* The edges of the graph.                                                 *)
(***************************************************************************)
Booked(s) == s.cached # None /\ s.cached.appointment # None

AfterInterpret(s) ==
  IF ~s.verified \/ s.stage = "HUMAN_REVIEW" THEN "compose"
  ELSE IF s.safety THEN "finish_safety"
  ELSE IF s.missing THEN "need_information"
  ELSE CASE s.intent = "NEW_REPAIR" -> "retrieve_policy"
         [] s.intent \in {"QUERY_TICKET_STATUS", "RESCHEDULE_APPOINTMENT"} -> "resolve_existing"
         [] s.intent = "REQUEST_HUMAN" -> "finish_manual_request"
         [] OTHER -> "finish_unsupported"

\* What a task is over with: nothing is left to choose or to book.
Served(s) ==
  \/ s.intent = "NEW_REPAIR" /\ Booked(s)
  \/ s.intent = "RESCHEDULE_APPOINTMENT" /\ Booked(s) /\ s.result = s.cached.appointment
  \/ s.intent = "QUERY_TICKET_STATUS"

AfterSnapshot(s) ==
  IF s.overdue THEN "finish_overdue_appointment"
  ELSE IF s.intent = "NEW_REPAIR" /\ s.ticket = None THEN "find_duplicates"
  ELSE IF s.slot # None
       THEN IF s.intent = "RESCHEDULE_APPOINTMENT" THEN "prepare_reschedule" ELSE "prepare_book"
  ELSE IF Served(s) THEN "compose" ELSE "list_slots"

Edge(node, s) ==
  CASE node = "__start__" -> "resolve_property"
    [] node = "resolve_property" -> IF s.verified THEN "interpret" ELSE END
    [] node \in {"need_information", "need_availability_information"} -> "interpret"
    [] node = "interpret" -> AfterInterpret(s)
    [] node = "retrieve_policy" ->
         IF s.sufficient THEN "find_duplicates" ELSE "finish_policy_review"
    [] node = "find_duplicates" ->
         IF s.ticket # None THEN "refresh_snapshot"
         ELSE IF s.duplicates = {} THEN "prepare_create" ELSE "select_duplicate"
    [] node = "prepare_create" -> "create_ticket"
    [] node = "resolve_existing" ->
         IF s.ticket # None THEN "refresh_snapshot"
         ELSE IF s.duplicates # {} THEN "select_duplicate" ELSE "compose"
    [] node = "refresh_snapshot" -> AfterSnapshot(s)
    [] node = "list_slots" ->
         IF s.windows /\ s.slots # {} THEN "select_slot" ELSE "need_availability_information"
    [] node = "select_slot" -> IF s.stage = "DONE" THEN END ELSE "refresh_snapshot"
    [] node = "prepare_book" -> "book"
    [] node = "prepare_reschedule" -> "reschedule"
    [] node \in {"select_duplicate", "create_ticket", "book", "reschedule"} -> "refresh_snapshot"
    [] OTHER -> END

\* A conditional edge loads the state it decides on; a static one does not.
Decides(node) ==
  node \in {"resolve_property", "interpret", "retrieve_policy", "find_duplicates",
            "resolve_existing", "refresh_snapshot", "list_slots", "select_slot"}

-----------------------------------------------------------------------------
(***************************************************************************)
(* Running a node.                                                         *)
(***************************************************************************)
At(node) == run # None /\ run.at = node
State == run.state

\* A node first loads its state, and raises if it cannot.
Invoke(s, node, answer, resumed) ==
  IF Loads(s) THEN [state |-> s, at |-> node, sent |-> FALSE, answer |-> answer,
                    resumed |-> resumed, behind |-> FALSE]
  ELSE None

Abort == run' = None /\ UNCHANGED <<cp, last, next, shown>>

\* The node returns s: the checkpoint moves on, unless its router cannot load s.
Complete(node, s) ==
  IF Decides(node) /\ ~Loads(s) THEN Abort
  ELSE /\ cp' = s /\ last' = node /\ next' = Edge(node, s) /\ shown' = FALSE
       /\ run' = IF Edge(node, s) = END THEN None
                 ELSE Invoke(s, Edge(node, s), FALSE, run.resumed)

\* aupdate_state, which an invocation under way does not see.
Save(s) == cp' = s /\ next' = Edge(last, s) /\ shown' = FALSE /\ UNCHANGED last

Suffer == trouble < MaxTrouble /\ trouble' = trouble + 1

Outside == UNCHANGED <<db, reader, overtaken, user, bounds>>

ResolveProperty ==
  /\ At("resolve_property")
  /\ Complete("resolve_property",
       CASE State.verified -> State
         [] ~State.verified /\ permitted -> [State EXCEPT !.verified = TRUE]
         [] OTHER -> [State EXCEPT !.stage = "HUMAN_REVIEW"])
  /\ Outside

Interpret ==
  /\ At("interpret")
  /\ \E u \in Utterances : Complete("interpret", Merge(State, u))
  /\ Outside

RetrievePolicy ==
  /\ At("retrieve_policy")
  /\ \E sufficient \in BOOLEAN :
       Complete("retrieve_policy",
                [State EXCEPT !.sufficient = sufficient, !.stage = "OPEN"])
  /\ Outside

OpenFor(issue) == {t \in DOMAIN tickets : tickets[t].open /\ tickets[t].issue = issue}

\* A single candidate is adopted without asking.
WithDuplicates(s) ==
  LET found == {[ticket |-> t, version |-> tickets[t].version] : t \in OpenFor(s.issue)}
      seen == [s EXCEPT !.duplicates = found, !.stage = "OPEN"]
  IN IF Cardinality(found) # 1 THEN seen
     ELSE LET only == CHOOSE d \in found : TRUE IN
          [seen EXCEPT !.ticket = only.ticket, !.ticketVersion = only.version]

FindDuplicates ==
  /\ At("find_duplicates")
  /\ Complete("find_duplicates", WithDuplicates(State))
  /\ Outside

ResolveExisting ==
  /\ At("resolve_existing")
  /\ Complete("resolve_existing",
       CASE State.ticket # None -> State
         [] State.ticket = None /\ State.issue # None -> WithDuplicates(State)
         [] OTHER -> [State EXCEPT !.stage = "HUMAN_REVIEW"])
  /\ Outside

Snapshot(s) ==
  LET t == tickets[s.ticket]
      a == t.appointment
  IN [s EXCEPT
        !.cached = [ticket |-> s.ticket, appointment |-> IF a = None THEN None ELSE a.id],
        !.ticketVersion = t.version,
        !.appointment = IF a = None THEN None ELSE a.id,
        !.appointmentVersion = IF a = None THEN None ELSE a.version,
        !.stage = IF a # None /\ a.past THEN "HUMAN_REVIEW" ELSE @,
        !.overdue = @ \/ (a # None /\ a.past),
        !.op = IF a # None /\ a.past THEN None ELSE @]

StaleSlot(s) == s.ticketVersion \notin {None, tickets[s.ticket].version} /\ s.slot # None

Forgotten(s) ==
  [NoSlots(s) EXCEPT !.ticket = None, !.appointment = None, !.ticketVersion = None,
                     !.appointmentVersion = None, !.cached = None, !.duplicates = {}]

Closed(s) == s.intent = "NEW_REPAIR" /\ ~tickets[s.ticket].open

Refresh(s) ==
  IF s.ticket = None THEN s
  ELSE IF Closed(s) THEN Forgotten(Snapshot(s))
  ELSE IF StaleSlot(s) THEN NoSlots(Snapshot(s)) ELSE Snapshot(s)

RefreshSnapshot ==
  /\ At("refresh_snapshot")
  /\ Complete("refresh_snapshot", Refresh(State))
  /\ Outside

OfferedTo(s) ==
  {slot \in Slots : slot \notin busy /\ \A t \in DOMAIN tickets :
     LET a == tickets[t].appointment IN
     a # None /\ a.slot = slot => s.intent = "RESCHEDULE_APPOINTMENT" /\ a.id = s.appointment}

\* The window may hold any of the free slots, or none that is still ahead.
ListSlots ==
  /\ At("list_slots")
  /\ \E slots \in IF State.windows THEN SUBSET OfferedTo(State) ELSE {State.slots} :
       Complete("list_slots", [State EXCEPT !.slots = slots, !.stage = "OPEN"])
  /\ Outside

-----------------------------------------------------------------------------
(***************************************************************************)
(* Interrupts: the node shows what it asks for and the invocation ends; a  *)
(* resume runs the node again with the resident's answer.                  *)
(***************************************************************************)
Asks == {"need_information", "need_availability_information", "select_duplicate", "select_slot"}

\* The interrupt belongs to the invocation's own checkpoint.
Interrupt ==
  /\ run # None /\ run.at \in Asks /\ ~run.answer
  /\ shown' = ~run.behind /\ run' = None
  /\ screens' = IF run.at = "select_slot"
                THEN screens \cup {[version |-> State.version, slots |-> State.slots]}
                ELSE screens
  /\ UNCHANGED <<cp, last, next, db, reader, overtaken, chosen, bounds>>

Answered(node) == At(node) /\ run.answer

\* An answer of the wrong kind, to an older question or for what was not offered.
Conflict ==
  /\ run # None /\ run.at \in Asks /\ run.answer
  /\ Abort /\ Outside

ProvideInformation ==
  \E node \in {"need_information", "need_availability_information"} :
    /\ Answered(node)
    /\ Complete(node, [State EXCEPT !.stage = "OPEN"])
    /\ Outside

SelectDuplicate ==
  /\ Answered("select_duplicate")
  /\ \E d \in State.duplicates :
       Complete("select_duplicate", [State EXCEPT !.ticket = d.ticket, !.stage = "OPEN",
                                                  !.ticketVersion = d.version])
  /\ Outside

Rank(slots, k) == CHOOSE slot \in slots : Cardinality({x \in slots : x <= slot}) = k

\* Fault: the list the answer was given on is not compared with the current one.
MatchesVersion(s, screen) == screen.version = s.version

Matches(s, screen) == screen.version = s.version /\ screen.slots = s.slots

\* The resident confirms the k-th slot of a list, not always the last one shown.
SelectSlot ==
  /\ Answered("select_slot")
  /\ \E screen \in screens : \E k \in 1..Cardinality(screen.slots) :
       /\ Matches(State, screen) /\ k <= Cardinality(State.slots)
       /\ Complete("select_slot", [State EXCEPT !.slot = Rank(State.slots, k)])
       /\ chosen' = chosen \cup {[ticket |-> State.ticket, version |-> State.ticketVersion,
                                  slot |-> Rank(screen.slots, k)]}
  /\ UNCHANGED <<db, reader, overtaken, screens, bounds>>

CancelSlot ==
  /\ Answered("select_slot")
  /\ \E screen \in screens : Matches(State, screen)
  /\ Complete("select_slot",
       [NoSlots(State) EXCEPT !.intent = "UNKNOWN", !.stage = "DONE", !.windows = FALSE,
                              !.missing = FALSE, !.result = None, !.op = None])
  /\ Outside

-----------------------------------------------------------------------------
(***************************************************************************)
(* Mutations.  An operation is what its idempotency key hashes.            *)
(***************************************************************************)
Operation(s, action, subject, target, ticketVersion, appointmentVersion) ==
  [action |-> action, version |-> s.version, subject |-> subject, target |-> target,
   ticketVersion |-> ticketVersion, appointmentVersion |-> appointmentVersion]

PrepareCreate ==
  /\ At("prepare_create")
  /\ Complete("prepare_create",
       [State EXCEPT !.stage = "OPEN",
                     !.op = Operation(State, "CREATE_TICKET", State.issue, None, None, None)])
  /\ Outside

PrepareBook ==
  /\ At("prepare_book")
  /\ Complete("prepare_book",
       [State EXCEPT !.stage = "OPEN",
                     !.op = Operation(State, "BOOK_APPOINTMENT", State.slot, State.ticket,
                                      State.ticketVersion, None)])
  /\ Outside

PrepareReschedule ==
  /\ At("prepare_reschedule")
  /\ Complete("prepare_reschedule",
       [State EXCEPT !.stage = "OPEN",
                     !.op = Operation(State, "RESCHEDULE_APPOINTMENT", State.slot,
                                      State.appointment, State.ticketVersion,
                                      State.appointmentVersion)])
  /\ Outside

Mutations == {"create_ticket", "book", "reschedule"}
Mutating == run # None /\ run.at \in Mutations

\* What the node asserts before it calls the server.
Asserted(node, s) ==
  /\ s.op # None
  /\ node = "create_ticket" => s.issue # None
  /\ node = "book" => s.slot # None /\ s.ticket # None /\ s.op.ticketVersion # None
  /\ node = "reschedule" => /\ s.slot # None /\ s.ticket # None /\ s.appointment # None
                            /\ s.op.ticketVersion # None /\ s.op.appointmentVersion # None

Dispatch ==
  /\ Mutating /\ ~run.sent /\ Asserted(run.at, State)
  /\ run' = [run EXCEPT !.sent = TRUE]
  /\ UNCHANGED <<cp, last, next, shown>> /\ Outside

AssertionFails ==
  /\ Mutating /\ ~run.sent /\ ~Asserted(run.at, State)
  /\ Abort /\ Outside

\* What a node sends: its own tool is called, about what the state says; the pending
\* operation gives the key and the versions to expect.
Request(node, s) ==
  CASE node = "create_ticket" ->
         [action |-> "CREATE_TICKET", key |-> s.op, subject |-> s.issue, ticket |-> None,
          appointment |-> None]
    [] node = "book" ->
         [action |-> "BOOK_APPOINTMENT", key |-> s.op, subject |-> s.slot, ticket |-> s.ticket,
          appointment |-> None]
    [] node = "reschedule" ->
         [action |-> "RESCHEDULE_APPOINTMENT", key |-> s.op, subject |-> s.slot,
          ticket |-> s.ticket, appointment |-> s.appointment]

Sent == Request(run.at, State)

(***************************************************************************)
(* The server: a key takes effect once, and the answer is kept under it.   *)
(***************************************************************************)
Free(slot, except) ==
  /\ slot \notin busy
  /\ \A t \in DOMAIN tickets :
       LET a == tickets[t].appointment IN a # None => a.slot # slot \/ a.id = except

\* The appointment to be moved is the ticket's.
Held(req) ==
  LET a == tickets[req.ticket].appointment IN a # None /\ a.id = req.appointment

\* The ticket or its appointment moved on, or the slot is taken.
Outdated(req) ==
  /\ req.action # "CREATE_TICKET"
  /\ \/ tickets[req.ticket].version # req.key.ticketVersion
     \/ ~Free(req.subject, req.appointment)
     \/ /\ req.action = "RESCHEDULE_APPOINTMENT"
        /\ Held(req) => tickets[req.ticket].appointment.version # req.key.appointmentVersion

Unacceptable(req) ==
  \/ ~permitted
  \/ req.action = "CREATE_TICKET" /\ OpenFor(req.subject) # {}
  \/ /\ req.action = "BOOK_APPOINTMENT"
     /\ ~tickets[req.ticket].open \/ tickets[req.ticket].appointment # None
  \/ req.action = "RESCHEDULE_APPOINTMENT" /\ ~Held(req)

\* Appointments are numbered by the operations that made them.
NewAppointment(slot) == Appointment(Cardinality(DOMAIN receipts) + 1, slot)

\* The record names the tool that wrote it.
Record(req, resource, ticketVersion) ==
  receipts' = Inserted(receipts, req.key, [action |-> req.action, resource |-> resource,
                                           ticketVersion |-> ticketVersion])

Effect(req) ==
  \/ /\ req.action = "CREATE_TICKET"
     /\ tickets' = Append(tickets, Ticket(req.subject))
     /\ Record(req, Len(tickets) + 1, 1)
  \/ /\ req.action # "CREATE_TICKET"
     /\ tickets' = [tickets EXCEPT ![req.ticket].appointment = NewAppointment(req.subject),
                                   ![req.ticket].version = @ + 1]
     /\ Record(req, NewAppointment(req.subject).id, req.key.ticketVersion + 1)

Recorded(req) == req.key \in DOMAIN receipts

\* The result codes a request may be refused with: a conflict of version or time, or any
\* other.  A key that has its record is answered from it.
Refusals(req) ==
  {code \in {"CONFLICT", "OTHER"} :
     /\ ~Recorded(req)
     /\ IF code = "CONFLICT" THEN Outdated(req) ELSE Unacceptable(req)}

Commit(req) ==
  \/ /\ Recorded(req) /\ receipts[req.key].action = req.action
     /\ UNCHANGED <<tickets, receipts>>
  \/ ~Recorded(req) /\ Refusals(req) = {} /\ Effect(req)

\* An operation has one record: a second tool under its key breaks the unique index.
Clashes(req) == Recorded(req) /\ receipts[req.key].action # req.action

\* A ticket's id is no appointment's, so the result of a creation matches none.
Success(node, s, answer) ==
  LET done == [s EXCEPT !.op = None, !.ticketVersion = answer.ticketVersion,
                        !.result = IF node = "create_ticket" THEN None ELSE answer.resource]
  IN IF node = "create_ticket" THEN [done EXCEPT !.ticket = answer.resource]
     ELSE [NoSlots(done) EXCEPT !.appointment = answer.resource, !.appointmentVersion = 1]

AnswerArrives ==
  /\ Mutating /\ run.sent
  /\ Commit(Sent)
  /\ Complete(run.at, Success(run.at, State, receipts'[State.op]))
  /\ UNCHANGED <<busy, flying, cases, permitted, reader, overtaken, user, bounds>>

\* Fault: the slot that was refused stays selected.
ConflictKeepsSlot ==
  /\ Mutating /\ run.sent
  /\ "CONFLICT" \in Refusals(Sent)
  /\ Complete(run.at, [State EXCEPT !.op = None])
  /\ Outside

\* A time or version conflict sends the thread back to choose again.
ConflictArrives ==
  /\ Mutating /\ run.sent
  /\ "CONFLICT" \in Refusals(Sent)
  /\ Complete(run.at, [NoSlots(State) EXCEPT !.op = None])
  /\ Outside

\* Any other refusal ends the invocation before the node is done.
RefusalArrives ==
  /\ Mutating /\ run.sent
  /\ "OTHER" \in Refusals(Sent)
  /\ Abort /\ Outside

(***************************************************************************)
(* UnknownCommit: the case is stored, then a checkpoint that blocks the    *)
(* thread.  The case looks for the operation of the state then stored, and *)
(* none is stored if that state has no operation or the case another one.  *)
(***************************************************************************)
MayHaveCase(op) ==
  /\ Loads(cp) /\ cp.op # None
  /\ op \in DOMAIN cases => cases[op].for = cp.op

UnknownCommit(op) ==
  IF MayHaveCase(op)
  THEN /\ cases' = IF op \in DOMAIN cases THEN cases
                   ELSE Inserted(cases, op, [status |-> "PENDING", for |-> cp.op])
       /\ Save([cp EXCEPT !.stage = "RECONCILIATION_PENDING", !.case = op])
       /\ run' = None
  ELSE Abort /\ UNCHANGED cases

AnswerLost ==
  /\ Mutating /\ run.sent
  /\ Suffer
  /\ flying' = flying \cup {Sent}
  /\ UnknownCommit(State.op)
  /\ UNCHANGED <<tickets, busy, receipts, permitted, reader, overtaken, user, turns, moves, reads>>

\* The server's own failure is an internal error, and tells the caller nothing either.
ClashArrives ==
  /\ Mutating /\ run.sent
  /\ Clashes(Sent)
  /\ UnknownCommit(State.op)
  /\ UNCHANGED <<tickets, busy, receipts, flying, permitted, reader, overtaken, user, bounds>>

\* An attempt nobody awaits commits after all, or comes to nothing.
Land(req) ==
  /\ req \in flying /\ flying' = flying \ {req}
  /\ Commit(req) \/ UNCHANGED <<tickets, receipts>>
  /\ UNCHANGED <<thread, busy, cases, permitted, reader, overtaken, user, bounds>>

\* The operation is on record, by the tool and for the operation that the case looks for.
Evident(op) ==
  op \in DOMAIN receipts /\ cases[op].for = op /\ receipts[op].action = op.action

\* A worker settles a case from what is committed when it looks; a record of anything else
\* is a contradiction.
Settle(op) ==
  /\ op \in DOMAIN cases /\ cases[op].status = "PENDING"
  /\ \E verdict \in {"MANUAL_REVIEW", IF op \notin DOMAIN receipts THEN "RESOLVED_NOT_COMMITTED"
                                      ELSE IF Evident(op) THEN "RESOLVED_COMMITTED"
                                      ELSE "MANUAL_REVIEW"} :
       cases' = [cases EXCEPT ![op].status = verdict]
  /\ UNCHANGED <<thread, tickets, busy, receipts, flying, permitted, reader, overtaken, user,
                 bounds>>

-----------------------------------------------------------------------------
(***************************************************************************)
(* The orchestrator.                                                       *)
(***************************************************************************)
\* What a committed operation made must still be what the snapshot shows.
Matching(s, op) ==
  LET made == receipts[op].resource IN
  IF op.action = "CREATE_TICKET" THEN TRUE
  ELSE s.ticket # None /\ tickets[s.ticket].appointment # None
       /\ tickets[s.ticket].appointment.id = made

Confirmed(s, op) ==
  LET made == receipts[op].resource
      clear == [s EXCEPT !.op = None, !.case = None]
  IN IF op.action = "CREATE_TICKET" THEN [clear EXCEPT !.ticket = made, !.stage = "OPEN"]
     ELSE [clear EXCEPT !.appointment = made, !.stage = "DONE"]

Reconciled(s) ==
  IF s.case = None THEN s
  ELSE CASE cases[s.case].status = "PENDING" -> [s EXCEPT !.stage = "RECONCILIATION_PENDING"]
         [] cases[s.case].status = "RESOLVED_NOT_COMMITTED" -> [s EXCEPT !.case = None]
         [] cases[s.case].status = "RESOLVED_COMMITTED" ->
              IF Matching(s, s.case) THEN Confirmed(s, s.case)
              ELSE [s EXCEPT !.stage = "HUMAN_REVIEW"]
         [] cases[s.case].status = "MANUAL_REVIEW" -> [s EXCEPT !.stage = "HUMAN_REVIEW"]

\* Fault: the selected slot outlives the slots it was selected from.
InvalidatedKeepingSlot(s) == [s EXCEPT !.verified = FALSE, !.op = None, !.slots = {}]

Invalidated(s) == [NoSlots(s) EXCEPT !.verified = FALSE, !.op = None]

\* Fault: only a case under manual review blocks the thread.
BlockedByReview(s) == s.case # None /\ s.stage = "HUMAN_REVIEW"

Blocked(s) == s.case # None

Turn == run = None /\ turns < MaxTurns /\ turns' = turns + 1

StartThread ==
  /\ ~Begun /\ Turn
  /\ cp' = NewThread /\ last' = "__start__" /\ next' = "resolve_property" /\ UNCHANGED shown
  /\ run' = Invoke(NewThread, "resolve_property", FALSE, FALSE)
  /\ UNCHANGED <<db, reader, overtaken, user, moves, trouble, reads>>

\* The owner's identity is only readable from a verified checkpoint that loads.
Owned == Begun /\ Loads(cp) /\ cp.verified

\* A turn or a resume after the relation was revoked.
TurnRevoked ==
  /\ Owned /\ ~permitted /\ Turn
  /\ Save(Invalidated(cp)) /\ UNCHANGED run
  /\ UNCHANGED <<db, reader, overtaken, user, moves, trouble, reads>>

\* The state a turn or a resume goes on from, stored if the case has changed it.
Refreshing ==
  IF Reconciled(cp) # cp THEN Save(Reconciled(cp)) ELSE UNCHANGED <<cp, last, next, shown>>

TurnBlocked ==
  /\ Owned /\ permitted /\ Turn
  /\ Blocked(Reconciled(cp))
  /\ Refreshing /\ UNCHANGED run
  /\ UNCHANGED <<db, reader, overtaken, user, moves, trouble, reads>>

Unblocked == Owned /\ permitted /\ ~Blocked(Reconciled(cp)) /\ Turn

\* RESUME_REQUIRED while an interrupt waits; otherwise the open node is run again.
StartTurnAgain ==
  /\ Unblocked
  /\ Refreshing /\ next' # END
  /\ run' = IF shown' THEN None ELSE Invoke(cp', next', FALSE, FALSE)
  /\ UNCHANGED <<db, reader, overtaken, user, moves, trouble, reads>>

StartTurnAfresh ==
  /\ Unblocked
  /\ (IF Reconciled(cp) # cp THEN Edge(last, Reconciled(cp)) ELSE next) = END
  /\ cp' = Reconciled(cp) /\ last' = "__start__" /\ next' = "resolve_property" /\ shown' = FALSE
  /\ run' = Invoke(cp', "resolve_property", FALSE, FALSE)
  /\ UNCHANGED <<db, reader, overtaken, user, moves, trouble, reads>>

Resume ==
  /\ Unblocked /\ next # END
  /\ Refreshing
  /\ run' = IF next' = END THEN None ELSE Invoke(cp', next', TRUE, TRUE)
  /\ UNCHANGED <<db, reader, overtaken, user, moves, trouble, reads>>

\* A call of the node fails, or the process dies: the open node stays open.
Fails ==
  /\ run # None /\ Suffer
  /\ Abort
  /\ flying' = IF run.sent THEN flying \cup {Sent} ELSE flying
  /\ UNCHANGED <<tickets, busy, receipts, cases, permitted, reader, overtaken, user, turns,
                 moves, reads>>

\* The language model gives up in a turn: the thread is handed to people.
LanguageFails ==
  /\ run # None /\ run.at \in {"interpret", "compose"} /\ ~run.resumed /\ Loads(cp) /\ Suffer
  /\ Save([cp EXCEPT !.stage = "HUMAN_REVIEW", !.op = None]) /\ run' = None
  /\ UNCHANGED <<db, reader, overtaken, user, turns, moves, reads>>

Finish ==
  /\ \/ /\ At("compose")
        /\ Complete("compose", [State EXCEPT !.stage = IF @ = "HUMAN_REVIEW" THEN @ ELSE "DONE"])
     \/ /\ At("finish_safety")
        /\ Complete("finish_safety", [State EXCEPT !.stage = "EMERGENCY_REVIEW"])
     \/ \E node \in {"finish_policy_review", "finish_unsupported"} :
          At(node) /\ Complete(node, [State EXCEPT !.stage = "HUMAN_REVIEW"])
     \/ \E node \in {"finish_manual_request", "finish_overdue_appointment"} :
          At(node) /\ Complete(node, [State EXCEPT !.stage = "HUMAN_REVIEW", !.op = None])
  /\ Outside

-----------------------------------------------------------------------------
(***************************************************************************)
(* get_state reads the checkpoint, asks for the case, and stores what it   *)
(* made of what it read, whatever was stored meanwhile.                    *)
(***************************************************************************)
\* Without a case, and with the relation intact, it would store nothing.
ReadState ==
  /\ reader = None /\ Owned /\ reads < MaxReads /\ (cp.case # None \/ ~permitted)
  /\ reader' = cp /\ reads' = reads + 1
  /\ UNCHANGED <<thread, db, overtaken, user, turns, moves, trouble>>

Overwrite(s) ==
  /\ Save(s) /\ run' = IF run = None THEN None ELSE [run EXCEPT !.behind = TRUE]
  /\ overtaken' = (overtaken \/ reader # cp)

StoreState ==
  /\ reader # None /\ reader' = None
  /\ IF ~permitted THEN Overwrite(Invalidated(reader))
     ELSE IF Reconciled(reader) # reader THEN Overwrite(Reconciled(reader))
     ELSE UNCHANGED <<thread, overtaken>>
  /\ UNCHANGED <<db, user, bounds>>

-----------------------------------------------------------------------------
(***************************************************************************)
(* Other actors: residents, operators, workers, time.                      *)
(***************************************************************************)
Moving ==
  /\ moves < MaxMoves /\ moves' = moves + 1
  /\ UNCHANGED <<thread, receipts, flying, cases, reader, overtaken, user, turns, trouble, reads>>

\* An operator may allow a duplicate.
OtherCreates(issue) ==
  /\ Moving /\ tickets' = Append(tickets, Ticket(issue))
  /\ UNCHANGED <<busy, permitted>>

\* A ticket's status changes; it may lose its appointment or be closed.
OtherChanges(t) ==
  /\ Moving /\ tickets[t].open
  /\ \E open \in BOOLEAN, kept \in BOOLEAN :
       /\ kept => open
       /\ tickets' = [tickets EXCEPT ![t].open = open, ![t].version = @ + 1,
                                     ![t].appointment = IF kept THEN @ ELSE None]
  /\ UNCHANGED <<busy, permitted>>

\* The worker accepts or sets out, or the appointment's time passes.
AppointmentMoves(t) ==
  /\ Moving /\ tickets[t].appointment # None
  /\ \/ tickets' = [tickets EXCEPT ![t].appointment.version = @ + 1]
     \/ tickets' = [tickets EXCEPT ![t].appointment.past = TRUE]
  /\ UNCHANGED <<busy, permitted>>

OtherTakes(slot) ==
  /\ Moving /\ Free(slot, None)
  /\ busy' = busy \cup {slot}
  /\ UNCHANGED <<tickets, permitted>>

RelationChanges == Moving /\ permitted' = ~permitted /\ UNCHANGED <<tickets, busy>>

-----------------------------------------------------------------------------
Node ==
  \/ ResolveProperty \/ Interpret \/ RetrievePolicy \/ FindDuplicates \/ ResolveExisting
  \/ RefreshSnapshot \/ ListSlots \/ Interrupt \/ Conflict \/ ProvideInformation
  \/ SelectDuplicate \/ SelectSlot \/ CancelSlot
  \/ PrepareCreate \/ PrepareBook \/ PrepareReschedule
  \/ Dispatch \/ AssertionFails \/ AnswerArrives \/ ConflictArrives \/ RefusalArrives
  \/ ClashArrives \/ Finish

Trouble == AnswerLost \/ Fails \/ LanguageFails

Orchestrator ==
  \/ StartThread \/ TurnRevoked \/ TurnBlocked \/ StartTurnAgain \/ StartTurnAfresh \/ Resume
  \/ ReadState \/ StoreState

Environment ==
  \/ \E req \in flying : Land(req)
  \/ \E op \in DOMAIN cases : Settle(op)
  \/ \E issue \in Issues : OtherCreates(issue)
  \/ \E t \in DOMAIN tickets : OtherChanges(t) \/ AppointmentMoves(t)
  \/ \E slot \in Slots : OtherTakes(slot)
  \/ RelationChanges

Next == Node \/ Trouble \/ Orchestrator \/ Environment

Spec == Init /\ [][Next]_vars

\* An invocation of the graph goes on, one node after the other.
FairSpec == Spec /\ WF_vars(Node)

-----------------------------------------------------------------------------
(***************************************************************************)
(* Properties.                                                             *)
(***************************************************************************)

\* No validator runs when aupdate_state or a node stores a state: a checkpoint that breaks
\* one of AgentState's rules could never be read again.  No sequence of turns, failures,
\* verdicts and refreshes stores one, but for a read that overtook a turn, and then only
\* the node that creates a ticket does.
CheckpointLoads == Begun => Loads(cp) \/ (overtaken /\ last = "create_ticket")

\* Refuted: agent/state.py:200, "cached snapshot must belong to active_ticket_id".  A
\* get_state puts an older state, with its ticket and its pending booking, before the node
\* that creates a ticket; the node creates a second one and stores it as the thread's.
EveryCheckpointLoads == Begun => Loads(cp)

\* The tickets that get an appointment, or another one, from the thread's operations.
NewlyBooked ==
  {t \in DOMAIN tickets' :
     LET a == tickets'[t].appointment IN
     /\ a # None
     /\ t \in DOMAIN tickets /\ tickets[t].appointment # None => a.id # tickets[t].appointment.id}

\* No appointment is made or moved for a ticket to a slot the resident never confirmed for
\* it, however late the operation commits, whichever list the answer was given on, and
\* whatever operation a node finds pending.
BookedAsConfirmed ==
  [][\A t \in NewlyBooked : \E c \in chosen :
       c.ticket = t /\ c.slot = tickets'[t].appointment.slot]_vars

\* Stronger, and refuted when a read of the thread may overlap a turn and the ticket moves
\* once more: the slot was confirmed for the version of the ticket it is booked at.
BookedAsConfirmedFresh ==
  [][\A t \in NewlyBooked : \E c \in chosen :
       /\ c.ticket = t /\ c.slot = tickets'[t].appointment.slot
       /\ c.version = tickets[t].version]_vars

\* The thread has a case nobody has decided, or that people must decide.
Unsettled == \E op \in DOMAIN cases : cases[op].status \in {"PENDING", "MANUAL_REVIEW"}

Sending == run # None /\ run.sent

\* While a case of the thread is unsettled no mutation is sent: neither a turn, a resume,
\* another failure nor a read that was not overtaken unblocks the thread.
NothingSentWhilePending == [][~Sending /\ Sending' /\ Unsettled => overtaken]_vars

\* Refuted: docs/RECONCILIATION.md:53 and 57, pending cases cannot retry, and manual review
\* cannot be bypassed by another message.  A get_state that began before a turn stores
\* what it read over the block the turn left.
UnsettledBlocks == [][~Sending /\ Sending' => ~Unsettled]_vars

\* The creation of a ticket, closed meanwhile, is replayed under an unchanged key.
Replayed ==
  /\ run # None /\ run.at = "create_ticket"
  /\ State.op \in DOMAIN receipts /\ receipts[State.op].action = "CREATE_TICKET"
  /\ ~tickets[receipts[State.op].resource].open

\* An invocation comes to its end, an interrupt or an error: conflicts, closed tickets and
\* stale slots do not send it round the graph for ever.  The one way round the code has
\* is left out: a ticket closed after the thread created it is created "again" under its
\* old key, found closed, given up and created again.
EveryTurnEnds == run # None ~> run = None \/ Replayed

\* Refuted, by a request to reschedule a ticket that has no appointment: what the mutation
\* nodes assert, they find; an operation, a slot, what it is about and the versions it
\* expects (tickets.py:107, scheduling.py:124 and 202).
AssertsHold == Mutating /\ ~run.sent => Asserted(run.at, State)
=============================================================================
