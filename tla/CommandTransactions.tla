------------------------ MODULE CommandTransactions ------------------------
(***************************************************************************)
(* The application commands as PostgreSQL runs them: concurrent sessions   *)
(* of TransactionalService._execute under READ COMMITTED.  A statement is  *)
(* one step.  It reads what is committed at that moment, waits for the     *)
(* rows another session has locked, and an UPDATE checks its row's version *)
(* when it finally has the lock; nothing a session writes is visible       *)
(* before it commits.  RepairLifecycle takes each command for one step;    *)
(* this module asks whether it may.                                        *)
(*                                                                         *)
(* Each request names one worker's calendar, so a slot stands for a worker *)
(* with an interval; two slots clash when they are equal.                  *)
(***************************************************************************)
EXTENDS RepairDomain, Integers, FiniteSets

CONSTANTS
  Sessions,        \* connections that run commands at the same time
  Keys,            \* idempotency keys clients choose
  Tickets, Visits, \* identities, numbers that id_factory hands out in order
  Slots,
  Subjects,        \* what a new ticket may be about
  Starts,          \* committed rows the sessions may find
  MaxSubmissions,  \* bound on submitted requests, retries included
  MaxFaults,       \* bound on broken connections and lost answers
  None

VARIABLES
  db,       \* committed rows: tickets, visits, and a visit's worker events
  record,   \* committed idempotency records: the request an identity stands for
  session,  \* what each connection is doing
  sent,     \* requests submitted so far
  applied,  \* history: the requests whose writes were committed under an identity
  told,     \* history: answers clients were given
  clock,    \* transactions begun; a row's created_at is its transaction's start
  faults

vars == <<db, record, session, sent, applied, told, clock, faults>>

Operations == {"CREATE", "BOOK", "RESCHEDULE", "ACCEPT", "ESCALATE", "RECOVER", "EVENT"}

\* The unique key of an idempotency record: scope and key, of one actor.
Identities == Operations \X Keys

TicketCell(t) == <<"TICKET", t>>
VisitCell(v) == <<"VISIT", v>>
LogCell(v) == <<"LOG", v>>
Cells == {TicketCell(t) : t \in Tickets} \cup {VisitCell(v) : v \in Visits}
         \cup {LogCell(v) : v \in Visits}

TicketRow(status, version, rework, prior, subject) ==
  [status |-> status, version |-> version, rework |-> rework, prior |-> prior,
   subject |-> subject]
VisitRow(status, version, ticket, slot, purpose, created) ==
  [status |-> status, version |-> version, ticket |-> ticket, slot |-> slot,
   purpose |-> purpose, created |-> created]
LogRow(log) == [version |-> Len(log), log |-> log]

NoTicket == TicketRow("ABSENT", 0, 0, "NONE", None)
NoVisit == VisitRow("ABSENT", 0, None, None, "INITIAL_REPAIR", 0)

Idle == [stage |-> "IDLE"]

\* What an identity without a record stands for.
Nothing == [op |-> "NONE"]

Init ==
  /\ db \in Starts
  /\ record = [i \in Identities |-> Nothing]
  /\ session = [s \in Sessions |-> Idle]
  /\ sent = {}
  /\ applied = [i \in Identities |-> <<>>]
  /\ told = {}
  /\ clock = 1
  /\ faults = 0

-----------------------------------------------------------------------------
(***************************************************************************)
(* What a command reads, and what it decides on from there.                *)
(***************************************************************************)
\* The statements each handler reads with, in its order; LOCK is the SELECT FOR UPDATE.
Statements(op) ==
  CASE op = "CREATE" -> <<"MATCH">>
    [] op = "BOOK" -> <<"TICKET", "LATEST">>
    [] op = "RESCHEDULE" -> <<"TICKET", "VISIT">>
    [] op = "ESCALATE" -> <<"TICKET">>
    [] op = "EVENT" -> <<"LOCK", "LOG", "TICKET">>
    [] OTHER -> <<"TICKET", "LATEST", "LOG">>

NothingSeen == [ticket |-> NoTicket, id |-> None, visit |-> NoVisit, log |-> <<>>,
                match |-> FALSE]

\* One member, the same for the same set.
Any(S) == CHOOSE x \in S : TRUE

\* latest_for_ticket orders by created_at.
Newest(t, rows) ==
  {v \in Visits :
     /\ rows[VisitCell(v)].ticket = t
     /\ \A u \in Visits : rows[VisitCell(u)].ticket = t =>
                            rows[VisitCell(u)].created <= rows[VisitCell(v)].created}
LatestOf(t, rows) == IF Newest(t, rows) = {} THEN None ELSE Any(Newest(t, rows))

SeeVisit(seen, v, rows) ==
  [seen EXCEPT !.id = v, !.visit = IF v = None THEN NoVisit ELSE rows[VisitCell(v)]]

\* One statement's view of the rows, added to what was seen before.
See(seen, what, q, rows) ==
  CASE what = "MATCH" ->
         [seen EXCEPT !.match = \E t \in Tickets :
            /\ rows[TicketCell(t)].subject = q.subject
            /\ rows[TicketCell(t)].status \notin TerminalTicketStatus]
    [] what = "TICKET" -> [seen EXCEPT !.ticket = rows[TicketCell(q.ticket)]]
    [] what = "LATEST" -> SeeVisit(seen, LatestOf(q.ticket, rows), rows)
    [] what = "LOG" -> [seen EXCEPT !.log = IF seen.id = None THEN <<>>
                                            ELSE rows[LogCell(seen.id)].log]
    [] OTHER -> SeeVisit(seen, q.visit, rows)

\* ensure_aggregate_consistency on the latest visit.
Consistent(seen) ==
  /\ seen.ticket.status = "SCHEDULED" => seen.visit.status = "BOOKED"
  /\ seen.ticket.status = "IN_PROGRESS" =>
       seen.visit.status = "BOOKED" /\ LastEvent(seen.log) = "STARTED"
  /\ seen.ticket.status = "PENDING_ACCEPTANCE" =>
       seen.visit.status = "FULFILLED" /\ LastEvent(seen.log) = "COMPLETED"
  /\ seen.ticket.status \in {"OPEN", "REWORK_REQUIRED"} \cup TerminalTicketStatus =>
       seen.visit.status # "BOOKED"

\* The expected versions a request carries; accepting a repair may leave out the visit's.
VersionsMatch(q, seen) ==
  /\ q.op # "CREATE" => q.tver = seen.ticket.version
  /\ q.op \in {"RESCHEDULE", "EVENT"} => q.vver = seen.visit.version
  /\ q.op = "ACCEPT" /\ q.vver # 0 /\ seen.visit.status = "BOOKED" =>
       q.vver = seen.visit.version

RecoveryTarget(q, seen) ==
  {to \in TicketStatus :
     RecoverTo(q.disposition, seen.ticket.prior, seen.visit.status, LastEvent(seen.log), to)}

Allowed(q, seen) ==
  /\ VersionsMatch(q, seen)
  /\ CASE q.op = "CREATE" -> ~seen.match
       [] q.op = "BOOK" ->
            /\ seen.ticket.status \in {"OPEN", "REWORK_REQUIRED"}
            /\ seen.ticket.status = "REWORK_REQUIRED" =>
                 seen.ticket.rework >= 1 /\ seen.visit.status \in TerminalAppointmentStatus
       [] q.op = "RESCHEDULE" ->
            /\ seen.ticket.status = "SCHEDULED"
            /\ seen.visit.status = "BOOKED" /\ seen.visit.ticket = q.ticket
       [] q.op = "ACCEPT" ->
            /\ seen.id # None /\ Consistent(seen)
            /\ seen.ticket.status \in {"SCHEDULED", "IN_PROGRESS", "PENDING_ACCEPTANCE"}
       [] q.op = "ESCALATE" -> seen.ticket.status \in EscalatableStatus
       [] q.op = "RECOVER" -> seen.ticket.status = "ESCALATED" /\ RecoveryTarget(q, seen) # {}
       [] q.op = "EVENT" ->
            /\ seen.visit.status = "BOOKED" /\ seen.visit.ticket = q.ticket
            /\ seen.ticket.status = RequiredTicketStatus(q.evt)
            /\ SequenceAllows(q.evt, seen.log)
            /\ q.evt \in {"REJECTED", "CANCELLED"} =>
                 PurposeAgrees(seen.visit.purpose, seen.ticket.rework)

\* A write of one row, right only while the row has the version it was read with; a row
\* that is inserted has version 0 before.
Write(cell, expect, row) == [cell |-> cell, expect |-> expect, row |-> row]

MoveTicket(q, seen, to, rework) ==
  Write(TicketCell(q.ticket), seen.ticket.version,
        TicketRow(to, seen.ticket.version + 1, rework,
                  IF to = "ESCALATED" THEN seen.ticket.status ELSE "NONE", seen.ticket.subject))
EndVisit(seen, to) ==
  Write(VisitCell(seen.id), seen.visit.version,
        [seen.visit EXCEPT !.status = to, !.version = @ + 1])
AddVisit(q, seen, new, began, purpose) ==
  Write(VisitCell(new.visit), 0, VisitRow("BOOKED", 1, q.ticket, q.slot, purpose, began))

\* The handler's UPDATEs in their order, and last the rows its flush inserts.
Writes(q, seen, new, began) ==
  CASE q.op = "CREATE" ->
         <<Write(TicketCell(new.ticket), 0, TicketRow("OPEN", 1, 0, "NONE", q.subject))>>
    [] q.op = "BOOK" ->
         <<MoveTicket(q, seen, "SCHEDULED", seen.ticket.rework),
           AddVisit(q, seen, new, began, BookingPurpose(seen.ticket.status))>>
    [] q.op = "RESCHEDULE" ->
         <<MoveTicket(q, seen, "SCHEDULED", seen.ticket.rework),
           EndVisit(seen, "SUPERSEDED"),
           AddVisit(q, seen, new, began, seen.visit.purpose)>>
    [] q.op = "ACCEPT" ->
         (IF seen.visit.status = "BOOKED" THEN <<EndVisit(seen, "FULFILLED")>> ELSE <<>>)
         \o <<MoveTicket(q, seen, "CLOSED", seen.ticket.rework)>>
    [] q.op = "ESCALATE" -> <<MoveTicket(q, seen, "ESCALATED", seen.ticket.rework)>>
    [] q.op = "RECOVER" ->
         <<MoveTicket(q, seen, Any(RecoveryTarget(q, seen)),
             seen.ticket.rework + (IF q.disposition = "APPROVE_REWORK" THEN 1 ELSE 0))>>
    [] OTHER ->
         LET to == TicketAfter(q.evt, seen.visit.purpose, q.disposition, seen.ticket.status)
             rework == IF q.evt = "FAILED_TO_COMPLETE" /\ q.disposition = "REWORK" THEN 1 ELSE 0
             after == AppointmentAfter(q.evt)
         IN (IF to # seen.ticket.status
             THEN <<MoveTicket(q, seen, to, seen.ticket.rework + rework)>> ELSE <<>>)
            \o (IF after # "BOOKED" THEN <<EndVisit(seen, after)>> ELSE <<>>)
            \o <<Write(LogCell(seen.id), Len(seen.log), LogRow(Append(seen.log, q.evt)))>>

-----------------------------------------------------------------------------
(***************************************************************************)
(* Locks and constraints.                                                  *)
(***************************************************************************)
Running(s) == session[s].stage = "RUN"
Identity(s) == session[s].message.id
Request(s) == session[s].message.request
Next1(s) == Head(session[s].todo)

IsBooking(w) == w.cell[1] = "VISIT" /\ w.expect = 0
Clash(row, other) ==
  /\ row.status = "BOOKED" /\ other.status = "BOOKED"
  /\ row.ticket = other.ticket \/ row.slot = other.slot

VisitRows ==
  [status : AppointmentStatus \cup {"ABSENT"}, version : Nat, ticket : Tickets \cup {None},
   slot : Slots \cup {None}, purpose : AppointmentPurpose, created : Int]

\* The sessions find what earlier commands have left: rows of transactions that began
\* before theirs, where a visit that is not there is of no ticket, and a live one clashes
\* with no other and is its ticket's newest.
ASSUME StartAssumption ==
  \A rows \in Starts :
    /\ rows = [c \in Cells |-> rows[c]]
    /\ \A t \in Tickets : rows[TicketCell(t)].version \in Nat
    /\ \A v \in Visits : /\ rows[VisitCell(v)] \in VisitRows
                          /\ rows[VisitCell(v)].created < 1
                          /\ rows[LogCell(v)].log \in Seq(WorkerEventType)
    /\ \A v \in Visits : rows[VisitCell(v)].version = 0 => rows[VisitCell(v)].ticket \notin Tickets
    /\ \A v \in Visits : rows[VisitCell(v)].status = "BOOKED" =>
         /\ rows[VisitCell(v)].version >= 1 /\ rows[VisitCell(v)].ticket \in Tickets
         /\ \A u \in Visits \ {v} :
              /\ ~Clash(rows[VisitCell(v)], rows[VisitCell(u)])
              /\ rows[VisitCell(u)].ticket = rows[VisitCell(v)].ticket =>
                   rows[VisitCell(u)].created < rows[VisitCell(v)].created

\* Fault: a constraint check looks at committed rows only.
NeverContested(w, o) == FALSE

\* A constraint check meets a row another session inserts, or ends, without having
\* committed: it waits for that session.
ContestedBy(w, o) ==
  IsBooking(w) /\ \E i \in DOMAIN session[o].done :
    LET x == session[o].done[i] IN
    x.cell[1] = "VISIT" /\ (Clash(w.row, x.row) \/ Clash(w.row, db[x.cell]))

\* ON CONFLICT DO NOTHING waits for a session that has inserted the same key.
AwaitsKey(s, o) == session[s].stage = "ACQUIRE" /\ Identity(s) = Identity(o)
AwaitsLock(s, o) ==
  /\ Running(s) /\ session[s].reads # <<>> /\ Head(session[s].reads) = "LOCK"
  /\ VisitCell(Request(s).visit) \in session[o].locks
AwaitsRow(s, o) ==
  /\ Running(s) /\ session[s].reads = <<>> /\ session[s].todo # <<>>
  /\ Next1(s).cell \in session[o].locks \/ ContestedBy(Next1(s), o)

AwaitsSession(s, o) ==
  Running(o) /\ o # s /\ (AwaitsKey(s, o) \/ AwaitsLock(s, o) \/ AwaitsRow(s, o))
Blocked(s) == \E o \in Sessions : AwaitsSession(s, o)

\* Fault: nothing ever detects a deadlock.
NeverDeadlocked(s) == FALSE

\* Sessions that only wait for one another; the database aborts one of them.
Deadlocked(s) ==
  \E D \in SUBSET Sessions :
    /\ s \in D
    /\ \A x \in D : (\E y \in D : AwaitsSession(x, y)) /\ (\E y \in D : AwaitsSession(y, x))

\* Fault: an UPDATE does not look at the version again once it has the lock.
StillFitsUnversioned(s, w) ==
  IsBooking(w) =>
    \A v \in Visits :
      (\A i \in DOMAIN session[s].done : session[s].done[i].cell # VisitCell(v))
        => ~Clash(w.row, db[VisitCell(v)])

\* The version in the WHERE clause, and for a booking the unique ticket and the exclusive
\* calendar; the rows this session released do not count.
StillFits(s, w) ==
  /\ db[w.cell].version = w.expect
  /\ IsBooking(w) =>
       \A v \in Visits :
         (\A i \in DOMAIN session[s].done : session[s].done[i].cell # VisitCell(v))
           => ~Clash(w.row, db[VisitCell(v)])

-----------------------------------------------------------------------------
(***************************************************************************)
(* Clients.                                                                *)
(***************************************************************************)
\* A client fills in what it sees: the versions, and the visit that is the latest.  No
\* handler has more than three statements.
Seen(q, rows) ==
  LET stmts == Statements(q.op)
      Then(seen, n) == IF n > Len(stmts) THEN seen ELSE See(seen, stmts[n], q, rows)
  IN Then(Then(Then(NothingSeen, 1), 2), 3)

Blank(op) == [op |-> op, ticket |-> None, tver |-> 0, visit |-> None, vver |-> 0,
              slot |-> None, evt |-> "NONE", disposition |-> "NONE", subject |-> None]
About(op, t) == [Blank(op) EXCEPT !.ticket = t, !.tver = db[TicketCell(t)].version]
AboutVisit(op, t) ==
  LET v == LatestOf(t, db) IN
  [About(op, t) EXCEPT !.visit = v, !.vver = IF v = None THEN 0 ELSE db[VisitCell(v)].version]

\* What clients ask for, with the versions they know.
AtSlot(q, x) == [q EXCEPT !.slot = x]
Disposing(q, x) == [q EXCEPT !.disposition = x]
Reporting(q, x) == [q EXCEPT !.evt = x, !.disposition = "ESCALATE"]
Drafts ==
  {[Blank("CREATE") EXCEPT !.subject = x] : x \in Subjects}
  \cup {AtSlot(About("BOOK", t), x) : t \in Tickets, x \in Slots}
  \cup {AtSlot(AboutVisit("RESCHEDULE", t), x) : t \in Tickets, x \in Slots}
  \cup {About(op, t) : op \in {"ACCEPT", "ESCALATE"}, t \in Tickets}
  \cup {Disposing(About("RECOVER", t), x) : t \in Tickets, x \in RecoveryDisposition}
  \cup {Reporting(AboutVisit("EVENT", t), x) : t \in Tickets, x \in WorkerEventType}

\* The requests clients make: those that would succeed if nobody else were at work.
Requests ==
  {q \in Drafts : (q.op \in {"RESCHEDULE", "EVENT"} => q.visit # None) /\ Allowed(q, Seen(q, db))}

Deliver(s, m) ==
  /\ session[s] = Idle /\ clock <= MaxSubmissions
  /\ session' = [session EXCEPT ![s] =
       [stage |-> "ACQUIRE", message |-> m, began |-> clock, reads |-> Statements(m.request.op),
        seen |-> NothingSeen, todo |-> <<>>, done |-> <<>>, locks |-> {}]]
  /\ clock' = clock + 1
  /\ UNCHANGED <<db, record, applied, told, faults>>

\* Keys are interchangeable: an unused one is taken in order.
Submit(s) ==
  \E k \in Keys, q \in Requests :
    LET m == [id |-> <<q.op, k>>, request |-> q] IN
    /\ \A j \in Keys : j < k => \E other \in sent : other.id[2] = j
    /\ m \notin sent /\ Deliver(s, m)
    /\ sent' = sent \cup {m}

\* A retry, or the transport, delivers a request again.
Resubmit(s) == \E m \in sent : Deliver(s, m) /\ UNCHANGED sent

-----------------------------------------------------------------------------
(***************************************************************************)
(* One session's statements.                                               *)
(***************************************************************************)
Tell(m, answer) == told' = told \cup {[message |-> m, answer |-> answer]}
Close(s) == session' = [session EXCEPT ![s] = Idle]

\* A refusal rolls everything back, the idempotency row included.
Refuse(s) ==
  /\ Close(s) /\ Tell(session[s].message, "REFUSED")
  /\ UNCHANGED <<db, record, applied>>

\* Fault: the key is looked up without waiting for a session that holds it.
AcquireAtOnce(s) ==
  /\ session[s].stage = "ACQUIRE" /\ record[Identity(s)] = Nothing
  /\ session' = [session EXCEPT ![s].stage = "RUN"]
  /\ UNCHANGED <<db, record, sent, applied, told, clock, faults>>

Acquire(s) ==
  /\ session[s].stage = "ACQUIRE" /\ ~Blocked(s) /\ record[Identity(s)] = Nothing
  /\ session' = [session EXCEPT ![s].stage = "RUN"]
  /\ UNCHANGED <<db, record, sent, applied, told, clock, faults>>

\* The key has a committed record: the stored answer, or a conflict of request hashes.
Replay(s) ==
  /\ session[s].stage = "ACQUIRE" /\ ~Blocked(s) /\ record[Identity(s)] # Nothing
  /\ IF record[Identity(s)] = Request(s)
     THEN /\ Close(s) /\ Tell(session[s].message, "OK")
          /\ UNCHANGED <<db, record, applied>>
     ELSE Refuse(s)
  /\ UNCHANGED <<sent, clock, faults>>

Used(cell) ==
  \/ db[cell].version # 0
  \/ \E o \in Sessions : /\ Running(o)
                         /\ \E i \in DOMAIN session[o].todo : session[o].todo[i].cell = cell
  \/ \E o \in Sessions : /\ Running(o)
                         /\ \E i \in DOMAIN session[o].done : session[o].done[i].cell = cell
Fresh(ids, kind) == CHOOSE n \in ids : /\ ~Used(<<kind, n>>)
                                       /\ \A i \in ids : i < n => Used(<<kind, i>>)

\* One SELECT; after the last one the handler decides.
Read(s) ==
  LET me == session[s]
      now == See(me.seen, Head(me.reads), Request(s), db)
      new == [ticket |-> Fresh(Tickets, "TICKET"), visit |-> Fresh(Visits, "VISIT")]
      locks == IF Head(me.reads) = "LOCK" THEN me.locks \cup {VisitCell(Request(s).visit)}
               ELSE me.locks
  IN
  /\ Running(s) /\ me.reads # <<>> /\ ~Blocked(s)
  /\ IF Len(me.reads) > 1 \/ Allowed(Request(s), now)
     THEN /\ session' = [session EXCEPT ![s] =
               [me EXCEPT !.reads = Tail(@), !.seen = now, !.locks = locks,
                          !.todo = IF Len(me.reads) > 1 THEN <<>>
                                   ELSE Writes(Request(s), now, new, me.began)]]
          /\ UNCHANGED <<db, record, applied, told>>
     ELSE Refuse(s)
  /\ UNCHANGED <<sent, clock, faults>>

\* One UPDATE or INSERT, once its locks are free.
Execute(s) ==
  LET me == session[s] IN
  /\ Running(s) /\ me.todo # <<>> /\ ~Blocked(s)
  /\ IF StillFits(s, Next1(s))
     THEN /\ session' = [session EXCEPT ![s] =
               [me EXCEPT !.todo = Tail(@), !.done = Append(@, Next1(s)),
                          !.locks = @ \cup {Next1(s).cell}]]
          /\ UNCHANGED <<db, record, applied, told>>
     ELSE Refuse(s)
  /\ UNCHANGED <<sent, clock, faults>>

Written(s) == {session[s].done[i].cell : i \in DOMAIN session[s].done}

\* The idempotency record and the writes become visible at once.
Commit(s) ==
  /\ Running(s) /\ session[s].reads = <<>> /\ session[s].todo = <<>>
  /\ db' = [c \in Cells |->
       IF c \in Written(s)
       THEN session[s].done[CHOOSE i \in DOMAIN session[s].done : session[s].done[i].cell = c].row
       ELSE db[c]]
  /\ record' = [record EXCEPT ![Identity(s)] = Request(s)]
  /\ applied' = [applied EXCEPT ![Identity(s)] = Append(@, Request(s))]
  /\ Close(s)
  /\ \/ Tell(session[s].message, "OK") /\ UNCHANGED faults
     \/ Tell(session[s].message, "UNKNOWN") /\ faults < MaxFaults /\ faults' = faults + 1
  /\ UNCHANGED <<sent, clock>>

\* A deadlock is broken by failing one statement, a database error no handler translates.
BreakDeadlock(s) ==
  /\ Deadlocked(s)
  /\ Close(s) /\ Tell(session[s].message, "UNKNOWN")
  /\ UNCHANGED <<db, record, sent, applied, clock, faults>>

\* The connection or the process is lost before the commit; nothing is kept.
Abort(s) ==
  /\ session[s] # Idle /\ faults < MaxFaults
  /\ Close(s) /\ Tell(session[s].message, "UNKNOWN")
  /\ faults' = faults + 1
  /\ UNCHANGED <<db, record, sent, applied, clock>>

Advance(s) ==
  Acquire(s) \/ Replay(s) \/ Read(s) \/ Execute(s) \/ Commit(s) \/ BreakDeadlock(s)

Next == \E s \in Sessions : Submit(s) \/ Resubmit(s) \/ Advance(s) \/ Abort(s)

Spec == Init /\ [][Next]_vars

\* The server keeps executing the statements of its open transactions.
FairSpec == Spec /\ \A s \in Sessions : WF_vars(Advance(s))

-----------------------------------------------------------------------------
(***************************************************************************)
(* Properties.                                                             *)
(***************************************************************************)
\* Under one idempotency key at most one request takes effect, once, however often and
\* concurrently it is delivered; success is told only of it, refusal never of it, and a
\* refused or broken attempt leaves nothing behind.
effect == [i \in Identities |-> CASE applied[i] = <<>> -> Nothing
                                  [] Len(applied[i]) = 1 -> applied[i][1]
                                  [] OTHER -> applied[i]]
Contract == INSTANCE CommandContract WITH effect <- effect, None <- Nothing
ImplementsContract == Contract!Spec

\* A worker is booked at most once for a slot and a ticket at most once at all, and the
\* booked visit is the one latest_for_ticket returns, although created_at is when the
\* booking's transaction began and bookings commit in another order.
BookingsSound ==
  \A v \in Visits :
    db[VisitCell(v)].status = "BOOKED" =>
      /\ \A u \in Visits : u # v => ~Clash(db[VisitCell(v)], db[VisitCell(u)])
      /\ LatestOf(db[VisitCell(v)].ticket, db) = v

\* The events that change no row a version protects.
Unprotected(q) == q.op = "CREATE" \/ (q.op = "EVENT" /\ q.evt \in {"ACCEPTED", "DEPARTED", "ARRIVED"})

\* What a committing session wrote is what its handler would decide on the rows it
\* commits on top of.
DecidedOnCurrent(s) ==
  LET q == Request(s)
      now == Seen(q, db)
      new == [ticket |-> 0, visit |-> 0]
      fresh == Writes(q, now, new, session[s].began)
      done == session[s].done
  IN /\ Allowed(q, now)
     /\ Len(fresh) = Len(done)
     /\ \A i \in DOMAIN done : /\ fresh[i].expect = done[i].expect
                               /\ fresh[i].row = done[i].row

\* No update is lost: a command that changes a ticket commits exactly what it would have
\* decided had it read at the moment of its commit, whatever it read unlocked before.
CommitsAreSerial ==
  [][\A s \in Sessions :
       db' # db /\ Running(s) /\ session'[s] = Idle /\ ~Unprotected(Request(s)) =>
         DecidedOnCurrent(s)]_vars

\* Every session comes to an end: locks are never held for ever, a deadlock is broken.
SessionsEnd == \A s \in Sessions : session[s] # Idle ~> session[s] = Idle

-----------------------------------------------------------------------------
(***************************************************************************)
(* Statements of the repository that do not hold of the code.              *)
(***************************************************************************)
\* docs/STATE_MACHINE.md, creation: "no disallowed duplicate".  The check reads what is
\* committed, and no constraint repeats it.
NoDisallowedDuplicate ==
  \A t, u \in Tickets :
    t # u /\ db[TicketCell(t)].subject = db[TicketCell(u)].subject =>
      {db[TicketCell(t)].status, db[TicketCell(u)].status} \cap (TerminalTicketStatus \cup {"ABSENT"}) # {}

\* docs/STATE_MACHINE.md, guard order: "Version mismatch causes no aggregate/history/event
\* update."  ACCEPTED, DEPARTED and ARRIVED never compare the ticket's version again.
EventsFitTicket ==
  [][\A v \in Visits :
       db'[LogCell(v)] # db[LogCell(v)] =>
         db[TicketCell(db[VisitCell(v)].ticket)].status
           = RequiredTicketStatus(LastEvent(db'[LogCell(v)].log))]_vars
=============================================================================
