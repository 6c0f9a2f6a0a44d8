--------------------------- MODULE OutboxDispatch ---------------------------
(***************************************************************************)
(* Delivery of the transactional outbox (backend/app/outbox): dispatcher   *)
(* processes claim batches of rows under a lease, project each event into  *)
(* the trace outside the claim transaction, and acknowledge or fail it     *)
(* behind a fencing token.  Each action is one database transaction or one *)
(* step of a dispatcher between two transactions.                          *)
(*                                                                         *)
(* Time is not counted: a row's `elapsed` says that the instant it waits   *)
(* for has passed, its available_at while it is PENDING and its            *)
(* claim_expires_at while it is PROCESSING.                                *)
(***************************************************************************)
EXTENDS Naturals, Sequences

CONSTANTS
  Events,       \* outbox rows that commands may commit
  Poison,       \* events the projector can never project
  RunLinked,    \* events that carry the run_id of a stored agent run
  Processes,    \* dispatcher processes
  WorkerId,     \* the worker_id each process claims under; ids may coincide
  BatchSize,
  MaxAttempts,
  MaxTrouble,   \* bound on crashes, lease overruns and failed transactions
  None

ASSUME EventAssumption == Poison \subseteq Events /\ RunLinked \subseteq Events
ASSUME WorkerAssumption == DOMAIN WorkerId = Processes /\ \A p \in Processes : WorkerId[p] # None
ASSUME LimitAssumption ==
  BatchSize \in Nat \ {0} /\ MaxAttempts \in Nat \ {0} /\ MaxTrouble \in Nat

VARIABLES
  row,        \* outbox_events
  projected,  \* events whose row exists in agent_trace_events
  batch,      \* claims a process still has to work through, the current one first
  stage,      \* how far a process is with its current claim
  issued,     \* how many claim tokens have been drawn
  trouble     \* how much of MaxTrouble is used up

vars == <<row, projected, batch, stage, issued, trouble>>

NoRow == [status |-> "ABSENT", claimed_by |-> None, claim_token |-> 0, attempts |-> 0,
          elapsed |-> FALSE]

Init ==
  /\ row = [e \in Events |-> NoRow]
  /\ projected = {}
  /\ batch = [p \in Processes |-> <<>>]
  /\ stage = [p \in Processes |-> "CLAIMED"]
  /\ issued = 0
  /\ trouble = 0

Settled == {"DISPATCHED", "DEAD_LETTER"}
Working(p) == batch[p] # <<>>
Current(p) == Head(batch[p]).event
Token(p) == Head(batch[p]).token

-----------------------------------------------------------------------------
\* The command's transaction commits the row; it may be claimed at once.
AddEvent(e) ==
  /\ row[e].status = "ABSENT"
  /\ row' = [row EXCEPT ![e].status = "PENDING", ![e].elapsed = TRUE]
  /\ UNCHANGED <<projected, batch, stage, issued, trouble>>

\* Fault: claims whose lease expired are not taken over.
EligibleUnclaimed(e) == row[e].status = "PENDING" /\ row[e].elapsed

Eligible(e) == row[e].status \in {"PENDING", "PROCESSING"} /\ row[e].elapsed

\* Some of the eligible rows, in some order: others may come later in the queue or be
\* locked by a claim of another process, which SKIP LOCKED passes over.
Orders == {order \in UNION {[1..n -> Events] : n \in 1..BatchSize} :
             /\ \A i \in DOMAIN order : Eligible(order[i])
             /\ \A i, j \in DOMAIN order : order[i] = order[j] => i = j}

\* Fault: a claim that is taken over keeps its token.
ClaimKeepingToken(p, order) ==
  LET token(i) == IF row[order[i]].status = "PROCESSING" THEN row[order[i]].claim_token
                  ELSE issued + i
  IN
  /\ row' = [e \in Events |->
       IF \E i \in DOMAIN order : order[i] = e
       THEN [row[e] EXCEPT !.status = "PROCESSING", !.claimed_by = WorkerId[p],
                           !.claim_token = token(CHOOSE i \in DOMAIN order : order[i] = e),
                           !.elapsed = FALSE]
       ELSE row[e]]
  /\ batch' = [batch EXCEPT ![p] =
       [i \in DOMAIN order |-> [event |-> order[i], token |-> token(i)]]]
  /\ issued' = issued + Len(order)

\* Every acquisition, a reclaimed expired lease included, draws a fresh token.
Claim(p, order) ==
  /\ row' = [e \in Events |->
       IF \E i \in DOMAIN order : order[i] = e
       THEN [row[e] EXCEPT !.status = "PROCESSING", !.claimed_by = WorkerId[p],
                           !.claim_token = issued + (CHOOSE i \in DOMAIN order : order[i] = e),
                           !.elapsed = FALSE]
       ELSE row[e]]
  /\ batch' = [batch EXCEPT ![p] =
       [i \in DOMAIN order |-> [event |-> order[i], token |-> issued + i]]]
  /\ issued' = issued + Len(order)

ClaimBatch(p) ==
  /\ ~Working(p)
  /\ \E order \in Orders : Claim(p, order)
  /\ stage' = [stage EXCEPT ![p] = "CLAIMED"]
  /\ UNCHANGED <<projected, trouble>>

-----------------------------------------------------------------------------
(***************************************************************************)
(* The consumer, outside any claim transaction.                            *)
(***************************************************************************)
\* An unsupported type, or a run that is not stored: the projector raises.
RejectPoison(p) ==
  /\ Working(p) /\ stage[p] = "CLAIMED" /\ Current(p) \in Poison
  /\ stage' = [stage EXCEPT ![p] = "FAILED"]
  /\ UNCHANGED <<row, projected, batch, issued, trouble>>

\* append_event of an event with a run: the run's row is locked and the event key looked
\* up again under the lock, so this is one atomic insert-if-missing.
ProjectUnderRun(p) ==
  /\ Working(p) /\ stage[p] = "CLAIMED" /\ Current(p) \in RunLinked \ Poison
  /\ projected' = projected \cup {Current(p)}
  /\ stage' = [stage EXCEPT ![p] = "DELIVERED"]
  /\ UNCHANGED <<row, batch, issued, trouble>>

\* Without a run nothing is locked: the key is looked up, and inserted later.
LookUp(p) ==
  /\ Working(p) /\ stage[p] = "CLAIMED" /\ Current(p) \notin RunLinked \cup Poison
  /\ stage' = [stage EXCEPT ![p] = IF Current(p) \in projected THEN "DELIVERED" ELSE "MISSING"]
  /\ UNCHANGED <<row, projected, batch, issued, trouble>>

\* The unique event key refuses a second row: the insert raises and counts as a failure.
Insert(p) ==
  /\ Working(p) /\ stage[p] = "MISSING"
  /\ projected' = projected \cup {Current(p)}
  /\ stage' = [stage EXCEPT ![p] = IF Current(p) \in projected THEN "FAILED" ELSE "DELIVERED"]
  /\ UNCHANGED <<row, batch, issued, trouble>>

\* The consumer's transaction raises, before its commit or after it.
ConsumerRaises(p) ==
  /\ Working(p) /\ stage[p] \in {"CLAIMED", "MISSING"} /\ trouble < MaxTrouble
  /\ \/ UNCHANGED projected
     \/ Current(p) \notin Poison /\ projected' = projected \cup {Current(p)}
  /\ stage' = [stage EXCEPT ![p] = "FAILED"]
  /\ trouble' = trouble + 1
  /\ UNCHANGED <<row, batch, issued>>

-----------------------------------------------------------------------------
(***************************************************************************)
(* Acknowledgement, fenced by the claim.                                   *)
(***************************************************************************)

Holds(p) ==
  /\ row[Current(p)].status = "PROCESSING"
  /\ row[Current(p)].claimed_by = WorkerId[p]
  /\ row[Current(p)].claim_token = Token(p)

\* A row that goes back to PENDING waits for its backoff.
Release(e, status, attempts) ==
  row' = [row EXCEPT ![e] = [status |-> status, claimed_by |-> None, claim_token |-> 0,
                             attempts |-> attempts, elapsed |-> FALSE]]

GoOn(p) ==
  /\ batch' = [batch EXCEPT ![p] = Tail(@)]
  /\ stage' = [stage EXCEPT ![p] = "CLAIMED"]

\* OutboxLeaseLost leaves dispatch_once and run_forever: the process ends and its
\* remaining claims wait for their leases to expire.  Whoever starts it again finds it idle.
Exit(p) ==
  /\ batch' = [batch EXCEPT ![p] = <<>>]
  /\ stage' = [stage EXCEPT ![p] = "CLAIMED"]

\* Fault: a failed delivery is acknowledged like a successful one.
MarkDispatchedRegardless(p) ==
  /\ Working(p) /\ stage[p] \in {"DELIVERED", "FAILED"}
  /\ IF Holds(p)
     THEN Release(Current(p), "DISPATCHED", row[Current(p)].attempts) /\ GoOn(p)
     ELSE UNCHANGED row /\ Exit(p)
  /\ UNCHANGED <<projected, issued, trouble>>

MarkDispatched(p) ==
  /\ Working(p) /\ stage[p] = "DELIVERED"
  /\ IF Holds(p)
     THEN Release(Current(p), "DISPATCHED", row[Current(p)].attempts) /\ GoOn(p)
     ELSE UNCHANGED row /\ Exit(p)
  /\ UNCHANGED <<projected, issued, trouble>>

\* Fault: one attempt fewer than configured.
GivesUpEarly(next) == next + 1 >= MaxAttempts

GivesUp(next) == next >= MaxAttempts

MarkFailed(p) ==
  /\ Working(p) /\ stage[p] = "FAILED"
  /\ IF Holds(p)
     THEN /\ LET next == row[Current(p)].attempts + 1 IN
             Release(Current(p), IF GivesUp(next) THEN "DEAD_LETTER" ELSE "PENDING", next)
          /\ GoOn(p)
     ELSE UNCHANGED row /\ Exit(p)
  /\ UNCHANGED <<projected, issued, trouble>>

-----------------------------------------------------------------------------
\* A live claim whose process still works on it.
HeldBy(e, p) == \E i \in DOMAIN batch[p] : batch[p][i].event = e
                                           /\ batch[p][i].token = row[e].claim_token

\* The process dies, or one of its own transactions fails and the error ends it.
Crash(p) ==
  /\ Working(p) /\ trouble < MaxTrouble
  /\ Exit(p)
  /\ trouble' = trouble + 1
  /\ UNCHANGED <<row, projected, issued>>

\* The backoff is over, or the lease of a claim nobody works on any more expires.
Elapse(e) ==
  /\ row[e].status \in {"PENDING", "PROCESSING"} /\ ~row[e].elapsed
  /\ row[e].status = "PROCESSING" => ~\E p \in Processes : HeldBy(e, p)
  /\ row' = [row EXCEPT ![e].elapsed = TRUE]
  /\ UNCHANGED <<projected, batch, stage, issued, trouble>>

\* A lease expires while its process is still at work.
Overrun(e) ==
  /\ row[e].status = "PROCESSING" /\ ~row[e].elapsed /\ trouble < MaxTrouble
  /\ \E p \in Processes : HeldBy(e, p)
  /\ row' = [row EXCEPT ![e].elapsed = TRUE]
  /\ trouble' = trouble + 1
  /\ UNCHANGED <<projected, batch, stage, issued>>

Dispatch(p) ==
  \/ ClaimBatch(p)
  \/ RejectPoison(p) \/ ProjectUnderRun(p) \/ LookUp(p) \/ Insert(p)
  \/ MarkDispatched(p) \/ MarkFailed(p)

Next ==
  \/ \E e \in Events : AddEvent(e) \/ Elapse(e) \/ Overrun(e)
  \/ \E p \in Processes : Dispatch(p) \/ ConsumerRaises(p) \/ Crash(p)

\* Every process runs its loop, and time passes.
Fairness ==
  /\ \A p \in Processes : WF_vars(Dispatch(p))
  /\ \A e \in Events : WF_vars(Elapse(e))

Spec == Init /\ [][Next]_vars
FairSpec == Spec /\ Fairness

-----------------------------------------------------------------------------
(***************************************************************************)
(* Properties.                                                             *)
(***************************************************************************)
\* The database's own checks: a row carries a claim exactly while it is PROCESSING
\* (claim_matches_status), and attempts are counted up to the limit.
TypeOK ==
  /\ row \in [Events -> [status : {"ABSENT", "PENDING", "PROCESSING"} \cup Settled,
                         claimed_by : {WorkerId[p] : p \in Processes} \cup {None},
                         claim_token : Nat, attempts : 0..MaxAttempts, elapsed : BOOLEAN]]
  /\ \A e \in Events :
       /\ (row[e].status = "PROCESSING") <=> (row[e].claimed_by # None)
       /\ (row[e].status = "PROCESSING") <=> (row[e].claim_token # 0)
  /\ projected \subseteq Events
  /\ batch \in [Processes -> Seq([event : Events, token : Nat \ {0}])]
  /\ stage \in [Processes -> {"CLAIMED", "MISSING", "DELIVERED", "FAILED"}]
  /\ issued \in Nat /\ trouble \in 0..MaxTrouble

\* A row is held by at most one process at a time, and never by a token that was not its
\* last one, even where processes share a worker id and leases expire under them
\* (claim_batch draws a fresh token on every acquisition).
SoleHolder ==
  \A e \in Events : \A p, q \in Processes : HeldBy(e, p) /\ HeldBy(e, q) => p = q

ClaimEndsByHolder ==
  \A e \in Events :
    row[e].status = "PROCESSING" /\ row'[e].status # "PROCESSING"
      => \E p \in Processes : HeldBy(e, p) /\ batch'[p] = Tail(batch[p])

\* A claim ends only by the hand of the process that holds it: an acknowledgement or a
\* failure of a superseded claim changes nothing (OutboxLeaseLost).
FencedRelease == [][ClaimEndsByHolder]_vars

\* An event is acknowledged only once its trace exists, is given up only after max_attempts
\* counted failures, and neither outcome is revised: dispatch implements the contract.
promise == [e \in Events |-> IF row[e].status \in {"PENDING", "PROCESSING"} THEN "OWED"
                             ELSE row[e].status]
failures == [e \in Events |-> row[e].attempts]
Contract == INSTANCE OutboxContract WITH
  promise <- promise, failures <- failures, projected <- projected
ImplementsContract == Contract!Spec

\* Every committed event reaches DISPATCHED or DEAD_LETTER: neither crashes and expired
\* leases nor an event that always fails leave another one behind.
EverySettles == \A e \in Events : row[e].status = "PENDING" ~> row[e].status \in Settled

\* An event the projector supports is not given up for troubles fewer than the attempts it
\* has: each lost lease, crash or failed transaction costs it one attempt at most.
SupportedDispatched ==
  \A e \in Events \ Poison :
    MaxTrouble < MaxAttempts => (row[e].status = "PENDING" ~> row[e].status = "DISPATCHED")
=============================================================================
