--------------------------- MODULE Reconciliation ---------------------------
(***************************************************************************)
(* Reconciliation of unknown commits (backend/app/reconciliation), with    *)
(* the two sides it stands between: the owner of a mutation, who sends it  *)
(* and loses its answer, and the attempts under way at the server, which   *)
(* may still commit after the owner gave up on them.  Workers claim cases  *)
(* under a lease, read the evidence one query at a time, and settle or     *)
(* retry them behind a fencing token.                                      *)
(*                                                                         *)
(* A mutation is one operation_id: every attempt carries its key, so an    *)
(* attempt that finds the key's record replays it (CommandTransactions     *)
(* shows that).  Time is not counted: a case's `elapsed` says that the     *)
(* instant it waits for has passed, available_at while it is PENDING and   *)
(* claim_expires_at while it is PROCESSING.                                *)
(***************************************************************************)
EXTENDS Naturals, Sequences

CONSTANTS
  Mutations,    \* operation identities
  Workers,      \* reconciliation workers
  WorkerId,     \* the worker_id each claims under; ids may coincide
  BatchSize,
  MaxAttempts,
  MaxSends,     \* bound on how often an owner dispatches each mutation
  MaxTrouble,   \* bound on crashes, failed queries, lease overruns and revoked rights
  None

ASSUME WorkerAssumption == DOMAIN WorkerId = Workers /\ \A p \in Workers : WorkerId[p] # None
ASSUME LimitAssumption ==
  /\ BatchSize \in Nat \ {0} /\ MaxAttempts \in Nat \ {0} /\ MaxTrouble \in Nat
  /\ MaxSends \in [Mutations -> Nat \ {0}]

VARIABLES
  case,       \* operation_reconciliation_cases, one per mutation
  sends,      \* how often its owner has dispatched a mutation
  flying,     \* attempts the server has not finished
  effects,    \* how often the mutation was committed with its record and outbox row
  moved,      \* a later command has moved the version of the mutation's entity
  permitted,  \* the owner's account and property relation are active
  owner,      \* how far the owner is with the mutation
  batch,      \* claims a worker still has to work through, the current one first
  stage,      \* how far a worker is with its current claim
  issued,     \* how many claim tokens have been drawn
  sighted,    \* history: whether the mutation had taken effect when its case was claimed
  trouble     \* how much of MaxTrouble is used up

world == <<sends, flying, effects, moved, permitted, owner>>
work == <<case, batch, stage, issued, sighted>>
vars == <<case, sends, flying, effects, moved, permitted, owner, batch, stage, issued, sighted,
          trouble>>

NoCase == [status |-> "ABSENT", claimed_by |-> None, claim_token |-> 0, attempts |-> 0,
           elapsed |-> FALSE]

Init ==
  /\ case = [o \in Mutations |-> NoCase]
  /\ sends = [o \in Mutations |-> 0]
  /\ flying = [o \in Mutations |-> {}]
  /\ effects = [o \in Mutations |-> 0]
  /\ moved = [o \in Mutations |-> FALSE]
  /\ permitted = [o \in Mutations |-> TRUE]
  /\ owner = [o \in Mutations |-> "READY"]
  /\ batch = [p \in Workers |-> <<>>]
  /\ stage = [p \in Workers |-> "CLAIMED"]
  /\ issued = 0
  /\ sighted = [o \in Mutations |-> FALSE]
  /\ trouble = 0

Settled == {"RESOLVED_COMMITTED", "RESOLVED_NOT_COMMITTED", "MANUAL_REVIEW"}
Working(p) == batch[p] # <<>>
Current(p) == Head(batch[p]).mutation
Token(p) == Head(batch[p]).token
Committed(o) == effects[o] > 0

Suffer == trouble < MaxTrouble /\ trouble' = trouble + 1

-----------------------------------------------------------------------------
(***************************************************************************)
(* The owner and the server.                                               *)
(***************************************************************************)
Dispatch(o) ==
  /\ owner[o] = "READY" /\ sends[o] < MaxSends[o]
  /\ sends' = [sends EXCEPT ![o] = @ + 1]
  /\ flying' = [flying EXCEPT ![o] = @ \cup {sends[o] + 1}]
  /\ owner' = [owner EXCEPT ![o] = "AWAITING"]
  /\ UNCHANGED <<effects, moved, permitted, work, trouble>>

\* An attempt comes to its end; the owner gets the answer if it is the one awaited.
Finish(o, a, answer) ==
  /\ a \in flying[o]
  /\ flying' = [flying EXCEPT ![o] = @ \ {a}]
  /\ \/ UNCHANGED owner
     \/ /\ owner[o] = "AWAITING" /\ a = sends[o]
        /\ owner' = [owner EXCEPT ![o] = answer]

\* Fault: an attempt does not look for the key's record.
CommitAgain(o, a) ==
  /\ Finish(o, a, "DONE")
  /\ effects' = [effects EXCEPT ![o] = @ + 1]
  /\ UNCHANGED <<sends, moved, permitted, work, trouble>>

\* It commits the entity, its record and its outbox row, or replays the record.
Commit(o, a) ==
  /\ Finish(o, a, "DONE")
  /\ effects' = [effects EXCEPT ![o] = IF Committed(o) THEN @ ELSE 1]
  /\ UNCHANGED <<sends, moved, permitted, work, trouble>>

\* It is refused or broken, and rolled back.
Fail(o, a) ==
  /\ ~Committed(o)
  /\ Finish(o, a, "REFUSED")
  /\ UNCHANGED <<sends, effects, moved, permitted, work, trouble>>

\* create_or_get: one case per operation_id, whatever its state.
CreateOrGet(o) ==
  case' = IF case[o].status = "ABSENT"
          THEN [case EXCEPT ![o] = [NoCase EXCEPT !.status = "PENDING", !.elapsed = TRUE]]
          ELSE case

\* UnknownCommit: the case is stored, then the checkpoint that blocks the owner.
RecordUnknown(o) ==
  /\ owner[o] = "AWAITING"
  /\ CreateOrGet(o)
  /\ owner' = [owner EXCEPT ![o] = "BLOCKED"]
  /\ UNCHANGED <<sends, flying, effects, moved, permitted, batch, stage, issued, sighted, trouble>>

\* The owner's process dies before both are stored: its next turn dispatches again.
ForgetUnknown(o) ==
  /\ owner[o] = "AWAITING" /\ Suffer
  /\ CreateOrGet(o) \/ UNCHANGED case
  /\ owner' = [owner EXCEPT ![o] = "READY"]
  /\ UNCHANGED <<sends, flying, effects, moved, permitted, batch, stage, issued, sighted>>

\* The owner's next turn reads the case.  A booking confirmed by it must still be the
\* ticket's active one; NOT_COMMITTED keeps the pending operation and its key.
Refresh(o) ==
  /\ owner[o] = "BLOCKED" /\ permitted[o] /\ case[o].status \in Settled
  /\ \E next \in CASE case[o].status = "RESOLVED_COMMITTED" ->
                        IF moved[o] THEN {"DONE", "REVIEW"} ELSE {"DONE"}
                   [] case[o].status = "RESOLVED_NOT_COMMITTED" -> {"READY"}
                   [] OTHER -> {"REVIEW"} :
       owner' = [owner EXCEPT ![o] = next]
  /\ UNCHANGED <<sends, flying, effects, moved, permitted, work, trouble>>

\* Another command, of an operator or a worker, changes the entity.
MoveOn(o) ==
  /\ Committed(o) /\ ~moved[o]
  /\ moved' = [moved EXCEPT ![o] = TRUE]
  /\ UNCHANGED <<sends, flying, effects, permitted, owner, work, trouble>>

Revoke(o) ==
  /\ permitted[o] /\ Suffer
  /\ permitted' = [permitted EXCEPT ![o] = FALSE]
  /\ UNCHANGED <<sends, flying, effects, moved, owner, work>>

Restore(o) ==
  /\ ~permitted[o]
  /\ permitted' = [permitted EXCEPT ![o] = TRUE]
  /\ UNCHANGED <<sends, flying, effects, moved, owner, work, trouble>>

-----------------------------------------------------------------------------
(***************************************************************************)
(* Claims.                                                                 *)
(***************************************************************************)
\* Fault: claims whose lease expired are not taken over.
EligibleUnclaimed(o) == case[o].status = "PENDING" /\ case[o].elapsed

Eligible(o) == case[o].status \in {"PENDING", "PROCESSING"} /\ case[o].elapsed

\* Some of the eligible cases in some order; SKIP LOCKED passes over the others.
Orders == {order \in UNION {[1..n -> Mutations] : n \in 1..BatchSize} :
             /\ \A i \in DOMAIN order : Eligible(order[i])
             /\ \A i, j \in DOMAIN order : order[i] = order[j] => i = j}

\* Every acquisition draws a fresh token and counts as an attempt.
Claim(p) ==
  /\ ~Working(p)
  /\ \E order \in Orders :
       LET at(o) == CHOOSE i \in DOMAIN order : order[i] = o
           taken == {order[i] : i \in DOMAIN order}
       IN
       /\ case' = [o \in Mutations |->
            IF o \in taken
            THEN [status |-> "PROCESSING", claimed_by |-> WorkerId[p],
                  claim_token |-> issued + at(o), attempts |-> case[o].attempts + 1,
                  elapsed |-> FALSE]
            ELSE case[o]]
       /\ batch' = [batch EXCEPT ![p] =
            [i \in DOMAIN order |-> [mutation |-> order[i], token |-> issued + i,
                                     attempts |-> case[order[i]].attempts + 1]]]
       /\ sighted' = [o \in Mutations |-> IF o \in taken THEN Committed(o) ELSE sighted[o]]
       /\ issued' = issued + Len(order)
  /\ stage' = [stage EXCEPT ![p] = "CLAIMED"]
  /\ UNCHANGED <<world, trouble>>

-----------------------------------------------------------------------------
(***************************************************************************)
(* The evidence, one query after another under READ COMMITTED.             *)
(***************************************************************************)
Advance(p, from, to) ==
  /\ Working(p) /\ stage[p] = from
  /\ stage' = [stage EXCEPT ![p] = to]
  /\ UNCHANGED <<world, case, batch, issued, sighted, trouble>>

\* The frozen identity must still be authorized: otherwise the query raises.
Authorize(p) == Advance(p, "CLAIMED", IF permitted[Current(p)] THEN "AUTHORIZED" ELSE "FAILED")

ReadRecord(p) == Advance(p, "AUTHORIZED", IF Committed(Current(p)) THEN "RECORD" ELSE "NO_RECORD")

\* No record when it was read, but an outbox row a moment later, contradict each other.
ReadOutbox(p) ==
  Advance(p, "NO_RECORD", IF Committed(Current(p)) THEN "INCONSISTENT" ELSE "NOT_COMMITTED")

\* The entity must have the version of the stored response.
ReadEntity(p) ==
  Advance(p, "RECORD", IF moved[Current(p)] THEN "INCONSISTENT" ELSE "COMMITTED")

Verdict(p) ==
  CASE stage[p] = "COMMITTED" -> "RESOLVED_COMMITTED"
    [] stage[p] = "NOT_COMMITTED" -> "RESOLVED_NOT_COMMITTED"
    [] OTHER -> "MANUAL_REVIEW"

\* The query does not come back: transport, server or database.
QueryFails(p) ==
  /\ Working(p) /\ stage[p] \in {"CLAIMED", "AUTHORIZED", "RECORD", "NO_RECORD"} /\ Suffer
  /\ stage' = [stage EXCEPT ![p] = "FAILED"]
  /\ UNCHANGED <<world, case, batch, issued, sighted>>

-----------------------------------------------------------------------------
(***************************************************************************)
(* Settling, fenced by the claim.                                          *)
(***************************************************************************)
\* Fault: the fence compares the worker id only.
HoldsById(p) ==
  /\ case[Current(p)].status = "PROCESSING"
  /\ case[Current(p)].claimed_by = WorkerId[p]

Holds(p) ==
  /\ case[Current(p)].status = "PROCESSING"
  /\ case[Current(p)].claimed_by = WorkerId[p]
  /\ case[Current(p)].claim_token = Token(p)

Release(p, status) ==
  case' = [case EXCEPT ![Current(p)] =
    [status |-> status, claimed_by |-> None, claim_token |-> 0, attempts |-> @.attempts,
     elapsed |-> FALSE]]

GoOn(p) ==
  /\ batch' = [batch EXCEPT ![p] = Tail(@)]
  /\ stage' = [stage EXCEPT ![p] = "CLAIMED"]

\* The worker ends and its claims wait for their leases; started again it is idle.
Exit(p) ==
  /\ batch' = [batch EXCEPT ![p] = <<>>]
  /\ stage' = [stage EXCEPT ![p] = "CLAIMED"]

\* A stale claim raises inside the try: the handler then retries or settles the case with
\* the same claim, which is stale as well and ends the worker.
Conclude(p, status) ==
  /\ IF Holds(p) THEN Release(p, status) /\ GoOn(p) ELSE UNCHANGED case /\ Exit(p)
  /\ UNCHANGED <<world, issued, sighted, trouble>>

Resolve(p) ==
  /\ Working(p) /\ stage[p] \in {"COMMITTED", "NOT_COMMITTED", "INCONSISTENT"}
  /\ Conclude(p, Verdict(p))

GivesUp(attempts) == attempts >= MaxAttempts

\* After the last attempt the case is INCONSISTENT, EVIDENCE_UNAVAILABLE.
RetryOrGiveUp(p) ==
  /\ Working(p) /\ stage[p] = "FAILED"
  /\ Conclude(p, IF GivesUp(Head(batch[p]).attempts) THEN "MANUAL_REVIEW" ELSE "PENDING")

\* An operator's recheck makes a waiting case available at once.
Recheck(o) ==
  /\ case[o].status = "PENDING" /\ ~case[o].elapsed
  /\ case' = [case EXCEPT ![o].elapsed = TRUE]
  /\ UNCHANGED <<world, batch, stage, issued, sighted, trouble>>

-----------------------------------------------------------------------------
\* A live claim whose worker still works on it.
HeldBy(o, p) == \E i \in DOMAIN batch[p] : /\ batch[p][i].mutation = o
                                           /\ batch[p][i].token = case[o].claim_token

\* The worker dies.
Crash(p) ==
  /\ Working(p) /\ Suffer
  /\ Exit(p)
  /\ UNCHANGED <<world, case, issued, sighted>>

\* The backoff is over, or the lease of a claim nobody works on any more expires.
Elapse(o) ==
  /\ case[o].status \in {"PENDING", "PROCESSING"} /\ ~case[o].elapsed
  /\ case[o].status = "PROCESSING" => ~\E p \in Workers : HeldBy(o, p)
  /\ case' = [case EXCEPT ![o].elapsed = TRUE]
  /\ UNCHANGED <<world, batch, stage, issued, sighted, trouble>>

\* A lease expires while its worker is still at work.
Overrun(o) ==
  /\ case[o].status = "PROCESSING" /\ ~case[o].elapsed /\ Suffer
  /\ \E p \in Workers : HeldBy(o, p)
  /\ case' = [case EXCEPT ![o].elapsed = TRUE]
  /\ UNCHANGED <<world, batch, stage, issued, sighted>>

RunOnce(p) ==
  \/ Claim(p)
  \/ Authorize(p) \/ ReadRecord(p) \/ ReadOutbox(p) \/ ReadEntity(p)
  \/ Resolve(p) \/ RetryOrGiveUp(p)

Next ==
  \/ \E o \in Mutations :
       \/ Dispatch(o) \/ \E a \in flying[o] : Commit(o, a) \/ Fail(o, a)
       \/ RecordUnknown(o) \/ ForgetUnknown(o) \/ Refresh(o)
       \/ MoveOn(o) \/ Revoke(o) \/ Restore(o)
       \/ Recheck(o) \/ Elapse(o) \/ Overrun(o)
  \/ \E p \in Workers : RunOnce(p) \/ QueryFails(p) \/ Crash(p)

\* Every worker runs its loop, and time passes.
Fairness ==
  /\ \A p \in Workers : WF_vars(RunOnce(p))
  /\ \A o \in Mutations : WF_vars(Elapse(o))

Spec == Init /\ [][Next]_vars
FairSpec == Spec /\ Fairness

-----------------------------------------------------------------------------
(***************************************************************************)
(* Properties.                                                             *)
(***************************************************************************)
\* The case table's own check: a case carries a claim exactly while it is PROCESSING.
TypeOK ==
  /\ case \in [Mutations -> [status : {"ABSENT", "PENDING", "PROCESSING"} \cup Settled,
                             claimed_by : {WorkerId[p] : p \in Workers} \cup {None},
                             claim_token : Nat, attempts : Nat, elapsed : BOOLEAN]]
  /\ \A o \in Mutations :
       /\ (case[o].status = "PROCESSING") <=> (case[o].claimed_by # None)
       /\ (case[o].status = "PROCESSING") <=> (case[o].claim_token # 0)
  /\ sends \in [Mutations -> Nat] /\ flying \in [Mutations -> SUBSET Nat]
  /\ effects \in [Mutations -> Nat]
  /\ moved \in [Mutations -> BOOLEAN] /\ permitted \in [Mutations -> BOOLEAN]
  /\ owner \in [Mutations -> {"READY", "AWAITING", "BLOCKED", "DONE", "REFUSED", "REVIEW"}]
  /\ batch \in [Workers -> Seq([mutation : Mutations, token : Nat \ {0}, attempts : Nat])]
  /\ stage \in [Workers -> {"CLAIMED", "AUTHORIZED", "RECORD", "NO_RECORD", "COMMITTED",
                            "NOT_COMMITTED", "INCONSISTENT", "FAILED"}]
  /\ issued \in Nat /\ sighted \in [Mutations -> BOOLEAN] /\ trouble \in 0..MaxTrouble

\* A verdict rests on evidence read under the claim that settles the case: what a worker
\* read before its lease was lost never decides, so a mutation that was already committed
\* when its case was last claimed is not declared NOT_COMMITTED.
VerdictFresh ==
  \A o \in Mutations : case[o].status = "RESOLVED_NOT_COMMITTED" => ~sighted[o]

\* A case goes to manual review only for something a human can look at: a committed
\* mutation whose traces disagree, or evidence that could not be read max_attempts times.
ReviewedForCause ==
  \A o \in Mutations :
    case[o].status = "MANUAL_REVIEW" => Committed(o) \/ case[o].attempts >= MaxAttempts

\* One effect, one verdict for good, COMMITTED and DONE only of an effect.
verdict == [o \in Mutations |->
  CASE case[o].status = "ABSENT" -> "NONE"
    [] case[o].status \in {"PENDING", "PROCESSING"} -> "OPEN"
    [] case[o].status = "RESOLVED_COMMITTED" -> "COMMITTED"
    [] case[o].status = "RESOLVED_NOT_COMMITTED" -> "NOT_COMMITTED"
    [] OTHER -> "REVIEW"]
belief == [o \in Mutations |->
  IF owner[o] \in {"READY", "AWAITING", "BLOCKED"} THEN "UNSURE" ELSE owner[o]]
Contract == INSTANCE ReconciliationContract WITH
  effects <- effects, verdict <- verdict, belief <- belief
ImplementsContract == Contract!Spec

\* Every case is settled: neither dead workers and lost leases nor evidence that cannot be
\* read keep an owner waiting for ever.
EveryCaseSettles == \A o \in Mutations : case[o].status = "PENDING" ~> case[o].status \in Settled

-----------------------------------------------------------------------------
(***************************************************************************)
(* A statement of the repository that does not hold of the code.           *)
(***************************************************************************)
\* agent_runtime/orchestration.py tells the owner of a NOT_COMMITTED case that the last
\* operation is confirmed not to have been committed.
ToldNotCommittedIsTrue ==
  [][\A o \in Mutations : owner[o] = "BLOCKED" /\ owner'[o] = "READY" => ~Committed(o)]_vars
=============================================================================
