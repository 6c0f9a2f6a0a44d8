--------------------------- MODULE OutboxContract ---------------------------
(***************************************************************************)
(* What the outbox promises for each committed event, with no processes,   *)
(* leases or tokens: at-least-once delivery with a bounded number of       *)
(* failed attempts.  The event stays owed until it is delivered or given   *)
(* up, and neither end is ever taken back.                                 *)
(***************************************************************************)
EXTENDS Naturals

CONSTANTS
  Events,
  Poison,       \* events that can never be delivered
  MaxAttempts

VARIABLES
  promise,    \* ABSENT, OWED, DISPATCHED or DEAD_LETTER
  failures,   \* failed deliveries counted against the event
  projected   \* events the consumer has stored

contractVars == <<promise, failures, projected>>

Init ==
  /\ promise = [e \in Events |-> "ABSENT"]
  /\ failures = [e \in Events |-> 0]
  /\ projected = {}

Accept(e) ==
  /\ promise[e] = "ABSENT"
  /\ promise' = [promise EXCEPT ![e] = "OWED"]
  /\ UNCHANGED <<failures, projected>>

\* A delivery that was under way may still land after the event was given up.
Project(e) ==
  /\ promise[e] # "ABSENT" /\ e \notin Poison
  /\ projected' = projected \cup {e}
  /\ UNCHANGED <<promise, failures>>

Dispatch(e) ==
  /\ promise[e] = "OWED" /\ e \in projected
  /\ promise' = [promise EXCEPT ![e] = "DISPATCHED"]
  /\ UNCHANGED <<failures, projected>>

Fail(e) ==
  /\ promise[e] = "OWED" /\ failures[e] < MaxAttempts
  /\ failures' = [failures EXCEPT ![e] = @ + 1]
  /\ promise' = [promise EXCEPT ![e] = IF failures'[e] = MaxAttempts THEN "DEAD_LETTER" ELSE @]
  /\ UNCHANGED projected

Next == \E e \in Events : Accept(e) \/ Project(e) \/ Dispatch(e) \/ Fail(e)

Spec == Init /\ [][Next]_contractVars
=============================================================================
