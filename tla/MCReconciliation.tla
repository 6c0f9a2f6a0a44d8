-------------------------- MODULE MCReconciliation --------------------------
(***************************************************************************)
(* Model values for model checking Reconciliation: two workers under one   *)
(* worker id, a mutation that may be sent twice and one that is sent once. *)
(***************************************************************************)
EXTENDS Reconciliation

CONSTANTS once, twice, p1, p2, w

OneWorkerId == [p \in Workers |-> w]
TwiceAtMost == [o \in Mutations |-> IF o = once THEN 1 ELSE 2]
=============================================================================
