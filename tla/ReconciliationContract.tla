----------------------- MODULE ReconciliationContract -----------------------
(***************************************************************************)
(* What reconciliation promises about a mutation whose answer was lost,    *)
(* with no workers, leases or evidence: the mutation takes effect at most  *)
(* once however often it is sent, its case gets one verdict that is never  *)
(* revised, COMMITTED is only said of an effect, and the owner who is told *)
(* that the mutation is done is told the truth.                            *)
(***************************************************************************)
EXTENDS Naturals

CONSTANTS Mutations

VARIABLES
  effects,   \* how often the mutation took effect
  verdict,   \* NONE, OPEN, or the status the case was settled with
  belief     \* what the owner knows: UNSURE, DONE, REFUSED or REVIEW

contractVars == <<effects, verdict, belief>>

Init ==
  /\ effects = [o \in Mutations |-> 0]
  /\ verdict = [o \in Mutations |-> "NONE"]
  /\ belief = [o \in Mutations |-> "UNSURE"]

\* The mutation takes effect; its owner may get the answer.
Execute(o) ==
  /\ effects[o] = 0
  /\ effects' = [effects EXCEPT ![o] = 1]
  /\ \/ UNCHANGED belief
     \/ belief[o] = "UNSURE" /\ belief' = [belief EXCEPT ![o] = "DONE"]
  /\ UNCHANGED verdict

Open(o) ==
  /\ verdict[o] = "NONE"
  /\ verdict' = [verdict EXCEPT ![o] = "OPEN"]
  /\ UNCHANGED <<effects, belief>>

Settle(o) ==
  /\ verdict[o] = "OPEN"
  /\ \E v \in {"COMMITTED", "NOT_COMMITTED", "REVIEW"} :
       /\ v = "COMMITTED" => effects[o] = 1
       /\ verdict' = [verdict EXCEPT ![o] = v]
  /\ UNCHANGED <<effects, belief>>

Tell(o) ==
  /\ belief[o] = "UNSURE"
  /\ \E b \in {"DONE", "REFUSED", "REVIEW"} :
       /\ b = "DONE" => effects[o] = 1
       /\ b = "REVIEW" => verdict[o] \in {"REVIEW", "COMMITTED"}
       /\ belief' = [belief EXCEPT ![o] = b]
  /\ UNCHANGED <<effects, verdict>>

Next == \E o \in Mutations : Execute(o) \/ Open(o) \/ Settle(o) \/ Tell(o)

Spec == Init /\ [][Next]_contractVars
=============================================================================
