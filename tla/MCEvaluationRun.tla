-------------------------- MODULE MCEvaluationRun --------------------------
(***************************************************************************)
(* Two cases asked twice: the smallest run with pairs to compare, and a    *)
(* case that is done while another is not.  The urgent case expects a      *)
(* danger and a wish for a person, the plain one a missing field.  The     *)
(* calm answer is right for the plain case and a critical failure of the   *)
(* other; the alarmed one is right for the urgent case and, for the plain  *)
(* one, wrong in fields the gate forgives; the lost one has the intent     *)
(* wrong besides, and the leaky one shows what no answer may.              *)
(***************************************************************************)
EXTENDS EvaluationRun, TLC

CONSTANTS plain, urgent, calm, alarmed, lost, leaky, c1, c2

MCDataset == <<plain, urgent>>

Wanted(missing, safety, human) ==
  [intent |-> "CREATE_TICKET", missing |-> missing, safety |-> safety, human |-> human,
   category |-> "WATER"]

MCExpected == (plain :> Wanted({"LOCATION"}, {}, FALSE)) @@
              (urgent :> Wanted({}, {"IMMEDIATE_DANGER"}, TRUE))

Told(intent, missing, safety, human, clean) ==
  [intent |-> intent, missing |-> missing, safety |-> safety, human |-> human,
   category |-> "WATER", clean |-> clean]

MCReading == (calm :> Told("CREATE_TICKET", {"LOCATION"}, {}, FALSE, TRUE)) @@
             (alarmed :> Told("CREATE_TICKET", {}, {"IMMEDIATE_DANGER"}, TRUE, TRUE)) @@
             (lost :> Told("OTHER", {}, {"IMMEDIATE_DANGER"}, TRUE, TRUE)) @@
             (leaky :> Told("CREATE_TICKET", {}, {"IMMEDIATE_DANGER"}, TRUE, FALSE))

\* Four results cannot miss one in twenty: the forgiving rates are lower than the file's.
MCPolicy == [completion |-> 100, parse |-> 75, schema |-> 75, invariant |-> 75, intent |-> 50,
             clarification |-> 50, missing_f1 |-> 0, safety_recall |-> 98]

\* A process that is not the first finds half of it answered, the third all but one.
LaterNearlyDone ==
  LET done == Cardinality(Completed(run.results) \cup Completed(disk.results)) IN
  /\ starts = 2 => done >= 2
  /\ starts = 3 => done >= 3

\* Of what the process at work and the directory hold, at most two results are no alarmed
\* answer: a right plain case, a pair that is wrong, two faults to be asked again.  A leaky
\* answer, a refusal or an invalid output comes alone.
MostlyAlarmed ==
  LET other == {i \in Items : \E x \in {run.results[i], disk.results[i]} :
                  x.outcome \notin {alarmed, None}} IN
  /\ Cardinality(other) <= 2
  /\ Cardinality(other) = 2 =>
       \A i \in other : \A x \in {run.results[i], disk.results[i]} :
         x.outcome \in {alarmed, calm, lost, "INFRA", None}
=============================================================================
