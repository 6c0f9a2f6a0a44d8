-------------------------- MODULE MCResidentDecision --------------------------
(***************************************************************************)
(* Messages, conversations and answers for model checking ResidentDecision:*)
(* messages of two marks or of one mark and a danger, answers of one       *)
(* claim.                                                                  *)
(***************************************************************************)
EXTENDS ResidentDecision

UpTo2(S) == {{x, y} : x, y \in S} \cup {{}}

Plain == {[marks |-> s, dangers |-> {}, feared |-> {}] : s \in UpTo2(Spoken)}
Dangerous == {[marks |-> s, dangers |-> d, feared |-> {}] :
                s \in {{}} \cup {{x} : x \in Spoken}, d \in UpTo2(Signals) \ {{}}}
Feared == {[marks |-> {"fault"}, dangers |-> {}, feared |-> {s}] : s \in Signals}

\* A vague message is nothing else, and some marks come with others.
Brings(mark) ==
  CASE mark = "negation" -> {"cancellation"}
    [] mark = "reservation" -> {"visit", "booking"}
    [] mark = "unsure_where" -> {"lost"}
    [] mark = "named_fault" -> {"fault"}
    [] mark = "blocked" -> {"malfunction", "issue"}
    [] OTHER -> {}

Closed(m) == [m EXCEPT !.marks = UNION {{k} \cup Brings(k) : k \in m.marks}]

SmallMessages ==
  {Closed(m) : m \in {m \in Plain \cup Dangerous \cup Feared :
                        "vague" \in m.marks => m.marks = {"vague"} /\ m.dangers = {}}}

SmallContexts ==
  {[task |-> "NONE", recent |-> {}, known |-> {}],
   [task |-> "NEW_REPAIR", recent |-> {"asks_fault"}, known |-> {"category"}],
   [task |-> "SELECT_APPOINTMENT_SLOT", recent |-> {"candidates", "options", "visit"},
    known |-> {"category", "location", "description"}],
   [task |-> "SELECT_APPOINTMENT_SLOT", recent |-> {"asks_time"}, known |-> {}]}

OneClaim == {[Silent EXCEPT ![f] = e] : f \in Claimable, e \in Evidence}
SmallAnswers ==
  {a \in OneClaim : \A f \in Claimable \ {"description"} : a[f] # "BLANK"}
=============================================================================
