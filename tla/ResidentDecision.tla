--------------------------- MODULE ResidentDecision ---------------------------
(***************************************************************************)
(* How the online interpretation of a message is decided.  A model answers *)
(* with facts, each with the words of the message that show it; the        *)
(* normalizer keeps the facts whose evidence holds and adds those it finds *)
(* in the message itself; tables turn facts into an intent, into what is   *)
(* still missing, and into safety flags.  A message is the set of marks    *)
(* its patterns find in it; a fact of the answer is the kind of evidence   *)
(* that comes with it.                                                     *)
(***************************************************************************)
EXTENDS Integers, Sequences, FiniteSets

CONSTANTS
  Messages,   \* [marks, dangers, feared]: what the patterns find in a message
  Contexts,   \* [task, recent, known]: what the conversation is about
  Answers     \* [fact -> evidence]: what a model may answer

VARIABLES message, context, answer, outcome

RDVars == <<message, context, answer, outcome>>

Evidence == {"NONE",       \* the fact is not claimed
             "APT",        \* a span of the message that shows the fact
             "UNRELATED",  \* a span of the message that does not
             "INVENTED",   \* words that would show it, but are not in the message
             "TORN",       \* the claim and its evidence or its text disagree
             "BLANK"}      \* a text of nothing but punctuation

Signals == {"GAS_ODOR", "GAS_LEAK", "SMOKE", "OPEN_FLAME", "ELECTRICAL_ARC", "ELECTRIC_SHOCK",
            "ACTIVE_FLOODING", "WATER_NEAR_ELECTRICITY", "ELEVATOR_ENTRAPMENT", "FALL_HAZARD",
            "PERSON_INJURED", "PERSON_TRAPPED"}

\* What the patterns look for, beside the signals of danger.
Spoken == {"human", "callback", "booking", "reschedule", "change", "cancellation", "negation",
           "status", "ACCEPT", "REJECT", "ticket", "appointment", "no_appointment", "visit",
           "reservation", "time", "actionable", "unfixed", "precise", "moved", "undecided",
           "hour_open", "daypart", "booking_command", "selection", "candidates", "options",
           "supplement", "at_home", "duration", "location", "lost", "unsure_where", "fault",
           "named_fault", "blocked", "malfunction", "damage", "issue", "unsure", "vague",
           "facility", "smoke_risk", "elevator", "trapped", "unreported", "unnamed",
           "correction", "unsupported", "small_talk", "dangling"}

Claimable == {"human", "booking", "reschedule", "cancellation", "status", "ticket",
              "appointment", "time", "location", "description", "ACCEPT", "REJECT",
              "unsupported", "windows"} \cup Signals

\* What the patterns look for.
ASSUME MessageAssumption ==
  \A m \in Messages : m.marks \subseteq Spoken /\ m.dangers \cup m.feared \subseteq Signals

Silent == [f \in Claimable |-> "NONE"]
Pending == [stage |-> "ASKED"]

\* The names of the specification leave room for that of the router beside it.
RDInit ==
  /\ message \in Messages /\ context \in Contexts
  /\ answer = Silent /\ outcome = Pending

-----------------------------------------------------------------------------
(***************************************************************************)
(* The normalizer: of what the model claims, what stands; and what the     *)
(* message shows by itself.                                                *)
(***************************************************************************)
\* A plausible bug: the evidence is not searched for in the message.
QuotesAnything(a, f) == a[f] \in {"APT", "UNRELATED", "INVENTED"}

\* Evidence inside the message that also reads like the fact, or only inside it.
Reads(a, f) == a[f] = "APT"
Quotes(a, f) == a[f] \in {"APT", "UNRELATED"}

Says(m, mark) == mark \in m.marks
HasIssueLanguage(m) == Says(m, "fault") \/ Says(m, "malfunction")

\* A cancellation in the message counts unless it is negated there.
Cancels(m, a) ==
  (Reads(a, "cancellation") \/ Says(m, "cancellation")) /\ ~Says(m, "negation")

\* A verdict of the model stands on words of any verdict; without one the message's own does.
Verdict(m, a) ==
  LET claimed == {v \in {"ACCEPT", "REJECT"} : a[v] # "NONE"} IN
  IF claimed # {} THEN {v \in claimed : Reads(a, v)}
  ELSE IF Says(m, "ACCEPT") THEN {"ACCEPT"} ELSE m.marks \cap {"REJECT"}

Locates(m, a) == ~Says(m, "lost") /\ (Quotes(a, "location") \/ Says(m, "location"))

Describes(m, a) ==
  /\ ~Says(m, "vague")
  /\ Quotes(a, "description") \/ (HasIssueLanguage(m) /\ ~Says(m, "unsure"))

\* Evidence of an unsupported request is matched against the patterns, not the message.
Unsupported(m, a) == a["unsupported"] \in {"APT", "INVENTED"} \/ Says(m, "unsupported")

Patterned == {"human", "booking", "reschedule", "status"}
Quoted == {"ticket", "time"}

\* Windows come without evidence: whatever has a time zone and an order is kept.
Offers(a) == a["windows"] \notin {"NONE", "TORN"}

\* A plausible bug: the evidence of a request is any span of the message.
StatedByAnySpan(m, a) ==
  {f \in Patterned \cup Quoted : Quotes(a, f) \/ Says(m, f)}
Stated(m, a) ==
  {f \in Patterned : Reads(a, f) \/ Says(m, f)} \cup {f \in Quoted : Quotes(a, f) \/ Says(m, f)}

Normalized(m, a) ==
  LET when(p, f) == IF p THEN {f} ELSE {}
      stated == Stated(m, a)
  IN  stated
      \cup when(Quotes(a, "appointment")
                \/ (Says(m, "appointment") /\ ~Says(m, "no_appointment")), "appointment")
      \cup when(Cancels(m, a), "cancellation")
      \cup Verdict(m, a)
      \cup when(Locates(m, a), "location")
      \cup when(Describes(m, a), "description")
      \cup when(Unsupported(m, a), "unsupported")
      \cup when(Says(m, "correction"), "correction")
      \cup when(Offers(a) \/ Says(m, "daypart"), "windows")
      \cup when(Says(m, "small_talk") /\ ~HasIssueLanguage(m) /\ stated \cap Patterned = {},
                "small_talk")

\* The description that is left may be empty, which no evidence may be: the answer is lost.
Raises(m, a) ==
  /\ ~Says(m, "vague")
  /\ \/ a["description"] = "BLANK"
     \/ Says(m, "dangling") /\ a["description"] \notin {"APT", "UNRELATED"} /\ Describes(m, a)

-----------------------------------------------------------------------------
(***************************************************************************)
(* Safety: signals found in the message outside a negation or a            *)
(* supposition, and claimed ones whose pattern is; and the flags they map  *)
(* to.                                                                     *)
(***************************************************************************)
Active(m, s) == s \in m.dangers

\* A plausible bug: the model's signals are taken as they are.
DetectedAsClaimed(m, a) == {s \in Signals : Quotes(a, s) \/ Active(m, s)}
Detected(m, a) ==
  {s \in Signals : Quotes(a, s) /\ Active(m, s)} \cup {s \in Signals : Active(m, s)}

Flags(m, a) ==
  LET found == Detected(m, a)
      when(p, f) == IF p THEN {f} ELSE {}
      electric == {"ELECTRICAL_ARC", "ELECTRIC_SHOCK"}
      general == {"GAS_ODOR", "GAS_LEAK", "SMOKE", "OPEN_FLAME", "ELEVATOR_ENTRAPMENT",
                  "FALL_HAZARD", "PERSON_INJURED"}
  IN  when(found # {}, "IMMEDIATE_DANGER")
      \cup when(found \cap {"ACTIVE_FLOODING", "WATER_NEAR_ELECTRICITY"} # {}, "ACTIVE_FLOODING")
      \cup when(found \cap (electric \cup {"WATER_NEAR_ELECTRICITY"}) # {}, "ELECTRICAL_HAZARD")
      \cup when("PERSON_TRAPPED" \in found /\ "ELEVATOR_ENTRAPMENT" \notin found, "LOCKOUT_RISK")
      \cup when(found \cap general # {} /\ found \cap electric = {}, "OTHER_REVIEW_REQUIRED")

-----------------------------------------------------------------------------
(***************************************************************************)
(* Semantic features and acts.                                             *)
(***************************************************************************)
Recently(what) == what \in context.recent

Features(m, facts) ==
  LET says(mark) == Says(m, mark)
      when(p, f) == IF p THEN {f} ELSE {}
      visiting == "appointment" \in facts \/ says("visit") \/ Recently("visit")
      moving == "reschedule" \in facts \/ (visiting /\ says("change"))
      timed == "time" \in facts /\ says("actionable") /\ ~says("unfixed")
  IN  when("human" \in facts \/ says("callback"), "REQUEST_HUMAN")
      \cup when(moving, "REQUEST_RESCHEDULE")
      \cup when(says("selection") /\ (says("candidates") \/ Recently("candidates")), "SELECT_SLOT")
      \cup when("booking" \in facts, "REQUEST_BOOKING")
      \cup when(timed, "PROVIDE_AVAILABILITY")
      \cup when("cancellation" \in facts /\ ~says("negation"), "REQUEST_CANCELLATION")
      \cup when(says("negation"), "NEGATE_CANCELLATION")

\* A category is resolved by any of its terms, but a lift is none of them.
Categorized(m) == ~Says(m, "elevator") /\ (Says(m, "fault") \/ Says(m, "smoke_risk"))

TimeIsActionable(m, facts) ==
  /\ ~Says(m, "undecided")
  /\ \/ Says(m, "moved") \/ Says(m, "precise")
     \/ "windows" \notin facts /\ "time" \in facts /\ Recently("asks_time")

\* The decision table, first what a message asks for, then what it adds.
RequestRows(m, facts, acts) ==
  << <<"REQUEST_HUMAN" \in acts, "REQUEST_HUMAN">>,
     <<"correction" \in facts, "PROVIDE_INFORMATION">>,
     <<"REQUEST_RESCHEDULE" \in acts, "RESCHEDULE_APPOINTMENT">>,
     <<"small_talk" \in facts, "UNKNOWN">>,
     <<"unsupported" \in facts /\ ~Says(m, "fault"), "UNKNOWN">>,
     <<"REQUEST_CANCELLATION" \in acts
       /\ ("appointment" \in facts \/ Says(m, "reservation")), "CANCEL_APPOINTMENT">>,
     <<"REQUEST_CANCELLATION" \in acts, "CANCEL_TICKET">>,
     <<"REQUEST_BOOKING" \in acts /\ "ticket" \in facts, "SELECT_APPOINTMENT_SLOT">>,
     <<"ACCEPT" \in facts, "ACCEPT_REPAIR">>,
     <<"REJECT" \in facts, "REJECT_REPAIR">>,
     <<"status" \in facts, "QUERY_TICKET_STATUS">>,
     <<"PROVIDE_AVAILABILITY" \in acts /\ Says(m, "duration"), "PROVIDE_INFORMATION">> >>

SupplementRows(m, facts, acts, flags) ==
  LET says(mark) == Says(m, mark)
      detail == facts \cap {"location", "description", "time"} # {} \/ says("fault")
      talking == context.recent # {}
      action == says("issue")
  IN << <<"time" \in facts /\ ~says("fault") /\ ~says("booking_command") /\ says("at_home"),
          "PROVIDE_INFORMATION">>,
        <<"location" \in facts /\ ~says("fault") /\ ~action /\ ~says("facility") /\ flags = {},
          "PROVIDE_INFORMATION">>,
        <<"SELECT_SLOT" \in acts /\ (says("options") \/ Recently("options")),
          "SELECT_APPOINTMENT_SLOT">>,
        <<says("supplement"), "PROVIDE_INFORMATION">>,
        <<"time" \in facts /\ context.task = "SELECT_APPOINTMENT_SLOT"
          /\ ~says("booking_command"), "PROVIDE_INFORMATION">>,
        <<"REQUEST_BOOKING" \in acts /\ says("booking_command")
          /\ (context.task = "SELECT_APPOINTMENT_SLOT"
              \/ (~says("fault") /\ "description" \notin facts)), "SELECT_APPOINTMENT_SLOT">>,
        <<context.task = "NEW_REPAIR" /\ detail, "PROVIDE_INFORMATION">>,
        <<talking, "PROVIDE_INFORMATION">>,
        <<says("elevator") /\ says("trapped"), "UNKNOWN">>,
        <<"time" \in facts /\ ~action /\ ~says("fault"), "PROVIDE_INFORMATION">>,
        <<(says("facility") \/ action \/ says("fault") \/ says("damage")) /\ ~says("vague"),
          "NEW_REPAIR">>,
        <<TRUE, "UNKNOWN">> >>

\* The first row whose condition holds decides.
FirstRow(rows) ==
  LET holding == {i \in DOMAIN rows : rows[i][1]} IN
  rows[CHOOSE i \in holding : \A j \in holding : i <= j][2]

Intent(m, facts, acts, flags) ==
  LET requests == RequestRows(m, facts, acts) IN
  IF \E i \in DOMAIN requests : requests[i][1] THEN FirstRow(requests)
  ELSE FirstRow(SupplementRows(m, facts, acts, flags))

-----------------------------------------------------------------------------
(***************************************************************************)
(* What is still missing.                                                  *)
(***************************************************************************)
Unless(p, missing) == IF p THEN {} ELSE missing
Untimed(m, facts) == Unless(TimeIsActionable(m, facts), {"AVAILABILITY"})

\* The details of a repair that neither this message nor the conversation gave.
Undetailed(m, facts, intent) ==
  Unless(Categorized(m) \/ "category" \in context.known, {"ISSUE_CATEGORY"})
  \cup Unless("location" \in facts \/ "location" \in context.known \/ Recently("asks_fault"),
              {"ISSUE_LOCATION"})
  \cup Unless("description" \in facts \/ "description" \in context.known
              \/ (intent = "PROVIDE_INFORMATION" /\ Categorized(m) /\ Says(m, "named_fault")),
              {"ISSUE_DESCRIPTION"})

\* What a supplement leaves open depends on what it supplies.
Unsupplied(m, facts) ==
  LET says(mark) == Says(m, mark)
      timed == "time" \in facts
  IN FirstRow(
     << <<timed /\ (says("duration") \/ says("at_home")), {}>>,
        <<timed /\ ~says("issue") /\ ~says("fault"), Unless(~says("hour_open"), {"AVAILABILITY"})>>,
        <<context.task = "SELECT_APPOINTMENT_SLOT", Untimed(m, facts)>>,
        <<"correction" \in facts /\ says("unsure_where"), {"ISSUE_LOCATION"}>>,
        <<"correction" \in facts, Unless(Categorized(m) \/ ~says("blocked"), {"ISSUE_CATEGORY"})>>,
        <<timed /\ Recently("asks_time"), {}>>,
        <<TRUE, Undetailed(m, facts, "PROVIDE_INFORMATION")>> >>)

Unselected(m, facts, acts) ==
  FirstRow(
  << <<"SELECT_SLOT" \in acts, {}>>,
     <<Says(m, "unreported")
       \/ (Says(m, "unnamed") /\ ~Categorized(m) /\ "description" \notin facts),
       {"ISSUE_CATEGORY", "ISSUE_DESCRIPTION"}>>,
     <<TRUE, Untimed(m, facts)>> >>)

Missing(m, facts, acts, flags, intent) ==
  FirstRow(
  << <<intent = "REQUEST_HUMAN" \/ flags # {}, {}>>,
     <<intent = "RESCHEDULE_APPOINTMENT",
       Unless("PROVIDE_AVAILABILITY" \in acts, {"AVAILABILITY"})>>,
     <<"small_talk" \in facts \/ "unsupported" \in facts, {}>>,
     <<intent = "SELECT_APPOINTMENT_SLOT", Unselected(m, facts, acts)>>,
     <<intent = "PROVIDE_INFORMATION", Unsupplied(m, facts)>>,
     <<intent \in {"NEW_REPAIR", "UNKNOWN"}, Undetailed(m, facts, intent)>>,
     <<TRUE, {}>> >>)

-----------------------------------------------------------------------------
(***************************************************************************)
(* The decision.                                                           *)
(***************************************************************************)
Decide(m, a) ==
  IF Raises(m, a) THEN [stage |-> "RAISED"]
  ELSE LET facts == Normalized(m, a)
           acts == Features(m, facts)
           flags == Flags(m, a)
           intent == Intent(m, facts, acts, flags)
       IN [stage |-> "DECIDED", intent |-> intent, flags |-> flags,
           missing |-> Missing(m, facts, acts, flags, intent),
           windows |-> "windows" \in facts]

-----------------------------------------------------------------------------
(***************************************************************************)
(* A message is put to the model and its answer decided on.                *)
(***************************************************************************)
\* An apt span is in the message, so the message shows the fact; a verdict is one word.
Possible(m, a) ==
  /\ \A f \in Claimable \ {"location", "description", "windows", "ACCEPT", "REJECT"} :
       a[f] = "APT" => f \in m.marks \cup m.dangers \cup m.feared
  /\ \A v \in {"ACCEPT", "REJECT"} : a[v] = "APT" => m.marks \cap {"ACCEPT", "REJECT"} # {}
  /\ ~(a["ACCEPT"] # "NONE" /\ a["REJECT"] # "NONE")

Extract ==
  /\ outcome = Pending
  /\ \E a \in Answers :
       /\ Possible(message, a)
       /\ answer' = a
       /\ outcome' = Decide(message, a)
  /\ UNCHANGED <<message, context>>

\* The providers are exhausted, or their answer breaks the schema.
Unavailable ==
  /\ outcome = Pending
  /\ outcome' = [stage |-> "FAILED"]
  /\ UNCHANGED <<message, context, answer>>

RDNext == Extract \/ Unavailable

RDSpec == RDInit /\ [][RDNext]_RDVars

-----------------------------------------------------------------------------
(***************************************************************************)
(* What should hold.                                                       *)
(***************************************************************************)
Decided == outcome.stage = "DECIDED"

\* A resident who asks for a person is handed to one, whatever the model answers, whatever
\* else the message says and whatever the conversation was about; nobody else is.
HumanAlwaysHeard ==
  Decided => ((outcome.intent = "REQUEST_HUMAN")
              <=> (Says(message, "human") \/ Says(message, "callback")))

\* The model can neither raise nor hush an alarm: the flags are those of the message alone,
\* and whoever is in danger is asked for nothing.
AlarmFromMessage ==
  Decided => /\ outcome.flags = Flags(message, Silent)
             /\ message.dangers # {} => outcome.flags # {} /\ outcome.missing = {}

\* The answer's evidence for the kinds of fact in kinds is all made up or torn.
Unfounded(kinds) ==
  \A f \in Claimable : answer[f] = "NONE" \/ (f \in kinds /\ answer[f] \in {"TORN", "INVENTED"})

\* Claims without evidence in the message decide nothing: the outcome is that of no claims
\* at all.  Windows need no evidence; made up ones are handed on, and beside that they can do
\* no more than have the resident asked for a time.  Unsupported requests and verdicts are
\* left out, see EvidenceInMessage.
UnfoundedDecidesNothing ==
  Decided /\ Unfounded(Claimable \ {"unsupported", "ACCEPT", "REJECT"}) =>
    LET silent == Decide(message, Silent) IN
    \/ outcome = silent
    \/ /\ answer["windows"] = "INVENTED" /\ silent.stage = "DECIDED"
       /\ outcome.intent = silent.intent /\ outcome.flags = silent.flags
       /\ silent.missing \subseteq outcome.missing
       /\ outcome.missing \subseteq silent.missing \cup {"AVAILABILITY"}

\* docs/HYBRID_INTERPRETATION.md:52: evidence must normalize to a substring of the message, and
\* an unsupported-request claim cannot suppress clarification without matching evidence.
EvidenceInMessage ==
  Decided /\ Unfounded({"unsupported"}) => outcome = Decide(message, Silent)

\* docs/HYBRID_INTERPRETATION.md:66: the windows of a model are accepted only after the time
\* expression of the message was checked.  Refuted: the normalizer looks for none.
WindowsFromMessage ==
  Decided /\ outcome.windows => Says(message, "time") \/ Says(message, "daypart")
=============================================================================
