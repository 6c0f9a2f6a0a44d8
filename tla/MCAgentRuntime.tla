--------------------------- MODULE MCAgentRuntime ---------------------------
(* A thread about things that can be broken, for AgentRuntime.cfg.         *)
EXTENDS AgentRuntime

Say(intent, issue, windows, safety) ==
  [intent |-> intent, issue |-> issue, windows |-> windows, safety |-> safety]

(* One repair that an older ticket is about, alone in StaleReadUnblocks.cfg. *)
OneTicket == {<<Ticket("tap")>>}
OneRequest == {Say("NEW_REPAIR", "tap", TRUE, FALSE)}

MCIssues == {"leak", "lock", "tap"}
MCSlots == 1..2
MCExisting ==
  OneTicket \cup
  {<<>>, <<Ticket("leak"), Ticket("leak")>>,
   <<[Ticket("leak") EXCEPT !.appointment = Appointment(0, 2), !.version = 2]>>}
MCUtterances ==
  OneRequest \cup
  {Say("NEW_REPAIR", "leak", TRUE, FALSE), Say("NEW_REPAIR", "lock", TRUE, FALSE),
   Say("NEW_REPAIR", None, FALSE, FALSE),
   Say("RESCHEDULE_APPOINTMENT", "leak", TRUE, FALSE),
   Say("QUERY_TICKET_STATUS", None, FALSE, FALSE),
   Say("PROVIDE_INFORMATION", None, TRUE, TRUE)}

(* Three turns and one trouble of a thread about the leak and the lock ...  *)
Broad ==
  /\ turns <= 3 /\ trouble <= 1
  /\ \A t \in DOMAIN tickets : tickets[t].issue # "tap"
  /\ cp # None => cp.issue # "tap"

(* ... or five and two of one about the tap, which has an older ticket and  *)
(* the first slot: enough for a read to put one tool's operation before     *)
(* another tool's node.                                                     *)
Deep ==
  /\ DOMAIN tickets # {} /\ busy \subseteq {1}
  /\ \A t \in DOMAIN tickets : tickets[t].issue = "tap"
  /\ cp # None => /\ cp.issue \in {"tap", None} /\ cp.slots \subseteq {1} /\ ~cp.missing
                  /\ cp.intent \in {"UNKNOWN", "NEW_REPAIR"} /\ ~cp.safety

BroadOrDeep == Broad \/ Deep
=============================================================================
