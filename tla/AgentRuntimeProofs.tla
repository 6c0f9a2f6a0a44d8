------------------------- MODULE AgentRuntimeProofs -------------------------
(***************************************************************************)
(* What is stored of a thread can be read again unless a read overtook it, *)
(* nothing is sent for it while one of its cases is unsettled, and nothing *)
(* is booked for it that its resident has not confirmed.                   *)
(***************************************************************************)
EXTENDS AgentRuntime, FiniteSetTheorems, TLAPS

Core == {"ticket", "cached", "slot", "slots", "op", "case", "appointment", "intent", "stage",
         "verified", "duplicates", "issue", "windows", "missing"}
CaseFields == {"status", "for"}
RunFields == {"state", "at", "sent", "behind"}
Statuses == {"PENDING", "RESOLVED_NOT_COMMITTED", "RESOLVED_COMMITTED", "MANUAL_REVIEW"}
Prepares == {"prepare_create", "prepare_book", "prepare_reschedule"}

Creates(op) == op # None /\ op.action = "CREATE_TICKET"

\* A state that loads and whose snapshot is of a ticket.
Steady(s) ==
  /\ Core \subseteq DOMAIN s
  /\ Loads(s)
  /\ s.cached # None => s.ticket # None

\* A ticket to be created is not known yet.
Clean(s) == Creates(s.op) => s.cached = None

\* Before a ticket is adopted or created none is known, unless a read was overtaken.
Ready(node, s) ==
  /\ node \in {"select_duplicate", "prepare_create"} => s.ticket = None
  /\ node \in Mutations => Clean(s)
  /\ node = "create_ticket" /\ ~overtaken => s.cached = None

\* The case of a blocked state is on record, and its ticket is not known yet either.
Traced(s, table) ==
  s.case # None =>
    /\ s.case \in DOMAIN table
    /\ Clean(s)
    /\ s.case.action = "CREATE_TICKET" /\ table[s.case].for = s.case => s.cached = None

\* A checkpoint that cannot be loaded is used by nobody: only a read can store over it.
CheckpointOk ==
  Begun => /\ next = Edge(last, cp)
           /\ Loads(cp) \/ (overtaken /\ last = "create_ticket")
           /\ Loads(cp) => Steady(cp) /\ Traced(cp, cases) /\ Ready(next, cp)

RunOk ==
  run # None =>
    /\ Begun /\ Loads(cp)
    /\ RunFields \subseteq DOMAIN run /\ run.sent \in BOOLEAN
    /\ Steady(run.state) /\ run.state.case = None /\ Ready(run.at, run.state)
    /\ run.at \in Mutations => Clean(cp)
    /\ run.sent => run.at \in Mutations /\ Asserted(run.at, run.state)

ReaderOk == reader # None => Begun /\ Steady(reader) /\ Traced(reader, cases)

CasesOk ==
  \A op \in DOMAIN cases :
    /\ op # None
    /\ CaseFields \subseteq DOMAIN cases[op] /\ cases[op].status \in Statuses
    /\ cases[op].status = "RESOLVED_COMMITTED" => cases[op].for = op

BlockOk ==
  ~overtaken => \A op \in DOMAIN cases : cases[op].status \in {"PENDING", "MANUAL_REVIEW"} =>
                  run = None /\ Begun /\ cp.case = op

RInv == CheckpointOk /\ RunOk /\ ReaderOk /\ CasesOk /\ BlockOk
-----------------------------------------------------------------------------
(***************************************************************************)
(* What the operators of the model return.                                 *)
(***************************************************************************)
LEMMA EdgesAsk ==
  ASSUME NEW node, NEW s
  PROVE  /\ Edge(node, s) \in {"select_duplicate", "prepare_create"} => s.ticket = None
         /\ Edge(node, s) \in Mutations => node \in Prepares
         /\ Edge(node, s) = "create_ticket" <=> node = "prepare_create"
  BY DEF Edge, AfterInterpret, AfterSnapshot, Mutations, Prepares, END

LEMMA ReadyNext ==
  ASSUME NEW node, NEW s, node \in Prepares => Clean(s),
         node = "prepare_create" /\ ~overtaken => s.cached = None
  PROVE  Ready(Edge(node, s), s)
  BY EdgesAsk DEF Ready

\* What decides which information is missing.
Keeps(s, r) ==
  r.intent = s.intent /\ r.issue = s.issue /\ r.windows = s.windows /\ r.missing = s.missing

LEMMA KeepsLoads ==
  ASSUME NEW s, Loads(s), NEW r, Keeps(s, r),
         r.cached = None \/ (r.cached = s.cached /\ r.ticket = s.ticket),
         r.slot = None \/ (r.slot = s.slot /\ r.slots = s.slots)
  PROVE  Loads(r)
  BY DEF Loads, Keeps, Missing

LEMMA NewThreadSteady == Steady(NewThread) /\ NewThread.case = None
  BY DEF Steady, Core, Loads, Missing, NewThread

LEMMA NoSlotsFields ==
  ASSUME NEW s, Core \subseteq DOMAIN s
  PROVE  /\ DOMAIN NoSlots(s) = DOMAIN s
         /\ NoSlots(s).slots = {} /\ NoSlots(s).slot = None
         /\ NoSlots(s).case = s.case /\ NoSlots(s).ticket = s.ticket
         /\ NoSlots(s).cached = s.cached /\ NoSlots(s).op = s.op
         /\ NoSlots(s).appointment = s.appointment /\ NoSlots(s).intent = s.intent
         /\ NoSlots(s).stage = s.stage /\ NoSlots(s).duplicates = s.duplicates
         /\ Keeps(s, NoSlots(s))
  BY DEF NoSlots, Core, Keeps

LEMMA SnapshotFields ==
  ASSUME NEW s, Core \subseteq DOMAIN s
  PROVE  LET a == tickets[s.ticket].appointment
             id == IF a = None THEN None ELSE a.id
         IN /\ DOMAIN Snapshot(s) = DOMAIN s
            /\ Snapshot(s).cached = [ticket |-> s.ticket, appointment |-> id]
            /\ Snapshot(s).appointment = id
            /\ Snapshot(s).case = s.case /\ Snapshot(s).ticket = s.ticket
            /\ Snapshot(s).slot = s.slot /\ Snapshot(s).slots = s.slots
            /\ Snapshot(s).intent = s.intent /\ Snapshot(s).duplicates = s.duplicates
            /\ Keeps(s, Snapshot(s))
  BY DEF Snapshot, Core, Keeps

LEMMA ForgottenFields ==
  ASSUME NEW s, Core \subseteq DOMAIN s
  PROVE  /\ DOMAIN Forgotten(s) = DOMAIN s
         /\ Forgotten(s).cached = None /\ Forgotten(s).slot = None
         /\ Forgotten(s).slots = {} /\ Forgotten(s).ticket = None
         /\ Forgotten(s).appointment = None /\ Forgotten(s).duplicates = {}
         /\ Forgotten(s).case = s.case /\ Forgotten(s).op = s.op
         /\ Forgotten(s).intent = s.intent /\ Keeps(s, Forgotten(s))
  <1>. DEFINE none == NoSlots(s)
  <1>1. /\ DOMAIN none = DOMAIN s /\ none.case = s.case /\ none.op = s.op
        /\ none.slots = {} /\ none.slot = None /\ Keeps(s, none)
    BY NoSlotsFields
  <1>2. Forgotten(s) = [none EXCEPT !.ticket = None, !.appointment = None,
                                    !.ticketVersion = None, !.appointmentVersion = None,
                                    !.cached = None, !.duplicates = {}]
    BY DEF Forgotten
  <1>. HIDE DEF none
  <1>. QED BY <1>1, <1>2 DEF Core, Keeps

LEMMA MergeFields ==
  ASSUME NEW s, Core \subseteq DOMAIN s, NEW u
  PROVE  /\ DOMAIN Merge(s, u) = DOMAIN s
         /\ Merge(s, u).case = s.case /\ Merge(s, u).ticket = s.ticket
         /\ Merge(s, u).cached = s.cached /\ Merge(s, u).appointment = s.appointment
         /\ Merge(s, u).op \in {s.op, None} /\ Merge(s, u).duplicates \in {s.duplicates, {}}
         /\ \/ Merge(s, u).slot = None /\ Merge(s, u).slots = {}
            \/ Merge(s, u).slot = s.slot /\ Merge(s, u).slots = s.slots
         /\ Merge(s, u).missing = Missing(Merge(s, u))
  <1>. DEFINE intent == IF u.intent \in TaskIntents THEN u.intent ELSE s.intent
              issue == IF u.issue # None THEN u.issue ELSE s.issue
              changed == \/ s.issue # None /\ issue # s.issue
                         \/ s.intent # "UNKNOWN" /\ intent # s.intent
                         \/ s.stage = "DONE" /\ u.intent \in TaskIntents
              risk == u.safety /\ ~s.safety
              kept == IF changed \/ risk
                      THEN [NoSlots(s) EXCEPT !.sufficient = FALSE, !.duplicates = {},
                                              !.op = None, !.result = None]
                      ELSE s
              merged == [kept EXCEPT !.intent = intent, !.issue = issue,
                                     !.safety = @ \/ u.safety,
                                     !.version = IF changed THEN @ + 1 ELSE @,
                                     !.windows = u.windows \/ (@ /\ ~changed)]
              after == IF merged.safety THEN "EMERGENCY_REVIEW"
                       ELSE IF Missing(merged) THEN "OPEN" ELSE merged.stage
  <1>1. Merge(s, u) = [merged EXCEPT !.missing = Missing(merged), !.stage = after]
    BY DEF Merge
  <1>2. /\ DOMAIN kept = DOMAIN s
        /\ kept.case = s.case /\ kept.ticket = s.ticket /\ kept.cached = s.cached
        /\ kept.appointment = s.appointment
        /\ kept.op \in {s.op, None} /\ kept.duplicates \in {s.duplicates, {}}
        /\ (kept.slot = None /\ kept.slots = {}) \/ (kept.slot = s.slot /\ kept.slots = s.slots)
    <2>. DEFINE none == NoSlots(s)
                without == [none EXCEPT !.sufficient = FALSE, !.duplicates = {},
                                        !.op = None, !.result = None]
    <2>1. /\ DOMAIN none = DOMAIN s /\ none.slot = None /\ none.slots = {}
          /\ none.appointment = s.appointment
          /\ none.case = s.case /\ none.ticket = s.ticket /\ none.cached = s.cached
      BY NoSlotsFields
    <2>2. kept = IF changed \/ risk THEN without ELSE s
      OBVIOUS
    <2>. HIDE DEF none, changed, risk, kept
    <2>3. /\ DOMAIN without = DOMAIN s /\ without.slot = None /\ without.slots = {}
          /\ without.appointment = s.appointment /\ without.op = None /\ without.duplicates = {}
          /\ without.case = s.case /\ without.ticket = s.ticket /\ without.cached = s.cached
      BY <2>1 DEF Core
    <2>. HIDE DEF without
    <2>. QED BY <2>2, <2>3
  <1>. HIDE DEF kept, intent, issue, changed
  <1>3. /\ DOMAIN merged = DOMAIN s
        /\ merged.case = s.case /\ merged.ticket = s.ticket /\ merged.cached = s.cached
        /\ merged.appointment = s.appointment
        /\ merged.op \in {s.op, None} /\ merged.duplicates \in {s.duplicates, {}}
        /\ (merged.slot = None /\ merged.slots = {}) \/ (merged.slot = s.slot /\ merged.slots = s.slots)
    BY <1>2 DEF Core
  <1>. DEFINE missing == Missing(merged)
              result == [merged EXCEPT !.missing = missing, !.stage = after]
  <1>. HIDE DEF merged, after, missing
  <1>4. /\ DOMAIN result = DOMAIN s
        /\ result.case = s.case /\ result.ticket = s.ticket /\ result.cached = s.cached
        /\ result.appointment = s.appointment
        /\ result.op \in {s.op, None} /\ result.duplicates \in {s.duplicates, {}}
        /\ (result.slot = None /\ result.slots = {}) \/ (result.slot = s.slot /\ result.slots = s.slots)
    BY <1>3 DEF Core
  <1>5. /\ result.intent = merged.intent /\ result.issue = merged.issue
        /\ result.windows = merged.windows /\ result.missing = missing
    BY <1>3 DEF Core
  <1>. HIDE DEF result
  <1>6. result.missing = Missing(result)
    BY <1>5 DEF missing, Missing
  <1>7. Merge(s, u) = result
    BY <1>1 DEF result, missing
  <1>. QED BY <1>4, <1>6, <1>7

LEMMA ReconciledFields ==
  ASSUME NEW s, Steady(s), Traced(s, cases), CasesOk
  PROVE  /\ Steady(Reconciled(s)) /\ Traced(Reconciled(s), cases)
         /\ Reconciled(s).op \in {s.op, None}
         /\ Reconciled(s).cached = s.cached
         /\ s.case = None => Reconciled(s) = s
         /\ s.case # None /\ cases[s.case].status \in {"PENDING", "MANUAL_REVIEW"} =>
              Reconciled(s).case = s.case
  <1>1. CASE s.case = None
    BY <1>1 DEF Reconciled
  <1>2. CASE s.case # None
    <2>. DEFINE status == cases[s.case].status
    <2>1. status \in Statuses
      BY <1>2 DEF Traced, CasesOk
    <2>2. CASE status = "PENDING"
      <3>1. Reconciled(s) = [s EXCEPT !.stage = "RECONCILIATION_PENDING"]
        BY <1>2, <2>2 DEF Reconciled
      <3>. QED BY <1>2, <2>2, <3>1 DEF Steady, Core, Loads, Missing, Traced, Clean
    <2>3. CASE status = "RESOLVED_NOT_COMMITTED"
      <3>1. Reconciled(s) = [s EXCEPT !.case = None]
        BY <1>2, <2>3 DEF Reconciled
      <3>. QED BY <1>2, <2>3, <3>1 DEF Steady, Core, Loads, Missing, Traced
    <2>4. CASE status = "MANUAL_REVIEW" \/ (status = "RESOLVED_COMMITTED" /\ ~Matching(s, s.case))
      <3>1. Reconciled(s) = [s EXCEPT !.stage = "HUMAN_REVIEW"]
        BY <1>2, <2>4 DEF Reconciled
      <3>. QED BY <1>2, <2>4, <3>1 DEF Steady, Core, Loads, Missing, Traced, Clean
    <2>5. CASE status = "RESOLVED_COMMITTED" /\ Matching(s, s.case)
      <3>1. Reconciled(s) = Confirmed(s, s.case)
        BY <1>2, <2>5 DEF Reconciled
      <3>2. CASE s.case.action = "CREATE_TICKET"
        <4>1. s.cached = None
          BY <1>2, <2>5, <3>2 DEF Traced, CasesOk
        <4>. QED BY <1>2, <2>5, <3>1, <3>2, <4>1
                 DEF Confirmed, Steady, Core, Loads, Missing, Traced
      <3>3. CASE s.case.action # "CREATE_TICKET"
        BY <1>2, <2>5, <3>1, <3>3 DEF Confirmed, Steady, Core, Loads, Missing, Traced
      <3>. QED BY <3>2, <3>3
    <2>. QED BY <2>1, <2>2, <2>3, <2>4, <2>5 DEF Statuses
  <1>. QED BY <1>1, <1>2

LEMMA InvalidatedFields ==
  ASSUME NEW s, Steady(s)
  PROVE  /\ Steady(Invalidated(s))
         /\ Invalidated(s).op = None /\ Invalidated(s).cached = s.cached
         /\ Invalidated(s).case = s.case /\ Invalidated(s).ticket = s.ticket
         /\ Invalidated(s).slots = {} /\ Invalidated(s).slot = None
         /\ Invalidated(s).appointment = s.appointment /\ Invalidated(s).stage = s.stage
         /\ Invalidated(s).intent = s.intent /\ Invalidated(s).duplicates = s.duplicates
         /\ Invalidated(s).verified = FALSE /\ Keeps(s, Invalidated(s))
  <1>. DEFINE none == NoSlots(s)
  <1>1. /\ DOMAIN none = DOMAIN s /\ none.slot = None
        /\ none.case = s.case /\ none.ticket = s.ticket /\ none.cached = s.cached
        /\ none.slots = {} /\ none.appointment = s.appointment /\ none.stage = s.stage
        /\ Keeps(s, none) /\ none.duplicates = s.duplicates
    BY NoSlotsFields DEF Steady
  <1>2. Invalidated(s) = [none EXCEPT !.verified = FALSE, !.op = None]
    BY DEF Invalidated
  <1>. HIDE DEF none
  <1>3. /\ DOMAIN Invalidated(s) = DOMAIN s
        /\ Invalidated(s).op = None /\ Invalidated(s).cached = s.cached
        /\ Invalidated(s).case = s.case /\ Invalidated(s).ticket = s.ticket
        /\ Invalidated(s).slots = {} /\ Invalidated(s).slot = None
        /\ Invalidated(s).appointment = s.appointment /\ Invalidated(s).stage = s.stage
        /\ Invalidated(s).intent = s.intent /\ Invalidated(s).duplicates = s.duplicates
        /\ Invalidated(s).verified = FALSE /\ Keeps(s, Invalidated(s))
    BY <1>1, <1>2 DEF Steady, Core, Keeps
  <1>. QED BY <1>3, KeepsLoads DEF Steady

LEMMA WithDuplicatesFields ==
  ASSUME NEW s, Core \subseteq DOMAIN s
  PROVE  /\ DOMAIN WithDuplicates(s) = DOMAIN s
         /\ WithDuplicates(s).case = s.case /\ WithDuplicates(s).cached = s.cached
         /\ WithDuplicates(s).slot = s.slot /\ WithDuplicates(s).slots = s.slots
         /\ WithDuplicates(s).op = s.op /\ WithDuplicates(s).appointment = s.appointment
         /\ WithDuplicates(s).intent = s.intent /\ Keeps(s, WithDuplicates(s))
         /\ \A d \in WithDuplicates(s).duplicates : d.ticket \in DOMAIN tickets
         /\ WithDuplicates(s).ticket = s.ticket \/ WithDuplicates(s).ticket \in DOMAIN tickets
  <1>. DEFINE found == {[ticket |-> t, version |-> tickets[t].version] : t \in OpenFor(s.issue)}
              seen == [s EXCEPT !.duplicates = found, !.stage = "OPEN"]
              only == CHOOSE d \in found : TRUE
  <1>1. WithDuplicates(s) = IF Cardinality(found) # 1 THEN seen
                            ELSE [seen EXCEPT !.ticket = only.ticket,
                                              !.ticketVersion = only.version]
    BY DEF WithDuplicates
  <1>2. \A d \in found : d.ticket \in DOMAIN tickets
    BY DEF OpenFor
  <1>3. Cardinality(found) = 1 => only \in found
    BY FS_EmptySet
  <1>. HIDE DEF found, only
  <1>4. /\ DOMAIN seen = DOMAIN s /\ seen.case = s.case /\ seen.cached = s.cached
        /\ seen.slot = s.slot /\ seen.slots = s.slots /\ seen.op = s.op
        /\ seen.appointment = s.appointment /\ Keeps(s, seen)
        /\ seen.duplicates = found /\ seen.ticket = s.ticket
    BY DEF Core, Keeps
  <1>. HIDE DEF seen
  <1>5. CASE Cardinality(found) # 1
    BY <1>1, <1>2, <1>4, <1>5 DEF Keeps
  <1>6. CASE Cardinality(found) = 1
    BY <1>1, <1>2, <1>3, <1>4, <1>6 DEF Core, Keeps
  <1>. QED BY <1>5, <1>6

LEMMA RefreshFields ==
  ASSUME NEW s, Steady(s)
  PROVE  /\ DOMAIN Refresh(s) = DOMAIN s
         /\ Refresh(s).case = s.case
         /\ Refresh(s).cached # None => Refresh(s).ticket # None
  <1>1. CASE s.ticket = None
    BY <1>1 DEF Refresh, Steady
  <1>2. CASE s.ticket # None
    <2>. DEFINE now == Snapshot(s)
    <2>1. DOMAIN now = DOMAIN s /\ now.case = s.case /\ now.ticket = s.ticket
      BY SnapshotFields DEF Steady
    <2>2. Refresh(s) \in {Forgotten(now), NoSlots(now), now}
      BY <1>2 DEF Refresh
    <2>. HIDE DEF now
    <2>3. /\ DOMAIN Forgotten(now) = DOMAIN s /\ Forgotten(now).case = s.case
          /\ Forgotten(now).cached = None
      BY <2>1, ForgottenFields DEF Steady
    <2>4. /\ DOMAIN NoSlots(now) = DOMAIN s /\ NoSlots(now).case = s.case
          /\ NoSlots(now).ticket = s.ticket
      BY <2>1, NoSlotsFields DEF Steady
    <2>. QED BY <1>2, <2>1, <2>2, <2>3, <2>4
  <1>. QED BY <1>1, <1>2

\* Only a creation beside another ticket's snapshot leaves a state that does not load.
LEMMA SuccessFields ==
  ASSUME NEW s, Steady(s), NEW node, NEW answer
  PROVE  LET r == Success(node, s, answer)
         IN /\ Core \subseteq DOMAIN r /\ r.case = s.case /\ r.op = None /\ r.cached = s.cached
            /\ r.duplicates = s.duplicates /\ Keeps(s, r)
            /\ IF node = "create_ticket"
               THEN r.ticket = answer.resource /\ r.slot = s.slot /\ r.slots = s.slots
               ELSE r.ticket = s.ticket /\ r.slot = None /\ r.slots = {}
            /\ Loads(r) => Steady(r)
            /\ node # "create_ticket" \/ s.cached = None => Loads(r)
  <1>. DEFINE result == IF node = "create_ticket" THEN None ELSE answer.resource
              done == [s EXCEPT !.op = None, !.ticketVersion = answer.ticketVersion,
                                !.result = result]
              r == Success(node, s, answer)
  <1>1. /\ DOMAIN done = DOMAIN s /\ done.case = s.case /\ done.cached = s.cached
        /\ done.ticket = s.ticket /\ done.slot = s.slot /\ done.slots = s.slots
        /\ done.op = None /\ done.duplicates = s.duplicates /\ Keeps(s, done)
    <2>. HIDE DEF result
    <2>. QED BY DEF Steady, Core, Keeps
  <1>2. r = IF node = "create_ticket" THEN [done EXCEPT !.ticket = answer.resource]
            ELSE [NoSlots(done) EXCEPT !.appointment = answer.resource, !.appointmentVersion = 1]
    BY DEF Success
  <1>. HIDE DEF done, r
  <1>3. CASE node = "create_ticket"
    <2>1. /\ DOMAIN r = DOMAIN s /\ r.case = s.case /\ r.op = None /\ r.cached = s.cached
          /\ r.duplicates = s.duplicates /\ Keeps(s, r)
          /\ r.ticket = answer.resource /\ r.slot = s.slot /\ r.slots = s.slots
      BY <1>1, <1>2, <1>3 DEF Steady, Core, Keeps
    <2>2. Loads(r) => Steady(r)
      BY <2>1 DEF Steady, Loads
    <2>3. s.cached = None => Loads(r)
      BY <2>1, KeepsLoads DEF Steady
    <2>. QED BY <1>3, <2>1, <2>2, <2>3 DEF Steady, r
  <1>4. CASE node # "create_ticket"
    <2>. DEFINE none == NoSlots(done)
    <2>1. /\ DOMAIN none = DOMAIN s /\ none.slot = None /\ none.slots = {}
          /\ none.case = s.case /\ none.ticket = s.ticket /\ none.cached = s.cached
          /\ none.op = None /\ none.duplicates = s.duplicates /\ Keeps(done, none)
      BY <1>1, NoSlotsFields DEF Steady
    <2>2. r = [none EXCEPT !.appointment = answer.resource, !.appointmentVersion = 1]
      BY <1>2, <1>4
    <2>. HIDE DEF none
    <2>3. /\ DOMAIN r = DOMAIN s /\ r.case = s.case /\ r.op = None /\ r.cached = s.cached
          /\ r.duplicates = s.duplicates /\ Keeps(s, r)
          /\ r.ticket = s.ticket /\ r.slot = None /\ r.slots = {}
      BY <1>1, <2>1, <2>2 DEF Steady, Core, Keeps
    <2>4. Loads(r)
      BY <2>3, KeepsLoads DEF Steady
    <2>. QED BY <1>4, <2>3, <2>4 DEF Steady, r
  <1>. QED BY <1>3, <1>4

-----------------------------------------------------------------------------
(***************************************************************************)
(* Steps of the graph.                                                     *)
(***************************************************************************)
\* What a node may return.
Returns(node, s) ==
  /\ Core \subseteq DOMAIN s /\ s.case = None
  /\ Loads(s) => Steady(s)
  /\ Loads(s) \/ Decides(node) \/ (overtaken /\ node = "create_ticket")
  /\ node \in Prepares => Clean(s)
  /\ node = "prepare_create" /\ ~overtaken => s.cached = None

LEMMA Aborts ==
  ASSUME RInv, run # None, Abort, UNCHANGED <<cases, reader, overtaken>>
  PROVE  RInv'
  BY DEF RInv, Abort, CheckpointOk, RunOk, ReaderOk, CasesOk, BlockOk, Begun, Ready

LEMMA Completes ==
  ASSUME RInv, run # None, NEW node, node # END, NEW s, Returns(node, s), Complete(node, s),
         UNCHANGED <<cases, reader, overtaken>>
  PROVE  RInv'
  <1>1. CASE Decides(node) /\ ~Loads(s)
    BY <1>1, Aborts DEF Complete
  <1>2. CASE ~(Decides(node) /\ ~Loads(s))
    <2>1. /\ cp' = s /\ last' = node /\ next' = Edge(node, s)
          /\ run' = IF Edge(node, s) = END THEN None
                    ELSE Invoke(s, Edge(node, s), FALSE, run.resumed)
      BY <1>2 DEF Complete
    <2>2. /\ Loads(s) => Steady(s)
          /\ Traced(s, cases) /\ Ready(Edge(node, s), s)
          /\ Loads(s) \/ (overtaken /\ node = "create_ticket")
      BY <1>2, ReadyNext DEF Returns, Traced
    <2>3. CheckpointOk'
      BY <2>1, <2>2 DEF CheckpointOk, Begun, Ready
    <2>4. RunOk'
      <3>. DEFINE at == Edge(node, s)
      <3>. HIDE DEF at
      <3>1. SUFFICES ASSUME run' # None
                     PROVE  RunOk'
        BY DEF RunOk
      <3>2. Loads(s) /\ run' = [state |-> s, at |-> at, sent |-> FALSE, answer |-> FALSE,
                                resumed |-> run.resumed, behind |-> FALSE]
        BY <2>1, <3>1 DEF Invoke, at
      <3>3. Steady(s) /\ s.case = None /\ Ready(at, s)
        BY <2>2, <3>2 DEF at, Returns
      <3>4. /\ run'.state = s /\ run'.at = at /\ run'.sent = FALSE
            /\ RunFields \subseteq DOMAIN run'
        BY <3>2 DEF RunFields
      <3>. QED BY <2>1, <3>2, <3>3, <3>4 DEF RunOk, Begun, Ready
    <2>5. ReaderOk'
      BY <2>1 DEF RInv, ReaderOk, Begun
    <2>6. CasesOk' /\ BlockOk'
      BY DEF RInv, CasesOk, BlockOk
    <2>. QED BY <2>3, <2>4, <2>5, <2>6 DEF RInv
  <1>. QED BY <1>1, <1>2

\* The outcome of a mutation is not known: its case is opened, and blocks the thread.
LEMMA Opens ==
  ASSUME RInv, run # None, run.at \in Mutations, run.sent, NEW op, op = State.op,
         UnknownCommit(op), UNCHANGED <<reader, overtaken>>
  PROVE  RInv'
  <1>1. Begun /\ op # None
    BY DEF RInv, RunOk, Asserted, State
  <1>2. CASE ~MayHaveCase(op)
    BY <1>2, Aborts DEF UnknownCommit
  <1>3. CASE MayHaveCase(op)
    <2>. DEFINE s == [cp EXCEPT !.stage = "RECONCILIATION_PENDING", !.case = op]
                row == [status |-> "PENDING", for |-> cp.op]
    <2>1. /\ cases' = IF op \in DOMAIN cases THEN cases ELSE Inserted(cases, op, row)
          /\ Save(s) /\ run' = None
      BY <1>3 DEF UnknownCommit
    <2>2. /\ Clean(cp) /\ Steady(cp) /\ CasesOk /\ Ready(next, cp) /\ next = Edge(last, cp)
          /\ \A x \in DOMAIN cases : ~overtaken => cases[x].status \notin {"PENDING", "MANUAL_REVIEW"}
          /\ ReaderOk
      BY <1>1 DEF RInv, RunOk, CheckpointOk, BlockOk
    <2>3. s.case = op /\ s.op = cp.op /\ s.cached = cp.cached /\ Steady(s)
      BY <2>2 DEF Steady, Core, Loads, Missing
    <2>. HIDE DEF s
    <2>4. /\ DOMAIN cases' = DOMAIN cases \cup {op}
          /\ \A x \in DOMAIN cases : cases'[x] = cases[x]
          /\ op \notin DOMAIN cases => cases'[op] = row
          /\ cases'[op].for = cp.op
      <3>1. CASE op \in DOMAIN cases
        BY <1>3, <2>1, <3>1 DEF MayHaveCase
      <3>2. CASE op \notin DOMAIN cases
        <4>. DEFINE table == Inserted(cases, op, row)
        <4>. HIDE DEF row
        <4>1. /\ DOMAIN table = DOMAIN cases \cup {op} /\ table[op] = row
              /\ \A x \in DOMAIN cases \ {op} : table[x] = cases[x]
          BY DEF Inserted
        <4>2. cases' = table
          BY <2>1, <3>2
        <4>3. row.for = cp.op
          BY DEF row
        <4>. HIDE DEF table
        <4>. QED BY <3>2, <4>1, <4>2, <4>3
      <3>. QED BY <3>1, <3>2
    <2>5. CasesOk'
      BY <1>1, <2>2, <2>4 DEF CasesOk, CaseFields, Statuses
    <2>6. Clean(s) /\ Traced(s, cases')
      BY <1>1, <2>2, <2>3, <2>4 DEF Traced, Clean, Creates
    <2>7. cp' = s /\ next' = Edge(last, s) /\ last' = last
      BY <2>1 DEF Save
    <2>8. last = "prepare_create" /\ ~overtaken => s.cached = None
      BY <2>2, <2>3, EdgesAsk DEF Ready
    <2>9. Ready(Edge(last, s), s)
      BY <2>6, <2>8, ReadyNext
    <2>10. CheckpointOk'
      BY <2>3, <2>6, <2>7, <2>9 DEF CheckpointOk, Ready, Steady
    <2>11. ReaderOk'
      BY <1>1, <2>2, <2>4, <2>7 DEF ReaderOk, Begun, Traced
    <2>12. BlockOk'
      BY <1>1, <2>1, <2>2, <2>3, <2>4, <2>7 DEF BlockOk, Begun
    <2>. QED BY <2>1, <2>5, <2>10, <2>11, <2>12 DEF RInv, RunOk
  <1>. QED BY <1>2, <1>3

LEMMA RunState ==
  ASSUME RInv, run # None
  PROVE  Steady(State) /\ State.case = None /\ Ready(run.at, State)
  BY DEF RInv, RunOk, State

LEMMA NodeKeeps ==
  ASSUME RInv, Node
  PROVE  RInv'
  <1>. USE DEF Outside, db
  <1>1. ASSUME ResolveProperty PROVE RInv'
    <2>. DEFINE result == CASE State.verified -> State
                            [] ~State.verified /\ permitted -> [State EXCEPT !.verified = TRUE]
                            [] OTHER -> [State EXCEPT !.stage = "HUMAN_REVIEW"]
    <2>1. run # None /\ Complete("resolve_property", result)
      BY <1>1 DEF ResolveProperty, At
    <2>2. result \in {State, [State EXCEPT !.verified = TRUE], [State EXCEPT !.stage = "HUMAN_REVIEW"]}
      OBVIOUS
    <2>. HIDE DEF result
    <2>3. Returns("resolve_property", result)
      BY <2>1, <2>2, RunState DEF Returns, Steady, Core, Decides, Prepares
    <2>. QED BY <1>1, <2>1, <2>3, Completes DEF ResolveProperty, END
  <1>2. ASSUME Interpret PROVE RInv'
    <2>1. PICK u \in Utterances : run # None /\ Complete("interpret", Merge(State, u))
      BY <1>2 DEF Interpret, At
    <2>2. Returns("interpret", Merge(State, u))
      BY <2>1, RunState, MergeFields DEF Returns, Steady, Decides, Prepares
    <2>. QED BY <1>2, <2>1, <2>2, Completes DEF Interpret, END
  <1>3. ASSUME RetrievePolicy PROVE RInv'
    <2>1. PICK b \in BOOLEAN :
            run # None /\ Complete("retrieve_policy",
                                   [State EXCEPT !.sufficient = b, !.stage = "OPEN"])
      BY <1>3 DEF RetrievePolicy, At
    <2>2. Returns("retrieve_policy", [State EXCEPT !.sufficient = b, !.stage = "OPEN"])
      BY <2>1, RunState DEF Returns, Steady, Core, Decides, Prepares
    <2>. QED BY <1>3, <2>1, <2>2, Completes DEF RetrievePolicy, END
  <1>4. ASSUME FindDuplicates PROVE RInv'
    <2>1. run # None /\ Complete("find_duplicates", WithDuplicates(State))
      BY <1>4 DEF FindDuplicates, At
    <2>2. Returns("find_duplicates", WithDuplicates(State))
      BY <2>1, RunState, WithDuplicatesFields DEF Returns, Steady, Loads, Decides, Prepares
    <2>. QED BY <1>4, <2>1, <2>2, Completes DEF FindDuplicates, END
  <1>5. ASSUME ResolveExisting PROVE RInv'
    <2>. DEFINE result == CASE State.ticket # None -> State
                            [] State.ticket = None /\ State.issue # None -> WithDuplicates(State)
                            [] OTHER -> [State EXCEPT !.stage = "HUMAN_REVIEW"]
    <2>1. run # None /\ Complete("resolve_existing", result)
      BY <1>5 DEF ResolveExisting, At
    <2>2. result \in {State, WithDuplicates(State), [State EXCEPT !.stage = "HUMAN_REVIEW"]}
      OBVIOUS
    <2>. HIDE DEF result
    <2>3. Returns("resolve_existing", WithDuplicates(State))
      BY <2>1, RunState, WithDuplicatesFields DEF Returns, Steady, Loads, Decides, Prepares
    <2>4. Returns("resolve_existing", result)
      BY <2>1, <2>2, <2>3, RunState DEF Returns, Steady, Core, Decides, Prepares
    <2>. QED BY <1>5, <2>1, <2>4, Completes DEF ResolveExisting, END
  <1>6. ASSUME RefreshSnapshot PROVE RInv'
    <2>1. run # None /\ Complete("refresh_snapshot", Refresh(State))
      BY <1>6 DEF RefreshSnapshot, At
    <2>2. Returns("refresh_snapshot", Refresh(State))
      BY <2>1, RunState, RefreshFields DEF Returns, Steady, Decides, Prepares
    <2>. QED BY <1>6, <2>1, <2>2, Completes DEF RefreshSnapshot, END
  <1>7. ASSUME ListSlots PROVE RInv'
    <2>1. PICK slots :
            run # None /\ Complete("list_slots", [State EXCEPT !.slots = slots, !.stage = "OPEN"])
      BY <1>7 DEF ListSlots, At
    <2>2. Returns("list_slots", [State EXCEPT !.slots = slots, !.stage = "OPEN"])
      BY <2>1, RunState DEF Returns, Steady, Core, Decides, Prepares
    <2>. QED BY <1>7, <2>1, <2>2, Completes DEF ListSlots, END
  <1>8. ASSUME Interrupt PROVE RInv'
    BY <1>8 DEF Interrupt, RInv, CheckpointOk, RunOk, ReaderOk, CasesOk, BlockOk, Begun, Ready
  <1>9. ASSUME Conflict \/ AssertionFails \/ RefusalArrives PROVE RInv'
    BY <1>9, Aborts DEF Conflict, AssertionFails, RefusalArrives, Mutating
  <1>10. ASSUME ProvideInformation PROVE RInv'
    <2>1. PICK node \in {"need_information", "need_availability_information"} :
            run # None /\ Complete(node, [State EXCEPT !.stage = "OPEN"]) /\ Outside
      BY <1>10 DEF ProvideInformation, Answered, At
    <2>2. Returns(node, [State EXCEPT !.stage = "OPEN"])
      BY <2>1, RunState DEF Returns, Steady, Core, Loads, Missing, Prepares
    <2>. QED BY <2>1, <2>2, Completes DEF END
  <1>11. ASSUME SelectDuplicate PROVE RInv'
    <2>1. PICK d : run # None /\ run.at = "select_duplicate"
                   /\ Complete("select_duplicate",
                        [State EXCEPT !.ticket = d.ticket, !.stage = "OPEN",
                                      !.ticketVersion = d.version])
      BY <1>11 DEF SelectDuplicate, Answered, At
    <2>2. State.cached = None
      BY <2>1, RunState DEF Ready, Steady
    <2>3. Returns("select_duplicate", [State EXCEPT !.ticket = d.ticket, !.stage = "OPEN",
                                                    !.ticketVersion = d.version])
      BY <2>1, <2>2, RunState DEF Returns, Steady, Core, Loads, Missing, Prepares
    <2>. QED BY <1>11, <2>1, <2>3, Completes DEF SelectDuplicate, END
  <1>12. ASSUME SelectSlot PROVE RInv'
    <2>1. PICK slot : run # None /\ Complete("select_slot", [State EXCEPT !.slot = slot])
      BY <1>12 DEF SelectSlot, Answered, At
    <2>2. Returns("select_slot", [State EXCEPT !.slot = slot])
      BY <2>1, RunState DEF Returns, Steady, Core, Decides, Prepares
    <2>. QED BY <1>12, <2>1, <2>2, Completes DEF SelectSlot, END
  <1>13. ASSUME CancelSlot PROVE RInv'
    <2>. DEFINE none == NoSlots(State)
                result == [none EXCEPT !.intent = "UNKNOWN", !.stage = "DONE", !.windows = FALSE,
                                       !.missing = FALSE, !.result = None, !.op = None]
    <2>1. run # None /\ Complete("select_slot", result)
      BY <1>13 DEF CancelSlot, Answered, At
    <2>2. /\ DOMAIN none = DOMAIN State /\ none.case = State.case
          /\ none.ticket = State.ticket /\ none.cached = State.cached
      BY <2>1, RunState, NoSlotsFields DEF Steady
    <2>. HIDE DEF none
    <2>3. Returns("select_slot", result)
      BY <2>1, <2>2, RunState DEF Returns, Steady, Core, Decides, Prepares
    <2>. HIDE DEF result
    <2>. QED BY <1>13, <2>1, <2>3, Completes DEF CancelSlot, END
  <1>14. ASSUME PrepareCreate PROVE RInv'
    <2>1. PICK op : run # None /\ run.at = "prepare_create"
                    /\ Complete("prepare_create", [State EXCEPT !.stage = "OPEN", !.op = op])
      BY <1>14 DEF PrepareCreate, At
    <2>2. State.cached = None
      BY <2>1, RunState DEF Ready, Steady
    <2>3. Returns("prepare_create", [State EXCEPT !.stage = "OPEN", !.op = op])
      BY <2>1, <2>2, RunState DEF Returns, Steady, Core, Loads, Missing, Clean
    <2>. QED BY <1>14, <2>1, <2>3, Completes DEF PrepareCreate, END
  <1>15. ASSUME PrepareBook PROVE RInv'
    <2>1. PICK op : run # None /\ op.action = "BOOK_APPOINTMENT"
                    /\ Complete("prepare_book", [State EXCEPT !.stage = "OPEN", !.op = op])
      BY <1>15 DEF PrepareBook, At, Operation
    <2>2. Returns("prepare_book", [State EXCEPT !.stage = "OPEN", !.op = op])
      BY <2>1, RunState DEF Returns, Steady, Core, Loads, Missing, Clean, Creates
    <2>. QED BY <1>15, <2>1, <2>2, Completes DEF PrepareBook, END
  <1>16. ASSUME PrepareReschedule PROVE RInv'
    <2>1. PICK op : run # None /\ op.action = "RESCHEDULE_APPOINTMENT"
                    /\ Complete("prepare_reschedule", [State EXCEPT !.stage = "OPEN", !.op = op])
      BY <1>16 DEF PrepareReschedule, At, Operation
    <2>2. Returns("prepare_reschedule", [State EXCEPT !.stage = "OPEN", !.op = op])
      BY <2>1, RunState DEF Returns, Steady, Core, Loads, Missing, Clean, Creates
    <2>. QED BY <1>16, <2>1, <2>2, Completes DEF PrepareReschedule, END
  <1>17. ASSUME Dispatch PROVE RInv'
    <2>1. /\ run' = [run EXCEPT !.sent = TRUE] /\ run # None /\ run.at \in Mutations
          /\ Asserted(run.at, run.state)
          /\ UNCHANGED <<cp, last, next, cases, reader, overtaken>>
      BY <1>17 DEF Dispatch, Mutating, State
    <2>2. /\ DOMAIN run' = DOMAIN run /\ run'.state = run.state /\ run'.at = run.at
          /\ run'.sent = TRUE
      BY <2>1 DEF RInv, RunOk, RunFields
    <2>3. RunOk'
      BY <2>1, <2>2 DEF RInv, RunOk, Begun, Ready
    <2>. QED BY <2>1, <2>3
             DEF RInv, CheckpointOk, ReaderOk, CasesOk, BlockOk, Begun, Ready
  <1>18. ASSUME AnswerArrives PROVE RInv'
    <2>. DEFINE result == Success(run.at, State, receipts'[State.op])
    <2>1. run # None /\ run.at \in Mutations /\ run.sent /\ Complete(run.at, result)
      BY <1>18 DEF AnswerArrives, Mutating
    <2>2. Steady(State) /\ State.case = None
          /\ (run.at = "create_ticket" /\ ~overtaken => State.cached = None)
      BY <2>1, RunState DEF Ready
    <2>3. /\ Core \subseteq DOMAIN result /\ result.case = None /\ (Loads(result) => Steady(result))
          /\ run.at # "create_ticket" \/ State.cached = None => Loads(result)
      BY <2>2, SuccessFields
    <2>. HIDE DEF result
    <2>4. Returns(run.at, result)
      BY <2>1, <2>2, <2>3 DEF Returns, Mutations, Prepares
    <2>. QED BY <1>18, <2>1, <2>4, Completes DEF AnswerArrives, Mutations, END
  <1>19. ASSUME ConflictArrives PROVE RInv'
    <2>. DEFINE none == NoSlots(State)
                result == [none EXCEPT !.op = None]
    <2>1. run # None /\ run.at \in Mutations /\ Complete(run.at, result)
      BY <1>19 DEF ConflictArrives, Mutating
    <2>2. /\ DOMAIN none = DOMAIN State /\ none.case = State.case /\ none.slot = None
          /\ none.ticket = State.ticket /\ none.cached = State.cached /\ Keeps(State, none)
      BY <2>1, RunState, NoSlotsFields DEF Steady
    <2>. HIDE DEF none
    <2>3. /\ DOMAIN result = DOMAIN State /\ result.case = State.case /\ result.slot = None
          /\ result.ticket = State.ticket /\ result.cached = State.cached
          /\ Keeps(State, result)
      BY <2>1, <2>2, RunState DEF Steady, Core, Keeps
    <2>. HIDE DEF result
    <2>4. Loads(result)
      BY <2>1, <2>3, RunState, KeepsLoads DEF Steady
    <2>5. Returns(run.at, result)
      BY <2>1, <2>3, <2>4, RunState DEF Returns, Steady, Mutations, Prepares
    <2>. QED BY <1>19, <2>1, <2>5, Completes DEF ConflictArrives, Mutations, END
  <1>20. ASSUME Finish PROVE RInv'
    <2>. DEFINE closed(stage) == [State EXCEPT !.stage = stage]
                dropped(stage) == [State EXCEPT !.stage = stage, !.op = None]
                finishes == {"compose", "finish_safety", "finish_policy_review",
                             "finish_unsupported", "finish_manual_request",
                             "finish_overdue_appointment"}
    <2>1. PICK node, stage :
            /\ node \in finishes /\ run # None
            /\ (Complete(node, closed(stage)) \/ Complete(node, dropped(stage)))
      BY <1>20 DEF Finish, At
    <2>2. Returns(node, closed(stage)) /\ Returns(node, dropped(stage))
      BY <2>1, RunState DEF Returns, Steady, Core, Loads, Missing, Prepares
    <2>3. UNCHANGED <<cases, reader, overtaken>>
      BY <1>20 DEF Finish
    <2>. HIDE DEF closed, dropped
    <2>. QED BY <2>1, <2>2, <2>3, Completes DEF END
  <1>21. ASSUME ClashArrives PROVE RInv'
    <2>1. /\ run # None /\ run.at \in Mutations /\ run.sent /\ UnknownCommit(State.op)
          /\ UNCHANGED <<reader, overtaken>>
      BY <1>21 DEF ClashArrives, Mutating
    <2>. QED BY <2>1, Opens
  <1>. QED BY <1>1, <1>2, <1>3, <1>4, <1>5, <1>6, <1>7, <1>8, <1>9, <1>10, <1>11, <1>12,
              <1>13, <1>14, <1>15, <1>16, <1>17, <1>18, <1>19, <1>20, <1>21 DEF Node

-----------------------------------------------------------------------------
(***************************************************************************)
(* Steps around the graph.                                                 *)
(***************************************************************************)
\* A state stored from outside, by somebody who may run the graph from it.
LEMMA Saves ==
  ASSUME RInv, Begun, Loads(cp), NEW s, Save(s), Steady(s), Traced(s, cases),
         last \in Prepares => Clean(s), s.cached = cp.cached, UNCHANGED <<cases, reader, overtaken>>
  PROVE  CheckpointOk' /\ ReaderOk' /\ CasesOk' /\ Begun'
  <1>1. cp' = s /\ next' = Edge(last, s) /\ last' = last
    BY DEF Save
  <1>2. last = "prepare_create" /\ ~overtaken => s.cached = None
    BY EdgesAsk DEF RInv, CheckpointOk, Ready
  <1>3. Ready(Edge(last, s), s)
    BY <1>2, ReadyNext
  <1>. QED BY <1>1, <1>3 DEF RInv, CheckpointOk, ReaderOk, CasesOk, Begun, Steady, Ready

\* What a turn or a resume goes on from.
LEMMA Refreshes ==
  ASSUME RInv, Begun, Loads(cp), Refreshing, UNCHANGED <<cases, reader, overtaken>>
  PROVE  /\ CheckpointOk' /\ ReaderOk' /\ CasesOk' /\ Begun'
         /\ cp' = Reconciled(cp)
  <1>1. /\ Steady(cp) /\ Traced(cp, cases) /\ next = Edge(last, cp) /\ Ready(next, cp)
        /\ CasesOk
    BY DEF RInv, CheckpointOk
  <1>2. CASE Reconciled(cp) = cp
    BY <1>1, <1>2 DEF Refreshing, RInv, CheckpointOk, ReaderOk, CasesOk, Begun, Ready
  <1>3. CASE Reconciled(cp) # cp
    <2>. DEFINE s == Reconciled(cp)
    <2>1. Steady(s) /\ Traced(s, cases) /\ s.op \in {cp.op, None} /\ s.cached = cp.cached
      BY <1>1, ReconciledFields
    <2>2. last \in Prepares => next \in Mutations
      BY <1>1 DEF Edge, Prepares, Mutations
    <2>3. last \in Prepares => Clean(s)
      BY <1>1, <2>1, <2>2 DEF Ready, Clean, Creates
    <2>4. Save(s)
      BY <1>3 DEF Refreshing
    <2>. HIDE DEF s
    <2>5. CheckpointOk' /\ ReaderOk' /\ CasesOk' /\ Begun'
      BY <2>1, <2>3, <2>4, Saves
    <2>. QED BY <2>4, <2>5 DEF Save, s
  <1>. QED BY <1>2, <1>3

\* While a case of the thread is unsettled its checkpoint blocks it.
LEMMA BlockStays ==
  ASSUME RInv, Begun, Loads(cp), cp' = Reconciled(cp), last' # END, run = None, run' = None,
         UNCHANGED <<cases, overtaken>>
  PROVE  BlockOk'
  <1>1. SUFFICES ASSUME ~overtaken, NEW op \in DOMAIN cases,
                        cases[op].status \in {"PENDING", "MANUAL_REVIEW"}
                 PROVE  Reconciled(cp).case = op
    BY DEF BlockOk, Begun
  <1>2. cp.case = op /\ op # None
    BY <1>1 DEF RInv, BlockOk, CasesOk
  <1>. QED BY <1>1, <1>2, ReconciledFields DEF RInv, CheckpointOk

\* A thread that may go on has no unsettled case, unless a read was overtaken.
LEMMA UnblockedSettled ==
  ASSUME RInv, Begun, Loads(cp), ~Blocked(Reconciled(cp)), ~overtaken, NEW op \in DOMAIN cases
  PROVE  cases[op].status \notin {"PENDING", "MANUAL_REVIEW"}
  <1>1. SUFFICES ASSUME cases[op].status \in {"PENDING", "MANUAL_REVIEW"} PROVE FALSE
    OBVIOUS
  <1>2. cp.case = op /\ op # None
    BY <1>1 DEF RInv, BlockOk, CasesOk
  <1>3. Reconciled(cp).case = op
    BY <1>1, <1>2, ReconciledFields DEF RInv, CheckpointOk
  <1>. QED BY <1>2, <1>3 DEF Blocked

\* A thread that has not begun has no case.
LEMMA Unbegun ==
  ASSUME RInv, ~Begun, ~overtaken, NEW op \in DOMAIN cases
  PROVE  cases[op].status \notin {"PENDING", "MANUAL_REVIEW"}
  BY DEF RInv, BlockOk

\* An invocation of what is stored begins.
LEMMA Begins ==
  ASSUME RInv, CheckpointOk', ReaderOk', CasesOk', Begun', run = None, NEW at, NEW answer,
         NEW resumed, NEW s, s = cp', run' = None \/ run' = Invoke(s, at, answer, resumed),
         Ready(at, s), s.case = None, UNCHANGED <<cases, overtaken>>,
         ~overtaken => \A op \in DOMAIN cases : cases[op].status \notin {"PENDING", "MANUAL_REVIEW"}
  PROVE  RInv'
  <1>1. run' # None => /\ RunFields \subseteq DOMAIN run' /\ run'.state = s /\ run'.at = at
                       /\ run'.sent = FALSE /\ Loads(s)
    <2>. DEFINE begun == Invoke(s, at, answer, resumed)
    <2>1. begun # None => /\ RunFields \subseteq DOMAIN begun /\ begun.state = s /\ begun.at = at
                          /\ begun.sent = FALSE /\ Loads(s)
      BY DEF Invoke, RunFields
    <2>. HIDE DEF begun
    <2>2. run' \in {None, begun}
      BY DEF begun
    <2>. QED BY <2>1, <2>2
  <1>2. Loads(s) => Steady(s)
    BY DEF CheckpointOk
  <1>3. RunOk'
    BY <1>1, <1>2 DEF RunOk, Ready
  <1>4. BlockOk'
    BY DEF BlockOk
  <1>. QED BY <1>3, <1>4 DEF RInv

LEMMA TroubleKeeps ==
  ASSUME RInv, Trouble
  PROVE  RInv'
  <1>1. ASSUME AnswerLost PROVE RInv'
    <2>1. /\ run # None /\ run.at \in Mutations /\ run.sent /\ UnknownCommit(State.op)
          /\ UNCHANGED <<reader, overtaken>>
      BY <1>1 DEF AnswerLost, Mutating
    <2>. QED BY <2>1, Opens
  <1>2. ASSUME Fails PROVE RInv'
    BY <1>2, Aborts DEF Fails
  <1>3. ASSUME LanguageFails PROVE RInv'
    <2>. DEFINE s == [cp EXCEPT !.stage = "HUMAN_REVIEW", !.op = None]
    <2>1. /\ run # None /\ Begun /\ Loads(cp) /\ Save(s) /\ run' = None
          /\ UNCHANGED <<cases, reader, overtaken>>
      BY <1>3 DEF LanguageFails, RInv, RunOk, db
    <2>2. Steady(cp) /\ Traced(cp, cases)
      BY <2>1 DEF RInv, CheckpointOk
    <2>3. Steady(s) /\ s.op = None /\ s.cached = cp.cached /\ s.case = cp.case
      BY <2>2 DEF Steady, Core, Loads, Missing
    <2>. HIDE DEF s
    <2>4. Clean(s) /\ Traced(s, cases)
      BY <2>2, <2>3 DEF Clean, Creates, Traced
    <2>5. CheckpointOk' /\ ReaderOk' /\ CasesOk'
      BY <2>1, <2>3, <2>4, Saves
    <2>6. BlockOk'
      BY <2>1 DEF RInv, BlockOk
    <2>. QED BY <2>1, <2>5, <2>6 DEF RInv, RunOk
  <1>. QED BY <1>1, <1>2, <1>3 DEF Trouble

\* A state read and reconciled, or invalidated, is stored whatever was stored meanwhile.
LEMMA OverwriteKeeps ==
  ASSUME RInv, reader # None, reader' = None, UNCHANGED cases, NEW s, Overwrite(s), Steady(s),
         Traced(s, cases), Clean(s), s.cached = reader.cached,
         reader = cp => \A op \in DOMAIN cases :
                          /\ cases[op].status \in {"PENDING", "MANUAL_REVIEW"}
                          /\ cp.case = op
                          => s.case = op
  PROVE  RInv'
  <1>1. Save(s) /\ Begun /\ (overtaken' = (overtaken \/ reader # cp))
    BY DEF Overwrite, RInv, ReaderOk
  <1>2. cp' = s /\ next' = Edge(last, s) /\ last' = last
    BY <1>1 DEF Save
  <1>3. CheckpointOk'
    <2>1. last = "prepare_create" /\ ~overtaken' => s.cached = None
      BY <1>1, EdgesAsk DEF RInv, CheckpointOk, ReaderOk, Ready, Steady
    <2>2. /\ Edge(last, s) \in {"select_duplicate", "prepare_create"} => s.ticket = None
          /\ Edge(last, s) = "create_ticket" <=> last = "prepare_create"
      BY EdgesAsk
    <2>. QED BY <1>1, <1>2, <2>1, <2>2 DEF CheckpointOk, Ready, Steady
  <1>4. ReaderOk' /\ CasesOk'
    BY DEF RInv, ReaderOk, CasesOk
  <1>5. RunOk'
    <2>1. CASE run = None
      BY <2>1 DEF Overwrite, RunOk
    <2>2. CASE run # None
      <3>1. run' = [run EXCEPT !.behind = TRUE]
        BY <2>2 DEF Overwrite
      <3>2. /\ DOMAIN run' = DOMAIN run /\ run'.state = run.state /\ run'.at = run.at
            /\ run'.sent = run.sent
        BY <2>2, <3>1 DEF RInv, RunOk, RunFields
      <3>. QED BY <1>1, <1>2, <2>2, <3>2 DEF RInv, RunOk, Begun, Ready, Steady
    <2>. QED BY <2>1, <2>2
  <1>6. BlockOk'
    BY <1>1, <1>2 DEF RInv, BlockOk, Begun, Overwrite
  <1>. QED BY <1>3, <1>4, <1>5, <1>6 DEF RInv

LEMMA OrchestratorKeeps ==
  ASSUME RInv, Orchestrator
  PROVE  RInv'
  <1>. USE DEF db
  <1>1. ASSUME StartThread PROVE RInv'
    <2>. DEFINE s == NewThread
    <2>1. /\ run = None /\ ~Begun /\ cp' = s /\ last' = "__start__"
          /\ next' = "resolve_property"
          /\ run' = Invoke(s, "resolve_property", FALSE, FALSE)
          /\ UNCHANGED <<cases, reader, overtaken>>
      BY <1>1 DEF StartThread, Turn
    <2>2. Steady(s) /\ s.case = None
      BY NewThreadSteady
    <2>. HIDE DEF s
    <2>3. Begun' /\ CheckpointOk'
      BY <2>1, <2>2 DEF CheckpointOk, Begun, END, Steady, Traced, Ready, Edge, Mutations
    <2>4. ReaderOk' /\ CasesOk'
      BY <2>1 DEF RInv, ReaderOk, CasesOk
    <2>5. Ready("resolve_property", s)
      BY DEF Ready, Mutations
    <2>. QED BY <2>1, <2>2, <2>3, <2>4, <2>5, Unbegun, Begins
  <1>2. ASSUME TurnRevoked PROVE RInv'
    <2>. DEFINE s == Invalidated(cp)
    <2>1. /\ run = None /\ run' = None /\ Begun /\ Loads(cp) /\ Save(s)
          /\ UNCHANGED <<cases, reader, overtaken>>
      BY <1>2 DEF TurnRevoked, Turn, Owned
    <2>2. Steady(cp) /\ Traced(cp, cases)
      BY <2>1 DEF RInv, CheckpointOk
    <2>3. Steady(s) /\ s.op = None /\ s.cached = cp.cached /\ s.case = cp.case
      BY <2>2, InvalidatedFields
    <2>. HIDE DEF s
    <2>4. Clean(s) /\ Traced(s, cases)
      BY <2>2, <2>3 DEF Clean, Creates, Traced
    <2>5. CheckpointOk' /\ ReaderOk' /\ CasesOk'
      BY <2>1, <2>3, <2>4, Saves
    <2>6. BlockOk'
      BY <2>1, <2>3 DEF RInv, BlockOk, Save, Begun
    <2>. QED BY <2>1, <2>5, <2>6 DEF RInv, RunOk
  <1>3. ASSUME TurnBlocked PROVE RInv'
    <2>1. /\ run = None /\ run' = None /\ Begun /\ Loads(cp) /\ Refreshing
          /\ UNCHANGED <<cases, reader, overtaken>>
      BY <1>3 DEF TurnBlocked, Turn, Owned
    <2>2. /\ CheckpointOk' /\ ReaderOk' /\ CasesOk' /\ Begun' /\ cp' = Reconciled(cp)
      BY <2>1, Refreshes
    <2>3. BlockOk'
      BY <2>1, <2>2, BlockStays DEF Begun
    <2>. QED BY <2>1, <2>2, <2>3 DEF RInv, RunOk
  <1>4. ASSUME StartTurnAgain \/ Resume PROVE RInv'
    <2>1. /\ run = None /\ Begun /\ Loads(cp) /\ Refreshing /\ ~Blocked(Reconciled(cp))
          /\ UNCHANGED <<cases, reader, overtaken>>
      BY <1>4 DEF StartTurnAgain, Resume, Unblocked, Turn, Owned
    <2>2. PICK answer, resumed : run' = None \/ run' = Invoke(cp', next', answer, resumed)
      BY <1>4 DEF StartTurnAgain, Resume
    <2>3. /\ CheckpointOk' /\ ReaderOk' /\ CasesOk' /\ Begun' /\ cp' = Reconciled(cp)
      BY <2>1, Refreshes
    <2>4. Ready(next', cp') /\ cp'.case = None
      BY <2>1, <2>3, ReconciledFields DEF RInv, CheckpointOk, Blocked, Steady, Ready
    <2>5. ~overtaken => \A op \in DOMAIN cases : cases[op].status \notin {"PENDING", "MANUAL_REVIEW"}
      BY <2>1, UnblockedSettled
    <2>. QED BY <2>1, <2>2, <2>3, <2>4, <2>5, Begins
  <1>5. ASSUME StartTurnAfresh PROVE RInv'
    <2>. DEFINE s == Reconciled(cp)
    <2>1. /\ run = None /\ Begun /\ Loads(cp) /\ ~Blocked(s)
          /\ UNCHANGED <<cases, reader, overtaken>>
          /\ cp' = s /\ last' = "__start__" /\ next' = "resolve_property"
          /\ run' = Invoke(cp', "resolve_property", FALSE, FALSE)
      BY <1>5 DEF StartTurnAfresh, Unblocked, Turn, Owned
    <2>2. Steady(s) /\ s.case = None
      BY <2>1, ReconciledFields DEF RInv, CheckpointOk, Blocked
    <2>3. ~overtaken => \A op \in DOMAIN cases : cases[op].status \notin {"PENDING", "MANUAL_REVIEW"}
      BY <2>1, UnblockedSettled
    <2>. HIDE DEF s
    <2>4. Begun' /\ CheckpointOk'
      BY <2>1, <2>2 DEF CheckpointOk, Begun, END, Steady, Traced, Ready, Edge, Mutations
    <2>5. ReaderOk' /\ CasesOk'
      BY <2>1, <2>4 DEF RInv, ReaderOk, CasesOk
    <2>6. Ready("resolve_property", s)
      BY DEF Ready, Mutations
    <2>. QED BY <2>1, <2>2, <2>3, <2>4, <2>5, <2>6, Begins
  <1>6. ASSUME ReadState PROVE RInv'
    <2>1. Begun /\ Loads(cp) /\ reader' = cp /\ UNCHANGED <<thread, cases, overtaken>>
      BY <1>6 DEF ReadState, Owned
    <2>2. ReaderOk'
      BY <2>1 DEF thread, RInv, ReaderOk, CheckpointOk, Begun
    <2>. QED BY <2>1, <2>2 DEF thread, RInv, CheckpointOk, RunOk, CasesOk, BlockOk, Begun, Ready
  <1>7. ASSUME StoreState PROVE RInv'
    <2>1. /\ reader # None /\ reader' = None /\ UNCHANGED cases
          /\ Steady(reader) /\ Traced(reader, cases) /\ CasesOk
      BY <1>7 DEF StoreState, RInv, ReaderOk
    <2>2. CASE UNCHANGED <<thread, overtaken>>
      BY <2>1, <2>2
         DEF thread, RInv, CheckpointOk, ReaderOk, RunOk, CasesOk, BlockOk, Begun, Ready
    <2>3. CASE Overwrite(Invalidated(reader))
      <3>. DEFINE s == Invalidated(reader)
      <3>1. Steady(s) /\ s.op = None /\ s.cached = reader.cached /\ s.case = reader.case
        BY <2>1, InvalidatedFields
      <3>2. Overwrite(s)
        BY <2>3
      <3>. HIDE DEF s
      <3>3. Clean(s) /\ Traced(s, cases)
        BY <2>1, <3>1 DEF Clean, Creates, Traced
      <3>. QED BY <2>1, <3>1, <3>2, <3>3, OverwriteKeeps
    <2>4. CASE Overwrite(Reconciled(reader)) /\ Reconciled(reader) # reader
      <3>. DEFINE s == Reconciled(reader)
      <3>1. /\ Steady(s) /\ Traced(s, cases) /\ s.op \in {reader.op, None}
            /\ s.cached = reader.cached /\ reader.case # None
            /\ cases[reader.case].status \in {"PENDING", "MANUAL_REVIEW"} => s.case = reader.case
        BY <2>1, <2>4, ReconciledFields
      <3>2. Overwrite(s)
        BY <2>4
      <3>. HIDE DEF s
      <3>3. Clean(s)
        BY <2>1, <3>1 DEF Clean, Creates, Traced
      <3>. QED BY <2>1, <3>1, <3>2, <3>3, OverwriteKeeps
    <2>. QED BY <1>7, <2>2, <2>3, <2>4 DEF StoreState
  <1>. QED BY <1>1, <1>2, <1>3, <1>4, <1>5, <1>6, <1>7 DEF Orchestrator

LEMMA EnvironmentKeeps ==
  ASSUME RInv, Environment
  PROVE  RInv'
  <1>1. ASSUME NEW op \in DOMAIN cases, Settle(op) PROVE RInv'
    <2>1. PICK verdict \in {"MANUAL_REVIEW", "RESOLVED_NOT_COMMITTED", "RESOLVED_COMMITTED"} :
            /\ cases' = [cases EXCEPT ![op].status = verdict]
            /\ verdict = "RESOLVED_COMMITTED" => cases[op].for = op
      BY <1>1 DEF Settle, Evident
    <2>2. UNCHANGED <<thread, reader, overtaken>> /\ cases[op].status = "PENDING"
      BY <1>1 DEF Settle
    <2>3. /\ DOMAIN cases' = DOMAIN cases
          /\ \A x \in DOMAIN cases \ {op} : cases'[x] = cases[x]
          /\ cases'[op] = [cases[op] EXCEPT !.status = verdict]
      BY <2>1
    <2>4. CaseFields \subseteq DOMAIN cases[op]
      BY DEF RInv, CasesOk
    <2>5. /\ DOMAIN cases'[op] = DOMAIN cases[op]
          /\ cases'[op].for = cases[op].for /\ cases'[op].status = verdict
      <3>. DEFINE row == cases[op]
                  settled == [row EXCEPT !.status = verdict]
      <3>1. cases'[op] = settled
        BY <2>3
      <3>. HIDE DEF row
      <3>2. CaseFields \subseteq DOMAIN row
        BY <2>4 DEF row
      <3>3. /\ DOMAIN settled = DOMAIN row /\ settled.for = row.for /\ settled.status = verdict
        BY <3>2 DEF CaseFields
      <3>. HIDE DEF settled
      <3>. QED BY <3>1, <3>3 DEF row
    <2>6. \A x \in DOMAIN cases : cases'[x].for = cases[x].for
      BY <2>3, <2>5
    <2>7. CasesOk'
      BY <2>1, <2>3, <2>5 DEF RInv, CasesOk, CaseFields, Statuses
    <2>8. CheckpointOk' /\ ReaderOk' /\ RunOk'
      BY <2>2, <2>3, <2>6 DEF thread, RInv, CheckpointOk, ReaderOk, RunOk, Begun, Traced, Ready
    <2>9. BlockOk'
      BY <2>2, <2>3, <2>5 DEF thread, RInv, BlockOk, Begun
    <2>. QED BY <2>7, <2>8, <2>9 DEF RInv
  <1>2. ASSUME UNCHANGED <<thread, cases, reader, overtaken>> PROVE RInv'
    BY <1>2 DEF thread, RInv, CheckpointOk, ReaderOk, RunOk, CasesOk, BlockOk, Begun, Ready
  <1>3. ASSUME NEW req \in flying, Land(req) PROVE RInv'
    BY <1>2, <1>3 DEF Land
  <1>4. ASSUME \/ \E issue \in Issues : OtherCreates(issue)
               \/ \E t \in DOMAIN tickets : OtherChanges(t) \/ AppointmentMoves(t)
               \/ \E slot \in Slots : OtherTakes(slot)
               \/ RelationChanges
        PROVE RInv'
    BY <1>2, <1>4 DEF OtherCreates, OtherChanges, AppointmentMoves, OtherTakes, RelationChanges,
                      Moving
  <1>. QED BY <1>1, <1>3, <1>4 DEF Environment

-----------------------------------------------------------------------------
\* The invariant holds at the start and every step keeps it.
LEMMA InitRInv == Init => RInv
  BY DEF Init, RInv, CheckpointOk, RunOk, ReaderOk, CasesOk, BlockOk, Begun

LEMMA NextRInv == RInv /\ [Next]_vars => RInv'
  <1>1. CASE UNCHANGED vars
    BY <1>1
       DEF vars, thread, db, RInv, CheckpointOk, RunOk, ReaderOk, CasesOk, BlockOk, Begun, Ready
  <1>. QED BY <1>1, NodeKeeps, TroubleKeeps, OrchestratorKeeps, EnvironmentKeeps DEF Next

\* Every state the orchestrator, a node, a failure or a concurrent read stores is one
\* AgentState's validators accept, but for a ticket created after a read overtook a turn,
\* and an unsettled case blocks the thread it is of.
THEOREM SpecRInv == Spec => []RInv
  BY InitRInv, NextRInv, PTL DEF Spec

\* No path through the graph, a reconciliation or a revoked relation leaves a checkpoint
\* that get_state, a turn or a resume could not read again; what is left is the creation
\* of a ticket in a thread that a get_state has put back behind a turn.
THEOREM CheckpointLoadsHolds == Spec => []CheckpointLoads
  <1>1. RInv => CheckpointLoads
    BY DEF RInv, CheckpointOk, CheckpointLoads
  <1>. QED BY SpecRInv, <1>1, PTL

\* A mutation is sent by an invocation under way.
LEMMA OnlyInvocationsSend ==
  ASSUME RInv, Next, ~Sending, Sending'
  PROVE  run # None
  <1>1. SUFFICES ASSUME run = None PROVE FALSE
    OBVIOUS
  <1>2. ~Node
    BY <1>1 DEF Node, ResolveProperty, Interpret, RetrievePolicy, FindDuplicates, ResolveExisting,
                RefreshSnapshot, ListSlots, Interrupt, Conflict, ProvideInformation,
                SelectDuplicate, SelectSlot, CancelSlot, PrepareCreate, PrepareBook,
                PrepareReschedule, Dispatch, AssertionFails, AnswerArrives, ConflictArrives,
                RefusalArrives, ClashArrives, Finish, At, Answered, Mutating
  <1>3. ~Trouble
    BY <1>1 DEF Trouble, AnswerLost, Fails, LanguageFails, Mutating
  <1>4. ~Environment
    BY <1>1 DEF Environment, Land, Settle, OtherCreates, OtherChanges, AppointmentMoves,
                OtherTakes, RelationChanges, Moving, thread, Sending
  <1>5. ~Orchestrator
    <2>1. ~StartThread
      <3>1. StartThread => run' = Invoke(NewThread, "resolve_property", FALSE, FALSE)
        BY DEF StartThread
      <3>. QED BY <3>1 DEF Sending, Invoke
    <2>2. ~StartTurnAgain
      <3>1. StartTurnAgain => run' = None \/ run' = Invoke(cp', next', FALSE, FALSE)
        BY DEF StartTurnAgain
      <3>. QED BY <3>1 DEF Sending, Invoke
    <2>3. ~StartTurnAfresh
      <3>1. StartTurnAfresh => run' = Invoke(cp', "resolve_property", FALSE, FALSE)
        BY DEF StartTurnAfresh
      <3>. QED BY <3>1 DEF Sending, Invoke
    <2>4. ~Resume
      <3>1. Resume => run' = None \/ run' = Invoke(cp', next', TRUE, TRUE)
        BY DEF Resume
      <3>. QED BY <3>1 DEF Sending, Invoke
    <2>5. ~(TurnRevoked \/ TurnBlocked \/ ReadState \/ StoreState)
      BY <1>1 DEF TurnRevoked, TurnBlocked, ReadState, StoreState, Overwrite, thread, Sending
    <2>. QED BY <2>1, <2>2, <2>3, <2>4, <2>5 DEF Orchestrator
  <1>. QED BY <1>2, <1>3, <1>4, <1>5 DEF Next

\* A mutation node calls the server only when every case of the thread has been decided,
\* as long as no get_state has stored over a state it had not read.
THEOREM NothingSentWhilePendingHolds == Spec => NothingSentWhilePending
  <1>1. RInv /\ [Next]_vars => [~Sending /\ Sending' /\ Unsettled => overtaken]_vars
    <2>. SUFFICES ASSUME RInv, Next, ~Sending, Sending', Unsettled PROVE overtaken
      OBVIOUS
    <2>1. run # None
      BY OnlyInvocationsSend
    <2>. QED BY <2>1 DEF RInv, BlockOk, Unsettled
  <1>. QED BY SpecRInv, <1>1, PTL DEF Spec, NothingSentWhilePending

-----------------------------------------------------------------------------
(***************************************************************************)
(* Nothing is booked that was not confirmed: the property's tickets and    *)
(* the resident's choices only grow, and every state of the thread and     *)
(* every request sent for it names a slot chosen for its ticket.           *)
(***************************************************************************)
World == [chosen |-> chosen, tickets |-> DOMAIN tickets]

Grows(v, w) == v.chosen \subseteq w.chosen /\ v.tickets \subseteq w.tickets

Chose(w, t, slot) == \E c \in w.chosen : c.ticket = t /\ c.slot = slot

\* A slot is one confirmed for the state's ticket.
StateOk(s, w) ==
  /\ s.ticket # None => s.ticket \in w.tickets
  /\ s.ticket = None => s.slots = {}
  /\ \A d \in s.duplicates : d.ticket \in w.tickets
  /\ s.slot # None => Chose(w, s.ticket, s.slot)

\* A slot is of the ticket whose snapshot is cached: another ticket cannot take its place.
Anchored(s) == s.slot # None => s.cached # None

\* Without a ticket only a new repair goes on.
Grounded(s) == s.ticket # None \/ s.intent = "NEW_REPAIR"

\* A ticket is known to the state whose operation is about one.
Linked(s) ==
  s.op # None => IF Creates(s.op) THEN s.ticket = None /\ s.intent = "NEW_REPAIR"
                 ELSE s.cached # None

\* A blocked state may become the state of another node, and its case may be confirmed.
Tracked(s, table) ==
  s.case # None =>
    /\ Linked(s) /\ Grounded(s) /\ Anchored(s) /\ s.stage # "DONE"
    /\ table[s.case].for = s.case =>
         IF s.case.action = "CREATE_TICKET" THEN s.ticket = None ELSE s.cached # None

Rounds == {"retrieve_policy", "find_duplicates", "refresh_snapshot", "select_slot",
           "select_duplicate"} \cup Mutations

\* What holds of a node's result, whatever its edge decides.
After(node, s) ==
  /\ node \in Rounds => Grounded(s)
  /\ node # "select_slot" \/ s.stage = "DONE" => Anchored(s)
  /\ node = "list_slots" /\ s.stage = "DONE" => s.cached # None

\* What a node finds.
Fit(node, s) ==
  /\ node \in {"retrieve_policy", "find_duplicates", "refresh_snapshot"} => Grounded(s)
  /\ node \in {"list_slots", "select_slot"} => s.ticket # None
  /\ node # "refresh_snapshot" => Anchored(s)
  /\ node = "select_slot" /\ s.stage = "DONE" => s.cached # None
  /\ node \in {"prepare_book", "prepare_reschedule"} => s.slot # None
  /\ node = "prepare_create" => s.intent = "NEW_REPAIR"
  /\ node \in Mutations => Linked(s)

CheckpointFit ==
  Begun /\ Loads(cp) => /\ StateOk(cp, World) /\ Tracked(cp, cases)
                        /\ cp.verified => After(last, cp)
                        /\ last \in Prepares => Linked(cp)

RunFit ==
  run # None => /\ StateOk(run.state, World) /\ Fit(run.at, run.state)
                /\ run.at \in Mutations => Linked(cp)

ReaderFit == reader # None => StateOk(reader, World) /\ Tracked(reader, cases)

ThreadInv == CheckpointFit /\ RunFit /\ ReaderFit

Actions == {"CREATE_TICKET", "BOOK_APPOINTMENT", "RESCHEDULE_APPOINTMENT"}

\* A request books what was confirmed for the ticket it names.
ReqOk(req, w) ==
  /\ req.action \in Actions
  /\ req.action # "CREATE_TICKET" => req.ticket \in w.tickets /\ Chose(w, req.ticket, req.subject)

Rows(q) == {q[t] : t \in DOMAIN q}

TicketsOk ==
  /\ tickets \in Seq(Rows(tickets))
  /\ \A t \in DOMAIN tickets :
       /\ "appointment" \in DOMAIN tickets[t]
       /\ tickets[t].appointment # None =>
            /\ "id" \in DOMAIN tickets[t].appointment
            /\ tickets[t].appointment.id \in Int

ReceiptsOk ==
  /\ IsFiniteSet(DOMAIN receipts)
  /\ \A key \in DOMAIN receipts :
       receipts[key].action = "CREATE_TICKET" => receipts[key].resource \in DOMAIN tickets

FlyingOk == \A req \in flying : ReqOk(req, World)

DecidedOk ==
  \A op \in DOMAIN cases : cases[op].status = "RESOLVED_COMMITTED" =>
    op \in DOMAIN receipts /\ receipts[op].action = op.action

ServerInv == TicketsOk /\ ReceiptsOk

BInv == ThreadInv /\ ServerInv /\ FlyingOk /\ DecidedOk

-----------------------------------------------------------------------------
LEMMA StateOkGrows ==
  ASSUME NEW s, NEW v, NEW w, StateOk(s, v), Grows(v, w)
  PROVE  StateOk(s, w)
  BY DEF StateOk, Grows, Chose

LEMMA ReqOkGrows ==
  ASSUME NEW req, NEW v, NEW w, ReqOk(req, v), Grows(v, w)
  PROVE  ReqOk(req, w)
  BY DEF ReqOk, Grows, Chose

LEMMA EdgesFrom ==
  ASSUME NEW node, NEW s
  PROVE  /\ Edge(node, s) = "retrieve_policy" => s.intent = "NEW_REPAIR"
         /\ Edge(node, s) = "find_duplicates" => node = "retrieve_policy" \/ s.intent = "NEW_REPAIR"
         /\ Edge(node, s) = "refresh_snapshot" =>
              s.ticket # None \/ node \in {"select_slot", "select_duplicate"} \cup Mutations
         /\ Edge(node, s) = "list_slots" =>
              node = "refresh_snapshot" /\ (s.ticket # None \/ s.intent # "NEW_REPAIR")
         /\ Edge(node, s) = "select_slot" => node = "list_slots" /\ s.slots # {}
         /\ Edge(node, s) \in {"prepare_book", "prepare_reschedule"} => s.slot # None
         /\ Edge(node, s) = "prepare_create" => node = "find_duplicates" /\ s.ticket = None
         /\ node = "select_slot" => Edge(node, s) = "refresh_snapshot" \/ s.stage = "DONE"
  <1>. DEFINE e == Edge(node, s)
  <1>1. e = "retrieve_policy" => s.intent = "NEW_REPAIR"
    BY DEF Edge, AfterInterpret, AfterSnapshot, END
  <1>2. e = "find_duplicates" => node = "retrieve_policy" \/ s.intent = "NEW_REPAIR"
    BY DEF Edge, AfterInterpret, AfterSnapshot, END
  <1>3. e = "refresh_snapshot" =>
          s.ticket # None \/ node \in {"select_slot", "select_duplicate"} \cup Mutations
    BY DEF Edge, AfterInterpret, AfterSnapshot, END, Mutations
  <1>4. e = "list_slots" => node = "refresh_snapshot" /\ (s.ticket # None \/ s.intent # "NEW_REPAIR")
    BY DEF Edge, AfterInterpret, AfterSnapshot, END
  <1>5. e = "select_slot" => node = "list_slots" /\ s.slots # {}
    BY DEF Edge, AfterInterpret, AfterSnapshot, END
  <1>6. e \in {"prepare_book", "prepare_reschedule"} => s.slot # None
    BY DEF Edge, AfterInterpret, AfterSnapshot, END
  <1>7. e = "prepare_create" => node = "find_duplicates" /\ s.ticket = None
    BY DEF Edge, AfterInterpret, AfterSnapshot, END
  <1>8. node = "select_slot" => e = "refresh_snapshot" \/ s.stage = "DONE"
    BY DEF Edge
  <1>. QED BY <1>1, <1>2, <1>3, <1>4, <1>5, <1>6, <1>7, <1>8

LEMMA FitNext ==
  ASSUME NEW node, NEW s, NEW w, StateOk(s, w), After(node, s), node \in Prepares => Linked(s)
  PROVE  Fit(Edge(node, s), s)
  <1>. DEFINE e == Edge(node, s)
  <1>1. e \in Mutations => Linked(s)
    BY EdgesAsk
  <1>2. e \in {"retrieve_policy", "find_duplicates", "refresh_snapshot"} => Grounded(s)
    BY EdgesFrom DEF After, Rounds, Grounded
  <1>3. e = "list_slots" => s.ticket # None
    BY EdgesFrom DEF After, Rounds, Grounded
  <1>4. e = "select_slot" => s.ticket # None /\ (s.stage = "DONE" => s.cached # None)
    BY EdgesFrom DEF After, StateOk
  <1>5. e # "refresh_snapshot" => Anchored(s)
    BY EdgesFrom DEF After
  <1>6. e \in {"prepare_book", "prepare_reschedule"} => s.slot # None
    BY EdgesFrom
  <1>7. e = "prepare_create" => s.intent = "NEW_REPAIR"
    BY EdgesFrom DEF After, Rounds, Grounded
  <1>. HIDE DEF e
  <1>8. Fit(e, s)
    BY <1>1, <1>2, <1>3, <1>4, <1>5, <1>6, <1>7 DEF Fit
  <1>. QED BY <1>8 DEF e

LEMMA MergeClaims ==
  ASSUME NEW s, Steady(s), NEW u, NEW w, StateOk(s, w), Anchored(s)
  PROVE  StateOk(Merge(s, u), w) /\ Anchored(Merge(s, u))
  <1>. DEFINE m == Merge(s, u)
  <1>1. /\ m.ticket = s.ticket /\ m.cached = s.cached /\ m.appointment = s.appointment
        /\ m.op \in {s.op, None} /\ m.duplicates \in {s.duplicates, {}}
        /\ (m.slot = None /\ m.slots = {}) \/ (m.slot = s.slot /\ m.slots = s.slots)
    BY MergeFields DEF Steady
  <1>. HIDE DEF m
  <1>2. StateOk(m, w) /\ Anchored(m)
    BY <1>1 DEF StateOk, Anchored
  <1>. QED BY <1>2 DEF m

LEMMA InvalidatedClaims ==
  ASSUME NEW s, Steady(s), NEW table, NEW w, StateOk(s, w), Tracked(s, table)
  PROVE  /\ StateOk(Invalidated(s), w) /\ Tracked(Invalidated(s), table)
         /\ Linked(Invalidated(s))
  <1>. DEFINE v == Invalidated(s)
  <1>1. /\ v.op = None /\ v.cached = s.cached /\ v.case = s.case /\ v.ticket = s.ticket
        /\ v.slots = {} /\ v.slot = None /\ v.appointment = s.appointment
        /\ v.stage = s.stage /\ v.intent = s.intent /\ v.duplicates = s.duplicates
    BY InvalidatedFields
  <1>. HIDE DEF v
  <1>2. StateOk(v, w) /\ Tracked(v, table) /\ Linked(v)
    BY <1>1 DEF StateOk, Tracked, Linked, Grounded, Anchored
  <1>. QED BY <1>2 DEF v

LEMMA RefreshClaims ==
  ASSUME TicketsOk, NEW s, Steady(s), StateOk(s, World), Grounded(s)
  PROVE  /\ StateOk(Refresh(s), World) /\ Anchored(Refresh(s)) /\ Grounded(Refresh(s))
  <1>1. CASE s.ticket = None
    BY <1>1 DEF Refresh, StateOk, Anchored, Steady, Loads
  <1>2. CASE s.ticket # None
    <2>. DEFINE now == Snapshot(s)
                a == tickets[s.ticket].appointment
                id == IF a = None THEN None ELSE a.id
                copy == [ticket |-> s.ticket, appointment |-> id]
    <2>1. s.ticket \in DOMAIN tickets
      BY <1>2 DEF StateOk, World
    <2>2. id \in Int \cup {None}
      BY <2>1 DEF TicketsOk
    <2>3. copy # None
      <3>1. s.ticket \in Nat
        BY <2>1 DEF TicketsOk
      <3>. QED BY <2>2, <3>1, NoneAssumption
    <2>4. /\ DOMAIN now = DOMAIN s /\ now.ticket = s.ticket /\ now.cached = copy
          /\ now.slot = s.slot /\ now.slots = s.slots
          /\ now.intent = s.intent /\ now.duplicates = s.duplicates
      BY SnapshotFields DEF Steady
    <2>5. \/ Refresh(s) \in {NoSlots(now), now}
          \/ Refresh(s) = Forgotten(now) /\ s.intent = "NEW_REPAIR"
      BY <1>2 DEF Refresh, Closed
    <2>. HIDE DEF now, copy, id
    <2>6. CASE Refresh(s) = now
      BY <1>2, <2>2, <2>3, <2>4, <2>6 DEF StateOk, Anchored, Grounded
    <2>7. CASE Refresh(s) = NoSlots(now)
      <3>. DEFINE none == NoSlots(now)
      <3>1. /\ none.slots = {} /\ none.slot = None /\ none.ticket = now.ticket
            /\ none.cached = now.cached /\ none.intent = now.intent
            /\ none.duplicates = now.duplicates
        BY <2>4, NoSlotsFields DEF Steady
      <3>. HIDE DEF none
      <3>2. StateOk(none, World) /\ Anchored(none) /\ Grounded(none)
        BY <1>2, <2>2, <2>3, <2>4, <3>1 DEF StateOk, Anchored, Grounded
      <3>. QED BY <2>7, <3>2 DEF none
    <2>8. CASE Refresh(s) = Forgotten(now) /\ s.intent = "NEW_REPAIR"
      <3>. DEFINE none == Forgotten(now)
      <3>1. /\ none.slots = {} /\ none.slot = None /\ none.ticket = None
            /\ none.intent = now.intent /\ none.duplicates = {}
        BY <2>4, ForgottenFields DEF Steady
      <3>. HIDE DEF none
      <3>2. StateOk(none, World) /\ Anchored(none) /\ Grounded(none)
        BY <2>4, <2>8, <3>1 DEF StateOk, Anchored, Grounded
      <3>. QED BY <2>8, <3>2 DEF none
    <2>. QED BY <2>5, <2>6, <2>7, <2>8
  <1>. QED BY <1>1, <1>2

\* Adopting the only candidate does not change a ticket that is known.
LEMMA WithDuplicatesClaims ==
  ASSUME NEW s, Steady(s), StateOk(s, World), Anchored(s), TicketsOk,
         Loads(WithDuplicates(s)) \/ s.cached = None
  PROVE  /\ StateOk(WithDuplicates(s), World) /\ Anchored(WithDuplicates(s))
         /\ s.ticket # None => WithDuplicates(s).ticket # None
  <1>. DEFINE d == WithDuplicates(s)
  <1>1. /\ d.cached = s.cached /\ d.slot = s.slot /\ d.slots = s.slots /\ d.op = s.op
        /\ d.appointment = s.appointment
        /\ \A x \in d.duplicates : x.ticket \in DOMAIN tickets
        /\ d.ticket = s.ticket \/ d.ticket \in DOMAIN tickets
    BY WithDuplicatesFields DEF Steady
  <1>2. \A t \in DOMAIN tickets : t # None
    BY NoneAssumption DEF TicketsOk
  <1>. HIDE DEF d
  <1>3. s.cached # None => d.ticket = s.ticket
    BY <1>1 DEF d, Loads, Steady
  <1>4. StateOk(d, World) /\ Anchored(d) /\ (s.ticket # None => d.ticket # None)
    BY <1>1, <1>2, <1>3 DEF StateOk, Anchored, World
  <1>. QED BY <1>4 DEF d

\* A ticket created beside another one's snapshot is stored in a state nobody can load.
LEMMA SuccessClaims ==
  ASSUME TicketsOk', NEW s, Steady(s), NEW node, NEW w, w = World', StateOk(s, w), Anchored(s),
         Linked(s), s.op # None, NEW answer,
         node = "create_ticket" => answer.resource \in w.tickets
  PROVE  LET r == Success(node, s, answer)
         IN Loads(r) => StateOk(r, w) /\ Anchored(r) /\ Grounded(r)
  <1>. DEFINE r == Success(node, s, answer)
  <1>1. /\ r.cached = s.cached /\ r.duplicates = s.duplicates /\ r.intent = s.intent
        /\ IF node = "create_ticket"
           THEN r.ticket = answer.resource /\ r.slot = s.slot /\ r.slots = s.slots
           ELSE r.ticket = s.ticket /\ r.slot = None /\ r.slots = {}
    BY SuccessFields DEF Keeps
  <1>. HIDE DEF r
  <1>2. CASE node = "create_ticket"
    <2>1. r.ticket \in w.tickets /\ r.ticket # None
      BY <1>1, <1>2, NoneAssumption DEF TicketsOk, World
    <2>2. Loads(r) /\ s.slot # None => r.ticket = s.ticket
      BY <1>1 DEF Anchored, Loads, Steady
    <2>. QED BY <1>1, <1>2, <2>1, <2>2 DEF StateOk, Anchored, Grounded, r
  <1>3. CASE node # "create_ticket"
    <2>1. Grounded(s)
      BY DEF Linked, Grounded, Steady
    <2>. QED BY <1>1, <1>3, <2>1 DEF StateOk, Anchored, Grounded, r
  <1>. QED BY <1>2, <1>3

LEMMA ReconciledClaims ==
  ASSUME NEW s, Steady(s), Traced(s, cases), CasesOk, TicketsOk, ReceiptsOk, DecidedOk,
         StateOk(s, World), Tracked(s, cases)
  PROVE  LET r == Reconciled(s)
         IN /\ StateOk(r, World) /\ Tracked(r, cases)
            /\ s.case # None =>
                 /\ Linked(r) /\ Grounded(r) /\ Anchored(r)
                 /\ r.stage = "DONE" => r.cached # None
  <1>1. CASE s.case = None
    BY <1>1 DEF Reconciled
  <1>2. CASE s.case # None
    <2>. DEFINE status == cases[s.case].status
                r == Reconciled(s)
    <2>1. status \in Statuses
      BY <1>2 DEF Traced, CasesOk
    <2>2. Core \subseteq DOMAIN s
      BY DEF Steady
    <2>3. CASE status \in {"PENDING", "MANUAL_REVIEW"} \/ (status = "RESOLVED_COMMITTED" /\ ~Matching(s, s.case))
      <3>1. PICK stage \in {"RECONCILIATION_PENDING", "HUMAN_REVIEW"} : r = [s EXCEPT !.stage = stage]
        BY <1>2, <2>3 DEF Reconciled
      <3>. HIDE DEF r
      <3>2. /\ r.op = s.op /\ r.cached = s.cached /\ r.slots = s.slots /\ r.slot = s.slot
            /\ r.appointment = s.appointment /\ r.intent = s.intent
            /\ r.duplicates = s.duplicates /\ r.ticket = s.ticket /\ r.case = s.case
            /\ r.stage = stage
        BY <2>2, <3>1 DEF Core
      <3>. QED BY <1>2, <3>2 DEF StateOk, Tracked, Linked, Anchored, Grounded, r
    <2>4. CASE status = "RESOLVED_NOT_COMMITTED"
      <3>1. r = [s EXCEPT !.case = None]
        BY <1>2, <2>4 DEF Reconciled
      <3>. HIDE DEF r
      <3>2. /\ r.op = s.op /\ r.cached = s.cached /\ r.slots = s.slots /\ r.slot = s.slot
            /\ r.appointment = s.appointment /\ r.intent = s.intent
            /\ r.duplicates = s.duplicates /\ r.ticket = s.ticket /\ r.case = None
            /\ r.stage = s.stage
        BY <2>2, <3>1 DEF Core
      <3>. QED BY <1>2, <3>2 DEF StateOk, Tracked, Linked, Anchored, Grounded, r
    <2>5. CASE status = "RESOLVED_COMMITTED" /\ Matching(s, s.case)
      <3>. DEFINE op == s.case
                  made == receipts[op].resource
      <3>1. r = Confirmed(s, op)
        BY <1>2, <2>5 DEF Reconciled
      <3>2. op \in DOMAIN cases /\ cases[op].for = op /\ op \in DOMAIN receipts
        BY <1>2, <2>5 DEF Traced, CasesOk, DecidedOk
      <3>3. op.action = "CREATE_TICKET" => made \in World.tickets
        BY <1>2, <2>5, <3>2 DEF ReceiptsOk, DecidedOk, World
      <3>4. CASE op.action = "CREATE_TICKET"
        <4>1. s.ticket = None /\ s.intent = "NEW_REPAIR" /\ made \in World.tickets
          BY <1>2, <3>2, <3>3, <3>4 DEF Tracked, Grounded
        <4>2. s.cached = None /\ s.slots = {} /\ s.slot = None
          BY <4>1 DEF Steady, StateOk, Loads
        <4>3. r = [s EXCEPT !.op = None, !.case = None, !.ticket = made, !.stage = "OPEN"]
          BY <2>2, <3>1, <3>4 DEF Confirmed, Core
        <4>. HIDE DEF r, made, op
        <4>4. /\ r.op = None /\ r.cached = None /\ r.slots = {} /\ r.slot = None
              /\ r.intent = "NEW_REPAIR"
              /\ r.duplicates = s.duplicates /\ r.ticket = made /\ r.case = None
              /\ r.stage = "OPEN"
          BY <2>2, <4>1, <4>2, <4>3 DEF Core
        <4>5. made # None
          BY <4>1, NoneAssumption DEF World, TicketsOk
        <4>. QED BY <1>2, <4>1, <4>4, <4>5 DEF StateOk, Tracked, Linked, Anchored, Grounded, r
      <3>5. CASE op.action # "CREATE_TICKET"
        <4>1. s.cached # None /\ s.ticket # None
          BY <1>2, <3>2, <3>5 DEF Tracked, Steady
        <4>2. r = [s EXCEPT !.op = None, !.case = None, !.appointment = made, !.stage = "DONE"]
          BY <2>2, <3>1, <3>5 DEF Confirmed, Core
        <4>. HIDE DEF r, made, op
        <4>3. /\ r.op = None /\ r.cached = s.cached /\ r.slots = s.slots /\ r.slot = s.slot
              /\ r.intent = s.intent
              /\ r.duplicates = s.duplicates /\ r.ticket = s.ticket /\ r.case = None
              /\ r.stage = "DONE"
          BY <2>2, <4>2 DEF Core
        <4>. QED BY <1>2, <4>1, <4>3 DEF StateOk, Tracked, Linked, Anchored, Grounded, r
      <3>. QED BY <3>4, <3>5
    <2>. QED BY <2>1, <2>3, <2>4, <2>5 DEF Statuses
  <1>. QED BY <1>1, <1>2

-----------------------------------------------------------------------------
(***************************************************************************)
(* Steps of the server and of the other actors.                            *)
(***************************************************************************)
LEMMA SameRows ==
  ASSUME NEW q, q \in Seq(Rows(q)), NEW n, DOMAIN n = DOMAIN q, n = [t \in DOMAIN n |-> n[t]]
  PROVE  n \in Seq(Rows(n))
  <1>1. n \in [1..Len(q) -> Rows(n)]
    BY DEF Rows
  <1>2. Len(q) \in Nat
    OBVIOUS
  <1>. QED BY <1>1, <1>2

LEMMA OwnRows ==
  ASSUME NEW S, NEW q \in Seq(S)
  PROVE  q \in Seq(Rows(q))
  BY DEF Rows

LEMMA TicketAdded ==
  ASSUME TicketsOk, NEW issue, tickets' = Append(tickets, Ticket(issue)), UNCHANGED chosen
  PROVE  /\ TicketsOk' /\ Grows(World, World') /\ Len(tickets) + 1 \in DOMAIN tickets'
         /\ NewlyBooked = {}
  <1>. DEFINE row == Ticket(issue)
  <1>1. /\ tickets' \in Seq(Rows(tickets'))
        /\ DOMAIN tickets' = DOMAIN tickets \cup {Len(tickets) + 1}
        /\ \A t \in DOMAIN tickets : tickets'[t] = tickets[t]
        /\ tickets'[Len(tickets) + 1] = row
    <2>. DEFINE old == tickets
                more == tickets'
    <2>1. old \in Seq(Rows(old)) /\ more = Append(old, row)
      BY DEF TicketsOk
    <2>. HIDE DEF row, old, more
    <2>2. /\ more \in Seq(Rows(more))
          /\ DOMAIN more = DOMAIN old \cup {Len(old) + 1}
          /\ \A t \in DOMAIN old : more[t] = old[t]
          /\ more[Len(old) + 1] = row
      <3>1. more \in Seq(Rows(old) \cup {row})
        BY <2>1
      <3>2. more \in Seq(Rows(more))
        BY <3>1, OwnRows
      <3>3. DOMAIN more = 1..(Len(old) + 1) /\ DOMAIN old = 1..Len(old) /\ Len(old) \in Nat
        BY <2>1
      <3>4. DOMAIN more = DOMAIN old \cup {Len(old) + 1}
        BY <3>3
      <3>5. \A t \in DOMAIN old : more[t] = old[t]
        BY <2>1
      <3>6. more[Len(old) + 1] = row
        BY <2>1
      <3>. QED BY <3>2, <3>4, <3>5, <3>6
    <2>. QED BY <2>2 DEF old, more
  <1>2. "appointment" \in DOMAIN row /\ row.appointment = None
    BY DEF Ticket
  <1>. HIDE DEF row
  <1>3. Grows(World, World')
    BY <1>1 DEF Grows, World
  <1>4. TicketsOk'
    BY <1>1, <1>2 DEF TicketsOk
  <1>5. NewlyBooked = {}
    BY <1>1, <1>2 DEF NewlyBooked
  <1>. QED BY <1>1, <1>3, <1>4, <1>5

\* A ticket's row is replaced: it is booked if its appointment is another one.
LEMMA RowReplaced ==
  ASSUME TicketsOk, NEW t \in DOMAIN tickets, NEW row, tickets' = [tickets EXCEPT ![t] = row],
         "appointment" \in DOMAIN row,
         row.appointment # None => "id" \in DOMAIN row.appointment /\ row.appointment.id \in Int,
         UNCHANGED chosen
  PROVE  /\ TicketsOk' /\ World' = World /\ Grows(World, World') /\ tickets'[t] = row
         /\ NewlyBooked \subseteq {t}
         /\ \/ row.appointment = None
            \/ /\ tickets[t].appointment # None
               /\ row.appointment.id = tickets[t].appointment.id
            => NewlyBooked = {}
  <1>1. /\ DOMAIN tickets' = DOMAIN tickets /\ tickets'[t] = row
        /\ \A x \in DOMAIN tickets \ {t} : tickets'[x] = tickets[x]
        /\ tickets' = [x \in DOMAIN tickets' |-> tickets'[x]]
    OBVIOUS
  <1>2. tickets' \in Seq(Rows(tickets'))
    BY <1>1, SameRows DEF TicketsOk
  <1>3. World' = World /\ Grows(World, World')
    BY <1>1 DEF World, Grows
  <1>4. TicketsOk'
    BY <1>1, <1>2 DEF TicketsOk
  <1>5. NewlyBooked \subseteq {t}
    BY <1>1 DEF NewlyBooked
  <1>6. \/ row.appointment = None
        \/ /\ tickets[t].appointment # None
           /\ row.appointment.id = tickets[t].appointment.id
        => t \notin NewlyBooked
    BY <1>1 DEF NewlyBooked
  <1>. QED BY <1>1, <1>3, <1>4, <1>5, <1>6

\* A request is answered from its record or takes effect, for the ticket it names.
LEMMA CommitKeeps ==
  ASSUME TicketsOk, ReceiptsOk, NEW req, ReqOk(req, World), Commit(req), UNCHANGED chosen
  PROVE  /\ ServerInv' /\ Grows(World, World')
         /\ req.key \in DOMAIN receipts' /\ receipts'[req.key].action = req.action
         /\ \A x \in DOMAIN receipts : x \in DOMAIN receipts' /\ receipts'[x] = receipts[x]
         /\ \A t \in NewlyBooked : Chose(World, t, tickets'[t].appointment.slot)
  <1>1. CASE Recorded(req) /\ receipts[req.key].action = req.action /\ UNCHANGED <<tickets, receipts>>
    <2>1. World' = World /\ NewlyBooked = {}
      BY <1>1 DEF World, NewlyBooked
    <2>. QED BY <1>1, <2>1 DEF ServerInv, TicketsOk, ReceiptsOk, Grows, Recorded
  <1>2. CASE ~Recorded(req) /\ Effect(req)
    <2>. DEFINE size == Cardinality(DOMAIN receipts)
    <2>1. size \in Nat /\ IsFiniteSet(DOMAIN receipts)
      BY FS_CardinalityType DEF ReceiptsOk
    <2>2. ASSUME NEW resource, NEW ticketVersion, Record(req, resource, ticketVersion)
          PROVE  /\ DOMAIN receipts' = DOMAIN receipts \cup {req.key}
                 /\ receipts'[req.key].action = req.action
                 /\ receipts'[req.key].resource = resource
                 /\ \A x \in DOMAIN receipts : receipts'[x] = receipts[x]
                 /\ IsFiniteSet(DOMAIN receipts')
      <3>. DEFINE answer == [action |-> req.action, resource |-> resource,
                             ticketVersion |-> ticketVersion]
                  key == req.key
                  table == Inserted(receipts, key, answer)
      <3>1. answer.action = req.action /\ answer.resource = resource
        OBVIOUS
      <3>2. receipts' = table /\ key \notin DOMAIN receipts
        BY <1>2, <2>2 DEF Record, Recorded
      <3>. HIDE DEF answer, key
      <3>3. /\ DOMAIN table = DOMAIN receipts \cup {key} /\ table[key] = answer
            /\ \A x \in DOMAIN receipts \ {key} : table[x] = receipts[x]
        BY DEF Inserted
      <3>4. IsFiniteSet(DOMAIN receipts \cup {key})
        BY <2>1, FS_AddElement
      <3>. HIDE DEF table
      <3>. QED BY <3>1, <3>2, <3>3, <3>4 DEF key
    <2>3. CASE req.action = "CREATE_TICKET"
      <3>1. tickets' = Append(tickets, Ticket(req.subject)) /\ Record(req, Len(tickets) + 1, 1)
        BY <1>2, <2>3 DEF Effect
      <3>2. /\ TicketsOk' /\ Grows(World, World') /\ Len(tickets) + 1 \in DOMAIN tickets'
            /\ NewlyBooked = {}
        BY <3>1, TicketAdded
      <3>3. ReceiptsOk'
        BY <2>2, <3>1, <3>2 DEF ReceiptsOk, Grows, World
      <3>. QED BY <2>2, <3>1, <3>2, <3>3 DEF ServerInv
    <2>4. CASE req.action # "CREATE_TICKET"
      <3>. DEFINE t == req.ticket
                  new == NewAppointment(req.subject)
                  old == tickets[t]
                  row == [old EXCEPT !.appointment = new, !.version = @ + 1]
      <3>1. /\ tickets' = [tickets EXCEPT ![t].appointment = new, ![t].version = @ + 1]
            /\ Record(req, new.id, req.key.ticketVersion + 1)
        BY <1>2, <2>4 DEF Effect
      <3>2. "id" \in DOMAIN new /\ new.id = size + 1 /\ new.slot = req.subject
        BY DEF NewAppointment, Appointment
      <3>3. t \in DOMAIN tickets /\ Chose(World, t, req.subject)
        BY <2>4 DEF ReqOk, World
      <3>4. tickets' = [tickets EXCEPT ![t] = row]
        BY <3>1, <3>3
      <3>5. "appointment" \in DOMAIN old
        BY <3>3 DEF TicketsOk
      <3>. HIDE DEF new, old, t
      <3>6. "appointment" \in DOMAIN row /\ row.appointment = new
        BY <3>5
      <3>. HIDE DEF row
      <3>7. /\ TicketsOk' /\ World' = World /\ Grows(World, World') /\ tickets'[t] = row
            /\ NewlyBooked \subseteq {t}
        <4>1. row.appointment # None =>
                "id" \in DOMAIN row.appointment /\ row.appointment.id \in Int
          BY <2>1, <3>2, <3>6
        <4>. QED BY <3>3, <3>4, <3>6, <4>1, RowReplaced
      <3>8. ReceiptsOk'
        BY <2>2, <2>4, <3>1, <3>7 DEF ReceiptsOk, World
      <3>9. \A x \in NewlyBooked : Chose(World, x, tickets'[x].appointment.slot)
        BY <3>2, <3>3, <3>6, <3>7
      <3>. QED BY <2>2, <3>1, <3>7, <3>8, <3>9 DEF ServerInv
    <2>. QED BY <2>3, <2>4
  <1>. QED BY <1>1, <1>2 DEF Commit

\* Other actors change tickets and appointments, never which appointment is of which ticket.
LEMMA OthersKeep ==
  ASSUME TicketsOk, ReceiptsOk, UNCHANGED <<chosen, receipts>>,
         \/ tickets' = tickets
         \/ \E issue \in Issues : OtherCreates(issue)
         \/ \E t \in DOMAIN tickets : OtherChanges(t) \/ AppointmentMoves(t)
  PROVE  ServerInv' /\ Grows(World, World') /\ NewlyBooked = {}
  <1>1. ASSUME TicketsOk', Grows(World, World') PROVE ServerInv'
    BY <1>1 DEF ServerInv, ReceiptsOk, Grows, World
  <1>2. CASE tickets' = tickets
    BY <1>1, <1>2 DEF TicketsOk, Grows, World, NewlyBooked
  <1>3. ASSUME NEW issue, OtherCreates(issue)
        PROVE  ServerInv' /\ Grows(World, World') /\ NewlyBooked = {}
    BY <1>1, <1>3, TicketAdded DEF OtherCreates
  <1>4. ASSUME NEW t \in DOMAIN tickets, OtherChanges(t)
        PROVE  ServerInv' /\ Grows(World, World') /\ NewlyBooked = {}
    <2>. DEFINE old == tickets[t]
    <2>1. PICK open \in BOOLEAN, kept \in BOOLEAN :
            tickets' = [tickets EXCEPT ![t] = [old EXCEPT !.open = open, !.version = @ + 1,
                                                          !.appointment = IF kept THEN @ ELSE None]]
      BY <1>4 DEF OtherChanges
    <2>. DEFINE row == [old EXCEPT !.open = open, !.version = @ + 1,
                                   !.appointment = IF kept THEN @ ELSE None]
    <2>2. /\ "appointment" \in DOMAIN old
          /\ old.appointment # None => "id" \in DOMAIN old.appointment /\ old.appointment.id \in Int
      BY DEF TicketsOk
    <2>. HIDE DEF old
    <2>3. "appointment" \in DOMAIN row /\ row.appointment \in {old.appointment, None}
      BY <2>2
    <2>4. tickets' = [tickets EXCEPT ![t] = row]
      BY <2>1
    <2>. HIDE DEF row
    <2>. QED BY <1>1, <2>2, <2>3, <2>4, RowReplaced DEF old
  <1>5. ASSUME NEW t \in DOMAIN tickets, AppointmentMoves(t)
        PROVE  ServerInv' /\ Grows(World, World') /\ NewlyBooked = {}
    <2>. DEFINE old == tickets[t]
                a == old.appointment
    <2>1. /\ "appointment" \in DOMAIN old
          /\ a # None => "id" \in DOMAIN a /\ a.id \in Int
      BY DEF TicketsOk
    <2>2. PICK b : /\ b = [a EXCEPT !.version = @ + 1] \/ b = [a EXCEPT !.past = TRUE]
                   /\ tickets' = [tickets EXCEPT ![t].appointment = b]
      BY <1>5 DEF AppointmentMoves
    <2>3. a # None
      BY <1>5 DEF AppointmentMoves
    <2>. DEFINE row == [old EXCEPT !.appointment = b]
    <2>4. tickets' = [tickets EXCEPT ![t] = row]
      BY <2>2
    <2>. HIDE DEF old
    <2>5. "appointment" \in DOMAIN row /\ row.appointment = b
      BY <2>1
    <2>. HIDE DEF a, row
    <2>6. "id" \in DOMAIN b /\ b.id = a.id
      BY <2>1, <2>2, <2>3
    <2>. QED BY <1>1, <2>1, <2>3, <2>4, <2>5, <2>6, RowReplaced DEF old, a
  <1>. QED BY <1>2, <1>3, <1>4, <1>5

-----------------------------------------------------------------------------
(***************************************************************************)
(* Every step keeps what the thread claims.                                *)
(***************************************************************************)
LEMMA ServerStays ==
  ASSUME BInv, UNCHANGED <<tickets, receipts>>, chosen \subseteq chosen'
  PROVE  ServerInv' /\ Grows(World, World')
  BY DEF BInv, ServerInv, TicketsOk, ReceiptsOk, Grows, World

LEMMA ReaderStays ==
  ASSUME BInv, Grows(World, World'), UNCHANGED <<reader, cases>>
  PROVE  ReaderFit'
  BY StateOkGrows DEF BInv, ThreadInv, ReaderFit, Tracked

LEMMA CheckpointStays ==
  ASSUME BInv, Grows(World, World'), UNCHANGED <<cp, last, cases>>
  PROVE  CheckpointFit'
  BY StateOkGrows DEF BInv, ThreadInv, CheckpointFit, Begun, Tracked

\* What is in flight or decided stays so.
LEMMA RestStays ==
  ASSUME BInv, Grows(World, World'), UNCHANGED cases,
         \A req \in flying' \ flying : ReqOk(req, World'),
         \A x \in DOMAIN receipts : x \in DOMAIN receipts' /\ receipts'[x] = receipts[x]
  PROVE  FlyingOk' /\ DecidedOk'
  BY ReqOkGrows DEF BInv, FlyingOk, DecidedOk

\* Steps that leave the thread alone.
LEMMA ThreadStays ==
  ASSUME BInv, ServerInv', Grows(World, World'), UNCHANGED <<thread, cases, reader>>,
         \A req \in flying' : req \in flying,
         \A x \in DOMAIN receipts : x \in DOMAIN receipts' /\ receipts'[x] = receipts[x]
  PROVE  BInv'
  <1>1. CheckpointFit' /\ ReaderFit'
    BY CheckpointStays, ReaderStays DEF thread
  <1>2. RunFit'
    BY StateOkGrows DEF thread, BInv, ThreadInv, RunFit
  <1>3. FlyingOk' /\ DecidedOk'
    BY RestStays
  <1>. QED BY <1>1, <1>2, <1>3 DEF BInv, ThreadInv

\* The invocation comes to an end before its node has a result.
LEMMA StopKeeps ==
  ASSUME BInv, run' = None, UNCHANGED <<cp, last, cases, reader, tickets, receipts, chosen>>,
         \A req \in flying' \ flying : ReqOk(req, World)
  PROVE  BInv'
  <1>1. ServerInv' /\ Grows(World, World')
    BY ServerStays
  <1>2. CheckpointFit' /\ ReaderFit'
    BY <1>1, CheckpointStays, ReaderStays
  <1>3. \A req \in flying' \ flying : ReqOk(req, World')
    BY <1>1, ReqOkGrows
  <1>4. FlyingOk' /\ DecidedOk'
    BY <1>1, <1>3, RestStays
  <1>. QED BY <1>1, <1>2, <1>4 DEF BInv, ThreadInv, RunFit

LEMMA CompleteFits ==
  ASSUME BInv, run # None, NEW node, node # END, NEW s, Complete(node, s),
         Grows(World, World'), UNCHANGED <<cases, reader>>, s.case = None,
         Loads(s) => StateOk(s, World') /\ After(node, s),
         node \in Prepares => Linked(s)
  PROVE  ThreadInv'
  <1>1. ReaderFit'
    BY ReaderStays
  <1>2. CASE Decides(node) /\ ~Loads(s)
    <2>1. run' = None /\ UNCHANGED <<cp, last>>
      BY <1>2 DEF Complete, Abort
    <2>. QED BY <1>1, <2>1, CheckpointStays DEF ThreadInv, RunFit
  <1>3. CASE ~(Decides(node) /\ ~Loads(s))
    <2>1. /\ cp' = s /\ last' = node /\ next' = Edge(node, s)
          /\ run' = IF Edge(node, s) = END THEN None
                    ELSE Invoke(s, Edge(node, s), FALSE, run.resumed)
      BY <1>3 DEF Complete
    <2>2. CheckpointFit'
      BY <2>1 DEF CheckpointFit, Tracked
    <2>3. Loads(s) => Fit(Edge(node, s), s)
      BY FitNext
    <2>4. Edge(node, s) \in Mutations => Linked(s)
      BY EdgesAsk
    <2>5. run' # None => run'.state = s /\ run'.at = Edge(node, s) /\ Loads(s)
      <3>. DEFINE at == Edge(node, s)
      <3>. HIDE DEF at
      <3>1. run' # None =>
              /\ run' = [state |-> s, at |-> at, sent |-> FALSE, answer |-> FALSE,
                         resumed |-> run.resumed, behind |-> FALSE]
              /\ Loads(s)
        BY <2>1 DEF Invoke, at
      <3>2. run' # None => run'.state = s /\ run'.at = at /\ Loads(s)
        BY <3>1
      <3>. QED BY <3>2 DEF at
    <2>. DEFINE at == Edge(node, s)
    <2>6. /\ Loads(s) => Fit(at, s)
          /\ run' # None => run'.state = s /\ run'.at = at /\ Loads(s)
          /\ at \in Mutations => Linked(s)
      BY <2>3, <2>4, <2>5
    <2>. HIDE DEF at
    <2>7. RunFit'
      BY <2>1, <2>6 DEF RunFit
    <2>. QED BY <1>1, <2>2, <2>7 DEF ThreadInv
  <1>. QED BY <1>2, <1>3

\* A node that calls nothing that changes the property.
LEMMA InsideFits ==
  ASSUME BInv, run # None, NEW node, node # END, NEW s, Complete(node, s),
         Outside, s.case = None,
         Loads(s) => StateOk(s, World) /\ After(node, s),
         node \in Prepares => Linked(s)
  PROVE  BInv'
  <1>1. UNCHANGED <<tickets, receipts, chosen, cases, reader, flying>>
    BY DEF Outside, db, user
  <1>2. ServerInv' /\ Grows(World, World')
    BY <1>1, ServerStays
  <1>3. World' = World
    BY <1>1 DEF World
  <1>4. ThreadInv'
    BY <1>1, <1>2, <1>3, CompleteFits
  <1>5. FlyingOk' /\ DecidedOk'
    BY <1>1, <1>2, RestStays
  <1>. QED BY <1>2, <1>4, <1>5 DEF BInv

LEMMA RunClaims ==
  ASSUME RInv, BInv, run # None
  PROVE  /\ Steady(State) /\ State.case = None /\ Core \subseteq DOMAIN State
         /\ StateOk(State, World) /\ Fit(run.at, State) /\ Ready(run.at, State)
         /\ TicketsOk
         /\ run.sent => State.op # None /\ ReqOk(Sent, World)
  <1>1. /\ Steady(State) /\ StateOk(State, World) /\ Fit(run.at, State)
        /\ run.sent => run.at \in Mutations /\ Asserted(run.at, State)
    BY RunState DEF RInv, RunOk, BInv, ThreadInv, RunFit, State
  <1>2. run.sent => State.op # None /\ ReqOk(Sent, World)
    BY <1>1 DEF Sent, Request, ReqOk, Actions, Asserted, Mutations, StateOk
  <1>. QED BY <1>1, <1>2, RunState DEF BInv, ServerInv, Steady

\* A case is opened for the state then stored, which its operation was made for.
LEMMA OpenFits ==
  ASSUME RInv, BInv, run # None, run.at \in Mutations, NEW op, op = State.op, op # None,
         UnknownCommit(op), UNCHANGED <<tickets, receipts, chosen, reader>>,
         \A req \in flying' \ flying : ReqOk(req, World)
  PROVE  BInv'
  <1>1. CASE ~MayHaveCase(op)
    BY <1>1, StopKeeps DEF UnknownCommit, Abort
  <1>2. CASE MayHaveCase(op)
    <2>. DEFINE s == [cp EXCEPT !.stage = "RECONCILIATION_PENDING", !.case = op]
                row == [status |-> "PENDING", for |-> cp.op]
    <2>1. /\ cases' = IF op \in DOMAIN cases THEN cases ELSE Inserted(cases, op, row)
          /\ Save(s) /\ run' = None /\ cp.op # None /\ Loads(cp) /\ Begun
          /\ op \in DOMAIN cases => cases[op].for = cp.op
      BY <1>2 DEF UnknownCommit, MayHaveCase, RInv, RunOk
    <2>2. row.for = cp.op /\ row.status = "PENDING"
      OBVIOUS
    <2>. HIDE DEF row
    <2>3. /\ DOMAIN cases' = DOMAIN cases \cup {op}
          /\ \A x \in DOMAIN cases : cases'[x] = cases[x]
          /\ cases'[op].for = cp.op
          /\ op \notin DOMAIN cases => cases'[op].status = "PENDING"
      BY <2>1, <2>2 DEF Inserted
    <2>4. ServerInv' /\ Grows(World, World') /\ World' = World
      BY ServerStays DEF World
    <2>5. Steady(cp) /\ StateOk(cp, World) /\ Linked(cp)
      BY <2>1 DEF RInv, CheckpointOk, BInv, ThreadInv, CheckpointFit, RunFit
    <2>6. /\ s.op = cp.op /\ s.cached = cp.cached /\ s.slots = cp.slots /\ s.slot = cp.slot
          /\ s.intent = cp.intent /\ s.ticket = cp.ticket /\ s.duplicates = cp.duplicates
          /\ s.case = op /\ s.stage = "RECONCILIATION_PENDING"
      BY <2>5 DEF Steady, Core
    <2>7. cp' = s /\ last' = last
      BY <2>1 DEF Save
    <2>. HIDE DEF s
    <2>8. StateOk(s, World) /\ Linked(s)
      BY <2>5, <2>6 DEF StateOk, Linked
    <2>9. Grounded(s) /\ Anchored(s)
      BY <2>1, <2>5, <2>6 DEF Linked, Steady, Loads, StateOk, Grounded, Anchored
    <2>10. op = cp.op => IF op.action = "CREATE_TICKET" THEN s.ticket = None ELSE s.cached # None
      BY <2>1, <2>5, <2>6 DEF Linked, Creates
    <2>11. Tracked(s, cases')
      BY <2>3, <2>6, <2>8, <2>9, <2>10 DEF Tracked
    <2>12. CheckpointFit'
      BY <2>4, <2>6, <2>7, <2>8, <2>9, <2>11 DEF CheckpointFit, After
    <2>13. ReaderFit'
      BY <2>3, <2>4 DEF RInv, ReaderOk, Traced, BInv, ThreadInv, ReaderFit, Tracked
    <2>14. FlyingOk'
      BY <2>4 DEF BInv, FlyingOk
    <2>15. DecidedOk'
      BY <2>3 DEF BInv, DecidedOk
    <2>. QED BY <2>1, <2>4, <2>12, <2>13, <2>14, <2>15 DEF BInv, ThreadInv, RunFit
  <1>. QED BY <1>1, <1>2

LEMMA NodeKeepsClaims ==
  ASSUME RInv, BInv, Node
  PROVE  BInv'
  <1>1. ASSUME ResolveProperty PROVE BInv'
    <2>. DEFINE result == CASE State.verified -> State
                            [] ~State.verified /\ permitted -> [State EXCEPT !.verified = TRUE]
                            [] OTHER -> [State EXCEPT !.stage = "HUMAN_REVIEW"]
    <2>1. run # None /\ run.at = "resolve_property" /\ Complete("resolve_property", result) /\ Outside
      BY <1>1 DEF ResolveProperty, At
    <2>2. result \in {State, [State EXCEPT !.verified = TRUE], [State EXCEPT !.stage = "HUMAN_REVIEW"]}
      OBVIOUS
    <2>. HIDE DEF result
    <2>3. StateOk(result, World) /\ Anchored(result) /\ result.case = None
      BY <2>1, <2>2, RunClaims DEF Fit, Core, StateOk, Anchored
    <2>. QED BY <2>1, <2>3, InsideFits DEF After, Rounds, Mutations, Prepares, END
  <1>2. ASSUME Interpret PROVE BInv'
    <2>1. PICK u \in Utterances :
            run # None /\ run.at = "interpret" /\ Complete("interpret", Merge(State, u)) /\ Outside
      BY <1>2 DEF Interpret, At
    <2>2. /\ StateOk(Merge(State, u), World) /\ Anchored(Merge(State, u))
          /\ Merge(State, u).case = None
      BY <2>1, RunClaims, MergeClaims, MergeFields DEF Fit
    <2>. QED BY <2>1, <2>2, InsideFits DEF After, Rounds, Mutations, Prepares, END
  <1>3. ASSUME RetrievePolicy PROVE BInv'
    <2>1. PICK b \in BOOLEAN :
            /\ run # None /\ run.at = "retrieve_policy" /\ Outside
            /\ Complete("retrieve_policy", [State EXCEPT !.sufficient = b, !.stage = "OPEN"])
      BY <1>3 DEF RetrievePolicy, At
    <2>. DEFINE result == [State EXCEPT !.sufficient = b, !.stage = "OPEN"]
    <2>2. /\ StateOk(result, World) /\ Anchored(result) /\ Grounded(result) /\ result.case = None
      BY <2>1, RunClaims DEF Fit, Core, StateOk, Anchored, Grounded
    <2>3. Complete("retrieve_policy", result)
      BY <2>1
    <2>. HIDE DEF result
    <2>. QED BY <2>1, <2>2, <2>3, InsideFits DEF After, Rounds, Mutations, Prepares, END
  <1>4. ASSUME FindDuplicates PROVE BInv'
    <2>. DEFINE result == WithDuplicates(State)
    <2>1. run # None /\ run.at = "find_duplicates" /\ Complete("find_duplicates", result) /\ Outside
      BY <1>4 DEF FindDuplicates, At
    <2>2. /\ Grounded(State) /\ Anchored(State)
          /\ result.case = None /\ result.intent = State.intent
      BY <2>1, RunClaims, WithDuplicatesFields DEF Fit
    <2>3. ASSUME Loads(result)
          PROVE  StateOk(result, World) /\ Anchored(result) /\ Grounded(result)
      BY <2>1, <2>2, <2>3, RunClaims, WithDuplicatesClaims DEF Grounded
    <2>. HIDE DEF result
    <2>. QED BY <2>1, <2>2, <2>3, InsideFits DEF After, Rounds, Mutations, Prepares, END
  <1>5. ASSUME ResolveExisting PROVE BInv'
    <2>. DEFINE result == CASE State.ticket # None -> State
                            [] State.ticket = None /\ State.issue # None -> WithDuplicates(State)
                            [] OTHER -> [State EXCEPT !.stage = "HUMAN_REVIEW"]
    <2>1. run # None /\ run.at = "resolve_existing" /\ Complete("resolve_existing", result) /\ Outside
      BY <1>5 DEF ResolveExisting, At
    <2>2. \/ result = State
          \/ result = [State EXCEPT !.stage = "HUMAN_REVIEW"]
          \/ State.ticket = None /\ result = WithDuplicates(State)
      OBVIOUS
    <2>. HIDE DEF result
    <2>3. State.ticket = None => State.cached = None
      BY <2>1, RunClaims DEF Steady
    <2>4. StateOk(result, World) /\ Anchored(result) /\ result.case = None
      <3>1. CASE State.ticket = None /\ result = WithDuplicates(State)
        BY <2>1, <2>3, <3>1, RunClaims, WithDuplicatesClaims, WithDuplicatesFields DEF Fit
      <3>2. CASE result = State \/ result = [State EXCEPT !.stage = "HUMAN_REVIEW"]
        BY <2>1, <3>2, RunClaims DEF Fit, Core, StateOk, Anchored
      <3>. QED BY <2>2, <3>1, <3>2
    <2>. QED BY <2>1, <2>4, InsideFits DEF After, Rounds, Mutations, Prepares, END
  <1>6. ASSUME RefreshSnapshot PROVE BInv'
    <2>. DEFINE result == Refresh(State)
    <2>1. run # None /\ run.at = "refresh_snapshot" /\ Complete("refresh_snapshot", result) /\ Outside
      BY <1>6 DEF RefreshSnapshot, At
    <2>2. StateOk(result, World) /\ Anchored(result) /\ Grounded(result) /\ result.case = None
      BY <2>1, RunClaims, RefreshClaims, RefreshFields DEF Fit
    <2>. HIDE DEF result
    <2>. QED BY <2>1, <2>2, InsideFits DEF After, Rounds, Mutations, Prepares, END
  <1>7. ASSUME ListSlots PROVE BInv'
    <2>1. PICK slots :
            /\ run # None /\ run.at = "list_slots" /\ Outside
            /\ Complete("list_slots", [State EXCEPT !.slots = slots, !.stage = "OPEN"])
      BY <1>7 DEF ListSlots, At
    <2>. DEFINE result == [State EXCEPT !.slots = slots, !.stage = "OPEN"]
    <2>2. /\ StateOk(result, World) /\ Anchored(result) /\ result.stage = "OPEN"
          /\ result.case = None
      BY <2>1, RunClaims DEF Fit, Core, StateOk, Anchored
    <2>3. Complete("list_slots", result)
      BY <2>1
    <2>. HIDE DEF result
    <2>. QED BY <2>1, <2>2, <2>3, InsideFits DEF After, Rounds, Mutations, Prepares, END
  <1>8. ASSUME Interrupt PROVE BInv'
    BY <1>8, StopKeeps DEF Interrupt, db
  <1>9. ASSUME Conflict \/ AssertionFails \/ RefusalArrives PROVE BInv'
    BY <1>9, StopKeeps
       DEF Conflict, AssertionFails, RefusalArrives, Abort, Outside, db, user
  <1>10. ASSUME ProvideInformation PROVE BInv'
    <2>1. PICK node \in {"need_information", "need_availability_information"} :
            /\ run # None /\ run.at = node /\ Outside
            /\ Complete(node, [State EXCEPT !.stage = "OPEN"])
      BY <1>10 DEF ProvideInformation, Answered, At
    <2>. DEFINE result == [State EXCEPT !.stage = "OPEN"]
    <2>2. /\ StateOk(result, World) /\ Anchored(result) /\ result.case = None
      BY <2>1, RunClaims DEF Fit, Core, StateOk, Anchored
    <2>3. Complete(node, result)
      BY <2>1
    <2>. HIDE DEF result
    <2>. QED BY <2>1, <2>2, <2>3, InsideFits DEF After, Rounds, Mutations, Prepares, END
  <1>11. ASSUME SelectDuplicate PROVE BInv'
    <2>1. PICK d \in State.duplicates :
            /\ run # None /\ run.at = "select_duplicate" /\ Outside
            /\ Complete("select_duplicate", [State EXCEPT !.ticket = d.ticket, !.stage = "OPEN",
                                                          !.ticketVersion = d.version])
      BY <1>11 DEF SelectDuplicate, Answered, At
    <2>. DEFINE result == [State EXCEPT !.ticket = d.ticket, !.stage = "OPEN",
                                        !.ticketVersion = d.version]
    <2>2. State.ticket = None /\ State.cached = None
      BY <2>1, RunClaims DEF Ready, Steady
    <2>3. State.slots = {} /\ State.slot = None
      BY <2>1, <2>2, RunClaims DEF Steady, Loads, StateOk
    <2>4. d.ticket \in DOMAIN tickets /\ d.ticket # None
      BY <2>1, RunClaims, NoneAssumption DEF StateOk, World, TicketsOk
    <2>5. /\ StateOk(result, World) /\ Anchored(result) /\ Grounded(result) /\ result.case = None
      BY <2>1, <2>3, <2>4, RunClaims DEF Core, StateOk, Anchored, Grounded, World
    <2>6. Complete("select_duplicate", result)
      BY <2>1
    <2>. HIDE DEF result
    <2>. QED BY <2>1, <2>5, <2>6, InsideFits DEF After, Rounds, Mutations, Prepares, END
  <1>12. ASSUME SelectSlot PROVE BInv'
    <2>1. PICK k : \E screen \in screens :
            /\ run # None /\ run.at = "select_slot" /\ Matches(State, screen)
            /\ Complete("select_slot", [State EXCEPT !.slot = Rank(State.slots, k)])
            /\ chosen' = chosen \cup {[ticket |-> State.ticket, version |-> State.ticketVersion,
                                       slot |-> Rank(screen.slots, k)]}
            /\ UNCHANGED <<db, reader>>
      BY <1>12 DEF SelectSlot, Answered, At
    <2>. DEFINE slot == Rank(State.slots, k)
                result == [State EXCEPT !.slot = slot]
                c == [ticket |-> State.ticket, version |-> State.ticketVersion, slot |-> slot]
    <2>2. /\ run # None /\ run.at = "select_slot" /\ Complete("select_slot", result)
          /\ chosen' = chosen \cup {c} /\ UNCHANGED <<db, reader>>
      BY <2>1 DEF Matches
    <2>3. c.ticket = State.ticket /\ c.slot = slot
      OBVIOUS
    <2>. HIDE DEF slot, c
    <2>4. /\ ServerInv' /\ Grows(World, World') /\ Chose(World', State.ticket, slot)
      BY <2>2, <2>3, ServerStays DEF db, Chose, World
    <2>5. StateOk(State, World') /\ State.ticket # None /\ (State.stage = "DONE" => State.cached # None)
      BY <2>2, <2>4, RunClaims, StateOkGrows DEF Fit
    <2>6. /\ result.cached = State.cached /\ result.slots = State.slots /\ result.slot = slot
          /\ result.ticket = State.ticket /\ result.duplicates = State.duplicates
          /\ result.stage = State.stage /\ result.case = None
      BY <2>2, RunClaims DEF Core
    <2>. HIDE DEF result
    <2>7. StateOk(result, World') /\ After("select_slot", result)
      BY <2>4, <2>5, <2>6 DEF StateOk, After, Grounded, Anchored
    <2>8. ThreadInv'
      BY <2>2, <2>4, <2>6, <2>7, CompleteFits DEF db, Prepares, END
    <2>9. FlyingOk' /\ DecidedOk'
      BY <2>2, <2>4, RestStays DEF db
    <2>. QED BY <2>4, <2>8, <2>9 DEF BInv
  <1>13. ASSUME CancelSlot PROVE BInv'
    <2>. DEFINE none == NoSlots(State)
                result == [none EXCEPT !.intent = "UNKNOWN", !.stage = "DONE", !.windows = FALSE,
                                       !.missing = FALSE, !.result = None, !.op = None]
    <2>1. run # None /\ run.at = "select_slot" /\ Complete("select_slot", result) /\ Outside
      BY <1>13 DEF CancelSlot, Answered, At
    <2>2. /\ DOMAIN none = DOMAIN State /\ none.case = None
          /\ none.ticket = State.ticket /\ none.cached = State.cached /\ none.slot = None
          /\ none.slots = {} /\ none.duplicates = State.duplicates
      BY <2>1, RunClaims, NoSlotsFields DEF Steady
    <2>. HIDE DEF none
    <2>3. /\ result.cached = State.cached /\ result.slots = {} /\ result.slot = None
          /\ result.ticket = State.ticket /\ result.duplicates = State.duplicates
          /\ result.stage = "DONE" /\ result.case = None
      BY <2>1, <2>2, RunClaims DEF Core
    <2>. HIDE DEF result
    <2>4. StateOk(result, World) /\ After("select_slot", result)
      BY <2>1, <2>3, RunClaims DEF Fit, StateOk, After, Grounded, Anchored
    <2>. QED BY <2>1, <2>3, <2>4, InsideFits DEF Prepares, END
  <1>14. ASSUME PrepareCreate PROVE BInv'
    <2>. DEFINE op == Operation(State, "CREATE_TICKET", State.issue, None, None, None)
                result == [State EXCEPT !.stage = "OPEN", !.op = op]
    <2>1. run # None /\ run.at = "prepare_create" /\ Complete("prepare_create", result) /\ Outside
      BY <1>14 DEF PrepareCreate, At
    <2>2. op.action = "CREATE_TICKET"
      BY DEF Operation
    <2>. HIDE DEF op
    <2>3. /\ StateOk(result, World) /\ Anchored(result) /\ Linked(result)
          /\ result.case = None
      BY <2>1, <2>2, RunClaims
         DEF Fit, Ready, Core, StateOk, Creates, Anchored, Linked
    <2>. HIDE DEF result
    <2>. QED BY <2>1, <2>3, InsideFits DEF After, Rounds, Mutations, END
  <1>15. ASSUME PrepareBook PROVE BInv'
    <2>. DEFINE op == Operation(State, "BOOK_APPOINTMENT", State.slot, State.ticket,
                                State.ticketVersion, None)
                result == [State EXCEPT !.stage = "OPEN", !.op = op]
    <2>1. run # None /\ run.at = "prepare_book" /\ Complete("prepare_book", result) /\ Outside
      BY <1>15 DEF PrepareBook, At
    <2>2. op.action = "BOOK_APPOINTMENT"
      BY DEF Operation
    <2>. HIDE DEF op
    <2>3. State.slot # None /\ State.cached # None
      BY <2>1, RunClaims DEF Fit, Anchored
    <2>4. /\ StateOk(result, World) /\ Anchored(result) /\ Linked(result)
          /\ result.case = None
      BY <2>1, <2>2, <2>3, RunClaims DEF Core, StateOk, Creates, Anchored, Linked
    <2>. HIDE DEF result
    <2>. QED BY <2>1, <2>4, InsideFits DEF After, Rounds, Mutations, END
  <1>16. ASSUME PrepareReschedule PROVE BInv'
    <2>. DEFINE op == Operation(State, "RESCHEDULE_APPOINTMENT", State.slot, State.appointment,
                                State.ticketVersion, State.appointmentVersion)
                result == [State EXCEPT !.stage = "OPEN", !.op = op]
    <2>1. /\ run # None /\ run.at = "prepare_reschedule" /\ Outside
          /\ Complete("prepare_reschedule", result)
      BY <1>16 DEF PrepareReschedule, At
    <2>2. op.action = "RESCHEDULE_APPOINTMENT"
      BY DEF Operation
    <2>. HIDE DEF op
    <2>3. State.slot # None /\ State.cached # None
      BY <2>1, RunClaims DEF Fit, Anchored
    <2>4. /\ StateOk(result, World) /\ Anchored(result) /\ Linked(result)
          /\ result.case = None
      BY <2>1, <2>2, <2>3, RunClaims DEF Core, StateOk, Creates, Anchored, Linked
    <2>. HIDE DEF result
    <2>. QED BY <2>1, <2>4, InsideFits DEF After, Rounds, Mutations, END
  <1>17. ASSUME Dispatch PROVE BInv'
    <2>1. /\ run # None /\ run' = [run EXCEPT !.sent = TRUE]
          /\ UNCHANGED <<cp, last, tickets, receipts, chosen, cases, reader, flying>>
      BY <1>17 DEF Dispatch, Mutating, Outside, db, user
    <2>2. run'.state = run.state /\ run'.at = run.at
      BY <2>1 DEF RInv, RunOk, RunFields
    <2>3. ServerInv' /\ Grows(World, World') /\ World' = World
      BY <2>1, ServerStays DEF World
    <2>4. CheckpointFit' /\ ReaderFit'
      BY <2>1, <2>3, CheckpointStays, ReaderStays
    <2>5. RunFit'
      BY <2>1, <2>2, <2>3 DEF BInv, ThreadInv, RunFit
    <2>6. FlyingOk' /\ DecidedOk'
      BY <2>1, <2>3, RestStays
    <2>. QED BY <2>3, <2>4, <2>5, <2>6 DEF BInv, ThreadInv
  <1>18. ASSUME AnswerArrives PROVE BInv'
    <2>. DEFINE answer == receipts'[State.op]
                result == Success(run.at, State, answer)
    <2>1. /\ run # None /\ run.at \in Mutations /\ run.sent /\ Commit(Sent)
          /\ Complete(run.at, result) /\ UNCHANGED <<chosen, cases, reader, flying>>
      BY <1>18 DEF AnswerArrives, Mutating, user
    <2>2. /\ State.op # None /\ ReqOk(Sent, World) /\ Linked(State) /\ Anchored(State)
          /\ Steady(State) /\ State.case = None /\ StateOk(State, World)
      BY <2>1, RunClaims DEF Fit, Mutations
    <2>3. /\ ServerInv' /\ Grows(World, World')
          /\ Sent.key \in DOMAIN receipts' /\ receipts'[Sent.key].action = Sent.action
          /\ \A x \in DOMAIN receipts : x \in DOMAIN receipts' /\ receipts'[x] = receipts[x]
      BY <2>1, <2>2, CommitKeeps DEF BInv, ServerInv
    <2>4. run.at = "create_ticket" => answer.resource \in World'.tickets
      <3>1. Sent.key = State.op /\ (run.at = "create_ticket" => Sent.action = "CREATE_TICKET")
        BY <2>1 DEF Sent, Request, Mutations
      <3>. QED BY <2>3, <3>1 DEF ServerInv, ReceiptsOk, World
    <2>. HIDE DEF answer
    <2>5. StateOk(State, World') /\ TicketsOk'
      BY <2>2, <2>3, StateOkGrows DEF ServerInv
    <2>6. Loads(result) => StateOk(result, World') /\ Anchored(result) /\ Grounded(result)
      BY <2>2, <2>4, <2>5, SuccessClaims
    <2>7. result.case = None
      BY <2>2, SuccessFields
    <2>. HIDE DEF result
    <2>8. /\ Loads(result) => StateOk(result, World') /\ After(run.at, result)
          /\ run.at \notin Prepares /\ run.at # END
      BY <2>1, <2>6 DEF After, Mutations, Prepares, END
    <2>9. ThreadInv'
      BY <2>1, <2>3, <2>7, <2>8, CompleteFits
    <2>10. FlyingOk' /\ DecidedOk'
      BY <2>1, <2>3, RestStays
    <2>. QED BY <2>3, <2>9, <2>10 DEF BInv
  <1>19. ASSUME ConflictArrives PROVE BInv'
    <2>. DEFINE none == NoSlots(State)
                result == [none EXCEPT !.op = None]
    <2>1. /\ run # None /\ run.at \in Mutations /\ run.sent /\ Complete(run.at, result) /\ Outside
      BY <1>19 DEF ConflictArrives, Mutating
    <2>2. /\ DOMAIN none = DOMAIN State /\ none.case = None
          /\ none.ticket = State.ticket /\ none.cached = State.cached /\ none.slot = None
          /\ none.slots = {} /\ none.duplicates = State.duplicates /\ none.intent = State.intent
      BY <2>1, RunClaims, NoSlotsFields DEF Steady
    <2>. HIDE DEF none
    <2>3. /\ result.cached = State.cached /\ result.slots = {} /\ result.slot = None
          /\ result.ticket = State.ticket /\ result.duplicates = State.duplicates
          /\ result.intent = State.intent /\ result.case = None
      BY <2>1, <2>2, RunClaims DEF Core
    <2>. HIDE DEF result
    <2>4. State.op # None /\ Linked(State)
      BY <2>1, RunClaims DEF Fit
    <2>5. Grounded(State)
      BY <2>1, <2>4, RunClaims DEF Linked, Grounded, Steady
    <2>6. StateOk(result, World) /\ After(run.at, result)
      BY <2>1, <2>3, <2>5, RunClaims DEF StateOk, After, Grounded, Anchored, Mutations
    <2>7. run.at \notin Prepares /\ run.at # END
      BY <2>1 DEF Mutations, Prepares, END
    <2>. QED BY <2>1, <2>3, <2>6, <2>7, InsideFits
  <1>20. ASSUME Finish PROVE BInv'
    <2>. DEFINE closed(stage) == [State EXCEPT !.stage = stage]
                dropped(stage) == [State EXCEPT !.stage = stage, !.op = None]
                finishes == {"compose", "finish_safety", "finish_policy_review",
                             "finish_unsupported", "finish_manual_request",
                             "finish_overdue_appointment"}
    <2>1. PICK node, stage :
            /\ node \in finishes /\ run # None /\ run.at = node
            /\ (Complete(node, closed(stage)) \/ Complete(node, dropped(stage)))
      BY <1>20 DEF Finish, At
    <2>2. Outside
      BY <1>20 DEF Finish
    <2>3. /\ StateOk(closed(stage), World) /\ Anchored(closed(stage)) /\ closed(stage).case = None
          /\ StateOk(dropped(stage), World) /\ Anchored(dropped(stage))
          /\ dropped(stage).case = None
      BY <2>1, RunClaims DEF Fit, Core, StateOk, Anchored
    <2>. HIDE DEF closed, dropped
    <2>4. /\ After(node, closed(stage)) /\ After(node, dropped(stage)) /\ node \notin Prepares
          /\ node # END
      BY <2>1, <2>3 DEF After, Rounds, Mutations, Prepares, END
    <2>. QED BY <2>1, <2>2, <2>3, <2>4, InsideFits
  <1>21. ASSUME ClashArrives PROVE BInv'
    <2>1. /\ run # None /\ run.at \in Mutations /\ run.sent /\ UnknownCommit(State.op)
          /\ UNCHANGED <<tickets, receipts, chosen, reader, flying>>
      BY <1>21 DEF ClashArrives, Mutating, user
    <2>2. State.op # None
      BY <2>1, RunClaims
    <2>. QED BY <2>1, <2>2, OpenFits
  <1>. QED BY <1>1, <1>2, <1>3, <1>4, <1>5, <1>6, <1>7, <1>8, <1>9, <1>10, <1>11, <1>12,
              <1>13, <1>14, <1>15, <1>16, <1>17, <1>18, <1>19, <1>20, <1>21 DEF Node

LEMMA TroubleKeepsClaims ==
  ASSUME RInv, BInv, Trouble
  PROVE  BInv'
  <1>1. ASSUME AnswerLost PROVE BInv'
    <2>1. /\ run # None /\ run.at \in Mutations /\ run.sent /\ UnknownCommit(State.op)
          /\ flying' = flying \cup {Sent} /\ UNCHANGED <<tickets, receipts, chosen, reader>>
      BY <1>1 DEF AnswerLost, Mutating, user
    <2>2. State.op # None /\ \A req \in flying' \ flying : ReqOk(req, World)
      BY <2>1, RunClaims
    <2>. QED BY <2>1, <2>2, OpenFits
  <1>2. ASSUME Fails PROVE BInv'
    <2>1. /\ run # None /\ Abort
          /\ flying' = IF run.sent THEN flying \cup {Sent} ELSE flying
          /\ UNCHANGED <<tickets, receipts, chosen, cases, reader>>
      BY <1>2 DEF Fails, user
    <2>2. \A req \in flying' \ flying : ReqOk(req, World)
      BY <2>1, RunClaims
    <2>. QED BY <2>1, <2>2, StopKeeps DEF Abort
  <1>3. ASSUME LanguageFails PROVE BInv'
    <2>. DEFINE s == [cp EXCEPT !.stage = "HUMAN_REVIEW", !.op = None]
    <2>1. /\ run # None /\ Begun /\ Loads(cp) /\ Save(s) /\ run' = None
          /\ UNCHANGED <<tickets, receipts, chosen, cases, reader, flying>>
      BY <1>3 DEF LanguageFails, RInv, RunOk, db, user
    <2>2. /\ Steady(cp) /\ StateOk(cp, World) /\ Tracked(cp, cases)
          /\ cp.verified => After(last, cp)
      BY <2>1 DEF RInv, CheckpointOk, BInv, ThreadInv, CheckpointFit
    <2>3. /\ s.op = None /\ s.cached = cp.cached /\ s.slots = cp.slots /\ s.slot = cp.slot
          /\ s.intent = cp.intent /\ s.ticket = cp.ticket
          /\ s.duplicates = cp.duplicates /\ s.case = cp.case /\ s.stage = "HUMAN_REVIEW"
          /\ s.verified = cp.verified
      BY <2>2 DEF Steady, Core
    <2>4. cp' = s /\ last' = last
      BY <2>1 DEF Save
    <2>. HIDE DEF s
    <2>5. ServerInv' /\ Grows(World, World') /\ World' = World
      BY <2>1, ServerStays DEF World
    <2>6. StateOk(s, World) /\ Tracked(s, cases) /\ Linked(s)
      BY <2>2, <2>3 DEF StateOk, Tracked, Linked, Grounded, Anchored
    <2>7. s.verified => After(last, s)
      BY <2>2, <2>3 DEF After, Grounded, Anchored
    <2>8. CheckpointFit'
      BY <2>1, <2>4, <2>5, <2>6, <2>7 DEF CheckpointFit
    <2>9. ReaderFit'
      BY <2>1, <2>5, ReaderStays
    <2>10. FlyingOk' /\ DecidedOk'
      BY <2>1, <2>5, RestStays
    <2>. QED BY <2>1, <2>5, <2>8, <2>9, <2>10 DEF BInv, ThreadInv, RunFit
  <1>. QED BY <1>1, <1>2, <1>3 DEF Trouble

\* A state is stored, and what was read is dropped or stays as it was.
LEMMA StoreFits ==
  ASSUME BInv, NEW s, cp' = s, UNCHANGED <<tickets, receipts, chosen, cases, flying>>,
         reader' = None \/ reader' = reader,
         StateOk(s, World), Tracked(s, cases), s.verified => After(last', s),
         last' \in Prepares => Linked(s)
  PROVE  /\ CheckpointFit' /\ ReaderFit' /\ ServerInv' /\ FlyingOk' /\ DecidedOk'
         /\ World' = World
  <1>1. ServerInv' /\ Grows(World, World') /\ World' = World
    BY ServerStays DEF World
  <1>2. CheckpointFit'
    BY <1>1 DEF CheckpointFit
  <1>3. ReaderFit'
    BY <1>1 DEF BInv, ThreadInv, ReaderFit
  <1>4. FlyingOk' /\ DecidedOk'
    BY <1>1, RestStays
  <1>. QED BY <1>1, <1>2, <1>3, <1>4

\* What the state of a verified checkpoint claims once its case is looked up.
LEMMA RefreshedClaims ==
  ASSUME RInv, BInv, Begun, Loads(cp)
  PROVE  LET r == Reconciled(cp)
         IN /\ StateOk(r, World) /\ Tracked(r, cases)
            /\ cp.verified => After(last, r)
            /\ last \in Prepares => Linked(r)
  <1>. DEFINE r == Reconciled(cp)
  <1>1. /\ Steady(cp) /\ Traced(cp, cases) /\ CasesOk
        /\ StateOk(cp, World) /\ Tracked(cp, cases)
        /\ cp.verified => After(last, cp)
        /\ last \in Prepares => Linked(cp)
    BY DEF RInv, CheckpointOk, BInv, ThreadInv, CheckpointFit
  <1>2. /\ StateOk(r, World) /\ Tracked(r, cases)
        /\ cp.case # None => /\ Linked(r) /\ Grounded(r) /\ Anchored(r)
                             /\ r.stage = "DONE" => r.cached # None
    BY <1>1, ReconciledClaims DEF BInv, ServerInv
  <1>3. cp.case = None => r = cp
    BY <1>1, ReconciledFields
  <1>. HIDE DEF r
  <1>4. /\ cp.verified => After(last, r)
        /\ last \in Prepares => Linked(r)
    BY <1>1, <1>2, <1>3 DEF After
  <1>. QED BY <1>2, <1>4 DEF r

\* An invocation of what is stored begins.
LEMMA BeginFits ==
  ASSUME NEW s, s = cp', NEW at, NEW answer, NEW resumed,
         run' = None \/ run' = Invoke(s, at, answer, resumed),
         StateOk(s, World'), Fit(at, s)
  PROVE  RunFit'
  <1>1. run' # None => run'.state = s /\ run'.at = at
    <2>. DEFINE begun == Invoke(s, at, answer, resumed)
    <2>1. begun # None => begun.state = s /\ begun.at = at
      BY DEF Invoke
    <2>. HIDE DEF begun
    <2>2. run' \in {None, begun}
      BY DEF begun
    <2>. QED BY <2>1, <2>2
  <1>. QED BY <1>1 DEF RunFit, Fit

LEMMA OrchestratorKeepsClaims ==
  ASSUME RInv, RInv', BInv, Orchestrator
  PROVE  BInv'
  <1>. USE DEF db, user
  <1>1. ASSUME StartThread PROVE BInv'
    <2>. DEFINE s == NewThread
    <2>1. /\ cp' = s /\ last' = "__start__"
          /\ run' = Invoke(s, "resolve_property", FALSE, FALSE)
          /\ UNCHANGED <<tickets, receipts, chosen, cases, flying, reader>>
      BY <1>1 DEF StartThread
    <2>2. /\ s.op = None /\ s.ticket = None /\ s.slots = {} /\ s.slot = None
          /\ s.duplicates = {} /\ s.case = None /\ s.verified = FALSE
      BY DEF NewThread
    <2>. HIDE DEF s
    <2>3. StateOk(s, World) /\ Tracked(s, cases) /\ Anchored(s)
      BY <2>2 DEF StateOk, Tracked, Anchored
    <2>4. /\ CheckpointFit' /\ ReaderFit' /\ ServerInv' /\ FlyingOk' /\ DecidedOk'
          /\ World' = World
      BY <2>1, <2>2, <2>3, StoreFits DEF Prepares
    <2>5. Fit("resolve_property", s)
      BY <2>3 DEF Fit, Mutations
    <2>6. RunFit'
      BY <2>1, <2>3, <2>4, <2>5, BeginFits
    <2>. QED BY <2>4, <2>6 DEF BInv, ThreadInv
  <1>2. ASSUME TurnRevoked PROVE BInv'
    <2>. DEFINE s == Invalidated(cp)
    <2>1. /\ Begun /\ Loads(cp) /\ Save(s) /\ run' = None
          /\ UNCHANGED <<tickets, receipts, chosen, cases, flying, reader>>
      BY <1>2 DEF TurnRevoked, Turn, Owned
    <2>2. Steady(cp) /\ StateOk(cp, World) /\ Tracked(cp, cases)
      BY <2>1 DEF RInv, CheckpointOk, BInv, ThreadInv, CheckpointFit
    <2>3. /\ StateOk(s, World) /\ Tracked(s, cases) /\ Linked(s)
          /\ s.verified = FALSE
      BY <2>2, InvalidatedClaims, InvalidatedFields
    <2>. HIDE DEF s
    <2>4. /\ CheckpointFit' /\ ReaderFit' /\ ServerInv' /\ FlyingOk' /\ DecidedOk'
      BY <2>1, <2>3, StoreFits DEF Save
    <2>. QED BY <2>1, <2>4 DEF BInv, ThreadInv, RunFit
  <1>3. ASSUME Begun, Loads(cp), cp' = Reconciled(cp), last' = last, cp.verified,
               UNCHANGED <<tickets, receipts, chosen, cases, flying, reader>>
        PROVE  /\ CheckpointFit' /\ ReaderFit' /\ ServerInv' /\ FlyingOk' /\ DecidedOk'
               /\ World' = World
    BY <1>3, RefreshedClaims, StoreFits
  <1>4. ASSUME TurnBlocked PROVE BInv'
    <2>1. /\ run' = None /\ Begun /\ Loads(cp) /\ Refreshing /\ cp.verified
          /\ UNCHANGED <<tickets, receipts, chosen, cases, flying, reader>>
      BY <1>4 DEF TurnBlocked, Turn, Owned
    <2>2. cp' = Reconciled(cp) /\ last' = last
      BY <2>1 DEF Refreshing, Save
    <2>. QED BY <1>3, <2>1, <2>2 DEF BInv, ThreadInv, RunFit
  <1>5. ASSUME StartTurnAgain \/ Resume PROVE BInv'
    <2>1. /\ Begun /\ Loads(cp) /\ Refreshing /\ cp.verified
          /\ UNCHANGED <<tickets, receipts, chosen, cases, flying, reader>>
      BY <1>5 DEF StartTurnAgain, Resume, Unblocked, Turn, Owned
    <2>2. PICK answer, resumed : run' = None \/ run' = Invoke(cp', next', answer, resumed)
      BY <1>5 DEF StartTurnAgain, Resume
    <2>. DEFINE s == Reconciled(cp)
    <2>3. cp' = s /\ last' = last
      BY <2>1 DEF Refreshing, Save
    <2>4. /\ CheckpointFit' /\ ReaderFit' /\ ServerInv' /\ FlyingOk' /\ DecidedOk'
          /\ World' = World
      BY <1>3, <2>1, <2>3
    <2>5. /\ StateOk(s, World) /\ After(last, s) /\ (last \in Prepares => Linked(s))
      BY <2>1, RefreshedClaims
    <2>. HIDE DEF s
    <2>6. Begun'
      BY <2>1, <2>3 DEF Begun
    <2>7. next' = Edge(last, s)
      BY <2>3, <2>6 DEF RInv, CheckpointOk
    <2>8. Fit(next', s)
      BY <2>4, <2>5, <2>7, FitNext
    <2>9. RunFit'
      BY <2>2, <2>3, <2>4, <2>5, <2>8, BeginFits
    <2>. QED BY <2>4, <2>9 DEF BInv, ThreadInv
  <1>6. ASSUME StartTurnAfresh PROVE BInv'
    <2>. DEFINE s == Reconciled(cp)
    <2>1. /\ Begun /\ Loads(cp) /\ cp.verified
          /\ UNCHANGED <<tickets, receipts, chosen, cases, flying, reader>>
          /\ cp' = s /\ last' = "__start__"
          /\ run' = Invoke(cp', "resolve_property", FALSE, FALSE)
          /\ (IF s # cp THEN Edge(last, s) ELSE next) = END
      BY <1>6 DEF StartTurnAfresh, Unblocked, Turn, Owned
    <2>2. StateOk(s, World) /\ Tracked(s, cases) /\ After(last, s)
      BY <2>1, RefreshedClaims
    <2>3. next = Edge(last, cp)
      BY <2>1 DEF RInv, CheckpointOk
    <2>. HIDE DEF s
    <2>4. Edge(last, s) = END
      BY <2>1, <2>3
    <2>5. Anchored(s)
      <3>1. last = "select_slot" => s.stage = "DONE"
        BY <2>4, EdgesFrom DEF END
      <3>. QED BY <2>2, <3>1 DEF After
    <2>6. After("__start__", s)
      BY <2>5 DEF After, Rounds, Mutations
    <2>7. /\ CheckpointFit' /\ ReaderFit' /\ ServerInv' /\ FlyingOk' /\ DecidedOk'
          /\ World' = World
      BY <2>1, <2>2, <2>6, StoreFits DEF Prepares
    <2>8. Fit("resolve_property", s)
      BY <2>5 DEF Fit, Mutations
    <2>9. RunFit'
      BY <2>1, <2>2, <2>7, <2>8, BeginFits
    <2>. QED BY <2>7, <2>9 DEF BInv, ThreadInv
  <1>7. ASSUME ReadState PROVE BInv'
    <2>1. /\ Begun /\ Loads(cp) /\ reader' = cp
          /\ UNCHANGED <<cp, last, run, tickets, receipts, chosen, cases, flying>>
      BY <1>7 DEF ReadState, Owned, thread
    <2>2. ServerInv' /\ Grows(World, World') /\ World' = World
      BY <2>1, ServerStays DEF World
    <2>3. ReaderFit'
      BY <2>1, <2>2 DEF BInv, ThreadInv, CheckpointFit, ReaderFit
    <2>4. CheckpointFit' /\ FlyingOk' /\ DecidedOk'
      BY <2>1, <2>2, CheckpointStays, RestStays
    <2>5. RunFit'
      BY <2>1, <2>2 DEF BInv, ThreadInv, RunFit
    <2>. QED BY <2>2, <2>3, <2>4, <2>5 DEF BInv, ThreadInv
  <1>8. ASSUME StoreState PROVE BInv'
    <2>1. /\ reader # None /\ reader' = None /\ Begun
          /\ UNCHANGED <<tickets, receipts, chosen, cases, flying>>
          /\ Steady(reader) /\ Traced(reader, cases) /\ CasesOk
          /\ StateOk(reader, World) /\ Tracked(reader, cases)
      BY <1>8 DEF StoreState, RInv, ReaderOk, BInv, ThreadInv, ReaderFit
    <2>2. CASE UNCHANGED <<thread, overtaken>>
      <3>1. UNCHANGED <<cp, last, run>>
        BY <2>2 DEF thread
      <3>2. ServerInv' /\ Grows(World, World') /\ World' = World
        BY <2>1, ServerStays DEF World
      <3>3. CheckpointFit' /\ FlyingOk' /\ DecidedOk'
        BY <2>1, <3>1, <3>2, CheckpointStays, RestStays
      <3>4. RunFit'
        BY <3>1, <3>2 DEF BInv, ThreadInv, RunFit
      <3>. QED BY <2>1, <3>2, <3>3, <3>4 DEF BInv, ThreadInv, ReaderFit
    <2>3. ASSUME NEW s, Overwrite(s), StateOk(s, World), Tracked(s, cases),
                 Linked(s), s.verified => After(last, s)
          PROVE  BInv'
      <3>1. cp' = s /\ last' = last
        BY <2>3 DEF Overwrite, Save
      <3>2. /\ CheckpointFit' /\ ReaderFit' /\ ServerInv' /\ FlyingOk' /\ DecidedOk'
            /\ World' = World
        BY <2>1, <2>3, <3>1, StoreFits
      <3>3. RunFit'
        <4>1. CASE run = None
          BY <2>3, <4>1 DEF Overwrite, RunFit
        <4>2. CASE run # None
          <5>1. run' = [run EXCEPT !.behind = TRUE]
            BY <2>3, <4>2 DEF Overwrite
          <5>2. run'.state = run.state /\ run'.at = run.at
            BY <4>2, <5>1 DEF RInv, RunOk, RunFields
          <5>. QED BY <2>3, <3>1, <3>2, <4>2, <5>2 DEF BInv, ThreadInv, RunFit
        <4>. QED BY <4>1, <4>2
      <3>. QED BY <3>2, <3>3 DEF BInv, ThreadInv
    <2>4. CASE Overwrite(Invalidated(reader))
      <3>. DEFINE s == Invalidated(reader)
      <3>1. /\ StateOk(s, World) /\ Tracked(s, cases) /\ Linked(s)
            /\ s.verified = FALSE
        BY <2>1, InvalidatedClaims, InvalidatedFields
      <3>2. Overwrite(s)
        BY <2>4
      <3>. HIDE DEF s
      <3>. QED BY <2>3, <3>1, <3>2
    <2>5. CASE Overwrite(Reconciled(reader)) /\ Reconciled(reader) # reader
      <3>. DEFINE s == Reconciled(reader)
      <3>1. reader.case # None
        BY <2>5 DEF Reconciled
      <3>2. /\ StateOk(s, World) /\ Tracked(s, cases)
            /\ Linked(s) /\ Grounded(s) /\ Anchored(s)
            /\ s.stage = "DONE" => s.cached # None
        BY <2>1, <3>1, ReconciledClaims DEF BInv, ServerInv
      <3>3. Overwrite(s)
        BY <2>5
      <3>. HIDE DEF s
      <3>4. After(last, s)
        BY <3>2 DEF After
      <3>. QED BY <2>3, <3>2, <3>3, <3>4
    <2>. QED BY <1>8, <2>2, <2>4, <2>5 DEF StoreState
  <1>. QED BY <1>1, <1>2, <1>4, <1>5, <1>6, <1>7, <1>8 DEF Orchestrator

LEMMA EnvironmentKeepsClaims ==
  ASSUME RInv, BInv, Environment
  PROVE  BInv'
  <1>. USE DEF user
  <1>1. ASSUME NEW op \in DOMAIN cases, Settle(op) PROVE BInv'
    <2>1. PICK verdict :
            /\ cases' = [cases EXCEPT ![op].status = verdict]
            /\ verdict = "RESOLVED_COMMITTED" =>
                 op \in DOMAIN receipts /\ receipts[op].action = op.action
      BY <1>1 DEF Settle, Evident
    <2>2. UNCHANGED <<cp, last, run, tickets, receipts, chosen, flying, reader>>
      BY <1>1 DEF Settle, thread
    <2>3. /\ DOMAIN cases' = DOMAIN cases
          /\ \A x \in DOMAIN cases \ {op} : cases'[x] = cases[x]
          /\ cases'[op] = [cases[op] EXCEPT !.status = verdict]
      BY <2>1
    <2>4. cases'[op].for = cases[op].for /\ cases'[op].status = verdict
      <3>. DEFINE row == cases[op]
                  settled == [row EXCEPT !.status = verdict]
      <3>1. CaseFields \subseteq DOMAIN row
        BY DEF RInv, CasesOk
      <3>2. cases'[op] = settled
        BY <2>3
      <3>. HIDE DEF row
      <3>3. settled.for = row.for /\ settled.status = verdict
        BY <3>1 DEF CaseFields
      <3>. HIDE DEF settled
      <3>. QED BY <3>2, <3>3 DEF row
    <2>5. \A x \in DOMAIN cases : cases'[x].for = cases[x].for
      BY <2>3, <2>4
    <2>6. ServerInv' /\ Grows(World, World') /\ World' = World
      BY <2>2, ServerStays DEF World
    <2>7. CheckpointFit' /\ ReaderFit'
      BY <2>2, <2>5, <2>6
         DEF RInv, CheckpointOk, ReaderOk, Traced, BInv, ThreadInv, CheckpointFit, ReaderFit, Begun,
             Tracked
    <2>8. RunFit'
      BY <2>2, <2>6 DEF BInv, ThreadInv, RunFit
    <2>9. FlyingOk' /\ DecidedOk'
      BY <2>1, <2>2, <2>3, <2>4, <2>6 DEF BInv, FlyingOk, DecidedOk
    <2>. QED BY <2>6, <2>7, <2>8, <2>9 DEF BInv, ThreadInv
  <1>2. ASSUME NEW req \in flying, Land(req) PROVE BInv'
    <2>1. /\ flying' = flying \ {req} /\ UNCHANGED <<thread, cases, reader, chosen>>
          /\ Commit(req) \/ UNCHANGED <<tickets, receipts>>
      BY <1>2 DEF Land
    <2>2. CASE Commit(req)
      <3>1. ReqOk(req, World)
        BY DEF BInv, FlyingOk
      <3>2. /\ ServerInv' /\ Grows(World, World')
            /\ \A x \in DOMAIN receipts : x \in DOMAIN receipts' /\ receipts'[x] = receipts[x]
        BY <2>1, <2>2, <3>1, CommitKeeps DEF BInv, ServerInv
      <3>. QED BY <2>1, <3>2, ThreadStays
    <2>3. CASE UNCHANGED <<tickets, receipts>>
      <3>1. ServerInv' /\ Grows(World, World')
        BY <2>1, <2>3, ServerStays
      <3>. QED BY <2>1, <2>3, <3>1, ThreadStays
    <2>. QED BY <2>1, <2>2, <2>3
  <1>3. ASSUME \/ \E issue \in Issues : OtherCreates(issue)
               \/ \E t \in DOMAIN tickets : OtherChanges(t) \/ AppointmentMoves(t)
               \/ \E slot \in Slots : OtherTakes(slot)
               \/ RelationChanges
        PROVE BInv'
    <2>1. UNCHANGED <<thread, cases, reader, chosen, receipts, flying>>
      BY <1>3 DEF OtherCreates, OtherChanges, AppointmentMoves, OtherTakes, RelationChanges, Moving
    <2>2. \/ tickets' = tickets
          \/ \E issue \in Issues : OtherCreates(issue)
          \/ \E t \in DOMAIN tickets : OtherChanges(t) \/ AppointmentMoves(t)
      BY <1>3 DEF OtherTakes, RelationChanges
    <2>3. ServerInv' /\ Grows(World, World')
      BY <2>1, <2>2, OthersKeep DEF BInv, ServerInv
    <2>. QED BY <2>1, <2>3, ThreadStays
  <1>. QED BY <1>1, <1>2, <1>3 DEF Environment

LEMMA InitBInv == Init => BInv
  <1>. SUFFICES ASSUME Init PROVE BInv
    OBVIOUS
  <1>1. tickets \in Seq(TicketRow)
    BY ExistingAssumption DEF Init
  <1>2. receipts = <<>> /\ cases = <<>> /\ flying = {} /\ run = None /\ reader = None /\ ~Begun
    BY DEF Init, Begun
  <1>3. DOMAIN receipts = {} /\ IsFiniteSet(DOMAIN receipts)
    BY <1>2, FS_EmptySet
  <1>4. tickets \in Seq(Rows(tickets))
    BY <1>1, OwnRows
  <1>5. ASSUME NEW t \in DOMAIN tickets
        PROVE  /\ "appointment" \in DOMAIN tickets[t]
               /\ tickets[t].appointment # None =>
                    "id" \in DOMAIN tickets[t].appointment /\ tickets[t].appointment.id \in Int
    <2>1. tickets[t] \in TicketRow
      BY <1>1
    <2>2. tickets[t].appointment # None => tickets[t].appointment \in AppointmentRow
      BY <2>1 DEF TicketRow
    <2>. QED BY <2>1, <2>2 DEF TicketRow, AppointmentRow
  <1>6. TicketsOk
    BY <1>4, <1>5 DEF TicketsOk
  <1>7. ReceiptsOk /\ DecidedOk /\ FlyingOk
    BY <1>2, <1>3 DEF ReceiptsOk, DecidedOk, FlyingOk
  <1>. QED BY <1>2, <1>6, <1>7 DEF BInv, ServerInv, ThreadInv, CheckpointFit, RunFit, ReaderFit

LEMMA NextBInv == RInv /\ RInv' /\ BInv /\ [Next]_vars => BInv'
  <1>1. ASSUME RInv, BInv, UNCHANGED vars PROVE BInv'
    <2>1. UNCHANGED <<thread, cases, reader, flying, tickets, receipts, chosen>>
      BY <1>1 DEF vars, db, user
    <2>2. ServerInv' /\ Grows(World, World')
      BY <1>1, <2>1, ServerStays
    <2>. QED BY <1>1, <2>1, <2>2, ThreadStays
  <1>. QED BY <1>1, NodeKeepsClaims, TroubleKeepsClaims, OrchestratorKeepsClaims,
              EnvironmentKeepsClaims DEF Next

\* Slots and duplicates of the checkpoint, of the invocation and of a concurrent reader, and
\* the calls nobody awaits, are about the tickets they claim.
THEOREM SpecBInv == Spec => []BInv
  BY InitBInv, NextBInv, SpecRInv, PTL DEF Spec

\* What the server books or moves, at once or long after the node gave up and whichever
\* operation's key it was sent under, is what the resident confirmed for that ticket.
THEOREM BookedAsConfirmedHolds == Spec => BookedAsConfirmed
  <1>1. RInv /\ BInv /\ [Next]_vars =>
          [\A t \in NewlyBooked : \E c \in chosen :
             c.ticket = t /\ c.slot = tickets'[t].appointment.slot]_vars
    <2>. SUFFICES ASSUME RInv, BInv, Next, NEW t \in NewlyBooked
                  PROVE  Chose(World, t, tickets'[t].appointment.slot)
      BY DEF Chose, World
    <2>1. tickets' # tickets
      BY DEF NewlyBooked
    <2>2. ASSUME NEW req, ReqOk(req, World), Commit(req), UNCHANGED chosen
          PROVE  Chose(World, t, tickets'[t].appointment.slot)
      BY <2>2, CommitKeeps DEF BInv, ServerInv
    <2>3. ASSUME NEW req \in flying, Land(req)
          PROVE  Chose(World, t, tickets'[t].appointment.slot)
      BY <2>1, <2>2, <2>3 DEF Land, BInv, FlyingOk, user
    <2>4. ASSUME AnswerArrives PROVE Chose(World, t, tickets'[t].appointment.slot)
      <3>1. run # None /\ run.sent /\ Commit(Sent) /\ UNCHANGED chosen
        BY <2>4 DEF AnswerArrives, Mutating, user
      <3>2. ReqOk(Sent, World)
        BY <3>1, RunClaims
      <3>. QED BY <2>2, <3>1, <3>2
    <2>5. ~(Trouble \/ Orchestrator)
      BY <2>1 DEF Trouble, AnswerLost, Fails, LanguageFails, Orchestrator, StartThread,
                  TurnRevoked, TurnBlocked, StartTurnAgain, StartTurnAfresh, Resume, ReadState,
                  StoreState, db
    <2>6. Environment => \E req \in flying : Land(req)
      <3>1. ASSUME \/ \E issue \in Issues : OtherCreates(issue)
                   \/ \E x \in DOMAIN tickets : OtherChanges(x) \/ AppointmentMoves(x)
            PROVE  FALSE
        <4>1. UNCHANGED <<chosen, receipts>>
          BY <3>1 DEF OtherCreates, OtherChanges, AppointmentMoves, Moving, user
        <4>. QED BY <3>1, <4>1, OthersKeep DEF BInv, ServerInv
      <3>2. ~\E op \in DOMAIN cases : Settle(op)
        BY <2>1 DEF Settle
      <3>3. ~(RelationChanges \/ \E slot \in Slots : OtherTakes(slot))
        BY <2>1 DEF OtherTakes, RelationChanges
      <3>. QED BY <3>1, <3>2, <3>3 DEF Environment
    <2>7. Node => AnswerArrives
      BY <2>1 DEF Node, ResolveProperty, Interpret, RetrievePolicy, FindDuplicates,
                  ResolveExisting, RefreshSnapshot, ListSlots, Interrupt, Conflict,
                  ProvideInformation, SelectDuplicate, SelectSlot, CancelSlot, PrepareCreate,
                  PrepareBook, PrepareReschedule, Dispatch, AssertionFails, ConflictArrives,
                  RefusalArrives, ClashArrives, Finish, Outside, db
    <2>. QED BY <2>3, <2>4, <2>5, <2>6, <2>7 DEF Next
  <1>. QED BY SpecRInv, SpecBInv, <1>1, PTL DEF Spec, BookedAsConfirmed
=============================================================================
