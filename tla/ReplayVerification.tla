-------------------------- MODULE ReplayVerification --------------------------
(***************************************************************************)
(* Deterministic replay (src/backend/app/replay).  A run of the agent is   *)
(* recorded step by step on a tape (PersistentReplayCapture), the tape is  *)
(* sealed into a bundle, and an operator may later ask that the bundle be  *)
(* verified: the same graph is run again over the tape alone, and the      *)
(* verdict is stored under the operator's idempotency key.                 *)
(*                                                                         *)
(* The graph is cut down to resolve_property (calls when the property is   *)
(* not yet verified, then routes), interpret (calls, then routes),         *)
(* list_slots (calls unless the time asked for is over, then routes), the  *)
(* three questions that interrupt (need_information,                       *)
(* need_availability_information, select_slot), mutate (any of the three   *)
(* mutation nodes) and finish; the reads on the way to list_slots and      *)
(* mutate are left out.  A control state is the record of facts the calls  *)
(* settled; its fingerprint is the record itself.  Beside the facts there  *)
(* is what the control reads and the stored state does not keep: that the  *)
(* message names a clock, and an escalation reason left by an earlier      *)
(* turn.  Every database call may be done, may fail, or may be done with   *)
(* its answer lost; the process may crash between any two of them.         *)
(***************************************************************************)
EXTENDS Integers, Sequences, SequencesExt, FiniteSets

CONSTANTS
    Runs,      \* agent_runs rows
    Origin,    \* Origin[r]: the ways run r may have come about
    Requests,  \* deliveries of POST /runs/{run_id}/replay/verify
    Keys,      \* (operator, Idempotency-Key) pairs
    MaxSteps,  \* replay_max_steps
    MaxFaults  \* bound: failed or unanswered database calls, and crashes

\* A turn may resume the question for missing information or the one for a time.
Origins == {"new", "message", "retry", "resume", "availability", "operator"}
ASSUME ReplayAssumption ==
    /\ Origin \in [Runs -> SUBSET Origins]
    /\ MaxSteps \in Nat /\ MaxFaults \in Nat

VARIABLES
    origin,    \* how each run came about
    run,       \* the run in the process, with its capture
    emitted,   \* every step the run made, recorded or not (history)
    bundle,    \* agent_replay_bundles with its agent_replay_steps
    tampered,  \* runs whose stored bundle was damaged (history)
    execution, \* agent_replay_executions, by key
    request,   \* the verifications under way
    version,   \* graph_schema_version in force, and the graph's behaviour
    faults
vars == <<origin, run, emitted, bundle, tampered, execution, request, version, faults>>

Outcomes == {"done", "lost", "failed"}
Schema(v) == IF v = 3 THEN 2 ELSE 1
None == [none |-> TRUE]

-----------------------------------------------------------------------------
(* The graph, as the run and the replay both execute it.                   *)

Facts(o) == [verified |-> o # "new", done |-> "none", slots |-> FALSE,
             intent |-> CASE o = "retry" -> "act" [] o = "resume" -> "ask"
                          [] o = "availability" -> "time" [] OTHER -> "none"]
\* What the projection leaves out: the text of the message (it names a clock whose
\* start has passed), or an overdue booking an earlier turn reported, settled since.
Unkept(o) == CASE o = "operator" -> {"nothing"} [] o = "resume" -> {"nothing", "clock", "overdue"}
               [] OTHER -> {"nothing", "clock"}
Entry(o) == CASE o = "retry" -> "mutate" [] o = "resume" -> "need_information"
              [] o = "availability" -> "need_availability_information"
              [] o = "operator" -> "operator" [] OTHER -> "resolve_property"
At(node, place, facts, resumed) ==
    [node |-> node, at |-> place, facts |-> facts, resumed |-> resumed, unkept |-> "nothing"]
Fresh(o) == At(Entry(o), CASE o = "operator" -> "call" [] o = "new" -> "enter" [] OTHER -> "preflight",
               Facts(o), o \in {"resume", "availability"})
Begun(o, unkept) == [Fresh(o) EXCEPT !.unkept = unkept]

\* requested_clock_has_passed: "time" asks for a window not yet over, "late" for one that is.
ClockHasPassed(m) == m.unkept = "clock" /\ m.facts.intent \in {"time", "late"}
Calls(m) == CASE m.node = "resolve_property" /\ ~m.facts.verified -> "PROPERTY_AUTHORIZATION_RESULT"
              [] m.node = "interpret" -> "INTERPRETATION_RESULT"
              [] m.node = "mutate"    -> "MCP_MUTATION_RESULT"
              [] m.node = "list_slots" /\ m.facts.intent = "time" /\ ~ClockHasPassed(m) ->
                                         "SLOT_LOOKUP_RESULT"
              [] OTHER                -> "none"
Answers(m) == CASE m.at = "call" /\ m.node = "resolve_property" -> {"found", "denied"}
                [] m.at = "call" /\ m.node = "interpret" -> {"ask", "act", "chat", "time", "late"}
                [] m.at = "call" /\ m.node = "list_slots" -> {"some", "empty"}
                [] m.at = "call" /\ m.node \in {"mutate", "operator"} -> {"made", "refused", "unknown"}
                [] OTHER -> {"none"}
Scheduling == {"act", "time", "late"}
\* The router's decision; an overdue booking once reported ends every further request.
Decision(m) ==
    IF m.node = "resolve_property" THEN IF m.facts.verified THEN "interpret" ELSE "end"
    ELSE IF m.node = "list_slots" THEN IF m.facts.slots THEN "select_slot" ELSE "need_availability_information"
    ELSE IF m.facts.intent = "ask" THEN "need_information"
    ELSE IF m.facts.intent \notin Scheduling \/ m.unkept = "overdue" THEN "finish"
    ELSE IF m.facts.intent = "act" THEN "mutate" ELSE "list_slots"
\* The question of an interrupt: the one for a time says when the clock named has passed.
Question(m) == IF m.node = "need_availability_information" /\ ClockHasPassed(m)
               THEN "clock passed" ELSE "plain"
\* The step the machine makes next: what the capture records and the tape must hold.
Wants(m) == CASE m.at = "preflight" -> "PROPERTY_AUTHORIZATION_RESULT"
              [] m.at = "refresh"   -> "TICKET_SNAPSHOT_RESULT"
              [] m.at = "enter"     -> "NODE_ENTERED"
              [] m.at = "call"      -> IF m.node = "operator" THEN "OPERATOR_MUTATION_RESULT" ELSE Calls(m)
              [] m.at = "route"     -> "ROUTE_DECISION"
              [] m.at = "interrupt" -> "INTERRUPT_RESULT"
              [] m.at = "final"     -> "FINAL_STATE"
\* What a step says: its own decision or question, or the answer of a call.
Says(m, answer) == CASE m.at = "route" -> Decision(m) [] m.at = "interrupt" -> Question(m)
                     [] OTHER -> answer
Step(m, answer) == [kind |-> Wants(m), node |-> m.node, facts |-> m.facts, answer |-> Says(m, answer)]

To(node, m) == IF node = "end" THEN [m EXCEPT !.at = "final"]
               ELSE [m EXCEPT !.node = node, !.at = "enter"]
Asking == {"need_information", "need_availability_information", "select_slot"}
Leave(m) == CASE m.node \in {"resolve_property", "interpret", "list_slots"} -> [m EXCEPT !.at = "route"]
              [] m.node \in Asking          -> To("interpret", m)
              [] m.node = "mutate"           -> To("finish", m)
              [] OTHER                       -> To("end", m)
Visit(m) == CASE m.node \in Asking /\ ~m.resumed -> [m EXCEPT !.at = "interrupt"]
              [] Calls(m) # "none" -> [m EXCEPT !.at = "call"]
              [] OTHER             -> Leave([m EXCEPT !.resumed = FALSE])
\* A mutation whose commit is unknown raises; version 2 forgets a refusal.
Learn(m, answer, v) ==
    CASE m.node = "resolve_property" -> Leave([m EXCEPT !.facts.verified = answer = "found"])
      [] m.node = "interpret" -> Leave([m EXCEPT !.facts.intent = answer])
      [] m.node = "list_slots" -> Leave([m EXCEPT !.facts.slots = answer = "some"])
      [] m.node = "mutate" /\ answer = "unknown" -> [m EXCEPT !.at = "raised"]
      [] m.node = "mutate" /\ answer # "unknown" ->
            Leave([m EXCEPT !.facts.done = IF v = 2 /\ answer = "refused" THEN "none" ELSE answer])
      [] OTHER -> [m EXCEPT !.at = "final"]
Advance(m, answer, v) ==
    CASE m.at = "enter"     -> Visit(m)
      [] m.at = "call"      -> Learn(m, answer, v)
      [] m.at = "route"     -> To(Decision(m), m)
      [] m.at = "interrupt" -> [m EXCEPT !.at = "final"]
      [] m.at = "final"     -> [m EXCEPT !.at = "over"]

-----------------------------------------------------------------------------
(* The replay: each step of the machine consumes the next step of the tape. *)

\* Where the graph starts on the tape: a recorded preflight is consumed first.
\* A plausible bug: the preflight of an existing thread is left on the tape.
GraphTapeFromHead(o, tape) == tape
GraphTape(o, tape) ==
    IF o # "operator" /\ tape # <<>> /\ Head(tape).kind = "PROPERTY_AUTHORIZATION_RESULT"
    THEN Tail(tape) ELSE tape
\* restore_agent_state: the stored start state at a node, with nothing called yet and
\* the text redacted; only a retry begins with an operation, whose key is rewritten.
Restored(node, place, start) == At(node, place, start, node = "need_information")
\* A resume is primed at the node after its predecessor: for the question for a time
\* interpret's router goes on to the reads before list_slots.  Other turns start anew.
Primed(o, start) == CASE o = "resume"       -> Restored("need_information", "enter", start)
                      [] o = "availability" -> Restored("list_slots", "refresh", start)
                      [] o = "operator"     -> Restored("operator", "call", start)
                      [] OTHER              -> Restored("resolve_property", "enter", start)
\* What the observer compares of a step: its node, its facts, its route or its question.
Matches(step, m) == /\ step.node = m.node /\ step.facts = m.facts
                    /\ m.at \in {"route", "interrupt"} => step.answer = Says(m, step.answer)
\* The recorded clients give the graph the answer on the tape, and raise what was unknown.
AnswerOnTape(step, m, v) ==
    CASE m.node = "operator" /\ m.at = "call" -> [m EXCEPT !.at = "final"]
      [] m.at = "refresh" -> [m EXCEPT !.at = "call"]
      [] OTHER -> Advance(m, step.answer, v)
\* ReplayTapeCursor: steps of another kind stop the replay, steps left over are counted.
Consume(step, play, v) ==
    LET next == AnswerOnTape(step, play.m, v)
    IN  IF play.stopped # "none" THEN play
        ELSE IF play.m.at = "over" THEN [play EXCEPT !.mismatch = TRUE]
        ELSE IF step.kind # Wants(play.m) THEN [play EXCEPT !.stopped = "INCOMPLETE"]
        ELSE [m |-> next,
              stopped |-> IF next.at = "raised" THEN "FAILED_SAFE" ELSE "none",
              mismatch |-> play.mismatch \/ ~Matches(step, play.m)]
Played(steps, m, v) ==
    LET play[n \in 0..Len(steps)] ==
          IF n = 0 THEN [m |-> m, stopped |-> "none", mismatch |-> FALSE]
          ELSE Consume(steps[n], play[n - 1], v)
    IN  play[Len(steps)]
Replayed(o, tape, start, v) ==
    LET played == Played(GraphTape(o, tape), Primed(o, start), v)
    IN  IF played.stopped # "none" THEN played.stopped
        ELSE IF played.m.at # "over" THEN "INCOMPLETE"
        ELSE IF played.mismatch THEN "DIVERGED" ELSE "PASSED"

-----------------------------------------------------------------------------
(* Capture.  A run's "capture" is the PersistentReplayCapture it holds:     *)
(* known says the start state was stored, error that an append failed,     *)
(* entered that some node was; ended is how the run itself came out.       *)

Over == {"noop", "closed", "abandoned", "crashed"}
Init ==
    /\ origin \in {o \in [Runs -> Origins] : \A r \in Runs : o[r] \in Origin[r]}
    /\ \E unkept \in [Runs -> {"nothing", "clock", "overdue"}] :
        /\ \A r \in Runs : unkept[r] \in Unkept(origin[r])
        /\ run = [r \in Runs |-> [at |-> "begin", m |-> Begun(origin[r], unkept[r]), known |-> FALSE,
                                  error |-> FALSE, entered |-> FALSE, ended |-> "no"]]
    /\ emitted = [r \in Runs |-> <<>>]
    /\ bundle = [r \in Runs |-> None]
    /\ tampered = {}
    /\ execution = [k \in Keys |-> None]
    /\ request = [w \in Requests |-> [at |-> "idle"]]
    /\ version = 1 /\ faults = 0

\* One database call: its outcome is free while the bound on faults allows.
Database(outcome) == /\ outcome # "done" => faults < MaxFaults
                     /\ faults' = IF outcome = "done" THEN faults ELSE faults + 1

\* ReplayCaptureService.start, or the first call of capture_operator_action.
Begin(r) ==
    /\ run[r].at = "begin"
    /\ \E outcome \in Outcomes :
        /\ Database(outcome)
        /\ bundle' = IF outcome = "failed" THEN bundle
                     ELSE [bundle EXCEPT ![r] = [status |-> "CAPTURING", start |-> None,
                              steps |-> <<>>, expected |-> None, sealed |-> None,
                              schema |-> Schema(version)]]
        /\ run' = [run EXCEPT ![r].at = IF outcome # "done" THEN "noop"
                                        ELSE IF origin[r] = "operator" THEN "stating" ELSE "running"]
    /\ UNCHANGED <<origin, emitted, tampered, execution, request, version>>

\* append_step under the bundle's row lock: refused once the tape is full.
Stored(b, step, outcome) ==
    IF b.status = "CAPTURING" /\ Len(b.steps) < MaxSteps /\ outcome # "failed"
    THEN [b EXCEPT !.steps = Append(@, step)] ELSE b
\* A plausible bug: an append that raised is forgotten.
RefusedWhenFull(b, outcome) == b.status # "CAPTURING" \/ Len(b.steps) >= MaxSteps
Refused(b, outcome) == outcome # "done" \/ b.status # "CAPTURING" \/ Len(b.steps) >= MaxSteps
\* _append: nothing is sent any more once an earlier append has failed.
Record(r, b, step, error, outcome) ==
    /\ IF error THEN outcome = "done" ELSE TRUE
    /\ Database(outcome)
    /\ emitted' = [emitted EXCEPT ![r] = Append(@, step)]
    /\ bundle' = [bundle EXCEPT ![r] = IF error THEN b ELSE Stored(b, step, outcome)]

\* set_start_state: the first state stored stays.
Started(b, facts) == IF b.status = "CAPTURING" /\ b.start = None
                     THEN [b EXCEPT !.start = facts] ELSE b
\* node_entered: the start state is offered until it is known to be stored.
EnterNode(r) ==
    LET c == run[r]  m == c.m IN
    /\ c.at = "running" /\ m.at = "enter"
    /\ \E begins, writes \in Outcomes :
        /\ begins # "done" => ~c.known /\ faults < MaxFaults /\ writes = "done"
        /\ LET offered == IF c.known \/ begins = "failed" THEN bundle[r] ELSE Started(bundle[r], m.facts)
               error   == c.error \/ begins # "done"
           IN  /\ IF begins # "done"
                  THEN /\ faults' = faults + 1
                       /\ emitted' = [emitted EXCEPT ![r] = Append(@, Step(m, "none"))]
                       /\ bundle' = [bundle EXCEPT ![r] = offered]
                  ELSE Record(r, offered, Step(m, "none"), error, writes)
               /\ run' = [run EXCEPT ![r].known = c.known \/ begins = "done",
                                     ![r].error = error \/ Refused(offered, writes),
                                     ![r].entered = TRUE, ![r].m = Visit(m)]
    /\ UNCHANGED <<origin, tampered, execution, request, version>>

\* A call that answered, a route, the interrupt or the final state, each recorded.
Emit(r) ==
    LET c == run[r]  m == c.m IN
    /\ c.at = "running" /\ m.at \in {"call", "route", "interrupt", "final"}
    /\ \E answer \in Answers(m), outcome \in Outcomes :
        /\ Record(r, bundle[r], Step(m, answer), c.error, outcome)
        /\ LET next == Advance(m, answer, version) IN
           run' = [run EXCEPT
             ![r].error = c.error \/ Refused(bundle[r], outcome),
             ![r].m  = IF next.at = "raised" THEN [next EXCEPT !.at = "final", !.facts.done = "unknown"] ELSE next,
             ![r].at = IF next.at = "over" THEN "closing" ELSE c.at,
             ![r].ended = IF next.at = "raised" THEN "unknown"
                          ELSE IF next.at = "over" /\ @ = "no" THEN "answered" ELSE @]
    /\ UNCHANGED <<origin, tampered, execution, request, version>>

\* The orchestrator's own reads, before the graph: the property is rechecked,
\* and a resolved reconciliation case makes it read the ticket's snapshot.
Preflight(r) ==
    LET c == run[r]  m == c.m IN
    /\ c.at = "running" /\ m.at \in {"preflight", "refresh"}
    /\ \E outcome \in Outcomes, then \in {"refresh", "enter", "refused"} :
        /\ m.at = "refresh" => then = "enter"
        /\ Record(r, bundle[r], Step(m, "found"), c.error, outcome)
        /\ run' = [run EXCEPT ![r].error = c.error \/ Refused(bundle[r], outcome),
                     ![r].m = [m EXCEPT !.at = IF then = "refused" THEN "over" ELSE then],
                     ![r].at = IF then = "refused" THEN "closing" ELSE c.at,
                     ![r].ended = CASE then = "refused" -> "raised" [] then = "refresh" -> "refreshed" [] OTHER -> @]
    /\ UNCHANGED <<origin, tampered, execution, request, version>>

\* A call that raises is not recorded; the run ends as a safe failure.
CallRaises(r) ==
    LET c == run[r]  m == c.m IN
    /\ c.at = "running" /\ m.at \in {"call", "preflight", "refresh"}
    /\ run' = [run EXCEPT ![r].m.at = IF c.entered THEN "final" ELSE "over",
                          ![r].at = IF c.entered THEN c.at ELSE "closing", ![r].ended = "raised"]
    /\ UNCHANGED <<origin, emitted, bundle, tampered, execution, request, version, faults>>

\* finalize_bundle: only a bundle still capturing is settled; READY is sealed.
Sealed(b) == [start |-> b.start, steps |-> b.steps, expected |-> b.expected]
Settled(b, status, facts) ==
    IF b.status # "CAPTURING" THEN b
    ELSE LET e == [b EXCEPT !.status = status, !.expected = IF status = "READY" THEN facts ELSE None]
         IN  IF status = "READY" THEN [e EXCEPT !.sealed = Sealed(e)] ELSE e
Close(r) ==
    LET c == run[r] IN
    /\ c.at = "closing"
    /\ \E outcome \in Outcomes :
        /\ Database(outcome)
        /\ bundle' = IF outcome = "failed" THEN bundle
                     ELSE [bundle EXCEPT ![r] =
                            Settled(@, IF c.error \/ ~c.entered THEN "INCOMPLETE" ELSE "READY", c.m.facts)]
    /\ run' = [run EXCEPT ![r].at = "closed"]
    /\ UNCHANGED <<origin, emitted, tampered, execution, request, version>>

\* capture_operator_action after the bundle: start state, mutation and final
\* state, READY; an exception anywhere returns without another word.
OperatorStages == <<"stating", "acting", "ending", "sealing", "closed">>
OperatorStep(r) ==
    LET c == run[r]  m == c.m  recorded == c.at \in {"acting", "ending"} IN
    \E i \in 1..4, answer \in Answers(m), outcome \in Outcomes :
        LET breaks == outcome # "done" \/ (recorded /\ Refused(bundle[r], outcome)) IN
        /\ c.at = OperatorStages[i]
        /\ Database(outcome)
        /\ emitted' = IF recorded THEN [emitted EXCEPT ![r] = Append(@, Step(m, answer))] ELSE emitted
        /\ bundle' = [bundle EXCEPT ![r] =
              CASE recorded          -> Stored(@, Step(m, answer), outcome)
                [] c.at = "stating"  -> IF outcome = "failed" THEN @ ELSE Started(@, m.facts)
                [] c.at = "sealing"  -> IF outcome = "failed" THEN @ ELSE Settled(@, "READY", m.facts)]
        /\ run' = [run EXCEPT
              ![r].error = breaks, ![r].ended = "answered",
              ![r].m.at = IF c.at = "acting" THEN "final" ELSE @,
              ![r].at = IF breaks THEN "abandoned" ELSE OperatorStages[i + 1]]
        /\ UNCHANGED <<origin, tampered, execution, request, version>>

-----------------------------------------------------------------------------
(* Verification.                                                            *)

Idle == [at |-> "idle"]
\* The bundle is read first, and only a READY one is verified.
Ask(w) ==
    /\ request[w].at = "idle"
    /\ \E r \in Runs, k \in Keys :
        /\ bundle[r] # None /\ bundle[r].status = "READY"
        /\ request' = [request EXCEPT ![w] = [at |-> "create", run |-> r, key |-> k, seen |-> bundle[r]]]
    /\ UNCHANGED <<origin, run, emitted, bundle, tampered, execution, version, faults>>

\* A plausible bug: whoever finds its row still RUNNING executes it too.
CreatedOrRunning(q, outcome) ==
    LET found == execution[q.key] IN
    outcome = "done" /\ (found = None \/ (found.run = q.run /\ found.status = "RUNNING"))
Created(q, outcome) == outcome = "done" /\ execution[q.key] = None
\* create_execution: the row of a key is created once; whoever finds it
\* answers with it, as it stands, or refuses another run under the same key.
CreateExecution(w) ==
    LET q == request[w] IN
    /\ q.at = "create"
    /\ \E outcome \in Outcomes :
        /\ Database(outcome)
        /\ execution' = IF execution[q.key] = None /\ outcome # "failed"
                        THEN [execution EXCEPT ![q.key] =
                                [run |-> q.run, status |-> "RUNNING", judged |-> None, finals |-> 0]]
                        ELSE execution
        /\ request' = [request EXCEPT ![w] = IF Created(q, outcome)
                                             THEN [q EXCEPT !.at = "execute"] ELSE Idle]
    /\ UNCHANGED <<origin, run, emitted, bundle, tampered, version>>

\* A plausible bug: the steps are counted, the bundle's checksum not compared.
IntactByCount(seen, b) == seen.start # None /\ Len(b.steps) = Len(seen.steps)
\* validate_integrity: the checksum read with the bundle against the rows now.
Intact(seen, b) == seen.start # None /\ seen.sealed = Sealed(b)
Judged(q, b) ==
    IF q.seen.schema # Schema(version) THEN "UNSUPPORTED_SCHEMA"
    ELSE IF ~Intact(q.seen, b) THEN "FAILED_SAFE"
    ELSE Replayed(origin[q.run], b.steps, q.seen.start, version)
\* ReplayEngine.execute within its time limit; a damaged bundle is invalidated.
Execute(w) ==
    LET q == request[w]  b == bundle[q.run]  verdict == Judged(q, b) IN
    /\ q.at = "execute"
    /\ \E slow \in BOOLEAN :
        /\ bundle' \in IF verdict = "UNSUPPORTED_SCHEMA" \/ Intact(q.seen, b) THEN {bundle}
                       ELSE {[bundle EXCEPT ![q.run].status = "INVALID"]}
                            \cup (IF slow THEN {bundle} ELSE {})
        /\ request' = [request EXCEPT ![w] = [at |-> "complete", run |-> q.run, key |-> q.key,
                          verdict |-> IF slow THEN "FAILED_SAFE" ELSE verdict,
                          slow |-> slow, version |-> version, tape |-> b.steps]]
    /\ UNCHANGED <<origin, run, emitted, tampered, execution, version, faults>>

\* A database error inside execute is not caught: the row is left as it is.
ExecuteRaises(w) ==
    /\ request[w].at = "execute" /\ faults < MaxFaults
    /\ faults' = faults + 1
    /\ request' = [request EXCEPT ![w] = Idle]
    /\ UNCHANGED <<origin, run, emitted, bundle, tampered, execution, version>>

\* complete_execution: the verdict and its trace event, once, together.
CompleteExecution(w) ==
    LET q == request[w] IN
    /\ q.at = "complete"
    /\ \E outcome \in Outcomes :
        /\ Database(outcome)
        /\ execution' = IF outcome # "failed" /\ execution[q.key].status = "RUNNING"
                        THEN [execution EXCEPT ![q.key].status = q.verdict, ![q.key].finals = @ + 1,
                                ![q.key].judged = [tape |-> q.tape, slow |-> q.slow, version |-> q.version]]
                        ELSE execution
    /\ request' = [request EXCEPT ![w] = Idle]
    /\ UNCHANGED <<origin, run, emitted, bundle, tampered, version>>

-----------------------------------------------------------------------------
(* The surroundings.                                                        *)

\* The process stops: every capture and every verification under way is gone.
Crash ==
    /\ faults < MaxFaults
    /\ faults' = faults + 1
    /\ run' = [r \in Runs |-> IF run[r].at \in Over THEN run[r] ELSE [run[r] EXCEPT !.at = "crashed"]]
    /\ request' = [w \in Requests |-> Idle]
    /\ UNCHANGED <<origin, emitted, bundle, tampered, execution, version>>

\* A release: version 2 changes a node without saying so, version 3 the schema.
Release ==
    /\ version = 1 /\ version' \in {2, 3}
    /\ \A r \in Runs : run[r].at \in Over \cup {"begin"}
    /\ \A w \in Requests : request[w].at = "idle"
    /\ UNCHANGED <<origin, run, emitted, bundle, tampered, execution, request, faults>>

\* A stored tape loses its last step, or a recorded result is altered.
Damage(r) ==
    /\ bundle[r] # None /\ bundle[r].status = "READY" /\ r \notin tampered
    /\ tampered' = tampered \cup {r}
    /\ \/ bundle' = [bundle EXCEPT ![r].steps = Front(@)]
       \/ \E i \in DOMAIN bundle[r].steps :
             /\ bundle[r].steps[i].kind \in {"OPERATOR_MUTATION_RESULT", "PROPERTY_AUTHORIZATION_RESULT"}
             /\ bundle' = [bundle EXCEPT ![r].steps[i].answer = "altered"]
    /\ UNCHANGED <<origin, run, emitted, execution, request, version, faults>>

Next ==
    \/ \E r \in Runs : Begin(r) \/ Preflight(r) \/ EnterNode(r) \/ Emit(r) \/ CallRaises(r)
                       \/ Close(r) \/ OperatorStep(r) \/ Damage(r)
    \/ \E w \in Requests : Ask(w) \/ CreateExecution(w) \/ Execute(w) \/ ExecuteRaises(w)
                           \/ CompleteExecution(w)
    \/ Crash \/ Release
Spec == Init /\ [][Next]_vars

-----------------------------------------------------------------------------
(* Properties.                                                              *)

\* A READY bundle holds the whole run: every step the run made, in order and
\* once, its start state and its outcome, however the appends, the start
\* state and the seal itself fared (docs/REPLAY.md: "a gap-free, ordered,
\* typed tape").
WholeWhenReady ==
    \A r \in Runs : bundle[r] # None /\ bundle[r].status = "READY" /\ r \notin tampered =>
        /\ bundle[r].steps = emitted[r]
        /\ bundle[r].start = Facts(origin[r])
        /\ Last(emitted[r]).kind = "FINAL_STATE" /\ bundle[r].expected = Last(emitted[r]).facts
        /\ bundle[r].sealed = Sealed(bundle[r])

\* What was judged PASSED was the run's own tape, step for step, in time.
PassedOnOwnTape ==
    \A k \in Keys : execution[k] # None /\ execution[k].status = "PASSED" =>
        execution[k].judged.tape = emitted[execution[k].run] /\ ~execution[k].judged.slow

\* PASSED is never given to a tape other than the run's own, nor to a run
\* that failed, was resumed half-way by a new message, or timed out.
PassedIsFaithful ==
    /\ PassedOnOwnTape
    /\ \A k \in Keys : execution[k] # None /\ execution[k].status = "PASSED" =>
         LET r == execution[k].run IN run[r].ended = "answered" /\ origin[r] # "retry"

\* No verification invalidates a bundle that nothing happened to.
InvalidOnlyIfDamaged ==
    \A r \in Runs : bundle[r] # None /\ bundle[r].status = "INVALID" => r \in tampered

\* The control of a run decided by what its bundle does not keep: it told the resident
\* that the clock in the message has passed, or ended on an overdue booking settled since.
LeftOut(m) ==
    \/ m.node = "need_availability_information" /\ ClockHasPassed(m)
    \/ m.node = "finish" /\ m.facts.intent \in Scheduling /\ m.unkept = "overdue"

\* A run that ran from the graph's start (or from a question for missing information)
\* to an answer is refused PASSED only for a cause: its bundle was damaged, the graph
\* was released anew, the time ran out, or its control decided by what the bundle
\* leaves out (replay/state.py); and a bundle is INVALID only if damaged.
RefusedForCause ==
    /\ \A k \in Keys : execution[k] # None /\ execution[k].status \notin {"RUNNING", "PASSED"} =>
         LET r == execution[k].run IN
         \/ r \in tampered \/ execution[k].judged.slow \/ execution[k].judged.version > 1
         \/ run[r].ended # "answered" \/ origin[r] \in {"retry", "availability"}
         \/ LeftOut(run[r].m)
    /\ InvalidOnlyIfDamaged

\* A whole bundle, undamaged, of an answered turn, replayed in time by the graph it was
\* recorded with, is not refused.
Honest(x) == /\ x # None /\ x.run \notin tampered /\ run[x.run].ended = "answered"
             /\ x.status # "RUNNING" => ~x.judged.slow /\ x.judged.version = 1
\* replay/state.py says that what is restored is "enough state for the formal graph":
\* an honest replay of a turn that starts the graph is not refused.
EnoughIsRestored ==
    \A k \in Keys : Honest(execution[k]) /\ origin[execution[k].run] \in {"new", "message"} =>
        execution[k].status \in {"RUNNING", "PASSED"}
\* docs/REPLAY.md says that a resume is primed and "then receives the strict recorded
\* Resume union": an honest replay of a resumed question for a time is not refused.
ResumeIsPrimed ==
    \A k \in Keys : Honest(execution[k]) /\ origin[execution[k].run] = "availability" =>
        execution[k].status \in {"RUNNING", "PASSED"}

\* Deliveries under one key, racing or repeated, for one run or for two,
\* execute at most once: whoever replays the tape holds the RUNNING row of
\* its own run, alone.
SoleExecutor ==
    \A w \in Requests : request[w].at \in {"execute", "complete"} =>
        /\ execution[request[w].key].status = "RUNNING"
        /\ execution[request[w].key].run = request[w].run
        /\ \A other \in Requests \ {w} : request[other].at \in {"execute", "complete"} =>
              request[other].key # request[w].key

\* docs/REPLAY.md says of a failed capture that the bundle becomes
\* INCOMPLETE; capture_operator_action only returns, and so does a
\* finalize that fails itself: the bundle stays CAPTURING for ever.
FailedCaptureIsIncomplete ==
    \A r \in Runs : run[r].at \in {"closed", "abandoned"} /\ run[r].error =>
        bundle[r].status = "INCOMPLETE"
=============================================================================
