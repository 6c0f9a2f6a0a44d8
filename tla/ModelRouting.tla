----------------------------- MODULE ModelRouting -----------------------------
(***************************************************************************)
(* The online language model behind its router, circuit breaker and time   *)
(* budget, as the turns of one API process share it.  A turn that may use  *)
(* the model understands the resident's message with it, works, and drafts *)
(* the reply with it; in shadow mode the turn never waits, and an observer *)
(* asks the model on the side.  Understanding and drafting have a router,  *)
(* hence a circuit, of their own.  Time is counted in units; what models   *)
(* answer is the kind of answer only.                                      *)
(***************************************************************************)
EXTENDS Integers, FiniteSets

CONSTANTS
  Turns,          \* turns of users who may use the model
  Threshold,      \* transport failures that open a circuit
  Recovery,       \* units an open circuit rests
  Budget,         \* units of model time a turn has
  PerCall,        \* units one call may take
  Attempts,       \* calls of the first phase
  Concurrency,    \* calls a provider has under way
  EndOfTime       \* bound of the clock

\* config.py bounds the budget by 25 seconds, a call by 20 and a circuit rests for 30.
ASSUME Timing ==
  /\ {Threshold, Recovery, Budget, PerCall, Attempts, Concurrency} \subseteq Nat \ {0}
  /\ PerCall <= Budget /\ Budget < Recovery

VARIABLES
  path,      \* how this process uses the model: its ports, or a shadow
  now,
  circuit,
  turn

vars == <<path, now, circuit, turn>>

Routers == {"UNDERSTANDING", "DRAFTING"}

-----------------------------------------------------------------------------
(***************************************************************************)
(* Settings, and what they allow.                                          *)
(***************************************************************************)
Qualifications == <<"NOT_ACTIVATED", "CONTRACT_PASSED", "DEV_REGRESSION_PASSED",
                    "HOLDOUT_PASSED", "SHADOW_PASSED", "CANARY_PASSED", "APPROVED">>

Settings == [online : BOOLEAN, shadow : BOOLEAN, canary : BOOLEAN, ports : SUBSET Routers,
             environment : {"development", "test", "production"},
             runtime : {"development", "demo_safe", "production_candidate"},
             rank : DOMAIN Qualifications]

\* The settings the process accepts.
Valid(s) ==
  /\ s.environment = "production" => ~s.online
  /\ s.shadow => s.online
  /\ s.canary => s.online /\ s.environment = "development" /\ ~s.shadow
  /\ s.ports # {} => s.canary

\* The gate every online candidate is built behind.
Allows(s, purpose) ==
  /\ s.online
  /\ CASE purpose = "DEVELOPMENT_CANARY" -> s.runtime = "development"
       [] purpose = "SHADOW" -> s.shadow /\ Qualifications[s.rank] # "NOT_ACTIVATED"
       [] purpose = "BUSINESS" -> /\ s.runtime = "production_candidate"
                                  /\ Qualifications[s.rank] = "APPROVED"

\* What the composition builds, when every gate it asks lets it.
Built(s) == [shadow |-> s.shadow, ports |-> IF s.canary THEN s.ports ELSE {}]
Starts(s) ==
  /\ Valid(s)
  /\ s.shadow => Allows(s, "SHADOW")
  /\ s.canary /\ s.ports # {} => Allows(s, "DEVELOPMENT_CANARY")

-----------------------------------------------------------------------------
(***************************************************************************)
(* Circuits and turns.                                                     *)
(***************************************************************************)
Least(a, b) == IF a <= b THEN a ELSE b

Closed == [state |-> "CLOSED", failures |-> 0, opened |-> 0, probing |-> FALSE]

Idle == [stage |-> "IDLE", router |-> "UNDERSTANDING", phase |-> "FLASH", attempt |-> 1,
         deadline |-> 0, until |-> 0, probe |-> FALSE]

Init ==
  /\ path \in {Built(s) : s \in {s \in Settings : Starts(s)}}
  /\ now = 0
  /\ circuit = [r \in Routers |-> Closed]
  /\ turn = [t \in Turns |-> Idle]

Router(t) == turn[t].router
Calling(t) == turn[t].stage \in {"QUEUED", "SENT"}
InFlight(r) == {t \in Turns : Calling(t) /\ Router(t) = r}
Remaining(t) == turn[t].deadline - now

\* A turn at the door of its router's next call.
AtDoor(me, phase, attempt) ==
  [me EXCEPT !.stage = "ENTER", !.phase = phase, !.attempt = attempt, !.probe = FALSE, !.until = 0]

\* A router that gives up ends an understanding turn for review, a draft in the template,
\* and a shadow in no more than its evidence.
Over == [Idle EXCEPT !.stage = "DONE"]

\* After an answer: an interpretation lets the graph go on; a draft is the last thing a turn
\* waits for, and a shadow's answer is only kept beside the turn.
Answered(me) ==
  IF path.shadow \/ me.router = "DRAFTING" THEN Over
  ELSE [AtDoor(me, "FLASH", 1) EXCEPT !.stage = "WORK"]

\* After a failed call: one more attempt after a transport failure while time remains, one
\* repair of an answer that breaks the schema, else the router is exhausted.
AfterError(t, code) ==
  CASE turn[t].phase = "FLASH" /\ code = "SCHEMA" -> AtDoor(turn[t], "REPAIR", 1)
    [] /\ turn[t].phase = "FLASH" /\ code = "TRANSPORT"
       /\ turn[t].attempt < Attempts /\ Remaining(t) > 0
       -> AtDoor(turn[t], "FLASH", turn[t].attempt + 1)
    [] OTHER -> Over

-----------------------------------------------------------------------------
(***************************************************************************)
(* The circuit breaker.                                                    *)
(***************************************************************************)
Resting(c) == c.state = "OPEN" /\ now - c.opened < Recovery

\* A plausible bug: a half-open circuit lets every call probe.
RefusesWhileResting(c) == Resting(c)
Refuses(c) == Resting(c) \/ (c.state = "HALF_OPEN" /\ c.probing)

\* before_call
Entered(c) ==
  IF c.state = "CLOSED" THEN c
  ELSE [c EXCEPT !.state = "HALF_OPEN", !.opened = 0, !.probing = TRUE]

\* record_transport_failure
Failed(c) ==
  LET n == Least(c.failures + 1, Threshold) IN
  IF c.state = "HALF_OPEN" \/ n >= Threshold
  THEN [state |-> "OPEN", failures |-> n, opened |-> now, probing |-> FALSE]
  ELSE [c EXCEPT !.failures = n, !.probing = FALSE]

\* record_non_transport_failure
Released(c) == [c EXCEPT !.probing = FALSE]

\* How a request fails, as far as the router tells failures apart.
Errors == {"TRANSPORT", "SCHEMA", "OTHER"}

\* What a call that ends in code leaves of its circuit.
Recorded(c, code) ==
  CASE code = "OK" -> Closed
    [] code = "TRANSPORT" -> Failed(c)
    [] code \in Errors \ {"TRANSPORT"} -> Released(c)

-----------------------------------------------------------------------------
(***************************************************************************)
(* A turn.                                                                 *)
(***************************************************************************)
\* The budget is bound around the whole turn.  A shadow's turn has its answer at once, and
\* its observer keeps the turn's budget.
Begin(t) ==
  /\ turn[t].stage = "IDLE" /\ now + Budget <= EndOfTime
  /\ path.shadow \/ path.ports # {}
  /\ LET me == [turn[t] EXCEPT !.deadline = now + Budget] IN
     turn' = [turn EXCEPT ![t] =
       IF path.shadow \/ "UNDERSTANDING" \in path.ports THEN AtDoor(me, "FLASH", 1)
       ELSE [me EXCEPT !.stage = "WORK"]]
  /\ UNCHANGED <<path, now, circuit>>

\* The rest of the graph takes its time, then composes the reply: from the model, unless
\* the template is critical or drafting is not online.
Compose(t) ==
  /\ turn[t].stage = "WORK"
  /\ turn' = [turn EXCEPT ![t] = [AtDoor(@, "FLASH", 1) EXCEPT !.router = "DRAFTING"]]
  /\ "DRAFTING" \in path.ports
  /\ UNCHANGED <<path, now, circuit>>

ReplyPlainly(t) ==
  /\ turn[t].stage = "WORK"
  /\ turn' = [turn EXCEPT ![t] = Over]
  /\ UNCHANGED <<path, now, circuit>>

\* _single_call up to the provider: the circuit first, then the budget.
Refused(t) ==
  /\ turn[t].stage = "ENTER" /\ Refuses(circuit[Router(t)])
  /\ turn' = [turn EXCEPT ![t] = Over]
  /\ UNCHANGED <<path, now, circuit>>

TooLate(t) ==
  /\ turn[t].stage = "ENTER" /\ ~Refuses(circuit[Router(t)]) /\ Remaining(t) <= 0
  /\ circuit' = [circuit EXCEPT ![Router(t)] = Entered(@)]
  /\ turn' = [turn EXCEPT ![t] = Over]
  /\ UNCHANGED <<path, now>>

\* A plausible bug: a call takes its own timeout, whatever the turn has left.
EnterForFullCall(t) ==
  /\ turn[t].stage = "ENTER" /\ ~Refuses(circuit[Router(t)]) /\ Remaining(t) > 0
  /\ circuit' = [circuit EXCEPT ![Router(t)] = Entered(@)]
  /\ turn' = [turn EXCEPT ![t].stage = "QUEUED", ![t].until = now + PerCall,
                          ![t].probe = circuit[Router(t)].state # "CLOSED"]
  /\ UNCHANGED <<path, now>>

Enter(t) ==
  /\ turn[t].stage = "ENTER" /\ ~Refuses(circuit[Router(t)]) /\ Remaining(t) > 0
  /\ circuit' = [circuit EXCEPT ![Router(t)] = Entered(@)]
  /\ turn' = [turn EXCEPT ![t].stage = "QUEUED", ![t].until = now + Least(PerCall, Remaining(t)),
                          ![t].probe = circuit[Router(t)].state # "CLOSED"]
  /\ UNCHANGED <<path, now>>

\* The provider has a bounded number of requests under way; the wait counts as the call's.
Send(t) ==
  /\ turn[t].stage = "QUEUED"
  /\ Cardinality({o \in InFlight(Router(t)) : turn[o].stage = "SENT"}) < Concurrency
  /\ turn' = [turn EXCEPT ![t].stage = "SENT"]
  /\ UNCHANGED <<path, now, circuit>>

Answer(t) ==
  /\ turn[t].stage = "SENT"
  /\ circuit' = [circuit EXCEPT ![Router(t)] = Recorded(@, "OK")]
  /\ turn' = [turn EXCEPT ![t] = Answered(@)]
  /\ UNCHANGED <<path, now>>

\* An error of the transport, of the schema, or any other, fail-fast ones included.
Break(t) ==
  /\ turn[t].stage = "SENT"
  /\ \E code \in Errors :
       /\ circuit' = [circuit EXCEPT ![Router(t)] = Recorded(@, code)]
       /\ turn' = [turn EXCEPT ![t] = AfterError(t, code)]
  /\ UNCHANGED <<path, now>>

\* asyncio.timeout ends the call, whether it was sent or still waits for its permit.
TimeOut(t) ==
  /\ Calling(t) /\ now >= turn[t].until
  /\ circuit' = [circuit EXCEPT ![Router(t)] = Recorded(@, "TRANSPORT")]
  /\ turn' = [turn EXCEPT ![t] = AfterError(t, "TRANSPORT")]
  /\ UNCHANGED <<path, now>>

\* Time passes, but no timeout is overslept.
Tick ==
  /\ now < EndOfTime
  /\ \A t \in Turns : Calling(t) => now < turn[t].until
  /\ now' = now + 1
  /\ UNCHANGED <<path, circuit, turn>>

Step(t) ==
  \/ Compose(t) \/ ReplyPlainly(t) \/ Refused(t) \/ TooLate(t) \/ Enter(t) \/ Send(t)
  \/ Answer(t) \/ Break(t) \/ TimeOut(t)

Next == Tick \/ \E t \in Turns : Begin(t) \/ Step(t)

Spec == Init /\ [][Next]_vars

-----------------------------------------------------------------------------
(***************************************************************************)
(* What should hold.                                                       *)
(***************************************************************************)
\* docs/ONLINE_PROVIDER.md calls HALF_OPEN single-probe: while a probe is under way no other
\* call is, neither another probe nor a straggler from before the circuit opened.
SingleProbe ==
  \A r \in Routers : \A t \in InFlight(r) : turn[t].probe => InFlight(r) = {t}

\* One deadline covers understanding, its retry, its repair and drafting: no request is
\* under way after it, however the turn's other work and the other turns used the time.
WithinDeadline == \A t \in Turns : Calling(t) => now <= turn[t].deadline

\* Refuted: a circuit that refuses calls because of a probe has one under way to wait for.
\* A turn whose budget is spent claims the probe and never makes the call (TooLate).
ProbeOwned ==
  \A r \in Routers :
    circuit[r].state = "HALF_OPEN" /\ circuit[r].probing => \E t \in InFlight(r) : turn[t].probe

=============================================================================
