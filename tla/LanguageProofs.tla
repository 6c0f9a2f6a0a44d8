------------------------- MODULE LanguageProofs -------------------------
(***************************************************************************)
(* What is proved of the language models.                                  *)
(*                                                                         *)
(* ModelRouting: one probe and one deadline, for any number of turns and   *)
(* any settings of thresholds, rests, budgets and permits that Timing      *)
(* admits.  A call ends PerCall after it entered at the latest, and an     *)
(* open circuit rests longer than that, so nothing from before is under    *)
(* way when the circuit lets a probe through (Drained); while a half-open  *)
(* circuit is probed it lets nobody else in.                               *)
(*                                                                         *)
(* ResidentDecision: what a model's answer may decide about a message of   *)
(* any marks.  A decision is read off tables whose first row that holds    *)
(* decides (FirstRowDecides).                                              *)
(*                                                                         *)
(* EvaluationRun: what is published of an evaluation is whole, and no      *)
(* verdict is given twice, for any dataset and any processes, crashes and  *)
(* damage.  The files on disk agree with each other and with what the      *)
(* process at work has in memory (EInv).                                   *)
(***************************************************************************)
EXTENDS ModelRouting, ResidentDecision, EvaluationRun, FiniteSetTheorems,
        SequenceTheorems, WellFoundedInduction, TLAPS

Stages == {"IDLE", "WORK", "ENTER", "QUEUED", "SENT", "DONE"}

CircuitRow == [state : {"CLOSED", "OPEN", "HALF_OPEN"}, failures : Nat, opened : Nat,
               probing : BOOLEAN]
TurnRow == [stage : Stages, router : Routers, phase : {"FLASH", "REPAIR"}, attempt : Nat,
            deadline : Nat, until : Nat, probe : BOOLEAN]

TypeOK ==
  /\ now \in Nat
  /\ circuit \in [Routers -> CircuitRow]
  /\ turn \in [Turns -> TurnRow]

\* A call is within its turn's deadline and within PerCall of its start.
CallsTimed ==
  \A t \in Turns : Calling(t) =>
    /\ now <= turn[t].until /\ turn[t].until <= turn[t].deadline
    /\ turn[t].until <= now + PerCall

\* Who is under way in a circuit's router: from an open circuit only calls from before it
\* opened, from a half-open one its probe alone, and a probe from no other.
Drained(r) ==
  /\ circuit[r].state # "HALF_OPEN" => \A t \in InFlight(r) : ~turn[t].probe
  /\ circuit[r].state = "OPEN" =>
       \A t \in InFlight(r) : turn[t].until <= circuit[r].opened + PerCall
  /\ circuit[r].state = "HALF_OPEN" =>
       /\ \A t, o \in InFlight(r) : t = o
       /\ ~circuit[r].probing => InFlight(r) = {}

PInv == TypeOK /\ CallsTimed /\ \A r \in Routers : Drained(r)

-----------------------------------------------------------------------------
(***************************************************************************)
(* What the operators of the model return.                                 *)
(***************************************************************************)
LEMMA LeastOf ==
  ASSUME NEW a \in Int, NEW b \in Int
  PROVE  /\ Least(a, b) \in {a, b}
         /\ Least(a, b) <= a /\ Least(a, b) <= b
  BY DEF Least

LEMMA ConstantTypes ==
  /\ Threshold \in Nat \ {0} /\ Recovery \in Nat \ {0} /\ Budget \in Nat \ {0}
  /\ PerCall \in Nat \ {0} /\ Attempts \in Nat \ {0}
  /\ PerCall < Recovery
  BY Timing

\* A turn at a door is a turn again, and not under way.
LEMMA AtDoorRow ==
  ASSUME NEW me \in TurnRow, NEW phase \in {"FLASH", "REPAIR"}, NEW n \in Nat
  PROVE  /\ AtDoor(me, phase, n) \in TurnRow
         /\ AtDoor(me, phase, n).stage = "ENTER"
         /\ AtDoor(me, phase, n).router = me.router
         /\ AtDoor(me, phase, n).deadline = me.deadline
  BY DEF AtDoor, TurnRow, Stages

LEMMA OverRow == Over \in TurnRow /\ Over.stage = "DONE" /\ Idle \in TurnRow
  BY DEF Over, Idle, TurnRow, Stages, Routers

\* The end of a call leaves a turn that is not under way.
LEMMA AnsweredRow ==
  ASSUME NEW me \in TurnRow
  PROVE  Answered(me) \in TurnRow /\ Answered(me).stage \notin {"QUEUED", "SENT"}
  <1>1. CASE path.shadow \/ me.router = "DRAFTING"
    BY <1>1, OverRow DEF Answered
  <1>2. CASE ~(path.shadow \/ me.router = "DRAFTING")
    <2>1. AtDoor(me, "FLASH", 1) \in TurnRow
      BY AtDoorRow
    <2>2. Answered(me) = [AtDoor(me, "FLASH", 1) EXCEPT !.stage = "WORK"]
      BY <1>2 DEF Answered
    <2>. QED  BY <2>1, <2>2 DEF TurnRow, Stages
  <1>. QED  BY <1>1, <1>2

LEMMA AfterErrorRow ==
  ASSUME TypeOK, NEW t \in Turns, NEW code
  PROVE  AfterError(t, code) \in TurnRow /\ AfterError(t, code).stage \notin {"QUEUED", "SENT"}
  <1>. turn[t] \in TurnRow /\ turn[t].attempt + 1 \in Nat
    BY DEF TypeOK, TurnRow
  <1>. QED  BY AtDoorRow, OverRow DEF AfterError

\* What a call may leave of its circuit when it ends.
LEMMA RecordedRow ==
  ASSUME NEW c \in CircuitRow, NEW code \in Errors \cup {"OK"}, now \in Nat
  PROVE  /\ Recorded(c, code) \in CircuitRow
         /\ \/ Recorded(c, code) = Closed
            \/ Recorded(c, code).state = "OPEN" /\ Recorded(c, code).opened = now
            \/ c.state # "HALF_OPEN" /\ Recorded(c, code).state = c.state
                 /\ Recorded(c, code).opened = c.opened
            \/ c.state = "HALF_OPEN" /\ Recorded(c, code).state = "HALF_OPEN"
  <1>1. CASE code = "OK"
    <2>1. Recorded(c, code) = Closed
      BY <1>1 DEF Recorded, Errors
    <2>. QED  BY <2>1 DEF Closed, CircuitRow
  <1>2. CASE code = "TRANSPORT"
    <2>1. Recorded(c, code) = Failed(c)
      BY <1>2 DEF Recorded, Errors
    <2>2. Least(c.failures + 1, Threshold) \in Nat
      BY LeastOf, ConstantTypes DEF CircuitRow
    <2>3. CASE c.state = "HALF_OPEN" \/ Least(c.failures + 1, Threshold) >= Threshold
      BY <2>1, <2>2, <2>3 DEF Failed, CircuitRow
    <2>4. CASE ~(c.state = "HALF_OPEN" \/ Least(c.failures + 1, Threshold) >= Threshold)
      <3>1. Recorded(c, code) = [c EXCEPT !.failures = Least(c.failures + 1, Threshold),
                                          !.probing = FALSE]
        BY <2>1, <2>4 DEF Failed
      <3>. QED  BY <2>2, <2>4, <3>1 DEF CircuitRow
    <2>. QED  BY <2>3, <2>4
  <1>3. CASE code \in Errors \ {"TRANSPORT"}
    <2>1. Recorded(c, code) = Released(c)
      BY <1>3 DEF Recorded, Errors
    <2>. QED  BY <2>1 DEF Released, CircuitRow
  <1>. QED  BY <1>1, <1>2, <1>3

LEMMA EnteredRow ==
  ASSUME NEW c \in CircuitRow
  PROVE  /\ Entered(c) \in CircuitRow
         /\ c.state = "CLOSED" => Entered(c) = c
         /\ c.state # "CLOSED" => Entered(c).state = "HALF_OPEN" /\ Entered(c).probing
  BY DEF Entered, CircuitRow

-----------------------------------------------------------------------------
(***************************************************************************)
(* Who is under way after a step.                                          *)
(***************************************************************************)
\* A turn t that is not under way afterwards leaves its router to the others.
LEMMA LeavesOthers ==
  ASSUME TypeOK, NEW t \in Turns, NEW me \in TurnRow, turn' = [turn EXCEPT ![t] = me],
         me.stage \notin {"QUEUED", "SENT"}
  PROVE  /\ ~Calling(t)'
         /\ \A o \in Turns : Calling(o)' => o # t /\ Calling(o) /\ turn'[o] = turn[o]
         /\ \A r \in Routers : InFlight(r)' = InFlight(r) \ {t}
  BY DEF TypeOK, Calling, InFlight, Router

\* An open circuit that has rested, and a half-open one without a probe, have no call.
LEMMA NoneUnderWay ==
  ASSUME PInv, NEW r \in Routers, ~Refuses(circuit[r]), circuit[r].state # "CLOSED"
  PROVE  InFlight(r) = {}
  <1>1. circuit[r] \in CircuitRow
    BY DEF PInv, TypeOK
  <1>2. CASE circuit[r].state = "OPEN"
    <2>1. now - circuit[r].opened >= Recovery
      BY <1>1, <1>2, ConstantTypes DEF Refuses, Resting, PInv, TypeOK, CircuitRow
    <2>2. \A t \in InFlight(r) : FALSE
      <3>. TAKE t \in InFlight(r)
      <3>1. now <= turn[t].until /\ turn[t].until <= circuit[r].opened + PerCall
        BY <1>2 DEF PInv, CallsTimed, Drained, InFlight
      <3>. QED  BY <3>1, <2>1, <1>1, ConstantTypes DEF PInv, TypeOK, CircuitRow, TurnRow, InFlight
    <2>. QED  BY <2>2
  <1>3. CASE circuit[r].state = "HALF_OPEN"
    BY <1>3 DEF Refuses, PInv, Drained
  <1>. QED  BY <1>1, <1>2, <1>3 DEF CircuitRow

-----------------------------------------------------------------------------
(***************************************************************************)
(* The invariant.                                                          *)
(***************************************************************************)
LEMMA InitiallyDrained == Init => PInv
  <1>. SUFFICES ASSUME Init  PROVE PInv
    OBVIOUS
  <1>1. TypeOK
    BY OverRow DEF Init, TypeOK, Closed, CircuitRow
  <1>2. \A t \in Turns : ~Calling(t)
    BY DEF Init, Calling, Idle
  <1>. QED  BY <1>1, <1>2 DEF PInv, CallsTimed, Drained, InFlight

\* A turn moves without a call: nothing changes for calls and circuits.
LEMMA QuietStep ==
  ASSUME PInv, NEW t \in Turns, NEW me \in TurnRow, turn' = [turn EXCEPT ![t] = me],
         me.stage \notin {"QUEUED", "SENT"}, UNCHANGED <<now, circuit>>
  PROVE  PInv'
  <1>1. TypeOK'
    BY DEF PInv, TypeOK
  <1>2. CallsTimed'
    BY LeavesOthers DEF PInv, CallsTimed
  <1>3. ASSUME NEW r \in Routers  PROVE Drained(r)'
    <2>1. InFlight(r)' = InFlight(r) \ {t} /\ \A o \in InFlight(r) \ {t} : turn'[o] = turn[o]
      BY LeavesOthers DEF PInv, InFlight, TypeOK
    <2>. QED  BY <2>1 DEF PInv, Drained
  <1>. QED  BY <1>1, <1>2, <1>3 DEF PInv

\* A call ends, answered or broken.
LEMMA EndStep ==
  ASSUME PInv, NEW t \in Turns, Calling(t), NEW code \in Errors \cup {"OK"}, NEW me \in TurnRow,
         me.stage \notin {"QUEUED", "SENT"}, turn' = [turn EXCEPT ![t] = me],
         circuit' = [circuit EXCEPT ![Router(t)] = Recorded(@, code)], UNCHANGED now
  PROVE  PInv'
  <1>. DEFINE s == Router(t)
              c == circuit[s]
  <1>0. s \in Routers /\ c \in CircuitRow /\ t \in InFlight(s) /\ now \in Nat
    BY DEF PInv, TypeOK, TurnRow, Router, InFlight
  <1>1. TypeOK'
    BY <1>0, RecordedRow DEF PInv, TypeOK
  <1>2. CallsTimed'
    BY LeavesOthers DEF PInv, CallsTimed
  <1>3. ASSUME NEW r \in Routers  PROVE Drained(r)'
    <2>1. /\ InFlight(r)' = InFlight(r) \ {t}
          /\ \A o \in InFlight(r)' : turn'[o] = turn[o] /\ o \in Turns /\ Calling(o)
      BY LeavesOthers DEF PInv, InFlight, TypeOK
    <2>2. CASE r # s
      <3>1. circuit'[r] = circuit[r]
        BY <2>2, <1>0 DEF PInv, TypeOK
      <3>. QED  BY <3>1, <2>1 DEF PInv, Drained
    <2>3. CASE r = s
      <3>1. circuit'[r] = Recorded(c, code)
        BY <2>3, <1>0 DEF PInv, TypeOK
      <3>2. Drained(s)
        BY <1>0 DEF PInv
      <3>3. c.state = "HALF_OPEN" => InFlight(r)' = {}
        BY <3>2, <2>1, <2>3, <1>0 DEF Drained
      <3>4. c.state # "HALF_OPEN" => \A o \in InFlight(r)' : ~turn'[o].probe
        BY <3>2, <2>1, <2>3 DEF Drained
      <3>5. \A o \in InFlight(r)' : turn'[o].until <= now + PerCall
        BY <2>1 DEF PInv, CallsTimed
      <3>6. c.state = "OPEN" => \A o \in InFlight(r)' : turn'[o].until <= c.opened + PerCall
        BY <3>2, <2>1, <2>3 DEF Drained
      <3>. HIDE DEF c
      <3>. QED  BY <3>1, <3>3, <3>4, <3>5, <3>6, <1>0, RecordedRow DEF Drained, Closed
    <2>. QED  BY <2>2, <2>3
  <1>. QED  BY <1>1, <1>2, <1>3 DEF PInv

LEMMA EnterStep ==
  ASSUME PInv, NEW t \in Turns, Enter(t)
  PROVE  PInv'
  <1>. DEFINE s == Router(t)
              c == circuit[s]
              span == Least(PerCall, Remaining(t))
  <1>0. s \in Routers /\ c \in CircuitRow /\ now \in Nat /\ turn[t] \in TurnRow
    BY DEF PInv, TypeOK, TurnRow, Router
  <1>1. /\ span \in Nat /\ span <= PerCall /\ now + span <= turn[t].deadline
    <2>1. Remaining(t) \in Nat /\ now + Remaining(t) = turn[t].deadline
      BY <1>0 DEF Enter, Remaining, TurnRow
    <2>2. Remaining(t) \in Nat /\ now \in Nat /\ PerCall \in Nat
      BY <2>1, <1>0, ConstantTypes
    <2>3. span \in {PerCall, Remaining(t)} /\ span <= PerCall /\ span <= Remaining(t)
      <3>1. PerCall \in Int /\ Remaining(t) \in Int
        BY ONLY <2>2
      <3>. QED  BY ONLY <3>1, LeastOf, Zenon
    <2>. HIDE DEF span
    <2>4. span \in Nat
      BY ONLY <2>2, <2>3
    <2>5. now + span <= now + Remaining(t)
      BY ONLY <2>2, <2>3, <2>4
    <2>. QED  BY ONLY <2>1, <2>3, <2>4, <2>5
  <1>2. /\ turn'[t] \in TurnRow /\ turn'[t].until = now + span
        /\ turn'[t].router = s /\ turn'[t].deadline = turn[t].deadline
        /\ turn'[t].probe = (c.state # "CLOSED")
        /\ turn'[t].stage = "QUEUED"
        /\ \A o \in Turns \ {t} : turn'[o] = turn[o]
        /\ turn' \in [Turns -> TurnRow]
    <2>1. turn' = [turn EXCEPT ![t] = [turn[t] EXCEPT !.stage = "QUEUED", !.until = now + span,
                                                      !.probe = (c.state # "CLOSED")]]
      BY DEF Enter, PInv, TypeOK
    <2>2. [turn[t] EXCEPT !.stage = "QUEUED", !.until = now + span,
                          !.probe = (c.state # "CLOSED")] \in TurnRow
      <3>. HIDE DEF span
      <3>1. now + span \in Nat
        BY <1>0, <1>1
      <3>2. (c.state # "CLOSED") \in BOOLEAN
        OBVIOUS
      <3>. QED  BY <1>0, <3>1, <3>2 DEF TurnRow, Stages
    <2>. QED  BY <2>1, <2>2, <1>0 DEF PInv, TypeOK, Router, TurnRow
  <1>3. now' = now /\ circuit' = [circuit EXCEPT ![s] = Entered(c)]
    BY <1>0 DEF Enter, PInv, TypeOK
  <1>4. TypeOK'
    BY <1>2, <1>3, <1>0, EnteredRow DEF PInv, TypeOK
  <1>5. CallsTimed'
    BY <1>0, <1>1, <1>2, <1>3, ConstantTypes DEF PInv, CallsTimed, Calling
  <1>6. ASSUME NEW r \in Routers  PROVE Drained(r)'
    <2>1. CASE r # s
      <3>1. circuit'[r] = circuit[r] /\ InFlight(r)' = InFlight(r)
            /\ \A o \in InFlight(r) : turn'[o] = turn[o]
        BY <2>1, <1>2, <1>3, <1>0 DEF PInv, TypeOK, InFlight, Calling, Router, Enter
      <3>. QED  BY <3>1 DEF PInv, Drained
    <2>2. CASE r = s
      <3>1. /\ InFlight(r)' = InFlight(r) \cup {t} /\ t \notin InFlight(r)
            /\ \A o \in InFlight(r) : turn'[o] = turn[o]
        BY <2>2, <1>2, <1>0 DEF InFlight, Calling, Router, Enter
      <3>2. circuit'[r] = Entered(c)
        BY <2>2, <1>3, <1>0 DEF PInv, TypeOK
      <3>3. CASE c.state = "CLOSED"
        BY <3>1, <3>2, <3>3, <2>2, <1>0, <1>2, EnteredRow DEF PInv, Drained
      <3>4. CASE c.state # "CLOSED"
        <4>1. InFlight(r) = {}
          BY <3>4, <2>2, <1>0, NoneUnderWay DEF Enter
        <4>. QED  BY <4>1, <3>1, <3>2, <3>4, <1>0, EnteredRow DEF Drained
      <3>. QED  BY <3>3, <3>4
    <2>. QED  BY <2>1, <2>2
  <1>. QED  BY <1>4, <1>5, <1>6 DEF PInv

\* A spent budget takes the probe and calls nobody.
LEMMA TooLateStep ==
  ASSUME PInv, NEW t \in Turns, TooLate(t)
  PROVE  PInv'
  <1>. DEFINE s == Router(t)
              c == circuit[s]
  <1>0. s \in Routers /\ c \in CircuitRow /\ now \in Nat
    BY DEF PInv, TypeOK, TurnRow, Router
  <1>1. now' = now /\ circuit' = [circuit EXCEPT ![s] = Entered(c)] /\ turn' = [turn EXCEPT ![t] = Over]
    BY <1>0 DEF TooLate, PInv, TypeOK
  <1>2. TypeOK'
    BY <1>1, <1>0, EnteredRow, OverRow DEF PInv, TypeOK
  <1>3. CallsTimed'
    BY <1>1, OverRow, LeavesOthers DEF PInv, CallsTimed
  <1>4. ASSUME NEW r \in Routers  PROVE Drained(r)'
    <2>1. InFlight(r)' = InFlight(r) \ {t} /\ \A o \in InFlight(r) \ {t} : turn'[o] = turn[o]
      BY <1>1, OverRow, LeavesOthers DEF PInv, InFlight, TypeOK
    <2>2. CASE r # s \/ c.state = "CLOSED"
      <3>1. circuit'[r] = circuit[r]
        BY <2>2, <1>0, <1>1, EnteredRow DEF PInv, TypeOK
      <3>. QED  BY <3>1, <2>1 DEF PInv, Drained
    <2>3. CASE r = s /\ c.state # "CLOSED"
      <3>1. InFlight(r) = {}
        BY <2>3, <1>0, NoneUnderWay DEF TooLate
      <3>2. circuit'[r] = Entered(c)
        BY <2>3, <1>0, <1>1 DEF PInv, TypeOK
      <3>. QED  BY <2>1, <2>3, <3>1, <3>2, <1>0, EnteredRow DEF Drained
    <2>. QED  BY <2>2, <2>3
  <1>. QED  BY <1>2, <1>3, <1>4 DEF PInv

LEMMA SendStep ==
  ASSUME PInv, NEW t \in Turns, Send(t)
  PROVE  PInv'
  <1>1. /\ turn'[t] = [turn[t] EXCEPT !.stage = "SENT"]
        /\ \A o \in Turns \ {t} : turn'[o] = turn[o]
        /\ UNCHANGED <<now, circuit>>
        /\ turn' \in [Turns -> TurnRow]
    BY DEF Send, PInv, TypeOK, TurnRow, Stages
  <1>2. \A o \in Turns : /\ Calling(o)' = Calling(o) /\ turn'[o].until = turn[o].until
                         /\ turn'[o].deadline = turn[o].deadline
                         /\ turn'[o].probe = turn[o].probe /\ turn'[o].router = turn[o].router
    BY <1>1 DEF Send, Calling, PInv, TypeOK, TurnRow
  <1>3. \A r \in Routers : InFlight(r)' = InFlight(r)
    BY <1>2 DEF InFlight, Router
  <1>4. TypeOK'
    BY <1>1 DEF PInv, TypeOK
  <1>5. CallsTimed'
    BY <1>1, <1>2 DEF PInv, CallsTimed
  <1>6. ASSUME NEW r \in Routers  PROVE Drained(r)'
    BY <1>1, <1>2, <1>3 DEF PInv, Drained, InFlight
  <1>. QED  BY <1>4, <1>5, <1>6 DEF PInv

LEMMA TickStep ==
  ASSUME PInv, Tick
  PROVE  PInv'
  <1>1. now' = now + 1 /\ UNCHANGED <<circuit, turn>>
    BY DEF Tick
  <1>2. TypeOK'
    BY <1>1 DEF PInv, TypeOK
  <1>3. CallsTimed'
    BY <1>1, ConstantTypes DEF PInv, CallsTimed, Tick, Calling, TypeOK, TurnRow
  <1>4. ASSUME NEW r \in Routers  PROVE Drained(r)'
    BY <1>1 DEF PInv, Drained, InFlight, Calling, Router
  <1>. QED  BY <1>2, <1>3, <1>4 DEF PInv

LEMMA PInvStep == PInv /\ [Next]_vars => PInv'
  <1>. SUFFICES ASSUME PInv, [Next]_vars  PROVE PInv'
    OBVIOUS
  <1>0. \A t \in Turns : turn[t] \in TurnRow
    BY DEF PInv, TypeOK
  <1>1. CASE Tick
    BY <1>1, TickStep
  <1>2. ASSUME NEW t \in Turns, Begin(t)  PROVE PInv'
    <2>. DEFINE me == [turn[t] EXCEPT !.deadline = now + Budget]
    <2>1. me \in TurnRow /\ me.stage = "IDLE"
      BY <1>2, <1>0, ConstantTypes DEF TurnRow, PInv, TypeOK, Begin
    <2>2. \E you \in TurnRow : turn' = [turn EXCEPT ![t] = you] /\ you.stage \in {"ENTER", "WORK"}
      <3>1. CASE path.shadow \/ "UNDERSTANDING" \in path.ports
        BY <3>1, <1>2, <2>1, AtDoorRow DEF Begin
      <3>2. CASE ~(path.shadow \/ "UNDERSTANDING" \in path.ports)
        <4>1. [me EXCEPT !.stage = "WORK"] \in TurnRow /\ [me EXCEPT !.stage = "WORK"].stage = "WORK"
          BY <2>1 DEF TurnRow, Stages
        <4>. QED  BY <3>2, <1>2, <4>1 DEF Begin
      <3>. QED  BY <3>1, <3>2
    <2>. QED  BY <2>2, <1>2, QuietStep DEF Begin
  <1>3. ASSUME NEW t \in Turns, Compose(t)  PROVE PInv'
    <2>. DEFINE you == [AtDoor(turn[t], "FLASH", 1) EXCEPT !.router = "DRAFTING"]
    <2>1. you \in TurnRow /\ you.stage = "ENTER"
      BY <1>0, AtDoorRow DEF TurnRow, Routers
    <2>. QED  BY <2>1, <1>3, QuietStep DEF Compose, PInv, TypeOK
  <1>4. ASSUME NEW t \in Turns, ReplyPlainly(t) \/ Refused(t)  PROVE PInv'
    BY <1>4, OverRow, QuietStep DEF ReplyPlainly, Refused
  <1>5. ASSUME NEW t \in Turns, TooLate(t)  PROVE PInv'
    BY <1>5, TooLateStep
  <1>6. ASSUME NEW t \in Turns, Enter(t)  PROVE PInv'
    BY <1>6, EnterStep
  <1>7. ASSUME NEW t \in Turns, Send(t)  PROVE PInv'
    BY <1>7, SendStep
  <1>8. ASSUME NEW t \in Turns, Answer(t)  PROVE PInv'
    <2>1. turn' = [turn EXCEPT ![t] = Answered(turn[t])]
      BY <1>8 DEF Answer, PInv, TypeOK
    <2>. QED  BY <2>1, <1>8, <1>0, AnsweredRow, EndStep DEF Answer, Calling
  <1>9. ASSUME NEW t \in Turns, Break(t)  PROVE PInv'
    <2>1. PICK code \in Errors : /\ circuit' = [circuit EXCEPT ![Router(t)] = Recorded(@, code)]
                                 /\ turn' = [turn EXCEPT ![t] = AfterError(t, code)]
      BY <1>9 DEF Break
    <2>. QED  BY <2>1, <1>9, AfterErrorRow, EndStep DEF Break, Calling, PInv
  <1>10. ASSUME NEW t \in Turns, TimeOut(t)  PROVE PInv'
    <2>1. "TRANSPORT" \in Errors \cup {"OK"}
      BY DEF Errors
    <2>. QED  BY <2>1, <1>10, AfterErrorRow, EndStep DEF TimeOut, PInv
  <1>11. CASE UNCHANGED vars
    BY <1>11 DEF vars, PInv, TypeOK, CallsTimed, Drained, Calling, InFlight, Router
  <1>. QED  BY <1>1, <1>2, <1>3, <1>4, <1>5, <1>6, <1>7, <1>8, <1>9, <1>10, <1>11 DEF Next, Step

\* The invariant holds throughout, for any turns and settings.
THEOREM Inductive == Spec => []PInv
  BY InitiallyDrained, PInvStep, PTL DEF Spec

-----------------------------------------------------------------------------
(***************************************************************************)
(* Theorems.                                                               *)
(***************************************************************************)
\* While a probe is under way no other call of its router is, however many turns share the
\* circuit and however late stragglers from before it opened come back.
THEOREM SingleProbeHolds == Spec => []SingleProbe
<1>1. PInv => SingleProbe
  <2>. SUFFICES ASSUME PInv, NEW r \in Routers, NEW t \in InFlight(r), turn[t].probe
                PROVE  InFlight(r) = {t}
    BY DEF SingleProbe
  <2>1. Drained(r)
    BY DEF PInv
  <2>2. circuit[r].state = "HALF_OPEN"
    BY <2>1 DEF Drained
  <2>. QED  BY <2>1, <2>2 DEF Drained
<1>. QED  BY Inductive, <1>1, PTL

\* No request is under way after its turn's deadline, whatever retries and repairs it made.
THEOREM WithinDeadlineHolds == Spec => []WithinDeadline
<1>1. PInv => WithinDeadline
  BY DEF PInv, CallsTimed, WithinDeadline, TypeOK, TurnRow
<1>. QED  BY Inductive, <1>1, PTL
-----------------------------------------------------------------------------
(***************************************************************************)
(* The decision on one message.                                            *)
(***************************************************************************)
\* Of some positions of a list, one is the first.
LEMMA FirstExists ==
  ASSUME NEW n \in Nat, NEW S, S \subseteq 1..n, S # {}
  PROVE  \E i \in S : \A j \in S : i <= j
<1> DEFINE upTo(k) == 1..k
           T == {upTo(k) : k \in S}
           R == StrictSubsetOrdering(1..n)
<1>1. T \subseteq FiniteSubsetsOf(1..n) /\ T # {}
  <2>1. \A k \in S : upTo(k) \subseteq 1..n
    BY SMT
  <2>2. \A k \in S : IsFiniteSet(upTo(k))
    BY FS_Interval
  <2> QED BY <2>1, <2>2 DEF FiniteSubsetsOf
<1>2. IsWellFoundedOn(R, FiniteSubsetsOf(1..n))
  BY FS_Interval, FS_StrictSubsetOrderingWellFounded
<1>3. PICK X \in T : \A Y \in T : ~(<<Y, X>> \in R)
  <2> HIDE DEF R, T
  <2> QED BY <1>1, <1>2, WFMin
<1>4. PICK i \in S : X = upTo(i)
  OBVIOUS
<1>5. ASSUME NEW j \in S, j < i PROVE FALSE
  <2>1. upTo(j) \in SUBSET (1..n) /\ upTo(i) \in SUBSET (1..n)
    BY SMT
  <2>2. upTo(j) \subseteq upTo(i) /\ upTo(j) # upTo(i)
    BY <1>5, SMT
  <2>3. <<upTo(j), upTo(i)>> \in R
    BY <2>1, <2>2 DEF StrictSubsetOrdering
  <2> QED BY <1>3, <1>4, <2>3
<1> QED BY <1>5, SMT

\* The first row that holds decides, if one does.
LEMMA FirstRowDecides ==
  ASSUME NEW n \in Nat, NEW rows, DOMAIN rows = 1..n, NEW k \in DOMAIN rows, rows[k][1]
  PROVE  \E i \in DOMAIN rows : /\ rows[i][1] /\ \A j \in DOMAIN rows : rows[j][1] => i <= j
                                /\ FirstRow(rows) = rows[i][2]
<1> DEFINE holding == {i \in DOMAIN rows : rows[i][1]}
           first == CHOOSE i \in holding : \A j \in holding : i <= j
<1>1. \E i \in holding : \A j \in holding : i <= j
  <2>1. holding \subseteq 1..n /\ holding # {}
    OBVIOUS
  <2> HIDE DEF holding
  <2> QED BY <2>1, FirstExists
<1>2. first \in holding /\ \A j \in holding : first <= j
  <2> HIDE DEF holding
  <2> QED BY <1>1
<1>3. FirstRow(rows) = rows[first][2]
  BY DEF FirstRow
<1> HIDE DEF first
<1> QED BY <1>2, <1>3

\* Signals the model claims add nothing to those the message shows.
LEMMA DetectedAlone ==
  ASSUME NEW m, NEW a
  PROVE  /\ Detected(m, a) = {s \in Signals : Active(m, s)}
         /\ Flags(m, a) = Flags(m, Silent)
<1>1. \A b : Detected(m, b) = {s \in Signals : Active(m, s)}
  BY DEF Detected
<1> QED BY <1>1 DEF Flags

\* A person is among the facts that stand only if the message asks for one.
LEMMA HumanStands ==
  ASSUME NEW m \in Messages, NEW a, Possible(m, a)
  PROVE  "human" \in Normalized(m, a) <=> Says(m, "human")
<1>1. "human" \in Stated(m, a) <=> Reads(a, "human") \/ Says(m, "human")
  BY DEF Stated, Patterned, Quoted
<1>2. "human" \notin Verdict(m, a)
  BY DEF Verdict
<1>3. "human" \in Normalized(m, a) <=> "human" \in Stated(m, a)
  BY <1>2 DEF Normalized
<1>4. Reads(a, "human") => Says(m, "human")
  <2>1. Reads(a, "human") => "human" \in m.marks \cup m.dangers \cup m.feared
    BY DEF Possible, Claimable, Reads
  <2>2. "human" \notin m.dangers \cup m.feared
    BY MessageAssumption DEF Signals
  <2> QED BY <2>1, <2>2 DEF Says
<1> QED BY <1>1, <1>3, <1>4

\* The rows of the two tables: the first hands over, no other does, and the last holds.
LEMMA TableRows ==
  ASSUME NEW m, NEW facts, NEW acts, NEW flags
  PROVE  LET requests == RequestRows(m, facts, acts)
             supplements == SupplementRows(m, facts, acts, flags)
         IN  /\ DOMAIN requests = 1..12 /\ DOMAIN supplements = 1..12
             /\ requests[1][1] <=> "REQUEST_HUMAN" \in acts
             /\ requests[1][2] = "REQUEST_HUMAN"
             /\ \A i \in 2..12 : requests[i][2] # "REQUEST_HUMAN"
             /\ \A i \in 1..12 : supplements[i][2] # "REQUEST_HUMAN"
             /\ supplements[12][1]
<1> DEFINE requests == RequestRows(m, facts, acts)
           supplements == SupplementRows(m, facts, acts, flags)
<1>1. DOMAIN requests = 1..12 /\ DOMAIN supplements = 1..12
  BY DEF RequestRows, SupplementRows
<1>2. requests[1][1] <=> "REQUEST_HUMAN" \in acts
  BY DEF RequestRows
<1>3. requests[1][2] = "REQUEST_HUMAN" /\ \A i \in 2..12 : requests[i][2] # "REQUEST_HUMAN"
  BY DEF RequestRows
<1>4. \A i \in 1..12 : supplements[i][2] # "REQUEST_HUMAN"
  BY DEF SupplementRows
<1>5. supplements[12][1]
  BY DEF SupplementRows
<1> HIDE DEF requests, supplements
<1> QED BY <1>1, <1>2, <1>3, <1>4, <1>5 DEF requests, supplements

\* Handing over is the first row, and no other says so.
LEMMA HandsOver ==
  ASSUME NEW m, NEW facts, NEW acts, NEW flags
  PROVE  Intent(m, facts, acts, flags) = "REQUEST_HUMAN" <=> "REQUEST_HUMAN" \in acts
<1> DEFINE requests == RequestRows(m, facts, acts)
           supplements == SupplementRows(m, facts, acts, flags)
<1>1. /\ DOMAIN requests = 1..12 /\ DOMAIN supplements = 1..12
      /\ requests[1][1] <=> "REQUEST_HUMAN" \in acts
      /\ requests[1][2] = "REQUEST_HUMAN"
      /\ \A i \in 2..12 : requests[i][2] # "REQUEST_HUMAN"
      /\ \A i \in 1..12 : supplements[i][2] # "REQUEST_HUMAN"
      /\ supplements[12][1]
  BY TableRows
<1>2. Intent(m, facts, acts, flags) =
        IF \E i \in DOMAIN requests : requests[i][1] THEN FirstRow(requests)
        ELSE FirstRow(supplements)
  BY DEF Intent
<1> HIDE DEF requests, supplements
<1>3. ASSUME NEW k \in 1..12, requests[k][1]
      PROVE  FirstRow(requests) = "REQUEST_HUMAN" <=> "REQUEST_HUMAN" \in acts
  <2>1. PICK i \in DOMAIN requests :
                           /\ requests[i][1] /\ \A j \in DOMAIN requests : requests[j][1] => i <= j
                           /\ FirstRow(requests) = requests[i][2]
    BY <1>1, <1>3, FirstRowDecides
  <2>2. CASE "REQUEST_HUMAN" \in acts
    <3>1. i = 1
      BY <1>1, <2>1, <2>2
    <3> QED BY <1>1, <2>1, <2>2, <3>1
  <2>3. CASE "REQUEST_HUMAN" \notin acts
    <3>1. i \in 2..12
      BY <1>1, <2>1, <2>3
    <3> QED BY <1>1, <2>1, <2>3, <3>1
  <2> QED BY <2>2, <2>3
<1>4. FirstRow(supplements) # "REQUEST_HUMAN"
  <2>1. PICK k \in DOMAIN supplements : supplements[k][1]
    BY <1>1
  <2>2. PICK i \in DOMAIN supplements :
                           /\ supplements[i][1] /\ \A j \in DOMAIN supplements : supplements[j][1] => i <= j
                           /\ FirstRow(supplements) = supplements[i][2]
    BY <1>1, <2>1, FirstRowDecides
  <2> QED BY <1>1, <2>2
<1>5. CASE \E i \in DOMAIN requests : requests[i][1]
  BY <1>1, <1>2, <1>3, <1>5
<1>6. CASE ~\E i \in DOMAIN requests : requests[i][1]
  BY <1>1, <1>2, <1>4, <1>6
<1> QED BY <1>5, <1>6

\* What a decision is made of.
LEMMA DecisionParts ==
  ASSUME NEW m, NEW a, Decide(m, a).stage = "DECIDED"
  PROVE  LET facts == Normalized(m, a)
             acts == Features(m, facts)
             flags == Flags(m, a)
             intent == Intent(m, facts, acts, flags)
         IN  /\ Decide(m, a).intent = intent
             /\ Decide(m, a).flags = flags
             /\ Decide(m, a).missing = Missing(m, facts, acts, flags, intent)
BY DEF Decide

\* Whoever asks for a person, and nobody else, is handed over.
LEMMA HumanDecided ==
  ASSUME NEW m \in Messages, NEW a, Possible(m, a),
         Decide(m, a).stage = "DECIDED"
  PROVE  Decide(m, a).intent = "REQUEST_HUMAN"
         <=> Says(m, "human") \/ Says(m, "callback")
<1> DEFINE facts == Normalized(m, a)
           acts == Features(m, facts)
<1>1. Decide(m, a).intent = "REQUEST_HUMAN" <=> "REQUEST_HUMAN" \in acts
  BY DecisionParts, HandsOver
<1>2. "human" \in facts <=> Says(m, "human")
  BY HumanStands
<1> HIDE DEF facts
<1>3. "REQUEST_HUMAN" \in acts <=> "human" \in facts \/ Says(m, "callback")
  BY DEF Features
<1> QED BY <1>1, <1>2, <1>3

\* Who is in danger is asked for nothing.
LEMMA NothingMissing ==
  ASSUME NEW m, NEW facts, NEW acts, NEW flags, flags # {}, NEW intent
  PROVE  Missing(m, facts, acts, flags, intent) = {}
<1> DEFINE rows ==
      << <<intent = "REQUEST_HUMAN" \/ flags # {}, {}>>,
         <<intent = "RESCHEDULE_APPOINTMENT",
           Unless("PROVIDE_AVAILABILITY" \in acts, {"AVAILABILITY"})>>,
         <<"small_talk" \in facts \/ "unsupported" \in facts, {}>>,
         <<intent = "SELECT_APPOINTMENT_SLOT", Unselected(m, facts, acts)>>,
         <<intent = "PROVIDE_INFORMATION", Unsupplied(m, facts)>>,
         <<intent \in {"NEW_REPAIR", "UNKNOWN"}, Undetailed(m, facts, intent)>>,
         <<TRUE, {}>> >>
<1>1. Missing(m, facts, acts, flags, intent) = FirstRow(rows)
  BY Zenon DEF Missing
<1>2. DOMAIN rows = 1..7 /\ rows[1][1] /\ rows[1][2] = {}
  <2>1. DOMAIN rows = 1..7
    OBVIOUS
  <2>2. rows[1][1]
    OBVIOUS
  <2>3. rows[1][2] = {}
    OBVIOUS
  <2> HIDE DEF rows
  <2> QED BY <2>1, <2>2, <2>3
<1> HIDE DEF rows
<1>3. PICK i \in DOMAIN rows : /\ rows[i][1] /\ \A j \in DOMAIN rows : rows[j][1] => i <= j
                               /\ FirstRow(rows) = rows[i][2]
  <2>1. PICK k \in DOMAIN rows : rows[k][1]
    BY <1>2
  <2> QED BY <1>2, <2>1, FirstRowDecides
<1>4. i = 1
  BY <1>2, <1>3
<1> QED BY <1>1, <1>2, <1>3, <1>4

\* A danger the message shows raises a flag.
LEMMA DangerFlagged ==
  ASSUME NEW m \in Messages, NEW a, m.dangers # {}
  PROVE  Flags(m, a) # {}
<1>1. Detected(m, a) # {}
  <2>1. PICK s \in m.dangers : TRUE
    OBVIOUS
  <2>2. s \in Signals
    BY MessageAssumption
  <2> QED BY <2>2, DetectedAlone DEF Active
<1>2. "IMMEDIATE_DANGER" \in Flags(m, a)
  BY <1>1 DEF Flags
<1> QED BY <1>2

\* Claims of the answer that are made up, as UnfoundedDecidesNothing has them.
MadeUp(a) ==
  \A f \in Claimable :
     \/ a[f] = "NONE"
     \/ f \notin {"unsupported", "ACCEPT", "REJECT"} /\ a[f] \in {"TORN", "INVENTED"}

\* Claims that are made up leave the facts as they are without any, but for windows.
LEMMA UnfoundedLeaves ==
  ASSUME NEW m, NEW a, MadeUp(a)
  PROVE  /\ Normalized(m, Silent) \subseteq Normalized(m, a)
         /\ Normalized(m, a) \subseteq Normalized(m, Silent) \cup {"windows"}
         /\ a["windows"] # "INVENTED" => Normalized(m, a) = Normalized(m, Silent)
         /\ Raises(m, a) <=> Raises(m, Silent)
<1> DEFINE none == Silent
<1>1. \A f \in Claimable : none[f] = "NONE"
  BY DEF Silent
<1> HIDE DEF none
<1>2. {"human", "booking", "reschedule", "cancellation", "status", "ticket", "appointment", "time",
       "location", "description", "ACCEPT", "REJECT", "unsupported", "windows"}
        \subseteq Claimable
  BY DEF Claimable
<1>3. \A f \in Claimable : ~Reads(a, f) /\ ~Quotes(a, f)
                                    /\ ~Reads(none, f) /\ ~Quotes(none, f)
  BY <1>1 DEF Reads, Quotes, MadeUp
<1>4. Stated(m, a) = Stated(m, none)
  BY <1>2, <1>3 DEF Stated, Patterned, Quoted
<1>5. Verdict(m, a) = Verdict(m, none)
  BY <1>1, <1>2 DEF Verdict, MadeUp
<1>6. /\ Cancels(m, a) <=> Cancels(m, none)
      /\ Locates(m, a) <=> Locates(m, none)
      /\ Describes(m, a) <=> Describes(m, none)
  BY <1>2, <1>3 DEF Cancels, Locates, Describes
<1>7. Unsupported(m, a) <=> Unsupported(m, none)
  BY <1>1, <1>2 DEF Unsupported, MadeUp
<1>8. /\ ~Offers(none) /\ (Offers(a) => a["windows"] = "INVENTED")
      /\ ~Quotes(a, "appointment") /\ ~Quotes(none, "appointment")
  BY <1>1, <1>2, <1>3 DEF Offers, MadeUp
<1>9. /\ Normalized(m, none) \subseteq Normalized(m, a)
      /\ Normalized(m, a) \subseteq Normalized(m, none) \cup {"windows"}
  BY <1>4, <1>5, <1>6, <1>7, <1>8 DEF Normalized
<1>10. a["windows"] # "INVENTED" => Normalized(m, a) = Normalized(m, none)
  BY <1>4, <1>5, <1>6, <1>7, <1>8 DEF Normalized
<1>11. Raises(m, a) <=> Raises(m, none)
  BY <1>1, <1>2, <1>6 DEF Raises, MadeUp
<1> QED BY <1>9, <1>10, <1>11 DEF none

\* The same fields are missing, or a time besides.
Within(fewer, more) == fewer \subseteq more /\ more \subseteq fewer \cup {"AVAILABILITY"}

\* Lists whose rows hold together decide alike, up to a time that is missing.
LEMMA RowsWithin ==
  ASSUME NEW n \in Nat, NEW fewer, NEW more, DOMAIN fewer = 1..n, DOMAIN more = 1..n,
         \A i \in 1..n : (fewer[i][1] <=> more[i][1]) /\ Within(fewer[i][2], more[i][2]),
         NEW k \in 1..n, fewer[k][1]
  PROVE  Within(FirstRow(fewer), FirstRow(more))
<1> DEFINE holding == {i \in 1..n : fewer[i][1]}
           first == CHOOSE i \in holding : \A j \in holding : i <= j
<1>1. {i \in DOMAIN fewer : fewer[i][1]} = holding /\ {i \in DOMAIN more : more[i][1]} = holding
  OBVIOUS
<1>2. FirstRow(fewer) = fewer[first][2] /\ FirstRow(more) = more[first][2]
  BY <1>1 DEF FirstRow
<1>3. first \in 1..n
  <2>1. holding \subseteq 1..n /\ holding # {}
    OBVIOUS
  <2> HIDE DEF holding
  <2>2. \E i \in holding : \A j \in holding : i <= j
    BY <2>1, FirstExists
  <2> QED BY <2>1, <2>2
<1> QED BY <1>2, <1>3

\* Windows among the facts change no act and no intent, and of the missing fields only a time.
LEMMA WindowsAside ==
  ASSUME NEW m, NEW facts, NEW others, facts \subseteq others, others \subseteq facts \cup {"windows"}
  PROVE  /\ Features(m, others) = Features(m, facts)
         /\ \A acts, flags : Intent(m, others, acts, flags) = Intent(m, facts, acts, flags)
         /\ \A acts, flags, intent : Within(Missing(m, facts, acts, flags, intent),
                                            Missing(m, others, acts, flags, intent))
<1>1. \A f : f # "windows" => (f \in others <=> f \in facts)
  OBVIOUS
<1>2. Features(m, others) = Features(m, facts)
  BY <1>1 DEF Features
<1>3. ASSUME NEW acts, NEW flags
      PROVE  Intent(m, others, acts, flags) = Intent(m, facts, acts, flags)
  <2>1. RequestRows(m, others, acts) = RequestRows(m, facts, acts)
    BY <1>1 DEF RequestRows
  <2>2. others \cap {"location", "description", "time"} = facts \cap {"location", "description", "time"}
    BY <1>1
  <2>3. SupplementRows(m, others, acts, flags) = SupplementRows(m, facts, acts, flags)
    BY <1>1, <2>2 DEF SupplementRows
  <2> QED BY <2>1, <2>3 DEF Intent
<1>4. Within(Untimed(m, facts), Untimed(m, others))
  <2>1. TimeIsActionable(m, others) => TimeIsActionable(m, facts)
    BY <1>1 DEF TimeIsActionable
  <2> QED BY <2>1 DEF Untimed, Unless, Within
<1>5. ASSUME NEW intent
      PROVE  Undetailed(m, others, intent) = Undetailed(m, facts, intent)
  BY <1>1 DEF Undetailed
<1>6. Within(Unsupplied(m, facts), Unsupplied(m, others))
  <2> DEFINE rows(f) ==
      << <<"time" \in f /\ (Says(m, "duration") \/ Says(m, "at_home")), {}>>,
         <<"time" \in f /\ ~Says(m, "issue") /\ ~Says(m, "fault"),
           Unless(~Says(m, "hour_open"), {"AVAILABILITY"})>>,
         <<context.task = "SELECT_APPOINTMENT_SLOT", Untimed(m, f)>>,
         <<"correction" \in f /\ Says(m, "unsure_where"), {"ISSUE_LOCATION"}>>,
         <<"correction" \in f, Unless(Categorized(m) \/ ~Says(m, "blocked"), {"ISSUE_CATEGORY"})>>,
         <<"time" \in f /\ Recently("asks_time"), {}>>,
         <<TRUE, Undetailed(m, f, "PROVIDE_INFORMATION")>> >>
  <2>1. \A f : Unsupplied(m, f) = FirstRow(rows(f))
    BY Zenon DEF Unsupplied
  <2>2. DOMAIN rows(facts) = 1..7 /\ DOMAIN rows(others) = 1..7 /\ rows(facts)[7][1]
    OBVIOUS
  <2>3. \A i \in 1..7 : /\ rows(facts)[i][1] <=> rows(others)[i][1]
                     /\ Within(rows(facts)[i][2], rows(others)[i][2])
    <3>1. /\ rows(facts)[1][1] <=> rows(others)[1][1]
          /\ Within(rows(facts)[1][2], rows(others)[1][2])
      BY <1>1, <1>4, <1>5 DEF Within
    <3>2. /\ rows(facts)[2][1] <=> rows(others)[2][1]
          /\ Within(rows(facts)[2][2], rows(others)[2][2])
      BY <1>1, <1>4, <1>5 DEF Within
    <3>3. /\ rows(facts)[3][1] <=> rows(others)[3][1]
          /\ Within(rows(facts)[3][2], rows(others)[3][2])
      BY <1>1, <1>4, <1>5 DEF Within
    <3>4. /\ rows(facts)[4][1] <=> rows(others)[4][1]
          /\ Within(rows(facts)[4][2], rows(others)[4][2])
      BY <1>1, <1>4, <1>5 DEF Within
    <3>5. /\ rows(facts)[5][1] <=> rows(others)[5][1]
          /\ Within(rows(facts)[5][2], rows(others)[5][2])
      BY <1>1, <1>4, <1>5 DEF Within
    <3>6. /\ rows(facts)[6][1] <=> rows(others)[6][1]
          /\ Within(rows(facts)[6][2], rows(others)[6][2])
      BY <1>1, <1>4, <1>5 DEF Within
    <3>7. /\ rows(facts)[7][1] <=> rows(others)[7][1]
          /\ Within(rows(facts)[7][2], rows(others)[7][2])
      BY <1>1, <1>4, <1>5 DEF Within
    <3> HIDE DEF rows
    <3> QED BY <3>1, <3>2, <3>3, <3>4, <3>5, <3>6, <3>7
  <2> HIDE DEF rows
  <2>4. 7 \in Nat /\ 7 \in 1..7
    OBVIOUS
  <2>5. Within(FirstRow(rows(facts)), FirstRow(rows(others)))
    BY <2>2, <2>3, <2>4, RowsWithin, Zenon
  <2> QED BY <2>1, <2>5
<1>7. ASSUME NEW acts
      PROVE  Within(Unselected(m, facts, acts), Unselected(m, others, acts))
  <2> DEFINE rows(f) ==
      << <<"SELECT_SLOT" \in acts, {}>>,
         <<Says(m, "unreported")
           \/ (Says(m, "unnamed") /\ ~Categorized(m) /\ "description" \notin f),
           {"ISSUE_CATEGORY", "ISSUE_DESCRIPTION"}>>,
         <<TRUE, Untimed(m, f)>> >>
  <2>1. \A f : Unselected(m, f, acts) = FirstRow(rows(f))
    BY Zenon DEF Unselected
  <2>2. DOMAIN rows(facts) = 1..3 /\ DOMAIN rows(others) = 1..3 /\ rows(facts)[3][1]
    OBVIOUS
  <2>3. \A i \in 1..3 : /\ rows(facts)[i][1] <=> rows(others)[i][1]
                     /\ Within(rows(facts)[i][2], rows(others)[i][2])
    <3>1. /\ rows(facts)[1][1] <=> rows(others)[1][1]
          /\ Within(rows(facts)[1][2], rows(others)[1][2])
      BY <1>1, <1>4 DEF Within
    <3>2. /\ rows(facts)[2][1] <=> rows(others)[2][1]
          /\ Within(rows(facts)[2][2], rows(others)[2][2])
      BY <1>1, <1>4 DEF Within
    <3>3. /\ rows(facts)[3][1] <=> rows(others)[3][1]
          /\ Within(rows(facts)[3][2], rows(others)[3][2])
      BY <1>1, <1>4 DEF Within
    <3> HIDE DEF rows
    <3> QED BY <3>1, <3>2, <3>3
  <2> HIDE DEF rows
  <2>4. 3 \in Nat /\ 3 \in 1..3
    OBVIOUS
  <2>5. Within(FirstRow(rows(facts)), FirstRow(rows(others)))
    BY <2>2, <2>3, <2>4, RowsWithin, Zenon
  <2> QED BY <2>1, <2>5
<1>8. ASSUME NEW acts, NEW flags, NEW intent
      PROVE  Within(Missing(m, facts, acts, flags, intent), Missing(m, others, acts, flags, intent))
  <2> DEFINE rows(f) ==
      << <<intent = "REQUEST_HUMAN" \/ flags # {}, {}>>,
         <<intent = "RESCHEDULE_APPOINTMENT",
           Unless("PROVIDE_AVAILABILITY" \in acts, {"AVAILABILITY"})>>,
         <<"small_talk" \in f \/ "unsupported" \in f, {}>>,
         <<intent = "SELECT_APPOINTMENT_SLOT", Unselected(m, f, acts)>>,
         <<intent = "PROVIDE_INFORMATION", Unsupplied(m, f)>>,
         <<intent \in {"NEW_REPAIR", "UNKNOWN"}, Undetailed(m, f, intent)>>,
         <<TRUE, {}>> >>
  <2>1. \A f : Missing(m, f, acts, flags, intent) = FirstRow(rows(f))
    BY Zenon DEF Missing
  <2>2. DOMAIN rows(facts) = 1..7 /\ DOMAIN rows(others) = 1..7 /\ rows(facts)[7][1]
    OBVIOUS
  <2>3. \A i \in 1..7 : /\ rows(facts)[i][1] <=> rows(others)[i][1]
                     /\ Within(rows(facts)[i][2], rows(others)[i][2])
    <3>1. /\ rows(facts)[1][1] <=> rows(others)[1][1]
          /\ Within(rows(facts)[1][2], rows(others)[1][2])
      BY <1>1, <1>5, <1>6, <1>7 DEF Within
    <3>2. /\ rows(facts)[2][1] <=> rows(others)[2][1]
          /\ Within(rows(facts)[2][2], rows(others)[2][2])
      BY <1>1, <1>5, <1>6, <1>7 DEF Within
    <3>3. /\ rows(facts)[3][1] <=> rows(others)[3][1]
          /\ Within(rows(facts)[3][2], rows(others)[3][2])
      BY <1>1, <1>5, <1>6, <1>7 DEF Within
    <3>4. /\ rows(facts)[4][1] <=> rows(others)[4][1]
          /\ Within(rows(facts)[4][2], rows(others)[4][2])
      BY <1>1, <1>5, <1>6, <1>7 DEF Within
    <3>5. /\ rows(facts)[5][1] <=> rows(others)[5][1]
          /\ Within(rows(facts)[5][2], rows(others)[5][2])
      BY <1>1, <1>5, <1>6, <1>7 DEF Within
    <3>6. /\ rows(facts)[6][1] <=> rows(others)[6][1]
          /\ Within(rows(facts)[6][2], rows(others)[6][2])
      BY <1>1, <1>5, <1>6, <1>7 DEF Within
    <3>7. /\ rows(facts)[7][1] <=> rows(others)[7][1]
          /\ Within(rows(facts)[7][2], rows(others)[7][2])
      BY <1>1, <1>5, <1>6, <1>7 DEF Within
    <3> HIDE DEF rows
    <3> QED BY <3>1, <3>2, <3>3, <3>4, <3>5, <3>6, <3>7
  <2> HIDE DEF rows
  <2>4. 7 \in Nat /\ 7 \in 1..7
    OBVIOUS
  <2>5. Within(FirstRow(rows(facts)), FirstRow(rows(others)))
    BY <2>2, <2>3, <2>4, RowsWithin, Zenon
  <2> QED BY <2>1, <2>5
<1> QED BY <1>2, <1>3, <1>8

\* Claims that are made up decide nothing but that a time is missing.
LEMMA UnfoundedDecided ==
  ASSUME NEW m, NEW a, MadeUp(a), Decide(m, a).stage = "DECIDED"
  PROVE  LET silent == Decide(m, Silent) IN
         \/ Decide(m, a) = silent
         \/ /\ a["windows"] = "INVENTED" /\ silent.stage = "DECIDED"
            /\ Decide(m, a).intent = silent.intent /\ Decide(m, a).flags = silent.flags
            /\ Within(silent.missing, Decide(m, a).missing)
<1> DEFINE facts == Normalized(m, Silent)
           others == Normalized(m, a)
           silent == Decide(m, Silent)
<1>1. Flags(m, a) = Flags(m, Silent)
  BY DetectedAlone
<1>2. CASE a["windows"] # "INVENTED"
  BY <1>1, <1>2, UnfoundedLeaves DEF Decide
<1>3. CASE a["windows"] = "INVENTED"
  <2>1. silent.stage = "DECIDED"
    BY UnfoundedLeaves DEF Decide
  <2>2. facts \subseteq others /\ others \subseteq facts \cup {"windows"}
    BY UnfoundedLeaves
  <2>3. /\ Decide(m, a).flags = Flags(m, Silent) /\ silent.flags = Flags(m, Silent)
        /\ silent.intent = Intent(m, facts, Features(m, facts), Flags(m, Silent))
        /\ Decide(m, a).intent = Intent(m, others, Features(m, others), Flags(m, Silent))
        /\ silent.missing = Missing(m, facts, Features(m, facts), Flags(m, Silent), silent.intent)
        /\ Decide(m, a).missing
             = Missing(m, others, Features(m, others), Flags(m, Silent), Decide(m, a).intent)
    BY <1>1, <2>1, DecisionParts
  <2> HIDE DEF facts, others, silent
  <2>4. /\ Features(m, others) = Features(m, facts)
        /\ \A acts, flags : Intent(m, others, acts, flags) = Intent(m, facts, acts, flags)
        /\ \A acts, flags, intent : Within(Missing(m, facts, acts, flags, intent),
                                           Missing(m, others, acts, flags, intent))
    BY <2>2, WindowsAside
  <2>5. Decide(m, a).intent = silent.intent
    BY <2>3, <2>4
  <2>6. Within(silent.missing, Decide(m, a).missing)
    BY <2>3, <2>4, <2>5
  <2> QED BY <1>3, <2>1, <2>3, <2>5, <2>6 DEF silent
<1> QED BY <1>2, <1>3

\* The conversation does not change while a message is decided, so neither does what would
\* be decided.
LEMMA DecisionStays ==
  ASSUME context' = context, NEW m, NEW a
  PROVE  Decide(m, a)' = Decide(m, a)
<1>1. ASSUME NEW facts PROVE Features(m, facts)' = Features(m, facts)
  BY DEF Features, Recently
<1>2. ASSUME NEW facts, NEW acts, NEW flags
      PROVE  Intent(m, facts, acts, flags)' = Intent(m, facts, acts, flags)
  <2>1. SupplementRows(m, facts, acts, flags)' = SupplementRows(m, facts, acts, flags)
    BY DEF SupplementRows, Recently
  <2> QED BY <2>1 DEF Intent
<1>3. ASSUME NEW facts
      PROVE  TimeIsActionable(m, facts)' = TimeIsActionable(m, facts)
  BY DEF TimeIsActionable, Recently
<1>4. ASSUME NEW facts PROVE Untimed(m, facts)' = Untimed(m, facts)
  BY <1>3 DEF Untimed
<1>5. ASSUME NEW facts, NEW intent
      PROVE  Undetailed(m, facts, intent)' = Undetailed(m, facts, intent)
  BY DEF Undetailed, Recently
<1>6. ASSUME NEW facts PROVE Unsupplied(m, facts)' = Unsupplied(m, facts)
  BY <1>4, <1>5 DEF Unsupplied, Recently
<1>7. ASSUME NEW facts, NEW acts
      PROVE  Unselected(m, facts, acts)' = Unselected(m, facts, acts)
  BY <1>4 DEF Unselected
<1>8. ASSUME NEW facts, NEW acts, NEW flags, NEW intent
      PROVE  Missing(m, facts, acts, flags, intent)' = Missing(m, facts, acts, flags, intent)
  BY <1>5, <1>6, <1>7 DEF Missing
<1> QED BY <1>1, <1>2, <1>8 DEF Decide

\* What is decided is what the tables say of some answer a model may give to the message.
DecidedByTables ==
  /\ message \in Messages
  /\ outcome.stage = "DECIDED" =>
        outcome = Decide(message, answer) /\ Possible(message, answer)

\* What is decided is what the tables say of an answer a model may give to this message.
THEOREM ByTables == RDSpec => []DecidedByTables
<1>1. RDInit => DecidedByTables
  BY DEF RDInit, Pending, DecidedByTables
<1>2. DecidedByTables /\ [RDNext]_RDVars => DecidedByTables'
  <2> SUFFICES ASSUME DecidedByTables, [RDNext]_RDVars PROVE DecidedByTables'
    OBVIOUS
  <2>1. PICK m : m = message /\ m = message'
    BY DEF RDNext, Extract, Unavailable, RDVars
  <2>2. context' = context
    BY DEF RDNext, Extract, Unavailable, RDVars
  <2>3. CASE Extract
    <3>1. PICK a \in Answers : /\ Possible(message, a) /\ answer' = a
                               /\ outcome' = Decide(message, a)
      BY <2>3 DEF Extract
    <3>2. Decide(m, a)' = Decide(m, a)
      BY <2>2, DecisionStays
    <3> QED BY <2>1, <3>1, <3>2 DEF DecidedByTables
  <2>4. CASE Unavailable
    BY <2>1, <2>4 DEF Unavailable, DecidedByTables
  <2>5. CASE UNCHANGED RDVars
    <3>1. PICK a : a = answer /\ a = answer'
      BY <2>5 DEF RDVars
    <3>2. Decide(m, a)' = Decide(m, a)
      BY <2>2, DecisionStays
    <3>3. outcome' = outcome
      BY <2>5 DEF RDVars
    <3> QED BY <2>1, <3>1, <3>2, <3>3 DEF DecidedByTables
  <2> QED BY <2>3, <2>4, <2>5 DEF RDNext
<1> QED BY <1>1, <1>2, PTL DEF RDSpec

\* A resident who asks for a person is handed to one, and nobody else, whatever the model
\* answers, whatever else the message says and whatever the conversation was about.
THEOREM HumanAlwaysHeardHolds == RDSpec => []HumanAlwaysHeard
<1>1. DecidedByTables => HumanAlwaysHeard
  BY HumanDecided DEF DecidedByTables, HumanAlwaysHeard, Decided
<1> QED BY <1>1, ByTables, PTL

\* The model can neither raise nor hush an alarm: the flags are those of the message alone,
\* and whoever is in danger is asked for nothing.
THEOREM AlarmFromMessageHolds == RDSpec => []AlarmFromMessage
<1>1. DecidedByTables => AlarmFromMessage
  <2> SUFFICES ASSUME DecidedByTables, Decided
               PROVE  /\ outcome.flags = Flags(message, Silent)
                      /\ message.dangers # {} => outcome.flags # {} /\ outcome.missing = {}
    BY DEF AlarmFromMessage
  <2> DEFINE facts == Normalized(message, answer)
             acts == Features(message, facts)
             flags == Flags(message, answer)
  <2>1. /\ outcome.flags = flags
        /\ \E intent : outcome.missing = Missing(message, facts, acts, flags, intent)
    BY DecisionParts DEF DecidedByTables, Decided
  <2>2. flags = Flags(message, Silent)
    BY DetectedAlone
  <2>3. message.dangers # {} => flags # {}
    BY DangerFlagged DEF DecidedByTables
  <2> HIDE DEF facts, acts, flags
  <2>4. flags # {} => outcome.missing = {}
    BY <2>1, NothingMissing
  <2> QED BY <2>1, <2>2, <2>3, <2>4
<1> QED BY <1>1, ByTables, PTL

\* Claims without evidence in the message decide nothing: the outcome is that of no claims
\* at all, but that made-up windows may have the resident asked for a time.  Unsupported
\* requests and verdicts are left out, as in the property.
THEOREM UnfoundedDecidesNothingHolds == RDSpec => []UnfoundedDecidesNothing
<1>1. DecidedByTables => UnfoundedDecidesNothing
  <2> SUFFICES ASSUME DecidedByTables, Decided,
                      Unfounded(Claimable \ {"unsupported", "ACCEPT", "REJECT"})
               PROVE  UnfoundedDecidesNothing
    BY DEF UnfoundedDecidesNothing
  <2>1. MadeUp(answer)
    BY DEF Unfounded, MadeUp
  <2>2. outcome = Decide(message, answer) /\ Decide(message, answer).stage = "DECIDED"
    BY DEF DecidedByTables, Decided
  <2> QED BY <2>1, <2>2, UnfoundedDecided DEF UnfoundedDecidesNothing, Within
<1> QED BY <1>1, ByTables, PTL

-----------------------------------------------------------------------------
(***************************************************************************)
(* The evaluation of a model.                                              *)
(***************************************************************************)
\* Every item has a place in the order.
LEMMA OrderCovers ==
  ASSUME NEW i \in Items
  PROVE  \E n \in DOMAIN Order : Order[n] = i
<1>1. PICK p \in 1..Len(Dataset), q \in 0..Repeats - 1 : i = <<Dataset[p], q>>
  BY EvaluationAssumption DEF Items, Range
<1>2. Len(Dataset) \in Nat /\ p \in Nat /\ 1 <= p /\ p <= Len(Dataset)
  BY EvaluationAssumption
<1> DEFINE n == (p - 1) * Repeats + q + 1
<1>3. Repeats \in {1, 2, 3, 4, 5} /\ q \in Nat /\ q < Repeats
  BY EvaluationAssumption
<1>4. n \in 1..Len(Dataset) * Repeats /\ (n - 1) \div Repeats = p - 1 /\ (n - 1) % Repeats = q
  <2> HIDE DEF n
  <2>1. CASE Repeats = 1
    BY <1>2, <1>3, <2>1 DEF n
  <2>2. CASE Repeats = 2
    BY <1>2, <1>3, <2>2 DEF n
  <2>3. CASE Repeats = 3
    BY <1>2, <1>3, <2>3 DEF n
  <2>4. CASE Repeats = 4
    BY <1>2, <1>3, <2>4 DEF n
  <2>5. CASE Repeats = 5
    BY <1>2, <1>3, <2>5 DEF n
  <2> QED BY <1>3, <2>1, <2>2, <2>3, <2>4, <2>5
<1> HIDE DEF n
<1>5. n \in DOMAIN Order /\ Order[n] = <<Dataset[1 + (p - 1)], q>>
  BY <1>4 DEF Order
<1>6. 1 + (p - 1) = p
  BY <1>2
<1> QED BY <1>1, <1>5, <1>6

\* What comes first among some items is one of them.
LEMMA FirstIsOne ==
  ASSUME NEW items, items \subseteq Items, items # {}
  PROVE  FirstOf(items) \in items
<1> DEFINE places == Places(items)
           first == CHOOSE n \in places : \A k \in places : n <= k
           last == Len(Dataset) * Repeats
<1>1. places # {}
  BY OrderCovers DEF Places
<1>2. last \in Nat /\ places \subseteq 1..last
  <2>1. Len(Dataset) \in Nat /\ Repeats \in {1, 2, 3, 4, 5}
    BY EvaluationAssumption
  <2>2. last \in Nat
    BY <2>1
  <2> QED BY <2>2 DEF Places, Order
<1> HIDE DEF last
<1>3. \E n \in places : \A k \in places : n <= k
  <2> HIDE DEF places
  <2> QED BY <1>1, <1>2, FirstExists
<1>4. first \in places
  <2> HIDE DEF places
  <2> QED BY <1>3
<1>5. FirstOf(items) = Order[first]
  BY DEF FirstOf
<1> HIDE DEF first
<1> QED BY <1>4, <1>5 DEF Places

LEMMA LeadingAre ==
  ASSUME NEW items, NEW many
  PROVE  Leading(items, many) \subseteq items
BY DEF Leading, Places

-----------------------------------------------------------------------------
(***************************************************************************)
(* The invariant of the run directory.  What is on disk is of the commit   *)
(* the manifest names; a process works on what it read, at first without   *)
(* and then beyond what is on disk; a summary, once written, is of the     *)
(* results beside it, and so is the summary an index was made over.        *)
(***************************************************************************)
Steps == {"NONE", "ARCHIVE", "KEEP", "PREPARED", "CASES", "FINAL", "SUMMARY", "GATE", "INDEX"}

\* Records with the columns of their files, and of the process.
IsManifest(x) == x = [status |-> x.status, commit |-> x.commit, dirty |-> x.dirty,
                      width |-> x.width, finished |-> x.finished]
IsDirectory(d) == d = [made |-> d.made, manifest |-> d.manifest, results |-> d.results,
                       torn |-> d.torn, history |-> d.history, summary |-> d.summary,
                       gate |-> d.gate, index |-> d.index]
IsProcess(c) == c = [step |-> c.step, manifest |-> c.manifest, results |-> c.results,
                     pending |-> c.pending, attempt |-> c.attempt, fresh |-> c.fresh,
                     width |-> c.width, fast |-> c.fast, source |-> c.source]
IsResults(x) == x = [i \in Items |-> x[i]]

FromCommit(x, commit) == \A i \in Present(x) : x[i].source.commit = commit
SummaryTells(s, x) ==
  /\ s.metrics = Metrics(x) /\ s.gate.passed = AbsoluteGate(Metrics(x), x)
  /\ FromCommit(x, s.manifest.commit)

Directory(d) ==
  /\ IsDirectory(d) /\ IsResults(d.results) /\ d.torn \in {"NO", "LAST", "MIDDLE"}
  /\ ~d.made => d.manifest = None /\ d.results = Unevaluated /\ d.torn = "NO"
  /\ d.manifest # None => IsManifest(d.manifest) /\ FromCommit(d.results, d.manifest.commit)
  /\ d.index # None => SummaryTells(d.index.summary, d.index.results)

Process(d, c) ==
  /\ IsProcess(c) /\ c.step \in Steps
  /\ c.step # "NONE" =>
       /\ IsResults(c.results) /\ IsManifest(c.manifest)
       /\ c.manifest.commit = c.source.commit /\ FromCommit(c.results, c.source.commit)
       /\ d.made /\ (d.manifest # None => d.manifest.commit = c.source.commit)
  /\ c.step \in {"ARCHIVE", "KEEP"} =>
       d.torn # "MIDDLE" /\ c.results = Readable(d)
  /\ c.step \in Steps \ {"NONE", "ARCHIVE", "KEEP"} => d.torn = "NO"
  /\ c.step \in {"ARCHIVE", "KEEP", "PREPARED"} => c.fresh = {}
  /\ c.step = "CASES" =>
       /\ c.pending \subseteq Items /\ c.fresh \subseteq Leading(c.pending, c.width)
       /\ Present(c.results) \cap (c.pending \ c.fresh) = {}
       /\ \A i \in Present(d.results) : c.results[i] = d.results[i]
  /\ c.step \in {"PREPARED", "FINAL", "SUMMARY", "GATE", "INDEX"} => c.results = d.results
  /\ c.step \in {"GATE", "INDEX"} => SummaryTells(d.summary, d.results)

EInv == Directory(disk) /\ Process(disk, run) /\ QualifiedIsWhole

\* A verdict on disk that changes is an infrastructure failure's, or a torn line's.
VerdictsKept ==
  \A i \in Items :
    disk'.results[i] # disk.results[i] /\ disk.results[i].outcome # None =>
      disk.results[i].outcome = "INFRA" \/ disk.torn = "LAST"

\* The directory and the process as they are, and nothing else that matters.
LEMMA EvaluationQuiet ==
  ASSUME EInv, UNCHANGED <<disk, baseline>>, Process(disk, run')
  PROVE  EInv' /\ VerdictsKept
<1>1. QualifiedIsWhole'
  <2>1. QualifiedIsWhole
    BY DEF EInv
  <2> QED BY <2>1 DEF QualifiedIsWhole
<1>2. Directory(disk')
  BY DEF EInv
<1> QED BY <1>1, <1>2 DEF EInv, VerdictsKept

\* A step that publishes nothing keeps what was published.
LEMMA PublishedStays ==
  ASSUME EInv, baseline' = baseline
  PROVE  QualifiedIsWhole'
<1>1. QualifiedIsWhole
  BY DEF EInv
<1> QED BY <1>1 DEF QualifiedIsWhole

LEMMA NoProcess == \A d : Process(d, NoRun)
BY DEF Process, NoRun, IsProcess, Steps

LEMMA NothingEvaluated ==
  IsResults(Unevaluated) /\ Present(Unevaluated) = {} /\ \A commit : FromCommit(Unevaluated, commit)
BY DEF IsResults, Unevaluated, Unanswered, Present, FromCommit

\* What can be read of a directory is what is there, less a line that is torn.
LEMMA ReadableIs ==
  ASSUME NEW d, IsResults(d.results)
  PROVE  /\ IsResults(Readable(d))
         /\ \A i \in Items : Readable(d)[i] \in {d.results[i], Unanswered}
         /\ d.torn = "NO" => Readable(d) = d.results
         /\ \A commit : FromCommit(d.results, commit) => FromCommit(Readable(d), commit)
<1>1. IsResults(Readable(d)) /\ \A i \in Items : Readable(d)[i] \in {d.results[i], Unanswered}
  BY DEF Readable, IsResults
<1>2. ASSUME NEW commit, FromCommit(d.results, commit), NEW i \in Present(Readable(d))
      PROVE  Readable(d)[i].source.commit = commit
  BY <1>1, <1>2 DEF FromCommit, Present, Unanswered
<1>3. d.torn = "NO" => Readable(d) = d.results
  BY DEF Readable
<1> QED BY <1>1, <1>2, <1>3 DEF FromCommit

-----------------------------------------------------------------------------
LEMMA StartKeeps ==
  ASSUME EInv, NEW width, NEW fast, NEW allow_dirty, Start(width, fast, allow_dirty)
  PROVE  EInv' /\ VerdictsKept
<1>1. /\ run.step = "NONE" /\ ~disk.made /\ disk' = [disk EXCEPT !.made = TRUE]
      /\ baseline' = baseline
      /\ \/ run' = NoRun
         \/ run' = [NoRun EXCEPT !.step = "PREPARED", !.width = width, !.fast = fast,
                      !.source = source,
                      !.manifest = [status |-> "RUNNING", commit |-> source.commit,
                                    dirty |-> source.dirty, width |-> width, finished |-> 0]]
  BY DEF Start, At, Outside
<1>2. /\ IsDirectory(disk') /\ disk'.made /\ disk'.results = disk.results
      /\ disk'.manifest = disk.manifest /\ disk'.torn = disk.torn /\ disk'.index = disk.index
  BY <1>1 DEF EInv, Directory, IsDirectory
<1>3. disk.manifest = None /\ disk.results = Unevaluated /\ disk.torn = "NO"
  BY <1>1 DEF EInv, Directory
<1>4. Directory(disk')
  BY <1>2, <1>3 DEF EInv, Directory
<1>5. Process(disk', run')
  <2>1. CASE run' = NoRun
    BY <2>1, NoProcess
  <2>2. CASE run' # NoRun
    <3> DEFINE begun == [status |-> "RUNNING", commit |-> source.commit,
                         dirty |-> source.dirty, width |-> width, finished |-> 0]
    <3>2. IsManifest(begun) /\ begun.commit = source.commit
      BY DEF IsManifest
    <3>3. run' = [NoRun EXCEPT !.step = "PREPARED", !.width = width, !.fast = fast,
                    !.source = source, !.manifest = begun]
      BY <1>1, <2>2
    <3> HIDE DEF begun
    <3>1. /\ IsProcess(run') /\ run'.step = "PREPARED" /\ run'.results = Unevaluated
          /\ run'.fresh = {} /\ run'.source = source
          /\ IsManifest(run'.manifest) /\ run'.manifest.commit = source.commit
      BY <3>2, <3>3 DEF IsProcess, NoRun
    <3> QED BY <1>2, <1>3, <3>1, NothingEvaluated DEF Process, Steps
  <2> QED BY <2>1, <2>2
<1> QED BY <1>1, <1>2, <1>4, <1>5, PublishedStays DEF EInv, VerdictsKept

LEMMA ResumeKeeps ==
  ASSUME EInv, NEW width, NEW fast, NEW allow_dirty, Resume(width, fast, allow_dirty)
  PROVE  EInv' /\ VerdictsKept
<1>1. /\ disk' = [disk EXCEPT !.made = TRUE] /\ baseline' = baseline
      /\ \/ run' = NoRun
         \/ /\ MayResume(allow_dirty)
            /\ run' = [NoRun EXCEPT !.step = "ARCHIVE", !.width = width, !.fast = fast,
                    !.source = source, !.results = Readable(disk),
                    !.manifest = [disk.manifest EXCEPT !.status = "RUNNING", !.finished = 0,
                                                       !.width = width]]
  BY DEF Resume, Outside
<1>2. /\ IsDirectory(disk') /\ disk'.made /\ disk'.results = disk.results
      /\ disk'.manifest = disk.manifest /\ disk'.torn = disk.torn /\ disk'.index = disk.index
  BY <1>1 DEF EInv, Directory, IsDirectory
<1>3. Directory(disk')
  BY <1>2 DEF EInv, Directory
<1>4. Process(disk', run')
  <2>1. CASE run' = NoRun
    BY <2>1, NoProcess
  <2>2. CASE run' # NoRun
    <3>1. /\ disk.manifest # None /\ disk.torn # "MIDDLE" /\ disk.manifest.commit = source.commit
      BY <1>1, <2>2 DEF MayResume
    <3>2. IsManifest(disk.manifest) /\ FromCommit(disk.results, source.commit) /\ IsResults(disk.results)
      BY <3>1 DEF EInv, Directory
    <3>3. /\ IsProcess(run') /\ run'.step = "ARCHIVE" /\ run'.results = Readable(disk)
          /\ run'.fresh = {} /\ run'.source = source
          /\ run'.manifest = [disk.manifest EXCEPT !.status = "RUNNING", !.finished = 0,
                                                   !.width = width]
      BY <1>1, <2>2 DEF IsProcess, NoRun
    <3>4. IsManifest(run'.manifest) /\ run'.manifest.commit = source.commit
      BY <3>1, <3>2, <3>3 DEF IsManifest
    <3>5. IsResults(run'.results) /\ FromCommit(run'.results, source.commit)
      BY <3>2, <3>3, ReadableIs
    <3>6. Readable(disk') = Readable(disk)
      BY <1>2 DEF Readable
    <3> QED BY <1>2, <3>1, <3>3, <3>4, <3>5, <3>6 DEF Process, Steps
  <2> QED BY <2>1, <2>2
<1> QED BY <1>1, <1>2, <1>3, <1>4, PublishedStays DEF EInv, VerdictsKept

LEMMA ArchiveKeeps ==
  ASSUME EInv, Archive
  PROVE  EInv' /\ VerdictsKept
<1>1. /\ run.step = "ARCHIVE" /\ run' = [run EXCEPT !.step = "KEEP"] /\ baseline' = baseline
      /\ disk' = [disk EXCEPT !.history =
           @ \cup {[item |-> i, result |-> run.results[i]] : i \in Retryable(run.results)}]
  BY DEF Archive, At, GoTo, Quietly
<1>2. /\ IsDirectory(disk') /\ disk'.made = disk.made /\ disk'.results = disk.results
      /\ disk'.manifest = disk.manifest /\ disk'.torn = disk.torn /\ disk'.index = disk.index
  BY <1>1 DEF EInv, Directory, IsDirectory
<1>3. Directory(disk')
  BY <1>2 DEF EInv, Directory
<1>4. /\ IsProcess(run') /\ run'.step = "KEEP" /\ run'.results = run.results
      /\ run'.fresh = run.fresh /\ run'.source = run.source /\ run'.manifest = run.manifest
  BY <1>1 DEF EInv, Process, IsProcess
<1>5. Readable(disk') = Readable(disk)
  BY <1>2 DEF Readable
<1>6. Process(disk', run')
  BY <1>1, <1>2, <1>4, <1>5 DEF EInv, Process, Steps
<1> QED BY <1>1, <1>2, <1>3, <1>6, PublishedStays DEF EInv, VerdictsKept

LEMMA KeepKeeps ==
  ASSUME EInv, Keep
  PROVE  EInv' /\ VerdictsKept
<1> DEFINE kept == [i \in Items |-> IF i \in Retryable(run.results) THEN Unanswered
                                    ELSE run.results[i]]
<1>1. /\ run.step = "KEEP" /\ run' = [run EXCEPT !.step = "PREPARED", !.results = kept]
      /\ disk' = [disk EXCEPT !.results = kept, !.torn = "NO"] /\ baseline' = baseline
  BY DEF Keep, At, Quietly
<1>2. /\ disk.made /\ disk.torn # "MIDDLE" /\ run.results = Readable(disk)
      /\ disk.manifest # None => disk.manifest.commit = run.source.commit
      /\ FromCommit(run.results, run.source.commit)
  BY <1>1 DEF EInv, Process, Steps
<1>3. IsResults(kept) /\ FromCommit(kept, run.source.commit)
  BY <1>2 DEF IsResults, FromCommit, Present, Unanswered
<1>4. \A i \in Items : kept[i] # disk.results[i] /\ disk.results[i].outcome # None =>
        disk.results[i].outcome = "INFRA" \/ disk.torn = "LAST"
  <2>1. CASE disk.torn = "NO"
    <3>1. run.results = disk.results
      BY <1>2, <2>1 DEF Readable
    <3> QED BY <3>1 DEF Retryable, With
  <2>2. CASE disk.torn # "NO"
    BY <1>2, <2>2 DEF EInv, Directory
  <2> QED BY <2>1, <2>2
<1> HIDE DEF kept
<1>5. /\ IsDirectory(disk') /\ disk'.made = disk.made /\ disk'.results = kept
      /\ disk'.manifest = disk.manifest /\ disk'.torn = "NO" /\ disk'.index = disk.index
  BY <1>1 DEF EInv, Directory, IsDirectory
<1>6. Directory(disk')
  BY <1>2, <1>3, <1>5 DEF EInv, Directory
<1>7. /\ IsProcess(run') /\ run'.step = "PREPARED" /\ run'.results = kept
      /\ run'.fresh = run.fresh /\ run'.source = run.source /\ run'.manifest = run.manifest
  BY <1>1 DEF EInv, Process, IsProcess
<1>8. Process(disk', run')
  BY <1>1, <1>2, <1>3, <1>5, <1>7 DEF EInv, Process, Steps
<1> QED BY <1>1, <1>4, <1>5, <1>6, <1>8, PublishedStays DEF EInv, VerdictsKept

LEMMA PrepareKeeps ==
  ASSUME EInv, Prepare
  PROVE  EInv' /\ VerdictsKept
<1> DEFINE left == Items \ Present(run.results)
           step == IF left = {} THEN "FINAL" ELSE "CASES"
<1>1. /\ run.step = "PREPARED" /\ disk' = [disk EXCEPT !.manifest = run.manifest]
      /\ run' = [run EXCEPT !.pending = left, !.step = step]
      /\ baseline' = baseline
  BY DEF Prepare, At, Quietly
<1>2. step \in {"FINAL", "CASES"} /\ left \subseteq Items /\ Present(run.results) \cap left = {}
  OBVIOUS
<1> HIDE DEF left, step
<1>3. /\ IsManifest(run.manifest) /\ FromCommit(run.results, run.source.commit)
      /\ run.manifest.commit = run.source.commit /\ run.results = disk.results
      /\ disk.torn = "NO" /\ disk.made /\ run.fresh = {} /\ IsResults(run.results)
  BY <1>1 DEF EInv, Process, Steps
<1>4. /\ IsDirectory(disk') /\ disk'.made = disk.made /\ disk'.results = disk.results
      /\ disk'.manifest = run.manifest /\ disk'.torn = disk.torn /\ disk'.index = disk.index
  BY <1>1 DEF EInv, Directory, IsDirectory
<1>5. Directory(disk')
  BY <1>3, <1>4 DEF EInv, Directory
<1>6. /\ IsProcess(run') /\ run'.step = step /\ run'.results = run.results
      /\ run'.pending = left /\ run'.width = run.width
      /\ run'.fresh = run.fresh /\ run'.source = run.source /\ run'.manifest = run.manifest
  BY <1>1 DEF EInv, Process, IsProcess
<1>7. Process(disk', run')
  BY <1>2, <1>3, <1>4, <1>6 DEF Process, Steps
<1> QED BY <1>1, <1>4, <1>5, <1>7, PublishedStays DEF EInv, VerdictsKept

LEMMA JudgeKeeps ==
  ASSUME EInv, NEW verdict \in Outcomes, Judge(verdict)
  PROVE  EInv' /\ VerdictsKept
<1> DEFINE it == FirstOf(Waiting)
           new == [outcome |-> verdict, start |-> starts, source |-> run.source]
<1>1. run.step = "CASES" /\ Waiting # {} /\ UNCHANGED <<disk, baseline>>
  BY DEF Judge, At, Quietly
<1>2. /\ run.pending \subseteq Items /\ run.fresh \subseteq Leading(run.pending, run.width)
      /\ Present(run.results) \cap (run.pending \ run.fresh) = {}
      /\ \A i \in Present(disk.results) : run.results[i] = disk.results[i]
      /\ IsResults(run.results) /\ FromCommit(run.results, run.source.commit)
      /\ IsProcess(run)
  BY <1>1 DEF EInv, Process, Steps
<1>3. it \in Leading(run.pending, run.width) /\ it \in run.pending \ run.fresh /\ it \in Items
  <2>1. Waiting \subseteq Items
    BY <1>2, LeadingAre DEF Waiting, Batch
  <2>2. it \in Waiting
    BY <1>1, <2>1, FirstIsOne
  <2> HIDE DEF it
  <2> QED BY <1>2, <2>2, LeadingAre DEF Waiting, Batch
<1> HIDE DEF it
<1>4. CASE run' = [run EXCEPT !.attempt = @ + 1]
  <2>1. /\ IsProcess(run') /\ run'.step = run.step /\ run'.results = run.results
        /\ run'.pending = run.pending /\ run'.width = run.width /\ run'.fresh = run.fresh
        /\ run'.source = run.source /\ run'.manifest = run.manifest
    BY <1>2, <1>4 DEF IsProcess
  <2>2. Process(disk, run')
    BY <2>1 DEF EInv, Process
  <2> QED BY <1>1, <2>2, EvaluationQuiet
<1>5. CASE run' = [run EXCEPT !.attempt = 1, !.fresh = @ \cup {it}, !.results[it] = new]
  <2>1. new.source = run.source
    OBVIOUS
  <2> HIDE DEF new
  <2> DEFINE judged == [run.results EXCEPT ![it] = new]
  <2>2. judged = [i \in Items |-> IF i = it THEN new ELSE run.results[i]]
    BY <1>2, <1>3 DEF IsResults
  <2>3. run' = [run EXCEPT !.attempt = 1, !.fresh = @ \cup {it}, !.results = judged]
    BY <1>2, <1>5 DEF IsProcess
  <2> HIDE DEF judged
  <2>4. /\ IsProcess(run') /\ run'.step = run.step /\ run'.results = judged
        /\ run'.pending = run.pending /\ run'.width = run.width
        /\ run'.fresh = run.fresh \cup {it}
        /\ run'.source = run.source /\ run'.manifest = run.manifest
    BY <1>2, <2>3 DEF IsProcess
  <2>5. IsResults(judged) /\ FromCommit(judged, run.source.commit)
    BY <1>2, <2>1, <2>2 DEF IsResults, FromCommit, Present
  <2>6. /\ run'.fresh \subseteq Leading(run'.pending, run'.width)
        /\ Present(judged) \cap (run'.pending \ run'.fresh) = {}
    BY <1>2, <1>3, <2>2, <2>4 DEF Present
  <2>7. ASSUME NEW i \in Present(disk.results) PROVE judged[i] = disk.results[i]
    <3>1. i \in Items /\ run.results[i] = disk.results[i] /\ i \in Present(run.results)
      BY <1>2 DEF Present
    <3>2. i # it
      BY <1>2, <1>3, <3>1
    <3> QED BY <2>2, <3>1, <3>2
  <2>8. Process(disk, run')
    BY <1>1, <1>2, <2>4, <2>5, <2>6, <2>7 DEF EInv, Process, Steps
  <2> QED BY <1>1, <2>8, EvaluationQuiet
<1> QED BY <1>4, <1>5 DEF Judge, it, new

LEMMA WriteResultsKeeps ==
  ASSUME EInv, WriteResults
  PROVE  EInv' /\ VerdictsKept
<1> DEFINE left == run.pending \ Batch
           stop == run.fast /\ Batch \ Passed(run.results) # {}
           step == IF left = {} \/ stop THEN "FINAL" ELSE "CASES"
<1>1. /\ run.step = "CASES" /\ Waiting = {} /\ baseline' = baseline
      /\ disk' = [disk EXCEPT !.results = run.results, !.torn = "NO"]
      /\ run' = [run EXCEPT !.pending = left, !.fresh = {}, !.step = step]
  BY DEF WriteResults, At, Quietly
<1>2. step \in {"FINAL", "CASES"}
  OBVIOUS
<1>3. /\ run.pending \subseteq Items /\ run.fresh \subseteq Leading(run.pending, run.width)
      /\ Present(run.results) \cap (run.pending \ run.fresh) = {}
      /\ \A i \in Present(disk.results) : run.results[i] = disk.results[i]
      /\ IsResults(run.results) /\ FromCommit(run.results, run.source.commit)
      /\ IsProcess(run) /\ disk.torn = "NO" /\ disk.made
      /\ disk.manifest # None => disk.manifest.commit = run.source.commit
      /\ IsManifest(run.manifest) /\ run.manifest.commit = run.source.commit
  BY <1>1 DEF EInv, Process, Steps
<1>4. left \subseteq Items /\ Present(run.results) \cap left = {}
  <2>1. Batch \subseteq run.fresh /\ run.fresh \subseteq Batch
    BY <1>1, <1>3 DEF Waiting, Batch
  <2> QED BY <1>3, <2>1
<1> HIDE DEF left, step
<1>5. /\ IsDirectory(disk') /\ disk'.made = disk.made /\ disk'.results = run.results
      /\ disk'.manifest = disk.manifest /\ disk'.torn = "NO" /\ disk'.index = disk.index
  BY <1>1 DEF EInv, Directory, IsDirectory
<1>6. Directory(disk')
  BY <1>3, <1>5 DEF EInv, Directory
<1>7. /\ IsProcess(run') /\ run'.step = step /\ run'.results = run.results
      /\ run'.pending = left /\ run'.width = run.width /\ run'.fresh = {}
      /\ run'.source = run.source /\ run'.manifest = run.manifest
  BY <1>1, <1>3 DEF IsProcess
<1>8. Process(disk', run')
  BY <1>2, <1>3, <1>4, <1>5, <1>7 DEF Process, Steps
<1>9. VerdictsKept
  BY <1>3, <1>5 DEF VerdictsKept, Present
<1> QED BY <1>1, <1>6, <1>8, <1>9, PublishedStays DEF EInv

\* A manifest with another status, or another end, is one of the same commit.
LEMMA Stamped ==
  ASSUME NEW m, IsManifest(m), NEW value
  PROVE  /\ IsManifest([m EXCEPT !.status = value])
         /\ [m EXCEPT !.status = value].commit = m.commit
         /\ IsManifest([m EXCEPT !.finished = value])
         /\ [m EXCEPT !.finished = value].commit = m.commit
BY DEF IsManifest

LEMMA AbandonKeeps ==
  ASSUME EInv, Abandon
  PROVE  EInv' /\ VerdictsKept
<1>1. PICK status : /\ run.step = "CASES" /\ run' = NoRun /\ baseline' = baseline
                    /\ disk' = [disk EXCEPT !.manifest = [run.manifest EXCEPT
                                              !.status = status, !.finished = starts]]
  BY DEF Abandon, At, Exit, Outside
<1> DEFINE last == [run.manifest EXCEPT !.status = status, !.finished = starts]
<1>2. /\ IsManifest(run.manifest) /\ run.manifest.commit = run.source.commit /\ disk.made
      /\ FromCommit(run.results, run.source.commit)
      /\ \A i \in Present(disk.results) : run.results[i] = disk.results[i]
  BY <1>1 DEF EInv, Process, Steps
<1>3. IsManifest(last) /\ last.commit = run.source.commit
  <2> DEFINE half == [run.manifest EXCEPT !.status = status]
  <2>1. IsManifest(half) /\ half.commit = run.source.commit
    BY <1>2, Stamped
  <2> HIDE DEF half
  <2>2. IsManifest([half EXCEPT !.finished = starts])
        /\ [half EXCEPT !.finished = starts].commit = run.source.commit
    BY <2>1, Stamped
  <2> QED BY <2>2 DEF half
<1> HIDE DEF last
<1>4. /\ IsDirectory(disk') /\ disk'.made = disk.made /\ disk'.results = disk.results
      /\ disk'.manifest = last /\ disk'.torn = disk.torn /\ disk'.index = disk.index
  BY <1>1 DEF EInv, Directory, IsDirectory, last
<1>5. FromCommit(disk.results, last.commit)
  BY <1>2, <1>3 DEF FromCommit, Present
<1>6. Directory(disk')
  BY <1>2, <1>3, <1>4, <1>5 DEF EInv, Directory
<1> QED BY <1>1, <1>4, <1>6, NoProcess, PublishedStays DEF EInv, VerdictsKept

\* What the manifest says in the end is of the same commit.
LEMMA FinalTells ==
  ASSUME IsManifest(run.manifest)
  PROVE  IsManifest(Final) /\ Final.commit = run.manifest.commit
<1> DEFINE half == [run.manifest EXCEPT !.finished = starts]
           status == IF Cardinality(Present(run.results)) = Cardinality(Items)
                     THEN "COMPLETED" ELSE "INCOMPLETE"
<1>1. IsManifest(half) /\ half.commit = run.manifest.commit
  BY Stamped
<1> HIDE DEF half, status
<1>2. IsManifest([half EXCEPT !.status = status])
      /\ [half EXCEPT !.status = status].commit = run.manifest.commit
  BY <1>1, Stamped
<1> QED BY <1>2 DEF Final, half, status

\* The steps of the report read results and manifest and leave them.
LEMMA Reporting ==
  ASSUME EInv, run.step \in {"FINAL", "SUMMARY", "GATE", "INDEX"}
  PROVE  /\ IsManifest(run.manifest) /\ run.manifest.commit = run.source.commit
         /\ IsManifest(Final) /\ Final.commit = run.source.commit
         /\ run.results = disk.results /\ disk.torn = "NO" /\ disk.made
         /\ disk.manifest # None => disk.manifest.commit = run.source.commit
         /\ FromCommit(disk.results, run.source.commit)
BY FinalTells DEF EInv, Process, Steps

LEMMA WriteFinalManifestKeeps ==
  ASSUME EInv, WriteFinalManifest
  PROVE  EInv' /\ VerdictsKept
<1>1. /\ run.step = "FINAL" /\ run' = [run EXCEPT !.step = "SUMMARY"] /\ baseline' = baseline
      /\ disk' = [disk EXCEPT !.manifest = Final]
  BY DEF WriteFinalManifest, At, GoTo, Quietly
<1>2. /\ IsDirectory(disk') /\ disk'.made = disk.made /\ disk'.results = disk.results
      /\ disk'.manifest = Final /\ disk'.torn = disk.torn /\ disk'.index = disk.index
  BY <1>1 DEF EInv, Directory, IsDirectory
<1>3. Directory(disk')
  BY <1>1, <1>2, Reporting DEF EInv, Directory
<1>4. /\ IsProcess(run') /\ run'.step = "SUMMARY" /\ run'.results = run.results
      /\ run'.source = run.source /\ run'.manifest = run.manifest
  BY <1>1 DEF EInv, Process, IsProcess
<1>5. Process(disk', run')
  BY <1>1, <1>2, <1>4, Reporting DEF EInv, Process, Steps
<1> QED BY <1>1, <1>2, <1>3, <1>5, PublishedStays DEF EInv, VerdictsKept

LEMMA WriteSummaryKeeps ==
  ASSUME EInv, WriteSummary
  PROVE  EInv' /\ VerdictsKept
<1> DEFINE told == [manifest |-> Final, metrics |-> Metrics(run.results), gate |-> Gate]
<1>1. /\ run.step = "SUMMARY" /\ run' = [run EXCEPT !.step = "GATE"] /\ baseline' = baseline
      /\ disk' = [disk EXCEPT !.summary = told]
  BY DEF WriteSummary, At, GoTo, Quietly
<1>2. SummaryTells(told, disk.results)
  BY <1>1, Reporting DEF SummaryTells, Gate
<1> HIDE DEF told
<1>3. /\ IsDirectory(disk') /\ disk'.made = disk.made /\ disk'.results = disk.results
      /\ disk'.manifest = disk.manifest /\ disk'.torn = disk.torn /\ disk'.index = disk.index
      /\ disk'.summary = told
  BY <1>1 DEF EInv, Directory, IsDirectory
<1>4. Directory(disk')
  BY <1>3 DEF EInv, Directory
<1>5. /\ IsProcess(run') /\ run'.step = "GATE" /\ run'.results = run.results
      /\ run'.source = run.source /\ run'.manifest = run.manifest
  BY <1>1 DEF EInv, Process, IsProcess
<1>6. Process(disk', run')
  BY <1>1, <1>2, <1>3, <1>5, Reporting DEF EInv, Process, Steps
<1> QED BY <1>1, <1>3, <1>4, <1>6, PublishedStays DEF EInv, VerdictsKept

LEMMA WriteGateKeeps ==
  ASSUME EInv, WriteGate
  PROVE  EInv' /\ VerdictsKept
<1>1. /\ run.step = "GATE" /\ run' = [run EXCEPT !.step = "INDEX"] /\ baseline' = baseline
      /\ disk' = [disk EXCEPT !.gate = Gate]
  BY DEF WriteGate, At, GoTo, Quietly
<1>2. /\ IsDirectory(disk') /\ disk'.made = disk.made /\ disk'.results = disk.results
      /\ disk'.manifest = disk.manifest /\ disk'.torn = disk.torn /\ disk'.index = disk.index
      /\ disk'.summary = disk.summary
  BY <1>1 DEF EInv, Directory, IsDirectory
<1>3. Directory(disk')
  BY <1>2 DEF EInv, Directory
<1>4. /\ IsProcess(run') /\ run'.step = "INDEX" /\ run'.results = run.results
      /\ run'.source = run.source /\ run'.manifest = run.manifest
  BY <1>1 DEF EInv, Process, IsProcess
<1>5. Process(disk', run')
  BY <1>1, <1>2, <1>4, Reporting DEF EInv, Process, Steps
<1> QED BY <1>1, <1>2, <1>3, <1>5, PublishedStays DEF EInv, VerdictsKept

LEMMA WriteIndexKeeps ==
  ASSUME EInv, WriteIndex
  PROVE  EInv' /\ VerdictsKept
<1>1. /\ run.step = "INDEX" /\ run' = NoRun /\ baseline' = baseline
      /\ disk' = [disk EXCEPT !.index = Hashed(disk)]
  BY DEF WriteIndex, At, Exit, Quietly
<1>2. /\ IsDirectory(disk') /\ disk'.made = disk.made /\ disk'.results = disk.results
      /\ disk'.manifest = disk.manifest /\ disk'.torn = disk.torn
      /\ disk'.index.summary = disk.summary /\ disk'.index.results = disk.results
  BY <1>1 DEF EInv, Directory, IsDirectory, Hashed
<1>3. SummaryTells(disk.summary, disk.results)
  BY <1>1 DEF EInv, Process
<1>4. Directory(disk')
  BY <1>2, <1>3 DEF EInv, Directory
<1> QED BY <1>1, <1>2, <1>4, NoProcess, PublishedStays DEF EInv, VerdictsKept

LEMMA DamageKeeps ==
  ASSUME EInv, Damage
  PROVE  EInv' /\ VerdictsKept
<1>1. PICK where \in {"LAST", "MIDDLE"} : disk' = [disk EXCEPT !.torn = where]
  BY DEF Damage
<1>2. run.step = "NONE" /\ run' = run /\ baseline' = baseline /\ Present(disk.results) # {}
  BY DEF Damage, At, Outside
<1>3. /\ IsDirectory(disk') /\ disk'.made = disk.made /\ disk'.results = disk.results
      /\ disk'.manifest = disk.manifest /\ disk'.torn = where /\ disk'.index = disk.index
  BY <1>1 DEF EInv, Directory, IsDirectory
<1>4. disk.made
  BY <1>2, NothingEvaluated DEF EInv, Directory
<1>5. Directory(disk')
  BY <1>3, <1>4 DEF EInv, Directory
<1>6. Process(disk', run')
  BY <1>2, <1>3 DEF EInv, Process, Steps
<1> QED BY <1>2, <1>3, <1>5, <1>6, PublishedStays DEF EInv, VerdictsKept

\* A subset with as many members is the whole.
LEMMA AllOfThem ==
  ASSUME NEW S, NEW T, IsFiniteSet(T), S \subseteq T, Cardinality(S) = Cardinality(T)
  PROVE  S = T
BY FS_Subset, SMT

\* What is left of a set without some of its members is smaller by as many.
LEMMA PartOf ==
  ASSUME NEW S, NEW T, IsFiniteSet(T), S \subseteq T
  PROVE  /\ Cardinality(S) \in Nat /\ Cardinality(T) \in Nat
         /\ Cardinality(T \ S) = Cardinality(T) - Cardinality(S)
<1>1. T \cap S = S
  OBVIOUS
<1>2. IsFiniteSet(S)
  BY FS_Subset
<1>3. Cardinality(T \ S) = Cardinality(T) - Cardinality(T \cap S)
  BY FS_Difference
<1> QED BY <1>1, <1>2, <1>3, FS_CardinalityType

LEMMA PublishBaselineKeeps ==
  ASSUME EInv, PublishBaseline
  PROVE  EInv' /\ VerdictsKept
<1>1. /\ Verified(disk) /\ Qualified(disk) /\ UNCHANGED <<disk, run>>
      /\ baseline' = [manifest |-> disk.summary.manifest, gate |-> disk.summary.gate,
                      outcomes |-> disk.results]
  BY DEF PublishBaseline
<1> DEFINE x == disk.results
<1>2. SummaryTells(disk.summary, x)
  <2>1. /\ disk.index # None
        /\ disk.index.summary = disk.summary /\ disk.index.results = x
    BY <1>1 DEF Verified, Hashed
  <2> QED BY <2>1 DEF EInv, Directory
<1>3. /\ Present(x) = Items /\ Cardinality(Completed(x)) = Cardinality(Items)
      /\ AbsoluteGate(Metrics(x), x)
  BY <1>1, <1>2 DEF Qualified, Complete, SummaryTells, Metrics
<1>4. \A i \in Items : x[i].source.commit = Qualifiable
  BY <1>1, <1>2, <1>3 DEF Qualified, IdentityPassed, SummaryTells, FromCommit
<1>5. IsFiniteSet(Range(Dataset))
  <2>1. Len(Dataset) \in Nat /\ DOMAIN Dataset = 1..Len(Dataset)
    BY EvaluationAssumption
  <2>2. IsFiniteSet(DOMAIN Dataset)
    BY <2>1, FS_Interval
  <2>3. Dataset \in Surjection(DOMAIN Dataset, Range(Dataset))
    BY EvaluationAssumption DEF Surjection, Range
  <2> QED BY <2>2, <2>3, FS_Surjection
<1>6. IsFiniteSet(Items)
  <2>1. IsFiniteSet(0..Repeats - 1)
    BY EvaluationAssumption, FS_Interval
  <2> QED BY <1>5, <2>1, FS_Product DEF Items
<1>7. Completed(x) = Items
  BY <1>3, <1>6, AllOfThem DEF Completed, Present
<1>8. /\ 100 * Cardinality(Right(x, "intent")) >= Policy.intent * Cardinality(Items)
      /\ Grave(x) = {}
  BY <1>3 DEF AbsoluteGate, AtLeast, Metrics
<1> DEFINE cases == {i[1] : i \in Present(x)}
           Steadily(among, field, percent) ==
             /\ among # {}
             /\ 100 * Cardinality(among \ Wavering(x, field)) >= percent * Cardinality(among)
<1>9. cases = Range(Dataset)
  <2>1. 0 \in 0..Repeats - 1
    BY EvaluationAssumption
  <2>2. \A case \in Range(Dataset) : <<case, 0>> \in Items
    BY <2>1 DEF Items
  <2>3. \A i \in Items : i[1] \in Range(Dataset)
    BY DEF Items
  <2>4. \A case \in Range(Dataset) : <<case, 0>> \in Present(x) /\ <<case, 0>>[1] = case
    BY <1>3, <2>2
  <2> QED BY ONLY <1>3, <2>3, <2>4
<1>10. Steadily(cases, "intent", 98) /\ Steadily(cases \cap Critical, "safety", 100)
  BY <1>1, Zenon DEF Qualified, Stable
<1>11. 50 * Cardinality(Wavering(x, "intent")) <= Cardinality(Range(Dataset))
  <2>1. /\ Cardinality(Wavering(x, "intent")) \in Nat /\ Cardinality(Range(Dataset)) \in Nat
        /\ Cardinality(Range(Dataset) \ Wavering(x, "intent"))
             = Cardinality(Range(Dataset)) - Cardinality(Wavering(x, "intent"))
    BY <1>5, PartOf DEF Wavering
  <2>2. 100 * Cardinality(Range(Dataset) \ Wavering(x, "intent")) >= 98 * Cardinality(Range(Dataset))
    BY <1>9, <1>10
  <2> QED BY ONLY <2>1, <2>2
<1>12. Wavering(x, "safety") \cap Critical = {}
  <2> DEFINE among == Range(Dataset) \cap Critical
             wavering == among \cap Wavering(x, "safety")
  <2>1. IsFiniteSet(among)
    BY <1>5, FS_Subset
  <2>2. among \ Wavering(x, "safety") = among \ wavering
    OBVIOUS
  <2>3. 100 * Cardinality(among \ wavering) >= 100 * Cardinality(among)
    BY <1>9, <1>10, <2>2
  <2>4. /\ Cardinality(among) \in Nat /\ Cardinality(wavering) \in Nat
        /\ Cardinality(among \ wavering) = Cardinality(among) - Cardinality(wavering)
    BY <2>1, PartOf
  <2>5. Cardinality(wavering) = 0
    BY ONLY <2>3, <2>4
  <2>6. wavering = {}
    BY <2>1, <2>5, FS_Subset, FS_EmptySet
  <2>7. Wavering(x, "safety") \subseteq Range(Dataset)
    BY DEF Wavering
  <2> QED BY <2>6, <2>7
<1>13. baseline'.outcomes = x
  BY <1>1
<1> HIDE DEF x, cases, Steadily
<1>14. QualifiedIsWhole'
  BY <1>4, <1>7, <1>8, <1>11, <1>12, <1>13 DEF QualifiedIsWhole
<1>15. Directory(disk') /\ Process(disk', run')
  BY <1>1 DEF EInv
<1> QED BY <1>1, <1>14, <1>15 DEF EInv, VerdictsKept

LEMMA EvaluationStep == EInv /\ [EVNext]_EVVars => EInv' /\ VerdictsKept
<1> SUFFICES ASSUME EInv, [EVNext]_EVVars PROVE EInv' /\ VerdictsKept
  OBVIOUS
<1>1. CASE \E width \in 1..2, fast, allow_dirty \in BOOLEAN :
             Start(width, fast, allow_dirty) \/ Resume(width, fast, allow_dirty)
  BY <1>1, StartKeeps, ResumeKeeps
<1>2. CASE Archive \/ Keep \/ Prepare
  BY <1>2, ArchiveKeeps, KeepKeeps, PrepareKeeps
<1>3. CASE \E verdict \in Outcomes : Judge(verdict)
  BY <1>3, JudgeKeeps
<1>4. CASE WriteResults \/ Abandon
  BY <1>4, WriteResultsKeeps, AbandonKeeps
<1>5. CASE WriteFinalManifest \/ WriteSummary \/ WriteGate \/ WriteIndex
  BY <1>5, WriteFinalManifestKeeps, WriteSummaryKeeps, WriteGateKeeps, WriteIndexKeeps
<1>6. CASE PublishBaseline
  BY <1>6, PublishBaselineKeeps
<1>7. CASE PublishCandidate \/ EditSource \/ UNCHANGED EVVars
  <2>1. UNCHANGED <<disk, baseline, run>>
    BY <1>7 DEF PublishCandidate, EditSource, EVVars
  <2> QED BY <2>1, EvaluationQuiet DEF EInv
<1>8. CASE Crash
  BY <1>8, NoProcess, EvaluationQuiet DEF Crash, Exit, Outside
<1>9. CASE Damage
  BY <1>9, DamageKeeps
<1> QED BY <1>1, <1>2, <1>3, <1>4, <1>5, <1>6, <1>7, <1>8, <1>9 DEF EVNext

LEMMA EvaluationInit == EVInit => EInv
<1> SUFFICES ASSUME EVInit PROVE EInv
  OBVIOUS
<1>1. Directory(disk)
  BY NothingEvaluated DEF EVInit, Directory, IsDirectory
<1>2. Process(disk, run)
  BY NoProcess DEF EVInit
<1>3. QualifiedIsWhole
  BY DEF EVInit, QualifiedIsWhole
<1> QED BY <1>1, <1>2, <1>3 DEF EInv

\* The files of a run agree with each other and with the process, whoever died between two.
THEOREM EvaluationInductive == EVSpec => []EInv
BY EvaluationInit, EvaluationStep, PTL DEF EVSpec

\* A published baseline is whole and of the qualified commit, and its rate of right intents,
\* its lack of critical failures and its steadiness are over every case and repeat, for any
\* dataset, answers and policy and any number of processes, crashes and edits.
THEOREM QualifiedIsWholeHolds == EVSpec => []QualifiedIsWhole
<1>1. EInv => QualifiedIsWhole
  BY DEF EInv
<1> QED BY EvaluationInductive, <1>1, PTL

\* No readable verdict is thrown away for another try, however often a run is resumed.
THEOREM JudgedOnceHolds == EVSpec => JudgedOnce
<1>1. EInv /\ [EVNext]_EVVars => [VerdictsKept]_EVVars
  BY EvaluationStep
<1>2. [VerdictsKept]_EVVars =>
        [\A i \in Items :
           disk'.results[i] # disk.results[i] /\ disk.results[i].outcome # None =>
             \/ disk.results[i].outcome = "INFRA"
             \/ disk.torn = "LAST"]_EVVars
  BY DEF VerdictsKept
<1> QED BY EvaluationInductive, <1>1, <1>2, PTL DEF EVSpec, JudgedOnce
=============================================================================
