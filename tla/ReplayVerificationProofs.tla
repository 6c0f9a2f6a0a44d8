----------------------- MODULE ReplayVerificationProofs -----------------------
(***************************************************************************)
(* What a sealed bundle holds and who judges it.  The inductive invariant  *)
(* follows one run from its first recorded step to its seal: while the     *)
(* capture has met no error, the tape is exactly what the run did, its     *)
(* start state is the run's own, and only a run that reached its final     *)
(* state is about to be sealed.  It follows one verification from the      *)
(* bundle it read to the verdict it stores: the seal it holds is the       *)
(* bundle's, whatever was done to the rows since.                          *)
(*                                                                         *)
(* A second invariant, FInv, says what the verdict will be: it carries the *)
(* replay of what the run emitted along with the run, under every version  *)
(* of the graph, and says where the one may stand while the other is       *)
(* there.  A replay is a recursion over the tape; that it grows by a step  *)
(* when the tape does is shown by the first place where it would not.      *)
(***************************************************************************)
EXTENDS ReplayVerification, SequenceTheorems, FiniteSetTheorems, WellFoundedInduction, TLAPS

-----------------------------------------------------------------------------
(***************************************************************************)
(* The inductive invariant.                                                *)
(***************************************************************************)
\* Records with the columns of their tables.
IsRun(c) ==
  c = [at |-> c.at, m |-> c.m, known |-> c.known, error |-> c.error,
       entered |-> c.entered, ended |-> c.ended]
IsMachine(m) == m = [node |-> m.node, at |-> m.at, facts |-> m.facts, resumed |-> m.resumed,
                     unkept |-> m.unkept]
IsBundle(b) ==
  b = [status |-> b.status, start |-> b.start, steps |-> b.steps,
       expected |-> b.expected, sealed |-> b.sealed, schema |-> b.schema]
IsAsked(q) == q = [at |-> q.at, run |-> q.run, key |-> q.key, seen |-> q.seen]
IsJudged(q) ==
  q = [at |-> q.at, run |-> q.run, key |-> q.key, verdict |-> q.verdict,
       slow |-> q.slow, version |-> q.version, tape |-> q.tape]
IsExecution(x) ==
  x = [run |-> x.run, status |-> x.status, judged |-> x.judged, finals |-> x.finals]
IsTape(e) == e \in Seq({e[i] : i \in DOMAIN e})

\* Where the run's capture stands.
OperatorAt == {"stating", "acting", "ending", "sealing"}
Working == OperatorAt \cup {"running", "closing"}
GraphAt == {"enter", "call", "route", "interrupt", "final"}

\* A bundle that was sealed, damaged since or not.
WasSealed(b) == b # None /\ b.status \in {"READY", "INVALID"}
\* The tape ends with the run's outcome.
EndsWith(e, facts) == e # <<>> /\ Last(e).kind = "FINAL_STATE" /\ Last(e).facts = facts

\* The rows of one run: how it came about, its capture, its bundle, what it did.
Typed(o, c, b, e) ==
  /\ o \in Origins
  /\ IsRun(c) /\ IsMachine(c.m) /\ IsTape(e)
  /\ c.at \in Working \cup Over \cup {"begin"}
  /\ c.known \in BOOLEAN /\ c.error \in BOOLEAN /\ c.entered \in BOOLEAN
  /\ b # None => IsBundle(b) /\ b.status \in {"CAPTURING", "READY", "INCOMPLETE", "INVALID"}

\* Nothing is recorded before the run begins.
Untouched(o, c, b, e) ==
  c.at = "begin" => /\ b = None /\ e = <<>>
                    /\ c.m = Begun(o, c.m.unkept) /\ c.m.unkept \in Unkept(o)
                    /\ ~c.known /\ ~c.error /\ ~c.entered

\* While a capture has met no error its tape is what the run did so far.
OnTape(c, b, e) ==
  c.at \in Working => /\ b # None /\ b.status = "CAPTURING"
                      /\ ~c.error => b.steps = e

\* The start state is the one before the first node, and is stored with it.
StartKept(o, c, b, e) ==
  /\ c.at = "running" =>
       /\ o # "operator"
       /\ IF c.entered THEN c.m.at \in GraphAt
          ELSE /\ c.m.at \in {"preflight", "refresh", "enter"} /\ c.m.facts = Facts(o)
               /\ ~c.known /\ b.start = None
       /\ c.entered /\ ~c.error => b.start = Facts(o)
  /\ c.at = "closing" /\ c.entered /\ ~c.error =>
       b.start = Facts(o) /\ EndsWith(e, c.m.facts)
  /\ c.at \in OperatorAt =>
       /\ o = "operator" /\ ~c.error /\ c.m.facts = Facts(o)
       /\ b.start = IF c.at = "stating" THEN None ELSE Facts(o)
       /\ c.at \in {"stating", "acting"} => c.m.at = "call"
       /\ c.at = "ending" => c.m.at = "final"
       /\ c.at = "sealing" => EndsWith(e, c.m.facts)

\* A seal is over the whole run, and still fits what it was put on unless damaged.
SealFits(o, c, b, e, hit) ==
  /\ WasSealed(b) =>
       /\ b.sealed = [start |-> Facts(o), steps |-> e, expected |-> Last(e).facts]
       /\ b.start = Facts(o) /\ Last(e).kind = "FINAL_STATE"
       /\ ~hit => b.status = "READY" /\ b.sealed = Sealed(b)
  /\ hit => WasSealed(b)

Row(o, c, b, e, hit) ==
  /\ Typed(o, c, b, e)
  /\ Untouched(o, c, b, e)
  /\ OnTape(c, b, e)
  /\ StartKept(o, c, b, e)
  /\ SealFits(o, c, b, e, hit)
Captured(r) == Row(origin[r], run[r], bundle[r], emitted[r], r \in tampered)

\* A verification holds the seal of a bundle that was READY.
Asked(w) ==
  LET q == request[w] IN
  /\ q.at \in {"idle", "create", "execute", "complete"}
  /\ q.at # "idle" => q.run \in Runs /\ q.key \in Keys /\ WasSealed(bundle[q.run])
  /\ q.at \in {"create", "execute"} =>
       /\ IsAsked(q)
       /\ q.seen.start = bundle[q.run].start /\ q.seen.sealed = bundle[q.run].sealed
  /\ q.at = "complete" =>
       /\ IsJudged(q) /\ q.slow \in BOOLEAN
       /\ q.verdict = "PASSED" => ~q.slow /\ q.tape = emitted[q.run]

\* The verdicts stored under the keys.
Answered(k) ==
  LET x == execution[k] IN
  x # None => /\ IsExecution(x) /\ x.run \in Runs /\ WasSealed(bundle[x.run])
              /\ x.status = "PASSED" => ~x.judged.slow /\ x.judged.tape = emitted[x.run]

\* Whoever replays the tape holds the row of its key, alone.
Holds(w) ==
  request[w].at \in {"execute", "complete"} =>
    LET x == execution[request[w].key] IN
    /\ x # None /\ x.status = "RUNNING" /\ x.run = request[w].run
    /\ \A v \in Requests \ {w} : request[v].at \in {"execute", "complete"} =>
         request[v].key # request[w].key

Tables ==
  /\ origin \in [Runs -> Origins]
  /\ run = [r \in Runs |-> run[r]]
  /\ emitted = [r \in Runs |-> emitted[r]]
  /\ bundle = [r \in Runs |-> bundle[r]]
  /\ execution = [k \in Keys |-> execution[k]]
  /\ request = [w \in Requests |-> request[w]]

RInv ==
  /\ Tables
  /\ \A r \in Runs : Captured(r)
  /\ \A w \in Requests : Asked(w) /\ Holds(w)
  /\ \A k \in Keys : Answered(k)

-----------------------------------------------------------------------------
(***************************************************************************)
(* What the operators of the capture return.                               *)
(***************************************************************************)
\* A sequence is a sequence of its own elements.
LEMMA SeqIsTape ==
  ASSUME NEW T, NEW f \in Seq(T)
  PROVE  IsTape(f)
<1>. DEFINE S == {f[i] : i \in DOMAIN f}
<1>1. Len(f) \in Nat /\ DOMAIN f = 1..Len(f) /\ f = [i \in 1..Len(f) |-> f[i]]
  OBVIOUS
<1>2. \A i \in 1..Len(f) : f[i] \in S
  BY <1>1
<1>. HIDE DEF S
<1>3. f \in [1..Len(f) -> S]
  BY <1>1, <1>2
<1>4. Len(f) \in Nat
  BY <1>1
<1>5. f \in Seq(S)
  BY <1>3, <1>4, SeqDef, ZenonT(60)
<1>. QED  BY <1>5 DEF IsTape, S

\* A step appended to a tape is its last.
LEMMA TapeGrows ==
  ASSUME NEW e, IsTape(e), NEW s
  PROVE  /\ IsTape(Append(e, s)) /\ Append(e, s) # <<>>
         /\ Last(Append(e, s)) = s
<1>. DEFINE f == Append(e, s)
            T == {e[i] : i \in DOMAIN e} \cup {s}
<1>1. e \in Seq(T) /\ s \in T
  BY DEF IsTape
<1>2. f \in Seq(T) /\ Len(f) = Len(e) + 1 /\ f[Len(f)] = s /\ Len(e) \in Nat
  BY <1>1
<1>. HIDE DEF f
<1>3. f # <<>>
  BY <1>2
<1>4. Last(f) = s
  BY <1>2 DEF Last
<1>5. IsTape(f)
  BY <1>2, SeqIsTape
<1>. QED  BY <1>3, <1>4, <1>5 DEF f

\* What an append under the bundle's lock leaves: the same bundle, its tape grown by the
\* step unless the append is refused.
LEMMA StoredTells ==
  ASSUME NEW b, b # None, IsBundle(b), b.status = "CAPTURING", NEW step, NEW outcome
  PROVE  LET n == Stored(b, step, outcome) IN
         /\ n # None /\ IsBundle(n) /\ n.status = "CAPTURING" /\ n.start = b.start
         /\ IsTape(b.steps) /\ ~Refused(b, outcome) => n.steps = Append(b.steps, step)
<1>. DEFINE n == Stored(b, step, outcome)
<1>1. CASE Len(b.steps) < MaxSteps /\ outcome # "failed"
  <2>1. n = [status |-> b.status, start |-> b.start, steps |-> Append(b.steps, step),
             expected |-> b.expected, sealed |-> b.sealed, schema |-> b.schema]
    BY <1>1 DEF Stored, IsBundle
  <2>. HIDE DEF n
  <2>2. n # None /\ IsBundle(n) /\ n.status = b.status /\ n.start = b.start
        /\ n.steps = Append(b.steps, step)
    BY <2>1 DEF IsBundle, None
  <2>. QED  BY <2>2 DEF n
<1>2. CASE ~(Len(b.steps) < MaxSteps /\ outcome # "failed")
  <2>1. n = b
    BY <1>2 DEF Stored
  <2>2. IsTape(b.steps) => Refused(b, outcome)
    BY <1>2, ReplayAssumption DEF IsTape, Refused
  <2>. QED  BY <2>1, <2>2
<1>. QED  BY <1>1, <1>2

\* Offering a start state fills an empty one and changes nothing else.
LEMMA StartedTells ==
  ASSUME NEW b, b # None, IsBundle(b), b.status = "CAPTURING", NEW facts
  PROVE  LET n == Started(b, facts) IN
         /\ n # None /\ IsBundle(n) /\ n.status = "CAPTURING" /\ n.steps = b.steps
         /\ n.start = IF b.start = None THEN facts ELSE b.start
  BY DEF Started, IsBundle, None

\* No state of facts is the empty column.
LEMMA FactsStored == \A o : Facts(o) # None
  BY DEF Facts, None

\* A machine entering a node goes on to one of the graph's places.
LEMMA VisitTells ==
  ASSUME NEW m, IsMachine(m)
  PROVE  IsMachine(Visit(m)) /\ Visit(m).at \in GraphAt
  BY DEF Visit, Leave, To, IsMachine, GraphAt

\* A step of the machine leads to a place of the graph, to the end of the run, or raises.
LEMMA AdvanceTells ==
  ASSUME NEW m, IsMachine(m), m.at \in GraphAt \ {"enter"}, NEW answer, NEW v
  PROVE  LET n == Advance(m, answer, v) IN
         /\ IsMachine(n) /\ n.at \in GraphAt \cup {"over", "raised"}
         /\ n.at = "over" <=> m.at = "final"
         /\ m.at = "final" => n.facts = m.facts
<1>1. CASE m.at = "call"
  <2>1. Advance(m, answer, v) = Learn(m, answer, v)
    BY <1>1 DEF Advance
  <2>2. IsMachine(Learn(m, answer, v)) /\ Learn(m, answer, v).at \in {"route", "enter", "final", "raised"}
    BY DEF Learn, Leave, To, IsMachine
  <2>. QED  BY <1>1, <2>1, <2>2 DEF GraphAt
<1>2. CASE m.at = "route"
  BY <1>2 DEF Advance, To, IsMachine, GraphAt
<1>3. CASE m.at \in {"interrupt", "final"}
  BY <1>3 DEF Advance, IsMachine, GraphAt
<1>. QED  BY <1>1, <1>2, <1>3 DEF GraphAt

-----------------------------------------------------------------------------
(***************************************************************************)
(* Steps of one run.                                                       *)
(***************************************************************************)
\* A step of run r writes that run's rows only, while its bundle is not sealed before.
Writes(r) ==
  /\ UNCHANGED <<origin, tampered, execution, request>>
  /\ run' = [run EXCEPT ![r] = run'[r]]
  /\ bundle' = [bundle EXCEPT ![r] = bundle'[r]]
  /\ emitted' = [emitted EXCEPT ![r] = emitted'[r]]
  /\ ~WasSealed(bundle[r])

\* Such a step keeps the invariant when it keeps the rows of its run together.
LEMMA WritesKeep ==
  ASSUME RInv, NEW r \in Runs, Writes(r),
         Row(origin[r], run'[r], bundle'[r], emitted'[r], FALSE)
  PROVE  RInv'
<1>1. r \notin tampered
  BY DEF RInv, Captured, Row, SealFits, Writes
<1>2. Tables'
  BY DEF RInv, Tables, Writes
<1>3. \A u \in Runs \ {r} :
        run'[u] = run[u] /\ bundle'[u] = bundle[u] /\ emitted'[u] = emitted[u]
  BY DEF RInv, Tables, Writes
<1>4. ASSUME NEW u \in Runs
      PROVE  Captured(u)'
  <2>1. CASE u = r
    BY <1>1, <2>1 DEF Captured, Writes, Row, SealFits
  <2>2. CASE u # r
    <3>1. /\ origin'[u] = origin[u] /\ run'[u] = run[u] /\ bundle'[u] = bundle[u]
          /\ emitted'[u] = emitted[u] /\ (u \in tampered') = (u \in tampered)
      BY <1>3, <2>2 DEF Writes
    <3>2. Captured(u)
      BY DEF RInv
    <3>. QED  BY <3>1, <3>2 DEF Captured
  <2>. QED  BY <2>1, <2>2
<1>5. \A u \in Runs : WasSealed(bundle[u]) =>
        bundle'[u] = bundle[u] /\ emitted'[u] = emitted[u]
  BY <1>3 DEF Writes
<1>6. \A w \in Requests : Asked(w)'
  BY <1>5 DEF RInv, Asked, Writes
<1>7. \A w \in Requests : Holds(w)'
  BY DEF RInv, Holds, Writes
<1>8. \A k \in Keys : Answered(k)'
  BY <1>5 DEF RInv, Answered, Writes
<1>. QED  BY <1>2, <1>4, <1>6, <1>7, <1>8 DEF RInv

\* A capture under way is not sealed.
LEMMA NotSealedYet ==
  ASSUME RInv, NEW r \in Runs, run[r].at \in Working \cup {"begin"}
  PROVE  ~WasSealed(bundle[r])
  BY DEF RInv, Captured, Row, OnTape, Untouched, WasSealed

\* The first call: the bundle may be created, and the run goes on or goes unrecorded.
LEMMA BeginKeeps ==
  ASSUME RInv, NEW r \in Runs, Begin(r)
  PROVE  RInv'
<1>. DEFINE c == run[r]
            new == [status |-> "CAPTURING", start |-> None, steps |-> <<>>,
                    expected |-> None, sealed |-> None, schema |-> Schema(version)]
<1>1. /\ c.at = "begin" /\ Row(origin[r], c, bundle[r], emitted[r], r \in tampered)
      /\ ~WasSealed(bundle[r])
  BY NotSealedYet DEF Begin, RInv, Captured
<1>2. PICK outcome \in Outcomes :
        /\ bundle' = IF outcome = "failed" THEN bundle ELSE [bundle EXCEPT ![r] = new]
        /\ run' = [run EXCEPT ![r].at = IF outcome # "done" THEN "noop"
                                        ELSE IF origin[r] = "operator" THEN "stating" ELSE "running"]
  BY DEF Begin
<1>. DEFINE at == IF outcome # "done" THEN "noop"
                  ELSE IF origin[r] = "operator" THEN "stating" ELSE "running"
<1>3. /\ run'[r] = [c EXCEPT !.at = at]
      /\ bundle'[r] = IF outcome = "failed" THEN None ELSE new
      /\ emitted'[r] = <<>>
  BY <1>1, <1>2 DEF RInv, Tables, Row, Untouched, Begin
<1>4. Writes(r)
  BY <1>1, <1>2, <1>3 DEF Writes, Begin, RInv, Tables, Row, Untouched
<1>5. /\ IsRun(c) /\ ~c.known /\ ~c.error /\ ~c.entered
      /\ c.m = Begun(origin[r], c.m.unkept) /\ origin[r] \in Origins /\ IsTape(<<>>) /\ IsMachine(c.m)
  BY <1>1 DEF Row, Typed, Untouched
<1>6. /\ IsRun(run'[r]) /\ run'[r].at = at /\ run'[r].m = c.m
      /\ run'[r].known = c.known /\ run'[r].error = c.error /\ run'[r].entered = c.entered
  BY <1>3, <1>5 DEF IsRun
<1>7. new # None /\ IsBundle(new) /\ new.status = "CAPTURING" /\ new.start = None
      /\ new.steps = <<>>
  BY DEF IsBundle, None
<1>8. /\ c.m.facts = Facts(origin[r])
      /\ origin[r] = "operator" => c.m.at = "call"
      /\ origin[r] # "operator" => c.m.at \in {"preflight", "enter"}
  <2>. DEFINE unkept == c.m.unkept
  <2>1. c.m = Begun(origin[r], unkept) /\ origin[r] \in Origins
    BY <1>5
  <2>. HIDE DEF unkept
  <2>2. /\ Begun(origin[r], unkept).facts = Facts(origin[r])
        /\ Begun(origin[r], unkept).at = Fresh(origin[r]).at
    BY DEF Begun, Fresh, At
  <2>3. Fresh(origin[r]).at = CASE origin[r] = "operator" -> "call" [] origin[r] = "new" -> "enter"
                                [] OTHER -> "preflight"
    BY DEF Fresh, At
  <2>. QED  BY <2>1, <2>2, <2>3
<1>. HIDE DEF c, new
<1>9. Typed(origin[r], run'[r], bundle'[r], emitted'[r])
  BY <1>1, <1>3, <1>5, <1>6, <1>7 DEF Typed, Working, OperatorAt, Over, Row
<1>10. Untouched(origin[r], run'[r], bundle'[r], emitted'[r])
  BY <1>6 DEF Untouched
<1>11. OnTape(run'[r], bundle'[r], emitted'[r])
  BY <1>3, <1>6, <1>7 DEF OnTape, Working, OperatorAt, Outcomes
<1>12. StartKept(origin[r], run'[r], bundle'[r], emitted'[r])
  BY <1>3, <1>5, <1>6, <1>7, <1>8 DEF StartKept, OperatorAt, Outcomes
<1>13. SealFits(origin[r], run'[r], bundle'[r], emitted'[r], FALSE)
  BY <1>3, <1>7 DEF SealFits, WasSealed
<1>. QED  BY <1>4, <1>9, <1>10, <1>11, <1>12, <1>13, WritesKeep DEF Row

\* A step recorded for run r: the tape and the history grow together unless it is refused.
Recorded(r, b, step, error, outcome) ==
  /\ emitted' = [emitted EXCEPT ![r] = emitted'[r]]
  /\ emitted'[r] = Append(emitted[r], step) /\ IsTape(emitted'[r])
  /\ bundle' = [bundle EXCEPT ![r] = bundle'[r]]
  /\ bundle'[r] # None /\ IsBundle(bundle'[r])
  /\ bundle'[r].status = "CAPTURING" /\ bundle'[r].start = b.start
  /\ ~error /\ ~Refused(b, outcome) => bundle'[r].steps = emitted'[r]

\* Recording has this effect on a bundle that is capturing.
LEMMA RecordTells ==
  ASSUME RInv, NEW r \in Runs, NEW b, b # None, IsBundle(b), b.status = "CAPTURING",
         NEW step, NEW error \in BOOLEAN, NEW outcome, Record(r, b, step, error, outcome),
         ~error => b.steps = emitted[r]
  PROVE  Recorded(r, b, step, error, outcome)
<1>1. IsTape(emitted[r])
  BY DEF RInv, Captured, Row, Typed
<1>2. emitted' = [emitted EXCEPT ![r] = emitted'[r]]
      /\ emitted'[r] = Append(emitted[r], step)
  BY DEF Record, RInv, Tables
<1>3. IsTape(emitted'[r])
  BY <1>1, <1>2, TapeGrows
<1>4. bundle' = [bundle EXCEPT ![r] = bundle'[r]]
      /\ bundle'[r] = IF error THEN b ELSE Stored(b, step, outcome)
  BY DEF Record, RInv, Tables
<1>. DEFINE n == Stored(b, step, outcome)
<1>5. /\ n # None /\ IsBundle(n) /\ n.status = "CAPTURING" /\ n.start = b.start
      /\ IsTape(b.steps) /\ ~Refused(b, outcome) => n.steps = Append(b.steps, step)
  BY StoredTells
<1>. HIDE DEF n
<1>6. bundle'[r] = IF error THEN b ELSE n
  BY <1>4 DEF n
<1>. QED  BY <1>1, <1>2, <1>3, <1>4, <1>5, <1>6 DEF Recorded

\* What the invariant says of a run whose graph is at work.
LEMMA Running ==
  ASSUME RInv, NEW r \in Runs, run[r].at = "running"
  PROVE  LET c == run[r]  b == bundle[r] IN
         /\ origin[r] \in Origins /\ origin[r] # "operator"
         /\ IsRun(c) /\ IsMachine(c.m) /\ IsTape(emitted[r])
         /\ c.known \in BOOLEAN /\ c.error \in BOOLEAN /\ c.entered \in BOOLEAN
         /\ b # None /\ IsBundle(b) /\ b.status = "CAPTURING" /\ ~WasSealed(b)
         /\ ~c.error => b.steps = emitted[r]
         /\ c.entered => c.m.at \in GraphAt /\ (~c.error => b.start = Facts(origin[r]))
         /\ ~c.entered => /\ c.m.at \in {"preflight", "refresh", "enter"}
                          /\ c.m.facts = Facts(origin[r]) /\ ~c.known /\ b.start = None
  BY DEF RInv, Captured, Row, Typed, OnTape, StartKept, Working, WasSealed

\* The rows a run at work, or one about to be closed, must be left in.
LEMMA StillCapturing ==
  ASSUME NEW o \in Origins, NEW c, NEW b, NEW e,
         o # "operator", c.at \in {"running", "closing"},
         IsRun(c), IsMachine(c.m), IsTape(e),
         c.known \in BOOLEAN, c.error \in BOOLEAN, c.entered \in BOOLEAN,
         b # None, IsBundle(b), b.status = "CAPTURING",
         ~c.error => b.steps = e,
         c.entered /\ ~c.error => b.start = Facts(o),
         c.at = "running" =>
           IF c.entered THEN c.m.at \in GraphAt
           ELSE /\ c.m.at \in {"preflight", "refresh", "enter"} /\ c.m.facts = Facts(o)
                /\ ~c.known /\ b.start = None,
         c.at = "closing" /\ c.entered /\ ~c.error => EndsWith(e, c.m.facts)
  PROVE  Row(o, c, b, e, FALSE)
<1>1. Typed(o, c, b, e)
  BY DEF Typed, Working
<1>2. Untouched(o, c, b, e) /\ OnTape(c, b, e)
  BY DEF Untouched, OnTape
<1>3. StartKept(o, c, b, e)
  BY DEF StartKept, OperatorAt
<1>4. SealFits(o, c, b, e, FALSE)
  BY DEF SealFits, WasSealed
<1>. QED  BY <1>1, <1>2, <1>3, <1>4 DEF Row

\* Before the graph: a recorded read leaves the start state open and the facts as they are.
LEMMA PreflightKeeps ==
  ASSUME RInv, NEW r \in Runs, Preflight(r)
  PROVE  RInv'
<1>. DEFINE c == run[r]  m == c.m  b == bundle[r]
<1>1. c.at = "running" /\ m.at \in {"preflight", "refresh"}
  BY DEF Preflight
<1>2. PICK outcome \in Outcomes, then \in {"refresh", "enter", "refused"} :
        /\ m.at = "refresh" => then = "enter"
        /\ Record(r, b, Step(m, "found"), c.error, outcome)
        /\ run' = [run EXCEPT ![r].error = c.error \/ Refused(b, outcome),
                     ![r].m = [m EXCEPT !.at = IF then = "refused" THEN "over" ELSE then],
                     ![r].at = IF then = "refused" THEN "closing" ELSE c.at,
                     ![r].ended = CASE then = "refused" -> "raised" [] then = "refresh" -> "refreshed" [] OTHER -> @]
  BY DEF Preflight
<1>3. /\ origin[r] \in Origins /\ origin[r] # "operator"
      /\ IsRun(c) /\ IsMachine(m)
      /\ c.known \in BOOLEAN /\ c.error \in BOOLEAN /\ c.entered \in BOOLEAN
      /\ b # None /\ IsBundle(b) /\ b.status = "CAPTURING" /\ ~WasSealed(b)
      /\ ~c.error => b.steps = emitted[r]
      /\ ~c.entered /\ m.facts = Facts(origin[r]) /\ ~c.known /\ b.start = None
  BY <1>1, Running DEF GraphAt
<1>. DEFINE d == run'[r]  to == IF then = "refused" THEN "over" ELSE then
<1>4. /\ run' = [run EXCEPT ![r] = d]
      /\ IsRun(d) /\ d.at = IF then = "refused" THEN "closing" ELSE "running"
      /\ d.m = [m EXCEPT !.at = to]
      /\ d.known = c.known /\ d.entered = c.entered /\ d.error = (c.error \/ Refused(b, outcome))
  BY <1>1, <1>2, <1>3 DEF RInv, Tables, IsRun
<1>5. IsMachine(d.m) /\ d.m.at = to /\ d.m.facts = m.facts
  BY <1>3, <1>4 DEF IsMachine
<1>6. Recorded(r, b, Step(m, "found"), c.error, outcome)
  <2>1. Record(r, b, Step(m, "found"), c.error, outcome)
    BY <1>2
  <2>. HIDE DEF c, m, b
  <2>. QED  BY <1>3, <2>1, RecordTells
<1>7. Writes(r)
  BY <1>3, <1>4, <1>6 DEF Writes, Preflight, Recorded
<1>. HIDE DEF c, m, b, d
<1>8. Row(origin[r], d, bundle'[r], emitted'[r], FALSE)
  BY <1>3, <1>4, <1>5, <1>6, StillCapturing DEF Recorded
<1>. QED  BY <1>7, <1>8, WritesKeep DEF d

\* Entering a node: the first one stores the start state, or the capture has met an error.
LEMMA EnterNodeKeeps ==
  ASSUME RInv, NEW r \in Runs, EnterNode(r)
  PROVE  RInv'
<1>. DEFINE c == run[r]  m == c.m  b == bundle[r]  step == Step(m, "none")
<1>1. c.at = "running" /\ m.at = "enter"
  BY DEF EnterNode
<1>2. /\ origin[r] \in Origins /\ origin[r] # "operator"
      /\ IsRun(c) /\ IsMachine(m) /\ IsTape(emitted[r])
      /\ c.known \in BOOLEAN /\ c.error \in BOOLEAN /\ c.entered \in BOOLEAN
      /\ b # None /\ IsBundle(b) /\ b.status = "CAPTURING" /\ ~WasSealed(b)
      /\ ~c.error => b.steps = emitted[r]
      /\ c.entered /\ ~c.error => b.start = Facts(origin[r])
      /\ ~c.entered => m.facts = Facts(origin[r]) /\ ~c.known /\ b.start = None
  BY <1>1, Running
<1>3. PICK begins \in Outcomes, writes \in Outcomes :
        LET offered == IF c.known \/ begins = "failed" THEN b ELSE Started(b, m.facts)
            error   == c.error \/ begins # "done"
        IN  /\ IF begins # "done"
               THEN /\ faults' = faults + 1
                    /\ emitted' = [emitted EXCEPT ![r] = Append(@, step)]
                    /\ bundle' = [bundle EXCEPT ![r] = offered]
               ELSE Record(r, offered, step, error, writes)
            /\ run' = [run EXCEPT ![r].known = c.known \/ begins = "done",
                                  ![r].error = error \/ Refused(offered, writes),
                                  ![r].entered = TRUE, ![r].m = Visit(m)]
  BY DEF EnterNode
<1>. DEFINE offered == IF c.known \/ begins = "failed" THEN b ELSE Started(b, m.facts)
            d == run'[r]
<1>4. /\ run' = [run EXCEPT ![r] = d]
      /\ IsRun(d) /\ d.at = "running" /\ d.entered = TRUE /\ d.m = Visit(m)
      /\ d.known \in BOOLEAN
      /\ d.error = ((c.error \/ begins # "done") \/ Refused(offered, writes))
  BY <1>1, <1>2, <1>3 DEF RInv, Tables, IsRun
<1>5. /\ offered # None /\ IsBundle(offered) /\ offered.status = "CAPTURING"
      /\ offered.steps = b.steps
      /\ begins = "done" /\ ~c.error => offered.start = Facts(origin[r])
  <2>. DEFINE n == Started(b, m.facts)
  <2>1. /\ n # None /\ IsBundle(n) /\ n.status = "CAPTURING" /\ n.steps = b.steps
        /\ n.start = IF b.start = None THEN m.facts ELSE b.start
    BY <1>2, StartedTells
  <2>. HIDE DEF c, m, b, n
  <2>2. offered = IF c.known \/ begins = "failed" THEN b ELSE n
    BY DEF n
  <2>. HIDE DEF offered
  <2>. QED  BY <1>2, <2>1, <2>2, FactsStored
<1>6. IsMachine(Visit(m)) /\ Visit(m).at \in GraphAt
  BY <1>2, VisitTells
<1>7. CASE begins = "done"
  <2>1. Record(r, offered, step, c.error, writes)
    BY <1>2, <1>3, <1>7
  <2>. HIDE DEF c, m, b, d, offered, step
  <2>2. Recorded(r, offered, step, c.error, writes)
    BY <1>2, <1>5, <2>1, RecordTells
  <2>3. Writes(r)
    BY <1>2, <1>4, <2>2 DEF Writes, EnterNode, Recorded, d, b
  <2>4. Row(origin[r], d, bundle'[r], emitted'[r], FALSE)
    BY <1>2, <1>4, <1>5, <1>6, <1>7, <2>2, StillCapturing DEF Recorded
  <2>. QED  BY <2>3, <2>4, WritesKeep DEF d
<1>8. CASE begins # "done"
  <2>1. /\ emitted' = [emitted EXCEPT ![r] = Append(emitted[r], step)]
        /\ bundle' = [bundle EXCEPT ![r] = offered]
    BY <1>3, <1>8
  <2>. HIDE DEF c, m, b, d, offered, step
  <2>2. /\ emitted'[r] = Append(emitted[r], step) /\ bundle'[r] = offered
        /\ emitted' = [emitted EXCEPT ![r] = emitted'[r]]
        /\ bundle' = [bundle EXCEPT ![r] = bundle'[r]]
    BY <2>1 DEF RInv, Tables
  <2>3. IsTape(emitted'[r])
    BY <1>2, <2>2, TapeGrows
  <2>4. Writes(r)
    BY <1>2, <1>4, <2>2 DEF Writes, EnterNode, d, b
  <2>5. d.error = TRUE
    BY <1>4, <1>8
  <2>6. Row(origin[r], d, bundle'[r], emitted'[r], FALSE)
    BY <1>2, <1>4, <1>5, <1>6, <2>2, <2>3, <2>5, StillCapturing
  <2>. QED  BY <2>4, <2>6, WritesKeep DEF d
<1>. QED  BY <1>7, <1>8

\* A recorded step of the graph; the one that ends the run is its final state.
LEMMA EmitKeeps ==
  ASSUME RInv, NEW r \in Runs, Emit(r)
  PROVE  RInv'
<1>. DEFINE c == run[r]  m == c.m  b == bundle[r]
<1>1. c.at = "running" /\ m.at \in {"call", "route", "interrupt", "final"}
  BY DEF Emit
<1>2. /\ origin[r] \in Origins /\ origin[r] # "operator"
      /\ IsRun(c) /\ IsMachine(m)
      /\ c.known \in BOOLEAN /\ c.error \in BOOLEAN /\ c.entered = TRUE
      /\ b # None /\ IsBundle(b) /\ b.status = "CAPTURING" /\ ~WasSealed(b)
      /\ ~c.error => b.steps = emitted[r]
      /\ ~c.error => b.start = Facts(origin[r])
  BY <1>1, Running
<1>3. PICK answer \in Answers(m), outcome \in Outcomes :
        /\ Record(r, b, Step(m, answer), c.error, outcome)
        /\ LET next == Advance(m, answer, version) IN
           run' = [run EXCEPT
             ![r].error = c.error \/ Refused(b, outcome),
             ![r].m  = IF next.at = "raised" THEN [next EXCEPT !.at = "final", !.facts.done = "unknown"] ELSE next,
             ![r].at = IF next.at = "over" THEN "closing" ELSE c.at,
             ![r].ended = IF next.at = "raised" THEN "unknown"
                          ELSE IF next.at = "over" /\ @ = "no" THEN "answered" ELSE @]
  BY DEF Emit
<1>. DEFINE step == Step(m, answer)  next == Advance(m, answer, version)
            after == IF next.at = "raised" THEN [next EXCEPT !.at = "final", !.facts.done = "unknown"] ELSE next
            d == run'[r]
<1>4. /\ IsMachine(next) /\ next.at \in GraphAt \cup {"over", "raised"}
      /\ next.at = "over" <=> m.at = "final"
      /\ m.at = "final" => next.facts = m.facts
  BY <1>1, <1>2, AdvanceTells DEF GraphAt
<1>5. /\ run' = [run EXCEPT ![r] = d]
      /\ IsRun(d) /\ d.at = (IF next.at = "over" THEN "closing" ELSE "running")
      /\ d.entered = TRUE /\ d.m = after /\ d.known = c.known
      /\ d.error = (c.error \/ Refused(b, outcome))
  <2>. DEFINE error == c.error \/ Refused(b, outcome)
              at == IF next.at = "over" THEN "closing" ELSE c.at
              ended == IF next.at = "raised" THEN "unknown"
                       ELSE IF next.at = "over" /\ c.ended = "no" THEN "answered" ELSE c.ended
  <2>1. run' = [run EXCEPT ![r].error = error, ![r].m = after, ![r].at = at,
                           ![r].ended = IF next.at = "raised" THEN "unknown"
                                        ELSE IF next.at = "over" /\ @ = "no" THEN "answered" ELSE @]
    BY <1>3
  <2>. HIDE DEF error, at, after, next
  <2>2. d = [c EXCEPT !.error = error, !.m = after, !.at = at, !.ended = ended]
    BY <1>2, <2>1 DEF RInv, Tables, IsRun
  <2>3. run' = [run EXCEPT ![r] = d]
    BY <2>1 DEF RInv, Tables
  <2>. HIDE DEF ended, c, d
  <2>4. IsRun(d) /\ d.at = at /\ d.entered = c.entered /\ d.m = after /\ d.known = c.known
        /\ d.error = error
    BY <1>2, <2>2 DEF IsRun
  <2>. QED  BY <1>1, <1>2, <2>3, <2>4 DEF error, at
<1>6. Record(r, b, step, c.error, outcome)
  BY <1>3
<1>7. step.facts = m.facts /\ (m.at = "final" => step.kind = "FINAL_STATE")
  BY DEF Step, Wants
<1>. HIDE DEF c, m, b, d, step, next
<1>8. /\ IsMachine(after) /\ after.at \in GraphAt \cup {"over"}
      /\ after.at = "over" <=> m.at = "final"
      /\ m.at = "final" => after.facts = m.facts
  BY <1>4 DEF IsMachine, GraphAt
<1>9. Recorded(r, b, step, c.error, outcome)
  BY <1>2, <1>6, RecordTells
<1>10. Writes(r)
  BY <1>2, <1>5, <1>9 DEF Writes, Emit, Recorded, d, b
<1>11. IsTape(emitted[r])
  BY DEF RInv, Captured, Row, Typed
<1>12. m.at = "final" => EndsWith(emitted'[r], after.facts)
  BY <1>7, <1>8, <1>9, <1>11, TapeGrows DEF EndsWith, Recorded
<1>. HIDE DEF after
<1>13. Row(origin[r], d, bundle'[r], emitted'[r], FALSE)
  BY <1>2, <1>4, <1>5, <1>8, <1>9, <1>12, StillCapturing DEF Recorded
<1>. QED  BY <1>10, <1>13, WritesKeep DEF d

\* A call that raises is not recorded: the run ends, in the graph or before it.
LEMMA CallRaisesKeeps ==
  ASSUME RInv, NEW r \in Runs, CallRaises(r)
  PROVE  RInv'
<1>. DEFINE c == run[r]  m == c.m  b == bundle[r]  d == run'[r]
            to == IF c.entered THEN "final" ELSE "over"
<1>1. c.at = "running" /\ m.at \in {"call", "preflight", "refresh"}
  BY DEF CallRaises
<1>2. /\ origin[r] \in Origins /\ origin[r] # "operator"
      /\ IsRun(c) /\ IsMachine(m) /\ IsTape(emitted[r])
      /\ c.known \in BOOLEAN /\ c.error \in BOOLEAN /\ c.entered \in BOOLEAN
      /\ b # None /\ IsBundle(b) /\ b.status = "CAPTURING" /\ ~WasSealed(b)
      /\ ~c.error => b.steps = emitted[r]
      /\ c.entered /\ ~c.error => b.start = Facts(origin[r])
  BY <1>1, Running
<1>3. /\ run' = [run EXCEPT ![r] = d]
      /\ IsRun(d) /\ d.at = (IF c.entered THEN "running" ELSE "closing")
      /\ d.entered = c.entered /\ d.m = [m EXCEPT !.at = to] /\ d.known = c.known
      /\ d.error = c.error
  BY <1>1, <1>2 DEF CallRaises, RInv, Tables, IsRun
<1>4. /\ emitted'[r] = emitted[r] /\ bundle'[r] = b
      /\ emitted' = [emitted EXCEPT ![r] = emitted'[r]]
      /\ bundle' = [bundle EXCEPT ![r] = bundle'[r]]
  BY DEF CallRaises, RInv, Tables
<1>5. Writes(r)
  BY <1>2, <1>3, <1>4 DEF Writes, CallRaises
<1>. HIDE DEF c, m, b, d
<1>6. IsMachine(d.m) /\ d.m.at = to
  BY <1>2, <1>3 DEF IsMachine
<1>7. Row(origin[r], d, bundle'[r], emitted'[r], FALSE)
  BY <1>2, <1>3, <1>4, <1>6, StillCapturing DEF GraphAt
<1>. QED  BY <1>5, <1>7, WritesKeep DEF d

\* What settling leaves: INCOMPLETE, or READY with the outcome and a seal over the whole tape.
LEMMA SettledTells ==
  ASSUME NEW b, b # None, IsBundle(b), b.status = "CAPTURING", NEW facts
  PROVE  LET failed == Settled(b, "INCOMPLETE", facts)
             ready == Settled(b, "READY", facts)
         IN
         /\ failed # None /\ IsBundle(failed) /\ failed.status = "INCOMPLETE"
         /\ ready # None /\ IsBundle(ready) /\ ready.status = "READY"
         /\ ready.start = b.start /\ ready.sealed = Sealed(ready)
         /\ ready.sealed = [start |-> b.start, steps |-> b.steps, expected |-> facts]
<1>1. Settled(b, "INCOMPLETE", facts) =
        [status |-> "INCOMPLETE", start |-> b.start, steps |-> b.steps,
         expected |-> None, sealed |-> b.sealed, schema |-> b.schema]
  BY DEF Settled, IsBundle
<1>2. Settled(b, "READY", facts) =
        [status |-> "READY", start |-> b.start, steps |-> b.steps, expected |-> facts,
         sealed |-> [start |-> b.start, steps |-> b.steps, expected |-> facts],
         schema |-> b.schema]
  BY DEF Settled, IsBundle, Sealed
<1>. QED  BY <1>1, <1>2 DEF IsBundle, Sealed, None

\* The rows a run that has stopped must be left in.
LEMMA Stopped ==
  ASSUME NEW o \in Origins, NEW c, NEW b, NEW e,
         c.at \in Over, IsRun(c), IsMachine(c.m), IsTape(e),
         c.known \in BOOLEAN, c.error \in BOOLEAN, c.entered \in BOOLEAN,
         b # None, IsBundle(b), b.status \in {"CAPTURING", "INCOMPLETE", "READY"},
         b.status = "READY" =>
           /\ b.sealed = [start |-> Facts(o), steps |-> e, expected |-> Last(e).facts]
           /\ b.start = Facts(o) /\ Last(e).kind = "FINAL_STATE" /\ b.sealed = Sealed(b)
  PROVE  Row(o, c, b, e, FALSE)
<1>1. Typed(o, c, b, e)
  BY DEF Typed
<1>2. Untouched(o, c, b, e) /\ OnTape(c, b, e)
  BY DEF Untouched, OnTape, Working, OperatorAt, Over
<1>3. StartKept(o, c, b, e)
  BY DEF StartKept, OperatorAt, Over
<1>4. SealFits(o, c, b, e, FALSE)
  BY DEF SealFits, WasSealed
<1>. QED  BY <1>1, <1>2, <1>3, <1>4 DEF Row

\* Closing the capture: only one that met no error, in a run that entered a node, is sealed.
LEMMA CloseKeeps ==
  ASSUME RInv, NEW r \in Runs, Close(r)
  PROVE  RInv'
<1>. DEFINE c == run[r]  m == c.m  b == bundle[r]  e == emitted[r]  d == run'[r]
            ready == Settled(b, "READY", m.facts)
            failed == Settled(b, "INCOMPLETE", m.facts)
<1>1. c.at = "closing"
  BY DEF Close
<1>2. /\ origin[r] \in Origins /\ IsRun(c) /\ IsMachine(m) /\ IsTape(e)
      /\ c.known \in BOOLEAN /\ c.error \in BOOLEAN /\ c.entered \in BOOLEAN
      /\ b # None /\ IsBundle(b) /\ b.status = "CAPTURING" /\ ~WasSealed(b)
      /\ ~c.error => b.steps = e
      /\ c.entered /\ ~c.error => b.start = Facts(origin[r]) /\ EndsWith(e, m.facts)
  BY <1>1 DEF RInv, Captured, Row, Typed, OnTape, StartKept, Working, WasSealed
<1>3. /\ run' = [run EXCEPT ![r] = d]
      /\ IsRun(d) /\ d.at = "closed" /\ d.m = m
      /\ d.known = c.known /\ d.error = c.error /\ d.entered = c.entered
  BY <1>2 DEF Close, RInv, Tables, IsRun
<1>4. PICK outcome \in Outcomes :
        bundle' = IF outcome = "failed" THEN bundle
                  ELSE [bundle EXCEPT ![r] =
                         Settled(@, IF c.error \/ ~c.entered THEN "INCOMPLETE" ELSE "READY", m.facts)]
  BY DEF Close
<1>5. /\ bundle' = [bundle EXCEPT ![r] = bundle'[r]]
      /\ bundle'[r] = IF outcome = "failed" THEN b
                      ELSE IF c.error \/ ~c.entered THEN failed ELSE ready
  BY <1>4 DEF RInv, Tables
<1>6. emitted' = [emitted EXCEPT ![r] = emitted'[r]] /\ emitted'[r] = e
  BY DEF Close, RInv, Tables
<1>7. Writes(r)
  BY <1>2, <1>3, <1>5, <1>6 DEF Writes, Close
<1>. HIDE DEF c, m, b, d, e
<1>8. /\ failed # None /\ IsBundle(failed) /\ failed.status = "INCOMPLETE"
      /\ ready # None /\ IsBundle(ready) /\ ready.status = "READY"
      /\ ready.start = b.start /\ ready.sealed = Sealed(ready)
      /\ ready.sealed = [start |-> b.start, steps |-> b.steps, expected |-> m.facts]
  BY <1>2, SettledTells
<1>. HIDE DEF ready, failed
<1>9. d.at \in Over
  BY <1>3 DEF Over
<1>10. CASE outcome # "failed" /\ ~c.error /\ c.entered
  <2>1. bundle'[r] = ready
    BY <1>5, <1>10
  <2>2. /\ ready.sealed = [start |-> Facts(origin[r]), steps |-> e, expected |-> Last(e).facts]
        /\ ready.start = Facts(origin[r]) /\ Last(e).kind = "FINAL_STATE"
    BY <1>2, <1>8, <1>10 DEF EndsWith
  <2>3. Row(origin[r], d, ready, e, FALSE)
    BY <1>2, <1>3, <1>8, <1>9, <2>2, Stopped
  <2>. QED  BY <1>6, <1>7, <2>1, <2>3, WritesKeep DEF d
<1>11. CASE ~(outcome # "failed" /\ ~c.error /\ c.entered)
  <2>1. bundle'[r] \in {b, failed}
    BY <1>5, <1>11
  <2>2. Row(origin[r], d, bundle'[r], e, FALSE)
    BY <1>2, <1>3, <1>8, <1>9, <2>1, Stopped
  <2>. QED  BY <1>6, <1>7, <2>2, WritesKeep DEF d
<1>. QED  BY <1>10, <1>11

\* What the invariant says of an operator's capture.
LEMMA Operating ==
  ASSUME RInv, NEW r \in Runs, run[r].at \in OperatorAt
  PROVE  LET c == run[r]  b == bundle[r] IN
         /\ origin[r] = "operator" /\ IsRun(c) /\ IsMachine(c.m) /\ IsTape(emitted[r])
         /\ c.known \in BOOLEAN /\ c.error = FALSE /\ c.entered \in BOOLEAN
         /\ b # None /\ IsBundle(b) /\ b.status = "CAPTURING" /\ ~WasSealed(b)
         /\ b.steps = emitted[r] /\ c.m.facts = Facts("operator")
         /\ b.start = IF c.at = "stating" THEN None ELSE Facts("operator")
         /\ c.at \in {"stating", "acting"} => c.m.at = "call"
         /\ c.at = "ending" => c.m.at = "final"
         /\ c.at = "sealing" => EndsWith(emitted[r], c.m.facts)
<1>1. Row(origin[r], run[r], bundle[r], emitted[r], r \in tampered)
  BY DEF RInv, Captured
<1>. QED  BY <1>1 DEF Row, Typed, OnTape, StartKept, Working, WasSealed

\* The operator's capture: start state, mutation, final state, seal; it stops at the first
\* write that fails.
LEMMA OperatorStepKeeps ==
  ASSUME RInv, NEW r \in Runs, OperatorStep(r)
  PROVE  RInv'
<1>. DEFINE c == run[r]  m == c.m  b == bundle[r]  e == emitted[r]  d == run'[r]
            recorded == c.at \in {"acting", "ending"}
<1>1. PICK i \in 1..4, answer \in Answers(m), outcome \in Outcomes :
        LET breaks == outcome # "done" \/ (recorded /\ Refused(b, outcome)) IN
        /\ c.at = OperatorStages[i]
        /\ emitted' = IF recorded THEN [emitted EXCEPT ![r] = Append(@, Step(m, answer))] ELSE emitted
        /\ bundle' = [bundle EXCEPT ![r] =
              CASE recorded          -> Stored(@, Step(m, answer), outcome)
                [] c.at = "stating"  -> IF outcome = "failed" THEN @ ELSE Started(@, m.facts)
                [] c.at = "sealing"  -> IF outcome = "failed" THEN @ ELSE Settled(@, "READY", m.facts)]
        /\ run' = [run EXCEPT
              ![r].error = breaks, ![r].ended = "answered",
              ![r].m.at = IF c.at = "acting" THEN "final" ELSE @,
              ![r].at = IF breaks THEN "abandoned" ELSE OperatorStages[i + 1]]
        /\ UNCHANGED <<origin, tampered, execution, request, version>>
  BY ZenonT(60) DEF OperatorStep
<1>. DEFINE step == Step(m, answer)
            breaks == outcome # "done" \/ (recorded /\ Refused(b, outcome))
            next == CASE c.at = "stating" -> "acting" [] c.at = "acting" -> "ending"
                      [] c.at = "ending" -> "sealing" [] OTHER -> "closed"
            stored == Stored(b, step, outcome)
            started == Started(b, m.facts)
            ready == Settled(b, "READY", m.facts)
<1>2. c.at \in OperatorAt /\ OperatorStages[i + 1] = next
  BY <1>1 DEF OperatorStages, OperatorAt
<1>3. /\ origin[r] = "operator" /\ IsRun(c) /\ IsMachine(m) /\ IsTape(e)
      /\ c.known \in BOOLEAN /\ c.error = FALSE /\ c.entered \in BOOLEAN
      /\ b # None /\ IsBundle(b) /\ b.status = "CAPTURING" /\ ~WasSealed(b)
      /\ b.steps = e /\ m.facts = Facts("operator")
      /\ b.start = (IF c.at = "stating" THEN None ELSE Facts("operator"))
      /\ c.at \in {"stating", "acting"} => m.at = "call"
      /\ c.at = "ending" => m.at = "final"
      /\ c.at = "sealing" => EndsWith(e, m.facts)
  BY <1>2, Operating
<1>4. /\ run' = [run EXCEPT ![r] = d]
      /\ IsRun(d) /\ d.at = (IF breaks THEN "abandoned" ELSE next)
      /\ d.known = c.known /\ d.error = breaks /\ d.entered = c.entered
      /\ d.m = [m EXCEPT !.at = IF c.at = "acting" THEN "final" ELSE m.at]
  <2>. DEFINE place == IF c.at = "acting" THEN "final" ELSE m.at
              at == IF breaks THEN "abandoned" ELSE next
  <2>1. run' = [run EXCEPT ![r].error = breaks, ![r].ended = "answered",
                           ![r].m.at = IF c.at = "acting" THEN "final" ELSE @, ![r].at = at]
    BY <1>1, <1>2
  <2>. HIDE DEF breaks, at, next
  <2>. DEFINE new == [c EXCEPT !.error = breaks, !.ended = "answered",
                               !.m = [m EXCEPT !.at = place], !.at = at]
  <2>5. run' = [run EXCEPT ![r] = new]
    BY <1>3, <2>1 DEF RInv, Tables, IsRun
  <2>. HIDE DEF new
  <2>3. run' = [run EXCEPT ![r] = d] /\ d = new
    BY <2>5 DEF RInv, Tables
  <2>2. d = [c EXCEPT !.error = breaks, !.ended = "answered", !.m = [m EXCEPT !.at = place], !.at = at]
    BY <2>3 DEF new
  <2>. HIDE DEF c, d, place
  <2>4. IsRun(d) /\ d.at = at /\ d.entered = c.entered /\ d.m = [m EXCEPT !.at = place]
        /\ d.known = c.known /\ d.error = breaks
    BY <1>3, <2>2 DEF IsRun
  <2>. QED  BY <2>3, <2>4 DEF at, place
<1>5. /\ bundle' = [bundle EXCEPT ![r] = bundle'[r]]
      /\ recorded => bundle'[r] = stored
      /\ ~recorded /\ outcome = "failed" => bundle'[r] = b
      /\ c.at = "stating" /\ outcome # "failed" => bundle'[r] = started
      /\ c.at = "sealing" /\ outcome # "failed" => bundle'[r] = ready
  <2>. DEFINE x == CASE recorded          -> stored
                     [] c.at = "stating"  -> IF outcome = "failed" THEN b ELSE started
                     [] c.at = "sealing"  -> IF outcome = "failed" THEN b ELSE ready
  <2>1. bundle' = [bundle EXCEPT ![r] = x]
    BY <1>1
  <2>2. /\ recorded => x = stored
        /\ ~recorded /\ outcome = "failed" => x = b
        /\ c.at = "stating" /\ outcome # "failed" => x = started
        /\ c.at = "sealing" /\ outcome # "failed" => x = ready
    <3>. HIDE DEF stored, started, ready, b, c
    <3>1. CASE recorded
      BY <3>1
    <3>2. CASE c.at = "stating"
      BY <3>2
    <3>3. CASE c.at = "sealing"
      BY <3>3
    <3>. QED  BY <1>2, <3>1, <3>2, <3>3 DEF OperatorAt
  <2>. HIDE DEF x
  <2>3. bundle'[r] = x
    BY <2>1 DEF RInv, Tables
  <2>. HIDE DEF stored, started, ready, b, c
  <2>. QED  BY <2>1, <2>2, <2>3
<1>6. /\ emitted' = [emitted EXCEPT ![r] = emitted'[r]]
      /\ emitted'[r] = IF recorded THEN Append(e, step) ELSE e
  BY <1>1 DEF RInv, Tables
<1>7. Writes(r)
  BY <1>1, <1>3, <1>4, <1>5, <1>6 DEF Writes
<1>8. step.facts = m.facts /\ (m.at = "final" => step.kind = "FINAL_STATE")
  BY DEF Step, Wants
<1>. HIDE DEF m, b, c, d, e, step
<1>9. /\ stored # None /\ IsBundle(stored) /\ stored.status = "CAPTURING" /\ stored.start = b.start
      /\ ~Refused(b, outcome) => stored.steps = Append(b.steps, step)
  BY <1>3, StoredTells
<1>10. /\ started # None /\ IsBundle(started) /\ started.status = "CAPTURING"
       /\ started.steps = b.steps
       /\ started.start = IF b.start = None THEN m.facts ELSE b.start
  BY <1>3, StartedTells
<1>11. /\ ready # None /\ IsBundle(ready) /\ ready.status = "READY"
       /\ ready.start = b.start /\ ready.sealed = Sealed(ready)
       /\ ready.sealed = [start |-> b.start, steps |-> b.steps, expected |-> m.facts]
  BY <1>3, SettledTells
<1>. HIDE DEF stored, started, ready
<1>12. IsMachine(d.m) /\ d.m.facts = m.facts
       /\ d.m.at = IF c.at = "acting" THEN "final" ELSE m.at
  BY <1>3, <1>4 DEF IsMachine
<1>13. IsTape(emitted'[r]) /\ (recorded => emitted'[r] # <<>> /\ Last(emitted'[r]) = step)
  BY <1>3, <1>6, TapeGrows
<1>14. breaks \in BOOLEAN
  OBVIOUS
<1>15. c.at = "sealing" /\ outcome # "failed" =>
         /\ bundle'[r] = ready /\ ready.start = Facts("operator")
         /\ ready.sealed = [start |-> Facts("operator"), steps |-> emitted'[r],
                            expected |-> Last(emitted'[r]).facts]
         /\ Last(emitted'[r]).kind = "FINAL_STATE"
  BY <1>3, <1>5, <1>6, <1>11 DEF EndsWith
<1>16. CASE d.at \in Over
  <2>1. bundle'[r] \in {b, stored, started} \/ (bundle'[r] = ready /\ c.at = "sealing" /\ outcome # "failed")
    BY <1>2, <1>5 DEF OperatorAt
  <2>2. Row(origin[r], d, bundle'[r], emitted'[r], FALSE)
    <3>1. /\ bundle'[r] # None /\ IsBundle(bundle'[r])
          /\ bundle'[r].status \in {"CAPTURING", "READY"}
          /\ bundle'[r].status = "READY" =>
                bundle'[r] = ready /\ c.at = "sealing" /\ outcome # "failed"
      BY <1>3, <1>9, <1>10, <1>11, <2>1
    <3>. HIDE DEF breaks
    <3>2. d.error \in BOOLEAN /\ d.known \in BOOLEAN /\ d.entered \in BOOLEAN /\ IsRun(d)
      BY <1>3, <1>4, <1>14
    <3>3. origin[r] \in Origins
      BY <1>3 DEF Origins
    <3>. QED  BY <1>3, <1>11, <1>12, <1>13, <1>15, <1>16, <3>1, <3>2, <3>3, Stopped
  <2>. QED  BY <1>7, <2>2, WritesKeep DEF d
<1>17. CASE d.at \notin Over
  <2>1. ~breaks /\ d.at = next /\ c.at \in {"stating", "acting", "ending"}
    BY <1>2, <1>4, <1>17 DEF Over, OperatorAt
  <2>2. outcome # "failed" /\ (recorded => ~Refused(b, outcome))
    BY <2>1
  <2>3. d.error \in BOOLEAN /\ ~d.error
    BY <1>4, <1>14, <2>1
  <2>4. d.at = (IF c.at = "stating" THEN "acting" ELSE IF c.at = "acting" THEN "ending" ELSE "sealing")
    BY <2>1
  <2>5. /\ bundle'[r] # None /\ IsBundle(bundle'[r]) /\ bundle'[r].status = "CAPTURING"
        /\ bundle'[r].start = Facts("operator") /\ bundle'[r].steps = emitted'[r]
    BY <1>3, <1>5, <1>6, <1>9, <1>10, <2>1, <2>2
  <2>6. d.at = "sealing" => EndsWith(emitted'[r], d.m.facts)
    BY <1>3, <1>8, <1>12, <1>13, <2>1, <2>4 DEF EndsWith
  <2>7. Row(origin[r], d, bundle'[r], emitted'[r], FALSE)
    <3>. HIDE DEF breaks, next
    <3>1. d.at \in {"acting", "ending", "sealing"}
      BY <2>4
    <3>2. /\ IsRun(d) /\ IsMachine(d.m) /\ IsTape(emitted'[r])
          /\ d.known \in BOOLEAN /\ d.entered \in BOOLEAN
      BY <1>3, <1>4, <1>12, <1>13
    <3>3. /\ d.m.facts = Facts("operator")
          /\ d.at = "acting" => d.m.at = "call"
          /\ d.at = "ending" => d.m.at = "final"
      BY <1>3, <1>12, <2>1, <2>4
    <3>4. Typed(origin[r], d, bundle'[r], emitted'[r])
      BY <1>3, <2>3, <2>5, <3>1, <3>2 DEF Typed, Working, OperatorAt, Origins
    <3>5. /\ Untouched(origin[r], d, bundle'[r], emitted'[r])
          /\ OnTape(d, bundle'[r], emitted'[r])
      BY <2>5, <3>1 DEF Untouched, OnTape
    <3>6. StartKept(origin[r], d, bundle'[r], emitted'[r])
      BY <1>3, <2>3, <2>5, <2>6, <3>1, <3>3 DEF StartKept, OperatorAt
    <3>7. SealFits(origin[r], d, bundle'[r], emitted'[r], FALSE)
      BY <2>5 DEF SealFits, WasSealed
    <3>. QED  BY <3>4, <3>5, <3>6, <3>7 DEF Row
  <2>. QED  BY <1>3, <1>7, <2>7, WritesKeep DEF d
<1>. QED  BY <1>16, <1>17

-----------------------------------------------------------------------------
(***************************************************************************)
(* Damage, verification, and the surroundings.                             *)
(***************************************************************************)
\* Sealed bundles stay sealed under the seal they got, and their runs are over.
SealsKept ==
  \A u \in Runs : WasSealed(bundle[u]) =>
    /\ WasSealed(bundle'[u]) /\ bundle'[u].start = bundle[u].start
    /\ bundle'[u].sealed = bundle[u].sealed /\ emitted'[u] = emitted[u]

\* Damage changes the steps of a sealed bundle, not the seal they are compared with.
LEMMA DamageKeeps ==
  ASSUME RInv, NEW r \in Runs, Damage(r)
  PROVE  RInv'
<1>. DEFINE b == bundle[r]
<1>1. /\ b # None /\ b.status = "READY" /\ WasSealed(b) /\ tampered' = tampered \cup {r}
      /\ UNCHANGED <<origin, run, emitted, execution, request>>
  BY DEF Damage, WasSealed
<1>2. Row(origin[r], run[r], b, emitted[r], r \in tampered) /\ IsBundle(b)
  BY <1>1 DEF RInv, Captured, Row, Typed
<1>3. \/ bundle' = [bundle EXCEPT ![r].steps = Front(@)]
      \/ \E i \in DOMAIN b.steps : bundle' = [bundle EXCEPT ![r].steps[i].answer = "altered"]
  BY DEF Damage
<1>4. /\ bundle' = [bundle EXCEPT ![r] = bundle'[r]]
      /\ IsBundle(bundle'[r]) /\ bundle'[r].status = "READY" /\ bundle'[r].start = b.start
      /\ bundle'[r].sealed = b.sealed
  <2>1. ASSUME NEW tape, bundle' = [bundle EXCEPT ![r] = [b EXCEPT !.steps = tape]]
        PROVE  /\ bundle' = [bundle EXCEPT ![r] = bundle'[r]]
               /\ IsBundle(bundle'[r]) /\ bundle'[r].status = "READY"
               /\ bundle'[r].start = b.start /\ bundle'[r].sealed = b.sealed
    <3>1. bundle'[r] = [b EXCEPT !.steps = tape]
          /\ bundle' = [bundle EXCEPT ![r] = bundle'[r]]
      BY <2>1 DEF RInv, Tables
    <3>. HIDE DEF b
    <3>. QED  BY <1>1, <1>2, <3>1 DEF IsBundle
  <2>2. CASE bundle' = [bundle EXCEPT ![r].steps = Front(@)]
    <3>1. bundle' = [bundle EXCEPT ![r] = [b EXCEPT !.steps = Front(b.steps)]]
      BY <2>2
    <3>. HIDE DEF b
    <3>. QED  BY <2>1, <3>1
  <2>3. CASE \E i \in DOMAIN b.steps : bundle' = [bundle EXCEPT ![r].steps[i].answer = "altered"]
    <3>1. PICK i \in DOMAIN b.steps : bundle' = [bundle EXCEPT ![r].steps[i].answer = "altered"]
      BY <2>3
    <3>2. bundle' = [bundle EXCEPT ![r] =
                       [b EXCEPT !.steps = [b.steps EXCEPT ![i].answer = "altered"]]]
      BY <3>1
    <3>. HIDE DEF b
    <3>. QED  BY <2>1, <3>2
  <2>. QED  BY <1>3, <2>2, <2>3
<1>5. \A u \in Runs \ {r} : bundle'[u] = bundle[u]
  BY <1>4 DEF RInv, Tables
<1>. HIDE DEF b
<1>6. bundle'[r] # None /\ WasSealed(bundle'[r])
  BY <1>4 DEF IsBundle, None, WasSealed
<1>7. Tables'
  BY <1>1, <1>4 DEF RInv, Tables
<1>8. ASSUME NEW u \in Runs
      PROVE  Captured(u)'
  <2>1. CASE u = r
    <3>1. Typed(origin[r], run[r], bundle'[r], emitted[r])
      BY <1>2, <1>4 DEF Row, Typed
    <3>2. run[r].at \notin Working \cup {"begin"}
      BY <1>1, <1>2 DEF Row, OnTape, Untouched, WasSealed
    <3>3. /\ Untouched(origin[r], run[r], bundle'[r], emitted[r])
          /\ OnTape(run[r], bundle'[r], emitted[r])
          /\ StartKept(origin[r], run[r], bundle'[r], emitted[r])
      BY <3>2 DEF Untouched, OnTape, StartKept, Working
    <3>4. SealFits(origin[r], run[r], bundle'[r], emitted[r], TRUE)
      BY <1>1, <1>2, <1>4, <1>6 DEF Row, SealFits
    <3>5. r \in tampered'
      BY <1>1
    <3>. QED  BY <1>1, <2>1, <3>1, <3>3, <3>4, <3>5 DEF Captured, Row, SealFits
  <2>2. CASE u # r
    <3>1. /\ origin'[u] = origin[u] /\ run'[u] = run[u] /\ bundle'[u] = bundle[u]
          /\ emitted'[u] = emitted[u] /\ (u \in tampered') = (u \in tampered)
      BY <1>1, <1>5, <2>2
    <3>2. Captured(u)
      BY DEF RInv
    <3>. QED  BY <3>1, <3>2 DEF Captured
  <2>. QED  BY <2>1, <2>2
<1>9. SealsKept
  BY <1>1, <1>4, <1>5, <1>6 DEF SealsKept, b
<1>10. \A w \in Requests : Asked(w)' /\ Holds(w)'
  BY <1>1, <1>9 DEF RInv, Asked, Holds, SealsKept
<1>11. \A k \in Keys : Answered(k)'
  BY <1>1, <1>9 DEF RInv, Answered, SealsKept
<1>. QED  BY <1>7, <1>8, <1>10, <1>11 DEF RInv

\* A step of verification w that leaves the runs, their bundles and what was damaged alone.
Asks(w) ==
  /\ UNCHANGED <<origin, run, bundle, emitted, tampered>>
  /\ request' = [request EXCEPT ![w] = request'[w]]

\* Such a step keeps what the invariant says of runs and of the other verifications.
LEMMA AsksKeep ==
  ASSUME RInv, NEW w \in Requests, Asks(w), execution' = [k \in Keys |-> execution'[k]],
         Asked(w)', \A v \in Requests : Holds(v)', \A k \in Keys : Answered(k)'
  PROVE  RInv'
<1>1. Tables'
  BY DEF RInv, Tables, Asks
<1>2. \A r \in Runs : Captured(r)'
  BY DEF RInv, Captured, Asks
<1>3. \A v \in Requests \ {w} : request'[v] = request[v]
  BY DEF RInv, Tables, Asks
<1>4. \A v \in Requests : Asked(v)'
  BY <1>3 DEF RInv, Asked, Asks
<1>. QED  BY <1>1, <1>2, <1>4 DEF RInv

\* Asking reads a READY bundle.
LEMMA AskKeeps ==
  ASSUME RInv, NEW w \in Requests, Ask(w)
  PROVE  RInv'
<1>1. PICK r \in Runs, k \in Keys :
        /\ bundle[r] # None /\ bundle[r].status = "READY"
        /\ request' = [request EXCEPT ![w] = [at |-> "create", run |-> r, key |-> k, seen |-> bundle[r]]]
  BY DEF Ask
<1>2. UNCHANGED <<origin, run, emitted, bundle, tampered, execution>>
  BY DEF Ask
<1>3. request'[w] = [at |-> "create", run |-> r, key |-> k, seen |-> bundle[r]]
      /\ request' = [request EXCEPT ![w] = request'[w]]
      /\ \A v \in Requests \ {w} : request'[v] = request[v]
  BY <1>1 DEF RInv, Tables
<1>4. Asks(w)
  BY <1>2, <1>3 DEF Asks
<1>5. Asked(w)'
  BY <1>1, <1>2, <1>3 DEF Asked, WasSealed, IsAsked
<1>6. \A v \in Requests : Holds(v)'
  BY <1>2, <1>3 DEF RInv, Holds
<1>7. \A k2 \in Keys : Answered(k2)'
  BY <1>2 DEF RInv, Answered
<1>8. execution' = [k2 \in Keys |-> execution'[k2]]
  BY <1>2 DEF RInv, Tables
<1>. QED  BY <1>4, <1>5, <1>6, <1>7, <1>8, AsksKeep

\* Only who creates the row of a key goes on to execute.
LEMMA CreateExecutionKeeps ==
  ASSUME RInv, NEW w \in Requests, CreateExecution(w)
  PROVE  RInv'
<1>. DEFINE q == request[w]
            row == [run |-> q.run, status |-> "RUNNING", judged |-> None, finals |-> 0]
<1>1. /\ q.at = "create"
      /\ UNCHANGED <<origin, run, emitted, bundle, tampered>>
  BY DEF CreateExecution
<1>2. /\ Asked(w) /\ IsAsked(q) /\ q.run \in Runs /\ q.key \in Keys /\ WasSealed(bundle[q.run])
      /\ q.seen.start = bundle[q.run].start /\ q.seen.sealed = bundle[q.run].sealed
  BY <1>1 DEF RInv, Asked
<1>3. PICK outcome \in Outcomes :
        /\ execution' = IF execution[q.key] = None /\ outcome # "failed"
                        THEN [execution EXCEPT ![q.key] = row] ELSE execution
        /\ request' = [request EXCEPT ![w] = IF Created(q, outcome)
                                             THEN [q EXCEPT !.at = "execute"] ELSE Idle]
  BY DEF CreateExecution
<1>4. /\ request' = [request EXCEPT ![w] = request'[w]]
      /\ request'[w] = IF Created(q, outcome) THEN [q EXCEPT !.at = "execute"] ELSE Idle
      /\ \A v \in Requests \ {w} : request'[v] = request[v]
  BY <1>3 DEF RInv, Tables
<1>5. Asks(w)
  BY <1>1, <1>4 DEF Asks
<1>. HIDE DEF q
<1>6. row # None /\ IsExecution(row) /\ row.status = "RUNNING" /\ row.run = q.run
  BY DEF IsExecution, None
<1>. HIDE DEF row
<1>7. /\ execution' = [k \in Keys |-> execution'[k]]
      /\ \A k \in Keys \ {q.key} : execution'[k] = execution[k]
      /\ execution[q.key] # None => execution'[q.key] = execution[q.key]
      /\ execution[q.key] = None => execution'[q.key] \in {None, row}
      /\ Created(q, outcome) => execution[q.key] = None /\ execution'[q.key] = row
  BY <1>2, <1>3 DEF RInv, Tables, Created
<1>8. \A k \in Keys : Answered(k)'
  BY <1>1, <1>2, <1>6, <1>7 DEF RInv, Answered
<1>9. CASE Created(q, outcome)
  <2>1. /\ IsAsked(request'[w]) /\ request'[w].at = "execute" /\ request'[w].run = q.run
        /\ request'[w].key = q.key /\ request'[w].seen = q.seen
    BY <1>2, <1>4, <1>9 DEF IsAsked
  <2>2. Asked(w)'
    BY <1>1, <1>2, <2>1 DEF Asked
  <2>3. \A v \in Requests \ {w} :
          request[v].at \in {"execute", "complete"} => request[v].key # q.key
    BY <1>7, <1>9 DEF RInv, Holds
  <2>4. Holds(w)'
    BY <1>4, <1>6, <1>7, <1>9, <2>1, <2>3 DEF Holds
  <2>5. ASSUME NEW v \in Requests \ {w}
        PROVE  Holds(v)'
    <3>1. Holds(v) /\ Asked(v) /\ request'[v] = request[v]
      BY <1>4 DEF RInv
    <3>2. request[v].at \in {"execute", "complete"} =>
            execution'[request[v].key] = execution[request[v].key]
      BY <1>7, <2>3, <3>1 DEF Asked
    <3>. SUFFICES ASSUME request[v].at \in {"execute", "complete"}
                  PROVE  Holds(v)'
      BY <3>1 DEF Holds
    <3>3. /\ execution'[request'[v].key] = execution[request[v].key]
          /\ execution[request[v].key] # None
          /\ execution[request[v].key].status = "RUNNING"
          /\ execution[request[v].key].run = request[v].run
      BY <3>1, <3>2 DEF Holds
    <3>4. ASSUME NEW u \in Requests \ {v}, request'[u].at \in {"execute", "complete"}
          PROVE  request'[u].key # request'[v].key
      <4>1. CASE u = w
        BY <2>1, <2>3, <3>1, <4>1
      <4>2. CASE u # w
        BY <1>4, <3>1, <3>4, <4>2 DEF Holds
      <4>. QED  BY <4>1, <4>2
    <3>. QED  BY <3>1, <3>3, <3>4 DEF Holds
  <2>. QED  BY <1>5, <1>7, <1>8, <2>2, <2>4, <2>5, AsksKeep
<1>10. CASE ~Created(q, outcome)
  <2>1. request'[w].at = "idle"
    BY <1>4, <1>10 DEF Idle
  <2>2. Asked(w)' /\ Holds(w)'
    BY <2>1 DEF Asked, Holds
  <2>3. ASSUME NEW v \in Requests \ {w}
        PROVE  Holds(v)'
    <3>1. Holds(v) /\ Asked(v) /\ request'[v] = request[v]
      BY <1>4 DEF RInv
    <3>2. request[v].at \in {"execute", "complete"} =>
            execution'[request[v].key] = execution[request[v].key]
      BY <1>7, <3>1 DEF Asked, Holds
    <3>. QED  BY <1>4, <2>1, <3>1, <3>2 DEF Holds
  <2>. QED  BY <1>5, <1>7, <1>8, <2>2, <2>3, AsksKeep
<1>. QED  BY <1>9, <1>10

\* Only a tape that is still the one sealed can be PASSED.
LEMMA PassedIsIntact ==
  ASSUME NEW q, NEW b, Judged(q, b) = "PASSED"
  PROVE  Intact(q.seen, b)
  BY DEF Judged

\* Executing judges the tape against its seal; only a damaged bundle is invalidated.
LEMMA ExecuteKeeps ==
  ASSUME RInv, NEW w \in Requests, Execute(w)
  PROVE  RInv'
<1>. DEFINE q == request[w]  b == bundle[q.run]  verdict == Judged(q, b)
<1>1. /\ q.at = "execute"
      /\ UNCHANGED <<origin, run, emitted, tampered, execution>>
  BY DEF Execute
<1>2. /\ IsAsked(q) /\ q.run \in Runs /\ q.key \in Keys /\ WasSealed(b)
      /\ q.seen.start = b.start /\ q.seen.sealed = b.sealed
  BY <1>1 DEF RInv, Asked
<1>3. Row(origin[q.run], run[q.run], b, emitted[q.run], q.run \in tampered)
  BY <1>2 DEF RInv, Captured
<1>4. PICK slow \in BOOLEAN :
        /\ bundle' \in IF verdict = "UNSUPPORTED_SCHEMA" \/ Intact(q.seen, b) THEN {bundle}
                       ELSE {[bundle EXCEPT ![q.run].status = "INVALID"]}
                            \cup (IF slow THEN {bundle} ELSE {})
        /\ request' = [request EXCEPT ![w] = [at |-> "complete", run |-> q.run, key |-> q.key,
                          verdict |-> IF slow THEN "FAILED_SAFE" ELSE verdict,
                          slow |-> slow, version |-> version, tape |-> b.steps]]
  BY DEF Execute
<1>. DEFINE r == q.run
<1>5. \/ bundle' = bundle
      \/ bundle' = [bundle EXCEPT ![r].status = "INVALID"] /\ ~Intact(q.seen, b)
  BY <1>4
<1>6. /\ b # None /\ IsBundle(b) /\ b.start = Facts(origin[r])
      /\ b.sealed = [start |-> Facts(origin[r]), steps |-> emitted[r], expected |-> Last(emitted[r]).facts]
      /\ r \notin tampered => b.sealed = Sealed(b)
  BY <1>2, <1>3 DEF Row, Typed, SealFits, WasSealed
<1>7. Intact(q.seen, b) => b.steps = emitted[r]
  <2>. HIDE DEF q, b
  <2>. QED  BY <1>2, <1>6 DEF Intact, Sealed
<1>8. r \notin tampered => Intact(q.seen, b)
  <2>. HIDE DEF q, b
  <2>. QED  BY <1>2, <1>6, FactsStored DEF Intact
<1>9. \A u \in Runs \ {r} : bundle'[u] = bundle[u]
  BY <1>2, <1>5 DEF RInv, Tables
<1>10. /\ bundle'[r] # None /\ IsBundle(bundle'[r]) /\ WasSealed(bundle'[r])
       /\ bundle'[r].start = b.start /\ bundle'[r].sealed = b.sealed
       /\ r \notin tampered => bundle'[r] = b
  <2>1. CASE bundle' = bundle
    BY <1>2, <1>6, <2>1
  <2>2. CASE bundle' = [bundle EXCEPT ![r].status = "INVALID"] /\ ~Intact(q.seen, b)
    <3>1. bundle'[r] = [b EXCEPT !.status = "INVALID"]
      BY <1>2, <2>2 DEF RInv, Tables
    <3>. HIDE DEF q, b, r
    <3>2. bundle'[r] = [status |-> "INVALID", start |-> b.start, steps |-> b.steps,
                        expected |-> b.expected, sealed |-> b.sealed, schema |-> b.schema]
      BY <1>6, <3>1 DEF IsBundle
    <3>. QED  BY <1>8, <2>2, <3>2 DEF IsBundle, WasSealed, None
  <2>. QED  BY <1>5, <2>1, <2>2
<1>11. bundle' = [u \in Runs |-> bundle'[u]]
  BY <1>5 DEF RInv, Tables
<1>12. /\ request' = [v \in Requests |-> request'[v]]
       /\ \A v \in Requests \ {w} : request'[v] = request[v]
       /\ request'[w] = [at |-> "complete", run |-> r, key |-> q.key,
                         verdict |-> IF slow THEN "FAILED_SAFE" ELSE verdict,
                         slow |-> slow, version |-> version, tape |-> b.steps]
  BY <1>4 DEF RInv, Tables
<1>13. /\ IsJudged(request'[w]) /\ request'[w].at = "complete" /\ request'[w].slow \in BOOLEAN
       /\ request'[w].run = r /\ request'[w].key = q.key
       /\ request'[w].verdict = "PASSED" =>
            ~request'[w].slow /\ request'[w].tape = emitted[r]
  <2>1. verdict = "PASSED" => b.steps = emitted[r]
    BY <1>7, PassedIsIntact
  <2>. HIDE DEF verdict, q, b, r
  <2>. QED  BY <1>12, <2>1 DEF IsJudged
<1>14. SealsKept
  BY <1>1, <1>9, <1>10 DEF SealsKept
<1>15. Tables'
  BY <1>1, <1>11, <1>12 DEF RInv, Tables
<1>16. ASSUME NEW u \in Runs
       PROVE  Captured(u)'
  <2>1. Row(origin[u], run[u], bundle[u], emitted[u], u \in tampered)
    BY DEF RInv, Captured
  <2>2. CASE bundle'[u] = bundle[u]
    <3>1. /\ origin'[u] = origin[u] /\ run'[u] = run[u] /\ emitted'[u] = emitted[u]
          /\ (u \in tampered') = (u \in tampered)
      BY <1>1
    <3>. QED  BY <2>1, <2>2, <3>1 DEF Captured
  <2>3. CASE bundle'[u] # bundle[u]
    <3>1. u = r /\ r \in tampered
      BY <1>9, <1>10, <2>3
    <3>. HIDE DEF q, b, r
    <3>2. Typed(origin[r], run[r], bundle'[r], emitted[r])
      BY <1>3, <1>10, <3>1 DEF Row, Typed, WasSealed, r
    <3>3. run[r].at \notin Working \cup {"begin"}
      BY <1>2, <1>3 DEF Row, OnTape, Untouched, WasSealed, r
    <3>4. /\ Untouched(origin[r], run[r], bundle'[r], emitted[r])
          /\ OnTape(run[r], bundle'[r], emitted[r])
          /\ StartKept(origin[r], run[r], bundle'[r], emitted[r])
      BY <3>3 DEF Untouched, OnTape, StartKept, Working
    <3>5. SealFits(origin[r], run[r], bundle'[r], emitted[r], TRUE)
      BY <1>2, <1>3, <1>10 DEF Row, SealFits, r
    <3>. QED  BY <1>1, <3>1, <3>2, <3>4, <3>5 DEF Captured, Row, SealFits
  <2>. QED  BY <2>2, <2>3
<1>17. ASSUME NEW v \in Requests
       PROVE  Asked(v)' /\ Holds(v)'
  <2>1. CASE v = w
    <3>1. Asked(w)'
      BY <1>1, <1>2, <1>10, <1>13 DEF Asked
    <3>2. Holds(w)'
      BY <1>1, <1>2, <1>12, <1>13 DEF RInv, Holds
    <3>. QED  BY <2>1, <3>1, <3>2
  <2>2. CASE v # w
    <3>1. Asked(v)'
      BY <1>12, <1>14, <1>1, <2>2 DEF RInv, Asked, SealsKept
    <3>2. Holds(v)'
      BY <1>1, <1>12, <1>13, <2>2 DEF RInv, Holds
    <3>. QED  BY <3>1, <3>2
  <2>. QED  BY <2>1, <2>2
<1>18. \A k \in Keys : Answered(k)'
  BY <1>1, <1>14 DEF RInv, Answered, SealsKept
<1>. QED  BY <1>15, <1>16, <1>17, <1>18 DEF RInv

\* Giving up leaves the row as it is.
LEMMA ExecuteRaisesKeeps ==
  ASSUME RInv, NEW w \in Requests, ExecuteRaises(w)
  PROVE  RInv'
<1>1. /\ UNCHANGED <<origin, run, emitted, bundle, tampered, execution>>
      /\ request' = [request EXCEPT ![w] = Idle]
  BY DEF ExecuteRaises
<1>2. /\ request'[w] = Idle /\ request' = [request EXCEPT ![w] = request'[w]]
      /\ \A v \in Requests \ {w} : request'[v] = request[v]
  BY <1>1 DEF RInv, Tables
<1>3. Asks(w) /\ execution' = [k \in Keys |-> execution'[k]]
  BY <1>1, <1>2 DEF Asks, RInv, Tables
<1>4. Asked(w)' /\ Holds(w)'
  BY <1>2 DEF Asked, Holds, Idle
<1>5. \A v \in Requests \ {w} : Holds(v)'
  BY <1>1, <1>2 DEF RInv, Holds, Idle
<1>6. \A k \in Keys : Answered(k)'
  BY <1>1 DEF RInv, Answered
<1>. QED  BY <1>3, <1>4, <1>5, <1>6, AsksKeep

\* The verdict goes to the row of the key, which nobody else is about to answer.
LEMMA CompleteExecutionKeeps ==
  ASSUME RInv, NEW w \in Requests, CompleteExecution(w)
  PROVE  RInv'
<1>. DEFINE q == request[w]  x == execution[q.key]
            judged == [tape |-> q.tape, slow |-> q.slow, version |-> q.version]
<1>1. /\ q.at = "complete" /\ UNCHANGED <<origin, run, emitted, bundle, tampered>>
      /\ request' = [request EXCEPT ![w] = Idle]
  BY DEF CompleteExecution
<1>2. /\ q.run \in Runs /\ q.key \in Keys /\ WasSealed(bundle[q.run])
      /\ q.verdict = "PASSED" => ~q.slow /\ q.tape = emitted[q.run]
      /\ x # None /\ x.run = q.run /\ IsExecution(x)
      /\ \A v \in Requests \ {w} :
           request[v].at \in {"execute", "complete"} => request[v].key # q.key
  BY <1>1 DEF RInv, Asked, Holds, Answered
<1>3. PICK outcome \in Outcomes :
        execution' = IF outcome # "failed" /\ execution[q.key].status = "RUNNING"
                     THEN [execution EXCEPT ![q.key].status = q.verdict, ![q.key].finals = @ + 1,
                             ![q.key].judged = judged]
                     ELSE execution
  BY DEF CompleteExecution
<1>. DEFINE y == [x EXCEPT !.status = q.verdict, !.finals = x.finals + 1, !.judged = judged]
<1>4. execution' = execution \/ execution' = [execution EXCEPT ![q.key] = y]
  BY <1>2, <1>3 DEF RInv, Tables
<1>5. /\ request'[w] = Idle /\ request' = [request EXCEPT ![w] = request'[w]]
      /\ \A v \in Requests \ {w} : request'[v] = request[v]
  BY <1>1 DEF RInv, Tables
<1>6. Asks(w)
  BY <1>1, <1>5 DEF Asks
<1>. HIDE DEF y
<1>7. /\ execution' = [k \in Keys |-> execution'[k]]
      /\ \A k \in Keys \ {q.key} : execution'[k] = execution[k]
      /\ execution'[q.key] \in {x, y}
  BY <1>2, <1>4 DEF RInv, Tables
<1>. HIDE DEF q, x
<1>8. y = [run |-> x.run, status |-> q.verdict, judged |-> judged, finals |-> x.finals + 1]
  <2>. DEFINE n == x.finals + 1
  <2>1. y = [x EXCEPT !.status = q.verdict, !.finals = n, !.judged = judged]
    BY DEF y
  <2>2. x = [run |-> x.run, status |-> x.status, judged |-> x.judged, finals |-> x.finals]
    BY <1>2 DEF IsExecution
  <2>. HIDE DEF n, judged
  <2>3. y = [run |-> x.run, status |-> q.verdict, judged |-> judged, finals |-> n]
    BY <2>1, <2>2
  <2>. QED  BY <2>3 DEF n
<1>9. /\ y # None /\ IsExecution(y) /\ y.run = q.run /\ y.status = q.verdict
      /\ y.judged.tape = q.tape /\ y.judged.slow = q.slow
  BY <1>2, <1>8 DEF IsExecution, None
<1>10. ASSUME NEW k \in Keys
       PROVE  Answered(k)'
  <2>1. CASE execution'[k] = execution[k]
    BY <1>1, <2>1 DEF RInv, Answered
  <2>2. CASE execution'[k] # execution[k]
    <3>1. execution'[k] = y
      BY <1>7, <2>2 DEF x
    <3>2. y.status = "PASSED" => ~y.judged.slow /\ y.judged.tape = emitted[y.run]
      BY <1>2, <1>9
    <3>. QED  BY <1>1, <1>2, <1>9, <3>1, <3>2 DEF Answered
  <2>. QED  BY <2>1, <2>2
<1>11. Asked(w)' /\ Holds(w)'
  BY <1>5 DEF Asked, Holds, Idle
<1>12. ASSUME NEW v \in Requests \ {w}
       PROVE  Holds(v)'
  <2>1. Holds(v) /\ Asked(v) /\ request'[v] = request[v]
    BY <1>5 DEF RInv
  <2>2. request[v].at \in {"execute", "complete"} =>
          execution'[request[v].key] = execution[request[v].key]
    BY <1>2, <1>7, <2>1 DEF Asked
  <2>. QED  BY <1>5, <2>1, <2>2 DEF Holds, Idle
<1>. QED  BY <1>6, <1>7, <1>10, <1>11, <1>12, AsksKeep

\* A crash forgets captures and verifications; the rows stay as they are.
LEMMA CrashKeeps ==
  ASSUME RInv, Crash
  PROVE  RInv'
<1>1. /\ UNCHANGED <<origin, emitted, bundle, tampered, execution>>
      /\ run' = [r \in Runs |-> IF run[r].at \in Over THEN run[r] ELSE [run[r] EXCEPT !.at = "crashed"]]
      /\ request' = [w \in Requests |-> Idle]
  BY DEF Crash
<1>2. Tables'
  BY <1>1 DEF RInv, Tables
<1>3. ASSUME NEW r \in Runs
      PROVE  Captured(r)'
  <2>. DEFINE c == run[r]  d == run'[r]
  <2>1. Row(origin[r], c, bundle[r], emitted[r], r \in tampered)
    BY DEF RInv, Captured
  <2>2. d = IF c.at \in Over THEN c ELSE [c EXCEPT !.at = "crashed"]
    BY <1>1
  <2>. HIDE DEF c, d
  <2>3. /\ IsRun(d) /\ d.at \in Over /\ d.m = c.m
        /\ d.known = c.known /\ d.error = c.error /\ d.entered = c.entered
    BY <2>1, <2>2 DEF Row, Typed, IsRun, Over
  <2>4. Typed(origin[r], d, bundle[r], emitted[r])
    BY <2>1, <2>3 DEF Row, Typed
  <2>5. /\ Untouched(origin[r], d, bundle[r], emitted[r]) /\ OnTape(d, bundle[r], emitted[r])
        /\ StartKept(origin[r], d, bundle[r], emitted[r])
    BY <2>3 DEF Untouched, OnTape, StartKept, Over, Working, OperatorAt
  <2>6. SealFits(origin[r], d, bundle[r], emitted[r], r \in tampered)
    BY <2>1 DEF Row, SealFits
  <2>7. Row(origin[r], d, bundle[r], emitted[r], r \in tampered)
    BY <2>4, <2>5, <2>6 DEF Row
  <2>. QED  BY <1>1, <2>7 DEF Captured, d
<1>4. \A w \in Requests : Asked(w)' /\ Holds(w)'
  BY <1>1 DEF Asked, Holds, Idle
<1>5. \A k \in Keys : Answered(k)'
  BY <1>1 DEF RInv, Answered
<1>. QED  BY <1>2, <1>3, <1>4, <1>5 DEF RInv

\* A step that touches none of these tables keeps what is said of them.
LEMMA StutterKeeps ==
  ASSUME RInv, UNCHANGED <<origin, run, emitted, bundle, tampered, execution, request>>
  PROVE  RInv'
  BY DEF RInv, Tables, Captured, Asked, Holds, Answered

\* Nothing is recorded, sealed or asked to begin with.
LEMMA InitRInv == Init => RInv
<1>. SUFFICES ASSUME Init
              PROVE  RInv
  OBVIOUS
<1>1. Tables
  BY DEF Init, Tables
<1>2. ASSUME NEW r \in Runs
      PROVE  Captured(r)
  <2>. DEFINE c == run[r]
  <2>1. PICK unkept \in Unkept(origin[r]) :
             c = [at |-> "begin", m |-> Begun(origin[r], unkept), known |-> FALSE,
                  error |-> FALSE, entered |-> FALSE, ended |-> "no"]
    BY DEF Init
  <2>6. emitted[r] = <<>> /\ bundle[r] = None /\ r \notin tampered /\ origin[r] \in Origins
    BY DEF Init
  <2>. HIDE DEF c
  <2>2. IsMachine(c.m) /\ IsTape(<<>>) /\ c.m = Begun(origin[r], c.m.unkept) /\ c.m.unkept = unkept
    BY <2>1 DEF IsMachine, Begun, Fresh, At, IsTape
  <2>3. Typed(origin[r], c, bundle[r], emitted[r])
    BY <2>1, <2>2, <2>6 DEF Typed, IsRun
  <2>4. /\ Untouched(origin[r], c, bundle[r], emitted[r]) /\ OnTape(c, bundle[r], emitted[r])
        /\ StartKept(origin[r], c, bundle[r], emitted[r])
    BY <2>1, <2>2, <2>6 DEF Untouched, OnTape, StartKept, Working, OperatorAt
  <2>5. SealFits(origin[r], c, bundle[r], emitted[r], r \in tampered)
    BY <2>6 DEF SealFits, WasSealed
  <2>. QED  BY <2>3, <2>4, <2>5 DEF Captured, Row, c
<1>3. \A w \in Requests : Asked(w) /\ Holds(w)
  BY DEF Init, Asked, Holds
<1>4. \A k \in Keys : Answered(k)
  BY DEF Init, Answered
<1>. QED  BY <1>1, <1>2, <1>3, <1>4 DEF RInv

\* Every step keeps the invariant.
LEMMA StepRInv == RInv /\ [Next]_vars => RInv'
<1>1. ASSUME RInv, NEW r \in Runs,
             Begin(r) \/ Preflight(r) \/ EnterNode(r) \/ Emit(r) \/ CallRaises(r)
               \/ Close(r) \/ OperatorStep(r) \/ Damage(r)
      PROVE  RInv'
  BY <1>1, BeginKeeps, PreflightKeeps, EnterNodeKeeps, EmitKeeps, CallRaisesKeeps, CloseKeeps,
     OperatorStepKeeps, DamageKeeps
<1>2. ASSUME RInv, NEW w \in Requests,
             Ask(w) \/ CreateExecution(w) \/ Execute(w) \/ ExecuteRaises(w)
               \/ CompleteExecution(w)
      PROVE  RInv'
  BY <1>2, AskKeeps, CreateExecutionKeeps, ExecuteKeeps, ExecuteRaisesKeeps,
     CompleteExecutionKeeps
<1>3. ASSUME RInv, Release
      PROVE  RInv'
  BY <1>3, StutterKeeps DEF Release
<1>4. ASSUME RInv, UNCHANGED vars
      PROVE  RInv'
  BY <1>4, StutterKeeps DEF vars
<1>. QED  BY <1>1, <1>2, <1>3, <1>4, CrashKeeps DEF Next

-----------------------------------------------------------------------------
(***************************************************************************)
(* What a replay does with a tape that grows by a step.                    *)
(***************************************************************************)
\* Of some positions of a tape, one is the first.
LEMMA FirstExists ==
  ASSUME NEW n \in Nat, NEW S, S \subseteq 1..n, S # {}
  PROVE  \E i \in S : \A j \in S : i <= j
<1>. DEFINE upTo(k) == 1..k
            T == {upTo(k) : k \in S}
            R == StrictSubsetOrdering(1..n)
<1>1. T \subseteq FiniteSubsetsOf(1..n) /\ T # {}
  <2>1. \A k \in S : upTo(k) \subseteq 1..n
    BY SMT
  <2>2. \A k \in S : IsFiniteSet(upTo(k))
    BY FS_Interval
  <2>. QED  BY <2>1, <2>2 DEF FiniteSubsetsOf
<1>2. IsWellFoundedOn(R, FiniteSubsetsOf(1..n))
  BY FS_Interval, FS_StrictSubsetOrderingWellFounded
<1>3. PICK X \in T : \A Y \in T : ~(<<Y, X>> \in R)
  <2>. HIDE DEF R, T
  <2>. QED  BY <1>1, <1>2, WFMin
<1>4. PICK i \in S : X = upTo(i)
  OBVIOUS
<1>5. ASSUME NEW j \in S, j < i PROVE FALSE
  <2>1. upTo(j) \in SUBSET (1..n) /\ upTo(i) \in SUBSET (1..n)
    BY SMT
  <2>2. upTo(j) \subseteq upTo(i) /\ upTo(j) # upTo(i)
    BY <1>5, SMT
  <2>3. <<upTo(j), upTo(i)>> \in R
    BY <2>1, <2>2 DEF StrictSubsetOrdering
  <2>. QED  BY <1>3, <1>4, <2>3
<1>. QED  BY <1>5, SMT

\* A replay before its first step, and f the replay after each of n steps.
Unplayed(m) == [m |-> m, stopped |-> "none", mismatch |-> FALSE]
Unfolds(f, n, steps, m, v) ==
  f = [k \in 0..n |-> IF k = 0 THEN Unplayed(m) ELSE Consume(steps[k], f[k - 1], v)]

\* Every tape can be played to its end.
LEMMA UnfoldsSomehow ==
  ASSUME NEW n \in Nat, NEW steps, NEW m, NEW v
  PROVE  \E f : Unfolds(f, n, steps, m, v)
<1>. DEFINE P(k) == \E f : Unfolds(f, k, steps, m, v)
            S == {k \in 1..n : ~P(k)}
<1>1. P(0)
  <2>. DEFINE f == [k \in 0..0 |-> Unplayed(m)]
  <2>1. f = [k \in 0..0 |-> IF k = 0 THEN Unplayed(m) ELSE Consume(steps[k], f[k - 1], v)]
    OBVIOUS
  <2>. QED  BY <2>1 DEF Unfolds
<1>2. S = {}
  <2>. SUFFICES ASSUME S # {} PROVE FALSE
    OBVIOUS
  <2>1. PICK i \in S : \A j \in S : i <= j
    <3>1. S \subseteq 1..n
      OBVIOUS
    <3>. HIDE DEF S
    <3>. QED  BY <3>1, FirstExists
  <2>2. i \in 1..n /\ ~P(i)
    BY <2>1
  <2>3. P(i - 1)
    <3>1. CASE i = 1
      BY <1>1, <3>1
    <3>2. CASE i # 1
      <4>1. i - 1 \in 1..n /\ ~(i <= i - 1)
        BY <2>2, <3>2
      <4>. HIDE DEF P
      <4>. QED  BY <2>1, <4>1
    <3>. QED  BY <3>1, <3>2
  <2>4. PICK g : Unfolds(g, i - 1, steps, m, v)
    BY <2>3
  <2>. DEFINE h == [k \in 0..i |-> IF k = 0 THEN Unplayed(m) ELSE Consume(steps[k], g[k - 1], v)]
  <2>5. \A k \in 0..i - 1 : h[k] = g[k]
    BY <2>2, <2>4 DEF Unfolds
  <2>6. \A k \in 0..i : k # 0 => k - 1 \in 0..i - 1
    BY <2>2
  <2>7. h = [k \in 0..i |-> IF k = 0 THEN Unplayed(m) ELSE Consume(steps[k], h[k - 1], v)]
    BY <2>5, <2>6
  <2>. HIDE DEF h
  <2>8. Unfolds(h, i, steps, m, v)
    BY <2>7 DEF Unfolds
  <2>. QED  BY <2>2, <2>8
<1>3. CASE n = 0
  BY <1>1, <1>3
<1>4. CASE n # 0
  <2>1. n \in 1..n
    BY <1>4
  <2>. HIDE DEF P
  <2>2. P(n)
    BY <1>2, <2>1
  <2>. QED  BY <2>2 DEF P
<1>. QED  BY <1>3, <1>4

BeginAlike(s, t, n) == \A k \in 1..n : s[k] = t[k]

\* Two tapes that begin alike are played alike so far.
LEMMA UnfoldsAlike ==
  ASSUME NEW n \in Nat, NEW o \in Nat, n <= o, NEW s, NEW t, BeginAlike(s, t, n),
         NEW m, NEW v, NEW f, Unfolds(f, n, s, m, v), NEW g, Unfolds(g, o, t, m, v)
  PROVE  f[n] = g[n]
<1>. DEFINE S == {k \in 1..n : f[k] # g[k]}
<1>1. f[0] = Unplayed(m) /\ g[0] = Unplayed(m)
  BY DEF Unfolds
<1>2. ASSUME NEW k \in 1..n
      PROVE  f[k] = Consume(s[k], f[k - 1], v) /\ g[k] = Consume(t[k], g[k - 1], v)
  <2>1. k \in 0..n /\ k \in 0..o /\ k # 0
    OBVIOUS
  <2>2. f[k] = Consume(s[k], f[k - 1], v)
    BY <2>1 DEF Unfolds
  <2>3. g[k] = Consume(t[k], g[k - 1], v)
    BY <2>1 DEF Unfolds
  <2>. QED  BY <2>2, <2>3
<1>3. S = {}
  <2>. SUFFICES ASSUME S # {} PROVE FALSE
    OBVIOUS
  <2>1. PICK i \in S : \A j \in S : i <= j
    <3>1. S \subseteq 1..n
      OBVIOUS
    <3>. HIDE DEF S
    <3>. QED  BY <3>1, FirstExists
  <2>2. f[i - 1] = g[i - 1]
    <3>1. CASE i = 1
      BY <1>1, <3>1
    <3>2. CASE i # 1
      <4>1. i - 1 \in 1..n /\ ~(i <= i - 1)
        BY <3>2
      <4>. QED  BY <2>1, <4>1
    <3>. QED  BY <3>1, <3>2
  <2>3. i \in 1..n
    OBVIOUS
  <2>4. s[i] = t[i]
    BY <2>3 DEF BeginAlike
  <2>5. f[i] = g[i]
    BY ONLY <1>2, <2>2, <2>3, <2>4
  <2>. QED  BY <2>1, <2>5
<1>4. CASE n = 0
  BY <1>1, <1>4
<1>5. CASE n # 0
  <2>1. n \in 1..n
    BY <1>5
  <2>. QED  BY <1>3, <2>1
<1>. QED  BY <1>4, <1>5

LEMMA PlayedUnfolds ==
  ASSUME NEW steps, Len(steps) \in Nat, NEW m, NEW v
  PROVE  \E f : Unfolds(f, Len(steps), steps, m, v) /\ Played(steps, m, v) = f[Len(steps)]
<1>. DEFINE play == CHOOSE f : f = [k \in 0..Len(steps) |->
                                      IF k = 0 THEN [m |-> m, stopped |-> "none", mismatch |-> FALSE]
                                      ELSE Consume(steps[k], f[k - 1], v)]
<1>1. Played(steps, m, v) = play[Len(steps)]
  BY DEF Played
<1>2. Unfolds(play, Len(steps), steps, m, v)
  <2>1. \E f : Unfolds(f, Len(steps), steps, m, v)
    BY UnfoldsSomehow, Zenon
  <2>2. Unfolds(CHOOSE f : Unfolds(f, Len(steps), steps, m, v), Len(steps), steps, m, v)
    BY <2>1, Zenon
  <2>3. play = CHOOSE f : Unfolds(f, Len(steps), steps, m, v)
    BY DEF Unfolds, Unplayed
  <2>. QED  BY <2>2, <2>3, Zenon
<1>. QED  BY <1>1, <1>2

\* An empty tape leaves the graph where it was started.
LEMMA PlayedEmpty ==
  ASSUME NEW m, NEW v
  PROVE  Played(<<>>, m, v) = Unplayed(m)
<1>1. Len(<<>>) = 0
  OBVIOUS
<1>2. PICK f : Unfolds(f, 0, <<>>, m, v) /\ Played(<<>>, m, v) = f[0]
  BY <1>1, PlayedUnfolds
<1>. QED  BY <1>2 DEF Unfolds

\* A step more on the tape is one step more of the replay.
LEMMA PlayedAppend ==
  ASSUME NEW e, IsTape(e), NEW step, NEW m, NEW v
  PROVE  Played(Append(e, step), m, v) = Consume(step, Played(e, m, v), v)
<1>. DEFINE t == Append(e, step)
<1>1. /\ Len(e) \in Nat /\ Len(t) = Len(e) + 1 /\ t[Len(e) + 1] = step
      /\ \A k \in 1..Len(e) : e[k] = t[k]
  <2>. DEFINE T == {e[i] : i \in DOMAIN e} \cup {step}
  <2>1. e \in Seq(T) /\ step \in T
    BY DEF IsTape
  <2>. HIDE DEF T
  <2>. QED  BY <2>1
<1>. HIDE DEF t
<1>2. PICK f : Unfolds(f, Len(e), e, m, v) /\ Played(e, m, v) = f[Len(e)]
  BY <1>1, PlayedUnfolds
<1>3. PICK g : Unfolds(g, Len(e) + 1, t, m, v) /\ Played(t, m, v) = g[Len(e) + 1]
  BY <1>1, PlayedUnfolds
<1>4. f[Len(e)] = g[Len(e)]
  <2>1. Len(e) \in Nat
    BY <1>1
  <2>2. Len(e) + 1 \in Nat /\ Len(e) <= Len(e) + 1
    BY <2>1
  <2>3. BeginAlike(e, t, Len(e))
    BY <1>1 DEF BeginAlike
  <2>4. Unfolds(f, Len(e), e, m, v) /\ Unfolds(g, Len(e) + 1, t, m, v)
    BY <1>2, <1>3
  <2>. QED  BY ONLY <2>1, <2>2, <2>3, <2>4, UnfoldsAlike
<1>5. g[Len(e) + 1] = Consume(step, g[Len(e)], v)
  <2>1. /\ Len(e) + 1 \in 0..(Len(e) + 1) /\ Len(e) + 1 # 0 /\ (Len(e) + 1) - 1 = Len(e)
    BY <1>1
  <2>. QED  BY <1>1, <1>3, <2>1 DEF Unfolds
<1>. QED  BY <1>2, <1>3, <1>4, <1>5 DEF t

-----------------------------------------------------------------------------
(***************************************************************************)
(* How far the replay of what a run emitted follows the run.               *)
(***************************************************************************)
Versions == {1, 2, 3}
Play(o, e, v) == Played(GraphTape(o, e), Primed(o, Facts(o)), v)
IsPlay(p) ==
  /\ p = [m |-> p.m, stopped |-> p.stopped, mismatch |-> p.mismatch]
  /\ p.stopped \in {"none", "INCOMPLETE", "FAILED_SAFE"}
IsFacts(f) ==
  /\ f = [verified |-> f.verified, done |-> f.done, slots |-> f.slots, intent |-> f.intent]
  /\ f.slots \in BOOLEAN
Clean(p) == p.stopped = "none" /\ ~p.mismatch

\* The machine as a replay restores it: without what the stored state does not keep.
Bare(m) == [m EXCEPT !.unkept = "nothing"]
\* Where a resumed run, one that was offered times and one that asks for times may stand.
Placed(m) ==
  /\ m.resumed => m.at = "enter" /\ m.node = "need_information"
  /\ m.facts.slots => IF m.at = "route" THEN m.node = "list_slots"
                      ELSE m.at # "call" /\ m.node = "select_slot"
  /\ m.node = "list_slots" /\ m.at = "call" => ~ClockHasPassed(m)
\* The next decision or question depends on what is not kept.
Apart(m) ==
  \/ m.at = "route" /\ Decision(m) # Decision(Bare(m))
  \/ m.at = "interrupt" /\ Question(m) # Question(Bare(m))
\* The run took a decision by what is not kept, and will end where it led.
Strayed(m) == LeftOut(m) /\ ~m.resumed /\ m.at \in {"enter", "interrupt", "final", "over"}

\* The replay stands where the run stands.
InStep(o, c, e, p) ==
  /\ Clean(p) /\ p.m = Bare(c.m) /\ Placed(c.m)
  /\ o \notin {"retry", "availability", "operator"}
  /\ c.m.node # "operator" /\ IsFacts(c.m.facts)
  /\ c.m.at \in GraphAt \cup {"over"} /\ (c.m.at # "enter" => e # <<>>)
  /\ c.ended = IF c.m.at = "over" THEN "answered" ELSE "no"

\* A machine that has not moved yet.
Unmoved(o, m) == m = Begun(o, m.unkept)
\* The run is on its way to the graph, or was turned away before it.
Early(o, c, e, p) ==
  /\ Clean(p) /\ p.m = Primed(o, Facts(o)) /\ ~c.entered /\ o \notin {"new", "operator"}
  /\ \/ Unmoved(o, c.m) /\ e = <<>> /\ c.ended = "no"
     \/ c.m.at = "refresh" /\ c.m.node = Entry(o) /\ e # <<>> /\ c.ended = "refreshed"
     \/ /\ c.m.at = "enter" /\ o \in {"retry", "availability"} /\ e # <<>>
        /\ o = "retry" => c.m.node = "mutate"
     \/ c.m.at = "over" /\ c.ended = "raised"

\* The clock named has passed: the run asked for no times, the replay waits for them.
Parted(c, e, p) ==
  /\ Clean(p) /\ p.m.at = "call" /\ e # <<>>
  /\ c.m.at = "route" /\ c.m.node = "list_slots" /\ ClockHasPassed(c.m)
  /\ ~c.m.facts.slots /\ ~c.m.resumed /\ c.ended = "no"

\* A call raised: the run goes to its end, the replay still waits for the answer.
Failing(c, e, p) ==
  Clean(p) /\ p.m.at = "call" /\ c.m.at = "final" /\ c.ended = "raised" /\ e # <<>>

\* Another version of the graph forgot what this one learned, or the other way round.
Forgotten(c, e, p) ==
  Clean(p) /\ p.m.at = "enter" /\ c.m.at = "enter" /\ p.m.facts # c.m.facts /\ e # <<>>

\* The replay stopped or differed.  With the graph of the run it has a cause for that.
Gone(o, c, e, p, same) ==
  /\ ~Clean(p) /\ e # <<>>
  /\ same => o \in {"retry", "availability"} \/ c.ended \notin {"no", "answered"} \/ Strayed(c.m)

\* The operator's action: a mutation and a final state.
Acted(o, c, b, e, p) ==
  /\ c.at \notin {"running", "closing"}
  /\ e # <<>> => c.ended = "answered"
  /\ c.at \in {"begin", "stating", "acting"} => e = <<>> /\ c.m = Fresh(o)
  /\ c.at = "ending" => Clean(p) /\ p.m = c.m /\ c.m.node = "operator" /\ c.m.at = "final"
  /\ c.at = "sealing" \/ WasSealed(b) => Clean(p) /\ p.m.at = "over"

Follows(o, c, b, e, v, same) ==
  LET p == Play(o, e, v) IN
  /\ IsPlay(p)
  /\ IF o = "operator" THEN Acted(o, c, b, e, p)
     ELSE \/ InStep(o, c, e, p) \/ Early(o, c, e, p) \/ Parted(c, e, p) \/ Failing(c, e, p)
          \/ Forgotten(c, e, p) /\ ~same
          \/ Gone(o, c, e, p, same)

\* What a verdict on run r says of the run.
Justified(r, verdict, slow, v) ==
  IF verdict = "PASSED" THEN run[r].ended = "answered" /\ origin[r] # "retry"
  ELSE \/ r \in tampered \/ slow \/ v > 1 \/ run[r].ended # "answered"
       \/ origin[r] \in {"retry", "availability"} \/ LeftOut(run[r].m)

Followed(r) ==
  \A v \in Versions : Follows(origin[r], run[r], bundle[r], emitted[r], v, version = 1 /\ v = 1)
OfSchema(r) == version = 1 /\ bundle[r] # None => bundle[r].schema = 1
Judging(w) ==
  LET q == request[w] IN
  /\ q.at \in {"create", "execute"} /\ version = 1 => q.seen.schema = 1
  /\ q.at = "complete" => Justified(q.run, q.verdict, q.slow, q.version)
Verdict(k) ==
  LET x == execution[k] IN
  x # None /\ x.status # "RUNNING" =>
    Justified(x.run, x.status, x.judged.slow, x.judged.version)

FInv ==
  /\ RInv /\ version \in Versions
  /\ \A r \in Runs : Followed(r) /\ OfSchema(r)
  /\ \A w \in Requests : Judging(w)
  /\ \A k \in Keys : Verdict(k)

\* A replay that has not consumed anything stands at its start.
LEMMA PlayStarts ==
  ASSUME NEW o, NEW v
  PROVE  Play(o, <<>>, v) = Unplayed(Primed(o, Facts(o)))
<1>1. GraphTape(o, <<>>) = <<>>
  BY DEF GraphTape
<1>. QED  BY <1>1, PlayedEmpty DEF Play

\* A recorded preflight at the head of a tape is passed over.
LEMMA PlayPreflight ==
  ASSUME NEW o, o # "operator", NEW v, NEW step, step.kind = "PROPERTY_AUTHORIZATION_RESULT"
  PROVE  Play(o, Append(<<>>, step), v) = Unplayed(Primed(o, Facts(o)))
<1>1. Append(<<>>, step) = <<step>> /\ Head(<<step>>) = step /\ Tail(<<step>>) = <<>>
      /\ <<step>> # <<>>
  OBVIOUS
<1>2. GraphTape(o, Append(<<>>, step)) = <<>>
  BY <1>1 DEF GraphTape
<1>. QED  BY <1>2, PlayedEmpty DEF Play

\* Every other step is one step more of the replay.
LEMMA PlayGrows ==
  ASSUME NEW o, NEW e, IsTape(e), NEW step, NEW v,
         e # <<>> \/ step.kind # "PROPERTY_AUTHORIZATION_RESULT" \/ o = "operator"
  PROVE  Play(o, Append(e, step), v) = Consume(step, Play(o, e, v), v)
<1>. DEFINE T == {e[i] : i \in DOMAIN e} \cup {step}
            t == GraphTape(o, e)
<1>1. e \in Seq(T) /\ step \in T
  BY DEF IsTape
<1>2. IsTape(t) /\ GraphTape(o, Append(e, step)) = Append(t, step)
  <2>. HIDE DEF T
  <2>1. CASE e = <<>>
    <3>1. /\ Append(e, step) = <<step>> /\ Head(<<step>>) = step /\ t = <<>>
      BY <2>1 DEF GraphTape
    <3>2. IsTape(t) /\ Append(t, step) = <<step>>
      BY <3>1 DEF IsTape
    <3>. QED  BY <2>1, <3>1, <3>2 DEF GraphTape
  <2>2. CASE e # <<>>
    <3>1. /\ Head(Append(e, step)) = Head(e) /\ Append(e, step) # <<>>
          /\ Tail(Append(e, step)) = Append(Tail(e), step) /\ Tail(e) \in Seq(T)
      BY <1>1, <2>2
    <3>2. IsTape(Tail(e))
      BY <3>1, SeqIsTape
    <3>. QED  BY <2>2, <3>1, <3>2 DEF GraphTape
  <2>. QED  BY <2>1, <2>2
<1>. HIDE DEF t
<1>3. Played(Append(t, step), Primed(o, Facts(o)), v)
        = Consume(step, Played(t, Primed(o, Facts(o)), v), v)
  BY <1>2, PlayedAppend
<1>. QED  BY <1>2, <1>3 DEF Play, t

\* What one step does to a replay.
LEMMA ConsumeTells ==
  ASSUME NEW step, NEW p, IsPlay(p), NEW v
  PROVE  LET n == Consume(step, p, v)
             next == AnswerOnTape(step, p.m, v)
         IN  /\ IsPlay(n)
             /\ ~Clean(p) => ~Clean(n)
             /\ Clean(p) /\ p.m.at # "over" =>
                  /\ step.kind # Wants(p.m) \/ ~Matches(step, p.m) \/ next.at = "raised" => ~Clean(n)
                  /\ step.kind = Wants(p.m) /\ Matches(step, p.m) /\ next.at # "raised" =>
                       Clean(n) /\ n.m = next
<1>. DEFINE next == AnswerOnTape(step, p.m, v)
            n == Consume(step, p, v)
<1>. HIDE DEF next
<1>1. n = IF p.stopped # "none" THEN p
          ELSE IF p.m.at = "over" THEN [p EXCEPT !.mismatch = TRUE]
          ELSE IF step.kind # Wants(p.m) THEN [p EXCEPT !.stopped = "INCOMPLETE"]
          ELSE [m |-> next, stopped |-> IF next.at = "raised" THEN "FAILED_SAFE" ELSE "none",
                mismatch |-> p.mismatch \/ ~Matches(step, p.m)]
  BY DEF Consume, next
<1>. HIDE DEF n
<1>2. CASE p.stopped # "none"
  BY <1>1, <1>2 DEF Clean, next, n
<1>3. CASE p.stopped = "none" /\ p.m.at = "over"
  <2>1. n = [p EXCEPT !.mismatch = TRUE]
    BY <1>1, <1>3
  <2>2. n = [m |-> p.m, stopped |-> p.stopped, mismatch |-> TRUE]
    BY <2>1 DEF IsPlay
  <2>3. IsPlay(n) /\ ~Clean(n)
    BY <2>2 DEF IsPlay, Clean
  <2>. QED  BY <1>3, <2>3 DEF next, n
<1>4. CASE p.stopped = "none" /\ p.m.at # "over" /\ step.kind # Wants(p.m)
  <2>1. n = [p EXCEPT !.stopped = "INCOMPLETE"]
    BY <1>1, <1>4
  <2>2. n = [m |-> p.m, stopped |-> "INCOMPLETE", mismatch |-> p.mismatch]
    BY <2>1 DEF IsPlay
  <2>3. IsPlay(n) /\ ~Clean(n)
    BY <2>2 DEF IsPlay, Clean
  <2>. QED  BY <1>4, <2>3 DEF next, n
<1>5. CASE p.stopped = "none" /\ p.m.at # "over" /\ step.kind = Wants(p.m)
  <2>1. n = [m |-> next, stopped |-> IF next.at = "raised" THEN "FAILED_SAFE" ELSE "none",
             mismatch |-> p.mismatch \/ ~Matches(step, p.m)]
    BY <1>1, <1>5
  <2>2. /\ IsPlay(n) /\ n.m = next
        /\ n.stopped = IF next.at = "raised" THEN "FAILED_SAFE" ELSE "none"
        /\ n.mismatch = (p.mismatch \/ ~Matches(step, p.m))
    BY <2>1 DEF IsPlay
  <2>. QED  BY <1>5, <2>2 DEF Clean, next, n
<1>. QED  BY <1>2, <1>3, <1>4, <1>5

\* A machine by its columns, and what each operator makes of it.
Mach(node, at, facts, resumed, unkept) ==
  [node |-> node, at |-> at, facts |-> facts, resumed |-> resumed, unkept |-> unkept]
LEMMA MachTells ==
  \A n, a, f, r, u :
    LET m == Mach(n, a, f, r, u) IN
    /\ IsMachine(m) /\ m.node = n /\ m.at = a /\ m.facts = f /\ m.resumed = r /\ m.unkept = u
    /\ Bare(m) = Mach(n, a, f, r, "nothing")
<1>. SUFFICES ASSUME NEW n, NEW a, NEW f, NEW r, NEW u
              PROVE  LET m == Mach(n, a, f, r, u) IN
                     /\ IsMachine(m) /\ m.node = n /\ m.at = a /\ m.facts = f /\ m.resumed = r
                     /\ m.unkept = u /\ Bare(m) = Mach(n, a, f, r, "nothing")
  OBVIOUS
<1>1. IsMachine(Mach(n, a, f, r, u))
  BY DEF Mach, IsMachine
<1>2. Bare(Mach(n, a, f, r, u)) = Mach(n, a, f, r, "nothing")
  BY DEF Mach, Bare
<1>3. LET m == Mach(n, a, f, r, u) IN
      m.node = n /\ m.at = a /\ m.facts = f /\ m.resumed = r /\ m.unkept = u
  BY DEF Mach
<1>. QED  BY <1>1, <1>2, <1>3

\* What becomes of it when one column is written.
LEMMA MachSet ==
  \A n, a, f, r, u, x :
    LET m == Mach(n, a, f, r, u) IN
    /\ [m EXCEPT !.at = x] = Mach(n, x, f, r, u)
    /\ [m EXCEPT !.resumed = x] = Mach(n, a, f, x, u)
    /\ [m EXCEPT !.facts = x] = Mach(n, a, x, r, u)
<1>. SUFFICES ASSUME NEW n, NEW a, NEW f, NEW r, NEW u, NEW x
              PROVE  LET m == Mach(n, a, f, r, u) IN
                     /\ [m EXCEPT !.at = x] = Mach(n, x, f, r, u)
                     /\ [m EXCEPT !.resumed = x] = Mach(n, a, f, x, u)
                     /\ [m EXCEPT !.facts = x] = Mach(n, a, x, r, u)
  OBVIOUS
<1>1. [Mach(n, a, f, r, u) EXCEPT !.at = x] = Mach(n, x, f, r, u)
  BY DEF Mach
<1>2. [Mach(n, a, f, r, u) EXCEPT !.resumed = x] = Mach(n, a, f, x, u)
  BY DEF Mach
<1>3. [Mach(n, a, f, r, u) EXCEPT !.facts = x] = Mach(n, a, x, r, u)
  BY DEF Mach
<1>. QED  BY <1>1, <1>2, <1>3

LEMMA MachOf ==
  ASSUME NEW m, IsMachine(m)
  PROVE  m = Mach(m.node, m.at, m.facts, m.resumed, m.unkept)
  BY DEF IsMachine, Mach

LEMMA ToIs ==
  ASSUME NEW n, NEW a, NEW f, NEW r, NEW u, NEW to
  PROVE  To(to, Mach(n, a, f, r, u)) =
           IF to = "end" THEN Mach(n, "final", f, r, u) ELSE Mach(to, "enter", f, r, u)
<1>. DEFINE m == Mach(n, a, f, r, u)
<1>1. CASE to = "end"
  BY <1>1, MachSet DEF To
<1>2. CASE to # "end"
  <2>1. To(to, m) = [[m EXCEPT !.node = to] EXCEPT !.at = "enter"]
    BY <1>2 DEF To
  <2>2. [m EXCEPT !.node = to] = Mach(to, a, f, r, u)
    BY DEF Mach
  <2>3. [Mach(to, a, f, r, u) EXCEPT !.at = "enter"] = Mach(to, "enter", f, r, u)
    BY MachSet
  <2>. QED  BY <1>2, <2>1, <2>2, <2>3
<1>. QED  BY <1>1, <1>2

LEMMA LeaveIs ==
  ASSUME NEW n, NEW a, NEW f, NEW r, NEW u
  PROVE  Leave(Mach(n, a, f, r, u)) =
           IF n \in {"resolve_property", "interpret", "list_slots"} THEN Mach(n, "route", f, r, u)
           ELSE IF n \in Asking THEN Mach("interpret", "enter", f, r, u)
           ELSE IF n = "mutate" THEN Mach("finish", "enter", f, r, u)
           ELSE Mach(n, "final", f, r, u)
<1>. DEFINE m == Mach(n, a, f, r, u)
<1>1. m.node = n /\ [m EXCEPT !.at = "route"] = Mach(n, "route", f, r, u)
  BY MachTells, MachSet
<1>2. \A to : To(to, m) = IF to = "end" THEN Mach(n, "final", f, r, u) ELSE Mach(to, "enter", f, r, u)
  BY ToIs
<1>3. CASE n \in {"resolve_property", "interpret", "list_slots"}
  BY <1>1, <1>3 DEF Leave, Asking
<1>4. CASE n \in Asking
  BY <1>1, <1>2, <1>4 DEF Leave, Asking
<1>5. CASE n = "mutate"
  BY <1>1, <1>2, <1>5 DEF Leave, Asking
<1>6. CASE n \notin {"resolve_property", "interpret", "list_slots", "mutate"} \cup Asking
  BY <1>1, <1>2, <1>6 DEF Leave
<1>. QED  BY <1>3, <1>4, <1>5, <1>6 DEF m, Asking

LEMMA VisitIs ==
  ASSUME NEW n, NEW a, NEW f, NEW r, NEW u
  PROVE  LET m == Mach(n, a, f, r, u) IN
         Visit(m) = IF n \in Asking /\ ~r THEN Mach(n, "interrupt", f, r, u)
                    ELSE IF Calls(m) # "none" THEN Mach(n, "call", f, r, u)
                    ELSE Leave(Mach(n, a, f, FALSE, u))
<1>. DEFINE m == Mach(n, a, f, r, u)
<1>1. /\ m.node = n /\ m.resumed = r
      /\ [m EXCEPT !.at = "interrupt"] = Mach(n, "interrupt", f, r, u)
      /\ [m EXCEPT !.at = "call"] = Mach(n, "call", f, r, u)
      /\ [m EXCEPT !.resumed = FALSE] = Mach(n, a, f, FALSE, u)
  <2>1. m.node = n /\ m.resumed = r
    BY MachTells
  <2>2. /\ [m EXCEPT !.at = "interrupt"] = Mach(n, "interrupt", f, r, u)
        /\ [m EXCEPT !.at = "call"] = Mach(n, "call", f, r, u)
    BY MachSet
  <2>3. \A x : [m EXCEPT !.resumed = x] = Mach(n, a, f, x, u)
    BY MachSet
  <2>4. [m EXCEPT !.resumed = FALSE] = Mach(n, a, f, FALSE, u)
    BY <2>3, Zenon
  <2>. QED  BY <2>1, <2>2, <2>4, Zenon
<1>2. n \in Asking => Calls(m) = "none"
  BY <1>1 DEF Calls, Asking
<1>3. CASE n \in Asking /\ ~r
  BY <1>1, <1>2, <1>3 DEF Visit
<1>4. CASE ~(n \in Asking /\ ~r) /\ Calls(m) # "none"
  BY <1>1, <1>4 DEF Visit
<1>5. CASE ~(n \in Asking /\ ~r) /\ Calls(m) = "none"
  <2>1. Visit(m) = Leave([m EXCEPT !.resumed = FALSE])
    BY <1>1, <1>5 DEF Visit
  <2>. QED  BY <1>1, <1>5, <2>1
<1>. QED  BY <1>3, <1>4, <1>5

Learned(n, f, r, u, answer, v) ==
  LET done == IF v = 2 /\ answer = "refused" THEN "none" ELSE answer
  IN  IF n = "resolve_property" THEN Mach(n, "route", [f EXCEPT !.verified = answer = "found"], r, u)
      ELSE IF n = "interpret" THEN Mach(n, "route", [f EXCEPT !.intent = answer], r, u)
      ELSE IF n = "list_slots" THEN Mach(n, "route", [f EXCEPT !.slots = answer = "some"], r, u)
      ELSE IF n = "mutate" /\ answer = "unknown" THEN Mach(n, "raised", f, r, u)
      ELSE IF n = "mutate" THEN Mach("finish", "enter", [f EXCEPT !.done = done], r, u)
      ELSE Mach(n, "final", f, r, u)
LEMMA LearnIs ==
  ASSUME NEW n, NEW a, NEW f, NEW r, NEW u, NEW answer, NEW v
  PROVE  Learn(Mach(n, a, f, r, u), answer, v) = Learned(n, f, r, u, answer, v)
<1>. DEFINE m == Mach(n, a, f, r, u)
            done == IF v = 2 /\ answer = "refused" THEN "none" ELSE answer
<1>1. /\ m.node = n /\ [m EXCEPT !.at = "raised"] = Mach(n, "raised", f, r, u)
      /\ [m EXCEPT !.at = "final"] = Mach(n, "final", f, r, u)
      /\ [m EXCEPT !.facts.verified = answer = "found"] = Mach(n, a, [f EXCEPT !.verified = answer = "found"], r, u)
      /\ [m EXCEPT !.facts.intent = answer] = Mach(n, a, [f EXCEPT !.intent = answer], r, u)
      /\ [m EXCEPT !.facts.slots = answer = "some"] = Mach(n, a, [f EXCEPT !.slots = answer = "some"], r, u)
      /\ [m EXCEPT !.facts.done = done] = Mach(n, a, [f EXCEPT !.done = done], r, u)
  <2>. HIDE DEF done
  <2>1. /\ m.node = n /\ [m EXCEPT !.at = "raised"] = Mach(n, "raised", f, r, u)
        /\ [m EXCEPT !.at = "final"] = Mach(n, "final", f, r, u)
    BY MachTells, MachSet
  <2>2. [m EXCEPT !.facts.verified = answer = "found"] = Mach(n, a, [f EXCEPT !.verified = answer = "found"], r, u)
    BY DEF Mach
  <2>3. [m EXCEPT !.facts.intent = answer] = Mach(n, a, [f EXCEPT !.intent = answer], r, u)
    BY DEF Mach
  <2>4. [m EXCEPT !.facts.slots = answer = "some"] = Mach(n, a, [f EXCEPT !.slots = answer = "some"], r, u)
    BY DEF Mach
  <2>5. [m EXCEPT !.facts.done = done] = Mach(n, a, [f EXCEPT !.done = done], r, u)
    BY DEF Mach
  <2>. QED  BY <2>1, <2>2, <2>3, <2>4, <2>5
<1>2. CASE n \in {"resolve_property", "interpret", "list_slots"}
  BY <1>1, <1>2, LeaveIs DEF Learn, Learned
<1>3. CASE n = "mutate" /\ answer = "unknown"
  BY <1>1, <1>3 DEF Learn, Learned
<1>4. CASE n = "mutate" /\ answer # "unknown"
  <2>1. Learn(m, answer, v) = Leave([m EXCEPT !.facts.done = done])
    BY <1>1, <1>4 DEF Learn
  <2>. HIDE DEF done
  <2>2. Leave(Mach(n, a, [f EXCEPT !.done = done], r, u)) = Mach("finish", "enter", [f EXCEPT !.done = done], r, u)
    BY <1>4, LeaveIs DEF Asking
  <2>3. Learn(m, answer, v) = Mach("finish", "enter", [f EXCEPT !.done = done], r, u)
    BY <1>1, <2>1, <2>2
  <2>. QED  BY <1>4, <2>3 DEF m, done, Learned
<1>5. CASE n \notin {"resolve_property", "interpret", "list_slots", "mutate"}
  BY <1>1, <1>5 DEF Learn, Learned
<1>. QED  BY <1>2, <1>3, <1>4, <1>5 DEF m

\* What a machine is without what is not kept.
LEMMA BareTells ==
  ASSUME NEW m, IsMachine(m)
  PROVE  LET b == Bare(m) IN
         /\ IsMachine(b) /\ b.node = m.node /\ b.at = m.at /\ b.facts = m.facts
         /\ b.resumed = m.resumed /\ b.unkept = "nothing" /\ ~ClockHasPassed(b)
         /\ Question(b) = "plain"
  BY DEF Bare, IsMachine, ClockHasPassed, Question

\* Where the run's next step says nothing of what is not kept, it is the one the replay
\* wants of the tape, and the replay answers it as it was answered.
LEMMA OwnStep ==
  ASSUME NEW m, IsMachine(m), Placed(m), m.at \in GraphAt, m.node # "operator", NEW answer, NEW v
  PROVE  LET s == Step(m, answer)  b == Bare(m) IN
         /\ s.kind = Wants(b) /\ Matches(s, b) <=> ~Apart(m)
         /\ ~Apart(m) => AnswerOnTape(s, b, v) = Advance(b, answer, v)
<1>. DEFINE s == Step(m, answer)  b == Bare(m)
<1>1. /\ s.kind = Wants(m) /\ s.node = m.node /\ s.facts = m.facts /\ s.answer = Says(m, answer)
  BY DEF Step
<1>2. /\ b.node = m.node /\ b.at = m.at /\ b.facts = m.facts /\ ~ClockHasPassed(b)
  BY BareTells
<1>. HIDE DEF s, b
<1>3. Wants(b) = Wants(m)
  <2>1. CASE m.at = "call"
    <3>1. Calls(b) = Calls(m)
      BY <1>2, <2>1 DEF Calls, Placed
    <3>. QED  BY <1>2, <2>1, <3>1 DEF Wants
  <2>2. CASE m.at # "call"
    BY <1>2, <2>2 DEF Wants, GraphAt
  <2>. QED  BY <2>1, <2>2
<1>4. Matches(s, b) <=> ~Apart(m)
  BY <1>1, <1>2 DEF Matches, Says, Apart, b
<1>5. AnswerOnTape(s, b, v) = Advance(b, s.answer, v)
  BY <1>2 DEF AnswerOnTape, GraphAt
<1>6. Advance(b, s.answer, v) = Advance(b, answer, v)
  <2>1. CASE m.at \in {"route", "interrupt"}
    BY <1>2, <2>1 DEF Advance
  <2>2. CASE m.at \notin {"route", "interrupt"}
    BY <1>1, <2>2 DEF Says
  <2>. QED  BY <2>1, <2>2
<1>. QED  BY <1>1, <1>3, <1>4, <1>5, <1>6 DEF s, b

\* What is not kept makes a difference at one node entered: the one that asks for times.
LEMMA BareVisit ==
  ASSUME NEW m, IsMachine(m), Placed(m), m.at = "enter"
  PROVE  LET n == Visit(m)  b == Visit(Bare(m)) IN
         \/ b = Bare(n) /\ Placed(n)
         \/ /\ b.at = "call"
            /\ n.at = "route" /\ n.node = "list_slots" /\ ClockHasPassed(n)
            /\ ~n.facts.slots /\ ~n.resumed
<1>. DEFINE n == m.node  f == m.facts  r == m.resumed  u == m.unkept  b == Bare(m)
<1>1. /\ m = Mach(n, "enter", f, r, u) /\ b = Mach(n, "enter", f, r, "nothing")
      /\ b.node = n /\ b.facts = f /\ ~ClockHasPassed(b)
  BY MachOf, MachTells, BareTells
<1>2. /\ r => n = "need_information"
      /\ f.slots => n = "select_slot"
  BY DEF Placed
<1>. HIDE DEF n, f, r, u, b
<1>6. Visit(Mach(n, "enter", f, r, u)) =
        IF n \in Asking /\ ~r THEN Mach(n, "interrupt", f, r, u)
        ELSE IF Calls(Mach(n, "enter", f, r, u)) # "none" THEN Mach(n, "call", f, r, u)
        ELSE Leave(Mach(n, "enter", f, FALSE, u))
  BY ONLY VisitIs
<1>7. Visit(Mach(n, "enter", f, r, "nothing")) =
        IF n \in Asking /\ ~r THEN Mach(n, "interrupt", f, r, "nothing")
        ELSE IF Calls(Mach(n, "enter", f, r, "nothing")) # "none" THEN Mach(n, "call", f, r, "nothing")
        ELSE Leave(Mach(n, "enter", f, FALSE, "nothing"))
  <2>. DEFINE x == "nothing"
  <2>. HIDE DEF x
  <2>1. Visit(Mach(n, "enter", f, r, x)) =
          IF n \in Asking /\ ~r THEN Mach(n, "interrupt", f, r, x)
          ELSE IF Calls(Mach(n, "enter", f, r, x)) # "none" THEN Mach(n, "call", f, r, x)
          ELSE Leave(Mach(n, "enter", f, FALSE, x))
    BY ONLY VisitIs
  <2>. QED  BY <2>1 DEF x
<1>. DEFINE left(x) ==
       IF n \in {"resolve_property", "interpret", "list_slots"} THEN Mach(n, "route", f, FALSE, x)
       ELSE IF n \in Asking THEN Mach("interpret", "enter", f, FALSE, x)
       ELSE IF n = "mutate" THEN Mach("finish", "enter", f, FALSE, x)
       ELSE Mach(n, "final", f, FALSE, x)
<1>8. /\ Leave(Mach(n, "enter", f, FALSE, u)) = left(u)
      /\ Leave(Mach(n, "enter", f, FALSE, "nothing")) = left("nothing")
      /\ Bare(left(u)) = left("nothing") /\ left(u).facts = f /\ left(u).resumed = FALSE
      /\ left(u).unkept = u /\ left(u).at # "call"
      /\ n \in {"resolve_property", "interpret", "list_slots"} =>
            left(u).node = n /\ left(u).at = "route"
  <2>. DEFINE off == FALSE  nil == "nothing"
              gone(x) ==
                IF n \in {"resolve_property", "interpret", "list_slots"} THEN Mach(n, "route", f, off, x)
                ELSE IF n \in Asking THEN Mach("interpret", "enter", f, off, x)
                ELSE IF n = "mutate" THEN Mach("finish", "enter", f, off, x)
                ELSE Mach(n, "final", f, off, x)
  <2>. HIDE DEF off, nil
  <2>1. Leave(Mach(n, "enter", f, off, u)) = gone(u)
    BY LeaveIs
  <2>2. Leave(Mach(n, "enter", f, off, nil)) = gone(nil)
    BY LeaveIs
  <2>3. /\ Bare(gone(u)) = gone(nil) /\ gone(u).facts = f /\ gone(u).resumed = off
        /\ gone(u).unkept = u /\ gone(u).at \in {"route", "enter", "final"}
        /\ n \in {"resolve_property", "interpret", "list_slots"} =>
             gone(u).node = n /\ gone(u).at = "route"
    BY MachTells DEF nil
  <2>. QED  BY <2>1, <2>2, <2>3 DEF off, nil
<1>. HIDE DEF left
<1>3. CASE n \in Asking /\ ~r
  <2>1. Visit(m) = Mach(n, "interrupt", f, r, u) /\ Visit(b) = Mach(n, "interrupt", f, r, "nothing")
    BY <1>1, <1>3, <1>6, <1>7
  <2>2. LET q == Mach(n, "interrupt", f, r, u) IN
        /\ q.node = n /\ q.at = "interrupt" /\ q.facts = f /\ q.resumed = r
        /\ Bare(q) = Mach(n, "interrupt", f, r, "nothing")
    BY MachTells
  <2>3. Placed(Mach(n, "interrupt", f, r, u))
    BY <1>2, <1>3, <2>2 DEF Placed
  <2>. QED  BY <2>1, <2>2, <2>3 DEF b
<1>4. CASE n \in Asking /\ r
  <2>1. n = "need_information" /\ ~f.slots /\ Calls(m) = "none" /\ Calls(b) = "none"
    BY <1>1, <1>2, <1>4 DEF Calls, n
  <2>2. Visit(m) = left(u) /\ Visit(b) = left("nothing")
    BY <1>1, <1>4, <1>6, <1>7, <1>8, <2>1
  <2>3. Placed(left(u))
    BY <1>8, <2>1 DEF Placed
  <2>. QED  BY <1>8, <2>2, <2>3 DEF b
<1>5. CASE n \notin Asking
  <2>1. ~r /\ ~f.slots
    BY <1>2, <1>5 DEF Asking
  <2>2. CASE Calls(m) # "none"
    <3>1. Calls(b) # "none" /\ (n = "list_slots" => ~ClockHasPassed(m))
      BY <1>1, <2>2 DEF Calls, n, f
    <3>2. Visit(m) = Mach(n, "call", f, r, u) /\ Visit(b) = Mach(n, "call", f, r, "nothing")
      BY <1>1, <1>5, <1>6, <1>7, <2>2, <3>1
    <3>3. LET q == Mach(n, "call", f, r, u) IN
          /\ q.node = n /\ q.at = "call" /\ q.facts = f /\ q.resumed = r /\ q.unkept = u
          /\ Bare(q) = Mach(n, "call", f, r, "nothing")
      BY MachTells
    <3>4. Placed(Mach(n, "call", f, r, u))
      BY <2>1, <3>1, <3>3 DEF Placed, ClockHasPassed, f, u
    <3>. QED  BY <3>2, <3>3, <3>4 DEF b
  <2>3. CASE Calls(m) = "none" /\ Calls(b) = "none"
    <3>1. Visit(m) = left(u) /\ Visit(b) = left("nothing")
      BY <1>1, <1>5, <1>6, <1>7, <1>8, <2>3
    <3>2. Placed(left(u))
      BY <1>8, <2>1 DEF Placed
    <3>. QED  BY <1>8, <3>1, <3>2 DEF b
  <2>4. CASE Calls(m) = "none" /\ Calls(b) # "none"
    <3>1. n = "list_slots" /\ ClockHasPassed(m)
      BY <1>1, <2>4 DEF Calls, n, f
    <3>2. Visit(m) = left(u) /\ Visit(b) = Mach(n, "call", f, r, "nothing")
      BY <1>1, <1>5, <1>6, <1>7, <1>8, <2>4
    <3>3. Mach(n, "call", f, r, "nothing").at = "call"
      BY MachTells
    <3>4. ClockHasPassed(left(u))
      BY <1>8, <3>1 DEF ClockHasPassed, f, u
    <3>5. ~left(u).facts.slots /\ ~left(u).resumed /\ left(u).node = "list_slots" /\ left(u).at = "route"
      BY <1>8, <2>1, <3>1
    <3>. QED  BY <3>2, <3>3, <3>4, <3>5 DEF b
  <2>. QED  BY <2>2, <2>3, <2>4
<1>. QED  BY <1>3, <1>4, <1>5

\* A step that says nothing of what is not kept leads both machines to the same place.
LEMMA BareAdvance ==
  ASSUME NEW m, IsMachine(m), IsFacts(m.facts), Placed(m), m.at \in GraphAt \ {"enter"}, ~Apart(m),
         m.node # "operator", NEW answer, NEW v
  PROVE  LET n == Advance(m, answer, v) IN
         Advance(Bare(m), answer, v) = Bare(n) /\ (n.at # "raised" => Placed(n))
<1>. DEFINE n == m.node  f == m.facts  r == m.resumed  u == m.unkept  b == Bare(m)
            next == Advance(m, answer, v)
<1>1. /\ m = Mach(n, m.at, f, r, u) /\ b = Mach(n, m.at, f, r, "nothing")
      /\ b.node = n /\ b.facts = f /\ b.at = m.at
      /\ \A x : [m EXCEPT !.at = x] = Mach(n, x, f, r, u)
      /\ \A x : [b EXCEPT !.at = x] = Mach(n, x, f, r, "nothing")
  <2>1. /\ m = Mach(n, m.at, f, r, u) /\ b = Mach(n, m.at, f, r, "nothing")
    BY MachOf, MachTells
  <2>2. b.node = n /\ b.facts = f /\ b.at = m.at
    BY BareTells
  <2>. HIDE DEF n, f, r, u, b
  <2>. QED  BY <2>1, <2>2, MachSet
<1>2. ~r /\ (f.slots => IF m.at = "route" THEN n = "list_slots"
                        ELSE m.at # "call" /\ n = "select_slot")
  BY DEF Placed
<1>3. \A x, y, z : Bare(Mach(x, y, z, r, u)) = Mach(x, y, z, r, "nothing")
  BY MachTells
<1>4. ASSUME NEW x, NEW y, NEW z, y # "call",
             z.slots => IF y = "route" THEN x = "list_slots" ELSE x = "select_slot"
      PROVE  Placed(Mach(x, y, z, r, u))
  <2>. DEFINE q == Mach(x, y, z, r, u)
  <2>1. q.node = x /\ q.at = y /\ q.facts = z /\ q.resumed = r
    BY MachTells
  <2>. HIDE DEF q
  <2>2. Placed(q)
    BY <1>2, <1>4, <2>1 DEF Placed
  <2>. QED  BY <2>2 DEF q
<1>. HIDE DEF n, f, r, u, b
<1>5. CASE m.at \in {"interrupt", "final"}
  <2>. DEFINE to == IF m.at = "interrupt" THEN "final" ELSE "over"
  <2>1. next = Mach(n, to, f, r, u) /\ Advance(b, answer, v) = Mach(n, to, f, r, "nothing")
    BY <1>1, <1>5 DEF Advance
  <2>2. to # "call" /\ to # "route" /\ (f.slots => n = "select_slot")
    BY <1>2, <1>5
  <2>. HIDE DEF to, next
  <2>3. Placed(Mach(n, to, f, r, u)) /\ Bare(Mach(n, to, f, r, u)) = Mach(n, to, f, r, "nothing")
    BY <1>3, <1>4, <2>2
  <2>. QED  BY <2>1, <2>3 DEF b, next
<1>6. CASE m.at = "route"
  <2>. DEFINE to == Decision(m)
              there(x) == IF to = "end" THEN Mach(n, "final", f, r, x) ELSE Mach(to, "enter", f, r, x)
  <2>1. Decision(b) = to
    BY <1>6 DEF Apart, b
  <2>2. /\ Advance(b, answer, v) = To(to, b) /\ next = To(to, m)
    BY <1>1, <1>6, <2>1 DEF Advance
  <2>3. f.slots => n = "list_slots" /\ to = "select_slot"
    BY <1>2, <1>6 DEF Decision, n, f
  <2>. HIDE DEF to, next
  <2>4. To(to, Mach(n, m.at, f, r, u)) = there(u)
    BY ToIs
  <2>5. To(to, Mach(n, m.at, f, r, "nothing")) = there("nothing")
    <3>. DEFINE nil == "nothing"
    <3>. HIDE DEF nil
    <3>1. To(to, Mach(n, m.at, f, r, nil)) = there(nil)
      BY ToIs
    <3>. QED  BY <3>1 DEF nil
  <2>6. CASE to = "end"
    <3>1. Placed(Mach(n, "final", f, r, u))
      BY <1>4, <2>3, <2>6
    <3>. QED  BY <1>1, <1>3, <2>2, <2>4, <2>5, <2>6, <3>1 DEF b, next
  <2>7. CASE to # "end"
    <3>1. Placed(Mach(to, "enter", f, r, u))
      BY <1>4, <2>3
    <3>. QED  BY <1>1, <1>3, <2>2, <2>4, <2>5, <2>7, <3>1 DEF b, next
  <2>. QED  BY <2>6, <2>7
<1>7. CASE m.at = "call"
  <2>1. next = Learn(m, answer, v) /\ Advance(b, answer, v) = Learn(b, answer, v)
    BY <1>1, <1>7 DEF Advance
  <2>2. ~f.slots
    BY <1>2, <1>7
  <2>. DEFINE done == IF v = 2 /\ answer = "refused" THEN "none" ELSE answer
              found == [f EXCEPT !.verified = answer = "found"]
              meant == [f EXCEPT !.intent = answer]
              offered == [f EXCEPT !.slots = answer = "some"]
              made == [f EXCEPT !.done = done]
              there(x) ==
               IF n = "resolve_property" THEN Mach(n, "route", found, r, x)
               ELSE IF n = "interpret" THEN Mach(n, "route", meant, r, x)
               ELSE IF n = "list_slots" THEN Mach(n, "route", offered, r, x)
               ELSE IF n = "mutate" /\ answer = "unknown" THEN Mach(n, "raised", f, r, x)
               ELSE IF n = "mutate" THEN Mach("finish", "enter", made, r, x)
               ELSE Mach(n, "final", f, r, x)
  <2>3. found.slots = f.slots /\ meant.slots = f.slots /\ made.slots = f.slots
    BY DEF IsFacts, f
  <2>4. there(u) = Learned(n, f, r, u, answer, v) /\ there("nothing") = Learned(n, f, r, "nothing", answer, v)
    BY DEF Learned
  <2>5. Learn(m, answer, v) = there(u) /\ Learn(b, answer, v) = there("nothing")
    <3>. DEFINE nil == "nothing"
    <3>. HIDE DEF nil, there
    <3>1. \A at, x : Learn(Mach(n, at, f, r, x), answer, v) = Learned(n, f, r, x, answer, v)
      BY LearnIs
    <3>. QED  BY <1>1, <2>4, <3>1
  <2>. HIDE DEF found, meant, offered, made, next
  <2>7. Bare(there(u)) = there("nothing")
    BY <1>3
  <2>8. n = "list_slots" => Placed(Mach(n, "route", offered, r, u))
    BY <1>4
  <2>9. /\ n \in {"resolve_property", "interpret"} =>
             Placed(Mach(n, "route", found, r, u)) /\ Placed(Mach(n, "route", meant, r, u))
        /\ Placed(Mach("finish", "enter", made, r, u)) /\ Placed(Mach(n, "final", f, r, u))
        /\ Placed(Mach(n, "raised", f, r, u))
    BY <1>4, <2>2, <2>3
  <2>10. Placed(there(u))
    BY <2>8, <2>9
  <2>. HIDE DEF there
  <2>. QED  BY <2>1, <2>5, <2>7, <2>10 DEF b, next
<1>. QED  BY <1>5, <1>6, <1>7 DEF GraphAt

\* A step that says something of what is not kept leads the run astray.
LEMMA ApartStrays ==
  ASSUME NEW m, IsMachine(m), Placed(m), Apart(m), NEW answer, NEW v
  PROVE  LET n == Advance(m, answer, v) IN Strayed(n) /\ n.at \in {"enter", "final"}
<1>1. ~m.resumed
  BY DEF Placed, Apart
<1>2. /\ Bare(m).node = m.node /\ Bare(m).facts = m.facts /\ Bare(m).unkept = "nothing"
      /\ Question(Bare(m)) = "plain"
  BY BareTells
<1>3. CASE m.at = "route" /\ Decision(m) # Decision(Bare(m))
  <2>1. /\ Decision(m) = "finish" /\ m.facts.intent \in Scheduling /\ m.unkept = "overdue"
    BY <1>2, <1>3 DEF Decision, Scheduling
  <2>2. Advance(m, answer, v) = [node |-> "finish", at |-> "enter", facts |-> m.facts,
                                 resumed |-> m.resumed, unkept |-> m.unkept]
    BY <1>3, <2>1 DEF Advance, To, IsMachine
  <2>. QED  BY <1>1, <2>1, <2>2 DEF Strayed, LeftOut
<1>4. CASE m.at = "interrupt" /\ Question(m) # Question(Bare(m))
  <2>1. m.node = "need_availability_information" /\ ClockHasPassed(m)
    BY <1>2, <1>4 DEF Question
  <2>2. Advance(m, answer, v) = [node |-> m.node, at |-> "final", facts |-> m.facts,
                                 resumed |-> m.resumed, unkept |-> m.unkept]
    BY <1>4 DEF Advance, IsMachine
  <2>. QED  BY <1>1, <2>1, <2>2 DEF Strayed, LeftOut, ClockHasPassed
<1>. QED  BY <1>3, <1>4 DEF Apart

\* A run led astray goes on to its end.
LEMMA StrayedStays ==
  ASSUME NEW m, IsMachine(m), Strayed(m), NEW answer, NEW v
  PROVE  /\ m.at = "enter" => Strayed(Visit(m))
         /\ m.at \in {"interrupt", "final"} =>
              Strayed(Advance(m, answer, v)) /\ Advance(m, answer, v).at \in {"final", "over"}
<1>1. ~m.resumed /\ m.node \in {"need_availability_information", "finish"} /\ Calls(m) = "none"
  BY DEF Strayed, LeftOut, Calls
<1>2. CASE m.at = "enter" /\ m.node = "need_availability_information"
  <2>1. Visit(m) = [node |-> m.node, at |-> "interrupt", facts |-> m.facts, resumed |-> m.resumed,
                    unkept |-> m.unkept]
    BY <1>1, <1>2 DEF Visit, Asking, IsMachine
  <2>. QED  BY <1>2, <2>1 DEF Strayed, LeftOut, ClockHasPassed
<1>3. CASE m.at = "enter" /\ m.node = "finish"
  <2>1. Visit(m) = [node |-> m.node, at |-> "final", facts |-> m.facts, resumed |-> FALSE,
                    unkept |-> m.unkept]
    BY <1>1, <1>3 DEF Visit, Leave, To, Asking, IsMachine
  <2>. QED  BY <1>3, <2>1 DEF Strayed, LeftOut, ClockHasPassed
<1>4. CASE m.at \in {"interrupt", "final"}
  <2>1. Advance(m, answer, v) = [node |-> m.node, at |-> IF m.at = "final" THEN "over" ELSE "final",
                                 facts |-> m.facts, resumed |-> m.resumed, unkept |-> m.unkept]
    BY <1>4 DEF Advance, IsMachine
  <2>. QED  BY <1>4, <2>1 DEF Strayed, LeftOut, ClockHasPassed
<1>. QED  BY <1>1, <1>2, <1>3, <1>4 DEF Strayed

\* The start of a replay, and of a run.
LEMMA Starts ==
  ASSUME NEW o \in Origins, NEW unkept
  PROVE  /\ IsFacts(Facts(o)) /\ Facts(o) = Primed(o, Facts(o)).facts
         /\ Primed(o, Facts(o)).at = CASE o = "operator" -> "call" [] o = "availability" -> "refresh"
                                       [] OTHER -> "enter"
         /\ Begun(o, unkept).at = CASE o = "operator" -> "call" [] o = "new" -> "enter"
                                       [] OTHER -> "preflight"
         /\ Begun(o, unkept).facts = Facts(o)
         /\ o = "retry" => Begun(o, unkept).node = "mutate"
                            /\ Primed(o, Facts(o)).node = "resolve_property"
         /\ o = "new" => Primed(o, Facts(o)) = Bare(Begun(o, unkept)) /\ Placed(Begun(o, unkept))
         /\ o = "operator" => Primed(o, Facts(o)) = Fresh(o)
         /\ o \in {"message", "resume"} =>
              LET m == [Begun(o, unkept) EXCEPT !.at = "enter"] IN
              Primed(o, Facts(o)) = Bare(m) /\ Placed(m)
         /\ o # "operator" => Primed(o, Facts(o)).node # "operator"
                               /\ Begun(o, unkept).node # "operator"
         /\ IsMachine(Begun(o, unkept)) /\ Begun(o, unkept).unkept = unkept
<1>1. IsFacts(Facts(o)) /\ ~Facts(o).slots
  BY DEF IsFacts, Facts
<1>2. Begun(o, unkept) = [node |-> Entry(o), facts |-> Facts(o), unkept |-> unkept,
         at |-> CASE o = "operator" -> "call" [] o = "new" -> "enter" [] OTHER -> "preflight",
         resumed |-> o \in {"resume", "availability"}]
  BY DEF Begun, Fresh, At
<1>3. Fresh(o) = [node |-> Entry(o), facts |-> Facts(o), unkept |-> "nothing",
         at |-> CASE o = "operator" -> "call" [] o = "new" -> "enter" [] OTHER -> "preflight",
         resumed |-> o \in {"resume", "availability"}]
  BY DEF Fresh, At
<1>4. Primed(o, Facts(o)) = [facts |-> Facts(o), unkept |-> "nothing",
         node |-> CASE o = "resume" -> "need_information" [] o = "availability" -> "list_slots"
                    [] o = "operator" -> "operator" [] OTHER -> "resolve_property",
         at |-> CASE o = "operator" -> "call" [] o = "availability" -> "refresh" [] OTHER -> "enter",
         resumed |-> o = "resume"]
  BY DEF Primed, Restored, At, Origins
<1>. DEFINE f == Facts(o)
<1>. HIDE DEF f
<1>5. o = "new" => Primed(o, f) = Bare(Begun(o, unkept)) /\ Placed(Begun(o, unkept))
  <2>. SUFFICES ASSUME o = "new"
                PROVE  Primed(o, f) = Bare(Begun(o, unkept)) /\ Placed(Begun(o, unkept))
    OBVIOUS
  <2>. DEFINE n == "resolve_property"  a == "enter"  r == o = "resume"
  <2>1. Begun(o, unkept) = Mach(n, a, f, r, unkept) /\ Primed(o, f) = Mach(n, a, f, r, "nothing")
    BY <1>2, <1>4 DEF Mach, Entry, f
  <2>2. n # "list_slots" /\ ~r /\ ~f.slots
    BY <1>1 DEF f
  <2>. HIDE DEF n, a, r
  <2>3. LET m == Mach(n, a, f, r, unkept) IN
        m.node = n /\ m.facts = f /\ m.resumed = r /\ Bare(m) = Mach(n, a, f, r, "nothing")
    BY MachTells
  <2>4. Placed(Mach(n, a, f, r, unkept))
    BY <2>2, <2>3 DEF Placed
  <2>. QED  BY <2>1, <2>3, <2>4
<1>6. o \in {"message", "resume"} =>
        LET m == [Begun(o, unkept) EXCEPT !.at = "enter"] IN
        Primed(o, f) = Bare(m) /\ Placed(m)
  <2>. SUFFICES ASSUME o \in {"message", "resume"}
                PROVE  LET m == [Begun(o, unkept) EXCEPT !.at = "enter"] IN
                       Primed(o, f) = Bare(m) /\ Placed(m)
    OBVIOUS
  <2>. DEFINE n == IF o = "resume" THEN "need_information" ELSE "resolve_property"
              a == "enter"  r == o = "resume"
  <2>1. /\ [Begun(o, unkept) EXCEPT !.at = a] = Mach(n, a, f, r, unkept)
        /\ Primed(o, f) = Mach(n, a, f, r, "nothing")
    BY <1>2, <1>4 DEF Mach, Entry, f
  <2>2. /\ a = "enter" /\ n # "list_slots" /\ (r => n = "need_information") /\ ~f.slots
    BY <1>1 DEF f
  <2>3. LET m == Mach(n, a, f, r, unkept) IN
        m.node = n /\ m.at = a /\ m.facts = f /\ m.resumed = r /\ Bare(m) = Mach(n, a, f, r, "nothing")
    <3>. HIDE DEF n, a, r
    <3>. QED  BY MachTells
  <2>4. Placed(Mach(n, a, f, r, unkept))
    <3>. HIDE DEF n, a, r
    <3>. QED  BY <2>2, <2>3 DEF Placed
  <2>. QED  BY <2>1, <2>3, <2>4
<1>7. o = "operator" => Primed(o, f) = Fresh(o)
  BY <1>3, <1>4 DEF Entry, f
<1>8. IsMachine(Begun(o, unkept))
  BY <1>2 DEF IsMachine
<1>9. Entry(o) = CASE o = "retry" -> "mutate" [] o = "resume" -> "need_information"
              [] o = "availability" -> "need_availability_information"
              [] o = "operator" -> "operator" [] OTHER -> "resolve_property"
  BY DEF Entry
<1>. QED  BY <1>1, <1>2, <1>4, <1>5, <1>6, <1>7, <1>8, <1>9 DEF f

\* Where they stand.
LEMMA StartsAt ==
  ASSUME NEW o \in Origins, o \notin {"new", "operator"}
  PROVE  /\ \A u : /\ Begun(o, u).at = "preflight" /\ Begun(o, u).node = Entry(o)
                   /\ o = "retry" => Begun(o, u).node = "mutate"
         /\ o = "availability" => Entry(o) = "need_availability_information"
         /\ Primed(o, Facts(o)).at = IF o = "availability" THEN "refresh" ELSE "enter"
         /\ o = "retry" => Primed(o, Facts(o)).node = "resolve_property"
         /\ o = "availability" => Primed(o, Facts(o)).node = "list_slots"
  BY DEF Begun, Fresh, At, Entry, Primed, Restored, Origins

LEMMA OperatorBegins ==
  ASSUME NEW o, o = "operator", NEW u \in Unkept(o)
  PROVE  Begun(o, u) = Fresh(o)
<1>1. u = "nothing"
  BY DEF Unkept
<1>2. Fresh(o) = [node |-> Entry(o), facts |-> Facts(o), unkept |-> "nothing",
         at |-> CASE o = "operator" -> "call" [] o = "new" -> "enter" [] OTHER -> "preflight",
         resumed |-> o \in {"resume", "availability"}]
  BY DEF Fresh, At
<1>. QED  BY <1>1, <1>2 DEF Begun

LEMMA NewBegins ==
  ASSUME NEW o, o = "new", NEW u
  PROVE  /\ Primed(o, Facts(o)) = Bare(Begun(o, u)) /\ Placed(Begun(o, u)) /\ Begun(o, u).at = "enter"
         /\ Begun(o, u).facts = Facts(o) /\ IsFacts(Facts(o)) /\ Begun(o, u).node # "operator"
<1>1. o \in Origins
  BY DEF Origins
<1>2. ASSUME NEW x \in Origins
      PROVE  x = "new" => Primed(x, Facts(x)) = Bare(Begun(x, u)) /\ Placed(Begun(x, u))
  BY Starts
<1>3. Primed(o, Facts(o)) = Bare(Begun(o, u)) /\ Placed(Begun(o, u))
  BY <1>1, <1>2
<1>4. Begun(o, u) = [node |-> Entry(o), facts |-> Facts(o), unkept |-> u, at |-> "enter",
                     resumed |-> FALSE]
  <2>. DEFINE there == CASE o = "operator" -> "call" [] o = "new" -> "enter" [] OTHER -> "preflight"
              asked == o \in {"resume", "availability"}
  <2>1. there = "enter" /\ asked = FALSE
    OBVIOUS
  <2>2. Begun(o, u) = [At(Entry(o), there, Facts(o), asked) EXCEPT !.unkept = u]
    BY DEF Begun, Fresh
  <2>. HIDE DEF there, asked
  <2>3. Begun(o, u) = [node |-> Entry(o), facts |-> Facts(o), unkept |-> u, at |-> there,
                       resumed |-> asked]
    BY <2>2 DEF At
  <2>. QED  BY <2>1, <2>3
<1>5. Entry(o) # "operator" /\ IsFacts(Facts(o))
  BY DEF Entry, Facts, IsFacts
<1>. QED  BY <1>3, <1>4, <1>5

LEMMA BegunUnmoved ==
  ASSUME NEW o, NEW u
  PROVE  Unmoved(o, Begun(o, u))
<1>1. Fresh(o) = [node |-> Entry(o), facts |-> Facts(o), unkept |-> "nothing",
         at |-> CASE o = "operator" -> "call" [] o = "new" -> "enter" [] OTHER -> "preflight",
         resumed |-> o \in {"resume", "availability"}]
  BY DEF Fresh, At
<1>2. Begun(o, u).unkept = u
  BY <1>1 DEF Begun
<1>. DEFINE m == Begun(o, u)
<1>3. m.unkept = u
  BY <1>2
<1>4. Begun(o, m.unkept) = m
  BY <1>3
<1>. HIDE DEF m
<1>. QED  BY <1>4 DEF Unmoved, m

LEMMA UnmovedIs ==
  ASSUME NEW o \in Origins, o \notin {"new", "operator"}, NEW m, Unmoved(o, m)
  PROVE  /\ m.at = "preflight" /\ m.node = Entry(o) /\ m.facts = Facts(o) /\ IsMachine(m)
         /\ o = "retry" => m.node = "mutate"
         /\ o \in {"message", "resume"} =>
              Primed(o, Facts(o)) = Bare([m EXCEPT !.at = "enter"]) /\ Placed([m EXCEPT !.at = "enter"])
         /\ IsFacts(m.facts) /\ m.node # "operator"
<1>. DEFINE u == m.unkept
<1>1. m = Begun(o, u)
  BY DEF Unmoved
<1>. HIDE DEF u
<1>2. /\ Begun(o, u).at = "preflight" /\ Begun(o, u).node = Entry(o)
      /\ o = "retry" => Begun(o, u).node = "mutate"
  BY StartsAt
<1>3. /\ IsMachine(Begun(o, u)) /\ Begun(o, u).facts = Facts(o) /\ IsFacts(Facts(o))
      /\ Begun(o, u).node # "operator"
      /\ o \in {"message", "resume"} =>
           LET n == [Begun(o, u) EXCEPT !.at = "enter"] IN
           Primed(o, Facts(o)) = Bare(n) /\ Placed(n)
  BY Starts
<1>. QED  BY <1>1, <1>2, <1>3

\* Entering a node changes no facts and leads to no operator.
LEMMA VisitFacts ==
  ASSUME NEW m, IsMachine(m), m.node # "operator"
  PROVE  Visit(m).facts = m.facts /\ Visit(m).node # "operator"
  BY DEF Visit, Leave, To, IsMachine

\* Two versions of the graph take the same step, except that one may forget a refusal.
LEMMA Versioned ==
  ASSUME NEW m, IsMachine(m), IsFacts(m.facts), m.at \in GraphAt \ {"enter"},
         m.node # "operator", NEW answer, NEW v, NEW w
  PROVE  LET a == Advance(m, answer, v)
             b == Advance(m, answer, w)
         IN  /\ IsFacts(a.facts) /\ a.node # "operator"
             /\ a.at = "raised" <=> b.at = "raised"
             /\ \/ a = b
                \/ a.at = "enter" /\ b.at = "enter" /\ a.facts # b.facts /\ v # w
<1>. DEFINE a == Advance(m, answer, v)
            b == Advance(m, answer, w)
<1>1. CASE m.at # "call"
  <2>1. a = b
    BY <1>1 DEF Advance, GraphAt
  <2>2. a.facts = m.facts /\ a.node # "operator"
    BY <1>1 DEF Advance, To, Decision, IsMachine, GraphAt
  <2>. QED  BY <2>1, <2>2
<1>2. CASE m.at = "call"
  <2>. DEFINE n == m.node  f == m.facts  r == m.resumed  u == m.unkept  at == m.at
              found == [f EXCEPT !.verified = answer = "found"]
              meant == [f EXCEPT !.intent = answer]
              offered == [f EXCEPT !.slots = answer = "some"]
              done(x) == IF x = 2 /\ answer = "refused" THEN "none" ELSE answer
              made(x) == [f EXCEPT !.done = done(x)]
              there(x) == Learned(n, f, r, u, answer, x)
  <2>1. m = Mach(n, at, f, r, u) /\ n # "operator"
    BY MachOf
  <2>2. /\ IsFacts(f) /\ IsFacts(found) /\ IsFacts(meant) /\ IsFacts(offered)
        /\ IsFacts(made(v)) /\ IsFacts(made(w)) /\ made(v).done = done(v) /\ made(w).done = done(w)
    <3>1. IsFacts(f) /\ f = [verified |-> f.verified, done |-> f.done, slots |-> f.slots, intent |-> f.intent]
      BY DEF IsFacts
    <3>. HIDE DEF f, done
    <3>2. IsFacts(found)
      BY <3>1 DEF IsFacts
    <3>3. IsFacts(meant)
      BY <3>1 DEF IsFacts
    <3>4. IsFacts(offered)
      BY <3>1 DEF IsFacts
    <3>5. IsFacts(made(v)) /\ made(v).done = done(v)
      BY <3>1 DEF IsFacts
    <3>6. IsFacts(made(w)) /\ made(w).done = done(w)
      BY <3>1 DEF IsFacts
    <3>. QED  BY <3>1, <3>2, <3>3, <3>4, <3>5, <3>6
  <2>3. a = Learn(m, answer, v) /\ b = Learn(m, answer, w)
    BY <1>2 DEF Advance
  <2>4. a = there(v) /\ b = there(w)
    <3>. HIDE DEF n, f, r, u, at, a, b
    <3>1. \A x : Learn(Mach(n, at, f, r, u), answer, x) = there(x)
      BY LearnIs
    <3>. QED  BY <2>1, <2>3, <3>1
  <2>5. \A x : there(x) =
               IF n = "resolve_property" THEN Mach(n, "route", found, r, u)
               ELSE IF n = "interpret" THEN Mach(n, "route", meant, r, u)
               ELSE IF n = "list_slots" THEN Mach(n, "route", offered, r, u)
               ELSE IF n = "mutate" /\ answer = "unknown" THEN Mach(n, "raised", f, r, u)
               ELSE IF n = "mutate" THEN Mach("finish", "enter", made(x), r, u)
               ELSE Mach(n, "final", f, r, u)
    BY DEF Learned
  <2>. HIDE DEF n, f, r, u, at, found, meant, offered, made, there, a, b
  <2>6. CASE n # "mutate" \/ answer = "unknown"
    <3>1. a = b
      BY <2>4, <2>5, <2>6
    <3>2. IsFacts(a.facts) /\ a.node # "operator"
      <4>1. \A x, y, z : Mach(x, y, z, r, u).facts = z /\ Mach(x, y, z, r, u).node = x
        BY MachTells
      <4>. QED  BY <2>1, <2>2, <2>4, <2>5, <2>6, <4>1
    <3>. QED  BY <3>1, <3>2 DEF a, b
  <2>7. CASE n = "mutate" /\ answer # "unknown"
    <3>1. a = Mach("finish", "enter", made(v), r, u) /\ b = Mach("finish", "enter", made(w), r, u)
      BY <2>4, <2>5, <2>7
    <3>2. /\ a.facts = made(v) /\ a.node = "finish" /\ a.at = "enter"
          /\ b.facts = made(w) /\ b.node = "finish" /\ b.at = "enter"
      BY <3>1, MachTells
    <3>3. done(v) = done(w) => made(v) = made(w)
      BY DEF made
    <3>4. v = w => done(v) = done(w)
      OBVIOUS
    <3>. HIDE DEF done
    <3>. QED  BY <2>2, <3>1, <3>2, <3>3, <3>4 DEF a, b
  <2>. QED  BY <2>6, <2>7
<1>. QED  BY <1>1, <1>2

\* A replay that went astray stays astray.
LEMMA AstrayStays ==
  ASSUME NEW o, NEW e, IsTape(e), e # <<>>, NEW v, IsPlay(Play(o, e, v)),
         ~Clean(Play(o, e, v)), NEW step
  PROVE  /\ IsPlay(Play(o, Append(e, step), v)) /\ ~Clean(Play(o, Append(e, step), v))
         /\ Append(e, step) # <<>>
<1>1. Play(o, Append(e, step), v) = Consume(step, Play(o, e, v), v) /\ Append(e, step) # <<>>
  BY PlayGrows, TapeGrows
<1>. DEFINE p == Play(o, e, v)
<1>. HIDE DEF p
<1>2. IsPlay(Consume(step, p, v)) /\ ~Clean(Consume(step, p, v))
  BY ConsumeTells DEF p
<1>. QED  BY <1>1, <1>2 DEF p

\* A run that is moved on without a step of its machine is followed as before.
LEMMA MovedFollows ==
  ASSUME NEW o, NEW c, NEW b, NEW e, NEW v, NEW same, Follows(o, c, b, e, v, same),
         NEW d, d.m = c.m, d.ended = c.ended, d.entered = c.entered,
         NEW b2, NEW same2, same2 => same,
         o = "operator" => Acted(o, d, b2, e, Play(o, e, v))
  PROVE  Follows(o, d, b2, e, v, same2)
<1>. DEFINE p == Play(o, e, v)
<1>1. IsPlay(p)
  BY DEF Follows
<1>. HIDE DEF p
<1>2. CASE InStep(o, c, e, p)
  BY <1>1, <1>2 DEF InStep, Follows, p
<1>3. CASE Early(o, c, e, p)
  <2>1. Early(o, d, e, p)
    BY <1>3 DEF Early
  <2>. QED  BY <1>1, <2>1 DEF Follows, p
<1>8. CASE Parted(c, e, p)
  BY <1>1, <1>8 DEF Parted, Follows, p
<1>4. CASE Failing(c, e, p)
  BY <1>1, <1>4 DEF Failing, Follows, p
<1>5. CASE Forgotten(c, e, p) /\ ~same
  BY <1>1, <1>5 DEF Forgotten, Follows, p
<1>6. CASE Gone(o, c, e, p, same)
  BY <1>1, <1>6 DEF Gone, Follows, p
<1>7. CASE o = "operator"
  BY <1>1, <1>7 DEF Follows, p
<1>. QED  BY <1>1, <1>2, <1>3, <1>4, <1>5, <1>6, <1>7, <1>8 DEF Follows, p

\* Entering a node: the replay enters it as well, unless it is not the node or not the facts
\* it stands at.
LEMMA EnterFollows ==
  ASSUME NEW o \in Origins, o # "operator", NEW c, NEW b, NEW e, IsTape(e), IsMachine(c.m),
         c.m.at = "enter", NEW v \in Versions, NEW same, Follows(o, c, b, e, v, same),
         NEW d, d.m = Visit(c.m), d.ended = c.ended, NEW b2
  PROVE  Follows(o, d, b2, Append(e, Step(c.m, "none")), v, same)
<1>. DEFINE m == c.m  step == Step(c.m, "none")  f == Append(e, step)
            p == Play(o, e, v)  n == Play(o, f, v)
<1>1. step.kind = "NODE_ENTERED" /\ step.node = m.node /\ step.facts = m.facts
  BY DEF Step, Wants
<1>2. n = Consume(step, p, v) /\ f # <<>>
  <2>. HIDE DEF step
  <2>. QED  BY <1>1, PlayGrows, TapeGrows
<1>3. IsPlay(p)
  BY DEF Follows
<1>. HIDE DEF p, n, f, step, m
<1>4. IsPlay(n)
  BY <1>2, <1>3, ConsumeTells
<1>5. CASE InStep(o, c, e, p)
  <2>1. /\ Clean(p) /\ p.m = Bare(m) /\ m.node # "operator" /\ m.at = "enter" /\ IsMachine(m)
        /\ Placed(m) /\ o \notin {"retry", "availability", "operator"} /\ IsFacts(m.facts)
        /\ c.ended = "no"
    BY <1>5 DEF InStep, m
  <2>. DEFINE q == Bare(m)
  <2>2. IsMachine(q) /\ q.at = "enter" /\ q.node # "operator"
    BY <2>1, BareTells
  <2>3. step.kind = Wants(q) /\ Matches(step, q) /\ AnswerOnTape(step, q, v) = Visit(q)
    <3>1. m.at \in GraphAt /\ ~Apart(m)
      BY <2>1 DEF GraphAt, Apart
    <3>2. step = Step(m, "none")
      BY DEF step, m
    <3>3. step.kind = Wants(q) /\ Matches(step, q) /\ AnswerOnTape(step, q, v) = Advance(q, "none", v)
      BY <2>1, <3>1, <3>2, OwnStep
    <3>4. Advance(q, "none", v) = Visit(q)
      BY <2>2 DEF Advance
    <3>. QED  BY <3>3, <3>4
  <2>4. /\ Visit(m).at \in GraphAt /\ Visit(m).facts = m.facts /\ Visit(m).node # "operator"
        /\ Visit(q).at \in GraphAt
    BY <2>1, <2>2, VisitTells, VisitFacts
  <2>5. \/ Visit(q) = Bare(Visit(m)) /\ Placed(Visit(m))
        \/ /\ Visit(q).at = "call"
           /\ Visit(m).at = "route" /\ Visit(m).node = "list_slots" /\ ClockHasPassed(Visit(m))
           /\ ~Visit(m).facts.slots /\ ~Visit(m).resumed
    BY <2>1, BareVisit
  <2>. HIDE DEF q
  <2>6. Clean(n) /\ n.m = Visit(q)
    <3>1. p.m = q /\ p.m.at # "over" /\ Visit(q).at # "raised"
      BY <2>1, <2>2, <2>4 DEF GraphAt, q
    <3>. QED  BY <1>2, <1>3, <2>1, <2>3, <3>1, ConsumeTells
  <2>7. d.m = Visit(m) /\ d.m.at # "over" /\ d.ended = "no"
    BY <2>1, <2>4 DEF m, GraphAt
  <2>8. CASE Visit(q) = Bare(Visit(m)) /\ Placed(Visit(m))
    <3>1. InStep(o, d, f, n)
      BY <1>2, <2>1, <2>4, <2>6, <2>7, <2>8 DEF InStep
    <3>. QED  BY <1>4, <3>1 DEF Follows, n, f, step
  <2>9. CASE /\ Visit(q).at = "call"
             /\ Visit(m).at = "route" /\ Visit(m).node = "list_slots" /\ ClockHasPassed(Visit(m))
             /\ ~Visit(m).facts.slots /\ ~Visit(m).resumed
    <3>1. Parted(d, f, n)
      BY <1>2, <2>6, <2>7, <2>9 DEF Parted
    <3>. QED  BY <1>4, <3>1 DEF Follows, n, f, step
  <2>. QED  BY <2>5, <2>8, <2>9
<1>6. CASE Early(o, c, e, p)
  <2>1. /\ Clean(p) /\ p.m = Primed(o, Facts(o)) /\ o \in {"retry", "availability"}
        /\ o = "retry" => m.node = "mutate"
    <3>1. o \notin {"new", "operator"} => ~Unmoved(o, c.m)
      BY UnmovedIs
    <3>. QED  BY <1>6, <3>1 DEF Early, m
  <2>2. IF o = "retry" THEN p.m.at = "enter" /\ p.m.node = "resolve_property" ELSE p.m.at = "refresh"
    BY <2>1, StartsAt
  <2>3. step.kind # Wants(p.m) \/ ~Matches(step, p.m)
    BY <1>1, <2>1, <2>2 DEF Matches, Wants
  <2>4. ~Clean(n)
    BY <1>2, <1>3, <2>1, <2>2, <2>3, ConsumeTells
  <2>. QED  BY <1>2, <1>4, <2>1, <2>4 DEF Follows, Gone, n, f, step
<1>10. CASE Parted(c, e, p)
  BY <1>10 DEF Parted
<1>7. CASE Failing(c, e, p)
  BY <1>7 DEF Failing
<1>8. CASE Forgotten(c, e, p) /\ ~same
  <2>1. ~Matches(step, p.m) /\ Clean(p) /\ p.m.at # "over"
    BY <1>1, <1>8 DEF Forgotten, Matches, m
  <2>2. ~Clean(n)
    BY <1>2, <1>3, <2>1, ConsumeTells
  <2>. QED  BY <1>2, <1>4, <1>8, <2>2 DEF Follows, Gone, n, f, step
<1>9. CASE Gone(o, c, e, p, same)
  <2>1. ~Clean(n)
    BY <1>2, <1>3, <1>9, ConsumeTells DEF Gone
  <2>2. Strayed(c.m) => Strayed(d.m)
    BY StrayedStays
  <2>. QED  BY <1>2, <1>4, <1>9, <2>1, <2>2 DEF Follows, Gone, n, f, step
<1>. QED  BY <1>5, <1>6, <1>7, <1>8, <1>9, <1>10 DEF Follows, p

\* Any other step of the graph: a replay in step with the run stays so, stops where the run
\* raised, or is a version of the graph that learned something else.
LEMMA EmitFollows ==
  ASSUME NEW o \in Origins, o # "operator", NEW c, NEW b, NEW e, IsTape(e), IsMachine(c.m),
         c.m.at \in GraphAt \ {"enter"}, NEW v \in Versions, NEW same,
         Follows(o, c, b, e, v, same), NEW answer, NEW w, same => v = w,
         NEW next, next = Advance(c.m, answer, w), NEW d,
         d.m = IF next.at = "raised"
               THEN [next EXCEPT !.at = "final", !.facts.done = "unknown"] ELSE next,
         d.ended = IF next.at = "raised" THEN "unknown"
                   ELSE IF next.at = "over" /\ c.ended = "no" THEN "answered" ELSE c.ended,
         NEW b2
  PROVE  Follows(o, d, b2, Append(e, Step(c.m, answer)), v, same)
<1>. DEFINE m == c.m  step == Step(c.m, answer)  f == Append(e, step)
            p == Play(o, e, v)  n == Play(o, f, v)
<1>1. step.kind = Wants(m) /\ step.node = m.node /\ step.facts = m.facts
  BY DEF Step
<1>2. e # <<>> => n = Consume(step, p, v) /\ f # <<>>
  <2>. HIDE DEF step
  <2>. QED  BY PlayGrows, TapeGrows
<1>3. IsPlay(p)
  BY DEF Follows
<1>. HIDE DEF p, n, f, step, m
<1>4. e # <<>> => IsPlay(n)
  BY <1>2, <1>3, ConsumeTells
<1>5. CASE InStep(o, c, e, p)
  <2>. DEFINE q == Bare(m)  there == Advance(m, answer, v)
  <2>1. /\ Clean(p) /\ p.m = q /\ m.node # "operator" /\ m.at \in GraphAt \ {"enter"}
        /\ IsMachine(m) /\ Placed(m) /\ e # <<>>
        /\ o \notin {"retry", "availability", "operator"} /\ IsFacts(m.facts) /\ c.ended = "no"
    BY <1>5 DEF InStep, m, GraphAt
  <2>2. /\ step.kind = Wants(q) /\ Matches(step, q) <=> ~Apart(m)
        /\ ~Apart(m) => AnswerOnTape(step, q, v) = Advance(q, answer, v)
    BY <2>1, OwnStep DEF step, m
  <2>3. /\ IsMachine(next) /\ next.at \in GraphAt \cup {"over", "raised"}
        /\ there.at \in GraphAt \cup {"over", "raised"} /\ IsMachine(there)
    BY <2>1, AdvanceTells DEF m
  <2>4. /\ IsFacts(next.facts) /\ next.node # "operator"
        /\ next.at = "raised" <=> there.at = "raised"
        /\ \/ next = there
           \/ next.at = "enter" /\ there.at = "enter" /\ next.facts # there.facts /\ w # v
    <3>1. next = Advance(m, answer, w)
      BY DEF m
    <3>. QED  BY <2>1, <3>1, Versioned
  <2>5. p.m.at # "over" /\ q.at = m.at
    BY <2>1, BareTells DEF GraphAt
  <2>6. CASE Apart(m)
    <3>1. ~Clean(n)
      BY <1>2, <1>3, <2>1, <2>2, <2>5, <2>6, ConsumeTells
    <3>2. Strayed(next) /\ next.at \in {"enter", "final"}
      BY <2>1, <2>6, ApartStrays DEF m
    <3>3. Strayed(d.m)
      BY <3>2
    <3>. QED  BY <1>2, <1>4, <2>1, <3>1, <3>3 DEF Follows, Gone, n, f, step
  <2>7. CASE ~Apart(m)
    <3>1. Advance(q, answer, v) = Bare(there) /\ (there.at # "raised" => Placed(there))
      BY <2>1, <2>7, BareAdvance
    <3>2. /\ step.kind = Wants(q) /\ Matches(step, q) /\ AnswerOnTape(step, q, v) = Bare(there)
          /\ Bare(there).at = there.at /\ Bare(there).facts = there.facts
      BY <2>2, <2>3, <2>7, <3>1, BareTells
    <3>. HIDE DEF there, q
    <3>3. CASE next.at = "raised"
      <4>1. ~Clean(n)
        BY <1>2, <1>3, <2>1, <2>4, <2>5, <3>2, <3>3, ConsumeTells
      <4>. QED  BY <1>2, <1>4, <2>1, <3>3, <4>1 DEF Follows, Gone, n, f, step
    <3>4. CASE next.at # "raised"
      <4>1. Clean(n) /\ n.m = Bare(there)
        BY <1>2, <1>3, <2>1, <2>4, <2>5, <3>2, <3>4, ConsumeTells
      <4>2. d.m = next /\ d.ended = IF next.at = "over" THEN "answered" ELSE "no"
        BY <2>1, <3>4
      <4>3. CASE next = there
        <5>1. next.at \in GraphAt \cup {"over"}
          BY <2>3, <3>4
        <5>2. InStep(o, d, f, n)
          BY <1>2, <2>1, <2>4, <3>1, <3>4, <4>1, <4>2, <4>3, <5>1 DEF InStep
        <5>. QED  BY <1>4, <2>1, <5>2 DEF Follows, n, f, step
      <4>4. CASE next.at = "enter" /\ there.at = "enter" /\ next.facts # there.facts /\ w # v
        <5>1. Forgotten(d, f, n) /\ ~same
          BY <1>2, <2>1, <3>2, <4>1, <4>2, <4>4 DEF Forgotten
        <5>. QED  BY <1>4, <2>1, <5>1 DEF Follows, n, f, step
      <4>. QED  BY <2>4, <4>3, <4>4
    <3>. QED  BY <3>3, <3>4
  <2>. QED  BY <2>6, <2>7
<1>6. CASE Early(o, c, e, p)
  <2>1. o \notin {"new", "operator"} => ~Unmoved(o, c.m)
    BY UnmovedIs DEF GraphAt
  <2>. QED  BY <1>6, <2>1 DEF Early, GraphAt
<1>10. CASE Parted(c, e, p)
  <2>1. /\ Clean(p) /\ p.m.at = "call" /\ e # <<>>
        /\ m.at = "route" /\ m.node = "list_slots" /\ ClockHasPassed(m)
        /\ ~m.facts.slots /\ ~m.resumed /\ c.ended = "no"
    BY <1>10 DEF Parted, m
  <2>2. step.kind = "ROUTE_DECISION" /\ step.kind # Wants(p.m)
    BY <1>1, <2>1 DEF Wants, Calls
  <2>3. ~Clean(n)
    BY <1>2, <1>3, <2>1, <2>2, ConsumeTells
  <2>4. Decision(m) = "need_availability_information"
    BY <2>1 DEF Decision
  <2>5. next = [node |-> "need_availability_information", at |-> "enter", facts |-> m.facts,
                resumed |-> m.resumed, unkept |-> m.unkept]
    BY <2>1, <2>4 DEF Advance, To, IsMachine, m
  <2>6. d.m = next
    BY <2>5
  <2>7. Strayed(d.m)
    BY <2>1, <2>5, <2>6 DEF Strayed, LeftOut, ClockHasPassed
  <2>. QED  BY <1>2, <1>4, <2>1, <2>3, <2>7 DEF Follows, Gone, n, f, step
<1>7. CASE Failing(c, e, p)
  <2>1. Clean(p) /\ p.m.at = "call" /\ m.at = "final" /\ c.ended = "raised" /\ e # <<>>
    BY <1>7 DEF Failing, m
  <2>2. step.kind = "FINAL_STATE" /\ step.kind # Wants(p.m)
    BY <1>1, <2>1 DEF Wants, Calls
  <2>3. ~Clean(n)
    BY <1>2, <1>3, <2>1, <2>2, ConsumeTells
  <2>4. d.ended \notin {"no", "answered"}
    BY <2>1
  <2>. QED  BY <1>2, <1>4, <2>1, <2>3, <2>4 DEF Follows, Gone, n, f, step
<1>8. CASE Forgotten(c, e, p) /\ ~same
  BY <1>8 DEF Forgotten
<1>9. CASE Gone(o, c, e, p, same)
  <2>1. ~Clean(n) /\ e # <<>>
    BY <1>2, <1>3, <1>9, ConsumeTells DEF Gone
  <2>2. Strayed(c.m) => Strayed(d.m)
    <3>1. Strayed(m) => m.at \in {"interrupt", "final"}
      BY DEF Strayed, GraphAt, m
    <3>2. Strayed(m) => Strayed(next) /\ next.at \in {"final", "over"}
      BY <3>1, StrayedStays DEF m
    <3>. QED  BY <3>2 DEF m
  <2>3. same => o \in {"retry", "availability"} \/ d.ended \notin {"no", "answered"} \/ Strayed(d.m)
    BY <1>9, <2>2 DEF Gone
  <2>. QED  BY <1>2, <1>4, <2>1, <2>3 DEF Follows, Gone, n, f, step
<1>. QED  BY <1>5, <1>6, <1>7, <1>8, <1>9, <1>10 DEF Follows, p

\* The reads before the graph: a preflight is passed over, the snapshot of a ticket is not.
LEMMA PreflightFollows ==
  ASSUME NEW o \in Origins, o # "operator", NEW c, NEW b, NEW e, IsTape(e), IsMachine(c.m),
         c.m.at \in {"preflight", "refresh"}, ~c.entered, NEW v \in Versions, NEW same,
         Follows(o, c, b, e, v, same),
         NEW then \in {"refresh", "enter", "refused"}, c.m.at = "refresh" => then = "enter",
         NEW d, d.m = [c.m EXCEPT !.at = IF then = "refused" THEN "over" ELSE then],
         d.entered = c.entered,
         d.ended = CASE then = "refused" -> "raised" [] then = "refresh" -> "refreshed"
                     [] OTHER -> c.ended,
         NEW b2
  PROVE  Follows(o, d, b2, Append(e, Step(c.m, "found")), v, same)
<1>. DEFINE m == c.m  step == Step(c.m, "found")  f == Append(e, step)
            p == Play(o, e, v)  n == Play(o, f, v)
<1>1. step.kind = IF m.at = "preflight" THEN "PROPERTY_AUTHORIZATION_RESULT"
                  ELSE "TICKET_SNAPSHOT_RESULT"
  BY DEF Step, Wants
<1>2. /\ f # <<>> /\ (e # <<>> \/ m.at = "refresh" => n = Consume(step, p, v))
      /\ (e = <<>> /\ m.at = "preflight" => n = Unplayed(Primed(o, Facts(o))))
  <2>. HIDE DEF step, m
  <2>1. f # <<>>
    BY TapeGrows
  <2>2. e # <<>> \/ m.at = "refresh" => n = Consume(step, p, v)
    BY <1>1, PlayGrows
  <2>3. e = <<>> /\ m.at = "preflight" => n = Unplayed(Primed(o, Facts(o)))
    BY <1>1, PlayPreflight
  <2>. QED  BY <2>1, <2>2, <2>3
<1>3. IsPlay(p)
  BY DEF Follows
<1>4. d.m.at = (IF then = "refused" THEN "over" ELSE then) /\ d.m.node = m.node
      /\ d.m.facts = m.facts
  BY DEF IsMachine
<1>. HIDE DEF p, n, f, step, m
<1>5. CASE InStep(o, c, e, p)
  BY <1>5 DEF InStep, GraphAt
<1>6. CASE Early(o, c, e, p)
  <2>. DEFINE start == Primed(o, Facts(o))
  <2>1. /\ Clean(p) /\ p.m = start /\ o \notin {"new", "operator"}
        /\ \/ Unmoved(o, m) /\ e = <<>> /\ c.ended = "no"
           \/ c.m.at = "refresh" /\ c.m.node = Entry(o) /\ e # <<>> /\ c.ended = "refreshed"
    BY <1>6 DEF Early, m
  <2>2. /\ start.at = IF o = "availability" THEN "refresh" ELSE "enter"
        /\ o = "availability" => start.node = "list_slots" /\ Entry(o) = "need_availability_information"
    BY <2>1, StartsAt
  <2>3. CASE Unmoved(o, m) /\ e = <<>> /\ c.ended = "no"
    <3>1. /\ m.at = "preflight" /\ m.node = Entry(o) /\ (o = "retry" => m.node = "mutate")
          /\ m.node # "operator" /\ IsFacts(m.facts)
          /\ o \in {"message", "resume"} =>
               start = Bare([m EXCEPT !.at = "enter"]) /\ Placed([m EXCEPT !.at = "enter"])
      BY <2>1, <2>3, UnmovedIs
    <3>2. /\ IsPlay(n) /\ Clean(n) /\ n.m = start
      BY <1>2, <2>3, <3>1 DEF IsPlay, Clean, Unplayed
    <3>3. CASE then = "enter" /\ o \in {"retry", "availability"}
      <4>1. o = "retry" => d.m.node = "mutate"
        BY <1>4, <3>1
      <4>2. Early(o, d, f, n)
        BY <1>2, <1>4, <2>1, <3>2, <3>3, <4>1 DEF Early
      <4>. QED  BY <3>2, <4>2 DEF Follows, n, f, step
    <3>4. CASE then = "enter" /\ o \notin {"retry", "availability"}
      <4>1. d.m = [m EXCEPT !.at = "enter"] /\ d.ended = "no" /\ o \in {"message", "resume"}
        BY <2>1, <2>3, <3>4 DEF Origins, m
      <4>2. start = Bare(d.m) /\ Placed(d.m)
        BY <3>1, <4>1
      <4>3. IsFacts(d.m.facts) /\ d.m.node # "operator"
        BY <1>4, <3>1
      <4>. HIDE DEF start
      <4>4. InStep(o, d, f, n)
        BY <1>2, <1>4, <2>1, <3>2, <3>4, <4>1, <4>2, <4>3 DEF InStep, GraphAt
      <4>. QED  BY <3>2, <4>4 DEF Follows, n, f, step
    <3>5. CASE then # "enter"
      <4>1. /\ n.m = Primed(o, Facts(o)) /\ ~d.entered /\ d.m.node = Entry(o)
            /\ then = "refused" => d.m.at = "over" /\ d.ended = "raised"
            /\ then # "refused" => d.m.at = "refresh" /\ d.ended = "refreshed"
        BY <1>4, <3>1, <3>2, <3>5 DEF start
      <4>2. Early(o, d, f, n)
        BY <1>2, <2>1, <3>2, <4>1 DEF Early
      <4>. QED  BY <3>2, <4>2 DEF Follows, n, f, step
    <3>. QED  BY <3>3, <3>4, <3>5
  <2>4. CASE c.m.at = "refresh" /\ c.m.node = Entry(o) /\ e # <<>> /\ c.ended = "refreshed"
    <3>. HIDE DEF start
    <3>1. p.m.at # "over" /\ (step.kind # Wants(p.m) \/ ~Matches(step, p.m))
      <4>1. step.node = m.node
        BY DEF step, Step, m
      <4>. QED  BY <1>1, <2>1, <2>2, <2>4, <4>1 DEF Wants, Matches, m
    <3>2. n = Consume(step, p, v)
      BY <1>2, <2>4 DEF m
    <3>3. IsPlay(n) /\ ~Clean(n)
      BY <1>3, <2>1, <3>1, <3>2, ConsumeTells
    <3>4. d.ended = "refreshed"
      BY <2>4
    <3>. QED  BY <1>2, <3>3, <3>4 DEF Follows, Gone, n, f, step
  <2>. QED  BY <2>1, <2>3, <2>4
<1>10. CASE Parted(c, e, p)
  BY <1>10 DEF Parted
<1>7. CASE Failing(c, e, p)
  BY <1>7 DEF Failing
<1>8. CASE Forgotten(c, e, p) /\ ~same
  BY <1>8 DEF Forgotten
<1>9. CASE Gone(o, c, e, p, same)
  <2>3. ~Clean(p) /\ e # <<>>
    BY <1>9 DEF Gone
  <2>1. IsPlay(n) /\ ~Clean(n)
    BY <1>3, <2>3, AstrayStays DEF n, p, f
  <2>2. same => o \in {"retry", "availability"} \/ d.ended \notin {"no", "answered"}
    BY <1>9 DEF Gone, Strayed
  <2>. QED  BY <1>2, <2>1, <2>2 DEF Follows, Gone, n, f, step
<1>. QED  BY <1>5, <1>6, <1>7, <1>8, <1>9, <1>10 DEF Follows, p

\* A call that raises leaves nothing on the tape: the replay waits for it in vain.
LEMMA RaiseFollows ==
  ASSUME NEW o \in Origins, o # "operator", NEW c, NEW b, NEW e, IsMachine(c.m),
         c.m.at \in {"call", "preflight", "refresh"}, c.entered \in BOOLEAN,
         c.m.at = "call" => c.entered, c.entered => c.m.at \in GraphAt,
         NEW v, NEW same, Follows(o, c, b, e, v, same),
         NEW d, d.m = [c.m EXCEPT !.at = IF c.entered THEN "final" ELSE "over"],
         d.entered = c.entered, d.ended = "raised", NEW b2
  PROVE  Follows(o, d, b2, e, v, same)
<1>. DEFINE p == Play(o, e, v)
<1>1. d.m.at = IF c.entered THEN "final" ELSE "over"
  BY DEF IsMachine
<1>2. IsPlay(p)
  BY DEF Follows
<1>. HIDE DEF p
<1>3. CASE InStep(o, c, e, p)
  <2>1. Clean(p) /\ p.m.at = "call" /\ c.entered /\ e # <<>>
    <3>1. Bare(c.m).at = c.m.at
      BY BareTells
    <3>. QED  BY <1>3, <3>1 DEF InStep, GraphAt
  <2>2. Failing(d, e, p)
    BY <1>1, <2>1 DEF Failing
  <2>. QED  BY <1>2, <2>2 DEF Follows, p
<1>4. CASE Early(o, c, e, p)
  <2>1. ~d.entered /\ d.m.at = "over"
    BY <1>1, <1>4 DEF Early
  <2>2. Early(o, d, e, p)
    BY <1>4, <2>1 DEF Early
  <2>. QED  BY <1>2, <2>2 DEF Follows, p
<1>5. CASE Failing(c, e, p)
  BY <1>5 DEF Failing
<1>8. CASE Parted(c, e, p)
  BY <1>8 DEF Parted
<1>6. CASE Forgotten(c, e, p) /\ ~same
  BY <1>6 DEF Forgotten
<1>7. CASE Gone(o, c, e, p, same)
  <2>1. Gone(o, d, e, p, same)
    BY <1>7 DEF Gone
  <2>. QED  BY <1>2, <2>1 DEF Follows, p
<1>. QED  BY <1>3, <1>4, <1>5, <1>6, <1>7, <1>8 DEF Follows, p

\* An operator's mutation and final state are replayed as they were recorded.
LEMMA ActingFollows ==
  ASSUME NEW answer, NEW v
  PROVE  LET n == Play("operator", Append(<<>>, Step(Fresh("operator"), answer)), v) IN
         /\ IsPlay(n) /\ Clean(n) /\ n.m = [Fresh("operator") EXCEPT !.at = "final"]
         /\ n.m.node = "operator" /\ n.m.at = "final"
<1>. DEFINE m == Fresh("operator")  step == Step(m, answer)
            p == Play("operator", <<>>, v)
            n == Play("operator", Append(<<>>, step), v)
<1>1. m.node = "operator" /\ m.at = "call" /\ IsMachine(m)
  BY DEF Fresh, At, Entry, IsMachine
<1>2. p = Unplayed(m)
  <2>1. Primed("operator", Facts("operator")) = m
    BY Starts DEF Origins
  <2>. QED  BY <2>1, PlayStarts
<1>3. IsPlay(p) /\ Clean(p) /\ p.m = m
  BY <1>2 DEF IsPlay, Clean, Unplayed
<1>. HIDE DEF m
<1>4. step.kind = Wants(m) /\ step.node = m.node /\ step.facts = m.facts
  BY DEF Step
<1>5. Matches(step, m) /\ AnswerOnTape(step, m, v) = [m EXCEPT !.at = "final"]
  BY <1>1, <1>4 DEF Matches, AnswerOnTape
<1>6. n = Consume(step, p, v)
  <2>. HIDE DEF step
  <2>1. IsTape(<<>>)
    BY DEF IsTape
  <2>. QED  BY <2>1, PlayGrows
<1>7. [m EXCEPT !.at = "final"].at = "final" /\ [m EXCEPT !.at = "final"].node = "operator"
  BY <1>1 DEF IsMachine
<1>. HIDE DEF p, n, step
<1>8. IsPlay(n) /\ Clean(n) /\ n.m = [m EXCEPT !.at = "final"]
  BY <1>1, <1>3, <1>4, <1>5, <1>6, <1>7, ConsumeTells
<1>. QED  BY <1>7, <1>8 DEF n, step, m

LEMMA EndingFollows ==
  ASSUME NEW e, IsTape(e), NEW v, NEW p, p = Play("operator", e, v), IsPlay(p), Clean(p),
         p.m.node = "operator", p.m.at = "final", IsMachine(p.m), NEW answer
  PROVE  LET n == Play("operator", Append(e, Step(p.m, answer)), v) IN
         IsPlay(n) /\ Clean(n) /\ n.m.at = "over"
<1>. DEFINE step == Step(p.m, answer)  n == Play("operator", Append(e, step), v)
            next == [p.m EXCEPT !.at = "over"]
<1>1. step.kind = Wants(p.m) /\ step.node = p.m.node /\ step.facts = p.m.facts
  BY DEF Step
<1>2. Matches(step, p.m) /\ AnswerOnTape(step, p.m, v) = next
  BY <1>1 DEF Matches, AnswerOnTape, Advance
<1>3. n = Consume(step, p, v)
  <2>. HIDE DEF step
  <2>. QED  BY PlayGrows
<1>4. next.at = "over"
  BY DEF IsMachine
<1>. HIDE DEF n, step, next
<1>5. IsPlay(n) /\ Clean(n) /\ n.m = next
  BY <1>1, <1>2, <1>3, <1>4, ConsumeTells
<1>. QED  BY <1>4, <1>5 DEF n, step

-----------------------------------------------------------------------------
(***************************************************************************)
(* Every step keeps the replay behind the run, and the verdicts justified. *)
(***************************************************************************)
\* A step of run r leaves the other runs, and everything that is not a run, alone.
Elsewhere(r) ==
  /\ UNCHANGED <<origin, tampered, execution, request, version>>
  /\ \A u \in Runs \ {r} :
       run'[u] = run[u] /\ bundle'[u] = bundle[u] /\ emitted'[u] = emitted[u]

LEMMA RunFollowed ==
  ASSUME FInv, RInv', NEW r \in Runs, Elsewhere(r), ~WasSealed(bundle[r]),
         \A v \in Versions :
           Follows(origin[r], run'[r], bundle'[r], emitted'[r], v, version = 1 /\ v = 1),
         version = 1 /\ bundle'[r] # None => bundle'[r].schema = 1
  PROVE  FInv'
<1>1. ASSUME NEW u \in Runs
      PROVE  Followed(u)' /\ OfSchema(u)'
  <2>1. origin' = origin /\ version' = version
    BY DEF Elsewhere
  <2>2. CASE u = r
    <3>1. OfSchema(r)'
      BY <2>1 DEF OfSchema
    <3>2. Followed(r)'
      BY <2>1 DEF Followed
    <3>. QED  BY <2>2, <3>1, <3>2
  <2>3. CASE u # r
    <3>1. run'[u] = run[u] /\ bundle'[u] = bundle[u] /\ emitted'[u] = emitted[u]
      BY <2>3 DEF Elsewhere
    <3>2. Followed(u) /\ OfSchema(u)
      BY DEF FInv
    <3>3. Followed(u)'
      BY <2>1, <3>1, <3>2 DEF Followed
    <3>4. OfSchema(u)'
      BY <2>1, <3>1, <3>2 DEF OfSchema
    <3>. QED  BY <3>3, <3>4
  <2>. QED  BY <2>2, <2>3
<1>2. \A u \in Runs : WasSealed(bundle[u]) => run'[u] = run[u]
  BY DEF Elsewhere
<1>3. UNCHANGED <<origin, tampered, execution, request, version>>
  BY DEF Elsewhere
<1>4. ASSUME NEW w \in Requests
      PROVE  Judging(w)'
  <2>1. Judging(w) /\ Asked(w) /\ request'[w] = request[w]
    BY <1>3 DEF FInv, RInv
  <2>2. request[w].at = "complete" => run'[request[w].run] = run[request[w].run]
    BY <1>2, <2>1 DEF Asked
  <2>. QED  BY <1>3, <2>1, <2>2 DEF Judging, Justified
<1>5. ASSUME NEW k \in Keys
      PROVE  Verdict(k)'
  <2>1. Verdict(k) /\ Answered(k) /\ execution'[k] = execution[k]
    BY <1>3 DEF FInv, RInv
  <2>2. execution[k] # None => run'[execution[k].run] = run[execution[k].run]
    BY <1>2, <2>1 DEF Answered
  <2>. QED  BY <1>3, <2>1, <2>2 DEF Verdict, Justified
<1>. QED  BY <1>1, <1>3, <1>4, <1>5 DEF FInv

\* Nothing that is written to a bundle changes its schema version.
LEMMA SchemaStays ==
  ASSUME NEW b, IsBundle(b), NEW x, NEW y, NEW z
  PROVE  /\ Started(b, x).schema = b.schema /\ Stored(b, x, y).schema = b.schema
         /\ Settled(b, z, x).schema = b.schema
<1>1. Started(b, x).schema = b.schema
  BY DEF Started, IsBundle
<1>2. Stored(b, x, y).schema = b.schema
  BY DEF Stored, IsBundle
<1>3. Settled(b, z, x).schema = b.schema
  BY DEF Settled, IsBundle
<1>. QED  BY <1>1, <1>2, <1>3

LEMMA BeginFollowed ==
  ASSUME FInv, NEW r \in Runs, Begin(r)
  PROVE  FInv'
<1>. DEFINE c == run[r]  d == run'[r]  o == origin[r]
            new == [status |-> "CAPTURING", start |-> None, steps |-> <<>>,
                    expected |-> None, sealed |-> None, schema |-> Schema(version)]
<1>1. RInv /\ RInv' /\ ~WasSealed(bundle[r])
  BY BeginKeeps, NotSealedYet DEF FInv, Begin
<1>2. PICK outcome \in Outcomes :
        /\ bundle' = IF outcome = "failed" THEN bundle ELSE [bundle EXCEPT ![r] = new]
        /\ run' = [run EXCEPT ![r].at = IF outcome # "done" THEN "noop"
                                        ELSE IF origin[r] = "operator" THEN "stating" ELSE "running"]
  BY DEF Begin
<1>. DEFINE at == IF outcome # "done" THEN "noop"
                  ELSE IF origin[r] = "operator" THEN "stating" ELSE "running"
<1>3. /\ c.at = "begin" /\ IsRun(c) /\ bundle[r] = None /\ emitted[r] = <<>>
      /\ o = "operator" => c.m = Fresh(o)
  <2>1. /\ c.at = "begin" /\ Typed(o, c, bundle[r], emitted[r])
        /\ Untouched(o, c, bundle[r], emitted[r])
    BY <1>1 DEF Begin, RInv, Captured, Row
  <2>2. IsRun(c) /\ bundle[r] = None /\ emitted[r] = <<>>
    BY <2>1 DEF Typed, Untouched
  <2>. DEFINE u == c.m.unkept
  <2>. HIDE DEF u, c
  <2>3. c.m = Begun(o, u) /\ u \in Unkept(o)
    BY <2>1 DEF Untouched, u
  <2>4. o = "operator" => Begun(o, u) = Fresh(o)
    BY <2>3, OperatorBegins
  <2>. QED  BY <2>1, <2>2, <2>3, <2>4 DEF c
<1>4. /\ d = [c EXCEPT !.at = at]
      /\ bundle'[r] = IF outcome = "failed" THEN None ELSE new
      /\ emitted'[r] = <<>>
  BY <1>1, <1>2, <1>3 DEF RInv, Tables, Begin
<1>5. Elsewhere(r)
  BY <1>1, <1>2 DEF Elsewhere, RInv, Tables, Begin
<1>. HIDE DEF c, d
<1>6. d.m = c.m /\ d.ended = c.ended /\ d.entered = c.entered /\ d.at = at
  BY <1>3, <1>4 DEF IsRun
<1>7. new.status = "CAPTURING" /\ (version = 1 => new.schema = 1)
  BY DEF Schema
<1>. HIDE DEF new
<1>8. ~WasSealed(bundle'[r]) /\ (version = 1 /\ bundle'[r] # None => bundle'[r].schema = 1)
  BY <1>4, <1>7 DEF WasSealed
<1>9. ASSUME NEW v \in Versions
      PROVE  Follows(o, d, bundle'[r], emitted'[r], v, version = 1 /\ v = 1)
  <2>1. Follows(o, c, bundle[r], emitted[r], v, version = 1 /\ v = 1)
    BY DEF FInv, Followed, c
  <2>2. d.at \in {"noop", "stating", "running"} /\ (o = "operator" => d.at # "running")
    BY <1>6
  <2>3. o = "operator" => Acted(o, d, bundle'[r], emitted[r], Play(o, emitted[r], v))
    BY <1>3, <1>6, <1>8, <2>2 DEF Acted
  <2>. DEFINE e == emitted[r]  b2 == bundle'[r]  same == version = 1 /\ v = 1
  <2>. HIDE DEF o, e, b2, same
  <2>4. Follows(o, d, b2, e, v, same)
    BY <1>6, <2>1, <2>3, MovedFollows DEF e, b2, same
  <2>. QED  BY <1>3, <1>4, <2>4 DEF e, b2, same
<1>. QED  BY <1>1, <1>5, <1>8, <1>9, RunFollowed DEF d

LEMMA PreflightFollowed ==
  ASSUME FInv, NEW r \in Runs, Preflight(r)
  PROVE  FInv'
<1>. DEFINE c == run[r]  m == c.m  b == bundle[r]  d == run'[r]  o == origin[r]
            step == Step(m, "found")
<1>1. RInv /\ RInv' /\ c.at = "running" /\ m.at \in {"preflight", "refresh"}
  BY PreflightKeeps DEF FInv, Preflight
<1>2. PICK outcome \in Outcomes, then \in {"refresh", "enter", "refused"} :
        /\ m.at = "refresh" => then = "enter"
        /\ Record(r, b, Step(m, "found"), c.error, outcome)
        /\ run' = [run EXCEPT ![r].error = c.error \/ Refused(b, outcome),
                     ![r].m = [m EXCEPT !.at = IF then = "refused" THEN "over" ELSE then],
                     ![r].at = IF then = "refused" THEN "closing" ELSE c.at,
                     ![r].ended = CASE then = "refused" -> "raised" [] then = "refresh" -> "refreshed" [] OTHER -> @]
  BY DEF Preflight
<1>3. /\ o \in Origins /\ o # "operator" /\ IsRun(c) /\ IsMachine(m) /\ IsTape(emitted[r])
      /\ ~c.entered /\ b # None /\ IsBundle(b) /\ ~WasSealed(b)
  BY <1>1, Running DEF GraphAt
<1>. DEFINE ended == CASE then = "refused" -> "raised" [] then = "refresh" -> "refreshed"
                       [] OTHER -> c.ended
            place == [m EXCEPT !.at = IF then = "refused" THEN "over" ELSE then]
<1>4. d.m = place /\ d.entered = c.entered /\ d.ended = ended
  <2>. DEFINE error == c.error \/ Refused(b, outcome)
              at == IF then = "refused" THEN "closing" ELSE c.at
  <2>1. d = [c EXCEPT !.error = error, !.m = place, !.at = at, !.ended = ended]
    <3>1. run' = [run EXCEPT ![r].error = error, ![r].m = place, ![r].at = at,
                    ![r].ended = CASE then = "refused" -> "raised"
                                   [] then = "refresh" -> "refreshed" [] OTHER -> @]
      BY <1>2
    <3>. HIDE DEF error, at, place
    <3>. QED  BY <1>1, <1>3, <3>1 DEF RInv, Tables, IsRun
  <2>. HIDE DEF error, at, place, ended, c, d
  <2>. QED  BY <1>3, <2>1 DEF IsRun
<1>5. /\ emitted'[r] = Append(emitted[r], step)
      /\ bundle'[r] = IF c.error THEN b ELSE Stored(b, step, outcome)
  BY <1>1, <1>2 DEF Record, RInv, Tables
<1>6. Elsewhere(r)
  BY <1>1, <1>2 DEF Elsewhere, RInv, Tables, Preflight, Record
<1>7. version = 1 /\ bundle'[r] # None => bundle'[r].schema = 1
  <2>1. version = 1 => b.schema = 1
    BY <1>3 DEF FInv, OfSchema
  <2>. HIDE DEF step, b
  <2>. QED  BY <1>3, <1>5, <2>1, SchemaStays
<1>8. ASSUME NEW v \in Versions
      PROVE  Follows(o, d, bundle'[r], emitted'[r], v, version = 1 /\ v = 1)
  <2>1. Follows(o, c, b, emitted[r], v, version = 1 /\ v = 1)
    BY DEF FInv, Followed
  <2>2. /\ then \in {"refresh", "enter", "refused"} /\ (c.m.at = "refresh" => then = "enter")
        /\ c.m.at \in {"preflight", "refresh"}
    BY <1>1, <1>2
  <2>. DEFINE e == emitted[r]  b2 == bundle'[r]  same == version = 1 /\ v = 1
  <2>. HIDE DEF c, d, o, b, e, b2, same
  <2>3. Follows(o, d, b2, Append(e, Step(c.m, "found")), v, same)
    BY <1>3, <1>4, <2>1, <2>2, PreflightFollows DEF e, same
  <2>. QED  BY <1>5, <2>3 DEF e, b2, same
<1>. QED  BY <1>1, <1>3, <1>6, <1>7, <1>8, RunFollowed

LEMMA EnterNodeFollowed ==
  ASSUME FInv, NEW r \in Runs, EnterNode(r)
  PROVE  FInv'
<1>. DEFINE c == run[r]  m == c.m  b == bundle[r]  d == run'[r]  o == origin[r]
            step == Step(m, "none")
<1>1. RInv /\ RInv' /\ c.at = "running" /\ m.at = "enter"
  BY EnterNodeKeeps DEF FInv, EnterNode
<1>2. /\ o \in Origins /\ o # "operator" /\ IsRun(c) /\ IsMachine(m) /\ IsTape(emitted[r])
      /\ b # None /\ IsBundle(b) /\ ~WasSealed(b)
  BY <1>1, Running
<1>3. PICK begins \in Outcomes, writes \in Outcomes :
        LET offered == IF c.known \/ begins = "failed" THEN b ELSE Started(b, m.facts)
            error   == c.error \/ begins # "done"
        IN  /\ IF begins # "done"
               THEN /\ faults' = faults + 1
                    /\ emitted' = [emitted EXCEPT ![r] = Append(@, step)]
                    /\ bundle' = [bundle EXCEPT ![r] = offered]
               ELSE Record(r, offered, step, error, writes)
            /\ run' = [run EXCEPT ![r].known = c.known \/ begins = "done",
                                  ![r].error = error \/ Refused(offered, writes),
                                  ![r].entered = TRUE, ![r].m = Visit(m)]
  BY DEF EnterNode
<1>. DEFINE offered == IF c.known \/ begins = "failed" THEN b ELSE Started(b, m.facts)
<1>4. d.m = Visit(m) /\ d.ended = c.ended
  BY <1>1, <1>2, <1>3 DEF RInv, Tables, IsRun
<1>5. /\ emitted'[r] = Append(emitted[r], step)
      /\ bundle'[r] \in {offered, Stored(offered, step, writes)}
  <2>1. CASE begins # "done"
    BY <1>1, <1>3, <2>1 DEF RInv, Tables
  <2>2. CASE begins = "done"
    BY <1>1, <1>3, <2>2 DEF Record, RInv, Tables
  <2>. QED  BY <2>1, <2>2
<1>6. Elsewhere(r)
  <2>1. \A u \in Runs \ {r} : run'[u] = run[u]
    BY <1>1, <1>3 DEF RInv, Tables
  <2>2. \A u \in Runs \ {r} : bundle'[u] = bundle[u] /\ emitted'[u] = emitted[u]
    <3>1. CASE begins # "done"
      BY <1>1, <1>3, <3>1 DEF RInv, Tables
    <3>2. CASE begins = "done"
      BY <1>1, <1>3, <3>2 DEF Record, RInv, Tables
    <3>. QED  BY <3>1, <3>2
  <2>. QED  BY <2>1, <2>2 DEF Elsewhere, EnterNode
<1>7. version = 1 /\ bundle'[r] # None => bundle'[r].schema = 1
  <2>1. version = 1 => b.schema = 1
    BY <1>2 DEF FInv, OfSchema
  <2>. HIDE DEF step, b, c, m
  <2>2. IsBundle(offered) /\ offered.schema = b.schema
    <3>1. Started(b, m.facts).schema = b.schema
      BY <1>2, SchemaStays
    <3>2. IsBundle(Started(b, m.facts))
      BY <1>2 DEF Started, IsBundle
    <3>. QED  BY <1>2, <3>1, <3>2
  <2>. HIDE DEF offered
  <2>. QED  BY <1>5, <2>1, <2>2, SchemaStays
<1>8. ASSUME NEW v \in Versions
      PROVE  Follows(o, d, bundle'[r], emitted'[r], v, version = 1 /\ v = 1)
  <2>. DEFINE e == emitted[r]  b2 == bundle'[r]  same == version = 1 /\ v = 1
  <2>1. Follows(o, c, b, e, v, same)
    BY DEF FInv, Followed
  <2>. HIDE DEF c, d, o, b, e, b2, same
  <2>2. IsMachine(c.m) /\ c.m.at = "enter" /\ d.m = Visit(c.m) /\ IsTape(e)
    BY <1>1, <1>2, <1>4 DEF e
  <2>3. Follows(o, d, b2, Append(e, Step(c.m, "none")), v, same)
    BY <1>2, <1>4, <2>1, <2>2, EnterFollows
  <2>. QED  BY <1>5, <2>3 DEF e, b2, same
<1>. QED  BY <1>1, <1>2, <1>6, <1>7, <1>8, RunFollowed


LEMMA EmitFollowed ==
  ASSUME FInv, NEW r \in Runs, Emit(r)
  PROVE  FInv'
<1>. DEFINE c == run[r]  m == c.m  b == bundle[r]  d == run'[r]  o == origin[r]
<1>1. RInv /\ RInv' /\ c.at = "running" /\ m.at \in {"call", "route", "interrupt", "final"}
  BY EmitKeeps DEF FInv, Emit
<1>2. /\ o \in Origins /\ o # "operator" /\ IsRun(c) /\ IsMachine(m) /\ IsTape(emitted[r])
      /\ b # None /\ IsBundle(b) /\ ~WasSealed(b)
  BY <1>1, Running
<1>3. PICK answer \in Answers(m), outcome \in Outcomes :
        /\ Record(r, b, Step(m, answer), c.error, outcome)
        /\ LET next == Advance(m, answer, version) IN
           run' = [run EXCEPT
             ![r].error = c.error \/ Refused(b, outcome),
             ![r].m  = IF next.at = "raised" THEN [next EXCEPT !.at = "final", !.facts.done = "unknown"] ELSE next,
             ![r].at = IF next.at = "over" THEN "closing" ELSE c.at,
             ![r].ended = IF next.at = "raised" THEN "unknown"
                          ELSE IF next.at = "over" /\ @ = "no" THEN "answered" ELSE @]
  BY DEF Emit
<1>. DEFINE step == Step(m, answer)  next == Advance(m, answer, version)
            after == IF next.at = "raised" THEN [next EXCEPT !.at = "final", !.facts.done = "unknown"] ELSE next
            ended == IF next.at = "raised" THEN "unknown"
                     ELSE IF next.at = "over" /\ c.ended = "no" THEN "answered" ELSE c.ended
<1>4. d.m = after /\ d.ended = ended
  <2>. DEFINE error == c.error \/ Refused(b, outcome)
              at == IF next.at = "over" THEN "closing" ELSE c.at
  <2>1. run' = [run EXCEPT ![r].error = error, ![r].m = after, ![r].at = at,
                           ![r].ended = IF next.at = "raised" THEN "unknown"
                                        ELSE IF next.at = "over" /\ @ = "no" THEN "answered" ELSE @]
    BY <1>3
  <2>. HIDE DEF error, at, after, next
  <2>2. d = [c EXCEPT !.error = error, !.m = after, !.at = at, !.ended = ended]
    BY <1>1, <1>2, <2>1 DEF RInv, Tables, IsRun
  <2>. HIDE DEF ended, c, d
  <2>. QED  BY <1>2, <2>2 DEF IsRun
<1>5. /\ emitted'[r] = Append(emitted[r], step)
      /\ bundle'[r] = IF c.error THEN b ELSE Stored(b, step, outcome)
  BY <1>1, <1>3 DEF Record, RInv, Tables
<1>6. Elsewhere(r)
  <2>. HIDE DEF step, next
  <2>1. \A u \in Runs \ {r} : run'[u] = run[u]
    BY <1>1, <1>3 DEF RInv, Tables
  <2>2. \A u \in Runs \ {r} : bundle'[u] = bundle[u] /\ emitted'[u] = emitted[u]
    BY <1>1, <1>3 DEF Record, RInv, Tables
  <2>. QED  BY <2>1, <2>2 DEF Elsewhere, Emit
<1>7. version = 1 /\ bundle'[r] # None => bundle'[r].schema = 1
  <2>1. version = 1 => b.schema = 1
    BY <1>2 DEF FInv, OfSchema
  <2>. HIDE DEF step, b
  <2>. QED  BY <1>2, <1>5, <2>1, SchemaStays
<1>8. ASSUME NEW v \in Versions
      PROVE  Follows(o, d, bundle'[r], emitted'[r], v, version = 1 /\ v = 1)
  <2>. DEFINE e == emitted[r]  b2 == bundle'[r]  same == version = 1 /\ v = 1
  <2>1. Follows(o, c, b, e, v, same) /\ (same => v = version)
    BY DEF FInv, Followed
  <2>2. m.at \in GraphAt \ {"enter"} /\ IsMachine(m) /\ IsTape(e)
    BY <1>1, <1>2 DEF GraphAt
  <2>. HIDE DEF c, d, o, b, e, b2, same, next
  <2>3. next = Advance(c.m, answer, version)
    BY DEF next
  <2>4. Follows(o, d, b2, Append(e, Step(c.m, answer)), v, same)
    BY <1>2, <1>4, <2>1, <2>2, <2>3, EmitFollows
  <2>. QED  BY <1>5, <2>4 DEF e, b2, same
<1>. QED  BY <1>1, <1>2, <1>6, <1>7, <1>8, RunFollowed

LEMMA CallRaisesFollowed ==
  ASSUME FInv, NEW r \in Runs, CallRaises(r)
  PROVE  FInv'
<1>. DEFINE c == run[r]  m == c.m  b == bundle[r]  d == run'[r]  o == origin[r]
            place == [m EXCEPT !.at = IF c.entered THEN "final" ELSE "over"]
<1>1. RInv /\ RInv' /\ c.at = "running" /\ m.at \in {"call", "preflight", "refresh"}
  BY CallRaisesKeeps DEF FInv, CallRaises
<1>2. /\ o \in Origins /\ o # "operator" /\ IsRun(c) /\ IsMachine(m)
      /\ c.entered \in BOOLEAN /\ ~WasSealed(b) /\ b # None
      /\ c.entered => m.at \in GraphAt
      /\ m.at = "call" => c.entered
  BY <1>1, Running
<1>3. d.m = place /\ d.entered = c.entered /\ d.ended = "raised"
  BY <1>1, <1>2 DEF CallRaises, RInv, Tables, IsRun
<1>4. emitted'[r] = emitted[r] /\ bundle'[r] = b /\ Elsewhere(r)
  BY <1>1 DEF CallRaises, Elsewhere, RInv, Tables
<1>5. version = 1 => b.schema = 1
  BY <1>2 DEF FInv, OfSchema
<1>6. ASSUME NEW v \in Versions
      PROVE  Follows(o, d, bundle'[r], emitted'[r], v, version = 1 /\ v = 1)
  <2>. DEFINE e == emitted[r]  same == version = 1 /\ v = 1
  <2>1. Follows(o, c, b, e, v, same)
    BY DEF FInv, Followed
  <2>. HIDE DEF c, d, o, b, e, same
  <2>2. Follows(o, d, b, e, v, same)
    BY <1>1, <1>2, <1>3, <2>1, RaiseFollows
  <2>. QED  BY <1>4, <2>2 DEF e, same
<1>. QED  BY <1>1, <1>2, <1>4, <1>5, <1>6, RunFollowed

LEMMA CloseFollowed ==
  ASSUME FInv, NEW r \in Runs, Close(r)
  PROVE  FInv'
<1>. DEFINE c == run[r]  m == c.m  b == bundle[r]  d == run'[r]  o == origin[r]
<1>1. RInv /\ RInv' /\ c.at = "closing"
  BY CloseKeeps DEF FInv, Close
<1>2. /\ o \in Origins /\ IsRun(c) /\ b # None /\ IsBundle(b) /\ ~WasSealed(b)
  BY <1>1 DEF RInv, Captured, Row, Typed, OnTape, Working, WasSealed
<1>3. d.m = c.m /\ d.entered = c.entered /\ d.ended = c.ended
  BY <1>1, <1>2 DEF Close, RInv, Tables, IsRun
<1>4. PICK status, outcome :
        bundle' = IF outcome = "failed" THEN bundle
                  ELSE [bundle EXCEPT ![r] = Settled(@, status, m.facts)]
  BY DEF Close
<1>5. bundle'[r] \in {b, Settled(b, status, m.facts)}
  BY <1>1, <1>4 DEF RInv, Tables
<1>6. emitted'[r] = emitted[r] /\ Elsewhere(r)
  BY <1>1, <1>4 DEF Close, Elsewhere, RInv, Tables
<1>7. version = 1 /\ bundle'[r] # None => bundle'[r].schema = 1
  <2>1. version = 1 => b.schema = 1
    BY <1>2 DEF FInv, OfSchema
  <2>. HIDE DEF b, m
  <2>. QED  BY <1>2, <1>5, <2>1, SchemaStays
<1>8. ASSUME NEW v \in Versions
      PROVE  Follows(o, d, bundle'[r], emitted'[r], v, version = 1 /\ v = 1)
  <2>. DEFINE e == emitted[r]  b2 == bundle'[r]  same == version = 1 /\ v = 1
  <2>1. Follows(o, c, b, e, v, same)
    BY DEF FInv, Followed
  <2>2. o # "operator"
    BY <1>1, <2>1 DEF Follows, Acted
  <2>. HIDE DEF c, d, o, b, e, b2, same
  <2>3. Follows(o, d, b2, e, v, same)
    BY <1>3, <2>1, <2>2, MovedFollows
  <2>. QED  BY <1>6, <2>3 DEF e, b2, same
<1>. QED  BY <1>1, <1>2, <1>6, <1>7, <1>8, RunFollowed

LEMMA OperatorStepFollowed ==
  ASSUME FInv, NEW r \in Runs, OperatorStep(r)
  PROVE  FInv'
<1>. DEFINE c == run[r]  m == c.m  b == bundle[r]  e == emitted[r]  d == run'[r]
            recorded == c.at \in {"acting", "ending"}
<1>1. PICK i \in 1..4, answer \in Answers(m), outcome \in Outcomes :
        LET breaks == outcome # "done" \/ (recorded /\ Refused(b, outcome)) IN
        /\ c.at = OperatorStages[i]
        /\ emitted' = IF recorded THEN [emitted EXCEPT ![r] = Append(@, Step(m, answer))] ELSE emitted
        /\ bundle' = [bundle EXCEPT ![r] =
              CASE recorded          -> Stored(@, Step(m, answer), outcome)
                [] c.at = "stating"  -> IF outcome = "failed" THEN @ ELSE Started(@, m.facts)
                [] c.at = "sealing"  -> IF outcome = "failed" THEN @ ELSE Settled(@, "READY", m.facts)]
        /\ run' = [run EXCEPT
              ![r].error = breaks, ![r].ended = "answered",
              ![r].m.at = IF c.at = "acting" THEN "final" ELSE @,
              ![r].at = IF breaks THEN "abandoned" ELSE OperatorStages[i + 1]]
        /\ UNCHANGED <<origin, tampered, execution, request, version>>
  BY ZenonT(60) DEF OperatorStep
<1>. DEFINE step == Step(m, answer)
            breaks == outcome # "done" \/ (recorded /\ Refused(b, outcome))
            next == CASE c.at = "stating" -> "acting" [] c.at = "acting" -> "ending"
                      [] c.at = "ending" -> "sealing" [] OTHER -> "closed"
            stored == Stored(b, step, outcome)
            started == Started(b, m.facts)
            ready == Settled(b, "READY", m.facts)
<1>2. c.at \in OperatorAt /\ OperatorStages[i + 1] = next
  BY <1>1 DEF OperatorStages, OperatorAt
<1>3. /\ RInv /\ RInv'
      /\ origin[r] = "operator" /\ IsRun(c) /\ IsMachine(m) /\ IsTape(e)
      /\ b # None /\ IsBundle(b) /\ b.status = "CAPTURING" /\ ~WasSealed(b)
  BY <1>2, Operating, OperatorStepKeeps DEF FInv
<1>4. /\ d.at = (IF breaks THEN "abandoned" ELSE next) /\ d.ended = "answered"
      /\ d.m = [m EXCEPT !.at = IF c.at = "acting" THEN "final" ELSE m.at]
  <2>. DEFINE place == IF c.at = "acting" THEN "final" ELSE m.at
              at == IF breaks THEN "abandoned" ELSE next
  <2>1. run' = [run EXCEPT ![r].error = breaks, ![r].ended = "answered",
                           ![r].m.at = IF c.at = "acting" THEN "final" ELSE @, ![r].at = at]
    BY <1>1, <1>2
  <2>. HIDE DEF breaks, at, next
  <2>. DEFINE new == [c EXCEPT !.error = breaks, !.ended = "answered",
                               !.m = [m EXCEPT !.at = place], !.at = at]
  <2>2. run' = [run EXCEPT ![r] = new]
    BY <1>3, <2>1 DEF RInv, Tables, IsRun
  <2>. HIDE DEF new
  <2>3. d = new
    BY <1>3, <2>2 DEF RInv, Tables
  <2>4. d = [c EXCEPT !.error = breaks, !.ended = "answered", !.m = [m EXCEPT !.at = place], !.at = at]
    BY <2>3 DEF new
  <2>. HIDE DEF c, d, place
  <2>5. d.at = at /\ d.m = [m EXCEPT !.at = place] /\ d.ended = "answered"
    BY <1>3, <2>4 DEF IsRun
  <2>. QED  BY <2>5 DEF at, place
<1>5. /\ recorded => bundle'[r] = stored
      /\ c.at = "stating" => bundle'[r] \in {b, started}
      /\ c.at = "sealing" => bundle'[r] \in {b, ready}
  <2>. DEFINE x == CASE recorded          -> stored
                     [] c.at = "stating"  -> IF outcome = "failed" THEN b ELSE started
                     [] c.at = "sealing"  -> IF outcome = "failed" THEN b ELSE ready
  <2>1. bundle' = [bundle EXCEPT ![r] = x]
    BY <1>1
  <2>2. /\ recorded => x = stored
        /\ c.at = "stating" => x \in {b, started}
        /\ c.at = "sealing" => x \in {b, ready}
    <3>. HIDE DEF stored, started, ready, b, c
    <3>1. CASE recorded
      BY <3>1
    <3>2. CASE c.at = "stating"
      BY <3>2
    <3>3. CASE c.at = "sealing"
      BY <3>3
    <3>. QED  BY <1>2, <3>1, <3>2, <3>3 DEF OperatorAt
  <2>. HIDE DEF x
  <2>3. bundle'[r] = x
    BY <1>3, <2>1 DEF RInv, Tables
  <2>. HIDE DEF stored, started, ready, b, c
  <2>. QED  BY <2>2, <2>3
<1>6. emitted'[r] = IF recorded THEN Append(e, step) ELSE e
  BY <1>1, <1>3 DEF RInv, Tables
<1>7. Elsewhere(r)
  <2>. HIDE DEF step, next, breaks, recorded
  <2>1. \A u \in Runs \ {r} : run'[u] = run[u]
    BY <1>1, <1>3 DEF RInv, Tables
  <2>2. \A u \in Runs \ {r} : bundle'[u] = bundle[u] /\ emitted'[u] = emitted[u]
    BY <1>1, <1>3 DEF RInv, Tables
  <2>. QED  BY <1>1, <2>1, <2>2 DEF Elsewhere
<1>8. version = 1 => b.schema = 1
  BY <1>3 DEF FInv, OfSchema
<1>9. ASSUME NEW v \in Versions
      PROVE  IsPlay(Play("operator", e, v)) /\ Acted("operator", c, b, e, Play("operator", e, v))
  BY <1>3 DEF FInv, Followed, Follows
<1>. HIDE DEF b, c, d, e, m, step
<1>10. /\ ~WasSealed(stored) /\ ~WasSealed(started)
       /\ stored.schema = b.schema /\ started.schema = b.schema /\ ready.schema = b.schema
  <2>1. stored.status = "CAPTURING" /\ started.status = "CAPTURING"
    BY <1>3, StoredTells, StartedTells
  <2>. QED  BY <1>3, <2>1, SchemaStays DEF WasSealed
<1>. HIDE DEF stored, started, ready
<1>11. c.at # "sealing" => ~WasSealed(bundle'[r])
  BY <1>2, <1>3, <1>5, <1>10 DEF OperatorAt
<1>12. version = 1 /\ bundle'[r] # None => bundle'[r].schema = 1
  BY <1>2, <1>5, <1>8, <1>10 DEF OperatorAt
<1>13. d.m.at = (IF c.at = "acting" THEN "final" ELSE m.at) /\ (c.at = "stating" => d.m = m)
  BY <1>3, <1>4 DEF IsMachine
<1>14. d.at \in {next, "abandoned"}
  BY <1>4
<1>15. ASSUME NEW v \in Versions
       PROVE  Follows("operator", d, bundle'[r], emitted'[r], v, version = 1 /\ v = 1)
  <2>. DEFINE p == Play("operator", e, v)  f == emitted'[r]  n == Play("operator", f, v)
              b2 == bundle'[r]
  <2>1. IsPlay(p) /\ Acted("operator", c, b, e, p)
    BY <1>9
  <2>. SUFFICES IsPlay(n) /\ Acted("operator", d, b2, f, n)
    BY DEF Follows
  <2>2. CASE c.at = "stating"
    <3>1. e = <<>> /\ m = Fresh("operator") /\ f = e
      BY <1>6, <2>1, <2>2 DEF Acted, m
    <3>2. d.at \in {"acting", "abandoned"} /\ d.m = m /\ ~WasSealed(b2)
      BY <1>11, <1>13, <1>14, <2>2
    <3>. QED  BY <1>4, <2>1, <3>1, <3>2 DEF Acted
  <2>3. CASE c.at = "acting"
    <3>1. e = <<>> /\ m = Fresh("operator") /\ f = Append(e, Step(m, answer))
      BY <1>6, <2>1, <2>3 DEF Acted, m, step
    <3>2. d.at \in {"ending", "abandoned"} /\ ~WasSealed(b2)
      BY <1>11, <1>14, <2>3
    <3>3. d.m = [m EXCEPT !.at = "final"]
      BY <1>4, <2>3
    <3>. DEFINE mine == Fresh("operator")
                first == Play("operator", Append(<<>>, Step(mine, answer)), v)
    <3>4. /\ IsPlay(first) /\ Clean(first) /\ first.m = [mine EXCEPT !.at = "final"]
          /\ first.m.node = "operator" /\ first.m.at = "final"
      BY ActingFollows
    <3>5. n = first /\ d.m = [mine EXCEPT !.at = "final"]
      BY <3>1, <3>3
    <3>. HIDE DEF first, mine
    <3>6. /\ IsPlay(n) /\ Clean(n) /\ n.m = d.m /\ d.m.node = "operator" /\ d.m.at = "final"
      BY <3>4, <3>5
    <3>. HIDE DEF n, f, b2
    <3>. QED  BY <1>4, <3>2, <3>6 DEF Acted
  <2>4. CASE c.at = "ending"
    <3>1. f = Append(e, Step(p.m, answer)) /\ p.m = m /\ Clean(p)
          /\ m.node = "operator" /\ m.at = "final"
      BY <1>6, <2>1, <2>4 DEF Acted, m, step
    <3>2. d.at \in {"sealing", "abandoned"} /\ ~WasSealed(b2)
      BY <1>11, <1>14, <2>4
    <3>. HIDE DEF p
    <3>3. p = Play("operator", e, v)
      BY DEF p
    <3>4. IsPlay(n) /\ Clean(n) /\ n.m.at = "over"
      BY <1>3, <2>1, <3>1, <3>3, EndingFollows
    <3>. HIDE DEF n, f, b2
    <3>. QED  BY <1>4, <3>2, <3>4 DEF Acted
  <2>5. CASE c.at = "sealing"
    <3>1. f = e /\ Clean(p) /\ p.m.at = "over"
      BY <1>6, <2>1, <2>5 DEF Acted
    <3>2. d.at \in {"closed", "abandoned"}
      BY <1>14, <2>5
    <3>. QED  BY <1>4, <2>1, <3>1, <3>2 DEF Acted
  <2>. QED  BY <1>2, <2>2, <2>3, <2>4, <2>5 DEF OperatorAt
<1>. QED  BY <1>3, <1>7, <1>12, <1>15, RunFollowed DEF d, b

\* What a verdict over the run's own tape says, and when it cannot but be PASSED.
LEMMA FollowsTells ==
  ASSUME NEW o \in Origins, NEW c, IsMachine(c.m), NEW b, NEW e, NEW v, NEW same,
         Follows(o, c, b, e, v, same)
  PROVE  LET verdict == Replayed(o, e, Facts(o), v) IN
         /\ verdict = "PASSED" => c.ended = "answered" /\ o # "retry"
         /\ same /\ c.ended = "answered" /\ o \notin {"retry", "availability"} /\ ~LeftOut(c.m)
              /\ (o = "operator" => WasSealed(b)) => verdict = "PASSED"
<1>. DEFINE p == Play(o, e, v)  verdict == Replayed(o, e, Facts(o), v)
<1>1. verdict = "PASSED" <=> Clean(p) /\ p.m.at = "over"
  <2>1. /\ IsPlay(p)
        /\ verdict = IF p.stopped # "none" THEN p.stopped
                     ELSE IF p.m.at # "over" THEN "INCOMPLETE"
                     ELSE IF p.mismatch THEN "DIVERGED" ELSE "PASSED"
    BY DEF Follows, Replayed, Play
  <2>. HIDE DEF p, verdict
  <2>. QED  BY <2>1 DEF Clean, IsPlay
<1>3. Primed(o, Facts(o)).at # "over"
  BY Starts
<1>2. e = <<>> => p.m.at # "over"
  <2>1. p.m = Primed(o, Facts(o)) \/ e # <<>>
    BY PlayStarts DEF Unplayed
  <2>. QED  BY <1>3, <2>1
<1>6. Bare(c.m).at = c.m.at
  BY BareTells
<1>. HIDE DEF p, verdict
<1>4. CASE o = "operator"
  <2>1. Acted(o, c, b, e, p)
    BY <1>4 DEF Follows, p
  <2>. QED  BY <1>1, <1>2, <1>4, <2>1 DEF Acted, verdict
<1>5. CASE o # "operator"
  <2>1. CASE InStep(o, c, e, p)
    BY <1>1, <1>6, <2>1 DEF InStep, verdict
  <2>2. CASE Early(o, c, e, p)
    BY <1>1, <1>3, <2>2 DEF Early, verdict
  <2>3. CASE Failing(c, e, p)
    BY <1>1, <2>3 DEF Failing, verdict
  <2>4. CASE Forgotten(c, e, p) /\ ~same
    BY <1>1, <2>4 DEF Forgotten, verdict
  <2>5. CASE Gone(o, c, e, p, same)
    BY <1>1, <2>5 DEF Gone, Strayed, verdict
  <2>6. CASE Parted(c, e, p)
    BY <1>1, <2>6 DEF Parted, verdict
  <2>. QED  BY <1>5, <2>1, <2>2, <2>3, <2>4, <2>5, <2>6 DEF Follows, p
<1>. QED  BY <1>4, <1>5 DEF verdict

\* The verdict of a verification under way says what it should of the run.
LEMMA JudgedJustified ==
  ASSUME FInv, NEW w \in Requests, request[w].at = "execute", NEW slow \in BOOLEAN
  PROVE  LET q == request[w]  verdict == Judged(q, bundle[q.run]) IN
         Justified(q.run, IF slow THEN "FAILED_SAFE" ELSE verdict, slow, version)
<1>. DEFINE q == request[w]  r == q.run  b == bundle[r]  o == origin[r]  e == emitted[r]
            verdict == Judged(q, b)  c == run[r]
<1>1. /\ IsAsked(q) /\ r \in Runs /\ WasSealed(b) /\ version \in Versions
      /\ q.seen.start = b.start /\ q.seen.sealed = b.sealed
      /\ version = 1 => q.seen.schema = 1
  BY DEF FInv, RInv, Asked, Judging
<1>2. Row(o, c, b, e, r \in tampered) /\ Follows(o, c, b, e, version, version = 1 /\ version = 1)
  BY <1>1 DEF FInv, RInv, Captured, Followed
<1>3. /\ o \in Origins /\ IsMachine(c.m) /\ b.start = Facts(o)
      /\ b.sealed = [start |-> Facts(o), steps |-> e, expected |-> Last(e).facts]
      /\ r \notin tampered => b.sealed = Sealed(b)
  BY <1>1, <1>2 DEF Row, Typed, SealFits, WasSealed
<1>4. verdict = IF q.seen.schema # Schema(version) THEN "UNSUPPORTED_SCHEMA"
                ELSE IF ~Intact(q.seen, b) THEN "FAILED_SAFE"
                ELSE Replayed(o, b.steps, q.seen.start, version)
  BY DEF Judged
<1>. DEFINE same == version = 1 /\ version = 1  replayed == Replayed(o, e, Facts(o), version)
<1>. HIDE DEF verdict, q, r, b, o, e, c, same, replayed
<1>5. Intact(q.seen, b) => b.steps = e
  BY <1>1, <1>3 DEF Intact, Sealed
<1>6. r \notin tampered => Intact(q.seen, b)
  BY <1>1, <1>3, FactsStored DEF Intact
<1>7. Intact(q.seen, b) => Replayed(o, b.steps, q.seen.start, version) = replayed
  BY <1>1, <1>3, <1>5 DEF replayed
<1>8. /\ replayed = "PASSED" => c.ended = "answered" /\ o # "retry"
      /\ same /\ c.ended = "answered" /\ o \notin {"retry", "availability"} /\ ~LeftOut(c.m) =>
           replayed = "PASSED"
  BY <1>1, <1>2, <1>3, FollowsTells DEF same, replayed
<1>9. CASE slow
  BY <1>9 DEF Justified
<1>10. CASE ~slow /\ verdict = "PASSED"
  <2>1. Intact(q.seen, b)
    BY <1>10, PassedIsIntact DEF verdict
  <2>2. replayed = "PASSED"
    BY <1>4, <1>7, <1>10, <2>1
  <2>. QED  BY <1>8, <1>10, <2>2 DEF Justified, verdict, q, r, b, o, c
<1>11. CASE ~slow /\ verdict # "PASSED"
  <2>1. SUFFICES ASSUME r \notin tampered, ~(version > 1), c.ended = "answered",
                        o \notin {"retry", "availability"}, ~LeftOut(c.m)
                 PROVE  FALSE
    BY <1>11 DEF Justified, verdict, q, r, b, o, c
  <2>2. version = 1
    BY <1>1, <2>1 DEF Versions
  <2>3. q.seen.schema = Schema(version) /\ Intact(q.seen, b) /\ same
    BY <1>1, <1>6, <2>1, <2>2 DEF Schema, same
  <2>4. verdict = replayed
    BY <1>4, <1>7, <2>3
  <2>. QED  BY <1>8, <1>11, <2>1, <2>3, <2>4
<1>. QED  BY <1>9, <1>10, <1>11 DEF verdict, q, r, b

\* What happens to the rows of a sealed bundle changes nothing of the run.
LEMMA RowsFollowed ==
  ASSUME FInv, UNCHANGED <<origin, run, emitted, version>>, NEW r \in Runs,
         WasSealed(bundle'[r]) => WasSealed(bundle[r]),
         bundle'[r] # None => bundle[r] # None /\ bundle'[r].schema = bundle[r].schema
  PROVE  Followed(r)' /\ OfSchema(r)'
<1>. DEFINE o == origin[r]  c == run[r]  e == emitted[r]  b == bundle[r]  b2 == bundle'[r]
<1>1. OfSchema(r)'
  BY DEF FInv, OfSchema
<1>2. ASSUME NEW v \in Versions
      PROVE  Follows(o, c, b2, e, v, version = 1 /\ v = 1)
  <2>. DEFINE same == version = 1 /\ v = 1
  <2>1. Follows(o, c, b, e, v, same)
    BY DEF FInv, Followed
  <2>2. WasSealed(b2) => WasSealed(b)
    OBVIOUS
  <2>. HIDE DEF o, c, e, b, b2, same
  <2>3. o = "operator" => Acted(o, c, b2, e, Play(o, e, v))
    BY <2>1, <2>2 DEF Follows, Acted
  <2>4. Follows(o, c, b2, e, v, same)
    BY <2>1, <2>3, MovedFollows
  <2>. QED  BY <2>4 DEF same
<1>3. Followed(r)'
  BY <1>2 DEF Followed
<1>. QED  BY <1>1, <1>3

LEMMA DamageFollowed ==
  ASSUME FInv, NEW r \in Runs, Damage(r)
  PROVE  FInv'
<1>. DEFINE b == bundle[r]
<1>1. /\ RInv /\ RInv' /\ b # None /\ b.status = "READY" /\ WasSealed(b)
      /\ tampered' = tampered \cup {r}
      /\ UNCHANGED <<origin, run, emitted, execution, request, version>>
  BY DamageKeeps DEF FInv, Damage, WasSealed
<1>2. IsBundle(b)
  BY <1>1 DEF RInv, Captured, Row, Typed
<1>3. \E tape : bundle' = [bundle EXCEPT ![r].steps = tape]
  <2>1. CASE bundle' = [bundle EXCEPT ![r].steps = Front(@)]
    <3>1. bundle' = [bundle EXCEPT ![r].steps = Front(b.steps)]
      BY <2>1
    <3>. QED  BY <3>1
  <2>2. CASE \E i \in DOMAIN b.steps : bundle' = [bundle EXCEPT ![r].steps[i].answer = "altered"]
    <3>1. PICK i \in DOMAIN b.steps : bundle' = [bundle EXCEPT ![r].steps[i].answer = "altered"]
      BY <2>2
    <3>2. bundle' = [bundle EXCEPT ![r].steps = [b.steps EXCEPT ![i].answer = "altered"]]
      BY <3>1
    <3>. QED  BY <3>2
  <2>. QED  BY <2>1, <2>2 DEF Damage
<1>4. PICK tape : bundle' = [bundle EXCEPT ![r].steps = tape]
  BY <1>3
<1>5. bundle'[r] = [b EXCEPT !.steps = tape] /\ \A u \in Runs \ {r} : bundle'[u] = bundle[u]
  BY <1>1, <1>4 DEF RInv, Tables
<1>6. bundle'[r].schema = b.schema
  <2>. HIDE DEF b
  <2>. QED  BY <1>2, <1>5 DEF IsBundle
<1>7. ASSUME NEW u \in Runs
      PROVE  Followed(u)' /\ OfSchema(u)'
  <2>1. WasSealed(bundle'[u]) => WasSealed(bundle[u])
    BY <1>1, <1>5
  <2>2. bundle'[u] # None => bundle[u] # None /\ bundle'[u].schema = bundle[u].schema
    BY <1>1, <1>5, <1>6
  <2>. QED  BY <1>1, <2>1, <2>2, RowsFollowed
<1>8. \A w \in Requests : Judging(w)'
  BY <1>1 DEF FInv, Judging, Justified
<1>9. \A k \in Keys : Verdict(k)'
  BY <1>1 DEF FInv, Verdict, Justified
<1>10. version' \in Versions
  BY <1>1 DEF FInv
<1>. QED  BY <1>1, <1>7, <1>8, <1>9, <1>10 DEF FInv

\* A step of verification w keeps what is said of runs and of the other verifications.
LEMMA AsksFollowed ==
  ASSUME FInv, RInv', NEW w \in Requests,
         UNCHANGED <<origin, run, emitted, tampered, version>>,
         \A v \in Requests \ {w} : request'[v] = request[v],
         \A r \in Runs : /\ WasSealed(bundle'[r]) => WasSealed(bundle[r])
                         /\ bundle'[r] # None => bundle[r] # None /\ bundle'[r].schema = bundle[r].schema,
         Judging(w)', \A k \in Keys : Verdict(k)'
  PROVE  FInv'
<1>1. \A r \in Runs : Followed(r)' /\ OfSchema(r)'
  BY RowsFollowed
<1>2. \A v \in Requests : Judging(v)'
  BY DEF FInv, Judging, Justified
<1>3. version' \in Versions
  BY DEF FInv
<1>. QED  BY <1>1, <1>2, <1>3 DEF FInv

LEMMA AskFollowed ==
  ASSUME FInv, NEW w \in Requests, Ask(w)
  PROVE  FInv'
<1>1. RInv /\ RInv' /\ UNCHANGED <<origin, run, emitted, bundle, tampered, execution, version>>
  BY AskKeeps DEF FInv, Ask
<1>2. PICK r \in Runs, k \in Keys :
        /\ bundle[r] # None
        /\ request' = [request EXCEPT ![w] = [at |-> "create", run |-> r, key |-> k, seen |-> bundle[r]]]
  BY DEF Ask
<1>3. /\ request'[w] = [at |-> "create", run |-> r, key |-> k, seen |-> bundle[r]]
      /\ \A v \in Requests \ {w} : request'[v] = request[v]
  BY <1>1, <1>2 DEF RInv, Tables
<1>4. Judging(w)'
  BY <1>1, <1>2, <1>3 DEF FInv, OfSchema, Judging
<1>5. \A k2 \in Keys : Verdict(k2)'
  BY <1>1 DEF FInv, Verdict, Justified
<1>. QED  BY <1>1, <1>3, <1>4, <1>5, AsksFollowed

LEMMA CreateExecutionFollowed ==
  ASSUME FInv, NEW w \in Requests, CreateExecution(w)
  PROVE  FInv'
<1>. DEFINE q == request[w]
            row == [run |-> q.run, status |-> "RUNNING", judged |-> None, finals |-> 0]
<1>1. /\ RInv /\ RInv' /\ q.at = "create"
      /\ UNCHANGED <<origin, run, emitted, bundle, tampered, version>>
  BY CreateExecutionKeeps DEF FInv, CreateExecution
<1>2. PICK outcome \in Outcomes :
        /\ execution' = IF execution[q.key] = None /\ outcome # "failed"
                        THEN [execution EXCEPT ![q.key] = row] ELSE execution
        /\ request' = [request EXCEPT ![w] = IF Created(q, outcome)
                                             THEN [q EXCEPT !.at = "execute"] ELSE Idle]
  BY DEF CreateExecution
<1>3. /\ request'[w] = IF Created(q, outcome) THEN [q EXCEPT !.at = "execute"] ELSE Idle
      /\ \A v \in Requests \ {w} : request'[v] = request[v]
  BY <1>1, <1>2 DEF RInv, Tables
<1>4. IsAsked(q) /\ q.key \in Keys /\ (version = 1 => q.seen.schema = 1)
  BY <1>1 DEF FInv, RInv, Asked, Judging
<1>. HIDE DEF q
<1>5. Judging(w)'
  <2>1. CASE Created(q, outcome)
    <3>1. request'[w].at = "execute" /\ request'[w].seen = q.seen
      BY <1>3, <1>4, <2>1 DEF IsAsked
    <3>. QED  BY <1>1, <1>4, <3>1 DEF Judging
  <2>2. CASE ~Created(q, outcome)
    <3>1. request'[w].at = "idle"
      BY <1>3, <2>2 DEF Idle
    <3>. QED  BY <3>1 DEF Judging
  <2>. QED  BY <2>1, <2>2
<1>6. ASSUME NEW k \in Keys
      PROVE  Verdict(k)'
  <2>1. row.status = "RUNNING"
    OBVIOUS
  <2>2. Verdict(k)
    BY DEF FInv
  <2>. HIDE DEF row
  <2>3. execution'[k] \in {row, execution[k]}
    BY <1>1, <1>2, <1>4 DEF RInv, Tables
  <2>. QED  BY <1>1, <2>1, <2>2, <2>3 DEF Verdict, Justified
<1>. QED  BY <1>1, <1>3, <1>5, <1>6, AsksFollowed

LEMMA ExecuteFollowed ==
  ASSUME FInv, NEW w \in Requests, Execute(w)
  PROVE  FInv'
<1>. DEFINE q == request[w]  r == q.run  b == bundle[r]  verdict == Judged(q, b)
<1>1. /\ RInv /\ RInv' /\ q.at = "execute"
      /\ UNCHANGED <<origin, run, emitted, tampered, execution, version>>
  BY ExecuteKeeps DEF FInv, Execute
<1>2. r \in Runs /\ WasSealed(b) /\ IsBundle(b)
  BY <1>1 DEF RInv, Asked, Captured, Row, Typed, WasSealed
<1>3. PICK slow \in BOOLEAN :
        /\ bundle' \in IF verdict = "UNSUPPORTED_SCHEMA" \/ Intact(q.seen, b) THEN {bundle}
                       ELSE {[bundle EXCEPT ![q.run].status = "INVALID"]}
                            \cup (IF slow THEN {bundle} ELSE {})
        /\ request' = [request EXCEPT ![w] = [at |-> "complete", run |-> q.run, key |-> q.key,
                          verdict |-> IF slow THEN "FAILED_SAFE" ELSE verdict,
                          slow |-> slow, version |-> version, tape |-> b.steps]]
  BY DEF Execute
<1>4. bundle' \in {bundle, [bundle EXCEPT ![r].status = "INVALID"]}
  BY <1>3
<1>5. /\ \A v \in Requests \ {w} : request'[v] = request[v]
      /\ request'[w] = [at |-> "complete", run |-> r, key |-> q.key,
                        verdict |-> IF slow THEN "FAILED_SAFE" ELSE verdict,
                        slow |-> slow, version |-> version, tape |-> b.steps]
  BY <1>1, <1>3 DEF RInv, Tables
<1>6. ASSUME NEW u \in Runs
      PROVE  /\ WasSealed(bundle'[u]) => WasSealed(bundle[u])
             /\ bundle'[u] # None => bundle[u] # None /\ bundle'[u].schema = bundle[u].schema
  <2>1. CASE bundle'[u] = bundle[u]
    BY <2>1
  <2>2. CASE bundle'[u] # bundle[u]
    <3>1. u = r /\ bundle'[r] = [b EXCEPT !.status = "INVALID"]
      BY <1>1, <1>2, <1>4, <2>2 DEF RInv, Tables
    <3>2. bundle'[r].schema = b.schema
      <4>. HIDE DEF b
      <4>. QED  BY <1>2, <3>1 DEF IsBundle
    <3>. QED  BY <1>2, <3>1, <3>2 DEF WasSealed
  <2>. QED  BY <2>1, <2>2
<1>7. Justified(r, IF slow THEN "FAILED_SAFE" ELSE verdict, slow, version)
  BY <1>1, JudgedJustified
<1>8. Judging(w)'
  <2>1. PICK u, given : u = r /\ given = IF slow THEN "FAILED_SAFE" ELSE verdict
    OBVIOUS
  <2>2. Justified(u, given, slow, version)
    BY <1>7, <2>1
  <2>3. Justified(u, given, slow, version)'
    BY <1>1, <2>2 DEF Justified
  <2>4. /\ request'[w].at = "complete" /\ request'[w].run = u /\ request'[w].verdict = given
        /\ request'[w].slow = slow /\ request'[w].version = version
    <3>. HIDE DEF verdict, r
    <3>. QED  BY <1>5, <2>1
  <2>. QED  BY <1>1, <2>3, <2>4 DEF Judging
<1>9. \A k \in Keys : Verdict(k)'
  BY <1>1 DEF FInv, Verdict, Justified
<1>. QED  BY <1>1, <1>5, <1>6, <1>8, <1>9, AsksFollowed

LEMMA ExecuteRaisesFollowed ==
  ASSUME FInv, NEW w \in Requests, ExecuteRaises(w)
  PROVE  FInv'
<1>1. /\ RInv /\ RInv' /\ request' = [request EXCEPT ![w] = Idle]
      /\ UNCHANGED <<origin, run, emitted, bundle, tampered, execution, version>>
  BY ExecuteRaisesKeeps DEF FInv, ExecuteRaises
<1>2. request'[w] = Idle /\ \A v \in Requests \ {w} : request'[v] = request[v]
  BY <1>1 DEF RInv, Tables
<1>3. Judging(w)'
  BY <1>2 DEF Judging, Idle
<1>4. \A k \in Keys : Verdict(k)'
  BY <1>1 DEF FInv, Verdict, Justified
<1>. QED  BY <1>1, <1>2, <1>3, <1>4, AsksFollowed

LEMMA CompleteExecutionFollowed ==
  ASSUME FInv, NEW w \in Requests, CompleteExecution(w)
  PROVE  FInv'
<1>. DEFINE q == request[w]  x == execution[q.key]
            judged == [tape |-> q.tape, slow |-> q.slow, version |-> q.version]
            n == x.finals + 1
<1>1. /\ RInv /\ RInv' /\ q.at = "complete" /\ request' = [request EXCEPT ![w] = Idle]
      /\ UNCHANGED <<origin, run, emitted, bundle, tampered, version>>
  BY CompleteExecutionKeeps DEF FInv, CompleteExecution
<1>2. /\ q.key \in Keys /\ x # None /\ x.run = q.run /\ IsExecution(x)
      /\ Justified(q.run, q.verdict, q.slow, q.version)
  BY <1>1 DEF FInv, RInv, Asked, Holds, Answered, Judging
<1>3. PICK outcome \in Outcomes :
        execution' = IF outcome # "failed" /\ execution[q.key].status = "RUNNING"
                     THEN [execution EXCEPT ![q.key].status = q.verdict, ![q.key].finals = @ + 1,
                             ![q.key].judged = judged]
                     ELSE execution
  BY DEF CompleteExecution
<1>. DEFINE y == [x EXCEPT !.status = q.verdict, !.finals = n, !.judged = judged]
<1>4. execution' = execution \/ execution' = [execution EXCEPT ![q.key] = y]
  BY <1>1, <1>2, <1>3 DEF RInv, Tables
<1>5. request'[w] = Idle /\ \A v \in Requests \ {w} : request'[v] = request[v]
  BY <1>1 DEF RInv, Tables
<1>. HIDE DEF y
<1>6. \A k \in Keys : execution'[k] = execution[k] \/ (k = q.key /\ execution'[k] = y)
  BY <1>1, <1>2, <1>4 DEF RInv, Tables
<1>7. /\ y.run = q.run /\ y.status = q.verdict
      /\ y.judged.slow = q.slow /\ y.judged.version = q.version
  <2>1. y = [x EXCEPT !.status = q.verdict, !.finals = n, !.judged = judged]
    BY DEF y
  <2>2. x = [run |-> x.run, status |-> x.status, judged |-> x.judged, finals |-> x.finals]
    BY <1>2 DEF IsExecution
  <2>3. judged.slow = q.slow /\ judged.version = q.version
    OBVIOUS
  <2>. HIDE DEF n, judged, q, x
  <2>4. y = [run |-> x.run, status |-> q.verdict, judged |-> judged, finals |-> n]
    BY <2>1, <2>2
  <2>. QED  BY <1>2, <2>3, <2>4
<1>. HIDE DEF q, x
<1>8. ASSUME NEW k \in Keys
      PROVE  Verdict(k)'
  <2>1. CASE execution'[k] = execution[k]
    BY <1>1, <2>1 DEF FInv, Verdict, Justified
  <2>2. CASE execution'[k] = y
    BY <1>1, <1>2, <1>7, <2>2 DEF Verdict, Justified
  <2>. QED  BY <1>6, <2>1, <2>2
<1>9. Judging(w)'
  BY <1>5 DEF Judging, Idle
<1>. QED  BY <1>1, <1>5, <1>8, <1>9, AsksFollowed

LEMMA CrashFollowed ==
  ASSUME FInv, Crash
  PROVE  FInv'
<1>1. /\ RInv /\ RInv' /\ UNCHANGED <<origin, emitted, bundle, tampered, execution, version>>
      /\ run' = [r \in Runs |-> IF run[r].at \in Over THEN run[r] ELSE [run[r] EXCEPT !.at = "crashed"]]
      /\ request' = [w \in Requests |-> Idle]
  BY CrashKeeps DEF FInv, Crash
<1>2. ASSUME NEW r \in Runs
      PROVE  /\ run'[r].m = run[r].m /\ run'[r].ended = run[r].ended
             /\ run'[r].entered = run[r].entered /\ run'[r].at \in {run[r].at, "crashed"}
  <2>. DEFINE c == run[r]  d == run'[r]
  <2>1. IsRun(c)
    BY <1>1 DEF RInv, Captured, Row, Typed
  <2>2. d = c \/ d = [c EXCEPT !.at = "crashed"]
    BY <1>1
  <2>. HIDE DEF c, d
  <2>3. d.m = c.m /\ d.ended = c.ended /\ d.entered = c.entered /\ d.at \in {c.at, "crashed"}
    BY <2>1, <2>2 DEF IsRun
  <2>. QED  BY <2>3 DEF c, d
<1>3. ASSUME NEW r \in Runs
      PROVE  Followed(r)' /\ OfSchema(r)'
  <2>. DEFINE o == origin[r]  c == run[r]  d == run'[r]  e == emitted[r]  b == bundle[r]
  <2>1. ASSUME NEW v \in Versions
        PROVE  Follows(o, d, b, e, v, version = 1 /\ v = 1)
    <3>. DEFINE same == version = 1 /\ v = 1
    <3>1. Follows(o, c, b, e, v, same)
      BY DEF FInv, Followed
    <3>2. d.m = c.m /\ d.ended = c.ended /\ d.entered = c.entered /\ d.at \in {c.at, "crashed"}
      BY <1>2
    <3>. HIDE DEF o, c, d, e, b, same
    <3>3. o = "operator" => Acted(o, d, b, e, Play(o, e, v))
      BY <3>1, <3>2 DEF Follows, Acted
    <3>4. Follows(o, d, b, e, v, same)
      BY <3>1, <3>2, <3>3, MovedFollows
    <3>. QED  BY <3>4 DEF same
  <2>2. Followed(r)'
    BY <1>1, <2>1 DEF Followed
  <2>3. OfSchema(r)'
    BY <1>1 DEF FInv, OfSchema
  <2>. QED  BY <2>2, <2>3
<1>4. \A w \in Requests : Judging(w)'
  BY <1>1 DEF Judging, Idle
<1>5. ASSUME NEW k \in Keys
      PROVE  Verdict(k)'
  <2>1. Verdict(k) /\ Answered(k) /\ execution'[k] = execution[k]
    BY <1>1 DEF FInv, RInv
  <2>2. execution[k] # None => /\ run'[execution[k].run].ended = run[execution[k].run].ended
                               /\ run'[execution[k].run].m = run[execution[k].run].m
    BY <1>2, <2>1 DEF Answered
  <2>. QED  BY <1>1, <2>1, <2>2 DEF Verdict, Justified
<1>. QED  BY <1>1, <1>3, <1>4, <1>5 DEF FInv

\* A release frees the replay of being the run's own graph.
LEMMA ReleaseFollowed ==
  ASSUME FInv, Release
  PROVE  FInv'
<1>1. /\ version = 1 /\ version' \in {2, 3} /\ \A w \in Requests : request[w].at = "idle"
      /\ UNCHANGED <<origin, run, emitted, bundle, tampered, execution, request>>
  BY DEF Release
<1>2. RInv'
  BY <1>1, StutterKeeps DEF FInv
<1>3. ASSUME NEW r \in Runs
      PROVE  Followed(r)' /\ OfSchema(r)'
  <2>. DEFINE o == origin[r]  c == run[r]  e == emitted[r]  b == bundle[r]
  <2>1. ASSUME NEW v \in Versions
        PROVE  Follows(o, c, b, e, v, version' = 1 /\ v = 1)
    <3>. DEFINE same == version = 1 /\ v = 1  same2 == version' = 1 /\ v = 1
    <3>1. Follows(o, c, b, e, v, same) /\ (same2 => same)
      BY <1>1 DEF FInv, Followed
    <3>. HIDE DEF o, c, e, b, same, same2
    <3>2. o = "operator" => Acted(o, c, b, e, Play(o, e, v))
      BY <3>1 DEF Follows
    <3>3. Follows(o, c, b, e, v, same2)
      BY <3>1, <3>2, MovedFollows
    <3>. QED  BY <3>3 DEF same2
  <2>2. Followed(r)'
    BY <1>1, <2>1 DEF Followed
  <2>. QED  BY <1>1, <2>2 DEF OfSchema
<1>4. \A w \in Requests : Judging(w)'
  BY <1>1 DEF Judging
<1>5. \A k \in Keys : Verdict(k)'
  BY <1>1 DEF FInv, Verdict, Justified
<1>6. version' \in Versions
  BY <1>1 DEF Versions
<1>. QED  BY <1>2, <1>3, <1>4, <1>5, <1>6 DEF FInv

\* At first nothing is on a tape: the replay stands where the run begins.
LEMMA InitFInv == Init => FInv
<1>. SUFFICES ASSUME Init
              PROVE  FInv
  OBVIOUS
<1>1. RInv /\ version = 1
  BY InitRInv DEF Init
<1>2. ASSUME NEW r \in Runs
      PROVE  Followed(r) /\ OfSchema(r)
  <2>. DEFINE o == origin[r]  c == run[r]  e == emitted[r]  b == bundle[r]
  <2>0. PICK unkept \in [Runs -> {"nothing", "clock", "overdue"}] :
          /\ \A u \in Runs : unkept[u] \in Unkept(origin[u])
          /\ run = [u \in Runs |-> [at |-> "begin", m |-> Begun(origin[u], unkept[u]),
                                    known |-> FALSE, error |-> FALSE, entered |-> FALSE,
                                    ended |-> "no"]]
    BY DEF Init
  <2>. DEFINE k == unkept[r]
  <2>1. /\ c = [at |-> "begin", m |-> Begun(o, k), known |-> FALSE,
                error |-> FALSE, entered |-> FALSE, ended |-> "no"]
        /\ k \in Unkept(o)
        /\ e = <<>> /\ b = None /\ o \in Origins
    BY <2>0 DEF Init
  <2>. HIDE DEF k
  <2>2. c.at = "begin" /\ c.m = Begun(o, k) /\ ~c.entered /\ c.ended = "no"
    BY <2>1
  <2>3. ASSUME NEW v \in Versions, NEW same
        PROVE  Follows(o, c, b, e, v, same)
    <3>. DEFINE p == Play(o, e, v)
    <3>1. p = Unplayed(Primed(o, Facts(o)))
      BY <2>1, PlayStarts
    <3>2. IsPlay(p) /\ Clean(p) /\ p.m = Primed(o, Facts(o))
      BY <3>1 DEF IsPlay, Clean, Unplayed
    <3>. HIDE DEF p, o, c, e, b
    <3>3. CASE o = "operator"
      <4>1. c.m = Fresh(o)
        BY <2>1, <2>2, <3>3, OperatorBegins
      <4>2. Acted(o, c, b, e, p)
        BY <2>1, <2>2, <3>3, <4>1 DEF Acted, WasSealed
      <4>. QED  BY <3>2, <3>3, <4>2 DEF Follows, p
    <3>4. CASE o = "new"
      <4>. DEFINE m == Begun(o, k)
      <4>3. /\ Primed(o, Facts(o)) = Bare(m) /\ Placed(m) /\ m.at = "enter"
            /\ m.facts = Facts(o) /\ IsFacts(Facts(o)) /\ m.node # "operator"
        BY <3>4, NewBegins
      <4>. HIDE DEF m
      <4>1. /\ p.m = Bare(c.m) /\ Placed(c.m) /\ c.m.at = "enter" /\ c.m.node # "operator"
            /\ IsFacts(c.m.facts)
        BY <2>2, <3>2, <4>3 DEF m
      <4>2. InStep(o, c, e, p)
        BY <2>2, <3>2, <3>4, <4>1 DEF InStep, GraphAt
      <4>. QED  BY <3>2, <3>4, <4>2 DEF Follows, p
    <3>5. CASE o \notin {"operator", "new"}
      <4>2. Unmoved(o, c.m)
        <5>1. Unmoved(o, Begun(o, k))
          BY BegunUnmoved
        <5>. QED  BY <2>2, <5>1
      <4>1. Early(o, c, e, p)
        BY <2>1, <2>2, <3>2, <3>5, <4>2 DEF Early
      <4>. QED  BY <3>2, <3>5, <4>1 DEF Follows, p
    <3>. QED  BY <3>3, <3>4, <3>5
  <2>4. Followed(r)
    BY <2>3 DEF Followed
  <2>5. OfSchema(r)
    BY <2>1 DEF OfSchema
  <2>. QED  BY <2>4, <2>5
<1>3. \A w \in Requests : Judging(w)
  BY DEF Init, Judging
<1>4. \A k \in Keys : Verdict(k)
  BY DEF Init, Verdict
<1>. QED  BY <1>1, <1>2, <1>3, <1>4 DEF FInv, Versions

LEMMA StepFInv == FInv /\ [Next]_vars => FInv'
<1>1. ASSUME FInv, NEW r \in Runs,
             Begin(r) \/ Preflight(r) \/ EnterNode(r) \/ Emit(r) \/ CallRaises(r)
               \/ Close(r) \/ OperatorStep(r) \/ Damage(r)
      PROVE  FInv'
  BY <1>1, BeginFollowed, PreflightFollowed, EnterNodeFollowed, EmitFollowed,
     CallRaisesFollowed, CloseFollowed, OperatorStepFollowed, DamageFollowed
<1>2. ASSUME FInv, NEW w \in Requests,
             Ask(w) \/ CreateExecution(w) \/ Execute(w) \/ ExecuteRaises(w)
               \/ CompleteExecution(w)
      PROVE  FInv'
  BY <1>2, AskFollowed, CreateExecutionFollowed, ExecuteFollowed, ExecuteRaisesFollowed,
     CompleteExecutionFollowed
<1>3. ASSUME FInv, UNCHANGED vars
      PROVE  FInv'
  <2>1. RInv' /\ UNCHANGED <<origin, run, emitted, bundle, tampered, execution, request, version>>
    BY <1>3, StutterKeeps DEF FInv, vars
  <2>2. \A r \in Runs : Followed(r)' /\ OfSchema(r)'
    BY <1>3, <2>1, RowsFollowed
  <2>3. (\A w \in Requests : Judging(w)') /\ (\A k \in Keys : Verdict(k)') /\ version' \in Versions
    BY <1>3, <2>1 DEF FInv, Judging, Verdict, Justified
  <2>. QED  BY <2>1, <2>2, <2>3 DEF FInv
<1>. QED  BY <1>1, <1>2, <1>3, CrashFollowed, ReleaseFollowed DEF Next

-----------------------------------------------------------------------------
(***************************************************************************)
(* The theorems.                                                           *)
(***************************************************************************)
\* The tape is the run while it is captured, and under its seal ever after.
THEOREM Inductive == Spec => []RInv
  BY InitRInv, StepRInv, PTL DEF Spec

\* A READY bundle holds the whole run, however the writes of its capture fared.
THEOREM WholeWhenReadyHolds == Spec => []WholeWhenReady
<1>1. RInv => WholeWhenReady
  <2>. SUFFICES ASSUME RInv, NEW r \in Runs, bundle[r] # None, bundle[r].status = "READY",
                       r \notin tampered
                PROVE  /\ bundle[r].steps = emitted[r]
                       /\ bundle[r].start = Facts(origin[r])
                       /\ Last(emitted[r]).kind = "FINAL_STATE"
                       /\ bundle[r].expected = Last(emitted[r]).facts
                       /\ bundle[r].sealed = Sealed(bundle[r])
    BY DEF WholeWhenReady
  <2>1. SealFits(origin[r], run[r], bundle[r], emitted[r], r \in tampered)
    BY DEF RInv, Captured, Row
  <2>2. /\ bundle[r].sealed = [start |-> Facts(origin[r]), steps |-> emitted[r],
                               expected |-> Last(emitted[r]).facts]
        /\ bundle[r].sealed = Sealed(bundle[r])
        /\ bundle[r].start = Facts(origin[r]) /\ Last(emitted[r]).kind = "FINAL_STATE"
    BY <2>1 DEF SealFits, WasSealed
  <2>. QED  BY <2>2 DEF Sealed
<1>. QED  BY <1>1, Inductive, PTL

\* Racing or repeated deliveries under one key execute at most once.
THEOREM SoleExecutorHolds == Spec => []SoleExecutor
<1>1. RInv => SoleExecutor
  BY DEF RInv, Holds, SoleExecutor
<1>. QED  BY <1>1, Inductive, PTL

\* PASSED is the verdict on the run's own tape, whole and in time, whatever was done to the
\* stored rows between the seal and the verification.
THEOREM PassedOnOwnTapeHolds == Spec => []PassedOnOwnTape
<1>1. RInv => PassedOnOwnTape
  BY DEF RInv, Answered, PassedOnOwnTape
<1>. QED  BY <1>1, Inductive, PTL

\* No bundle is invalidated that nothing happened to.
THEOREM InvalidOnlyIfDamagedHolds == Spec => []InvalidOnlyIfDamaged
<1>1. RInv => InvalidOnlyIfDamaged
  BY DEF RInv, Captured, Row, SealFits, WasSealed, InvalidOnlyIfDamaged
<1>. QED  BY <1>1, Inductive, PTL

\* The replay of what a run emitted is in step with the run, until a call raises, the run turns
\* out a retry or a resumed question for a time, its control decides by what the bundle does not
\* keep, or another version of the graph remembers something else.
THEOREM FollowedInductive == Spec => []FInv
  BY InitFInv, StepFInv, PTL DEF Spec

\* PASSED is only ever the verdict on a run that came to an answer, over its own tape: never on
\* one that failed, was refreshed or retried half-way, or ran out of time.
THEOREM PassedIsFaithfulHolds == Spec => []PassedIsFaithful
<1>1. FInv => PassedIsFaithful
  BY DEF FInv, RInv, Answered, Verdict, Justified, PassedIsFaithful, PassedOnOwnTape
<1>. QED  BY <1>1, FollowedInductive, PTL

\* An answered run is refused PASSED only because its bundle was damaged, the graph was released
\* anew, the time ran out, or its control decided by what the bundle leaves out (a clock in the
\* redacted message, an escalation settled since); a retry, whose tape begins half-way, and a
\* resumed question for a time, which is primed one question too far, excepted.
THEOREM RefusedForCauseHolds == Spec => []RefusedForCause
<1>1. FInv => InvalidOnlyIfDamaged
  BY DEF FInv, RInv, Captured, Row, SealFits, WasSealed, InvalidOnlyIfDamaged
<1>2. FInv => RefusedForCause
  BY <1>1 DEF FInv, Verdict, Justified, RefusedForCause
<1>. QED  BY <1>2, FollowedInductive, PTL
=============================================================================
