------------------------ MODULE OutboxDispatchProofs ------------------------
(***************************************************************************)
(* Safety theorems of OutboxDispatch for any set of events and processes,  *)
(* any batch size and any assignment of worker ids.                        *)
(*                                                                         *)
(* The argument: every claim token is drawn once (TokensKnown), so a row's *)
(* current token lies in the batch of one process at most; an              *)
(* acknowledgement that compares the token is therefore the holder's own,  *)
(* however many processes share a worker id and whichever lease ran out.   *)
(***************************************************************************)
EXTENDS OutboxDispatch, SequenceTheorems, TLAPS

ClaimedRow == [event : Events, token : Nat \ {0}]
Claims == Seq(ClaimedRow)

\* Tokens were drawn, and no two processes carry the same one.
TokensKnown ==
  \A p, q \in Processes : \A i \in DOMAIN batch[p], j \in DOMAIN batch[q] :
    /\ batch[p][i].token <= issued
    /\ batch[p][i].token = batch[q][j].token => p = q

\* A row that can still be delivered has attempts left; only stored rows are claimed.
AttemptsLeft ==
  /\ \A e \in Events :
       /\ row[e].status \in {"PENDING", "PROCESSING"} => row[e].attempts < MaxAttempts
       /\ row[e].status = "ABSENT" => row[e].attempts = 0
  /\ \A p \in Processes : \A i \in DOMAIN batch[p] : row[batch[p][i].event].status # "ABSENT"

\* What a process believes about its current event is so.
StageTruthful ==
  \A p \in Processes : Working(p) =>
    /\ stage[p] = "DELIVERED" => Current(p) \in projected
    /\ stage[p] = "MISSING" => Current(p) \notin Poison

OInv == TypeOK /\ TokensKnown /\ AttemptsLeft /\ StageTruthful

-----------------------------------------------------------------------------
(***************************************************************************)
(* Batches.                                                                *)
(***************************************************************************)
\* The current claim of a working process.
LEMMA HeadClaim ==
  ASSUME TypeOK, NEW p \in Processes, Working(p)
  PROVE  /\ batch[p] \in Claims /\ Len(batch[p]) \in Nat \ {0}
         /\ DOMAIN batch[p] = 1..Len(batch[p])
         /\ Head(batch[p]) = batch[p][1] /\ 1 \in DOMAIN batch[p]
         /\ Current(p) \in Events /\ Token(p) \in Nat \ {0}
<1>1. batch[p] \in Claims
  BY DEF TypeOK, Claims, ClaimedRow
<1>2. Len(batch[p]) \in Nat \ {0} /\ DOMAIN batch[p] = 1..Len(batch[p])
  BY <1>1, EmptySeq, LenProperties DEF Claims, Working
<1>3. Head(batch[p]) = batch[p][1] /\ 1 \in DOMAIN batch[p]
  BY <1>1, <1>2 DEF Claims
<1>4. batch[p][1] \in ClaimedRow
  BY <1>1, <1>2, ElementOfSeq DEF Claims
<1>. QED  BY <1>1, <1>2, <1>3, <1>4 DEF Current, Token, ClaimedRow

\* No process takes on a claim it did not have.
OnlyOldClaims ==
  /\ batch' \in [Processes -> Claims]
  /\ \A q \in Processes : \A i \in DOMAIN batch'[q] :
       \E j \in DOMAIN batch[q] : batch'[q][i] = batch[q][j]

\* Finishing the current claim.
LEMMA GoOnClaims ==
  ASSUME TypeOK, NEW p \in Processes, Working(p), GoOn(p)
  PROVE  OnlyOldClaims
<1>1. /\ Tail(batch[p]) \in Claims
      /\ DOMAIN Tail(batch[p]) = 1..(Len(batch[p]) - 1)
      /\ \A i \in 1..(Len(batch[p]) - 1) : Tail(batch[p])[i] = batch[p][i + 1]
  <2>1. batch[p] \in Claims /\ batch[p] # <<>> /\ Len(batch[p]) \in Nat \ {0}
    BY HeadClaim DEF Working
  <2>2. /\ Tail(batch[p]) \in Claims /\ Len(Tail(batch[p])) = Len(batch[p]) - 1
        /\ \A i \in 1..Len(Tail(batch[p])) : Tail(batch[p])[i] = batch[p][i + 1]
    BY <2>1, HeadTailProperties DEF Claims
  <2>3. DOMAIN Tail(batch[p]) = 1..Len(Tail(batch[p]))
    BY <2>2, LenProperties DEF Claims
  <2>. QED  BY <2>2, <2>3
<1>2. \A i \in DOMAIN Tail(batch[p]) : i + 1 \in DOMAIN batch[p]
  BY <1>1, HeadClaim
<1>3. batch \in [Processes -> Claims]
  BY DEF TypeOK, Claims, ClaimedRow
<1>4. batch' = [batch EXCEPT ![p] = Tail(batch[p])]
  BY DEF GoOn
<1>. QED  BY <1>1, <1>2, <1>3, <1>4 DEF OnlyOldClaims

\* Dropping all claims.
LEMMA ExitClaims ==
  ASSUME TypeOK, NEW p \in Processes, Exit(p)
  PROVE  OnlyOldClaims
<1>1. <<>> \in Claims /\ DOMAIN <<>> = {}
  BY DEF Claims
<1>2. batch \in [Processes -> Claims]
  BY DEF TypeOK, Claims, ClaimedRow
<1>. QED  BY <1>1, <1>2 DEF OnlyOldClaims, Exit

\* Keeping them.
LEMMA SameClaims ==
  ASSUME TypeOK, UNCHANGED batch
  PROVE  OnlyOldClaims
  BY DEF OnlyOldClaims, TypeOK, Claims, ClaimedRow

\* What a claim of the rows in `order` writes.
LEMMA ClaimWrites ==
  ASSUME TypeOK, NEW p \in Processes, NEW order \in Orders, Claim(p, order)
  PROVE  /\ batch' \in [Processes -> Claims]
         /\ \A q \in Processes \ {p} : batch'[q] = batch[q]
         /\ DOMAIN batch'[p] = DOMAIN order
         /\ \A i \in DOMAIN order : /\ batch'[p][i].event = order[i] /\ order[i] \in Events
                                    /\ batch'[p][i].token = issued + i /\ Eligible(order[i])
         /\ issued' \in Nat /\ \A i \in DOMAIN order : i \in Nat \ {0} /\ issued + i <= issued'
         /\ issued <= issued'
<1>1. PICK n \in 1..BatchSize : order \in [1..n -> Events]
  BY DEF Orders
<1>2. n \in Nat \ {0} /\ DOMAIN order = 1..n /\ Len(order) = n
  BY <1>1, LimitAssumption
<1>3. \A i \in DOMAIN order : Eligible(order[i])
  BY DEF Orders
<1>. DEFINE new == [i \in 1..n |-> [event |-> order[i], token |-> issued + i]]
<1>4. new \in Claims
  <2>1. ASSUME NEW i \in 1..n
        PROVE  [event |-> order[i], token |-> issued + i] \in ClaimedRow
    <3>1. order[i] \in Events
      BY <1>1
    <3>2. issued \in Nat
      BY DEF TypeOK
    <3>3. issued + i \in Nat \ {0}
      BY <1>2, <3>2
    <3>. QED  BY <3>1, <3>3 DEF ClaimedRow
  <2>2. new \in [1..n -> ClaimedRow]
    BY <2>1
  <2>. QED  BY <1>2, <2>2 DEF Claims
<1>5. batch' = [batch EXCEPT ![p] = new]
  BY <1>2 DEF Claim
<1>6. batch \in [Processes -> Claims]
  BY DEF TypeOK, Claims, ClaimedRow
<1>7. issued \in Nat /\ issued' = issued + n
  BY <1>2 DEF Claim, TypeOK
<1>. QED  BY <1>1, <1>2, <1>3, <1>4, <1>5, <1>6, <1>7

-----------------------------------------------------------------------------
(***************************************************************************)
(* Rows.                                                                   *)
(***************************************************************************)
RowType ==
  [status : {"ABSENT", "PENDING", "PROCESSING"} \cup Settled,
   claimed_by : {WorkerId[p] : p \in Processes} \cup {None},
   claim_token : Nat, attempts : 0..MaxAttempts, elapsed : BOOLEAN]

\* A row of the declared columns that carries a claim exactly while PROCESSING.
RowSound(r) ==
  /\ r \in RowType
  /\ (r.status = "PROCESSING") <=> (r.claimed_by # None)
  /\ (r.status = "PROCESSING") <=> (r.claim_token # 0)

RowsSound == row \in [Events -> RowType] /\ \A e \in Events : RowSound(row[e])

StageType == {"CLAIMED", "MISSING", "DELIVERED", "FAILED"}

\* The parts TypeOK is proved by.
LEMMA TypeParts ==
  TypeOK <=> /\ RowsSound
             /\ projected \subseteq Events
             /\ batch \in [Processes -> Claims]
             /\ stage \in [Processes -> StageType]
             /\ issued \in Nat /\ trouble \in 0..MaxTrouble
<1>1. row \in [Events -> RowType] => \A e \in Events : row[e] \in RowType
  OBVIOUS
<1>. QED  BY <1>1 DEF TypeOK, RowsSound, RowSound, RowType, Claims, ClaimedRow, StageType

\* The same of a successor state.
LEMMA NextTypeParts ==
  ASSUME RowsSound', projected' \subseteq Events, batch' \in [Processes -> Claims],
         stage' \in [Processes -> StageType], issued' \in Nat, trouble' \in 0..MaxTrouble
  PROVE  TypeOK'
<1>1. row' \in [Events -> RowType] /\ \A e \in Events : RowSound(row'[e])
  BY DEF RowsSound, RowSound
<1>. QED  BY <1>1 DEF TypeOK, RowSound, RowType, Claims, ClaimedRow, StageType

\* Changing one row.
LEMMA OneRow ==
  ASSUME RowsSound, NEW e \in Events, NEW r, RowSound(r), row' = [row EXCEPT ![e] = r]
  PROVE  RowsSound'
  BY DEF RowsSound, RowSound

\* Letting a row's time pass.
LEMMA ElapsedRow ==
  ASSUME RowsSound, NEW e \in Events, row' = [row EXCEPT ![e].elapsed = TRUE]
  PROVE  RowsSound'
<1>1. row[e] \in RowType /\ RowSound(row[e])
  BY DEF RowsSound
<1>2. row' = [row EXCEPT ![e] = [row[e] EXCEPT !.elapsed = TRUE]]
  OBVIOUS
<1>3. RowSound([row[e] EXCEPT !.elapsed = TRUE])
  BY <1>1 DEF RowSound, RowType
<1>. QED  BY <1>2, <1>3, OneRow

\* Releasing a claim.
LEMMA ReleasedRow ==
  ASSUME RowsSound, NEW e \in Events, NEW status \in {"PENDING"} \cup Settled,
         NEW attempts \in 0..MaxAttempts, Release(e, status, attempts)
  PROVE  RowsSound'
<1>. DEFINE r == [status |-> status, claimed_by |-> None, claim_token |-> 0,
                  attempts |-> attempts, elapsed |-> FALSE]
<1>1. RowSound(r)
  BY DEF RowSound, RowType, Settled
<1>2. row' = [row EXCEPT ![e] = r]
  BY DEF Release
<1>. HIDE DEF r
<1>. QED  BY <1>1, <1>2, OneRow

\* Claiming rows.
LEMMA ClaimedRows ==
  ASSUME TypeOK, NEW p \in Processes, NEW order \in Orders, Claim(p, order)
  PROVE  RowsSound'
<1>1. RowsSound /\ issued \in Nat
  BY TypeParts
<1>. DEFINE place(e) == CHOOSE i \in DOMAIN order : order[i] = e
            taken(e) == [row[e] EXCEPT !.status = "PROCESSING", !.claimed_by = WorkerId[p],
                                       !.claim_token = issued + place(e), !.elapsed = FALSE]
<1>2. \A i \in DOMAIN order : i \in Nat \ {0}
  BY ClaimWrites
<1>3. ASSUME NEW e \in Events, \E i \in DOMAIN order : order[i] = e
      PROVE  RowSound(taken(e))
  <2>1. place(e) \in Nat \ {0}
    BY <1>2, <1>3
  <2>2. row[e] \in RowType
    BY <1>1 DEF RowsSound
  <2>3. WorkerId[p] # None
    BY WorkerAssumption
  <2>. HIDE DEF place
  <2>4. issued + place(e) \in Nat \ {0}
    BY <1>1, <2>1
  <2>. QED  BY <2>2, <2>3, <2>4 DEF RowSound, RowType
<1>4. row' = [e \in Events |-> IF \E i \in DOMAIN order : order[i] = e THEN taken(e) ELSE row[e]]
  BY DEF Claim
<1>5. \A e \in Events : RowSound(row[e])
  BY <1>1 DEF RowsSound
<1>. HIDE DEF taken
<1>6. \A e \in Events : RowSound(row'[e])
  BY <1>3, <1>4, <1>5
<1>. QED  BY <1>4, <1>6 DEF RowsSound, RowSound

-----------------------------------------------------------------------------
(***************************************************************************)
(* The inductive invariant.                                                *)
(***************************************************************************)
\* The initial state satisfies every part.
LEMMA InitOInv == Init => OInv
<1>. SUFFICES ASSUME Init PROVE OInv
  OBVIOUS
<1>1. TypeOK
  <2>1. RowSound(NoRow)
    BY LimitAssumption DEF RowSound, RowType, NoRow
  <2>2. RowsSound
    BY <2>1 DEF RowsSound, RowSound, Init
  <2>3. batch \in [Processes -> Claims]
    BY DEF Init, Claims
  <2>. QED  BY <2>2, <2>3, TypeParts, LimitAssumption DEF Init, StageType
<1>2. \A p \in Processes : batch[p] = <<>> /\ DOMAIN batch[p] = {}
  BY DEF Init
<1>3. TokensKnown /\ StageTruthful
  BY <1>2 DEF TokensKnown, StageTruthful, Working
<1>4. AttemptsLeft
  BY <1>2 DEF AttemptsLeft, Init, NoRow
<1>. QED  BY <1>1, <1>3, <1>4 DEF OInv

\* A step of a dispatcher that leaves the rows alone and moves one process's stage.
LEMMA StageMoves ==
  ASSUME TypeOK, NEW p \in Processes, NEW s \in StageType, stage' = [stage EXCEPT ![p] = s],
         UNCHANGED <<row, batch, issued>>, trouble' \in 0..MaxTrouble,
         projected' \subseteq Events
  PROVE  TypeOK'
<1>1. RowsSound'
  BY TypeParts DEF RowsSound, RowSound
<1>2. stage' \in [Processes -> StageType]
  BY TypeParts
<1>. QED  BY <1>1, <1>2, TypeParts, NextTypeParts

\* Rows, projections, batches and stages keep their types.
LEMMA TypeStep ==
  ASSUME OInv, [Next]_vars
  PROVE  TypeOK'
<1>. USE DEF OInv
<1>0. /\ RowsSound /\ projected \subseteq Events /\ batch \in [Processes -> Claims]
      /\ stage \in [Processes -> StageType] /\ issued \in Nat /\ trouble \in 0..MaxTrouble
  BY TypeParts
<1>t. MaxTrouble \in Nat /\ MaxAttempts \in Nat \ {0}
  BY LimitAssumption
<1>1. ASSUME NEW e \in Events, AddEvent(e)
      PROVE  TypeOK'
  <2>. DEFINE r == [row[e] EXCEPT !.status = "PENDING", !.elapsed = TRUE]
  <2>1. RowSound(row[e]) /\ row[e].status = "ABSENT"
    BY <1>0, <1>1 DEF RowsSound, AddEvent
  <2>2. RowSound(r)
    BY <2>1 DEF RowSound, RowType
  <2>3. row' = [row EXCEPT ![e] = r]
    BY <1>1 DEF AddEvent
  <2>. HIDE DEF r
  <2>4. RowsSound'
    BY <1>0, <2>2, <2>3, OneRow
  <2>. QED  BY <1>0, <1>1, <2>4, NextTypeParts DEF AddEvent
<1>2. ASSUME NEW e \in Events, Elapse(e) \/ Overrun(e)
      PROVE  TypeOK'
  <2>1. RowsSound'
    BY <1>0, <1>2, ElapsedRow DEF Elapse, Overrun
  <2>. QED  BY <1>0, <1>2, <1>t, <2>1, NextTypeParts DEF Elapse, Overrun
<1>3. ASSUME NEW p \in Processes, ClaimBatch(p)
      PROVE  TypeOK'
  <2>1. PICK order \in Orders : Claim(p, order)
    BY <1>3 DEF ClaimBatch
  <2>2. RowsSound'
    BY <2>1, ClaimedRows
  <2>3. batch' \in [Processes -> Claims] /\ issued' \in Nat
    BY <2>1, ClaimWrites
  <2>. QED  BY <1>0, <1>3, <2>2, <2>3, NextTypeParts DEF ClaimBatch, StageType
<1>4. ASSUME NEW p \in Processes, RejectPoison(p)
      PROVE  TypeOK'
  BY <1>0, <1>4, StageMoves DEF RejectPoison, StageType
<1>5. ASSUME NEW p \in Processes, ProjectUnderRun(p)
      PROVE  TypeOK'
  BY <1>0, <1>5, StageMoves, HeadClaim DEF ProjectUnderRun, StageType
<1>6. ASSUME NEW p \in Processes, LookUp(p)
      PROVE  TypeOK'
  BY <1>0, <1>6, StageMoves DEF LookUp, StageType
<1>7. ASSUME NEW p \in Processes, Insert(p)
      PROVE  TypeOK'
  BY <1>0, <1>7, StageMoves, HeadClaim DEF Insert, StageType
<1>8. ASSUME NEW p \in Processes, ConsumerRaises(p)
      PROVE  TypeOK'
  <2>1. trouble' \in 0..MaxTrouble /\ projected' \subseteq Events
    BY <1>0, <1>8, <1>t, HeadClaim DEF ConsumerRaises
  <2>. QED  BY <1>8, <2>1, StageMoves DEF ConsumerRaises, StageType
<1>9. ASSUME NEW p \in Processes, MarkDispatched(p) \/ MarkFailed(p)
      PROVE  TypeOK'
  <2>1. Working(p) /\ Current(p) \in Events
    BY <1>9, HeadClaim DEF MarkDispatched, MarkFailed
  <2>2. row[Current(p)].attempts \in 0..MaxAttempts
    BY <1>0, <2>1 DEF RowsSound, RowType
  <2>3. RowsSound'
    <3>1. CASE UNCHANGED row
      BY <1>0, <3>1 DEF RowsSound, RowSound
    <3>2. CASE MarkDispatched(p) /\ Holds(p)
      BY <1>0, <2>1, <2>2, <3>2, ReleasedRow DEF MarkDispatched, Settled
    <3>3. CASE MarkFailed(p) /\ Holds(p)
      <4>1. row[Current(p)].attempts < MaxAttempts
        BY <2>1, <3>3 DEF AttemptsLeft, Holds
      <4>2. row[Current(p)].attempts + 1 \in 0..MaxAttempts
        BY <1>t, <2>2, <4>1
      <4>. QED  BY <1>0, <2>1, <3>3, <4>2, ReleasedRow DEF MarkFailed, Settled
    <3>. QED  BY <1>9, <3>1, <3>2, <3>3 DEF MarkDispatched, MarkFailed
  <2>4. GoOn(p) \/ Exit(p)
    BY <1>9 DEF MarkDispatched, MarkFailed
  <2>5. batch' \in [Processes -> Claims]
    BY <2>1, <2>4, GoOnClaims, ExitClaims DEF OnlyOldClaims
  <2>6. stage' \in [Processes -> StageType]
    BY <1>0, <2>4 DEF GoOn, Exit, StageType
  <2>. QED  BY <1>0, <1>9, <2>3, <2>5, <2>6, NextTypeParts DEF MarkDispatched, MarkFailed
<1>10. ASSUME NEW p \in Processes, Crash(p)
       PROVE  TypeOK'
  <2>1. batch' \in [Processes -> Claims]
    BY <1>10, ExitClaims DEF Crash, OnlyOldClaims
  <2>2. stage' \in [Processes -> StageType]
    BY <1>0, <1>10 DEF Crash, Exit, StageType
  <2>3. RowsSound'
    BY <1>0, <1>10 DEF Crash, RowsSound, RowSound
  <2>. QED  BY <1>0, <1>10, <1>t, <2>1, <2>2, <2>3, NextTypeParts DEF Crash
<1>11. CASE UNCHANGED vars
  <2>1. RowsSound'
    BY <1>0, <1>11 DEF vars, RowsSound, RowSound
  <2>. QED  BY <1>0, <1>11, <2>1, NextTypeParts DEF vars
<1>. QED  BY <1>1, <1>2, <1>3, <1>4, <1>5, <1>6, <1>7, <1>8, <1>9, <1>10, <1>11
          DEF Next, Dispatch

\* Only claim_batch hands a process claims it did not have.
LEMMA ClaimOrOld ==
  ASSUME TypeOK, [Next]_vars, ~\E p \in Processes : ClaimBatch(p)
  PROVE  OnlyOldClaims /\ issued' = issued
<1>1. CASE UNCHANGED <<batch, issued>>
  BY <1>1, SameClaims
<1>2. ASSUME NEW p \in Processes, MarkDispatched(p) \/ MarkFailed(p) \/ Crash(p)
      PROVE  OnlyOldClaims /\ issued' = issued
  <2>1. Working(p) /\ (GoOn(p) \/ Exit(p)) /\ issued' = issued
    BY <1>2 DEF MarkDispatched, MarkFailed, Crash
  <2>. QED  BY <2>1, GoOnClaims, ExitClaims
<1>3. ASSUME NEW e \in Events, AddEvent(e) \/ Elapse(e) \/ Overrun(e)
      PROVE  UNCHANGED <<batch, issued>>
  BY <1>3 DEF AddEvent, Elapse, Overrun
<1>4. ASSUME NEW p \in Processes, RejectPoison(p) \/ ProjectUnderRun(p) \/ LookUp(p)
                                  \/ Insert(p) \/ ConsumerRaises(p)
      PROVE  UNCHANGED <<batch, issued>>
  BY <1>4 DEF RejectPoison, ProjectUnderRun, LookUp, Insert, ConsumerRaises
<1>5. CASE UNCHANGED vars
  BY <1>1, <1>5 DEF vars
<1>. QED  BY <1>1, <1>2, <1>3, <1>4, <1>5 DEF Next, Dispatch

\* A token is drawn once: no two processes ever carry the same one.
LEMMA TokensStep ==
  ASSUME OInv, [Next]_vars
  PROVE  TokensKnown'
<1>. USE DEF OInv
<1>1. ASSUME NEW p \in Processes, ClaimBatch(p)
      PROVE  TokensKnown'
  <2>1. PICK order \in Orders : Claim(p, order)
    BY <1>1 DEF ClaimBatch
  <2>2. /\ \A q \in Processes \ {p} : batch'[q] = batch[q]
        /\ DOMAIN batch'[p] = DOMAIN order
        /\ \A i \in DOMAIN order : batch'[p][i].token = issued + i
        /\ \A i \in DOMAIN order : i \in Nat \ {0} /\ issued + i <= issued'
        /\ issued' \in Nat /\ issued \in Nat /\ issued <= issued'
    BY <2>1, ClaimWrites DEF TypeOK
  <2>3. \A q \in Processes \ {p} : \A i \in DOMAIN batch'[q] :
          batch'[q][i].token \in Nat /\ batch'[q][i].token <= issued
    <3>. SUFFICES ASSUME NEW q \in Processes \ {p}, NEW i \in DOMAIN batch[q]
                  PROVE  batch[q][i].token \in Nat /\ batch[q][i].token <= issued
      BY <2>2
    <3>1. batch[q] \in Claims
      BY TypeParts
    <3>2. batch[q][i] \in ClaimedRow
      BY <3>1, LenProperties, ElementOfSeq DEF Claims
    <3>. QED  BY <3>2 DEF TokensKnown, ClaimedRow
  <2>4. \A i \in DOMAIN batch'[p] : batch'[p][i].token > issued /\ batch'[p][i].token <= issued'
    BY <2>2
  <2>5. \A q \in Processes : \A i \in DOMAIN batch'[q] : batch'[q][i].token <= issued'
    BY <2>2, <2>3, <2>4
  <2>6. ASSUME NEW q \in Processes, NEW r \in Processes, NEW i \in DOMAIN batch'[q],
               NEW j \in DOMAIN batch'[r], batch'[q][i].token = batch'[r][j].token
        PROVE  q = r
    <3>1. CASE q # p /\ r # p
      BY <2>2, <2>6, <3>1 DEF TokensKnown
    <3>2. CASE q = p /\ r # p
      BY <2>2, <2>3, <2>4, <2>6, <3>2
    <3>3. CASE q # p /\ r = p
      BY <2>2, <2>3, <2>4, <2>6, <3>3
    <3>. QED  BY <3>1, <3>2, <3>3
  <2>. QED  BY <2>5, <2>6 DEF TokensKnown
<1>2. CASE ~\E p \in Processes : ClaimBatch(p)
  BY <1>2, ClaimOrOld DEF TokensKnown, OnlyOldClaims
<1>. QED  BY <1>1, <1>2

\* No stored row disappears, and a delivered event stays delivered.
LEMMA RowsStay ==
  ASSUME OInv, [Next]_vars
  PROVE  /\ \A e \in Events : row[e].status # "ABSENT" => row'[e].status # "ABSENT"
         /\ projected \subseteq projected'
<1>. USE DEF OInv
<1>0. row \in [Events -> RowType]
  BY TypeParts DEF RowsSound
<1>1. ASSUME NEW e \in Events, AddEvent(e) \/ Elapse(e) \/ Overrun(e)
      PROVE  /\ \A f \in Events : row[f].status # "ABSENT" => row'[f].status # "ABSENT"
             /\ projected' = projected
  BY <1>0, <1>1 DEF AddEvent, Elapse, Overrun, RowType
<1>2. ASSUME NEW p \in Processes, ClaimBatch(p)
      PROVE  /\ \A e \in Events : row[e].status # "ABSENT" => row'[e].status # "ABSENT"
             /\ projected' = projected
  <2>1. PICK order \in Orders : Claim(p, order)
    BY <1>2 DEF ClaimBatch
  <2>. DEFINE chosen(e) == \E i \in DOMAIN order : order[i] = e
  <2>2. \A e \in Events : row'[e].status = "PROCESSING" \/ row'[e] = row[e]
    <3>. SUFFICES ASSUME NEW e \in Events
                  PROVE  row'[e].status = "PROCESSING" \/ row'[e] = row[e]
      OBVIOUS
    <3>1. CASE chosen(e)
      BY <1>0, <2>1, <3>1 DEF Claim, RowType
    <3>2. CASE ~chosen(e)
      BY <2>1, <3>2 DEF Claim
    <3>. QED  BY <3>1, <3>2
  <2>. QED  BY <1>2, <2>2 DEF ClaimBatch
<1>3. ASSUME NEW p \in Processes, RejectPoison(p) \/ ProjectUnderRun(p) \/ LookUp(p)
                                  \/ Insert(p) \/ ConsumerRaises(p) \/ Crash(p)
      PROVE  row' = row /\ projected \subseteq projected'
  BY <1>3 DEF RejectPoison, ProjectUnderRun, LookUp, Insert, ConsumerRaises, Crash
<1>4. ASSUME NEW p \in Processes, MarkDispatched(p) \/ MarkFailed(p)
      PROVE  /\ \A e \in Events : row[e].status # "ABSENT" => row'[e].status # "ABSENT"
             /\ projected' = projected
  BY <1>0, <1>4 DEF MarkDispatched, MarkFailed, Release
<1>. QED  BY <1>1, <1>2, <1>3, <1>4 DEF Next, Dispatch, vars

-----------------------------------------------------------------------------
(***************************************************************************)
(* How a step changes rows.                                                *)
(***************************************************************************)
Acknowledged(p, e) ==
  /\ MarkDispatched(p) /\ Working(p) /\ Holds(p) /\ Current(p) = e
  /\ row' = [row EXCEPT ![e] = row'[e]]
  /\ row'[e].status = "DISPATCHED" /\ row'[e].attempts = row[e].attempts
  /\ batch'[p] = Tail(batch[p])

Failed(p, e) ==
  /\ MarkFailed(p) /\ Working(p) /\ Holds(p) /\ Current(p) = e
  /\ row' = [row EXCEPT ![e] = row'[e]]
  /\ row'[e].attempts = row[e].attempts + 1
  /\ row'[e].status = IF GivesUp(row[e].attempts + 1) THEN "DEAD_LETTER" ELSE "PENDING"
  /\ batch'[p] = Tail(batch[p])

\* A row keeps its status and count, except that a claim makes it PROCESSING.
Claimable(e) ==
  /\ row'[e].attempts = row[e].attempts
  /\ \/ row'[e].status = row[e].status
     \/ row[e].status = "PENDING" /\ row'[e].status = "PROCESSING"

\* Status and count of rows, and the trace, stay as they are or are claimed.
Quiet == projected' = projected /\ \A e \in Events : Claimable(e)

\* The steps of a claim, of the clock and of a crash.
LEMMA QuietSteps ==
  ASSUME TypeOK,
         \/ \E e \in Events : Elapse(e) \/ Overrun(e)
         \/ \E p \in Processes : ClaimBatch(p) \/ RejectPoison(p) \/ LookUp(p) \/ Crash(p)
         \/ UNCHANGED vars
  PROVE  Quiet
<1>0. row \in [Events -> RowType]
  BY TypeParts DEF RowsSound
<1>1. ASSUME NEW e \in Events, Elapse(e) \/ Overrun(e)
      PROVE  Quiet
  BY <1>0, <1>1 DEF Elapse, Overrun, Quiet, Claimable, RowType
<1>2. ASSUME NEW p \in Processes, ClaimBatch(p)
      PROVE  Quiet
  <2>1. PICK order \in Orders : Claim(p, order)
    BY <1>2 DEF ClaimBatch
  <2>. DEFINE chosen(e) == \E i \in DOMAIN order : order[i] = e
  <2>2. ASSUME NEW e \in Events
        PROVE  Claimable(e)
    <3>1. CASE chosen(e)
      <4>1. row[e].status \in {"PENDING", "PROCESSING"}
        BY <3>1 DEF Orders, Eligible
      <4>2. row'[e].status = "PROCESSING" /\ row'[e].attempts = row[e].attempts
        BY <1>0, <2>1, <3>1 DEF Claim, RowType
      <4>. QED  BY <4>1, <4>2 DEF Claimable
    <3>2. CASE ~chosen(e)
      BY <2>1, <3>2 DEF Claim, Claimable
    <3>. QED  BY <3>1, <3>2
  <2>. QED  BY <1>2, <2>2 DEF ClaimBatch, Quiet
<1>3. ASSUME NEW p \in Processes, RejectPoison(p) \/ LookUp(p) \/ Crash(p)
      PROVE  Quiet
  BY <1>3 DEF RejectPoison, LookUp, Crash, Quiet, Claimable
<1>4. CASE UNCHANGED vars
  BY <1>4 DEF vars, Quiet, Claimable
<1>. QED  BY <1>1, <1>2, <1>3, <1>4

\* An acknowledgement or a failure that is not the holder's changes no row.
LEMMA MarkSteps ==
  ASSUME TypeOK, NEW p \in Processes, MarkDispatched(p) \/ MarkFailed(p)
  PROVE  /\ projected' = projected /\ Current(p) \in Events
         /\ row' = row \/ Acknowledged(p, Current(p)) \/ Failed(p, Current(p))
<1>1. Working(p)
  BY DEF MarkDispatched, MarkFailed
<1>2. row \in [Events -> RowType] /\ batch \in [Processes -> Claims]
  BY TypeParts DEF RowsSound
<1>3. Current(p) \in Events
  BY <1>1, HeadClaim
<1>4. CASE MarkDispatched(p) /\ Holds(p)
  BY <1>1, <1>2, <1>3, <1>4 DEF MarkDispatched, Release, GoOn, Acknowledged
<1>5. CASE MarkFailed(p) /\ Holds(p)
  <2>1. Failed(p, Current(p))
    BY <1>1, <1>2, <1>3, <1>5 DEF MarkFailed, Release, GoOn, Failed
  <2>. QED  BY <1>3, <1>5, <2>1 DEF MarkFailed
<1>6. CASE ~Holds(p)
  BY <1>3, <1>6 DEF MarkDispatched, MarkFailed
<1>. QED  BY <1>3, <1>4, <1>5, <1>6

\* The ways a step can change one row.
LEMMA RowMoves ==
  ASSUME TypeOK, [Next]_vars, NEW e \in Events
  PROVE  \/ Claimable(e)
         \/ row[e].status = "ABSENT" /\ row'[e].status = "PENDING"
            /\ row'[e].attempts = row[e].attempts
         \/ \E p \in Processes : Acknowledged(p, e) \/ Failed(p, e)
<1>0. row \in [Events -> RowType]
  BY TypeParts DEF RowsSound
<1>1. CASE \E f \in Events : AddEvent(f)
  BY <1>0, <1>1 DEF AddEvent, Claimable, RowType
<1>2. CASE \E p \in Processes : ProjectUnderRun(p) \/ Insert(p) \/ ConsumerRaises(p)
  BY <1>2 DEF ProjectUnderRun, Insert, ConsumerRaises, Claimable
<1>3. ASSUME NEW p \in Processes, MarkDispatched(p) \/ MarkFailed(p)
      PROVE  Claimable(e) \/ Acknowledged(p, e) \/ Failed(p, e)
  <2>1. CASE row' = row
    BY <2>1 DEF Claimable
  <2>2. CASE e = Current(p)
    BY <1>3, <2>1, <2>2, MarkSteps
  <2>3. CASE e # Current(p) /\ row' # row
    <3>1. row' = [row EXCEPT ![Current(p)] = row'[Current(p)]]
      BY <1>3, <2>3, MarkSteps DEF Acknowledged, Failed
    <3>. QED  BY <1>0, <2>3, <3>1 DEF Claimable
  <2>. QED  BY <2>1, <2>2, <2>3
<1>4. CASE Quiet
  BY <1>4 DEF Quiet
<1>. QED  BY <1>1, <1>2, <1>3, <1>4, QuietSteps DEF Next, Dispatch

\* A row that is given back has attempts left, and only stored rows are claimed.
LEMMA AttemptsStep ==
  ASSUME OInv, [Next]_vars
  PROVE  AttemptsLeft'
<1>. USE DEF OInv
<1>0. row \in [Events -> RowType] /\ MaxAttempts \in Nat \ {0}
  BY TypeParts, LimitAssumption DEF RowsSound
<1>1. ASSUME NEW e \in Events
      PROVE  /\ row'[e].status \in {"PENDING", "PROCESSING"} => row'[e].attempts < MaxAttempts
             /\ row'[e].status = "ABSENT" => row'[e].attempts = 0
  <2>1. CASE Claimable(e)
    BY <2>1 DEF Claimable, AttemptsLeft
  <2>2. CASE row[e].status = "ABSENT" /\ row'[e].status = "PENDING"
             /\ row'[e].attempts = row[e].attempts
    BY <1>0, <2>2 DEF AttemptsLeft
  <2>3. CASE \E p \in Processes : Acknowledged(p, e)
    BY <2>3 DEF Acknowledged
  <2>4. CASE \E p \in Processes : Failed(p, e)
    <3>1. row[e].attempts \in Nat
      BY <1>0 DEF RowType
    <3>. QED  BY <1>0, <2>4, <3>1 DEF Failed, GivesUp
  <2>. QED  BY <2>1, <2>2, <2>3, <2>4, RowMoves
<1>2. \A p \in Processes : \A i \in DOMAIN batch[p] :
        batch[p][i].event \in Events /\ row[batch[p][i].event].status # "ABSENT"
  <2>. SUFFICES ASSUME NEW p \in Processes, NEW i \in DOMAIN batch[p]
                PROVE  batch[p][i].event \in Events /\ row[batch[p][i].event].status # "ABSENT"
    OBVIOUS
  <2>1. batch[p] \in Claims
    BY TypeParts
  <2>2. batch[p][i] \in ClaimedRow
    BY <2>1, LenProperties, ElementOfSeq DEF Claims
  <2>. QED  BY <2>2 DEF AttemptsLeft, ClaimedRow
<1>3. ASSUME NEW p \in Processes, ClaimBatch(p)
      PROVE  \A q \in Processes : \A i \in DOMAIN batch'[q] : row'[batch'[q][i].event].status # "ABSENT"
  <2>1. PICK order \in Orders : Claim(p, order)
    BY <1>3 DEF ClaimBatch
  <2>2. /\ \A q \in Processes \ {p} : batch'[q] = batch[q]
        /\ DOMAIN batch'[p] = DOMAIN order
        /\ \A i \in DOMAIN order : batch'[p][i].event = order[i] /\ order[i] \in Events
                                   /\ Eligible(order[i])
    BY <2>1, ClaimWrites
  <2>3. \A i \in DOMAIN batch'[p] : row[batch'[p][i].event].status # "ABSENT"
                                    /\ batch'[p][i].event \in Events
    BY <2>2 DEF Eligible
  <2>4. \A e \in Events : row[e].status # "ABSENT" => row'[e].status # "ABSENT"
    BY RowsStay
  <2>5. \A i \in DOMAIN batch'[p] : row'[batch'[p][i].event].status # "ABSENT"
    BY <2>3, <2>4
  <2>6. ASSUME NEW q \in Processes \ {p}
        PROVE  \A i \in DOMAIN batch'[q] : row'[batch'[q][i].event].status # "ABSENT"
    BY <1>2, <2>2, <2>4
  <2>. QED  BY <2>5, <2>6
<1>4. ASSUME ~\E p \in Processes : ClaimBatch(p)
      PROVE  \A q \in Processes : \A i \in DOMAIN batch'[q] : row'[batch'[q][i].event].status # "ABSENT"
  <2>. SUFFICES ASSUME NEW q \in Processes, NEW i \in DOMAIN batch'[q]
                PROVE  row'[batch'[q][i].event].status # "ABSENT"
    OBVIOUS
  <2>1. PICK j \in DOMAIN batch[q] : batch'[q][i] = batch[q][j]
    BY <1>4, ClaimOrOld DEF OnlyOldClaims
  <2>. QED  BY <1>2, <2>1, RowsStay
<1>. QED  BY <1>1, <1>3, <1>4 DEF AttemptsLeft

\* What a process has found out about its current event stays so.
LEMMA StageStep ==
  ASSUME OInv, [Next]_vars
  PROVE  StageTruthful'
<1>. USE DEF OInv
<1>. DEFINE Truthful(q) == Working(q)' => /\ stage'[q] = "DELIVERED" => Current(q)' \in projected'
                                          /\ stage'[q] = "MISSING" => Current(q)' \notin Poison
<1>0. projected \subseteq projected' /\ stage \in [Processes -> StageType]
      /\ batch \in [Processes -> Claims]
  BY RowsStay, TypeParts
<1>1. ASSUME NEW q \in Processes, batch'[q] = batch[q], stage'[q] = stage[q]
      PROVE  Truthful(q)
  BY <1>0, <1>1 DEF StageTruthful, Working, Current
<1>2. ASSUME NEW q \in Processes, stage'[q] = "CLAIMED"
      PROVE  Truthful(q)
  BY <1>2
<1>3. CASE UNCHANGED <<batch, stage>>
  BY <1>1, <1>3 DEF StageTruthful, Working, Current
<1>4. ASSUME NEW p \in Processes,
             ClaimBatch(p) \/ MarkDispatched(p) \/ MarkFailed(p) \/ Crash(p)
      PROVE  StageTruthful'
  <2>1. stage' = [stage EXCEPT ![p] = "CLAIMED"]
    BY <1>4 DEF ClaimBatch, MarkDispatched, MarkFailed, Crash, GoOn, Exit
  <2>2. \A q \in Processes \ {p} : batch'[q] = batch[q]
    BY <1>0, <1>4 DEF ClaimBatch, Claim, MarkDispatched, MarkFailed, Crash, GoOn, Exit
  <2>3. \A q \in Processes : Truthful(q)
    BY <1>0, <1>1, <1>2, <2>1, <2>2
  <2>. QED  BY <2>3 DEF StageTruthful, Working, Current
<1>5. ASSUME NEW p \in Processes, RejectPoison(p) \/ ProjectUnderRun(p) \/ LookUp(p)
                                  \/ Insert(p) \/ ConsumerRaises(p)
      PROVE  StageTruthful'
  <2>1. batch' = batch
    BY <1>5 DEF RejectPoison, ProjectUnderRun, LookUp, Insert, ConsumerRaises
  <2>2. \A q \in Processes \ {p} : stage'[q] = stage[q]
    BY <1>0, <1>5 DEF RejectPoison, ProjectUnderRun, LookUp, Insert, ConsumerRaises
  <2>3. /\ stage'[p] = "DELIVERED" => Current(p) \in projected'
        /\ stage'[p] = "MISSING" => Current(p) \notin Poison
    BY <1>0, <1>5 DEF RejectPoison, ProjectUnderRun, LookUp, Insert, ConsumerRaises
  <2>4. \A q \in Processes : Truthful(q)
    BY <1>1, <2>1, <2>2, <2>3 DEF Current
  <2>. QED  BY <2>4 DEF StageTruthful, Working, Current
<1>6. ASSUME NEW e \in Events, AddEvent(e) \/ Elapse(e) \/ Overrun(e)
      PROVE  UNCHANGED <<batch, stage>>
  BY <1>6 DEF AddEvent, Elapse, Overrun
<1>7. CASE UNCHANGED vars
  BY <1>3, <1>7 DEF vars
<1>. QED  BY <1>3, <1>4, <1>5, <1>6, <1>7 DEF Next, Dispatch

\* The invariant holds throughout, for any events, processes and limits.
THEOREM Inductive == Spec => []OInv
<1>1. OInv /\ [Next]_vars => OInv'
  BY TypeStep, TokensStep, AttemptsStep, StageStep DEF OInv
<1>. QED  BY InitOInv, <1>1, PTL DEF Spec

-----------------------------------------------------------------------------
(***************************************************************************)
(* Theorems.                                                               *)
(***************************************************************************)
\* Rows and processes keep their declared form: a row carries a claim exactly while it is
\* PROCESSING, as the table's claim_matches_status check demands.
THEOREM TypeCorrect == Spec => []TypeOK
<1>1. OInv => TypeOK
  BY DEF OInv
<1>. QED  BY Inductive, <1>1, PTL

\* A row's current token is in the batch of one process at most, although processes may
\* share a worker id and leases may run out under a process at work.
THEOREM SoleHolderHolds == Spec => []SoleHolder
<1>1. OInv => SoleHolder
  BY DEF OInv, TokensKnown, SoleHolder, HeldBy
<1>. QED  BY Inductive, <1>1, PTL

\* Only the process that holds a row's claim takes the row out of PROCESSING: an
\* acknowledgement or a failure of a superseded claim has no effect.
THEOREM FencedReleaseHolds == Spec => FencedRelease
<1>1. OInv /\ [Next]_vars => [ClaimEndsByHolder]_vars
  <2>. SUFFICES ASSUME OInv, [Next]_vars, NEW e \in Events,
                       row[e].status = "PROCESSING", row'[e].status # "PROCESSING"
                PROVE  \E p \in Processes : HeldBy(e, p) /\ batch'[p] = Tail(batch[p])
    BY DEF ClaimEndsByHolder
  <2>1. PICK p \in Processes : Acknowledged(p, e) \/ Failed(p, e)
    BY RowMoves DEF OInv, Claimable
  <2>2. Working(p) /\ Holds(p) /\ Current(p) = e /\ batch'[p] = Tail(batch[p])
    BY <2>1 DEF Acknowledged, Failed
  <2>3. Head(batch[p]) = batch[p][1] /\ 1 \in DOMAIN batch[p]
    BY <2>2, HeadClaim DEF OInv
  <2>4. HeldBy(e, p)
    BY <2>2, <2>3 DEF HeldBy, Holds, Current, Token
  <2>. QED  BY <2>2, <2>4
<1>. QED  BY Inductive, <1>1, PTL DEF Spec, FencedRelease

\* The dispatcher implements OutboxContract: an event is acknowledged only once its trace
\* is stored, given up only after max_attempts counted failures, and both are final.
THEOREM ImplementsContractHolds == Spec => ImplementsContract
<1>1. Init => Contract!Init
  <2>. SUFFICES ASSUME Init PROVE Contract!Init
    OBVIOUS
  <2>1. \A e \in Events : row[e] = NoRow
    BY DEF Init
  <2>. QED  BY <2>1 DEF Init, Contract!Init, promise, failures, NoRow
<1>2. OInv /\ [Next]_vars => [Contract!Next]_(Contract!contractVars)
  <2>. SUFFICES ASSUME OInv, [Next]_vars
                PROVE  Contract!Next \/ UNCHANGED <<promise, failures, projected>>
    BY DEF Contract!contractVars
  <2>. USE DEF OInv
  <2>0. row \in [Events -> RowType] /\ MaxAttempts \in Nat \ {0}
    BY TypeParts, LimitAssumption DEF RowsSound
  <2>1. CASE Quiet
    BY <2>1 DEF Quiet, Claimable, promise, failures
  <2>2. ASSUME NEW e \in Events, AddEvent(e)
        PROVE  Contract!Next
    <3>1. row' = [row EXCEPT ![e] = row'[e]] /\ row[e].status = "ABSENT"
          /\ row'[e].status = "PENDING" /\ row'[e].attempts = row[e].attempts
          /\ projected' = projected
      BY <2>0, <2>2 DEF AddEvent, RowType
    <3>2. \A f \in Events : f # e => row'[f] = row[f]
      BY <2>0, <3>1
    <3>3. Contract!Accept(e)
      BY <3>1, <3>2 DEF Contract!Accept, promise, failures
    <3>. QED  BY <3>3 DEF Contract!Next
  <2>3. ASSUME NEW p \in Processes, ProjectUnderRun(p) \/ Insert(p) \/ ConsumerRaises(p)
        PROVE  Contract!Next \/ UNCHANGED <<promise, failures, projected>>
    <3>1. row' = row /\ Working(p)
      BY <2>3 DEF ProjectUnderRun, Insert, ConsumerRaises
    <3>2. Current(p) \in Events /\ 1 \in DOMAIN batch[p] /\ Head(batch[p]) = batch[p][1]
      BY <3>1, HeadClaim
    <3>3. promise[Current(p)] # "ABSENT"
      BY <3>2 DEF AttemptsLeft, Current, promise
    <3>4. UNCHANGED <<promise, failures>>
      BY <3>1 DEF promise, failures
    <3>5. CASE projected' = projected
      BY <3>4, <3>5
    <3>6. CASE projected' = projected \cup {Current(p)} /\ Current(p) \notin Poison
      BY <3>2, <3>3, <3>4, <3>6 DEF Contract!Next, Contract!Project
    <3>. QED  BY <2>3, <3>5, <3>6 DEF ProjectUnderRun, Insert, ConsumerRaises, StageTruthful
  <2>4. ASSUME NEW p \in Processes, MarkDispatched(p) \/ MarkFailed(p)
        PROVE  Contract!Next \/ UNCHANGED <<promise, failures, projected>>
    <3>. DEFINE e == Current(p)
    <3>1. projected' = projected /\ e \in Events
          /\ (row' = row \/ Acknowledged(p, e) \/ Failed(p, e))
      BY <2>4, MarkSteps
    <3>2. CASE row' = row
      BY <3>1, <3>2 DEF promise, failures
    <3>3. CASE Acknowledged(p, e)
      <4>1. \A f \in Events : f # e => row'[f] = row[f]
        BY <2>0, <3>3 DEF Acknowledged
      <4>2. row[e].status = "PROCESSING" /\ e \in projected
        BY <3>3 DEF Acknowledged, Holds, MarkDispatched, StageTruthful
      <4>3. row'[e].status = "DISPATCHED" /\ row'[e].attempts = row[e].attempts
        BY <3>3 DEF Acknowledged
      <4>. HIDE DEF e
      <4>4. Contract!Dispatch(e)
        BY <3>1, <4>1, <4>2, <4>3 DEF Contract!Dispatch, promise, failures
      <4>. QED  BY <3>1, <4>4 DEF Contract!Next
    <3>4. CASE Failed(p, e)
      <4>1. \A f \in Events : f # e => row'[f] = row[f]
        BY <2>0, <3>4 DEF Failed
      <4>2. row[e].status = "PROCESSING" /\ row[e].attempts < MaxAttempts
        BY <3>1, <3>4 DEF Failed, Holds, AttemptsLeft
      <4>3. /\ row'[e].attempts = row[e].attempts + 1
            /\ row'[e].status = IF row[e].attempts + 1 >= MaxAttempts THEN "DEAD_LETTER" ELSE "PENDING"
            /\ row[e].attempts \in Nat
        BY <2>0, <3>1, <3>4 DEF Failed, GivesUp, RowType
      <4>. HIDE DEF e
      <4>4. row[e].attempts + 1 >= MaxAttempts <=> row[e].attempts + 1 = MaxAttempts
        BY <2>0, <4>2, <4>3
      <4>5. /\ failures' = [failures EXCEPT ![e] = @ + 1]
            /\ failures'[e] = row[e].attempts + 1
        BY <3>1, <4>1, <4>3 DEF failures
      <4>6. promise' = [promise EXCEPT ![e] = IF failures'[e] = MaxAttempts THEN "DEAD_LETTER" ELSE @]
        BY <3>1, <4>1, <4>2, <4>3, <4>4, <4>5 DEF promise
      <4>7. promise[e] = "OWED" /\ failures[e] < MaxAttempts
        BY <3>1, <4>2 DEF promise, failures
      <4>. QED  BY <3>1, <4>5, <4>6, <4>7 DEF Contract!Next, Contract!Fail
    <3>. QED  BY <3>1, <3>2, <3>3, <3>4
  <2>. QED  BY <2>1, <2>2, <2>3, <2>4, QuietSteps DEF Next, Dispatch
<1>. QED  BY Inductive, <1>1, <1>2, PTL DEF Spec, ImplementsContract, Contract!Spec
=============================================================================
