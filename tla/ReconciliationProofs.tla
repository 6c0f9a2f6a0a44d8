------------------------ MODULE ReconciliationProofs ------------------------
(***************************************************************************)
(* Safety theorems of Reconciliation for any set of mutations and workers, *)
(* any batch size and any assignment of worker ids.                        *)
(*                                                                         *)
(* The argument: a claim draws a token above all earlier ones, so a worker *)
(* that still holds a case took it last, and what it read was read after   *)
(* that claim.  Effects only ever appear, so a record that was missing     *)
(* then was missing when the case was claimed (Evidence).                  *)
(***************************************************************************)
EXTENDS Reconciliation, SequenceTheorems, TLAPS

ClaimedCase == [mutation : Mutations, token : Nat \ {0}, attempts : Nat]
Claims == Seq(ClaimedCase)

\* Tokens in batches were drawn, and a live claim counted the attempts its case counts.
ClaimsKnown ==
  \A p \in Workers : \A i \in DOMAIN batch[p] :
    LET claim == batch[p][i] IN
    /\ claim.token <= issued
    /\ case[claim.mutation].claim_token = claim.token =>
         case[claim.mutation].attempts = claim.attempts

\* A mutation takes effect once, and what was seen or resolved as committed is so.
EffectsTrue ==
  \A o \in Mutations :
    /\ effects[o] \in {0, 1}
    /\ sighted[o] => Committed(o)
    /\ case[o].status = "RESOLVED_COMMITTED" => Committed(o)

\* What a worker has read of its current case: a record that was found exists, and one
\* that was not found had not been there when a claim that still holds was made.
Evidence ==
  \A p \in Workers : Working(p) =>
    /\ stage[p] \in {"RECORD", "COMMITTED", "INCONSISTENT"} => Committed(Current(p))
    /\ stage[p] \in {"NO_RECORD", "NOT_COMMITTED"} /\ Holds(p) => ~sighted[Current(p)]

RInv == TypeOK /\ ClaimsKnown /\ EffectsTrue /\ Evidence /\ VerdictFresh /\ ReviewedForCause

-----------------------------------------------------------------------------
(***************************************************************************)
(* Batches.                                                                *)
(***************************************************************************)
\* The current claim of a working worker.
LEMMA HeadClaim ==
  ASSUME TypeOK, NEW p \in Workers, Working(p)
  PROVE  /\ batch[p] \in Claims /\ Len(batch[p]) \in Nat \ {0}
         /\ DOMAIN batch[p] = 1..Len(batch[p])
         /\ Head(batch[p]) = batch[p][1] /\ 1 \in DOMAIN batch[p]
         /\ Current(p) \in Mutations /\ Token(p) \in Nat \ {0}
         /\ Head(batch[p]).attempts \in Nat
<1>1. batch[p] \in Claims
  BY DEF TypeOK, Claims, ClaimedCase
<1>2. Len(batch[p]) \in Nat \ {0} /\ DOMAIN batch[p] = 1..Len(batch[p])
  BY <1>1, EmptySeq, LenProperties DEF Claims, Working
<1>3. Head(batch[p]) = batch[p][1] /\ 1 \in DOMAIN batch[p]
  BY <1>1, <1>2 DEF Claims
<1>4. batch[p][1] \in ClaimedCase
  BY <1>1, <1>2, ElementOfSeq DEF Claims
<1>. QED  BY <1>1, <1>2, <1>3, <1>4 DEF Current, Token, ClaimedCase

\* Any claim a worker carries.
LEMMA AnyClaim ==
  ASSUME TypeOK, NEW p \in Workers, NEW i \in DOMAIN batch[p]
  PROVE  batch[p][i] \in ClaimedCase
<1>1. batch[p] \in Claims
  BY DEF TypeOK, Claims, ClaimedCase
<1>. QED  BY <1>1, LenProperties, ElementOfSeq DEF Claims

\* No worker takes on a claim it did not have.
OnlyOldClaims ==
  /\ batch' \in [Workers -> Claims]
  /\ \A q \in Workers : \A i \in DOMAIN batch'[q] :
       \E j \in DOMAIN batch[q] : batch'[q][i] = batch[q][j]

\* Finishing the current claim.
LEMMA GoOnClaims ==
  ASSUME TypeOK, NEW p \in Workers, Working(p), GoOn(p)
  PROVE  OnlyOldClaims
<1>1. batch[p] \in Claims /\ batch[p] # <<>> /\ Len(batch[p]) \in Nat \ {0}
  BY HeadClaim DEF Working
<1>2. /\ Tail(batch[p]) \in Claims /\ Len(Tail(batch[p])) = Len(batch[p]) - 1
      /\ \A i \in 1..Len(Tail(batch[p])) : Tail(batch[p])[i] = batch[p][i + 1]
  BY <1>1, HeadTailProperties DEF Claims
<1>3. DOMAIN Tail(batch[p]) = 1..Len(Tail(batch[p])) /\ DOMAIN batch[p] = 1..Len(batch[p])
  BY <1>1, <1>2, LenProperties DEF Claims
<1>4. \A i \in DOMAIN Tail(batch[p]) :
        i + 1 \in DOMAIN batch[p] /\ Tail(batch[p])[i] = batch[p][i + 1]
  BY <1>1, <1>2, <1>3
<1>5. batch \in [Workers -> Claims] /\ batch' = [batch EXCEPT ![p] = Tail(batch[p])]
  BY DEF TypeOK, Claims, ClaimedCase, GoOn
<1>. QED  BY <1>2, <1>4, <1>5 DEF OnlyOldClaims

\* Dropping all claims, and keeping them.
LEMMA ExitClaims ==
  ASSUME TypeOK, NEW p \in Workers, Exit(p)
  PROVE  OnlyOldClaims
<1>1. <<>> \in Claims /\ DOMAIN <<>> = {}
  BY DEF Claims
<1>2. batch \in [Workers -> Claims]
  BY DEF TypeOK, Claims, ClaimedCase
<1>. QED  BY <1>1, <1>2 DEF OnlyOldClaims, Exit

LEMMA SameClaims ==
  ASSUME TypeOK, UNCHANGED batch
  PROVE  OnlyOldClaims
  BY DEF OnlyOldClaims, TypeOK, Claims, ClaimedCase

\* What a claim of the cases in `order` writes, for one of them and altogether.
TookOne(p, order, i) ==
  /\ order[i] \in Mutations /\ Eligible(order[i])
  /\ case'[order[i]] = [status |-> "PROCESSING", claimed_by |-> WorkerId[p],
                        claim_token |-> issued + i,
                        attempts |-> case[order[i]].attempts + 1, elapsed |-> FALSE]
  /\ batch'[p][i] = [mutation |-> order[i], token |-> issued + i,
                     attempts |-> case[order[i]].attempts + 1]
  /\ i \in Nat \ {0} /\ issued + i <= issued'

Took(p, order) ==
  /\ order \in Orders
  /\ \A o \in Mutations : (\A i \in DOMAIN order : order[i] # o) => case'[o] = case[o]
  /\ \A i \in DOMAIN order : TookOne(p, order, i)
  /\ DOMAIN case' = Mutations /\ case' = [o \in Mutations |-> case'[o]]
  /\ batch' \in [Workers -> Claims] /\ DOMAIN batch'[p] = DOMAIN order
  /\ \A q \in Workers \ {p} : batch'[q] = batch[q]
  /\ issued' \in Nat /\ issued <= issued'
  /\ \A o \in Mutations :
       sighted'[o] = IF \E i \in DOMAIN order : order[i] = o THEN Committed(o) ELSE sighted[o]
  /\ sighted' = [o \in Mutations |-> sighted'[o]]
  /\ stage' = [stage EXCEPT ![p] = "CLAIMED"] /\ UNCHANGED <<world, trouble>>

LEMMA ClaimWrites ==
  ASSUME TypeOK, NEW p \in Workers, Claim(p)
  PROVE  \E order \in Orders : Took(p, order)
<1>. DEFINE at(order, o) == CHOOSE i \in DOMAIN order : order[i] = o
            taken(order) == {order[i] : i \in DOMAIN order}
            new(order) == [i \in DOMAIN order |-> [mutation |-> order[i], token |-> issued + i,
                                                   attempts |-> case[order[i]].attempts + 1]]
<1>1. PICK order \in Orders :
        /\ case' = [o \in Mutations |->
             IF o \in taken(order)
             THEN [status |-> "PROCESSING", claimed_by |-> WorkerId[p],
                   claim_token |-> issued + at(order, o), attempts |-> case[o].attempts + 1,
                   elapsed |-> FALSE]
             ELSE case[o]]
        /\ batch' = [batch EXCEPT ![p] = new(order)]
        /\ sighted' = [o \in Mutations |-> IF o \in taken(order) THEN Committed(o) ELSE sighted[o]]
        /\ issued' = issued + Len(order)
  BY DEF Claim
<1>2. PICK n \in 1..BatchSize : order \in [1..n -> Mutations]
  BY DEF Orders
<1>3. n \in Nat \ {0} /\ DOMAIN order = 1..n /\ Len(order) = n
  BY <1>2, LimitAssumption
<1>4. /\ \A i \in DOMAIN order : Eligible(order[i]) /\ order[i] \in Mutations
      /\ \A i, j \in DOMAIN order : order[i] = order[j] => i = j
  BY <1>2 DEF Orders
<1>5. \A i \in DOMAIN order : at(order, order[i]) = i
  BY <1>4
<1>6. issued \in Nat /\ batch \in [Workers -> Claims]
      /\ \A o \in Mutations : case[o].attempts \in Nat
  BY DEF TypeOK, Claims, ClaimedCase
<1>7. new(order) \in Claims
  <2>1. ASSUME NEW i \in 1..n
        PROVE  [mutation |-> order[i], token |-> issued + i,
                attempts |-> case[order[i]].attempts + 1] \in ClaimedCase
    <3>1. order[i] \in Mutations /\ issued + i \in Nat \ {0}
      BY <1>2, <1>3, <1>6
    <3>2. case[order[i]].attempts + 1 \in Nat
      BY <1>6, <3>1
    <3>. QED  BY <3>1, <3>2 DEF ClaimedCase
  <2>2. new(order) \in [1..n -> ClaimedCase]
    BY <1>3, <2>1
  <2>. QED  BY <1>3, <2>2 DEF Claims
<1>. HIDE DEF at
<1>8. \A i \in DOMAIN order : i \in Nat \ {0} /\ issued + i <= issued'
  BY <1>1, <1>3, <1>6
<1>9. \A i \in DOMAIN order :
        case'[order[i]] = [status |-> "PROCESSING", claimed_by |-> WorkerId[p],
                           claim_token |-> issued + i,
                           attempts |-> case[order[i]].attempts + 1, elapsed |-> FALSE]
  BY <1>1, <1>4, <1>5
<1>10. batch'[p] = new(order) /\ batch' \in [Workers -> Claims]
       /\ \A q \in Workers \ {p} : batch'[q] = batch[q]
  BY <1>1, <1>6, <1>7
<1>11. issued' \in Nat /\ issued <= issued'
  BY <1>1, <1>3, <1>6
<1>12. stage' = [stage EXCEPT ![p] = "CLAIMED"] /\ UNCHANGED <<world, trouble>>
  BY DEF Claim
<1>13. /\ \A o \in Mutations : (\A i \in DOMAIN order : order[i] # o) => case'[o] = case[o]
       /\ \A o \in Mutations :
            sighted'[o] = IF \E i \in DOMAIN order : order[i] = o THEN Committed(o) ELSE sighted[o]
       /\ DOMAIN case' = Mutations /\ case' = [o \in Mutations |-> case'[o]]
       /\ sighted' = [o \in Mutations |-> sighted'[o]]
  BY <1>1
<1>14. \A i \in DOMAIN order : TookOne(p, order, i)
  BY <1>4, <1>8, <1>9, <1>10 DEF TookOne
<1>. QED  BY <1>10, <1>11, <1>12, <1>13, <1>14 DEF Took

-----------------------------------------------------------------------------
(***************************************************************************)
(* Cases.                                                                  *)
(***************************************************************************)
CaseType ==
  [status : {"ABSENT", "PENDING", "PROCESSING"} \cup Settled,
   claimed_by : {WorkerId[p] : p \in Workers} \cup {None},
   claim_token : Nat, attempts : Nat, elapsed : BOOLEAN]

\* A case of the declared columns that carries a claim exactly while PROCESSING.
CaseSound(c) ==
  /\ c \in CaseType
  /\ (c.status = "PROCESSING") <=> (c.claimed_by # None)
  /\ (c.status = "PROCESSING") <=> (c.claim_token # 0)

CasesSound == case \in [Mutations -> CaseType] /\ \A o \in Mutations : CaseSound(case[o])

OwnerType == {"READY", "AWAITING", "BLOCKED", "DONE", "REFUSED", "REVIEW"}
StageType == {"CLAIMED", "AUTHORIZED", "RECORD", "NO_RECORD", "COMMITTED", "NOT_COMMITTED",
              "INCONSISTENT", "FAILED"}

\* The owner's and the server's side.
WorldSound ==
  /\ sends \in [Mutations -> Nat] /\ flying \in [Mutations -> SUBSET Nat]
  /\ effects \in [Mutations -> Nat]
  /\ moved \in [Mutations -> BOOLEAN] /\ permitted \in [Mutations -> BOOLEAN]
  /\ owner \in [Mutations -> OwnerType]

\* The workers' side, the cases apart.
WorkSound ==
  /\ batch \in [Workers -> Claims] /\ stage \in [Workers -> StageType]
  /\ issued \in Nat /\ sighted \in [Mutations -> BOOLEAN]

\* The parts TypeOK is proved by.
LEMMA TypeParts ==
  TypeOK <=> CasesSound /\ WorldSound /\ WorkSound /\ trouble \in 0..MaxTrouble
<1>1. case \in [Mutations -> CaseType] => \A o \in Mutations : case[o] \in CaseType
  OBVIOUS
<1>. QED  BY <1>1 DEF TypeOK, CasesSound, CaseSound, CaseType, WorldSound, WorkSound, Claims,
                      ClaimedCase, StageType, OwnerType

LEMMA NextTypeParts ==
  ASSUME CasesSound', WorldSound', WorkSound', trouble' \in 0..MaxTrouble
  PROVE  TypeOK'
<1>1. case' \in [Mutations -> CaseType] /\ \A o \in Mutations : CaseSound(case'[o])
  BY DEF CasesSound, CaseSound
<1>. QED  BY <1>1 DEF TypeOK, CaseSound, CaseType, WorldSound, WorkSound, Claims, ClaimedCase,
                      StageType, OwnerType

\* Changing one case.
LEMMA OneCase ==
  ASSUME CasesSound, NEW o \in Mutations, NEW c, CaseSound(c), case' = [case EXCEPT ![o] = c]
  PROVE  CasesSound'
  BY DEF CasesSound, CaseSound

\* Leaving them alone.
LEMMA SameCases ==
  ASSUME CasesSound, UNCHANGED case
  PROVE  CasesSound'
  BY DEF CasesSound, CaseSound

\* Letting a case's time pass.
LEMMA ElapsedCase ==
  ASSUME CasesSound, NEW o \in Mutations, case' = [case EXCEPT ![o].elapsed = TRUE]
  PROVE  CasesSound'
<1>1. case[o] \in CaseType /\ CaseSound(case[o])
  BY DEF CasesSound
<1>2. case' = [case EXCEPT ![o] = [case[o] EXCEPT !.elapsed = TRUE]]
  OBVIOUS
<1>3. CaseSound([case[o] EXCEPT !.elapsed = TRUE])
  BY <1>1 DEF CaseSound, CaseType
<1>. QED  BY <1>2, <1>3, OneCase

\* Opening one.
LEMMA OpenedCase ==
  ASSUME CasesSound, NEW o \in Mutations, CreateOrGet(o)
  PROVE  CasesSound'
<1>. DEFINE c == [NoCase EXCEPT !.status = "PENDING", !.elapsed = TRUE]
<1>1. CaseSound(c)
  BY DEF CaseSound, CaseType, NoCase
<1>2. case' = case \/ case' = [case EXCEPT ![o] = c]
  BY DEF CreateOrGet
<1>. HIDE DEF c
<1>. QED  BY <1>1, <1>2, OneCase, SameCases

\* Releasing one.
LEMMA ReleasedCase ==
  ASSUME CasesSound, NEW p \in Workers, Current(p) \in Mutations,
         NEW status \in {"PENDING"} \cup Settled, Release(p, status)
  PROVE  CasesSound'
<1>. DEFINE c == [status |-> status, claimed_by |-> None, claim_token |-> 0,
                  attempts |-> case[Current(p)].attempts, elapsed |-> FALSE]
<1>1. case[Current(p)].attempts \in Nat
  BY DEF CasesSound, CaseType
<1>2. CaseSound(c)
  BY <1>1 DEF CaseSound, CaseType, Settled
<1>3. case' = [case EXCEPT ![Current(p)] = c]
  BY DEF Release
<1>. HIDE DEF c
<1>. QED  BY <1>2, <1>3, OneCase

\* Claiming some.
LEMMA ClaimedCases ==
  ASSUME TypeOK, NEW p \in Workers, NEW order, Took(p, order)
  PROVE  CasesSound'
<1>0. CasesSound /\ issued \in Nat /\ WorkerId[p] # None
  BY TypeParts, WorkerAssumption DEF WorkSound
<1>1. ASSUME NEW o \in Mutations
      PROVE  CaseSound(case'[o])
  <2>1. CASE \A i \in DOMAIN order : order[i] # o
    BY <1>0, <2>1 DEF Took, CasesSound
  <2>2. CASE \E i \in DOMAIN order : order[i] = o
    <3>1. PICK i \in DOMAIN order : order[i] = o
      BY <2>2
    <3>0. TookOne(p, order, i)
      BY <3>1 DEF Took
    <3>a. i \in Nat \ {0}
      BY <3>0 DEF TookOne
    <3>b. case[o].attempts \in Nat
      BY <1>0 DEF CasesSound, CaseType
    <3>2. issued + i \in Nat \ {0} /\ case[o].attempts + 1 \in Nat
      BY <1>0, <3>a, <3>b
    <3>3. case'[o] = [status |-> "PROCESSING", claimed_by |-> WorkerId[p],
                      claim_token |-> issued + i, attempts |-> case[o].attempts + 1,
                      elapsed |-> FALSE]
      BY <3>0, <3>1 DEF TookOne
    <3>. QED  BY <1>0, <3>2, <3>3 DEF CaseSound, CaseType
  <2>. QED  BY <2>1, <2>2
<1>2. case' = [o \in Mutations |-> case'[o]]
  BY DEF Took
<1>. QED  BY <1>1, <1>2 DEF CasesSound, CaseSound

-----------------------------------------------------------------------------
(***************************************************************************)
(* Steps.                                                                  *)
(***************************************************************************)
\* The owner, the server and other commands act; the cases and workers do not.
WorldStep(o) ==
  \/ Dispatch(o) \/ \E a \in flying[o] : Commit(o, a) \/ Fail(o, a)
  \/ Refresh(o) \/ MoveOn(o) \/ Revoke(o) \/ Restore(o)

\* A case is opened, or its time passes.
CaseStep(o) == RecordUnknown(o) \/ ForgetUnknown(o) \/ Recheck(o) \/ Elapse(o) \/ Overrun(o)

\* A worker reads evidence or fails to.
ReadStep(p) == Authorize(p) \/ ReadRecord(p) \/ ReadOutbox(p) \/ ReadEntity(p) \/ QueryFails(p)

\* A worker is done with its claim, or with all of them.
EndStep(p) == Resolve(p) \/ RetryOrGiveUp(p) \/ Crash(p)

LEMMA NextSteps ==
  Next <=> \/ \E o \in Mutations : WorldStep(o) \/ CaseStep(o)
           \/ \E p \in Workers : Claim(p) \/ ReadStep(p) \/ EndStep(p)
  BY DEF Next, RunOnce, WorldStep, CaseStep, ReadStep, EndStep

\* The owner's steps keep the world's types and leave cases and workers alone.
LEMMA WorldTypes ==
  ASSUME TypeOK, NEW o \in Mutations, WorldStep(o)
  PROVE  WorldSound' /\ UNCHANGED work /\ trouble' \in 0..MaxTrouble
<1>0. WorldSound /\ trouble \in 0..MaxTrouble /\ MaxTrouble \in Nat
  BY TypeParts, LimitAssumption
<1>1. CASE Dispatch(o)
  <2>1. sends[o] + 1 \in Nat
    BY <1>0 DEF WorldSound
  <2>. QED  BY <1>0, <1>1, <2>1 DEF Dispatch, WorldSound, OwnerType
<1>2. ASSUME NEW a \in flying[o], NEW answer \in {"DONE", "REFUSED"}, Finish(o, a, answer)
      PROVE  flying' \in [Mutations -> SUBSET Nat] /\ owner' \in [Mutations -> OwnerType]
  BY <1>0, <1>2 DEF Finish, WorldSound, OwnerType
<1>3. ASSUME NEW a \in flying[o], Commit(o, a)
      PROVE  WorldSound' /\ UNCHANGED <<work, trouble>>
  <2>1. effects' \in [Mutations -> Nat]
    BY <1>0, <1>3 DEF Commit, WorldSound
  <2>. QED  BY <1>0, <1>2, <1>3, <2>1 DEF Commit, WorldSound
<1>4. ASSUME NEW a \in flying[o], Fail(o, a)
      PROVE  WorldSound' /\ UNCHANGED <<work, trouble>>
  BY <1>0, <1>2, <1>4 DEF Fail, WorldSound
<1>5. CASE Refresh(o)
  <2>1. PICK next \in OwnerType : owner' = [owner EXCEPT ![o] = next]
    <3>1. PICK next \in CASE case[o].status = "RESOLVED_COMMITTED" ->
                               IF moved[o] THEN {"DONE", "REVIEW"} ELSE {"DONE"}
                          [] case[o].status = "RESOLVED_NOT_COMMITTED" -> {"READY"}
                          [] OTHER -> {"REVIEW"} : owner' = [owner EXCEPT ![o] = next]
      BY <1>5 DEF Refresh
    <3>2. next \in OwnerType
      BY <3>1 DEF OwnerType
    <3>. QED  BY <3>1, <3>2
  <2>. QED  BY <1>0, <1>5, <2>1 DEF Refresh, WorldSound
<1>6. CASE MoveOn(o)
  BY <1>0, <1>6 DEF MoveOn, WorldSound
<1>7. CASE Revoke(o)
  BY <1>0, <1>7 DEF Revoke, Suffer, WorldSound
<1>8. CASE Restore(o)
  BY <1>0, <1>8 DEF Restore, WorldSound
<1>. QED  BY <1>0, <1>1, <1>3, <1>4, <1>5, <1>6, <1>7, <1>8 DEF WorldStep

\* The types hold throughout.
LEMMA TypeStep ==
  ASSUME TypeOK, [Next]_vars
  PROVE  TypeOK'
<1>0. /\ CasesSound /\ WorldSound /\ WorkSound
      /\ trouble \in 0..MaxTrouble /\ MaxTrouble \in Nat
  BY TypeParts, LimitAssumption
<1>1. ASSUME NEW o \in Mutations, WorldStep(o)
      PROVE  TypeOK'
  <2>1. WorldSound' /\ UNCHANGED work /\ trouble' \in 0..MaxTrouble
    BY <1>1, WorldTypes
  <2>2. CasesSound' /\ WorkSound'
    BY <1>0, <2>1, SameCases DEF work, WorkSound
  <2>. QED  BY <2>1, <2>2, NextTypeParts
<1>2. ASSUME NEW o \in Mutations, CaseStep(o)
      PROVE  TypeOK'
  <2>1. CasesSound'
    BY <1>0, <1>2, OpenedCase, ElapsedCase, SameCases
    DEF CaseStep, RecordUnknown, ForgetUnknown, Recheck, Elapse, Overrun
  <2>2. WorldSound' /\ trouble' \in 0..MaxTrouble
    BY <1>0, <1>2 DEF CaseStep, RecordUnknown, ForgetUnknown, Recheck, Elapse, Overrun, world,
                      WorldSound, OwnerType, Suffer
  <2>3. WorkSound'
    BY <1>0, <1>2 DEF CaseStep, RecordUnknown, ForgetUnknown, Recheck, Elapse, Overrun, WorkSound
  <2>. QED  BY <2>1, <2>2, <2>3, NextTypeParts
<1>3. ASSUME NEW p \in Workers, Claim(p)
      PROVE  TypeOK'
  <2>1. PICK order \in Orders : Took(p, order)
    BY <1>3, ClaimWrites
  <2>2. CasesSound'
    BY <2>1, ClaimedCases
  <2>3. WorldSound' /\ trouble' \in 0..MaxTrouble
    BY <1>0, <2>1 DEF Took, world, WorldSound
  <2>4. \A o \in Mutations : sighted'[o] \in BOOLEAN
    <3>1. \A o \in Mutations : Committed(o) \in BOOLEAN /\ sighted[o] \in BOOLEAN
      BY <1>0 DEF Committed, WorkSound
    <3>2. \A o \in Mutations : sighted'[o] = Committed(o) \/ sighted'[o] = sighted[o]
      BY <2>1 DEF Took
    <3>. QED  BY <3>1, <3>2
  <2>5. WorkSound'
    BY <1>0, <2>1, <2>4 DEF Took, WorkSound, StageType
  <2>. QED  BY <2>2, <2>3, <2>5, NextTypeParts
<1>4. ASSUME NEW p \in Workers, ReadStep(p)
      PROVE  TypeOK'
  <2>1. UNCHANGED <<world, case, batch, issued, sighted>> /\ trouble' \in 0..MaxTrouble
    BY <1>0, <1>4 DEF ReadStep, Authorize, ReadRecord, ReadOutbox, ReadEntity, QueryFails,
                      Advance, Suffer
  <2>2. stage' \in [Workers -> StageType]
    BY <1>0, <1>4 DEF ReadStep, Authorize, ReadRecord, ReadOutbox, ReadEntity, QueryFails,
                      Advance, WorkSound, StageType
  <2>3. CasesSound' /\ WorldSound' /\ WorkSound'
    BY <1>0, <2>1, <2>2, SameCases DEF world, WorldSound, WorkSound
  <2>. QED  BY <2>1, <2>3, NextTypeParts
<1>5. ASSUME NEW p \in Workers, EndStep(p)
      PROVE  TypeOK'
  <2>1. Working(p) /\ (GoOn(p) \/ Exit(p)) /\ Current(p) \in Mutations
    BY <1>5, HeadClaim DEF EndStep, Resolve, RetryOrGiveUp, Crash, Conclude
  <2>2. UNCHANGED <<world, issued, sighted>> /\ trouble' \in 0..MaxTrouble
    BY <1>0, <1>5 DEF EndStep, Resolve, RetryOrGiveUp, Crash, Conclude, Suffer
  <2>3. CasesSound'
    <3>1. CASE case' = case
      BY <1>0, <3>1, SameCases
    <3>2. ASSUME NEW status \in {"PENDING"} \cup Settled, Conclude(p, status)
          PROVE  CasesSound'
      BY <1>0, <2>1, <3>1, <3>2, ReleasedCase DEF Conclude
    <3>3. Verdict(p) \in {"PENDING"} \cup Settled
      BY DEF Verdict, Settled
    <3>. QED  BY <1>5, <3>1, <3>2, <3>3 DEF EndStep, Resolve, RetryOrGiveUp, Crash, Settled
  <2>4. batch' \in [Workers -> Claims] /\ stage' \in [Workers -> StageType]
    BY <1>0, <2>1, GoOnClaims, ExitClaims
    DEF OnlyOldClaims, GoOn, Exit, WorkSound, StageType
  <2>5. WorldSound' /\ WorkSound'
    BY <1>0, <2>2, <2>4 DEF world, WorldSound, WorkSound
  <2>. QED  BY <2>2, <2>3, <2>5, NextTypeParts
<1>6. CASE UNCHANGED vars
  BY <1>0, <1>6, SameCases, NextTypeParts DEF vars, WorldSound, WorkSound
<1>. QED  BY <1>1, <1>2, <1>3, <1>4, <1>5, <1>6, NextSteps

-----------------------------------------------------------------------------
(***************************************************************************)
(* How a step changes a case.                                              *)
(***************************************************************************)
\* The case keeps all but its timer, and what was seen when it was last claimed.
Kept(o) ==
  /\ case'[o].status = case[o].status /\ case'[o].claimed_by = case[o].claimed_by
  /\ case'[o].claim_token = case[o].claim_token /\ case'[o].attempts = case[o].attempts
  /\ sighted'[o] = sighted[o]

Opened(o) ==
  /\ case[o].status = "ABSENT" /\ case'[o].status = "PENDING" /\ case'[o].claim_token = 0
  /\ sighted'[o] = sighted[o]

\* A worker claims it under a token above all earlier ones.
Taken(o) ==
  /\ case[o].status \in {"PENDING", "PROCESSING"} /\ case'[o].status = "PROCESSING"
  /\ case'[o].claim_token > issued
  /\ effects'[o] = effects[o] /\ sighted'[o] = Committed(o)

\* The worker that holds it settles it or gives it back.
Released(p, o) ==
  /\ Working(p) /\ Holds(p) /\ Current(p) = o
  /\ case'[o].claim_token = 0 /\ case'[o].attempts = case[o].attempts
  /\ effects'[o] = effects[o] /\ sighted'[o] = sighted[o]
  /\ \/ /\ stage[p] \in {"COMMITTED", "NOT_COMMITTED", "INCONSISTENT"}
        /\ case'[o].status = Verdict(p)
     \/ /\ stage[p] = "FAILED"
        /\ case'[o].status = IF GivesUp(Head(batch[p]).attempts) THEN "MANUAL_REVIEW" ELSE "PENDING"

LEMMA CaseMoves ==
  ASSUME TypeOK, [Next]_vars, NEW o \in Mutations
  PROVE  Kept(o) \/ Opened(o) \/ Taken(o) \/ \E p \in Workers : Released(p, o)
<1>0. case \in [Mutations -> CaseType] /\ issued \in Nat
  BY TypeParts DEF CasesSound, WorkSound
<1>1. ASSUME NEW u \in Mutations, WorldStep(u)
      PROVE  Kept(o)
  BY <1>1, WorldTypes DEF work, Kept
<1>2. ASSUME NEW u \in Mutations, CaseStep(u)
      PROVE  Kept(o) \/ Opened(o)
  <2>1. sighted' = sighted
    BY <1>2 DEF CaseStep, RecordUnknown, ForgetUnknown, Recheck, Elapse, Overrun
  <2>2. CASE case' = case
    BY <2>1, <2>2 DEF Kept
  <2>3. CASE case' = [case EXCEPT ![u].elapsed = TRUE]
    BY <1>0, <2>1, <2>3 DEF Kept, CaseType
  <2>4. CASE CreateOrGet(u)
    BY <1>0, <2>1, <2>2, <2>4 DEF CreateOrGet, NoCase, Kept, Opened
  <2>. QED  BY <1>2, <2>2, <2>3, <2>4 DEF CaseStep, RecordUnknown, ForgetUnknown, Recheck,
                                          Elapse, Overrun
<1>3. ASSUME NEW p \in Workers, Claim(p)
      PROVE  Kept(o) \/ Taken(o)
  <2>1. PICK order \in Orders : Took(p, order)
    BY <1>3, ClaimWrites
  <2>2. CASE \A i \in DOMAIN order : order[i] # o
    BY <2>1, <2>2 DEF Took, Kept
  <2>3. CASE \E i \in DOMAIN order : order[i] = o
    <3>1. PICK i \in DOMAIN order : order[i] = o
      BY <2>3
    <3>a. TookOne(p, order, i)
      BY <2>1 DEF Took
    <3>2. i \in Nat \ {0} /\ case'[o].status = "PROCESSING" /\ case'[o].claim_token = issued + i
          /\ case[o].status \in {"PENDING", "PROCESSING"}
      BY <3>1, <3>a DEF TookOne, Eligible
    <3>3. case'[o].claim_token > issued
      BY <1>0, <3>2
    <3>4. effects' = effects /\ sighted'[o] = Committed(o)
      BY <2>1, <2>3 DEF Took, world
    <3>. QED  BY <3>2, <3>3, <3>4 DEF Taken
  <2>. QED  BY <2>2, <2>3
<1>4. ASSUME NEW p \in Workers, ReadStep(p)
      PROVE  Kept(o)
  BY <1>4 DEF ReadStep, Authorize, ReadRecord, ReadOutbox, ReadEntity, QueryFails, Advance, Kept
<1>5. ASSUME NEW p \in Workers, EndStep(p)
      PROVE  Kept(o) \/ Released(p, o)
  <2>1. Working(p) /\ Current(p) \in Mutations
    BY <1>5, HeadClaim DEF EndStep, Resolve, RetryOrGiveUp, Crash
  <2>2. UNCHANGED <<world, sighted>>
    BY <1>5 DEF EndStep, Resolve, RetryOrGiveUp, Crash, Conclude
  <2>3. CASE case' = case
    BY <2>2, <2>3 DEF Kept
  <2>4. ASSUME NEW status, Holds(p), Release(p, status)
        PROVE  \/ Kept(o)
               \/ /\ Current(p) = o /\ case'[o].claim_token = 0 /\ case'[o].status = status
                  /\ case'[o].attempts = case[o].attempts
    <3>1. CASE o = Current(p)
      BY <1>0, <2>1, <2>4, <3>1 DEF Release
    <3>2. CASE o # Current(p)
      BY <1>0, <2>1, <2>2, <2>4, <3>2 DEF Release, Kept
    <3>. QED  BY <3>1, <3>2
  <2>5. CASE Resolve(p)
    <3>1. stage[p] \in {"COMMITTED", "NOT_COMMITTED", "INCONSISTENT"} /\ Conclude(p, Verdict(p))
      BY <2>5 DEF Resolve
    <3>. QED  BY <2>1, <2>2, <2>3, <2>4, <3>1 DEF Conclude, Released, world
  <2>6. CASE RetryOrGiveUp(p)
    <3>1. /\ stage[p] = "FAILED"
          /\ Conclude(p, IF GivesUp(Head(batch[p]).attempts) THEN "MANUAL_REVIEW" ELSE "PENDING")
      BY <2>6 DEF RetryOrGiveUp
    <3>. QED  BY <2>1, <2>2, <2>3, <2>4, <3>1 DEF Conclude, Released, world
  <2>. QED  BY <1>5, <2>3, <2>5, <2>6 DEF EndStep, Crash
<1>6. CASE UNCHANGED vars
  BY <1>6 DEF vars, Kept
<1>. QED  BY <1>1, <1>2, <1>3, <1>4, <1>5, <1>6, NextSteps

\* Effects appear once and stay.
LEMMA EffectsGrow ==
  ASSUME TypeOK, [Next]_vars, NEW o \in Mutations
  PROVE  effects'[o] = effects[o] \/ (effects[o] = 0 /\ effects'[o] = 1)
<1>0. effects \in [Mutations -> Nat]
  BY DEF TypeOK
<1>1. ASSUME NEW u \in Mutations, NEW a \in flying[u], Commit(u, a)
      PROVE  effects'[o] = effects[o] \/ (effects[o] = 0 /\ effects'[o] = 1)
  BY <1>0, <1>1 DEF Commit, Committed
<1>2. CASE UNCHANGED effects
  BY <1>2
<1>3. ASSUME NEW p \in Workers, Claim(p) \/ ReadStep(p) \/ EndStep(p)
      PROVE  UNCHANGED effects
  BY <1>3 DEF Claim, ReadStep, Authorize, ReadRecord, ReadOutbox, ReadEntity, QueryFails, Advance,
              EndStep, Resolve, RetryOrGiveUp, Crash, Conclude, world
<1>4. ASSUME NEW u \in Mutations, Dispatch(u) \/ (\E a \in flying[u] : Fail(u, a)) \/ Refresh(u)
                                  \/ MoveOn(u) \/ Revoke(u) \/ Restore(u)
      PROVE  UNCHANGED effects
  BY <1>4 DEF Dispatch, Fail, Refresh, MoveOn, Revoke, Restore
<1>5. ASSUME NEW u \in Mutations, CaseStep(u)
      PROVE  UNCHANGED effects
  BY <1>5 DEF CaseStep, RecordUnknown, ForgetUnknown, Recheck, Elapse, Overrun, world
<1>6. CASE UNCHANGED vars
  BY <1>6 DEF vars
<1>. QED  BY <1>1, <1>2, <1>3, <1>4, <1>5, <1>6, NextSteps DEF WorldStep

\* Only a claim hands a worker claims it did not have.
LEMMA ClaimOrOld ==
  ASSUME TypeOK, [Next]_vars, ~\E p \in Workers : Claim(p)
  PROVE  OnlyOldClaims /\ issued' = issued
<1>1. ASSUME NEW p \in Workers, EndStep(p)
      PROVE  OnlyOldClaims /\ issued' = issued
  <2>1. Working(p) /\ (GoOn(p) \/ Exit(p)) /\ issued' = issued
    BY <1>1 DEF EndStep, Resolve, RetryOrGiveUp, Crash, Conclude
  <2>. QED  BY <2>1, GoOnClaims, ExitClaims
<1>2. ASSUME NEW p \in Workers, ReadStep(p)
      PROVE  UNCHANGED <<batch, issued>>
  BY <1>2 DEF ReadStep, Authorize, ReadRecord, ReadOutbox, ReadEntity, QueryFails, Advance
<1>3. ASSUME NEW o \in Mutations, CaseStep(o)
      PROVE  UNCHANGED <<batch, issued>>
  BY <1>3 DEF CaseStep, RecordUnknown, ForgetUnknown, Recheck, Elapse, Overrun
<1>4. ASSUME NEW o \in Mutations, WorldStep(o)
      PROVE  UNCHANGED <<batch, issued>>
  BY <1>4, WorldTypes DEF work
<1>5. UNCHANGED vars => UNCHANGED <<batch, issued>>
  BY DEF vars
<1>. QED  BY <1>1, <1>2, <1>3, <1>4, <1>5, SameClaims, NextSteps

-----------------------------------------------------------------------------
(***************************************************************************)
(* The parts of the invariant.                                             *)
(***************************************************************************)
\* A claim that still holds counts the attempts of its case.
LEMMA ClaimsStep ==
  ASSUME TypeOK, ClaimsKnown, [Next]_vars
  PROVE  ClaimsKnown'
<1>0. issued \in Nat
  BY TypeParts DEF WorkSound
<1>1. ASSUME NEW q \in Workers, NEW j \in DOMAIN batch[q],
             NEW claim, claim = batch[q][j]
      PROVE  /\ claim.token <= issued
             /\ case'[claim.mutation].claim_token = claim.token =>
                  case'[claim.mutation].attempts = claim.attempts
  <2>1. claim.mutation \in Mutations /\ claim.token \in Nat \ {0} /\ claim.token <= issued
    BY <1>1, AnyClaim DEF ClaimsKnown, ClaimedCase
  <2>2. case[claim.mutation].claim_token = claim.token =>
          case[claim.mutation].attempts = claim.attempts
    BY <1>1 DEF ClaimsKnown
  <2>. DEFINE o == claim.mutation
  <2>3. CASE Kept(o)
    BY <2>1, <2>2, <2>3 DEF Kept
  <2>4. CASE Opened(o) \/ \E p \in Workers : Released(p, o)
    BY <2>1, <2>4 DEF Opened, Released
  <2>5. CASE Taken(o)
    <3>1. case'[o].claim_token # claim.token
      BY <1>0, <2>1, <2>5 DEF Taken
    <3>. QED  BY <2>1, <3>1
  <2>. QED  BY <2>1, <2>3, <2>4, <2>5, CaseMoves
<1>2. ASSUME ~\E p \in Workers : Claim(p)
      PROVE  ClaimsKnown'
  <2>. SUFFICES ASSUME NEW q \in Workers, NEW i \in DOMAIN batch'[q]
                PROVE  /\ batch'[q][i].token <= issued'
                       /\ case'[batch'[q][i].mutation].claim_token = batch'[q][i].token =>
                            case'[batch'[q][i].mutation].attempts = batch'[q][i].attempts
    BY DEF ClaimsKnown
  <2>1. PICK j \in DOMAIN batch[q] : batch'[q][i] = batch[q][j]
    BY <1>2, ClaimOrOld DEF OnlyOldClaims
  <2>. QED  BY <1>1, <1>2, <2>1, ClaimOrOld
<1>3. ASSUME NEW p \in Workers, Claim(p)
      PROVE  ClaimsKnown'
  <2>1. PICK order \in Orders : Took(p, order)
    BY <1>3, ClaimWrites
  <2>2. issued' \in Nat /\ issued <= issued'
    BY <2>1 DEF Took
  <2>. SUFFICES ASSUME NEW q \in Workers, NEW i \in DOMAIN batch'[q]
                PROVE  /\ batch'[q][i].token <= issued'
                       /\ case'[batch'[q][i].mutation].claim_token = batch'[q][i].token =>
                            case'[batch'[q][i].mutation].attempts = batch'[q][i].attempts
    BY DEF ClaimsKnown
  <2>3. CASE q = p
    <3>1. i \in DOMAIN order
      BY <2>1, <2>3 DEF Took
    <3>2. /\ batch'[p][i] = [mutation |-> order[i], token |-> issued + i,
                             attempts |-> case[order[i]].attempts + 1]
          /\ case'[order[i]].attempts = case[order[i]].attempts + 1
          /\ issued + i <= issued'
      <4>1. TookOne(p, order, i)
        BY <2>1, <3>1 DEF Took
      <4>. QED  BY <4>1 DEF TookOne
    <3>. QED  BY <2>3, <3>2
  <2>4. CASE q # p
    <3>1. batch'[q] = batch[q]
      BY <2>1, <2>4 DEF Took
    <3>2. batch[q][i].token \in Nat
      BY <3>1, AnyClaim DEF ClaimedCase
    <3>3. batch[q][i].token <= issued
      BY <1>1, <3>1
    <3>4. batch[q][i].token <= issued'
      BY <1>0, <2>2, <3>2, <3>3
    <3>. QED  BY <1>1, <3>1, <3>4
  <2>. QED  BY <2>3, <2>4
<1>. QED  BY <1>2, <1>3

\* The current claim of a worker that still holds its case.
LEMMA HeldClaim ==
  ASSUME TypeOK, ClaimsKnown, NEW p \in Workers, Working(p)
  PROVE  /\ Token(p) <= issued
         /\ Holds(p) => case[Current(p)].attempts = Head(batch[p]).attempts
<1>1. Head(batch[p]) = batch[p][1] /\ 1 \in DOMAIN batch[p]
  BY HeadClaim
<1>2. /\ batch[p][1].token <= issued
      /\ case[batch[p][1].mutation].claim_token = batch[p][1].token =>
           case[batch[p][1].mutation].attempts = batch[p][1].attempts
  BY <1>1 DEF ClaimsKnown
<1>. QED  BY <1>1, <1>2 DEF Token, Current, Holds

\* What was committed stays committed, so nothing said of it is taken back.
LEMMA EffectsStep ==
  ASSUME RInv, [Next]_vars
  PROVE  EffectsTrue'
<1>. USE DEF RInv
<1>. SUFFICES ASSUME NEW o \in Mutations
              PROVE  /\ effects'[o] \in {0, 1}
                     /\ sighted'[o] => Committed(o)'
                     /\ case'[o].status = "RESOLVED_COMMITTED" => Committed(o)'
  BY DEF EffectsTrue, Committed
<1>1. effects'[o] \in {0, 1} /\ (Committed(o) => Committed(o)')
  BY EffectsGrow DEF EffectsTrue, Committed
<1>2. CASE Kept(o)
  BY <1>1, <1>2 DEF Kept, EffectsTrue
<1>3. CASE Opened(o) \/ Taken(o)
  BY <1>1, <1>3 DEF Opened, Taken, EffectsTrue
<1>4. ASSUME NEW p \in Workers, Released(p, o)
      PROVE  /\ sighted'[o] => Committed(o)'
             /\ case'[o].status = "RESOLVED_COMMITTED" => Committed(o)'
  <2>1. sighted'[o] => Committed(o)'
    BY <1>1, <1>4 DEF Released, EffectsTrue
  <2>2. case'[o].status = "RESOLVED_COMMITTED" => stage[p] = "COMMITTED"
    BY <1>4 DEF Released, Verdict
  <2>3. stage[p] = "COMMITTED" => Committed(o)
    BY <1>4 DEF Released, Evidence
  <2>. QED  BY <1>1, <2>1, <2>2, <2>3
<1>. QED  BY <1>1, <1>2, <1>3, <1>4, CaseMoves

\* A verdict is the holder's, and its evidence is younger than the claim.
LEMMA VerdictStep ==
  ASSUME RInv, [Next]_vars
  PROVE  VerdictFresh' /\ ReviewedForCause'
<1>. USE DEF RInv
<1>. SUFFICES ASSUME NEW o \in Mutations
              PROVE  /\ case'[o].status = "RESOLVED_NOT_COMMITTED" => ~sighted'[o]
                     /\ case'[o].status = "MANUAL_REVIEW" =>
                          Committed(o)' \/ case'[o].attempts >= MaxAttempts
  BY DEF VerdictFresh, ReviewedForCause, Committed
<1>1. Committed(o) => Committed(o)'
  BY EffectsGrow DEF Committed
<1>2. CASE Kept(o)
  BY <1>1, <1>2 DEF Kept, VerdictFresh, ReviewedForCause
<1>3. CASE Opened(o) \/ Taken(o)
  BY <1>3 DEF Opened, Taken
<1>4. ASSUME NEW p \in Workers, Released(p, o)
      PROVE  /\ case'[o].status = "RESOLVED_NOT_COMMITTED" => ~sighted'[o]
             /\ case'[o].status = "MANUAL_REVIEW" =>
                  Committed(o)' \/ case'[o].attempts >= MaxAttempts
  <2>1. /\ Working(p) /\ Holds(p) /\ Current(p) = o /\ sighted'[o] = sighted[o]
        /\ case'[o].attempts = case[o].attempts
    BY <1>4 DEF Released
  <2>2. case[o].attempts = Head(batch[p]).attempts
    BY <2>1, HeldClaim
  <2>3. CASE stage[p] \in {"COMMITTED", "NOT_COMMITTED", "INCONSISTENT"}
             /\ case'[o].status = Verdict(p)
    <3>1. case'[o].status = "RESOLVED_NOT_COMMITTED" => stage[p] = "NOT_COMMITTED"
      BY <2>3 DEF Verdict
    <3>2. case'[o].status = "MANUAL_REVIEW" => stage[p] = "INCONSISTENT"
      BY <2>3 DEF Verdict
    <3>. QED  BY <1>1, <2>1, <3>1, <3>2 DEF Evidence
  <2>4. CASE case'[o].status = IF GivesUp(Head(batch[p]).attempts) THEN "MANUAL_REVIEW" ELSE "PENDING"
    BY <2>1, <2>2, <2>4 DEF GivesUp
  <2>. QED  BY <1>4, <2>3, <2>4 DEF Released
<1>. QED  BY <1>2, <1>3, <1>4, CaseMoves

\* What a worker has read stays so for as long as its claim holds.
LEMMA EvidenceStep ==
  ASSUME RInv, [Next]_vars
  PROVE  Evidence'
<1>. USE DEF RInv
<1>. DEFINE Known(q) ==
       Working(q)' =>
         /\ stage'[q] \in {"RECORD", "COMMITTED", "INCONSISTENT"} => Committed(Current(q))'
         /\ stage'[q] \in {"NO_RECORD", "NOT_COMMITTED"} /\ Holds(q)' => ~sighted'[Current(q)']
<1>0. /\ issued \in Nat /\ batch \in [Workers -> Claims] /\ stage \in [Workers -> StageType]
  BY TypeParts DEF WorkSound
<1>1. ASSUME NEW q \in Workers, batch'[q] = batch[q], stage'[q] = stage[q]
      PROVE  Known(q)
  <2>. SUFFICES ASSUME Working(q)
                PROVE  /\ stage[q] \in {"RECORD", "COMMITTED", "INCONSISTENT"} => Committed(Current(q))'
                       /\ stage[q] \in {"NO_RECORD", "NOT_COMMITTED"} /\ Holds(q)' =>
                            ~sighted'[Current(q)']
    BY <1>1 DEF Working
  <2>1. Current(q) \in Mutations /\ Token(q) \in Nat \ {0} /\ Token(q) <= issued
    BY HeadClaim, HeldClaim
  <2>2. Current(q)' = Current(q) /\ Token(q)' = Token(q)
    BY <1>1 DEF Current, Token
  <2>3. Committed(Current(q)) => Committed(Current(q))'
    BY <2>1, <2>2, EffectsGrow DEF Committed
  <2>4. ASSUME Holds(q)'
        PROVE  Holds(q) /\ sighted'[Current(q)] = sighted[Current(q)]
    <3>1. /\ case'[Current(q)].status = "PROCESSING" /\ case'[Current(q)].claimed_by = WorkerId[q]
          /\ case'[Current(q)].claim_token = Token(q)
      BY <2>2, <2>4 DEF Holds
    <3>2. ~Taken(Current(q))
      BY <1>0, <2>1, <3>1 DEF Taken
    <3>3. Kept(Current(q))
      BY <2>1, <3>1, <3>2, CaseMoves DEF Opened, Released
    <3>. QED  BY <3>1, <3>3 DEF Kept, Holds
  <2>. QED  BY <2>2, <2>3, <2>4 DEF Evidence
<1>2. ASSUME NEW q \in Workers, stage'[q] = "CLAIMED"
      PROVE  Known(q)
  BY <1>2
<1>3. (\A q \in Workers : Known(q)) => Evidence'
  BY DEF Evidence, Committed
<1>. HIDE DEF Known
<1>4. CASE UNCHANGED <<batch, stage>>
  BY <1>1, <1>3, <1>4
<1>5. ASSUME NEW p \in Workers, Claim(p) \/ EndStep(p)
      PROVE  Evidence'
  <2>1. stage' = [stage EXCEPT ![p] = "CLAIMED"]
    BY <1>5 DEF Claim, EndStep, Resolve, RetryOrGiveUp, Crash, Conclude, GoOn, Exit
  <2>2. \A q \in Workers \ {p} : batch'[q] = batch[q]
    BY <1>0, <1>5 DEF Claim, EndStep, Resolve, RetryOrGiveUp, Crash, Conclude, GoOn, Exit
  <2>3. \A q \in Workers : Known(q)
    BY <1>0, <1>1, <1>2, <2>1, <2>2
  <2>. QED  BY <1>3, <2>3
<1>6. ASSUME NEW p \in Workers, ReadStep(p)
      PROVE  Evidence'
  <2>1. Working(p) /\ UNCHANGED <<case, batch, sighted, effects>>
    BY <1>6 DEF ReadStep, Authorize, ReadRecord, ReadOutbox, ReadEntity, QueryFails, Advance, world
  <2>2. \A q \in Workers \ {p} : stage'[q] = stage[q]
    BY <1>0, <1>6 DEF ReadStep, Authorize, ReadRecord, ReadOutbox, ReadEntity, QueryFails, Advance
  <2>3. /\ stage'[p] \in {"RECORD", "COMMITTED", "INCONSISTENT"} => Committed(Current(p))
        /\ stage'[p] \in {"NO_RECORD", "NOT_COMMITTED"} => ~Committed(Current(p))
    <3>1. CASE Authorize(p) \/ QueryFails(p)
      BY <1>0, <3>1 DEF Authorize, QueryFails, Advance
    <3>2. CASE ReadRecord(p)
      BY <1>0, <3>2 DEF ReadRecord, Advance
    <3>3. CASE ReadOutbox(p)
      BY <1>0, <3>3 DEF ReadOutbox, Advance
    <3>4. CASE ReadEntity(p)
      BY <1>0, <2>1, <3>4 DEF ReadEntity, Advance, Evidence
    <3>. QED  BY <1>6, <3>1, <3>2, <3>3, <3>4 DEF ReadStep
  <2>4. Current(p) \in Mutations /\ (sighted[Current(p)] => Committed(Current(p)))
    BY <2>1, HeadClaim DEF EffectsTrue
  <2>5. Known(p)
    BY <2>1, <2>3, <2>4 DEF Known, Current, Committed
  <2>6. \A q \in Workers : Known(q)
    BY <1>1, <2>1, <2>2, <2>5
  <2>. QED  BY <1>3, <2>6
<1>7. ASSUME NEW o \in Mutations, WorldStep(o) \/ CaseStep(o)
      PROVE  UNCHANGED <<batch, stage>>
  <2>1. WorldStep(o) => UNCHANGED <<batch, stage>>
    BY WorldTypes DEF work
  <2>2. CaseStep(o) => UNCHANGED <<batch, stage>>
    BY DEF CaseStep, RecordUnknown, ForgetUnknown, Recheck, Elapse, Overrun
  <2>. QED  BY <1>7, <2>1, <2>2
<1>8. UNCHANGED vars => UNCHANGED <<batch, stage>>
  BY DEF vars
<1>. QED  BY <1>4, <1>5, <1>6, <1>7, <1>8, NextSteps

\* The initial state satisfies every part.
LEMMA InitRInv == Init => RInv
<1>. SUFFICES ASSUME Init PROVE RInv
  OBVIOUS
<1>1. TypeOK
  <2>1. CaseSound(NoCase)
    BY DEF CaseSound, CaseType, NoCase
  <2>2. CasesSound
    BY <2>1 DEF CasesSound, CaseSound, Init
  <2>3. batch \in [Workers -> Claims]
    BY DEF Init, Claims
  <2>4. WorldSound /\ WorkSound /\ trouble \in 0..MaxTrouble
    BY <2>3, LimitAssumption DEF Init, WorldSound, WorkSound, OwnerType, StageType
  <2>. QED  BY <2>2, <2>4, TypeParts
<1>2. \A p \in Workers : batch[p] = <<>> /\ DOMAIN batch[p] = {}
  BY DEF Init
<1>3. ClaimsKnown /\ Evidence
  BY <1>2 DEF ClaimsKnown, Evidence, Working
<1>4. EffectsTrue /\ VerdictFresh /\ ReviewedForCause
  BY DEF EffectsTrue, VerdictFresh, ReviewedForCause, Init, NoCase
<1>. QED  BY <1>1, <1>3, <1>4 DEF RInv

\* The invariant holds throughout, for any mutations, workers and limits.
THEOREM Inductive == Spec => []RInv
<1>1. RInv /\ [Next]_vars => RInv'
  BY TypeStep, ClaimsStep, EffectsStep, EvidenceStep, VerdictStep DEF RInv
<1>. QED  BY InitRInv, <1>1, PTL DEF Spec

-----------------------------------------------------------------------------
(***************************************************************************)
(* Theorems.                                                               *)
(***************************************************************************)
\* Cases, owners and workers keep their declared form: a case carries a claim exactly while
\* it is PROCESSING, as the table's own check demands.
THEOREM TypeCorrect == Spec => []TypeOK
<1>1. RInv => TypeOK
  BY DEF RInv
<1>. QED  BY Inductive, <1>1, PTL

\* However many workers share an id and whichever leases run out, a case is resolved as
\* NOT_COMMITTED only on evidence younger than its last claim.
THEOREM VerdictFreshHolds == Spec => []VerdictFresh
<1>1. RInv => VerdictFresh
  BY DEF RInv
<1>. QED  BY Inductive, <1>1, PTL

\* A human is asked only about a committed mutation or after max_attempts attempts.
THEOREM ReviewedForCauseHolds == Spec => []ReviewedForCause
<1>1. RInv => ReviewedForCause
  BY DEF RInv
<1>. QED  BY Inductive, <1>1, PTL

\* A step that moves no case to another status, and neither an effect nor what an owner
\* knows, is a stutter of the contract.
LEMMA QuietStep ==
  ASSUME \A o \in Mutations : case'[o].status = case[o].status, UNCHANGED <<effects, owner>>
  PROVE  UNCHANGED <<effects, verdict, belief>>
  BY DEF verdict, belief

\* Reconciliation implements its contract: a mutation takes effect once, a case has one
\* verdict for good, COMMITTED and DONE are only said of an effect, and an owner hears
\* of a review only when there is a verdict behind it.
THEOREM ImplementsContractHolds == Spec => ImplementsContract
<1>1. Init => Contract!Init
  BY DEF Init, Contract!Init, verdict, belief, NoCase
<1>2. RInv /\ [Next]_vars => [Contract!Next]_(Contract!contractVars)
  <2>. SUFFICES ASSUME RInv, [Next]_vars
                PROVE  Contract!Next \/ UNCHANGED <<effects, verdict, belief>>
    BY DEF Contract!contractVars
  <2>. USE DEF RInv
  <2>0. /\ case \in [Mutations -> CaseType] /\ effects \in [Mutations -> Nat]
        /\ owner \in [Mutations -> OwnerType]
    BY TypeParts DEF CasesSound, WorldSound
  <2>1. ASSUME NEW o \in Mutations, NEW b \in {"DONE", "REFUSED", "REVIEW"},
               belief[o] = "UNSURE", owner' = [owner EXCEPT ![o] = b],
               b = "DONE" => effects[o] = 1,
               b = "REVIEW" => verdict[o] \in {"REVIEW", "COMMITTED"},
               UNCHANGED <<effects, case>>
        PROVE  Contract!Next
    <3>1. verdict' = verdict
      BY <2>1 DEF verdict
    <3>2. belief' = [belief EXCEPT ![o] = b]
      BY <2>0, <2>1 DEF belief
    <3>. QED  BY <2>1, <3>1, <3>2 DEF Contract!Next, Contract!Tell
  <2>2. ASSUME NEW o \in Mutations, WorldStep(o)
        PROVE  Contract!Next \/ UNCHANGED <<effects, verdict, belief>>
    <3>0. case' = case
      BY <2>2, WorldTypes DEF work
    <3>1. verdict' = verdict
      BY <3>0 DEF verdict
    <3>2. CASE Dispatch(o)
      <4>1. belief' = belief
        BY <2>0, <3>2 DEF Dispatch, belief
      <4>. QED  BY <3>1, <3>2, <4>1 DEF Dispatch
    <3>3. ASSUME NEW a \in flying[o], Commit(o, a)
          PROVE  Contract!Next \/ UNCHANGED <<effects, verdict, belief>>
      <4>1. \/ owner' = owner
            \/ owner[o] = "AWAITING" /\ owner' = [owner EXCEPT ![o] = "DONE"]
        BY <3>3 DEF Commit, Finish
      <4>2. CASE Committed(o)
        <5>1. effects' = effects /\ effects[o] = 1
          BY <2>0, <3>3, <4>2 DEF Commit, Committed, EffectsTrue
        <5>2. CASE owner' = owner
          BY <3>0, <5>1, <5>2, QuietStep
        <5>3. CASE owner[o] = "AWAITING" /\ owner' = [owner EXCEPT ![o] = "DONE"]
          <6>1. belief[o] = "UNSURE"
            BY <5>3 DEF belief
          <6>. QED  BY <2>1, <3>0, <5>1, <5>3, <6>1
        <5>. QED  BY <4>1, <5>2, <5>3
      <4>3. CASE ~Committed(o)
        <5>1. effects[o] = 0 /\ effects' = [effects EXCEPT ![o] = 1]
          BY <2>0, <3>3, <4>3 DEF Commit, Committed
        <5>2. \/ belief' = belief
              \/ belief[o] = "UNSURE" /\ belief' = [belief EXCEPT ![o] = "DONE"]
          BY <2>0, <4>1 DEF belief
        <5>. QED  BY <3>1, <5>1, <5>2 DEF Contract!Next, Contract!Execute
      <4>. QED  BY <4>2, <4>3
    <3>4. ASSUME NEW a \in flying[o], Fail(o, a)
          PROVE  Contract!Next \/ UNCHANGED <<effects, verdict, belief>>
      <4>1. /\ effects' = effects
            /\ \/ owner' = owner
               \/ owner[o] = "AWAITING" /\ owner' = [owner EXCEPT ![o] = "REFUSED"]
        BY <3>4 DEF Fail, Finish
      <4>2. CASE owner' = owner
        BY <3>0, <4>1, <4>2, QuietStep
      <4>3. CASE owner[o] = "AWAITING" /\ owner' = [owner EXCEPT ![o] = "REFUSED"]
        <5>1. belief[o] = "UNSURE"
          BY <4>3 DEF belief
        <5>. QED  BY <2>1, <3>0, <4>1, <4>3, <5>1
      <4>. QED  BY <4>1, <4>2, <4>3
    <3>5. CASE Refresh(o)
      <4>1. owner[o] = "BLOCKED" /\ case[o].status \in Settled /\ effects' = effects
        BY <3>5 DEF Refresh
      <4>2. belief[o] = "UNSURE"
        BY <4>1 DEF belief
      <4>3. PICK next \in CASE case[o].status = "RESOLVED_COMMITTED" ->
                                 IF moved[o] THEN {"DONE", "REVIEW"} ELSE {"DONE"}
                            [] case[o].status = "RESOLVED_NOT_COMMITTED" -> {"READY"}
                            [] OTHER -> {"REVIEW"} : owner' = [owner EXCEPT ![o] = next]
        BY <3>5 DEF Refresh
      <4>4. CASE case[o].status = "RESOLVED_COMMITTED"
        <5>1. effects[o] = 1 /\ verdict[o] = "COMMITTED" /\ next \in {"DONE", "REVIEW"}
          BY <4>3, <4>4 DEF EffectsTrue, Committed, verdict
        <5>. QED  BY <2>1, <3>0, <4>1, <4>2, <4>3, <5>1
      <4>5. CASE case[o].status = "RESOLVED_NOT_COMMITTED"
        <5>1. owner' = [owner EXCEPT ![o] = "READY"]
          BY <4>3, <4>5
        <5>2. belief' = belief
          BY <2>0, <4>1, <5>1 DEF belief
        <5>. QED  BY <3>1, <4>1, <5>2
      <4>6. CASE case[o].status = "MANUAL_REVIEW"
        <5>1. verdict[o] = "REVIEW" /\ next = "REVIEW"
          BY <4>3, <4>6 DEF verdict
        <5>. QED  BY <2>1, <3>0, <4>1, <4>2, <4>3, <5>1
      <4>. QED  BY <4>1, <4>4, <4>5, <4>6 DEF Settled
    <3>6. CASE MoveOn(o) \/ Revoke(o) \/ Restore(o)
      <4>1. UNCHANGED <<effects, owner>>
        BY <3>6 DEF MoveOn, Revoke, Restore
      <4>. QED  BY <3>0, <4>1, QuietStep
    <3>. QED  BY <2>2, <3>2, <3>3, <3>4, <3>5, <3>6 DEF WorldStep
  <2>3. ASSUME NEW o \in Mutations, CaseStep(o)
        PROVE  Contract!Next \/ UNCHANGED <<effects, verdict, belief>>
    <3>1. effects' = effects
      BY <2>3 DEF CaseStep, RecordUnknown, ForgetUnknown, Recheck, Elapse, Overrun, world
    <3>2. belief' = belief
      BY <2>0, <2>3 DEF CaseStep, RecordUnknown, ForgetUnknown, Recheck, Elapse, Overrun, world,
                        belief
    <3>3. CASE case' = case
      BY <3>1, <3>2, <3>3 DEF verdict
    <3>4. CASE case' = [case EXCEPT ![o].elapsed = TRUE]
      <4>1. \A u \in Mutations : case'[u].status = case[u].status
        BY <2>0, <3>4 DEF CaseType
      <4>. QED  BY <3>1, <3>2, <4>1 DEF verdict
    <3>5. CASE CreateOrGet(o) /\ case' # case
      <4>1. /\ case[o].status = "ABSENT" /\ case'[o].status = "PENDING"
            /\ \A u \in Mutations \ {o} : case'[u] = case[u]
        BY <2>0, <3>5 DEF CreateOrGet, NoCase
      <4>2. verdict[o] = "NONE" /\ verdict' = [verdict EXCEPT ![o] = "OPEN"]
        BY <4>1 DEF verdict
      <4>. QED  BY <3>1, <3>2, <4>2 DEF Contract!Next, Contract!Open
    <3>. QED  BY <2>3, <3>3, <3>4, <3>5 DEF CaseStep, RecordUnknown, ForgetUnknown, Recheck,
                                            Elapse, Overrun
  <2>4. ASSUME NEW p \in Workers, Claim(p)
        PROVE  UNCHANGED <<effects, verdict, belief>>
    <3>1. PICK order \in Orders : Took(p, order)
      BY <2>4, ClaimWrites
    <3>2. UNCHANGED <<effects, owner>>
      BY <3>1 DEF Took, world
    <3>3. ASSUME NEW o \in Mutations
          PROVE  \/ case'[o].status = case[o].status
                 \/ {case[o].status, case'[o].status} \subseteq {"PENDING", "PROCESSING"}
      <4>1. CASE \A i \in DOMAIN order : order[i] # o
        BY <3>1, <4>1 DEF Took
      <4>2. CASE \E i \in DOMAIN order : order[i] = o
        <5>1. PICK i \in DOMAIN order : order[i] = o
          BY <4>2
        <5>2. TookOne(p, order, i)
          BY <3>1, <5>1 DEF Took
        <5>. QED  BY <5>1, <5>2 DEF TookOne, Eligible
      <4>. QED  BY <4>1, <4>2
    <3>4. verdict' = verdict
      BY <3>3 DEF verdict
    <3>. QED  BY <3>2, <3>4 DEF belief
  <2>5. ASSUME NEW p \in Workers, ReadStep(p)
        PROVE  UNCHANGED <<effects, verdict, belief>>
    BY <2>5, QuietStep DEF ReadStep, Authorize, ReadRecord, ReadOutbox, ReadEntity, QueryFails,
                           Advance, world
  <2>6. ASSUME NEW p \in Workers, EndStep(p)
        PROVE  Contract!Next \/ UNCHANGED <<effects, verdict, belief>>
    <3>1. /\ Working(p) /\ Current(p) \in Mutations /\ UNCHANGED <<effects, owner>>
      BY <2>6, HeadClaim DEF EndStep, Resolve, RetryOrGiveUp, Crash, Conclude, world
    <3>2. CASE case' = case
      BY <3>1, <3>2, QuietStep
    <3>. DEFINE o == Current(p)
    <3>3. ASSUME NEW status \in {"PENDING"} \cup Settled, Holds(p), Release(p, status),
                 status = "RESOLVED_COMMITTED" => Committed(o)
          PROVE  Contract!Next \/ UNCHANGED <<effects, verdict, belief>>
      <4>1. /\ case[o].status = "PROCESSING" /\ case'[o].status = status
            /\ \A u \in Mutations \ {o} : case'[u] = case[u]
        BY <2>0, <3>1, <3>3 DEF Holds, Release
      <4>2. status = "RESOLVED_COMMITTED" => effects[o] = 1
        BY <3>1, <3>3 DEF EffectsTrue, Committed
      <4>3. o \in Mutations /\ belief' = belief /\ effects' = effects
        BY <3>1 DEF belief
      <4>. HIDE DEF o
      <4>4. CASE status = "PENDING"
        <5>1. verdict' = verdict
          BY <4>1, <4>4 DEF verdict
        <5>. QED  BY <4>3, <5>1
      <4>5. CASE status \in Settled
        <5>1. PICK v \in {"COMMITTED", "NOT_COMMITTED", "REVIEW"} :
                /\ v = "COMMITTED" => status = "RESOLVED_COMMITTED"
                /\ verdict' = [verdict EXCEPT ![o] = v]
          <6>1. CASE status = "RESOLVED_COMMITTED"
            BY <4>1, <6>1 DEF verdict
          <6>2. CASE status = "RESOLVED_NOT_COMMITTED"
            <7>1. verdict' = [verdict EXCEPT ![o] = "NOT_COMMITTED"]
              BY <4>1, <6>2 DEF verdict
            <7>. QED  BY <7>1
          <6>3. CASE status = "MANUAL_REVIEW"
            <7>1. verdict' = [verdict EXCEPT ![o] = "REVIEW"]
              BY <4>1, <6>3 DEF verdict
            <7>. QED  BY <7>1
          <6>. QED  BY <4>5, <6>1, <6>2, <6>3 DEF Settled
        <5>2. verdict[o] = "OPEN"
          BY <4>1, <4>3 DEF verdict
        <5>. QED  BY <4>2, <4>3, <5>1, <5>2 DEF Contract!Next, Contract!Settle
      <4>. QED  BY <4>4, <4>5
    <3>4. CASE Resolve(p)
      <4>1. Conclude(p, Verdict(p))
        BY <3>4 DEF Resolve
      <4>2. Verdict(p) \in {"PENDING"} \cup Settled
        BY DEF Verdict, Settled
      <4>3. Verdict(p) = "RESOLVED_COMMITTED" => Committed(Current(p))
        BY <3>1 DEF Verdict, Evidence
      <4>. QED  BY <3>2, <3>3, <4>1, <4>2, <4>3 DEF Conclude
    <3>5. CASE RetryOrGiveUp(p)
      <4>1. PICK status \in {"PENDING", "MANUAL_REVIEW"} : Conclude(p, status)
        BY <3>5 DEF RetryOrGiveUp
      <4>. QED  BY <3>2, <3>3, <4>1 DEF Conclude, Settled
    <3>. QED  BY <2>6, <3>2, <3>4, <3>5 DEF EndStep, Crash
  <2>7. CASE UNCHANGED vars
    BY <2>7, QuietStep DEF vars
  <2>. QED  BY <2>2, <2>3, <2>4, <2>5, <2>6, <2>7, NextSteps
<1>. QED  BY Inductive, <1>1, <1>2, PTL DEF Spec, ImplementsContract, Contract!Spec
=============================================================================
