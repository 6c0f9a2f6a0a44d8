--------------------- MODULE CommandTransactionsProofs ---------------------
(***************************************************************************)
(* Exactly once per idempotency key, sound bookings and serial commits,    *)
(* for any number of sessions, keys and rows.                              *)
(*                                                                         *)
(* Exactly once: a session gets past the idempotency record only when no   *)
(* other session is past it under the same identity, so two sessions that  *)
(* run never share one (KeyHeldByOne); the record of a running session's   *)
(* identity is therefore unwritten until that session commits it, together *)
(* with its effect (EffectRecorded).                                       *)
(*                                                                         *)
(* Sound bookings: what a session has executed it has locked and checked,  *)
(* and no two sessions have executed bookings that clash (MadeOk, Apart).  *)
(* A booking comes with the update of its ticket; as long as the ticket    *)
(* has the version the request knows, its visits are older than the        *)
(* session (Timely), whatever has committed since it read them.            *)
(*                                                                         *)
(* Serial commits: what a session has read of its ticket, the ticket's     *)
(* visits and their logs is still so, or tells it the same, as long as the *)
(* ticket has the version the request knows; a worker event has its visit  *)
(* locked besides (View).  What a session writes is what it decided on     *)
(* what it read (Decided), so at its commit it would decide that again.    *)
(***************************************************************************)
EXTENDS CommandTransactions, SequenceTheorems, TLAPS

\* A session at work has a stage and a message, whatever else it keeps.
Shaped(me) == {"stage", "message"} \subseteq DOMAIN me

\* A message names the operation and the key of its identity.
MessageSound(m) == m.id \in Identities /\ m.request.op \in Operations

SessionsSound ==
  /\ session \in [Sessions -> {session[s] : s \in Sessions}]
  /\ \A s \in Sessions : session[s] = Idle \/ (/\ Shaped(session[s])
                                               /\ session[s].stage \in {"ACQUIRE", "RUN"}
                                               /\ session[s].message \in sent)

\* Sessions work on messages that were sent.
MessagesSound == \A m \in sent : MessageSound(m)

\* One session at a time is past the record of an identity, and it found none.
KeyHeldByOne ==
  \A s \in Sessions : Running(s) =>
    /\ record[Identity(s)] = Nothing
    /\ \A o \in Sessions : Running(o) /\ Identity(o) = Identity(s) => o = s

\* The record of an identity is the one request that took effect under it.
EffectRecorded ==
  /\ record \in [Identities -> {record[i] : i \in Identities}]
  /\ applied \in [Identities -> {applied[i] : i \in Identities}]
  /\ \A i \in Identities :
       applied[i] = IF record[i] = Nothing THEN <<>> ELSE <<record[i]>>

CInv == SessionsSound /\ MessagesSound /\ KeyHeldByOne /\ EffectRecorded

-----------------------------------------------------------------------------
(***************************************************************************)
(* Sessions.                                                               *)
(***************************************************************************)
\* A running session is not idle, and one that waits is not either.
LEMMA AtWork ==
  ASSUME SessionsSound, MessagesSound, NEW s \in Sessions,
         session[s].stage \in {"ACQUIRE", "RUN"}
  PROVE  /\ session[s] # Idle /\ Shaped(session[s]) /\ session[s].message \in sent
         /\ Identity(s) \in Identities /\ Request(s).op \in Operations
         /\ Request(s) # Nothing
<1>1. session[s] # Idle
  BY DEF Idle
<1>2. Shaped(session[s]) /\ session[s].message \in sent
  BY <1>1 DEF SessionsSound
<1>3. MessageSound(session[s].message)
  BY <1>2 DEF MessagesSound
<1>4. Identity(s) \in Identities /\ Request(s).op \in Operations
  BY <1>3 DEF MessageSound, Identity, Request
<1>5. Request(s) # Nothing
  BY <1>4 DEF Nothing, Operations
<1>. QED  BY <1>1, <1>2, <1>4, <1>5

\* Only an idle session may be changed freely; the others keep what the invariant reads.
SameWork(s) ==
  session'[s] # Idle => /\ session[s] # Idle /\ Shaped(session'[s])
                        /\ session'[s].stage = session[s].stage
                        /\ session'[s].message = session[s].message

\* A step that starts no session and lets none past its record, and leaves the records
\* alone, keeps the invariant.
LEMMA WorkGoesOn ==
  ASSUME CInv, \A s \in Sessions : SameWork(s), DOMAIN session' = Sessions,
         session' = [s \in Sessions |-> session'[s]], UNCHANGED <<record, applied, sent>>
  PROVE  CInv'
<1>. USE DEF CInv
<1>1. \A s \in Sessions : session'[s] = Idle \/ (/\ Shaped(session'[s])
                                                 /\ session'[s].stage \in {"ACQUIRE", "RUN"}
                                                 /\ session'[s].message \in sent')
  BY DEF SameWork, SessionsSound
<1>2. SessionsSound'
  BY <1>1 DEF SessionsSound, Shaped
<1>3. ASSUME NEW s \in Sessions, Running(s)'
      PROVE  Running(s) /\ Identity(s)' = Identity(s)
  <2>1. session'[s] # Idle
    BY <1>3 DEF Running, Idle
  <2>. QED  BY <1>3, <2>1 DEF SameWork, Running, Identity
<1>4. KeyHeldByOne'
  <2>. SUFFICES ASSUME NEW s \in Sessions, Running(s)'
                PROVE  /\ record[Identity(s)'] = Nothing
                       /\ \A o \in Sessions : Running(o)' /\ Identity(o)' = Identity(s)' => o = s
    BY DEF KeyHeldByOne
  <2>. QED  BY <1>3 DEF KeyHeldByOne
<1>5. MessagesSound' /\ EffectRecorded'
  BY DEF MessagesSound, MessageSound, EffectRecorded
<1>. QED  BY <1>2, <1>4, <1>5

\* A session that ends without having committed.
LEMMA Closed ==
  ASSUME CInv, NEW s \in Sessions, Close(s), UNCHANGED <<record, applied, sent>>
  PROVE  CInv'
<1>1. session' = [session EXCEPT ![s] = Idle]
  BY DEF Close
<1>2. session \in [Sessions -> {session[o] : o \in Sessions}]
  BY DEF CInv, SessionsSound
<1>3. ASSUME NEW o \in Sessions PROVE SameWork(o)
  <2>1. CASE o = s
    BY <1>1, <1>2, <2>1 DEF SameWork
  <2>2. CASE o # s
    BY <1>1, <1>2, <2>2 DEF SameWork, CInv, SessionsSound
  <2>. QED  BY <2>1, <2>2
<1>. QED  BY <1>1, <1>2, <1>3, WorkGoesOn

\* A running session that goes on to its next statement.
LEMMA WorksOn ==
  ASSUME CInv, NEW s \in Sessions, NEW me, session' = [session EXCEPT ![s] = me],
         session[s] # Idle, Shaped(me), me.stage = session[s].stage,
         me.message = session[s].message, UNCHANGED <<record, applied, sent>>
  PROVE  CInv'
<1>1. session \in [Sessions -> {session[o] : o \in Sessions}]
  BY DEF CInv, SessionsSound
<1>2. ASSUME NEW o \in Sessions PROVE SameWork(o)
  <2>1. CASE o = s
    BY <1>1, <2>1 DEF SameWork
  <2>2. CASE o # s
    BY <1>1, <2>2 DEF SameWork, CInv, SessionsSound
  <2>. QED  BY <2>1, <2>2
<1>. QED  BY <1>1, <1>2, WorkGoesOn

\* A SELECT.
LEMMA ReadKeeps ==
  ASSUME CInv, NEW s \in Sessions, Read(s)
  PROVE  /\ CInv'
         /\ UNCHANGED told \/ told' = told \cup {[message |-> session[s].message, answer |-> "REFUSED"]}
         /\ Running(s) /\ UNCHANGED <<record, applied, sent>>
<1>1. Running(s) /\ UNCHANGED <<record, applied, sent>>
  BY DEF Read, Refuse
<1>2. session[s] # Idle /\ Shaped(session[s])
  BY <1>1, AtWork DEF CInv, Running
<1>3. CASE Refuse(s)
  BY <1>1, <1>3, Closed DEF Refuse, Tell
<1>4. CASE ~Refuse(s)
  <2>. DEFINE reads == Tail(session[s].reads)
              seen == See(session[s].seen, Head(session[s].reads), Request(s), db)
              locks == IF Head(session[s].reads) = "LOCK"
                       THEN session[s].locks \cup {VisitCell(Request(s).visit)}
                       ELSE session[s].locks
              new == [ticket |-> Fresh(Tickets, "TICKET"), visit |-> Fresh(Visits, "VISIT")]
              todo == IF Len(session[s].reads) > 1 THEN <<>>
                      ELSE Writes(Request(s), seen, new, session[s].began)
  <2>1. session' = [session EXCEPT ![s] = [session[s] EXCEPT !.reads = reads, !.seen = seen,
                                                             !.locks = locks, !.todo = todo]]
    BY <1>4 DEF Read
  <2>. HIDE DEF reads, seen, locks, todo
  <2>. DEFINE me == [session[s] EXCEPT !.reads = reads, !.seen = seen, !.locks = locks, !.todo = todo]
  <2>2. Shaped(me) /\ me.stage = session[s].stage /\ me.message = session[s].message
    BY <1>2 DEF Shaped
  <2>3. UNCHANGED told
    BY <1>4 DEF Read
  <2>. HIDE DEF me
  <2>4. CInv'
    BY <1>1, <1>2, <2>1, <2>2, WorksOn DEF me
  <2>. QED  BY <1>1, <2>3, <2>4
<1>. QED  BY <1>3, <1>4

\* An UPDATE or INSERT.
LEMMA ExecuteKeeps ==
  ASSUME CInv, NEW s \in Sessions, Execute(s)
  PROVE  /\ CInv'
         /\ UNCHANGED told \/ told' = told \cup {[message |-> session[s].message, answer |-> "REFUSED"]}
         /\ Running(s) /\ UNCHANGED <<record, applied, sent>>
<1>1. Running(s) /\ UNCHANGED <<record, applied, sent>>
  BY DEF Execute, Refuse
<1>2. session[s] # Idle /\ Shaped(session[s])
  BY <1>1, AtWork DEF CInv, Running
<1>3. CASE Refuse(s)
  BY <1>1, <1>3, Closed DEF Refuse, Tell
<1>4. CASE ~Refuse(s)
  <2>. DEFINE todo == Tail(session[s].todo)
              done == Append(session[s].done, Next1(s))
              locks == session[s].locks \cup {Next1(s).cell}
  <2>1. session' = [session EXCEPT ![s] = [session[s] EXCEPT !.todo = todo, !.done = done,
                                                             !.locks = locks]]
    BY <1>4 DEF Execute
  <2>. HIDE DEF todo, done, locks
  <2>. DEFINE me == [session[s] EXCEPT !.todo = todo, !.done = done, !.locks = locks]
  <2>2. Shaped(me) /\ me.stage = session[s].stage /\ me.message = session[s].message
    BY <1>2 DEF Shaped
  <2>3. UNCHANGED told
    BY <1>4 DEF Execute
  <2>. HIDE DEF me
  <2>4. CInv'
    BY <1>1, <1>2, <2>1, <2>2, WorksOn DEF me
  <2>. QED  BY <1>1, <2>3, <2>4
<1>. QED  BY <1>3, <1>4

\* The record is looked up by one session at a time.
LEMMA AcquireKeeps ==
  ASSUME CInv, NEW s \in Sessions, Acquire(s)
  PROVE  CInv'
<1>. USE DEF CInv
<1>1. /\ session[s].stage = "ACQUIRE" /\ record[Identity(s)] = Nothing
      /\ session' = [session EXCEPT ![s].stage = "RUN"] /\ UNCHANGED <<record, applied, sent>>
      /\ \A o \in Sessions : Running(o) => o = s \/ Identity(o) # Identity(s)
  BY DEF Acquire, Blocked, AwaitsSession, AwaitsKey
<1>2. /\ session[s] # Idle /\ Shaped(session[s]) /\ session[s].message \in sent
      /\ session \in [Sessions -> {session[o] : o \in Sessions}]
  BY <1>1, AtWork DEF SessionsSound
<1>. DEFINE me == [session[s] EXCEPT !.stage = "RUN"]
<1>3. session' = [session EXCEPT ![s] = me]
  BY <1>1
<1>4. Shaped(me) /\ me.stage = "RUN" /\ me.message = session[s].message
  BY <1>2 DEF Shaped
<1>. HIDE DEF me
<1>5. session'[s] = me /\ \A o \in Sessions \ {s} : session'[o] = session[o]
  BY <1>2, <1>3
<1>6. SessionsSound'
  <2>1. ASSUME NEW o \in Sessions
        PROVE  session'[o] = Idle \/ (/\ Shaped(session'[o])
                                      /\ session'[o].stage \in {"ACQUIRE", "RUN"}
                                      /\ session'[o].message \in sent)
    BY <1>2, <1>4, <1>5 DEF SessionsSound
  <2>2. session' = [o \in Sessions |-> session'[o]]
    BY <1>2, <1>3
  <2>. QED  BY <1>1, <2>1, <2>2 DEF SessionsSound, Shaped
<1>7. \A o \in Sessions : Identity(o)' = Identity(o) /\ (Running(o)' => o = s \/ Running(o))
  BY <1>4, <1>5 DEF Identity, Running
<1>8. KeyHeldByOne'
  <2>. SUFFICES ASSUME NEW x \in Sessions, Running(x)'
                PROVE  /\ record[Identity(x)'] = Nothing
                       /\ \A o \in Sessions : Running(o)' /\ Identity(o)' = Identity(x)' => o = x
    BY <1>1 DEF KeyHeldByOne
  <2>. QED  BY <1>1, <1>7 DEF KeyHeldByOne
<1>9. MessagesSound' /\ EffectRecorded'
  BY <1>1 DEF MessagesSound, MessageSound, EffectRecorded
<1>. QED  BY <1>6, <1>8, <1>9

\* A message that is submitted, once more or for the first time.
LEMMA DeliverKeeps ==
  ASSUME CInv, NEW s \in Sessions, NEW m, MessageSound(m), Deliver(s, m),
         sent' = sent \cup {m}
  PROVE  CInv'
<1>. USE DEF CInv
<1>. DEFINE me == [stage |-> "ACQUIRE", message |-> m, began |-> clock,
                   reads |-> Statements(m.request.op), seen |-> NothingSeen, todo |-> <<>>,
                   done |-> <<>>, locks |-> {}]
<1>1. /\ session' = [session EXCEPT ![s] = me] /\ UNCHANGED <<record, applied>>
      /\ session \in [Sessions -> {session[o] : o \in Sessions}]
  BY DEF Deliver, SessionsSound
<1>2. Shaped(me) /\ me.stage = "ACQUIRE" /\ me.message = m
  BY DEF Shaped
<1>. HIDE DEF me
<1>3. session'[s] = me /\ \A o \in Sessions \ {s} : session'[o] = session[o]
  BY <1>1
<1>4. SessionsSound'
  <2>1. ASSUME NEW o \in Sessions
        PROVE  session'[o] = Idle \/ (/\ Shaped(session'[o])
                                      /\ session'[o].stage \in {"ACQUIRE", "RUN"}
                                      /\ session'[o].message \in sent')
    BY <1>2, <1>3 DEF SessionsSound
  <2>2. session' = [o \in Sessions |-> session'[o]]
    BY <1>1
  <2>. QED  BY <2>1, <2>2 DEF SessionsSound, Shaped
<1>5. \A o \in Sessions : Running(o)' => Running(o) /\ Identity(o)' = Identity(o)
  BY <1>2, <1>3 DEF Identity, Running
<1>6. KeyHeldByOne'
  <2>. SUFFICES ASSUME NEW x \in Sessions, Running(x)'
                PROVE  /\ record[Identity(x)'] = Nothing
                       /\ \A o \in Sessions : Running(o)' /\ Identity(o)' = Identity(x)' => o = x
    BY <1>1 DEF KeyHeldByOne
  <2>. QED  BY <1>5 DEF KeyHeldByOne
<1>7. MessagesSound' /\ EffectRecorded'
  BY <1>1 DEF MessagesSound, MessageSound, EffectRecorded
<1>. QED  BY <1>4, <1>6, <1>7

\* A commit writes the record of an identity that had none, and its effect with it.
LEMMA CommitKeeps ==
  ASSUME CInv, NEW s \in Sessions, Commit(s)
  PROVE  /\ CInv'
         /\ Running(s) /\ record[Identity(s)] = Nothing
         /\ record' = [record EXCEPT ![Identity(s)] = Request(s)]
<1>. USE DEF CInv
<1>1. /\ Running(s) /\ Close(s) /\ sent' = sent
      /\ record' = [record EXCEPT ![Identity(s)] = Request(s)]
      /\ applied' = [applied EXCEPT ![Identity(s)] = Append(applied[Identity(s)], Request(s))]
  BY DEF Commit
<1>2. /\ Identity(s) \in Identities /\ Request(s) # Nothing /\ record[Identity(s)] = Nothing
      /\ \A o \in Sessions : Running(o) /\ Identity(o) = Identity(s) => o = s
  BY <1>1, AtWork DEF KeyHeldByOne, Running
<1>3. /\ session \in [Sessions -> {session[o] : o \in Sessions}]
      /\ session' = [session EXCEPT ![s] = Idle]
  BY <1>1 DEF Close, SessionsSound
<1>4. session'[s] = Idle /\ \A o \in Sessions \ {s} : session'[o] = session[o]
  BY <1>3
<1>5. SessionsSound'
  <2>1. ASSUME NEW o \in Sessions
        PROVE  session'[o] = Idle \/ (/\ Shaped(session'[o])
                                      /\ session'[o].stage \in {"ACQUIRE", "RUN"}
                                      /\ session'[o].message \in sent')
    BY <1>1, <1>4 DEF SessionsSound
  <2>2. session' = [o \in Sessions |-> session'[o]]
    BY <1>3
  <2>. QED  BY <2>1, <2>2 DEF SessionsSound, Shaped
<1>6. \A o \in Sessions : Running(o)' => o # s /\ Running(o) /\ Identity(o)' = Identity(o)
  BY <1>4 DEF Running, Identity, Idle
<1>7. /\ record'[Identity(s)] = Request(s) /\ applied'[Identity(s)] = <<Request(s)>>
      /\ \A i \in Identities \ {Identity(s)} : record'[i] = record[i] /\ applied'[i] = applied[i]
      /\ record' = [i \in Identities |-> record'[i]] /\ applied' = [i \in Identities |-> applied'[i]]
  <2>1. applied[Identity(s)] = <<>>
    BY <1>2 DEF EffectRecorded
  <2>2. Append(applied[Identity(s)], Request(s)) = <<Request(s)>>
    BY <2>1
  <2>. QED  BY <1>1, <1>2, <2>2 DEF EffectRecorded
<1>8. KeyHeldByOne'
  <2>. SUFFICES ASSUME NEW x \in Sessions, Running(x)'
                PROVE  /\ record'[Identity(x)'] = Nothing
                       /\ \A o \in Sessions : Running(o)' /\ Identity(o)' = Identity(x)' => o = x
    BY DEF KeyHeldByOne
  <2>1. x # s /\ Running(x) /\ Identity(x)' = Identity(x) /\ Identity(x) # Identity(s)
    BY <1>2, <1>6
  <2>2. Identity(x) \in Identities
    BY <2>1, AtWork DEF Running
  <2>. QED  BY <1>6, <1>7, <2>1, <2>2 DEF KeyHeldByOne
<1>9. EffectRecorded'
  <2>1. \A i \in Identities : applied'[i] = IF record'[i] = Nothing THEN <<>> ELSE <<record'[i]>>
    BY <1>2, <1>7 DEF EffectRecorded
  <2>. QED  BY <1>7, <2>1 DEF EffectRecorded
<1>10. MessagesSound'
  BY <1>1 DEF MessagesSound, MessageSound
<1>. QED  BY <1>1, <1>2, <1>5, <1>8, <1>9, <1>10

\* What clients submit is a message of an operation under one of its keys.
LEMMA SubmitSends ==
  ASSUME NEW s \in Sessions, Submit(s)
  PROVE  \E m : MessageSound(m) /\ Deliver(s, m) /\ sent' = sent \cup {m}
<1>1. PICK k \in Keys, q \in Requests :
        /\ Deliver(s, [id |-> <<q.op, k>>, request |-> q])
        /\ sent' = sent \cup {[id |-> <<q.op, k>>, request |-> q]}
  BY DEF Submit
<1>2. q.op \in Operations
  <2>1. \A op \in {"ACCEPT", "ESCALATE"}, t \in Tickets : About(op, t).op = op
    BY DEF About, Blank
  <2>2. \A t \in Tickets : \A x : /\ AtSlot(About("BOOK", t), x).op = "BOOK"
                                 /\ AtSlot(AboutVisit("RESCHEDULE", t), x).op = "RESCHEDULE"
    BY DEF AtSlot, AboutVisit, About, Blank
  <2>3. \A t \in Tickets : \A x : /\ Disposing(About("RECOVER", t), x).op = "RECOVER"
                                 /\ Reporting(AboutVisit("EVENT", t), x).op = "EVENT"
    BY DEF Disposing, Reporting, AboutVisit, About, Blank
  <2>4. \A x \in Subjects : [Blank("CREATE") EXCEPT !.subject = x].op = "CREATE"
    BY DEF Blank
  <2>5. q \in Drafts
    BY DEF Requests
  <2>6. \/ \E x \in Subjects : q = [Blank("CREATE") EXCEPT !.subject = x]
        \/ \E t \in Tickets, x \in Slots : q = AtSlot(About("BOOK", t), x)
        \/ \E t \in Tickets, x \in Slots : q = AtSlot(AboutVisit("RESCHEDULE", t), x)
        \/ \E op \in {"ACCEPT", "ESCALATE"}, t \in Tickets : q = About(op, t)
        \/ \E t \in Tickets, x \in RecoveryDisposition : q = Disposing(About("RECOVER", t), x)
        \/ \E t \in Tickets, x \in WorkerEventType : q = Reporting(AboutVisit("EVENT", t), x)
    BY <2>5 DEF Drafts
  <2>7. CASE \E x \in Subjects : q = [Blank("CREATE") EXCEPT !.subject = x]
    BY <2>4, <2>7 DEF Operations
  <2>8. CASE \/ \E t \in Tickets, x \in Slots : q = AtSlot(About("BOOK", t), x)
             \/ \E t \in Tickets, x \in Slots : q = AtSlot(AboutVisit("RESCHEDULE", t), x)
    BY <2>2, <2>8 DEF Operations
  <2>9. CASE \E op \in {"ACCEPT", "ESCALATE"}, t \in Tickets : q = About(op, t)
    BY <2>1, <2>9 DEF Operations
  <2>10. CASE \/ \E t \in Tickets, x \in RecoveryDisposition :
                   q = Disposing(About("RECOVER", t), x)
              \/ \E t \in Tickets, x \in WorkerEventType :
                   q = Reporting(AboutVisit("EVENT", t), x)
    BY <2>3, <2>10 DEF Operations
  <2>. QED  BY <2>6, <2>7, <2>8, <2>9, <2>10
<1>3. MessageSound([id |-> <<q.op, k>>, request |-> q])
  BY <1>2 DEF MessageSound, Identities
<1>. QED  BY <1>1, <1>3

\* The initial state satisfies every part.
LEMMA InitCInv == Init => CInv
  BY DEF Init, CInv, SessionsSound, MessagesSound, KeyHeldByOne, EffectRecorded, Running, Idle

\* A delivery leaves the answers and the records alone.
LEMMA DeliverQuiet ==
  ASSUME NEW s, NEW m, Deliver(s, m)
  PROVE  UNCHANGED <<record, applied, told>>
  BY DEF Deliver

\* Every step keeps the invariant.
LEMMA CStep ==
  ASSUME CInv, [Next]_vars
  PROVE  CInv'
<1>1. ASSUME NEW s \in Sessions, Submit(s)
      PROVE  CInv'
  BY <1>1, SubmitSends, DeliverKeeps
<1>2. ASSUME NEW s \in Sessions, Resubmit(s)
      PROVE  CInv'
  <2>1. PICK m \in sent : Deliver(s, m) /\ sent' = sent
    BY <1>2 DEF Resubmit
  <2>2. MessageSound(m) /\ sent' = sent \cup {m}
    BY <2>1 DEF CInv, MessagesSound
  <2>. QED  BY <2>1, <2>2, DeliverKeeps
<1>3. ASSUME NEW s \in Sessions, Acquire(s)
      PROVE  CInv'
  BY <1>3, AcquireKeeps
<1>4. ASSUME NEW s \in Sessions, Replay(s)
      PROVE  CInv'
  BY <1>4, Closed DEF Replay, Refuse
<1>5. ASSUME NEW s \in Sessions, Read(s) \/ Execute(s)
      PROVE  CInv'
  BY <1>5, ReadKeeps, ExecuteKeeps
<1>6. ASSUME NEW s \in Sessions, Commit(s)
      PROVE  CInv'
  BY <1>6, CommitKeeps
<1>7. ASSUME NEW s \in Sessions, BreakDeadlock(s) \/ Abort(s)
      PROVE  CInv'
  BY <1>7, Closed DEF BreakDeadlock, Abort
<1>8. CASE UNCHANGED vars
  <2>1. /\ \A s \in Sessions : SameWork(s)
        /\ session' = [s \in Sessions |-> session'[s]]
    BY <1>8 DEF vars, SameWork, CInv, SessionsSound
  <2>. QED  BY <1>8, <2>1, WorkGoesOn DEF vars
<1>. QED  BY <1>1, <1>2, <1>3, <1>4, <1>5, <1>6, <1>7, <1>8 DEF Next, Advance

\* The invariant holds throughout, for any sessions, keys and rows.
THEOREM Inductive == Spec => []CInv
  BY InitCInv, CStep, PTL DEF Spec

-----------------------------------------------------------------------------
(***************************************************************************)
(* Exactly once.                                                           *)
(***************************************************************************)
\* What took effect under an identity is its record.
LEMMA EffectIsRecord == EffectRecorded => effect = record
<1>. SUFFICES ASSUME EffectRecorded  PROVE effect = record
  OBVIOUS
<1>1. ASSUME NEW i \in Identities
      PROVE  effect[i] = record[i]
  <2>1. CASE record[i] = Nothing
    BY <2>1 DEF effect, EffectRecorded
  <2>2. CASE record[i] # Nothing
    <3>1. applied[i] = <<record[i]>>
      BY <2>2 DEF EffectRecorded
    <3>2. applied[i] # <<>> /\ Len(applied[i]) = 1 /\ applied[i][1] = record[i]
      BY <3>1
    <3>. QED  BY <3>2 DEF effect
  <2>. QED  BY <2>1, <2>2
<1>. QED  BY <1>1 DEF effect, EffectRecorded

\* However many sessions deliver a request, however often, and whatever deadlocks, lost
\* connections and refusals befall them: under one idempotency key at most one request
\* takes effect, once, and clients are told nothing else.
THEOREM ImplementsContractHolds == Spec => ImplementsContract
<1>1. Init => Contract!Init
  <2>1. ASSUME Init  PROVE sent = {} /\ told = {} /\ record = [i \in Identities |-> Nothing]
    BY <2>1 DEF Init
  <2>2. ASSUME Init  PROVE applied = [i \in Identities |-> <<>>]
    BY <2>2 DEF Init
  <2>3. ASSUME Init  PROVE effect = [i \in Identities |-> Nothing]
    BY <2>2, <2>3 DEF effect
  <2>. QED  BY <2>1, <2>3 DEF Contract!Init
<1>2. CInv /\ CInv' /\ effect = record /\ (effect = record)' /\ [Next]_vars
      => [Contract!Next]_(Contract!contractVars)
  <2>. SUFFICES ASSUME CInv, CInv', effect = record, (effect = record)', [Next]_vars
                PROVE  Contract!Next \/ UNCHANGED <<sent, effect, told>>
    BY DEF Contract!contractVars
  <2>. USE DEF CInv
  <2>1. effect = record /\ effect' = record'
    OBVIOUS
  <2>2. ASSUME NEW m \in sent, UNCHANGED <<sent, record>>,
               \/ UNCHANGED told
               \/ told' = told \cup {[message |-> m, answer |-> "UNKNOWN"]}
               \/ told' = told \cup {[message |-> m, answer |-> "OK"]} /\ record[m.id] = m.request
               \/ told' = told \cup {[message |-> m, answer |-> "REFUSED"]} /\ record[m.id] # m.request
        PROVE  Contract!Next \/ UNCHANGED <<sent, effect, told>>
    BY <2>1, <2>2 DEF Contract!Next, Contract!Answer, Contract!Tell
  <2>3. ASSUME NEW s \in Sessions, Submit(s) \/ Resubmit(s)
        PROVE  Contract!Next \/ UNCHANGED <<sent, effect, told>>
    <3>1. sent \subseteq sent' /\ UNCHANGED <<record, told>>
      BY <2>3, SubmitSends, DeliverQuiet DEF Resubmit
    <3>. QED  BY <2>1, <3>1 DEF Contract!Next, Contract!Send
  <2>4. ASSUME NEW s \in Sessions, Acquire(s)
        PROVE  UNCHANGED <<sent, effect, told>>
    BY <2>1, <2>4 DEF Acquire
  <2>5. ASSUME NEW s \in Sessions, session[s].stage \in {"ACQUIRE", "RUN"}
        PROVE  /\ session[s].message \in sent /\ Request(s) # Nothing
               /\ Identity(s) = session[s].message.id /\ Request(s) = session[s].message.request
               /\ Running(s) => record[session[s].message.id] # Request(s)
    BY <2>5, AtWork DEF Identity, Request, KeyHeldByOne
  <2>6. ASSUME NEW s \in Sessions, Replay(s)
        PROVE  Contract!Next \/ UNCHANGED <<sent, effect, told>>
    <3>1. session[s].stage = "ACQUIRE" /\ UNCHANGED <<sent, record>>
      BY <2>6 DEF Replay, Refuse
    <3>2. \/ Tell(session[s].message, "OK") /\ record[Identity(s)] = Request(s)
          \/ Tell(session[s].message, "REFUSED") /\ record[Identity(s)] # Request(s)
      BY <2>6 DEF Replay, Refuse
    <3>. QED  BY <2>2, <2>5, <3>1, <3>2 DEF Tell
  <2>7. ASSUME NEW s \in Sessions, Read(s) \/ Execute(s)
        PROVE  Contract!Next \/ UNCHANGED <<sent, effect, told>>
    <3>1. /\ Running(s) /\ UNCHANGED <<sent, record>>
          /\ \/ UNCHANGED told
             \/ told' = told \cup {[message |-> session[s].message, answer |-> "REFUSED"]}
      BY <2>7, ReadKeeps, ExecuteKeeps
    <3>. QED  BY <2>2, <2>5, <3>1 DEF Running
  <2>8. ASSUME NEW s \in Sessions, Commit(s)
        PROVE  Contract!Next
    <3>1. /\ Running(s) /\ record[Identity(s)] = Nothing
          /\ record' = [record EXCEPT ![Identity(s)] = Request(s)]
      BY <2>8, CommitKeeps
    <3>2. /\ UNCHANGED sent
          /\ Tell(session[s].message, "OK") \/ Tell(session[s].message, "UNKNOWN")
      BY <2>8 DEF Commit
    <3>. DEFINE m == session[s].message
    <3>3. m \in sent /\ Identity(s) = m.id /\ Request(s) = m.request
      BY <2>5, <3>1 DEF Running
    <3>. HIDE DEF m
    <3>4. Contract!TakeEffect(m)
      BY <2>1, <3>1, <3>2, <3>3 DEF Contract!TakeEffect, Contract!Tell, Tell, m
    <3>. QED  BY <3>3, <3>4 DEF Contract!Next
  <2>9. ASSUME NEW s \in Sessions, BreakDeadlock(s) \/ Abort(s)
        PROVE  Contract!Next \/ UNCHANGED <<sent, effect, told>>
    <3>1. session[s].message \in sent
      <4>1. CASE Abort(s)
        BY <4>1 DEF Abort, SessionsSound
      <4>2. CASE BreakDeadlock(s)
        <5>1. \E o \in Sessions : AwaitsSession(s, o)
          BY <4>2 DEF BreakDeadlock, Deadlocked
        <5>2. session[s].stage \in {"ACQUIRE", "RUN"}
          BY <5>1 DEF AwaitsSession, AwaitsKey, AwaitsLock, AwaitsRow, Running
        <5>. QED  BY <2>5, <5>2
      <4>. QED  BY <2>9, <4>1, <4>2
    <3>2. UNCHANGED <<sent, record>> /\ Tell(session[s].message, "UNKNOWN")
      BY <2>9 DEF BreakDeadlock, Abort
    <3>. QED  BY <2>2, <3>1, <3>2 DEF Tell
  <2>10. CASE UNCHANGED vars
    BY <2>1, <2>10 DEF vars
  <2>. QED  BY <2>3, <2>4, <2>6, <2>7, <2>8, <2>9, <2>10 DEF Next, Advance
<1>3. CInv => effect = record
  BY EffectIsRecord DEF CInv
<1>. QED  BY Inductive, <1>1, <1>2, <1>3, PTL DEF Spec, ImplementsContract, Contract!Spec

-----------------------------------------------------------------------------
(***************************************************************************)
(* One booking at a time.  A booking commits on rows nobody has changed    *)
(* since its request was made: the ticket's version is the request's, so   *)
(* no other booking of the ticket has begun and committed in between and   *)
(* its created_at is the latest.  Uncommitted bookings exclude each other  *)
(* as soon as both are executed, whichever commits first.                  *)
(***************************************************************************)
Made(me) == {me.done[i] : i \in DOMAIN me.done}
Planned(me) == Made(me) \cup {me.todo[i] : i \in DOMAIN me.todo}

IsWork(me) ==
  me = [stage |-> me.stage, message |-> me.message, began |-> me.began, reads |-> me.reads,
        seen |-> me.seen, todo |-> me.todo, done |-> me.done, locks |-> me.locks]
IsSequence(e) == e \in Seq({e[i] : i \in DOMAIN e})

IsVisit(row) ==
  /\ row = VisitRow(row.status, row.version, row.ticket, row.slot, row.purpose, row.created)
  /\ row.version \in Nat /\ row.created \in Int
SameVisit(row, other) == row.ticket = other.ticket /\ row.created = other.created

\* A write that inserts the visit of a booking, with the update of its ticket.
Booking(w, me) ==
  LET q == me.message.request IN
  /\ q.op \in {"BOOK", "RESCHEDULE"} /\ w.expect = 0
  /\ w.row = VisitRow("BOOKED", 1, q.ticket, w.row.slot, w.row.purpose, me.began)
  /\ \E x \in Planned(me) : x.cell = TicketCell(q.ticket) /\ x.expect = q.tver

\* A write that ends a visit and leaves the rest of its row as it is.
Ending(w, row) ==
  /\ w.expect \in Nat \ {0} /\ w.row.version = w.expect + 1
  /\ IsVisit(w.row) /\ w.row.status # "BOOKED"
  /\ row.version >= 1 /\ SameVisit(w.row, row)

WriteOk(w, me, rows) ==
  /\ \A t \in Tickets : w.cell = TicketCell(t) =>
       w.expect \in Nat /\ w.row.version = w.expect + 1
  /\ \A v \in Visits : w.cell = VisitCell(v) => Booking(w, me) \/ Ending(w, rows[w.cell])

\* The visit a handler has seen booked is there, though it may have been ended since.
SeenOk(seen, rows) ==
  /\ seen = [ticket |-> seen.ticket, id |-> seen.id, visit |-> seen.visit, log |-> seen.log,
             match |-> seen.match]
  /\ seen.id \in Visits /\ seen.visit.status = "BOOKED" =>
       /\ IsVisit(seen.visit) /\ seen.visit.version >= 1
       /\ rows[VisitCell(seen.id)].version >= 1
       /\ SameVisit(seen.visit, rows[VisitCell(seen.id)])

\* As long as the ticket is at the version of the request, its visits are older.
Timely(me, rows) ==
  LET q == me.message.request IN
  q.op # "CREATE" /\ rows[TicketCell(q.ticket)].version = q.tver =>
    \A v \in Visits : rows[VisitCell(v)].ticket = q.ticket => rows[VisitCell(v)].created < me.began

PlanOk(me, rows) ==
  /\ \A w \in Planned(me) : WriteOk(w, me, rows)
  /\ \A w, x \in Planned(me) :
       w.cell \in Cells /\ x.cell \in Cells /\ IsBooking(w) /\ IsBooking(x) => w = x

\* What is executed is locked, still fits, and clashes with no row it does not itself end.
MadeOk(me, rows) ==
  \A w \in Made(me) :
    /\ w.cell \in me.locks
    /\ w.cell \in Cells => rows[w.cell].version = w.expect
    /\ w.cell \in Cells /\ IsBooking(w) =>
         \A v \in Visits : (\A x \in Made(me) : x.cell # VisitCell(v))
                             => ~Clash(w.row, rows[VisitCell(v)])

WorkOk(me, rows) ==
  /\ IsWork(me) /\ IsSequence(me.done) /\ IsSequence(me.todo) /\ me.began \in Nat
  /\ me.stage = "ACQUIRE" \/ me.reads # <<>> => me.todo = <<>> /\ me.done = <<>>
  /\ me.stage = "ACQUIRE" => me.locks = {}
  /\ SeenOk(me.seen, rows) /\ Timely(me, rows) /\ PlanOk(me, rows) /\ MadeOk(me, rows)

\* Sessions lock different rows, and what they have executed does not clash.
Apart(me, other) ==
  /\ me.locks \cap other.locks = {}
  /\ \A w \in Made(me), x \in Made(other) :
       w.cell \in Cells /\ x.cell \in Cells /\ w.cell[1] = "VISIT" /\ x.cell[1] = "VISIT"
         => ~Clash(w.row, x.row)

RowsOk ==
  /\ db \in [Cells -> {db[c] : c \in Cells}]
  /\ clock \in Nat
  /\ \A t \in Tickets : db[TicketCell(t)].version \in Nat
  /\ \A v \in Visits :
       /\ IsVisit(db[VisitCell(v)]) /\ db[VisitCell(v)].created < clock
       /\ db[VisitCell(v)].status = "BOOKED" =>
            db[VisitCell(v)].version >= 1 /\ db[VisitCell(v)].ticket \in Tickets

Exclusive == \A v, u \in Visits : u # v => ~Clash(db[VisitCell(v)], db[VisitCell(u)])

BookedLast ==
  \A v, u \in Visits :
    /\ db[VisitCell(v)].status = "BOOKED" /\ u # v
    /\ db[VisitCell(u)].ticket = db[VisitCell(v)].ticket
    => db[VisitCell(u)].created < db[VisitCell(v)].created

\* A request knows a version its ticket has had.
RequestsOk ==
  \A m \in sent : m.request.op # "CREATE" =>
    /\ m.request.ticket \in Tickets /\ m.request.tver \in Nat
    /\ m.request.tver <= db[TicketCell(m.request.ticket)].version

SessionsOk ==
  /\ \A s \in Sessions : session[s] # Idle =>
       WorkOk(session[s], db) /\ session[s].began < clock
  /\ \A s, o \in Sessions :
       s # o /\ session[s] # Idle /\ session[o] # Idle => Apart(session[s], session[o])

BInv == RowsOk /\ Exclusive /\ BookedLast /\ RequestsOk /\ SessionsOk

-----------------------------------------------------------------------------
(***************************************************************************)
(* What the operators return.                                              *)
(***************************************************************************)
LEMMA CellKinds ==
  /\ \A t \in Tickets : TicketCell(t) \in Cells /\ TicketCell(t)[1] = "TICKET"
  /\ \A v \in Visits : VisitCell(v) \in Cells
  /\ \A v : VisitCell(v)[1] = "VISIT"
  /\ \A v, u : VisitCell(v) = VisitCell(u) => v = u
  /\ \A t, v : TicketCell(t) # VisitCell(v)
  /\ \A c \in Cells : c[1] = "VISIT" => \E v \in Visits : c = VisitCell(v)
  BY DEF Cells, TicketCell, VisitCell, LogCell

LEMMA ClashSymmetric == \A row, other : Clash(row, other) => Clash(other, row)
  BY DEF Clash

LEMMA ApartSymmetric ==
  ASSUME NEW me, NEW other, Apart(me, other)
  PROVE  Apart(other, me)
  BY ClashSymmetric DEF Apart

\* A write on a visit books it or leaves it not booked.
LEMMA BookedByBooking ==
  ASSUME NEW me, NEW rows, NEW w \in Planned(me), NEW v \in Visits, w.cell = VisitCell(v),
         WriteOk(w, me, rows)
  PROVE  /\ IsVisit(w.row) \/ Booking(w, me)
         /\ IsBooking(w) => Booking(w, me)
         /\ ~IsBooking(w) => Ending(w, rows[w.cell])
         /\ w.row.status = "BOOKED" => IsBooking(w)
  <1>1. Booking(w, me) \/ Ending(w, rows[w.cell])
    BY DEF WriteOk
  <1>2. w.cell[1] = "VISIT"
    BY CellKinds
  <1>. QED  BY <1>1, <1>2 DEF Booking, Ending, IsBooking

\* What is planned, made and moved on by one statement.
LEMMA OneMore ==
  ASSUME NEW me, NEW more, IsSequence(me.done), IsSequence(me.todo), me.todo # <<>>,
         more.todo = Tail(me.todo), more.done = Append(me.done, Head(me.todo))
  PROVE  /\ Head(me.todo) \in Planned(me)
         /\ IsSequence(more.done) /\ IsSequence(more.todo)
         /\ Made(more) = Made(me) \cup {Head(me.todo)}
         /\ Planned(more) = Planned(me)
  <1>. DEFINE done == me.done
              todo == me.todo
              D == {done[i] : i \in DOMAIN done}
              T == {todo[i] : i \in DOMAIN todo}
              w == Head(todo)
  <1>1. done \in Seq(D) /\ todo \in Seq(T) /\ todo # <<>>
    BY DEF IsSequence
  <1>. HIDE DEF done, todo
  <1>2. /\ Len(todo) \in Nat \ {0} /\ DOMAIN todo = 1..Len(todo) /\ w = todo[1]
        /\ Tail(todo) \in Seq(T) /\ Len(Tail(todo)) = Len(todo) - 1
        /\ \A i \in 1..Len(Tail(todo)) : Tail(todo)[i] = todo[i + 1]
    BY <1>1, HeadTailProperties, LenProperties, EmptySeq
  <1>3. DOMAIN Tail(todo) = 1..(Len(todo) - 1)
    BY <1>2, LenProperties
  <1>4. T = {w} \cup {Tail(todo)[i] : i \in DOMAIN Tail(todo)}
    <2>1. ASSUME NEW i \in DOMAIN todo
          PROVE  todo[i] = w \/ todo[i] \in {Tail(todo)[j] : j \in DOMAIN Tail(todo)}
      <3>1. CASE i = 1
        BY <1>2, <3>1
      <3>2. CASE i # 1
        <4>1. i - 1 \in DOMAIN Tail(todo) /\ Tail(todo)[i - 1] = todo[i]
          BY <1>2, <1>3, <3>2
        <4>. QED  BY <4>1
      <3>. QED  BY <3>1, <3>2
    <2>2. ASSUME NEW j \in DOMAIN Tail(todo)
          PROVE  Tail(todo)[j] \in T
      <3>1. j + 1 \in DOMAIN todo /\ Tail(todo)[j] = todo[j + 1]
        BY <1>2, <1>3
      <3>. QED  BY <3>1
    <2>3. w \in T
      BY <1>2
    <2>. QED  BY <2>1, <2>2, <2>3
  <1>5. /\ Append(done, w) \in Seq(D \cup {w}) /\ Len(Append(done, w)) = Len(done) + 1
        /\ Len(done) \in Nat /\ DOMAIN done = 1..Len(done)
        /\ DOMAIN Append(done, w) = 1..(Len(done) + 1)
        /\ \A i \in 1..Len(done) : Append(done, w)[i] = done[i]
        /\ Append(done, w)[Len(done) + 1] = w
    <2>1. done \in Seq(D \cup {w})
      BY <1>1, SeqMonotonic
    <2>. QED  BY <1>1, <2>1, AppendProperties, LenProperties
  <1>6. {Append(done, w)[i] : i \in DOMAIN Append(done, w)} = D \cup {w}
    BY <1>5
  <1>7. IsSequence(Append(done, w))
    BY <1>5, <1>6 DEF IsSequence
  <1>8. IsSequence(Tail(todo))
    <2>. DEFINE rest == Tail(todo)
                n == Len(todo) - 1
    <2>1. n \in Nat /\ rest \in [1..n -> T] /\ DOMAIN rest = 1..n
      BY <1>2, <1>3, LenProperties
    <2>. HIDE DEF rest, n
    <2>2. rest \in [1..n -> {rest[i] : i \in DOMAIN rest}]
      BY <2>1
    <2>3. rest \in Seq({rest[i] : i \in DOMAIN rest})
      BY <2>1, <2>2, SeqDef
    <2>. QED  BY <2>3 DEF IsSequence, rest
  <1>. DEFINE R == {Tail(todo)[i] : i \in DOMAIN Tail(todo)}
  <1>9. Head(me.todo) = w /\ more.todo = Tail(todo) /\ more.done = Append(done, w)
    BY DEF done, todo
  <1>10. Made(me) = D /\ Made(more) = D \cup {w}
    BY <1>6, <1>9 DEF Made, done
  <1>11. Planned(me) = D \cup T /\ Planned(more) = (D \cup {w}) \cup R
    BY <1>9, <1>10 DEF Planned, done, todo
  <1>12. IsSequence(more.done) /\ IsSequence(more.todo)
    BY <1>7, <1>8, <1>9
  <1>13. T = {w} \cup R
    BY <1>4
  <1>. HIDE DEF D, T, R, w
  <1>. QED  BY <1>9, <1>10, <1>11, <1>12, <1>13

-----------------------------------------------------------------------------
(***************************************************************************)
(* Statements that write nothing committed.                                *)
(***************************************************************************)
\* One session goes on, ends or begins; rows and the other sessions stay as they are.
LEMMA SessionMoves ==
  ASSUME SessionsSound, BInv, NEW s \in Sessions, NEW me,
         session' = [session EXCEPT ![s] = me], db' = db, clock' \in Nat, clock <= clock',
         \/ me = Idle
         \/ /\ WorkOk(me, db) /\ me.began < clock'
            /\ \A o \in Sessions \ {s} : session[o] # Idle => Apart(me, session[o])
  PROVE  RowsOk' /\ Exclusive' /\ BookedLast' /\ SessionsOk'
<1>. USE DEF BInv
<1>1. RowsOk'
  <2>1. \A v \in Visits : db[VisitCell(v)].created \in Int
    BY DEF RowsOk, IsVisit
  <2>2. \A v \in Visits : db[VisitCell(v)].created < clock'
    BY <2>1 DEF RowsOk
  <2>. QED  BY <2>2 DEF RowsOk, IsVisit
<1>2. Exclusive' /\ BookedLast'
  BY DEF Exclusive, BookedLast
<1>3. session'[s] = me /\ \A o \in Sessions \ {s} : session'[o] = session[o]
  BY DEF SessionsSound
<1>4. ASSUME NEW o \in Sessions, session'[o] # Idle
      PROVE  WorkOk(session'[o], db) /\ session'[o].began < clock'
  <2>1. CASE o = s
    BY <1>3, <1>4, <2>1
  <2>2. CASE o # s
    <3>1. WorkOk(session[o], db) /\ session[o].began < clock /\ session'[o] = session[o]
      BY <1>3, <1>4, <2>2 DEF SessionsOk
    <3>2. session[o].began \in Nat /\ clock \in Nat
      BY <3>1 DEF WorkOk, RowsOk
    <3>. QED  BY <3>1, <3>2
  <2>. QED  BY <2>1, <2>2
<1>5. ASSUME NEW o \in Sessions, NEW x \in Sessions, o # x, session'[o] # Idle, session'[x] # Idle
      PROVE  Apart(session'[o], session'[x])
  <2>1. CASE o = s
    BY <1>3, <1>5, <2>1
  <2>2. CASE x = s
    BY <1>3, <1>5, <2>2, ApartSymmetric
  <2>3. CASE o # s /\ x # s
    BY <1>3, <1>5, <2>3 DEF SessionsOk
  <2>. QED  BY <2>1, <2>2, <2>3
<1>6. SessionsOk'
  <2>1. \A o \in Sessions : session'[o] # Idle => WorkOk(session'[o], db') /\ session'[o].began < clock'
    BY <1>4
  <2>. QED  BY <1>5, <2>1 DEF SessionsOk
<1>. QED  BY <1>1, <1>2, <1>6

\* A session that ends, whatever for, without having committed.
LEMMA ClosedQuietly ==
  ASSUME SessionsSound, BInv, NEW s \in Sessions, Close(s), UNCHANGED <<db, sent, clock>>
  PROVE  BInv'
<1>1. clock' \in Nat /\ clock <= clock' /\ db' = db
  BY DEF BInv, RowsOk
<1>2. session' = [session EXCEPT ![s] = Idle]
  BY DEF Close
<1>. HIDE DEF Idle
<1>3. RowsOk' /\ Exclusive' /\ BookedLast' /\ SessionsOk'
  BY <1>1, <1>2, SessionMoves
<1>4. RequestsOk'
  BY DEF BInv, RequestsOk
<1>. QED  BY <1>3, <1>4 DEF BInv

\* A session at work: what it is doing and what the others have locked.
LEMMA Working ==
  ASSUME SessionsSound, BInv, NEW s \in Sessions, session[s] # Idle
  PROVE  /\ WorkOk(session[s], db) /\ session[s].began < clock /\ clock \in Nat
         /\ session[s].message \in sent
         /\ session[s].stage \in {"ACQUIRE", "RUN"}
         /\ \A o \in Sessions \ {s} : session[o] # Idle => Apart(session[s], session[o])
  BY DEF BInv, SessionsOk, RowsOk, SessionsSound

\* A row that no statement waits for is locked by no other session.
LEMMA Unlocked ==
  ASSUME SessionsSound, BInv, NEW s \in Sessions, NEW c,
         \A o \in Sessions \ {s} : Running(o) => c \notin session[o].locks
  PROVE  \A o \in Sessions \ {s} : session[o] # Idle => c \notin session[o].locks
<1>. SUFFICES ASSUME NEW o \in Sessions \ {s}, session[o] # Idle  PROVE c \notin session[o].locks
  OBVIOUS
<1>1. session[o].stage \in {"ACQUIRE", "RUN"} /\ WorkOk(session[o], db)
  BY Working
<1>. QED  BY <1>1 DEF WorkOk, Running

LEMMA AcquireKeepsBookings ==
  ASSUME SessionsSound, BInv, NEW s \in Sessions, Acquire(s)
  PROVE  BInv'
<1>. DEFINE old == session[s]
            me == [old EXCEPT !.stage = "RUN"]
<1>1. /\ old.stage = "ACQUIRE" /\ session' = [session EXCEPT ![s] = me]
      /\ UNCHANGED <<db, sent, clock>>
  BY DEF Acquire
<1>2. old # Idle
  BY <1>1 DEF Idle
<1>3. /\ WorkOk(old, db) /\ old.began < clock /\ clock \in Nat
      /\ \A o \in Sessions \ {s} : session[o] # Idle => Apart(old, session[o])
  BY <1>2, Working
<1>4. /\ IsWork(me) /\ me.began = old.began /\ me.todo = old.todo /\ me.done = old.done
      /\ me.locks = old.locks /\ me.seen = old.seen /\ me.message = old.message /\ me.stage = "RUN"
  BY <1>3 DEF WorkOk, IsWork
<1>5. old.todo = <<>> /\ old.done = <<>>
  BY <1>1, <1>3 DEF WorkOk
<1>. HIDE DEF me, old
<1>6. Made(me) = {} /\ Planned(me) = {} /\ Made(old) = {}
  BY <1>4, <1>5 DEF Made, Planned
<1>7. WorkOk(me, db)
  BY <1>3, <1>4, <1>5, <1>6 DEF WorkOk, PlanOk, MadeOk, Timely
<1>8. \A o \in Sessions \ {s} : session[o] # Idle => Apart(me, session[o])
  BY <1>3, <1>4, <1>6 DEF Apart
<1>9. RowsOk' /\ Exclusive' /\ BookedLast' /\ SessionsOk'
  <2>1. session' = [session EXCEPT ![s] = me] /\ db' = db
    BY <1>1 DEF me, old
  <2>2. clock' \in Nat /\ clock <= clock' /\ me.began < clock'
    BY <1>1, <1>3, <1>4
  <2>. QED  BY <1>7, <1>8, <2>1, <2>2, SessionMoves
<1>10. RequestsOk'
  BY <1>1 DEF BInv, RequestsOk
<1>. QED  BY <1>9, <1>10 DEF BInv

\* What a client asks for is of a ticket, at the version the client sees.
LEMMA DraftsKnow ==
  ASSUME NEW q \in Drafts, q.op # "CREATE"
  PROVE  q.ticket \in Tickets /\ q.tver = db[TicketCell(q.ticket)].version
<1>1. ASSUME NEW op, NEW t \in Tickets
      PROVE  /\ About(op, t).ticket = t /\ About(op, t).tver = db[TicketCell(t)].version
             /\ AboutVisit(op, t).ticket = t
             /\ AboutVisit(op, t).tver = db[TicketCell(t)].version
             /\ \A x : /\ AtSlot(About(op, t), x).ticket = t
                       /\ AtSlot(About(op, t), x).tver = db[TicketCell(t)].version
                       /\ AtSlot(AboutVisit(op, t), x).ticket = t
                       /\ AtSlot(AboutVisit(op, t), x).tver = db[TicketCell(t)].version
                       /\ Disposing(About(op, t), x).ticket = t
                       /\ Disposing(About(op, t), x).tver = db[TicketCell(t)].version
                       /\ Reporting(AboutVisit(op, t), x).ticket = t
                       /\ Reporting(AboutVisit(op, t), x).tver = db[TicketCell(t)].version
  BY DEF About, AboutVisit, AtSlot, Disposing, Reporting, Blank
<1>2. \A x : [Blank("CREATE") EXCEPT !.subject = x].op = "CREATE"
  BY DEF Blank
<1>3. \/ \E t \in Tickets, x \in Slots : q = AtSlot(About("BOOK", t), x)
      \/ \E t \in Tickets, x \in Slots : q = AtSlot(AboutVisit("RESCHEDULE", t), x)
      \/ \E op \in {"ACCEPT", "ESCALATE"}, t \in Tickets : q = About(op, t)
      \/ \E t \in Tickets, x \in RecoveryDisposition : q = Disposing(About("RECOVER", t), x)
      \/ \E t \in Tickets, x \in WorkerEventType : q = Reporting(AboutVisit("EVENT", t), x)
  <2>1. ~(q \in {[Blank("CREATE") EXCEPT !.subject = x] : x \in Subjects})
    BY <1>2
  <2>. HIDE <1>2
  <2>. QED  BY <2>1 DEF Drafts
<1>4. CASE \E t \in Tickets, x \in Slots : q = AtSlot(About("BOOK", t), x)
  BY <1>1, <1>4
<1>5. CASE \E t \in Tickets, x \in Slots : q = AtSlot(AboutVisit("RESCHEDULE", t), x)
  BY <1>1, <1>5
<1>6. CASE \E op \in {"ACCEPT", "ESCALATE"}, t \in Tickets : q = About(op, t)
  BY <1>1, <1>6
<1>7. CASE \E t \in Tickets, x \in RecoveryDisposition : q = Disposing(About("RECOVER", t), x)
  BY <1>1, <1>7
<1>8. CASE \E t \in Tickets, x \in WorkerEventType : q = Reporting(AboutVisit("EVENT", t), x)
  BY <1>1, <1>8
<1>. QED  BY <1>3, <1>4, <1>5, <1>6, <1>7, <1>8

\* A session that begins is younger than every visit there is.
LEMMA DeliverKeepsBookings ==
  ASSUME SessionsSound, BInv, NEW s \in Sessions, NEW m, Deliver(s, m), sent' = sent \cup {m},
         m.request.op # "CREATE" =>
           /\ m.request.ticket \in Tickets /\ m.request.tver \in Nat
           /\ m.request.tver <= db[TicketCell(m.request.ticket)].version
  PROVE  BInv'
<1>. DEFINE me == [stage |-> "ACQUIRE", message |-> m, began |-> clock,
                   reads |-> Statements(m.request.op), seen |-> NothingSeen, todo |-> <<>>,
                   done |-> <<>>, locks |-> {}]
<1>1. session' = [session EXCEPT ![s] = me] /\ db' = db /\ clock' = clock + 1
  BY DEF Deliver
<1>2. clock \in Nat /\ \A v \in Visits : db[VisitCell(v)].created < clock
  BY DEF BInv, RowsOk
<1>3. SeenOk(me.seen, db)
  BY DEF SeenOk, NothingSeen, NoVisit, VisitRow
<1>4. /\ IsWork(me) /\ me.began = clock /\ me.todo = <<>> /\ me.done = <<>> /\ me.locks = {}
      /\ me.stage = "ACQUIRE"
  BY DEF IsWork
<1>. HIDE DEF me
<1>5. Made(me) = {} /\ Planned(me) = {} /\ IsSequence(me.done) /\ IsSequence(me.todo)
  BY <1>4 DEF Made, Planned, IsSequence
<1>6. WorkOk(me, db)
  BY <1>2, <1>3, <1>4, <1>5 DEF WorkOk, PlanOk, MadeOk, Timely
<1>7. \A o \in Sessions \ {s} : session[o] # Idle => Apart(me, session[o])
  BY <1>4, <1>5 DEF Apart
<1>8. RowsOk' /\ Exclusive' /\ BookedLast' /\ SessionsOk'
  <2>1. clock' \in Nat /\ clock <= clock' /\ me.began < clock'
    BY <1>1, <1>2, <1>4
  <2>. QED  BY <1>1, <1>6, <1>7, <2>1, SessionMoves
<1>9. RequestsOk'
  BY <1>1 DEF BInv, RequestsOk
<1>. QED  BY <1>8, <1>9 DEF BInv

LEMMA SubmitKeepsBookings ==
  ASSUME SessionsSound, BInv, NEW s \in Sessions, Submit(s) \/ Resubmit(s)
  PROVE  BInv'
<1>1. CASE Submit(s)
  <2>1. PICK k \in Keys, q \in Requests :
          /\ Deliver(s, [id |-> <<q.op, k>>, request |-> q])
          /\ sent' = sent \cup {[id |-> <<q.op, k>>, request |-> q]}
    BY <1>1 DEF Submit
  <2>2. q.op # "CREATE" => q.ticket \in Tickets /\ q.tver = db[TicketCell(q.ticket)].version
    BY DraftsKnow DEF Requests
  <2>3. \A t \in Tickets : db[TicketCell(t)].version \in Nat
    BY DEF BInv, RowsOk
  <2>. DEFINE m == [id |-> <<q.op, k>>, request |-> q]
  <2>4. m.request = q
    OBVIOUS
  <2>5. Deliver(s, m) /\ sent' = sent \cup {m}
    BY <2>1
  <2>. HIDE DEF m
  <2>. QED  BY <2>2, <2>3, <2>4, <2>5, DeliverKeepsBookings
<1>2. CASE Resubmit(s)
  <2>1. PICK m \in sent : Deliver(s, m) /\ sent' = sent
    BY <1>2 DEF Resubmit
  <2>2. sent' = sent \cup {m}
    BY <2>1
  <2>. QED  BY <2>1, <2>2, DeliverKeepsBookings DEF BInv, RequestsOk
<1>. QED  BY <1>1, <1>2

-----------------------------------------------------------------------------
(***************************************************************************)
(* What a handler sees and decides.                                        *)
(***************************************************************************)
LEMMA SeeVisitKeeps ==
  ASSUME RowsOk, NEW seen, SeenOk(seen, db), NEW v
  PROVE  SeenOk(SeeVisit(seen, v, db), db)
<1>. DEFINE row == IF v = None THEN NoVisit ELSE db[VisitCell(v)]
            now == SeeVisit(seen, v, db)
<1>1. now = [seen EXCEPT !.id = v, !.visit = row]
  BY DEF SeeVisit
<1>2. /\ now = [ticket |-> now.ticket, id |-> now.id, visit |-> now.visit, log |-> now.log,
                match |-> now.match]
      /\ now.id = v /\ now.visit = row
  <2>. HIDE DEF row
  <2>. QED  BY <1>1 DEF SeenOk
<1>3. CASE v = None
  <2>1. now.visit.status # "BOOKED"
    BY <1>2, <1>3 DEF NoVisit, VisitRow
  <2>. QED  BY <1>2, <2>1 DEF SeenOk
<1>4. CASE v # None
  <2>1. now.visit = db[VisitCell(v)]
    BY <1>2, <1>4
  <2>2. v \in Visits /\ now.visit.status = "BOOKED" =>
          IsVisit(now.visit) /\ now.visit.version >= 1
    BY <2>1 DEF RowsOk
  <2>. HIDE DEF now, row
  <2>3. SeenOk(now, db)
    BY <1>2, <2>1, <2>2 DEF SeenOk, SameVisit
  <2>. QED  BY <2>3 DEF now
<1>. QED  BY <1>3, <1>4

LEMMA SeeKeeps ==
  ASSUME RowsOk, NEW seen, SeenOk(seen, db), NEW what, NEW q
  PROVE  SeenOk(See(seen, what, q, db), db)
<1>1. ASSUME NEW now, now.id = seen.id, now.visit = seen.visit,
             now = [ticket |-> now.ticket, id |-> now.id, visit |-> now.visit, log |-> now.log,
                    match |-> now.match]
      PROVE  SeenOk(now, db)
  BY <1>1 DEF SeenOk
<1>2. CASE what = "MATCH"
  <2>. DEFINE x == \E t \in Tickets : /\ db[TicketCell(t)].subject = q.subject
                                      /\ db[TicketCell(t)].status \notin TerminalTicketStatus
  <2>1. See(seen, what, q, db) = [seen EXCEPT !.match = x]
    BY <1>2 DEF See
  <2>. HIDE DEF x
  <2>. QED  BY <1>1, <2>1 DEF SeenOk
<1>3. CASE what = "TICKET"
  <2>. DEFINE x == db[TicketCell(q.ticket)]
  <2>1. See(seen, what, q, db) = [seen EXCEPT !.ticket = x]
    BY <1>3 DEF See
  <2>. HIDE DEF x
  <2>. QED  BY <1>1, <2>1 DEF SeenOk
<1>4. CASE what = "LOG"
  <2>. DEFINE x == IF seen.id = None THEN <<>> ELSE db[LogCell(seen.id)].log
  <2>1. See(seen, what, q, db) = [seen EXCEPT !.log = x]
    BY <1>4 DEF See
  <2>. HIDE DEF x
  <2>. QED  BY <1>1, <2>1 DEF SeenOk
<1>5. CASE what = "LATEST"
  <2>1. See(seen, what, q, db) = SeeVisit(seen, LatestOf(q.ticket, db), db)
    BY <1>5 DEF See
  <2>. QED  BY <2>1, SeeVisitKeeps
<1>6. CASE what \notin {"MATCH", "TICKET", "LOG", "LATEST"}
  <2>1. See(seen, what, q, db) = SeeVisit(seen, q.visit, db)
    BY <1>6 DEF See
  <2>. QED  BY <2>1, SeeVisitKeeps
<1>. QED  BY <1>2, <1>3, <1>4, <1>5, <1>6

LEMMA MoveIs ==
  ASSUME NEW q, NEW seen, NEW to, NEW rework, seen.ticket.version = q.tver, q.tver \in Nat
  PROVE  LET w == MoveTicket(q, seen, to, rework) IN
         /\ w.cell = TicketCell(q.ticket) /\ w.expect = q.tver
         /\ \A me : WriteOk(w, me, db)
         /\ ~IsBooking(w)
<1>. DEFINE w == MoveTicket(q, seen, to, rework)
<1>1. w.cell = TicketCell(q.ticket) /\ w.expect = q.tver /\ w.row.version = q.tver + 1
  BY DEF MoveTicket, Write, TicketRow
<1>. HIDE DEF w
<1>2. \A v : w.cell # VisitCell(v)
  BY <1>1, CellKinds
<1>3. \A me : WriteOk(w, me, db)
  BY <1>1, <1>2 DEF WriteOk
<1>4. ~IsBooking(w)
  BY <1>1 DEF IsBooking, TicketCell
<1>. QED  BY <1>1, <1>3, <1>4 DEF w

LEMMA EndIs ==
  ASSUME RowsOk, NEW seen, SeenOk(seen, db), seen.visit.status = "BOOKED", NEW to, to # "BOOKED"
  PROVE  LET w == EndVisit(seen, to) IN
         /\ \A me : WriteOk(w, me, db)
         /\ w.cell \in Cells => ~IsBooking(w)
<1>. DEFINE old == seen.visit
            row == [old EXCEPT !.status = to, !.version = @ + 1]
            w == EndVisit(seen, to)
<1>1. w.cell = VisitCell(seen.id) /\ w.expect = old.version /\ w.row = row
  BY DEF EndVisit, Write
<1>2. CASE seen.id \in Visits
  <2>1. /\ IsVisit(old) /\ old.version >= 1 /\ old.version \in Nat
        /\ db[VisitCell(seen.id)].version >= 1 /\ SameVisit(old, db[VisitCell(seen.id)])
    BY <1>2 DEF SeenOk, IsVisit
  <2>. HIDE DEF old, w
  <2>2. /\ row.status = to /\ row.version = old.version + 1
        /\ row.ticket = old.ticket /\ row.created = old.created /\ IsVisit(row)
    <3>1. PICK st, ve, ti, sl, pu, cr :
            old = VisitRow(st, ve, ti, sl, pu, cr)
      BY <2>1 DEF IsVisit
    <3>2. ve \in Nat /\ cr \in Int
      BY <2>1, <3>1 DEF IsVisit, VisitRow
    <3>3. row = VisitRow(to, ve + 1, ti, sl, pu, cr)
      <4>1. [VisitRow(st, ve, ti, sl, pu, cr) EXCEPT !.status = to, !.version = @ + 1]
              = VisitRow(to, ve + 1, ti, sl, pu, cr)
        <5>1. [VisitRow(st, ve, ti, sl, pu, cr) EXCEPT !.status = to] = VisitRow(to, ve, ti, sl, pu, cr)
          BY DEF VisitRow
        <5>2. [VisitRow(to, ve, ti, sl, pu, cr) EXCEPT !.version = ve + 1]
                = VisitRow(to, ve + 1, ti, sl, pu, cr)
          BY DEF VisitRow
        <5>3. VisitRow(st, ve, ti, sl, pu, cr).version = ve
          BY DEF VisitRow
        <5>. QED  BY <5>1, <5>2, <5>3, Zenon
      <4>2. row = [VisitRow(st, ve, ti, sl, pu, cr) EXCEPT !.status = to, !.version = @ + 1]
        BY <3>1, Zenon
      <4>. QED  BY <4>1, <4>2, Zenon
    <3>. HIDE DEF row
    <3>. QED  BY <3>1, <3>2, <3>3 DEF IsVisit, VisitRow
  <2>3. Ending(w, db[w.cell])
    BY <1>1, <2>1, <2>2 DEF Ending, SameVisit
  <2>4. ~IsBooking(w)
    BY <1>1, <2>1 DEF IsBooking
  <2>5. \A me : WriteOk(w, me, db)
    BY <1>1, <2>3, CellKinds DEF WriteOk
  <2>. QED  BY <2>4, <2>5 DEF w
<1>3. CASE seen.id \notin Visits
  <2>. HIDE DEF w
  <2>1. w.cell[1] = "VISIT" /\ \A v \in Visits : w.cell # VisitCell(v)
    BY <1>1, <1>3, CellKinds
  <2>2. w.cell \notin Cells /\ \A t \in Tickets : w.cell # TicketCell(t)
    BY <2>1, CellKinds
  <2>3. \A me : WriteOk(w, me, db)
    BY <2>1, <2>2 DEF WriteOk
  <2>. QED  BY <2>2, <2>3 DEF w
<1>. QED  BY <1>2, <1>3

LEMMA AddIs ==
  ASSUME NEW me, NEW q, q = me.message.request, NEW w, NEW v, NEW purpose,
         w = Write(VisitCell(v), 0, VisitRow("BOOKED", 1, q.ticket, q.slot, purpose, me.began)),
         q.op \in {"BOOK", "RESCHEDULE"},
         \E x \in Planned(me) : x.cell = TicketCell(q.ticket) /\ x.expect = q.tver
  PROVE  WriteOk(w, me, db)
<1>1. /\ w.cell = VisitCell(v) /\ w.expect = 0
      /\ w.row = VisitRow("BOOKED", 1, q.ticket, q.slot, purpose, me.began)
  BY DEF Write
<1>2. w.row.slot = q.slot /\ w.row.purpose = purpose
  BY <1>1 DEF VisitRow
<1>3. Booking(w, me)
  BY <1>1, <1>2 DEF Booking
<1>4. \A t : w.cell # TicketCell(t)
  BY <1>1, CellKinds
<1>. QED  BY <1>3, <1>4 DEF WriteOk

LEMMA OtherIs ==
  ASSUME NEW w, \/ \E v : w.cell = LogCell(v)
                \/ (\E t : w.cell = TicketCell(t)) /\ w.expect = 0 /\ w.row.version = 1
  PROVE  (\A me : WriteOk(w, me, db)) /\ ~IsBooking(w)
<1>1. \A v : w.cell # VisitCell(v)
  BY CellKinds DEF LogCell, VisitCell, TicketCell
<1>2. w.cell[1] # "VISIT"
  BY DEF LogCell, TicketCell
<1>3. \A t : w.cell = TicketCell(t) => w.expect = 0 /\ w.row.version = 1
  BY DEF LogCell, TicketCell
<1>4. \A me : WriteOk(w, me, db)
  BY <1>1, <1>3 DEF WriteOk
<1>. QED  BY <1>2, <1>4 DEF IsBooking

LEMMA SequenceOf ==
  ASSUME NEW T, NEW e \in Seq(T)
  PROVE  IsSequence(e) /\ {e[i] : i \in DOMAIN e} \subseteq T
<1>1. Len(e) \in Nat /\ e \in [1..Len(e) -> T] /\ DOMAIN e = 1..Len(e)
  BY LenProperties
<1>2. e \in [1..Len(e) -> {e[i] : i \in DOMAIN e}]
  BY <1>1
<1>3. e \in Seq({e[i] : i \in DOMAIN e})
  BY <1>1, <1>2, SeqDef
<1>. QED  BY <1>1, <1>3 DEF IsSequence

\* A plan in which only one write books.
LEMMA PlanOf ==
  ASSUME NEW me, NEW T, NEW last, me.done = <<>>, me.todo \in Seq(T),
         \A w \in T : /\ WriteOk(w, me, db)
                      /\ w.cell \in Cells /\ IsBooking(w) => w = last
  PROVE  IsSequence(me.todo) /\ PlanOk(me, db)
<1>1. IsSequence(me.todo) /\ {me.todo[i] : i \in DOMAIN me.todo} \subseteq T
  BY SequenceOf
<1>2. Planned(me) \subseteq T
  BY <1>1 DEF Planned, Made
<1>. QED  BY <1>1, <1>2 DEF PlanOk

\* Whatever a handler decides on, only its last write may book a visit, and it comes with
\* the update of the ticket at the version of the request.
LEMMA WritesSound ==
  ASSUME RowsOk, NEW me, me.done = <<>>, NEW seen, SeenOk(seen, db), NEW new,
         me.message.request.op \in Operations, Allowed(me.message.request, seen),
         me.message.request.op # "CREATE" => me.message.request.tver \in Nat,
         me.todo = Writes(me.message.request, seen, new, me.began)
  PROVE  IsSequence(me.todo) /\ PlanOk(me, db)
<1>. DEFINE q == me.message.request
            Plain(w) == WriteOk(w, me, db) /\ (w.cell \in Cells => ~IsBooking(w))
<1>1. ASSUME NEW T, me.todo \in Seq(T), \A w \in T : Plain(w)
      PROVE  IsSequence(me.todo) /\ PlanOk(me, db)
  <2>1. \A w \in T : WriteOk(w, me, db) /\ (w.cell \in Cells /\ IsBooking(w) => w = 0)
    BY <1>1
  <2>. QED  BY <1>1, <2>1, PlanOf
<1>2. q.op # "CREATE" => seen.ticket.version = q.tver /\ q.tver \in Nat
  BY DEF Allowed, VersionsMatch
<1>3. q.op # "CREATE" => \A to, rework :
        LET w == MoveTicket(q, seen, to, rework) IN
        Plain(w) /\ w.cell = TicketCell(q.ticket) /\ w.expect = q.tver
  BY <1>2, MoveIs
<1>4. seen.visit.status = "BOOKED" => \A to : to # "BOOKED" => Plain(EndVisit(seen, to))
  BY EndIs
<1>5. CASE q.op = "CREATE"
  <2>. DEFINE w == Write(TicketCell(new.ticket), 0, TicketRow("OPEN", 1, 0, "NONE", q.subject))
  <2>1. me.todo = <<w>>
    BY <1>5 DEF Writes
  <2>2. w.cell = TicketCell(new.ticket) /\ w.expect = 0 /\ w.row.version = 1
    BY DEF Write, TicketRow
  <2>. HIDE DEF w
  <2>3. Plain(w)
    BY <2>2, OtherIs
  <2>4. me.todo \in Seq({w})
    BY <2>1
  <2>5. \A x \in {w} : Plain(x)
    BY <2>3
  <2>. HIDE DEF Plain
  <2>. QED  BY <1>1, <2>4, <2>5
<1>6. CASE q.op \in {"ESCALATE", "RECOVER"}
  <2>1. PICK to, rework : me.todo = <<MoveTicket(q, seen, to, rework)>>
    BY <1>6 DEF Writes
  <2>. DEFINE w == MoveTicket(q, seen, to, rework)
  <2>2. Plain(w)
    BY <1>3, <1>6
  <2>3. me.todo = <<w>>
    BY <2>1
  <2>. HIDE DEF w
  <2>4. me.todo \in Seq({w})
    BY <2>3
  <2>. QED  BY <1>1, <2>2, <2>4
<1>7. CASE q.op = "ACCEPT"
  <2>. DEFINE a == MoveTicket(q, seen, "CLOSED", seen.ticket.rework)
              e == EndVisit(seen, "FULFILLED")
              T == {w \in {a, e} : Plain(w)}
              first == IF seen.visit.status = "BOOKED" THEN <<e>> ELSE <<>>
  <2>1. me.todo = first \o <<a>>
    BY <1>7 DEF Writes
  <2>2. a \in T
    BY <1>3, <1>7
  <2>3. seen.visit.status = "BOOKED" => e \in T
    BY <1>4
  <2>. HIDE DEF a, e
  <2>4. first \in Seq(T) /\ <<a>> \in Seq(T)
    <3>. HIDE DEF T
    <3>. QED  BY <2>2, <2>3
  <2>5. me.todo \in Seq(T)
    BY <2>1, <2>4, ConcatProperties
  <2>. QED  BY <1>1, <2>5
<1>8. CASE q.op = "EVENT"
  <2>. DEFINE to == TicketAfter(q.evt, seen.visit.purpose, q.disposition, seen.ticket.status)
              rework == IF q.evt = "FAILED_TO_COMPLETE" /\ q.disposition = "REWORK" THEN 1 ELSE 0
              after == AppointmentAfter(q.evt)
              a == MoveTicket(q, seen, to, seen.ticket.rework + rework)
              e == EndVisit(seen, after)
              l == Write(LogCell(seen.id), Len(seen.log), LogRow(Append(seen.log, q.evt)))
              first == IF to # seen.ticket.status THEN <<a>> ELSE <<>>
              second == IF after # "BOOKED" THEN <<e>> ELSE <<>>
              T == {w \in {a, e, l} : Plain(w)}
  <2>1. me.todo = first \o second \o <<l>>
    BY <1>8 DEF Writes
  <2>2. a \in T
    BY <1>3, <1>8
  <2>3. after # "BOOKED" => e \in T
    BY <1>4, <1>8 DEF Allowed
  <2>4. l.cell = LogCell(seen.id)
    BY DEF Write
  <2>. HIDE DEF a, e, l, after, to
  <2>5. l \in T
    BY <2>4, OtherIs
  <2>6. first \in Seq(T) /\ second \in Seq(T) /\ <<l>> \in Seq(T)
    <3>. HIDE DEF T
    <3>. QED  BY <2>2, <2>3, <2>5
  <2>. HIDE DEF first, second
  <2>. HIDE DEF l
  <2>7. me.todo \in Seq(T)
    BY SMTT(30), <2>1, <2>6, ConcatProperties
  <2>8. \A x \in T : Plain(x)
    OBVIOUS
  <2>. HIDE DEF T, Plain
  <2>. QED  BY <1>1, <2>7, <2>8
<1>9. CASE q.op \in {"BOOK", "RESCHEDULE"}
  <2>. DEFINE a == MoveTicket(q, seen, "SCHEDULED", seen.ticket.rework)
              e == EndVisit(seen, "SUPERSEDED")
  <2>1. PICK purpose :
          me.todo = IF q.op = "BOOK" THEN <<a, AddVisit(q, seen, new, me.began, purpose)>>
                    ELSE <<a, e, AddVisit(q, seen, new, me.began, purpose)>>
    BY <1>9 DEF Writes
  <2>. DEFINE b == AddVisit(q, seen, new, me.began, purpose)
              T == {w \in {a, e} : Plain(w)} \cup {b}
  <2>2. Plain(a) /\ a.cell = TicketCell(q.ticket) /\ a.expect = q.tver
    BY <1>3, <1>9
  <2>3. q.op = "RESCHEDULE" => Plain(e)
    BY <1>4 DEF Allowed
  <2>4. me.todo = IF q.op = "BOOK" THEN <<a, b>> ELSE <<a, e, b>>
    BY <2>1
  <2>. HIDE DEF a, e
  <2>5. a \in Planned(me)
    <3>1. 1 \in DOMAIN me.todo /\ me.todo[1] = a
      BY <1>9, <2>4
    <3>. QED  BY <3>1 DEF Planned
  <2>6. WriteOk(b, me, db)
    <3>1. \E x \in Planned(me) : x.cell = TicketCell(q.ticket) /\ x.expect = q.tver
      BY <2>2, <2>5
    <3>2. b = Write(VisitCell(new.visit), 0,
                    VisitRow("BOOKED", 1, q.ticket, q.slot, purpose, me.began))
      BY DEF AddVisit
    <3>. HIDE DEF b, q
    <3>3. q = me.message.request
      BY DEF q
    <3>. QED  BY <1>9, <3>1, <3>2, <3>3, AddIs
  <2>. HIDE DEF b
  <2>7. me.todo \in Seq(T)
    <3>1. a \in T /\ b \in T /\ (q.op = "RESCHEDULE" => e \in T)
      BY <2>2, <2>3
    <3>. HIDE DEF T
    <3>. QED  BY <1>9, <2>4, <3>1
  <2>8. \A w \in T : WriteOk(w, me, db) /\ (w.cell \in Cells /\ IsBooking(w) => w = b)
    BY <2>6
  <2>. QED  BY <2>7, <2>8, PlanOf
<1>. QED  BY <1>5, <1>6, <1>7, <1>8, <1>9 DEF Operations

LEMMA SamePlan ==
  ASSUME NEW me, NEW more, more.message = me.message, more.began = me.began,
         Planned(more) = Planned(me), PlanOk(me, db)
  PROVE  PlanOk(more, db)
<1>1. \A w : Booking(w, me) => Booking(w, more)
  BY DEF Booking
<1>2. \A w : WriteOk(w, me, db) => WriteOk(w, more, db)
  BY <1>1 DEF WriteOk
<1>. QED  BY <1>2 DEF PlanOk

\* What a statement that does not refuse makes of its session.
LEMMA ReadIs ==
  ASSUME SessionsSound, BInv, NEW s \in Sessions, Read(s), ~Refuse(s)
  PROVE  LET old == session[s]
             q == Request(s)
             what == Head(old.reads)
         IN \E me, new :
              /\ session' = [session EXCEPT ![s] = me]
              /\ IsWork(me) /\ me.began = old.began /\ me.message = old.message
              /\ me.stage = "RUN" /\ me.done = <<>> /\ me.reads = Tail(old.reads)
              /\ me.seen = See(old.seen, what, q, db)
              /\ me.locks = IF what = "LOCK" THEN old.locks \cup {VisitCell(q.visit)}
                            ELSE old.locks
              /\ me.todo = IF Len(old.reads) > 1 THEN <<>>
                           ELSE Writes(q, me.seen, new, me.began)
              /\ Len(old.reads) > 1 \/ Allowed(q, me.seen)
<1>. DEFINE old == session[s]
            q == Request(s)
            what == Head(old.reads)
            now == See(old.seen, what, q, db)
            new == [ticket |-> Fresh(Tickets, "TICKET"), visit |-> Fresh(Visits, "VISIT")]
            reads == Tail(old.reads)
            locks == IF what = "LOCK" THEN old.locks \cup {VisitCell(q.visit)} ELSE old.locks
            todo == IF Len(old.reads) > 1 THEN <<>> ELSE Writes(q, now, new, old.began)
            me == [old EXCEPT !.reads = reads, !.seen = now, !.locks = locks, !.todo = todo]
<1>1. Running(s) /\ old.reads # <<>>
  BY DEF Read
<1>2. Len(old.reads) > 1 \/ Allowed(q, now)
  BY DEF Read
<1>3. session' = [session EXCEPT ![s] = me]
  BY DEF Read
<1>4. session[s] # Idle /\ old.stage = "RUN"
  BY <1>1 DEF Running, Idle
<1>5. IsWork(old) /\ old.done = <<>>
  BY <1>1, <1>4, Working DEF WorkOk
<1>. HIDE DEF now, new, todo, reads, locks, q, what
<1>6. /\ IsWork(me) /\ me.began = old.began /\ me.todo = todo /\ me.done = <<>>
      /\ me.locks = locks /\ me.seen = now /\ me.message = old.message /\ me.stage = "RUN"
      /\ me.reads = reads
  <2>1. PICK a, b, c, d, e, f, g, h :
          old = [stage |-> a, message |-> b, began |-> c, reads |-> d, seen |-> e, todo |-> f,
                 done |-> g, locks |-> h]
    BY <1>5 DEF IsWork
  <2>2. a = old.stage /\ b = old.message /\ c = old.began /\ g = old.done
    BY <2>1
  <2>. HIDE DEF old
  <2>. DEFINE is(r, n, l, t) == [stage |-> a, message |-> b, began |-> c, reads |-> r, seen |-> n,
                                 todo |-> t, done |-> g, locks |-> l]
  <2>3. me = is(reads, now, locks, todo)
    <3>1. [old EXCEPT !.reads = reads] = is(reads, e, h, f)
      BY <2>1
    <3>2. [is(reads, e, h, f) EXCEPT !.seen = now] = is(reads, now, h, f)
      OBVIOUS
    <3>3. [is(reads, now, h, f) EXCEPT !.locks = locks] = is(reads, now, locks, f)
      OBVIOUS
    <3>4. [is(reads, now, locks, f) EXCEPT !.todo = todo] = is(reads, now, locks, todo)
      OBVIOUS
    <3>. HIDE DEF is
    <3>. QED  BY <3>1, <3>2, <3>3, <3>4
  <2>. HIDE DEF me
  <2>. QED  BY <1>4, <1>5, <2>2, <2>3 DEF IsWork
<1>. HIDE DEF me
<1>7. /\ me.locks = IF what = "LOCK" THEN old.locks \cup {VisitCell(q.visit)} ELSE old.locks
      /\ me.todo = IF Len(old.reads) > 1 THEN <<>> ELSE Writes(q, me.seen, new, me.began)
      /\ me.reads = Tail(old.reads) /\ me.seen = See(old.seen, what, q, db)
  BY <1>6 DEF locks, todo, reads, now
<1>. QED  BY <1>2, <1>3, <1>6, <1>7 DEF q, what, me

LEMMA ReadKeepsBookings ==
  ASSUME SessionsSound, MessagesSound, BInv, NEW s \in Sessions, Read(s)
  PROVE  BInv'
<1>. DEFINE old == session[s]
            q == Request(s)
            what == Head(old.reads)
<1>1. Running(s) /\ old.reads # <<>> /\ ~Blocked(s) /\ UNCHANGED <<db, sent, clock>>
  BY DEF Read, Refuse
<1>2. CASE Refuse(s)
  BY <1>1, <1>2, ClosedQuietly DEF Refuse
<1>3. CASE ~Refuse(s)
  <2>1. PICK me, new :
          /\ session' = [session EXCEPT ![s] = me]
          /\ IsWork(me) /\ me.began = old.began /\ me.message = old.message
          /\ me.stage = "RUN" /\ me.done = <<>> /\ me.reads = Tail(old.reads)
          /\ me.seen = See(old.seen, what, q, db)
          /\ me.locks = IF what = "LOCK" THEN old.locks \cup {VisitCell(q.visit)} ELSE old.locks
          /\ me.todo = IF Len(old.reads) > 1 THEN <<>> ELSE Writes(q, me.seen, new, me.began)
          /\ Len(old.reads) > 1 \/ Allowed(q, me.seen)
    BY <1>3, ReadIs
  <2>2. session[s] # Idle /\ old.stage = "RUN" /\ old.message.request = q
    BY <1>1 DEF Running, Idle, Request
  <2>3. /\ WorkOk(old, db) /\ old.began < clock /\ clock \in Nat /\ old.message \in sent
        /\ \A o \in Sessions \ {s} : session[o] # Idle => Apart(old, session[o])
    BY <2>2, Working
  <2>4. SeenOk(old.seen, db) /\ Timely(old, db) /\ old.began \in Nat
    BY <2>3 DEF WorkOk
  <2>5. RowsOk
    BY DEF BInv
  <2>6. SeenOk(me.seen, db)
    BY <2>1, <2>4, <2>5, SeeKeeps
  <2>7. q.op \in Operations /\ (q.op # "CREATE" => q.tver \in Nat)
    BY <2>2, <2>3 DEF MessagesSound, MessageSound, BInv, RequestsOk
  <2>. HIDE DEF q, what
  <2>8. IsSequence(me.todo) /\ PlanOk(me, db)
    <3>1. CASE Len(old.reads) > 1
      <4>1. me.todo = <<>> /\ me.done = <<>>
        BY <2>1, <3>1
      <4>2. Planned(me) = {} /\ IsSequence(me.todo)
        BY <4>1 DEF Planned, Made, IsSequence
      <4>. QED  BY <4>2 DEF PlanOk
    <3>2. CASE ~(Len(old.reads) > 1)
      <4>1. me.todo = Writes(q, me.seen, new, me.began) /\ me.message.request = q
        BY <2>1, <2>2, <3>2
      <4>. QED  BY <2>1, <2>5, <2>6, <2>7, <3>2, <4>1, WritesSound
    <3>. QED  BY <3>1, <3>2
  <2>9. Made(me) = {}
    BY <2>1 DEF Made
  <2>10. me.reads # <<>> => me.todo = <<>>
    <3>1. CASE Len(old.reads) > 1
      BY <2>1, <3>1
    <3>2. CASE ~(Len(old.reads) > 1)
      <4>1. me.reads = Tail(old.reads)
        BY <2>1
      <4>. QED  BY <1>1, <3>2, <4>1
    <3>. QED  BY <3>1, <3>2
  <2>11. WorkOk(me, db)
    <3>1. MadeOk(me, db)
      BY <2>9 DEF MadeOk
    <3>2. Timely(me, db)
      BY <2>1, <2>4 DEF Timely
    <3>3. IsSequence(me.done)
      BY <2>1 DEF IsSequence
    <3>. QED  BY <2>1, <2>4, <2>6, <2>8, <2>10, <3>1, <3>2, <3>3 DEF WorkOk
  <2>12. \A o \in Sessions \ {s} : session[o] # Idle => Apart(me, session[o])
    <3>1. ASSUME NEW o \in Sessions \ {s}, session[o] # Idle
          PROVE  me.locks \cap session[o].locks = {}
      <4>1. old.locks \cap session[o].locks = {}
        BY <2>3, <3>1 DEF Apart
      <4>2. CASE what = "LOCK"
        <5>1. \A x \in Sessions \ {s} : Running(x) => VisitCell(q.visit) \notin session[x].locks
          BY <1>1, <4>2 DEF Blocked, AwaitsSession, AwaitsLock, q, what
        <5>2. VisitCell(q.visit) \notin session[o].locks
          BY <3>1, <5>1, Unlocked
        <5>. QED  BY <2>1, <4>1, <4>2, <5>2
      <4>3. CASE what # "LOCK"
        BY <2>1, <4>1, <4>3
      <4>. QED  BY <4>2, <4>3
    <3>. QED  BY <2>9, <3>1 DEF Apart
  <2>13. RowsOk' /\ Exclusive' /\ BookedLast' /\ SessionsOk'
    <3>1. clock' \in Nat /\ clock <= clock' /\ db' = db /\ me.began < clock'
      BY <1>1, <2>1, <2>3
    <3>. QED  BY <2>1, <2>11, <2>12, <3>1, SessionMoves
  <2>14. RequestsOk'
    BY <1>1 DEF BInv, RequestsOk
  <2>. QED  BY <2>13, <2>14 DEF BInv
<1>. QED  BY <1>2, <1>3

LEMMA ExecuteIs ==
  ASSUME SessionsSound, BInv, NEW s \in Sessions, Execute(s), StillFits(s, Next1(s))
  PROVE  LET old == session[s] IN
         \E me : /\ session' = [session EXCEPT ![s] = me]
                /\ IsWork(me) /\ me.began = old.began /\ me.message = old.message
                /\ me.seen = old.seen /\ me.stage = "RUN" /\ me.reads = <<>>
                /\ me.todo = Tail(old.todo) /\ me.done = Append(old.done, Head(old.todo))
                /\ me.locks = old.locks \cup {Head(old.todo).cell}
<1>. DEFINE old == session[s]
            todo == Tail(old.todo)
            done == Append(old.done, Head(old.todo))
            locks == old.locks \cup {Head(old.todo).cell}
            me == [old EXCEPT !.todo = todo, !.done = done, !.locks = locks]
<1>1. Running(s) /\ old.todo # <<>>
  BY DEF Execute
<1>2. session' = [session EXCEPT ![s] = me]
  BY DEF Execute, Next1
<1>3. session[s] # Idle /\ old.stage = "RUN"
  BY <1>1 DEF Running, Idle
<1>4. IsWork(old) /\ old.reads = <<>>
  BY <1>1, <1>3, Working DEF WorkOk
<1>. HIDE DEF todo, done, locks
<1>5. /\ IsWork(me) /\ me.began = old.began /\ me.todo = todo /\ me.done = done
      /\ me.locks = locks /\ me.seen = old.seen /\ me.message = old.message
      /\ me.stage = "RUN" /\ me.reads = <<>>
  <2>1. PICK a, b, c, d, e, f, g, h :
          old = [stage |-> a, message |-> b, began |-> c, reads |-> d, seen |-> e, todo |-> f,
                 done |-> g, locks |-> h]
    BY <1>4 DEF IsWork
  <2>2. a = old.stage /\ b = old.message /\ c = old.began /\ d = old.reads /\ e = old.seen
    BY <2>1
  <2>. HIDE DEF old
  <2>. DEFINE is(t, n, l) == [stage |-> a, message |-> b, began |-> c, reads |-> d, seen |-> e,
                              todo |-> t, done |-> n, locks |-> l]
  <2>3. me = is(todo, done, locks)
    <3>1. [old EXCEPT !.todo = todo] = is(todo, g, h)
      BY <2>1
    <3>2. [is(todo, g, h) EXCEPT !.done = done] = is(todo, done, h)
      OBVIOUS
    <3>3. [is(todo, done, h) EXCEPT !.locks = locks] = is(todo, done, locks)
      OBVIOUS
    <3>. HIDE DEF is
    <3>. QED  BY <3>1, <3>2, <3>3
  <2>. HIDE DEF me
  <2>. QED  BY <1>3, <1>4, <2>2, <2>3 DEF IsWork
<1>. HIDE DEF me
<1>. QED  BY <1>2, <1>5 DEF me, todo, done, locks

LEMMA ExecuteKeepsBookings ==
  ASSUME SessionsSound, BInv, NEW s \in Sessions, Execute(s)
  PROVE  BInv'
<1>. DEFINE old == session[s]
            w == Head(old.todo)
<1>1. Running(s) /\ old.todo # <<>> /\ ~Blocked(s) /\ UNCHANGED <<db, sent, clock>>
  BY DEF Execute, Refuse
<1>2. CASE ~StillFits(s, w)
  BY <1>1, <1>2, ClosedQuietly DEF Execute, Refuse, Next1
<1>3. CASE StillFits(s, w)
  <2>1. PICK me :
          /\ session' = [session EXCEPT ![s] = me]
          /\ IsWork(me) /\ me.began = old.began /\ me.message = old.message
          /\ me.seen = old.seen /\ me.stage = "RUN" /\ me.reads = <<>>
          /\ me.todo = Tail(old.todo) /\ me.done = Append(old.done, w)
          /\ me.locks = old.locks \cup {w.cell}
    BY <1>3, ExecuteIs DEF Next1
  <2>2. session[s] # Idle /\ old.stage = "RUN"
    BY <1>1 DEF Running, Idle
  <2>3. /\ WorkOk(old, db) /\ old.began < clock /\ clock \in Nat
        /\ \A o \in Sessions \ {s} : session[o] # Idle => Apart(old, session[o])
    BY <2>2, Working
  <2>4. /\ IsSequence(old.done) /\ IsSequence(old.todo) /\ old.began \in Nat
        /\ SeenOk(old.seen, db) /\ Timely(old, db) /\ PlanOk(old, db) /\ MadeOk(old, db)
        /\ old.reads = <<>>
    BY <1>1, <2>3 DEF WorkOk
  <2>. HIDE DEF w
  <2>5. /\ w \in Planned(old) /\ IsSequence(me.done) /\ IsSequence(me.todo)
        /\ Made(me) = Made(old) \cup {w} /\ Planned(me) = Planned(old)
    <3>1. me.todo = Tail(old.todo) /\ me.done = Append(old.done, Head(old.todo))
      BY <2>1 DEF w
    <3>. QED  BY <1>1, <2>4, <3>1, OneMore DEF w
  <2>6. PlanOk(me, db) /\ Timely(me, db)
    <3>1. PlanOk(me, db)
      BY <2>4, <2>1, <2>5, SamePlan
    <3>. QED  BY <2>4, <2>1, <3>1 DEF Timely
  <2>7. MadeOk(me, db)
    <3>1. ASSUME NEW x \in Made(old)
          PROVE  /\ x.cell \in me.locks
                 /\ x.cell \in Cells => db[x.cell].version = x.expect
                 /\ x.cell \in Cells /\ IsBooking(x) =>
                      \A v \in Visits : (\A y \in Made(me) : y.cell # VisitCell(v))
                                          => ~Clash(x.row, db[VisitCell(v)])
      BY <2>4, <2>1, <2>5 DEF MadeOk
    <3>2. /\ w.cell \in me.locks /\ db[w.cell].version = w.expect
          /\ IsBooking(w) =>
               \A v \in Visits : (\A y \in Made(me) : y.cell # VisitCell(v))
                                   => ~Clash(w.row, db[VisitCell(v)])
      <4>1. w.cell \in me.locks
        BY <2>1
      <4>2. ASSUME NEW v \in Visits, \A y \in Made(me) : y.cell # VisitCell(v)
            PROVE  \A i \in DOMAIN old.done : old.done[i].cell # VisitCell(v)
        BY <2>5, <4>2 DEF Made
      <4>. QED  BY <1>3, <4>1, <4>2 DEF StillFits
    <3>. QED  BY <2>5, <3>1, <3>2 DEF MadeOk
  <2>8. \A o \in Sessions \ {s} : session[o] # Idle => Apart(me, session[o])
    <3>1. ASSUME NEW o \in Sessions \ {s}, Running(o)
          PROVE  w.cell \notin session[o].locks /\ ~ContestedBy(w, o)
      BY <1>1, <2>4, <3>1 DEF Blocked, AwaitsSession, AwaitsRow, Next1, w
    <3>2. ASSUME NEW o \in Sessions \ {s}, session[o] # Idle
          PROVE  Apart(me, session[o])
      <4>1. Apart(old, session[o])
        BY <2>3, <3>2
      <4>2. w.cell \notin session[o].locks
        BY <3>1, <3>2, Unlocked
      <4>3. ASSUME NEW y \in Made(session[o]), w.cell \in Cells, w.cell[1] = "VISIT",
                   y.cell \in Cells, y.cell[1] = "VISIT"
            PROVE  ~Clash(w.row, y.row)
        <5>1. Running(o)
          <6>1. session[o].stage \in {"ACQUIRE", "RUN"} /\ WorkOk(session[o], db)
            BY <3>2, Working
          <6>. QED  BY <4>3, <6>1 DEF WorkOk, Made, Running
        <5>2. PICK v \in Visits : w.cell = VisitCell(v)
          BY <4>3, CellKinds
        <5>3. WriteOk(w, old, db)
          BY <2>4, <2>5 DEF PlanOk
        <5>4. w.row.status = "BOOKED" => IsBooking(w)
          BY <2>5, <5>2, <5>3, BookedByBooking
        <5>5. PICK i \in DOMAIN session[o].done : y = session[o].done[i]
          BY DEF Made
        <5>6. IsBooking(w) => ~Clash(w.row, y.row)
          BY <3>1, <4>3, <5>1, <5>5 DEF ContestedBy
        <5>. QED  BY <5>4, <5>6 DEF Clash
      <4>. QED  BY <2>1, <2>5, <4>1, <4>2, <4>3 DEF Apart
    <3>. QED  BY <3>2
  <2>9. WorkOk(me, db)
    BY <2>4, <2>1, <2>5, <2>6, <2>7 DEF WorkOk
  <2>10. RowsOk' /\ Exclusive' /\ BookedLast' /\ SessionsOk'
    <3>1. clock' \in Nat /\ clock <= clock' /\ db' = db /\ me.began < clock'
      BY <1>1, <2>3, <2>1
    <3>. QED  BY <2>1, <2>8, <2>9, <3>1, SessionMoves
  <2>11. RequestsOk'
    BY <1>1 DEF BInv, RequestsOk
  <2>. QED  BY <2>10, <2>11 DEF BInv
<1>. QED  BY <1>2, <1>3

-----------------------------------------------------------------------------
(***************************************************************************)
(* The commit: what a session has executed becomes visible at once.        *)
(***************************************************************************)
\* The rows after a commit: those written, and the others as they were.
Lands(me, after) ==
  \A c \in Cells :
    \/ after[c] = db[c] /\ \A w \in Made(me) : w.cell # c
    \/ \E w \in Made(me) : w.cell = c /\ after[c] = w.row

LEMMA CommitIs ==
  ASSUME SessionsSound, BInv, NEW s \in Sessions, Commit(s)
  PROVE  /\ WorkOk(session[s], db) /\ session[s].todo = <<>> /\ session[s].began < clock
         /\ clock \in Nat /\ session[s] # Idle /\ session[s].message \in sent
         /\ Lands(session[s], db') /\ db' \in [Cells -> {db'[c] : c \in Cells}]
         /\ session' = [session EXCEPT ![s] = Idle] /\ UNCHANGED <<sent, clock>>
<1>. DEFINE me == session[s]
            done == me.done
<1>1. Running(s) /\ me.todo = <<>> /\ Close(s) /\ UNCHANGED <<sent, clock>>
  BY DEF Commit
<1>2. me # Idle
  BY <1>1 DEF Running, Idle
<1>3. db' = [c \in Cells |->
               IF c \in Written(s)
               THEN done[CHOOSE i \in DOMAIN done : done[i].cell = c].row ELSE db[c]]
  BY DEF Commit
<1>4. ASSUME NEW c \in Cells
      PROVE  \/ db'[c] = db[c] /\ \A w \in Made(me) : w.cell # c
             \/ \E w \in Made(me) : w.cell = c /\ db'[c] = w.row
  <2>1. CASE c \in Written(s)
    <3>. DEFINE i == CHOOSE j \in DOMAIN done : done[j].cell = c
    <3>1. i \in DOMAIN done /\ done[i].cell = c
      BY <2>1 DEF Written
    <3>2. db'[c] = done[i].row
      BY <1>3, <2>1
    <3>. HIDE DEF i
    <3>. QED  BY <3>1, <3>2 DEF Made
  <2>2. CASE c \notin Written(s)
    BY <1>3, <2>2 DEF Made, Written
  <2>. QED  BY <2>1, <2>2
<1>5. db' \in [Cells -> {db'[c] : c \in Cells}]
  <2>1. \E f : db' = [c \in Cells |-> f[c]]
    <3>1. db' = [c \in Cells |-> db'[c]]
      BY <1>3
    <3>. QED  BY <3>1
  <2>. QED  BY <2>1
<1>. QED  BY <1>1, <1>2, <1>4, <1>5, Working DEF Lands, Close

LEMMA PlannedIsMade ==
  ASSUME NEW me, me.todo = <<>>
  PROVE  Planned(me) = Made(me)
BY DEF Planned, Made

\* A commit leaves a visit alone, ends it, or books it anew.
LEMMA VisitAfter ==
  ASSUME NEW me, WorkOk(me, db), me.todo = <<>>, NEW after, Lands(me, after), NEW v \in Visits
  PROVE  \/ after[VisitCell(v)] = db[VisitCell(v)] /\ \A w \in Made(me) : w.cell # VisitCell(v)
         \/ \E w \in Made(me) :
              /\ w.cell = VisitCell(v) /\ after[VisitCell(v)] = w.row
              /\ Ending(w, db[VisitCell(v)])
         \/ \E w \in Made(me) :
              /\ w.cell = VisitCell(v) /\ after[VisitCell(v)] = w.row /\ IsBooking(w)
              /\ Booking(w, me) /\ db[VisitCell(v)].version = 0
<1>1. VisitCell(v) \in Cells
  BY CellKinds
<1>2. ASSUME NEW w \in Made(me), w.cell = VisitCell(v)
      PROVE  \/ Ending(w, db[VisitCell(v)])
             \/ IsBooking(w) /\ Booking(w, me) /\ db[VisitCell(v)].version = 0
  <2>1. w \in Planned(me) /\ WriteOk(w, me, db) /\ db[w.cell].version = w.expect
    BY <1>1, <1>2, PlannedIsMade DEF WorkOk, PlanOk, MadeOk
  <2>2. (IsBooking(w) => Booking(w, me)) /\ (~IsBooking(w) => Ending(w, db[w.cell]))
    BY <1>2, <2>1, BookedByBooking
  <2>. QED  BY <1>2, <2>1, <2>2 DEF IsBooking
<1>. QED  BY <1>1, <1>2 DEF Lands

\* A visit that exists keeps its ticket and its time.
LEMMA VisitStays ==
  ASSUME NEW me, WorkOk(me, db), me.todo = <<>>, NEW after, Lands(me, after), NEW v \in Visits,
         db[VisitCell(v)].version >= 1
  PROVE  after[VisitCell(v)].version >= 1 /\ SameVisit(after[VisitCell(v)], db[VisitCell(v)])
<1>1. ASSUME NEW w, Ending(w, db[VisitCell(v)])
      PROVE  w.row.version >= 1 /\ SameVisit(w.row, db[VisitCell(v)])
  BY <1>1 DEF Ending
<1>2. SameVisit(db[VisitCell(v)], db[VisitCell(v)])
  BY DEF SameVisit
<1>. QED  BY <1>1, <1>2, VisitAfter

\* A ticket that is written has a new version.
LEMMA TicketAfterCommit ==
  ASSUME RowsOk, NEW me, WorkOk(me, db), me.todo = <<>>, NEW after, Lands(me, after),
         NEW t \in Tickets
  PROVE  /\ after[TicketCell(t)].version \in Nat
         /\ db[TicketCell(t)].version <= after[TicketCell(t)].version
         /\ after[TicketCell(t)].version = db[TicketCell(t)].version =>
              \A w \in Made(me) : w.cell # TicketCell(t)
<1>1. TicketCell(t) \in Cells /\ db[TicketCell(t)].version \in Nat
  BY CellKinds DEF RowsOk
<1>2. ASSUME NEW w \in Made(me), w.cell = TicketCell(t)
      PROVE  w.row.version = db[TicketCell(t)].version + 1
  <2>1. w \in Planned(me) /\ WriteOk(w, me, db) /\ db[w.cell].version = w.expect
    BY <1>1, <1>2, PlannedIsMade DEF WorkOk, PlanOk, MadeOk
  <2>. QED  BY <1>2, <2>1 DEF WriteOk
<1>. QED  BY <1>1, <1>2 DEF Lands

\* The rows a commit leaves are rows, and nothing is booked twice.
LEMMA CommitTyped ==
  ASSUME BInv, NEW me, WorkOk(me, db), me.todo = <<>>, me.began < clock, me.message \in sent,
         NEW after, Lands(me, after), NEW v \in Visits
  PROVE  /\ IsVisit(after[VisitCell(v)]) /\ after[VisitCell(v)].created < clock
         /\ after[VisitCell(v)].status = "BOOKED" =>
              after[VisitCell(v)].version >= 1 /\ after[VisitCell(v)].ticket \in Tickets
<1>. DEFINE row == after[VisitCell(v)]
            was == db[VisitCell(v)]
<1>1. /\ IsVisit(was) /\ was.created < clock
      /\ was.status = "BOOKED" => was.version >= 1 /\ was.ticket \in Tickets
  BY DEF BInv, RowsOk
<1>2. ASSUME NEW w, Ending(w, was), row = w.row
      PROVE  IsVisit(row) /\ row.created < clock /\ row.status # "BOOKED"
  BY <1>1, <1>2 DEF Ending, SameVisit
<1>3. ASSUME NEW w, Booking(w, me), row = w.row
      PROVE  IsVisit(row) /\ row.created < clock /\ row.version >= 1 /\ row.ticket \in Tickets
  <2>. DEFINE q == me.message.request
              slot == w.row.slot
              purpose == w.row.purpose
  <2>1. row = VisitRow("BOOKED", 1, q.ticket, slot, purpose, me.began) /\ q.op # "CREATE"
    BY <1>3 DEF Booking
  <2>2. q.ticket \in Tickets /\ me.began \in Nat
    BY <2>1 DEF BInv, RequestsOk, WorkOk
  <2>. HIDE DEF q, slot, purpose, row
  <2>3. /\ row.status = "BOOKED" /\ row.version = 1 /\ row.ticket = q.ticket /\ row.slot = slot
        /\ row.purpose = purpose /\ row.created = me.began
    BY <2>1 DEF VisitRow
  <2>. QED  BY <2>1, <2>2, <2>3 DEF IsVisit
<1>. HIDE DEF row, was
<1>4. \/ row = was
      \/ \E w : row = w.row /\ Ending(w, was)
      \/ \E w : row = w.row /\ Booking(w, me)
  BY VisitAfter DEF row, was
<1>5. /\ IsVisit(row) /\ row.created < clock
      /\ row.status = "BOOKED" => row.version >= 1 /\ row.ticket \in Tickets
  BY <1>1, <1>2, <1>3, <1>4
<1>. QED  BY <1>5 DEF row

LEMMA CommitExclusive ==
  ASSUME BInv, NEW me, WorkOk(me, db), me.todo = <<>>, NEW after, Lands(me, after),
         NEW v \in Visits, NEW u \in Visits, u # v
  PROVE  ~Clash(after[VisitCell(v)], after[VisitCell(u)])
<1>1. ASSUME NEW x \in Visits, after[VisitCell(x)].status = "BOOKED"
      PROVE  \/ /\ after[VisitCell(x)] = db[VisitCell(x)]
                /\ \A w \in Made(me) : w.cell # VisitCell(x)
             \/ \E w \in Made(me) : /\ w.cell = VisitCell(x) /\ after[VisitCell(x)] = w.row
                                    /\ IsBooking(w)
  <2>1. \A w : Ending(w, db[VisitCell(x)]) => w.row.status # "BOOKED"
    BY DEF Ending
  <2>. QED  BY <1>1, <2>1, VisitAfter
<1>2. /\ \A w, x \in Made(me) :
           w.cell \in Cells /\ x.cell \in Cells /\ IsBooking(w) /\ IsBooking(x) => w = x
      /\ \A w \in Made(me), x \in Visits :
           w.cell \in Cells /\ IsBooking(w) /\ (\A y \in Made(me) : y.cell # VisitCell(x))
             => ~Clash(w.row, db[VisitCell(x)])
  BY PlannedIsMade DEF WorkOk, PlanOk, MadeOk
<1>3. /\ ~Clash(db[VisitCell(v)], db[VisitCell(u)]) /\ VisitCell(v) \in Cells
      /\ VisitCell(u) \in Cells /\ VisitCell(v) # VisitCell(u)
  BY CellKinds DEF BInv, Exclusive
<1>4. SUFFICES ASSUME after[VisitCell(v)].status = "BOOKED", after[VisitCell(u)].status = "BOOKED"
               PROVE  ~Clash(after[VisitCell(v)], after[VisitCell(u)])
  BY DEF Clash
<1>. QED  BY <1>1, <1>2, <1>3, <1>4, ClashSymmetric

LEMMA CommitBookedLast ==
  ASSUME BInv, NEW me, WorkOk(me, db), me.todo = <<>>, me.message \in sent, NEW after,
         Lands(me, after), NEW v \in Visits, after[VisitCell(v)].status = "BOOKED", NEW u \in Visits, u # v,
         after[VisitCell(u)].ticket = after[VisitCell(v)].ticket
  PROVE  after[VisitCell(u)].created < after[VisitCell(v)].created
<1>. DEFINE q == me.message.request
<1>1. ~Clash(after[VisitCell(v)], after[VisitCell(u)])
  BY CommitExclusive
<1>2. after[VisitCell(u)].status # "BOOKED"
  BY <1>1 DEF Clash
<1>3. \A w : Booking(w, me) => /\ w.row.status = "BOOKED" /\ w.row.ticket = q.ticket
                               /\ w.row.created = me.began
  BY DEF Booking, VisitRow
<1>4. SameVisit(after[VisitCell(u)], db[VisitCell(u)])
  <2>1. \A w : Ending(w, db[VisitCell(u)]) => SameVisit(w.row, db[VisitCell(u)])
    BY DEF Ending
  <2>2. SameVisit(db[VisitCell(u)], db[VisitCell(u)])
    BY DEF SameVisit
  <2>. QED  BY <1>2, <1>3, <2>1, <2>2, VisitAfter
<1>5. CASE after[VisitCell(v)] = db[VisitCell(v)]
  <2>1. db[VisitCell(u)].ticket = db[VisitCell(v)].ticket
    BY <1>4, <1>5 DEF SameVisit
  <2>2. db[VisitCell(u)].created < db[VisitCell(v)].created
    BY <1>5, <2>1 DEF BInv, BookedLast
  <2>. QED  BY <1>4, <1>5, <2>2 DEF SameVisit
<1>6. CASE after[VisitCell(v)] # db[VisitCell(v)]
  <2>1. \A w : Ending(w, db[VisitCell(v)]) => w.row.status # "BOOKED"
    BY DEF Ending
  <2>2. PICK w \in Made(me) : after[VisitCell(v)] = w.row /\ Booking(w, me)
    BY <1>6, <2>1, VisitAfter
  <2>3. PICK x \in Made(me) : x.cell = TicketCell(q.ticket) /\ x.expect = q.tver
    BY <2>2, PlannedIsMade DEF Booking
  <2>4. q.op # "CREATE"
    BY <2>2 DEF Booking
  <2>5. q.ticket \in Tickets
    BY <2>4 DEF BInv, RequestsOk
  <2>6. db[TicketCell(q.ticket)].version = q.tver
    BY <2>3, <2>5, CellKinds DEF WorkOk, MadeOk
  <2>7. db[VisitCell(u)].ticket = q.ticket
    BY <1>3, <1>4, <2>2 DEF SameVisit
  <2>8. db[VisitCell(u)].created < me.began
    BY <2>4, <2>6, <2>7 DEF WorkOk, Timely
  <2>. QED  BY <1>3, <1>4, <2>2, <2>8 DEF SameVisit
<1>. QED  BY <1>5, <1>6

\* What another session has seen, planned and executed stays right.
LEMMA CommitTimely ==
  ASSUME BInv, NEW me, WorkOk(me, db), me.todo = <<>>, NEW after, Lands(me, after), NEW other,
         Timely(other, db), other.message \in sent
  PROVE  Timely(other, after)
<1>. DEFINE q == other.message.request
            t == q.ticket
<1>1. SUFFICES ASSUME q.op # "CREATE", after[TicketCell(t)].version = q.tver,
                      NEW v \in Visits, after[VisitCell(v)].ticket = t
               PROVE  after[VisitCell(v)].created < other.began
  BY DEF Timely
<1>2. t \in Tickets /\ q.tver \in Nat /\ q.tver <= db[TicketCell(t)].version
  BY <1>1 DEF BInv, RequestsOk
<1>3. db[TicketCell(t)].version = q.tver /\ \A w \in Made(me) : w.cell # TicketCell(t)
  <2>1. /\ db[TicketCell(t)].version <= after[TicketCell(t)].version
        /\ after[TicketCell(t)].version = db[TicketCell(t)].version =>
             \A w \in Made(me) : w.cell # TicketCell(t)
    BY <1>2, TicketAfterCommit DEF BInv
  <2>2. db[TicketCell(t)].version \in Nat
    BY <1>2 DEF BInv, RowsOk
  <2>3. db[TicketCell(t)].version = q.tver
    BY <1>1, <1>2, <2>1, <2>2
  <2>. QED  BY <1>1, <2>1, <2>3
<1>4. ASSUME NEW w \in Made(me), Booking(w, me)
      PROVE  w.row.ticket # t
  <2>1. w.row.ticket = me.message.request.ticket
    BY <1>4 DEF Booking, VisitRow
  <2>2. \E x \in Made(me) : x.cell = TicketCell(me.message.request.ticket)
    BY <1>4, PlannedIsMade DEF Booking
  <2>. QED  BY <1>3, <2>1, <2>2
<1>5. SameVisit(after[VisitCell(v)], db[VisitCell(v)])
  <2>1. \A w : Ending(w, db[VisitCell(v)]) => SameVisit(w.row, db[VisitCell(v)])
    BY DEF Ending
  <2>2. SameVisit(db[VisitCell(v)], db[VisitCell(v)])
    BY DEF SameVisit
  <2>. QED  BY <1>1, <1>4, <2>1, <2>2, VisitAfter
<1>6. db[VisitCell(v)].ticket = t
  BY <1>1, <1>5 DEF SameVisit
<1>7. db[VisitCell(v)].created < other.began
  BY <1>1, <1>3, <1>6 DEF Timely
<1>. QED  BY <1>5, <1>7 DEF SameVisit

LEMMA CommitOther ==
  ASSUME BInv, NEW me, WorkOk(me, db), me.todo = <<>>, NEW after, Lands(me, after), NEW other,
         WorkOk(other, db), other.message \in sent, Apart(me, other)
  PROVE  WorkOk(other, after)
<1>1. \A w \in Made(me) : w.cell \in me.locks
  BY DEF WorkOk, MadeOk
<1>2. \A v \in Visits : db[VisitCell(v)].version >= 1 =>
        after[VisitCell(v)].version >= 1 /\ SameVisit(after[VisitCell(v)], db[VisitCell(v)])
  BY VisitStays
<1>3. SeenOk(other.seen, after)
  BY <1>2 DEF WorkOk, SeenOk, SameVisit
<1>4. Timely(other, after)
  BY CommitTimely DEF WorkOk
<1>5. PlanOk(other, after)
  <2>1. ASSUME NEW w \in Planned(other)
        PROVE  WriteOk(w, other, after)
    <3>1. WriteOk(w, other, db)
      BY DEF WorkOk, PlanOk
    <3>2. ASSUME NEW v \in Visits, w.cell = VisitCell(v)
          PROVE  Booking(w, other) \/ Ending(w, after[w.cell])
      <4>1. Booking(w, other) \/ Ending(w, db[VisitCell(v)])
        BY <3>1, <3>2 DEF WriteOk
      <4>2. Ending(w, db[VisitCell(v)]) => Ending(w, after[VisitCell(v)])
        BY <1>2 DEF Ending, SameVisit
      <4>. QED  BY <3>2, <4>1, <4>2
    <3>. QED  BY <3>1, <3>2 DEF WriteOk
  <2>. QED  BY <2>1 DEF WorkOk, PlanOk
<1>6. MadeOk(other, after)
  <2>1. ASSUME NEW w \in Made(other)
        PROVE  /\ w.cell \in other.locks
               /\ w.cell \in Cells => after[w.cell].version = w.expect
    <3>1. w.cell \in other.locks /\ (w.cell \in Cells => db[w.cell].version = w.expect)
      BY DEF WorkOk, MadeOk
    <3>2. \A x \in Made(me) : x.cell # w.cell
      BY <1>1, <3>1 DEF Apart
    <3>. QED  BY <3>1, <3>2 DEF Lands
  <2>2. ASSUME NEW w \in Made(other), w.cell \in Cells, IsBooking(w), NEW v \in Visits,
               \A x \in Made(other) : x.cell # VisitCell(v)
        PROVE  ~Clash(w.row, after[VisitCell(v)])
    <3>1. ~Clash(w.row, db[VisitCell(v)])
      BY <2>2 DEF WorkOk, MadeOk
    <3>2. \A x \in Made(me) : x.cell = VisitCell(v) => ~Clash(x.row, w.row)
      BY <2>2, CellKinds DEF Apart, IsBooking
    <3>. QED  BY <3>1, <3>2, CellKinds, ClashSymmetric DEF Lands
  <2>. QED  BY <2>1, <2>2 DEF MadeOk
<1>. QED  BY <1>3, <1>4, <1>5, <1>6 DEF WorkOk

LEMMA CommitKeepsBookings ==
  ASSUME SessionsSound, BInv, NEW s \in Sessions, Commit(s)
  PROVE  BInv'
<1>. DEFINE me == session[s]
            after == db'
<1>1. /\ WorkOk(me, db) /\ me.todo = <<>> /\ me.began < clock /\ clock \in Nat /\ me # Idle
      /\ me.message \in sent /\ Lands(me, after) /\ after \in [Cells -> {after[c] : c \in Cells}]
      /\ session' = [session EXCEPT ![s] = Idle] /\ UNCHANGED <<sent, clock>>
  BY CommitIs
<1>2. RowsOk'
  <2>1. \A t \in Tickets : after[TicketCell(t)].version \in Nat
    BY <1>1, TicketAfterCommit DEF BInv
  <2>2. \A v \in Visits :
          /\ IsVisit(after[VisitCell(v)]) /\ after[VisitCell(v)].created < clock
          /\ after[VisitCell(v)].status = "BOOKED" =>
               after[VisitCell(v)].version >= 1 /\ after[VisitCell(v)].ticket \in Tickets
    BY <1>1, CommitTyped
  <2>. QED  BY <1>1, <2>1, <2>2 DEF RowsOk, IsVisit
<1>3. Exclusive'
  <2>1. \A v, u \in Visits : u # v => ~Clash(after[VisitCell(v)], after[VisitCell(u)])
    BY <1>1, CommitExclusive
  <2>. QED  BY <2>1 DEF Exclusive, Clash
<1>4. BookedLast'
  <2>1. \A v, u \in Visits :
          /\ after[VisitCell(v)].status = "BOOKED" /\ u # v
          /\ after[VisitCell(u)].ticket = after[VisitCell(v)].ticket
          => after[VisitCell(u)].created < after[VisitCell(v)].created
    BY <1>1, CommitBookedLast
  <2>. QED  BY <2>1 DEF BookedLast
<1>5. RequestsOk'
  <2>1. ASSUME NEW m \in sent, m.request.op # "CREATE"
        PROVE  /\ m.request.ticket \in Tickets /\ m.request.tver \in Nat
               /\ m.request.tver <= after[TicketCell(m.request.ticket)].version
    <3>. DEFINE t == m.request.ticket
    <3>1. t \in Tickets /\ m.request.tver \in Nat /\ m.request.tver <= db[TicketCell(t)].version
      BY <2>1 DEF BInv, RequestsOk
    <3>2. /\ after[TicketCell(t)].version \in Nat /\ db[TicketCell(t)].version \in Nat
          /\ db[TicketCell(t)].version <= after[TicketCell(t)].version
      BY <1>1, <3>1, TicketAfterCommit DEF BInv, RowsOk
    <3>. QED  BY <3>1, <3>2
  <2>. QED  BY <1>1, <2>1 DEF RequestsOk
<1>6. SessionsOk'
  <2>1. /\ session'[s] = Idle
        /\ \A o \in Sessions \ {s} : session'[o] = session[o]
    BY <1>1 DEF SessionsSound
  <2>2. ASSUME NEW o \in Sessions, session'[o] # Idle
        PROVE  o # s /\ session[o] # Idle /\ session'[o] = session[o]
    BY <2>1, <2>2
  <2>3. ASSUME NEW o \in Sessions, session'[o] # Idle
        PROVE  WorkOk(session'[o], after) /\ session'[o].began < clock
    <3>1. o # s /\ session[o] # Idle /\ session'[o] = session[o]
      BY <2>2, <2>3
    <3>2. WorkOk(session[o], db) /\ session[o].began < clock /\ session[o].message \in sent
      BY <3>1, Working
    <3>3. Apart(me, session[o])
      BY <1>1, <3>1, Working
    <3>4. WorkOk(session[o], after)
      BY <1>1, <3>2, <3>3, CommitOther
    <3>. QED  BY <3>1, <3>2, <3>4
  <2>4. ASSUME NEW o \in Sessions, NEW x \in Sessions, o # x, session'[o] # Idle,
               session'[x] # Idle
        PROVE  Apart(session'[o], session'[x])
    <3>1. Apart(session[o], session[x])
      BY <2>2, <2>4 DEF BInv, SessionsOk
    <3>. QED  BY <2>2, <2>4, <3>1
  <2>5. \A o \in Sessions : session'[o] # Idle => WorkOk(session'[o], db') /\ session'[o].began < clock'
    BY <1>1, <2>3
  <2>. QED  BY <2>4, <2>5 DEF SessionsOk
<1>. QED  BY <1>2, <1>3, <1>4, <1>5, <1>6 DEF BInv

-----------------------------------------------------------------------------
(***************************************************************************)
(* Every step.                                                             *)
(***************************************************************************)
LEMMA InitBInv == Init => BInv
<1>. SUFFICES ASSUME Init  PROVE BInv
  OBVIOUS
<1>1. /\ db \in Starts /\ session = [s \in Sessions |-> Idle] /\ sent = {} /\ clock = 1
  BY DEF Init
<1>2. \A v \in Visits : IsVisit(db[VisitCell(v)]) /\ db[VisitCell(v)].created < clock
  <2>. SUFFICES ASSUME NEW v \in Visits
                PROVE  IsVisit(db[VisitCell(v)]) /\ db[VisitCell(v)].created < clock
    OBVIOUS
  <2>1. db[VisitCell(v)] \in VisitRows /\ db[VisitCell(v)].created < 1
    BY <1>1, StartAssumption
  <2>. QED  BY <1>1, <2>1 DEF VisitRows, IsVisit, VisitRow
<1>3. RowsOk
  <2>1. db \in [Cells -> {db[c] : c \in Cells}]
    <3>1. db = [c \in Cells |-> db[c]]
      BY <1>1, StartAssumption
    <3>. QED  BY <3>1
  <2>. QED  BY <1>1, <1>2, <2>1, StartAssumption DEF RowsOk
<1>4. Exclusive
  BY <1>1, StartAssumption, ClashSymmetric DEF Exclusive, Clash
<1>5. BookedLast
  BY <1>1, StartAssumption DEF BookedLast
<1>6. RequestsOk /\ SessionsOk
  BY <1>1 DEF RequestsOk, SessionsOk
<1>. QED  BY <1>3, <1>4, <1>5, <1>6 DEF BInv

LEMMA BStep == CInv /\ BInv /\ [Next]_vars => BInv'
<1>. SUFFICES ASSUME SessionsSound, MessagesSound, BInv, [Next]_vars  PROVE BInv'
  BY DEF CInv
<1>1. CASE UNCHANGED vars
  BY <1>1 DEF vars, BInv, RowsOk, Exclusive, BookedLast, RequestsOk, SessionsOk
<1>2. CASE Next
  <2>. SUFFICES ASSUME NEW s \in Sessions, Submit(s) \/ Resubmit(s) \/ Advance(s) \/ Abort(s)
                PROVE  BInv'
    BY <1>2 DEF Next
  <2>1. CASE Submit(s) \/ Resubmit(s)
    BY <2>1, SubmitKeepsBookings
  <2>2. CASE Acquire(s)
    BY <2>2, AcquireKeepsBookings
  <2>3. CASE Replay(s)
    BY <2>3, ClosedQuietly DEF Replay, Refuse
  <2>4. CASE Read(s)
    BY <2>4, ReadKeepsBookings
  <2>5. CASE Execute(s)
    BY <2>5, ExecuteKeepsBookings
  <2>6. CASE Commit(s)
    BY <2>6, CommitKeepsBookings
  <2>7. CASE BreakDeadlock(s)
    BY <2>7, ClosedQuietly DEF BreakDeadlock
  <2>8. CASE Abort(s)
    BY <2>8, ClosedQuietly DEF Abort
  <2>. QED  BY <2>1, <2>2, <2>3, <2>4, <2>5, <2>6, <2>7, <2>8 DEF Advance
<1>. QED  BY <1>1, <1>2

LEMMA BookingsAreSound == BInv => BookingsSound
<1>. SUFFICES ASSUME BInv, NEW v \in Visits, db[VisitCell(v)].status = "BOOKED"
              PROVE  /\ \A u \in Visits : u # v => ~Clash(db[VisitCell(v)], db[VisitCell(u)])
                     /\ LatestOf(db[VisitCell(v)].ticket, db) = v
  BY DEF BookingsSound
<1>. DEFINE t == db[VisitCell(v)].ticket
<1>1. \A u \in Visits : db[VisitCell(u)].created \in Int
  BY DEF BInv, RowsOk, IsVisit
<1>2. \A u \in Visits : u # v /\ db[VisitCell(u)].ticket = t =>
                         db[VisitCell(u)].created < db[VisitCell(v)].created
  BY DEF BInv, BookedLast
<1>3. v \in Newest(t, db) /\ \A u \in Newest(t, db) : u = v
  BY <1>1, <1>2 DEF Newest
<1>4. Any(Newest(t, db)) = v
  BY <1>3 DEF Any
<1>5. LatestOf(t, db) = v
  BY <1>3, <1>4 DEF LatestOf
<1>. QED  BY <1>5 DEF BInv, Exclusive

\* Whatever sessions run at once, wait, retry or break: no worker's slot and no ticket is
\* booked twice, and the booked visit is the one a handler reads as the ticket's latest,
\* although a row's created_at is the start of a transaction that commits later.
THEOREM BookingsSoundHolds == Spec => []BookingsSound
<1>1. Spec => []BInv
  BY Inductive, InitBInv, BStep, PTL DEF Spec
<1>. QED  BY <1>1, BookingsAreSound, PTL

-----------------------------------------------------------------------------
(***************************************************************************)
(* What a session has read, and what of it can still have changed.         *)
(***************************************************************************)
\* Events that leave the ticket as it is come before the work, and tell no command more
\* than that it has not begun.
Approaching == {"ACCEPTED", "DEPARTED", "ARRIVED"}
Early == {"NONE"} \cup Approaching
Alike(log, other) ==
  \/ LastEvent(log) = LastEvent(other)
  \/ LastEvent(log) \in Early /\ LastEvent(other) \in Early

RowOf(v, rows) == IF v = None THEN NoVisit ELSE rows[VisitCell(v)]
LogOf(v, rows) == IF v = None THEN <<>> ELSE rows[LogCell(v)].log

\* The ticket still has the version the request knows.
Unmoved(q, rows) == rows[TicketCell(q.ticket)].version = q.tver

SawTicket(q, seen, rows) == Unmoved(q, rows) => seen.ticket = rows[TicketCell(q.ticket)]
SawVisit(q, seen, rows) ==
  /\ seen.id = q.visit
  /\ Unmoved(q, rows) /\ seen.visit.ticket = q.ticket => seen.visit = RowOf(q.visit, rows)
SawLatest(q, seen, rows) ==
  /\ seen.id \in Visits \cup {None}
  /\ seen.visit = NoVisit \/ seen.visit.ticket = q.ticket
  /\ Unmoved(q, rows) => seen.id = LatestOf(q.ticket, rows) /\ seen.visit = RowOf(seen.id, rows)
SawLog(q, seen, rows) == Unmoved(q, rows) => Alike(seen.log, LogOf(seen.id, rows))

\* A worker event has locked its visit before it reads its log.
Holds(q, me, rows) ==
  /\ VisitCell(q.visit) \in me.locks /\ me.seen.id = q.visit
  /\ me.seen.visit = RowOf(q.visit, rows)
HoldsLog(q, me, rows) == me.seen.log = LogOf(q.visit, rows)

View(me, rows) ==
  LET q == me.message.request
      seen == me.seen
      reads == me.reads
      ticket == SawTicket(q, seen, rows)
      visit == SawVisit(q, seen, rows)
      latest == SawLatest(q, seen, rows)
      log == SawLog(q, seen, rows)
      held == Holds(q, me, rows)
      heldLog == HoldsLog(q, me, rows)
  IN /\ q.op = "CREATE" => reads \in {<<"MATCH">>, <<>>}
     /\ q.op = "ESCALATE" => \/ reads = <<"TICKET">>
                             \/ reads = <<>> /\ ticket
     /\ q.op = "BOOK" => \/ reads = <<"TICKET", "LATEST">>
                         \/ reads = <<"LATEST">> /\ ticket
                         \/ reads = <<>> /\ ticket /\ latest
     /\ q.op = "RESCHEDULE" => \/ reads = <<"TICKET", "VISIT">>
                               \/ reads = <<"VISIT">> /\ ticket
                               \/ reads = <<>> /\ ticket /\ visit
     /\ q.op \in {"ACCEPT", "RECOVER"} => \/ reads = <<"TICKET", "LATEST", "LOG">>
                                          \/ reads = <<"LATEST", "LOG">> /\ ticket
                                          \/ reads = <<"LOG">> /\ ticket /\ latest
                                          \/ reads = <<>> /\ ticket /\ latest /\ log
     /\ q.op = "EVENT" => \/ reads = <<"LOCK", "LOG", "TICKET">>
                          \/ reads = <<"LOG", "TICKET">> /\ held
                          \/ reads = <<"TICKET">> /\ held /\ heldLog
                          \/ reads = <<>> /\ held /\ heldLog /\ ticket

\* What is executed and planned are the writes decided on.
Follows(me, writes) ==
  /\ Len(writes) = Len(me.done) + Len(me.todo)
  /\ \A i \in 1..Len(me.done) : me.done[i] = writes[i]
  /\ \A i \in 1..Len(me.todo) : me.todo[i] = writes[Len(me.done) + i]

Decided(me) ==
  LET q == me.message.request IN
  /\ me.stage = "ACQUIRE" => me.reads # <<>>
  /\ me.stage = "RUN" /\ me.reads = <<>> =>
       /\ Allowed(q, me.seen)
       /\ \E new : Follows(me, Writes(q, me.seen, new, me.began))

\* Logs are of events, and a visit that is not there is of no ticket.
RowsFit ==
  \A v \in Visits :
    /\ db[LogCell(v)].log \in Seq(WorkerEventType)
    /\ db[VisitCell(v)].version = 0 => db[VisitCell(v)].ticket \notin Tickets

\* A request about a visit names one, and a worker reports an event.
RequestsFit ==
  \A m \in sent :
    /\ m.request.op \in {"RESCHEDULE", "EVENT"} => m.request.visit \in Visits \ {None}
    /\ m.request.op = "EVENT" => m.request.evt \in WorkerEventType

ViewsOk == \A s \in Sessions : session[s] # Idle => View(session[s], db) /\ Decided(session[s])

SInv == RowsFit /\ RequestsFit /\ ViewsOk

-----------------------------------------------------------------------------
(***************************************************************************)
(* The writes of each command.                                             *)
(***************************************************************************)
LEMMA LastOfAppend ==
  ASSUME NEW log \in Seq(WorkerEventType), NEW evt \in WorkerEventType
  PROVE  Append(log, evt) \in Seq(WorkerEventType) /\ LastEvent(Append(log, evt)) = evt
BY DEF LastEvent

LEMMA Tuples ==
  ASSUME NEW a, NEW b, NEW c
  PROVE  /\ <<a>> \o <<b>> = <<a, b>> /\ <<>> \o <<b>> = <<b>> /\ <<a>> \o <<>> = <<a>>
         /\ <<a, b>> \o <<c>> = <<a, b, c>> /\ <<>> \o <<>> = <<>>
<1>. DEFINE S == {a, b, c}
<1>1. <<a>> \o <<b>> = <<a, b>>
  <2>1. <<a>> \in Seq(S) /\ <<b>> \in Seq(S) /\ <<a, b>> \in Seq(S) /\ Len(<<a, b>>) = 2
    OBVIOUS
  <2>. DEFINE s == <<a>>
              t == <<b>>
              st == s \o t
  <2>2. /\ st \in Seq(S) /\ Len(st) = Len(s) + Len(t)
        /\ \A i \in 1..Len(s) + Len(t) : st[i] = IF i <= Len(s) THEN s[i] ELSE t[i - Len(s)]
    <3>. HIDE DEF s, t, S
    <3>. QED  BY <2>1, ConcatProperties DEF s, t
  <2>3. Len(s) = 1 /\ Len(t) = 1 /\ s[1] = a /\ t[1] = b
    OBVIOUS
  <2>. HIDE DEF st, s, t
  <2>4. Len(st) = 2 /\ st[1] = a /\ st[2] = b
    BY <2>2, <2>3
  <2>5. \A i \in 1..Len(st) : st[i] = <<a, b>>[i]
    BY <2>4
  <2>6. st = <<a, b>>
    <3>. HIDE DEF S
    <3>. QED  BY <2>1, <2>2, <2>4, <2>5, SeqEqual
  <2>. QED  BY <2>6 DEF st, s, t
<1>2. <<>> \o <<b>> = <<b>>
  OBVIOUS
<1>3. <<a>> \o <<>> = <<a>>
  OBVIOUS
<1>4. <<a, b>> \o <<c>> = <<a, b, c>>
  <2>1. /\ <<a, b>> \in Seq(S) /\ <<c>> \in Seq(S) /\ <<a, b, c>> \in Seq(S)
        /\ Len(<<a, b, c>>) = 3
    OBVIOUS
  <2>. DEFINE s == <<a, b>>
              t == <<c>>
              st == s \o t
  <2>2. /\ st \in Seq(S) /\ Len(st) = Len(s) + Len(t)
        /\ \A i \in 1..Len(s) + Len(t) : st[i] = IF i <= Len(s) THEN s[i] ELSE t[i - Len(s)]
    <3>. HIDE DEF s, t, S
    <3>. QED  BY <2>1, ConcatProperties DEF s, t
  <2>3. Len(s) = 2 /\ Len(t) = 1 /\ s[1] = a /\ s[2] = b /\ t[1] = c
    OBVIOUS
  <2>. HIDE DEF st, s, t
  <2>4. Len(st) = 3 /\ st[1] = a /\ st[2] = b /\ st[3] = c
    BY <2>2, <2>3
  <2>5. \A i \in 1..Len(st) : st[i] = <<a, b, c>>[i]
    BY <2>4
  <2>6. st = <<a, b, c>>
    <3>. HIDE DEF S
    <3>. QED  BY <2>1, <2>2, <2>4, <2>5, SeqEqual
  <2>. QED  BY <2>6 DEF st, s, t
<1>5. <<>> \o <<>> = <<>>
  OBVIOUS
<1>. QED  BY <1>1, <1>2, <1>3, <1>4, <1>5

\* Every event but the three of the approach takes the ticket elsewhere, and one that ends
\* the visit does.
LEMMA EventMoves ==
  ASSUME NEW evt \in WorkerEventType, NEW purpose, NEW disposition
  PROVE  LET from == RequiredTicketStatus(evt)
             to == TicketAfter(evt, purpose, disposition, from)
         IN (to = from <=> evt \in Approaching) /\ (AppointmentAfter(evt) # "BOOKED" => to # from)
BY DEF WorkerEventType, PreWorkEvent, TerminalEvent, RequiredTicketStatus, TicketAfter,
       AppointmentAfter, Approaching

\* What a command writes, write by write.
WritesOf(q, seen, new, began, writes) ==
  LET move(w) == \E to, rework : w = MoveTicket(q, seen, to, rework)
      end(w) == seen.visit.status = "BOOKED" /\ \E to : to # "BOOKED" /\ w = EndVisit(seen, to)
      add(w) == \E purpose : w = AddVisit(q, seen, new, began, purpose)
      log(w) == w = Write(LogCell(seen.id), Len(seen.log), LogRow(Append(seen.log, q.evt)))
  IN \E a, e, b :
       /\ move(a)
       /\ \/ q.op \in {"ESCALATE", "RECOVER"} /\ writes = <<a>>
          \/ q.op = "BOOK" /\ add(b) /\ writes = <<a, b>>
          \/ q.op = "RESCHEDULE" /\ end(e) /\ add(b) /\ writes = <<a, e, b>>
          \/ q.op = "ACCEPT" /\ end(e) /\ writes = <<e, a>>
          \/ q.op = "ACCEPT" /\ writes = <<a>>
          \/ q.op = "EVENT" /\ end(e) /\ log(b) /\ writes = <<a, e, b>>
          \/ q.op = "EVENT" /\ log(b) /\ writes = <<a, b>>
          \/ q.op = "EVENT" /\ log(b) /\ writes = <<b>> /\ q.evt \in Approaching

LEMMA WritesAre ==
  ASSUME NEW q, q.op \in Operations \ {"CREATE"}, NEW seen, Allowed(q, seen),
         q.op = "EVENT" => q.evt \in WorkerEventType, NEW new, NEW began, NEW writes,
         writes = Writes(q, seen, new, began)
  PROVE  WritesOf(q, seen, new, began, writes)
<1>1. CASE q.op = "ESCALATE"
  BY <1>1 DEF Writes, WritesOf
<1>2. CASE q.op = "RECOVER"
  BY <1>2 DEF Writes, WritesOf
<1>3. CASE q.op = "BOOK"
  BY <1>3 DEF Writes, WritesOf
<1>4. CASE q.op = "RESCHEDULE"
  <2>1. seen.visit.status = "BOOKED"
    BY <1>4 DEF Allowed
  <2>. QED  BY <1>4, <2>1 DEF Writes, WritesOf
<1>5. CASE q.op = "ACCEPT"
  <2>. DEFINE a == MoveTicket(q, seen, "CLOSED", seen.ticket.rework)
              e == EndVisit(seen, "FULFILLED")
  <2>1. writes = (IF seen.visit.status = "BOOKED" THEN <<e>> ELSE <<>>) \o <<a>>
    BY <1>5 DEF Writes
  <2>2. writes = IF seen.visit.status = "BOOKED" THEN <<e, a>> ELSE <<a>>
    <3>. HIDE DEF a, e
    <3>. QED  BY <2>1, Tuples
  <2>. QED  BY <1>5, <2>2 DEF WritesOf
<1>6. CASE q.op = "EVENT"
  <2>. DEFINE from == seen.ticket.status
              to == TicketAfter(q.evt, seen.visit.purpose, q.disposition, from)
              rework == IF q.evt = "FAILED_TO_COMPLETE" /\ q.disposition = "REWORK" THEN 1 ELSE 0
              after == AppointmentAfter(q.evt)
              a == MoveTicket(q, seen, to, seen.ticket.rework + rework)
              e == EndVisit(seen, after)
              b == Write(LogCell(seen.id), Len(seen.log), LogRow(Append(seen.log, q.evt)))
  <2>1. writes = (IF to # from THEN <<a>> ELSE <<>>)
                 \o (IF after # "BOOKED" THEN <<e>> ELSE <<>>) \o <<b>>
    BY <1>6 DEF Writes
  <2>2. seen.visit.status = "BOOKED" /\ from = RequiredTicketStatus(q.evt)
    BY <1>6 DEF Allowed
  <2>3. (to = from <=> q.evt \in Approaching) /\ (after # "BOOKED" => to # from)
    BY <1>6, <2>2, EventMoves
  <2>. HIDE DEF a, e, b, to, from, after
  <2>4. writes = IF to # from THEN IF after # "BOOKED" THEN <<a, e, b>> ELSE <<a, b>> ELSE <<b>>
    <3>1. CASE to = from
      <4>1. writes = (<<>> \o <<>>) \o <<b>>
        BY <2>1, <2>3, <3>1
      <4>. QED  BY <3>1, <4>1, Tuples
    <3>2. CASE to # from /\ after = "BOOKED"
      <4>1. writes = (<<a>> \o <<>>) \o <<b>>
        BY <2>1, <3>2
      <4>. QED  BY <3>2, <4>1, Tuples
    <3>3. CASE to # from /\ after # "BOOKED"
      <4>1. writes = (<<a>> \o <<e>>) \o <<b>>
        BY <2>1, <3>3
      <4>2. <<a>> \o <<e>> = <<a, e>> /\ <<a, e>> \o <<b>> = <<a, e, b>>
        BY Tuples
      <4>3. writes = <<a, e, b>>
        BY <4>1, <4>2
      <4>. QED  BY <3>3, <4>3
    <3>. QED  BY <3>1, <3>2, <3>3
  <2>5. \E x, y : a = MoveTicket(q, seen, x, y)
    BY DEF a
  <2>6. after # "BOOKED" => \E x : x # "BOOKED" /\ e = EndVisit(seen, x)
    BY DEF e
  <2>7. b = Write(LogCell(seen.id), Len(seen.log), LogRow(Append(seen.log, q.evt)))
    BY DEF b
  <2>. QED  BY <1>6, <2>2, <2>3, <2>4, <2>5, <2>6, <2>7 DEF WritesOf
<1>. QED  BY <1>1, <1>2, <1>3, <1>4, <1>5, <1>6 DEF Operations

\* What a visit is written with comes with the update of its ticket; only a worker event
\* writes a log, that of its visit, and all but those of the approach update the ticket.
Telling(q, seen, writes) ==
  LET moved == \E x \in writes : x.cell = TicketCell(q.ticket) /\ x.expect = seen.ticket.version IN
  /\ \A w \in writes, v \in Visits : w.cell = VisitCell(v) => w.row.ticket = q.ticket /\ moved
  /\ \A w \in writes, v \in Visits : w.cell = LogCell(v) =>
       /\ q.op = "EVENT" /\ v = seen.id /\ w.row.log = Append(seen.log, q.evt)
       /\ q.evt \in Approaching \/ moved
  /\ Unprotected(q) \/ moved

LEMMA WritesTell ==
  ASSUME RowsOk, NEW q, q.op \in Operations, NEW seen, Allowed(q, seen), SeenOk(seen, db),
         q.op = "ACCEPT" => seen.visit = NoVisit \/ seen.visit.ticket = q.ticket,
         q.op = "EVENT" => q.evt \in WorkerEventType, NEW new, NEW began, NEW writes,
         writes = Writes(q, seen, new, began)
  PROVE  Telling(q, seen, {writes[i] : i \in DOMAIN writes})
<1>1. \A t, v, u \in Visits : TicketCell(t) # LogCell(v) /\ VisitCell(u) # LogCell(v)
  BY DEF TicketCell, VisitCell, LogCell
<1>2. \A v, t : TicketCell(t) # LogCell(v) /\ VisitCell(t) # LogCell(v)
  BY DEF TicketCell, VisitCell, LogCell
<1>3. \A u, v : LogCell(u) = LogCell(v) => u = v
  BY DEF LogCell
<1>4. CASE q.op = "CREATE"
  <2>. DEFINE w == Write(TicketCell(new.ticket), 0, TicketRow("OPEN", 1, 0, "NONE", q.subject))
  <2>1. writes = <<w>> /\ w.cell = TicketCell(new.ticket)
    BY <1>4 DEF Writes, Write
  <2>. HIDE DEF w
  <2>2. {writes[i] : i \in DOMAIN writes} = {w}
    BY <2>1
  <2>. QED  BY <1>2, <1>4, <2>1, <2>2, CellKinds DEF Telling, Unprotected
<1>5. CASE q.op # "CREATE"
  <2>. DEFINE R == {writes[i] : i \in DOMAIN writes}
              moved == \E x \in R : x.cell = TicketCell(q.ticket) /\ x.expect = seen.ticket.version
              Move(w) == w.cell = TicketCell(q.ticket) /\ w.expect = seen.ticket.version
              OfVisit(w) == \E v : w.cell = VisitCell(v) /\ (v \in Visits => w.row.ticket = q.ticket)
              OfLog(w) == w.cell = LogCell(seen.id) /\ w.row.log = Append(seen.log, q.evt)
  <2>1. WritesOf(q, seen, new, began, writes)
    BY <1>5, WritesAre
  <2>2. \A w, to, rework : w = MoveTicket(q, seen, to, rework) => Move(w)
    BY DEF MoveTicket, Write
  <2>3. \A w, purpose : w = AddVisit(q, seen, new, began, purpose) => OfVisit(w)
    BY DEF AddVisit, Write, VisitRow
  <2>4. \A w : w = Write(LogCell(seen.id), Len(seen.log), LogRow(Append(seen.log, q.evt))) => OfLog(w)
    BY DEF Write, LogRow
  <2>5. ASSUME NEW w, NEW to, w = EndVisit(seen, to), seen.visit.status = "BOOKED",
               q.op \in {"RESCHEDULE", "ACCEPT", "EVENT"}
        PROVE  OfVisit(w)
    <3>1. w.cell = VisitCell(seen.id)
      BY <2>5 DEF EndVisit, Write
    <3>2. seen.visit.ticket = q.ticket
      <4>1. NoVisit.status # "BOOKED"
        BY DEF NoVisit, VisitRow
      <4>. QED  BY <2>5, <4>1 DEF Allowed
    <3>3. ASSUME seen.id \in Visits
          PROVE  w.row.ticket = q.ticket
      <4>1. IsVisit(seen.visit)
        BY <2>5, <3>3 DEF SeenOk
      <4>2. PICK a, b, c, d, e, f :
              seen.visit = [status |-> a, version |-> b, ticket |-> c, slot |-> d, purpose |-> e,
                            created |-> f]
        BY <4>1 DEF IsVisit, VisitRow
      <4>3. w.row = [seen.visit EXCEPT !.status = to, !.version = @ + 1]
        BY <2>5 DEF EndVisit, Write
      <4>4. w.row.ticket = c /\ seen.visit.ticket = c
        BY <4>2, <4>3
      <4>. QED  BY <3>2, <4>4
    <3>. QED  BY <3>1, <3>3
  <2>6. PICK a, e, b :
          /\ Move(a)
          /\ \/ q.op \in {"ESCALATE", "RECOVER"} /\ writes = <<a>>
             \/ q.op = "BOOK" /\ OfVisit(b) /\ writes = <<a, b>>
             \/ q.op = "RESCHEDULE" /\ OfVisit(e) /\ OfVisit(b) /\ writes = <<a, e, b>>
             \/ q.op = "ACCEPT" /\ OfVisit(e) /\ writes = <<e, a>>
             \/ q.op = "ACCEPT" /\ writes = <<a>>
             \/ q.op = "EVENT" /\ OfVisit(e) /\ OfLog(b) /\ writes = <<a, e, b>>
             \/ q.op = "EVENT" /\ OfLog(b) /\ writes = <<a, b>>
             \/ q.op = "EVENT" /\ OfLog(b) /\ writes = <<b>> /\ q.evt \in Approaching
    <3>. HIDE DEF Move, OfVisit, OfLog
    <3>. QED  BY <2>1, <2>2, <2>3, <2>4, <2>5 DEF WritesOf
  <2>7. \/ R = {b} /\ q.op = "EVENT" /\ OfLog(b) /\ q.evt \in Approaching
        \/ /\ a \in R
           /\ \A w \in R : w = a \/ OfVisit(w) \/ (q.op = "EVENT" /\ OfLog(w))
    <3>. HIDE DEF Move, OfVisit, OfLog
    <3>1. CASE writes = <<a>>
      BY <3>1
    <3>2. CASE writes = <<b>>
      <4>1. R = {b}
        BY <3>2
      <4>2. CASE a = b
        BY <4>1, <4>2
      <4>3. CASE a # b
        <5>1. (q.op = "EVENT" /\ OfLog(b) /\ q.evt \in Approaching) \/ writes = <<a>>
          BY <2>6, <3>2
        <5>. QED  BY <3>1, <4>1, <5>1
      <4>. QED  BY <4>2, <4>3
    <3>3. CASE writes = <<a, b>>
      <4>1. R = {a, b}
        BY <3>3
      <4>. QED  BY <2>6, <3>3, <4>1
    <3>4. CASE writes = <<e, a>>
      <4>1. R = {e, a}
        BY <3>4
      <4>. QED  BY <2>6, <3>4, <4>1
    <3>5. CASE writes = <<a, e, b>>
      <4>1. R = {a, e, b}
        BY <3>5
      <4>. QED  BY <2>6, <3>5, <4>1
    <3>. QED  BY <2>6, <3>1, <3>2, <3>3, <3>4, <3>5
  <2>8. CASE R = {b} /\ q.op = "EVENT" /\ OfLog(b) /\ q.evt \in Approaching
    <3>1. Unprotected(q)
      BY <2>8 DEF Unprotected, Approaching
    <3>. QED  BY <1>2, <1>3, <2>8, <3>1 DEF Telling
  <2>9. CASE a \in R /\ \A w \in R : w = a \/ OfVisit(w) \/ (q.op = "EVENT" /\ OfLog(w))
    <3>1. moved
      BY <2>6, <2>9
    <3>2. ASSUME NEW w \in R, NEW v \in Visits, w.cell = VisitCell(v)
          PROVE  w.row.ticket = q.ticket
      <4>1. w # a /\ ~OfLog(w)
        <5>1. w.cell # TicketCell(q.ticket) /\ w.cell # LogCell(seen.id)
          BY <1>2, <3>2, CellKinds
        <5>. QED  BY <2>6, <5>1
      <4>2. OfVisit(w)
        BY <2>9, <4>1
      <4>. QED  BY <3>2, <4>2, CellKinds
    <3>3. ASSUME NEW w \in R, NEW v \in Visits, w.cell = LogCell(v)
          PROVE  q.op = "EVENT" /\ v = seen.id /\ w.row.log = Append(seen.log, q.evt)
      <4>1. q.op = "EVENT" /\ OfLog(w)
        BY <1>2, <2>6, <2>9, <3>3
      <4>. QED  BY <1>3, <3>3, <4>1
    <3>. HIDE DEF R, moved
    <3>. QED  BY <3>1, <3>2, <3>3 DEF Telling, moved, R
  <2>. QED  BY <2>7, <2>8, <2>9
<1>. QED  BY <1>4, <1>5

-----------------------------------------------------------------------------
(***************************************************************************)
(* Reading: what was seen is what was committed at that moment.            *)
(***************************************************************************)
LEMMA LatestIs ==
  ASSUME NEW t, NEW rows
  PROVE  LET v == LatestOf(t, rows) IN
         /\ v \in Visits \cup {None}
         /\ v # None => v \in Visits /\ rows[VisitCell(v)].ticket = t
         /\ RowOf(v, rows) = NoVisit \/ RowOf(v, rows).ticket = t
<1>1. CASE Newest(t, rows) = {}
  BY <1>1 DEF LatestOf, RowOf
<1>2. CASE Newest(t, rows) # {}
  <2>1. Any(Newest(t, rows)) \in Newest(t, rows)
    BY <1>2 DEF Any
  <2>2. LatestOf(t, rows) \in Newest(t, rows)
    BY <1>2, <2>1 DEF LatestOf
  <2>. QED  BY <2>2 DEF Newest, RowOf
<1>. QED  BY <1>1, <1>2

LEMMA SeeIs ==
  ASSUME NEW seen, NEW rows, NEW q, NEW what, NEW now, now = See(seen, what, q, rows),
         seen = [ticket |-> seen.ticket, id |-> seen.id, visit |-> seen.visit, log |-> seen.log,
                 match |-> seen.match]
  PROVE  /\ what = "TICKET" =>
              /\ now.ticket = rows[TicketCell(q.ticket)]
              /\ now.id = seen.id /\ now.visit = seen.visit /\ now.log = seen.log
         /\ what = "LATEST" =>
              /\ now.id = LatestOf(q.ticket, rows) /\ now.visit = RowOf(now.id, rows)
              /\ now.ticket = seen.ticket /\ now.log = seen.log
         /\ what = "LOG" =>
              /\ now.log = LogOf(seen.id, rows)
              /\ now.id = seen.id /\ now.visit = seen.visit /\ now.ticket = seen.ticket
         /\ what \in {"LOCK", "VISIT"} =>
              /\ now.id = q.visit /\ now.visit = RowOf(q.visit, rows)
              /\ now.ticket = seen.ticket /\ now.log = seen.log
<1>1. PICK a, b, c, d, e : seen = [ticket |-> a, id |-> b, visit |-> c, log |-> d, match |-> e]
  OBVIOUS
<1>2. seen.ticket = a /\ seen.id = b /\ seen.visit = c /\ seen.log = d
  BY <1>1
<1>3. ASSUME NEW v, NEW row, NEW x, x = [seen EXCEPT !.id = v, !.visit = row]
      PROVE  x.id = v /\ x.visit = row /\ x.ticket = a /\ x.log = d
  BY <1>1, <1>3
<1>4. ASSUME NEW v, NEW x, x = SeeVisit(seen, v, rows)
      PROVE  x.id = v /\ x.visit = RowOf(v, rows) /\ x.ticket = a /\ x.log = d
  BY <1>1, <1>4 DEF SeeVisit, RowOf
<1>5. CASE what = "TICKET"
  <2>1. now = [seen EXCEPT !.ticket = rows[TicketCell(q.ticket)]]
    BY <1>5 DEF See
  <2>. QED  BY <1>1, <1>2, <1>5, <2>1
<1>6. CASE what = "LATEST"
  <2>1. now = SeeVisit(seen, LatestOf(q.ticket, rows), rows)
    BY <1>6 DEF See
  <2>. QED  BY <1>2, <1>4, <1>6, <2>1
<1>7. CASE what = "LOG"
  <2>1. now = [seen EXCEPT !.log = LogOf(seen.id, rows)]
    BY <1>7 DEF See, LogOf
  <2>. QED  BY <1>1, <1>2, <1>7, <2>1
<1>8. CASE what \in {"LOCK", "VISIT"}
  <2>1. now = SeeVisit(seen, q.visit, rows)
    BY <1>8 DEF See
  <2>. QED  BY <1>2, <1>4, <1>8, <2>1
<1>. QED  BY <1>5, <1>6, <1>7, <1>8

LEMMA ReadView ==
  ASSUME NEW me, NEW more, NEW q, q = me.message.request, View(me, db), SeenOk(me.seen, db),
         me.reads # <<>>, more.message = me.message, more.reads = Tail(me.reads),
         more.seen = See(me.seen, Head(me.reads), q, db),
         more.locks = IF Head(me.reads) = "LOCK" THEN me.locks \cup {VisitCell(q.visit)}
                      ELSE me.locks
  PROVE  View(more, db)
<1>. DEFINE seen == me.seen
            now == more.seen
            what == Head(me.reads)
<1>1. /\ what = "TICKET" =>
           /\ now.ticket = db[TicketCell(q.ticket)]
           /\ now.id = seen.id /\ now.visit = seen.visit /\ now.log = seen.log
      /\ what = "LATEST" =>
           /\ now.id = LatestOf(q.ticket, db) /\ now.visit = RowOf(now.id, db)
           /\ now.ticket = seen.ticket /\ now.log = seen.log
      /\ what = "LOG" =>
           /\ now.log = LogOf(seen.id, db)
           /\ now.id = seen.id /\ now.visit = seen.visit /\ now.ticket = seen.ticket
      /\ what \in {"LOCK", "VISIT"} =>
           /\ now.id = q.visit /\ now.visit = RowOf(q.visit, db)
           /\ now.ticket = seen.ticket /\ now.log = seen.log
  <2>1. seen = [ticket |-> seen.ticket, id |-> seen.id, visit |-> seen.visit, log |-> seen.log,
                match |-> seen.match]
    BY DEF SeenOk
  <2>. HIDE DEF seen, now, what
  <2>2. now = See(seen, what, q, db)
    BY DEF now, seen, what
  <2>. QED  BY <2>1, <2>2, SeeIs
<1>2. /\ what = "TICKET" => /\ SawTicket(q, now, db)
                            /\ \A rows : /\ SawLatest(q, seen, rows) => SawLatest(q, now, rows)
                                         /\ SawVisit(q, seen, rows) => SawVisit(q, now, rows)
  BY <1>1 DEF SawTicket, SawLatest, SawVisit
<1>3. what = "LATEST" => /\ SawLatest(q, now, db)
                         /\ SawTicket(q, seen, db) => SawTicket(q, now, db)
  BY <1>1, LatestIs DEF SawTicket, SawLatest
<1>4. what = "LOG" => /\ SawLog(q, now, db)
                      /\ SawTicket(q, seen, db) => SawTicket(q, now, db)
                      /\ SawLatest(q, seen, db) => SawLatest(q, now, db)
                      /\ Holds(q, me, db) => Holds(q, more, db) /\ HoldsLog(q, more, db)
  BY <1>1 DEF SawTicket, SawLatest, SawLog, Alike, Holds, HoldsLog
<1>5. what = "LOCK" => Holds(q, more, db)
  BY <1>1 DEF Holds
<1>6. what = "VISIT" => /\ SawVisit(q, now, db)
                        /\ SawTicket(q, seen, db) => SawTicket(q, now, db)
  BY <1>1 DEF SawVisit, SawTicket
<1>7. what = "TICKET" => /\ Holds(q, me, db) => Holds(q, more, db)
                         /\ HoldsLog(q, me, db) => HoldsLog(q, more, db)
  BY <1>1 DEF Holds, HoldsLog
<1>8. /\ \A a : Tail(<<a>>) = <<>> /\ Head(<<a>>) = a
      /\ \A a, b : Tail(<<a, b>>) = <<b>> /\ Head(<<a, b>>) = a
      /\ \A a, b, c : Tail(<<a, b, c>>) = <<b, c>> /\ Head(<<a, b, c>>) = a
  OBVIOUS
<1>. HIDE DEF seen, now, what
<1>9. more.message.request = q /\ more.reads = Tail(me.reads) /\ what = Head(me.reads)
  BY DEF what
<1>10. more.seen = now /\ me.seen = seen
  BY DEF now, seen
<1>11. CASE q.op = "ESCALATE"
  BY <1>2, <1>8, <1>9, <1>10, <1>11 DEF View
<1>12. CASE q.op = "BOOK"
  <2>1. \/ me.reads = <<"TICKET", "LATEST">>
        \/ me.reads = <<"LATEST">> /\ SawTicket(q, seen, db)
        \/ me.reads = <<>> /\ SawTicket(q, seen, db) /\ SawLatest(q, seen, db)
    BY <1>9, <1>10, <1>12 DEF View
  <2>2. CASE me.reads = <<"TICKET", "LATEST">>
    <3>1. what = "TICKET" /\ more.reads = <<"LATEST">>
      BY <1>8, <1>9, <2>2
    <3>2. SawTicket(q, now, db)
      BY <1>2, <1>3, <2>2, <3>1
    <3>. QED  BY <1>9, <1>10, <1>12, <3>1, <3>2 DEF View
  <2>3. CASE me.reads = <<"LATEST">> /\ SawTicket(q, seen, db)
    <3>1. what = "LATEST" /\ more.reads = <<>>
      BY <1>8, <1>9, <2>3
    <3>2. SawTicket(q, now, db) /\ SawLatest(q, now, db)
      BY <1>2, <1>3, <2>3, <3>1
    <3>. QED  BY <1>9, <1>10, <1>12, <3>1, <3>2 DEF View
  <2>4. me.reads # <<>>
    OBVIOUS
  <2>. QED  BY <2>1, <2>2, <2>3, <2>4
<1>13. CASE q.op = "RESCHEDULE"
  <2>1. \/ me.reads = <<"TICKET", "VISIT">>
        \/ me.reads = <<"VISIT">> /\ SawTicket(q, seen, db)
        \/ me.reads = <<>> /\ SawTicket(q, seen, db) /\ SawVisit(q, seen, db)
    BY <1>9, <1>10, <1>13 DEF View
  <2>2. CASE me.reads = <<"TICKET", "VISIT">>
    <3>1. what = "TICKET" /\ more.reads = <<"VISIT">>
      BY <1>8, <1>9, <2>2
    <3>2. SawTicket(q, now, db)
      BY <1>2, <1>6, <2>2, <3>1
    <3>. QED  BY <1>9, <1>10, <1>13, <3>1, <3>2 DEF View
  <2>3. CASE me.reads = <<"VISIT">> /\ SawTicket(q, seen, db)
    <3>1. what = "VISIT" /\ more.reads = <<>>
      BY <1>8, <1>9, <2>3
    <3>2. SawTicket(q, now, db) /\ SawVisit(q, now, db)
      BY <1>2, <1>6, <2>3, <3>1
    <3>. QED  BY <1>9, <1>10, <1>13, <3>1, <3>2 DEF View
  <2>4. me.reads # <<>>
    OBVIOUS
  <2>. QED  BY <2>1, <2>2, <2>3, <2>4
<1>14. CASE q.op \in {"ACCEPT", "RECOVER"}
  <2>1. \/ me.reads = <<"TICKET", "LATEST", "LOG">>
        \/ me.reads = <<"LATEST", "LOG">> /\ SawTicket(q, seen, db)
        \/ me.reads = <<"LOG">> /\ SawTicket(q, seen, db) /\ SawLatest(q, seen, db)
        \/ me.reads = <<>> /\ SawTicket(q, seen, db) /\ SawLatest(q, seen, db) /\ SawLog(q, seen, db)
    BY <1>9, <1>10, <1>14 DEF View
  <2>2. CASE me.reads = <<"TICKET", "LATEST", "LOG">>
    <3>1. what = "TICKET" /\ more.reads = <<"LATEST", "LOG">>
      BY <1>8, <1>9, <2>2
    <3>2. SawTicket(q, now, db)
      BY <1>2, <1>3, <1>4, <2>2, <3>1
    <3>. QED  BY <1>9, <1>10, <1>14, <3>1, <3>2 DEF View
  <2>3. CASE me.reads = <<"LATEST", "LOG">> /\ SawTicket(q, seen, db)
    <3>1. what = "LATEST" /\ more.reads = <<"LOG">>
      BY <1>8, <1>9, <2>3
    <3>2. SawTicket(q, now, db) /\ SawLatest(q, now, db)
      BY <1>2, <1>3, <1>4, <2>3, <3>1
    <3>. QED  BY <1>9, <1>10, <1>14, <3>1, <3>2 DEF View
  <2>4. CASE me.reads = <<"LOG">> /\ SawTicket(q, seen, db) /\ SawLatest(q, seen, db)
    <3>1. what = "LOG" /\ more.reads = <<>>
      BY <1>8, <1>9, <2>4
    <3>2. SawTicket(q, now, db) /\ SawLatest(q, now, db) /\ SawLog(q, now, db)
      BY <1>2, <1>3, <1>4, <2>4, <3>1
    <3>. QED  BY <1>9, <1>10, <1>14, <3>1, <3>2 DEF View
  <2>5. me.reads # <<>>
    OBVIOUS
  <2>. QED  BY <2>1, <2>2, <2>3, <2>4, <2>5
<1>15. CASE q.op = "EVENT"
  <2>1. \/ me.reads = <<"LOCK", "LOG", "TICKET">>
        \/ me.reads = <<"LOG", "TICKET">> /\ Holds(q, me, db)
        \/ me.reads = <<"TICKET">> /\ Holds(q, me, db) /\ HoldsLog(q, me, db)
        \/ me.reads = <<>> /\ Holds(q, me, db) /\ HoldsLog(q, me, db) /\ SawTicket(q, seen, db)
    BY <1>9, <1>10, <1>15 DEF View
  <2>2. CASE me.reads = <<"LOCK", "LOG", "TICKET">>
    <3>1. what = "LOCK" /\ more.reads = <<"LOG", "TICKET">>
      BY <1>8, <1>9, <2>2
    <3>2. Holds(q, more, db)
      BY <1>2, <1>4, <1>5, <1>7, <2>2, <3>1
    <3>. QED  BY <1>9, <1>10, <1>15, <3>1, <3>2 DEF View
  <2>3. CASE me.reads = <<"LOG", "TICKET">> /\ Holds(q, me, db)
    <3>1. what = "LOG" /\ more.reads = <<"TICKET">>
      BY <1>8, <1>9, <2>3
    <3>2. Holds(q, more, db) /\ HoldsLog(q, more, db)
      BY <1>2, <1>4, <1>5, <1>7, <2>3, <3>1
    <3>. QED  BY <1>9, <1>10, <1>15, <3>1, <3>2 DEF View
  <2>4. CASE me.reads = <<"TICKET">> /\ Holds(q, me, db) /\ HoldsLog(q, me, db)
    <3>1. what = "TICKET" /\ more.reads = <<>>
      BY <1>8, <1>9, <2>4
    <3>2. Holds(q, more, db) /\ HoldsLog(q, more, db) /\ SawTicket(q, now, db)
      BY <1>2, <1>4, <1>5, <1>7, <2>4, <3>1
    <3>. QED  BY <1>9, <1>10, <1>15, <3>1, <3>2 DEF View
  <2>5. me.reads # <<>>
    OBVIOUS
  <2>. QED  BY <2>1, <2>2, <2>3, <2>4, <2>5
<1>16. CASE q.op = "CREATE"
  <2>1. me.reads = <<"MATCH">>
    BY <1>9, <1>16 DEF View
  <2>2. more.reads = <<>>
    BY <1>8, <1>9, <2>1
  <2>. QED  BY <1>9, <1>16, <2>2 DEF View
<1>17. CASE q.op \notin Operations
  BY <1>9, <1>17 DEF View, Operations
<1>. QED  BY <1>11, <1>12, <1>13, <1>14, <1>15, <1>16, <1>17 DEF Operations

\* The last statement is the one nothing is left after.
LEMMA ReadsEnd ==
  ASSUME NEW me, View(me, db), me.message.request.op \in Operations, me.reads # <<>>,
         Tail(me.reads) = <<>>
  PROVE  ~(Len(me.reads) > 1)
<1>. DEFINE reads == me.reads
<1>1. \/ \E a : reads = <<a>>
      \/ \E a, b : reads = <<a, b>>
      \/ \E a, b, c : reads = <<a, b, c>>
  BY DEF View, Operations
<1>. HIDE DEF reads
<1>2. Tail(reads) = <<>>
  BY DEF reads
<1>3. CASE \E a : reads = <<a>>
  <2>1. Len(reads) = 1
    BY <1>3
  <2>. QED  BY <2>1 DEF reads
<1>4. CASE \E a, b : reads = <<a, b>>
  <2>1. PICK a, b : reads = <<a, b>>
    BY <1>4
  <2>2. Tail(reads) = <<b>>
    BY <2>1
  <2>. QED  BY <1>2, <2>2
<1>5. CASE \E a, b, c : reads = <<a, b, c>>
  <2>1. PICK a, b, c : reads = <<a, b, c>>
    BY <1>5
  <2>2. Tail(reads) = <<b, c>>
    BY <2>1
  <2>. QED  BY <1>2, <2>2
<1>. QED  BY <1>1, <1>3, <1>4, <1>5

-----------------------------------------------------------------------------
(***************************************************************************)
(* Statements that write nothing committed keep what sessions have read.   *)
(***************************************************************************)
LEMMA DraftsFit ==
  ASSUME NEW q \in Requests
  PROVE  /\ q.op \in {"RESCHEDULE", "EVENT"} => q.visit \in Visits \ {None}
         /\ q.op = "EVENT" => q.evt \in WorkerEventType
<1>1. ASSUME NEW op, NEW t \in Tickets
      PROVE  /\ About(op, t).op = op
             /\ \A x : AtSlot(About(op, t), x).op = op /\ Disposing(About(op, t), x).op = op
  BY DEF About, AtSlot, Disposing, Blank
<1>2. ASSUME NEW op, NEW t \in Tickets, NEW x
      PROVE  /\ AtSlot(AboutVisit(op, t), x).op = op
             /\ AtSlot(AboutVisit(op, t), x).visit = LatestOf(t, db)
             /\ Reporting(AboutVisit(op, t), x).evt = x
             /\ Reporting(AboutVisit(op, t), x).visit = LatestOf(t, db)
  BY DEF AboutVisit, About, AtSlot, Reporting, Blank
<1>3. \A x : [Blank("CREATE") EXCEPT !.subject = x].op = "CREATE"
  BY DEF Blank
<1>4. \A t : LatestOf(t, db) \in Visits \cup {None}
  BY LatestIs
<1>5. q \in Drafts /\ (q.op \in {"RESCHEDULE", "EVENT"} => q.visit # None)
  BY DEF Requests
<1>6. \/ \E x \in Subjects : q = [Blank("CREATE") EXCEPT !.subject = x]
      \/ \E t \in Tickets, x \in Slots : q = AtSlot(About("BOOK", t), x)
      \/ \E t \in Tickets, x \in Slots : q = AtSlot(AboutVisit("RESCHEDULE", t), x)
      \/ \E op \in {"ACCEPT", "ESCALATE"}, t \in Tickets : q = About(op, t)
      \/ \E t \in Tickets, x \in RecoveryDisposition : q = Disposing(About("RECOVER", t), x)
      \/ \E t \in Tickets, x \in WorkerEventType : q = Reporting(AboutVisit("EVENT", t), x)
  BY <1>5 DEF Drafts
<1>7. CASE \E x \in Subjects : q = [Blank("CREATE") EXCEPT !.subject = x]
  BY <1>3, <1>7
<1>8. CASE \E t \in Tickets, x \in Slots : q = AtSlot(About("BOOK", t), x)
  BY <1>1, <1>8
<1>9. CASE \E t \in Tickets, x \in Slots : q = AtSlot(AboutVisit("RESCHEDULE", t), x)
  BY <1>2, <1>4, <1>5, <1>9
<1>10. CASE \E op \in {"ACCEPT", "ESCALATE"}, t \in Tickets : q = About(op, t)
  BY <1>1, <1>10
<1>11. CASE \E t \in Tickets, x \in RecoveryDisposition : q = Disposing(About("RECOVER", t), x)
  BY <1>1, <1>11
<1>12. CASE \E t \in Tickets, x \in WorkerEventType : q = Reporting(AboutVisit("EVENT", t), x)
  BY <1>2, <1>4, <1>5, <1>12
<1>. QED  BY <1>6, <1>7, <1>8, <1>9, <1>10, <1>11, <1>12

LEMMA ViewsMove ==
  ASSUME SessionsSound, SInv, NEW s \in Sessions, NEW me,
         session' = [session EXCEPT ![s] = me], db' = db,
         me = Idle \/ (View(me, db) /\ Decided(me))
  PROVE  RowsFit' /\ ViewsOk'
<1>1. session'[s] = me /\ \A o \in Sessions \ {s} : session'[o] = session[o]
  BY DEF SessionsSound
<1>2. ASSUME NEW o \in Sessions, session'[o] # Idle
      PROVE  View(session'[o], db) /\ Decided(session'[o])
  <2>1. CASE o = s
    BY <1>1, <1>2, <2>1
  <2>2. CASE o # s
    BY <1>1, <1>2, <2>2 DEF SInv, ViewsOk
  <2>. QED  BY <2>1, <2>2
<1>3. \A o \in Sessions : session'[o] # Idle => View(session'[o], db') /\ Decided(session'[o])
  BY <1>2
<1>. QED  BY <1>3 DEF SInv, RowsFit, ViewsOk

LEMMA ClosedUnseen ==
  ASSUME SessionsSound, SInv, NEW s \in Sessions, Close(s), UNCHANGED <<db, sent>>
  PROVE  SInv'
<1>1. session' = [session EXCEPT ![s] = Idle]
  BY DEF Close
<1>. HIDE DEF Idle
<1>2. RowsFit' /\ ViewsOk'
  BY <1>1, ViewsMove
<1>. QED  BY <1>2 DEF SInv, RequestsFit

LEMMA DeliverKeepsViews ==
  ASSUME SessionsSound, SInv, NEW s \in Sessions, NEW m, Deliver(s, m), sent' = sent \cup {m},
         m.request.op \in {"RESCHEDULE", "EVENT"} => m.request.visit \in Visits \ {None},
         m.request.op = "EVENT" => m.request.evt \in WorkerEventType
  PROVE  SInv'
<1>. DEFINE me == [stage |-> "ACQUIRE", message |-> m, began |-> clock,
                   reads |-> Statements(m.request.op), seen |-> NothingSeen, todo |-> <<>>,
                   done |-> <<>>, locks |-> {}]
<1>1. session' = [session EXCEPT ![s] = me] /\ db' = db
  BY DEF Deliver
<1>2. /\ me.stage = "ACQUIRE" /\ me.message.request = m.request
      /\ me.reads = Statements(m.request.op)
  OBVIOUS
<1>. HIDE DEF me
<1>3. View(me, db) /\ Decided(me)
  BY <1>2 DEF View, Decided, Statements
<1>4. RowsFit' /\ ViewsOk'
  BY <1>1, <1>3, ViewsMove
<1>. QED  BY <1>1, <1>4 DEF SInv, RequestsFit

LEMMA SubmitKeepsViews ==
  ASSUME SessionsSound, SInv, NEW s \in Sessions, Submit(s) \/ Resubmit(s)
  PROVE  SInv'
<1>1. CASE Submit(s)
  <2>1. PICK k \in Keys, q \in Requests :
          /\ Deliver(s, [id |-> <<q.op, k>>, request |-> q])
          /\ sent' = sent \cup {[id |-> <<q.op, k>>, request |-> q]}
    BY <1>1 DEF Submit
  <2>. DEFINE m == [id |-> <<q.op, k>>, request |-> q]
  <2>2. m.request = q
    OBVIOUS
  <2>3. Deliver(s, m) /\ sent' = sent \cup {m}
    BY <2>1
  <2>. HIDE DEF m
  <2>. QED  BY <2>2, <2>3, DraftsFit, DeliverKeepsViews
<1>2. CASE Resubmit(s)
  <2>1. PICK m \in sent : Deliver(s, m) /\ sent' = sent
    BY <1>2 DEF Resubmit
  <2>2. sent' = sent \cup {m}
    BY <2>1
  <2>. QED  BY <2>1, <2>2, DeliverKeepsViews DEF SInv, RequestsFit
<1>. QED  BY <1>1, <1>2

LEMMA AcquireKeepsViews ==
  ASSUME SessionsSound, BInv, SInv, NEW s \in Sessions, Acquire(s)
  PROVE  SInv'
<1>. DEFINE old == session[s]
            me == [old EXCEPT !.stage = "RUN"]
<1>1. /\ old.stage = "ACQUIRE" /\ session' = [session EXCEPT ![s] = me] /\ UNCHANGED <<db, sent>>
  BY DEF Acquire
<1>2. old # Idle
  BY <1>1 DEF Idle
<1>3. IsWork(old) /\ View(old, db) /\ Decided(old)
  BY <1>2, Working DEF SInv, ViewsOk, WorkOk
<1>4. /\ me.reads = old.reads /\ me.locks = old.locks /\ me.seen = old.seen
      /\ me.message = old.message /\ me.stage = "RUN"
  BY <1>3 DEF IsWork
<1>. HIDE DEF me, old
<1>5. View(me, db)
  BY <1>3, <1>4 DEF View, Holds, HoldsLog
<1>6. Decided(me)
  BY <1>1, <1>3, <1>4 DEF Decided
<1>7. RowsFit' /\ ViewsOk'
  <2>1. session' = [session EXCEPT ![s] = me] /\ db' = db
    BY <1>1 DEF me, old
  <2>. QED  BY <1>5, <1>6, <2>1, ViewsMove
<1>. QED  BY <1>1, <1>7 DEF SInv, RequestsFit

LEMMA ReadKeepsViews ==
  ASSUME SessionsSound, MessagesSound, BInv, SInv, NEW s \in Sessions, Read(s), BInv'
  PROVE  SInv'
<1>. DEFINE old == session[s]
            q == Request(s)
            what == Head(old.reads)
<1>1. Running(s) /\ old.reads # <<>> /\ UNCHANGED <<db, sent>>
  BY DEF Read, Refuse
<1>2. CASE Refuse(s)
  BY <1>1, <1>2, ClosedUnseen DEF Refuse
<1>3. CASE ~Refuse(s)
  <2>1. PICK me, new :
          /\ session' = [session EXCEPT ![s] = me]
          /\ IsWork(me) /\ me.began = old.began /\ me.message = old.message
          /\ me.stage = "RUN" /\ me.done = <<>> /\ me.reads = Tail(old.reads)
          /\ me.seen = See(old.seen, what, q, db)
          /\ me.locks = IF what = "LOCK" THEN old.locks \cup {VisitCell(q.visit)} ELSE old.locks
          /\ me.todo = IF Len(old.reads) > 1 THEN <<>> ELSE Writes(q, me.seen, new, me.began)
          /\ Len(old.reads) > 1 \/ Allowed(q, me.seen)
    BY <1>3, ReadIs
  <2>2. session[s] # Idle /\ old.message.request = q
    BY <1>1 DEF Running, Idle, Request
  <2>3. SeenOk(old.seen, db) /\ View(old, db)
    BY <2>2, Working DEF WorkOk, SInv, ViewsOk
  <2>. HIDE DEF q, what
  <2>4. View(me, db)
    BY <1>1, <2>1, <2>2, <2>3, ReadView DEF what
  <2>5. Decided(me)
    <3>1. CASE me.reads # <<>>
      BY <2>1, <3>1 DEF Decided
    <3>2. CASE me.reads = <<>>
      <4>1. old.message.request.op \in Operations
        BY <2>2, Working DEF MessagesSound, MessageSound
      <4>2. ~(Len(old.reads) > 1)
        BY <1>1, <2>1, <2>3, <3>2, <4>1, ReadsEnd
      <4>3. Allowed(q, me.seen) /\ me.todo = Writes(q, me.seen, new, me.began)
        BY <2>1, <4>2
      <4>4. IsSequence(me.todo)
        <5>1. session'[s] = me /\ me # Idle
          BY <2>1 DEF SessionsSound, Idle
        <5>. QED  BY <5>1 DEF BInv, SessionsOk, WorkOk
      <4>5. Len(me.todo) \in Nat
        BY <4>4 DEF IsSequence
      <4>6. Follows(me, me.todo)
        BY <2>1, <4>5 DEF Follows
      <4>. QED  BY <2>1, <2>2, <4>3, <4>6 DEF Decided
    <3>. QED  BY <3>1, <3>2
  <2>6. RowsFit' /\ ViewsOk'
    BY <1>1, <2>1, <2>4, <2>5, ViewsMove
  <2>. QED  BY <1>1, <2>6 DEF SInv, RequestsFit
<1>. QED  BY <1>2, <1>3

LEMMA FollowsOn ==
  ASSUME NEW me, NEW more, NEW writes, Follows(me, writes), IsSequence(me.done),
         IsSequence(me.todo), me.todo # <<>>, more.todo = Tail(me.todo),
         more.done = Append(me.done, Head(me.todo))
  PROVE  Follows(more, writes)
<1>. DEFINE done == me.done
            todo == me.todo
            D == {done[i] : i \in DOMAIN done}
            T == {todo[i] : i \in DOMAIN todo}
<1>1. done \in Seq(D) /\ todo \in Seq(T) /\ todo # <<>>
  BY DEF IsSequence
<1>2. /\ Len(writes) = Len(done) + Len(todo)
      /\ \A i \in 1..Len(done) : done[i] = writes[i]
      /\ \A i \in 1..Len(todo) : todo[i] = writes[Len(done) + i]
  BY DEF Follows
<1>. HIDE DEF done, todo, D, T
<1>3. /\ Len(todo) \in Nat \ {0} /\ Head(todo) = todo[1] /\ Len(Tail(todo)) = Len(todo) - 1
      /\ \A i \in 1..Len(Tail(todo)) : Tail(todo)[i] = todo[i + 1]
  BY <1>1, HeadTailProperties, LenProperties, EmptySeq
<1>4. /\ Len(done) \in Nat /\ Len(Append(done, Head(todo))) = Len(done) + 1
      /\ \A i \in 1..Len(done) : Append(done, Head(todo))[i] = done[i]
      /\ Append(done, Head(todo))[Len(done) + 1] = todo[1]
  <2>1. done \in Seq(D \cup {Head(todo)})
    BY <1>1, SeqMonotonic
  <2>. QED  BY <1>3, <2>1, AppendProperties, LenProperties
<1>5. Len(writes) = Len(Append(done, Head(todo))) + Len(Tail(todo))
  BY <1>2, <1>3, <1>4
<1>6. ASSUME NEW i \in 1..Len(Append(done, Head(todo)))
      PROVE  Append(done, Head(todo))[i] = writes[i]
  <2>1. CASE i \in 1..Len(done)
    BY <1>2, <1>4, <2>1
  <2>2. CASE i = Len(done) + 1
    <3>1. todo[1] = writes[Len(done) + 1]
      BY <1>2, <1>3
    <3>. QED  BY <1>4, <2>2, <3>1
  <2>. QED  BY <1>4, <2>1, <2>2
<1>7. ASSUME NEW i \in 1..Len(Tail(todo))
      PROVE  Tail(todo)[i] = writes[Len(Append(done, Head(todo))) + i]
  <2>1. i + 1 \in 1..Len(todo) /\ Tail(todo)[i] = todo[i + 1]
    BY <1>3
  <2>2. todo[i + 1] = writes[Len(done) + (i + 1)]
    BY <1>2, <2>1
  <2>3. Len(done) + (i + 1) = Len(Append(done, Head(todo))) + i
    BY <1>3, <1>4
  <2>. QED  BY <2>1, <2>2, <2>3
<1>. QED  BY <1>5, <1>6, <1>7 DEF Follows, done, todo

LEMMA ExecuteKeepsViews ==
  ASSUME SessionsSound, BInv, SInv, NEW s \in Sessions, Execute(s)
  PROVE  SInv'
<1>. DEFINE old == session[s]
            w == Head(old.todo)
<1>1. Running(s) /\ old.todo # <<>> /\ UNCHANGED <<db, sent>>
  BY DEF Execute, Refuse
<1>2. CASE ~StillFits(s, w)
  BY <1>1, <1>2, ClosedUnseen DEF Execute, Refuse, Next1
<1>3. CASE StillFits(s, w)
  <2>1. PICK me :
          /\ session' = [session EXCEPT ![s] = me]
          /\ IsWork(me) /\ me.began = old.began /\ me.message = old.message
          /\ me.seen = old.seen /\ me.stage = "RUN" /\ me.reads = <<>>
          /\ me.todo = Tail(old.todo) /\ me.done = Append(old.done, w)
          /\ me.locks = old.locks \cup {w.cell}
    BY <1>3, ExecuteIs DEF Next1
  <2>2. session[s] # Idle /\ old.stage = "RUN"
    BY <1>1 DEF Running, Idle
  <2>3. /\ IsSequence(old.done) /\ IsSequence(old.todo) /\ old.reads = <<>>
        /\ View(old, db) /\ Decided(old)
    BY <1>1, <2>2, Working DEF WorkOk, SInv, ViewsOk
  <2>4. View(me, db)
    <3>1. \A q : Holds(q, old, db) => Holds(q, me, db)
      BY <2>1 DEF Holds
    <3>2. \A q : HoldsLog(q, old, db) => HoldsLog(q, me, db)
      BY <2>1 DEF HoldsLog
    <3>. QED  BY <2>1, <2>3, <3>1, <3>2 DEF View
  <2>5. Decided(me)
    <3>. DEFINE q == old.message.request
    <3>1. PICK new : Follows(old, Writes(q, old.seen, new, old.began))
      BY <2>2, <2>3 DEF Decided
    <3>2. Follows(me, Writes(q, old.seen, new, old.began))
      BY <1>1, <2>1, <2>3, <3>1, FollowsOn
    <3>3. Allowed(q, old.seen)
      BY <2>2, <2>3 DEF Decided
    <3>. QED  BY <2>1, <3>2, <3>3 DEF Decided
  <2>6. RowsFit' /\ ViewsOk'
    BY <1>1, <2>1, <2>4, <2>5, ViewsMove
  <2>. QED  BY <1>1, <2>6 DEF SInv, RequestsFit
<1>. QED  BY <1>2, <1>3

-----------------------------------------------------------------------------
(***************************************************************************)
(* What a commit tells the others: whoever does not touch a ticket touches *)
(* none of its visits, and adds to their logs only what is early.          *)
(***************************************************************************)
LEMMA WritesInOrder ==
  ASSUME NEW q, q.op \in Operations, NEW seen, Allowed(q, seen),
         q.op = "EVENT" => q.evt \in WorkerEventType, NEW new, NEW began, NEW writes,
         writes = Writes(q, seen, new, began)
  PROVE  DOMAIN writes = 1..Len(writes) /\ Len(writes) \in Nat
<1>1. CASE q.op = "CREATE"
  BY <1>1 DEF Writes
<1>2. CASE q.op # "CREATE"
  <2>1. WritesOf(q, seen, new, began, writes)
    BY <1>2, WritesAre
  <2>2. \E a, b, c : writes \in {<<a>>, <<a, b>>, <<a, b, c>>}
    BY <2>1 DEF WritesOf
  <2>. QED  BY <2>2
<1>. QED  BY <1>1, <1>2

\* A session that has executed everything has made its writes, in their order.
LEMMA MadeIs ==
  ASSUME NEW me, IsSequence(me.done), me.todo = <<>>, NEW writes, Follows(me, writes),
         DOMAIN writes = 1..Len(writes), Len(writes) \in Nat
  PROVE  /\ Len(me.done) = Len(writes) /\ DOMAIN me.done = DOMAIN writes
         /\ \A i \in DOMAIN me.done : me.done[i] = writes[i]
         /\ Made(me) = {writes[i] : i \in DOMAIN writes}
<1>. DEFINE done == me.done
            D == {done[i] : i \in DOMAIN done}
<1>1. done \in Seq(D)
  BY DEF IsSequence
<1>2. Len(writes) = Len(done) + Len(me.todo) /\ \A i \in 1..Len(done) : done[i] = writes[i]
  BY DEF Follows
<1>3. Len(me.todo) = 0
  OBVIOUS
<1>. HIDE DEF done, D
<1>4. Len(done) \in Nat /\ DOMAIN done = 1..Len(done)
  BY <1>1
<1>5. Len(done) = Len(writes) /\ DOMAIN done = DOMAIN writes /\ \A i \in DOMAIN done : done[i] = writes[i]
  BY <1>2, <1>3, <1>4
<1>6. {done[i] : i \in DOMAIN done} = {writes[i] : i \in DOMAIN writes}
  BY <1>5
<1>. QED  BY <1>5, <1>6 DEF Made, done

LEMMA CommitMakes ==
  ASSUME SessionsSound, MessagesSound, BInv, SInv, NEW s \in Sessions, Commit(s),
         NEW me, me = session[s], NEW q, q = me.message.request
  PROVE  /\ View(me, db) /\ me.reads = <<>> /\ Allowed(q, me.seen) /\ q.op \in Operations
         /\ q.op = "EVENT" => q.evt \in WorkerEventType
         /\ \E new : LET writes == Writes(q, me.seen, new, me.began) IN
              /\ Len(me.done) = Len(writes) /\ DOMAIN me.done = DOMAIN writes
              /\ \A i \in DOMAIN me.done : me.done[i] = writes[i]
         /\ Telling(q, me.seen, Made(me))
<1>1. me # Idle /\ me.stage = "RUN" /\ me.reads = <<>> /\ me.todo = <<>>
  BY DEF Commit, Running, Idle
<1>2. View(me, db) /\ Decided(me)
  BY <1>1 DEF SInv, ViewsOk
<1>3. me.message \in sent /\ WorkOk(me, db)
  BY CommitIs
<1>4. q.op \in Operations /\ (q.op = "EVENT" => q.evt \in WorkerEventType)
  BY <1>3 DEF MessagesSound, MessageSound, SInv, RequestsFit
<1>5. PICK new : Follows(me, Writes(q, me.seen, new, me.began))
  BY <1>1, <1>2 DEF Decided
<1>6. Allowed(q, me.seen)
  BY <1>1, <1>2 DEF Decided
<1>. DEFINE writes == Writes(q, me.seen, new, me.began)
<1>7. DOMAIN writes = 1..Len(writes) /\ Len(writes) \in Nat
  BY <1>4, <1>6, WritesInOrder
<1>8. Follows(me, writes)
  BY <1>5
<1>9. q.op = "ACCEPT" => me.seen.visit = NoVisit \/ me.seen.visit.ticket = q.ticket
  BY <1>1, <1>2 DEF View, SawLatest
<1>10. Telling(q, me.seen, {writes[i] : i \in DOMAIN writes})
  <2>1. RowsOk /\ SeenOk(me.seen, db)
    BY <1>3 DEF BInv, WorkOk
  <2>. QED  BY <1>4, <1>6, <1>9, <2>1, WritesTell
<1>11. /\ Len(me.done) = Len(writes) /\ DOMAIN me.done = DOMAIN writes
       /\ \A i \in DOMAIN me.done : me.done[i] = writes[i]
       /\ Made(me) = {writes[i] : i \in DOMAIN writes}
  <2>. HIDE DEF writes
  <2>1. IsSequence(me.done)
    BY <1>3 DEF WorkOk
  <2>. QED  BY <1>1, <1>7, <1>8, <2>1, MadeIs
<1>12. Telling(q, me.seen, Made(me))
  <2>. HIDE DEF writes
  <2>. QED  BY <1>10, <1>11
<1>. QED  BY <1>1, <1>2, <1>4, <1>6, <1>11, <1>12

\* A worker event of the approach finds a log that is early, and leaves one.
LEMMA EarlyAppend ==
  ASSUME NEW log \in Seq(WorkerEventType), NEW evt \in WorkerEventType, evt \in Approaching,
         SequenceAllows(evt, log), NEW other, Alike(other, log)
  PROVE  Alike(other, Append(log, evt))
<1>1. LastEvent(Append(log, evt)) = evt /\ evt \in Early
  BY LastOfAppend DEF Early
<1>2. LastEvent(log) \in Early
  BY DEF SequenceAllows, Approaching, Early, LastEvent
<1>. HIDE DEF Early
<1>. QED  BY <1>1, <1>2 DEF Alike

LEMMA CommitFrame ==
  ASSUME SessionsSound, MessagesSound, BInv, SInv, NEW s \in Sessions, Commit(s),
         NEW t \in Tickets, \A w \in Made(session[s]) : w.cell # TicketCell(t)
  PROVE  /\ db'[TicketCell(t)] = db[TicketCell(t)]
         /\ \A v \in Visits :
              db[VisitCell(v)].ticket = t \/ db'[VisitCell(v)].ticket = t =>
                /\ db'[VisitCell(v)] = db[VisitCell(v)]
                /\ \A log : Alike(log, db[LogCell(v)].log) => Alike(log, db'[LogCell(v)].log)
         /\ LatestOf(t, db') = LatestOf(t, db)
<1>. DEFINE me == session[s]
            after == db'
            q == me.message.request
            M == Made(me)
<1>1. /\ WorkOk(me, db) /\ me.todo = <<>> /\ Lands(me, after) /\ me.message \in sent
  BY CommitIs
<1>2. /\ View(me, db) /\ me.reads = <<>> /\ Allowed(q, me.seen)
      /\ q.op = "EVENT" => q.evt \in WorkerEventType
      /\ Telling(q, me.seen, M)
  BY CommitMakes
<1>3. \A v : TicketCell(t) \in Cells /\ (v \in Visits => VisitCell(v) \in Cells /\ LogCell(v) \in Cells)
  BY CellKinds DEF Cells
<1>4. after[TicketCell(t)] = db[TicketCell(t)]
  BY <1>1, <1>3 DEF Lands
<1>5. (\E x \in M : x.cell = TicketCell(q.ticket)) => q.ticket # t
  OBVIOUS
<1>6. ASSUME NEW w \in M, NEW v \in Visits, w.cell = VisitCell(v)
      PROVE  w.row.ticket = q.ticket /\ q.ticket # t
  BY <1>2, <1>5, <1>6 DEF Telling
<1>7. ASSUME NEW w \in M, NEW v \in Visits, w.cell = LogCell(v)
      PROVE  /\ q.op = "EVENT" /\ v = me.seen.id /\ w.row.log = Append(me.seen.log, q.evt)
             /\ q.ticket = t => q.evt \in Approaching
  BY <1>2, <1>5, <1>7 DEF Telling
<1>. HIDE DEF M
<1>8. ASSUME NEW v \in Visits, db[VisitCell(v)].ticket = t \/ after[VisitCell(v)].ticket = t
      PROVE  after[VisitCell(v)] = db[VisitCell(v)]
  <2>1. CASE \E w \in M : w.cell = VisitCell(v) /\ after[VisitCell(v)] = w.row
    <3>1. PICK w \in M : w.cell = VisitCell(v) /\ after[VisitCell(v)] = w.row
      BY <2>1
    <3>2. after[VisitCell(v)].ticket # t /\ q.ticket # t
      BY <1>6, <3>1
    <3>3. db[VisitCell(v)].ticket = t
      BY <1>8, <3>2
    <3>4. db[VisitCell(v)].version # 0
      BY <3>3 DEF SInv, RowsFit
    <3>5. \A x : Ending(x, db[VisitCell(v)]) => x.row.ticket = db[VisitCell(v)].ticket
      BY DEF Ending, SameVisit
    <3>. QED  BY <1>1, <3>2, <3>3, <3>4, <3>5, VisitAfter
  <2>2. CASE ~\E w \in M : w.cell = VisitCell(v) /\ after[VisitCell(v)] = w.row
    BY <1>1, <1>3, <2>2 DEF Lands, M
  <2>. QED  BY <2>1, <2>2
<1>9. ASSUME NEW v \in Visits, db[VisitCell(v)].ticket = t, NEW log, Alike(log, db[LogCell(v)].log)
      PROVE  Alike(log, after[LogCell(v)].log)
  <2>1. CASE after[LogCell(v)] = db[LogCell(v)]
    BY <1>9, <2>1
  <2>2. CASE after[LogCell(v)] # db[LogCell(v)]
    <3>1. PICK w \in M : w.cell = LogCell(v) /\ after[LogCell(v)] = w.row
      BY <1>1, <1>3, <2>2 DEF Lands, M
    <3>2. /\ q.op = "EVENT" /\ v = me.seen.id /\ w.row.log = Append(me.seen.log, q.evt)
          /\ q.ticket = t => q.evt \in Approaching
      BY <1>7, <3>1
    <3>3. Holds(q, me, db) /\ HoldsLog(q, me, db)
      BY <1>2, <3>2 DEF View
    <3>4. q.visit = v /\ v # None
      <4>1. q.visit = v
        BY <3>2, <3>3 DEF Holds
      <4>. QED  BY <1>1, <3>2, <4>1 DEF SInv, RequestsFit
    <3>5. me.seen.visit = db[VisitCell(v)] /\ me.seen.log = db[LogCell(v)].log
      BY <3>3, <3>4 DEF Holds, HoldsLog, RowOf, LogOf
    <3>6. q.ticket = t /\ SequenceAllows(q.evt, me.seen.log)
      <4>1. me.seen.visit.ticket = q.ticket /\ SequenceAllows(q.evt, me.seen.log)
        BY <1>2, <3>2 DEF Allowed
      <4>. QED  BY <1>9, <3>5, <4>1
    <3>7. q.evt \in Approaching /\ q.evt \in WorkerEventType
      BY <1>2, <3>2, <3>6
    <3>8. db[LogCell(v)].log \in Seq(WorkerEventType)
      BY DEF SInv, RowsFit
    <3>9. Alike(log, Append(db[LogCell(v)].log, q.evt))
      BY <1>9, <3>5, <3>6, <3>7, <3>8, EarlyAppend
    <3>. QED  BY <3>1, <3>2, <3>5, <3>9
  <2>. QED  BY <2>1, <2>2
<1>10. LatestOf(t, after) = LatestOf(t, db)
  <2>1. \A v \in Visits :
          /\ after[VisitCell(v)].ticket = t <=> db[VisitCell(v)].ticket = t
          /\ db[VisitCell(v)].ticket = t => after[VisitCell(v)].created = db[VisitCell(v)].created
    BY <1>8
  <2>. HIDE DEF after
  <2>2. Newest(t, after) = Newest(t, db)
    BY <2>1 DEF Newest
  <2>. QED  BY <2>2 DEF LatestOf, after
<1>11. \A v \in Visits :
         db[VisitCell(v)].ticket = t \/ after[VisitCell(v)].ticket = t =>
           /\ after[VisitCell(v)] = db[VisitCell(v)]
           /\ \A log : Alike(log, db[LogCell(v)].log) => Alike(log, after[LogCell(v)].log)
  <2>1. ASSUME NEW v \in Visits, db[VisitCell(v)].ticket = t \/ after[VisitCell(v)].ticket = t
        PROVE  db[VisitCell(v)].ticket = t
    BY <1>8, <2>1
  <2>. QED  BY <1>8, <1>9, <2>1
<1>. QED  BY <1>4, <1>10, <1>11

\* What another session has read of a ticket that has not moved since is still so.
LEMMA CommitUnmoved ==
  ASSUME SessionsSound, MessagesSound, BInv, SInv, NEW s \in Sessions, Commit(s),
         NEW m \in sent, NEW q, q = m.request, q.op # "CREATE", Unmoved(q, db')
  PROVE  /\ Unmoved(q, db) /\ q.ticket \in Tickets
         /\ \A w \in Made(session[s]) : w.cell # TicketCell(q.ticket)
<1>. DEFINE t == q.ticket
<1>1. t \in Tickets /\ q.tver \in Nat /\ q.tver <= db[TicketCell(t)].version
  BY DEF BInv, RequestsOk
<1>2. WorkOk(session[s], db) /\ session[s].todo = <<>> /\ Lands(session[s], db')
  BY CommitIs
<1>3. /\ db'[TicketCell(t)].version \in Nat /\ db[TicketCell(t)].version \in Nat
      /\ db[TicketCell(t)].version <= db'[TicketCell(t)].version
      /\ db'[TicketCell(t)].version = db[TicketCell(t)].version =>
           \A w \in Made(session[s]) : w.cell # TicketCell(t)
  BY <1>1, <1>2, TicketAfterCommit DEF BInv, RowsOk
<1>4. db'[TicketCell(t)].version = q.tver
  BY DEF Unmoved
<1>5. db[TicketCell(t)].version = q.tver
  BY <1>1, <1>3, <1>4
<1>. QED  BY <1>1, <1>3, <1>4, <1>5 DEF Unmoved

LEMMA CommitKeepsView ==
  ASSUME SessionsSound, MessagesSound, BInv, SInv, NEW s \in Sessions, Commit(s), NEW other,
         View(other, db), other.message \in sent, Apart(session[s], other)
  PROVE  View(other, db')
<1>. DEFINE me == session[s]
            after == db'
            q == other.message.request
            t == q.ticket
            seen == other.seen
<1>1. /\ WorkOk(me, db) /\ Lands(me, after)
      /\ \A w \in Made(me) : w.cell \in me.locks
  BY CommitIs DEF WorkOk, MadeOk
<1>2. CASE q.op = "CREATE"
  BY <1>2 DEF View
<1>3. CASE q.op # "CREATE"
  <2>1. Unmoved(q, after) =>
          /\ Unmoved(q, db) /\ t \in Tickets
          /\ \A w \in Made(me) : w.cell # TicketCell(t)
    BY <1>3, CommitUnmoved
  <2>2. Unmoved(q, after) =>
          /\ Unmoved(q, db) /\ after[TicketCell(t)] = db[TicketCell(t)]
          /\ \A v \in Visits :
               db[VisitCell(v)].ticket = t =>
                 /\ after[VisitCell(v)] = db[VisitCell(v)]
                 /\ \A log : Alike(log, db[LogCell(v)].log) => Alike(log, after[LogCell(v)].log)
          /\ LatestOf(t, after) = LatestOf(t, db)
    BY <2>1, CommitFrame
  <2>3. q.op \in {"RESCHEDULE", "EVENT"} => q.visit \in Visits \ {None}
    BY DEF SInv, RequestsFit
  <2>4. LET v == LatestOf(t, db) IN v # None => v \in Visits /\ db[VisitCell(v)].ticket = t
    BY LatestIs
  <2>. HIDE DEF after, q, seen
  <2>5. SawTicket(q, seen, db) => SawTicket(q, seen, after)
    BY <2>2 DEF SawTicket
  <2>6. q.op = "RESCHEDULE" /\ SawVisit(q, seen, db) => SawVisit(q, seen, after)
    BY <2>2, <2>3 DEF SawVisit, RowOf
  <2>7. SawLatest(q, seen, db) => SawLatest(q, seen, after)
    BY <2>2, <2>4 DEF SawLatest, RowOf
  <2>8. SawLatest(q, seen, db) /\ SawLog(q, seen, db) => SawLog(q, seen, after)
    <3>. SUFFICES ASSUME SawLatest(q, seen, db), SawLog(q, seen, db), Unmoved(q, after)
                  PROVE  Alike(seen.log, LogOf(seen.id, after))
      BY DEF SawLog
    <3>1. seen.id = LatestOf(t, db) /\ Alike(seen.log, LogOf(seen.id, db))
      BY <2>2 DEF SawLatest, SawLog
    <3>2. CASE seen.id = None
      BY <3>1, <3>2 DEF LogOf
    <3>3. CASE seen.id # None
      BY <2>2, <2>4, <3>1, <3>3 DEF LogOf
    <3>. QED  BY <3>2, <3>3
  <2>9. q.op = "EVENT" /\ Holds(q, other, db) =>
          /\ Holds(q, other, after)
          /\ HoldsLog(q, other, db) => HoldsLog(q, other, after)
    <3>. SUFFICES ASSUME q.op = "EVENT", Holds(q, other, db)
                  PROVE  /\ Holds(q, other, after)
                         /\ HoldsLog(q, other, db) => HoldsLog(q, other, after)
      OBVIOUS
    <3>. DEFINE v == q.visit
    <3>1. v \in Visits \ {None} /\ VisitCell(v) \in other.locks
      BY <2>3 DEF Holds
    <3>2. VisitCell(v) \in Cells /\ LogCell(v) \in Cells /\ VisitCell(v) \notin me.locks
      BY <3>1 DEF Cells, Apart
    <3>3. after[VisitCell(v)] = db[VisitCell(v)]
      BY <1>1, <3>2 DEF Lands
    <3>4. after[LogCell(v)] = db[LogCell(v)]
      <4>1. ASSUME NEW w \in Made(me), w.cell = LogCell(v)
            PROVE  FALSE
        <5>1. /\ me.message.request.op = "EVENT" /\ v = me.seen.id
              /\ View(me, db) /\ me.reads = <<>>
          BY <3>1, <4>1, CommitMakes DEF Telling
        <5>2. Holds(me.message.request, me, db)
          BY <5>1 DEF View
        <5>. QED  BY <3>2, <5>1, <5>2 DEF Holds
      <4>. QED  BY <1>1, <3>2, <4>1 DEF Lands
    <3>. QED  BY <3>1, <3>3, <3>4 DEF Holds, HoldsLog, RowOf, LogOf
  <2>10. View(other, db) => View(other, after)
    BY <1>3, <2>5, <2>6, <2>7, <2>8, <2>9 DEF View, q, seen
  <2>. QED  BY <2>10 DEF after
<1>. QED  BY <1>2, <1>3

LEMMA CommitKeepsViews ==
  ASSUME SessionsSound, MessagesSound, BInv, SInv, NEW s \in Sessions, Commit(s)
  PROVE  SInv'
<1>. DEFINE me == session[s]
            after == db'
            q == me.message.request
<1>1. /\ WorkOk(me, db) /\ me.todo = <<>> /\ Lands(me, after) /\ me # Idle
      /\ session' = [session EXCEPT ![s] = Idle] /\ UNCHANGED sent
  BY CommitIs
<1>2. \A v \in Visits : after[LogCell(v)].log \in Seq(WorkerEventType)
  <2>. SUFFICES ASSUME NEW v \in Visits  PROVE after[LogCell(v)].log \in Seq(WorkerEventType)
    OBVIOUS
  <2>1. LogCell(v) \in Cells /\ db[LogCell(v)].log \in Seq(WorkerEventType)
    BY DEF Cells, SInv, RowsFit
  <2>2. ASSUME NEW w \in Made(me), w.cell = LogCell(v)
        PROVE  w.row.log \in Seq(WorkerEventType)
    <3>1. /\ q.op = "EVENT" => q.evt \in WorkerEventType
          /\ View(me, db) /\ me.reads = <<>> /\ Telling(q, me.seen, Made(me))
      BY CommitMakes
    <3>2. /\ q.op = "EVENT" /\ v = me.seen.id /\ w.row.log = Append(me.seen.log, q.evt)
          /\ q.evt \in WorkerEventType /\ View(me, db) /\ me.reads = <<>>
      BY <2>2, <3>1 DEF Telling
    <3>3. Holds(q, me, db) /\ HoldsLog(q, me, db)
      BY <3>2 DEF View
    <3>4. me.seen.log = LogOf(v, db)
      BY <3>2, <3>3 DEF Holds, HoldsLog
    <3>5. me.seen.log \in Seq(WorkerEventType)
      BY <2>1, <3>4 DEF LogOf
    <3>. QED  BY <3>2, <3>5, LastOfAppend
  <2>. QED  BY <1>1, <2>1, <2>2 DEF Lands
<1>3. ASSUME NEW v \in Visits, after[VisitCell(v)].version = 0
      PROVE  after[VisitCell(v)].ticket \notin Tickets
  <2>1. \A w : Ending(w, db[VisitCell(v)]) => w.row.version # 0
    BY DEF Ending
  <2>2. \A w : Booking(w, me) => w.row.version = 1
    BY DEF Booking, VisitRow
  <2>3. after[VisitCell(v)] = db[VisitCell(v)]
    BY <1>1, <1>3, <2>1, <2>2, VisitAfter
  <2>. QED  BY <1>3, <2>3 DEF SInv, RowsFit
<1>4. RowsFit'
  <2>. HIDE DEF after
  <2>1. \A v \in Visits :
          /\ after[LogCell(v)].log \in Seq(WorkerEventType)
          /\ after[VisitCell(v)].version = 0 => after[VisitCell(v)].ticket \notin Tickets
    BY <1>2, <1>3
  <2>. QED  BY <2>1 DEF RowsFit, after
<1>5. ViewsOk'
  <2>1. session'[s] = Idle /\ \A o \in Sessions \ {s} : session'[o] = session[o]
    BY <1>1 DEF SessionsSound
  <2>2. ASSUME NEW o \in Sessions, session'[o] # Idle
        PROVE  View(session'[o], after) /\ Decided(session'[o])
    <3>1. o # s /\ session[o] # Idle /\ session'[o] = session[o]
      BY <2>1, <2>2
    <3>2. session[o].message \in sent /\ Apart(me, session[o])
      BY <1>1, <3>1, Working
    <3>3. View(session[o], db) /\ Decided(session[o])
      BY <3>1 DEF SInv, ViewsOk
    <3>. QED  BY <3>1, <3>2, <3>3, CommitKeepsView
  <2>. QED  BY <2>2 DEF ViewsOk
<1>. QED  BY <1>1, <1>4, <1>5 DEF SInv, RequestsFit

-----------------------------------------------------------------------------
(***************************************************************************)
(* Every step, and what a commit finds.                                    *)
(***************************************************************************)
LEMMA InitSInv == Init => SInv
<1>. SUFFICES ASSUME Init  PROVE SInv
  OBVIOUS
<1>1. /\ db \in Starts /\ session = [s \in Sessions |-> Idle] /\ sent = {}
  BY DEF Init
<1>2. RowsFit
  BY <1>1, StartAssumption DEF RowsFit
<1>. QED  BY <1>1, <1>2 DEF SInv, RequestsFit, ViewsOk

LEMMA SStep == CInv /\ BInv /\ BInv' /\ SInv /\ [Next]_vars => SInv'
<1>. SUFFICES ASSUME SessionsSound, MessagesSound, BInv, BInv', SInv, [Next]_vars  PROVE SInv'
  BY DEF CInv
<1>1. CASE UNCHANGED vars
  BY <1>1 DEF vars, SInv, RowsFit, RequestsFit, ViewsOk
<1>2. CASE Next
  <2>. SUFFICES ASSUME NEW s \in Sessions, Submit(s) \/ Resubmit(s) \/ Advance(s) \/ Abort(s)
                PROVE  SInv'
    BY <1>2 DEF Next
  <2>1. CASE Submit(s) \/ Resubmit(s)
    BY <2>1, SubmitKeepsViews
  <2>2. CASE Acquire(s)
    BY <2>2, AcquireKeepsViews
  <2>3. CASE Replay(s)
    BY <2>3, ClosedUnseen DEF Replay, Refuse
  <2>4. CASE Read(s)
    BY <2>4, ReadKeepsViews
  <2>5. CASE Execute(s)
    BY <2>5, ExecuteKeepsViews
  <2>6. CASE Commit(s)
    BY <2>6, CommitKeepsViews
  <2>7. CASE BreakDeadlock(s)
    BY <2>7, ClosedUnseen DEF BreakDeadlock
  <2>8. CASE Abort(s)
    BY <2>8, ClosedUnseen DEF Abort
  <2>. QED  BY <2>1, <2>2, <2>3, <2>4, <2>5, <2>6, <2>7, <2>8 DEF Advance
<1>. QED  BY <1>1, <1>2

\* Only a commit changes rows, and it ends no session but its own.
LEMMA OnlyCommits ==
  ASSUME SessionsSound, [Next]_vars, db' # db, NEW s \in Sessions, Running(s), session'[s] = Idle
  PROVE  Commit(s)
<1>1. PICK o \in Sessions : Submit(o) \/ Resubmit(o) \/ Advance(o) \/ Abort(o)
  BY DEF Next, vars
<1>2. Commit(o)
  BY <1>1 DEF Submit, Resubmit, Deliver, Advance, Acquire, Replay, Refuse, Read, Execute,
              BreakDeadlock, Abort
<1>3. \A x \in Sessions \ {o} : session'[x] = session[x]
  BY <1>2 DEF Commit, Close, SessionsSound
<1>4. session[s] # Idle
  BY DEF Running, Idle
<1>. QED  BY <1>2, <1>3, <1>4

\* A command that has seen the same, and logs that tell it the same, decides the same.
LEMMA SameDecision ==
  ASSUME NEW q, q.op \in Operations \ {"CREATE"}, NEW seen, Allowed(q, seen), NEW now,
         now.ticket = seen.ticket,
         q.op # "ESCALATE" => now.id = seen.id /\ now.visit = seen.visit,
         q.op \in {"ACCEPT", "RECOVER"} => Alike(seen.log, now.log),
         q.op = "EVENT" => now.log = seen.log
  PROVE  /\ Allowed(q, now)
         /\ \A new, other, began :
              LET writes == Writes(q, seen, new, began)
                  fresh == Writes(q, now, other, began)
              IN /\ Len(fresh) = Len(writes)
                 /\ \A i \in DOMAIN writes : /\ fresh[i].expect = writes[i].expect
                                             /\ fresh[i].row = writes[i].row
<1>1. VersionsMatch(q, now)
  BY DEF VersionsMatch, Allowed
<1>2. \A log, other : Alike(log, other) =>
        /\ LastEvent(log) = "STARTED" <=> LastEvent(other) = "STARTED"
        /\ LastEvent(log) = "COMPLETED" <=> LastEvent(other) = "COMPLETED"
  BY DEF Alike, Early, Approaching
<1>3. \A to, rework : MoveTicket(q, now, to, rework) = MoveTicket(q, seen, to, rework)
  BY DEF MoveTicket
<1>4. q.op # "ESCALATE" => \A to : EndVisit(now, to) = EndVisit(seen, to)
  BY DEF EndVisit
<1>5. CASE q.op = "ESCALATE"
  <2>1. Allowed(q, now)
    BY <1>1, <1>5 DEF Allowed
  <2>2. \A new, other, began : Writes(q, now, other, began) = Writes(q, seen, new, began)
    BY <1>3, <1>5 DEF Writes
  <2>. QED  BY <2>1, <2>2
<1>6. CASE q.op = "RECOVER"
  <2>1. \A prior, visit, to : RecoverTo(q.disposition, prior, visit, LastEvent(now.log), to)
                               <=> RecoverTo(q.disposition, prior, visit, LastEvent(seen.log), to)
    BY <1>2, <1>6 DEF RecoverTo, ResumeTo
  <2>2. RecoveryTarget(q, now) = RecoveryTarget(q, seen)
    BY <1>6, <2>1 DEF RecoveryTarget
  <2>3. Allowed(q, now)
    BY <1>1, <1>6, <2>2 DEF Allowed
  <2>4. \A new, other, began : Writes(q, now, other, began) = Writes(q, seen, new, began)
    BY <1>3, <1>6, <2>2 DEF Writes
  <2>. QED  BY <2>3, <2>4
<1>7. CASE q.op = "ACCEPT"
  <2>1. Consistent(seen) => Consistent(now)
    BY <1>2, <1>7 DEF Consistent
  <2>2. Allowed(q, now)
    BY <1>1, <1>7, <2>1 DEF Allowed
  <2>3. \A new, other, began : Writes(q, now, other, began) = Writes(q, seen, new, began)
    BY <1>3, <1>4, <1>7 DEF Writes
  <2>. QED  BY <2>2, <2>3
<1>8. CASE q.op = "EVENT"
  <2>1. Allowed(q, now)
    BY <1>1, <1>8 DEF Allowed
  <2>2. \A new, other, began : Writes(q, now, other, began) = Writes(q, seen, new, began)
    BY <1>3, <1>4, <1>8 DEF Writes
  <2>. QED  BY <2>1, <2>2
<1>9. \A new, other, began, purpose :
        /\ AddVisit(q, now, other, began, purpose).expect = AddVisit(q, seen, new, began, purpose).expect
        /\ AddVisit(q, now, other, began, purpose).row = AddVisit(q, seen, new, began, purpose).row
  BY DEF AddVisit, Write
<1>10. CASE q.op = "BOOK"
  <2>1. Allowed(q, now)
    BY <1>1, <1>10 DEF Allowed
  <2>2. ASSUME NEW new, NEW other, NEW began
        PROVE  \E a, x, y : /\ x.expect = y.expect /\ x.row = y.row
                            /\ Writes(q, seen, new, began) = <<a, x>>
                            /\ Writes(q, now, other, began) = <<a, y>>
    BY <1>3, <1>9, <1>10 DEF Writes
  <2>3. \A a, x, y : x.expect = y.expect /\ x.row = y.row =>
          /\ Len(<<a, x>>) = Len(<<a, y>>)
          /\ \A i \in DOMAIN <<a, x>> : /\ <<a, y>>[i].expect = <<a, x>>[i].expect
                                        /\ <<a, y>>[i].row = <<a, x>>[i].row
    OBVIOUS
  <2>. QED  BY <2>1, <2>2, <2>3
<1>11. CASE q.op = "RESCHEDULE"
  <2>1. Allowed(q, now)
    BY <1>1, <1>11 DEF Allowed
  <2>2. ASSUME NEW new, NEW other, NEW began
        PROVE  \E a, b, x, y : /\ x.expect = y.expect /\ x.row = y.row
                               /\ Writes(q, seen, new, began) = <<a, b, x>>
                               /\ Writes(q, now, other, began) = <<a, b, y>>
    BY <1>3, <1>4, <1>9, <1>11 DEF Writes
  <2>3. \A a, b, x, y : x.expect = y.expect /\ x.row = y.row =>
          /\ Len(<<a, b, x>>) = Len(<<a, b, y>>)
          /\ \A i \in DOMAIN <<a, b, x>> : /\ <<a, b, y>>[i].expect = <<a, b, x>>[i].expect
                                           /\ <<a, b, y>>[i].row = <<a, b, x>>[i].row
    OBVIOUS
  <2>. QED  BY <2>1, <2>2, <2>3
<1>. QED  BY <1>5, <1>6, <1>7, <1>8, <1>10, <1>11 DEF Operations

\* What the handler would see if all its statements read the rows that are there now.
LEMMA SeenIs ==
  ASSUME RowsOk, NEW q, q.op \in Operations \ {"CREATE"}, NEW now, now = Seen(q, db)
  PROVE  /\ now.ticket = db[TicketCell(q.ticket)]
         /\ q.op \in {"BOOK", "ACCEPT", "RECOVER"} => now.id = LatestOf(q.ticket, db)
         /\ q.op \in {"RESCHEDULE", "EVENT"} => now.id = q.visit
         /\ q.op # "ESCALATE" => now.visit = RowOf(now.id, db)
         /\ q.op \in {"ACCEPT", "RECOVER", "EVENT"} => now.log = LogOf(now.id, db)
<1>. DEFINE stmts == Statements(q.op)
            zero == NothingSeen
            one == See(zero, stmts[1], q, db)
            two == See(one, stmts[2], q, db)
            three == See(two, stmts[3], q, db)
            Full(seen) == seen = [ticket |-> seen.ticket, id |-> seen.id, visit |-> seen.visit,
                                  log |-> seen.log, match |-> seen.match]
<1>1. /\ q.op = "ESCALATE" => stmts = <<"TICKET">>
      /\ q.op = "BOOK" => stmts = <<"TICKET", "LATEST">>
      /\ q.op = "RESCHEDULE" => stmts = <<"TICKET", "VISIT">>
      /\ q.op \in {"ACCEPT", "RECOVER"} => stmts = <<"TICKET", "LATEST", "LOG">>
      /\ q.op = "EVENT" => stmts = <<"LOCK", "LOG", "TICKET">>
  BY DEF Statements
<1>2. /\ q.op = "ESCALATE" => now = one
      /\ q.op \in {"BOOK", "RESCHEDULE"} => now = two
      /\ q.op \in {"ACCEPT", "RECOVER", "EVENT"} => now = three
  <2>1. now = LET Then(seen, n) == IF n > Len(stmts) THEN seen ELSE See(seen, stmts[n], q, db)
              IN Then(Then(Then(zero, 1), 2), 3)
    BY DEF Seen
  <2>2. /\ q.op = "ESCALATE" => Len(stmts) = 1
        /\ q.op \in {"BOOK", "RESCHEDULE"} => Len(stmts) = 2
        /\ q.op \in {"ACCEPT", "RECOVER", "EVENT"} => Len(stmts) = 3
    BY <1>1
  <2>. HIDE DEF stmts, zero
  <2>. QED  BY <2>1, <2>2
<1>3. Full(zero) /\ Full(one) /\ Full(two)
  <2>1. zero.visit.status # "BOOKED"
    BY DEF NothingSeen, NoVisit, VisitRow
  <2>2. SeenOk(zero, db)
    BY <2>1 DEF SeenOk, NothingSeen
  <2>. HIDE DEF zero, stmts
  <2>3. SeenOk(one, db)
    BY <2>2, SeeKeeps
  <2>. HIDE DEF one
  <2>4. SeenOk(two, db)
    BY <2>3, SeeKeeps DEF two
  <2>. HIDE DEF two
  <2>. QED  BY <2>2, <2>3, <2>4 DEF SeenOk
<1>4. ASSUME NEW seen, NEW what, NEW next, Full(seen), next = See(seen, what, q, db)
      PROVE  /\ what = "TICKET" => /\ next.ticket = db[TicketCell(q.ticket)] /\ next.id = seen.id
                                   /\ next.visit = seen.visit /\ next.log = seen.log
             /\ what = "LATEST" => /\ next.id = LatestOf(q.ticket, db)
                                   /\ next.visit = RowOf(next.id, db)
                                   /\ next.ticket = seen.ticket /\ next.log = seen.log
             /\ what = "LOG" => /\ next.log = LogOf(seen.id, db) /\ next.id = seen.id
                                /\ next.visit = seen.visit /\ next.ticket = seen.ticket
             /\ what \in {"LOCK", "VISIT"} => /\ next.id = q.visit
                                              /\ next.visit = RowOf(q.visit, db)
                                              /\ next.ticket = seen.ticket /\ next.log = seen.log
  BY <1>4, SeeIs
<1>5. /\ one = See(zero, stmts[1], q, db) /\ two = See(one, stmts[2], q, db)
      /\ three = See(two, stmts[3], q, db)
  OBVIOUS
<1>. HIDE DEF one, two, three, zero, stmts, Full
<1>6. CASE q.op = "ESCALATE"
  <2>1. stmts[1] = "TICKET"
    BY <1>1, <1>6
  <2>. QED  BY <1>2, <1>3, <1>4, <1>5, <1>6, <2>1
<1>7. CASE q.op = "BOOK"
  <2>1. stmts[1] = "TICKET" /\ stmts[2] = "LATEST"
    BY <1>1, <1>7
  <2>2. one.ticket = db[TicketCell(q.ticket)]
    BY <1>3, <1>4, <1>5, <2>1
  <2>3. two.ticket = one.ticket /\ two.id = LatestOf(q.ticket, db) /\ two.visit = RowOf(two.id, db)
    BY <1>3, <1>4, <1>5, <2>1
  <2>. QED  BY <1>2, <1>7, <2>2, <2>3
<1>8. CASE q.op = "RESCHEDULE"
  <2>1. stmts[1] = "TICKET" /\ stmts[2] = "VISIT"
    BY <1>1, <1>8
  <2>2. one.ticket = db[TicketCell(q.ticket)]
    BY <1>3, <1>4, <1>5, <2>1
  <2>3. two.ticket = one.ticket /\ two.id = q.visit /\ two.visit = RowOf(two.id, db)
    BY <1>3, <1>4, <1>5, <2>1
  <2>. QED  BY <1>2, <1>8, <2>2, <2>3
<1>9. CASE q.op \in {"ACCEPT", "RECOVER"}
  <2>1. stmts[1] = "TICKET" /\ stmts[2] = "LATEST" /\ stmts[3] = "LOG"
    BY <1>1, <1>9
  <2>2. one.ticket = db[TicketCell(q.ticket)]
    BY <1>3, <1>4, <1>5, <2>1
  <2>3. two.ticket = one.ticket /\ two.id = LatestOf(q.ticket, db) /\ two.visit = RowOf(two.id, db)
    BY <1>3, <1>4, <1>5, <2>1
  <2>4. /\ three.log = LogOf(two.id, db) /\ three.id = two.id /\ three.visit = two.visit
        /\ three.ticket = two.ticket
    BY <1>3, <1>4, <1>5, <2>1
  <2>. QED  BY <1>2, <1>9, <2>2, <2>3, <2>4
<1>10. CASE q.op = "EVENT"
  <2>1. stmts[1] = "LOCK" /\ stmts[2] = "LOG" /\ stmts[3] = "TICKET"
    BY <1>1, <1>10
  <2>2. one.id = q.visit /\ one.visit = RowOf(q.visit, db)
    BY <1>3, <1>4, <1>5, <2>1
  <2>3. two.log = LogOf(one.id, db) /\ two.id = one.id /\ two.visit = one.visit
    BY <1>3, <1>4, <1>5, <2>1
  <2>4. /\ three.ticket = db[TicketCell(q.ticket)] /\ three.id = two.id
        /\ three.visit = two.visit /\ three.log = two.log
    BY <1>3, <1>4, <1>5, <2>1
  <2>. QED  BY <1>2, <1>10, <2>2, <2>3, <2>4
<1>. QED  BY <1>6, <1>7, <1>8, <1>9, <1>10 DEF Operations

LEMMA CommitIsCurrent ==
  ASSUME SessionsSound, MessagesSound, BInv, SInv, NEW s \in Sessions, Commit(s),
         ~Unprotected(Request(s))
  PROVE  DecidedOnCurrent(s)
<1>. DEFINE me == session[s]
            q == me.message.request
            seen == me.seen
            now == Seen(q, db)
            t == q.ticket
<1>1. WorkOk(me, db) /\ me.todo = <<>> /\ me.message \in sent
  BY CommitIs
<1>2. /\ View(me, db) /\ me.reads = <<>> /\ Allowed(q, seen) /\ q.op \in Operations
      /\ Telling(q, seen, Made(me))
  BY CommitMakes
<1>3. PICK new :
        /\ Len(me.done) = Len(Writes(q, seen, new, me.began))
        /\ DOMAIN me.done = DOMAIN Writes(q, seen, new, me.began)
        /\ \A i \in DOMAIN me.done : me.done[i] = Writes(q, seen, new, me.began)[i]
  BY CommitMakes
<1>4. Request(s) = q /\ ~Unprotected(q) /\ q.op # "CREATE"
  BY DEF Request, Unprotected
<1>5. t \in Tickets
  BY <1>1, <1>4 DEF BInv, RequestsOk
<1>6. Unmoved(q, db)
  <2>1. PICK x \in Made(me) : x.cell = TicketCell(t) /\ x.expect = seen.ticket.version
    BY <1>2, <1>4 DEF Telling
  <2>2. db[TicketCell(t)].version = x.expect
    BY <1>1, <1>5, <2>1, CellKinds DEF WorkOk, MadeOk
  <2>3. q.tver = seen.ticket.version
    BY <1>2, <1>4 DEF Allowed, VersionsMatch
  <2>. QED  BY <2>1, <2>2, <2>3 DEF Unmoved
<1>7. q.op \in {"RESCHEDULE", "EVENT"} => q.visit \in Visits \ {None}
  BY <1>1 DEF SInv, RequestsFit
<1>8. /\ now.ticket = db[TicketCell(t)]
      /\ q.op \in {"BOOK", "ACCEPT", "RECOVER"} => now.id = LatestOf(t, db)
      /\ q.op \in {"RESCHEDULE", "EVENT"} => now.id = q.visit
      /\ q.op # "ESCALATE" => now.visit = RowOf(now.id, db)
      /\ q.op \in {"ACCEPT", "RECOVER", "EVENT"} => now.log = LogOf(now.id, db)
  BY <1>2, <1>4, SeenIs DEF BInv
<1>. HIDE DEF now
<1>9. /\ seen.ticket = db[TicketCell(t)]
      /\ q.op \in {"BOOK", "ACCEPT", "RECOVER"} =>
           seen.id = LatestOf(t, db) /\ seen.visit = RowOf(seen.id, db)
      /\ q.op \in {"RESCHEDULE", "EVENT"} => seen.id = q.visit /\ seen.visit = RowOf(q.visit, db)
      /\ q.op \in {"ACCEPT", "RECOVER"} => Alike(seen.log, LogOf(seen.id, db))
      /\ q.op = "EVENT" => seen.log = LogOf(q.visit, db)
  <2>1. q.op \in {"BOOK", "ACCEPT", "RECOVER"} => SawLatest(q, seen, db)
    BY <1>2 DEF View
  <2>2. q.op \in {"ACCEPT", "RECOVER"} => SawLog(q, seen, db)
    BY <1>2 DEF View
  <2>3. SawTicket(q, seen, db)
    BY <1>2, <1>4 DEF View, Operations
  <2>4. q.op = "RESCHEDULE" => SawVisit(q, seen, db) /\ seen.visit.ticket = t
    BY <1>2 DEF View, Allowed
  <2>5. q.op = "EVENT" => Holds(q, me, db) /\ HoldsLog(q, me, db)
    BY <1>2 DEF View
  <2>. QED  BY <1>6, <2>1, <2>2, <2>3, <2>4, <2>5
            DEF SawTicket, SawVisit, SawLatest, SawLog, Holds, HoldsLog
<1>10. /\ now.ticket = seen.ticket
       /\ q.op # "ESCALATE" => now.id = seen.id /\ now.visit = seen.visit
       /\ q.op \in {"ACCEPT", "RECOVER"} => Alike(seen.log, now.log)
       /\ q.op = "EVENT" => now.log = seen.log
  BY <1>2, <1>4, <1>8, <1>9 DEF Operations
<1>11. /\ Allowed(q, now)
       /\ \A x, y, began :
            LET writes == Writes(q, seen, x, began)
                fresh == Writes(q, now, y, began)
            IN /\ Len(fresh) = Len(writes)
               /\ \A i \in DOMAIN writes : /\ fresh[i].expect = writes[i].expect
                                           /\ fresh[i].row = writes[i].row
  BY <1>2, <1>4, <1>10, SameDecision
<1>. DEFINE none == [ticket |-> 0, visit |-> 0]
            fresh == Writes(q, now, none, me.began)
            writes == Writes(q, seen, new, me.began)
<1>12. /\ Len(fresh) = Len(writes)
       /\ \A i \in DOMAIN writes : fresh[i].expect = writes[i].expect /\ fresh[i].row = writes[i].row
  <2>. HIDE DEF none
  <2>. QED  BY <1>11
<1>13. /\ Len(fresh) = Len(me.done)
       /\ \A i \in DOMAIN me.done : /\ fresh[i].expect = me.done[i].expect
                                    /\ fresh[i].row = me.done[i].row
  BY <1>3, <1>12
<1>. QED  BY <1>4, <1>11, <1>13 DEF DecidedOnCurrent, now

\* No update is lost.  Handlers read without locks and sessions interleave at will, yet a
\* command that changes a ticket commits exactly what it would have decided had it read
\* everything at the moment of its commit: the ticket's version, checked by its UPDATE,
\* speaks for the visit and for all of the log that a decision looks at.
THEOREM CommitsAreSerialHolds == Spec => CommitsAreSerial
<1>1. CInv /\ BInv /\ SInv /\ [Next]_vars =>
        [\A s \in Sessions :
           db' # db /\ Running(s) /\ session'[s] = Idle /\ ~Unprotected(Request(s)) =>
             DecidedOnCurrent(s)]_vars
  BY OnlyCommits, CommitIsCurrent DEF CInv
<1>2. Spec => []BInv
  BY Inductive, InitBInv, BStep, PTL DEF Spec
<1>3. Spec => []SInv
  BY Inductive, <1>2, InitSInv, SStep, PTL DEF Spec
<1>. QED  BY Inductive, <1>1, <1>2, <1>3, PTL DEF Spec, CommitsAreSerial
=============================================================================
