--------------------------- MODULE ResidentApiProofs ---------------------------
(* For every set of threads, requests and topics, every size of the store and *)
(* of the queue, and every bound: equal requests run once, a run has one      *)
(* public end, every escalation has one active review case, and what HTTP     *)
(* and the stream tell is what the rows say.                                  *)
(*                                                                            *)
(* The invariant follows an execution from its key in the store to its        *)
(* answer: what its run may have become while it was at each step (the sweep  *)
(* may have ended it in between), which messages an ended run has left in     *)
(* the thread, and what a finalisation that holds the thread's lock may rely  *)
(* on until it commits.                                                       *)
EXTENDS ResidentApi, FiniteSetTheorems, SequenceTheorems, TLAPS

Pcs == {"unused", "queued", "checked", "turn", "ended", "locked", "persisted", "done", "failed"}
Results == {"COMPLETED", "FAILED", "ESCALATED", "REFUSED"}
Events == {"run_started", "control", "domain", "lifecycle"} \cup TerminalTypes
Ids == {<<"message", q.mid>> : q \in Requests} \cup {<<w, i>> : w \in {"run", "reply"}, i \in Tasks}
Messages == [role : {"USER", "ASSISTANT"}, run : Tasks, id : Ids]
Stream == [type : {"run_started", "workflow_updated", "assistant_delta"} \cup TerminalTypes, run : Tasks]

ThreadRows == [status : {None, "ACTIVE", "ARCHIVED", "DELETED"}, version : Nat, messages : Seq(Messages)]
TaskRecords == [pc : Pcs, req : Requests \cup {None}, thread : Threads \cup {None},
                result : Results \cup {None}, topic : Topics \cup {None}, found : Nat]
RunRows == [status : {None, "RUNNING", "OVER"}, outcome : TerminalTypes \cup {None}, case : Nat,
            trace : Seq(Events)]
CaseRows == [thread : Threads, topic : Topics \cup {None}, source : Tasks,
             status : {"OPEN", "CLAIMED", "RESOLVED", "DISMISSED"}, version : Nat]
Entries == [key : {q.key : q \in Requests}, payload : {q.payload : q \in Requests}, task : Tasks]

Tables ==
    /\ threads \in [Threads -> ThreadRows]
    /\ tasks \in [Tasks -> TaskRecords]
    /\ runs \in [Tasks -> RunRows]
    /\ cases \in Seq(CaseRows)
    /\ store \in Seq(Entries)

(* Entries of which each key has one.                                         *)
Unique(entries) == \A j, k \in DOMAIN entries : entries[j].key = entries[k].key => j = k

(* An entry is about the execution of its key, there is one per key, and what *)
(* is under way has one.                                                      *)
Stored ==
    /\ \A k \in DOMAIN store :
        tasks[store[k].task].pc # "unused" /\ tasks[store[k].task].req.key = store[k].key
    /\ Unique(store)
    /\ \A i \in Tasks : Live(i) => \E k \in DOMAIN store : store[k].task = i

(* What an execution has and what its run may be, step by step.               *)
Execution(i) ==
    /\ tasks[i].pc # "unused" => tasks[i].req \in Requests
    /\ tasks[i].pc \in {"unused", "queued", "checked"} => runs[i] = NoRun
    /\ runs[i].status # None \/ tasks[i].pc \in {"checked", "turn", "ended", "locked", "persisted", "done"}
        => tasks[i].thread \in Threads
    /\ tasks[i].pc \in {"ended", "locked", "persisted", "done"} => tasks[i].result \in Results
    /\ tasks[i].pc = "locked" => tasks[i].result = "ESCALATED" /\ runs[i].outcome = None
    /\ tasks[i].pc \in {"turn", "ended"} => runs[i].outcome \in {None, "FAILED"}
    /\ tasks[i].pc \in {"persisted", "done"} => runs[i].outcome = Outcome(tasks[i].result)
    /\ runs[i].status = None => runs[i] = NoRun
    /\ runs[i].outcome # None => runs[i].status = "OVER"

(* TraceClosed, of one run.                                                   *)
Ends(trace) == {k \in DOMAIN trace : trace[k] = "lifecycle" \/ trace[k] \in TerminalTypes}
Closed(run) ==
    IF run.outcome = None THEN Ends(run.trace) = {}
    ELSE \E k \in DOMAIN run.trace :
            /\ Ends(run.trace) = {k, k + 1} /\ run.trace[k] = "lifecycle"
            /\ run.trace[k + 1] = run.outcome
            /\ \A j \in (k + 2)..Len(run.trace) : run.trace[j] = "domain"

(* A message is the reply of an execution or what its resident said.          *)
Written ==
    \A t \in Threads : \A k \in DOMAIN threads[t].messages :
        \E j \in Tasks : tasks[j].pc # "unused" /\ threads[t].messages[k] \in {Reply(j), Spoken(j)}

(* A run that is over has its reply in the thread, and what was said to it    *)
(* unless it failed (the sweep writes only the reply).                        *)
Told(i) ==
    runs[i].outcome # None =>
        /\ Says(threads[tasks[i].thread].messages, Reply(i))
        /\ runs[i].outcome # "FAILED" /\ tasks[i].req.kind # "CHOICE" =>
                Says(threads[tasks[i].thread].messages, Spoken(i))

(* EscalationsReviewed, of one run, and its second half.                      *)
Reviewed(i) ==
    runs[i].outcome = "ESCALATED" =>
        /\ runs[i].case \in DOMAIN cases
        /\ cases[runs[i].case].thread = tasks[i].thread /\ tasks[i].topic \in {None, cases[runs[i].case].topic}
Distinct ==
    \A j, k \in DOMAIN cases :
        Active(j) /\ Active(k) /\ cases[j].thread = cases[k].thread /\ cases[j].topic = cases[k].topic => j = k

(* The lock on the thread: one finalisation holds it, and what that one found *)
(* when it took it still is so.                                               *)
Holds(i) ==
    tasks[i].pc = "locked" =>
        /\ tasks[i].found = 0 => Matching(tasks[i].thread, tasks[i].topic) = {}
        /\ tasks[i].found # 0 =>
            /\ tasks[i].found \in DOMAIN cases
            /\ cases[tasks[i].found].thread = tasks[i].thread /\ cases[tasks[i].found].topic = tasks[i].topic
OneHolder ==
    \A i, j \in Tasks :
        tasks[i].pc = "locked" /\ tasks[j].pc = "locked" /\ tasks[i].thread = tasks[j].thread => i = j

Executions == \A i \in Tasks : Execution(i) /\ Closed(runs[i]) /\ Told(i) /\ Reviewed(i) /\ Holds(i)

AInv ==
    /\ Tables
    /\ Stored
    /\ Executions
    /\ Written
    /\ Distinct
    /\ OneHolder

(* An event that tells a result tells the one its run has.                    *)
Truthful(queue) ==
    /\ queue \in Seq(Stream)
    /\ \A k \in DOMAIN queue : queue[k].type \in TerminalTypes => runs[queue[k].run].outcome = queue[k].type
Streamed == subscriber # None => Truthful(subscriber)

-----------------------------------------------------------------------------
(* Sequences and positions. *)

(* A position of a sequence that is the least of some positions is one.       *)
LEMMA MinIn ==
    ASSUME NEW n \in Nat, NEW S, S \subseteq 1..n, S # {}
    PROVE  Min(S) \in S
<1> DEFINE below(k) == 1..k
           T == {below(k) : k \in S}
           R == StrictSubsetOrdering(1..n)
<1>1. IsFiniteSet(1..n)
  BY FS_Interval
<1>2. T \subseteq FiniteSubsetsOf(1..n)
  <2>1. \A k \in S : below(k) \subseteq 1..n
    BY SMT
  <2>2. \A k \in S : IsFiniteSet(below(k))
    BY FS_Interval
  <2> QED BY <2>1, <2>2 DEF FiniteSubsetsOf
<1>3. PICK X \in T : \A Y \in T : ~(<<Y, X>> \in R)
  <2>1. IsWellFoundedOn(R, FiniteSubsetsOf(1..n))
    BY FS_StrictSubsetOrderingWellFounded
  <2>2. T # {}
    OBVIOUS
  <2> HIDE DEF R, T
  <2> QED BY <1>2, <2>1, <2>2, WFMin
<1>4. PICK x \in S : X = below(x)
  OBVIOUS
<1>5. \A y \in S : x =< y
  <2> SUFFICES ASSUME NEW y \in S, y < x PROVE FALSE
    BY SMT
  <2>1. below(y) \subseteq below(x) /\ below(y) # below(x)
    BY SMT
  <2>2. below(x) \in SUBSET (1..n) /\ below(y) \in SUBSET (1..n)
    BY SMT
  <2>3. <<below(y), below(x)>> \in R
    <3> HIDE DEF below
    <3> QED BY <2>1, <2>2 DEF StrictSubsetOrdering
  <2> QED BY <1>3, <1>4, <2>3
<1> QED BY <1>5 DEF Min

(* What is left of a sequence without one of its elements.                    *)
LEMMA Removed ==
    ASSUME NEW S, NEW s \in Seq(S), NEW i \in DOMAIN s
    PROVE  /\ RemoveAt(s, i) \in Seq(S)
           /\ Len(RemoveAt(s, i)) = Len(s) - 1
           /\ \A k \in 1..(Len(s) - 1) : RemoveAt(s, i)[k] = s[IF k < i THEN k ELSE k + 1]
<1> DEFINE front == SubSeq(s, 1, i - 1)
           back == SubSeq(s, i + 1, Len(s))
<1>1. front \in Seq(S) /\ Len(front) = i - 1 /\ \A k \in 1..(i - 1) : front[k] = s[k]
  OBVIOUS
<1>2. back \in Seq(S) /\ Len(back) = Len(s) - i /\ \A k \in 1..(Len(s) - i) : back[k] = s[i + k]
  OBVIOUS
<1>3. RemoveAt(s, i) = front \o back
  BY DEF RemoveAt
<1> HIDE DEF front, back
<1> DEFINE r == front \o back
<1>4. r \in Seq(S) /\ Len(r) = Len(s) - 1
  BY <1>1, <1>2
<1>5. ASSUME NEW k \in 1..(Len(s) - 1) PROVE r[k] = s[IF k < i THEN k ELSE k + 1]
  <2>1. CASE k < i
    <3>1. r[k] = front[k]
      BY <1>1, <1>2, <2>1
    <3> QED BY <1>1, <2>1, <3>1
  <2>2. CASE ~(k < i)
    <3>1. r[k] = back[k - (i - 1)]
      BY <1>1, <1>2, <2>2
    <3>2. k - (i - 1) \in 1..(Len(s) - i) /\ i + (k - (i - 1)) = k + 1
      BY <2>2
    <3>3. back[k - (i - 1)] = s[k + 1]
      BY <1>2, <3>2
    <3> QED BY <2>2, <3>1, <3>3
  <2> QED BY <2>1, <2>2
<1> QED BY <1>3, <1>4, <1>5

(* The elements that are left are the others, and all of them.                *)
LEMMA Others ==
    ASSUME NEW S, NEW s \in Seq(S), NEW i \in DOMAIN s
    PROVE  /\ \A a \in DOMAIN RemoveAt(s, i) : \E b \in DOMAIN s : b # i /\ RemoveAt(s, i)[a] = s[b]
           /\ \A b \in DOMAIN s : b # i => \E a \in DOMAIN RemoveAt(s, i) : RemoveAt(s, i)[a] = s[b]
<1> DEFINE r == RemoveAt(s, i)
<1>1. r \in Seq(S) /\ Len(r) = Len(s) - 1 /\ \A k \in 1..(Len(s) - 1) : r[k] = s[IF k < i THEN k ELSE k + 1]
  BY Removed
<1> HIDE DEF r
<1>2. ASSUME NEW a \in DOMAIN r PROVE \E b \in DOMAIN s : b # i /\ r[a] = s[b]
  <2>1. CASE a < i
    BY <1>1, <2>1
  <2>2. CASE ~(a < i)
    <3>1. a + 1 \in DOMAIN s /\ a + 1 # i /\ r[a] = s[a + 1]
      BY <1>1, <2>2
    <3> QED BY <3>1
  <2> QED BY <2>1, <2>2
<1>3. ASSUME NEW b \in DOMAIN s, b # i PROVE \E a \in DOMAIN r : r[a] = s[b]
  <2>1. CASE b < i
    BY <1>1, <2>1
  <2>2. CASE ~(b < i)
    <3>1. b - 1 \in DOMAIN r /\ r[b - 1] = s[b]
      BY <1>1, <1>3, <2>2, SMTT(40)
    <3> QED BY <3>1
  <2> QED BY <2>1, <2>2
<1> QED BY <1>2, <1>3 DEF r

-----------------------------------------------------------------------------
(* The store. *)

(* Without one of its entries a store has one per key still.                  *)
LEMMA UniqueWithout ==
    ASSUME NEW s \in Seq(Entries), Unique(s), NEW i \in DOMAIN s
    PROVE  Unique(RemoveAt(s, i))
<1> DEFINE r == RemoveAt(s, i)
           at(k) == IF k < i THEN k ELSE k + 1
<1>1. r \in Seq(Entries) /\ Len(r) = Len(s) - 1 /\ \A k \in 1..(Len(s) - 1) : r[k] = s[at(k)]
  BY Removed
<1> HIDE DEF r
<1> SUFFICES ASSUME NEW j \in DOMAIN r, NEW k \in DOMAIN r, r[j].key = r[k].key
             PROVE  j = k
  BY DEF Unique, r
<1>2. j \in 1..(Len(s) - 1) /\ k \in 1..(Len(s) - 1)
  BY <1>1
<1>3. at(j) \in DOMAIN s /\ at(k) \in DOMAIN s
  BY <1>2
<1>4. s[at(j)].key = s[at(k)].key
  BY <1>1, <1>2
<1>5. at(j) = at(k)
  <2> HIDE DEF at
  <2> QED BY <1>3, <1>4 DEF Unique
<1> QED BY <1>2, <1>5

(* With an entry of a key it has none of, too.                                *)
LEMMA UniqueWith ==
    ASSUME NEW s \in Seq(Entries), Unique(s), NEW e \in Entries, \A k \in DOMAIN s : s[k].key # e.key
    PROVE  Unique(Append(s, e))
<1>1. Len(Append(s, e)) = Len(s) + 1 /\ Append(s, e)[Len(s) + 1] = e
      /\ \A k \in 1..Len(s) : Append(s, e)[k] = s[k]
  OBVIOUS
<1>2. DOMAIN Append(s, e) = 1..(Len(s) + 1) /\ DOMAIN s = 1..Len(s) /\ Len(s) \in Nat
  OBVIOUS
<1> DEFINE w == Append(s, e)
<1> HIDE DEF w
<1> SUFFICES ASSUME NEW j \in 1..(Len(s) + 1), NEW k \in 1..(Len(s) + 1), w[j].key = w[k].key
             PROVE  j = k
  BY <1>2 DEF Unique, w
<1>3. CASE j = Len(s) + 1 /\ k # Len(s) + 1
  BY <1>1, <1>2, <1>3 DEF w
<1>4. CASE k = Len(s) + 1 /\ j # Len(s) + 1
  BY <1>1, <1>2, <1>4 DEF w
<1>5. CASE j # Len(s) + 1 /\ k # Len(s) + 1
  BY <1>1, <1>2, <1>5 DEF w, Unique
<1> QED BY <1>3, <1>4, <1>5

-----------------------------------------------------------------------------
(* What the steps of other executions leave as it is. *)

(* No step takes a request back or gives an execution another one.            *)
Onward ==
    \A i \in Tasks : tasks[i].pc # "unused" => tasks'[i].pc # "unused" /\ tasks'[i].req = tasks[i].req

(* Of one execution: it goes on, and no other does anything.                  *)
Moved(j) ==
    /\ tasks' = [tasks EXCEPT ![j] = tasks'[j]] /\ tasks'[j] \in TaskRecords
    /\ tasks[j].pc # "unused" /\ tasks'[j].pc # "unused" /\ tasks'[j].req = tasks[j].req

(* A step of one execution leaves the records of the others.                  *)
LEMMA MovedOne ==
    ASSUME Tables, NEW j \in Tasks, Moved(j)
    PROVE  /\ tasks' \in [Tasks -> TaskRecords]
           /\ \A i \in Tasks \ {j} : tasks'[i] = tasks[i]
           /\ Onward
<1>1. tasks \in [Tasks -> TaskRecords]
  BY DEF Tables
<1> QED BY <1>1 DEF Moved, Onward

(* What was written stays what somebody wrote, and so is what is new.         *)
LEMMA WrittenStays ==
    ASSUME Onward, Written,
           \A t \in Threads : \A k \in DOMAIN threads'[t].messages :
                \/ \E l \in DOMAIN threads[t].messages : threads'[t].messages[k] = threads[t].messages[l]
                \/ \E j \in Tasks : tasks[j].pc # "unused" /\ threads'[t].messages[k] \in {Reply(j), Spoken(j)}
    PROVE  Written'
<1> SUFFICES ASSUME NEW t \in Threads, NEW k \in DOMAIN threads'[t].messages
             PROVE  \E j \in Tasks : tasks'[j].pc # "unused"
                                     /\ threads'[t].messages[k] \in {Reply(j)', Spoken(j)'}
  BY DEF Written
<1>1. PICK j \in Tasks : tasks[j].pc # "unused" /\ threads'[t].messages[k] \in {Reply(j), Spoken(j)}
  <2>1. CASE \E l \in DOMAIN threads[t].messages : threads'[t].messages[k] = threads[t].messages[l]
    BY <2>1 DEF Written
  <2> QED BY <2>1
<1>2. tasks'[j].pc # "unused" /\ tasks'[j].req = tasks[j].req
  BY <1>1 DEF Onward
<1>3. Reply(j)' = Reply(j) /\ Spoken(j)' = Spoken(j)
  BY <1>2 DEF Reply, Spoken, MessageId
<1> QED BY <1>1, <1>2, <1>3

(* The store stays right while nothing that is in it is taken for another.    *)
LEMMA StoredStays ==
    ASSUME Tables, Stored, Onward, store' = store, \A i \in Tasks : Live(i)' => Live(i)
    PROVE  Stored'
<1>1. \A k \in DOMAIN store : store[k].task \in Tasks
  <2>1. \A k \in DOMAIN store : store[k] \in Entries
    BY DEF Tables
  <2> QED BY <2>1 DEF Entries
<1>2. \A k \in DOMAIN store :
        tasks'[store[k].task].pc # "unused" /\ tasks'[store[k].task].req.key = store[k].key
  BY <1>1 DEF Stored, Onward
<1>3. Unique(store')
  BY DEF Stored
<1> QED BY <1>2, <1>3 DEF Stored

(* An execution that neither moves nor loses its run's row, its thread's      *)
(* messages or its case is as it was.                                         *)
LEMMA Bystander ==
    ASSUME Tables, NEW i \in Tasks, tasks'[i] = tasks[i], runs'[i] = runs[i],
           Execution(i), Closed(runs[i]), Told(i), Reviewed(i),
           \A t \in Threads : \A m : Says(threads[t].messages, m) => Says(threads'[t].messages, m),
           \A k \in DOMAIN cases : k \in DOMAIN cases' /\ cases'[k].thread = cases[k].thread
                                                       /\ cases'[k].topic = cases[k].topic
    PROVE  Execution(i)' /\ Closed(runs'[i]) /\ Told(i)' /\ Reviewed(i)'
<1>1. Execution(i)'
  BY DEF Execution
<1>2. Closed(runs'[i])
  OBVIOUS
<1>3. Told(i)'
  <2>1. CASE runs[i].outcome = None
    BY <2>1 DEF Told
  <2>2. CASE runs[i].outcome # None
    <3>1. runs[i].status # None
      BY <2>2, ApiAssumption DEF Execution
    <3>2. tasks[i].thread \in Threads
      BY <3>1 DEF Execution
    <3>3. Reply(i)' = Reply(i) /\ Spoken(i)' = Spoken(i)
      BY DEF Reply, Spoken, MessageId
    <3> QED BY <3>2, <3>3 DEF Told
  <2> QED BY <2>1, <2>2
<1>4. Reviewed(i)'
  BY DEF Reviewed
<1> QED BY <1>1, <1>2, <1>3, <1>4

(* A step of one execution that ends no run and says nothing.                 *)
LEMMA QuietStep ==
    ASSUME AInv, NEW j \in Tasks, Moved(j),
           runs' = [runs EXCEPT ![j] = runs'[j]], runs'[j] \in RunRows,
           threads' \in [Threads -> ThreadRows],
           \A t \in Threads : threads'[t].messages = threads[t].messages,
           cases' = cases, store' = store, Live(j)' => Live(j),
           Execution(j)', Closed(runs'[j]),
           runs'[j].outcome = runs[j].outcome, runs'[j].case = runs[j].case,
           runs[j].outcome # None => tasks'[j].thread = tasks[j].thread,
           runs[j].outcome = "ESCALATED" => tasks'[j].topic \in {tasks[j].topic, None},
           tasks'[j].pc = "locked" =>
                Holds(j)' /\ ~Locked(tasks[j].thread) /\ tasks'[j].thread = tasks[j].thread
    PROVE  AInv'
<1>1. /\ tasks' \in [Tasks -> TaskRecords]
      /\ \A i \in Tasks \ {j} : tasks'[i] = tasks[i]
      /\ Onward
  BY MovedOne DEF AInv, Executions
<1>2. Tables'
  <2>1. runs \in [Tasks -> RunRows]
    BY DEF AInv, Executions, Tables
  <2>2. runs' \in [Tasks -> RunRows]
    BY <2>1
  <2> QED BY <1>1, <2>2 DEF AInv, Executions, Tables
<1>3. \A i \in Tasks \ {j} : runs'[i] = runs[i]
  BY DEF AInv, Executions, Tables
<1>4. Stored'
  <2>1. \A i \in Tasks : Live(i)' => Live(i)
    BY <1>1 DEF Live
  <2> QED BY <1>1, <2>1, StoredStays DEF AInv, Executions
<1>5. \A t \in Threads : \A m : Says(threads[t].messages, m) <=> Says(threads'[t].messages, m)
  OBVIOUS
<1>6. ASSUME NEW i \in Tasks PROVE Execution(i)' /\ Closed(runs'[i]) /\ Told(i)' /\ Reviewed(i)' /\ Holds(i)'
  <2>1. CASE i # j
    <3>1. Execution(i)' /\ Closed(runs'[i]) /\ Told(i)' /\ Reviewed(i)'
      BY <1>1, <1>3, <1>5, <2>1, Bystander DEF AInv, Executions
    <3>2. Holds(i)'
      <4>1. Holds(i)
        BY DEF AInv, Executions
      <4> QED BY <1>1, <2>1, <4>1 DEF Holds, Matching, Active
    <3> QED BY <3>1, <3>2
  <2>2. CASE i = j
    <3>1. Told(j)'
      <4> SUFFICES ASSUME runs'[j].outcome # None PROVE Told(j)'
        BY DEF Told
      <4>1. tasks'[j].thread = tasks[j].thread /\ tasks[j].thread \in Threads
        BY ApiAssumption DEF AInv, Executions, Execution
      <4>2. Reply(j)' = Reply(j) /\ Spoken(j)' = Spoken(j) /\ tasks'[j].req = tasks[j].req
        BY DEF Moved, Reply, Spoken, MessageId
      <4>3. Told(j)
        BY DEF AInv, Executions
      <4> QED BY <4>1, <4>2, <4>3, <1>5 DEF Told
    <3>2. Reviewed(j)'
      <4>1. Reviewed(j)
        BY DEF AInv, Executions
      <4> QED BY <4>1, ApiAssumption DEF Reviewed
    <3>3. Holds(j)'
      BY DEF Holds
    <3> QED BY <2>2, <3>1, <3>2, <3>3
  <2> QED BY <2>1, <2>2
<1>7. Written'
  BY <1>1, WrittenStays DEF AInv, Executions
<1>8. Distinct'
  BY DEF AInv, Executions, Distinct, Active
<1>9. OneHolder'
  <2> SUFFICES ASSUME NEW i \in Tasks, NEW l \in Tasks,
                      tasks'[i].pc = "locked", tasks'[l].pc = "locked", tasks'[i].thread = tasks'[l].thread
               PROVE  i = l
    BY DEF OneHolder
  <2>1. CASE i = j /\ l # j
    BY <1>1, <2>1 DEF Locked
  <2>2. CASE i # j /\ l = j
    BY <1>1, <2>2 DEF Locked
  <2>3. CASE i # j /\ l # j
    BY <1>1, <2>3 DEF AInv, Executions, OneHolder
  <2> QED BY <2>1, <2>2, <2>3
<1> QED BY <1>2, <1>4, <1>6, <1>7, <1>8, <1>9 DEF AInv, Executions

(* A step that moves no execution and no row but those of threads, and says   *)
(* nothing.                                                                   *)
LEMMA IdleStep ==
    ASSUME AInv, tasks' = tasks, runs' = runs, cases' = cases, store' = store,
           threads' \in [Threads -> ThreadRows],
           \A t \in Threads : threads'[t].messages = threads[t].messages
    PROVE  AInv'
<1>1. Onward
  BY DEF Onward
<1>2. Tables'
  BY DEF AInv, Executions, Tables
<1>3. Stored'
  BY <1>1, StoredStays DEF AInv, Executions, Live
<1>4. ASSUME NEW i \in Tasks PROVE Execution(i)' /\ Closed(runs'[i]) /\ Told(i)' /\ Reviewed(i)' /\ Holds(i)'
  <2>1. Execution(i)' /\ Closed(runs'[i]) /\ Told(i)' /\ Reviewed(i)'
    BY Bystander DEF AInv, Executions
  <2>2. Holds(i)'
    BY DEF AInv, Executions, Holds, Matching, Active
  <2> QED BY <2>1, <2>2
<1>5. Written'
  BY <1>1, WrittenStays DEF AInv, Executions
<1>6. Distinct' /\ OneHolder'
  BY DEF AInv, Executions, Distinct, Active, OneHolder
<1> QED BY <1>2, <1>3, <1>4, <1>5, <1>6 DEF AInv, Executions

-----------------------------------------------------------------------------
(* Traces and messages. *)

(* A control event on a run that is not over, or a domain event on any, keeps *)
(* the trace closed.                                                          *)
LEMMA Extended ==
    ASSUME NEW run \in RunRows, Closed(run), NEW e \in {"control", "domain"},
           run.outcome = None \/ e = "domain"
    PROVE  [run EXCEPT !.trace = Append(@, e)] \in RunRows /\ Closed([run EXCEPT !.trace = Append(@, e)])
<1> DEFINE longer == Append(run.trace, e)
           new == [run EXCEPT !.trace = Append(@, e)]
<1>1. run.trace \in Seq(Events)
  BY DEF RunRows
<1>2. /\ longer \in Seq(Events) /\ Len(longer) = Len(run.trace) + 1
      /\ \A k \in 1..Len(run.trace) : longer[k] = run.trace[k]
      /\ longer[Len(run.trace) + 1] = e
  BY <1>1 DEF Events
<1>3. Ends(longer) = Ends(run.trace)
  <2>1. e # "lifecycle" /\ e \notin TerminalTypes
    BY DEF TerminalTypes
  <2>2. DOMAIN longer = DOMAIN run.trace \cup {Len(run.trace) + 1}
    BY <1>1, <1>2
  <2>3. DOMAIN run.trace = 1..Len(run.trace)
    BY <1>1
  <2> HIDE DEF longer
  <2> QED BY <1>2, <2>1, <2>2, <2>3 DEF Ends
<1> HIDE DEF longer
<1>4. new \in RunRows /\ new.trace = longer /\ new.outcome = run.outcome
  BY <1>2 DEF RunRows, longer
<1>5. Closed(new)
  <2>1. CASE run.outcome = None
    <3>1. Ends(run.trace) = {}
      BY <2>1 DEF Closed
    <3> HIDE DEF new
    <3> QED BY <1>3, <1>4, <2>1, <3>1 DEF Closed
  <2>2. CASE run.outcome # None
    <3>1. PICK k \in DOMAIN run.trace :
            /\ Ends(run.trace) = {k, k + 1} /\ run.trace[k] = "lifecycle"
            /\ run.trace[k + 1] = run.outcome
            /\ \A j \in (k + 2)..Len(run.trace) : run.trace[j] = "domain"
      BY <2>2 DEF Closed
    <3>2. k + 1 \in DOMAIN run.trace
      BY <3>1 DEF Ends
    <3>3. k \in 1..Len(run.trace) /\ k + 1 \in 1..Len(run.trace)
      BY <1>1, <3>2
    <3>4. \A j \in (k + 2)..Len(longer) : longer[j] = "domain"
      <4> SUFFICES ASSUME NEW j \in (k + 2)..Len(longer) PROVE longer[j] = "domain"
        OBVIOUS
      <4>1. CASE j = Len(run.trace) + 1
        BY <1>2, <2>2, <4>1
      <4>2. CASE j # Len(run.trace) + 1
        <5>1. j \in (k + 2)..Len(run.trace) /\ j \in 1..Len(run.trace)
          BY <1>1, <1>2, <3>3, <4>2
        <5> QED BY <1>2, <3>1, <5>1
      <4> QED BY <4>1, <4>2
    <3>5. k \in DOMAIN longer /\ longer[k] = "lifecycle" /\ longer[k + 1] = run.outcome
      BY <1>1, <1>2, <3>1, <3>3
    <3> HIDE DEF new
    <3> QED BY <1>3, <1>4, <2>2, <3>1, <3>4, <3>5 DEF Closed
  <2> QED BY <2>1, <2>2
<1> QED BY <1>4, <1>5

(* A run that was not over is over with the result it is given.               *)
LEMMA Terminates ==
    ASSUME NEW run \in RunRows, Closed(run), run.outcome = None,
           NEW outcome \in TerminalTypes, NEW case \in Nat
    PROVE  /\ Terminated(run, outcome, case) \in RunRows
           /\ Terminated(run, outcome, case).status = "OVER"
           /\ Terminated(run, outcome, case).outcome = outcome
           /\ Terminated(run, outcome, case).case = case
           /\ Closed(Terminated(run, outcome, case))
<1> DEFINE longer == run.trace \o <<"lifecycle", outcome>>
           new == Terminated(run, outcome, case)
           n == Len(run.trace)
<1>1. run.trace \in Seq(Events) /\ n \in Nat
  BY DEF RunRows
<1>2. /\ longer \in Seq(Events) /\ Len(longer) = n + 2
      /\ \A k \in 1..n : longer[k] = run.trace[k]
      /\ longer[n + 1] = "lifecycle" /\ longer[n + 2] = outcome
  BY <1>1 DEF Events
<1>3. Ends(longer) = {n + 1, n + 2}
  <2>1. \A k \in 1..n : run.trace[k] # "lifecycle" /\ run.trace[k] \notin TerminalTypes
    BY <1>1 DEF Closed, Ends
  <2>2. DOMAIN longer = 1..(n + 2)
    BY <1>2
  <2> HIDE DEF longer, n
  <2> QED BY <1>1, <1>2, <2>1, <2>2 DEF Ends
<1> HIDE DEF longer, n
<1>4. /\ new \in RunRows /\ new.trace = longer /\ new.outcome = outcome
      /\ new.status = "OVER" /\ new.case = case
  BY <1>2 DEF RunRows, longer, Terminated
<1> HIDE DEF new
<1>5. Closed(new)
  <2>1. outcome # None
    BY ApiAssumption DEF TerminalTypes
  <2>2. n + 1 \in DOMAIN longer /\ (n + 1) + 1 = n + 2
    BY <1>1, <1>2
  <2>3. \A j \in ((n + 1) + 2)..Len(longer) : longer[j] = "domain"
    BY <1>1, <1>2
  <2> QED BY <1>2, <1>3, <1>4, <2>1, <2>2, <2>3 DEF Closed
<1> QED BY <1>4, <1>5 DEF new

(* What _append_message writes: the thread has said all it had said, nothing  *)
(* new but this message, and this message, if its id and its role in its run  *)
(* agree on whether it is there.                                              *)
LEMMA MessageWritten ==
    ASSUME NEW messages \in Seq(Messages), NEW m \in Messages
    PROVE  /\ WithMessage(messages, m) \in Seq(Messages)
           /\ \A x : Says(messages, x) => Says(WithMessage(messages, m), x)
           /\ \A k \in DOMAIN WithMessage(messages, m) :
                \/ \E l \in DOMAIN messages : WithMessage(messages, m)[k] = messages[l]
                \/ WithMessage(messages, m)[k] = m
           /\ (\A k \in DOMAIN messages :
                    /\ messages[k].id = m.id => messages[k].role = m.role
                    /\ messages[k].run = m.run /\ messages[k].role = m.role => messages[k].id = m.id)
                => Says(WithMessage(messages, m), m)
<1> DEFINE there == \E k \in DOMAIN messages : \/ messages[k].id = m.id
                                               \/ messages[k].run = m.run /\ messages[k].role = m.role
<1>1. CASE there
  <2>1. WithMessage(messages, m) = messages
    BY <1>1 DEF WithMessage
  <2> QED BY <1>1, <2>1 DEF Says
<1>2. CASE ~there
  <2> DEFINE w == Append(messages, m)
  <2>1. WithMessage(messages, m) = w
    BY <1>2 DEF WithMessage
  <2>2. /\ w \in Seq(Messages) /\ Len(w) = Len(messages) + 1
        /\ \A k \in 1..Len(messages) : w[k] = messages[k]
        /\ w[Len(messages) + 1] = m
    OBVIOUS
  <2>3. DOMAIN w = 1..(Len(messages) + 1) /\ DOMAIN messages = 1..Len(messages) /\ Len(messages) \in Nat
    BY <2>2
  <2> HIDE DEF w
  <2>4. \A x : Says(messages, x) => Says(w, x)
    BY <2>2, <2>3 DEF Says
  <2>5. Says(w, m)
    BY <2>2, <2>3 DEF Says
  <2>6. \A k \in DOMAIN w : (\E l \in DOMAIN messages : w[k] = messages[l]) \/ w[k] = m
    BY <2>2, <2>3
  <2> QED BY <2>1, <2>2, <2>4, <2>5, <2>6
<1> QED BY <1>1, <1>2

(* Messages of executions: their ids tell replies from what was said, and of  *)
(* one execution there is one id for each.                                    *)
LEMMA IdsAgree ==
    ASSUME NEW a \in Tasks, NEW b \in Tasks, NEW x \in {Reply(a), Spoken(a)}, NEW m \in {Reply(b), Spoken(b)}
    PROVE  /\ x.id = m.id => x.role = m.role
           /\ x.run = m.run /\ x.role = m.role => x.id = m.id
<1>1. MessageId(a) # <<"reply", b>> /\ MessageId(b) # <<"reply", a>>
  BY DEF MessageId
<1>2. CASE x = Reply(a) /\ m = Reply(b)
  BY <1>2 DEF Reply
<1>3. CASE x = Reply(a) /\ m = Spoken(b)
  BY <1>1, <1>3 DEF Reply, Spoken
<1>4. CASE x = Spoken(a) /\ m = Reply(b)
  BY <1>1, <1>4 DEF Reply, Spoken
<1>5. CASE x = Spoken(a) /\ m = Spoken(b)
  BY <1>5 DEF Spoken
<1> QED BY <1>2, <1>3, <1>4, <1>5

(* Replies and what is said are messages.                                     *)
LEMMA AreMessages ==
    ASSUME NEW j \in Tasks, tasks[j].req \in Requests
    PROVE  Reply(j) \in Messages /\ Spoken(j) \in Messages
<1>1. <<"reply", j>> \in Ids /\ <<"run", j>> \in Ids
  BY DEF Ids
<1>2. <<"message", tasks[j].req.mid>> \in Ids
  BY DEF Ids
<1> QED BY <1>1, <1>2 DEF Reply, Spoken, MessageId, Messages

(* What executions wrote, with one message of an execution more: it is said,  *)
(* whether or not it was before.                                              *)
LEMMA OneMore ==
    ASSUME NEW messages \in Seq(Messages), NEW j \in Tasks, tasks[j].req \in Requests, tasks[j].pc # "unused",
           \A k \in DOMAIN messages :
                \E a \in Tasks : tasks[a].pc # "unused" /\ messages[k] \in {Reply(a), Spoken(a)},
           NEW m \in {Reply(j), Spoken(j)}
    PROVE  /\ WithMessage(messages, m) \in Seq(Messages)
           /\ \A x : Says(messages, x) => Says(WithMessage(messages, m), x)
           /\ Says(WithMessage(messages, m), m)
           /\ \A k \in DOMAIN WithMessage(messages, m) :
                \E a \in Tasks : tasks[a].pc # "unused" /\ WithMessage(messages, m)[k] \in {Reply(a), Spoken(a)}
<1>1. m \in Messages
  BY AreMessages
<1>2. \A k \in DOMAIN messages :
        /\ messages[k].id = m.id => messages[k].role = m.role
        /\ messages[k].run = m.run /\ messages[k].role = m.role => messages[k].id = m.id
  <2> SUFFICES ASSUME NEW k \in DOMAIN messages
               PROVE  /\ messages[k].id = m.id => messages[k].role = m.role
                      /\ messages[k].run = m.run /\ messages[k].role = m.role => messages[k].id = m.id
    OBVIOUS
  <2>1. PICK a \in Tasks : messages[k] \in {Reply(a), Spoken(a)}
    OBVIOUS
  <2> QED BY <2>1, IdsAgree
<1> DEFINE w == WithMessage(messages, m)
<1>3. /\ w \in Seq(Messages)
      /\ \A x : Says(messages, x) => Says(w, x)
      /\ \A k \in DOMAIN w : (\E l \in DOMAIN messages : w[k] = messages[l]) \/ w[k] = m
      /\ Says(w, m)
  BY <1>1, <1>2, MessageWritten
<1> HIDE DEF w
<1>4. \A k \in DOMAIN w : \E a \in Tasks : tasks[a].pc # "unused" /\ w[k] \in {Reply(a), Spoken(a)}
  BY <1>3
<1> QED BY <1>3, <1>4 DEF w

(* What a finalised turn writes.                                              *)
LEMMA TurnWritten ==
    ASSUME NEW messages \in Seq(Messages), NEW j \in Tasks, tasks[j].req \in Requests, tasks[j].pc # "unused",
           \A k \in DOMAIN messages :
                \E a \in Tasks : tasks[a].pc # "unused" /\ messages[k] \in {Reply(a), Spoken(a)}
    PROVE  /\ WithTurn(messages, j) \in Seq(Messages)
           /\ \A x : Says(messages, x) => Says(WithTurn(messages, j), x)
           /\ Says(WithTurn(messages, j), Reply(j))
           /\ tasks[j].req.kind # "CHOICE" => Says(WithTurn(messages, j), Spoken(j))
           /\ \A k \in DOMAIN WithTurn(messages, j) :
                \E a \in Tasks : tasks[a].pc # "unused" /\ WithTurn(messages, j)[k] \in {Reply(a), Spoken(a)}
<1> DEFINE first == IF tasks[j].req.kind = "CHOICE" THEN messages ELSE WithMessage(messages, Spoken(j))
<1>1. /\ first \in Seq(Messages)
      /\ \A x : Says(messages, x) => Says(first, x)
      /\ tasks[j].req.kind # "CHOICE" => Says(first, Spoken(j))
      /\ \A k \in DOMAIN first :
            \E a \in Tasks : tasks[a].pc # "unused" /\ first[k] \in {Reply(a), Spoken(a)}
  <2>1. CASE tasks[j].req.kind = "CHOICE"
    BY <2>1
  <2>2. CASE tasks[j].req.kind # "CHOICE"
    <3>1. first = WithMessage(messages, Spoken(j))
      BY <2>2
    <3> HIDE DEF first
    <3> QED BY <2>2, <3>1, OneMore
  <2> QED BY <2>1, <2>2
<1>2. WithTurn(messages, j) = WithMessage(first, Reply(j))
  BY DEF WithTurn
<1> HIDE DEF first
<1>3. /\ WithMessage(first, Reply(j)) \in Seq(Messages)
      /\ \A x : Says(first, x) => Says(WithMessage(first, Reply(j)), x)
      /\ Says(WithMessage(first, Reply(j)), Reply(j))
      /\ \A k \in DOMAIN WithMessage(first, Reply(j)) :
            \E a \in Tasks : tasks[a].pc # "unused" /\ WithMessage(first, Reply(j))[k] \in {Reply(a), Spoken(a)}
  BY <1>1, OneMore
<1> QED BY <1>1, <1>2, <1>3

-----------------------------------------------------------------------------
(* Steps that end a run. *)

(* Threads keep what is said in them and gain only what executions write.     *)
Gains ==
    /\ threads' \in [Threads -> ThreadRows]
    /\ \A t \in Threads : \A x : Says(threads[t].messages, x) => Says(threads'[t].messages, x)
    /\ \A t \in Threads : \A k \in DOMAIN threads'[t].messages :
        \E a \in Tasks : tasks[a].pc # "unused" /\ threads'[t].messages[k] \in {Reply(a), Spoken(a)}

(* It is enough that the one thread a step writes to does.                    *)
LEMMA OneGains ==
    ASSUME Tables, Written, NEW th \in Threads,
           threads' = [threads EXCEPT ![th] = threads'[th]], threads'[th] \in ThreadRows,
           \A x : Says(threads[th].messages, x) => Says(threads'[th].messages, x),
           \A k \in DOMAIN threads'[th].messages :
                \E a \in Tasks : tasks[a].pc # "unused" /\ threads'[th].messages[k] \in {Reply(a), Spoken(a)}
    PROVE  Gains
<1>1. threads \in [Threads -> ThreadRows]
  BY DEF Tables
<1>2. threads' \in [Threads -> ThreadRows] /\ \A t \in Threads \ {th} : threads'[t] = threads[t]
  BY <1>1
<1>3. ASSUME NEW t \in Threads
      PROVE  /\ \A x : Says(threads[t].messages, x) => Says(threads'[t].messages, x)
             /\ \A k \in DOMAIN threads'[t].messages :
                    \E a \in Tasks : tasks[a].pc # "unused" /\ threads'[t].messages[k] \in {Reply(a), Spoken(a)}
  <2>1. CASE t = th
    BY <2>1
  <2>2. CASE t # th
    BY <1>2, <2>2 DEF Written
  <2> QED BY <2>1, <2>2
<1> QED BY <1>2, <1>3 DEF Gains

(* Cases keep what they are about.                                            *)
CasesStay ==
    /\ cases' \in Seq(CaseRows)
    /\ \A k \in DOMAIN cases : k \in DOMAIN cases' /\ cases'[k].thread = cases[k].thread
                                                   /\ cases'[k].topic = cases[k].topic

(* The run of an execution ends with a result, and its thread tells it.       *)
LEMMA ClosingStep ==
    ASSUME AInv, NEW j \in Tasks, Moved(j), store' = store,
           tasks'[j].thread = tasks[j].thread, tasks'[j].pc # "locked", Live(j)' => Live(j),
           tasks[j].thread \in Threads, runs[j].outcome = None, Execution(j)',
           NEW outcome \in TerminalTypes, NEW case \in Nat,
           runs' = [runs EXCEPT ![j] = Terminated(runs[j], outcome, case)],
           Gains, Says(threads'[tasks[j].thread].messages, Reply(j)),
           outcome # "FAILED" /\ tasks[j].req.kind # "CHOICE" =>
                Says(threads'[tasks[j].thread].messages, Spoken(j)),
           outcome = "ESCALATED" =>
                /\ case \in DOMAIN cases' /\ cases'[case].thread = tasks[j].thread
                /\ tasks'[j].topic \in {None, cases'[case].topic},
           CasesStay, \A i \in Tasks \ {j} : Holds(i)', Distinct'
    PROVE  AInv'
<1>1. /\ tasks' \in [Tasks -> TaskRecords]
      /\ \A i \in Tasks \ {j} : tasks'[i] = tasks[i]
      /\ Onward
  BY MovedOne DEF AInv, Executions
<1>2. runs \in [Tasks -> RunRows] /\ Closed(runs[j])
  BY DEF AInv, Executions, Tables
<1> DEFINE new == Terminated(runs[j], outcome, case)
<1>3. /\ new \in RunRows /\ new.status = "OVER" /\ new.outcome = outcome /\ new.case = case
      /\ Closed(new)
  BY <1>2, Terminates
<1> HIDE DEF new
<1>4. runs' \in [Tasks -> RunRows] /\ runs'[j] = new /\ \A i \in Tasks \ {j} : runs'[i] = runs[i]
  BY <1>2, <1>3 DEF new
<1>5. Tables'
  BY <1>1, <1>4 DEF AInv, Tables, Gains, CasesStay
<1>6. Stored'
  <2>1. \A i \in Tasks : Live(i)' => Live(i)
    BY <1>1 DEF Live
  <2> QED BY <1>1, <2>1, StoredStays DEF AInv
<1>7. ASSUME NEW i \in Tasks PROVE Execution(i)' /\ Closed(runs'[i]) /\ Told(i)' /\ Reviewed(i)' /\ Holds(i)'
  <2>1. CASE i # j
    <3>1. Execution(i)' /\ Closed(runs'[i]) /\ Told(i)' /\ Reviewed(i)'
      BY <1>1, <1>4, <2>1, Bystander DEF AInv, Executions, Gains, CasesStay
    <3> QED BY <2>1, <3>1
  <2>2. CASE i = j
    <3>1. Told(j)'
      <4>1. Reply(j)' = Reply(j) /\ Spoken(j)' = Spoken(j) /\ tasks'[j].req = tasks[j].req
        BY DEF Moved, Reply, Spoken, MessageId
      <4> QED BY <1>3, <1>4, <4>1 DEF Told
    <3>2. Reviewed(j)'
      BY <1>3, <1>4 DEF Reviewed
    <3>3. Holds(j)'
      BY DEF Holds
    <3> QED BY <1>3, <1>4, <2>2, <3>1, <3>2, <3>3
  <2> QED BY <2>1, <2>2
<1>8. Written'
  BY <1>1, WrittenStays DEF AInv, Gains
<1>9. OneHolder'
  BY <1>1 DEF AInv, OneHolder
<1> QED BY <1>5, <1>6, <1>7, <1>8, <1>9 DEF AInv, Executions

-----------------------------------------------------------------------------
(* The steps of an execution that end no run. *)

(* What the invariant says of one execution.                                  *)
LEMMA AboutOne ==
    ASSUME AInv, NEW j \in Tasks
    PROVE  /\ tasks \in [Tasks -> TaskRecords] /\ tasks[j] \in TaskRecords
           /\ runs \in [Tasks -> RunRows] /\ runs[j] \in RunRows
           /\ Execution(j) /\ Closed(runs[j]) /\ Told(j) /\ Reviewed(j) /\ Holds(j)
BY DEF AInv, Executions, Tables

(* The case of an execution that only moves itself.                           *)
LEMMA QuietTask ==
    ASSUME AInv, NEW j \in Tasks, Moved(j), UNCHANGED <<threads, runs, cases, store>>,
           Live(j)' => Live(j), Execution(j)',
           runs[j].outcome # None => tasks'[j].thread = tasks[j].thread,
           runs[j].outcome = "ESCALATED" => tasks'[j].topic \in {tasks[j].topic, None},
           tasks'[j].pc = "locked" =>
                Holds(j)' /\ ~Locked(tasks[j].thread) /\ tasks'[j].thread = tasks[j].thread
    PROVE  AInv'
<1>1. runs' = [runs EXCEPT ![j] = runs'[j]] /\ runs'[j] \in RunRows /\ Closed(runs'[j])
  BY AboutOne
<1>2. threads' \in [Threads -> ThreadRows]
  BY DEF AInv, Tables
<1> QED BY <1>1, <1>2, QuietStep

(* An execution that raises.                                                  *)
LEMMA FailureStep ==
    ASSUME AInv, NEW j \in Tasks, Live(j), UNCHANGED <<threads, runs, cases, store>>,
           tasks' = [tasks EXCEPT ![j] = Failing(tasks[j])]
    PROVE  AInv'
<1> USE AboutOne
<1>1. /\ tasks'[j] \in TaskRecords /\ tasks'[j].pc = "failed" /\ tasks'[j].req = tasks[j].req
      /\ tasks'[j].thread = tasks[j].thread /\ tasks'[j].topic = None
  BY DEF TaskRecords, Failing, Pcs
<1>2. Moved(j)
  BY <1>1 DEF Moved, Live
<1>3. ~Live(j)'
  BY <1>1 DEF Live
<1>4. Execution(j)'
  <2>1. Execution(j) /\ tasks[j].pc # "unused"
    BY DEF Live
  <2> QED BY <1>1, <2>1 DEF Execution
<1> QED BY <1>1, <1>2, <1>3, <1>4, QuietTask

(* Threads are registered for a creation.                                     *)
LEMMA CreateThreadStep ==
    ASSUME AInv, NEW j \in Tasks, CreateThread(j)
    PROVE  AInv'
<1> USE AboutOne
<1>1. PICK t \in Threads :
        /\ threads' = [threads EXCEPT ![t].status = "ACTIVE", ![t].version = 1]
        /\ tasks' = [tasks EXCEPT ![j].pc = "checked", ![j].thread = t]
  BY DEF CreateThread
<1>2. /\ tasks'[j] \in TaskRecords /\ tasks'[j].pc = "checked" /\ tasks'[j].req = tasks[j].req
      /\ tasks'[j].thread = t /\ tasks' = [tasks EXCEPT ![j] = tasks'[j]]
  BY <1>1 DEF TaskRecords, Pcs
<1>3. Moved(j) /\ Live(j)
  BY <1>2 DEF Moved, Live, CreateThread
<1>4. threads' \in [Threads -> ThreadRows] /\ \A u \in Threads : threads'[u].messages = threads[u].messages
  <2>1. threads \in [Threads -> ThreadRows]
    BY DEF AInv, Tables
  <2> QED BY <1>1, <2>1 DEF ThreadRows
<1>5. runs[j] = NoRun /\ UNCHANGED <<runs, cases, store>>
  BY DEF Execution, CreateThread
<1>6. Execution(j)'
  <2>1. Execution(j) /\ tasks[j].pc = "queued"
    BY DEF CreateThread
  <2> QED BY <1>2, <1>5, <2>1 DEF Execution, NoRun
<1>7. runs[j].outcome = None
  BY <1>5 DEF NoRun
<1>8. runs' = [runs EXCEPT ![j] = runs'[j]] /\ runs'[j] \in RunRows /\ Closed(runs'[j])
  BY <1>5
<1> QED BY <1>2, <1>3, <1>4, <1>5, <1>6, <1>7, <1>8, QuietStep, ApiAssumption

(* The other requests read whether their thread is active.                    *)
LEMMA RequireActiveStep ==
    ASSUME AInv, NEW j \in Tasks, RequireActive(j)
    PROVE  AInv'
<1> USE AboutOne
<1>1. tasks[j].pc = "queued" /\ tasks[j].req \in Requests /\ runs[j] = NoRun
  BY DEF RequireActive, Execution
<1>2. tasks[j].req.thread \in Threads
  BY <1>1, ApiAssumption DEF RequireActive
<1>3. PICK pc \in {"checked", "failed"} :
        tasks' = [tasks EXCEPT ![j].thread = tasks[j].req.thread, ![j].pc = pc]
  BY DEF RequireActive
<1>4. /\ tasks'[j] \in TaskRecords /\ tasks'[j].pc = pc /\ tasks'[j].req = tasks[j].req
      /\ tasks'[j].thread = tasks[j].req.thread /\ tasks' = [tasks EXCEPT ![j] = tasks'[j]]
  BY <1>2, <1>3 DEF TaskRecords, Pcs
<1>5. Moved(j) /\ Live(j)
  BY <1>1, <1>4 DEF Moved, Live
<1>6. UNCHANGED <<threads, runs, cases, store>>
  BY DEF RequireActive
<1>7. Execution(j)'
  BY <1>1, <1>2, <1>4, <1>6 DEF Execution, NoRun
<1>8. runs[j].outcome = None
  BY <1>1 DEF NoRun
<1> QED BY <1>4, <1>5, <1>6, <1>7, <1>8, QuietTask, ApiAssumption

(* The trace of a run that starts.                                            *)
LEMMA StartedRows ==
    /\ Started \in RunRows /\ Closed(Started) /\ Started.status = "RUNNING"
    /\ Started.outcome = None /\ Started.case = 0
    /\ [Started EXCEPT !.trace = Append(@, "control")] \in RunRows
    /\ Closed([Started EXCEPT !.trace = Append(@, "control")])
<1>1. Started = [status |-> "RUNNING", outcome |-> None, case |-> 0, trace |-> <<"run_started">>]
  <2> DEFINE first == [NoRun EXCEPT !.status = "RUNNING"]
  <2>1. first = [status |-> "RUNNING", outcome |-> None, case |-> 0, trace |-> <<>>]
    BY DEF NoRun
  <2>2. Started = [first EXCEPT !.trace = <<"run_started">>]
    BY DEF Started
  <2> HIDE DEF first
  <2> QED BY <2>1, <2>2
<1>2. <<"run_started">> \in Seq(Events) /\ Ends(<<"run_started">>) = {}
  <2> DEFINE first == <<"run_started">>
  <2>1. first \in Seq(Events) /\ DOMAIN first = 1..1 /\ first[1] = "run_started"
    BY DEF Events
  <2> HIDE DEF first
  <2>2. Ends(first) = {}
    BY <2>1 DEF Ends, TerminalTypes
  <2> QED BY <2>1, <2>2 DEF first
<1>3. Started \in RunRows
  BY <1>1, <1>2 DEF RunRows
<1>4. Closed(Started)
  BY <1>1, <1>2 DEF Closed
<1> QED BY <1>1, <1>3, <1>4, Extended

(* A run starts: both transactions commit.                                    *)
LEMMA StartTraceStep ==
    ASSUME AInv, NEW j \in Tasks, StartTrace(j)
    PROVE  AInv'
<1> USE AboutOne
<1> DEFINE new == [Started EXCEPT !.trace = Append(@, "control")]
<1>1. tasks[j].pc = "checked" /\ runs[j] = NoRun /\ Execution(j)
  BY DEF StartTrace, Execution
<1>2. /\ tasks'[j] \in TaskRecords /\ tasks' = [tasks EXCEPT ![j] = tasks'[j]]
      /\ tasks'[j] = [tasks[j] EXCEPT !.pc = "turn"]
      /\ tasks'[j].pc = "turn" /\ tasks'[j].req = tasks[j].req /\ tasks'[j].thread = tasks[j].thread
  BY DEF TaskRecords, Pcs, StartTrace
<1>3. Moved(j) /\ Live(j)
  BY <1>1, <1>2 DEF Moved, Live
<1>4. /\ new \in RunRows /\ Closed(new)
      /\ new.status = "RUNNING" /\ new.outcome = None /\ new.case = 0
  BY StartedRows
<1>5. runs' = [runs EXCEPT ![j] = new]
  BY DEF StartTrace
<1> HIDE DEF new
<1>6. runs'[j] = new
  BY <1>5
<1>7. Execution(j)'
  BY <1>1, <1>2, <1>4, <1>6, ApiAssumption DEF Execution
<1>8. threads' \in [Threads -> ThreadRows] /\ UNCHANGED <<threads, cases, store>>
  BY DEF AInv, Tables, StartTrace
<1>9. runs'[j].outcome = runs[j].outcome /\ runs'[j].case = runs[j].case
  BY <1>1, <1>4, <1>6 DEF NoRun
<1>10. runs[j].outcome = None
  BY <1>1 DEF NoRun
<1>11. runs' = [runs EXCEPT ![j] = runs'[j]] /\ runs'[j] \in RunRows /\ Closed(runs'[j])
  BY <1>4, <1>5, <1>6
<1> QED BY <1>2, <1>3, <1>7, <1>8, <1>9, <1>10, <1>11, QuietStep, ApiAssumption

(* Or one of them fails.                                                      *)
LEMMA StartFailsStep ==
    ASSUME AInv, NEW j \in Tasks, StartFails(j)
    PROVE  AInv'
<1> USE AboutOne
<1>1. tasks[j].pc = "checked" /\ runs[j] = NoRun /\ Execution(j) /\ tasks' = [tasks EXCEPT ![j] = Failing(tasks[j])]
  BY DEF StartFails, Execution
<1>2. UNCHANGED <<threads, cases, store>> /\ Live(j)
  BY <1>1 DEF StartFails, Live
<1>3. CASE runs' = runs
  BY <1>1, <1>2, <1>3, FailureStep
<1>4. CASE runs' = [runs EXCEPT ![j] = Started]
  <2>1. /\ tasks'[j] \in TaskRecords /\ tasks'[j].pc = "failed" /\ tasks'[j].req = tasks[j].req
        /\ tasks'[j].thread = tasks[j].thread
    BY <1>1 DEF TaskRecords, Failing, Pcs
  <2>2. Moved(j) /\ ~Live(j)'
    BY <1>1, <2>1 DEF Moved, Live
  <2>3. runs'[j] = Started /\ runs' = [runs EXCEPT ![j] = runs'[j]] /\ runs'[j] \in RunRows /\ Closed(runs'[j])
    BY <1>4, StartedRows
  <2>4. Execution(j)'
    BY <1>1, <2>1, <2>3, StartedRows, ApiAssumption DEF Execution
  <2>5. runs'[j].outcome = runs[j].outcome /\ runs'[j].case = runs[j].case /\ runs[j].outcome = None
    BY <1>1, <2>3, StartedRows DEF NoRun
  <2>6. threads' \in [Threads -> ThreadRows]
    BY <1>2 DEF AInv, Tables
  <2> QED BY <1>2, <2>1, <2>2, <2>3, <2>4, <2>5, <2>6, QuietStep, ApiAssumption
<1> QED BY <1>3, <1>4 DEF StartFails

(* The message has had a run.                                                 *)
LEMMA StartRefusedStep ==
    ASSUME AInv, NEW j \in Tasks, StartRefused(j)
    PROVE  AInv'
BY FailureStep DEF StartRefused, Live

(* The trace of a run under way, or the audit of one that may be over, grows. *)
LEMMA TraceStep ==
    ASSUME AInv, NEW j \in Tasks, NEW e \in {"control", "domain"}, runs[j].status # None,
           runs[j].outcome = None \/ e = "domain",
           runs' = [runs EXCEPT ![j].trace = Append(@, e)], UNCHANGED <<threads, tasks, cases, store>>
    PROVE  AInv'
<1> USE AboutOne
<1> DEFINE new == [runs[j] EXCEPT !.trace = Append(@, e)]
<1>1. new \in RunRows /\ Closed(new)
  BY Extended
<1>2. new.status = runs[j].status /\ new.outcome = runs[j].outcome /\ new.case = runs[j].case
  BY DEF RunRows
<1>3. runs' = [runs EXCEPT ![j] = new]
  OBVIOUS
<1> HIDE DEF new
<1>4. runs'[j] = new /\ runs' = [runs EXCEPT ![j] = runs'[j]]
  BY <1>3
<1>5. tasks[j].pc \notin {"unused", "queued", "checked"}
  BY DEF Execution, NoRun
<1>6. Moved(j) /\ (Live(j)' => Live(j))
  BY <1>5 DEF Moved, Live
<1>7. Execution(j)'
  <2>1. Execution(j)
    OBVIOUS
  <2> QED BY <1>2, <1>4, <1>5, <2>1 DEF Execution
<1>8. threads' \in [Threads -> ThreadRows]
  BY DEF AInv, Tables
<1>9. CASE tasks[j].pc # "locked"
  BY <1>1, <1>2, <1>4, <1>6, <1>7, <1>8, <1>9, QuietStep
<1>10. CASE tasks[j].pc = "locked"
  <2>1. Onward /\ \A i \in Tasks \ {j} : runs'[i] = runs[i]
    BY <1>4 DEF Onward
  <2>2. Tables'
    BY <1>1, <1>3, <1>4 DEF AInv, Tables
  <2>3. Stored'
    BY <2>1, StoredStays DEF AInv, Live
  <2>4. ASSUME NEW i \in Tasks
        PROVE Execution(i)' /\ Closed(runs'[i]) /\ Told(i)' /\ Reviewed(i)' /\ Holds(i)'
    <3>1. Holds(i)'
      <4>1. Holds(i)
        OBVIOUS
      <4> QED BY <4>1 DEF Holds, Matching, Active
    <3>2. CASE i # j
      <4>1. Execution(i)' /\ Closed(runs'[i]) /\ Told(i)' /\ Reviewed(i)'
        BY <2>1, <3>2, Bystander DEF AInv
      <4> QED BY <3>1, <4>1
    <3>3. CASE i = j
      <4>1. runs[j].outcome = None
        BY <1>10 DEF Execution
      <4>2. Told(j)' /\ Reviewed(j)'
        BY <1>2, <1>4, <4>1, ApiAssumption DEF Told, Reviewed
      <4> QED BY <1>1, <1>4, <1>7, <3>1, <3>3, <4>2
    <3> QED BY <3>2, <3>3
  <2>5. Written'
    BY <2>1, WrittenStays DEF AInv
  <2>6. Distinct' /\ OneHolder'
    BY DEF AInv, Distinct, Active, OneHolder
  <2> QED BY <2>2, <2>3, <2>4, <2>5, <2>6 DEF AInv, Executions
<1> QED BY <1>9, <1>10

(* A node traces itself, or finds its run over.                               *)
LEMMA TraceNodeStep ==
    ASSUME AInv, NEW j \in Tasks, TraceNode(j)
    PROVE  AInv'
<1> USE AboutOne
<1>1. CASE runs[j].status = "RUNNING"
  <2>1. runs[j].outcome = None /\ runs[j].status # None
    BY <1>1, ApiAssumption DEF Execution
  <2> QED BY <1>1, <2>1, TraceStep DEF TraceNode
<1>2. CASE runs[j].status # "RUNNING"
  <2>1. tasks' = [tasks EXCEPT ![j].pc = "ended", ![j].result = "FAILED"] /\ tasks[j].pc = "turn"
    BY <1>2 DEF TraceNode
  <2>2. /\ tasks'[j] \in TaskRecords /\ tasks' = [tasks EXCEPT ![j] = tasks'[j]]
        /\ tasks'[j].pc = "ended" /\ tasks'[j].req = tasks[j].req /\ tasks'[j].thread = tasks[j].thread
        /\ tasks'[j].topic = tasks[j].topic /\ tasks'[j].result = "FAILED"
    BY <2>1 DEF TaskRecords, Pcs, Results
  <2>3. Moved(j) /\ Live(j)
    BY <2>1, <2>2 DEF Moved, Live
  <2>4. UNCHANGED <<threads, runs, cases, store>>
    BY <1>2 DEF TraceNode
  <2>5. Execution(j)'
    <3>1. Execution(j)
      OBVIOUS
    <3> QED BY <2>1, <2>2, <2>4, <3>1 DEF Execution, Results
  <2> QED BY <2>2, <2>3, <2>4, <2>5, QuietTask
<1> QED BY <1>1, <1>2

(* The projector appends its event.                                           *)
LEMMA ProjectStep ==
    ASSUME AInv, NEW j \in Tasks, Project(j)
    PROVE  AInv'
<1> USE AboutOne
<1>1. runs[j].status # None
  <2> SUFFICES ASSUME runs[j].status = None PROVE FALSE
    OBVIOUS
  <2>1. runs[j].trace = <<>>
    BY DEF Execution, NoRun
  <2>2. {k \in DOMAIN runs[j].trace : runs[j].trace[k] = "control"} = {}
    BY <2>1
  <2>3. Count(runs[j].trace, "control") = 0
    BY <2>2, FS_EmptySet DEF Count
  <2> QED BY <2>3 DEF Project, Traced
<1> QED BY <1>1, TraceStep DEF Project

(* The turn ends with what the orchestrator says.                             *)
LEMMA EndTurnStep ==
    ASSUME AInv, NEW j \in Tasks, EndTurn(j)
    PROVE  AInv'
<1> USE AboutOne
<1>1. PICK result \in {"COMPLETED", "FAILED", "ESCALATED", "REFUSED"}, topic \in Topics \cup {None} :
        tasks' = [tasks EXCEPT ![j].pc = "ended", ![j].result = result, ![j].topic = topic]
  BY DEF EndTurn
<1>2. /\ tasks'[j] \in TaskRecords /\ tasks' = [tasks EXCEPT ![j] = tasks'[j]]
      /\ tasks'[j].pc = "ended" /\ tasks'[j].req = tasks[j].req /\ tasks'[j].thread = tasks[j].thread
      /\ tasks'[j].topic = topic /\ tasks'[j].result = result
  BY <1>1 DEF TaskRecords, Pcs, Results
<1>3. tasks[j].pc = "turn" /\ UNCHANGED <<threads, runs, cases, store>>
  BY DEF EndTurn
<1>4. Moved(j) /\ Live(j)
  BY <1>2, <1>3 DEF Moved, Live
<1>5. Execution(j)'
  <2>1. Execution(j)
    OBVIOUS
  <2> QED BY <1>2, <1>3, <2>1 DEF Execution, Results
<1>6. runs[j].outcome # "ESCALATED"
  BY <1>3, ApiAssumption DEF Execution
<1> QED BY <1>2, <1>3, <1>4, <1>5, <1>6, QuietTask

(* Before the commit, or after it, something the answer needs fails.          *)
LEMMA FailsStep ==
    ASSUME AInv, NEW j \in Tasks, PersistFails(j) \/ ResponseFails(j)
    PROVE  AInv'
BY FailureStep DEF PersistFails, ResponseFails, Live

(* A finalisation takes the thread's lock and looks for the active case.      *)
LEMMA BeginEscalationStep ==
    ASSUME AInv, NEW j \in Tasks, BeginEscalation(j)
    PROVE  AInv'
<1> USE AboutOne
<1> DEFINE known == Matching(tasks[j].thread, tasks[j].topic)
<1>1. PICK k \in IF known = {} THEN {0} ELSE known :
        tasks' = [tasks EXCEPT ![j].pc = "locked", ![j].found = k]
  BY DEF BeginEscalation
<1>2. k \in Nat /\ (known = {} => k = 0) /\ (known # {} => k \in known /\ k # 0)
  <2>1. known \subseteq DOMAIN cases /\ DOMAIN cases \subseteq Nat \ {0}
    BY DEF Matching, AInv, Tables
  <2> HIDE DEF known
  <2> QED BY <2>1
<1>3. /\ tasks'[j] \in TaskRecords /\ tasks' = [tasks EXCEPT ![j] = tasks'[j]]
      /\ tasks'[j].pc = "locked" /\ tasks'[j].req = tasks[j].req /\ tasks'[j].thread = tasks[j].thread
      /\ tasks'[j].topic = tasks[j].topic /\ tasks'[j].result = tasks[j].result /\ tasks'[j].found = k
  BY <1>1, <1>2 DEF TaskRecords, Pcs
<1>4. /\ tasks[j].pc = "ended" /\ tasks[j].result = "ESCALATED" /\ runs[j].outcome = None
      /\ ~Locked(tasks[j].thread) /\ UNCHANGED <<threads, runs, cases, store>>
  BY DEF BeginEscalation
<1>5. Moved(j) /\ Live(j)
  BY <1>3, <1>4 DEF Moved, Live
<1>6. Execution(j)'
  <2>1. Execution(j)
    OBVIOUS
  <2> QED BY <1>3, <1>4, <2>1 DEF Execution
<1>7. Holds(j)'
  <2>1. known' = known
    BY <1>3, <1>4 DEF Matching, Active
  <2>2. known = {} => tasks'[j].found = 0
    BY <1>2, <1>3
  <2>3. known # {} => tasks'[j].found \in known /\ tasks'[j].found # 0
    BY <1>2, <1>3
  <2> QED BY <1>3, <1>4, <2>1, <2>2, <2>3 DEF Holds, Matching
<1> QED BY <1>3, <1>4, <1>5, <1>6, <1>7, QuietTask

(* The sweep came first: the same result is an answer, another is not.        *)
LEMMA FinalizeAgainStep ==
    ASSUME AInv, NEW j \in Tasks, FinalizeAgain(j)
    PROVE  AInv'
<1> USE AboutOne
<1> DEFINE tells == IF tasks[j].result = "ESCALATED" THEN "FAILED" ELSE tasks[j].result
<1>1. /\ tasks[j].pc = "ended" /\ runs[j].outcome # None /\ Live(j)
      /\ UNCHANGED <<threads, runs, cases, store>>
  BY DEF FinalizeAgain, Live
<1>2. tells \in Results
  BY <1>1 DEF Execution, Results
<1>3. CASE Outcome(tells) = runs[j].outcome
  <2>1. tasks' = [tasks EXCEPT ![j] = [tasks[j] EXCEPT !.pc = "persisted", !.result = tells, !.topic = None]]
    BY <1>3 DEF FinalizeAgain
  <2> HIDE DEF tells
  <2>2. /\ tasks'[j] \in TaskRecords /\ tasks' = [tasks EXCEPT ![j] = tasks'[j]]
        /\ tasks'[j].pc = "persisted" /\ tasks'[j].req = tasks[j].req
        /\ tasks'[j].thread = tasks[j].thread /\ tasks'[j].topic = None /\ tasks'[j].result = tells
    BY <1>2, <2>1 DEF TaskRecords, Pcs
  <2>3. Moved(j)
    BY <1>1, <2>2 DEF Moved
  <2>4. Execution(j)'
    <3>1. Execution(j)
      OBVIOUS
    <3> QED BY <1>1, <1>2, <1>3, <2>2, <3>1 DEF Execution, Outcome
  <2> QED BY <1>1, <2>2, <2>3, <2>4, QuietTask
<1>4. CASE Outcome(tells) # runs[j].outcome
  BY <1>1, <1>4, FailureStep DEF FinalizeAgain
<1> QED BY <1>3, <1>4

(* The answer is given, or raised.                                            *)
LEMMA RespondStep ==
    ASSUME AInv, NEW j \in Tasks, Respond(j)
    PROVE  AInv'
<1> USE AboutOne
<1>1. tasks[j].pc = "persisted" /\ Live(j) /\ UNCHANGED <<threads, runs, cases, store>>
  BY DEF Respond, Live
<1>2. CASE Raises(j)
  BY <1>1, <1>2, FailureStep DEF Respond
<1>3. CASE ~Raises(j)
  <2>1. tasks' = [tasks EXCEPT ![j].pc = "done"]
    BY <1>3 DEF Respond
  <2>2. /\ tasks'[j] \in TaskRecords /\ tasks' = [tasks EXCEPT ![j] = tasks'[j]]
        /\ tasks'[j].pc = "done" /\ tasks'[j].req = tasks[j].req
        /\ tasks'[j].thread = tasks[j].thread /\ tasks'[j].topic = tasks[j].topic
        /\ tasks'[j].result = tasks[j].result
    BY <2>1 DEF TaskRecords, Pcs
  <2>3. Moved(j)
    BY <1>1, <2>2 DEF Moved
  <2>4. Execution(j)'
    <3>1. Execution(j)
      OBVIOUS
    <3> QED BY <1>1, <2>2, <3>1 DEF Execution, Outcome
  <2> QED BY <1>1, <2>2, <2>3, <2>4, QuietTask
<1> QED BY <1>2, <1>3

-----------------------------------------------------------------------------
(* The steps that end a run. *)

(* What a finalisation writes to the thread.                                  *)
LEMMA FinalizedGains ==
    ASSUME AInv, NEW j \in Tasks, tasks[j].pc # "unused", tasks[j].thread \in Threads,
           threads' = [threads EXCEPT ![tasks[j].thread].messages = WithTurn(@, j),
                                      ![tasks[j].thread].version = @ + 1]
    PROVE  /\ Gains
           /\ Says(threads'[tasks[j].thread].messages, Reply(j))
           /\ tasks[j].req.kind # "CHOICE" => Says(threads'[tasks[j].thread].messages, Spoken(j))
<1> DEFINE th == tasks[j].thread
           old == threads[th].messages
           said == WithTurn(old, j)
<1>1. threads \in [Threads -> ThreadRows] /\ Tables /\ Written
  BY DEF AInv, Tables
<1>2. old \in Seq(Messages)
  BY <1>1 DEF ThreadRows
<1>3. tasks[j].req \in Requests
  BY AboutOne DEF Execution
<1>4. \A k \in DOMAIN old : \E a \in Tasks : tasks[a].pc # "unused" /\ old[k] \in {Reply(a), Spoken(a)}
  BY <1>1 DEF Written
<1>5. /\ said \in Seq(Messages)
      /\ \A x : Says(old, x) => Says(said, x)
      /\ Says(said, Reply(j))
      /\ tasks[j].req.kind # "CHOICE" => Says(said, Spoken(j))
      /\ \A k \in DOMAIN said :
            \E a \in Tasks : tasks[a].pc # "unused" /\ said[k] \in {Reply(a), Spoken(a)}
  <2> HIDE DEF old
  <2> QED BY <1>2, <1>3, <1>4, TurnWritten
<1>6. threads'[th].messages = said /\ threads'[th] \in ThreadRows
      /\ threads' = [threads EXCEPT ![th] = threads'[th]]
  <2>1. said \in Seq(Messages)
    BY <1>5
  <2> HIDE DEF said
  <2>2. threads' = [threads EXCEPT ![th].messages = said, ![th].version = @ + 1]
    BY DEF said
  <2> DEFINE row == threads[th]
             new == [row EXCEPT !.messages = said, !.version = @ + 1]
  <2>3. row \in ThreadRows
    BY <1>1
  <2> HIDE DEF row
  <2>4. new \in ThreadRows /\ new.messages = said
    <3> DEFINE next == row.version + 1
    <3>1. next \in Nat
      BY <2>3 DEF ThreadRows
    <3>2. new = [[row EXCEPT !.messages = said] EXCEPT !.version = next]
      OBVIOUS
    <3> HIDE DEF next, new
    <3> QED BY <2>1, <2>3, <3>1, <3>2 DEF ThreadRows
  <2>5. threads' = [threads EXCEPT ![th] = new]
    BY <1>1, <2>2 DEF row
  <2> HIDE DEF new
  <2> QED BY <1>1, <2>4, <2>5
<1> HIDE DEF said
<1>7. Gains
  BY <1>1, <1>5, <1>6, OneGains
<1> QED BY <1>5, <1>6, <1>7

(* What a finalisation makes of its execution and its run.                    *)
LEMMA FinalizedMoves ==
    ASSUME AInv, NEW j \in Tasks, tasks[j].pc \in {"ended", "locked"}, runs[j].outcome = None,
           NEW case \in Nat, Finalized(j, case)
    PROVE  /\ Moved(j) /\ Live(j) /\ tasks'[j].pc = "persisted"
           /\ tasks'[j].thread = tasks[j].thread /\ tasks'[j].topic = tasks[j].topic
           /\ tasks[j].thread \in Threads
           /\ Outcome(tasks[j].result) \in TerminalTypes
           /\ runs' = [runs EXCEPT ![j] = Terminated(runs[j], Outcome(tasks[j].result), case)]
           /\ Execution(j)'
<1> USE AboutOne
<1>1. /\ tasks' = [tasks EXCEPT ![j].pc = "persisted", ![j].found = 0]
      /\ runs' = [runs EXCEPT ![j] = Terminated(runs[j], Outcome(tasks[j].result), case)]
  BY DEF Finalized
<1>2. /\ tasks'[j] \in TaskRecords /\ tasks' = [tasks EXCEPT ![j] = tasks'[j]]
      /\ tasks'[j].pc = "persisted" /\ tasks'[j].req = tasks[j].req /\ tasks'[j].thread = tasks[j].thread
      /\ tasks'[j].topic = tasks[j].topic /\ tasks'[j].result = tasks[j].result
  BY <1>1, ZenonT(60) DEF TaskRecords, Pcs
<1>3. Moved(j) /\ Live(j)
  BY <1>2 DEF Moved, Live
<1>4. tasks[j].result \in Results /\ tasks[j].thread \in Threads /\ tasks[j].req \in Requests
  BY DEF Execution
<1>5. Outcome(tasks[j].result) \in TerminalTypes
  BY <1>4 DEF Outcome, Results, TerminalTypes
<1>6. runs'[j].outcome = Outcome(tasks[j].result) /\ runs'[j].status = "OVER"
  <2> DEFINE new == Terminated(runs[j], Outcome(tasks[j].result), case)
  <2>1. new.outcome = Outcome(tasks[j].result) /\ new.status = "OVER"
    BY <1>5, Terminates
  <2> HIDE DEF new
  <2>2. runs' = [runs EXCEPT ![j] = new]
    BY <1>1 DEF new
  <2> QED BY <2>1, <2>2
<1>7. Execution(j)'
  BY <1>2, <1>4, <1>6, ApiAssumption DEF Execution, Outcome
<1> QED BY <1>1, <1>2, <1>3, <1>4, <1>5, <1>7

(* A run that did not escalate is finalised.                                  *)
LEMMA FinalizeRunStep ==
    ASSUME AInv, NEW j \in Tasks, FinalizeRun(j)
    PROVE  AInv'
<1> USE AboutOne
<1>1. /\ tasks[j].pc = "ended" /\ tasks[j].result # "ESCALATED" /\ runs[j].outcome = None
      /\ Finalized(j, 0) /\ UNCHANGED <<cases, store>>
  BY DEF FinalizeRun
<1>2. /\ Moved(j) /\ Live(j) /\ tasks'[j].pc = "persisted"
      /\ tasks'[j].thread = tasks[j].thread /\ tasks'[j].topic = tasks[j].topic
      /\ tasks[j].thread \in Threads
      /\ Outcome(tasks[j].result) \in TerminalTypes
      /\ runs' = [runs EXCEPT ![j] = Terminated(runs[j], Outcome(tasks[j].result), 0)]
      /\ Execution(j)'
  BY <1>1, FinalizedMoves
<1>3. /\ Gains
      /\ Says(threads'[tasks[j].thread].messages, Reply(j))
      /\ tasks[j].req.kind # "CHOICE" => Says(threads'[tasks[j].thread].messages, Spoken(j))
  BY <1>1, <1>2, FinalizedGains DEF Finalized
<1>4. Outcome(tasks[j].result) # "ESCALATED"
  BY <1>1 DEF Outcome
<1>5. CasesStay
  BY <1>1 DEF CasesStay, AInv, Tables
<1>6. \A i \in Tasks \ {j} : Holds(i)'
  <2>1. \A i \in Tasks \ {j} : tasks'[i] = tasks[i] /\ Holds(i)
    BY <1>2 DEF Moved
  <2> QED BY <1>1, <2>1 DEF Holds, Matching, Active
<1>7. Distinct'
  BY <1>1 DEF AInv, Distinct, Active
<1> QED BY <1>1, <1>2, <1>3, <1>4, <1>5, <1>6, <1>7, ClosingStep

(* The sweep ends a run that is RUNNING, wherever its execution is.           *)
LEMMA SweepStep ==
    ASSUME AInv, NEW j \in Tasks, Sweep(j)
    PROVE  AInv'
<1> USE AboutOne
<1> DEFINE th == tasks[j].thread
           old == threads[th].messages
           said == WithMessage(old, Reply(j))
<1>1. /\ runs[j].status = "RUNNING" /\ tasks[j].pc # "locked"
      /\ runs' = [runs EXCEPT ![j] = Terminated(runs[j], "FAILED", 0)]
      /\ threads' = [threads EXCEPT ![th].messages = said]
      /\ UNCHANGED <<tasks, cases, store>>
  BY DEF Sweep
<1>2. runs[j].outcome = None /\ th \in Threads
  BY <1>1, ApiAssumption DEF Execution
<1>3. tasks[j].pc \in {"turn", "ended", "failed"} /\ tasks[j].req \in Requests
  <2>1. tasks[j].pc \notin {"unused", "queued", "checked"}
    BY <1>1, ApiAssumption DEF Execution, NoRun
  <2>2. tasks[j].pc \notin {"persisted", "done"}
    <3>1. tasks[j].result \in Results => Outcome(tasks[j].result) # None
      BY ApiAssumption DEF Results, Outcome
    <3> QED BY <1>2, <3>1 DEF Execution
  <2>3. tasks[j].pc \in Pcs
    BY DEF TaskRecords
  <2> QED BY <1>1, <2>1, <2>2, <2>3 DEF Pcs, Execution
<1>4. threads \in [Threads -> ThreadRows] /\ Tables /\ Written
  BY DEF AInv, Tables
<1>5. old \in Seq(Messages)
  BY <1>2, <1>4 DEF ThreadRows
<1>6. \A k \in DOMAIN old : \E a \in Tasks : tasks[a].pc # "unused" /\ old[k] \in {Reply(a), Spoken(a)}
  BY <1>2, <1>4 DEF Written
<1>7. /\ said \in Seq(Messages)
      /\ \A x : Says(old, x) => Says(said, x)
      /\ Says(said, Reply(j))
      /\ \A k \in DOMAIN said :
            \E a \in Tasks : tasks[a].pc # "unused" /\ said[k] \in {Reply(a), Spoken(a)}
  <2> HIDE DEF old
  <2>1. tasks[j].pc # "unused"
    BY <1>3
  <2> QED BY <1>3, <1>5, <1>6, <2>1, OneMore
<1>8. /\ threads'[th].messages = said /\ threads'[th] \in ThreadRows
      /\ threads' = [threads EXCEPT ![th] = threads'[th]]
  <2>1. said \in Seq(Messages)
    BY <1>7
  <2> HIDE DEF said
  <2> QED BY <1>1, <1>2, <1>4, <2>1 DEF ThreadRows
<1> HIDE DEF said
<1>9. Gains
  BY <1>2, <1>4, <1>7, <1>8, OneGains
<1>10. Moved(j) /\ (Live(j)' => Live(j))
  BY <1>1, <1>3 DEF Moved, Live
<1>11. Execution(j)'
  <2> DEFINE new == Terminated(runs[j], "FAILED", 0)
  <2>1. new.outcome = "FAILED" /\ new.status = "OVER"
    BY <1>2, Terminates DEF TerminalTypes
  <2> HIDE DEF new
  <2>2. runs'[j] = new
    BY <1>1 DEF new
  <2>3. Execution(j)
    OBVIOUS
  <2> QED BY <1>1, <1>2, <1>3, <2>1, <2>2, <2>3, ApiAssumption DEF Execution
<1>12. CasesStay
  BY <1>1 DEF CasesStay, AInv, Tables
<1>13. \A i \in Tasks \ {j} : Holds(i)'
  <2>1. \A i \in Tasks : Holds(i)
    OBVIOUS
  <2> QED BY <1>1, <2>1 DEF Holds, Matching, Active
<1>14. Distinct'
  BY <1>1 DEF AInv, Distinct, Active
<1>15. /\ "FAILED" \in TerminalTypes /\ 0 \in Nat /\ tasks'[j].thread = th /\ tasks'[j].pc # "locked"
       /\ Says(threads'[th].messages, Reply(j)) /\ store' = store
  BY <1>1, <1>3, <1>7, <1>8 DEF TerminalTypes
<1> QED BY <1>1, <1>2, <1>9, <1>10, <1>11, <1>12, <1>13, <1>14, <1>15, ClosingStep

(* A finalisation that escalates commits, with the case it found or its own.  *)
LEMMA CommitEscalationStep ==
    ASSUME AInv, NEW j \in Tasks, CommitEscalation(j)
    PROVE  AInv'
<1> USE AboutOne
<1>1. tasks[j].pc = "locked" /\ tasks[j].result = "ESCALATED" /\ runs[j].outcome = None /\ store' = store
  BY DEF CommitEscalation, Execution
<1> DEFINE case == IF tasks[j].found > 0 THEN tasks[j].found ELSE Len(cases) + 1
           opened == [thread |-> tasks[j].thread, topic |-> tasks[j].topic,
                      source |-> j, status |-> "OPEN", version |-> 1]
<1>2. tasks[j].found \in Nat /\ cases \in Seq(CaseRows) /\ case \in Nat
  BY DEF TaskRecords, AInv, Tables
<1>3. Finalized(j, case)
  BY DEF CommitEscalation
<1>4. /\ tasks[j].found > 0 => cases' = cases
      /\ tasks[j].found = 0 => cases' = Append(cases, opened)
  BY <1>2 DEF CommitEscalation
<1>5. /\ Moved(j) /\ Live(j) /\ tasks'[j].pc = "persisted"
      /\ tasks'[j].thread = tasks[j].thread /\ tasks'[j].topic = tasks[j].topic
      /\ tasks[j].thread \in Threads
      /\ Outcome(tasks[j].result) \in TerminalTypes
      /\ runs' = [runs EXCEPT ![j] = Terminated(runs[j], Outcome(tasks[j].result), case)]
      /\ Execution(j)'
  <2> HIDE DEF case
  <2> QED BY <1>1, <1>2, <1>3, FinalizedMoves
<1>6. /\ Gains
      /\ Says(threads'[tasks[j].thread].messages, Reply(j))
      /\ tasks[j].req.kind # "CHOICE" => Says(threads'[tasks[j].thread].messages, Spoken(j))
  BY <1>1, <1>3, <1>5, FinalizedGains DEF Finalized
<1>7. opened \in CaseRows
  BY <1>5 DEF CaseRows, TaskRecords
<1>8. \A i \in Tasks \ {j} : tasks'[i] = tasks[i] /\ Holds(i)
  BY <1>5 DEF Moved
<1>9. \A i \in Tasks \ {j} : tasks[i].pc = "locked" => tasks[i].thread # tasks[j].thread
  BY <1>1 DEF AInv, OneHolder
<1>10. CASE tasks[j].found > 0
  <2>1. cases' = cases /\ case = tasks[j].found
    BY <1>4, <1>10
  <2>2. case \in DOMAIN cases /\ cases[case].thread = tasks[j].thread /\ cases[case].topic = tasks[j].topic
    BY <1>1, <1>10, <2>1 DEF Holds
  <2> HIDE DEF case
  <2>3. CasesStay
    BY <2>1 DEF CasesStay, AInv, Tables
  <2>4. \A i \in Tasks \ {j} : Holds(i)'
    BY <1>8, <2>1 DEF Holds, Matching, Active
  <2>5. Distinct'
    BY <2>1 DEF AInv, Distinct, Active
  <2>6. tasks'[j].pc # "locked"
    BY <1>5
  <2> QED BY <1>1, <1>2, <1>5, <1>6, <2>1, <2>2, <2>3, <2>4, <2>5, <2>6, ClosingStep
<1>11. CASE tasks[j].found = 0
  <2> DEFINE n == Len(cases)
  <2>1. /\ n \in Nat /\ DOMAIN cases = 1..n /\ cases' \in Seq(CaseRows) /\ DOMAIN cases' = 1..(n + 1)
        /\ \A k \in 1..n : cases'[k] = cases[k]
        /\ cases'[n + 1] = opened
        /\ case = n + 1
    BY <1>2, <1>4, <1>7, <1>11, SMTT(40)
  <2>2. Matching(tasks[j].thread, tasks[j].topic) = {}
    BY <1>1, <1>11 DEF Holds
  <2>3. opened.thread = tasks[j].thread /\ opened.topic = tasks[j].topic /\ opened.status = "OPEN"
    OBVIOUS
  <2> HIDE DEF n, opened, case
  <2>4. \A k \in 1..n : k \in DOMAIN cases' /\ cases'[k] = cases[k] /\ (Active(k)' <=> Active(k))
    BY <2>1 DEF Active
  <2>5. CasesStay
    BY <2>1, <2>4 DEF CasesStay
  <2>6. \A i \in Tasks \ {j} : Holds(i)'
    <3> SUFFICES ASSUME NEW i \in Tasks \ {j}, tasks[i].pc = "locked" PROVE Holds(i)'
      BY <1>8 DEF Holds
    <3>1. tasks'[i] = tasks[i] /\ Holds(i) /\ tasks[i].thread # tasks[j].thread
      BY <1>8, <1>9
    <3>2. Matching(tasks[i].thread, tasks[i].topic)' = Matching(tasks[i].thread, tasks[i].topic)
      BY <2>1, <2>3, <2>4, <3>1 DEF Matching
    <3>3. CASE tasks[i].found = 0
      BY <3>1, <3>2, <3>3 DEF Holds
    <3>4. CASE tasks[i].found # 0
      BY <2>1, <2>4, <3>1, <3>4 DEF Holds
    <3> QED BY <3>3, <3>4
  <2>7. Distinct'
    <3> SUFFICES ASSUME NEW a \in 1..(n + 1), NEW b \in 1..(n + 1), Active(a)', Active(b)',
                        cases'[a].thread = cases'[b].thread, cases'[a].topic = cases'[b].topic
                 PROVE  a = b
      BY <2>1 DEF Distinct
    <3>1. CASE a # n + 1 /\ b # n + 1
      BY <2>1, <2>4, <3>1 DEF AInv, Distinct
    <3>2. ASSUME NEW c \in 1..n, Active(c)' PROVE ~(cases'[c].thread = opened.thread /\ cases'[c].topic = opened.topic)
      BY <2>1, <2>2, <2>3, <2>4, <3>2 DEF Matching
    <3>3. CASE a = n + 1 /\ b # n + 1
      BY <2>1, <3>2, <3>3
    <3>4. CASE a # n + 1 /\ b = n + 1
      BY <2>1, <3>2, <3>4
    <3> QED BY <3>1, <3>3, <3>4
  <2>8. tasks'[j].pc # "locked"
    BY <1>5
  <2>9. case \in DOMAIN cases' /\ cases'[case].thread = tasks[j].thread /\ cases'[case].topic = tasks'[j].topic
    BY <1>5, <2>1, <2>3
  <2> QED BY <1>1, <1>2, <1>5, <1>6, <2>5, <2>6, <2>7, <2>8, <2>9, ClosingStep
<1> QED BY <1>2, <1>10, <1>11

(* An operator moves a case that is active: no other becomes active by it.    *)
LEMMA ReviewStep ==
    ASSUME AInv, NEW k \in DOMAIN cases, Review(k)
    PROVE  AInv'
<1>1. PICK status \in {"OPEN", "CLAIMED", "RESOLVED", "DISMISSED"} :
        cases' = [cases EXCEPT ![k].status = status, ![k].version = @ + 1]
  BY DEF Review
<1>2. Active(k) /\ UNCHANGED <<threads, tasks, runs, store>> /\ cases \in Seq(CaseRows)
  BY DEF Review, AInv, Tables
<1> DEFINE row == cases[k]
           new == [row EXCEPT !.status = status, !.version = @ + 1]
<1>3. new \in CaseRows /\ new.thread = row.thread /\ new.topic = row.topic
  <2>1. row \in CaseRows
    BY <1>2
  <2> DEFINE next == row.version + 1
  <2>2. next \in Nat
    BY <2>1 DEF CaseRows
  <2>3. new = [[row EXCEPT !.status = status] EXCEPT !.version = next]
    OBVIOUS
  <2> HIDE DEF row, next, new
  <2> QED BY <2>1, <2>2, <2>3 DEF CaseRows
<1>4. cases' = [cases EXCEPT ![k] = new]
  BY <1>1, <1>2
<1> HIDE DEF new
<1>5. /\ DOMAIN cases' = DOMAIN cases /\ cases' \in Seq(CaseRows)
      /\ \A l \in DOMAIN cases : cases'[l].thread = cases[l].thread /\ cases'[l].topic = cases[l].topic
      /\ \A l \in DOMAIN cases : l # k => cases'[l] = cases[l]
  BY <1>2, <1>3, <1>4 DEF row
<1>6. \A l \in DOMAIN cases : Active(l)' => Active(l)
  BY <1>2, <1>5 DEF Active
<1>7. CasesStay /\ Onward
  BY <1>2, <1>5 DEF CasesStay, Onward
<1>8. Tables'
  BY <1>2, <1>5 DEF AInv, Tables
<1>9. Stored'
  BY <1>2, <1>7, StoredStays DEF AInv, Live
<1>10. ASSUME NEW i \in Tasks PROVE Execution(i)' /\ Closed(runs'[i]) /\ Told(i)' /\ Reviewed(i)' /\ Holds(i)'
  <2>1. Execution(i)' /\ Closed(runs'[i]) /\ Told(i)' /\ Reviewed(i)'
    BY <1>2, <1>7, AboutOne, Bystander DEF CasesStay, AInv
  <2>2. Holds(i) /\ tasks'[i] = tasks[i]
    BY <1>2, AboutOne
  <2>3. Matching(tasks[i].thread, tasks[i].topic)' \subseteq Matching(tasks[i].thread, tasks[i].topic)
    BY <1>5, <1>6, <2>2 DEF Matching
  <2>4. Holds(i)'
    BY <1>5, <2>2, <2>3 DEF Holds
  <2> QED BY <2>1, <2>4
<1>11. Written'
  BY <1>2, <1>7, WrittenStays DEF AInv
<1>12. Distinct'
  BY <1>5, <1>6 DEF AInv, Distinct
<1>13. OneHolder'
  BY <1>2 DEF AInv, OneHolder
<1> QED BY <1>8, <1>9, <1>10, <1>11, <1>12, <1>13 DEF AInv, Executions

-----------------------------------------------------------------------------
(* Requests. *)

(* A store that has lost, of what the old one had, only what is not under way.*)
Thinned(entries) ==
    /\ entries \in Seq(Entries) /\ Unique(entries)
    /\ \A a \in DOMAIN entries : \E b \in DOMAIN store : entries[a] = store[b]
    /\ \A b \in DOMAIN store : Live(store[b].task) => \E a \in DOMAIN entries : entries[a] = store[b]

(* Without the entry of an execution that is over it is one.                  *)
LEMMA ThinnedWithout ==
    ASSUME AInv, NEW k \in DOMAIN store, ~Live(store[k].task)
    PROVE  Thinned(RemoveAt(store, k))
<1> DEFINE r == RemoveAt(store, k)
<1>1. store \in Seq(Entries) /\ Unique(store)
  BY DEF AInv, Tables, Stored
<1>2. r \in Seq(Entries) /\ Unique(r)
  BY <1>1, Removed, UniqueWithout
<1>3. /\ \A a \in DOMAIN r : \E b \in DOMAIN store : b # k /\ r[a] = store[b]
      /\ \A b \in DOMAIN store : b # k => \E a \in DOMAIN r : r[a] = store[b]
  BY <1>1, Others
<1> HIDE DEF r
<1>4. Thinned(r)
  BY <1>2, <1>3 DEF Thinned
<1> QED BY <1>4 DEF r

(* As it is, it is one.                                                       *)
LEMMA ThinnedByNothing ==
    ASSUME AInv
    PROVE  Thinned(store)
BY DEF AInv, Tables, Stored, Thinned

(* A step that thins the store, or puts its entries into another order, and   *)
(* does nothing else.                                                         *)
LEMMA ThinningStep ==
    ASSUME AInv, UNCHANGED <<threads, tasks, runs, cases>>, Thinned(store')
    PROVE  AInv'
<1>1. Tables'
  BY DEF AInv, Tables, Thinned
<1>2. Stored'
  <2>1. \A a \in DOMAIN store' : tasks'[store'[a].task].pc # "unused" /\ tasks'[store'[a].task].req.key = store'[a].key
    BY DEF AInv, Stored, Thinned
  <2>2. \A i \in Tasks : Live(i)' => \E a \in DOMAIN store' : store'[a].task = i
    BY DEF AInv, Stored, Thinned, Live
  <2> QED BY <2>1, <2>2 DEF Stored, Thinned
<1>3. ASSUME NEW i \in Tasks PROVE Execution(i)' /\ Closed(runs'[i]) /\ Told(i)' /\ Reviewed(i)' /\ Holds(i)'
  <2>1. Execution(i)' /\ Closed(runs'[i]) /\ Told(i)' /\ Reviewed(i)'
    BY AboutOne, Bystander DEF AInv
  <2>2. Holds(i)'
    BY AboutOne DEF Holds, Matching, Active
  <2> QED BY <2>1, <2>2
<1>4. Written'
  BY WrittenStays DEF AInv, Onward
<1>5. Distinct' /\ OneHolder'
  BY DEF AInv, Distinct, Active, OneHolder
<1> QED BY <1>1, <1>2, <1>3, <1>4, <1>5 DEF AInv, Executions

(* An equal request joins: its entry is the most recent now.                  *)
LEMMA JoinStep ==
    ASSUME AInv, NEW q \in Requests, Join(q)
    PROVE  AInv'
<1>1. PICK k \in DOMAIN store : store' = Append(RemoveAt(store, k), store[k])
  BY DEF Join, EntriesOf
<1> DEFINE r == RemoveAt(store, k)
           n == Len(r)
<1>2. store \in Seq(Entries) /\ Unique(store) /\ store[k] \in Entries
  BY DEF AInv, Tables, Stored
<1>3. r \in Seq(Entries) /\ Unique(r)
  BY <1>2, Removed, UniqueWithout
<1>4. /\ \A a \in DOMAIN r : \E b \in DOMAIN store : b # k /\ r[a] = store[b]
      /\ \A b \in DOMAIN store : b # k => \E a \in DOMAIN r : r[a] = store[b]
  BY <1>2, Others
<1> HIDE DEF r
<1>5. \A a \in DOMAIN r : r[a].key # store[k].key
  BY <1>2, <1>4 DEF Unique
<1>6. Unique(Append(r, store[k]))
  BY <1>2, <1>3, <1>5, UniqueWith
<1>7. /\ store' = Append(r, store[k]) /\ store' \in Seq(Entries)
      /\ DOMAIN store' = 1..(n + 1) /\ DOMAIN r = 1..n /\ n \in Nat
      /\ \A a \in 1..n : store'[a] = r[a]
      /\ store'[n + 1] = store[k]
  BY <1>1, <1>2, <1>3 DEF r
<1> HIDE DEF n
<1>8. \A a \in DOMAIN store' : \E b \in DOMAIN store : store'[a] = store[b]
  <2> SUFFICES ASSUME NEW a \in 1..(n + 1) PROVE \E b \in DOMAIN store : store'[a] = store[b]
    BY <1>7
  <2>1. CASE a = n + 1
    BY <1>7, <2>1
  <2>2. CASE a # n + 1
    <3>1. a \in DOMAIN r /\ store'[a] = r[a]
      BY <1>7, <2>2
    <3> QED BY <1>4, <3>1
  <2> QED BY <2>1, <2>2
<1>9. \A b \in DOMAIN store : \E a \in DOMAIN store' : store'[a] = store[b]
  <2> SUFFICES ASSUME NEW b \in DOMAIN store PROVE \E a \in DOMAIN store' : store'[a] = store[b]
    OBVIOUS
  <2>1. CASE b = k
    BY <1>7, <2>1
  <2>2. CASE b # k
    <3>1. PICK a \in DOMAIN r : r[a] = store[b]
      BY <1>4, <2>2
    <3>2. a \in DOMAIN store' /\ store'[a] = r[a]
      BY <1>7
    <3> QED BY <3>1, <3>2
  <2> QED BY <2>1, <2>2
<1>10. Thinned(store')
  BY <1>6, <1>7, <1>8, <1>9 DEF Thinned
<1> QED BY <1>10, ThinningStep DEF Join

(* A waiter of a failed execution forgets its entry.                          *)
LEMMA AnsweredStep ==
    ASSUME AInv, NEW i \in Tasks, Answered(i)
    PROVE  AInv'
<1> DEFINE own == {k \in EntriesOf(tasks[i].req) : store[k].task = i}
<1>1. CASE tasks[i].pc = "failed" /\ own # {}
  <2>1. own \subseteq 1..Len(store) /\ Len(store) \in Nat
    BY DEF EntriesOf, AInv, Tables
  <2>2. Min(own) \in own
    <3> HIDE DEF own
    <3> QED BY <1>1, <2>1, MinIn
  <2>3. Min(own) \in DOMAIN store /\ ~Live(store[Min(own)].task)
    BY <1>1, <2>2 DEF EntriesOf, Live
  <2>4. store' = RemoveAt(store, Min(own))
    BY <1>1 DEF Answered, Forgets
  <2> HIDE DEF own
  <2>5. Thinned(store')
    BY <2>3, <2>4, ThinnedWithout
  <2> QED BY <2>5, ThinningStep DEF Answered
<1>2. CASE ~(tasks[i].pc = "failed" /\ own # {})
  <2>1. store' = store
    BY <1>2 DEF Answered, Forgets
  <2>2. Thinned(store')
    BY <2>1, ThinnedByNothing
  <2> QED BY <2>2, ThinningStep DEF Answered
<1> QED BY <1>1, <1>2

(* Room is made only of what is over.                                         *)
LEMMA ThinnedByEviction ==
    ASSUME AInv
    PROVE  Thinned(Evicted(store))
<1> DEFINE done == {k \in DOMAIN store : Finished(store[k].task)}
<1>1. CASE Len(store) < MaxEntries \/ done = {}
  <2>1. Evicted(store) = store
    BY <1>1 DEF Evicted
  <2> QED BY <2>1, ThinnedByNothing
<1>2. CASE ~(Len(store) < MaxEntries \/ done = {})
  <2>1. done \subseteq 1..Len(store) /\ Len(store) \in Nat
    BY DEF AInv, Tables
  <2>2. Min(done) \in done
    <3> HIDE DEF done
    <3> QED BY <1>2, <2>1, MinIn
  <2>3. Min(done) \in DOMAIN store /\ ~Live(store[Min(done)].task)
    BY <2>2 DEF Finished, Live
  <2>4. Evicted(store) = RemoveAt(store, Min(done))
    BY <1>2 DEF Evicted
  <2> HIDE DEF done
  <2> QED BY <2>3, <2>4, ThinnedWithout
<1> QED BY <1>1, <1>2

(* A new key starts an execution.                                             *)
LEMMA ExecuteStep ==
    ASSUME AInv, NEW q \in Requests, Execute(q)
    PROVE  AInv'
<1> USE AboutOne
<1>1. PICK i \in Tasks :
        /\ tasks[i].pc = "unused"
        /\ store' = Append(Evicted(store), [key |-> q.key, payload |-> q.payload, task |-> i])
        /\ tasks' = [tasks EXCEPT ![i] = [Unused EXCEPT !.pc = "queued", !.req = q]]
  BY DEF Execute
<1> DEFINE kept == Evicted(store)
           entry == [key |-> q.key, payload |-> q.payload, task |-> i]
           new == [Unused EXCEPT !.pc = "queued", !.req = q]
           n == Len(kept)
<1>2. EntriesOf(q) = {} /\ UNCHANGED <<threads, runs, cases>> /\ store \in Seq(Entries)
  BY DEF Execute, AInv, Tables
<1>3. Thinned(kept)
  BY ThinnedByEviction
<1>4. new \in TaskRecords /\ new.pc = "queued" /\ new.req = q
  <2>1. new = [pc |-> "queued", req |-> q, thread |-> None, result |-> None, topic |-> None, found |-> 0]
    <3> DEFINE first == [Unused EXCEPT !.pc = "queued"]
    <3>1. first = [pc |-> "queued", req |-> None, thread |-> None, result |-> None, topic |-> None, found |-> 0]
      BY DEF Unused
    <3>2. new = [first EXCEPT !.req = q]
      OBVIOUS
    <3> HIDE DEF first, new
    <3> QED BY <3>1, <3>2
  <2> HIDE DEF new
  <2> QED BY <2>1 DEF TaskRecords, Pcs
<1> HIDE DEF kept, new
<1>5. tasks' = [tasks EXCEPT ![i] = new] /\ store' = Append(kept, entry)
  BY <1>1 DEF new, kept
<1>6. /\ tasks' \in [Tasks -> TaskRecords] /\ tasks'[i] = new
      /\ \A j \in Tasks \ {i} : tasks'[j] = tasks[j]
      /\ Onward
  BY <1>1, <1>4, <1>5 DEF Onward
<1>7. entry \in Entries
  BY DEF Entries
<1>8. kept \in Seq(Entries) /\ Unique(kept) /\ \A a \in DOMAIN kept : \E b \in DOMAIN store : kept[a] = store[b]
  BY <1>3 DEF Thinned
<1>9. \A a \in DOMAIN kept : kept[a].key # entry.key
  BY <1>2, <1>8 DEF EntriesOf
<1>10. entry.task = i /\ entry.key = q.key
  OBVIOUS
<1> HIDE DEF entry
<1>11. Unique(store')
  BY <1>5, <1>7, <1>8, <1>9, UniqueWith
<1>12. /\ store' \in Seq(Entries) /\ DOMAIN store' = 1..(n + 1) /\ DOMAIN kept = 1..n /\ n \in Nat
       /\ \A a \in 1..n : store'[a] = kept[a]
       /\ store'[n + 1] = entry
  BY <1>5, <1>7, <1>8
<1> HIDE DEF n
<1>13. Tables'
  BY <1>2, <1>6, <1>12 DEF AInv, Tables
<1>14. Stored'
  <2>1. ASSUME NEW a \in 1..(n + 1)
        PROVE  tasks'[store'[a].task].pc # "unused" /\ tasks'[store'[a].task].req.key = store'[a].key
    <3>1. CASE a = n + 1
      BY <1>4, <1>6, <1>10, <1>12, <3>1
    <3>2. CASE a # n + 1
      <4>1. PICK b \in DOMAIN store : store'[a] = store[b]
        <5>1. a \in DOMAIN kept /\ store'[a] = kept[a]
          BY <1>12, <3>2
        <5> QED BY <1>8, <5>1
      <4>2. store[b].task \in Tasks
        <5>1. store[b] \in Entries
          BY <1>2
        <5> QED BY <5>1 DEF Entries
      <4>3. tasks[store[b].task].pc # "unused" /\ tasks[store[b].task].req.key = store[b].key
        BY DEF AInv, Stored
      <4> QED BY <1>6, <4>1, <4>2, <4>3 DEF Onward
    <3> QED BY <3>1, <3>2
  <2>2. ASSUME NEW j \in Tasks, Live(j)' PROVE \E a \in DOMAIN store' : store'[a].task = j
    <3>1. CASE j = i
      BY <1>10, <1>12, <3>1
    <3>2. CASE j # i
      <4>1. Live(j)
        BY <1>6, <2>2, <3>2 DEF Live
      <4>2. PICK b \in DOMAIN store : store[b].task = j
        BY <4>1 DEF AInv, Stored
      <4>3. PICK a \in DOMAIN kept : kept[a] = store[b]
        BY <1>3, <4>1, <4>2 DEF Thinned
      <4>4. a \in DOMAIN store' /\ store'[a] = kept[a]
        BY <1>12
      <4> QED BY <4>2, <4>3, <4>4
    <3> QED BY <3>1, <3>2
  <2> QED BY <1>11, <1>12, <2>1, <2>2 DEF Stored
<1>15. ASSUME NEW j \in Tasks PROVE Execution(j)' /\ Closed(runs'[j]) /\ Told(j)' /\ Reviewed(j)' /\ Holds(j)'
  <2>1. CASE j # i
    <3>1. Execution(j)' /\ Closed(runs'[j]) /\ Told(j)' /\ Reviewed(j)'
      BY <1>2, <1>6, <2>1, Bystander DEF AInv
    <3>2. Holds(j)'
      <4>1. Holds(j)
        OBVIOUS
      <4> QED BY <1>2, <1>6, <2>1, <4>1 DEF Holds, Matching, Active
    <3> QED BY <3>1, <3>2
  <2>2. CASE j = i
    <3>1. runs[i] = NoRun /\ runs'[i] = NoRun
      BY <1>1, <1>2 DEF Execution
    <3>2. runs'[i].outcome = None /\ runs'[i].status = None
      BY <3>1 DEF NoRun
    <3>3. Execution(i)'
      BY <1>4, <1>6, <3>1, <3>2 DEF Execution
    <3>4. Closed(runs'[i])
      BY <1>2
    <3>5. Told(i)' /\ Reviewed(i)' /\ Holds(i)'
      BY <1>4, <1>6, <3>2, ApiAssumption DEF Told, Reviewed, Holds
    <3> QED BY <2>2, <3>3, <3>4, <3>5
  <2> QED BY <2>1, <2>2
<1>16. Written'
  BY <1>2, <1>6, WrittenStays DEF AInv
<1>17. Distinct'
  BY <1>2 DEF AInv, Distinct, Active
<1>18. OneHolder'
  BY <1>4, <1>6 DEF AInv, OneHolder
<1> QED BY <1>13, <1>14, <1>15, <1>16, <1>17, <1>18 DEF AInv, Executions

(* The process dies: what was under way has failed, and only rows remain.     *)
LEMMA CrashStep ==
    ASSUME AInv, Crash
    PROVE  AInv'
<1> USE AboutOne
<1>1. /\ tasks' = [i \in Tasks |-> IF Live(i) THEN Failing(tasks[i]) ELSE tasks[i]]
      /\ store' = <<>> /\ UNCHANGED <<threads, runs, cases>>
  BY DEF Crash
<1>2. ASSUME NEW i \in Tasks
      PROVE  /\ tasks'[i] \in TaskRecords /\ tasks'[i].pc \in {"unused", "done", "failed"}
             /\ tasks'[i].req = tasks[i].req /\ tasks'[i].thread = tasks[i].thread
             /\ \/ tasks'[i].pc = "failed" /\ tasks'[i].topic = None
                \/ tasks'[i] = tasks[i]
             /\ tasks[i].pc = "unused" <=> tasks'[i].pc = "unused"
  <2>1. CASE Live(i)
    <3>1. tasks'[i] = Failing(tasks[i]) /\ tasks[i].pc # "unused"
      BY <1>1, <2>1 DEF Live
    <3> DEFINE raised == Failing(tasks[i])
    <3>2. /\ raised \in TaskRecords /\ raised.pc = "failed" /\ raised.topic = None
          /\ raised.req = tasks[i].req /\ raised.thread = tasks[i].thread
      BY DEF TaskRecords, Failing, Pcs
    <3> HIDE DEF raised
    <3>3. tasks'[i] = raised
      BY <3>1 DEF raised
    <3> QED BY <3>1, <3>2, <3>3
  <2>2. CASE ~Live(i)
    <3>1. tasks'[i] = tasks[i] /\ tasks[i].pc \in {"unused", "done", "failed"}
      BY <1>1, <2>2 DEF Live
    <3> QED BY <3>1
  <2> QED BY <2>1, <2>2
<1>3. tasks' \in [Tasks -> TaskRecords]
  <2> DEFINE gone(i) == IF Live(i) THEN Failing(tasks[i]) ELSE tasks[i]
  <2>1. tasks' = [i \in Tasks |-> gone(i)]
    BY <1>1
  <2> HIDE DEF gone
  <2>2. \A i \in Tasks : gone(i) \in TaskRecords
    BY <1>2, <2>1
  <2> QED BY <2>1, <2>2
<1>4. Onward
  BY <1>2 DEF Onward
<1>5. Tables'
  BY <1>1, <1>3 DEF AInv, Tables
<1>6. Stored'
  <2>1. DOMAIN store' = {}
    BY <1>1
  <2>2. \A i \in Tasks : ~Live(i)'
    BY <1>2 DEF Live
  <2>3. Unique(store')
    BY <2>1 DEF Unique
  <2> QED BY <2>1, <2>2, <2>3 DEF Stored
<1>7. ASSUME NEW i \in Tasks PROVE Execution(i)' /\ Closed(runs'[i]) /\ Told(i)' /\ Reviewed(i)' /\ Holds(i)'
  <2>1. Execution(i) /\ Closed(runs[i]) /\ Told(i) /\ Reviewed(i)
    OBVIOUS
  <2>2. Execution(i)' /\ Reviewed(i)' /\ Holds(i)'
    BY <1>1, <1>2, <2>1 DEF Execution, Reviewed, Holds
  <2>3. Told(i)'
    <3>1. Reply(i)' = Reply(i) /\ Spoken(i)' = Spoken(i)
      BY <1>2 DEF Reply, Spoken, MessageId
    <3> QED BY <1>1, <1>2, <2>1, <3>1 DEF Told
  <2> QED BY <1>1, <2>1, <2>2, <2>3
<1>8. Written'
  BY <1>1, <1>4, WrittenStays DEF AInv
<1>9. Distinct'
  BY <1>1 DEF AInv, Distinct, Active
<1>10. OneHolder'
  BY <1>2 DEF OneHolder
<1> QED BY <1>5, <1>6, <1>7, <1>8, <1>9, <1>10 DEF AInv, Executions

(* What residents and operators do to threads says nothing.                   *)
LEMMA LifecycleStep ==
    ASSUME AInv, NEW t \in Threads, NEW from, NEW to \in {"ACTIVE", "ARCHIVED", "DELETED"},
           SetLifecycle(t, from, to), UNCHANGED <<tasks, runs, cases, store>>
    PROVE  AInv'
<1>1. threads \in [Threads -> ThreadRows]
  BY DEF AInv, Tables
<1> DEFINE row == threads[t]
           next == row.version + 1
           new == [[row EXCEPT !.status = to] EXCEPT !.version = next]
<1>2. row \in ThreadRows
  BY <1>1
<1>3. next \in Nat
  BY <1>2 DEF ThreadRows
<1>4. threads' = [threads EXCEPT ![t] = [[threads[t] EXCEPT !.status = to] EXCEPT !.version = threads[t].version + 1]]
  BY <1>1 DEF SetLifecycle
<1>5. threads' = [threads EXCEPT ![t] = new]
  BY <1>4
<1> HIDE DEF next, row
<1>6. new \in ThreadRows /\ new.messages = row.messages
  BY <1>2, <1>3 DEF ThreadRows
<1> HIDE DEF new
<1>7. threads' \in [Threads -> ThreadRows] /\ \A u \in Threads : threads'[u].messages = threads[u].messages
  BY <1>1, <1>5, <1>6 DEF row
<1> QED BY <1>7, IdleStep

-----------------------------------------------------------------------------
(* All steps. *)

(* A step of an execution, of its run or of what is left of either.           *)
LEMMA TurnStep ==
    ASSUME AInv, NEW i \in Tasks, Turn(i)
    PROVE  AInv'
<1>1. CASE CreateThread(i) \/ RequireActive(i)
  BY <1>1, CreateThreadStep, RequireActiveStep
<1>2. CASE StartTrace(i) \/ StartFails(i) \/ StartRefused(i)
  BY <1>2, StartTraceStep, StartFailsStep, StartRefusedStep
<1>3. CASE TraceNode(i) \/ Project(i) \/ EndTurn(i)
  BY <1>3, TraceNodeStep, ProjectStep, EndTurnStep
<1>4. CASE PersistFails(i) \/ ResponseFails(i)
  BY <1>4, FailsStep
<1>5. CASE BeginEscalation(i) \/ CommitEscalation(i)
  BY <1>5, BeginEscalationStep, CommitEscalationStep
<1>6. CASE FinalizeRun(i) \/ FinalizeAgain(i)
  BY <1>6, FinalizeRunStep, FinalizeAgainStep
<1>7. CASE Respond(i) \/ Sweep(i)
  BY <1>7, RespondStep, SweepStep
<1> QED BY <1>1, <1>2, <1>3, <1>4, <1>5, <1>6, <1>7 DEF Turn

(* Steps of connections, subscribers, residents and operators that leave      *)
(* executions alone.                                                          *)
LEMMA OtherStep ==
    ASSUME AInv,
           \/ \E i \in Tasks : Disconnect(i)
           \/ Subscribe \/ Take \/ Unsubscribe
           \/ \E t \in Threads : ArchiveOrRestore(t) \/ CheckDelete(t)
           \/ CommitDelete \/ RefuseDelete
           \/ UNCHANGED vars
    PROVE  AInv'
<1>1. threads \in [Threads -> ThreadRows]
  BY DEF AInv, Tables
<1>2. ASSUME NEW i \in Tasks, Disconnect(i) PROVE AInv'
  BY <1>1, <1>2, IdleStep DEF Disconnect
<1>3. CASE Subscribe \/ Take \/ Unsubscribe
  BY <1>1, <1>3, IdleStep DEF Subscribe, Take, Unsubscribe
<1>4. ASSUME NEW t \in Threads, ArchiveOrRestore(t) PROVE AInv'
  BY <1>4, LifecycleStep DEF ArchiveOrRestore
<1>5. ASSUME NEW t \in Threads, CheckDelete(t) PROVE AInv'
  BY <1>1, <1>5, IdleStep DEF CheckDelete
<1>6. CASE CommitDelete
  <2>1. CASE deleting.thread \in Threads
    BY <1>6, <2>1, LifecycleStep DEF CommitDelete
  <2>2. CASE deleting.thread \notin Threads
    <3>1. threads' = threads
      BY <1>1, <1>6, <2>2 DEF CommitDelete, SetLifecycle
    <3> QED BY <1>1, <1>6, <3>1, IdleStep DEF CommitDelete
  <2> QED BY <2>1, <2>2
<1>7. CASE RefuseDelete
  BY <1>1, <1>7, IdleStep DEF RefuseDelete
<1>8. CASE UNCHANGED vars
  BY <1>1, <1>8, IdleStep DEF vars
<1> QED BY <1>2, <1>3, <1>4, <1>5, <1>6, <1>7, <1>8

(* The invariant holds at the start: nothing has been asked or written.       *)
LEMMA StartsRight == Init => AInv
<1> SUFFICES ASSUME Init PROVE AInv
  OBVIOUS
<1>1. tasks = [i \in Tasks |-> Unused] /\ runs = [i \in Tasks |-> NoRun] /\ cases = <<>> /\ store = <<>>
  BY DEF Init
<1>2. Unused \in TaskRecords /\ Unused.pc = "unused"
  BY DEF Unused, TaskRecords, Pcs
<1>3. NoRun \in RunRows /\ NoRun.outcome = None /\ NoRun.status = None /\ NoRun.trace = <<>>
  BY DEF NoRun, RunRows
<1>4. threads \in [Threads -> ThreadRows] /\ \A t \in Threads : threads[t].messages = <<>>
  BY DEF Init, ThreadRows
<1>5. Tables
  BY <1>1, <1>2, <1>3, <1>4 DEF Tables
<1>6. Stored
  BY <1>1, <1>2 DEF Stored, Unique, Live
<1>7. Ends(NoRun.trace) = {}
  BY <1>3 DEF Ends
<1>8. Closed(NoRun)
  BY <1>3, <1>7 DEF Closed
<1>9. ASSUME NEW i \in Tasks PROVE Execution(i) /\ Closed(runs[i]) /\ Told(i) /\ Reviewed(i) /\ Holds(i)
  <2>1. tasks[i].pc = "unused" /\ runs[i] = NoRun
    BY <1>1, <1>2
  <2>2. Execution(i)
    BY <1>3, <2>1 DEF Execution
  <2>3. Told(i) /\ Reviewed(i) /\ Holds(i)
    BY <1>3, <2>1, ApiAssumption DEF Told, Reviewed, Holds
  <2> QED BY <1>8, <2>1, <2>2, <2>3
<1>10. Written
  BY <1>4 DEF Written
<1>11. Distinct
  BY <1>1 DEF Distinct
<1>12. OneHolder
  BY <1>1, <1>2 DEF OneHolder
<1> QED BY <1>5, <1>6, <1>9, <1>10, <1>11, <1>12 DEF AInv, Executions

(* Every step keeps it.                                                       *)
LEMMA KeptByEveryStep == AInv /\ [Next]_vars => AInv'
<1> SUFFICES ASSUME AInv, [Next]_vars PROVE AInv'
  OBVIOUS
<1>1. ASSUME NEW q \in Requests, Join(q) \/ Execute(q) PROVE AInv'
  BY <1>1, JoinStep, ExecuteStep
<1>2. ASSUME NEW i \in Tasks, Answered(i) PROVE AInv'
  BY <1>2, AnsweredStep
<1>3. ASSUME NEW i \in Tasks, Turn(i) PROVE AInv'
  BY <1>3, TurnStep
<1>4. ASSUME NEW k \in DOMAIN cases, Review(k) PROVE AInv'
  BY <1>4, ReviewStep
<1>5. CASE Crash
  BY <1>5, CrashStep
<1>6. CASE \/ \E i \in Tasks : Disconnect(i)
           \/ Subscribe \/ Take \/ Unsubscribe
           \/ \E t \in Threads : ArchiveOrRestore(t) \/ CheckDelete(t)
           \/ CommitDelete \/ RefuseDelete
           \/ UNCHANGED vars
  BY <1>6, OtherStep
<1> QED BY <1>1, <1>2, <1>3, <1>4, <1>5, <1>6 DEF Next

(* The invariant of the resident API.                                         *)
THEOREM Inductive == Spec => []AInv
<1>1. Init => AInv
  BY StartsRight
<1>2. AInv /\ [Next]_vars => AInv'
  BY KeptByEveryStep
<1> QED BY <1>1, <1>2, PTL DEF Spec

(* An execution that is under way is in the store under its key, and a key    *)
(* has no second one under way: eviction drops only what is over, and a       *)
(* waiter forgets only the entry of the execution it waited for.              *)
THEOREM OneExecutionPerKeyHolds == Spec => []OneExecutionPerKey
<1>1. AInv => OneExecutionPerKey
  <2> SUFFICES ASSUME AInv, NEW i \in Tasks, Live(i)
               PROVE  /\ \E k \in DOMAIN store : store[k].task = i /\ store[k].key = tasks[i].req.key
                      /\ \A j \in Tasks : Live(j) /\ tasks[j].req.key = tasks[i].req.key => j = i
    BY DEF OneExecutionPerKey
  <2>1. \A j \in Tasks : Live(j) =>
            \E k \in DOMAIN store : store[k].task = j /\ store[k].key = tasks[j].req.key
    BY DEF AInv, Stored
  <2>2. PICK k \in DOMAIN store : store[k].task = i /\ store[k].key = tasks[i].req.key
    BY <2>1
  <2>3. ASSUME NEW j \in Tasks, Live(j), tasks[j].req.key = tasks[i].req.key PROVE j = i
    <3>1. PICK l \in DOMAIN store : store[l].task = j /\ store[l].key = tasks[j].req.key
      BY <2>1, <2>3
    <3>2. l = k
      BY <2>2, <2>3, <3>1 DEF AInv, Stored, Unique
    <3> QED BY <2>2, <3>1, <3>2
  <2> QED BY <2>2, <2>3
<1> QED BY <1>1, Inductive, PTL

(* A run that is over has one lifecycle and one public terminal event, next   *)
(* to each other, with only audit events after them, and a run that is not    *)
(* has neither: whoever of the turn and the sweep ends it is the only one.    *)
THEOREM TraceClosedHolds == Spec => []TraceClosed
<1>1. AInv => TraceClosed
  BY DEF AInv, Executions, Closed, Ends, TraceClosed
<1> QED BY <1>1, Inductive, PTL

(* Every escalated run has a review case of its thread and topic, and no two  *)
(* active cases share one, although finalisations race.                       *)
THEOREM EscalationsReviewedHolds == Spec => []EscalationsReviewed
<1>1. AInv => EscalationsReviewed
  BY DEF AInv, Executions, Reviewed, Distinct, EscalationsReviewed
<1> QED BY <1>1, Inductive, PTL

-----------------------------------------------------------------------------
(* What is told. *)

(* A public outcome is never taken back or replaced.                          *)
LEMMA OutcomesStay ==
    ASSUME AInv, [Next]_vars, NEW i \in Tasks, runs[i].outcome # None
    PROVE  runs'[i].outcome = runs[i].outcome
<1> USE AboutOne
<1>1. CASE runs' = runs
  BY <1>1
<1>2. ASSUME NEW j \in Tasks, StartTrace(j) \/ StartFails(j) PROVE runs'[i].outcome = runs[i].outcome
  <2>1. runs[j] = NoRun
    BY <1>2 DEF StartTrace, StartFails, Execution
  <2>2. j # i
    BY <2>1 DEF NoRun
  <2> QED BY <1>2, <2>2 DEF StartTrace, StartFails
<1>3. ASSUME NEW j \in Tasks, NEW e, runs' = [runs EXCEPT ![j].trace = Append(@, e)]
      PROVE  runs'[i].outcome = runs[i].outcome
  <2>1. CASE j = i
    <3> DEFINE longer == Append(runs[i].trace, e)
    <3>1. runs'[i] = [runs[i] EXCEPT !.trace = longer]
      BY <1>3, <2>1
    <3> HIDE DEF longer
    <3> QED BY <3>1 DEF RunRows
  <2>2. CASE j # i
    BY <1>3, <2>2
  <2> QED BY <2>1, <2>2
<1>4. ASSUME NEW j \in Tasks, runs[j].outcome = None, NEW outcome, NEW case,
             runs' = [runs EXCEPT ![j] = Terminated(@, outcome, case)]
      PROVE  runs'[i].outcome = runs[i].outcome
  BY <1>4
<1>5. ASSUME NEW j \in Tasks, CommitEscalation(j) \/ FinalizeRun(j) \/ Sweep(j)
      PROVE  runs'[i].outcome = runs[i].outcome
  <2>1. runs[j].outcome = None
    BY <1>5, ApiAssumption DEF CommitEscalation, FinalizeRun, Sweep, Execution
  <2> QED BY <1>4, <1>5, <2>1 DEF CommitEscalation, FinalizeRun, Sweep, Finalized
<1>6. ASSUME NEW j \in Tasks, Turn(j) PROVE runs'[i].outcome = runs[i].outcome
  <2>1. CASE TraceNode(j) \/ Project(j)
    BY <1>1, <1>3, <2>1 DEF TraceNode, Project
  <2>2. CASE \/ CreateThread(j) \/ RequireActive(j) \/ StartRefused(j) \/ EndTurn(j) \/ PersistFails(j)
             \/ BeginEscalation(j) \/ FinalizeAgain(j) \/ Respond(j) \/ ResponseFails(j)
    BY <1>1, <2>2 DEF CreateThread, RequireActive, StartRefused, EndTurn, PersistFails, BeginEscalation,
                      FinalizeAgain, Respond, ResponseFails
  <2> QED BY <1>2, <1>5, <1>6, <2>1, <2>2 DEF Turn
<1>7. CASE ~\E j \in Tasks : Turn(j)
  BY <1>1, <1>7 DEF Next, vars, Join, Execute, Answered, Disconnect, Subscribe, Take, Unsubscribe, Review,
                    ArchiveOrRestore, CheckDelete, CommitDelete, RefuseDelete, Crash
<1> QED BY <1>6, <1>7

(* Offered an event, a queue holds nothing but what it held and this event.   *)
LEMMA OfferOffers ==
    ASSUME NEW queue \in Seq(Stream), NEW e \in Stream
    PROVE  /\ Offer(queue, e) \in Seq(Stream)
           /\ \A k \in DOMAIN Offer(queue, e) :
                Offer(queue, e)[k] = e \/ \E l \in DOMAIN queue : Offer(queue, e)[k] = queue[l]
<1> DEFINE old == Replaceable(queue, e.type)
           Within(q) == q \in Seq(Stream)
                        /\ \A k \in DOMAIN q : q[k] = e \/ \E l \in DOMAIN queue : q[k] = queue[l]
<1>1. Within(queue)
  OBVIOUS
<1>2. ASSUME NEW q, Within(q) PROVE Within(Append(q, e))
  <2> DEFINE w == Append(q, e)
  <2>1. /\ w \in Seq(Stream) /\ DOMAIN w = 1..(Len(q) + 1) /\ DOMAIN q = 1..Len(q) /\ Len(q) \in Nat
        /\ \A k \in 1..Len(q) : w[k] = q[k]
        /\ w[Len(q) + 1] = e
    BY <1>2
  <2> HIDE DEF w
  <2>2. ASSUME NEW k \in DOMAIN w PROVE w[k] = e \/ \E l \in DOMAIN queue : w[k] = queue[l]
    <3>1. CASE k = Len(q) + 1
      BY <2>1, <3>1
    <3>2. CASE k # Len(q) + 1
      <4>1. k \in DOMAIN q /\ w[k] = q[k]
        BY <2>1, <3>2
      <4> QED BY <1>2, <4>1
    <3> QED BY <3>1, <3>2
  <2>3. Within(w)
    BY <2>1, <2>2
  <2> QED BY <2>3 DEF w
<1>3. CASE Len(queue) < QueueSize
  <2>1. Offer(queue, e) = Append(queue, e)
    BY <1>3 DEF Offer
  <2> HIDE DEF Within
  <2>2. Within(Offer(queue, e))
    BY <1>1, <1>2, <2>1
  <2> QED BY <2>2 DEF Within
<1>4. CASE ~(Len(queue) < QueueSize) /\ old # {}
  <2>1. Offer(queue, e) = Append(RemoveAt(queue, Min(old)), e)
    BY <1>4 DEF Offer
  <2>2. old \subseteq 1..Len(queue) /\ Len(queue) \in Nat /\ old \subseteq DOMAIN queue
    BY DEF Replaceable
  <2>3. Min(old) \in DOMAIN queue
    <3>1. Min(old) \in old
      <4> HIDE DEF old
      <4> QED BY <1>4, <2>2, MinIn
    <3> HIDE DEF old
    <3> QED BY <2>2, <3>1
  <2> DEFINE r == RemoveAt(queue, Min(old))
  <2>4. r \in Seq(Stream) /\ \A a \in DOMAIN r : \E b \in DOMAIN queue : r[a] = queue[b]
    <3> HIDE DEF old
    <3> QED BY <2>3, Removed, Others
  <2> HIDE DEF r
  <2>5. Within(r)
    BY <2>4
  <2> HIDE DEF Within
  <2>6. Within(Offer(queue, e))
    BY <1>2, <2>1, <2>5 DEF r
  <2> QED BY <2>6 DEF Within
<1>5. CASE ~(Len(queue) < QueueSize) /\ old = {} /\ e.type \in TerminalTypes
  <2>1. Offer(queue, e) = Append(Tail(queue), e)
    BY <1>5 DEF Offer
  <2> DEFINE r == Tail(queue)
  <2>2. Len(queue) > 0
    BY <1>5, ApiAssumption
  <2>3. r \in Seq(Stream) /\ \A a \in DOMAIN r : a + 1 \in DOMAIN queue /\ r[a] = queue[a + 1]
    BY <2>2
  <2> HIDE DEF r
  <2>4. Within(r)
    BY <2>3
  <2> HIDE DEF Within
  <2>5. Within(Offer(queue, e))
    BY <1>2, <2>1, <2>4 DEF r
  <2> QED BY <2>5 DEF Within
<1>6. CASE ~(Len(queue) < QueueSize) /\ old = {} /\ e.type \notin TerminalTypes
  <2>1. Offer(queue, e) = queue
    BY <1>6 DEF Offer
  <2> HIDE DEF Within
  <2>2. Within(Offer(queue, e))
    BY <1>1, <2>1
  <2> QED BY <2>2 DEF Within
<1> QED BY <1>3, <1>4, <1>5, <1>6

(* A queue that tells no result a run has not stays one, offered an event     *)
(* that does not either.                                                      *)
LEMMA OfferTruthful ==
    ASSUME NEW queue, Truthful(queue), NEW e \in Stream,
           e.type \in TerminalTypes => runs[e.run].outcome = e.type
    PROVE  Truthful(Offer(queue, e))
<1> DEFINE w == Offer(queue, e)
<1>1. queue \in Seq(Stream)
  BY DEF Truthful
<1>2. /\ w \in Seq(Stream)
      /\ \A k \in DOMAIN w : w[k] = e \/ \E l \in DOMAIN queue : w[k] = queue[l]
  BY <1>1, OfferOffers
<1> HIDE DEF w
<1>3. Truthful(w)
  BY <1>2 DEF Truthful
<1> QED BY <1>3 DEF w

(* What the stream is sent is what the run's row says.                        *)
LEMMA StreamedStep ==
    ASSUME AInv, Streamed, [Next]_vars
    PROVE  Streamed'
<1> USE AboutOne
<1>1. ASSUME NEW queue, Truthful(queue) PROVE Truthful(queue)'
  <2>1. queue \in Seq(Stream)
    BY <1>1 DEF Truthful
  <2>2. ASSUME NEW k \in DOMAIN queue, queue[k].type \in TerminalTypes
        PROVE  runs'[queue[k].run].outcome = queue[k].type
    <3>1. queue[k].run \in Tasks
      <4>1. queue[k] \in Stream
        BY <2>1
      <4> QED BY <4>1 DEF Stream
    <3>2. runs[queue[k].run].outcome = queue[k].type
      BY <1>1, <2>2 DEF Truthful
    <3>3. runs[queue[k].run].outcome # None
      BY <2>2, <3>2, ApiAssumption DEF TerminalTypes
    <3> QED BY <3>1, <3>2, <3>3, OutcomesStay
  <2> QED BY <2>1, <2>2 DEF Truthful
<1>2. CASE subscriber' = subscriber
  BY <1>1, <1>2 DEF Streamed, Truthful
<1>3. CASE Subscribe
  BY <1>3 DEF Subscribe, Streamed, Truthful
<1>4. CASE Unsubscribe \/ Crash
  BY <1>4 DEF Unsubscribe, Crash, Streamed
<1>5. CASE Take
  <2> DEFINE w == Tail(subscriber)
  <2>1. subscriber # <<>> /\ subscriber \in Seq(Stream) /\ Truthful(subscriber)
    BY <1>5 DEF Take, Streamed, Truthful
  <2>2. w \in Seq(Stream) /\ \A a \in DOMAIN w : a + 1 \in DOMAIN subscriber /\ w[a] = subscriber[a + 1]
    BY <2>1
  <2> HIDE DEF w
  <2>3. Truthful(w)
    BY <2>1, <2>2 DEF Truthful
  <2>4. subscriber' = w /\ runs' = runs
    BY <1>5 DEF Take, w
  <2> QED BY <2>3, <2>4 DEF Streamed, Truthful
<1>6. ASSUME NEW i \in Tasks, StartTrace(i) PROVE Streamed'
  <2> DEFINE e == [type |-> "run_started", run |-> i]
             w == Offer(subscriber, e)
  <2>1. e \in Stream /\ e.type \notin TerminalTypes
    BY DEF Stream, TerminalTypes
  <2> HIDE DEF e
  <2>2. subscriber # None => Truthful(w)
    BY <2>1, OfferTruthful DEF Streamed
  <2>3. subscriber' = subscriber \/ (subscriber # None /\ subscriber' = w)
    BY <1>6 DEF StartTrace, Published, e
  <2> HIDE DEF w
  <2>4. CASE subscriber # None /\ subscriber' = w
    BY <1>1, <2>2, <2>4 DEF Streamed, Truthful
  <2> QED BY <1>2, <2>3, <2>4
<1>7. ASSUME NEW i \in Tasks, Respond(i) PROVE Streamed'
  <2> DEFINE outcome == Outcome(tasks[i].result)
             updated == Offer(subscriber, [type |-> "workflow_updated", run |-> i])
             spoken == Offer(updated, [type |-> "assistant_delta", run |-> i])
             w == Offer(spoken, [type |-> outcome, run |-> i])
  <2>1. tasks[i].result \in Results /\ runs[i].outcome = outcome /\ runs' = runs
    BY <1>7 DEF Respond, Execution
  <2>2. outcome \in TerminalTypes
    BY <2>1 DEF Results, Outcome, TerminalTypes
  <2>3. subscriber' = subscriber \/ (subscriber # None /\ subscriber' = w)
    BY <1>7 DEF Respond, Published, Announced
  <2> HIDE DEF outcome
  <2>4. ASSUME NEW type \in {"workflow_updated", "assistant_delta", outcome}
        PROVE  /\ [type |-> type, run |-> i] \in Stream
               /\ [type |-> type, run |-> i].type \in TerminalTypes =>
                    runs[[type |-> type, run |-> i].run].outcome = [type |-> type, run |-> i].type
    BY <2>1, <2>2, <2>4 DEF Stream, TerminalTypes
  <2> HIDE DEF updated, spoken, w
  <2>5. subscriber # None => Truthful(updated)
    BY <2>4, OfferTruthful DEF Streamed, updated
  <2>6. subscriber # None => Truthful(spoken)
    BY <2>4, <2>5, OfferTruthful DEF spoken
  <2>7. subscriber # None => Truthful(w)
    BY <2>4, <2>6, OfferTruthful DEF w
  <2>8. CASE subscriber # None /\ subscriber' = w
    BY <2>1, <2>7, <2>8 DEF Streamed, Truthful
  <2> QED BY <1>2, <2>3, <2>8
<1>8. CASE \/ \E q \in Requests : Join(q) \/ Execute(q)
           \/ \E i \in Tasks : Answered(i) \/ Disconnect(i)
           \/ \E k \in DOMAIN cases : Review(k)
           \/ \E t \in Threads : ArchiveOrRestore(t) \/ CheckDelete(t)
           \/ CommitDelete \/ RefuseDelete
           \/ UNCHANGED vars
  BY <1>2, <1>8 DEF vars, Join, Execute, Answered, Disconnect, Review, ArchiveOrRestore, CheckDelete,
                    CommitDelete, RefuseDelete
<1>9. ASSUME NEW i \in Tasks, Turn(i) PROVE Streamed'
  <2>1. CASE StartTrace(i) \/ Respond(i)
    BY <1>6, <1>7, <2>1
  <2>2. CASE ~(StartTrace(i) \/ Respond(i))
    BY <1>2, <1>9, <2>2 DEF Turn, CreateThread, RequireActive, StartFails, StartRefused, TraceNode, Project,
                            EndTurn, PersistFails, BeginEscalation, CommitEscalation, FinalizeRun, FinalizeAgain,
                            ResponseFails, Sweep
  <2> QED BY <2>1, <2>2
<1> QED BY <1>3, <1>4, <1>5, <1>8, <1>9 DEF Next

(* What HTTP answered is what the run's row says, also when the sweep came    *)
(* first; the reply is in the thread, and unless the answer is a failure so   *)
(* is what the resident said; and no queue of the stream holds a result that  *)
(* the run it is about has not.                                               *)
THEOREM ToldIsPersistedHolds == Spec => []ToldIsPersisted
<1>1. Init => Streamed
  BY DEF Init, Streamed, Truthful
<1>2. AInv /\ Streamed /\ [Next]_vars => Streamed'
  BY StreamedStep
<1>3. Spec => []Streamed
  BY <1>1, <1>2, Inductive, PTL DEF Spec
<1>4. AInv /\ Streamed => ToldIsPersisted
  <2> SUFFICES ASSUME AInv, Streamed PROVE ToldIsPersisted
    OBVIOUS
  <2>1. ASSUME NEW i \in Tasks, tasks[i].pc = "done"
        PROVE  /\ runs[i].outcome = Outcome(tasks[i].result)
               /\ Says(threads[tasks[i].thread].messages, Reply(i))
               /\ runs[i].outcome # "FAILED" /\ tasks[i].req.kind # "CHOICE" =>
                        Says(threads[tasks[i].thread].messages, Spoken(i))
    <3>1. runs[i].outcome = Outcome(tasks[i].result) /\ tasks[i].result \in Results
      BY <2>1, AboutOne DEF Execution
    <3>2. runs[i].outcome # None
      BY <3>1, ApiAssumption DEF Results, Outcome
    <3>3. Told(i)
      BY AboutOne
    <3> QED BY <3>1, <3>2, <3>3 DEF Told
  <2> QED BY <2>1 DEF ToldIsPersisted, Streamed, Truthful
<1> QED BY <1>3, <1>4, Inductive, PTL

-----------------------------------------------------------------------------
(* Deletion. *)

(* A deletion that has found its thread settled: the version it saw is not    *)
(* ahead of the thread's, and while the two are equal the thread says what it *)
(* said then, but for replies of runs that failed.                            *)
Rechecked ==
    deleting # None =>
        /\ deleting.thread \in Threads /\ deleting.version \in Nat
        /\ threads[deleting.thread].status # None
        /\ deleting.version =< threads[deleting.thread].version
        /\ threads[deleting.thread].version = deleting.version =>
            SaidBefore(threads[deleting.thread].messages)

(* What it takes to keep that, of a step that is not the deletion's own.      *)
LEMMA RecheckedStays ==
    ASSUME AInv, Rechecked, [Next]_vars, deleting' = deleting, deleting # None,
           NEW th \in Threads, th = deleting.thread,
           threads'[th].version \in Nat, threads'[th].status # None,
           \/ threads'[th].version > threads[th].version
           \/ /\ threads'[th].version = threads[th].version
              /\ \A k \in DOMAIN threads'[th].messages :
                    \/ \E l \in DOMAIN threads[th].messages : threads'[th].messages[k] = threads[th].messages[l]
                    \/ runs'[threads'[th].messages[k].run].outcome = "FAILED"
    PROVE  Rechecked'
<1>1. threads \in [Threads -> ThreadRows]
  BY DEF AInv, Tables
<1>2. threads[th].version \in Nat /\ threads[th].messages \in Seq(Messages)
  BY <1>1 DEF ThreadRows
<1>3. deleting.version \in Nat /\ deleting.version =< threads[th].version
  BY DEF Rechecked
<1>4. deleting'.version =< threads'[th].version
  BY <1>2, <1>3
<1>5. ASSUME threads'[th].version = deleting'.version, NEW k \in DOMAIN threads'[th].messages
      PROVE  \/ threads'[th].messages[k] \in ToSet(deleting'.messages)
             \/ runs'[threads'[th].messages[k].run].outcome = "FAILED"
  <2>1. threads[th].version = deleting.version /\ threads'[th].version = threads[th].version
    BY <1>2, <1>3, <1>5, SMTT(30)
  <2>2. ASSUME NEW l \in DOMAIN threads[th].messages, threads'[th].messages[k] = threads[th].messages[l]
        PROVE  \/ threads'[th].messages[k] \in ToSet(deleting'.messages)
               \/ runs'[threads'[th].messages[k].run].outcome = "FAILED"
    <3> DEFINE m == threads[th].messages[l]
    <3>1. m \in ToSet(deleting.messages) \/ runs[m.run].outcome = "FAILED"
      BY <2>1 DEF Rechecked, SaidBefore
    <3>2. m.run \in Tasks
      <4>1. m \in Messages
        BY <1>2
      <4> HIDE DEF m
      <4> QED BY <4>1 DEF Messages
    <3>3. runs[m.run].outcome = "FAILED" => runs'[m.run].outcome = "FAILED"
      <4> HIDE DEF m
      <4> QED BY <3>2, OutcomesStay, ApiAssumption
    <3> QED BY <2>2, <3>1, <3>3
  <2>3. ~(threads'[th].version > threads[th].version)
    BY <1>2, <2>1
  <2>4. \/ \E l \in DOMAIN threads[th].messages :
               threads'[th].messages[k] = threads[th].messages[l]
        \/ runs'[threads'[th].messages[k].run].outcome = "FAILED"
    BY <2>3, ZenonT(30)
  <2> QED BY <2>2, <2>4, ZenonT(30)
<1> QED BY <1>3, <1>4, <1>5 DEF Rechecked, SaidBefore

(* A finalisation moves the version of the thread it writes to, so a deletion *)
(* that looked before is refused.                                             *)
LEMMA FinalizedRechecked ==
    ASSUME AInv, Rechecked, [Next]_vars, deleting' = deleting, deleting # None,
           NEW j \in Tasks, tasks[j].pc \in {"ended", "locked"}, runs[j].outcome = None,
           NEW case \in Nat, Finalized(j, case)
    PROVE  Rechecked'
<1> DEFINE th == deleting.thread
<1>1. threads \in [Threads -> ThreadRows] /\ th \in Threads /\ threads[th].status # None
  BY DEF AInv, Tables, Rechecked
<1>2. threads' = [threads EXCEPT ![tasks[j].thread].messages = WithTurn(@, j),
                                 ![tasks[j].thread].version = @ + 1]
  BY DEF Finalized
<1>3. threads[th].version \in Nat /\ DOMAIN threads[th] = {"status", "version", "messages"}
  BY <1>1 DEF ThreadRows
<1>4. CASE tasks[j].thread = th
  <2> DEFINE said == WithTurn(threads[th].messages, j)
             next == threads[th].version + 1
  <2>1. threads' = [threads EXCEPT ![th] = [[threads[th] EXCEPT !.messages = said] EXCEPT !.version = next]]
    BY <1>1, <1>2, <1>4
  <2>2. next \in Nat /\ next > threads[th].version
    BY <1>3
  <2> HIDE DEF said, next
  <2>3. threads'[th].version = next /\ threads'[th].status # None
    BY <1>1, <1>3, <2>1
  <2> HIDE DEF th
  <2> QED BY <1>1, <2>2, <2>3, RecheckedStays DEF th
<1>5. CASE tasks[j].thread # th
  <2>1. threads'[th] = threads[th]
    BY <1>1, <1>2, <1>5
  <2> QED BY <1>1, <1>3, <2>1, RecheckedStays
<1> QED BY <1>4, <1>5

(* The sweep moves no version, but what it writes is the reply of a run that  *)
(* failed.                                                                    *)
LEMMA SweepRechecked ==
    ASSUME AInv, Rechecked, [Next]_vars, deleting' = deleting, deleting # None,
           NEW j \in Tasks, Sweep(j)
    PROVE  Rechecked'
<1> USE AboutOne
<1> DEFINE th == deleting.thread
<1>1. threads \in [Threads -> ThreadRows] /\ th \in Threads /\ threads[th].status # None
  BY DEF AInv, Tables, Rechecked
<1>2. threads[th].version \in Nat /\ threads[th].messages \in Seq(Messages)
  BY <1>1 DEF ThreadRows
<1>3. /\ threads' = [threads EXCEPT ![tasks[j].thread].messages = WithMessage(@, Reply(j))]
      /\ runs' = [runs EXCEPT ![j] = Terminated(runs[j], "FAILED", 0)]
  BY DEF Sweep
<1>4. CASE tasks[j].thread # th
  <2>1. threads'[th] = threads[th]
    BY <1>1, <1>3, <1>4
  <2> QED BY <1>1, <1>2, <2>1, RecheckedStays
<1>5. CASE tasks[j].thread = th
  <2> DEFINE said == WithMessage(threads[th].messages, Reply(j))
  <2>1. threads'[th].messages = said /\ threads'[th].version = threads[th].version
        /\ threads'[th].status = threads[th].status
    BY <1>1, <1>3, <1>5 DEF ThreadRows
  <2>2. runs'[j].outcome = "FAILED"
    <3> DEFINE new == Terminated(runs[j], "FAILED", 0)
    <3>1. runs[j].outcome = None
      BY ApiAssumption DEF Sweep, Execution
    <3>2. new.outcome = "FAILED"
      BY <3>1, Terminates DEF TerminalTypes
    <3> HIDE DEF new
    <3> QED BY <1>3, <3>2 DEF new
  <2>3. Reply(j) \in Messages /\ Reply(j).run = j
    <3>1. tasks[j].pc # "unused"
      BY ApiAssumption DEF Sweep, Execution, NoRun
    <3>2. tasks[j].req \in Requests
      BY <3>1 DEF Execution
    <3> QED BY <3>2, AreMessages DEF Reply
  <2>4. \A k \in DOMAIN said : (\E l \in DOMAIN threads[th].messages : said[k] = threads[th].messages[l])
                                \/ said[k] = Reply(j)
    BY <1>2, <2>3, MessageWritten
  <2> HIDE DEF said
  <2>5. \A k \in DOMAIN threads'[th].messages :
            \/ \E l \in DOMAIN threads[th].messages : threads'[th].messages[k] = threads[th].messages[l]
            \/ runs'[threads'[th].messages[k].run].outcome = "FAILED"
    BY <2>1, <2>2, <2>3, <2>4
  <2> HIDE DEF th
  <2> QED BY <1>1, <1>2, <2>1, <2>5, RecheckedStays DEF th
<1> QED BY <1>4, <1>5

(* An archived or restored thread has another version.                        *)
LEMMA LifecycleRechecked ==
    ASSUME AInv, Rechecked, [Next]_vars, deleting' = deleting, deleting # None,
           NEW t \in Threads, ArchiveOrRestore(t)
    PROVE  Rechecked'
<1> DEFINE th == deleting.thread
<1>1. threads \in [Threads -> ThreadRows] /\ th \in Threads /\ threads[th].status # None
  BY DEF AInv, Tables, Rechecked
<1>2. threads[th].version \in Nat /\ DOMAIN threads[th] = {"status", "version", "messages"}
  BY <1>1 DEF ThreadRows
<1>3. PICK to \in {"ACTIVE", "ARCHIVED"} :
        threads' = [threads EXCEPT ![t].status = to, ![t].version = @ + 1]
  BY DEF ArchiveOrRestore, SetLifecycle
<1>4. CASE t = th
  <2> DEFINE next == threads[th].version + 1
  <2>1. threads' = [threads EXCEPT ![th] = [[threads[th] EXCEPT !.status = to] EXCEPT !.version = next]]
    BY <1>1, <1>3, <1>4
  <2>2. next \in Nat /\ next > threads[th].version
    BY <1>2
  <2> HIDE DEF next
  <2>3. threads'[th].version = next /\ threads'[th].status = to
    BY <1>1, <1>2, <2>1
  <2>4. to # None
    BY ApiAssumption
  <2> HIDE DEF th
  <2> QED BY <1>1, <2>2, <2>3, <2>4, RecheckedStays DEF th
<1>5. CASE t # th
  <2>1. threads'[th] = threads[th]
    BY <1>1, <1>3, <1>5
  <2> QED BY <1>1, <1>2, <2>1, RecheckedStays
<1> QED BY <1>4, <1>5

(* Every step keeps it.                                                       *)
LEMMA RecheckedStep ==
    ASSUME AInv, Rechecked, [Next]_vars
    PROVE  Rechecked'
<1>1. threads \in [Threads -> ThreadRows]
  BY DEF AInv, Tables
<1>2. ASSUME threads' = threads, deleting' = deleting PROVE Rechecked'
  <2>1. CASE deleting = None
    BY <1>2, <2>1 DEF Rechecked
  <2>2. CASE deleting # None
    <3>1. deleting.thread \in Threads /\ threads[deleting.thread].status # None
      BY <2>2 DEF Rechecked
    <3>2. threads[deleting.thread].version \in Nat
      BY <1>1, <3>1 DEF ThreadRows
    <3> QED BY <1>2, <2>2, <3>1, <3>2, RecheckedStays
  <2> QED BY <2>1, <2>2
<1>3. CASE deleting' = None
  BY <1>3 DEF Rechecked
<1>4. ASSUME NEW t \in Threads, CheckDelete(t) PROVE Rechecked'
  <2>1. /\ deleting' = [thread |-> t, version |-> threads[t].version, messages |-> threads[t].messages]
        /\ threads' = threads /\ runs' = runs /\ threads[t].status = "ARCHIVED"
    BY <1>4 DEF CheckDelete
  <2>2. deleting'.thread = t /\ deleting'.version = threads[t].version /\ deleting'.messages = threads[t].messages
    BY <2>1
  <2>3. threads[t].version \in Nat /\ threads[t].status # None
    BY <1>1, <2>1, ApiAssumption DEF ThreadRows
  <2>4. \A k \in DOMAIN threads[t].messages : threads[t].messages[k] \in ToSet(deleting'.messages)
    BY <2>2 DEF ToSet
  <2> QED BY <2>1, <2>2, <2>3, <2>4 DEF Rechecked, SaidBefore
<1>5. ASSUME NEW i \in Tasks, Turn(i), deleting # None PROVE Rechecked'
  <2>1. deleting' = deleting
    BY <1>5 DEF Turn, CreateThread, RequireActive, StartTrace, StartFails, StartRefused, TraceNode, Project,
                EndTurn, PersistFails, BeginEscalation, CommitEscalation, FinalizeRun, FinalizeAgain, Respond,
                ResponseFails, Sweep
  <2>2. CASE CreateThread(i)
    <3>1. PICK t \in Threads : threads[t].status = None
                              /\ threads' = [threads EXCEPT ![t].status = "ACTIVE", ![t].version = 1]
      BY <2>2 DEF CreateThread
    <3>2. deleting.thread \in Threads /\ threads[deleting.thread].status # None
      BY <1>5 DEF Rechecked
    <3>3. threads'[deleting.thread] = threads[deleting.thread]
      BY <1>1, <3>1, <3>2
    <3>4. threads[deleting.thread].version \in Nat
      BY <1>1, <3>2 DEF ThreadRows
    <3> QED BY <1>5, <2>1, <3>2, <3>3, <3>4, RecheckedStays
  <2>3. CASE CommitEscalation(i)
    <3>1. tasks[i].pc = "locked" /\ runs[i].outcome = None /\ tasks[i].found \in Nat /\ Len(cases) + 1 \in Nat
      BY <2>3, AboutOne DEF CommitEscalation, Execution, TaskRecords, AInv, Tables
    <3>2. PICK case \in Nat : Finalized(i, case)
      BY <2>3, <3>1 DEF CommitEscalation
    <3> QED BY <1>5, <2>1, <3>1, <3>2, FinalizedRechecked
  <2>4. CASE FinalizeRun(i)
    BY <1>5, <2>1, <2>4, FinalizedRechecked DEF FinalizeRun
  <2>5. CASE Sweep(i)
    BY <1>5, <2>1, <2>5, SweepRechecked
  <2>6. CASE ~(CreateThread(i) \/ CommitEscalation(i) \/ FinalizeRun(i) \/ Sweep(i))
    <3>1. threads' = threads
      BY <1>5, <2>6 DEF Turn, RequireActive, StartTrace, StartFails, StartRefused, TraceNode, Project,
                EndTurn, PersistFails, BeginEscalation, FinalizeAgain, Respond, ResponseFails
    <3> QED BY <1>2, <2>1, <3>1
  <2> QED BY <2>2, <2>3, <2>4, <2>5, <2>6
<1>6. ASSUME NEW i \in Tasks, Turn(i), deleting = None PROVE Rechecked'
  BY <1>3, <1>6 DEF Turn, CreateThread, RequireActive, StartTrace, StartFails, StartRefused, TraceNode, Project,
                EndTurn, PersistFails, BeginEscalation, CommitEscalation, FinalizeRun, FinalizeAgain, Respond,
                ResponseFails, Sweep
<1>7. ASSUME NEW t \in Threads, ArchiveOrRestore(t) PROVE Rechecked'
  <2>1. deleting' = deleting
    BY <1>7 DEF ArchiveOrRestore
  <2>2. CASE deleting = None
    BY <1>3, <2>1, <2>2
  <2>3. CASE deleting # None
    BY <1>7, <2>1, <2>3, LifecycleRechecked
  <2> QED BY <2>2, <2>3
<1>8. CASE CommitDelete \/ RefuseDelete \/ Crash
  BY <1>3, <1>8 DEF CommitDelete, RefuseDelete, Crash
<1>9. CASE \/ \E q \in Requests : Join(q) \/ Execute(q)
           \/ \E i \in Tasks : Answered(i) \/ Disconnect(i)
           \/ Subscribe \/ Take \/ Unsubscribe
           \/ \E k \in DOMAIN cases : Review(k)
           \/ UNCHANGED vars
  BY <1>2, <1>9 DEF vars, Join, Execute, Answered, Disconnect, Subscribe, Take, Unsubscribe, Review
<1> QED BY <1>4, <1>5, <1>6, <1>7, <1>8, <1>9 DEF Next

(* Only the deletion that was checked deletes.                                *)
LEMMA OnlyCommitDeletes ==
    ASSUME AInv, [Next]_vars, NEW t \in Threads,
           threads[t].status # "DELETED", threads'[t].status = "DELETED"
    PROVE  CommitDelete /\ t = deleting.thread
<1>1. threads \in [Threads -> ThreadRows]
  BY DEF AInv, Tables
<1>2. DOMAIN threads[t] = {"status", "version", "messages"}
  BY <1>1 DEF ThreadRows
<1>3. threads' # threads
  OBVIOUS
<1>4. ASSUME NEW i \in Tasks, Turn(i) PROVE FALSE
  <2>1. CASE CreateThread(i)
    BY <1>1, <1>2, <2>1 DEF CreateThread
  <2>2. ASSUME NEW th, NEW said, threads' = [threads EXCEPT ![th].messages = said]
        PROVE FALSE
    BY <1>1, <1>2, <2>2
  <2>3. ASSUME NEW th, NEW said, NEW version,
               threads' = [threads EXCEPT ![th] = [[threads[th] EXCEPT !.messages = said] EXCEPT !.version = version]]
        PROVE FALSE
    BY <1>1, <1>2, <2>3
  <2>4. ASSUME NEW case, Finalized(i, case) PROVE FALSE
    <3> DEFINE th == tasks[i].thread
    <3>1. CASE th \in Threads
      <4>1. threads' = [threads EXCEPT ![th] = [[threads[th] EXCEPT !.messages = WithTurn(threads[th].messages, i)]
                                                    EXCEPT !.version = threads[th].version + 1]]
        BY <1>1, <2>4, <3>1 DEF Finalized
      <4> HIDE DEF th
      <4> QED BY <2>3, <4>1
    <3>2. CASE th \notin Threads
      <4>1. threads' = threads
        BY <1>1, <2>4, <3>2 DEF Finalized
      <4> QED BY <1>3, <4>1
    <3> QED BY <3>1, <3>2
  <2>5. CASE CommitEscalation(i) \/ FinalizeRun(i)
    BY <2>4, <2>5 DEF CommitEscalation, FinalizeRun
  <2>6. CASE Sweep(i)
    <3>1. threads' = [threads EXCEPT ![tasks[i].thread].messages = WithMessage(threads[tasks[i].thread].messages, Reply(i))]
      BY <2>6 DEF Sweep
    <3> QED BY <2>2, <3>1
  <2>7. CASE ~(CreateThread(i) \/ CommitEscalation(i) \/ FinalizeRun(i) \/ Sweep(i))
    BY <1>3, <1>4, <2>7 DEF Turn, RequireActive, StartTrace, StartFails, StartRefused, TraceNode, Project,
                EndTurn, PersistFails, BeginEscalation, FinalizeAgain, Respond, ResponseFails
  <2> QED BY <2>1, <2>5, <2>6, <2>7
<1>5. ASSUME NEW u \in Threads, NEW from, NEW to, SetLifecycle(u, from, to) PROVE u = t /\ to = "DELETED"
  <2> DEFINE next == threads[u].version + 1
  <2>1. threads' = [threads EXCEPT ![u] = [[threads[u] EXCEPT !.status = to] EXCEPT !.version = next]]
    BY <1>1, <1>5 DEF SetLifecycle
  <2> HIDE DEF next
  <2>2. u = t
    BY <1>1, <2>1
  <2> QED BY <1>1, <1>2, <2>1, <2>2
<1>6. ASSUME NEW u \in Threads, ArchiveOrRestore(u) PROVE FALSE
  BY <1>5, <1>6 DEF ArchiveOrRestore
<1>7. CASE CommitDelete
  <2>1. SetLifecycle(deleting.thread, "ARCHIVED", "DELETED")
    BY <1>7 DEF CommitDelete
  <2>2. CASE deleting.thread \in Threads
    BY <1>5, <1>7, <2>1, <2>2
  <2>3. CASE deleting.thread \notin Threads
    <3>1. threads' = threads
      BY <1>1, <2>1, <2>3 DEF SetLifecycle
    <3> QED BY <1>3, <3>1
  <2> QED BY <2>2, <2>3
<1>8. ASSUME \/ \E q \in Requests : Join(q) \/ Execute(q)
             \/ \E i \in Tasks : Answered(i) \/ Disconnect(i)
             \/ Subscribe \/ Take \/ Unsubscribe
             \/ \E k \in DOMAIN cases : Review(k)
             \/ \E u \in Threads : CheckDelete(u)
             \/ RefuseDelete \/ Crash
             \/ UNCHANGED vars
      PROVE  FALSE
  BY <1>3, <1>8 DEF vars, Join, Execute, Answered, Disconnect, Subscribe, Take, Unsubscribe, Review,
                    CheckDelete, RefuseDelete, Crash
<1> QED BY <1>4, <1>6, <1>7, <1>8 DEF Next

(* A thread is deleted as it was when its ticket was found settled: whatever  *)
(* result a run adds in between moves the version, and the sweep's replies,   *)
(* which do not, settle nothing.                                              *)
THEOREM DeletedAsCheckedHolds == Spec => DeletedAsChecked
<1> DEFINE Deletes == \A t \in Threads : threads[t].status # "DELETED" /\ threads'[t].status = "DELETED" =>
                        SaidBefore(threads[t].messages)
<1>1. Init => Rechecked
  BY DEF Init, Rechecked
<1>2. AInv /\ Rechecked /\ [Next]_vars => Rechecked'
  BY RecheckedStep
<1>3. Spec => []Rechecked
  BY <1>1, <1>2, Inductive, PTL DEF Spec
<1>4. AInv /\ Rechecked /\ [Next]_vars => Deletes
  <2> SUFFICES ASSUME AInv, Rechecked, [Next]_vars, NEW t \in Threads,
                      threads[t].status # "DELETED", threads'[t].status = "DELETED"
               PROVE  SaidBefore(threads[t].messages)
    OBVIOUS
  <2>1. CommitDelete /\ t = deleting.thread
    BY OnlyCommitDeletes
  <2> QED BY <2>1 DEF CommitDelete, Unmoved, Rechecked
<1>5. [Next]_vars /\ Deletes => [Deletes]_vars
  OBVIOUS
<1>6. AInv /\ Rechecked /\ [Next]_vars => [Deletes]_vars
  BY <1>4, <1>5
<1> HIDE DEF Deletes
<1>7. Spec => [][Deletes]_vars
  BY <1>3, <1>6, Inductive, PTL DEF Spec
<1> QED BY <1>7 DEF DeletedAsChecked, Deletes

-----------------------------------------------------------------------------
(* What a queue of the stream keeps. *)

(* StillFirst, by the positions of the next queue that these move to.         *)
Moves(to, positions, queue, next) ==
    /\ to \in [positions -> TerminalsOf(next)]
    /\ \A k \in positions : next[to[k]] = queue[k]
    /\ \A j, k \in positions : j < k => to[j] < to[k]
    /\ \A k \in positions, p \in TerminalsOf(next) : p < to[k] => \E j \in positions : to[j] = p

LEMMA StillByMoving ==
    ASSUME NEW positions, NEW queue, NEW next
    PROVE  StillFirst(positions, queue, next) <=> \E to : Moves(to, positions, queue, next)
BY DEF StillFirst, Moves

(* Terminal events are at positions.                                          *)
LEMMA TerminalPositions ==
    ASSUME NEW queue \in Seq(Stream)
    PROVE  TerminalsOf(queue) \subseteq DOMAIN queue /\ DOMAIN queue = 1..Len(queue) /\ Len(queue) \in Nat
           /\ TerminalsOf(queue) \subseteq Nat
BY DEF TerminalsOf

(* What moves from one queue to the next, and from there to a third, has      *)
(* moved to the third.                                                        *)
LEMMA StillThen ==
    ASSUME NEW queue \in Seq(Stream), NEW next \in Seq(Stream), NEW third \in Seq(Stream),
           NEW P \in SUBSET TerminalsOf(queue), NEW Q \in SUBSET TerminalsOf(next),
           NEW to, Moves(to, P, queue, next), StillFirst(Q, next, third)
    PROVE  StillFirst({k \in P : to[k] \in Q}, queue, third)
<1> DEFINE R == {k \in P : to[k] \in Q}
<1>1. PICK on : Moves(on, Q, next, third)
  BY StillByMoving
<1> DEFINE far == [k \in R |-> on[to[k]]]
<1>2. P \subseteq Nat /\ Q \subseteq Nat /\ TerminalsOf(next) \subseteq Nat /\ TerminalsOf(third) \subseteq Nat
  BY TerminalPositions
<1>3. /\ R \subseteq P
      /\ \A k \in R : to[k] \in Q /\ far[k] = on[to[k]]
      /\ \A k \in P : to[k] \in Q => k \in R
  OBVIOUS
<1>4. far \in [R -> TerminalsOf(third)]
  BY <1>1 DEF Moves
<1> HIDE DEF R, far
<1>5. \A k \in R : third[far[k]] = queue[k]
  BY <1>1, <1>3 DEF Moves
<1>6. \A j, k \in R : j < k => far[j] < far[k]
  BY <1>1, <1>3 DEF Moves
<1>7. ASSUME NEW k \in R, NEW p \in TerminalsOf(third), p < far[k]
      PROVE  \E j \in R : far[j] = p
  <2>1. PICK l \in Q : on[l] = p
    BY <1>1, <1>3, <1>7 DEF Moves
  <2>2. l < to[k]
    <3>1. to[k] \in Q /\ on[l] < on[to[k]]
      BY <1>3, <1>7, <2>1
    <3>2. l \in Nat /\ to[k] \in Nat /\ on[l] \in Nat /\ on[to[k]] \in Nat
      BY <1>1, <1>2, <3>1 DEF Moves
    <3>3. CASE to[k] < l
      <4>1. on[to[k]] < on[l]
        BY <1>1, <3>1, <3>3 DEF Moves
      <4> QED BY <3>1, <3>2, <4>1
    <3>4. CASE to[k] = l
      BY <3>1, <3>2, <3>4
    <3> QED BY <3>2, <3>3, <3>4
  <2>3. PICK j \in P : to[j] = l
    BY <1>3, <2>2 DEF Moves
  <2> QED BY <1>3, <2>1, <2>3
<1>8. Moves(far, R, queue, third)
  BY <1>4, <1>5, <1>6, <1>7 DEF Moves
<1> QED BY <1>8, StillByMoving DEF R

(* All of them, if all of them move on.                                       *)
LEMMA StillAfter ==
    ASSUME NEW queue \in Seq(Stream), NEW next \in Seq(Stream), NEW third \in Seq(Stream),
           NEW P \in SUBSET TerminalsOf(queue),
           StillFirst(P, queue, next), StillFirst(TerminalsOf(next), next, third)
    PROVE  StillFirst(P, queue, third)
<1>1. PICK to : Moves(to, P, queue, next)
  BY StillByMoving
<1>2. {k \in P : to[k] \in TerminalsOf(next)} = P
  BY <1>1 DEF Moves
<1> QED BY <1>1, <1>2, StillThen

(* A queue keeps what it has.                                                 *)
LEMMA StillItself ==
    ASSUME NEW queue \in Seq(Stream)
    PROVE  StillFirst(TerminalsOf(queue), queue, queue)
<1> DEFINE T == TerminalsOf(queue)
           to == [k \in T |-> k]
<1>1. T \subseteq Nat
  BY TerminalPositions
<1> HIDE DEF T
<1>2. to \in [T -> T] /\ \A k \in T : to[k] = k
  OBVIOUS
<1> HIDE DEF to
<1>3. Moves(to, T, queue, queue)
  BY <1>1, <1>2 DEF Moves, T
<1> QED BY <1>3, StillByMoving DEF T

(* Also when an event is added.                                               *)
LEMMA StillAppended ==
    ASSUME NEW queue \in Seq(Stream), NEW e \in Stream
    PROVE  StillFirst(TerminalsOf(queue), queue, Append(queue, e))
<1> DEFINE w == Append(queue, e)
           T == TerminalsOf(queue)
           to == [k \in T |-> k]
<1>1. /\ w \in Seq(Stream) /\ DOMAIN w = 1..(Len(queue) + 1) /\ DOMAIN queue = 1..Len(queue) /\ Len(queue) \in Nat
      /\ \A k \in 1..Len(queue) : w[k] = queue[k]
  OBVIOUS
<1> HIDE DEF w
<1>2. T \subseteq 1..Len(queue) /\ T \subseteq TerminalsOf(w)
  BY <1>1 DEF TerminalsOf
<1>3. ASSUME NEW k \in T, NEW p \in TerminalsOf(w), p < k PROVE p \in T
  <2>1. p \in DOMAIN queue /\ w[p] = queue[p]
    BY <1>1, <1>2, <1>3 DEF TerminalsOf
  <2> QED BY <2>1 DEF TerminalsOf
<1> HIDE DEF T
<1>4. to \in [T -> TerminalsOf(w)] /\ \A k \in T : to[k] = k
  BY <1>2
<1> HIDE DEF to
<1>5. Moves(to, T, queue, w)
  BY <1>1, <1>2, <1>3, <1>4 DEF Moves
<1> QED BY <1>5, StillByMoving DEF T, w

(* Or an event that is not terminal is taken out.                             *)
LEMMA StillWithout ==
    ASSUME NEW queue \in Seq(Stream), NEW i \in DOMAIN queue, queue[i].type \notin TerminalTypes
    PROVE  StillFirst(TerminalsOf(queue), queue, RemoveAt(queue, i))
<1> DEFINE w == RemoveAt(queue, i)
           T == TerminalsOf(queue)
           to == [k \in T |-> IF k < i THEN k ELSE k - 1]
<1>1. /\ w \in Seq(Stream) /\ Len(w) = Len(queue) - 1
      /\ \A k \in 1..(Len(queue) - 1) : w[k] = queue[IF k < i THEN k ELSE k + 1]
  BY Removed
<1> HIDE DEF w
<1>2. /\ DOMAIN w = 1..(Len(queue) - 1) /\ DOMAIN queue = 1..Len(queue) /\ Len(queue) \in Nat
      /\ i \in 1..Len(queue)
  BY <1>1
<1>3. T \subseteq 1..Len(queue) /\ i \notin T
  BY <1>2 DEF TerminalsOf
<1>4. ASSUME NEW k \in T
      PROVE  to[k] \in TerminalsOf(w) /\ w[to[k]] = queue[k]
  <2>1. queue[k].type \in TerminalTypes
    BY DEF TerminalsOf
  <2> HIDE DEF T
  <2>2. CASE k < i
    <3>1. to[k] = k /\ k \in DOMAIN w /\ w[k] = queue[k]
      BY <1>1, <1>2, <1>3, <2>2
    <3> QED BY <2>1, <3>1 DEF TerminalsOf
  <2>3. CASE ~(k < i)
    <3>1. k \in 1..Len(queue) /\ k # i
      BY <1>3
    <3>2. to[k] = k - 1 /\ k - 1 \in 1..(Len(queue) - 1) /\ ~(k - 1 < i) /\ (k - 1) + 1 = k
      BY <1>2, <2>3, <3>1
    <3>3. w[k - 1] = queue[k]
      BY <1>1, <3>2
    <3> QED BY <1>2, <2>1, <3>2, <3>3 DEF TerminalsOf
  <2> QED BY <2>2, <2>3
<1>5. ASSUME NEW j \in T, NEW k \in T, j < k PROVE to[j] < to[k]
  BY <1>2, <1>3, <1>5
<1>6. ASSUME NEW k \in T, NEW p \in TerminalsOf(w), p < to[k] PROVE \E j \in T : to[j] = p
  <2>1. p \in 1..(Len(queue) - 1) /\ w[p].type \in TerminalTypes
    BY <1>2 DEF TerminalsOf
  <2>2. CASE p < i
    <3>1. w[p] = queue[p] /\ p \in DOMAIN queue
      BY <1>1, <1>2, <2>1, <2>2
    <3>2. p \in T
      BY <2>1, <3>1 DEF TerminalsOf
    <3> QED BY <2>2, <3>2
  <2>3. CASE ~(p < i)
    <3>1. w[p] = queue[p + 1] /\ p + 1 \in DOMAIN queue
      BY <1>1, <1>2, <2>1, <2>3
    <3>2. p + 1 \in T
      BY <2>1, <3>1 DEF TerminalsOf
    <3>3. to[p + 1] = p
      <4> HIDE DEF T
      <4> QED BY <1>2, <2>1, <2>3, <3>2
    <3> QED BY <3>2, <3>3
  <2> QED BY <2>2, <2>3
<1>7. to \in [T -> TerminalsOf(w)]
  BY <1>4
<1> HIDE DEF to, T
<1>8. Moves(to, T, queue, w)
  BY <1>4, <1>5, <1>6, <1>7 DEF Moves
<1> QED BY <1>8, StillByMoving DEF T, w

(* When the first goes, the others stay.                                      *)
LEMMA StillTail ==
    ASSUME NEW queue \in Seq(Stream), queue # <<>>, TerminalsOf(queue) = DOMAIN queue
    PROVE  /\ StillFirst(TerminalsOf(queue) \ {1}, queue, Tail(queue))
           /\ TerminalsOf(Tail(queue)) = DOMAIN Tail(queue)
<1> DEFINE w == Tail(queue)
           n == Len(queue)
           T == 2..n
           to == [k \in T |-> k - 1]
<1>1. /\ w \in Seq(Stream) /\ DOMAIN w = 1..(n - 1) /\ DOMAIN queue = 1..n /\ n \in Nat \ {0}
      /\ \A k \in 1..(n - 1) : w[k] = queue[k + 1]
  OBVIOUS
<1> HIDE DEF w, n
<1>2. TerminalsOf(queue) \ {1} = T
  BY <1>1
<1>3. TerminalsOf(w) = DOMAIN w
  <2>1. \A k \in DOMAIN queue : queue[k].type \in TerminalTypes
    BY DEF TerminalsOf
  <2>2. \A k \in DOMAIN w : w[k] = queue[k + 1] /\ k + 1 \in DOMAIN queue
    BY <1>1
  <2> QED BY <2>1, <2>2 DEF TerminalsOf
<1>4. to \in [T -> TerminalsOf(w)]
  BY <1>1, <1>3
<1>5. \A k \in T : w[to[k]] = queue[k]
  BY <1>1
<1>6. \A j, k \in T : j < k => to[j] < to[k]
  OBVIOUS
<1>7. ASSUME NEW k \in T, NEW p \in TerminalsOf(w), p < to[k] PROVE \E j \in T : to[j] = p
  <2>1. p + 1 \in T /\ to[p + 1] = p
    BY <1>1, <1>3
  <2> QED BY <2>1
<1> HIDE DEF to, T
<1>8. Moves(to, T, queue, w)
  BY <1>4, <1>5, <1>6, <1>7 DEF Moves
<1> QED BY <1>2, <1>3, <1>8, StillByMoving DEF w

(* An event that is offered costs no terminal one its place, unless it is     *)
(* terminal itself and the queue is full of them: then the oldest goes.       *)
Displaced(queue, next) ==
    /\ queue # <<>> /\ TerminalsOf(queue) = DOMAIN queue
    /\ TerminalsOf(next) = DOMAIN next
    /\ StillFirst(TerminalsOf(queue) \ {1}, queue, next)

LEMMA OfferKeeps ==
    ASSUME NEW queue \in Seq(Stream), NEW e \in Stream
    PROVE  \/ StillFirst(TerminalsOf(queue), queue, Offer(queue, e))
           \/ e.type \in TerminalTypes /\ Displaced(queue, Offer(queue, e))
<1> DEFINE old == Replaceable(queue, e.type)
<1>1. CASE Len(queue) < QueueSize
  BY <1>1, StillAppended DEF Offer
<1>2. CASE ~(Len(queue) < QueueSize) /\ old # {}
  <2> DEFINE r == RemoveAt(queue, Min(old))
  <2>1. Offer(queue, e) = Append(r, e)
    BY <1>2 DEF Offer
  <2>2. old \subseteq 1..Len(queue) /\ Len(queue) \in Nat /\ old \subseteq DOMAIN queue
    BY DEF Replaceable
  <2>3. \A k \in old : queue[k].type \notin TerminalTypes
    BY DEF Replaceable, TerminalTypes
  <2>4. Min(old) \in old
    <3> HIDE DEF old
    <3> QED BY <1>2, <2>2, MinIn
  <2> HIDE DEF old
  <2>5. r \in Seq(Stream)
    BY <2>2, <2>4, Removed
  <2>6. StillFirst(TerminalsOf(queue), queue, r)
    BY <2>2, <2>3, <2>4, StillWithout
  <2> HIDE DEF r
  <2>7. Append(r, e) \in Seq(Stream)
    BY <2>5
  <2>8. StillFirst(TerminalsOf(r), r, Append(r, e))
    BY <2>5, StillAppended
  <2>9. StillFirst(TerminalsOf(queue), queue, Append(r, e))
    BY <2>5, <2>6, <2>7, <2>8, StillAfter
  <2> QED BY <2>1, <2>9
<1>3. CASE ~(Len(queue) < QueueSize) /\ old = {} /\ e.type \in TerminalTypes
  <2> DEFINE r == Tail(queue)
             w == Append(r, e)
  <2>1. Offer(queue, e) = w
    BY <1>3 DEF Offer
  <2>2. queue # <<>>
    BY <1>3, ApiAssumption
  <2>3. TerminalsOf(queue) = DOMAIN queue
    BY <1>3 DEF Replaceable, TerminalsOf, TerminalTypes
  <2>4. r \in Seq(Stream)
    BY <2>2
  <2>5. StillFirst(TerminalsOf(queue) \ {1}, queue, r) /\ TerminalsOf(r) = DOMAIN r
    BY <2>2, <2>3, StillTail
  <2> HIDE DEF r
  <2>6. w \in Seq(Stream) /\ StillFirst(TerminalsOf(r), r, w)
    BY <2>4, StillAppended
  <2>7. StillFirst(TerminalsOf(queue) \ {1}, queue, w)
    <3> HIDE DEF w
    <3> QED BY <2>4, <2>5, <2>6, StillAfter
  <2>8. TerminalsOf(w) = DOMAIN w
    <3>1. /\ DOMAIN w = 1..(Len(r) + 1) /\ DOMAIN r = 1..Len(r) /\ Len(r) \in Nat
          /\ \A k \in 1..Len(r) : w[k] = r[k]
          /\ w[Len(r) + 1] = e
      BY <2>4
    <3> HIDE DEF w
    <3>2. \A k \in DOMAIN r : r[k].type \in TerminalTypes
      BY <2>5 DEF TerminalsOf
    <3>3. ASSUME NEW k \in DOMAIN w PROVE w[k].type \in TerminalTypes
      <4>1. CASE k = Len(r) + 1
        BY <1>3, <3>1, <4>1
      <4>2. CASE k # Len(r) + 1
        <5>1. k \in DOMAIN r /\ w[k] = r[k]
          BY <3>1, <4>2
        <5> QED BY <3>2, <5>1
      <4> QED BY <4>1, <4>2
    <3> QED BY <3>3 DEF TerminalsOf
  <2> HIDE DEF w
  <2> QED BY <1>3, <2>1, <2>2, <2>3, <2>7, <2>8 DEF Displaced
<1>4. CASE ~(Len(queue) < QueueSize) /\ old = {} /\ e.type \notin TerminalTypes
  BY <1>4, StillItself DEF Offer
<1> QED BY <1>1, <1>2, <1>3, <1>4

(* A terminal event that is offered is the last of the queue.                 *)
LEMMA OfferHeard ==
    ASSUME NEW queue \in Seq(Stream), NEW e \in Stream, e.type \in TerminalTypes
    PROVE  Offer(queue, e) # <<>> /\ Last(Offer(queue, e)) = e
<1> DEFINE old == Replaceable(queue, e.type)
<1>1. ASSUME NEW q \in Seq(Stream) PROVE Append(q, e) # <<>> /\ Last(Append(q, e)) = e
  BY DEF Last
<1>2. CASE Len(queue) < QueueSize
  BY <1>1, <1>2 DEF Offer
<1>3. CASE ~(Len(queue) < QueueSize) /\ old # {}
  <2>1. Offer(queue, e) = Append(RemoveAt(queue, Min(old)), e)
    BY <1>3 DEF Offer
  <2>2. old \subseteq 1..Len(queue) /\ Len(queue) \in Nat /\ old \subseteq DOMAIN queue
    BY DEF Replaceable
  <2> HIDE DEF old
  <2>3. Min(old) \in old
    BY <1>3, <2>2, MinIn
  <2>4. RemoveAt(queue, Min(old)) \in Seq(Stream)
    BY <2>2, <2>3, Removed
  <2> QED BY <1>1, <2>1, <2>4
<1>4. CASE ~(Len(queue) < QueueSize) /\ old = {}
  <2>1. Offer(queue, e) = Append(Tail(queue), e)
    BY <1>4 DEF Offer
  <2>2. Tail(queue) \in Seq(Stream)
    BY <1>4, ApiAssumption
  <2> QED BY <1>1, <2>1, <2>2
<1> QED BY <1>2, <1>3, <1>4

(* When the queue that all of them had moved to gives up its first for        *)
(* another, it is the oldest of theirs that goes, or none of them.            *)
LEMMA KeptThenDisplaced ==
    ASSUME NEW queue \in Seq(Stream), NEW next \in Seq(Stream), NEW third \in Seq(Stream),
           StillFirst(TerminalsOf(queue), queue, next), Displaced(next, third)
    PROVE  Kept(queue, third)
<1> DEFINE T == TerminalsOf(queue)
           rest == TerminalsOf(next) \ {1}
<1>1. PICK to : Moves(to, T, queue, next)
  BY StillByMoving
<1>2. T \subseteq Nat /\ TerminalsOf(next) \subseteq Nat /\ 1 \in TerminalsOf(next)
      /\ \A p \in TerminalsOf(next) : 1 =< p
  BY TerminalPositions DEF Displaced
<1>3. StillFirst({k \in T : to[k] \in rest}, queue, third)
  BY <1>1, StillThen DEF Displaced
<1>4. \A k \in T : to[k] \in TerminalsOf(next)
  BY <1>1 DEF Moves
<1>5. CASE T = {}
  <2>1. {k \in T : to[k] \in rest} = T
    BY <1>5
  <2> QED BY <1>3, <2>1 DEF Kept
<1>6. CASE T # {}
  <2>1. PICK first \in T : to[first] = 1
    <3>1. PICK k \in T : TRUE
      BY <1>6
    <3>2. CASE to[k] = 1
      BY <3>2
    <3>3. CASE to[k] # 1
      <4>1. 1 < to[k]
        BY <1>2, <1>4, <3>3
      <4> QED BY <1>1, <1>2, <4>1 DEF Moves
    <3> QED BY <3>2, <3>3
  <2>2. ASSUME NEW k \in T PROVE first =< k
    <3>1. ~(k < first)
      <4> SUFFICES ASSUME k < first PROVE FALSE
        OBVIOUS
      <4>1. to[k] < to[first] /\ 1 =< to[k] /\ to[k] \in Nat
        BY <1>1, <1>2, <1>4 DEF Moves
      <4> QED BY <2>1, <4>1
    <3> QED BY <1>2, <3>1
  <2>3. ASSUME NEW k \in T, k # first PROVE to[k] # 1
    <3>1. first < k
      BY <1>2, <2>2, <2>3
    <3>2. to[first] < to[k]
      BY <1>1, <3>1 DEF Moves
    <3> QED BY <2>1, <3>2
  <2>4. {k \in T : to[k] \in rest} = T \ {first}
    BY <1>4, <2>1, <2>3
  <2> QED BY <1>3, <2>2, <2>4 DEF Kept, Displaced
<1> QED BY <1>5, <1>6

(* Only an answer makes a task done.                                          *)
LEMMA OnlyRespondFinishes ==
    ASSUME AInv, [Next]_vars, NEW i \in Tasks, tasks[i].pc # "done", tasks'[i].pc = "done"
    PROVE  Respond(i)
<1>1. tasks \in [Tasks -> TaskRecords]
  BY DEF AInv, Tables
<1>2. tasks' # tasks
  OBVIOUS
<1>3. ASSUME NEW q \in Requests, Execute(q) PROVE FALSE
  BY <1>1, <1>3 DEF Execute, Unused
<1>4. ASSUME NEW j \in Tasks, Turn(j), ~Respond(j) PROVE FALSE
  <2>1. CASE Project(j) \/ Sweep(j)
    BY <1>2, <2>1 DEF Project, Sweep
  <2>2. CASE CreateThread(j) \/ RequireActive(j) \/ StartTrace(j)
    BY <1>1, <2>2 DEF CreateThread, RequireActive, StartTrace, TaskRecords
  <2>3. CASE StartFails(j) \/ StartRefused(j) \/ PersistFails(j) \/ ResponseFails(j)
    BY <1>1, <2>3 DEF StartFails, StartRefused, PersistFails, ResponseFails, Failing, TaskRecords
  <2>4. CASE TraceNode(j)
    BY <1>1, <1>2, <2>4 DEF TraceNode, TaskRecords
  <2>5. CASE EndTurn(j)
    BY <1>1, <2>5 DEF EndTurn
  <2>6. CASE BeginEscalation(j)
    BY <1>1, <2>6 DEF BeginEscalation
  <2>7. CASE CommitEscalation(j) \/ FinalizeRun(j)
    BY <1>1, <2>7 DEF CommitEscalation, FinalizeRun, Finalized, TaskRecords
  <2>8. CASE FinalizeAgain(j)
    BY <1>1, <2>8 DEF FinalizeAgain, Failing
  <2> QED BY <1>4, <2>1, <2>2, <2>3, <2>4, <2>5, <2>6, <2>7, <2>8 DEF Turn
<1>5. ASSUME NEW j \in Tasks, Respond(j) PROVE j = i
  BY <1>1, <1>5 DEF Respond, Failing
<1>6. CASE Crash
  BY <1>1, <1>6 DEF Crash, Failing, TaskRecords
<1>7. ASSUME \/ \E q \in Requests : Join(q)
             \/ \E j \in Tasks : Answered(j) \/ Disconnect(j)
             \/ Subscribe \/ Take \/ Unsubscribe
             \/ \E k \in DOMAIN cases : Review(k)
             \/ \E t \in Threads : ArchiveOrRestore(t) \/ CheckDelete(t)
             \/ CommitDelete \/ RefuseDelete
             \/ UNCHANGED vars
      PROVE  FALSE
  BY <1>2, <1>7 DEF vars, Join, Answered, Disconnect, Subscribe, Take, Unsubscribe, Review, ArchiveOrRestore,
                    CheckDelete, CommitDelete, RefuseDelete
<1> QED BY <1>3, <1>4, <1>5, <1>6, <1>7 DEF Next

(* An answer's events push out no terminal event but the oldest, and that     *)
(* only for the answer's own; this is the last one.                           *)
LEMMA RespondKeeps ==
    ASSUME AInv, Streamed, subscriber # None, NEW i \in Tasks, Respond(i)
    PROVE  Kept(subscriber, subscriber') /\ (tasks'[i].pc = "done" /\ tasks[i].thread = Watched =>
                        subscriber' # <<>> /\ Last(subscriber') = [type |-> runs[i].outcome, run |-> i])
<1> USE AboutOne
<1> DEFINE told(type) == [type |-> type, run |-> i]
           outcome == Outcome(tasks[i].result)
           updated == Offer(subscriber, told("workflow_updated"))
           spoken == Offer(updated, told("assistant_delta"))
           w == Offer(spoken, told(outcome))
<1>1. subscriber \in Seq(Stream)
  BY DEF Streamed, Truthful
<1>2. tasks[i].result \in Results /\ runs[i].outcome = outcome
  BY DEF Respond, Execution
<1>3. outcome \in TerminalTypes
  BY <1>2 DEF Results, Outcome, TerminalTypes
<1>4. \/ subscriber' = subscriber /\ (tasks'[i].pc # "done" \/ tasks[i].thread # Watched)
      \/ subscriber' = w
  <2>1. tasks \in [Tasks -> TaskRecords]
    BY DEF AInv, Tables
  <2>2. Announced(i) = w
    BY DEF Announced
  <2> HIDE DEF w
  <2> QED BY <2>1, <2>2, ZenonT(60) DEF Respond, Published, Failing, TaskRecords
<1> HIDE DEF outcome
<1>5. \A type \in {"workflow_updated", "assistant_delta", outcome} : told(type) \in Stream /\ told(type).type = type
  BY <1>3 DEF Stream
<1>6. "workflow_updated" \notin TerminalTypes /\ "assistant_delta" \notin TerminalTypes
  BY DEF TerminalTypes
<1>7. told(outcome) = [type |-> runs[i].outcome, run |-> i]
  BY <1>2
<1> HIDE DEF told
<1>8. updated \in Seq(Stream) /\ StillFirst(TerminalsOf(subscriber), subscriber, updated)
  BY <1>1, <1>5, <1>6, OfferOffers, OfferKeeps
<1> HIDE DEF updated
<1>9. spoken \in Seq(Stream) /\ StillFirst(TerminalsOf(updated), updated, spoken)
  BY <1>5, <1>6, <1>8, OfferOffers, OfferKeeps
<1> HIDE DEF spoken
<1>10. StillFirst(TerminalsOf(subscriber), subscriber, spoken)
  BY <1>1, <1>8, <1>9, StillAfter
<1>11. /\ w \in Seq(Stream)
       /\ StillFirst(TerminalsOf(spoken), spoken, w) \/ Displaced(spoken, w)
  BY <1>5, <1>9, OfferOffers, OfferKeeps
<1>12. w # <<>> /\ Last(w) = told(outcome)
  BY <1>3, <1>5, <1>9, OfferHeard
<1> HIDE DEF w
<1>13. Kept(subscriber, w)
  <2>1. CASE StillFirst(TerminalsOf(spoken), spoken, w)
    BY <1>1, <1>9, <1>10, <1>11, <2>1, StillAfter DEF Kept
  <2>2. CASE Displaced(spoken, w)
    BY <1>1, <1>9, <1>10, <1>11, <2>2, KeptThenDisplaced
  <2> QED BY <1>11, <2>1, <2>2
<1>14. CASE subscriber' = w
  BY <1>7, <1>12, <1>13, <1>14 DEF Kept
<1>15. CASE subscriber' = subscriber /\ (tasks'[i].pc # "done" \/ tasks[i].thread # Watched)
  BY <1>1, <1>15, StillItself DEF Kept
<1> QED BY <1>4, <1>14, <1>15

(* Terminal events survive everything but being taken and, when nothing else  *)
(* is left to drop, a newer one: the oldest goes, the others keep their       *)
(* order, and the run that is answered in this step is the last thing the     *)
(* queue tells.                                                               *)
THEOREM TerminalEventsKeptHolds == Spec => TerminalEventsKept
<1> DEFINE Keeps == subscriber # None /\ subscriber' # None /\ (subscriber = <<>> \/ subscriber' # Tail(subscriber))
                        => Kept(subscriber, subscriber') /\ Heard
<1>1. Init => Streamed
  BY DEF Init, Streamed, Truthful
<1>2. AInv /\ Streamed /\ [Next]_vars => Streamed'
  BY StreamedStep
<1>3. Spec => []Streamed
  BY <1>1, <1>2, Inductive, PTL DEF Spec
<1>4. AInv /\ Streamed /\ [Next]_vars => Keeps
  <2> SUFFICES ASSUME AInv, Streamed, [Next]_vars, subscriber # None, subscriber' # None,
                      subscriber = <<>> \/ subscriber' # Tail(subscriber)
               PROVE  Kept(subscriber, subscriber') /\ Heard
    OBVIOUS
  <2>1. subscriber \in Seq(Stream)
    BY DEF Streamed, Truthful
  <2>2. CASE \E i \in Tasks : Respond(i)
    <3>1. PICK i \in Tasks : Respond(i)
      BY <2>2
    <3>2. ASSUME NEW j \in Tasks, tasks[j].pc # "done", tasks'[j].pc = "done" PROVE j = i
      <4>1. Respond(j)
        BY <3>2, OnlyRespondFinishes
      <4>2. tasks \in [Tasks -> TaskRecords]
        BY DEF AInv, Tables
      <4> QED BY <3>1, <3>2, <4>2 DEF Respond, Failing
    <3> QED BY <3>1, <3>2, RespondKeeps DEF Heard
  <2>3. CASE ~\E i \in Tasks : Respond(i)
    <3>1. Heard
      BY <2>3, OnlyRespondFinishes DEF Heard
    <3>2. subscriber' = subscriber \/ \E i \in Tasks : StartTrace(i)
      <4>1. ASSUME NEW i \in Tasks, Turn(i), ~StartTrace(i) PROVE subscriber' = subscriber
        BY <2>3, <4>1 DEF Turn, CreateThread, RequireActive, StartFails, StartRefused, TraceNode, Project,
                          EndTurn, PersistFails, BeginEscalation, CommitEscalation, FinalizeRun,
                          FinalizeAgain, ResponseFails, Sweep
      <4>2. ~Subscribe /\ ~Take /\ ~Unsubscribe /\ ~Crash
        BY DEF Subscribe, Take, Unsubscribe, Crash
      <4>3. CASE \/ \E q \in Requests : Join(q) \/ Execute(q)
                 \/ \E i \in Tasks : Answered(i) \/ Disconnect(i)
                 \/ \E k \in DOMAIN cases : Review(k)
                 \/ \E t \in Threads : ArchiveOrRestore(t) \/ CheckDelete(t)
                 \/ CommitDelete \/ RefuseDelete
                 \/ UNCHANGED vars
        BY <4>3 DEF vars, Join, Execute, Answered, Disconnect, Review, ArchiveOrRestore, CheckDelete,
                    CommitDelete, RefuseDelete
      <4> QED BY <4>1, <4>2, <4>3 DEF Next
    <3>3. ASSUME NEW i \in Tasks, StartTrace(i) PROVE Kept(subscriber, subscriber')
      <4> DEFINE e == [type |-> "run_started", run |-> i]
                 w == Offer(subscriber, e)
      <4>1. e \in Stream /\ e.type \notin TerminalTypes
        BY DEF Stream, TerminalTypes
      <4>2. subscriber' = subscriber \/ subscriber' = w
        BY <3>3 DEF StartTrace, Published
      <4> HIDE DEF e
      <4>3. StillFirst(TerminalsOf(subscriber), subscriber, w)
        BY <2>1, <4>1, OfferKeeps
      <4> HIDE DEF w
      <4> QED BY <2>1, <4>2, <4>3, StillItself DEF Kept
    <3>4. subscriber' = subscriber => Kept(subscriber, subscriber')
      BY <2>1, StillItself DEF Kept
    <3> QED BY <3>1, <3>2, <3>3, <3>4
  <2> QED BY <2>2, <2>3
<1>5. [Next]_vars /\ Keeps => [Keeps]_vars
  OBVIOUS
<1>6. AInv /\ Streamed /\ [Next]_vars => [Keeps]_vars
  BY <1>4, <1>5
<1> HIDE DEF Keeps
<1>7. Spec => [][Keeps]_vars
  BY <1>3, <1>6, Inductive, PTL DEF Spec
<1> QED BY <1>7 DEF TerminalEventsKept, Keeps

=============================================================================
