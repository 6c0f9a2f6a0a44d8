----------------------------- MODULE ResidentApi -----------------------------
(* The resident agent API of one process, and the rows that outlive it:       *)
(*                                                                            *)
(*   - api/services/idempotency.py coalesces equal HTTP mutations in memory;  *)
(*   - api/services/agent.py runs one turn per execution, from the trace of   *)
(*     its run to the HTTP answer;                                            *)
(*   - application/agent_reliability.py and its repository write the one      *)
(*     public result of a run, its messages and its human-review case, sweep  *)
(*     runs that stalled, and move threads and cases through their lives;     *)
(*   - trace/runtime.py keeps a run's event sequence;                         *)
(*   - api/services/sse.py offers events to a bounded queue.                  *)
(*                                                                            *)
(* The turn itself is AgentRuntime's: here it writes trace events, may open a *)
(* ticket and ends with a result.  A transaction is one step, except that a   *)
(* finalisation that escalates reads its review case in one step and commits  *)
(* in the next: it holds the run and the thread, but not the case.            *)
EXTENDS Integers, Sequences, FiniteSets, SequencesExt

CONSTANTS
    Threads,        \* thread ids
    Existing,       \* those that are registered, ACTIVE and empty at the start
    Connections,    \* how many requests the resident has open at a time, at most
    Requests,       \* [key, payload, kind, thread, mid]: key is (caller, scope, Idempotency-Key)
    Topics,         \* (intent version, failure stage) of an escalation
    MaxTasks,       \* bound: executions of requests
    MaxEntries,     \* the coalescing store's max_entries
    QueueSize,      \* the subscriber queue's size
    Watched,        \* the thread the event stream is about
    MaxNodes,       \* bound: node events per run
    None,           \* no value
    MaxEffort       \* bound: executions, failures and the moves of others, together

ASSUME ApiAssumption ==
    /\ MaxTasks \in Nat /\ Connections \in Nat /\ MaxEntries \in Nat \ {0} /\ QueueSize \in Nat \ {0}
    /\ MaxNodes \in Nat \ {0} /\ MaxEffort \in Nat
    /\ Existing \subseteq Threads /\ Watched \in Existing
    /\ \A q \in Requests : q.kind \in {"CREATE", "MESSAGE", "ANSWER", "CHOICE"}
    /\ \A q \in Requests : q.kind # "CREATE" => q.thread \in Threads
    /\ None \notin {"RUNNING", "OVER", "COMPLETED", "FAILED", "ESCALATED", "ACTIVE", "ARCHIVED", "DELETED"}

VARIABLES
    threads,      \* agent_thread_records: status, version, messages
    tasks,        \* the asyncio task that executes a request
    runs,         \* agent_runs with their trace, by the task that started them
    cases,        \* human_review_cases, in order of creation
    store,        \* ApiIdempotencyStore: least recently used first
    waiters,      \* how many connections wait for each task
    subscriber,   \* the queue of the event stream, if one is open
    deleting,     \* a delete_thread between its checks and its update
    moves         \* how many failures and moves of others there were

vars == <<threads, tasks, runs, cases, store, waiters, subscriber, deleting, moves>>

Tasks == 1..MaxTasks

(* _message_outcome; a refused resume is a FAILED run whose error is raised.  *)
Outcome(result) == IF result = "REFUSED" THEN "FAILED" ELSE result

Unused == [pc |-> "unused", req |-> None, thread |-> None, result |-> None, topic |-> None, found |-> 0]
NoRun == [status |-> None, outcome |-> None, case |-> 0, trace |-> <<>>]

Init ==
    /\ threads = [t \in Threads |->
            [status |-> IF t \in Existing THEN "ACTIVE" ELSE None,
             version |-> IF t \in Existing THEN 1 ELSE 0, messages |-> <<>>]]
    /\ tasks = [i \in Tasks |-> Unused]
    /\ runs = [i \in Tasks |-> NoRun]
    /\ cases = <<>> /\ store = <<>>
    /\ waiters = [i \in Tasks |-> 0]
    /\ subscriber = <<>> /\ deleting = None /\ moves = 0

(* An execution that raises keeps only what it was about.                     *)
Failing(task) == [task EXCEPT !.pc = "failed", !.result = None, !.topic = None, !.found = 0]

Live(i) == tasks[i].pc \notin {"unused", "done", "failed"}
Finished(i) == tasks[i].pc \in {"done", "failed"}
(* The row lock on the thread, held between the two halves of a finalisation. *)
Locked(t) == \E i \in Tasks : tasks[i].pc = "locked" /\ tasks[i].thread = t
Effort == Cardinality({i \in Tasks : tasks[i].pc # "unused"}) + moves
Move == Effort < MaxEffort /\ moves' = moves + 1

-----------------------------------------------------------------------------
(* ApiIdempotencyStore *)

(* _evict_completed makes room by dropping the oldest finished entry.         *)
Evicted(entries) ==
    LET done == {k \in DOMAIN entries : Finished(entries[k].task)}
    IN  IF Len(entries) < MaxEntries \/ done = {} THEN entries ELSE RemoveAt(entries, Min(done))

EntriesOf(q) == {k \in DOMAIN store : store[k].key = q.key}

Connected == MapThenSumSet(LAMBDA i : waiters[i], Tasks)

(* An equal request waits for the execution under way, or takes its answer.   *)
(* With another payload it is refused with 409, which changes nothing.        *)
Join(q) ==
    /\ Connected < Connections
    /\ \E k \in EntriesOf(q) :
        /\ store[k].payload = q.payload
        /\ store' = Append(RemoveAt(store, k), store[k])
        /\ waiters' = [waiters EXCEPT ![store[k].task] = @ + 1]
    /\ UNCHANGED <<threads, tasks, runs, cases, subscriber, deleting, moves>>

(* A new key starts an execution, if finished entries leave it room (or 503). *)
Execute(q) ==
    /\ Connected < Connections /\ EntriesOf(q) = {} /\ Effort < MaxEffort
    /\ \E i \in Tasks :
        /\ tasks[i].pc = "unused" /\ \A j \in 1..(i - 1) : tasks[j].pc # "unused"
        /\ Len(Evicted(store)) < MaxEntries
        /\ store' = Append(Evicted(store), [key |-> q.key, payload |-> q.payload, task |-> i])
        /\ tasks' = [tasks EXCEPT ![i] = [Unused EXCEPT !.pc = "queued", !.req = q]]
        /\ waiters' = [waiters EXCEPT ![i] = 1]
    /\ UNCHANGED <<threads, runs, cases, subscriber, deleting, moves>>

\* A plausible bug: a waiter drops whatever entry its key has by now.
ForgetsByKey(i) ==
    LET own == EntriesOf(tasks[i].req)
    IN  IF tasks[i].pc = "failed" /\ own # {} THEN RemoveAt(store, Min(own)) ELSE store

(* Every waiter of a failed execution drops the entry, if it is still its own. *)
Forgets(i) ==
    LET own == {k \in EntriesOf(tasks[i].req) : store[k].task = i}
    IN  IF tasks[i].pc = "failed" /\ own # {} THEN RemoveAt(store, Min(own)) ELSE store

Answered(i) ==
    /\ waiters[i] > 0 /\ Finished(i)
    /\ store' = Forgets(i)
    /\ waiters' = [waiters EXCEPT ![i] = @ - 1]
    /\ UNCHANGED <<threads, tasks, runs, cases, subscriber, deleting, moves>>

(* The connection is lost; the shielded execution goes on.                    *)
Disconnect(i) ==
    /\ waiters[i] > 0 /\ Live(i) /\ Move
    /\ waiters' = [waiters EXCEPT ![i] = @ - 1]
    /\ UNCHANGED <<threads, tasks, runs, cases, store, subscriber, deleting>>

-----------------------------------------------------------------------------
(* SSEEventBus *)

\* A plausible bug: the oldest event goes, whatever it is.
ReplaceableOldest(queue, type) == DOMAIN queue

TerminalTypes == {"COMPLETED", "FAILED", "ESCALATED"}
Replaceable(queue, type) ==
    IF type = "workflow_updated"
    THEN {k \in DOMAIN queue : queue[k].type = type}
    ELSE {k \in DOMAIN queue : queue[k].type \notin TerminalTypes}

(* _offer: a full queue gives up an event that is not terminal; only a        *)
(* terminal event may displace a terminal one, the oldest.                    *)
Offer(queue, event) ==
    LET old == Replaceable(queue, event.type)
    IN  IF Len(queue) < QueueSize THEN Append(queue, event)
        ELSE IF old # {} THEN Append(RemoveAt(queue, Min(old)), event)
        ELSE IF event.type \in TerminalTypes THEN Append(Tail(queue), event)
        ELSE queue

(* publish offers to the queues of the thread's subscribers; there is no      *)
(* suspension point between the events of one answer.                         *)
Published(t, queue) == IF subscriber = None \/ t # Watched THEN subscriber ELSE queue

Subscribe ==
    /\ subscriber = None /\ threads[Watched].status # None /\ Move
    /\ subscriber' = <<>>
    /\ UNCHANGED <<threads, tasks, runs, cases, store, waiters, deleting>>

Take ==
    /\ subscriber \notin {None, <<>>} /\ Move
    /\ subscriber' = Tail(subscriber)
    /\ UNCHANGED <<threads, tasks, runs, cases, store, waiters, deleting>>

Unsubscribe ==
    /\ subscriber # None /\ Move
    /\ subscriber' = None
    /\ UNCHANGED <<threads, tasks, runs, cases, store, waiters, deleting>>

-----------------------------------------------------------------------------
(* AgentApiService *)

(* register_thread commits before the run starts; a new thread id each time.  *)
CreateThread(i) ==
    /\ tasks[i].pc = "queued" /\ tasks[i].req.kind = "CREATE"
    /\ \E t \in Threads :
        /\ threads[t].status = None
        /\ threads' = [threads EXCEPT ![t].status = "ACTIVE", ![t].version = 1]
        /\ tasks' = [tasks EXCEPT ![i].pc = "checked", ![i].thread = t]
    /\ UNCHANGED <<runs, cases, store, waiters, subscriber, deleting, moves>>

(* require_active_thread, read without a lock.                                *)
RequireActive(i) ==
    /\ tasks[i].pc = "queued" /\ tasks[i].req.kind # "CREATE"
    /\ LET t == tasks[i].req.thread
       IN  tasks' = [tasks EXCEPT ![i].thread = t,
                        ![i].pc = IF threads[t].status = "ACTIVE" THEN "checked" ELSE "failed"]
    /\ UNCHANGED <<threads, runs, cases, store, waiters, subscriber, deleting, moves>>

Started == [NoRun EXCEPT !.status = "RUNNING", !.trace = <<"run_started">>]

(* A message's trace id is made of its thread and message id, and the column  *)
(* is unique: the message has had a run if any execution of it got that far.  *)
Taken(i) ==
    tasks[i].req.kind = "MESSAGE" /\ \E j \in Tasks \ {i} :
        /\ runs[j].status # None /\ tasks[j].req.kind = "MESSAGE"
        /\ tasks[j].thread = tasks[i].thread /\ tasks[j].req.mid = tasks[i].req.mid

(* start_run and api_request_accepted are two transactions.                   *)
StartTrace(i) ==
    /\ tasks[i].pc = "checked" /\ ~Taken(i)
    /\ runs' = [runs EXCEPT ![i] = [Started EXCEPT !.trace = Append(@, "control")]]
    /\ tasks' = [tasks EXCEPT ![i].pc = "turn"]
    /\ subscriber' = Published(tasks[i].thread, Offer(subscriber, [type |-> "run_started", run |-> i]))
    /\ UNCHANGED <<threads, cases, store, waiters, deleting, moves>>

(* Either may fail: 503, and after the first a RUNNING run is left behind.    *)
StartFails(i) ==
    /\ tasks[i].pc = "checked" /\ ~Taken(i) /\ Move
    /\ \/ runs' = [runs EXCEPT ![i] = Started]
       \/ runs' = runs
    /\ tasks' = [tasks EXCEPT ![i] = Failing(@)]
    /\ UNCHANGED <<threads, cases, store, waiters, subscriber, deleting>>

(* A message that has had a run is answered 503 "retryable" for ever.         *)
StartRefused(i) ==
    /\ tasks[i].pc = "checked" /\ Taken(i)
    /\ tasks' = [tasks EXCEPT ![i] = Failing(@)]
    /\ UNCHANGED <<threads, runs, cases, store, waiters, subscriber, deleting, moves>>

Count(trace, event) == Cardinality({k \in DOMAIN trace : trace[k] = event})

\* A plausible bug: events are appended to runs that are over.
TraceNodeUnfenced(i) ==
    /\ tasks[i].pc = "turn" /\ Count(runs[i].trace, "control") <= MaxNodes
    /\ runs' = [runs EXCEPT ![i].trace = Append(@, "control")]
    /\ UNCHANGED <<threads, tasks, cases, store, waiters, subscriber, deleting, moves>>

(* A graph node or MCP call writes its event; on a run that is over           *)
(* append_event refuses it, and the turn ends as an internal error.           *)
TraceNode(i) ==
    /\ tasks[i].pc = "turn" /\ Count(runs[i].trace, "control") <= MaxNodes
    /\ IF runs[i].status = "RUNNING"
       THEN runs' = [runs EXCEPT ![i].trace = Append(@, "control")] /\ tasks' = tasks
       ELSE tasks' = [tasks EXCEPT ![i].pc = "ended", ![i].result = "FAILED"] /\ runs' = runs
    /\ UNCHANGED <<threads, cases, store, waiters, subscriber, deleting, moves>>

Traced(i) == Count(runs[i].trace, "control") > 1

(* The outbox projector appends the event of a mutation this turn committed,  *)
(* even when the run is over.  Bound: one per run.                            *)
Project(i) ==
    /\ Traced(i) /\ Count(runs[i].trace, "domain") = 0 /\ Move
    /\ runs' = [runs EXCEPT ![i].trace = Append(@, "domain")]
    /\ UNCHANGED <<threads, tasks, cases, store, waiters, subscriber, deleting>>

(* An escalation is about the stage the turn failed at.                       *)
FailureStages(result) == IF result = "ESCALATED" THEN Topics ELSE {None}
(* The orchestrator's result, as _message_outcome classifies it.              *)
EndTurn(i) ==
    /\ tasks[i].pc = "turn"
    /\ \E result \in {"COMPLETED", "FAILED", "ESCALATED", "REFUSED"}, topic \in Topics \cup {None} :
        /\ result \in {"COMPLETED", "ESCALATED"} => Traced(i)
        /\ result = "REFUSED" => tasks[i].req.kind \in {"ANSWER", "CHOICE"}
        /\ topic \in FailureStages(result)
        /\ tasks' = [tasks EXCEPT ![i].pc = "ended", ![i].result = result, ![i].topic = topic]
    /\ UNCHANGED <<threads, runs, cases, store, waiters, subscriber, deleting, moves>>

(* _safe_state or the database fails before the result is committed.          *)
PersistFails(i) ==
    /\ tasks[i].pc \in {"ended", "locked"} /\ Move
    /\ tasks' = [tasks EXCEPT ![i] = Failing(@)]
    /\ UNCHANGED <<threads, runs, cases, store, waiters, subscriber, deleting>>

-----------------------------------------------------------------------------
(* SqlAlchemyAgentReliabilityRepository *)

Active(k) == cases[k].status \in {"OPEN", "CLAIMED"}
Matching(t, topic) == {k \in DOMAIN cases : cases[k].thread = t /\ cases[k].topic = topic /\ Active(k)}

(* The durable message's id: the request's own, or one made for this run.     *)
MessageId(i) ==
    IF tasks[i].req.kind = "MESSAGE" THEN <<"message", tasks[i].req.mid>> ELSE <<"run", i>>

(* _append_message: once per message id, and once per run and role.           *)
WithMessage(messages, m) ==
    IF \E k \in DOMAIN messages : \/ messages[k].id = m.id
                                  \/ messages[k].run = m.run /\ messages[k].role = m.role
    THEN messages ELSE Append(messages, m)

Reply(i) == [role |-> "ASSISTANT", run |-> i, id |-> <<"reply", i>>]
Spoken(i) == [role |-> "USER", run |-> i, id |-> MessageId(i)]

WithTurn(messages, i) ==
    WithMessage(IF tasks[i].req.kind = "CHOICE" THEN messages ELSE WithMessage(messages, Spoken(i)), Reply(i))

(* The public result, once: status, outcome, case and the two terminal events. *)
Terminated(run, outcome, case) ==
    [run EXCEPT !.status = "OVER", !.outcome = outcome, !.case = case,
                !.trace = @ \o <<"lifecycle", outcome>>]

\* A plausible bug: the thread is not locked before the active case is looked up.
BeginEscalationUnlocked(i) ==
    /\ tasks[i].pc = "ended" /\ tasks[i].result = "ESCALATED" /\ runs[i].outcome = None
    /\ LET known == Matching(tasks[i].thread, tasks[i].topic)
       IN  \E k \in IF known = {} THEN {0} ELSE known :
            tasks' = [tasks EXCEPT ![i].pc = "locked", ![i].found = k]
    /\ UNCHANGED <<threads, runs, cases, store, waiters, subscriber, deleting, moves>>

(* The half of an escalating finalisation that takes the locks and looks for  *)
(* the active case of its dedupe key.                                         *)
BeginEscalation(i) ==
    /\ tasks[i].pc = "ended" /\ tasks[i].result = "ESCALATED" /\ runs[i].outcome = None
    /\ ~Locked(tasks[i].thread)
    /\ LET known == Matching(tasks[i].thread, tasks[i].topic)
       IN  \E k \in IF known = {} THEN {0} ELSE known :
            tasks' = [tasks EXCEPT ![i].pc = "locked", ![i].found = k]
    /\ UNCHANGED <<threads, runs, cases, store, waiters, subscriber, deleting, moves>>

(* Messages, case, public result and trace commit together.                   *)
Finalized(i, case) ==
    /\ runs' = [runs EXCEPT ![i] = Terminated(@, Outcome(tasks[i].result), case)]
    /\ threads' = [threads EXCEPT ![tasks[i].thread].messages = WithTurn(@, i),
                                  ![tasks[i].thread].version = @ + 1]
    /\ tasks' = [tasks EXCEPT ![i].pc = "persisted", ![i].found = 0]

CommitEscalation(i) ==
    /\ tasks[i].pc = "locked"
    /\ IF tasks[i].found > 0
       THEN Finalized(i, tasks[i].found) /\ cases' = cases
       ELSE /\ Finalized(i, Len(cases) + 1)
            /\ cases' = Append(cases, [thread |-> tasks[i].thread, topic |-> tasks[i].topic,
                                       source |-> i, status |-> "OPEN", version |-> 1])
    /\ UNCHANGED <<store, waiters, subscriber, deleting, moves>>

FinalizeRun(i) ==
    /\ tasks[i].pc = "ended" /\ tasks[i].result # "ESCALATED" /\ runs[i].outcome = None
    /\ ~Locked(tasks[i].thread)
    /\ Finalized(i, 0)
    /\ UNCHANGED <<cases, store, waiters, subscriber, deleting, moves>>

\* A plausible bug: a run that has a public result accepts any other silently.
FinalizeAgainSilently(i) ==
    /\ tasks[i].pc = "ended" /\ runs[i].outcome # None /\ ~Locked(tasks[i].thread)
    /\ tasks' = [tasks EXCEPT ![i].pc = "persisted"]
    /\ UNCHANGED <<threads, runs, cases, store, waiters, subscriber, deleting, moves>>

(* The run already has a public result, the sweep's.  The same one is an      *)
(* answer; an escalation, retried once, falls back to FAILED, which is tried  *)
(* against it in turn; any other result is a conflict that is raised.         *)
FinalizeAgain(i) ==
    /\ tasks[i].pc = "ended" /\ runs[i].outcome # None /\ ~Locked(tasks[i].thread)
    /\ LET tells == IF tasks[i].result = "ESCALATED" THEN "FAILED" ELSE tasks[i].result
       IN  tasks' = [tasks EXCEPT ![i] =
                IF Outcome(tells) = runs[i].outcome
                THEN [@ EXCEPT !.pc = "persisted", !.result = tells, !.topic = None]
                ELSE Failing(@)]
    /\ UNCHANGED <<threads, runs, cases, store, waiters, subscriber, deleting, moves>>

(* A refused resume raises before it publishes, and a deleted thread's        *)
(* messages cannot be listed.                                                 *)
Raises(i) == tasks[i].result = "REFUSED" \/ threads[tasks[i].thread].status = "DELETED"

(* The events of an answer, in the order _publish_result publishes them.      *)
Announced(i) ==
    LET told(type) == [type |-> type, run |-> i]
        updated == Offer(subscriber, told("workflow_updated"))
    IN  Offer(Offer(updated, told("assistant_delta")), told(Outcome(tasks[i].result)))

(* _response and _publish_result, after the commit.                           *)
Respond(i) ==
    /\ tasks[i].pc = "persisted"
    /\ IF Raises(i)
       THEN tasks' = [tasks EXCEPT ![i] = Failing(@)] /\ subscriber' = subscriber
       ELSE /\ tasks' = [tasks EXCEPT ![i].pc = "done"]
            /\ subscriber' = Published(tasks[i].thread, Announced(i))
    /\ UNCHANGED <<threads, runs, cases, store, waiters, deleting, moves>>

(* A read that the answer needs fails.                                        *)
ResponseFails(i) ==
    /\ tasks[i].pc = "persisted" /\ Move
    /\ tasks' = [tasks EXCEPT ![i] = Failing(@)]
    /\ UNCHANGED <<threads, runs, cases, store, waiters, subscriber, deleting>>

\* A plausible bug: runs of threads that are not ACTIVE are not swept.
SweepActive(i) ==
    /\ runs[i].status = "RUNNING" /\ threads[tasks[i].thread].status = "ACTIVE"
    /\ tasks[i].pc # "locked" /\ ~Locked(tasks[i].thread)
    /\ runs' = [runs EXCEPT ![i] = Terminated(@, "FAILED", 0)]
    /\ threads' = [threads EXCEPT ![tasks[i].thread].messages = WithMessage(@, Reply(i))]
    /\ UNCHANGED <<tasks, cases, store, waiters, subscriber, deleting, moves>>

(* reconcile_stalled_runs: a run that is RUNNING past the threshold fails.    *)
(* Any turn may be that slow; a row that is locked is skipped.                *)
Sweep(i) ==
    /\ runs[i].status = "RUNNING"
    /\ tasks[i].pc # "locked" /\ ~Locked(tasks[i].thread)
    /\ runs' = [runs EXCEPT ![i] = Terminated(@, "FAILED", 0)]
    /\ threads' = [threads EXCEPT ![tasks[i].thread].messages = WithMessage(@, Reply(i))]
    /\ UNCHANGED <<tasks, cases, store, waiters, subscriber, deleting, moves>>

(* transition_human_review by an operator.                                    *)
Review(k) ==
    /\ Active(k) /\ Move
    /\ \E status \in {"OPEN", "CLAIMED", "RESOLVED", "DISMISSED"} \ {cases[k].status} :
        cases' = [cases EXCEPT ![k].status = status, ![k].version = @ + 1]
    /\ UNCHANGED <<threads, tasks, runs, store, waiters, subscriber, deleting>>

-----------------------------------------------------------------------------
(* The lifecycle of threads.  A request carries the version the resident saw; *)
(* with another version it is refused, which changes nothing.                 *)
SetLifecycle(t, from, to) ==
    /\ threads[t].status = from /\ ~Locked(t)
    /\ threads' = [threads EXCEPT ![t].status = to, ![t].version = @ + 1]

ArchiveOrRestore(t) ==
    /\ Move
    /\ SetLifecycle(t, "ACTIVE", "ARCHIVED") \/ SetLifecycle(t, "ARCHIVED", "ACTIVE")
    /\ UNCHANGED <<tasks, runs, cases, store, waiters, subscriber, deleting>>

(* delete_thread reads the thread, finds its ticket settled (or refuses), and *)
(* only then updates.                                                         *)
CheckDelete(t) ==
    /\ deleting = None /\ threads[t].status = "ARCHIVED"
    /\ deleting' = [thread |-> t, version |-> threads[t].version, messages |-> threads[t].messages]
    /\ UNCHANGED <<threads, tasks, runs, cases, store, waiters, subscriber, moves>>

\* A plausible bug: the update checks the status again, but not the version.
UnmovedStatus == threads[deleting.thread].status = "ARCHIVED"

Unmoved == threads[deleting.thread].version = deleting.version

CommitDelete ==
    /\ deleting # None /\ Unmoved /\ SetLifecycle(deleting.thread, "ARCHIVED", "DELETED")
    /\ deleting' = None
    /\ UNCHANGED <<tasks, runs, cases, store, waiters, subscriber, moves>>

RefuseDelete ==
    /\ deleting # None /\ ~Unmoved
    /\ deleting' = None
    /\ UNCHANGED <<threads, tasks, runs, cases, store, waiters, subscriber, moves>>

-----------------------------------------------------------------------------
(* The process dies and another starts: memory is gone, open transactions are *)
(* rolled back, rows remain.                                                  *)
Crash ==
    /\ Move
    /\ tasks' = [i \in Tasks |-> IF Live(i) THEN Failing(tasks[i]) ELSE tasks[i]]
    /\ store' = <<>> /\ waiters' = [i \in Tasks |-> 0]
    /\ subscriber' = None /\ deleting' = None
    /\ UNCHANGED <<threads, runs, cases>>

Turn(i) ==
    \/ CreateThread(i) \/ RequireActive(i) \/ StartTrace(i) \/ StartFails(i)
    \/ StartRefused(i) \/ TraceNode(i) \/ Project(i) \/ EndTurn(i)
    \/ PersistFails(i) \/ BeginEscalation(i) \/ CommitEscalation(i) \/ FinalizeRun(i)
    \/ FinalizeAgain(i) \/ Respond(i) \/ ResponseFails(i) \/ Sweep(i)

Next ==
    \/ \E q \in Requests : Join(q) \/ Execute(q)
    \/ \E i \in Tasks : Answered(i) \/ Disconnect(i)
    \/ Subscribe \/ Take \/ Unsubscribe
    \/ \E i \in Tasks : Turn(i)
    \/ \E k \in DOMAIN cases : Review(k)
    \/ \E t \in Threads : ArchiveOrRestore(t) \/ CheckDelete(t)
    \/ CommitDelete \/ RefuseDelete
    \/ Crash

(* The monitor scans for as long as the process runs, and an open transaction *)
(* commits or is rolled back.                                                 *)
Fairness == \A i \in Tasks : WF_vars(Sweep(i)) /\ WF_vars(CommitEscalation(i) \/ PersistFails(i))

Spec == Init /\ [][Next]_vars /\ Fairness

-----------------------------------------------------------------------------

(* One key runs once at a time, whatever is evicted or forgotten by whom: an  *)
(* execution that is under way is in the store, where the next request of its *)
(* key finds it.                                                              *)
OneExecutionPerKey ==
    \A i \in Tasks : Live(i) =>
        /\ \E k \in DOMAIN store : store[k].task = i /\ store[k].key = tasks[i].req.key
        /\ \A j \in Tasks : Live(j) /\ tasks[j].req.key = tasks[i].req.key => j = i

(* A run that is over has one lifecycle and one public terminal event, next   *)
(* to each other, and after them only audit events of the domain; a run that  *)
(* is not over has neither (append_event, _append_terminal_trace).            *)
TraceClosed ==
    \A i \in Tasks :
        LET trace == runs[i].trace
            ends == {k \in DOMAIN trace : trace[k] = "lifecycle" \/ trace[k] \in TerminalTypes}
        IN  IF runs[i].outcome = None THEN ends = {}
            ELSE \E k \in DOMAIN trace :
                    /\ ends = {k, k + 1} /\ trace[k] = "lifecycle" /\ trace[k + 1] = runs[i].outcome
                    /\ \A j \in (k + 2)..Len(trace) : trace[j] = "domain"

Says(messages, m) == \E k \in DOMAIN messages : messages[k].role = m.role /\ messages[k].id = m.id

(* What HTTP answered and what the stream announced is what the run's row     *)
(* says, also when the sweep came first; the reply is in the thread, and      *)
(* unless the answer is a failure so is what the resident said.               *)
ToldIsPersisted ==
    /\ \A i \in Tasks : tasks[i].pc = "done" =>
        /\ runs[i].outcome = Outcome(tasks[i].result)
        /\ Says(threads[tasks[i].thread].messages, Reply(i))
        /\ runs[i].outcome # "FAILED" /\ tasks[i].req.kind # "CHOICE" =>
                Says(threads[tasks[i].thread].messages, Spoken(i))
    /\ subscriber # None => \A k \in DOMAIN subscriber :
        subscriber[k].type \in TerminalTypes => runs[subscriber[k].run].outcome = subscriber[k].type

(* Every escalated run has a review case of its thread and topic, and no two  *)
(* active cases share one, although finalisations race (the lock on the       *)
(* thread serialises _create_or_get_review).                                  *)
EscalationsReviewed ==
    /\ \A i \in Tasks : runs[i].outcome = "ESCALATED" =>
        /\ runs[i].case \in DOMAIN cases
        /\ cases[runs[i].case].thread = tasks[i].thread /\ tasks[i].topic \in {None, cases[runs[i].case].topic}
    /\ \A j, k \in DOMAIN cases :
        Active(j) /\ Active(k) /\ cases[j].thread = cases[k].thread /\ cases[j].topic = cases[k].topic => j = k

TerminalsOf(queue) == {k \in DOMAIN queue : queue[k].type \in TerminalTypes}

(* The events at these positions are, in their order, the first terminal ones *)
(* of the next queue.                                                         *)
StillFirst(positions, queue, next) ==
    \E to \in [positions -> TerminalsOf(next)] :
        /\ \A k \in positions : next[to[k]] = queue[k]
        /\ \A j, k \in positions : j < k => to[j] < to[k]
        /\ \A k \in positions, p \in TerminalsOf(next) : p < to[k] => \E j \in positions : to[j] = p

(* A terminal event leaves a queue by being taken, or, the oldest one, for    *)
(* another when nothing else is left to drop, and those that stay keep their  *)
(* order; the run that is answered in this step is the last thing the queue   *)
(* tells.                                                                     *)
Kept(queue, next) ==
    \/ StillFirst(TerminalsOf(queue), queue, next)
    \/ /\ TerminalsOf(next) = DOMAIN next
       /\ \E first \in TerminalsOf(queue) :
            /\ \A k \in TerminalsOf(queue) : first =< k
            /\ StillFirst(TerminalsOf(queue) \ {first}, queue, next)

Heard ==
    \A i \in Tasks : tasks[i].pc # "done" /\ tasks'[i].pc = "done" /\ tasks[i].thread = Watched =>
        subscriber' # <<>> /\ Last(subscriber') = [type |-> runs[i].outcome, run |-> i]

TerminalEventsKept ==
    [][subscriber # None /\ subscriber' # None /\ (subscriber = <<>> \/ subscriber' # Tail(subscriber))
        => Kept(subscriber, subscriber') /\ Heard]_vars

(* What is said is what was said when the thread was found settled, but for   *)
(* the replies of runs that failed (the sweep's, which settle nothing).       *)
SaidBefore(messages) ==
    \A k \in DOMAIN messages :
        messages[k] \in ToSet(deleting.messages) \/ runs[messages[k].run].outcome = "FAILED"

(* A thread is deleted only as it was when its ticket was found settled: no   *)
(* run's result was added since (delete_thread's expected_version).           *)
DeletedAsChecked ==
    [][\A t \in Threads : threads[t].status # "DELETED" /\ threads'[t].status = "DELETED" =>
        SaidBefore(threads[t].messages)]_vars

(* No run stays RUNNING for ever, whatever becomes of its task: the sweep     *)
(* gives what a crash or an error leaves behind a public result.              *)
EveryRunAnswered == \A i \in Tasks : []<>(runs[i].status # "RUNNING")

=============================================================================
