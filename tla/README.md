# FixFlow in TLA+

FixFlow handles home repairs: residents report issues, workers visit, operators
take over what automation cannot decide. A language-model agent drives the same
commands a person would. Facts live in PostgreSQL; every command is one
transaction. This directory models the parts of `src/backend/app` on which the
correctness of those facts rests, checks the models with TLC on small instances
and proves the central properties with TLAPS for instances of any size.

## 1. The system

| Component | State it keeps | Operations | What is hard | Correct when |
|---|---|---|---|---|
| **Domain rules** (`domain/`) | none | transition table, worker-event rules, escalation recovery, purposes | long legal sequences that end in an illegal state | every reachable combination of ticket, visit and event is a legal one |
| **Application commands** (`application/`) | `repair_tickets`, `appointments`, `worker_events`, `ticket_status_history` | create, book, reschedule, accept, reject, escalate, recover, record worker event | three tables kept in step by seven commands; late events; moved visits; reads before locks | rows never disagree, settled rows never move, calendars never overlap, history tells the truth |
| **Command idempotency** (`service_support._execute`, `idempotency_records`) | one record per scope, actor and key | acquire, replay, succeed, roll back | concurrent duplicates, write skew, lock order, retries | at most one effect per key; a retry sees the stored answer |
| **Outbox** (`outbox/`) | `outbox_events`, claims | claim batch, project, acknowledge, fail | leases that expire under a live process, shared worker ids, crashes, poison | at-least-once, fenced, nothing stuck |
| **Trace runtime** (`trace/`) | `agent_runs`, `agent_trace_events` | start, append, finish | events after the end of a run | one terminal event, nothing of the run itself after it |
| **Reconciliation** (`reconciliation/`) | cases with claims | create, claim, query evidence, resolve, retry | a verdict while the command is still in flight; evidence that has moved on | one verdict per case, COMMITTED only of an effect, every case settled |
| **Agent orchestration** (`agent_runtime/`), **state merge** (`agent/`) | checkpointed `AgentState` | turns, interrupts, confirmation, tool calls, case refresh, reads | lost answers to writes, stale confirmations, reads that write | nothing is booked that was not confirmed, nothing is sent while a case is open |
| **Agent reliability** (`agent_reliability*`), **resident API** (`api/`) | threads, messages, results, review cases; coalescing store and event queues in memory | register, run a turn, finalize, review, sweep stalled runs, stream, archive, delete | sweep against late finalisation, eviction and full queues, crash, racing escalations | one execution per key, what is told is stored, every run gets a result |
| **Online routing** (`llm/online`) | circuits, the deadline of a turn | call, retry, repair, fall back | calls that outlive the circuit's state, a probe that is never returned | one probe, nothing after the deadline |
| **Hybrid interpretation** (`llm/hybrid`) | none | normalize, decide, flag danger | a model that claims what the message does not say | evidence decides; a person who is asked for is heard; alarms come from the message |
| **Replay** (`replay/`) | bundles with steps, executions | capture, seal, verify, compare | failed, unanswered and repeated writes of a step; releases; races of verifications | READY is the whole run, PASSED only of it, refused for a cause |
| **Model evaluation** (`llm/evaluation`) | files of a run directory, baseline, candidate | run, resume, gate, qualify, publish | death between two files, edits of the source, mixed attempts | what is published is whole and from the qualified commit |
| **Policy, authentication, queries, fault injection, frontend, scripts, holdout** | documents, sessions | reads, ranking, one-off scripts | data, not control | (section 7) |

How they interact: the API starts a turn of the agent graph; the graph asks the
language models what a message means, and calls the application commands through
MCP, repeating an idempotency key when an answer is lost; a command commits its
rows, its history row, its outbox events and its idempotency record together;
the dispatcher projects outbox events into the trace; a write whose outcome is
unknown becomes a reconciliation case that a worker decides from the idempotency
record, the outbox and the rows, while the thread waits. The run's steps are
recorded for replay; its result goes to the resident's queue and thread.

`PROJECT.json` lists every component with its status, and every hazard at its line.

## 2. Modules

| Module | What it is |
|---|---|
| `RepairDomain` | the stateless rules: transition table, recovery targets, worker-event sequence, labels |
| `RepairLifecycle` | the aggregate: one action per committed command, two for a creation; properties |
| `RepairContract` | abstract: what a resident and an operator may rely on |
| `CommandTransactions` | the same commands, statement by statement, in concurrent sessions |
| `CommandContract` | abstract: what an idempotency key promises |
| `OutboxDispatch` | dispatcher processes over the outbox table |
| `OutboxContract` | abstract: at-least-once delivery with bounded failures |
| `Reconciliation` | unknown commits: owners, attempts in flight, cases, workers |
| `ReconciliationContract` | abstract: one effect, one verdict, the truth to the owner |
| `AgentRuntime` | one thread of the agent graph with its checkpoint, orchestrator and reader |
| `ResidentApi` | the resident API process with the trace, results, review cases and sweep behind it |
| `ModelRouting` | turns that share the circuits and permits of the online model |
| `ResidentDecision` | what becomes of a model's facts about one message |
| `ReplayVerification` | capture, sealing and verification of a run's tape |
| `EvaluationRun` | the files of an evaluation run, from start to release candidate |
| `MC...` | for each checked module the model values, small sets, symmetry and bounds for TLC |
| `RepairLifecycleProofs` | the aggregate's invariant, booking, history, versions, the protocol of a visit, the refinement of `RepairContract` |
| `CommandTransactionsProofs` | exactly once per key: the refinement of `CommandContract`; sound bookings; serial commits |
| `OutboxDispatchProofs` | claim tokens, fencing, the refinement of `OutboxContract` |
| `ReconciliationProofs` | claims, evidence, the refinement of `ReconciliationContract` |
| `AgentRuntimeProofs` | what is stored of a thread loads, an unsettled case blocks it, bookings are confirmed ones |
| `ResidentApiProofs` | one execution per key, closed traces, reviewed escalations, answers that are persisted |
| `LanguageProofs` | one probe, one deadline; what a model's answer may not decide about a message; what is published of an evaluation |
| `ReplayVerificationProofs` | whole bundles, sole executors, verdicts that are deserved |

A definition whose comment speaks of a fault or a plausible bug is a slip in the
definition after it. No specification uses one. Each property of each passing
run has one (`mutants` in `PROJECT.json`): when the slip takes the definition's
place, TLC finds the property violated.

What the modules leave to each other. `RepairLifecycle` takes a command other than a
creation for one step; `CommandTransactions` shows for which commands that is right
(`CommitsAreSerial`) and names those for which it is not. `Reconciliation` and
`AgentRuntime` take it that a repeated key is a replay, which `CommandTransactions`
shows. `AgentRuntime` takes a case's verdict as the environment's,
`Reconciliation` decides it; `ResidentApi` takes a turn for a sequence of trace
events with a result, `AgentRuntime` runs it.

### RepairLifecycle

| Variable | Code |
|---|---|
| `ticket` | `RepairTicket` rows: status, `escalated_from_status`, `rework_count`, `version`; `subject` stands for resident, property, category and location, what `has_exact_open_match` compares |
| `appointment` | `Appointment` rows; `supersedes` is `supersedes_appointment_id` |
| `events` | `WorkerEvent` rows of an appointment by `sequence_no` |
| `latest` | what `latest_for_ticket` returns |
| `journal` | newest `ticket_status_history` row of a ticket and the outbox events added with it |
| `creating` | creations between their search for an open match and their insert, with what they could read |

A command the code rejects rolls its transaction back, so it is a stuttering
step; a command that succeeds is one action with every write it makes. Creation takes
two, `CheckDuplicate` and `CreateTicket`: neither a lock nor a unique index ties the search
for an open match (`ticket_service.py:60`) to the insert, so creations may overtake one
another, and any command may run in between. Reasons,
evidence, texts, dates other than the visit's interval, and the identity of an
actor beyond its type are abstracted. Free inputs: who acts, which worker and
slot, `occurred_at`, `allow_duplicate`, the disposition a failure reason maps to.
The static part of eligibility (skills, service area, schedule) is the constant
`Eligible`.

`RepairContract` keeps two facts of a ticket, its status and the stage of its
current visit. The mapping (`repair` in `RepairLifecycle`) reads the stage off
the latest appointment row and its last event. The contract says for instance
that an operator's `Release` of a hold leads only to a status the visit supports,
which the code spreads over `_derive_resume_target` and the command's reads.

### CommandTransactions

| Variable | Code |
|---|---|
| `db` | committed rows: tickets, visits, and the worker-event log of a visit |
| `record` | `idempotency_records`: the request stored under scope, actor and key |
| `session` | a connection: its stage in `_execute`, what it has read, locked and not yet committed |
| `sent`, `applied`, `told` | history: submissions, effects per identity, answers |
| `clock` | transactions begun: `created_at` is the start of the transaction |
| `faults` | bound on broken connections and lost answers |

A statement is one step. Under READ COMMITTED it sees what is committed then;
`SELECT ... FOR UPDATE` and an `UPDATE` wait for the session that holds the row,
and the `UPDATE` compares the version when it has the lock; a cycle of waits ends
with the deadlock error for one of its sessions. `INSERT ... ON CONFLICT DO
NOTHING` on the idempotency record waits for a session that has inserted the same
identity. The exclusion constraint on a worker's calendar and the unique index of
a ticket's live visit work at the insert, against uncommitted rows by waiting. The
decision of each command (`Allowed`, `Writes`) uses the operators of `RepairDomain`.

### OutboxDispatch

| Variable | Code |
|---|---|
| `row` | `OutboxEvent`: status, `claimed_by`, `claim_token`, `attempt_count`; `elapsed` says that `available_at` (PENDING) or `claim_expires_at` (PROCESSING) has passed |
| `projected` | events whose key is in `agent_trace_events` |
| `batch`, `stage` | the local variables of `dispatch_once` in each process |
| `issued` | the source of `uuid4` claim tokens: each draw is new |
| `trouble` | bound on crashes, failed transactions and leases that expire under a live process |

`claim_batch`, the consumer's `append_event` and the two `mark_` updates are
separate transactions, so they are separate actions, and a process may die or
lose its lease between any two. For an event with a run, `append_event` locks the
run and looks the key up again, so lookup and insert are one step; without a run
they are two (`LookUp`, `Insert`) and two processes may race between them.
`OutboxLeaseLost` ends the process (`Exit`), as it leaves `run_forever`; what
starts it again is outside the repository, and the model takes it as started.
`ORDER BY ... LIMIT ... SKIP LOCKED` is any choice of eligible rows.
`worker_id` is host name and object address, so two processes may share one.

### Reconciliation

| Variable | Code |
|---|---|
| `case` | `operation_reconciliation_cases`: status, claim, attempts; `elapsed` as in the outbox |
| `sends`, `flying`, `effects` | how often the owner dispatched a mutation, which attempts the server still works on, how often it took effect |
| `moved`, `permitted` | the entity's version has moved past the stored response; account and relation are active |
| `owner` | how far the thread or the operator's request is with the mutation, as `orchestration.py` and `api/services/operator.py` track it |
| `batch`, `stage`, `issued` | a worker's loop, as in the outbox; each evidence query is a step |
| `sighted` | history: whether the effect was there when the case was last claimed |

An attempt under way commits or fails at any time after its answer was given up,
also during or after the evidence queries. The checks each action makes of its entity
are one comparison (`moved`). The contract's mapping keeps the effects, the
verdict and what the owner believes.

### AgentRuntime

| Variable | Code |
|---|---|
| `cp`, `last`, `next`, `shown` | the checkpoint: `AgentState`, the node whose result it is, the node to run next, a pending interrupt |
| `run` | the invocation of the graph under way, with its local state |
| `tickets`, `busy` | the property's tickets with their appointments, slots that other tickets take |
| `receipts`, `flying`, `permitted` | records of committed operations, with the tool and its answer; requests nobody awaits; the relation |
| `cases` | by operation: status and the operation the case looks for (`for`), which `create_or_get` takes from the checkpoint |
| `reader` | a `get_state` between its read and its `aupdate_state` |
| `overtaken` | history: such a read has stored over a checkpoint it had not read |
| `screens`, `chosen` | the slot lists shown, and history: the slots confirmed |
| `turns`, `moves`, `trouble`, `reads` | bounds |

`langgraph` is not in the repository and is modelled from its use: the result of a
node is stored with the next node; a node that raises leaves the checkpoint
alone; `aupdate_state` stores a state as the last node's result, so the next node is
chosen anew and a shown interrupt is gone. What a message says is drawn from
`Utterances`; whether a policy suffices and which slots are offered is a choice. An
invocation whose checkpoint does not load does not start, and a turn or a read whose
checkpoint does not load ends with an error. Appointments have numbers: those made
before the thread are not positive, those it makes count its operations
(`ExistingAssumption`).

What a mutation node sends is its own (`Request`): its tool, about the ticket, slot and
appointment of the state, under the key and with the versions of whatever operation is
pending. After an overtaken read that operation may be another tool's. Under a key
that has no record the tool takes effect, since keys are scoped by tool
(`service_support.py:123`); under a key another tool has used it breaks the unique
`operation_id` (`Clashes`), which the caller meets as an unknown commit. `Loads` has the
rules of the validator (`state.py:190`) whose fields more than one node writes: the
snapshot's ticket, the selected slot and the missing fields. Three have one writer that keeps
them: a thread keeps its verified property, merging alone writes a location, with its
normal form, and both places that append a message look for its id first.

### ResidentApi

| Variable | Code |
|---|---|
| `threads` | `agent_thread_records` with their messages |
| `tasks`, `waiters`, `store` | the asyncio task of a request, the connections that wait for it, `ApiIdempotencyStore` in order of use |
| `runs` | `agent_runs` with their events |
| `cases` | `human_review_cases` in order of creation |
| `subscriber` | the bounded queue of one event stream |
| `deleting` | `delete_thread` between its checks and its update |
| `moves` | bound on failures and moves of others |

A transaction is one step, except that a finalisation that escalates looks its
review case up in one step and commits in the next: it holds the run and the thread,
not the case. A restart loses `store`, `tasks` and queues and keeps the rows.

### ModelRouting, ResidentDecision

`ModelRouting`: `path` (ports or shadow, chosen when the process is composed from valid
settings), `now`, `circuit` (one for understanding, one for drafting, each with its
failures and its half-open flag) and `turn` (what each turn does, its deadline, its
attempt and whether it is the probe). Time is counted in units; an attempt may be
answered at any unit up to its time limit.

`ResidentDecision`: `message` is the set of marks the patterns of `semantics.py` and
`normalizer.py` find, `context` the task and what was asked last, `answer` the
evidence that comes with each claim (apt, unrelated, invented, torn, blank),
`outcome` the decision: intent, flags, missing facts, clarification, and whether windows
are handed on. Windows carry no evidence: all that have a time zone and an order are kept
(`Offers`, `normalizer.py:534`), whatever the message says. The table that
decides is written out row by row in the order the code tries them.

### ReplayVerification, EvaluationRun

`ReplayVerification`: `run` (a run with its capture object in the process), `emitted`
(history: all steps it made), `bundle` (`agent_replay_bundles` and steps),
`execution` (`agent_replay_executions` by key), `request` (verifications under way),
`version` (the release in force), `tampered`, `faults`. The graph is cut down to the nodes
that tell runs apart: `resolve_property`, `interpret`, `list_slots` with its lookup and
route, the three questions (`need_information`, `need_availability_information`,
`select_slot`), a mutation and `finish`. The replay runs the same operators over the tape
instead of the calls, from the state as `restore_agent_state` leaves it: the message
redacted, the escalation reason dropped. `unkept` in a run's state is what control reads
and the bundle loses by that, a clock in the message whose start has passed
(`rules.py:29`) or an overdue booking an earlier turn reported; each run begins with
either or neither, its replay always with neither. `finish` makes no recorded call: the composer the
application is built with does not raise and asks no provider that the tape would miss
(`composition.py:257`, `grounded.py:152`). Every database call may be done, fail, or be
done with its answer lost.

`EvaluationRun`: `source` (HEAD and whether the tree is dirty), `disk` (manifest,
results by item, summary, gate, index and resume history of a run directory), `run` (the
process with the set of items it has yet to ask), `baseline`, `candidate`. What the matchers
of a case want (`Expected`), what a model may answer and how that reads (`Reading`), and the
rates the policy file asks for (`Policy`) are constants. The gate is the program's: rates over
the results there are, field by field, no critical failure, and no rule on how many cases
pass; stability is judged per field too. Files are their contents, hashes are equality;
each `os.replace` is a step and the process may die between two, or leave a torn
last line of results.

## 3. Runs

| Run | Instance | Shows |
|---|---|---|
| `RepairLifecycle` | 2 tickets about one subject, 3 visits, 1 worker, 3 slots (two touch, one overlaps both), versions up to 9 | the rows agree after any sequence of commands (`AggregateAgreement`), field events keep their protocol (`VisitProtocol`), history tells the truth (`HistoryMatches`), every change of a visit moves its ticket's version (`VersionCoversVisit`), a duplicate only where an operator allowed it or a creation overtook another (`DuplicateExcused`), `ImplementsContract` |
| `CommandTransactions` | 2 sessions, 2 keys, 2 submissions, 1 fault; starts with a visit accepted, under way or done, or a hold over an accepted one | exactly once per key (`ImplementsContract`), sound bookings although `created_at` is not commit order (`BookingsSound`), no lost update (`CommitsAreSerial`), no session stuck (`SessionsEnd`) |
| `OutboxDispatch` | 3 events (with a run, without, unsupported), 2 processes with one worker id, batch 2, 2 attempts, 1 trouble | one holder per claim (`SoleHolder`), `ImplementsContract`, every event settles (`EverySettles`), a supported one is dispatched (`SupportedDispatched`) |
| `Reconciliation` | 2 workers with one id, 2 mutations of which one may be sent twice, batch 2, 2 attempts, 1 trouble | no verdict from before the claim (`VerdictFresh`), `ImplementsContract`, every case is settled (`EveryCaseSettles`) |
| `AgentRuntime` | a thread of 3 turns about 2 issues, 2 slots, three possible sets of older tickets, 1 move of others, 1 trouble, 1 overlapping read; or one of 5 turns about one issue with an older ticket, 1 slot, 2 troubles | stored states can be read again (`CheckpointLoads`), bookings are confirmed ones (`BookedAsConfirmed`), an open case blocks (`NothingSentWhilePending`), turns end (`EveryTurnEnds`) |
| `ResidentApi` | 2 threads, a message, an answer and a creation under 3 keys, 2 connections, 3 executions, store of 2, queue of 2, effort 3 | `OneExecutionPerKey`, `TraceClosed`, `ToldIsPersisted`, `EscalationsReviewed`, `TerminalEventsKept`, `DeletedAsChecked`, `EveryRunAnswered` |
| `ModelRouting` | 3 turns, threshold 2, rest 4, budget 3, call 2, 2 attempts, 2 permits, time up to 7 | a probe is alone (`SingleProbe`), nothing in flight after the deadline (`WithinDeadline`) |
| `ResidentDecision` | messages of two marks or of a mark and a danger, 4 conversations, answers of one claim | `HumanAlwaysHeard`, `AlarmFromMessage`, `UnfoundedDecidesNothing` |
| `ReplayVerification` | a turn of any origin and an operator action, 2 deliveries under one key, 11 steps, 1 fault | `WholeWhenReady`, `PassedIsFaithful`, `RefusedForCause`, `SoleExecutor` |
| `EvaluationRun` | 2 cases, one critical and for a person, asked twice; 4 answers that are right, wrong in forgiven fields, wrong in intent or leaking, and invalid output; 2 commits, 2 attempts, 3 processes, 1 trouble | `QualifiedIsWhole`, `JudgedOnce` |
| `ApproveReworkKeepsBooking` | 1 ticket, 3 visits | violation of `NoBookingOutsideVisit` (finding 1) |
| `StaleReadUnblocks` | 1 issue with an older ticket, 4 turns, 2 troubles | violation of `UnsettledBlocks` (finding 2) |

Bounds, and why they are enough.

- *RepairLifecycle.* Nine versions let a ticket be booked, moved, started, failed,
  escalated, approved for rework, booked again, completed and closed; three visits
  allow an initial visit, its replacement and a rework visit. Calendar conflicts and
  duplicates are about pairs, so two tickets suffice; the three slots give every way
  in which intervals relate that the overlap test tells apart. `LongOrShort` explores
  the two regions: one ticket alone with long histories, or two with at most five
  versions together, of which the second may be one that is still being created. Identities are symmetric (no liveness is checked here).
- *CommandTransactions.* Lock conflicts, write skew and deadlocks are between two
  sessions; the four starts reach every command's interesting state within one
  submission per session. A submission counts retries, so a lost answer can be retried.
- *Outbox, Reconciliation.* Two processes are enough for a claim and the claim that
  supersedes it. `SupportedDispatched` is about fewer troubles than attempts (1 and 2),
  its exact limit.
- *AgentRuntime.* `BroadOrDeep` explores two regions. Three turns: report, confirm, and
  one more after something went wrong; one of each kind of interference at any point
  between. A read can put an operation before another tool's node only after two losses
  and a move: the second region has those, and five turns, for one issue and one slot.
- *ResidentApi.* Two executions race and a third retries; store and queue of two
  overflow; `MaxEffort` counts executions, failures and moves together.
- *ModelRouting.* Two failures open a circuit, a third turn finds it open or probes it;
  the clock runs past a whole rest and a further call. Turns are symmetric.
- *ResidentDecision.* Every operator tests at most a few marks together; a rule that
  two marks and one claim cannot reach is reached through the conversation.
- *ReplayVerification.* `OneAfterTheOther` orders the two captures, which write different
  bundles, and lets a release follow both; the two meet only under a key, for which a turn
  of one sort is enough. The longest runs make more than eleven
  steps, so a tape can be full. Deliveries are symmetric.
- *EvaluationRun.* `LaterNearlyDone` lets a second process find half of the answers and a
  third all but one; `MostlyAlarmed` allows two results that differ from the answer that
  passes the gate: a right plain case, a pair that is wrong, or two faults to be asked again;
  leaks, refusals and invalid output come alone. `MCPolicy` asks for
  lower rates than the policy file where four results cannot miss one in twenty.

`CHECK_DEADLOCK FALSE` everywhere: a closed ticket accepts no command, an empty
outbox needs no dispatcher, a decided message has no next step, and the bounds stop
every model.

Fairness is assumed only for what the code keeps doing by itself. *Outbox*: each
process keeps running its loop (`run_forever` blocks only in database calls and its
sleep) and time passes. *Reconciliation*: the same for each worker's `run_once`.
*CommandTransactions*: the server goes on with the statements of an open transaction.
*AgentRuntime*: an invocation goes on with its next node. *ResidentApi*: the
monitor keeps sweeping, and an open finalisation commits or fails. Commands,
messages, crashes, failures, lost leases and the death of a process are never
required to happen; where they may happen, bounds make them finitely many.

## 4. Findings

1. **Approving rework keeps a live visit.** `recover_escalated_ticket` takes
   `APPROVE_REWORK` without looking at the visit (`domain/tickets.py:502`). A ticket
   escalated with its visit `BOOKED` becomes `REWORK_REQUIRED` with that visit still
   live, which `ensure_aggregate_consistency` calls
   `ticket_status_conflicts_with_booking` (`domain/invariants.py:160`) and
   `docs/STATE_MACHINE.md:374` excludes. If work had started, rework cannot be
   booked, `RESUME` is refused and `CANCEL` is not safe. The properties that do hold
   therefore make no claim about the visit of a `REWORK_REQUIRED` ticket.
2. **A stale read lifts the block of an unsettled case.** `get_state` reads the
   checkpoint, awaits the property check and the case, and stores the state it made of
   what it had *read* (`orchestration.py:489-504`). A read that begins under an older case
   and outlasts a turn which ends in a new unknown commit overwrites the checkpoint
   that blocks the thread, and the next turn sends a mutation while the new case is
   pending or under review. `docs/RECONCILIATION.md:53` says "Pending/processing cases
   cannot retry", and line 57 that manual review "cannot be bypassed by another resident
   message". The attempt to prove the block for every instance led here: its inductive
   step fails exactly where the read stores. `NothingSentWhilePending`, which holds,
   excepts threads with an overtaken read.

### What else the models say

Stronger statements that the code, as modelled, does not meet. They are kept as
definitions where the name is given, and no run claims them; to see a counterexample of
one, put it into the cfg of its module's run.

- *Repair.* `book_appointment` takes the purpose from the status alone
  (`appointment_service.py:57`), so a rework visit that ends in `NO_SHOW` and is
  `RESUME`d is booked again as `INITIAL_REPAIR` (`docs/STATE_MACHINE.md:382`;
  `FreshBookingAgrees`).
- *Commands.* `_create_ticket` searches for an open match and inserts in separate
  statements under READ COMMITTED (`ticket_service.py:60`, `:94`), and no constraint covers
  the subject: two creations at once both commit without `allow_duplicate`
  (`NoDisallowedDuplicate`), although `docs/STATE_MACHINE.md:142` lists "no disallowed
  duplicate" as a precondition. `DuplicateExcused` says what is left: a pair of open
  tickets about one subject was wanted, or one creation looked before the other was stored.
- *Commands.* `ACCEPTED`, `DEPARTED` and `ARRIVED` never compare the
  ticket's version again, so they may be recorded on a ticket that was escalated
  meanwhile (`EventsFitTicket`).
- *Reconciliation.* `NOT_COMMITTED` is concluded from rows that are absent at the
  moment of the query (`evidence.py:48`), and `orchestration.py:113` tells the resident that
  the operation is confirmed not committed; the attempt whose answer timed out may
  commit between the two (`ToldNotCommittedIsTrue`). The kept key makes the next dispatch
  a replay, so the effect stays single (`ImplementsContract`).
- *Reliability.* A turn slower than the sweep's limit that ends `ESCALATED` meets its
  swept `FAILED` result and opens no review case; a swept turn's user message is not
  stored. Archive and delete may pass a running turn, whose messages then reach a deleted
  thread. Swept runs and failed resumes publish no terminal stream event. A case
  an operator closes between lookup and commit can receive an escalation. A creation
  retried after its answer was lost makes a second thread; a message retried
  with its `message_id` after its run exists meets the unique `trace_id` each time
  (`docs/TRACE_RUNTIME.md:40`).
- *Agent.* After a verdict COMMITTED the refreshed state has no pending operation while
  the next node is still the mutation (`orchestration.py:172`), and a reschedule may
  target a ticket without appointment (`scheduling.py:202`): both end in the
  node's assertion on each turn (`AssertsHold`). A ticket closed after the thread
  created it is "created" again under its old key, round after round, up to the recursion
  limit; `EveryTurnEnds` excepts exactly that (`Replayed`). `get_state` writes back what it
  refreshed without a lock and may overwrite a newer checkpoint
  (`BookedAsConfirmedFresh`). Such a write can even break a thread for good
  (`EveryCheckpointLoads`): a booking for ticket T1 is lost and settled as not committed, T1
  is closed, a new turn goes on to create a ticket, and the read stores T1 with its booking
  before `create_ticket`. When that node runs again it takes the booking's key, which under
  its own tool has no record, creates T2 and stores it as `active_ticket_id`
  (`nodes/tickets.py:128`) beside T1's snapshot; every later load raises "cached snapshot
  must belong to active_ticket_id" (`agent/state.py:200`). `CheckpointLoads` says that this
  is the only way to such a state. Turns of one thread do not exclude each other. A thread whose
  authorization was invalidated once keeps answering with an identity conflict.
- *Routing.* A call that finds its budget spent after it was let through as the half-open
  probe raises outside the `try`, and every later call is refused (`ProbeOwned`;
  `docs/ONLINE_PROVIDER.md:88`). A straggler's success closes an open circuit early.
  Waiting for a permit counts as the call's time, so local load opens the circuit.
- *Interpretation.* The evidence of an unsupported request need not be in the message
  (`EvidenceInMessage`; `docs/HYBRID_INTERPRETATION.md:52`); a bad verdict claim hides the
  verdict the message itself states. `normalize` keeps every window of the model that has a
  time zone and an order (`llm/hybrid/normalizer.py:534`), whatever the message says
  (`WindowsFromMessage`; `docs/HYBRID_INTERPRETATION.md:65-68` says that the time expression
  is checked first). Within the decision such a window can only have the resident asked
  for a time, as `decision.py:112` is stricter where there are windows: that it can do no
  more is part of `UnfoundedDecidesNothing`.
- *Replay.* An honest run whose message names a passed clock does not verify
  (`EnoughIsRestored`): the replay decides from the redacted text, calls for slots where the
  run asked why the time is over, and misses the tape; `replay/state.py:124` calls what it
  restores "enough state for the formal graph". Nor does a resumed question for a time
  (`ResumeIsPrimed`): `_prime_resume_graph` takes each such resume to follow `interpret`
  (`replay/engine.py:201`), and with nothing missing its router goes on to the reads before
  `list_slots`, so the recorded resume is never handed over, although `docs/REPLAY.md:74`
  says that it is. `RefusedForCause` names these causes. A failed capture or seal, or a
  crash, leaves the bundle `CAPTURING` (`FailedCaptureIsIncomplete`), and an execution that
  dies stays `RUNNING`. Runs whose call raised, or that ended with an unknown commit, are
  sealed `READY` and never verify.
- *Evaluation.* A resume from a dirty tree keeps the manifest's word that it was clean,
  and can be published (`CleanEvidence`; `docs/MODEL_EVALUATION.md:145`). An index that
  lists resume history does not verify (`FinishedVerifies`). Nothing excludes two
  processes in one directory; the model has one at a time.

## 5. Proofs

All proofs assume only the named assumptions of the modules: the null value is
none of the identities, a slot is a non-empty interval of naturals, times are
naturals; limits are naturals or positive. Tickets, visits, workers, slots, events,
mutations, sessions, keys and processes are arbitrary sets, and worker ids an
arbitrary assignment. The rows concurrent sessions find (`StartAssumption`) are typed,
their logs are of worker events, an absent visit is of no ticket, and their live visits
clash with none and are their ticket's newest: what the constraints of the table and
`OnlyLatestBooked` say of rows earlier commands left.

*The repair aggregate.* The inductive invariant (`IInv` in `RepairLifecycleProofs`) is
`RowsOK /\ CreationsSound /\ OnlyLatestBooked /\ FreshLog /\ AggregateAgreement`.
`AggregateAgreement` alone is not inductive: recovery and review read the
*latest* visit while a worker event names *some* visit, so an event on an older,
still `BOOKED` row could move the ticket; `OnlyLatestBooked` excludes it. It in
turn needs that an unused identity has no events (`FreshLog`), since booking makes
it the latest and its log becomes the visit's log. `CreationsSound` is about creations on
their way: each has its ticket for itself, and of the tickets it has read those about its subject
are settled unless it is deliberate; settled tickets stay so. The step is proved with one
lemma per part and per command; lemmas say once what the shared writes
(`UpdateTicket`, `Ended`, `NewAppointment`) do to the facts read elsewhere.

| Theorem | Argument |
|---|---|
| `TypeCorrect`, `OnlyLatestBookedHolds`, `AggregateAgreementHolds` | parts of `IInv` |
| `TerminalFrozenHolds` | no command's guard admits a settled ticket, and a live row belongs to an unsettled one by `AggregateAgreement` |
| `ReworkCountedHolds` | rework is counted on every way into `REWORK_REQUIRED`, counts never fall, a rework visit is booked only there or inherits its purpose |
| `VersionCoversVisitHolds` | a visit's live row belongs to a ticket in `SCHEDULED` or `IN_PROGRESS` when it changes, and each change takes that ticket elsewhere or rewrites it |
| `HistoryMatchesHolds` | each command writes a row that says what the invariant asks (`RowTells`); worker events and recovery, which skip the transition table, need `AggregateAgreement` to fit it |
| `SupersessionLinkedHolds` | a reschedule replaces a live row by an unused identity, so a chain only grows at its end |
| `VisitProtocolHolds` | an event follows the last one by `SequenceAllows`; a second `STARTED` is excluded by the ticket's status, through `AggregateAgreement` |
| `DuplicateExcusedHolds` | only an insert makes a pair of open tickets about one subject (`CarriedMakesNone`); if its creation was not deliberate, the other is not among the tickets it has read (`CreationsSound`) |
| `ImplementsContractHolds` | each command maps to a contract step; recovery needs `AggregateAgreement` and that a live visit has no outcome yet (`NoOutcomeYet`) |

*Command transactions.* `CInv` is `SessionsSound /\ MessagesSound /\ KeyHeldByOne
/\ EffectRecorded`. Uniqueness of the effect is not inductive by itself: a session past
the record must be the only one under its identity, and the record still unwritten,
until it commits (`KeyHeldByOne`); then record and effect appear together
(`EffectRecorded`).

`BInv` is what makes bookings sound. Of the rows it says what `BookingsSound` needs (no
clash, a live visit is its ticket's newest); of a session, that each write it has executed
is locked, still fits the committed row and clashes with no row but those the session ends
(`MadeOk`), that two sessions have executed nothing that clashes (`Apart`: a constraint
check waits for an uncommitted row, as an `UPDATE` does for a lock), and that a booking comes
with the update of its ticket at the request's version (`Booking`). The point is `Timely`:
`created_at` is the start of a transaction, so a booking could commit below a newer visit;
but each visit of a ticket raises the ticket's version, so while that is the request's,
every visit of the ticket is older than the session. Other sessions' commits keep all this
because locks are disjoint and a visit that exists keeps its ticket and its time
(`CommitOther`).

`SInv` is what makes commits serial. Handlers read without locks, so what a session has
seen may be old; `View` says, for each command and each statement it has behind it, what
cannot be: while the ticket has the version the request knows (`Unmoved`), the ticket row,
its latest visit or the named one, and the log are what was seen, and a worker event has
its visit and that visit's log under its own lock. The log is the delicate part:
`ACCEPTED`, `DEPARTED` and `ARRIVED` are recorded without touching the ticket, so a log can
grow under a command that has read it. It is then still `Alike`: it ends in an event from
before the work, and no decision tells those apart. `Decided` says that what a session
executes and plans are the writes it decided on. A commit keeps the views of the others
because a write of a visit, or of any later event, comes with the update of its ticket
(`Telling`, `CommitFrame`).

| Theorem | Argument |
|---|---|
| `CommitsAreSerialHolds` | the update of the ticket fitted, so the ticket is unmoved and by `View` the rows tell the session what it has seen (`SeenIs`); from the same it decides the same (`SameDecision`), and what it wrote is what it decided (`Decided`) |
| `BookingsSoundHolds` | a commit's visits are bookings, ended rows or untouched; two clash only if one booking did (`CommitExclusive`), and a new one is newest by `Timely` (`CommitBookedLast`) |
| `ImplementsContractHolds` | a commit is the contract's `TakeEffect`, a replay or a refusal its `Answer`, all other statements, waits, deadlocks and broken connections stutter |

*The outbox.* `OInv` in `OutboxDispatchProofs` is
`TypeOK /\ TokensKnown /\ AttemptsLeft /\ StageTruthful`. `SoleHolder` alone is not
inductive: a fresh claim is safe only because no batch anywhere carries a token
that is yet to be drawn (`TokensKnown`). `AttemptsLeft` (a row still owed has an
attempt left, a claimed row is stored) and `StageTruthful` (a process about to
acknowledge has seen the projection) are what the refinement needs. `RowMoves` says
once in which ways a step can change a row; every theorem reads it off there.

| Theorem | Argument |
|---|---|
| `TypeCorrect`, `SoleHolderHolds` | parts of `OInv`, and `TokensKnown` for one row's token |
| `FencedReleaseHolds` | only `MarkDispatched` and `MarkFailed` take a row out of `PROCESSING`, both behind `Holds`, and the current claim is in the batch |
| `ImplementsContractHolds` | claims, lookups, crashes and the clock stutter; acknowledgement, failure and projection are the contract's steps |

*Reconciliation.* `RInv` is `TypeOK /\ ClaimsKnown /\ EffectsTrue /\ Evidence /\
VerdictFresh /\ ReviewedForCause`. A claim draws a token above all earlier ones, so
a worker that still holds a case took it last and has read only since then; effects
only appear, so a record missing at the query was missing at the claim (`Evidence`).
A stale worker may believe anything: its update does not match the token.

| Theorem | Argument |
|---|---|
| `TypeCorrect`, `VerdictFreshHolds`, `ReviewedForCauseHolds` | parts of `RInv` |
| `ImplementsContractHolds` | a commit maps to `Execute`, settling under the token to `Settle`, the owner's refresh to `Tell`; `Evidence` makes COMMITTED true, `EffectsTrue` makes DONE true |

*The agent's thread.* There are two invariants, the second on top of the first.
`RInv` (`CheckpointOk /\ RunOk /\ ReaderOk /\ CasesOk /\ BlockOk`) says of the three
places that hold a state, the checkpoint, the invocation and the reader, that the state
passes the validator, and of every unsettled case that the checkpoint names it and
no invocation runs, unless a read was overtaken. `CheckpointLoads` alone is not inductive: a
verdict COMMITTED adopts the ticket its operation made, and the cached snapshot would then be
of another ticket. So a state whose operation creates a ticket has no snapshot yet (`Clean`),
and a blocked state keeps that until its case is decided (`Traced`). The exception is exact:
a creation stores what does not load only if the state the node runs on has a snapshot, which
its edge excludes (`Ready`) and an overtaken read alone brings about; nothing follows such a
checkpoint, since each turn, resume and read loads it first. `BInv` follows the
resident's choice from the list to the committed row: which slots were confirmed for which
ticket and which tickets exist only grows (`World`, `Grows`); a state's slot, appointment
and duplicates are claims about it (`StateOk`); each edge leaves what the next node relies on
(`After`, `Fit`). What is sent is read off the state, never off the pending operation, so
the claim of a request (`ReqOk`) is that of the state, whatever operation an overtaken read
has left; it stays with requests nobody awaits for as long as they fly. A
slot is confirmed for the state's ticket only because a state that carries a
slot has a snapshot and so cannot change its ticket (`Anchored`).

| Theorem | Argument |
|---|---|
| `CheckpointLoadsHolds` | part of `RInv`: node by node (`Keeps` and `KeepsLoads` say what a write may change), and for each state a refresh or an invalidation stores |
| `NothingSentWhilePendingHolds` | `BlockOk` before the step: no node runs while a case is unsettled, and only a node sends |
| `BookedAsConfirmedHolds` | a commit is of the request being sent or of one in flight; `BInv` gives the claim of either |

*The resident API.* `AInv` follows an execution from its key in the store to its answer:
what its run may have become at each step, since the sweep may have ended it in between;
which messages an ended run has left in the thread; and what a finalisation that
holds the thread's lock may rely on until it commits (`Holds`, `OneHolder`). The store and
the case list are arbitrary sequences.

| Theorem | Argument |
|---|---|
| `OneExecutionPerKeyHolds` | what is under way has an entry, a key has one (`Stored`); only answered entries are dropped |
| `TraceClosedHolds` | an outcome, once set, never changes and is written with its two events; later ones are the projected domain events |
| `EscalationsReviewedHolds` | two finalisations of one thread cannot both have looked for a case and found none |
| `ToldIsPersistedHolds` | an answer is given after the commit, of the outcome the run then keeps |
| `TerminalEventsKeptHolds` | positions of terminal events move together from queue to queue (`StillAfter`): the two audit events of an answer cost none, its result the oldest at most (`KeptThenDisplaced`) |
| `DeletedAsCheckedHolds` | the update compares the version of the row that was checked |

*Model routing.* `PInv` needs the times: a call ends `PerCall` after it entered at the
latest and an open circuit rests longer, so nothing from before is under way
when it lets a probe through (`Drained`).

| Theorem | Argument |
|---|---|
| `SingleProbeHolds` | a half-open circuit lets its probe in and nobody else |
| `WithinDeadlineHolds` | a call's limit is the smaller of its own and its turn's (`CallsTimed`) |

*The decision on a message.* The invariant (`DecidedByTables`) says that an outcome is
what the tables say of an answer a model may give to this message. The work is in the
tables: `FirstRow` takes the least row that holds, and that there is one for lists of any
length is `FirstExists`. The run has messages of two marks and answers of one claim; the
theorems are about any combination of them, as long as they are among those the
patterns look for (`MessageAssumption`, which TLC evaluates in the run). Its
specification is named `RDSpec`, so that one module can prove about it and about the router.

| Theorem | Argument |
|---|---|
| `HumanAlwaysHeardHolds` | the first row hands over, and no other row does (`HandsOver`); a claim stands only if the message asks (`HumanStands`) |
| `AlarmFromMessageHolds` | a claimed signal counts only if the message shows it, and is then detected anyway (`DetectedAlone`); a flag is the first row of what is missing (`NothingMissing`) |
| `UnfoundedDecidesNothingHolds` | each operator of the normalizer reads an unfounded claim as none, but for windows (`UnfoundedLeaves`); windows change no act and no intent, and of the missing facts only the time (`WindowsAside`) |

*Replay.* The invariant `RInv` (`Captured` of each run, `Asked` and `Answered` of the
requests and the verdicts) says that the tape is what the run did as long as the capture
has met no error, and that the seal a verification holds is the bundle's, whatever became
of the rows. What the verdict *will be* is `FInv`. For every run, and every version of the
graph, it carries along the replay of what the run has emitted so far (`Follows`). The replay
stands where the run stands, without what is not kept (`InStep`, `Bare`); or the run is still
before the graph (`Early`); or a call raised and the replay waits for its answer in vain
(`Failing`); or another version forgot what this one learned (`Forgotten`); or the clock named
has passed, so the run asks no slots and the replay waits for them (`Parted`); or the replay
stopped or differed, and if it is the run's own version, the run is a retry or a resumed
question for a time, did not end in an answer, or decided by what is not kept
(`Strayed`) (`Gone`). What is not kept matters at the steps `Apart` names and nowhere else
(`BareAdvance`), and a run once led astray ends where `LeftOut` says (`StrayedStays`). The
verdict is then read off the place at which the run ended (`FollowsTells`).
That a replay grows by one step when the tape does (`PlayGrows`) is an induction over the
tape. It is made without the library's induction theorems: if two recursions differed on
tapes that begin alike, there would be a first place where they do (`FirstExists`, least
elements of finite sets of numbers), and there they do not (`UnfoldsAlike`).

| Theorem | Argument |
|---|---|
| `WholeWhenReadyHolds` | only a capture without an error that reached its final state is sealed |
| `SoleExecutorHolds` | a request executes only behind the row it has inserted itself |
| `PassedOnOwnTapeHolds` | the seal is compared before the tape is run |
| `InvalidOnlyIfDamagedHolds` | an undamaged bundle fits its seal |
| `PassedIsFaithfulHolds` | a replay that comes clean to its end is in step with the run, or is an operator's action: either has an answer |
| `RefusedForCauseHolds` | an answered run that did not stray is in step with its replay, under its own version; an undamaged bundle holds what the run emitted |

*The evaluation of a model.* `EInv` says that the files of a run directory agree with each
other and with what the process at work has read (`Directory`, `Process`): results and
manifest are of one commit, what is still to be asked and what is newly answered are apart
from what is on disk, and a summary, once its gate is written, is of the results beside
it. The first unanswered item is one of the unanswered ones (`FirstIsOne`, again by least
elements), so a verdict goes to a place that had none. The specification is named `EVSpec`
for the module's sake.

| Theorem | Argument |
|---|---|
| `QualifiedIsWholeHolds` | the gate counts outputs; as many as there are items means each item has one, since the items are finitely many (`PartOf`); a rate over the results there are is then one over all |
| `JudgedOnceHolds` | what is written is what was read and new answers; a resume drops only failures of the infrastructure and a torn line |

`TypeOK` (in `RepairLifecycle` with the creations on their way) of the first three modules, `OnlyLatestBooked`, `TerminalFrozen`, `ReworkCounted`,
`SupersessionLinked`, `FencedRelease` and `ReviewedForCause` are proved for every
instance and no longer checked by a run.

What proof attempts changed in the models: `AgentRuntime` let a case look for the
operation that timed out, where the code takes the one of the checkpoint (`for`);
`ReplayVerification` had two CASEs whose arms overlapped, so that the definition did not
say which holds.
`CommandTransactions` chooses the latest visit and the recovery target by one operator,
`Any`, of a named set: equal sets give equal choices without unfolding either.
`TerminalEventsKept` was stated with `SelectSeq`, whose value takes induction over the queue;
`StillFirst` says the same of positions: an order-preserving map onto the first terminal ones.
In `ResidentDecision` the two halves of the decision table were concatenated, which hides the
rows from the provers; `Intent` now asks the second when no row of the first holds.
The work list of `EvaluationRun` was a selection from the sequence of results and is now
the set of the items waited for, with its first and last; the replay of a tape was a fold
and is now a recursive function, whose steps the induction above can follow.

## 6. Only model-checked

- Liveness, and with it everything that needs `ENABLED` or fairness, is outside the prover:
  `EverySettles`, `SupportedDispatched`, `SessionsEnd`, `EveryCaseSettles`, `EveryTurnEnds`
  and `EveryRunAnswered` stay with TLC.
- The two violations: a counterexample is a behaviour, which TLC shows.

Neither TLC nor a proof says that a model fits the code: that the cut-down graph of
`ReplayVerification` or the marks of `ResidentDecision` keep what decides is a matter of
reading them beside it (`map` in `PROJECT.json`).

## 7. Not modelled

- Authentication, views and queries: reads. What is free in a slot query is an instant's
  answer; the constraint that decides is modelled.
- Policy retrieval: pure ranking over documents; the agent takes its verdict as a choice.
- Texts: prompts, wire formats, patterns, wording of messages and errors, schemas,
  HTTP; transport and tool discovery of MCP. What they decide is kept as the kind of
  message, claim, answer or error.
- Holdout protocol and scoring, smoke runs, the staged prompt-development flow, other
  providers: one-off computations over files without a state later steps read.
- Fault injection (test hooks; its points guided where the models crash), frontend,
  scripts, data sets, migrations as steps and downgrades.
- Of modelled components: the second identity of a worker event
  (`external_event_key` under another key), `discard_completed` and several API
  processes, runs without a thread, `finish_run`, the policy, duplicate and snapshot
  reads on a tape (recorded like other calls), conflict detection and the verifier of
  the interpretation (only recorded). `CANCEL_TICKET` and the
  `RESIDENT_CANCELLED_APPOINTMENT` actions are in the table but no command performs
  them; `APPLY_RESIDENT_ACCEPTANCE` is refused before the domain rule is asked.
- Clock values are reduced to the order the code compares (a visit has begun, a
  lease has run out), except in `ModelRouting`, which counts units. Authorization
  appears as the actor types a command accepts and, in `AgentRuntime` and
  `Reconciliation`, as a relation that may end.

## 8. What could come next

1. A module that runs `AgentRuntime` against `Reconciliation` in place of its environment,
   once the two state spaces are cut to one mutation.
2. Two API processes over one database: `ResidentApi` with a store per process.
