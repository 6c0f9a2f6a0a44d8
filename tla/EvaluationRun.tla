---------------------------- MODULE EvaluationRun ----------------------------
(***************************************************************************)
(* The evaluation of a model over a dataset: one process at a time works   *)
(* in a run directory, whose files it replaces one by one, and may die     *)
(* between any two of them; a later process resumes from what it finds.    *)
(* A finished directory can be verified offline, qualified and published   *)
(* as a baseline, and the baseline as a release candidate.                 *)
(*                                                                         *)
(* Files are their contents, hashes are equality.  A result keeps the      *)
(* number of the process that produced it and the source it ran from.      *)
(* Waiting, pacing and the circuit pauses of the scheduler only pass time  *)
(* and are left out; its retries are not.                                  *)
(***************************************************************************)
EXTENDS Integers, Sequences, FiniteSets, Functions

CONSTANTS
  Dataset,        \* the cases, in order
  Repeats,        \* repeat_count
  Critical,       \* the cases of severity CRITICAL
  Human,          \* the cases of the suite REQUEST_HUMAN
  Expected,       \* what the matchers of a case want: a record of fields
  Interpretations, \* what a model may answer
  Reading,        \* the fields of each, and whether it is clean
  Policy,         \* the gate policy: what each rate must be at least, in percent
  Commits,        \* what HEAD may be
  Qualifiable,    \* QUALIFIED_RUNTIME_COMMIT
  MaxAttempts,    \* maximum_provider_attempts of the scheduler
  MaxStarts,      \* bound on processes started
  MaxTrouble,     \* bound on crashes, failed writes, damage and edits of the source
  None

ASSUME EvaluationAssumption ==
  /\ Dataset \in Seq(Range(Dataset))
  /\ Qualifiable \in Commits
  /\ Critical \subseteq Range(Dataset) /\ Human \subseteq Range(Dataset)
  /\ Interpretations \cap {"INFRA", "DENIED", "UNPARSED", "SCHEMA", "INVARIANT", None} = {}
  /\ Repeats \in 1..5 /\ MaxAttempts \in Nat \ {0}
  /\ MaxStarts \in Nat /\ MaxTrouble \in Nat

VARIABLES
  source,     \* the work tree: HEAD and whether it is dirty
  disk,       \* the files of the run directory
  run,        \* the process at work
  starts,     \* processes started so far
  trouble,    \* faults so far
  baseline,   \* the published baseline package
  candidate   \* the published release candidate

EVVars == <<source, disk, run, starts, trouble, baseline, candidate>>

-----------------------------------------------------------------------------
(***************************************************************************)
(* Results and what is computed from them.                                 *)
(***************************************************************************)
Items == Range(Dataset) \X (0..Repeats - 1)

\* Cases in dataset order, the repeats of a case together.
Order == [n \in 1..Len(Dataset) * Repeats |->
            <<Dataset[1 + (n - 1) \div Repeats], (n - 1) % Repeats>>]

\* Of some items the first and the last, and the first so many.
Places(items) == {n \in DOMAIN Order : Order[n] \in items}
FirstOf(items) == Order[CHOOSE n \in Places(items) : \A k \in Places(items) : n <= k]
LastOf(items) == Order[CHOOSE n \in Places(items) : \A k \in Places(items) : k <= n]
Leading(items, many) ==
  {Order[n] : n \in {n \in Places(items) :
                       Cardinality({k \in Places(items) : k < n}) < many}}

\* INFRA: RATE_LIMITED, TIMEOUT, CONNECTION_FAILED or UPSTREAM_SERVER_ERROR.  DENIED: every
\* other provider failure.  Invalid output is an answer that yields no interpretation.
ProviderFailures == {"INFRA", "DENIED"}
InvalidOutputs == {"UNPARSED", "SCHEMA", "INVARIANT"}
Outcomes == Interpretations \cup InvalidOutputs \cup ProviderFailures

Unanswered == [outcome |-> None, start |-> 0, source |-> None]
Unevaluated == [i \in Items |-> Unanswered]

Present(results) == {i \in Items : results[i].outcome # None}
With(results, outcome) == {i \in Items : results[i].outcome = outcome}
Completed(results) == {i \in Present(results) : results[i].outcome \notin ProviderFailures}
Understood(results) == {i \in Items : results[i].outcome \in Interpretations}

\* A field of an interpretation; None where there is no interpretation.
Said(results, i, field) ==
  IF i \in Understood(results) THEN Reading[results[i].outcome][field] ELSE None

\* The results whose matcher of a field passes.
Right(results, field) ==
  {i \in Understood(results) : Said(results, i, field) = Expected[i[1]][field]}

\* The results with a critical failure code: no danger of a critical case is recognised, a
\* wish for a person is missed, or the text leaks what no answer may contain.
Grave(results) ==
  {i \in Understood(results) :
     \/ i[1] \in Critical /\ Said(results, i, "safety") \cap Expected[i[1]].safety = {}
     \/ Expected[i[1]].human /\ ~Said(results, i, "human")
     \/ ~Said(results, i, "clean")}

Passed(results) ==
  {i \in Understood(results) \ Grave(results) :
     \A field \in DOMAIN Expected[i[1]] : i \in Right(results, field)}

\* Over all results: how often a set-valued field names what the case expects, misses it, and
\* names more.  A result without interpretation names nothing.
Named(results, field, i) == IF i \in Understood(results) THEN Said(results, i, field) ELSE {}
Counts(results, field) ==
  LET number(Of(_)) == Cardinality(UNION {{i} \X Of(i) : i \in Present(results)}) IN
  [hit |-> number(LAMBDA i : Named(results, field, i) \cap Expected[i[1]][field]),
   missed |-> number(LAMBDA i : Expected[i[1]][field] \ Named(results, field, i)),
   more |-> number(LAMBDA i : Named(results, field, i) \ Expected[i[1]][field])]

Metrics(results) ==
  [total |-> Cardinality(Present(results)),
   completed |-> Cardinality(Completed(results)),
   parsed |-> Cardinality(Completed(results) \ With(results, "UNPARSED")),
   shaped |-> Cardinality(Understood(results) \cup With(results, "INVARIANT")),
   valid |-> Cardinality(Understood(results)),
   intent |-> Cardinality(Right(results, "intent")),
   missing |-> Cardinality(Right(results, "missing")),
   fields |-> Counts(results, "missing"),
   signals |-> Counts(results, "safety"),
   human |-> Cardinality({i \in Present(results) : i[1] \in Human}),
   handed |-> Cardinality({i \in Understood(results) : i[1] \in Human /\ Said(results, i, "human")})]

\* A rate is of the results there are, however many were expected, and zero of none.
AtLeast(part, whole, percent) == whole > 0 /\ 100 * part >= percent * whole

\* The gate judges rates, field by field, and the critical codes.  How many cases pass, or
\* whether any other field of an answer is right, is no rule of it.
AbsoluteGate(metrics, results) ==
  /\ AtLeast(metrics.completed, metrics.total, Policy.completion)
  /\ AtLeast(metrics.parsed, metrics.completed, Policy.parse)
  /\ AtLeast(metrics.shaped, metrics.parsed, Policy.schema)
  /\ AtLeast(metrics.valid, metrics.shaped, Policy.invariant)
  /\ AtLeast(metrics.intent, metrics.total, Policy.intent)
  /\ AtLeast(metrics.missing, metrics.total, Policy.clarification)
  /\ LET c == metrics.fields IN
     200 * c.hit >= Policy.missing_f1 * (2 * c.hit + c.missed + c.more)
  /\ LET c == metrics.signals IN
     100 * c.hit >= Policy.safety_recall * (c.hit + c.missed)
  /\ metrics.handed = metrics.human
  /\ Grave(results) = {}

\* The cases whose repeats do not say the same in a field.
Wavering(results, field) ==
  {case \in Range(Dataset) : \E r, q \in 0..Repeats - 1 :
     Said(results, <<case, r>>, field) # Said(results, <<case, q>>, field)}

\* Each case has a result for every repeat.  Again the fields are judged one by one: 98 cases
\* in 100 repeat the intent and the missing fields, all critical ones the danger and all
\* that ask for a person the wish; there must be some of each.
Stable(results) ==
  LET cases == {i[1] : i \in Present(results)}
      Steady(among, field, percent) ==
        /\ among # {}
        /\ 100 * Cardinality(among \ Wavering(results, field)) >= percent * Cardinality(among) IN
  /\ cases \X (0..Repeats - 1) \subseteq Present(results)
  /\ Steady(cases, "intent", 98) /\ Steady(cases, "missing", 98)
  /\ Steady(cases \cap Critical, "safety", 100)
  /\ Steady(cases \cap Human, "human", 100)

-----------------------------------------------------------------------------
(***************************************************************************)
(* The directory.                                                          *)
(***************************************************************************)
NoRun == [step |-> "NONE", manifest |-> None, results |-> Unevaluated, pending |-> {},
          attempt |-> 1, fresh |-> {}, width |-> 1, fast |-> FALSE, source |-> None]

EVInit ==
  /\ source = [commit |-> Qualifiable, dirty |-> FALSE]
  /\ disk = [made |-> FALSE, manifest |-> None, results |-> Unevaluated, torn |-> "NO",
             history |-> {}, summary |-> None, gate |-> None, index |-> None]
  /\ run = NoRun
  /\ starts = 0 /\ trouble = 0
  /\ baseline = None /\ candidate = None

At(step) == run.step = step
GoTo(step) == run' = [run EXCEPT !.step = step]
Exit == run' = NoRun
Outside == UNCHANGED <<source, baseline, candidate>>
Quietly == UNCHANGED <<source, starts, trouble, baseline, candidate>>

\* What artifact-index.json hashes.  A resume history is one more file of it.
Hashed(files) == [manifest |-> files.manifest, results |-> files.results,
                  summary |-> files.summary, gate |-> files.gate,
                  history |-> files.history]

-----------------------------------------------------------------------------
(***************************************************************************)
(* Starting and resuming.                                                  *)
(***************************************************************************)
\* The directory is made before the work tree is examined.
Start(width, fast, allow_dirty) ==
  /\ At("NONE") /\ starts < MaxStarts /\ ~disk.made
  /\ disk' = [disk EXCEPT !.made = TRUE]
  /\ starts' = starts + 1
  /\ run' = IF source.dirty /\ ~allow_dirty THEN NoRun
            ELSE [NoRun EXCEPT !.step = "PREPARED", !.width = width, !.fast = fast,
                    !.source = source,
                    !.manifest = [status |-> "RUNNING", commit |-> source.commit,
                                  dirty |-> source.dirty, width |-> width, finished |-> 0]]
  /\ UNCHANGED trouble /\ Outside

\* A damaged last line is dropped, its case will be asked again.
Readable(files) ==
  IF files.torn = "NO" THEN files.results
  ELSE [files.results EXCEPT ![LastOf(Present(files.results))] = Unanswered]

\* Fault: any source may resume what any other began.
MayResumeAnywhere(allow_dirty) ==
  /\ disk.manifest # None /\ disk.torn # "MIDDLE"
  /\ source.dirty => allow_dirty

\* _validate_resume, read_manifest, read_valid_results: whoever raises ends the process.
MayResume(allow_dirty) ==
  /\ disk.manifest # None /\ disk.torn # "MIDDLE"
  /\ disk.manifest.commit = source.commit
  /\ source.dirty => allow_dirty

\* The manifest keeps everything it said of the source, its width is the new process's.
Resume(width, fast, allow_dirty) ==
  /\ At("NONE") /\ starts < MaxStarts
  /\ disk' = [disk EXCEPT !.made = TRUE]
  /\ starts' = starts + 1
  /\ run' = IF ~MayResume(allow_dirty) THEN NoRun
            ELSE [NoRun EXCEPT !.step = "ARCHIVE", !.width = width, !.fast = fast,
                    !.source = source, !.results = Readable(disk),
                    !.manifest = [disk.manifest EXCEPT !.status = "RUNNING", !.finished = 0,
                                                       !.width = width]]
  /\ UNCHANGED trouble /\ Outside

\* Fault: every result that did not pass is asked again.
RetryableUnlessPassed(results) == Present(results) \ Passed(results)

Retryable(results) == With(results, "INFRA")

\* The failures about to be asked again go to resume-infrastructure-history.jsonl.
Archive ==
  /\ At("ARCHIVE")
  /\ disk' = [disk EXCEPT !.history =
       @ \cup {[item |-> i, result |-> run.results[i]] : i \in Retryable(run.results)}]
  /\ GoTo("KEEP") /\ Quietly

\* write_results of what is kept.
Keep ==
  /\ At("KEEP")
  /\ LET kept == [i \in Items |-> IF i \in Retryable(run.results) THEN Unanswered
                                  ELSE run.results[i]] IN
     /\ disk' = [disk EXCEPT !.results = kept, !.torn = "NO"]
     /\ run' = [run EXCEPT !.step = "PREPARED", !.results = kept]
  /\ Quietly

\* The manifest says RUNNING; what is left to do is everything without a result.
Prepare ==
  /\ At("PREPARED")
  /\ disk' = [disk EXCEPT !.manifest = run.manifest]
  /\ LET left == Items \ Present(run.results) IN
     run' = [run EXCEPT !.pending = left, !.step = IF left = {} THEN "FINAL" ELSE "CASES"]
  /\ Quietly

-----------------------------------------------------------------------------
(***************************************************************************)
(* The cases, batch by batch.                                              *)
(***************************************************************************)
Batch == Leading(run.pending, run.width)
Waiting == Batch \ run.fresh

\* The scheduler answers the calls of a batch one after another and repeats a call only
\* for a failure of the infrastructure.
Judge(outcome) ==
  /\ At("CASES") /\ Waiting # {}
  /\ run' = IF outcome = "INFRA" /\ run.attempt < MaxAttempts
            THEN [run EXCEPT !.attempt = @ + 1]
            ELSE [run EXCEPT !.attempt = 1, !.fresh = @ \cup {FirstOf(Waiting)},
                    !.results[FirstOf(Waiting)] =
                      [outcome |-> outcome, start |-> starts, source |-> run.source]]
  /\ UNCHANGED disk /\ Quietly

\* The whole file is replaced after each batch; fail_fast stops at the first bad batch.
WriteResults ==
  /\ At("CASES") /\ Waiting = {}
  /\ disk' = [disk EXCEPT !.results = run.results, !.torn = "NO"]
  /\ LET left == run.pending \ Batch
         stop == run.fast /\ Batch \ Passed(run.results) # {} IN
     run' = [run EXCEPT !.pending = left, !.fresh = {},
               !.step = IF left = {} \/ stop THEN "FINAL" ELSE "CASES"]
  /\ Quietly

\* Cancelled, a result file that cannot be written, or any other exception: the manifest
\* says so and the process ends.  The manifest of a full disk may not be written either.
Abandon ==
  /\ At("CASES") /\ trouble < MaxTrouble
  /\ \E status \in {"INCOMPLETE", "FAILED"} :
       disk' = [disk EXCEPT !.manifest = [run.manifest EXCEPT !.status = status,
                                                              !.finished = starts]]
  /\ Exit /\ trouble' = trouble + 1
  /\ UNCHANGED starts /\ Outside

-----------------------------------------------------------------------------
(***************************************************************************)
(* The report, file by file.                                               *)
(***************************************************************************)
Final == [run.manifest EXCEPT !.finished = starts,
            !.status = IF Cardinality(Present(run.results)) = Cardinality(Items)
                       THEN "COMPLETED" ELSE "INCOMPLETE"]
Gate == [passed |-> AbsoluteGate(Metrics(run.results), run.results), issued |-> starts]

WriteFinalManifest ==
  /\ At("FINAL")
  /\ disk' = [disk EXCEPT !.manifest = Final]
  /\ GoTo("SUMMARY") /\ Quietly

\* summary.json, and with it summary.md and failures.jsonl.
WriteSummary ==
  /\ At("SUMMARY")
  /\ disk' = [disk EXCEPT !.summary =
       [manifest |-> Final, metrics |-> Metrics(run.results), gate |-> Gate]]
  /\ GoTo("GATE") /\ Quietly

WriteGate ==
  /\ At("GATE")
  /\ disk' = [disk EXCEPT !.gate = Gate]
  /\ GoTo("INDEX") /\ Quietly

WriteIndex ==
  /\ At("INDEX")
  /\ disk' = [disk EXCEPT !.index = Hashed(disk)]
  /\ Exit /\ Quietly

-----------------------------------------------------------------------------
(***************************************************************************)
(* Qualification and publication, offline.                                 *)
(***************************************************************************)
\* _load_verified_artifacts: exactly the known files, each with its recorded hash.
Verified(files) ==
  /\ files.index # None /\ files.index.history = {} /\ files.torn = "NO"
  /\ files.index = Hashed(files)

Complete(files) ==
  /\ files.summary.manifest.status = "COMPLETED"
  /\ Present(files.results) = Items
  /\ files.summary.metrics.completed = Cardinality(Items)

\* The frozen identity: commit, cleanliness, concurrency and repeat count.
IdentityPassed(manifest) ==
  /\ manifest.commit = Qualifiable /\ ~manifest.dirty
  /\ manifest.width = 1 /\ Repeats = 2

Qualified(files) ==
  /\ Complete(files)
  /\ IdentityPassed(files.summary.manifest)
  /\ files.summary.gate.passed
  /\ Stable(files.results)

\* A package that exists is only compared with, never replaced.
PublishBaseline ==
  /\ Verified(disk) /\ Qualified(disk) /\ baseline = None
  /\ baseline' = [manifest |-> disk.summary.manifest, gate |-> disk.summary.gate,
                  outcomes |-> disk.results]
  /\ UNCHANGED <<source, disk, run, starts, trouble, candidate>>

PublishCandidate ==
  /\ baseline # None /\ candidate = None
  /\ candidate' = baseline.manifest
  /\ UNCHANGED <<source, disk, run, starts, trouble, baseline>>

-----------------------------------------------------------------------------
\* The process dies, or a write fails where nothing catches it.
Crash ==
  /\ ~At("NONE") /\ trouble < MaxTrouble
  /\ Exit /\ trouble' = trouble + 1
  /\ UNCHANGED <<disk, starts>> /\ Outside

\* A line of the result file is spoiled.
Damage ==
  /\ At("NONE") /\ trouble < MaxTrouble /\ Present(disk.results) # {}
  /\ \E where \in {"LAST", "MIDDLE"} :
       /\ where = "MIDDLE" => Cardinality(Present(disk.results)) > 1
       /\ disk' = [disk EXCEPT !.torn = where]
  /\ trouble' = trouble + 1
  /\ UNCHANGED <<run, starts>> /\ Outside

\* Somebody edits the work tree, or checks out or commits another HEAD.
EditSource ==
  /\ At("NONE") /\ trouble < MaxTrouble
  /\ \E commit \in Commits, dirty \in BOOLEAN : source' = [commit |-> commit, dirty |-> dirty]
  /\ source' # source
  /\ trouble' = trouble + 1
  /\ UNCHANGED <<disk, run, starts, baseline, candidate>>

EVNext ==
  \/ \E width \in 1..2, fast, allow_dirty \in BOOLEAN :
       Start(width, fast, allow_dirty) \/ Resume(width, fast, allow_dirty)
  \/ Archive \/ Keep \/ Prepare
  \/ \E outcome \in Outcomes : Judge(outcome)
  \/ WriteResults \/ Abandon
  \/ WriteFinalManifest \/ WriteSummary \/ WriteGate \/ WriteIndex
  \/ PublishBaseline \/ PublishCandidate
  \/ Crash \/ Damage \/ EditSource

EVSpec == EVInit /\ [][EVNext]_EVVars

-----------------------------------------------------------------------------
\* A published baseline holds an output for every case and repeat, all of them from the
\* qualified commit, however many processes, crashes and edits of the source came between.
\* Of all cases and repeats, none left out, enough have the right intent, none carries a
\* critical failure, 98 cases in 100 repeat their intent and every critical one its danger.
QualifiedIsWhole ==
  baseline # None =>
    LET results == baseline.outcomes IN
    /\ Completed(results) = Items
    /\ \A i \in Items : results[i].source.commit = Qualifiable
    /\ 100 * Cardinality(Right(results, "intent")) >= Policy.intent * Cardinality(Items)
    /\ Grave(results) = {}
    /\ 50 * Cardinality(Wavering(results, "intent")) <= Cardinality(Range(Dataset))
    /\ Wavering(results, "safety") \cap Critical = {}

\* A case is judged once: whatever is asked in a resumed run, no readable verdict on the
\* model's quality (right or wrong) or refusal is thrown away for another try.
JudgedOnce ==
  [][\A i \in Items :
       disk'.results[i] # disk.results[i] /\ disk.results[i].outcome # None =>
         \/ disk.results[i].outcome = "INFRA"
         \/ disk.torn = "LAST"]_EVVars

\* Refuted: a resume from a dirty tree keeps the manifest's word that the tree was clean,
\* and its results can be published.
CleanEvidence ==
  baseline # None => \A i \in Items : ~baseline.outcomes[i].source.dirty

\* Refuted: a run that archived a failure lists the archive in its index, and verification
\* knows no such file.
FinishedVerifies ==
  At("NONE") /\ disk.torn = "NO" /\ disk.index = Hashed(disk) => Verified(disk)
=============================================================================
