# A TLA+ development for the data-quality platform

The platform runs data-quality checks on BigQuery tables and Kafka topics.  Rules are
YAML files; a publisher turns a checkout of them into an immutable *manifest* in a bucket
and moves a pointer to it; an engine follows the pointer, accepts triggers over HTTP (or
closes windows of a Kafka topic), runs the checks of a rule and appends what happened to
two tables.  Alerts and metrics are side effects of those appends.

The modules here model the parts of it that hold state and meet each other concurrently,
and the decisions those parts have to agree on.  Each definition follows the Go source
(the rule schemas and the check catalog for three of them); `PROJECT.json` gives the lines.

## 1. Inventory

### Engine (`src/engine`)

| Part | State | Operations | What makes it hard |
|---|---|---|---|
| Result tables (`internal/results`) | `dq_executions`, `dq_check_results`, append-only; a canonical view keeps the newest row of an execution | create at boot, two inserts, canonical query, list of old `running` rows, count of running executions, history and continuity joins | an insert may land without an answer, or twice; equal timestamps; several attempts per execution; half-made schema |
| Runner (`internal/runner`) | per attempt: start time, results so far, alert deduper | `Run`: precheck, `running` row, per check evaluate/write/alert, terminal row, metric, alert | crash, cancel or lost write between any two steps; attempts that share an execution id; panics |
| Alerts (`internal/alerts`) | per-attempt set of keys | category mapping, dedup, best-effort publish | never ahead of the row it speaks of |
| Orphan detector (`internal/orphan`) | candidates of a pass | list, then one `aborted` row and alert each | does not look again before writing; repeated passes; failed writes |
| Loader (`internal/loader`) | last manifest hash | startup load, refresh with short-circuit, contract checks | pointer moves at any time; refused or failed refresh must keep the old manifest |
| Trigger handler, decoder (`internal/api`) | in-flight request | decode, capture manifest, identity, resolve checks, dispatch goroutine, recover | manifest swapped while the request is resolved; three parts refuse what the identity cannot bear |
| Record runner (`internal/runner/record_runner.go`) | per entity: watermark, active window, late count; broker offsets | handle record, close and dispatch window, commit with retry | order across partitions, lateness, replay after restart, failed dispatch or commit |
| Process (`cmd/dq-engine`) | manifest holder, goroutines | boot, refresh loop, scan loop, queue-depth loop, drain, exit | a signal or a kill anywhere; goroutines that hang; loops and handlers share only the holder and the tables |
| Evaluators (`internal/eval`) | none | verdict per check kind, history baseline | joins over append-only tables, sparse history, parameters the schema cannot constrain |
| Rule spec, cost guardrails, catalog (`internal/dsl`) | none | parse, validate, cost verdict | agreement with linter, publisher and migrator |
| Logging, environment, metrics | levels, constants, counters | parse `DQ_LOG_LEVELS`, select an environment | longest-prefix lookup |

### Tools (`src/tools`)

| Part | State | Operations | What makes it hard |
|---|---|---|---|
| Publisher (`manifest`) | the bucket: content-addressed objects and one pointer | collect rules and inline references, verify, write rule bodies, write manifest, read generation, conditional pointer write, dry run | several CLIs at once, a failure anywhere |
| Rollback (`manifest`) | the same | read target, read generation, read prior pointer, conditional write, dry run | generation and body are read in two calls |
| Linter, migrator, dry run, path containment, external references | the checkout | checks and rewrites of files | agreement with the publisher and with the engine |

How they interact: linter, dry run and migrator judge or rewrite a checkout that the
publisher later collects; publishers and rollbacks write the bucket; the loader reads
pointer and manifest; a trigger reads the holder twice and a rule body once, then starts
an attempt; an attempt writes the tables; the orphan detector, the queue-depth loop and
the history baseline read them, and the detector also writes.

## 2. Modules

State machines:

| Module | Models | State | Steps |
|---|---|---|---|
| `ResultStore` | both tables and the queries over them | `execRows`, `checkRows` (the distinct rows), `copies` (the bag of all rows), `clock` | inserts that succeed, are lost, land without an answer, or are repeated by the client and land twice |
| `Alerts` | `internal/alerts` | `published` | `Publish`, which may be lost |
| `Runner` | `Runner.Run`, its goroutine, the process around it | `pc` and memory per attempt, `engine`, `runsTotal` | one per write, read of the time, evaluation and emission; `Shutdown`, `Exit`, `Boot` |
| `AttemptContract` | what the tables promise a reader about one attempt | `of`, `stage`, `findings`, `verdict` | `Open`, `Find`, `Close`, `Refuse` |
| `RunnerContract` | the refinement mapping from `Runner`'s tables to `AttemptContract` | | |
| `Baseline` | history query of `ComputeBaseline` and the sparse-history verdict, over `Runner`'s tables | | |
| `OrphanDetector` | `Detector.RunOnce` and its loop | `scanning`, `candidates` | `Scan`, `Finalize`, `EndPass`, `AbandonPass` |
| `OrphanScan` | detector + executions that keep its contract | `life`, `started` | |
| `ExecutionLifecycle` | detector + queue-depth loop + `Runner` in one process | `queueDepth` | |
| `Publication` | `Publisher.Publish`, `Rollback.Execute` | bucket, `pc`, what each process read | one per store call |
| `ControlPlane` | `Publication` + loader + holder + trigger handler | `active`, `loader`, requests | one per store call or access to the holder |
| `PointerContract` | what commands and engine promise about the pointer: a log, appended to in one instant, served forwards | `history`, `ended`, `answer`, `serving`, `at` | `Install`, `GiveUp`, `Serve`, `Stop` |
| `ControlPlaneContract` | the refinement mapping from `ControlPlane` to `PointerContract` | two history variables, `readAt` and `heldAt` | those of `ControlPlane` |
| `RecordRunner` | `RecordRunner` poll loop, and the consumer group's offsets | topic, the client's marks, committed offsets, watermark, active window, dispatches | `HandleFetched`, dispatch, commit attempts, `Restart` |
| `DeliveryContract` | what record mode promises about a topic: which records a run holds and when they are settled | `topic`, `resume`, `runs` | `Run`, `Settle` |
| `RecordDelivery` | the refinement mapping from `RecordRunner` to `DeliveryContract` | | |
| `RuleLifecycle` | a rule from the checkout to a verdict | checkout, workspace, tool verdicts, registry, engine, last answer | `Edit`, `Migrate`, `Lint`, `RunDryRun`, `Publish`, `Boot`, `Stop`, `Refresh`, `Trigger`, `CloseWindow` |
| `EngineProcess` | `main` and the handlers of its listener | pointer, dataset, boot stage, environment, holder, goroutines, requests | one per boot call; `Publish`, `Refresh`, `HandleTrigger`, `Resolve`, `Signal`, `Crash`, `Shutdown`, `Tick`, `Drained`, `Exit`, `Close` |

Decisions, as operators those machines use:

| Module | Models |
|---|---|
| `RuleSpec` | `spec.Parse` and its validators, `EvaluateCost`, `ToCheckSpecs` |
| `ExternalRefs` | `pathsafe.Resolve`, and how the linter and the publisher each read an artifact |
| `Linter` | both rule schemas, the catalog's parameter schemas, the cross checks, the owner checks, the exit status of `dq-lint` |
| `RuleCollection` | `collectRules`, inlining, the verifications of `Publish`, the bodies of the manifest |
| `Migrator`, `DryRun` | `V1ToV2`; which checks are priced and the exit status of `dq-dryrun` |
| `Evaluators` | dispatch by kind, parameter errors, verdicts |
| `TriggerDecoder` | the strict decoder, the `execution_id` formula, `validateTrigger`, the publisher's check of the version |
| `LogLevels` | `DQ_LOG_LEVELS` and the level of a component |

`MC*` modules only define the constants of the instances; `*Proofs` modules hold the
theorems.  An operator described as a change to the next definition ("a write that failed
tried again in the same pass") is a seeded fault: `PROJECT.json` lists, for each property,
one that breaks it.

What the modules abstract.  Ids, hashes, rule bodies and payloads are model values; since
objects are content addressed an object *is* its hash.  In `Publication` and
`ControlPlane` the verdict of the verifications and of the contract checks is a set of
manifests; `RuleCollection` defines the former.  In `Runner` an evaluation gives any
result; `Evaluators` says which.  A failed call to BigQuery, the bucket or the broker has
either happened or not (`"ambiguous"`, `"lost"`), and an insert the client repeats lands
twice (`"repeated"`, `bigquery_store.go:28-37`).  `Runner`'s clock moves on its own or
stands still, so that two rows may have the same time; it does not run backwards.  A panic
may end `Run` at any of its steps.  Kafka is external: the client keeps the highest mark
of each partition, also over commits that failed, and a commit flushes all marks.  A rule
is a record of the fields that some part decides on; an identifier, a table name, a
duration or a timestamp is the class its validators put it in; a string the identity joins
is the sequence of its symbols, so that a separator inside it shows.  SHA-256 is taken to
be injective.  What a rule file, a request or an environment may hold is a type
(`RuleType`, `RequestType`, `PairType` and the types they are made of): the strings are a
constant `Text`, those that may stand for an entity `Names`; `Malformed` and `Overflow`
are a duration that does not parse or does not fit, `Huge` an integer of 2^63 to 2^64 - 1,
which YAML decodes and the engine's conversions refuse.  A file that cannot be read and
one that does not decode are told apart where a tool does.  The price of a count query is
BigQuery's estimate for its table (`Estimate`), which is what the dry run compares; what
the query scans at run time is not in the model.  The 5 s of the drain and the 10 s of the
wait are counters of ticks.  `Format` is `time.Format` of the standard library, of which
the model says what the formula needs: different seconds have different texts, none with a
separator in it.

## 3. What the runs check

Passing runs:

| Run | Instance | Shows |
|---|---|---|
| `runner` | two attempts, three executions (one check; one check listed twice; none), clock to 1, one repeated insert, attempts symmetric | a terminal row is explained by its own attempt's check rows; what the canonical view shows as running has not ended; `dq_runs_total` never runs ahead of the table; alerts follow their rows, once per finding; the history query joins each check row to its own attempt's `running` row and at most its terminal one; the tables implement `AttemptContract` |
| `orphan_scan` | three attempts at two executions, threshold 2, clock to 5 | only abandoned attempts are aborted, once, alerts are backed, and every orphan is finalized |
| `control_plane` | a publisher, a second one whose checkout does not verify, a rollback, one request, two starts of the engine, a bucket that is empty or holds two manifests of which the engine refuses one | no version of the pointer dangles; reports of success are true; the engine serves only published, compatible, complete manifests; no rule body is missing; commands and engine implement `PointerContract`; the engine catches up with a pointer that settles |
| `record_runner` | three topics, two restarts, one failed dispatch, three commit attempts | every committed record was dispatched or reported late; with ordered input every execution of a window is whole; between restarts windows are evaluated once and in order; a drop is counted by one run; windows have identities of their own; runs and commits implement `DeliveryContract` |
| `rule_pipeline` | a well-formed rule of each kind and its deviations, 13 workspaces, one edit, every answer of the stores | what a clean lint is worth: the publisher takes it, the bodies are self-contained, the engine parses and dispatches them; a boot refuses its rules only for named reasons; a count query that is issued was priced; the evidence ceiling holds at run time; verdicts are monotone; migration keeps a rule lint-clean |
| `engine_process` | ten process environments, three versions, two requests of 19 kinds (five of them accepted), two starts, one tick of drain and two of wait | no trigger is answered 500 or 503; what the handler accepts the runner accepts; identities are injective; tables come before writers; an orderly stop cuts a handler off only after the whole drain; log levels are those of the longest prefix; a signalled process ends, unless the flush of its alerts publisher keeps it |

`ShownRunningIsOpen` looks at all attempts at an execution.  It does not say that a verdict
stays visible: the canonical view shows the newest row whoever wrote it, so a retry hides an
earlier verdict until it ends.  A `running` and a terminal row with the same time may be
shown in either order.

`SamplesJoined` says what a sample is joined to; how often it is counted then depends on the
copies of those rows: a finished attempt alone counts it twice (`min_samples`), and each row
that was inserted twice multiplies it again.

`CountsPriced` says less than the name of the ceiling, `MaxBytesScannedPerRun`, does: the
dry run prices a count over a placeholder day (`dryrun.go:50-57`), a trigger may name a longer
window, and the history query of a baseline is priced by nobody (`dryrun.go:292-299`).

`WindowsAdvance` follows from a fact worth knowing: the watermark never passes the end of
the active window between records, so neither grace-period comparison in `handleFetched`
ever changes what happens (lemma `GraceNeverOver`) and `lateness_tolerance` has no effect.
A window closes with the first record of a later window from any partition, so a record of
a slower partition, or one that is late by less than the tolerance, is dropped.  ADR-0024
(lines 63-70 and 115-132) and the comments at `record_runner.go:168-170`, `250-251` and
`336-340` have the window close when the watermark, the minimum over the partitions, has
passed its end by the tolerance.

The contracts say in one place what several properties touch on.  `PointerContract` makes
a command atomic: it reads generation and pointer, and writes, in three calls, yet takes
effect in one step, at most once, and what it answers (the generation and, from a
rollback, the manifest it replaced) is true of that step; an ambiguous write may leave an
effect without an answer, never an answer without the effect.  The engine's position in
the log never decreases, not by a slow load that ends after the pointer has moved, and not
by a restart.  Two versions may name the same manifest, so the position is not in the
engine's state: `readAt` and `heldAt` record it and constrain nothing.  `DeliveryContract`
is at-least-once delivery with an end: a record may run again until the offsets settle it,
never after; offsets move only right after a successful run, to behind a record of some
successful run, and over no record that no run has held or reported as late.  The run
behind whose record they come to lie need not be the last: marks of a window whose commit
was given up stay in the client, and the next commit flushes them.  It does not say that a
settled record was evaluated by a successful run: `record_failed` shows it need not be.

`RefusalExplained` and `BootRulesServed` belong together: a refresh reads no rule body,
so a running engine takes a manifest on which it could not boot, and answers triggers of
the offending rule with an error until it is restarted, when the boot fails.  A boot that
cannot read a body or create a Kafka client ends too, and says nothing about the rules.

Runs that end in a violation, each of a sentence the repository states:

| Run | Sentence | What happens |
|---|---|---|
| `crash_finalization` | the detector closes executions left by a crash (`orphan.go:9-12`) | the runner's `running` row has no `started_at`, the scan requires one: it is never listed |
| `plan_isolation` | an execution is isolated against the manifest active at plan creation (`main.go:305-308`) | the holder is read twice, with a refresh in between |
| `record_failed` | records of a failed dispatch remain uncommitted (`record_runner.go:389-392`) | the next window's commit covers them |
| `record_reflow` | late records never reflow into a closed execution (ADR-0024) | after a restart the first record read is the late one, and opens its old window |
| `min_samples` | `min_samples` counts pass rows (ADR-0032) | the join with `dq_executions` doubles them |
| `scheduled_rule` | `schedule` is an optional field the engine does not interpret (`v2.schema.json:42`) | the engine's strict decoder has no such field and refuses the rule: 502 to a trigger, and the next boot fails |

Other places where a comment and the code part, met while modelling and not given a run:
ADR-0005 (lines 88-94) has at most one of two racing publishers succeed, while each reads
the generation it compares with only after writing its objects, so both succeed when one
finishes before the other reads it; `decoder.go:228-236` says the timestamp pattern admits
exactly what the layout parses, while the pattern counts digits (30 February passes it and
the handler panics, recovered by `net/http`); `tools/lint/main.go:86` goes on to the owner
checks with a nil `Owners` after an invalid `_owners.yaml`; `migrate.go:43` says unknown
fields are not rejected, while line 114 decodes strictly; nothing orders `warn_rate` below
`fail_rate`, which `VerdictMonotone` shows to be harmless; ADR-0024 (lines 153-164) has a
topic without traffic fail its window and raise an alert, while in the code its last window
stays open; `record_runner.go:254-257` says a window dropped at shutdown becomes a late
drop, while lines 389-392, ADR-0058 and the code have it run again; the catalog takes any
integer for `evidence_sample_size`, the cost guardrail lets one beyond `int` pass
(`cost.go:88-97`) and the evaluator refuses it, as `LintedDispatches` says;
`server.go:74-75` says a failing listener surfaces via the shutdown path, while `main` only
logs it; `server.go:88-89` says requests beyond the drain's deadline are forcibly closed,
while `Shutdown` leaves them to the end of the process; `pubsub_publisher.go:80-86` says the
10 s wait bounds the publisher's flush, while the flush is a deferred call after it, so a
flush that hangs keeps the process.

### Bounds

Two attempts are enough for everything that depends on who wrote a row, since attempts
meet only in the tables; three in `orphan_scan` put two on one execution and one on
another.  `LongListApart` in `runner` keeps the two-row list from running beside the
one-row list; every other pair of lists runs together.  `MishapsApart` leaves a repeated
insert, and a panic after the first result, to a single attempt at work: each concerns the
rows of one attempt only.  `MaxRepeats` bounds the rows that are there twice.  The clock
bounds let a row be older than, exactly as old as, and younger than the threshold.  A
publisher and a rollback give every order of a loser, a winner and a writer between the
two reads of a rollback; every command makes the conditional write by the same call, and
the proofs hold for any number of them.  `Histories` starts the bucket empty (generation
0) or after two completed publications, the older of which the engine refuses, so that a
rollback can return to it.  The second start of the engine loses the holder and the
loader's hash.  The topics hold five to seven records: at least three windows, two records
in one window, a skipped window, a late record that a later commit covers and one that
none covers, and a partition that lags; `Second` equals the window so that truncation is
at its boundary.  `Rules` of `MCRuleLifecycle` takes every check under the source of its
mode, every source under a plain check, and every other field away from its well-formed
value one at a time, since each validator looks at one field or one pair.  The versions
and entities of `MCEngineProcess` run into each other when they are joined without a
separator, or with one that may occur in them, and the accepted requests differ in each
field of the identity.  `VarietyApart` has requests of every kind meet in the first
service, while its end and the second start go with one kind of request.  `DrainTicks` and
`WaitTicks` are small: what matters is before, at and after a deadline.  `MaxBoots`,
`MaxRestarts`, `MaxFailures`, `MaxEdits` and `MaxTime` are guards on the bounded counters
only.

The type invariants of the state machines are theorems, for every instance, and are not
repeated in the runs.

Deadlock is checked in the runner and detector runs.  In the others processes really end:
a CLI exits, a request is answered, a finite topic is read to its end, the process stops.

### Fairness

`OrphanScan` and `ExecutionLifecycle`: the loops are tickers in goroutines of their own
(weak fairness of a scan, of the end of a pass), and a store that is asked again on every
pass does not refuse for ever (strong fairness of a successful write).  Attempts end, and
a supervisor restarts the process.  `ControlPlane`: the refresh ticker fires, every store
call returns, and a read that is tried on every tick succeeds in the end.
`EngineProcess`: a boot call returns, time passes, and `main` goes on when the signal, the
5 s of the drain or the 10 s of the wait are there; nothing is assumed of handlers,
goroutines or record runners, which may hang, nor of the publisher's flush: the deferred
close is fair only where no topic is configured and the publisher has nothing to flush.
Nothing is assumed of publishers, triggers, crashes or of a pass being abandoned.

## 4. What is proved

All theorems hold for any sets of attempts, executions, publishers, manifests, entities,
requests, partitions, topics, rules, workspaces and environments and any check lists,
under the `ASSUME`s of the component modules: types of the constants, `Null` distinct from
values, `Threshold >= MaxDuration` for the detector, completed publications in
`Histories`, the two facts about `Format` above, and that the owners file, which the
linter holds to its schema, has no mode but the schema's (`OwnersModes`).  Every safety
property that a passing run checks is also a theorem.

**`RunnerProofs`.**  `TerminalExplained` is not inductive: it says nothing about an
attempt that has not written its terminal row.  `IndInv` adds what the attempt's memory
(`results`) has to do with its rows: a check row is a result of its attempt; at the top of
the check loop every result has its row; a terminal row exists only past the terminal
write, and then the memory is complete and frozen.  From it: `TypeCorrect`,
`TerminalExplainedCorrect`, `AlertsBackedCorrect`, `TerminalIsFinalCorrect` (an action
property, implied by the contract below and kept as a theorem only) and `OneAlertCorrect`.

**`RunnerContractProofs`.**  `Visible` gives the rows of an attempt at each point of
`Run`: none before the first write, the `running` row while checks run, then at most the
terminal row beside it, stamped no earlier.  From it and `IndInv`: `ShownRunningCorrect`,
`MetricsBackedCorrect`, and the refinement `KeepsContractCorrect`: the initial state maps
to the initial contract, and each step to `Open`, `Find`, `Close`, `Refuse` or a stutter.
`SamplesJoinedCorrect` is about the join of the history query: `SampleInv` gives every check
row the `running` row of its attempt, which `Run` had acknowledged before the first check,
and `Visible` leaves the attempt one other row at most.

**`OrphanScanProofs`.**  A pass uses its list later without looking again, so
`CandidateInv` says what a listed row still says when it is used; the threshold gives that
its attempt is no longer at work, the canonical view that it was neither finished nor
aborted.  From it `OnlyAbandonedAbortedCorrect`, `FinalizedOnceCorrect`,
`ScanTypesCorrect` and `AbortAlertCorrect`.

**`PublicationProofs`.**  `PubInv` says, per program counter, what a process has put in
the bucket (`PublisherInv`), what it has read (`RollbackInv`, `GenerationInv`: an expected
generation is never ahead of the bucket's), and that a manifest in the bucket has all its
rule bodies.  From it `NoDanglingCorrect`, `ReportsTrueCorrect`, `PubTypeCorrect`.

**`ControlPlaneProofs`.**  `CPInv` contains `PubInv`; the bucket only grows (lemma
`Growth`), so what the loader and a request saw stays true however many publishers and
rollbacks run meanwhile.  From it `CPTypeCorrect`, `ServesPublishedCorrect`,
`NoRuleMissingCorrect`, and `BucketNoDanglingCorrect` and `BucketReportsTrueCorrect`, the
publication results in the composition.  `PointerAppendOnly` is an action property: a step
of a command leaves the log as it is or appends one verified manifest.
`KeepsPointerContractCorrect` is the refinement.  `HistoryInv` orders the version held,
the version read and the length of the log, and says that a body about to be fetched is
the one its version named; of `PubInv` it uses that a rollback whose expected generation
is still the bucket's has read the manifest that is there (`RollbackInv`), which is what a
write that succeeds replaces.  `CommandRefines` maps each store call to `Install`,
`GiveUp` or a stutter, `PointerRefines` the loader's steps to `Serve`, the end of the
process to `Stop`.

**`RecordRunnerProofs`.**  The invariant follows every polled record: it is in a
dispatched window, in the active one, among the dropped ones, or it is the record that is
closing the window (`AccountInv`); and it places the watermark and the closing record
relative to the active window (`WindowInv`); what lies below a mark of the client is in a
dispatch, as its window or as late (`MarkedAccounted`).  From it
`CommittedAccountedCorrect`, `OwnWindowOnlyCorrect`, `WindowsAdvanceCorrect`,
`LateCountedOnceCorrect`, `WindowsIdentifiedCorrect`, `RecordTypesCorrect`.
`WindowsCompleteCorrect` needs a second invariant, `OrderInv`, of one partition in
event-time order: the committed offset lies between two windows (`Boundary`), so that
every replay starts at the first record of a window, and the active window holds all of
its records that were polled (`ActiveHolds`).  It rests on `AlignedMonotone`, that
truncation keeps the order of times.  `KeepsDeliveryCorrect` is the refinement of
`DeliveryContract`.  Its invariant `FreshInv` says that the active window and the
unreported drops are above the committed offsets until their run is made, and so is the
record that closed the window; above the marks too, since a later commit may flush them.
The last part is the delicate one, and holds because `commitWithRetry` marks the window's
own records only (`MarkBehindPending`).  A dispatch is then a `Run`, a commit that reached
the broker a `Settle` (`Marked` says which offsets it moves), and polling and a restart
stutter.

**`RuleLifecycleProofs`.**  The body that reaches the engine is the linted file with its
references replaced, so the proof is a comparison of validators: what schema, catalog and
cross checks accept, the inlined body satisfies the parser's and the evaluators'
conditions (lemmas `SourceParses`, `InlinedKeeps`, `BodyIs` and those after them).
`PipelineInv` carries it through edits, publications, boots and refreshes.  It is
`TypeOK`; `ToolInv`, that a verdict of a tool is of the checkout as it is, and that a
published manifest is `Sound` if the checkout was linted and `Priced` if it was dry-run;
and `EngineInv`, that the manifests of the engine are such manifests and that an answer
(`AnswerOK`) is the evaluation, on the input it names, of the checks of a body that passed
the parser and the guardrails.  From it `TypeCorrect`, `LintedPublishesCorrect`,
`LintedParsesCorrect`, `LintedSelfContainedCorrect`, `RefusalExplainedCorrect`,
`BootRulesServedCorrect`, `CountsPricedCorrect`, `LintedDispatchesCorrect`,
`EvidenceBoundedCorrect`, `VerdictMonotoneCorrect` and `MigrationLintsCorrect`.  In
`EvidenceBounded` a ceiling of 0 is no ceiling, as in `cost.go`.

**`EngineProcessProofs`.**  `EngineInv` says, stage by stage of the boot, what has been
established (`Established`), and of every request what its phase implies (`ReqOK`): a
trigger that is being resolved or was answered 200 is one the decoder accepted, whose
window is two dates, and whose parts the formula does not refuse.  From it
`EngineTypesCorrect`, `NoInternalErrorCorrect`, `NoHandlerCutCorrect`,
`AcceptedTriggersRunCorrect`, `TablesBeforeWritersCorrect`, and two results about pure
functions.  `IdentityInjectiveCorrect`: the formula escapes nothing, yet the joined string
has its five parts in it.  `SplitPipe` finds the first separator of two equal strings at
the same place, `CatSplits` cuts one part off there, and `JoinedTextSplits` does it four
times; only the trigger source, the last part, could hold a separator unharmed.
`LongestPrefixWinsCorrect`: `ResolveLevelIs` says what the walk of `resolveLevel` from a
component to its prefixes returns.  Its recursion is over the segments of a name; in place
of an induction the proof exhibits the function (`Shorten`), which a least counterexample
shows to be the one defined.  `Configured` carries what `readEnv` has checked of
the environment.  `AnswersFinalCorrect` is an action property: whatever a handler, an
attempt, the end of the process or its next start does, an answer that was given stays,
with the request and the version behind its `execution_id`.  It needs `OneAnswer`, that a
handler still resolving has answered nothing.

Model-checked only.  Liveness (`OrphansFinalized`, `Converges`, `EngineStops`), since the
proof system reaches neither fairness nor `ENABLED`.  The
runs that end in a violation are counterexamples, and need no proof.

## 5. Not modelled

- The text of rows, alerts, logs and reports, and the column encodings.
- `LatestExecutionPerEntityCheck` beyond its join; histograms and the other counters.
- Read, write and idle timeouts of the HTTP server; the health and metrics endpoints.
- Integers of a rule from 2^64 on, and those written with an exponent, which YAML decodes
  to a float whose conversion the machine decides; sample sizes that fit `int` and not the
  memory of the process; the bytes a query scans.
- A wall clock that is set back.
- The closes of the storage and BigQuery clients, which return at once.
- The statistics of the history baseline: the query's sample count is modelled, whether
  the row count deviates from the result is one bit.
- `compatibility.go` and `reachability.go` of the linter, which only warn; the syntax of
  CODEOWNERS.
- The file system and symbolic links beyond the classes of paths `pathsafe` tells apart,
  the JSON-schema compiler, SQL, Kafka and BigQuery themselves.
- Record windows below one second: their identities collide (`execution_id.go:66`), which
  the premise of `WindowsIdentified` leaves out.

`PROJECT.json` lists every part with its status, and the hazards with the properties that
cover them.  What would come next: one composition of `EngineProcess` with `RecordRunner`
in place of its opaque goroutine, and a refinement of `ControlPlane` by `EngineProcess`.
