---------------------------- MODULE RuleLifecycle ----------------------------
(***************************************************************************)
(* The life of a rule, from the checkout to a verdict: dq-migrate, dq-lint *)
(* and dq-dryrun on a checkout, the publisher, and the engine that boots   *)
(* on the published manifest, refreshes it, answers triggers and closes    *)
(* windows.  Each tool is its whole decision; races between publications   *)
(* are module Publication, and between attempts module Runner.             *)
(***************************************************************************)
EXTENDS DryRun, Migrator, Evaluators

CONSTANTS
    Starts,         \* the checkouts and workspaces the operator may start from
    Revisions,      \* files an edit may put in the place of the first one
    Answers,        \* what the stores may answer to a trigger
    Windows,        \* what a closed window may hold
    MaxEdits

(* A published manifest, with whether the checkout had passed dq-lint and
   dq-dryrun. *)
ManifestType == [bodies : BodiesType, lint : BOOLEAN, dry : BOOLEAN]

(* The owners schema has these modes; a v1 owner has none. *)
OwnersModes(owners) == \A e \in DOMAIN owners.entities : owners.entities[e].mode \in {"", "set", "record"}

ASSUME FilesAssumption ==
    /\ \A start \in Starts : start.files \in Seq(FileType) /\ OwnersModes(start.ws.owners)
    /\ Revisions \subseteq FileType
    /\ \A path \in DOMAIN Artifacts : Artifacts[path].content \in Text
    /\ Answers \subseteq InputType /\ Windows \subseteq InputType
    /\ MaxEdits \in Nat

ASSUME ManifestAssumption == Null \notin ManifestType

VARIABLES
    checkout,       \* the rule files, in walk order
    ws,             \* the workspace beside them
    edits,          \* revisions of the checkout made
    publications,   \* revisions published
    linted,         \* exit status of dq-lint on this checkout, or Null
    dried,          \* exit status of dq-dryrun on this checkout, or Null
    registry,       \* the current manifest: [bodies, lint, dry], or Null
    engine,         \* "off", "up", or how the boot failed: "refused" or "unreachable"
    boot,           \* the manifest the engine booted on, or Null
    active,         \* the manifest it holds now, or Null
    out             \* its last answer, or Null

vars == <<checkout, ws, edits, publications, linted, dried, registry, engine, boot, active, out>>
toolVars == <<checkout, ws, edits, publications, linted, dried, registry>>
engineVars == <<engine, boot, active, out>>

Init ==
    /\ \E start \in Starts : checkout = start.files /\ ws = start.ws
    /\ edits = 0 /\ publications = 0
    /\ linted = Null /\ dried = Null /\ registry = Null
    /\ engine = "off" /\ boot = Null /\ active = Null /\ out = Null

(* An edit makes what the tools said of the checkout worthless. *)
Replace(i, file) ==
    /\ edits < MaxEdits /\ edits' = edits + 1
    /\ checkout' = [checkout EXCEPT ![i] = file]
    /\ linted' = Null /\ dried' = Null
    /\ UNCHANGED <<ws, publications, registry, engineVars>>

Edit(file) == checkout # <<>> /\ file # checkout[1] /\ Replace(1, file)

Migrate(i, table) ==
    /\ Loads(checkout[i]) /\ CanMigrate(checkout[i].rule, table)
    /\ Replace(i, [checkout[i] EXCEPT !.rule = V1ToV2(checkout[i].rule, table)])

Lint ==
    /\ linted = Null
    /\ linted' = LintExit(Range(checkout), ws)
    /\ UNCHANGED <<checkout, ws, edits, publications, dried, registry, engineVars>>

RunDryRun(answers) ==
    /\ dried = Null
    /\ dried' = DryRunExit(checkout, answers)
    /\ UNCHANGED <<checkout, ws, edits, publications, linted, registry, engineVars>>

(* Nothing obliges the operator to lint first.  The bound: one publication of
   each revision. *)
Publish ==
    /\ publications <= edits /\ publications' = edits + 1
    /\ PublishExit(checkout, ws) = 0
    /\ registry' = [bodies |-> ManifestOf(checkout, ws), lint |-> linted = 0, dry |-> dried = 0]
    /\ UNCHANGED <<checkout, ws, edits, linted, dried, engineVars>>

-----------------------------------------------------------------------------
(* The engine. *)

(* Every rule taken for a record-mode one. *)
RunnersOfAllRules(bodies) ==
    \A e \in DOMAIN bodies :
        Parses(bodies[e]) /\ bodies[e].source # Null /\ bodies[e].source.window # Null

(* A boot that looks at the record-mode rules only. *)
RunnersOfRecordRules(bodies) ==
    \A e \in DOMAIN bodies : bodies[e].mode = "record" => Parses(bodies[e])

buildRecordRunners(bodies) ==
    \A e \in DOMAIN bodies :
        LET r == bodies[e] IN
        /\ Parses(r)
        /\ r.mode = "record" =>
              /\ EvaluateCost(r)
              /\ r.source.window.duration \in Nat \ {0}
              /\ r.source.window.lateness \in Nat

(* Every body is read from the bucket and every record-mode rule gets a Kafka
   client; when one of these fails before a rule is refused, the boot ends there. *)
Boot(reached) ==
    /\ engine # "up" /\ registry # Null
    /\ engine' = IF ~reached THEN "unreachable"
                 ELSE IF buildRecordRunners(registry.bodies) THEN "up" ELSE "refused"
    /\ boot' = registry /\ active' = registry /\ out' = Null
    /\ UNCHANGED toolVars

Stop ==
    /\ engine = "up"
    /\ engine' = "off" /\ boot' = Null /\ active' = Null /\ out' = Null
    /\ UNCHANGED toolVars

(* A refresh looks at the manifest, never at the bodies. *)
Refresh ==
    /\ engine = "up" /\ registry # active
    /\ active' = registry
    /\ UNCHANGED <<toolVars, engine, boot, out>>

(* The checks of an entity, or why there are none. *)
resolveChecks(entity, in) ==
    IF entity \notin DOMAIN active.bodies THEN "not_in_manifest"
    ELSE IF ~in.fetched THEN "unavailable"
    ELSE IF ~(Parses(active.bodies[entity]) /\ EvaluateCost(active.bodies[entity])) THEN "refused"
    ELSE "resolved"

(* The answer, with the manifest it is given from. *)
Answer(path, entity, status, from, in) ==
    LET specs == IF status = "resolved" THEN ToCheckSpecs(from.bodies[entity]) ELSE <<>> IN
    [path |-> path, entity |-> entity, status |-> status, from |-> from, in |-> in,
     specs |-> specs, evals |-> [i \in DOMAIN specs |-> Evaluate(specs[i], in)]]

Trigger(entity, in) ==
    /\ engine = "up"
    /\ out' = Answer("trigger", entity, resolveChecks(entity, in), active, in)
    /\ UNCHANGED <<toolVars, engine, boot, active>>

(* The record runners keep the rules of the boot manifest. *)
CloseWindow(entity, in) ==
    /\ engine = "up" /\ boot.bodies[entity].mode = "record"
    /\ out' = Answer("window", entity, "resolved", boot, in)
    /\ UNCHANGED <<toolVars, engine, boot, active>>

Next ==
    \/ \E file \in Revisions : Edit(file)
    \/ \E i \in DOMAIN checkout, table \in {"ok", "long"} : Migrate(i, table)
    \/ Lint
    \/ \E answers \in BOOLEAN : RunDryRun(answers)
    \/ Publish
    \/ \E reached \in BOOLEAN : Boot(reached)
    \/ Stop \/ Refresh
    \/ \E entity \in Idents, in \in Answers : Trigger(entity, in)
    \/ engine = "up" /\ \E entity \in DOMAIN boot.bodies, in \in Windows : CloseWindow(entity, in)

Spec == Init /\ [][Next]_vars
-----------------------------------------------------------------------------
ExitStatus == {Null, 0, 1, 2}

TypeOK ==
    /\ edits \in 0 .. MaxEdits /\ publications \in 0 .. edits + 1
    /\ linted \in ExitStatus /\ dried \in ExitStatus
    /\ engine \in {"off", "up", "refused", "unreachable"}
    /\ engine # "off" <=> boot # Null
    /\ boot # Null => active # Null /\ registry # Null
    /\ out # Null => engine = "up"

(* What the linter accepts the publisher never refuses: with distinct entities
   and supported, mirrored versions, a checkout dq-lint leaves with status 0
   passes collectRules and the verifications of Publish
   (tools/manifest/publisher.go:180-212). *)
LintedPublishes ==
    (/\ linted = 0 /\ Collected(checkout) # {} /\ rejectDuplicateEntities(checkout)
     /\ observedSchemaVersions(checkout) \subseteq ws.supported \cap ws.mirror) =>
        PublishExit(checkout, ws) = 0

(* "the manifest stays self-contained" (tools/manifest/publisher.go:398-402): no
   body published from a linted checkout still carries a reference. *)
LintedSelfContained ==
    (registry # Null /\ registry.lint) =>
        \A e \in DOMAIN registry.bodies : LET checks == registry.bodies[e].checks IN
            \A i \in DOMAIN checks :
                checks[i].params # Null => checks[i].params.schema_ref = Null /\ ~checks[i].params.strayRef

(* The engine parses every body published from a linted checkout, except one
   with a schedule, which the schema takes and the decoder does not
   (engine/internal/dsl/spec/parse.go:59-71). *)
LintedParses ==
    (registry # Null /\ registry.lint) =>
        \A e \in DOMAIN registry.bodies :
            "schedule" \notin registry.bodies[e].fields => Parses(registry.bodies[e])

(* A boot refuses the rules of a linted manifest (cmd/dq-engine/main.go:643-718)
   only for one with a schedule, over a guardrail, or with a zero or overflowing
   duration: what the linter has no rule for.  A boot that could not read a body
   or create a Kafka client (656-659, 681-688) fails as well, with another error. *)
RefusalExplained ==
    (engine = "refused" /\ boot.lint) =>
        \E e \in DOMAIN boot.bodies : LET r == boot.bodies[e] IN
            \/ "schedule" \in r.fields
            \/ /\ r.mode = "record"
               /\ \/ ~EvaluateCost(r)
                  \/ r.source.window.duration \in {0, Overflow}
                  \/ r.source.window.lateness = Overflow

(* A rule of the manifest the engine booted on is never refused by a trigger:
   only a refresh, which reads no rule body, can bring in one that is
   (main.go:314-341 against 643-718). *)
BootRulesServed ==
    (out # Null /\ out.status = "refused") =>
        out.from # boot

(* The evaluation of a set-mode check got as far as its count query. *)
Queried(e) == e.reason \in {"", "query_failed"}

(* A count query that is issued was priced: when the manifest comes from a checkout
   the dry run accepted, the estimate of every count query its checks issue, failed
   ones included, is within the ceiling (tools/dryrun/dryrun.go:217-277 against
   eval/row_count_positive.go:76-118).  The history query of a baseline is priced by
   nobody (dryrun.go:292-299), and the estimate is for one day (dryrun.go:50-57). *)
CountsPriced ==
    (out # Null /\ out.path = "trigger" /\ out.from.dry /\ MaxBytesScannedPerRun > 0) =>
        \A i \in DOMAIN out.evals :
            (HasTemplate(out.specs[i].kind) /\ Queried(out.evals[i])) =>
                Estimate[out.specs[i].source.column] <= MaxBytesScannedPerRun

(* Lint leaves the evaluators only what the catalog schema cannot say: a check
   of a linted v2 rule is dispatched, with a source and parameters of its kind
   (eval/evaluator.go:147-171, record_schema_conformance.go:60-104).  The parameters
   are refused for one reason only, an evidence_sample_size beyond int, which the
   catalog's "integer" takes, the guardrail does not see (dsl/spec/cost.go:88-97) and
   asInt refuses (record_schema_conformance.go:280-293). *)
LintedDispatches ==
    (out # Null /\ out.specs # <<>> /\ out.from.lint /\ out.from.bodies[out.entity].version = 2) =>
        \A i \in DOMAIN out.evals :
            \/ out.evals[i].reason \in {"", "query_failed", "invalid_source_identifier",
                                        "invalid_baseline_block", "schema_compile_failed"}
            \/ /\ out.evals[i].reason = "invalid_params"
               /\ out.specs[i].params.aggregation # Null
               /\ out.specs[i].params.aggregation.sample = Huge

(* The evidence of a window stays within the deployment's ceiling, where it has
   one and the catalog default is under it, whatever manifest was refreshed in
   (dsl/spec/cost.go:37-67, record_schema_conformance.go:105-127). *)
EvidenceBounded ==
    (out # Null /\ MaxEvidenceSampleSize > 0 /\ MaxEvidenceSampleSize >= DefaultSampleSize) =>
        \A i \in DOMAIN out.evals : out.evals[i].samples <= MaxEvidenceSampleSize

Severity(result) == CASE result = "pass" -> 0 [] result = "degraded" -> 1 [] result = "fail" -> 2

(* More violations in a window never give a better verdict, whatever order the
   rule puts its two rates in (record_schema_conformance.go:163-181). *)
VerdictMonotone ==
    (out # Null /\ out.path = "window") =>
        \A i \in DOMAIN out.evals : \A v \in out.in.violations .. out.in.records :
            LET worse == Evaluate(out.specs[i], [out.in EXCEPT !.violations = v]) IN
            out.evals[i].result # "error" =>
                Severity(out.evals[i].result) <= Severity(worse.result)

(* A v1 rule that lints still lints after dq-migrate, when its kinds are of the
   v1 catalog, the table name is within the schema's length and the entity is
   not declared a record-mode one (tools/migrate/migrate.go:107-178). *)
MigrationLints ==
    \A f \in Range(checkout) :
        (/\ LintsRule(f.rule, ws) /\ CanMigrate(f.rule, "ok") /\ ws.catalog = "loaded"
         /\ \A i \in DOMAIN f.rule.checks :
               f.rule.checks[i].kind \in {"row_count_positive", "set.row_count_positive"}
         /\ f.rule.entity \in DOMAIN ws.owners.entities =>
               ws.owners.entities[f.rule.entity].mode # "record") =>
            LintsRule(V1ToV2(f.rule, "ok"), ws)

(* "Optional advisory cadence [...] The engine does not interpret this field"
   (engine/internal/dsl/schema/v2.schema.json:42): a body published from a
   linted checkout is parsed by the engine, whatever optional fields it has. *)
ScheduledRuleParses ==
    (registry # Null /\ registry.lint) =>
        \A e \in DOMAIN registry.bodies : Parses(registry.bodies[e])
=============================================================================
