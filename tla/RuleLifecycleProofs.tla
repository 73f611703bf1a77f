------------------------- MODULE RuleLifecycleProofs -------------------------
(***************************************************************************)
(* What a clean dq-lint is worth to the engine, for any rules, artifacts,  *)
(* workspaces and guardrails: the body that reaches the engine is the      *)
(* linted file with its references replaced, so that what the linter has   *)
(* checked of the file carries over to the parser.                         *)
(***************************************************************************)
EXTENDS RuleLifecycle, NaturalsInduction, WellFoundedInduction, TLAPS

(* The solver needs a fraction of this; the limit allows for a loaded machine. *)
USE SMTT(60)

(* A body of a linted checkout carries no reference. *)
SelfContained(r) ==
    \A i \in DOMAIN r.checks :
        r.checks[i].params # Null => r.checks[i].params.schema_ref = Null /\ ~r.checks[i].params.strayRef

(* Parameters the handler of the kind does not refuse. *)
FitParams(kind, p) ==
    /\ kind = "set.row_count_within_baseline" => p # Null /\ p.baseline # Null
    /\ kind = "record.schema_conformance" =>
          /\ p # Null /\ SchemaFragment(p.schema)
          /\ p.aggregation # Null => AggregationSchema(p.aggregation)

(* A v2 body of a linted checkout has checks of the catalog, each over the source
   of its mode. *)
Dispatchable(r) ==
    r.version = 2 =>
        /\ r.source # Null
        /\ \A i \in DOMAIN r.checks :
              /\ r.checks[i].kind \in CatalogKinds
              /\ r.source.type = expectedSourceTypeFor(SourceMode(r.checks[i].kind))
              /\ FitParams(r.checks[i].kind, r.checks[i].params)

Sound(r) == ("schedule" \notin r.fields => Parses(r)) /\ SelfContained(r) /\ Dispatchable(r)

(* What the dry run has established of a rule. *)
Priced(r) ==
    (/\ Compiled(r) /\ r.source.table # "" /\ Templated(r) # {} /\ MaxBytesScannedPerRun > 0) =>
        ~(Estimate[r.source.column] > MaxBytesScannedPerRun)

SoundManifest(m) ==
    /\ m \in ManifestType
    /\ m.lint => \A e \in DOMAIN m.bodies : Sound(m.bodies[e])
    /\ m.dry => \A e \in DOMAIN m.bodies : Priced(m.bodies[e])

(* An answer is the evaluation of the checks of a rule that passed the parser and
   the guardrails, or of no check. *)
AnswerOK(o) ==
    /\ SoundManifest(o.from)
    /\ o.in \in InputType
    /\ o.status = "resolved" =>
          /\ o.entity \in DOMAIN o.from.bodies
          /\ Parses(o.from.bodies[o.entity]) /\ EvaluateCost(o.from.bodies[o.entity])
          /\ o.path = "window" => o.from.bodies[o.entity].mode = "record"
    /\ o.specs = IF o.status = "resolved" THEN ToCheckSpecs(o.from.bodies[o.entity]) ELSE <<>>
    /\ o.evals = [i \in DOMAIN o.specs |-> Evaluate(o.specs[i], o.in)]

ToolInv ==
    /\ checkout \in Seq(FileType)
    /\ OwnersModes(ws.owners)
    /\ linted = 0 => LintExit(Range(checkout), ws) = 0
    /\ dried = 0 => \E answers \in BOOLEAN : DryRunExit(checkout, answers) = 0
    /\ registry # Null => SoundManifest(registry)

EngineInv ==
    /\ boot # Null => SoundManifest(boot) /\ SoundManifest(active)
    /\ engine = "refused" => boot # Null /\ ~buildRecordRunners(boot.bodies)
    /\ engine = "up" => boot # Null /\ buildRecordRunners(boot.bodies)
    /\ out # Null /\ out.status = "refused" => out.from # boot
    /\ out # Null => AnswerOK(out)

PipelineInv == TypeOK /\ ToolInv /\ EngineInv

-----------------------------------------------------------------------------
(* Records of the decoded types. *)

(* The fields of a rule and of its checks. *)
LEMMA RuleFields ==
    ASSUME NEW r \in RuleType
    PROVE  /\ {"version", "entity", "mode", "fields", "source", "checks"} = DOMAIN r
           /\ r.version \in Int /\ r.entity \in Names /\ r.mode \in Text
           /\ r.fields \subseteq Text /\ r.source \in Optional(SourceType)
           /\ r.checks \in Seq(CheckType)
           /\ \A i \in DOMAIN r.checks : r.checks[i] \in CheckType
<1>1. /\ r.version \in Int /\ r.entity \in Names /\ r.mode \in Text
      /\ r.fields \subseteq Text /\ r.source \in Optional(SourceType)
      /\ r.checks \in Seq(CheckType)
      /\ {"version", "entity", "mode", "fields", "source", "checks"} = DOMAIN r
  BY DEF RuleType
<1>2. \A i \in DOMAIN r.checks : r.checks[i] \in CheckType
  BY <1>1
<1> QED  BY <1>1, <1>2

(* The fields of a check and of its parameters. *)
LEMMA CheckFields ==
    ASSUME NEW c \in CheckType
    PROVE  /\ DOMAIN c = {"id", "kind", "params"} /\ c.id \in Text /\ c.kind \in Text
           /\ c.params \in Optional(ParamsType)
           /\ c.params # Null => c.params \in ParamsType
  BY DEF CheckType, Optional

(* The fields of a check's params (catalog v1.yaml). *)
LEMMA ParamsFields ==
    ASSUME NEW p \in ParamsType
    PROVE  /\ DOMAIN p = {"schema", "schema_ref", "strayRef", "aggregation", "baseline", "extra"}
           /\ p.schema \in Optional(Text) /\ p.schema_ref \in Optional(RefType)
           /\ p.strayRef \in BOOLEAN /\ p.extra \in BOOLEAN
           /\ p.aggregation \in Optional(AggregationType) /\ p.baseline \in Optional(BaselineType)
  BY DEF ParamsType

(* Parameters with their artifact inlined. *)
InlinedParams(p) == [p EXCEPT !.schema = Artifact(p.schema_ref).content, !.schema_ref = Null]

(* Inlining sets the schema and takes the reference away. *)
LEMMA InlinedIs ==
    ASSUME NEW c \in CheckType, NEW w, NEW d, d = InlinedCheck(c, w)
    PROVE  /\ d.id = c.id /\ d.kind = c.kind
           /\ ~(Inlines(c, w) /\ c.params.schema_ref # Null) => d = c
           /\ (Inlines(c, w) /\ c.params.schema_ref # Null) =>
                 /\ d.params = InlinedParams(c.params)
                 /\ d = [id |-> c.id, kind |-> c.kind, params |-> d.params]
<1>2. c = [id |-> c.id, kind |-> c.kind, params |-> c.params]
  BY DEF CheckType
<1>3. CASE ~(Inlines(c, w) /\ c.params.schema_ref # Null)
  <2>1. d = c
    BY <1>3 DEF InlinedCheck
  <2> QED  BY <2>1, <1>3
<1>4. CASE Inlines(c, w) /\ c.params.schema_ref # Null
  <2>1. PICK x : x = Artifact(c.params.schema_ref).content
    BY Zenon
  <2>2. c.params \in ParamsType
    BY <1>4, CheckFields DEF Inlines
  <2>3. d = [c EXCEPT !.params.schema = x, !.params.schema_ref = Null]
    BY <1>4, <2>1 DEF InlinedCheck
  <2>4. d.id = c.id /\ d.kind = c.kind
        /\ d.params = [c.params EXCEPT !.schema = x, !.schema_ref = Null]
        /\ d = [id |-> d.id, kind |-> d.kind, params |-> d.params]
    BY <2>2, <2>3, CheckFields, Zenon
  <2> QED  BY <2>1, <2>4, <1>4 DEF InlinedParams
<1> QED  BY <1>3, <1>4

(* An inlined check has the type of a check when its artifact exists. *)
LEMMA InlinedTyped ==
    ASSUME NEW c \in CheckType, NEW w, Inlines(c, w) => resolveCheckParams(c.params)
    PROVE  InlinedCheck(c, w) \in CheckType
<1>1. CASE ~(Inlines(c, w) /\ c.params.schema_ref # Null)
  <2>1. InlinedCheck(c, w) = c
    BY <1>1 DEF InlinedCheck
  <2> QED  BY <2>1
<1>2. CASE Inlines(c, w) /\ c.params.schema_ref # Null
  <2>1. PICK p : p = c.params
    BY Zenon
  <2>2. p \in ParamsType
    BY <1>2, <2>1, CheckFields DEF Inlines
  <2>3. PICK x : x = Artifact(p.schema_ref).content
    BY Zenon
  <2>4. Resolves(p.schema_ref)
    BY <1>2, <2>1 DEF resolveCheckParams, PublisherReads
  <2>5. x \in Text
    BY <2>3, <2>4, FilesAssumption DEF Resolves, Artifact
  <2>6. PICK q : q = [p EXCEPT !.schema = x, !.schema_ref = Null]
    BY Zenon
  <2>7. q \in ParamsType
    BY <2>2, <2>5, <2>6, Zenon DEF ParamsType, Optional
  <2>8. PICK d : d = InlinedCheck(c, w)
    BY Zenon
  <2>9. /\ d.params = InlinedParams(c.params)
        /\ d = [id |-> c.id, kind |-> c.kind, params |-> d.params]
    BY <1>2, <2>8, InlinedIs
  <2>10. d = [id |-> c.id, kind |-> c.kind, params |-> q]
    BY <2>1, <2>3, <2>6, <2>9 DEF InlinedParams
  <2> QED  BY <2>7, <2>8, <2>10, CheckFields DEF CheckType, Optional
<1> QED  BY <1>1, <1>2

(* The checks of a body are those of the file, inlined; the rest is as it was. *)
LEMMA BodyIs ==
    ASSUME NEW r \in RuleType, NEW w, NEW b, b = inlineExternalRefs(r, w)
    PROVE  /\ b.version = r.version /\ b.entity = r.entity /\ b.mode = r.mode
           /\ b.fields = r.fields /\ b.source = r.source
           /\ DOMAIN b.checks = DOMAIN r.checks
           /\ r.checks # <<>> => b.checks # <<>>
           /\ \A i \in DOMAIN r.checks :
                 /\ b.checks[i] = InlinedCheck(r.checks[i], w)
                 /\ b.checks[i].id = r.checks[i].id /\ b.checks[i].kind = r.checks[i].kind
<1>1. PICK cs : cs = [i \in DOMAIN r.checks |-> InlinedCheck(r.checks[i], w)]
  BY Zenon
<1>2. b = [r EXCEPT !.checks = cs]
  BY <1>1 DEF inlineExternalRefs
<1>3. r.checks # <<>> => DOMAIN r.checks # {}
  BY RuleFields
<1>4. /\ b.version = r.version /\ b.entity = r.entity /\ b.mode = r.mode
      /\ b.fields = r.fields /\ b.source = r.source /\ b.checks = cs
  BY <1>2, RuleFields
<1>5. DOMAIN cs = DOMAIN r.checks /\ \A i \in DOMAIN r.checks : cs[i] = InlinedCheck(r.checks[i], w)
  BY <1>1
<1>6. DOMAIN cs # {} => cs # <<>>
  OBVIOUS
<1>7. ASSUME NEW i \in DOMAIN r.checks  PROVE cs[i].id = r.checks[i].id /\ cs[i].kind = r.checks[i].kind
  <2>1. PICK c \in CheckType : c = r.checks[i]
    BY <1>7, RuleFields
  <2>2. PICK d : d = InlinedCheck(c, w)
    BY Zenon
  <2>3. d = cs[i]
    BY <2>1, <2>2, <1>5, <1>7
  <2>4. d.id = c.id /\ d.kind = c.kind
    BY <2>2, InlinedIs
  <2> QED  BY <2>1, <2>3, <2>4
<1> QED  BY <1>3, <1>4, <1>5, <1>6, <1>7

(* A body has the type of a rule when the artifacts of its references exist. *)
LEMMA BodyTyped ==
    ASSUME NEW r \in RuleType, NEW w,
           \A i \in DOMAIN r.checks : Inlines(r.checks[i], w) => resolveCheckParams(r.checks[i].params)
    PROVE  inlineExternalRefs(r, w) \in RuleType
<1>1. PICK cs : cs = [i \in DOMAIN r.checks |-> InlinedCheck(r.checks[i], w)]
  BY Zenon
<1>2. inlineExternalRefs(r, w) = [r EXCEPT !.checks = cs]
  BY <1>1 DEF inlineExternalRefs
<1>3. ASSUME NEW i \in DOMAIN r.checks  PROVE InlinedCheck(r.checks[i], w) \in CheckType
  <2>1. r.checks[i] \in CheckType
    BY <1>3, RuleFields
  <2> QED  BY <2>1, <1>3, InlinedTyped
<1>4. DOMAIN r.checks = 1 .. Len(r.checks) /\ Len(r.checks) \in Nat
  BY RuleFields
<1>5. cs \in [1 .. Len(r.checks) -> CheckType]
  BY <1>1, <1>3, <1>4
<1>6. cs \in Seq(CheckType)
  BY <1>4, <1>5
<1> QED  BY <1>2, <1>6 DEF RuleType

-----------------------------------------------------------------------------
(* The linter against the parser, the publisher and the evaluators. *)

(* The two source validators agree where the linter has no objection. *)
LEMMA SourceParses ==
    ASSUME NEW s, NEW mode \in {"set", "record"}, SourceSchema(s), s.type = expectedSourceTypeFor(mode)
    PROVE  validateSourceV2(mode, s)
  BY Zenon DEF SourceSchema, expectedSourceTypeFor, expectedSourceTypeForMode, validateSourceV2,
         validateBigQuerySource, validateKafkaSource, validateWindow, Duration

(* A body of a linted file is parsed, unless the file has a schedule. *)
LEMMA BodyParses ==
    ASSUME NEW r \in RuleType, NEW w, LintsRule(r, w), "schedule" \notin r.fields
    PROVE  Parses(inlineExternalRefs(r, w))
<1>1. PICK b : b = inlineExternalRefs(r, w)
  BY Zenon
<1>2. /\ b.version = r.version /\ b.entity = r.entity /\ b.mode = r.mode
      /\ b.fields = r.fields /\ b.source = r.source
      /\ DOMAIN b.checks = DOMAIN r.checks
      /\ r.checks # <<>> => b.checks # <<>>
      /\ \A i \in DOMAIN r.checks :
            /\ b.checks[i] = InlinedCheck(r.checks[i], w)
            /\ b.checks[i].id = r.checks[i].id /\ b.checks[i].kind = r.checks[i].kind
  BY <1>1, BodyIs
<1>4. r.version \in {1, 2}
  BY Zenon DEF LintsRule, ValidateRuleBytes, SchemaV1
<1>5. CASE r.version = 1
  <2>1. SchemaV1(r)
    BY <1>5 DEF LintsRule, ValidateRuleBytes
  <2>2. \A i \in DOMAIN r.checks : b.checks[i].params = Null
    BY <2>1, <1>2, Zenon DEF SchemaV1, InlinedCheck, Inlines
  <2>3. validateV1(b)
    BY <2>1, <2>2, <1>2, Zenon DEF SchemaV1, validateV1, validateCheckV1, validateIdentifier
  <2> QED  BY <2>1, <2>3, <1>1, <1>2, <1>5, Zenon DEF Parses, SchemaV1, KnownFields
<1>6. CASE r.version = 2
  <2>1. SchemaV2(r) /\ validateV2CrossChecks(r, w)
    BY <1>6 DEF LintsRule, ValidateRuleBytes
  <2>2. \A i \in DOMAIN r.checks : Prefix(r.checks[i].kind) = r.mode
    BY <2>1, Zenon DEF validateV2CrossChecks, checkCrossChecks
  <2>3. \A i \in DOMAIN b.checks : validateCheckV2(b.checks[i], b.mode)
    BY <2>1, <2>2, <1>2, ZenonT(60) DEF SchemaV2, validateCheckV2, validateIdentifier
  <2>4. validateSourceV2(b.mode, b.source)
    BY <2>1, <1>2, SourceParses, Zenon DEF SchemaV2, validateV2CrossChecks
  <2>5. validateV2(b)
    BY <2>1, <2>3, <2>4, <1>2, Zenon DEF SchemaV2, validateV2, validateIdentifier
  <2>6. b.fields \subseteq KnownFields
    BY <2>1, <1>2, Zenon DEF SchemaV2, KnownFields
  <2> QED  BY <2>5, <2>6, <1>1, <1>2, <1>6 DEF Parses
<1> QED  BY <1>4, <1>5, <1>6

(* What the linter has checked of a check with parameters. *)
LEMMA LintedCheck ==
    ASSUME NEW r \in RuleType, NEW w, LintsRule(r, w), NEW i \in DOMAIN r.checks
    PROVE  /\ r.checks[i].params # Null => r.version = 2
           /\ r.version = 2 => checkCrossChecks(r.checks[i], r, w.catalog = "loaded")
           /\ r.version = 2 => r.source # Null /\ w.catalog = "loaded"
<1>1. r.version \in {1, 2}
  BY Zenon DEF LintsRule, ValidateRuleBytes, SchemaV1
<1>2. r.version = 1 => SchemaV1(r)
  BY DEF LintsRule, ValidateRuleBytes
<1>3. r.version = 2 => SchemaV2(r) /\ validateV2CrossChecks(r, w)
  BY DEF LintsRule, ValidateRuleBytes
<1> QED  BY <1>1, <1>2, <1>3, Zenon DEF SchemaV1, SchemaV2, validateV2CrossChecks, checkCrossChecks

(* A body of a linted file carries no reference: cross-check #12 lets one stand
   only where the publisher inlines it. *)
LEMMA BodySelfContained ==
    ASSUME NEW r \in RuleType, NEW w, LintsRule(r, w)
    PROVE  SelfContained(inlineExternalRefs(r, w))
<1>1. PICK b : b = inlineExternalRefs(r, w)
  BY Zenon
<1>2. DOMAIN b.checks = DOMAIN r.checks /\ \A i \in DOMAIN r.checks : b.checks[i] = InlinedCheck(r.checks[i], w)
  BY <1>1, BodyIs
<1> SUFFICES ASSUME NEW i \in DOMAIN r.checks, b.checks[i].params # Null
             PROVE  b.checks[i].params.schema_ref = Null /\ ~b.checks[i].params.strayRef
  BY <1>1, <1>2 DEF SelfContained
<1>3. PICK c \in CheckType : c = r.checks[i]
  BY RuleFields
<1>4. b.checks[i] = InlinedCheck(c, w)
  BY <1>2, <1>3
<1>6. c.params # Null
  BY <1>4 DEF InlinedCheck, Inlines
<1>9. w.catalog = "loaded" /\ validateCheckExternalRefs(c.kind, c.params)
  BY <1>3, <1>6, LintedCheck DEF checkCrossChecks, Params
<1>10. ~c.params.strayRef /\ (~ExternalEligible(c.kind) => c.params.schema_ref = Null)
  BY <1>9 DEF validateCheckExternalRefs
<1>11. CASE c.params.schema_ref = Null
  <2>1. b.checks[i] = c
    BY <1>4, <1>11, InlinedIs
  <2> QED  BY <2>1, <1>10, <1>11
<1>12. CASE c.params.schema_ref # Null
  <2>1. Inlines(c, w)
    BY <1>6, <1>9, <1>10, <1>12 DEF Inlines
  <2>2. PICK x : x = Artifact(c.params.schema_ref).content
    BY Zenon
  <2>3. b.checks[i].params = InlinedParams(c.params)
    BY <2>1, <1>4, <1>12, InlinedIs
  <2>4. b.checks[i].params = [c.params EXCEPT !.schema = x, !.schema_ref = Null]
    BY <2>2, <2>3 DEF InlinedParams
  <2>5. /\ b.checks[i].params.schema_ref = Null
        /\ b.checks[i].params.strayRef = c.params.strayRef
    BY <2>4, <1>6, CheckFields, ParamsFields
  <2> QED  BY <2>5, <1>10
<1> QED  BY <1>11, <1>12

(* The publisher reads what the linter has read, and inlines where it must. *)
LEMMA LintedResolves ==
    ASSUME NEW r \in RuleType, NEW w, LintsRule(r, w), NEW i \in DOMAIN r.checks, Inlines(r.checks[i], w)
    PROVE  resolveCheckParams(r.checks[i].params)
<1>1. PICK c \in CheckType : c = r.checks[i]
  BY RuleFields
<1>2. c.params # Null /\ ExternalEligible(c.kind)
  BY <1>1 DEF Inlines
<1>3. validateCheckExternalRefs(c.kind, c.params)
  BY <1>1, <1>2, LintedCheck DEF checkCrossChecks, Params
<1>4. ~c.params.strayRef /\ (c.params.schema_ref # Null => c.params.schema = Null /\ LintReads(c.params.schema_ref))
  BY <1>2, <1>3 DEF validateCheckExternalRefs, resolveExternalRef
<1> QED  BY <1>1, <1>4, Zenon DEF resolveCheckParams, LintReads, PublisherReads

(* The checks of a v2 body of a linted file are of the catalog, over the source of
   their mode and with parameters that fit. *)
LEMMA BodyDispatchable ==
    ASSUME NEW r \in RuleType, NEW w, LintsRule(r, w)
    PROVE  Dispatchable(inlineExternalRefs(r, w))
<1>1. PICK b : b = inlineExternalRefs(r, w)
  BY Zenon
<1>2. /\ b.version = r.version /\ b.source = r.source /\ DOMAIN b.checks = DOMAIN r.checks
      /\ \A i \in DOMAIN r.checks : b.checks[i] = InlinedCheck(r.checks[i], w) /\ b.checks[i].kind = r.checks[i].kind
  BY <1>1, BodyIs
<1> SUFFICES ASSUME r.version = 2
             PROVE  /\ r.source # Null
                    /\ \A i \in DOMAIN r.checks :
                          /\ r.checks[i].kind \in CatalogKinds
                          /\ r.source.type = expectedSourceTypeFor(SourceMode(r.checks[i].kind))
                          /\ FitParams(r.checks[i].kind, b.checks[i].params)
  BY <1>1, <1>2 DEF Dispatchable
<1>3. r.source # Null
  <2>1. SchemaV2(r)
    BY DEF LintsRule, ValidateRuleBytes
  <2> QED  BY <2>1, Zenon DEF SchemaV2
<1>4. ASSUME NEW i \in DOMAIN r.checks
      PROVE  /\ r.checks[i].kind \in CatalogKinds
             /\ r.source.type = expectedSourceTypeFor(SourceMode(r.checks[i].kind))
             /\ FitParams(r.checks[i].kind, b.checks[i].params)
  <2>1. PICK c \in CheckType : c = r.checks[i]
    BY <1>4, RuleFields
  <2>2. checkCrossChecks(c, r, w.catalog = "loaded") /\ w.catalog = "loaded"
    BY <1>4, <2>1, LintedCheck
  <2>3. PICK d : d = b.checks[i].params
    BY Zenon
  <2>4. CASE c.kind = "set.row_count_positive"
    BY <2>1, <2>2, <2>3, <2>4 DEF checkCrossChecks, FitParams
  <2>5. CASE c.kind = "set.row_count_within_baseline"
    <3>1. b.checks[i] = c
      <4>1. ~Inlines(c, w)
        BY <2>5 DEF Inlines, ExternalEligible
      <4> QED  BY <4>1, <1>2, <1>4, <2>1, InlinedIs
    <3>2. c.params # Null /\ c.params.baseline # Null
      BY <2>2, <2>5 DEF checkCrossChecks, ParamsSchema, Params, NoParams
    <3> QED  BY <3>1, <3>2, <2>1, <2>2, <2>5 DEF checkCrossChecks, FitParams
  <2>6. CASE c.kind = "record.schema_conformance"
    <3>1. /\ ParamsSchema(c.kind, Params(c)) /\ validateCheckExternalRefs(c.kind, Params(c))
      BY <2>2 DEF checkCrossChecks
    <3>2. (Params(c).schema = Null) # (Params(c).schema_ref = Null)
      BY <3>1, <2>6 DEF validateCheckExternalRefs, ExternalEligible
    <3>3. c.params # Null
      BY <3>2 DEF Params, NoParams
    <3>4. PICK p \in ParamsType : p = c.params
      BY <3>3, CheckFields
    <3>5. /\ (p.schema = Null) # (p.schema_ref = Null)
          /\ p.schema_ref # Null => SchemaFragment(Artifact(p.schema_ref).content)
          /\ p.schema # Null => SchemaFragment(p.schema)
          /\ p.aggregation # Null => AggregationSchema(p.aggregation)
      BY <3>1, <3>3, <3>4, <2>6 DEF Params, ParamsSchema, validateCheckExternalRefs, resolveExternalRef, ExternalEligible
    <3>6. CASE p.schema_ref = Null
      <4>1. d = p
        <5>1. b.checks[i] = InlinedCheck(c, w)
          BY <1>2, <1>4, <2>1
        <5>2. b.checks[i] = c
          BY <5>1, <3>4, <3>6, InlinedIs
        <5> QED  BY <5>2, <2>3, <3>4
      <4> QED  BY <4>1, <3>3, <3>4, <3>5, <3>6, <2>1, <2>2, <2>3, <2>6, Zenon DEF checkCrossChecks, FitParams
    <3>7. CASE p.schema_ref # Null
      <4>1. Inlines(c, w)
        BY <2>2, <2>6, <3>3 DEF Inlines, ExternalEligible
      <4>2. d = [p EXCEPT !.schema = Artifact(p.schema_ref).content, !.schema_ref = Null]
        <5>1. b.checks[i] = InlinedCheck(c, w)
          BY <1>2, <1>4, <2>1
        <5>2. b.checks[i].params = InlinedParams(c.params)
          BY <5>1, <4>1, <3>4, <3>7, InlinedIs
        <5> QED  BY <5>2, <2>3, <3>4 DEF InlinedParams
      <4>3. PICK x : x = Artifact(p.schema_ref).content
        BY Zenon
      <4>4. d = [p EXCEPT !.schema = x, !.schema_ref = Null]
        BY <4>2, <4>3
      <4>5. d \in [DOMAIN p -> {d[y] : y \in DOMAIN p}] /\ d.schema = x /\ d.aggregation = p.aggregation
            /\ d.baseline = p.baseline
        BY <4>4, ParamsFields
      <4>6. d # Null
        <5>1. x \in Text
          <6>1. Resolves(p.schema_ref)
            BY <3>1, <3>3, <3>4, <3>7, <2>6
               DEF validateCheckExternalRefs, resolveExternalRef, LintReads, ExternalEligible, Params
          <6> QED  BY <6>1, <4>3, FilesAssumption DEF Resolves, Artifact
        <5>2. d \in ParamsType
          BY <4>4, <5>1, Zenon DEF ParamsType, Optional
        <5> QED  BY <5>2, BlocksAssumption
      <4> QED  BY <4>3, <4>5, <4>6, <3>5, <3>7, <2>1, <2>2, <2>3, <2>6, Zenon DEF checkCrossChecks, FitParams
    <3> QED  BY <3>6, <3>7
  <2> QED  BY <2>2, <2>4, <2>5, <2>6 DEF checkCrossChecks, CatalogKinds
<1> QED  BY <1>3, <1>4

(* dq-lint with status 0 has found no fault in any rule file. *)
LEMMA LintedFiles ==
    ASSUME NEW files, NEW w, LintExit(files, w) = 0, NEW f \in RuleFiles(files)
    PROVE  Loads(f) /\ LintsRule(f.rule, w)
<1>1. ValidateRulesDir(files, w)
  BY DEF LintExit
<1> QED  BY <1>1 DEF ValidateRulesDir

-----------------------------------------------------------------------------
(* The walks. *)

(* The least number of a set of them. *)
LEMMA LeastOf ==
    ASSUME NEW S, S \subseteq Nat, S # {}
    PROVE  Min(S) \in S
<1> DEFINE Less == {ss \in Nat \X Nat : ss[1] < ss[2]}
<1>1. OpToRel(<, Nat) = Less
  BY DEF OpToRel
<1>2. IsWellFoundedOn(Less, Nat)
  BY <1>1, NatLessThanWellFounded, Zenon
<1>3. \E x \in S : \A y \in S : ~(<<y, x>> \in Less)
  <2> HIDE DEF Less
  <2> QED  BY <1>2, WFMin, Zenon
<1>4. \A x, y \in Nat : ~(<<y, x>> \in Less) => x <= y
  OBVIOUS
<1>5. \E x \in S : \A y \in S : x <= y
  BY <1>3, <1>4, Zenon
<1> QED  BY <1>5, Zenon DEF Min

(* The files of a walk. *)
LEMMA WalkFiles ==
    ASSUME NEW files \in Seq(FileType)
    PROVE  /\ Collected(files) \subseteq Nat
           /\ \A i \in Collected(files) : files[i] \in RuleFiles(Range(files))
           /\ \A f \in RuleFiles(Range(files)) : \E i \in Collected(files) : f = files[i]
           /\ \A f \in Range(files) : f \in FileType /\ f.rule \in RuleType
<1>1. DOMAIN files \subseteq Nat /\ \A i \in DOMAIN files : files[i] \in FileType
  OBVIOUS
<1>2. \A f \in FileType : f.rule \in RuleType
  BY DEF FileType
<1>3. Range(files) = {files[i] : i \in DOMAIN files}
  BY DEF Range
<1> QED  BY <1>1, <1>2, <1>3 DEF Collected, RuleFiles

(* A walk of the publisher that ends with 0 has stopped at no file. *)
LEMMA PublishedFiles ==
    ASSUME NEW files \in Seq(FileType), NEW w, PublishExit(files, w) = 0, NEW i \in Collected(files)
    PROVE  CollectExit(files[i], w) = 0
<1> DEFINE stops == {j \in Collected(files) : CollectExit(files[j], w) # 0}
<1>1. stops \subseteq Nat
  BY WalkFiles
<1>2. PublishExit(files, w) = 0 => (stops # {} => CollectExit(files[Min(stops)], w) = 0)
  BY DEF PublishExit
<1>3. stops # {} => Min(stops) \in stops
  <2> HIDE DEF stops
  <2> QED  BY <1>1, LeastOf, Zenon
<1> QED  BY <1>2, <1>3

(* So has one of the dry run. *)
LEMMA DriedFiles ==
    ASSUME NEW files \in Seq(FileType), NEW answers, DryRunExit(files, answers) = 0, NEW i \in Collected(files)
    PROVE  HandleExit(files[i], answers) = 0
<1> DEFINE stops == {j \in Collected(files) : HandleExit(files[j], answers) # 0}
<1>1. stops \subseteq Nat
  BY WalkFiles
<1>2. DryRunExit(files, answers) = 0 => (stops # {} => HandleExit(files[Min(stops)], answers) = 0)
  BY DEF DryRunExit
<1>3. stops # {} => Min(stops) \in stops
  <2> HIDE DEF stops
  <2> QED  BY <1>1, LeastOf, Zenon
<1> QED  BY <1>2, <1>3

(* The exit statuses of the tools. *)
LEMMA LintExits ==
    ASSUME NEW files, NEW w
    PROVE  LintExit(files, w) \in {0, 1, 2}
  BY DEF LintExit

(* The dry run ends with one of its three exit codes too. *)
LEMMA DryRunExits ==
    ASSUME NEW files, NEW answers
    PROVE  DryRunExit(files, answers) \in {0, 1, 2}
<1>1. \A f : HandleExit(f, answers) \in {0, 1, 2}
  BY DEF HandleExit
<1> QED  BY <1>1 DEF DryRunExit

(* No file of a linted checkout stops the publisher's walk. *)
LEMMA LintedCollects ==
    ASSUME NEW files \in Seq(FileType), NEW w, LintExit(Range(files), w) = 0, NEW i \in Collected(files)
    PROVE  CollectExit(files[i], w) = 0
<1>1. PICK f : f = files[i]
  BY Zenon
<1>2. f \in RuleFiles(Range(files)) /\ f.rule \in RuleType
  BY <1>1, WalkFiles DEF RuleFiles
<1>3. Loads(f) /\ LintsRule(f.rule, w)
  BY <1>2, LintedFiles
<1>4. f.rule.entity \in Idents /\ f.rule.version \in {1, 2}
  BY <1>3, Zenon DEF LintsRule, ValidateRuleBytes, SchemaV1, SchemaV2
<1>5. f.rule.entity # ""
  BY <1>4, NamesAssumption, Zenon
<1>6. \A j \in DOMAIN f.rule.checks :
         Inlines(f.rule.checks[j], w) => resolveCheckParams(f.rule.checks[j].params)
  BY <1>2, <1>3, LintedResolves
<1>7. f.rule.version # 0
  BY <1>4
<1> QED  BY <1>1, <1>3, <1>5, <1>6, <1>7, Zenon DEF CollectExit

(* What the walk makes sure of in a file. *)
LEMMA CollectedResolves ==
    ASSUME NEW f, NEW w, CollectExit(f, w) = 0, NEW j \in DOMAIN f.rule.checks, Inlines(f.rule.checks[j], w)
    PROVE  resolveCheckParams(f.rule.checks[j].params)
<1>1. /\ Loads(f)
      /\ ~\E i \in DOMAIN f.rule.checks : Inlines(f.rule.checks[i], w) /\ ~resolveCheckParams(f.rule.checks[i].params)
  <2>1. 0 # 1 /\ 0 # 2
    OBVIOUS
  <2> QED  BY <2>1, Zenon DEF CollectExit
<1> QED  BY <1>1, Zenon

(* A published body is the body of one of the files. *)
LEMMA BodyOf ==
    ASSUME NEW files, NEW w, NEW e \in DOMAIN ManifestOf(files, w)
    PROVE  \E f \in RuleFiles(Range(files)) :
              f.rule.entity = e /\ ManifestOf(files, w)[e] = inlineExternalRefs(f.rule, w)
<1>1. PICK rules : rules = RuleFiles(Range(files))
  BY Zenon
<1>2. ManifestOf(files, w) = [x \in {f.rule.entity : f \in rules} |->
                                inlineExternalRefs((CHOOSE f \in rules : f.rule.entity = x).rule, w)]
  BY <1>1 DEF ManifestOf
<1>3. PICK f : f = CHOOSE g \in rules : g.rule.entity = e
  BY Zenon
<1>4. \E g \in rules : g.rule.entity = e
  BY <1>2
<1>5. f \in rules /\ f.rule.entity = e
  BY <1>3, <1>4
<1>6. ManifestOf(files, w)[e] = inlineExternalRefs(f.rule, w)
  BY <1>2, <1>3
<1> QED  BY <1>1, <1>5, <1>6

(* What the publisher makes of a linted checkout. *)
LEMMA ManifestSound ==
    ASSUME NEW files \in Seq(FileType), NEW w,
           LintExit(Range(files), w) = 0, NEW e \in DOMAIN ManifestOf(files, w)
    PROVE  Sound(ManifestOf(files, w)[e])
<1>1. PICK f \in RuleFiles(Range(files)) : ManifestOf(files, w)[e] = inlineExternalRefs(f.rule, w)
  BY BodyOf
<1>2. PICK r \in RuleType : r = f.rule
  BY <1>1, WalkFiles DEF RuleFiles
<1>3. LintsRule(r, w)
  BY <1>1, <1>2, LintedFiles
<1>4. PICK b : b = inlineExternalRefs(r, w)
  BY Zenon
<1>5. b.fields = r.fields
  BY <1>4, BodyIs
<1>6. ("schedule" \notin r.fields => Parses(b)) /\ SelfContained(b) /\ Dispatchable(b)
  BY <1>3, <1>4, BodyParses, BodySelfContained, BodyDispatchable
<1> QED  BY <1>1, <1>2, <1>4, <1>5, <1>6 DEF Sound

(* What it makes of one the dry run accepts. *)
LEMMA ManifestPriced ==
    ASSUME NEW files \in Seq(FileType), NEW w, NEW answers,
           DryRunExit(files, answers) = 0, NEW e \in DOMAIN ManifestOf(files, w)
    PROVE  Priced(ManifestOf(files, w)[e])
<1>1. PICK f \in RuleFiles(Range(files)) : ManifestOf(files, w)[e] = inlineExternalRefs(f.rule, w)
  BY BodyOf
<1>2. PICK r \in RuleType : r = f.rule
  BY <1>1, WalkFiles DEF RuleFiles
<1>3. HandleExit(f, answers) = 0
  BY <1>1, DriedFiles, WalkFiles
<1>4. Priced(r)
  <2>1. 0 # 1 /\ 0 # 2
    OBVIOUS
  <2> QED  BY <2>1, <1>2, <1>3, Zenon DEF HandleExit, Priced
<1>5. PICK b : b = inlineExternalRefs(r, w)
  BY Zenon
<1>6. /\ b.version = r.version /\ b.mode = r.mode /\ b.source = r.source
      /\ DOMAIN b.checks = DOMAIN r.checks
      /\ \A i \in DOMAIN r.checks : b.checks[i].kind = r.checks[i].kind
  BY <1>5, BodyIs
<1>7. Compiled(b) = Compiled(r) /\ Templated(b) = Templated(r)
  BY <1>6 DEF Compiled, Templated
<1>8. Priced(b)
  BY <1>4, <1>6, <1>7, Zenon DEF Priced
<1> QED  BY <1>1, <1>2, <1>5, <1>8

(* The manifest of a publication has the type of one. *)
LEMMA ManifestTyped ==
    ASSUME NEW files \in Seq(FileType), NEW w, PublishExit(files, w) = 0
    PROVE  ManifestOf(files, w) \in BodiesType
<1>1. PICK m : m = ManifestOf(files, w)
  BY Zenon
<1>2. ASSUME NEW e \in DOMAIN m  PROVE e \in Names /\ m[e] \in RuleType
  <2>1. PICK f \in RuleFiles(Range(files)) : f.rule.entity = e /\ m[e] = inlineExternalRefs(f.rule, w)
    BY <1>1, <1>2, BodyOf
  <2>2. PICK r \in RuleType : r = f.rule
    BY <2>1, WalkFiles DEF RuleFiles
  <2>3. CollectExit(f, w) = 0
    BY <2>1, WalkFiles, PublishedFiles
  <2>4. \A j \in DOMAIN r.checks : Inlines(r.checks[j], w) => resolveCheckParams(r.checks[j].params)
    BY <2>2, <2>3, CollectedResolves
  <2>5. inlineExternalRefs(r, w) \in RuleType
    BY <2>4, BodyTyped
  <2> QED  BY <2>1, <2>2, <2>5, RuleFields
<1>3. m = [e \in DOMAIN m |-> m[e]]
  BY <1>1 DEF ManifestOf
<1>4. DOMAIN m \in SUBSET Names /\ m \in [DOMAIN m -> RuleType]
  BY <1>2, <1>3
<1> QED  BY <1>1, <1>4 DEF BodiesType

-----------------------------------------------------------------------------
(* The evaluators. *)

(* One check for each of the rule, in its order. *)
LEMMA SpecIs ==
    ASSUME NEW r, NEW i \in DOMAIN r.checks
    PROVE  LET spec == ToCheckSpecs(r)[i] IN
           /\ spec.kind = r.checks[i].kind /\ spec.source = r.source /\ spec.params = r.checks[i].params
  BY Zenon DEF ToCheckSpecs

(* The handler of each kind. *)
LEMMA EvaluateIs ==
    ASSUME NEW spec, NEW in
    PROVE  /\ spec.kind = "set.row_count_positive" => Evaluate(spec, in) = evaluateRowCountPositive(spec, in)
           /\ spec.kind = "set.row_count_within_baseline" =>
                 Evaluate(spec, in) = evaluateRowCountWithinBaseline(spec, in)
           /\ spec.kind = "record.schema_conformance" => Evaluate(spec, in) = recordSchemaConformance(spec, in)
           /\ spec.kind \notin RegisteredKinds => Evaluate(spec, in) = Error("unsupported_kind")
  BY DEF Evaluate, RegisteredKinds

(* The fields of a verdict and of an error. *)
LEMMA Outcomes ==
    /\ \A x : Verdict(x).result = x /\ Verdict(x).reason = "" /\ Verdict(x).samples = 0
    /\ \A x : Error(x).result = "error" /\ Error(x).reason = x /\ Error(x).samples = 0
  BY DEF Verdict, Error

(* The set-mode handlers collect no sample, and issue a query only over a source
   the evaluator accepts. *)
LEMMA SetEvaluation ==
    ASSUME NEW spec, NEW in, NEW o,
           o \in {evaluateRowCountPositive(spec, in), evaluateRowCountWithinBaseline(spec, in)}
    PROVE  o.samples = 0 /\ (Queried(o) => SourceError(spec.source) = "")
<1>0. SourceError(spec.source) \notin {"", "query_failed"} \/ SourceError(spec.source) = ""
  BY DEF SourceError
<1>1. CASE o = evaluateRowCountPositive(spec, in)
  BY <1>0, <1>1, Outcomes, Zenon DEF evaluateRowCountPositive, Queried
<1>2. CASE o = evaluateRowCountWithinBaseline(spec, in)
  BY <1>0, <1>2, Outcomes, Zenon DEF evaluateRowCountWithinBaseline, Queried
<1> QED  BY <1>1, <1>2, Zenon

(* The aggregation block over the catalog defaults. *)
LEMMA EffectiveIs ==
    ASSUME NEW p
    PROVE  /\ p.aggregation = Null =>
                 Effective(p).fail = 0 /\ Effective(p).warn = Null /\ Effective(p).sample = DefaultSampleSize
           /\ p.aggregation # Null =>
                 /\ Effective(p).fail = Override(p.aggregation.fail, 0)
                 /\ Effective(p).warn = p.aggregation.warn
                 /\ Effective(p).sample = Override(p.aggregation.sample, DefaultSampleSize)
  BY DEF Effective

(* A number beyond int is no integer. *)
LEMMA HugeApart == Huge \notin Int /\ Huge # Null
<1>1. Huge \notin Int \cup {Null}
  BY RuleSpecAssumption, Zenon
<1> QED  BY <1>1

(* The size of the samples a rule asks for is beyond int. *)
HugeSample(p) == p.aggregation # Null /\ p.aggregation.sample = Huge

(* The handlers refuse no check the linter has found fit, such a size apart. *)
LEMMA FitEvaluation ==
    ASSUME NEW spec, NEW in, spec.kind \in CatalogKinds, spec.source # Null,
           spec.source.type = expectedSourceTypeFor(SourceMode(spec.kind)),
           FitParams(spec.kind, spec.params)
    PROVE  \/ Evaluate(spec, in).reason \in {"", "query_failed", "invalid_source_identifier",
                                             "invalid_baseline_block", "schema_compile_failed"}
           \/ Evaluate(spec, in).reason = "invalid_params" /\ HugeSample(spec.params)
<1>1. CASE spec.kind = "set.row_count_positive"
  <2>1. SourceError(spec.source) \in {"", "invalid_source_identifier"}
    BY <1>1 DEF SourceError, expectedSourceTypeFor, SourceMode
  <2>2. evaluateRowCountPositive(spec, in).reason \in {"", "query_failed", "invalid_source_identifier"}
    BY <2>1, Outcomes, Zenon DEF evaluateRowCountPositive
  <2> QED  BY <2>2, <1>1, EvaluateIs, Zenon
<1>2. CASE spec.kind = "set.row_count_within_baseline"
  <2>1. SourceError(spec.source) \in {"", "invalid_source_identifier"}
    BY <1>2 DEF SourceError, expectedSourceTypeFor, SourceMode
  <2>2. spec.params # Null /\ spec.params.baseline # Null
    BY <1>2 DEF FitParams
  <2>3. evaluateRowCountWithinBaseline(spec, in).reason
            \in {"", "query_failed", "invalid_source_identifier", "invalid_baseline_block"}
    BY <2>1, <2>2, Outcomes, Zenon DEF evaluateRowCountWithinBaseline
  <2> QED  BY <2>3, <1>2, EvaluateIs, Zenon
<1>3. CASE spec.kind = "record.schema_conformance"
  <2>1. PICK p : p = spec.params
    BY Zenon
  <2>2. p # Null /\ SchemaFragment(p.schema) /\ (p.aggregation # Null => AggregationSchema(p.aggregation))
    BY <1>3, <2>1 DEF FitParams
  <2>3. ~HugeSample(p) => parseRecordSchemaConformanceParams(p)
    <3> SUFFICES ASSUME ~HugeSample(p)  PROVE parseRecordSchemaConformanceParams(p)
      OBVIOUS
    <3>1. CASE p.aggregation = Null
      BY <3>1, <2>2, EffectiveIs, LinterAssumption, EvaluatorsAssumption, HugeApart
         DEF parseRecordSchemaConformanceParams, SchemaFragment
    <3>2. CASE p.aggregation # Null
      <4>1. PICK a : a = p.aggregation
        BY Zenon
      <4>2. /\ a.fail \in (0 .. RateScale) \cup {Null} /\ a.warn \in (0 .. RateScale) \cup {Null}
            /\ a.sample \in Nat \cup {Null}
        BY <4>1, <3>2, <2>2 DEF AggregationSchema, HugeSample
      <4>3. Effective(p).fail \in 0 .. RateScale /\ Effective(p).sample \in Nat
        BY <4>1, <4>2, <3>2, EffectiveIs, LinterAssumption, EvaluatorsAssumption DEF Override
      <4>4. Effective(p).warn # Null => Effective(p).warn \in 0 .. RateScale
        BY <4>1, <4>2, <3>2, EffectiveIs
      <4> QED  BY <4>3, <4>4, <2>2, HugeApart DEF parseRecordSchemaConformanceParams, SchemaFragment
    <3> QED  BY <3>1, <3>2
  <2>4. \/ recordSchemaConformance(spec, in).reason \in {"", "schema_compile_failed"}
        \/ recordSchemaConformance(spec, in).reason = "invalid_params" /\ HugeSample(spec.params)
    BY <2>1, <2>3, Outcomes, Zenon DEF recordSchemaConformance
  <2> QED  BY <2>4, <1>3, EvaluateIs, Zenon
<1> QED  BY <1>1, <1>2, <1>3, Zenon DEF CatalogKinds

(* A handler keeps no more samples than the size in force, and an error none. *)
LEMMA RecordSamples ==
    ASSUME NEW spec, NEW in \in InputType, NEW o, o = recordSchemaConformance(spec, in),
           NEW n \in Nat,
           parseRecordSchemaConformanceParams(spec.params) =>
               Effective(spec.params).sample \in Int /\ Effective(spec.params).sample <= n
    PROVE  o.samples <= n
<1>1. in.violations \in Nat
  BY DEF InputType
<1>2. PICK size : size = Effective(spec.params).sample
  BY Zenon
<1>3. CASE ~parseRecordSchemaConformanceParams(spec.params) \/ spec.params.schema = "uncompilable"
  <2>1. o \in {Error("invalid_params"), Error("schema_compile_failed")}
    BY <1>3, Zenon DEF recordSchemaConformance
  <2>2. o.samples = 0
    BY <2>1, Outcomes, Zenon
  <2> QED  BY <2>2
<1>4. CASE parseRecordSchemaConformanceParams(spec.params) /\ spec.params.schema # "uncompilable"
  <2>1. o.samples = IF in.violations < size THEN in.violations ELSE size
    BY <1>2, <1>4, Zenon DEF recordSchemaConformance
  <2> QED  BY <2>1, <1>1, <1>2, <1>4
<1> QED  BY <1>3, <1>4

(* The size in force, under a guardrail the default respects. *)
LEMMA SampleSize ==
    ASSUME NEW r \in RuleType, Parses(r), EvaluateCost(r), NEW i \in DOMAIN r.checks,
           r.checks[i].kind = "record.schema_conformance",
           MaxEvidenceSampleSize > 0, MaxEvidenceSampleSize >= DefaultSampleSize,
           r.checks[i].params # Null, parseRecordSchemaConformanceParams(r.checks[i].params)
    PROVE  /\ Effective(r.checks[i].params).sample \in Int
           /\ Effective(r.checks[i].params).sample <= MaxEvidenceSampleSize
<1>1. PICK c \in CheckType : c = r.checks[i]
  BY RuleFields
<1>2. PICK p \in ParamsType : p = c.params
  BY <1>1, CheckFields
<1>3. r.mode = "record"
  <2>1. r.version # 1
    <3>1. r.version = 1 => validateV1(r)
      BY DEF Parses
    <3>2. r.checks[i].params # NoParams
      <4>1. NoParams.schema = Null
        BY DEF NoParams
      <4>2. r.checks[i].params.schema # Null
        <5>1. r.checks[i].params.schema \in {"object", "uncompilable"}
          BY Zenon DEF parseRecordSchemaConformanceParams
        <5>2. "object" \in Text /\ "uncompilable" \in Text
          BY NamesAssumption, Zenon
        <5>3. Null \notin Int \cup Text
          BY RuleSpecAssumption, Zenon
        <5> QED  BY <5>1, <5>2, <5>3
      <4> QED  BY <4>1, <4>2, Zenon
    <3> QED  BY <3>1, <3>2, Zenon DEF validateV1, validateCheckV1
  <2>2. validateV2(r)
    BY <2>1 DEF Parses
  <2> QED  BY <2>2, <1>1, Zenon DEF validateV2, validateCheckV2, Prefix
<1>4. evidenceSampleSize(p) # Null => evidenceSampleSize(p) <= MaxEvidenceSampleSize
  BY <1>1, <1>2, <1>3 DEF EvaluateCost
<1>5. p # Null
  BY BlocksAssumption
<1>6. p.aggregation # Null => p.aggregation.sample \in Optional(Number)
  BY ParamsFields DEF AggregationType, Optional
<1>7. CASE p.aggregation = Null
  BY <1>1, <1>2, <1>7, EffectiveIs, EvaluatorsAssumption
<1>8. CASE p.aggregation # Null
  <2>2. Effective(p).sample = Override(p.aggregation.sample, DefaultSampleSize)
    BY <1>8, EffectiveIs
  <2>1. p.aggregation.sample # Huge /\ evidenceSampleSize(p) = p.aggregation.sample
    <3>1. Effective(p).sample # Huge
      BY <1>1, <1>2 DEF parseRecordSchemaConformanceParams
    <3>2. p.aggregation.sample # Huge
      BY <3>1, <2>2, HugeApart DEF Override
    <3> QED  BY <3>2, <1>5, <1>8, Zenon DEF evidenceSampleSize
  <2>3. Effective(p).sample \in Int /\ Effective(p).sample <= MaxEvidenceSampleSize
    <3>1. PICK x : x = p.aggregation.sample
      BY Zenon
    <3>2. x = Null => Effective(p).sample = DefaultSampleSize
      BY <3>1, <2>2 DEF Override
    <3>3. x # Null => Effective(p).sample = x /\ x \in Int /\ x <= MaxEvidenceSampleSize
      BY <3>1, <2>1, <2>2, <1>4, <1>6, <1>8 DEF Override, Optional, Number
    <3> QED  BY <3>2, <3>3, EvaluatorsAssumption
  <2> QED  BY <2>3, <1>1, <1>2
<1> QED  BY <1>7, <1>8

-----------------------------------------------------------------------------
(* Verdicts. *)

(* More violations reach every rate that fewer reach. *)
LEMMA ReachesMore ==
    ASSUME NEW v \in Nat, NEW u \in Nat, v <= u, NEW records \in Nat, NEW rate \in Int,
           Reaches(v, records, rate)
    PROVE  Reaches(u, records, rate)
<1>1. RateScale \in Nat
  BY LinterAssumption
<1>2. PICK d \in Nat : u = v + d
  <2>1. u - v \in Nat /\ u = v + (u - v)
    OBVIOUS
  <2> QED  BY <2>1
<1>3. u * RateScale = v * RateScale + d * RateScale
  BY <1>1, <1>2
<1>4. d * RateScale >= 0 /\ v * RateScale \in Int /\ d * RateScale \in Int /\ rate * records \in Int
  BY <1>1
<1>5. v * RateScale >= rate * records
  BY DEF Reaches
<1>6. PICK x \in Int, y \in Int, z \in Int : x = v * RateScale /\ y = d * RateScale /\ z = rate * records
  BY <1>4
<1>7. x + y >= z
  BY <1>4, <1>5, <1>6
<1> QED  BY <1>3, <1>6, <1>7 DEF Reaches

(* classifyThreshold gives one of three verdicts, and no better one for more
   violations, whichever of the two rates is the larger. *)
LEMMA VerdictsOrdered ==
    ASSUME NEW records \in Nat, NEW late \in Nat, NEW v \in Nat, NEW u \in Nat, v <= u,
           NEW eff, eff.fail \in Int, eff.warn # Null => eff.warn \in Int
    PROVE  Severity(classifyThreshold(records, v, late, eff)) <= Severity(classifyThreshold(records, u, late, eff))
<1>1. \A n \in Nat : classifyThreshold(records, n, late, eff) \in {"pass", "degraded", "fail"}
  BY DEF classifyThreshold
<1>2. Severity("pass") = 0 /\ Severity("degraded") = 1 /\ Severity("fail") = 2
  BY DEF Severity
<1>3. CASE records = 0
  BY <1>1, <1>2, <1>3 DEF classifyThreshold
<1>4. CASE records > 0 /\ v = 0
  <2>1. classifyThreshold(records, v, late, eff) = "pass"
    BY <1>4 DEF classifyThreshold
  <2> QED  BY <2>1, <1>1, <1>2
<1>5. CASE records > 0 /\ v > 0
  <2>1. Reaches(v, records, eff.fail) => Reaches(u, records, eff.fail)
    BY ReachesMore
  <2>2. eff.warn # Null => (Reaches(v, records, eff.warn) => Reaches(u, records, eff.warn))
    BY ReachesMore
  <2> DEFINE Class(n) == IF Reaches(n, records, eff.fail) THEN "fail"
                         ELSE IF eff.warn # Null /\ Reaches(n, records, eff.warn) THEN "degraded" ELSE "pass"
  <2>3. \A n \in Nat : n > 0 => classifyThreshold(records, n, late, eff) = Class(n)
    BY <1>5 DEF classifyThreshold
  <2>4. u > 0 /\ v > 0
    BY <1>5
  <2>5. Severity(Class(v)) <= Severity(Class(u))
    BY <2>1, <2>2, <1>2
  <2> QED  BY <2>3, <2>4, <2>5
<1> QED  BY <1>3, <1>4, <1>5

-----------------------------------------------------------------------------
(* The answers of the engine. *)

(* What is known of the rule whose checks were evaluated. *)
LEMMA AnsweredRule ==
    ASSUME NEW o, AnswerOK(o), NEW i \in DOMAIN o.evals
    PROVE  \E r \in RuleType :
              /\ r = o.from.bodies[o.entity] /\ o.entity \in DOMAIN o.from.bodies
              /\ Parses(r) /\ EvaluateCost(r) /\ i \in DOMAIN r.checks
              /\ o.path = "window" => r.mode = "record"
              /\ o.specs[i].kind = r.checks[i].kind /\ o.specs[i].source = r.source
              /\ o.specs[i].params = r.checks[i].params
              /\ o.evals[i] = Evaluate(o.specs[i], o.in)
<1>1. i \in DOMAIN o.specs /\ o.evals[i] = Evaluate(o.specs[i], o.in)
  BY Zenon DEF AnswerOK
<1>2. o.status = "resolved"
  <2>1. o.status # "resolved" => o.specs = <<>>
    BY DEF AnswerOK
  <2>2. DOMAIN << >> = {}
    OBVIOUS
  <2> QED  BY <2>1, <2>2, <1>1
<1>3. /\ o.entity \in DOMAIN o.from.bodies /\ o.specs = ToCheckSpecs(o.from.bodies[o.entity])
      /\ Parses(o.from.bodies[o.entity]) /\ EvaluateCost(o.from.bodies[o.entity])
      /\ o.path = "window" => o.from.bodies[o.entity].mode = "record"
      /\ o.from \in ManifestType
  BY <1>2, Zenon DEF AnswerOK, SoundManifest
<1>4. o.from.bodies \in BodiesType
  BY <1>3 DEF ManifestType
<1>5. PICK r \in RuleType : r = o.from.bodies[o.entity]
  BY <1>3, <1>4 DEF BodiesType
<1>6. i \in DOMAIN r.checks
  BY <1>1, <1>3, <1>5, Zenon DEF ToCheckSpecs
<1>7. /\ o.specs[i].kind = r.checks[i].kind /\ o.specs[i].source = r.source
      /\ o.specs[i].params = r.checks[i].params
  BY <1>3, <1>5, <1>6, SpecIs, Zenon
<1> QED  BY <1>1, <1>3, <1>5, <1>6, <1>7, Zenon

(* A check of a linted v2 rule is dispatched, unless its sample size is beyond int. *)
LEMMA AnswerDispatched ==
    ASSUME NEW o, AnswerOK(o), o.from.lint, o.from.bodies[o.entity].version = 2, NEW i \in DOMAIN o.evals
    PROVE  \/ o.evals[i].reason \in {"", "query_failed", "invalid_source_identifier",
                                     "invalid_baseline_block", "schema_compile_failed"}
           \/ o.evals[i].reason = "invalid_params" /\ HugeSample(o.specs[i].params)
<1>1. PICK r \in RuleType :
        /\ r = o.from.bodies[o.entity] /\ o.entity \in DOMAIN o.from.bodies
        /\ i \in DOMAIN r.checks
        /\ o.specs[i].kind = r.checks[i].kind /\ o.specs[i].source = r.source
        /\ o.specs[i].params = r.checks[i].params
        /\ o.evals[i] = Evaluate(o.specs[i], o.in)
  BY AnsweredRule
<1>2. Dispatchable(r)
  BY <1>1, Zenon DEF AnswerOK, SoundManifest, Sound
<1>3. PICK spec : spec = o.specs[i]
  BY Zenon
<1>4. /\ spec.source # Null /\ spec.kind \in CatalogKinds
      /\ spec.source.type = expectedSourceTypeFor(SourceMode(spec.kind))
      /\ FitParams(spec.kind, spec.params)
  BY <1>1, <1>2, <1>3, Zenon DEF Dispatchable
<1>5. \/ Evaluate(spec, o.in).reason \in {"", "query_failed", "invalid_source_identifier",
                                         "invalid_baseline_block", "schema_compile_failed"}
      \/ Evaluate(spec, o.in).reason = "invalid_params" /\ HugeSample(spec.params)
  BY <1>4, FitEvaluation, Zenon
<1> QED  BY <1>1, <1>3, <1>5, Zenon

(* The evidence is within the guardrail. *)
LEMMA AnswerBounded ==
    ASSUME NEW o, AnswerOK(o), NEW i \in DOMAIN o.evals,
           MaxEvidenceSampleSize > 0, MaxEvidenceSampleSize >= DefaultSampleSize
    PROVE  o.evals[i].samples <= MaxEvidenceSampleSize
<1>1. PICK r \in RuleType :
        /\ Parses(r) /\ EvaluateCost(r) /\ i \in DOMAIN r.checks
        /\ o.specs[i].kind = r.checks[i].kind /\ o.specs[i].params = r.checks[i].params
        /\ o.evals[i] = Evaluate(o.specs[i], o.in)
  BY AnsweredRule
<1>2. PICK in \in InputType : in = o.in
  BY Zenon DEF AnswerOK
<1>3. PICK spec, e : spec = o.specs[i] /\ e = o.evals[i]
  OBVIOUS
<1>4. e = Evaluate(spec, in)
  BY <1>1, <1>2, <1>3
<1>5. MaxEvidenceSampleSize \in Nat
  BY RuleSpecAssumption
<1>6. CASE spec.kind \in {"set.row_count_positive", "set.row_count_within_baseline"}
  <2>1. e.samples = 0
    BY <1>4, <1>6, EvaluateIs, SetEvaluation, Zenon
  <2> QED  BY <2>1, <1>3, <1>5
<1>7. CASE spec.kind = "record.schema_conformance"
  <2>1. e = recordSchemaConformance(spec, in)
    BY <1>4, <1>7, EvaluateIs
  <2>2. CASE spec.params = Null
    <3>1. e = Error("invalid_params")
      BY <2>1, <2>2, Zenon DEF recordSchemaConformance, parseRecordSchemaConformanceParams
    <3>2. e.samples = 0
      BY <3>1, Outcomes, Zenon
    <3> QED  BY <3>2, <1>3, <1>5
  <2>3. CASE spec.params # Null
    <3>1. parseRecordSchemaConformanceParams(spec.params) =>
             Effective(spec.params).sample \in Int /\ Effective(spec.params).sample <= MaxEvidenceSampleSize
      BY <2>3, <1>1, <1>3, <1>7, SampleSize, Zenon
    <3>2. e.samples <= MaxEvidenceSampleSize
      BY <3>1, <2>1, <1>5, RecordSamples
    <3> QED  BY <3>2, <1>3
  <2> QED  BY <2>2, <2>3
<1>8. CASE spec.kind \notin RegisteredKinds
  <2>1. e.samples = 0
    <3>1. e = Error("unsupported_kind")
      BY <1>4, <1>8, EvaluateIs
    <3> QED  BY <3>1, Outcomes, Zenon
  <2> QED  BY <2>1, <1>3, <1>5
<1> QED  BY <1>6, <1>7, <1>8 DEF RegisteredKinds

(* A count query that is issued was priced. *)
LEMMA AnswerPriced ==
    ASSUME NEW o, AnswerOK(o), o.from.dry, NEW i \in DOMAIN o.evals, MaxBytesScannedPerRun > 0,
           HasTemplate(o.specs[i].kind), Queried(o.evals[i])
    PROVE  Estimate[o.specs[i].source.column] <= MaxBytesScannedPerRun
<1>1. PICK r \in RuleType :
        /\ r = o.from.bodies[o.entity] /\ o.entity \in DOMAIN o.from.bodies
        /\ Parses(r) /\ i \in DOMAIN r.checks
        /\ o.specs[i].kind = r.checks[i].kind /\ o.specs[i].source = r.source
        /\ o.evals[i] = Evaluate(o.specs[i], o.in)
  BY AnsweredRule
<1>2. Priced(r)
  BY <1>1, Zenon DEF AnswerOK, SoundManifest
<1>3. PICK spec, in, e : spec = o.specs[i] /\ in = o.in /\ e = o.evals[i]
  OBVIOUS
<1>4. spec.kind \in {"set.row_count_positive", "set.row_count_within_baseline"} /\ e = Evaluate(spec, in)
  BY <1>1, <1>3, Zenon DEF HasTemplate
<1>5. SourceError(r.source) = ""
  <2>1. SourceError(spec.source) = ""
    <3>1. e \in {evaluateRowCountPositive(spec, in), evaluateRowCountWithinBaseline(spec, in)}
      BY <1>4, EvaluateIs
    <3>2. Queried(e)
      BY <1>3
    <3> QED  BY <3>1, <3>2, SetEvaluation, Zenon
  <2> QED  BY <2>1, <1>1, <1>3, Zenon
<1>6. /\ r.source # Null /\ r.source.type = "bigquery"
      /\ r.source.table \in {"ok", "long"} /\ r.source.column \in {"", "plain"}
  BY <1>5, Zenon DEF SourceError, validateBQIdentifiers
<1>7. r.version = 2 /\ validateV2(r)
  BY <1>1, <1>6, Zenon DEF Parses, validateV1
<1>8. r.mode = "set"
  <2>1. Prefix(r.checks[i].kind) = r.mode
    BY <1>1, <1>7, Zenon DEF validateV2, validateCheckV2
  <2>2. Prefix(spec.kind) = "set"
    BY <1>4 DEF Prefix
  <2> QED  BY <2>1, <2>2, <1>1, <1>3, Zenon
<1>9. Compiled(r)
  <2>1. r.version >= 2
    BY <1>7
  <2> QED  BY <2>1, <1>6, <1>8, Zenon DEF Compiled
<1>10. Templated(r) # {}
  BY <1>1, Zenon DEF Templated
<1>11. ~(Estimate[r.source.column] > MaxBytesScannedPerRun)
  BY <1>2, <1>6, <1>9, <1>10, Zenon DEF Priced
<1>12. Estimate[r.source.column] \in Nat
  BY <1>6, DryRunAssumption, Zenon
<1>13. PICK n \in Nat, max \in Nat : n = Estimate[r.source.column] /\ max = MaxBytesScannedPerRun
  BY <1>12, DryRunAssumption, Zenon
<1>14. n <= max
  BY <1>11, <1>13
<1> QED  BY <1>1, <1>13, <1>14, Zenon

(* More violations, no better a verdict. *)
LEMMA AnswerMonotone ==
    ASSUME NEW o, AnswerOK(o), o.path = "window", NEW i \in DOMAIN o.evals,
           NEW v \in o.in.violations .. o.in.records, o.evals[i].result # "error"
    PROVE  Severity(o.evals[i].result) <= Severity(Evaluate(o.specs[i], [o.in EXCEPT !.violations = v]).result)
<1>1. PICK r \in RuleType :
        /\ Parses(r) /\ i \in DOMAIN r.checks /\ r.mode = "record"
        /\ o.specs[i].kind = r.checks[i].kind
        /\ o.evals[i] = Evaluate(o.specs[i], o.in)
  BY AnsweredRule
<1>2. PICK in \in InputType : in = o.in
  BY Zenon DEF AnswerOK
<1>3. PICK spec, e : spec = o.specs[i] /\ e = o.evals[i]
  OBVIOUS
<1>4. PICK more : more = [in EXCEPT !.violations = v]
  BY Zenon
<1>5. /\ in.records \in Nat /\ in.violations \in Nat /\ in.late \in Nat
      /\ more.records = in.records /\ more.late = in.late /\ more.violations = v
  BY <1>4 DEF InputType
<1>6. v \in Nat /\ in.violations <= v
  BY <1>2, <1>5
<1>7. e = Evaluate(spec, in)
  BY <1>1, <1>2, <1>3, Zenon
<1>8. spec.kind = "record.schema_conformance"
  <2>1. spec.kind \in RegisteredKinds
    <3>1. spec.kind \notin RegisteredKinds => e = Error("unsupported_kind")
      BY <1>7, EvaluateIs
    <3>2. e.result # "error"
      BY <1>3
    <3> QED  BY <3>1, <3>2, Outcomes, Zenon
  <2>2. Prefix(spec.kind) = "record"
    <3>1. r.version = 1 => validateV1(r)
      BY <1>1 DEF Parses
    <3>2. validateV2(r)
      BY <3>1, <1>1, Zenon DEF Parses, validateV1
    <3> QED  BY <3>2, <1>1, <1>3 DEF validateV2, validateCheckV2
  <2> QED  BY <2>1, <2>2 DEF RegisteredKinds, Prefix
<1>9. PICK p, eff : p = spec.params /\ eff = Effective(p)
  OBVIOUS
<1>10. parseRecordSchemaConformanceParams(p) /\ p.schema # "uncompilable"
  <2>1. e = recordSchemaConformance(spec, in)
    BY <1>7, <1>8, EvaluateIs, Zenon
  <2>2. ~(parseRecordSchemaConformanceParams(p) /\ p.schema # "uncompilable") =>
            e \in {Error("invalid_params"), Error("schema_compile_failed")}
    BY <2>1, <1>9, Zenon DEF recordSchemaConformance
  <2>3. e.result # "error"
    BY <1>3
  <2> QED  BY <2>2, <2>3, Outcomes, ZenonT(60)
<1>11. eff.fail \in Int /\ (eff.warn # Null => eff.warn \in Int)
  BY <1>9, <1>10, LinterAssumption DEF parseRecordSchemaConformanceParams
<1>12. \A x : Evaluate(spec, x).result = classifyThreshold(x.records, x.violations, x.late, eff)
  <2> TAKE x
  <2>1. Evaluate(spec, x) = recordSchemaConformance(spec, x)
    BY <1>8, EvaluateIs
  <2>2. PICK verdict, n : /\ verdict = classifyThreshold(x.records, x.violations, x.late, eff)
                        /\ n = IF x.violations < eff.sample THEN x.violations ELSE eff.sample
    OBVIOUS
  <2>3. recordSchemaConformance(spec, x) = [result |-> verdict, reason |-> "", samples |-> n]
    BY <2>2, <1>9, <1>10, Zenon DEF recordSchemaConformance
  <2>4. recordSchemaConformance(spec, x).result = verdict
    <3>1. PICK y : y = recordSchemaConformance(spec, x)
      BY Zenon
    <3>2. y = [result |-> verdict, reason |-> "", samples |-> n]
      BY <3>1, <2>3, Zenon
    <3>3. y.result = verdict
      BY <3>2, Zenon
    <3> QED  BY <3>1, <3>3, Zenon
  <2>5. verdict = classifyThreshold(x.records, x.violations, x.late, eff)
    BY <2>2, Zenon
  <2> QED  BY <2>1, <2>4, <2>5, Zenon
<1>13. Severity(classifyThreshold(in.records, in.violations, in.late, eff))
          <= Severity(classifyThreshold(in.records, v, in.late, eff))
  BY <1>5, <1>6, <1>11, VerdictsOrdered
<1>14. Severity(e.result) <= Severity(Evaluate(spec, more).result)
  BY <1>5, <1>7, <1>12, <1>13, Zenon
<1> QED  BY <1>2, <1>3, <1>4, <1>14

-----------------------------------------------------------------------------
(* The tools and the engine. *)

(* A checkout no tool has looked at. *)
LEMMA PipelineInit == Init => PipelineInv
<1> SUFFICES ASSUME Init  PROVE PipelineInv
  OBVIOUS
<1>1. PICK start \in Starts : checkout = start.files /\ ws = start.ws
  BY DEF Init
<1>2. checkout \in Seq(FileType) /\ OwnersModes(ws.owners)
  BY <1>1, FilesAssumption
<1>3. Null # 0
  BY RuleSpecAssumption
<1>4. TypeOK
  BY FilesAssumption DEF Init, TypeOK, ExitStatus
<1>5. ToolInv
  BY <1>2, <1>3 DEF Init, ToolInv
<1>6. EngineInv
  BY DEF Init, EngineInv
<1> QED  BY <1>4, <1>5, <1>6 DEF PipelineInv

(* The engine's half, while only the tools step. *)
LEMMA EngineIdle == EngineInv /\ UNCHANGED engineVars => EngineInv'
  BY DEF EngineInv, engineVars

(* The tools' half, while only the engine steps. *)
LEMMA ToolsIdle == ToolInv /\ UNCHANGED toolVars => ToolInv'
  BY DEF ToolInv, toolVars

(* An edit or a migration: the exit statuses of the old checkout are forgotten. *)
LEMMA ReplaceInv ==
    ASSUME PipelineInv, NEW i, NEW file \in FileType, Replace(i, file)
    PROVE  PipelineInv'
<1>1. /\ checkout' = [checkout EXCEPT ![i] = file] /\ linted' = Null /\ dried' = Null
      /\ edits < MaxEdits /\ edits' = edits + 1
      /\ UNCHANGED <<ws, publications, registry>> /\ UNCHANGED engineVars
  BY DEF Replace
<1>2. checkout' \in Seq(FileType)
  <2>1. checkout \in Seq(FileType)
    BY DEF PipelineInv, ToolInv
  <2>2. DOMAIN checkout = 1 .. Len(checkout) /\ Len(checkout) \in Nat /\ checkout \in [1 .. Len(checkout) -> FileType]
    BY <2>1
  <2>3. checkout' \in [1 .. Len(checkout) -> FileType]
    BY <2>2, <1>1, Zenon
  <2> QED  BY <2>2, <2>3
<1>3. Null # 0
  BY RuleSpecAssumption
<1>4. TypeOK'
  BY <1>1, FilesAssumption DEF PipelineInv, TypeOK, ExitStatus, engineVars
<1>5. ToolInv'
  BY <1>1, <1>2, <1>3 DEF PipelineInv, ToolInv
<1>6. EngineInv'
  BY <1>1, EngineIdle DEF PipelineInv
<1> QED  BY <1>4, <1>5, <1>6 DEF PipelineInv

(* The source the operator names. *)
LEMMA BigQuerySourceTyped ==
    ASSUME NEW table \in {"ok", "long"}
    PROVE  BigQuerySource(table) \in SourceType
<1>1. "" \in Text /\ "bigquery" \in Text /\ table \in Text
  BY NamesAssumption, Zenon
<1>2. ASSUME NEW empty, empty \in Text, NEW type, type \in Text
      PROVE  [type |-> type, table |-> table, column |-> empty, topic |-> empty, window |-> Null] \in SourceType
  <2>1. table \in Text
    BY <1>1, Zenon
  <2> QED  BY <2>1, <1>2 DEF SourceType, Optional
<1> QED  BY <1>1, <1>2, Zenon DEF BigQuerySource

(* A rule with its version, mode, source and checks written over. *)
LEMMA RewrittenTyped ==
    ASSUME NEW r \in RuleType, NEW mode \in Text, NEW source \in SourceType, NEW checks \in Seq(CheckType)
    PROVE  [r EXCEPT !.version = 2, !.mode = mode, !.source = source, !.checks = checks] \in RuleType
<1>1. [r EXCEPT !.version = 2] \in RuleType
  BY DEF RuleType
<1>2. ASSUME NEW q \in RuleType  PROVE [q EXCEPT !.mode = mode] \in RuleType
  BY DEF RuleType
<1>3. ASSUME NEW q \in RuleType  PROVE [q EXCEPT !.source = source] \in RuleType
  BY Zenon DEF RuleType, Optional
<1>4. ASSUME NEW q \in RuleType  PROVE [q EXCEPT !.checks = checks] \in RuleType
  BY DEF RuleType
<1>5. [r EXCEPT !.version = 2, !.mode = mode, !.source = source, !.checks = checks]
        = [[[[r EXCEPT !.version = 2] EXCEPT !.mode = mode] EXCEPT !.source = source] EXCEPT !.checks = checks]
  OBVIOUS
<1> QED  BY <1>1, <1>2, <1>3, <1>4, <1>5, Zenon

(* dq-migrate writes a rule of the type of one. *)
LEMMA MigratedTyped ==
    ASSUME NEW r \in RuleType, NEW table \in {"ok", "long"}
    PROVE  V1ToV2(r, table) \in RuleType
<1>1. PICK cs : cs = [i \in DOMAIN r.checks |-> MigratedCheck(r.checks[i])]
  BY Zenon
<1>2. V1ToV2(r, table) = [r EXCEPT !.version = 2, !.mode = "set", !.source = BigQuerySource(table), !.checks = cs]
  BY <1>1 DEF V1ToV2
<1>3. /\ "set" \in Text /\ "set.row_count_positive" \in Text /\ "set.row_count_within_baseline" \in Text /\ "set.unlisted" \in Text /\ "set.malformed" \in Text
  BY NamesAssumption, Zenon
<1>4. BigQuerySource(table) \in SourceType
  BY BigQuerySourceTyped
<1>5. ASSUME NEW i \in DOMAIN r.checks
      PROVE  MigratedCheck(r.checks[i]) \in CheckType
  <2>1. PICK c \in CheckType : c = r.checks[i]
    BY <1>5, RuleFields
  <2>2. PICK k, p : k = promoteKindToSetPrefix(c.kind) /\ p = IF c.params = NoParams THEN Null ELSE c.params
    OBVIOUS
  <2>3. k \in Text
    <3>1. k \in {c.kind, "set.row_count_positive", "set.row_count_within_baseline", "set.unlisted",
                "set.malformed"}
      BY <2>2, Zenon DEF promoteKindToSetPrefix, SetPrefixed
    <3> QED  BY <3>1, <1>3, CheckFields
  <2>4. p \in Optional(ParamsType)
    BY <2>2 DEF CheckType, Optional
  <2>5. [c EXCEPT !.kind = k, !.params = p] \in CheckType
    BY <2>3, <2>4, Zenon DEF CheckType
  <2> QED  BY <2>1, <2>2, <2>5, Zenon DEF MigratedCheck
<1>6. DOMAIN r.checks = 1 .. Len(r.checks) /\ Len(r.checks) \in Nat
  BY RuleFields
<1>7. cs \in [1 .. Len(r.checks) -> CheckType]
  BY <1>1, <1>5, <1>6
<1>8. cs \in Seq(CheckType)
  BY <1>6, <1>7
<1>9. PICK source \in SourceType, mode \in Text : source = BigQuerySource(table) /\ mode = "set"
  BY <1>3, <1>4
<1>10. [r EXCEPT !.version = 2, !.mode = mode, !.source = source, !.checks = cs] \in RuleType
  BY <1>8, RewrittenTyped, Zenon
<1> QED  BY <1>2, <1>9, <1>10, Zenon

(* Publish: a manifest that counts as linted, or as priced, is made from a checkout
   that was. *)
LEMMA PublishInv == PipelineInv /\ Publish => PipelineInv'
<1> SUFFICES ASSUME PipelineInv, Publish  PROVE PipelineInv'
  OBVIOUS
<1>1. /\ registry' = [bodies |-> ManifestOf(checkout, ws), lint |-> linted = 0, dry |-> dried = 0]
      /\ PublishExit(checkout, ws) = 0 /\ publications' = edits + 1
      /\ UNCHANGED <<checkout, ws, edits, linted, dried>> /\ UNCHANGED engineVars
  BY Zenon DEF Publish
<1>2. PICK m : m = registry'
  BY Zenon
<1>3. checkout \in Seq(FileType)
  BY DEF PipelineInv, ToolInv
<1>4. PICK bodies, lint, dry :
        bodies = ManifestOf(checkout, ws) /\ lint = (linted = 0) /\ dry = (dried = 0)
  OBVIOUS
<1>5. m = [bodies |-> bodies, lint |-> lint, dry |-> dry]
  BY <1>1, <1>2, <1>4, Zenon
<1>6. bodies \in BodiesType
  BY <1>1, <1>3, <1>4, ManifestTyped
<1>7. m \in ManifestType
  BY <1>4, <1>5, <1>6 DEF ManifestType
<1>8. m.bodies = bodies /\ m.lint = lint /\ m.dry = dry
  BY <1>5
<1>9. ASSUME lint, NEW e \in DOMAIN bodies  PROVE Sound(bodies[e])
  <2>1. LintExit(Range(checkout), ws) = 0
    BY <1>4, <1>9, Zenon DEF PipelineInv, ToolInv
  <2> QED  BY <2>1, <1>3, <1>4, <1>9, ManifestSound
<1>10. ASSUME dry, NEW e \in DOMAIN bodies  PROVE Priced(bodies[e])
  <2>1. PICK answers \in BOOLEAN : DryRunExit(checkout, answers) = 0
    BY <1>4, <1>10, Zenon DEF PipelineInv, ToolInv
  <2> QED  BY <2>1, <1>3, <1>4, <1>10, ManifestPriced
<1>11. SoundManifest(m)
  BY <1>7, <1>8, <1>9, <1>10 DEF SoundManifest
<1>12. m # Null
  BY <1>7, ManifestAssumption
<1>13. TypeOK'
  BY <1>1, <1>2, <1>12 DEF PipelineInv, TypeOK, ExitStatus, engineVars
<1>14. ToolInv'
  BY <1>1, <1>2, <1>11 DEF PipelineInv, ToolInv
<1>15. EngineInv'
  BY <1>1, EngineIdle DEF PipelineInv
<1> QED  BY <1>13, <1>14, <1>15 DEF PipelineInv

(* The fields of an answer. *)
LEMMA AnswerIs ==
    ASSUME NEW path, NEW entity, NEW status, NEW from, NEW in, NEW o, o = Answer(path, entity, status, from, in)
    PROVE  /\ o.specs = IF o.status = "resolved" THEN ToCheckSpecs(o.from.bodies[o.entity]) ELSE <<>>
           /\ o.evals = [i \in DOMAIN o.specs |-> Evaluate(o.specs[i], o.in)]
           /\ o.path = path /\ o.entity = entity /\ o.status = status /\ o.from = from /\ o.in = in
<1>1. PICK specs : specs = IF status = "resolved" THEN ToCheckSpecs(from.bodies[entity]) ELSE <<>>
  BY Zenon
<1>2. PICK evals : evals = [i \in DOMAIN specs |-> Evaluate(specs[i], in)]
  BY Zenon
<1>3. o = [path |-> path, entity |-> entity, status |-> status, from |-> from, in |-> in,
           specs |-> specs, evals |-> evals]
  BY <1>1, <1>2, Zenon DEF Answer
<1>4. /\ o.path = path /\ o.entity = entity /\ o.status = status /\ o.from = from /\ o.in = in
      /\ o.specs = specs /\ o.evals = evals
  BY <1>3
<1> QED  BY <1>1, <1>2, <1>4, Zenon

(* A trigger evaluates what the parser and the guardrails accept, and is refused
   only by a manifest the engine did not boot on. *)
LEMMA TriggerInv ==
    ASSUME PipelineInv, NEW entity, NEW in \in Answers, Trigger(entity, in)
    PROVE  PipelineInv'
<1>1. /\ engine = "up" /\ out' = Answer("trigger", entity, resolveChecks(entity, in), active, in)
      /\ UNCHANGED toolVars /\ UNCHANGED <<engine, boot, active>>
  BY DEF Trigger
<1>2. PICK o, status : o = out' /\ status = resolveChecks(entity, in)
  OBVIOUS
<1>3. /\ o.path = "trigger" /\ o.entity = entity /\ o.status = status /\ o.from = active /\ o.in = in
      /\ o.specs = IF o.status = "resolved" THEN ToCheckSpecs(o.from.bodies[o.entity]) ELSE <<>>
      /\ o.evals = [i \in DOMAIN o.specs |-> Evaluate(o.specs[i], o.in)]
  <2>1. o = Answer("trigger", entity, status, active, in)
    BY <1>1, <1>2
  <2> QED  BY <2>1, AnswerIs
<1>4. SoundManifest(active) /\ buildRecordRunners(boot.bodies)
  BY <1>1 DEF PipelineInv, EngineInv
<1>5. ASSUME status = "refused"  PROVE active # boot
  <2> SUFFICES ASSUME active = boot  PROVE FALSE
    OBVIOUS
  <2>1. entity \in DOMAIN boot.bodies /\ ~(Parses(boot.bodies[entity]) /\ EvaluateCost(boot.bodies[entity]))
    BY <1>2, <1>5 DEF resolveChecks
  <2>2. Parses(boot.bodies[entity]) /\ (boot.bodies[entity].mode = "record" => EvaluateCost(boot.bodies[entity]))
    BY <2>1, <1>4, Zenon DEF buildRecordRunners
  <2>3. boot.bodies[entity].mode # "record" => EvaluateCost(boot.bodies[entity])
    BY Zenon DEF EvaluateCost
  <2> QED  BY <2>1, <2>2, <2>3, Zenon
<1>6. status = "resolved" =>
         /\ entity \in DOMAIN active.bodies
         /\ Parses(active.bodies[entity]) /\ EvaluateCost(active.bodies[entity])
  BY <1>2, Zenon DEF resolveChecks
<1>7. in \in InputType
  BY FilesAssumption
<1>8. AnswerOK(o)
  BY <1>3, <1>4, <1>6, <1>7, Zenon DEF AnswerOK
<1>9. TypeOK'
  BY <1>1 DEF PipelineInv, TypeOK, toolVars
<1>10. ToolInv'
  BY <1>1, ToolsIdle DEF PipelineInv
<1>11. EngineInv'
  <2>1. o.status = "refused" => o.from # boot
    BY <1>3, <1>5, Zenon
  <2> QED  BY <2>1, <1>1, <1>2, <1>8 DEF PipelineInv, EngineInv
<1> QED  BY <1>9, <1>10, <1>11 DEF PipelineInv

(* A window is evaluated by the rule the engine booted on. *)
LEMMA CloseWindowInv ==
    ASSUME PipelineInv, NEW entity \in DOMAIN boot.bodies, NEW in \in Windows, CloseWindow(entity, in)
    PROVE  PipelineInv'
<1>1. /\ engine = "up" /\ boot.bodies[entity].mode = "record"
      /\ out' = Answer("window", entity, "resolved", boot, in)
      /\ UNCHANGED toolVars /\ UNCHANGED <<engine, boot, active>>
  BY Zenon DEF CloseWindow
<1>2. PICK o : o = out'
  BY Zenon
<1>3. /\ o.path = "window" /\ o.entity = entity /\ o.status = "resolved" /\ o.from = boot /\ o.in = in
      /\ o.specs = IF o.status = "resolved" THEN ToCheckSpecs(o.from.bodies[o.entity]) ELSE <<>>
      /\ o.evals = [i \in DOMAIN o.specs |-> Evaluate(o.specs[i], o.in)]
  <2>1. o = Answer("window", entity, "resolved", boot, in)
    BY <1>1, <1>2, Zenon
  <2> QED  BY <2>1, AnswerIs
<1>4. SoundManifest(boot) /\ buildRecordRunners(boot.bodies)
  BY <1>1 DEF PipelineInv, EngineInv
<1>5. Parses(boot.bodies[entity]) /\ EvaluateCost(boot.bodies[entity])
  BY <1>1, <1>4, Zenon DEF buildRecordRunners
<1>6. in \in InputType
  BY FilesAssumption
<1>7. AnswerOK(o)
  BY <1>1, <1>3, <1>4, <1>5, <1>6, Zenon DEF AnswerOK
<1>8. TypeOK'
  BY <1>1, Zenon DEF PipelineInv, TypeOK, toolVars
<1>9. ToolInv'
  BY <1>1, ToolsIdle, Zenon DEF PipelineInv
<1>10. EngineInv'
  <2>1. o.status # "refused"
    BY <1>3, Zenon
  <2> QED  BY <2>1, <1>1, <1>2, <1>7 DEF PipelineInv, EngineInv
<1> QED  BY <1>8, <1>9, <1>10 DEF PipelineInv

(* Boot, Stop and Refresh. *)
LEMMA EngineStep == PipelineInv /\ ((\E reached \in BOOLEAN : Boot(reached)) \/ Stop \/ Refresh) => PipelineInv'
<1> SUFFICES ASSUME PipelineInv, (\E reached \in BOOLEAN : Boot(reached)) \/ Stop \/ Refresh  PROVE PipelineInv'
  OBVIOUS
<1>1. ToolInv'
  BY ToolsIdle DEF PipelineInv, Boot, Stop, Refresh, toolVars
<1>2. ASSUME NEW reached \in BOOLEAN, Boot(reached)  PROVE PipelineInv'
  <2>1. /\ registry # Null /\ boot' = registry /\ active' = registry /\ out' = Null
        /\ engine' = IF ~reached THEN "unreachable"
                     ELSE IF buildRecordRunners(registry.bodies) THEN "up" ELSE "refused"
        /\ UNCHANGED toolVars
    BY <1>2 DEF Boot
  <2>2. /\ engine' = "refused" => ~buildRecordRunners(registry.bodies)
        /\ engine' = "up" => buildRecordRunners(registry.bodies)
    BY <2>1
  <2>3. engine' \in {"up", "refused", "unreachable"}
    BY <2>1
  <2>4. TypeOK'
    BY <2>1, <2>3 DEF PipelineInv, TypeOK, toolVars
  <2>5. EngineInv'
    BY <2>1, <2>2, <2>3 DEF PipelineInv, ToolInv, EngineInv
  <2> QED  BY <1>1, <2>4, <2>5 DEF PipelineInv
<1>3. CASE Stop
  BY <1>1, <1>3, Zenon DEF PipelineInv, TypeOK, EngineInv, Stop, toolVars
<1>4. CASE Refresh
  <2>1. /\ engine = "up" /\ active' = registry
        /\ UNCHANGED toolVars /\ UNCHANGED <<engine, boot, out>>
    BY <1>4 DEF Refresh
  <2>2. boot # Null /\ registry # Null /\ SoundManifest(registry)
    BY <2>1 DEF PipelineInv, TypeOK, ToolInv
  <2>3. TypeOK'
    BY <2>1, <2>2 DEF PipelineInv, TypeOK, toolVars
  <2>4. EngineInv'
    BY <2>1, <2>2 DEF PipelineInv, EngineInv
  <2> QED  BY <1>1, <2>3, <2>4 DEF PipelineInv
<1> QED  BY <1>2, <1>3, <1>4

(* Every step of the operator, the tools and the engine. *)
LEMMA PipelineStep == PipelineInv /\ [Next]_vars => PipelineInv'
<1> SUFFICES ASSUME PipelineInv, [Next]_vars  PROVE PipelineInv'
  OBVIOUS
<1>1. ASSUME NEW file \in Revisions, Edit(file)  PROVE PipelineInv'
  <2>1. file \in FileType
    BY FilesAssumption
  <2> QED  BY <2>1, <1>1, ReplaceInv DEF Edit
<1>2. ASSUME NEW i \in DOMAIN checkout, NEW table \in {"ok", "long"}, Migrate(i, table)  PROVE PipelineInv'
  <2>1. PICK f \in FileType : f = checkout[i]
    BY DEF PipelineInv, ToolInv
  <2>2. PICK r : r = V1ToV2(f.rule, table)
    BY Zenon
  <2>3. r \in RuleType
    BY <2>2, MigratedTyped DEF FileType
  <2>4. [f EXCEPT !.rule = r] \in FileType
    BY <2>3 DEF FileType
  <2>5. Replace(i, [f EXCEPT !.rule = r])
    BY <1>2, <2>1, <2>2 DEF Migrate
  <2> QED  BY <2>4, <2>5, ReplaceInv
<1>3. CASE Lint
  <2>1. /\ linted' = LintExit(Range(checkout), ws)
        /\ UNCHANGED <<checkout, ws, edits, publications, dried, registry>> /\ UNCHANGED engineVars
    BY <1>3 DEF Lint
  <2>2. linted' \in ExitStatus
    BY <2>1, LintExits DEF ExitStatus
  <2>3. TypeOK'
    BY <2>1, <2>2 DEF PipelineInv, TypeOK, engineVars
  <2>4. ToolInv'
    BY <2>1 DEF PipelineInv, ToolInv
  <2> QED  BY <2>1, <2>3, <2>4, EngineIdle DEF PipelineInv
<1>4. ASSUME NEW answers \in BOOLEAN, RunDryRun(answers)  PROVE PipelineInv'
  <2>1. /\ dried' = DryRunExit(checkout, answers)
        /\ UNCHANGED <<checkout, ws, edits, publications, linted, registry>> /\ UNCHANGED engineVars
    BY <1>4 DEF RunDryRun
  <2>2. dried' \in ExitStatus
    BY <2>1, DryRunExits DEF ExitStatus
  <2>3. TypeOK'
    BY <2>1, <2>2 DEF PipelineInv, TypeOK, engineVars
  <2>4. ToolInv'
    BY <2>1 DEF PipelineInv, ToolInv
  <2> QED  BY <2>1, <2>3, <2>4, EngineIdle DEF PipelineInv
<1>5. CASE Publish
  BY <1>5, PublishInv
<1>6. CASE (\E reached \in BOOLEAN : Boot(reached)) \/ Stop \/ Refresh
  BY <1>6, EngineStep
<1>7. ASSUME NEW entity \in Idents, NEW in \in Answers, Trigger(entity, in)  PROVE PipelineInv'
  BY <1>7, TriggerInv
<1>8. ASSUME NEW entity \in DOMAIN boot.bodies, NEW in \in Windows, CloseWindow(entity, in)  PROVE PipelineInv'
  BY <1>8, CloseWindowInv
<1>9. CASE UNCHANGED vars
  <2>1. UNCHANGED toolVars /\ UNCHANGED engineVars
    BY <1>9 DEF vars, toolVars, engineVars
  <2>2. TypeOK'
    BY <2>1 DEF PipelineInv, TypeOK, toolVars, engineVars
  <2> QED  BY <2>1, <2>2, ToolsIdle, EngineIdle DEF PipelineInv
<1> QED  BY <1>1, <1>2, <1>3, <1>4, <1>5, <1>6, <1>7, <1>8, <1>9 DEF Next

-----------------------------------------------------------------------------
(* The properties. *)

(* What the tools have established of a checkout stays true of the manifest made from
   it, and an answer is the evaluation of a rule that was let through. *)
THEOREM PipelineInvCorrect == Spec => []PipelineInv
  BY PipelineInit, PipelineStep, PTL DEF Spec

(* The statuses of the tools, and that an engine with a manifest has the active one
   and the registry beside it (main.go:189-211, 607-635). *)
THEOREM TypeCorrect == Spec => []TypeOK
<1>1. PipelineInv => TypeOK
  BY DEF PipelineInv
<1> QED  BY <1>1, PipelineInvCorrect, PTL

(* Lint against the publisher (publisher.go:180-212): no file of a linted checkout
   stops the walk, and nothing but duplicates and versions can stop what follows. *)
THEOREM LintedPublishesCorrect == Spec => []LintedPublishes
<1>1. PipelineInv => LintedPublishes
  <2> SUFFICES ASSUME PipelineInv, linted = 0, Collected(checkout) # {}, rejectDuplicateEntities(checkout),
                      observedSchemaVersions(checkout) \subseteq ws.supported \cap ws.mirror
               PROVE  PublishExit(checkout, ws) = 0
    BY Zenon DEF LintedPublishes
  <2>1. checkout \in Seq(FileType) /\ LintExit(Range(checkout), ws) = 0
    BY DEF PipelineInv, ToolInv
  <2>2. \A i \in Collected(checkout) : CollectExit(checkout[i], ws) = 0
    BY <2>1, LintedCollects, Zenon
  <2>3. ws.catalog # "garbled"
    BY <2>1 DEF LintExit
  <2>4. {i \in Collected(checkout) : CollectExit(checkout[i], ws) # 0} = {}
    BY <2>2
  <2> QED  BY <2>3, <2>4, Zenon DEF PublishExit
<1> QED  BY <1>1, PipelineInvCorrect, PTL

(* A published body of a linted checkout is sound. *)
LEMMA LintedBodies ==
    ASSUME PipelineInv, registry # Null, registry.lint, NEW e \in DOMAIN registry.bodies
    PROVE  Sound(registry.bodies[e])
  BY DEF PipelineInv, ToolInv, SoundManifest

(* Lint against the parser (parse.go:59-71): a published body of a linted checkout is
   parsed, a schedule apart. *)
THEOREM LintedParsesCorrect == Spec => []LintedParses
<1>1. PipelineInv => LintedParses
  BY LintedBodies, Zenon DEF Sound, LintedParses
<1> QED  BY <1>1, PipelineInvCorrect, PTL

(* Lint against the inlining (publisher.go:398-402): it carries no reference. *)
THEOREM LintedSelfContainedCorrect == Spec => []LintedSelfContained
<1>1. PipelineInv => LintedSelfContained
  BY LintedBodies, Zenon DEF Sound, SelfContained, LintedSelfContained
<1> QED  BY <1>1, PipelineInvCorrect, PTL

(* buildRecordRunners (main.go:643-718) refuses a rule of a linted manifest only for
   what the linter has no rule for. *)
THEOREM RefusalExplainedCorrect == Spec => []RefusalExplained
<1>1. PipelineInv => RefusalExplained
  <2> SUFFICES ASSUME PipelineInv, engine = "refused", boot.lint
               PROVE  \E e \in DOMAIN boot.bodies : LET r == boot.bodies[e] IN
                          \/ "schedule" \in r.fields
                          \/ /\ r.mode = "record"
                             /\ \/ ~EvaluateCost(r)
                                \/ r.source.window.duration \in {0, Overflow}
                                \/ r.source.window.lateness = Overflow
    BY Zenon DEF RefusalExplained
  <2>1. ~buildRecordRunners(boot.bodies) /\ SoundManifest(boot)
    BY DEF PipelineInv, EngineInv
  <2>2. PICK e \in DOMAIN boot.bodies : LET r == boot.bodies[e] IN
          ~(/\ Parses(r)
            /\ r.mode = "record" =>
                  /\ EvaluateCost(r)
                  /\ r.source.window.duration \in Nat \ {0}
                  /\ r.source.window.lateness \in Nat)
    BY <2>1, Zenon DEF buildRecordRunners
  <2>3. PICK r : r = boot.bodies[e]
    BY Zenon
  <2>4. "schedule" \notin r.fields => Parses(r)
    BY <2>1, <2>3, Zenon DEF SoundManifest, Sound
  <2>5. ASSUME "schedule" \notin r.fields
        PROVE  /\ r.mode = "record"
               /\ \/ ~EvaluateCost(r)
                  \/ r.source.window.duration \in {0, Overflow}
                  \/ r.source.window.lateness = Overflow
    <3>1. Parses(r)
      BY <2>4, <2>5
    <3>2. r.mode = "record" /\ (\/ ~EvaluateCost(r)
                                \/ r.source.window.duration \notin Nat \ {0}
                                \/ r.source.window.lateness \notin Nat)
      BY <3>1, <2>2, <2>3, Zenon
    <3>3. validateV2(r)
      BY <3>1, <3>2 DEF Parses, validateV1
    <3>4. validateWindow(r.source.window)
      BY <3>2, <3>3, Zenon DEF validateV2, validateSourceV2, expectedSourceTypeForMode, validateKafkaSource
    <3>5. r.source.window.duration \in Nat \cup {Overflow} /\ r.source.window.lateness \in Nat \cup {Overflow}
      BY <3>4 DEF validateWindow, Duration
    <3> QED  BY <3>2, <3>5
  <2> QED  BY <2>3, <2>5, Zenon
<1> QED  BY <1>1, PipelineInvCorrect, PTL

(* A rule of the boot manifest is served (main.go:314-341 against 643-718). *)
THEOREM BootRulesServedCorrect == Spec => []BootRulesServed
<1>1. PipelineInv => BootRulesServed
  BY DEF PipelineInv, EngineInv, BootRulesServed
<1> QED  BY <1>1, PipelineInvCorrect, PTL

(* The last answer is one the engine may give. *)
LEMMA AnsweredOK ==
    ASSUME PipelineInv, out # Null
    PROVE  AnswerOK(out)
  BY DEF PipelineInv, EngineInv

(* Every count query issued for a dry-run manifest had an estimate within the ceiling
   (dryrun.go:217-277 against row_count_positive.go:76-118). *)
THEOREM CountsPricedCorrect == Spec => []CountsPriced
<1>1. PipelineInv => CountsPriced
  BY AnsweredOK, AnswerPriced, Zenon DEF CountsPriced
<1> QED  BY <1>1, PipelineInvCorrect, PTL

(* The evaluators dispatch every check of a linted v2 rule (evaluator.go:147-171), and
   refuse the parameters of one only for a sample size beyond int
   (record_schema_conformance.go:280-293). *)
THEOREM LintedDispatchesCorrect == Spec => []LintedDispatches
<1>1. PipelineInv => LintedDispatches
  BY AnsweredOK, AnswerDispatched, Zenon DEF LintedDispatches, HugeSample
<1> QED  BY <1>1, PipelineInvCorrect, PTL

(* Evidence stays within the guardrail (cost.go:37-67,
   record_schema_conformance.go:105-127). *)
THEOREM EvidenceBoundedCorrect == Spec => []EvidenceBounded
<1>1. PipelineInv => EvidenceBounded
  BY AnsweredOK, AnswerBounded DEF EvidenceBounded
<1> QED  BY <1>1, PipelineInvCorrect, PTL

(* More violations never give a better verdict, for any two rates
   (record_schema_conformance.go:163-181). *)
THEOREM VerdictMonotoneCorrect == Spec => []VerdictMonotone
<1>1. PipelineInv => VerdictMonotone
  BY AnsweredOK, AnswerMonotone DEF VerdictMonotone
<1> QED  BY <1>1, PipelineInvCorrect, PTL

(* The owners of an entity leave it to be a set-mode one. *)
SetModeTaken(entity, owners) ==
    entity \in DOMAIN owners.entities => owners.entities[entity].mode \in {"", "set"}

(* A v1 rule of the catalog that lints still lints once migrated. *)
LEMMA MigratedLints ==
    ASSUME NEW r \in RuleType, NEW w, LintsRule(r, w), r.version = 1, w.catalog = "loaded",
           \A i \in DOMAIN r.checks : r.checks[i].kind \in {"row_count_positive", "set.row_count_positive"},
           SetModeTaken(r.entity, w.owners)
    PROVE  LintsRule(V1ToV2(r, "ok"), w)
<1>1. PICK cs : cs = [i \in DOMAIN r.checks |-> MigratedCheck(r.checks[i])]
  BY Zenon
<1>2. PICK n, s : n = V1ToV2(r, "ok") /\ s = BigQuerySource("ok")
  OBVIOUS
<1>3. n = [r EXCEPT !.version = 2, !.mode = "set", !.source = s, !.checks = cs]
  BY <1>1, <1>2 DEF V1ToV2
<1>4. /\ n.version = 2 /\ n.mode = "set" /\ n.source = s /\ n.checks = cs
      /\ n.entity = r.entity /\ n.fields = r.fields
  BY <1>3, RuleFields
<1>5. SchemaV1(r)
  BY DEF LintsRule, ValidateRuleBytes
<1>6. ASSUME NEW i \in DOMAIN r.checks
      PROVE  cs[i].kind = "set.row_count_positive" /\ cs[i].id = r.checks[i].id /\ cs[i].params = Null
  <2>1. PICK c \in CheckType : c = r.checks[i]
    BY <1>6, RuleFields, Zenon
  <2>2. promoteKindToSetPrefix(c.kind) = "set.row_count_positive"
    <3>1. c.kind \in {"row_count_positive", "set.row_count_positive"}
      BY <1>6, <2>1
    <3> QED  BY <3>1 DEF promoteKindToSetPrefix, SetPrefixed, HasModePrefix, Prefix
  <2>3. c.params = Null
    BY <1>5, <1>6, <2>1, Zenon DEF SchemaV1
  <2>4. cs[i] = [c EXCEPT !.kind = "set.row_count_positive", !.params = Null]
    <3>1. cs[i] = MigratedCheck(c)
      BY <1>1, <1>6, <2>1, Zenon
    <3>2. (IF c.params = NoParams THEN Null ELSE c.params) = Null
      BY <2>3
    <3> QED  BY <3>1, <3>2, <2>2, Zenon DEF MigratedCheck
  <2> QED  BY <2>1, <2>4, CheckFields
<1>7. DOMAIN cs = DOMAIN r.checks /\ cs # <<>>
  <2>1. DOMAIN cs = DOMAIN r.checks
    BY <1>1
  <2>2. r.checks \in Seq(CheckType) /\ r.checks # <<>>
    BY <1>5, RuleFields, Zenon DEF SchemaV1
  <2>3. DOMAIN r.checks # {}
    BY <2>2
  <2>4. DOMAIN cs # {} => cs # <<>>
    OBVIOUS
  <2> QED  BY <2>1, <2>3, <2>4
<1>8. s # Null /\ s.type = "bigquery" /\ SourceSchema(s)
  <2>1. s \in SourceType
    BY <1>2, BigQuerySourceTyped, ZenonT(60)
  <2>2. s # Null
    BY <2>1, BlocksAssumption
  <2>3. s.type = "bigquery"
    BY <1>2, Zenon DEF BigQuerySource
  <2>4. SourceSchema(s)
    BY <1>2, Zenon DEF BigQuerySource, SourceSchema
  <2> QED  BY <2>2, <2>3, <2>4
<1>9. SchemaV2(n)
  <2>1. \A i \in DOMAIN cs : cs[i].id \in Idents /\ Prefix(cs[i].kind) # ""
    <3>1. Prefix("set.row_count_positive") # ""
      BY Zenon DEF Prefix
    <3> QED  BY <3>1, <1>5, <1>6, <1>7, Zenon DEF SchemaV1
  <2>2. n.fields \subseteq {"description", "schedule"} /\ n.entity \in Idents
    BY <1>4, <1>5, Zenon DEF SchemaV1
  <2> QED  BY <2>1, <2>2, <1>4, <1>7, <1>8, Zenon DEF SchemaV2
<1>10. ASSUME NEW i \in DOMAIN cs  PROVE checkCrossChecks(cs[i], n, w.catalog = "loaded")
  <2>1. PICK c : c = cs[i]
    BY Zenon
  <2>2. c.kind = "set.row_count_positive" /\ Params(c) = NoParams
    BY <1>6, <1>7, <1>10, <2>1, Zenon DEF Params
  <2>3. Prefix(c.kind) = n.mode /\ c.kind \in CatalogKinds
    BY <2>2, <1>4 DEF Prefix, CatalogKinds
  <2>4. n.source.type = expectedSourceTypeFor(SourceMode(c.kind))
    BY <2>2, <1>4, <1>8 DEF expectedSourceTypeFor, SourceMode
  <2>5. ParamsSchema(c.kind, Params(c))
    BY <2>2 DEF ParamsSchema
  <2>6. validateCheckExternalRefs(c.kind, Params(c))
    BY <2>2 DEF validateCheckExternalRefs, ExternalEligible, NoParams
  <2> QED  BY <2>1, <2>3, <2>4, <2>5, <2>6, Zenon DEF checkCrossChecks
<1>11. validateV2CrossChecks(n, w)
  BY <1>4, <1>8, <1>10, Zenon DEF validateV2CrossChecks, expectedSourceTypeFor, SetModeTaken
<1> QED  BY <1>2, <1>4, <1>9, <1>11 DEF LintsRule, ValidateRuleBytes

(* dq-migrate (migrate.go:107-178) makes of a v1 rule that lints a v2 rule that
   lints. *)
THEOREM MigrationLintsCorrect == Spec => []MigrationLints
<1>1. PipelineInv => MigrationLints
  <2> SUFFICES ASSUME PipelineInv, NEW f \in Range(checkout),
                      LintsRule(f.rule, ws), CanMigrate(f.rule, "ok"), ws.catalog = "loaded",
                      \A i \in DOMAIN f.rule.checks :
                         f.rule.checks[i].kind \in {"row_count_positive", "set.row_count_positive"},
                      f.rule.entity \in DOMAIN ws.owners.entities =>
                         ws.owners.entities[f.rule.entity].mode # "record"
               PROVE  LintsRule(V1ToV2(f.rule, "ok"), ws)
    BY Zenon DEF MigrationLints
  <2>1. f.rule \in RuleType
    BY WalkFiles, Zenon DEF PipelineInv, ToolInv
  <2>2. f.rule.version = 1
    BY Zenon DEF CanMigrate
  <2>3. SetModeTaken(f.rule.entity, ws.owners)
    <3>1. OwnersModes(ws.owners)
      BY Zenon DEF PipelineInv, ToolInv
    <3> QED  BY <3>1, ZenonT(60) DEF OwnersModes, SetModeTaken
  <2> QED  BY <2>1, <2>2, <2>3, MigratedLints, Zenon
<1> QED  BY <1>1, PipelineInvCorrect, PTL
=============================================================================
