------------------------------- MODULE Linter --------------------------------
(***************************************************************************)
(* tools/lint: the rule schemas, the kind catalog, the cross-checks #3 to  *)
(* #8 and #12, the owners checks and the exit status of dq-lint.           *)
(*                                                                         *)
(* A checkout is a set of files [underscore, readable, decodes, rule],     *)
(* where decodes says whether the content is YAML of the shape; a workspace *)
(* `ws' is what lies beside the rules: the catalog, _owners.yaml,          *)
(* CODEOWNERS, the schema mirror and the supported schema versions.        *)
(* Messages are left out: a check is the condition under which it adds no  *)
(* error.                                                                  *)
(***************************************************************************)
EXTENDS ExternalRefs

CONSTANT RateScale      \* violation rates are multiples of 1 / RateScale

ASSUME LinterAssumption == RateScale \in Nat \ {0}

(* v1.schema.json *)
SchemaV1(r) ==
    /\ r.version = 1
    /\ r.fields \subseteq {"description"}
    /\ r.mode = "" /\ r.source = Null
    /\ r.entity \in Idents
    /\ r.checks # <<>>
    /\ \A i \in DOMAIN r.checks :
          r.checks[i].id \in Idents /\ r.checks[i].kind # "" /\ r.checks[i].params = Null

(* v2.schema.json: one of the two source shapes, whatever the mode. *)
SourceSchema(s) ==
    \/ /\ s.type = "bigquery"
       /\ s.table = "ok" /\ s.column \in {"", "plain", "digit"}
       /\ s.topic = "" /\ s.window = Null
    \/ /\ s.type = "kafka"
       /\ s.topic = "ok" /\ s.window # Null
       /\ s.window.type = "tumbling"
       /\ s.window.duration \in Nat \cup {Overflow} /\ s.window.lateness \in Nat \cup {Overflow}
       /\ s.table = "" /\ s.column = ""

SchemaV2(r) ==
    /\ r.version = 2
    /\ r.fields \subseteq {"description", "schedule"}
    /\ r.entity \in Idents
    /\ r.mode \in {"set", "record"}
    /\ r.source # Null /\ SourceSchema(r.source)
    /\ r.checks # <<>>
    /\ \A i \in DOMAIN r.checks : r.checks[i].id \in Idents /\ Prefix(r.checks[i].kind) # ""

ValidateRuleBytes(r) ==
    CASE r.version \in {0, 1} -> SchemaV1(r)
      [] r.version = 2 -> SchemaV2(r)
      [] OTHER -> FALSE

-----------------------------------------------------------------------------
(* catalog/v1.yaml *)

CatalogKinds == {"set.row_count_positive", "set.row_count_within_baseline", "record.schema_conformance"}

SourceMode(kind) == IF kind = "record.schema_conformance" THEN "record" ELSE "set"

ExternalEligible(kind) == kind = "record.schema_conformance"

BaselineSchema(b) ==
    /\ b.source \in {"platform_history", "static"}
    /\ b.window \in Nat \cup {Overflow, Null}
    /\ b.min \in (Nat \ {0}) \cup {Huge, Null}
    /\ b.aggregation \in {"mean", Null}
    /\ b.tolerance \in {"percent", "absolute", "stddev"} /\ b.allowed \in Nat \cup {Huge}

AggregationSchema(a) ==
    /\ a.fail \in (0 .. RateScale) \cup {Null}
    /\ a.warn \in (0 .. RateScale) \cup {Null}
    /\ a.sample \in Nat \cup {Huge, Null}

(* A schema sub-document is any object; whether it compiles is not asked. *)
SchemaFragment(s) == s \in {"object", "uncompilable"}

ParamsSchema(kind, p) ==
    CASE kind = "set.row_count_positive" -> p = NoParams
      [] kind = "set.row_count_within_baseline" ->
            /\ p = [NoParams EXCEPT !.baseline = p.baseline]
            /\ p.baseline # Null /\ BaselineSchema(p.baseline)
      [] kind = "record.schema_conformance" ->
            /\ p.baseline = Null /\ ~p.extra /\ ~p.strayRef
            /\ p.schema # Null => SchemaFragment(p.schema)
            /\ p.aggregation # Null => AggregationSchema(p.aggregation)

-----------------------------------------------------------------------------
(* Cross-checks of one check. *)

expectedSourceTypeFor(mode) == IF mode = "set" THEN "bigquery" ELSE "kafka"

(* #12: exactly one of the field and its reference, which resolves, parses
   and fits the field; no reference for any other field. *)
resolveExternalRef(ref) == LintReads(ref) /\ SchemaFragment(Artifact(ref).content)

validateCheckExternalRefs(kind, p) ==
    /\ ~p.strayRef
    /\ IF ExternalEligible(kind)
       THEN /\ (p.schema = Null) # (p.schema_ref = Null)
            /\ p.schema_ref # Null => resolveExternalRef(p.schema_ref)
       ELSE p.schema_ref = Null

Params(c) == IF c.params = Null THEN NoParams ELSE c.params

(* The checks without #12. *)
crossChecksWithoutRefs(c, r, catalog) ==
    /\ Prefix(c.kind) = r.mode
    /\ catalog /\ c.kind \in CatalogKinds
    /\ ParamsSchema(c.kind, Params(c))

(* The checks without #4 and #8. *)
crossChecksWithoutMode(c, r, catalog) ==
    /\ catalog /\ c.kind \in CatalogKinds
    /\ ParamsSchema(c.kind, Params(c))
    /\ validateCheckExternalRefs(c.kind, Params(c))

(* An unknown kind is passed over, not reported. *)
crossChecksKnownOnly(c, r, catalog) ==
    /\ Prefix(c.kind) = r.mode /\ catalog
    /\ c.kind \in CatalogKinds =>
          ParamsSchema(c.kind, Params(c)) /\ validateCheckExternalRefs(c.kind, Params(c))

checkCrossChecks(c, r, catalog) ==
    /\ Prefix(c.kind) = r.mode
    /\ catalog /\ c.kind \in CatalogKinds
    /\ r.source.type = expectedSourceTypeFor(SourceMode(c.kind))
    /\ ParamsSchema(c.kind, Params(c))
    /\ validateCheckExternalRefs(c.kind, Params(c))

validateV2CrossChecks(r, ws) ==
    /\ r.source.type = expectedSourceTypeFor(r.mode)
    /\ (ws.owners.state # "invalid" /\ r.entity \in DOMAIN ws.owners.entities) =>
          ws.owners.entities[r.entity].mode \in {"", r.mode}
    /\ \A i \in DOMAIN r.checks : checkCrossChecks(r.checks[i], r, ws.catalog = "loaded")

LintsRule(r, ws) == ValidateRuleBytes(r) /\ (r.version = 2 => validateV2CrossChecks(r, ws))

-----------------------------------------------------------------------------
(* The walk and the exit status. *)

RuleFiles(files) == {f \in files : ~f.underscore}

Loads(f) == f.readable /\ f.decodes

ValidateRulesDir(files, ws) == \A f \in RuleFiles(files) : Loads(f) /\ LintsRule(f.rule, ws)

(* listRuleYAMLs leaves out _owners.yaml alone, so an underscored YAML counts,
   unless it does not decode. *)
CheckRulesHaveOwners(files, owners) ==
    files # {} =>
        /\ DOMAIN owners.entities # {}
        /\ \A f \in files :
              /\ f.readable
              /\ f.decodes /\ f.rule.entity # "" => f.rule.entity \in DOMAIN owners.entities

CheckOwnersGroupMembership(owners, groups) ==
    groups # {} => \A e \in DOMAIN owners.entities : owners.entities[e].owner \in groups

(* main: 2 for an operational failure, among them the nil owners an invalid
   _owners.yaml leaves, which CheckRulesHaveOwners dereferences. *)
LintExit(files, ws) ==
    IF \/ ws.catalog \in {"garbled", "invalid"}
       \/ ws.owners.state = "invalid" /\ files # {}
       \/ ws.codeowners = "unreadable"
    THEN 2
    ELSE IF /\ ValidateRulesDir(files, ws)
            /\ ws.owners.state # "invalid"
            /\ CheckRulesHaveOwners(files, ws.owners)
            /\ CheckOwnersGroupMembership(ws.owners, ws.groups)
         THEN 0 ELSE 1
=============================================================================
