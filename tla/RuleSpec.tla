------------------------------ MODULE RuleSpec -------------------------------
(***************************************************************************)
(* engine/internal/dsl/spec: Parse, EvaluateCost and ToCheckSpecs.         *)
(*                                                                         *)
(* A rule is a record of the fields of a rule YAML.  A string is what its  *)
(* validators tell apart: an identifier is well formed when it is in       *)
(* Idents, "" when it is absent, and anything else is refused by pattern.  *)
(* A duration is a number of ticks, Overflow (digits the grammar takes and *)
(* time.ParseDuration refuses) or Malformed, outside the grammar.  A       *)
(* number is an integer or Huge, one of 2^63 .. 2^64 - 1: yaml.v3 decodes  *)
(* these to uint64, which the engine's conversions do not take.  An        *)
(* optional block that is absent is Null.                                  *)
(***************************************************************************)
EXTENDS Integers, Sequences, FiniteSets

CONSTANTS
    Null, Overflow, Malformed, Huge,
    Text,                    \* the strings of a rule file
    Names,                   \* the ones it may hold for an entity
    Idents,                  \* well-formed entity names and check ids
    MaxLatenessTolerance,    \* cost guardrails; 0 disables one
    MaxEvidenceSampleSize

ASSUME RuleSpecAssumption ==
    /\ Null \notin Int \cup Text /\ Huge \notin Int \cup {Null}
    /\ Overflow \notin Nat /\ Malformed \notin Nat \cup {Overflow}
    /\ MaxLatenessTolerance \in Nat /\ MaxEvidenceSampleSize \in Nat

ASSUME NamesAssumption ==
    /\ {"", "set", "bigquery", "ok", "long", "set.row_count_positive",
        "set.row_count_within_baseline", "set.unlisted", "set.malformed",
        "object", "uncompilable"} \subseteq Text
    /\ Names \subseteq Text /\ Idents \subseteq Text \ {""}

-----------------------------------------------------------------------------
(* What a rule file decodes to, whatever its values are. *)

Optional(S) == S \cup {Null}
Literal == Nat \cup {Overflow, Malformed}
Number == Int \cup {Huge}

WindowType == [type : Text, duration : Literal, lateness : Literal]

SourceType == [type : Text, table : Text, column : Text, topic : Text,
               window : Optional(WindowType)]

(* A path below the directory of the rule file, or an absolute one. *)
RefType == [absolute : BOOLEAN, path : Seq(Text)]

AggregationType == [fail : Optional(Int), warn : Optional(Int), sample : Optional(Number)]

BaselineType == [source : Text, window : Optional(Literal), min : Optional(Number),
                 aggregation : Optional(Text), value : Optional(Number),
                 tolerance : Text, allowed : Optional(Number)]

(* strayRef: a reference in the place of a field that takes none; extra: a key
   no kind has. *)
ParamsType == [schema : Optional(Text), schema_ref : Optional(RefType), strayRef : BOOLEAN,
               aggregation : Optional(AggregationType), baseline : Optional(BaselineType),
               extra : BOOLEAN]

CheckType == [id : Text, kind : Text, params : Optional(ParamsType)]

RuleType == [version : Int, entity : Names, mode : Text, fields : SUBSET Text,
             source : Optional(SourceType), checks : Seq(CheckType)]

(* A params block without a key. *)
NoParams == [schema |-> Null, schema_ref |-> Null, strayRef |-> FALSE,
             aggregation |-> Null, baseline |-> Null, extra |-> FALSE]

ASSUME BlocksAssumption == Null \notin SourceType /\ Null \notin ParamsType

-----------------------------------------------------------------------------

(* The prefix of a kind the v2 pattern takes. *)
Prefix(kind) ==
    CASE kind \in {"set.row_count_positive", "set.row_count_within_baseline", "set.unlisted"} -> "set"
      [] kind \in {"record.schema_conformance", "record.unlisted"} -> "record"
      [] OTHER -> ""

(* Optional top-level keys RuleSpec decodes; the decoder refuses others. *)
KnownFields == {"description"}

validateIdentifier(x) == x \in Idents

expectedSourceTypeForMode(mode) == IF mode = "set" THEN "bigquery" ELSE "kafka"

Duration(d) == d \in Nat \cup {Overflow}

validateWindow(w) == w.type = "tumbling" /\ Duration(w.duration) /\ Duration(w.lateness)

(* `table' stands for project_id, dataset_id and table_id, `topic' for topic
   and consumer_group; "long" is well formed but over the schema's maxLength,
   which the parser does not look at. *)
validateBigQuerySource(s) ==
    /\ s.table \in {"ok", "long"}
    /\ s.column \in {"", "plain", "digit"}
    /\ s.topic = "" /\ s.window = Null

validateKafkaSource(s) ==
    /\ s.topic \in {"ok", "long"}
    /\ s.window # Null /\ validateWindow(s.window)
    /\ s.table = "" /\ s.column = ""

validateSourceV2(mode, s) ==
    /\ s.type = expectedSourceTypeForMode(mode)
    /\ IF s.type = "bigquery" THEN validateBigQuerySource(s) ELSE validateKafkaSource(s)

validateCheckV1(c) == validateIdentifier(c.id) /\ c.kind # "" /\ c.params \in {Null, NoParams}

validateCheckV2(c, mode) == validateIdentifier(c.id) /\ Prefix(c.kind) = mode

validateV1(r) ==
    /\ r.mode = "" /\ r.source = Null
    /\ validateIdentifier(r.entity)
    /\ r.checks # <<>>
    /\ \A i \in DOMAIN r.checks : validateCheckV1(r.checks[i])

validateV2(r) ==
    /\ validateIdentifier(r.entity)
    /\ r.mode \in {"set", "record"}
    /\ r.source # Null /\ validateSourceV2(r.mode, r.source)
    /\ r.checks # <<>>
    /\ \A i \in DOMAIN r.checks : validateCheckV2(r.checks[i], r.mode)

Parses(r) ==
    /\ r.fields \subseteq KnownFields
    /\ (r.version = 1 /\ validateV1(r)) \/ (r.version = 2 /\ validateV2(r))

-----------------------------------------------------------------------------
(* Cost guardrails. *)

(* Null when the rule does not override it, or overrides it with a number that
   is no int: the guardrail then has nothing to look at. *)
evidenceSampleSize(params) ==
    IF params = Null THEN Null
    ELSE IF params.aggregation = Null THEN Null
    ELSE IF params.aggregation.sample = Huge THEN Null
    ELSE params.aggregation.sample

(* Only the first check's override is looked at. *)
EvaluateCostFirst(r) ==
    r.mode = "record" =>
        /\ (r.source # Null /\ r.source.window # Null /\ MaxLatenessTolerance > 0) =>
              r.source.window.lateness \in 0 .. MaxLatenessTolerance
        /\ MaxEvidenceSampleSize > 0 =>
              LET size == evidenceSampleSize(r.checks[1].params)
              IN size # Null => size <= MaxEvidenceSampleSize

EvaluateCost(r) ==
    r.mode = "record" =>
        /\ (r.source # Null /\ r.source.window # Null /\ MaxLatenessTolerance > 0) =>
              r.source.window.lateness \in 0 .. MaxLatenessTolerance
        /\ MaxEvidenceSampleSize > 0 =>
              \A i \in DOMAIN r.checks :
                 LET size == evidenceSampleSize(r.checks[i].params)
                 IN size # Null => size <= MaxEvidenceSampleSize

(* A rule without mode is a set-mode rule. *)
ToCheckSpecs(r) ==
    [i \in DOMAIN r.checks |->
        [id     |-> r.checks[i].id,
         kind   |-> r.checks[i].kind,
         mode   |-> IF r.mode = "" THEN "set" ELSE r.mode,
         source |-> r.source,
         params |-> r.checks[i].params]]
=============================================================================
