----------------------------- MODULE Evaluators ------------------------------
(***************************************************************************)
(* engine/internal/eval: the dispatch on the kind and the three handlers.  *)
(* `in' is what the sources answer: the count query, the history query and *)
(* the records of a window.  An evaluation is [result, reason, samples].   *)
(***************************************************************************)
EXTENDS Linter

CONSTANTS
    DefaultSampleSize,    \* evidence_sample_size of the catalog defaults
    DefaultMinSamples     \* min_samples when the rule has none

ASSUME EvaluatorsAssumption == DefaultSampleSize \in Nat /\ DefaultMinSamples \in Nat \ {0}

(* A count is Null when its query fails. *)
InputType == [fetched : BOOLEAN, rows : Optional(Nat),
              history : Optional([samples : Nat, baseline : Int]),
              records : Nat, violations : Nat, late : Nat]

Verdict(result) == [result |-> result, reason |-> "", samples |-> 0]
Error(reason) == [result |-> "error", reason |-> reason, samples |-> 0]

(* The evaluator's column pattern refuses a leading digit. *)
validateBQIdentifiers(s) == s.table \in {"ok", "long"} /\ s.column \in {"", "plain"}

(* The refusals both set-mode handlers share. *)
SourceError(s) ==
    IF s = Null THEN "missing_source"
    ELSE IF s.type # "bigquery" THEN "missing_source"
    ELSE IF ~validateBQIdentifiers(s) THEN "invalid_source_identifier"
    ELSE ""

evaluateRowCountPositive(spec, in) ==
    IF SourceError(spec.source) # "" THEN Error(SourceError(spec.source))
    ELSE IF in.rows = Null THEN Error("query_failed")
    ELSE Verdict(IF in.rows <= 0 THEN "fail" ELSE "pass")

-----------------------------------------------------------------------------
(* Baselines. *)

(* Null for what the conversion does not take. *)
numericValue(n) == IF n = Huge THEN Null ELSE n

(* "mean" stands for the eight aggregations, which are told apart only by the
   query; Overflow is more digits than ParseInt takes. *)
ParseBaselineSpec(b) ==
    /\ b.source \in {"platform_history", "static"}
    /\ b.tolerance \in {"percent", "absolute", "stddev"}
    /\ b.source = "static" => numericValue(b.value) # Null /\ b.tolerance # "stddev"
    /\ b.source = "platform_history" => b.window \in Nat \ {0} /\ b.aggregation = "mean"

MinSamplesOf(b) ==
    IF numericValue(b.min) # Null /\ numericValue(b.min) > 0 THEN b.min ELSE DefaultMinSamples

Abs(n) == IF n < 0 THEN -n ELSE n

(* deviation > allowedDeviation, in hundredths; a missing value parses as 0. *)
Deviates(b, current, baseline) ==
    LET value == IF numericValue(b.allowed) = Null THEN 0 ELSE b.allowed
        allowance == CASE b.tolerance = "percent" -> value * Abs(baseline)
                       [] b.tolerance = "absolute" -> 100 * value
                       [] OTHER -> 0
    IN 100 * Abs(current - baseline) > allowance

evaluateRowCountWithinBaseline(spec, in) ==
    LET b == spec.params.baseline IN
    IF spec.params = Null THEN Error("missing_params")
    ELSE IF b = Null THEN Error("missing_baseline_block")
    ELSE IF ~ParseBaselineSpec(b) THEN Error("invalid_baseline_block")
    ELSE IF SourceError(spec.source) # "" THEN Error(SourceError(spec.source))
    ELSE IF in.rows = Null THEN Error("query_failed")
    ELSE IF b.source = "static"
         THEN Verdict(IF Deviates(b, in.rows, b.value) THEN "fail" ELSE "pass")
    ELSE IF in.history = Null THEN Error("query_failed")
    ELSE IF in.history.samples < MinSamplesOf(b) THEN Verdict("degraded")
    ELSE Verdict(IF Deviates(b, in.rows, in.history.baseline) THEN "fail" ELSE "pass")

-----------------------------------------------------------------------------
(* Record-mode conformance. *)

Override(value, default) == IF value = Null THEN default ELSE value

(* Catalog defaults under the rule's aggregation block; a warn rate that is
   absent or null is none. *)
Effective(p) ==
    IF p.aggregation = Null THEN [fail |-> 0, warn |-> Null, sample |-> DefaultSampleSize]
    ELSE [fail   |-> Override(p.aggregation.fail, 0),
          warn   |-> p.aggregation.warn,
          sample |-> Override(p.aggregation.sample, DefaultSampleSize)]

(* asInt refuses Huge. *)
parseRecordSchemaConformanceParams(p) ==
    /\ p # Null /\ p.schema \in {"object", "uncompilable"}
    /\ LET eff == Effective(p) IN
          /\ eff.fail \in 0 .. RateScale
          /\ eff.warn # Null => eff.warn \in 0 .. RateScale
          /\ eff.sample # Huge /\ eff.sample >= 0

(* violations / records >= rate / RateScale *)
Reaches(violations, records, rate) == violations * RateScale >= rate * records

(* The warn rate is looked at before the fail rate. *)
classifyWarnFirst(records, violations, late, eff) ==
    CASE records = 0 -> IF late > 0 THEN "degraded" ELSE "pass"
      [] records > 0 /\ violations = 0 -> "pass"
      [] OTHER -> IF eff.warn # Null /\ Reaches(violations, records, eff.warn) THEN "degraded"
                  ELSE IF Reaches(violations, records, eff.fail) THEN "fail" ELSE "pass"

classifyThreshold(records, violations, late, eff) ==
    CASE records = 0 -> IF late > 0 THEN "degraded" ELSE "pass"
      [] records > 0 /\ violations = 0 -> "pass"
      [] OTHER -> IF Reaches(violations, records, eff.fail) THEN "fail"
                  ELSE IF eff.warn # Null /\ Reaches(violations, records, eff.warn) THEN "degraded"
                  ELSE "pass"

recordSchemaConformance(spec, in) ==
    LET eff == Effective(spec.params) IN
    IF ~parseRecordSchemaConformanceParams(spec.params) THEN Error("invalid_params")
    ELSE IF spec.params.schema = "uncompilable" THEN Error("schema_compile_failed")
    ELSE [result  |-> classifyThreshold(in.records, in.violations, in.late, eff),
          reason  |-> "",
          samples |-> IF in.violations < eff.sample THEN in.violations ELSE eff.sample]

(* The handlers New registers. *)
RegisteredKinds == {"set.row_count_positive", "set.row_count_within_baseline", "record.schema_conformance"}

Evaluate(spec, in) ==
    CASE spec.kind \notin RegisteredKinds -> Error("unsupported_kind")
      [] spec.kind = "set.row_count_positive" -> evaluateRowCountPositive(spec, in)
      [] spec.kind = "set.row_count_within_baseline" -> evaluateRowCountWithinBaseline(spec, in)
      [] spec.kind = "record.schema_conformance" -> recordSchemaConformance(spec, in)
=============================================================================
