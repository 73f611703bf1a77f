------------------------------- MODULE DryRun --------------------------------
(***************************************************************************)
(* tools/dryrun: the walk that prices the count query of every set-mode    *)
(* BigQuery check and stops at the first failure.  Estimate is what        *)
(* BigQuery answers to the dry run, with a partition column over the one   *)
(* placeholder day the tool binds (dryRunPlaceholderStart, End), or with   *)
(* none ("") over the whole table.  What a query scans when it runs        *)
(* depends on the trigger's window, and is not the estimate.               *)
(***************************************************************************)
EXTENDS RuleCollection

CONSTANTS
    Estimate,                \* partition column -> estimated bytes
    MaxBytesScannedPerRun    \* the ceiling; 0 disables it

ASSUME DryRunAssumption ==
    MaxBytesScannedPerRun \in Nat /\ Estimate \in [{"", "plain", "digit"} -> Nat]

(* Rules that are not skipped. *)
Compiled(r) == r.version >= 2 /\ r.mode = "set" /\ r.source # Null /\ r.source.type = "bigquery"

HasTemplate(kind) == kind \in {"set.row_count_positive", "set.row_count_within_baseline"}

Templated(r) == {i \in DOMAIN r.checks : HasTemplate(r.checks[i].kind)}

(* Exit status handleRule ends the walk with, or 0; answers is whether
   BigQuery answers the dry run. *)
HandleExit(f, answers) ==
    IF ~Loads(f) THEN 2
    ELSE IF ~Compiled(f.rule) THEN 0
    ELSE IF f.rule.source.table = "" THEN 1
    ELSE IF Templated(f.rule) = {} THEN 0
    ELSE IF ~answers THEN 2
    ELSE IF MaxBytesScannedPerRun > 0 /\ Estimate[f.rule.source.column] > MaxBytesScannedPerRun
         THEN 1 ELSE 0

(* The last file of the walk decides. *)
DryRunExitLast(files, answers) ==
    IF Collected(files) = {} THEN 0 ELSE HandleExit(files[Max(Collected(files))], answers)

DryRunExit(files, answers) ==
    LET stops == {i \in Collected(files) : HandleExit(files[i], answers) # 0}
    IN IF stops = {} THEN 0 ELSE HandleExit(files[Min(stops)], answers)
=============================================================================
