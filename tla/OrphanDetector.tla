--------------------------- MODULE OrphanDetector ---------------------------
(***************************************************************************)
(* engine/internal/orphan: Detector.RunOnce, called by orphanScanLoop.     *)
(* A pass lists the executions that have been `running' for longer than    *)
(* Threshold and appends an `aborted' row for each of them, one at a time; *)
(* what happened to an execution after the list was read is not looked at  *)
(* again.                                                                  *)
(***************************************************************************)
EXTENDS Alerts

CONSTANT Threshold         \* Config.Threshold
ASSUME ThresholdAssumption == Threshold \in Nat \ {0}

VARIABLES
    scanning,              \* a pass is under way
    candidates             \* the rows the pass has still to finalize

detectorVars == <<scanning, candidates>>

DetectorInit == scanning = FALSE /\ candidates = {}

(* The threshold left out of the cutoff. *)
ScanNoThreshold ==
    /\ ~scanning
    /\ \E view \in CurrentViews : candidates' = ListRunningOlderThan(view, clock)
    /\ scanning' = TRUE
    /\ UNCHANGED <<storeVars, published>>

(* cutoff := now - Threshold; an error of the query skips the pass, which is
   no step at all. *)
Scan ==
    /\ ~scanning
    /\ \E view \in CurrentViews :
          candidates' = ListRunningOlderThan(view, clock - Threshold)
    /\ scanning' = TRUE
    /\ UNCHANGED <<storeVars, published>>

BuildFollowupRow(row) ==
    [exec |-> row.exec, attempt |-> row.attempt, status |-> "aborted",
     startedAt |-> row.startedAt, recordedAt |-> clock]

AbortedEvent(row) ==
    [source |-> "orphan_detector", exec |-> row.exec, attempt |-> row.attempt,
     check |-> Null, result |-> Null, status |-> "aborted",
     category |-> MapCategory("orphan_detector", Null, "aborted"), recordedAt |-> clock]

(* The alert sent whether or not the row was written. *)
FinalizeAlertAlways(row, outcome) ==
    /\ scanning
    /\ row \in candidates
    /\ candidates' = candidates \ {row}
    /\ WriteExecutionRow(BuildFollowupRow(row), outcome)
    /\ Publish(AbortedEvent(row))
    /\ UNCHANGED <<scanning, checkRows, clock>>

(* A write that failed tried again in the same pass. *)
FinalizeRetried(row, outcome) ==
    /\ scanning
    /\ row \in candidates
    /\ candidates' = IF Acknowledged(outcome) THEN candidates \ {row} ELSE candidates
    /\ WriteExecutionRow(BuildFollowupRow(row), outcome)
    /\ IF Acknowledged(outcome) THEN Publish(AbortedEvent(row)) ELSE UNCHANGED published
    /\ UNCHANGED <<scanning, checkRows, clock>>

(* A failed write is counted and the pass goes on with the next candidate;
   the alert follows only a row that was acknowledged. *)
Finalize(row, outcome) ==
    /\ scanning
    /\ row \in candidates
    /\ candidates' = candidates \ {row}
    /\ WriteExecutionRow(BuildFollowupRow(row), outcome)
    /\ IF Acknowledged(outcome) THEN Publish(AbortedEvent(row)) ELSE UNCHANGED published
    /\ UNCHANGED <<scanning, checkRows, clock>>

(* A pass that never ends. *)
EndPassNever ==
    /\ scanning
    /\ candidates = {}
    /\ UNCHANGED <<scanning, candidates, storeVars, published>>

EndPass ==
    /\ scanning
    /\ candidates = {}
    /\ scanning' = FALSE
    /\ UNCHANGED <<candidates, storeVars, published>>

(* ctx.Done() between two candidates, or the process stops. *)
AbandonPass ==
    /\ scanning
    /\ scanning' = FALSE
    /\ candidates' = {}
    /\ UNCHANGED <<storeVars, published>>

DetectorStep ==
    \/ Scan
    \/ \E row \in candidates, o \in Outcomes : Finalize(row, o)
    \/ EndPass
    \/ AbandonPass
=============================================================================
