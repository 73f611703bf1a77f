---------------------------- MODULE ResultStore ----------------------------
(***************************************************************************)
(* The two append-only BigQuery tables of engine/internal/results and the  *)
(* queries the engine runs over them.                                      *)
(*                                                                         *)
(* A row is a record of the columns that the queries and the writers tell  *)
(* apart.  The streaming insert is at-least-once (bigquery_store.go:28-37) *)
(* and a row may be in its table several times: the queries over the       *)
(* canonical view see the distinct rows, execRows and checkRows, and a     *)
(* query that counts rows of a base table sees the copies too.             *)
(***************************************************************************)
EXTENDS Integers, FiniteSets, Bags

CONSTANTS
    Null,              \* an absent (NULL) column or event field
    MaxRepeats         \* bound on the inserts that land twice

VARIABLES
    execRows,          \* dq_executions: the state-transition rows
    checkRows,         \* dq_check_results
    copies,            \* the bag of all rows of the two tables
    clock              \* the wall clock every writer stamps its rows with

storeVars == <<execRows, checkRows, copies, clock>>

Terminal     == {"success", "failed", "error", "aborted"}
Statuses     == Terminal \cup {"running"}
CheckResults == {"pass", "fail", "degraded", "error"}

(***************************************************************************)
(* What a streaming insert does: it appends and says so; it fails; the row *)
(* lands and the answer is lost, which the writer takes for a failure; or  *)
(* the client repeats the request after such an answer, the row lands      *)
(* again, and the writer is told of success.                               *)
(***************************************************************************)
Outcomes == {"ok", "lost", "ambiguous", "repeated"}

Acknowledged(outcome) == outcome \in {"ok", "repeated"}

(* How many rows of the tables are there because an insert was repeated, or a
   check listed twice wrote the same row twice. *)
Repeats == BagCardinality(copies) - Cardinality(BagToSet(copies))

Insert(row, outcome) ==
    /\ outcome = "repeated" => Repeats < MaxRepeats
    /\ copies' = CASE outcome = "lost"     -> copies
                   [] outcome = "repeated" -> copies (+) SetToBag({row}) (+) SetToBag({row})
                   [] OTHER                -> copies (+) SetToBag({row})

WriteExecutionRow(row, outcome) ==
    /\ Insert(row, outcome)
    /\ execRows' = IF outcome = "lost" THEN execRows ELSE execRows \cup {row}

WriteCheckResultRow(row, outcome) ==
    /\ Insert(row, outcome)
    /\ checkRows' = IF outcome = "lost" THEN checkRows ELSE checkRows \cup {row}

-----------------------------------------------------------------------------
(* Queries. *)

Executions == {r.exec : r \in execRows}

RowsOf(e) == {r \in execRows : r.exec = e}

(* ROW_NUMBER() OVER (PARTITION BY execution_id ORDER BY recorded_at DESC):
   the rows that may get number 1.  Several rows with the same recorded_at
   are ordered arbitrarily. *)
CanonicalRows(e) ==
    {r \in RowsOf(e) : \A s \in RowsOf(e) : s.recordedAt <= r.recordedAt}

(* dq_executions_current: one canonical row for every execution. *)
CurrentViews ==
    {v \in [Executions -> execRows] : \A e \in Executions : v[e] \in CanonicalRows(e)}

IsOlderThan(row, before) ==
    /\ row.status = "running"
    /\ row.startedAt # Null
    /\ row.startedAt < before

ListRunningOlderThan(view, before) ==
    {view[e] : e \in {x \in Executions : IsOlderThan(view[x], before)}}

CountRunningExecutions(view) ==
    Cardinality({e \in Executions : view[e].status = "running"})

(* The check rows LatestExecutionPerEntityCheck joins to a canonical row. *)
JoinedCheckRows(row) ==
    {c \in checkRows : c.exec = row.exec /\ c.attempt = row.attempt}
=============================================================================
