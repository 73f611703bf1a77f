------------------------------ MODULE Baseline ------------------------------
(***************************************************************************)
(* engine/internal/eval: the history query of ComputeBaseline and the      *)
(* sparse-history rule, over the tables that Runner's attempts write.  The *)
(* executions are those of one entity; the aggregated value is left out.   *)
(***************************************************************************)
EXTENDS Runner, FiniteSetsExt

CONSTANTS
    ReferenceWindow,   \* the effective reference window
    MinSamples         \* min_samples of the rule

ASSUME BaselineAssumption == ReferenceWindow \in Nat /\ MinSamples \in Nat \ {0}

(* WHERE check_id, result = 'pass' and executed_at in the reference window. *)
PassRows(check, windowEnd) ==
    {c \in checkRows : /\ c.check = check
                       /\ c.result = "pass"
                       /\ c.executedAt < windowEnd
                       /\ c.executedAt >= windowEnd - ReferenceWindow}

(* Joined with finished executions only. *)
JoinFinished(c) ==
    {r \in execRows : r.exec = c.exec /\ r.attempt = c.attempt /\ r.status # "running"}

(* JOIN dq_executions, the base table, ON execution_id and attempt_id. *)
JoinExecutions(c) == {r \in execRows : r.exec = c.exec /\ r.attempt = c.attempt}

CopiesOf(rows) == MapThenSumSet(LAMBDA r : copies[r], rows)

(* COUNT( * ): every copy of a pass row with every copy of a row it joins. *)
SamplesUsed(check, windowEnd) ==
    MapThenSumSet(LAMBDA c : copies[c] * CopiesOf(JoinExecutions(c)),
                  PassRows(check, windowEnd))

(* The handler's degraded verdict, insufficient_baseline_samples. *)
InsufficientSamples(check, windowEnd) == SamplesUsed(check, windowEnd) < MinSamples

WindowEnds == 0 .. MaxTime + 1

(* The inner join loses no sample and mixes none: whatever was lost, cancelled,
   repeated or killed, a check row finds the running row of its own attempt
   (runner.go:354-359 runs no check before that row is acknowledged), and beside
   it at most one other row, the terminal one.  How often the sample is counted
   is then a matter of the copies of these rows alone. *)
SamplesJoined ==
    \A c \in checkRows :
        /\ \E r \in JoinExecutions(c) : r.status = "running"
        /\ \A r, s \in JoinExecutions(c) :
              (r.status = "running" <=> s.status = "running") => r = s

(* "min_samples -- minimum count of pass rows" (ADR-0032, lines 131-135): a
   baseline that is used rests on at least that many pass rows. *)
MinSamplesMet ==
    \A check \in CheckIds, t \in WindowEnds :
        ~InsufficientSamples(check, t) => CopiesOf(PassRows(check, t)) >= MinSamples
=============================================================================
