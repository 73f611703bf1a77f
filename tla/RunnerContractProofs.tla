------------------------ MODULE RunnerContractProofs ------------------------
(***************************************************************************)
(* Runner implements AttemptContract, what the canonical projection shows  *)
(* as running has not ended, and the history query of the baselines loses  *)
(* no sample.  All rest on what an attempt's rows are at each point of     *)
(* Run: none before the first write, the running row while the checks run, *)
(* and then at most the terminal row beside it, stamped no earlier.        *)
(***************************************************************************)
EXTENDS RunnerProofs, RunnerContract, Baseline, FiniteSetTheorems

(* The solver needs a fraction of this; the limit allows for a loaded machine. *)
USE SMTT(60)

(* The rows of attempt a, by where a is. *)
Visible(a) ==
    /\ pc[a] \in {"idle", "precheck", "preerror", "running"} => AttemptRows(a) = {}
    /\ pc[a] \in {"checks", "checkrow", "checkemit", "terminal"} =>
          BuildRunningRow(a) \in AttemptRows(a)
    /\ pc[a] = "terminal" => started[a] <= stamp[a]
    /\ \A r \in AttemptRows(a) :
          /\ r.status = "running" => r = BuildRunningRow(a)
          /\ r.status # "running" =>
                /\ r = BuildTerminalRow(a)
                /\ BuildRunningRow(a) \in AttemptRows(a) => started[a] <= stamp[a]

VisibleInv == \A a \in Attempts : Visible(a)

(* No attempt started in the future. *)
StartedInv == \A a \in Attempts : started[a] <= clock

(* The wall clock never runs backwards. *)
LEMMA NextStarted ==
    ASSUME TypeOK, StartedInv, [Next]_vars
    PROVE  StartedInv'
<1>1. CASE clock' = clock /\ started' = started
  BY <1>1 DEF StartedInv
<1>2. ASSUME NEW a \in Attempts, NEW e \in Execs, Start(a, e) PROVE StartedInv'
  BY <1>2 DEF Start, StartedInv, TypeOK, storeVars
<1>3. CASE Tick
  BY <1>3 DEF Tick, StartedInv, TypeOK, runnerVars
<1>4. ASSUME NEW a \in Attempts, Step(a) PROVE clock' = clock /\ started' = started
  BY <1>4, Zenon DEF Step, PrecheckPresent, PrecheckAbsent, WritePreCheckErrorRow, WriteRunningRow,
              CancelMidPass, Evaluate, Panics, WriteCheckRow, EmitCheckEvent, FinishChecks,
              WriteTerminalRow, EmitExecutionEvent, storeVars
<1> QED  BY <1>1, <1>2, <1>3, <1>4 DEF Next, Shutdown, Exit, Boot, vars, runnerVars, storeVars

(* An attempt that is left alone, or only killed, keeps its rows' shape. *)
LEMMA LeftAlone ==
    ASSUME NEW b \in Attempts, Visible(b), AttemptRows(b)' = AttemptRows(b),
           pc'[b] = pc[b] \/ pc'[b] \in Returned,
           exec'[b] = exec[b], started'[b] = started[b], stamp'[b] = stamp[b],
           results'[b] = results[b]
    PROVE  Visible(b)'
<1>1. BuildRunningRow(b)' = BuildRunningRow(b) /\ BuildTerminalRow(b)' = BuildTerminalRow(b)
  BY DEF BuildRunningRow, BuildTerminalRow, TerminalStatus, MapStatus
<1> QED  BY <1>1 DEF Visible, Returned

(* The rows of an attempt that has no terminal row yet. *)
LEMMA OpenRows ==
    ASSUME IndInv, NEW a \in Attempts, pc[a] \notin {"emit", "done", "failed", "panicked", "dead"}
    PROVE  \A r \in AttemptRows(a) : r.status = "running"
BY DEF IndInv, ExecRowsInv, AttemptRows

(* What the writes of an execution row do to the rows of each attempt. *)
LEMMA ExecWrite ==
    ASSUME NEW a \in Attempts, NEW row, NEW o \in Outcomes, row.attempt = a,
           WriteExecutionRow(row, o)
    PROVE  /\ \A b \in Attempts \ {a} : AttemptRows(b)' = AttemptRows(b)
           /\ o = "lost" => AttemptRows(a)' = AttemptRows(a)
           /\ o # "lost" => AttemptRows(a)' = AttemptRows(a) \cup {row}
BY DEF WriteExecutionRow, AttemptRows

(* The three kinds of row are told apart by their status. *)
LEMMA RowShapes ==
    ASSUME TypeOK, NEW a \in Attempts
    PROVE  /\ BuildRunningRow(a).status = "running" /\ BuildRunningRow(a).attempt = a
           /\ BuildTerminalRow(a).status = TerminalStatus(a) /\ BuildTerminalRow(a).attempt = a
           /\ TerminalStatus(a) # "running"
BY TerminalStatusType DEF BuildRunningRow, BuildTerminalRow

(* A step of one attempt keeps the shape of its rows. *)
LEMMA StepVisible ==
    ASSUME IndInv, VisibleInv, StartedInv, NEW a \in Attempts, Step(a)
    PROVE  VisibleInv'
<1> USE DEF InFlight, Returned
<1>0. TypeOK /\ Visible(a)
  BY DEF IndInv, VisibleInv
<1>1. ASSUME \A b \in Attempts \ {a} : /\ AttemptRows(b)' = AttemptRows(b)
                                       /\ pc'[b] = pc[b] /\ exec'[b] = exec[b]
                                       /\ started'[b] = started[b] /\ stamp'[b] = stamp[b]
                                       /\ results'[b] = results[b],
             Visible(a)'
      PROVE  VisibleInv'
  BY <1>1, LeftAlone DEF VisibleInv
<1>2. ASSUME UNCHANGED execRows PROVE \A b \in Attempts : AttemptRows(b)' = AttemptRows(b)
  BY <1>2 DEF AttemptRows
<1>3. CASE PrecheckPresent(a)
  <2>1. Visible(a)'
    BY <1>0, <1>2, <1>3 DEF PrecheckPresent, Goto, storeVars, Visible, TypeOK
  <2> QED  BY <1>0, <1>1, <1>2, <1>3, <2>1 DEF PrecheckPresent, Goto, storeVars, TypeOK
<1>4. CASE PrecheckAbsent(a)
  <2>1. Visible(a)'
    BY <1>0, <1>2, <1>4 DEF PrecheckAbsent, Goto, storeVars, Visible, TypeOK
  <2> QED  BY <1>0, <1>1, <1>2, <1>4, <2>1 DEF PrecheckAbsent, Goto, storeVars, TypeOK
<1>5. ASSUME NEW o \in Outcomes, WritePreCheckErrorRow(a, o) PROVE VisibleInv'
  <2>1. BuildRunningRow(a)' = BuildRunningRow(a) /\ BuildTerminalRow(a)' = BuildTerminalRow(a)
    BY <1>5 DEF WritePreCheckErrorRow, BuildRunningRow, BuildTerminalRow, TerminalStatus, MapStatus
  <2>2. /\ AttemptRows(a) = {}
        /\ AttemptRows(a)' \subseteq {BuildTerminalRow(a)}
        /\ \A b \in Attempts \ {a} : AttemptRows(b)' = AttemptRows(b)
    BY <1>0, <1>5, ExecWrite, RowShapes DEF WritePreCheckErrorRow, Visible
  <2>3. pc'[a] \in {"emit", "failed"} /\ \A b \in Attempts \ {a} : pc'[b] = pc[b]
    BY <1>0, <1>5 DEF WritePreCheckErrorRow, GotoIfWritten, Goto, TypeOK
  <2>4. Visible(a)'
    BY <1>0, <2>1, <2>2, <2>3, RowShapes DEF Visible
  <2> QED  BY <1>0, <1>1, <1>5, <2>2, <2>3, <2>4 DEF WritePreCheckErrorRow
<1>6. ASSUME NEW o \in Outcomes, WriteRunningRow(a, o) PROVE VisibleInv'
  <2>1. BuildRunningRow(a)' = BuildRunningRow(a)
    BY <1>6 DEF WriteRunningRow, BuildRunningRow
  <2>2. /\ AttemptRows(a) = {}
        /\ AttemptRows(a)' \subseteq {BuildRunningRow(a)}
        /\ Acknowledged(o) => BuildRunningRow(a) \in AttemptRows(a)'
        /\ \A b \in Attempts \ {a} : AttemptRows(b)' = AttemptRows(b)
    BY <1>0, <1>6, ExecWrite, RowShapes DEF WriteRunningRow, Visible, Acknowledged
  <2>3. pc'[a] = (IF Acknowledged(o) THEN "checks" ELSE "failed") /\ \A b \in Attempts \ {a} : pc'[b] = pc[b]
    BY <1>0, <1>6 DEF WriteRunningRow, GotoIfWritten, Goto, TypeOK
  <2>4. Visible(a)'
    BY <1>0, <2>1, <2>2, <2>3, RowShapes DEF Visible
  <2> QED  BY <1>0, <1>1, <1>6, <2>2, <2>3, <2>4 DEF WriteRunningRow
<1>7. CASE CancelMidPass(a)
  BY <1>0, <1>1, <1>2, <1>7, LeftAlone DEF CancelMidPass, Goto, storeVars, TypeOK
<1>8. ASSUME NEW r \in CheckResults, Evaluate(a, r) PROVE VisibleInv'
  <2>1. BuildRunningRow(a)' = BuildRunningRow(a)
    BY <1>8 DEF Evaluate, BuildRunningRow
  <2>2. \A x \in AttemptRows(a) : x.status = "running"
    BY <1>8, OpenRows DEF Evaluate
  <2>3. Visible(a)'
    BY <1>0, <1>2, <1>8, <2>1, <2>2 DEF Evaluate, Goto, storeVars, Visible, TypeOK
  <2> QED  BY <1>0, <1>1, <1>2, <1>8, <2>3 DEF Evaluate, Goto, storeVars, TypeOK
<1>9. CASE Panics(a)
  BY <1>0, <1>1, <1>2, <1>9, LeftAlone DEF Panics, Goto, storeVars, TypeOK
<1>10. ASSUME NEW o \in Outcomes, WriteCheckRow(a, o) PROVE VisibleInv'
  <2>1. BuildRunningRow(a)' = BuildRunningRow(a) /\ BuildTerminalRow(a)' = BuildTerminalRow(a)
    BY <1>10 DEF WriteCheckRow, BuildRunningRow, BuildTerminalRow, TerminalStatus, MapStatus
  <2>2. Visible(a)'
    BY <1>0, <1>2, <1>10, <2>1 DEF WriteCheckRow, GotoIfWritten, Goto, Visible, TypeOK
  <2> QED  BY <1>0, <1>1, <1>2, <1>10, <2>2 DEF WriteCheckRow, GotoIfWritten, Goto, TypeOK
<1>11. CASE EmitCheckEvent(a)
  <2>1. BuildRunningRow(a)' = BuildRunningRow(a) /\ BuildTerminalRow(a)' = BuildTerminalRow(a)
    BY <1>11 DEF EmitCheckEvent, BuildRunningRow, BuildTerminalRow, TerminalStatus, MapStatus
  <2>2. Visible(a)'
    BY <1>0, <1>2, <1>11, <2>1 DEF EmitCheckEvent, Goto, storeVars, Visible, TypeOK
  <2> QED  BY <1>0, <1>1, <1>2, <1>11, <2>2 DEF EmitCheckEvent, Goto, storeVars, TypeOK
<1>12. CASE FinishChecks(a)
  <2>1. BuildRunningRow(a)' = BuildRunningRow(a)
    BY <1>12 DEF FinishChecks, BuildRunningRow
  <2>2. \A x \in AttemptRows(a) : x.status = "running"
    BY <1>12, OpenRows DEF FinishChecks
  <2>3. Visible(a)'
    <3>1. pc'[a] = "terminal" /\ stamp'[a] = clock /\ started' = started
      BY <1>0, <1>12 DEF FinishChecks, Goto, TypeOK
    <3>2. started'[a] <= stamp'[a]
      BY <3>1 DEF StartedInv
    <3>3. AttemptRows(a)' = AttemptRows(a) /\ BuildRunningRow(a) \in AttemptRows(a)
      BY <1>0, <1>2, <1>12 DEF FinishChecks, storeVars, Visible
    <3> QED  BY <1>0, <2>1, <2>2, <3>1, <3>2, <3>3 DEF Visible
  <2> QED  BY <1>0, <1>1, <1>2, <1>12, <2>3 DEF FinishChecks, Goto, storeVars, TypeOK
<1>13. ASSUME NEW o \in Outcomes, WriteTerminalRow(a, o) PROVE VisibleInv'
  <2>1. BuildRunningRow(a)' = BuildRunningRow(a) /\ BuildTerminalRow(a)' = BuildTerminalRow(a)
    BY <1>13 DEF WriteTerminalRow, BuildRunningRow, BuildTerminalRow, TerminalStatus, MapStatus
  <2>2. /\ AttemptRows(a)' \subseteq AttemptRows(a) \cup {BuildTerminalRow(a)}
        /\ \A b \in Attempts \ {a} : AttemptRows(b)' = AttemptRows(b)
    BY <1>0, <1>13, ExecWrite, RowShapes DEF WriteTerminalRow
  <2>3. pc'[a] \in {"emit", "failed"} /\ \A b \in Attempts \ {a} : pc'[b] = pc[b]
    BY <1>0, <1>13 DEF WriteTerminalRow, GotoIfWritten, Goto, TypeOK
  <2>4. started'[a] <= stamp'[a]
    BY <1>0, <1>13 DEF WriteTerminalRow, Visible
  <2>5. Visible(a)'
    BY <1>0, <2>1, <2>2, <2>3, <2>4, RowShapes DEF Visible
  <2> QED  BY <1>0, <1>1, <1>13, <2>2, <2>3, <2>5 DEF WriteTerminalRow
<1>14. CASE EmitExecutionEvent(a)
  BY <1>0, <1>1, <1>2, <1>14, LeftAlone DEF EmitExecutionEvent, Goto, storeVars, TypeOK
<1> QED  BY <1>3, <1>4, <1>5, <1>6, <1>7, <1>8, <1>9, <1>10, <1>11, <1>12, <1>13, <1>14 DEF Step

(* Every step of the engine keeps the shape of the rows. *)
LEMMA NextVisible ==
    ASSUME IndInv, VisibleInv, StartedInv, [Next]_vars
    PROVE  VisibleInv'
<1>0. TypeOK
  BY DEF IndInv
<1>1. ASSUME NEW a \in Attempts, NEW e \in Execs, Start(a, e) PROVE VisibleInv'
  <2>1. \A b \in Attempts : AttemptRows(b)' = AttemptRows(b)
    BY <1>1 DEF Start, storeVars, AttemptRows
  <2>2. Visible(a)'
    BY <1>0, <1>1, <2>1 DEF Start, Goto, VisibleInv, Visible, TypeOK
  <2>3. ASSUME NEW b \in Attempts \ {a} PROVE Visible(b)'
    BY <1>0, <1>1, <2>1, LeftAlone DEF Start, Goto, VisibleInv, TypeOK
  <2> QED  BY <2>2, <2>3 DEF VisibleInv
<1>2. ASSUME NEW a \in Attempts, Step(a) PROVE VisibleInv'
  BY <1>2, StepVisible
<1>3. ASSUME UNCHANGED <<exec, started, stamp, results, execRows>>,
             \A b \in Attempts : pc'[b] = pc[b] \/ pc'[b] \in Returned
      PROVE  VisibleInv'
  BY <1>3, LeftAlone DEF VisibleInv, AttemptRows
<1>4. CASE Exit
  BY <1>3, <1>4 DEF Exit, storeVars, Returned
<1> QED  BY <1>1, <1>2, <1>3, <1>4 DEF Next, Shutdown, Boot, Tick, vars, runnerVars, storeVars

(* The rows have their shape in every reachable state. *)
LEMMA VisibleCorrect == Spec => [](IndInv /\ VisibleInv)
<1>1. Init => VisibleInv /\ StartedInv
  BY DEF Init, VisibleInv, Visible, AttemptRows, StartedInv
<1>2. IndInv /\ VisibleInv /\ StartedInv /\ [Next]_vars => VisibleInv' /\ StartedInv'
  BY NextVisible, NextStarted DEF IndInv
<1> QED  BY <1>1, <1>2, IndInvCorrect, PTL DEF Spec

(* What the canonical projection shows as running has not ended, or has ended at
   the same time, for any attempts, executions and check lists. *)
THEOREM ShownRunningCorrect == Spec => []ShownRunningIsOpen
<1>1. ASSUME IndInv, VisibleInv PROVE ShownRunningIsOpen
  <2> SUFFICES ASSUME NEW r \in execRows, r.status = "running", r \in CanonicalRows(r.exec),
                      NEW s \in execRows, s.attempt = r.attempt, s.status \in Terminal
               PROVE  s \in CanonicalRows(r.exec)
    BY DEF ShownRunningIsOpen
  <2>1. r.attempt \in Attempts /\ r.recordedAt \in Nat /\ s.recordedAt \in Nat
        /\ \A x \in execRows : x.recordedAt \in Nat
    BY <1>1 DEF IndInv, TypeOK, RowType
  <2>2. s.exec = r.exec
    BY <1>1 DEF IndInv, ExecRowsInv
  <2>3. Visible(r.attempt) /\ r \in AttemptRows(r.attempt) /\ s \in AttemptRows(r.attempt)
    BY <1>1, <2>1 DEF VisibleInv, AttemptRows
  <2>4. r = BuildRunningRow(r.attempt) /\ s = BuildTerminalRow(r.attempt)
        /\ started[r.attempt] <= stamp[r.attempt]
    BY <2>3 DEF Visible, Terminal
  <2>5. r.recordedAt = started[r.attempt] /\ s.recordedAt = stamp[r.attempt]
    <3>1. BuildRunningRow(r.attempt).recordedAt = started[r.attempt]
          /\ BuildTerminalRow(r.attempt).recordedAt = stamp[r.attempt]
      BY DEF BuildRunningRow, BuildTerminalRow
    <3> QED  BY <2>4, <3>1
  <2>6. r.recordedAt <= s.recordedAt
    BY <2>4, <2>5
  <2> QED  BY <2>1, <2>2, <2>6 DEF CanonicalRows, RowsOf
<1> QED  BY <1>1, VisibleCorrect, PTL

-----------------------------------------------------------------------------
(* Metrics. *)

(* The rows of status s whose attempt has returned after counting itself. *)
Counted(s) == {r \in execRows : r.status = s /\ pc[r.attempt] = "done"}

CountInv ==
    /\ IsFiniteSet(execRows)
    /\ \A s \in Terminal : runsTotal[s] <= Cardinality(Counted(s))

(* Counted rows stay counted: a returned attempt is neither moved nor killed. *)
LEMMA CountedGrows ==
    ASSUME TypeOK, [Next]_vars, NEW s
    PROVE  Counted(s) \subseteq Counted(s)'
<1>1. execRows \subseteq execRows' /\ \A r \in execRows : r.attempt \in Attempts
  BY RowsGrow DEF TypeOK, RowType
<1>2. ASSUME NEW a \in Attempts, pc[a] = "done" PROVE pc'[a] = "done"
  BY <1>2, EndedStays
<1> QED  BY <1>1, <1>2 DEF Counted

(* One row at most is added. *)
LEMMA FiniteGrows ==
    ASSUME IsFiniteSet(execRows), [Next]_vars
    PROVE  IsFiniteSet(execRows')
<1>1. UNCHANGED execRows \/ \E row : execRows' = execRows \cup {row}
  BY Zenon DEF Next, Start, Step, Shutdown, Exit, Boot, Tick, PrecheckPresent, PrecheckAbsent,
         WritePreCheckErrorRow, WriteRunningRow, CancelMidPass, Evaluate, Panics, WriteCheckRow,
         EmitCheckEvent, FinishChecks, WriteTerminalRow, EmitExecutionEvent, WriteExecutionRow,
         vars, runnerVars, storeVars
<1> QED  BY <1>1, FS_AddElement

(* No step but the one that counts raises a counter. *)
LEMMA CountersMove ==
    ASSUME TypeOK, [Next]_vars
    PROVE  \/ \E a \in Attempts : EmitExecutionEvent(a)
           \/ \A s \in Terminal : runsTotal'[s] <= runsTotal[s]
<1>1. \A s \in Terminal : runsTotal[s] \in Nat
  BY DEF TypeOK
<1>2. \/ \E a \in Attempts : EmitExecutionEvent(a)
      \/ UNCHANGED runsTotal
      \/ runsTotal' = [s \in Terminal |-> 0]
  BY DEF Next, Start, Step, Shutdown, Exit, Boot, Tick, PrecheckPresent, PrecheckAbsent,
         WritePreCheckErrorRow, WriteRunningRow, CancelMidPass, Evaluate, Panics, WriteCheckRow,
         EmitCheckEvent, FinishChecks, WriteTerminalRow, vars, runnerVars
<1> QED  BY <1>1, <1>2

(* dq_runs_total never exceeds the terminal rows of its status, for any number of
   attempts and restarts. *)
THEOREM MetricsBackedCorrect == Spec => []MetricsBacked
<1>1. Init => CountInv
  <2> SUFFICES ASSUME Init PROVE CountInv
    OBVIOUS
  <2>1. execRows = {} /\ \A s \in Terminal : runsTotal[s] = 0 /\ Counted(s) = {}
    BY DEF Init, Counted
  <2> QED  BY <2>1, FS_EmptySet DEF CountInv
<1>2. ASSUME IndInv, CountInv, [Next]_vars PROVE CountInv'
  <2>0. TypeOK /\ IsFiniteSet(execRows) /\ IsFiniteSet(execRows')
    BY <1>2, FiniteGrows DEF IndInv, CountInv
  <2>1. \A s : /\ IsFiniteSet(Counted(s)) /\ IsFiniteSet(Counted(s)')
               /\ Counted(s) \subseteq Counted(s)'
               /\ Cardinality(Counted(s)) \in Nat /\ Cardinality(Counted(s)') \in Nat
               /\ Cardinality(Counted(s)) <= Cardinality(Counted(s)')
    <3> SUFFICES ASSUME NEW s
                 PROVE  /\ IsFiniteSet(Counted(s)) /\ IsFiniteSet(Counted(s)')
                        /\ Counted(s) \subseteq Counted(s)'
                        /\ Cardinality(Counted(s)) \in Nat /\ Cardinality(Counted(s)') \in Nat
                        /\ Cardinality(Counted(s)) <= Cardinality(Counted(s)')
      OBVIOUS
    <3>1. Counted(s) \in SUBSET execRows /\ Counted(s)' \in SUBSET execRows'
      BY DEF Counted
    <3>2. IsFiniteSet(Counted(s)) /\ IsFiniteSet(Counted(s)')
      BY <2>0, <3>1, FS_Subset
    <3>3. Counted(s) \subseteq Counted(s)'
      BY <1>2, <2>0, CountedGrows
    <3> QED  BY <3>2, <3>3, FS_Subset, FS_CardinalityType
  <2>2. \A s \in Terminal : runsTotal[s] \in Nat
    BY <2>0 DEF TypeOK
  <2>3. CASE \A s \in Terminal : runsTotal'[s] <= runsTotal[s]
    <3>1. \A s \in Terminal : runsTotal'[s] \in Nat
      BY <1>2, NextInv DEF IndInv, TypeOK
    <3> QED  BY <1>2, <2>0, <2>1, <2>2, <2>3, <3>1 DEF CountInv
  <2>4. ASSUME NEW a \in Attempts, EmitExecutionEvent(a) PROVE CountInv'
    <3>1. PICK row : row = BuildTerminalRow(a)
      OBVIOUS
    <3>2. row \in execRows /\ row.attempt = a /\ row.status = TerminalStatus(a) /\ execRows' = execRows
      BY <1>2, <2>0, <2>4, <3>1, RowShapes DEF EmitExecutionEvent, IndInv, ProgressInv, storeVars
    <3>3. pc[a] = "emit" /\ pc'[a] = "done"
      BY <2>0, <2>4 DEF EmitExecutionEvent, Goto, TypeOK
    <3>4. TerminalStatus(a) \in Terminal
      BY <2>0, TerminalStatusType DEF Terminal
    <3>5. row \notin Counted(TerminalStatus(a)) /\ row \in {r \in execRows' : r.status = TerminalStatus(a) /\ pc'[r.attempt] = "done"}
      BY <3>2, <3>3 DEF Counted
    <3>6. PICK t : t = TerminalStatus(a)
      OBVIOUS
    <3>7. Counted(t) \cup {row} \subseteq Counted(t)'
      BY <2>1, <3>5, <3>6, Zenon DEF Counted
    <3>8. Cardinality(Counted(t)) + 1 <= Cardinality(Counted(t)')
      <4>1. Cardinality(Counted(t) \cup {row}) = Cardinality(Counted(t)) + 1 /\ IsFiniteSet(Counted(t) \cup {row})
        BY <2>1, <3>5, <3>6, FS_AddElement
      <4>2. Cardinality(Counted(t) \cup {row}) <= Cardinality(Counted(t)')
        BY <2>1, <3>7, FS_Subset
      <4> QED  BY <4>1, <4>2
    <3>9. \A s \in Terminal : runsTotal'[s] = (IF s = t THEN runsTotal[s] + 1 ELSE runsTotal[s])
      BY <2>0, <2>4, <3>4, <3>6 DEF EmitExecutionEvent, TypeOK
    <3> QED  BY <1>2, <2>0, <2>1, <2>2, <3>8, <3>9 DEF CountInv
  <2> QED  BY <1>2, <2>0, <2>3, <2>4, CountersMove
<1>3. ASSUME IndInv, CountInv PROVE MetricsBacked
  <2> SUFFICES ASSUME NEW s \in Terminal
               PROVE  runsTotal[s] <= Cardinality({r \in execRows : r.status = s})
    BY DEF MetricsBacked
  <2> DEFINE rows == {r \in execRows : r.status = s}
  <2>1. IsFiniteSet(rows)
    BY <1>3, FS_Subset DEF CountInv
  <2>2. Counted(s) \in SUBSET rows
    BY DEF Counted
  <2>3. /\ Cardinality(Counted(s)) <= Cardinality(rows) /\ Cardinality(Counted(s)) \in Nat
        /\ Cardinality(rows) \in Nat
    BY <2>1, <2>2, FS_Subset, FS_CardinalityType
  <2>4. runsTotal[s] \in Nat /\ runsTotal[s] <= Cardinality(Counted(s))
    BY <1>3 DEF IndInv, TypeOK, CountInv
  <2> QED  BY <2>3, <2>4
<1> QED  BY <1>1, <1>2, <1>3, IndInvCorrect, PTL DEF Spec

-----------------------------------------------------------------------------
(* The refinement. *)

CheckRowsOf(a) == {c \in checkRows : c.attempt = a}

(* The reader's view of an attempt is a function of its rows. *)
LEMMA SameView ==
    ASSUME NEW b, AttemptRows(b)' = AttemptRows(b)
    PROVE  ExecOf(b)' = ExecOf(b) /\ StageOf(b)' = StageOf(b) /\ VerdictOf(b)' = VerdictOf(b)
<1>1. ClosedBy(b)' = ClosedBy(b)
  BY DEF ClosedBy
<1> QED  BY <1>1 DEF ExecOf, StageOf, VerdictOf

(* Once visible, an attempt shows its execution and, once closed, its verdict. *)
Shown ==
    \A a \in Attempts :
        /\ AttemptRows(a) # {} => ExecOf(a) = exec[a]
        /\ ClosedBy(a) # {} => VerdictOf(a) = TerminalStatus(a)

(* The rows of an attempt agree, so any of them shows its execution. *)
LEMMA ViewOf ==
    ASSUME IndInv
    PROVE  Shown
<1> SUFFICES ASSUME NEW a \in Attempts
             PROVE  /\ AttemptRows(a) # {} => ExecOf(a) = exec[a]
                    /\ ClosedBy(a) # {} => VerdictOf(a) = TerminalStatus(a)
  BY DEF Shown
<1>1. \A r \in AttemptRows(a) : r.exec = exec[a]
  BY DEF IndInv, ExecRowsInv, AttemptRows
<1>2. \A r \in ClosedBy(a) : r.status = TerminalStatus(a)
  BY DEF IndInv, ExecRowsInv, AttemptRows, ClosedBy
<1> QED  BY <1>1, <1>2 DEF ExecOf, VerdictOf

(* Steps that append no row leave every attempt as the reader saw it. *)
LEMMA StutterStep ==
    ASSUME UNCHANGED <<execRows, checkRows>>
    PROVE  UNCHANGED Contract!contract
<1>1. \A b \in Attempts : AttemptRows(b)' = AttemptRows(b) /\ FindingsOf(b)' = FindingsOf(b)
  BY DEF AttemptRows, FindingsOf
<1>2. \A b \in Attempts : ExecOf(b)' = ExecOf(b) /\ StageOf(b)' = StageOf(b) /\ VerdictOf(b)' = VerdictOf(b)
  BY <1>1, SameView
<1> QED  BY <1>1, <1>2 DEF Contract!contract

(* WriteRunningRow opens the attempt. *)
LEMMA OpenStep ==
    ASSUME IndInv, VisibleInv, NEW a \in Attempts, NEW o \in Outcomes, WriteRunningRow(a, o), IndInv'
    PROVE  \/ UNCHANGED Contract!contract
           \/ \E e \in Execs : Contract!Open(a, e)
<1>1. CASE o = "lost"
  BY <1>1, StutterStep DEF WriteRunningRow, WriteExecutionRow
<1>2. CASE o # "lost"
  <2>1. /\ AttemptRows(a) = {}
        /\ AttemptRows(a)' = {BuildRunningRow(a)}
        /\ \A b \in Attempts \ {a} : AttemptRows(b)' = AttemptRows(b)
    <3>1. pc[a] = "running" /\ WriteExecutionRow(BuildRunningRow(a), o)
      BY Zenon DEF WriteRunningRow
    <3>2. Visible(a) /\ BuildRunningRow(a).attempt = a
      BY RowShapes, Zenon DEF VisibleInv, IndInv
    <3>3. AttemptRows(a) = {}
      BY <3>1, <3>2, Zenon DEF Visible
    <3>4. /\ AttemptRows(a)' = AttemptRows(a) \cup {BuildRunningRow(a)}
          /\ \A b \in Attempts \ {a} : AttemptRows(b)' = AttemptRows(b)
      BY <1>2, <3>1, <3>2, ExecWrite, Zenon
    <3> QED  BY <3>3, <3>4, Zenon
  <2>2. exec[a] \in Execs /\ exec' = exec
    BY DEF WriteRunningRow, IndInv, TypeOK
  <2>3. ClosedBy(a) = {} /\ ClosedBy(a)' = {}
    BY <2>1, RowShapes DEF ClosedBy, IndInv
  <2>4. /\ StageOf(a) = "absent" /\ StageOf(a)' = "open" /\ ExecOf(a)' = exec[a]
        /\ VerdictOf(a)' = VerdictOf(a)
    <3>0. Shown'
      BY ViewOf, PTL
    <3>1. ExecOf(a)' = exec'[a]
      BY <2>1, <3>0 DEF Shown
    <3> QED  BY <2>1, <2>2, <2>3, <3>1 DEF StageOf, VerdictOf
  <2>5. \A b \in Attempts \ {a} : ExecOf(b)' = ExecOf(b) /\ StageOf(b)' = StageOf(b) /\ VerdictOf(b)' = VerdictOf(b)
    BY <2>1, SameView
  <2>6. \A b \in Attempts : FindingsOf(b)' = FindingsOf(b)
    BY DEF WriteRunningRow, FindingsOf
  <2> QED  BY <2>2, <2>4, <2>5, <2>6, Zenon DEF Contract!Open
<1> QED  BY <1>1, <1>2

(* WritePreCheckErrorRow refuses it. *)
LEMMA RefuseStep ==
    ASSUME IndInv, VisibleInv, NEW a \in Attempts, NEW o \in Outcomes, WritePreCheckErrorRow(a, o), IndInv'
    PROVE  \/ UNCHANGED Contract!contract
           \/ \E e \in Execs : Contract!Refuse(a, e)
<1>1. CASE o = "lost"
  BY <1>1, StutterStep DEF WritePreCheckErrorRow, WriteExecutionRow
<1>2. CASE o # "lost"
  <2>1. /\ AttemptRows(a) = {}
        /\ AttemptRows(a)' = {BuildTerminalRow(a)}
        /\ \A b \in Attempts \ {a} : AttemptRows(b)' = AttemptRows(b)
    <3>1. pc[a] = "preerror" /\ WriteExecutionRow(BuildTerminalRow(a), o)
      BY Zenon DEF WritePreCheckErrorRow
    <3>2. Visible(a) /\ BuildTerminalRow(a).attempt = a
      BY RowShapes, Zenon DEF VisibleInv, IndInv
    <3>3. AttemptRows(a) = {}
      BY <3>1, <3>2, Zenon DEF Visible
    <3>4. /\ AttemptRows(a)' = AttemptRows(a) \cup {BuildTerminalRow(a)}
          /\ \A b \in Attempts \ {a} : AttemptRows(b)' = AttemptRows(b)
      BY <1>2, <3>1, <3>2, ExecWrite, Zenon
    <3> QED  BY <3>3, <3>4, Zenon
  <2>2. exec[a] \in Execs /\ exec' = exec /\ results' = results /\ results[a] = <<>>
    BY DEF WritePreCheckErrorRow, IndInv, TypeOK, ProgressInv
  <2>3. ClosedBy(a)' = {BuildTerminalRow(a)}
    BY <2>1, RowShapes DEF ClosedBy, IndInv
  <2>4. StageOf(a) = "absent" /\ StageOf(a)' = "closed" /\ ExecOf(a)' = exec[a] /\ VerdictOf(a)' = "error"
    <3>0. Shown'
      BY ViewOf, PTL
    <3>1. ExecOf(a)' = exec'[a] /\ VerdictOf(a)' = TerminalStatus(a)'
      BY <2>1, <2>3, <3>0 DEF Shown
    <3>2. TerminalStatus(a)' = "error"
      BY <2>2 DEF TerminalStatus
    <3> QED  BY <2>1, <2>2, <2>3, <3>1, <3>2 DEF StageOf
  <2>5. \A b \in Attempts \ {a} : ExecOf(b)' = ExecOf(b) /\ StageOf(b)' = StageOf(b) /\ VerdictOf(b)' = VerdictOf(b)
    BY <2>1, SameView
  <2>6. \A b \in Attempts : FindingsOf(b)' = FindingsOf(b)
    BY DEF WritePreCheckErrorRow, FindingsOf
  <2>7. FindingsOf(a) = {}
    <3>1. \A c \in checkRows : c.attempt # a
      BY <2>2 DEF IndInv, CheckRowsInv
    <3> QED  BY <3>1 DEF FindingsOf
  <2> QED  BY <2>2, <2>4, <2>5, <2>6, <2>7, Zenon DEF Contract!Refuse
<1> QED  BY <1>1, <1>2

(* WriteCheckRow adds a finding on a check of the attempt's list. *)
LEMMA FindStep ==
    ASSUME IndInv, VisibleInv, NEW a \in Attempts, NEW o \in Outcomes, WriteCheckRow(a, o), IndInv'
    PROVE  \/ UNCHANGED Contract!contract
           \/ \E f \in Contract!Findings : Contract!Find(a, f)
<1>1. CASE o = "lost"
  BY <1>1, StutterStep DEF WriteCheckRow, WriteCheckResultRow
<1>2. CASE o # "lost"
  <2> DEFINE row == BuildCheckRow(a)
             f   == [check |-> row.check, result |-> row.result]
  <2>1. row \in CheckRowType /\ row.attempt = a /\ checkRows' = checkRows \cup {row}
    BY <1>2, CheckRowTyped, Zenon DEF WriteCheckRow, WriteCheckResultRow, IndInv, ProgressInv, BuildCheckRow
  <2>2. f \in Contract!Findings
    BY <2>1 DEF CheckRowType, Contract!Findings
  <2>3. FindingsOf(a)' = FindingsOf(a) \cup {f} /\ \A b \in Attempts \ {a} : FindingsOf(b)' = FindingsOf(b)
    BY <2>1, Zenon DEF FindingsOf
  <2>4. \A b \in Attempts : ExecOf(b)' = ExecOf(b) /\ StageOf(b)' = StageOf(b) /\ VerdictOf(b)' = VerdictOf(b)
    BY SameView, Zenon DEF WriteCheckRow, AttemptRows
  <2>5. StageOf(a) = "open" /\ ExecOf(a) = exec[a]
    <3>1. AttemptRows(a) # {}
      BY DEF WriteCheckRow, VisibleInv, Visible
    <3>2. ClosedBy(a) = {}
      BY OpenRows DEF WriteCheckRow, ClosedBy
    <3> QED  BY <3>1, <3>2, ViewOf DEF StageOf, Shown
  <2>6. f.check \in CheckList[exec[a]]
    <3>1. exec[a] \in Execs /\ Checks[exec[a]] \in Seq(CheckIds) /\ results[a] \in Seq(CheckResults)
          /\ Len(results[a]) <= Len(Checks[exec[a]]) /\ Len(results[a]) > 0
      BY ChecksAssumption, Zenon DEF WriteCheckRow, IndInv, TypeOK, ProgressInv
    <3>2. Len(results[a]) \in DOMAIN Checks[exec[a]]
      BY <3>1
    <3> QED  BY <3>1, <3>2, Zenon DEF CheckList, Range, BuildCheckRow, LastCheck
  <2> HIDE DEF f, row
  <2> QED  BY <2>2, <2>3, <2>4, <2>5, <2>6, Zenon DEF Contract!Find
<1> QED  BY <1>1, <1>2

(* WriteTerminalRow closes it, on a verdict its findings account for. *)
LEMMA CloseStep ==
    ASSUME IndInv, VisibleInv, NEW a \in Attempts, NEW o \in Outcomes, WriteTerminalRow(a, o), IndInv'
    PROVE  \/ UNCHANGED Contract!contract
           \/ \E v \in Contract!Verdicts : Contract!Close(a, v)
<1>1. CASE o = "lost"
  BY <1>1, StutterStep DEF WriteTerminalRow, WriteExecutionRow
<1>2. CASE o # "lost"
  <2>0. PICK row, v : row = BuildTerminalRow(a) /\ v = TerminalStatus(a)
    OBVIOUS
  <2>1. /\ AttemptRows(a) # {} /\ ClosedBy(a) = {}
        /\ AttemptRows(a)' = AttemptRows(a) \cup {row}
        /\ \A b \in Attempts \ {a} : AttemptRows(b)' = AttemptRows(b)
    <3>1. pc[a] = "terminal" /\ WriteExecutionRow(row, o)
      BY <2>0, Zenon DEF WriteTerminalRow
    <3>2. Visible(a) /\ row.attempt = a
      BY <2>0, RowShapes, Zenon DEF VisibleInv, IndInv
    <3>3. AttemptRows(a) # {}
      BY <3>1, <3>2, Zenon DEF Visible
    <3>4. ClosedBy(a) = {}
      BY <3>1, OpenRows DEF ClosedBy
    <3> QED  BY <1>2, <3>1, <3>2, <3>3, <3>4, ExecWrite, Zenon
  <2>2. exec[a] \in Execs /\ exec' = exec /\ results' = results /\ checkRows' = checkRows
    BY DEF WriteTerminalRow, IndInv, TypeOK
  <2>3. v \in Contract!Verdicts /\ row.status = v /\ row.exec = exec[a] /\ row.attempt = a
    BY <2>0, TerminalStatusType, RowShapes, Zenon DEF IndInv, Contract!Verdicts, BuildTerminalRow
  <2>4. ClosedBy(a)' # {}
    BY <2>0, <2>1, <2>3, RowShapes, Zenon DEF ClosedBy, IndInv
  <2>5. /\ StageOf(a) = "open" /\ StageOf(a)' = "closed"
        /\ ExecOf(a) = exec[a] /\ ExecOf(a)' = exec[a] /\ VerdictOf(a)' = v
    <3>0. Shown /\ Shown'
      BY ViewOf, PTL
    <3>1. ExecOf(a) = exec[a] /\ ExecOf(a)' = exec'[a] /\ VerdictOf(a)' = TerminalStatus(a)'
      BY <2>1, <2>4, <3>0, Zenon DEF Shown
    <3>2. TerminalStatus(a)' = TerminalStatus(a)
      BY <2>2 DEF TerminalStatus, MapStatus
    <3> QED  BY <2>0, <2>1, <2>2, <2>4, <3>1, <3>2 DEF StageOf
  <2>6. \A b \in Attempts \ {a} : ExecOf(b)' = ExecOf(b) /\ StageOf(b)' = StageOf(b) /\ VerdictOf(b)' = VerdictOf(b)
    BY <2>1, SameView
  <2>7. \A b \in Attempts : FindingsOf(b)' = FindingsOf(b)
    BY <2>2, Zenon DEF FindingsOf
  <2>8. Contract!Accounts(exec[a], FindingsOf(a), v)
    <3>1. TerminalExplained'
      BY ExplainedByRows, PTL
    <3>2. row \in execRows'
      BY <1>2, <2>0 DEF WriteTerminalRow, WriteExecutionRow
    <3>3. JoinedCheckRows(row)' = CheckRowsOf(a)
      <4>1. \A c \in checkRows : c.attempt = a => c.exec = exec[a]
        BY Zenon DEF IndInv, CheckRowsInv
      <4> QED  BY <2>2, <2>3, <4>1 DEF JoinedCheckRows, CheckRowsOf
    <3>4. /\ \A f \in FindingsOf(a) : \E c \in CheckRowsOf(a) : f.check = c.check /\ f.result = c.result
          /\ \A c \in CheckRowsOf(a) : \E f \in FindingsOf(a) : f.check = c.check /\ f.result = c.result
      <4>1. FindingsOf(a) = {[check |-> c.check, result |-> c.result] : c \in CheckRowsOf(a)}
        BY DEF FindingsOf, CheckRowsOf
      <4>2. ASSUME NEW c \in CheckRowsOf(a)
            PROVE  \E f \in FindingsOf(a) : f.check = c.check /\ f.result = c.result
        <5>1. PICK g : g = [check |-> c.check, result |-> c.result]
          BY Zenon
        <5>2. g \in FindingsOf(a)
          BY <4>1, <5>1, Zenon
        <5>3. g.check = c.check /\ g.result = c.result
          BY <5>1, Zenon
        <5> QED  BY <5>2, <5>3, Zenon
      <4> QED  BY <4>1, <4>2
    <3>5. {f.check : f \in FindingsOf(a)} = {c.check : c \in CheckRowsOf(a)}
      BY <3>4
    <3>6. \A x : (\A f \in FindingsOf(a) : f.result = x) <=> (\A c \in CheckRowsOf(a) : c.result = x)
      BY <3>4
    <3>7. FindingsOf(a) = {} <=> CheckRowsOf(a) = {}
      BY <3>4
    <3>8. v # "running"
      BY <2>0, RowShapes DEF IndInv
    <3>9. \/ CheckRowsOf(a) = {} /\ v = "error"
          \/ /\ CheckRowsOf(a) # {}
             /\ {c.check : c \in CheckRowsOf(a)} = Range(Checks[exec[a]])
             /\ v = "success" <=> \A c \in CheckRowsOf(a) : c.result = "pass"
             /\ v = "error" <=> \A c \in CheckRowsOf(a) : c.result = "error"
      BY <2>3, <3>1, <3>2, <3>3, <3>8, Zenon DEF TerminalExplained
    <3> QED  BY <2>2, <2>3, <3>5, <3>6, <3>7, <3>9, Zenon DEF Contract!Accounts, CheckList
  <2>9. [b \in Attempts |-> StageOf(b)]' = [[b \in Attempts |-> StageOf(b)] EXCEPT ![a] = "closed"]
    BY <2>5, <2>6, Zenon
  <2>10. [b \in Attempts |-> VerdictOf(b)]' = [[b \in Attempts |-> VerdictOf(b)] EXCEPT ![a] = v]
    BY <2>5, <2>6, Zenon
  <2>11. UNCHANGED <<[b \in Attempts |-> ExecOf(b)], [b \in Attempts |-> FindingsOf(b)]>>
    BY <2>5, <2>6, <2>7
  <2>12. [b \in Attempts |-> ExecOf(b)][a] = exec[a] /\ [b \in Attempts |-> FindingsOf(b)][a] = FindingsOf(a)
         /\ [b \in Attempts |-> StageOf(b)][a] = "open"
    BY <2>5
  <2>13. Contract!Close(a, v)
    BY <2>8, <2>9, <2>10, <2>11, <2>12, Zenon DEF Contract!Close
  <2> QED  BY <2>3, <2>13, Zenon
<1> QED  BY <1>1, <1>2

(* Every step of the engine is a step of the contract, or none. *)
LEMMA NextContract ==
    ASSUME IndInv, VisibleInv, [Next]_vars, IndInv'
    PROVE  [Contract!Next]_(Contract!contract)
<1>1. ASSUME NEW a \in Attempts, Step(a)
      PROVE  Contract!Next \/ UNCHANGED Contract!contract
  <2>1. CASE \E o \in Outcomes : WritePreCheckErrorRow(a, o)
    BY <2>1, RefuseStep DEF Contract!Next
  <2>2. CASE \E o \in Outcomes : WriteRunningRow(a, o)
    BY <2>2, OpenStep DEF Contract!Next
  <2>3. CASE \E o \in Outcomes : WriteCheckRow(a, o)
    BY <2>3, FindStep DEF Contract!Next
  <2>4. CASE \E o \in Outcomes : WriteTerminalRow(a, o)
    BY <2>4, CloseStep DEF Contract!Next
  <2>5. CASE UNCHANGED <<execRows, checkRows>>
    BY <2>5, StutterStep
  <2> QED  BY <1>1, <2>1, <2>2, <2>3, <2>4, <2>5, Zenon DEF Step, PrecheckPresent, PrecheckAbsent, CancelMidPass,
              Evaluate, Panics, EmitCheckEvent, FinishChecks, EmitExecutionEvent, storeVars
<1>2. CASE UNCHANGED <<execRows, checkRows>>
  BY <1>2, StutterStep
<1> QED  BY <1>1, <1>2, Zenon DEF Next, Start, Shutdown, Exit, Boot, Tick, vars, runnerVars, storeVars

(* Runner.Run implements the contract of the result tables, for any attempts,
   executions and check lists, whatever is lost, killed or runs beside it. *)
THEOREM KeepsContractCorrect == Spec => KeepsContract
<1>1. Init => Contract!Init
  BY DEF Init, Contract!Init, ExecOf, StageOf, FindingsOf, VerdictOf, AttemptRows, ClosedBy
<1>2. IndInv /\ VisibleInv /\ [Next]_vars /\ IndInv' => [Contract!Next]_(Contract!contract)
  BY NextContract
<1> QED  BY <1>1, <1>2, VisibleCorrect, PTL DEF Spec, KeepsContract, Contract!Spec

-----------------------------------------------------------------------------
(* The history query of ComputeBaseline. *)

(* A check row is never without the running row of its attempt. *)
SampleInv ==
    \A c \in checkRows : \E r \in execRows : r.attempt = c.attempt /\ r.status = "running"

(* A step adds one check row at most, of an attempt whose running row is in. *)
LEMMA CheckRowsGrow ==
    ASSUME IndInv, VisibleInv, [Next]_vars
    PROVE  \/ UNCHANGED checkRows
           \/ \E row : /\ checkRows' \subseteq checkRows \cup {row}
                       /\ \E r \in execRows : r.attempt = row.attempt /\ r.status = "running"
<1>1. ASSUME NEW a \in Attempts, NEW o \in Outcomes, WriteCheckRow(a, o)
      PROVE  \E row : /\ checkRows' \subseteq checkRows \cup {row}
                      /\ \E r \in execRows : r.attempt = row.attempt /\ r.status = "running"
  <2>1. BuildRunningRow(a) \in AttemptRows(a)
    BY <1>1, Zenon DEF WriteCheckRow, VisibleInv, Visible
  <2>2. BuildRunningRow(a) \in execRows /\ BuildRunningRow(a).attempt = BuildCheckRow(a).attempt
        /\ BuildRunningRow(a).status = "running"
    BY <2>1, Zenon DEF AttemptRows, BuildRunningRow, BuildCheckRow
  <2>3. checkRows' \subseteq checkRows \cup {BuildCheckRow(a)}
    BY <1>1 DEF WriteCheckRow, WriteCheckResultRow
  <2> QED  BY <2>2, <2>3, Zenon
<1>2. UNCHANGED checkRows \/ \E a \in Attempts, o \in Outcomes : WriteCheckRow(a, o)
  BY Zenon DEF Next, Start, Step, Shutdown, Exit, Boot, Tick, PrecheckPresent, PrecheckAbsent,
         WritePreCheckErrorRow, WriteRunningRow, CancelMidPass, Evaluate, Panics,
         EmitCheckEvent, FinishChecks, WriteTerminalRow, EmitExecutionEvent,
         vars, runnerVars, storeVars
<1> QED  BY <1>1, <1>2

(* The inner join with dq_executions (baselines.go:303-331) finds the running row
   of every sample's own attempt and at most the terminal row beside it, for any
   attempts, executions and check lists and however often an insert is repeated. *)
THEOREM SamplesJoinedCorrect == Spec => []SamplesJoined
<1>1. Init => SampleInv
  BY DEF Init, SampleInv
<1>2. ASSUME IndInv, VisibleInv, SampleInv, [Next]_vars PROVE SampleInv'
  <2>1. execRows \subseteq execRows'
    BY <1>2, RowsGrow
  <2>2. CASE UNCHANGED checkRows
    BY <1>2, <2>1, <2>2 DEF SampleInv
  <2>3. ASSUME NEW row, checkRows' \subseteq checkRows \cup {row},
               \E r \in execRows : r.attempt = row.attempt /\ r.status = "running"
        PROVE  SampleInv'
    BY <1>2, <2>1, <2>3 DEF SampleInv
  <2> QED  BY <1>2, <2>2, <2>3, CheckRowsGrow, Zenon
<1>3. ASSUME IndInv, VisibleInv, SampleInv PROVE SamplesJoined
  <2> SUFFICES ASSUME NEW c \in checkRows
               PROVE  /\ \E r \in JoinExecutions(c) : r.status = "running"
                      /\ \A r, s \in JoinExecutions(c) :
                            (r.status = "running" <=> s.status = "running") => r = s
    BY DEF SamplesJoined
  <2>1. c.attempt \in Attempts /\ c.exec = exec[c.attempt] /\ Visible(c.attempt)
    BY <1>3 DEF IndInv, TypeOK, CheckRowType, CheckRowsInv, VisibleInv
  <2>2. \E r \in JoinExecutions(c) : r.status = "running"
    <3>1. PICK r \in execRows : r.attempt = c.attempt /\ r.status = "running"
      BY <1>3 DEF SampleInv
    <3>2. r.exec = c.exec
      BY <1>3, <2>1, <3>1, Zenon DEF IndInv, ExecRowsInv
    <3> QED  BY <3>1, <3>2, Zenon DEF JoinExecutions
  <2>3. JoinExecutions(c) \subseteq AttemptRows(c.attempt)
    BY DEF JoinExecutions, AttemptRows
  <2> QED  BY <2>1, <2>2, <2>3, Zenon DEF Visible
<1> QED  BY <1>1, <1>2, <1>3, VisibleCorrect, PTL DEF Spec
=============================================================================
