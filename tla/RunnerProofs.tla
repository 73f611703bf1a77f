---------------------------- MODULE RunnerProofs ----------------------------
(***************************************************************************)
(* Proofs about Runner, for any number of attempts, executions and checks. *)
(*                                                                         *)
(* The argument: results[a] is the attempt's memory of what it evaluated,  *)
(* and an attempt never goes past a check whose row it did not see         *)
(* written.  So in every state the rows of an attempt are a prefix of its  *)
(* memory, the whole of it when a terminal row exists, and the memory no   *)
(* longer changes then.                                                    *)
(***************************************************************************)
EXTENDS Runner, TLAPS

(* The solver needs a fraction of this; the limit allows for a loaded machine. *)
USE SMTT(60)

(* The i-th result of attempt a has its row. *)
Durable(a, i) ==
    \E c \in checkRows :
        /\ c.exec = exec[a] /\ c.attempt = a
        /\ c.check = Checks[exec[a]][i] /\ c.result = results[a][i]

AllDurable(a) == \A i \in 1..Len(results[a]) : Durable(a, i)

(* An execution row belongs to a started attempt; a terminal one to an attempt
   past its terminal write, with the status of its durable results. *)
ExecRowsInv ==
    \A r \in execRows :
        /\ pc[r.attempt] # "idle"
        /\ r.exec = exec[r.attempt]
        /\ r.status # "running" =>
             /\ pc[r.attempt] \in {"emit", "done", "failed", "panicked", "dead"}
             /\ r.status = TerminalStatus(r.attempt)
             /\ \/ results[r.attempt] = <<>>
                \/ /\ Len(results[r.attempt]) = Len(Checks[exec[r.attempt]])
                   /\ AllDurable(r.attempt)

(* A check row is one of its attempt's results. *)
CheckRowsInv ==
    \A c \in checkRows :
        /\ c.exec = exec[c.attempt]
        /\ pc[c.attempt] # "idle"
        /\ \E i \in 1..Len(results[c.attempt]) :
              /\ c.check = Checks[exec[c.attempt]][i]
              /\ c.result = results[c.attempt][i]

(* How far the rows of an attempt lag behind its memory. *)
ProgressInv ==
    \A a \in Attempts :
        /\ pc[a] \in {"idle", "precheck", "preerror", "running"} => results[a] = <<>>
        /\ pc[a] \in {"checks", "checkemit", "terminal"} => AllDurable(a)
        /\ pc[a] = "checkrow" => \A i \in 1..(Len(results[a]) - 1) : Durable(a, i)
        /\ pc[a] \in {"checkrow", "checkemit"} => Len(results[a]) > 0
        /\ pc[a] = "checkemit" => BuildCheckRow(a) \in checkRows
        /\ pc[a] = "terminal" => Len(results[a]) = Len(Checks[exec[a]])
        /\ pc[a] = "emit" => BuildTerminalRow(a) \in execRows

IndInv == TypeOK /\ ExecRowsInv /\ CheckRowsInv /\ ProgressInv

-----------------------------------------------------------------------------
(* The rows the attempt builds have the columns' types. *)

(* The status of a terminal row is one of the terminal statuses. *)
LEMMA TerminalStatusType ==
    ASSUME TypeOK, NEW a \in Attempts
    PROVE  TerminalStatus(a) \in {"success", "failed", "error"}
BY DEF TerminalStatus, MapStatus

(* buildTerminalRow makes a well-typed execution row. *)
LEMMA TerminalRowType ==
    ASSUME TypeOK, NEW a \in Attempts, pc[a] # "idle"
    PROVE  BuildTerminalRow(a) \in RowType
BY TerminalStatusType DEF TypeOK, BuildTerminalRow, RowType, Statuses, Terminal

(* buildRunningRow makes a well-typed execution row, without started_at. *)
LEMMA RunningRowType ==
    ASSUME TypeOK, NEW a \in Attempts, pc[a] # "idle"
    PROVE  BuildRunningRow(a) \in RowType
BY DEF TypeOK, BuildRunningRow, RowType, Statuses

(* The row of the check just evaluated is well typed. *)
LEMMA CheckRowTyped ==
    ASSUME TypeOK, NEW a \in Attempts, pc[a] # "idle", Len(results[a]) > 0
    PROVE  BuildCheckRow(a) \in CheckRowType
<1>1. exec[a] \in Execs /\ Checks[exec[a]] \in Seq(CheckIds) /\ results[a] \in Seq(CheckResults)
  BY ChecksAssumption DEF TypeOK
<1>2. Len(results[a]) \in 1..Len(Checks[exec[a]]) /\ Len(results[a]) \in 1..Len(results[a])
  BY <1>1 DEF TypeOK
<1>3. LastCheck(a) \in CheckIds /\ LastResult(a) \in CheckResults
  BY <1>1, <1>2 DEF LastCheck, LastResult
<1> QED  BY <1>1, <1>3 DEF TypeOK, BuildCheckRow, CheckRowType

(* The parts of TypeOK that a step other than Evaluate leaves alone. *)
LEMMA GotoType ==
    ASSUME TypeOK, NEW a \in Attempts, pc[a] # "idle",
           NEW w \in InFlight \cup Returned, Goto(a, w),
           UNCHANGED <<engine, exec, started, results, clock>>,
           stamp' \in [Attempts -> Nat], runsTotal' \in [Terminal -> Nat],
           execRows' \subseteq RowType, checkRows' \subseteq CheckRowType
    PROVE  TypeOK'
<1>1. pc' \in [Attempts -> {"idle"} \cup InFlight \cup Returned]
  BY DEF TypeOK, Goto
<1>2. \A b \in Attempts : pc'[b] # "idle" => pc[b] # "idle"
  BY DEF TypeOK, Goto
<1> QED  BY <1>1, <1>2 DEF TypeOK

(* The empty tables and idle attempts are well typed. *)
LEMMA InitType == Init => TypeOK
BY DEF Init, TypeOK, Terminal, InFlight, Returned

(* A step of one attempt keeps the types. *)
LEMMA StepType ==
    ASSUME TypeOK, ProgressInv, NEW a \in Attempts, Step(a)
    PROVE  TypeOK'
<1> USE DEF InFlight, Returned
<1>0. stamp \in [Attempts -> Nat] /\ runsTotal \in [Terminal -> Nat] /\ clock \in Nat
      /\ execRows \subseteq RowType /\ checkRows \subseteq CheckRowType
  BY DEF TypeOK
<1>1. CASE PrecheckPresent(a)
  BY <1>0, <1>1, GotoType DEF PrecheckPresent, storeVars
<1>2. CASE PrecheckAbsent(a)
  BY <1>0, <1>2, GotoType DEF PrecheckAbsent, storeVars
<1>3. ASSUME NEW o \in Outcomes, WritePreCheckErrorRow(a, o)
      PROVE  TypeOK'
  <2>1. execRows' \subseteq RowType
    BY <1>0, <1>3, TerminalRowType DEF WritePreCheckErrorRow, WriteExecutionRow
  <2> QED  BY <1>0, <1>3, <2>1, GotoType DEF WritePreCheckErrorRow, GotoIfWritten
<1>4. ASSUME NEW o \in Outcomes, WriteRunningRow(a, o)
      PROVE  TypeOK'
  <2>1. execRows' \subseteq RowType
    BY <1>0, <1>4, RunningRowType DEF WriteRunningRow, WriteExecutionRow
  <2> QED  BY <1>0, <1>4, <2>1, GotoType DEF WriteRunningRow, GotoIfWritten
<1>5. CASE CancelMidPass(a)
  BY <1>0, <1>5, GotoType DEF CancelMidPass, storeVars
<1>6. ASSUME NEW r \in CheckResults, Evaluate(a, r)
      PROVE  TypeOK'
  <2>1. exec[a] \in Execs /\ Checks[exec[a]] \in Seq(CheckIds) /\ results[a] \in Seq(CheckResults)
    BY <1>6, ChecksAssumption DEF TypeOK, Evaluate
  <2>2. results' \in [Attempts -> Seq(CheckResults)] /\ results'[a] = Append(results[a], r)
        /\ \A b \in Attempts \ {a} : results'[b] = results[b]
    BY <1>6, <2>1 DEF TypeOK, Evaluate
  <2>3. Len(results'[a]) <= Len(Checks[exec[a]])
    BY <1>6, <2>1, <2>2 DEF Evaluate, MoreChecks
  <2>4. pc' \in [Attempts -> {"idle"} \cup InFlight \cup Returned]
        /\ \A b \in Attempts : pc'[b] # "idle" => pc[b] # "idle"
    BY <1>6 DEF TypeOK, Evaluate, Goto
  <2> QED  BY <1>0, <1>6, <2>1, <2>2, <2>3, <2>4 DEF TypeOK, Evaluate, storeVars
<1>7. CASE Panics(a)
  BY <1>0, <1>7, GotoType DEF Panics, storeVars
<1>8. ASSUME NEW o \in Outcomes, WriteCheckRow(a, o)
      PROVE  TypeOK'
  <2>1. checkRows' \subseteq CheckRowType
    BY <1>0, <1>8, CheckRowTyped DEF WriteCheckRow, WriteCheckResultRow, ProgressInv
  <2> QED  BY <1>0, <1>8, <2>1, GotoType DEF WriteCheckRow, GotoIfWritten
<1>9. CASE EmitCheckEvent(a)
  BY <1>0, <1>9, GotoType DEF EmitCheckEvent, storeVars
<1>10. CASE FinishChecks(a)
  BY <1>0, <1>10, GotoType DEF FinishChecks, storeVars
<1>11. ASSUME NEW o \in Outcomes, WriteTerminalRow(a, o)
       PROVE  TypeOK'
  <2>1. execRows' \subseteq RowType
    BY <1>0, <1>11, TerminalRowType DEF WriteTerminalRow, WriteExecutionRow
  <2> QED  BY <1>0, <1>11, <2>1, GotoType DEF WriteTerminalRow, GotoIfWritten
<1>12. CASE EmitExecutionEvent(a)
  <2>1. runsTotal' \in [Terminal -> Nat]
    BY <1>0, <1>12, TerminalStatusType DEF EmitExecutionEvent, Terminal
  <2> QED  BY <1>0, <1>12, <2>1, GotoType DEF EmitExecutionEvent, storeVars
<1> QED  BY <1>1, <1>2, <1>3, <1>4, <1>5, <1>6, <1>7, <1>8, <1>9, <1>10, <1>11, <1>12 DEF Step

(* Every step of the engine keeps the types. *)
LEMMA NextType ==
    ASSUME TypeOK, ProgressInv, [Next]_vars
    PROVE  TypeOK'
<1>1. ASSUME NEW a \in Attempts, NEW e \in Execs, Start(a, e)
      PROVE  TypeOK'
  <2>1. results[a] = <<>> /\ Checks[e] \in Seq(CheckIds)
    BY <1>1, ChecksAssumption DEF Start, ProgressInv
  <2>2. Len(results[a]) <= Len(Checks[e])
    BY <2>1
  <2> QED  BY <1>1, <2>2 DEF TypeOK, Start, Goto, storeVars, InFlight, Returned
<1>2. ASSUME NEW a \in Attempts, Step(a)
      PROVE  TypeOK'
  BY <1>2, StepType
<1>3. CASE Shutdown
  BY <1>3 DEF TypeOK, Shutdown, storeVars
<1>4. CASE Exit
  BY <1>4 DEF TypeOK, Exit, storeVars, InFlight, Returned, Terminal
<1>5. CASE Boot
  BY <1>5 DEF TypeOK, Boot, storeVars
<1>6. CASE Tick
  BY <1>6 DEF TypeOK, Tick, runnerVars
<1>7. CASE UNCHANGED vars
  BY <1>7 DEF TypeOK, vars, runnerVars, storeVars
<1> QED  BY <1>1, <1>2, <1>3, <1>4, <1>5, <1>6, <1>7 DEF Next

-----------------------------------------------------------------------------
(* Preservation of the three other parts.  A step of attempt a that evaluates
   nothing keeps every attempt's memory, so what is durable stays durable. *)

(* While no result is added and no check row vanishes, what is durable stays
   durable. *)
LEMMA MemoryKept ==
    ASSUME UNCHANGED <<exec, results>>, checkRows \subseteq checkRows'
    PROVE  /\ \A b \in Attempts : TerminalStatus(b)' = TerminalStatus(b)
           /\ \A b, i : Durable(b, i) => Durable(b, i)'
           /\ \A b \in Attempts : AllDurable(b) => AllDurable(b)'
BY DEF TerminalStatus, MapStatus, Durable, AllDurable

(* An attempt moves on without writing a row. *)
LEMMA QuietStep ==
    ASSUME IndInv, NEW a \in Attempts, pc[a] # "idle",
           NEW w \in InFlight \cup Returned, Goto(a, w),
           UNCHANGED <<exec, results, started, execRows, checkRows>>,
           \A b \in Attempts \ {a} : stamp'[b] = stamp[b],
           pc[a] \in {"emit", "done", "failed", "panicked", "dead"} => w \in {"done", "panicked", "dead"},
           w \in {"precheck", "preerror", "running"} => results[a] = <<>>,
           w \in {"checks", "terminal"} => AllDurable(a),
           w = "terminal" => Len(results[a]) = Len(Checks[exec[a]]),
           w \notin {"checkrow", "checkemit", "emit"}
    PROVE  ExecRowsInv' /\ CheckRowsInv' /\ ProgressInv'
<1>1. /\ \A b \in Attempts : TerminalStatus(b)' = TerminalStatus(b)
      /\ \A b, i : Durable(b, i) => Durable(b, i)'
      /\ \A b \in Attempts : AllDurable(b) => AllDurable(b)'
  BY MemoryKept
<1>2. pc' = [pc EXCEPT ![a] = w] /\ pc'[a] = w /\ \A b \in Attempts \ {a} : pc'[b] = pc[b]
  BY DEF Goto, IndInv, TypeOK
<1>3. \A r \in execRows : r.attempt \in Attempts
  BY DEF IndInv, TypeOK, RowType
<1>4. \A c \in checkRows : c.attempt \in Attempts
  BY DEF IndInv, TypeOK, CheckRowType
<1>5. ExecRowsInv'
  BY <1>1, <1>2, <1>3 DEF IndInv, ExecRowsInv, InFlight, Returned
<1>6. CheckRowsInv'
  BY <1>2, <1>4 DEF IndInv, CheckRowsInv, InFlight, Returned
<1>7. ASSUME NEW b \in Attempts \ {a}
      PROVE  BuildCheckRow(b)' = BuildCheckRow(b) /\ BuildTerminalRow(b)' = BuildTerminalRow(b)
  BY <1>1 DEF BuildCheckRow, BuildTerminalRow, LastCheck, LastResult
<1>8. ProgressInv'
  BY <1>1, <1>2, <1>7 DEF IndInv, ProgressInv, InFlight, Returned
<1> QED  BY <1>5, <1>6, <1>8

(* An attempt appends an execution row, or fails to. *)
LEMMA ExecRowStep ==
    ASSUME IndInv, NEW a \in Attempts, NEW row \in RowType, NEW o \in Outcomes, NEW w,
           WriteExecutionRow(row, o), GotoIfWritten(a, o, w),
           UNCHANGED <<exec, results, started, stamp, checkRows>>,
           row.attempt = a, row.exec = exec[a],
           \/ row.status = "running" /\ pc[a] = "running" /\ w = "checks"
           \/ /\ row = BuildTerminalRow(a) /\ w = "emit"
              /\ \/ pc[a] = "preerror"
                 \/ pc[a] = "terminal"
    PROVE  ExecRowsInv' /\ CheckRowsInv' /\ ProgressInv'
<1>1. /\ \A b \in Attempts : TerminalStatus(b)' = TerminalStatus(b)
      /\ \A b, i : Durable(b, i) => Durable(b, i)'
      /\ \A b \in Attempts : AllDurable(b) => AllDurable(b)'
  BY MemoryKept
<1>2. PICK v \in {w, "failed"} :
        /\ pc'[a] = v /\ \A b \in Attempts \ {a} : pc'[b] = pc[b]
        /\ v = w => Acknowledged(o)
  BY DEF Goto, GotoIfWritten, IndInv, TypeOK
<1>3. execRows' = execRows \/ execRows' = execRows \cup {row}
  BY DEF WriteExecutionRow
<1>4. \A r \in execRows : r.attempt \in Attempts
  BY DEF IndInv, TypeOK, RowType
<1>5. \A c \in checkRows : c.attempt \in Attempts
  BY DEF IndInv, TypeOK, CheckRowType
<1>6. \A r \in execRows : r.attempt = a => r.status = "running"
  BY DEF IndInv, ExecRowsInv
<1>7. ASSUME row.status # "running"
      PROVE  /\ row.status = TerminalStatus(a)
             /\ results[a] = <<>> \/ (Len(results[a]) = Len(Checks[exec[a]]) /\ AllDurable(a))
  BY <1>7 DEF BuildTerminalRow, IndInv, ProgressInv
<1>8. ExecRowsInv'
  <2> SUFFICES ASSUME NEW r \in execRows'
               PROVE  /\ pc'[r.attempt] # "idle"
                      /\ r.exec = exec[r.attempt]
                      /\ r.status # "running" =>
                            /\ pc'[r.attempt] \in {"emit", "done", "failed", "panicked", "dead"}
                            /\ r.status = TerminalStatus(r.attempt)'
                            /\ \/ results[r.attempt] = <<>>
                               \/ /\ Len(results[r.attempt]) = Len(Checks[exec[r.attempt]])
                                  /\ AllDurable(r.attempt)'
    BY DEF ExecRowsInv
  <2>1. CASE r = row
    BY <1>1, <1>2, <1>7, <2>1
  <2>2. CASE r \in execRows
    BY <1>1, <1>2, <1>4, <1>6, <2>2 DEF IndInv, ExecRowsInv
  <2> QED  BY <1>3, <2>1, <2>2
<1>9. CheckRowsInv'
  BY <1>2, <1>5 DEF IndInv, CheckRowsInv
<1>10. \A b \in Attempts : BuildCheckRow(b)' = BuildCheckRow(b) /\ BuildTerminalRow(b)' = BuildTerminalRow(b)
  BY <1>1, Zenon DEF BuildCheckRow, BuildTerminalRow, LastCheck, LastResult
<1>11. Acknowledged(o) => row \in execRows'
  BY DEF WriteExecutionRow, Acknowledged
<1>12. pc[a] = "running" => AllDurable(a)
  BY DEF IndInv, ProgressInv, AllDurable
<1>13. ProgressInv'
  BY <1>1, <1>2, <1>3, <1>10, <1>11, <1>12 DEF IndInv, ProgressInv
<1> QED  BY <1>8, <1>9, <1>13

(* The memory grows by one result, whose row is still to be written. *)
LEMMA EvaluateStep ==
    ASSUME IndInv, NEW a \in Attempts, NEW res \in CheckResults, Evaluate(a, res)
    PROVE  ExecRowsInv' /\ CheckRowsInv' /\ ProgressInv'
<1>1. results[a] \in Seq(CheckResults) /\ results'[a] = Append(results[a], res)
      /\ \A b \in Attempts \ {a} : results'[b] = results[b]
  BY DEF Evaluate, IndInv, TypeOK
<1>2. Len(results'[a]) = Len(results[a]) + 1 /\ Len(results[a]) \in Nat
      /\ \A i \in 1..Len(results[a]) : results'[a][i] = results[a][i]
  BY <1>1
<1>3. pc[a] = "checks" /\ pc'[a] = "checkrow" /\ \A b \in Attempts \ {a} : pc'[b] = pc[b]
  BY DEF Evaluate, Goto, IndInv, TypeOK
<1>4. UNCHANGED <<exec, started, execRows, checkRows>> /\ \A b \in Attempts \ {a} : stamp'[b] = stamp[b]
  BY DEF Evaluate, storeVars, IndInv, TypeOK
<1>5. /\ \A b \in Attempts \ {a} : TerminalStatus(b)' = TerminalStatus(b)
      /\ \A b \in Attempts \ {a} : AllDurable(b) => AllDurable(b)'
      /\ \A b \in Attempts \ {a} : \A i : Durable(b, i) => Durable(b, i)'
  BY <1>1, <1>4 DEF TerminalStatus, MapStatus, AllDurable, Durable
<1>6. \A i \in 1..Len(results[a]) : Durable(a, i)'
  BY <1>2, <1>3, <1>4 DEF IndInv, ProgressInv, AllDurable, Durable
<1>7. ExecRowsInv'
  <2>1. \A r \in execRows : r.attempt \in Attempts
    BY DEF IndInv, TypeOK, RowType
  <2> QED  BY <1>1, <1>3, <1>4, <1>5, <2>1 DEF IndInv, ExecRowsInv
<1>8. CheckRowsInv'
  <2>1. CheckRowsInv /\ \A c \in checkRows : c.attempt \in Attempts
    BY DEF IndInv, TypeOK, CheckRowType
  <2> QED  BY <1>1, <1>2, <1>3, <1>4, <2>1 DEF CheckRowsInv
<1>9. \A b \in Attempts \ {a} :
        BuildCheckRow(b)' = BuildCheckRow(b) /\ BuildTerminalRow(b)' = BuildTerminalRow(b)
  BY <1>1, <1>4, <1>5, Zenon DEF BuildCheckRow, BuildTerminalRow, LastCheck, LastResult
<1>10. ProgressInv'
  BY <1>1, <1>2, <1>3, <1>4, <1>5, <1>6, <1>9 DEF IndInv, ProgressInv
<1> QED  BY <1>7, <1>8, <1>10

(* The row of the last result is appended, or the attempt fails. *)
LEMMA CheckRowStep ==
    ASSUME IndInv, NEW a \in Attempts, NEW o \in Outcomes, WriteCheckRow(a, o)
    PROVE  ExecRowsInv' /\ CheckRowsInv' /\ ProgressInv'
<1>0. PICK row : row = BuildCheckRow(a)
  OBVIOUS
<1>1. UNCHANGED <<exec, results, started, stamp, execRows>> /\ checkRows \subseteq checkRows'
      /\ (checkRows' = checkRows \/ checkRows' = checkRows \cup {row})
      /\ (Acknowledged(o) => row \in checkRows')
  BY <1>0 DEF WriteCheckRow, WriteCheckResultRow, Acknowledged
<1>2. /\ \A b \in Attempts : TerminalStatus(b)' = TerminalStatus(b)
      /\ \A b, i : Durable(b, i) => Durable(b, i)'
      /\ \A b \in Attempts : AllDurable(b) => AllDurable(b)'
  BY <1>1, MemoryKept
<1>3. /\ pc[a] = "checkrow"
      /\ \A b \in Attempts \ {a} : pc'[b] = pc[b]
      /\ pc'[a] = IF Acknowledged(o) THEN "checkemit" ELSE "failed"
  BY DEF WriteCheckRow, GotoIfWritten, Goto, IndInv, TypeOK
<1>4. results[a] \in Seq(CheckResults) /\ Len(results[a]) \in 1..Len(results[a])
  BY <1>3 DEF IndInv, TypeOK, ProgressInv
<1>5. row.attempt = a /\ row.exec = exec[a]
      /\ row.check = Checks[exec[a]][Len(results[a])] /\ row.result = results[a][Len(results[a])]
  BY <1>0 DEF BuildCheckRow, LastCheck, LastResult
<1>6. ExecRowsInv'
  <2>1. \A r \in execRows : r.attempt \in Attempts
    BY DEF IndInv, TypeOK, RowType
  <2> QED  BY <1>1, <1>2, <1>3, <2>1 DEF IndInv, ExecRowsInv
<1>7. CheckRowsInv'
  <2>1. \A c \in checkRows : c.attempt \in Attempts
    BY DEF IndInv, TypeOK, CheckRowType
  <2> QED  BY <1>1, <1>3, <1>4, <1>5, <2>1 DEF IndInv, CheckRowsInv
<1>8. Acknowledged(o) => AllDurable(a)'
  <2> SUFFICES ASSUME Acknowledged(o), NEW i \in 1..Len(results[a])
               PROVE  Durable(a, i)'
    BY <1>1 DEF AllDurable
  <2>1. CASE i = Len(results[a])
    BY <1>1, <1>5, <2>1 DEF Durable
  <2>2. CASE i \in 1..(Len(results[a]) - 1)
    BY <1>2, <1>3, <2>2 DEF IndInv, ProgressInv
  <2> QED  BY <1>4, <2>1, <2>2
<1>9. \A b \in Attempts : BuildCheckRow(b)' = BuildCheckRow(b) /\ BuildTerminalRow(b)' = BuildTerminalRow(b)
  BY <1>1, <1>2 DEF BuildCheckRow, BuildTerminalRow, LastCheck, LastResult
<1>10. ProgressInv'
  BY <1>1, <1>2, <1>3, <1>4, <1>8, <1>9, <1>0 DEF IndInv, ProgressInv
<1> QED  BY <1>6, <1>7, <1>10

(* A step of one attempt keeps the inductive invariant. *)
LEMMA StepInv ==
    ASSUME IndInv, NEW a \in Attempts, Step(a)
    PROVE  ExecRowsInv' /\ CheckRowsInv' /\ ProgressInv'
<1> USE DEF InFlight, Returned, storeVars
<1>1. CASE PrecheckPresent(a)
  BY <1>1, QuietStep, Zenon DEF PrecheckPresent, IndInv, ProgressInv
<1>2. CASE PrecheckAbsent(a)
  <2>1. \A b \in Attempts \ {a} : stamp'[b] = stamp[b]
    BY <1>2 DEF PrecheckAbsent, IndInv, TypeOK
  <2> QED  BY <1>2, <2>1, QuietStep, Zenon DEF PrecheckAbsent, IndInv, ProgressInv
<1>3. ASSUME NEW o \in Outcomes, WritePreCheckErrorRow(a, o)
      PROVE  ExecRowsInv' /\ CheckRowsInv' /\ ProgressInv'
  <2>1. BuildTerminalRow(a) \in RowType /\ BuildTerminalRow(a).attempt = a
        /\ BuildTerminalRow(a).exec = exec[a]
    BY <1>3, TerminalRowType DEF WritePreCheckErrorRow, IndInv, BuildTerminalRow
  <2> QED  BY <1>3, <2>1, ExecRowStep, Zenon DEF WritePreCheckErrorRow
<1>4. ASSUME NEW o \in Outcomes, WriteRunningRow(a, o)
      PROVE  ExecRowsInv' /\ CheckRowsInv' /\ ProgressInv'
  <2>1. BuildRunningRow(a) \in RowType /\ BuildRunningRow(a).attempt = a
        /\ BuildRunningRow(a).exec = exec[a] /\ BuildRunningRow(a).status = "running"
    BY <1>4, RunningRowType DEF WriteRunningRow, IndInv, BuildRunningRow
  <2> QED  BY <1>4, <2>1, ExecRowStep DEF WriteRunningRow
<1>5. CASE CancelMidPass(a)
  BY <1>5, QuietStep DEF CancelMidPass
<1>6. ASSUME NEW r \in CheckResults, Evaluate(a, r)
      PROVE  ExecRowsInv' /\ CheckRowsInv' /\ ProgressInv'
  BY <1>6, EvaluateStep
<1>7. CASE Panics(a)
  BY <1>7, QuietStep DEF Panics
<1>8. ASSUME NEW o \in Outcomes, WriteCheckRow(a, o)
      PROVE  ExecRowsInv' /\ CheckRowsInv' /\ ProgressInv'
  BY <1>8, CheckRowStep
<1>9. CASE EmitCheckEvent(a)
  BY <1>9, QuietStep, Zenon DEF EmitCheckEvent, IndInv, ProgressInv
<1>10. CASE FinishChecks(a)
  <2>1. \A b \in Attempts \ {a} : stamp'[b] = stamp[b]
    BY <1>10 DEF FinishChecks, IndInv, TypeOK
  <2>2. Len(results[a]) = Len(Checks[exec[a]])
    <3>1. exec[a] \in Execs /\ Checks[exec[a]] \in Seq(CheckIds) /\ results[a] \in Seq(CheckResults)
          /\ Len(results[a]) <= Len(Checks[exec[a]])
      BY <1>10, ChecksAssumption DEF FinishChecks, IndInv, TypeOK
    <3> QED  BY <1>10, <3>1 DEF FinishChecks, MoreChecks
  <2> QED  BY <1>10, <2>1, <2>2, QuietStep, Zenon DEF FinishChecks, IndInv, ProgressInv
<1>11. ASSUME NEW o \in Outcomes, WriteTerminalRow(a, o)
       PROVE  ExecRowsInv' /\ CheckRowsInv' /\ ProgressInv'
  <2>1. BuildTerminalRow(a) \in RowType /\ BuildTerminalRow(a).attempt = a
        /\ BuildTerminalRow(a).exec = exec[a]
    BY <1>11, TerminalRowType DEF WriteTerminalRow, IndInv, BuildTerminalRow
  <2> QED  BY <1>11, <2>1, ExecRowStep DEF WriteTerminalRow
<1>12. CASE EmitExecutionEvent(a)
  BY <1>12, QuietStep, Zenon DEF EmitExecutionEvent
<1> QED  BY <1>1, <1>2, <1>3, <1>4, <1>5, <1>6, <1>7, <1>8, <1>9, <1>10, <1>11, <1>12 DEF Step

(* Every step of the engine keeps the inductive invariant. *)
LEMMA NextInv ==
    ASSUME IndInv, [Next]_vars
    PROVE  IndInv'
<1>0. TypeOK'
  BY NextType DEF IndInv
<1>1. ASSUME NEW a \in Attempts, NEW e \in Execs, Start(a, e)
      PROVE  ExecRowsInv' /\ CheckRowsInv' /\ ProgressInv'
  <2>1. /\ pc[a] = "idle" /\ pc'[a] = "precheck" /\ results[a] = <<>>
        /\ \A b \in Attempts \ {a} : pc'[b] = pc[b] /\ exec'[b] = exec[b] /\ started'[b] = started[b]
        /\ UNCHANGED <<stamp, results, execRows, checkRows>>
    BY <1>1 DEF Start, Goto, storeVars, IndInv, TypeOK, ProgressInv
  <2>2. \A r \in execRows : r.attempt \in Attempts \ {a}
    BY <2>1 DEF IndInv, TypeOK, RowType, ExecRowsInv
  <2>3. \A c \in checkRows : c.attempt \in Attempts \ {a}
    BY <2>1 DEF IndInv, TypeOK, CheckRowType, CheckRowsInv
  <2>4. ASSUME NEW b \in Attempts \ {a}
        PROVE  /\ TerminalStatus(b)' = TerminalStatus(b)
               /\ AllDurable(b) <=> AllDurable(b)'
               /\ \A i : Durable(b, i) <=> Durable(b, i)'
               /\ BuildCheckRow(b)' = BuildCheckRow(b)
               /\ BuildTerminalRow(b)' = BuildTerminalRow(b)
    <3>1. exec'[b] = exec[b] /\ started'[b] = started[b] /\ stamp' = stamp /\ results' = results
          /\ checkRows' = checkRows
      BY <2>1
    <3>2. TerminalStatus(b)' = TerminalStatus(b)
      BY <3>1 DEF TerminalStatus, MapStatus
    <3>3. \A i : Durable(b, i) <=> Durable(b, i)'
      BY <3>1 DEF Durable
    <3>4. AllDurable(b) <=> AllDurable(b)'
      BY <3>1, <3>3 DEF AllDurable
    <3>5. BuildCheckRow(b)' = BuildCheckRow(b)
      BY <3>1 DEF BuildCheckRow, LastCheck, LastResult
    <3>6. BuildTerminalRow(b)' = BuildTerminalRow(b)
      BY <3>1, <3>2 DEF BuildTerminalRow
    <3> QED  BY <3>2, <3>3, <3>4, <3>5, <3>6
  <2>5. ExecRowsInv'
    <3> SUFFICES ASSUME NEW r \in execRows
                 PROVE  /\ pc'[r.attempt] # "idle"
                        /\ r.exec = exec'[r.attempt]
                        /\ r.status # "running" =>
                             /\ pc'[r.attempt] \in {"emit", "done", "failed", "panicked", "dead"}
                             /\ r.status = TerminalStatus(r.attempt)'
                             /\ \/ results'[r.attempt] = <<>>
                                \/ /\ Len(results'[r.attempt]) = Len(Checks[exec'[r.attempt]])
                                   /\ AllDurable(r.attempt)'
      BY <2>1 DEF ExecRowsInv
    <3>1. r.attempt \in Attempts \ {a}
      BY <2>2
    <3>2. /\ pc'[r.attempt] = pc[r.attempt] /\ exec'[r.attempt] = exec[r.attempt]
          /\ results' = results
      BY <2>1, <3>1
    <3>3. TerminalStatus(r.attempt)' = TerminalStatus(r.attempt)
          /\ (AllDurable(r.attempt) <=> AllDurable(r.attempt)')
      BY <2>4, <3>1
    <3> QED  BY <3>2, <3>3 DEF IndInv, ExecRowsInv
  <2>6. CheckRowsInv'
    BY <2>1, <2>3 DEF IndInv, CheckRowsInv
  <2>7. ProgressInv'
    BY <2>1, <2>4 DEF IndInv, ProgressInv
  <2> QED  BY <2>5, <2>6, <2>7
<1>2. ASSUME NEW a \in Attempts, Step(a)
      PROVE  ExecRowsInv' /\ CheckRowsInv' /\ ProgressInv'
  BY <1>2, StepInv
<1>3. ASSUME UNCHANGED <<exec, started, stamp, results, execRows, checkRows>>,
             \A a \in Attempts : pc'[a] = pc[a] \/ (pc[a] \in InFlight /\ pc'[a] = "dead")
      PROVE  ExecRowsInv' /\ CheckRowsInv' /\ ProgressInv'
  <2>1. \A b \in Attempts :
          /\ TerminalStatus(b)' = TerminalStatus(b)
          /\ AllDurable(b) => AllDurable(b)'
          /\ \A i : Durable(b, i) => Durable(b, i)'
          /\ BuildCheckRow(b)' = BuildCheckRow(b)
          /\ BuildTerminalRow(b)' = BuildTerminalRow(b)
    <3>1. \A b \in Attempts :
             /\ TerminalStatus(b)' = TerminalStatus(b)
             /\ BuildCheckRow(b)' = BuildCheckRow(b)
      BY <1>3, Zenon DEF TerminalStatus, MapStatus, BuildCheckRow, LastCheck, LastResult
    <3>2. \A b \in Attempts : BuildTerminalRow(b)' = BuildTerminalRow(b)
      BY <1>3, <3>1, Zenon DEF BuildTerminalRow
    <3>3. \A b \in Attempts : \A i : Durable(b, i) => Durable(b, i)'
      BY <1>3, Zenon DEF Durable
    <3>4. \A b \in Attempts : AllDurable(b) => AllDurable(b)'
      BY <1>3, <3>3, Zenon DEF AllDurable
    <3> QED  BY <3>1, <3>2, <3>3, <3>4, Zenon
  <2>2. \A r \in execRows : r.attempt \in Attempts
    BY DEF IndInv, TypeOK, RowType
  <2>3. \A c \in checkRows : c.attempt \in Attempts
    BY DEF IndInv, TypeOK, CheckRowType
  <2>4. ExecRowsInv'
    BY <1>3, <2>1, <2>2 DEF IndInv, ExecRowsInv
  <2>5. CheckRowsInv'
    BY <1>3, <2>3 DEF IndInv, CheckRowsInv
  <2>6. ProgressInv'
    BY <1>3, <2>1 DEF IndInv, ProgressInv
  <2> QED  BY <2>4, <2>5, <2>6
<1>4. CASE Shutdown \/ Boot \/ Tick \/ UNCHANGED vars
  BY <1>0, <1>3, <1>4 DEF Shutdown, Boot, Tick, vars, runnerVars, storeVars, IndInv
<1>5. CASE Exit
  BY <1>0, <1>3, <1>5 DEF Exit, storeVars, IndInv
<1> QED  BY <1>0, <1>1, <1>2, <1>4, <1>5 DEF Next, IndInv

(* The inductive invariant holds of the empty tables. *)
LEMMA InitInv == Init => IndInv
BY InitType DEF Init, IndInv, ExecRowsInv, CheckRowsInv, ProgressInv, AllDurable

(* IndInv is an invariant: what an attempt holds in memory is what its rows
   say, for any attempts, executions and check lists (runner.go:294-439). *)
THEOREM IndInvCorrect == Spec => []IndInv
BY InitInv, NextInv, PTL DEF Spec

-----------------------------------------------------------------------------
(* Every row, attempt and metric is well typed, and no attempt evaluates past
   the end of its check list. *)
THEOREM TypeCorrect == Spec => []TypeOK
<1>1. IndInv => TypeOK
  BY DEF IndInv
<1> QED  BY <1>1, IndInvCorrect, PTL

(* The rows of a finished attempt are the whole of its memory. *)
LEMMA ExplainedByRows ==
    ASSUME IndInv
    PROVE  TerminalExplained
<1> SUFFICES ASSUME NEW r \in execRows, r.status # "running"
             PROVE  LET joined == JoinedCheckRows(r) IN
                    \/ joined = {} /\ r.status = "error"
                    \/ /\ joined # {}
                       /\ {c.check : c \in joined} = Range(Checks[r.exec])
                       /\ r.status = "success" <=> \A c \in joined : c.result = "pass"
                       /\ r.status = "error" <=> \A c \in joined : c.result = "error"
  BY DEF TerminalExplained
<1> DEFINE a == r.attempt
           joined == JoinedCheckRows(r)
<1>1. /\ a \in Attempts /\ pc[a] # "idle" /\ exec[a] \in Execs /\ r.exec = exec[a]
      /\ results[a] \in Seq(CheckResults) /\ Checks[exec[a]] \in Seq(CheckIds)
      /\ r.status = TerminalStatus(a)
  BY ChecksAssumption DEF IndInv, TypeOK, ExecRowsInv, RowType
<1>2. \A c \in joined : \E i \in 1..Len(results[a]) :
         c.check = Checks[exec[a]][i] /\ c.result = results[a][i]
  BY DEF JoinedCheckRows, IndInv, CheckRowsInv
<1>3. CASE results[a] = <<>>
  BY <1>1, <1>2, <1>3 DEF TerminalStatus
<1>4. CASE results[a] # <<>>
  <2>1. Len(results[a]) = Len(Checks[exec[a]]) /\ AllDurable(a)
    BY <1>4 DEF IndInv, ExecRowsInv
  <2>2. \A i \in 1..Len(results[a]) : \E c \in joined :
           c.check = Checks[exec[a]][i] /\ c.result = results[a][i]
    BY <1>1, <2>1 DEF AllDurable, Durable, JoinedCheckRows
  <2>3. Len(results[a]) > 0 /\ DOMAIN results[a] = 1..Len(results[a])
        /\ DOMAIN Checks[exec[a]] = 1..Len(results[a])
    BY <1>1, <1>4, <2>1
  <2>4. joined # {}
    <3>1. 1 \in 1..Len(results[a])
      BY <1>1, <2>3
    <3> QED  BY <2>2, <3>1, Zenon
  <2>5. {c.check : c \in joined} = Range(Checks[r.exec])
    <3> DEFINE cs == Checks[exec[a]]
    <3>1. Range(Checks[r.exec]) = {cs[i] : i \in 1..Len(results[a])}
      BY <1>1, <2>3 DEF Range
    <3>2. \A c \in joined : \E i \in 1..Len(results[a]) : c.check = cs[i]
      BY <1>2
    <3>3. \A i \in 1..Len(results[a]) : \E c \in joined : cs[i] = c.check
      BY <2>2
    <3> HIDE DEF cs, joined, a
    <3> QED  BY <3>1, <3>2, <3>3
  <2>6. r.status = MapStatus(results[a])
    BY <1>1, <1>4 DEF TerminalStatus
  <2>7. (\A c \in joined : c.result = "pass") <=> (\A i \in DOMAIN results[a] : results[a][i] = "pass")
    BY <1>2, <2>2, <2>3, Zenon
  <2>8. (\A c \in joined : c.result = "error") <=> (\A i \in DOMAIN results[a] : results[a][i] = "error")
    BY <1>2, <2>2, <2>3, Zenon
  <2>9. ~((\A i \in DOMAIN results[a] : results[a][i] = "pass") /\ (\A i \in DOMAIN results[a] : results[a][i] = "error"))
    <3>1. 1 \in DOMAIN results[a]
      BY <1>1, <2>3
    <3> QED  BY <3>1
  <2> QED  BY <2>4, <2>5, <2>6, <2>7, <2>8, <2>9 DEF MapStatus
<1> QED  BY <1>3, <1>4, Zenon

(* Whatever is lost, crashes or runs beside it, a terminal row's status is the
   one the check rows of its own attempt explain. *)
THEOREM TerminalExplainedCorrect == Spec => []TerminalExplained
BY ExplainedByRows, IndInvCorrect, PTL
-----------------------------------------------------------------------------
(* Alerts. *)

(* The tables only grow. *)
LEMMA RowsGrow ==
    ASSUME [Next]_vars
    PROVE  execRows \subseteq execRows' /\ checkRows \subseteq checkRows'
<1>1. ASSUME NEW a \in Attempts, Step(a)
      PROVE  execRows \subseteq execRows' /\ checkRows \subseteq checkRows'
  BY <1>1, Zenon DEF Step, PrecheckPresent, PrecheckAbsent, WritePreCheckErrorRow, WriteRunningRow,
              CancelMidPass, Evaluate, Panics, WriteCheckRow, EmitCheckEvent, FinishChecks,
              WriteTerminalRow, EmitExecutionEvent, WriteExecutionRow, WriteCheckResultRow, storeVars
<1> QED  BY <1>1 DEF Next, Start, Shutdown, Exit, Boot, Tick, vars, runnerVars, storeVars

(* A step publishes at most one event: that of a check row just written, of a
   terminal row just written, or of a panic. *)
LEMMA NewAlerts ==
    ASSUME [Next]_vars, NEW e \in published', e \notin published
    PROVE  \E a \in Attempts :
              \/ EmitCheckEvent(a) /\ e = CheckEvent(a)
              \/ EmitExecutionEvent(a) /\ e = ExecutionEvent(a)
              \/ Panics(a) /\ e = PanicEvent(a)
<1>1. ASSUME NEW a \in Attempts, Step(a)
      PROVE  \/ EmitCheckEvent(a) /\ e = CheckEvent(a)
             \/ EmitExecutionEvent(a) /\ e = ExecutionEvent(a)
             \/ Panics(a) /\ e = PanicEvent(a)
  <2>1. CASE EmitCheckEvent(a)
    BY <2>1 DEF EmitCheckEvent, Emit, Publish
  <2>2. CASE EmitExecutionEvent(a)
    BY <2>2 DEF EmitExecutionEvent, Emit, Publish
  <2>3. CASE Panics(a)
    BY <2>3 DEF Panics, Publish
  <2> QED  BY <1>1, <2>1, <2>2, <2>3, Zenon DEF Step, PrecheckPresent, PrecheckAbsent, WritePreCheckErrorRow,
              WriteRunningRow, CancelMidPass, Evaluate, WriteCheckRow, FinishChecks, WriteTerminalRow
<1> QED  BY <1>1 DEF Next, Start, Shutdown, Exit, Boot, Tick, vars

(* An attempt that announced its panic, or its end, stays where that left it. *)
EndInv ==
    \A e \in published :
        /\ e.source = "trigger_handler" => e.attempt \in Attempts /\ pc[e.attempt] = "panicked"
        /\ (e.source = "runner" /\ e.check = Null) => e.attempt \in Attempts /\ pc[e.attempt] = "done"

(* An attempt that panicked or returned stays so: its goroutine is gone. *)
LEMMA EndedStays ==
    ASSUME TypeOK, [Next]_vars, NEW a \in Attempts, NEW w \in {"panicked", "done"}, pc[a] = w
    PROVE  pc'[a] = w
<1>1. ASSUME NEW b \in Attempts, Step(b)
      PROVE  pc'[a] = w
  <2>1. pc[b] \in InFlight /\ \E v : pc' = [pc EXCEPT ![b] = v]
    BY <1>1, Zenon DEF Step, PrecheckPresent, PrecheckAbsent, WritePreCheckErrorRow, WriteRunningRow,
              CancelMidPass, Evaluate, Panics, WriteCheckRow, EmitCheckEvent, FinishChecks,
              WriteTerminalRow, EmitExecutionEvent, GotoIfWritten, Goto, InFlight
  <2>2. a # b
    BY <2>1 DEF InFlight
  <2> QED  BY <2>1, <2>2 DEF TypeOK
<1>2. ASSUME NEW b \in Attempts, NEW x \in Execs, Start(b, x)
      PROVE  pc'[a] = w
  BY <1>2 DEF TypeOK, Start, Goto
<1>3. CASE Exit
  BY <1>3 DEF Exit, InFlight
<1> QED  BY <1>1, <1>2, <1>3 DEF Next, Shutdown, Boot, Tick, vars, runnerVars

(* A new alert is that of a step which left its attempt where EndInv says. *)
LEMMA EndInvStep ==
    ASSUME IndInv, EndInv, [Next]_vars
    PROVE  EndInv'
<1> SUFFICES ASSUME NEW e \in published'
             PROVE  /\ e.source = "trigger_handler" => e.attempt \in Attempts /\ pc'[e.attempt] = "panicked"
                    /\ (e.source = "runner" /\ e.check = Null) =>
                          e.attempt \in Attempts /\ pc'[e.attempt] = "done"
  BY DEF EndInv
<1>1. CASE e \in published
  <2>1. TypeOK
    BY DEF IndInv
  <2> QED  BY <1>1, <2>1, EndedStays DEF EndInv
<1>2. CASE e \notin published
  <2>1. PICK a \in Attempts : \/ EmitCheckEvent(a) /\ e = CheckEvent(a)
                              \/ EmitExecutionEvent(a) /\ e = ExecutionEvent(a)
                              \/ Panics(a) /\ e = PanicEvent(a)
    BY <1>2, NewAlerts
  <2>2. CASE EmitCheckEvent(a) /\ e = CheckEvent(a)
    <3>1. pc[a] = "checkemit"
      BY <2>2, Zenon DEF EmitCheckEvent
    <3>2. BuildCheckRow(a) \in CheckRowType
      BY <3>1, CheckRowTyped DEF IndInv, ProgressInv
    <3>3. e.source = "runner" /\ e.check = BuildCheckRow(a).check
      BY <2>2, Zenon DEF CheckEvent, BuildCheckRow
    <3>4. e.check \in CheckIds
      BY <3>2, <3>3 DEF CheckRowType
    <3> QED  BY <3>3, <3>4, NullAssumption
  <2>3. CASE EmitExecutionEvent(a) /\ e = ExecutionEvent(a)
    BY <2>3 DEF EmitExecutionEvent, ExecutionEvent, Goto, IndInv, TypeOK
  <2>4. CASE Panics(a) /\ e = PanicEvent(a)
    BY <2>4 DEF Panics, PanicEvent, Goto, IndInv, TypeOK
  <2> QED  BY <2>1, <2>2, <2>3, <2>4
<1> QED  BY <1>1, <1>2

(* No alert without its row, and no attempt that announces both its end and a
   panic. *)
THEOREM AlertsBackedCorrect == Spec => []AlertsBacked
<1>1. Init => AlertsBacked /\ EndInv
  BY DEF Init, AlertsBacked, EndInv
<1>2. ASSUME IndInv, AlertsBacked, EndInv, [Next]_vars
      PROVE  AlertsBacked' /\ EndInv'
  <2>1. IndInv' /\ execRows \subseteq execRows' /\ checkRows \subseteq checkRows'
    BY <1>2, NextInv, RowsGrow
  <2>2. EndInv'
    BY <1>2, EndInvStep
  <2>3. ASSUME NEW e \in published'
        PROVE  /\ e.source = "trigger_handler" =>
                     \A f \in published' :
                        (f.source = "runner" /\ f.check = Null) => f.attempt # e.attempt
               /\ (e.source = "runner" /\ e.check # Null) =>
                     \E c \in checkRows' :
                        /\ c.exec = e.exec /\ c.attempt = e.attempt /\ c.check = e.check
                        /\ c.result = e.result /\ c.executedAt = e.recordedAt
               /\ (e.source = "runner" /\ e.check = Null) =>
                     \E r \in execRows' :
                        /\ r.exec = e.exec /\ r.attempt = e.attempt
                        /\ r.status = e.status /\ r.recordedAt = e.recordedAt
    <3>1. e.source = "trigger_handler" =>
             \A f \in published' : (f.source = "runner" /\ f.check = Null) => f.attempt # e.attempt
      BY <2>2 DEF EndInv
    <3>2. CASE e \in published
      BY <1>2, <2>1, <3>1, <3>2 DEF AlertsBacked
    <3>3. CASE e \notin published
      <4>1. PICK a \in Attempts : \/ EmitCheckEvent(a) /\ e = CheckEvent(a)
                                  \/ EmitExecutionEvent(a) /\ e = ExecutionEvent(a)
                                  \/ Panics(a) /\ e = PanicEvent(a)
        BY <1>2, <3>3, NewAlerts
      <4>2. CASE EmitCheckEvent(a) /\ e = CheckEvent(a)
        <5>1. BuildCheckRow(a) \in checkRows
          BY <1>2, <4>2, Zenon DEF EmitCheckEvent, IndInv, ProgressInv
        <5>2. e.check \in CheckIds
          BY <1>2, <4>2, CheckRowTyped, <5>1, Zenon DEF EmitCheckEvent, IndInv, ProgressInv, CheckEvent,
                                                 BuildCheckRow, CheckRowType
        <5> QED  BY <2>1, <3>1, <4>2, <5>1, <5>2, NullAssumption, Zenon DEF CheckEvent, BuildCheckRow
      <4>3. CASE EmitExecutionEvent(a) /\ e = ExecutionEvent(a)
        <5>1. BuildTerminalRow(a) \in execRows
          BY <1>2, <4>3, Zenon DEF EmitExecutionEvent, IndInv, ProgressInv
        <5> QED  BY <2>1, <3>1, <4>3, <5>1, Zenon DEF ExecutionEvent, BuildTerminalRow
      <4>4. CASE Panics(a) /\ e = PanicEvent(a)
        BY <3>1, <4>4, Zenon DEF PanicEvent
      <4> QED  BY <4>1, <4>2, <4>3, <4>4, Zenon
    <3> QED  BY <3>2, <3>3, Zenon
  <2> QED  BY <2>2, <2>3 DEF AlertsBacked
<1> QED  BY <1>1, <1>2, IndInvCorrect, PTL DEF Spec

-----------------------------------------------------------------------------
(* Finality. *)

(* Whoever appends a row is before the end of Run. *)
LEMMA WritersInFlight ==
    ASSUME TypeOK, [Next]_vars
    PROVE  /\ \A r \in execRows' \ execRows : pc[r.attempt] \in {"preerror", "running", "terminal"}
           /\ \A c \in checkRows' \ checkRows : pc[c.attempt] = "checkrow"
<1>1. ASSUME NEW a \in Attempts, Step(a)
      PROVE  /\ \A r \in execRows' \ execRows : pc[r.attempt] \in {"preerror", "running", "terminal"}
             /\ \A c \in checkRows' \ checkRows : pc[c.attempt] = "checkrow"
  <2>1. BuildRunningRow(a).attempt = a /\ BuildTerminalRow(a).attempt = a /\ BuildCheckRow(a).attempt = a
    BY Zenon DEF BuildRunningRow, BuildTerminalRow, BuildCheckRow
  <2> QED  BY <1>1, <2>1, Zenon DEF Step, PrecheckPresent, PrecheckAbsent, WritePreCheckErrorRow,
              WriteRunningRow, CancelMidPass, Evaluate, Panics, WriteCheckRow, EmitCheckEvent,
              FinishChecks, WriteTerminalRow, EmitExecutionEvent, WriteExecutionRow,
              WriteCheckResultRow, storeVars
<1> QED  BY <1>1 DEF Next, Start, Shutdown, Exit, Boot, Tick, vars, runnerVars, storeVars

(* A terminal row is the last row of its attempt. *)
THEOREM TerminalIsFinalCorrect == Spec => TerminalIsFinal
<1>1. ASSUME IndInv, [Next]_vars
      PROVE  [\A a \in Attempts :
                (\E r \in execRows : r.attempt = a /\ r.status \in Terminal) =>
                   /\ \A r \in execRows' \ execRows : r.attempt # a
                   /\ \A c \in checkRows' \ checkRows : c.attempt # a]_vars
  BY <1>1, WritersInFlight DEF IndInv, ExecRowsInv, Terminal
<1> QED  BY <1>1, IndInvCorrect, PTL DEF Spec, TerminalIsFinal

(* What is published has its key in the attempt's deduper. *)
SeenInv ==
    /\ DOMAIN seen = Attempts
    /\ \A e \in published : e.source = "runner" =>
          e.attempt \in Attempts /\ DedupKey(e) \in seen[e.attempt]

(* Emitting an event keeps the deduper in step with what was published. *)
LEMMA EmitSeen ==
    ASSUME SeenInv, OneAlertPerFinding, NEW a \in Attempts, NEW event, Emit(a, event),
           event.source = "runner", event.attempt = a
    PROVE  SeenInv' /\ OneAlertPerFinding'
<1>1. CASE UNCHANGED <<seen, published>>
  BY <1>1 DEF SeenInv, OneAlertPerFinding
<1>2. CASE /\ DedupKey(event) \notin seen[a]
           /\ seen' = [seen EXCEPT ![a] = @ \cup {DedupKey(event)}]
           /\ published' = published \/ published' = published \cup {event}
  <2>1. /\ DOMAIN seen' = Attempts
        /\ \A b \in Attempts : seen[b] \subseteq seen'[b]
        /\ DedupKey(event) \in seen'[a]
    BY <1>2 DEF SeenInv
  <2>2. SeenInv'
    BY <1>2, <2>1 DEF SeenInv, DedupKey
  <2>3. \A x \in published : x.source = "runner" => DedupKey(x) # DedupKey(event)
    <3> SUFFICES ASSUME NEW x \in published, x.source = "runner", DedupKey(x) = DedupKey(event)
                 PROVE  FALSE
      OBVIOUS
    <3>1. x.attempt = event.attempt
      BY DEF DedupKey
    <3> QED  BY <1>2, <3>1 DEF SeenInv
  <2> QED  BY <1>2, <2>2, <2>3 DEF OneAlertPerFinding, DedupKey
<1> QED  BY <1>1, <1>2 DEF Emit, Publish, ShouldPublish

(* One alert per attempt, check and result, for any check list. *)
THEOREM OneAlertCorrect == Spec => []OneAlertPerFinding
<1>1. Init => SeenInv /\ OneAlertPerFinding
  BY DEF Init, SeenInv, OneAlertPerFinding
<1>2. ASSUME SeenInv, OneAlertPerFinding, [Next]_vars
      PROVE  SeenInv' /\ OneAlertPerFinding'
  <2>1. ASSUME NEW a \in Attempts, Step(a)
        PROVE  SeenInv' /\ OneAlertPerFinding'
    <3>1. CASE EmitCheckEvent(a)
      BY <1>2, <3>1, EmitSeen, Zenon DEF EmitCheckEvent, CheckEvent
    <3>2. CASE EmitExecutionEvent(a)
      BY <1>2, <3>2, EmitSeen, Zenon DEF EmitExecutionEvent, ExecutionEvent
    <3>3. CASE Panics(a)
      <4>1. PanicEvent(a).source # "runner"
        BY DEF PanicEvent
      <4> QED  BY <1>2, <3>3, <4>1, Zenon DEF Panics, Publish, SeenInv, OneAlertPerFinding, DedupKey
    <3> QED  BY <1>2, <2>1, <3>1, <3>2, <3>3, Zenon DEF Step, PrecheckPresent, PrecheckAbsent,
                WritePreCheckErrorRow, WriteRunningRow, CancelMidPass, Evaluate, WriteCheckRow,
                FinishChecks, WriteTerminalRow, SeenInv, OneAlertPerFinding, DedupKey
  <2> QED  BY <1>2, <2>1, Zenon DEF Next, Start, Shutdown, Exit, Boot, Tick, vars, runnerVars, SeenInv,
                             OneAlertPerFinding, DedupKey
<1> QED  BY <1>1, <1>2, PTL DEF Spec

=============================================================================
