------------------------------- MODULE Runner -------------------------------
(***************************************************************************)
(* engine/internal/runner: Runner.Run, one attempt at an execution, and    *)
(* the goroutine of api.HandleTrigger that calls it.                       *)
(*                                                                         *)
(* Every attempt is a process.  Several attempts may be at work on the     *)
(* same execution (the execution id is a function of the trigger, so a     *)
(* retried trigger has the id of the first).  Nothing in the engine        *)
(* coordinates them: they meet only in the result tables.  A row's         *)
(* timestamp is read before the row is written, so the two are separate    *)
(* steps, and the process may stop between any two steps.                  *)
(***************************************************************************)
EXTENDS Alerts, Sequences, Functions

CONSTANTS
    Attempts,          \* attempt ids (fresh UUIDs: each is used once)
    Execs,             \* execution ids
    CheckIds,          \* check ids
    Checks,            \* Checks[e]: the check list the trigger of e resolved to
    MaxTime            \* bound on the clock

ASSUME ChecksAssumption == Checks \in [Execs -> Seq(CheckIds)]
ASSUME TimeAssumption   == MaxTime \in Nat
ASSUME NullAssumption   == /\ Null \notin Nat
                           /\ Null \notin CheckIds
                           /\ Null \notin CheckResults
                           /\ Null \notin Statuses

VARIABLES
    engine,            \* the process: up, stopping (context cancelled), down
    pc,                \* where each attempt is in Run
    exec,              \* the execution an attempt belongs to
    started,           \* startedAt
    stamp,             \* the time read for the row about to be written
    results,           \* checkResults: one result per evaluated check
    seen,              \* the attempt's AttemptDeduper
    runsTotal          \* dq_runs_total by status (process memory)

runnerVars == <<engine, pc, exec, started, stamp, results, seen, runsTotal>>
vars == <<runnerVars, storeVars, published>>

(* Where Run can return, or be cut off. *)
Returned == {"done", "failed", "cancelled", "panicked", "dead"}
InFlight == {"precheck", "preerror", "running", "checks", "checkrow",
             "checkemit", "terminal", "emit"}

Goto(a, where) == pc' = [pc EXCEPT ![a] = where]

(* A failed write logged and passed over. *)
GotoAnyway(a, outcome, where) == Goto(a, where)

(* A failed write is Run's error return. *)
GotoIfWritten(a, outcome, where) ==
    Goto(a, IF Acknowledged(outcome) THEN where ELSE "failed")

-----------------------------------------------------------------------------
(* Pure functions of the runner. *)

(* One error is enough for `error'. *)
MapStatusAnyError(rs) ==
    IF \A i \in DOMAIN rs : rs[i] = "pass" THEN "success"
    ELSE IF \E i \in DOMAIN rs : rs[i] = "error" THEN "error"
    ELSE "failed"

MapStatus(rs) ==
    IF \A i \in DOMAIN rs : rs[i] = "pass" THEN "success"
    ELSE IF \A i \in DOMAIN rs : rs[i] = "error" THEN "error"
    ELSE "failed"

(* The pre-check path and a trigger without checks both end in `error'. *)
TerminalStatus(a) == IF results[a] = <<>> THEN "error" ELSE MapStatus(results[a])

(* The check that results[a] ends with. *)
LastCheck(a)  == Checks[exec[a]][Len(results[a])]
LastResult(a) == results[a][Len(results[a])]

BuildRunningRow(a) ==
    [exec |-> exec[a], attempt |-> a, status |-> "running",
     startedAt |-> Null, recordedAt |-> started[a]]

BuildTerminalRow(a) ==
    [exec |-> exec[a], attempt |-> a, status |-> TerminalStatus(a),
     startedAt |-> started[a], recordedAt |-> stamp[a]]

BuildCheckRow(a) ==
    [exec |-> exec[a], attempt |-> a, check |-> LastCheck(a),
     result |-> LastResult(a), executedAt |-> stamp[a]]

CheckEvent(a) ==
    [source |-> "runner", exec |-> exec[a], attempt |-> a, check |-> LastCheck(a),
     result |-> LastResult(a), status |-> Null,
     category |-> MapCategory("runner", LastResult(a), Null), recordedAt |-> stamp[a]]

ExecutionEvent(a) ==
    [source |-> "runner", exec |-> exec[a], attempt |-> a, check |-> Null,
     result |-> Null, status |-> TerminalStatus(a),
     category |-> MapCategory("runner", Null, TerminalStatus(a)), recordedAt |-> stamp[a]]

PanicEvent(a) ==
    [source |-> "trigger_handler", exec |-> exec[a], attempt |-> a, check |-> Null,
     result |-> Null, status |-> Null, category |-> "operational", recordedAt |-> clock]

(* emitCheckEvent and emitExecutionEvent: filter, deduplicate, publish. *)
Emit(a, event) ==
    IF event.category = NoAlert \/ ~ShouldPublish(seen[a], event)
    THEN UNCHANGED <<seen, published>>
    ELSE /\ seen' = [seen EXCEPT ![a] = @ \cup {DedupKey(event)}]
         /\ Publish(event)

-----------------------------------------------------------------------------
(* One attempt. *)

(* The listener still accepts triggers for a moment after the context is
   cancelled. *)
Start(a, e) ==
    /\ engine # "down"
    /\ pc[a] = "idle"
    /\ Goto(a, "precheck")
    /\ exec' = [exec EXCEPT ![a] = e]
    /\ started' = [started EXCEPT ![a] = clock]
    /\ UNCHANGED <<engine, stamp, results, seen, runsTotal, storeVars, published>>

(* SourceExists says yes; it says no, or fails. *)
PrecheckPresent(a) ==
    /\ pc[a] = "precheck"
    /\ Goto(a, "running")
    /\ UNCHANGED <<engine, exec, started, stamp, results, seen, runsTotal, storeVars, published>>

PrecheckAbsent(a) ==
    /\ pc[a] = "precheck"
    /\ Goto(a, "preerror")
    /\ stamp' = [stamp EXCEPT ![a] = clock]
    /\ UNCHANGED <<engine, exec, started, results, seen, runsTotal, storeVars, published>>

WritePreCheckErrorRow(a, outcome) ==
    /\ pc[a] = "preerror"
    /\ WriteExecutionRow(BuildTerminalRow(a), outcome)
    /\ GotoIfWritten(a, outcome, "emit")
    /\ UNCHANGED <<engine, exec, started, stamp, results, seen, runsTotal, checkRows, clock, published>>

(* The answer of the running row's insert ignored. *)
WriteRunningRowUnchecked(a, outcome) ==
    /\ pc[a] = "running"
    /\ WriteExecutionRow(BuildRunningRow(a), outcome)
    /\ Goto(a, "checks")
    /\ UNCHANGED <<engine, exec, started, stamp, results, seen, runsTotal, checkRows, clock, published>>

WriteRunningRow(a, outcome) ==
    /\ pc[a] = "running"
    /\ WriteExecutionRow(BuildRunningRow(a), outcome)
    /\ GotoIfWritten(a, outcome, "checks")
    /\ UNCHANGED <<engine, exec, started, stamp, results, seen, runsTotal, checkRows, clock, published>>

MoreChecks(a) == Len(results[a]) < Len(Checks[exec[a]])

(* ctx.Done() is looked at before each check. *)
CancelMidPass(a) ==
    /\ pc[a] = "checks"
    /\ MoreChecks(a)
    /\ engine = "stopping"
    /\ Goto(a, "cancelled")
    /\ UNCHANGED <<engine, exec, started, stamp, results, seen, runsTotal, storeVars, published>>

(* An evaluator error is recorded as result `error'. *)
Evaluate(a, result) ==
    /\ pc[a] = "checks"
    /\ MoreChecks(a)
    /\ engine = "up"
    /\ results' = [results EXCEPT ![a] = Append(@, result)]
    /\ stamp' = [stamp EXCEPT ![a] = clock]
    /\ Goto(a, "checkrow")
    /\ UNCHANGED <<engine, exec, started, seen, runsTotal, storeVars, published>>

(* A panic anywhere in Run unwinds it; the handler's goroutine recovers it and
   alerts. *)
Panics(a) ==
    /\ pc[a] \in InFlight
    /\ Goto(a, "panicked")
    /\ Publish(PanicEvent(a))
    /\ UNCHANGED <<engine, exec, started, stamp, results, seen, runsTotal, storeVars>>

(* The answer of the check row's insert ignored. *)
WriteCheckRowUnchecked(a, outcome) ==
    /\ pc[a] = "checkrow"
    /\ WriteCheckResultRow(BuildCheckRow(a), outcome)
    /\ Goto(a, "checkemit")
    /\ UNCHANGED <<engine, exec, started, stamp, results, seen, runsTotal, execRows, clock, published>>

WriteCheckRow(a, outcome) ==
    /\ pc[a] = "checkrow"
    /\ WriteCheckResultRow(BuildCheckRow(a), outcome)
    /\ GotoIfWritten(a, outcome, "checkemit")
    /\ UNCHANGED <<engine, exec, started, stamp, results, seen, runsTotal, execRows, clock, published>>

EmitCheckEvent(a) ==
    /\ pc[a] = "checkemit"
    /\ Emit(a, CheckEvent(a))
    /\ Goto(a, "checks")
    /\ UNCHANGED <<engine, exec, started, stamp, results, runsTotal, storeVars>>

(* The terminal row under whatever time was read last. *)
FinishChecksUnstamped(a) ==
    /\ pc[a] = "checks"
    /\ ~MoreChecks(a)
    /\ Goto(a, "terminal")
    /\ UNCHANGED <<engine, exec, started, stamp, results, seen, runsTotal, storeVars, published>>

(* The terminal row's time is read from the wall clock, which need not have
   moved since startedAt. *)
FinishChecks(a) ==
    /\ pc[a] = "checks"
    /\ ~MoreChecks(a)
    /\ stamp' = [stamp EXCEPT ![a] = clock]
    /\ Goto(a, "terminal")
    /\ UNCHANGED <<engine, exec, started, results, seen, runsTotal, storeVars, published>>

WriteTerminalRow(a, outcome) ==
    /\ pc[a] = "terminal"
    /\ WriteExecutionRow(BuildTerminalRow(a), outcome)
    /\ GotoIfWritten(a, outcome, "emit")
    /\ UNCHANGED <<engine, exec, started, stamp, results, seen, runsTotal, checkRows, clock, published>>

(* emitRunMetrics, emitExecutionEvent, return. *)
EmitExecutionEvent(a) ==
    /\ pc[a] = "emit"
    /\ runsTotal' = [runsTotal EXCEPT ![TerminalStatus(a)] = @ + 1]
    /\ Emit(a, ExecutionEvent(a))
    /\ Goto(a, "done")
    /\ UNCHANGED <<engine, exec, started, stamp, results, storeVars>>

Step(a) ==
    \/ PrecheckPresent(a)
    \/ PrecheckAbsent(a)
    \/ \E o \in Outcomes : WritePreCheckErrorRow(a, o)
    \/ \E o \in Outcomes : WriteRunningRow(a, o)
    \/ CancelMidPass(a)
    \/ \E r \in CheckResults : Evaluate(a, r)
    \/ Panics(a)
    \/ \E o \in Outcomes : WriteCheckRow(a, o)
    \/ EmitCheckEvent(a)
    \/ FinishChecks(a)
    \/ \E o \in Outcomes : WriteTerminalRow(a, o)
    \/ EmitExecutionEvent(a)

-----------------------------------------------------------------------------
(* The process that runs the attempts. *)

(* SIGTERM cancels the engine context; main waits for its own loops and not
   for the goroutines of accepted triggers. *)
Shutdown ==
    /\ engine = "up"
    /\ engine' = "stopping"
    /\ UNCHANGED <<pc, exec, started, stamp, results, seen, runsTotal, storeVars, published>>

(* main returns, or the process is killed. *)
Exit ==
    /\ engine \in {"up", "stopping"}
    /\ engine' = "down"
    /\ pc' = [a \in Attempts |-> IF pc[a] \in InFlight THEN "dead" ELSE pc[a]]
    /\ runsTotal' = [s \in Terminal |-> 0]
    /\ UNCHANGED <<exec, started, stamp, results, seen, storeVars, published>>

Boot ==
    /\ engine = "down"
    /\ engine' = "up"
    /\ UNCHANGED <<pc, exec, started, stamp, results, seen, runsTotal, storeVars, published>>

(* The wall clock moves on. *)
Tick ==
    /\ clock < MaxTime
    /\ clock' = clock + 1
    /\ UNCHANGED <<runnerVars, execRows, checkRows, copies, published>>

Init ==
    /\ execRows = {} /\ checkRows = {} /\ copies = EmptyBag /\ clock = 0 /\ published = {}
    /\ engine = "up"
    /\ pc = [a \in Attempts |-> "idle"]
    /\ exec = [a \in Attempts |-> Null]
    /\ started = [a \in Attempts |-> 0]
    /\ stamp = [a \in Attempts |-> 0]
    /\ results = [a \in Attempts |-> <<>>]
    /\ seen = [a \in Attempts |-> {}]
    /\ runsTotal = [s \in Terminal |-> 0]

Next ==
    \/ \E a \in Attempts, e \in Execs : Start(a, e)
    \/ \E a \in Attempts : Step(a)
    \/ Shutdown
    \/ Exit
    \/ Boot
    \/ Tick

Spec == Init /\ [][Next]_vars
-----------------------------------------------------------------------------
(* Properties. *)

RowType == [exec : Execs, attempt : Attempts, status : Statuses,
            startedAt : Nat \cup {Null}, recordedAt : Nat]
CheckRowType == [exec : Execs, attempt : Attempts, check : CheckIds,
                 result : CheckResults, executedAt : Nat]

(* The type invariant.  A check result is only ever recorded for a check of
   the trigger's list. *)
TypeOK ==
    /\ execRows \subseteq RowType
    /\ checkRows \subseteq CheckRowType
    /\ clock \in Nat
    /\ engine \in {"up", "stopping", "down"}
    /\ pc \in [Attempts -> {"idle"} \cup InFlight \cup Returned]
    /\ exec \in [Attempts -> Execs \cup {Null}]
    /\ started \in [Attempts -> Nat]
    /\ stamp \in [Attempts -> Nat]
    /\ results \in [Attempts -> Seq(CheckResults)]
    /\ runsTotal \in [Terminal -> Nat]
    /\ \A a \in Attempts : pc[a] # "idle" =>
          /\ exec[a] \in Execs
          /\ Len(results[a]) <= Len(Checks[exec[a]])

(* The status a terminal row carries is the one its own attempt's durable
   check rows explain (runner.go:425-438, status.go:35-59): no check row at
   all and `error', or one for every check of the list and `success' exactly
   when all pass, `error' exactly when all are errors.  Lost writes, crashes
   and other attempts at the same execution never leave a terminal row whose
   checks are missing or say something else. *)
TerminalExplained ==
    \A r \in execRows : r.status # "running" =>
        LET joined == JoinedCheckRows(r) IN
        \/ joined = {} /\ r.status = "error"
        \/ /\ joined # {}
           /\ {c.check : c \in joined} = Range(Checks[r.exec])
           /\ r.status = "success" <=> \A c \in joined : c.result = "pass"
           /\ r.status = "error" <=> \A c \in joined : c.result = "error"

(* Alerts come after the rows they speak of (runner.go:417-421, 548-579,
   587-619): a runner alert has its check row or terminal row in the tables,
   with the same result, status and time.  And an attempt announces its end or
   its panic (handler.go:311-351), never both. *)
AlertsBacked ==
    \A e \in published :
        /\ e.source = "trigger_handler" =>
              \A f \in published :
                 (f.source = "runner" /\ f.check = Null) => f.attempt # e.attempt
        /\ (e.source = "runner" /\ e.check # Null) =>
              \E c \in checkRows :
                 /\ c.exec = e.exec /\ c.attempt = e.attempt /\ c.check = e.check
                 /\ c.result = e.result /\ c.executedAt = e.recordedAt
        /\ (e.source = "runner" /\ e.check = Null) =>
              \E r \in execRows :
                 /\ r.exec = e.exec /\ r.attempt = e.attempt
                 /\ r.status = e.status /\ r.recordedAt = e.recordedAt

(* The deduper (dedup.go:58-81) lets one alert per attempt, check and result
   through, also when the rule lists the same check id twice. *)
OneAlertPerFinding ==
    \A x, y \in published :
        (x.source = "runner" /\ y.source = "runner" /\ DedupKey(x) = DedupKey(y)) => x = y

(* What the canonical projection (schema.go:95-107) shows as running has not
   ended: when the running row of an attempt is the newest row of its execution,
   over all the attempts at it, and the attempt has its terminal row as well,
   then the two have the same time and the projection may show either.  This is
   for a wall clock that never runs backwards: one set back between the two rows
   shows the attempt as running for good. *)
ShownRunningIsOpen ==
    \A r \in execRows : (r.status = "running" /\ r \in CanonicalRows(r.exec)) =>
        \A s \in execRows :
            (s.attempt = r.attempt /\ s.status \in Terminal) => s \in CanonicalRows(r.exec)

(* dq_runs_total never counts a run that has no terminal row
   (runner.go:621-632: "a Store-write failure must not produce a metric without
   its backing row"). *)
MetricsBacked ==
    \A s \in Terminal : runsTotal[s] <= Cardinality({r \in execRows : r.status = s})

(* A terminal row closes its attempt: no later step adds a check row or an
   execution row of that attempt. *)
TerminalIsFinal ==
    [][\A a \in Attempts :
          (\E r \in execRows : r.attempt = a /\ r.status \in Terminal) =>
             /\ \A r \in execRows' \ execRows : r.attempt # a
             /\ \A c \in checkRows' \ checkRows : c.attempt # a]_vars
=============================================================================
