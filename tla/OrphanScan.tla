----------------------------- MODULE OrphanScan -----------------------------
(***************************************************************************)
(* The detector beside executions that keep the contract it is written     *)
(* for: a `running' row carries started_at (results.go:58-71), a terminal  *)
(* row is newer than the running row it ends, an engine needs at most      *)
(* MaxDuration for an execution, and the threshold is at least that        *)
(* (orphan.go:82-87).  The executions are an environment and not the       *)
(* engine's runner, whose running row has no started_at (runner.go:517):   *)
(* that one is composed with the detector in ExecutionLifecycle.  An       *)
(* execution here is one whose running row was written.                    *)
(***************************************************************************)
EXTENDS OrphanDetector

CONSTANTS
    Attempts, Execs,
    ExecOf,                \* ExecOf[a]: the execution attempt a belongs to
    MaxDuration,           \* the longest an attempt lives
    LastStart,             \* no attempt starts later than this
    MaxTime                \* bound on the clock

ASSUME ExecOfAssumption   == ExecOf \in [Attempts -> Execs]
ASSUME DurationAssumption == MaxDuration \in Nat /\ Threshold >= MaxDuration
ASSUME TimeAssumption     == /\ LastStart \in Nat /\ MaxTime \in Nat
                             /\ Null \notin Nat

VARIABLES
    life,                  \* new, live, finished or abandoned
    started                \* when the attempt started

vars == <<detectorVars, storeVars, published, life, started>>

Row(a, status) ==
    [exec |-> ExecOf[a], attempt |-> a, status |-> status,
     startedAt |-> started'[a], recordedAt |-> clock]

Begin(a) ==
    /\ life[a] = "new"
    /\ clock <= LastStart
    /\ life' = [life EXCEPT ![a] = "live"]
    /\ started' = [started EXCEPT ![a] = clock]
    /\ WriteExecutionRow(Row(a, "running"), "ok")
    /\ UNCHANGED <<detectorVars, checkRows, clock, published>>

Finish(a) ==
    /\ life[a] = "live"
    /\ clock > started[a]
    /\ life' = [life EXCEPT ![a] = "finished"]
    /\ UNCHANGED started
    /\ WriteExecutionRow(Row(a, "success"), "ok")
    /\ UNCHANGED <<detectorVars, checkRows, clock, published>>

Abandon(a) ==
    /\ life[a] = "live"
    /\ life' = [life EXCEPT ![a] = "abandoned"]
    /\ UNCHANGED <<detectorVars, storeVars, published, started>>

Tick ==
    /\ clock < MaxTime
    /\ \A a \in Attempts : life[a] = "live" => clock < started[a] + MaxDuration
    /\ clock' = clock + 1
    /\ UNCHANGED <<detectorVars, execRows, checkRows, copies, published, life, started>>

Init ==
    /\ DetectorInit
    /\ execRows = {} /\ checkRows = {} /\ copies = EmptyBag /\ clock = 0 /\ published = {}
    /\ life = [a \in Attempts |-> "new"]
    /\ started = [a \in Attempts |-> 0]

Next ==
    \/ \E a \in Attempts : Begin(a) \/ Finish(a) \/ Abandon(a)
    \/ Tick
    \/ DetectorStep /\ UNCHANGED <<life, started>>

(* Attempts end; the loop's ticker goes on; a pass ends; and a store that is
   asked again and again does not fail for ever. *)
Fairness ==
    /\ WF_vars(Tick)
    /\ \A a \in Attempts : WF_vars(Finish(a) \/ Abandon(a))
    /\ WF_vars(Scan /\ UNCHANGED <<life, started>>)
    /\ WF_vars(EndPass /\ UNCHANGED <<life, started>>)
    /\ SF_vars(\E row \in candidates : Finalize(row, "ok") /\ UNCHANGED <<life, started>>)

Spec == Init /\ [][Next]_vars
FairSpec == Spec /\ Fairness

-----------------------------------------------------------------------------
TypeOK ==
    /\ execRows \subseteq [exec : Execs, attempt : Attempts, status : Statuses,
                           startedAt : Nat, recordedAt : Nat]
    /\ checkRows = {}
    /\ clock \in Nat
    /\ scanning \in BOOLEAN
    /\ candidates \subseteq execRows
    /\ life \in [Attempts -> {"new", "live", "finished", "abandoned"}]
    /\ started \in [Attempts -> Nat]

(* Only an attempt nobody is working on any more is aborted.  The pass does not
   look again before it writes (orphan.go:171-187), so this rests on the
   threshold: an attempt that can be listed can no longer be at work. *)
OnlyAbandonedAborted ==
    \A r \in execRows : r.status = "aborted" => life[r.attempt] = "abandoned"

(* An execution is finalized once: after an `aborted' row, acknowledged or not,
   the canonical row is no longer `running' and no later pass lists it
   (schema.go:116-121: "prevents the orphan detector from re-finalizing
   already-finalized rows"). *)
FinalizedOnce ==
    \A r, s \in execRows :
        (r.status = "aborted" /\ s.status = "aborted" /\ r.attempt = s.attempt) => r = s

(* An operational alert of the detector always has its aborted row. *)
AbortAlertBacked ==
    \A e \in published : \E r \in execRows :
        r.attempt = e.attempt /\ r.status = "aborted" /\ r.recordedAt = e.recordedAt

(* An execution whose latest row is the `running' row of an abandoned attempt
   does not stay so: the detector supersedes it, or a later row already has
   (ADR-0007 CC10/CC11).  Rows with equal times supersede each other. *)
OrphansFinalized ==
    \A a \in Attempts :
        (life[a] = "abandoned") ~>
            (\E r \in CanonicalRows(ExecOf[a]) : r.attempt # a \/ r.status # "running")
=============================================================================
