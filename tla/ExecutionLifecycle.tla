------------------------- MODULE ExecutionLifecycle -------------------------
(***************************************************************************)
(* The engine process: attempts (Runner), the orphan scan loop             *)
(* (OrphanDetector) and the loop that samples dq_queue_depth, over the     *)
(* same tables.  When the process stops, all of it stops; the tables and   *)
(* the alerts remain.                                                      *)
(***************************************************************************)
EXTENDS Runner, OrphanDetector

VARIABLE queueDepth        \* dq_queue_depth{state="running"}

engineVars == <<vars, detectorVars, queueDepth>>

(* schedulerProxyMetricsLoop; a failed query keeps the gauge. *)
SampleQueueDepth ==
    /\ engine = "up"
    /\ \E view \in CurrentViews : queueDepth' = CountRunningExecutions(view)
    /\ UNCHANGED <<vars, detectorVars>>

RunnerPart ==
    /\ \/ \E a \in Attempts, e \in Execs : Start(a, e)
       \/ \E a \in Attempts : Step(a)
       \/ Shutdown
       \/ Boot
       \/ Tick
    /\ UNCHANGED <<detectorVars, queueDepth>>

DetectorPart ==
    /\ engine = "up"
    /\ DetectorStep
    /\ UNCHANGED <<runnerVars, queueDepth>>

ProcessExit ==
    /\ Exit
    /\ scanning' = FALSE
    /\ candidates' = {}
    /\ queueDepth' = 0

EngineInit == Init /\ DetectorInit /\ queueDepth = 0

EngineNext == RunnerPart \/ DetectorPart \/ ProcessExit \/ SampleQueueDepth

(* Goroutines run, the supervisor restarts the process, the two loops keep
   ticking, and the store does not fail for ever. *)
EngineFairness ==
    /\ WF_engineVars(Boot /\ UNCHANGED <<detectorVars, queueDepth>>)
    /\ WF_engineVars(Tick /\ UNCHANGED <<detectorVars, queueDepth>>)
    /\ WF_engineVars(SampleQueueDepth)
    /\ \A a \in Attempts : WF_engineVars(Step(a) /\ UNCHANGED <<detectorVars, queueDepth>>)
    /\ WF_engineVars(engine = "up" /\ (Scan \/ EndPass) /\ UNCHANGED <<runnerVars, queueDepth>>)
    /\ SF_engineVars(/\ engine = "up"
                     /\ \E row \in candidates : Finalize(row, "ok")
                     /\ UNCHANGED <<runnerVars, queueDepth>>)

EngineSpec == EngineInit /\ [][EngineNext]_engineVars /\ EngineFairness

-----------------------------------------------------------------------------
(* What orphan.go:9-12 says the detector is for: once the engine stays up, an
   execution that a crash left `running' is finalized.  Violated: the runner
   writes its `running' row without started_at (runner.go:517) and the scan
   asks for started_at IS NOT NULL (schema.go:141).  Attempts that start so
   late that the bounded clock never passes the threshold are left out. *)
CrashesAreFinalized ==
    <>[](engine = "up") =>
        \A a \in Attempts :
            (/\ pc[a] = "dead" /\ BuildRunningRow(a) \in execRows
             /\ started[a] + Threshold < MaxTime) ~>
                (\E r \in CanonicalRows(exec[a]) : r.attempt # a \/ r.status # "running")
=============================================================================
