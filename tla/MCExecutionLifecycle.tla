------------------------ MODULE MCExecutionLifecycle ------------------------
(* One attempt at an execution with one check; the clock outruns the
   threshold, so that a row with a start time would be listed. *)
EXTENDS ExecutionLifecycle, TLC

CONSTANTS e1, c1

MCChecks == e1 :> <<c1>>
=============================================================================
