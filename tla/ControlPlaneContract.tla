------------------------- MODULE ControlPlaneContract ------------------------
(***************************************************************************)
(* ControlPlane implements PointerContract.  Which version of the pointer  *)
(* the engine serves is not in its state, since two versions may name the  *)
(* same manifest; two history variables record it and constrain nothing.   *)
(***************************************************************************)
EXTENDS ControlPlane

VARIABLES
    readAt,        \* the pointer's generation when the loader last read it
    heldAt         \* the version behind the manifest last put in the holder

historyVars == <<readAt, heldAt>>
allVars     == <<cpVars, historyVars>>

HistoryInit == Init /\ readAt = 0 /\ heldAt = 0

HistoryNext ==
    \/ CLIStep /\ UNCHANGED historyVars
    \/ RequestStep /\ UNCHANGED historyVars
    \/ (Boot \/ RefreshTick \/ LoadFails \/ Crash) /\ UNCHANGED historyVars
    \/ ReadPointer /\ readAt' = Generation /\ UNCHANGED heldAt
    \/ FetchAndVerify /\ heldAt' = readAt /\ UNCHANGED readAt

HistorySpec     == HistoryInit /\ [][HistoryNext]_allVars
FairHistorySpec == HistorySpec /\ Fairness

-----------------------------------------------------------------------------
Over == {"done", "dryrun", "rejected", "precondition_failed", "failed"}

(* Result.PointerGen, or RollbackResult with PostPointerGen and PriorHash. *)
AnswerOf(x) ==
    IF pc[x] # "done" THEN Null
    ELSE [installed  |-> Proposed(x),
          generation |-> expectedGen[x] + 1,
          replaced   |-> IF x \in Rollbacks THEN prior[x] ELSE Null]

Contract == INSTANCE PointerContract
    WITH Commands <- Procs,
         Forensic <- Rollbacks,
         None     <- Null,
         history  <- versions,
         ended    <- {x \in Procs : pc[x] \in Over},
         answer   <- [x \in Procs |-> AnswerOf(x)],
         serving  <- active,
         at       <- heldAt

(* Publish, Rollback.Execute and the loader together keep the contract of the
   pointer (publisher.go:160-327, rollback.go:116-198, loader.go:163-208):
   though a command reads the generation, and a rollback the pointer it replaces,
   in calls of their own before the write, and though the engine fetches a body
   long after it read the pointer and forgets everything when it restarts, each
   command takes effect at one instant and answers what was true at it, and the
   engine never returns to an older version of the pointer. *)
KeepsPointerContract == Contract!Spec
=============================================================================
