--------------------------- MODULE RunnerContract ----------------------------
(***************************************************************************)
(* Runner implements AttemptContract: the reader's view of an attempt is   *)
(* read off the append-only tables, never off the engine's memory.         *)
(***************************************************************************)
EXTENDS Runner

AttemptRows(a) == {r \in execRows : r.attempt = a}
ClosedBy(a)    == {r \in AttemptRows(a) : r.status # "running"}

ExecOf(a)     == IF AttemptRows(a) = {} THEN Null ELSE (CHOOSE r \in AttemptRows(a) : TRUE).exec
StageOf(a)    == IF AttemptRows(a) = {} THEN "absent"
                 ELSE IF ClosedBy(a) = {} THEN "open" ELSE "closed"
FindingsOf(a) == {[check |-> c.check, result |-> c.result] :
                    c \in {d \in checkRows : d.attempt = a}}
VerdictOf(a)  == IF ClosedBy(a) = {} THEN Null ELSE (CHOOSE r \in ClosedBy(a) : TRUE).status

CheckList == [e \in Execs |-> Range(Checks[e])]

Contract == INSTANCE AttemptContract
    WITH of       <- [a \in Attempts |-> ExecOf(a)],
         stage    <- [a \in Attempts |-> StageOf(a)],
         findings <- [a \in Attempts |-> FindingsOf(a)],
         verdict  <- [a \in Attempts |-> VerdictOf(a)],
         None     <- Null

(* Runner.Run keeps the contract of the tables (runner.go:298-438): through lost
   and ambiguous inserts, crashes, cancellation, panics and any number of
   attempts at the same execution, each step leaves an attempt as the reader sees
   it or moves it one step on: opened, one finding more, closed once on a
   verdict its findings account for, or refused. *)
KeepsContract == Contract!Spec
=============================================================================
