------------------------------ MODULE MCRunner ------------------------------
(* Instances of Runner and of the history query over its tables: attempts that
   share an execution, a check list that names a check twice, an empty one. *)
EXTENDS Baseline, RunnerContract, TLC

CONSTANTS e1, e2, e3, c1

MCChecks == (e1 :> <<c1>>) @@ (e2 :> <<c1, c1>>) @@ (e3 :> <<>>)
PairChecks == (e1 :> <<c1>>) @@ (e2 :> <<>>)

(* Bound: the attempt that runs the longer list runs beside none that has checks
   of another execution to run. *)
LongListApart == \A a, b \in Attempts : a # b /\ exec[a] = e2 => exec[b] \in {Null, e3}

(* Bound: a panic after the first result, and a table that holds a row twice, are
   looked at with a single attempt at work. *)
MishapsApart ==
    (Repeats > 0 \/ \E a \in Attempts : pc[a] = "panicked" /\ results[a] # <<>>) =>
        Cardinality({a \in Attempts : pc[a] # "idle"}) = 1

AttemptSymmetry == Permutations(Attempts)
=============================================================================
