--------------------------- MODULE AttemptContract ---------------------------
(***************************************************************************)
(* What the result tables promise a reader about one attempt, whatever     *)
(* happens inside the engine.  An attempt is first seen open, gathers      *)
(* findings while it is open, and is closed at most once, with a verdict   *)
(* its findings account for; or it is first seen closed, refused before    *)
(* any check.  An attempt may stay open for good.                          *)
(***************************************************************************)
CONSTANTS Attempts, Execs, CheckIds, CheckResults, None,
          CheckList          \* the checks of each execution, as a set

VARIABLES
    of,                      \* the execution an attempt belongs to, once visible
    stage,                   \* absent, open or closed
    findings,                \* the attempt's findings so far
    verdict                  \* its verdict, once closed

contract == <<of, stage, findings, verdict>>

Verdicts == {"success", "failed", "error"}
Findings == [check : CheckIds, result : CheckResults]

(* A verdict on a complete list of findings, or `error' without any. *)
Accounts(e, fs, v) ==
    \/ fs = {} /\ v = "error"
    \/ /\ fs # {}
       /\ {f.check : f \in fs} = CheckList[e]
       /\ v \in Verdicts
       /\ v = "success" <=> \A f \in fs : f.result = "pass"
       /\ v = "error" <=> \A f \in fs : f.result = "error"

Open(a, e) ==
    /\ stage[a] = "absent"
    /\ stage' = [stage EXCEPT ![a] = "open"]
    /\ of' = [of EXCEPT ![a] = e]
    /\ UNCHANGED <<findings, verdict>>

Find(a, f) ==
    /\ stage[a] = "open"
    /\ f.check \in CheckList[of[a]]
    /\ findings' = [findings EXCEPT ![a] = @ \cup {f}]
    /\ UNCHANGED <<of, stage, verdict>>

Close(a, v) ==
    /\ stage[a] = "open"
    /\ Accounts(of[a], findings[a], v)
    /\ stage' = [stage EXCEPT ![a] = "closed"]
    /\ verdict' = [verdict EXCEPT ![a] = v]
    /\ UNCHANGED <<of, findings>>

Refuse(a, e) ==
    /\ stage[a] = "absent"
    /\ findings[a] = {}
    /\ stage' = [stage EXCEPT ![a] = "closed"]
    /\ of' = [of EXCEPT ![a] = e]
    /\ verdict' = [verdict EXCEPT ![a] = "error"]
    /\ UNCHANGED findings

Init ==
    /\ of = [a \in Attempts |-> None]
    /\ stage = [a \in Attempts |-> "absent"]
    /\ findings = [a \in Attempts |-> {}]
    /\ verdict = [a \in Attempts |-> None]

Next ==
    \E a \in Attempts :
        \/ \E e \in Execs : Open(a, e) \/ Refuse(a, e)
        \/ \E f \in Findings : Find(a, f)
        \/ \E v \in Verdicts : Close(a, v)

Spec == Init /\ [][Next]_contract
=============================================================================
