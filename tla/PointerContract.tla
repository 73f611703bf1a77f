--------------------------- MODULE PointerContract ---------------------------
(***************************************************************************)
(* What the control plane promises, with the store calls, the generations  *)
(* read beforehand and the loader left out: the pointer is a log of        *)
(* verified manifests; a publish or rollback command appends to it at most *)
(* once, in one step, and then ends, and what it answers is true of that   *)
(* step; the engine serves entries of the log and never goes back to an    *)
(* earlier one, not even by restarting.                                    *)
(***************************************************************************)
EXTENDS Integers, Sequences

CONSTANTS
    Commands,      \* publish and rollback invocations
    Forensic,      \* the ones that answer what they replaced: the rollbacks
    Verified,      \* manifests that may be installed
    Compatible,    \* manifests the engine may serve
    Histories,     \* what the log may hold at first
    None

VARIABLES
    history,       \* the manifests installed so far
    ended,         \* commands that are over
    answer,        \* what a successful command said
    serving, at    \* the manifest the engine serves; its last position in the log

vars == <<history, ended, answer, serving, at>>

Latest == IF history = <<>> THEN None ELSE history[Len(history)]

(* The answer to installing m now. *)
Report(c, m) ==
    [installed  |-> m,
     generation |-> Len(history) + 1,
     replaced   |-> IF c \in Forensic THEN Latest ELSE None]

Init ==
    /\ history \in Histories
    /\ ended = {}
    /\ answer = [c \in Commands |-> None]
    /\ serving = None
    /\ at = 0

(* The command installs m.  Its answer may be lost. *)
Install(c, m) ==
    /\ c \notin ended
    /\ ended' = ended \cup {c}
    /\ history' = Append(history, m)
    /\ answer' \in {answer, [answer EXCEPT ![c] = Report(c, m)]}
    /\ UNCHANGED <<serving, at>>

(* The command ends without effect. *)
GiveUp(c) ==
    /\ c \notin ended
    /\ ended' = ended \cup {c}
    /\ UNCHANGED <<history, answer, serving, at>>

Serve(i) ==
    /\ at <= i
    /\ history[i] \in Compatible
    /\ serving' = history[i]
    /\ at' = i
    /\ UNCHANGED <<history, ended, answer>>

Stop ==
    /\ serving' = None
    /\ UNCHANGED <<history, ended, answer, at>>

Next ==
    \/ \E c \in Commands : GiveUp(c) \/ \E m \in Verified : Install(c, m)
    \/ \E i \in DOMAIN history : Serve(i)
    \/ Stop

Spec == Init /\ [][Next]_vars
=============================================================================
