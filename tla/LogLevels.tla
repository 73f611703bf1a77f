----------------------------- MODULE LogLevels -------------------------------
(***************************************************************************)
(* DQ_LOG_LEVELS: how engine/internal/logging parses it and how a logger   *)
(* finds its level.  A package name is the sequence of its dot-separated   *)
(* segments; a raw value is the sequence of its comma-separated pairs.     *)
(***************************************************************************)
EXTENDS Integers, Sequences, Functions, TLC

CONSTANT LogIdents          \* the segments that match identPattern

(* One comma-separated pair: whether it has a ":", and what is on its two sides. *)
PairType == [colon : BOOLEAN, pkg : Seq(STRING), level : STRING]

(* slog's levels, and the spellings parseLevel takes for them. *)
Levels == ("debug" :> -4) @@ ("DEBUG" :> -4) @@ ("info" :> 0) @@ ("warn" :> 4) @@ ("error" :> 8)

ConfigLevels == {"debug", "info", "warn", "error"}     \* LogLevel.Slog

(* What is right with one pair: a separator, a package, a level. *)
PairParses(pair) ==
    /\ pair.colon
    /\ pair.pkg # <<>>
    /\ Range(pair.pkg) \subseteq LogIdents
    /\ pair.level \in DOMAIN Levels

(* Every pair parses and no package appears twice.  The unset variable is the
   empty sequence. *)
LogLevelsParse(raw) ==
    /\ \A i \in DOMAIN raw : PairParses(raw[i])
    /\ \A i, j \in DOMAIN raw : raw[i].pkg = raw[j].pkg => i = j

(* The map ParseLogLevels returns: packages outside the inventory included. *)
ParseLogLevels(raw) ==
    [p \in {raw[i].pkg : i \in DOMAIN raw} |->
        Levels[raw[CHOOSE i \in DOMAIN raw : raw[i].pkg = p].level]]

(* NewHandler: an entry for root replaces the environment's level. *)
RootLevel(levels, default) ==
    IF <<"root">> \in DOMAIN levels THEN levels[<<"root">>] ELSE default

(* A package is a prefix of a component, at dot boundaries. *)
Covers(package, component) ==
    Len(package) <= Len(component) /\ SubSeq(component, 1, Len(package)) = package

(* Segments dropped from the front. *)
resolveSuffix(levels, root, component) ==
    LET level[n \in 0 .. Len(component)] ==
            LET name == SubSeq(component, Len(component) - n + 1, Len(component))
            IN  IF n = 0 THEN root
                ELSE IF name \in DOMAIN levels THEN levels[name] ELSE level[n - 1]
    IN  level[Len(component)]

(* resolveLevel: the component itself, then without its last segment, and so
   on; a logger without a component is the empty sequence. *)
resolveLevel(levels, root, component) ==
    LET level[n \in 0 .. Len(component)] ==
            LET name == SubSeq(component, 1, n)
            IN  IF n = 0 THEN root
                ELSE IF name \in DOMAIN levels THEN levels[name] ELSE level[n - 1]
    IN  level[Len(component)]
=============================================================================
