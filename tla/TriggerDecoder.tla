--------------------------- MODULE TriggerDecoder ----------------------------
(***************************************************************************)
(* What becomes of a POST body before the runner sees it: the strict       *)
(* decoder (engine/internal/api/decoder.go), the execution_id formula      *)
(* (engine/internal/runner/execution_id.go), the trigger checks the runner *)
(* makes again (runner.go validateTrigger) and the publisher's check of    *)
(* the version that goes into the formula.                                 *)
(*                                                                         *)
(* A string that the formula joins is the sequence of its symbols, so that *)
(* "|" inside one shows.  A timestamp is its shape and, if it names a      *)
(* date, its second.  SHA-256 is taken for injective.                      *)
(***************************************************************************)
EXTENDS Integers, Sequences, FiniteSetsExt

CONSTANTS
    MaxStringFieldLen,   \* maxStringFieldLen, in symbols
    Instants,            \* the seconds a date names; 0 is the zero time
    Format               \* the text time.Format gives a second under timestampLayout

ASSUME DecoderAssumption == MaxStringFieldLen \in Nat

(* The layout gives every second a text of its own, in which there is no "|". *)
ASSUME FormatAssumption ==
    /\ Instants \subseteq Int /\ 0 \in Instants
    /\ Format \in [Instants -> STRING]
    /\ \A m, n \in Instants : Format[m] = Format[n] => m = n
    /\ \A n \in Instants : Format[n] # "|"

(* "calendar" is a date; "impossible" has the digits of one (the 30th of
   February) and matches timestampPattern, which counts digits only.  A bound
   over the length ceiling is malformed too: both are answered 400. *)
Shapes == {"missing", "malformed", "impossible", "calendar"}

BoundType == [shape : Shapes, at : Instants]

(* A request as it comes in: its method, whether its body is JSON, the keys of
   the object and the values of the four that are known. *)
RequestType == [method : STRING, body : STRING, fields : SUBSET STRING, entity : Seq(STRING),
                start : BoundType, end : BoundType, source : Seq(STRING)]

KnownTriggerFields == {"entity", "window_start", "window_end", "trigger_source"}

HasPipe(s) == "|" \in Range(s)

(* time.Parse, its error dropped: the zero time when the value is no date. *)
Parsed(t) == IF t.shape = "calendar" THEN t.at ELSE 0

(* encoding/json puts U+FFFD where the body is not UTF-8. *)
Unmarshal(s) == [i \in DOMAIN s |-> IF s[i] = "invalid" THEN "replacement" ELSE s[i]]

Refusal(code, refused) == [code |-> code, refused |-> refused]

(* The code of the first check that refuses, or "ok". *)
FirstRefusal(checks) ==
    LET refusing == {i \in DOMAIN checks : checks[i].refused}
    IN  IF refusing = {} THEN "ok" ELSE checks[Min(refusing)].code

(* Equal bounds taken for a window. *)
WindowNotReversed(req) == Parsed(req.end) >= Parsed(req.start)

WindowOrdered(req) == Parsed(req.end) > Parsed(req.start)

validate(req) ==
    FirstRefusal(<<
        Refusal("MISSING_FIELD", req.entity = <<>>),
        Refusal("MISSING_FIELD", "missing" \in {req.start.shape, req.end.shape}),
        Refusal("MISSING_FIELD", req.source = <<>>),
        Refusal("INVALID_UTF8", "invalid" \in Range(req.entity)),
        Refusal("INVALID_FIELD_LENGTH", Len(req.entity) > MaxStringFieldLen),
        Refusal("INVALID_FIELD_LENGTH", Len(req.source) > MaxStringFieldLen),
        Refusal("PIPE_IN_INPUT", HasPipe(req.entity)),
        Refusal("INVALID_WINDOW_FORMAT", "malformed" \in {req.start.shape, req.end.shape}),
        Refusal("INVALID_WINDOW_ORDER", ~WindowOrdered(req)),
        Refusal("INVALID_TRIGGER_SOURCE", req.source \notin {<<"scheduler">>, <<"manual">>}) >>)

(* The typed request of a body that is a JSON object. *)
Typed(in) == [entity |-> Unmarshal(in.entity), start |-> in.start, end |-> in.end,
              source |-> Unmarshal(in.source)]

DecodeRequest(in) ==
    LET syntax == FirstRefusal(<<
                      Refusal("DECODE_ERROR", in.body \in {"unreadable", "empty", "not_json"}),
                      Refusal("UNKNOWN_FIELD", ~(in.fields \subseteq KnownTriggerFields)),
                      Refusal("DECODE_ERROR", in.body = "mistyped") >>)
    IN  IF syntax = "ok" THEN validate(Typed(in)) ELSE syntax

(* mustParseValidatedWindow panics. *)
WindowPanics(req) == "impossible" \in {req.start.shape, req.end.shape}

-----------------------------------------------------------------------------
(* The formula. *)

(* The window bound as it is formatted: in whole seconds. *)
Truncated(ms) == Format[ms \div 1000]

pipeSeparator == <<"|">>

(* The fields joined without a separator. *)
JoinedUnseparated(version, entity, start, end, source) ==
    version \o entity \o <<Truncated(start)>> \o <<Truncated(end)>> \o source

(* The string that is hashed; the window in milliseconds. *)
Joined(version, entity, start, end, source) ==
    version \o pipeSeparator \o entity \o pipeSeparator
        \o <<Truncated(start)>> \o pipeSeparator \o <<Truncated(end)>> \o pipeSeparator \o source

ComputeFails(version, entity, source) ==
    \E s \in {version, entity, source} : HasPipe(s)

ExecutionID(version, req) ==
    Joined(version, req.entity, 1000 * Parsed(req.start), 1000 * Parsed(req.end), req.source)

(* What Run checks of the request it is handed; an HTTP trigger supersedes
   nothing. *)
validateTrigger(req) ==
    /\ req.entity # <<>>
    /\ req.source \in {<<"scheduler">>, <<"manual">>}
    /\ Parsed(req.end) > Parsed(req.start)

(* publisher.New without the check of the version for a pipe. *)
PublishesAnyVersion(version) == version # <<>>

(* publisher.New, what it asks of the version. *)
PublishesVersion(version) == version # <<>> /\ ~HasPipe(version)
=============================================================================
