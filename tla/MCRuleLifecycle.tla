--------------------------- MODULE MCRuleLifecycle ---------------------------
(* Rules around a well-formed one of every kind, and the workspaces, answers
   and windows that tell them apart. *)
EXTENDS RuleLifecycle, TLC

MCText == STRING
MCNames == {"e1", "e2", "e9", "", "bad name"}
MCIdents == {"e1", "e2", "c1"}

MCRoot == <<"rules">>
MCRuleDir == <<"rules", "team">>
MCLinks == (<<"rules", "team", "away">> :> <<"tmp", "x">>)
MCArtifacts ==
    (<<"rules", "team", "good">> :> [ext |-> "yaml", content |-> "object"]) @@
    (<<"rules", "team", "upper">> :> [ext |-> "JSON", content |-> "object"]) @@
    (<<"rules", "team", "scalar">> :> [ext |-> "json", content |-> "scalar"]) @@
    (<<"rules", "team", "garbage">> :> [ext |-> "yml", content |-> "garbage"]) @@
    (<<"rules", "other">> :> [ext |-> "yaml", content |-> "object"]) @@
    (<<"tmp", "x">> :> [ext |-> "yaml", content |-> "object"])
MCEstimate == ("" :> 3) @@ ("plain" :> 1) @@ ("digit" :> 1)

Ref(path) == [absolute |-> FALSE, path |-> path]
Refs == {Ref(<<n>>) : n \in {"good", "upper", "scalar", "garbage", "away", "absent"}} \cup
        {Ref(<<"..", "other">>), [absolute |-> TRUE, path |-> <<"good">>]}

Aggregations == {[fail |-> f, warn |-> w, sample |-> n] :
                    f \in {Null, 2}, w \in {Null, 1}, n \in {Null, 2}} \cup
                {[fail |-> 3, warn |-> Null, sample |-> 0], [fail |-> 1, warn |-> 2, sample |-> 2],
                 [fail |-> Null, warn |-> Null, sample |-> -1],
                 [fail |-> 1, warn |-> Null, sample |-> Huge]}

Static == [source |-> "static", window |-> Null, min |-> Null, aggregation |-> Null,
           value |-> 2, tolerance |-> "percent", allowed |-> 50]
History == [Static EXCEPT !.source = "platform_history", !.window = 1, !.aggregation = "mean",
                          !.value = Null, !.tolerance = "absolute", !.allowed = 1]
Baselines == {Static, History, [Static EXCEPT !.value = Null], [Static EXCEPT !.tolerance = "stddev"],
              [History EXCEPT !.window = Null], [History EXCEPT !.window = 0], [History EXCEPT !.window = Overflow],
              [History EXCEPT !.window = Malformed], [History EXCEPT !.aggregation = Null],
              [History EXCEPT !.min = 1], [History EXCEPT !.tolerance = "stddev", !.min = 1],
              [History EXCEPT !.min = Huge, !.allowed = Huge], [Static EXCEPT !.value = Huge],
              [Static EXCEPT !.allowed = Null], [Static EXCEPT !.source = "other"]}

Inline == [NoParams EXCEPT !.schema = "object"]
RecordParams ==
    {[NoParams EXCEPT !.schema = s] : s \in {"object", "uncompilable", "scalar"}} \cup
    {[NoParams EXCEPT !.schema_ref = r] : r \in Refs} \cup
    {[Inline EXCEPT !.aggregation = a] : a \in Aggregations} \cup
    {[Inline EXCEPT !.schema_ref = Ref(<<"good">>)], [Inline EXCEPT !.extra = TRUE],
     [Inline EXCEPT !.strayRef = TRUE]}
SetParams == {Null, NoParams, [NoParams EXCEPT !.extra = TRUE], [NoParams EXCEPT !.strayRef = TRUE]} \cup
             {[NoParams EXCEPT !.baseline = b] : b \in Baselines}

Check(kind, params) == [id |-> "c1", kind |-> kind, params |-> params]
SetKinds == {"set.row_count_positive", "set.row_count_within_baseline"}
Checks == {Check(k, p) : k \in SetKinds, p \in SetParams \cup {[NoParams EXCEPT !.schema_ref = Ref(<<"good">>)]}} \cup
          {Check("record.schema_conformance", p) : p \in RecordParams \cup {Null, NoParams}}
OddChecks == {Check(k, Null) : k \in {"set.unlisted", "record.unlisted", "row_count_positive", "unlisted", "Bad kind", "set.malformed", ""}}
             \cup {[Check("set.row_count_positive", Null) EXCEPT !.id = ""]}

BQ(table, column) == [type |-> "bigquery", table |-> table, column |-> column, topic |-> "", window |-> Null]
W(duration, lateness) == [type |-> "tumbling", duration |-> duration, lateness |-> lateness]
K(window) == [type |-> "kafka", table |-> "", column |-> "", topic |-> "ok", window |-> window]
SetSources == {BQ("ok", c) : c \in {"", "plain", "digit"}} \cup {BQ("long", "plain"), BQ("", ""), Null,
               [BQ("ok", "plain") EXCEPT !.window = W(1, 0)]}
RecordSources == {K(W(1, 0)), K(W(0, 1)), K(W(1, 2)), K(W(Overflow, 1)), K(W(1, Overflow)), K(W(Malformed, 0)), K(Null),
                  K([W(1, 0) EXCEPT !.type = "sliding"]), [K(W(1, 0)) EXCEPT !.table = "ok"]}

Rule(version, mode, source, checks) ==
    [version |-> version, entity |-> "e1", mode |-> mode, fields |-> {}, source |-> source, checks |-> checks]
SetRule == Rule(2, "set", BQ("ok", "plain"), <<Check("set.row_count_positive", Null)>>)
RecordRule == Rule(2, "record", K(W(1, 0)), <<Check("record.schema_conformance", Inline)>>)
V1Rule == Rule(1, "", Null, <<Check("row_count_positive", Null)>>)
Over == Check("record.schema_conformance", [Inline EXCEPT !.aggregation = [fail |-> 1, warn |-> 2, sample |-> 3]])

(* Every check under the source of its mode, every source under a plain check,
   and each remaining field away from its well-formed value. *)
Rules ==
    {[SetRule EXCEPT !.checks = <<c>>] : c \in {c \in Checks \cup OddChecks : Prefix(c.kind) # "record"}} \cup
    {[RecordRule EXCEPT !.checks = <<c>>] : c \in {c \in Checks \cup OddChecks : Prefix(c.kind) # "set"}} \cup
    {[V1Rule EXCEPT !.checks = <<c>>] :
        c \in OddChecks \cup {Check("set.row_count_positive", Null), Check("row_count_positive", NoParams)}} \cup
    {[r EXCEPT !.source = s] : r \in {SetRule, RecordRule, V1Rule}, s \in SetSources \cup RecordSources} \cup
    {[r EXCEPT !.mode = m] : r \in {SetRule, RecordRule, V1Rule}, m \in {"", "set", "record", "batch"}} \cup
    {[r EXCEPT !.version = v] : r \in {SetRule, RecordRule, V1Rule}, v \in 0 .. 3} \cup
    {[r EXCEPT !.fields = f] : r \in {SetRule, RecordRule, V1Rule},
                               f \in {{"description"}, {"schedule"}, {"colour"}}} \cup
    {[r EXCEPT !.entity = e] : r \in {SetRule, RecordRule, V1Rule}, e \in {"", "bad name"}} \cup
    {[r EXCEPT !.checks = <<>>] : r \in {SetRule, RecordRule, V1Rule}} \cup
    {[RecordRule EXCEPT !.checks = @ \o <<Over>>], [RecordRule EXCEPT !.checks = SetRule.checks],
     [SetRule EXCEPT !.checks = @ \o <<Check("set.unlisted", Null)>>]}

File(r) == [underscore |-> FALSE, readable |-> TRUE, decodes |-> TRUE, rule |-> r]
Named(r, e) == File([r EXCEPT !.entity = e])

Owned(mode1, owner) ==
    [state |-> "loaded", entities |-> [e \in {"e1", "e2"} |->
        [mode |-> IF e = "e1" THEN mode1 ELSE "", owner |-> owner]]]
Unowned(state) == [state |-> state, entities |-> <<>>]
WS == [catalog |-> "loaded", owners |-> Owned("", "team"), codeowners |-> "loaded", groups |-> {"team"},
       supported |-> {1, 2}, mirror |-> {1, 2}]
Workspaces ==
    {[WS EXCEPT !.catalog = c] : c \in {"loaded", "missing", "garbled", "invalid"}} \cup
    {[WS EXCEPT !.owners = o] : o \in {Owned("set", "team"), Owned("record", "team"), Owned("", "nobody"),
                                       Unowned("absent"), Unowned("invalid")}} \cup
    {[WS EXCEPT !.codeowners = "unreadable"], [WS EXCEPT !.groups = {}],
     [WS EXCEPT !.supported = {1}], [WS EXCEPT !.mirror = {1}]}

MCStarts ==
    {[files |-> <<File(r)>>, ws |-> WS] : r \in Rules} \cup
    {[files |-> f, ws |-> w] :
        f \in {<<>>, <<File(SetRule)>>, <<File(RecordRule)>>, <<File(V1Rule)>>,
               <<Named(RecordRule, "e1"), Named(SetRule, "e2")>>,
               <<File([RecordRule EXCEPT !.checks[1].params = [NoParams EXCEPT !.schema_ref = Ref(<<"good">>)]])>>},
        w \in Workspaces} \cup
    {[files |-> f, ws |-> WS] :
        f \in {<<File(SetRule), File(SetRule)>>,
               <<File(SetRule), [File(V1Rule) EXCEPT !.underscore = TRUE]>>,
               <<File(SetRule), [Named(V1Rule, "e9") EXCEPT !.underscore = TRUE]>>,
               <<Named(SetRule, "e2"), [File(SetRule) EXCEPT !.readable = FALSE]>>,
               <<Named(SetRule, "e2"), [File(SetRule) EXCEPT !.decodes = FALSE]>>,
               <<File(SetRule), [File(V1Rule) EXCEPT !.underscore = TRUE, !.decodes = FALSE]>>,
               <<File([SetRule EXCEPT !.source = BQ("ok", "")]), Named(SetRule, "e2")>>}}

ScheduledStarts == {[files |-> <<File([SetRule EXCEPT !.fields = {"schedule"}])>>, ws |-> WS]}

MCRevisions == {File([SetRule EXCEPT !.fields = {"colour"}]),
                File([RecordRule EXCEPT !.checks = <<Over>>])}

In(rows, history, records, violations, late) ==
    [fetched |-> TRUE, rows |-> rows, history |-> history,
     records |-> records, violations |-> violations, late |-> late]
MCAnswers ==
    {In(n, [samples |-> 1, baseline |-> 2], 0, 0, 0) : n \in {Null, 0, 3}} \cup
    {In(3, Null, 0, 0, 0), [In(3, Null, 0, 0, 0) EXCEPT !.fetched = FALSE]}
MCWindows == {In(Null, Null, 3, v, 0) : v \in 0 .. 3} \cup {In(Null, Null, 0, 0, l) : l \in 0 .. 1}
=============================================================================
