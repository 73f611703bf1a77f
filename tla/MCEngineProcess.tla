--------------------------- MODULE MCEngineProcess ---------------------------
(* One deployment of the engine: local, qa with its placeholders, prod
   provisioned; two starts, two requests. *)
EXTENDS EngineProcess

MCEnvConfigs ==
    ("local" :> [level |-> "info", placeholder |-> TRUE, topic |-> ""]) @@
    ("qa"    :> [level |-> "info", placeholder |-> TRUE, topic |-> "alerts"]) @@
    ("prod"  :> [level |-> "warn", placeholder |-> FALSE, topic |-> "alerts"])

Pair(pkg, level) == [colon |-> TRUE, pkg |-> pkg, level |-> level]

Overrides == << Pair(<<"engine">>, "warn"), Pair(<<"engine", "loader">>, "DEBUG"),
                Pair(<<"loader">>, "error"), Pair(<<"root">>, "error") >>

MCEnvironments ==
    {[name |-> "local", pairs |-> Overrides], [name |-> "prod", pairs |-> <<>>]} \cup
    [name : {"", "staging", "qa"}, pairs : {<<>>}] \cup
    {[name |-> "local", pairs |-> p] :
        p \in { << Pair(<<"engine">>, "warn"), Pair(<<"engine">>, "info") >>,
                << Pair(<<"engine", "">>, "warn") >>,
                << Pair(<<"engine">>, "loud") >>,
                << Pair(<<>>, "warn") >>,
                << [colon |-> FALSE, pkg |-> <<"engine">>, level |-> "warn"] >> }}

MCComponents ==
    { <<>>, <<"engine">>, <<"engine", "loader">>, <<"engine", "runner">>,
      <<"engine", "loader", "refresh">>, <<"tools", "lint">>, <<"root">> }

(* The fields of v and of va run into each other unless they are kept apart, and
   so would those of v and of v|a, had they pipes. *)
MCVersions   == {<<"v">>, <<"v", "a">>, <<"v", "|", "a">>}
MCEntitiesOf == (<<"v">> :> {<<"a", "b">>, <<"a", "|", "b">>}) @@
                (<<"v", "a">> :> {<<"b">>}) @@ (<<"v", "|", "a">> :> {<<"b">>})

MCInstants == 0 .. 3
MCFormat   == [n \in MCInstants |-> ToString(n)]

At(n)  == [shape |-> "calendar", at |-> n]
No(s)  == [shape |-> s, at |-> 0]

Good == [method |-> "POST", body |-> "json", fields |-> KnownTriggerFields, entity |-> <<"a", "b">>,
         start |-> At(1), end |-> At(2), source |-> <<"manual">>]

MCInputs ==
    { Good, [Good EXCEPT !.source = <<"scheduler">>], [Good EXCEPT !.end = At(3)],
      [Good EXCEPT !.start = At(2), !.end = At(3)], [Good EXCEPT !.entity = <<"b">>],
      [Good EXCEPT !.start = At(2)], [Good EXCEPT !.start = No("impossible")],
      [Good EXCEPT !.end = No("impossible")], [Good EXCEPT !.end = No("malformed")],
      [Good EXCEPT !.start = No("missing")], [Good EXCEPT !.entity = <<"a", "|", "b">>],
      [Good EXCEPT !.entity = <<"a", "b", "a", "b">>], [Good EXCEPT !.entity = <<"invalid">>],
      [Good EXCEPT !.entity = <<>>], [Good EXCEPT !.source = <<"operator-rerun">>],
      [Good EXCEPT !.method = "GET"], [Good EXCEPT !.fields = @ \cup {"mode"}],
      [Good EXCEPT !.body = "mistyped"], [Good EXCEPT !.body = "empty"] }

(* Triggers of every kind meet in the first service; its end and the second one go
   with Good, under the first version, and what a process that ends makes of it. *)
Plain(r) ==
    r = Unserved \/ (r.in = Good /\ r.version = <<"v">> /\ r.answer \in {Null, "200", "cut", "lost"})

VarietyApart == (boots = 1 /\ ~signalled) \/ \A q \in Requests : Plain(req[q])
=============================================================================
