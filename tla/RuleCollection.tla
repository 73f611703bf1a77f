--------------------------- MODULE RuleCollection ----------------------------
(***************************************************************************)
(* tools/manifest, before the first object is written: the discovery of    *)
(* the rule files, the inlining of external references and the             *)
(* verifications of Publish.  A checkout is a sequence of files in walk    *)
(* order; the upload that follows is module Publication.                   *)
(***************************************************************************)
EXTENDS Linter

FileType == [underscore : BOOLEAN, readable : BOOLEAN, decodes : BOOLEAN, rule : RuleType]

BodiesType == UNION {[E -> RuleType] : E \in SUBSET Names}

(* A missing catalog gives no eligible kind, and so no inlining at all. *)
Inlines(c, ws) == ws.catalog # "missing" /\ ExternalEligible(c.kind) /\ c.params # Null

resolveCheckParams(p) ==
    /\ ~p.strayRef
    /\ p.schema_ref # Null => p.schema = Null /\ PublisherReads(p.schema_ref)

(* The reference key stays beside the content. *)
InlinedBeside(c, ws) ==
    IF Inlines(c, ws) /\ c.params.schema_ref # Null
    THEN [c EXCEPT !.params.schema = Artifact(c.params.schema_ref).content] ELSE c

InlinedCheck(c, ws) ==
    IF Inlines(c, ws) /\ c.params.schema_ref # Null
    THEN [c EXCEPT !.params.schema = Artifact(c.params.schema_ref).content,
                   !.params.schema_ref = Null]
    ELSE c

inlineExternalRefs(r, ws) ==
    [r EXCEPT !.checks = [i \in DOMAIN r.checks |-> InlinedCheck(r.checks[i], ws)]]

(* Exit status one file of the walk stops with, or 0. *)
CollectExit(f, ws) ==
    IF ~Loads(f) THEN 2
    ELSE IF \/ f.rule.entity = "" \/ f.rule.version = 0
            \/ \E i \in DOMAIN f.rule.checks :
                  LET c == f.rule.checks[i] IN Inlines(c, ws) /\ ~resolveCheckParams(c.params)
         THEN 1 ELSE 0

(* The places in the walk of the files that are rules. *)
Collected(files) == {i \in DOMAIN files : ~files[i].underscore}

rejectDuplicateEntities(files) ==
    \A i, j \in Collected(files) : files[i].rule.entity = files[j].rule.entity => i = j

observedSchemaVersions(files) == {files[i].rule.version : i \in Collected(files)}

(* Exit status of the verification half of Publish, the first failure first. *)
PublishExit(files, ws) ==
    LET stops == {i \in Collected(files) : CollectExit(files[i], ws) # 0}
    IN IF ws.catalog = "garbled" THEN 2
       ELSE IF stops # {} THEN CollectExit(files[Min(stops)], ws)
       ELSE IF /\ Collected(files) # {}
               /\ rejectDuplicateEntities(files)
               /\ observedSchemaVersions(files) \subseteq ws.supported
               /\ observedSchemaVersions(files) \subseteq ws.mirror
            THEN 0 ELSE 1

(* The published bodies, by entity. *)
ManifestOf(files, ws) ==
    LET rules == RuleFiles(Range(files)) IN
    [e \in {f.rule.entity : f \in rules} |->
        inlineExternalRefs((CHOOSE f \in rules : f.rule.entity = e).rule, ws)]
=============================================================================
