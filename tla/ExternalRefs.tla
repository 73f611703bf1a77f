----------------------------- MODULE ExternalRefs ----------------------------
(***************************************************************************)
(* tools/pathsafe and the reading of a referenced artifact by the linter   *)
(* and by the publisher.  A path is a sequence of names; a reference is a  *)
(* relative one, taken from the directory of the rule file.                *)
(***************************************************************************)
EXTENDS RuleSpec, FiniteSetsExt

CONSTANTS
    Root,        \* the rules directory, canonical
    RuleDir,     \* the directory of the rule files, canonical
    Links,       \* symbolic links: path -> canonical path
    Artifacts    \* canonical path -> [ext, content] of the files that exist

(* External: filepath.EvalSymlinks of a path whose last name may be a link. *)
EvalSymlinks(path) == IF path \in DOMAIN Links THEN Links[path] ELSE path

Within(dir, path) == Len(dir) <= Len(path) /\ SubSeq(path, 1, Len(dir)) = dir

Resolves(ref) ==
    /\ ~ref.absolute
    /\ ".." \notin Range(ref.path)
    /\ LET resolved == EvalSymlinks(RuleDir \o ref.path)
       IN resolved \in DOMAIN Artifacts /\ Within(Root, resolved)

Artifact(ref) == Artifacts[EvalSymlinks(RuleDir \o ref.path)]

(* parseExternalArtifact of tools/lint: the suffix is case sensitive. *)
LintReads(ref) ==
    /\ Resolves(ref)
    /\ Artifact(ref).ext \in {"json", "yaml", "yml"}
    /\ Artifact(ref).content # "garbage"

(* parseExternalArtifact of tools/manifest: the extension is lower-cased. *)
PublisherReads(ref) ==
    /\ Resolves(ref)
    /\ Artifact(ref).ext \in {"json", "yaml", "yml", "JSON"}
    /\ Artifact(ref).content # "garbage"
=============================================================================
