----------------------------- MODULE Publication -----------------------------
(***************************************************************************)
(* tools/manifest: Publisher.Publish and Rollback.Execute against one      *)
(* bucket.                                                                 *)
(*                                                                         *)
(* Objects are content addressed, so an object is its hash: Yamls and      *)
(* Manifests are the hashes, and the sets `yamls' and `bodies' say which   *)
(* objects exist.  The pointer manifests/latest.json is the one mutable    *)
(* object; `versions' holds every value it has had, so its generation is   *)
(* the length and its value the last element.  Publishers and rollbacks    *)
(* are separate CLI processes that share nothing but the bucket; each      *)
(* store call is one step, and a process may fail at any of them.          *)
(***************************************************************************)
EXTENDS Integers, Sequences, FiniteSets

CONSTANTS
    Publishers, Rollbacks,     \* CLI invocations
    Manifests, Yamls,          \* hashes
    Null,
    ManifestOf,                \* ManifestOf[p]: the manifest p computes from its checkout
    YamlsOf,                   \* YamlsOf[m]: the rule bodies m refers to
    Verified,                  \* the manifests that pass the pre-publish verifications
    Histories                  \* values the pointer may have had before: completed publications

ASSUME PublicationAssumption ==
    /\ ManifestOf \in [Publishers -> Manifests]
    /\ YamlsOf \in [Manifests -> SUBSET Yamls]
    /\ Verified \subseteq Manifests
    /\ Histories \subseteq Seq(Verified)
    /\ Null \notin Manifests
    /\ Publishers \cap Rollbacks = {}

VARIABLES
    yamls, bodies, versions,   \* the bucket
    pc,                        \* where each process is
    todo,                      \* rule bodies a publisher has still to write
    target,                    \* the manifest a rollback was asked for
    expectedGen,               \* the generation a process read
    prior                      \* the pointer a rollback read, for its report

bucket  == <<yamls, bodies, versions>>
pubVars == <<bucket, pc, todo, target, expectedGen, prior>>

Procs == Publishers \cup Rollbacks

Generation == Len(versions)
Pointer    == IF versions = <<>> THEN Null ELSE versions[Len(versions)]

(* The manifest a process points the pointer at. *)
Proposed(x) == IF x \in Publishers THEN ManifestOf[x] ELSE target[x]

Goto(x, where) == pc' = [pc EXCEPT ![x] = where]

-----------------------------------------------------------------------------
(* Store calls.  A call that fails may have taken effect or not. *)

WriteYaml(y, outcome) ==
    yamls' = IF outcome = "lost" THEN yamls ELSE yamls \cup {y}

WriteBody(m, outcome) ==
    bodies' = IF outcome = "lost" THEN bodies ELSE bodies \cup {m}

(* ifGenerationMatch, or DoesNotExist when the expected generation is 0. *)
CanSwap(x) == Generation = expectedGen[x]

Outcomes == {"ok", "lost", "ambiguous"}

-----------------------------------------------------------------------------
(* Publish. *)

Verify(p) ==
    /\ pc[p] = "idle"
    /\ IF ManifestOf[p] \in Verified
       THEN /\ Goto(p, "yamls")
            /\ todo' = [todo EXCEPT ![p] = YamlsOf[ManifestOf[p]]]
       ELSE /\ Goto(p, "rejected")
            /\ UNCHANGED todo
    /\ UNCHANGED <<bucket, target, expectedGen, prior>>

DryRun(p) ==
    /\ pc[p] = "idle"
    /\ ManifestOf[p] \in Verified
    /\ Goto(p, "dryrun")
    /\ UNCHANGED <<bucket, todo, target, expectedGen, prior>>

(* WriteIfNotExists: an object that is already there counts as written. *)
PublishYaml(p, y, outcome) ==
    /\ pc[p] = "yamls"
    /\ y \in todo[p]
    /\ WriteYaml(y, outcome)
    /\ IF outcome = "ok"
       THEN todo' = [todo EXCEPT ![p] = @ \ {y}] /\ UNCHANGED pc
       ELSE Goto(p, "failed") /\ UNCHANGED todo
    /\ UNCHANGED <<bodies, versions, target, expectedGen, prior>>

(* The body written while rule bodies are still missing. *)
PublishBodyEarly(p, outcome) ==
    /\ pc[p] = "yamls"
    /\ WriteBody(ManifestOf[p], outcome)
    /\ Goto(p, IF outcome = "ok" THEN "generation" ELSE "failed")
    /\ UNCHANGED <<yamls, versions, todo, target, expectedGen, prior>>

PublishBody(p, outcome) ==
    /\ pc[p] = "yamls"
    /\ todo[p] = {}
    /\ WriteBody(ManifestOf[p], outcome)
    /\ Goto(p, IF outcome = "ok" THEN "generation" ELSE "failed")
    /\ UNCHANGED <<yamls, versions, todo, target, expectedGen, prior>>

-----------------------------------------------------------------------------
(* Rollback. *)

ReadTarget(r, m) ==
    /\ pc[r] = "idle"
    /\ Goto(r, IF m \in bodies THEN "generation" ELSE "rejected")
    /\ target' = [target EXCEPT ![r] = m]
    /\ UNCHANGED <<bucket, todo, expectedGen, prior>>

(* readPriorPointer's second read; skipped when there is no pointer. *)
ReadPrior(r) ==
    /\ pc[r] = "prior"
    /\ prior' = [prior EXCEPT ![r] = IF expectedGen[r] = 0 THEN Null ELSE Pointer]
    /\ \/ Goto(r, "swap")
       \/ Goto(r, "dryrun")
    /\ UNCHANGED <<bucket, todo, target, expectedGen>>

-----------------------------------------------------------------------------
(* Steps of both. *)

ReadPointerGeneration(x) ==
    /\ pc[x] = "generation"
    /\ expectedGen' = [expectedGen EXCEPT ![x] = Generation]
    /\ Goto(x, IF x \in Publishers THEN "swap" ELSE "prior")
    /\ UNCHANGED <<bucket, todo, target, prior>>

(* A write that, refused, is tried again with the generation read anew. *)
CASWritePointerAgain(x, outcome) ==
    /\ pc[x] = "swap"
    /\ versions' = IF outcome # "lost" THEN Append(versions, Proposed(x)) ELSE versions
    /\ expectedGen' = [expectedGen EXCEPT ![x] = Generation]
    /\ Goto(x, IF outcome # "ok" THEN "failed" ELSE "done")
    /\ UNCHANGED <<yamls, bodies, todo, target, prior>>

CASWritePointer(x, outcome) ==
    /\ pc[x] = "swap"
    /\ versions' = IF CanSwap(x) /\ outcome # "lost"
                   THEN Append(versions, Proposed(x))
                   ELSE versions
    /\ Goto(x, IF outcome # "ok" THEN "failed"
               ELSE IF CanSwap(x) THEN "done" ELSE "precondition_failed")
    /\ UNCHANGED <<yamls, bodies, todo, target, expectedGen, prior>>

(* A read fails, or the process is killed. *)
Fail(x) ==
    /\ pc[x] \in {"idle", "yamls", "generation", "prior", "swap"}
    /\ Goto(x, "failed")
    /\ UNCHANGED <<bucket, todo, target, expectedGen, prior>>

PubInit ==
    /\ versions \in Histories
    /\ bodies = {versions[i] : i \in DOMAIN versions}
    /\ yamls = UNION {YamlsOf[m] : m \in bodies}
    /\ pc = [x \in Procs |-> "idle"]
    /\ todo = [p \in Publishers |-> {}]
    /\ target = [r \in Rollbacks |-> Null]
    /\ expectedGen = [x \in Procs |-> 0]
    /\ prior = [r \in Rollbacks |-> Null]

PubNext ==
    \/ \E p \in Publishers : \/ Verify(p)
                             \/ DryRun(p)
                             \/ \E y \in Yamls, o \in Outcomes : PublishYaml(p, y, o)
                             \/ \E o \in Outcomes : PublishBody(p, o)
    \/ \E r \in Rollbacks : \/ \E m \in Manifests : ReadTarget(r, m)
                            \/ ReadPrior(r)
    \/ \E x \in Procs : \/ ReadPointerGeneration(x)
                        \/ \E o \in Outcomes : CASWritePointer(x, o)
                        \/ Fail(x)

PubSpec == PubInit /\ [][PubNext]_pubVars

-----------------------------------------------------------------------------
PubTypeOK ==
    /\ yamls \subseteq Yamls
    /\ bodies \subseteq Manifests
    /\ versions \in Seq(Manifests)
    /\ pc \in [Procs -> {"idle", "yamls", "generation", "prior", "swap", "done", "dryrun",
                         "rejected", "precondition_failed", "failed"}]
    /\ todo \in [Publishers -> SUBSET Yamls]
    /\ target \in [Rollbacks -> Manifests \cup {Null}]
    /\ expectedGen \in [Procs -> Nat]
    /\ prior \in [Rollbacks -> Manifests \cup {Null}]

(* The pointer never dangles: whatever it has ever pointed at is in the bucket
   with every rule body it refers to, and passed the verifications
   (publisher.go:160-327 writes bodies before the pointer, rollback.go:123-132
   reads the target first).  An engine that follows any version of the pointer
   finds all it needs. *)
NoDangling ==
    \A i \in DOMAIN versions :
        /\ versions[i] \in bodies
        /\ versions[i] \in Verified
        /\ YamlsOf[versions[i]] \subseteq yamls

(* A process that reports success wrote the pointer version that follows the
   one it read, and a rollback reports as prior exactly the pointer its write
   replaced, although it reads generation and body in two calls
   (rollback.go:149-156, 207-230). *)
ReportsTrue ==
    \A x \in Procs : pc[x] = "done" =>
        /\ expectedGen[x] < Len(versions)
        /\ versions[expectedGen[x] + 1] = Proposed(x)
        /\ x \in Rollbacks =>
              prior[x] = IF expectedGen[x] = 0 THEN Null ELSE versions[expectedGen[x]]
=============================================================================
