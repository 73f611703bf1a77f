-------------------------- MODULE PublicationProofs --------------------------
(***************************************************************************)
(* NoDangling and ReportsTrue hold for any number of publishers and        *)
(* rollbacks, any manifests and any interleaving.  The invariant that      *)
(* carries them says what each process has already put in the bucket or    *)
(* read from it.                                                           *)
(***************************************************************************)
EXTENDS Publication, TLAPS

(* The solver needs a fraction of this; the limit allows for a loaded machine. *)
USE SMTT(60)

(* A manifest body is written only when its rule bodies are there. *)
BodiesComplete ==
    \A m \in bodies : m \in Verified /\ YamlsOf[m] \subseteq yamls

PublisherInv(p) ==
    /\ pc[p] # "prior"
    /\ pc[p] \in {"yamls", "generation", "swap"} => ManifestOf[p] \in Verified
    /\ pc[p] = "yamls" => YamlsOf[ManifestOf[p]] \subseteq yamls \cup todo[p]
    /\ pc[p] \in {"generation", "swap"} => ManifestOf[p] \in bodies

RollbackInv(r) ==
    /\ pc[r] # "yamls"
    /\ pc[r] \in {"generation", "prior", "swap"} => target[r] \in bodies
    /\ (pc[r] = "swap" /\ expectedGen[r] = Len(versions)) =>
           prior[r] = IF expectedGen[r] = 0 THEN Null ELSE versions[expectedGen[r]]

GenerationInv(x) == pc[x] \in {"prior", "swap"} => expectedGen[x] <= Len(versions)

(* What NoDangling says of one version. *)
Whole(m) == m \in bodies /\ m \in Verified /\ YamlsOf[m] \subseteq yamls

PubInv ==
    /\ PubTypeOK
    /\ BodiesComplete
    /\ NoDangling
    /\ \A p \in Publishers : PublisherInv(p)
    /\ \A r \in Rollbacks : RollbackInv(r)
    /\ \A x \in Procs : GenerationInv(x)
    /\ ReportsTrue

-----------------------------------------------------------------------------
(* What Append does to a sequence, position by position. *)
LEMMA AppendFacts ==
    ASSUME NEW S, NEW s \in Seq(S), NEW e \in S
    PROVE  /\ Append(s, e) \in Seq(S)
           /\ Len(s) \in Nat
           /\ Len(Append(s, e)) = Len(s) + 1
           /\ DOMAIN s = 1 .. Len(s)
           /\ DOMAIN Append(s, e) = 1 .. Len(s) + 1
           /\ \A i \in 1 .. Len(s) : Append(s, e)[i] = s[i]
           /\ Append(s, e)[Len(s) + 1] = e
OBVIOUS

(* The initial bucket is the work of completed publications, every version of
   the pointer with its body and rule bodies, and every process is idle. *)
LEMMA PubInitInv == PubInit => PubInv
<1> SUFFICES ASSUME PubInit PROVE PubInv
  OBVIOUS
<1> USE PublicationAssumption
<1>1. versions \in Seq(Verified) /\ versions \in Seq(Manifests)
  BY DEF PubInit
<1>2. DOMAIN versions = 1 .. Len(versions) /\ Len(versions) \in Nat
  BY <1>1
<1>3. \A i \in DOMAIN versions : versions[i] \in Verified /\ versions[i] \in bodies
  BY <1>1, <1>2 DEF PubInit
<1>4. \A m \in bodies : m \in Verified
  BY <1>3 DEF PubInit
<1>5. \A m \in bodies : YamlsOf[m] \subseteq yamls
  BY DEF PubInit
<1>6. yamls \subseteq Yamls
  BY <1>4 DEF PubInit
<1>7. PubTypeOK
  BY <1>1, <1>4, <1>6 DEF PubInit, PubTypeOK, Procs
<1>8. BodiesComplete /\ NoDangling
  BY <1>2, <1>3, <1>4, <1>5 DEF BodiesComplete, NoDangling
<1>9. (\A p \in Publishers : PublisherInv(p)) /\ (\A r \in Rollbacks : RollbackInv(r))
  BY DEF PubInit, PublisherInv, RollbackInv, Procs
<1>10. (\A x \in Procs : GenerationInv(x)) /\ ReportsTrue
  BY DEF PubInit, GenerationInv, ReportsTrue, Procs
<1>. QED BY <1>7, <1>8, <1>9, <1>10 DEF PubInv

(* A store call other than the pointer's leaves the versions as they are and only
   adds objects: NoDangling survives it. *)
LEMMA GrowKeepsNoDangling ==
    ASSUME NoDangling, UNCHANGED versions, yamls \subseteq yamls', bodies \subseteq bodies'
    PROVE  NoDangling'
BY DEF NoDangling

(* The steps of Publish before the pointer. *)
LEMMA PublishStep ==
    ASSUME PubInv, NEW p \in Publishers,
           \/ Verify(p)
           \/ DryRun(p)
           \/ \E y \in Yamls, o \in Outcomes : PublishYaml(p, y, o)
           \/ \E o \in Outcomes : PublishBody(p, o)
    PROVE  PubInv'
<1> USE PublicationAssumption DEF PubInv, Procs
<1>1. CASE Verify(p)
  <2> USE <1>1 DEF Verify, Goto, bucket
  <2>1. YamlsOf[ManifestOf[p]] \subseteq Yamls
    OBVIOUS
  <2>2. PubTypeOK'
    BY <2>1, Zenon DEF PubTypeOK
  <2>3. BodiesComplete' /\ NoDangling'
    BY DEF BodiesComplete, NoDangling
  <2>4. ASSUME NEW q \in Publishers PROVE PublisherInv(q)'
    BY DEF PublisherInv, PubTypeOK
  <2>5. (\A r \in Rollbacks : RollbackInv(r)') /\ \A x \in Procs : GenerationInv(x)'
    BY DEF RollbackInv, GenerationInv, PubTypeOK
  <2>6. ReportsTrue'
    BY DEF ReportsTrue, Proposed, PubTypeOK
  <2>. QED BY <2>2, <2>3, <2>4, <2>5, <2>6
<1>2. CASE DryRun(p)
  BY <1>2 DEF DryRun, Goto, bucket, PubTypeOK, BodiesComplete, NoDangling, PublisherInv,
              RollbackInv, GenerationInv, ReportsTrue, Proposed
<1>3. ASSUME NEW y \in Yamls, NEW o \in Outcomes, PublishYaml(p, y, o) PROVE PubInv'
  <2> USE <1>3 DEF PublishYaml, WriteYaml, Goto
  <2>1. yamls \subseteq yamls' /\ yamls' \subseteq Yamls /\ (o = "ok" => y \in yamls')
    BY DEF PubTypeOK
  <2>2. PubTypeOK'
    <3>1. todo' \in [Publishers -> SUBSET Yamls]
      BY DEF PubTypeOK
    <3>. QED BY <2>1, <3>1, Zenon DEF PubTypeOK
  <2>3. BodiesComplete' /\ NoDangling'
    BY <2>1, GrowKeepsNoDangling DEF BodiesComplete
  <2>4. ASSUME NEW q \in Publishers PROVE PublisherInv(q)'
    <3>1. PublisherInv(q)
      OBVIOUS
    <3>2. CASE q = p /\ o = "ok"
      BY <2>1, <3>1, <3>2 DEF PublisherInv, PubTypeOK
    <3>3. CASE q = p /\ o # "ok"
      BY <2>1, <3>1, <3>3 DEF PublisherInv, PubTypeOK
    <3>4. CASE q # p
      BY <2>1, <3>1, <3>4 DEF PublisherInv, PubTypeOK
    <3>. QED BY <3>2, <3>3, <3>4
  <2>5. (\A r \in Rollbacks : RollbackInv(r)') /\ \A x \in Procs : GenerationInv(x)'
    BY DEF RollbackInv, GenerationInv, PubTypeOK
  <2>6. ReportsTrue'
    BY DEF ReportsTrue, Proposed, PubTypeOK
  <2>. QED BY <2>2, <2>3, <2>4, <2>5, <2>6
<1>4. ASSUME NEW o \in Outcomes, PublishBody(p, o) PROVE PubInv'
  <2> USE <1>4 DEF PublishBody, WriteBody, Goto
  <2>1. ManifestOf[p] \in Manifests /\ (Whole(ManifestOf[p])' \/ bodies' = bodies)
    BY DEF Whole, PublisherInv, PubTypeOK
  <2>2. bodies \subseteq bodies' /\ bodies' \subseteq bodies \cup {ManifestOf[p]}
    OBVIOUS
  <2>3. PubTypeOK'
    BY <2>2 DEF PubTypeOK
  <2>4. BodiesComplete' /\ NoDangling'
    BY <2>1, <2>2, GrowKeepsNoDangling DEF BodiesComplete, Whole
  <2>5. ASSUME NEW q \in Publishers PROVE PublisherInv(q)'
    BY <2>2 DEF PublisherInv, PubTypeOK
  <2>6. (\A r \in Rollbacks : RollbackInv(r)') /\ \A x \in Procs : GenerationInv(x)'
    BY <2>2 DEF RollbackInv, GenerationInv, PubTypeOK
  <2>7. ReportsTrue'
    BY DEF ReportsTrue, Proposed, PubTypeOK
  <2>. QED BY <2>3, <2>4, <2>5, <2>6, <2>7
<1>. QED BY <1>1, <1>2, <1>3, <1>4

(* The steps of a rollback before the pointer. *)
LEMMA RollbackStep ==
    ASSUME PubInv, NEW r \in Rollbacks,
           (\E m \in Manifests : ReadTarget(r, m)) \/ ReadPrior(r)
    PROVE  PubInv'
<1> USE PublicationAssumption DEF PubInv, Procs
<1>1. ASSUME NEW m \in Manifests, ReadTarget(r, m) PROVE PubInv'
  BY <1>1 DEF ReadTarget, Goto, bucket, PubTypeOK, BodiesComplete, NoDangling, PublisherInv,
              RollbackInv, GenerationInv, ReportsTrue, Proposed
<1>2. CASE ReadPrior(r)
  <2> USE <1>2 DEF ReadPrior, Goto, bucket
  <2>1. Pointer \in Manifests \cup {Null} /\ (versions # <<>> => Pointer = versions[Len(versions)])
    BY DEF Pointer, PubTypeOK
  <2>2. PubTypeOK'
    BY <2>1, Zenon DEF PubTypeOK
  <2>3. BodiesComplete' /\ NoDangling'
    BY DEF BodiesComplete, NoDangling
  <2>4. \A p \in Publishers : PublisherInv(p)'
    BY DEF PublisherInv, PubTypeOK
  <2>5. \A q \in Rollbacks : RollbackInv(q)'
    BY <2>1 DEF RollbackInv, PubTypeOK
  <2>6. \A x \in Procs : GenerationInv(x)'
    BY DEF GenerationInv, PubTypeOK
  <2>7. ReportsTrue'
    BY DEF ReportsTrue, Proposed, PubTypeOK
  <2>. QED BY <2>2, <2>3, <2>4, <2>5, <2>6, <2>7
<1>. QED BY <1>1, <1>2

(* The steps both kinds of process take. *)
LEMMA SharedStep ==
    ASSUME PubInv, NEW x \in Procs,
           \/ ReadPointerGeneration(x)
           \/ \E o \in Outcomes : CASWritePointer(x, o)
           \/ Fail(x)
    PROVE  PubInv'
<1> USE PublicationAssumption DEF PubInv, Procs
<1>1. CASE ReadPointerGeneration(x)
  BY <1>1 DEF ReadPointerGeneration, Generation, Goto, bucket, PubTypeOK, BodiesComplete,
              NoDangling, PublisherInv, RollbackInv, GenerationInv, ReportsTrue, Proposed
<1>2. CASE Fail(x)
  BY <1>2 DEF Fail, Goto, bucket, PubTypeOK, BodiesComplete, NoDangling, PublisherInv,
              RollbackInv, GenerationInv, ReportsTrue, Proposed
<1>3. ASSUME NEW o \in Outcomes, CASWritePointer(x, o) PROVE PubInv'
  <2> USE <1>3 DEF CASWritePointer, CanSwap, Generation, Goto
  <2>1. Proposed(x) \in Manifests /\ Whole(Proposed(x))
    BY DEF Proposed, Whole, PublisherInv, RollbackInv, BodiesComplete, PubTypeOK
  <2>2. CASE versions' = versions
    <3>1. pc'[x] \in {"failed", "precondition_failed"}
      BY <2>2, AppendFacts, <2>1 DEF PubTypeOK
    <3>. QED BY <2>2, <3>1 DEF PubTypeOK, BodiesComplete, NoDangling, PublisherInv,
                                RollbackInv, GenerationInv, ReportsTrue, Proposed
  <2>3. CASE expectedGen[x] = Len(versions) /\ versions' = Append(versions, Proposed(x))
    <3>1. /\ versions' \in Seq(Manifests)
          /\ Len(versions) \in Nat /\ Len(versions') = Len(versions) + 1
          /\ DOMAIN versions = 1 .. Len(versions)
          /\ DOMAIN versions' = 1 .. Len(versions) + 1
          /\ \A i \in 1 .. Len(versions) : versions'[i] = versions[i]
          /\ versions'[Len(versions) + 1] = Proposed(x)
      BY <2>1, <2>3, AppendFacts DEF PubTypeOK
    <3>2. PubTypeOK'
      BY <3>1 DEF PubTypeOK
    <3>3. BodiesComplete'
      BY DEF BodiesComplete
    <3>4. NoDangling'
      BY <2>1, <3>1 DEF NoDangling, Whole
    <3>5. \A p \in Publishers : PublisherInv(p)'
      BY DEF PublisherInv, PubTypeOK
    <3>6. ASSUME NEW q \in Rollbacks PROVE RollbackInv(q)'
      BY <3>1 DEF RollbackInv, GenerationInv, PubTypeOK
    <3>7. \A y \in Procs : GenerationInv(y)'
      BY <3>1 DEF GenerationInv, PubTypeOK
    <3>8. ASSUME NEW y \in Procs, pc'[y] = "done"
          PROVE  /\ expectedGen'[y] < Len(versions')
                 /\ versions'[expectedGen'[y] + 1] = Proposed(y)'
                 /\ y \in Rollbacks =>
                       prior'[y] = IF expectedGen'[y] = 0 THEN Null ELSE versions'[expectedGen'[y]]
      <4>1. expectedGen[y] \in Nat /\ Proposed(y)' = Proposed(y)
        BY DEF PubTypeOK, Proposed
      <4>2. CASE y = x
        BY <2>3, <3>1, <3>8, <4>1, <4>2 DEF RollbackInv, PubTypeOK
      <4>3. CASE y # x
        <5>1. pc[y] = "done"
          BY <3>8, <4>3 DEF PubTypeOK
        <5>. QED BY <3>1, <4>1, <5>1 DEF ReportsTrue
      <4>. QED BY <4>2, <4>3, Zenon
    <3>9. ReportsTrue'
      BY <3>8, Zenon DEF ReportsTrue
    <3>. QED BY <3>2, <3>3, <3>4, <3>5, <3>6, <3>7, <3>9
  <2>. QED BY <2>2, <2>3
<1>. QED BY <1>1, <1>2, <1>3

(* Every step of a CLI process, and every step that leaves the publication side
   alone, keeps the invariant. *)
LEMMA PubInvStep == PubInv /\ [PubNext]_pubVars => PubInv'
<1> SUFFICES ASSUME PubInv, [PubNext]_pubVars PROVE PubInv'
  OBVIOUS
<1>1. CASE PubNext
  BY <1>1, PublishStep, RollbackStep, SharedStep DEF PubNext
<1>2. CASE UNCHANGED pubVars
  BY <1>2 DEF PubInv, pubVars, bucket, PubTypeOK, BodiesComplete, NoDangling, PublisherInv,
              RollbackInv, GenerationInv, ReportsTrue, Proposed, Procs
<1>. QED BY <1>1, <1>2

(* PubInv is an invariant of any set of publishers and rollbacks. *)
THEOREM PubInvCorrect == PubSpec => []PubInv
<1>1. PubInit => PubInv
  BY PubInitInv
<1>2. PubInv /\ [PubNext]_pubVars => PubInv'
  BY PubInvStep
<1>. QED BY <1>1, <1>2, PTL DEF PubSpec

(* No version the pointer ever had dangles, for any publishers, rollbacks and
   manifests (publisher.go:160-327, rollback.go:116-197). *)
THEOREM NoDanglingCorrect == PubSpec => []NoDangling
<1>1. PubInv => NoDangling
  BY DEF PubInv
<1>. QED BY <1>1, PubInvCorrect, PTL

(* What a successful publish or rollback reports is what its write did
   (rollback.go:144-196). *)
THEOREM ReportsTrueCorrect == PubSpec => []ReportsTrue
<1>1. PubInv => ReportsTrue
  BY DEF PubInv
<1>. QED BY <1>1, PubInvCorrect, PTL

(* The publication state keeps its type. *)
THEOREM PubTypeCorrect == PubSpec => []PubTypeOK
<1>1. PubInv => PubTypeOK
  BY DEF PubInv
<1>. QED BY <1>1, PubInvCorrect, PTL
=============================================================================
