------------------------- MODULE ControlPlaneProofs --------------------------
(***************************************************************************)
(* The engine's guarantees on top of the publication's: what it serves was *)
(* published, is compatible and is complete, and no trigger meets a rule   *)
(* body that is missing, for any number of publishers, rollbacks, requests *)
(* and restarts.                                                           *)
(***************************************************************************)
EXTENDS ControlPlaneContract, PublicationProofs

(* The solver needs a fraction of this; the limit allows for a loaded machine. *)
USE SMTT(60)

LoaderInv ==
    /\ up => active # Null
    /\ active # Null => active \in Compatible /\ Published(active)
    /\ seen # Null => Published(seen)
    /\ loader = "body" => seen # Null

RequestInv(q) ==
    /\ req[q] = "captured" => up
    /\ req[q] = "captured" => entity[q] \in Entities
    /\ req[q] = "resolving" => checks[q] \in yamls
    /\ req[q] # "rule_missing"

CPInv ==
    /\ PubInv
    /\ TypeOK
    /\ LoaderInv
    /\ \A q \in Requests : RequestInv(q)

-----------------------------------------------------------------------------
(* The bucket only grows, and no version of the pointer is forgotten. *)
LEMMA Growth ==
    ASSUME PubInv, [PubNext]_pubVars
    PROVE  yamls \subseteq yamls' /\ \A m \in Manifests : Published(m) => Published(m)'
<1> USE PublicationAssumption
<1>1. CASE UNCHANGED pubVars
  BY <1>1 DEF pubVars, bucket, Published
<1>2. ASSUME NEW p \in Publishers,
             \/ Verify(p) \/ DryRun(p)
             \/ \E y \in Yamls, o \in Outcomes : PublishYaml(p, y, o)
             \/ \E o \in Outcomes : PublishBody(p, o)
      PROVE  yamls \subseteq yamls' /\ versions' = versions
  BY <1>2 DEF Verify, DryRun, PublishYaml, PublishBody, WriteYaml, bucket
<1>3. ASSUME NEW r \in Rollbacks, (\E m \in Manifests : ReadTarget(r, m)) \/ ReadPrior(r)
      PROVE  yamls \subseteq yamls' /\ versions' = versions
  BY <1>3 DEF ReadTarget, ReadPrior, bucket
<1>4. ASSUME NEW x \in Procs, ReadPointerGeneration(x) \/ Fail(x)
      PROVE  yamls \subseteq yamls' /\ versions' = versions
  BY <1>4 DEF ReadPointerGeneration, Fail, bucket
<1>5. ASSUME NEW x \in Procs, NEW o \in Outcomes, CASWritePointer(x, o)
      PROVE  yamls \subseteq yamls' /\ \A m \in Manifests : Published(m) => Published(m)'
  <2>1. Proposed(x) \in Manifests
    BY <1>5 DEF CASWritePointer, PubInv, PubTypeOK, Proposed, PublisherInv, RollbackInv, Procs
  <2>2. versions \in Seq(Manifests) /\ yamls' = yamls
        /\ (versions' = versions \/ versions' = Append(versions, Proposed(x)))
    BY <1>5 DEF CASWritePointer, PubInv, PubTypeOK
  <2>. QED BY <2>1, <2>2, AppendFacts DEF Published
<1>. QED BY <1>1, <1>2, <1>3, <1>4, <1>5 DEF PubNext, Published

(* The rule of any entity in a published manifest is in the bucket. *)
LEMMA RulePresent ==
    ASSUME PubInv, NEW m \in Manifests, Published(m), NEW e \in Entities, RuleOf[m][e] # Null
    PROVE  RuleOf[m][e] \in yamls
BY ControlPlaneAssumption DEF Published, PubInv, NoDangling

(* The invariant holds of an empty bucket and an engine that is off. *)
LEMMA CPInitInv == Init => CPInv
<1> SUFFICES ASSUME Init PROVE CPInv
  OBVIOUS
<1>1. PubInv
  BY PubInitInv DEF Init
<1>2. TypeOK
  <2>1. PubTypeOK
    BY <1>1 DEF PubInv
  <2>2. boots \in 0 .. MaxBoots
    BY ControlPlaneAssumption DEF Init
  <2>. QED BY <2>1, <2>2, Zenon DEF Init, TypeOK
<1>. QED BY <1>1, <1>2 DEF Init, CPInv, LoaderInv, RequestInv

(* Steps of the CLI processes: the engine's state stays, the bucket grows. *)
LEMMA CLIStepInv ==
    ASSUME CPInv, [PubNext]_pubVars, UNCHANGED <<engineVars, requestVars>>
    PROVE  CPInv'
<1>1. PubInv' /\ yamls \subseteq yamls' /\ \A m \in Manifests : Published(m) => Published(m)'
  BY PubInvStep, Growth DEF CPInv
<1>2. TypeOK'
  BY <1>1 DEF CPInv, TypeOK, PubInv, engineVars, requestVars
<1>3. LoaderInv'
  BY <1>1 DEF CPInv, TypeOK, LoaderInv, engineVars
<1>4. \A q \in Requests : RequestInv(q)'
  BY <1>1 DEF CPInv, RequestInv, engineVars, requestVars
<1>. QED BY <1>1, <1>2, <1>3, <1>4 DEF CPInv

(* Steps of the loader and of the process itself. *)
LEMMA LoaderStepInv ==
    ASSUME CPInv, LoaderStep
    PROVE  CPInv'
<1> USE PublicationAssumption, ControlPlaneAssumption DEF CPInv
<1>1. UNCHANGED pubVars
  BY DEF LoaderStep, Boot, RefreshTick, ReadPointer, FetchAndVerify, LoadFails, Crash
<1>2. PubInv' /\ PubTypeOK' /\ yamls' = yamls /\ \A m : Published(m)' <=> Published(m)
  <2>1. PubInv'
    BY <1>1, PubInvStep
  <2>. QED BY <1>1, <2>1 DEF PubInv, pubVars, bucket, Published
<1>3. CASE Boot
  BY <1>2, <1>3 DEF Boot, TypeOK, LoaderInv, RequestInv, requestVars
<1>4. CASE RefreshTick
  BY <1>2, <1>4 DEF RefreshTick, TypeOK, LoaderInv, RequestInv, requestVars
<1>5. CASE ReadPointer
  <2>1. Pointer \in Manifests /\ Published(Pointer)
    BY <1>5 DEF ReadPointer, Pointer, Published, PubInv, PubTypeOK
  <2>. QED BY <1>2, <1>5, <2>1 DEF ReadPointer, TypeOK, LoaderInv, RequestInv, requestVars
<1>6. CASE FetchAndVerify
  BY <1>2, <1>6 DEF FetchAndVerify, Accepts, TypeOK, LoaderInv, RequestInv, requestVars
<1>7. CASE LoadFails
  BY <1>2, <1>7 DEF LoadFails, TypeOK, LoaderInv, RequestInv, requestVars
<1>8. CASE Crash
  BY <1>2, <1>8, Zenon DEF Crash, TypeOK, LoaderInv, RequestInv
<1>. QED BY <1>3, <1>4, <1>5, <1>6, <1>7, <1>8 DEF LoaderStep

(* Steps of a request: the rule it is about to read is in the bucket. *)
LEMMA RequestStepInv ==
    ASSUME CPInv, NEW q \in Requests,
           \/ \E e \in Entities : CaptureManifest(q, e)
           \/ FindRule(q)
           \/ ReadRule(q)
           \/ ResolveFails(q)
    PROVE  CPInv'
<1> USE PublicationAssumption, ControlPlaneAssumption DEF CPInv
<1>1. UNCHANGED <<pubVars, engineVars>>
  BY DEF CaptureManifest, FindRule, ReadRule, ResolveFails
<1>2. PubInv' /\ PubTypeOK' /\ yamls' = yamls
  <2>1. PubInv'
    BY <1>1, PubInvStep
  <2>. QED BY <1>1, <2>1 DEF PubInv, pubVars, bucket
<1>3. LoaderInv'
  BY <1>1 DEF LoaderInv, Published, pubVars, bucket, engineVars
<1>4. ASSUME NEW e \in Entities, CaptureManifest(q, e) PROVE CPInv'
  BY <1>1, <1>2, <1>3, <1>4 DEF CaptureManifest, TypeOK, RequestInv, engineVars
<1>5. CASE FindRule(q)
  <2>1. active \in Manifests /\ entity[q] \in Entities /\ Published(active)
    BY <1>5 DEF FindRule, LoaderInv, RequestInv, TypeOK
  <2>2. RuleOf[active][entity[q]] \in Yamls \cup {Null}
    BY <2>1
  <2>3. RuleOf[active][entity[q]] # Null => RuleOf[active][entity[q]] \in yamls
    BY <2>1, RulePresent
  <2>. QED BY <1>1, <1>2, <1>3, <1>5, <2>2, <2>3 DEF FindRule, TypeOK, RequestInv, engineVars
<1>6. CASE ReadRule(q)
  BY <1>1, <1>2, <1>3, <1>6 DEF ReadRule, TypeOK, RequestInv, engineVars
<1>7. CASE ResolveFails(q)
  BY <1>1, <1>2, <1>3, <1>7 DEF ResolveFails, TypeOK, RequestInv, engineVars
<1>. QED BY <1>4, <1>5, <1>6, <1>7

(* CPInv is an invariant of the composed system. *)
THEOREM CPInvCorrect == Spec => []CPInv
<1>1. Init => CPInv
  BY CPInitInv
<1>2. CPInv /\ [Next]_cpVars => CPInv'
  <2> SUFFICES ASSUME CPInv, [Next]_cpVars PROVE CPInv'
    OBVIOUS
  <2>1. CASE CLIStep
    BY <2>1, CLIStepInv DEF CLIStep
  <2>2. CASE LoaderStep
    BY <2>2, LoaderStepInv
  <2>3. CASE RequestStep
    BY <2>3, RequestStepInv DEF RequestStep
  <2>4. CASE UNCHANGED cpVars
    BY <2>4, CLIStepInv DEF cpVars
  <2>. QED BY <2>1, <2>2, <2>3, <2>4 DEF Next
<1>. QED BY <1>1, <1>2, PTL DEF Spec

(* The composed state keeps its type. *)
THEOREM CPTypeCorrect == Spec => []TypeOK
<1>1. CPInv => TypeOK
  BY DEF CPInv
<1>. QED BY <1>1, CPInvCorrect, PTL

(* An engine that is up serves a published, compatible and complete manifest,
   whatever the publishers do (loader.go:163-208, main.go:607-635). *)
THEOREM ServesPublishedCorrect == Spec => []ServesPublished
<1>1. CPInv => ServesPublished
  BY DEF CPInv, TypeOK, LoaderInv, ServesPublished, PubInv, NoDangling, Published
<1>. QED BY <1>1, CPInvCorrect, PTL

(* No trigger fails because a rule body is missing (main.go:314-333). *)
THEOREM NoRuleMissingCorrect == Spec => []NoRuleMissing
<1>1. CPInv => NoRuleMissing
  BY DEF CPInv, RequestInv, NoRuleMissing
<1>. QED BY <1>1, CPInvCorrect, PTL

(* The engine's reads and restarts change nothing for publishers and rollbacks:
   also in the composition no version of the pointer dangles
   (publisher.go:160-327, rollback.go:116-198). *)
THEOREM BucketNoDanglingCorrect == Spec => []NoDangling
<1>1. CPInv => NoDangling
  BY DEF CPInv, PubInv
<1> QED  BY <1>1, CPInvCorrect, PTL

(* And what a successful command reports is true in the composition too
   (publisher.go:160-327, rollback.go:116-198). *)
THEOREM BucketReportsTrueCorrect == Spec => []ReportsTrue
<1>1. CPInv => ReportsTrue
  BY DEF CPInv, PubInv
<1> QED  BY <1>1, CPInvCorrect, PTL

-----------------------------------------------------------------------------
(* The contract of the pointer. *)

(* The pointer read and the manifest held are versions of the pointer, in order;
   a body about to be fetched is the one that version named. *)
HistoryInv ==
    /\ heldAt \in 0 .. Len(versions)
    /\ readAt \in 0 .. Len(versions)
    /\ loader = "body" => heldAt <= readAt /\ readAt # 0 /\ versions[readAt] = seen

(* No step of a command rewrites a version of the pointer: it stays as it is or
   gains one manifest that verified (publisher.go:160-327, rollback.go:116-198). *)
PointerGrows ==
    \/ UNCHANGED versions
    \/ \E m \in Verified : versions' = Append(versions, m)

(* The one step that touches the pointer is the conditional write, of a manifest
   whose body was put in the bucket before (publisher.go:160-327,
   rollback.go:116-198). *)
LEMMA GrowsByOne == PubInv /\ [PubNext]_pubVars => PointerGrows
<1> SUFFICES ASSUME PubInv, [PubNext]_pubVars  PROVE PointerGrows
  OBVIOUS
<1>1. ASSUME NEW x \in Procs, NEW o \in Outcomes, CASWritePointer(x, o)
      PROVE  PointerGrows
  <2>1. Proposed(x) \in Verified
    BY <1>1, PublicationAssumption
       DEF CASWritePointer, PubInv, Proposed, Procs, PublisherInv, RollbackInv, BodiesComplete
  <2> QED  BY <1>1, <2>1 DEF CASWritePointer, PointerGrows
<1> QED  BY <1>1 DEF PubNext, pubVars, bucket, PointerGrows, Verify, DryRun, PublishYaml, PublishBody,
                     ReadTarget, ReadPrior, ReadPointerGeneration, Fail

(* The pointer's history is append-only and gains verified manifests only, for any
   publishers and rollbacks. *)
THEOREM PointerAppendOnly == PubSpec => [][PointerGrows]_versions
<1>1. PubInv /\ [PubNext]_pubVars => [PointerGrows]_versions
  BY GrowsByOne
<1> QED  BY <1>1, PubInvCorrect, PTL DEF PubSpec

(* What a version of the pointer names it names for ever. *)
LEMMA VersionsKept ==
    ASSUME PubInv, PointerGrows
    PROVE  /\ Len(versions) \in Nat /\ Len(versions') \in Nat /\ Len(versions) <= Len(versions')
           /\ \A i \in 1 .. Len(versions) : versions'[i] = versions[i]
<1>1. versions \in Seq(Manifests) /\ Verified \subseteq Manifests
  BY PublicationAssumption DEF PubInv, PubTypeOK
<1> QED  BY <1>1, AppendFacts DEF PointerGrows

(* The loader's two calls: whatever is published between the read of the pointer
   and the fetch of the body, and after a restart, it moves forward only
   (loader.go:163-208). *)
LEMMA HistoryStep == CPInv /\ HistoryInv /\ [HistoryNext]_allVars => HistoryInv'
<1> SUFFICES ASSUME CPInv, HistoryInv, [HistoryNext]_allVars  PROVE HistoryInv'
  OBVIOUS
<1>1. PubInv /\ Len(versions) \in Nat
  BY DEF CPInv, PubInv, PubTypeOK
<1>2. CASE CLIStep /\ UNCHANGED historyVars
  <2>1. PointerGrows /\ UNCHANGED <<loader, seen, readAt, heldAt>>
    BY <1>1, <1>2, GrowsByOne DEF CLIStep, engineVars, historyVars
  <2> QED  BY <1>1, <2>1, VersionsKept DEF HistoryInv
<1>3. CASE RequestStep /\ UNCHANGED historyVars
  BY <1>3 DEF RequestStep, CaptureManifest, FindRule, ReadRule, ResolveFails, pubVars, bucket,
              engineVars, historyVars, HistoryInv
<1>4. CASE (Boot \/ RefreshTick \/ LoadFails \/ Crash) /\ UNCHANGED historyVars
  BY <1>4 DEF Boot, RefreshTick, LoadFails, Crash, pubVars, bucket, historyVars, HistoryInv
<1>5. CASE ReadPointer /\ readAt' = Generation /\ UNCHANGED heldAt
  <2>1. versions # <<>> /\ Pointer = versions[Len(versions)] /\ Len(versions) # 0
    BY <1>1, <1>5 DEF ReadPointer, Pointer, PubInv, PubTypeOK
  <2> QED  BY <1>1, <1>5, <2>1 DEF ReadPointer, Generation, pubVars, bucket, HistoryInv
<1>6. CASE FetchAndVerify /\ heldAt' = readAt /\ UNCHANGED readAt
  BY <1>6 DEF FetchAndVerify, pubVars, bucket, HistoryInv
<1>7. CASE UNCHANGED allVars
  BY <1>7 DEF allVars, cpVars, pubVars, bucket, engineVars, historyVars, HistoryInv
<1> QED  BY <1>2, <1>3, <1>4, <1>5, <1>6, <1>7 DEF HistoryNext

(* The history variables change nothing: every step is a step of the model without
   them. *)
LEMMA HistoryAdds == HistorySpec => Spec
<1>1. HistoryInit => Init
  BY DEF HistoryInit
<1>2. [HistoryNext]_allVars => [Next]_cpVars
  BY DEF HistoryNext, Next, LoaderStep, allVars
<1> QED  BY <1>1, <1>2, PTL DEF HistorySpec, Spec

(* The process that takes a step and where it goes decide which commands are over;
   what the others have answered stands. *)
LEMMA CommandStep ==
    ASSUME PubTypeOK, NEW x \in Procs, NEW where, pc[x] \notin Over, pc' = [pc EXCEPT ![x] = where],
           where # "done",
           \A y \in Procs \ {x} : expectedGen'[y] = expectedGen[y],
           \A y \in Rollbacks \ {x} : prior'[y] = prior[y] /\ target'[y] = target[y]
    PROVE  /\ x \notin {y \in Procs : pc[y] \in Over}
           /\ {y \in Procs : pc[y] \in Over}' =
                  {y \in Procs : pc[y] \in Over} \cup (IF where \in Over THEN {x} ELSE {})
           /\ [y \in Procs |-> AnswerOf(y)]' = [y \in Procs |-> AnswerOf(y)]
<1>1. \A y \in Procs : pc'[y] = IF y = x THEN where ELSE pc[y]
  BY DEF PubTypeOK
<1>2. {y \in Procs : pc[y] \in Over}' =
          {y \in Procs : pc[y] \in Over} \cup (IF where \in Over THEN {x} ELSE {})
  BY <1>1
<1>3. ASSUME NEW y \in Procs  PROVE AnswerOf(y)' = AnswerOf(y)
  <2>1. CASE y = x
    BY <1>1, <2>1 DEF AnswerOf, Over
  <2>2. CASE y # x
    BY <1>1, <2>2 DEF AnswerOf, Proposed, Procs
  <2> QED  BY <2>1, <2>2
<1> QED  BY <1>2, <1>3

(* A step of a command that does not write the pointer is nothing to its reader, or
   the end of the command. *)
LEMMA QuietStep ==
    ASSUME PubTypeOK, NEW x \in Procs, NEW where, pc[x] \notin Over, pc' = [pc EXCEPT ![x] = where],
           where # "done",
           \A y \in Procs \ {x} : expectedGen'[y] = expectedGen[y],
           \A y \in Rollbacks \ {x} : prior'[y] = prior[y] /\ target'[y] = target[y],
           UNCHANGED <<versions, active, heldAt>>
    PROVE  [Contract!Next]_(Contract!vars)
<1>1. /\ x \notin {y \in Procs : pc[y] \in Over}
      /\ {y \in Procs : pc[y] \in Over}' =
             {y \in Procs : pc[y] \in Over} \cup (IF where \in Over THEN {x} ELSE {})
      /\ [y \in Procs |-> AnswerOf(y)]' = [y \in Procs |-> AnswerOf(y)]
  BY CommandStep, Zenon
<1>2. CASE where \in Over
  <2>1. Contract!GiveUp(x)
    BY <1>1, <1>2 DEF Contract!GiveUp
  <2> QED  BY <2>1 DEF Contract!Next
<1>3. CASE where \notin Over
  BY <1>1, <1>3 DEF Contract!vars
<1> QED  BY <1>2, <1>3

(* The write of the pointer: installed at one instant, with the answer that is true
   at it, though the generation and the prior pointer were read before. *)
LEMMA InstallStep ==
    ASSUME PubInv, NEW x \in Procs, NEW o \in Outcomes, CASWritePointer(x, o),
           UNCHANGED <<active, heldAt>>
    PROVE  [Contract!Next]_(Contract!vars)
<1> DEFINE ended   == {y \in Procs : pc[y] \in Over}
           answers == [y \in Procs |-> AnswerOf(y)]
<1>1. PubTypeOK /\ pc[x] = "swap" /\ pc[x] \notin Over /\ expectedGen[x] \in Nat
      /\ UNCHANGED <<target, expectedGen, prior>>
  BY DEF PubInv, PubTypeOK, CASWritePointer, Over
<1>2. CASE o = "ok" /\ CanSwap(x)
  <2>1. versions' = Append(versions, Proposed(x)) /\ pc' = [pc EXCEPT ![x] = "done"]
    BY <1>2 DEF CASWritePointer, Goto
  <2>2. Proposed(x) \in Verified /\ Proposed(x)' = Proposed(x)
    BY <1>1, PublicationAssumption
       DEF PubInv, Proposed, Procs, PublisherInv, RollbackInv, BodiesComplete
  <2>3. \A y \in Procs : pc'[y] = IF y = x THEN "done" ELSE pc[y]
    BY <1>1, <2>1 DEF PubTypeOK
  <2>4. ended' = ended \cup {x} /\ x \notin ended
    BY <1>1, <2>3 DEF Over
  <2>5. AnswerOf(x)' = Contract!Report(x, Proposed(x))
    <3>1. AnswerOf(x)' = [installed  |-> Proposed(x),
                          generation |-> expectedGen[x] + 1,
                          replaced   |-> IF x \in Rollbacks THEN prior[x] ELSE Null]
      BY <1>1, <2>2, <2>3 DEF AnswerOf
    <3>2. expectedGen[x] = Len(versions)
      BY <1>2 DEF CanSwap, Generation
    <3>3. x \in Rollbacks => prior[x] = Contract!Latest
      BY <1>1, <3>2 DEF PubInv, PubTypeOK, RollbackInv, Contract!Latest
    <3> QED  BY <3>1, <3>2, <3>3 DEF Contract!Report
  <2>6. answers' = [answers EXCEPT ![x] = Contract!Report(x, Proposed(x))]
    <3>1. ASSUME NEW y \in Procs, y # x  PROVE AnswerOf(y)' = AnswerOf(y)
      BY <1>1, <2>3, <3>1 DEF AnswerOf, Proposed
    <3>2. PICK R : R = Contract!Report(x, Proposed(x))
      BY Zenon
    <3>3. \A y \in Procs : answers'[y] = IF y = x THEN R ELSE answers[y]
      BY <2>5, <3>1, <3>2
    <3>4. answers' = [answers EXCEPT ![x] = R]
      <4>1. \A f, g : (f = [y \in Procs |-> f[y]] /\ g = [y \in Procs |-> g[y]]
                        /\ \A y \in Procs : f[y] = IF y = x THEN R ELSE g[y]) => f = [g EXCEPT ![x] = R]
        OBVIOUS
      <4>2. answers' = [y \in Procs |-> answers'[y]] /\ answers = [y \in Procs |-> answers[y]]
        BY Zenon
      <4> HIDE DEF answers
      <4> QED  BY <3>3, <4>1, <4>2, Zenon
    <3> QED  BY <3>2, <3>4, Zenon
  <2>7. PICK m \in Verified : m = Proposed(x)
    BY <2>2
  <2>8. Contract!Install(x, m)
    BY <2>1, <2>4, <2>6, <2>7 DEF Contract!Install
  <2> QED  BY <2>8 DEF Contract!Next
<1>3. CASE o # "ok"
  <2>1. pc' = [pc EXCEPT ![x] = "failed"]
    BY <1>3 DEF CASWritePointer, Goto
  <2>2. CASE versions' = versions
    BY <1>1, <2>1, <2>2, QuietStep, Zenon
  <2>3. CASE versions' = Append(versions, Proposed(x))
    <3>1. x \notin ended /\ ended' = ended \cup {x} /\ answers' = answers
      <4>1. "failed" \in Over /\ "failed" # "done"
        BY DEF Over
      <4>2. ended' = ended \cup (IF "failed" \in Over THEN {x} ELSE {})
            /\ x \notin ended /\ answers' = answers
        BY <1>1, <2>1, <4>1, CommandStep, Zenon
      <4> QED  BY <4>1, <4>2
    <3>2. PICK m \in Verified : m = Proposed(x)
      BY <1>1, PublicationAssumption
         DEF PubInv, Proposed, Procs, PublisherInv, RollbackInv, BodiesComplete
    <3>3. Contract!Install(x, m)
      BY <2>3, <3>1, <3>2 DEF Contract!Install
    <3> QED  BY <3>3 DEF Contract!Next
  <2> QED  BY <2>2, <2>3 DEF CASWritePointer
<1>4. CASE o = "ok" /\ ~CanSwap(x)
  <2>1. pc' = [pc EXCEPT ![x] = "precondition_failed"] /\ versions' = versions
    BY <1>4 DEF CASWritePointer, Goto
  <2> QED  BY <1>1, <2>1, QuietStep, Zenon
<1> QED  BY <1>2, <1>3, <1>4

(* Every step of a command is a step of the contract or invisible in it. *)
LEMMA CommandRefines ==
    ASSUME PubInv, PubNext, UNCHANGED <<active, heldAt>>
    PROVE  [Contract!Next]_(Contract!vars)
<1>1. PubTypeOK
  BY DEF PubInv
<1>2. ASSUME NEW p \in Publishers,
             \/ Verify(p) \/ DryRun(p)
             \/ \E y \in Yamls, o \in Outcomes : PublishYaml(p, y, o)
             \/ \E o \in Outcomes : PublishBody(p, o)
      PROVE  [Contract!Next]_(Contract!vars)
  <2>1. p \in Procs /\ pc[p] \in {"idle", "yamls"} /\ UNCHANGED <<versions, target, expectedGen, prior>>
    BY <1>2 DEF Procs, Verify, DryRun, PublishYaml, PublishBody, bucket
  <2>2. pc[p] \notin Over
    BY <2>1 DEF Over
  <2>3. PICK where : where # "done" /\ (pc' = [pc EXCEPT ![p] = where])
    <3>1. CASE Verify(p) \/ DryRun(p) \/ \E o \in Outcomes : PublishBody(p, o)
      BY <3>1 DEF Verify, DryRun, PublishBody, Goto
    <3>2. ASSUME NEW y \in Yamls, NEW o \in Outcomes, PublishYaml(p, y, o)
          PROVE  \E where : where # "done" /\ (pc' = [pc EXCEPT ![p] = where])
      <4>1. CASE o = "ok"
        <5>1. pc' = [pc EXCEPT ![p] = "yamls"]
          BY <1>1, <3>2, <4>1 DEF PublishYaml, PubTypeOK, Procs
        <5> QED  BY <5>1, Zenon
      <4>2. CASE o # "ok"
        BY <3>2, <4>2 DEF PublishYaml, Goto
      <4> QED  BY <4>1, <4>2
    <3> QED  BY <1>2, <3>1, <3>2
  <2> QED  BY <1>1, <2>1, <2>2, <2>3, QuietStep, Zenon
<1>3. ASSUME NEW r \in Rollbacks, (\E m \in Manifests : ReadTarget(r, m)) \/ ReadPrior(r)
      PROVE  [Contract!Next]_(Contract!vars)
  <2>1. r \in Procs /\ pc[r] \in {"idle", "prior"} /\ UNCHANGED <<versions, expectedGen>>
    BY <1>3 DEF Procs, ReadTarget, ReadPrior, bucket
  <2>2. pc[r] \notin Over
    BY <2>1 DEF Over
  <2>3. \A y \in Rollbacks \ {r} : prior'[y] = prior[y] /\ target'[y] = target[y]
    BY <1>1, <1>3 DEF ReadTarget, ReadPrior, PubTypeOK
  <2>4. PICK where : where # "done" /\ (pc' = [pc EXCEPT ![r] = where])
    BY <1>3 DEF ReadTarget, ReadPrior, Goto
  <2> QED  BY <1>1, <2>1, <2>2, <2>3, <2>4, QuietStep, Zenon
<1>4. ASSUME NEW x \in Procs, ReadPointerGeneration(x) \/ Fail(x)
      PROVE  [Contract!Next]_(Contract!vars)
  <2>1. pc[x] \in {"idle", "yamls", "generation", "prior", "swap"} /\ UNCHANGED <<versions, target, prior>>
    BY <1>4 DEF ReadPointerGeneration, Fail, bucket
  <2>2. pc[x] \notin Over
    BY <2>1 DEF Over
  <2>3. \A y \in Procs \ {x} : expectedGen'[y] = expectedGen[y]
    BY <1>1, <1>4 DEF ReadPointerGeneration, Fail, PubTypeOK
  <2>4. PICK where : where # "done" /\ (pc' = [pc EXCEPT ![x] = where])
    BY <1>4 DEF ReadPointerGeneration, Fail, Goto
  <2> QED  BY <1>1, <2>1, <2>2, <2>3, <2>4, QuietStep, Zenon
<1>5. ASSUME NEW x \in Procs, NEW o \in Outcomes, CASWritePointer(x, o)
      PROVE  [Contract!Next]_(Contract!vars)
  BY <1>5, InstallStep
<1> QED  BY <1>2, <1>3, <1>4, <1>5 DEF PubNext

(* A step that leaves what commands and holder show is invisible in the contract. *)
LEMMA SameContract ==
    ASSUME UNCHANGED <<pubVars, active, heldAt>>
    PROVE  UNCHANGED Contract!vars
<1>1. UNCHANGED <<versions, pc, target, expectedGen, prior>>
  BY DEF pubVars, bucket
<1>2. [y \in Procs |-> AnswerOf(y)]' = [y \in Procs |-> AnswerOf(y)]
  BY <1>1 DEF AnswerOf, Proposed
<1> QED  BY <1>1, <1>2 DEF Contract!vars

(* Every step of the control plane is a step of the contract or invisible in it. *)
LEMMA PointerRefines ==
    ASSUME CPInv, HistoryInv, [HistoryNext]_allVars
    PROVE  [Contract!Next]_(Contract!vars)
<1>1. CASE CLIStep /\ UNCHANGED historyVars
  BY <1>1, CommandRefines DEF CLIStep, CPInv, engineVars, historyVars
<1>2. CASE RequestStep /\ UNCHANGED historyVars
  <2>1. UNCHANGED <<pubVars, active, heldAt>>
    BY <1>2 DEF RequestStep, CaptureManifest, FindRule, ReadRule, ResolveFails, engineVars, historyVars
  <2> QED  BY <2>1, SameContract
<1>3. CASE (Boot \/ RefreshTick \/ LoadFails) /\ UNCHANGED historyVars
  <2>1. UNCHANGED <<pubVars, active, heldAt>>
    BY <1>3 DEF Boot, RefreshTick, LoadFails, historyVars
  <2> QED  BY <2>1, SameContract
<1>4. CASE Crash /\ UNCHANGED historyVars
  <2>1. UNCHANGED <<versions, pc, target, expectedGen, prior, heldAt>> /\ active' = Null
    BY <1>4 DEF Crash, pubVars, bucket, historyVars
  <2>2. [y \in Procs |-> AnswerOf(y)]' = [y \in Procs |-> AnswerOf(y)]
    BY <2>1 DEF AnswerOf, Proposed
  <2>3. Contract!Stop
    BY <2>1, <2>2 DEF Contract!Stop
  <2> QED  BY <2>3 DEF Contract!Next
<1>5. CASE ReadPointer /\ readAt' = Generation /\ UNCHANGED heldAt
  <2>1. UNCHANGED <<pubVars, active, heldAt>>
    BY <1>5 DEF ReadPointer
  <2> QED  BY <2>1, SameContract
<1>6. CASE FetchAndVerify /\ heldAt' = readAt /\ UNCHANGED readAt
  <2>1. UNCHANGED <<versions, pc, target, expectedGen, prior>> /\ active' = seen /\ heldAt' = readAt
        /\ seen \in Compatible /\ loader = "body"
    BY <1>6 DEF FetchAndVerify, Accepts, pubVars, bucket
  <2>2. [y \in Procs |-> AnswerOf(y)]' = [y \in Procs |-> AnswerOf(y)]
    BY <2>1 DEF AnswerOf, Proposed
  <2>3. heldAt <= readAt /\ readAt \in DOMAIN versions /\ versions[readAt] = seen
    BY <2>1 DEF HistoryInv, CPInv, PubInv, PubTypeOK
  <2>4. Contract!Serve(readAt)
    BY <2>1, <2>2, <2>3 DEF Contract!Serve
  <2> QED  BY <2>3, <2>4 DEF Contract!Next
<1>7. CASE UNCHANGED allVars
  <2>1. UNCHANGED <<pubVars, active, heldAt>>
    BY <1>7 DEF allVars, cpVars, engineVars, historyVars
  <2> QED  BY <2>1, SameContract
<1> QED  BY <1>1, <1>2, <1>3, <1>4, <1>5, <1>6, <1>7 DEF HistoryNext

(* The engine's memory of the pointer is in order throughout. *)
THEOREM HistoryInvCorrect == HistorySpec => []HistoryInv
<1>1. HistoryInit => HistoryInv
  <2> SUFFICES ASSUME HistoryInit  PROVE HistoryInv
    OBVIOUS
  <2>1. PubInv
    BY PubInitInv DEF HistoryInit, Init
  <2>2. Len(versions) \in Nat
    BY <2>1 DEF PubInv, PubTypeOK
  <2> QED  BY <2>2 DEF HistoryInit, Init, HistoryInv
<1> QED  BY <1>1, HistoryStep, HistoryAdds, CPInvCorrect, PTL DEF HistorySpec

(* The control plane keeps the contract of the pointer, for any number of
   publishers, rollbacks, triggers and restarts (publisher.go:160-327,
   rollback.go:116-198, loader.go:163-208, main.go:607-635). *)
THEOREM KeepsPointerContractCorrect == HistorySpec => KeepsPointerContract
<1>1. HistoryInit => Contract!Init
  <2> SUFFICES ASSUME HistoryInit  PROVE Contract!Init
    OBVIOUS
  <2>1. versions \in Histories /\ active = Null /\ heldAt = 0 /\ pc = [x \in Procs |-> "idle"]
    BY DEF HistoryInit, Init, PubInit
  <2>2. {x \in Procs : pc[x] \in Over} = {}
    BY <2>1 DEF Over
  <2>3. [x \in Procs |-> AnswerOf(x)] = [x \in Procs |-> Null]
    BY <2>1 DEF AnswerOf
  <2> QED  BY <2>1, <2>2, <2>3 DEF Contract!Init
<1>2. CPInv /\ HistoryInv /\ [HistoryNext]_allVars => [Contract!Next]_(Contract!vars)
  BY PointerRefines
<1> QED  BY <1>1, <1>2, HistoryAdds, CPInvCorrect, HistoryInvCorrect, PTL
            DEF HistorySpec, KeepsPointerContract, Contract!Spec
=============================================================================
