---------------------------- MODULE ControlPlane -----------------------------
(***************************************************************************)
(* The engine's side of a publication: the loader that follows the pointer *)
(* (engine/internal/loader, loaderRefreshLoop), the manifestHolder it      *)
(* swaps, and the trigger handler that reads it, composed with the         *)
(* publishers and rollbacks of Publication on the same bucket.             *)
(*                                                                         *)
(* The refresh loop, the HTTP handlers and the CLIs run concurrently; one  *)
(* step is one store call or one access to the holder.  A trigger ends     *)
(* here at its dispatch: Runner models what follows.                       *)
(***************************************************************************)
EXTENDS Publication

CONSTANTS
    Requests, Entities,
    RuleOf,        \* RuleOf[m][e]: the rule body of entity e in manifest m, or Null
    Compatible,    \* the manifests this engine's contract checks accept
    MaxBoots       \* bound on engine starts

ASSUME ControlPlaneAssumption ==
    /\ RuleOf \in [Manifests -> [Entities -> Yamls \cup {Null}]]
    /\ \A m \in Manifests, e \in Entities : RuleOf[m][e] # Null => RuleOf[m][e] \in YamlsOf[m]
    /\ Compatible \subseteq Manifests
    /\ MaxBoots \in Nat

VARIABLES
    boots, up,     \* engine starts so far; whether the listener is bound
    active,        \* manifestHolder
    loader,        \* "off", "pointer" (about to read it), "body", "idle"
    seen,          \* the hash the loader read from the pointer
    req,           \* where each request is
    entity,        \* what it asks for
    plan,          \* the manifest HandleTrigger captured
    checks         \* the rule body resolveChecks read

engineVars  == <<boots, up, active, loader, seen>>
requestVars == <<req, entity, plan, checks>>
cpVars      == <<pubVars, engineVars, requestVars>>

-----------------------------------------------------------------------------
(* Loader. *)

(* fetchAndVerify without runContractChecks. *)
AcceptsAny(m) == m \in bodies

(* fetchAndVerify succeeds: body present, hash as declared (an object is its
   hash), parsed, and within the engine's contract. *)
Accepts(m) == m \in bodies /\ m \in Compatible

Boot ==
    /\ loader = "off"
    /\ boots < MaxBoots
    /\ boots' = boots + 1
    /\ loader' = "pointer"
    /\ UNCHANGED <<pubVars, up, active, seen, requestVars>>

(* The ticker of loaderRefreshLoop. *)
RefreshTick ==
    /\ loader = "idle"
    /\ loader' = "pointer"
    /\ UNCHANGED <<pubVars, boots, up, active, seen, requestVars>>

(* The pointer read from a cache that may still hold an earlier version. *)
ReadCachedPointer ==
    /\ loader = "pointer"
    /\ \E i \in DOMAIN versions : /\ seen' = versions[i]
                                  /\ loader' = IF versions[i] = active THEN "idle" ELSE "body"
    /\ UNCHANGED <<pubVars, boots, up, active, requestVars>>

(* readPointer, then the hash short-circuit of Refresh (a starting engine holds
   no manifest, so it never takes it). *)
ReadPointer ==
    /\ loader = "pointer"
    /\ Pointer # Null
    /\ seen' = Pointer
    /\ loader' = IF Pointer = active THEN "idle" ELSE "body"
    /\ UNCHANGED <<pubVars, boots, up, active, requestVars>>

FetchAndVerify ==
    /\ loader = "body"
    /\ Accepts(seen)
    /\ active' = seen
    /\ up' = TRUE
    /\ loader' = "idle"
    /\ UNCHANGED <<pubVars, boots, seen, requestVars>>

(* A refresh that fails ends the loop. *)
LoadFailsForGood ==
    /\ loader \in {"pointer", "body"}
    /\ loader' = "off"
    /\ UNCHANGED <<pubVars, boots, up, active, seen, requestVars>>

(* A load that fails: no pointer, a failed read, a manifest that is refused.
   At startup main exits; a refresh keeps the manifest it has. *)
LoadFails ==
    /\ loader \in {"pointer", "body"}
    /\ loader' = IF up THEN "idle" ELSE "off"
    /\ UNCHANGED <<pubVars, boots, up, active, seen, requestVars>>

(* The process dies with everything it holds. *)
Crash ==
    /\ loader # "off"
    /\ loader' = "off"
    /\ up' = FALSE
    /\ active' = Null
    /\ seen' = Null
    /\ req' = [q \in Requests |-> IF req[q] \in {"captured", "resolving"} THEN "dropped" ELSE req[q]]
    /\ UNCHANGED <<pubVars, boots, entity, plan, checks>>

-----------------------------------------------------------------------------
(* HandleTrigger, and the resolveChecks closure it calls. *)

CaptureManifest(q, e) ==
    /\ up
    /\ req[q] = "none"
    /\ entity' = [entity EXCEPT ![q] = e]
    /\ plan' = [plan EXCEPT ![q] = active]
    /\ req' = [req EXCEPT ![q] = "captured"]
    /\ UNCHANGED <<pubVars, engineVars, checks>>

(* The entity looked up and taken for found. *)
FindRuleUnchecked(q) ==
    /\ req[q] = "captured"
    /\ checks' = [checks EXCEPT ![q] = RuleOf[active][entity[q]]]
    /\ req' = [req EXCEPT ![q] = "resolving"]
    /\ UNCHANGED <<pubVars, engineVars, entity, plan>>

(* resolveChecks reads the holder again and looks the entity up. *)
FindRule(q) ==
    /\ req[q] = "captured"
    /\ checks' = [checks EXCEPT ![q] = RuleOf[active][entity[q]]]
    /\ req' = [req EXCEPT ![q] = IF RuleOf[active][entity[q]] = Null THEN "not_found" ELSE "resolving"]
    /\ UNCHANGED <<pubVars, engineVars, entity, plan>>

(* The rule body is read; the runner is dispatched under the plan's version. *)
ReadRule(q) ==
    /\ req[q] = "resolving"
    /\ req' = [req EXCEPT ![q] = IF checks[q] \in yamls THEN "dispatched" ELSE "rule_missing"]
    /\ UNCHANGED <<pubVars, engineVars, entity, plan, checks>>

(* The read fails, or the rule does not parse or exceeds a cost guardrail. *)
ResolveFails(q) ==
    /\ req[q] = "resolving"
    /\ req' = [req EXCEPT ![q] = "bad_gateway"]
    /\ UNCHANGED <<pubVars, engineVars, entity, plan, checks>>

-----------------------------------------------------------------------------
LoaderStep == Boot \/ RefreshTick \/ ReadPointer \/ FetchAndVerify \/ LoadFails \/ Crash

RequestStep ==
    \E q \in Requests : \/ \E e \in Entities : CaptureManifest(q, e)
                        \/ FindRule(q)
                        \/ ReadRule(q)
                        \/ ResolveFails(q)

CLIStep == PubNext /\ UNCHANGED <<engineVars, requestVars>>

Init ==
    /\ PubInit
    /\ boots = 0 /\ up = FALSE /\ active = Null /\ loader = "off" /\ seen = Null
    /\ req = [q \in Requests |-> "none"]
    /\ entity = [q \in Requests |-> Null]
    /\ plan = [q \in Requests |-> Null]
    /\ checks = [q \in Requests |-> Null]

Next == CLIStep \/ LoaderStep \/ RequestStep

Spec == Init /\ [][Next]_cpVars

(* The ticker keeps firing, every store call returns, and a store that is asked
   again and again answers in the end. *)
Fairness ==
    /\ WF_cpVars(RefreshTick)
    /\ WF_cpVars(ReadPointer \/ FetchAndVerify \/ LoadFails)
    /\ SF_cpVars(ReadPointer)
    /\ SF_cpVars(FetchAndVerify)

-----------------------------------------------------------------------------
TypeOK ==
    /\ PubTypeOK
    /\ boots \in 0 .. MaxBoots
    /\ up \in BOOLEAN
    /\ active \in Manifests \cup {Null}
    /\ loader \in {"off", "pointer", "body", "idle"}
    /\ seen \in Manifests \cup {Null}
    /\ req \in [Requests -> {"none", "captured", "resolving", "dispatched", "not_found",
                             "bad_gateway", "rule_missing", "dropped"}]
    /\ entity \in [Requests -> Entities \cup {Null}]
    /\ plan \in [Requests -> Manifests \cup {Null}]
    /\ checks \in [Requests -> Yamls \cup {Null}]

(* Some version of the pointer named m. *)
Published(m) == \E i \in DOMAIN versions : versions[i] = m

(* An engine that accepts triggers holds a manifest, whatever is published
   meanwhile: one the pointer has named, that its contract checks accept and
   whose rule bodies are all in the bucket (ADR-0007 fail-closed startup and
   refuse-swap; loader.go:163-208, main.go:607-635). *)
ServesPublished ==
    up => /\ active \in Compatible
          /\ Published(active)
          /\ YamlsOf[active] \subseteq yamls

(* No trigger meets a rule body that is not in the bucket, though the manifest
   may be swapped, rolled back or republished between the lookup in the holder
   and the read of the body (main.go:314-333). *)
NoRuleMissing ==
    \A q \in Requests : req[q] # "rule_missing"

(* A running engine catches up: if the pointer settles on a manifest the engine
   accepts and the engine stays up, the manifest it serves settles on it too,
   despite refused refreshes and failed reads before (main.go:607-635). *)
Converges ==
    \A m \in Compatible :
        (<>[](up /\ Pointer = m)) => (<>[](active = m))

(* A dispatched execution runs the checks of the manifest it was planned under
   and whose ruleset_version its rows carry: the comment at main.go:305-308 and
   ADR-0007 section 3. *)
PlanIsolation ==
    \A q \in Requests :
        req[q] = "dispatched" => checks[q] = RuleOf[plan[q]][entity[q]]
=============================================================================
