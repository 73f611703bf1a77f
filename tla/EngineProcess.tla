---------------------------- MODULE EngineProcess ----------------------------
(***************************************************************************)
(* The dq-engine process (engine/cmd/dq-engine/main.go): the order in      *)
(* which it boots, the goroutines it starts, the triggers its listener     *)
(* takes, and how it stops.                                                *)
(*                                                                         *)
(* A boot step either succeeds or ends the process with the exit code main *)
(* gives it.  The process may be killed at any moment and started again,   *)
(* with another configuration; the dataset and the pointer outlive it.     *)
(* The loader's steps are in ControlPlane, the rules in RuleLifecycle and  *)
(* the attempts in Runner; here a load succeeds or fails, an entity        *)
(* resolves or not and an attempt runs or is over.                         *)
(***************************************************************************)
EXTENDS TriggerDecoder, LogLevels, FiniteSets

CONSTANTS
    Null,
    EnvConfigs,        \* what env.Select finds: name -> [level, placeholder, topic]
    Environments,      \* the process environments tried: [name, pairs]
    Components,        \* the component names of the loggers
    Versions, EntitiesOf,   \* ruleset versions, and the entities of each
    Requests, Inputs,  \* HTTP requests, and what they may carry
    RecordRunners,     \* the record runners the manifest asks for
    CatalogKinds, RegisteredKinds,
    DrainTicks, WaitTicks,  \* the 5 s and the 10 s of main's shutdown
    MaxBoots           \* bound on process starts

ASSUME ProcessAssumption ==
    /\ MaxBoots \in Nat /\ DrainTicks \in Nat \ {0} /\ WaitTicks \in Nat \ {0}
    /\ DOMAIN EntitiesOf = Versions
    /\ Null \notin Versions \cup {"200", "500", "503", "cut"}

ASSUME InputsAssumption ==
    /\ Versions \subseteq Seq(STRING) /\ Inputs \subseteq RequestType
    /\ Components \subseteq Seq(STRING)
    /\ Environments \subseteq [name : STRING, pairs : Seq(PairType)]

VARIABLES
    pointer,           \* ruleset_version of the published manifest, or Null
    dataset,           \* what exists in BigQuery: of "dataset", Tables and "view"
    boots, stage, exit,
    environ,           \* DQ_ENV and DQ_LOG_LEVELS of this start
    signalled,         \* ctx is done
    held,              \* manifestHolder: the version it holds, or Null
    loops,             \* the goroutines wg counts: "off", "running" or "done"
    timer,             \* ticks since the drain, then the wait, began
    drained,           \* the ticks the drain of the listener took
    req                \* what each request carries, where it is, what it was told

clocks == <<timer, drained>>
vars == <<pointer, dataset, boots, stage, exit, environ, signalled, held, loops, clocks, req>>

Tables == {"dq_executions", "dq_check_results"}

Loops == {"refresh", "orphan", "metrics", "http"} \cup RecordRunners

(* main, in order, up to the start of the goroutines. *)
BootStages == <<"readEnv", "placeholders", "gcs", "bigquery", "alerts", "dataset",
                "dq_executions", "dq_check_results", "view", "load", "registry", "runners">>

Booting == stage \in Range(BootStages)
Alive   == stage \notin {"down", "exited"}

NextStage ==
    LET i == CHOOSE k \in DOMAIN BootStages : BootStages[k] = stage
    IN  IF i = Len(BootStages) THEN "start" ELSE BootStages[i + 1]

Config == EnvConfigs[environ.name]
LogMap == ParseLogLevels(environ.pairs)

-----------------------------------------------------------------------------
(* Process starts and ends. *)

(* What the end of the process does to its requests: a handler that has not
   answered loses its connection, an attempt stops where it is.  "cut" is the
   handler an orderly end did not give its time. *)
Abandoned(code) ==
    [q \in Requests |->
        CASE req[q].phase = "resolving" ->
                [req[q] EXCEPT !.phase = "over", !.answer = IF code = 0 /\ drained < DrainTicks THEN "cut" ELSE "lost"]
          [] req[q].phase = "attempt" -> [req[q] EXCEPT !.phase = "over"]
          [] OTHER -> req[q]]

Ends(code) ==
    /\ stage' = "exited"
    /\ exit' = code
    /\ loops' = [g \in Loops |-> "off"]
    /\ held' = Null
    /\ req' = Abandoned(code)

Boot ==
    /\ stage \in {"down", "exited"}
    /\ boots < MaxBoots
    /\ boots' = boots + 1
    /\ stage' = Head(BootStages)
    /\ exit' = Null /\ signalled' = FALSE /\ timer' = 0 /\ drained' = 0
    /\ environ' \in Environments
    /\ UNCHANGED <<pointer, dataset, held, loops, req>>

(* SIGKILL, an OOM kill, a node lost; and SIGTERM before NotifyContext. *)
Crash ==
    /\ Alive
    /\ Ends(137)
    /\ UNCHANGED <<pointer, dataset, boots, environ, signalled, clocks>>

Signal ==
    /\ Alive
    /\ stage \notin {"readEnv", "placeholders"}
    /\ ~signalled
    /\ signalled' = TRUE
    /\ UNCHANGED <<pointer, dataset, boots, stage, exit, environ, held, loops, clocks, req>>

-----------------------------------------------------------------------------
(* Boot. *)

Passes == stage' = NextStage /\ UNCHANGED <<exit, loops, req>>

EnvReadable ==
    /\ environ.name \in DOMAIN EnvConfigs
    /\ Config.level \in ConfigLevels
    /\ LogLevelsParse(environ.pairs)

(* readEnv, then validateNoPlaceholders. *)
Configure ==
    /\ \/ stage = "readEnv" /\ (IF EnvReadable THEN Passes /\ UNCHANGED held ELSE Ends(2))
       \/ stage = "placeholders" /\ (IF environ.name = "local" \/ ~Config.placeholder
                                     THEN Passes /\ UNCHANGED held ELSE Ends(2))
    /\ UNCHANGED <<pointer, dataset, boots, environ, signalled, clocks>>

(* A client that cannot be made ends the boot; without a topic the alerts
   publisher is the NoopPublisher and needs none. *)
NewClient(made) ==
    /\ stage \in {"gcs", "bigquery", "alerts"}
    /\ stage = "alerts" /\ Config.topic = "" => made
    /\ IF made THEN Passes /\ UNCHANGED held ELSE Ends(1)
    /\ UNCHANGED <<pointer, dataset, boots, environ, signalled, clocks>>

(* Any error of a Create taken for AlreadyExists. *)
EnsureTolerant(outcome) ==
    /\ stage \in {"dataset"} \cup Tables
    /\ outcome # "error" => ~signalled
    /\ outcome = "created" => stage \notin dataset
    /\ outcome = "exists" => stage \in dataset
    /\ dataset' = dataset \cup (IF outcome = "created" THEN {stage} ELSE {})
    /\ Passes /\ UNCHANGED held
    /\ UNCHANGED <<pointer, boots, environ, signalled, clocks>>

(* EnsureSchema, one Create a step: AlreadyExists is as good as created, any
   other error ends the boot. *)
Ensure(outcome) ==
    /\ stage \in {"dataset"} \cup Tables
    /\ outcome # "error" => ~signalled
    /\ outcome = "created" => stage \notin dataset
    /\ outcome = "exists" => stage \in dataset
    /\ dataset' = dataset \cup (IF outcome = "created" THEN {stage} ELSE {})
    /\ IF outcome = "error" THEN Ends(1) ELSE Passes /\ UNCHANGED held
    /\ UNCHANGED <<pointer, boots, environ, signalled, clocks>>

(* The view is best effort. *)
EnsureView(made) ==
    /\ stage = "view"
    /\ made => ~signalled
    /\ dataset' = dataset \cup (IF made THEN {"view"} ELSE {})
    /\ Passes
    /\ UNCHANGED <<pointer, boots, environ, signalled, held, clocks>>

(* loader.New, Load and the holder's first manifest. *)
Load(loaded) ==
    /\ stage = "load"
    /\ loaded => pointer # Null /\ ~signalled
    /\ IF loaded THEN held' = pointer /\ Passes ELSE Ends(1)
    /\ UNCHANGED <<pointer, dataset, boots, environ, signalled, clocks>>

(* verifyHandlerRegistryAgainstCatalog. *)
VerifyRegistry ==
    /\ stage = "registry"
    /\ IF CatalogKinds \subseteq RegisteredKinds THEN Passes /\ UNCHANGED held ELSE Ends(1)
    /\ UNCHANGED <<pointer, dataset, boots, environ, signalled, clocks>>

(* buildRecordRunners reads every rule of the manifest. *)
BuildRunners(built) ==
    /\ stage = "runners"
    /\ built => ~signalled \/ EntitiesOf[held] = {}
    /\ IF built THEN Passes /\ UNCHANGED held ELSE Ends(1)
    /\ UNCHANGED <<pointer, dataset, boots, environ, signalled, clocks>>

(* wg.Add and the go statements. *)
StartLoops ==
    /\ stage = "start"
    /\ stage' = "serving"
    /\ loops' = [g \in Loops |-> "running"]
    /\ UNCHANGED <<pointer, dataset, boots, exit, environ, signalled, held, clocks, req>>

BootStep ==
    \/ Configure
    \/ \E made \in BOOLEAN : NewClient(made) \/ EnsureView(made) \/ Load(made) \/ BuildRunners(made)
    \/ \E outcome \in {"created", "exists", "error"} : Ensure(outcome)
    \/ VerifyRegistry
    \/ StartLoops

-----------------------------------------------------------------------------
(* The publisher and the refresh loop. *)

Publish(v) ==
    /\ PublishesVersion(v)
    /\ pointer' = v
    /\ UNCHANGED <<dataset, boots, stage, exit, environ, signalled, held, loops, clocks, req>>

Refresh ==
    /\ loops["refresh"] = "running"
    /\ ~signalled
    /\ held' = pointer
    /\ UNCHANGED <<pointer, dataset, boots, stage, exit, environ, signalled, loops, clocks, req>>

-----------------------------------------------------------------------------
(* HandleTrigger. *)

Unserved == [phase |-> "none", in |-> Null, version |-> Null, answer |-> Null]

(* The method, the body, the manifest captured, the window parsed and the
   execution_id computed.  A panic ends the connection without an answer. *)
HandleTrigger(q, in) ==
    LET t      == Typed(in)
        answer == FirstRefusal(<<
                      Refusal("405", in.method # "POST"),
                      Refusal("400", DecodeRequest(in) # "ok"),
                      Refusal("503", held = Null),
                      Refusal("panic", WindowPanics(t)),
                      Refusal("500", held # Null /\ ComputeFails(held, t.entity, t.source)) >>)
    IN  /\ stage = "serving"
        /\ loops["http"] = "running"
        /\ req[q] = Unserved
        /\ req' = [req EXCEPT ![q] =
                      IF answer = "ok"
                      THEN [phase |-> "resolving", in |-> in, version |-> held, answer |-> Null]
                      ELSE [Unserved EXCEPT !.phase = "over", !.answer = answer]]
        /\ UNCHANGED <<pointer, dataset, boots, stage, exit, environ, signalled, held, loops, clocks>>

(* resolveChecks, which reads the holder again; then the go statement and the
   answer. *)
Resolve(q, read) ==
    /\ req[q].phase = "resolving"
    /\ req' = [req EXCEPT
                 ![q].phase  = IF read /\ Typed(req[q].in).entity \in EntitiesOf[held] THEN "attempt" ELSE "over",
                 ![q].answer = IF Typed(req[q].in).entity \notin EntitiesOf[held] THEN "404"
                               ELSE IF read THEN "200" ELSE "502"]
    /\ UNCHANGED <<pointer, dataset, boots, stage, exit, environ, signalled, held, loops, clocks>>

AttemptEnds(q) ==
    /\ req[q].phase = "attempt"
    /\ req' = [req EXCEPT ![q].phase = "over"]
    /\ UNCHANGED <<pointer, dataset, boots, stage, exit, environ, signalled, held, loops, clocks>>

-----------------------------------------------------------------------------
(* The goroutines, and the end of main. *)

(* The listener or a record runner fails: the error is logged. *)
LoopFails(g) ==
    /\ g \in {"http"} \cup RecordRunners
    /\ stage = "serving"
    /\ loops[g] = "running"
    /\ loops' = [loops EXCEPT ![g] = "done"]
    /\ UNCHANGED <<pointer, dataset, boots, stage, exit, environ, signalled, held, clocks, req>>

(* A loop sees ctx done, ListenAndServe sees Shutdown. *)
LoopEnds(g) ==
    /\ loops[g] = "running"
    /\ IF g = "http" THEN stage \in {"draining", "waiting", "closing"} ELSE signalled
    /\ loops' = [loops EXCEPT ![g] = "done"]
    /\ UNCHANGED <<pointer, dataset, boots, stage, exit, environ, signalled, held, clocks, req>>

Shutdown ==
    /\ stage = "serving"
    /\ signalled
    /\ stage' = "draining" /\ timer' = 0
    /\ UNCHANGED <<pointer, dataset, boots, exit, environ, signalled, held, loops, drained, req>>

(* Time passes; what is over a deadline is not counted. *)
Tick ==
    /\ \/ stage = "draining" /\ timer < DrainTicks
       \/ stage = "waiting" /\ timer < WaitTicks
    /\ timer' = timer + 1
    /\ UNCHANGED <<pointer, dataset, boots, stage, exit, environ, signalled, held, loops, drained, req>>

(* Shutdown under the signal's context, which is done already. *)
DrainedAtOnce ==
    /\ stage = "draining"
    /\ stage' = "waiting" /\ timer' = 0 /\ drained' = timer
    /\ UNCHANGED <<pointer, dataset, boots, exit, environ, signalled, held, loops, req>>

(* Shutdown returns when no handler is left, or when its context ends. *)
Drained ==
    /\ stage = "draining"
    /\ (\A q \in Requests : req[q].phase # "resolving") \/ timer = DrainTicks
    /\ stage' = "waiting" /\ timer' = 0 /\ drained' = timer
    /\ UNCHANGED <<pointer, dataset, boots, exit, environ, signalled, held, loops, req>>

(* main waits for the goroutines however long they take. *)
ExitWhenDone ==
    /\ stage = "waiting"
    /\ \A g \in Loops : loops[g] = "done"
    /\ stage' = "closing"
    /\ UNCHANGED <<pointer, dataset, boots, exit, environ, signalled, held, loops, clocks, req>>

(* wg.Wait returns or the 10 s are over; main returns either way. *)
Exit ==
    /\ stage = "waiting"
    /\ (\A g \in Loops : loops[g] = "done") \/ timer = WaitTicks
    /\ stage' = "closing"
    /\ UNCHANGED <<pointer, dataset, boots, exit, environ, signalled, held, loops, clocks, req>>

(* The deferred calls of main, then the end of the process: closePublisher, which
   waits in Publisher.Stop for every batch to be sent, and the clients' Close. *)
Close ==
    /\ stage = "closing"
    /\ Ends(0)
    /\ UNCHANGED <<pointer, dataset, boots, environ, signalled, clocks>>

-----------------------------------------------------------------------------
RequestStep ==
    \E q \in Requests : \/ \E in \in Inputs : HandleTrigger(q, in)
                        \/ \E read \in BOOLEAN : Resolve(q, read)
                        \/ AttemptEnds(q)

LoopStep == Refresh \/ \E g \in Loops : LoopFails(g) \/ LoopEnds(g)

Init ==
    /\ pointer = Null /\ dataset = {}
    /\ boots = 0 /\ stage = "down" /\ exit = Null
    /\ environ = Null /\ signalled = FALSE /\ held = Null
    /\ loops = [g \in Loops |-> "off"] /\ timer = 0 /\ drained = 0
    /\ req = [q \in Requests |-> Unserved]

Next ==
    \/ \E v \in Versions : Publish(v)
    \/ Boot \/ Crash \/ Signal
    \/ BootStep
    \/ RequestStep
    \/ LoopStep
    \/ Shutdown \/ Tick \/ Drained \/ Exit \/ Close

Spec == Init /\ [][Next]_vars

(* A boot call returns, time passes, and main runs when ctx is done, Shutdown
   returns or a select is ready.  Nothing is asked of the goroutines: one that
   hangs in a store call must not keep the process.  Nor of Publisher.Stop, which
   takes no context; the NoopPublisher has nothing to flush. *)
FairSpec ==
    /\ Spec
    /\ WF_vars(BootStep)
    /\ WF_vars(Shutdown) /\ WF_vars(Tick) /\ WF_vars(Drained) /\ WF_vars(Exit)
    /\ WF_vars(Close /\ Config.topic = "")

-----------------------------------------------------------------------------
(* The holder is filled before anything can read it. *)
TypeOK ==
    /\ pointer \in Versions \cup {Null}
    /\ dataset \subseteq {"dataset", "view"} \cup Tables
    /\ boots \in 0 .. MaxBoots
    /\ stage \in {"down", "start", "serving", "draining", "waiting", "closing", "exited"} \cup Range(BootStages)
    /\ exit \in {Null, 0, 1, 2, 137}
    /\ environ \in Environments \cup {Null}
    /\ signalled \in BOOLEAN
    /\ timer \in Nat /\ drained \in Nat
    /\ held \in Versions \cup (IF stage \in {"start", "serving", "draining", "waiting", "closing"} THEN {} ELSE {Null})
    /\ loops \in [Loops -> {"off", "running", "done"}]
    /\ \A q \in Requests : req[q].phase \in {"none", "resolving", "attempt", "over"}

Accepted(q) == req[q].answer = "200"

(* A trigger is never answered 500 or 503: the listener is bound after the first
   load, a refresh only replaces a manifest by another, and the pipe that would
   make Compute fail is refused by the decoder and, in a version, by the
   publisher (handler.go:214-256: "in practice this is unreachable"). *)
NoInternalError ==
    \A q \in Requests : req[q].answer \notin {"500", "503"}

(* What the handler accepts the runner accepts: a trigger answered with status
   running passes validateTrigger and computes its id, so Run does not return
   before its first row (runner.go:294-319, after the answer is sent). *)
AcceptedTriggersRun ==
    \A q \in Requests : Accepted(q) =>
        LET t == Typed(req[q].in)
        IN  validateTrigger(t) /\ ~ComputeFails(req[q].version, t.entity, t.source)

(* Two accepted triggers with one execution_id ask for the same thing: ruleset
   version, entity, window and trigger source are all told apart, though the
   formula joins them without escaping (execution_id.go:54-79). *)
IdentityInjective ==
    \A q, r \in Requests :
        LET t == Typed(req[q].in)
            u == Typed(req[r].in)
        IN  ( /\ Accepted(q) /\ Accepted(r)
              /\ ExecutionID(req[q].version, t) = ExecutionID(req[r].version, u) )
            => t = u /\ req[q].version = req[r].version

(* No goroutine and no attempt meets a missing table, whatever an earlier start
   left behind half made: EnsureSchema is idempotent and fatal, and comes first
   (main.go:181-185, bigquery_store.go:71-112). *)
TablesBeforeWriters ==
    ((\E g \in Loops : loops[g] = "running") \/ (\E q \in Requests : req[q].phase = "attempt"))
    => Tables \subseteq dataset

(* An orderly stop leaves a handler without an answer only after the whole 5 s of
   the drain: main drains before it waits for the goroutines, under a context of
   its own, and takes no trigger after that (main.go:405-412). *)
NoHandlerCut ==
    \A q \in Requests : req[q].answer # "cut"

(* A logger's level is that of the longest entry of DQ_LOG_LEVELS that is a
   prefix of its component at dot boundaries, else root's (ADR-0043 clause 3,
   handler.go:128-156). *)
LongestPrefixWins ==
    (Alive /\ stage # "readEnv") =>
        LET root == RootLevel(LogMap, Levels[Config.level])
        IN  \A c \in Components :
                LET entries == {p \in DOMAIN LogMap : c # <<>> /\ Covers(p, c)}
                IN  IF entries = {}
                    THEN resolveLevel(LogMap, root, c) = root
                    ELSE \E p \in entries : /\ \A o \in entries : Len(o) <= Len(p)
                                            /\ resolveLevel(LogMap, root, c) = LogMap[p]

(* A signalled engine ends, at any stage of its boot or of its service, though a
   handler, a goroutine or a record runner hang; only the flush of the alerts
   publisher, where there is one, may keep it (main.go:178, 401-427, 585-592). *)
EngineStops ==
    (Alive /\ signalled) ~> (~Alive \/ (stage = "closing" /\ Config.topic # ""))
=============================================================================
