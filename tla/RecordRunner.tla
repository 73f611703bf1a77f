---------------------------- MODULE RecordRunner -----------------------------
(***************************************************************************)
(* engine/internal/runner/record_runner.go: the poll loop of one           *)
(* record-mode rule over one Kafka topic.                                  *)
(*                                                                         *)
(* A record is its partition and offset (counted from 1); log gives its    *)
(* event time and is what the topic holds.  The runner is one goroutine,   *)
(* so a record is handled in one step, except that the engine may die      *)
(* between the dispatch of a window and the commit of its offsets: these   *)
(* are steps of their own.  A partition delivers in offset order,          *)
(* partitions interleave freely.                                           *)
(* dispatcher.Run is Runner's Start..WriteTerminalRow; here it succeeds or *)
(* fails.                                                                  *)
(***************************************************************************)
EXTENDS Integers, Sequences, FiniteSets, FiniteSetsExt

CONSTANTS
    Partitions,
    Logs,                  \* the contents the topic may have
    WindowDuration, LatenessTolerance,
    Second,                \* one second, in the unit of the event times
    CommitMaxAttempts,     \* recordCommitMaxAttempts
    Null,
    MaxRestarts, MaxFailures    \* bounds on engine restarts and failed dispatches

ASSUME RecordAssumption ==
    /\ Logs \subseteq [Partitions -> Seq(Nat)]
    /\ WindowDuration \in Nat \ {0}
    /\ LatenessTolerance \in Nat
    /\ Second \in Nat \ {0}
    /\ CommitMaxAttempts \in Nat \ {0}
    /\ MaxRestarts \in Nat /\ MaxFailures \in Nat
ASSUME NullAssumption ==
    /\ Null \notin Partitions \X Nat
    /\ Null \notin [start : Nat, records : SUBSET (Partitions \X Nat)]

VARIABLES
    log,                   \* log[p][i]: event time of the i-th record of p
    next, committed,       \* per partition: offset to read next, and to resume from
    marked,                \* per partition: the client's mark, kept when a commit fails
    watermark, active, lateDropped,     \* entityState; lateDropped as the set it counts
    phase, pending, tries, \* inside handleFetched: the record that closes the window
    dispatches,            \* every dispatcher.Run call, in order, and its result
    restarts

broker == <<log, next, committed, marked>>
state  == <<watermark, active, lateDropped, phase, pending, tries>>
vars   == <<broker, state, dispatches, restarts>>

Records      == UNION {{p} \X DOMAIN log[p] : p \in Partitions}
Timestamp(f) == log[f[1]][f[2]]

WindowOf(f)  == Timestamp(f) - (Timestamp(f) % WindowDuration)

(* The watermark has passed the window's end and the tolerance. *)
GraceOver(start, mark) == mark > start + WindowDuration + LatenessTolerance

(* Append f to window w, then the post-append close check. *)
AppendTo(w, f, mark) ==
    /\ active' = [w EXCEPT !.records = @ \cup {f}]
    /\ phase' = IF GraceOver(w.start, mark) THEN "dispatch" ELSE "poll"

Open(f) == [start |-> WindowOf(f), records |-> {}]

-----------------------------------------------------------------------------
(* handleFetched, up to a close of the active window. *)

HandleFetched(p) ==
    LET f    == <<p, next[p]>>
        mark == Max({watermark, Timestamp(f)})
        w    == IF active = Null THEN Open(f) ELSE active
    IN  /\ phase = "poll"
        /\ next[p] <= Len(log[p])
        /\ next' = [next EXCEPT ![p] = @ + 1]
        /\ watermark' = mark
        /\ \/ /\ WindowOf(f) < w.start
              /\ lateDropped' = lateDropped \cup {f}
              /\ UNCHANGED <<active, phase, pending>>
           \/ /\ WindowOf(f) > w.start
              /\ phase' = "dispatch"
              /\ pending' = f
              /\ UNCHANGED <<active, lateDropped>>
           \/ /\ WindowOf(f) = w.start
              /\ AppendTo(w, f, mark)
              /\ UNCHANGED <<lateDropped, pending>>
        /\ UNCHANGED <<log, committed, marked, tries, dispatches, restarts>>

-----------------------------------------------------------------------------
(* closeAndDispatch. *)

Dispatch(ok) ==
    dispatches' = Append(dispatches, [start |-> active.start, records |-> active.records,
                                      late |-> lateDropped, ok |-> ok, life |-> restarts])

(* The record that caused the close forgotten. *)
WindowClosedOnly ==
    /\ lateDropped' = {}
    /\ pending' = Null
    /\ tries' = 0
    /\ active' = Null
    /\ phase' = "poll"

(* The drop counter not reset with the window. *)
WindowClosedLateKept ==
    /\ pending' = Null
    /\ tries' = 0
    /\ UNCHANGED lateDropped
    /\ IF pending = Null
       THEN active' = Null /\ phase' = "poll"
       ELSE AppendTo(Open(pending), pending, watermark)

(* The end of closeAndDispatch, and what handleFetched still does with the
   record that caused the close. *)
WindowClosed ==
    /\ lateDropped' = {}
    /\ pending' = Null
    /\ tries' = 0
    /\ IF pending = Null
       THEN active' = Null /\ phase' = "poll"
       ELSE AppendTo(Open(pending), pending, watermark)

DispatchSucceeds ==
    /\ phase = "dispatch"
    /\ Dispatch(TRUE)
    /\ phase' = "commit"
    /\ UNCHANGED <<broker, watermark, active, lateDropped, pending, tries, restarts>>

DispatchFails ==
    /\ phase = "dispatch"
    /\ Cardinality({i \in DOMAIN dispatches : ~dispatches[i].ok}) < MaxFailures
    /\ Dispatch(FALSE)
    /\ WindowClosed
    /\ UNCHANGED <<broker, watermark, restarts>>

(* FranzConsumer.Commit: the records given raise the client's mark of their
   partition; a mark no broker has taken yet is still there. *)
HighWater(p) == Max({marked[p]} \cup {f[2] + 1 : f \in {g \in active.records : g[1] = p}})

(* The poll position instead of the window's own records. *)
PolledOffsets == next

MarkedOffsets == [p \in Partitions |-> HighWater(p)]

(* commitWithRetry: all marks are flushed, those of earlier windows included; a
   failed attempt may have reached the broker. *)
Commit(outcome) ==
    /\ phase = "commit"
    /\ marked' = MarkedOffsets
    /\ committed' = IF outcome = "lost" THEN committed ELSE marked'
    /\ IF outcome = "ok" \/ tries + 1 = CommitMaxAttempts
       THEN WindowClosed
       ELSE /\ tries' = tries + 1
            /\ UNCHANGED <<active, lateDropped, phase, pending>>
    /\ UNCHANGED <<log, next, watermark, dispatches, restarts>>

(* The consumer group resumes where polling had got to. *)
RestartAtPoll ==
    /\ restarts < MaxRestarts
    /\ restarts' = restarts + 1
    /\ watermark' = 0 /\ active' = Null /\ lateDropped' = {}
    /\ phase' = "poll" /\ pending' = Null /\ tries' = 0
    /\ UNCHANGED <<broker, dispatches>>

(* The consumer group's offsets are not used. *)
RestartAtBeginning ==
    /\ restarts < MaxRestarts
    /\ restarts' = restarts + 1
    /\ next' = [p \in Partitions |-> 1]
    /\ marked' = committed
    /\ watermark' = 0 /\ active' = Null /\ lateDropped' = {}
    /\ phase' = "poll" /\ pending' = Null /\ tries' = 0
    /\ UNCHANGED <<log, committed, dispatches>>

(* The engine stops, in the middle of anything, and starts again: the consumer
   group resumes at the committed offsets, and the window state and the marks
   are gone. *)
Restart ==
    /\ restarts < MaxRestarts
    /\ restarts' = restarts + 1
    /\ next' = committed
    /\ marked' = committed
    /\ watermark' = 0 /\ active' = Null /\ lateDropped' = {}
    /\ phase' = "poll" /\ pending' = Null /\ tries' = 0
    /\ UNCHANGED <<log, committed, dispatches>>

Init ==
    /\ log \in Logs
    /\ next = [p \in Partitions |-> 1]
    /\ committed = [p \in Partitions |-> 1] /\ marked = [p \in Partitions |-> 1]
    /\ watermark = 0 /\ active = Null /\ lateDropped = {}
    /\ phase = "poll" /\ pending = Null /\ tries = 0
    /\ dispatches = <<>>
    /\ restarts = 0

Next ==
    \/ \E p \in Partitions : HandleFetched(p)
    \/ DispatchSucceeds
    \/ DispatchFails
    \/ \E o \in {"ok", "lost", "ambiguous"} : Commit(o)
    \/ Restart

Spec == Init /\ [][Next]_vars

-----------------------------------------------------------------------------
Dispatched == {dispatches[i] : i \in DOMAIN dispatches}

TypeOK ==
    /\ \A p \in Partitions : /\ next[p] \in 1 .. Len(log[p]) + 1
                             /\ marked[p] \in 1 .. next[p] /\ committed[p] \in 1 .. marked[p]
    /\ watermark \in Nat
    /\ active # Null => active.start \in Nat /\ active.records \subseteq Records
    /\ lateDropped \subseteq Records
    /\ phase \in {"poll", "dispatch", "commit"}
    /\ pending \in Records \cup {Null}
    /\ tries \in 0 .. CommitMaxAttempts - 1
    /\ restarts \in 0 .. MaxRestarts

(* No record is passed over in silence: a record below the committed offset, which
   no restart will read again, was handed to dispatcher.Run or counted in the
   late_dropped_count of a run, whatever failed, was retried or was replayed
   (record_runner.go:407-459). *)
CommittedAccounted ==
    \A f \in Records : f[2] < committed[f[1]] =>
        \E d \in Dispatched : f \in d.records \cup d.late

(* An execution holds records of its own window only (record_runner.go:320-376). *)
OwnWindowOnly ==
    \A d \in Dispatched : d.records # {} /\ \A f \in d.records : WindowOf(f) = d.start

(* Event time follows offset order, in a single partition. *)
InOrder ==
    \E p \in Partitions : /\ \A q \in Partitions \ {p} : log[q] = <<>>
                          /\ \A i, j \in DOMAIN log[p] : i < j => log[p][i] <= log[p][j]

(* When one partition in event-time order is read, every execution of a window holds all
   its records, also when a restart, a failed dispatch or a failed commit makes
   the window run again: the replay "re-populate[s] the same window
   deterministically" (record_runner.go:389-395). *)
WindowsComplete ==
    InOrder => \A d \in Dispatched : d.records = {f \in Records : WindowOf(f) = d.start}

(* A window is evaluated once, and windows in event-time order, until the engine
   restarts (record_runner.go:320-376, 443-459): a closed window is never opened
   again, by a record a slow partition delivers after the close, by a failed
   dispatch or commit, or by the record that caused the close. *)
WindowsAdvance ==
    \A i, j \in DOMAIN dispatches :
        (i < j /\ dispatches[i].life = dispatches[j].life) =>
            dispatches[i].start < dispatches[j].start

(* late_dropped_count belongs to the run that reports it (record_runner.go:332,
   420, 437, 458): it counts records of windows older than the run's own, and as
   long as the engine is not restarted no record is counted by two runs, although
   the counter outlives the window during which the record was dropped. *)
LateCountedOnce ==
    /\ \A d \in Dispatched : \A f \in d.late : WindowOf(f) < d.start
    /\ restarts = 0 => \A i, j \in DOMAIN dispatches :
          i # j => dispatches[i].late \cap dispatches[j].late = {}

(* The ends in whole minutes. *)
IdentityInMinutes(d) ==
    <<d.start \div (60 * Second), (d.start + WindowDuration) \div (60 * Second)>>

(* What the execution id keeps of a window: its ends in whole seconds. *)
IdentityOf(d) == <<d.start \div Second, (d.start + WindowDuration) \div Second>>

(* Two windows of a rule are two executions (execution_id.go:66-67): the identity
   drops the fraction of a second, and windows of a second or more never meet
   there, so the canonical view never folds one window into another. *)
WindowsIdentified ==
    WindowDuration >= Second =>
        \A d, e \in Dispatched : IdentityOf(d) = IdentityOf(e) => d.start = e.start

(* "Late records never reflow into a closed execution" (ADR-0024, lines 148-150):
   a record that a successful execution reported as dropped is in no later one. *)
LateNeverReflows ==
    \A i, j \in DOMAIN dispatches :
        (i < j /\ dispatches[i].ok) => dispatches[i].late \cap dispatches[j].records = {}

(* "On dispatch failure the commit is skipped; the records remain uncommitted in
   the broker" (record_runner.go:389-391): until they are evaluated, the records
   of a failed window are above the committed offset. *)
FailedStayUncommitted ==
    \A d \in Dispatched : ~d.ok =>
        \A f \in d.records : \/ f[2] >= committed[f[1]]
                             \/ \E e \in Dispatched : e.ok /\ f \in e.records
=============================================================================
