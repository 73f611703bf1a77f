--------------------------- MODULE OrphanScanProofs ---------------------------
(***************************************************************************)
(* The orphan detector aborts only what was abandoned, and once, for any   *)
(* attempts, executions and clock.  It lists from the canonical view and   *)
(* writes later without looking again, so the argument is about what a     *)
(* listed row still says when it is used: it was the newest row of its     *)
(* execution and older than the threshold, hence its attempt had neither   *)
(* finished (a newer row) nor been aborted (a newer row) nor could it      *)
(* still be at work (the threshold); none of this is ever undone.          *)
(***************************************************************************)
EXTENDS OrphanScan, TLAPS

(* The solver needs a fraction of this; the limit allows for a loaded machine. *)
USE SMTT(60)

(* What a row says of its attempt. *)
RowInv ==
    \A r \in execRows :
        /\ r.exec = ExecOf[r.attempt]
        /\ r.startedAt = started[r.attempt]
        /\ life[r.attempt] # "new"
        /\ r.status \in {"running", "success", "aborted"}
        /\ r.status = "running" => r.recordedAt = started[r.attempt]
        /\ r.status = "aborted" => /\ life[r.attempt] = "abandoned"
                                   /\ r.recordedAt > started[r.attempt]

(* A live attempt is younger than MaxDuration; a finished one has its row. *)
LifeInv ==
    \A a \in Attempts :
        /\ life[a] = "live" => clock <= started[a] + MaxDuration
        /\ life[a] = "finished" =>
              \E r \in execRows : r.attempt = a /\ r.recordedAt > started[a]

(* What a listed row still says when it is finalized. *)
CandidateInv ==
    \A c \in candidates :
        /\ c.status = "running"
        /\ life[c.attempt] = "abandoned"
        /\ c.startedAt + Threshold < clock
        /\ \A r \in execRows : r.attempt = c.attempt => r.status # "aborted"

ScanInv == TypeOK /\ RowInv /\ LifeInv /\ CandidateInv /\ FinalizedOnce

-----------------------------------------------------------------------------
(* The list holds newest rows of their executions, older than the threshold. *)
LEMMA ScanLists ==
    ASSUME TypeOK, Scan, NEW c \in candidates'
    PROVE  /\ c \in execRows /\ c.status = "running"
           /\ c.startedAt + Threshold < clock
           /\ \A r \in execRows : r.exec = c.exec => r.recordedAt <= c.recordedAt
<1>1. PICK view \in CurrentViews : candidates' = ListRunningOlderThan(view, clock - Threshold)
  BY DEF Scan
<1>2. PICK e \in Executions : c = view[e] /\ IsOlderThan(view[e], clock - Threshold)
  BY <1>1 DEF ListRunningOlderThan
<1>3. view[e] \in execRows /\ view[e] \in CanonicalRows(e)
  BY <1>1, <1>2 DEF CurrentViews
<1>4. c.status = "running" /\ c.startedAt < clock - Threshold /\ c \in execRows /\ c.exec = e
  BY <1>2, <1>3 DEF IsOlderThan, CanonicalRows, RowsOf
<1>5. c.startedAt \in Nat /\ clock \in Nat
  BY <1>4 DEF TypeOK
<1> QED  BY <1>2, <1>3, <1>4, <1>5, ThresholdAssumption DEF CanonicalRows, RowsOf

(* A pass lists abandoned attempts only, none of them aborted before. *)
LEMMA ScanStep ==
    ASSUME ScanInv, Scan, UNCHANGED <<life, started>>
    PROVE  ScanInv'
<1>1. execRows' = execRows /\ checkRows' = checkRows /\ clock' = clock /\ scanning' = TRUE
  BY DEF Scan, storeVars
<1>2. ASSUME NEW c \in candidates'
      PROVE  /\ c \in execRows /\ c.status = "running" /\ c.startedAt + Threshold < clock
             /\ life[c.attempt] = "abandoned"
             /\ \A r \in execRows : r.attempt = c.attempt => r.status # "aborted"
  <2>1. /\ c \in execRows /\ c.status = "running" /\ c.startedAt + Threshold < clock
        /\ \A r \in execRows : r.exec = c.exec => r.recordedAt <= c.recordedAt
    BY ScanLists DEF ScanInv
  <2>2. /\ c.attempt \in Attempts /\ c.exec = ExecOf[c.attempt] /\ life[c.attempt] # "new"
        /\ c.startedAt = started[c.attempt] /\ c.recordedAt = started[c.attempt]
        /\ life[c.attempt] \in {"new", "live", "finished", "abandoned"}
        /\ started[c.attempt] \in Nat /\ clock \in Nat
    BY <2>1 DEF ScanInv, TypeOK, RowInv
  <2>3. \A r \in execRows : r.attempt = c.attempt => r.recordedAt <= started[c.attempt] /\ r.recordedAt \in Nat
    BY <2>1, <2>2 DEF ScanInv, RowInv, TypeOK
  <2>4. life[c.attempt] # "live"
    BY <2>1, <2>2, DurationAssumption, ThresholdAssumption DEF ScanInv, LifeInv
  <2>5. life[c.attempt] # "finished"
    BY <2>2, <2>3 DEF ScanInv, LifeInv
  <2>6. \A r \in execRows : r.attempt = c.attempt => r.status # "aborted"
    BY <2>2, <2>3 DEF ScanInv, RowInv
  <2> QED  BY <2>1, <2>2, <2>4, <2>5, <2>6
<1>3. TypeOK'
  BY <1>1, <1>2 DEF ScanInv, TypeOK
<1>4. CandidateInv'
  BY <1>1, <1>2 DEF CandidateInv
<1> QED  BY <1>1, <1>3, <1>4 DEF ScanInv, RowInv, LifeInv, FinalizedOnce

(* The aborted row of a listed attempt is its first. *)
LEMMA FinalizeStep ==
    ASSUME ScanInv, NEW row \in candidates, NEW o \in Outcomes, Finalize(row, o),
           UNCHANGED <<life, started>>
    PROVE  ScanInv'
<1>0. PICK new : new = BuildFollowupRow(row)
  OBVIOUS
<1>1. /\ candidates' = candidates \ {row} /\ scanning' = scanning
      /\ checkRows' = checkRows /\ clock' = clock
      /\ execRows' = execRows \/ execRows' = execRows \cup {new}
  BY <1>0 DEF Finalize, WriteExecutionRow
<1>2. /\ row \in execRows /\ row.status = "running" /\ life[row.attempt] = "abandoned"
      /\ row.startedAt + Threshold < clock
      /\ \A r \in execRows : r.attempt = row.attempt => r.status # "aborted"
  BY DEF ScanInv, CandidateInv, TypeOK
<1>3. /\ row.attempt \in Attempts /\ row.exec \in Execs /\ row.startedAt \in Nat /\ clock \in Nat
      /\ row.exec = ExecOf[row.attempt] /\ row.startedAt = started[row.attempt]
  BY <1>2 DEF ScanInv, TypeOK, RowInv
<1>4. /\ new.exec = row.exec /\ new.attempt = row.attempt /\ new.status = "aborted"
      /\ new.startedAt = row.startedAt /\ new.recordedAt = clock
      /\ new \in [exec : Execs, attempt : Attempts, status : Statuses, startedAt : Nat, recordedAt : Nat]
  BY <1>0, <1>3 DEF BuildFollowupRow, Statuses, Terminal
<1>5. clock > started[row.attempt]
  BY <1>2, <1>3, ThresholdAssumption
<1>6. TypeOK'
  BY <1>1, <1>4 DEF ScanInv, TypeOK
<1>7. RowInv'
  BY <1>1, <1>2, <1>3, <1>4, <1>5 DEF ScanInv, RowInv
<1>8. LifeInv'
  BY <1>1 DEF ScanInv, LifeInv
<1>9. CandidateInv'
  <2> SUFFICES ASSUME NEW c \in candidates'
               PROVE  /\ c.status = "running" /\ life[c.attempt] = "abandoned"
                      /\ c.startedAt + Threshold < clock
                      /\ \A r \in execRows' : r.attempt = c.attempt => r.status # "aborted"
    BY <1>1 DEF CandidateInv
  <2>1. c \in candidates /\ c # row /\ c \in execRows /\ c.status = "running"
    BY <1>1 DEF ScanInv, CandidateInv, TypeOK
  <2>2. c.attempt # row.attempt
    <3> SUFFICES ASSUME c.attempt = row.attempt PROVE FALSE
      OBVIOUS
    <3>1. /\ c \in [exec : Execs, attempt : Attempts, status : Statuses, startedAt : Nat, recordedAt : Nat]
          /\ row \in [exec : Execs, attempt : Attempts, status : Statuses, startedAt : Nat, recordedAt : Nat]
      BY <1>2, <2>1 DEF ScanInv, TypeOK
    <3>2. c.exec = row.exec /\ c.startedAt = row.startedAt /\ c.recordedAt = row.recordedAt /\ c.status = row.status
      BY <1>2, <2>1 DEF ScanInv, RowInv
    <3>3. c = row
      BY <3>1, <3>2
    <3> QED  BY <2>1, <3>3
  <2> QED  BY <1>1, <1>4, <2>1, <2>2 DEF ScanInv, CandidateInv
<1>10. FinalizedOnce'
  BY <1>1, <1>2, <1>4 DEF ScanInv, FinalizedOnce
<1> QED  BY <1>6, <1>7, <1>8, <1>9, <1>10 DEF ScanInv

(* The environment's steps. *)
LEMMA BeginStep ==
    ASSUME ScanInv, NEW a \in Attempts, Begin(a)
    PROVE  ScanInv'
<1>0. PICK new : new = [exec |-> ExecOf[a], attempt |-> a, status |-> "running",
                        startedAt |-> clock, recordedAt |-> clock]
  BY Zenon
<1>1. /\ life[a] = "new" /\ life'[a] = "live" /\ started'[a] = clock
      /\ \A b \in Attempts \ {a} : life'[b] = life[b] /\ started'[b] = started[b]
      /\ life' \in [Attempts -> {"new", "live", "finished", "abandoned"}]
      /\ started' \in [Attempts -> Nat] /\ clock \in Nat
  BY DEF Begin, ScanInv, TypeOK
<1>2. /\ execRows' = execRows \cup {new} /\ checkRows' = checkRows /\ clock' = clock
      /\ candidates' = candidates /\ scanning' = scanning
  BY <1>0, <1>1 DEF Begin, WriteExecutionRow, Row, detectorVars
<1>3. \A r \in execRows : r.attempt \in Attempts \ {a}
  BY <1>1 DEF ScanInv, RowInv, TypeOK
<1>4. TypeOK'
  BY <1>0, <1>1, <1>2, ExecOfAssumption DEF ScanInv, TypeOK, Statuses
<1>5. RowInv'
  BY <1>0, <1>1, <1>2, <1>3 DEF ScanInv, RowInv
<1>6. LifeInv'
  BY <1>1, <1>2, DurationAssumption DEF ScanInv, LifeInv
<1>7. CandidateInv'
  <2>1. \A c \in candidates : c.attempt \in Attempts \ {a}
    BY <1>3 DEF ScanInv, TypeOK
  <2> QED  BY <1>0, <1>1, <1>2, <2>1 DEF ScanInv, CandidateInv
<1>8. FinalizedOnce'
  BY <1>0, <1>2 DEF ScanInv, FinalizedOnce
<1> QED  BY <1>4, <1>5, <1>6, <1>7, <1>8 DEF ScanInv

(* A live attempt that finishes is on no list. *)
LEMMA FinishStep ==
    ASSUME ScanInv, NEW a \in Attempts, Finish(a)
    PROVE  ScanInv'
<1>0. PICK new : new = [exec |-> ExecOf[a], attempt |-> a, status |-> "success",
                        startedAt |-> started[a], recordedAt |-> clock]
  BY Zenon
<1>1. /\ life[a] = "live" /\ life'[a] = "finished" /\ started' = started /\ clock > started[a]
      /\ \A b \in Attempts \ {a} : life'[b] = life[b]
      /\ life' \in [Attempts -> {"new", "live", "finished", "abandoned"}]
      /\ started \in [Attempts -> Nat] /\ clock \in Nat
  BY DEF Finish, ScanInv, TypeOK
<1>2. /\ execRows' = execRows \cup {new} /\ checkRows' = checkRows /\ clock' = clock
      /\ candidates' = candidates /\ scanning' = scanning
  BY <1>0, <1>1 DEF Finish, WriteExecutionRow, Row, detectorVars
<1>3. TypeOK'
  BY <1>0, <1>1, <1>2, ExecOfAssumption DEF ScanInv, TypeOK, Statuses, Terminal
<1>4. \A r \in execRows : r.attempt \in Attempts
  BY DEF ScanInv, TypeOK
<1>5. RowInv'
  BY <1>0, <1>1, <1>2, <1>4 DEF ScanInv, RowInv
<1>6. LifeInv'
  BY <1>0, <1>1, <1>2 DEF ScanInv, LifeInv
<1>7. CandidateInv'
  <2>1. \A c \in candidates : c.attempt \in Attempts \ {a}
    BY <1>1, <1>4 DEF ScanInv, TypeOK, CandidateInv
  <2> QED  BY <1>0, <1>1, <1>2, <2>1 DEF ScanInv, CandidateInv
<1>8. FinalizedOnce'
  BY <1>0, <1>2 DEF ScanInv, FinalizedOnce
<1> QED  BY <1>3, <1>5, <1>6, <1>7, <1>8 DEF ScanInv

(* Every step keeps the invariant. *)
LEMMA ScanNext ==
    ASSUME ScanInv, [Next]_vars
    PROVE  ScanInv'
<1>1. ASSUME NEW a \in Attempts, Begin(a) PROVE ScanInv'
  BY <1>1, BeginStep
<1>2. ASSUME NEW a \in Attempts, Finish(a) PROVE ScanInv'
  BY <1>2, FinishStep
<1>3. ASSUME NEW a \in Attempts, Abandon(a) PROVE ScanInv'
  <2>1. /\ life[a] = "live" /\ life'[a] = "abandoned"
        /\ \A b \in Attempts \ {a} : life'[b] = life[b]
        /\ life' \in [Attempts -> {"new", "live", "finished", "abandoned"}]
        /\ UNCHANGED <<scanning, candidates, execRows, checkRows, clock, started>>
    BY <1>3 DEF Abandon, ScanInv, TypeOK, detectorVars, storeVars
  <2>2. \A r \in execRows : r.attempt \in Attempts
    BY DEF ScanInv, TypeOK
  <2>3. \A c \in candidates : c.attempt \in Attempts
    BY <2>2 DEF ScanInv, TypeOK
  <2> QED  BY <2>1, <2>2, <2>3 DEF ScanInv, TypeOK, RowInv, LifeInv, CandidateInv, FinalizedOnce
<1>4. CASE Tick
  <2>1. /\ clock' = clock + 1 /\ clock \in Nat
        /\ \A a \in Attempts : life[a] = "live" => clock < started[a] + MaxDuration
        /\ UNCHANGED <<scanning, candidates, execRows, checkRows, life, started>>
    BY <1>4 DEF Tick, ScanInv, TypeOK, detectorVars
  <2>2. \A a \in Attempts : started[a] \in Nat
    BY DEF ScanInv, TypeOK
  <2>3. LifeInv'
    BY <2>1, <2>2, DurationAssumption DEF ScanInv, LifeInv
  <2>4. \A c \in candidates : c.startedAt \in Nat
    BY DEF ScanInv, TypeOK
  <2>5. CandidateInv'
    BY <2>1, <2>4, ThresholdAssumption DEF ScanInv, CandidateInv
  <2> QED  BY <2>1, <2>3, <2>5 DEF ScanInv, TypeOK, RowInv, FinalizedOnce
<1>5. CASE Scan /\ UNCHANGED <<life, started>>
  BY <1>5, ScanStep
<1>6. ASSUME NEW row \in candidates, NEW o \in Outcomes, Finalize(row, o), UNCHANGED <<life, started>>
      PROVE  ScanInv'
  BY <1>6, FinalizeStep
<1>7. CASE (EndPass \/ AbandonPass) /\ UNCHANGED <<life, started>>
  <2>1. /\ UNCHANGED <<execRows, checkRows, clock, life, started>>
        /\ candidates' \subseteq candidates /\ scanning' = FALSE
    BY <1>7 DEF EndPass, AbandonPass, storeVars
  <2> QED  BY <2>1, Zenon DEF ScanInv, TypeOK, RowInv, LifeInv, CandidateInv, FinalizedOnce
<1>8. CASE UNCHANGED vars
  BY <1>8 DEF vars, detectorVars, storeVars, ScanInv, TypeOK, RowInv, LifeInv, CandidateInv, FinalizedOnce
<1> QED  BY <1>1, <1>2, <1>3, <1>4, <1>5, <1>6, <1>7, <1>8 DEF Next, DetectorStep

(* The invariant holds in every reachable state. *)
THEOREM ScanInvCorrect == Spec => []ScanInv
<1>1. Init => ScanInv
  <2> SUFFICES ASSUME Init PROVE ScanInv
    OBVIOUS
  <2>1. TypeOK
    BY Zenon DEF Init, DetectorInit, TypeOK
  <2>2. \A a \in Attempts : life[a] = "new"
    BY DEF Init
  <2>3. RowInv /\ LifeInv /\ CandidateInv /\ FinalizedOnce
    BY <2>2 DEF Init, DetectorInit, RowInv, LifeInv, CandidateInv, FinalizedOnce
  <2> QED  BY <2>1, <2>3 DEF ScanInv
<1> QED  BY <1>1, ScanNext, PTL DEF Spec

(* The state of the detector, the attempts and the table has its types. *)
THEOREM ScanTypesCorrect == Spec => []TypeOK
<1>1. ScanInv => TypeOK
  BY DEF ScanInv
<1> QED  BY <1>1, ScanInvCorrect, PTL

(* Only abandoned attempts are aborted, for any attempts and executions, any
   threshold not below the longest attempt, however the passes are interrupted and
   whatever the inserts answer (orphan.go:171-187). *)
THEOREM OnlyAbandonedAbortedCorrect == Spec => []OnlyAbandonedAborted
<1>1. ScanInv => OnlyAbandonedAborted
  BY DEF ScanInv, RowInv, OnlyAbandonedAborted
<1> QED  BY <1>1, ScanInvCorrect, PTL

(* No later pass finalizes what one has finalized, acknowledged or not
   (schema.go:116-121). *)
THEOREM FinalizedOnceCorrect == Spec => []FinalizedOnce
<1>1. ScanInv => FinalizedOnce
  BY DEF ScanInv
<1> QED  BY <1>1, ScanInvCorrect, PTL

(* The detector never announces an abort that is not in the table. *)
THEOREM AbortAlertCorrect == Spec => []AbortAlertBacked
<1>1. Init => AbortAlertBacked
  BY DEF Init, AbortAlertBacked
<1>2. ASSUME AbortAlertBacked, [Next]_vars PROVE AbortAlertBacked'
  <2>1. CASE published' = published /\ execRows \subseteq execRows'
    BY <1>2, <2>1 DEF AbortAlertBacked
  <2>2. ASSUME NEW row \in candidates, NEW o \in Outcomes, Finalize(row, o) PROVE AbortAlertBacked'
    <3>1. PICK new, event : new = BuildFollowupRow(row) /\ event = AbortedEvent(row)
      OBVIOUS
    <3>2. new.attempt = event.attempt /\ new.status = "aborted" /\ new.recordedAt = event.recordedAt
      BY <3>1 DEF BuildFollowupRow, AbortedEvent
    <3>3. /\ execRows \subseteq execRows'
          /\ published' = published \/ (published' = published \cup {event} /\ new \in execRows')
      BY <2>2, <3>1 DEF Finalize, WriteExecutionRow, Publish, Acknowledged
    <3> QED  BY <1>2, <3>2, <3>3 DEF AbortAlertBacked
  <2> QED  BY <1>2, <2>1, <2>2 DEF Next, DetectorStep, Begin, Finish, Abandon, Tick, Scan, EndPass, AbandonPass,
              WriteExecutionRow, storeVars, vars
<1> QED  BY <1>1, <1>2, PTL DEF Spec
=============================================================================
