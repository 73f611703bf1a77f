-------------------------- MODULE RecordRunnerProofs --------------------------
(***************************************************************************)
(* The record-mode runner for any partitions, topic contents, window       *)
(* duration, tolerance, commit budget and number of restarts and failed    *)
(* dispatches.  The argument follows every record that was polled: it is   *)
(* in a dispatched window, in the active window, among the dropped ones,   *)
(* or it is the record that is closing the window.                         *)
(***************************************************************************)
EXTENDS RecordDelivery, WellFoundedInduction, TLAPS

(* The solver needs a fraction of this; the limit allows for a loaded machine. *)
USE SMTT(60)

Pairs     == Partitions \X Nat
Windows   == [start : Nat, records : SUBSET Pairs]
Calls     == [start : Nat, records : SUBSET Pairs, late : SUBSET Pairs, ok : BOOLEAN,
              life : Nat]
Polled(f) == f[2] < next[f[1]]

(* Types, in the form the steps need them. *)
Types ==
    /\ log \in Logs
    /\ next \in [Partitions -> Nat] /\ committed \in [Partitions -> Nat]
    /\ marked \in [Partitions -> Nat]
    /\ \A p \in Partitions : /\ next[p] \in 1 .. Len(log[p]) + 1 /\ marked[p] \in 1 .. next[p]
                             /\ committed[p] \in 1 .. marked[p]
    /\ watermark \in Nat
    /\ active \in Windows \cup {Null}
    /\ active # Null => active.records \subseteq Records
    /\ lateDropped \subseteq Records
    /\ phase \in {"poll", "dispatch", "commit"}
    /\ pending \in Records \cup {Null}
    /\ tries \in 0 .. CommitMaxAttempts - 1
    /\ restarts \in 0 .. MaxRestarts
    /\ dispatches \in Seq(Calls)
    /\ \A d \in Dispatched : d.records \subseteq Records /\ d.late \subseteq Records

(* The active window and the record that closes it. *)
WindowInv ==
    /\ active = Null => watermark = 0 /\ lateDropped = {}
    /\ active # Null =>
          /\ active.records # {}
          /\ \A f \in active.records : WindowOf(f) = active.start /\ Polled(f)
          /\ \A f \in lateDropped : WindowOf(f) < active.start /\ Polled(f)
    /\ phase = "poll" =>
          /\ pending = Null
          /\ active # Null => active.start <= watermark /\ watermark < active.start + WindowDuration
    /\ phase # "poll" =>
          /\ active # Null /\ pending # Null
          /\ active.start < WindowOf(pending)
          /\ WindowOf(pending) <= watermark /\ watermark < WindowOf(pending) + WindowDuration
          /\ pending[2] = next[pending[1]] - 1
    /\ phase = "commit" => \E d \in Dispatched : d.records = active.records /\ d.late = lateDropped

(* Where a polled record is. *)
AccountInv ==
    \A f \in Records : Polled(f) =>
        \/ \E d \in Dispatched : f \in d.records \cup d.late
        \/ f \in lateDropped
        \/ active # Null /\ f \in active.records
        \/ f = pending

CallInv ==
    \A d \in Dispatched :
        /\ d.records # {}
        /\ \A f \in d.records : WindowOf(f) = d.start
        /\ \A f \in d.late : WindowOf(f) < d.start

(* Before the first restart a record is polled once, hence dropped once. *)
LateInv ==
    restarts = 0 => \A i \in DOMAIN dispatches :
        /\ \A f \in dispatches[i].late : Polled(f)
        /\ phase = "commit" \/ dispatches[i].late \cap lateDropped = {}
        /\ \A j \in DOMAIN dispatches : i # j => dispatches[i].late \cap dispatches[j].late = {}

(* The client marks no record that was neither evaluated nor counted as dropped. *)
MarkedAccounted ==
    \A f \in Records : f[2] < marked[f[1]] =>
        \E d \in Dispatched : f \in d.records \cup d.late

Inv == Types /\ WindowInv /\ MarkedAccounted /\ AccountInv /\ CallInv /\ LateInv

-----------------------------------------------------------------------------
(* Arithmetic. *)

(* A set of naturals has a least element. *)
LEMMA LeastNat ==
    ASSUME NEW T, T \subseteq Nat, T # {}
    PROVE  \E x \in T : \A y \in T : x <= y
<1> DEFINE Less == {ss \in Nat \X Nat : ss[1] < ss[2]}
<1>1. OpToRel(<, Nat) = Less
  BY DEF OpToRel
<1>2. IsWellFoundedOn(Less, Nat)
  BY <1>1, NatLessThanWellFounded, Zenon
<1>3. \E x \in T : \A y \in T : ~(<<y, x>> \in Less)
  <2> HIDE DEF Less
  <2> QED  BY <1>2, WFMin, Zenon
<1>4. \A x, y \in Nat : ~(<<y, x>> \in Less) => x <= y
  OBVIOUS
<1> QED  BY <1>3, <1>4, Zenon

(* A bounded set of naturals has its maximum. *)
LEMMA MaxBounded ==
    ASSUME NEW n \in Nat, NEW S, S \subseteq 0 .. n, S # {}
    PROVE  Max(S) \in S /\ \A y \in S : y <= Max(S)
<1> DEFINE T == {n - y : y \in S}
<1>1. T \subseteq Nat /\ T # {}
  <2>1. \A y \in S : n - y \in Nat
    OBVIOUS
  <2> QED  BY <2>1, Zenon
<1>2. PICK x \in T : \A y \in T : x <= y
  BY <1>1, LeastNat, Zenon
<1>3. PICK m \in S : x = n - m
  BY <1>2
<1>4. \A y \in S : m >= y
  <2> TAKE y \in S
  <2>1. n - m <= n - y
    BY <1>2, <1>3
  <2> QED  BY <2>1
<1>5. \E z \in S : \A y \in S : z >= y
  BY <1>3, <1>4
<1>6. Max(S) \in S /\ \A y \in S : Max(S) >= y
  BY <1>5, Zenon DEF Max
<1> QED  BY <1>6

(* Time.Truncate: the start of a window is at most a window away. *)
LEMMA Aligned ==
    ASSUME NEW t \in Nat, NEW w \in Nat \ {0}
    PROVE  /\ t - (t % w) \in Nat /\ t - (t % w) <= t /\ t < t - (t % w) + w
           /\ \E k \in Nat : t - (t % w) = k * w
<1>1. t % w \in 0 .. w - 1
  OBVIOUS
<1>2. t = w * (t \div w) + (t % w) /\ t \div w \in Int
  OBVIOUS
<1>3. t \div w \in Nat
  BY <1>1, <1>2
<1>4. t - (t % w) = (t \div w) * w
  BY <1>1, <1>2, <1>3
<1>5. t - (t % w) \in Nat /\ t - (t % w) <= t /\ t < t - (t % w) + w
  <2>1. w * (t \div w) \in Nat
    BY <1>3
  <2> QED  BY <1>1, <1>2, <2>1
<1> QED  BY <1>3, <1>4, <1>5, Zenon

-----------------------------------------------------------------------------
(* Records, calls and the end of a window. *)

(* A record of the topic, its event time and its window. *)
LEMMA RecordFacts ==
    ASSUME log \in Logs, NEW f \in Records
    PROVE  /\ f \in Pairs /\ f[1] \in Partitions /\ f[2] \in 1 .. Len(log[f[1]])
           /\ f = <<f[1], f[2]>>
           /\ Timestamp(f) \in Nat /\ WindowOf(f) \in Nat
           /\ WindowOf(f) <= Timestamp(f) /\ Timestamp(f) < WindowOf(f) + WindowDuration
           /\ \E k \in Nat : WindowOf(f) = k * WindowDuration
<1>1. PICK p \in Partitions : f \in {p} \X DOMAIN log[p]
  BY DEF Records
<1>2. log[p] \in Seq(Nat)
  BY RecordAssumption
<1>3. f[1] = p /\ f[2] \in 1 .. Len(log[p]) /\ f = <<f[1], f[2]>> /\ log[p][f[2]] \in Nat
  BY <1>1, <1>2
<1>4. Timestamp(f) \in Nat
  BY <1>3 DEF Timestamp
<1>5. f \in Pairs
  BY <1>2, <1>3 DEF Pairs
<1>6. WindowDuration \in Nat \ {0}
  BY RecordAssumption
<1> QED  BY <1>3, <1>4, <1>5, <1>6, Aligned DEF WindowOf

(* The records of a partition are its offsets. *)
LEMMA RecordAt ==
    ASSUME log \in Logs, NEW p \in Partitions, NEW i \in 1 .. Len(log[p])
    PROVE  <<p, i>> \in Records
<1>1. log[p] \in Seq(Nat)
  BY RecordAssumption
<1>2. <<p, i>> \in {p} \X DOMAIN log[p]
  BY <1>1
<1> QED  BY <1>2 DEF Records

(* No step changes what the topic holds. *)
LEMMA LogSteady ==
    ASSUME log' = log
    PROVE  Records' = Records /\ \A f : WindowOf(f)' = WindowOf(f)
<1>1. \A f : WindowOf(f)' = WindowOf(f)
  BY DEF WindowOf, Timestamp
<1> QED  BY <1>1 DEF Records

(* What appending a call does to the list of calls. *)
LEMMA Appended ==
    ASSUME NEW D \in Seq(Calls), NEW c \in Calls, NEW E, E = Append(D, c)
    PROVE  /\ E \in Seq(Calls) /\ DOMAIN D = 1 .. Len(D) /\ DOMAIN E = 1 .. Len(D) + 1
           /\ Len(D) \in Nat /\ Len(E) = Len(D) + 1
           /\ \A i \in DOMAIN D : E[i] = D[i]
           /\ E[Len(D) + 1] = c
           /\ {E[i] : i \in DOMAIN E} = {D[i] : i \in DOMAIN D} \cup {c}
<1>1. /\ E \in Seq(Calls) /\ DOMAIN D = 1 .. Len(D) /\ DOMAIN E = 1 .. Len(D) + 1
      /\ Len(D) \in Nat /\ Len(E) = Len(D) + 1
      /\ \A i \in DOMAIN D : E[i] = D[i]
      /\ E[Len(D) + 1] = c
  OBVIOUS
<1>2. \A i \in DOMAIN E : i \in DOMAIN D \/ i = Len(D) + 1
  BY <1>1
<1>3. Len(D) + 1 \in DOMAIN E /\ DOMAIN D \subseteq DOMAIN E
  BY <1>1
<1> QED  BY <1>1, <1>2, <1>3

(* The end of closeAndDispatch, once the window has been handed to a call: the
   record that caused the close opens the next window. *)
LEMMA Closed ==
    ASSUME Types, WindowInv, AccountInv, phase # "poll", WindowClosed,
           log' = log, next' = next, watermark' = watermark,
           Dispatched \subseteq Dispatched',
           \E d \in Dispatched' : d.records = active.records /\ d.late = lateDropped
    PROVE  /\ WindowInv' /\ AccountInv'
           /\ active' \in Windows /\ active'.records \subseteq Records
           /\ lateDropped' = {} /\ phase' = "poll" /\ pending' = Null /\ tries' = 0
<1>1. Records' = Records /\ \A f : WindowOf(f)' = WindowOf(f)
  BY LogSteady
<1>2. pending \in Records /\ active # Null /\ log \in Logs
  BY DEF Types, WindowInv
<1>3. pending \in Pairs /\ WindowOf(pending) \in Nat /\ pending[1] \in Partitions
  BY <1>2, RecordFacts
<1>4. watermark \in Nat /\ WindowOf(pending) <= watermark /\ watermark < WindowOf(pending) + WindowDuration
      /\ pending[2] = next[pending[1]] - 1
  BY <1>2 DEF Types, WindowInv
<1>5. ~GraceOver(WindowOf(pending), watermark)
  BY <1>3, <1>4, RecordAssumption DEF GraceOver
<1>6. pending # Null
  BY DEF WindowInv
<1>7. /\ active' = [start |-> WindowOf(pending), records |-> {pending}]
      /\ lateDropped' = {} /\ phase' = "poll" /\ pending' = Null /\ tries' = 0
  BY <1>5, <1>6 DEF WindowClosed, AppendTo, Open
<1>8. active' \in Windows /\ active'.records \subseteq Records /\ active' # Null
  BY <1>2, <1>3, <1>7, NullAssumption DEF Windows, Pairs
<1>9. Polled(pending)
  BY <1>2, <1>3, <1>4 DEF Polled, Types
<1>10. \A f : Polled(f)' <=> Polled(f)
  BY DEF Polled
<1>11. WindowInv'
  <2>1. \A f \in active'.records : WindowOf(f)' = active'.start /\ Polled(f)'
    BY <1>1, <1>7, <1>9, <1>10
  <2>2. active'.records # {} /\ active'.start = WindowOf(pending)
    BY <1>7
  <2> QED  BY <1>4, <1>7, <1>8, <2>1, <2>2 DEF WindowInv
<1>12. AccountInv'
  <2> SUFFICES ASSUME NEW f \in Records, Polled(f)
               PROVE  \/ \E d \in Dispatched' : f \in d.records \cup d.late
                      \/ active' # Null /\ f \in active'.records
    BY <1>1, <1>10 DEF AccountInv
  <2>1. \/ \E d \in Dispatched : f \in d.records \cup d.late
        \/ f \in lateDropped \/ f \in active.records \/ f = pending
    BY DEF AccountInv
  <2> QED  BY <2>1, <1>7, <1>8
<1> QED  BY <1>7, <1>8, <1>11, <1>12

-----------------------------------------------------------------------------
(* The invariant holds initially and after every step. *)

(* A topic of which nothing has been read. *)
LEMMA InitInv == Init => Inv
<1> SUFFICES ASSUME Init  PROVE Inv
  OBVIOUS
<1> USE DEF Init
<1>1. log \in [Partitions -> Seq(Nat)]
  BY RecordAssumption
<1>2. Dispatched = {} /\ dispatches \in Seq(Calls) /\ DOMAIN dispatches = {}
  BY DEF Dispatched
<1>3. \A f \in Records : ~Polled(f) /\ ~(f[2] < marked[f[1]])
  <2> TAKE f \in Records
  <2>1. f[1] \in Partitions /\ f[2] \in 1 .. Len(log[f[1]])
    BY RecordFacts
  <2>2. log[f[1]] \in Seq(Nat)
    BY <1>1, <2>1
  <2> QED  BY <2>1, <2>2 DEF Polled
<1>4. Types
  <2>1. \A p \in Partitions : /\ next[p] \in 1 .. Len(log[p]) + 1 /\ marked[p] \in 1 .. next[p]
                              /\ committed[p] \in 1 .. marked[p]
    BY <1>1
  <2>2. tries \in 0 .. CommitMaxAttempts - 1 /\ restarts \in 0 .. MaxRestarts
    BY RecordAssumption
  <2> QED  BY <1>2, <2>1, <2>2 DEF Types
<1> QED  BY <1>2, <1>3, <1>4 DEF Inv, WindowInv, MarkedAccounted, AccountInv, CallInv, LateInv

(* handleFetched: the record is late, opens a later window, or joins the active one. *)
LEMMA HandleFetchedInv ==
    ASSUME Inv, NEW p \in Partitions, HandleFetched(p)
    PROVE  Inv'
<1> USE DEF Inv
<1>1. PICK f : f = <<p, next[p]>>
  BY Zenon
<1>2. PICK mark : mark = Max({watermark, Timestamp(f)})
  OBVIOUS
<1>3. PICK w : w = IF active = Null THEN Open(f) ELSE active
  OBVIOUS
<1>4. /\ phase = "poll" /\ next[p] <= Len(log[p])
      /\ next' = [next EXCEPT ![p] = @ + 1] /\ watermark' = mark
      /\ log' = log /\ marked' = marked /\ committed' = committed /\ tries' = tries
      /\ dispatches' = dispatches /\ restarts' = restarts
      /\ \/ /\ WindowOf(f) < w.start
            /\ lateDropped' = lateDropped \cup {f}
            /\ active' = active /\ phase' = phase /\ pending' = pending
         \/ /\ WindowOf(f) > w.start
            /\ phase' = "dispatch" /\ pending' = f
            /\ active' = active /\ lateDropped' = lateDropped
         \/ /\ WindowOf(f) = w.start
            /\ AppendTo(w, f, mark)
            /\ lateDropped' = lateDropped /\ pending' = pending
  BY <1>1, <1>2, <1>3 DEF HandleFetched
<1>5. log \in Logs /\ log[p] \in Seq(Nat) /\ next[p] \in 1 .. Len(log[p]) + 1 /\ next[p] \in Nat
  BY RecordAssumption DEF Types
<1>6. f \in Records
  BY <1>1, <1>4, <1>5, RecordAt
<1>7. /\ f \in Pairs /\ Timestamp(f) \in Nat /\ WindowOf(f) \in Nat
      /\ WindowOf(f) <= Timestamp(f) /\ Timestamp(f) < WindowOf(f) + WindowDuration
  BY <1>5, <1>6, RecordFacts
<1>8. /\ mark \in Nat /\ mark >= watermark /\ mark >= Timestamp(f)
      /\ mark = watermark \/ mark = Timestamp(f)
  <2>1. watermark \in Nat
    BY DEF Types
  <2>2. {watermark, Timestamp(f)} \subseteq 0 .. watermark + Timestamp(f)
    BY <2>1, <1>7
  <2>3. watermark + Timestamp(f) \in Nat
    BY <2>1, <1>7
  <2>4. mark \in {watermark, Timestamp(f)} /\ \A y \in {watermark, Timestamp(f)} : y <= mark
    BY <2>2, <2>3, <1>2, MaxBounded
  <2> QED  BY <2>1, <2>4, <1>7
<1>9. Records' = Records /\ \A g : WindowOf(g)' = WindowOf(g)
  BY <1>4, LogSteady
<1>10. /\ next' \in [Partitions -> Nat]
       /\ \A q \in Partitions : next'[q] = IF q = p THEN next[p] + 1 ELSE next[q]
  BY <1>4, <1>5 DEF Types
<1>11. ~Polled(f) /\ \A g \in Records : Polled(g)' <=> (Polled(g) \/ g = f)
  <2>1. f[1] = p /\ f[2] = next[p]
    BY <1>1
  <2>2. ASSUME NEW g \in Records  PROVE Polled(g)' <=> (Polled(g) \/ g = f)
    <3>1. g[1] \in Partitions /\ g[2] \in 1 .. Len(log[g[1]]) /\ g = <<g[1], g[2]>>
      BY <1>5, RecordFacts
    <3>2. log[g[1]] \in Seq(Nat) /\ next[g[1]] \in Nat
      BY <3>1, RecordAssumption DEF Types
    <3>3. g = f <=> g[1] = p /\ g[2] = next[p]
      BY <3>1, <1>1, <2>1
    <3>4. next'[g[1]] = IF g[1] = p THEN next[p] + 1 ELSE next[g[1]]
      BY <3>1, <1>10
    <3>5. CASE g[1] = p
      BY <3>1, <3>2, <3>3, <3>4, <3>5, <1>5 DEF Polled
    <3>6. CASE g[1] # p
      BY <3>1, <3>2, <3>3, <3>4, <3>6 DEF Polled
    <3> QED  BY <3>5, <3>6
  <2>3. ~Polled(f)
    BY <2>1, <1>5 DEF Polled
  <2> QED  BY <2>2, <2>3
<1>12. Dispatched' = Dispatched
  BY <1>4 DEF Dispatched
<1>13. pending = Null /\ (active = Null => watermark = 0 /\ lateDropped = {})
       /\ (active # Null => active \in Windows /\ active.start \in Nat
             /\ active.start <= watermark /\ watermark < active.start + WindowDuration)
  BY <1>4 DEF Types, WindowInv, Windows
<1>14. w.start \in Nat /\ (active = Null => w.start = WindowOf(f) /\ w.records = {})
       /\ (active # Null => w = active) /\ WindowDuration \in Nat /\ w \in Windows
  BY <1>3, <1>7, <1>13, RecordAssumption DEF Open, Windows
<1>15. ASSUME active' \in Windows \cup {Null}, active' # Null => active'.records \subseteq Records,
              lateDropped' \subseteq Records, phase' \in {"poll", "dispatch", "commit"},
              pending' \in Records \cup {Null}
       PROVE  Types'
  <2>1. \A q \in Partitions : /\ next'[q] \in 1 .. Len(log[q]) + 1 /\ marked[q] \in 1 .. next'[q]
                              /\ committed[q] \in 1 .. marked[q]
    <3> TAKE q \in Partitions
    <3>1. /\ log[q] \in Seq(Nat) /\ next[q] \in 1 .. Len(log[q]) + 1 /\ marked[q] \in 1 .. next[q]
          /\ committed[q] \in 1 .. marked[q]
      BY <1>5, RecordAssumption DEF Types
    <3>2. CASE q = p
      BY <3>1, <3>2, <1>4, <1>5, <1>10
    <3>3. CASE q # p
      BY <3>1, <3>3, <1>10
    <3> QED  BY <3>2, <3>3
  <2> QED  BY <2>1, <1>15, <1>4, <1>8, <1>9, <1>10, <1>12 DEF Types
<1>16. MarkedAccounted'
  BY <1>4, <1>9, <1>12 DEF MarkedAccounted
<1>17. CallInv'
  BY <1>9, <1>12 DEF CallInv
<1>18. ASSUME \/ lateDropped' = lateDropped
              \/ lateDropped' = lateDropped \cup {f}
       PROVE  LateInv'
  <2> SUFFICES ASSUME restarts = 0, NEW i \in DOMAIN dispatches
               PROVE  /\ \A g \in dispatches[i].late : Polled(g)'
                      /\ phase' = "commit" \/ dispatches[i].late \cap lateDropped' = {}
                      /\ \A j \in DOMAIN dispatches :
                            i # j => dispatches[i].late \cap dispatches[j].late = {}
    BY <1>4 DEF LateInv
  <2>1. dispatches[i] \in Dispatched
    BY DEF Dispatched
  <2>2. dispatches[i].late \subseteq Records
    BY <2>1 DEF Types
  <2>3. \A g \in dispatches[i].late : Polled(g)
    BY DEF LateInv
  <2>4. dispatches[i].late \cap lateDropped = {}
    BY <1>4 DEF LateInv
  <2>5. f \notin dispatches[i].late
    BY <2>3, <1>11
  <2>6. dispatches[i].late \cap lateDropped' = {}
    BY <1>18, <2>4, <2>5
  <2>7. \A g \in dispatches[i].late : Polled(g)'
    BY <2>2, <2>3, <1>11
  <2> QED  BY <2>6, <2>7 DEF LateInv
<1>19. CASE WindowOf(f) < w.start /\ lateDropped' = lateDropped \cup {f}
            /\ active' = active /\ phase' = phase /\ pending' = pending
  <2>1. active # Null
    BY <1>19, <1>14, <1>7
  <2>2. Types'
    BY <1>15, <1>19, <1>6 DEF Types
  <2>3. WindowInv'
    <3>1. active.start <= mark /\ mark < active.start + WindowDuration
      BY <2>1, <1>19, <1>7, <1>8, <1>13, <1>14 DEF Types
    <3>2. \A g \in lateDropped' : WindowOf(g) < active.start /\ Polled(g)'
      BY <2>1, <1>19, <1>6, <1>11, <1>14 DEF WindowInv, Types
    <3>3. active.records # {} /\ \A g \in active.records : WindowOf(g) = active.start /\ Polled(g)'
      BY <2>1, <1>11 DEF WindowInv, Types
    <3> QED  BY <2>1, <3>1, <3>2, <3>3, <1>4, <1>9, <1>13, <1>19 DEF WindowInv
  <2>4. AccountInv'
    BY <1>9, <1>11, <1>12, <1>19 DEF AccountInv
  <2> QED  BY <2>2, <2>3, <2>4, <1>16, <1>17, <1>18, <1>19
<1>20. CASE WindowOf(f) > w.start /\ phase' = "dispatch" /\ pending' = f
            /\ active' = active /\ lateDropped' = lateDropped
  <2>1. active # Null
    BY <1>20, <1>14, <1>7
  <2>2. Types'
    BY <1>15, <1>20, <1>6 DEF Types
  <2>3. WindowInv'
    <3>1. active.start < WindowOf(f) /\ WindowOf(f) <= mark /\ mark < WindowOf(f) + WindowDuration
      BY <2>1, <1>20, <1>7, <1>8, <1>13, <1>14 DEF Types
    <3>2. \A g \in lateDropped : WindowOf(g) < active.start /\ Polled(g)'
      BY <2>1, <1>11 DEF WindowInv, Types
    <3>3. active.records # {} /\ \A g \in active.records : WindowOf(g) = active.start /\ Polled(g)'
      BY <2>1, <1>11 DEF WindowInv, Types
    <3>4. f[2] = next'[f[1]] - 1 /\ f # Null
      <4>1. f[1] = p /\ f[2] = next[p]
        BY <1>1
      <4>2. next'[p] = next[p] + 1
        BY <1>10
      <4>3. f # Null
        BY <1>7, NullAssumption DEF Pairs
      <4> QED  BY <4>1, <4>2, <4>3, <1>5
    <3> QED  BY <2>1, <3>1, <3>2, <3>3, <3>4, <1>4, <1>9, <1>20, Zenon DEF WindowInv
  <2>4. AccountInv'
    <3>1. \A g \in Records : g # pending
      BY <1>5, <1>13, RecordFacts, NullAssumption DEF Pairs
    <3> QED  BY <3>1, <1>9, <1>11, <1>12, <1>20 DEF AccountInv
  <2> QED  BY <2>2, <2>3, <2>4, <1>16, <1>17, <1>18, <1>20
<1>21. CASE WindowOf(f) = w.start /\ AppendTo(w, f, mark)
            /\ lateDropped' = lateDropped /\ pending' = pending
  <2>1. w.start <= mark /\ mark < w.start + WindowDuration
    BY <1>21, <1>7, <1>8, <1>13, <1>14 DEF Types
  <2>2. ~GraceOver(w.start, mark)
    BY <2>1, <1>8, <1>14, RecordAssumption DEF GraceOver
  <2>3. active' = [w EXCEPT !.records = @ \cup {f}] /\ phase' = "poll"
    BY <1>21, <2>2 DEF AppendTo
  <2>4. active' \in Windows /\ active'.start = w.start /\ active'.records = w.records \cup {f}
    BY <2>3, <1>7, <1>14 DEF Windows
  <2>5. active' # Null
    BY <2>4, NullAssumption DEF Windows, Pairs
  <2>6. w.records \subseteq Records /\ (\A g \in w.records : WindowOf(g) = w.start /\ Polled(g))
    BY <1>14 DEF WindowInv, Types
  <2>7. \A g \in lateDropped : WindowOf(g) < w.start /\ Polled(g)
    BY <1>13, <1>14 DEF WindowInv
  <2>8. Types'
    BY <2>3, <2>4, <2>6, <1>6, <1>15, <1>21 DEF Types
  <2>9. WindowInv'
    <3>1. active'.records # {} /\ \A g \in active'.records : WindowOf(g) = active'.start /\ Polled(g)'
      BY <2>4, <2>6, <1>6, <1>11, <1>21
    <3>2. \A g \in lateDropped : WindowOf(g) < active'.start /\ Polled(g)'
      BY <2>4, <2>7, <1>11 DEF Types
    <3> QED  BY <2>1, <2>3, <2>4, <2>5, <3>1, <3>2, <1>4, <1>9, <1>13, <1>21 DEF WindowInv
  <2>10. AccountInv'
    <3>1. \A g \in Records : active # Null /\ g \in active.records => g \in active'.records
      BY <2>4, <1>14
    <3> QED  BY <2>4, <2>5, <3>1, <1>9, <1>11, <1>12, <1>21 DEF AccountInv
  <2> QED  BY <2>8, <2>9, <2>10, <1>16, <1>17, <1>18, <1>21
<1> QED  BY <1>4, <1>19, <1>20, <1>21

(* The calls after closeAndDispatch has called dispatcher.Run. *)
LEMMA DispatchCalls ==
    ASSUME Types, WindowInv, CallInv, MarkedAccounted, LateInv, NEW ok \in BOOLEAN,
           phase = "dispatch", Dispatch(ok), log' = log, next' = next, marked' = marked,
           restarts' = restarts
    PROVE  /\ CallInv' /\ MarkedAccounted'
           /\ dispatches' \in Seq(Calls)
           /\ \A d \in Dispatched' : d.records \subseteq Records /\ d.late \subseteq Records
           /\ Dispatched \subseteq Dispatched'
           /\ \E d \in Dispatched' : d.records = active.records /\ d.late = lateDropped
           /\ phase' = "commit" \/ lateDropped' = {} => LateInv'
<1>1. PICK c : c = [start |-> active.start, records |-> active.records, late |-> lateDropped,
                    ok |-> ok, life |-> restarts]
  BY Zenon
<1>2. dispatches' = Append(dispatches, c)
  BY <1>1 DEF Dispatch
<1>3. /\ active # Null /\ active \in Windows /\ active.records \subseteq Records
      /\ lateDropped \subseteq Records /\ restarts \in Nat
  BY RecordAssumption DEF Types, WindowInv
<1>4. Records \subseteq Pairs
  BY RecordFacts DEF Types
<1>5. /\ c \in Calls /\ c.start = active.start /\ c.records = active.records
      /\ c.late = lateDropped
  BY <1>1, <1>3, <1>4 DEF Calls, Windows
<1>6. dispatches \in Seq(Calls)
  BY DEF Types
<1>7. /\ dispatches' \in Seq(Calls) /\ DOMAIN dispatches = 1 .. Len(dispatches)
      /\ DOMAIN dispatches' = 1 .. Len(dispatches) + 1 /\ Len(dispatches) \in Nat
      /\ \A i \in DOMAIN dispatches : dispatches'[i] = dispatches[i]
      /\ dispatches'[Len(dispatches) + 1] = c
      /\ Dispatched' = Dispatched \cup {c}
  BY <1>2, <1>5, <1>6, Appended DEF Dispatched
<1>8. Records' = Records /\ \A f : WindowOf(f)' = WindowOf(f)
  BY LogSteady
<1>9. CallInv'
  BY <1>3, <1>5, <1>7, <1>8 DEF CallInv, WindowInv
<1>10. MarkedAccounted'
  BY <1>7, <1>8, Zenon DEF MarkedAccounted
<1>11. ASSUME phase' = "commit" \/ lateDropped' = {}  PROVE LateInv'
  <2> SUFFICES ASSUME restarts = 0, NEW i \in DOMAIN dispatches'
               PROVE  /\ \A g \in dispatches'[i].late : Polled(g)
                      /\ phase' = "commit" \/ dispatches'[i].late \cap lateDropped' = {}
                      /\ \A j \in DOMAIN dispatches' :
                            i # j => dispatches'[i].late \cap dispatches'[j].late = {}
    BY DEF LateInv, Polled
  <2>1. \A k \in DOMAIN dispatches' : k \in DOMAIN dispatches \/ k = Len(dispatches) + 1
    BY <1>7
  <2>2. \A k \in DOMAIN dispatches :
          /\ dispatches'[k] = dispatches[k] /\ dispatches[k].late \cap c.late = {}
          /\ \A g \in dispatches[k].late : Polled(g)
          /\ \A j \in DOMAIN dispatches : k # j => dispatches[k].late \cap dispatches[j].late = {}
    BY <1>5, <1>7 DEF LateInv
  <2>3. \A g \in c.late : Polled(g)
    BY <1>3, <1>5 DEF WindowInv
  <2>4. \A g \in dispatches'[i].late : Polled(g)
    BY <2>1, <2>2, <2>3, <1>7
  <2>5. \A j \in DOMAIN dispatches' : i # j => dispatches'[i].late \cap dispatches'[j].late = {}
    <3> SUFFICES ASSUME NEW j \in DOMAIN dispatches', i # j
                 PROVE  dispatches'[i].late \cap dispatches'[j].late = {}
      OBVIOUS
    <3>1. CASE i \in DOMAIN dispatches /\ j \in DOMAIN dispatches
      BY <3>1, <2>2
    <3>2. CASE i \in DOMAIN dispatches /\ j = Len(dispatches) + 1
      BY <3>2, <2>2, <1>7
    <3>3. CASE i = Len(dispatches) + 1 /\ j \in DOMAIN dispatches
      BY <3>3, <2>2, <1>7
    <3> QED  BY <3>1, <3>2, <3>3, <2>1
  <2> QED  BY <2>4, <2>5, <1>11
<1>12. \A d \in Dispatched' : d.records \subseteq Records /\ d.late \subseteq Records
  BY <1>3, <1>5, <1>7 DEF Types
<1> QED  BY <1>5, <1>7, <1>9, <1>10, <1>11, <1>12

(* dispatcher.Run returned: the window is in the list of calls and still active. *)
LEMMA DispatchSucceedsInv == Inv /\ DispatchSucceeds => Inv'
<1> SUFFICES ASSUME Inv, DispatchSucceeds  PROVE Inv'
  OBVIOUS
<1> USE DEF Inv
<1>1. /\ phase = "dispatch" /\ Dispatch(TRUE) /\ phase' = "commit"
      /\ log' = log /\ next' = next /\ marked' = marked /\ committed' = committed
      /\ watermark' = watermark
      /\ active' = active /\ lateDropped' = lateDropped /\ pending' = pending
      /\ tries' = tries /\ restarts' = restarts
  BY Zenon DEF DispatchSucceeds, broker
<1>2. /\ CallInv' /\ MarkedAccounted' /\ LateInv'
      /\ dispatches' \in Seq(Calls)
      /\ \A d \in Dispatched' : d.records \subseteq Records /\ d.late \subseteq Records
      /\ Dispatched \subseteq Dispatched'
      /\ \E d \in Dispatched' : d.records = active.records /\ d.late = lateDropped
  BY <1>1, DispatchCalls, Zenon
<1>3. Records' = Records /\ \A f : WindowOf(f)' = WindowOf(f)
  BY <1>1, LogSteady
<1>4. \A f : Polled(f)' <=> Polled(f)
  BY <1>1 DEF Polled
<1>5. Types'
  BY <1>1, <1>2, <1>3, Zenon DEF Types
<1>6. WindowInv'
  BY <1>1, <1>2, <1>3, <1>4, Zenon DEF WindowInv
<1>7. AccountInv'
  BY <1>1, <1>2, <1>3, <1>4, Zenon DEF AccountInv
<1> QED  BY <1>2, <1>5, <1>6, <1>7

(* dispatcher.Run failed: the window is given up without a commit. *)
LEMMA DispatchFailsInv == Inv /\ DispatchFails => Inv'
<1> SUFFICES ASSUME Inv, DispatchFails  PROVE Inv'
  OBVIOUS
<1> USE DEF Inv
<1>1. /\ phase = "dispatch" /\ Dispatch(FALSE) /\ WindowClosed
      /\ log' = log /\ next' = next /\ marked' = marked /\ committed' = committed
      /\ watermark' = watermark
      /\ restarts' = restarts
  BY Zenon DEF DispatchFails, broker
<1>2. lateDropped' = {}
  BY <1>1 DEF WindowClosed
<1>3. /\ CallInv' /\ MarkedAccounted' /\ LateInv'
      /\ dispatches' \in Seq(Calls)
      /\ \A d \in Dispatched' : d.records \subseteq Records /\ d.late \subseteq Records
      /\ Dispatched \subseteq Dispatched'
      /\ \E d \in Dispatched' : d.records = active.records /\ d.late = lateDropped
  BY <1>1, <1>2, DispatchCalls, Zenon
<1>4. /\ WindowInv' /\ AccountInv'
      /\ active' \in Windows /\ active'.records \subseteq Records
      /\ lateDropped' = {} /\ phase' = "poll" /\ pending' = Null /\ tries' = 0
  BY <1>1, <1>3, Closed, Zenon
<1>5. Records' = Records
  BY <1>1, LogSteady
<1>6. tries' \in 0 .. CommitMaxAttempts - 1
  BY <1>4, RecordAssumption
<1>7. Types'
  BY <1>1, <1>3, <1>4, <1>5, <1>6, Zenon DEF Types
<1> QED  BY <1>3, <1>4, <1>7, Zenon

(* commitWithRetry marks no record that has not been handed to a call, and moves
   an offset only behind a record of the window. *)
LEMMA Marked ==
    ASSUME Types, WindowInv, AccountInv, MarkedAccounted, phase = "commit", NEW p \in Partitions
    PROVE  /\ HighWater(p) \in marked[p] .. next[p]
           /\ HighWater(p) # marked[p] => <<p, HighWater(p) - 1>> \in active.records
           /\ \A f \in Records : f[1] = p /\ f[2] < HighWater(p) =>
                 \E d \in Dispatched : f \in d.records \cup d.late
<1>1. /\ log \in Logs /\ next[p] \in Nat /\ marked[p] \in 1 .. next[p]
      /\ active # Null /\ active.records \subseteq Records
  BY DEF Types, WindowInv
<1>2. PICK S : S = {marked[p]} \cup {f[2] + 1 : f \in {g \in active.records : g[1] = p}}
  BY Zenon
<1>3. \A g \in active.records : g \in Records /\ g[2] \in Nat /\ g = <<g[1], g[2]>>
      /\ g[2] < next[g[1]] /\ WindowOf(g) = active.start
  <2> TAKE g \in active.records
  <2>1. g \in Records /\ Polled(g) /\ WindowOf(g) = active.start
    BY <1>1, Zenon DEF WindowInv
  <2>2. g[1] \in Partitions /\ g[2] \in 1 .. Len(log[g[1]]) /\ g = <<g[1], g[2]>>
    BY <1>1, <2>1, RecordFacts
  <2>3. log[g[1]] \in Seq(Nat)
    BY <2>2, <1>1, RecordAssumption
  <2> QED  BY <2>1, <2>2, <2>3 DEF Polled
<1>4. S \subseteq 0 .. next[p] /\ S # {} /\ marked[p] \in S
  BY <1>1, <1>2, <1>3
<1>5. HighWater(p) \in S /\ \A y \in S : y <= HighWater(p)
  BY <1>1, <1>2, <1>4, MaxBounded, Zenon DEF HighWater
<1>6. HighWater(p) \in marked[p] .. next[p]
  <2>1. HighWater(p) \in 0 .. next[p]
    BY <1>4, <1>5, Zenon
  <2>2. marked[p] <= HighWater(p)
    BY <1>4, <1>5, Zenon
  <2> QED  BY <1>1, <2>1, <2>2
<1>7. ASSUME NEW f \in Records, f[1] = p, f[2] < HighWater(p)
      PROVE  \E d \in Dispatched : f \in d.records \cup d.late
  <2>1. CASE HighWater(p) = marked[p]
    BY <1>7, <2>1 DEF MarkedAccounted
  <2>2. CASE HighWater(p) # marked[p]
    <3>1. PICK g \in active.records : g[1] = p /\ HighWater(p) = g[2] + 1
      BY <1>2, <1>5, <2>2
    <3>2. /\ f[1] \in Partitions /\ f[2] \in 1 .. Len(log[f[1]]) /\ f = <<f[1], f[2]>>
      BY <1>1, RecordFacts
    <3>3. f[2] \in Nat
      BY <3>2, <1>1, RecordAssumption
    <3>4. f[2] <= g[2] /\ g[2] < next[p]
      BY <3>1, <3>3, <1>3, <1>7
    <3>5. Polled(f)
      BY <3>3, <3>4, <1>1, <1>3, <1>7 DEF Polled
    <3>6. f # pending
      <4> SUFFICES ASSUME f = pending  PROVE FALSE
        OBVIOUS
      <4>1. f[2] = next[p] - 1 /\ active.start < WindowOf(f)
        BY <1>7 DEF WindowInv
      <4>2. f[2] = g[2]
        BY <4>1, <3>3, <3>4, <1>1, <1>3
      <4>3. f = g
        BY <4>2, <3>1, <3>2, <1>3, <1>7
      <4>4. WindowOf(f) = active.start /\ WindowOf(f) \in Nat
        BY <4>3, <1>1, <1>3, RecordFacts
      <4> QED  BY <4>1, <4>4
    <3>7. \/ \E d \in Dispatched : f \in d.records \cup d.late
          \/ f \in lateDropped \/ f \in active.records
      BY <3>5, <3>6 DEF AccountInv
    <3>8. \E d \in Dispatched : d.records = active.records /\ d.late = lateDropped
      BY DEF WindowInv
    <3> QED  BY <3>7, <3>8
  <2> QED  BY <2>1, <2>2
<1>8. HighWater(p) # marked[p] => <<p, HighWater(p) - 1>> \in active.records
  <2> SUFFICES ASSUME HighWater(p) # marked[p]  PROVE <<p, HighWater(p) - 1>> \in active.records
    OBVIOUS
  <2>1. PICK g \in active.records : g[1] = p /\ HighWater(p) = g[2] + 1
    BY <1>2, <1>5
  <2>2. g = <<p, HighWater(p) - 1>>
    BY <2>1, <1>3
  <2> QED  BY <2>1, <2>2
<1> QED  BY <1>6, <1>7, <1>8

(* An attempt of commitWithRetry, the last of which gives the window up. *)
LEMMA CommitInv ==
    ASSUME Inv, NEW o \in {"ok", "lost", "ambiguous"}, Commit(o)
    PROVE  Inv'
<1> USE DEF Inv
<1>1. /\ phase = "commit" /\ log' = log /\ next' = next /\ watermark' = watermark
      /\ dispatches' = dispatches /\ restarts' = restarts
      /\ marked' = MarkedOffsets /\ (committed' = committed \/ committed' = marked')
      /\ \/ WindowClosed
         \/ /\ tries + 1 # CommitMaxAttempts /\ tries' = tries + 1
            /\ active' = active /\ lateDropped' = lateDropped
            /\ phase' = phase /\ pending' = pending
  BY DEF Commit
<1>2. Dispatched' = Dispatched
  BY <1>1 DEF Dispatched
<1>3. Records' = Records /\ \A f : WindowOf(f)' = WindowOf(f)
  BY <1>1, LogSteady
<1>4. \A f : Polled(f)' <=> Polled(f)
  BY <1>1 DEF Polled
<1>5. /\ marked' \in [Partitions -> Nat] /\ committed' \in [Partitions -> Nat]
      /\ \A p \in Partitions : marked'[p] \in 1 .. next[p] /\ committed'[p] \in 1 .. marked'[p]
      /\ MarkedAccounted'
  <2>1. \A p \in Partitions : marked'[p] = HighWater(p)
    BY <1>1 DEF MarkedOffsets
  <2>2. \A p \in Partitions : /\ next[p] \in Nat /\ marked[p] \in 1 .. next[p]
                              /\ committed[p] \in 1 .. marked[p]
                              /\ HighWater(p) \in marked[p] .. next[p]
    BY <1>1, Marked, Zenon DEF Types
  <2>3. \A p \in Partitions : /\ HighWater(p) \in 1 .. next[p] /\ HighWater(p) \in Nat
                              /\ committed[p] \in 1 .. HighWater(p)
    BY <2>2
  <2>4. marked' \in [Partitions -> Nat]
    BY <2>3, <1>1 DEF MarkedOffsets
  <2>5. ASSUME NEW f \in Records, f[2] < marked'[f[1]]
        PROVE  \E d \in Dispatched : f \in d.records \cup d.late
    <3>1. f[1] \in Partitions
      BY RecordFacts DEF Types
    <3> QED  BY <3>1, <2>1, <2>5, <1>1, Marked, Zenon
  <2>6. MarkedAccounted'
    BY <2>5, <1>2, <1>3 DEF MarkedAccounted
  <2>7. committed' \in [Partitions -> Nat]
    BY <2>4, <1>1, Zenon DEF Types
  <2>8. \A p \in Partitions : committed'[p] \in 1 .. marked'[p]
    <3> TAKE p \in Partitions
    <3>1. CASE committed' = committed
      BY <3>1, <2>1, <2>3
    <3>2. CASE committed' = marked'
      BY <3>2, <2>1, <2>3
    <3> QED  BY <3>1, <3>2, <1>1
  <2> QED  BY <2>1, <2>3, <2>4, <2>6, <2>7, <2>8
<1>6. CallInv'
  BY <1>2, <1>3 DEF CallInv
<1>7. CASE WindowClosed
  <2>1. \E d \in Dispatched' : d.records = active.records /\ d.late = lateDropped
    BY <1>1, <1>2 DEF WindowInv
  <2>2. /\ WindowInv' /\ AccountInv'
        /\ active' \in Windows /\ active'.records \subseteq Records
        /\ lateDropped' = {} /\ phase' = "poll" /\ pending' = Null /\ tries' = 0
    BY <1>1, <1>2, <1>7, <2>1, Closed, Zenon
  <2>3. Types'
    BY <1>1, <1>2, <1>3, <1>5, <2>2, RecordAssumption DEF Types
  <2>4. LateInv'
    BY <1>1, <1>4, <2>2 DEF LateInv
  <2> QED  BY <1>5, <1>6, <2>2, <2>3, <2>4
<1>8. CASE /\ tries + 1 # CommitMaxAttempts /\ tries' = tries + 1
           /\ active' = active /\ lateDropped' = lateDropped
           /\ phase' = phase /\ pending' = pending
  <2>1. tries' \in 0 .. CommitMaxAttempts - 1
    BY <1>8, RecordAssumption DEF Types
  <2>2. Types'
    BY <1>1, <1>2, <1>3, <1>5, <1>8, <2>1 DEF Types
  <2>3. WindowInv'
    BY <1>1, <1>2, <1>3, <1>4, <1>8, Zenon DEF WindowInv
  <2>4. AccountInv'
    BY <1>2, <1>3, <1>4, <1>8, Zenon DEF AccountInv
  <2>5. LateInv'
    BY <1>1, <1>4, <1>8 DEF LateInv
  <2> QED  BY <1>5, <1>6, <2>2, <2>3, <2>4, <2>5
<1> QED  BY <1>1, <1>7, <1>8

(* No committed offset is past its mark. *)
LEMMA CommittedBehind ==
    ASSUME Types, NEW f \in Records, f[2] < committed[f[1]]
    PROVE  f[2] < marked[f[1]]
<1>1. f[1] \in Partitions /\ f[2] \in Nat
  <2>1. f[1] \in Partitions /\ f \in Pairs
    BY RecordFacts DEF Types
  <2> QED  BY <2>1 DEF Pairs
<1>2. marked[f[1]] \in Nat /\ committed[f[1]] \in 1 .. marked[f[1]]
  BY <1>1, Zenon DEF Types
<1> QED  BY <1>1, <1>2

(* The records behind the committed offsets are accounted for. *)
LEMMA CommittedFollows == Types /\ MarkedAccounted => CommittedAccounted
  BY CommittedBehind, Zenon DEF MarkedAccounted, CommittedAccounted

(* A restart: the records read again are those above the committed offsets. *)
LEMMA RestartInv == Inv /\ Restart => Inv'
<1> SUFFICES ASSUME Inv, Restart  PROVE Inv'
  OBVIOUS
<1> USE DEF Inv, Restart
<1>1. Dispatched' = Dispatched
  BY DEF Dispatched
<1>2. Records' = Records /\ \A f : WindowOf(f)' = WindowOf(f)
  BY LogSteady
<1>3. \A p \in Partitions : /\ next'[p] \in 1 .. Len(log[p]) + 1 /\ marked'[p] \in 1 .. next'[p]
                            /\ committed'[p] \in 1 .. marked'[p]
  <2> TAKE p \in Partitions
  <2>1. /\ log[p] \in Seq(Nat) /\ next[p] \in 1 .. Len(log[p]) + 1
        /\ marked[p] \in 1 .. next[p] /\ committed[p] \in 1 .. marked[p]
    BY RecordAssumption DEF Types
  <2> QED  BY <2>1
<1>4. restarts' \in 0 .. MaxRestarts /\ restarts' # 0 /\ tries' \in 0 .. CommitMaxAttempts - 1
  BY RecordAssumption DEF Types
<1>5. Types'
  BY <1>1, <1>2, <1>3, <1>4 DEF Types
<1>6. CommittedAccounted
  BY CommittedFollows
<1>7. AccountInv' /\ MarkedAccounted' /\ CallInv'
  BY <1>1, <1>2, <1>6, Zenon DEF AccountInv, MarkedAccounted, CommittedAccounted, CallInv, Polled
<1>8. WindowInv' /\ LateInv'
  BY <1>4, Zenon DEF WindowInv, LateInv
<1> QED  BY <1>5, <1>7, <1>8

-----------------------------------------------------------------------------
(* The properties. *)

(* The poll loop of record_runner.go keeps track of every record it has read. *)
THEOREM RecordInvCorrect == Spec => []Inv
<1>1. Inv /\ [Next]_vars => Inv'
  <2> SUFFICES ASSUME Inv, [Next]_vars  PROVE Inv'
    OBVIOUS
  <2>1. CASE \E p \in Partitions : HandleFetched(p)
    BY <2>1, HandleFetchedInv
  <2>2. CASE DispatchSucceeds
    BY <2>2, DispatchSucceedsInv
  <2>3. CASE DispatchFails
    BY <2>3, DispatchFailsInv
  <2>4. CASE \E o \in {"ok", "lost", "ambiguous"} : Commit(o)
    BY <2>4, CommitInv
  <2>5. CASE Restart
    BY <2>5, RestartInv
  <2>6. CASE UNCHANGED vars
    <3> USE <2>6 DEF vars, broker, state
    <3>1. Records' = Records /\ \A f : WindowOf(f)' = WindowOf(f)
      BY LogSteady
    <3>2. Dispatched' = Dispatched /\ \A f : Polled(f)' <=> Polled(f)
      BY DEF Dispatched, Polled
    <3>3. Types'
      BY <3>1, <3>2, Zenon DEF Inv, Types
    <3>4. WindowInv'
      BY <3>1, <3>2, Zenon DEF Inv, WindowInv
    <3>5. MarkedAccounted' /\ AccountInv' /\ CallInv'
      BY <3>1, <3>2, Zenon DEF Inv, MarkedAccounted, AccountInv, CallInv
    <3>6. LateInv'
      BY <3>2 DEF Inv, LateInv
    <3> QED  BY <3>3, <3>4, <3>5, <3>6 DEF Inv
  <2> QED  BY <2>1, <2>2, <2>3, <2>4, <2>5, <2>6 DEF Next
<1> QED  BY InitInv, <1>1, PTL DEF Spec

(* The offsets, the window state and the retry counter keep their ranges. *)
THEOREM RecordTypesCorrect == Spec => []TypeOK
<1>1. Inv => TypeOK
  BY DEF Inv, Types, TypeOK, Windows
<1> QED  BY <1>1, RecordInvCorrect, PTL

(* Whatever fails, is retried or is replayed, the commit of offsets
   (record_runner.go:407-459) passes over no record that was neither evaluated nor
   counted as dropped. *)
THEOREM CommittedAccountedCorrect == Spec => []CommittedAccounted
<1>1. Inv => CommittedAccounted
  BY CommittedFollows DEF Inv
<1> QED  BY <1>1, RecordInvCorrect, PTL

(* A run holds records of its own window only (record_runner.go:320-376). *)
THEOREM OwnWindowOnlyCorrect == Spec => []OwnWindowOnly
<1>1. Inv => OwnWindowOnly
  BY DEF Inv, CallInv, OwnWindowOnly
<1> QED  BY <1>1, RecordInvCorrect, PTL

(* The watermark never passes the end of the active window: the first record of a
   later window closes it (record_runner.go:343-352), so the grace-period check after
   an append (record_runner.go:379) never holds, whatever lateness_tolerance a rule
   declares.  ADR-0024 (lines 63-70, 115-132) and the comments at
   record_runner.go:168-170, 250-251 and 336-340 describe windows the tolerance
   holds open. *)
LEMMA GraceNeverOver ==
    ASSUME Inv, phase = "poll", active # Null
    PROVE  ~GraceOver(active.start, watermark)
<1>1. active.start <= watermark /\ watermark < active.start + WindowDuration
  BY DEF Inv, WindowInv
<1>2. watermark \in Nat /\ active.start \in Nat
  BY DEF Inv, Types, Windows
<1> QED  BY <1>1, <1>2, RecordAssumption DEF GraceOver

(* late_dropped_count counts a record once (record_runner.go:418). *)
THEOREM LateCountedOnceCorrect == Spec => []LateCountedOnce
<1>1. Inv => LateCountedOnce
  BY DEF Inv, CallInv, LateInv, LateCountedOnce
<1> QED  BY <1>1, RecordInvCorrect, PTL

(* Truncation to seconds keeps apart what is a second or more apart. *)
LEMMA SecondsApart ==
    ASSUME NEW a \in Nat, NEW b \in Nat, NEW n \in Nat \ {0}, a + n <= b
    PROVE  a \div n # b \div n
<1>1. a = n * (a \div n) + (a % n) /\ a % n \in 0 .. n - 1 /\ a \div n \in Int
  OBVIOUS
<1>2. b = n * (b \div n) + (b % n) /\ b % n \in 0 .. n - 1 /\ b \div n \in Int
  OBVIOUS
<1> SUFFICES ASSUME a \div n = b \div n  PROVE FALSE
  OBVIOUS
<1>3. PICK m \in Int : m = n * (a \div n)
  BY <1>1
<1>4. a = m + (a % n) /\ b = m + (b % n)
  BY <1>1, <1>2, <1>3
<1> QED  BY <1>1, <1>2, <1>4

(* Two different starts of windows are at least a window apart. *)
LEMMA StartsApart ==
    ASSUME NEW w \in Nat, NEW i \in Nat, NEW j \in Nat, i < j
    PROVE  i * w + w <= j * w
<1>1. PICK k \in Nat : j = i + 1 + k
  <2>1. j - i - 1 \in Nat /\ j = i + 1 + (j - i - 1)
    OBVIOUS
  <2> QED  BY <2>1
<1>2. j * w = i * w + w + k * w
  BY <1>1
<1>3. k * w \in Nat /\ i * w \in Nat
  OBVIOUS
<1> QED  BY <1>2, <1>3

(* The identity of a record-mode execution (execution_id.go:66-67) tells windows
   apart when they last a second or more. *)
THEOREM WindowsIdentifiedCorrect == Spec => []WindowsIdentified
<1>1. Inv => WindowsIdentified
  <2> SUFFICES ASSUME Inv, WindowDuration >= Second, NEW d \in Dispatched, NEW e \in Dispatched,
                      IdentityOf(d) = IdentityOf(e)
               PROVE  d.start = e.start
    BY DEF WindowsIdentified
  <2>1. \A c \in Dispatched : \E k \in Nat : c.start = k * WindowDuration
    <3> TAKE c \in Dispatched
    <3>1. PICK f \in c.records : WindowOf(f) = c.start
      BY DEF Inv, CallInv
    <3>2. f \in Records /\ log \in Logs
      BY <3>1 DEF Inv, Types
    <3> QED  BY <3>1, <3>2, RecordFacts
  <2>2. PICK i \in Nat : d.start = i * WindowDuration
    BY <2>1
  <2>3. PICK j \in Nat : e.start = j * WindowDuration
    BY <2>1
  <2>4. d.start \div Second = e.start \div Second
    BY DEF IdentityOf
  <2>5. WindowDuration \in Nat /\ Second \in Nat \ {0}
    BY RecordAssumption
  <2>6. d.start \in Nat /\ e.start \in Nat
    BY <2>2, <2>3, <2>5
  <2>7. ~(i < j)
    <3> SUFFICES ASSUME i < j  PROVE FALSE
      OBVIOUS
    <3>1. d.start + WindowDuration <= e.start
      BY <2>2, <2>3, <2>5, StartsApart
    <3>2. d.start + Second <= e.start
      BY <3>1, <2>5, <2>6
    <3> QED  BY <3>2, <2>4, <2>5, <2>6, SecondsApart
  <2>8. ~(j < i)
    <3> SUFFICES ASSUME j < i  PROVE FALSE
      OBVIOUS
    <3>1. e.start + WindowDuration <= d.start
      BY <2>2, <2>3, <2>5, StartsApart
    <3>2. e.start + Second <= d.start
      BY <3>1, <2>5, <2>6
    <3> QED  BY <3>2, <2>4, <2>5, <2>6, SecondsApart, Zenon
  <2>9. i = j
    BY <2>7, <2>8
  <2> QED  BY <2>2, <2>3, <2>9
<1> QED  BY <1>1, RecordInvCorrect, PTL

-----------------------------------------------------------------------------
(* A partition in event-time order.  The marked and the committed offset then lie
   between two windows, so that a replay begins at the first record of a window, and the
   active window holds every record of its own that was polled. *)
Boundary(off) ==
    \A f, g \in Records : f[2] < off[f[1]] /\ off[g[1]] <= g[2] => WindowOf(f) < WindowOf(g)

ActiveHolds ==
    active # Null => \A f \in Records : Polled(f) /\ f # pending =>
        WindowOf(f) < active.start \/ f \in active.records

OrderInv ==
    /\ active = Null => next = marked
    /\ InOrder => Boundary(marked) /\ Boundary(committed) /\ ActiveHolds /\ WindowsComplete

(* Time.Truncate keeps the order of its arguments. *)
LEMMA AlignedMonotone ==
    ASSUME NEW t \in Nat, NEW u \in Nat, NEW w \in Nat \ {0}, t <= u
    PROVE  t - (t % w) <= u - (u % w)
<1>1. PICK i \in Nat : t - (t % w) = i * w
  BY Aligned, Zenon
<1>2. PICK j \in Nat : u - (u % w) = j * w
  BY Aligned, Zenon
<1>3. i * w \in Nat /\ j * w \in Nat /\ i * w <= t /\ u < j * w + w
  BY <1>1, <1>2, Aligned
<1>4. CASE j < i
  <2>1. j * w + w <= i * w
    BY <1>4, StartsApart
  <2> QED  BY <2>1, <1>3
<1>5. CASE i = j
  BY <1>1, <1>2, <1>3, <1>5
<1>6. CASE i < j
  <2>1. i * w + w <= j * w
    BY <1>6, StartsApart
  <2> QED  BY <2>1, <1>1, <1>2, <1>3
<1> QED  BY <1>4, <1>5, <1>6

(* A topic in event-time order has one partition with records, whose windows
   follow the offsets. *)
LEMMA Ordered ==
    ASSUME log \in Logs, InOrder, NEW f \in Records, NEW g \in Records
    PROVE  f[1] = g[1] /\ (f[2] <= g[2] => WindowOf(f) <= WindowOf(g))
<1>1. PICK p \in Partitions : /\ \A q \in Partitions \ {p} : log[q] = <<>>
                              /\ \A i, j \in DOMAIN log[p] : i < j => log[p][i] <= log[p][j]
  BY DEF InOrder
<1>2. \A h \in Records : h[1] = p /\ h[2] \in 1 .. Len(log[p])
  <2> TAKE h \in Records
  <2>1. h[1] \in Partitions /\ h[2] \in 1 .. Len(log[h[1]])
    BY RecordFacts
  <2>2. h[1] = p
    <3> SUFFICES ASSUME h[1] # p  PROVE FALSE
      OBVIOUS
    <3>1. log[h[1]] = <<>>
      BY <1>1, <2>1
    <3> QED  BY <2>1, <3>1
  <2> QED  BY <2>1, <2>2
<1>3. log[p] \in Seq(Nat) /\ WindowDuration \in Nat \ {0}
  BY RecordAssumption
<1>4. ASSUME f[2] <= g[2]  PROVE WindowOf(f) <= WindowOf(g)
  <2>1. f[2] \in DOMAIN log[p] /\ g[2] \in DOMAIN log[p] /\ f[2] \in Nat /\ g[2] \in Nat
    BY <1>2, <1>3
  <2>2. log[p][f[2]] \in Nat /\ log[p][g[2]] \in Nat
    BY <2>1, <1>3
  <2>3. log[p][f[2]] <= log[p][g[2]]
    BY <1>1, <1>4, <2>1, <2>2
  <2> QED  BY <2>2, <2>3, <1>2, <1>3, AlignedMonotone, Zenon DEF WindowOf, Timestamp
<1> QED  BY <1>2, <1>4

(* When the window is handed to dispatcher.Run, none of its records is still to come. *)
LEMMA ActiveComplete ==
    ASSUME Inv, OrderInv, InOrder, phase # "poll"
    PROVE  active # Null /\ active.records = {f \in Records : WindowOf(f) = active.start}
<1>1. /\ log \in Logs /\ active # Null /\ pending \in Records /\ active.start < WindowOf(pending)
      /\ active.start \in Nat /\ active.records \subseteq Records /\ pending[2] = next[pending[1]] - 1
      /\ \A f \in active.records : WindowOf(f) = active.start
  BY Zenon DEF Inv, Types, WindowInv, Windows
<1>2. ASSUME NEW f \in Records, WindowOf(f) = active.start  PROVE f \in active.records
  <2>1. f # pending
    BY <1>1, <1>2
  <2>2. CASE Polled(f)
    BY <1>1, <1>2, <2>1, <2>2 DEF OrderInv, ActiveHolds
  <2>3. CASE ~Polled(f)
    <3>1. f[1] = pending[1] /\ (pending[2] <= f[2] => WindowOf(pending) <= WindowOf(f))
      BY <1>1, Ordered
    <3>2. f[1] \in Partitions /\ f[2] \in 1 .. Len(log[f[1]]) /\ WindowOf(pending) \in Nat
      BY <1>1, RecordFacts
    <3>3. next[f[1]] \in Nat /\ f[2] \in Nat
      <4>1. next[f[1]] \in Nat
        BY <3>2, Zenon DEF Inv, Types
      <4>2. log[f[1]] \in Seq(Nat)
        BY <3>2, <1>1, RecordAssumption
      <4> QED  BY <3>2, <4>1, <4>2
    <3>4. pending[2] <= f[2]
      BY <2>3, <3>1, <3>3, <1>1 DEF Polled
    <3> QED  BY <3>1, <3>2, <3>4, <1>1, <1>2
  <2> QED  BY <2>2, <2>3
<1> QED  BY <1>1, <1>2

(* The record that closed the window is the first of its own. *)
LEMMA ClosedHolds ==
    ASSUME Inv, OrderInv, phase # "poll", WindowClosed, log' = log, next' = next, Inv'
    PROVE  active' # Null /\ (InOrder => ActiveHolds')
<1>1. /\ log \in Logs /\ active # Null /\ pending \in Records /\ active.start < WindowOf(pending)
      /\ active.start \in Nat /\ pending # Null
  BY Zenon DEF Inv, Types, WindowInv, Windows
<1>2. active' = [start |-> WindowOf(pending), records |-> {pending}]
  BY <1>1 DEF WindowClosed, AppendTo, Open
<1>3. pending \in Pairs /\ WindowOf(pending) \in Nat
  BY <1>1, RecordFacts
<1>4. active' \in Windows /\ active' # Null
  BY <1>2, <1>3, NullAssumption DEF Windows, Pairs
<1>5. Records' = Records /\ \A f : WindowOf(f)' = WindowOf(f)
  BY LogSteady
<1>6. ASSUME InOrder  PROVE ActiveHolds'
  <2> SUFFICES ASSUME NEW f \in Records, Polled(f), f # pending
               PROVE  WindowOf(f) < WindowOf(pending)
    BY <1>2, <1>5 DEF ActiveHolds, Polled
  <2>1. WindowOf(f) < active.start \/ f \in active.records
    BY <1>1, <1>6 DEF OrderInv, ActiveHolds
  <2>2. WindowOf(f) \in Nat /\ (f \in active.records => WindowOf(f) = active.start)
    BY <1>1, RecordFacts, Zenon DEF Inv, WindowInv
  <2> QED  BY <2>1, <2>2, <1>1, <1>3
<1> QED  BY <1>4, <1>6

(* The polled record: the windows of the earlier ones are not later than its own. *)
LEMMA HandleFetchedOrder ==
    ASSUME Inv, OrderInv, NEW p \in Partitions, HandleFetched(p), Inv'
    PROVE  OrderInv'
<1>1. PICK f : f = <<p, next[p]>>
  BY Zenon
<1>2. PICK w : w = IF active = Null THEN Open(f) ELSE active
  OBVIOUS
<1>3. /\ phase = "poll" /\ next[p] <= Len(log[p])
      /\ next' = [next EXCEPT ![p] = @ + 1]
      /\ log' = log /\ committed' = committed /\ marked' = marked /\ dispatches' = dispatches
      /\ \/ WindowOf(f) < w.start /\ active' = active /\ pending' = pending
         \/ WindowOf(f) > w.start /\ active' = active /\ pending' = f
         \/ /\ WindowOf(f) = w.start /\ pending' = pending
            /\ active' = [w EXCEPT !.records = @ \cup {f}]
  BY <1>1, <1>2 DEF HandleFetched, AppendTo
<1>4. log \in Logs /\ log[p] \in Seq(Nat) /\ next[p] \in 1 .. Len(log[p]) + 1 /\ next[p] \in Nat
  BY RecordAssumption, Zenon DEF Inv, Types
<1>5. f \in Records /\ WindowOf(f) \in Nat /\ f \in Pairs
  BY <1>1, <1>3, <1>4, RecordAt, RecordFacts
<1>6. Records' = Records /\ (\A g : WindowOf(g)' = WindowOf(g)) /\ Dispatched' = Dispatched
      /\ (InOrder' <=> InOrder)
  BY <1>3, LogSteady DEF Dispatched, InOrder
<1>7. \A g \in Records : Polled(g)' => Polled(g) \/ g = f
  <2> SUFFICES ASSUME NEW g \in Records, Polled(g)', ~Polled(g)  PROVE g = f
    OBVIOUS
  <2>1. g[1] \in Partitions /\ g[2] \in 1 .. Len(log[g[1]]) /\ g = <<g[1], g[2]>>
    BY <1>4, RecordFacts
  <2>2. g[2] \in Nat /\ next[g[1]] \in Nat
    BY <2>1, <1>4, RecordAssumption DEF Inv, Types
  <2>3. next'[g[1]] = IF g[1] = p THEN next[p] + 1 ELSE next[g[1]]
    BY <1>3, <2>1 DEF Inv, Types
  <2>4. g[1] = p /\ g[2] = next[p]
    BY <2>2, <2>3, <1>4 DEF Polled
  <2> QED  BY <2>1, <2>4, <1>1
<1>8. active # Null => w = active /\ active \in Windows /\ pending = Null
  BY <1>2, <1>3 DEF Inv, Types, WindowInv
<1>9. active = Null => w = [start |-> WindowOf(f), records |-> {}] /\ next = marked
  BY <1>2, Zenon DEF Open, OrderInv
<1>10. active' # Null
  <2>1. CASE active # Null /\ active' = active
    BY <2>1
  <2>2. CASE active = Null \/ active' # active
    <3>1. active' = [w EXCEPT !.records = @ \cup {f}]
      BY <2>2, <1>3, <1>5, <1>9
    <3>2. w \in Windows
      BY <1>5, <1>8, <1>9 DEF Windows
    <3>3. active' \in Windows
      BY <3>1, <3>2, <1>5 DEF Windows
    <3> QED  BY <3>3, NullAssumption DEF Windows, Pairs
  <2> QED  BY <2>1, <2>2
<1>11. ASSUME InOrder  PROVE Boundary(marked)' /\ Boundary(committed)' /\ WindowsComplete'
  BY <1>3, <1>6, <1>11 DEF OrderInv, Boundary, WindowsComplete
<1>12. ASSUME InOrder  PROVE ActiveHolds'
  <2> SUFFICES ASSUME NEW g \in Records, Polled(g)', g # pending'
               PROVE  WindowOf(g) < active'.start \/ g \in active'.records
    BY <1>6 DEF ActiveHolds
  <2>1. CASE active # Null
    <3>1. WindowOf(g) < active.start \/ g \in active.records \/ g = f
      BY <2>1, <1>7, <1>8, <1>12, <1>4, RecordFacts, NullAssumption DEF OrderInv, ActiveHolds, Pairs
    <3>2. active'.start = active.start /\ active.records \subseteq active'.records
      BY <2>1, <1>3, <1>8 DEF Windows
    <3>3. g = f => WindowOf(g) < active.start \/ g \in active'.records
      BY <2>1, <1>3, <1>5, <1>8 DEF Windows
    <3> QED  BY <3>1, <3>2, <3>3
  <2>2. CASE active = Null
    <3>1. active' = [start |-> WindowOf(f), records |-> {f}]
      BY <2>2, <1>3, <1>5, <1>9
    <3>2. CASE g = f
      BY <3>1, <3>2
    <3>3. CASE g # f
      <4>1. g[2] < marked[g[1]]
        BY <2>2, <3>3, <1>7, <1>9 DEF Polled
      <4>2. marked[f[1]] <= f[2]
        BY <2>2, <1>1, <1>4, <1>9
      <4>3. WindowOf(g) < WindowOf(f)
        BY <4>1, <4>2, <1>5, <1>12 DEF OrderInv, Boundary
      <4> QED  BY <3>1, <4>3
    <3> QED  BY <3>2, <3>3
  <2> QED  BY <2>1, <2>2
<1> QED  BY <1>6, <1>10, <1>11, <1>12 DEF OrderInv

(* dispatcher.Run receives the whole window. *)
LEMMA DispatchOrder ==
    ASSUME Inv, OrderInv, NEW ok \in BOOLEAN, phase = "dispatch", Dispatch(ok), log' = log, InOrder
    PROVE  WindowsComplete'
<1>1. PICK c : c = [start |-> active.start, records |-> active.records, late |-> lateDropped,
                    ok |-> ok, life |-> restarts]
  BY Zenon
<1>2. dispatches' = Append(dispatches, c) /\ c.start = active.start /\ c.records = active.records
  BY <1>1 DEF Dispatch
<1>3. active # Null /\ active \in Windows /\ lateDropped \subseteq Records /\ dispatches \in Seq(Calls)
  BY Zenon DEF Inv, Types, WindowInv
<1>4. Records \subseteq Pairs
  BY RecordFacts DEF Inv, Types
<1>5. c \in Calls
  <2>1. restarts \in Nat
    BY RecordAssumption DEF Inv, Types
  <2> QED  BY <1>1, <1>3, <1>4, <2>1 DEF Calls, Windows
<1>6. Dispatched' = Dispatched \cup {c}
  BY <1>2, <1>3, <1>5, Appended DEF Dispatched
<1>7. Records' = Records /\ \A f : WindowOf(f)' = WindowOf(f)
  BY LogSteady
<1>8. c.records = {f \in Records : WindowOf(f) = c.start}
  BY <1>2, ActiveComplete
<1>9. \A d \in Dispatched : d.records = {f \in Records : WindowOf(f) = d.start}
  BY DEF OrderInv, WindowsComplete
<1> QED  BY <1>6, <1>7, <1>8, <1>9 DEF WindowsComplete

(* Commit's high-water mark is the end of the committed window. *)
LEMMA MarkedBoundary ==
    ASSUME Inv, OrderInv, InOrder, phase = "commit"
    PROVE  Boundary(MarkedOffsets)
<1> SUFFICES ASSUME NEW f \in Records, NEW g \in Records,
                    f[2] < MarkedOffsets[f[1]], MarkedOffsets[g[1]] <= g[2]
             PROVE  WindowOf(f) < WindowOf(g)
  BY DEF Boundary
<1>1. log \in Logs /\ active.records \subseteq Records /\ active # Null
      /\ \A h \in active.records : WindowOf(h) = active.start /\ Polled(h)
  BY Zenon DEF Inv, Types, WindowInv
<1>2. PICK p \in Partitions : p = f[1] /\ p = g[1]
  BY <1>1, Ordered, RecordFacts
<1>3. \A h \in Records : h[1] \in Partitions /\ h[2] \in Nat /\ WindowOf(h) \in Nat
  <2> TAKE h \in Records
  <2>1. h[1] \in Partitions /\ h[2] \in 1 .. Len(log[h[1]]) /\ WindowOf(h) \in Nat
    BY <1>1, RecordFacts
  <2> QED  BY <2>1, <1>1, RecordAssumption
<1>4. f[2] < HighWater(p) /\ HighWater(p) <= g[2]
  BY <1>2 DEF MarkedOffsets
<1>5. PICK S : S = {marked[p]} \cup {h[2] + 1 : h \in {k \in active.records : k[1] = p}}
  BY Zenon
<1>6. next[p] \in Nat /\ marked[p] \in 1 .. next[p]
  BY Zenon DEF Inv, Types
<1>7. S \subseteq 0 .. next[p] /\ S # {}
  <2>1. \A h \in active.records : h[1] = p => h[2] + 1 \in 0 .. next[p]
    BY <1>1, <1>3, <1>6 DEF Polled
  <2> QED  BY <2>1, <1>5, <1>6
<1>8. HighWater(p) \in S /\ \A y \in S : y <= HighWater(p)
  BY <1>5, <1>6, <1>7, MaxBounded, Zenon DEF HighWater
<1>9. CASE HighWater(p) = marked[p]
  BY <1>2, <1>4, <1>9, Zenon DEF OrderInv, Boundary
<1>10. CASE HighWater(p) # marked[p]
  <2>1. PICK h \in active.records : h[1] = p /\ HighWater(p) = h[2] + 1
    BY <1>5, <1>8, <1>10
  <2>2. h \in Records /\ WindowOf(h) = active.start
    BY <2>1, <1>1
  <2>3. f[2] <= h[2] /\ h[2] <= g[2]
    BY <2>1, <2>2, <1>3, <1>4
  <2>4. WindowOf(f) <= WindowOf(h) /\ WindowOf(h) <= WindowOf(g)
    BY <2>2, <2>3, <1>1, Ordered, Zenon
  <2>5. WindowOf(g) # active.start
    <3> SUFFICES ASSUME WindowOf(g) = active.start  PROVE FALSE
      BY Zenon
    <3>1. g \in active.records
      BY ActiveComplete
    <3>2. g[2] + 1 \in S
      BY <3>1, <1>2, <1>5
    <3>3. g[2] + 1 <= HighWater(p)
      BY <3>2, <1>8
    <3> QED  BY <3>3, <2>1, <2>2, <1>3, <1>4
  <2> QED  BY <2>2, <2>4, <2>5, <1>3
<1> QED  BY <1>9, <1>10

(* A partition in event-time order is replayed window by window
   (record_runner.go:389-395). *)
THEOREM OrderInvCorrect == Spec => []OrderInv
<1>1. Init => OrderInv
  <2> SUFFICES ASSUME Init  PROVE OrderInv
    OBVIOUS
  <2>1. Dispatched = {}
    BY DEF Init, Dispatched
  <2>2. \A f \in Records : ~(f[2] < committed[f[1]]) /\ ~(f[2] < marked[f[1]])
    <3> TAKE f \in Records
    <3>1. f[1] \in Partitions /\ f[2] \in 1 .. Len(log[f[1]])
      BY RecordFacts DEF Init
    <3>2. log[f[1]] \in Seq(Nat)
      BY <3>1, RecordAssumption DEF Init
    <3> QED  BY <3>1, <3>2 DEF Init
  <2> QED  BY <2>1, <2>2 DEF Init, OrderInv, Boundary, ActiveHolds, WindowsComplete
<1>2. Inv /\ Inv' /\ OrderInv /\ [Next]_vars => OrderInv'
  <2> SUFFICES ASSUME Inv, Inv', OrderInv, [Next]_vars  PROVE OrderInv'
    OBVIOUS
  <2>1. CASE \E p \in Partitions : HandleFetched(p)
    BY <2>1, HandleFetchedOrder
  <2>2. CASE DispatchSucceeds
    <3>1. /\ phase = "dispatch" /\ Dispatch(TRUE)
          /\ log' = log /\ next' = next /\ committed' = committed /\ marked' = marked
          /\ active' = active /\ pending' = pending
      BY <2>2, Zenon DEF DispatchSucceeds, broker
    <3>2. Records' = Records /\ (\A f : WindowOf(f)' = WindowOf(f)) /\ (InOrder' <=> InOrder)
      BY <3>1, LogSteady, Zenon DEF InOrder
    <3>3. InOrder => WindowsComplete'
      BY <3>1, DispatchOrder, Zenon
    <3> QED  BY <3>1, <3>2, <3>3, Zenon DEF OrderInv, Boundary, ActiveHolds, Polled
  <2>3. CASE DispatchFails
    <3>1. /\ phase = "dispatch" /\ Dispatch(FALSE) /\ WindowClosed
          /\ log' = log /\ next' = next /\ committed' = committed /\ marked' = marked
      BY <2>3, Zenon DEF DispatchFails, broker
    <3>2. Records' = Records /\ (\A f : WindowOf(f)' = WindowOf(f)) /\ (InOrder' <=> InOrder)
      BY <3>1, LogSteady DEF InOrder
    <3>3. InOrder => WindowsComplete'
      BY <3>1, DispatchOrder, Zenon
    <3>4. active' # Null /\ (InOrder => ActiveHolds')
      BY <3>1, ClosedHolds
    <3> QED  BY <3>1, <3>2, <3>3, <3>4 DEF OrderInv, Boundary
  <2>4. CASE \E o \in {"ok", "lost", "ambiguous"} : Commit(o)
    <3>1. /\ phase = "commit" /\ log' = log /\ next' = next /\ dispatches' = dispatches
          /\ marked' = MarkedOffsets /\ (committed' = committed \/ committed' = marked')
          /\ WindowClosed \/ (active' = active /\ pending' = pending)
      BY <2>4 DEF Commit
    <3>2. Records' = Records /\ (\A f : WindowOf(f)' = WindowOf(f)) /\ (InOrder' <=> InOrder)
          /\ Dispatched' = Dispatched
      BY <3>1, LogSteady DEF InOrder, Dispatched
    <3>3. InOrder => WindowsComplete'
      BY <3>2 DEF OrderInv, WindowsComplete
    <3>4. active' # Null /\ (InOrder => ActiveHolds')
      <4>1. CASE WindowClosed
        BY <3>1, <4>1, ClosedHolds
      <4>2. CASE active' = active /\ pending' = pending
        BY <3>1, <3>2, <4>2, Zenon DEF OrderInv, ActiveHolds, Polled, Inv, WindowInv
      <4> QED  BY <3>1, <4>1, <4>2
    <3>5. InOrder => Boundary(marked)' /\ Boundary(committed)'
      <4>1. InOrder => Boundary(committed) /\ Boundary(MarkedOffsets)
        BY <3>1, MarkedBoundary DEF OrderInv
      <4> QED  BY <3>1, <3>2, <4>1, Zenon DEF Boundary
    <3> QED  BY <3>2, <3>3, <3>4, <3>5 DEF OrderInv
  <2>5. CASE Restart
    <3>1. /\ log' = log /\ next' = committed /\ committed' = committed /\ marked' = committed
          /\ active' = Null /\ dispatches' = dispatches
      BY <2>5 DEF Restart
    <3>2. Records' = Records /\ (\A f : WindowOf(f)' = WindowOf(f)) /\ (InOrder' <=> InOrder)
          /\ Dispatched' = Dispatched
      BY <3>1, LogSteady DEF InOrder, Dispatched
    <3> QED  BY <3>1, <3>2, Zenon DEF OrderInv, Boundary, ActiveHolds, WindowsComplete
  <2>6. CASE UNCHANGED vars
    <3> USE <2>6 DEF vars, broker, state
    <3>1. Records' = Records /\ (\A f : WindowOf(f)' = WindowOf(f)) /\ (InOrder' <=> InOrder)
          /\ Dispatched' = Dispatched
      BY LogSteady, Zenon DEF InOrder, Dispatched
    <3> QED  BY <3>1, Zenon DEF OrderInv, Boundary, ActiveHolds, WindowsComplete, Polled
  <2> QED  BY <2>1, <2>2, <2>3, <2>4, <2>5, <2>6 DEF Next
<1> QED  BY <1>1, <1>2, RecordInvCorrect, PTL DEF Spec

(* Every execution of a window of an ordered partition holds all its records, also
   when a restart, a failed dispatch or a failed commit makes the window run again:
   the replay "re-populate[s] the same window deterministically"
   (record_runner.go:389-395). *)
THEOREM WindowsCompleteCorrect == Spec => []WindowsComplete
<1>1. OrderInv => WindowsComplete
  BY DEF OrderInv, WindowsComplete
<1> QED  BY <1>1, OrderInvCorrect, PTL

-----------------------------------------------------------------------------
(* The delivery contract. *)

Unsettled(f) == marked[f[1]] <= f[2]

(* Until its run is made a window holds unsettled records only; while its offsets
   are committed it is the run made last. *)
FreshInv ==
    /\ phase # "commit" => /\ active # Null => \A f \in active.records : Unsettled(f)
                           /\ \A f \in lateDropped : Unsettled(f)
    /\ pending # Null => Unsettled(pending)
    /\ phase = "commit" => /\ dispatches # <<>>
                           /\ dispatches[Len(dispatches)].ok
                           /\ dispatches[Len(dispatches)].records = active.records

(* What is polled next is not settled: the marks never pass the poll
   position. *)
LEMMA NextUnsettled ==
    ASSUME Types, NEW p \in Partitions
    PROVE  Unsettled(<<p, next[p]>>)
<1>1. next[p] \in Nat /\ marked[p] \in 1 .. next[p]
  BY DEF Types
<1> QED  BY <1>1 DEF Unsettled

(* commitWithRetry's mark stays behind the record that caused the close, which is
   the last one polled and of a later window. *)
LEMMA MarkBehindPending ==
    ASSUME Types, WindowInv, phase = "commit"
    PROVE  HighWater(pending[1]) <= pending[2] \/ HighWater(pending[1]) = marked[pending[1]]
<1>1. /\ log \in Logs /\ active # Null /\ active.records \subseteq Records /\ pending \in Records
      /\ active.start < WindowOf(pending) /\ pending[2] = next[pending[1]] - 1
  BY DEF Types, WindowInv
<1>2. PICK p \in Partitions : p = pending[1]
  BY <1>1, RecordFacts
<1>3. next[p] \in Nat /\ marked[p] \in 1 .. next[p]
  BY DEF Types
<1>4. PICK S : S = {marked[p]} \cup {f[2] + 1 : f \in {g \in active.records : g[1] = p}}
  BY Zenon
<1>5. ASSUME NEW g \in active.records, g[1] = p
      PROVE  g[2] \in Nat /\ g[2] + 1 <= next[p] - 1
  <2>1. g \in Records /\ Polled(g) /\ WindowOf(g) = active.start
    BY <1>1, Zenon DEF WindowInv
  <2>2. g[2] \in 1 .. Len(log[g[1]]) /\ g = <<g[1], g[2]>> /\ WindowOf(g) \in Nat
    BY <1>1, <2>1, RecordFacts
  <2>3. log[p] \in Seq(Nat)
    BY <1>1, RecordAssumption
  <2>4. g[2] \in Nat /\ g[2] < next[p]
    BY <1>5, <2>1, <2>2, <2>3 DEF Polled
  <2>5. g # pending
    BY <1>1, <2>1, <2>2
  <2>6. pending = <<pending[1], pending[2]>>
    BY <1>1, RecordFacts
  <2>7. g[2] # next[p] - 1
    BY <1>1, <1>2, <1>5, <2>2, <2>5, <2>6
  <2> QED  BY <1>3, <2>4, <2>7
<1>6. S \subseteq 0 .. next[p] /\ S # {}
  BY <1>3, <1>4, <1>5
<1>7. HighWater(p) \in S
  BY <1>3, <1>4, <1>6, MaxBounded, Zenon DEF HighWater
<1>8. HighWater(p) = marked[p] \/ \E g \in active.records : g[1] = p /\ HighWater(p) = g[2] + 1
  BY <1>4, <1>7
<1>9. HighWater(p) <= next[p] - 1 \/ HighWater(p) = marked[p]
  BY <1>5, <1>8
<1> QED  BY <1>1, <1>2, <1>9

(* A commit leaves the record that caused the close unsettled. *)
LEMMA PendingStaysUnsettled ==
    ASSUME Types, WindowInv, FreshInv, NEW o \in {"ok", "lost", "ambiguous"}, Commit(o)
    PROVE  pending \in Records /\ marked'[pending[1]] <= pending[2]
<1>1. /\ phase = "commit" /\ (marked' = MarkedOffsets)
      /\ pending # Null /\ pending \in Records /\ log \in Logs
  BY DEF Commit, WindowInv, Types
<1>2. pending[1] \in Partitions /\ marked[pending[1]] <= pending[2]
  BY <1>1, RecordFacts DEF FreshInv, Unsettled
<1>3. marked'[pending[1]] <= pending[2]
  BY <1>1, <1>2, MarkBehindPending DEF MarkedOffsets
<1> QED  BY <1>1, <1>3

(* The end of closeAndDispatch: the next window holds the record that caused the
   close, which is not settled. *)
LEMMA ClosedFresh ==
    ASSUME WindowClosed, phase' = "poll", pending # Null, marked'[pending[1]] <= pending[2]
    PROVE  FreshInv'
<1>1. active' = [start |-> WindowOf(pending), records |-> {pending}] /\ lateDropped' = {} /\ pending' = Null
  BY Zenon DEF WindowClosed, AppendTo, Open
<1>2. \A f \in active'.records : f = pending
  BY <1>1
<1> QED  BY <1>1, <1>2 DEF FreshInv, Unsettled

(* dispatcher.Run is called once more, with what the window holds. *)
LEMMA RunMade ==
    ASSUME Types, NEW ok \in BOOLEAN, Dispatch(ok)
    PROVE  /\ Len(dispatches') = Len(dispatches) + 1
           /\ dispatches' = Append(dispatches, dispatches'[Len(dispatches) + 1])
           /\ dispatches'[Len(dispatches) + 1] = [start |-> active.start, records |-> active.records,
                                                  late |-> lateDropped, ok |-> ok,
                                                  life |-> restarts]
<1>1. PICK d : d = [start |-> active.start, records |-> active.records, late |-> lateDropped,
                    ok |-> ok, life |-> restarts]
  BY Zenon
<1>2. dispatches \in Seq(Calls) /\ dispatches' = Append(dispatches, d)
  BY <1>1, Zenon DEF Types, Dispatch
<1>3. Len(dispatches') = Len(dispatches) + 1 /\ dispatches'[Len(dispatches) + 1] = d
  BY <1>2
<1> QED  BY <1>1, <1>2, <1>3, Zenon

(* Every step of the poll loop keeps the active window fresh: what it reads is
   above the marks, also after a restart. *)
LEMMA FreshStep == Inv /\ Inv' /\ FreshInv /\ [Next]_vars => FreshInv'
<1> SUFFICES ASSUME Inv, Inv', FreshInv, [Next]_vars  PROVE FreshInv'
  OBVIOUS
<1>1. Types /\ WindowInv /\ Types' /\ WindowInv'
  BY Zenon DEF Inv
<1>2. CASE \E p \in Partitions : HandleFetched(p)
  <2>1. PICK p \in Partitions : HandleFetched(p)
    BY <1>2
  <2>2. PICK f : f = <<p, next[p]>>
    BY Zenon
  <2>3. Unsettled(f) /\ phase = "poll" /\ pending = Null /\ UNCHANGED marked
    <3>1. phase = "poll" /\ UNCHANGED marked
      BY <2>1, Zenon DEF HandleFetched
    <3> QED  BY <1>1, <2>2, <3>1, NextUnsettled, Zenon DEF WindowInv
  <2>4. /\ lateDropped' \in {lateDropped, lateDropped \cup {f}}
        /\ pending' \in {pending, f}
        /\ \/ active' = active
           \/ \E w : /\ w = Open(f) \/ (w = active /\ active # Null)
                     /\ active' = [w EXCEPT !.records = @ \cup {f}]
        /\ phase' # "commit"
    BY <2>1, <2>2, <2>3 DEF HandleFetched, AppendTo
  <2>5. \A g : Unsettled(g)' = (marked[g[1]] <= g[2])
    BY <2>3 DEF Unsettled
  <2>6. active' # Null => \A g \in active'.records : g = f \/ (active # Null /\ g \in active.records)
    <3>1. ASSUME NEW w, w = Open(f) \/ (w = active /\ active # Null),
                 active' = [w EXCEPT !.records = @ \cup {f}]
          PROVE  \A g \in active'.records : g = f \/ (active # Null /\ g \in active.records)
      <4>1. CASE w = Open(f)
        BY <3>1, <4>1 DEF Open
      <4>2. CASE w = active /\ active # Null
        <5>1. active \in Windows
          BY <1>1, <4>2, Zenon DEF Types
        <5> QED  BY <3>1, <4>2, <5>1 DEF Windows
      <4> QED  BY <3>1, <4>1, <4>2
    <3> QED  BY <2>4, <3>1, Zenon
  <2>7. /\ \A g \in lateDropped' : marked[g[1]] <= g[2]
        /\ pending' # Null => marked[pending'[1]] <= pending'[2]
        /\ active' # Null => \A g \in active'.records : marked[g[1]] <= g[2]
    BY <2>3, <2>4, <2>6, Zenon DEF FreshInv, Unsettled
  <2> QED  BY <2>3, <2>4, <2>7, Zenon DEF FreshInv, Unsettled
<1>3. CASE DispatchSucceeds
  <2>1. UNCHANGED <<marked, active, pending>> /\ phase' = "commit"
    BY <1>3, Zenon DEF DispatchSucceeds, broker
  <2>2. /\ Len(dispatches') = Len(dispatches) + 1
        /\ dispatches' = Append(dispatches, dispatches'[Len(dispatches) + 1])
        /\ dispatches'[Len(dispatches) + 1].ok = TRUE
        /\ dispatches'[Len(dispatches) + 1].records = active.records
    <3>1. Dispatch(TRUE)
      BY <1>3, Zenon DEF DispatchSucceeds
    <3>2. PICK d : d = [start |-> active.start, records |-> active.records,
                        late |-> lateDropped, ok |-> TRUE, life |-> restarts]
      BY Zenon
    <3>3. d.ok = TRUE /\ d.records = active.records
      BY <3>2
    <3> QED  BY <1>1, <3>1, <3>2, <3>3, RunMade, Zenon
  <2>3. dispatches' # <<>>
    BY <1>1, <2>2 DEF Types
  <2> QED  BY <2>1, <2>2, <2>3 DEF FreshInv, Unsettled
<1>4. CASE DispatchFails
  <2>1. WindowClosed /\ UNCHANGED marked /\ phase = "dispatch"
    BY <1>4, Zenon DEF DispatchFails, broker
  <2>2. pending # Null /\ marked'[pending[1]] <= pending[2]
    BY <1>1, <2>1 DEF WindowInv, FreshInv, Unsettled
  <2>3. phase' = "poll"
    BY <1>1, <2>1, Zenon DEF WindowInv, WindowClosed
  <2> QED  BY <2>1, <2>2, <2>3, ClosedFresh
<1>5. CASE \E o \in {"ok", "lost", "ambiguous"} : Commit(o)
  <2>1. PICK o \in {"ok", "lost", "ambiguous"} : Commit(o)
    BY <1>5
  <2>2. phase = "commit" /\ pending # Null /\ UNCHANGED dispatches
    BY <1>1, <2>1, Zenon DEF Commit, WindowInv
  <2>3. marked'[pending[1]] <= pending[2]
    BY <1>1, <2>1, PendingStaysUnsettled
  <2>4. CASE WindowClosed
    <3>1. phase' = "poll"
      BY <1>1, <2>4, Zenon DEF WindowInv, WindowClosed
    <3> QED  BY <2>2, <2>3, <2>4, <3>1, ClosedFresh
  <2>5. CASE UNCHANGED <<active, lateDropped, phase, pending>>
    BY <2>2, <2>3, <2>5 DEF FreshInv, Unsettled
  <2> QED  BY <2>1, <2>4, <2>5, Zenon DEF Commit
<1>6. CASE Restart
  BY <1>6, Zenon DEF Restart, FreshInv
<1>7. CASE UNCHANGED vars
  BY <1>7, Zenon DEF vars, broker, state, FreshInv, Unsettled
<1> QED  BY <1>2, <1>3, <1>4, <1>5, <1>6, <1>7, Zenon DEF Next

(* Init and the steps: the delivery invariant holds in every state. *)
THEOREM FreshInvCorrect == Spec => []FreshInv
<1>1. Init => FreshInv
  BY Zenon DEF Init, FreshInv
<1> QED  BY <1>1, FreshStep, RecordInvCorrect, PTL DEF Spec

(* A call of dispatcher.Run is one run of the contract. *)
LEMMA DispatchRuns ==
    ASSUME Types, WindowInv, FreshInv, phase = "dispatch", NEW ok \in BOOLEAN, Dispatch(ok),
           UNCHANGED <<log, committed>>
    PROVE  Delivery!Run
<1>1. PICK d : d = [start |-> active.start, records |-> active.records,
                    late |-> lateDropped, ok |-> ok, life |-> restarts]
  BY Zenon
<1>2. Len(dispatches') = Len(dispatches) + 1 /\ dispatches'[Len(dispatches')] = d
      /\ dispatches' = Append(dispatches, d)
  BY <1>1, RunMade, Zenon
<1>3. d.start = active.start /\ d.records = active.records /\ d.late = lateDropped
  BY <1>1
<1>4. /\ log \in Logs /\ active.records # {}
      /\ \A f \in active.records : f \in Records /\ Unsettled(f) /\ WindowOf(f) = active.start
      /\ \A f \in lateDropped : f \in Records /\ Unsettled(f) /\ WindowOf(f) < active.start
  BY Zenon DEF Types, WindowInv, FreshInv
<1>5. \A f \in Records : Unsettled(f) => ~(f[2] < committed[f[1]])
  <2> SUFFICES ASSUME NEW f \in Records, Unsettled(f)  PROVE ~(f[2] < committed[f[1]])
    OBVIOUS
  <2>1. f[1] \in Partitions /\ f[2] \in Nat
    <3>1. f[1] \in Partitions /\ f \in Pairs
      BY <1>4, RecordFacts
    <3> QED  BY <3>1 DEF Pairs
  <2>2. marked[f[1]] \in Nat
    BY <2>1, Zenon DEF Types
  <2>3. ~(f[2] < marked[f[1]])
    BY <2>1, <2>2 DEF Unsettled
  <2> QED  BY <2>3, CommittedBehind
<1>6. Delivery!Records = Records /\ \A f : Delivery!Window(f) = WindowOf(f)
  BY Zenon DEF Delivery!Records, Records, Delivery!Window, WindowOf, Timestamp
<1>7. /\ \A f \in d.records : f \in Delivery!Records /\ ~Delivery!Settled(f) /\ Delivery!Window(f) = d.start
      /\ \A f \in d.late : f \in Delivery!Records /\ ~Delivery!Settled(f) /\ Delivery!Window(f) < d.start
  BY <1>3, <1>4, <1>5, <1>6, Zenon DEF Delivery!Settled
<1> QED  BY <1>2, <1>3, <1>4, <1>7, Zenon DEF Delivery!Run, Delivery!Latest

(* Where a mark is ahead of the committed offset it lies behind a record of a
   successful run: the marks of a window whose commit failed stay in the client. *)
BehindInv ==
    \A p \in Partitions :
        \/ marked[p] = committed[p]
        \/ \E d \in Dispatched : d.ok /\ <<p, marked[p] - 1>> \in d.records

(* The marks after an attempt of commitWithRetry. *)
LEMMA CommitBehind ==
    ASSUME Inv, FreshInv, BehindInv, NEW o \in {"ok", "lost", "ambiguous"}, Commit(o),
           NEW p \in Partitions
    PROVE  /\ marked'[p] = HighWater(p) /\ Dispatched' = Dispatched
           /\ \/ marked'[p] = committed[p]
              \/ \E d \in Dispatched : d.ok /\ <<p, marked'[p] - 1>> \in d.records
<1>1. phase = "commit" /\ marked' = MarkedOffsets /\ dispatches' = dispatches
  BY Zenon DEF Commit
<1>2. marked'[p] = HighWater(p) /\ Dispatched' = Dispatched
  BY <1>1 DEF MarkedOffsets, Dispatched
<1>3. HighWater(p) # marked[p] => <<p, HighWater(p) - 1>> \in active.records
  BY <1>1, Marked, Zenon DEF Inv
<1>4. \E d \in Dispatched : d.ok /\ d.records = active.records
  <2>1. /\ dispatches \in Seq(Calls) /\ dispatches # <<>> /\ dispatches[Len(dispatches)].ok
        /\ dispatches[Len(dispatches)].records = active.records
    BY <1>1, Zenon DEF Inv, Types, FreshInv
  <2>2. Len(dispatches) \in DOMAIN dispatches
    BY <2>1
  <2> QED  BY <2>1, <2>2, Zenon DEF Dispatched
<1>5. CASE HighWater(p) # marked[p]
  BY <1>2, <1>3, <1>4, <1>5, Zenon
<1>6. CASE HighWater(p) = marked[p]
  <2>1. marked'[p] = marked[p]
    BY <1>2, <1>6
  <2>2. marked[p] = committed[p] \/ \E d \in Dispatched : d.ok /\ <<p, marked[p] - 1>> \in d.records
    BY Zenon DEF BehindInv
  <2> QED  BY <1>2, <2>1, <2>2
<1> QED  BY <1>2, <1>5, <1>6

(* Only commitWithRetry moves a mark, and a restart forgets them. *)
LEMMA BehindStep == Inv /\ Inv' /\ FreshInv /\ BehindInv /\ [Next]_vars => BehindInv'
<1> SUFFICES ASSUME Inv, Inv', FreshInv, BehindInv, [Next]_vars  PROVE BehindInv'
  OBVIOUS
<1>1. ASSUME UNCHANGED <<committed, marked>>, Dispatched \subseteq Dispatched'  PROVE BehindInv'
  BY <1>1, Zenon DEF BehindInv
<1>2. CASE \E p \in Partitions : HandleFetched(p)
  BY <1>1, <1>2 DEF HandleFetched, Dispatched
<1>3. CASE DispatchSucceeds \/ DispatchFails
  <2>1. UNCHANGED <<committed, marked>>
    BY <1>3, Zenon DEF DispatchSucceeds, DispatchFails, broker
  <2>2. PICK ok \in BOOLEAN : Dispatch(ok)
    BY <1>3, Zenon DEF DispatchSucceeds, DispatchFails
  <2>3. dispatches \in Seq(Calls) /\ \E d : dispatches' = Append(dispatches, d)
    BY <2>2, Zenon DEF Inv, Types, Dispatch
  <2>4. Dispatched \subseteq Dispatched'
    BY <2>3 DEF Dispatched
  <2> QED  BY <1>1, <2>1, <2>4
<1>4. CASE \E o \in {"ok", "lost", "ambiguous"} : Commit(o)
  <2>1. PICK o \in {"ok", "lost", "ambiguous"} : Commit(o)
    BY <1>4
  <2>2. committed' = committed \/ committed' = marked'
    BY <2>1, Zenon DEF Commit
  <2> QED  BY <2>1, <2>2, CommitBehind, Zenon DEF BehindInv
<1>5. CASE Restart
  BY <1>5, Zenon DEF Restart, BehindInv
<1>6. CASE UNCHANGED vars
  BY <1>1, <1>6 DEF vars, broker, Dispatched
<1> QED  BY <1>2, <1>3, <1>4, <1>5, <1>6, Zenon DEF Next

(* Init and the steps. *)
THEOREM BehindInvCorrect == Spec => []BehindInv
<1>1. Init => BehindInv
  BY Zenon DEF Init, BehindInv
<1> QED  BY <1>1, BehindStep, RecordInvCorrect, FreshInvCorrect, PTL DEF Spec

(* An attempt of commitWithRetry that reaches the broker settles records of
   successful runs, or changes nothing the contract sees. *)
LEMMA CommitSettles ==
    ASSUME Inv, Inv', FreshInv, BehindInv, NEW o \in {"ok", "lost", "ambiguous"}, Commit(o)
    PROVE  Delivery!Settle \/ UNCHANGED <<log, committed, dispatches>>
<1>1. /\ phase = "commit" /\ UNCHANGED <<log, dispatches>>
      /\ committed' = committed \/ committed' = marked'
  BY Zenon DEF Commit
<1>2. Types /\ WindowInv /\ AccountInv /\ MarkedAccounted /\ CommittedAccounted'
  <2>1. Types' /\ MarkedAccounted'
    BY Zenon DEF Inv
  <2>2. (Types /\ MarkedAccounted => CommittedAccounted)'
    BY CommittedFollows, PTL
  <2> QED  BY <2>1, <2>2, Zenon DEF Inv
<1>3. CASE committed' = marked'
  <2>1. dispatches # <<>> /\ Delivery!Latest.ok
    BY <1>1, Zenon DEF FreshInv, Delivery!Latest
  <2>2. ASSUME NEW p \in Partitions
        PROVE  \/ committed'[p] = committed[p]
               \/ /\ committed'[p] > committed[p]
                  /\ \E i \in DOMAIN dispatches :
                        dispatches[i].ok /\ <<p, committed'[p] - 1>> \in dispatches[i].records
    <3>1. /\ committed'[p] = HighWater(p)
          /\ \/ committed'[p] = committed[p]
             \/ \E d \in Dispatched : d.ok /\ <<p, committed'[p] - 1>> \in d.records
      BY <1>3, CommitBehind, Zenon
    <3>2. HighWater(p) \in marked[p] .. next[p]
      BY <1>1, <1>2, Marked, Zenon
    <3>3. marked[p] \in Nat /\ next[p] \in Nat /\ committed[p] \in 1 .. marked[p]
      BY <1>2, Zenon DEF Types
    <3>4. committed'[p] = committed[p] \/ committed'[p] > committed[p]
      BY <3>1, <3>2, <3>3
    <3> QED  BY <3>1, <3>4, Zenon DEF Dispatched
  <2>3. Delivery!Records = Records' /\ Delivery!Records = Records
    BY <1>1, Zenon DEF Delivery!Records, Records
  <2>4. ASSUME NEW f \in Delivery!Records, f[2] < committed'[f[1]]
        PROVE  \E i \in DOMAIN dispatches : f \in dispatches[i].records \cup dispatches[i].late
    BY <1>1, <1>2, <2>3, <2>4, Zenon DEF CommittedAccounted, Dispatched
  <2>5. Delivery!Settle
    BY <1>1, <2>1, <2>2, <2>4, Zenon DEF Delivery!Settle, Delivery!Settled
  <2> QED  BY <2>5
<1> QED  BY <1>1, <1>3, Zenon

(* Every step of the poll loop is a step of the contract, or none: polling and a
   restart move nothing the contract sees. *)
LEMMA DeliveryRefines == Inv /\ Inv' /\ FreshInv /\ BehindInv /\ [Next]_vars
                         => [Delivery!Next]_(Delivery!vars)
<1> SUFFICES ASSUME Inv, Inv', FreshInv, BehindInv, [Next]_vars
             PROVE  Delivery!Next \/ UNCHANGED <<log, committed, dispatches>>
  BY Zenon DEF Delivery!vars
<1>1. Types /\ WindowInv
  BY Zenon DEF Inv
<1>2. CASE \E p \in Partitions : HandleFetched(p)
  BY <1>2, Zenon DEF HandleFetched
<1>3. CASE DispatchSucceeds
  <2>1. phase = "dispatch" /\ Dispatch(TRUE) /\ UNCHANGED <<log, committed>>
    BY <1>3, Zenon DEF DispatchSucceeds, broker
  <2> QED  BY <1>1, <2>1, DispatchRuns, Zenon DEF Delivery!Next
<1>4. CASE DispatchFails
  <2>1. phase = "dispatch" /\ Dispatch(FALSE) /\ UNCHANGED <<log, committed>>
    BY <1>4, Zenon DEF DispatchFails, broker
  <2> QED  BY <1>1, <2>1, DispatchRuns, Zenon DEF Delivery!Next
<1>5. CASE \E o \in {"ok", "lost", "ambiguous"} : Commit(o)
  BY <1>5, CommitSettles, Zenon DEF Delivery!Next
<1>6. CASE Restart
  BY <1>6, Zenon DEF Restart
<1>7. CASE UNCHANGED vars
  BY <1>7, Zenon DEF vars, broker
<1> QED  BY <1>2, <1>3, <1>4, <1>5, <1>6, <1>7, Zenon DEF Next

(* Record mode implements the delivery contract, for every number of partitions,
   every topic content, window duration, commit budget, and number of restarts
   and failed dispatches. *)
THEOREM KeepsDeliveryCorrect == Spec => KeepsDelivery
<1>1. Init => Delivery!Init
  BY Zenon DEF Init, Delivery!Init
<1> QED
  BY <1>1, DeliveryRefines, RecordInvCorrect, FreshInvCorrect, BehindInvCorrect, PTL
  DEF Spec, KeepsDelivery, Delivery!Spec

-----------------------------------------------------------------------------
(* One window after the other. *)

(* The windows of this life of the engine that have been run are older than the
   active one, or it is the one just run. *)
AdvanceInv ==
    /\ \A i \in DOMAIN dispatches :
          /\ dispatches[i].life <= restarts
          /\ dispatches[i].life = restarts =>
                /\ active # Null
                /\ IF phase = "commit" THEN dispatches[i].start <= active.start
                                      ELSE dispatches[i].start < active.start
    /\ WindowsAdvance

(* closeAndDispatch opens a later window than the one it closes. *)
LEMMA ClosedAdvances ==
    ASSUME Inv, phase # "poll", WindowClosed
    PROVE  /\ active' # Null /\ active'.start \in Nat
           /\ active.start \in Nat /\ active.start < active'.start
<1>1. /\ log \in Logs /\ active # Null /\ pending \in Records /\ active.start < WindowOf(pending)
      /\ active.start \in Nat /\ pending # Null
  BY Zenon DEF Inv, Types, WindowInv, Windows
<1>2. active' = [start |-> WindowOf(pending), records |-> {pending}]
  BY <1>1 DEF WindowClosed, AppendTo, Open
<1>3. pending \in Pairs /\ WindowOf(pending) \in Nat
  BY <1>1, RecordFacts
<1>4. active' \in Windows /\ active' # Null
  BY <1>2, <1>3, NullAssumption DEF Windows, Pairs
<1> QED  BY <1>1, <1>2, <1>3, <1>4

(* A call made for the active window comes after all others of this life. *)
LEMMA DispatchAdvances ==
    ASSUME Inv, AdvanceInv, phase = "dispatch", NEW ok \in BOOLEAN, Dispatch(ok), restarts' = restarts
    PROVE  /\ WindowsAdvance' /\ active # Null
           /\ \A i \in DOMAIN dispatches' :
                 /\ dispatches'[i].life <= restarts
                 /\ dispatches'[i].life = restarts => dispatches'[i].start <= active.start
                 /\ dispatches'[i].start \in Nat
<1>1. PICK c : c = [start |-> active.start, records |-> active.records, late |-> lateDropped,
                    ok |-> ok, life |-> restarts]
  BY Zenon
<1>2. /\ dispatches' = Append(dispatches, c) /\ c.start = active.start /\ c.life = restarts
  BY <1>1 DEF Dispatch
<1>3. /\ active # Null /\ active \in Windows /\ active.start \in Nat /\ lateDropped \subseteq Records
      /\ dispatches \in Seq(Calls) /\ log \in Logs
  BY Zenon DEF Inv, Types, WindowInv, Windows
<1>4. restarts \in Nat
  BY RecordAssumption DEF Inv, Types
<1>5. c \in Calls
  <2>1. Records \subseteq Pairs
    BY <1>3, RecordFacts
  <2> QED  BY <1>1, <1>3, <1>4, <2>1 DEF Calls, Windows
<1>6. /\ DOMAIN dispatches = 1 .. Len(dispatches) /\ Len(dispatches) \in Nat
      /\ DOMAIN dispatches' = 1 .. Len(dispatches) + 1
      /\ \A i \in DOMAIN dispatches : dispatches'[i] = dispatches[i]
      /\ dispatches'[Len(dispatches) + 1] = c
  BY <1>2, <1>3, <1>5, Appended
<1>7. ASSUME NEW i \in DOMAIN dispatches'
      PROVE  \/ /\ i \in DOMAIN dispatches /\ dispatches'[i] = dispatches[i]
                /\ dispatches[i].start \in Nat /\ dispatches[i].life <= restarts
                /\ dispatches[i].life = restarts => dispatches[i].start < active.start
             \/ i = Len(dispatches) + 1 /\ dispatches'[i] = c
  <2>1. CASE i \in DOMAIN dispatches
    <3>1. dispatches[i] \in Calls
      BY <2>1, <1>3
    <3>2. dispatches[i].start \in Nat
      BY <3>1 DEF Calls
    <3> QED  BY <2>1, <3>2, <1>6, Zenon DEF AdvanceInv
  <2>2. CASE i \notin DOMAIN dispatches
    BY <2>2, <1>6
  <2> QED  BY <2>1, <2>2
<1>8. ASSUME NEW i \in DOMAIN dispatches', NEW j \in DOMAIN dispatches', i < j,
             dispatches'[i].life = dispatches'[j].life
      PROVE  dispatches'[i].start < dispatches'[j].start
  <2>1. i \in DOMAIN dispatches
    BY <1>6, <1>8
  <2>2. CASE j \in DOMAIN dispatches
    BY <2>1, <2>2, <1>6, <1>8, Zenon DEF AdvanceInv, WindowsAdvance
  <2>3. CASE j \notin DOMAIN dispatches
    <3>1. dispatches'[j] = c /\ dispatches'[i] = dispatches[i]
      BY <2>1, <2>3, <1>6, <1>7, Zenon
    <3>2. dispatches[i].life = restarts
      BY <3>1, <1>2, <1>8
    <3>3. dispatches[i].start < active.start
      BY <2>1, <3>2, Zenon DEF AdvanceInv
    <3> QED  BY <3>1, <3>3, <1>2
  <2> QED  BY <2>2, <2>3
<1>9. ASSUME NEW i \in DOMAIN dispatches'
      PROVE  /\ dispatches'[i].life <= restarts /\ dispatches'[i].start \in Nat
             /\ dispatches'[i].life = restarts => dispatches'[i].start <= active.start
  BY <1>2, <1>3, <1>4, <1>7
<1> QED  BY <1>3, <1>8, <1>9, Zenon DEF WindowsAdvance

(* Every step of the poll loop. *)
LEMMA AdvanceStep == Inv /\ AdvanceInv /\ [Next]_vars => AdvanceInv'
<1> SUFFICES ASSUME Inv, AdvanceInv, [Next]_vars  PROVE AdvanceInv'
  OBVIOUS
<1>1. \A i \in DOMAIN dispatches : dispatches[i].start \in Nat /\ dispatches[i].life \in Nat
  <2>1. dispatches \in Seq(Calls)
    BY Zenon DEF Inv, Types
  <2>2. \A i \in DOMAIN dispatches : dispatches[i] \in Calls
    BY <2>1
  <2> QED  BY <2>2 DEF Calls
<1>2. CASE \E p \in Partitions : HandleFetched(p)
  <2>1. PICK p \in Partitions : HandleFetched(p)
    BY <1>2
  <2>2. /\ UNCHANGED <<dispatches, restarts>> /\ phase = "poll" /\ phase' # "commit"
        /\ active # Null => active' = active \/ active' = [active EXCEPT !.records = @ \cup {<<p, next[p]>>}]
    BY <2>1 DEF HandleFetched, AppendTo
  <2>3. active # Null => active' # Null /\ active'.start = active.start
    <3> SUFFICES ASSUME active # Null  PROVE active' # Null /\ active'.start = active.start
      OBVIOUS
    <3>1. active \in Windows
      BY Zenon DEF Inv, Types
    <3>2. next[p] \in Nat
      BY Zenon DEF Inv, Types
    <3>3. active' \in Windows /\ active'.start = active.start
      BY <2>2, <3>1, <3>2 DEF Windows, Pairs
    <3> QED  BY <3>3, NullAssumption DEF Windows, Pairs
  <2> QED  BY <2>2, <2>3, Zenon DEF AdvanceInv, WindowsAdvance
<1>3. CASE DispatchSucceeds
  <2>1. phase = "dispatch" /\ Dispatch(TRUE) /\ phase' = "commit" /\ UNCHANGED <<active, restarts>>
    BY <1>3, Zenon DEF DispatchSucceeds
  <2> QED  BY <2>1, DispatchAdvances, Zenon DEF AdvanceInv
<1>4. CASE DispatchFails
  <2>1. phase = "dispatch" /\ Dispatch(FALSE) /\ WindowClosed /\ restarts' = restarts
    BY <1>4, Zenon DEF DispatchFails
  <2>2. /\ active' # Null /\ active'.start \in Nat
        /\ active.start \in Nat /\ active.start < active'.start
    BY <2>1, ClosedAdvances
  <2>3. /\ WindowsAdvance'
        /\ \A i \in DOMAIN dispatches' :
              /\ dispatches'[i].life <= restarts
              /\ dispatches'[i].life = restarts => dispatches'[i].start <= active.start
              /\ dispatches'[i].start \in Nat
    BY <2>1, DispatchAdvances, Zenon
  <2>4. \A i \in DOMAIN dispatches' : dispatches'[i].life = restarts =>
           dispatches'[i].start <= active'.start /\ dispatches'[i].start < active'.start
    BY <2>2, <2>3
  <2> QED  BY <2>1, <2>2, <2>3, <2>4, Zenon DEF AdvanceInv
<1>5. CASE \E o \in {"ok", "lost", "ambiguous"} : Commit(o)
  <2>1. /\ phase = "commit" /\ UNCHANGED <<dispatches, restarts>>
        /\ WindowClosed \/ UNCHANGED <<active, phase>>
    BY <1>5, Zenon DEF Commit
  <2>2. CASE WindowClosed
    <3>1. /\ active' # Null /\ active'.start \in Nat
          /\ active.start \in Nat /\ active.start < active'.start
      BY <2>1, <2>2, ClosedAdvances
    <3>2. \A i \in DOMAIN dispatches : dispatches[i].life = restarts => dispatches[i].start <= active.start
      BY <2>1, Zenon DEF AdvanceInv
    <3>3. \A i \in DOMAIN dispatches : dispatches[i].life = restarts =>
             dispatches[i].start <= active'.start /\ dispatches[i].start < active'.start
      BY <1>1, <3>1, <3>2
    <3> QED  BY <2>1, <3>1, <3>3, Zenon DEF AdvanceInv, WindowsAdvance
  <2>3. CASE UNCHANGED <<active, phase>>
    BY <2>1, <2>3, Zenon DEF AdvanceInv, WindowsAdvance
  <2> QED  BY <2>1, <2>2, <2>3
<1>6. CASE Restart
  <2>1. UNCHANGED dispatches /\ restarts' = restarts + 1 /\ restarts \in Nat
    BY <1>6, RecordAssumption DEF Restart, Inv, Types
  <2>2. \A i \in DOMAIN dispatches : dispatches[i].life <= restarts' /\ dispatches[i].life # restarts'
    BY <1>1, <2>1 DEF AdvanceInv
  <2> QED  BY <2>1, <2>2, Zenon DEF AdvanceInv, WindowsAdvance
<1>7. CASE UNCHANGED vars
  BY <1>7, Zenon DEF vars, state, AdvanceInv, WindowsAdvance
<1> QED  BY <1>2, <1>3, <1>4, <1>5, <1>6, <1>7, Zenon DEF Next

(* Between two restarts every window is evaluated at most once, and windows in
   event-time order, whatever the partitions' interleaving and whatever dispatch or
   commit fails (record_runner.go:320-376, 443-459). *)
THEOREM WindowsAdvanceCorrect == Spec => []WindowsAdvance
<1>1. Init => AdvanceInv
  BY DEF Init, AdvanceInv, WindowsAdvance
<1>2. AdvanceInv => WindowsAdvance
  BY DEF AdvanceInv
<1> QED  BY <1>1, <1>2, AdvanceStep, RecordInvCorrect, PTL DEF Spec
=============================================================================
