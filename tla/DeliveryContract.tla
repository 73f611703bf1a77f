-------------------------- MODULE DeliveryContract ---------------------------
(***************************************************************************)
(* What record mode promises about a topic, with polling, watermarks, the  *)
(* active window and retries left out: records are run window by window,   *)
(* the resume offsets move right after a successful run, behind records of *)
(* successful runs and over nothing unaccounted for, and a record below    *)
(* them is never run again.  Delivery is at least once until the offsets   *)
(* settle it, and over then.                                               *)
(***************************************************************************)
EXTENDS Integers, Sequences

CONSTANTS Partitions, Topics, WindowDuration

VARIABLES
    topic,         \* topic[p][i]: event time of the i-th record of p
    resume,        \* per partition: the offset a restart resumes from
    runs           \* the runs so far: window start, records, late records, success

vars == <<topic, resume, runs>>

Records   == UNION {{p} \X DOMAIN topic[p] : p \in Partitions}
Window(f) == topic[f[1]][f[2]] - (topic[f[1]][f[2]] % WindowDuration)

(* The record is behind the resume offset of its partition. *)
Settled(f) == f[2] < resume[f[1]]

Latest == runs[Len(runs)]

Init ==
    /\ topic \in Topics
    /\ resume = [p \in Partitions |-> 1]
    /\ runs = <<>>

(* One more run: of unsettled records of one window, reporting older ones as late. *)
Run ==
    /\ Len(runs') = Len(runs) + 1
    /\ runs' = Append(runs, Latest')
    /\ Latest'.records # {}
    /\ \A f \in Latest'.records : f \in Records /\ ~Settled(f) /\ Window(f) = Latest'.start
    /\ \A f \in Latest'.late : f \in Records /\ ~Settled(f) /\ Window(f) < Latest'.start
    /\ UNCHANGED <<topic, resume>>

(* After a successful run that nothing has followed yet the resume offsets move.
   Each comes to lie behind a record of some successful run, of an earlier one
   where the offsets of that run never got through, and passes over no record
   that no run has held or reported. *)
Settle ==
    /\ runs # <<>>
    /\ Latest.ok
    /\ \A p \in Partitions :
           \/ resume'[p] = resume[p]
           \/ /\ resume'[p] > resume[p]
              /\ \E i \in DOMAIN runs : runs[i].ok /\ <<p, resume'[p] - 1>> \in runs[i].records
    /\ \A f \in Records : Settled(f)' =>
           \E i \in DOMAIN runs : f \in runs[i].records \cup runs[i].late
    /\ UNCHANGED <<topic, runs>>

Next == Run \/ Settle

Spec == Init /\ [][Next]_vars
=============================================================================
