--------------------------- MODULE MCRecordRunner ----------------------------
(* Windows of two time units.  OutOfOrder has a slow partition and a record
   older than its predecessors; InOrderLog one partition in event-time order;
   Reordered one record that comes a window late. *)
EXTENDS RecordDelivery, TLC

CONSTANTS k1, k2

OutOfOrder == (k1 :> <<0, 3, 1, 6>>) @@ (k2 :> <<1, 5, 2>>)
InOrderLog == (k1 :> <<0, 1, 2, 3, 5, 9>>) @@ (k2 :> <<>>)
Reordered  == (k1 :> <<0, 2, 1, 4, 6>>) @@ (k2 :> <<>>)

AllLogs       == {OutOfOrder, InOrderLog, Reordered}
InOrderLogs   == {InOrderLog}
ReorderedLogs == {Reordered}
=============================================================================
