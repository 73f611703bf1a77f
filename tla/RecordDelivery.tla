---------------------------- MODULE RecordDelivery ---------------------------
(***************************************************************************)
(* RecordRunner implements DeliveryContract: the broker's offsets and the  *)
(* calls of dispatcher.Run are all the contract sees of it.                *)
(***************************************************************************)
EXTENDS RecordRunner

Delivery == INSTANCE DeliveryContract
    WITH Topics <- Logs, topic <- log, resume <- committed, runs <- dispatches

(* The poll loop keeps the delivery contract (record_runner.go:300-459): whatever
   the partitions' interleaving, however a commit fails, is retried or is
   ambiguous, and wherever the engine restarts, it runs windows of unsettled
   records only, and commits only right after a successful run, behind records of
   successful runs, never past a record that no run has held or reported as late.
   A mark that a failed commit left in the client (kafka_consumer.go:105-125) goes
   out with the next one, for partitions the window just run need not have
   touched. *)
KeepsDelivery == Delivery!Spec
=============================================================================
