------------------------------- MODULE Alerts -------------------------------
(***************************************************************************)
(* engine/internal/alerts: which events become alerts, of which category,  *)
(* and the per-attempt deduper.  `published' is what the alert topic has   *)
(* received; a failed publish is logged by the engine and not retried.     *)
(***************************************************************************)
EXTENDS ResultStore

VARIABLE published

NoAlert == "none"

MapCategory(source, result, status) ==
    CASE source # "runner"                                  -> "operational"
      [] source = "runner" /\ result # Null ->
            CASE result \in {"fail", "degraded"} -> "data_quality"
              [] result = "pass"                 -> NoAlert
              [] OTHER                           -> "operational"
      [] source = "runner" /\ result = Null /\ status # Null ->
            IF status \in {"success", "running"} THEN NoAlert ELSE "operational"
      [] OTHER                                              -> NoAlert

(* The deduper's key; execution-level events leave check and result empty. *)
DedupKey(event) == <<event.exec, event.attempt, event.check, event.result>>

(* No deduplication. *)
ShouldPublishAlways(seen, event) == TRUE

ShouldPublish(seen, event) == DedupKey(event) \notin seen

(* Publish delivers the event or fails; either way the engine goes on. *)
Publish(event) ==
    \/ published' = published \cup {event}
    \/ published' = published
=============================================================================
