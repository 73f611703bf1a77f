------------------------------ MODULE Migrator -------------------------------
(***************************************************************************)
(* tools/migrate: V1ToV2 of one rule file, with the BigQuery source that   *)
(* the operator names.                                                     *)
(***************************************************************************)
EXTENDS RuleSpec

(* "set." before a kind: two of the strings a v1 rule may hold become a kind of
   the v2 catalog, and one the v2 pattern does not take still is none. *)
SetPrefixed(kind) ==
    CASE kind = "row_count_positive" -> "set.row_count_positive"
      [] kind = "row_count_within_baseline" -> "set.row_count_within_baseline"
      [] kind = "unlisted" -> "set.unlisted"
      [] OTHER -> "set.malformed"

(* What strings.HasPrefix sees, pattern or not. *)
HasModePrefix(kind) == Prefix(kind) # "" \/ kind = "set.malformed"

(* The prefix on every kind, one that has it already included. *)
promoteAlways(kind) == SetPrefixed(kind)

promoteKindToSetPrefix(kind) == IF HasModePrefix(kind) THEN kind ELSE SetPrefixed(kind)

(* src.Validate, the strict decode of v1Doc and the checks that follow. *)
CanMigrate(r, table) ==
    /\ table # ""
    /\ r.fields \subseteq {"description"} /\ r.mode = "" /\ r.source = Null
    /\ r.version = 1
    /\ r.entity # "" /\ r.checks # <<>>
    /\ \A i \in DOMAIN r.checks : r.checks[i].id # "" /\ r.checks[i].kind # ""

BigQuerySource(table) ==
    [type |-> "bigquery", table |-> table, column |-> "", topic |-> "", window |-> Null]

(* An empty params block is not written out. *)
MigratedCheck(c) ==
    [c EXCEPT !.kind = promoteKindToSetPrefix(@), !.params = IF @ = NoParams THEN Null ELSE @]

V1ToV2(r, table) ==
    [r EXCEPT !.version = 2, !.mode = "set", !.source = BigQuerySource(table),
              !.checks = [i \in DOMAIN r.checks |-> MigratedCheck(r.checks[i])]]
=============================================================================
