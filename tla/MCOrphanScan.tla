---------------------------- MODULE MCOrphanScan ----------------------------
(* Two attempts at one execution and one at another. *)
EXTENDS OrphanScan, TLC

CONSTANTS a1, a2, a3, e1, e2

MCExecOf == (a1 :> e1) @@ (a2 :> e1) @@ (a3 :> e2)
=============================================================================
