--------------------------- MODULE MCControlPlane ----------------------------
(* Manifest m1 has no rule for e1 and m2 has one; m3 is one the engine's contract
   checks refuse, and m4 comes from a checkout that does not verify.  The bucket is
   empty at first, or m3 and then m1 have been published: a rollback may return to
   either. *)
EXTENDS ControlPlaneContract, TLC

CONSTANTS p1, p2, p4, m1, m2, m3, m4, y1, y2, e1

MCManifestOf  == (p2 :> m2) @@ (p4 :> m4)
TwoManifestOf == (p1 :> m1) @@ (p2 :> m2)
MCYamlsOf     == (m1 :> {y1}) @@ (m2 :> {y1, y2}) @@ (m3 :> {y2}) @@ (m4 :> {y1})
MCRuleOf      == (m1 :> (e1 :> Null)) @@ (m2 :> (e1 :> y1)) @@ (m3 :> (e1 :> y2)) @@ (m4 :> (e1 :> y1))
MCHistories   == {<<>>, <<m3, m1>>}
FromScratch   == {<<>>}
=============================================================================
