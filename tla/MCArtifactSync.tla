--------------------------- MODULE MCArtifactSync ---------------------------
(***************************************************************************)
(* Two commands of one Epic and one that is bound to none; three contents  *)
(* of the specification, a plan two commands send, a key that is used for  *)
(* two syncs, and a file that was damaged on the way.                      *)
(***************************************************************************)
EXTENDS ArtifactSync, TLC

CONSTANTS e1, e2, e3, epic, spec, plan, a, b, c, k1, k2, k3, r1, r2

MCExecution == {e1, e2, e3}
MCEpic == {epic}
MCEpicOf == (e1 :> epic) @@ (e2 :> epic) @@ (e3 :> Unbound)
MCPath == {spec, plan}
MCSpecPath == {spec}
MCContent == {a, b, c}
MCKey == {k1, k2, k3}
F(p, d, is) == [path |-> p, digest |-> d, content |-> is]
MCAttempt == {
    [exec |-> e1, key |-> k1, files |-> <<F(spec, a, a)>>],
    [exec |-> e3, key |-> k1, files |-> <<F(plan, a, a)>>],
    [exec |-> e2, key |-> k2, files |-> <<F(spec, b, b), F(spec, c, a)>>],
    [exec |-> e1, key |-> k3, files |-> <<F(plan, a, a), F(spec, c, c)>>] }
MCSyncer == {r1, r2}
MCSymmetry == Permutations(MCSyncer)
=============================================================================
