--------------------------- MODULE MCProvisioning ---------------------------
(***************************************************************************)
(* A project asked to be prepared twice, in one directory or in two, or    *)
(* another that wants the same directory; and a page that reads them.      *)
(***************************************************************************)
EXTENDS Provisioning, TLC

CONSTANTS p1, p2, home, away, r1, r2, g1

MCProject == {p1, p2}
MCDir == {home, away}
MCInUse == {home}
MCRequest == {r1, r2}
MCWanted == (r1 :> {[project |-> p1, dir |-> home]}) @@
          (r2 :> {[project |-> p1, dir |-> away], [project |-> p2, dir |-> home]})
MCReader == {g1}
=============================================================================
