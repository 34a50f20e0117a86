----------------------- MODULE MCRequirementBaselines -----------------------
(***************************************************************************)
(* Two handlers over two candidates of one project.                        *)
(***************************************************************************)
EXTENDS RequirementBaselines, TLC

CONSTANTS c1, c2, h1, h2

MCCandidate == {c1, c2}
MCHandler == {h1, h2}
MCSymmetry == Permutations(MCCandidate) \cup Permutations(MCHandler)
=============================================================================
