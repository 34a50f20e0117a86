------------------------ MODULE MCStoragePublication ------------------------
(***************************************************************************)
(* Two publishers of one project of two artifacts.                         *)
(***************************************************************************)
EXTENDS StoragePublication, TLC

CONSTANTS p1, a1, a2, v1, u1, u2

MCProject == {p1}
MCArtifact == {a1, a2}
MCProjectOf == [a \in MCArtifact |-> p1]
MCProvider == {v1}
MCPublisher == {u1, u2}
MCSymmetry == Permutations(MCPublisher) \cup Permutations(MCArtifact)
=============================================================================
