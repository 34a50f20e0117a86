--------------------------- MODULE MCAdjudication ---------------------------
(***************************************************************************)
(* A small instance: two handlers and one key, which a client may send     *)
(* again with other content; a governed transition that can be taken twice *)
(* because the direct path sends the specification back; one gate.         *)
(***************************************************************************)
EXTENDS Adjudication, TLC

CONSTANTS k1, g1, h1, h2

MCKey == {k1}
MCGate == {g1}
MCHandler == {h1, h2}
MCGoverned == {<<"draft", "review">>}

\* A governed transition, and one the lifecycle does not have.
MCProposals ==
    {[key |-> k1, from |-> "draft", to |-> "review"],
     [key |-> k1, from |-> "review", to |-> "baselined"]}

MCTargets == {"draft"}

MCSettings ==
    {[auto |-> TRUE, demanding |-> FALSE], [auto |-> FALSE, demanding |-> TRUE]}

Handlers == Permutations(MCHandler)
=============================================================================
