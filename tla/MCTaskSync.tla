----------------------------- MODULE MCTaskSync -----------------------------
(***************************************************************************)
(* Two tasks, two executions, two contents of tasks.md, two syncs and      *)
(* people who move cards while they run.                                   *)
(***************************************************************************)
EXTENDS TaskSync, TLC

CONSTANTS t1, t2, e1, e2, fa, fb, r1, r2, h1, h2, alice, bob, bot

MCTask == {t1, t2}
MCExecution == {e1, e2}
MCLine == (fa :> <<[task |-> t1, checked |-> FALSE], [task |-> t2, checked |-> FALSE]>>)
          @@ (fb :> <<[task |-> t1, checked |-> TRUE]>>)
MCSyncer == {r1, r2}
MCHandler == {h1, h2}
MCActor == {alice, bob, bot}
MCAgent == {bot}
MCMay == {alice, bob, bot}
MCReportable == {<<e1, t1>>}
MCRequest == (r1 :> {<<e1, fa>>}) @@ (r2 :> {<<e1, fa>>, <<e1, fb>>, <<e2, fb>>})
MCShown == {"not_started"}
MCMovable == {t1}
MCWanted == {"in_progress"}
MCSymmetry == Permutations(MCHandler) \cup Permutations({alice, bob})
=============================================================================
