------------------------- MODULE MCExpertDelegation -------------------------
(***************************************************************************)
(* A small instance: a run, a delegate of it, and a third dispatch that    *)
(* delegates from either, with or without closing a cycle.                 *)
(***************************************************************************)
EXTENDS ExpertDelegation

CONSTANTS a, b, c, e1, e2, e3, u

MCExecution == {a, b, c}
MCExpert == {e1, e2, e3}
MCActor == {u}
MCPermitted == (MCExpert \X MCExpert) \ {<<e, e>> : e \in MCExpert}

Ask(id, expert, actor, parent, unattended) ==
    [id |-> id, expert |-> expert, actor |-> actor, parent |-> parent,
     unattended |-> unattended]

MCRequests ==
    {Ask(a, e1, u, None, FALSE), Ask(b, e2, u, a, TRUE),
     Ask(c, e3, u, a, FALSE), Ask(c, e3, u, b, FALSE),
     Ask(c, e1, u, b, FALSE)}

MCAmounts == {1}
MCRunOutcome == {"succeeded"}
=============================================================================
