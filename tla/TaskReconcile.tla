--------------------------- MODULE TaskReconcile ---------------------------
(***************************************************************************)
(* What a parsed line of tasks.md makes of a card of the task board, and   *)
(* what the verdicts recorded for a proposal amount to: the pure half of   *)
(* task synchronisation.                                                   *)
(***************************************************************************)
EXTENDS Naturals

Status == {"not_started", "in_progress", "blocked", "done"}
Source == {"parse", "proposal", "event"}
Verdict == {"applied", "refused", "approval_required", "inconsistent"}

\* A row of tasks; NoCard is the card of a key the Epic has not seen.
Card == [status: Status, source: Source, present: BOOLEAN]
NoCard == [status |-> "none", source |-> "parse", present |-> FALSE]

\* A status a person set, which a checkbox cannot express.
isManualMiddleState(card) ==
    card.source = "proposal" /\ card.status \in {"in_progress", "blocked"}

\* The file wins for the two states it can express; it is silent about the rest.
reconcile(card, checked) ==
    IF ~checked /\ isManualMiddleState(card)
    THEN [status |-> card.status, source |-> "proposal", present |-> TRUE]
    ELSE [status |-> IF checked THEN "done" ELSE "not_started",
          source |-> "parse", present |-> TRUE]

\* The verdict that holds for proposal p: the last one recorded, by its time.
foldProposalState(p, verdicts) ==
    LET of == {v \in verdicts : v.p = p}
    IN  IF of = {} THEN "none"
        ELSE (CHOOSE v \in of : \A w \in of : w.at <= v.at).verdict

=============================================================================
