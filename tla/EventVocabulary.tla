-------------------------- MODULE EventVocabulary --------------------------
(***************************************************************************)
(* The event vocabulary of the execution registry contract: the classes of *)
(* events and the lifecycle events that end an execution.                  *)
(***************************************************************************)

\* An execution's own progress; terminality applies to these only.
LifecycleEvents ==
    {"registered", "started", "progress-reported", "completed",
     "partially-completed", "failed", "cancelled", "timed-out", "blocked"}

\* What the execution produced, or what was said about it.
ContentEvents ==
    {"artifact-produced", "evidence-attached", "comment-added",
     "comment-redacted", "expert-governance-recorded"}

\* An execution recorded offline catching up with the registry.
RegistrationEvents ==
    {"execution-sync-queued", "execution-reconciliation-requested",
     "execution-reconciliation-accepted",
     "execution-reconciliation-conflicted"}

\* The verdicts of the adjudicator, recorded as events.
GovernanceEvents ==
    {"status-transition-proposed", "validation-passed", "validation-failed",
     "approval-requested", "approval-granted", "approval-refused",
     "transition-applied", "transition-refused", "transition-inconsistent",
     "transition-reconciliation-requested",
     "transition-reconciliation-resolved",
     "transition-reconciliation-refused", "capability-resolved"}

EventTypes ==
    LifecycleEvents \cup ContentEvents \cup RegistrationEvents
        \cup GovernanceEvents

\* "blocked" is not terminal: a blocked execution may resume.
TerminalLifecycle ==
    {"completed", "partially-completed", "failed", "cancelled", "timed-out"}
=============================================================================
