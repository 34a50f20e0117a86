---- MODULE MCGovernedLoop ----
(***************************************************************************)
(* A workflow of four stages: two ways out of the first, one of them fired *)
(* by a rule, a way back, and a last stage behind a gate.  A person, a     *)
(* person without authority, and an automation.                            *)
(***************************************************************************)
EXTENDS GovernedLoop, TLC

CONSTANTS s0, s1, s2, s3, ann, bob, bot, h1, h2, owner, gate

MCHandler == {h1, h2}
MCStage == {s0, s1, s2, s3}
MCActor == {ann, bob, bot}
MCPerson == {ann, bob}
MCGates == (<<s0, s1>> :> {}) @@ (<<s0, s2>> :> {}) @@ (<<s1, s2>> :> {})
           @@ (<<s2, s1>> :> {}) @@ (<<s2, s3>> :> {gate})
MCAuthorities == [e \in MCStage \X MCStage |-> IF e \in DOMAIN MCGates THEN {owner} ELSE {}]
MCHeld == (ann :> {owner}) @@ (bob :> {}) @@ (bot :> {owner})

Ask(actor, to, expected, rule) ==
  [kind |-> "transition", actor |-> actor, to |-> to, expected |-> expected, rule |-> rule]
Fire(to, expected) ==
  [kind |-> "firing", actor |-> bot, to |-> to, expected |-> expected, rule |-> TRUE]
MCAttempt ==
  {Fire(s1, 0), Fire(s1, 2), Ask(ann, s1, 0, FALSE), Ask(ann, s2, 0, FALSE), Ask(ann, s2, 1, FALSE),
   Ask(bot, s2, 1, TRUE), Ask(bot, s2, 0, FALSE), Ask(bob, s1, 0, FALSE), Ask(ann, s3, 1, FALSE)}
MCSymmetry == Permutations(MCHandler)
====
