------------------------ MODULE MCExecutionRegistry ------------------------
(***************************************************************************)
(* A small instance of the registry: two handlers, two execution ids, and  *)
(* requests whose keys collide, repeat and race.                           *)
(***************************************************************************)
EXTENDS ExecutionRegistry, TLC

CONSTANTS x1, x2, k1, k2, k3, c1, c2, h1, h2

MCExec == {x1, x2}
MCKey == {k1, k2, k3}
MCContent == {c1, c2}
MCHandler == {h1, h2}

R(op, key, exec, type, content, expected) ==
    [op |-> op, key |-> key, exec |-> exec, type |-> type,
     content |-> content, expected |-> expected]

\* A registration retried under its own id, one with other content under a
\* fresh id, one that takes an id in use; one key sent as different events;
\* appends that state where they land; a completion and a failure; a comment,
\* a redaction, a snapshot.
MCRequests ==
    {R("register", k1, x1, "registered", c1, {}),
     R("register", k1, x2, "registered", c2, {}),
     R("register", k2, x1, "registered", c1, {}),
     R("append", k2, x1, "started", c1, {1}),
     R("append", k3, x1, "failed", c1, {}),
     R("complete", k3, x1, "completed", c1, {2}),
     R("comment", k2, x1, "comment-added", c1, {}),
     R("redact", k3, x1, "comment-redacted", c1, {}),
     R("snapshot", k1, x1, "started", c1, {})}

Handlers == Permutations(MCHandler)
=============================================================================
