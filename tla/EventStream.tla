---------------------------- MODULE EventStream ----------------------------
(***************************************************************************)
(* What the execution registry promises of its event streams, whatever the *)
(* number of handlers, retries and crashes: every execution has one stream *)
(* that only grows, one event at a time, at its end; a key names at most   *)
(* one event of the workspace; and once a terminal lifecycle event is      *)
(* recorded no lifecycle event follows it, while the other classes do.     *)
(***************************************************************************)
EXTENDS EventVocabulary, Naturals, Sequences

CONSTANTS
    Exec,       \* execution ids
    EventKey,   \* idempotency keys of events, unique in the workspace
    Payload     \* payloads, the emitting principal included

VARIABLE
    stream      \* execution -> the sequence of its events

StreamEvent == [type: EventTypes, key: EventKey, payload: Payload]

KeyUsed(k) ==
    \E x \in Exec : \E i \in 1..Len(stream[x]) : stream[x][i].key = k

Ended(x) ==
    \E i \in 1..Len(stream[x]) : stream[x][i].type \in TerminalLifecycle

Init == stream = [x \in Exec |-> <<>>]

Record(x, e) ==
    /\ e \in StreamEvent
    /\ ~KeyUsed(e.key)
    /\ e.type \in LifecycleEvents => ~Ended(x)
    /\ stream' = [stream EXCEPT ![x] = Append(@, e)]

\* One stream grows by one event, which is the last of the longer stream.
Next ==
    \E x \in Exec :
        LET n == Len(stream[x]) + 1 IN
        Len(stream'[x]) = n /\ Record(x, stream'[x][n])

Spec == Init /\ [][Next]_stream
=============================================================================
