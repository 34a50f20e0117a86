------------------------- MODULE ExecutionRegistry -------------------------
(***************************************************************************)
(* The governed execution registry: registration, appends, completions,    *)
(* comments and snapshots, each served by a request handler of the API     *)
(* that takes one step per database round trip or transaction.  A handler  *)
(* may crash between two steps, a client may lose the answer and send the  *)
(* same request again, and handlers interleave.                            *)
(*                                                                         *)
(* One workspace is modelled.  Transactions are atomic steps wherever the  *)
(* row lock of the execution, or a unique index, makes them so; the replay *)
(* lookup of an append reads before the lock and is a step of its own.     *)
(***************************************************************************)
EXTENDS EventVocabulary, Naturals, FiniteSets

CONSTANTS
    Exec,        \* execution ids (randomUUID, or chosen by the client)
    Key,         \* idempotency keys of requests
    Content,     \* what a replay compares: command and target, or payload,
                 \* with the principal that sends it
    Handler,     \* concurrent request handlers
    Requests,    \* the requests clients may send
    MaxComments  \* comments are accepted while fewer rows than this exist

VARIABLES
    root,        \* executions: execution -> its row, or {} before it exists
    events,      \* execution_events: a set of rows
    output,      \* execution_target_bindings, phase output: at most one each
    state,       \* execution_state: the rebuildable projection
    comments,    \* execution_comments: a set of rows
    pc,          \* handler -> next step
    req,         \* handler -> the request it serves
    note,        \* handler -> what an earlier step read or wrote
    reply        \* handler -> the last answer it gave

db == <<root, events, output, state, comments>>
vars == <<root, events, output, state, comments, pc, req, note, reply>>

Operation == {"register", "append", "complete", "comment", "redact", "snapshot"}

\* expected: the optimistic precondition, {} when the client states none.
Request ==
    [op: Operation, key: Key, exec: Exec, type: EventTypes,
     content: Content, expected: SUBSET Nat]

\* complete() closes an execution; appendEvent() takes any type of the
\* vocabulary; register() and the comment service choose their own type.
WellFormed(r) ==
    /\ Cardinality(r.expected) <= 1
    /\ r.op = "register" => r.type = "registered" /\ r.expected = {}
    /\ r.op = "complete" => r.type \in TerminalLifecycle
    /\ r.op = "comment" => r.type = "comment-added" /\ r.expected = {}
    /\ r.op = "redact" => r.type = "comment-redacted" /\ r.expected = {}

ASSUME RequestsAssumption ==
    /\ Requests # {}
    /\ \A r \in Requests : r \in Request /\ WellFormed(r)
ASSUME CommentsAssumption == MaxComments \in Nat

\* The registered event is keyed "<key>:registered", other events by the key.
EventKey == Key \X {"", "registered"}

\* A comment's payload names its row, so it differs at every attempt.
Payload == [content: Content, row: Nat]

Row == [exec: Exec, seq: Nat, type: EventTypes, key: EventKey,
        payload: Payload, prev: SUBSET EventKey]

Step == {"idle", "regReplay", "regInsert", "bindOutput", "insertComment",
         "dedupe", "append", "readStream", "writeState", "readState"}

\* refused: a RegistryRefusedError; failed: any other error, or no answer.
Outcome == {"none", "ok", "refused", "failed"}
----------------------------------------------------------------------------
\* The stream of an execution.

EventsOf(x) == {e \in events : e.exec = x}
Seqs(x) == {e.seq : e \in EventsOf(x)}

\* The row ORDER BY sequence DESC LIMIT 1 returns, 0 for an empty stream.
HeadSeq(x) ==
    IF EventsOf(x) = {} THEN 0
    ELSE CHOOSE n \in Seqs(x) : \A m \in Seqs(x) : m <= n

EventAt(x, n) == CHOOSE e \in EventsOf(x) : e.seq = n

\* Mutant: a terminal event is looked for at the head of the stream only.
ClosedByHead(x) ==
    \E e \in EventsOf(x) : e.seq = HeadSeq(x) /\ e.type \in TerminalLifecycle

Closed(x) == \E e \in EventsOf(x) : e.type \in TerminalLifecycle

\* foldExecution: a lifecycle event sets the state unless a terminal one came
\* before it; the last that does decides.
Deciding(x, n) ==
    {e \in EventsOf(x) :
        /\ e.seq <= n
        /\ e.type \in LifecycleEvents
        /\ \A f \in EventsOf(x) :
               f.type \in TerminalLifecycle => e.seq <= f.seq}

LastOf(D) == CHOOSE e \in D : \A f \in D : f.seq <= e.seq

\* Mutant: the fold takes events of every class.
FoldEveryClass(x, n) == IF n = 0 THEN "registered" ELSE EventAt(x, n).type

\* The lifecycle after the first n events.
Fold(x, n) ==
    IF Deciding(x, n) = {} THEN "registered" ELSE LastOf(Deciding(x, n)).type
----------------------------------------------------------------------------
\* The request of an idle handler, of no meaning.
NoRequest == CHOOSE r \in Requests : TRUE

Init ==
    /\ root = [x \in Exec |-> {}]
    /\ events = {}
    /\ output = [x \in Exec |-> {}]
    /\ state = [x \in Exec |-> [lifecycle |-> "registered", through |-> 0]]
    /\ comments = {}
    /\ pc = [h \in Handler |-> "idle"]
    /\ req = [h \in Handler |-> NoRequest]
    /\ note = [h \in Handler |-> 0]
    /\ reply = [h \in Handler |-> [outcome |-> "none", seq |-> 0]]

ContinueWith(h, step, n) ==
    /\ pc' = [pc EXCEPT ![h] = step]
    /\ note' = [note EXCEPT ![h] = n]
    /\ UNCHANGED <<req, reply>>

Continue(h, step) == ContinueWith(h, step, note[h])

Answer(h, outcome, seq) ==
    /\ pc' = [pc EXCEPT ![h] = "idle"]
    /\ note' = [note EXCEPT ![h] = 0]
    /\ req' = [req EXCEPT ![h] = NoRequest]
    /\ reply' = [reply EXCEPT ![h] = [outcome |-> outcome, seq |-> seq]]

FirstStep ==
    [register |-> "regReplay", append |-> "dedupe", complete |-> "bindOutput",
     comment |-> "insertComment", redact |-> "insertComment",
     snapshot |-> "readStream"]

\* A request arrives.  Operations on an execution need one that exists
\* (requireOwn answers "not found" otherwise and changes nothing); MaxComments
\* bounds the comments the model accepts.
Receive(h, r) ==
    /\ pc[h] = "idle"
    /\ r.op # "register" => root[r.exec] # {}
    /\ r.op \in {"comment", "redact"} => Cardinality(comments) < MaxComments
    /\ pc' = [pc EXCEPT ![h] = FirstStep[r.op]]
    /\ req' = [req EXCEPT ![h] = r]
    /\ reply' = [reply EXCEPT ![h] = [outcome |-> "none", seq |-> 0]]
    /\ UNCHANGED <<root, events, output, state, comments, note>>
----------------------------------------------------------------------------
\* register(): look the key up, insert the root row, append "registered".

Registered(k) == {x \in Exec : \E r \in root[x] : r.key = k}

RegisterReplay(h) ==
    LET r == req[h] IN
    /\ pc[h] = "regReplay"
    /\ \/ Registered(r.key) = {} /\ Continue(h, "regInsert")
       \/ \E x \in Registered(r.key) :
              Answer(h, IF [key |-> r.key, content |-> r.content] \in root[x]
                        THEN "ok" ELSE "refused", 0)
    /\ UNCHANGED db

InsertRoot(h) ==
    LET r == req[h] IN
    /\ root[r.exec] = {}
    /\ root' = [root EXCEPT ![r.exec] = {[key |-> r.key, content |-> r.content]}]
    /\ Continue(h, "dedupe")

\* Mutant: the root row is inserted whoever holds the key already.
InsertRegardless(h) ==
    /\ pc[h] = "regInsert"
    /\ InsertRoot(h)
    /\ UNCHANGED <<events, output, state, comments>>

\* The transaction sees a racing registration (and goes on to append under an
\* id it did not insert), or meets a unique index and fails.
RegisterInsert(h) ==
    /\ pc[h] = "regInsert"
    /\ \/ /\ Registered(req[h].key) = {}
          /\ InsertRoot(h)
       \/ /\ Registered(req[h].key) # {}
          /\ Continue(h, "dedupe")
          /\ UNCHANGED root
       \/ /\ Registered(req[h].key) # {} \/ root[req[h].exec] # {}
          /\ Answer(h, "failed", 0)
          /\ UNCHANGED root
    /\ UNCHANGED <<events, output, state, comments>>
----------------------------------------------------------------------------
\* complete(): a success binds its output in a transaction of its own, before
\* the terminal event is appended; the first binding stays.
BindOutput(h) ==
    LET r == req[h] IN
    /\ pc[h] = "bindOutput"
    /\ output' = IF r.type = "completed" /\ output[r.exec] = {}
                 THEN [output EXCEPT ![r.exec] = {r.content}]
                 ELSE output
    /\ Continue(h, "dedupe")
    /\ UNCHANGED <<root, events, state, comments>>

\* add() and redact(): a new row first, then its event.  Redacting needs a
\* comment to redact.
InsertComment(h) ==
    LET row == Cardinality(comments) + 1 IN
    /\ pc[h] = "insertComment"
    /\ \/ /\ req[h].op = "redact" /\ comments = {}
          /\ Answer(h, "refused", 0)
          /\ UNCHANGED comments
       \/ /\ req[h].op = "redact" => comments # {}
          /\ comments' = comments \cup {[row |-> row, exec |-> req[h].exec]}
          /\ ContinueWith(h, "dedupe", row)
    /\ UNCHANGED <<root, events, output, state>>
----------------------------------------------------------------------------
\* ExecutionEventService.append

KeyOf(r) == <<r.key, IF r.op = "register" THEN "registered" ELSE "">>
PayloadOf(h) == [content |-> req[h].content, row |-> note[h]]

\* Mutant: a replay is recognised by its key alone.
SameKey(h, e) == TRUE

SameEvent(h, e) ==
    /\ e.exec = req[h].exec
    /\ e.type = req[h].type
    /\ e.payload = PayloadOf(h)

\* The replay lookup, before the lock: the original, a conflict, or go on.
Dedupe(h) ==
    LET held == {e \in events : e.key = KeyOf(req[h])} IN
    /\ pc[h] = "dedupe"
    /\ \/ held = {} /\ Continue(h, "append")
       \/ \E e \in held : IF SameEvent(h, e) THEN Answer(h, "ok", e.seq)
                                             ELSE Answer(h, "refused", 0)
    /\ UNCHANGED db

ExpectedHolds(h) == req[h].expected \subseteq {HeadSeq(req[h].exec)}

MayAppend(h) ==
    /\ root[req[h].exec] # {}
    /\ ExpectedHolds(h)
    /\ req[h].type \in LifecycleEvents => ~Closed(req[h].exec)

\* The integrity hash chains an event to the head it was written after.
Previous(x) == IF HeadSeq(x) = 0 THEN {} ELSE {EventAt(x, HeadSeq(x)).key}

\* Mutant: the head is read without the execution's WHERE clause.
NewRowOfWorkspace(h) ==
    [exec |-> req[h].exec, seq |-> Cardinality(events) + 1,
     type |-> req[h].type, key |-> KeyOf(req[h]),
     payload |-> PayloadOf(h), prev |-> Previous(req[h].exec)]

NewRow(h) ==
    [exec |-> req[h].exec, seq |-> HeadSeq(req[h].exec) + 1,
     type |-> req[h].type, key |-> KeyOf(req[h]),
     payload |-> PayloadOf(h), prev |-> Previous(req[h].exec)]

\* Mutant: no unique index on (workspace, idempotency key).
AppendUnindexed(h) ==
    /\ pc[h] = "append"
    /\ IF MayAppend(h)
       THEN events' = events \cup {NewRow(h)} /\ Answer(h, "ok", NewRow(h).seq)
       ELSE Answer(h, "refused", 0) /\ UNCHANGED events
    /\ UNCHANGED <<root, output, state, comments>>

\* The rest of the transaction holds the execution's row lock: head, checks
\* and insert are one step.  A key another handler recorded since the lookup
\* meets the unique index.
AppendLocked(h) ==
    /\ pc[h] = "append"
    /\ \/ /\ ~MayAppend(h)
          /\ Answer(h, "refused", 0)
          /\ UNCHANGED events
       \/ /\ MayAppend(h)
          /\ \E e \in events : e.key = KeyOf(req[h])
          /\ Answer(h, "failed", 0)
          /\ UNCHANGED events
       \/ /\ MayAppend(h)
          /\ \A e \in events : e.key # KeyOf(req[h])
          /\ events' = events \cup {NewRow(h)}
          /\ Answer(h, "ok", NewRow(h).seq)
    /\ UNCHANGED <<root, output, state, comments>>
----------------------------------------------------------------------------
\* snapshot(): rebuild the projection from the stream, then read it.

ReadStream(h) ==
    /\ pc[h] = "readStream"
    /\ ContinueWith(h, "writeState", HeadSeq(req[h].exec))
    /\ UNCHANGED db

\* An unconditional upsert of what was folded.
WriteState(h) ==
    LET x == req[h].exec IN
    /\ pc[h] = "writeState"
    /\ state' = [state EXCEPT ![x] = [lifecycle |-> Fold(x, note[h]),
                                      through |-> note[h]]]
    /\ Continue(h, "readState")
    /\ UNCHANGED <<root, events, output, comments>>

ReadState(h) ==
    /\ pc[h] = "readState"
    /\ Answer(h, "ok", state[req[h].exec].through)
    /\ UNCHANGED db
----------------------------------------------------------------------------
\* A crash of the process, or an answer that never reaches the client: what
\* was committed stays, the rest of the request is gone.
Crash(h) ==
    /\ pc[h] # "idle"
    /\ Answer(h, "failed", 0)
    /\ UNCHANGED db

Serve(h) ==
    \/ RegisterReplay(h) \/ RegisterInsert(h) \/ BindOutput(h)
    \/ InsertComment(h) \/ Dedupe(h) \/ AppendLocked(h)
    \/ ReadStream(h) \/ WriteState(h) \/ ReadState(h)

Next ==
    \E h \in Handler :
        \/ \E r \in Requests : Receive(h, r)
        \/ Serve(h)
        \/ Crash(h)

Spec == Init /\ [][Next]_vars
----------------------------------------------------------------------------
\* Properties

\* Every variable holds values of its table or of the handler's steps.
TypeOK ==
    /\ root \in [Exec -> SUBSET [key: Key, content: Content]]
    /\ events \subseteq Row
    /\ output \in [Exec -> SUBSET Content]
    /\ state \in [Exec -> [lifecycle: LifecycleEvents, through: Nat]]
    /\ comments \subseteq [row: Nat, exec: Exec]
    /\ pc \in [Handler -> Step]
    /\ req \in [Handler -> Requests]
    /\ note \in [Handler -> Nat]
    /\ reply \in [Handler -> [outcome: Outcome, seq: Nat]]

\* FR-EXR-017 and verify(): whatever handlers interleave or crash, the stream
\* of each execution is numbered 1, 2, ... without gap or duplicate, and each
\* event chains to the one before it.
StreamWellFormed ==
    \A x \in Exec :
        /\ Seqs(x) = 1..Cardinality(EventsOf(x))
        /\ \A e \in EventsOf(x) :
               e.prev = IF e.seq = 1 THEN {} ELSE {EventAt(x, e.seq - 1).key}

\* FR-EXR-018: no lifecycle event follows a terminal lifecycle event.
TerminalAbsorbs ==
    \A e, f \in events :
        /\ e.exec = f.exec
        /\ e.type \in TerminalLifecycle
        /\ f.type \in LifecycleEvents
        => f.seq <= e.seq

\* A retry never records twice: one event per key in the workspace, and one
\* execution per registration key (AC-EXR-05).
OncePerKey ==
    /\ \A e, f \in events : e.key = f.key => e = f
    /\ \A x, y \in Exec : \A r \in root[x], s \in root[y] :
           r.key = s.key => x = y

\* Nothing recorded is ever lost, and an answer "ok" names what is recorded:
\* the event asked for, at the sequence returned, with the content sent.
RecordedStep ==
    /\ events \subseteq events'
    /\ \A h \in Handler :
          /\ pc[h] \in {"dedupe", "append"} /\ pc'[h] = "idle"
          /\ reply'[h].outcome = "ok"
          => \E e \in events' : /\ e.key = KeyOf(req[h])
                                /\ e.seq = reply'[h].seq
                                /\ e.exec = req[h].exec
                                /\ e.type = req[h].type
                                /\ e.payload = PayloadOf(h)

\* Every step is such a step, however handlers interleave, retry and crash.
OkIsRecorded == [][RecordedStep]_vars

\* The projection is the lifecycle of a prefix of the stream: the last lifecycle
\* event among the first "through" events, however rebuilds interleave.
ProjectionIsAPrefix ==
    \A x \in Exec :
        LET n == state[x].through
            L == {e \in EventsOf(x) : e.seq <= n /\ e.type \in LifecycleEvents}
        IN  /\ n <= HeadSeq(x)
            /\ IF L = {} THEN state[x].lifecycle = "registered"
               ELSE \E e \in L : /\ state[x].lifecycle = e.type
                                 /\ \A f \in L : f.seq <= e.seq

\* The registry implements the abstract event streams.
StreamOf(x) ==
    [i \in 1..HeadSeq(x) |-> LET e == EventAt(x, i) IN
        [type |-> e.type, key |-> e.key, payload |-> e.payload]]

Stream == INSTANCE EventStream
              WITH EventKey <- EventKey, Payload <- Payload,
                   stream <- [x \in Exec |-> StreamOf(x)]

ImplementsEventStream == Stream!Spec

\* execution-registration.service.ts says an output binding on a failure would
\* let a failed run claim a resulting version: a run that ended without success
\* has none.  Not kept: complete() binds in a transaction of its own, and a
\* failure may close the execution before the success is appended.
FailedRunClaimsNoOutput ==
    \A e \in events :
        e.type \in TerminalLifecycle \ {"completed"} => output[e.exec] = {}
=============================================================================
