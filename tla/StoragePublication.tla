------------------------- MODULE StoragePublication -------------------------
(***************************************************************************)
(* Publishing a project to the storage provider its workspace is connected *)
(* to.  A publish is one request of many round trips: it takes the         *)
(* project's lock, finds the connection, asks the provider for its health, *)
(* lists the artifacts, asks what the publisher may read, exchanges the    *)
(* refresh token, sends file by file, and writes a record.  Meanwhile      *)
(* artifacts are edited, and administrators connect and disconnect         *)
(* providers.  Locks, connections, references and records live in the      *)
(* memory of the one process that serves these routes.  The status of a    *)
(* connection is left out: it is written to be shown, and nothing reads it.*)
(***************************************************************************)
EXTENDS Naturals, Sequences

CONSTANTS
    Project, Artifact,
    ProjectOf,      \* artifact -> the project it belongs to
    Provider,
    Publisher,      \* concurrent handlers of the publish route
    MaxVersion,     \* bound: versions of an artifact
    MaxConnections, MaxPublishes \* bounds: rows

ASSUME ProjectAssumption == ProjectOf \in [Artifact -> Project]
ASSUME BoundsAssumption ==
    MaxVersion \in Nat \ {0} /\ MaxConnections \in Nat /\ MaxPublishes \in Nat

VARIABLES
    connections,  \* storage connections in the order of their creation
    untracking,   \* connections whose disconnection has yet to mark references
    held,         \* the projects whose publish lock is taken
    version,      \* artifact -> its version on the platform
    destination,  \* provider -> artifact -> the file there, with what put it
    references,   \* connection -> artifact -> what the platform knows of that file
    records,      \* publish -> its record
    publishes,    \* publishes that were let in
    pc, job       \* per publisher: the next step, and what it works on

stored == <<connections, untracking, references, records>>
vars == <<stored, held, version, destination, publishes, pc, job>>

NoFile == [version |-> 0, connection |-> 0, publish |-> 0]
NoReference == [version |-> 0, tracked |-> FALSE]
NoRecord == [state |-> "none", landed |-> {}]
Nothing == "none"
NoJob == [project |-> Nothing, connection |-> 0, publish |-> 0,
          listed |-> {}, current |-> <<>>, landed |-> {}, failed |-> FALSE]

Init ==
    /\ connections = <<>>
    /\ untracking = {}
    /\ held = {}
    /\ version = [a \in Artifact |-> 1]
    /\ destination = [v \in Provider |-> [a \in Artifact |-> NoFile]]
    /\ references = [c \in 1..MaxConnections |-> [a \in Artifact |-> NoReference]]
    /\ records = [n \in 1..MaxPublishes |-> NoRecord]
    /\ publishes = 0
    /\ pc = [u \in Publisher |-> "idle"]
    /\ job = [u \in Publisher |-> NoJob]

At(u, from, to) == pc[u] = from /\ pc' = [pc EXCEPT ![u] = to]
ArtifactsOf(p) == {a \in Artifact : ProjectOf[a] = p}
-----------------------------------------------------------------------------
(* The lock: prevented, not queued. *)

Acquire(u) ==
    /\ At(u, "idle", "connection")
    /\ publishes < MaxPublishes
    /\ \E p \in Project \ held :
        /\ held' = held \cup {p}
        /\ publishes' = publishes + 1
        /\ job' = [job EXCEPT ![u] = [NoJob EXCEPT !.project = p, !.publish = publishes']]
    /\ UNCHANGED <<stored, version, destination>>

\* Mutant: the refusal passes through the finally block.
PreventInFinally(u) ==
    /\ pc[u] = "idle"
    /\ \E p \in held : held' = held \ {p}
    /\ UNCHANGED <<stored, version, destination, publishes, pc, job>>

\* The caller is told, and nothing changes: the refusal is before the try.
Prevent(u) ==
    /\ pc[u] = "idle"
    /\ \E p \in Project : p \in held
    /\ UNCHANGED vars

\* Mutant: the lock is released after the record, not in a finally block.
ReleaseRecorded(u) ==
    /\ At(u, "release", "idle")
    /\ held' = IF records[job[u].publish] = NoRecord THEN held ELSE held \ {job[u].project}
    /\ job' = [job EXCEPT ![u] = NoJob]
    /\ UNCHANGED <<stored, version, destination, publishes>>

\* However the publish ended, and whatever its answer.
Release(u) ==
    /\ At(u, "release", "idle")
    /\ held' = held \ {job[u].project}
    /\ job' = [job EXCEPT ![u] = NoJob]
    /\ UNCHANGED <<stored, version, destination, publishes>>
-----------------------------------------------------------------------------
(* What is to be published, where, and with which authorisation. *)

Active == {c \in DOMAIN connections : ~connections[c].disconnected}

\* The oldest connection that is not disconnected; without one it throws.
ActiveConnection(u) ==
    /\ IF Active = {} THEN At(u, "connection", "release") /\ UNCHANGED job
       ELSE /\ At(u, "connection", "health")
            /\ job' = [job EXCEPT ![u].connection =
                          CHOOSE c \in Active : \A d \in Active : c <= d]
    /\ UNCHANGED <<stored, held, version, destination, publishes>>

\* An unreachable provider is reported before anything is sent.
CheckHealth(u) ==
    /\ At(u, "health", "list") \/ At(u, "health", "release")
    /\ UNCHANGED <<stored, held, version, destination, publishes, job>>

\* The whole project, at the versions of the moment.
ListForProject(u) ==
    /\ At(u, "list", "access")
    /\ job' = [job EXCEPT ![u].listed =
                  {<<a, version[a]>> : a \in ArtifactsOf(job[u].project)}]
    /\ UNCHANGED <<stored, held, version, destination, publishes>>

\* Each artifact is asked for; what may not be read is excluded.  Asking reads
\* the database and may throw.
CanRead(u) ==
    /\ \/ At(u, "access", "token")
          /\ \E readable \in SUBSET job[u].listed : job' = [job EXCEPT ![u].listed = readable]
       \/ At(u, "access", "release") /\ UNCHANGED job
    /\ UNCHANGED <<stored, held, version, destination, publishes>>

\* accessTokenFor reads the connection again: it may have been disconnected.
ReadToken(u) ==
    /\ At(u, "token", IF connections[job[u].connection].token THEN "refresh" ELSE "unauthorised")
    /\ UNCHANGED <<stored, held, version, destination, publishes, job>>

\* The provider exchanges the token, or refuses; decrypting it, or the call, may throw.
RefreshToken(u) ==
    /\ \E next \in {"put", "unauthorised", "release"} : At(u, "refresh", next)
    /\ UNCHANGED <<stored, held, version, destination, publishes, job>>

Write(u, state) ==
    records' = [records EXCEPT ![job[u].publish] = [state |-> state, landed |-> job[u].landed]]

\* Nothing was sent, and the record says so.
RecordUnauthorised(u) ==
    /\ At(u, "unauthorised", "release")
    /\ Write(u, "failed")
    /\ UNCHANGED <<connections, untracking, references, held, version, destination, publishes, job>>
-----------------------------------------------------------------------------
(* Sending, file by file. *)

PutFile(u) ==
    /\ At(u, "put", "reference")
    /\ \E f \in job[u].listed :
        /\ destination' = [destination EXCEPT
               ![connections[job[u].connection].provider][f[1]] =
                   [version |-> f[2], connection |-> job[u].connection, publish |-> job[u].publish]]
        /\ job' = [job EXCEPT ![u].current = f, ![u].listed = @ \ {f},
                              ![u].landed = @ \cup {f[1]}]
    /\ UNCHANGED <<stored, held, version, publishes>>

\* A file that is too large is skipped; the rest continue.
SkipFile(u) ==
    /\ pc[u] = "put"
    /\ \E f \in job[u].listed : job' = [job EXCEPT ![u].listed = @ \ {f}]
    /\ UNCHANGED <<stored, held, version, destination, publishes, pc>>

\* Mutant: the failure is thrown.
ThrowPut(u) ==
    /\ At(u, "put", "release")
    /\ job[u].listed # {}
    /\ UNCHANGED <<stored, held, version, destination, publishes, job>>

\* The provider refuses a file: it and everything after it did not land.
FailPut(u) ==
    /\ pc[u] = "put"
    /\ job[u].listed # {}
    /\ job' = [job EXCEPT ![u].listed = {}, ![u].failed = TRUE]
    /\ UNCHANGED <<stored, held, version, destination, publishes, pc>>

\* Mutant: the version is the artifact's when the provider has answered.
UpsertReferenceNow(u) ==
    LET a == job[u].current[1]
    IN  /\ At(u, "reference", "put")
        /\ references' = [references EXCEPT ![job[u].connection][a] =
               [version |-> version[a], tracked |-> @ = NoReference \/ @.tracked]]
        /\ job' = [job EXCEPT ![u].current = <<>>]
        /\ UNCHANGED <<connections, untracking, records, held, version, destination, publishes>>

\* A new reference is tracked; one that is there keeps its mark.
UpsertReference(u) ==
    LET a == job[u].current[1]
    IN  /\ At(u, "reference", "put")
        /\ references' = [references EXCEPT ![job[u].connection][a] =
               [version |-> job[u].current[2], tracked |-> @ = NoReference \/ @.tracked]]
        /\ job' = [job EXCEPT ![u].current = <<>>]
        /\ UNCHANGED <<connections, untracking, records, held, version, destination, publishes>>

StateOf(u) ==
    IF ~job[u].failed THEN "succeeded"
    ELSE IF job[u].landed # {} THEN "partial" ELSE "failed"

CreateRecord(u) ==
    /\ At(u, "put", "release")
    /\ job[u].listed = {}
    /\ Write(u, StateOf(u))
    /\ UNCHANGED <<connections, untracking, references, held, version, destination, publishes, job>>

PublishStep(u) ==
    \/ ActiveConnection(u) \/ CheckHealth(u) \/ ListForProject(u) \/ CanRead(u)
    \/ ReadToken(u) \/ RefreshToken(u) \/ RecordUnauthorised(u)
    \/ PutFile(u) \/ SkipFile(u) \/ FailPut(u) \/ UpsertReference(u) \/ CreateRecord(u)
    \/ Release(u)
-----------------------------------------------------------------------------
(* Administrators and authors. *)

\* Nothing asks whether the workspace is connected already.
Connect(provider, token) ==
    /\ Len(connections) < MaxConnections
    /\ connections' = Append(connections,
           [provider |-> provider, token |-> token, disconnected |-> FALSE])
    /\ UNCHANGED <<untracking, references, records, held, version, destination, publishes, pc, job>>

\* The token is discarded with the row's timestamp, of a row that may have one already ...
Disconnect(c) ==
    /\ c \notin untracking
    /\ connections' = [connections EXCEPT ![c].disconnected = TRUE, ![c].token = FALSE]
    /\ untracking' = untracking \cup {c}
    /\ UNCHANGED <<references, records, held, version, destination, publishes, pc, job>>

\* ... and then the references are marked; no file is touched.
MarkAllUntracked(c) ==
    /\ untracking' = untracking \ {c}
    /\ references' = [references EXCEPT ![c] = [a \in Artifact |-> [@[a] EXCEPT !.tracked = FALSE]]]
    /\ UNCHANGED <<connections, records, held, version, destination, publishes, pc, job>>

Edit(a) ==
    /\ version[a] < MaxVersion
    /\ version' = [version EXCEPT ![a] = @ + 1]
    /\ UNCHANGED <<stored, held, destination, publishes, pc, job>>

Next ==
    \/ \E u \in Publisher : Acquire(u) \/ Prevent(u) \/ PublishStep(u)
    \/ \E v \in Provider, token \in BOOLEAN : Connect(v, token)
    \/ \E c \in DOMAIN connections : Disconnect(c)
    \/ \E c \in untracking : MarkAllUntracked(c)
    \/ \E a \in Artifact : Edit(a)

\* A request that was let in is served: its round trips return.
Fairness == \A u \in Publisher : WF_vars(PublishStep(u))

Spec == Init /\ [][Next]_vars /\ Fairness
-----------------------------------------------------------------------------
\* Types of the variables; what is sent and recorded belongs to a publish that
\* was let in.
TypeOK ==
    /\ connections \in Seq([provider: Provider, token: BOOLEAN, disconnected: BOOLEAN])
    /\ untracking \subseteq DOMAIN connections /\ held \subseteq Project
    /\ version \in [Artifact -> 1..MaxVersion]
    /\ destination \in [Provider -> [Artifact -> [version: 0..MaxVersion,
           connection: 0..Len(connections), publish: 0..publishes]]]
    /\ references \in [1..MaxConnections -> [Artifact -> [version: 0..MaxVersion, tracked: BOOLEAN]]]
    /\ records \in [1..MaxPublishes -> [state: {"none", "succeeded", "partial", "failed"},
                                       landed: SUBSET Artifact]]
    /\ publishes \in 0..MaxPublishes
    /\ \A u \in Publisher :
        /\ pc[u] # "idle" => job[u].publish \in 1..publishes /\ job[u].project \in held
        /\ \A f \in job[u].listed : ProjectOf[f[1]] = job[u].project /\ f[2] \in 1..version[f[1]]

\* FR-PUB-040: however publishes are refused, fail and end, one project is never
\* published by two requests at a time (acquire, release).  Includes the types.
OnePublishPerProject == TypeOK /\
    \A u, w \in Publisher :
        u # w /\ pc[u] # "idle" /\ pc[w] # "idle" => job[u].project # job[w].project

Referring(f, a) == \E u \in Publisher :
    pc[u] = "reference" /\ job[u].publish = f.publish /\ job[u].current[1] = a

\* What the platform says it has published of an artifact is what the connection
\* put at the provider last, whatever was edited and published meanwhile: the
\* preview of a republish compares with it (upsertReference, preview).
ReferencesFollowTheFiles ==
    \A v \in Provider, a \in Artifact :
        LET f == destination[v][a]
        IN  f # NoFile /\ ~Referring(f, a) => references[f.connection][a].version = f.version

\* FR-PUB-034: a publish that is over, failed or not, has left a record, which
\* names every file that it put (run).
LandedIsRecorded ==
    \A v \in Provider, a \in Artifact :
        LET n == destination[v][a].publish
        IN  n # 0 /\ (\A u \in Publisher : job[u].publish # n) => a \in records[n].landed

\* However a publish ends, its project can be published again (publish, finally).
LockIsReleased == \A p \in Project : p \in held ~> p \notin held

\* "The workspace's live connection - at most one is active at a time"
\* (activeConnection).  Not kept: connect asks for no other connection, so the
\* older one is still where everything is published.
OneActiveConnection == \A c, d \in Active : c = d

\* FR-PUB-038, "stop tracking those files": once its disconnection is over, a
\* connection has no tracked reference (disconnect).  Not kept: a publish that is
\* under way goes on sending, and its new references are tracked.
DisconnectedIsUntracked ==
    \A c \in DOMAIN connections : connections[c].disconnected /\ c \notin untracking =>
        \A a \in Artifact : ~references[c][a].tracked
=============================================================================
