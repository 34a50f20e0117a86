----------------------- MODULE StoragePublicationProofs -----------------------
(***************************************************************************)
(* Proofs that a project is published by one request at a time, that a     *)
(* publish that is over has recorded every file it put, and that what the  *)
(* platform says it published is what is at the provider, for any number   *)
(* of projects, artifacts, providers and requests.                         *)
(*                                                                         *)
(* And, of the task board, for any number of syncs, people, cards, lines   *)
(* and deaths of a process: who may choose a card's status, and what the   *)
(* board shows once syncs are over.                                        *)
(***************************************************************************)
EXTENDS StoragePublication, TaskSync, SequenceTheorems, WellFoundedInduction, TLAPS

Connection == [provider: Provider, token: BOOLEAN, disconnected: BOOLEAN]

Step == {"idle", "connection", "health", "list", "access", "token", "refresh",
         "unauthorised", "put", "reference", "release"}

Job == [project: Project \cup {Nothing}, connection: Nat, publish: Nat,
        listed: SUBSET (Artifact \X Nat),
        current: {<<>>} \cup (Artifact \X Nat),
        landed: SUBSET Artifact, failed: BOOLEAN]

\* The types, those of the publishers included.
Typed ==
    /\ TypeOK
    /\ Len(connections) <= MaxConnections
    /\ pc \in [Publisher -> Step]
    /\ job \in [Publisher -> Job]

\* What a publisher at a step knows: the connection it sends with once it has
\* chosen it, nothing landed before it may send, and, until the reference is
\* written, a file that is at the provider as it was put.
JobFits(s, j) ==
    /\ s = "idle" => j = NoJob
    /\ s \notin {"idle", "connection", "release"} => j.connection \in 1..Len(connections)
    /\ s \notin {"put", "reference", "release"} => j.landed = {}
    /\ s = "reference" =>
        /\ j.current \in Artifact \X Nat
        /\ ProjectOf[j.current[1]] = j.project
        /\ destination[connections[j.connection].provider][j.current[1]] =
               [version |-> j.current[2], connection |-> j.connection, publish |-> j.publish]

JobsFit == \A u \in Publisher : JobFits(pc[u], job[u])

\* Publishers that are under way have a project and a number of their own.
Apart ==
    \A u, w \in Publisher :
        u # w /\ pc[u] # "idle" /\ pc[w] # "idle" =>
            job[u].project # job[w].project /\ job[u].publish # job[w].publish

\* A file was put by a publish that was let in, through a connection to the
\* provider it is at; while that publish is under way it knows of the file, and
\* when all it has left to do is release the lock, so does its record.
FileFits(v, a) ==
    LET f == destination[v][a]
    IN  /\ f # NoFile =>
            /\ f.publish # 0
            /\ f.connection \in 1..Len(connections)
            /\ connections[f.connection].provider = v
        /\ \A u \in Publisher : pc[u] # "idle" /\ job[u].publish = f.publish =>
            /\ f.connection = job[u].connection
            /\ a \in job[u].landed
            /\ pc[u] = "release" => a \in records[f.publish].landed

FilesFit == \A v \in Provider, a \in Artifact : FileFits(v, a)

\* The inductive invariant.  That publishers are apart is what keeps a file as it
\* was put until its reference is written; that a file belongs to the connection
\* of its publish is what makes one reference speak of it.
IInv ==
    /\ Typed /\ JobsFit /\ Apart /\ FilesFit
    /\ ReferencesFollowTheFiles /\ LandedIsRecorded
----------------------------------------------------------------------------
\* What the invariant says of a publisher that is under way.
LEMMA UnderWay ==
    ASSUME IInv, NEW u \in Publisher, pc[u] # "idle"
    PROVE  /\ pc[u] \in Step /\ job[u] \in Job
           /\ job[u].publish \in 1..publishes /\ publishes \in 0..MaxPublishes
           /\ job[u].publish \in 1..MaxPublishes
           /\ job[u].project \in held /\ held \subseteq Project
           /\ \A f \in job[u].listed : /\ f \in Artifact \X Nat
                                       /\ ProjectOf[f[1]] = job[u].project
                                       /\ f[2] \in 1..version[f[1]]
           /\ JobFits(pc[u], job[u])
BY BoundsAssumption DEF IInv, Typed, TypeOK, JobsFit, Job

\* What is listed is of the publisher's project, at a version it has had.
LEMMA ListedFits ==
    ASSUME IInv, NEW u \in Publisher, NEW f \in job[u].listed
    PROVE  ProjectOf[f[1]] = job[u].project /\ f[2] \in 1..version[f[1]]
BY DEF IInv, Typed, TypeOK

\* A number that no publisher under way has is no idle publisher's either.
LEMMA IdleHasNoPublish ==
    ASSUME IInv, NEW u \in Publisher, job[u].publish # 0
    PROVE  pc[u] # "idle"
<1>1. NoJob.publish = 0
  BY DEF NoJob
<1>2. QED
  BY <1>1 DEF IInv, JobsFit, JobFits

\* The connection rows are a sequence: they have a length, and every number up
\* to it has a row.
LEMMA ConnectionRows ==
    ASSUME Typed
    PROVE  /\ connections \in Seq(Connection)
           /\ Len(connections) \in Nat /\ DOMAIN connections = 1..Len(connections)
           /\ connections \in [1..Len(connections) -> Connection]
<1>1. connections \in Seq(Connection)
  BY DEF Typed, TypeOK, Connection
<1>2. QED
  BY <1>1, LenProperties
----------------------------------------------------------------------------
\* Steps between the round trips of a publish

\* A step that sends nothing and records nothing: it goes on, with another
\* connection only while nothing has landed, and gives up only then.
LEMMA QuietStep ==
    ASSUME IInv, NEW u \in Publisher, NEW s \in Step, NEW j \in Job,
           pc[u] \notin {"idle", "reference"}, s \notin {"idle", "reference"},
           pc' = [pc EXCEPT ![u] = s], job' = [job EXCEPT ![u] = j],
           UNCHANGED <<stored, held, version, destination, publishes>>,
           j.project = job[u].project, j.publish = job[u].publish,
           j.landed = job[u].landed,
           j.connection = job[u].connection \/ job[u].landed = {},
           \A f \in j.listed : ProjectOf[f[1]] = j.project /\ f[2] \in 1..version[f[1]],
           JobFits(s, j), s = "release" => j.landed = {}
    PROVE  IInv'
<1>1. /\ pc'[u] = s /\ job'[u] = j
      /\ \A w \in Publisher \ {u} : pc'[w] = pc[w] /\ job'[w] = job[w]
  BY DEF IInv, Typed
<1>2. /\ connections' = connections /\ untracking' = untracking
      /\ references' = references /\ records' = records
  BY DEF stored
<1>3. Typed'
  <2>1. pc' \in [Publisher -> Step] /\ job' \in [Publisher -> Job]
    BY DEF IInv, Typed
  <2>2. \A w \in Publisher :
          /\ pc'[w] # "idle" => job'[w].publish \in 1..publishes /\ job'[w].project \in held
          /\ \A f \in job'[w].listed :
                 ProjectOf[f[1]] = job'[w].project /\ f[2] \in 1..version[f[1]]
    BY <1>1, UnderWay DEF IInv, Typed, TypeOK
  <2>3. QED
    BY <1>2, <2>1, <2>2 DEF IInv, Typed, TypeOK
<1>4. JobsFit'
  <2>1. ASSUME NEW w \in Publisher, w # u PROVE JobFits(pc[w], job[w])'
    BY <1>1, <1>2, <2>1 DEF IInv, JobsFit, JobFits
  <2>2. JobFits(pc[u], job[u])'
    BY <1>1, <1>2 DEF JobFits
  <2>3. QED
    BY <2>1, <2>2 DEF JobsFit
<1>5. Apart'
  BY <1>1 DEF IInv, Apart
<1>6. FilesFit'
  <2>1. SUFFICES ASSUME NEW v \in Provider, NEW a \in Artifact PROVE FileFits(v, a)'
    BY DEF FilesFit
  <2>2. FileFits(v, a)
    BY DEF IInv, FilesFit
  <2>3. QED
    BY <1>1, <1>2, <2>2 DEF FileFits
<1>7. ReferencesFollowTheFiles'
  <2>1. \A f, a : Referring(f, a)' <=> Referring(f, a)
    BY <1>1 DEF Referring
  <2>2. QED
    BY <1>2, <2>1 DEF IInv, ReferencesFollowTheFiles
<1>8. LandedIsRecorded'
  <2>1. \A w \in Publisher : job'[w].publish = job[w].publish
    BY <1>1
  <2>2. QED
    BY <1>2, <2>1 DEF IInv, LandedIsRecorded
<1>9. QED
  BY <1>3, <1>4, <1>5, <1>6, <1>7, <1>8 DEF IInv

\* A non-empty set of numbers has a least one: the oldest active connection.
LEMMA LeastExists ==
    ASSUME NEW S \in SUBSET Nat, S # {}
    PROVE  \E c \in S : \A d \in S : c <= d
<1>1. PICK c \in S : \A d \in S : <<d, c>> \notin OpToRel(<, Nat)
  <2>1. IsWellFoundedOn(OpToRel(<, Nat), Nat)
    BY NatLessThanWellFounded
  <2>2. QED
    BY <2>1, WFMin, Zenon
<1>2. \A d \in S : ~(d < c)
  BY <1>1 DEF OpToRel
<1>3. QED
  BY <1>2

\* A publish chooses a connection that exists, and goes on with it; without one
\* it is over before anything has landed.
LEMMA ActiveConnectionStep ==
    ASSUME IInv, NEW u \in Publisher, ActiveConnection(u)
    PROVE  IInv'
<1>1. pc[u] = "connection" /\ job[u] \in Job /\ job[u].landed = {} /\ "release" \in Step
  BY UnderWay DEF ActiveConnection, At, JobFits, Step
<1>2. CASE Active = {}
  <2>1. job' = [job EXCEPT ![u] = job[u]]
    BY <1>2 DEF ActiveConnection, IInv, Typed
  <2>2. JobFits("release", job[u]) /\ pc' = [pc EXCEPT ![u] = "release"]
    BY <1>2 DEF ActiveConnection, At, JobFits
  <2>3. UNCHANGED <<stored, held, version, destination, publishes>>
    BY DEF ActiveConnection
  <2>4. \A f \in job[u].listed :
            ProjectOf[f[1]] = job[u].project /\ f[2] \in 1..version[f[1]]
    BY <1>1, UnderWay
  <2>5. QED
    BY <1>1, <2>1, <2>2, <2>3, <2>4, QuietStep
<1>3. CASE Active # {}
  <2> DEFINE c == CHOOSE c \in Active : \A d \in Active : c <= d
  <2>1. Active \subseteq Nat /\ Active \subseteq 1..Len(connections)
    BY ConnectionRows DEF Active, IInv
  <2>2. c \in Active
    <3>1. \E e \in Active : \A d \in Active : e <= d
      BY <1>3, <2>1, LeastExists
    <3>2. QED
      BY <3>1
  <2> PICK k : k = c
    OBVIOUS
  <2>3. k \in Nat /\ k \in 1..Len(connections)
    BY <2>1, <2>2
  <2>4. job' = [job EXCEPT ![u].connection = k] /\ At(u, "connection", "health")
    BY <1>3 DEF ActiveConnection
  <2> HIDE DEF c
  <2> DEFINE j == [job[u] EXCEPT !.connection = k]
  <2>5. /\ j \in Job /\ j.project = job[u].project /\ j.publish = job[u].publish
        /\ j.landed = job[u].landed /\ j.listed = job[u].listed /\ j.connection = k
    BY <1>1, <2>3 DEF Job
  <2>6. job' = [job EXCEPT ![u] = j]
    BY <2>4
  <2> HIDE DEF j
  <2>7. JobFits("health", j) /\ "health" \in Step
    BY <1>1, <2>3, <2>5 DEF JobFits, Step
  <2>8. QED
    BY <1>1, <2>4, <2>5, <2>6, <2>7, UnderWay, QuietStep DEF ActiveConnection, At
<1>4. QED
  BY <1>2, <1>3

\* Steps that only go on to another step, before anything has landed.
LEMMA GoOnStep ==
    ASSUME IInv, NEW u \in Publisher,
           CheckHealth(u) \/ ReadToken(u) \/ RefreshToken(u)
               \/ (CanRead(u) /\ UNCHANGED job)
    PROVE  IInv'
<1>1. /\ pc[u] \in {"health", "token", "refresh", "access"}
      /\ UNCHANGED <<stored, held, version, destination, publishes, job>>
  BY DEF CheckHealth, ReadToken, RefreshToken, CanRead, At
<1>2. PICK s \in {"list", "release", "refresh", "unauthorised", "put", "token"} :
          pc' = [pc EXCEPT ![u] = s]
  BY DEF CheckHealth, ReadToken, RefreshToken, CanRead, At
<1>3. job' = [job EXCEPT ![u] = job[u]]
  BY <1>1 DEF IInv, Typed
<1>4. JobFits(s, job[u]) /\ job[u].landed = {} /\ s \in Step /\ job[u] \in Job
  BY <1>1, <1>2, UnderWay DEF JobFits, Step
<1>5. QED
  BY <1>1, <1>2, <1>3, <1>4, UnderWay, QuietStep

\* Steps that choose what is to be sent: the project's artifacts at their
\* versions, then those that may be read, then without the ones that are too
\* large or come after a refusal.
LEMMA ChooseStep ==
    ASSUME IInv, NEW u \in Publisher,
           ListForProject(u) \/ (CanRead(u) /\ job' # job) \/ SkipFile(u) \/ FailPut(u)
    PROVE  IInv'
<1>1. /\ pc[u] \in {"list", "access", "put"}
      /\ UNCHANGED <<stored, held, version, destination, publishes>>
  BY DEF ListForProject, CanRead, SkipFile, FailPut, At
<1>2. PICK s \in {"access", "token", "put"} :
          pc' = [pc EXCEPT ![u] = s] /\ (s = "put" <=> pc[u] = "put")
  BY DEF ListForProject, CanRead, SkipFile, FailPut, At, IInv, Typed
<1> DEFINE New == {<<a, version[a]>> : a \in ArtifactsOf(job[u].project)}
<1>3. \A f \in New : /\ f \in Artifact \X Nat
                     /\ ProjectOf[f[1]] = job[u].project /\ f[2] \in 1..version[f[1]]
  BY DEF ArtifactsOf, IInv, Typed, TypeOK
<1> HIDE DEF New
<1>4. PICK L, b : /\ L \subseteq New \/ L \subseteq job[u].listed
                  /\ b \in BOOLEAN
                  /\ job' = [job EXCEPT ![u] = [job[u] EXCEPT !.listed = L, !.failed = b]]
  <2>1. job \in [Publisher -> Job] /\ job[u].failed \in BOOLEAN
    BY DEF IInv, Typed, Job
  <2>2. \A L : [job EXCEPT ![u].listed = L] =
              [job EXCEPT ![u] = [job[u] EXCEPT !.listed = L, !.failed = job[u].failed]]
    BY <2>1 DEF Job
  <2>3. CASE ListForProject(u)
    BY <2>1, <2>2, <2>3 DEF ListForProject, New
  <2>4. CASE CanRead(u) /\ job' # job
    <3>1. PICK readable \in SUBSET job[u].listed :
              job' = [job EXCEPT ![u].listed = readable]
      BY <2>4 DEF CanRead
    <3>2. QED
      BY <2>1, <2>2, <3>1
  <2>5. CASE SkipFile(u)
    <3>1. PICK f \in job[u].listed : job' = [job EXCEPT ![u].listed = job[u].listed \ {f}]
      BY <2>5 DEF SkipFile
    <3>2. QED
      BY <2>1, <2>2, <3>1
  <2>6. CASE FailPut(u)
    <3>1. job' = [job EXCEPT ![u] = [job[u] EXCEPT !.listed = {}, !.failed = TRUE]]
      BY <2>6 DEF FailPut
    <3>2. QED
      BY <3>1
  <2>7. QED
    BY <2>3, <2>4, <2>5, <2>6
<1> DEFINE j == [job[u] EXCEPT !.listed = L, !.failed = b]
<1>5. job[u] \in Job /\ L \in SUBSET (Artifact \X Nat)
  BY <1>1, <1>3, <1>4, UnderWay
<1>6. /\ j \in Job /\ j.project = job[u].project /\ j.publish = job[u].publish
      /\ j.landed = job[u].landed /\ j.listed = L /\ j.connection = job[u].connection
  BY <1>4, <1>5 DEF Job
<1>7. \A f \in L : ProjectOf[f[1]] = job[u].project /\ f[2] \in 1..version[f[1]]
  BY <1>1, <1>3, <1>4, UnderWay
<1>8. job' = [job EXCEPT ![u] = j]
  BY <1>4
<1> HIDE DEF j
<1>9. JobFits(s, j) /\ s \in Step
  BY <1>1, <1>2, <1>6, UnderWay DEF JobFits, Step
<1>10. QED
  BY <1>1, <1>2, <1>6, <1>7, <1>8, <1>9, QuietStep
----------------------------------------------------------------------------
\* The lock

\* A publish is let in when its project is free, with a number of its own.
LEMMA AcquireStep ==
    ASSUME IInv, NEW u \in Publisher, Acquire(u)
    PROVE  IInv'
<1>1. PICK p \in Project \ held :
          /\ held' = held \cup {p}
          /\ job' = [job EXCEPT ![u] = [NoJob EXCEPT !.project = p, !.publish = publishes']]
  BY DEF Acquire
<1> PICK n : n = publishes'
  OBVIOUS
<1> DEFINE j == [NoJob EXCEPT !.project = p, !.publish = n]
<1>2. /\ pc[u] = "idle" /\ pc' = [pc EXCEPT ![u] = "connection"]
      /\ publishes < MaxPublishes /\ publishes' = publishes + 1
      /\ connections' = connections /\ untracking' = untracking
      /\ references' = references /\ records' = records
      /\ version' = version /\ destination' = destination
  BY DEF Acquire, At, stored
<1>3. publishes \in Nat /\ n = publishes' /\ n \in 1..MaxPublishes /\ n \in Nat
  BY <1>2, BoundsAssumption DEF IInv, Typed, TypeOK
<1>4. /\ j \in Job /\ j.project = p /\ j.publish = n /\ j.landed = {}
      /\ j.listed = {}
  <2>1. NoJob \in Job /\ NoJob.landed = {} /\ NoJob.listed = {}
    BY DEF Job, NoJob
  <2>2. p \in Project \cup {Nothing} /\ n \in Nat
    BY <1>3
  <2>3. QED
    BY <2>1, <2>2 DEF Job
<1> HIDE DEF j
<1>5. /\ pc'[u] = "connection" /\ job'[u] = j
      /\ \A w \in Publisher \ {u} : pc'[w] = pc[w] /\ job'[w] = job[w]
  BY <1>1, <1>2 DEF IInv, Typed, j
<1>6. \A w \in Publisher : pc[w] # "idle" =>
          /\ job[w].publish \in 1..publishes /\ job[w].project \in held
  BY UnderWay
<1>7. Typed'
  <2>1. pc' \in [Publisher -> Step] /\ job' \in [Publisher -> Job]
    BY <1>1, <1>2, <1>4 DEF IInv, Typed, Step, j
  <2>2. \A w \in Publisher :
          /\ pc'[w] # "idle" => job'[w].publish \in 1..publishes' /\ job'[w].project \in held'
          /\ \A f \in job'[w].listed :
                 ProjectOf[f[1]] = job'[w].project /\ f[2] \in 1..version[f[1]]
    <3>1. 1..publishes \subseteq 1..n /\ n \in 1..n
      BY <1>2, <1>3
    <3>2. ASSUME NEW w \in Publisher, w # u
          PROVE  /\ pc'[w] # "idle" => job'[w].publish \in 1..n /\ job'[w].project \in held'
                 /\ \A f \in job'[w].listed :
                        ProjectOf[f[1]] = job'[w].project /\ f[2] \in 1..version[f[1]]
      BY <1>1, <1>5, <1>6, <3>1, <3>2, ListedFits
    <3>3. /\ job'[u].publish = n /\ job'[u].project = p /\ p \in held'
          /\ job'[u].listed = {}
      BY <1>1, <1>4, <1>5
    <3>4. QED
      BY <1>3, <3>1, <3>2, <3>3
  <2>3. destination \in [Provider -> [Artifact -> [version: 0..MaxVersion,
            connection: 0..Len(connections), publish: 0..publishes']]]
    <3>1. 0..publishes \subseteq 0..publishes'
      BY <1>2, <1>3
    <3>2. QED
      BY <3>1 DEF IInv, Typed, TypeOK
  <2>4. publishes' \in 0..MaxPublishes /\ held' \subseteq Project
    BY <1>1, <1>3 DEF IInv, Typed, TypeOK
  <2>5. QED
    BY <1>2, <2>1, <2>2, <2>3, <2>4 DEF IInv, Typed, TypeOK
<1>8. JobsFit'
  <2>1. ASSUME NEW w \in Publisher, w # u PROVE JobFits(pc[w], job[w])'
    BY <1>2, <1>5, <2>1 DEF IInv, JobsFit, JobFits
  <2>2. JobFits(pc[u], job[u])'
    BY <1>4, <1>5 DEF JobFits
  <2>3. QED
    BY <2>1, <2>2 DEF JobsFit
<1>9. Apart'
  <2>1. \A w \in Publisher \ {u} : pc'[w] # "idle" =>
            job'[w].project # p /\ job'[w].publish # publishes'
    BY <1>2, <1>3, <1>5, <1>6
  <2>2. QED
    BY <1>4, <1>5, <2>1 DEF IInv, Apart
<1>10. FilesFit'
  <2>1. SUFFICES ASSUME NEW v \in Provider, NEW a \in Artifact PROVE FileFits(v, a)'
    BY DEF FilesFit
  <2>2. FileFits(v, a) /\ destination[v][a].publish \in 0..publishes
    BY DEF IInv, FilesFit, Typed, TypeOK
  <2>3. destination[v][a].publish # publishes'
    BY <1>2, <1>3, <2>2
  <2>4. QED
    BY <1>2, <1>4, <1>5, <2>2, <2>3 DEF FileFits
<1>11. ReferencesFollowTheFiles'
  <2>1. \A f, a : Referring(f, a)' <=> Referring(f, a)
    BY <1>2, <1>5 DEF Referring
  <2>2. QED
    BY <1>2, <2>1 DEF IInv, ReferencesFollowTheFiles
<1>12. LandedIsRecorded'
  <2>1. SUFFICES ASSUME NEW v \in Provider, NEW a \in Artifact,
                        NEW i, i = destination[v][a].publish, i # 0,
                        \A w \in Publisher : job'[w].publish # i
                 PROVE  a \in records[i].landed
    BY <1>2 DEF LandedIsRecorded
  <2>2. job[u].publish # i
    BY <1>2, <2>1, IdleHasNoPublish
  <2>3. QED
    BY <1>5, <2>1, <2>2 DEF IInv, LandedIsRecorded
<1>13. QED
  BY <1>7, <1>8, <1>9, <1>10, <1>11, <1>12 DEF IInv

\* The lock is released when every file that landed is in a record.
LEMMA ReleaseStep ==
    ASSUME IInv, NEW u \in Publisher, Release(u)
    PROVE  IInv'
<1>1. /\ pc[u] = "release" /\ pc' = [pc EXCEPT ![u] = "idle"]
      /\ held' = held \ {job[u].project} /\ job' = [job EXCEPT ![u] = NoJob]
      /\ connections' = connections /\ untracking' = untracking
      /\ references' = references /\ records' = records
      /\ version' = version /\ destination' = destination /\ publishes' = publishes
  BY DEF Release, At, stored
<1>2. NoJob \in Job /\ NoJob.listed = {} /\ NoJob.publish = 0
  BY DEF NoJob, Job
<1>3. /\ pc'[u] = "idle" /\ job'[u] = NoJob
      /\ \A w \in Publisher \ {u} : pc'[w] = pc[w] /\ job'[w] = job[w]
  BY <1>1 DEF IInv, Typed
<1>4. Typed'
  <2>1. pc' \in [Publisher -> Step] /\ job' \in [Publisher -> Job]
    BY <1>1, <1>2 DEF IInv, Typed, Step
  <2>2. \A w \in Publisher :
          /\ pc'[w] # "idle" => job'[w].publish \in 1..publishes /\ job'[w].project \in held'
          /\ \A f \in job'[w].listed :
                 ProjectOf[f[1]] = job'[w].project /\ f[2] \in 1..version[f[1]]
    BY <1>1, <1>2, <1>3, UnderWay DEF IInv, Typed, TypeOK, Apart
  <2>3. QED
    BY <1>1, <2>1, <2>2 DEF IInv, Typed, TypeOK
<1>5. JobsFit'
  <2>1. ASSUME NEW w \in Publisher, w # u PROVE JobFits(pc[w], job[w])'
    BY <1>1, <1>3, <2>1 DEF IInv, JobsFit, JobFits
  <2>2. JobFits(pc[u], job[u])'
    BY <1>3 DEF JobFits, NoJob
  <2>3. QED
    BY <2>1, <2>2 DEF JobsFit
<1>6. Apart'
  BY <1>3 DEF IInv, Apart
<1>7. FilesFit'
  <2>1. SUFFICES ASSUME NEW v \in Provider, NEW a \in Artifact PROVE FileFits(v, a)'
    BY DEF FilesFit
  <2>2. FileFits(v, a)
    BY DEF IInv, FilesFit
  <2>3. QED
    BY <1>1, <1>3, <2>2 DEF FileFits
<1>8. ReferencesFollowTheFiles'
  <2>1. \A f, a : Referring(f, a)' <=> Referring(f, a)
    BY <1>1, <1>3 DEF Referring
  <2>2. QED
    BY <1>1, <2>1 DEF IInv, ReferencesFollowTheFiles
<1>9. LandedIsRecorded'
  <2>1. SUFFICES ASSUME NEW v \in Provider, NEW a \in Artifact,
                        NEW n, n = destination[v][a].publish, n # 0,
                        \A w \in Publisher : job'[w].publish # n
                 PROVE  a \in records[n].landed
    BY <1>1 DEF LandedIsRecorded
  <2>2. CASE job[u].publish = n
    BY <1>1, <2>1, <2>2 DEF IInv, FilesFit, FileFits
  <2>3. CASE job[u].publish # n
    BY <1>3, <2>1, <2>3 DEF IInv, LandedIsRecorded
  <2>4. QED
    BY <2>2, <2>3
<1>10. QED
  BY <1>4, <1>5, <1>6, <1>7, <1>8, <1>9 DEF IInv
----------------------------------------------------------------------------
\* Files, references and records

\* A file put is the publish's own; no other publish of the project is under
\* way, so no other publisher is about to refer to what it replaces.
LEMMA PutFileStep ==
    ASSUME IInv, NEW u \in Publisher, PutFile(u)
    PROVE  IInv'
<1>1. PICK g \in job[u].listed :
        /\ destination' = [destination EXCEPT
               ![connections[job[u].connection].provider][g[1]] =
                   [version |-> g[2], connection |-> job[u].connection,
                    publish |-> job[u].publish]]
        /\ job' = [job EXCEPT ![u].current = g, ![u].listed = @ \ {g},
                              ![u].landed = @ \cup {g[1]}]
  BY DEF PutFile
<1>2. /\ pc[u] = "put" /\ pc' = [pc EXCEPT ![u] = "reference"]
      /\ connections' = connections /\ untracking' = untracking
      /\ references' = references /\ records' = records
      /\ held' = held /\ version' = version /\ publishes' = publishes
  BY DEF PutFile, At, stored
<1>3. /\ pc[u] \in Step /\ job[u] \in Job
      /\ g \in Artifact \X Nat /\ ProjectOf[g[1]] = job[u].project
      /\ g[2] \in 1..version[g[1]] /\ job[u].connection \in 1..Len(connections)
      /\ job[u].publish \in 1..publishes /\ publishes \in 0..MaxPublishes
  <2>1. JobFits(pc[u], job[u])
    BY <1>2, UnderWay
  <2>2. job[u].connection \in 1..Len(connections)
    BY <1>2, <2>1 DEF JobFits
  <2>3. QED
    BY <1>1, <1>2, <2>2, UnderWay
<1>n. PICK b, x, n, p : /\ b = g[1] /\ x = job[u].connection /\ n = job[u].publish
                        /\ p = connections[x].provider
  OBVIOUS
<1>4. p \in Provider /\ b \in Artifact /\ x \in 1..Len(connections) /\ n \in 1..publishes
  BY <1>n, <1>3, ConnectionRows DEF IInv, Connection
<1>f. PICK new : new = [version |-> g[2], connection |-> x, publish |-> n]
  OBVIOUS
<1>j. PICK j : j = [job[u] EXCEPT !.current = g, !.listed = @ \ {g}, !.landed = @ \cup {b}]
  OBVIOUS
<1>5. /\ j \in Job /\ j.project = job[u].project /\ j.publish = n
      /\ j.landed = job[u].landed \cup {b} /\ j.connection = x
      /\ j.listed = job[u].listed \ {g} /\ j.current = g
  BY <1>j, <1>n, <1>3, <1>4 DEF Job
<1>6. job' = [job EXCEPT ![u] = j]
  BY <1>j, <1>n, <1>1, <1>3 DEF Job
<1>7. new \in [version: 0..MaxVersion, connection: 0..Len(connections), publish: 0..publishes]
  <2>1. g[2] \in 0..MaxVersion
    BY <1>n, <1>3, <1>4, BoundsAssumption DEF IInv, Typed, TypeOK
  <2>2. x \in 0..Len(connections) /\ n \in 0..publishes
    BY <1>3, <1>4, ConnectionRows DEF IInv
  <2>3. QED
    BY <1>f, <2>1, <2>2
<1>8. destination' = [destination EXCEPT ![p][b] = new]
  BY <1>f, <1>n, <1>1
<1>9. /\ destination'[p][b] = new
      /\ \A v \in Provider, a \in Artifact :
            v # p \/ a # b => destination'[v][a] = destination[v][a]
      /\ destination' \in [Provider -> [Artifact -> [version: 0..MaxVersion,
            connection: 0..Len(connections), publish: 0..publishes]]]
  BY <1>4, <1>7, <1>8 DEF IInv, Typed, TypeOK
<1>10. /\ new # NoFile /\ new.publish = n /\ new.connection = x /\ new.version = g[2]
       /\ n # 0
  BY <1>f, <1>3, <1>4 DEF NoFile
<1>11. /\ pc'[u] = "reference" /\ job'[u] = j
       /\ \A w \in Publisher \ {u} : pc'[w] = pc[w] /\ job'[w] = job[w]
  BY <1>2, <1>6 DEF IInv, Typed
<1>12. Typed'
  <2>1. pc' \in [Publisher -> Step] /\ job' \in [Publisher -> Job]
    BY <1>2, <1>5, <1>6 DEF IInv, Typed, Step
  <2>2. \A w \in Publisher :
          /\ pc'[w] # "idle" => job'[w].publish \in 1..publishes /\ job'[w].project \in held
          /\ \A f \in job'[w].listed :
                 ProjectOf[f[1]] = job'[w].project /\ f[2] \in 1..version[f[1]]
    <3>1. ASSUME NEW w \in Publisher, w # u
          PROVE  /\ pc'[w] # "idle" => job'[w].publish \in 1..publishes /\ job'[w].project \in held
                 /\ \A f \in job'[w].listed :
                        ProjectOf[f[1]] = job'[w].project /\ f[2] \in 1..version[f[1]]
      BY <1>11, <3>1, UnderWay, ListedFits
    <3>2. /\ job'[u].publish \in 1..publishes /\ job'[u].project \in held
          /\ \A f \in job'[u].listed :
                 ProjectOf[f[1]] = job'[u].project /\ f[2] \in 1..version[f[1]]
      BY <1>2, <1>4, <1>5, <1>11, UnderWay, ListedFits
    <3>3. QED
      BY <3>1, <3>2
  <2>3. QED
    BY <1>2, <1>9, <2>1, <2>2 DEF IInv, Typed, TypeOK
<1>13. JobsFit'
  <2>1. ASSUME NEW w \in Publisher, w # u PROVE JobFits(pc[w], job[w])'
    <3>1. JobFits(pc[w], job[w])
      BY DEF IInv, JobsFit
    <3>2. CASE pc[w] # "reference"
      BY <1>2, <1>11, <2>1, <3>1, <3>2 DEF JobFits
    <3>3. CASE pc[w] = "reference"
      <4>1. /\ job[w].current \in Artifact \X Nat
            /\ ProjectOf[job[w].current[1]] = job[w].project
            /\ job[w].connection \in 1..Len(connections)
        BY <3>1, <3>3 DEF JobFits
      <4>2. job[w].project # job[u].project
        BY <1>2, <2>1, <3>3 DEF IInv, Apart
      <4>3. job[w].current[1] # b /\ job[w].current[1] \in Artifact
        BY <1>n, <1>3, <4>1, <4>2
      <4>4. connections[job[w].connection].provider \in Provider
        BY <4>1, ConnectionRows DEF IInv, Connection
      <4>5. destination'[connections[job[w].connection].provider][job[w].current[1]] =
                destination[connections[job[w].connection].provider][job[w].current[1]]
        BY <1>9, <4>3, <4>4
      <4>6. QED
        BY <1>2, <1>11, <2>1, <3>1, <3>3, <4>1, <4>5 DEF JobFits
    <3>4. QED
      BY <3>2, <3>3
  <2>2. JobFits(pc[u], job[u])'
    <3>1. connections[j.connection].provider = p
      BY <1>n, <1>5
    <3>2. destination'[p][j.current[1]] =
              [version |-> j.current[2], connection |-> j.connection, publish |-> j.publish]
      BY <1>f, <1>n, <1>5, <1>9
    <3>3. /\ j.connection \in 1..Len(connections) /\ j.current \in Artifact \X Nat
          /\ ProjectOf[j.current[1]] = j.project
      BY <1>n, <1>3, <1>4, <1>5
    <3>4. QED
      BY <1>2, <1>11, <3>1, <3>2, <3>3 DEF JobFits
  <2>3. QED
    BY <2>1, <2>2 DEF JobsFit
<1>14. Apart'
  BY <1>2, <1>n, <1>5, <1>11 DEF IInv, Apart
<1>15. \A w \in Publisher : w # u /\ pc[w] # "idle" =>
           job[w].publish # n /\ job[w].project # job[u].project
  BY <1>2, <1>n DEF IInv, Apart
<1>16. FilesFit'
  <2>1. SUFFICES ASSUME NEW v \in Provider, NEW a \in Artifact PROVE FileFits(v, a)'
    BY DEF FilesFit
  <2>2. FileFits(v, a)
    BY DEF IInv, FilesFit
  <2>3. CASE v = p /\ a = b
    <3>1. destination'[v][a] = new
      BY <1>9, <2>3
    <3>2. \A w \in Publisher : pc'[w] # "idle" /\ job'[w].publish = n =>
              x = job'[w].connection /\ a \in job'[w].landed /\ pc'[w] # "release"
      BY <1>n, <1>5, <1>11, <1>15, <2>3
    <3>3. QED
      BY <1>n, <1>2, <1>4, <1>10, <2>3, <3>1, <3>2 DEF FileFits
  <2>4. CASE ~(v = p /\ a = b)
    <3>1. destination'[v][a] = destination[v][a]
      BY <1>9, <2>4
    <3>2. \A w \in Publisher :
              pc'[w] # "idle" /\ job'[w].publish = destination[v][a].publish =>
                  /\ destination[v][a].connection = job'[w].connection
                  /\ a \in job'[w].landed
                  /\ pc'[w] = "release" => a \in records[destination[v][a].publish].landed
      BY <1>2, <1>n, <1>5, <1>11, <2>2 DEF FileFits
    <3>3. QED
      BY <1>2, <2>2, <3>1, <3>2 DEF FileFits
  <2>5. QED
    BY <2>3, <2>4
<1>17. ReferencesFollowTheFiles'
  <2>1. SUFFICES ASSUME NEW v \in Provider, NEW a \in Artifact,
                        NEW f, f = destination'[v][a], f # NoFile, ~Referring(f, a)'
                 PROVE  references[f.connection][a].version = f.version
    BY <1>2 DEF ReferencesFollowTheFiles
  <2>2. ~(v = p /\ a = b)
    BY <1>n, <1>5, <1>9, <1>10, <1>11, <2>1 DEF Referring
  <2>3. f = destination[v][a] /\ ~Referring(f, a)
    BY <1>2, <1>9, <1>11, <2>1, <2>2 DEF Referring
  <2>4. QED
    BY <2>1, <2>3 DEF IInv, ReferencesFollowTheFiles
<1>18. LandedIsRecorded'
  <2>1. SUFFICES ASSUME NEW v \in Provider, NEW a \in Artifact,
                        NEW k, k = destination'[v][a].publish, k # 0,
                        \A w \in Publisher : job'[w].publish # k
                 PROVE  a \in records[k].landed
    BY <1>2 DEF LandedIsRecorded
  <2>2. \A w \in Publisher : job'[w].publish = job[w].publish
    BY <1>n, <1>5, <1>11
  <2>3. ~(v = p /\ a = b)
    BY <1>5, <1>9, <1>10, <1>11, <2>1
  <2>4. k = destination[v][a].publish
    BY <1>9, <2>1, <2>3
  <2>5. \A w \in Publisher : job[w].publish # k
    BY <2>1, <2>2
  <2>6. LandedIsRecorded
    BY DEF IInv
  <2>7. QED
    BY ONLY <2>1, <2>4, <2>5, <2>6 DEF LandedIsRecorded
<1>19. QED
  BY <1>12, <1>13, <1>14, <1>16, <1>17, <1>18 DEF IInv
\* The reference written is the one of the file put last; the file is as it was
\* put, and no other file is what the publisher was about to refer to.
LEMMA UpsertReferenceStep ==
    ASSUME IInv, NEW u \in Publisher, UpsertReference(u)
    PROVE  IInv'
<1>1. /\ pc[u] = "reference" /\ pc' = [pc EXCEPT ![u] = "put"]
      /\ job' = [job EXCEPT ![u].current = <<>>]
      /\ connections' = connections /\ untracking' = untracking /\ records' = records
      /\ held' = held /\ version' = version /\ publishes' = publishes
      /\ destination' = destination
  BY DEF UpsertReference, At
<1>n. PICK a, x, n, k, p : /\ a = job[u].current[1] /\ x = job[u].connection
                          /\ n = job[u].publish /\ k = job[u].current[2]
                          /\ p = connections[x].provider
  OBVIOUS
<1>2. PICK mark : references' = [references EXCEPT ![x][a] = [version |-> k, tracked |-> mark]]
                  /\ mark \in BOOLEAN
  <2>1. references' = [references EXCEPT ![x][a] =
               [version |-> k, tracked |-> @ = NoReference \/ @.tracked]]
    BY <1>n DEF UpsertReference
  <2>2. (references[x][a] = NoReference \/ references[x][a].tracked) \in BOOLEAN
    BY Zenon
  <2>3. QED
    BY <2>1, <2>2
<1>3. /\ job[u] \in Job /\ x \in 1..Len(connections) /\ a \in Artifact /\ k \in Nat
      /\ destination[p][a] = [version |-> k, connection |-> x, publish |-> n]
      /\ n \in 1..publishes /\ publishes \in Nat
      /\ job[u].current \in Artifact \X Nat
  BY <1>n, <1>1, UnderWay DEF JobFits
<1>4. p \in Provider /\ x \in 1..MaxConnections
  BY <1>n, <1>3, ConnectionRows, BoundsAssumption DEF IInv, Typed, Connection
<1>5. k \in 0..MaxVersion
  <2>1. destination[p][a].version \in 0..MaxVersion /\ destination[p][a].version = k
    BY <1>3, <1>4 DEF IInv, Typed, TypeOK
  <2>2. QED
    BY <2>1
<1>j. PICK j : j = [job[u] EXCEPT !.current = <<>>]
  OBVIOUS
<1>6. /\ j \in Job /\ j.project = job[u].project /\ j.publish = n
      /\ j.landed = job[u].landed /\ j.connection = x /\ j.listed = job[u].listed
  BY <1>j, <1>n, <1>3 DEF Job
<1>7. /\ pc'[u] = "put" /\ job'[u] = j /\ job' = [job EXCEPT ![u] = j]
      /\ \A w \in Publisher \ {u} : pc'[w] = pc[w] /\ job'[w] = job[w]
  BY <1>j, <1>1 DEF IInv, Typed
<1>8. /\ references' \in [1..MaxConnections -> [Artifact -> [version: 0..MaxVersion, tracked: BOOLEAN]]]
      /\ references'[x][a].version = k
      /\ \A c \in 1..MaxConnections, b \in Artifact :
            c # x \/ b # a => references'[c][b] = references[c][b]
  BY <1>2, <1>3, <1>4, <1>5 DEF IInv, Typed, TypeOK
<1>9. Typed'
  <2>1. pc' \in [Publisher -> Step] /\ job' \in [Publisher -> Job]
    BY <1>1, <1>6, <1>7 DEF IInv, Typed, Step
  <2>2. \A w \in Publisher :
          /\ pc'[w] # "idle" => job'[w].publish \in 1..publishes /\ job'[w].project \in held
          /\ \A f \in job'[w].listed :
                 ProjectOf[f[1]] = job'[w].project /\ f[2] \in 1..version[f[1]]
    <3>1. ASSUME NEW w \in Publisher
          PROVE  /\ job'[w].publish = job[w].publish /\ job'[w].project = job[w].project
                 /\ job'[w].listed = job[w].listed /\ (pc'[w] # "idle" => pc[w] # "idle")
      BY <1>n, <1>1, <1>6, <1>7
    <3>2. QED
      BY <3>1, UnderWay, ListedFits
  <2>3. QED
    BY <1>1, <1>8, <2>1, <2>2 DEF IInv, Typed, TypeOK
<1>10. JobsFit'
  <2>1. ASSUME NEW w \in Publisher, w # u PROVE JobFits(pc[w], job[w])'
    BY <1>1, <1>7, <2>1 DEF IInv, JobsFit, JobFits
  <2>2. JobFits(pc[u], job[u])'
    BY <1>1, <1>3, <1>6, <1>7 DEF JobFits
  <2>3. QED
    BY <2>1, <2>2 DEF JobsFit
<1>11. Apart'
  BY <1>n, <1>1, <1>6, <1>7 DEF IInv, Apart
<1>12. FilesFit'
  <2>1. SUFFICES ASSUME NEW v \in Provider, NEW b \in Artifact PROVE FileFits(v, b)'
    BY DEF FilesFit
  <2>2. FileFits(v, b)
    BY DEF IInv, FilesFit
  <2>3. ASSUME NEW w \in Publisher
        PROVE  /\ job'[w].publish = job[w].publish /\ job'[w].connection = job[w].connection
               /\ job'[w].landed = job[w].landed /\ (pc'[w] # "idle" => pc[w] # "idle")
               /\ (pc'[w] = "release" => pc[w] = "release")
    BY <1>n, <1>1, <1>6, <1>7
  <2>4. QED
    BY <1>1, <2>2, <2>3 DEF FileFits
<1>13. ReferencesFollowTheFiles'
  <2>1. SUFFICES ASSUME NEW v \in Provider, NEW b \in Artifact,
                        NEW f, f = destination[v][b], f # NoFile, ~Referring(f, b)'
                 PROVE  references'[f.connection][b].version = f.version
    BY <1>1 DEF ReferencesFollowTheFiles
  <2>2. /\ f.connection \in 1..MaxConnections /\ connections[f.connection].provider = v
        /\ f.publish = n => f.connection = x
    <3>1. FileFits(v, b)
      BY DEF IInv, FilesFit
    <3>2. pc[u] # "idle" /\ job[u].publish = n /\ job[u].connection = x
      BY <1>n, <1>1
    <3>3. /\ f.connection \in 1..Len(connections) /\ connections[f.connection].provider = v
          /\ f.publish = n => f.connection = x
      BY <2>1, <3>1, <3>2 DEF FileFits
    <3>4. QED
      BY <3>3, ConnectionRows, BoundsAssumption DEF IInv, Typed
  <2>3. CASE f.connection = x /\ b = a
    <3>1. f = destination[p][a] /\ f.version = k
      BY <1>n, <1>3, <2>1, <2>2, <2>3
    <3>2. QED
      BY <1>8, <2>3, <3>1
  <2>4. CASE ~(f.connection = x /\ b = a)
    <3>1. ~Referring(f, b)
      <4>1. SUFFICES ASSUME NEW w \in Publisher, pc[w] = "reference",
                            job[w].publish = f.publish, job[w].current[1] = b
                     PROVE  FALSE
        BY DEF Referring
      <4>2. w = u
        BY <1>7, <2>1, <4>1 DEF Referring
      <4>3. QED
        BY <1>n, <2>2, <2>4, <4>1, <4>2
    <3>2. references[f.connection][b].version = f.version
      BY <2>1, <3>1 DEF IInv, ReferencesFollowTheFiles
    <3>3. QED
      BY <1>8, <2>2, <2>4, <3>2
  <2>5. QED
    BY <2>3, <2>4
<1>14. LandedIsRecorded'
  <2>1. \A w \in Publisher : job'[w].publish = job[w].publish
    BY <1>n, <1>6, <1>7
  <2>2. QED
    BY <1>1, <2>1 DEF IInv, LandedIsRecorded
<1>15. QED
  BY <1>9, <1>10, <1>11, <1>12, <1>13, <1>14 DEF IInv

\* The record is the publish's own, and names what landed.
LEMMA WriteRecordStep ==
    ASSUME IInv, NEW u \in Publisher, RecordUnauthorised(u) \/ CreateRecord(u)
    PROVE  IInv'
<1>1. /\ pc[u] \in {"unauthorised", "put"} /\ pc' = [pc EXCEPT ![u] = "release"]
      /\ job' = job
      /\ connections' = connections /\ untracking' = untracking
      /\ references' = references
      /\ held' = held /\ version' = version /\ publishes' = publishes
      /\ destination' = destination
  BY DEF RecordUnauthorised, CreateRecord, At
<1>n. PICK n, L : n = job[u].publish /\ L = job[u].landed
  OBVIOUS
<1>2. PICK st \in {"succeeded", "partial", "failed"} :
          records' = [records EXCEPT ![n] = [state |-> st, landed |-> L]]
  BY <1>n DEF RecordUnauthorised, CreateRecord, Write, StateOf
<1>3. /\ n \in 1..publishes /\ n \in 1..MaxPublishes /\ L \subseteq Artifact
      /\ JobFits(pc[u], job[u])
  BY <1>n, <1>1, UnderWay DEF Job
<1>4. /\ pc'[u] = "release" /\ \A w \in Publisher \ {u} : pc'[w] = pc[w]
      /\ \A w \in Publisher : pc'[w] # "idle" => pc[w] # "idle"
  BY <1>1 DEF IInv, Typed
<1>5. /\ records' \in [1..MaxPublishes -> [state: {"none", "succeeded", "partial", "failed"},
                                          landed: SUBSET Artifact]]
      /\ records'[n].landed = L
      /\ \A m \in 1..MaxPublishes : m # n => records'[m] = records[m]
  BY <1>2, <1>3 DEF IInv, Typed, TypeOK
<1>6. Typed'
  <2>1. pc' \in [Publisher -> Step]
    BY <1>1 DEF IInv, Typed, Step
  <2>2. \A w \in Publisher :
          /\ pc'[w] # "idle" => job[w].publish \in 1..publishes /\ job[w].project \in held
          /\ \A f \in job[w].listed :
                 ProjectOf[f[1]] = job[w].project /\ f[2] \in 1..version[f[1]]
    BY <1>4, UnderWay, ListedFits
  <2>3. QED
    BY <1>1, <1>5, <2>1, <2>2 DEF IInv, Typed, TypeOK
<1>7. JobsFit'
  <2>1. ASSUME NEW w \in Publisher, w # u PROVE JobFits(pc[w], job[w])'
    BY <1>1, <1>4, <2>1 DEF IInv, JobsFit, JobFits
  <2>2. JobFits(pc[u], job[u])'
    BY <1>4 DEF JobFits
  <2>3. QED
    BY <2>1, <2>2 DEF JobsFit
<1>8. Apart'
  BY <1>1, <1>4 DEF IInv, Apart
<1>9. \A v \in Provider, a \in Artifact : destination[v][a].publish = n => a \in L
  BY <1>n, <1>1 DEF IInv, FilesFit, FileFits
<1>10. FilesFit'
  <2>1. SUFFICES ASSUME NEW v \in Provider, NEW a \in Artifact PROVE FileFits(v, a)'
    BY DEF FilesFit
  <2>2. FileFits(v, a)
    BY DEF IInv, FilesFit
  <2>3. ASSUME NEW w \in Publisher, pc'[w] = "release", job[w].publish = destination[v][a].publish
        PROVE  a \in records'[destination[v][a].publish].landed
    <3>1. CASE destination[v][a].publish = n
      BY <1>5, <1>9, <3>1
    <3>2. CASE destination[v][a].publish # n
      <4>1. w # u /\ pc[w] = "release"
        BY <1>n, <1>4, <2>3, <3>2
      <4>2. destination[v][a].publish \in 1..MaxPublishes
        BY <2>3, <4>1, UnderWay
      <4>3. a \in records[destination[v][a].publish].landed
        BY <2>2, <2>3, <4>1 DEF FileFits
      <4>4. QED
        BY <1>5, <3>2, <4>2, <4>3
    <3>3. QED
      BY <3>1, <3>2
  <2>4. QED
    BY <1>1, <1>4, <2>2, <2>3 DEF FileFits
<1>11. ReferencesFollowTheFiles'
  <2>1. \A f, a : Referring(f, a)' <=> Referring(f, a)
    BY <1>1, <1>4 DEF Referring
  <2>2. QED
    BY <1>1, <2>1 DEF IInv, ReferencesFollowTheFiles
<1>12. LandedIsRecorded'
  <2>1. SUFFICES ASSUME NEW v \in Provider, NEW a \in Artifact,
                        NEW m, m = destination[v][a].publish, m # 0,
                        \A w \in Publisher : job[w].publish # m
                 PROVE  a \in records'[m].landed
    BY <1>1 DEF LandedIsRecorded
  <2>2. m # n
    BY <1>n, <2>1
  <2>3. m \in 1..MaxPublishes
    <3>1. m \in 0..publishes /\ publishes \in 0..MaxPublishes
      BY <2>1 DEF IInv, Typed, TypeOK
    <3>2. QED
      BY <2>1, <3>1, BoundsAssumption
  <2>4. a \in records[m].landed
    BY <2>1 DEF IInv, LandedIsRecorded
  <2>5. QED
    BY <1>5, <2>2, <2>3, <2>4
<1>13. QED
  BY <1>6, <1>7, <1>8, <1>10, <1>11, <1>12 DEF IInv
----------------------------------------------------------------------------
\* Administrators and authors

\* Connections may be added and changed as long as those there are stay where
\* they are, connected to the provider they were connected to.
LEMMA ConnectionsStep ==
    ASSUME IInv, connections' \in Seq(Connection),
           Len(connections) <= Len(connections'), Len(connections') <= MaxConnections,
           \A c \in 1..Len(connections) : connections'[c].provider = connections[c].provider,
           untracking' \subseteq DOMAIN connections',
           UNCHANGED <<references, records, held, version, destination, publishes, pc, job>>
    PROVE  IInv'
<1>1. Len(connections) \in Nat /\ Len(connections') \in Nat
  BY ConnectionRows, LenProperties DEF IInv
<1>2. 0..Len(connections) \subseteq 0..Len(connections')
      /\ 1..Len(connections) \subseteq 1..Len(connections')
  BY <1>1
<1>3. Typed'
  <2>1. destination \in [Provider -> [Artifact -> [version: 0..MaxVersion,
            connection: 0..Len(connections'), publish: 0..publishes]]]
    BY <1>2 DEF IInv, Typed, TypeOK
  <2>2. QED
    BY <2>1 DEF IInv, Typed, TypeOK, Connection
<1>4. JobsFit'
  <2>1. SUFFICES ASSUME NEW w \in Publisher PROVE JobFits(pc[w], job[w])'
    BY DEF JobsFit
  <2>2. JobFits(pc[w], job[w])
    BY DEF IInv, JobsFit
  <2>3. QED
    BY <1>2, <2>2 DEF JobFits
<1>5. FilesFit'
  <2>1. SUFFICES ASSUME NEW v \in Provider, NEW a \in Artifact PROVE FileFits(v, a)'
    BY DEF FilesFit
  <2>2. FileFits(v, a)
    BY DEF IInv, FilesFit
  <2>3. QED
    BY <1>2, <2>2 DEF FileFits
<1>6. Apart' /\ ReferencesFollowTheFiles' /\ LandedIsRecorded'
  BY DEF IInv, Apart, ReferencesFollowTheFiles, Referring, LandedIsRecorded
<1>7. QED
  BY <1>3, <1>4, <1>5, <1>6 DEF IInv

\* A new connection comes after those that are there.
LEMMA ConnectStep ==
    ASSUME IInv, NEW v \in Provider, NEW token \in BOOLEAN, Connect(v, token)
    PROVE  IInv'
<1> DEFINE c == [provider |-> v, token |-> token, disconnected |-> FALSE]
<1>1. c \in Connection
  BY DEF Connection
<1>2. connections' = Append(connections, c) /\ Len(connections) < MaxConnections
  BY DEF Connect
<1> HIDE DEF c
<1>3. connections \in Seq(Connection) /\ Len(connections) \in Nat
      /\ DOMAIN connections = 1..Len(connections)
  BY ConnectionRows DEF IInv
<1>4. /\ connections' \in Seq(Connection) /\ Len(connections') = Len(connections) + 1
      /\ \A d \in 1..Len(connections) : connections'[d] = connections[d]
  BY <1>1, <1>2, <1>3, AppendProperties
<1>5. Len(connections) <= Len(connections') /\ Len(connections') <= MaxConnections
  BY <1>2, <1>3, <1>4, BoundsAssumption
<1>6. DOMAIN connections' = 1..Len(connections')
  BY <1>4, LenProperties
<1>7. untracking' \subseteq DOMAIN connections'
  <2>1. untracking' \subseteq 1..Len(connections)
    BY <1>3 DEF Connect, IInv, Typed, TypeOK
  <2>2. QED
    BY <1>3, <1>4, <1>6, <2>1
<1>8. UNCHANGED <<references, records, held, version, destination, publishes, pc, job>>
  BY DEF Connect
<1>9. QED
  BY <1>4, <1>5, <1>7, <1>8, ConnectionsStep

\* A disconnected connection stays a row of its provider.
LEMMA DisconnectStep ==
    ASSUME IInv, NEW c \in DOMAIN connections, Disconnect(c)
    PROVE  IInv'
<1>1. /\ connections \in Seq(Connection) /\ Len(connections) \in Nat
      /\ connections \in [1..Len(connections) -> Connection]
      /\ DOMAIN connections = 1..Len(connections)
  BY ConnectionRows DEF IInv
<1>2. PICK d : d = [provider |-> connections[c].provider, token |-> FALSE, disconnected |-> TRUE]
  OBVIOUS
<1>3. connections[c] \in Connection /\ d \in Connection /\ d.provider = connections[c].provider
  BY <1>1, <1>2 DEF Connection
<1>4. connections' = [connections EXCEPT ![c] = d]
  BY <1>1, <1>2, <1>3 DEF Disconnect, Connection
<1>5. /\ connections' \in Seq(Connection) /\ Len(connections') = Len(connections)
      /\ \A e \in 1..Len(connections) : connections'[e] = IF e = c THEN d ELSE connections[e]
  BY <1>1, <1>3, <1>4, ExceptSeq
<1>6. DOMAIN connections' = 1..Len(connections')
  BY <1>5, LenProperties
<1>7. untracking' \subseteq DOMAIN connections'
  BY <1>1, <1>5, <1>6 DEF Disconnect, IInv, Typed, TypeOK
<1>8. \A e \in 1..Len(connections) : connections'[e].provider = connections[e].provider
  BY <1>3, <1>5
<1>9. /\ Len(connections) <= Len(connections') /\ Len(connections') <= MaxConnections
      /\ UNCHANGED <<references, records, held, version, destination, publishes, pc, job>>
  BY <1>1, <1>5 DEF Disconnect, IInv, Typed
<1>10. QED
  BY <1>5, <1>7, <1>8, <1>9, ConnectionsStep

\* Untracking changes marks, not versions.
LEMMA MarkAllUntrackedStep ==
    ASSUME IInv, NEW c \in untracking, MarkAllUntracked(c)
    PROVE  IInv'
<1>1. /\ references' = [references EXCEPT ![c] = [a \in Artifact |-> [@[a] EXCEPT !.tracked = FALSE]]]
      /\ untracking' \subseteq untracking
      /\ connections' = connections /\ records' = records
      /\ held' = held /\ version' = version /\ publishes' = publishes
      /\ destination' = destination /\ pc' = pc /\ job' = job
  BY DEF MarkAllUntracked
<1>2. c \in 1..MaxConnections
  <2>1. c \in 1..Len(connections) /\ Len(connections) \in Nat
    BY ConnectionRows DEF IInv, Typed, TypeOK
  <2>2. QED
    BY <2>1, BoundsAssumption DEF IInv, Typed
<1>3. /\ references' \in [1..MaxConnections -> [Artifact -> [version: 0..MaxVersion, tracked: BOOLEAN]]]
      /\ \A d \in 1..MaxConnections, a \in Artifact :
            references'[d][a].version = references[d][a].version
  <2> DEFINE Reference == [version: 0..MaxVersion, tracked: BOOLEAN]
  <2>1. references \in [1..MaxConnections -> [Artifact -> Reference]]
    BY DEF IInv, Typed, TypeOK
  <2>2. PICK g : g = [a \in Artifact |-> [references[c][a] EXCEPT !.tracked = FALSE]]
    OBVIOUS
  <2>3. references' = [references EXCEPT ![c] = g]
    BY <1>1, <2>2
  <2>4. \A a \in Artifact : references[c][a] \in Reference
    BY <1>2, <2>1
  <2>5. g \in [Artifact -> Reference] /\ \A a \in Artifact : g[a].version = references[c][a].version
    BY <2>2, <2>4
  <2>6. QED
    BY <1>2, <2>1, <2>3, <2>5
<1>4. Typed'
  BY <1>1, <1>3 DEF IInv, Typed, TypeOK
<1>5. JobsFit' /\ Apart' /\ LandedIsRecorded'
  BY <1>1 DEF IInv, JobsFit, JobFits, Apart, LandedIsRecorded
<1>6. FilesFit'
  BY <1>1 DEF IInv, FilesFit, FileFits
<1>7. ReferencesFollowTheFiles'
  <2>1. SUFFICES ASSUME NEW v \in Provider, NEW a \in Artifact,
                        NEW f, f = destination[v][a], f # NoFile, ~Referring(f, a)
                 PROVE  references'[f.connection][a].version = f.version
    BY <1>1 DEF ReferencesFollowTheFiles, Referring
  <2>2. f.connection \in 1..Len(connections)
    BY <2>1 DEF IInv, FilesFit, FileFits
  <2>3. f.connection \in 1..MaxConnections
    BY <2>2, ConnectionRows, BoundsAssumption DEF IInv, Typed
  <2>4. QED
    BY <1>3, <2>1, <2>3 DEF IInv, ReferencesFollowTheFiles
<1>8. QED
  BY <1>4, <1>5, <1>6, <1>7 DEF IInv

\* An edit makes a new version; what was listed keeps the one it was listed at.
LEMMA EditStep ==
    ASSUME IInv, NEW a \in Artifact, Edit(a)
    PROVE  IInv'
<1>1. /\ version' = [version EXCEPT ![a] = version[a] + 1] /\ version[a] < MaxVersion
      /\ UNCHANGED <<stored, held, destination, publishes, pc, job>>
  BY DEF Edit
<1>2. /\ version' \in [Artifact -> 1..MaxVersion]
      /\ \A b \in Artifact : 1..version[b] \subseteq 1..version'[b]
  BY <1>1, BoundsAssumption DEF IInv, Typed, TypeOK
<1>3. \A w \in Publisher : \A f \in job[w].listed : f[2] \in 1..version'[f[1]]
  <2>1. \A w \in Publisher : \A f \in job[w].listed : f[1] \in Artifact
    BY DEF IInv, Typed, Job
  <2>2. QED
    BY <1>2, <2>1, ListedFits
<1>4. Typed'
  BY <1>1, <1>2, <1>3 DEF IInv, Typed, TypeOK, stored
<1>5. JobsFit' /\ Apart' /\ LandedIsRecorded'
  BY <1>1 DEF IInv, JobsFit, JobFits, Apart, LandedIsRecorded, stored
<1>6. FilesFit' /\ ReferencesFollowTheFiles'
  BY <1>1 DEF IInv, FilesFit, FileFits, ReferencesFollowTheFiles, Referring, stored
<1>7. QED
  BY <1>4, <1>5, <1>6 DEF IInv
----------------------------------------------------------------------------
\* Theorems

\* With nothing connected, sent and recorded, the inductive invariant holds.
LEMMA InitInvariant == Init => IInv
<1> SUFFICES ASSUME Init PROVE IInv
  OBVIOUS
<1>1. /\ connections \in Seq(Connection) /\ Len(connections) = 0
      /\ DOMAIN connections = 1..0
  BY EmptySeq, LenProperties DEF Init
<1>2. NoJob \in Job /\ NoJob.listed = {} /\ NoFile.publish = 0
  BY DEF NoJob, Job, NoFile
<1>3. Typed
  <2>1. TypeOK
    BY <1>1, <1>2, BoundsAssumption
       DEF Init, TypeOK, NoFile, NoReference, NoRecord, Connection
  <2>2. Len(connections) <= MaxConnections
    BY <1>1, BoundsAssumption
  <2>3. QED
    BY <1>2, <2>1, <2>2 DEF Init, Typed, Step
<1>4. JobsFit /\ Apart
  BY DEF Init, JobsFit, JobFits, Apart, NoJob
<1>5. FilesFit /\ ReferencesFollowTheFiles /\ LandedIsRecorded
  BY <1>2 DEF Init, FilesFit, FileFits, ReferencesFollowTheFiles, LandedIsRecorded
<1>6. QED
  BY <1>3, <1>4, <1>5 DEF IInv

\* Every step of a publisher, of an administrator and of an author keeps it.
LEMMA NextInvariant == IInv /\ [Next]_vars => IInv'
<1> SUFFICES ASSUME IInv, [Next]_vars PROVE IInv'
  OBVIOUS
<1>1. CASE UNCHANGED vars
  BY <1>1 DEF vars, stored, IInv, Typed, TypeOK, JobsFit, JobFits, Apart, FilesFit,
     FileFits, ReferencesFollowTheFiles, Referring, LandedIsRecorded
<1>2. ASSUME NEW u \in Publisher, Acquire(u) \/ Prevent(u) \/ PublishStep(u)
      PROVE  IInv'
  <2>1. CASE Acquire(u)
    BY <2>1, AcquireStep
  <2>2. CASE Prevent(u)
    BY <1>1, <2>2 DEF Prevent
  <2>3. CASE PublishStep(u)
    <3>1. CASE CanRead(u)
      BY <3>1, GoOnStep, ChooseStep
    <3>2. CASE ~CanRead(u)
      BY <2>3, <3>2, ActiveConnectionStep, GoOnStep, ChooseStep, WriteRecordStep,
         PutFileStep, UpsertReferenceStep, ReleaseStep DEF PublishStep
    <3>3. QED
      BY <3>1, <3>2
  <2>4. QED
    BY <1>2, <2>1, <2>2, <2>3
<1>3. QED
  BY <1>1, <1>2, ConnectStep, DisconnectStep, MarkAllUntrackedStep, EditStep DEF Next

\* The inductive invariant holds of every behaviour, for any number of projects,
\* artifacts, providers and requests.
THEOREM Invariance == Spec => []IInv
  BY InitInvariant, NextInvariant, PTL DEF Spec

\* However publishes are let in, refused, fail and end, no two requests publish
\* one project at a time, and every variable keeps its type (the lock of run).
THEOREM OneAtATime == Spec => []OnePublishPerProject
<1>1. IInv => OnePublishPerProject
  BY DEF IInv, Typed, Apart, OnePublishPerProject
<1>2. QED
  BY <1>1, Invariance, PTL

\* What the platform says it has published is what the connection put last,
\* whatever was edited, connected and published meanwhile (upsertReference).
THEOREM ReferencesAreTrue == Spec => []ReferencesFollowTheFiles
<1>1. IInv => ReferencesFollowTheFiles
  BY DEF IInv
<1>2. QED
  BY <1>1, Invariance, PTL

\* A publish that is over has left a record of every file it put (run).
THEOREM RecordsAreComplete == Spec => []LandedIsRecorded
<1>1. IInv => LandedIsRecorded
  BY DEF IInv
<1>2. QED
  BY <1>1, Invariance, PTL
-----------------------------------------------------------------------------
(* The task board. *)


SyncRow == [exec: Execution, file: File, outOfBand: BOOLEAN]
Decided == [p: Proposal, way: {"first", "second"}, verdict: Verdict, at: Nat]
Asking == [p: Proposal \cup {NoOne}, by: Actor \cup {NoOne},
           way: {"first", "second", "replay"}, at: Nat,
           out: Verdict \cup {"none", "declined"}]

\* The types, those of the handlers' memory included.
BoardTyped ==
    /\ card \in [Task -> Card \cup {NoCard}]
    /\ syncs \in Seq(SyncRow)
    /\ reported \subseteq Execution \X Task
    /\ proposals \subseteq Proposal
    /\ verdicts \subseteq Decided
    /\ \A v \in verdicts : v.at \in 1..clock
    /\ strict \in BOOLEAN
    /\ clock \in Nat
    /\ spc \in [Syncer -> SyncPc]
    /\ want \in [Syncer -> {<<>>} \cup Execution \X File]
    /\ seen \in [Syncer -> [Task -> Card \cup {NoCard}]]
    /\ line \in [Syncer -> Nat \ {0}]
    /\ latest \in [Syncer -> Nat]
    /\ \A r \in Syncer : latest[r] \in 0..Len(syncs)
    /\ todo \in [Syncer -> SUBSET Task]
    /\ ppc \in [Handler -> PersonPc]
    /\ req \in [Handler -> Asking]
    /\ view \in [Handler -> Status \cup {"none"}]
    /\ due \subseteq Task
    /\ marked \in File \cup {"none"}
    /\ crashes \in 0..MaxCrashes

\* A sync has a file from its start on, has written the lines it passed, and
\* applies reports to cards that exist.
SyncFits(r) ==
    /\ spc[r] # "idle" => want[r] \in Execution \X File
    /\ spc[r] = "upsert" => \A i \in DOMAIN Line[want[r][2]] :
                                i < line[r] => card[Line[want[r][2]][i].task] # NoCard
    /\ \A t \in todo[r] : card[t] # NoCard

\* A handler moves an existing card as one person asked and, where that is
\* required, another approved.
PersonFits(h) ==
    LET q == req[h] IN
    /\ ppc[h] \in {"propose", "look", "apply", "settle"} => q.p \in Proposal
    /\ ppc[h] \in {"propose", "look", "apply"} => card[q.p.task] # NoCard
    /\ ppc[h] \in {"look", "apply", "settle"} => q.at \in 1..clock /\ q.p \in proposals
    /\ ppc[h] = "settle" => q.out \in Verdict
    /\ ppc[h] \in {"look", "apply"} =>
           q.p.actor \in People /\ (strict => q.by \in People \ {q.p.actor})
    /\ ppc[h] = "settle" /\ q.out = "approval_required" => q.p.actor \in People

\* Proposals are about existing cards, and wait for an approver only when a
\* person made them.
ProposalsFit ==
    /\ \A p \in proposals : card[p.task] # NoCard
    /\ \A v \in verdicts : v.p \in proposals
    /\ \A v \in verdicts : v.verdict = "approval_required" => v.p.actor \in People

\* Somebody who may asked for this status of the card.
Asked(t, s) ==
    \E m \in moves : /\ m.p.task = t /\ m.p.to = s /\ m.p.actor \in People
                     /\ strict => m.by \in People \ {m.p.actor}

Chosen(t, c) == c.status \in {"in_progress", "blocked"} => Asked(t, c.status)

\* That is so of the cards, and of what syncs have read of them.
CardsChosen ==
    /\ \A t \in Task : Chosen(t, card[t])
    /\ \A r \in Syncer, t \in Task : Chosen(t, seen[r][t])

\* The cards of the file marked last are present; any other that is present was
\* written since, by a sync that is yet to mark.
MarksFit ==
    marked \in File =>
        /\ \A t \in KeysOf(marked) : card[t].present
        /\ \A t \in Task \ KeysOf(marked) : card[t].present =>
               \E r \in Syncer : spc[r] = "upsert" /\ t \in KeysOf(want[r][2])

\* A sync that will still apply the report of t.
WillApply(r, t) ==
    \/ spc[r] \in {"upsert", "latest", "record", "apply"}
    \/ spc[r] = "applying" /\ t \in todo[r]

\* A card a report has reached is done, unless a sync that may have rewritten it
\* is yet to apply the report.
DuesFit ==
    \A t \in due : /\ t \in ReportedTasks /\ card[t] # NoCard
                   /\ card[t].status = "done" \/ \E r \in Syncer : WillApply(r, t)

BoardInv ==
    /\ BoardTyped
    /\ \A r \in Syncer : SyncFits(r)
    /\ \A h \in Handler : PersonFits(h)
    /\ ProposalsFit
    /\ CardsChosen
    /\ crashes = 0 => MarksFit /\ DuesFit

\* Lines hold tasks, and the keys of a file are those of its lines.
LEMMA LinesTyped ==
    ASSUME NEW f \in File
    PROVE  /\ \A i \in DOMAIN Line[f] : /\ Line[f][i].task \in Task
                                        /\ Line[f][i].checked \in BOOLEAN
           /\ KeysOf(f) \subseteq Task /\ Len(Line[f]) \in Nat
           /\ DOMAIN Line[f] = 1..Len(Line[f])
           /\ \A t \in KeysOf(f) : \E i \in DOMAIN Line[f] : Line[f][i].task = t
<1>1. Line[f] \in Seq([task: Task, checked: BOOLEAN])
  BY LineAssumption DEF File
<1>2. DOMAIN Line[f] = 1..Len(Line[f]) /\ Len(Line[f]) \in Nat
  BY <1>1, LenProperties
<1>3. \A i \in DOMAIN Line[f] : Line[f][i] \in [task: Task, checked: BOOLEAN]
  BY <1>1, <1>2, ElementOfSeq
<1>4. QED
  BY <1>2, <1>3 DEF KeysOf

\* A blank row is no card.
LEMMA CardsTyped ==
    /\ NoCard \notin Card /\ NoCard.status = "none" /\ NoCard.present = FALSE
    /\ \A c \in Card : c.status \in Status /\ c.source \in Source /\ c.present \in BOOLEAN
<1>1. NoCard.status = "none" /\ NoCard.present = FALSE
  BY DEF NoCard
<1>2. \A c \in Card : c.status \in Status /\ c.source \in Source /\ c.present \in BOOLEAN
  BY DEF Card
<1>3. "none" \notin Status
  BY DEF Status
<1>4. QED
  BY <1>1, <1>2, <1>3

\* What a line makes of a card is a card that is present, and in the middle only
\* if it was.
LEMMA Reconciled ==
    ASSUME NEW c \in Card \cup {NoCard}, NEW b \in BOOLEAN
    PROVE  LET d == reconcile(c, b) IN
           /\ d \in Card /\ d.present
           /\ d.status \in {"in_progress", "blocked"} => d.status = c.status
<1>1. CASE ~b /\ isManualMiddleState(c)
  <2>1. reconcile(c, b) = [status |-> c.status, source |-> "proposal", present |-> TRUE]
    BY <1>1 DEF reconcile
  <2>2. c.status \in Status
    BY <1>1 DEF isManualMiddleState, Status
  <2>3. QED
    BY <2>1, <2>2 DEF Card, Source
<1>2. CASE ~(~b /\ isManualMiddleState(c))
  <2>1. reconcile(c, b) = [status |-> IF b THEN "done" ELSE "not_started",
                           source |-> "parse", present |-> TRUE]
    BY <1>2 DEF reconcile
  <2>2. QED
    BY <2>1 DEF Card, Source, Status
<1>3. QED
  BY <1>1, <1>2

\* A status written to a card keeps its flag.
LEMMA Rewritten ==
    ASSUME BoardTyped, NEW t \in Task, card[t] # NoCard, NEW s \in Status, NEW w \in Source,
           card' = [card EXCEPT ![t].status = s, ![t].source = w]
    PROVE  /\ card' \in [Task -> Card \cup {NoCard}]
           /\ card'[t] \in Card /\ card'[t].status = s /\ card'[t].present = card[t].present
           /\ \A x \in Task : x # t => card'[x] = card[x]
<1> DEFINE one == [card[t] EXCEPT !.status = s]
           c == [one EXCEPT !.source = w]
<1>1. card \in [Task -> Card \cup {NoCard}] /\ card[t] \in Card
  BY DEF BoardTyped
<1>2. one \in Card /\ one.status = s /\ one.present = card[t].present
  BY <1>1 DEF Card
<1>3. c \in Card /\ c.status = s /\ c.present = card[t].present
  <2> HIDE DEF one
  <2>1. QED
    BY <1>2 DEF Card
<1>4. card' = [card EXCEPT ![t] = c]
  BY <1>1
<1> HIDE DEF c
<1>5. QED
  BY <1>1, <1>3, <1>4

\* No card is taken back.
CardsRemain == \A t \in Task : card[t] # NoCard => card'[t] # NoCard

\* A sync that does not move fits as before.
LEMMA SyncerKept ==
    ASSUME BoardTyped, NEW r \in Syncer, SyncFits(r), CardsRemain,
           spc'[r] = spc[r], want'[r] = want[r], line'[r] = line[r], todo'[r] = todo[r]
    PROVE  SyncFits(r)'
<1>1. todo[r] \subseteq Task
  BY DEF BoardTyped
<1>2. spc[r] = "upsert" => \A i \in DOMAIN Line[want[r][2]] : Line[want[r][2]][i].task \in Task
  <2>1. spc[r] = "upsert" => want[r][2] \in File
    BY DEF SyncFits
  <2>2. QED
    BY <2>1, LinesTyped
<1>3. QED
  BY <1>1, <1>2 DEF SyncFits, CardsRemain

\* A person's handler that does not move fits as before.
LEMMA PersonKept ==
    ASSUME BoardTyped, NEW h \in Handler, PersonFits(h), CardsRemain,
           ppc'[h] = ppc[h], req'[h] = req[h], strict' = strict,
           clock' \in Nat, clock <= clock', proposals \subseteq proposals'
    PROVE  PersonFits(h)'
<1>1. ppc[h] \in {"propose", "look", "apply", "settle"} => req[h].p.task \in Task
  BY DEF PersonFits, Proposal
<1>2. clock \in Nat
  BY DEF BoardTyped
<1>3. \A n \in 1..clock : n \in 1..clock'
  BY <1>2
<1>4. QED
  BY <1>1, <1>3 DEF PersonFits, CardsRemain

\* Proposals and verdicts that stand fit as before.
LEMMA ProposalsKept ==
    ASSUME BoardTyped, ProposalsFit, CardsRemain, proposals' = proposals, verdicts' = verdicts
    PROVE  ProposalsFit'
<1>1. \A p \in proposals : p.task \in Task
  BY DEF BoardTyped, Proposal
<1>2. QED
  BY <1>1 DEF ProposalsFit, CardsRemain

\* What has been asked for stays so.
LEMMA ChosenKept ==
    ASSUME CardsChosen, moves \subseteq moves', strict' = strict,
           \A t \in Task : \/ card'[t].status = card[t].status
                           \/ \E r \in Syncer : card'[t].status = seen[r][t].status
                           \/ card'[t].status \in {"not_started", "done"}
                           \/ \E s \in {card'[t].status} : Asked(t, s)',
           \A r \in Syncer, t \in Task : \/ seen'[r][t] = seen[r][t]
                                         \/ seen'[r][t] = card[t]
                                         \/ seen'[r][t] = NoCard
    PROVE  CardsChosen'
<1>1. ASSUME NEW t \in Task, NEW s, Asked(t, s) PROVE Asked(t, s)'
  BY <1>1 DEF Asked
<1>2. ASSUME NEW t \in Task PROVE Chosen(t, card[t])'
  <2>1. PICK s : s = card'[t].status
    OBVIOUS
  <2>2. SUFFICES ASSUME s \in {"in_progress", "blocked"} PROVE Asked(t, s)'
    BY <2>1 DEF Chosen, Asked
  <2>3. Asked(t, s) \/ Asked(t, s)'
    BY <2>1, <2>2 DEF CardsChosen, Chosen
  <2>4. QED
    BY <1>1, <2>3
<1>3. ASSUME NEW r \in Syncer, NEW t \in Task PROVE Chosen(t, seen[r][t])'
  <2>1. PICK c : c = seen'[r][t]
    OBVIOUS
  <2>2. SUFFICES ASSUME c.status \in {"in_progress", "blocked"} PROVE Asked(t, c.status)'
    BY <2>1 DEF Chosen, Asked
  <2>3. c # NoCard
    BY <2>2, CardsTyped
  <2>4. Chosen(t, c)
    BY <2>1, <2>3 DEF CardsChosen
  <2>5. QED
    BY <1>1, <2>2, <2>4 DEF Chosen
<1>4. QED
  BY <1>2, <1>3 DEF CardsChosen

\* Marks stand while nothing is marked, shown or hidden, and no writer stops.
LEMMA MarksKept ==
    ASSUME MarksFit, marked' = marked,
           \A t \in Task : card'[t].present <=> card[t].present,
           \A r \in Syncer : spc[r] = "upsert" => spc'[r] = "upsert" /\ want'[r] = want[r]
    PROVE  MarksFit'
<1>1. marked \in File => KeysOf(marked) \subseteq Task
  BY LinesTyped
<1>2. QED
  BY <1>1 DEF MarksFit

\* Reports that are due stay so while cards that are done remain done and syncs that
\* will apply them go on.
LEMMA DuesKept ==
    ASSUME BoardTyped, DuesFit, CardsRemain, due' \subseteq due,
           ReportedTasks \subseteq ReportedTasks',
           \A t \in due' : card[t].status = "done" => card'[t].status = "done",
           \A r \in Syncer, t \in due' :
               WillApply(r, t) => WillApply(r, t)' \/ card'[t].status = "done"
    PROVE  DuesFit'
<1>1. due' \subseteq Task
  BY DEF BoardTyped
<1>2. QED
  BY <1>1 DEF DuesFit, CardsRemain

\* Reports stay found.
LEMMA ReportsStay ==
    ASSUME BoardTyped, reported \subseteq reported',
           \/ syncs' = syncs
           \/ \E s \in SyncRow : syncs' = Append(syncs, s)
    PROVE  ReportedTasks \subseteq ReportedTasks'
<1>1. \A i \in DOMAIN syncs : i \in DOMAIN syncs' /\ syncs'[i] = syncs[i]
  <2>1. CASE syncs' = syncs
    BY <2>1
  <2>2. ASSUME NEW s \in SyncRow, syncs' = Append(syncs, s)
        PROVE  \A i \in DOMAIN syncs : i \in DOMAIN syncs' /\ syncs'[i] = syncs[i]
    <3>1. /\ syncs' \in Seq(SyncRow) /\ Len(syncs') = Len(syncs) + 1
          /\ \A i \in 1..Len(syncs) : syncs'[i] = syncs[i]
      BY <2>2, AppendProperties DEF BoardTyped
    <3>2. /\ DOMAIN syncs = 1..Len(syncs) /\ DOMAIN syncs' = 1..Len(syncs')
          /\ Len(syncs) \in Nat
      BY <3>1, LenProperties DEF BoardTyped
    <3>3. QED
      BY <3>1, <3>2
  <2>3. QED
    BY <2>1, <2>2
<1>2. QED
  BY <1>1 DEF ReportedTasks

\* What syncs and reports leave to people.
LEMMA PeopleKept ==
    ASSUME BoardInv, CardsRemain,
           UNCHANGED <<ppc, req, strict, clock, proposals, verdicts>>
    PROVE  (\A h \in Handler : PersonFits(h)') /\ ProposalsFit'
<1>1. clock' \in Nat /\ clock <= clock'
  BY DEF BoardInv, BoardTyped
<1>2. \A h \in Handler : PersonFits(h)'
  BY <1>1, PersonKept DEF BoardInv
<1>3. QED
  BY <1>2, ProposalsKept DEF BoardInv

\* A step of a sync moves no other.
LEMMA OtherSyncs ==
    ASSUME BoardTyped, NEW r \in Syncer, SyncStep(r), NEW x \in Syncer \ {r}
    PROVE  /\ spc'[x] = spc[x] /\ want'[x] = want[x] /\ seen'[x] = seen[x]
           /\ line'[x] = line[x] /\ latest'[x] = latest[x] /\ todo'[x] = todo[x]
<1> USE DEF BoardTyped
<1>1. CASE SyncFind(r)
  <2>1. want' = want \/ \E k \in Request[r] : want' = [want EXCEPT ![r] = k]
    BY <1>1 DEF SyncFind
  <2>2. QED
    BY <1>1, <2>1 DEF SyncFind
<1>2. CASE SyncRead(r) \/ SyncUpsert(r) \/ MarkAbsent(r) \/ SyncLatest(r)
  BY <1>2 DEF SyncRead, SyncUpsert, MarkAbsent, SyncLatest
<1>3. CASE RecordSync(r) \/ Crash(r)
  BY <1>3 DEF RecordSync, Crash, Forget
<1>4. CASE ApplyRead(r) \/ \E t \in Task : ApplyReport(r, t)
  BY <1>4 DEF ApplyRead, ApplyReport
<1>5. QED
  BY <1>1, <1>2, <1>3, <1>4 DEF SyncStep

\* A request arrives, is read, or looks for the sync before it.
LEMMA SyncStarts ==
    ASSUME BoardInv, NEW r \in Syncer, SyncFind(r) \/ SyncRead(r) \/ SyncLatest(r)
    PROVE  BoardInv'
<1>0. BoardTyped /\ SyncStep(r)
  BY DEF BoardInv, SyncStep
<1>1. /\ UNCHANGED <<card, syncs, reported, proposals, verdicts, strict, todo, person, history>>
      /\ CardsRemain
  BY DEF SyncFind, SyncRead, SyncLatest, rows, CardsRemain
<1>2. BoardTyped' /\ SyncFits(r)'
  <2>1. CASE SyncFind(r)
    <3>1. PICK k \in Execution \X File : want' = [want EXCEPT ![r] = k]
      <4>1. CASE \E k \in Request[r] : want' = [want EXCEPT ![r] = k]
        BY <4>1, BoardBounds DEF File
      <4>2. CASE spc[r] = "again" /\ want' = want
        <5>1. want[r] \in Execution \X File
          BY <4>2 DEF BoardInv, SyncFits
        <5>2. want = [want EXCEPT ![r] = want[r]]
          BY <1>0 DEF BoardTyped
        <5>3. QED
          BY <4>2, <5>1, <5>2
      <4>3. QED
        BY <2>1, <4>1, <4>2 DEF SyncFind
    <3>2. PICK s \in {"done", "read"} : spc' = [spc EXCEPT ![r] = s]
      BY <2>1 DEF SyncFind
    <3>3. seen' = seen /\ line' = line /\ latest' = latest
      BY <2>1 DEF SyncFind
    <3>4. BoardTyped'
      BY <1>0, <1>1, <3>1, <3>2, <3>3 DEF BoardTyped, SyncPc, person, history
    <3>5. want'[r] \in Execution \X File /\ spc'[r] # "upsert"
      BY <1>0, <3>1, <3>2 DEF BoardTyped
    <3>6. QED
      BY <1>1, <3>4, <3>5 DEF BoardInv, SyncFits
  <2>2. CASE SyncRead(r)
    <3>1. /\ spc[r] = "read" /\ spc' = [spc EXCEPT ![r] = "upsert"]
          /\ seen' = [seen EXCEPT ![r] = card] /\ line' = [line EXCEPT ![r] = 1]
          /\ want' = want /\ latest' = latest
      BY <2>2 DEF SyncRead
    <3>2. BoardTyped'
      BY <1>0, <1>1, <3>1 DEF BoardTyped, SyncPc, person, history
    <3>3. line'[r] = 1 /\ want[r][2] \in File
      BY <1>0, <3>1 DEF BoardTyped, BoardInv, SyncFits
    <3>4. \A i \in DOMAIN Line[want[r][2]] : ~(i < line'[r])
      BY <3>3, LinesTyped
    <3>5. QED
      BY <1>1, <3>1, <3>2, <3>4 DEF BoardInv, SyncFits
  <2>3. CASE SyncLatest(r)
    <3>1. /\ spc[r] = "latest" /\ spc' = [spc EXCEPT ![r] = "record"]
          /\ latest' = [latest EXCEPT ![r] = Len(syncs)]
          /\ want' = want /\ seen' = seen /\ line' = line
      BY <2>3 DEF SyncLatest
    <3>2. Len(syncs) \in Nat
      BY <1>0, LenProperties DEF BoardTyped
    <3>3. BoardTyped'
      BY <1>0, <1>1, <3>1, <3>2 DEF BoardTyped, SyncPc, person, history
    <3>4. QED
      BY <1>0, <1>1, <3>1, <3>3 DEF BoardInv, SyncFits, BoardTyped
  <2>4. QED
    BY <2>1, <2>2, <2>3
<1>3. \A x \in Syncer \ {r} : SyncFits(x)'
  BY <1>0, <1>1, OtherSyncs, SyncerKept DEF BoardInv
<1>4. (\A h \in Handler : PersonFits(h)') /\ ProposalsFit'
  BY <1>1, PeopleKept DEF person
<1>5. CardsChosen'
  <2>1. \A x \in Syncer, t \in Task : seen'[x][t] = seen[x][t] \/ seen'[x][t] = card[t]
    BY <1>0 DEF SyncFind, SyncRead, SyncLatest, BoardTyped
  <2>2. QED
    BY <1>1, <2>1, ChosenKept DEF BoardInv, history
<1>6. ASSUME crashes' = 0 PROVE MarksFit' /\ DuesFit'
  <2>1. MarksFit /\ DuesFit
    BY <1>1, <1>6 DEF BoardInv, history
  <2>2. /\ spc[r] # "upsert"
        /\ spc[r] \in {"idle", "again", "read"} \/ (spc[r] = "latest" /\ spc'[r] = "record")
    BY <1>0 DEF SyncFind, SyncRead, SyncLatest, BoardTyped
  <2>3. \A x \in Syncer : spc[x] = "upsert" => spc'[x] = "upsert" /\ want'[x] = want[x]
    BY <1>0, <2>2, OtherSyncs
  <2>4. MarksFit'
    BY <1>1, <2>1, <2>3, MarksKept DEF history
  <2>5. \A x \in Syncer, t \in due' : WillApply(x, t) => WillApply(x, t)'
    BY <1>0, <1>1, <2>2, OtherSyncs DEF WillApply
  <2>6. DuesFit'
    BY <1>0, <1>1, <2>1, <2>5, DuesKept, ReportsStay DEF history
  <2>7. QED
    BY <2>4, <2>6
<1>7. QED
  BY <1>2, <1>3, <1>4, <1>5, <1>6 DEF BoardInv

\* A line is written from what the sync read of its card.
LEMMA UpsertKeeps ==
    ASSUME BoardInv, NEW r \in Syncer, SyncUpsert(r)
    PROVE  BoardInv'
<1>0. BoardTyped /\ SyncStep(r)
  BY DEF BoardInv, SyncStep
<1>1. PICK f \in File, n \in Nat \ {0} : want[r][2] = f /\ line[r] = n
  BY <1>0 DEF SyncUpsert, BoardInv, SyncFits, BoardTyped
<1>2. /\ spc[r] = "upsert" /\ n \in DOMAIN Line[f]
      /\ UNCHANGED <<syncs, reported, proposals, verdicts, strict,
                     spc, want, seen, latest, todo, person, history>>
  BY <1>1, LinesTyped DEF SyncUpsert
<1>3. PICK t \in Task, b \in BOOLEAN : Line[f][n].task = t /\ Line[f][n].checked = b
  BY <1>1, <1>2, LinesTyped
<1>4. PICK c \in Card : /\ c = reconcile(seen[r][t], b) /\ c.present
                        /\ c.status \in {"in_progress", "blocked"} => c.status = seen[r][t].status
  <2>1. seen[r][t] \in Card \cup {NoCard}
    BY <1>0 DEF BoardTyped
  <2>2. QED
    BY <2>1, Reconciled
<1>5. /\ card' = [card EXCEPT ![t] = c] /\ line' = [line EXCEPT ![r] = n + 1]
  BY <1>1, <1>3, <1>4 DEF SyncUpsert
<1>6. /\ card' \in [Task -> Card \cup {NoCard}]
      /\ card'[t] = c /\ \A x \in Task \ {t} : card'[x] = card[x]
      /\ CardsRemain
  BY <1>0, <1>5, CardsTyped DEF BoardTyped, CardsRemain
<1>7. BoardTyped'
  BY <1>0, <1>2, <1>5, <1>6 DEF BoardTyped, person, history
<1>8. SyncFits(r)'
  <2>1. line'[r] = n + 1 /\ DOMAIN Line[f] \subseteq Nat
    BY <1>0, <1>1, <1>5, LinesTyped DEF BoardTyped
  <2>2. \A i \in DOMAIN Line[f] : i < n + 1 => i < n \/ i = n
    BY <2>1
  <2>3. \A i \in DOMAIN Line[f] : Line[f][i].task \in Task
    BY <1>1, LinesTyped
  <2>4. \A i \in DOMAIN Line[f] : i < n + 1 => card'[Line[f][i].task] # NoCard
    <3>1. \A i \in DOMAIN Line[f] : i < n => card[Line[f][i].task] # NoCard
      BY <1>1, <1>2 DEF BoardInv, SyncFits
    <3>2. card'[t] # NoCard
      BY <1>6, CardsTyped
    <3>3. QED
      BY <1>3, <1>6, <2>2, <2>3, <3>1, <3>2 DEF CardsRemain
  <2>5. QED
    BY <1>0, <1>1, <1>2, <1>6, <2>1, <2>4 DEF SyncFits, BoardInv, BoardTyped, CardsRemain
<1>9. \A x \in Syncer \ {r} : SyncFits(x)'
  BY <1>0, <1>6, OtherSyncs, SyncerKept DEF BoardInv
<1>10. (\A h \in Handler : PersonFits(h)') /\ ProposalsFit'
  BY <1>2, <1>6, PeopleKept DEF person
<1>11. CardsChosen'
  <2>1. \A x \in Task : \/ card'[x].status = card[x].status
                        \/ \E y \in Syncer : card'[x].status = seen[y][x].status
                        \/ card'[x].status \in {"not_started", "done"}
    <3>1. c.status \in Status
      BY CardsTyped
    <3>2. QED
      BY <1>4, <1>6, <3>1 DEF Status
  <2>2. QED
    BY <1>2, <2>1, ChosenKept DEF BoardInv, history
<1>12. ASSUME crashes' = 0 PROVE MarksFit' /\ DuesFit'
  <2>1. MarksFit /\ DuesFit
    BY <1>2, <1>12 DEF BoardInv, history
  <2>2. t \in KeysOf(f) /\ spc'[r] = "upsert" /\ want'[r][2] = f
    BY <1>1, <1>2, <1>3 DEF KeysOf
  <2>3. MarksFit'
    <3>1. SUFFICES ASSUME marked \in File
                   PROVE  /\ \A x \in KeysOf(marked) : card'[x].present
                          /\ \A x \in Task \ KeysOf(marked) : card'[x].present =>
                                 \E y \in Syncer : spc[y] = "upsert" /\ x \in KeysOf(want[y][2])
      BY <1>2 DEF MarksFit, history
    <3>2. KeysOf(marked) \subseteq Task
      BY <3>1, LinesTyped
    <3>3. QED
      BY <1>1, <1>2, <1>4, <1>6, <2>1, <2>2, <3>1, <3>2 DEF MarksFit
  <2>4. DuesFit'
    <3>1. WillApply(r, t)' /\ \A x \in Syncer, y \in due : WillApply(x, y)' <=> WillApply(x, y)
      BY <1>2 DEF WillApply
    <3>2. \A y \in due : y \in Task /\ (y \in ReportedTasks')
      BY <1>0, <1>2, <2>1, ReportsStay DEF BoardTyped, DuesFit
    <3>3. \E x \in Syncer : WillApply(x, t)'
      BY <3>1
    <3>4. \A y \in due : (\E x \in Syncer : WillApply(x, y)) => \E x \in Syncer : WillApply(x, y)'
      BY <3>1
    <3>5. \A y \in due : card'[y].status = "done" \/ \E x \in Syncer : WillApply(x, y)'
      BY <1>6, <2>1, <3>2, <3>3, <3>4 DEF DuesFit
    <3>6. QED
      BY <1>2, <1>6, <2>1, <3>2, <3>5 DEF DuesFit, CardsRemain, history
  <2>5. QED
    BY <2>3, <2>4
<1>13. QED
  BY <1>7, <1>8, <1>9, <1>10, <1>11, <1>12 DEF BoardInv

\* The cards of the file are present, and no other.
LEMMA MarkAbsentKeeps ==
    ASSUME BoardInv, NEW r \in Syncer, MarkAbsent(r)
    PROVE  BoardInv'
<1>0. BoardTyped /\ SyncStep(r)
  BY DEF BoardInv, SyncStep
<1>1. PICK f \in File : want[r][2] = f
  BY <1>0 DEF MarkAbsent, BoardInv, SyncFits, BoardTyped
<1>2. /\ spc[r] = "upsert" /\ line[r] > Len(Line[f]) /\ marked' = f
      /\ card' = Marked(f) /\ spc' = [spc EXCEPT ![r] = "latest"]
      /\ UNCHANGED <<syncs, reported, proposals, verdicts, strict,
                     want, seen, line, latest, todo, person, moves, due, crashes>>
  BY <1>1 DEF MarkAbsent
<1>3. ASSUME NEW t \in Task
      PROVE  /\ card'[t] \in Card \cup {NoCard} /\ (card'[t] = NoCard <=> card[t] = NoCard)
             /\ card'[t].status = card[t].status
             /\ card'[t].present <=> card[t] # NoCard /\ t \in KeysOf(f)
  <2>1. card'[t] = IF card[t] = NoCard THEN NoCard
                   ELSE [card[t] EXCEPT !.present = t \in KeysOf(f)]
    BY <1>2 DEF Marked
  <2>2. CASE card[t] = NoCard
    BY <2>1, <2>2, CardsTyped
  <2>3. CASE card[t] # NoCard
    <3>1. card[t] \in Card
      BY <1>0, <2>3 DEF BoardTyped
    <3>2. PICK b \in BOOLEAN : b = (t \in KeysOf(f))
      <4>1. (t \in KeysOf(f)) \in BOOLEAN
        OBVIOUS
      <4>2. QED
        BY <4>1, Zenon
    <3> DEFINE c == [card[t] EXCEPT !.present = b]
    <3>3. c \in Card /\ c.status = card[t].status /\ c.present = b
      BY <3>1 DEF Card
    <3>4. card'[t] = c
      BY <2>1, <2>3, <3>2
    <3> HIDE DEF c
    <3>5. QED
      BY <2>3, <3>2, <3>3, <3>4, CardsTyped
  <2>4. QED
    BY <2>2, <2>3
<1>4. card' \in [Task -> Card \cup {NoCard}] /\ CardsRemain
  BY <1>2, <1>3 DEF Marked, CardsRemain
<1>5. BoardTyped'
  BY <1>0, <1>2, <1>4 DEF BoardTyped, SyncPc, person
<1>6. SyncFits(r)'
  BY <1>0, <1>2, <1>4 DEF SyncFits, BoardInv, BoardTyped, CardsRemain
<1>7. \A x \in Syncer \ {r} : SyncFits(x)'
  BY <1>0, <1>4, OtherSyncs, SyncerKept DEF BoardInv
<1>8. (\A h \in Handler : PersonFits(h)') /\ ProposalsFit'
  BY <1>2, <1>4, PeopleKept DEF person
<1>9. CardsChosen'
  BY <1>2, <1>3, ChosenKept DEF BoardInv
<1>10. MarksFit'
  <2>1. \A t \in KeysOf(f) : card[t] # NoCard /\ t \in Task
    <3>1. \A i \in DOMAIN Line[f] : i < line[r]
      BY <1>0, <1>2, LinesTyped DEF BoardTyped
    <3>2. \A i \in DOMAIN Line[f] : card[Line[f][i].task] # NoCard
      BY <1>1, <1>2, <3>1 DEF BoardInv, SyncFits
    <3>3. QED
      BY <3>2, LinesTyped
  <2>2. QED
    BY <1>2, <1>3, <2>1 DEF MarksFit
<1>11. ASSUME crashes' = 0 PROVE DuesFit'
  <2>1. DuesFit
    BY <1>2, <1>11 DEF BoardInv
  <2>2. spc'[r] = "latest"
    BY <1>0, <1>2 DEF BoardTyped
  <2>3. \A x \in Syncer, t \in due' : WillApply(x, t) => WillApply(x, t)'
    BY <1>0, <1>2, <2>2, OtherSyncs DEF WillApply
  <2>4. \A t \in due' : card[t].status = "done" => card'[t].status = "done"
    BY <1>0, <1>2, <1>3 DEF BoardTyped
  <2>5. QED
    BY <1>0, <1>2, <1>4, <2>1, <2>3, <2>4, DuesKept, ReportsStay
<1>12. QED
  BY <1>5, <1>6, <1>7, <1>8, <1>9, <1>10, <1>11 DEF BoardInv

\* The sync is recorded, once per execution and content.
LEMMA RecordSyncKeeps ==
    ASSUME BoardInv, NEW r \in Syncer, RecordSync(r)
    PROVE  BoardInv'
<1>0. BoardTyped /\ SyncStep(r)
  BY DEF BoardInv, SyncStep
<1>1. /\ spc[r] = "record" /\ spc' = [spc EXCEPT ![r] = "apply"]
      /\ seen' = [seen EXCEPT ![r] = Unread] /\ line' = [line EXCEPT ![r] = 1]
      /\ latest' = [latest EXCEPT ![r] = 0]
      /\ UNCHANGED <<card, reported, proposals, verdicts, strict, want, todo, person, history>>
      /\ CardsRemain
  BY DEF RecordSync, Forget, CardsRemain
<1>2. syncs' = syncs \/ \E s \in SyncRow : syncs' = Append(syncs, s)
  <2>1. PICK e \in Execution, f \in File : want[r][1] = e /\ want[r][2] = f
    BY <1>0, <1>1 DEF BoardInv, SyncFits
  <2>2. PICK b \in BOOLEAN : b = OutOfBand(r)
    <3>1. OutOfBand(r) \in BOOLEAN
      BY DEF OutOfBand
    <3>2. QED
      BY <3>1, Zenon
  <2>3. syncs' = syncs \/ syncs' = Append(syncs, [exec |-> e, file |-> f, outOfBand |-> b])
    BY <2>1, <2>2 DEF RecordSync
  <2>4. [exec |-> e, file |-> f, outOfBand |-> b] \in SyncRow
    BY DEF SyncRow
  <2>5. QED
    BY <2>3, <2>4
<1>3. syncs' \in Seq(SyncRow) /\ Len(syncs) \in Nat /\ Len(syncs') \in Nat /\ Len(syncs) <= Len(syncs')
  <2>1. syncs \in Seq(SyncRow) /\ Len(syncs) \in Nat
    BY <1>0, LenProperties DEF BoardTyped
  <2>2. QED
    BY <1>2, <2>1, AppendProperties
<1>4. BoardTyped'
  <2>1. Unread \in [Task -> Card \cup {NoCard}]
    BY DEF Unread
  <2>2. \A x \in Syncer : latest'[x] \in 0..Len(syncs')
    BY <1>0, <1>1, <1>3 DEF BoardTyped
  <2>3. QED
    BY <1>0, <1>1, <1>3, <2>1, <2>2 DEF BoardTyped, SyncPc, person, history
<1>5. SyncFits(r)'
  BY <1>0, <1>1 DEF SyncFits, BoardInv, BoardTyped
<1>6. \A x \in Syncer \ {r} : SyncFits(x)'
  BY <1>0, <1>1, OtherSyncs, SyncerKept DEF BoardInv
<1>7. (\A h \in Handler : PersonFits(h)') /\ ProposalsFit'
  BY <1>1, PeopleKept DEF person
<1>8. CardsChosen'
  <2>1. \A x \in Syncer, t \in Task : seen'[x][t] = seen[x][t] \/ seen'[x][t] = NoCard
    BY <1>0, <1>1 DEF Unread, BoardTyped
  <2>2. QED
    BY <1>1, <2>1, ChosenKept DEF BoardInv, history
<1>9. ASSUME crashes' = 0 PROVE MarksFit' /\ DuesFit'
  <2>1. MarksFit /\ DuesFit
    BY <1>1, <1>9 DEF BoardInv, history
  <2>2. spc'[r] = "apply"
    BY <1>0, <1>1 DEF BoardTyped
  <2>3. MarksFit'
    <3>1. \A x \in Syncer : spc[x] = "upsert" => spc'[x] = "upsert" /\ want'[x] = want[x]
      BY <1>0, <1>1, OtherSyncs
    <3>2. QED
      BY <1>1, <2>1, <3>1, MarksKept DEF history
  <2>4. \A x \in Syncer, t \in due' : WillApply(x, t) => WillApply(x, t)'
    BY <1>0, <1>1, <2>2, OtherSyncs DEF WillApply
  <2>5. DuesFit'
    BY <1>0, <1>1, <1>2, <2>1, <2>4, DuesKept, ReportsStay DEF history
  <2>6. QED
    BY <2>3, <2>5
<1>10. QED
  BY <1>4, <1>5, <1>6, <1>7, <1>8, <1>9 DEF BoardInv

\* The reports that are found are due, and those the cards do not show are applied.
LEMMA ApplyReadKeeps ==
    ASSUME BoardInv, NEW r \in Syncer, ApplyRead(r)
    PROVE  BoardInv'
<1>0. BoardTyped /\ SyncStep(r)
  BY DEF BoardInv, SyncStep
<1> DEFINE known == {t \in ReportedTasks : card[t] # NoCard}
           left == {t \in known : ~(card[t].status = "done" /\ card[t].source = "event")}
<1>1. /\ spc[r] = "apply" /\ todo' = [todo EXCEPT ![r] = left] /\ due' = due \cup known
      /\ spc' = [spc EXCEPT ![r] = IF left = {} THEN "done" ELSE "applying"]
      /\ UNCHANGED <<rows, want, seen, line, latest, person, moves, marked, crashes>>
  BY DEF ApplyRead
<1>2. /\ known \subseteq Task /\ left \subseteq known
      /\ \A t \in known : t \in ReportedTasks /\ card[t] # NoCard
                          /\ (t \in left \/ card[t].status = "done")
  BY DEF ReportedTasks
<1> HIDE DEF known, left
<1>3. /\ card' = card /\ CardsRemain /\ syncs' = syncs /\ reported' = reported
      /\ UNCHANGED <<proposals, verdicts, strict>>
  BY <1>1 DEF CardsRemain, rows
<1>4. /\ todo'[r] = left /\ spc'[r] = IF left = {} THEN "done" ELSE "applying"
  BY <1>0, <1>1 DEF BoardTyped
<1>5. BoardTyped'
  <2>1. left \in SUBSET Task /\ due' \subseteq Task
    BY <1>0, <1>1, <1>2 DEF BoardTyped
  <2>2. QED
    BY <1>0, <1>1, <1>3, <2>1 DEF BoardTyped, SyncPc, person
<1>6. SyncFits(r)'
  BY <1>1, <1>2, <1>3, <1>4 DEF SyncFits, BoardInv
<1>7. \A x \in Syncer \ {r} : SyncFits(x)'
  BY <1>0, <1>3, OtherSyncs, SyncerKept DEF BoardInv
<1>8. (\A h \in Handler : PersonFits(h)') /\ ProposalsFit'
  BY <1>1, <1>3, PeopleKept DEF person
<1>9. CardsChosen'
  BY <1>1, <1>3, ChosenKept DEF BoardInv
<1>10. ASSUME crashes' = 0 PROVE MarksFit' /\ DuesFit'
  <2>1. MarksFit /\ DuesFit
    BY <1>1, <1>10 DEF BoardInv
  <2>2. MarksFit'
    <3>1. \A x \in Syncer : spc[x] = "upsert" => spc'[x] = "upsert" /\ want'[x] = want[x]
      BY <1>0, <1>1, OtherSyncs
    <3>2. QED
      BY <1>1, <1>3, <2>1, <3>1, MarksKept
  <2>3. ASSUME NEW t \in due'
        PROVE  /\ t \in ReportedTasks /\ card[t] # NoCard
               /\ card[t].status = "done" \/ \E x \in Syncer : WillApply(x, t)'
    <3>1. CASE t \in known
      BY <1>2, <1>4, <3>1 DEF WillApply
    <3>2. CASE t \notin known
      <4>1. /\ t \in ReportedTasks /\ card[t] # NoCard
            /\ card[t].status = "done" \/ \E x \in Syncer : WillApply(x, t)
        BY <1>1, <2>1, <2>3, <3>2 DEF DuesFit
      <4>2. t \in Task
        BY <1>5, <2>3 DEF BoardTyped
      <4>3. t \in known
        BY <4>1, <4>2 DEF known
      <4>4. QED
        BY <3>2, <4>3
    <3>3. QED
      BY <3>1, <3>2
  <2>4. ReportedTasks' = ReportedTasks
    BY <1>3 DEF ReportedTasks
  <2>5. QED
    BY <1>3, <2>2, <2>3, <2>4 DEF DuesFit
<1>11. QED
  BY <1>5, <1>6, <1>7, <1>8, <1>9, <1>10 DEF BoardInv

\* A report makes its card done.
LEMMA ApplyReportKeeps ==
    ASSUME BoardInv, NEW r \in Syncer, NEW t \in Task, ApplyReport(r, t)
    PROVE  BoardInv'
<1>0. BoardTyped /\ SyncStep(r)
  BY DEF BoardInv, SyncStep
<1>1. /\ spc[r] = "applying" /\ t \in todo[r]
      /\ card' = [card EXCEPT ![t].status = "done", ![t].source = "event"]
      /\ todo' = [todo EXCEPT ![r] = todo[r] \ {t}]
      /\ spc' = [spc EXCEPT ![r] = IF todo[r] = {t} THEN "done" ELSE "applying"]
      /\ UNCHANGED <<syncs, reported, proposals, verdicts, strict,
                     want, seen, line, latest, person, history>>
  BY DEF ApplyReport
<1>2. card[t] # NoCard
  BY <1>1 DEF BoardInv, SyncFits
<1>3. /\ card' \in [Task -> Card \cup {NoCard}]
      /\ card'[t] \in Card /\ card'[t].status = "done" /\ card'[t].present = card[t].present
      /\ \A x \in Task : x # t => card'[x] = card[x]
  BY <1>0, <1>1, <1>2, Rewritten DEF Status, Source
<1>4. CardsRemain
  BY <1>3, CardsTyped DEF CardsRemain
<1>5. /\ todo'[r] = todo[r] \ {t} /\ todo[r] \subseteq Task
      /\ spc'[r] = IF todo[r] = {t} THEN "done" ELSE "applying"
  BY <1>0, <1>1 DEF BoardTyped
<1>6. BoardTyped'
  BY <1>0, <1>1, <1>3 DEF BoardTyped, SyncPc, person, history
<1>7. SyncFits(r)'
  <2>1. SyncFits(r)
    BY DEF BoardInv
  <2>2. want'[r] \in Execution \X File /\ spc'[r] # "upsert"
    BY <1>1, <1>5, <2>1 DEF SyncFits
  <2>3. \A x \in todo'[r] : card'[x] # NoCard
    BY <1>4, <1>5, <2>1 DEF SyncFits, CardsRemain
  <2>4. QED
    BY <2>2, <2>3 DEF SyncFits
<1>8. \A x \in Syncer \ {r} : SyncFits(x)'
  BY <1>0, <1>4, OtherSyncs, SyncerKept DEF BoardInv
<1>9. (\A h \in Handler : PersonFits(h)') /\ ProposalsFit'
  BY <1>1, <1>4, PeopleKept DEF person
<1>10. CardsChosen'
  <2>1. \A x \in Task : card'[x].status = card[x].status \/ card'[x].status \in {"not_started", "done"}
    BY <1>3
  <2>2. QED
    BY <1>1, <2>1, ChosenKept DEF BoardInv, history
<1>11. ASSUME crashes' = 0 PROVE MarksFit' /\ DuesFit'
  <2>1. MarksFit /\ DuesFit
    BY <1>1, <1>11 DEF BoardInv, history
  <2>2. MarksFit'
    <3>1. \A x \in Syncer : spc[x] = "upsert" => spc'[x] = "upsert" /\ want'[x] = want[x]
      BY <1>0, <1>1, OtherSyncs
    <3>2. \A x \in Task : card'[x].present <=> card[x].present
      BY <1>3
    <3>3. QED
      BY <1>1, <2>1, <3>1, <3>2, MarksKept DEF history
  <2>3. \A x \in Syncer, y \in due' :
            WillApply(x, y) => WillApply(x, y)' \/ card'[y].status = "done"
    <3>1. ASSUME NEW x \in Syncer, NEW y \in due', WillApply(x, y), y # t
          PROVE  WillApply(x, y)'
      <4>1. CASE x = r
        BY <1>1, <1>5, <3>1, <4>1 DEF WillApply
      <4>2. CASE x # r
        BY <1>0, <3>1, <4>2, OtherSyncs DEF WillApply
      <4>3. QED
        BY <4>1, <4>2
    <3>2. QED
      BY <1>3, <3>1
  <2>4. \A y \in due' : card[y].status = "done" => card'[y].status = "done"
    BY <1>0, <1>1, <1>3 DEF BoardTyped, history
  <2>5. DuesFit'
    BY <1>0, <1>1, <1>4, <2>1, <2>3, <2>4, DuesKept, ReportsStay DEF history
  <2>6. QED
    BY <2>2, <2>5
<1>12. QED
  BY <1>6, <1>7, <1>8, <1>9, <1>10, <1>11 DEF BoardInv

\* A process that dies forgets, and its client may ask again.
LEMMA CrashKeeps ==
    ASSUME BoardInv, NEW r \in Syncer, Crash(r)
    PROVE  BoardInv'
<1>0. BoardTyped /\ SyncStep(r)
  BY DEF BoardInv, SyncStep
<1>1. /\ spc[r] # "idle" /\ crashes < MaxCrashes /\ crashes' = crashes + 1
      /\ spc' = [spc EXCEPT ![r] = "again"] /\ todo' = [todo EXCEPT ![r] = {}]
      /\ seen' = [seen EXCEPT ![r] = Unread] /\ line' = [line EXCEPT ![r] = 1]
      /\ latest' = [latest EXCEPT ![r] = 0]
      /\ UNCHANGED <<rows, want, person, moves, due, marked>>
  BY DEF Crash, Forget
<1>2. /\ card' = card /\ CardsRemain /\ syncs' = syncs /\ reported' = reported
      /\ UNCHANGED <<proposals, verdicts, strict>>
  BY <1>1 DEF CardsRemain, rows
<1>3. crashes' \in 0..MaxCrashes /\ crashes' # 0
  BY <1>0, <1>1, CrashesAssumption DEF BoardTyped
<1>4. BoardTyped'
  <2>1. Unread \in [Task -> Card \cup {NoCard}] /\ Len(syncs) \in Nat
    BY <1>0, LenProperties DEF Unread, BoardTyped
  <2>2. \A x \in Syncer : latest'[x] \in 0..Len(syncs)
    BY <1>0, <1>1, <2>1 DEF BoardTyped
  <2>3. QED
    BY <1>0, <1>1, <1>2, <1>3, <2>1, <2>2 DEF BoardTyped, SyncPc, person
<1>5. SyncFits(r)'
  BY <1>0, <1>1 DEF SyncFits, BoardInv, BoardTyped
<1>6. \A x \in Syncer \ {r} : SyncFits(x)'
  BY <1>0, <1>2, OtherSyncs, SyncerKept DEF BoardInv
<1>7. (\A h \in Handler : PersonFits(h)') /\ ProposalsFit'
  BY <1>1, <1>2, PeopleKept DEF person
<1>8. CardsChosen'
  <2>1. \A x \in Syncer, t \in Task : seen'[x][t] = seen[x][t] \/ seen'[x][t] = NoCard
    BY <1>0, <1>1 DEF Unread, BoardTyped
  <2>2. QED
    BY <1>1, <1>2, <2>1, ChosenKept DEF BoardInv
<1>9. QED
  BY <1>3, <1>4, <1>5, <1>6, <1>7, <1>8 DEF BoardInv

\* A report appended to the execution changes no card.
LEMMA ReportKeeps ==
    ASSUME BoardInv, NEW e \in Execution, NEW t \in Task, Report(e, t)
    PROVE  BoardInv'
<1>1. /\ reported' = reported \cup {<<e, t>>}
      /\ UNCHANGED <<card, syncs, proposals, verdicts, strict, sync, person, history>>
      /\ CardsRemain /\ BoardTyped
  BY DEF Report, CardsRemain, BoardInv
<1>2. BoardTyped'
  BY <1>1 DEF BoardTyped, sync, person, history
<1>3. \A x \in Syncer : SyncFits(x)'
  BY <1>1, SyncerKept DEF BoardInv, sync
<1>4. (\A h \in Handler : PersonFits(h)') /\ ProposalsFit'
  BY <1>1, PeopleKept DEF BoardInv, person
<1>5. CardsChosen'
  BY <1>1, ChosenKept DEF BoardInv, sync, history
<1>6. ASSUME crashes' = 0 PROVE MarksFit' /\ DuesFit'
  <2>1. MarksFit /\ DuesFit
    BY <1>1, <1>6 DEF BoardInv, history
  <2>2. \A x \in Syncer, y \in due' : WillApply(x, y) => WillApply(x, y)'
    BY <1>1 DEF WillApply, sync
  <2>3. DuesFit'
    BY <1>1, <2>1, <2>2, DuesKept, ReportsStay DEF history
  <2>4. MarksFit'
    BY <1>1, <2>1, MarksKept DEF sync, history
  <2>5. QED
    BY <2>3, <2>4
<1>7. QED
  BY <1>2, <1>3, <1>4, <1>5, <1>6 DEF BoardInv

\* What a step of a person that writes no card leaves to syncs.
LEMMA SyncsKept ==
    ASSUME BoardInv, UNCHANGED <<card, syncs, reported, strict, sync, history>>
    PROVE  /\ \A r \in Syncer : SyncFits(r)'
           /\ CardsChosen' /\ CardsRemain
           /\ crashes' = 0 => MarksFit' /\ DuesFit'
<1>1. CardsRemain /\ BoardTyped
  BY DEF CardsRemain, BoardInv
<1>2. \A x \in Syncer : SyncFits(x)'
  BY <1>1, SyncerKept DEF BoardInv, sync
<1>3. CardsChosen'
  BY <1>1, ChosenKept DEF BoardInv, sync, history
<1>4. ASSUME crashes' = 0 PROVE MarksFit' /\ DuesFit'
  <2>1. MarksFit /\ DuesFit
    BY <1>1, <1>4 DEF BoardInv, history
  <2>2. \A x \in Syncer, y \in due' : WillApply(x, y) => WillApply(x, y)'
    BY <1>1 DEF WillApply, sync
  <2>3. DuesFit'
    BY <1>1, <2>1, <2>2, DuesKept, ReportsStay DEF history
  <2>4. MarksFit'
    BY <1>1, <2>1, MarksKept DEF sync, history
  <2>5. QED
    BY <2>3, <2>4
<1>5. QED
  BY <1>1, <1>2, <1>3, <1>4

\* Among stamped rows there is a last one.
LEMMA LastOfRows ==
    ASSUME NEW S, S # {}, NEW n \in Nat, \A v \in S : v.at \in 1..n
    PROVE  \E v \in S : \A w \in S : w.at <= v.at
<1> DEFINE D == {n - v.at : v \in S}
<1>1. D \subseteq Nat /\ D # {}
  OBVIOUS
<1>2. PICK m \in D : \A k \in D : <<k, m>> \notin OpToRel(<, Nat)
  <2>1. IsWellFoundedOn(OpToRel(<, Nat), Nat)
    BY NatLessThanWellFounded
  <2> HIDE DEF D
  <2>2. QED
    BY <1>1, <2>1, WFMin, Zenon
<1>3. PICK v \in S : m = n - v.at
  BY <1>2
<1>4. ASSUME NEW w \in S PROVE w.at <= v.at
  <2>1. n - w.at \in D
    OBVIOUS
  <2>2. ~(n - w.at < m)
    <3>1. n - w.at \in Nat /\ m \in Nat
      BY <1>1, <1>2, <2>1
    <3>2. <<n - w.at, m>> \notin OpToRel(<, Nat)
      BY <1>2, <2>1
    <3>3. QED
      BY <3>1, <3>2 DEF OpToRel
  <2>3. v.at \in 1..n /\ w.at \in 1..n
    OBVIOUS
  <2>4. QED
    BY <1>3, <2>2, <2>3
<1>5. QED
  BY <1>4

\* A proposal waits for an approver only after a verdict that says so.
LEMMA WaitingIsRecorded ==
    ASSUME BoardTyped, NEW p, foldProposalState(p, verdicts) = "approval_required"
    PROVE  \E v \in verdicts : v.p = p /\ v.verdict = "approval_required"
<1> DEFINE of == {v \in verdicts : v.p = p}
           last == CHOOSE v \in of : \A w \in of : w.at <= v.at
<1>1. of # {} /\ last.verdict = "approval_required"
  BY DEF foldProposalState
<1>2. \E v \in of : \A w \in of : w.at <= v.at
  BY <1>1, LastOfRows DEF BoardTyped
<1>3. last \in of
  BY <1>2
<1>4. QED
  BY <1>1, <1>3

\* What the first adjudication says.
LEMMA Judged ==
    ASSUME NEW h \in Handler
    PROVE  /\ Judgement(h) \in {"refused", "inconsistent", "approval_required", "none"}
           /\ Judgement(h) \in {"approval_required", "none"} => req[h].p.actor \in People
           /\ Judgement(h) = "none" => ~strict
BY DEF Judgement, People

\* A step of a person moves no other handler.
LEMMA OtherPeople ==
    ASSUME BoardTyped, NEW h \in Handler, PersonStep(h), NEW x \in Handler \ {h}
    PROVE  ppc'[x] = ppc[x] /\ req'[x] = req[x]
<1> USE DEF BoardTyped
<1>1. CASE Drag(h) \/ RecordProposal(h)
  BY <1>1 DEF Drag, RecordProposal
<1>2. CASE Answer(h)
  <2>1. \E q : req' = [req EXCEPT ![h] = q]
    BY <1>2 DEF Answer
  <2>2. \E s : ppc' = [ppc EXCEPT ![h] = s]
    BY <1>2 DEF Answer
  <2>3. QED
    BY <2>1, <2>2
<1>3. CASE LookAgain(h) \/ ApplyMove(h) \/ Settle(h)
  BY <1>3 DEF LookAgain, ApplyMove, Settle
<1>4. QED
  BY <1>1, <1>2, <1>3 DEF PersonStep

\* A person asks, of the card as the handler reads it.
LEMMA DragKeeps ==
    ASSUME BoardInv, NEW h \in Handler, Drag(h)
    PROVE  BoardInv'
<1>0. BoardTyped /\ PersonStep(h)
  BY DEF BoardInv, PersonStep
<1>1. PICK t \in Movable, a \in Actor, from \in Shown, to \in Wanted :
          /\ card[t] # NoCard
          /\ to # from
          /\ req' = [req EXCEPT ![h].p = [task |-> t, actor |-> a, from |-> from, to |-> to]]
          /\ view' = [view EXCEPT ![h] = card[t].status]
  BY Zenon DEF Drag
<1>2. /\ ppc' = [ppc EXCEPT ![h] = "propose"]
      /\ UNCHANGED <<card, syncs, reported, proposals, verdicts, strict, sync, clock, history>>
  BY DEF Drag, rows
<1> DEFINE p == [task |-> t, actor |-> a, from |-> from, to |-> to]
<1>3. p \in Proposal /\ p.task = t /\ t \in Task
  BY BoardBounds DEF Proposal
<1> HIDE DEF p
<1>4. req'[h].p = p /\ req' \in [Handler -> Asking]
  <2>1. req[h] \in Asking
    BY <1>0 DEF BoardTyped
  <2> DEFINE q == [req[h] EXCEPT !.p = p]
  <2>2. q \in Asking /\ q.p = p
    BY <1>3, <2>1 DEF Asking
  <2>3. req' = [req EXCEPT ![h] = q]
    BY <1>0, <1>1 DEF BoardTyped, p
  <2> HIDE DEF q
  <2>4. QED
    BY <1>0, <2>2, <2>3 DEF BoardTyped
<1>5. BoardTyped'
  <2>1. card[t].status \in Status
    BY <1>0, <1>1, <1>3, CardsTyped DEF BoardTyped
  <2>2. QED
    BY <1>0, <1>1, <1>2, <1>4, <2>1 DEF BoardTyped, PersonPc, sync, history
<1>6. PersonFits(h)'
  BY <1>0, <1>1, <1>2, <1>3, <1>4 DEF PersonFits, BoardTyped
<1>7. CardsRemain /\ clock' \in Nat /\ clock <= clock'
  BY <1>0, <1>2 DEF CardsRemain, BoardTyped
<1>8. \A x \in Handler \ {h} : PersonFits(x)'
  BY <1>0, <1>2, <1>7, OtherPeople, PersonKept DEF BoardInv
<1>9. ProposalsFit'
  BY <1>0, <1>2, <1>7, ProposalsKept DEF BoardInv
<1>10. QED
  BY <1>2, <1>5, <1>6, <1>8, <1>9, SyncsKept DEF BoardInv

\* A proposal is recorded, and judged.
LEMMA RecordProposalKeeps ==
    ASSUME BoardInv, NEW h \in Handler, RecordProposal(h)
    PROVE  BoardInv'
<1>0. BoardTyped /\ PersonStep(h) /\ PersonFits(h)
  BY DEF BoardInv, PersonStep
<1> DEFINE w == IF req[h].p \in proposals THEN "replay" ELSE "first"
           j == Judgement(h)
<1>1. /\ ppc[h] = "propose" /\ proposals' = proposals \cup {req[h].p} /\ clock' = clock + 1
      /\ req' = [req EXCEPT ![h].way = w, ![h].at = clock + 1, ![h].out = j]
      /\ ppc' = [ppc EXCEPT ![h] = IF j = "none" THEN "apply" ELSE "settle"]
      /\ UNCHANGED <<card, syncs, reported, verdicts, strict, sync, view, history>>
  BY DEF RecordProposal
<1>2. req[h] \in Asking /\ req[h].p \in Proposal /\ card[req[h].p.task] # NoCard
  BY <1>0, <1>1 DEF BoardTyped, PersonFits
<1>3. w \in {"replay", "first"}
  OBVIOUS
<1>4. /\ j \in {"refused", "inconsistent", "approval_required", "none"}
      /\ j \in {"approval_required", "none"} => req[h].p.actor \in People
      /\ j = "none" => ~strict
  BY Judged
<1> HIDE DEF w, j
<1> DEFINE one == [req[h] EXCEPT !.way = w]
           two == [one EXCEPT !.at = clock + 1]
           q == [two EXCEPT !.out = j]
<1>5. one \in Asking /\ one.p = req[h].p
  BY <1>2, <1>3 DEF Asking
<1>6. two \in Asking /\ two.p = req[h].p /\ two.at = clock + 1
  <2> HIDE DEF one
  <2>1. clock + 1 \in Nat
    BY <1>0 DEF BoardTyped
  <2>2. QED
    BY <1>5, <2>1 DEF Asking
<1>7. q \in Asking /\ q.p = req[h].p /\ q.at = clock + 1 /\ q.out = j
  <2> HIDE DEF two
  <2>1. j \in Verdict \cup {"none", "declined"}
    BY <1>4 DEF Verdict
  <2>2. QED
    BY <1>6, <2>1 DEF Asking
<1>8. req' = [req EXCEPT ![h] = q]
  BY <1>0, <1>1 DEF BoardTyped
<1> HIDE DEF q
<1>9. req' \in [Handler -> Asking] /\ req'[h] = q
  BY <1>0, <1>7, <1>8 DEF BoardTyped
<1>10. clock' \in Nat /\ clock <= clock' /\ clock + 1 \in 1..clock' /\ \A n \in 1..clock : n \in 1..clock'
  BY <1>0, <1>1 DEF BoardTyped
<1>11. BoardTyped'
  BY <1>0, <1>1, <1>2, <1>9, <1>10 DEF BoardTyped, PersonPc, sync, history
<1>12. PersonFits(h)'
  <2>1. ppc'[h] = IF j = "none" THEN "apply" ELSE "settle"
    BY <1>0, <1>1 DEF BoardTyped
  <2>2. j # "none" => j \in Verdict
    BY <1>4 DEF Verdict
  <2>3. q.p \in proposals'
    BY <1>1, <1>7
  <2>4. strict' = strict /\ card' = card
    BY <1>1
  <2>5. QED
    BY <1>2, <1>4, <1>7, <1>9, <1>10, <2>1, <2>2, <2>3, <2>4 DEF PersonFits
<1>13. /\ \A x \in Syncer : SyncFits(x)'
       /\ CardsChosen' /\ CardsRemain
       /\ crashes' = 0 => MarksFit' /\ DuesFit'
  BY <1>1, SyncsKept
<1>14. \A x \in Handler \ {h} : PersonFits(x)'
  BY <1>0, <1>1, <1>10, <1>13, OtherPeople, PersonKept DEF BoardInv
<1>15. ProposalsFit'
  BY <1>1, <1>2 DEF BoardInv, ProposalsFit
<1>16. QED
  BY <1>11, <1>12, <1>13, <1>14, <1>15 DEF BoardInv

\* Another person answers a proposal that waits, of a card that exists.
LEMMA AnswerKeeps ==
    ASSUME BoardInv, NEW h \in Handler, Answer(h)
    PROVE  BoardInv'
<1>0. BoardTyped /\ PersonStep(h) /\ ProposalsFit
  BY DEF BoardInv, PersonStep
<1>1. PICK p \in proposals, a \in Actor, approve \in BOOLEAN :
          LET waiting == foldProposalState(p, verdicts) = "approval_required"
              out == IF ~waiting THEN "inconsistent"
                     ELSE IF a = p.actor \/ a \in Agent \/ a \notin May THEN "refused"
                     ELSE "none"
          IN  /\ clock' = clock + 1
              /\ req' = [req EXCEPT ![h] = [p |-> p, by |-> a, way |-> "second", at |-> clock',
                                            out |-> IF out = "none" /\ ~approve
                                                    THEN "declined" ELSE out]]
              /\ ppc' = [ppc EXCEPT ![h] = IF out = "none" THEN "look" ELSE "settle"]
  BY Zenon DEF Answer
<1> DEFINE waiting == foldProposalState(p, verdicts) = "approval_required"
           out == IF ~waiting THEN "inconsistent"
                  ELSE IF a = p.actor \/ a \in Agent \/ a \notin May THEN "refused"
                  ELSE "none"
           o == IF out = "none" /\ ~approve THEN "declined" ELSE out
           q == [p |-> p, by |-> a, way |-> "second", at |-> clock + 1, out |-> o]
<1>2. /\ clock' = clock + 1 /\ req' = [req EXCEPT ![h] = q]
      /\ ppc' = [ppc EXCEPT ![h] = IF out = "none" THEN "look" ELSE "settle"]
  BY <1>1
<1>3. UNCHANGED <<card, syncs, reported, strict, proposals, verdicts, sync, view, history>>
  BY DEF Answer, rows
<1>4. out = "none" => waiting /\ a \in People \ {p.actor}
  BY DEF People
<1>5. waiting => p.actor \in People
  BY <1>0, WaitingIsRecorded DEF ProposalsFit
<1>6. /\ out \in {"inconsistent", "refused", "none"}
      /\ o \in Verdict \cup {"none", "declined"}
      /\ out # "none" => o \in Verdict /\ o # "approval_required"
  BY DEF Verdict
<1> HIDE DEF waiting, out, o
<1>7. p \in Proposal /\ card[p.task] # NoCard
  BY <1>0 DEF ProposalsFit, BoardTyped
<1>8. clock' \in Nat /\ clock <= clock' /\ clock + 1 \in 1..clock' /\ \A n \in 1..clock : n \in 1..clock'
  BY <1>0, <1>2 DEF BoardTyped
<1>9. /\ q \in Asking /\ q.p = p /\ q.by = a /\ q.at = clock + 1 /\ q.out = o
  <2>1. clock + 1 \in Nat
    BY <1>0 DEF BoardTyped
  <2>2. QED
    BY <1>6, <1>7, <2>1 DEF Asking
<1> HIDE DEF q
<1>10. /\ req' \in [Handler -> Asking] /\ req'[h] = q
       /\ ppc'[h] = IF out = "none" THEN "look" ELSE "settle"
  BY <1>0, <1>2, <1>9 DEF BoardTyped
<1>11. BoardTyped'
  BY <1>0, <1>2, <1>3, <1>8, <1>10 DEF BoardTyped, PersonPc, sync, history
<1>12. PersonFits(h)'
  BY <1>3, <1>4, <1>5, <1>6, <1>7, <1>8, <1>9, <1>10 DEF PersonFits
<1>13. /\ \A x \in Syncer : SyncFits(x)'
       /\ CardsChosen' /\ CardsRemain
       /\ crashes' = 0 => MarksFit' /\ DuesFit'
  BY <1>3, SyncsKept
<1>14. \A x \in Handler \ {h} : PersonFits(x)'
  BY <1>0, <1>3, <1>8, <1>13, OtherPeople, PersonKept DEF BoardInv
<1>15. ProposalsFit'
  BY <1>0, <1>3, <1>13, ProposalsKept
<1>16. QED
  BY <1>11, <1>12, <1>13, <1>14, <1>15 DEF BoardInv

\* The approver looks at the card again.
LEMMA LookAgainKeeps ==
    ASSUME BoardInv, NEW h \in Handler, LookAgain(h)
    PROVE  BoardInv'
<1>0. BoardTyped /\ PersonStep(h) /\ PersonFits(h)
  BY DEF BoardInv, PersonStep
<1> DEFINE moved == card[req[h].p.task].status # req[h].p.from
           out == IF moved THEN "inconsistent"
                  ELSE IF req[h].out = "declined" THEN "refused" ELSE "none"
           q == [req[h] EXCEPT !.out = out]
<1>1. /\ ppc[h] = "look" /\ req' = [req EXCEPT ![h] = q]
      /\ ppc' = [ppc EXCEPT ![h] = IF out = "none" THEN "apply" ELSE "settle"]
      /\ UNCHANGED <<rows, sync, view, clock, history>>
  BY <1>0 DEF LookAgain, BoardTyped
<1>2. UNCHANGED <<card, syncs, reported, strict, proposals, verdicts, sync, view, clock, history>>
  BY <1>1 DEF rows
<1>3. out \in {"inconsistent", "refused", "none"}
  OBVIOUS
<1> HIDE DEF out
<1>4. q \in Asking /\ q.p = req[h].p /\ q.by = req[h].by /\ q.at = req[h].at /\ q.out = out
  <2>1. req[h] \in Asking
    BY <1>0 DEF BoardTyped
  <2>2. QED
    BY <1>3, <2>1 DEF Asking, Verdict
<1> HIDE DEF q
<1>5. /\ req' \in [Handler -> Asking] /\ req'[h] = q
      /\ ppc'[h] = IF out = "none" THEN "apply" ELSE "settle"
  BY <1>0, <1>1, <1>4 DEF BoardTyped
<1>6. clock' \in Nat /\ clock <= clock'
  BY <1>0, <1>2 DEF BoardTyped
<1>7. BoardTyped'
  BY <1>0, <1>1, <1>2, <1>5 DEF BoardTyped, PersonPc, sync, history
<1>8. PersonFits(h)'
  BY <1>0, <1>1, <1>2, <1>3, <1>4, <1>5 DEF PersonFits, Verdict
<1>9. /\ \A x \in Syncer : SyncFits(x)'
      /\ CardsChosen' /\ CardsRemain
      /\ crashes' = 0 => MarksFit' /\ DuesFit'
  BY <1>2, SyncsKept
<1>10. \A x \in Handler \ {h} : PersonFits(x)'
  BY <1>0, <1>2, <1>6, <1>9, OtherPeople, PersonKept DEF BoardInv
<1>11. ProposalsFit'
  BY <1>0, <1>2, <1>9, ProposalsKept DEF BoardInv
<1>12. QED
  BY <1>7, <1>8, <1>9, <1>10, <1>11 DEF BoardInv

\* The card gets the status that was asked for, which somebody who may asked for.
LEMMA ApplyMoveKeeps ==
    ASSUME BoardInv, NEW h \in Handler, ApplyMove(h)
    PROVE  BoardInv'
<1>0. BoardTyped /\ PersonStep(h) /\ PersonFits(h)
  BY DEF BoardInv, PersonStep
<1> DEFINE p == req[h].p
           t == p.task
           m == [p |-> p, by |-> req[h].by, strict |-> strict]
           q == [req[h] EXCEPT !.out = "applied"]
<1>1. /\ ppc[h] = "apply" /\ req' = [req EXCEPT ![h] = q]
      /\ card' = [card EXCEPT ![t].status = p.to, ![t].source = "proposal"]
      /\ ppc' = [ppc EXCEPT ![h] = "settle"]
      /\ moves' = moves \cup {m} /\ due' = due \ {t}
      /\ UNCHANGED <<syncs, reported, proposals, verdicts, strict, sync, view, clock, marked, crashes>>
  BY <1>0 DEF ApplyMove, BoardTyped
<1>2. /\ p \in Proposal /\ card[t] # NoCard /\ req[h].at \in 1..clock /\ p \in proposals
      /\ p.actor \in People /\ (strict => req[h].by \in People \ {p.actor})
  BY <1>0, <1>1 DEF PersonFits
<1>3. t \in Task /\ p.to \in Status
  BY <1>2, WantedAssumption DEF Proposal
<1>4. q \in Asking /\ q.p = p /\ q.by = req[h].by /\ q.at = req[h].at /\ q.out = "applied"
  <2>1. req[h] \in Asking
    BY <1>0 DEF BoardTyped
  <2>2. QED
    BY <2>1 DEF Asking, Verdict
<1>5. m.p = p /\ m.by = req[h].by
  OBVIOUS
<1> HIDE DEF p, t, m, q
<1>6. /\ req' \in [Handler -> Asking] /\ req'[h] = q /\ ppc'[h] = "settle"
  BY <1>0, <1>1, <1>4 DEF BoardTyped
<1>7. clock' \in Nat /\ clock <= clock'
  BY <1>0, <1>1 DEF BoardTyped
<1>8. /\ card' \in [Task -> Card \cup {NoCard}]
      /\ card'[t] \in Card /\ card'[t].status = p.to /\ card'[t].present = card[t].present
      /\ \A x \in Task : x # t => card'[x] = card[x]
  BY <1>0, <1>1, <1>2, <1>3, Rewritten DEF Source
<1>9. CardsRemain
  BY <1>8, CardsTyped DEF CardsRemain
<1>10. BoardTyped'
  BY <1>0, <1>1, <1>6, <1>8 DEF BoardTyped, PersonPc, sync
<1>11. PersonFits(h)'
  BY <1>1, <1>2, <1>4, <1>6 DEF PersonFits, Verdict
<1>12. \A x \in Handler \ {h} : PersonFits(x)'
  BY <1>0, <1>1, <1>7, <1>9, OtherPeople, PersonKept DEF BoardInv
<1>13. ProposalsFit'
  BY <1>0, <1>1, <1>9, ProposalsKept DEF BoardInv
<1>14. \A x \in Syncer : SyncFits(x)'
  BY <1>0, <1>1, <1>9, SyncerKept DEF BoardInv, sync
<1>15. CardsChosen'
  <2>1. ASSUME NEW x, NEW s, x = t, s = p.to PROVE Asked(x, s)'
    <3>1. PICK n : n = m
      OBVIOUS
    <3>2. n \in moves' /\ n.p.task = x /\ n.p.to = s /\ strict' = strict
      BY <1>1, <1>5, <2>1, <3>1 DEF t
    <3>3. n.p.actor \in People /\ (strict' => n.by \in People \ {n.p.actor})
      BY <1>2, <1>5, <3>1, <3>2
    <3>4. QED
      BY <3>2, <3>3 DEF Asked
  <2>2. ASSUME NEW x \in Task
        PROVE  \/ card'[x].status = card[x].status
               \/ \E s \in {card'[x].status} : Asked(x, s)'
    <3>1. CASE x # t
      BY <1>8, <3>1
    <3>2. CASE x = t
      <4>1. PICK s : s = card'[x].status
        OBVIOUS
      <4>2. Asked(x, s)'
        BY <1>8, <2>1, <3>2, <4>1
      <4>3. QED
        BY <4>1, <4>2
    <3>3. QED
      BY <3>1, <3>2
  <2>3. QED
    BY <1>1, <2>2, ChosenKept DEF BoardInv, sync
<1>16. ASSUME crashes' = 0 PROVE MarksFit' /\ DuesFit'
  <2>1. MarksFit /\ DuesFit
    BY <1>1, <1>16 DEF BoardInv
  <2>2. MarksFit'
    <3>1. \A x \in Task : card'[x].present <=> card[x].present
      BY <1>8
    <3>2. QED
      BY <1>1, <2>1, <3>1, MarksKept DEF sync
  <2>3. \A x \in Syncer, y \in due' : WillApply(x, y) => WillApply(x, y)'
    BY <1>1 DEF WillApply, sync
  <2>4. \A y \in due' : card[y].status = "done" => card'[y].status = "done"
    BY <1>0, <1>1, <1>8 DEF BoardTyped
  <2>5. DuesFit'
    BY <1>0, <1>1, <1>9, <2>1, <2>3, <2>4, DuesKept, ReportsStay
  <2>6. QED
    BY <2>2, <2>5
<1>17. QED
  BY <1>10, <1>11, <1>12, <1>13, <1>14, <1>15, <1>16 DEF BoardInv

\* The verdict is recorded, unless it is a replay or was recorded before.
LEMMA SettleKeeps ==
    ASSUME BoardInv, NEW h \in Handler, Settle(h)
    PROVE  BoardInv'
<1>0. BoardTyped /\ PersonStep(h) /\ PersonFits(h) /\ ProposalsFit
  BY DEF BoardInv, PersonStep
<1> DEFINE q == req[h]
           v == [p |-> q.p, way |-> q.way, verdict |-> q.out, at |-> q.at]
<1>1. /\ ppc[h] = "settle"
      /\ verdicts' = verdicts \/ (q.way # "replay" /\ verdicts' = verdicts \cup {v})
      /\ ppc' = [ppc EXCEPT ![h] = "done"]
      /\ req' = [req EXCEPT ![h] = NoReq]
      /\ view' = [view EXCEPT ![h] = "none"]
      /\ UNCHANGED <<card, syncs, reported, proposals, strict, sync, clock, history>>
  BY DEF Settle
<1>2. /\ q \in Asking /\ q.p \in Proposal /\ q.p \in proposals /\ q.at \in 1..clock
      /\ q.out \in Verdict /\ (q.out = "approval_required" => q.p.actor \in People)
  BY <1>0, <1>1 DEF BoardTyped, PersonFits
<1>3. q.way # "replay" => v \in Decided
  <2>1. q.way \in {"first", "second", "replay"} /\ q.at \in Nat
    BY <1>2 DEF Asking
  <2>2. QED
    BY <1>2, <2>1 DEF Decided
<1>4. v.p = q.p /\ v.verdict = q.out /\ v.at = q.at
  OBVIOUS
<1> HIDE DEF q, v
<1>5. /\ verdicts' \subseteq Decided
      /\ \A u \in verdicts' : u \in verdicts \/ u = v
  BY <1>0, <1>1, <1>3 DEF BoardTyped
<1>6. NoReq \in Asking
  BY DEF NoReq, Asking
<1>7. /\ req' \in [Handler -> Asking] /\ ppc'[h] = "done"
      /\ clock' \in Nat /\ clock <= clock'
  BY <1>0, <1>1, <1>6 DEF BoardTyped
<1>8. BoardTyped'
  <2>1. \A u \in verdicts' : u.at \in 1..clock'
    BY <1>0, <1>1, <1>2, <1>4, <1>5 DEF BoardTyped
  <2>2. QED
    BY <1>0, <1>1, <1>5, <1>7, <2>1 DEF BoardTyped, PersonPc, sync, history
<1>9. PersonFits(h)'
  BY <1>7 DEF PersonFits
<1>10. /\ \A x \in Syncer : SyncFits(x)'
       /\ CardsChosen' /\ CardsRemain
       /\ crashes' = 0 => MarksFit' /\ DuesFit'
  BY <1>1, SyncsKept
<1>11. \A x \in Handler \ {h} : PersonFits(x)'
  BY <1>0, <1>1, <1>7, <1>10, OtherPeople, PersonKept DEF BoardInv
<1>12. ProposalsFit'
  BY <1>0, <1>1, <1>2, <1>4, <1>5 DEF ProposalsFit
<1>13. QED
  BY <1>8, <1>9, <1>10, <1>11, <1>12 DEF BoardInv

\* An empty board.
LEMMA BoardStarts == BoardInit => BoardInv
<1> SUFFICES ASSUME BoardInit PROVE BoardInv
  OBVIOUS
<1> USE DEF BoardInit
<1>1. syncs \in Seq(SyncRow) /\ Len(syncs) = 0
  OBVIOUS
<1>2. Unread \in [Task -> Card \cup {NoCard}] /\ NoReq \in Asking
  BY DEF Unread, NoReq, Asking
<1>3. BoardTyped
  BY <1>1, <1>2, CrashesAssumption DEF BoardTyped, SyncPc, PersonPc
<1>4. \A r \in Syncer : SyncFits(r)
  BY DEF SyncFits
<1>5. \A h \in Handler : PersonFits(h)
  BY DEF PersonFits
<1>6. ProposalsFit
  BY DEF ProposalsFit
<1>7. CardsChosen
  BY CardsTyped DEF CardsChosen, Chosen, Unread
<1>8. MarksFit /\ DuesFit
  BY LineAssumption DEF MarksFit, DuesFit, File
<1>9. QED
  BY <1>3, <1>4, <1>5, <1>6, <1>7, <1>8 DEF BoardInv

\* No step of a sync, of a person or of an execution breaks it.
LEMMA BoardStep == BoardInv /\ [BoardNext]_boardVars => BoardInv'
<1> SUFFICES ASSUME BoardInv, [BoardNext]_boardVars PROVE BoardInv'
  OBVIOUS
<1>1. ASSUME NEW r \in Syncer, SyncStep(r) PROVE BoardInv'
  BY <1>1, SyncStarts, UpsertKeeps, MarkAbsentKeeps, RecordSyncKeeps, ApplyReadKeeps,
     ApplyReportKeeps, CrashKeeps DEF SyncStep
<1>2. ASSUME NEW h \in Handler, PersonStep(h) PROVE BoardInv'
  BY <1>2, DragKeeps, RecordProposalKeeps, AnswerKeeps, LookAgainKeeps, ApplyMoveKeeps,
     SettleKeeps DEF PersonStep
<1>3. ASSUME NEW e \in Execution, NEW t \in Task, Report(e, t) PROVE BoardInv'
  BY <1>3, ReportKeeps
<1>4. CASE UNCHANGED boardVars
  <2>1. UNCHANGED <<card, syncs, reported, strict, proposals, verdicts, sync, person, history>>
    BY <1>4 DEF boardVars, rows
  <2>2. BoardTyped'
    BY <2>1 DEF BoardInv, BoardTyped, sync, person, history
  <2>3. /\ \A x \in Syncer : SyncFits(x)'
        /\ CardsChosen' /\ CardsRemain
        /\ crashes' = 0 => MarksFit' /\ DuesFit'
    BY <2>1, SyncsKept
  <2>4. (\A h \in Handler : PersonFits(h)') /\ ProposalsFit'
    BY <2>1, <2>3, PeopleKept DEF person
  <2>5. QED
    BY <2>2, <2>3, <2>4 DEF BoardInv
<1>5. QED
  BY <1>1, <1>2, <1>3, <1>4 DEF BoardNext

\* The types the runs check.
LEMMA BoardTypes == BoardInv => BoardTypeOK
<1> SUFFICES ASSUME BoardInv PROVE BoardTypeOK
  OBVIOUS
<1>1. BoardTyped
  BY DEF BoardInv
<1>2. verdicts \subseteq [p: Proposal, way: {"first", "second"}, verdict: Verdict, at: 1..clock]
  <2>1. ASSUME NEW v \in verdicts
        PROVE  v \in [p: Proposal, way: {"first", "second"}, verdict: Verdict, at: 1..clock]
    <3>1. v \in Decided /\ v.at \in 1..clock
      BY <1>1 DEF BoardTyped
    <3>2. QED
      BY <3>1 DEF Decided
  <2>2. QED
    BY <2>1
<1>3. \A r \in Syncer : latest[r] \in 0..Len(syncs) /\ todo[r] \subseteq Task
  BY <1>1 DEF BoardTyped
<1>4. \A h \in Handler : ppc[h] \in {"idle", "done"} \/ req[h].p \in Proposal
  BY <1>1 DEF BoardInv, BoardTyped, PersonFits, PersonPc
<1>5. QED
  BY <1>1, <1>2, <1>3, <1>4 DEF BoardTyped, BoardTypeOK, SyncRow

\* The board is as BoardInv says, whatever interleaves.
LEMMA BoardInvariance == BoardSpec => []BoardInv
BY BoardStarts, BoardStep, PTL DEF BoardSpec

\* When syncs have interleaved and all ended, none having died, the cards shown as
\* present are those of the file parsed last, and a card that a report has reached
\* and no person has moved since is done (upsertTask, markAbsent, applyFor).
THEOREM BoardAgrees == BoardSpec => []BoardAgreesAtRest
<1>1. BoardInv => BoardAgreesAtRest
  <2> SUFFICES ASSUME BoardInv, Quiet PROVE BoardAgreesAtRest
    BY DEF BoardAgreesAtRest
  <2>1. MarksFit /\ DuesFit /\ \A r \in Syncer : spc[r] \in {"idle", "done"}
    BY DEF BoardInv, Quiet
  <2>2. ASSUME marked \in File PROVE {t \in Task : card[t].present} = KeysOf(marked)
    <3>1. KeysOf(marked) \subseteq Task
      BY <2>2, LinesTyped
    <3>2. QED
      BY <2>1, <2>2, <3>1 DEF MarksFit
  <2>3. \A t \in due : card[t].status = "done"
    BY <2>1 DEF DuesFit, WillApply
  <2>4. QED
    BY <2>2, <2>3 DEF BoardAgreesAtRest
<1>2. QED
  BY <1>1, BoardInvariance, PTL

\* A card is in progress or blocked only because a person who may move cards asked for
\* it and, where the project requires it, another such person approved it (adjudicate,
\* adjudicatePending, reconcile, applyFor).
THEOREM PeopleChoose == BoardSpec => []ChosenByPeople
<1>1. BoardInv => ChosenByPeople
  BY BoardTypes DEF BoardInv, CardsChosen, Chosen, Asked, ChosenByPeople
<1>2. QED
  BY <1>1, BoardInvariance, PTL
=============================================================================
