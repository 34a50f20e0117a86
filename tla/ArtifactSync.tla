---------------------------- MODULE ArtifactSync ----------------------------
(***************************************************************************)
(* Artifact synchronisation: the finish hook of a command sends the        *)
(* markdown files of an Epic.  Each content is stored once, the Epic's     *)
(* spec.md becomes a version of the Epic's specification, and then the     *)
(* sync and its manifest are recorded under the request's key.             *)
(*                                                                         *)
(* No lock orders two syncs: unique indexes decide every race, and the     *)
(* loser reads the winner's row.  A process may die between any two of     *)
(* its round trips; the hook sends the request again.  A digest is the     *)
(* content it is the digest of.                                            *)
(***************************************************************************)
EXTENDS Naturals, Sequences, FiniteSets

CONSTANTS
    Execution, Epic, Unbound,
    EpicOf,      \* execution -> the Epic its binding resolves to, or Unbound
    Path, SpecPath, \* paths of the artifact set; those of a spec.md
    Content,
    Key,
    Attempt,     \* bound: the requests hooks send, [exec, key, files]
    Syncer,      \* concurrent handlers of the sync route
    MaxTries,    \* inserts of a version a sync attempts: 3 in the code
    MaxCrashes

ASSUME EpicAssumption == EpicOf \in [Execution -> Epic \cup {Unbound}] /\ Unbound \notin Epic
ASSUME PathAssumption == SpecPath \subseteq Path

\* A file as sent: its digest is what the hook states.
SyncedFile == [path: Path, digest: Content, content: Content]
ASSUME AttemptAssumption ==
    Attempt \subseteq [exec: Execution, key: Key, files: Seq(SyncedFile)] /\ Attempt # {}
ASSUME BoundsAssumption == MaxTries \in Nat \ {0} /\ MaxCrashes \in Nat

VARIABLES
    versions,    \* artifact_versions, in the order of the inserts
    syncs,       \* artifact_syncs, each with its manifest
    contents,    \* <<epic, path>> -> the versions of its specification, in order
    current,     \* <<epic, path>> -> the version its currentVersionId points at
    pc, req,     \* per handler: the next step and the request
    manifest,    \* per handler: what it did with the files so far
    head, tries, \* per handler: the version it read last, the inserts it lost
    answer,      \* per handler: the recorded sync it answers from
    crashes

rows == <<versions, syncs, contents, current>>
locals == <<req, manifest, head, tries, answer>>
vars == <<rows, pc, locals, crashes>>

NoRequest == CHOOSE a \in Attempt : TRUE

Init ==
    /\ versions = <<>>
    /\ syncs = <<>>
    /\ contents = [s \in Epic \X SpecPath |-> <<>>]
    /\ current = [s \in Epic \X SpecPath |-> 0]
    /\ pc = [r \in Syncer |-> "idle"]
    /\ req = [r \in Syncer |-> NoRequest]
    /\ manifest = [r \in Syncer |-> <<>>]
    /\ head = [r \in Syncer |-> 0]
    /\ tries = [r \in Syncer |-> 0]
    /\ answer = [r \in Syncer |-> 0]
    /\ crashes = 0

Goto(r, label) == pc' = [pc EXCEPT ![r] = label]

\* The locals of a request are gone when it is answered, refused or dies.
End(r) ==
    /\ Goto(r, "idle")
    /\ req' = [req EXCEPT ![r] = NoRequest]
    /\ manifest' = [manifest EXCEPT ![r] = <<>>]
    /\ head' = [head EXCEPT ![r] = 0]
    /\ tries' = [tries EXCEPT ![r] = 0]
    /\ answer' = [answer EXCEPT ![r] = 0]
-----------------------------------------------------------------------------
(* The key of a request, and the answer to a replayed one. *)

SyncOf(key) == {i \in DOMAIN syncs : syncs[i].key = key}

\* A request arrives, first or again; its key is looked up before anything else.
FindSync(r) ==
    /\ pc[r] = "idle"
    /\ \E a \in Attempt :
        /\ req' = [req EXCEPT ![r] = a]
        /\ \/ SyncOf(a.key) = {} /\ Goto(r, "files") /\ UNCHANGED answer
           \/ \E i \in SyncOf(a.key) :
                Goto(r, "compare") /\ answer' = [answer EXCEPT ![r] = i]
    /\ UNCHANGED <<rows, manifest, head, tries, crashes>>

Stated(files) == {<<files[i].path, files[i].digest>> : i \in DOMAIN files}

\* The same execution and the same paths and digests, as both were stated.
assertSameSync(r) ==
    /\ syncs[answer[r]].exec = req[r].exec
    /\ Stated(syncs[answer[r]].files) = Stated(req[r].files)

\* The stored manifest is the answer.
Replay(r) ==
    /\ pc[r] = "compare"
    /\ assertSameSync(r)
    /\ End(r)
    /\ UNCHANGED <<rows, crashes>>

\* idempotency_conflict: never somebody else's answer.
Conflict(r) ==
    /\ pc[r] = "compare"
    /\ ~assertSameSync(r)
    /\ End(r)
    /\ UNCHANGED <<rows, crashes>>
-----------------------------------------------------------------------------
(* The files, one insert each. *)

NextFile(r) == req[r].files[Len(manifest[r]) + 1]
Done(r) == Len(manifest[r]) = Len(req[r].files)

\* Every other refusal is as blind to other state as a wrong digest.
validateFile(f) == f.digest = f.content

VersionOf(f) == {i \in DOMAIN versions :
    versions[i].path = f.path /\ versions[i].digest = f.digest}

Entry(f, outcome, version) ==
    [path |-> f.path, digest |-> f.digest, outcome |-> outcome, version |-> version]
Note(r, entry) == manifest' = [manifest EXCEPT ![r] = Append(@, entry)]

RefuseFile(r) ==
    /\ pc[r] = "files" /\ ~Done(r)
    /\ ~validateFile(NextFile(r))
    /\ Note(r, Entry(NextFile(r), "refused", 0))
    /\ UNCHANGED <<rows, pc, req, head, tries, answer, crashes>>

\* Mutant: whatever version of the path is there is taken.
createVersionOfPath(r, f) ==
    LET there == {i \in DOMAIN versions : versions[i].path = f.path}
    IN  \/ /\ there = {}
           /\ versions' = Append(versions, [path |-> f.path, digest |-> f.digest, exec |-> req[r].exec])
           /\ Note(r, Entry(f, "created", Len(versions')))
        \/ /\ \E i \in there : Note(r, Entry(f, "reused", i))
           /\ UNCHANGED versions

\* The insert comes first; a row that is there already is the plan, not an error.
createVersion(r, f) ==
    \/ /\ VersionOf(f) = {}
       /\ versions' = Append(versions, [path |-> f.path, digest |-> f.digest, exec |-> req[r].exec])
       /\ Note(r, Entry(f, "created", Len(versions')))
    \/ /\ \E i \in VersionOf(f) : Note(r, Entry(f, "reused", i))
       /\ UNCHANGED versions

StoreFile(r) ==
    /\ pc[r] = "files" /\ ~Done(r)
    /\ validateFile(NextFile(r))
    /\ createVersion(r, NextFile(r))
    /\ UNCHANGED <<syncs, contents, current, pc, req, head, tries, answer, crashes>>
-----------------------------------------------------------------------------
(* The Epic's spec.md is the Epic's specification. *)

EpicOfRequest(r) == EpicOf[req[r].exec]

\* The last spec.md that was accepted.
epicSpec(files) ==
    LET accepted == {i \in DOMAIN files : files[i].path \in SpecPath /\ validateFile(files[i])}
    IN  IF accepted = {} THEN 0 ELSE CHOOSE i \in accepted : \A k \in accepted : k <= i
SpecFile(r) == req[r].files[epicSpec(req[r].files)]
Source(r) == <<EpicOfRequest(r), SpecFile(r).path>>
HasSpec(r) == epicSpec(req[r].files) # 0 /\ EpicOfRequest(r) # Unbound

\* findByEpicSource; one that does not exist is created with its first version.
FindSpecification(r) ==
    /\ pc[r] = "files" /\ Done(r)
    /\ HasSpec(r)
    /\ Goto(r, IF contents[Source(r)] = <<>> THEN "create" ELSE "head")
    /\ UNCHANGED <<rows, locals, crashes>>

\* (epicId, sourcePath) is unique: the loser appends to the winner's.
CreateSpecification(r) ==
    /\ pc[r] = "create"
    /\ IF contents[Source(r)] = <<>>
       THEN /\ contents' = [contents EXCEPT ![Source(r)] = <<SpecFile(r).content>>]
            /\ current' = [current EXCEPT ![Source(r)] = 1]
            /\ Goto(r, "record")
       ELSE UNCHANGED <<contents, current>> /\ Goto(r, "head")
    /\ UNCHANGED <<versions, syncs, locals, crashes>>

\* Content that is the head's already adds nothing.
ReadHead(r) ==
    LET last == Len(contents[Source(r)])
    IN  /\ pc[r] = "head"
        /\ head' = [head EXCEPT ![r] = last]
        /\ Goto(r, IF contents[Source(r)][last] = SpecFile(r).content THEN "record" ELSE "append")
        /\ UNCHANGED <<rows, req, manifest, tries, answer, crashes>>

\* Mutant: the number is taken from the table, whatever the head has become.
AppendToWhateverIsThere(r) ==
    /\ pc[r] = "append"
    /\ contents' = [contents EXCEPT ![Source(r)] = Append(@, SpecFile(r).content)]
    /\ current' = [current EXCEPT ![Source(r)] = head[r] + 1]
    /\ Goto(r, "record")
    /\ UNCHANGED <<versions, syncs, locals, crashes>>

\* (specificationId, versionNumber) is unique: the loser reads the head again.
AppendVersion(r) ==
    /\ pc[r] = "append"
    /\ Len(contents[Source(r)]) = head[r]
    /\ contents' = [contents EXCEPT ![Source(r)] = Append(@, SpecFile(r).content)]
    /\ current' = [current EXCEPT ![Source(r)] = head[r] + 1]
    /\ Goto(r, "record")
    /\ UNCHANGED <<versions, syncs, locals, crashes>>

LoseAppend(r) ==
    /\ pc[r] = "append"
    /\ Len(contents[Source(r)]) # head[r]
    /\ tries[r] + 1 < MaxTries
    /\ tries' = [tries EXCEPT ![r] = @ + 1]
    /\ Goto(r, "head")
    /\ UNCHANGED <<rows, req, manifest, head, answer, crashes>>

\* The last insert it may attempt has lost: the sync fails.
GiveUp(r) ==
    /\ pc[r] = "append"
    /\ Len(contents[Source(r)]) # head[r]
    /\ tries[r] + 1 = MaxTries
    /\ End(r)
    /\ UNCHANGED <<rows, crashes>>
-----------------------------------------------------------------------------
(* The record, which marks a finished sync. *)

\* Mutant: the record is due with the files, as it was before DEF-045-002.
DueAtOnce(r) == pc[r] \in {"files", "record"} /\ Done(r)

Due(r) == pc[r] = "record" \/ (pc[r] = "files" /\ Done(r) /\ ~HasSpec(r))

\* (workspaceId, idempotencyKey) is unique: the loser compares and answers.
RecordSync(r) ==
    /\ Due(r)
    /\ \/ /\ SyncOf(req[r].key) = {}
          /\ syncs' = Append(syncs, [key |-> req[r].key, exec |-> req[r].exec,
                 epic |-> EpicOfRequest(r), files |-> manifest[r]])
          /\ End(r)
       \/ /\ \E i \in SyncOf(req[r].key) : answer' = [answer EXCEPT ![r] = i]
          /\ Goto(r, "compare")
          /\ UNCHANGED <<syncs, req, manifest, head, tries>>
    /\ UNCHANGED <<versions, contents, current, crashes>>

Crash(r) ==
    /\ pc[r] # "idle"
    /\ crashes < MaxCrashes
    /\ crashes' = crashes + 1
    /\ End(r)
    /\ UNCHANGED rows

Next == \E r \in Syncer :
    \/ FindSync(r) \/ Replay(r) \/ Conflict(r)
    \/ RefuseFile(r) \/ StoreFile(r)
    \/ FindSpecification(r) \/ CreateSpecification(r) \/ ReadHead(r)
    \/ AppendVersion(r) \/ LoseAppend(r) \/ GiveUp(r)
    \/ RecordSync(r) \/ Crash(r)

Spec == Init /\ [][Next]_vars
-----------------------------------------------------------------------------
ManifestEntry == [path: Path, digest: Content, outcome: {"created", "reused", "refused"},
                  version: 0..Len(versions)]
Pc == {"idle", "compare", "files", "create", "head",
       "append", "record"}

\* Types of the variables; a manifest row refers to a version unless it is refused.
TypeOK ==
    /\ versions \in Seq([path: Path, digest: Content, exec: Execution])
    /\ syncs \in Seq([key: Key, exec: Execution, epic: Epic \cup {Unbound}, files: Seq(ManifestEntry)])
    /\ \A s \in Epic \X SpecPath : contents[s] \in Seq(Content) /\ current[s] \in 0..Len(contents[s])
    /\ pc \in [Syncer -> Pc] /\ req \in [Syncer -> Attempt]
    /\ \A r \in Syncer :
        /\ manifest[r] \in Seq(ManifestEntry)
        /\ \A i \in DOMAIN manifest[r] : manifest[r][i].outcome = "refused" <=> manifest[r][i].version = 0
        /\ tries[r] \in 0..MaxTries /\ answer[r] \in 0..Len(syncs) /\ head[r] \in Nat
    /\ crashes \in 0..MaxCrashes

Claims(i, k) == syncs[i].files[k].outcome = "created"

\* FR-ART-001, -006: whatever syncs race, fail and are repeated, the accepted rows
\* of a manifest name the one version of their path and digest, and a sync that
\* claims to have created it is the one, of the execution the version names.
\* Includes the types.
ManifestsTellTheTruth == TypeOK /\
    \A i \in DOMAIN syncs : \A k \in DOMAIN syncs[i].files :
        LET f == syncs[i].files[k]
        IN  f.outcome # "refused" =>
              /\ VersionOf(f) = {f.version}
              /\ Claims(i, k) =>
                    /\ versions[f.version].exec = syncs[i].exec
                    /\ \A j \in DOMAIN syncs : \A l \in DOMAIN syncs[j].files :
                         Claims(j, l) /\ syncs[j].files[l].version = f.version => i = j /\ k = l

\* FR-ART-030, DEF-045-002: a recorded sync of an Epic has left its last accepted
\* spec.md among the versions of the Epic's specification, so a retry that is
\* answered from the record has nothing left to do.
RecordedSpecIsKept ==
    \A i \in DOMAIN syncs : \A k \in DOMAIN syncs[i].files :
        LET f == syncs[i].files[k]
            last == \A l \in DOMAIN syncs[i].files : l > k =>
                ~(syncs[i].files[l].path \in SpecPath /\ syncs[i].files[l].outcome # "refused")
        IN  syncs[i].epic # Unbound /\ f.path \in SpecPath /\ f.outcome # "refused" /\ last
              => \E v \in DOMAIN contents[<<syncs[i].epic, f.path>>] :
                    contents[<<syncs[i].epic, f.path>>][v] = f.digest

\* FR-ART-031: every version of a specification differs from the one before it,
\* and the current one is the last, however appends race.
VersionsAreChanges ==
    \A s \in Epic \X SpecPath :
        /\ current[s] = Len(contents[s])
        /\ \A v \in 2..Len(contents[s]) : contents[s][v] # contents[s][v - 1]

=============================================================================
