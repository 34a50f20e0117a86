---------------------------- MODULE Provisioning ----------------------------
(***************************************************************************)
(* A project's directory: prepared by the API, initialised by the worker.  *)
(*                                                                         *)
(* A request walks seven steps, then records what it did and only then     *)
(* writes the project's state; its last step queues a job, and the worker  *)
(* that takes it initialises the directory, records that, and writes the   *)
(* same state.  The next request trusts the latest record and resumes      *)
(* where it stopped.  Nothing orders the request and the worker, and       *)
(* either may die anywhere.                                                *)
(*                                                                         *)
(* Specification and state are named for the provisioning, because the     *)
(* proofs extend this module beside another component's.                   *)
(***************************************************************************)
EXTENDS Naturals, Sequences, FiniteSets, SequencesExt

CONSTANTS
    Project, Dir, NoDir,
    Request,     \* handlers of POST :id/provision, each serving one request
    Wanted,      \* bound: request -> what it may name, [project, dir]
    InUse,       \* bound: directories that may hold files of the user
    Reader,      \* handlers of GET :id, each serving one request
    MaxTroubles  \* steps that fail for a reason of the host, requests or workers that die

ASSUME NoDirAssumption == NoDir \notin Dir
ASSUME WantedAssumption ==
    Wanted \in [Request -> SUBSET [project: Project, dir: Dir]]
ASSUME TroublesAssumption == MaxTroubles \in Nat

State == {"not_provisioned", "prepared", "initialisation_pending", "provisioned", "failed"}
Outcome == {"succeeded", "no_change", "pending", "failed"}

PREPARE_STEPS == <<"check_root", "create_directory", "adopt_or_init_git",
    "write_project_json", "merge_mcp_json", "copy_setup_skill", "queue_initialise">>
INITIALISE_STEPS == <<"run_engine_init", "copy_extension", "register_hooks", "verify_structure">>
Prepare == ToSet(PREPARE_STEPS)
Initialise == ToSet(INITIALISE_STEPS)
UserFile == <<"user", "file">>
FileSteps == {"write_project_json", "merge_mcp_json", "copy_setup_skill"}

VARIABLES
    state, root,  \* projects.provisioningState and rootPath
    records,      \* provisioning_records of a project, in the order of the inserts
    files,        \* directory -> what it holds: <<tables, step>>, or UserFile
    jobs,         \* generation_jobs of kind initialise_workspace
    clock,        \* the last time stamp given
    pc, req,      \* a request under way
    wpc, work,    \* a worker's delivery of a job under way
    rpc, copied,  \* a read under way
    asked,        \* history: the directories requests named for a project
    troubles

tables == <<state, root, records, jobs>>
request == <<pc, req>>
worker == <<wpc, work>>
reader == <<rpc, copied>>
provisionVars == <<tables, files, clock, request, worker, reader, asked, troubles>>

Idle == [project |-> NoDir, dir |-> NoDir, at |-> 0, state |-> "not_provisioned", done |-> {}, before |-> {},
         host |-> NoDir, failed |-> "none", job |-> 0]
NoCopy == [project |-> NoDir, steps |-> {}]
NoWork == [at |-> 0, before |-> {}, done |-> {}]

ProvisionInit ==
    /\ state = [p \in Project |-> "not_provisioned"]
    /\ root = [p \in Project |-> NoDir]
    /\ records = [p \in Project |-> <<>>]
    /\ files \in {held \in [Dir -> {{}, {UserFile}}] : \A d \in Dir \ InUse : held[d] = {}}
    /\ jobs = <<>>
    /\ clock = 0
    /\ pc = [r \in Request |-> "idle"]
    /\ req = [r \in Request |-> Idle]
    /\ wpc = <<>>
    /\ work = <<>>
    /\ rpc = [g \in Reader |-> "idle"]
    /\ copied = [g \in Reader |-> NoCopy]
    /\ asked = [p \in Project |-> {}]
    /\ troubles = 0

Of(r) == req[r].project
\* The record with the latest start; of two that started together, the last one.
latestForProject(p) ==
    LET of == records[p]
    IN  of[CHOOSE i \in DOMAIN of : \A k \in DOMAIN of :
               of[k].at < of[i].at \/ (of[k].at = of[i].at /\ k <= i)]

stateAfter(record) ==
    CASE record.outcome = "failed" -> "failed"
      [] record.outcome = "pending" -> "initialisation_pending"
      [] record.outcome = "succeeded" ->
            IF "verify_structure" \in record.steps THEN "provisioned" ELSE "prepared"
      [] OTHER -> "none"

append(p, at, outcome, steps, failed) ==
    records' = [records EXCEPT ![p] = Append(@,
        [at |-> at, outcome |-> outcome, steps |-> steps, failed |-> failed])]
Trouble == troubles < MaxTroubles /\ troubles' = troubles + 1
-----------------------------------------------------------------------------
(* A request to prepare, or to go on preparing. *)

\* What the latest record did and this run skips.  A record of a job nobody took
\* keeps its files and queues again.
completed(p) ==
    IF records[p] = <<>> \/ root[p] = NoDir THEN {}
    ELSE LET previous == latestForProject(p)
         IN  (previous.steps \cap Prepare)
             \ (IF previous.outcome = "pending" THEN {"queue_initialise"} ELSE {})

\* A provisioned project is left alone, and a record says so.
NoChange(r) ==
    /\ pc[r] = "idle"
    /\ clock' = clock + 1
    /\ \E t \in Wanted[r] :
        /\ state[t.project] = "provisioned"
        /\ append(t.project, clock', "no_change", Prepare \cup Initialise, "none")
    /\ pc' = [pc EXCEPT ![r] = "done"]
    /\ UNCHANGED <<state, root, jobs, files, req, worker, reader, asked, troubles>>

Open(r) ==
    /\ pc[r] = "idle"
    /\ clock' = clock + 1
    /\ \E t \in Wanted[r] :
        LET p == t.project
        IN  /\ state[p] # "provisioned"
            /\ req' = [req EXCEPT ![r] = [Idle EXCEPT !.project = p, !.dir = t.dir,
                    !.at = clock', !.state = state[p], !.host = root[p],
                    !.done = completed(p), !.before = completed(p)]]
            /\ asked' = [asked EXCEPT ![p] = @ \cup {t.dir}]
    /\ pc' = [pc EXCEPT ![r] = "steps"]
    /\ UNCHANGED <<tables, files, worker, reader, troubles>>

\* The step a request is at: the first it has not completed.
step(r) ==
    LET todo == {i \in DOMAIN PREPARE_STEPS : PREPARE_STEPS[i] \notin req[r].done}
    IN  IF todo = {} THEN "none" ELSE PREPARE_STEPS[Min(todo)]

\* .git and the directory itself do not make it one that is in use.
Occupied(d) == \E f \in files[d] : f = UserFile \/ f[2] \in FileSteps \cup Initialise

finish(r) == [req EXCEPT ![r].done = @ \cup {step(r)}]

CheckRoot(r) ==
    /\ pc[r] = "steps"
    /\ step(r) = "check_root"
    /\ \A q \in Project \ {Of(r)} : root[q] # req[r].dir
    /\ req' = [finish(r) EXCEPT ![r].host = req[r].dir]
    /\ UNCHANGED <<tables, files, clock, pc, worker, reader, asked, troubles>>

CreateDirectory(r) ==
    /\ pc[r] = "steps"
    /\ step(r) = "create_directory"
    /\ ~Occupied(req[r].dir)
    /\ files' = [files EXCEPT ![req[r].dir] = @ \cup {<<Of(r), "create_directory">>}]
    /\ req' = finish(r)
    /\ UNCHANGED <<tables, clock, pc, worker, reader, asked, troubles>>

\* git init, .pmi/project.json, .mcp.json and the setup skill.  A resumed run
\* writes under the path of its own request.
WriteStep(r) ==
    /\ pc[r] = "steps"
    /\ step(r) \in {"adopt_or_init_git"} \cup FileSteps
    /\ files' = [files EXCEPT ![req[r].dir] = @ \cup {<<Of(r), step(r)>>}]
    /\ req' = finish(r)
    /\ UNCHANGED <<tables, clock, pc, worker, reader, asked, troubles>>

\* Mutant: the key of a job does not name its project.
LiveAnywhere(p) == \E j \in DOMAIN jobs : jobs[j].state \in {"queued", "running"}

Live(p) == \E j \in DOMAIN jobs : jobs[j].project = p /\ jobs[j].state \in {"queued", "running"}

\* jobs.submit joins a live job of the same project, or decides to create one.
FindLive(r) ==
    /\ pc[r] = "steps"
    /\ step(r) = "queue_initialise"
    /\ IF Live(Of(r)) THEN req' = finish(r) /\ UNCHANGED pc
                      ELSE pc' = [pc EXCEPT ![r] = "submit"] /\ UNCHANGED req
    /\ UNCHANGED <<tables, files, clock, worker, reader, asked, troubles>>

\* The row first: it can be joined, but no worker has been told of it.
CreateJob(r) ==
    /\ pc[r] = "submit"
    /\ jobs' = Append(jobs, [project |-> Of(r), dir |-> req[r].dir,
                             state |-> "queued", started |-> 0])
    /\ wpc' = Append(wpc, "created")
    /\ work' = Append(work, NoWork)
    /\ req' = [req EXCEPT ![r].job = Len(jobs) + 1]
    /\ pc' = [pc EXCEPT ![r] = "enqueue"]
    /\ UNCHANGED <<state, root, records, files, clock, reader, asked, troubles>>

EnqueueJob(r) ==
    /\ pc[r] = "enqueue"
    /\ wpc' = [wpc EXCEPT ![req[r].job] = "queued"]
    /\ req' = [finish(r) EXCEPT ![r].job = 0]
    /\ pc' = [pc EXCEPT ![r] = "steps"]
    /\ UNCHANGED <<tables, files, clock, work, reader, asked, troubles>>

StepFailure(r, at) ==
    /\ pc' = [pc EXCEPT ![r] = "failing"]
    /\ req' = [req EXCEPT ![r].failed = at, ![r].job = 0]

\* A step refuses: the path is another project's, or the directory is in use.
RefuseStep(r) ==
    /\ pc[r] = "steps"
    /\ \/ /\ step(r) = "check_root"
          /\ \E q \in Project \ {Of(r)} : root[q] = req[r].dir
          /\ StepFailure(r, step(r))
       \/ /\ step(r) = "create_directory"
          /\ Occupied(req[r].dir)
          /\ StepFailure(r, step(r))
    /\ UNCHANGED <<tables, files, clock, worker, reader, asked, troubles>>

\* A step throws: the root is not mounted, the disk is full, git or the broker is
\* missing.  A run that resumes has its path resolved before its first step, and
\* fails there at check_root, though that counts as done.
Throw(r) ==
    /\ pc[r] \in {"steps", "submit", "enqueue"}
    /\ Trouble
    /\ \/ step(r) # "none" /\ StepFailure(r, step(r))
       \/ /\ pc[r] = "steps"
          /\ "check_root" \in req[r].before /\ req[r].done = req[r].before
          /\ StepFailure(r, "check_root")
    /\ UNCHANGED <<tables, files, clock, worker, reader, asked>>

\* Mutant: the step that failed is recorded as completed.
RecordFailedStep(r) ==
    /\ pc[r] = "failing"
    /\ append(Of(r), req[r].at, "failed", req[r].done \cup {req[r].failed}, req[r].failed)
    /\ pc' = [pc EXCEPT ![r] = "fail"]
    /\ UNCHANGED <<state, root, jobs, files, clock, req, worker, reader, asked, troubles>>

RecordFailure(r) ==
    /\ pc[r] = "failing"
    /\ append(Of(r), req[r].at, "failed", req[r].done, req[r].failed)
    /\ pc' = [pc EXCEPT ![r] = "fail"]
    /\ UNCHANGED <<state, root, jobs, files, clock, req, worker, reader, asked, troubles>>

\* (workspaceId, rootPath) is unique: the update of a second owner throws.
Taken(r) == \E q \in Project \ {Of(r)} : req[r].host # NoDir /\ root[q] = req[r].host

update(r, s) ==
    /\ state' = IF Taken(r) THEN state ELSE [state EXCEPT ![Of(r)] = s]
    /\ root' = IF Taken(r) \/ req[r].host = NoDir THEN root
               ELSE [root EXCEPT ![Of(r)] = req[r].host]
    /\ pc' = [pc EXCEPT ![r] = "done"]
    /\ req' = [req EXCEPT ![r] = Idle]
    /\ UNCHANGED <<records, jobs, files, clock, worker, reader, asked, troubles>>

UpdateFailed(r) == pc[r] = "fail" /\ update(r, "failed")

\* Every step was already done and nothing was queued again: a no-op.
outcome(r) == IF req[r].before = Prepare THEN "no_change" ELSE "succeeded"

RecordPrepared(r) ==
    /\ pc[r] = "steps"
    /\ step(r) = "none"
    /\ append(Of(r), req[r].at, outcome(r), req[r].done, "none")
    /\ pc' = [pc EXCEPT ![r] = "update"]
    /\ UNCHANGED <<state, root, jobs, files, clock, req, worker, reader, asked, troubles>>

\* The state written is the record's, or the one read when the request began.
UpdatePrepared(r) ==
    LET s == stateAfter([outcome |-> outcome(r), steps |-> req[r].done])
    IN  pc[r] = "update" /\ update(r, IF s = "none" THEN req[r].state ELSE s)

CrashRequest(r) ==
    /\ pc[r] \notin {"idle", "done"}
    /\ Trouble
    /\ pc' = [pc EXCEPT ![r] = "done"]
    /\ req' = [req EXCEPT ![r] = Idle]
    /\ UNCHANGED <<tables, files, clock, worker, reader, asked>>

RequestStep(r) ==
    \/ NoChange(r) \/ Open(r) \/ CheckRoot(r) \/ CreateDirectory(r) \/ WriteStep(r)
    \/ FindLive(r) \/ CreateJob(r) \/ EnqueueJob(r) \/ RefuseStep(r) \/ Throw(r)
    \/ RecordFailure(r) \/ UpdateFailed(r) \/ RecordPrepared(r) \/ UpdatePrepared(r)
    \/ CrashRequest(r)
-----------------------------------------------------------------------------
(* The worker.  A delivery that is not acknowledged is made again. *)

Advance(j, at) == wpc' = [wpc EXCEPT ![j] = at]

\* The initialiser runs its four steps in the job's directory, and stops at the
\* first that fails; an initialiser that throws is a failed first step.
RunInitialiser(j) ==
    LET p == jobs[j].project
    IN  /\ wpc[j] = "queued"
        /\ \E k \in 0..Len(INITIALISE_STEPS) :
            /\ IF k < Len(INITIALISE_STEPS) THEN Trouble ELSE UNCHANGED troubles
            /\ LET done == ToSet(SubSeq(INITIALISE_STEPS, 1, k))
               IN  /\ files' = [files EXCEPT ![jobs[j].dir] = @ \cup ({p} \X done)]
                   /\ work' = [work EXCEPT ![j].done = done]
        /\ Advance(j, "finalise")
        /\ UNCHANGED <<tables, clock, request, reader, asked>>

\* finaliseInitialisation: the job is marked running, the latest record read.
FinaliseJob(j) ==
    LET p == jobs[j].project
    IN  /\ wpc[j] = "finalise"
        /\ clock' = clock + 1
        /\ jobs' = IF jobs[j].state = "queued"
                   THEN [jobs EXCEPT ![j].state = "running", ![j].started = clock'] ELSE jobs
        /\ work' = [work EXCEPT
              ![j].at = IF jobs[j].started = 0 THEN clock' ELSE jobs[j].started,
              ![j].before = IF records[p] = <<>> THEN {}
                            ELSE latestForProject(p).steps \ Initialise]
        /\ Advance(j, "record")
        /\ UNCHANGED <<state, root, records, files, request, reader, asked, troubles>>

Ok(j) == "verify_structure" \in work[j].done

FinaliseRecord(j) ==
    /\ wpc[j] = "record"
    /\ append(jobs[j].project, work[j].at, IF Ok(j) THEN "succeeded" ELSE "failed",
              work[j].before \cup work[j].done,
              IF Ok(j) THEN "none" ELSE INITIALISE_STEPS[Cardinality(work[j].done) + 1])
    /\ Advance(j, "project")
    /\ UNCHANGED <<state, root, jobs, files, clock, request, work, reader, asked, troubles>>

FinaliseProject(j) ==
    /\ wpc[j] = "project"
    /\ state' = [state EXCEPT ![jobs[j].project] = IF Ok(j) THEN "provisioned" ELSE "failed"]
    /\ Advance(j, "settle")
    /\ UNCHANGED <<root, records, jobs, files, clock, request, work, reader, asked, troubles>>

SettleJob(j) ==
    /\ wpc[j] = "settle"
    /\ jobs' = [jobs EXCEPT ![j].state = IF Ok(j) THEN "succeeded" ELSE "failed"]
    /\ Advance(j, "done")
    /\ work' = [work EXCEPT ![j] = NoWork]
    /\ UNCHANGED <<state, root, records, files, clock, request, reader, asked, troubles>>

CrashWorker(j) ==
    /\ wpc[j] \notin {"created", "queued", "done"}
    /\ Trouble
    /\ Advance(j, "queued")
    /\ work' = [work EXCEPT ![j] = NoWork]
    /\ UNCHANGED <<tables, files, clock, request, reader, asked>>

WorkerStep(j) ==
    \/ RunInitialiser(j) \/ FinaliseJob(j) \/ FinaliseRecord(j)
    \/ FinaliseProject(j) \/ SettleJob(j) \/ CrashWorker(j)
-----------------------------------------------------------------------------
(* A read of a project whose job has waited too long. *)

LastJob(p) ==
    LET of == {j \in DOMAIN jobs : jobs[j].project = p}
    IN  IF of = {} THEN [state |-> "none"] ELSE jobs[CHOOSE j \in of : \A k \in of : k <= j]

RefreshRead(g) ==
    /\ rpc[g] = "idle"
    /\ \E p \in Project :
        /\ state[p] = "prepared"
        /\ LastJob(p).state = "queued"
        /\ copied' = [copied EXCEPT ![g] = [project |-> p, steps |-> latestForProject(p).steps]]
    /\ rpc' = [rpc EXCEPT ![g] = "append"]
    /\ UNCHANGED <<tables, files, clock, request, worker, asked, troubles>>

RefreshAppend(g) ==
    /\ rpc[g] = "append"
    /\ clock' = clock + 1
    /\ append(copied[g].project, clock', "pending", copied[g].steps, "none")
    /\ rpc' = [rpc EXCEPT ![g] = "update"]
    /\ UNCHANGED <<state, root, jobs, files, request, worker, copied, asked, troubles>>

RefreshUpdate(g) ==
    /\ rpc[g] = "update"
    /\ state' = [state EXCEPT ![copied[g].project] = "initialisation_pending"]
    /\ rpc' = [rpc EXCEPT ![g] = "done"]
    /\ copied' = [copied EXCEPT ![g] = NoCopy]
    /\ UNCHANGED <<root, records, jobs, files, clock, request, worker, asked, troubles>>

ProvisionNext ==
    \/ \E r \in Request : RequestStep(r)
    \/ \E j \in DOMAIN jobs : WorkerStep(j)
    \/ \E g \in Reader : RefreshRead(g) \/ RefreshAppend(g) \/ RefreshUpdate(g)

ProvisionSpec == ProvisionInit /\ [][ProvisionNext]_provisionVars
-----------------------------------------------------------------------------
Step == Prepare \cup Initialise
Record == [at: Nat, outcome: Outcome, steps: SUBSET Step, failed: Step \cup {"none"}]
Content == {UserFile} \cup (Project \X Step)
Beginnings == {{PREPARE_STEPS[i] : i \in 1..k} : k \in 0..Len(PREPARE_STEPS)}

\* The steps that left something for a project in a directory it was asked for;
\* two leave nothing.
Leaving == Step \ {"check_root", "queue_initialise"}
Left(p) == {s \in Leaving : \E d \in asked[p] : <<p, s>> \in files[d]}

\* Types of the variables; a failed record, and only such a record, names a step.
ProvisionTypeOK ==
    /\ state \in [Project -> State]
    /\ root \in [Project -> Dir \cup {NoDir}]
    /\ \A p \in Project : \A i \in DOMAIN records[p] :
        /\ records[p][i] \in Record
        /\ records[p][i].failed # "none" <=> records[p][i].outcome = "failed"
    /\ \A d \in Dir : files[d] \subseteq Content
    /\ jobs \in Seq([project: Project, dir: Dir,
                     state: {"queued", "running", "succeeded", "failed"}, started: Nat])
    /\ Len(wpc) = Len(jobs) /\ Len(work) = Len(jobs)
    /\ clock \in Nat
    /\ \A r \in Request : req[r].done \subseteq Prepare /\ req[r].host \in Dir \cup {NoDir}
    /\ troubles \in 0..MaxTroubles

\* A record claims only what happened: every step it lists as completed that
\* leaves something in the directory left it in one that a request named for the
\* project, so in one and the same unless requests named several.  Runs that
\* fail, die, resume, wait for a worker or race it never claim more, and what
\* they claim of the prepare half has no gap, so that the first missing step is
\* where to resume (attempt, prepare, refresh, finaliseInitialisation).
\* Includes the types.
RecordedStepsAreTrue == ProvisionTypeOK /\
    \A p \in Project :
        LET there == Left(p)
        IN  \A i \in DOMAIN records[p] :
                /\ records[p][i].steps \cap Leaving \subseteq there
                /\ records[p][i].steps \cap Prepare \in Beginnings

\* A worker was told of the job, or a request is about to tell it.
Enqueued(j) == wpc[j] # "created"
Enqueueing(j) == \E r \in Request : pc[r] = "enqueue" /\ req[r].job = j

\* A project reads prepared - "wait" - only when there is a job to initialise it,
\* whatever failed, was resumed or raced; and one that a worker was told of or will
\* be, unless a request died or a call failed (stateAfter, prepare, jobs.submit).
PreparedWasSubmitted ==
    \A p \in Project : state[p] = "prepared" =>
        \E j \in DOMAIN jobs :
            jobs[j].project = p /\ (troubles > 0 \/ Enqueued(j) \/ Enqueueing(j))

\* A project reads prepared only when a worker was told to initialise it.  Not kept:
\* a run joins the row of a submission that did not get to the broker.
PreparedWasQueued ==
    \A p \in Project : state[p] = "prepared" =>
        \E j \in DOMAIN jobs : jobs[j].project = p /\ Enqueued(j)

\* "Provisioned is terminal.  Only a no-op leaves it where it is" (TRANSITIONS).
\* Not kept: a request writes its own state after the worker has finished.
ProvisionedIsTerminal ==
    [][\A p \in Project : state[p] = "provisioned" => state'[p] = "provisioned"]_provisionVars

\* "A re-run from failed or initialisation_pending resumes at the first
\* incomplete step" (data-model): it is never a run that does nothing.  Not kept:
\* queue_initialise counts as done although the job it queued has failed.
FailedRunResumes ==
    \A r \in Request : pc[r] = "update" /\ req[r].state = "failed" => outcome(r) # "no_change"

\* "On resume the record carries the path" (prepare): a run that goes on where
\* another stopped writes to the directory that one was given.  Not kept: it
\* writes to the one its own request names, and checks neither its owner nor
\* that it is empty.
ResumesWhereItBegan ==
    \A r \in Request : pc[r] \in {"steps", "submit", "enqueue"} /\ "check_root" \in req[r].done =>
        req[r].dir = req[r].host
=============================================================================
