--------------------------- MODULE GenerationJobs ---------------------------
(***************************************************************************)
(* Generation jobs, from the API that submits and cancels them, through    *)
(* the queue that delivers them, to the workers that run an engine and     *)
(* commit the specification it produced.                                   *)
(*                                                                         *)
(* All jobs have one idempotency key: they are submissions of the same     *)
(* request in one project.  Every read and every write of a job's row is a *)
(* step of its own, because the code takes no lock between them.  Workers  *)
(* crash, and the queue delivers a job again when it believes it stalled.  *)
(*                                                                         *)
(* Specification and state are named for the jobs, because the proofs      *)
(* extend this module beside that of the lifecycle.                        *)
(***************************************************************************)
EXTENDS Naturals, FiniteSets

CONSTANTS
    MaxJobs,    \* jobs that may be created
    Client,     \* concurrent API handlers
    Worker,     \* processors of the queue's consumers (concurrency = 2)
    MaxStalls   \* redeliveries of a stalled job, one by the queue's default

ASSUME JobsAssumption == MaxJobs \in Nat /\ MaxStalls \in Nat

VARIABLES
    jobs,       \* generation_jobs: job -> its row
    specs,      \* specifications: [job, run]
    queue,      \* jobs waiting for delivery
    active,     \* jobs delivered and not finished, as the queue sees it
    stalls,     \* job -> redeliveries so far
    overlapped, \* jobs redelivered while a worker was still running them
    crashed,    \* jobs whose worker crashed
    cpc, cjob,  \* client -> next step, and the job it acts on
    wpc, wjob,  \* worker -> next step, and the job it runs
    next        \* worker -> the terminal state it is writing, with its reason

api == <<cpc, cjob>>
worker == <<wpc, wjob, next>>
broker == <<queue, active, stalls, overlapped, crashed>>
jobsVars == <<jobs, specs, broker, api, worker>>

Job == 1..MaxJobs
Failure == {"failed", "cancelled", "timed_out"}
Terminal == Failure \cup {"succeeded"}
JobState == {"none", "queued", "running"} \cup Terminal
Live == {"queued", "running"}

\* The two reasons with a state of their own; engine_error stands for the rest.
Reason == {"cancelled", "timeout", "engine_error"}

StateFor(reason) ==
    CASE reason = "cancelled" -> "cancelled"
      [] reason = "timeout" -> "timed_out"
      [] OTHER -> "failed"

Allows ==
    [s \in JobState |-> CASE s = "queued" -> {"running", "cancelled"}
                          [] s = "running" -> Terminal
                          [] OTHER -> {}]

Specification == [job: Job, run: Nat]

\* A row; result: the specification it points at, {} for none.
Row == [state: JobState, reason: Reason \cup {"none"}, result: SUBSET Nat,
        started: BOOLEAN]

NoRow == [state |-> "none", reason |-> "none", result |-> {}, started |-> FALSE]
Nothing == [state |-> "none", reason |-> "none", result |-> {}]
----------------------------------------------------------------------------
JobsInit ==
    /\ jobs = [j \in Job |-> NoRow]
    /\ specs = {}
    /\ queue = {} /\ active = {} /\ overlapped = {} /\ crashed = {}
    /\ stalls = [j \in Job |-> 0]
    /\ cpc = [c \in Client |-> "idle"]
    /\ cjob = [c \in Client |-> 0]
    /\ wpc = [w \in Worker |-> "idle"]
    /\ wjob = [w \in Worker |-> 0]
    /\ next = [w \in Worker |-> Nothing]

ClientAt(c, step, j) ==
    /\ cpc' = [cpc EXCEPT ![c] = step]
    /\ cjob' = [cjob EXCEPT ![c] = j]
    /\ UNCHANGED worker

WorkerAt(w, step, n) ==
    /\ wpc' = [wpc EXCEPT ![w] = step]
    /\ next' = [next EXCEPT ![w] = n]
    /\ UNCHANGED <<wjob, api>>

\* The worker returns, or throws: either way the queue is done with the job.
WorkerDone(w) ==
    /\ wpc' = [wpc EXCEPT ![w] = "idle"]
    /\ wjob' = [wjob EXCEPT ![w] = 0]
    /\ next' = [next EXCEPT ![w] = Nothing]
    /\ active' = active \ {wjob[w]}
    /\ UNCHANGED <<queue, stalls, overlapped, crashed, api>>
----------------------------------------------------------------------------
\* JobsService.submit: a live job is joined, which changes nothing; without
\* one, a job is created, and then enqueued.

Submit(c) ==
    /\ cpc[c] = "idle"
    /\ \A j \in Job : jobs[j].state \notin Live
    /\ ClientAt(c, "create", 0)
    /\ UNCHANGED <<jobs, specs, broker>>

Create(c) ==
    /\ cpc[c] = "create"
    /\ \E j \in Job :
           /\ jobs[j].state = "none"
           /\ \A i \in Job : i < j => jobs[i].state # "none"
           /\ jobs' = [jobs EXCEPT ![j].state = "queued"]
           /\ ClientAt(c, "enqueue", j)
    /\ UNCHANGED <<specs, broker>>

Enqueue(c) ==
    /\ cpc[c] = "enqueue"
    /\ queue' = queue \cup {cjob[c]}
    /\ ClientAt(c, "idle", 0)
    /\ UNCHANGED <<jobs, specs, active, stalls, overlapped, crashed>>

\* GenerateSpecificationService.cancel: the transition is validated against the
\* state that was loaded, and written whatever the state has become.
Load(c, j) ==
    /\ cpc[c] = "idle"
    /\ "cancelled" \in Allows[jobs[j].state]
    /\ ClientAt(c, "cancel", j)
    /\ UNCHANGED <<jobs, specs, broker>>

Cancel(c) ==
    /\ cpc[c] = "cancel"
    /\ jobs' = [jobs EXCEPT ![cjob[c]].state = "cancelled",
                            ![cjob[c]].reason = "cancelled"]
    /\ ClientAt(c, "idle", 0)
    /\ UNCHANGED <<specs, broker>>

\* The request is lost between two of its steps.
ClientCrash(c) ==
    /\ cpc[c] # "idle"
    /\ ClientAt(c, "idle", 0)
    /\ UNCHANGED <<jobs, specs, broker>>
----------------------------------------------------------------------------
\* Mutant: a delivery claims the job whatever its state.
ClaimableAnyState(j) == TRUE

\* claim() refuses a job unless the row it reads is queued.
Claimable(j) == jobs[j].state = "queued"

\* The queue delivers a waiting job to an idle worker, which reads the row.
Deliver(w, j) ==
    /\ wpc[w] = "idle" /\ j \in queue
    /\ queue' = queue \ {j}
    /\ \/ /\ Claimable(j)
          /\ active' = active \cup {j}
          /\ wpc' = [wpc EXCEPT ![w] = "start"]
          /\ wjob' = [wjob EXCEPT ![w] = j]
       \/ ~Claimable(j) /\ active' = active \ {j} /\ UNCHANGED <<wpc, wjob>>
    /\ UNCHANGED <<jobs, specs, stalls, overlapped, crashed, next, api>>

\* The queue delivers a job again when it takes the worker for stalled, which
\* it may not be.
Redeliver(j) ==
    /\ j \in active \ queue
    /\ stalls[j] < MaxStalls
    /\ stalls' = [stalls EXCEPT ![j] = @ + 1]
    /\ queue' = queue \cup {j}
    /\ overlapped' = IF \E w \in Worker : wjob[w] = j
                     THEN overlapped \cup {j} ELSE overlapped
    /\ UNCHANGED <<jobs, specs, active, crashed, api, worker>>

WorkerCrash(w) ==
    /\ wpc[w] # "idle"
    /\ crashed' = crashed \cup {wjob[w]}
    /\ wpc' = [wpc EXCEPT ![w] = "idle"]
    /\ wjob' = [wjob EXCEPT ![w] = 0]
    /\ next' = [next EXCEPT ![w] = Nothing]
    /\ UNCHANGED <<jobs, specs, queue, active, stalls, overlapped, api>>
----------------------------------------------------------------------------
\* GenerateSpecificationService.run

\* claim() then writes, without looking at the state again.
Start(w) ==
    /\ wpc[w] = "start"
    /\ jobs' = [jobs EXCEPT ![wjob[w]].state = "running",
                            ![wjob[w]].started = TRUE]
    /\ WorkerAt(w, "run", Nothing)
    /\ UNCHANGED <<specs, broker>>

Fail(w, reason) ==
    WorkerAt(w, "outcome", [Nothing EXCEPT !.state = StateFor(reason),
                                           !.reason = reason])

\* The engine answers, or one of the checks around it refuses: an unusable
\* selection, no engine, an output that does not parse, no provenance.  An
\* engine reports "cancelled" only when the timer has stopped it, and the
\* timer's own answer comes first.
EngineAnswers(w) ==
    /\ wpc[w] = "run"
    /\ \/ WorkerAt(w, "commit", Nothing)
       \/ Fail(w, "engine_error")
    /\ UNCHANGED <<jobs, specs, broker>>

\* Mutant: no limit on the engine's time.
NoTimeout(w) ==
    /\ wpc[w] = "run" /\ FALSE
    /\ Fail(w, "timeout")
    /\ UNCHANGED <<jobs, specs, broker>>

\* runWithLimits: the timer ends a run the engine does not.
Timeout(w) ==
    /\ wpc[w] = "run"
    /\ Fail(w, "timeout")
    /\ UNCHANGED <<jobs, specs, broker>>

NewSpec(w) == [job |-> wjob[w], run |-> Cardinality(specs) + 1]

Success(w, s) == [Nothing EXCEPT !.state = "succeeded", !.result = {s.run}]

\* commitGeneration: specification, version, links, grant and the job's row in
\* one transaction, or nothing of it.  The row's state is not part of the WHERE.
CommitGeneration(w) ==
    /\ wpc[w] = "commit"
    /\ \/ /\ specs' = specs \cup {NewSpec(w)}
          /\ jobs' = [jobs EXCEPT ![wjob[w]].state = "succeeded",
                                  ![wjob[w]].result = {NewSpec(w).run}]
          /\ WorkerAt(w, "settle", Success(w, NewSpec(w)))
       \/ Fail(w, "engine_error") /\ UNCHANGED <<jobs, specs>>
    /\ UNCHANGED broker

\* recordJobOutcome: state and reason, whatever the state is.
RecordOutcome(w) ==
    /\ wpc[w] = "outcome"
    /\ jobs' = [jobs EXCEPT ![wjob[w]].state = next[w].state,
                            ![wjob[w]].reason = next[w].reason]
    /\ WorkerAt(w, "settle", next[w])
    /\ UNCHANGED <<specs, broker>>

\* Mutant: repeating the state the commit wrote is validated as a transition.
SettleAsTransition(w) ==
    LET legal == next[w].state \in Allows[jobs[wjob[w]].state] IN
    /\ wpc[w] = "settle"
    /\ \/ legal /\ WorkerAt(w, "write", next[w]) /\ UNCHANGED broker
       \/ ~legal /\ next[w].state = "succeeded"
          /\ Fail(w, "engine_error") /\ UNCHANGED broker
       \/ ~legal /\ next[w].state # "succeeded" /\ WorkerDone(w)
    /\ UNCHANGED <<jobs, specs>>

\* settle(): the state is read and the move validated.  An impossible move
\* throws: a success is then reported as engine_error, a failure is over.
Settle(w) ==
    LET now == jobs[wjob[w]].state
        legal == now = next[w].state \/ next[w].state \in Allows[now]
    IN
    /\ wpc[w] = "settle"
    /\ \/ legal /\ WorkerAt(w, "write", next[w]) /\ UNCHANGED broker
       \/ ~legal /\ next[w].state = "succeeded"
          /\ Fail(w, "engine_error") /\ UNCHANGED broker
       \/ ~legal /\ next[w].state # "succeeded" /\ WorkerDone(w)
    /\ UNCHANGED <<jobs, specs>>

WriteSettled(w) ==
    LET j == wjob[w] IN
    /\ wpc[w] = "write"
    /\ jobs' = [jobs EXCEPT
           ![j].state = next[w].state,
           ![j].reason = IF next[w].reason = "none" THEN @ ELSE next[w].reason,
           ![j].result = IF next[w].result = {} THEN @ ELSE next[w].result]
    /\ WorkerDone(w)
    /\ UNCHANGED specs
----------------------------------------------------------------------------
Api(c) ==
    \/ Submit(c) \/ Create(c) \/ Enqueue(c)
    \/ \E j \in Job : Load(c, j)
    \/ Cancel(c) \/ ClientCrash(c)

\* The worker's own steps, other than waiting for the engine.
Run(w) ==
    \/ \E j \in Job : Deliver(w, j)
    \/ Start(w) \/ Timeout(w) \/ CommitGeneration(w)
    \/ RecordOutcome(w) \/ Settle(w) \/ WriteSettled(w)

JobsNext ==
    \/ \E c \in Client : Api(c)
    \/ \E w \in Worker : Run(w) \/ EngineAnswers(w) \/ WorkerCrash(w)
    \/ \E j \in Job : Redeliver(j)

\* A running worker takes its steps, timers fire; nothing is assumed of the
\* engine, of clients, or of redelivery.
JobsSpec == JobsInit /\ [][JobsNext]_jobsVars /\ \A w \in Worker : WF_jobsVars(Run(w))
----------------------------------------------------------------------------
\* Properties

ClientStep == {"idle", "create", "enqueue", "cancel"}
WorkerStep == {"idle", "start", "run", "commit", "outcome", "settle",
               "write"}

\* Every variable holds values of its table, of the queue, or of the steps of
\* clients and workers.
JobsTypeOK ==
    /\ jobs \in [Job -> Row]
    /\ specs \subseteq Specification
    /\ queue \subseteq Job /\ active \subseteq Job
    /\ overlapped \subseteq Job /\ crashed \subseteq Job
    /\ stalls \in [Job -> 0..MaxStalls]
    /\ cpc \in [Client -> ClientStep] /\ cjob \in [Client -> 0..MaxJobs]
    /\ wpc \in [Worker -> WorkerStep] /\ wjob \in [Worker -> 0..MaxJobs]
    /\ next \in [Worker -> [state: JobState, reason: Reason \cup {"none"},
                            result: SUBSET Nat]]

\* The row of its job shows a stored specification as the result of a success.
Shows(s) == jobs[s.job].state = "succeeded" /\ jobs[s.job].result = {s.run}

\* A specification is stored in a job that shows it, and the job shows it from then
\* on, through what its worker still writes after the commit (settle), a crash before
\* it does, and a redelivery.  Only a cancellation, of a job loaded before, takes it
\* away; and a job run by two workers at once is excepted.
StoredIsShown ==
    [][\A s \in specs' :
          s.job \notin overlapped /\ (s \in specs => Shows(s)) =>
              Shows(s)' \/ \E c \in Client : cjob[c] = s.job /\ Cancel(c)]_jobsVars

\* RAID R-02: redelivery after a crash does not run a job to a second result.
\* Only a job redelivered to a second worker while the first still ran it may
\* be stored twice.  Includes the types.
RedeliveryStoresOnce ==
    JobsTypeOK /\ \A j \in Job \ overlapped : Cardinality({s \in specs : s.job = j}) <= 1

\* A job handed to the queue ends, unless the worker that ran it crashed: the
\* engine may hang, but the timer does not.
EnqueuedEnds ==
    \A j \in Job :
        j \in queue ~> jobs[j].state \in Terminal \/ j \in crashed

\* schema.prisma: only one live job per idempotency key.  Not kept: submit()
\* looks and creates in two round trips, and no unique index stops the second.
OneLiveJob ==
    \A i, j \in Job :
        jobs[i].state \in Live /\ jobs[j].state \in Live => i = j

\* schema.prisma: the result reference is null forever on a job that failed,
\* was cancelled, or timed out.  Not kept: cancel() writes over a success that
\* was committed after it loaded the job.
FailedHasNoResult ==
    \A j \in Job : jobs[j].state \in Failure => jobs[j].result = {}
=============================================================================
