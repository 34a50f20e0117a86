# PMI Studio: formal models

PMI Studio is a platform for specification-driven engineering: a NestJS API over
PostgreSQL (Prisma), a worker fed by a BullMQ queue, contracts shared by both, and
connectors (MCP clients, command-line tools) that run governed commands in a
developer's workspace and report what they did. This directory holds TLA+ models of
the parts whose correctness depends on the order of steps of several actors, the TLC
configurations that check them, and TLAPS proofs about each of them.

## Inventory

For each component: its state, its operations, with whom it interacts, what is
hard, and what makes it correct. `PROJECT.json` lists the same components with their
sources and what is modelled of each.

### The core

| Component | State | Operations | Interacts with | Hard | Correct when |
|---|---|---|---|---|---|
| Execution registry (`modules/executions`, `packages/execution-registry-contract`) | `executions`, `execution_events` (append-only), `execution_target_bindings`, `execution_comments`, `execution_state` | register, append, complete, comment, redact, snapshot | connectors call it; adjudication, task sync and experts append to it | concurrent appends, retries after lost answers, crashes between transactions, projections rebuilt beside appends | streams dense, chained and final; keys used once; answers true; projections are folds of prefixes |
| Status proposals, adjudication (`executions/status-proposal`, `modules/loop/adjudicator`) | `status_transition_proposals`, `adjudication_records`, `status_transition_state` | propose | reads lifecycle, gates, policies; applies transitions; announces in the registry | a verdict is composed of many reads, applied, then recorded; retries meet their own half-done work | applied means committed; one transition and one verdict per proposal |
| Specification lifecycle (`modules/specifications`) | `specifications.lifecycleState`, `lifecycle_transitions` | apply (transactional), submit, approve, and the other direct moves | adjudicator; users | two paths write one column | every change follows the lifecycle and has evidence |
| Review gates (`modules/reviews`) and application policies (`loop/application-policy`) | gates, final outcomes, policy versions, all append-only | create gate, record decision, configure, disable | read by the adjudicator while administrators change them | stale decisions, missing policies | a gate opens only for a human; no policy, no automatic application |
| Generation jobs (`modules/jobs`, `specifications/generate-specification`, `worker`) | `generation_jobs`, `specifications`, the queue | submit, cancel, deliver, claim, run, commit, settle | API, queue, worker, engines | redelivery, crashes, timers, cancellations validated against a state read before | one live job per key; results stored once and with success; failures explain themselves; jobs end |
| Expert dispatch (`modules/experts`) | `expert_sessions` (a tree), `expert_session_limits`, the executions of the registry | dispatch, delegate, stop, charge | runners (external), the registry | parents end while delegates are being admitted; counts read long before the insert; cascades, settlements and failures end one session; charges up a chain | a session ends once and is closed as it ended; a delegate does not outlive its parent; a chain's consumption adds up |
| Governed loop (`modules/loop`) | `loop_objects` (a stage and a version), `loop_transitions`, refused ones too | transition, trigger | users and agents over HTTP; a rule engine | optimistic concurrency; the advance and its record are two commits; one event may fire twice | each advance was judged and is recorded; first commit wins; one advance per rule and event |
| Task sync and board (`modules/task-sync`) | `tasks` with a status and its source, `task_syncs`, `task_status_proposals`, progress and verdict events | sync, report, propose, adjudicate | hooks of commands; people and agents; the registry | the file, the events and people all set one status; a sync reads once and writes many times | each source keeps its precedence; nobody but a person puts a card in progress |
| Artifact sync (`modules/artifacts`, `specifications/specification-sync`) | `artifact_versions`, `artifact_syncs` and their manifests, versions of an Epic's specification | sync | hooks of commands | lost races decided by unique indexes; a process dies before the record that marks the sync as done | a manifest is true; a recorded sync has nothing left to do |
| Connector credentials, delegation (`modules/connector`, `modules/access`, `modules/agents`) | credentials, principals with a version, snapshots, delegations that pin a version | mint, guarded call, revoke, change a principal's state | connectors; owners; the registry | minting, calling and revoking are each a sequence of reads or writes of several stores; versions are read and then written without a lock | a change of the principal gives back no earlier delegation; a revoked credential holds none |
| Project provisioning (`modules/projects`, worker) | project state and root, append-only records of steps, jobs, the directory itself | prepare, initialise, finalise, refresh | API, worker, file system | resumable steps over files, recorded at the end; two services write one state | a record claims only what happened; "prepared" means that the worker was asked, or a call failed |
| Storage publication (`modules/storage`) | connections, publication records and references, a lock; all in the memory of the process | connect, disconnect, publish | providers (external), access inheritance, the artifacts of a project | a publish is many round trips, and its connection, its files and its authorisation may change meanwhile; partial publication | one publish per project, always released; the record and the references tell what is at the provider |
| Requirement room and register (`modules/requirement-room`, `modules/requirements`) | candidates, requirements and their versions, baselines with their waivers | promote, set criteria, edit, approve a baseline that may replace another | people over HTTP; evidence contracts; the register asks the room before an edit | an approval and a promotion are sequences of commits without a transaction; a list is compared long before the insert | a baselined requirement is not edited in place; replacements exist; waivers are recorded |

### The rest of the backend

| Component | State and operations | Hard | Correct when |
|---|---|---|---|
| Integrations hub (`modules/integrations`) | registry entries, bindings, health, resolutions, invocations, notifications | health and policy change while a request is resolved | the decision is explained by what it read |
| Change and defect rooms (`change-room`, `defect-room`) | workflow records over the loop; the sources of a rebase and a verification are not bound yet | stale baselines, rebases, verification before closure | a change is applied to what it was decided on |
| Decisions, evidence, context (`modules/decision`, `evidence`, `context`) | policies, decisions, evidence items, packages | rule combination; completeness | the evaluator agrees with its rules |
| Runs, review sessions (`modules/runs`, `review`) | provisional assumptions, questions, submissions | stale answers, re-runs | nothing provisional is approved silently |
| Access grants, workstation connections | grants with inheritance, one connection per machine | little order of their own | the evaluator agrees with the grants |
| Dependencies, traceability, epics, steering, governance | rows behind single handlers, graphs | cycles, retired targets | graph queries agree with the links |
| Auth, audit, observability, engines, agent adapters, MCP server, frontend | sessions of a library, append-only logs, adapters to programs | nothing concurrent of their own | out of scope |

## Modules

| Module | Models | Lines of thought |
|---|---|---|
| `EventVocabulary` | `events.ts` of the registry contract | the classes of events as sets |
| `EventStream` | what the registry promises | per execution a sequence that grows at its end; keys unique in the workspace; nothing of the lifecycle after a terminal event |
| `ExecutionRegistry` | `modules/executions` | request handlers that take one step per database round trip |
| `ExecutionRegistryProofs` | | the inductive invariant, the theorems, and the refinement of `EventStream` |
| `Adjudication` | status proposals, adjudicator, lifecycle repository, direct lifecycle API, gates, policies | one specification; two paths that move it |
| `AdjudicationProofs` | | the inductive invariants and the theorems, of `GenerationJobs` too |
| `GenerationJobs` | jobs, queue, worker | one idempotency key; every read and write of a job's row is a step |
| `ExpertDelegation` | dispatch, delegation, limits | a tree of sessions; handlers that end, stop and charge one another's rows |
| `ExpertDelegationProofs` | | the inductive invariants and the theorems |
| `GovernedLoop` | controller, trigger dispatcher, transition writer and store of `modules/loop` | one object; every attempt is judged, advances and is recorded in steps of its own |
| `GovernedLoopProofs` | | the inductive invariant and the theorems |
| `TaskReconcile` | `task-reconcile.ts`, `proposal-state.ts` | the pure half: what a line makes of a card, what verdicts amount to |
| `TaskSync` | the rest of `modules/task-sync` | syncs, reports and people's proposals write the same cards |
| `Provisioning` | `provisioning.service.ts`, the worker's consumer, `worker-api.ts` | requests, workers and reads over one state, its records and the directories |
| `ConnectorCredentials` | mint, guard, revocation, registry identity, principals, delegations | three kinds of handlers that read and write five tables in different orders |
| `ConnectorCredentialsProofs` | | the inductive invariants and the theorems, of `Provisioning` too |
| `ArtifactSync` | `modules/artifacts`, `specification-sync.service.ts` | versions by content, manifests, the Epic's specification |
| `ArtifactSyncProofs` | | the inductive invariant and the theorems |
| `StoragePublication` | connections, lock, token, publish service of `modules/storage` | publishers that send file by file while authors edit and administrators disconnect |
| `StoragePublicationProofs` | | the inductive invariants and the theorems, of `TaskSync` too |
| `RequirementBaselines` | baseline service, register adapter and store of `modules/requirement-room`, edits of `modules/requirements` | promotions, edits and approvals of one project, a step per round trip |
| `RequirementBaselinesProofs` | | the inductive invariant and the theorems |
| `MC*` | | small instances for TLC |

Each component is a module of its own: they meet in the database tables named above,
and where one calls another the callee's effect is part of the caller's action (the
adjudicator's transition, the session that a dispatch registers, the specification that
a sync of artifacts writes). `TaskSync` builds on `TaskReconcile`, `ExecutionRegistry`
on `EventVocabulary`, and `ExecutionRegistry` implements `EventStream`.

Three modules of proofs are about two components each, so they extend two modules whose
names must not meet: `GenerationJobs`, `TaskSync` and `Provisioning` therefore call
`Init`, `Next`, `Spec`, `vars` and the types by names of their own (`JobsSpec`, `BoardSpec`,
`ProvisionSpec`, and so on).

### How state and actions correspond to the code

**Steps.** A handler is a program counter, the request it serves and what it has
read. Every database round trip, or transaction that a row lock or a unique index
makes atomic, is one action. Where the code reads before it locks (the replay lookup
of an append, the load of a lifecycle change, the claim of a job) the read and the
write are two actions, so that TLC explores what happens between them. A crash, or
an answer that does not arrive, is possible before every step.

**ExecutionRegistry.** `events` is the table `execution_events`, `root` the table
`executions`, `state` the projection. `Dedupe` is the replay lookup of
`ExecutionEventService.append` and `AppendLocked` the rest of its transaction;
`RegisterReplay` and `RegisterInsert` are `register()`, which then appends its
`registered` event through the same two steps under the key `<key>:registered`;
`BindOutput` is the first transaction of `complete()`; `InsertComment` the insert of
`add()` and `redact()`; `ReadStream`, `WriteState` and `ReadState` are `snapshot()`.
Payloads are atomic values together with the comment row they name; the integrity hash
is the key of the event it chains to; time, names and payload encoding are left out.
Identity snapshots, delegations and scopes are checked before a handler changes
anything and are left out.

**Adjudication.** `status` and `transitions` are written by `Commit` (the
transaction of `PrismaLifecycleTransitionRepository.apply`, whose lookup of the key
takes no lock and is the separate step `FindPrior`) and by `DirectWrite` (the lifecycle
API, after `DirectLoad`). `Commit` has four outcomes: confirmed, committed with a lost
answer, not committed with a lost answer or a unique violation, refused. The verdict
is decided by `Observe`, `ReadVersion`, `ReadGates`, `ReadOutcomes`, `ConsultAuthority` and
`ConsultAutoApply` in the order of `adjudicate()`; `Record`, `AnnounceVerdict` and `Project`
follow. The three reads of the gates are those of `outcomesFor` and `dispositionFor`: the
current version, the gates of the transition, their decisions; `noted` is what the first
two found. A decision names the gates and the version its maker saw, which may have changed
when it is recorded. `AppendVersion` is a sync that writes a new version. Gates answer in
an order the database chooses, so any gate that is not passed may give the answer.

**GenerationJobs.** `Submit`, `Create`, `Enqueue` are `JobsService.submit`; `Load`
and `Cancel` are `cancel()`; `Deliver` is the queue's consumer reading the row in
`claim()` and `Start` the write of `claim()`; `EngineAnswers` and `Timeout` end the
engine's run; `Commit` is `commitGeneration`; `RecordOutcome`, `Settle` and
`WriteSettled` are `terminal()` and `settle()`. The queue is external: it delivers a
waiting job once and redelivers a job it takes for stalled. Errors of the database
other than that of the commit are not modelled.

**ExpertDelegation.** A dispatch is named by its execution. `Register` to `CapByChain`
are the checks of `dispatch()` and `admitDelegation()` that read what another handler
may change; every other check is `CheckRefuses`. `AddSession`, `PutLimit` and `Recheck`
start the run, `RunnerAnswers` and `RunnerThrows` end it, `Check` and `Settle` are the
two places where a run learns that its parent stopped it. `ListDelegates`, `StopOne`
and `CloseStopped` are the recursion of `#stopDelegates`: `todo` holds the children read
and not yet stopped, one set per level, and `at` the session the cascade is at. `Charge`
walks from the run to its root, one `UPDATE` per session, and `NoteBreach` records what
it crossed. `Fail` and `FailClose` are `#failed`; `CallFails` and `SwallowedFailure` let
any call of the database or the registry throw, `CloseRefused` is the registry refusing
to close what is closed. A request to delegate may name any execution that is registered,
also one whose session has no limits yet; `early` is history, the ancestors that had none
when a session was added. Children are stopped in any order, although the store lists them
by start. One kind of limit stands for tokens, cost and resource, which do not interact.
Left out: the time limit and the abort signal (the runner is external and may answer at any
time, aborted or not), the intersection of authorities, the choice of a runner, and all
events but closings and late breaches.

**GovernedLoop.** `Receive` is the route or the firing of a rule; `Find` reads the
object, `FindPrior` is the dispatcher's lookup of an earlier firing, and both end in
`write`, which judges the attempt (`Verdict`: who may, then the gates). `Advance` is the
conditional update on the version. The Prisma store issues it on the pooled client and
not on the transaction handle, so it is committed at once, and `AppendTransition` may
then be refused by the table's constraints (`Insertable`) or never happen.
`FindWinner` is what a loser of the race reads. `moves` is history: what each advance
did. In the running composition the map of authorities is empty and the dispatcher is
not wired; `Authorities` and the firings are therefore constants of the model. Gates are
never reported as passed, because the controller passes none. One object, one rule and
one event. A request may name any version, behind the object or ahead of it: nothing
compares it with what the handler reads, only the conditional update looks at it.

**TaskSync.** `SyncFind` to `RecordSync` are `sync()`: the replay lookup, the read of the
rows, one upsert per line, the marking of absent keys, the latest sync, the record.
`ApplyRead` and `ApplyReport` are `applyFor`, which the sync calls after its record and a
replay does not reach. `Drag` reads a card as `propose()` does, `RecordProposal` inserts
under the derived key, `Judgement` is the order of `adjudicate()`, `ApplyMove` writes the
card by id, `Settle` appends the verdict event; `Answer` and `LookAgain` are the second
person's half. `strict` is the project's rule and does not change in a behaviour. Reports
and verdicts carry the order of their times; equal times are left out. Left out as well:
the grammar of the file, files refused as a whole, comments and links of a sync, executions
without an Epic.

**Provisioning.** `Open` reads the project and its latest record and decides which steps are
left; `CheckRoot` to `EnqueueJob` are the steps, the last of them the three of `jobs.submit`
(look for a live job, create its row, hand it to the queue); `RefuseStep` and `Throw` end
the run early; `RecordFailure`, `UpdateFailed`, `RecordPrepared`, `UpdatePrepared` write the
record and then the project. `RunInitialiser` is the consumer, `FinaliseJob` to `SettleJob`
the worker's API. `RefreshRead` to `RefreshUpdate` are the read of a project that has waited
too long; how long is left to chance. `files` is what the directories hold, with the project
that put it there; records of one project are ordered by their start, as `latestForProject`
orders them. A run writes under the path of its own request, also when it skips the check of
that path because the latest record has it; `asked` is history, the directories that
requests have named for a project. Creating and listing projects, what the files contain and
audit entries are left out.

**ConnectorCredentials.** `RegisterPrincipal` to `SetSnapshot` are `mint()`;
`Authenticate`, `ForPrincipal`, `TouchLastUsed` the guard. A call then acts on that alone
(`ActOnGuard`, the routes of artifacts and tasks), or `Identify`, `PrincipalState`,
`RequireDelegated` are what the registry asks of the connector's identity before it
is taken for a delegated one; `FindRevoked`, `RevokeRow`, `ListActive`, `RevokeDelegation`
the revocation. `ReadPrincipal` and `WritePrincipal` are the registry's operation on a
principal: its transaction reads the version without a lock and writes the next one, so two may
read the same. `late` and `behind` are history: a call that came after its principal was moved,
and principals moved by an operator who had read them before their snapshot. The value of a credential
is returned at the end of its mint, so only then do calls carry it. Tokens, scopes, owner
grants and audit entries are checked or written beside these steps and left out.

**ArtifactSync.** `FindSync` is the replay lookup, `Replay` and `Conflict` its two answers;
`RefuseFile` and `StoreFile` the loop over the files, with `createVersion` the insert that a
unique index decides; `FindSpecification` to `GiveUp` are step 6; `RecordSync` is step 7 in
its transaction. A digest is the content it is the digest of, so a file that arrived
damaged states a digest that is not its content; the other reasons to refuse a file
differ only in their code. The code tries three inserts of a version (`MaxTries`).
The refusal comment and the audit entry after the record are left out.

**StoragePublication.** `Acquire`, `Prevent` and `Release` are the lock of `publish()`;
`ActiveConnection` to `RefreshToken` what `run()` reads before it sends, each with the exit
the code takes; `PutFile`, `SkipFile`, `FailPut` and `UpsertReference` the loop over the
files, in any order; `RecordUnauthorised` and `CreateRecord` the two places where a record
is written. `Disconnect` and `MarkAllUntracked` are the two awaits of `disconnect()`.
`destination` is what is at the provider: the last file put there with the connection and
the publish that put it. Adapters return failures and do not throw (S1 of the storage
contract). The module is wired with stores and a lock in memory, so a restart forgets
everything and is not modelled; neither is `AdvisoryPublishLock`, which nothing binds. The
health route and the status of a connection are left out, the preview of a republish only
reads, and no route calls the provider switch or the marking of stale references.

**RequirementBaselines.** `CreateRequirement` to `MarkPromoted` are the room's `promote()`
with the adapter's `promote` and `freeze`; `BeginEdit` to `Update` are the register's
`edit()` with the veto that the room's module registers (`ListVersions`, `AssertEditable`);
`BeginApproval` is a request that holds what a screen showed (`BaselineMembers`), and
`ListBaselines` to `Supersede` are `approve()`, whose members the criteria of the candidates,
the evidence contract and the unique number may refuse. A baseline remembers, as history,
which baselines its approval listed and which members stated no criteria. The criteria of all
candidates are read in one step; the contract's answer is left open. Left out: refusals for
missing fields, members without a candidate, other kinds of exceptions, retired
requirements, the numbering of references, the hash of a set.

## Runs

| Run | Checks | Shows |
|---|---|---|
| `registry` | `StreamWellFormed`, `TerminalAbsorbs`, `OncePerKey`, `ProjectionIsAPrefix`, `OkIsRecorded`, `ImplementsEventStream` | the registry keeps its promises and refines `EventStream` |
| `adjudication` | `AppliedIsCommitted`, `AppliedOnce`, `VerdictIsFinal`, `GatesOpenForHumans` | the governed path is sound although the direct path moves the specification under it; a gate is opened by a human's decision on the gates and the version that were read |
| `jobs` | `RedeliveryStoresOnce`, `StoredIsShown`, `EnqueuedEnds` | redelivery stores once; what is stored is, and stays until it is cancelled, the result of a job that succeeded, whatever is written after the commit; jobs end |
| `delegation` | `ClosedAsItEnded`, `NoSessionIsLeftOpen`, `ChainAccounts`, `EndsOnce`, `EndReachesDelegates` | one of the competing endings wins and closes; the end of a parent reaches its delegates; chains and breaches add up |
| `loop` | `OnlyJudgedMoves`, `RecordsFollowTheMoves`, `OnlyFailuresGoUnrecorded` | the version ties a verdict to the object it advances as long as it is not ahead of the one read; the accepted rows follow the moves, one each |
| `tasks` | `BoardAgreesAtRest`, `ChosenByPeople` | syncs that work from old reads repair what they overwrite; only people choose a status the file cannot express |
| `provisioning` | `RecordedStepsAreTrue`, `PreparedWasSubmitted` | whatever fails, dies or races, records claim only what is in a directory the project was asked for, and from the first step on; a prepared project has a job, handed to the worker unless something failed |
| `credentials` | `NothingIsRegained`, `RevokedHoldsNothing` | a call never regains a delegation of before its principal was moved, except by an operator's stale write; a finished revocation leaves no delegation |
| `artifacts` | `ManifestsTellTheTruth`, `RecordedSpecIsKept`, `VersionsAreChanges` | races on versions, keys and the specification leave true manifests and a gapless history |
| `publication` | `OnePublishPerProject`, `ReferencesFollowTheFiles`, `LandedIsRecorded`, `LockIsReleased` | however publishes are refused, fail and end, one runs at a time, and references and records tell what is at the provider |
| `baselines` | `PromotedHasAVersion`, `ReplacementIsThere`, `WaiversAreComplete`, `OverlapsAreReplacements`, `EditsRespectBaselines` | wherever promotions and approvals stop, what they leave can be used; approvals one after the other do not overlap; an edit never gets past a baseline it could have seen |
| `overlapping_approvals` | `OverlapIsAConflict` (violated) | two approvals of one requirement list before either inserts, and both land |

The types of the variables (`TypeOK` of each module) are part of a run, as a conjunct of the
property whose comment says so; those of the registry, the loop and the credentials are
only proved.

Deadlock is checked except in `loop`, `tasks`, `provisioning`, `credentials`, `publication`,
`baselines` and `overlapping_approvals`, whose handlers serve a bounded number of requests
or whose bounded tables fill up, so that a behaviour really may stop.

### Bounds

* `registry`: two handlers, two execution ids, three keys, two contents, nine requests,
  one comment. Two handlers are what a race needs. The keys and requests are chosen so
  that a key repeats with the same content, with another content and under another
  operation, a registration takes an id in use, an append races a terminal event, and
  appends state an expected sequence that is right, early or late. With three keys a
  stream has at most four events, enough for a terminal event that is no longer at the
  head. `MaxComments` bounds the rows of comments. Handlers are symmetric.
* `adjudication`: two handlers, one proposal key sent with two contents, one gate, one
  governed transition, two policy versions, of which one permits automatic application and
  the other demands an authority nobody holds, one decision, one version appended; the
  other proposal is for a transition the lifecycle does not have. A decision may thus be
  made before and after the gate and the version change, and be read in either order. The
  direct path may send the specification back to draft, so that the governed transition
  becomes possible again: that is what makes a second application of one key conceivable.
  Two gates, a second decision or a second target of the direct path exceed what TLC
  finishes in its time (this run has 2.5 million states); `HumansOpenGates` and the other
  theorems are proved for any number. `MaxPolicies`, `MaxDecisions` and `MaxVersions`
  bound the append-only tables.
* `jobs`: two jobs of one key, two workers (the consumer's concurrency), one redelivery
  per job (BullMQ's default `maxStalledCount`), one client. `MaxJobs` bounds the rows,
  `MaxStalls` the redeliveries.
* `delegation`: three dispatches, so that a chain of three (the cascade recurses, a charge
  passes a middle session) and two delegates of one parent both occur; the third may also
  close a cycle. Delegates may be asked for as soon as their parent is registered. A run
  reports 1 of a limit of 1, so a session's own run reaches it, a second charge crosses it, and
  a third must not cross it again. `MaxFanOut` is 1, so a second delegate of one parent is there
  only when two admissions count before either inserts, which is the race the code has. A run
  ends of itself as succeeded, or as failed when its runner throws; the other outcomes
  only change the name under which an execution is closed. `MaxFaults` lets one call of
  the whole instance fail, at every step.
* `loop`: two handlers, versions named behind, at and ahead of the object, four stages with
  a cycle, one edge that needs a gate and one pair of stages without an edge; a person with
  the authority, one without, and an automation, with and without its rule. The cycle lets
  the object come back to a stage at a later version, which is what a judgement from an old
  read could confuse; `Fire` may come twice. `MaxRows` bounds the records and with them the
  moves.
* `tasks`: two tasks, two files (one lists both tasks unticked, the other ticks one and
  lacks the other), two executions, two syncs of which one may repeat, one report, two
  handlers of two people and an agent. One death of a sync. The card people move is the one
  the report is about.
* `provisioning`: two directories, of which one may hold files of the user (`InUse`); one
  request for a project in that one, another for the same project in the other directory or
  for a second project in the same; one reader, and one trouble: a step that fails, or a
  process that dies, at any point. With one trouble a run fails and another resumes it,
  elsewhere even, while the worker runs; a broker that fails between a job's row and its
  delivery is one of them. 5.5 million states.
* `credentials`: one credential minted in the behaviour and one from before snapshots
  existed, two calls, two revocations (a retry), two operators who change a principal once each,
  one after the other (suspended and reactivated) or at the same time, and one death.
* `artifacts`: two handlers and four requests: two keys of one Epic, one key used by two
  executions, a file that does not match its digest, an execution without an Epic. `MaxTries`
  is 2 instead of 3: with two handlers one insert can be lost, the second attempt wins or is
  lost to the same handler's later sync; a third adds states and no case.
* `publication`: two publishers of one project of two artifacts, two publishes, two
  connections to one provider, two versions of each artifact. Two artifacts make a publish
  partial and let a disconnection or an edit fall between its files; the second publish is
  refused while the first runs and overwrites its files afterwards.
* `baselines`: two handlers, two candidates, five requests, one death, two contents. Five
  requests are two promotions and three approvals, so that a baseline overlaps two others
  and replaces one, or a promotion, its criteria, approvals and an edit.

### Fairness

Three modules state liveness. In `GenerationJobs`, `WF_vars(Run(w))` says that a worker that is
running takes its steps and that its timer fires: `runWithLimits` races the engine
against `setTimeout`, and the consumer is a loop of the process. Nothing is assumed of
the engine's answer, of clients, of redelivery or of crashes: `EnqueuedEnds` excepts
jobs whose worker crashed, which really may stay running for ever.

In `ExpertDelegation`, `WF_vars(\E d : Step(d))` says that the awaits of handlers are
answered, one or another as long as any is pending; each handler is finite, so all of them are in
the end. Nothing is assumed of runners, clients or failures: `EndReachesDelegates` holds although
the runner of a delegate never answers, because the parent's cascade, or the delegate's
own re-check, ends its session.

In `StoragePublication`, `WF_vars(PublishStep(u))` says that the calls of a publish that was
let in return: database, provider and token endpoint answer or fail. Nothing is assumed
of new publishes, edits or administrators.

## Proofs

`ExecutionRegistryProofs` proves, for any sets of executions, keys, contents, handlers
and requests that satisfy `RequestsAssumption` (requests are well formed, and there is
one) and `CommentsAssumption` (the bound is a number):

* `Invariance`: `Spec => []IInv`;
* `TypeCorrect`, `StreamsStayWellFormed`, `TerminalIsFinal`, `KeysAreUsedOnce`: `[]TypeOK`,
  `[]StreamWellFormed`, `[]TerminalAbsorbs`, `[]OncePerKey`;
* `Refinement`: `Spec => ImplementsEventStream`; `AnswersAreRecorded`: `OkIsRecorded`;
  `ProjectionFollowsTheStream`: `[]ProjectionIsAPrefix`.

`IInv` adds to these four that the tables of events and comments are finite and that
sequences are unique within an execution (`SeqsUnique`). Neither is a luxury: a stream
is dense when its sequences are `1..Cardinality(...)`, so the head is the length
(`HeadIsLength`) only of a finite set, and `EventAt`, hence the chain, is well
defined only when sequences are unique. The argument is that every step but
`AppendLocked` and `RegisterInsert` leaves the streams and the keys alone
(`StreamsUnchanged`); that an append adds one row right after the head
(`AppendedStream`), so that density, chain and uniqueness carry over; that it adds a
lifecycle event only where no terminal one exists (`AppendKeepsTerminal`); and that
the unique index keeps keys apart. The projection's type needs `FoldType`: a non-empty
set of rows has a last one (`LastExists`, by well-founded induction on the sequence).

The refinement maps each stream to the sequence of its rows in the order of their
numbers (`StreamOf`), which is a sequence because the stream is dense and its numbers unique
(`StreamType`). A step that records no event is a stutter (`StreamsStutter`); one that
does is an append of the abstract stream: its key was on no row, and the stream had no terminal
row if the event is of the lifecycle (`StreamsShowRows`, `AppendRecords`). An "ok" answer is
the row that the lookup found or the row that was inserted (`OkNamesTheEvent`). That a rebuild
writes the lifecycle of a prefix, even when a later one has overtaken it, rests on a second
invariant: what a rebuild has read is at or below the head (`ReadsAreBehind`), and below
a head nothing changes (`PrefixesStay`).

`ExpertDelegationProofs` proves, for any number of dispatches, any policy, budget and
number of failing calls that satisfy `DelegationAssumption`:

* `Invariance`: `Spec => []IInv`;
* `NothingIsLeftOpen`: `[]NoSessionIsLeftOpen`; `SessionsEndOnce`: `EndsOnce`;
  `ExecutionsCloseAsTheyEnd`: `[]ClosedAsItEnded` (with the types);
  `ConsumptionIsAccounted`: `[]ChainAccounts`.

`NoSessionIsLeftOpen` speaks of handlers that are done and is not inductive: nothing in it
says why a handler in the middle of a cascade that throws has ended its session.
`IInv` says where a running session's handler may be: before its run, in it, before the
step that ends it, or about to stop itself. Everything else, cascades, charges and
the second half of the error path, happens only after the session has ended; so an
error at any of those steps finds it ended, and an error at the others leads to `Fail`,
which ends it unless that very call fails. `Elsewhere` and `Ending` carry the argument:
another handler moves no program counter but its own and can only end a session.

`ClosedAsItEnded` needs two more invariants on top. `TInv` has the types and what the
admission remembers (`Remembered`): a session is added one level below a parent whose depth it
read earlier, and depths never change (`SessionsStay`). `EInv`, as long as no call failed,
says of each dispatch how its session has ended from where its handler is, and who is still to
close the execution (`Ends`): its own handler, when it settled or failed by itself; exactly one
cascade, when a parent stopped it (`OneCloser`). Since `endSession` lets one of
them win, the winner is the one that closes; the losers see the outcome and go another way. Most
steps touch one dispatch and close for nobody (`Quiet`, `QuietKeeps`); the rest of the
argument is the two steps of a cascade, `StopOneEnds` and `CloseStoppedEnds`. It also
shows that `CloseRefused`, a closing that finds the execution closed, takes a failed call.

`ChainAccounts` says that what a session has consumed is the sum of what the runs below it
reported, those admitted before it had a limit (`early`) excepted: their charge may find no
row and be dropped. Sums are not within reach (they are recursive), so what a run reports is a set of
units (`Units`) and a sum is a cardinality: charging a session adds one set of units that was
not there (`UnitsAdd`). `AInv` says, at every step, who has paid whom (`Paid`): a run
that is charging has paid those of its ancestors that are no longer above where it
stands. What is needed of the chains themselves is that they are the sets that follow parents
and that they neither change nor loop; a charge moves from a session to its parent, which
takes one member off what is left (`Chain`, as the least closed set, stands in for the
recursion). A breach is noted by the run whose charge crossed the limit, and by that one
only (`Breach`), failures or not.

`GovernedLoopProofs` proves, for any stages, gates, authorities, handlers and requests that
satisfy `LoopAssumption`:

* `Invariance`: `Spec => []IInv`;
* `TypeCorrect`, `MovesAreJudged`, `HistoryIsTrue`: `[]TypeOK`, `[]OnlyJudgedMoves`,
  `[]RecordsFollowTheMoves`; `FailuresAreCounted`: `[]OnlyFailuresGoUnrecorded`.

The two properties speak of moves and rows, and nothing in them says why an accepted verdict,
reached from a stage that was read earlier, fits the stage that is left. `IInv` adds that
the object is where the moves lead (`Position`), that what a handler read is the object
at a version that has passed (`Readings`), that an attempt which may still advance was
judged from such a reading under its own version (`Judged`, `Decided`), and that of the
handlers and rows that stand for one advance there is at most one (`Advanced`). An advance
happens at the version the request names. When that is not ahead of the reading it is the
reading's, and since the stage of a version never changes the reading and the object coincide;
when it is ahead, what was judged and what moves are two stages, and the properties say which
is which.

`OnlyFailuresGoUnrecorded` counts the advances that nothing explains: no record, no handler
about to write one, no rule accepted before. An acceptance names its rule or its person
(`Named`), so the only insertion that the tables refuse is that of a rule accepted before; hence an
advance that is explained stays so under every step (`ExplainedStays`, `LostStep`) except the
death of the one process that was about to record it, which is counted (`CountStep`).

`ConnectorCredentialsProofs` proves, for any credentials (`LegacyAssumption`), callers,
revokers and numbers of changes and crashes (`BoundsAssumption`):

* `Invariance` and `OwedInvariance`: `Spec => []IInv`, `Spec => []Owed`;
* `Types`, `NothingRegained`, `RevokedIsEmpty`: `[]TypeOK`, `[]NothingIsRegained`,
  `[]RevokedHoldsNothing`.

That a late call is not taken for a delegated one follows from versions alone: a snapshot pins a
version once, before its delegation exists (`Pins`); a principal that changes later is past
it for good (`Overtaken`), unless an operator who had read it before writes its own next
version (`behind`); so what a late call reads is above every pin (`Calls`) and no
delegation matches. That nothing stays delegated is a matter of who is about to act: as long as nobody
died, each delegation left under a revoked credential is owed by some revocation, which will
list it or has listed it (`Owed`); and a mint that finished before the revocation makes none.

The same module proves of provisioning, for any projects, directories, requests, readers and
number of troubles (`NoDirAssumption`, `WantedAssumption`, `TroublesAssumption`):

* `RecordsAreTrue`, `PreparedIsSubmitted`: `ProvisionSpec => []RecordedStepsAreTrue` (with the
  types), `=> []PreparedWasSubmitted`.

The properties speak of recorded steps, which travel: a request takes them from the latest
record, a worker puts its half on top of those it read, a reader copies them and writes them
back later. `ProvisionInv` says the same of every place they pass through, of a record, of a
request (`DoneSoFar`), of a delivery (`JobFits`) and of a read (`ReaderFits`): that they are
a `Claim` the project may make, which is that each step left something in a directory the
project was asked for, that the prepare half has no gap, and that the queue step goes with a
job. That this job was handed to a worker, or is about to be, as long as nothing failed, is
an invariant of its own on top (`Deliveries`). Claims only become truer, because directories
fill and jobs stay (`Grow`, `ClaimGrows`); so whatever a step leaves alone stays as it
should be (`RestIsKept`), and each action is a lemma about the one thing it moves. The first
step that is missing is well defined because there is no gap (`AtStep`), and a record that
is cut back to its first half is again a claim (`ClaimShrinks`). While this was being proved
the property turned out to be false as it was first stated, with all steps in one directory:
a resumed run need not write where the first one did (`ResumesWhereItBegan` below).

`AdjudicationProofs` proves, for any keys, gates, transitions and handlers that satisfy
`GovernedAssumption`, `ProposalsAssumption` and `BoundsAssumption`:

* `Invariance`: `Spec => []IInv`;
* `AppliedMeansCommitted`, `AppliesOnce`: `[]AppliedIsCommitted` (with the types),
  `[]AppliedOnce`; `FirstVerdictStands`, `HumansOpenGates`: the action properties
  `VerdictIsFinal`, `GatesOpenForHumans`.

A handler decides, records, announces and projects in steps of their own, and the properties speak
of the tables only. `IInv` says what a handler carries between them (`HandlersFit`): a verdict
from the decision to the end and at no other step; "applied" only with a committed
transition; when it announces, what is recorded; when it is about to commit, a
transition that a policy version permitted. `ClaimsAreTrue` ties what is announced and
projected to the record, and `HumansPass` ties passed gates to humans; past the gates a handler
keeps that a human passed each of those it read, in a decision on them and on the version it
read first. Commits, records and
policies are only added, so that the others keep what they know (`OthersFit`). That a
proposal commits once is the unique key of the transition, read in the commit itself.

The same module proves, for any number of jobs and redeliveries (`JobsAssumption`), workers and
clients, `RedeliveryIsSafe` and `StoredStaysShown`: `JobsSpec => []RedeliveryStoresOnce` (with
the types) and `=> StoredIsShown`. The invariant `JobsInv` says who may still act on
a job: a job that no second worker received while the first ran it is in the hands of one worker
and not waiting as well, and before the commit it has no specification (`WorkersFit`); a
job that a client is about to enqueue is in nobody's hands (`ClientsFit`); and a job with
a specification is not queued again, whatever clients and timers write over its state (`RowsFit`).
That the result stays shown needs what a worker is about to write (`AllHeld`): past its commit
a success only of the specification it has stored, and as long as the job shows that
specification nothing else, since `settle()` takes the same state for no transition. The code
also catches an exception of `settle()` and would write a failure over it; no call it makes there
throws as it is wired (`worker-api.ts:125` passes no steering).

`ArtifactSyncProofs` proves, for any Epics, paths, contents, attempts and handlers
that satisfy `EpicAssumption`, `PathAssumption`, `AttemptAssumption` and `BoundsAssumption`:

* `Invariance`: `Spec => []IInv`;
* `ManifestsAreTrue`, `RecordsAreComplete`, `VersionsChange`: `[]ManifestsTellTheTruth` (with
  the types), `[]RecordedSpecIsKept`, `[]VersionsAreChanges`.

The properties speak of recorded manifests; `IInv` follows a manifest from its first row. In
`HandlersFit` each row names the one version of its path and digest and is about the
file it stands for, and a handler on its way to the record has dealt with every file; in
`ClaimsApart` no two manifests, recorded or still in a handler's hands, claim to have
created one version, which is what survives the race of two inserts: the loser reads the
winner's row and claims nothing. For the specification `HandlersFit` keeps what was read of its head,
which stays true because versions are only appended; `VersionsAreChanges` follows from the
compare-and-set of the number.

`StoragePublicationProofs` proves, for any projects, artifacts, providers and requests that
satisfy `ProjectAssumption` and `BoundsAssumption`:

* `Invariance`: `Spec => []IInv`;
* `OneAtATime`, `ReferencesAreTrue`, `RecordsAreComplete`: `[]OnePublishPerProject` (with
  the types), `[]ReferencesFollowTheFiles`, `[]LandedIsRecorded`.

A file is put in one step and its reference written in the next; between the two, `JobsFit`
keeps the file as it was put, and `Apart` (publishers under way have a project and a
publish of their own) is why nobody puts another over it. `FilesFit` ties every file to the
connection of the publish that put it, hence one reference to one file, and says that the
publish knows of it as long as it runs and has recorded it when the lock is all it still holds.

The same module proves of the task board, for any tasks, files, syncs and people that satisfy
the assumptions of `TaskSync`:

* `BoardAgrees`, `PeopleChoose`: `BoardSpec => []BoardAgreesAtRest`, `=> []ChosenByPeople` (with
  the types).

`BoardInv` follows each of the three sources of a status. What people chose is true of the
cards and of every older copy of a card that a sync holds (`CardsChosen`), because a sync keeps or
lowers what it read and moves of people are never taken back; a proposal waits for a second
person only if a first one made it (`ProposalsFit`, `PersonFits`). What is present is what
the file marked last lists, or what a sync that is yet to mark has written since (`MarksFit`). A
card that a report has reached is done, or some sync that may have rewritten it has still to
apply reports (`DuesFit`), which the sync that wrote last does after its record. At rest nobody is
left to do either, and the two become what `BoardAgreesAtRest` says. Both need that no sync
died.

`RequirementBaselinesProofs` proves, for any candidates and handlers and any bounds that
satisfy `BoundsAssumption`:

* `Invariance`: `Spec => []IInv`;
* `PromotionsAreWhole`, `ReplacementsAreThere`, `WaiversAreRecorded`, `OverlapsAreReplaced`:
  `[]PromotedHasAVersion`, `[]ReplacementIsThere` (with the types), `[]WaiversAreComplete`,
  `[]OverlapsAreReplacements`; `BaselinesGovernEdits`: the action property `EditsRespectBaselines`.

An edit asks the baselines, and an approval compares and counts, several round trips before
they write. `EditFits` and `ApprovalFits` say what each still knows at each step: an edit past the
veto, that no baseline it began under and still current freezes its requirement; an approval
past the comparison, that no other of those it listed freezes a member; past the
criteria, that what states none is waived; with a number, that it is above all it saw
and leaves none free. All this stays true under the steps of others because requirements,
versions and baselines are only added and a baseline that was replaced is never current
again (`RegisterGrows`, `BaselinesGrow`, `FitsStay`); that a version which is appended
later cannot be frozen by an earlier baseline is `FrozenStays`. So every action is proved
by what its own handler knows before and after (`HandlersMove`), and the rows it writes.

Only model-checked is liveness (`EnqueuedEnds`, `EndReachesDelegates`, `LockIsReleased`), which
is out of the prover's reach. Every invariant and every action property of a passing
run is a theorem. What the proofs take from the model and not from the code is what the model
takes from it: the grain of the steps and what is left out.

## What the models found

One statement of the repository is refuted by a run of its own, which `PROJECT.json` quotes:
concurrent approvals of one requirement do not surface as a conflict (FR-RQR-054,
`overlapping_approvals`).

Others do not hold either. They are definitions of their modules without a run, so that
the runs are spent on what the system keeps; each comment says what breaks it, and adding
the name to the module's configuration as an `INVARIANT` or `PROPERTY` shows the behaviour
(without `SYMMETRY`; `PriorTextIsKept` needs `MaxContent = 3`):

| Definition | The repository says | The model shows |
|---|---|---|
| `ExecutionRegistry!FailedRunClaimsNoOutput` | a failed run binds no output (`execution-registration.service.ts:398`) | a success binds its output, and a failure closes the execution first |
| `Adjudication!NothingWasApplied` | a verdict of inconsistent or refused says that nothing was applied (`adjudicator.service.ts:205`) | a process dies between the commit and the record, and the retry denies the transition |
| `Adjudication!OnlyPermittedMoves` | approved -> draft does not exist (`lifecycle.machine.ts:38`) | two direct changes validated in one state |
| `Adjudication!GatesStillOpen` | a gated transition needs a human's decision (FR-ENH-014, `specs/017-enhancement-model/spec.md:368`), and one for other gates or another version is stale (`gate-production.service.ts:208`) | a gate or a version comes after it was read, and nothing compares it again at the commit |
| `GenerationJobs!OneLiveJob` | one live job per key (`schema.prisma:712`) | two submissions look before either creates |
| `GenerationJobs!FailedHasNoResult` | no result on a cancelled job (`schema.prisma:699`) | a cancellation written over a success |
| `ExpertDelegation!FanOutIsBounded` | the policy bounds the delegates of a session (FR-EXP-033) | two admissions count before either inserts |
| `ExpertDelegation!EveryDelegateCounts` | what a delegate consumes counts against every ancestor (FR-EXP-036) | a delegate is admitted between the row of its parent and the parent's limits (`dispatch.service.ts:318`, `:338`), and its charge finds none |
| `GovernedLoop!OneAdvancePerEvent` | the advance and its record are one transaction (`transition-writer.ts:124`), and a repeated firing is recorded as a duplicate (FR-GEL-033) | the advance commits alone, and the second firing advances again |
| `GovernedLoop!OnlyDeclaredMoves` | a transition needs the authority the configuration requires (FR-GEL-011, `specs/030-governed-engineering-loop/spec.md:328`), and the first commit wins (FR-GEL-015, `:332`) | a request names the version after the one it is judged at, and wins once another has moved the object there |
| `GovernedLoop!HistoryIsTheMoves` | the record names the source stage (FR-GEL-012, `spec.md:329`) | the record of such a request names the stage it was judged at |
| `TaskSync!AppliedWhereExpected` | of two proposals at most one is applied (FR-KAN-016) | two proposals judged on one read both apply |
| `TaskSync!OriginalVerdictStands` | a replay returns the original verdict (`task-proposal.service.ts:201`) | a stale proposal sent again applies, with no verdict recorded |
| `TaskSync!EditsAreFlagged` | an edit between two syncs with no command in between is flagged (FR-KAN-023, `specs/046-task-kanban-governed-status/spec.md:462`) | two syncs of one execution both read the latest before either records |
| `Provisioning!ProvisionedIsTerminal` | provisioned is terminal (`provisioning.types.ts:108`) | the worker finishes before the request that queued it writes "prepared" |
| `Provisioning!PreparedWasQueued` | the prepare half ends by handing the rest to the worker (`provisioning.service.ts:289`) | a submission dies between the job's row and its delivery (`jobs.service.ts:100`), and the resumed run joins that row |
| `Provisioning!FailedRunResumes` | a failed run resumes at the first incomplete step (`specs/041-local-project-workspace/data-model.md:51`) | after a failed initialisation a re-run queues nothing and answers no change |
| `Provisioning!ResumesWhereItBegan` | on resume the record carries the path (`provisioning.service.ts:222`) | a run that resumes writes to the directory its own request names, and checks neither its owner nor that it is empty |
| `ConnectorCredentials!LegacyIsCompleted` | a credential of before is completed on its first call (`connector-credential.service.ts:183`) | the call is refused for want of the registration before it gets there |
| `ConnectorCredentials!VersionsMoveOn` | a shared commit keeps two callers from one next version (`principal-registry.service.ts:248`) | the transaction reads without a lock: two write the same version, or the later an older one |
| `ConnectorCredentials!RevokedFailsTheCheck` | a revoked credential fails the delegation check too (`connector-credential.service.ts:229`) | a revocation dies after it wrote the row, and a second finds nothing to do |
| `StoragePublication!OneActiveConnection` | at most one connection is active (`connection.service.ts:173`) | connect looks for no other connection; publishes go on to the older |
| `StoragePublication!DisconnectedIsUntracked` | stop tracking on disconnection (FR-PUB-038) | a publish under way goes on sending and tracks new files |
| `RequirementBaselines!ReplacedOnce` | two baselines that claim one replacement leave no single answer (`baseline.service.ts:208`) | two approvals find the same baseline current |
| `RequirementBaselines!MembersAreAsTheyStand` | the id is that of the latest version (`register.adapter.ts:148`) | the register lists newest first and the adapter takes the last: the hash is of another text after an edit |
| `RequirementBaselines!PriorTextIsKept` | an edit appends the prior state to the history first (`requirements.service.ts:190`) | two edits append one prior state, and the second writes over the first |

Hazards without a property, with the reason, are listed in `PROJECT.json`.

## Not modelled

* **Integrations hub.** It comes next in the plan below.
* **Change and defect rooms.** The sources that a rebase and a verification ask are not bound in
  the running composition; what is left is rows behind single handlers.
* **Decisions, evidence, separation of duties, context assembly.** Functions of a request and
  a policy, with no order of steps: unit tests reach them, a model would restate them.
* **Rows behind single handlers** (dependencies, traceability, epics, steering):
  one read and one write each; what could go wrong is a lost update, which the modules above
  show on richer protocols.
* **Tokens, hashes, grammars, file formats and prompts**: data that no property here
  tells apart.
* **Engines, agent adapters, execution providers, MCP server, workspace bundle, frontend**:
  clients and external programs. Their requests and answers are the inputs of the modules;
  they make up most of the repository's lines.

## Plan

1. `Integrations`: resolution against health and policy that change.
2. `ChangeRoom`: rebase of a change against a baseline that moves, once its sources are bound.
3. Handoffs and clarifications in `RequirementBaselines`.

Theorems worth proving next: those of the modules to come.
