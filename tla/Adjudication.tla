---------------------------- MODULE Adjudication ----------------------------
(***************************************************************************)
(* The lifecycle of one specification and the two paths that move it.      *)
(*                                                                         *)
(* The governed path: a connector proposes a transition; the proposal is   *)
(* recorded, adjudicated against the lifecycle, the review gates and the   *)
(* application policy, applied in a transaction of the lifecycle           *)
(* repository, and the verdict is recorded, announced and projected.  The  *)
(* direct path: a user of the lifecycle API loads the specification, the   *)
(* machine checks the transition, and the state is written.                *)
(*                                                                         *)
(* Handlers take one step per database round trip, interleave, crash, and  *)
(* serve the same proposal again when a client retries.                    *)
(***************************************************************************)
EXTENDS Naturals, Sequences, FiniteSets

CONSTANTS
    Key,           \* idempotency keys of proposals
    Gate,          \* review gates that may be configured
    Blocking,      \* the gates whose decision blocks
    Governed,      \* the transitions gates and policies are configured for
    Handler,       \* concurrent request handlers
    Proposals,     \* the proposals connectors may send
    Targets,       \* the states users may ask for on the direct path
    Settings,      \* the settings a new policy version may have
    MaxPolicies,   \* bound: policy versions per transition
    MaxDecisions,  \* bound: gate decisions per transition
    MaxVersions    \* bound: versions synced into the specification

VARIABLES
    status,        \* specifications.lifecycleState
    version,       \* specifications.currentVersionId, counted
    transitions,   \* lifecycle_transitions: the committed rows
    proposals,     \* status_transition_proposals: key -> {its request} or {}
    records,       \* adjudication_records: key -> {its verdict} or {}
    announced,     \* execution_events: what was appended about each proposal
    projected,     \* status_transition_state: key -> state of the proposal
    gates,         \* review_gates: transition -> its gates
    decisions,     \* gate_final_outcomes: transition -> decisions, oldest first
    policies,      \* application_policies: transition -> versions, in order
    pc,            \* handler -> next step
    req,           \* handler -> the proposal it serves
    noted,         \* handler -> the version and the gates it has read
    draft,         \* handler -> the verdict it is about to record or announce
    seen           \* handler -> the direct transition it has validated

evidence == <<proposals, records, announced, projected>>
config == <<gates, decisions, policies>>
local == <<pc, req, noted, draft, seen>>
vars == <<status, version, transitions, evidence, config, local>>

State == {"draft", "review", "approved", "baselined", "implemented", "archived"}

Permitted ==
    {<<"draft", "review">>, <<"review", "draft">>, <<"review", "approved">>,
     <<"approved", "baselined">>, <<"baselined", "implemented">>,
     <<"approved", "archived">>, <<"baselined", "archived">>,
     <<"implemented", "archived">>}

Proposal == [key: Key, from: State, to: State]

\* auto: application may be automatic.  demanding: an authority is required
\* that no proposer holds.
Setting == [auto: BOOLEAN, demanding: BOOLEAN]

ASSUME GovernedAssumption == Governed \subseteq Permitted /\ Blocking \subseteq Gate
ASSUME ProposalsAssumption ==
    /\ Proposals # {} /\ Proposals \subseteq Proposal
    /\ Targets \subseteq State /\ Settings \subseteq Setting
ASSUME BoundsAssumption ==
    MaxPolicies \in Nat /\ MaxDecisions \in Nat /\ MaxVersions \in Nat

Verdict == {"applied", "refused", "inconsistent", "validated",
            "approval_required", "reconciliation_required"}

Step == {"idle", "lookup", "insert", "propose", "find", "observe", "version",
         "gates", "outcomes", "authority", "autoApply", "prior", "commit",
         "record", "announce", "project", "write"}

Unread == [version |-> 0, gates |-> {}]

Edge(r) == <<r.from, r.to>>
Committed(k) == {t \in transitions : t.key = k}
Latest(s) == s[Len(s)]
----------------------------------------------------------------------------
\* Review gates.

\* The newest decision of a gate on a transition, as a set of at most one.
LatestOf(e, g) ==
    LET D == decisions[e]
        I == {i \in 1..Len(D) : D[i].gate = g}
    IN  {D[i] : i \in {i \in I : \A j \in I : j <= i}}

\* Mutant: a decision on another version of the specification stands.
StandsForAnyVersion(n, d) == d.gateSet = n.gates

\* X11: a decision answers for the gates and the version it was made for.
Stands(n, d) == d.gateSet = n.gates /\ d.version = n.version

\* The answers dispositionFor may give, by what it read before and the decisions
\* it reads last.  Gates are visited in the order the database returns them and
\* the first that is not a current pass answers, so every gate that is not one
\* may.  No blocking gate at all: "passed".
GateAnswer(e, n, g) ==
    IF LatestOf(e, g) = {} THEN "pending"
    ELSE LET d == CHOOSE d \in LatestOf(e, g) : TRUE IN
         IF Stands(n, d) THEN d.disposition ELSE "stale"

Dispositions(e, n) ==
    LET answers == {GateAnswer(e, n, g) : g \in n.gates \cap Blocking} \ {"passed"}
    IN  IF answers = {} THEN {"passed"} ELSE answers
----------------------------------------------------------------------------
\* Application policy: the latest version, when it is effective.
Effective(e) ==
    IF e \in Governed /\ policies[e] # <<>> /\ Latest(policies[e]).effective
    THEN {Latest(policies[e])} ELSE {}

GatesOf(e) == IF e \in Governed THEN gates[e] ELSE {}

AutoApplyPermitted(e) == \E p \in Effective(e) : p.auto

\* The proposer lacks an authority the effective policy requires.
AuthorityMissing(e) == \E p \in Effective(e) : p.demanding
----------------------------------------------------------------------------
NoProposal == CHOOSE r \in Proposals : TRUE

Init ==
    /\ status = "draft"
    /\ version = 0
    /\ transitions = {}
    /\ proposals = [k \in Key |-> {}]
    /\ records = [k \in Key |-> {}]
    /\ announced = [k \in Key |-> {}]
    /\ projected = [k \in Key |-> "none"]
    /\ gates = [e \in Governed |-> {}]
    /\ decisions = [e \in Governed |-> <<>>]
    /\ policies = [e \in Governed |-> <<>>]
    /\ pc = [h \in Handler |-> "idle"]
    /\ req = [h \in Handler |-> NoProposal]
    /\ noted = [h \in Handler |-> Unread]
    /\ draft = [h \in Handler |-> "none"]
    /\ seen = [h \in Handler |-> "none"]

Continue(h, step) ==
    pc' = [pc EXCEPT ![h] = step] /\ UNCHANGED <<req, noted, draft, seen>>

\* The adjudicator has decided: the next step records the verdict.
Decide(h, verdict) ==
    /\ pc' = [pc EXCEPT ![h] = "record"]
    /\ draft' = [draft EXCEPT ![h] = verdict]
    /\ noted' = [noted EXCEPT ![h] = Unread]
    /\ UNCHANGED <<req, seen>>

Finish(h) ==
    /\ pc' = [pc EXCEPT ![h] = "idle"]
    /\ req' = [req EXCEPT ![h] = NoProposal]
    /\ noted' = [noted EXCEPT ![h] = Unread]
    /\ draft' = [draft EXCEPT ![h] = "none"]
    /\ seen' = [seen EXCEPT ![h] = "none"]

\* A step that reads only.
ReadOnly == UNCHANGED <<status, version, transitions, evidence, config>>
----------------------------------------------------------------------------
\* StatusProposalService.propose

Receive(h, r) ==
    /\ pc[h] = "idle"
    /\ pc' = [pc EXCEPT ![h] = "lookup"]
    /\ req' = [req EXCEPT ![h] = r]
    /\ UNCHANGED <<noted, draft, seen>> /\ ReadOnly

Lookup(h) ==
    /\ pc[h] = "lookup"
    /\ Continue(h, IF proposals[req[h].key] = {} THEN "insert" ELSE "find")
    /\ ReadOnly

\* A racing insert of the key meets the unique index and fails the request.
InsertProposal(h) ==
    LET k == req[h].key IN
    /\ pc[h] = "insert"
    /\ IF proposals[k] = {}
       THEN proposals' = [proposals EXCEPT ![k] = {req[h]}] /\ Continue(h, "propose")
       ELSE Finish(h) /\ UNCHANGED proposals
    /\ UNCHANGED <<status, version, transitions, records, announced, projected, config>>

AnnounceProposed(h) ==
    /\ pc[h] = "propose"
    /\ announced' = [announced EXCEPT ![req[h].key] = @ \cup {"proposed"}]
    /\ Continue(h, "find")
    /\ UNCHANGED <<status, version, transitions, proposals, records, projected, config>>
----------------------------------------------------------------------------
\* ProposalAdjudicatorService.adjudicate

\* A retry returns the original verdict.
FindRecord(h) ==
    /\ pc[h] = "find"
    /\ \/ records[req[h].key] = {} /\ Continue(h, "observe")
       \/ \E v \in records[req[h].key] :
              /\ pc' = [pc EXCEPT ![h] = "announce"]
              /\ draft' = [draft EXCEPT ![h] = v]
              /\ UNCHANGED <<req, noted, seen>>
    /\ ReadOnly

\* The status is compared here; only the commit compares it again.
Observe(h) ==
    /\ pc[h] = "observe"
    /\ \/ status # req[h].from /\ Decide(h, "inconsistent")
       \/ /\ status = req[h].from
          /\ IF Edge(req[h]) \in Permitted THEN Continue(h, "version")
                                           ELSE Decide(h, "refused")
    /\ ReadOnly

\* EpicTwentyOneGateOutcomes.outcomesFor: the version the outcomes are bound to,
\* then the gates, then their decisions, in three reads.
ReadVersion(h) ==
    /\ pc[h] = "version"
    /\ noted' = [noted EXCEPT ![h].version = version]
    /\ pc' = [pc EXCEPT ![h] = "gates"]
    /\ UNCHANGED <<req, draft, seen>> /\ ReadOnly

\* A transition nobody gated is not gated, whatever is configured from here on.
ReadGates(h) ==
    LET found == GatesOf(Edge(req[h]))
    IN  /\ pc[h] = "gates"
        /\ noted' = [noted EXCEPT ![h].gates = found]
        /\ pc' = [pc EXCEPT ![h] = IF found = {} THEN "authority" ELSE "outcomes"]
        /\ UNCHANGED <<req, draft, seen>> /\ ReadOnly

ReadOutcomes(h) ==
    /\ pc[h] = "outcomes"
    /\ \E d \in Dispositions(Edge(req[h]), noted[h]) :
           CASE d = "passed" -> Continue(h, "authority")
             [] d = "failed" -> Decide(h, "refused")
             [] OTHER -> Decide(h, "reconciliation_required")
    /\ ReadOnly

ConsultAuthority(h) ==
    /\ pc[h] = "authority"
    /\ IF AuthorityMissing(Edge(req[h])) THEN Decide(h, "approval_required")
                                         ELSE Continue(h, "autoApply")
    /\ ReadOnly

ConsultAutoApply(h) ==
    /\ pc[h] = "autoApply"
    /\ IF AutoApplyPermitted(Edge(req[h])) THEN Continue(h, "prior")
                                           ELSE Decide(h, "validated")
    /\ ReadOnly
----------------------------------------------------------------------------
\* PrismaLifecycleTransitionRepository.apply: in one transaction the lookup of
\* the key, the conditional update and the insert.  The lookup takes no lock,
\* so another transaction may commit between it and the update.

FindPrior(h) ==
    /\ pc[h] = "prior"
    /\ IF Committed(req[h].key) # {} THEN Decide(h, "applied")
                                     ELSE Continue(h, "commit")
    /\ ReadOnly

Transition(r) ==
    [id |-> Cardinality(transitions) + 1, key |-> r.key, from |-> r.from, to |-> r.to]

Move(r) ==
    /\ status' = r.to
    /\ transitions' = transitions \cup {Transition(r)}

\* Mutant: no unique index on the transition's idempotency key.
CommitUnindexed(h) ==
    /\ pc[h] = "commit"
    /\ IF status = req[h].from
       THEN Move(req[h]) /\ Decide(h, "applied")
       ELSE Decide(h, "refused") /\ UNCHANGED <<status, transitions>>
    /\ UNCHANGED <<version, evidence, config>>

\* Mutant: an unknown outcome is reported as confirmed.
CommitPresumed(h) ==
    /\ pc[h] = "commit"
    /\ \/ Move(req[h])
       \/ UNCHANGED <<status, transitions>>
    /\ Decide(h, "applied")
    /\ UNCHANGED <<version, evidence, config>>

\* Confirmed; refused when the status moved on; unknown when the unique index
\* or the connection failed the transaction, which may then have committed.
Commit(h) ==
    LET r == req[h]
        matches == status = r.from
        fresh == Committed(r.key) = {}
    IN
    /\ pc[h] = "commit"
    /\ \/ matches /\ fresh /\ Move(r) /\ Decide(h, "applied")
       \/ matches /\ fresh /\ Move(r) /\ Decide(h, "reconciliation_required")
       \/ Decide(h, "reconciliation_required") /\ UNCHANGED <<status, transitions>>
       \/ ~matches /\ Decide(h, "refused") /\ UNCHANGED <<status, transitions>>
    /\ UNCHANGED <<version, evidence, config>>
----------------------------------------------------------------------------
\* Mutant: a second verdict replaces the first.
RecordAgain(h) ==
    /\ pc[h] = "record"
    /\ records' = [records EXCEPT ![req[h].key] = {draft[h]}]
    /\ Continue(h, "announce")
    /\ UNCHANGED <<status, version, transitions, proposals, announced, projected, config>>

\* finish(): the record is written after the transition is applied.  A record
\* of the same proposal meets the unique index and fails the request.
Record(h) ==
    LET k == req[h].key IN
    /\ pc[h] = "record"
    /\ IF records[k] = {}
       THEN records' = [records EXCEPT ![k] = {draft[h]}] /\ Continue(h, "announce")
       ELSE Finish(h) /\ UNCHANGED records
    /\ UNCHANGED <<status, version, transitions, proposals, announced, projected, config>>

\* The verdict event has one key: the same verdict is a replay.
AnnounceVerdict(h) ==
    LET k == req[h].key
        verdicts == announced[k] \cap Verdict
    IN
    /\ pc[h] = "announce"
    /\ IF verdicts \subseteq {draft[h]}
       THEN announced' = [announced EXCEPT ![k] = @ \cup {draft[h]}]
            /\ Continue(h, "project")
       ELSE Finish(h) /\ UNCHANGED announced
    /\ UNCHANGED <<status, version, transitions, proposals, records, projected, config>>

StateForVerdict(v) == IF v = "validated" THEN "validating" ELSE v

Project(h) ==
    /\ pc[h] = "project"
    /\ projected' = [projected EXCEPT ![req[h].key] = StateForVerdict(draft[h])]
    /\ Finish(h)
    /\ UNCHANGED <<status, version, transitions, proposals, records, announced, config>>
----------------------------------------------------------------------------
\* SpecificationLifecycleService: load and validate, then write, without the
\* state that was read.  The recorder keeps its rows in the process's memory;
\* nothing reads them.

DirectLoad(h, to) ==
    /\ pc[h] = "idle"
    /\ <<status, to>> \in Permitted
    /\ pc' = [pc EXCEPT ![h] = "write"]
    /\ seen' = [seen EXCEPT ![h] = to]
    /\ UNCHANGED <<req, noted, draft>> /\ ReadOnly

DirectWrite(h) ==
    /\ pc[h] = "write"
    /\ status' = seen[h]
    /\ Finish(h)
    /\ UNCHANGED <<version, transitions, evidence, config>>
----------------------------------------------------------------------------
\* SpecificationSyncService.appendVersionIfChanged
AppendVersion ==
    /\ version < MaxVersions
    /\ version' = version + 1
    /\ UNCHANGED <<status, transitions, evidence, config, local>>

\* Configuration: gates, gate decisions and policies are append-only.

CreateGate(e, g) ==
    /\ g \notin gates[e]
    /\ gates' = [gates EXCEPT ![e] = @ \cup {g}]
    /\ UNCHANGED <<status, version, transitions, evidence, decisions, policies, local>>

\* A gate passes by the decision of a human only; who failed it is left out.  The
\* gates and the version a decision is for are those its maker has seen.
RecordDecision(e, g, disposition, human) ==
    /\ g \in gates[e]
    /\ Len(decisions[e]) < MaxDecisions
    /\ human <=> disposition = "passed"
    /\ \E G \in SUBSET gates[e], v \in 0..version :
        /\ g \in G
        /\ decisions' = [decisions EXCEPT ![e] = Append(@,
               [gate |-> g, disposition |-> disposition, human |-> human,
                gateSet |-> G, version |-> v])]
    /\ UNCHANGED <<status, version, transitions, evidence, gates, policies, local>>

AppendPolicy(e, setting, effective) ==
    /\ Len(policies[e]) < MaxPolicies
    /\ policies' = [policies EXCEPT ![e] =
           Append(@, [auto |-> setting.auto, demanding |-> setting.demanding,
                      effective |-> effective])]
    /\ UNCHANGED <<status, version, transitions, evidence, gates, decisions, local>>

Configure(e, setting) == AppendPolicy(e, setting, TRUE)

\* Only an effective version can be disabled.
Disable(e) ==
    \E p \in Effective(e) :
        AppendPolicy(e, [auto |-> FALSE, demanding |-> p.demanding], FALSE)
----------------------------------------------------------------------------
\* What was committed stays; the rest of the request is gone.
Crash(h) == pc[h] # "idle" /\ Finish(h) /\ ReadOnly

Adjudicate(h) ==
    \/ FindRecord(h) \/ Observe(h) \/ ReadVersion(h) \/ ReadGates(h)
    \/ ReadOutcomes(h) \/ ConsultAuthority(h) \/ ConsultAutoApply(h)
    \/ FindPrior(h) \/ Commit(h) \/ Record(h)

Propose(h) ==
    \/ \E r \in Proposals : Receive(h, r)
    \/ Lookup(h) \/ InsertProposal(h) \/ AnnounceProposed(h)
    \/ Adjudicate(h)
    \/ AnnounceVerdict(h) \/ Project(h)

Direct(h) == (\E to \in Targets : DirectLoad(h, to)) \/ DirectWrite(h)

Administer(e) ==
    \/ \E g \in Gate : CreateGate(e, g)
    \/ \E g \in Gate, d \in {"passed", "failed"}, human \in BOOLEAN :
           RecordDecision(e, g, d, human)
    \/ \E setting \in Settings : Configure(e, setting)
    \/ Disable(e)

Next ==
    \/ \E h \in Handler : Propose(h) \/ Direct(h) \/ Crash(h)
    \/ AppendVersion
    \/ \E e \in Governed : Administer(e)

Spec == Init /\ [][Next]_vars
----------------------------------------------------------------------------
\* Properties

Decision == [gate: Gate, disposition: {"passed", "failed"}, human: BOOLEAN,
             gateSet: SUBSET Gate, version: 0..MaxVersions]
Policy == [auto: BOOLEAN, demanding: BOOLEAN, effective: BOOLEAN]
ProposalState == {"none", "validating"} \cup (Verdict \ {"validated"})

\* Every variable holds values of its table, of its vocabulary of states and
\* verdicts, or of the handler's steps.
TypeOK ==
    /\ status \in State /\ version \in 0..MaxVersions
    /\ transitions \subseteq [id: Nat, key: Key, from: State, to: State]
    /\ proposals \in [Key -> SUBSET Proposals]
    /\ records \in [Key -> SUBSET Verdict]
    /\ announced \in [Key -> SUBSET (Verdict \cup {"proposed"})]
    /\ projected \in [Key -> ProposalState]
    /\ gates \in [Governed -> SUBSET Gate]
    /\ \A e \in Governed :
           /\ decisions[e] \in Seq(Decision)
           /\ policies[e] \in Seq(Policy)
    /\ pc \in [Handler -> Step]
    /\ req \in [Handler -> Proposals]
    /\ noted \in [Handler -> [version: 0..MaxVersions, gates: SUBSET Gate]]
    /\ draft \in [Handler -> Verdict \cup {"none"}]
    /\ seen \in [Handler -> State \cup {"none"}]

\* "Claim nothing until it answers": a proposal recorded, announced or
\* projected as applied has a committed transition under its key.  Includes the
\* types.
AppliedIsCommitted ==
    /\ TypeOK
    /\ \A k \in Key :
          "applied" \in records[k] \cup announced[k] \cup {projected[k]}
          => Committed(k) # {}

\* However often a proposal is retried, one transition is committed for it,
\* and only after a policy version that permitted automatic application: the
\* absence of a policy authorises nothing (X15).
AppliedOnce ==
    \A t \in transitions :
        /\ \A s \in transitions : s.key = t.key => s = t
        /\ <<t.from, t.to>> \in Governed
        /\ \E i \in 1..Len(policies[<<t.from, t.to>>]) :
               policies[<<t.from, t.to>>][i].auto

\* FR-GEL-071: the verdict recorded first is the only one.  It never changes,
\* and the registry announces and projects no other.
VerdictStep ==
    \A k \in Key :
        /\ records[k] # {} => records'[k] = records[k]
        /\ announced'[k] \cap Verdict \subseteq records'[k]
        /\ projected'[k] # "none" =>
               \E v \in records'[k] : projected'[k] = StateForVerdict(v)

\* No step of a retry, a race or a restart changes a verdict (finish).
VerdictIsFinal == [][VerdictStep]_vars

MadeFor(n, d) == d.gateSet = n.gates /\ d.version = n.version

\* A human passed every one of the gates G, when these were the gates (those of n)
\* and the version of the specification was that of n.
PassedByHuman(e, n, G) ==
    \A g \in G : \E i \in 1..Len(decisions[e]) :
        LET d == decisions[e][i] IN
        d.gate = g /\ d.disposition = "passed" /\ d.human /\ MadeFor(n, d)

\* The handler that commits a governed transition.
Committing(h) ==
    /\ pc[h] = "commit" /\ pc'[h] # "commit" /\ transitions' # transitions
    /\ Edge(req[h]) \in Governed

\* FR-ENH-014 and X11: a transition is committed only after a human has passed every
\* blocking gate there was when its gates were read, in a decision on those gates
\* and on the version that was read before them - however gates, decisions and
\* versions change between these reads and the commit (dispositionFor).
GatesOpenForHumans ==
    [][\A h \in Handler :
           Committing(h) => PassedByHuman(Edge(req[h]), noted[h], noted[h].gates \cap Blocking)]_vars

\* The same of the gates and the version there are at the commit.  Not kept: both
\* were read several round trips before, and nothing compares them again.
GatesStillOpen ==
    [][\A h \in Handler :
           Committing(h) => LET now == [version |-> version, gates |-> gates[Edge(req[h])]]
                            IN  PassedByHuman(Edge(req[h]), now, now.gates \cap Blocking)]_vars

\* lifecycle.machine.ts: anything outside the permitted set is refused, and
\* approved -> draft does not exist.  Not kept: setLifecycleState writes by id
\* what was validated against a state read earlier.
OnlyPermittedMoves ==
    [][status' # status => <<status, status'>> \in Permitted]_vars

\* The reason recorded with an inconsistent or refused verdict says that
\* nothing was applied.  Not kept: a process dies after the commit, and what the
\* retry reads and records denies it.
NothingWasApplied ==
    \A k \in Key :
        records[k] \cap {"inconsistent", "refused"} # {} => Committed(k) = {}
=============================================================================
