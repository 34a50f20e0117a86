------------------------ MODULE RequirementBaselines ------------------------
(***************************************************************************)
(* The Requirement Room and the register it writes through, for one        *)
(* project.  Candidates are promoted into requirements, requirements are   *)
(* edited, and sets of requirement versions are approved as baselines.  An *)
(* approval lists the baselines, judges, takes a number, inserts the row,  *)
(* its waivers, and marks what it replaces, with a round trip for each and *)
(* no transaction: other approvals and edits come in between, and its      *)
(* process may die.                                                        *)
(***************************************************************************)
EXTENDS Naturals, Sequences, FiniteSets

CONSTANTS
    Candidate, Handler,
    MaxContent,      \* contents of a requirement are 1..MaxContent
    MaxRequests, MaxCrashes \* bounds

ASSUME BoundsAssumption == {MaxContent, MaxRequests, MaxCrashes} \subseteq Nat /\ MaxContent > 0

VARIABLES
    content,    \* requirements: the content of each, in the order of creation
    versions,   \* requirement_versions, in the order of the appends
    promotedTo, \* candidate -> the requirement it became, or 0
    ready,      \* candidate -> it states criteria, or is not to be implemented
    baselines,  \* baselines by their number, which is unique in the project
    waivers,    \* baseline_exceptions: <<baseline, version>>
    pc, job,    \* per handler: the next step, and what it works on
    requests, crashes

register == <<content, versions>>
room == <<promotedTo, ready, baselines, waivers>>
counts == <<requests, crashes>>
vars == <<register, room, pc, job, counts>>

\* One record serves the three kinds of request.
NoJob == [requirement |-> 0, candidate |-> {}, content |-> 0, prior |-> 0, \* promote, edit
          known |-> {}, before |-> {},
          members |-> {}, supersedes |-> 0, waived |-> {},     \* approve
          current |-> {}, unstated |-> {}, number |-> 0]

Init ==
    /\ content = <<>> /\ versions = <<>>
    /\ promotedTo = [c \in Candidate |-> 0]
    /\ ready = [c \in Candidate |-> FALSE]
    /\ baselines = <<>> /\ waivers = {}
    /\ pc = [h \in Handler |-> "idle"]
    /\ job = [h \in Handler |-> NoJob]
    /\ requests = 0 /\ crashes = 0

At(h, from, to) == pc[h] = from /\ pc' = [pc EXCEPT ![h] = to]
Request == requests < MaxRequests /\ requests' = requests + 1
Learn(h, facts) == job' = [job EXCEPT ![h] = facts]
End(h) == pc' = [pc EXCEPT ![h] = "idle"] /\ job' = [job EXCEPT ![h] = NoJob]

VersionsOf(r) == {v \in DOMAIN versions : versions[v].requirement = r}
Ids(members) == {m.version : m \in members}
Current == {n \in DOMAIN baselines : baselines[n].supersededBy = 0}
Freezes(n, ids) == Ids(baselines[n].members) \cap ids # {}
-----------------------------------------------------------------------------
(* Promotion: create the requirement, freeze it, keep the reference.       *)
(* Nothing asks whether the candidate was promoted before.                 *)

CreateRequirement(h) ==
    /\ At(h, "idle", "freeze")
    /\ Request
    /\ content' = Append(content, 1)
    /\ \E c \in Candidate :
        Learn(h, [NoJob EXCEPT !.candidate = {c}, !.requirement = Len(content')])
    /\ UNCHANGED <<versions, room, crashes>>

\* Mutant: the candidate points at the requirement before that has a version.
MarkFirst(h) ==
    /\ At(h, "freeze", "version")
    /\ promotedTo' = [c \in Candidate |-> IF c \in job[h].candidate THEN job[h].requirement ELSE promotedTo[c]]
    /\ Learn(h, [job[h] EXCEPT !.prior = content[job[h].requirement]])
    /\ UNCHANGED <<register, ready, baselines, waivers, counts>>

Freeze(h) ==
    /\ At(h, "freeze", "version")
    /\ Learn(h, [job[h] EXCEPT !.prior = content[job[h].requirement]])
    /\ UNCHANGED <<register, room, counts>>

AppendVersion(h) ==
    versions' = Append(versions, [requirement |-> job[h].requirement, content |-> job[h].prior])

AppendFrozen(h) ==
    /\ At(h, "version", "mark")
    /\ AppendVersion(h)
    /\ UNCHANGED <<content, room, job, counts>>

MarkPromoted(h) ==
    /\ pc[h] = "mark"
    /\ promotedTo' = [c \in Candidate |-> IF c \in job[h].candidate THEN job[h].requirement ELSE promotedTo[c]]
    /\ End(h)
    /\ UNCHANGED <<register, ready, baselines, waivers, counts>>

SetCriteria(c) ==
    /\ Request
    /\ ready' = [ready EXCEPT ![c] = ~@]
    /\ UNCHANGED <<register, promotedTo, baselines, waivers, pc, job, crashes>>
-----------------------------------------------------------------------------
(* An edit: the veto of the current baselines, then the prior state is     *)
(* appended, then the record moves.                                        *)

\* What changes nothing is no edit.  before is history: the baselines in force.
BeginEdit(h) ==
    /\ At(h, "idle", "known")
    /\ Request
    /\ \E r \in DOMAIN content : \E new \in 1..MaxContent \ {content[r]} :
        Learn(h, [NoJob EXCEPT !.requirement = r, !.content = new, !.prior = content[r], !.before = Current])
    /\ UNCHANGED <<register, room, crashes>>

ListVersions(h) ==
    /\ At(h, "known", "veto")
    /\ Learn(h, [job[h] EXCEPT !.known = VersionsOf(job[h].requirement)])
    /\ UNCHANGED <<register, room, counts>>

\* Mutant: only the version listed first, the newest, is asked about.
FrozenNewest(h) == job[h].known # {} /\
    \E n \in Current : Freezes(n, {CHOOSE v \in job[h].known : \A w \in job[h].known : w <= v})

Frozen(h) == \E n \in Current : Freezes(n, job[h].known)

\* Only the current baselines govern; the refusal offers a change request.
AssertEditable(h) ==
    /\ pc[h] = "veto"
    /\ IF Frozen(h) THEN End(h) ELSE At(h, "veto", "append") /\ UNCHANGED job
    /\ UNCHANGED <<register, room, counts>>

AppendPrior(h) ==
    /\ At(h, "append", "update")
    /\ AppendVersion(h)
    /\ UNCHANGED <<content, room, job, counts>>

Update(h) ==
    /\ pc[h] = "update"
    /\ content' = [content EXCEPT ![job[h].requirement] = job[h].content]
    /\ End(h)
    /\ UNCHANGED <<versions, room, counts>>
-----------------------------------------------------------------------------
(* An approval. *)

\* The requirement's hash and the id of one of its versions: the register lists
\* versions newest first and takes the last.
CurrentVersion(r) ==
    [version |-> CHOOSE v \in VersionsOf(r) : \A w \in VersionsOf(r) : v <= w, content |-> content[r]]

\* What the screen offers to freeze: what has no version is skipped.
BaselineMembers ==
    {[candidate |-> c, version |-> CurrentVersion(promotedTo[c]).version,
      content |-> CurrentVersion(promotedTo[c]).content] :
        c \in {d \in Candidate : promotedTo[d] # 0 /\ VersionsOf(promotedTo[d]) # {}}}

\* The request holds what some screen showed, and may name a baseline to replace
\* and members to waive.
BeginApproval(h) ==
    /\ At(h, "idle", "list")
    /\ Request
    /\ \E members \in (SUBSET BaselineMembers) \ {{}}, supersedes \in {0} \cup DOMAIN baselines :
        \E waived \in SUBSET Ids(members) :
            Learn(h, [NoJob EXCEPT !.members = members, !.supersedes = supersedes, !.waived = waived])
    /\ UNCHANGED <<register, room, crashes>>

ListBaselines(h) ==
    /\ At(h, "list", "target")
    /\ Learn(h, [job[h] EXCEPT !.current = Current])
    /\ UNCHANGED <<register, room, counts>>

\* Mutant: only the latest of the current baselines is compared.
CollisionWithLatest(h) == \E n \in job[h].current \ {job[h].supersedes} :
    (\A k \in job[h].current : k <= n) /\ Freezes(n, Ids(job[h].members))

\* A baseline that is not the one to be replaced freezes one of the members.
Collision(h) == \E n \in job[h].current \ {job[h].supersedes} : Freezes(n, Ids(job[h].members))

\* To be replaced, a baseline must be there and current; to overlap with any
\* other is a conflict.
CheckTarget(h) ==
    /\ pc[h] = "target"
    /\ IF (job[h].supersedes # 0 /\ job[h].supersedes \notin Current) \/ Collision(h)
       THEN End(h) ELSE At(h, "target", "criteria") /\ UNCHANGED job
    /\ UNCHANGED <<register, room, counts>>

Unstated(h) == {m.version : m \in {x \in job[h].members : ~ready[x.candidate]}}

\* Mutant: one exception is taken for all members.
CheckCriteriaOnce(h) ==
    /\ pc[h] = "criteria"
    /\ IF Unstated(h) = {} \/ job[h].waived # {}
       THEN At(h, "criteria", "contract") /\ Learn(h, [job[h] EXCEPT !.unstated = Unstated(h)])
       ELSE End(h)
    /\ UNCHANGED <<register, room, counts>>

\* Every member that is to be implemented states its criteria or is waived.
\* unstated is history: those that do not.
CheckCriteria(h) ==
    /\ pc[h] = "criteria"
    /\ IF Unstated(h) \subseteq job[h].waived
       THEN At(h, "criteria", "contract") /\ Learn(h, [job[h] EXCEPT !.unstated = Unstated(h)])
       ELSE End(h)
    /\ UNCHANGED <<register, room, counts>>

\* The evidence contract is satisfied, or the approval is refused.
CheckContract(h) ==
    /\ pc[h] = "contract"
    /\ \/ At(h, "contract", "number") /\ UNCHANGED job
       \/ End(h)
    /\ UNCHANGED <<register, room, counts>>

NextNumber == 1 + CHOOSE n \in DOMAIN baselines \cup {0} : \A k \in DOMAIN baselines : k <= n

Replaced(h, n) == [baselines EXCEPT ![job[h].supersedes].supersededBy = n]

\* Mutant: the baseline to be replaced is marked as soon as the number is known.
NumberAndSupersede(h) ==
    /\ At(h, "number", "create")
    /\ Learn(h, [job[h] EXCEPT !.number = NextNumber])
    /\ baselines' = IF job[h].supersedes = 0 THEN baselines ELSE Replaced(h, NextNumber)
    /\ UNCHANGED <<register, promotedTo, ready, waivers, counts>>

NextBaselineVersion(h) ==
    /\ At(h, "number", "create")
    /\ Learn(h, [job[h] EXCEPT !.number = NextNumber])
    /\ UNCHANGED <<register, room, counts>>

\* listed and unstated are history: what the approval saw.
Baseline(h) == [members |-> job[h].members, supersededBy |-> 0,
                listed |-> job[h].current, unstated |-> job[h].unstated]

\* The unique index on the number decides; the loser's request fails.
CreateBaseline(h) ==
    /\ pc[h] = "create"
    /\ IF job[h].number \in DOMAIN baselines THEN End(h) /\ UNCHANGED baselines
       ELSE /\ At(h, "create", "waive") /\ UNCHANGED job
            /\ baselines' = [n \in DOMAIN baselines \cup {job[h].number} |->
                               IF n = job[h].number THEN Baseline(h) ELSE baselines[n]]
    /\ UNCHANGED <<register, promotedTo, ready, waivers, counts>>

Owed(h) == job[h].waived \ {w[2] : w \in {x \in waivers : x[1] = job[h].number}}

\* One insert per waiver, after the baseline.
CreateException(h) ==
    /\ pc[h] = "waive"
    /\ \E v \in Owed(h) : waivers' = waivers \cup {<<job[h].number, v>>}
    /\ UNCHANGED <<register, promotedTo, ready, baselines, pc, job, counts>>

\* The update does not ask what the row holds.
Supersede(h) ==
    /\ pc[h] = "waive"
    /\ Owed(h) = {}
    /\ baselines' = IF job[h].supersedes = 0 THEN baselines ELSE Replaced(h, job[h].number)
    /\ End(h)
    /\ UNCHANGED <<register, promotedTo, ready, waivers, counts>>
-----------------------------------------------------------------------------
Crash(h) ==
    /\ pc[h] # "idle"
    /\ crashes < MaxCrashes
    /\ crashes' = crashes + 1
    /\ End(h)
    /\ UNCHANGED <<register, room, requests>>

Next ==
    \/ \E h \in Handler :
        \/ CreateRequirement(h) \/ Freeze(h) \/ AppendFrozen(h) \/ MarkPromoted(h)
        \/ BeginEdit(h) \/ ListVersions(h) \/ AssertEditable(h) \/ AppendPrior(h) \/ Update(h)
        \/ BeginApproval(h) \/ ListBaselines(h) \/ CheckTarget(h) \/ CheckCriteria(h)
        \/ CheckContract(h) \/ NextBaselineVersion(h) \/ CreateBaseline(h)
        \/ CreateException(h) \/ Supersede(h)
        \/ Crash(h)
    \/ \E c \in Candidate : SetCriteria(c)

Spec == Init /\ [][Next]_vars
-----------------------------------------------------------------------------
Member == [candidate: Candidate, version: DOMAIN versions, content: 1..MaxContent]

\* Types of the variables; baselines are numbered without a gap, and waivers are
\* of baselines that are there.
TypeOK ==
    /\ content \in Seq(1..MaxContent)
    /\ versions \in Seq([requirement: DOMAIN content, content: 1..MaxContent])
    /\ promotedTo \in [Candidate -> {0} \cup DOMAIN content]
    /\ ready \in [Candidate -> BOOLEAN]
    /\ DOMAIN baselines = 1..Cardinality(DOMAIN baselines)
    /\ \A n \in DOMAIN baselines :
        /\ baselines[n].members \in (SUBSET Member) \ {{}}
        /\ baselines[n].unstated \subseteq Ids(baselines[n].members)
        /\ baselines[n].listed \subseteq 1..(n - 1)
    /\ waivers \subseteq {w \in (DOMAIN baselines) \X (DOMAIN versions) : Freezes(w[1], {w[2]})}
    /\ \A h \in Handler : job[h].members \subseteq Member /\ job[h].requirement \in {0} \cup DOMAIN content

\* "A promotion that created the requirement and stopped would leave a candidate
\* pointing at something with no version": also when it died, a candidate points
\* at a requirement the baseline gate can use (promote).
PromotedHasAVersion == \A c \in Candidate : promotedTo[c] # 0 => VersionsOf(promotedTo[c]) # {}

\* The approval that wrote baseline n has steps left.
Finishing(n) == \E h \in Handler : pc[h] = "waive" /\ job[h].number = n

\* A step that edits r: the request began before the baselines that freeze r.
EditStep ==
    \A r \in DOMAIN content : content'[r] # content[r] =>
        \A n \in Current : Freezes(n, VersionsOf(r)) =>
            \E h \in Handler : pc[h] = "update" /\ job[h].requirement = r /\ n \notin job[h].before

\* FR-RQR-051: a requirement a current baseline freezes is edited only by a
\* request that began before that baseline was (edit, assertEditable, approve).
EditsRespectBaselines == [][EditStep]_vars

\* FR-RQR-052: what a superseded baseline names as its replacement is there and
\* is later, wherever an approval stopped (approve, step 5).  Includes the types.
ReplacementIsThere == TypeOK /\
    \A n \in DOMAIN baselines : LET m == baselines[n].supersededBy
                               IN  m # 0 => m \in DOMAIN baselines /\ n < m

\* FR-RQR-030 to 033: a version that the criteria check found without criteria, by
\* the candidate the request names for it, is frozen only with a recorded exception,
\* once the approval is done (checkCriteria, createBaselineExceptions).
WaiversAreComplete ==
    \A n \in DOMAIN baselines : \A v \in baselines[n].unstated :
        <<n, v>> \in waivers \/ Finishing(n) \/ crashes > 0

Overlapping(n, m) == n # m /\ Freezes(n, Ids(baselines[m].members))

\* FR-RQR-054, of approvals one after the other: a baseline that overlaps an
\* earlier one its approval saw has replaced it (approve).
OverlapsAreReplacements ==
    \A m \in DOMAIN baselines : \A n \in baselines[m].listed :
        Overlapping(n, m) => n \notin Current \/ Finishing(m) \/ crashes > 0

\* FR-RQR-054, "concurrent approval of overlapping requirement scope MUST surface
\* as a conflict, not merge".  Refuted: both list before either inserts, and the
\* unique index stops only those that took one number.
OverlapIsAConflict ==
    \A n, m \in Current : Overlapping(n, m) => Finishing(n) \/ Finishing(m) \/ crashes > 0

\* Not kept: "two baselines claiming to have replaced it leaves no single answer"
\* (approve).  Two approvals find the same baseline current, and the update does
\* not ask what it holds.
ReplacedOnce ==
    [][\A n \in DOMAIN baselines : baselines[n].supersededBy # 0 =>
        baselines'[n].supersededBy = baselines[n].supersededBy]_vars

\* Not kept: a member is "the requirement's current frozen version" with the hash
\* of its content (currentVersion, BaselineMember).  The register lists newest
\* first and the last is the oldest: after an edit the hash is of another text.
MembersAreAsTheyStand ==
    \A n \in DOMAIN baselines : \A m \in baselines[n].members : m.content = versions[m.version].content

\* Not kept: FR-009, the prior text of an edit stays in the history (edit).  Two
\* edits append one prior state and the second writes over the first.
PriorTextIsKept ==
    [][\A r \in DOMAIN content : content'[r] # content[r] =>
        \E v \in VersionsOf(r) : versions[v].content = content[r]]_vars
=============================================================================
