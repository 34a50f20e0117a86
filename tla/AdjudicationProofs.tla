-------------------------- MODULE AdjudicationProofs --------------------------
(***************************************************************************)
(* Proofs that a proposal reported as applied is committed, that it is     *)
(* committed once and under a policy, that its first verdict is its only   *)
(* one, and that gates open for humans only; for any number of keys,       *)
(* gates, transitions and handlers, whatever they retry and whenever they  *)
(* crash.  The last section is about the jobs that generate the            *)
(* specifications: redelivery stores no second one, and what was stored    *)
(* stays the result of its job.                                            *)
(***************************************************************************)
EXTENDS Adjudication, GenerationJobs, FiniteSetTheorems, SequenceTheorems, TLAPS

\* The steps of a handler that has a verdict.
Decided == {"record", "announce", "project"}

\* The types, with the domains of what is configured.
Typed ==
    /\ TypeOK /\ IsFiniteSet(transitions)
    /\ decisions \in [Governed -> Seq(Decision)]
    /\ policies \in [Governed -> Seq(Policy)]

\* The application of a transition has been permitted by a policy version.
Permitting(e) == e \in Governed /\ \E i \in 1..Len(policies[e]) : policies[e][i].auto

\* What a handler holds at its step: a verdict once it has decided, and only
\* then; "applied" with a committed transition; what it announces is recorded;
\* and it applies nothing no policy permitted.
HandlerFits(h) ==
    /\ pc[h] \in Decided => draft[h] \in Verdict
    /\ pc[h] \notin Decided => draft[h] = "none"
    /\ draft[h] = "applied" => Committed(req[h].key) # {}
    /\ pc[h] \in {"announce", "project"} => draft[h] \in records[req[h].key]
    /\ pc[h] \in {"prior", "commit"} => Permitting(Edge(req[h]))
    /\ pc[h] = "write" => seen[h] \in State

HandlersFit == \A h \in Handler : HandlerFits(h)

\* What is said of a proposal is what is recorded of it, and an applied one is
\* committed.
ClaimsAreTrue ==
    \A k \in Key :
        /\ announced[k] \cap Verdict \subseteq records[k]
        /\ projected[k] # "none" => \E v \in records[k] : projected[k] = StateForVerdict(v)
        /\ "applied" \in records[k] => Committed(k) # {}

\* Only humans pass gates.
HumansPass ==
    \A e \in Governed : \A i \in 1..Len(decisions[e]) :
        decisions[e][i].disposition = "passed" => decisions[e][i].human

\* The inductive invariant: beyond the properties, what a handler carries from
\* one round trip to the next.
IInv == Typed /\ HandlersFit /\ ClaimsAreTrue /\ AppliedOnce /\ HumansPass
----------------------------------------------------------------------------
\* Handlers

Note == [version: 0..MaxVersions, gates: SUBSET Gate]

LocalTyped ==
    /\ pc \in [Handler -> Step] /\ req \in [Handler -> Proposals]
    /\ noted \in [Handler -> Note]
    /\ draft \in [Handler -> Verdict \cup {"none"}]
    /\ seen \in [Handler -> State \cup {"none"}]

\* A step of a handler leaves the others where they are.
OthersAlone(h) ==
    \A w \in Handler \ {h} :
        /\ pc'[w] = pc[w] /\ req'[w] = req[w] /\ noted'[w] = noted[w]
        /\ draft'[w] = draft[w] /\ seen'[w] = seen[w]

\* A handler and its request have their types.
LEMMA HandlerTyped ==
    ASSUME IInv, NEW h \in Handler
    PROVE  /\ LocalTyped /\ pc[h] \in Step /\ req[h] \in Proposal
           /\ req[h] \in Proposals /\ req[h].key \in Key
           /\ req[h].from \in State /\ req[h].to \in State
           /\ HandlerFits(h)
BY ProposalsAssumption DEF IInv, Typed, TypeOK, LocalTyped, Note, HandlersFit, Proposal

\* Going on changes the step of one handler.
LEMMA ContinueLocal ==
    ASSUME IInv, NEW h \in Handler, NEW s \in Step, Continue(h, s)
    PROVE  /\ LocalTyped' /\ OthersAlone(h)
           /\ pc'[h] = s /\ req'[h] = req[h] /\ draft'[h] = draft[h] /\ seen'[h] = seen[h]
BY HandlerTyped DEF Continue, LocalTyped, OthersAlone

\* A handler that has not noted anything, and what one may note.
LEMMA NothingNoted == Unread \in Note
BY BoundsAssumption DEF Unread, Note

\* Deciding gives one handler a verdict to record.
LEMMA DecideLocal ==
    ASSUME IInv, NEW h \in Handler, NEW v \in Verdict, Decide(h, v)
    PROVE  /\ LocalTyped' /\ OthersAlone(h)
           /\ pc'[h] = "record" /\ req'[h] = req[h] /\ draft'[h] = v /\ seen'[h] = seen[h]
BY HandlerTyped, NothingNoted DEF Decide, LocalTyped, OthersAlone, Step

\* A handler that has finished, or died, holds nothing.
LEMMA FinishLocal ==
    ASSUME IInv, NEW h \in Handler, Finish(h)
    PROVE  /\ LocalTyped' /\ OthersAlone(h)
           /\ pc'[h] = "idle" /\ draft'[h] = "none" /\ HandlerFits(h)'
<1>1. NoProposal \in Proposals
  BY ProposalsAssumption DEF NoProposal
<1>2. /\ LocalTyped' /\ OthersAlone(h) /\ pc'[h] = "idle" /\ draft'[h] = "none"
  BY <1>1, HandlerTyped, NothingNoted DEF Finish, LocalTyped, OthersAlone, Step
<1>3. QED
  BY <1>2 DEF HandlerFits, Decided

\* Commits, records and policies are only added: the other handlers keep what
\* they know.
LEMMA OthersFit ==
    ASSUME IInv, NEW h \in Handler, OthersAlone(h), HandlerFits(h)',
           transitions \subseteq transitions', policies' = policies,
           \A k \in Key : records[k] \subseteq records'[k]
    PROVE  HandlersFit'
<1>1. SUFFICES ASSUME NEW w \in Handler, w # h PROVE HandlerFits(w)'
  BY DEF HandlersFit
<1>2. /\ HandlerFits(w) /\ req[w].key \in Key
      /\ pc'[w] = pc[w] /\ req'[w] = req[w] /\ draft'[w] = draft[w] /\ seen'[w] = seen[w]
  BY <1>1, HandlerTyped DEF OthersAlone
<1>3. QED
  BY <1>2 DEF HandlerFits, Committed, Permitting

\* A step of one handler that reads only.
LEMMA LocalStep ==
    ASSUME IInv, NEW h \in Handler, LocalTyped', OthersAlone(h), HandlerFits(h)', ReadOnly
    PROVE  IInv'
<1>1. /\ UNCHANGED <<status, version, transitions, proposals, records, announced, projected>>
      /\ UNCHANGED <<gates, decisions, policies>>
  BY DEF ReadOnly, evidence, config
<1>2. Typed'
  BY <1>1 DEF IInv, Typed, TypeOK, LocalTyped, Note
<1>3. HandlersFit'
  BY <1>1, OthersFit
<1>4. ClaimsAreTrue' /\ AppliedOnce' /\ HumansPass'
  BY <1>1 DEF IInv, ClaimsAreTrue, AppliedOnce, HumansPass, Committed
<1>5. QED
  BY <1>2, <1>3, <1>4 DEF IInv
----------------------------------------------------------------------------
\* Steps that read only

\* A request is taken by an idle handler, which holds no verdict.
LEMMA ReceiveStep ==
    ASSUME IInv, NEW h \in Handler, NEW r \in Proposals, Receive(h, r)
    PROVE  IInv'
<1>1. /\ LocalTyped' /\ OthersAlone(h) /\ pc[h] = "idle" /\ pc'[h] = "lookup"
      /\ draft'[h] = draft[h]
  BY HandlerTyped DEF Receive, LocalTyped, OthersAlone, Step
<1>2. HandlerFits(h)'
  BY <1>1, HandlerTyped DEF HandlerFits, Decided
<1>3. QED
  BY <1>1, <1>2, LocalStep DEF Receive

\* A user's request is validated against the lifecycle before it is written.
LEMMA DirectLoadStep ==
    ASSUME IInv, NEW h \in Handler, NEW to \in Targets, DirectLoad(h, to)
    PROVE  IInv'
<1>1. to \in State
  BY ProposalsAssumption
<1>2. /\ LocalTyped' /\ OthersAlone(h) /\ pc[h] = "idle" /\ pc'[h] = "write"
      /\ draft'[h] = draft[h] /\ seen'[h] = to
  BY <1>1, HandlerTyped DEF DirectLoad, LocalTyped, OthersAlone, Step
<1>3. HandlerFits(h)'
  BY <1>1, <1>2, HandlerTyped DEF HandlerFits, Decided
<1>4. QED
  BY <1>2, <1>3, LocalStep DEF DirectLoad

\* A handler that goes on undecided holds no verdict; it goes on towards the
\* commit only when a policy has permitted it.
LEMMA GoOnStep ==
    ASSUME IInv, NEW h \in Handler, NEW s \in Step, Continue(h, s), ReadOnly,
           pc[h] \notin Decided, s \notin Decided, s # "write",
           s \in {"prior", "commit"} => Permitting(Edge(req[h]))
    PROVE  IInv'
<1>1. /\ LocalTyped' /\ OthersAlone(h)
      /\ pc'[h] = s /\ req'[h] = req[h] /\ draft'[h] = draft[h]
  BY ContinueLocal
<1>2. policies' = policies
  BY DEF ReadOnly, config
<1>3. HandlerFits(h)'
  BY <1>1, <1>2, HandlerTyped DEF HandlerFits, Decided, Permitting, Edge
<1>4. QED
  BY <1>1, <1>3, LocalStep

\* A handler decides "applied" only when the transition is committed.
LEMMA DecideStep ==
    ASSUME IInv, NEW h \in Handler, NEW v \in Verdict, Decide(h, v), ReadOnly,
           v = "applied" => Committed(req[h].key) # {}
    PROVE  IInv'
<1>1. /\ LocalTyped' /\ OthersAlone(h)
      /\ pc'[h] = "record" /\ req'[h] = req[h] /\ draft'[h] = v
  BY DecideLocal
<1>2. transitions' = transitions
  BY DEF ReadOnly
<1>3. HandlerFits(h)'
  BY <1>1, <1>2 DEF HandlerFits, Decided, Committed
<1>4. QED
  BY <1>1, <1>3, LocalStep

\* A retry answers with the verdict on record.
LEMMA FindRecordStep ==
    ASSUME IInv, NEW h \in Handler, FindRecord(h)
    PROVE  IInv'
<1>1. CASE Continue(h, "observe")
  BY <1>1, GoOnStep DEF FindRecord, Decided, Step
<1>2. ASSUME NEW v \in records[req[h].key],
             pc' = [pc EXCEPT ![h] = "announce"],
             draft' = [draft EXCEPT ![h] = v],
             UNCHANGED <<req, noted, seen>>
      PROVE  IInv'
  <2>1. v \in Verdict /\ (v = "applied" => Committed(req[h].key) # {})
    BY HandlerTyped DEF IInv, Typed, TypeOK, ClaimsAreTrue
  <2>2. /\ LocalTyped' /\ OthersAlone(h)
        /\ pc'[h] = "announce" /\ req'[h] = req[h] /\ draft'[h] = v
    BY <1>2, <2>1, HandlerTyped DEF LocalTyped, OthersAlone, Step
  <2>3. transitions' = transitions /\ records' = records /\ ReadOnly
    BY DEF FindRecord, ReadOnly, evidence
  <2>4. HandlerFits(h)'
    BY <2>1, <2>2, <2>3 DEF HandlerFits, Decided, Committed
  <2>5. QED
    BY <2>2, <2>3, <2>4, LocalStep
<1>3. QED
  BY <1>1, <1>2 DEF FindRecord

\* The other steps that only read: each goes on undecided, or decides something
\* other than "applied" unless a commit is found; an effective policy version
\* is one of the transition's.
LEMMA ConsultStep ==
    ASSUME IInv, NEW h \in Handler,
           Lookup(h) \/ Observe(h) \/ ReadOutcomes(h) \/ ConsultAuthority(h)
               \/ ConsultAutoApply(h) \/ FindPrior(h)
    PROVE  IInv'
<1>1. CASE Lookup(h)
  BY <1>1, GoOnStep DEF Lookup, Decided, Step
<1>2. CASE Observe(h)
  BY <1>2, GoOnStep, DecideStep DEF Observe, Decided, Step, Verdict
<1>3. CASE ReadOutcomes(h)
  BY <1>3, GoOnStep, DecideStep DEF ReadOutcomes, Decided, Step, Verdict
<1>4. CASE ConsultAuthority(h)
  BY <1>4, GoOnStep, DecideStep DEF ConsultAuthority, Decided, Step, Verdict
<1>5. CASE ConsultAutoApply(h)
  <2>1. CASE AutoApplyPermitted(Edge(req[h]))
    <3> DEFINE e == Edge(req[h])
    <3>1. e \in Governed /\ policies[e] # <<>> /\ Latest(policies[e]).auto
      BY <2>1 DEF AutoApplyPermitted, Effective
    <3>2. Len(policies[e]) \in 1..Len(policies[e])
      <4>1. policies[e] \in Seq(Policy)
        BY <3>1 DEF IInv, Typed
      <4>2. QED
        BY <3>1, <4>1, EmptySeq
    <3>3. Permitting(e)
      BY <3>1, <3>2 DEF Permitting, Latest
    <3>4. QED
      BY <1>5, <2>1, <3>3, GoOnStep DEF ConsultAutoApply, Decided, Step
  <2>2. CASE ~AutoApplyPermitted(Edge(req[h]))
    BY <1>5, <2>2, DecideStep DEF ConsultAutoApply, Verdict
  <2>3. QED
    BY <2>1, <2>2
<1>6. CASE FindPrior(h)
  <2>1. pc[h] = "prior" /\ Permitting(Edge(req[h]))
    BY <1>6, HandlerTyped DEF FindPrior, HandlerFits
  <2>2. QED
    BY <1>6, <2>1, GoOnStep, DecideStep DEF FindPrior, Decided, Step, Verdict
<1>7. QED
  BY <1>1, <1>2, <1>3, <1>4, <1>5, <1>6

\* A handler notes the version, and the gates, that it reads.
LEMMA NotingStep ==
    ASSUME IInv, NEW h \in Handler, ReadVersion(h) \/ ReadGates(h)
    PROVE  IInv'
<1>1. PICK n \in Note : noted' = [noted EXCEPT ![h] = n]
  <2>1. noted[h] \in Note /\ noted \in [Handler -> Note] /\ version \in 0..MaxVersions
    BY HandlerTyped DEF LocalTyped, IInv, Typed, TypeOK
  <2>2. GatesOf(Edge(req[h])) \in SUBSET Gate
    BY DEF GatesOf, IInv, Typed, TypeOK
  <2>3. CASE ReadVersion(h)
    <3>1. PICK n : n = [noted[h] EXCEPT !.version = version]
      OBVIOUS
    <3>2. n \in Note
      BY <2>1, <3>1 DEF Note
    <3>3. noted' = [noted EXCEPT ![h] = n]
      BY <2>1, <2>3, <3>1 DEF ReadVersion
    <3>4. QED
      BY <3>2, <3>3
  <2>4. CASE ReadGates(h)
    <3>1. PICK n : n = [noted[h] EXCEPT !.gates = GatesOf(Edge(req[h]))]
      OBVIOUS
    <3>2. n \in Note
      BY <2>1, <2>2, <3>1 DEF Note
    <3>3. noted' = [noted EXCEPT ![h] = n]
      BY <2>1, <2>4, <3>1 DEF ReadGates
    <3>4. QED
      BY <3>2, <3>3
  <2>5. QED
    BY <2>3, <2>4
<1>2. PICK s \in {"gates", "outcomes", "authority"} : pc' = [pc EXCEPT ![h] = s]
  BY DEF ReadVersion, ReadGates
<1>3. /\ pc[h] \in {"version", "gates"} /\ UNCHANGED <<req, draft, seen>> /\ ReadOnly
  BY DEF ReadVersion, ReadGates
<1>4. LocalTyped' /\ OthersAlone(h) /\ pc'[h] = s /\ draft'[h] = draft[h]
  BY <1>1, <1>2, <1>3, HandlerTyped DEF LocalTyped, OthersAlone, Step
<1>5. HandlerFits(h)'
  BY <1>2, <1>3, <1>4, HandlerTyped DEF HandlerFits, Decided
<1>6. QED
  BY <1>3, <1>4, <1>5, LocalStep
----------------------------------------------------------------------------
\* Steps that write

\* A proposal is inserted once; the loser of its key is over.
LEMMA InsertProposalStep ==
    ASSUME IInv, NEW h \in Handler, InsertProposal(h)
    PROVE  IInv'
<1>1. /\ pc[h] = "insert"
      /\ UNCHANGED <<status, version, transitions, records, announced, projected, gates, decisions, policies>>
  BY DEF InsertProposal, config
<1>2. /\ LocalTyped' /\ OthersAlone(h) /\ HandlerFits(h)'
      /\ proposals' \in [Key -> SUBSET Proposals]
  <2>1. CASE Continue(h, "propose") /\ proposals' = [proposals EXCEPT ![req[h].key] = {req[h]}]
    <3>1. /\ LocalTyped' /\ OthersAlone(h) /\ pc'[h] = "propose" /\ draft'[h] = draft[h]
      BY <2>1, ContinueLocal DEF Step
    <3>2. HandlerFits(h)'
      BY <1>1, <3>1, HandlerTyped DEF HandlerFits, Decided
    <3>3. proposals' \in [Key -> SUBSET Proposals]
      BY <2>1, HandlerTyped DEF IInv, Typed, TypeOK
    <3>4. QED
      BY <3>1, <3>2, <3>3
  <2>2. CASE Finish(h) /\ UNCHANGED proposals
    BY <2>2, FinishLocal DEF IInv, Typed, TypeOK
  <2>3. QED
    BY <2>1, <2>2 DEF InsertProposal
<1>3. Typed'
  BY <1>1, <1>2 DEF IInv, Typed, TypeOK, LocalTyped, Note
<1>4. HandlersFit'
  BY <1>1, <1>2, OthersFit
<1>5. ClaimsAreTrue' /\ AppliedOnce' /\ HumansPass'
  BY <1>1 DEF IInv, ClaimsAreTrue, AppliedOnce, HumansPass, Committed
<1>6. QED
  BY <1>3, <1>4, <1>5 DEF IInv

\* What is announced first is no verdict.
LEMMA AnnounceProposedStep ==
    ASSUME IInv, NEW h \in Handler, AnnounceProposed(h)
    PROVE  IInv'
<1>1. /\ pc[h] = "propose" /\ Continue(h, "find")
      /\ announced' = [announced EXCEPT ![req[h].key] = announced[req[h].key] \cup {"proposed"}]
      /\ UNCHANGED <<status, version, transitions, proposals, records, projected, gates, decisions, policies>>
  BY DEF AnnounceProposed, config
<1>2. /\ LocalTyped' /\ OthersAlone(h) /\ pc'[h] = "find" /\ draft'[h] = draft[h]
  BY <1>1, ContinueLocal DEF Step
<1>3. HandlerFits(h)'
  BY <1>1, <1>2, HandlerTyped DEF HandlerFits, Decided
<1>4. /\ announced' \in [Key -> SUBSET (Verdict \cup {"proposed"})]
      /\ \A k \in Key : announced'[k] \cap Verdict = announced[k] \cap Verdict
  <2>1. "proposed" \notin Verdict
    BY DEF Verdict
  <2>2. QED
    BY <1>1, <2>1, HandlerTyped DEF IInv, Typed, TypeOK
<1>5. Typed'
  BY <1>1, <1>2, <1>4 DEF IInv, Typed, TypeOK, LocalTyped, Note
<1>6. HandlersFit'
  BY <1>1, <1>2, <1>3, OthersFit
<1>7. ClaimsAreTrue' /\ AppliedOnce' /\ HumansPass'
  BY <1>1, <1>4 DEF IInv, ClaimsAreTrue, AppliedOnce, HumansPass, Committed
<1>8. QED
  BY <1>5, <1>6, <1>7 DEF IInv

\* A commit under a key that has none, of a handler a policy has let through: the
\* key has one transition, and a governed one.
LEMMA MoveCommits ==
    ASSUME IInv, NEW h \in Handler, pc[h] = "commit",
           Committed(req[h].key) = {}, Move(req[h]), UNCHANGED <<evidence, config>>
    PROVE  /\ status' \in State /\ IsFiniteSet(transitions')
           /\ transitions' \subseteq [id: Nat, key: Key, from: State, to: State]
           /\ transitions \subseteq transitions'
           /\ \E t \in transitions' : t.key = req[h].key
           /\ AppliedOnce'
<1> PICK t : t = Transition(req[h])
  OBVIOUS
<1>1. /\ transitions' = transitions \cup {t} /\ status' = req[h].to
      /\ policies' = policies
  BY DEF Move, config
<1>2. /\ t \in [id: Nat, key: Key, from: State, to: State]
      /\ t.key = req[h].key /\ t.from = req[h].from /\ t.to = req[h].to
  <2>1. Cardinality(transitions) + 1 \in Nat
    BY FS_CardinalityType DEF IInv, Typed
  <2>2. QED
    BY <2>1, HandlerTyped DEF Transition
<1>3. IsFiniteSet(transitions')
  BY <1>1, FS_AddElement DEF IInv, Typed
<1>4. Permitting(<<t.from, t.to>>)
  BY <1>2, HandlerTyped DEF HandlerFits, Edge
<1>5. \A s \in transitions : s.key # t.key
  BY <1>2 DEF Committed
<1>6. AppliedOnce'
  BY <1>1, <1>4, <1>5 DEF IInv, AppliedOnce, Permitting
<1>7. QED
  BY <1>1, <1>2, <1>3, <1>6, HandlerTyped DEF IInv, Typed, TypeOK, Committed

\* The transaction of the lifecycle repository: a handler says "applied" after it
\* committed, and nothing it commits is committed already.
LEMMA CommitStep ==
    ASSUME IInv, NEW h \in Handler, Commit(h)
    PROVE  IInv'
<1>1. pc[h] = "commit" /\ UNCHANGED <<version, evidence, config>>
  BY DEF Commit
<1>2. /\ UNCHANGED <<version, proposals, records, announced, projected>>
      /\ UNCHANGED <<gates, decisions, policies>>
  BY <1>1 DEF evidence, config
<1>3. PICK v \in {"applied", "reconciliation_required", "refused"} :
          /\ Decide(h, v)
          /\ \/ Committed(req[h].key) = {} /\ Move(req[h])
             \/ v # "applied" /\ UNCHANGED <<status, transitions>>
  BY DEF Commit
<1>4. /\ LocalTyped' /\ OthersAlone(h)
      /\ pc'[h] = "record" /\ req'[h] = req[h] /\ draft'[h] = v /\ v \in Verdict
  BY <1>3, DecideLocal DEF Verdict
<1>5. /\ status' \in State /\ IsFiniteSet(transitions')
      /\ transitions' \subseteq [id: Nat, key: Key, from: State, to: State]
      /\ transitions \subseteq transitions'
      /\ v = "applied" => \E t \in transitions' : t.key = req[h].key
      /\ AppliedOnce'
  <2>1. CASE Committed(req[h].key) = {} /\ Move(req[h])
    BY <1>1, <2>1, MoveCommits
  <2>2. CASE v # "applied" /\ UNCHANGED <<status, transitions>>
    BY <1>2, <2>2 DEF IInv, Typed, TypeOK, AppliedOnce
  <2>3. QED
    BY <1>3, <2>1, <2>2
<1>6. Typed'
  BY <1>2, <1>4, <1>5 DEF IInv, Typed, TypeOK, LocalTyped, Note
<1>7. HandlersFit'
  <2>1. HandlerFits(h)'
    BY <1>4, <1>5 DEF HandlerFits, Decided, Committed
  <2>2. QED
    BY <1>2, <1>4, <1>5, <2>1, OthersFit
<1>8. ClaimsAreTrue' /\ HumansPass'
  BY <1>2, <1>5 DEF IInv, ClaimsAreTrue, HumansPass, Committed
<1>9. QED
  BY <1>5, <1>6, <1>7, <1>8 DEF IInv

\* The verdict a handler records is the first of its proposal, and an applied one
\* is committed; the loser of the key is over.
LEMMA RecordStep ==
    ASSUME IInv, NEW h \in Handler, Record(h)
    PROVE  IInv'
<1>1. /\ pc[h] = "record"
      /\ UNCHANGED <<status, version, transitions, proposals, announced, projected, gates, decisions, policies>>
  BY DEF Record, config
<1> PICK k : k = req[h].key
  OBVIOUS
<1>2. /\ k \in Key /\ draft[h] \in Verdict
      /\ draft[h] = "applied" => Committed(k) # {}
  BY <1>1, HandlerTyped DEF HandlerFits, Decided
<1>3. /\ LocalTyped' /\ OthersAlone(h) /\ HandlerFits(h)'
      /\ records' \in [Key -> SUBSET Verdict]
      /\ \A l \in Key : records[l] \subseteq records'[l]
      /\ \A l \in Key : records'[l] # records[l] => l = k /\ records'[l] = {draft[h]}
  <2>1. CASE records[k] = {} /\ records' = [records EXCEPT ![k] = {draft[h]}]
             /\ Continue(h, "announce")
    <3>1. /\ LocalTyped' /\ OthersAlone(h) /\ pc'[h] = "announce" /\ req'[h] = req[h]
          /\ draft'[h] = draft[h]
      BY <2>1, ContinueLocal DEF Step
    <3>2. /\ records' \in [Key -> SUBSET Verdict] /\ records'[k] = {draft[h]}
          /\ \A l \in Key : l # k => records'[l] = records[l]
      BY <1>2, <2>1 DEF IInv, Typed, TypeOK
    <3>3. HandlerFits(h)'
      BY <1>1, <1>2, <3>1, <3>2 DEF HandlerFits, Decided, Committed
    <3>4. QED
      BY <2>1, <3>1, <3>2, <3>3
  <2>2. CASE Finish(h) /\ UNCHANGED records
    BY <2>2, FinishLocal DEF IInv, Typed, TypeOK
  <2>3. QED
    BY <2>1, <2>2 DEF Record
<1>4. Typed'
  BY <1>1, <1>3 DEF IInv, Typed, TypeOK, LocalTyped, Note
<1>5. HandlersFit'
  BY <1>1, <1>3, OthersFit
<1>6. ClaimsAreTrue'
  BY <1>1, <1>2, <1>3 DEF IInv, ClaimsAreTrue, Committed
<1>7. AppliedOnce' /\ HumansPass'
  BY <1>1 DEF IInv, AppliedOnce, HumansPass
<1>8. QED
  BY <1>4, <1>5, <1>6, <1>7 DEF IInv

\* Only a verdict on record is announced.
LEMMA AnnounceVerdictStep ==
    ASSUME IInv, NEW h \in Handler, AnnounceVerdict(h)
    PROVE  IInv'
<1>1. /\ pc[h] = "announce"
      /\ UNCHANGED <<status, version, transitions, proposals, records, projected, gates, decisions, policies>>
  BY DEF AnnounceVerdict, config
<1> PICK k : k = req[h].key
  OBVIOUS
<1>2. /\ k \in Key /\ draft[h] \in Verdict /\ draft[h] \in records[k]
      /\ draft[h] = "applied" => Committed(k) # {}
  BY <1>1, HandlerTyped DEF HandlerFits, Decided
<1>3. /\ LocalTyped' /\ OthersAlone(h) /\ HandlerFits(h)'
      /\ announced' \in [Key -> SUBSET (Verdict \cup {"proposed"})]
      /\ \A l \in Key : announced'[l] \cap Verdict \subseteq records[l]
  <2>1. CASE announced' = [announced EXCEPT ![k] = announced[k] \cup {draft[h]}]
             /\ Continue(h, "project")
    <3>1. /\ LocalTyped' /\ OthersAlone(h) /\ pc'[h] = "project" /\ req'[h] = req[h]
          /\ draft'[h] = draft[h]
      BY <2>1, ContinueLocal DEF Step
    <3>2. HandlerFits(h)'
      BY <1>1, <1>2, <3>1 DEF HandlerFits, Decided, Committed
    <3>3. /\ announced' \in [Key -> SUBSET (Verdict \cup {"proposed"})]
          /\ \A l \in Key : announced'[l] \cap Verdict \subseteq records[l]
      BY <1>2, <2>1 DEF IInv, Typed, TypeOK, ClaimsAreTrue
    <3>4. QED
      BY <3>1, <3>2, <3>3
  <2>2. CASE Finish(h) /\ UNCHANGED announced
    BY <2>2, FinishLocal DEF IInv, Typed, TypeOK, ClaimsAreTrue
  <2>3. QED
    BY <2>1, <2>2 DEF AnnounceVerdict
<1>4. Typed'
  BY <1>1, <1>3 DEF IInv, Typed, TypeOK, LocalTyped, Note
<1>5. HandlersFit'
  BY <1>1, <1>3, OthersFit
<1>6. ClaimsAreTrue'
  BY <1>1, <1>3 DEF IInv, ClaimsAreTrue, Committed
<1>7. AppliedOnce' /\ HumansPass'
  BY <1>1 DEF IInv, AppliedOnce, HumansPass
<1>8. QED
  BY <1>4, <1>5, <1>6, <1>7 DEF IInv

\* Only a verdict on record is projected.
LEMMA ProjectStep ==
    ASSUME IInv, NEW h \in Handler, Project(h)
    PROVE  IInv'
<1>1. /\ pc[h] = "project" /\ Finish(h)
      /\ projected' = [projected EXCEPT ![req[h].key] = StateForVerdict(draft[h])]
      /\ UNCHANGED <<status, version, transitions, proposals, records, announced, gates, decisions, policies>>
  BY DEF Project, config
<1>2. draft[h] \in Verdict /\ draft[h] \in records[req[h].key] /\ req[h].key \in Key
  BY <1>1, HandlerTyped DEF HandlerFits, Decided
<1>3. StateForVerdict(draft[h]) \in ProposalState
  BY <1>2 DEF StateForVerdict, ProposalState
<1>4. /\ projected' \in [Key -> ProposalState]
      /\ \A k \in Key : projected'[k] # "none" =>
             \E v \in records[k] : projected'[k] = StateForVerdict(v)
  BY <1>1, <1>2, <1>3 DEF IInv, Typed, TypeOK, ClaimsAreTrue
<1>5. LocalTyped' /\ OthersAlone(h) /\ HandlerFits(h)'
  BY <1>1, FinishLocal
<1>6. Typed'
  BY <1>1, <1>4, <1>5 DEF IInv, Typed, TypeOK, LocalTyped, Note
<1>7. HandlersFit'
  BY <1>1, <1>5, OthersFit
<1>8. ClaimsAreTrue'
  BY <1>1, <1>4 DEF IInv, ClaimsAreTrue, Committed
<1>9. AppliedOnce' /\ HumansPass'
  BY <1>1 DEF IInv, AppliedOnce, HumansPass
<1>10. QED
  BY <1>6, <1>7, <1>8, <1>9 DEF IInv

\* The direct path writes a state and commits no transition.
LEMMA DirectWriteStep ==
    ASSUME IInv, NEW h \in Handler, DirectWrite(h)
    PROVE  IInv'
<1>1. /\ pc[h] = "write" /\ status' = seen[h] /\ Finish(h)
      /\ UNCHANGED <<version, transitions, proposals, records, announced, projected>>
      /\ UNCHANGED <<gates, decisions, policies>>
  BY DEF DirectWrite, evidence, config
<1>2. LocalTyped' /\ OthersAlone(h) /\ HandlerFits(h)'
  BY <1>1, FinishLocal
<1>3. status' \in State
  BY <1>1, HandlerTyped DEF HandlerFits
<1>4. Typed'
  BY <1>1, <1>2, <1>3 DEF IInv, Typed, TypeOK, LocalTyped, Note
<1>5. HandlersFit'
  BY <1>1, <1>2, OthersFit
<1>6. ClaimsAreTrue' /\ AppliedOnce' /\ HumansPass'
  BY <1>1 DEF IInv, ClaimsAreTrue, AppliedOnce, HumansPass, Committed
<1>7. QED
  BY <1>4, <1>5, <1>6 DEF IInv
----------------------------------------------------------------------------
\* Configuration

\* A new policy version comes after those that are there: what was permitted has
\* been permitted.
LEMMA AppendPolicyStep ==
    ASSUME IInv, NEW e \in Governed, NEW x \in BOOLEAN,
           NEW setting \in Setting, AppendPolicy(e, setting, x)
    PROVE  IInv'
<1> PICK p : p = [auto |-> setting.auto, demanding |-> setting.demanding, effective |-> x]
  OBVIOUS
<1>1. /\ policies' = [policies EXCEPT ![e] = Append(policies[e], p)]
      /\ UNCHANGED <<status, version, transitions, proposals, records, announced, projected>>
      /\ UNCHANGED <<gates, decisions, pc, req, noted, draft, seen>>
  BY DEF AppendPolicy, evidence, local
<1>2. p \in Policy
  BY DEF Policy, Setting
<1>3. /\ policies' \in [Governed -> Seq(Policy)]
      /\ \A f \in Governed : Len(policies[f]) \in Nat /\ Len(policies'[f]) \in Nat
             /\ Len(policies[f]) <= Len(policies'[f])
             /\ \A i \in 1..Len(policies[f]) : policies'[f][i] = policies[f][i]
  <2>1. policies \in [Governed -> Seq(Policy)]
    BY DEF IInv, Typed
  <2>2. PICK q : q = Append(policies[e], p)
    OBVIOUS
  <2>3. /\ q \in Seq(Policy) /\ Len(q) = Len(policies[e]) + 1
        /\ \A i \in 1..Len(policies[e]) : q[i] = policies[e][i]
    BY <1>2, <2>1, <2>2, AppendProperties
  <2>4. policies' = [policies EXCEPT ![e] = q]
    BY <1>1, <2>2
  <2>5. \A f \in Governed : policies'[f] = IF f = e THEN q ELSE policies[f]
    BY <2>1, <2>4
  <2>6. \A f \in Governed : Len(policies[f]) \in Nat
    BY <2>1, LenProperties
  <2>7. policies' \in [Governed -> Seq(Policy)]
    BY <2>1, <2>3, <2>4
  <2>8. ASSUME NEW f \in Governed
        PROVE  /\ Len(policies'[f]) \in Nat /\ Len(policies[f]) <= Len(policies'[f])
               /\ \A i \in 1..Len(policies[f]) : policies'[f][i] = policies[f][i]
    <3>1. CASE f = e
      BY <2>3, <2>5, <2>6, <3>1
    <3>2. CASE f # e
      BY <2>5, <2>6, <3>2
    <3>3. QED
      BY <3>1, <3>2
  <2>9. QED
    BY <2>6, <2>7, <2>8
<1>4. \A t : Permitting(t) => Permitting(t)'
  BY <1>3 DEF Permitting
<1>5. Typed'
  BY <1>1, <1>3 DEF IInv, Typed, TypeOK
<1>6. HandlersFit'
  <2>1. SUFFICES ASSUME NEW w \in Handler PROVE HandlerFits(w)'
    BY DEF HandlersFit
  <2>2. HandlerFits(w)
    BY HandlerTyped
  <2>3. Permitting(Edge(req[w])) => Permitting(Edge(req[w]))'
    BY <1>1, <1>4 DEF Edge
  <2>4. QED
    BY <1>1, <2>2, <2>3 DEF HandlerFits, Committed
<1>7. AppliedOnce'
  <2>1. SUFFICES ASSUME NEW t \in transitions
                 PROVE  /\ \A s \in transitions : s.key = t.key => s = t
                        /\ Permitting(<<t.from, t.to>>)'
    BY <1>1 DEF AppliedOnce, Permitting
  <2>2. QED
    BY <1>4 DEF IInv, AppliedOnce, Permitting
<1>8. ClaimsAreTrue' /\ HumansPass'
  BY <1>1 DEF IInv, ClaimsAreTrue, HumansPass, Committed
<1>9. QED
  BY <1>5, <1>6, <1>7, <1>8 DEF IInv

\* Disabling is a new version, too.
LEMMA DisableStep ==
    ASSUME IInv, NEW e \in Governed, Disable(e)
    PROVE  IInv'
<1>1. PICK p \in Effective(e) :
          AppendPolicy(e, [auto |-> FALSE, demanding |-> p.demanding], FALSE)
  BY DEF Disable
<1>2. p \in Policy
  <2>1. policies[e] \in Seq(Policy) /\ policies[e] # <<>> /\ p = policies[e][Len(policies[e])]
    BY <1>1 DEF Effective, Latest, IInv, Typed
  <2>2. QED
    BY <2>1, EmptySeq, ElementOfSeq
<1>3. [auto |-> FALSE, demanding |-> p.demanding] \in Setting
  BY <1>2 DEF Policy, Setting
<1>4. QED
  BY <1>1, <1>3, AppendPolicyStep

\* A new gate is asked from then on; nothing was answered for it.
LEMMA CreateGateStep ==
    ASSUME IInv, NEW e \in Governed, NEW g \in Gate, CreateGate(e, g)
    PROVE  IInv'
<1>1. /\ gates' = [gates EXCEPT ![e] = gates[e] \cup {g}]
      /\ UNCHANGED <<status, version, transitions, proposals, records, announced, projected>>
      /\ UNCHANGED <<decisions, policies, pc, req, noted, draft, seen>>
  BY DEF CreateGate, evidence, local
<1>2. Typed'
  BY <1>1 DEF IInv, Typed, TypeOK
<1>3. HandlersFit'
  BY <1>1 DEF IInv, HandlersFit, HandlerFits, Committed, Permitting, Edge
<1>4. ClaimsAreTrue' /\ AppliedOnce' /\ HumansPass'
  BY <1>1 DEF IInv, ClaimsAreTrue, AppliedOnce, HumansPass, Committed
<1>5. QED
  BY <1>2, <1>3, <1>4 DEF IInv

\* The decision that is added passes a gate only if a human made it.
LEMMA RecordDecisionStep ==
    ASSUME IInv, NEW e \in Governed, NEW g \in Gate, NEW x \in {"passed", "failed"},
           NEW human \in BOOLEAN, RecordDecision(e, g, x, human)
    PROVE  IInv'
<1> PICK G \in SUBSET gates[e], v \in 0..version :
        decisions' = [decisions EXCEPT ![e] = Append(@,
            [gate |-> g, disposition |-> x, human |-> human, gateSet |-> G, version |-> v])]
  BY DEF RecordDecision
<1> PICK d : d = [gate |-> g, disposition |-> x, human |-> human, gateSet |-> G, version |-> v]
  OBVIOUS
<1>1. /\ decisions' = [decisions EXCEPT ![e] = Append(decisions[e], d)]
      /\ human <=> x = "passed"
      /\ UNCHANGED <<status, version, transitions, proposals, records, announced, projected>>
      /\ UNCHANGED <<gates, policies, pc, req, noted, draft, seen>>
  BY DEF RecordDecision, evidence, local
<1>2. d \in Decision /\ (d.disposition = "passed" => d.human)
  <2>1. G \in SUBSET Gate /\ v \in 0..MaxVersions
    BY BoundsAssumption DEF IInv, Typed, TypeOK
  <2>2. d \in Decision
    BY <2>1 DEF Decision
  <2>3. QED
    BY <1>1, <2>2
<1>3. /\ decisions' \in [Governed -> Seq(Decision)]
      /\ HumansPass'
  <2>1. decisions \in [Governed -> Seq(Decision)]
    BY DEF IInv, Typed
  <2>2. PICK q : q = Append(decisions[e], d)
    OBVIOUS
  <2>3. /\ q \in Seq(Decision) /\ Len(q) = Len(decisions[e]) + 1
        /\ Len(decisions[e]) \in Nat /\ q[Len(decisions[e]) + 1] = d
        /\ \A i \in 1..Len(decisions[e]) : q[i] = decisions[e][i]
    BY <1>2, <2>1, <2>2, AppendProperties, LenProperties
  <2>4. \A i \in 1..Len(q) : i \in 1..Len(decisions[e]) \/ i = Len(decisions[e]) + 1
    BY <2>3
  <2>5. \A i \in 1..Len(q) : q[i].disposition = "passed" => q[i].human
    BY <1>2, <2>3, <2>4 DEF IInv, HumansPass
  <2>6. decisions' = [decisions EXCEPT ![e] = q]
    BY <1>1, <2>2
  <2>7. \A f \in Governed : decisions'[f] = IF f = e THEN q ELSE decisions[f]
    BY <2>1, <2>6
  <2>8. decisions' \in [Governed -> Seq(Decision)]
    BY <2>1, <2>3, <2>6
  <2>9. HumansPass'
    BY <2>5, <2>7 DEF IInv, HumansPass
  <2>10. QED
    BY <2>8, <2>9
<1>4. Typed'
  BY <1>1, <1>3 DEF IInv, Typed, TypeOK
<1>5. HandlersFit'
  BY <1>1 DEF IInv, HandlersFit, HandlerFits, Committed, Permitting, Edge
<1>6. ClaimsAreTrue' /\ AppliedOnce'
  BY <1>1 DEF IInv, ClaimsAreTrue, AppliedOnce, Committed
<1>7. QED
  BY <1>3, <1>4, <1>5, <1>6 DEF IInv

\* A version that is synced into the specification moves no handler.
LEMMA AppendVersionStep == ASSUME IInv, AppendVersion PROVE IInv'
<1>1. /\ version' \in 0..MaxVersions
      /\ UNCHANGED <<status, transitions, proposals, records, announced, projected>>
      /\ UNCHANGED <<gates, decisions, policies, pc, req, noted, draft, seen>>
  BY BoundsAssumption DEF AppendVersion, evidence, config, local, IInv, Typed, TypeOK
<1>2. Typed'
  BY <1>1 DEF IInv, Typed, TypeOK
<1>3. HandlersFit'
  BY <1>1 DEF IInv, HandlersFit, HandlerFits, Committed, Permitting, Edge
<1>4. ClaimsAreTrue' /\ AppliedOnce' /\ HumansPass'
  BY <1>1 DEF IInv, ClaimsAreTrue, AppliedOnce, HumansPass, Committed
<1>5. QED
  BY <1>2, <1>3, <1>4 DEF IInv
----------------------------------------------------------------------------
\* The invariant

\* With nothing proposed, decided and configured, the inductive invariant holds.
LEMMA InitInvariant == Init => IInv
<1> SUFFICES ASSUME Init PROVE IInv
  OBVIOUS
<1>1. NoProposal \in Proposals
  BY ProposalsAssumption DEF NoProposal
<1>2. /\ decisions \in [Governed -> Seq(Decision)] /\ policies \in [Governed -> Seq(Policy)]
      /\ \A e \in Governed : Len(decisions[e]) = 0
  BY EmptySeq DEF Init
<1>3. Typed
  BY <1>1, <1>2, FS_EmptySet, NothingNoted, BoundsAssumption
     DEF Init, Typed, TypeOK, State, Step, ProposalState, Note
<1>4. HandlersFit
  BY DEF Init, HandlersFit, HandlerFits, Decided
<1>5. ClaimsAreTrue /\ AppliedOnce /\ HumansPass
  BY <1>2 DEF Init, ClaimsAreTrue, AppliedOnce, HumansPass
<1>6. QED
  BY <1>3, <1>4, <1>5 DEF IInv

\* A handler that dies holds nothing.
LEMMA CrashStep ==
    ASSUME IInv, NEW h \in Handler, Crash(h)
    PROVE  IInv'
BY FinishLocal, LocalStep DEF Crash

\* Every step of a handler and of an administrator keeps it.
LEMMA NextInvariant == IInv /\ [Next]_vars => IInv'
<1> SUFFICES ASSUME IInv, [Next]_vars PROVE IInv'
  OBVIOUS
<1>1. CASE UNCHANGED vars
  BY <1>1 DEF vars, evidence, config, local, IInv, Typed, TypeOK, HandlersFit,
     HandlerFits, ClaimsAreTrue, AppliedOnce, HumansPass, Committed, Permitting, Edge
<1>2. ASSUME NEW h \in Handler, Propose(h) PROVE IInv'
  BY <1>2, ReceiveStep, InsertProposalStep, AnnounceProposedStep, FindRecordStep,
     ConsultStep, NotingStep, CommitStep, RecordStep, AnnounceVerdictStep, ProjectStep
     DEF Propose, Adjudicate
<1>3. ASSUME NEW h \in Handler, Direct(h) \/ Crash(h) PROVE IInv'
  BY <1>3, DirectLoadStep, DirectWriteStep, CrashStep DEF Direct
<1>4. ASSUME NEW e \in Governed, Administer(e) PROVE IInv'
  BY <1>4, CreateGateStep, RecordDecisionStep, AppendPolicyStep, DisableStep,
     ProposalsAssumption DEF Administer, Configure
<1>5. QED
  BY <1>1, <1>2, <1>3, <1>4, AppendVersionStep DEF Next

\* The inductive invariant holds of every behaviour, for any number of proposals,
\* gates, transitions and handlers.
THEOREM Invariance == Spec => []IInv
  BY InitInvariant, NextInvariant, PTL DEF Spec
----------------------------------------------------------------------------
\* What a proposal is told

\* A proposal recorded, announced or projected as applied has a committed
\* transition under its key, whatever crashed on the way, and every variable keeps
\* its type (finish).
THEOREM AppliedMeansCommitted == Spec => []AppliedIsCommitted
<1>1. IInv => AppliedIsCommitted
  <2> SUFFICES ASSUME IInv, NEW k \in Key,
                      "applied" \in records[k] \cup announced[k] \cup {projected[k]}
               PROVE  Committed(k) # {}
    BY DEF AppliedIsCommitted, IInv, Typed
  <2>1. "applied" \in records[k]
    BY DEF IInv, ClaimsAreTrue, StateForVerdict, Verdict
  <2>2. QED
    BY <2>1 DEF IInv, ClaimsAreTrue
<1>2. QED
  BY <1>1, Invariance, PTL

\* However often a proposal is sent and whoever races it, one transition is
\* committed for it, of those that are governed, and only after a policy version
\* permitted it (apply).
THEOREM AppliesOnce == Spec => []AppliedOnce
<1>1. IInv => AppliedOnce
  BY DEF IInv
<1>2. QED
  BY <1>1, Invariance, PTL

\* Only an empty record is written: no step replaces a verdict.
LEMMA RecordsStand ==
    ASSUME IInv, [Next]_vars, NEW k \in Key, records[k] # {}
    PROVE  records'[k] = records[k]
<1>1. ASSUME NEW h \in Handler, Record(h) PROVE records'[k] = records[k]
  BY <1>1 DEF Record, IInv, Typed, TypeOK
<1>2. QED
  BY <1>1 DEF Next, vars, evidence, config, local, ReadOnly, Propose, Adjudicate, Direct,
     Crash, Administer, Receive, Lookup, InsertProposal, AnnounceProposed, FindRecord,
     Observe, ReadVersion, ReadGates, ReadOutcomes, ConsultAuthority, ConsultAutoApply,
     FindPrior, Commit, AnnounceVerdict, Project, AppendVersion, DirectLoad, DirectWrite, CreateGate, RecordDecision,
     Configure, Disable, AppendPolicy

\* The first verdict recorded of a proposal is its only one, and the registry
\* announces and projects no other (finish, FR-GEL-071).
THEOREM FirstVerdictStands == Spec => VerdictIsFinal
<1>1. ASSUME IInv, IInv', [Next]_vars PROVE VerdictStep
  <2>1. \A k \in Key :
            /\ announced'[k] \cap Verdict \subseteq records'[k]
            /\ projected'[k] # "none" =>
                   \E v \in records'[k] : projected'[k] = StateForVerdict(v)
    BY <1>1 DEF IInv, ClaimsAreTrue
  <2>2. QED
    BY <1>1, <2>1, RecordsStand DEF VerdictStep
<1>2. QED
  BY <1>1, Invariance, PTL DEF Spec, VerdictIsFinal
----------------------------------------------------------------------------
\* Gates

\* A gate that answers "passed" was passed by a human, for these gates and this version.
LEMMA PassIsHuman ==
    ASSUME IInv, NEW e \in Governed, NEW n, NEW g, GateAnswer(e, n, g) = "passed"
    PROVE  \E i \in 1..Len(decisions[e]) :
               /\ decisions[e][i].gate = g /\ decisions[e][i].disposition = "passed"
               /\ decisions[e][i].human /\ MadeFor(n, decisions[e][i])
<1> PICK d : d = CHOOSE x \in LatestOf(e, g) : TRUE
  OBVIOUS
<1>1. LatestOf(e, g) # {} /\ d.disposition = "passed" /\ Stands(n, d)
  BY DEF GateAnswer
<1>2. d \in LatestOf(e, g)
  BY <1>1
<1>3. PICK i \in 1..Len(decisions[e]) : d = decisions[e][i] /\ d.gate = g
  BY <1>2 DEF LatestOf
<1>4. QED
  BY <1>1, <1>3 DEF IInv, HumansPass, Stands, MadeFor

\* The gates let a transition through when every blocking one passed.
LEMMA LetThrough ==
    ASSUME IInv, NEW e \in Governed, NEW n, "passed" \in Dispositions(e, n)
    PROVE  PassedByHuman(e, n, n.gates \cap Blocking)
<1>1. \A g \in n.gates \cap Blocking : GateAnswer(e, n, g) = "passed"
  BY DEF Dispositions
<1>2. QED
  BY <1>1, PassIsHuman DEF PassedByHuman

\* The steps after the gates.
Beyond == {"authority", "autoApply", "prior", "commit"}

\* What a handler beyond the gates rests on.
Cleared(h) ==
    Edge(req[h]) \in Governed =>
        PassedByHuman(Edge(req[h]), noted[h], noted[h].gates \cap Blocking)
GatesWereOpen == \A h \in Handler : pc[h] \in Beyond => Cleared(h)

\* Decisions are only added.
LEMMA DecisionsStand ==
    ASSUME IInv, [Next]_vars, NEW e \in Governed
    PROVE  /\ Len(decisions[e]) \in Nat
           /\ \A i \in 1..Len(decisions[e]) :
                 i \in 1..Len(decisions'[e]) /\ decisions'[e][i] = decisions[e][i]
<1>1. decisions \in [Governed -> Seq(Decision)] /\ Len(decisions[e]) \in Nat
  BY LenProperties DEF IInv, Typed
<1>2. CASE decisions' = decisions
  BY <1>1, <1>2
<1>3. ASSUME NEW f \in Governed, NEW d, decisions' = [decisions EXCEPT ![f] = Append(@, d)]
      PROVE  \A i \in 1..Len(decisions[e]) :
                 i \in 1..Len(decisions'[e]) /\ decisions'[e][i] = decisions[e][i]
  <2>1. decisions'[e] = decisions[e] \/ decisions'[e] = Append(decisions[e], d)
    BY <1>1, <1>3
  <2>2. QED
    BY <1>1, <2>1
<1>4. CASE \E f \in Governed, g \in Gate, x \in {"passed", "failed"}, human \in BOOLEAN :
               RecordDecision(f, g, x, human)
  BY <1>1, <1>3, <1>4 DEF RecordDecision
<1>5. QED
  BY <1>1, <1>2, <1>4 DEF Next, vars, evidence, config, local, ReadOnly, Propose, Adjudicate, Direct,
     Crash, Administer, Receive, Lookup, InsertProposal, AnnounceProposed, FindRecord,
     Observe, ReadVersion, ReadGates, ReadOutcomes, ConsultAuthority, ConsultAutoApply,
     FindPrior, Commit, Record, AnnounceVerdict, Project, AppendVersion, DirectLoad,
     DirectWrite, CreateGate, Configure, Disable, AppendPolicy

\* A handler beyond the gates was there already, or reads an answer that lets it through.
LEMMA BeyondTheGates ==
    ASSUME IInv, [Next]_vars, NEW h \in Handler, pc'[h] \in Beyond
    PROVE  \/ pc[h] \in Beyond /\ req'[h] = req[h] /\ noted'[h] = noted[h]
           \/ ReadGates(h) \/ ReadOutcomes(h)
<1>1. /\ pc \in [Handler -> Step] /\ req \in [Handler -> Proposals] /\ noted \in [Handler -> Note]
  BY HandlerTyped DEF LocalTyped
<1>2. ASSUME NEW w \in Handler, w # h, Propose(w) \/ Direct(w) \/ Crash(w)
      PROVE  pc'[h] = pc[h] /\ req'[h] = req[h] /\ noted'[h] = noted[h]
  BY <1>1, <1>2 DEF Propose, Adjudicate, Direct, Crash, Receive, Lookup, InsertProposal,
     AnnounceProposed, FindRecord, Observe, ReadVersion, ReadGates, ReadOutcomes,
     ConsultAuthority, ConsultAutoApply, FindPrior, Commit, Record, AnnounceVerdict,
     Project, DirectLoad, DirectWrite, Continue, Decide, Finish
<1>3. ASSUME Propose(h) \/ Direct(h) \/ Crash(h), ~ReadGates(h), ~ReadOutcomes(h)
      PROVE  pc[h] \in Beyond /\ req'[h] = req[h] /\ noted'[h] = noted[h]
  <2>1. CASE ConsultAuthority(h) \/ ConsultAutoApply(h) \/ FindPrior(h)
    BY <1>1, <2>1 DEF ConsultAuthority, ConsultAutoApply, FindPrior, Continue, Decide, Beyond
  <2>2. CASE ~(ConsultAuthority(h) \/ ConsultAutoApply(h) \/ FindPrior(h))
    <3>1. pc'[h] \notin Beyond
      BY <1>1, <1>3, <2>2 DEF Propose, Adjudicate, Direct, Crash, Receive, Lookup, InsertProposal,
         AnnounceProposed, FindRecord, Observe, ReadVersion, Commit, Record, AnnounceVerdict,
         Project, DirectLoad, DirectWrite, Continue, Decide, Finish, Beyond
    <3>2. QED
      BY <3>1
  <2>3. QED
    BY <2>1, <2>2
<1>4. ASSUME UNCHANGED vars \/ AppendVersion \/ \E e \in Governed : Administer(e)
      PROVE  UNCHANGED <<pc, req, noted>>
  BY <1>4 DEF vars, local, AppendVersion, Administer, CreateGate, RecordDecision, Configure,
     Disable, AppendPolicy
<1>5. QED
  BY <1>2, <1>3, <1>4 DEF Next

\* Who is beyond the gates was let through by humans.
LEMMA StillCleared ==
    ASSUME IInv, GatesWereOpen, [Next]_vars
    PROVE  GatesWereOpen'
<1>1. SUFFICES ASSUME NEW h \in Handler, pc'[h] \in Beyond PROVE Cleared(h)'
  BY DEF GatesWereOpen
<1>2. ASSUME NEW e \in Governed, NEW n, NEW G, PassedByHuman(e, n, G)
      PROVE  \A g \in G : \E i \in 1..Len(decisions'[e]) :
                 /\ decisions'[e][i].gate = g /\ decisions'[e][i].disposition = "passed"
                 /\ decisions'[e][i].human /\ MadeFor(n, decisions'[e][i])
  <2>1. SUFFICES ASSUME NEW g \in G
                 PROVE  \E i \in 1..Len(decisions'[e]) :
                           /\ decisions'[e][i].gate = g /\ decisions'[e][i].disposition = "passed"
                           /\ decisions'[e][i].human /\ MadeFor(n, decisions'[e][i])
    OBVIOUS
  <2>2. PICK i \in 1..Len(decisions[e]) :
           /\ decisions[e][i].gate = g /\ decisions[e][i].disposition = "passed"
           /\ decisions[e][i].human /\ MadeFor(n, decisions[e][i])
    BY <1>2 DEF PassedByHuman
  <2>3. i \in 1..Len(decisions'[e]) /\ decisions'[e][i] = decisions[e][i]
    BY DecisionsStand
  <2>4. QED
    BY <2>2, <2>3
<1>3. CASE pc[h] \in Beyond /\ req'[h] = req[h] /\ noted'[h] = noted[h]
  <2>1. PICK e, n : e = Edge(req[h]) /\ n = noted[h]
    OBVIOUS
  <2>2. Edge(req'[h]) = e /\ noted'[h] = n
    BY <1>3, <2>1
  <2>3. e \in Governed => PassedByHuman(e, n, n.gates \cap Blocking)
    BY <1>3, <2>1 DEF GatesWereOpen, Cleared
  <2>4. ASSUME e \in Governed
        PROVE  \A g \in n.gates \cap Blocking : \E i \in 1..Len(decisions'[e]) :
                 /\ decisions'[e][i].gate = g /\ decisions'[e][i].disposition = "passed"
                 /\ decisions'[e][i].human /\ MadeFor(n, decisions'[e][i])
    BY <1>2, <2>3, <2>4
  <2>5. Cleared(h)' <=> (Edge(req'[h]) \in Governed =>
            \A g \in noted'[h].gates \cap Blocking : \E i \in 1..Len(decisions'[Edge(req'[h])]) :
                 /\ decisions'[Edge(req'[h])][i].gate = g
                 /\ decisions'[Edge(req'[h])][i].disposition = "passed"
                 /\ decisions'[Edge(req'[h])][i].human
                 /\ MadeFor(noted'[h], decisions'[Edge(req'[h])][i]))
    BY DEF Cleared, PassedByHuman, MadeFor, Edge
  <2>6. QED
    BY <2>2, <2>4, <2>5
<1>4. CASE ReadGates(h)
  <2>1. noted \in [Handler -> Note] /\ pc \in [Handler -> Step]
    BY HandlerTyped DEF LocalTyped
  <2>2. GatesOf(Edge(req[h])) = {}
    BY <1>1, <1>4, <2>1 DEF ReadGates, Beyond
  <2>3. noted'[h].gates = {}
    BY <1>4, <2>1, <2>2 DEF ReadGates, Note
  <2>4. QED
    BY <2>3 DEF Cleared, PassedByHuman
<1>5. CASE ReadOutcomes(h)
  <2>1. pc \in [Handler -> Step]
    BY HandlerTyped DEF LocalTyped
  <2>2. Continue(h, "authority") /\ "passed" \in Dispositions(Edge(req[h]), noted[h])
    <3>1. PICK d \in Dispositions(Edge(req[h]), noted[h]) :
            CASE d = "passed" -> Continue(h, "authority")
              [] d = "failed" -> Decide(h, "refused")
              [] OTHER -> Decide(h, "reconciliation_required")
      BY <1>5 DEF ReadOutcomes
    <3>2. \A v : ~Decide(h, v)
      BY <1>1, <2>1 DEF Decide, Beyond
    <3>3. d = "passed"
      BY <3>1, <3>2
    <3>4. QED
      BY <3>1, <3>3
  <2>3. /\ req' = req /\ noted' = noted /\ decisions' = decisions
    BY <1>5, <2>2 DEF ReadOutcomes, ReadOnly, config, Continue
  <2>4. Cleared(h)
    BY <2>2, LetThrough DEF Cleared
  <2>5. QED
    BY <2>3, <2>4 DEF Cleared, PassedByHuman, MadeFor, Edge
<1>6. QED
  BY <1>1, <1>3, <1>4, <1>5, BeyondTheGates

\* A governed transition is committed only after a human has passed every blocking
\* gate there was when its gates were read, for those gates and the version read
\* before them, whatever changed meanwhile (dispositionFor, FR-ENH-014, X11).
THEOREM HumansOpenGates == Spec => GatesOpenForHumans
<1>1. Init => GatesWereOpen
  BY DEF Init, GatesWereOpen, Beyond
<1>2. IInv /\ GatesWereOpen /\ [Next]_vars => GatesWereOpen'
  BY StillCleared
<1>3. GatesWereOpen =>
        \A h \in Handler :
          Committing(h) => PassedByHuman(Edge(req[h]), noted[h], noted[h].gates \cap Blocking)
  BY DEF GatesWereOpen, Cleared, Committing, Beyond
<1>4. QED
  BY <1>1, <1>2, <1>3, Invariance, PTL DEF Spec, GatesOpenForHumans
----------------------------------------------------------------------------
\* Generation jobs

\* A row exists, and a specification is stored for the job.
Created(j) == jobs[j].state # "none"
Stored(j) == \E s \in specs : s.job = j

\* A worker runs a job that exists; one that was not redelivered while it ran is
\* run by no other, does not wait, and has stored nothing before the commit; what
\* the worker is about to write is the end of its job.
WorkersFit ==
    \A w \in Worker :
        /\ wpc[w] # "idle" <=> wjob[w] # 0
        /\ wpc[w] \in {"outcome", "settle", "write"} => next[w].state \in Terminal
        /\ wpc[w] # "idle" =>
               /\ Created(wjob[w])
               /\ wjob[w] \notin overlapped =>
                      /\ wjob[w] \notin queue
                      /\ \A v \in Worker : wjob[v] = wjob[w] => v = w
                      /\ wpc[w] \in {"start", "run", "commit"} => ~Stored(wjob[w])

\* What a client is about to enqueue was never delivered, and nobody else is
\* about to enqueue it.
ClientsFit ==
    \A c \in Client :
        /\ cpc[c] \in {"cancel", "enqueue"} => cjob[c] # 0
        /\ cpc[c] = "enqueue" =>
               /\ Created(cjob[c]) /\ cjob[c] \notin queue \cup active
               /\ \A w \in Worker : wjob[w] # cjob[c]
               /\ \A b \in Client : cpc[b] = "enqueue" /\ cjob[b] = cjob[c] => b = c

\* What is queued exists, and a job with a specification is not queued again.
RowsFit ==
    /\ IsFiniteSet(specs)
    /\ \A j \in queue \cup active : Created(j)
    /\ \A s \in specs : jobs[s.job].state \notin {"none", "queued"}
    /\ \A s, t \in specs : s.job = t.job /\ s.job \notin overlapped => s = t

\* The inductive invariant: one worker and one waiting entry per job, unless it
\* overlaps.
JobsInv ==
    /\ {MaxJobs, MaxStalls} \subseteq Nat
    /\ JobsTypeOK /\ WorkersFit /\ ClientsFit /\ RowsFit

\* Initially nothing is there.
LEMMA JobsInitially == ASSUME JobsInit PROVE JobsInv
<1>1. NoRow \in Row
  BY DEF NoRow, Row, JobState, Terminal, Failure, Reason
<1>2. JobsTypeOK
  BY <1>1, JobsAssumption DEF JobsInit, JobsTypeOK, Job, ClientStep,
     WorkerStep, Nothing, JobState, Reason
<1>3. WorkersFit /\ ClientsFit /\ RowsFit
  BY FS_EmptySet DEF JobsInit, WorkersFit, ClientsFit, RowsFit
<1>4. QED
  BY <1>2, <1>3, JobsAssumption DEF JobsInv

\* A row with another state, reason or result is a row.
LEMMA RowChanged ==
    ASSUME NEW r \in Row, NEW s \in JobState,
           NEW q \in Reason \cup {"none"}, NEW n \in SUBSET Nat
    PROVE  /\ [r EXCEPT !.state = s, !.reason = q] \in Row
           /\ [r EXCEPT !.state = s, !.result = n] \in Row
           /\ [r EXCEPT !.state = s, !.reason = q, !.result = n] \in Row
           /\ [r EXCEPT !.state = s, !.started = TRUE] \in Row
  BY DEF Row

\* Rows keep fitting when states move on, whoever moves them.
LEMMA RowsMove ==
    ASSUME JobsInv, specs' = specs, queue' \subseteq queue \cup active,
           active' \subseteq active \cup queue, overlapped \subseteq overlapped',
           \A i \in Job : \/ jobs'[i].state = jobs[i].state
                               \/ jobs'[i].state \notin {"none", "queued"}
    PROVE  RowsFit'
<1>1. specs \subseteq Specification /\ queue \cup active \subseteq Job
  BY DEF JobsInv, JobsTypeOK
<1>2. \A s \in specs : s.job \in Job
  BY <1>1 DEF Specification
<1>3. \A j \in queue' \cup active' : j \in queue \cup active
  OBVIOUS
<1>4. QED
  BY <1>1, <1>2, <1>3 DEF JobsInv, RowsFit, Created
----------------------------------------------------------------------------
\* Clients

\* A client at another step, with or without a job, keeps the types.
LEMMA ClientTyped ==
    ASSUME MaxJobs \in Nat, JobsTypeOK, NEW c \in Client, NEW s \in ClientStep,
           NEW j, j = 0 \/ j \in Job, ClientAt(c, s, j),
           jobs' \in [Job -> Row], specs' = specs, queue' \subseteq Job,
           UNCHANGED <<active, stalls, overlapped, crashed>>
    PROVE  JobsTypeOK'
<1>1. j \in 0..MaxJobs
  BY DEF Job
<1>2. cpc' \in [Client -> ClientStep] /\ cjob' \in [Client -> 0..MaxJobs]
  BY <1>1 DEF ClientAt, JobsTypeOK
<1>3. QED
  BY <1>2 DEF ClientAt, JobsTypeOK, worker

\* A submission that finds no live job changes no row.
LEMMA JobsSubmit == ASSUME JobsInv, NEW c \in Client, Submit(c) PROVE JobsInv'
<1> USE DEF Submit, ClientAt, worker, broker
<1>1. JobsTypeOK'
  <2>1. /\ "create" \in ClientStep /\ ClientAt(c, "create", 0)
        /\ UNCHANGED <<jobs, specs, queue, active, stalls, overlapped, crashed>>
    BY DEF ClientStep
  <2>2. QED
    BY ONLY <2>1, JobsInv, c \in Client, ClientTyped DEF JobsInv, JobsTypeOK
<1>2. WorkersFit'
  BY DEF JobsInv, WorkersFit, Created, Stored
<1>3. ClientsFit'
  BY DEF JobsInv, JobsTypeOK, ClientsFit, Created
<1>4. RowsFit'
  BY DEF JobsInv, RowsFit, Created
<1>5. QED
  BY <1>1, <1>2, <1>3, <1>4 DEF JobsInv

\* A created job is new to the queue, to the workers and to other clients.
LEMMA JobsCreate == ASSUME JobsInv, NEW c \in Client, Create(c) PROVE JobsInv'
<1>1. PICK j \in Job : /\ jobs[j].state = "none"
                            /\ jobs' = [jobs EXCEPT ![j].state = "queued"]
                            /\ ClientAt(c, "enqueue", j)
  BY DEF Create
<1> USE DEF ClientAt, worker, broker
<1>2. /\ UNCHANGED <<specs, queue, active, stalls, overlapped, crashed, wpc, wjob, next>>
      /\ j \in 1..MaxJobs /\ j # 0
  BY <1>1 DEF Create, Job
<1>3. [jobs[j] EXCEPT !.state = "queued"] \in Row
  BY DEF JobsInv, JobsTypeOK, Row, JobState
<1>4. /\ jobs' \in [Job -> Row] /\ jobs'[j].state = "queued"
      /\ \A i \in Job : i # j => jobs'[i] = jobs[i]
  BY <1>1, <1>3 DEF JobsInv, JobsTypeOK, Row
<1>5. JobsTypeOK'
  BY <1>1, <1>2, <1>4 DEF JobsInv, JobsTypeOK, ClientStep
<1>6. /\ \A s \in specs : s.job \in Job
      /\ \A w \in Worker : wpc[w] # "idle" => wjob[w] \in Job
      /\ \A b \in Client : cpc[b] = "enqueue" => cjob[b] \in Job
      /\ queue \cup active \subseteq Job
  BY DEF JobsInv, JobsTypeOK, Specification, WorkersFit, ClientsFit, Job
<1>7. \A i \in Job : Created(i) => i # j /\ Created(i)'
  BY <1>1, <1>4 DEF Created
<1>8. /\ \A w \in Worker : wjob[w] # j
      /\ j \notin queue \cup active
      /\ \A b \in Client : cpc[b] = "enqueue" => cjob[b] # j
      /\ \A s \in specs : s.job # j
  BY <1>1, <1>2, <1>6, <1>7 DEF JobsInv, WorkersFit, ClientsFit, RowsFit, Created
<1>9. WorkersFit'
  BY <1>2, <1>6, <1>7 DEF JobsInv, WorkersFit, Stored
<1>10. ClientsFit'
  BY <1>1, <1>2, <1>4, <1>6, <1>7, <1>8 DEF JobsInv, JobsTypeOK, ClientsFit, Created
<1>11. RowsFit'
  BY <1>2, <1>4, <1>6, <1>7, <1>8 DEF JobsInv, RowsFit
<1>12. QED
  BY <1>5, <1>9, <1>10, <1>11 DEF JobsInv

\* What is enqueued was not there, and no worker has it.
LEMMA JobsEnqueue == ASSUME JobsInv, NEW c \in Client, Enqueue(c) PROVE JobsInv'
<1> USE DEF Enqueue, ClientAt, worker
<1>1. PICK j \in Job : cjob[c] = j
  BY DEF JobsInv, JobsTypeOK, ClientsFit, Job
<1>2. /\ Created(j) /\ j \notin queue \cup active
      /\ \A w \in Worker : wjob[w] # j
      /\ \A b \in Client : cpc[b] = "enqueue" /\ cjob[b] = j => b = c
  BY <1>1 DEF JobsInv, ClientsFit
<1>3. JobsTypeOK'
  <2>1. /\ "idle" \in ClientStep /\ ClientAt(c, "idle", 0)
        /\ UNCHANGED <<jobs, specs, active, stalls, overlapped, crashed>>
        /\ queue' = queue \cup {j}
    BY <1>1 DEF ClientStep
  <2>2. QED
    BY ONLY <2>1, JobsInv, c \in Client, ClientTyped, j \in Job DEF JobsInv, JobsTypeOK
<1>4. WorkersFit'
  BY <1>1, <1>2 DEF JobsInv, WorkersFit, Created, Stored
<1>5. ClientsFit'
  BY <1>1, <1>2 DEF JobsInv, JobsTypeOK, ClientsFit, Created
<1>6. RowsFit'
  BY <1>1, <1>2 DEF JobsInv, RowsFit, Created
<1>7. QED
  BY <1>3, <1>4, <1>5, <1>6 DEF JobsInv

\* A client that has loaded a job may cancel it, whatever became of it.
LEMMA JobsLoad ==
    ASSUME JobsInv, NEW c \in Client, NEW j \in Job, Load(c, j) PROVE JobsInv'
<1> USE DEF Load, ClientAt, worker, broker
<1>1. j \in 1..MaxJobs /\ j # 0
  BY DEF Job
<1>2. JobsTypeOK'
  BY <1>1 DEF JobsInv, JobsTypeOK, ClientStep
<1>3. WorkersFit'
  BY DEF JobsInv, WorkersFit, Created, Stored
<1>4. ClientsFit'
  BY <1>1 DEF JobsInv, JobsTypeOK, ClientsFit, Created
<1>5. RowsFit'
  BY DEF JobsInv, RowsFit, Created
<1>6. QED
  BY <1>2, <1>3, <1>4, <1>5 DEF JobsInv

\* A cancelled job is not queued again.
LEMMA JobsCancel == ASSUME JobsInv, NEW c \in Client, Cancel(c) PROVE JobsInv'
<1> USE DEF Cancel, ClientAt, worker, broker
<1>1. PICK j \in Job : cjob[c] = j
  BY DEF JobsInv, JobsTypeOK, ClientsFit, Job
<1>2. [jobs[j] EXCEPT !.state = "cancelled", !.reason = "cancelled"] \in Row
  <2>1. "cancelled" \in JobState /\ "cancelled" \in Reason
    BY DEF JobState, Terminal, Failure, Reason
  <2>2. QED
    BY <2>1, RowChanged DEF JobsInv, JobsTypeOK
<1>3. /\ jobs' \in [Job -> Row] /\ jobs'[j].state = "cancelled"
      /\ \A i \in Job : i # j => jobs'[i] = jobs[i]
  BY <1>1, <1>2 DEF JobsInv, JobsTypeOK, Row
<1>4. JobsTypeOK'
  <2>1. /\ "idle" \in ClientStep /\ ClientAt(c, "idle", 0)
        /\ UNCHANGED <<specs, queue, active, stalls, overlapped, crashed>>
    BY <1>1 DEF ClientStep, JobsInv, JobsTypeOK
  <2>2. QED
    BY ONLY <1>3, <2>1, JobsInv, c \in Client, ClientTyped DEF JobsInv, JobsTypeOK
<1>5. \A i \in Job : Created(i) => Created(i)'
  BY <1>3 DEF Created
<1>6. WorkersFit'
  BY <1>5 DEF JobsInv, JobsTypeOK, WorkersFit, Stored, Job
<1>7. ClientsFit'
  BY <1>5 DEF JobsInv, JobsTypeOK, ClientsFit, Job
<1>8. RowsFit'
  BY <1>3, RowsMove
<1>9. QED
  BY <1>4, <1>6, <1>7, <1>8 DEF JobsInv

\* A lost request leaves the rows as they are.
LEMMA JobsClientCrash ==
    ASSUME JobsInv, NEW c \in Client, ClientCrash(c) PROVE JobsInv'
<1> USE DEF ClientCrash, ClientAt, worker, broker
<1>1. JobsTypeOK'
  <2>1. /\ "idle" \in ClientStep /\ ClientAt(c, "idle", 0)
        /\ UNCHANGED <<jobs, specs, queue, active, stalls, overlapped, crashed>>
    BY DEF ClientStep
  <2>2. QED
    BY ONLY <2>1, JobsInv, c \in Client, ClientTyped DEF JobsInv, JobsTypeOK
<1>2. WorkersFit'
  BY DEF JobsInv, WorkersFit, Created, Stored
<1>3. ClientsFit'
  BY DEF JobsInv, JobsTypeOK, ClientsFit, Created
<1>4. RowsFit'
  BY DEF JobsInv, RowsFit, Created
<1>5. QED
  BY <1>1, <1>2, <1>3, <1>4 DEF JobsInv
----------------------------------------------------------------------------
\* Workers

Outcome == [state: JobState, reason: Reason \cup {"none"}, result: SUBSET Nat]
BeforeStore == {"start", "run", "commit"}
AfterStore == {"outcome", "settle", "write"}

\* A busy worker has a job.
LEMMA WorkerHasJob ==
    ASSUME JobsInv, NEW w \in Worker, wpc[w] # "idle"
    PROVE  \E j \in Job : wjob[w] = j
  BY DEF JobsInv, JobsTypeOK, WorkersFit, Job

\* Clients fit when workers take only what is queued or delivered.
LEMMA ClientsKeep ==
    ASSUME JobsInv, UNCHANGED <<cpc, cjob>>,
           \A i \in Job : Created(i) => Created(i)',
           queue' \cup active' \subseteq queue \cup active,
           \A w \in Worker : wjob'[w] \in {wjob[w], 0} \cup queue
    PROVE  ClientsFit'
<1>1. SUFFICES ASSUME NEW c \in Client
               PROVE  /\ cpc[c] \in {"cancel", "enqueue"} => cjob[c] # 0
                      /\ cpc[c] = "enqueue" =>
                            /\ Created(cjob[c])' /\ cjob[c] \notin queue' \cup active'
                            /\ \A w \in Worker : wjob'[w] # cjob[c]
                            /\ \A b \in Client :
                                  cpc[b] = "enqueue" /\ cjob[b] = cjob[c] => b = c
  BY DEF ClientsFit, Created
<1>2. cpc[c] \in {"cancel", "enqueue"} => cjob[c] \in Job
  BY DEF JobsInv, JobsTypeOK, ClientsFit, Job
<1>3. CASE cpc[c] = "enqueue"
  <2>1. /\ Created(cjob[c]) /\ cjob[c] \notin queue \cup active /\ cjob[c] # 0
        /\ \A w \in Worker : wjob[w] # cjob[c]
        /\ \A b \in Client : cpc[b] = "enqueue" /\ cjob[b] = cjob[c] => b = c
    BY <1>3 DEF JobsInv, ClientsFit
  <2>2. Created(cjob[c])'
    BY <1>2, <1>3, <2>1
  <2>3. QED
    BY <2>1, <2>2
<1>4. QED
  BY <1>3 DEF JobsInv, ClientsFit

\* A worker that goes on with its job, storing at most for it and never back to
\* before the commit, fits.
LEMMA WorkerStepFits ==
    ASSUME JobsInv, NEW w \in Worker, wpc[w] # "idle",
           NEW s \in WorkerStep, s # "idle", s \in BeforeStore => wpc[w] \in BeforeStore,
           NEW n \in Outcome, s \in AfterStore => n.state \in Terminal, WorkerAt(w, s, n),
           jobs' \in [Job -> Row], \A i \in Job : Created(i) => Created(i)',
           specs' \subseteq Specification,
           \A t \in specs' : t \in specs \/ (t.job = wjob[w] /\ s \notin BeforeStore),
           UNCHANGED broker
    PROVE  JobsTypeOK' /\ WorkersFit' /\ ClientsFit'
<1> USE DEF WorkerAt, broker, api
<1>1. wpc' \in [Worker -> WorkerStep] /\ next' \in [Worker -> Outcome]
  BY DEF JobsInv, JobsTypeOK, Outcome
<1>2. JobsTypeOK'
  BY <1>1 DEF JobsInv, JobsTypeOK, Outcome
<1>3. /\ wpc'[w] = s /\ wjob' = wjob
      /\ \A v \in Worker : v # w => wpc'[v] = wpc[v]
  BY DEF JobsInv, JobsTypeOK
<1>4. WorkersFit'
  <2>1. SUFFICES ASSUME NEW v \in Worker
                 PROVE  /\ wpc'[v] # "idle" <=> wjob[v] # 0
                        /\ wpc'[v] \in AfterStore => next'[v].state \in Terminal
                        /\ wpc'[v] # "idle" =>
                              /\ Created(wjob[v])'
                              /\ wjob[v] \notin overlapped =>
                                    /\ wjob[v] \notin queue
                                    /\ \A u \in Worker : wjob[u] = wjob[v] => u = v
                                    /\ wpc'[v] \in BeforeStore => ~Stored(wjob[v])'
    BY <1>3 DEF WorkersFit, Stored, BeforeStore, AfterStore, Created
  <2>2. wpc'[v] # "idle" <=> wpc[v] # "idle"
    BY <1>3
  <2>3. wpc'[v] \in BeforeStore => wpc[v] \in BeforeStore
    BY <1>3
  <2>4. wpc[v] # "idle" => Created(wjob[v])'
    BY WorkerHasJob DEF JobsInv, WorkersFit
  <2>5. wpc'[v] \in AfterStore => next'[v].state \in Terminal
    BY <1>3 DEF JobsInv, JobsTypeOK, WorkersFit, AfterStore
  <2>6. CASE v # w /\ wjob[v] # wjob[w]
    BY <1>3, <2>2, <2>3, <2>4, <2>5, <2>6 DEF JobsInv, WorkersFit, BeforeStore, Stored
  <2>7. CASE v # w /\ wjob[v] = wjob[w]
    <3>1. wpc[v] # "idle" => wjob[v] \in overlapped
      BY <2>7 DEF JobsInv, WorkersFit
    <3>2. QED
      BY <2>2, <2>4, <2>5, <3>1 DEF JobsInv, WorkersFit
  <2>8. CASE v = w
    <3>1. wpc'[v] \in BeforeStore => specs' \subseteq specs
      BY <1>3, <2>8
    <3>2. QED
      BY <2>2, <2>3, <2>4, <2>5, <3>1 DEF JobsInv, WorkersFit, BeforeStore, Stored
  <2>9. QED
    BY <2>6, <2>7, <2>8
<1>5. ClientsFit'
  BY <1>3, ClientsKeep
<1>6. QED
  BY <1>2, <1>4, <1>5

\* The same of a worker that stores nothing.
LEMMA WorkerGoesOn ==
    ASSUME JobsInv, NEW w \in Worker, wpc[w] # "idle",
           NEW s \in WorkerStep, s # "idle", s \in BeforeStore => wpc[w] \in BeforeStore,
           NEW n \in Outcome, s \in AfterStore => n.state \in Terminal,
           WorkerAt(w, s, n),
           jobs' \in [Job -> Row], \A i \in Job : Created(i) => Created(i)',
           specs' = specs, UNCHANGED broker
    PROVE  JobsTypeOK' /\ WorkersFit' /\ ClientsFit'
<1>1. /\ specs' \subseteq Specification
      /\ \A t \in specs' : t \in specs \/ (t.job = wjob[w] /\ s \notin BeforeStore)
  BY DEF JobsInv, JobsTypeOK
<1>2. QED
  BY <1>1, WorkerStepFits

\* A worker that is over with its job, or crashed, fits.
LEMMA WorkerLeaves ==
    ASSUME JobsInv, NEW w \in Worker, wpc[w] # "idle",
           wpc' = [wpc EXCEPT ![w] = "idle"], wjob' = [wjob EXCEPT ![w] = 0],
           next' = [next EXCEPT ![w] = Nothing], active' \subseteq active,
           crashed' \subseteq Job,
           jobs' \in [Job -> Row], \A i \in Job : Created(i) => Created(i)',
           UNCHANGED <<specs, queue, stalls, overlapped, cpc, cjob>>
    PROVE  JobsTypeOK' /\ WorkersFit' /\ ClientsFit'
<1>1. Nothing \in Outcome
  BY DEF Nothing, Outcome, JobState
<1>2. /\ wpc' \in [Worker -> WorkerStep] /\ next' \in [Worker -> Outcome]
      /\ wjob' \in [Worker -> 0..MaxJobs]
  BY <1>1 DEF JobsInv, JobsTypeOK, Outcome, WorkerStep
<1>3. JobsTypeOK'
  BY <1>2 DEF JobsInv, JobsTypeOK, Outcome
<1>4. /\ wpc'[w] = "idle" /\ wjob'[w] = 0
      /\ \A v \in Worker :
             v # w => wpc'[v] = wpc[v] /\ wjob'[v] = wjob[v] /\ next'[v] = next[v]
  BY DEF JobsInv, JobsTypeOK
<1>5. WorkersFit'
  <2>1. ASSUME NEW v \in Worker, v # w, wpc[v] # "idle"
        PROVE  /\ Created(wjob[v])'
               /\ \A u \in Worker : wjob'[u] = wjob[v] => wjob[u] = wjob[v]
    BY <1>4, <2>1, WorkerHasJob DEF JobsInv, WorkersFit, Job
  <2>2. QED
    BY <1>4, <2>1 DEF JobsInv, WorkersFit, Stored, Created
<1>6. ClientsFit'
  BY <1>4, ClientsKeep
<1>7. QED
  BY <1>3, <1>5, <1>6

\* A job is delivered to one worker at a time, unless it overlaps.
LEMMA JobsDeliver ==
    ASSUME JobsInv, NEW w \in Worker, NEW j \in Job, Deliver(w, j) PROVE JobsInv'
<1> USE DEF Deliver, api
<1>1. /\ UNCHANGED <<jobs, specs, stalls, overlapped, crashed, next, cpc, cjob>>
      /\ j \in queue /\ queue' = queue \ {j} /\ wpc[w] = "idle"
      /\ active' \subseteq active \cup {j} /\ j \in 1..MaxJobs /\ j # 0
  BY DEF Job
<1>2. RowsFit'
  BY <1>1 DEF JobsInv, RowsFit, Created
<1>3. CASE Claimable(j)
  <2>1. /\ wpc' = [wpc EXCEPT ![w] = "start"] /\ wjob' = [wjob EXCEPT ![w] = j]
        /\ jobs[j].state = "queued"
    BY <1>3 DEF Claimable
  <2>2. /\ wpc'[w] = "start" /\ wjob'[w] = j
        /\ \A v \in Worker : v # w => wpc'[v] = wpc[v] /\ wjob'[v] = wjob[v]
    BY <2>1 DEF JobsInv, JobsTypeOK
  <2>3. JobsTypeOK'
    BY <1>1, <2>1 DEF JobsInv, JobsTypeOK, WorkerStep
  <2>4. Created(j) /\ ~Stored(j)
    BY <2>1 DEF JobsInv, RowsFit, Created, Stored
  <2>5. j \notin overlapped => \A v \in Worker : wjob[v] # j
    BY <1>1 DEF JobsInv, WorkersFit
  <2>6. WorkersFit'
    BY <1>1, <2>2, <2>4, <2>5 DEF JobsInv, WorkersFit, Created, Stored
  <2>7. ClientsFit'
    BY <1>1, <2>2, ClientsKeep DEF Created
  <2>8. QED
    BY <1>1, <1>2, <2>3, <2>6, <2>7 DEF JobsInv
<1>4. CASE ~Claimable(j)
  <2>1. UNCHANGED <<wpc, wjob>>
    BY <1>4
  <2>2. JobsTypeOK'
    BY <1>1, <2>1 DEF JobsInv, JobsTypeOK
  <2>3. WorkersFit'
    BY <1>1, <2>1 DEF JobsInv, WorkersFit, Created, Stored
  <2>4. ClientsFit'
    BY <1>1, <2>1, ClientsKeep DEF Created
  <2>5. QED
    BY <1>1, <1>2, <2>2, <2>3, <2>4 DEF JobsInv
<1>5. QED
  BY <1>3, <1>4

\* A job redelivered while a worker has it is marked as overlapping.
LEMMA JobsRedeliver ==
    ASSUME JobsInv, NEW j \in Job, Redeliver(j) PROVE JobsInv'
<1> USE DEF Redeliver, api, worker
<1>1. /\ UNCHANGED <<jobs, specs, active, crashed, cpc, cjob, wpc, wjob, next>>
      /\ j \in active /\ queue' = queue \cup {j}
      /\ overlapped \subseteq overlapped' /\ overlapped' \subseteq overlapped \cup {j}
      /\ \A w \in Worker : wjob[w] = j => j \in overlapped'
  OBVIOUS
<1>2. stalls' \in [Job -> 0..MaxStalls]
  BY DEF JobsInv, JobsTypeOK
<1>3. JobsTypeOK'
  BY <1>1, <1>2 DEF JobsInv, JobsTypeOK
<1>4. WorkersFit'
  BY <1>1 DEF JobsInv, WorkersFit, Created, Stored
<1>5. ClientsFit'
  BY <1>1, ClientsKeep DEF Created
<1>6. RowsFit'
  BY <1>1 DEF JobsInv, RowsFit, Created
<1>7. QED
  BY <1>3, <1>4, <1>5, <1>6 DEF JobsInv

\* A crashed worker leaves its job with the queue.
LEMMA JobsWorkerCrash ==
    ASSUME JobsInv, NEW w \in Worker, WorkerCrash(w) PROVE JobsInv'
<1> USE DEF WorkerCrash, api
<1>1. PICK j \in Job : wjob[w] = j
  BY WorkerHasJob
<1>2. /\ crashed' \subseteq Job
      /\ jobs' \in [Job -> Row]
      /\ \A i \in Job : Created(i) => Created(i)'
  BY <1>1 DEF JobsInv, JobsTypeOK, Created
<1>3. JobsTypeOK' /\ WorkersFit' /\ ClientsFit'
  BY <1>2, WorkerLeaves
<1>4. RowsFit'
  BY DEF JobsInv, RowsFit, Created
<1>5. QED
  BY <1>3, <1>4 DEF JobsInv

\* A claimed job runs.
LEMMA JobsStart == ASSUME JobsInv, NEW w \in Worker, Start(w) PROVE JobsInv'
<1>1. PICK j \in Job : wjob[w] = j
  BY WorkerHasJob DEF Start
<1>2. /\ wpc[w] = "start" /\ WorkerAt(w, "run", Nothing)
      /\ jobs' = [jobs EXCEPT ![j] = [jobs[j] EXCEPT !.state = "running", !.started = TRUE]]
      /\ UNCHANGED <<specs, broker>>
  BY <1>1 DEF Start
<1>3. /\ "run" \in WorkerStep /\ Nothing \in Outcome /\ "running" \in JobState
  BY DEF WorkerStep, Nothing, Outcome, JobState
<1>4. [jobs[j] EXCEPT !.state = "running", !.started = TRUE] \in Row
  BY <1>3, RowChanged DEF JobsInv, JobsTypeOK
<1>5. /\ jobs' \in [Job -> Row] /\ jobs'[j].state = "running"
      /\ \A i \in Job : i # j => jobs'[i] = jobs[i]
  BY <1>2, <1>4 DEF JobsInv, JobsTypeOK, Row
<1>6. \A i \in Job : Created(i) => Created(i)'
  BY <1>5 DEF Created
<1>7. JobsTypeOK' /\ WorkersFit' /\ ClientsFit'
  BY <1>2, <1>3, <1>5, <1>6, WorkerGoesOn DEF BeforeStore, AfterStore
<1>8. RowsFit'
  BY <1>2, <1>5, RowsMove DEF broker
<1>9. QED
  BY <1>7, <1>8 DEF JobsInv

\* A failure has its state.
LEMMA FailureFits ==
    ASSUME NEW reason \in Reason
    PROVE  LET n == [Nothing EXCEPT !.state = StateFor(reason), !.reason = reason]
           IN  n \in Outcome /\ n.state \in Terminal
<1>1. StateFor(reason) \in Terminal
  BY DEF StateFor, Terminal, Failure
<1>2. Terminal \subseteq JobState
  BY DEF JobState
<1>3. QED
  BY <1>1, <1>2 DEF Nothing, Outcome

\* A worker on its way to write a failure fits.
LEMMA JobsFail ==
    ASSUME JobsInv, NEW w \in Worker, wpc[w] # "idle", NEW reason \in Reason,
           Fail(w, reason), UNCHANGED <<jobs, specs, broker>>
    PROVE  JobsInv'
<1>1. /\ "outcome" \in WorkerStep
      /\ jobs' \in [Job -> Row]
      /\ \A i \in Job : Created(i) => Created(i)'
  BY DEF JobsInv, JobsTypeOK, WorkerStep, Created
<1>2. JobsTypeOK' /\ WorkersFit' /\ ClientsFit'
  BY <1>1, FailureFits, WorkerGoesOn DEF Fail, BeforeStore, AfterStore
<1>3. RowsFit'
  BY DEF JobsInv, RowsFit, Created, broker
<1>4. QED
  BY <1>2, <1>3 DEF JobsInv

\* The engine answers, or does not in time.
LEMMA JobsEngine ==
    ASSUME JobsInv, NEW w \in Worker, EngineAnswers(w) \/ Timeout(w) PROVE JobsInv'
<1>1. CASE WorkerAt(w, "commit", Nothing)
  <2>1. /\ "commit" \in WorkerStep /\ Nothing \in Outcome
        /\ jobs' \in [Job -> Row] /\ wpc[w] = "run"
        /\ \A i \in Job : Created(i) => Created(i)'
        /\ UNCHANGED <<specs, broker>>
    BY DEF JobsInv, JobsTypeOK, WorkerStep, Nothing, Outcome, JobState,
       Created, EngineAnswers, Timeout
  <2>2. JobsTypeOK' /\ WorkersFit' /\ ClientsFit'
    BY <1>1, <2>1, WorkerGoesOn DEF BeforeStore, AfterStore
  <2>3. RowsFit'
    BY DEF JobsInv, RowsFit, Created, broker, EngineAnswers, Timeout
  <2>4. QED
    BY <2>2, <2>3 DEF JobsInv
<1>2. CASE Fail(w, "engine_error") \/ Fail(w, "timeout")
  BY <1>2, JobsFail DEF EngineAnswers, Timeout, Reason
<1>3. QED
  BY <1>1, <1>2 DEF EngineAnswers, Timeout

\* What a worker writes of its job at the end keeps the rows, whatever else of
\* the row it writes.
LEMMA EndWritten ==
    ASSUME JobsInv, NEW j \in Job, NEW r \in Row, r.state \in Terminal,
           jobs' = [jobs EXCEPT ![j] = r]
    PROVE  /\ jobs' \in [Job -> Row]
           /\ \A i \in Job : Created(i) => Created(i)'
           /\ \A i \in Job : \/ jobs'[i].state = jobs[i].state
                               \/ jobs'[i].state \notin {"none", "queued"}
<1>1. r.state \notin {"none", "queued"}
  BY DEF Terminal, Failure
<1>2. QED
  BY <1>1 DEF JobsInv, JobsTypeOK, Created

\* The outcome of a failed run is written over whatever the state is.
LEMMA JobsRecordOutcome ==
    ASSUME JobsInv, NEW w \in Worker, RecordOutcome(w) PROVE JobsInv'
<1>1. PICK j \in Job : wjob[w] = j
  BY WorkerHasJob DEF RecordOutcome
<1>2. PICK n \in Outcome : next[w] = n /\ n.state \in Terminal
  BY DEF RecordOutcome, JobsInv, JobsTypeOK, Outcome, WorkersFit
<1>3. n.state \in JobState /\ n.reason \in Reason \cup {"none"}
  BY <1>2 DEF Outcome
<1>4. PICK r \in Row : r = [jobs[j] EXCEPT !.state = n.state, !.reason = n.reason]
  BY <1>3, RowChanged DEF JobsInv, JobsTypeOK
<1>5. r.state = n.state
  BY <1>4 DEF JobsInv, JobsTypeOK, Row
<1>6. /\ jobs' = [jobs EXCEPT ![j] = r] /\ UNCHANGED <<specs, broker>>
      /\ wpc[w] = "outcome" /\ WorkerAt(w, "settle", n)
  BY <1>1, <1>2, <1>4 DEF RecordOutcome
<1>7. /\ jobs' \in [Job -> Row]
      /\ \A i \in Job : Created(i) => Created(i)'
      /\ \A i \in Job : \/ jobs'[i].state = jobs[i].state
                          \/ jobs'[i].state \notin {"none", "queued"}
  BY <1>2, <1>5, <1>6, EndWritten
<1>8. "settle" \in WorkerStep
  BY DEF WorkerStep
<1>9. JobsTypeOK' /\ WorkersFit' /\ ClientsFit'
  BY <1>2, <1>6, <1>7, <1>8, WorkerGoesOn DEF BeforeStore, AfterStore
<1>10. RowsFit'
  <2>1. /\ queue' \subseteq queue \cup active /\ active' \subseteq active \cup queue
        /\ overlapped \subseteq overlapped' /\ specs' = specs
    BY <1>6 DEF broker
  <2>2. \A i \in Job : \/ jobs'[i].state = jobs[i].state
                      \/ jobs'[i].state \notin {"none", "queued"}
    BY ONLY <1>7
  <2>3. QED
    BY ONLY <2>1, <2>2, JobsInv, RowsMove
<1>11. QED
  BY <1>9, <1>10 DEF JobsInv

\* A worker settles, reports a success it cannot settle as a failure, or is over.
LEMMA JobsSettle == ASSUME JobsInv, NEW w \in Worker, Settle(w) PROVE JobsInv'
<1>1. PICK n \in Outcome : next[w] = n /\ n.state \in Terminal
  BY DEF Settle, JobsInv, JobsTypeOK, Outcome, WorkersFit
<1>2. /\ wpc[w] = "settle" /\ UNCHANGED <<jobs, specs>>
      /\ \A i \in Job : Created(i) => Created(i)'
      /\ jobs' \in [Job -> Row]
  BY DEF Settle, Created, JobsInv, JobsTypeOK
<1>3. CASE WorkerAt(w, "write", n) /\ UNCHANGED broker
  <2>1. "write" \in WorkerStep
    BY DEF WorkerStep
  <2>2. JobsTypeOK' /\ WorkersFit' /\ ClientsFit'
    BY <1>1, <1>2, <1>3, <2>1, WorkerGoesOn DEF BeforeStore, AfterStore
  <2>3. RowsFit'
    BY <1>2, <1>3 DEF JobsInv, RowsFit, Created, broker
  <2>4. QED
    BY <2>2, <2>3 DEF JobsInv
<1>4. CASE Fail(w, "engine_error") /\ UNCHANGED broker
  BY <1>2, <1>4, JobsFail DEF Reason
<1>5. CASE WorkerDone(w)
  <2>1. /\ active' \subseteq active /\ crashed' \subseteq Job
        /\ UNCHANGED <<queue, stalls, overlapped, cpc, cjob>>
    BY <1>5 DEF WorkerDone, api, JobsInv, JobsTypeOK
  <2>2. JobsTypeOK' /\ WorkersFit' /\ ClientsFit'
    BY <1>2, <1>5, <2>1, WorkerLeaves DEF WorkerDone
  <2>3. RowsFit'
    BY <1>2, <2>1 DEF JobsInv, RowsFit, Created
  <2>4. QED
    BY <2>2, <2>3 DEF JobsInv
<1>6. QED
  BY <1>1, <1>3, <1>4, <1>5 DEF Settle

\* The end of a job is written, and its worker is over.
LEMMA JobsWriteSettled ==
    ASSUME JobsInv, NEW w \in Worker, WriteSettled(w) PROVE JobsInv'
<1>1. PICK j \in Job : wjob[w] = j
  BY WorkerHasJob DEF WriteSettled
<1>2. PICK n \in Outcome : next[w] = n /\ n.state \in Terminal
  BY DEF WriteSettled, JobsInv, JobsTypeOK, Outcome, WorkersFit
<1>3. PICK q \in Reason \cup {"none"} :
          q = IF n.reason = "none" THEN jobs[j].reason ELSE n.reason
  BY DEF JobsInv, JobsTypeOK, Row, Outcome
<1>4. PICK m \in SUBSET Nat : m = IF n.result = {} THEN jobs[j].result ELSE n.result
  BY DEF JobsInv, JobsTypeOK, Row, Outcome
<1>5. n.state \in JobState
  BY <1>2 DEF Outcome
<1>6. PICK r \in Row :
          r = [jobs[j] EXCEPT !.state = n.state, !.reason = q, !.result = m]
  BY <1>5, RowChanged DEF JobsInv, JobsTypeOK
<1>7. r.state = n.state
  BY <1>6 DEF JobsInv, JobsTypeOK, Row
<1>8. /\ jobs' = [jobs EXCEPT ![j] = r] /\ UNCHANGED specs
      /\ wpc[w] = "write" /\ WorkerDone(w)
  BY <1>1, <1>2, <1>3, <1>4, <1>6 DEF WriteSettled, JobsInv, JobsTypeOK, Row
<1>9. /\ jobs' \in [Job -> Row]
      /\ \A i \in Job : Created(i) => Created(i)'
      /\ \A i \in Job : \/ jobs'[i].state = jobs[i].state
                          \/ jobs'[i].state \notin {"none", "queued"}
  BY <1>2, <1>7, <1>8, EndWritten
<1>10. /\ active' \subseteq active /\ crashed' \subseteq Job
       /\ UNCHANGED <<queue, stalls, overlapped, cpc, cjob>>
  BY <1>8 DEF WorkerDone, api, JobsInv, JobsTypeOK
<1>11. JobsTypeOK' /\ WorkersFit' /\ ClientsFit'
  BY <1>8, <1>9, <1>10, WorkerLeaves DEF WorkerDone
<1>12. RowsFit'
  <2>1. /\ queue' \subseteq queue \cup active /\ active' \subseteq active \cup queue
        /\ overlapped \subseteq overlapped' /\ specs' = specs
    BY <1>8, <1>10
  <2>2. \A i \in Job : \/ jobs'[i].state = jobs[i].state
                      \/ jobs'[i].state \notin {"none", "queued"}
    BY ONLY <1>9
  <2>3. QED
    BY ONLY <2>1, <2>2, JobsInv, RowsMove
<1>13. QED
  BY <1>11, <1>12 DEF JobsInv

\* A commit stores one specification of a job that had none, or overlapped.
LEMMA JobsCommit == ASSUME JobsInv, NEW w \in Worker, CommitGeneration(w) PROVE JobsInv'
<1>1. PICK j \in Job : wjob[w] = j
  BY WorkerHasJob DEF CommitGeneration
<1>2. PICK n \in Nat : n = Cardinality(specs) + 1
  BY FS_CardinalityType DEF JobsInv, RowsFit
<1>3. PICK t \in Specification : t = NewSpec(w) /\ t.job = j /\ t.run = n
  <2>1. NewSpec(w) = [job |-> j, run |-> n]
    BY <1>1, <1>2 DEF NewSpec
  <2>2. [job |-> j, run |-> n] \in Specification
    BY DEF Specification
  <2>3. QED
    BY <2>1, <2>2
<1>4. wpc[w] = "commit" /\ UNCHANGED broker
  BY DEF CommitGeneration
<1>5. CASE Fail(w, "engine_error") /\ UNCHANGED <<jobs, specs>>
  BY <1>4, <1>5, JobsFail DEF Reason
<1>6. CASE /\ specs' = specs \cup {t}
           /\ jobs' = [jobs EXCEPT ![j].state = "succeeded", ![j].result = {n}]
           /\ WorkerAt(w, "settle", Success(w, t))
  <2>1. /\ "succeeded" \in JobState /\ "succeeded" \in Terminal
        /\ "settle" \in WorkerStep
    BY DEF JobState, Terminal, WorkerStep
  <2>2. PICK r \in Row : r = [jobs[j] EXCEPT !.state = "succeeded", !.result = {n}]
    BY <2>1, RowChanged DEF JobsInv, JobsTypeOK, Reason
  <2>3. r.state = "succeeded"
    BY <2>2 DEF JobsInv, JobsTypeOK, Row
  <2>4. jobs' = [jobs EXCEPT ![j] = r]
    BY <1>6, <2>2 DEF JobsInv, JobsTypeOK, Row
  <2>5. /\ jobs' \in [Job -> Row]
        /\ \A i \in Job : Created(i) => Created(i)'
        /\ \A i \in Job : \/ jobs'[i].state = jobs[i].state
                            \/ jobs'[i].state \notin {"none", "queued"}
    BY <2>1, <2>3, <2>4, EndWritten
  <2>6. Success(w, t) \in Outcome /\ Success(w, t).state = "succeeded"
    BY <1>3, <2>1 DEF Success, Nothing, Outcome, JobState
  <2>7. /\ specs' \subseteq Specification
        /\ \A u \in specs' : u \in specs \/ u.job = wjob[w]
    BY <1>1, <1>3, <1>6 DEF JobsInv, JobsTypeOK
  <2>8. JobsTypeOK' /\ WorkersFit' /\ ClientsFit'
    BY <1>4, <1>6, <2>1, <2>5, <2>6, <2>7, WorkerStepFits DEF BeforeStore, AfterStore
  <2>9. jobs'[j].state = "succeeded"
    BY <2>3, <2>4 DEF JobsInv, JobsTypeOK
  <2>10. j \in overlapped \/ \A u \in specs : u.job # j
    BY <1>1, <1>4 DEF JobsInv, WorkersFit, Stored
  <2>11. \A u \in specs : u.job \in Job
    BY DEF JobsInv, JobsTypeOK, Specification
  <2>12. IsFiniteSet(specs')
    BY <1>6, FS_AddElement DEF JobsInv, RowsFit
  <2>13. \A i \in queue \cup active : i \in Job /\ Created(i)'
    BY <2>5 DEF JobsInv, JobsTypeOK, RowsFit
  <2>14. \A u \in specs' : jobs'[u.job].state \notin {"none", "queued"}
    BY <1>3, <1>6, <2>5, <2>9, <2>11 DEF JobsInv, RowsFit
  <2>15. \A u, v \in specs' : u.job = v.job /\ u.job \notin overlapped => u = v
    BY <1>3, <1>6, <2>10 DEF JobsInv, RowsFit
  <2>16. RowsFit'
    BY <1>4, <2>12, <2>13, <2>14, <2>15 DEF RowsFit, Created, broker
  <2>17. QED
    BY <2>8, <2>16 DEF JobsInv
<1>7. QED
  BY <1>1, <1>2, <1>3, <1>5, <1>6 DEF CommitGeneration

\* Every step of a client, a worker or the queue keeps the invariant.
LEMMA JobsSteps == ASSUME JobsInv, [JobsNext]_jobsVars PROVE JobsInv'
<1>1. CASE UNCHANGED jobsVars
  BY <1>1 DEF jobsVars, api, worker, broker, JobsInv, JobsTypeOK, WorkersFit,
     ClientsFit, RowsFit, Created, Stored
<1>2. ASSUME NEW c \in Client, Api(c) PROVE JobsInv'
  BY <1>2, JobsSubmit, JobsCreate, JobsEnqueue, JobsLoad, JobsCancel, JobsClientCrash
  DEF Api
<1>3. ASSUME NEW w \in Worker, Run(w) \/ EngineAnswers(w) \/ WorkerCrash(w)
      PROVE  JobsInv'
  BY <1>3, JobsDeliver, JobsStart, JobsEngine, JobsCommit, JobsRecordOutcome, JobsSettle,
     JobsWriteSettled, JobsWorkerCrash DEF Run
<1>4. ASSUME NEW j \in Job, Redeliver(j) PROVE JobsInv'
  BY <1>4, JobsRedeliver
<1>5. QED
  BY <1>1, <1>2, <1>3, <1>4 DEF JobsNext

\* The invariant of the jobs holds of every behaviour.
LEMMA JobsInvariance == JobsSpec => []JobsInv
<1>1. JobsInit => JobsInv
  BY JobsInitially
<1>2. JobsInv /\ [JobsNext]_jobsVars => JobsInv'
  BY JobsSteps
<1>3. QED
  BY <1>1, <1>2, PTL DEF JobsSpec

\* A job is not run to a second result by its redelivery: only one that was
\* redelivered while a worker still ran it may be stored twice
\* (GenerateSpecificationService, RAID R-02); and the types.
THEOREM RedeliveryIsSafe == JobsSpec => []RedeliveryStoresOnce
<1>1. ASSUME JobsInv, NEW j \in Job \ overlapped
      PROVE  Cardinality({s \in specs : s.job = j}) <= 1
  <2> DEFINE S == {s \in specs : s.job = j}
  <2>1. \A s, t \in S : s = t
    BY <1>1 DEF JobsInv, RowsFit
  <2> HIDE DEF S
  <2>2. Cardinality(S) <= 1
    <3>1. CASE S = {}
      BY <3>1, FS_EmptySet
    <3>2. CASE S # {}
      <4>1. PICK t : S = {t}
        BY <2>1, <3>2
      <4>2. Cardinality({t}) = 1
        BY FS_Singleton
      <4>3. QED
        BY <4>1, <4>2
    <3>3. QED
      BY <3>1, <3>2
  <2>3. QED
    BY <2>2 DEF S
<1>2. JobsInv => RedeliveryStoresOnce
  BY <1>1 DEF JobsInv, RedeliveryStoresOnce
<1>3. QED
  BY <1>2, JobsInvariance, PTL

\* What is left of a run, of a job that is not run by two workers at once, for the
\* specification t stored for it: a worker about to write a success is past its commit
\* and writes t, and so it does while the job shows t.
Held(t) ==
    \A w \in Worker : wjob[w] = t.job =>
        /\ next[w].state = "succeeded" =>
               wpc[w] \in {"settle", "write"} /\ next[w].result = {t.run}
        /\ Shows(t) => next[w].state = "succeeded"

AllHeld == \A t \in specs : t.job \notin overlapped => Held(t)

\* A step that takes a shown specification away is a cancellation.
Kept(t) == Shows(t) => Shows(t)' \/ \E c \in Client : cjob[c] = t.job /\ Cancel(c)

AllKept == \A t \in specs : t.job \notin overlapped => Kept(t)

\* A worker that is not past its engine has no job with a specification.
LEMMA NotYetStored ==
    ASSUME JobsInv, NEW w \in Worker, wpc[w] \in BeforeStore,
           NEW t \in specs, t.job \notin overlapped
    PROVE  wjob[w] # t.job
<1>1. PICK j \in Job : wjob[w] = j
  BY WorkerHasJob DEF BeforeStore
<1>2. wpc[w] # "idle" /\ wpc[w] \in {"start", "run", "commit"}
  BY DEF BeforeStore
<1>3. QED
  BY <1>1, <1>2 DEF JobsInv, WorkersFit, Stored

\* A specification stays held when nobody changes its row, nor a worker that keeps its job.
LEMMA HeldStays ==
    ASSUME NEW t, t.job # 0, Held(t), jobs'[t.job] = jobs[t.job],
           \A w \in Worker : wjob'[w] = t.job =>
               wjob[w] = t.job /\ wpc'[w] = wpc[w] /\ next'[w] = next[w]
    PROVE  Held(t)' /\ Kept(t)
  BY DEF Held, Kept, Shows

\* A client creates no row that is there, and its cancellation is no success.
LEMMA ClientsHold ==
    ASSUME JobsInv, AllHeld, NEW c \in Client, Api(c) PROVE AllHeld' /\ AllKept
<1>1. UNCHANGED <<specs, overlapped, wpc, wjob, next>>
  BY DEF Api, Submit, Create, Enqueue, Load, Cancel, ClientCrash, ClientAt, broker, worker
<1> SUFFICES ASSUME NEW t \in specs, t.job \notin overlapped PROVE Held(t)' /\ Kept(t)
  BY <1>1 DEF AllHeld, AllKept
<1>2. Held(t) /\ t.job \in Job /\ t.job # 0
  BY DEF AllHeld, JobsInv, JobsTypeOK, Specification, Job
<1>3. jobs[t.job].state # "none"
  BY DEF JobsInv, RowsFit
<1>4. CASE Cancel(c) /\ cjob[c] = t.job
  <2>1. jobs'[t.job].state = "cancelled"
    BY <1>2, <1>4 DEF Cancel, JobsInv, JobsTypeOK, Row
  <2>2. QED
    BY <1>1, <1>2, <1>4, <2>1 DEF Held, Kept, Shows
<1>5. CASE ~(Cancel(c) /\ cjob[c] = t.job)
  <2>1. jobs'[t.job] = jobs[t.job]
    BY <1>2, <1>3, <1>5 DEF Api, Submit, Create, Enqueue, Load, Cancel, ClientCrash,
       JobsInv, JobsTypeOK
  <2>2. QED
    BY ONLY <1>1, <1>2, <2>1, HeldStays
<1>6. QED
  BY <1>4, <1>5

\* The queue hands out no job with a specification, and a crash only ends a run.
LEMMA QueueHolds ==
    ASSUME JobsInv, AllHeld,
           \/ \E w \in Worker, j \in Job : Deliver(w, j)
           \/ \E w \in Worker : WorkerCrash(w)
           \/ \E j \in Job : Redeliver(j)
    PROVE  AllHeld' /\ AllKept
<1>1. UNCHANGED <<jobs, specs>> /\ overlapped \subseteq overlapped'
  BY DEF Deliver, WorkerCrash, Redeliver
<1> SUFFICES ASSUME NEW t \in specs, t.job \notin overlapped PROVE Held(t)' /\ Kept(t)
  BY <1>1 DEF AllHeld, AllKept
<1>2. Held(t) /\ t.job # 0 /\ jobs[t.job].state # "queued"
  BY DEF AllHeld, JobsInv, JobsTypeOK, Specification, Job, RowsFit
<1>3. ASSUME NEW v \in Worker, wjob'[v] = t.job
      PROVE  wjob[v] = t.job /\ wpc'[v] = wpc[v] /\ next'[v] = next[v]
  <2>1. CASE \E w \in Worker, j \in Job : Deliver(w, j)
    BY <1>2, <1>3, <2>1 DEF Deliver, Claimable, JobsInv, JobsTypeOK
  <2>2. CASE \E w \in Worker : WorkerCrash(w)
    BY <1>2, <1>3, <2>2 DEF WorkerCrash, JobsInv, JobsTypeOK
  <2>3. CASE \E j \in Job : Redeliver(j)
    BY <1>3, <2>3 DEF Redeliver, worker
  <2>4. QED
    BY <2>1, <2>2, <2>3
<1>4. QED
  BY ONLY <1>1, <1>2, <1>3, HeldStays

\* What a worker does before its commit concerns no job with a specification; a failure
\* it records is no success.  The commit shows what it stores.
LEMMA RunsHold ==
    ASSUME JobsInv, AllHeld, NEW w \in Worker,
           Start(w) \/ Timeout(w) \/ EngineAnswers(w) \/ CommitGeneration(w) \/ RecordOutcome(w)
    PROVE  /\ AllHeld' /\ AllKept
           /\ \A t \in specs' \ specs : Shows(t)'
<1>1. /\ wpc[w] \in BeforeStore \cup {"outcome"}
      /\ UNCHANGED <<wjob, overlapped>>
      /\ \A v \in Worker : v # w => wpc'[v] = wpc[v] /\ next'[v] = next[v]
  BY DEF Start, Timeout, EngineAnswers, CommitGeneration, RecordOutcome, Fail, WorkerAt,
     broker, JobsInv, JobsTypeOK, BeforeStore
<1>2. PICK j \in Job : wjob[w] = j
  BY <1>1, WorkerHasJob DEF BeforeStore
<1>3. \A i \in Job : i # j => jobs'[i] = jobs[i]
  BY <1>2 DEF Start, Timeout, EngineAnswers, CommitGeneration, RecordOutcome, JobsInv, JobsTypeOK
<1>4. ASSUME NEW t \in specs, t.job \notin overlapped PROVE Held(t)' /\ Kept(t)
  <2>1. Held(t) /\ t.job \in Job /\ t.job # 0
    BY <1>4 DEF AllHeld, JobsInv, JobsTypeOK, Specification, Job
  <2>2. CASE t.job # j
    <3>1. \A v \in Worker : wjob'[v] = t.job =>
              wjob[v] = t.job /\ wpc'[v] = wpc[v] /\ next'[v] = next[v]
      BY <1>1, <1>2, <2>2
    <3>2. jobs'[t.job] = jobs[t.job]
      BY <1>3, <2>1, <2>2
    <3>3. QED
      BY ONLY <2>1, <3>1, <3>2, HeldStays
  <2>3. CASE t.job = j
    <3>1. wpc[w] = "outcome" /\ RecordOutcome(w)
      <4>1. wpc[w] = "outcome"
        BY <1>1, <1>2, <1>4, <2>3, NotYetStored
      <4>2. QED
        BY <4>1 DEF Start, Timeout, EngineAnswers, CommitGeneration, RecordOutcome
    <3>2. next[w].state # "succeeded" /\ ~Shows(t)
      BY <1>2, <2>1, <2>3, <3>1 DEF Held
    <3>3. /\ jobs'[j].state = next[w].state /\ next'[w] = next[w]
      BY <1>2, <3>1 DEF RecordOutcome, WorkerAt, JobsInv, JobsTypeOK, Row
    <3>4. \A v \in Worker : wjob[v] = j => v = w
      BY <1>1, <1>2, <1>4, <2>3 DEF JobsInv, WorkersFit, BeforeStore
    <3>5. QED
      BY <1>1, <2>3, <3>2, <3>3, <3>4 DEF Held, Kept, Shows
  <2>4. QED
    BY <2>2, <2>3
<1>5. CASE specs' = specs
  BY <1>1, <1>4, <1>5 DEF AllHeld, AllKept
<1>6. CASE specs' # specs
  <2>1. /\ wpc[w] = "commit" /\ specs' = specs \cup {NewSpec(w)}
        /\ jobs' = [jobs EXCEPT ![j].state = "succeeded", ![j].result = {NewSpec(w).run}]
        /\ WorkerAt(w, "settle", Success(w, NewSpec(w)))
    BY <1>2, <1>6 DEF Start, Timeout, EngineAnswers, CommitGeneration, RecordOutcome
  <2>2. PICK n : NewSpec(w) = [job |-> j, run |-> n]
    BY <1>2 DEF NewSpec
  <2>3. jobs'[j].state = "succeeded" /\ jobs'[j].result = {n}
    BY <2>1, <2>2 DEF JobsInv, JobsTypeOK, Row
  <2>4. wpc'[w] = "settle" /\ next'[w].state = "succeeded" /\ next'[w].result = {n}
    BY <2>1, <2>2 DEF WorkerAt, Success, Nothing, JobsInv, JobsTypeOK
  <2>5. ASSUME NEW t \in specs' \ specs
        PROVE  Shows(t)' /\ (t.job \notin overlapped => Held(t)')
    <3>1. t.job = j /\ t.run = n
      BY <2>1, <2>2, <2>5
    <3>2. j \notin overlapped => \A v \in Worker : wjob[v] = j => v = w
      BY <1>1, <1>2, <2>1 DEF JobsInv, WorkersFit
    <3>3. QED
      BY <1>1, <2>3, <2>4, <3>1, <3>2 DEF Held, Shows
  <2>6. QED
    BY <1>1, <1>4, <2>5 DEF AllHeld, AllKept
<1>7. QED
  BY <1>5, <1>6

\* Settling repeats the state the commit wrote, which the ledger allows, and writes the
\* same result again; a success it may not repeat is not shown any more.
LEMMA SettlingHolds ==
    ASSUME JobsInv, AllHeld, NEW w \in Worker, Settle(w) \/ WriteSettled(w)
    PROVE  AllHeld' /\ AllKept
<1>1. wpc[w] \in {"settle", "write"} /\ UNCHANGED <<specs, overlapped>>
  BY DEF Settle, WriteSettled, Fail, WorkerAt, WorkerDone, broker
<1>2. PICK j \in Job : wjob[w] = j
  BY <1>1, WorkerHasJob
<1>3. /\ \A v \in Worker : v # w =>
             wpc'[v] = wpc[v] /\ wjob'[v] = wjob[v] /\ next'[v] = next[v]
      /\ wjob'[w] \in {wjob[w], 0}
  BY DEF Settle, WriteSettled, Fail, WorkerAt, WorkerDone, JobsInv, JobsTypeOK
<1>4. \A i \in Job : i # j => jobs'[i] = jobs[i]
  BY <1>2 DEF Settle, WriteSettled, JobsInv, JobsTypeOK
<1> SUFFICES ASSUME NEW t \in specs, t.job \notin overlapped PROVE Held(t)' /\ Kept(t)
  BY <1>1 DEF AllHeld, AllKept
<1>5. Held(t) /\ t.job \in Job /\ t.job # 0
  BY DEF AllHeld, JobsInv, JobsTypeOK, Specification, Job
<1>6. CASE t.job # j
  <2>1. \A v \in Worker : wjob'[v] = t.job =>
            wjob[v] = t.job /\ wpc'[v] = wpc[v] /\ next'[v] = next[v]
    BY <1>2, <1>3, <1>5, <1>6
  <2>2. jobs'[t.job] = jobs[t.job]
    BY <1>4, <1>5, <1>6
  <2>3. QED
    BY ONLY <1>5, <2>1, <2>2, HeldStays
<1>7. CASE t.job = j
  <2>1. \A v \in Worker : wjob[v] = j => v = w
    BY <1>1, <1>2, <1>7 DEF JobsInv, WorkersFit
  <2>2. \A v \in Worker : wjob'[v] = j => v = w
    BY <1>3, <2>1
  <2>3. CASE Settle(w)
    <3>1. jobs' = jobs
      BY <2>3 DEF Settle
    <3>2. \/ wjob'[w] = 0
          \/ wpc'[w] = "write" /\ next'[w] = next[w]
          \/ next'[w].state # "succeeded" /\ ~Shows(t)
      BY <1>2, <1>7, <2>3 DEF Settle, Fail, WorkerAt, WorkerDone, StateFor, Nothing, Shows,
         JobsInv, JobsTypeOK
    <3>3. QED
      BY <1>2, <1>5, <1>7, <2>2, <3>1, <3>2 DEF Held, Kept, Shows
  <2>4. CASE WriteSettled(w)
    <3>1. wjob'[w] = 0
      BY <2>4 DEF WriteSettled, WorkerDone, JobsInv, JobsTypeOK
    <3>2. ASSUME Shows(t) PROVE Shows(t)'
      <4>1. next[w].state = "succeeded" /\ next[w].result = {t.run}
        BY <1>2, <1>5, <1>7, <3>2 DEF Held
      <4>2. jobs' = [jobs EXCEPT
               ![j].state = "succeeded",
               ![j].reason = IF next[w].reason = "none" THEN @ ELSE next[w].reason,
               ![j].result = {t.run}]
        BY <1>2, <2>4, <4>1 DEF WriteSettled
      <4>3. jobs'[j].state = "succeeded" /\ jobs'[j].result = {t.run}
        BY <4>2 DEF JobsInv, JobsTypeOK, Row
      <4>4. QED
        BY <1>1, <1>7, <4>3 DEF Shows
    <3>3. QED
      BY <1>5, <1>7, <2>2, <3>1, <3>2 DEF Held, Kept
  <2>5. QED
    BY <2>3, <2>4
<1>8. QED
  BY <1>6, <1>7

\* Every step keeps what is held, takes a shown specification away only by a
\* cancellation, and shows what it stores.
LEMMA StepsShow ==
    ASSUME JobsInv, AllHeld, [JobsNext]_jobsVars
    PROVE  /\ AllHeld' /\ AllKept
           /\ \A t \in specs' \ specs : Shows(t)'
<1>1. CASE UNCHANGED jobsVars
  BY <1>1 DEF jobsVars, worker, broker, AllHeld, AllKept, Held, Kept, Shows
<1>2. ASSUME NEW c \in Client, Api(c) PROVE specs' = specs
  BY <1>2 DEF Api, Submit, Create, Enqueue, Load, Cancel, ClientCrash
<1>3. CASE \E c \in Client : Api(c)
  BY <1>2, <1>3, ClientsHold
<1>4. CASE \/ \E w \in Worker, j \in Job : Deliver(w, j)
           \/ \E w \in Worker : WorkerCrash(w)
           \/ \E j \in Job : Redeliver(j)
  <2>1. specs' = specs
    BY <1>4 DEF Deliver, WorkerCrash, Redeliver
  <2>2. QED
    BY <1>4, <2>1, QueueHolds
<1>5. CASE \E w \in Worker : Settle(w) \/ WriteSettled(w)
  <2>1. specs' = specs
    BY <1>5 DEF Settle, WriteSettled
  <2>2. QED
    BY <1>5, <2>1, SettlingHolds
<1>6. CASE \E w \in Worker : \/ Start(w) \/ Timeout(w) \/ EngineAnswers(w)
                             \/ CommitGeneration(w) \/ RecordOutcome(w)
  BY <1>6, RunsHold
<1>7. QED
  BY <1>1, <1>3, <1>4, <1>5, <1>6 DEF JobsNext, Run

\* A specification is stored in a job that shows it, and the job shows it from then on,
\* through what its worker still writes, a crash before it does, and redelivery, until a
\* cancellation takes it away or two workers run the job at once (settle,
\* commitGeneration, cancel).
THEOREM StoredStaysShown == JobsSpec => StoredIsShown
<1>1. JobsInit => AllHeld
  BY DEF JobsInit, AllHeld
<1>2. JobsInv /\ AllHeld /\ [JobsNext]_jobsVars => AllHeld'
  BY StepsShow
<1>3. JobsInv /\ AllHeld /\ [JobsNext]_jobsVars =>
        [\A s \in specs' :
            s.job \notin overlapped /\ (s \in specs => Shows(s)) =>
                Shows(s)' \/ \E c \in Client : cjob[c] = s.job /\ Cancel(c)]_jobsVars
  BY StepsShow DEF AllKept, Kept
<1>4. QED
  BY <1>1, <1>2, <1>3, JobsInvariance, PTL DEF JobsSpec, StoredIsShown
=============================================================================
