---------------------- MODULE RequirementBaselinesProofs ----------------------
(***************************************************************************)
(* Proofs that a promoted candidate has a version, that a replacement is   *)
(* there and later, that waivers are complete, that a baseline has         *)
(* replaced what it overlaps and its approval saw, and that edits respect  *)
(* the baselines they began under; for any number of candidates, handlers  *)
(* and requests, whatever comes in between and wherever an approval dies.  *)
(***************************************************************************)
EXTENDS RequirementBaselines, FiniteSetTheorems, SequenceTheorems, WellFoundedInduction, TLAPS

Step == {"idle", "freeze", "version", "mark", "known", "veto", "append", "update",
         "list", "target", "criteria", "contract", "number", "create", "waive"}

\* The steps that work on a requirement, those of an edit, and those of an
\* approval: all, those that know the baselines, those that have compared them,
\* and those that have counted the exceptions.
Editing == {"known", "veto", "append", "update"}
Working == {"freeze", "version", "mark"} \cup Editing
Excepted == {"contract", "number", "create", "waive"}
Compared == {"criteria"} \cup Excepted
Informed == {"target"} \cup Compared
Approving == {"list"} \cup Informed

AnyMember == [candidate: Candidate, version: Nat, content: 1..MaxContent]

Job == [requirement: Nat, candidate: SUBSET Candidate, content: Nat, prior: Nat,
        known: SUBSET Nat, before: SUBSET Nat, members: SUBSET AnyMember,
        supersedes: Nat, waived: SUBSET Nat, current: SUBSET Nat,
        unstated: SUBSET Nat, number: Nat]

Row == [members: SUBSET AnyMember, supersededBy: Nat, listed: SUBSET Nat, unstated: SUBSET Nat]

\* How many baselines there are; their numbers have no gap.
Count == Cardinality(DOMAIN baselines)

\* The types, those of the rows and of the handlers included.
Typed ==
    /\ content \in Seq(1..MaxContent)
    /\ versions \in Seq([requirement: DOMAIN content, content: 1..MaxContent])
    /\ promotedTo \in [Candidate -> {0} \cup DOMAIN content]
    /\ ready \in [Candidate -> BOOLEAN]
    /\ Count \in Nat /\ baselines \in [1..Count -> Row]
    /\ pc \in [Handler -> Step] /\ job \in [Handler -> Job]
    /\ crashes \in Nat

\* A baseline freezes versions that are there, knew of earlier ones only, and is
\* replaced by a later one that is there.
RowsFit ==
    \A n \in DOMAIN baselines :
        /\ baselines[n].members \in (SUBSET Member) \ {{}}
        /\ baselines[n].unstated \subseteq Ids(baselines[n].members)
        /\ baselines[n].listed \subseteq 1..(n - 1)
        /\ baselines[n].supersededBy # 0 =>
               baselines[n].supersededBy \in DOMAIN baselines /\ n < baselines[n].supersededBy

\* A waiver is of a version that a baseline freezes.
WaiversFit ==
    waivers \subseteq {w \in (DOMAIN baselines) \X (DOMAIN versions) : Freezes(w[1], {w[2]})}

\* What a promotion or an edit knows: its requirement; once it is to be marked, a
\* version of it; of the baselines the edit began under, what they freeze of the
\* requirement, and, past the veto, that those still current freeze none.
EditFits(s, j) ==
    /\ j.requirement \in {0} \cup DOMAIN content
    /\ s \in Working => j.requirement \in DOMAIN content
    /\ s \in {"version", "known", "veto", "append"} => j.prior \in 1..MaxContent
    /\ s \in Editing =>
           j.content \in 1..MaxContent /\ j.before \subseteq DOMAIN baselines
    /\ s = "mark" => VersionsOf(j.requirement) # {}
    /\ s = "veto" => \A n \in j.before :
           Ids(baselines[n].members) \cap VersionsOf(j.requirement) \subseteq j.known
    /\ s \in {"append", "update"} => \A n \in j.before \cap Current :
           ~Freezes(n, VersionsOf(j.requirement))

\* What an approval knows: members that are there, a baseline to replace; that no
\* other of those it listed freezes a member; that what states no criteria is
\* waived; a number above all those, and below which none is free; and, once the
\* baseline is there, that it is its own.
ApprovalFits(s, j) ==
    /\ j.members \subseteq Member
    /\ s \in Approving =>
           /\ j.members # {} /\ j.waived \subseteq Ids(j.members)
           /\ j.supersedes \in {0} \cup DOMAIN baselines
    /\ s \in Informed => j.current \subseteq DOMAIN baselines
    /\ s \in Compared =>
           \A n \in j.current \ {j.supersedes} : ~Freezes(n, Ids(j.members))
    /\ s \in Excepted => j.unstated \subseteq j.waived
    /\ s \in {"create", "waive"} =>
           /\ j.number # 0 /\ j.supersedes < j.number
           /\ j.current \subseteq 1..(j.number - 1)
           /\ 1..(j.number - 1) \subseteq DOMAIN baselines
    /\ s = "waive" =>
           /\ j.number \in DOMAIN baselines
           /\ baselines[j.number].members = j.members
           /\ baselines[j.number].listed = j.current
           /\ baselines[j.number].unstated = j.unstated

HandlersFit ==
    \A h \in Handler : EditFits(pc[h], job[h]) /\ ApprovalFits(pc[h], job[h])

\* The inductive invariant: what a handler learnt in one round trip and relies on
\* in a later one stays true, because versions and baselines are only added and a
\* baseline that was replaced is never current again.
IInv ==
    /\ Typed /\ RowsFit /\ WaiversFit /\ HandlersFit
    /\ PromotedHasAVersion /\ WaiversAreComplete /\ OverlapsAreReplacements
----------------------------------------------------------------------------
\* Sequences and numbers

\* Sequences over a set are sequences over a larger one.
LEMMA SeqGrows ==
    ASSUME NEW S, NEW T, S \subseteq T, NEW q \in Seq(S)
    PROVE  q \in Seq(T)
<1>1. Len(q) \in Nat /\ q \in [1..Len(q) -> T]
  BY LenProperties
<1>2. QED
  BY <1>1, SeqDef

\* A non-empty set of numbers has a least one: the oldest version.
LEMMA LeastExists ==
    ASSUME NEW S \in SUBSET Nat, S # {}
    PROVE  \E c \in S : \A d \in S : c <= d
<1>1. PICK c \in S : \A d \in S : <<d, c>> \notin OpToRel(<, Nat)
  <2>1. IsWellFoundedOn(OpToRel(<, Nat), Nat)
    BY NatLessThanWellFounded
  <2>2. QED
    BY <2>1, WFMin, Zenon
<1>2. \A d \in S : ~(d < c)
  BY <1>1 DEF OpToRel
<1>3. QED
  BY <1>2

\* The requirements and the versions are numbered from one.
LEMMA Lengths ==
    ASSUME Typed
    PROVE  /\ Len(content) \in Nat /\ DOMAIN content = 1..Len(content)
           /\ content \in [1..Len(content) -> 1..MaxContent]
           /\ Len(versions) \in Nat /\ DOMAIN versions = 1..Len(versions)
           /\ \A v \in DOMAIN versions : versions[v].requirement \in DOMAIN content
           /\ Count \in Nat /\ DOMAIN baselines = 1..Count
<1>1. /\ Len(content) \in Nat /\ DOMAIN content = 1..Len(content)
      /\ content \in [1..Len(content) -> 1..MaxContent]
  BY LenProperties DEF Typed
<1> DEFINE Version == [requirement: DOMAIN content, content: 1..MaxContent]
<1>2. versions \in Seq(Version)
  BY DEF Typed
<1>3. /\ Len(versions) \in Nat /\ DOMAIN versions = 1..Len(versions)
      /\ \A v \in DOMAIN versions : versions[v] \in Version
  <2> HIDE DEF Version
  <2>1. QED
    BY <1>2, LenProperties, ElementOfSeq
<1>4. Count \in Nat /\ DOMAIN baselines = 1..Count
  BY DEF Typed
<1>5. QED
  BY <1>1, <1>3, <1>4

\* A handler that is under way.
LEMMA HandlerTyped ==
    ASSUME IInv, NEW h \in Handler
    PROVE  /\ pc[h] \in Step /\ job[h] \in Job
           /\ EditFits(pc[h], job[h]) /\ ApprovalFits(pc[h], job[h])
BY DEF IInv, Typed, HandlersFit

\* The next number is above all those given and leaves none free.
LEMMA NextIsFree ==
    ASSUME Typed
    PROVE  NextNumber = Count + 1
<1> DEFINE top == CHOOSE n \in DOMAIN baselines \cup {0} : \A k \in DOMAIN baselines : k <= n
<1>1. Count \in Nat /\ DOMAIN baselines = 1..Count
  BY Lengths
<1>2. Count \in DOMAIN baselines \cup {0} /\ \A k \in DOMAIN baselines : k <= Count
  BY <1>1
<1>3. top \in DOMAIN baselines \cup {0} /\ \A k \in DOMAIN baselines : k <= top
  BY <1>2
<1> HIDE DEF top
<1>4. top = Count
  <2> PICK t : t = top
    OBVIOUS
  <2>1. CASE Count = 0
    BY <1>1, <1>3, <2>1
  <2>2. CASE Count # 0
    <3>1. Count \in DOMAIN baselines /\ Count <= t
      BY <1>1, <1>3, <2>2
    <3>2. t \in 0..Count
      BY <1>1, <1>3
    <3>3. QED
      BY <1>1, <3>1, <3>2
  <2>3. QED
    BY <2>1, <2>2
<1>5. NextNumber = 1 + top
  BY DEF NextNumber, top
<1>6. QED
  BY <1>1, <1>4, <1>5

\* What the screen offers are candidates, versions that are there, and contents.
LEMMA OfferedAreMembers ==
    ASSUME Typed
    PROVE  BaselineMembers \subseteq Member
<1>1. SUFFICES ASSUME NEW c \in Candidate, promotedTo[c] # 0, VersionsOf(promotedTo[c]) # {}
               PROVE  /\ CurrentVersion(promotedTo[c]).version \in DOMAIN versions
                      /\ CurrentVersion(promotedTo[c]).content \in 1..MaxContent
  BY DEF BaselineMembers, Member
<1> PICK r : r = promotedTo[c]
  OBVIOUS
<1>2. r \in DOMAIN content /\ content[r] \in 1..MaxContent
  BY <1>1, Lengths DEF Typed
<1>3. VersionsOf(r) \subseteq DOMAIN versions /\ VersionsOf(r) \subseteq Nat
  BY Lengths DEF VersionsOf
<1> DEFINE v == CHOOSE v \in VersionsOf(r) : \A w \in VersionsOf(r) : v <= w
<1>4. v \in VersionsOf(r)
  <2>1. \E u \in VersionsOf(r) : \A w \in VersionsOf(r) : u <= w
    BY <1>1, <1>3, LeastExists
  <2>2. QED
    BY <2>1
<1>5. CurrentVersion(r).version = v /\ CurrentVersion(r).content = content[r]
  BY DEF CurrentVersion
<1> HIDE DEF v
<1>6. QED
  BY <1>2, <1>3, <1>4, <1>5
----------------------------------------------------------------------------
\* What stays

\* A step of a handler leaves the others where they are.
OthersAlone(h) == \A w \in Handler \ {h} : pc'[w] = pc[w] /\ job'[w] = job[w]

\* Requirements and versions are only added.
RegisterGrows ==
    /\ DOMAIN content \subseteq DOMAIN content'
    /\ \A v \in DOMAIN versions : v \in DOMAIN versions' /\ versions'[v] = versions[v]

\* Baselines are only added; one that was replaced stays replaced.
BaselinesGrow ==
    \A n \in DOMAIN baselines :
        /\ n \in DOMAIN baselines'
        /\ baselines'[n].members = baselines[n].members
        /\ baselines'[n].listed = baselines[n].listed
        /\ baselines'[n].unstated = baselines[n].unstated
        /\ baselines[n].supersededBy # 0 => baselines'[n].supersededBy # 0

\* What a baseline freezes of a requirement never changes.
LEMMA FrozenStays ==
    ASSUME RowsFit, RegisterGrows, BaselinesGrow, NEW n \in DOMAIN baselines, NEW r
    PROVE  Ids(baselines'[n].members) \cap VersionsOf(r)'
               = Ids(baselines[n].members) \cap VersionsOf(r)
<1>1. Ids(baselines[n].members) \subseteq DOMAIN versions
  BY DEF RowsFit, Ids, Member
<1>2. \A v \in DOMAIN versions : v \in VersionsOf(r)' <=> v \in VersionsOf(r)
  BY DEF RegisterGrows, VersionsOf
<1>3. baselines'[n].members = baselines[n].members /\ VersionsOf(r) \subseteq DOMAIN versions
  BY DEF BaselinesGrow, VersionsOf
<1>4. QED
  BY <1>1, <1>2, <1>3

\* What a handler knows stays true.
LEMMA FitsStay ==
    ASSUME RowsFit, RegisterGrows, BaselinesGrow, NEW s, NEW j \in Job,
           EditFits(s, j), ApprovalFits(s, j)
    PROVE  EditFits(s, j)' /\ ApprovalFits(s, j)'
<1>1. Member \subseteq Member' /\ VersionsOf(j.requirement) \subseteq VersionsOf(j.requirement)'
  BY DEF RegisterGrows, Member, VersionsOf
<1>2. \A n \in DOMAIN baselines : n \in Current' => n \in Current
  BY DEF BaselinesGrow, Current
<1>3. EditFits(s, j)'
  <2>1. ASSUME s = "veto", NEW n \in j.before
        PROVE  Ids(baselines'[n].members) \cap VersionsOf(j.requirement)' \subseteq j.known
    BY <2>1, FrozenStays DEF EditFits, Editing
  <2>2. ASSUME s \in {"append", "update"}, NEW n \in j.before \cap Current'
        PROVE  ~Freezes(n, VersionsOf(j.requirement))'
    <3>1. n \in DOMAIN baselines /\ ~Freezes(n, VersionsOf(j.requirement))
      BY <1>2, <2>2 DEF EditFits, Editing
    <3>2. QED
      BY <3>1, FrozenStays DEF Freezes
  <2>3. QED
    BY <1>1, <2>1, <2>2 DEF EditFits, Editing, Working, RegisterGrows, BaselinesGrow
<1>4. ApprovalFits(s, j)'
  <2>1. ASSUME s \in Compared, NEW n \in j.current \ {j.supersedes}
        PROVE  ~Freezes(n, Ids(j.members))'
    BY <2>1 DEF ApprovalFits, Informed, Freezes, BaselinesGrow
  <2>2. QED
    BY <1>1, <2>1 DEF ApprovalFits, Informed, Compared, Excepted, Approving, BaselinesGrow
<1>5. QED
  BY <1>3, <1>4

\* Where a handler is after its step: at s, with what it knows.
LEMMA HandlersMove ==
    ASSUME IInv, NEW h \in Handler, NEW s \in Step, NEW j \in Job,
           pc' = [pc EXCEPT ![h] = s], job' = [job EXCEPT ![h] = j],
           RegisterGrows, BaselinesGrow, EditFits(s, j)', ApprovalFits(s, j)'
    PROVE  /\ pc' \in [Handler -> Step] /\ job' \in [Handler -> Job]
           /\ pc'[h] = s /\ job'[h] = j /\ OthersAlone(h) /\ HandlersFit'
<1>1. /\ pc' \in [Handler -> Step] /\ job' \in [Handler -> Job]
      /\ pc'[h] = s /\ job'[h] = j /\ OthersAlone(h)
  BY DEF IInv, Typed, OthersAlone
<1>2. ASSUME NEW w \in Handler PROVE (EditFits(pc[w], job[w]) /\ ApprovalFits(pc[w], job[w]))'
  <2>1. CASE w = h
    BY <1>1, <2>1
  <2>2. CASE w # h
    <3> PICK t, k : t = pc[w] /\ k = job[w]
      OBVIOUS
    <3>1. k \in Job /\ EditFits(t, k) /\ ApprovalFits(t, k) /\ RowsFit
      BY HandlerTyped DEF IInv
    <3>2. EditFits(t, k)' /\ ApprovalFits(t, k)'
      BY <3>1, FitsStay
    <3>3. pc'[w] = t /\ job'[w] = k
      BY <1>1, <2>2 DEF OthersAlone
    <3>4. QED
      BY <3>2, <3>3
  <2>3. QED
    BY <2>1, <2>2
<1>3. QED
  BY <1>1, <1>2 DEF HandlersFit

\* An approval that is finishing still is, when another handler takes a step.
LEMMA FinishingStays ==
    ASSUME NEW h \in Handler, OthersAlone(h), pc[h] # "waive"
    PROVE  \A n : Finishing(n) => Finishing(n)'
BY DEF OthersAlone, Finishing

\* Handlers that wait know what they knew.
LEMMA HandlersStay ==
    ASSUME IInv, RegisterGrows, BaselinesGrow, pc' = pc, job' = job
    PROVE  HandlersFit'
<1>1. SUFFICES ASSUME NEW w \in Handler
               PROVE  (EditFits(pc[w], job[w]) /\ ApprovalFits(pc[w], job[w]))'
  BY DEF HandlersFit
<1> PICK t, k : t = pc[w] /\ k = job[w]
  OBVIOUS
<1>2. k \in Job /\ EditFits(t, k) /\ ApprovalFits(t, k) /\ RowsFit
  BY HandlerTyped DEF IInv
<1>3. EditFits(t, k)' /\ ApprovalFits(t, k)'
  BY <1>2, FitsStay
<1>4. QED
  BY <1>3

\* A step that writes no row of the room: it may add requirements and versions,
\* and it ends no approval unless the handler died.
LEMMA RegisterStep ==
    ASSUME IInv, NEW h \in Handler, NEW s \in Step, NEW j \in Job,
           pc' = [pc EXCEPT ![h] = s], job' = [job EXCEPT ![h] = j],
           RegisterGrows, content' \in Seq(1..MaxContent),
           versions' \in Seq([requirement: DOMAIN content', content: 1..MaxContent]),
           UNCHANGED room, crashes' \in Nat, crashes > 0 => crashes' > 0,
           EditFits(s, j)', ApprovalFits(s, j)',
           pc[h] = "waive" => crashes' > 0
    PROVE  IInv'
<1>1. /\ promotedTo' = promotedTo /\ ready' = ready /\ baselines' = baselines
      /\ waivers' = waivers
  BY DEF room
<1>2. BaselinesGrow /\ \A n : n \in Current' <=> n \in Current
  BY <1>1 DEF BaselinesGrow, Current
<1>3. /\ pc' \in [Handler -> Step] /\ job' \in [Handler -> Job]
      /\ pc'[h] = s /\ job'[h] = j /\ OthersAlone(h) /\ HandlersFit'
  BY <1>2, HandlersMove
<1>4. Typed'
  BY <1>1, <1>3 DEF IInv, Typed, Count, RegisterGrows
<1>5. RowsFit' /\ WaiversFit'
  <2>1. Member \subseteq Member' /\ DOMAIN versions \subseteq DOMAIN versions'
    BY DEF RegisterGrows, Member
  <2>2. QED
    BY <1>1, <2>1 DEF IInv, RowsFit, WaiversFit, Freezes
<1>6. PromotedHasAVersion'
  <2>1. \A r : VersionsOf(r) \subseteq VersionsOf(r)'
    BY DEF RegisterGrows, VersionsOf
  <2>2. SUFFICES ASSUME NEW c \in Candidate, promotedTo[c] # 0
                 PROVE  VersionsOf(promotedTo[c])' # {}
    BY <1>1 DEF PromotedHasAVersion
  <2> PICK r : r = promotedTo[c]
    OBVIOUS
  <2>3. VersionsOf(r) # {}
    BY <2>2 DEF IInv, PromotedHasAVersion
  <2>4. VersionsOf(r)' # {}
    BY <2>1, <2>3
  <2>5. QED
    BY <1>1, <2>4
<1>7. \A n : Finishing(n) \/ crashes > 0 => Finishing(n)' \/ crashes' > 0
  <2>1. SUFFICES ASSUME NEW n, NEW w \in Handler, pc[w] = "waive", job[w].number = n, ~(crashes' > 0)
                 PROVE  Finishing(n)'
    BY DEF Finishing
  <2>2. w # h
    BY <2>1
  <2>3. QED
    BY <1>3, <2>1, <2>2 DEF OthersAlone, Finishing
<1>8. WaiversAreComplete' /\ OverlapsAreReplacements'
  <2>1. WaiversAreComplete'
    BY <1>1, <1>7 DEF IInv, WaiversAreComplete
  <2>2. OverlapsAreReplacements'
    BY <1>1, <1>2, <1>7 DEF IInv, OverlapsAreReplacements, Overlapping, Freezes
  <2>3. QED
    BY <2>1, <2>2
<1>9. QED
  BY <1>3, <1>4, <1>5, <1>6, <1>8 DEF IInv

\* A step that writes nothing: what the handler learns is true as things stand.
LEMMA QuietStep ==
    ASSUME IInv, NEW h \in Handler, NEW s \in Step, NEW j \in Job,
           pc' = [pc EXCEPT ![h] = s], job' = [job EXCEPT ![h] = j],
           UNCHANGED <<register, room>>, crashes' \in Nat, crashes > 0 => crashes' > 0,
           EditFits(s, j), ApprovalFits(s, j), pc[h] = "waive" => crashes' > 0
    PROVE  IInv'
<1>1. content' = content /\ versions' = versions /\ UNCHANGED room /\ baselines' = baselines
  BY DEF register, room
<1>2. /\ RegisterGrows /\ BaselinesGrow
      /\ content' \in Seq(1..MaxContent)
      /\ versions' \in Seq([requirement: DOMAIN content', content: 1..MaxContent])
  BY <1>1 DEF IInv, Typed, RegisterGrows, BaselinesGrow
<1>3. EditFits(s, j)' /\ ApprovalFits(s, j)'
  BY <1>2, FitsStay DEF IInv
<1>4. QED
  BY <1>1, <1>2, <1>3, RegisterStep

\* A request that is over knows nothing.
LEMMA NothingKnown ==
    /\ NoJob \in Job /\ "idle" \in Step
    /\ EditFits("idle", NoJob) /\ ApprovalFits("idle", NoJob)
<1>1. NoJob \in Job /\ NoJob.members = {} /\ NoJob.requirement = 0
  BY DEF NoJob, Job
<1>2. QED
  BY <1>1 DEF Step, EditFits, ApprovalFits, Working, Editing, Approving, Informed, Compared, Excepted

\* A request that is refused, or whose process dies, leaves what is stored.
LEMMA EndStep ==
    ASSUME IInv, NEW h \in Handler, End(h), UNCHANGED <<register, room>>,
           crashes' \in Nat, crashes > 0 => crashes' > 0, pc[h] = "waive" => crashes' > 0
    PROVE  IInv'
BY NothingKnown, QuietStep DEF End

\* A step that goes on to the next, knowing what it knew.
LEMMA GoOnStep ==
    ASSUME IInv, NEW h \in Handler, NEW s \in Step, pc' = [pc EXCEPT ![h] = s],
           UNCHANGED <<register, room, job, crashes>>, pc[h] # "waive",
           EditFits(s, job[h]), ApprovalFits(s, job[h])
    PROVE  IInv'
<1> PICK j : j = job[h]
  OBVIOUS
<1>1. j \in Job /\ job' = [job EXCEPT ![h] = j] /\ EditFits(s, j) /\ ApprovalFits(s, j)
  BY DEF IInv, Typed
<1>2. crashes' \in Nat /\ (crashes > 0 => crashes' > 0)
  BY DEF IInv, Typed
<1>3. QED
  BY <1>1, <1>2, QuietStep
----------------------------------------------------------------------------
\* Promotion

\* A promotion creates a requirement of its own.
LEMMA CreateRequirementStep ==
    ASSUME IInv, NEW h \in Handler, CreateRequirement(h)
    PROVE  IInv'
<1> PICK n : n = Len(content)
  OBVIOUS
<1>1. /\ content' = Append(content, 1) /\ versions' = versions /\ UNCHANGED room
      /\ pc' = [pc EXCEPT ![h] = "freeze"] /\ crashes' = crashes /\ pc[h] = "idle"
      /\ baselines' = baselines
  BY DEF CreateRequirement, At, room
<1>2. /\ n \in Nat /\ DOMAIN content = 1..n /\ content \in Seq(1..MaxContent)
      /\ 1 \in 1..MaxContent
  BY Lengths, BoundsAssumption DEF IInv, Typed
<1>3. /\ content' \in Seq(1..MaxContent) /\ Len(content') = n + 1
      /\ DOMAIN content' = 1..(n + 1)
  BY <1>1, <1>2, AppendProperties, LenProperties
<1>4. PICK c \in Candidate :
          job' = [job EXCEPT ![h] = [NoJob EXCEPT !.candidate = {c}, !.requirement = n + 1]]
  BY <1>1, <1>3 DEF CreateRequirement, Learn
<1> PICK j : j = [NoJob EXCEPT !.candidate = {c}, !.requirement = n + 1]
  OBVIOUS
<1>5. j \in Job /\ j.requirement = n + 1 /\ j.members = {}
  <2>1. NoJob \in Job /\ NoJob.members = {}
    BY NothingKnown DEF NoJob
  <2>2. n + 1 \in Nat /\ {c} \in SUBSET Candidate
    BY <1>2
  <2>3. QED
    BY <2>1, <2>2 DEF Job
<1>6. RegisterGrows
  BY <1>1, <1>2, <1>3 DEF RegisterGrows
<1>7. versions' \in Seq([requirement: DOMAIN content', content: 1..MaxContent])
  <2> PICK S : S = [requirement: DOMAIN content, content: 1..MaxContent]
    OBVIOUS
  <2> PICK T : T = [requirement: DOMAIN content', content: 1..MaxContent]
    OBVIOUS
  <2>1. S \subseteq T
    BY <1>6 DEF RegisterGrows
  <2>2. versions \in Seq(S)
    BY DEF IInv, Typed
  <2>3. versions \in Seq(T)
    BY ONLY <2>1, <2>2, SeqGrows
  <2>4. QED
    BY <1>1, <2>3
<1>8. EditFits("freeze", j)' /\ ApprovalFits("freeze", j)'
  <2>1. n + 1 \in DOMAIN content'
    BY <1>2, <1>3
  <2>2. QED
    BY <1>5, <2>1 DEF EditFits, ApprovalFits, Working, Editing, Approving, Informed, Compared,
       Excepted
<1>9. crashes' \in Nat /\ "freeze" \in Step /\ job' = [job EXCEPT ![h] = j]
  BY <1>1, <1>4 DEF IInv, Typed, Step
<1>10. QED
  BY <1>1, <1>3, <1>5, <1>6, <1>7, <1>8, <1>9, RegisterStep

\* What is to be frozen is the content of the requirement.
LEMMA FreezeStep ==
    ASSUME IInv, NEW h \in Handler, Freeze(h)
    PROVE  IInv'
<1>1. /\ pc[h] = "freeze" /\ pc' = [pc EXCEPT ![h] = "version"]
      /\ UNCHANGED <<register, room>> /\ crashes' = crashes
      /\ job' = [job EXCEPT ![h] = [job[h] EXCEPT !.prior = content[job[h].requirement]]]
  BY DEF Freeze, At, Learn, counts
<1>2. /\ job[h] \in Job /\ job[h].requirement \in DOMAIN content /\ job[h].members \subseteq Member
  BY <1>1, HandlerTyped DEF EditFits, ApprovalFits, Working
<1>3. content[job[h].requirement] \in 1..MaxContent
  BY <1>2, Lengths DEF IInv
<1> PICK x \in 1..MaxContent : x = content[job[h].requirement]
  BY <1>3
<1> PICK j : j = [job[h] EXCEPT !.prior = x]
  OBVIOUS
<1>4. /\ j \in Job /\ j.requirement = job[h].requirement /\ j.members = job[h].members /\ j.prior = x
  <2>1. x \in Nat
    BY BoundsAssumption
  <2>2. QED
    BY <1>2, <2>1 DEF Job
<1>5. EditFits("version", j) /\ ApprovalFits("version", j)
  BY <1>2, <1>4 DEF EditFits, ApprovalFits, Working, Editing, Approving, Informed, Compared,
     Excepted
<1>6. crashes' \in Nat /\ "version" \in Step /\ job' = [job EXCEPT ![h] = j]
  BY <1>1 DEF IInv, Typed, Step
<1>7. QED
  BY <1>1, <1>4, <1>5, <1>6, QuietStep

\* A promotion freezes the content it read; an edit keeps what it is to write over.
LEMMA AppendVersionStep ==
    ASSUME IInv, NEW h \in Handler, AppendFrozen(h) \/ AppendPrior(h)
    PROVE  IInv'
<1> PICK j : j = job[h]
  OBVIOUS
<1> PICK n : n = Len(versions)
  OBVIOUS
<1> PICK v : v = [requirement |-> j.requirement, content |-> j.prior]
  OBVIOUS
<1>1. /\ pc[h] \in {"version", "append"} /\ versions' = Append(versions, v) /\ content' = content
      /\ UNCHANGED room /\ job' = job /\ crashes' = crashes /\ baselines' = baselines
  BY DEF AppendFrozen, AppendPrior, AppendVersion, At, counts, room
<1>2. PICK s \in {"mark", "update"} :
          /\ pc' = [pc EXCEPT ![h] = s]
          /\ s = "mark" <=> pc[h] = "version"
  BY <1>1 DEF AppendFrozen, AppendPrior, At
<1> DEFINE Version == [requirement: DOMAIN content, content: 1..MaxContent]
<1>3. /\ j \in Job /\ EditFits(pc[h], j) /\ ApprovalFits(pc[h], j)
      /\ v \in Version
  BY <1>1, HandlerTyped DEF EditFits, Working, Editing
<1>4. /\ versions' \in Seq(Version) /\ Len(versions') = n + 1 /\ versions'[n + 1] = v
      /\ \A i \in 1..n : versions'[i] = versions[i]
      /\ n \in Nat /\ DOMAIN versions = 1..n /\ DOMAIN versions' = 1..(n + 1)
  <2>1. versions \in Seq(Version) /\ n \in Nat /\ DOMAIN versions = 1..n
    BY Lengths DEF IInv, Typed
  <2> HIDE DEF Version
  <2>2. /\ versions' \in Seq(Version) /\ Len(versions') = n + 1 /\ versions'[n + 1] = v
        /\ \A i \in 1..n : versions'[i] = versions[i]
    BY <1>1, <1>3, <2>1, AppendProperties
  <2>3. DOMAIN versions' = 1..(n + 1)
    BY <2>2, LenProperties
  <2>4. QED
    BY <2>1, <2>2, <2>3
<1>5. RegisterGrows /\ BaselinesGrow
  BY <1>1, <1>4 DEF RegisterGrows, BaselinesGrow
<1>6. EditFits(s, j)' /\ ApprovalFits(s, j)'
  <2>1. CASE s = "mark"
    <3>1. n + 1 \in VersionsOf(j.requirement)'
      BY <1>4 DEF VersionsOf
    <3>2. EditFits(pc[h], j) /\ Member \subseteq Member'
      BY <1>3, <1>5 DEF Member, RegisterGrows
    <3>3. QED
      BY <1>1, <1>2, <1>3, <2>1, <3>1, <3>2 DEF EditFits, ApprovalFits, Working, Editing,
         Approving, Informed, Compared, Excepted
  <2>2. CASE s = "update"
    <3>1. EditFits("update", j) /\ ApprovalFits("update", j)
      BY <1>1, <1>2, <1>3, <2>2 DEF EditFits, ApprovalFits, Working, Editing,
         Approving, Informed, Compared, Excepted
    <3>2. QED
      BY <1>3, <1>5, <2>2, <3>1, FitsStay DEF IInv
  <2>3. QED
    BY <2>1, <2>2
<1>7. /\ crashes' \in Nat /\ s \in Step /\ job' = [job EXCEPT ![h] = j]
      /\ content' \in Seq(1..MaxContent)
      /\ versions' \in Seq([requirement: DOMAIN content', content: 1..MaxContent])
  BY <1>1, <1>4 DEF IInv, Typed, Step
<1>8. QED
  BY <1>1, <1>2, <1>3, <1>5, <1>6, <1>7, RegisterStep

\* The candidate points at a requirement of which a version was appended.
LEMMA MarkPromotedStep ==
    ASSUME IInv, NEW h \in Handler, MarkPromoted(h)
    PROVE  IInv'
<1> PICK j : j = job[h]
  OBVIOUS
<1>1. /\ pc[h] = "mark" /\ pc' = [pc EXCEPT ![h] = "idle"] /\ job' = [job EXCEPT ![h] = NoJob]
      /\ promotedTo' = [c \in Candidate |-> IF c \in j.candidate THEN j.requirement ELSE promotedTo[c]]
      /\ content' = content /\ versions' = versions /\ ready' = ready
      /\ baselines' = baselines /\ waivers' = waivers /\ crashes' = crashes
  BY DEF MarkPromoted, End, register, counts
<1>2. j.requirement \in DOMAIN content /\ VersionsOf(j.requirement) # {}
  BY <1>1, HandlerTyped DEF EditFits, Working
<1>3. RegisterGrows /\ BaselinesGrow
  BY <1>1 DEF RegisterGrows, BaselinesGrow
<1>4. EditFits("idle", NoJob)' /\ ApprovalFits("idle", NoJob)'
  BY <1>3, NothingKnown, FitsStay DEF IInv
<1>5. /\ pc' \in [Handler -> Step] /\ job' \in [Handler -> Job]
      /\ OthersAlone(h) /\ HandlersFit'
  BY <1>1, <1>3, <1>4, NothingKnown, HandlersMove
<1>6. Typed'
  BY <1>1, <1>2, <1>5 DEF IInv, Typed, Count
<1>7. RowsFit' /\ WaiversFit'
  BY <1>1 DEF IInv, RowsFit, WaiversFit, Member, Freezes
<1>8. PromotedHasAVersion'
  BY <1>1, <1>2 DEF IInv, PromotedHasAVersion, VersionsOf
<1>9. WaiversAreComplete' /\ OverlapsAreReplacements'
  <2>1. \A n : Finishing(n) => Finishing(n)'
    BY <1>1, <1>5, FinishingStays
  <2>2. WaiversAreComplete'
    BY <1>1, <2>1 DEF IInv, WaiversAreComplete
  <2>3. OverlapsAreReplacements'
    BY <1>1, <2>1 DEF IInv, OverlapsAreReplacements, Overlapping, Freezes, Current
  <2>4. QED
    BY <2>2, <2>3
<1>10. QED
  BY <1>5, <1>6, <1>7, <1>8, <1>9 DEF IInv

\* Criteria are stated or withdrawn at any time; what was judged stands.
LEMMA SetCriteriaStep ==
    ASSUME IInv, NEW c \in Candidate, SetCriteria(c)
    PROVE  IInv'
<1>1. /\ ready' = [ready EXCEPT ![c] = ~@] /\ pc' = pc /\ job' = job /\ crashes' = crashes
      /\ content' = content /\ versions' = versions /\ promotedTo' = promotedTo
      /\ baselines' = baselines /\ waivers' = waivers
  BY DEF SetCriteria, register
<1>2. Typed'
  BY <1>1 DEF IInv, Typed, Count
<1>3. RowsFit' /\ WaiversFit'
  BY <1>1 DEF IInv, RowsFit, WaiversFit, Member, Freezes
<1>4. HandlersFit'
  <2>1. RegisterGrows /\ BaselinesGrow
    BY <1>1 DEF RegisterGrows, BaselinesGrow
  <2>2. QED
    BY <1>1, <2>1, HandlersStay
<1>5. PromotedHasAVersion'
  BY <1>1 DEF IInv, PromotedHasAVersion, VersionsOf
<1>6. WaiversAreComplete' /\ OverlapsAreReplacements'
  BY <1>1 DEF IInv, WaiversAreComplete, OverlapsAreReplacements, Finishing, Overlapping, Freezes,
     Current
<1>7. QED
  BY <1>2, <1>3, <1>4, <1>5, <1>6 DEF IInv
----------------------------------------------------------------------------
\* An edit

\* An edit begins with the content it read and the baselines in force.
LEMMA BeginEditStep ==
    ASSUME IInv, NEW h \in Handler, BeginEdit(h)
    PROVE  IInv'
<1>1. /\ pc[h] = "idle" /\ pc' = [pc EXCEPT ![h] = "known"]
      /\ UNCHANGED <<register, room>> /\ crashes' = crashes
  BY DEF BeginEdit, At
<1>2. PICK r \in DOMAIN content, new \in 1..MaxContent :
          job' = [job EXCEPT ![h] = [NoJob EXCEPT !.requirement = r, !.content = new,
                                                  !.prior = content[r], !.before = Current]]
  BY DEF BeginEdit, Learn
<1> PICK x, B : x = content[r] /\ B = Current
  OBVIOUS
<1> PICK j : j = [NoJob EXCEPT !.requirement = r, !.content = new, !.prior = x, !.before = B]
  OBVIOUS
<1>3. /\ x \in 1..MaxContent /\ x \in Nat /\ new \in Nat /\ r \in Nat
      /\ B \subseteq DOMAIN baselines /\ B \subseteq Nat
  BY Lengths, BoundsAssumption DEF IInv, Current
<1>4. /\ j \in Job /\ j.requirement = r /\ j.content = new /\ j.prior = x /\ j.before = B
      /\ j.members = {}
  <2>1. NoJob \in Job /\ NoJob.members = {}
    BY NothingKnown DEF NoJob
  <2>2. QED
    BY <1>3, <2>1 DEF Job
<1>5. EditFits("known", j) /\ ApprovalFits("known", j)
  BY <1>2, <1>3, <1>4 DEF EditFits, ApprovalFits, Working, Editing, Approving, Informed,
     Compared, Excepted
<1>6. crashes' \in Nat /\ "known" \in Step /\ job' = [job EXCEPT ![h] = j]
  BY <1>1, <1>2 DEF IInv, Typed, Step
<1>7. QED
  BY <1>1, <1>4, <1>5, <1>6, QuietStep

\* The versions an edit has listed are all that a baseline before it can freeze.
LEMMA ListVersionsStep ==
    ASSUME IInv, NEW h \in Handler, ListVersions(h)
    PROVE  IInv'
<1>1. /\ pc[h] = "known" /\ pc' = [pc EXCEPT ![h] = "veto"]
      /\ UNCHANGED <<register, room>> /\ crashes' = crashes
      /\ job' = [job EXCEPT ![h] = [job[h] EXCEPT !.known = VersionsOf(job[h].requirement)]]
  BY DEF ListVersions, At, Learn, counts
<1> PICK k : k = job[h]
  OBVIOUS
<1> PICK K : K = VersionsOf(k.requirement)
  OBVIOUS
<1> PICK j : j = [k EXCEPT !.known = K]
  OBVIOUS
<1>2. k \in Job /\ EditFits("known", k) /\ ApprovalFits("known", k) /\ K \subseteq Nat
  BY <1>1, HandlerTyped, Lengths DEF IInv, VersionsOf
<1>3. /\ j \in Job /\ j.requirement = k.requirement /\ j.content = k.content /\ j.prior = k.prior
      /\ j.before = k.before /\ j.members = k.members /\ j.known = K
  BY <1>2 DEF Job
<1>4. EditFits("veto", j)
  BY <1>2, <1>3 DEF EditFits, Working, Editing
<1>5. ApprovalFits("veto", j)
  BY <1>2, <1>3 DEF ApprovalFits, Approving, Informed, Compared, Excepted
<1>6. crashes' \in Nat /\ "veto" \in Step /\ job' = [job EXCEPT ![h] = j]
  BY <1>1 DEF IInv, Typed, Step
<1>7. QED
  BY <1>1, <1>3, <1>4, <1>5, <1>6, QuietStep

\* Past the veto, no baseline the edit began under and still current freezes its
\* requirement.
LEMMA AssertEditableStep ==
    ASSUME IInv, NEW h \in Handler, AssertEditable(h)
    PROVE  IInv'
<1>1. /\ pc[h] = "veto" /\ UNCHANGED <<register, room>> /\ crashes' = crashes
  BY DEF AssertEditable, counts
<1>2. CASE Frozen(h)
  <2>1. End(h) /\ crashes' \in Nat
    BY <1>1, <1>2 DEF AssertEditable, IInv, Typed
  <2>2. QED
    BY <1>1, <2>1, EndStep
<1>3. CASE ~Frozen(h)
  <2>1. pc' = [pc EXCEPT ![h] = "append"] /\ job' = job
    BY <1>3 DEF AssertEditable, At
  <2> PICK j : j = job[h]
    OBVIOUS
  <2>2. EditFits("veto", j) /\ ApprovalFits("veto", j)
    BY <1>1, HandlerTyped
  <2>3. ASSUME NEW n \in j.before \cap Current PROVE ~Freezes(n, VersionsOf(j.requirement))
    <3>1. Ids(baselines[n].members) \cap VersionsOf(j.requirement) \subseteq j.known
      BY <2>2 DEF EditFits
    <3>2. Ids(baselines[n].members) \cap j.known = {}
      BY <1>3 DEF Frozen, Freezes
    <3>3. QED
      BY <3>1, <3>2 DEF Freezes
  <2>4. EditFits("append", j) /\ ApprovalFits("append", j)
    <3>1. EditFits("append", j)
      BY <2>2, <2>3 DEF EditFits, Working, Editing
    <3>2. ApprovalFits("append", j)
      BY <2>2 DEF ApprovalFits, Approving, Informed, Compared, Excepted
    <3>3. QED
      BY <3>1, <3>2
  <2>5. "append" \in Step
    BY DEF Step
  <2>6. QED
    BY <1>1, <2>1, <2>4, <2>5, GoOnStep
<1>4. QED
  BY <1>2, <1>3

\* The record moves; versions and the room stay.
LEMMA UpdateStep ==
    ASSUME IInv, NEW h \in Handler, Update(h)
    PROVE  IInv'
<1> PICK j : j = job[h]
  OBVIOUS
<1>1. /\ pc[h] = "update" /\ pc' = [pc EXCEPT ![h] = "idle"] /\ job' = [job EXCEPT ![h] = NoJob]
      /\ content' = [content EXCEPT ![j.requirement] = j.content] /\ versions' = versions
      /\ UNCHANGED room /\ baselines' = baselines /\ crashes' = crashes
  BY DEF Update, End, room, counts
<1>2. j.requirement \in DOMAIN content /\ j.content \in 1..MaxContent
  BY <1>1, HandlerTyped DEF EditFits, Working, Editing
<1>3. content' \in Seq(1..MaxContent) /\ DOMAIN content' = DOMAIN content
  <2> PICK n : n = Len(content)
    OBVIOUS
  <2>1. n \in Nat /\ DOMAIN content = 1..n /\ content \in [1..n -> 1..MaxContent]
    BY Lengths DEF IInv
  <2>2. content' \in [1..n -> 1..MaxContent] /\ DOMAIN content' = 1..n
    BY <1>1, <1>2, <2>1
  <2>3. content' \in Seq(1..MaxContent)
    BY <2>1, <2>2, SeqDef
  <2>4. QED
    BY <2>1, <2>2, <2>3
<1>4. RegisterGrows /\ BaselinesGrow
  BY <1>1, <1>3 DEF RegisterGrows, BaselinesGrow
<1>5. EditFits("idle", NoJob)' /\ ApprovalFits("idle", NoJob)'
  BY <1>4, NothingKnown, FitsStay DEF IInv
<1>6. crashes' \in Nat /\ versions' \in Seq([requirement: DOMAIN content', content: 1..MaxContent])
  BY <1>1, <1>3 DEF IInv, Typed
<1>7. QED
  BY <1>1, <1>3, <1>4, <1>5, <1>6, NothingKnown, RegisterStep
----------------------------------------------------------------------------
\* An approval

\* An approval is asked for with what the screen offers.
LEMMA BeginApprovalStep ==
    ASSUME IInv, NEW h \in Handler, BeginApproval(h)
    PROVE  IInv'
<1>1. /\ pc[h] = "idle" /\ pc' = [pc EXCEPT ![h] = "list"]
      /\ UNCHANGED <<register, room>> /\ crashes' = crashes
  BY DEF BeginApproval, At
<1>2. PICK M \in (SUBSET BaselineMembers) \ {{}}, t \in {0} \cup DOMAIN baselines :
          \E W \in SUBSET Ids(M) :
              job' = [job EXCEPT ![h] = [NoJob EXCEPT !.members = M, !.supersedes = t, !.waived = W]]
  BY DEF BeginApproval, Learn
<1>3. PICK W \in SUBSET Ids(M) :
          job' = [job EXCEPT ![h] = [NoJob EXCEPT !.members = M, !.supersedes = t, !.waived = W]]
  BY <1>2
<1> PICK j : j = [NoJob EXCEPT !.members = M, !.supersedes = t, !.waived = W]
  OBVIOUS
<1>4. M \subseteq Member /\ M # {} /\ M \subseteq AnyMember /\ t \in Nat
  <2>1. M \subseteq Member /\ M # {}
    BY OfferedAreMembers DEF IInv
  <2>2. DOMAIN versions \subseteq Nat /\ DOMAIN baselines \subseteq Nat
    BY Lengths DEF IInv
  <2>3. Member \subseteq AnyMember
    BY <2>2 DEF Member, AnyMember
  <2>4. QED
    BY <2>1, <2>2, <2>3
<1>5. W \subseteq Nat
  BY <1>4 DEF Ids, AnyMember
<1>6. /\ j \in Job /\ j.requirement = 0 /\ j.members = M /\ j.supersedes = t /\ j.waived = W
  <2>1. NoJob \in Job /\ NoJob.requirement = 0
    BY NothingKnown DEF NoJob
  <2>2. QED
    BY <1>4, <1>5, <2>1 DEF Job
<1>7. EditFits("list", j) /\ ApprovalFits("list", j)
  BY <1>2, <1>3, <1>4, <1>6 DEF EditFits, ApprovalFits, Working, Editing, Approving, Informed,
     Compared, Excepted
<1>8. crashes' \in Nat /\ "list" \in Step /\ job' = [job EXCEPT ![h] = j]
  BY <1>1, <1>3 DEF IInv, Typed, Step
<1>9. QED
  BY <1>1, <1>6, <1>7, <1>8, QuietStep

\* What is listed are baselines that are there.
LEMMA ListBaselinesStep ==
    ASSUME IInv, NEW h \in Handler, ListBaselines(h)
    PROVE  IInv'
<1> PICK k, C : k = job[h] /\ C = Current
  OBVIOUS
<1> PICK j : j = [k EXCEPT !.current = C]
  OBVIOUS
<1>1. /\ pc[h] = "list" /\ pc' = [pc EXCEPT ![h] = "target"] /\ job' = [job EXCEPT ![h] = j]
      /\ UNCHANGED <<register, room>> /\ crashes' = crashes
  BY DEF ListBaselines, At, Learn, counts
<1>2. k \in Job /\ EditFits("list", k) /\ ApprovalFits("list", k)
  BY <1>1, HandlerTyped
<1>3. C \subseteq DOMAIN baselines /\ C \subseteq Nat
  BY Lengths DEF IInv, Current
<1>4. /\ j \in Job /\ j.requirement = k.requirement /\ j.members = k.members
      /\ j.supersedes = k.supersedes /\ j.waived = k.waived /\ j.current = C
  BY <1>2, <1>3 DEF Job
<1>5. EditFits("target", j) /\ ApprovalFits("target", j)
  BY <1>2, <1>3, <1>4 DEF EditFits, ApprovalFits, Working, Editing, Approving, Informed,
     Compared, Excepted
<1>6. crashes' \in Nat /\ "target" \in Step
  BY <1>1 DEF IInv, Typed, Step
<1>7. QED
  BY <1>1, <1>4, <1>5, <1>6, QuietStep

\* Past the comparison, only the baseline to be replaced freezes a member.
LEMMA CheckTargetStep ==
    ASSUME IInv, NEW h \in Handler, CheckTarget(h)
    PROVE  IInv'
<1>1. /\ pc[h] = "target" /\ UNCHANGED <<register, room>> /\ crashes' = crashes /\ crashes \in Nat
  BY DEF CheckTarget, counts, IInv, Typed
<1>2. CASE End(h)
  BY <1>1, <1>2, EndStep
<1>3. CASE ~End(h)
  <2> PICK j : j = job[h]
    OBVIOUS
  <2>1. pc' = [pc EXCEPT ![h] = "criteria"] /\ job' = job /\ ~Collision(h)
    BY <1>3 DEF CheckTarget, At
  <2>2. EditFits("target", j) /\ ApprovalFits("target", j)
    BY <1>1, HandlerTyped
  <2>3. \A n \in j.current \ {j.supersedes} : ~Freezes(n, Ids(j.members))
    BY <2>1 DEF Collision
  <2>4. EditFits("criteria", j) /\ ApprovalFits("criteria", j)
    BY <2>2, <2>3 DEF EditFits, ApprovalFits, Working, Editing, Approving, Informed,
       Compared, Excepted
  <2>5. "criteria" \in Step
    BY DEF Step
  <2>6. QED
    BY <1>1, <2>1, <2>4, <2>5, GoOnStep
<1>4. QED
  BY <1>2, <1>3

\* Past the criteria, what states none is waived.
LEMMA CheckCriteriaStep ==
    ASSUME IInv, NEW h \in Handler, CheckCriteria(h)
    PROVE  IInv'
<1>1. /\ pc[h] = "criteria" /\ UNCHANGED <<register, room>> /\ crashes' = crashes /\ crashes \in Nat
  BY DEF CheckCriteria, counts, IInv, Typed
<1>2. CASE End(h)
  BY <1>1, <1>2, EndStep
<1>3. CASE ~End(h)
  <2> PICK k, U : k = job[h] /\ U = Unstated(h)
    OBVIOUS
  <2> PICK j : j = [k EXCEPT !.unstated = U]
    OBVIOUS
  <2>1. /\ pc' = [pc EXCEPT ![h] = "contract"] /\ job' = [job EXCEPT ![h] = j]
        /\ U \subseteq k.waived
    BY <1>3 DEF CheckCriteria, At, Learn
  <2>2. k \in Job /\ EditFits("criteria", k) /\ ApprovalFits("criteria", k)
    BY <1>1, HandlerTyped
  <2>3. U \subseteq Nat
    BY <2>1, <2>2 DEF Job
  <2>4. /\ j \in Job /\ j.requirement = k.requirement /\ j.members = k.members
        /\ j.supersedes = k.supersedes /\ j.waived = k.waived /\ j.current = k.current
        /\ j.unstated = U
    BY <2>2, <2>3 DEF Job
  <2>5. EditFits("contract", j) /\ ApprovalFits("contract", j)
    BY <2>1, <2>2, <2>4 DEF EditFits, ApprovalFits, Working, Editing, Approving, Informed,
       Compared, Excepted
  <2>6. "contract" \in Step
    BY DEF Step
  <2>7. QED
    BY <1>1, <2>1, <2>4, <2>5, <2>6, QuietStep
<1>4. QED
  BY <1>2, <1>3

\* The evidence contract lets the approval go on or ends it.
LEMMA CheckContractStep ==
    ASSUME IInv, NEW h \in Handler, CheckContract(h)
    PROVE  IInv'
<1>1. /\ pc[h] = "contract" /\ UNCHANGED <<register, room>> /\ crashes' = crashes /\ crashes \in Nat
  BY DEF CheckContract, counts, IInv, Typed
<1>2. CASE End(h)
  BY <1>1, <1>2, EndStep
<1>3. CASE ~End(h)
  <2> PICK j : j = job[h]
    OBVIOUS
  <2>1. pc' = [pc EXCEPT ![h] = "number"] /\ job' = job
    BY <1>3 DEF CheckContract, At
  <2>2. EditFits("contract", j) /\ ApprovalFits("contract", j)
    BY <1>1, HandlerTyped
  <2>3. EditFits("number", j) /\ ApprovalFits("number", j)
    BY <2>2 DEF EditFits, ApprovalFits, Working, Editing, Approving, Informed,
       Compared, Excepted
  <2>4. "number" \in Step
    BY DEF Step
  <2>5. QED
    BY <1>1, <2>1, <2>3, <2>4, GoOnStep
<1>4. QED
  BY <1>2, <1>3

\* The number is above all that the approval saw.
LEMMA NextBaselineVersionStep ==
    ASSUME IInv, NEW h \in Handler, NextBaselineVersion(h)
    PROVE  IInv'
<1> PICK k, n : k = job[h] /\ n = Count
  OBVIOUS
<1> PICK j : j = [k EXCEPT !.number = n + 1]
  OBVIOUS
<1>1. /\ pc[h] = "number" /\ pc' = [pc EXCEPT ![h] = "create"]
      /\ UNCHANGED <<register, room>> /\ crashes' = crashes
      /\ job' = [job EXCEPT ![h] = [k EXCEPT !.number = NextNumber]]
  BY DEF NextBaselineVersion, At, Learn, counts
<1>2. NextNumber = n + 1 /\ n \in Nat /\ DOMAIN baselines = 1..n
  BY NextIsFree, Lengths DEF IInv
<1>3. k \in Job /\ EditFits("number", k) /\ ApprovalFits("number", k)
  BY <1>1, HandlerTyped
<1>4. /\ j \in Job /\ j.requirement = k.requirement /\ j.members = k.members
      /\ j.supersedes = k.supersedes /\ j.waived = k.waived /\ j.current = k.current
      /\ j.unstated = k.unstated /\ j.number = n + 1
  BY <1>2, <1>3 DEF Job
<1>5. EditFits("create", j)
  BY <1>3, <1>4 DEF EditFits, Working, Editing
<1>6. ApprovalFits("create", j)
  <2>1. j.number # 0 /\ j.supersedes < j.number /\ j.current \subseteq 1..(j.number - 1)
        /\ 1..(j.number - 1) \subseteq DOMAIN baselines
    <3>1. k.supersedes \in 0..n /\ k.current \subseteq 1..n
      BY <1>2, <1>3 DEF ApprovalFits, Approving, Informed, Compared, Excepted
    <3>2. j.number - 1 = n
      BY <1>2, <1>4
    <3>3. QED
      BY <1>2, <1>4, <3>1, <3>2
  <2>2. QED
    BY <1>3, <1>4, <2>1 DEF ApprovalFits, Approving, Informed, Compared, Excepted
<1>7. crashes' \in Nat /\ "create" \in Step /\ job' = [job EXCEPT ![h] = j]
  BY <1>1, <1>2 DEF IInv, Typed, Step
<1>8. QED
  BY <1>1, <1>4, <1>5, <1>6, <1>7, QuietStep

\* The row is inserted under the next number, or the request fails.
LEMMA CreateBaselineStep ==
    ASSUME IInv, NEW h \in Handler, CreateBaseline(h)
    PROVE  IInv'
<1> PICK j, n : j = job[h] /\ n = job[h].number
  OBVIOUS
<1>1. /\ pc[h] = "create" /\ content' = content /\ versions' = versions
      /\ promotedTo' = promotedTo /\ ready' = ready /\ waivers' = waivers /\ crashes' = crashes
  BY DEF CreateBaseline, register, counts
<1>2. j \in Job /\ n = j.number /\ EditFits("create", j) /\ ApprovalFits("create", j)
  BY <1>1, HandlerTyped
<1>3. CASE n \in DOMAIN baselines
  <2>1. End(h) /\ UNCHANGED <<register, room>> /\ crashes' \in Nat
    BY <1>1, <1>3 DEF CreateBaseline, IInv, Typed, register, room
  <2>2. QED
    BY <1>1, <2>1, EndStep
<1>4. CASE n \notin DOMAIN baselines
  <2> PICK m : m = Count
    OBVIOUS
  <2> PICK row : row = [members |-> j.members, supersededBy |-> 0,
                        listed |-> j.current, unstated |-> j.unstated]
    OBVIOUS
  <2>1. /\ pc' = [pc EXCEPT ![h] = "waive"] /\ job' = [job EXCEPT ![h] = j]
        /\ baselines' = [i \in DOMAIN baselines \cup {n} |-> IF i = n THEN row ELSE baselines[i]]
    BY <1>4 DEF CreateBaseline, At, Baseline, IInv, Typed
  <2>2. m \in Nat /\ DOMAIN baselines = 1..m /\ n = m + 1
    <3>1. m \in Nat /\ DOMAIN baselines = 1..m
      BY Lengths DEF IInv
    <3>2. n \in Nat /\ n # 0 /\ 1..(n - 1) \subseteq 1..m
      BY <1>2, <3>1 DEF ApprovalFits, Job
    <3>3. n > m
      BY <1>4, <3>1, <3>2
    <3>4. n - 1 <= m
      <4>1. CASE n = 1
        BY <3>1, <4>1
      <4>2. CASE n # 1
        <5>1. n - 1 \in 1..(n - 1)
          BY <3>2, <4>2
        <5>2. QED
          BY <3>1, <3>2, <5>1
      <4>3. QED
        BY <4>1, <4>2
    <3>5. QED
      BY <3>1, <3>2, <3>3, <3>4
  <2>3. DOMAIN baselines' = 1..n /\ Count' = n /\ n \in Nat
    <3>1. DOMAIN baselines' = 1..n
      BY <2>1, <2>2
    <3>2. Cardinality(1..n) = n
      BY <2>2, FS_Interval
    <3>3. QED
      BY <2>2, <3>1, <3>2 DEF Count
  <2>4. /\ baselines'[n] = row /\ \A i \in DOMAIN baselines : baselines'[i] = baselines[i]
    BY <1>4, <2>1
  <2>5. RegisterGrows /\ BaselinesGrow
    BY <1>1, <2>2, <2>3, <2>4 DEF RegisterGrows, BaselinesGrow
  <2>6. Member' = Member
    BY <1>1 DEF Member
  <2>7. EditFits("waive", j)' /\ ApprovalFits("waive", j)'
    <3>1. EditFits("create", j)' /\ ApprovalFits("create", j)'
      BY <1>2, <2>5, FitsStay DEF IInv
    <3>2. EditFits("waive", j)'
      BY <3>1 DEF EditFits, Working, Editing
    <3>3. n \in DOMAIN baselines' /\ n \in 1..n
      BY <2>2, <2>3
    <3>4. ApprovalFits("waive", j)'
      BY <1>2, <2>4, <3>1, <3>3 DEF ApprovalFits, Approving, Informed, Compared, Excepted
    <3>5. QED
      BY <3>2, <3>4
  <2>8. /\ pc' \in [Handler -> Step] /\ job' \in [Handler -> Job]
        /\ pc'[h] = "waive" /\ job'[h] = j /\ OthersAlone(h) /\ HandlersFit'
    BY <1>2, <2>1, <2>5, <2>7, HandlersMove DEF Step
  <2>9. Typed'
    <3>1. row \in Row
      BY <1>2 DEF Row, Job
    <3>2. baselines' \in [1..n -> Row]
      <4>1. \A i \in 1..m : baselines[i] \in Row
        BY DEF IInv, Typed
      <4>2. DOMAIN baselines \cup {n} = 1..n
        BY <2>2
      <4>3. QED
        BY <2>1, <2>2, <3>1, <4>1, <4>2
    <3>3. QED
      BY <1>1, <2>3, <2>8, <3>2 DEF IInv, Typed
  <2>10. RowsFit'
    <3>1. SUFFICES ASSUME NEW i \in DOMAIN baselines'
                   PROVE  /\ baselines'[i].members \in (SUBSET Member) \ {{}}
                          /\ baselines'[i].unstated \subseteq Ids(baselines'[i].members)
                          /\ baselines'[i].listed \subseteq 1..(i - 1)
                          /\ baselines'[i].supersededBy # 0 =>
                                 /\ baselines'[i].supersededBy \in DOMAIN baselines'
                                 /\ i < baselines'[i].supersededBy
      BY <2>6 DEF RowsFit, Ids
    <3>2. CASE i = n
      <4>1. j.members \in (SUBSET Member) \ {{}} /\ j.unstated \subseteq Ids(j.members)
            /\ j.current \subseteq 1..(n - 1)
        BY <1>2 DEF ApprovalFits, Approving, Informed, Compared, Excepted
      <4>2. QED
        BY <2>4, <3>2, <4>1
    <3>3. CASE i # n
      <4>1. i \in DOMAIN baselines /\ DOMAIN baselines \subseteq DOMAIN baselines'
        BY <2>1, <3>3
      <4>2. QED
        BY <2>4, <4>1 DEF IInv, RowsFit
    <3>4. QED
      BY <3>2, <3>3
  <2>11. WaiversFit' /\ PromotedHasAVersion'
    <3>1. DOMAIN baselines \subseteq DOMAIN baselines'
      BY <2>1
    <3>2. WaiversFit'
      BY <1>1, <2>4, <3>1 DEF IInv, WaiversFit, Freezes, Ids
    <3>3. PromotedHasAVersion'
      BY <1>1 DEF IInv, PromotedHasAVersion, VersionsOf
    <3>4. QED
      BY <3>2, <3>3
  <2>12. Finishing(n)' /\ \A i : Finishing(i) => Finishing(i)'
    <3>1. \A i : Finishing(i) => Finishing(i)'
      BY <1>1, <2>8, FinishingStays
    <3>2. Finishing(n)'
      BY <1>2, <2>8 DEF Finishing
    <3>3. QED
      BY <3>1, <3>2
  <2>13. WaiversAreComplete' /\ OverlapsAreReplacements'
    <3>1. \A i \in DOMAIN baselines' : i = n \/ i \in DOMAIN baselines
      BY <2>1
    <3>2. WaiversAreComplete'
      BY <1>1, <2>4, <2>12, <3>1 DEF IInv, WaiversAreComplete
    <3>3. ASSUME NEW i \in DOMAIN baselines', NEW k \in baselines'[i].listed, Overlapping(k, i)'
          PROVE  (k \notin Current \/ Finishing(i) \/ crashes > 0)'
      <4>1. CASE i = n
        BY <2>12, <4>1
      <4>2. CASE i # n
        <5>1. i \in DOMAIN baselines /\ k \in baselines[i].listed /\ k \in DOMAIN baselines
          <6>1. i \in 1..m /\ k \in baselines[i].listed /\ baselines[i].listed \subseteq 1..(i - 1)
            BY <2>2, <2>4, <3>1, <3>3, <4>2 DEF IInv, RowsFit
          <6>2. QED
            BY <2>2, <6>1
        <5>2. Overlapping(k, i)
          BY <2>4, <3>3, <5>1 DEF Overlapping, Freezes, Ids
        <5>3. k \notin Current \/ Finishing(i) \/ crashes > 0
          BY <5>1, <5>2 DEF IInv, OverlapsAreReplacements
        <5>4. k \notin Current => k \notin Current'
          BY <2>4, <5>1 DEF Current
        <5>5. QED
          BY <1>1, <2>12, <5>3, <5>4
      <4>3. QED
        BY <4>1, <4>2
    <3>4. OverlapsAreReplacements'
      BY <3>3 DEF OverlapsAreReplacements
    <3>5. QED
      BY <3>2, <3>4
  <2>14. QED
    BY <2>8, <2>9, <2>10, <2>11, <2>13 DEF IInv
<1>5. QED
  BY <1>3, <1>4

\* A waiver is recorded for a version the baseline freezes.
LEMMA CreateExceptionStep ==
    ASSUME IInv, NEW h \in Handler, CreateException(h)
    PROVE  IInv'
<1> PICK j : j = job[h]
  OBVIOUS
<1>1. /\ pc[h] = "waive" /\ content' = content /\ versions' = versions /\ crashes' = crashes
      /\ promotedTo' = promotedTo /\ ready' = ready /\ baselines' = baselines
      /\ pc' = pc /\ job' = job
  BY DEF CreateException, register, counts
<1>2. PICK v \in j.waived : waivers' = waivers \cup {<<j.number, v>>}
  BY DEF CreateException, Owed
<1>3. ApprovalFits("waive", j)
  BY <1>1, HandlerTyped
<1>4. Typed'
  BY <1>1 DEF IInv, Typed, Count
<1>5. RowsFit' /\ HandlersFit'
  <2>1. RegisterGrows /\ BaselinesGrow
    BY <1>1 DEF RegisterGrows, BaselinesGrow
  <2>2. QED
    BY <1>1, <2>1, HandlersStay DEF IInv, RowsFit, Member
<1>6. WaiversFit'
  <2>1. j.number \in DOMAIN baselines /\ baselines[j.number].members = j.members
        /\ v \in Ids(j.members) /\ j.members \subseteq Member
    BY <1>3 DEF ApprovalFits, Approving, Informed, Compared, Excepted
  <2>2. v \in DOMAIN versions /\ Freezes(j.number, {v})
    BY <2>1 DEF Ids, Member, Freezes
  <2>3. QED
    BY <1>1, <1>2, <2>1, <2>2 DEF IInv, WaiversFit, Freezes
<1>7. PromotedHasAVersion'
  BY <1>1 DEF IInv, PromotedHasAVersion, VersionsOf
<1>8. WaiversAreComplete' /\ OverlapsAreReplacements'
  BY <1>1, <1>2 DEF IInv, WaiversAreComplete, OverlapsAreReplacements, Finishing, Overlapping,
     Freezes, Current
<1>9. QED
  BY <1>4, <1>5, <1>6, <1>7, <1>8 DEF IInv

\* The approval ends: its waivers are recorded, and what it replaces is marked.
LEMMA SupersedeStep ==
    ASSUME IInv, NEW h \in Handler, Supersede(h)
    PROVE  IInv'
<1> PICK j, n, t : j = job[h] /\ n = job[h].number /\ t = job[h].supersedes
  OBVIOUS
<1>1. /\ pc[h] = "waive" /\ Owed(h) = {}
      /\ pc' = [pc EXCEPT ![h] = "idle"] /\ job' = [job EXCEPT ![h] = NoJob]
      /\ content' = content /\ versions' = versions /\ promotedTo' = promotedTo
      /\ ready' = ready /\ waivers' = waivers /\ crashes' = crashes
      /\ baselines' = IF t = 0 THEN baselines ELSE [baselines EXCEPT ![t].supersededBy = n]
  BY DEF Supersede, End, Replaced, register, counts
<1>2. /\ j \in Job /\ n = j.number /\ t = j.supersedes
      /\ EditFits("waive", j) /\ ApprovalFits("waive", j)
  BY <1>1, HandlerTyped
<1>3. /\ n \in Nat /\ n # 0 /\ t < n /\ n \in DOMAIN baselines /\ t \in {0} \cup DOMAIN baselines
      /\ baselines[n].members = j.members /\ baselines[n].listed = j.current
      /\ baselines[n].unstated = j.unstated /\ j.unstated \subseteq j.waived
      /\ \A i \in j.current \ {t} : ~Freezes(i, Ids(j.members))
  BY <1>2 DEF ApprovalFits, Approving, Informed, Compared, Excepted, Job
<1>4. Count \in Nat /\ DOMAIN baselines = 1..Count /\ baselines \in [DOMAIN baselines -> Row]
  BY Lengths DEF IInv, Typed
<1>5. /\ baselines' \in [DOMAIN baselines -> Row]
      /\ \A i \in DOMAIN baselines :
             /\ baselines'[i].members = baselines[i].members
             /\ baselines'[i].listed = baselines[i].listed
             /\ baselines'[i].unstated = baselines[i].unstated
             /\ baselines'[i].supersededBy = IF i = t THEN n ELSE baselines[i].supersededBy
  <2>1. CASE t = 0
    BY <1>1, <1>4, <2>1
  <2>2. CASE t # 0
    <3>1. t \in DOMAIN baselines /\ baselines' = [baselines EXCEPT ![t].supersededBy = n]
      BY <1>1, <1>3, <2>2
    <3>2. \A i \in DOMAIN baselines : baselines[i] \in Row
      BY <1>4
    <3>3. \A i \in DOMAIN baselines : baselines'[i] =
              IF i = t THEN [baselines[i] EXCEPT !.supersededBy = n] ELSE baselines[i]
      BY <1>4, <3>1
    <3>4. \A i \in DOMAIN baselines : [baselines[i] EXCEPT !.supersededBy = n] \in Row
      BY <1>3, <3>2 DEF Row
    <3>5. baselines' \in [DOMAIN baselines -> Row]
      BY <1>4, <3>1, <3>4
    <3>6. QED
      BY <3>2, <3>3, <3>5 DEF Row
  <2>3. QED
    BY <2>1, <2>2
<1>6. DOMAIN baselines' = DOMAIN baselines /\ Count' = Count
  BY <1>5 DEF Count
<1>7. RegisterGrows /\ BaselinesGrow
  BY <1>1, <1>3, <1>5, <1>6 DEF RegisterGrows, BaselinesGrow
<1>8. EditFits("idle", NoJob)' /\ ApprovalFits("idle", NoJob)'
  BY <1>7, NothingKnown, FitsStay DEF IInv
<1>9. /\ pc' \in [Handler -> Step] /\ job' \in [Handler -> Job]
      /\ OthersAlone(h) /\ HandlersFit'
  BY <1>1, <1>7, <1>8, NothingKnown, HandlersMove
<1>10. Typed'
  BY <1>1, <1>4, <1>5, <1>6, <1>9 DEF IInv, Typed
<1>11. RowsFit'
  <2>1. SUFFICES ASSUME NEW i \in DOMAIN baselines
                 PROVE  /\ baselines'[i].members \in (SUBSET Member) \ {{}}
                        /\ baselines'[i].unstated \subseteq Ids(baselines'[i].members)
                        /\ baselines'[i].listed \subseteq 1..(i - 1)
                        /\ baselines'[i].supersededBy # 0 =>
                               /\ baselines'[i].supersededBy \in DOMAIN baselines
                               /\ i < baselines'[i].supersededBy
    BY <1>1, <1>6 DEF RowsFit, Member, Ids
  <2>2. QED
    BY <1>3, <1>5 DEF IInv, RowsFit
<1>12. WaiversFit' /\ PromotedHasAVersion'
  <2>1. WaiversFit'
    BY <1>1, <1>5, <1>6 DEF IInv, WaiversFit, Freezes, Ids
  <2>2. PromotedHasAVersion'
    BY <1>1 DEF IInv, PromotedHasAVersion, VersionsOf
  <2>3. QED
    BY <2>1, <2>2
<1>13. \A i : i # n /\ Finishing(i) => Finishing(i)'
  BY <1>9 DEF OthersAlone, Finishing
<1>14. WaiversAreComplete'
  <2>1. ASSUME NEW i \in DOMAIN baselines, NEW v \in baselines[i].unstated
        PROVE  <<i, v>> \in waivers \/ Finishing(i)' \/ crashes > 0
    <3>1. CASE i = n
      <4>1. v \in {w[2] : w \in {x \in waivers : x[1] = n}}
        BY <1>1, <1>3, <2>1, <3>1 DEF Owed
      <4>2. PICK w \in waivers : w[1] = n /\ w[2] = v
        BY <4>1
      <4>3. w = <<n, v>>
        <5>1. w \in (DOMAIN baselines) \X (DOMAIN versions)
          BY <4>2 DEF IInv, WaiversFit
        <5>2. PICK a \in DOMAIN baselines, b \in DOMAIN versions : w = <<a, b>>
          BY <5>1
        <5>3. QED
          BY <4>2, <5>2
      <4>4. QED
        BY <3>1, <4>2, <4>3
    <3>2. CASE i # n
      BY <1>13, <2>1, <3>2 DEF IInv, WaiversAreComplete
    <3>3. QED
      BY <3>1, <3>2
  <2>2. QED
    BY <1>1, <1>5, <1>6, <2>1 DEF WaiversAreComplete
<1>15. OverlapsAreReplacements'
  <2>1. ASSUME NEW i \in DOMAIN baselines, NEW k \in baselines[i].listed, Overlapping(k, i)'
        PROVE  (k \notin Current \/ Finishing(i) \/ crashes > 0)'
    <3>1. k \in DOMAIN baselines
      <4>1. baselines[i].listed \subseteq 1..(i - 1) /\ i \in 1..Count
        BY <1>4 DEF IInv, RowsFit
      <4>2. QED
        BY <1>4, <4>1
    <3>2. Overlapping(k, i)
      BY <1>5, <2>1, <3>1 DEF Overlapping, Freezes, Ids
    <3>3. CASE i = n
      <4>1. k = t
        BY <1>3, <3>2, <3>3 DEF Overlapping
      <4>2. baselines'[k].supersededBy # 0
        BY <1>3, <1>5, <3>1, <4>1
      <4>3. QED
        BY <4>2 DEF Current
    <3>4. CASE i # n
      <4>1. k \notin Current \/ Finishing(i) \/ crashes > 0
        BY <3>2 DEF IInv, OverlapsAreReplacements
      <4>2. k \notin Current => k \notin Current'
        BY <1>7, <3>1 DEF BaselinesGrow, Current
      <4>3. QED
        BY <1>1, <1>13, <3>4, <4>1, <4>2
    <3>5. QED
      BY <3>3, <3>4
  <2>2. QED
    BY <1>5, <1>6, <2>1 DEF OverlapsAreReplacements
<1>16. QED
  BY <1>9, <1>10, <1>11, <1>12, <1>14, <1>15 DEF IInv

\* The process of a handler dies.
LEMMA CrashStep ==
    ASSUME IInv, NEW h \in Handler, Crash(h)
    PROVE  IInv'
<1>1. End(h) /\ UNCHANGED <<register, room>> /\ crashes' = crashes + 1 /\ crashes \in Nat
  BY DEF Crash, IInv, Typed
<1>2. crashes' \in Nat /\ crashes' > 0
  BY <1>1
<1>3. QED
  BY <1>1, <1>2, EndStep
----------------------------------------------------------------------------
\* The invariant

\* Nothing is stored at first and nobody works.
LEMMA InitInvariant == Init => IInv
<1> SUFFICES ASSUME Init PROVE IInv
  OBVIOUS
<1>1. Typed
  <2>1. DOMAIN baselines = {} /\ Count = 0
    BY FS_EmptySet DEF Init, Count
  <2>2. baselines \in [1..Count -> Row]
    BY <2>1 DEF Init
  <2>3. content \in Seq(1..MaxContent) /\ \A S : versions \in Seq(S)
    BY EmptySeq DEF Init
  <2>4. QED
    BY <2>1, <2>2, <2>3, NothingKnown DEF Init, Typed
<1>2. HandlersFit
  BY NothingKnown DEF Init, HandlersFit
<1>3. RowsFit /\ WaiversFit /\ PromotedHasAVersion /\ WaiversAreComplete /\ OverlapsAreReplacements
  BY DEF Init, RowsFit, WaiversFit, PromotedHasAVersion, WaiversAreComplete,
     OverlapsAreReplacements
<1>4. QED
  BY <1>1, <1>2, <1>3 DEF IInv

\* No step breaks it.
LEMMA NextInvariant ==
    ASSUME IInv, [Next]_vars
    PROVE  IInv'
<1>1. CASE UNCHANGED vars
  <2>1. /\ content' = content /\ versions' = versions /\ promotedTo' = promotedTo
        /\ ready' = ready /\ baselines' = baselines /\ waivers' = waivers
        /\ pc' = pc /\ job' = job /\ crashes' = crashes
    BY <1>1 DEF vars, register, room, counts
  <2>2. RegisterGrows /\ BaselinesGrow
    BY <2>1 DEF RegisterGrows, BaselinesGrow
  <2>3. HandlersFit'
    BY <2>1, <2>2, HandlersStay
  <2>4. Typed' /\ RowsFit' /\ WaiversFit'
    BY <2>1 DEF IInv, Typed, Count, RowsFit, WaiversFit, Member, Freezes
  <2>5. PromotedHasAVersion' /\ WaiversAreComplete' /\ OverlapsAreReplacements'
    BY <2>1 DEF IInv, PromotedHasAVersion, VersionsOf, WaiversAreComplete,
       OverlapsAreReplacements, Finishing, Overlapping, Freezes, Current
  <2>6. QED
    BY <2>3, <2>4, <2>5 DEF IInv
<1>2. ASSUME NEW c \in Candidate, SetCriteria(c) PROVE IInv'
  BY <1>2, SetCriteriaStep
<1>3. ASSUME NEW h \in Handler, CreateRequirement(h) \/ Freeze(h) \/ AppendFrozen(h) \/ MarkPromoted(h)
      PROVE  IInv'
  BY <1>3, CreateRequirementStep, FreezeStep, AppendVersionStep, MarkPromotedStep
<1>4. ASSUME NEW h \in Handler, BeginEdit(h) \/ ListVersions(h) \/ AssertEditable(h)
                                \/ AppendPrior(h) \/ Update(h)
      PROVE  IInv'
  BY <1>4, BeginEditStep, ListVersionsStep, AssertEditableStep, AppendVersionStep, UpdateStep
<1>5. ASSUME NEW h \in Handler, BeginApproval(h) \/ ListBaselines(h) \/ CheckTarget(h)
                                \/ CheckCriteria(h) \/ CheckContract(h)
      PROVE  IInv'
  BY <1>5, BeginApprovalStep, ListBaselinesStep, CheckTargetStep, CheckCriteriaStep,
     CheckContractStep
<1>6. ASSUME NEW h \in Handler, NextBaselineVersion(h) \/ CreateBaseline(h)
                                \/ CreateException(h) \/ Supersede(h) \/ Crash(h)
      PROVE  IInv'
  BY <1>6, NextBaselineVersionStep, CreateBaselineStep, CreateExceptionStep, SupersedeStep,
     CrashStep
<1>7. QED
  BY <1>1, <1>2, <1>3, <1>4, <1>5, <1>6 DEF Next

\* The inductive invariant holds of every behaviour.
THEOREM Invariance == Spec => []IInv
<1>1. Init => IInv
  BY InitInvariant
<1>2. IInv /\ [Next]_vars => IInv'
  BY NextInvariant
<1>3. QED
  BY <1>1, <1>2, PTL DEF Spec
----------------------------------------------------------------------------
\* The properties

\* A candidate points at a requirement that has a version the baseline gate can
\* freeze, also when the promotion died on its way (promote).
THEOREM PromotionsAreWhole == Spec => []PromotedHasAVersion
<1>1. IInv => PromotedHasAVersion
  BY DEF IInv
<1>2. QED
  BY <1>1, Invariance, PTL

\* The invariant gives the types, and that a replacement is there and later.
LEMMA InvariantGivesReplacements == IInv => ReplacementIsThere
<1> SUFFICES ASSUME IInv PROVE ReplacementIsThere
  OBVIOUS
<1>1. TypeOK
  <2>1. DOMAIN baselines = 1..Cardinality(DOMAIN baselines)
    BY Lengths DEF IInv, Count
  <2>2. \A h \in Handler : job[h].members \subseteq Member /\ job[h].requirement \in {0} \cup DOMAIN content
    BY DEF IInv, HandlersFit, EditFits, ApprovalFits
  <2>3. QED
    BY <2>1, <2>2 DEF IInv, Typed, RowsFit, WaiversFit, TypeOK
<1>2. QED
  BY <1>1 DEF IInv, RowsFit, ReplacementIsThere

\* The baseline a superseded one names as its replacement is in the table and has
\* a later number, wherever the approval that wrote it stopped (approve).
THEOREM ReplacementsAreThere == Spec => []ReplacementIsThere
<1>1. IInv => ReplacementIsThere
  BY InvariantGivesReplacements
<1>2. QED
  BY <1>1, Invariance, PTL

\* What a finished approval froze, having found it without criteria by the candidate
\* that was named for it, has its recorded exception
\* (checkCriteria, createBaselineExceptions).
THEOREM WaiversAreRecorded == Spec => []WaiversAreComplete
<1>1. IInv => WaiversAreComplete
  BY DEF IInv
<1>2. QED
  BY <1>1, Invariance, PTL

\* A finished approval replaced each baseline it saw and overlaps (approve).
THEOREM OverlapsAreReplaced == Spec => []OverlapsAreReplacements
<1>1. IInv => OverlapsAreReplacements
  BY DEF IInv
<1>2. QED
  BY <1>1, Invariance, PTL

\* The text of a requirement that a current baseline freezes is changed only by an
\* edit that began before the baseline was (edit, assertEditable).
LEMMA StepsEditWithinBaselines ==
    ASSUME IInv, [Next]_vars
    PROVE  [EditStep]_vars
<1>1. SUFFICES ASSUME NEW r \in DOMAIN content, content'[r] # content[r],
                      NEW n \in Current, Freezes(n, VersionsOf(r))
               PROVE  \E h \in Handler : pc[h] = "update" /\ job[h].requirement = r /\ n \notin job[h].before
  BY DEF EditStep
<1>2. CASE \E h \in Handler : Update(h)
  <2>1. PICK h \in Handler : Update(h)
    BY <1>2
  <2>2. pc[h] = "update" /\ content' = [content EXCEPT ![job[h].requirement] = job[h].content]
    BY <2>1 DEF Update
  <2>3. job[h].requirement = r
    BY <1>1, <2>2
  <2>4. n \notin job[h].before
    BY <1>1, <2>2, <2>3, HandlerTyped DEF EditFits
  <2>5. QED
    BY <2>2, <2>3, <2>4
<1>3. CASE \E h \in Handler : CreateRequirement(h)
  <2>1. content' = Append(content, 1)
    BY <1>3 DEF CreateRequirement
  <2>2. content \in Seq(1..MaxContent) /\ 1 \in 1..MaxContent /\ DOMAIN content = 1..Len(content)
    BY Lengths, BoundsAssumption DEF IInv, Typed
  <2>3. \A i \in 1..Len(content) : content'[i] = content[i]
    BY <2>1, <2>2, AppendProperties
  <2>4. QED
    BY <1>1, <2>2, <2>3
<1>4. CASE ~(\E h \in Handler : Update(h) \/ CreateRequirement(h))
  <2>1. content' = content
    BY <1>4 DEF Next, vars, register, Freeze, AppendFrozen, MarkPromoted, BeginEdit,
       ListVersions, AssertEditable, AppendPrior, BeginApproval, ListBaselines, CheckTarget,
       CheckCriteria, CheckContract, NextBaselineVersion, CreateBaseline, CreateException,
       Supersede, Crash, SetCriteria
  <2>2. QED
    BY <1>1, <2>1
<1>5. QED
  BY <1>2, <1>3, <1>4

\* No requirement is edited past a baseline that was in force when the edit began.
THEOREM BaselinesGovernEdits == Spec => EditsRespectBaselines
<1>1. IInv /\ [Next]_vars => [EditStep]_vars
  BY StepsEditWithinBaselines
<1>2. QED
  BY <1>1, Invariance, PTL DEF Spec, EditsRespectBaselines
=============================================================================
