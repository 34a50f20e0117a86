-------------------------- MODULE ArtifactSyncProofs --------------------------
(***************************************************************************)
(* Proofs that the manifests of synchronisations tell the truth, that a    *)
(* recorded synchronisation has kept its specification, and that every     *)
(* version of a specification is a change; for any number of Epics, files, *)
(* requests and handlers, however they race, crash and are sent again.     *)
(***************************************************************************)
EXTENDS ArtifactSync, SequenceTheorems, WellFoundedInduction, TLAPS

Row == [path: Path, digest: Content, exec: Execution]
Sync == [key: Key, exec: Execution, epic: Epic \cup {Unbound}, files: Seq(ManifestEntry)]

\* The types, with the domains of what is kept per specification and handler.
Typed ==
    /\ versions \in Seq(Row) /\ syncs \in Seq(Sync)
    /\ contents \in [Epic \X SpecPath -> Seq(Content)]
    /\ current \in [Epic \X SpecPath -> Nat]
    /\ pc \in [Syncer -> Pc] /\ req \in [Syncer -> Attempt]
    /\ manifest \in [Syncer -> Seq(ManifestEntry)]
    /\ head \in [Syncer -> Nat] /\ tries \in [Syncer -> 0..MaxTries]
    /\ answer \in [Syncer -> 0..Len(syncs)]
    /\ crashes \in 0..MaxCrashes

\* One version for a path and a digest.
OneRowEach ==
    \A i, j \in DOMAIN versions :
        versions[i].path = versions[j].path /\ versions[i].digest = versions[j].digest => i = j

\* A row of a manifest names a version of its path and digest, unless it is
\* refused, and one it created is of the execution.
Truthful(f, exec) ==
    /\ f.outcome = "refused" <=> f.version = 0
    /\ f.outcome # "refused" =>
          /\ f.version \in DOMAIN versions
          /\ versions[f.version].path = f.path /\ versions[f.version].digest = f.digest
    /\ f.outcome = "created" => versions[f.version].exec = exec

\* A row of a manifest is about a file, and refuses it when it is damaged.
About(f, file) ==
    /\ f.path = file.path /\ f.digest = file.digest
    /\ f.outcome # "refused" <=> validateFile(file)

\* A handler has dealt with the files it has rows for; on its way to the record
\* it has dealt with all of them, the specification it read a head of has that
\* version still, and when it gets there the spec.md is among the versions.
HandlerFits(r) ==
    /\ pc[r] = "idle" => manifest[r] = <<>>
    /\ Len(manifest[r]) <= Len(req[r].files)
    /\ \A i \in DOMAIN manifest[r] :
           /\ Truthful(manifest[r][i], req[r].exec)
           /\ About(manifest[r][i], req[r].files[i])
    /\ pc[r] \in {"create", "head", "append", "record"} => HasSpec(r) /\ Done(r)
    /\ pc[r] \in {"head", "append"} => contents[Source(r)] # <<>>
    /\ pc[r] = "append" =>
           /\ head[r] \in DOMAIN contents[Source(r)]
           /\ contents[Source(r)][head[r]] # SpecFile(r).content
    /\ pc[r] = "record" =>
           \E v \in DOMAIN contents[Source(r)] : contents[Source(r)][v] = SpecFile(r).content

HandlersFit == \A r \in Syncer : HandlerFits(r)

SyncsAreTrue ==
    \A i \in DOMAIN syncs : \A k \in DOMAIN syncs[i].files :
        Truthful(syncs[i].files[k], syncs[i].exec)

\* No version is claimed to have been created twice: in one manifest, or in two.
ClaimsOnce(m) ==
    \A k, l \in DOMAIN m :
        m[k].outcome = "created" /\ m[l].outcome = "created" /\ m[k].version = m[l].version => k = l

Apart(m, n) ==
    \A k \in DOMAIN m, l \in DOMAIN n :
        m[k].outcome = "created" /\ n[l].outcome = "created" => m[k].version # n[l].version

ClaimsApart ==
    /\ \A r \in Syncer : ClaimsOnce(manifest[r])
    /\ \A r, w \in Syncer : r # w => Apart(manifest[r], manifest[w])
    /\ \A i \in DOMAIN syncs :
          /\ ClaimsOnce(syncs[i].files)
          /\ \A r \in Syncer : Apart(syncs[i].files, manifest[r])
          /\ \A j \in DOMAIN syncs : i # j => Apart(syncs[i].files, syncs[j].files)

\* The inductive invariant.  A manifest is true while its handler writes it, and
\* stays true when it becomes a record; what a handler read of a specification
\* stays true because versions are only appended.
IInv ==
    /\ Typed /\ OneRowEach /\ HandlersFit /\ SyncsAreTrue /\ ClaimsApart
    /\ RecordedSpecIsKept /\ VersionsAreChanges
----------------------------------------------------------------------------
\* Sequences

\* A non-empty set of numbers up to n has a last one.
LEMMA LastExists ==
    ASSUME NEW n \in Nat, NEW S \in SUBSET (1..n), S # {}
    PROVE  \E k \in S : \A j \in S : j <= k
<1> DEFINE T == {n - k : k \in S}
<1>1. T \subseteq Nat /\ T # {}
  <2>1. \A k \in S : k \in 1..n /\ n - k \in Nat
    OBVIOUS
  <2>2. PICK k : k \in S
    OBVIOUS
  <2>3. n - k \in T
    BY <2>2
  <2>4. QED
    BY <2>1, <2>3
<1>2. PICK t \in T : \A u \in T : <<u, t>> \notin OpToRel(<, Nat)
  <2>1. IsWellFoundedOn(OpToRel(<, Nat), Nat)
    BY NatLessThanWellFounded
  <2> HIDE DEF T
  <2>2. QED
    BY <1>1, <2>1, WFMin, Zenon
<1>3. \A u \in T : ~(u < t)
  <2> HIDE DEF T
  <2>1. QED
    BY <1>1, <1>2 DEF OpToRel
<1>4. PICK k \in S : t = n - k
  BY <1>2
<1>5. \A j \in S : j <= k
  <2>1. SUFFICES ASSUME NEW j \in S PROVE j <= k
    OBVIOUS
  <2>2. ~(n - j < n - k)
    BY <1>3, <1>4
  <2>3. j \in Int /\ k \in Int
    OBVIOUS
  <2>4. QED
    BY <2>2, <2>3
<1>6. QED
  BY <1>5

\* Sequences over a set are sequences over a larger one.
LEMMA SeqGrows ==
    ASSUME NEW S, NEW T, S \subseteq T
    PROVE  Seq(S) \subseteq Seq(T)
<1>1. SUFFICES ASSUME NEW q \in Seq(S) PROVE q \in Seq(T)
  OBVIOUS
<1>2. Len(q) \in Nat /\ q \in [1..Len(q) -> T]
  BY LenProperties
<1>3. QED
  BY <1>2, SeqDef

\* The rows and what a handler works on have lengths, and positions up to them.
LEMMA Lengths ==
    ASSUME Typed
    PROVE  /\ Len(versions) \in Nat /\ DOMAIN versions = 1..Len(versions)
           /\ Len(syncs) \in Nat /\ DOMAIN syncs = 1..Len(syncs)
           /\ \A s \in Epic \X SpecPath :
                  /\ contents[s] \in Seq(Content) /\ current[s] \in Nat
                  /\ Len(contents[s]) \in Nat /\ DOMAIN contents[s] = 1..Len(contents[s])
           /\ \A r \in Syncer :
                  /\ Len(manifest[r]) \in Nat /\ DOMAIN manifest[r] = 1..Len(manifest[r])
<1>1. \A s \in Epic \X SpecPath : contents[s] \in Seq(Content) /\ current[s] \in Nat
  BY DEF Typed
<1>2. \A r \in Syncer : manifest[r] \in Seq(ManifestEntry)
  BY DEF Typed
<1>3. QED
  BY <1>1, <1>2, LenProperties DEF Typed

\* A request names an execution and a key, and its files.
LEMMA RequestTyped ==
    ASSUME Typed, NEW r \in Syncer
    PROVE  /\ req[r] \in Attempt /\ req[r].exec \in Execution /\ req[r].key \in Key
           /\ req[r].files \in Seq(SyncedFile)
           /\ Len(req[r].files) \in Nat /\ DOMAIN req[r].files = 1..Len(req[r].files)
           /\ \A i \in 1..Len(req[r].files) : req[r].files[i] \in SyncedFile
           /\ EpicOf[req[r].exec] \in Epic \cup {Unbound}
<1>1. /\ req[r] \in Attempt /\ req[r].exec \in Execution /\ req[r].key \in Key
      /\ req[r].files \in Seq(SyncedFile)
  BY AttemptAssumption DEF Typed
<1>2. QED
  BY <1>1, LenProperties, ElementOfSeq, EpicAssumption

\* The spec.md of the files is accepted and the last that is.
LEMMA EpicSpecIsLast ==
    ASSUME NEW files \in Seq(SyncedFile)
    PROVE  /\ epicSpec(files) # 0 =>
                  /\ epicSpec(files) \in DOMAIN files
                  /\ files[epicSpec(files)].path \in SpecPath
                  /\ validateFile(files[epicSpec(files)])
           /\ \A k \in DOMAIN files :
                  files[k].path \in SpecPath /\ validateFile(files[k])
                  => epicSpec(files) # 0 /\ k <= epicSpec(files)
<1> DEFINE accepted == {i \in DOMAIN files : files[i].path \in SpecPath /\ validateFile(files[i])}
<1>1. Len(files) \in Nat /\ DOMAIN files = 1..Len(files)
  BY LenProperties
<1>2. CASE accepted = {}
  BY <1>2 DEF epicSpec
<1>3. CASE accepted # {}
  <2>1. PICK k \in accepted : \A j \in accepted : j <= k
    <3>1. accepted \in SUBSET (1..Len(files))
      BY <1>1
    <3> HIDE DEF accepted
    <3>2. QED
      BY <1>1, <1>3, <3>1, LastExists
  <2>2. epicSpec(files) = CHOOSE i \in accepted : \A k_1 \in accepted : k_1 <= i
    BY <1>3 DEF epicSpec
  <2>3. epicSpec(files) \in accepted /\ \A j \in accepted : j <= epicSpec(files)
    <3> HIDE DEF accepted
    <3>1. QED
      BY <2>1, <2>2
  <2>4. QED
    BY <1>1, <2>3
<1>4. QED
  BY <1>2, <1>3

\* A request with a specification names one of an Epic, at an accepted spec.md.
LEMMA SourceTyped ==
    ASSUME Typed, NEW r \in Syncer, HasSpec(r)
    PROVE  /\ Source(r) \in Epic \X SpecPath /\ SpecFile(r) \in SyncedFile
           /\ SpecFile(r).content \in Content /\ validateFile(SpecFile(r))
           /\ epicSpec(req[r].files) \in DOMAIN req[r].files
<1>1. /\ epicSpec(req[r].files) \in DOMAIN req[r].files
      /\ SpecFile(r).path \in SpecPath /\ validateFile(SpecFile(r))
  BY RequestTyped, EpicSpecIsLast DEF HasSpec, SpecFile
<1>2. SpecFile(r) \in SyncedFile
  BY <1>1, RequestTyped DEF SpecFile
<1>3. EpicOfRequest(r) \in Epic
  BY RequestTyped DEF HasSpec, EpicOfRequest
<1>4. QED
  BY <1>1, <1>2, <1>3 DEF Source, SyncedFile
----------------------------------------------------------------------------
\* Steps

LocalTyped ==
    /\ pc \in [Syncer -> Pc] /\ req \in [Syncer -> Attempt]
    /\ manifest \in [Syncer -> Seq(ManifestEntry)]
    /\ head \in [Syncer -> Nat] /\ tries \in [Syncer -> 0..MaxTries]
    /\ answer \in [Syncer -> 0..Len(syncs)]

\* A step of a handler leaves the others where they are.
OthersAlone(r) ==
    \A w \in Syncer \ {r} :
        pc'[w] = pc[w] /\ req'[w] = req[w] /\ manifest'[w] = manifest[w] /\ head'[w] = head[w]

\* Rows are only added.
VersionsGrow ==
    \A i \in DOMAIN versions : i \in DOMAIN versions' /\ versions'[i] = versions[i]

ContentsGrow ==
    \A s \in Epic \X SpecPath : \A v \in DOMAIN contents[s] :
        v \in DOMAIN contents'[s] /\ contents'[s][v] = contents[s][v]

\* A row of a manifest stays true.
LEMMA TruthStays ==
    ASSUME VersionsGrow, NEW f, NEW e, Truthful(f, e)
    PROVE  Truthful(f, e)'
BY DEF VersionsGrow, Truthful

\* The other handlers keep what they know.
LEMMA OthersFit ==
    ASSUME IInv, NEW r \in Syncer, OthersAlone(r), HandlerFits(r)', VersionsGrow, ContentsGrow
    PROVE  HandlersFit'
<1>1. SUFFICES ASSUME NEW w \in Syncer, w # r PROVE HandlerFits(w)'
  BY DEF HandlersFit
<1>2. /\ HandlerFits(w) /\ pc'[w] = pc[w] /\ req'[w] = req[w]
      /\ manifest'[w] = manifest[w] /\ head'[w] = head[w]
  BY <1>1 DEF IInv, HandlersFit, OthersAlone
<1>3. \A i \in DOMAIN manifest[w] : Truthful(manifest[w][i], req[w].exec)'
  BY <1>2, TruthStays DEF HandlerFits
<1>4. /\ HasSpec(w)' <=> HasSpec(w)
      /\ Done(w)' <=> Done(w)
      /\ Source(w)' = Source(w) /\ SpecFile(w)' = SpecFile(w)
  BY <1>2 DEF HasSpec, EpicOfRequest, Done, Source, SpecFile
<1>5. HasSpec(w) => /\ Source(w) \in Epic \X SpecPath
                    /\ contents[Source(w)] \in Seq(Content)
  BY SourceTyped, Lengths DEF IInv
<1>6. contents[Source(w)] # <<>> /\ HasSpec(w) => contents'[Source(w)] # <<>>
  <2>1. SUFFICES ASSUME contents[Source(w)] # <<>>, HasSpec(w) PROVE contents'[Source(w)] # <<>>
    OBVIOUS
  <2>2. 1 \in DOMAIN contents[Source(w)]
    BY <1>5, <2>1, Lengths, EmptySeq DEF IInv
  <2>3. 1 \in DOMAIN contents'[Source(w)]
    BY <1>5, <2>1, <2>2 DEF ContentsGrow
  <2>4. QED
    BY <2>3
<1>7. pc[w] = "append" =>
          /\ head[w] \in DOMAIN contents'[Source(w)]
          /\ contents'[Source(w)][head[w]] # SpecFile(w).content
  BY <1>2, <1>5 DEF HandlerFits, ContentsGrow
<1>8. pc[w] = "record" =>
          \E v \in DOMAIN contents'[Source(w)] : contents'[Source(w)][v] = SpecFile(w).content
  BY <1>2, <1>5 DEF HandlerFits, ContentsGrow
<1>9. QED
  BY <1>2, <1>3, <1>4, <1>6, <1>7, <1>8 DEF HandlerFits, About

\* A manifest that is dropped or kept claims nothing new.
LEMMA ClaimsStay ==
    ASSUME IInv, NEW r \in Syncer, OthersAlone(r), syncs' = syncs,
           manifest'[r] = manifest[r] \/ manifest'[r] = <<>>
    PROVE  ClaimsApart'
<1>1. \A w \in Syncer : manifest'[w] = manifest[w] \/ manifest'[w] = <<>>
  BY DEF OthersAlone
<1>2. \A m : Apart(m, <<>>) /\ Apart(<<>>, m) /\ ClaimsOnce(<<>>)
  BY DEF Apart, ClaimsOnce
<1>3. \A i \in DOMAIN syncs : \A w \in Syncer : Apart(syncs[i].files, manifest'[w])
  BY <1>1, <1>2 DEF IInv, ClaimsApart
<1>4. \A v, w \in Syncer : v # w => Apart(manifest'[v], manifest'[w])
  BY <1>1, <1>2 DEF IInv, ClaimsApart
<1>5. \A w \in Syncer : ClaimsOnce(manifest'[w])
  BY <1>1, <1>2 DEF IInv, ClaimsApart
<1>6. QED
  BY <1>3, <1>4, <1>5 DEF IInv, ClaimsApart

\* A step of one handler that writes no row.
LEMMA QuietStep ==
    ASSUME IInv, NEW r \in Syncer, LocalTyped', OthersAlone(r), HandlerFits(r)', UNCHANGED rows,
           crashes' \in 0..MaxCrashes, manifest'[r] = manifest[r] \/ manifest'[r] = <<>>
    PROVE  IInv'
<1>1. /\ versions' = versions /\ syncs' = syncs /\ contents' = contents /\ current' = current
  BY DEF rows
<1>2. VersionsGrow /\ ContentsGrow
  BY <1>1 DEF VersionsGrow, ContentsGrow
<1>3. Typed'
  BY <1>1 DEF IInv, Typed, LocalTyped, ManifestEntry, Sync
<1>4. HandlersFit' /\ ClaimsApart'
  BY <1>1, <1>2, OthersFit, ClaimsStay
<1>5. OneRowEach' /\ SyncsAreTrue' /\ RecordedSpecIsKept' /\ VersionsAreChanges'
  BY <1>1 DEF IInv, OneRowEach, SyncsAreTrue, Truthful, RecordedSpecIsKept, VersionsAreChanges
<1>6. QED
  BY <1>3, <1>4, <1>5 DEF IInv

\* A handler that ends holds no manifest.
LEMMA EndLocal ==
    ASSUME IInv, NEW r \in Syncer, End(r), versions' = versions,
           Len(syncs') \in Nat, Len(syncs) <= Len(syncs')
    PROVE  /\ LocalTyped' /\ OthersAlone(r) /\ HandlerFits(r)' /\ manifest'[r] = <<>>
<1>1. NoRequest \in Attempt
  BY AttemptAssumption DEF NoRequest
<1>2. /\ pc' \in [Syncer -> Pc] /\ req' \in [Syncer -> Attempt]
      /\ pc'[r] = "idle" /\ manifest'[r] = <<>> /\ req'[r] \in Attempt
      /\ OthersAlone(r)
  BY <1>1 DEF End, Goto, IInv, Typed, Pc, OthersAlone
<1>3. LocalTyped'
  <2>1. <<>> \in Seq(ManifestEntry) /\ ManifestEntry' = ManifestEntry
    BY EmptySeq DEF ManifestEntry
  <2>2. manifest' \in [Syncer -> Seq(ManifestEntry')]
    BY <2>1 DEF End, IInv, Typed
  <2>3. /\ 0 \in 0..Len(syncs') /\ 0 \in 0..MaxTries
        /\ 0..Len(syncs) \subseteq 0..Len(syncs')
    BY Lengths, BoundsAssumption DEF IInv
  <2>4. /\ head' \in [Syncer -> Nat] /\ tries' \in [Syncer -> 0..MaxTries]
        /\ answer' \in [Syncer -> 0..Len(syncs')]
    BY <2>3 DEF End, IInv, Typed
  <2>5. QED
    BY <1>2, <2>2, <2>4 DEF LocalTyped
<1>4. HandlerFits(r)'
  <2>1. req'[r].files \in Seq(SyncedFile)
    BY <1>2, AttemptAssumption
  <2>2. Len(req'[r].files) \in Nat /\ Len(<<>>) = 0 /\ DOMAIN <<>> = {}
    BY <2>1, LenProperties
  <2>3. QED
    BY <1>2, <2>2 DEF HandlerFits
<1>5. QED
  BY <1>2, <1>3, <1>4

\* A request that is answered, refused, given up or dies leaves what is stored.
LEMMA EndStep ==
    ASSUME IInv, NEW r \in Syncer, End(r), UNCHANGED rows, crashes' \in 0..MaxCrashes
    PROVE  IInv'
<1>1. syncs' = syncs /\ versions' = versions /\ Len(syncs) \in Nat
  BY Lengths DEF rows, IInv
<1>2. QED
  BY <1>1, EndLocal, QuietStep

\* A step that moves a handler on, with its request and its manifest.
LEMMA MoveStep ==
    ASSUME IInv, NEW r \in Syncer, NEW l \in Pc, Goto(r, l), UNCHANGED <<rows, req, manifest>>,
           crashes' = crashes, head' \in [Syncer -> Nat], tries' \in [Syncer -> 0..MaxTries],
           answer' \in [Syncer -> 0..Len(syncs)],
           \A w \in Syncer \ {r} : head'[w] = head[w],
           l # "idle",
           l \in {"create", "head", "append", "record"} => HasSpec(r) /\ Done(r),
           l \in {"head", "append"} => contents[Source(r)] # <<>>,
           l = "append" =>
               /\ head'[r] \in DOMAIN contents[Source(r)]
               /\ contents[Source(r)][head'[r]] # SpecFile(r).content,
           l = "record" =>
               \E v \in DOMAIN contents[Source(r)] : contents[Source(r)][v] = SpecFile(r).content
    PROVE  IInv'
<1>1. /\ pc' \in [Syncer -> Pc] /\ pc'[r] = l /\ \A w \in Syncer \ {r} : pc'[w] = pc[w]
  BY DEF Goto, IInv, Typed
<1>2. /\ versions' = versions /\ syncs' = syncs /\ contents' = contents /\ current' = current
      /\ req' = req /\ manifest' = manifest
  BY DEF rows
<1>3. LocalTyped' /\ OthersAlone(r)
  BY <1>1, <1>2 DEF IInv, Typed, LocalTyped, OthersAlone, ManifestEntry
<1>4. /\ HasSpec(r)' <=> HasSpec(r)
      /\ Done(r)' <=> Done(r)
      /\ Source(r)' = Source(r) /\ SpecFile(r)' = SpecFile(r)
  BY <1>2 DEF HasSpec, EpicOfRequest, Done, Source, SpecFile
<1>5. HandlerFits(r)'
  <2>1. HandlerFits(r)
    BY DEF IInv, HandlersFit
  <2>2. QED
    BY <1>1, <1>2, <1>4, <2>1 DEF HandlerFits, Truthful
<1>6. QED
  BY <1>2, <1>3, <1>5, QuietStep DEF IInv, Typed

\* A request arrives at a handler that holds no manifest.
LEMMA FindSyncStep ==
    ASSUME IInv, NEW r \in Syncer, FindSync(r)
    PROVE  IInv'
<1>1. PICK a \in Attempt, l \in {"files", "compare"} :
          req' = [req EXCEPT ![r] = a] /\ Goto(r, l)
  BY DEF FindSync
<1>2. /\ UNCHANGED <<rows, manifest, head, tries, crashes>> /\ syncs' = syncs /\ versions' = versions
      /\ answer' \in [Syncer -> 0..Len(syncs)]
  <2>1. SyncOf(1) \subseteq 0..Len(syncs) /\ \A k : SyncOf(k) \subseteq 0..Len(syncs)
    BY Lengths DEF SyncOf, IInv
  <2>2. QED
    BY <2>1 DEF FindSync, rows, IInv, Typed
<1>3. /\ pc' \in [Syncer -> Pc] /\ req' \in [Syncer -> Attempt]
      /\ pc'[r] = l /\ req'[r] = a /\ manifest'[r] = manifest[r]
      /\ OthersAlone(r)
  BY <1>1, <1>2 DEF Goto, IInv, Typed, Pc, OthersAlone
<1>4. LocalTyped'
  BY <1>2, <1>3 DEF IInv, Typed, LocalTyped, ManifestEntry
<1>5. HandlerFits(r)'
  <2>1. manifest[r] = <<>>
    BY DEF FindSync, IInv, HandlersFit, HandlerFits
  <2>2. a.files \in Seq(SyncedFile)
    BY AttemptAssumption
  <2>3. Len(a.files) \in Nat /\ Len(<<>>) = 0 /\ DOMAIN <<>> = {}
    BY <2>2, LenProperties
  <2>4. QED
    BY <1>1, <1>3, <2>1, <2>3 DEF HandlerFits
<1>6. QED
  BY <1>2, <1>3, <1>4, <1>5, QuietStep DEF IInv, Typed

\* Going on to the specification, finding it there, and reading its head: content
\* that is the head's is there, and content that is not differs from it.
LEMMA SpecificationStep ==
    ASSUME IInv, NEW r \in Syncer, FindSpecification(r) \/ ReadHead(r) \/ LoseAppend(r)
    PROVE  IInv'
<1>1. HasSpec(r) /\ Done(r)
  BY DEF FindSpecification, ReadHead, LoseAppend, IInv, HandlersFit, HandlerFits
<1>2. Source(r) \in Epic \X SpecPath
  BY <1>1, SourceTyped DEF IInv
<1> DEFINE s == Source(r)
<1>3. /\ contents[s] \in Seq(Content) /\ Len(contents[s]) \in Nat
      /\ DOMAIN contents[s] = 1..Len(contents[s])
  BY <1>2, Lengths DEF IInv
<1>4. CASE FindSpecification(r)
  <2>1. UNCHANGED <<rows, req, manifest, head, tries, answer>> /\ crashes' = crashes
    BY <1>4 DEF FindSpecification, locals
  <2>2. CASE contents[s] = <<>>
    <3>1. Goto(r, "create")
      BY <1>4, <2>2 DEF FindSpecification
    <3>2. QED
      BY <1>1, <2>1, <3>1, MoveStep DEF IInv, Typed, Pc
  <2>3. CASE contents[s] # <<>>
    <3>1. Goto(r, "head")
      BY <1>4, <2>3 DEF FindSpecification
    <3>2. QED
      BY <1>1, <2>1, <2>3, <3>1, MoveStep DEF IInv, Typed, Pc
  <2>4. QED
    BY <2>2, <2>3
<1>5. CASE ReadHead(r)
  <2>1. pc[r] = "head" /\ contents[s] # <<>>
    BY <1>5 DEF ReadHead, IInv, HandlersFit, HandlerFits
  <2>2. Len(contents[s]) \in DOMAIN contents[s]
    BY <1>3, <2>1, EmptySeq
  <2>3. /\ head' \in [Syncer -> Nat] /\ head'[r] = Len(contents[s])
        /\ \A w \in Syncer \ {r} : head'[w] = head[w]
        /\ UNCHANGED <<rows, req, manifest, tries, answer>> /\ crashes' = crashes
    BY <1>3, <1>5 DEF ReadHead, IInv, Typed
  <2>4. CASE contents[s][Len(contents[s])] = SpecFile(r).content
    <3>1. Goto(r, "record")
      BY <1>5, <2>4 DEF ReadHead
    <3>2. QED
      BY <1>1, <2>2, <2>3, <2>4, <3>1, MoveStep DEF IInv, Typed, Pc
  <2>5. CASE contents[s][Len(contents[s])] # SpecFile(r).content
    <3>1. Goto(r, "append")
      BY <1>5, <2>5 DEF ReadHead
    <3>2. QED
      BY <1>1, <2>1, <2>2, <2>3, <2>5, <3>1, MoveStep DEF IInv, Typed, Pc
  <2>6. QED
    BY <2>4, <2>5
<1>6. CASE LoseAppend(r)
  <2>1. contents[s] # <<>>
    BY <1>6 DEF LoseAppend, IInv, HandlersFit, HandlerFits
  <2>2. tries' \in [Syncer -> 0..MaxTries]
    <3>1. tries[r] \in 0..MaxTries /\ tries[r] + 1 < MaxTries
      BY <1>6 DEF LoseAppend, IInv, Typed
    <3>2. tries[r] + 1 \in 0..MaxTries
      BY <3>1, BoundsAssumption
    <3>3. QED
      BY <1>6, <3>2 DEF LoseAppend, IInv, Typed
  <2>3. /\ UNCHANGED <<rows, req, manifest, head, answer>> /\ crashes' = crashes
        /\ Goto(r, "head")
    BY <1>6 DEF LoseAppend
  <2>4. QED
    BY <1>1, <2>1, <2>2, <2>3, MoveStep DEF IInv, Typed, Pc
<1>7. QED
  BY <1>4, <1>5, <1>6

\* What a record has kept stays among the versions.
LEMMA SpecStays ==
    ASSUME IInv, ContentsGrow, syncs' = syncs
    PROVE  RecordedSpecIsKept'
<1> DEFINE Kept(c, e, f) == \E v \in DOMAIN c[<<e, f.path>>] : c[<<e, f.path>>][v] = f.digest
           last(i, k) == \A l \in DOMAIN syncs[i].files : l > k =>
               ~(syncs[i].files[l].path \in SpecPath /\ syncs[i].files[l].outcome # "refused")
<1>1. SUFFICES ASSUME NEW i \in DOMAIN syncs, NEW k \in DOMAIN syncs[i].files,
                      NEW f, f = syncs[i].files[k], NEW e, e = syncs[i].epic,
                      e # Unbound, f.path \in SpecPath, f.outcome # "refused", last(i, k)
               PROVE  Kept(contents', e, f)
  BY DEF RecordedSpecIsKept
<1>2. Kept(contents, e, f)
  BY <1>1 DEF IInv, RecordedSpecIsKept
<1>3. e \in Epic
  <2>1. syncs[i] \in Sync
    BY Lengths, ElementOfSeq DEF IInv, Typed
  <2>2. QED
    BY <1>1, <2>1 DEF Sync
<1>4. <<e, f.path>> \in Epic \X SpecPath
  BY <1>1, <1>3
<1>5. QED
  BY <1>2, <1>4 DEF ContentsGrow

\* The specification gets the spec.md as its next version, after another content.
LEMMA AppendStep ==
    ASSUME IInv, NEW r \in Syncer, HasSpec(r), Done(r), Goto(r, "record"),
           NEW s \in Epic \X SpecPath, s = Source(r), NEW x \in Content, x = SpecFile(r).content,
           contents' = [contents EXCEPT ![s] = Append(contents[s], x)],
           current' = [current EXCEPT ![s] = Len(contents[s]) + 1],
           contents[s] # <<>> => contents[s][Len(contents[s])] # x,
           UNCHANGED <<versions, syncs, locals, crashes>>
    PROVE  IInv'
<1> PICK q : q = Append(contents[s], x)
  OBVIOUS
<1> PICK n : n = Len(contents[s])
  OBVIOUS
<1>1. /\ n \in Nat /\ DOMAIN contents[s] = 1..n /\ contents[s] \in Seq(Content)
      /\ \A t \in Epic \X SpecPath : Len(contents[t]) \in Nat
  BY Lengths DEF IInv
<1>2. /\ q \in Seq(Content) /\ Len(q) = n + 1 /\ q[n + 1] = x
      /\ \A v \in 1..n : q[v] = contents[s][v]
  BY <1>1, AppendProperties
<1>3. DOMAIN q = 1..(n + 1)
  BY <1>2, LenProperties
<1>4. /\ contents' \in [Epic \X SpecPath -> Seq(Content)]
      /\ \A t \in Epic \X SpecPath : contents'[t] = IF t = s THEN q ELSE contents[t]
      /\ current' \in [Epic \X SpecPath -> Nat]
      /\ \A t \in Epic \X SpecPath : current'[t] = IF t = s THEN n + 1 ELSE current[t]
  BY <1>1, <1>2 DEF IInv, Typed
<1>5. /\ versions' = versions /\ syncs' = syncs /\ req' = req /\ manifest' = manifest
      /\ head' = head /\ tries' = tries /\ answer' = answer /\ crashes' = crashes
  BY DEF locals
<1>6. pc' \in [Syncer -> Pc] /\ pc'[r] = "record" /\ \A w \in Syncer \ {r} : pc'[w] = pc[w]
  BY DEF Goto, IInv, Typed, Pc
<1>7. VersionsGrow /\ OthersAlone(r)
  BY <1>5, <1>6 DEF VersionsGrow, OthersAlone
<1>8. ContentsGrow
  <2>1. SUFFICES ASSUME NEW t \in Epic \X SpecPath, NEW v \in DOMAIN contents[t]
                 PROVE  v \in DOMAIN contents'[t] /\ contents'[t][v] = contents[t][v]
    BY DEF ContentsGrow
  <2>2. CASE t = s
    BY <1>1, <1>2, <1>3, <1>4, <2>2
  <2>3. CASE t # s
    BY <1>4, <2>3
  <2>4. QED
    BY <2>2, <2>3
<1>9. Typed'
  BY <1>4, <1>5, <1>6 DEF IInv, Typed, ManifestEntry, Sync
<1>10. HandlersFit'
  <2>1. HandlerFits(r)
    BY DEF IInv, HandlersFit
  <2>2. /\ HasSpec(r)' /\ Done(r)'
        /\ Source(r)' = s /\ SpecFile(r)' = SpecFile(r)
    BY <1>5 DEF HasSpec, EpicOfRequest, Done, Source, SpecFile
  <2>3. n + 1 \in DOMAIN contents'[s] /\ contents'[s][n + 1] = x
    BY <1>1, <1>2, <1>3, <1>4
  <2>4. HandlerFits(r)'
    BY <1>5, <1>6, <2>1, <2>2, <2>3 DEF HandlerFits, Truthful
  <2>5. QED
    BY <1>7, <1>8, <2>4, OthersFit
<1>11. ClaimsApart'
  BY <1>5, <1>7, ClaimsStay
<1>12. OneRowEach' /\ SyncsAreTrue'
  BY <1>5 DEF IInv, OneRowEach, SyncsAreTrue, Truthful
<1>13. VersionsAreChanges'
  <2>1. SUFFICES ASSUME NEW t \in Epic \X SpecPath
                 PROVE  /\ current'[t] = Len(contents'[t])
                        /\ \A v \in 2..Len(contents'[t]) : contents'[t][v] # contents'[t][v - 1]
    BY DEF VersionsAreChanges
  <2>2. CASE t = s
    <3>1. ASSUME NEW v \in 2..(n + 1) PROVE q[v] # q[v - 1]
      <4>1. CASE v = n + 1
        <5>1. n \in 1..n /\ contents[s] # <<>>
          BY <1>1, <4>1, <3>1, EmptySeq
        <5>2. QED
          BY <1>1, <1>2, <4>1, <5>1
      <4>2. CASE v # n + 1
        <5>1. v \in 2..n /\ v \in 1..n /\ v - 1 \in 1..n
          BY <1>1, <3>1, <4>2
        <5>2. QED
          BY <1>2, <5>1 DEF IInv, VersionsAreChanges
      <4>3. QED
        BY <4>1, <4>2
    <3>2. QED
      BY <1>2, <1>4, <2>2, <3>1
  <2>3. CASE t # s
    BY <1>4, <2>3 DEF IInv, VersionsAreChanges
  <2>4. QED
    BY <2>2, <2>3
<1>14. RecordedSpecIsKept'
  BY <1>5, <1>8, SpecStays
<1>15. QED
  BY <1>9, <1>10, <1>11, <1>12, <1>13, <1>14 DEF IInv

\* A specification that is not there is created, and one that is has its head
\* read; a version is appended when the head is still the one that was read.
LEMMA WriteSpecificationStep ==
    ASSUME IInv, NEW r \in Syncer, CreateSpecification(r) \/ AppendVersion(r)
    PROVE  IInv'
<1>1. HasSpec(r) /\ Done(r)
  BY DEF CreateSpecification, AppendVersion, IInv, HandlersFit, HandlerFits
<1>2. Source(r) \in Epic \X SpecPath /\ SpecFile(r).content \in Content
  BY <1>1, SourceTyped DEF IInv
<1> PICK s \in Epic \X SpecPath : s = Source(r)
  BY <1>2
<1> PICK x \in Content : x = SpecFile(r).content
  BY <1>2
<1>3. contents[s] \in Seq(Content)
  BY Lengths DEF IInv
<1>4. CASE CreateSpecification(r) /\ contents[s] = <<>>
  <2>1. /\ contents' = [contents EXCEPT ![s] = <<x>>] /\ current' = [current EXCEPT ![s] = 1]
        /\ Goto(r, "record") /\ UNCHANGED <<versions, syncs, locals, crashes>>
    BY <1>4 DEF CreateSpecification
  <2>2. <<x>> = Append(contents[s], x) /\ Len(contents[s]) + 1 = 1
    BY <1>4
  <2>3. QED
    BY <1>1, <1>4, <2>1, <2>2, AppendStep
<1>5. CASE CreateSpecification(r) /\ contents[s] # <<>>
  <2>1. UNCHANGED <<rows, req, manifest, head, tries, answer>> /\ crashes' = crashes
        /\ Goto(r, "head")
    BY <1>5 DEF CreateSpecification, rows, locals
  <2>2. QED
    BY <1>1, <1>5, <2>1, MoveStep DEF IInv, Typed, Pc
<1>6. CASE AppendVersion(r)
  <2>1. /\ contents' = [contents EXCEPT ![s] = Append(contents[s], x)]
        /\ current' = [current EXCEPT ![s] = Len(contents[s]) + 1]
        /\ Goto(r, "record") /\ UNCHANGED <<versions, syncs, locals, crashes>>
        /\ pc[r] = "append" /\ Len(contents[s]) = head[r]
    BY <1>6 DEF AppendVersion
  <2>2. contents[s][Len(contents[s])] # x
    BY <2>1 DEF IInv, HandlersFit, HandlerFits
  <2>3. QED
    BY <1>1, <2>1, <2>2, AppendStep
<1>7. QED
  BY <1>4, <1>5, <1>6
----------------------------------------------------------------------------
\* Manifests

\* Every version a manifest or a record claims to have created is there.
LEMMA ClaimedIsThere ==
    ASSUME IInv
    PROVE  /\ \A r \in Syncer : \A l \in DOMAIN manifest[r] :
                  manifest[r][l].outcome = "created" => manifest[r][l].version \in DOMAIN versions
           /\ \A i \in DOMAIN syncs : \A l \in DOMAIN syncs[i].files :
                  syncs[i].files[l].outcome = "created" =>
                      syncs[i].files[l].version \in DOMAIN versions
<1>1. "created" # "refused"
  OBVIOUS
<1>2. QED
  BY <1>1 DEF IInv, HandlersFit, HandlerFits, SyncsAreTrue, Truthful

\* A handler adds to its manifest a row about the next file: a true one, which
\* claims no version that was there.
LEMMA NoteStep ==
    ASSUME IInv, NEW r \in Syncer, NEW f, pc[r] = "files", ~Done(r),
           manifest' = [manifest EXCEPT ![r] = Append(manifest[r], f)],
           VersionsGrow, versions' \in Seq(Row), OneRowEach',
           f \in ManifestEntry', Truthful(f, req[r].exec)', About(f, NextFile(r)),
           f.outcome = "created" => f.version \notin DOMAIN versions,
           UNCHANGED <<syncs, contents, current, pc, req, head, tries, answer, crashes>>
    PROVE  IInv'
<1> PICK m : m = manifest[r]
  OBVIOUS
<1> PICK q : q = Append(m, f)
  OBVIOUS
<1> PICK n : n = Len(m)
  OBVIOUS
<1>1. /\ ManifestEntry \subseteq ManifestEntry' /\ Sync \subseteq Sync'
  <2>1. Len(versions) \in Nat /\ Len(versions') \in Nat /\ DOMAIN versions' = 1..Len(versions')
    BY Lengths, LenProperties DEF IInv
  <2>2. \A i \in 1..Len(versions) : i \in 1..Len(versions')
    BY <2>1, Lengths DEF VersionsGrow, IInv
  <2>3. Len(versions) <= Len(versions')
    BY <2>1, <2>2
  <2>4. ManifestEntry \subseteq ManifestEntry'
    BY <2>1, <2>3 DEF ManifestEntry
  <2>5. Seq(ManifestEntry) \subseteq Seq(ManifestEntry')
    BY <2>4, SeqGrows
  <2>6. Sync \subseteq Sync'
    BY <2>5 DEF Sync
  <2>7. QED
    BY <2>4, <2>6
<1>2. /\ m \in Seq(ManifestEntry') /\ n \in Nat /\ DOMAIN m = 1..n
      /\ \A w \in Syncer : manifest[w] \in Seq(ManifestEntry')
  <2>1. Seq(ManifestEntry) \subseteq Seq(ManifestEntry')
    BY <1>1, SeqGrows
  <2>2. QED
    BY <2>1, Lengths DEF IInv, Typed
<1>3. /\ q \in Seq(ManifestEntry') /\ Len(q) = n + 1 /\ q[n + 1] = f
      /\ \A i \in 1..n : q[i] = m[i]
  <2> PICK E : E = ManifestEntry'
    OBVIOUS
  <2>1. m \in Seq(E) /\ f \in E
    BY <1>2
  <2>2. QED
    BY <2>1, <1>2, AppendProperties
<1>4. DOMAIN q = 1..(n + 1) /\ \A i \in DOMAIN q : i \in DOMAIN m \/ i = n + 1
  <2> PICK E : E = ManifestEntry'
    OBVIOUS
  <2>1. DOMAIN q = 1..Len(q)
    BY <1>3, LenProperties
  <2>2. QED
    BY <1>2, <1>3, <2>1
<1>5. /\ manifest' = [manifest EXCEPT ![r] = q]
      /\ manifest'[r] = q /\ \A w \in Syncer \ {r} : manifest'[w] = manifest[w]
  BY DEF IInv, Typed
<1>6. /\ syncs' = syncs /\ contents' = contents /\ current' = current /\ pc' = pc /\ req' = req
      /\ head' = head /\ tries' = tries /\ answer' = answer /\ crashes' = crashes
  OBVIOUS
<1>7. OthersAlone(r) /\ ContentsGrow
  BY <1>5, <1>6 DEF OthersAlone, ContentsGrow
<1>8. Typed'
  <2>1. manifest' \in [Syncer -> Seq(ManifestEntry')]
    BY <1>2, <1>3, <1>5 DEF IInv, Typed
  <2>2. syncs' \in Seq(Sync')
    BY <1>1, <1>6, SeqGrows DEF IInv, Typed
  <2>3. QED
    BY <1>6, <2>1, <2>2 DEF IInv, Typed
<1>9. HandlersFit'
  <2>1. HandlerFits(r)
    BY DEF IInv, HandlersFit
  <2>2. Len(q) <= Len(req[r].files)
    BY <1>2, <1>3, <2>1, RequestTyped DEF HandlerFits, Done, IInv
  <2>3. \A i \in DOMAIN m : Truthful(m[i], req[r].exec)'
    BY <1>6, <2>1, TruthStays DEF HandlerFits
  <2>4. \A i \in DOMAIN q : Truthful(q[i], req[r].exec)'
    BY <1>2, <1>3, <1>4, <2>3
  <2>5. \A i \in DOMAIN q : About(q[i], req[r].files[i])
    BY <1>2, <1>3, <1>4, <2>1 DEF HandlerFits, NextFile
  <2>6. HandlerFits(r)'
    BY <1>5, <1>6, <2>2, <2>4, <2>5 DEF HandlerFits, About
  <2>7. QED
    BY <1>7, <2>6, OthersFit
<1>10. SyncsAreTrue'
  BY <1>6, TruthStays DEF IInv, SyncsAreTrue
<1>11. ClaimsApart'
  <2>1. ClaimsOnce(q)
    BY <1>2, <1>3, <1>4, ClaimedIsThere DEF IInv, ClaimsApart, ClaimsOnce
  <2>2. \A w \in Syncer \ {r} : Apart(q, manifest[w]) /\ Apart(manifest[w], q)
    BY <1>2, <1>3, <1>4, ClaimedIsThere DEF IInv, ClaimsApart, Apart
  <2>3. \A i \in DOMAIN syncs : Apart(syncs[i].files, q)
    BY <1>2, <1>3, <1>4, ClaimedIsThere DEF IInv, ClaimsApart, Apart
  <2>4. QED
    BY <1>5, <1>6, <2>1, <2>2, <2>3 DEF IInv, ClaimsApart
<1>12. RecordedSpecIsKept' /\ VersionsAreChanges'
  BY <1>6, <1>7, SpecStays DEF IInv, VersionsAreChanges
<1>13. QED
  BY <1>8, <1>9, <1>10, <1>11, <1>12 DEF IInv

\* The next file of a request that has one.
LEMMA NextFileTyped ==
    ASSUME IInv, NEW r \in Syncer, ~Done(r)
    PROVE  /\ NextFile(r) \in SyncedFile /\ NextFile(r).path \in Path
           /\ NextFile(r).digest \in Content
<1>1. /\ Len(manifest[r]) \in Nat /\ Len(req[r].files) \in Nat
      /\ Len(manifest[r]) <= Len(req[r].files)
  BY Lengths, RequestTyped DEF IInv, HandlersFit, HandlerFits
<1>2. Len(manifest[r]) + 1 \in 1..Len(req[r].files)
  BY <1>1 DEF Done
<1>3. NextFile(r) \in SyncedFile
  BY <1>2, RequestTyped DEF NextFile, IInv
<1>4. QED
  BY <1>3 DEF SyncedFile

\* A damaged file gets a row that names no version.
LEMMA RefuseFileStep ==
    ASSUME IInv, NEW r \in Syncer, RefuseFile(r)
    PROVE  IInv'
<1> PICK f : f = Entry(NextFile(r), "refused", 0)
  OBVIOUS
<1>1. /\ pc[r] = "files" /\ ~Done(r) /\ ~validateFile(NextFile(r))
      /\ manifest' = [manifest EXCEPT ![r] = Append(manifest[r], f)]
      /\ UNCHANGED <<versions, syncs, contents, current, pc, req, head, tries, answer, crashes>>
  BY DEF RefuseFile, Note, rows
<1>2. f = [path |-> NextFile(r).path, digest |-> NextFile(r).digest,
           outcome |-> "refused", version |-> 0]
  BY DEF Entry
<1>3. /\ f \in ManifestEntry' /\ About(f, NextFile(r)) /\ Truthful(f, req[r].exec)'
  <2>1. 0 \in 0..Len(versions')
    BY <1>1, Lengths DEF IInv
  <2>2. QED
    BY <1>1, <1>2, <2>1, NextFileTyped DEF ManifestEntry, About, Truthful
<1>4. VersionsGrow /\ OneRowEach' /\ versions' \in Seq(Row)
  BY <1>1 DEF VersionsGrow, OneRowEach, IInv, Typed
<1>5. QED
  BY <1>1, <1>2, <1>3, <1>4, NoteStep

\* A file is stored when no version of its path and digest is there, and named by
\* the one that is there otherwise.
LEMMA StoreFileStep ==
    ASSUME IInv, NEW r \in Syncer, StoreFile(r)
    PROVE  IInv'
<1> PICK file : file = NextFile(r)
  OBVIOUS
<1> PICK n : n = Len(versions)
  OBVIOUS
<1>1. /\ pc[r] = "files" /\ ~Done(r) /\ validateFile(file)
      /\ UNCHANGED <<syncs, contents, current, pc, req, head, tries, answer, crashes>>
  BY DEF StoreFile
<1>2. n \in Nat /\ DOMAIN versions = 1..n /\ versions \in Seq(Row)
  BY Lengths DEF IInv, Typed
<1>3. file.path \in Path /\ file.digest \in Content
  BY <1>1, NextFileTyped
<1>4. ASSUME VersionOf(file) = {},
             versions' = Append(versions, [path |-> file.path, digest |-> file.digest, exec |-> req[r].exec]),
             Note(r, Entry(file, "created", Len(versions')))
      PROVE  IInv'
  <2> PICK row : row = [path |-> file.path, digest |-> file.digest, exec |-> req[r].exec]
    OBVIOUS
  <2> PICK f : f = Entry(file, "created", n + 1)
    OBVIOUS
  <2>1. row \in Row
    BY <1>3, RequestTyped DEF Row, IInv
  <2>2. /\ versions' \in Seq(Row) /\ Len(versions') = n + 1 /\ versions'[n + 1] = row
        /\ \A i \in 1..n : versions'[i] = versions[i]
    BY <1>2, <1>4, <2>1, AppendProperties
  <2>3. DOMAIN versions' = 1..(n + 1) /\ \A i \in DOMAIN versions' : i \in 1..n \/ i = n + 1
    <3>1. DOMAIN versions' = 1..Len(versions')
      BY <2>2, LenProperties
    <3>2. QED
      BY <1>2, <2>2, <3>1
  <2>4. VersionsGrow
    BY <1>2, <2>2, <2>3 DEF VersionsGrow
  <2>5. OneRowEach'
    <3>1. \A i \in 1..n : ~(versions[i].path = file.path /\ versions[i].digest = file.digest)
      BY <1>2, <1>4 DEF VersionOf
    <3>2. SUFFICES ASSUME NEW i \in DOMAIN versions', NEW j \in DOMAIN versions',
                          versions'[i].path = versions'[j].path,
                          versions'[i].digest = versions'[j].digest
                   PROVE  i = j
      BY DEF OneRowEach
    <3>3. CASE i \in 1..n /\ j \in 1..n
      BY <1>2, <2>2, <3>2, <3>3 DEF IInv, OneRowEach
    <3>4. CASE i = n + 1 /\ j \in 1..n
      BY <2>2, <3>1, <3>2, <3>4
    <3>5. CASE j = n + 1 /\ i \in 1..n
      BY <2>2, <3>1, <3>2, <3>5
    <3>6. QED
      BY <2>3, <3>3, <3>4, <3>5
  <2>6. /\ f = [path |-> file.path, digest |-> file.digest, outcome |-> "created", version |-> n + 1]
        /\ manifest' = [manifest EXCEPT ![r] = Append(manifest[r], f)]
    BY <1>4, <2>2 DEF Entry, Note
  <2>7. f \in ManifestEntry'
    <3>1. n + 1 \in 0..Len(versions')
      BY <1>2, <2>2
    <3>2. QED
      BY <1>3, <2>6, <3>1 DEF ManifestEntry
  <2>8. Truthful(f, req[r].exec)'
    <3>1. n + 1 \in DOMAIN versions' /\ n + 1 # 0
      BY <1>2, <2>3
    <3>2. versions'[n + 1].path = file.path /\ versions'[n + 1].digest = file.digest
          /\ versions'[n + 1].exec = req'[r].exec
      BY <1>1, <2>2
    <3>3. QED
      BY <2>6, <3>1, <3>2 DEF Truthful
  <2>9. About(f, NextFile(r)) /\ f.version \notin DOMAIN versions
    BY <1>1, <1>2, <2>6 DEF About
  <2>10. QED
    BY <1>1, <2>2, <2>4, <2>5, <2>6, <2>7, <2>8, <2>9, NoteStep
<1>5. ASSUME NEW i \in VersionOf(file), Note(r, Entry(file, "reused", i)), UNCHANGED versions
      PROVE  IInv'
  <2> PICK f : f = Entry(file, "reused", i)
    OBVIOUS
  <2>1. /\ i \in 1..n /\ versions[i].path = file.path /\ versions[i].digest = file.digest
    BY <1>2, <1>5 DEF VersionOf
  <2>2. /\ f = [path |-> file.path, digest |-> file.digest, outcome |-> "reused", version |-> i]
        /\ manifest' = [manifest EXCEPT ![r] = Append(manifest[r], f)]
    BY <1>5 DEF Entry, Note
  <2>3. f \in ManifestEntry' /\ About(f, NextFile(r)) /\ f.outcome # "created"
    <3>1. i \in 0..Len(versions')
      BY <1>2, <1>5, <2>1
    <3>2. QED
      BY <1>1, <1>3, <2>2, <3>1 DEF ManifestEntry, About
  <2>4. Truthful(f, req[r].exec)'
    <3>1. i \in DOMAIN versions /\ i # 0
      BY <1>2, <2>1
    <3>2. QED
      BY <1>5, <2>1, <2>2, <3>1 DEF Truthful
  <2>5. VersionsGrow /\ OneRowEach' /\ versions' \in Seq(Row)
    BY <1>2, <1>5 DEF VersionsGrow, OneRowEach, IInv
  <2>6. QED
    BY <1>1, <2>2, <2>3, <2>4, <2>5, NoteStep
<1>6. QED
  BY <1>4, <1>5 DEF StoreFile, createVersion
----------------------------------------------------------------------------
\* Records

\* The specification of a complete manifest: its last accepted spec.md is the one
\* the handler has put among the versions.
LEMMA SpecIsDue ==
    ASSUME IInv, NEW r \in Syncer, Due(r), EpicOfRequest(r) # Unbound,
           NEW k \in DOMAIN manifest[r],
           manifest[r][k].path \in SpecPath, manifest[r][k].outcome # "refused",
           \A l \in DOMAIN manifest[r] : l > k =>
               ~(manifest[r][l].path \in SpecPath /\ manifest[r][l].outcome # "refused")
    PROVE  \E v \in DOMAIN contents[<<EpicOfRequest(r), manifest[r][k].path>>] :
               contents[<<EpicOfRequest(r), manifest[r][k].path>>][v] = manifest[r][k].digest
<1> PICK files : files = req[r].files
  OBVIOUS
<1> PICK n : n = epicSpec(files)
  OBVIOUS
<1>1. HandlerFits(r) /\ Done(r)
  BY DEF Due, IInv, HandlersFit, HandlerFits
<1>2. /\ files \in Seq(SyncedFile) /\ DOMAIN files = DOMAIN manifest[r]
      /\ DOMAIN files = 1..Len(files) /\ Len(files) \in Nat
  BY <1>1, RequestTyped, Lengths DEF Done, IInv
<1>3. \A i \in DOMAIN files : About(manifest[r][i], files[i])
  BY <1>1, <1>2 DEF HandlerFits
<1>4. n # 0 /\ k <= n
  BY <1>2, <1>3, EpicSpecIsLast DEF About
<1>5. n \in DOMAIN files /\ files[n].path \in SpecPath /\ validateFile(files[n])
  BY <1>2, <1>4, EpicSpecIsLast
<1>6. n = k
  <2>1. ~(n > k)
    BY <1>2, <1>3, <1>5 DEF About
  <2>2. QED
    BY <1>2, <1>4, <1>5, <2>1
<1>7. HasSpec(r) /\ Source(r) = <<EpicOfRequest(r), manifest[r][k].path>>
      /\ SpecFile(r).content = manifest[r][k].digest
  <2>1. SpecFile(r) = files[k] /\ HasSpec(r)
    BY <1>4, <1>6 DEF SpecFile, HasSpec
  <2>2. QED
    BY <1>2, <1>3, <1>5, <1>6, <2>1 DEF Source, About, validateFile
<1>8. pc[r] = "record"
  BY <1>7 DEF Due
<1>9. QED
  BY <1>1, <1>7, <1>8 DEF HandlerFits

\* A finished synchronisation records its manifest, unless its key is taken.
LEMMA RecordSyncStep ==
    ASSUME IInv, NEW r \in Syncer, RecordSync(r)
    PROVE  IInv'
<1> PICK m : m = manifest[r]
  OBVIOUS
<1> PICK e : e = EpicOfRequest(r)
  OBVIOUS
<1>1. Due(r) /\ HandlerFits(r) /\ Done(r) /\ pc[r] \in {"files", "record"}
  BY DEF RecordSync, Due, IInv, HandlersFit, HandlerFits
<1>2. /\ versions' = versions /\ contents' = contents /\ current' = current /\ crashes' = crashes
  BY DEF RecordSync
<1>3. /\ Len(syncs) \in Nat /\ DOMAIN syncs = 1..Len(syncs) /\ syncs \in Seq(Sync)
  BY Lengths DEF IInv, Typed
<1>4. ASSUME NEW i \in SyncOf(req[r].key), answer' = [answer EXCEPT ![r] = i],
             Goto(r, "compare"), UNCHANGED <<syncs, req, manifest, head, tries>>
      PROVE  IInv'
  <2>1. i \in 0..Len(syncs)
    BY <1>3 DEF SyncOf
  <2>2. answer' \in [Syncer -> 0..Len(syncs)] /\ UNCHANGED <<rows, req, manifest>>
        /\ head' = head /\ tries' = tries
    BY <1>2, <1>4, <2>1 DEF IInv, Typed, rows
  <2>3. QED
    BY <1>2, <1>4, <2>2, MoveStep DEF IInv, Typed, Pc
<1>5. ASSUME syncs' = Append(syncs, [key |-> req[r].key, exec |-> req[r].exec,
                  epic |-> EpicOfRequest(r), files |-> manifest[r]]),
             End(r)
      PROVE  IInv'
  <2> PICK a : a = req[r].exec
    OBVIOUS
  <2> PICK x : x = [key |-> req[r].key, exec |-> a, epic |-> e, files |-> m]
    OBVIOUS
  <2> PICK n : n = Len(syncs)
    OBVIOUS
  <2>1. x \in Sync /\ x.files = m /\ x.exec = a /\ x.epic = e /\ m \in Seq(ManifestEntry)
    <3>1. e \in Epic \cup {Unbound} /\ m \in Seq(ManifestEntry)
      BY RequestTyped DEF EpicOfRequest, IInv, Typed
    <3>2. QED
      BY <3>1, RequestTyped DEF Sync, IInv
  <2>2. /\ syncs' \in Seq(Sync) /\ Len(syncs') = n + 1 /\ syncs'[n + 1] = x
        /\ \A i \in 1..n : syncs'[i] = syncs[i]
    BY <1>3, <1>5, <2>1, AppendProperties
  <2>3. DOMAIN syncs' = 1..(n + 1) /\ \A i \in DOMAIN syncs' : i \in 1..n \/ i = n + 1
    <3>1. DOMAIN syncs' = 1..Len(syncs')
      BY <2>2, LenProperties
    <3>2. QED
      BY <1>3, <2>2, <3>1
  <2>4. /\ LocalTyped' /\ OthersAlone(r) /\ HandlerFits(r)' /\ manifest'[r] = <<>>
    BY <1>2, <1>3, <1>5, <2>2, EndLocal
  <2>5. VersionsGrow /\ ContentsGrow
    BY <1>2 DEF VersionsGrow, ContentsGrow
  <2>6. Typed'
    <3>1. syncs' \in Seq(Sync')
      BY <1>2, <2>2 DEF Sync, ManifestEntry
    <3>2. QED
      BY <1>2, <2>4, <3>1 DEF IInv, Typed, LocalTyped
  <2>7. HandlersFit'
    BY <2>4, <2>5, OthersFit
  <2>8. SyncsAreTrue'
    <3>1. \A k \in DOMAIN m : Truthful(m[k], a)
      BY <1>1 DEF HandlerFits
    <3>2. \A f, b : Truthful(f, b)' <=> Truthful(f, b)
      BY <1>2 DEF Truthful
    <3>3. \A i \in DOMAIN syncs' : \A k \in DOMAIN syncs'[i].files :
              Truthful(syncs'[i].files[k], syncs'[i].exec)
      BY <1>3, <2>1, <2>2, <2>3, <3>1 DEF IInv, SyncsAreTrue
    <3>4. QED
      BY <3>2, <3>3 DEF SyncsAreTrue
  <2>9. ClaimsApart'
    <3>1. \A o, q : Apart(o, q) => Apart(q, o)
      BY DEF Apart
    <3>2. \A o : Apart(o, <<>>) /\ Apart(<<>>, o) /\ ClaimsOnce(<<>>)
      BY DEF Apart, ClaimsOnce
    <3>3. ASSUME NEW w \in Syncer
          PROVE  manifest'[w] = <<>> \/ (w # r /\ manifest'[w] = manifest[w])
      <4>1. CASE w = r
        BY <2>4, <4>1
      <4>2. CASE w # r
        BY <2>4, <4>2 DEF OthersAlone
      <4>3. QED
        BY <4>1, <4>2
    <3>4. /\ \A w \in Syncer : ClaimsOnce(manifest'[w])
          /\ \A v, w \in Syncer : v # w => Apart(manifest'[v], manifest'[w])
      BY <3>2, <3>3 DEF IInv, ClaimsApart
    <3>5. \A i \in 1..n : /\ ClaimsOnce(syncs[i].files)
                          /\ Apart(syncs[i].files, m)
                          /\ \A w \in Syncer : Apart(syncs[i].files, manifest'[w])
                          /\ \A j \in 1..n : i # j => Apart(syncs[i].files, syncs[j].files)
      BY <1>3, <3>2, <3>3 DEF IInv, ClaimsApart
    <3>6. ClaimsOnce(m) /\ \A w \in Syncer : Apart(m, manifest'[w])
      BY <3>2, <3>3 DEF IInv, ClaimsApart
    <3>7. \A i \in DOMAIN syncs' :
              /\ ClaimsOnce(syncs'[i].files)
              /\ \A w \in Syncer : Apart(syncs'[i].files, manifest'[w])
              /\ \A j \in DOMAIN syncs' : i # j => Apart(syncs'[i].files, syncs'[j].files)
      BY <2>1, <2>2, <2>3, <3>1, <3>5, <3>6
    <3>8. QED
      BY <3>4, <3>7 DEF ClaimsApart
  <2>10. RecordedSpecIsKept'
    <3> DEFINE Kept(c, f) == \E v \in DOMAIN contents[<<c, f.path>>] :
                                 contents[<<c, f.path>>][v] = f.digest
               Last(o, k) == \A l \in DOMAIN o : l > k =>
                   ~(o[l].path \in SpecPath /\ o[l].outcome # "refused")
               Good(c, o) == \A k \in DOMAIN o :
                   c # Unbound /\ o[k].path \in SpecPath /\ o[k].outcome # "refused" /\ Last(o, k)
                   => Kept(c, o[k])
    <3>1. Good(e, m)
      BY <1>1, SpecIsDue
    <3>2. \A i \in 1..n : Good(syncs[i].epic, syncs[i].files)
      BY <1>3 DEF IInv, RecordedSpecIsKept
    <3> HIDE DEF Good
    <3>3. \A i \in DOMAIN syncs' : Good(syncs'[i].epic, syncs'[i].files)
      BY <2>1, <2>2, <2>3, <3>1, <3>2
    <3> USE DEF Good
    <3>4. QED
      BY <1>2, <3>3 DEF RecordedSpecIsKept
  <2>11. OneRowEach' /\ VersionsAreChanges'
    BY <1>2 DEF IInv, OneRowEach, VersionsAreChanges
  <2>12. QED
    BY <2>6, <2>7, <2>8, <2>9, <2>10, <2>11 DEF IInv
<1>6. QED
  BY <1>4, <1>5 DEF RecordSync
----------------------------------------------------------------------------
\* Theorems

\* With nothing stored and every handler idle, the inductive invariant holds.
LEMMA InitInvariant == Init => IInv
<1> SUFFICES ASSUME Init PROVE IInv
  OBVIOUS
<1>1. NoRequest \in Attempt
  BY AttemptAssumption DEF NoRequest
<1>2. Len(<<>>) = 0 /\ DOMAIN <<>> = {} /\ \A S : <<>> \in Seq(S)
  BY EmptySeq
<1>3. Typed
  <2>1. /\ contents \in [Epic \X SpecPath -> Seq(Content)]
        /\ manifest \in [Syncer -> Seq(ManifestEntry)]
    BY <1>2 DEF Init
  <2>2. tries \in [Syncer -> 0..MaxTries] /\ crashes \in 0..MaxCrashes
        /\ answer \in [Syncer -> 0..Len(syncs)]
    BY <1>2, BoundsAssumption DEF Init
  <2>3. QED
    BY <1>1, <1>2, <2>1, <2>2 DEF Init, Typed, Pc
<1>4. HandlersFit
  <2>1. \A r \in Syncer : Len(req[r].files) \in Nat
    BY <1>3, RequestTyped
  <2>2. QED
    BY <1>2, <2>1 DEF Init, HandlersFit, HandlerFits
<1>5. OneRowEach /\ SyncsAreTrue /\ ClaimsApart /\ RecordedSpecIsKept
  BY <1>2 DEF Init, OneRowEach, SyncsAreTrue, ClaimsApart, ClaimsOnce, Apart, RecordedSpecIsKept
<1>6. VersionsAreChanges
  BY <1>2 DEF Init, VersionsAreChanges
<1>7. QED
  BY <1>3, <1>4, <1>5, <1>6 DEF IInv

\* Every step of a handler keeps it.
LEMMA NextInvariant == IInv /\ [Next]_vars => IInv'
<1> SUFFICES ASSUME IInv, [Next]_vars PROVE IInv'
  OBVIOUS
<1>1. CASE UNCHANGED vars
  <2>1. /\ versions' = versions /\ syncs' = syncs /\ contents' = contents /\ current' = current
        /\ pc' = pc /\ req' = req /\ manifest' = manifest /\ head' = head /\ tries' = tries
        /\ answer' = answer /\ crashes' = crashes
    BY <1>1 DEF vars, rows, locals
  <2>2. Typed' /\ OneRowEach' /\ SyncsAreTrue'
    <3>1. Typed'
      BY <2>1 DEF IInv, Typed, ManifestEntry, Sync
    <3>2. OneRowEach' /\ SyncsAreTrue'
      BY <2>1 DEF IInv, OneRowEach, SyncsAreTrue, Truthful
    <3>3. QED
      BY <3>1, <3>2
  <2>3. HandlersFit'
    BY <2>1 DEF IInv, HandlersFit, HandlerFits, Truthful, HasSpec, EpicOfRequest, Done,
       Source, SpecFile
  <2>4. ClaimsApart'
    BY <2>1 DEF IInv, ClaimsApart
  <2>5. RecordedSpecIsKept' /\ VersionsAreChanges'
    BY <2>1, SpecStays DEF IInv, VersionsAreChanges, ContentsGrow
  <2>6. QED
    BY <2>2, <2>3, <2>4, <2>5 DEF IInv
<1>2. ASSUME NEW r \in Syncer, Replay(r) \/ Conflict(r) \/ GiveUp(r) \/ Crash(r)
      PROVE  IInv'
  <2>1. End(r) /\ UNCHANGED rows
    BY <1>2 DEF Replay, Conflict, GiveUp, Crash
  <2>2. crashes' \in 0..MaxCrashes
    BY <1>2, BoundsAssumption DEF Replay, Conflict, GiveUp, Crash, IInv, Typed
  <2>3. QED
    BY <2>1, <2>2, EndStep
<1>3. QED
  BY <1>1, <1>2, FindSyncStep, RefuseFileStep, StoreFileStep, SpecificationStep,
     WriteSpecificationStep, RecordSyncStep DEF Next

\* The inductive invariant holds of every behaviour, for any number of Epics,
\* paths, contents, requests and handlers.
THEOREM Invariance == Spec => []IInv
  BY InitInvariant, NextInvariant, PTL DEF Spec

\* Whatever synchronisations race, die and are sent again: the accepted rows of a
\* manifest name the one version of their path and digest, and a version is
\* claimed to have been created at most once, by the execution it names; and every
\* variable keeps its type (createVersion, recordSync).
THEOREM ManifestsAreTrue == Spec => []ManifestsTellTheTruth
<1>1. IInv => TypeOK
  <2> SUFFICES ASSUME IInv PROVE TypeOK
    OBVIOUS
  <2>1. \A s \in Epic \X SpecPath : contents[s] \in Seq(Content) /\ current[s] \in 0..Len(contents[s])
    BY Lengths DEF IInv, VersionsAreChanges
  <2>2. \A r \in Syncer : \A i \in DOMAIN manifest[r] :
            manifest[r][i].outcome = "refused" <=> manifest[r][i].version = 0
    BY DEF IInv, HandlersFit, HandlerFits, Truthful
  <2>3. QED
    BY <2>1, <2>2 DEF IInv, Typed, TypeOK, Row, Sync
<1>2. IInv => ManifestsTellTheTruth
  <2> SUFFICES ASSUME IInv, NEW i \in DOMAIN syncs, NEW k \in DOMAIN syncs[i].files,
                      NEW f, f = syncs[i].files[k], f.outcome # "refused"
               PROVE  /\ VersionOf(f) = {f.version}
                      /\ Claims(i, k) =>
                            /\ versions[f.version].exec = syncs[i].exec
                            /\ \A j \in DOMAIN syncs : \A l \in DOMAIN syncs[j].files :
                                 Claims(j, l) /\ syncs[j].files[l].version = f.version
                                 => i = j /\ k = l
    BY <1>1 DEF ManifestsTellTheTruth
  <2>1. Truthful(f, syncs[i].exec)
    BY DEF IInv, SyncsAreTrue
  <2>2. VersionOf(f) = {f.version}
    BY <2>1 DEF Truthful, VersionOf, IInv, OneRowEach
  <2>3. ASSUME Claims(i, k), NEW j \in DOMAIN syncs, NEW l \in DOMAIN syncs[j].files,
               Claims(j, l), syncs[j].files[l].version = f.version
        PROVE  i = j /\ k = l
    BY <2>3 DEF IInv, ClaimsApart, ClaimsOnce, Apart, Claims
  <2>4. QED
    BY <2>1, <2>2, <2>3 DEF Truthful, Claims
<1>3. QED
  BY <1>2, Invariance, PTL

\* A synchronisation that is recorded has left the Epic's spec.md among the
\* versions of its specification, wherever it or another died (DEF-045-002).
THEOREM RecordsAreComplete == Spec => []RecordedSpecIsKept
<1>1. IInv => RecordedSpecIsKept
  BY DEF IInv
<1>2. QED
  BY <1>1, Invariance, PTL

\* Every version of a specification is a change of the one before, and the current
\* one is the last, however appends race (appendVersion).
THEOREM VersionsChange == Spec => []VersionsAreChanges
<1>1. IInv => VersionsAreChanges
  BY DEF IInv
<1>2. QED
  BY <1>1, Invariance, PTL
=============================================================================
