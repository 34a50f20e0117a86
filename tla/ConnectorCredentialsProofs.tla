---------------------- MODULE ConnectorCredentialsProofs ----------------------
(***************************************************************************)
(* Proofs about connector credentials, for any credentials, any number of  *)
(* calls, revocations and changes: a call that arrives after its           *)
(* principal moved is not taken for a delegated one.  And about            *)
(* provisioning, for any projects, directories, requests and readers: a    *)
(* record claims only what was done, and prepared means submitted.         *)
(***************************************************************************)
EXTENDS ConnectorCredentials, Provisioning, FiniteSetTheorems, SequenceTheorems,
        WellFoundedInduction, TLAPS

MintPoint == {"idle", "registered", "created", "attached", "captured", "delegated", "done", "dead"}
CallPoint == {"idle", "principal", "touch", "identity", "state", "delegation", "acted",
             "delegated", "refused"}
Principal == [state: {"none", "active", "suspended", "revoked"},
              version: Nat \ {0}, attached: BOOLEAN]
Delegation == [cred: Credential, version: Nat \ {0}, revoked: BOOLEAN]
Call == [cred: Credential \cup {NoCred}, attached: BOOLEAN, version: Nat,
         late: BOOLEAN]

\* Where the three kinds of handlers stand.
Handlers ==
  /\ mpc \in [Credential -> MintPoint] /\ pinned \in [Credential -> Nat]
  /\ cpc \in [Caller -> CallPoint] /\ call \in [Caller -> Call]
  /\ vpc \in [Revoker -> {"idle", "row", "list", "revoke", "done"}]
  /\ target \in [Revoker -> Credential \cup {NoCred}]
  /\ left \in [Revoker -> SUBSET Nat]
  /\ outdated \subseteq Credential /\ behind \subseteq Credential

InFlight(k) == cpc[k] \notin {"idle", "refused"}

\* A call is served for a credential whose value somebody has, and a revocation
\* or a change for a credential that exists.
Served ==
  /\ \A k \in Caller : InFlight(k) => call[k].cred \in known
  /\ \A v \in Revoker : vpc[v] = "row" => target[v] \in Credential
  /\ \A o \in Operator : moving[o] # NoMove => moving[o].cred \in Credential

\* A snapshot is taken once, before the delegation is made.  The principal is at
\* the version it pins or past it, until somebody writes who had read an older one.
Pins ==
  /\ \A c \in Credential :
       /\ mpc[c] \in {"idle", "registered", "created", "attached"} => pinned[c] = 0
       /\ mpc[c] = "captured" => pinned[c] # 0
       /\ c \notin behind => pinned[c] <= principal[c].version
       /\ c \in behind => pinned[c] # 0
  /\ \A i \in DOMAIN delegations : pinned[delegations[i].cred] # 0

\* A principal that has changed since is past the version that is pinned.
Overtaken ==
  \A c \in outdated : /\ pinned[c] # 0
                      /\ c \in behind \/ pinned[c] < principal[c].version

\* A call that came late reads a version no delegation carries.
Calls ==
  \A k \in Caller :
    /\ InFlight(k) /\ call[k].late => call[k].cred \in outdated
    /\ cpc[k] = "delegation" /\ call[k].late =>
         call[k].cred \in behind \/ pinned[call[k].cred] < call[k].version
    /\ cpc[k] = "delegated" /\ call[k].late => call[k].cred \in behind

IInv == TypeOK /\ Handlers /\ Served /\ Pins /\ Overtaken /\ Calls
-----------------------------------------------------------------------------
\* The two tables, and what one row of each may be replaced by.
LEMMA Tables ==
  ASSUME TypeOK
  PROVE  /\ principal \in [Credential -> Principal]
         /\ delegations \in Seq(Delegation) /\ DOMAIN delegations = 1..Len(delegations)
         /\ \A i \in DOMAIN delegations : delegations[i] \in Delegation
PROOF
<1>1. principal \in [Credential -> Principal]
  BY DEF TypeOK, Principal
<1>2. delegations \in Seq(Delegation)
  BY DEF TypeOK, Delegation
<1> QED
  BY <1>1, <1>2, ElementOfSeq

LEMMA RecordUpdates ==
  /\ \A p \in Principal : \A s \in {"active", "suspended", "revoked"} :
       LET q == [p EXCEPT !.state = s] IN q \in Principal /\ q.version = p.version
  /\ \A p \in Principal : \A b \in BOOLEAN :
       LET q == [p EXCEPT !.attached = b] IN q \in Principal /\ q.version = p.version
  /\ \A d \in Delegation :
       LET e == [d EXCEPT !.revoked = TRUE]
       IN  e \in Delegation /\ e.cred = d.cred /\ e.version = d.version
PROOF
<1>1. ASSUME NEW p \in Principal, NEW s \in {"active", "suspended", "revoked"}
      PROVE  LET q == [p EXCEPT !.state = s] IN q \in Principal /\ q.version = p.version
  BY DEF Principal
<1>2. ASSUME NEW p \in Principal, NEW b \in BOOLEAN
      PROVE  LET q == [p EXCEPT !.attached = b] IN q \in Principal /\ q.version = p.version
  BY DEF Principal
<1>4. ASSUME NEW d \in Delegation
      PROVE  LET e == [d EXCEPT !.revoked = TRUE]
             IN  e \in Delegation /\ e.cred = d.cred /\ e.version = d.version
  BY DEF Delegation
<1> QED
  BY <1>1, <1>2, <1>4

\* In the initial state nothing is under way and nothing was withdrawn.
LEMMA InitInvariant == Init => IInv
PROOF
<1> SUFFICES ASSUME Init PROVE IInv
  OBVIOUS
<1> USE LegacyAssumption, BoundsAssumption
<1>1. TypeOK
  BY DEF Init, TypeOK, NoMove
<1>2. Handlers
  <2>1. NoCall \in Call
    BY DEF NoCall, Call
  <2> QED
    BY <2>1 DEF Init, Handlers, MintPoint, CallPoint
<1>3. Served /\ Pins /\ Overtaken
  BY DEF Init, Served, InFlight, Pins, Overtaken
<1>4. Calls
  BY DEF Init, Calls, InFlight, NoCall
<1> QED
  BY <1>1, <1>2, <1>3, <1>4 DEF IInv

\* One of a mint's first writes: it moves the phase, and touches neither a pin
\* nor a version nor a delegation.
LEMMA EarlyMintStep ==
  ASSUME IInv, NEW c \in Credential,
         \/ RegisterPrincipal(c) \/ CreateCredential(c) \/ AttachRegistration(c)
         \/ SetSnapshot(c) \/ CrashMint(c)
  PROVE  IInv'
PROOF
<1>1. /\ principal' \in [Credential -> Principal]
      /\ \A d \in Credential : principal'[d].version = principal[d].version
  <2>1. CASE RegisterPrincipal(c)
    <3>1. principal' = [principal EXCEPT ![c] = [principal[c] EXCEPT !.state = "active"]]
      BY <2>1 DEF RegisterPrincipal
    <3> QED
      BY <3>1, Tables, RecordUpdates DEF IInv
  <2>2. CASE AttachRegistration(c)
    <3>1. principal' = [principal EXCEPT ![c] = [principal[c] EXCEPT !.attached = TRUE]]
      BY <2>2 DEF AttachRegistration
    <3> QED
      BY <3>1, Tables, RecordUpdates DEF IInv
  <2>3. CASE CreateCredential(c) \/ SetSnapshot(c) \/ CrashMint(c)
    BY <2>3, Tables DEF IInv, CreateCredential, SetSnapshot, CrashMint, rows
  <2> QED
    BY <2>1, <2>2, <2>3
<1>2. /\ UNCHANGED <<cpc, call, vpc, target, left, delegations, pinned, moving, changes,
                     outdated, behind>>
      /\ known \subseteq known' /\ known' \subseteq Credential
  BY DEF IInv, TypeOK, RegisterPrincipal, CreateCredential, AttachRegistration,
         SetSnapshot, CrashMint, rows, caller, revoker, history, operator
<1>3. TypeOK'
  <2>1. /\ row' \in [Credential -> {"none", "active", "revoked"}]
        /\ used' = used
        /\ snapshot' \subseteq Credential
        /\ changes' \in 0..MaxChanges /\ crashes' \in 0..MaxCrashes
    <3>1. CASE CreateCredential(c)
      BY <3>1 DEF IInv, TypeOK, CreateCredential, history, operator
    <3>2. CASE CrashMint(c)
      BY <3>2, BoundsAssumption DEF IInv, TypeOK, CrashMint, rows, operator
    <3>3. CASE RegisterPrincipal(c) \/ AttachRegistration(c)
      BY <3>3 DEF IInv, TypeOK, RegisterPrincipal, AttachRegistration, history, operator
    <3>4. CASE SetSnapshot(c)
      BY <3>4 DEF IInv, TypeOK, SetSnapshot, history, operator
    <3> QED
      BY <3>1, <3>2, <3>3, <3>4
  <2> QED
    BY <1>1, <1>2, <2>1 DEF IInv, TypeOK, Principal
<1>4. Handlers'
  BY <1>2 DEF IInv, Handlers, RegisterPrincipal, CreateCredential, AttachRegistration,
              SetSnapshot, CrashMint, Mint, MintPoint
<1>5. Served'
  BY <1>2 DEF IInv, Served, InFlight
<1>6. Pins'
  BY <1>1, <1>2 DEF IInv, Pins, Handlers, RegisterPrincipal, CreateCredential,
                    AttachRegistration, SetSnapshot, CrashMint, Mint
<1>7. Overtaken' /\ Calls'
  BY <1>1, <1>2 DEF IInv, Overtaken, Calls, InFlight, Handlers
<1> QED
  BY <1>3, <1>4, <1>5, <1>6, <1>7 DEF IInv

\* The snapshot pins the version of the moment: no delegation of this credential
\* exists yet, and no change before it counts as late.
LEMMA CaptureStep ==
  ASSUME IInv, NEW c \in Credential, CaptureSnapshot(c)
  PROVE  IInv'
PROOF
<1>1. /\ mpc[c] = "attached" /\ mpc' = [mpc EXCEPT ![c] = "captured"]
      /\ pinned' = [pinned EXCEPT ![c] = principal[c].version]
      /\ UNCHANGED <<rows, caller, revoker, history>>
  BY DEF CaptureSnapshot, Mint
<1>2. /\ pinned[c] = 0 /\ c \notin outdated /\ c \notin behind
      /\ \A i \in DOMAIN delegations : delegations[i].cred # c
  BY <1>1 DEF IInv, Pins, Overtaken
<1>3. /\ principal[c].version \in Nat \ {0}
      /\ \A i \in DOMAIN delegations : delegations[i].cred \in Credential
  BY Tables DEF IInv, Principal, Delegation
<1>4. TypeOK'
  BY <1>1, <1>2, <1>3 DEF IInv, TypeOK, Handlers, rows, caller, revoker, history, operator
<1>5. Handlers'
  BY <1>1, <1>3 DEF IInv, Handlers, MintPoint, rows, caller, revoker, history, operator
<1>6. Served'
  BY <1>1 DEF IInv, Served, InFlight, rows, caller, revoker, history, operator
<1>7. Pins'
  BY <1>1, <1>2, <1>3 DEF IInv, Pins, Handlers, rows, history, operator
<1>8. Overtaken'
  BY <1>1, <1>2 DEF IInv, Overtaken, Handlers, rows, history, operator
<1>9. Calls'
  BY <1>1, <1>2 DEF IInv, Calls, InFlight, Handlers, rows, caller, history, operator
<1> QED
  BY <1>4, <1>5, <1>6, <1>7, <1>8, <1>9 DEF IInv

\* The delegation carries the version that is pinned.
LEMMA DelegateStep ==
  ASSUME IInv, NEW c \in Credential, Delegate(c)
  PROVE  IInv'
PROOF
<1> DEFINE d == [cred |-> c, version |-> pinned[c], revoked |-> FALSE]
           n == Len(delegations)
<1>1. /\ mpc[c] = "captured" /\ mpc' = [mpc EXCEPT ![c] = "delegated"]
      /\ delegations' = Append(delegations, d)
      /\ UNCHANGED <<row, used, snapshot, principal, known, pinned, caller, revoker, history>>
  BY DEF Delegate, Mint
<1>2. pinned[c] # 0 /\ d \in Delegation /\ delegations \in Seq(Delegation)
  BY <1>1 DEF IInv, Pins, Handlers, TypeOK, Delegation
<1>3. /\ d.cred = c /\ d.version = pinned[c]
  OBVIOUS
<1> HIDE DEF d
<1>4. /\ delegations' \in Seq(Delegation) /\ DOMAIN delegations = 1..n
      /\ DOMAIN delegations' = 1..(n + 1) /\ n \in Nat
      /\ \A i \in 1..n : delegations'[i] = delegations[i]
      /\ delegations'[n + 1] = d
  BY <1>1, <1>2, AppendProperties
<1>5. \A i \in DOMAIN delegations' :
        /\ delegations'[i].version = pinned[delegations'[i].cred]
        /\ pinned[delegations'[i].cred] # 0
  <2>1. \A i \in 1..n : delegations[i].version = pinned[delegations[i].cred]
                      /\ pinned[delegations[i].cred] # 0
    BY <1>4 DEF IInv, TypeOK, Pins
  <2> QED
    BY <1>2, <1>3, <1>4, <2>1
<1>6. TypeOK'
  <2>1. \A v \in Revoker : left'[v] \subseteq DOMAIN delegations'
    BY <1>1, <1>4 DEF IInv, TypeOK, revoker
  <2> QED
    BY <1>1, <1>4, <1>5, <2>1 DEF IInv, TypeOK, Delegation, history, operator
<1>7. Handlers'
  BY <1>1 DEF IInv, Handlers, MintPoint, caller, revoker, history, operator
<1>8. Served'
  BY <1>1 DEF IInv, Served, InFlight, caller, revoker, history, operator
<1>9. Pins'
  BY <1>1, <1>2, <1>5 DEF IInv, Pins, Handlers, history, operator
<1>10. Overtaken' /\ Calls'
  BY <1>1 DEF IInv, Overtaken, Calls, InFlight, caller, history, operator
<1> QED
  BY <1>6, <1>7, <1>8, <1>9, <1>10 DEF IInv
\* What a call does, for the other parts of the system: nothing but its own
\* variables and the column it touches.
LEMMA CallTypes ==
  ASSUME IInv, NEW k \in Caller, CallStep(k)
  PROVE  /\ UNCHANGED <<row, snapshot, principal, delegations, known, minter, revoker, history>>
         /\ used' \subseteq known'
         /\ \A j \in Caller \ {k} : cpc'[j] = cpc[j] /\ call'[j] = call[j]
         /\ cpc' \in [Caller -> CallPoint] /\ call' \in [Caller -> Call]
PROOF
<1>1. NoCall \in Call /\ call[k] \in Call
  BY DEF NoCall, Call, IInv, Handlers
<1>2. \A c \in Credential, late \in BOOLEAN : [NoCall EXCEPT !.cred = c, !.late = late] \in Call
  BY DEF NoCall, Call
<1>3. \A b \in BOOLEAN : [call[k] EXCEPT !.attached = b] \in Call
  BY <1>1 DEF Call
<1>4. \A n \in Nat : [call[k] EXCEPT !.version = n] \in Call
  BY <1>1 DEF Call
<1>5. CASE Authenticate(k)
  <2>1. PICK c \in known :
          IF row[c] = "revoked" THEN Refuse(k)
          ELSE /\ call' = [call EXCEPT ![k] = [NoCall EXCEPT !.cred = c, !.late = c \in outdated]]
               /\ cpc' = [cpc EXCEPT ![k] = "principal"]
    BY <1>5 DEF Authenticate
  <2>2. c \in Credential /\ (c \in outdated) \in BOOLEAN
    BY DEF IInv, TypeOK
  <2>3. [NoCall EXCEPT !.cred = c, !.late = c \in outdated] \in Call
    BY <1>2, <2>2
  <2>4. /\ \A j \in Caller \ {k} : cpc'[j] = cpc[j] /\ call'[j] = call[j]
        /\ cpc' \in [Caller -> CallPoint] /\ call' \in [Caller -> Call]
    BY <1>1, <2>1, <2>3 DEF Refuse, CallPoint, IInv, Handlers
  <2> QED
    BY <1>5, <2>4 DEF Authenticate, rows, IInv, TypeOK
<1>6. CASE ForPrincipal(k)
  <2>1. call[k].cred \in Credential
    BY <1>6 DEF ForPrincipal, IInv, Served, InFlight, TypeOK
  <2>2. principal[call[k].cred].attached \in BOOLEAN
    BY <2>1 DEF IInv, TypeOK
  <2>3. call' = [call EXCEPT ![k] = NoCall] \/
        call' = [call EXCEPT ![k] = [call[k] EXCEPT !.attached = principal[call[k].cred].attached]]
    BY <1>6 DEF ForPrincipal, Refuse
  <2>4. call' \in [Caller -> Call] /\ \A j \in Caller \ {k} : call'[j] = call[j]
    BY <1>1, <1>3, <2>2, <2>3 DEF IInv, Handlers
  <2> QED
    BY <1>6, <2>4 DEF ForPrincipal, Refuse, rows, IInv, TypeOK, Handlers, CallPoint
<1>7. CASE TouchLastUsed(k)
  BY <1>7 DEF TouchLastUsed, IInv, TypeOK, Handlers, CallPoint, Served, InFlight
<1>8. CASE ActOnGuard(k) \/ Identify(k) \/ RequireDelegated(k)
  <2>1. call' = call \/ call' = [call EXCEPT ![k] = NoCall]
    BY <1>8 DEF ActOnGuard, Identify, RequireDelegated, Refuse
  <2>2. \E to \in CallPoint : cpc' = [cpc EXCEPT ![k] = to]
    BY <1>8 DEF ActOnGuard, Identify, RequireDelegated, Refuse, CallPoint
  <2>3. /\ \A j \in Caller \ {k} : cpc'[j] = cpc[j] /\ call'[j] = call[j]
        /\ cpc' \in [Caller -> CallPoint] /\ call' \in [Caller -> Call]
    BY <1>1, <2>1, <2>2 DEF IInv, Handlers
  <2> QED
    BY <1>8, <2>3 DEF ActOnGuard, Identify, RequireDelegated, rows, IInv, TypeOK
<1>9. CASE PrincipalState(k)
  <2>1. call[k].cred \in Credential
    BY <1>9 DEF PrincipalState, IInv, Served, InFlight, TypeOK
  <2>2. principal[call[k].cred].version \in Nat
    BY <2>1 DEF IInv, TypeOK
  <2>3. call' = [call EXCEPT ![k] = NoCall] \/
        call' = [call EXCEPT ![k] = [call[k] EXCEPT !.version = principal[call[k].cred].version]]
    BY <1>9 DEF PrincipalState, Refuse
  <2>4. call' \in [Caller -> Call] /\ \A j \in Caller \ {k} : call'[j] = call[j]
    BY <1>1, <1>4, <2>2, <2>3 DEF IInv, Handlers
  <2> QED
    BY <1>9, <2>4 DEF PrincipalState, Refuse, rows, IInv, TypeOK, Handlers, CallPoint
<1> QED
  BY <1>5, <1>6, <1>7, <1>8, <1>9 DEF CallStep

\* Of a late call, each step keeps what the next one relies on; the last one
\* finds no delegation of the version it read.
LEMMA CallStepInvariant ==
  ASSUME IInv, NEW k \in Caller, CallStep(k)
  PROVE  IInv'
PROOF
<1>1. /\ UNCHANGED <<row, snapshot, principal, delegations, known, minter, revoker, history>>
      /\ used' \subseteq known'
      /\ \A j \in Caller \ {k} : cpc'[j] = cpc[j] /\ call'[j] = call[j]
      /\ cpc' \in [Caller -> CallPoint] /\ call' \in [Caller -> Call]
  BY CallTypes
<1>2. TypeOK' /\ Handlers'
  BY <1>1 DEF IInv, TypeOK, Handlers, minter, revoker, history, operator
<1>3. Pins' /\ Overtaken'
  BY <1>1 DEF IInv, Pins, Overtaken, minter, history, operator
<1>4. call[k] \in Call /\ NoCall.late = FALSE
  BY DEF IInv, Handlers, NoCall
<1> DEFINE Good(j) ==
      /\ InFlight(j) => call[j].cred \in known
      /\ InFlight(j) /\ call[j].late => call[j].cred \in outdated
      /\ cpc[j] = "delegation" /\ call[j].late =>
           call[j].cred \in behind \/ pinned[call[j].cred] < call[j].version
      /\ cpc[j] = "delegated" /\ call[j].late => call[j].cred \in behind
<1>5. Good(k)'
  <2>0. Good(k)
    BY DEF IInv, Served, Calls
  <2>1. CASE Refuse(k)
    <3>1. cpc'[k] = "refused" /\ call'[k] = NoCall
      BY <2>1 DEF Refuse, IInv, Handlers
    <3> QED
      BY <3>1, <1>4 DEF InFlight
  <2>2. ASSUME NEW c \in known, row[c] # "revoked", cpc' = [cpc EXCEPT ![k] = "principal"],
               call' = [call EXCEPT ![k] = [NoCall EXCEPT !.cred = c, !.late = c \in outdated]]
        PROVE  Good(k)'
    <3>1. /\ cpc'[k] = "principal" /\ call'[k].cred = c
          /\ call'[k].late = (c \in outdated)
      BY <2>2 DEF NoCall, IInv, Handlers
    <3> QED
      BY <3>1, <1>1 DEF InFlight, history, operator
  <2>3. ASSUME call'[k].cred = call[k].cred, call'[k].late = call[k].late, InFlight(k),
               cpc'[k] \in {"touch", "identity", "state", "acted"}
        PROVE  Good(k)'
    BY <2>0, <2>3, <1>1 DEF InFlight, history, operator
  <2>4. CASE Authenticate(k)
    BY <2>1, <2>2, <2>4 DEF Authenticate
  <2>5. CASE ForPrincipal(k)
    BY <2>1, <2>3, <2>5, <1>4 DEF ForPrincipal, InFlight, Call, IInv, Handlers
  <2>6. CASE TouchLastUsed(k) \/ ActOnGuard(k) \/ Identify(k)
    BY <2>1, <2>3, <2>6 DEF TouchLastUsed, ActOnGuard, Identify, InFlight, IInv, Handlers
  <2>7. CASE PrincipalState(k)
    <3> SUFFICES ASSUME ~Refuse(k) PROVE Good(k)'
      BY <2>1
    <3> DEFINE v == principal[call[k].cred].version
    <3>1. /\ cpc[k] = "state" /\ cpc' = [cpc EXCEPT ![k] = "delegation"]
          /\ call' = [call EXCEPT ![k] = [call[k] EXCEPT !.version = v]]
      BY <2>7 DEF PrincipalState
    <3>2. /\ cpc'[k] = "delegation" /\ call'[k].version = v /\ call'[k].cred = call[k].cred
          /\ call'[k].late = call[k].late
      BY <3>1, <1>4 DEF Call, IInv, Handlers
    <3>3. call[k].late => call[k].cred \in outdated /\ (call[k].cred \in behind \/ pinned[call[k].cred] < v)
      BY <2>0, <3>1 DEF InFlight, IInv, Overtaken
    <3> QED
      BY <2>0, <3>1, <3>2, <3>3, <1>1 DEF InFlight, minter, history, operator
  <2>8. CASE RequireDelegated(k)
    <3> SUFFICES ASSUME ~Refuse(k) PROVE Good(k)'
      BY <2>1
    <3>1. /\ cpc[k] = "delegation" /\ cpc'[k] = "delegated" /\ call' = call
          /\ Usable(call[k].cred, call[k].version)
      BY <2>8 DEF RequireDelegated, IInv, Handlers
    <3>2. call[k].version = pinned[call[k].cred]
      BY <3>1 DEF Usable, IInv, TypeOK
    <3>3. call[k].late => call[k].cred \in behind
      BY <2>0, <3>1, <3>2 DEF IInv, Handlers, Call
    <3> QED
      BY <2>0, <3>1, <3>3, <1>1 DEF InFlight, history, operator
  <2> QED
    BY <2>4, <2>5, <2>6, <2>7, <2>8 DEF CallStep
<1>6. \A j \in Caller \ {k} : Good(j)'
  BY <1>1 DEF IInv, Served, Calls, InFlight, minter, history, operator
<1>7. Served' /\ Calls'
  <2>1. \A v \in Revoker : vpc'[v] = "row" => target'[v] \in Credential
    BY <1>1 DEF IInv, Served, revoker
  <2>2. \A o \in Operator : moving'[o] # NoMove => moving'[o].cred \in Credential
    BY <1>1 DEF IInv, Served, history, operator
  <2> QED
    BY <1>5, <1>6, <2>1, <2>2 DEF Served, Calls
<1> QED
  BY <1>2, <1>3, <1>7 DEF IInv
\* A revocation moves no version and makes no delegation.
LEMMA RevokeTypes ==
  ASSUME IInv, NEW v \in Revoker, RevokeStep(v)
  PROVE  /\ UNCHANGED <<used, snapshot, principal, known, minter, caller, operator>>
         /\ row' \in [Credential -> {"none", "active", "revoked"}]
         /\ crashes' \in 0..MaxCrashes
         /\ delegations' \in Seq(Delegation) /\ DOMAIN delegations' = DOMAIN delegations
         /\ \A i \in DOMAIN delegations :
              /\ delegations'[i].cred = delegations[i].cred
              /\ delegations'[i].version = delegations[i].version
PROOF
<1>1. CASE FindRevoked(v) \/ RevokeRow(v) \/ ListActive(v)
  BY <1>1, Tables DEF FindRevoked, RevokeRow, ListActive, rows, minter, caller, history, operator, IInv, TypeOK
<1>2. CASE CrashRevoke(v)
  BY <1>2, Tables, BoundsAssumption DEF CrashRevoke, rows, minter, caller, IInv, TypeOK
<1>3. CASE RevokeDelegation(v)
  <2>1. CASE left[v] = {}
    BY <1>3, <2>1, Tables DEF RevokeDelegation, minter, caller, history, operator, IInv, TypeOK
  <2>2. CASE left[v] # {}
    <3>1. PICK i \in left[v] : delegations' = [delegations EXCEPT ![i].revoked = TRUE]
      BY <1>3, <2>2 DEF RevokeDelegation
    <3> DEFINE e == [delegations[i] EXCEPT !.revoked = TRUE]
    <3>2. i \in 1..Len(delegations) /\ delegations[i] \in Delegation
      BY <3>1, Tables DEF IInv, TypeOK
    <3>3. e \in Delegation /\ e.cred = delegations[i].cred /\ e.version = delegations[i].version
      BY <3>2, RecordUpdates
    <3>4. delegations' = [delegations EXCEPT ![i] = e]
      BY <3>1
    <3> HIDE DEF e
    <3>5. /\ delegations' \in Seq(Delegation) /\ Len(delegations') = Len(delegations)
          /\ \A j \in 1..Len(delegations) :
               delegations'[j] = IF j = i THEN e ELSE delegations[j]
      BY <3>2, <3>3, <3>4, Tables, ExceptSeq DEF IInv
    <3>6. DOMAIN delegations' = DOMAIN delegations /\ DOMAIN delegations = 1..Len(delegations)
      BY <3>4, Tables DEF IInv
    <3>7. UNCHANGED <<row, used, snapshot, principal, known, minter, caller, history>>
      BY <1>3 DEF RevokeDelegation
    <3> QED
      BY <3>3, <3>5, <3>6, <3>7 DEF history, operator, IInv, TypeOK
  <2> QED
    BY <2>1, <2>2
<1> QED
  BY <1>1, <1>2, <1>3 DEF RevokeStep

LEMMA RevokeHandlers ==
  ASSUME IInv, NEW v \in Revoker, RevokeStep(v)
  PROVE  /\ vpc' \in [Revoker -> {"idle", "row", "list", "revoke", "done"}]
         /\ target' \in [Revoker -> Credential \cup {NoCred}]
         /\ left' \in [Revoker -> SUBSET Nat]
         /\ \A w \in Revoker : left'[w] \subseteq DOMAIN delegations
         /\ \A w \in Revoker : vpc'[w] = "row" => target'[w] \in Credential
PROOF
<1> USE DEF IInv, Handlers, Served, TypeOK
<1>1. DOMAIN delegations \in SUBSET Nat
  BY Tables
<1>2. CASE FindRevoked(v) \/ RevokeRow(v)
  BY <1>2 DEF FindRevoked, RevokeRow
<1>3. CASE ListActive(v)
  BY <1>1, <1>3 DEF ListActive
<1>4. CASE CrashRevoke(v)
  BY <1>4 DEF CrashRevoke
<1>5. CASE RevokeDelegation(v)
  <2>1. CASE left[v] = {}
    BY <1>5, <2>1 DEF RevokeDelegation
  <2>2. CASE left[v] # {}
    <3>1. PICK i \in left[v] : left' = [left EXCEPT ![v] = left[v] \ {i}]
      BY <1>5, <2>2 DEF RevokeDelegation
    <3>2. vpc' = vpc /\ target' = target
      BY <1>5, <2>2 DEF RevokeDelegation
    <3>3. /\ left' \in [Revoker -> SUBSET Nat]
          /\ \A w \in Revoker : left'[w] \subseteq DOMAIN delegations
      BY <3>1
    <3> QED
      BY <3>2, <3>3
  <2> QED
    BY <2>1, <2>2
<1> QED
  BY <1>2, <1>3, <1>4, <1>5 DEF RevokeStep

LEMMA RevokeStepInvariant ==
  ASSUME IInv, NEW v \in Revoker, RevokeStep(v)
  PROVE  IInv'
PROOF
<1>1. /\ UNCHANGED <<used, snapshot, principal, known, mpc, pinned, cpc, call, moving, changes, outdated, behind>>
      /\ DOMAIN delegations' = DOMAIN delegations
      /\ \A i \in DOMAIN delegations :
           /\ delegations'[i].cred = delegations[i].cred
           /\ delegations'[i].version = delegations[i].version
  BY RevokeTypes DEF minter, caller, operator
<1>2. TypeOK'
  BY <1>1, RevokeTypes, RevokeHandlers DEF IInv, TypeOK, Delegation
<1>3. Handlers'
  BY <1>1, RevokeHandlers DEF IInv, Handlers
<1>4. Served'
  BY <1>1, RevokeHandlers DEF IInv, Served, InFlight
<1>5. Pins' /\ Overtaken' /\ Calls'
  BY <1>1 DEF IInv, Pins, Overtaken, Calls, InFlight
<1> QED
  BY <1>2, <1>3, <1>4, <1>5 DEF IInv

\* A change is begun: its operator notes what it read, and nothing else moves.
LEMMA ReadStepInvariant ==
  ASSUME IInv, NEW o \in Operator, ReadPrincipal(o)
  PROVE  IInv'
PROOF
<1>1. PICK c \in Credential :
        moving' = [moving EXCEPT ![o] = [cred |-> c, version |-> principal[c].version]]
  BY DEF ReadPrincipal
<1>2. /\ changes < MaxChanges /\ changes' = changes + 1
      /\ UNCHANGED <<row, used, snapshot, principal, delegations, known, mpc, pinned, cpc, call,
                     vpc, target, left, crashes, outdated, behind>>
  BY DEF ReadPrincipal, rows, minter, caller, revoker
<1>3. principal[c].version \in Nat
  BY Tables DEF IInv, Principal
<1>4. /\ moving' \in [Operator -> [cred: Credential \cup {NoCred}, version: Nat]]
      /\ moving'[o].cred = c /\ \A q \in Operator \ {o} : moving'[q] = moving[q]
  BY <1>1, <1>3 DEF IInv, TypeOK
<1>5. TypeOK'
  BY <1>2, <1>4, BoundsAssumption DEF IInv, TypeOK
<1>6. Handlers' /\ Pins' /\ Overtaken' /\ Calls'
  BY <1>2 DEF IInv, Handlers, Pins, Overtaken, Calls, InFlight
<1>7. Served'
  BY <1>2, <1>4 DEF IInv, Served, InFlight
<1> QED
  BY <1>5, <1>6, <1>7 DEF IInv

\* A change written by one who has read the pinned version, or a later one, moves
\* its principal past what is pinned; another leaves it behind.
LEMMA WriteStepInvariant ==
  ASSUME IInv, NEW o \in Operator, NEW to \in {"active", "suspended", "revoked"},
         WritePrincipal(o, to)
  PROVE  IInv'
PROOF
<1> DEFINE c == moving[o].cred
           n == moving[o].version + 1
<1>1. /\ principal' = [principal EXCEPT ![c].state = to, ![c].version = n]
      /\ moving[o] # NoMove /\ moving' = [moving EXCEPT ![o] = NoMove]
      /\ outdated' = (IF pinned[c] # 0 THEN outdated \cup {c} ELSE outdated)
      /\ behind' = (IF moving[o].version < pinned[c] THEN behind \cup {c} ELSE behind)
      /\ UNCHANGED <<row, used, snapshot, delegations, known, mpc, pinned, cpc, call,
                     vpc, target, left, changes, crashes>>
  BY DEF WritePrincipal, minter, caller, revoker
<1>2. /\ c \in Credential /\ moving[o].version \in Nat /\ n \in Nat \ {0}
      /\ NoMove \in [cred: Credential \cup {NoCred}, version: Nat]
  BY <1>1 DEF IInv, Served, TypeOK, NoMove
<1>3. /\ moving' \in [Operator -> [cred: Credential \cup {NoCred}, version: Nat]]
      /\ moving'[o] = NoMove /\ \A q \in Operator \ {o} : moving'[q] = moving[q]
  BY <1>1, <1>2 DEF IInv, TypeOK
<1>4. /\ principal' \in [Credential -> Principal]
      /\ principal'[c].version = n
      /\ \A d \in Credential \ {c} : principal'[d] = principal[d]
  <2>1. c \in Credential /\ n \in Nat \ {0} /\ principal[c] \in Principal
    BY <1>2, Tables DEF IInv
  <2> DEFINE q == [principal[c] EXCEPT !.state = to, !.version = n]
  <2> HIDE DEF c, n
  <2>2. principal' = [principal EXCEPT ![c] = q]
    BY <1>1
  <2>3. q \in Principal /\ q.version = n
    BY <2>1 DEF Principal
  <2>4. principal \in [Credential -> Principal]
    BY Tables DEF IInv
  <2> HIDE DEF q
  <2> QED
    BY <2>1, <2>2, <2>3, <2>4
<1>5. \A d \in Credential : principal[d].version \in Nat /\ pinned[d] \in Nat
  BY Tables DEF IInv, Principal, Handlers
<1>6. TypeOK'
  BY <1>1, <1>3, <1>4 DEF IInv, TypeOK, Principal
<1>7. Handlers' /\ Served'
  BY <1>1, <1>2, <1>3 DEF IInv, Handlers, Served, InFlight
<1>8. Pins'
  <2> HIDE DEF c
  <2> QED
    BY <1>1, <1>2, <1>4, <1>5 DEF IInv, Pins
<1>9. Overtaken'
  <2> HIDE DEF c
  <2>1. \A d \in outdated' : pinned[d] # 0
    BY <1>1 DEF IInv, Overtaken
  <2>2. c \in behind' \/ pinned[c] < principal'[c].version
    BY <1>1, <1>2, <1>4, <1>5
  <2>3. \A d \in outdated' \ {c} : d \in behind' \/ pinned[d] < principal'[d].version
    BY <1>1, <1>4 DEF IInv, Overtaken, Handlers
  <2> QED
    BY <1>1, <2>1, <2>2, <2>3 DEF Overtaken
<1>10. Calls'
  BY <1>1 DEF IInv, Calls, InFlight
<1> QED
  BY <1>6, <1>7, <1>8, <1>9, <1>10 DEF IInv
-----------------------------------------------------------------------------
LEMMA StepInvariant == IInv /\ [Next]_vars => IInv'
PROOF
<1> SUFFICES ASSUME IInv, [Next]_vars PROVE IInv'
  OBVIOUS
<1>1. ASSUME NEW c \in Credential, MintStep(c) PROVE IInv'
  BY <1>1, EarlyMintStep, CaptureStep, DelegateStep DEF MintStep
<1>2. ASSUME NEW k \in Caller, CallStep(k) PROVE IInv'
  BY <1>2, CallStepInvariant
<1>3. ASSUME NEW v \in Revoker, RevokeStep(v) PROVE IInv'
  BY <1>3, RevokeStepInvariant
<1>4. ASSUME NEW o \in Operator, ReadPrincipal(o) PROVE IInv'
  BY <1>4, ReadStepInvariant
<1>6. ASSUME NEW o \in Operator, NEW to \in {"active", "suspended", "revoked"},
             WritePrincipal(o, to)
      PROVE  IInv'
  BY <1>6, WriteStepInvariant
<1>5. CASE UNCHANGED vars
  BY <1>5 DEF vars, rows, minter, caller, revoker, history, operator,
              IInv, TypeOK, Handlers, Served, Pins, Overtaken, Calls, InFlight
<1> QED
  BY <1>1, <1>2, <1>3, <1>4, <1>5, <1>6 DEF Next

LEMMA Invariance == Spec => []IInv
PROOF BY InitInvariant, StepInvariant, PTL DEF Spec

\* The tables keep their types, and every delegation carries the version its
\* snapshot pinned, for any number of mints, calls and changes (mint, capture).
THEOREM Types == Spec => []TypeOK
PROOF
<1>1. IInv => TypeOK
  BY DEF IInv
<1> QED
  BY <1>1, Invariance, PTL

\* A call that arrives once its principal was moved past the version its delegation
\* pins is not taken for a delegated one, however many operators write over each
\* other's changes, unless one of them had read a version from before the snapshot
\* (requireDelegated, changeState, capture).
THEOREM NothingRegained == Spec => []NothingIsRegained
PROOF
<1>1. IInv => NothingIsRegained
  BY DEF IInv, Calls, NothingIsRegained
<1> QED
  BY <1>1, Invariance, PTL
-----------------------------------------------------------------------------
Owes(v, i) ==
  /\ target[v] = delegations[i].cred
  /\ vpc[v] = "list" \/ (vpc[v] = "revoke" /\ i \in left[v])

\* Unless its mint was overtaken, a credential that is revoked gets no delegation
\* any more, and as long as nobody died, somebody is about to revoke each one left.
Owed ==
  /\ \A c \in Credential : row[c] = "revoked" => mpc[c] = "done" \/ c \in hurried
  /\ crashes = 0 =>
       \A i \in DOMAIN delegations :
         LET c == delegations[i].cred
         IN  row[c] = "revoked" =>
               delegations[i].revoked \/ c \in hurried \/ \E v \in Revoker : Owes(v, i)

\* Minting grants nothing under a credential that is revoked already.
LEMMA MintOwed ==
  ASSUME IInv, Owed, NEW c \in Credential, MintStep(c)
  PROVE  Owed'
PROOF
<1>1. UNCHANGED <<vpc, target, left, hurried>>
  BY DEF MintStep, RegisterPrincipal, CreateCredential, AttachRegistration, CaptureSnapshot,
         Delegate, SetSnapshot, CrashMint, rows, revoker, history, operator
<1>2. CASE Delegate(c)
  <2> DEFINE d == [cred |-> c, version |-> pinned[c], revoked |-> FALSE]
             n == Len(delegations)
  <2>1. /\ mpc[c] = "captured" /\ mpc' = [mpc EXCEPT ![c] = "delegated"]
        /\ delegations' = Append(delegations, d) /\ row' = row /\ crashes' = crashes
    BY <1>2 DEF Delegate, Mint, history, operator
  <2>2. d \in Delegation /\ delegations \in Seq(Delegation) /\ d.cred = c
    BY <2>1, Tables DEF IInv, Pins, Handlers, Delegation
  <2> HIDE DEF d
  <2>3. /\ DOMAIN delegations = 1..n /\ DOMAIN delegations' = 1..(n + 1) /\ n \in Nat
        /\ \A i \in 1..n : delegations'[i] = delegations[i]
        /\ delegations'[n + 1] = d
    BY <2>1, <2>2, AppendProperties
  <2>4. row[c] = "revoked" => c \in hurried
    BY <2>1 DEF Owed
  <2>5. \A e \in Credential : row'[e] = "revoked" => mpc'[e] = "done" \/ e \in hurried'
    BY <1>1, <2>1, <2>4 DEF Owed, IInv, Handlers
  <2>6. ASSUME crashes' = 0, NEW i \in DOMAIN delegations',
               row'[delegations'[i].cred] = "revoked"
        PROVE  \/ delegations'[i].revoked \/ delegations'[i].cred \in hurried'
               \/ \E v \in Revoker : Owes(v, i)'
    <3>1. CASE i = n + 1
      BY <1>1, <2>1, <2>2, <2>3, <2>4, <2>6, <3>1
    <3>2. CASE i \in 1..n
      BY <1>1, <2>1, <2>3, <2>6, <3>2 DEF Owed, Owes
    <3> QED
      BY <2>3, <2>6, <3>1, <3>2
  <2> QED
    BY <2>5, <2>6 DEF Owed
<1>3. CASE ~Delegate(c)
  <2>1. /\ UNCHANGED delegations /\ (crashes' = 0 => crashes = 0)
        /\ \A e \in Credential : row'[e] = "revoked" => row[e] = "revoked"
        /\ \A e \in Credential : mpc[e] = "done" => mpc'[e] = "done"
    <3>1. CASE CrashMint(c)
      BY <3>1 DEF CrashMint, rows, IInv, TypeOK, Handlers
    <3>2. CASE CreateCredential(c)
      BY <3>2 DEF CreateCredential, Mint, history, operator, IInv, TypeOK, Handlers
    <3>3. CASE RegisterPrincipal(c) \/ AttachRegistration(c) \/ CaptureSnapshot(c) \/ SetSnapshot(c)
      BY <3>3 DEF RegisterPrincipal, AttachRegistration, CaptureSnapshot, SetSnapshot, Mint,
                  rows, history, operator, IInv, Handlers
    <3> QED
      BY <1>3, <3>1, <3>2, <3>3 DEF MintStep
  <2>2. \A i \in DOMAIN delegations : delegations[i].cred \in Credential
    BY Tables DEF IInv, Delegation
  <2> QED
    BY <1>1, <2>1, <2>2 DEF Owed, Owes
<1> QED
  BY <1>2, <1>3

\* Revoking the row owes the listing, listing owes each delegation, and revoking
\* one pays for it.
LEMMA RevokeOwed ==
  ASSUME IInv, Owed, NEW v \in Revoker, RevokeStep(v)
  PROVE  Owed'
PROOF
<1>0. /\ mpc' = mpc /\ DOMAIN delegations' = DOMAIN delegations
      /\ \A i \in DOMAIN delegations : /\ delegations'[i].cred = delegations[i].cred
                                       /\ delegations[i].cred \in Credential
  BY RevokeTypes, Tables DEF minter, IInv, Delegation
<1>1. CASE FindRevoked(v)
  <2>1. /\ UNCHANGED <<row, delegations, hurried, crashes, left>>
        /\ \A w \in Revoker \ {v} : vpc'[w] = vpc[w] /\ target'[w] = target[w]
        /\ vpc[v] = "idle"
    BY <1>1 DEF FindRevoked, rows, history, operator, IInv, Handlers
  <2>2. \A w \in Revoker, i \in DOMAIN delegations : Owes(w, i) => Owes(w, i)'
    BY <2>1 DEF Owes
  <2> QED
    BY <1>0, <2>1, <2>2 DEF Owed
<1>2. CASE RevokeRow(v)
  <2> DEFINE c == target[v]
  <2>1. /\ UNCHANGED <<delegations, crashes, left, target>> /\ vpc[v] = "row"
        /\ row' = [row EXCEPT ![c] = "revoked"] /\ vpc' = [vpc EXCEPT ![v] = "list"]
        /\ hurried' = IF mpc[c] = "done" THEN hurried ELSE hurried \cup {c}
    BY <1>2 DEF RevokeRow
  <2>2. \A w \in Revoker, i \in DOMAIN delegations : Owes(w, i) => Owes(w, i)'
    BY <2>1 DEF Owes, IInv, Handlers
  <2>3. \A i \in DOMAIN delegations : delegations[i].cred = c => Owes(v, i)'
    BY <2>1 DEF Owes, IInv, Handlers
  <2>4. \A e \in Credential \ {c} : row'[e] = row[e]
    BY <2>1 DEF IInv, TypeOK
  <2> QED
    BY <1>0, <2>1, <2>2, <2>3, <2>4 DEF Owed
<1>3. CASE ListActive(v)
  <2>1. /\ UNCHANGED <<row, delegations, hurried, crashes, target>> /\ vpc[v] = "list"
        /\ vpc' = [vpc EXCEPT ![v] = "revoke"]
        /\ left' = [left EXCEPT ![v] = {i \in DOMAIN delegations :
               delegations[i].cred = target[v] /\ ~delegations[i].revoked}]
    BY <1>3 DEF ListActive, rows, history, operator
  <2>2. \A w \in Revoker, i \in DOMAIN delegations :
          Owes(w, i) => delegations[i].revoked \/ Owes(w, i)'
    BY <2>1 DEF Owes, IInv, Handlers
  <2> QED
    BY <1>0, <2>1, <2>2 DEF Owed
<1>4. CASE RevokeDelegation(v)
  <2>1. UNCHANGED <<row, hurried, crashes>>
    BY <1>4 DEF RevokeDelegation, history, operator
  <2>2. \A w \in Revoker, i \in DOMAIN delegations :
          Owes(w, i) => delegations'[i].revoked \/ Owes(w, i)'
    <3>1. CASE left[v] = {}
      BY <1>4, <3>1 DEF RevokeDelegation, Owes, IInv, Handlers
    <3>2. CASE left[v] # {}
      <4>1. PICK j \in left[v] :
              /\ delegations' = [delegations EXCEPT ![j].revoked = TRUE]
              /\ left' = [left EXCEPT ![v] = left[v] \ {j}]
              /\ vpc' = vpc /\ target' = target
        BY <1>4, <3>2 DEF RevokeDelegation
      <4>2. j \in DOMAIN delegations /\ delegations[j] \in Delegation
        BY <4>1, Tables DEF IInv, TypeOK
      <4>3. delegations'[j].revoked
        BY <4>1, <4>2 DEF Delegation
      <4> QED
        BY <1>0, <4>1, <4>3 DEF Owes, IInv, Handlers
    <3> QED
      BY <3>1, <3>2
  <2>3. \A i \in DOMAIN delegations : delegations[i].revoked => delegations'[i].revoked
    <3>1. CASE left[v] = {}
      BY <1>4, <3>1 DEF RevokeDelegation
    <3>2. CASE left[v] # {}
      <4>1. PICK j \in left[v] : delegations' = [delegations EXCEPT ![j].revoked = TRUE]
        BY <1>4, <3>2 DEF RevokeDelegation
      <4>2. j \in DOMAIN delegations /\ delegations[j] \in Delegation
        BY <4>1, Tables DEF IInv, TypeOK
      <4> QED
        BY <4>1, <4>2 DEF Delegation
    <3> QED
      BY <3>1, <3>2
  <2> QED
    BY <1>0, <2>1, <2>2, <2>3 DEF Owed
<1>5. CASE CrashRevoke(v)
  BY <1>0, <1>5 DEF CrashRevoke, rows, Owed, IInv, TypeOK
<1> QED
  BY <1>1, <1>2, <1>3, <1>4, <1>5 DEF RevokeStep

LEMMA OwedInvariance == Spec => []Owed
PROOF
<1>1. Init => Owed
  BY LegacyAssumption DEF Init, Owed
<1>2. ASSUME IInv, Owed, [Next]_vars PROVE Owed'
  <2>1. ASSUME NEW k \in Caller, CallStep(k) PROVE Owed'
    <3>1. UNCHANGED <<row, delegations, mpc, vpc, target, left, crashes, hurried>>
      BY <1>2, <2>1, CallTypes DEF minter, revoker, history, operator
    <3> QED
      BY <1>2, <3>1 DEF Owed, Owes
  <2>2. ASSUME NEW o \in Operator,
               ReadPrincipal(o) \/ \E to \in {"active", "suspended", "revoked"} : WritePrincipal(o, to)
        PROVE  Owed'
    BY <1>2, <2>2 DEF ReadPrincipal, WritePrincipal, rows, minter, revoker, Owed, Owes
  <2>3. CASE UNCHANGED vars
    BY <1>2, <2>3 DEF vars, rows, minter, revoker, history, operator, Owed, Owes
  <2> QED
    BY <1>2, <2>1, <2>2, <2>3, MintOwed, RevokeOwed DEF Next
<1> QED
  BY <1>1, <1>2, Invariance, PTL DEF Spec

\* Once no revocation is under way, and nobody died, a revoked credential's
\* principal holds no delegation, unless it was revoked while its mint was still
\* to make one (revoke, mint).
THEOREM RevokedIsEmpty == Spec => []RevokedHoldsNothing
PROOF
<1>1. Owed => RevokedHoldsNothing
  BY DEF Owed, Owes, RevokedHoldsNothing
<1> QED
  BY <1>1, OwedInvariance, PTL
------------------------------------------------------------------------------
(***************************************************************************)
(* Provisioning.  What a handler or a delivery holds is what it may claim  *)
(* of its project (DoneSoFar, JobFits, ReaderFits); claims only grow truer *)
(* (Grow), so an action need only be looked at for what it moves           *)
(* (RestIsKept).                                                           *)
(***************************************************************************)
\* What handlers keep, and where they stand.
Asking == [project: Project \cup {NoDir}, dir: Dir \cup {NoDir}, at: Nat, state: State,
           done: SUBSET Prepare, before: SUBSET Prepare, host: Dir \cup {NoDir},
           failed: Prepare \cup {"none"}, job: Nat]
Copy == [project: Project \cup {NoDir}, steps: SUBSET Step]
Initialising == [project: Project, dir: Dir,
                 state: {"queued", "running", "succeeded", "failed"}, started: Nat]
Finalising == [at: Nat, before: SUBSET Prepare, done: SUBSET Initialise]
RequestPc == {"idle", "steps", "submit", "enqueue", "failing", "fail", "update", "done"}
WorkerPc == {"created", "queued", "finalise", "record", "project", "settle", "done"}
ReaderPc == {"idle", "append", "update", "done"}

ProvisionTyped ==
    /\ state \in [Project -> State]
    /\ root \in [Project -> Dir \cup {NoDir}]
    /\ records \in [Project -> Seq(Record)]
    /\ files \in [Dir -> SUBSET Content]
    /\ jobs \in Seq(Initialising)
    /\ wpc \in Seq(WorkerPc) /\ Len(wpc) = Len(jobs)
    /\ work \in Seq(Finalising) /\ Len(work) = Len(jobs)
    /\ clock \in Nat
    /\ pc \in [Request -> RequestPc]
    /\ req \in [Request -> Asking]
    /\ rpc \in [Reader -> ReaderPc]
    /\ copied \in [Reader -> Copy]
    /\ asked \in [Project -> SUBSET Dir]
    /\ troubles \in 0..MaxTroubles

HasJob(p) == \E j \in DOMAIN jobs : jobs[j].project = p

\* What a record of p may say was done: what is in the directory, the prepare
\* half from its beginning, and the last step of that only if there is a job.
Claim(p, S) ==
    /\ S \subseteq Step
    /\ S \cap Leaving \subseteq Left(p)
    /\ S \cap Prepare \in Beginnings
    /\ "queue_initialise" \in S => HasJob(p)

Handed(p) == HasJob(p) /\ records[p] # <<>>

Serving(r) == pc[r] \notin {"idle", "done"}

\* A request has done what it may claim.
DoneSoFar(r, p, d, S) ==
    /\ req[r].project = p /\ req[r].dir = d /\ req[r].done = S
    /\ d \in asked[p] /\ req[r].at \in 0..clock
    /\ Claim(p, S)
    /\ pc[r] = "failing" => req[r].failed \in Prepare
    /\ pc[r] \in {"submit", "enqueue"} => S = Prepare \ {"queue_initialise"}
    /\ pc[r] = "enqueue" => HasJob(p)
    /\ pc[r] = "update" => S = Prepare /\ records[p] # <<>>
    /\ req[r].state # "provisioned"
    /\ req[r].state = "prepared" => Handed(p)

RequestFits(r) ==
    Serving(r) =>
        \E p \in Project, d \in Dir, S \in SUBSET Prepare : DoneSoFar(r, p, d, S)

InitialiseUpTo(k) == {INITIALISE_STEPS[i] : i \in 1..k}

\* A job was queued by a request that had prepared the directory; what its
\* delivery has done is there, the half before as some record claimed it.
JobFits(j) ==
    \E p \in Project, d \in Dir, B \in SUBSET Prepare, k \in 0..4 :
        /\ jobs[j].project = p /\ jobs[j].dir = d
        /\ work[j].before = B /\ work[j].done = InitialiseUpTo(k)
        /\ d \in asked[p]
        /\ jobs[j].started \in 0..clock /\ work[j].at \in 0..clock
        /\ Claim(p, Prepare) /\ Claim(p, B)
        /\ InitialiseUpTo(k) \subseteq Left(p)

ReaderFits(g) ==
    rpc[g] \in {"append", "update"} =>
        \E p \in Project, S \in SUBSET Step :
            copied[g].project = p /\ copied[g].steps = S /\ Claim(p, S)

RecordOf(p, x) == \E i \in DOMAIN records[p] : records[p][i] = x

RecordFits(p, x) ==
    /\ x.at \in 0..clock
    /\ x.failed # "none" <=> x.outcome = "failed"
    /\ Claim(p, x.steps)

StateFits(p) ==
    /\ state[p] = "prepared" => Handed(p)
    /\ state[p] = "provisioned" => Claim(p, Step)

ProvisionInv ==
    /\ ProvisionTyped
    /\ \A r \in Request : RequestFits(r)
    /\ \A j \in DOMAIN jobs : JobFits(j)
    /\ \A g \in Reader : ReaderFits(g)
    /\ \A p \in Project : \A x \in Record : RecordOf(p, x) => RecordFits(p, x)
    /\ \A p \in Project : StateFits(p)

\* What a step may do to what the others rest on: nothing is taken back.
Grow ==
    /\ clock' \in Nat /\ clock <= clock'
    /\ \A p \in Project :
        /\ asked[p] \subseteq asked'[p]
        /\ Left(p) \subseteq Left(p)'
        /\ HasJob(p) => HasJob(p)'
        /\ records[p] # <<>> => records'[p] # <<>>

\* The two halves, spelled out.
LEMMA StepNames ==
    /\ Len(PREPARE_STEPS) = 7 /\ DOMAIN PREPARE_STEPS = 1..7
    /\ PREPARE_STEPS[1] = "check_root" /\ PREPARE_STEPS[2] = "create_directory"
    /\ PREPARE_STEPS[3] = "adopt_or_init_git" /\ PREPARE_STEPS[4] = "write_project_json"
    /\ PREPARE_STEPS[5] = "merge_mcp_json" /\ PREPARE_STEPS[6] = "copy_setup_skill"
    /\ PREPARE_STEPS[7] = "queue_initialise"
    /\ Len(INITIALISE_STEPS) = 4 /\ DOMAIN INITIALISE_STEPS = 1..4
    /\ INITIALISE_STEPS[1] = "run_engine_init" /\ INITIALISE_STEPS[2] = "copy_extension"
    /\ INITIALISE_STEPS[3] = "register_hooks" /\ INITIALISE_STEPS[4] = "verify_structure"
BY DEF PREPARE_STEPS, INITIALISE_STEPS

\* The two halves as sets, with no step in common.
LEMMA StepSets ==
    /\ Prepare = {"check_root", "create_directory", "adopt_or_init_git", "write_project_json",
                  "merge_mcp_json", "copy_setup_skill", "queue_initialise"}
    /\ Initialise = {"run_engine_init", "copy_extension", "register_hooks", "verify_structure"}
    /\ Prepare \cap Initialise = {}
<1>1. \A s : s \in Prepare <=> \E i \in 1..7 : s = PREPARE_STEPS[i]
  BY StepNames DEF Prepare, ToSet
<1>2. \A i \in 1..7 : i = 1 \/ i = 2 \/ i = 3 \/ i = 4 \/ i = 5 \/ i = 6 \/ i = 7
  OBVIOUS
<1>3. Prepare = {"check_root", "create_directory", "adopt_or_init_git", "write_project_json",
                  "merge_mcp_json", "copy_setup_skill", "queue_initialise"}
  BY <1>1, <1>2, StepNames
<1>4. \A s : s \in Initialise <=> \E i \in 1..4 : s = INITIALISE_STEPS[i]
  BY StepNames DEF Initialise, ToSet
<1>5. Initialise = {"run_engine_init", "copy_extension", "register_hooks", "verify_structure"}
  <2>1. \A i \in 1..4 : i = 1 \/ i = 2 \/ i = 3 \/ i = 4
    OBVIOUS
  <2>2. QED
    BY <1>4, <2>1, StepNames
<1>6. QED
  BY <1>3, <1>5

\* No step occurs twice.
LEMMA StepsDiffer ==
    /\ \A i, j \in 1..7 : PREPARE_STEPS[i] = PREPARE_STEPS[j] => i = j
    /\ \A i \in 1..7 : PREPARE_STEPS[i] = "queue_initialise" => i = 7
<1>1. \A i \in 1..7 : i = 1 \/ i = 2 \/ i = 3 \/ i = 4 \/ i = 5 \/ i = 6 \/ i = 7
  OBVIOUS
<1>2. QED
  BY <1>1, StepNames

\* A request that has done the steps up to one is at the next, and doing it leaves
\* a beginning again.
LEMMA AtStep ==
    ASSUME NEW r \in Request, req[r].done \in Beginnings
    PROVE  /\ req[r].done \subseteq Prepare
           /\ step(r) = "none" => req[r].done = Prepare
           /\ step(r) # "none" =>
                /\ step(r) \in Prepare /\ step(r) \notin req[r].done
                /\ req[r].done \cup {step(r)} \in Beginnings
                /\ step(r) = "queue_initialise" => req[r].done = Prepare \ {"queue_initialise"}
<1> DEFINE D == req[r].done
           F(k) == {PREPARE_STEPS[i] : i \in 1..k}
           todo == {i \in DOMAIN PREPARE_STEPS : PREPARE_STEPS[i] \notin D}
<1>1. PICK k \in 0..7 : D = F(k)
  BY StepNames DEF Beginnings
<1>2. \A i \in 1..7 : PREPARE_STEPS[i] \in D <=> i <= k
  BY <1>1, StepsDiffer
<1>3. Prepare = F(7)
  BY StepNames DEF Prepare, ToSet
<1>4. D \subseteq Prepare
  BY <1>1, <1>3
<1>5. CASE k = 7
  <2>1. step(r) = "none"
    BY <1>2, <1>5, StepNames DEF step
  <2>2. QED
    BY <1>1, <1>3, <1>4, <1>5, <2>1
<1>6. CASE k # 7
  <2>1. k + 1 \in todo /\ \A i \in todo : k + 1 <= i
    BY <1>2, <1>6, StepNames
  <2>2. Min(todo) = k + 1
    <3>1. \A x \in todo : (\A y \in todo : x <= y) => x = k + 1
      BY <2>1, StepNames
    <3> HIDE DEF todo
    <3>2. QED
      BY <2>1, <3>1 DEF Min
  <2>3. step(r) = PREPARE_STEPS[k + 1]
    <3>1. todo # {}
      BY <2>1
    <3>2. QED
      BY <2>2, <3>1 DEF step
  <2>4. step(r) \in Prepare /\ step(r) \notin D
    BY <1>2, <1>3, <1>6, <2>3
  <2>5. D \cup {step(r)} = F(k + 1) /\ k + 1 \in 0..7
    BY <1>1, <1>6, <2>3
  <2>6. D \cup {step(r)} \in Beginnings
    BY <2>5, StepNames DEF Beginnings
  <2>7. step(r) = "queue_initialise" => D = Prepare \ {"queue_initialise"}
    <3>1. ASSUME step(r) = "queue_initialise" PROVE D = Prepare \ {"queue_initialise"}
      <4>1. k = 6
        <5>1. k + 1 \in 1..7 /\ PREPARE_STEPS[k + 1] = "queue_initialise"
          BY <1>6, <2>3, <3>1
        <5>2. k + 1 = 7
          BY <5>1, StepsDiffer
        <5>3. QED
          BY <5>2
      <4>2. \A i \in 1..7 : PREPARE_STEPS[i] # "queue_initialise" <=> i <= k
        BY <4>1, StepsDiffer, StepNames
      <4>3. \A x : x \in Prepare <=> \E i \in 1..7 : x = PREPARE_STEPS[i]
        BY <1>3
      <4> HIDE DEF D, F
      <4>4. \A x : x \in D => x \in Prepare /\ x # "queue_initialise"
        BY <1>2, <1>4, <4>2, <4>3
      <4>5. \A x : x \in Prepare /\ x # "queue_initialise" => x \in D
        BY <1>2, <4>2, <4>3
      <4>6. QED
        BY <4>4, <4>5
    <3>2. QED
      BY <3>1
  <2>8. QED
    BY <1>4, <2>4, <2>6, <2>7, StepSets
<1>7. QED
  BY <1>5, <1>6

\* A bounded set of numbers has a greatest element.
LEMMA GreatestOf ==
    ASSUME NEW n \in Nat, NEW S \in SUBSET (0..n), S # {}
    PROVE  \E m \in S : \A k \in S : k <= m
<1> DEFINE D == {n - k : k \in S}
<1>0. \A k \in S : k \in Nat /\ k <= n
  OBVIOUS
<1>1. D \subseteq Nat /\ D # {}
  <2>1. \A k \in S : n - k \in Nat
    BY <1>0
  <2>2. PICK k : k \in S
    OBVIOUS
  <2>3. n - k \in D
    BY <2>2
  <2>4. QED
    BY <2>1, <2>3
<1>2. PICK m \in D : \A k \in D : <<k, m>> \notin OpToRel(<, Nat)
  <2>1. IsWellFoundedOn(OpToRel(<, Nat), Nat)
    BY NatLessThanWellFounded
  <2> HIDE DEF D
  <2>2. QED
    BY <1>1, <2>1, WFMin, Zenon
<1>3. PICK v \in S : m = n - v
  BY <1>2
<1>4. ASSUME NEW w \in S PROVE w <= v
  <2>1. n - w \in D
    OBVIOUS
  <2>2. ~(n - w < m)
    <3>1. n - w \in Nat /\ m \in Nat
      BY <1>1, <1>2, <2>1
    <3>2. <<n - w, m>> \notin OpToRel(<, Nat)
      BY <1>2, <2>1
    <3>3. QED
      BY <3>1, <3>2 DEF OpToRel
  <2>3. QED
    BY <1>3, <2>2
<1>5. QED
  BY <1>4

\* Rows of a project, and the one read last is one of them.
LEMMA RecordRows ==
    ASSUME ProvisionTyped, NEW p \in Project
    PROVE  /\ records[p] \in Seq(Record) /\ Len(records[p]) \in Nat
           /\ DOMAIN records[p] = 1..Len(records[p])
           /\ \A i \in DOMAIN records[p] : records[p][i] \in Record
           /\ records[p] # <<>> => DOMAIN records[p] # {}
<1>1. records[p] \in Seq(Record)
  BY DEF ProvisionTyped
<1>2. Len(records[p]) \in Nat /\ DOMAIN records[p] = 1..Len(records[p])
  BY <1>1, LenProperties
<1>3. \A i \in DOMAIN records[p] : records[p][i] \in Record
  BY <1>1, <1>2, ElementOfSeq
<1>4. records[p] # <<>> => Len(records[p]) # 0
  BY <1>1, EmptySeq
<1>5. QED
  BY <1>1, <1>2, <1>3, <1>4

\* The latest record is one of the project's records.
LEMMA LatestIsARecord ==
    ASSUME ProvisionInv, NEW p \in Project, records[p] # <<>>
    PROVE  latestForProject(p) \in Record /\ RecordOf(p, latestForProject(p))
<1> DEFINE of == records[p]
           Latest(i) == \A k \in DOMAIN of :
                          of[k].at < of[i].at \/ (of[k].at = of[i].at /\ k <= i)
<1>1. /\ ProvisionTyped /\ clock \in Nat
      /\ \A i \in DOMAIN of : of[i] \in Record /\ of[i].at \in 0..clock
  <2>1. ProvisionTyped /\ clock \in Nat
    BY DEF ProvisionInv, ProvisionTyped
  <2>2. ASSUME NEW i \in DOMAIN of PROVE of[i] \in Record /\ of[i].at \in 0..clock
    <3>1. PICK x : x = of[i]
      OBVIOUS
    <3>2. x \in Record /\ RecordOf(p, x)
      BY <2>1, <3>1, RecordRows DEF RecordOf
    <3>3. RecordFits(p, x)
      BY <3>2 DEF ProvisionInv
    <3>4. QED
      BY <3>1, <3>2, <3>3 DEF RecordFits
  <2>3. QED
    BY <2>1, <2>2
<1>2. DOMAIN of = 1..Len(of) /\ Len(of) \in Nat /\ DOMAIN of # {}
  BY <1>1, RecordRows
<1> HIDE DEF of
<1>3. PICK m \in {of[i].at : i \in DOMAIN of} : \A k \in {of[i].at : i \in DOMAIN of} : k <= m
  <2> DEFINE A == {of[i].at : i \in DOMAIN of}
  <2>1. A \in SUBSET (0..clock) /\ A # {}
    BY <1>1, <1>2
  <2> HIDE DEF A
  <2>2. \E n \in A : \A k \in A : k <= n
    BY <1>1, <2>1, GreatestOf
  <2>3. QED
    BY <2>2 DEF A
<1>4. PICK i \in {k \in DOMAIN of : of[k].at = m} :
          \A n \in {k \in DOMAIN of : of[k].at = m} : n <= i
  <2> DEFINE I == {k \in DOMAIN of : of[k].at = m}
  <2>1. I \in SUBSET (0..Len(of)) /\ I # {}
    BY <1>2, <1>3
  <2> HIDE DEF I
  <2>2. \E n \in I : \A k \in I : k <= n
    BY <1>2, <2>1, GreatestOf
  <2>3. QED
    BY <2>2 DEF I
<1>5. Latest(i)
  <2>1. ASSUME NEW k \in DOMAIN of
        PROVE  of[k].at < of[i].at \/ (of[k].at = of[i].at /\ k <= i)
    <3>1. of[k].at <= m /\ of[i].at = m
      BY <1>3, <1>4, <2>1
    <3>2. of[k].at \in Nat /\ m \in Nat
      BY <1>1, <1>4
    <3>3. of[k].at = m => k <= i
      BY <1>4, <2>1
    <3>4. QED
      BY <3>1, <3>2, <3>3
  <2>2. QED
    BY <2>1
<1>6. latestForProject(p) = of[CHOOSE n \in DOMAIN of : Latest(n)]
  BY DEF latestForProject, of
<1> HIDE DEF Latest
<1>7. (CHOOSE n \in DOMAIN of : Latest(n)) \in DOMAIN of
  BY <1>4, <1>5
<1>8. QED
  BY <1>1, <1>6, <1>7 DEF RecordOf, of

\* What is claimed stays true, and so does less of it.
LEMMA ClaimGrows ==
    ASSUME Grow, NEW p \in Project, NEW S, Claim(p, S)
    PROVE  Claim(p, S)'
BY DEF Grow, Claim

\* A record that lists nothing claims nothing.
LEMMA NothingIsClaimed == \A p : Claim(p, {})
<1>1. {PREPARE_STEPS[i] : i \in 1..0} = {} /\ 0 \in 0..Len(PREPARE_STEPS)
  BY StepNames
<1>2. {} \in Beginnings
  BY <1>1 DEF Beginnings
<1>3. QED
  BY <1>2 DEF Claim

\* The prepare half of what may be claimed may be, with or without its last step.
LEMMA ClaimShrinks ==
    ASSUME NEW p, NEW S, Claim(p, S)
    PROVE  /\ Claim(p, S \cap Prepare)
           /\ Claim(p, (S \cap Prepare) \ {"queue_initialise"})
<1>1. PICK k \in 0..7 : S \cap Prepare = {PREPARE_STEPS[i] : i \in 1..k}
  BY StepNames DEF Claim, Beginnings
<1>2. (S \cap Prepare) \ {"queue_initialise"} \in Beginnings
  <2>1. CASE k = 7
    <3>1. \A i \in 1..7 : PREPARE_STEPS[i] # "queue_initialise" <=> i <= 6
      BY StepsDiffer, StepNames
    <3>2. (S \cap Prepare) \ {"queue_initialise"} = {PREPARE_STEPS[i] : i \in 1..6}
      <4>1. \A x : x \in S \cap Prepare <=> \E i \in 1..7 : x = PREPARE_STEPS[i]
        BY <1>1, <2>1
      <4>2. QED
        BY <3>1, <4>1
    <3>3. 6 \in 0..Len(PREPARE_STEPS)
      BY StepNames
    <3>4. QED
      BY <3>2, <3>3 DEF Beginnings
  <2>2. CASE k # 7
    <3>1. \A i \in 1..k : PREPARE_STEPS[i] # "queue_initialise"
      BY <2>2, StepsDiffer
    <3>2. (S \cap Prepare) \ {"queue_initialise"} = S \cap Prepare
      BY <1>1, <3>1
    <3>3. QED
      BY <3>2 DEF Claim
  <2>3. QED
    BY <2>1, <2>2
<1>3. QED
  BY <1>2 DEF Claim

\* A request goes on from what it may claim.
LEMMA CompletedClaims ==
    ASSUME ProvisionInv, NEW p \in Project
    PROVE  completed(p) \in SUBSET Prepare /\ Claim(p, completed(p))
<1>1. CASE records[p] = <<>> \/ root[p] = NoDir
  BY <1>1, NothingIsClaimed DEF completed
<1>2. CASE ~(records[p] = <<>> \/ root[p] = NoDir)
  <2>1. PICK x : x = latestForProject(p)
    OBVIOUS
  <2>2. x \in Record /\ RecordOf(p, x)
    BY <1>2, <2>1, LatestIsARecord
  <2>3. Claim(p, x.steps)
    BY <2>2 DEF ProvisionInv, RecordFits
  <2>4. \/ completed(p) = x.steps \cap Prepare
        \/ completed(p) = (x.steps \cap Prepare) \ {"queue_initialise"}
    BY <1>2, <2>1 DEF completed
  <2>5. QED
    BY <2>3, <2>4, ClaimShrinks
<1>3. QED
  BY <1>1, <1>2

\* A request that does not move fits as before.
LEMMA RequestKept ==
    ASSUME Grow, NEW r \in Request, ProvisionTyped, RequestFits(r), pc'[r] = pc[r], req'[r] = req[r]
    PROVE  RequestFits(r)'
<1>1. SUFFICES ASSUME Serving(r)' PROVE RequestFits(r)'
  BY DEF RequestFits
<1>2. Serving(r)
  BY <1>1 DEF Serving
<1>3. PICK p \in Project, d \in Dir, S \in SUBSET Prepare : DoneSoFar(r, p, d, S)
  BY <1>2 DEF RequestFits
<1>4. Claim(p, S)'
  BY <1>3, ClaimGrows DEF DoneSoFar
<1>5. /\ d \in asked'[p] /\ req[r].at \in 0..clock' /\ (Handed(p) => Handed(p)')
      /\ records[p] # <<>> => records'[p] # <<>>
      /\ HasJob(p) => HasJob(p)'
  BY <1>3 DEF Grow, Handed, ProvisionTyped, DoneSoFar
<1>6. DoneSoFar(r, p, d, S)'
  BY <1>3, <1>4, <1>5 DEF DoneSoFar
<1>7. QED
  BY <1>6 DEF RequestFits

\* Nor does a job whose delivery does not.
LEMMA JobKept ==
    ASSUME Grow, ProvisionTyped, NEW j, JobFits(j), work'[j] = work[j],
           jobs'[j].project = jobs[j].project, jobs'[j].dir = jobs[j].dir,
           jobs'[j].started = jobs[j].started
    PROVE  JobFits(j)'
<1>1. PICK p \in Project, d \in Dir, B \in SUBSET Prepare, k \in 0..4 :
        /\ jobs[j].project = p /\ jobs[j].dir = d
        /\ work[j].before = B /\ work[j].done = InitialiseUpTo(k)
        /\ d \in asked[p]
        /\ jobs[j].started \in 0..clock /\ work[j].at \in 0..clock
        /\ Claim(p, Prepare) /\ Claim(p, B)
        /\ InitialiseUpTo(k) \subseteq Left(p)
  BY DEF JobFits
<1>2. Claim(p, Prepare)' /\ Claim(p, B)'
  BY <1>1, ClaimGrows
<1>3. /\ d \in asked'[p] /\ InitialiseUpTo(k) \subseteq Left(p)'
      /\ jobs[j].started \in 0..clock' /\ work[j].at \in 0..clock'
  BY <1>1 DEF Grow, ProvisionTyped
<1>4. QED
  BY <1>1, <1>2, <1>3 DEF JobFits

\* What a step leaves alone fits as before: it need only be looked at what it moved.
LEMMA RestIsKept ==
    ASSUME ProvisionInv, ProvisionTyped', Grow,
           \A r \in Request : (pc'[r] = pc[r] /\ req'[r] = req[r]) \/ RequestFits(r)',
           \A j \in DOMAIN jobs' :
               \/ /\ j \in DOMAIN jobs /\ work'[j] = work[j]
                  /\ jobs'[j].project = jobs[j].project /\ jobs'[j].dir = jobs[j].dir
                  /\ jobs'[j].started = jobs[j].started
               \/ JobFits(j)',
           \A g \in Reader : (rpc'[g] = rpc[g] /\ copied'[g] = copied[g]) \/ ReaderFits(g)',
           \A p \in Project :
               \/ records'[p] = records[p]
               \/ \E x \in Record : records'[p] = Append(records[p], x) /\ RecordFits(p, x)',
           \A p \in Project : state'[p] = state[p] \/ StateFits(p)'
    PROVE  ProvisionInv'
<1>0. ProvisionTyped
  BY DEF ProvisionInv
<1>1. \A r \in Request : RequestFits(r)'
  BY <1>0, RequestKept DEF ProvisionInv
<1>2. \A j \in DOMAIN jobs' : JobFits(j)'
  BY <1>0, JobKept DEF ProvisionInv
<1>3. ASSUME NEW g \in Reader, rpc'[g] = rpc[g], copied'[g] = copied[g] PROVE ReaderFits(g)'
  <2>1. SUFFICES ASSUME rpc[g] \in {"append", "update"} PROVE ReaderFits(g)'
    BY <1>3 DEF ReaderFits
  <2>2. PICK p \in Project, S \in SUBSET Step :
           copied[g].project = p /\ copied[g].steps = S /\ Claim(p, S)
    BY <2>1 DEF ProvisionInv, ReaderFits
  <2>3. Claim(p, S)'
    BY <2>2, ClaimGrows
  <2>4. QED
    BY <1>3, <2>2, <2>3 DEF ReaderFits
<1>4. ASSUME NEW p \in Project, NEW x \in Record, RecordOf(p, x)' PROVE RecordFits(p, x)'
  <2>1. ASSUME RecordOf(p, x) PROVE RecordFits(p, x)'
    <3>1. RecordFits(p, x)
      BY <2>1 DEF ProvisionInv
    <3>2. Claim(p, x.steps)'
      BY <3>1, ClaimGrows DEF RecordFits
    <3>3. x.at \in 0..clock'
      BY <1>0, <3>1 DEF RecordFits, Grow, ProvisionTyped
    <3>4. QED
      BY <3>1, <3>2, <3>3 DEF RecordFits
  <2>2. CASE records'[p] = records[p]
    <3>1. RecordOf(p, x)
      BY <1>4, <2>2 DEF RecordOf
    <3>2. QED
      BY <2>1, <3>1
  <2>3. CASE \E y \in Record : records'[p] = Append(records[p], y) /\ RecordFits(p, y)'
    <3>1. PICK y \in Record : records'[p] = Append(records[p], y) /\ RecordFits(p, y)'
      BY <2>3
    <3>2. records[p] \in Seq(Record) /\ DOMAIN records[p] = 1..Len(records[p])
      BY <1>0, RecordRows
    <3>3. PICK i \in DOMAIN records'[p] : records'[p][i] = x
      BY <1>4 DEF RecordOf
    <3>4. (i \in DOMAIN records[p] /\ records[p][i] = x) \/ x = y
      BY <3>1, <3>2, <3>3, AppendProperties
    <3>5. QED
      BY <2>1, <3>1, <3>4 DEF RecordOf
  <2>4. QED
    BY <2>2, <2>3
<1>5. ASSUME NEW p \in Project, state'[p] = state[p] PROVE StateFits(p)'
  <2>1. StateFits(p)
    BY DEF ProvisionInv
  <2>2. Claim(p, Step) => Claim(p, Step)'
    BY ClaimGrows
  <2>3. Handed(p) => Handed(p)'
    BY DEF Grow, Handed
  <2>4. QED
    BY <1>5, <2>1, <2>2, <2>3 DEF StateFits
<1>6. QED
  BY <1>1, <1>2, <1>3, <1>4, <1>5 DEF ProvisionInv

\* Directories, jobs and requests as they were, and the rows of before still there.
LEMMA GrowsLittle ==
    ASSUME ProvisionTyped, clock' \in Nat, clock <= clock', UNCHANGED <<files, asked>>,
           \A p \in Project : HasJob(p) => HasJob(p)',
           \A p \in Project : records[p] # <<>> => records'[p] # <<>>
    PROVE  Grow
<1>1. \A p \in Project : Left(p)' = Left(p)
  BY DEF Left
<1>2. QED
  BY <1>1 DEF Grow

\* What a request under way has done.
LEMMA UnderWay ==
    ASSUME ProvisionInv, NEW r \in Request, Serving(r)
    PROVE  \E p \in Project, d \in Dir, S \in SUBSET Prepare : DoneSoFar(r, p, d, S)
BY DEF ProvisionInv, RequestFits

\* A request that moves alone: no row, job, delivery or read changes with it.
LEMMA RequestMoves ==
    ASSUME ProvisionInv, ProvisionTyped', Grow, NEW r \in Request,
           UNCHANGED <<state, records, jobs, worker, reader>>,
           \A q \in Request \ {r} : pc'[q] = pc[q] /\ req'[q] = req[q],
           RequestFits(r)'
    PROVE  ProvisionInv'
BY RestIsKept DEF worker, reader

\* Notes a request makes of itself keep its type.
LEMMA AskingKept ==
    ASSUME ProvisionTyped, NEW r \in Request,
           NEW h \in Dir \cup {NoDir}, NEW D \in SUBSET Prepare, NEW f \in Prepare \cup {"none"},
           NEW k \in Nat
    PROVE  [req EXCEPT ![r].host = h, ![r].done = D, ![r].failed = f, ![r].job = k]
              \in [Request -> Asking]
<1> DEFINE one == [req[r] EXCEPT !.host = h]
           two == [one EXCEPT !.done = D]
           three == [two EXCEPT !.failed = f]
           four == [three EXCEPT !.job = k]
<1>1. req \in [Request -> Asking] /\ req[r] \in Asking
  BY DEF ProvisionTyped
<1>2. one \in Asking
  BY <1>1 DEF Asking
<1>3. two \in Asking
  BY <1>2 DEF Asking
<1>4. three \in Asking
  BY <1>3 DEF Asking
<1>5. four \in Asking
  BY <1>4 DEF Asking
<1>6. [req EXCEPT ![r].host = h, ![r].done = D, ![r].failed = f, ![r].job = k] = [req EXCEPT ![r] = four]
  BY <1>1 DEF Asking
<1> HIDE DEF four
<1>7. QED
  BY <1>1, <1>5, <1>6

\* Doing the step a request is at, in one of the forms that leave rows alone.
LEMMA StepDone ==
    ASSUME ProvisionInv, NEW r \in Request, pc[r] = "steps", step(r) # "none",
           ProvisionTyped', Grow, UNCHANGED <<state, records, jobs, worker, reader, pc, asked, clock>>,
           \A q \in Request \ {r} : req'[q] = req[q],
           req'[r].project = req[r].project, req'[r].dir = req[r].dir,
           req'[r].at = req[r].at, req'[r].state = req[r].state,
           req'[r].done = req[r].done \cup {step(r)},
           \A p \in Project : p = Of(r) /\ step(r) \in Leaving => step(r) \in Left(p)',
           step(r) = "queue_initialise" => HasJob(Of(r))
    PROVE  ProvisionInv'
<1>1. PICK p \in Project, d \in Dir, S \in SUBSET Prepare : DoneSoFar(r, p, d, S)
  BY UnderWay DEF Serving
<1>2. req[r].done = S /\ S \in Beginnings
  <2>1. S \cap Prepare = S
    OBVIOUS
  <2>2. QED
    BY <1>1, <2>1 DEF DoneSoFar, Claim
<1>3. PICK s : s = step(r)
  OBVIOUS
<1>4. s \in Prepare /\ S \cup {s} \in Beginnings /\ S \cup {s} \in SUBSET Prepare
  BY <1>2, <1>3, AtStep
<1>5. Claim(p, S)' /\ Of(r) = p
  BY <1>1, ClaimGrows DEF DoneSoFar, Of
<1>6. s \in Leaving => s \in Left(p)'
  BY <1>3, <1>5
<1>7. s = "queue_initialise" => HasJob(p)'
  BY <1>3, <1>5 DEF HasJob
<1>8. Claim(p, S \cup {s})'
  <2>1. (S \cup {s}) \cap Prepare = S \cup {s}
    BY <1>4
  <2>2. (S \cup {s}) \cap Leaving \subseteq Left(p)'
    BY <1>5, <1>6 DEF Claim
  <2>3. QED
    BY <1>4, <1>5, <1>7, <2>1, <2>2 DEF Claim, Step
<1>9. Handed(p) => Handed(p)'
  BY DEF Handed, HasJob
<1>10. DoneSoFar(r, p, d, S \cup {s})'
  BY <1>1, <1>3, <1>8, <1>9 DEF DoneSoFar
<1>11. RequestFits(r)'
  BY <1>4, <1>10 DEF RequestFits
<1>12. QED
  BY <1>11, RequestMoves

\* A path that is no other project's is noted.
LEMMA CheckRootKeeps ==
    ASSUME ProvisionInv, NEW r \in Request, CheckRoot(r)
    PROVE  ProvisionInv'
<1>1. PICK p \in Project, d \in Dir, S \in SUBSET Prepare : DoneSoFar(r, p, d, S)
  BY UnderWay DEF Serving, CheckRoot
<1>2. PICK D : D = req[r].done \cup {step(r)}
  OBVIOUS
<1>3. ProvisionTyped /\ req \in [Request -> Asking] /\ req[r] \in Asking
  BY DEF ProvisionInv, ProvisionTyped
<1>4. D \in SUBSET Prepare /\ d \in Dir \cup {NoDir} /\ req[r].dir = d
  BY <1>1, <1>2, StepSets DEF CheckRoot, DoneSoFar
<1>5. req' = [req EXCEPT ![r].host = d, ![r].done = D, ![r].failed = req[r].failed,
      ![r].job = req[r].job]
  BY <1>2, <1>3, <1>4 DEF CheckRoot, finish, Asking
<1>6. req' \in [Request -> Asking]
  BY <1>3, <1>4, <1>5, AskingKept DEF Asking
<1>7. UNCHANGED <<tables, files, clock, pc, worker, reader, asked, troubles>>
  BY DEF CheckRoot
<1>8. ProvisionTyped'
  BY <1>3, <1>6, <1>7 DEF ProvisionTyped, tables, worker, reader
<1>9. Grow
  BY <1>3, <1>7, GrowsLittle DEF ProvisionTyped, tables, HasJob
<1>10. /\ \A q \in Request \ {r} : req'[q] = req[q]
       /\ req'[r].project = req[r].project /\ req'[r].dir = req[r].dir
       /\ req'[r].at = req[r].at /\ req'[r].state = req[r].state
       /\ req'[r].done = D
  BY <1>3, <1>5 DEF Asking
<1>11. pc[r] = "steps" /\ step(r) = "check_root" /\ step(r) \notin Leaving
  BY DEF CheckRoot, Leaving
<1>12. QED
  BY <1>2, <1>7, <1>8, <1>9, <1>10, <1>11, StepDone DEF tables

\* What is written for a project in a directory it was asked for is left there.
LEMMA LeftBehind ==
    ASSUME NEW p \in Project, NEW d \in Dir, d \in asked[p], NEW s \in Leaving, asked' = asked,
           <<p, s>> \in files'[d]
    PROVE  s \in Left(p)'
BY DEF Left

\* Directories only fill.
LEMMA GrowsByFiles ==
    ASSUME ProvisionTyped, UNCHANGED <<clock, asked, jobs, records>>,
           \A d \in Dir : files[d] \subseteq files'[d]
    PROVE  Grow
<1>1. \A p \in Project : Left(p) \subseteq Left(p)'
  <2>1. \A p \in Project : asked[p] \subseteq Dir
    BY DEF ProvisionTyped
  <2>2. QED
    BY <2>1 DEF Left
<1>2. \A p \in Project : HasJob(p) => HasJob(p)'
  BY DEF HasJob
<1>3. QED
  BY <1>1, <1>2 DEF Grow, ProvisionTyped

\* A step that writes: the directory is created, or a file put in it.
LEMMA WritingKeeps ==
    ASSUME ProvisionInv, NEW r \in Request, pc[r] = "steps", step(r) \in Prepare \ {"queue_initialise"},
           files' = [files EXCEPT ![req[r].dir] = @ \cup {<<Of(r), step(r)>>}],
           req' = finish(r),
           UNCHANGED <<tables, clock, pc, worker, reader, asked, troubles>>
    PROVE  ProvisionInv'
<1>1. PICK p \in Project, d \in Dir, S \in SUBSET Prepare : DoneSoFar(r, p, d, S)
  BY UnderWay DEF Serving
<1>2. PICK D, s : s = step(r) /\ D = req[r].done \cup {s}
  OBVIOUS
<1>3. ProvisionTyped /\ req \in [Request -> Asking] /\ req[r] \in Asking /\ files \in [Dir -> SUBSET Content]
  BY DEF ProvisionInv, ProvisionTyped
<1>4. /\ D \in SUBSET Prepare /\ req[r].dir = d /\ d \in asked[p] /\ Of(r) = p
      /\ s \in Prepare /\ s # "none" /\ s # "queue_initialise" /\ s \in Step
  BY <1>1, <1>2, StepSets DEF DoneSoFar, Of, Step
<1>5. req' = [req EXCEPT ![r].host = req[r].host, ![r].done = D, ![r].failed = req[r].failed,
      ![r].job = req[r].job]
  BY <1>2, <1>3 DEF finish, Asking
<1>6. req' \in [Request -> Asking]
  <2>1. /\ req[r].host \in Dir \cup {NoDir} /\ req[r].failed \in Prepare \cup {"none"}
        /\ req[r].job \in Nat
    BY <1>3 DEF Asking
  <2>2. D \in SUBSET Prepare
    BY <1>4
  <2>3. [req EXCEPT ![r].host = req[r].host, ![r].done = D, ![r].failed = req[r].failed,
      ![r].job = req[r].job]
            \in [Request -> Asking]
    BY <1>3, <2>1, <2>2, AskingKept
  <2>4. QED
    BY <1>5, <2>3
<1>7. files' = [files EXCEPT ![d] = @ \cup {<<p, s>>}]
  BY <1>2, <1>4
<1>8. /\ files' \in [Dir -> SUBSET Content] /\ <<p, s>> \in files'[d]
      /\ \A e \in Dir : files[e] \subseteq files'[e]
  BY <1>3, <1>4, <1>7 DEF Content
<1>9. ProvisionTyped'
  BY <1>3, <1>6, <1>8 DEF ProvisionTyped, tables, worker, reader
<1>10. Grow
  BY <1>3, <1>8, GrowsByFiles DEF tables
<1>11. /\ \A q \in Request \ {r} : req'[q] = req[q]
       /\ req'[r].project = req[r].project /\ req'[r].dir = req[r].dir
       /\ req'[r].at = req[r].at /\ req'[r].state = req[r].state
       /\ req'[r].done = D
  BY <1>3, <1>5 DEF Asking
<1>12. s \in Leaving => s \in Left(p)'
  BY <1>4, <1>8, LeftBehind
<1>13. \A x \in Project : x = Of(r) /\ s \in Leaving => s \in Left(x)'
  BY <1>4, <1>12
<1>14. step(r) # "none" /\ step(r) # "queue_initialise"
  BY <1>2, <1>4
<1>15. QED
  BY <1>2, <1>9, <1>10, <1>11, <1>13, <1>14, StepDone DEF tables

\* The directory is created, or what the other steps write.
LEMMA CreateDirectoryKeeps ==
    ASSUME ProvisionInv, NEW r \in Request, CreateDirectory(r)
    PROVE  ProvisionInv'
<1>1. step(r) \in Prepare \ {"queue_initialise"}
  BY StepSets DEF CreateDirectory
<1>2. /\ pc[r] = "steps" /\ req' = finish(r)
      /\ files' = [files EXCEPT ![req[r].dir] = @ \cup {<<Of(r), step(r)>>}]
      /\ UNCHANGED <<tables, clock, pc, worker, reader, asked, troubles>>
  BY DEF CreateDirectory
<1>3. QED
  BY <1>1, <1>2, WritingKeeps

\* A file, or the repository, is written.
LEMMA WriteStepKeeps ==
    ASSUME ProvisionInv, NEW r \in Request, WriteStep(r)
    PROVE  ProvisionInv'
<1>1. step(r) \in Prepare \ {"queue_initialise"}
  BY StepSets DEF WriteStep, FileSteps
<1>2. /\ pc[r] = "steps" /\ req' = finish(r)
      /\ files' = [files EXCEPT ![req[r].dir] = @ \cup {<<Of(r), step(r)>>}]
      /\ UNCHANGED <<tables, clock, pc, worker, reader, asked, troubles>>
  BY DEF WriteStep
<1>3. QED
  BY <1>1, <1>2, WritingKeeps

\* A live job is joined: the step is done, and there is a job.  Or there is none.
LEMMA FindLiveKeeps ==
    ASSUME ProvisionInv, NEW r \in Request, FindLive(r)
    PROVE  ProvisionInv'
<1>1. PICK p \in Project, d \in Dir, S \in SUBSET Prepare : DoneSoFar(r, p, d, S)
  BY UnderWay DEF Serving, FindLive
<1>2. ProvisionTyped /\ req \in [Request -> Asking] /\ req[r] \in Asking /\ pc \in [Request -> RequestPc]
  BY DEF ProvisionInv, ProvisionTyped
<1>3. /\ pc[r] = "steps" /\ step(r) = "queue_initialise"
      /\ UNCHANGED <<tables, files, clock, worker, reader, asked, troubles>>
  BY DEF FindLive
<1>4. CASE req' = finish(r) /\ pc' = pc /\ Live(Of(r))
  <2>1. PICK D : D = req[r].done \cup {step(r)}
    OBVIOUS
  <2>2. D \in SUBSET Prepare
    BY <1>1, <1>3, <2>1, StepSets DEF DoneSoFar
  <2>3. req' = [req EXCEPT ![r].host = req[r].host, ![r].done = D, ![r].failed = req[r].failed,
      ![r].job = req[r].job]
    BY <1>2, <1>4, <2>1 DEF finish, Asking
  <2>4. req' \in [Request -> Asking]
    BY <1>2, <2>2, <2>3, AskingKept DEF Asking
  <2>5. ProvisionTyped'
    BY <1>2, <1>3, <1>4, <2>4 DEF ProvisionTyped, tables, worker, reader
  <2>6. Grow
    BY <1>2, <1>3, GrowsLittle DEF ProvisionTyped, tables, HasJob
  <2>7. /\ \A q \in Request \ {r} : req'[q] = req[q]
        /\ req'[r].project = req[r].project /\ req'[r].dir = req[r].dir
        /\ req'[r].at = req[r].at /\ req'[r].state = req[r].state
        /\ req'[r].done = D
    BY <1>2, <2>3 DEF Asking
  <2>8. HasJob(Of(r))
    BY <1>4 DEF HasJob, Live
  <2>9. step(r) # "none" /\ step(r) \notin Leaving
    BY <1>3 DEF Leaving
  <2>10. QED
    BY <1>3, <1>4, <2>1, <2>5, <2>6, <2>7, <2>8, <2>9, StepDone DEF tables
<1>5. CASE pc' = [pc EXCEPT ![r] = "submit"] /\ req' = req
  <2>1. ProvisionTyped'
    BY <1>2, <1>3, <1>5 DEF ProvisionTyped, tables, worker, reader, RequestPc
  <2>2. Grow
    BY <1>2, <1>3, GrowsLittle DEF ProvisionTyped, tables, HasJob
  <2>3. req[r].done = S /\ S \in Beginnings
    <3>1. S \cap Prepare = S
      OBVIOUS
    <3>2. QED
      BY <1>1, <3>1 DEF DoneSoFar, Claim
  <2>4. S = Prepare \ {"queue_initialise"}
    BY <1>3, <2>3, AtStep
  <2>5. pc'[r] = "submit"
    BY <1>2, <1>5
  <2>6. Claim(p, S)' /\ (Handed(p) => Handed(p)')
    BY <1>1, <2>2, ClaimGrows DEF DoneSoFar, Grow, Handed
  <2>7. DoneSoFar(r, p, d, S)'
    BY <1>1, <1>3, <1>5, <2>4, <2>5, <2>6 DEF DoneSoFar
  <2>8. RequestFits(r)'
    BY <2>7 DEF RequestFits
  <2>9. \A q \in Request \ {r} : pc'[q] = pc[q] /\ req'[q] = req[q]
    BY <1>2, <1>5
  <2>10. QED
    BY <1>3, <2>1, <2>2, <2>8, <2>9, RequestMoves DEF tables
<1>6. QED
  BY <1>4, <1>5 DEF FindLive

\* The whole of the prepare half is one of its beginnings.
LEMMA AllOfIt == Prepare \in Beginnings /\ Prepare \cap Prepare = Prepare
<1>1. \A x : x \in Prepare <=> \E i \in 1..7 : x = PREPARE_STEPS[i]
  BY StepNames DEF Prepare, ToSet
<1>2. Prepare = {PREPARE_STEPS[i] : i \in 1..7} /\ 7 \in 0..Len(PREPARE_STEPS)
  BY <1>1, StepNames
<1>3. QED
  BY <1>2 DEF Beginnings

\* The job's row is created: it is this project's, and all but this step is done.
LEMMA CreateJobKeeps ==
    ASSUME ProvisionInv, NEW r \in Request, CreateJob(r)
    PROVE  ProvisionInv'
<1>1. PICK p \in Project, d \in Dir, S \in SUBSET Prepare : DoneSoFar(r, p, d, S)
  BY UnderWay DEF Serving, CreateJob
<1>2. /\ ProvisionTyped /\ req \in [Request -> Asking] /\ req[r] \in Asking
      /\ pc \in [Request -> RequestPc]
      /\ jobs \in Seq(Initialising) /\ wpc \in Seq(WorkerPc) /\ work \in Seq(Finalising)
      /\ Len(wpc) = Len(jobs) /\ Len(work) = Len(jobs) /\ Len(jobs) \in Nat
      /\ DOMAIN jobs = 1..Len(jobs)
  BY LenProperties DEF ProvisionInv, ProvisionTyped
<1>3. PICK n \in Nat : n = Len(jobs) + 1
  BY <1>2
<1>4. /\ S = Prepare \ {"queue_initialise"} /\ pc[r] = "submit"
      /\ req[r].dir = d /\ req[r].project = p /\ d \in asked[p] /\ req[r].done = S
  BY <1>1 DEF DoneSoFar, CreateJob
<1> DEFINE job == [project |-> p, dir |-> d, state |-> "queued", started |-> 0]
<1>5. /\ jobs' = Append(jobs, job) /\ wpc' = Append(wpc, "created") /\ work' = Append(work, NoWork)
      /\ UNCHANGED <<state, root, records, files, clock, reader, asked, troubles>>
      /\ pc' = [pc EXCEPT ![r] = "enqueue"] /\ req' = [req EXCEPT ![r].job = n]
  BY <1>3, <1>4 DEF CreateJob, Of
<1>6. job \in Initialising /\ NoWork \in Finalising /\ "created" \in WorkerPc
  BY DEF Initialising, NoWork, Finalising, WorkerPc
<1>7. /\ jobs' \in Seq(Initialising) /\ wpc' \in Seq(WorkerPc) /\ work' \in Seq(Finalising)
      /\ Len(wpc') = Len(jobs') /\ Len(work') = Len(jobs')
      /\ Len(jobs') = n /\ DOMAIN jobs' = 1..n
      /\ jobs'[n] = job /\ work'[n] = NoWork
      /\ \A j \in DOMAIN jobs : jobs'[j] = jobs[j] /\ work'[j] = work[j]
  <2> HIDE DEF job
  <2>1. /\ jobs' \in Seq(Initialising) /\ Len(jobs') = n /\ jobs'[n] = job
        /\ \A j \in 1..Len(jobs) : jobs'[j] = jobs[j]
    BY <1>2, <1>3, <1>5, <1>6, AppendProperties
  <2>2. wpc' \in Seq(WorkerPc) /\ Len(wpc') = n
    BY <1>2, <1>3, <1>5, <1>6, AppendProperties
  <2>3. /\ work' \in Seq(Finalising) /\ Len(work') = n /\ work'[n] = NoWork
        /\ \A j \in 1..Len(jobs) : work'[j] = work[j]
    BY <1>2, <1>3, <1>5, <1>6, AppendProperties
  <2>4. DOMAIN jobs' = 1..n
    BY <2>1, LenProperties
  <2>5. QED
    BY <1>2, <2>1, <2>2, <2>3, <2>4
<1> HIDE DEF job
<1>8. req' = [req EXCEPT ![r].host = req[r].host, ![r].done = req[r].done,
      ![r].failed = req[r].failed, ![r].job = n]
  BY <1>2, <1>5 DEF Asking
<1>9. req' \in [Request -> Asking]
  <2>1. /\ req[r].host \in Dir \cup {NoDir} /\ req[r].failed \in Prepare \cup {"none"}
        /\ req[r].done \in SUBSET Prepare
    BY <1>2 DEF Asking
  <2>2. QED
    BY <1>2, <1>3, <1>8, <2>1, AskingKept
<1>10. ProvisionTyped'
  BY <1>2, <1>5, <1>7, <1>9 DEF ProvisionTyped, reader, RequestPc
<1>11. HasJob(p)'
  <2>1. n \in DOMAIN jobs' /\ jobs'[n].project = p
    BY <1>2, <1>3, <1>7 DEF job
  <2>2. QED
    BY <2>1 DEF HasJob
<1>12. Grow
  <2>1. \A x \in Project : HasJob(x) => HasJob(x)'
    BY <1>2, <1>3, <1>7 DEF HasJob
  <2>2. QED
    BY <1>2, <1>5, <2>1, GrowsLittle DEF ProvisionTyped
<1>13. Claim(p, Prepare)'
  <2>1. Claim(p, S)'
    BY <1>1, <1>12, ClaimGrows DEF DoneSoFar
  <2>2. Prepare \cap Leaving = S \cap Leaving
    BY <1>4 DEF Leaving
  <2>3. Prepare \cap Prepare \in Beginnings
    BY AllOfIt
  <2>4. QED
    BY <1>11, <2>1, <2>2, <2>3 DEF Claim, Step
<1>14. RequestFits(r)'
  <2>1. /\ req'[r].project = p /\ req'[r].dir = d /\ req'[r].done = S
        /\ req'[r].at = req[r].at /\ req'[r].state = req[r].state /\ pc'[r] = "enqueue"
    BY <1>2, <1>4, <1>5, <1>8 DEF Asking
  <2>2. Handed(p) => Handed(p)'
    BY <1>11, <1>5 DEF Handed
  <2>3. Claim(p, S)'
    BY <1>1, <1>12, ClaimGrows DEF DoneSoFar
  <2>4. DoneSoFar(r, p, d, S)'
    BY <1>1, <1>4, <1>5, <1>11, <2>1, <2>2, <2>3 DEF DoneSoFar
  <2>5. QED
    BY <2>4 DEF RequestFits
<1>15. JobFits(n)'
  <2>1. /\ jobs'[n].project = p /\ jobs'[n].dir = d /\ jobs'[n].started = 0
        /\ work'[n].before = {} /\ work'[n].done = {} /\ work'[n].at = 0
    BY <1>7 DEF job, NoWork
  <2>2. InitialiseUpTo(0) = {} /\ 0 \in 0..4
    BY DEF InitialiseUpTo
  <2>3. Claim(p, {})'
    <3>1. Claim(p, {})
      BY NothingIsClaimed
    <3>2. QED
      BY <1>12, <3>1, ClaimGrows
  <2>4. 0 \in 0..clock' /\ d \in asked'[p]
    BY <1>2, <1>4, <1>5 DEF ProvisionTyped
  <2>5. {} \subseteq Left(p)' /\ {} \in SUBSET Prepare
    OBVIOUS
  <2>6. QED
    BY <1>13, <2>1, <2>2, <2>3, <2>4, <2>5 DEF JobFits
<1>16. \A q \in Request \ {r} : pc'[q] = pc[q] /\ req'[q] = req[q]
  BY <1>2, <1>5, <1>8
<1>17. \A j \in DOMAIN jobs' : j \in DOMAIN jobs \/ j = n
  BY <1>2, <1>3, <1>7
<1>18. /\ \A q \in Request : (pc'[q] = pc[q] /\ req'[q] = req[q]) \/ RequestFits(q)'
       /\ \A j \in DOMAIN jobs' :
             \/ /\ j \in DOMAIN jobs /\ work'[j] = work[j]
                /\ jobs'[j].project = jobs[j].project /\ jobs'[j].dir = jobs[j].dir
                /\ jobs'[j].started = jobs[j].started
             \/ JobFits(j)'
  BY <1>7, <1>14, <1>15, <1>16, <1>17
<1>19. QED
  BY <1>5, <1>10, <1>12, <1>18, RestIsKept DEF reader

\* A worker is told of it: the step is done.
LEMMA EnqueueJobKeeps ==
    ASSUME ProvisionInv, NEW r \in Request, EnqueueJob(r)
    PROVE  ProvisionInv'
<1>1. PICK p \in Project, d \in Dir, S \in SUBSET Prepare : DoneSoFar(r, p, d, S)
  BY UnderWay DEF Serving, EnqueueJob
<1>2. /\ ProvisionTyped /\ req \in [Request -> Asking] /\ req[r] \in Asking
      /\ pc \in [Request -> RequestPc] /\ wpc \in Seq(WorkerPc)
  BY DEF ProvisionInv, ProvisionTyped
<1>3. /\ pc[r] = "enqueue" /\ pc' = [pc EXCEPT ![r] = "steps"]
      /\ UNCHANGED <<tables, files, clock, work, reader, asked, troubles>>
  BY DEF EnqueueJob
<1>4. PICK k, D : k = req[r].job /\ D = req[r].done \cup {step(r)}
  OBVIOUS
<1>5. S = Prepare \ {"queue_initialise"} /\ HasJob(p) /\ D = Prepare
  <2>1. /\ S = Prepare \ {"queue_initialise"} /\ req[r].done = S /\ HasJob(p)
        /\ S \cap Prepare \in Beginnings
    BY <1>1, <1>3 DEF DoneSoFar, Claim
  <2>2. S \in Beginnings /\ S # Prepare
    <3>1. S \cap Prepare = S
      OBVIOUS
    <3>2. "queue_initialise" \in Prepare
      BY StepSets
    <3>3. QED
      BY <2>1, <3>1, <3>2
  <2>3. step(r) \in Prepare /\ step(r) \notin S
    BY <2>1, <2>2, AtStep
  <2>4. QED
    BY <1>4, <2>1, <2>3
<1>6. wpc' = [wpc EXCEPT ![k] = "queued"]
  BY <1>4 DEF EnqueueJob
<1>7. wpc' \in Seq(WorkerPc) /\ Len(wpc') = Len(wpc)
  <2>1. "queued" \in WorkerPc
    BY DEF WorkerPc
  <2>2. CASE k \in 1..Len(wpc)
    BY <1>2, <1>6, <2>1, <2>2, ExceptSeq
  <2>3. CASE k \notin 1..Len(wpc)
    <3>1. DOMAIN wpc = 1..Len(wpc) /\ wpc = [i \in DOMAIN wpc |-> wpc[i]]
      BY <1>2, LenProperties
    <3>2. wpc' = wpc
      BY <1>6, <2>3, <3>1
    <3>3. QED
      BY <1>2, <3>2
  <2>4. QED
    BY <2>2, <2>3
<1>8. req' = [req EXCEPT ![r].host = req[r].host, ![r].done = D, ![r].failed = req[r].failed, ![r].job = 0]
  BY <1>2, <1>4 DEF EnqueueJob, finish, Asking
<1>9. req' \in [Request -> Asking]
  <2>1. /\ req[r].host \in Dir \cup {NoDir} /\ req[r].failed \in Prepare \cup {"none"}
        /\ D \in SUBSET Prepare /\ 0 \in Nat
    BY <1>2, <1>5 DEF Asking
  <2>2. QED
    BY <1>2, <1>8, <2>1, AskingKept
<1>10. ProvisionTyped'
  BY <1>2, <1>3, <1>7, <1>9 DEF ProvisionTyped, tables, reader, RequestPc
<1>11. Grow
  BY <1>2, <1>3, GrowsLittle DEF ProvisionTyped, tables, HasJob
<1>12. /\ \A q \in Request \ {r} : pc'[q] = pc[q] /\ req'[q] = req[q]
       /\ req'[r].project = req[r].project /\ req'[r].dir = req[r].dir
       /\ req'[r].at = req[r].at /\ req'[r].state = req[r].state
       /\ req'[r].done = Prepare /\ pc'[r] = "steps"
  BY <1>2, <1>3, <1>5, <1>8 DEF Asking
<1>13. Claim(p, Prepare)' /\ (Handed(p) => Handed(p)')
  <2>1. Claim(p, S)'
    BY <1>1, <1>11, ClaimGrows DEF DoneSoFar
  <2>2. Prepare \cap Leaving = S \cap Leaving
    BY <1>5 DEF Leaving
  <2>3. HasJob(p)'
    BY <1>5, <1>11 DEF Grow
  <2>4. QED
    BY <1>11, <2>1, <2>2, <2>3, AllOfIt DEF Claim, Step, Grow, Handed
<1>14. RequestFits(r)'
  <2>1. DoneSoFar(r, p, d, Prepare)'
    BY <1>1, <1>3, <1>12, <1>13 DEF DoneSoFar
  <2>2. QED
    BY <2>1 DEF RequestFits
<1>15. QED
  BY <1>3, <1>10, <1>11, <1>12, <1>14, RestIsKept DEF tables, reader

\* A step that fails is one of the prepare half.
LEMMA FailingKeeps ==
    ASSUME ProvisionInv, NEW r \in Request, pc[r] \in {"steps", "submit", "enqueue"},
           NEW f \in Prepare, StepFailure(r, f), UNCHANGED <<tables, files, clock, worker, reader, asked>>,
           troubles' \in 0..MaxTroubles
    PROVE  ProvisionInv'
<1>1. PICK p \in Project, d \in Dir, S \in SUBSET Prepare : DoneSoFar(r, p, d, S)
  BY UnderWay DEF Serving
<1>2. ProvisionTyped /\ req \in [Request -> Asking] /\ req[r] \in Asking /\ pc \in [Request -> RequestPc]
  BY DEF ProvisionInv, ProvisionTyped
<1>3. 0 \in Nat /\ f \in Prepare \cup {"none"}
  OBVIOUS
<1>4. req' = [req EXCEPT ![r].host = req[r].host, ![r].done = req[r].done, ![r].failed = f, ![r].job = 0]
  BY <1>2 DEF StepFailure, Asking
<1>5. req' \in [Request -> Asking]
  <2>1. req[r].host \in Dir \cup {NoDir} /\ req[r].done \in SUBSET Prepare
    BY <1>2 DEF Asking
  <2>2. QED
    BY <1>2, <1>3, <1>4, <2>1, AskingKept
<1>6. pc' = [pc EXCEPT ![r] = "failing"]
  BY DEF StepFailure
<1>7. ProvisionTyped'
  BY <1>2, <1>5, <1>6 DEF ProvisionTyped, tables, worker, reader, RequestPc
<1>8. Grow
  BY <1>2, GrowsLittle DEF ProvisionTyped, tables, HasJob
<1>9. /\ \A q \in Request \ {r} : pc'[q] = pc[q] /\ req'[q] = req[q]
      /\ req'[r].project = req[r].project /\ req'[r].dir = req[r].dir
      /\ req'[r].at = req[r].at /\ req'[r].state = req[r].state
      /\ req'[r].done = req[r].done /\ req'[r].failed = f /\ pc'[r] = "failing"
  BY <1>2, <1>4, <1>6 DEF Asking
<1>10. Claim(p, S)' /\ (Handed(p) => Handed(p)')
  BY <1>1, <1>8, ClaimGrows DEF DoneSoFar, Grow, Handed
<1>11. DoneSoFar(r, p, d, S)'
  BY <1>1, <1>3, <1>9, <1>10 DEF DoneSoFar
<1>12. RequestFits(r)'
  BY <1>11 DEF RequestFits
<1>13. QED
  BY <1>7, <1>8, <1>9, <1>12, RequestMoves DEF tables

\* Another project's path, or a directory in use.
LEMMA RefuseStepKeeps ==
    ASSUME ProvisionInv, NEW r \in Request, RefuseStep(r)
    PROVE  ProvisionInv'
<1>1. PICK f \in Prepare : StepFailure(r, f)
  BY StepSets DEF RefuseStep
<1>2. pc[r] = "steps" /\ UNCHANGED <<tables, files, clock, worker, reader, asked, troubles>>
  BY DEF RefuseStep
<1>3. troubles' \in 0..MaxTroubles
  BY <1>2 DEF ProvisionInv, ProvisionTyped
<1>4. QED
  BY <1>1, <1>2, <1>3, FailingKeeps

\* Anything may throw, the queue too.
LEMMA ThrowKeeps ==
    ASSUME ProvisionInv, NEW r \in Request, Throw(r)
    PROVE  ProvisionInv'
<1>1. PICK p \in Project, d \in Dir, S \in SUBSET Prepare : DoneSoFar(r, p, d, S)
  BY UnderWay DEF Serving, Throw
<1>2. S \cap Prepare = S /\ req[r].done = S /\ S \cap Prepare \in Beginnings
  BY <1>1 DEF DoneSoFar, Claim
<1>3. PICK f \in Prepare : StepFailure(r, f)
  <2>1. step(r) # "none" => step(r) \in Prepare
    BY <1>2, AtStep
  <2>2. QED
    BY <2>1, StepSets DEF Throw
<1>4. troubles' \in 0..MaxTroubles
  BY TroublesAssumption DEF ProvisionInv, ProvisionTyped, Throw, Trouble
<1>5. /\ pc[r] \in {"steps", "submit", "enqueue"}
      /\ UNCHANGED <<tables, files, clock, worker, reader, asked>>
  BY DEF Throw
<1>6. QED
  BY <1>3, <1>4, <1>5, FailingKeeps

\* A record that claims what may be claimed is added.
LEMMA Recorded ==
    ASSUME ProvisionInv, NEW p \in Project, NEW at \in Nat, NEW o \in Outcome,
           NEW S \in SUBSET Step, NEW f \in Step \cup {"none"},
           append(p, at, o, S, f), Claim(p, S), f # "none" <=> o = "failed",
           clock' \in Nat, clock <= clock', at <= clock', UNCHANGED <<jobs, files, asked>>
    PROVE  /\ Grow
           /\ records' \in [Project -> Seq(Record)] /\ records'[p] # <<>>
           /\ \A q \in Project :
                \/ records'[q] = records[q]
                \/ \E x \in Record : records'[q] = Append(records[q], x) /\ RecordFits(q, x)'
<1> DEFINE added == [at |-> at, outcome |-> o, steps |-> S, failed |-> f]
<1>1. PICK x : x = added
  OBVIOUS
<1>2. x \in Record
  BY <1>1 DEF Record
<1>3. ProvisionTyped /\ records \in [Project -> Seq(Record)] /\ clock \in Nat
  BY DEF ProvisionInv, ProvisionTyped
<1>4. records' = [records EXCEPT ![p] = Append(@, x)]
  BY <1>1 DEF append
<1>5. /\ records' \in [Project -> Seq(Record)]
      /\ records'[p] = Append(records[p], x)
      /\ \A q \in Project \ {p} : records'[q] = records[q]
  <2>1. Append(records[p], x) \in Seq(Record)
    BY <1>2, <1>3, AppendProperties
  <2>2. QED
    BY <1>3, <1>4, <2>1
<1>6. records'[p] # <<>>
  <2>1. records[p] \in Seq(Record)
    BY <1>3
  <2>2. Len(records'[p]) = Len(records[p]) + 1 /\ Len(records[p]) \in Nat
    BY <1>2, <1>5, <2>1, AppendProperties, LenProperties
  <2>3. Len(<<>>) = 0
    OBVIOUS
  <2>4. QED
    BY <2>2, <2>3
<1>7. \A q \in Project : records[q] # <<>> => records'[q] # <<>>
  BY <1>5, <1>6
<1>8. \A q \in Project : HasJob(q) => HasJob(q)'
  BY DEF HasJob
<1>9. Grow
  BY <1>3, <1>7, <1>8, GrowsLittle
<1>10. RecordFits(p, x)'
  <2>1. Claim(p, S)'
    BY <1>9, ClaimGrows
  <2>2. x.at = at /\ x.outcome = o /\ x.steps = S /\ x.failed = f
    BY <1>1
  <2>3. at \in 0..clock'
    OBVIOUS
  <2>4. QED
    BY <2>1, <2>2, <2>3 DEF RecordFits
<1>11. QED
  BY <1>2, <1>5, <1>6, <1>9, <1>10

\* A project that is provisioned: a record says so again.
LEMMA NoChangeKeeps ==
    ASSUME ProvisionInv, NEW r \in Request, NoChange(r)
    PROVE  ProvisionInv'
<1>1. PICK p : /\ p \in Project /\ state[p] = "provisioned"
               /\ append(p, clock', "no_change", Prepare \cup Initialise, "none")
  <2>1. PICK t \in Wanted[r] :
          /\ state[t.project] = "provisioned"
          /\ append(t.project, clock', "no_change", Prepare \cup Initialise, "none")
    BY DEF NoChange
  <2>2. t.project \in Project
    BY <2>1, WantedAssumption
  <2>3. QED
    BY <2>1, <2>2
<1>2. /\ ProvisionTyped /\ pc \in [Request -> RequestPc] /\ clock \in Nat
      /\ clock' = clock + 1 /\ pc' = [pc EXCEPT ![r] = "done"]
      /\ UNCHANGED <<state, root, jobs, files, req, worker, reader, asked, troubles>>
  BY DEF ProvisionInv, ProvisionTyped, NoChange
<1>3. Claim(p, Step)
  BY <1>1 DEF ProvisionInv, StateFits
<1>4. append(p, clock', "no_change", Step, "none")
  BY <1>1 DEF Step
<1>5. PICK at \in Nat : at = clock' /\ at = clock + 1
  BY <1>2
<1>6. /\ Grow /\ records' \in [Project -> Seq(Record)]
      /\ \A q \in Project :
           \/ records'[q] = records[q]
           \/ \E x \in Record : records'[q] = Append(records[q], x) /\ RecordFits(q, x)'
  <2>1. /\ "no_change" \in Outcome /\ "none" \in Step \cup {"none"} /\ Step \in SUBSET Step
        /\ "none" # "none" <=> "no_change" = "failed"
    BY DEF Outcome
  <2>2. append(p, at, "no_change", Step, "none")
    BY <1>4, <1>5
  <2>3. clock' \in Nat /\ clock <= clock' /\ at <= clock'
    BY <1>2, <1>5
  <2>4. QED
    BY <1>1, <1>2, <1>3, <2>1, <2>2, <2>3, Recorded
<1>7. ProvisionTyped'
  BY <1>2, <1>5, <1>6 DEF ProvisionTyped, worker, reader, RequestPc
<1>8. \A q \in Request : (pc'[q] = pc[q] /\ req'[q] = req[q]) \/ RequestFits(q)'
  BY <1>2 DEF RequestFits, Serving
<1>9. QED
  BY <1>2, <1>6, <1>7, <1>8, RestIsKept DEF worker, reader

\* A request begins where the latest record of the project left off.
LEMMA OpenKeeps ==
    ASSUME ProvisionInv, NEW r \in Request, Open(r)
    PROVE  ProvisionInv'
<1> DEFINE q(p, d) == [Idle EXCEPT !.project = p, !.dir = d, !.at = clock', !.state = state[p],
                          !.host = root[p], !.done = completed(p), !.before = completed(p)]
<1>1. PICK p, d : /\ p \in Project /\ d \in Dir /\ state[p] # "provisioned"
                  /\ req' = [req EXCEPT ![r] = q(p, d)]
                  /\ asked' = [asked EXCEPT ![p] = @ \cup {d}]
  <2>1. PICK t \in Wanted[r] :
          /\ state[t.project] # "provisioned"
          /\ req' = [req EXCEPT ![r] = q(t.project, t.dir)]
          /\ asked' = [asked EXCEPT ![t.project] = @ \cup {t.dir}]
    BY DEF Open
  <2>2. t.project \in Project /\ t.dir \in Dir
    BY <2>1, WantedAssumption
  <2>3. QED
    BY <2>1, <2>2
<1>2. /\ ProvisionTyped /\ pc \in [Request -> RequestPc] /\ clock \in Nat
      /\ req \in [Request -> Asking] /\ state \in [Project -> State]
      /\ root \in [Project -> Dir \cup {NoDir}] /\ asked \in [Project -> SUBSET Dir]
      /\ clock' = clock + 1 /\ pc' = [pc EXCEPT ![r] = "steps"]
      /\ UNCHANGED <<tables, files, worker, reader, troubles>>
  BY DEF ProvisionInv, ProvisionTyped, Open
<1>3. PICK D, at, s, h : /\ D = completed(p) /\ at = clock' /\ s = state[p] /\ h = root[p]
  OBVIOUS
<1>4. D \in SUBSET Prepare /\ Claim(p, D)
  BY <1>1, <1>3, CompletedClaims
<1>5. at \in Nat /\ at = clock + 1 /\ s \in State /\ h \in Dir \cup {NoDir}
  BY <1>1, <1>2, <1>3
<1> DEFINE z1 == [Idle EXCEPT !.project = p]
           z2 == [z1 EXCEPT !.dir = d]
           z3 == [z2 EXCEPT !.at = at]
           z4 == [z3 EXCEPT !.state = s]
           z5 == [z4 EXCEPT !.host = h]
           z6 == [z5 EXCEPT !.done = D]
           z == [z6 EXCEPT !.before = D]
<1>6. q(p, d) = z
  BY <1>3
<1>7. z \in Asking
  <2>1. z1 \in Asking
    BY <1>1 DEF Idle, Asking, State
  <2>2. z2 \in Asking
    <3> HIDE DEF z1
    <3>1. QED
      BY <1>1, <2>1 DEF Asking
  <2>3. z3 \in Asking
    <3> HIDE DEF z2
    <3>1. QED
      BY <1>5, <2>2 DEF Asking
  <2>4. z4 \in Asking
    <3> HIDE DEF z3
    <3>1. QED
      BY <1>5, <2>3 DEF Asking
  <2>5. z5 \in Asking
    <3> HIDE DEF z4
    <3>1. QED
      BY <1>5, <2>4 DEF Asking
  <2>6. z6 \in Asking
    <3> HIDE DEF z5
    <3>1. QED
      BY <1>4, <2>5 DEF Asking
  <2>7. QED
    <3> HIDE DEF z6
    <3>1. QED
      BY <1>4, <2>6 DEF Asking
<1>8. /\ req' = [req EXCEPT ![r] = z]
      /\ z.project = p /\ z.dir = d /\ z.at = at /\ z.state = s /\ z.done = D
  <2>1. z.project = p /\ z.dir = d /\ z.at = at /\ z.state = s /\ z.done = D
    BY DEF Idle
  <2>2. QED
    BY <1>1, <1>6, <2>1
<1> HIDE DEF q
<1>9. req' \in [Request -> Asking] /\ req'[r] = z /\ \A x \in Request \ {r} : req'[x] = req[x]
  <2> HIDE DEF z
  <2>1. QED
    BY <1>2, <1>7, <1>8
<1>10. /\ asked' \in [Project -> SUBSET Dir] /\ d \in asked'[p]
       /\ \A x \in Project : asked[x] \subseteq asked'[x]
  BY <1>1, <1>2
<1>11. ProvisionTyped'
  BY <1>2, <1>5, <1>9, <1>10, <1>3 DEF ProvisionTyped, tables, worker, reader, RequestPc
<1>12. Grow
  <2>1. \A x \in Project : Left(x) \subseteq Left(x)'
    BY <1>2, <1>10 DEF Left
  <2>2. \A x \in Project : HasJob(x) => HasJob(x)'
    BY <1>2 DEF HasJob, tables
  <2>3. QED
    BY <1>2, <1>10, <2>1, <2>2 DEF Grow, tables
<1>13. RequestFits(r)'
  <2>1. /\ req'[r].project = p /\ req'[r].dir = d /\ req'[r].done = D /\ req'[r].at = at
        /\ req'[r].state = s /\ pc'[r] = "steps"
    BY <1>2, <1>8, <1>9
  <2>2. Claim(p, D)'
    BY <1>1, <1>4, <1>12, ClaimGrows
  <2>3. s = "prepared" => Handed(p)'
    <3>1. s = "prepared" => Handed(p)
      BY <1>1, <1>3 DEF ProvisionInv, StateFits
    <3>2. Handed(p) => Handed(p)'
      BY <1>1, <1>12 DEF Grow, Handed
    <3>3. QED
      BY <3>1, <3>2
  <2>4. s # "provisioned" /\ at \in 0..clock'
    BY <1>1, <1>3, <1>5
  <2>5. DoneSoFar(r, p, d, D)'
    BY <1>10, <2>1, <2>2, <2>3, <2>4 DEF DoneSoFar
  <2>6. QED
    BY <1>1, <1>4, <2>5 DEF RequestFits
<1>14. \A x \in Request \ {r} : pc'[x] = pc[x] /\ req'[x] = req[x]
  BY <1>2, <1>9
<1>15. QED
  BY <1>2, <1>11, <1>12, <1>13, <1>14, RequestMoves DEF tables

\* What failed is recorded with the steps before it.
LEMMA RecordFailureKeeps ==
    ASSUME ProvisionInv, NEW r \in Request, RecordFailure(r)
    PROVE  ProvisionInv'
<1>1. PICK p \in Project, d \in Dir, S \in SUBSET Prepare : DoneSoFar(r, p, d, S)
  BY UnderWay DEF Serving, RecordFailure
<1>2. /\ ProvisionTyped /\ pc \in [Request -> RequestPc] /\ clock \in Nat
      /\ pc[r] = "failing" /\ pc' = [pc EXCEPT ![r] = "fail"]
      /\ append(Of(r), req[r].at, "failed", req[r].done, req[r].failed)
      /\ UNCHANGED <<state, root, jobs, files, clock, req, worker, reader, asked, troubles>>
  BY DEF ProvisionInv, ProvisionTyped, RecordFailure
<1>3. PICK at, f : at = req[r].at /\ f = req[r].failed
  OBVIOUS
<1>4. /\ at \in Nat /\ at <= clock /\ f \in Step \cup {"none"} /\ f # "none" /\ S \in SUBSET Step
      /\ append(p, at, "failed", S, f) /\ Claim(p, S)
  <2>1. /\ at \in 0..clock /\ f \in Prepare /\ Of(r) = p /\ req[r].done = S /\ Claim(p, S)
    BY <1>1, <1>2, <1>3 DEF DoneSoFar, Of
  <2>2. f # "none"
    BY <2>1, StepSets
  <2>3. QED
    BY <1>2, <1>3, <2>1, <2>2 DEF Step
<1>5. /\ Grow /\ records' \in [Project -> Seq(Record)]
      /\ \A q \in Project :
           \/ records'[q] = records[q]
           \/ \E x \in Record : records'[q] = Append(records[q], x) /\ RecordFits(q, x)'
  <2>1. "failed" \in Outcome
    BY DEF Outcome
  <2>2. clock' \in Nat /\ clock <= clock' /\ at <= clock'
    BY <1>2, <1>4
  <2>3. QED
    BY <1>2, <1>4, <2>1, <2>2, Recorded
<1>6. ProvisionTyped'
  BY <1>2, <1>5 DEF ProvisionTyped, worker, reader, RequestPc
<1>7. RequestFits(r)'
  <2>1. Claim(p, S)' /\ (Handed(p) => Handed(p)')
    BY <1>1, <1>5, ClaimGrows DEF DoneSoFar, Grow, Handed
  <2>2. pc'[r] = "fail" /\ req'[r] = req[r]
    BY <1>2
  <2>3. DoneSoFar(r, p, d, S)'
    BY <1>1, <1>2, <2>1, <2>2 DEF DoneSoFar
  <2>4. QED
    BY <2>3 DEF RequestFits
<1>8. \A q \in Request : (pc'[q] = pc[q] /\ req'[q] = req[q]) \/ RequestFits(q)'
  BY <1>2, <1>7
<1>9. QED
  BY <1>2, <1>5, <1>6, <1>8, RestIsKept DEF worker, reader

\* A request with nothing left to do has done the whole half.
LEMMA RecordPreparedKeeps ==
    ASSUME ProvisionInv, NEW r \in Request, RecordPrepared(r)
    PROVE  ProvisionInv'
<1>1. PICK p \in Project, d \in Dir, S \in SUBSET Prepare : DoneSoFar(r, p, d, S)
  BY UnderWay DEF Serving, RecordPrepared
<1>2. /\ ProvisionTyped /\ pc \in [Request -> RequestPc] /\ clock \in Nat
      /\ pc[r] = "steps" /\ pc' = [pc EXCEPT ![r] = "update"] /\ step(r) = "none"
      /\ append(Of(r), req[r].at, outcome(r), req[r].done, "none")
      /\ UNCHANGED <<state, root, jobs, files, clock, req, worker, reader, asked, troubles>>
  BY DEF ProvisionInv, ProvisionTyped, RecordPrepared
<1>3. PICK at, o : at = req[r].at /\ o = outcome(r)
  OBVIOUS
<1>4. S = Prepare
  <2>1. S \cap Prepare = S /\ S \cap Prepare \in Beginnings /\ req[r].done = S
    BY <1>1 DEF DoneSoFar, Claim
  <2>2. QED
    BY <1>2, <2>1, AtStep
<1>5. /\ at \in Nat /\ at <= clock /\ o \in Outcome /\ o # "failed" /\ S \in SUBSET Step
      /\ append(p, at, o, S, "none") /\ Claim(p, S)
  <2>1. /\ at \in 0..clock /\ Of(r) = p /\ req[r].done = S /\ Claim(p, S)
    BY <1>1, <1>3 DEF DoneSoFar, Of
  <2>2. o \in {"no_change", "succeeded"}
    BY <1>3 DEF outcome
  <2>3. QED
    BY <1>2, <1>3, <2>1, <2>2 DEF Outcome, Step
<1>6. /\ Grow /\ records' \in [Project -> Seq(Record)] /\ records'[p] # <<>>
      /\ \A q \in Project :
           \/ records'[q] = records[q]
           \/ \E x \in Record : records'[q] = Append(records[q], x) /\ RecordFits(q, x)'
  <2>1. "none" \in Step \cup {"none"} /\ ("none" # "none" <=> o = "failed")
    BY <1>5
  <2>2. clock' \in Nat /\ clock <= clock' /\ at <= clock'
    BY <1>2, <1>5
  <2>3. QED
    BY <1>2, <1>5, <2>1, <2>2, Recorded
<1>7. ProvisionTyped'
  BY <1>2, <1>6 DEF ProvisionTyped, worker, reader, RequestPc
<1>8. RequestFits(r)'
  <2>1. Claim(p, S)' /\ (Handed(p) => Handed(p)')
    BY <1>1, <1>6, ClaimGrows DEF DoneSoFar, Grow, Handed
  <2>2. pc'[r] = "update" /\ req'[r] = req[r]
    BY <1>2
  <2>3. DoneSoFar(r, p, d, S)'
    BY <1>1, <1>2, <1>4, <1>6, <2>1, <2>2 DEF DoneSoFar
  <2>4. QED
    BY <2>3 DEF RequestFits
<1>9. \A q \in Request : (pc'[q] = pc[q] /\ req'[q] = req[q]) \/ RequestFits(q)'
  BY <1>2, <1>8
<1>10. QED
  BY <1>2, <1>6, <1>7, <1>9, RestIsKept DEF worker, reader

\* Writing a state that fits, or finding the path taken.
LEMMA UpdateKeeps ==
    ASSUME ProvisionInv, NEW r \in Request, NEW s \in State \ {"provisioned"}, update(r, s),
           NEW p \in Project, Of(r) = p, s = "prepared" => Handed(p)
    PROVE  ProvisionInv'
<1>1. /\ ProvisionTyped /\ state \in [Project -> State] /\ root \in [Project -> Dir \cup {NoDir}]
      /\ req \in [Request -> Asking] /\ pc \in [Request -> RequestPc] /\ clock \in Nat
  BY DEF ProvisionInv, ProvisionTyped
<1>2. /\ pc' = [pc EXCEPT ![r] = "done"] /\ req' = [req EXCEPT ![r] = Idle]
      /\ UNCHANGED <<records, jobs, files, clock, worker, reader, asked, troubles>>
  BY DEF update
<1>3. state' = state \/ state' = [state EXCEPT ![p] = s]
  BY DEF update
<1>4. root' \in [Project -> Dir \cup {NoDir}]
  <2>1. PICK h : h = req[r].host
    OBVIOUS
  <2>2. h \in Dir \cup {NoDir}
    BY <1>1, <2>1 DEF Asking
  <2>3. root' = root \/ root' = [root EXCEPT ![p] = h]
    BY <2>1 DEF update
  <2>4. QED
    BY <1>1, <2>2, <2>3
<1>5. Idle \in Asking
  BY DEF Idle, Asking, State
<1>6. ProvisionTyped'
  <2>1. state' \in [Project -> State]
    BY <1>1, <1>3
  <2>2. req' \in [Request -> Asking]
    BY <1>1, <1>2, <1>5
  <2>3. pc' \in [Request -> RequestPc]
    BY <1>1, <1>2 DEF RequestPc
  <2>4. QED
    BY <1>1, <1>2, <1>4, <2>1, <2>2, <2>3 DEF ProvisionTyped, worker, reader
<1>7. Grow
  BY <1>1, <1>2, GrowsLittle DEF HasJob
<1>8. \A q \in Project : state'[q] = state[q] \/ StateFits(q)'
  <2>1. \A q \in Project : state'[q] = state[q] \/ (q = p /\ state'[q] = s)
    BY <1>1, <1>3
  <2>2. s = "prepared" => Handed(p)'
    BY <1>7 DEF Grow, Handed
  <2>3. state'[p] = s => StateFits(p)'
    BY <2>2 DEF StateFits
  <2>4. QED
    BY <2>1, <2>3
<1>9. \A q \in Request : (pc'[q] = pc[q] /\ req'[q] = req[q]) \/ RequestFits(q)'
  BY <1>1, <1>2 DEF RequestFits, Serving
<1>10. QED
  BY <1>2, <1>6, <1>7, <1>8, <1>9, RestIsKept DEF worker, reader

\* A run that failed leaves its project failed.
LEMMA UpdateFailedKeeps ==
    ASSUME ProvisionInv, NEW r \in Request, UpdateFailed(r)
    PROVE  ProvisionInv'
<1>1. PICK p \in Project, d \in Dir, S \in SUBSET Prepare : DoneSoFar(r, p, d, S)
  BY UnderWay DEF Serving, UpdateFailed
<1>2. Of(r) = p
  BY <1>1 DEF DoneSoFar, Of
<1>3. update(r, "failed") /\ "failed" \in State \ {"provisioned"} /\ "failed" # "prepared"
  BY DEF UpdateFailed, State
<1>4. QED
  BY <1>2, <1>3, UpdateKeeps

\* A run that prepared leaves it prepared, or as it was read, and its job is queued.
LEMMA UpdatePreparedKeeps ==
    ASSUME ProvisionInv, NEW r \in Request, UpdatePrepared(r)
    PROVE  ProvisionInv'
<1>1. PICK p \in Project, d \in Dir, S \in SUBSET Prepare : DoneSoFar(r, p, d, S)
  BY UnderWay DEF Serving, UpdatePrepared
<1>2. PICK s : s = stateAfter([outcome |-> outcome(r), steps |-> req[r].done])
  OBVIOUS
<1>3. PICK t : t = IF s = "none" THEN req[r].state ELSE s
  OBVIOUS
<1>4. pc[r] = "update" /\ update(r, t)
  BY <1>2, <1>3 DEF UpdatePrepared
<1>5. S = Prepare /\ req[r].done = S /\ Of(r) = p /\ Handed(p)
  <2>1. S = Prepare /\ req[r].done = S /\ Of(r) = p /\ records[p] # <<>> /\ Claim(p, S)
    BY <1>1, <1>4 DEF DoneSoFar, Of
  <2>2. "queue_initialise" \in S
    BY <2>1, StepSets
  <2>3. QED
    BY <2>1, <2>2 DEF Claim, Handed
<1>6. "verify_structure" \notin Prepare
  BY StepSets
<1>7. s \in {"prepared", "none"}
  <2>1. PICK o : o = outcome(r)
    OBVIOUS
  <2>2. o = "no_change" \/ o = "succeeded"
    BY <2>1 DEF outcome
  <2>3. s = stateAfter([outcome |-> o, steps |-> S])
    BY <1>2, <1>5, <2>1
  <2>4. QED
    BY <1>5, <1>6, <2>2, <2>3 DEF stateAfter
<1>8. req[r].state \in State \ {"provisioned"}
  <2>1. req[r] \in Asking
    BY DEF ProvisionInv, ProvisionTyped
  <2>2. QED
    BY <1>1, <2>1 DEF DoneSoFar, Asking
<1>9. t \in State \ {"provisioned"}
  BY <1>3, <1>7, <1>8 DEF State
<1>10. QED
  BY <1>4, <1>5, <1>9, UpdateKeeps

\* A request that dies leaves what it did behind.
LEMMA CrashRequestKeeps ==
    ASSUME ProvisionInv, NEW r \in Request, CrashRequest(r)
    PROVE  ProvisionInv'
<1>1. /\ ProvisionTyped /\ req \in [Request -> Asking] /\ pc \in [Request -> RequestPc]
      /\ pc' = [pc EXCEPT ![r] = "done"] /\ req' = [req EXCEPT ![r] = Idle]
      /\ UNCHANGED <<tables, files, clock, worker, reader, asked>>
  BY DEF ProvisionInv, ProvisionTyped, CrashRequest
<1>2. Idle \in Asking
  BY DEF Idle, Asking, State
<1>3. troubles' \in 0..MaxTroubles
  BY TroublesAssumption DEF ProvisionInv, ProvisionTyped, CrashRequest, Trouble
<1>4. req' \in [Request -> Asking] /\ pc' \in [Request -> RequestPc]
  BY <1>1, <1>2 DEF RequestPc
<1>5. ProvisionTyped'
  BY <1>1, <1>3, <1>4 DEF ProvisionTyped, tables, worker, reader
<1>6. Grow
  BY <1>1, GrowsLittle DEF ProvisionTyped, tables, HasJob
<1>7. RequestFits(r)'
  BY <1>1 DEF RequestFits, Serving
<1>8. \A q \in Request \ {r} : pc'[q] = pc[q] /\ req'[q] = req[q]
  BY <1>1
<1>9. QED
  BY <1>1, <1>5, <1>6, <1>7, <1>8, RequestMoves DEF tables

\* A job under way and its delivery, and what changing one of each keeps.
LEMMA JobRows ==
    ASSUME ProvisionTyped, NEW j \in DOMAIN jobs
    PROVE  /\ j \in 1..Len(jobs) /\ j \in 1..Len(wpc) /\ j \in 1..Len(work)
           /\ DOMAIN jobs = 1..Len(jobs) /\ DOMAIN work = 1..Len(work)
           /\ jobs[j] \in Initialising /\ work[j] \in Finalising
           /\ \A a \in WorkerPc : /\ [wpc EXCEPT ![j] = a] \in Seq(WorkerPc)
                                  /\ Len([wpc EXCEPT ![j] = a]) = Len(wpc)
           /\ \A w \in Finalising :
                /\ [work EXCEPT ![j] = w] \in Seq(Finalising)
                /\ Len([work EXCEPT ![j] = w]) = Len(work)
                /\ [work EXCEPT ![j] = w][j] = w
                /\ \A k \in DOMAIN jobs \ {j} : [work EXCEPT ![j] = w][k] = work[k]
           /\ \A x \in Initialising :
                /\ [jobs EXCEPT ![j] = x] \in Seq(Initialising)
                /\ Len([jobs EXCEPT ![j] = x]) = Len(jobs)
                /\ DOMAIN [jobs EXCEPT ![j] = x] = DOMAIN jobs
                /\ [jobs EXCEPT ![j] = x][j] = x
                /\ \A k \in DOMAIN jobs \ {j} : [jobs EXCEPT ![j] = x][k] = jobs[k]
<1>1. /\ jobs \in Seq(Initialising) /\ wpc \in Seq(WorkerPc) /\ work \in Seq(Finalising)
      /\ Len(wpc) = Len(jobs) /\ Len(work) = Len(jobs)
  BY DEF ProvisionTyped
<1>2. /\ DOMAIN jobs = 1..Len(jobs) /\ DOMAIN work = 1..Len(work) /\ DOMAIN wpc = 1..Len(wpc)
      /\ j \in 1..Len(jobs)
  BY <1>1, LenProperties
<1>3. jobs[j] \in Initialising /\ work[j] \in Finalising
  BY <1>1, <1>2, ElementOfSeq
<1>4. ASSUME NEW a \in WorkerPc
      PROVE  [wpc EXCEPT ![j] = a] \in Seq(WorkerPc) /\ Len([wpc EXCEPT ![j] = a]) = Len(wpc)
  BY <1>1, <1>2, ExceptSeq
<1>5. ASSUME NEW w \in Finalising
      PROVE  /\ [work EXCEPT ![j] = w] \in Seq(Finalising)
             /\ Len([work EXCEPT ![j] = w]) = Len(work)
             /\ [work EXCEPT ![j] = w][j] = w
             /\ \A k \in DOMAIN jobs \ {j} : [work EXCEPT ![j] = w][k] = work[k]
  <2>1. [work EXCEPT ![j] = w] \in Seq(Finalising) /\ Len([work EXCEPT ![j] = w]) = Len(work)
    BY <1>1, <1>2, ExceptSeq
  <2>2. QED
    BY <1>1, <1>2, <2>1
<1>6. ASSUME NEW x \in Initialising
      PROVE  /\ [jobs EXCEPT ![j] = x] \in Seq(Initialising)
             /\ Len([jobs EXCEPT ![j] = x]) = Len(jobs)
             /\ DOMAIN [jobs EXCEPT ![j] = x] = DOMAIN jobs
             /\ [jobs EXCEPT ![j] = x][j] = x
             /\ \A k \in DOMAIN jobs \ {j} : [jobs EXCEPT ![j] = x][k] = jobs[k]
  <2>1. [jobs EXCEPT ![j] = x] \in Seq(Initialising) /\ Len([jobs EXCEPT ![j] = x]) = Len(jobs)
    BY <1>1, <1>2, ExceptSeq
  <2>2. QED
    BY <1>1, <1>2, <2>1
<1>7. QED
  BY <1>1, <1>2, <1>3, <1>4, <1>5, <1>6

\* A delivery moves alone.
LEMMA DeliveryMoves ==
    ASSUME ProvisionInv, ProvisionTyped', Grow, NEW j \in DOMAIN jobs,
           UNCHANGED <<state, records, jobs, request, reader>>,
           \A k \in DOMAIN jobs \ {j} : work'[k] = work[k],
           JobFits(j)'
    PROVE  ProvisionInv'
BY RestIsKept DEF request, reader

\* The steps an initialiser has run.
LEMMA InitialisedSteps ==
    \A k \in 0..4 :
        /\ ToSet(SubSeq(INITIALISE_STEPS, 1, k)) = InitialiseUpTo(k)
        /\ InitialiseUpTo(k) \in SUBSET Initialise /\ InitialiseUpTo(k) \subseteq Leaving
        /\ "verify_structure" \in InitialiseUpTo(k) <=> k = 4
        /\ k < 4 => /\ Cardinality(InitialiseUpTo(k)) + 1 \in 1..4
                    /\ INITIALISE_STEPS[Cardinality(InitialiseUpTo(k)) + 1] \in Initialise
<1>1. SUFFICES ASSUME NEW k \in 0..4
      PROVE  /\ ToSet(SubSeq(INITIALISE_STEPS, 1, k)) = InitialiseUpTo(k)
             /\ InitialiseUpTo(k) \in SUBSET Initialise /\ InitialiseUpTo(k) \subseteq Leaving
             /\ "verify_structure" \in InitialiseUpTo(k) <=> k = 4
             /\ k < 4 => /\ Cardinality(InitialiseUpTo(k)) + 1 \in 1..4
                         /\ INITIALISE_STEPS[Cardinality(InitialiseUpTo(k)) + 1] \in Initialise
  OBVIOUS
<1>2. \A i \in 1..4 : INITIALISE_STEPS[i] \in Initialise
  BY StepNames DEF Initialise, ToSet
<1>3. ToSet(SubSeq(INITIALISE_STEPS, 1, k)) = InitialiseUpTo(k)
  <2>1. k \in Int /\ 1 \in Int /\ \A i \in 1..k : INITIALISE_STEPS[i] \in Initialise
    BY <1>2
  <2>2. /\ SubSeq(INITIALISE_STEPS, 1, k) \in Seq(Initialise)
        /\ Len(SubSeq(INITIALISE_STEPS, 1, k)) = IF 1 <= k THEN k - 1 + 1 ELSE 0
        /\ \A i \in 1..(k - 1 + 1) : SubSeq(INITIALISE_STEPS, 1, k)[i] = INITIALISE_STEPS[1 + i - 1]
    BY <2>1, SubSeqProperties
  <2>3. /\ Len(SubSeq(INITIALISE_STEPS, 1, k)) = k
        /\ \A i \in 1..k : SubSeq(INITIALISE_STEPS, 1, k)[i] = INITIALISE_STEPS[i]
    BY <2>2
  <2>4. DOMAIN SubSeq(INITIALISE_STEPS, 1, k) = 1..k
    BY <2>2, <2>3, LenProperties
  <2>5. QED
    BY <2>3, <2>4 DEF ToSet, InitialiseUpTo
<1>4. InitialiseUpTo(k) \in SUBSET Initialise
  BY <1>2 DEF InitialiseUpTo
<1>5. InitialiseUpTo(k) \subseteq Leaving
  BY <1>4, StepSets DEF Leaving, Step
<1>6. "verify_structure" \in InitialiseUpTo(k) <=> k = 4
  <2>1. \A i \in 1..4 : INITIALISE_STEPS[i] = "verify_structure" <=> i = 4
    <3>1. \A i \in 1..4 : i = 1 \/ i = 2 \/ i = 3 \/ i = 4
      OBVIOUS
    <3>2. QED
      BY <3>1, StepNames
  <2>2. QED
    BY <2>1 DEF InitialiseUpTo
<1>7. k < 4 => Cardinality(InitialiseUpTo(k)) \in 0..3
  <2>1. SUFFICES ASSUME k < 4 PROVE Cardinality(InitialiseUpTo(k)) \in 0..3
    OBVIOUS
  <2> DEFINE three == (({} \cup {INITIALISE_STEPS[1]}) \cup {INITIALISE_STEPS[2]}) \cup {INITIALISE_STEPS[3]}
  <2>3. IsFiniteSet({}) /\ Cardinality({}) = 0
    BY FS_EmptySet
  <2>4. IsFiniteSet(three) /\ Cardinality(three) \in Nat /\ Cardinality(three) <= 3
    <3> DEFINE one == {} \cup {INITIALISE_STEPS[1]}
               two == one \cup {INITIALISE_STEPS[2]}
    <3>1. IsFiniteSet(one) /\ Cardinality(one) \in Nat /\ Cardinality(one) <= 1
      <4>1. one = {INITIALISE_STEPS[1]}
        OBVIOUS
      <4>2. IsFiniteSet({INITIALISE_STEPS[1]}) /\ Cardinality({INITIALISE_STEPS[1]}) = 1
        BY FS_Singleton, Zenon
      <4> HIDE DEF one
      <4>3. QED
        BY <4>1, <4>2
    <3>2. IsFiniteSet(two) /\ Cardinality(two) \in Nat /\ Cardinality(two) <= 2
      <4> HIDE DEF one
      <4>1. /\ IsFiniteSet(two)
            /\ Cardinality(two) = IF INITIALISE_STEPS[2] \in one THEN Cardinality(one) ELSE Cardinality(one) + 1
        BY <3>1, FS_AddElement
      <4> HIDE DEF two
      <4>2. QED
        BY <3>1, <4>1
    <3>3. three = two \cup {INITIALISE_STEPS[3]}
      OBVIOUS
    <3> HIDE DEF two
    <3>4. /\ IsFiniteSet(two \cup {INITIALISE_STEPS[3]})
          /\ Cardinality(two \cup {INITIALISE_STEPS[3]}) =
                IF INITIALISE_STEPS[3] \in two THEN Cardinality(two) ELSE Cardinality(two) + 1
      BY <3>2, FS_AddElement
    <3> HIDE DEF three
    <3>5. QED
      BY <3>2, <3>3, <3>4
  <2>5. InitialiseUpTo(k) \in SUBSET three
    <3>1. \A i \in 1..k : i = 1 \/ i = 2 \/ i = 3
      BY <2>1
    <3>2. QED
      BY <3>1 DEF InitialiseUpTo
  <2> HIDE DEF three
  <2>6. IsFiniteSet(InitialiseUpTo(k)) /\ Cardinality(InitialiseUpTo(k)) <= Cardinality(three)
    BY <2>4, <2>5, FS_Subset
  <2>7. Cardinality(InitialiseUpTo(k)) \in Nat
    BY <2>6, FS_CardinalityType
  <2>8. QED
    BY <2>4, <2>6, <2>7
<1>8. QED
  BY <1>2, <1>3, <1>4, <1>5, <1>6, <1>7

\* What a delivery may hold.
LEMMA FinalisingKept ==
    ASSUME NEW w \in Finalising, NEW at \in Nat, NEW B \in SUBSET Prepare, NEW I \in SUBSET Initialise
    PROVE  /\ [w EXCEPT !.done = I] \in Finalising
           /\ [w EXCEPT !.at = at, !.before = B] \in Finalising
<1>1. [w EXCEPT !.done = I] \in Finalising
  BY DEF Finalising
<1>2. [w EXCEPT !.at = at] \in Finalising
  BY DEF Finalising
<1> DEFINE one == [w EXCEPT !.at = at]
<1>3. [one EXCEPT !.before = B] \in Finalising
  <2> HIDE DEF one
  <2>1. one \in Finalising
    BY <1>2 DEF one
  <2>2. QED
    BY <2>1 DEF Finalising
<1>4. [w EXCEPT !.at = at, !.before = B] = [one EXCEPT !.before = B]
  OBVIOUS
<1>5. QED
  BY <1>1, <1>3, <1>4

\* The initialiser leaves in the job's directory what it reports as done.
LEMMA RunInitialiserKeeps ==
    ASSUME ProvisionInv, NEW j \in DOMAIN jobs, RunInitialiser(j)
    PROVE  ProvisionInv'
<1>1. PICK p \in Project, d \in Dir, B \in SUBSET Prepare, k \in 0..4 :
        /\ jobs[j].project = p /\ jobs[j].dir = d
        /\ work[j].before = B /\ work[j].done = InitialiseUpTo(k)
        /\ d \in asked[p]
        /\ jobs[j].started \in 0..clock /\ work[j].at \in 0..clock
        /\ Claim(p, Prepare) /\ Claim(p, B)
        /\ InitialiseUpTo(k) \subseteq Left(p)
  BY DEF ProvisionInv, JobFits
<1>2. ProvisionTyped /\ files \in [Dir -> SUBSET Content]
  BY DEF ProvisionInv, ProvisionTyped
<1>3. PICK n \in 0..4 :
        /\ n < 4 \/ UNCHANGED troubles
        /\ n < 4 => Trouble
        /\ files' = [files EXCEPT ![d] = @ \cup ({p} \X InitialiseUpTo(n))]
        /\ work' = [work EXCEPT ![j].done = InitialiseUpTo(n)]
  <2>1. PICK n \in 0..4 :
          /\ IF n < Len(INITIALISE_STEPS) THEN Trouble ELSE UNCHANGED troubles
          /\ files' = [files EXCEPT ![jobs[j].dir] = @ \cup ({jobs[j].project} \X
                           ToSet(SubSeq(INITIALISE_STEPS, 1, n)))]
          /\ work' = [work EXCEPT ![j].done = ToSet(SubSeq(INITIALISE_STEPS, 1, n))]
    <3>1. \E n \in 0..Len(INITIALISE_STEPS) :
          /\ IF n < Len(INITIALISE_STEPS) THEN Trouble ELSE UNCHANGED troubles
          /\ files' = [files EXCEPT ![jobs[j].dir] = @ \cup ({jobs[j].project} \X
                           ToSet(SubSeq(INITIALISE_STEPS, 1, n)))]
          /\ work' = [work EXCEPT ![j].done = ToSet(SubSeq(INITIALISE_STEPS, 1, n))]
      BY Zenon DEF RunInitialiser
    <3>2. Len(INITIALISE_STEPS) = 4
      BY StepNames
    <3>3. QED
      BY <3>1, <3>2, Zenon
  <2>2. ToSet(SubSeq(INITIALISE_STEPS, 1, n)) = InitialiseUpTo(n) /\ Len(INITIALISE_STEPS) = 4
    BY InitialisedSteps, StepNames
  <2>3. QED
    BY <1>1, <2>1, <2>2
<1>4. /\ wpc' = [wpc EXCEPT ![j] = "finalise"]
      /\ UNCHANGED <<tables, clock, request, reader, asked>>
  BY DEF RunInitialiser, Advance
<1>5. PICK I : I = InitialiseUpTo(n)
  OBVIOUS
<1>6. I \in SUBSET Initialise /\ I \subseteq Leaving
  BY <1>5, InitialisedSteps
<1>7. PICK w : w = [work[j] EXCEPT !.done = I]
  OBVIOUS
<1>8. w \in Finalising /\ w.done = I /\ w.before = B /\ w.at = work[j].at
  <2>1. work[j] \in Finalising
    BY <1>2, JobRows
  <2>2. QED
    BY <1>1, <1>6, <1>7, <2>1 DEF Finalising
<1>9. work' = [work EXCEPT ![j] = w]
  BY <1>3, <1>5, <1>7
<1>10. /\ work' \in Seq(Finalising) /\ Len(work') = Len(work) /\ work'[j] = w
       /\ \A x \in DOMAIN jobs \ {j} : work'[x] = work[x]
  BY <1>2, <1>8, <1>9, JobRows
<1>11. wpc' \in Seq(WorkerPc) /\ Len(wpc') = Len(wpc)
  <2>1. "finalise" \in WorkerPc
    BY DEF WorkerPc
  <2>2. QED
    BY <1>2, <1>4, <2>1, JobRows
<1>12. files' = [files EXCEPT ![d] = @ \cup ({p} \X I)]
  BY <1>3, <1>5
<1>13. /\ files' \in [Dir -> SUBSET Content] /\ {p} \X I \subseteq files'[d]
       /\ \A e \in Dir : files[e] \subseteq files'[e]
  <2>1. {p} \X I \in SUBSET Content
    BY <1>6 DEF Content, Step
  <2> DEFINE new == {p} \X I
  <2>2. files' = [files EXCEPT ![d] = @ \cup new] /\ new \in SUBSET Content
    BY <1>12, <2>1
  <2> HIDE DEF new
  <2>3. /\ files' \in [Dir -> SUBSET Content] /\ new \subseteq files'[d]
        /\ \A e \in Dir : files[e] \subseteq files'[e]
    BY <1>2, <2>2
  <2>4. QED
    BY <2>3 DEF new
<1>14. troubles' \in 0..MaxTroubles
  BY <1>2, <1>3, TroublesAssumption DEF ProvisionTyped, Trouble
<1>15. ProvisionTyped'
  BY <1>2, <1>4, <1>10, <1>11, <1>13, <1>14 DEF ProvisionTyped, tables, request, reader
<1>16. Grow
  BY <1>2, <1>4, <1>13, GrowsByFiles DEF tables
<1>17. I \subseteq Left(p)'
  <2>1. ASSUME NEW s \in I PROVE s \in Left(p)'
    <3>1. s \in Leaving /\ <<p, s>> \in files'[d] /\ asked' = asked
      BY <1>4, <1>6, <1>13, <2>1
    <3>2. QED
      BY <1>1, <3>1, LeftBehind
  <2>2. QED
    BY <2>1
<1>18. JobFits(j)'
  <2>1. Claim(p, Prepare)' /\ Claim(p, B)'
    BY <1>1, <1>16, ClaimGrows
  <2>2. QED
    BY <1>1, <1>3, <1>4, <1>5, <1>8, <1>10, <1>17, <2>1 DEF JobFits, tables
<1>19. QED
  BY <1>4, <1>10, <1>15, <1>16, <1>18, DeliveryMoves DEF tables

\* A job keeps its project and directory whatever is noted of it.
LEMMA InitialisingKept ==
    ASSUME NEW x \in Initialising, NEW s \in {"queued", "running", "succeeded", "failed"}, NEW n \in Nat
    PROVE  /\ [x EXCEPT !.state = s] \in Initialising
           /\ [x EXCEPT !.state = s].project = x.project /\ [x EXCEPT !.state = s].dir = x.dir
           /\ [x EXCEPT !.state = s].started = x.started
           /\ [x EXCEPT !.state = s, !.started = n] \in Initialising
           /\ [x EXCEPT !.state = s, !.started = n].project = x.project
           /\ [x EXCEPT !.state = s, !.started = n].dir = x.dir
           /\ [x EXCEPT !.state = s, !.started = n].started = n
<1> DEFINE one == [x EXCEPT !.state = s]
<1>1. /\ one \in Initialising /\ one.project = x.project /\ one.dir = x.dir
      /\ one.started = x.started
  BY DEF Initialising
<1>2. [x EXCEPT !.state = s, !.started = n] = [one EXCEPT !.started = n]
  OBVIOUS
<1>3. /\ [one EXCEPT !.started = n] \in Initialising
      /\ [one EXCEPT !.started = n].project = x.project /\ [one EXCEPT !.started = n].dir = x.dir
      /\ [one EXCEPT !.started = n].started = n
  <2> HIDE DEF one
  <2>1. QED
    BY <1>1 DEF Initialising
<1>4. QED
  BY <1>1, <1>2, <1>3

\* The worker marks its job running and reads what came before.
LEMMA FinaliseJobKeeps ==
    ASSUME ProvisionInv, NEW j \in DOMAIN jobs, FinaliseJob(j)
    PROVE  ProvisionInv'
<1>1. PICK p \in Project, d \in Dir, B \in SUBSET Prepare, k \in 0..4 :
        /\ jobs[j].project = p /\ jobs[j].dir = d
        /\ work[j].before = B /\ work[j].done = InitialiseUpTo(k)
        /\ d \in asked[p]
        /\ jobs[j].started \in 0..clock /\ work[j].at \in 0..clock
        /\ Claim(p, Prepare) /\ Claim(p, B)
        /\ InitialiseUpTo(k) \subseteq Left(p)
  BY DEF ProvisionInv, JobFits
<1>2. ProvisionTyped /\ clock \in Nat
  BY DEF ProvisionInv, ProvisionTyped
<1>3. PICK at, b, now :
        /\ at = IF jobs[j].started = 0 THEN clock' ELSE jobs[j].started
        /\ b = IF records[p] = <<>> THEN {} ELSE latestForProject(p).steps \ Initialise
        /\ now = clock + 1
  OBVIOUS
<1>4. /\ clock' = now /\ now \in Nat /\ clock <= now
      /\ jobs' = IF jobs[j].state = "queued"
                 THEN [jobs EXCEPT ![j].state = "running", ![j].started = now] ELSE jobs
      /\ wpc' = [wpc EXCEPT ![j] = "record"]
      /\ work' = [work EXCEPT ![j].at = at, ![j].before = b]
      /\ UNCHANGED <<state, root, records, files, request, reader, asked, troubles>>
  BY <1>1, <1>2, <1>3 DEF FinaliseJob, Advance
<1>5. at \in 0..now /\ at \in Nat
  BY <1>1, <1>2, <1>3, <1>4
<1>6. b \in SUBSET Prepare /\ Claim(p, b)
  <2>1. CASE records[p] = <<>>
    BY <1>3, <2>1, NothingIsClaimed
  <2>2. CASE records[p] # <<>>
    <3>1. PICK x : x = latestForProject(p)
      OBVIOUS
    <3>2. x \in Record /\ RecordOf(p, x)
      BY <2>2, <3>1, LatestIsARecord
    <3>3. Claim(p, x.steps)
      BY <3>2 DEF ProvisionInv, RecordFits
    <3>4. b = x.steps \ Initialise
      BY <1>3, <2>2, <3>1
    <3>5. x.steps \in SUBSET Step
      BY <3>2 DEF Record
    <3>6. b = x.steps \cap Prepare
      BY <3>4, <3>5, StepSets DEF Step
    <3>7. QED
      BY <3>3, <3>6, ClaimShrinks
  <2>3. QED
    BY <2>1, <2>2
<1>7. PICK w : w = [work[j] EXCEPT !.at = at, !.before = b]
  OBVIOUS
<1>8. w \in Finalising /\ w.done = InitialiseUpTo(k) /\ w.before = b /\ w.at = at
  <2>1. work[j] \in Finalising
    BY <1>2, JobRows
  <2>2. w \in Finalising
    <3>1. {} \in SUBSET Initialise
      OBVIOUS
    <3>2. QED
      BY <1>5, <1>6, <1>7, <2>1, <3>1, FinalisingKept
  <2>3. QED
    BY <1>1, <1>7, <2>1, <2>2 DEF Finalising
<1>9. work' = [work EXCEPT ![j] = w]
  BY <1>4, <1>7
<1>10. /\ work' \in Seq(Finalising) /\ Len(work') = Len(work) /\ work'[j] = w
       /\ \A x \in DOMAIN jobs \ {j} : work'[x] = work[x]
  BY <1>2, <1>8, <1>9, JobRows
<1>11. wpc' \in Seq(WorkerPc) /\ Len(wpc') = Len(wpc)
  <2>1. "record" \in WorkerPc
    BY DEF WorkerPc
  <2>2. QED
    BY <1>2, <1>4, <2>1, JobRows
<1>12. /\ jobs' \in Seq(Initialising) /\ Len(jobs') = Len(jobs) /\ DOMAIN jobs' = DOMAIN jobs
       /\ jobs'[j].project = p /\ jobs'[j].dir = d /\ jobs'[j].started \in 0..now
       /\ \A x \in DOMAIN jobs \ {j} : jobs'[x] = jobs[x]
  <2>1. CASE jobs[j].state = "queued"
    <3>1. PICK x : x = [jobs[j] EXCEPT !.state = "running", !.started = now]
      OBVIOUS
    <3>2. x \in Initialising /\ x.project = p /\ x.dir = d /\ x.started = now
      <4>1. jobs[j] \in Initialising
        BY <1>2, JobRows
      <4>2. QED
        BY <1>1, <1>4, <3>1, <4>1, InitialisingKept
    <3>3. jobs' = [jobs EXCEPT ![j] = x]
      BY <1>4, <2>1, <3>1
    <3>4. /\ jobs' \in Seq(Initialising) /\ Len(jobs') = Len(jobs) /\ DOMAIN jobs' = DOMAIN jobs
          /\ jobs'[j] = x
          /\ \A y \in DOMAIN jobs \ {j} : jobs'[y] = jobs[y]
      BY <1>2, <3>2, <3>3, JobRows
    <3>5. now \in 0..now
      BY <1>4
    <3>6. QED
      BY <3>2, <3>4, <3>5
  <2>2. CASE jobs[j].state # "queued"
    BY <1>1, <1>2, <1>4, <2>2 DEF ProvisionTyped
  <2>3. QED
    BY <2>1, <2>2
<1>13. ProvisionTyped'
  BY <1>2, <1>4, <1>10, <1>11, <1>12 DEF ProvisionTyped, request, reader
<1>14. Grow
  <2>1. \A x \in DOMAIN jobs : jobs'[x].project = jobs[x].project
    BY <1>1, <1>12
  <2>2. \A x \in Project : HasJob(x) => HasJob(x)'
    BY <1>12, <2>1 DEF HasJob
  <2>3. QED
    BY <1>2, <1>4, <2>2, GrowsLittle
<1>15. JobFits(j)'
  <2>1. Claim(p, Prepare)' /\ Claim(p, b)'
    BY <1>1, <1>6, <1>14, ClaimGrows
  <2>2. InitialiseUpTo(k) \subseteq Left(p)' /\ d \in asked'[p]
    BY <1>1, <1>14 DEF Grow
  <2>3. /\ work'[j].before = b /\ work'[j].done = InitialiseUpTo(k) /\ work'[j].at = at
    BY <1>8, <1>10
  <2>4. jobs'[j].started \in 0..clock' /\ at \in 0..clock'
    BY <1>4, <1>5, <1>12
  <2>5. QED
    BY <1>6, <1>12, <2>1, <2>2, <2>3, <2>4 DEF JobFits
<1>16. \A x \in DOMAIN jobs' :
         \/ /\ x \in DOMAIN jobs /\ work'[x] = work[x]
            /\ jobs'[x].project = jobs[x].project /\ jobs'[x].dir = jobs[x].dir
            /\ jobs'[x].started = jobs[x].started
         \/ JobFits(x)'
  BY <1>10, <1>12, <1>15
<1>17. QED
  BY <1>4, <1>13, <1>14, <1>16, RestIsKept DEF request, reader

\* A worker that goes on holds what it held.
LEMMA DeliveryAdvances ==
    ASSUME ProvisionInv, NEW j \in DOMAIN jobs, NEW a \in WorkerPc, Advance(j, a)
    PROVE  wpc' \in Seq(WorkerPc) /\ Len(wpc') = Len(wpc)
<1>1. ProvisionTyped
  BY DEF ProvisionInv
<1>2. QED
  BY <1>1, JobRows DEF Advance

\* The delivery records what some record claimed before and what it did.
LEMMA FinaliseRecordKeeps ==
    ASSUME ProvisionInv, NEW j \in DOMAIN jobs, FinaliseRecord(j)
    PROVE  ProvisionInv'
<1>1. PICK p \in Project, d \in Dir, B \in SUBSET Prepare, k \in 0..4 :
        /\ jobs[j].project = p /\ jobs[j].dir = d
        /\ work[j].before = B /\ work[j].done = InitialiseUpTo(k)
        /\ d \in asked[p]
        /\ jobs[j].started \in 0..clock /\ work[j].at \in 0..clock
        /\ Claim(p, Prepare) /\ Claim(p, B)
        /\ InitialiseUpTo(k) \subseteq Left(p)
  BY DEF ProvisionInv, JobFits
<1>2. PICK at, o, S, f :
        /\ at = work[j].at /\ o = (IF Ok(j) THEN "succeeded" ELSE "failed")
        /\ S = B \cup InitialiseUpTo(k)
        /\ f = (IF Ok(j) THEN "none" ELSE INITIALISE_STEPS[Cardinality(work[j].done) + 1])
  OBVIOUS
<1>3. /\ ProvisionTyped /\ clock \in Nat /\ append(p, at, o, S, f) /\ Advance(j, "project")
      /\ UNCHANGED <<state, root, jobs, files, clock, request, work, reader, asked, troubles>>
  BY <1>1, <1>2 DEF FinaliseRecord, ProvisionInv, ProvisionTyped
<1>4. Ok(j) <=> k = 4
  BY <1>1, InitialisedSteps DEF Ok
<1>5. /\ at \in Nat /\ at <= clock /\ o \in Outcome /\ S \in SUBSET Step /\ f \in Step \cup {"none"}
      /\ (f # "none" <=> o = "failed")
  <2>1. InitialiseUpTo(k) \in SUBSET Initialise
    BY InitialisedSteps
  <2>2. ~Ok(j) => f \in Initialise /\ f # "none"
    <3>1. k < 4 => INITIALISE_STEPS[Cardinality(InitialiseUpTo(k)) + 1] \in Initialise
      BY InitialisedSteps
    <3>2. "none" \notin Initialise
      BY StepSets
    <3>3. QED
      BY <1>1, <1>2, <1>4, <3>1, <3>2
  <2>3. QED
    BY <1>1, <1>2, <1>3, <2>1, <2>2 DEF Outcome, Step
<1>6. Claim(p, S)
  <2>1. InitialiseUpTo(k) \in SUBSET Initialise
    BY InitialisedSteps
  <2>2. S \cap Prepare = B \cap Prepare
    BY <1>2, <2>1, StepSets
  <2>3. "queue_initialise" \in S => "queue_initialise" \in B
    BY <1>2, <2>1, StepSets
  <2>4. S \cap Leaving \subseteq Left(p)
    BY <1>1, <1>2 DEF Claim
  <2>5. QED
    BY <1>1, <1>5, <2>2, <2>3, <2>4 DEF Claim
<1>7. /\ Grow /\ records' \in [Project -> Seq(Record)]
      /\ \A q \in Project :
           \/ records'[q] = records[q]
           \/ \E x \in Record : records'[q] = Append(records[q], x) /\ RecordFits(q, x)'
  <2>1. clock' \in Nat /\ clock <= clock' /\ at <= clock'
    BY <1>3, <1>5
  <2>2. QED
    BY <1>3, <1>5, <1>6, <2>1, Recorded
<1>8. wpc' \in Seq(WorkerPc) /\ Len(wpc') = Len(wpc)
  <2>1. "project" \in WorkerPc
    BY DEF WorkerPc
  <2>2. QED
    BY <1>3, <2>1, DeliveryAdvances
<1>9. ProvisionTyped'
  BY <1>3, <1>7, <1>8 DEF ProvisionTyped, request, reader
<1>10. QED
  BY <1>3, <1>7, <1>9, RestIsKept DEF request, reader

\* The worker writes provisioned only when both halves are there.
LEMMA FinaliseProjectKeeps ==
    ASSUME ProvisionInv, NEW j \in DOMAIN jobs, FinaliseProject(j)
    PROVE  ProvisionInv'
<1>1. PICK p \in Project, k \in 0..4 :
        /\ jobs[j].project = p /\ work[j].done = InitialiseUpTo(k)
        /\ Claim(p, Prepare) /\ InitialiseUpTo(k) \subseteq Left(p)
  BY DEF ProvisionInv, JobFits
<1>2. PICK s : s = IF Ok(j) THEN "provisioned" ELSE "failed"
  OBVIOUS
<1>3. /\ ProvisionTyped /\ state \in [Project -> State] /\ clock \in Nat
      /\ state' = [state EXCEPT ![p] = s] /\ Advance(j, "settle")
      /\ UNCHANGED <<root, records, jobs, files, clock, request, work, reader, asked, troubles>>
  BY <1>1, <1>2 DEF FinaliseProject, ProvisionInv, ProvisionTyped
<1>4. wpc' \in Seq(WorkerPc) /\ Len(wpc') = Len(wpc)
  <2>1. "settle" \in WorkerPc
    BY DEF WorkerPc
  <2>2. QED
    BY <1>3, <2>1, DeliveryAdvances
<1>5. /\ state' \in [Project -> State] /\ state'[p] = s
      /\ \A q \in Project \ {p} : state'[q] = state[q]
  BY <1>2, <1>3 DEF State
<1>6. ProvisionTyped'
  BY <1>3, <1>4, <1>5 DEF ProvisionTyped, request, reader
<1>7. Grow
  BY <1>3, GrowsLittle DEF HasJob
<1>8. Ok(j) => Claim(p, Step)
  <2>1. SUFFICES ASSUME Ok(j) PROVE Claim(p, Step)
    OBVIOUS
  <2>2. k = 4
    BY <1>1, <2>1, InitialisedSteps DEF Ok
  <2>3. InitialiseUpTo(4) = Initialise
    BY StepNames DEF InitialiseUpTo, Initialise, ToSet
  <2>4. Step \cap Leaving \subseteq Left(p)
    BY <1>1, <2>2, <2>3 DEF Claim, Step
  <2>5. Step \cap Prepare = Prepare \cap Prepare
    BY DEF Step
  <2>6. "queue_initialise" \in Step => "queue_initialise" \in Prepare
    BY StepSets
  <2>7. QED
    BY <1>1, <2>4, <2>5, <2>6 DEF Claim
<1>9. StateFits(p)'
  <2>1. Ok(j) => Claim(p, Step)'
    BY <1>7, <1>8, ClaimGrows
  <2>2. s = "provisioned" => Ok(j)
    BY <1>2
  <2>3. s # "prepared"
    BY <1>2
  <2>4. QED
    BY <1>5, <2>1, <2>2, <2>3 DEF StateFits
<1>10. \A q \in Project : state'[q] = state[q] \/ StateFits(q)'
  BY <1>5, <1>9
<1>11. QED
  BY <1>3, <1>6, <1>7, <1>10, RestIsKept DEF request, reader

\* A delivery that holds nothing is another to come, or none.
LEMMA NoWorkFits ==
    ASSUME ProvisionInv, Grow, NEW j \in DOMAIN jobs, work'[j] = NoWork,
           jobs'[j].project = jobs[j].project, jobs'[j].dir = jobs[j].dir,
           jobs'[j].started = jobs[j].started
    PROVE  JobFits(j)'
<1>1. PICK p \in Project, d \in Dir :
        /\ jobs[j].project = p /\ jobs[j].dir = d /\ d \in asked[p]
        /\ jobs[j].started \in 0..clock /\ Claim(p, Prepare)
  BY DEF ProvisionInv, JobFits
<1>2. Claim(p, Prepare)' /\ Claim(p, {})'
  <2>1. Claim(p, {})
    BY NothingIsClaimed
  <2>2. QED
    BY <1>1, <2>1, ClaimGrows
<1>3. /\ work'[j].before = {} /\ work'[j].done = InitialiseUpTo(0) /\ work'[j].at = 0
      /\ InitialiseUpTo(0) = {}
  BY DEF NoWork, InitialiseUpTo
<1>4. d \in asked'[p] /\ jobs'[j].started \in 0..clock' /\ 0 \in 0..clock'
  <2>1. clock \in Nat
    BY DEF ProvisionInv, ProvisionTyped
  <2>2. QED
    BY <1>1, <2>1 DEF Grow
<1>5. {} \in SUBSET Prepare /\ InitialiseUpTo(0) \subseteq Left(p)' /\ 0 \in 0..4
  BY <1>3
<1>6. QED
  BY <1>1, <1>2, <1>3, <1>4, <1>5 DEF JobFits

\* A job that is settled, and its delivery with it.
LEMMA SettleJobKeeps ==
    ASSUME ProvisionInv, NEW j \in DOMAIN jobs, SettleJob(j)
    PROVE  ProvisionInv'
<1>1. PICK s : s = IF Ok(j) THEN "succeeded" ELSE "failed"
  OBVIOUS
<1>2. /\ ProvisionTyped /\ clock \in Nat /\ jobs' = [jobs EXCEPT ![j].state = s]
      /\ Advance(j, "done") /\ work' = [work EXCEPT ![j] = NoWork]
      /\ UNCHANGED <<state, root, records, files, clock, request, reader, asked, troubles>>
  BY <1>1 DEF SettleJob, ProvisionInv, ProvisionTyped
<1>3. PICK x : x = [jobs[j] EXCEPT !.state = s]
  OBVIOUS
<1>4. /\ x \in Initialising /\ x.project = jobs[j].project /\ x.dir = jobs[j].dir
      /\ x.started = jobs[j].started
  <2>1. jobs[j] \in Initialising /\ s \in {"queued", "running", "succeeded", "failed"} /\ 0 \in Nat
    BY <1>1, <1>2, JobRows
  <2>2. QED
    BY <1>3, <2>1, InitialisingKept
<1>5. jobs' = [jobs EXCEPT ![j] = x] /\ NoWork \in Finalising
  BY <1>2, <1>3 DEF NoWork, Finalising
<1>6. /\ jobs' \in Seq(Initialising) /\ Len(jobs') = Len(jobs) /\ DOMAIN jobs' = DOMAIN jobs
      /\ jobs'[j] = x
      /\ \A y \in DOMAIN jobs \ {j} : jobs'[y] = jobs[y]
  <2>1. ProvisionTyped /\ x \in Initialising /\ jobs' = [jobs EXCEPT ![j] = x]
    BY <1>2, <1>4, <1>5
  <2>2. QED
    BY <2>1, JobRows
<1>7. /\ work' \in Seq(Finalising) /\ Len(work') = Len(work) /\ work'[j] = NoWork
      /\ \A y \in DOMAIN jobs \ {j} : work'[y] = work[y]
  BY <1>2, <1>5, JobRows
<1>8. wpc' \in Seq(WorkerPc) /\ Len(wpc') = Len(wpc)
  <2>1. "done" \in WorkerPc
    BY DEF WorkerPc
  <2>2. QED
    BY <1>2, <2>1, DeliveryAdvances
<1>9. ProvisionTyped'
  BY <1>2, <1>6, <1>7, <1>8 DEF ProvisionTyped, request, reader
<1>10. Grow
  <2>1. \A y \in DOMAIN jobs : jobs'[y].project = jobs[y].project
    BY <1>4, <1>6
  <2>2. \A q \in Project : HasJob(q) => HasJob(q)'
    BY <1>6, <2>1 DEF HasJob
  <2>3. QED
    BY <1>2, <2>2, GrowsLittle
<1>11. JobFits(j)'
  BY <1>4, <1>6, <1>7, <1>10, NoWorkFits
<1>12. \A y \in DOMAIN jobs' :
         \/ /\ y \in DOMAIN jobs /\ work'[y] = work[y]
            /\ jobs'[y].project = jobs[y].project /\ jobs'[y].dir = jobs[y].dir
            /\ jobs'[y].started = jobs[y].started
         \/ JobFits(y)'
  BY <1>6, <1>7, <1>11
<1>13. QED
  BY <1>2, <1>9, <1>10, <1>12, RestIsKept DEF request, reader

\* A worker that dies loses its delivery, and the directory keeps what it wrote.
LEMMA CrashWorkerKeeps ==
    ASSUME ProvisionInv, NEW j \in DOMAIN jobs, CrashWorker(j)
    PROVE  ProvisionInv'
<1>1. /\ ProvisionTyped /\ clock \in Nat /\ Trouble
      /\ Advance(j, "queued") /\ work' = [work EXCEPT ![j] = NoWork]
      /\ UNCHANGED <<tables, files, clock, request, reader, asked>>
  BY DEF CrashWorker, ProvisionInv, ProvisionTyped
<1>2. /\ work' \in Seq(Finalising) /\ Len(work') = Len(work) /\ work'[j] = NoWork
      /\ \A y \in DOMAIN jobs \ {j} : work'[y] = work[y]
  <2>1. NoWork \in Finalising
    BY DEF NoWork, Finalising
  <2>2. QED
    BY <1>1, <2>1, JobRows
<1>3. wpc' \in Seq(WorkerPc) /\ Len(wpc') = Len(wpc)
  <2>1. "queued" \in WorkerPc
    BY DEF WorkerPc
  <2>2. QED
    BY <1>1, <2>1, DeliveryAdvances
<1>4. troubles' \in 0..MaxTroubles
  BY <1>1, TroublesAssumption DEF ProvisionTyped, Trouble
<1>5. ProvisionTyped'
  BY <1>1, <1>2, <1>3, <1>4 DEF ProvisionTyped, tables, request, reader
<1>6. Grow
  BY <1>1, GrowsLittle DEF HasJob, tables
<1>7. JobFits(j)'
  BY <1>1, <1>2, <1>6, NoWorkFits DEF tables
<1>8. QED
  BY <1>1, <1>2, <1>5, <1>6, <1>7, DeliveryMoves DEF tables

\* A page copies what the latest record of a prepared project claims.
LEMMA RefreshReadKeeps ==
    ASSUME ProvisionInv, NEW g \in Reader, RefreshRead(g)
    PROVE  ProvisionInv'
<1>1. PICK p \in Project :
        /\ state[p] = "prepared"
        /\ copied' = [copied EXCEPT ![g] = [project |-> p, steps |-> latestForProject(p).steps]]
  BY DEF RefreshRead
<1>2. /\ ProvisionTyped /\ clock \in Nat /\ rpc \in [Reader -> ReaderPc] /\ copied \in [Reader -> Copy]
      /\ rpc' = [rpc EXCEPT ![g] = "append"]
      /\ UNCHANGED <<tables, files, clock, request, worker, asked, troubles>>
  BY DEF RefreshRead, ProvisionInv, ProvisionTyped
<1>3. PICK x : x = latestForProject(p)
  OBVIOUS
<1>4. x \in Record /\ RecordOf(p, x)
  <2>1. records[p] # <<>>
    BY <1>1 DEF ProvisionInv, StateFits, Handed
  <2>2. QED
    BY <1>3, <2>1, LatestIsARecord
<1>5. PICK S : S = x.steps
  OBVIOUS
<1>6. S \in SUBSET Step /\ Claim(p, S)
  BY <1>4, <1>5 DEF ProvisionInv, RecordFits, Record
<1>7. PICK c : c = [project |-> p, steps |-> S]
  OBVIOUS
<1>8. c \in Copy /\ c.project = p /\ c.steps = S
  BY <1>6, <1>7 DEF Copy
<1>9. copied' = [copied EXCEPT ![g] = c]
  BY <1>1, <1>3, <1>5, <1>7
<1>10. ProvisionTyped'
  BY <1>2, <1>8, <1>9 DEF ProvisionTyped, tables, request, worker, ReaderPc
<1>11. Grow
  BY <1>2, GrowsLittle DEF HasJob, tables
<1>12. ReaderFits(g)'
  <2>1. copied'[g] = c
    BY <1>2, <1>9
  <2>2. Claim(p, S)'
    BY <1>6, <1>11, ClaimGrows
  <2>3. QED
    BY <1>6, <1>8, <2>1, <2>2 DEF ReaderFits
<1>13. \A h \in Reader : (rpc'[h] = rpc[h] /\ copied'[h] = copied[h]) \/ ReaderFits(h)'
  BY <1>2, <1>9, <1>12
<1>14. QED
  BY <1>2, <1>10, <1>11, <1>13, RestIsKept DEF tables, request, worker

\* Its record claims no more.
LEMMA RefreshAppendKeeps ==
    ASSUME ProvisionInv, NEW g \in Reader, RefreshAppend(g)
    PROVE  ProvisionInv'
<1>1. /\ ProvisionTyped /\ clock \in Nat /\ rpc \in [Reader -> ReaderPc] /\ copied \in [Reader -> Copy]
      /\ rpc[g] = "append" /\ rpc' = [rpc EXCEPT ![g] = "update"] /\ clock' = clock + 1
      /\ append(copied[g].project, clock', "pending", copied[g].steps, "none")
      /\ UNCHANGED <<state, root, jobs, files, request, worker, copied, asked, troubles>>
  BY DEF RefreshAppend, ProvisionInv, ProvisionTyped
<1>2. PICK p \in Project, S \in SUBSET Step :
        copied[g].project = p /\ copied[g].steps = S /\ Claim(p, S)
  BY <1>1 DEF ProvisionInv, ReaderFits
<1>3. PICK at \in Nat : at = clock' /\ at = clock + 1
  BY <1>1
<1>4. /\ Grow /\ records' \in [Project -> Seq(Record)]
      /\ \A q \in Project :
           \/ records'[q] = records[q]
           \/ \E x \in Record : records'[q] = Append(records[q], x) /\ RecordFits(q, x)'
  <2>1. "pending" \in Outcome /\ "none" \in Step \cup {"none"} /\ ("none" # "none" <=> "pending" = "failed")
    BY DEF Outcome
  <2>2. append(p, at, "pending", S, "none")
    BY <1>1, <1>2, <1>3
  <2>3. clock' \in Nat /\ clock <= clock' /\ at <= clock'
    BY <1>1, <1>3
  <2>4. QED
    BY <1>1, <1>2, <2>1, <2>2, <2>3, Recorded
<1>5. ProvisionTyped'
  BY <1>1, <1>3, <1>4 DEF ProvisionTyped, request, worker, ReaderPc
<1>6. ReaderFits(g)'
  <2>1. Claim(p, S)'
    BY <1>2, <1>4, ClaimGrows
  <2>2. copied'[g].project = p /\ copied'[g].steps = S
    BY <1>1, <1>2
  <2>3. QED
    BY <2>1, <2>2 DEF ReaderFits
<1>7. \A h \in Reader : (rpc'[h] = rpc[h] /\ copied'[h] = copied[h]) \/ ReaderFits(h)'
  BY <1>1, <1>6
<1>8. QED
  BY <1>1, <1>4, <1>5, <1>7, RestIsKept DEF request, worker

\* And the project waits.
LEMMA RefreshUpdateKeeps ==
    ASSUME ProvisionInv, NEW g \in Reader, RefreshUpdate(g)
    PROVE  ProvisionInv'
<1>1. /\ ProvisionTyped /\ clock \in Nat /\ rpc \in [Reader -> ReaderPc] /\ copied \in [Reader -> Copy]
      /\ state \in [Project -> State]
      /\ rpc[g] = "update" /\ rpc' = [rpc EXCEPT ![g] = "done"]
      /\ state' = [state EXCEPT ![copied[g].project] = "initialisation_pending"]
      /\ copied' = [copied EXCEPT ![g] = NoCopy]
      /\ UNCHANGED <<root, records, jobs, files, clock, request, worker, asked, troubles>>
  BY DEF RefreshUpdate, ProvisionInv, ProvisionTyped
<1>2. PICK p \in Project : copied[g].project = p
  BY <1>1 DEF ProvisionInv, ReaderFits
<1>3. /\ state' \in [Project -> State] /\ state'[p] = "initialisation_pending"
      /\ \A q \in Project \ {p} : state'[q] = state[q]
  BY <1>1, <1>2 DEF State
<1>4. ProvisionTyped'
  <2>1. NoCopy \in Copy
    BY DEF NoCopy, Copy
  <2>2. copied' \in [Reader -> Copy] /\ rpc' \in [Reader -> ReaderPc]
    BY <1>1, <2>1 DEF ReaderPc
  <2>3. QED
    BY <1>1, <1>3, <2>2 DEF ProvisionTyped, request, worker
<1>5. Grow
  BY <1>1, GrowsLittle DEF HasJob
<1>6. ReaderFits(g)'
  BY <1>1 DEF ReaderFits
<1>7. \A h \in Reader : (rpc'[h] = rpc[h] /\ copied'[h] = copied[h]) \/ ReaderFits(h)'
  BY <1>1, <1>6
<1>8. \A q \in Project : state'[q] = state[q] \/ StateFits(q)'
  BY <1>3 DEF StateFits
<1>9. QED
  BY <1>1, <1>4, <1>5, <1>7, <1>8, RestIsKept DEF request, worker

\* Nothing was asked, written or recorded.
LEMMA ProvisionBegins == ProvisionInit => ProvisionInv
<1>1. SUFFICES ASSUME ProvisionInit PROVE ProvisionInv
  OBVIOUS
<1>2. /\ jobs = <<>> /\ wpc = <<>> /\ work = <<>> /\ clock = 0 /\ troubles = 0
      /\ state = [p \in Project |-> "not_provisioned"] /\ root = [p \in Project |-> NoDir]
      /\ records = [p \in Project |-> <<>>] /\ pc = [r \in Request |-> "idle"]
      /\ req = [r \in Request |-> Idle] /\ rpc = [g \in Reader |-> "idle"]
      /\ copied = [g \in Reader |-> NoCopy] /\ asked = [p \in Project |-> {}]
      /\ files \in [Dir -> {{}, {UserFile}}]
  BY <1>1 DEF ProvisionInit
<1>3. ProvisionTyped
  <2>1. Idle \in Asking
    BY DEF Idle, Asking, State
  <2>2. NoCopy \in Copy
    BY DEF NoCopy, Copy
  <2>3. files \in [Dir -> SUBSET Content]
    BY <1>2 DEF Content
  <2>4. 0 \in 0..MaxTroubles
    BY TroublesAssumption
  <2>5. /\ state \in [Project -> State] /\ root \in [Project -> Dir \cup {NoDir}]
        /\ pc \in [Request -> RequestPc] /\ rpc \in [Reader -> ReaderPc]
        /\ req \in [Request -> Asking] /\ copied \in [Reader -> Copy]
        /\ asked \in [Project -> SUBSET Dir]
    BY <1>2, <2>1, <2>2 DEF State, RequestPc, ReaderPc
  <2>6. records \in [Project -> Seq(Record)]
    BY <1>2
  <2>7. jobs \in Seq(Initialising) /\ wpc \in Seq(WorkerPc) /\ work \in Seq(Finalising)
    BY <1>2
  <2>8. Len(wpc) = Len(jobs) /\ Len(work) = Len(jobs)
    BY <1>2
  <2>9. QED
    BY <1>2, <2>3, <2>4, <2>5, <2>6, <2>7, <2>8 DEF ProvisionTyped
<1>4. \A r \in Request : RequestFits(r)
  BY <1>2 DEF RequestFits, Serving
<1>5. \A j \in DOMAIN jobs : JobFits(j)
  BY <1>2
<1>6. \A g \in Reader : ReaderFits(g)
  BY <1>2 DEF ReaderFits
<1>7. \A p \in Project : \A x \in Record : ~RecordOf(p, x)
  BY <1>2 DEF RecordOf
<1>8. \A p \in Project : StateFits(p)
  BY <1>2 DEF StateFits
<1>9. QED
  BY <1>3, <1>4, <1>5, <1>6, <1>7, <1>8 DEF ProvisionInv

\* Every step, and none.
LEMMA ProvisionStep == ProvisionInv /\ [ProvisionNext]_provisionVars => ProvisionInv'
<1>1. SUFFICES ASSUME ProvisionInv, [ProvisionNext]_provisionVars PROVE ProvisionInv'
  OBVIOUS
<1>2. ASSUME NEW r \in Request, RequestStep(r) PROVE ProvisionInv'
  BY <1>1, <1>2, NoChangeKeeps, OpenKeeps, CheckRootKeeps, CreateDirectoryKeeps, WriteStepKeeps,
     FindLiveKeeps, CreateJobKeeps, EnqueueJobKeeps, RefuseStepKeeps, ThrowKeeps, RecordFailureKeeps,
     UpdateFailedKeeps, RecordPreparedKeeps, UpdatePreparedKeeps, CrashRequestKeeps, Zenon
     DEF RequestStep
<1>3. ASSUME NEW j \in DOMAIN jobs, WorkerStep(j) PROVE ProvisionInv'
  BY <1>1, <1>3, RunInitialiserKeeps, FinaliseJobKeeps, FinaliseRecordKeeps,
     FinaliseProjectKeeps, SettleJobKeeps, CrashWorkerKeeps, Zenon DEF WorkerStep
<1>4. ASSUME NEW g \in Reader, RefreshRead(g) \/ RefreshAppend(g) \/ RefreshUpdate(g)
      PROVE  ProvisionInv'
  BY <1>1, <1>4, RefreshReadKeeps, RefreshAppendKeeps, RefreshUpdateKeeps, Zenon
<1>5. CASE UNCHANGED provisionVars
  <2>1. UNCHANGED <<state, root, records, jobs, files, clock, pc, req, wpc, work, rpc, copied, asked, troubles>>
    BY <1>5 DEF provisionVars, tables, request, worker, reader
  <2>2. ProvisionTyped'
    BY <1>1, <2>1 DEF ProvisionInv, ProvisionTyped
  <2>3. Grow
    BY <1>1, <2>1, GrowsLittle DEF HasJob, ProvisionInv, ProvisionTyped
  <2>4. QED
    BY <1>1, <2>1, <2>2, <2>3, RestIsKept
<1>6. QED
  BY <1>1, <1>2, <1>3, <1>4, <1>5, Zenon DEF ProvisionNext

\* What is kept gives the types, for records seen as rows.
LEMMA ProvisionInvGives ==
    ASSUME ProvisionInv
    PROVE  ProvisionTypeOK /\ RecordedStepsAreTrue
<1>1. ProvisionTyped
  BY DEF ProvisionInv
<1>2. ASSUME NEW p \in Project, NEW i \in DOMAIN records[p]
      PROVE  /\ records[p][i] \in Record
             /\ records[p][i].failed # "none" <=> records[p][i].outcome = "failed"
             /\ Claim(p, records[p][i].steps)
  <2>1. PICK x : x = records[p][i]
    OBVIOUS
  <2>2. x \in Record /\ RecordOf(p, x)
    BY <1>1, <2>1, RecordRows DEF RecordOf
  <2>3. RecordFits(p, x)
    BY <2>2 DEF ProvisionInv
  <2>4. QED
    BY <2>1, <2>2, <2>3 DEF RecordFits
<1>3. \A r \in Request : req[r].done \subseteq Prepare /\ req[r].host \in Dir \cup {NoDir}
  BY <1>1 DEF ProvisionTyped, Asking
<1>4. \A d \in Dir : files[d] \subseteq Content
  BY <1>1 DEF ProvisionTyped
<1>5. ProvisionTypeOK
  BY <1>1, <1>2, <1>3, <1>4 DEF ProvisionTypeOK, ProvisionTyped, Initialising
<1>6. RecordedStepsAreTrue
  BY <1>2, <1>5 DEF RecordedStepsAreTrue, Claim
<1>7. QED
  BY <1>5, <1>6

\* A record claims only what happened, and of the prepare half a beginning, whatever
\* fails, dies, resumes, waits for a worker or races it (attempt, prepare, refresh,
\* finaliseInitialisation).
THEOREM RecordsAreTrue == ProvisionSpec => []RecordedStepsAreTrue
<1>1. ProvisionInit => ProvisionInv
  BY ProvisionBegins
<1>2. ProvisionInv /\ [ProvisionNext]_provisionVars => ProvisionInv'
  BY ProvisionStep
<1>3. ProvisionInv => RecordedStepsAreTrue
  BY ProvisionInvGives
<1>4. QED
  BY <1>1, <1>2, <1>3, PTL DEF ProvisionSpec

\* Unless a request died or a call failed, a job no worker was told of has a
\* request that is about to tell one.
Deliveries ==
    troubles = 0 => \A j \in DOMAIN jobs : wpc[j] = "created" => Enqueueing(j)

\* No job is newly without a delivery, and who is about to enqueue one still is.
LEMMA DeliveriesKept ==
    ASSUME Deliveries, troubles' = 0 => troubles = 0,
           \A j \in DOMAIN jobs' : wpc'[j] = "created" =>
               j \in DOMAIN jobs /\ wpc[j] = "created",
           \A r \in Request : pc[r] = "enqueue" => pc'[r] = "enqueue" /\ req'[r].job = req[r].job
    PROVE  Deliveries'
BY DEF Deliveries, Enqueueing

\* A request that is not about to enqueue moves alone.
LEMMA DeliveriesAside ==
    ASSUME ProvisionInv, Deliveries, NEW r \in Request, pc[r] # "enqueue",
           UNCHANGED <<jobs, wpc, troubles>>,
           \A q \in Request \ {r} : pc'[q] = pc[q] /\ req'[q] = req[q]
    PROVE  Deliveries'
<1>1. \A q \in Request : pc[q] = "enqueue" => pc'[q] = "enqueue" /\ req'[q].job = req[q].job
  OBVIOUS
<1>2. QED
  BY <1>1, DeliveriesKept

\* Only the handler that created a job may leave it untold, and only by dying.
LEMMA DeliveriesStep ==
    ASSUME ProvisionInv, Deliveries, NEW r \in Request, RequestStep(r)
    PROVE  Deliveries'
<1>1. /\ req \in [Request -> Asking] /\ pc \in [Request -> RequestPc] /\ troubles \in Nat
      /\ jobs \in Seq(Initialising) /\ wpc \in Seq(WorkerPc) /\ Len(wpc) = Len(jobs)
  BY TroublesAssumption DEF ProvisionInv, ProvisionTyped
<1>2. /\ Len(jobs) \in Nat /\ DOMAIN jobs = 1..Len(jobs) /\ DOMAIN wpc = 1..Len(jobs)
      /\ \A j \in DOMAIN jobs : wpc[j] \in WorkerPc
  BY <1>1, LenProperties, ElementOfSeq
<1>3. CASE NoChange(r) \/ Open(r)
  <2>1. /\ pc[r] = "idle" /\ UNCHANGED <<jobs, wpc, troubles>>
        /\ \A q \in Request \ {r} : pc'[q] = pc[q]
    BY <1>1, <1>3 DEF NoChange, Open, tables, worker
  <2>2. \A q \in Request \ {r} : req'[q] = req[q]
    BY <1>1, <1>3 DEF NoChange, Open
  <2>3. QED
    BY <2>1, <2>2, DeliveriesAside
<1>4. CASE CheckRoot(r) \/ CreateDirectory(r) \/ WriteStep(r) \/ FindLive(r) \/ RefuseStep(r)
  <2>1. /\ pc[r] = "steps" /\ UNCHANGED <<jobs, wpc, troubles>>
        /\ \A q \in Request \ {r} : pc'[q] = pc[q]
    BY <1>1, <1>4
       DEF CheckRoot, CreateDirectory, WriteStep, FindLive, RefuseStep, StepFailure, tables, worker
  <2>2. \A q \in Request \ {r} : req'[q] = req[q]
    BY <1>1, <1>4
       DEF CheckRoot, CreateDirectory, WriteStep, FindLive, RefuseStep, StepFailure, finish
  <2>3. QED
    BY <2>1, <2>2, DeliveriesAside
<1>5. CASE CreateJob(r)
  <2>1. PICK n \in Nat : n = Len(jobs) + 1
    BY <1>2
  <2>2. /\ pc[r] = "submit" /\ UNCHANGED troubles
        /\ req' = [req EXCEPT ![r].job = n] /\ pc' = [pc EXCEPT ![r] = "enqueue"]
        /\ wpc' = Append(wpc, "created") /\ \E x : jobs' = Append(jobs, x)
    BY <1>5, <2>1 DEF CreateJob
  <2>3. DOMAIN jobs' = 1..n /\ \A j \in DOMAIN jobs : wpc'[j] = wpc[j]
    BY <1>1, <1>2, <2>1, <2>2
  <2>4. /\ pc'[r] = "enqueue" /\ req'[r].job = n
        /\ \A q \in Request : pc[q] = "enqueue" => pc'[q] = "enqueue" /\ req'[q].job = req[q].job
    BY <1>1, <2>2 DEF Asking
  <2>5. ASSUME troubles' = 0, NEW j \in DOMAIN jobs', wpc'[j] = "created" PROVE Enqueueing(j)'
    <3>1. CASE j = n
      BY <2>4, <3>1 DEF Enqueueing
    <3>2. CASE j # n
      <4>1. j \in DOMAIN jobs /\ wpc[j] = "created"
        BY <1>2, <2>1, <2>3, <2>5, <3>2
      <4>2. Enqueueing(j)
        BY <2>2, <2>5, <4>1 DEF Deliveries
      <4>3. QED
        BY <2>4, <4>2 DEF Enqueueing
    <3>3. QED
      BY <3>1, <3>2
  <2>6. QED
    BY <2>5 DEF Deliveries
<1>6. CASE EnqueueJob(r)
  <2>1. PICK k : k = req[r].job
    OBVIOUS
  <2>2. /\ UNCHANGED <<jobs, troubles>> /\ wpc' = [wpc EXCEPT ![k] = "queued"]
        /\ \A q \in Request \ {r} : pc'[q] = pc[q]
    BY <1>1, <1>6, <2>1 DEF EnqueueJob, tables
  <2>3. \A q \in Request \ {r} : req'[q] = req[q]
    BY <1>1, <1>6 DEF EnqueueJob, finish
  <2>4. ASSUME troubles' = 0, NEW j \in DOMAIN jobs', wpc'[j] = "created" PROVE Enqueueing(j)'
    <3>1. j \in DOMAIN jobs /\ j # k /\ wpc[j] = "created"
      BY <1>2, <2>2, <2>4
    <3>2. PICK q \in Request : pc[q] = "enqueue" /\ req[q].job = j
      BY <2>2, <2>4, <3>1 DEF Deliveries, Enqueueing
    <3>3. q # r
      BY <2>1, <3>1, <3>2
    <3>4. QED
      BY <2>2, <2>3, <3>2, <3>3 DEF Enqueueing
  <2>5. QED
    BY <2>4 DEF Deliveries
<1>7. CASE Throw(r) \/ CrashRequest(r)
  <2>1. troubles' # 0
    BY <1>1, <1>7 DEF Throw, CrashRequest, Trouble
  <2>2. QED
    BY <2>1 DEF Deliveries
<1>8. CASE RecordFailure(r) \/ RecordPrepared(r)
  <2>1. /\ pc[r] # "enqueue" /\ UNCHANGED <<jobs, wpc, troubles, req>>
        /\ \A q \in Request \ {r} : pc'[q] = pc[q]
    BY <1>1, <1>8 DEF RecordFailure, RecordPrepared, worker
  <2>2. QED
    BY <2>1, DeliveriesAside
<1>9. CASE UpdateFailed(r) \/ UpdatePrepared(r)
  <2>1. pc[r] # "enqueue" /\ \E s : update(r, s)
    BY <1>9 DEF UpdateFailed, UpdatePrepared
  <2>2. /\ UNCHANGED <<jobs, wpc, troubles>>
        /\ \A q \in Request \ {r} : pc'[q] = pc[q] /\ req'[q] = req[q]
    BY <1>1, <2>1 DEF update, worker
  <2>3. QED
    BY <2>1, <2>2, DeliveriesAside
<1>10. QED
  BY <1>3, <1>4, <1>5, <1>6, <1>7, <1>8, <1>9 DEF RequestStep

\* No worker and no read leaves a job without a delivery.
LEMMA DeliveriesElsewhere ==
    ASSUME ProvisionInv, Deliveries,
           \/ \E j \in DOMAIN jobs : WorkerStep(j)
           \/ \E g \in Reader : RefreshRead(g) \/ RefreshAppend(g) \/ RefreshUpdate(g)
    PROVE  Deliveries'
<1>1. /\ wpc \in Seq(WorkerPc) /\ Len(wpc) = Len(jobs) /\ jobs \in Seq(Initialising)
      /\ troubles \in Nat
  BY TroublesAssumption DEF ProvisionInv, ProvisionTyped
<1>2. DOMAIN jobs = 1..Len(jobs) /\ DOMAIN wpc = 1..Len(jobs)
  BY <1>1, LenProperties
<1>3. ASSUME NEW j \in DOMAIN jobs, WorkerStep(j) PROVE Deliveries'
  <2>1. DOMAIN jobs' = DOMAIN jobs
    BY <1>3 DEF WorkerStep, RunInitialiser, FinaliseJob, FinaliseRecord, FinaliseProject,
                SettleJob, CrashWorker, tables
  <2>2. \E x : x # "created" /\ wpc' = [wpc EXCEPT ![j] = x]
    BY <1>3 DEF WorkerStep, RunInitialiser, FinaliseJob, FinaliseRecord, FinaliseProject,
                SettleJob, CrashWorker, Advance
  <2>3. UNCHANGED <<pc, req>>
    BY <1>3 DEF WorkerStep, RunInitialiser, FinaliseJob, FinaliseRecord, FinaliseProject,
                SettleJob, CrashWorker, request
  <2>4. troubles' = 0 => troubles = 0
    <3>1. CASE RunInitialiser(j)
      <4>1. PICK k \in 0..Len(INITIALISE_STEPS) :
              IF k < Len(INITIALISE_STEPS) THEN Trouble ELSE UNCHANGED troubles
        BY <3>1 DEF RunInitialiser
      <4>2. QED
        BY <1>1, <4>1 DEF Trouble
    <3>2. CASE CrashWorker(j)
      BY <1>1, <3>2 DEF CrashWorker, Trouble
    <3>3. CASE ~RunInitialiser(j) /\ ~CrashWorker(j)
      BY <1>3, <3>3 DEF WorkerStep, FinaliseJob, FinaliseRecord, FinaliseProject, SettleJob
    <3>4. QED
      BY <3>1, <3>2, <3>3
  <2>5. \A k \in DOMAIN jobs' : wpc'[k] = "created" => k \in DOMAIN jobs /\ wpc[k] = "created"
    BY <1>2, <2>1, <2>2
  <2>6. QED
    BY <2>3, <2>4, <2>5, DeliveriesKept
<1>4. ASSUME NEW g \in Reader, RefreshRead(g) \/ RefreshAppend(g) \/ RefreshUpdate(g)
      PROVE  Deliveries'
  <2>1. UNCHANGED <<jobs, wpc, pc, req, troubles>>
    BY <1>4 DEF RefreshRead, RefreshAppend, RefreshUpdate, tables, request, worker
  <2>2. QED
    BY <2>1, DeliveriesKept
<1>5. QED
  BY <1>3, <1>4

\* A project reads prepared only when its job is there; and, unless a request died
\* or a call failed, a worker was told of it or is about to be (stateAfter, prepare,
\* jobs.submit).
THEOREM PreparedIsSubmitted == ProvisionSpec => []PreparedWasSubmitted
<1>1. ProvisionInit => ProvisionInv /\ Deliveries
  <2>1. ProvisionInit => Deliveries
    BY DEF ProvisionInit, Deliveries
  <2>2. QED
    BY <2>1, ProvisionBegins
<1>2. ProvisionInv /\ Deliveries /\ [ProvisionNext]_provisionVars => ProvisionInv' /\ Deliveries'
  <2>1. SUFFICES ASSUME ProvisionInv, Deliveries, [ProvisionNext]_provisionVars PROVE Deliveries'
    BY ProvisionStep
  <2>2. CASE UNCHANGED provisionVars
    <3>1. UNCHANGED <<jobs, wpc, pc, req, troubles>>
      BY <2>2 DEF provisionVars, tables, request, worker
    <3>2. QED
      BY <2>1, <3>1, DeliveriesKept
  <2>3. QED
    BY <2>1, <2>2, DeliveriesStep, DeliveriesElsewhere, Zenon DEF ProvisionNext
<1>3. ProvisionInv /\ Deliveries => PreparedWasSubmitted
  <2>1. SUFFICES ASSUME ProvisionInv, Deliveries, NEW p \in Project, state[p] = "prepared"
                 PROVE  \E j \in DOMAIN jobs :
                          jobs[j].project = p /\ (troubles > 0 \/ Enqueued(j) \/ Enqueueing(j))
    BY DEF PreparedWasSubmitted
  <2>2. PICK j \in DOMAIN jobs : jobs[j].project = p
    BY <2>1 DEF ProvisionInv, StateFits, Handed, HasJob
  <2>3. troubles > 0 \/ troubles = 0
    BY <2>1, TroublesAssumption DEF ProvisionInv, ProvisionTyped
  <2>4. troubles = 0 => Enqueued(j) \/ Enqueueing(j)
    BY <2>1, <2>2 DEF Deliveries, Enqueued
  <2>5. QED
    BY <2>2, <2>3, <2>4
<1>4. QED
  BY <1>1, <1>2, <1>3, PTL DEF ProvisionSpec
=============================================================================
