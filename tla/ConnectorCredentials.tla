------------------------ MODULE ConnectorCredentials ------------------------
(***************************************************************************)
(* The credential a connector presents, the principal it acts as and the   *)
(* delegation that principal holds on one project.                         *)
(*                                                                         *)
(* Minting writes five rows one after the other; revoking writes the       *)
(* credential and then each delegation; a call reads them all, one by one, *)
(* or acts on the guard's reading alone.  Operators may suspend and        *)
(* reactivate a principal meanwhile: that moves its identity version,      *)
(* which every delegation pins.  They read it and write it later, so one   *)
(* may write over what another wrote in between.                           *)
(***************************************************************************)
EXTENDS Naturals, Sequences

CONSTANTS
    Credential,
    Legacy,      \* credentials minted before snapshots and delegations existed
    Caller,      \* handlers of guarded calls, each serving one call
    Revoker,     \* handlers of the revoke route, each serving one request
    Operator,    \* transactions that change the state of a principal
    MaxChanges,  \* bound: state changes of principals
    MaxCrashes   \* bound: handlers that die

ASSUME LegacyAssumption == Legacy \subseteq Credential
ASSUME BoundsAssumption == MaxChanges \in Nat /\ MaxCrashes \in Nat

VARIABLES
    row,          \* connector_credentials: "none", "active" or "revoked"
    used,         \* lastUsedAt is set
    snapshot,     \* snapshotId is set
    principal,    \* principals: [state, version, attached]
    delegations,  \* principal_delegations, in the order of the inserts
    known,        \* credentials whose value was returned to a person
    mpc, pinned,  \* a mint under way, the version its snapshot carries
    cpc, call,    \* a call under way
    vpc, target, left, \* a revocation under way
    moving,       \* what each operator's transaction has read of a principal
    changes, crashes,
    outdated,     \* history: credentials whose principal changed after a snapshot
    behind,       \* history: of these, by an operator who had read a version of before it
    hurried       \* history: credentials revoked while they were being minted

rows == <<row, used, snapshot, principal, delegations, known>>
minter == <<mpc, pinned>>
caller == <<cpc, call>>
revoker == <<vpc, target, left>>
operator == <<moving, changes, outdated, behind>>
history == <<operator, crashes, hurried>>
vars == <<rows, minter, caller, revoker, history>>

NoCred == "none"
NoCall == [cred |-> NoCred, attached |-> FALSE, version |-> 0, late |-> FALSE]
NoMove == [cred |-> NoCred, version |-> 0]

Init ==
    /\ row = [c \in Credential |-> IF c \in Legacy THEN "active" ELSE "none"]
    /\ used = {}
    /\ snapshot = {}
    /\ principal = [c \in Credential |->
          [state |-> IF c \in Legacy THEN "active" ELSE "none", version |-> 1, attached |-> FALSE]]
    /\ delegations = <<>>
    /\ known = Legacy
    /\ mpc = [c \in Credential |-> IF c \in Legacy THEN "done" ELSE "idle"]
    /\ pinned = [c \in Credential |-> 0]
    /\ cpc = [k \in Caller |-> "idle"]
    /\ call = [k \in Caller |-> NoCall]
    /\ vpc = [v \in Revoker |-> "idle"]
    /\ target = [v \in Revoker |-> NoCred]
    /\ left = [v \in Revoker |-> {}]
    /\ moving = [o \in Operator |-> NoMove]
    /\ changes = 0
    /\ crashes = 0
    /\ outdated = {}
    /\ behind = {}
    /\ hurried = {}
-----------------------------------------------------------------------------
(* Minting: register, create, attach, capture, delegate, set the snapshot. *)

Mint(c, from, to) == mpc[c] = from /\ mpc' = [mpc EXCEPT ![c] = to]

\* The principal and its first state event are one commit.
RegisterPrincipal(c) ==
    /\ Mint(c, "idle", "registered")
    /\ principal' = [principal EXCEPT ![c].state = "active"]
    /\ UNCHANGED <<row, used, snapshot, delegations, known, pinned, caller, revoker, history>>

CreateCredential(c) ==
    /\ Mint(c, "registered", "created")
    /\ row' = [row EXCEPT ![c] = "active"]
    /\ UNCHANGED <<used, snapshot, principal, delegations, known, pinned, caller, revoker, history>>

AttachRegistration(c) ==
    /\ Mint(c, "created", "attached")
    /\ principal' = [principal EXCEPT ![c].attached = TRUE]
    /\ UNCHANGED <<row, used, snapshot, delegations, known, pinned, caller, revoker, history>>

CaptureSnapshot(c) ==
    /\ Mint(c, "attached", "captured")
    /\ pinned' = [pinned EXCEPT ![c] = principal[c].version]
    /\ UNCHANGED <<rows, caller, revoker, history>>

Delegate(c) ==
    /\ Mint(c, "captured", "delegated")
    /\ delegations' = Append(delegations, [cred |-> c, version |-> pinned[c], revoked |-> FALSE])
    /\ UNCHANGED <<row, used, snapshot, principal, known, pinned, caller, revoker, history>>

\* The last write; the value is shown in this answer and never again.
SetSnapshot(c) ==
    /\ Mint(c, "delegated", "done")
    /\ snapshot' = snapshot \cup {c}
    /\ known' = known \cup {c}
    /\ UNCHANGED <<row, used, principal, delegations, pinned, caller, revoker, history>>

CrashMint(c) ==
    /\ mpc[c] \notin {"idle", "done", "dead"}
    /\ crashes < MaxCrashes
    /\ crashes' = crashes + 1
    /\ mpc' = [mpc EXCEPT ![c] = "dead"]
    /\ UNCHANGED <<rows, pinned, caller, revoker, operator, hurried>>

MintStep(c) ==
    \/ RegisterPrincipal(c) \/ CreateCredential(c) \/ AttachRegistration(c)
    \/ CaptureSnapshot(c) \/ Delegate(c) \/ SetSnapshot(c) \/ CrashMint(c)
-----------------------------------------------------------------------------
(* A guarded call: the guard, the identity, the delegation. *)

Refuse(k) == cpc' = [cpc EXCEPT ![k] = "refused"] /\ call' = [call EXCEPT ![k] = NoCall]

\* The row is read once; a revoked credential is refused.
Authenticate(k) ==
    /\ cpc[k] = "idle"
    /\ \E c \in known :
        IF row[c] = "revoked" THEN Refuse(k)
        ELSE /\ call' = [call EXCEPT ![k] = [NoCall EXCEPT !.cred = c, !.late = c \in outdated]]
             /\ cpc' = [cpc EXCEPT ![k] = "principal"]
    /\ UNCHANGED <<rows, minter, revoker, history>>

\* forPrincipal pins what it reads of an active principal, or refuses.
ForPrincipal(k) ==
    LET p == principal[call[k].cred]
    IN  /\ cpc[k] = "principal"
        /\ IF p.state # "active" THEN Refuse(k)
           ELSE /\ call' = [call EXCEPT ![k].attached = p.attached]
                /\ cpc' = [cpc EXCEPT ![k] = "touch"]
        /\ UNCHANGED <<rows, minter, revoker, history>>

\* touchLastUsed writes its own column only.
TouchLastUsed(k) ==
    /\ cpc[k] = "touch"
    /\ used' = used \cup {call[k].cred}
    /\ cpc' = [cpc EXCEPT ![k] = "identity"]
    /\ UNCHANGED <<row, snapshot, principal, delegations, known, call, minter, revoker, history>>

\* The routes of artifacts and tasks ask for no delegation: what the guard has
\* set is all they act on.
ActOnGuard(k) ==
    /\ cpc[k] = "identity"
    /\ cpc' = [cpc EXCEPT ![k] = "acted"]
    /\ UNCHANGED <<rows, call, minter, revoker, history>>

\* The others name an execution's identity.  A principal without a registration
\* is refused before its snapshot is asked for.
Identify(k) ==
    /\ cpc[k] = "identity"
    /\ IF call[k].attached THEN cpc' = [cpc EXCEPT ![k] = "state"] /\ UNCHANGED call
                           ELSE Refuse(k)
    /\ UNCHANGED <<rows, minter, revoker, history>>

\* Mutant: the version of the principal is the one the request claims.
PrincipalStateClaimed(k) ==
    LET p == principal[call[k].cred]
    IN  /\ cpc[k] = "state"
        /\ IF p.state # "active" THEN Refuse(k)
           ELSE /\ call' = [call EXCEPT ![k].version = pinned[call[k].cred]]
                /\ cpc' = [cpc EXCEPT ![k] = "delegation"]
        /\ UNCHANGED <<rows, minter, revoker, history>>

\* requireDelegated: the authoritative state and version first, then the rows.
PrincipalState(k) ==
    LET p == principal[call[k].cred]
    IN  /\ cpc[k] = "state"
        /\ IF p.state # "active" THEN Refuse(k)
           ELSE /\ call' = [call EXCEPT ![k].version = p.version]
                /\ cpc' = [cpc EXCEPT ![k] = "delegation"]
        /\ UNCHANGED <<rows, minter, revoker, history>>

Usable(c, version) ==
    \E i \in DOMAIN delegations :
        /\ delegations[i].cred = c
        /\ ~delegations[i].revoked
        /\ delegations[i].version = version

RequireDelegated(k) ==
    /\ cpc[k] = "delegation"
    /\ IF Usable(call[k].cred, call[k].version)
       THEN cpc' = [cpc EXCEPT ![k] = "delegated"] /\ UNCHANGED call
       ELSE Refuse(k)
    /\ UNCHANGED <<rows, minter, revoker, history>>

CallStep(k) ==
    \/ Authenticate(k) \/ ForPrincipal(k) \/ TouchLastUsed(k) \/ Identify(k)
    \/ ActOnGuard(k) \/ PrincipalState(k) \/ RequireDelegated(k)
-----------------------------------------------------------------------------
(* Revocation, and the operators who change the state of a principal. *)

\* A person revokes a credential of the list, which may still be in the making;
\* one that is revoked already is answered as unchanged.
FindRevoked(v) ==
    /\ vpc[v] = "idle"
    /\ \E c \in Credential :
        /\ row[c] # "none"
        /\ IF row[c] = "revoked" THEN vpc' = [vpc EXCEPT ![v] = "done"] /\ UNCHANGED target
           ELSE /\ target' = [target EXCEPT ![v] = c]
                /\ vpc' = [vpc EXCEPT ![v] = "row"]
    /\ UNCHANGED <<rows, minter, caller, left, history>>

RevokeRow(v) ==
    /\ vpc[v] = "row"
    /\ row' = [row EXCEPT ![target[v]] = "revoked"]
    /\ hurried' = IF mpc[target[v]] = "done" THEN hurried ELSE hurried \cup {target[v]}
    /\ vpc' = [vpc EXCEPT ![v] = "list"]
    /\ UNCHANGED <<used, snapshot, principal, delegations, known, minter, caller,
                   target, left, operator, crashes>>

\* Mutant: only the delegations that still match the principal are listed.
ListCurrent(v) ==
    /\ vpc[v] = "list"
    /\ left' = [left EXCEPT ![v] = {i \in DOMAIN delegations :
           /\ delegations[i].cred = target[v]
           /\ ~delegations[i].revoked
           /\ delegations[i].version = principal[target[v]].version}]
    /\ vpc' = [vpc EXCEPT ![v] = "revoke"]
    /\ UNCHANGED <<rows, minter, caller, target, history>>

ListActive(v) ==
    /\ vpc[v] = "list"
    /\ left' = [left EXCEPT ![v] = {i \in DOMAIN delegations :
           delegations[i].cred = target[v] /\ ~delegations[i].revoked}]
    /\ vpc' = [vpc EXCEPT ![v] = "revoke"]
    /\ UNCHANGED <<rows, minter, caller, target, history>>

RevokeDelegation(v) ==
    /\ vpc[v] = "revoke"
    /\ IF left[v] = {}
       THEN /\ vpc' = [vpc EXCEPT ![v] = "done"]
            /\ target' = [target EXCEPT ![v] = NoCred]
            /\ UNCHANGED <<delegations, left>>
       ELSE \E i \in left[v] :
            /\ delegations' = [delegations EXCEPT ![i].revoked = TRUE]
            /\ left' = [left EXCEPT ![v] = @ \ {i}]
            /\ UNCHANGED <<vpc, target>>
    /\ UNCHANGED <<row, used, snapshot, principal, known, minter, caller, history>>

CrashRevoke(v) ==
    /\ vpc[v] \notin {"idle", "done"}
    /\ crashes < MaxCrashes
    /\ crashes' = crashes + 1
    /\ vpc' = [vpc EXCEPT ![v] = "done"]
    /\ target' = [target EXCEPT ![v] = NoCred]
    /\ left' = [left EXCEPT ![v] = {}]
    /\ UNCHANGED <<rows, minter, caller, operator, hurried>>

RevokeStep(v) ==
    \/ FindRevoked(v) \/ RevokeRow(v) \/ ListActive(v) \/ RevokeDelegation(v) \/ CrashRevoke(v)

\* changeState reads in its transaction, but takes no lock by it: another one may
\* read the same version, or write in between.
ReadPrincipal(o) ==
    /\ moving[o] = NoMove
    /\ changes < MaxChanges
    /\ \E c \in Credential :
        /\ principal[c].state # "none"
        /\ moving' = [moving EXCEPT ![o] = [cred |-> c, version |-> principal[c].version]]
    /\ changes' = changes + 1
    /\ UNCHANGED <<rows, minter, caller, revoker, outdated, behind, crashes, hurried>>

\* The version written is the one that follows what was read.
WritePrincipal(o, to) ==
    LET c == moving[o].cred
        v == moving[o].version
    IN  /\ moving[o] # NoMove
        /\ principal' = [principal EXCEPT ![c].state = to, ![c].version = v + 1]
        /\ moving' = [moving EXCEPT ![o] = NoMove]
        /\ outdated' = IF pinned[c] # 0 THEN outdated \cup {c} ELSE outdated
        /\ behind' = IF v < pinned[c] THEN behind \cup {c} ELSE behind
        /\ UNCHANGED <<row, used, snapshot, delegations, known, minter, caller, revoker,
                       changes, crashes, hurried>>

Next ==
    \/ \E c \in Credential : MintStep(c)
    \/ \E k \in Caller : CallStep(k)
    \/ \E v \in Revoker : RevokeStep(v)
    \/ \E o \in Operator : ReadPrincipal(o)
    \/ \E o \in Operator, to \in {"active", "suspended", "revoked"} : WritePrincipal(o, to)

Spec == Init /\ [][Next]_vars
-----------------------------------------------------------------------------
\* Types of the variables; every delegation is one a mint has made, at the
\* version its snapshot carries.
TypeOK ==
    /\ row \in [Credential -> {"none", "active", "revoked"}]
    /\ used \subseteq known /\ snapshot \subseteq Credential /\ known \subseteq Credential
    /\ principal \in [Credential -> [state: {"none", "active", "suspended", "revoked"},
                                     version: Nat \ {0}, attached: BOOLEAN]]
    /\ delegations \in Seq([cred: Credential, version: Nat \ {0}, revoked: BOOLEAN])
    /\ \A i \in DOMAIN delegations : delegations[i].version = pinned[delegations[i].cred]
    /\ \A v \in Revoker : left[v] \subseteq DOMAIN delegations
    /\ moving \in [Operator -> [cred: Credential \cup {NoCred}, version: Nat]]
    /\ changes \in 0..MaxChanges /\ crashes \in 0..MaxCrashes

\* "a suspended-then-reactivated principal does not silently regain yesterday's
\* delegations" (changeState): a call that arrives once its principal was moved
\* after the snapshot is not taken for a delegated one, whatever it was moved to
\* since and by however many at once.  Excepted is a credential whose principal
\* was also moved by an operator who had read it before the snapshot, at a version
\* older than the snapshot's: that one writes the pinned version, or an older one,
\* over the newer (requireDelegated, changeState, capture).
NothingIsRegained ==
    \A k \in Caller : cpc[k] = "delegated" /\ call[k].late => call[k].cred \in behind

\* "the read, the update and the evidence share one commit. Read included: ... a
\* concurrent change outside the boundary could hand two callers the same next
\* version" (changeState): a change moves the version on.  Not kept: at the
\* database's default isolation the read locks nothing, and two changes write
\* one version, or the later an older one.
VersionsMoveOn ==
    [][\A c \in Credential : \A o \in Operator :
          moving[o].cred = c /\ moving'[o] = NoMove =>
              principal'[c].version > principal[c].version]_vars

\* "a revoked credential fails the registry's own delegation check too, should
\* anything ever bypass the guard" (revoke): no usable delegation is left when no
\* revocation is under way.  Not kept: a handler that dies after the row was
\* written leaves them, and a second request finds nothing to do.
RevokedFailsTheCheck ==
    (\A v \in Revoker : vpc[v] \in {"idle", "done"}) =>
        \A c \in Credential :
            row[c] = "revoked" /\ mpc[c] = "done" => ~Usable(c, principal[c].version)

\* Once a revocation is over, the principal holds no delegation, unless the
\* credential was revoked while it was being minted or a handler died (revoke).
RevokedHoldsNothing ==
    (crashes = 0 /\ \A v \in Revoker : vpc[v] \in {"idle", "done"}) =>
        \A i \in DOMAIN delegations :
            LET c == delegations[i].cred
            IN  row[c] = "revoked" => delegations[i].revoked \/ c \in hurried

\* "a credential minted before this Epic is completed on its first guarded call"
\* (completeIdentity): a call with such a credential is not refused for want of
\* the registration that completing it would attach.  Not kept: the identity
\* asks for the registration before it asks for the snapshot.
LegacyIsCompleted ==
    \A k \in Caller : cpc[k] = "identity" /\ call[k].cred \in Legacy => call[k].attached
=============================================================================
