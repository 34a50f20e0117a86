-------------------------- MODULE ExpertDelegation --------------------------
(***************************************************************************)
(* Dispatches of Engineering Experts: admission of a delegate under a      *)
(* running parent, the run, its end, the cascade that stops its delegates, *)
(* and the consumption charged up the chain.                               *)
(*                                                                         *)
(* A dispatch is an HTTP handler.  It registers an execution, whose id     *)
(* names the dispatch, adds a session row, waits for its runner and ends   *)
(* the session.  Handlers share the session and limit rows, take no lock,  *)
(* and every await is a step.  Events other than the closing of an         *)
(* execution and the late breach of a limit are left out, and so is the    *)
(* abort signal: the runner is external and may answer at any time.        *)
(***************************************************************************)
EXTENDS Naturals, Sequences, FiniteSets, FiniteSetsExt

CONSTANTS
    Execution,     \* executions, one per dispatch
    Expert, Actor,
    None,          \* no parent, no expert: distinct from all of these
    Requests,      \* dispatch requests, see Request
    Permitted,     \* pairs of Experts that contract and policy let delegate
    MaxDepth,      \* the policy's maximum depth of a chain
    MaxFanOut,     \* the policy's maximum of delegates of one session
    Budget,        \* the value of the contracts' limit
    Amounts,       \* what a run may report as consumed, 0 for nothing
    RunOutcome,    \* how a run may end of itself
    MaxFaults      \* calls to the database or the registry that may fail

Request == [id: Execution, expert: Expert, actor: Actor,
            parent: Execution \cup {None}, unattended: BOOLEAN]

\* SessionOutcome without the one a parent decides.
OwnOutcome == {"succeeded", "incomplete", "failed", "stopped-by-limit"}
SessionOutcome == OwnOutcome \cup {"stopped-by-parent"}
Worked == {"succeeded", "incomplete"}

ASSUME DelegationAssumption ==
    /\ None \notin Execution \cup Expert
    /\ Requests \subseteq Request
    /\ Permitted \subseteq Expert \X Expert
    /\ {MaxDepth, MaxFanOut, Budget} \subseteq Nat \ {0}
    /\ Amounts \subseteq Nat
    /\ RunOutcome \subseteq OwnOutcome
    /\ MaxFaults \in Nat

VARIABLES
    sessions,    \* expert_sessions
    limits,      \* expert_session_limits, one shared kind (tokens, say)
    executions,  \* execution -> unregistered, open, or how it was closed
    breaches,    \* execution -> late breaches recorded on it
    pc,          \* dispatch -> next step
    req,         \* dispatch -> its request
    plan,        \* dispatch -> the limit it will run under
    report,      \* dispatch -> [outcome, amount] of its run
    path,        \* dispatch -> normal, stopped by its parent, or failed
    at,          \* dispatch -> the session its cascade or charge is at
    todo,        \* dispatch -> children read and not yet stopped, innermost last
    crossed,     \* dispatch -> limits its charge found crossed
    failedAt,    \* dispatch -> whether a call failed: at the end in #failed, or elsewhere
    early        \* history: session -> the ancestors without a limit at its start

rows == <<sessions, limits, executions, breaches>>
local == <<plan, report, path, at, todo, crossed>>
vars == <<rows, pc, req, local, failedAt, early>>

Completion ==
    [o \in SessionOutcome |->
        CASE o = "succeeded" -> "completed"
          [] o = "incomplete" -> "partially-completed"
          [] o = "failed" -> "failed"
          [] o = "stopped-by-limit" -> "timed-out"
          [] o = "stopped-by-parent" -> "cancelled"]

NoSession == [expert |-> None, parent |-> None, actor |-> None, depth |-> 0,
              outcome |-> "none"]
NoRow == [value |-> 0, consumed |-> 0, late |-> FALSE]

Exists(e) == sessions[e].expert # None
Running(e) == Exists(e) /\ sessions[e].outcome = "none"
Ended(e) == Exists(e) /\ sessions[e].outcome # "none"

childrenOf(e) == {c \in Execution : Exists(c) /\ sessions[c].parent = e}

\* The session and its ancestors: the least set that holds the session and, with
\* each of its members, the parent of that member.
Chain(e) ==
    {a \in Execution :
        \A S \in SUBSET Execution :
            e \in S /\ (\A m \in S : sessions[m].parent \in S \cup {None}) => a \in S}
----------------------------------------------------------------------------
Init ==
    /\ sessions = [d \in Execution |-> NoSession]
    /\ limits = [d \in Execution |-> NoRow]
    /\ executions = [d \in Execution |-> "unregistered"]
    /\ breaches = [d \in Execution |-> 0]
    /\ pc = [d \in Execution |-> "idle"]
    /\ req = [d \in Execution |-> None]
    /\ plan = [d \in Execution |-> Budget]
    /\ report = [d \in Execution |-> [outcome |-> "none", amount |-> 0]]
    /\ path = [d \in Execution |-> "normal"]
    /\ at = [d \in Execution |-> d]
    /\ todo = [d \in Execution |-> <<>>]
    /\ crossed = [d \in Execution |-> {}]
    /\ failedAt = [d \in Execution |-> "none"]
    /\ early = [d \in Execution |-> {}]

Goto(d, step) == pc' = [pc EXCEPT ![d] = step]

BeforeRun == {"idle", "admit", "siblings", "remaining", "session", "limits", "recheck"}

\* A request to delegate may name any execution that is registered, by the correlation
\* id that its runner was given or by the id that the list of sessions shows.
Register(d) ==
    /\ pc[d] = "idle"
    /\ \E r \in Requests :
           /\ r.id = d
           /\ r.parent # None => executions[r.parent] # "unregistered"
           /\ req' = [req EXCEPT ![d] = r]
           /\ Goto(d, IF r.parent = None THEN "session" ELSE "admit")
    /\ executions' = [executions EXCEPT ![d] = "open"]
    /\ UNCHANGED <<sessions, limits, breaches, local, failedAt, early>>

\* admitDelegation up to the count of siblings: the parent's row decides.
Admit(d) ==
    LET p == req[d].parent
        s == sessions[p]
        admitted == /\ Running(p)
                    /\ s.actor = req[d].actor
                    /\ <<s.expert, req[d].expert>> \in Permitted
                    /\ \A a \in Chain(p) : sessions[a].expert # req[d].expert
                    /\ s.depth + 1 <= MaxDepth
    IN /\ pc[d] = "admit"
       /\ Goto(d, IF admitted THEN "siblings" ELSE "refuse")
       /\ UNCHANGED <<rows, req, local, failedAt, early>>

CountSiblings(d) ==
    /\ pc[d] = "siblings"
    /\ Goto(d, IF Cardinality(childrenOf(req[d].parent)) < MaxFanOut
               THEN "remaining" ELSE "refuse")
    /\ UNCHANGED <<rows, req, local, failedAt, early>>

\* What counts against the limit when the rest is computed: left <= 0 refuses.
Spent(e) == IF limits[e].consumed < limits[e].value THEN limits[e].consumed
            ELSE limits[e].value

\* chainRemaining and capByChain: the least that an ancestor with a limit has left.
CapByChain(d) ==
    LET left == Min({Budget} \cup {limits[a].value - Spent(a) :
                        a \in {b \in Chain(req[d].parent) : limits[b].value > 0}})
    IN /\ pc[d] = "remaining"
       /\ plan' = [plan EXCEPT ![d] = left]
       /\ Goto(d, IF left = 0 THEN "refuse" ELSE "session")
       /\ UNCHANGED <<rows, req, report, path, at, todo, crossed, failedAt, early>>

\* Any other check, before or after the admission, refuses, or a call throws.
CheckRefuses(d) ==
    /\ pc[d] \in {"admit", "session"}
    /\ Goto(d, "refuse")
    /\ UNCHANGED <<rows, req, local, failedAt, early>>

Refused(d) ==
    /\ pc[d] = "refuse"
    /\ executions' = [executions EXCEPT ![d] = "cancelled"]
    /\ Goto(d, "done")
    /\ UNCHANGED <<sessions, limits, breaches, req, local, failedAt, early>>
----------------------------------------------------------------------------
AddSession(d) ==
    LET p == req[d].parent IN
    /\ pc[d] = "session"
    /\ sessions' = [sessions EXCEPT ![d] =
           [expert |-> req[d].expert, parent |-> p, actor |-> req[d].actor,
            depth |-> IF p = None THEN 0 ELSE sessions[p].depth + 1,
            outcome |-> "none"]]
    /\ early' = [early EXCEPT ![d] =
           IF p = None THEN {} ELSE {a \in Chain(p) : limits[a].value = 0}]
    /\ Goto(d, "limits")
    /\ UNCHANGED <<limits, executions, breaches, req, local, failedAt>>

PutLimit(d) ==
    /\ pc[d] = "limits"
    /\ limits' = [limits EXCEPT ![d] = [NoRow EXCEPT !.value = plan[d]]]
    /\ Goto(d, IF req[d].parent = None THEN "running" ELSE "recheck")
    /\ UNCHANGED <<sessions, executions, breaches, req, local, failedAt, early>>

\* Admitted while the parent ran; if it has ended since, the run stops itself
\* as its parent's cascade would, and does not start.
Recheck(d) ==
    /\ pc[d] = "recheck"
    /\ IF Running(req[d].parent)
       THEN Goto(d, "running") /\ UNCHANGED <<path, todo>>
       ELSE /\ Goto(d, "stop")
            /\ path' = [path EXCEPT ![d] = "stopped"]
            /\ todo' = [todo EXCEPT ![d] = <<{d}>>]
    /\ UNCHANGED <<rows, req, plan, report, at, crossed, failedAt, early>>

RunnerAnswers(d) ==
    /\ pc[d] = "running"
    /\ \E o \in RunOutcome, n \in Amounts :
           report' = [report EXCEPT ![d] = [outcome |-> o, amount |-> n]]
    /\ Goto(d, "check")
    /\ UNCHANGED <<rows, req, plan, path, at, todo, crossed, failedAt, early>>

RunnerThrows(d) ==
    /\ pc[d] = "running"
    /\ Goto(d, "fail")
    /\ UNCHANGED <<rows, req, local, failedAt, early>>
----------------------------------------------------------------------------
\* A run that reports nothing charges nothing.
ToCharge(d, step) == IF report[d].amount = 0 THEN step ELSE "charge"

AfterCascade(d) == IF path[d] = "normal" THEN ToCharge(d, "close") ELSE "done"
AfterCharge(d) == IF path[d] = "normal" THEN "close" ELSE "list"

\* Mutant: a stopped run is not charged for.
StoppedByParentUncharged(d) ==
    /\ path' = [path EXCEPT ![d] = "stopped"]
    /\ Goto(d, "list")

\* stoppedResult: charge, then stop whatever this run left running.
StoppedByParent(d) ==
    /\ path' = [path EXCEPT ![d] = "stopped"]
    /\ Goto(d, ToCharge(d, "list"))

\* Mutant: the last to end a session decides.
EndSessionAnyway(e, outcome) == sessions' = [sessions EXCEPT ![e].outcome = outcome]

\* endSession is conditional on the session still running.
EndSession(e, outcome) ==
    sessions' = IF Running(e) THEN [sessions EXCEPT ![e].outcome = outcome] ELSE sessions

Check(d) ==
    /\ pc[d] = "check"
    /\ IF sessions[d].outcome = "stopped-by-parent"
       THEN StoppedByParent(d)
       ELSE Goto(d, "settle") /\ UNCHANGED path
    /\ UNCHANGED <<rows, req, plan, report, at, todo, crossed, failedAt, early>>

\* Mutant: settles without asking whether it won.
SettleRegardless(d) ==
    /\ pc[d] = "settle"
    /\ EndSession(d, report[d].outcome)
    /\ Goto(d, "list")
    /\ UNCHANGED <<limits, executions, breaches, req, local, failedAt, early>>

\* Only a cascade can have ended the session first.
Settle(d) ==
    /\ pc[d] = "settle"
    /\ EndSession(d, report[d].outcome)
    /\ IF Running(d)
       THEN Goto(d, "list") /\ UNCHANGED path
       ELSE StoppedByParent(d)
    /\ UNCHANGED <<limits, executions, breaches, req, plan, report, at, todo,
                   crossed, failedAt, early>>
----------------------------------------------------------------------------
\* #stopDelegates and #stopOne: the children that were running when read, one
\* after the other, and after each of them its own children.

ListDelegates(d) ==
    LET kids == {c \in childrenOf(at[d]) : Running(c)}
        frames == IF kids = {} THEN todo[d] ELSE Append(todo[d], kids)
    IN /\ pc[d] = "list"
       /\ todo' = [todo EXCEPT ![d] = frames]
       /\ Goto(d, IF frames = <<>> THEN AfterCascade(d) ELSE "stop")
       /\ at' = [at EXCEPT ![d] = IF frames = <<>> THEN d ELSE @]
       /\ UNCHANGED <<rows, req, plan, report, path, crossed, failedAt, early>>

StopOne(d) ==
    LET outer == SubSeq(todo[d], 1, Len(todo[d]) - 1)
        frame == todo[d][Len(todo[d])]
    IN /\ pc[d] = "stop"
       /\ \E c \in frame :
              /\ EndSession(c, "stopped-by-parent")
              /\ Goto(d, IF Running(c) THEN "closeStopped" ELSE "list")
              /\ at' = [at EXCEPT ![d] = c]
              /\ todo' = [todo EXCEPT ![d] =
                     IF frame = {c} THEN outer ELSE Append(outer, frame \ {c})]
       /\ UNCHANGED <<limits, executions, breaches, req, plan, report, path,
                      crossed, failedAt, early>>

\* Mutant: the delegates of a stopped delegate are forgotten.
CloseStoppedOnly(d) ==
    /\ pc[d] = "closeStopped"
    /\ executions[at[d]] = "open"
    /\ executions' = [executions EXCEPT ![at[d]] = "cancelled"]
    /\ Goto(d, IF todo[d] = <<>> THEN AfterCascade(d) ELSE "stop")
    /\ UNCHANGED <<sessions, limits, breaches, req, local, failedAt, early>>

\* Closing an execution that is closed throws.
CloseStopped(d) ==
    /\ pc[d] = "closeStopped"
    /\ executions[at[d]] = "open"
    /\ executions' = [executions EXCEPT ![at[d]] = "cancelled"]
    /\ Goto(d, "list")
    /\ UNCHANGED <<sessions, limits, breaches, req, local, failedAt, early>>
----------------------------------------------------------------------------
Crosses(row, total) == row.consumed <= row.value /\ row.value < total

\* chargeConsumption: one atomic UPDATE per session, from the run to its root.
Charge(d) ==
    LET e == at[d]
        row == limits[e]
        total == row.consumed + report[d].amount
        top == sessions[e].parent = None
        found == crossed[d] \cup {x \in {e} : row.value > 0 /\ Crosses(row, total)}
    IN /\ pc[d] = "charge"
       /\ limits' = IF row.value = 0 THEN limits
                    ELSE [limits EXCEPT ![e].consumed = total,
                                        ![e].late = @ \/ total > row.value]
       /\ crossed' = [crossed EXCEPT ![d] = found]
       /\ at' = [at EXCEPT ![d] = IF top THEN d ELSE sessions[e].parent]
       /\ Goto(d, IF ~top THEN "charge" ELSE IF found # {} THEN "note" ELSE AfterCharge(d))
       /\ UNCHANGED <<sessions, executions, breaches, req, plan, report, path,
                      todo, failedAt, early>>

NoteBreach(d) ==
    /\ pc[d] = "note"
    /\ \E e \in crossed[d] :
           /\ breaches' = [breaches EXCEPT ![e] = @ + 1]
           /\ crossed' = [crossed EXCEPT ![d] = @ \ {e}]
           /\ Goto(d, IF crossed[d] = {e} THEN AfterCharge(d) ELSE "note")
    /\ UNCHANGED <<sessions, limits, executions, req, plan, report, path, at,
                   todo, failedAt, early>>

\* Completion, or, for unattended work, a proposal that leaves it open.
Close(d) ==
    LET o == report[d].outcome
        proposed == req[d].unattended /\ o \in Worked
    IN /\ pc[d] = "close"
       /\ proposed \/ executions[d] = "open"
       /\ executions' = IF proposed THEN executions
                        ELSE [executions EXCEPT ![d] = Completion[o]]
       /\ Goto(d, "done")
       /\ UNCHANGED <<sessions, limits, breaches, req, local, failedAt, early>>
----------------------------------------------------------------------------
\* #failed: ends the session unless it has ended, closes the execution unless a
\* cascade did, and stops the delegates.  Each of its calls may fail and the
\* others are still made.

Fail(d) ==
    /\ pc[d] = "fail"
    /\ EndSession(d, "failed")
    /\ Goto(d, IF sessions[d].outcome = "stopped-by-parent" THEN "list" ELSE "failClose")
    /\ path' = [path EXCEPT ![d] = "failed"]
    /\ at' = [at EXCEPT ![d] = d]
    /\ todo' = [todo EXCEPT ![d] = <<>>]
    /\ UNCHANGED <<limits, executions, breaches, req, plan, report, crossed, failedAt, early>>

FailClose(d) ==
    /\ pc[d] = "failClose"
    /\ executions' = [executions EXCEPT ![d] = IF @ = "open" THEN "failed" ELSE @]
    /\ Goto(d, "list")
    /\ UNCHANGED <<sessions, limits, breaches, req, local, failedAt, early>>

\* Mutant: an error after the start just leaves the handler.
ThrowUncaught(d) ==
    /\ Goto(d, "done")
    /\ UNCHANGED <<rows, req, local, early>>

\* A step of an admitted dispatch throws: #failed takes over; thrown by the
\* cascade of #failed itself, it ends the handler.
Throw(d) ==
    /\ Goto(d, IF path[d] = "failed" THEN "done" ELSE "fail")
    /\ UNCHANGED <<rows, req, local, early>>

\* Only a call that ended a session closes its execution, so that closing it
\* throws only when a failure of its own run has closed it already.
CloseRefused(d) ==
    /\ pc[d] = "closeStopped"
    /\ executions[at[d]] # "open"
    /\ Throw(d)
    /\ UNCHANGED failedAt

Awaits == {"limits", "recheck", "check", "settle", "list", "stop", "closeStopped",
           "charge", "note", "close"}

MayFail(d) ==
    /\ Cardinality({e \in Execution : failedAt[e] # "none"}) < MaxFaults
    /\ failedAt[d] = "none"
    /\ failedAt' = [failedAt EXCEPT ![d] = IF pc[d] = "fail" THEN "fail" ELSE "elsewhere"]

CallFails(d) ==
    /\ pc[d] \in Awaits
    /\ MayFail(d)
    /\ Throw(d)

\* A failure that #failed or #refused swallows.
SwallowedFailure(d) ==
    /\ MayFail(d)
    /\ \/ /\ pc[d] = "fail"
          /\ Goto(d, IF sessions[d].outcome = "stopped-by-parent" THEN "list" ELSE "failClose")
          /\ path' = [path EXCEPT ![d] = "failed"]
          /\ at' = [at EXCEPT ![d] = d]
          /\ todo' = [todo EXCEPT ![d] = <<>>]
       \/ /\ pc[d] = "failClose"
          /\ Goto(d, "list")
          /\ UNCHANGED <<path, at, todo>>
       \/ /\ pc[d] = "refuse"
          /\ Goto(d, "done")
          /\ UNCHANGED <<path, at, todo>>
    /\ UNCHANGED <<rows, req, plan, report, crossed, early>>
----------------------------------------------------------------------------
Stopping(d) == ListDelegates(d) \/ StopOne(d) \/ CloseStopped(d)
Charging(d) == Charge(d) \/ NoteBreach(d)

Step(d) ==
    \/ Admit(d) \/ CountSiblings(d) \/ CapByChain(d) \/ Refused(d)
    \/ AddSession(d) \/ PutLimit(d) \/ Recheck(d)
    \/ Check(d) \/ Settle(d) \/ Stopping(d) \/ Charging(d) \/ Close(d)
    \/ Fail(d) \/ FailClose(d) \/ CloseRefused(d)

Environment(d) ==
    \/ Register(d) \/ CheckRefuses(d)
    \/ RunnerAnswers(d) \/ RunnerThrows(d)
    \/ CallFails(d) \/ SwallowedFailure(d)

AllDone == \A d \in Execution : pc[d] \in {"idle", "done"}

\* No request comes any more: the system rests.
Rest == AllDone /\ UNCHANGED vars

Next == (\E d \in Execution : Step(d) \/ Environment(d)) \/ Rest

\* The awaits of handlers are answered, one or another as long as any is pending, which
\* is enough, since every handler is finite; nothing is assumed of runners or clients.
Fairness == WF_vars(\E d \in Execution : Step(d))

Spec == Init /\ [][Next]_vars /\ Fairness
----------------------------------------------------------------------------
Session == [expert: Expert, parent: Execution \cup {None}, actor: Actor,
            depth: 0..MaxDepth, outcome: SessionOutcome \cup {"none"}]
StepName == BeforeRun \cup Awaits
         \cup {"refuse", "running", "fail", "failClose", "done"}

\* Rows, program counters and what the handlers remember have their types
\* (expert.types.ts and the local variables of DispatchService.dispatch).
TypeOK ==
    /\ sessions \in [Execution -> Session \cup {NoSession}]
    /\ limits \in [Execution -> [value: 0..Budget, consumed: Nat, late: BOOLEAN]]
    /\ executions \in [Execution -> {"unregistered", "open"}
                                    \cup {Completion[o] : o \in SessionOutcome}]
    /\ breaches \in [Execution -> Nat]
    /\ pc \in [Execution -> StepName]
    /\ req \in [Execution -> Requests \cup {None}]
    /\ plan \in [Execution -> 0..Budget]
    /\ report \in [Execution -> [outcome: OwnOutcome \cup {"none"}, amount: Amounts \cup {0}]]
    /\ path \in [Execution -> {"normal", "stopped", "failed"}]
    /\ at \in [Execution -> Execution]
    /\ todo \in [Execution -> Seq(SUBSET Execution)]
    /\ crossed \in [Execution -> SUBSET Execution]
    /\ failedAt \in [Execution -> {"none", "fail", "elsewhere"}]
    /\ early \in [Execution -> SUBSET Execution]

Healthy == \A e \in Execution : failedAt[e] = "none"

\* However a run ends, by itself, by its parent's cascade or by failing, and
\* whoever gets there first, its execution is closed as the session ended, by
\* the time the dispatch answers, or the cascade that stopped it is over;
\* unattended work that succeeded is left open for a person (dispatch: settle,
\* stopOne, failed, COMPLETION).  Includes the types.
ClosedAsItEnded == TypeOK /\
    (Healthy => \A d \in Execution :
        LET o == sessions[d].outcome IN
        /\ Exists(d) /\ executions[d] # "open" => o # "none" /\ executions[d] = Completion[o]
        /\ Exists(d) /\ pc[d] = "done" /\ (o # "stopped-by-parent" \/ AllDone) =>
               executions[d] # "open" \/ (req[d].unattended /\ o \in Worked))

\* When a dispatch answers, its session has ended, so that it admits no delegate
\* (T2000); only a failure to end it within #failed leaves it open.
NoSessionIsLeftOpen ==
    \A d \in Execution : pc[d] = "done" /\ Running(d) => failedAt[d] = "fail"

\* What the runs of these dispatches reported, unit by unit.
Units(runs) == UNION {{e} \X (1..report[e].amount) : e \in runs}

\* What delegates consumed counts against every ancestor, and is not counted twice, on
\* every exit path and whatever siblings charge at the same time (FR-EXP-036, T2007),
\* except that of a delegate admitted while the ancestor had no limit yet, which may
\* count or not; a limit that is exceeded is recorded as a late breach, and only once,
\* however many charges follow (chargeLimit, FR-EXP-046).
ChainAccounts ==
    \A d \in Execution :
        LET below == {e \in Execution : Exists(e) /\ d \in Chain(e)}
            due == {e \in below : d \notin early[e]} IN
        /\ breaches[d] <= 1
        /\ Healthy /\ Exists(d) /\ (\A e \in below : pc[e] = "done") =>
               /\ Cardinality(Units(due)) <= limits[d].consumed
               /\ limits[d].consumed <= Cardinality(Units(below))
        /\ Healthy /\ AllDone /\ Exists(d) =>
               (breaches[d] = 1 <=> limits[d].consumed > limits[d].value)

\* A delegate's consumption counts against its whole chain (FR-EXP-036), without
\* exception.  Not kept: the row of a session is there, and admits delegates, before
\* its limits are, and a charge that finds none is dropped.
EveryDelegateCounts ==
    \A d \in Execution :
        LET below == {e \in Execution : Exists(e) /\ d \in Chain(e)} IN
        Healthy /\ Exists(d) /\ (\A e \in below : pc[e] = "done") =>
            limits[d].consumed = Cardinality(Units(below))

\* A session ends once: no cascade, failure or settlement overwrites an outcome
\* (endSession is conditional, T2003).
EndsOnce ==
    [][\A d \in Execution : Ended(d) => sessions'[d] = sessions[d]]_vars

Orphan(c) == Running(c) /\ sessions[c].parent # None /\ Ended(sessions[c].parent)

\* Delegates do not stay running under a parent that has ended: sooner or later
\* there is none, without a runner having to answer (FR-EXP-037), unless a call
\* failed.
EndReachesDelegates ==
    []<>(~Healthy \/ \A c \in Execution : ~Orphan(c))

\* The delegates of a session never exceed the policy's maximum (FR-EXP-033).
\* Not kept: two admissions count before either inserts its row.
FanOutIsBounded ==
    \A d \in Execution : Cardinality(childrenOf(d)) <= MaxFanOut
=============================================================================
