----------------------- MODULE ExpertDelegationProofs -----------------------
(***************************************************************************)
(* Proofs that the sessions of Expert runs end once, that a dispatch that  *)
(* answers has ended its session, that its execution is closed as the      *)
(* session ended, and that what its run consumed is charged to the whole   *)
(* chain above it and breaches are recorded once: for any number of        *)
(* dispatches, any policy, chains of any depth and any failing calls.      *)
(***************************************************************************)
EXTENDS ExpertDelegation, FiniteSetTheorems, WellFoundedInduction, TLAPS

\* A session's row, or its absence, as far as the argument needs its type.
SessionRow == [expert: Expert \cup {None}, parent: Execution \cup {None},
               actor: Actor \cup {None}, depth: Nat,
               outcome: SessionOutcome \cup {"none"}]

Shape ==
    /\ sessions \in [Execution -> SessionRow]
    /\ pc \in [Execution -> StepName]
    /\ req \in [Execution -> Requests \cup {None}]
    /\ report \in [Execution -> [outcome: OwnOutcome \cup {"none"}, amount: Amounts \cup {0}]]
    /\ path \in [Execution -> {"normal", "stopped", "failed"}]
    /\ at \in [Execution -> Execution]
    /\ todo \in [Execution -> Seq(SUBSET Execution)]
    /\ failedAt \in [Execution -> {"none", "fail", "elsewhere"}]

\* Steps before the session exists, and steps at which it may still run.
BeforeSession == {"idle", "admit", "siblings", "remaining", "session", "refuse"}
WhileRunning == {"limits", "recheck", "running", "check", "settle", "fail"}

\* Its own stop is all that a run that lost its parent has ahead.
StopsItself(d) == pc[d] = "stop" /\ todo[d] = <<{d}>>

\* A session runs only while its handler has the step ahead that will end it,
\* unless that step failed.
Discipline(d) ==
    /\ pc[d] \in BeforeSession => ~Exists(d) /\ path[d] = "normal"
    /\ pc[d] # "idle" => req[d] \in Requests
    /\ pc[d] \in {"check", "settle"} => report[d].outcome \in OwnOutcome
    /\ pc[d] = "stop" => todo[d] # <<>>
    /\ Running(d) /\ failedAt[d] # "fail" =>
           /\ pc[d] \in WhileRunning \/ StopsItself(d)
           /\ path[d] # "failed"

IInv == Shape /\ \A d \in Execution : Discipline(d)
----------------------------------------------------------------------------
\* Whatever another dispatch does, the discipline of e stands when e's handler
\* is where it was and e's session has at most ended.
LEMMA Elsewhere ==
    ASSUME NEW e \in Execution, Discipline(e),
           pc'[e] = pc[e], req'[e] = req[e], report'[e] = report[e],
           path'[e] = path[e], todo'[e] = todo[e], failedAt'[e] = failedAt[e],
           Exists(e)' <=> Exists(e), Running(e)' => Running(e)
    PROVE  Discipline(e)'
BY DEF Discipline, StopsItself

\* endSession keeps the table's type, ends the session it is given if that runs,
\* and touches no other.
LEMMA Ending ==
    ASSUME Shape, NEW c \in Execution, NEW o \in SessionOutcome, EndSession(c, o)
    PROVE  /\ sessions' \in [Execution -> SessionRow]
           /\ ~Running(c)'
           /\ \A e \in Execution : /\ Exists(e)' <=> Exists(e)
                                   /\ Running(e)' => Running(e)
                                   /\ Ended(e) => sessions'[e] = sessions[e]
<1>1. "none" \notin SessionOutcome
  BY DEF SessionOutcome, OwnOutcome
<1>2. CASE Running(c)
  <2>1. sessions' = [sessions EXCEPT ![c].outcome = o]
    BY <1>2 DEF EndSession
  <2> DEFINE row == [sessions[c] EXCEPT !.outcome = o]
  <2>a. row \in SessionRow /\ row.outcome = o /\ row.expert = sessions[c].expert
    <3>1. sessions[c] \in SessionRow
      BY DEF Shape
    <3>2. row = [expert |-> sessions[c].expert, parent |-> sessions[c].parent,
                 actor |-> sessions[c].actor, depth |-> sessions[c].depth,
                 outcome |-> o]
      BY <3>1 DEF SessionRow
    <3>3. QED
      BY <3>1, <3>2 DEF SessionRow
  <2>b. sessions' = [sessions EXCEPT ![c] = row]
    BY <2>1
  <2> HIDE DEF row
  <2>2. sessions' \in [Execution -> SessionRow]
    BY <2>a, <2>b DEF Shape
  <2>c. sessions'[c] = row /\ \A e \in Execution \ {c} : sessions'[e] = sessions[e]
    BY <2>b DEF Shape
  <2>3. ~Running(c)'
    BY <1>1, <2>a, <2>c DEF Running
  <2>4. ASSUME NEW e \in Execution
        PROVE  /\ Exists(e)' <=> Exists(e)
               /\ Running(e)' => Running(e)
               /\ Ended(e) => sessions'[e] = sessions[e]
    BY <1>1, <1>2, <2>a, <2>c DEF Running, Ended, Exists
  <2>5. QED
    BY <2>2, <2>3, <2>4
<1>3. CASE ~Running(c)
  <2>1. sessions' = sessions
    BY <1>3 DEF EndSession
  <2>2. QED
    BY <1>3, <2>1 DEF Shape, Running, Ended, Exists
<1>4. QED
  BY <1>2, <1>3

\* The table starts empty and every handler idle.
LEMMA InitHolds == Init => IInv
<1> SUFFICES ASSUME Init PROVE IInv
  OBVIOUS
<1> USE DelegationAssumption
<1>1. Shape
  BY DEF Init, Shape, SessionRow, NoSession, StepName, BeforeRun
<1>2. ASSUME NEW d \in Execution PROVE Discipline(d)
  BY DEF Init, Discipline, Exists, Running, NoSession, BeforeSession, StopsItself
<1>3. QED
  BY <1>1, <1>2 DEF IInv
----------------------------------------------------------------------------
\* Steps of the handler that leave the sessions alone.

\* Before the session exists there is nothing to end.
LEMMA AdmissionKeeps ==
    ASSUME IInv, NEW d \in Execution,
           \/ Register(d) \/ Admit(d) \/ CountSiblings(d) \/ CapByChain(d)
           \/ CheckRefuses(d) \/ Refused(d)
    PROVE  IInv' /\ sessions' = sessions
<1> USE DEF Goto
<1>1. /\ sessions' = sessions /\ report' = report /\ path' = path
      /\ at' = at /\ todo' = todo /\ failedAt' = failedAt
  BY DEF Register, Admit, CountSiblings, CapByChain, CheckRefuses, Refused, rows, local
<1>2. /\ pc[d] \in BeforeSession
      /\ \E step \in {"admit", "siblings", "remaining", "session", "refuse", "done"} :
             pc' = [pc EXCEPT ![d] = step]
      /\ \/ req' = req /\ pc[d] # "idle"
         \/ \E r \in Requests : req' = [req EXCEPT ![d] = r]
  BY DEF Register, Admit, CountSiblings, CapByChain, CheckRefuses, Refused,
         BeforeSession, rows, local
<1>3. Shape'
  BY <1>1, <1>2 DEF IInv, Shape, StepName, BeforeRun
<1>4. Discipline(d)'
  BY <1>1, <1>2 DEF IInv, Shape, Discipline, BeforeSession, WhileRunning,
                    StopsItself, Exists, Running
<1>5. ASSUME NEW e \in Execution \ {d} PROVE Discipline(e)'
  BY <1>1, <1>2, Elsewhere DEF IInv, Shape, Exists, Running
<1>6. QED
  BY <1>1, <1>3, <1>4, <1>5 DEF IInv
\* The run itself: until it has answered, or thrown, its session may run.
LEMMA RunKeeps ==
    ASSUME IInv, NEW d \in Execution,
           \/ PutLimit(d) \/ Recheck(d) \/ RunnerAnswers(d) \/ RunnerThrows(d) \/ Check(d)
    PROVE  IInv' /\ sessions' = sessions
<1> USE DEF Goto
<1>1. /\ sessions' = sessions /\ req' = req /\ failedAt' = failedAt /\ at' = at
      /\ pc[d] \in {"limits", "recheck", "running", "check"}
  BY DEF PutLimit, Recheck, RunnerAnswers, RunnerThrows, Check, rows, local
<1>2. \/ /\ path' = path /\ todo' = todo /\ report' = report
         /\ \E step \in {"running", "recheck", "fail", "settle"} :
                /\ pc' = [pc EXCEPT ![d] = step]
                /\ step = "settle" => pc[d] = "check"
      \/ /\ path' = path /\ todo' = todo /\ pc' = [pc EXCEPT ![d] = "check"]
         /\ \E o \in OwnOutcome, n \in Amounts :
                report' = [report EXCEPT ![d] = [outcome |-> o, amount |-> n]]
      \/ /\ report' = report /\ path' = [path EXCEPT ![d] = "stopped"]
         /\ todo' = [todo EXCEPT ![d] = <<{d}>>] /\ pc' = [pc EXCEPT ![d] = "stop"]
      \/ /\ report' = report /\ path' = [path EXCEPT ![d] = "stopped"] /\ todo' = todo
         /\ ~Running(d)
         /\ pc' = [pc EXCEPT ![d] = "list"] \/ pc' = [pc EXCEPT ![d] = "charge"]
  <2>1. CASE PutLimit(d)
    BY <2>1 DEF PutLimit, local
  <2>2. CASE Recheck(d)
    BY <2>2 DEF Recheck
  <2>3. CASE RunnerAnswers(d)
    BY <2>3, DelegationAssumption DEF RunnerAnswers
  <2>4. CASE RunnerThrows(d)
    BY <2>4 DEF RunnerThrows, local
  <2>5. CASE Check(d)
    BY <2>5 DEF Check, StoppedByParent, ToCharge, Running
  <2>6. QED
    BY <2>1, <2>2, <2>3, <2>4, <2>5
<1>3. Shape'
  <2>1. pc' \in [Execution -> StepName]
    BY <1>2 DEF IInv, Shape, StepName, BeforeRun, Awaits
  <2>2. todo' \in [Execution -> Seq(SUBSET Execution)]
    <3>1. <<{d}>> \in Seq(SUBSET Execution)
      OBVIOUS
    <3>2. QED
      BY <1>2, <3>1 DEF IInv, Shape
  <2>3. report' \in [Execution -> [outcome: OwnOutcome \cup {"none"}, amount: Amounts \cup {0}]]
    <3> DEFINE R == [outcome: OwnOutcome \cup {"none"}, amount: Amounts \cup {0}]
    <3>1. \A o \in OwnOutcome, n \in Amounts : [outcome |-> o, amount |-> n] \in R
      OBVIOUS
    <3>2. report \in [Execution -> R]
      BY DEF IInv, Shape
    <3> HIDE DEF R
    <3>3. \/ report' = report
          \/ \E r \in R : report' = [report EXCEPT ![d] = r]
      BY <1>2, <3>1
    <3>4. report' \in [Execution -> R]
      BY <3>2, <3>3
    <3>5. QED
      BY <3>4 DEF R
  <2>4. path' \in [Execution -> {"normal", "stopped", "failed"}]
    BY <1>2 DEF IInv, Shape
  <2>5. QED
    BY <1>1, <2>1, <2>2, <2>3, <2>4 DEF IInv, Shape
<1>4. Discipline(d)'
  <2>1. pc'[d] = "stop" => StopsItself(d)'
    BY <1>1, <1>2 DEF IInv, Shape, StopsItself
  <2>2. <<{d}>> # <<>>
    OBVIOUS
  <2>3. /\ pc'[d] \notin BeforeSession /\ pc[d] # "idle" /\ req[d] \in Requests
        /\ pc'[d] \in {"check", "settle"} => report'[d].outcome \in OwnOutcome
    BY <1>1, <1>2 DEF IInv, Shape, Discipline, BeforeSession
  <2>4. Running(d) /\ failedAt[d] # "fail" => path[d] # "failed"
    BY DEF IInv, Discipline
  <2>5. Running(d)' /\ failedAt'[d] # "fail" =>
            /\ pc'[d] \in WhileRunning \/ StopsItself(d)'
            /\ path'[d] # "failed"
    BY <1>1, <1>2, <2>1, <2>4 DEF IInv, Shape, WhileRunning, Exists, Running
  <2>6. QED
    BY <1>1, <2>1, <2>2, <2>3, <2>5 DEF Discipline, StopsItself
<1>5. ASSUME NEW e \in Execution \ {d} PROVE Discipline(e)'
  BY <1>1, <1>2, Elsewhere DEF IInv, Shape, Exists, Running
<1>6. QED
  BY <1>1, <1>3, <1>4, <1>5 DEF IInv
\* Past its end, a handler closes and charges: what it does to its session, or
\* to its failure, is nothing.
LEMMA AftermathKeeps ==
    ASSUME IInv, NEW d \in Execution,
           \/ ListDelegates(d) \/ CloseStopped(d) \/ CloseRefused(d)
           \/ Charge(d) \/ NoteBreach(d) \/ Close(d) \/ FailClose(d)
    PROVE  IInv' /\ sessions' = sessions
<1> USE DEF Goto
<1>1. /\ sessions' = sessions /\ req' = req /\ failedAt' = failedAt
      /\ report' = report /\ path' = path
      /\ pc[d] \in {"list", "closeStopped", "charge", "note", "close", "failClose"}
  BY DEF ListDelegates, CloseStopped, CloseRefused, Throw, Charge, NoteBreach,
         Close, FailClose, rows, local
<1>2. \E step \in {"stop", "close", "charge", "note", "list", "done", "fail"} :
          pc' = [pc EXCEPT ![d] = step]
  <2>1. CASE ListDelegates(d)
    BY <2>1 DEF ListDelegates, AfterCascade, ToCharge
  <2>2. CASE CloseStopped(d) \/ CloseRefused(d) \/ Close(d) \/ FailClose(d)
    BY <2>2 DEF CloseStopped, CloseRefused, Throw, Close, FailClose
  <2>3. CASE Charge(d) \/ NoteBreach(d)
    BY <2>3 DEF Charge, NoteBreach, AfterCharge
  <2>4. QED
    BY <2>1, <2>2, <2>3
<1>3. /\ \E kids \in SUBSET Execution :
             todo' = todo \/ todo' = [todo EXCEPT ![d] = Append(todo[d], kids)]
                          \/ todo' = [todo EXCEPT ![d] = todo[d]]
      /\ \E e \in Execution : at' = at \/ at' = [at EXCEPT ![d] = e]
  <2>1. CASE ListDelegates(d)
    <3>1. {c \in childrenOf(at[d]) : Running(c)} \in SUBSET Execution
      BY DEF childrenOf
    <3>2. at[d] \in Execution
      BY DEF IInv, Shape
    <3>3. QED
      BY <2>1, <3>1, <3>2 DEF ListDelegates
  <2>2. CASE CloseStopped(d) \/ CloseRefused(d) \/ NoteBreach(d) \/ Close(d) \/ FailClose(d)
    BY <2>2 DEF CloseStopped, CloseRefused, Throw, NoteBreach, Close, FailClose, local
  <2>3. CASE Charge(d)
    <3>1. sessions[at[d]] \in SessionRow
      BY DEF IInv, Shape
    <3>2. sessions[at[d]].parent \in Execution \cup {None}
      BY <3>1 DEF SessionRow
    <3>3. QED
      BY <2>3, <3>2 DEF Charge
  <2>4. QED
    BY <2>1, <2>2, <2>3
<1>4. pc'[d] = "stop" => todo'[d] # <<>>
  <2>1. CASE ListDelegates(d)
    BY <2>1 DEF ListDelegates, AfterCascade, ToCharge, IInv, Shape
  <2>2. CASE CloseStopped(d) \/ CloseRefused(d) \/ Close(d) \/ FailClose(d)
    BY <2>2 DEF CloseStopped, CloseRefused, Throw, Close, FailClose, IInv, Shape
  <2>3. CASE Charge(d) \/ NoteBreach(d)
    BY <2>3 DEF Charge, NoteBreach, AfterCharge, IInv, Shape
  <2>4. QED
    BY <2>1, <2>2, <2>3
<1>5. Shape'
  <2>1. pc' \in [Execution -> StepName]
    BY <1>2 DEF IInv, Shape, StepName, BeforeRun, Awaits
  <2>2. todo' \in [Execution -> Seq(SUBSET Execution)]
    <3>1. todo[d] \in Seq(SUBSET Execution)
      BY DEF IInv, Shape
    <3>2. \A kids \in SUBSET Execution : Append(todo[d], kids) \in Seq(SUBSET Execution)
      BY <3>1
    <3>3. todo' = todo \/ \E f \in Seq(SUBSET Execution) : todo' = [todo EXCEPT ![d] = f]
      BY <1>3, <3>1, <3>2
    <3>4. QED
      BY <3>3 DEF IInv, Shape
  <2>3. at' \in [Execution -> Execution]
    BY <1>3 DEF IInv, Shape
  <2>4. QED
    BY <1>1, <2>1, <2>2, <2>3 DEF IInv, Shape
<1>6. Discipline(d)'
  BY <1>1, <1>2, <1>4 DEF IInv, Shape, Discipline, BeforeSession, WhileRunning,
                    StopsItself, Exists, Running
<1>7. ASSUME NEW e \in Execution \ {d} PROVE Discipline(e)'
  BY <1>1, <1>2, <1>3, Elsewhere DEF IInv, Shape, Exists, Running
<1>8. QED
  BY <1>1, <1>5, <1>6, <1>7 DEF IInv

\* A call that fails hands an admitted run to #failed, whatever the step; only
\* the failure to end the session within #failed leaves it running.
LEMMA FailureKeeps ==
    ASSUME IInv, NEW d \in Execution, CallFails(d) \/ SwallowedFailure(d)
    PROVE  IInv' /\ sessions' = sessions
<1> USE DEF Goto
<1>1. /\ sessions' = sessions /\ req' = req /\ report' = report
      /\ failedAt[d] = "none" /\ failedAt' = [failedAt EXCEPT ![d] = IF pc[d] = "fail" THEN "fail" ELSE "elsewhere"]
  BY DEF CallFails, SwallowedFailure, MayFail, Throw, rows, local
<1>2. \/ /\ pc[d] \in Awaits /\ path' = path /\ at' = at /\ todo' = todo
         /\ pc' = [pc EXCEPT ![d] = IF path[d] = "failed" THEN "done" ELSE "fail"]
      \/ /\ pc[d] = "fail"
         /\ path' = [path EXCEPT ![d] = "failed"] /\ at' = [at EXCEPT ![d] = d]
         /\ todo' = [todo EXCEPT ![d] = <<>>]
         /\ \E step \in {"list", "failClose"} : pc' = [pc EXCEPT ![d] = step]
      \/ /\ pc[d] \in {"failClose", "refuse"} /\ path' = path /\ at' = at /\ todo' = todo
         /\ \E step \in {"list", "done"} : pc' = [pc EXCEPT ![d] = step]
  <2>1. CASE CallFails(d)
    BY <2>1 DEF CallFails, Throw, local
  <2>2. CASE SwallowedFailure(d)
    BY <2>2 DEF SwallowedFailure
  <2>3. QED
    BY <2>1, <2>2
<1>3. Shape'
  <2>1. pc' \in [Execution -> StepName]
    <3>1. {"list", "failClose", "done", "fail"} \subseteq StepName
      BY DEF StepName, BeforeRun, Awaits
    <3>2. \E step \in {"list", "failClose", "done", "fail"} : pc' = [pc EXCEPT ![d] = step]
      <4>1. CASE path[d] = "failed"
        BY <1>2, <4>1
      <4>2. CASE path[d] # "failed"
        BY <1>2, <4>2
      <4>3. QED
        BY <4>1, <4>2
    <3>3. QED
      BY <3>1, <3>2 DEF IInv, Shape
  <2>2. todo' \in [Execution -> Seq(SUBSET Execution)]
    <3>1. <<>> \in Seq(SUBSET Execution)
      OBVIOUS
    <3>2. QED
      BY <1>2, <3>1 DEF IInv, Shape
  <2>3. at' \in [Execution -> Execution]
    BY <1>2 DEF IInv, Shape
  <2>4. path' \in [Execution -> {"normal", "stopped", "failed"}]
    BY <1>2 DEF IInv, Shape
  <2>5. failedAt' \in [Execution -> {"none", "fail", "elsewhere"}]
    BY <1>1 DEF IInv, Shape
  <2>6. QED
    BY <1>1, <2>1, <2>2, <2>3, <2>4, <2>5 DEF IInv, Shape
<1>4. Discipline(d)'
  BY <1>1, <1>2 DEF IInv, Shape, Discipline, BeforeSession, WhileRunning,
                    StopsItself, Exists, Running, Awaits
<1>5. ASSUME NEW e \in Execution \ {d} PROVE Discipline(e)'
  BY <1>1, <1>2, Elsewhere DEF IInv, Shape, Exists, Running
<1>6. QED
  BY <1>1, <1>3, <1>4, <1>5 DEF IInv
----------------------------------------------------------------------------
\* Steps that write a session.

\* A session starts under the handler that has none, with its end ahead.
LEMMA AddSessionKeeps ==
    ASSUME IInv, NEW d \in Execution, AddSession(d)
    PROVE  /\ IInv'
           /\ \A e \in Execution : Ended(e) => sessions'[e] = sessions[e]
<1> USE DEF Goto
<1> DEFINE p == req[d].parent
           row == [expert |-> req[d].expert, parent |-> p, actor |-> req[d].actor,
                   depth |-> IF p = None THEN 0 ELSE sessions[p].depth + 1,
                   outcome |-> "none"]
<1>1. /\ pc[d] = "session" /\ pc' = [pc EXCEPT ![d] = "limits"]
      /\ sessions' = [sessions EXCEPT ![d] = row]
      /\ req' = req /\ report' = report /\ path' = path /\ at' = at
      /\ todo' = todo /\ failedAt' = failedAt
  BY DEF AddSession, local
<1>2. /\ req[d] \in Requests /\ ~Exists(d) /\ path[d] = "normal"
  BY <1>1 DEF IInv, Discipline, BeforeSession
<1>3. /\ req[d].expert \in Expert /\ req[d].actor \in Actor
      /\ p \in Execution \cup {None}
  BY <1>2, DelegationAssumption DEF Request
<1>4. row \in SessionRow
  <2>1. p # None => sessions[p] \in SessionRow
    BY <1>3 DEF IInv, Shape
  <2>2. p # None => sessions[p].depth \in Nat
    BY <2>1 DEF SessionRow
  <2>3. (IF p = None THEN 0 ELSE sessions[p].depth + 1) \in Nat
    BY <2>2
  <2>4. QED
    BY <1>3, <2>3 DEF SessionRow
<1> HIDE DEF row, p
<1>5. Shape'
  <2>1. sessions' \in [Execution -> SessionRow]
    BY <1>1, <1>4 DEF IInv, Shape
  <2>2. pc' \in [Execution -> StepName]
    BY <1>1 DEF IInv, Shape, StepName, BeforeRun
  <2>3. QED
    BY <1>1, <2>1, <2>2 DEF IInv, Shape
<1>6. Discipline(d)'
  BY <1>1, <1>2 DEF IInv, Shape, Discipline, BeforeSession, WhileRunning
<1>7. ASSUME NEW e \in Execution \ {d} PROVE Discipline(e)'
  BY <1>1, Elsewhere DEF IInv, Shape, Exists, Running
<1>8. ASSUME NEW e \in Execution, Ended(e) PROVE sessions'[e] = sessions[e]
  BY <1>1, <1>2, <1>8 DEF IInv, Shape, Ended, Exists
<1>9. QED
  BY <1>5, <1>6, <1>7, <1>8 DEF IInv

\* The steps that end a session: the settlement of a run, a cascade's next
\* delegate, and #failed.
LEMMA EndingKeeps ==
    ASSUME IInv, NEW d \in Execution, Settle(d) \/ StopOne(d) \/ Fail(d)
    PROVE  /\ IInv'
           /\ \A e \in Execution : Ended(e) => sessions'[e] = sessions[e]
<1> USE DEF Goto
<1>1. PICK c \in Execution, o \in SessionOutcome :
          /\ EndSession(c, o)
          /\ pc[d] \in {"settle", "fail"} => c = d
          /\ pc[d] = "stop" /\ StopsItself(d) => c = d
  <2>1. CASE Settle(d)
    <3>1. pc[d] = "settle" /\ report[d].outcome \in SessionOutcome
      BY <2>1 DEF Settle, IInv, Discipline, SessionOutcome
    <3>2. QED
      BY <2>1, <3>1 DEF Settle
  <2>2. CASE StopOne(d)
    <3>1. pc[d] = "stop" /\ todo[d] \in Seq(SUBSET Execution) /\ todo[d] # <<>>
      BY <2>2 DEF StopOne, IInv, Shape, Discipline
    <3>2. todo[d][Len(todo[d])] \in SUBSET Execution
      BY <3>1
    <3>3. PICK c \in todo[d][Len(todo[d])] : EndSession(c, "stopped-by-parent")
      BY <2>2 DEF StopOne
    <3>4. StopsItself(d) => c = d
      BY <3>3 DEF StopsItself
    <3>5. QED
      BY <3>1, <3>2, <3>3, <3>4 DEF SessionOutcome
  <2>3. CASE Fail(d)
    BY <2>3 DEF Fail, SessionOutcome, OwnOutcome
  <2>4. QED
    BY <2>1, <2>2, <2>3
<1>2. /\ sessions' \in [Execution -> SessionRow]
      /\ ~Running(c)'
      /\ \A e \in Execution : /\ Exists(e)' <=> Exists(e)
                              /\ Running(e)' => Running(e)
                              /\ Ended(e) => sessions'[e] = sessions[e]
  BY <1>1, Ending DEF IInv
<1>3. /\ pc[d] \in {"settle", "stop", "fail"}
      /\ req' = req /\ report' = report /\ failedAt' = failedAt
      /\ \E step \in {"list", "charge", "closeStopped", "failClose"} :
             pc' = [pc EXCEPT ![d] = step]
      /\ path' = path \/ \E q \in {"stopped", "failed"} : path' = [path EXCEPT ![d] = q]
      /\ at' = at \/ \E e \in Execution : at' = [at EXCEPT ![d] = e]
      /\ todo' = todo \/ \E f \in Seq(SUBSET Execution) : todo' = [todo EXCEPT ![d] = f]
  <2>1. CASE Settle(d)
    BY <2>1 DEF Settle, StoppedByParent, ToCharge
  <2>2. CASE StopOne(d)
    <3> DEFINE outer == SubSeq(todo[d], 1, Len(todo[d]) - 1)
               frame == todo[d][Len(todo[d])]
    <3>1. pc[d] = "stop" /\ todo[d] \in Seq(SUBSET Execution) /\ todo[d] # <<>>
      BY <2>2 DEF StopOne, IInv, Shape, Discipline
    <3>2. frame \in SUBSET Execution /\ outer \in Seq(SUBSET Execution)
      BY <3>1
    <3>3. \A x \in Execution : Append(outer, frame \ {x}) \in Seq(SUBSET Execution)
      <4> HIDE DEF outer, frame
      <4>1. QED
        BY <3>2
    <3>4. PICK x \in frame :
              /\ pc' = [pc EXCEPT ![d] = IF Running(x) THEN "closeStopped" ELSE "list"]
              /\ at' = [at EXCEPT ![d] = x]
              /\ todo' = [todo EXCEPT ![d] =
                     IF frame = {x} THEN outer ELSE Append(outer, frame \ {x})]
      BY <2>2 DEF StopOne
    <3> HIDE DEF outer, frame
    <3>5. \E step \in {"closeStopped", "list"} : pc' = [pc EXCEPT ![d] = step]
      BY <3>4
    <3>6. \E f \in Seq(SUBSET Execution) : todo' = [todo EXCEPT ![d] = f]
      BY <3>2, <3>3, <3>4
    <3>7. QED
      BY <2>2, <3>1, <3>2, <3>4, <3>5, <3>6 DEF StopOne
  <2>3. CASE Fail(d)
    <3>1. <<>> \in Seq(SUBSET Execution)
      OBVIOUS
    <3>2. QED
      BY <2>3, <3>1 DEF Fail
  <2>4. QED
    BY <2>1, <2>2, <2>3
<1>4. Shape'
  <2>1. pc' \in [Execution -> StepName]
    BY <1>3 DEF IInv, Shape, StepName, Awaits
  <2>2. todo' \in [Execution -> Seq(SUBSET Execution)]
    BY <1>3 DEF IInv, Shape
  <2>3. at' \in [Execution -> Execution]
    BY <1>3 DEF IInv, Shape
  <2>4. path' \in [Execution -> {"normal", "stopped", "failed"}]
    BY <1>3 DEF IInv, Shape
  <2>5. QED
    BY <1>2, <1>3, <2>1, <2>2, <2>3, <2>4 DEF IInv, Shape
<1>5. Discipline(d)'
  <2>1. Running(d)' => failedAt[d] = "fail"
    BY <1>1, <1>2, <1>3 DEF IInv, Discipline, WhileRunning
  <2>2. pc'[d] \in {"list", "charge", "closeStopped", "failClose"} /\ pc[d] # "idle"
    BY <1>3 DEF IInv, Shape
  <2>3. QED
    BY <1>3, <2>1, <2>2 DEF IInv, Discipline, BeforeSession
<1>6. ASSUME NEW e \in Execution \ {d} PROVE Discipline(e)'
  BY <1>2, <1>3, Elsewhere DEF IInv, Shape
<1>7. QED
  BY <1>2, <1>4, <1>5, <1>6 DEF IInv
----------------------------------------------------------------------------
\* Every step keeps the invariant and leaves ended sessions alone.
LEMMA NextKeeps ==
    ASSUME IInv, [Next]_vars
    PROVE  /\ IInv'
           /\ \A e \in Execution : Ended(e) => sessions'[e] = sessions[e]
<1>1. ASSUME NEW d \in Execution, Step(d) \/ Environment(d)
      PROVE  /\ IInv'
             /\ \A e \in Execution : Ended(e) => sessions'[e] = sessions[e]
  <2>1. CASE \/ Register(d) \/ Admit(d) \/ CountSiblings(d) \/ CapByChain(d)
             \/ CheckRefuses(d) \/ Refused(d)
    BY <2>1, AdmissionKeeps
  <2>2. CASE \/ PutLimit(d) \/ Recheck(d) \/ RunnerAnswers(d) \/ RunnerThrows(d)
             \/ Check(d)
    BY <2>2, RunKeeps
  <2>3. CASE \/ ListDelegates(d) \/ CloseStopped(d) \/ CloseRefused(d)
             \/ Charge(d) \/ NoteBreach(d) \/ Close(d) \/ FailClose(d)
    BY <2>3, AftermathKeeps
  <2>4. CASE CallFails(d) \/ SwallowedFailure(d)
    BY <2>4, FailureKeeps
  <2>5. CASE AddSession(d)
    BY <2>5, AddSessionKeeps
  <2>6. CASE Settle(d) \/ StopOne(d) \/ Fail(d)
    BY <2>6, EndingKeeps
  <2>7. QED
    BY <1>1, <2>1, <2>2, <2>3, <2>4, <2>5, <2>6
       DEF Step, Environment, Stopping, Charging
<1>2. CASE UNCHANGED vars
  <2>1. /\ sessions' = sessions /\ pc' = pc /\ req' = req /\ report' = report
        /\ path' = path /\ at' = at /\ todo' = todo /\ failedAt' = failedAt
    BY <1>2 DEF vars, rows, local
  <2>2. Shape'
    BY <2>1 DEF IInv, Shape
  <2>3. ASSUME NEW e \in Execution PROVE Discipline(e)'
    BY <2>1, Elsewhere DEF IInv, Exists, Running
  <2>4. QED
    BY <2>1, <2>2, <2>3 DEF IInv
<1>3. QED
  BY <1>1, <1>2 DEF Next, Rest

\* The inductive invariant: a session runs only while its handler still has the
\* step ahead that ends it.
THEOREM Invariance == Spec => []IInv
<1>1. Init => IInv
  BY InitHolds
<1>2. IInv /\ [Next]_vars => IInv'
  BY NextKeeps
<1>3. QED
  BY <1>1, <1>2, PTL DEF Spec

\* A dispatch that answers, refused, failed or finished, has ended its session
\* if it started one, unless the very call that ends it failed within #failed:
\* nothing is left that could admit a delegate.
THEOREM NothingIsLeftOpen == Spec => []NoSessionIsLeftOpen
<1>1. IInv => NoSessionIsLeftOpen
  BY DEF IInv, Discipline, StopsItself, WhileRunning, NoSessionIsLeftOpen
<1>2. QED
  BY <1>1, Invariance, PTL

\* An outcome is never overwritten, whoever ends the session and however many
\* cascades, settlements and failures compete for it.
THEOREM SessionsEndOnce == Spec => EndsOnce
<1>1. IInv /\ [Next]_vars =>
          [\A d \in Execution : Ended(d) => sessions'[d] = sessions[d]]_vars
  BY NextKeeps
<1>2. QED
  BY <1>1, Invariance, PTL DEF Spec, EndsOnce
----------------------------------------------------------------------------
\* Types

\* Past its settlement; admitted, and not yet a session.
Past == {"list", "stop", "closeStopped", "charge", "note", "close"}
Admitted == {"siblings", "remaining", "session"}

\* What a handler remembers of the checks it made: its parent has room for a
\* delegate below it, and a run that is not stopped or failed has an outcome.
Remembered(d) ==
    /\ pc[d] \in Admitted /\ req[d].parent # None =>
           Exists(req[d].parent) /\ sessions[req[d].parent].depth < MaxDepth
    /\ pc[d] \in Past /\ path[d] = "normal" => report[d].outcome \in OwnOutcome
    /\ pc[d] = "close" => path[d] = "normal"
    /\ pc[d] = "failClose" => path[d] = "failed"

TInv == TypeOK /\ \A d \in Execution : Remembered(d)

SessionTable == [Execution -> Session \cup {NoSession}]
LimitRow == [value: 0..Budget, consumed: Nat, late: BOOLEAN]

\* A row that exists is a session, and one that does not is blank.
LEMMA RowsAreSessions ==
    ASSUME sessions \in SessionTable, NEW e \in Execution
    PROVE  /\ Exists(e) => sessions[e] \in Session
           /\ ~Exists(e) => sessions[e] = NoSession /\ sessions[e].outcome = "none"
<1>1. \A s \in Session : s.expert # None
  BY DelegationAssumption DEF Session
<1>2. NoSession.expert = None /\ NoSession.outcome = "none"
  BY DEF NoSession
<1>3. QED
  BY <1>1, <1>2 DEF SessionTable, Exists

\* endSession writes an outcome, once, and nothing else.
LEMMA EndingRow ==
    ASSUME sessions \in SessionTable, NEW c \in Execution, NEW o \in SessionOutcome,
           EndSession(c, o)
    PROVE  /\ sessions' \in SessionTable
           /\ \A e \in Execution :
                  /\ Exists(e)' <=> Exists(e)
                  /\ Exists(e) => /\ sessions'[e].depth = sessions[e].depth
                                  /\ sessions'[e].parent = sessions[e].parent
                  /\ e # c => sessions'[e] = sessions[e]
           /\ Running(c) => sessions'[c].outcome = o
           /\ ~Running(c) => sessions' = sessions
<1>1. CASE Running(c)
  <2>1. sessions[c] \in Session
    BY <1>1, RowsAreSessions DEF Running
  <2> DEFINE row == [sessions[c] EXCEPT !.outcome = o]
  <2>2. row = [expert |-> sessions[c].expert, parent |-> sessions[c].parent,
               actor |-> sessions[c].actor, depth |-> sessions[c].depth, outcome |-> o]
    BY <2>1 DEF Session
  <2>3. /\ row \in Session /\ row.outcome = o /\ row.depth = sessions[c].depth
        /\ row.expert = sessions[c].expert /\ row.parent = sessions[c].parent
    BY <2>1, <2>2 DEF Session
  <2>4. sessions' = [sessions EXCEPT ![c] = row]
    BY <1>1 DEF EndSession
  <2> HIDE DEF row
  <2>5. sessions' \in SessionTable
    BY <2>3, <2>4 DEF SessionTable
  <2>6. sessions'[c] = row /\ \A e \in Execution \ {c} : sessions'[e] = sessions[e]
    BY <2>4 DEF SessionTable
  <2>7. QED
    BY <1>1, <2>3, <2>5, <2>6 DEF Exists
<1>2. CASE ~Running(c)
  BY <1>2 DEF EndSession, Exists
<1>3. QED
  BY <1>1, <1>2

\* A set of numbers, not empty, has a least.
LEMMA LeastOfNumbers ==
    ASSUME NEW S \in SUBSET Nat, S # {}
    PROVE  Min(S) \in S
<1>1. PICK m \in S : \A k \in S : <<k, m>> \notin OpToRel(<, Nat)
  <2>1. IsWellFoundedOn(OpToRel(<, Nat), Nat)
    BY NatLessThanWellFounded
  <2>2. QED
    BY <2>1, WFMin, Zenon
<1>2. \A k \in S : m <= k
  <2>1. SUFFICES ASSUME NEW k \in S, k < m PROVE FALSE
    OBVIOUS
  <2>2. <<k, m>> \in OpToRel(<, Nat)
    BY <2>1 DEF OpToRel
  <2>3. QED
    BY <1>1, <2>2
<1>3. QED
  BY <1>2 DEF Min

\* Whose session a settlement, a cascade or #failed ends.
LEMMA WhoIsEnded ==
    ASSUME IInv, NEW d \in Execution, Settle(d) \/ StopOne(d) \/ Fail(d)
    PROVE  \E c \in Execution, o \in SessionOutcome : EndSession(c, o)
<1>1. CASE Settle(d)
  BY <1>1 DEF Settle, IInv, Discipline, SessionOutcome
<1>2. CASE StopOne(d)
  <2>1. pc[d] = "stop" /\ todo[d] \in Seq(SUBSET Execution) /\ todo[d] # <<>>
    BY <1>2 DEF StopOne, IInv, Shape, Discipline
  <2>2. todo[d][Len(todo[d])] \in SUBSET Execution
    BY <2>1
  <2>3. QED
    BY <1>2, <2>2 DEF StopOne, SessionOutcome
<1>3. CASE Fail(d)
  BY <1>3 DEF Fail, SessionOutcome, OwnOutcome
<1>4. QED
  BY <1>1, <1>2, <1>3

\* Sessions are added as their type says, within the policy's depth, and stay.
LEMMA SessionsStay ==
    ASSUME IInv, TInv, NEW d \in Execution, Step(d) \/ Environment(d)
    PROVE  /\ sessions' \in SessionTable
           /\ \A e \in Execution :
                  Exists(e) => /\ Exists(e)' /\ sessions'[e].depth = sessions[e].depth
                               /\ sessions'[e].parent = sessions[e].parent
<1>0. sessions \in SessionTable
  BY DEF TInv, TypeOK, SessionTable
<1>1. CASE sessions' = sessions
  BY <1>0, <1>1 DEF Exists
<1>2. CASE Settle(d) \/ StopOne(d) \/ Fail(d)
  BY <1>0, <1>2, WhoIsEnded, EndingRow
<1>3. CASE AddSession(d)
  <2> DEFINE p == req[d].parent
             row == [expert |-> req[d].expert, parent |-> p, actor |-> req[d].actor,
                     depth |-> IF p = None THEN 0 ELSE sessions[p].depth + 1,
                     outcome |-> "none"]
  <2>1. pc[d] = "session" /\ sessions' = [sessions EXCEPT ![d] = row]
    BY <1>3 DEF AddSession
  <2>2. req[d] \in Requests /\ ~Exists(d)
    BY <2>1 DEF IInv, Discipline, BeforeSession
  <2>3. req[d].expert \in Expert /\ req[d].actor \in Actor /\ p \in Execution \cup {None}
    BY <2>2, DelegationAssumption DEF Request
  <2>4. p # None => sessions[p] \in Session /\ sessions[p].depth < MaxDepth
    BY <1>0, <2>1, <2>3, RowsAreSessions DEF TInv, Remembered, Admitted
  <2>5. row \in Session
    <3>1. MaxDepth \in Nat
      BY DelegationAssumption
    <3>2. (IF p = None THEN 0 ELSE sessions[p].depth + 1) \in 0..MaxDepth
      BY <2>4, <3>1 DEF Session
    <3>3. QED
      BY <2>3, <3>2 DEF Session
  <2> HIDE DEF row, p
  <2>6. sessions' \in SessionTable
    BY <1>0, <2>1, <2>5 DEF SessionTable
  <2>7. \A e \in Execution \ {d} : sessions'[e] = sessions[e]
    BY <1>0, <2>1 DEF SessionTable
  <2>8. QED
    BY <2>2, <2>6, <2>7 DEF Exists
<1>4. QED
  BY <1>1, <1>2, <1>3, AdmissionKeeps, RunKeeps, AftermathKeeps, FailureKeeps
     DEF Step, Environment, Stopping, Charging

\* What an ancestor has left is within the budget, and so is the least of it.
LEMMA PlansStay ==
    ASSUME TypeOK, NEW d \in Execution, CapByChain(d)
    PROVE  plan' \in [Execution -> 0..Budget]
<1> DEFINE S == {Budget} \cup {limits[a].value - Spent(a) :
                     a \in {b \in Chain(req[d].parent) : limits[b].value > 0}}
<1>1. plan' = [plan EXCEPT ![d] = Min(S)]
  BY DEF CapByChain
<1>2. Budget \in Nat
  BY DelegationAssumption
<1>3. ASSUME NEW a \in Execution PROVE limits[a].value - Spent(a) \in 0..Budget
  <2>1. limits[a] \in LimitRow
    BY DEF TypeOK, LimitRow
  <2>2. limits[a].value \in 0..Budget /\ limits[a].consumed \in Nat
    BY <2>1 DEF LimitRow
  <2>3. QED
    BY <1>2, <2>2 DEF Spent
<1>4. S \subseteq 0..Budget
  BY <1>2, <1>3 DEF Chain
<1>5. S # {}
  OBVIOUS
<1> HIDE DEF S
<1>6. Min(S) \in 0..Budget
  <2>1. S \in SUBSET Nat
    BY <1>2, <1>4
  <2>2. Min(S) \in S
    BY <1>5, <2>1, LeastOfNumbers
  <2>3. QED
    BY <1>4, <2>2
<1>7. QED
  BY <1>1, <1>6 DEF TypeOK

\* A limit starts empty under its plan, and is charged whole amounts.
LEMMA LimitsStay ==
    ASSUME IInv, TypeOK, NEW d \in Execution, PutLimit(d) \/ Charge(d)
    PROVE  limits' \in [Execution -> LimitRow]
<1>0. limits \in [Execution -> LimitRow]
  BY DEF TypeOK, LimitRow
<1>1. CASE PutLimit(d)
  <2>1. limits' = [limits EXCEPT ![d] = [NoRow EXCEPT !.value = plan[d]]]
    BY <1>1 DEF PutLimit
  <2>2. plan[d] \in 0..Budget /\ Budget \in Nat
    BY DelegationAssumption DEF TypeOK
  <2>3. NoRow \in LimitRow
    BY <2>2 DEF NoRow, LimitRow
  <2>4. [NoRow EXCEPT !.value = plan[d]] \in LimitRow
    BY <2>2, <2>3 DEF LimitRow
  <2>5. QED
    BY <1>0, <2>1, <2>4
<1>2. CASE Charge(d)
  <2> DEFINE e == at[d]
             total == limits[e].consumed + report[d].amount
             late == limits[e].late \/ total > limits[e].value
             charged == [limits[e] EXCEPT !.consumed = total]
             row == [charged EXCEPT !.late = late]
  <2>1. e \in Execution /\ limits[e] \in LimitRow
    BY <1>0 DEF TypeOK
  <2>2. report[d].amount \in Nat
    <3>1. \A x \in Amounts \cup {0} : x \in Nat
      BY DelegationAssumption
    <3>2. \A r \in [outcome: OwnOutcome \cup {"none"}, amount: Amounts \cup {0}] : r.amount \in Nat
      BY <3>1
    <3>3. QED
      BY <3>2 DEF TypeOK
  <2>3. row \in LimitRow
    <3>1. total \in Nat /\ late \in BOOLEAN
      BY <2>1, <2>2 DEF LimitRow
    <3>2. charged \in LimitRow
      <4> HIDE DEF total, e
      <4>1. QED
        BY <2>1, <3>1 DEF LimitRow
    <3> HIDE DEF charged, late
    <3>3. QED
      BY <3>1, <3>2 DEF LimitRow
  <2>4. limits' = limits \/ limits' = [limits EXCEPT ![e] = row]
    <3>1. limits' = limits \/ limits' = [limits EXCEPT ![e].consumed = total, ![e].late = late]
      BY <1>2, <1>0, <2>1 DEF Charge
    <3>2. [limits EXCEPT ![e].consumed = total, ![e].late = late]
              = [limits EXCEPT ![e] = row]
      <4> HIDE DEF total, late, e
      <4>1. QED
        BY <1>0, <2>1
    <3>3. QED
      BY <3>1, <3>2
  <2> HIDE DEF row, e
  <2>5. QED
    BY <1>0, <2>1, <2>3, <2>4
<1>3. QED
  BY <1>1, <1>2

\* Executions are closed with a completion, and nothing else is written of them.
LEMMA ExecutionsStay ==
    ASSUME IInv, TInv, NEW d \in Execution,
           Register(d) \/ Refused(d) \/ CloseStopped(d) \/ FailClose(d) \/ Close(d)
    PROVE  executions' \in [Execution -> {"unregistered", "open"}
                                         \cup {Completion[o] : o \in SessionOutcome}]
<1> DEFINE C == {"unregistered", "open"} \cup {Completion[o] : o \in SessionOutcome}
<1>1. "open" \in C /\ \A o \in SessionOutcome : Completion[o] \in C
  OBVIOUS
<1>2. "cancelled" \in C /\ "failed" \in C
  <2>1. {"stopped-by-parent", "failed"} \subseteq SessionOutcome
    BY DEF SessionOutcome, OwnOutcome
  <2>2. Completion["stopped-by-parent"] = "cancelled" /\ Completion["failed"] = "failed"
    BY <2>1 DEF Completion
  <2>3. QED
    BY <2>1, <2>2
<1>3. executions \in [Execution -> C] /\ at[d] \in Execution
  BY DEF TInv, TypeOK
<1> HIDE DEF C
<1>4. executions' = executions \/ \E e \in Execution, x \in C : executions' = [executions EXCEPT ![e] = x]
  <2>1. CASE Register(d) \/ Refused(d) \/ CloseStopped(d)
    BY <1>1, <1>2, <1>3, <2>1 DEF Register, Refused, CloseStopped
  <2>2. CASE FailClose(d)
    <3>1. executions[d] \in C
      BY <1>3
    <3>2. executions' = [executions EXCEPT ![d] = IF executions[d] = "open" THEN "failed"
                                                  ELSE executions[d]]
      BY <2>2 DEF FailClose
    <3>3. QED
      BY <1>2, <3>1, <3>2
  <2>3. CASE Close(d)
    <3>1. report[d].outcome \in SessionOutcome
      BY <2>3 DEF Close, TInv, Remembered, Past, SessionOutcome
    <3>2. QED
      BY <1>1, <2>3, <3>1 DEF Close
  <2>4. QED
    BY <2>1, <2>2, <2>3
<1>5. executions' \in [Execution -> C]
  BY <1>3, <1>4
<1>6. QED
  BY <1>5 DEF C

\* A step of a handler moves no other.
LEMMA OthersWait ==
    ASSUME IInv, NEW d \in Execution, Step(d) \/ Environment(d),
           NEW e \in Execution \ {d}
    PROVE  /\ pc'[e] = pc[e] /\ req'[e] = req[e] /\ report'[e] = report[e]
           /\ path'[e] = path[e] /\ at'[e] = at[e] /\ todo'[e] = todo[e]
<1> USE DEF Goto, local, IInv, Shape
<1>1. CASE \/ Register(d) \/ Admit(d) \/ CountSiblings(d) \/ CapByChain(d)
           \/ CheckRefuses(d) \/ Refused(d)
  BY <1>1 DEF Register, Admit, CountSiblings, CapByChain, CheckRefuses, Refused
<1>2. CASE PutLimit(d) \/ Recheck(d) \/ RunnerAnswers(d) \/ RunnerThrows(d)
  BY <1>2 DEF PutLimit, Recheck, RunnerAnswers, RunnerThrows
<1>3. CASE Check(d) \/ Settle(d)
  BY <1>3 DEF Check, Settle, StoppedByParent
<1>4. CASE ListDelegates(d) \/ StopOne(d)
  BY <1>4 DEF ListDelegates, StopOne
<1>5. CASE CloseStopped(d) \/ Charge(d) \/ NoteBreach(d) \/ Close(d) \/ FailClose(d)
  BY <1>5 DEF CloseStopped, Charge, NoteBreach, Close, FailClose
<1>6. CASE AddSession(d) \/ Fail(d) \/ SwallowedFailure(d)
  BY <1>6 DEF AddSession, Fail, SwallowedFailure
<1>7. CASE CloseRefused(d) \/ CallFails(d)
  BY <1>7 DEF CloseRefused, CallFails, Throw
<1>8. QED
  BY <1>1, <1>2, <1>3, <1>4, <1>5, <1>6, <1>7 DEF Step, Environment, Stopping, Charging

\* Where a handler goes from where it is, and what it then remembers.
LEMMA RememberedHere ==
    ASSUME IInv, TInv, NEW d \in Execution, Step(d) \/ Environment(d)
    PROVE  Remembered(d)'
<1> USE DEF Goto
<1>0. /\ pc[d] \in StepName /\ Remembered(d) /\ Discipline(d)
      /\ pc \in [Execution -> StepName] /\ path \in [Execution -> {"normal", "stopped", "failed"}]
      /\ pc[d] # "idle" => req[d].parent \in Execution \cup {None}
  BY DelegationAssumption DEF IInv, TInv, Shape, Discipline, Request
<1>s. \A e \in Execution : Exists(e) => Exists(e)' /\ sessions'[e].depth = sessions[e].depth
  BY SessionsStay
<1>1. CASE Register(d)
  <2>1. PICK r \in Requests :
            /\ req' = [req EXCEPT ![d] = r]
            /\ pc' = [pc EXCEPT ![d] = IF r.parent = None THEN "session" ELSE "admit"]
    BY <1>1 DEF Register
  <2>2. req'[d] = r /\ pc'[d] = IF r.parent = None THEN "session" ELSE "admit"
    BY <1>0, <2>1 DEF IInv, Shape
  <2>3. QED
    BY <2>2 DEF Remembered, Admitted, Past
<1>2. CASE Admit(d)
  <2>1. /\ sessions' = sessions /\ req' = req
        /\ pc'[d] \in {"siblings", "refuse"}
        /\ pc'[d] = "siblings" => Running(req[d].parent)
                                  /\ sessions[req[d].parent].depth + 1 <= MaxDepth
    BY <1>0, <1>2 DEF Admit, rows
  <2>2. CASE pc'[d] = "siblings" /\ req[d].parent # None
    <3> DEFINE p == req[d].parent
    <3>1. p \in Execution /\ Exists(p) /\ sessions[p].depth + 1 <= MaxDepth
      BY <1>0, <1>2, <2>1, <2>2 DEF Admit, Running
    <3>2. sessions[p].depth \in Nat /\ MaxDepth \in Nat
      <4>1. sessions[p] \in SessionRow
        BY <3>1 DEF IInv, Shape
      <4>2. QED
        BY <4>1, DelegationAssumption DEF SessionRow
    <3>3. sessions[p].depth < MaxDepth
      BY <3>1, <3>2
    <3>4. QED
      BY <2>1, <2>2, <3>1, <3>3 DEF Remembered, Past, Exists
  <2>3. QED
    BY <2>1, <2>2 DEF Remembered, Admitted, Past
<1>3. CASE CountSiblings(d) \/ CapByChain(d) \/ CheckRefuses(d) \/ Refused(d)
  <2>1. /\ sessions' = sessions /\ req' = req
        /\ pc'[d] \in {"remaining", "session", "refuse", "done"}
        /\ pc'[d] \in Admitted => pc[d] \in Admitted
    BY <1>0, <1>3 DEF CountSiblings, CapByChain, CheckRefuses, Refused, rows, Admitted
  <2>2. QED
    BY <1>0, <2>1 DEF Remembered, Admitted, Past, Exists
<1>4. CASE AddSession(d) \/ PutLimit(d) \/ RunnerAnswers(d) \/ RunnerThrows(d)
  <2>1. pc'[d] \in {"limits", "recheck", "running", "check", "fail"}
    BY <1>0, <1>4 DEF AddSession, PutLimit, RunnerAnswers, RunnerThrows
  <2>2. QED
    BY <2>1 DEF Remembered, Admitted, Past
<1>5. CASE Recheck(d) \/ Check(d)
  <2>1. \/ pc'[d] \in {"running", "settle"}
        \/ pc'[d] \in {"stop", "list", "charge"} /\ path'[d] = "stopped"
    BY <1>0, <1>5 DEF Recheck, Check, StoppedByParent, ToCharge
  <2>2. QED
    BY <2>1 DEF Remembered, Admitted, Past
<1>6. CASE Settle(d)
  <2>1. \/ pc'[d] = "list" /\ report'[d].outcome \in OwnOutcome
        \/ pc'[d] \in {"list", "charge"} /\ path'[d] = "stopped"
    BY <1>0, <1>6 DEF Settle, StoppedByParent, ToCharge, Discipline
  <2>2. QED
    BY <2>1 DEF Remembered, Admitted, Past
<1>7. CASE \/ ListDelegates(d) \/ StopOne(d) \/ CloseStopped(d)
           \/ Charge(d) \/ NoteBreach(d)
  <2>1. /\ path' = path /\ report' = report /\ pc[d] \in Past
        /\ pc'[d] \in Past \cup {"done"}
        /\ pc'[d] = "close" => path[d] = "normal"
    <3>1. CASE ListDelegates(d)
      BY <1>0, <3>1 DEF ListDelegates, AfterCascade, ToCharge, Past
    <3>2. CASE StopOne(d)
      BY <1>0, <3>2 DEF StopOne, Past
    <3>3. CASE CloseStopped(d)
      BY <1>0, <3>3 DEF CloseStopped, local, Past
    <3>4. CASE Charge(d) \/ NoteBreach(d)
      BY <1>0, <3>4 DEF Charge, NoteBreach, AfterCharge, Past
    <3>5. QED
      BY <1>7, <3>1, <3>2, <3>3, <3>4
  <2>2. QED
    BY <1>0, <2>1 DEF Remembered, Admitted, Past
<1>8. CASE Fail(d) \/ FailClose(d) \/ SwallowedFailure(d)
  <2>1. \/ pc'[d] \in {"list", "failClose"} /\ path'[d] = "failed"
        \/ pc'[d] = "done"
    BY <1>0, <1>8 DEF Fail, FailClose, SwallowedFailure, local, Remembered
  <2>2. QED
    BY <2>1 DEF Remembered, Admitted, Past
<1>9. CASE Close(d) \/ CloseRefused(d) \/ CallFails(d)
  <2>1. pc'[d] \in {"done", "fail"}
    BY <1>0, <1>9 DEF Close, CloseRefused, CallFails, Throw
  <2>2. QED
    BY <2>1 DEF Remembered, Admitted, Past
<1>10. QED
  BY <1>1, <1>2, <1>3, <1>4, <1>5, <1>6, <1>7, <1>8, <1>9
     DEF Step, Environment, Stopping, Charging

\* A session's early ancestors are noted when its row is inserted, and not again.
LEMMA EarlyStays ==
    ASSUME NEW d \in Execution, Step(d) \/ Environment(d)
    PROVE  \/ early' = early
           \/ /\ AddSession(d)
              /\ \E S \in SUBSET Execution : early' = [early EXCEPT ![d] = S]
<1>1. early' = early \/ AddSession(d)
  BY DEF Step, Environment, Stopping, Charging, Register, Admit, CountSiblings,
     CapByChain, CheckRefuses, Refused, PutLimit, Recheck, RunnerAnswers, RunnerThrows,
     Check, Settle, ListDelegates, StopOne, CloseStopped, Charge, NoteBreach, Close, Fail,
     FailClose, CloseRefused, CallFails, SwallowedFailure, Throw
<1>2. ASSUME AddSession(d)
      PROVE  \E S \in SUBSET Execution : early' = [early EXCEPT ![d] = S]
  <2> DEFINE p == req[d].parent
             S == IF p = None THEN {} ELSE {a \in Chain(p) : limits[a].value = 0}
  <2>1. S \in SUBSET Execution
    BY DEF Chain
  <2>2. early' = [early EXCEPT ![d] = S]
    BY <1>2 DEF AddSession
  <2> HIDE DEF S
  <2>3. QED
    BY <2>1, <2>2
<1>3. QED
  BY <1>1, <1>2

\* Every step keeps the types.
LEMMA TypesStay ==
    ASSUME IInv, IInv', TInv, [Next]_vars
    PROVE  TInv'
<1>1. ASSUME NEW d \in Execution, Step(d) \/ Environment(d)
      PROVE  TInv'
  <2>1. sessions' \in SessionTable
        /\ \A e \in Execution : Exists(e) => Exists(e)' /\ sessions'[e].depth = sessions[e].depth
    BY <1>1, SessionsStay
  <2>2. limits' \in [Execution -> LimitRow]
    <3>1. limits' = limits \/ PutLimit(d) \/ Charge(d)
      BY <1>1 DEF Step, Environment, Stopping, Charging, Register, Admit, CountSiblings,
         CapByChain, CheckRefuses, Refused, AddSession, Recheck, RunnerAnswers, RunnerThrows,
         Check, Settle, ListDelegates, StopOne, CloseStopped, NoteBreach, Close, Fail,
         FailClose, CloseRefused, CallFails, SwallowedFailure, Throw, rows
    <3>2. QED
      BY <3>1, LimitsStay DEF TInv, TypeOK, LimitRow
  <2>3. executions' \in [Execution -> {"unregistered", "open"}
                                      \cup {Completion[o] : o \in SessionOutcome}]
    <3>1. \/ executions' = executions
          \/ Register(d) \/ Refused(d) \/ CloseStopped(d) \/ FailClose(d) \/ Close(d)
      BY <1>1 DEF Step, Environment, Stopping, Charging, Admit, CountSiblings,
         CapByChain, CheckRefuses, AddSession, PutLimit, Recheck, RunnerAnswers, RunnerThrows,
         Check, Settle, ListDelegates, StopOne, Charge, NoteBreach, Fail,
         CloseRefused, CallFails, SwallowedFailure, Throw, rows
    <3>2. QED
      BY <3>1, ExecutionsStay DEF TInv, TypeOK
  <2>4. plan' \in [Execution -> 0..Budget]
    <3>1. plan' = plan \/ CapByChain(d)
      BY <1>1 DEF Step, Environment, Stopping, Charging, Register, Admit, CountSiblings,
         CheckRefuses, Refused, AddSession, PutLimit, Recheck, RunnerAnswers, RunnerThrows,
         Check, Settle, ListDelegates, StopOne, CloseStopped, Charge, NoteBreach, Close, Fail,
         FailClose, CloseRefused, CallFails, SwallowedFailure, Throw, local
    <3>2. QED
      BY <3>1, PlansStay DEF TInv, TypeOK
  <2>5. /\ breaches' \in [Execution -> Nat] /\ crossed' \in [Execution -> SUBSET Execution]
    <3>1. \/ breaches' = breaches /\ crossed' = crossed
          \/ Charge(d) \/ NoteBreach(d)
      BY <1>1 DEF Step, Environment, Stopping, Charging, Register, Admit, CountSiblings,
         CapByChain, CheckRefuses, Refused, AddSession, PutLimit, Recheck, RunnerAnswers,
         RunnerThrows, Check, Settle, ListDelegates, StopOne, CloseStopped, Close, Fail,
         FailClose, CloseRefused, CallFails, SwallowedFailure, Throw, rows, local
    <3>2. /\ breaches \in [Execution -> Nat] /\ crossed \in [Execution -> SUBSET Execution]
          /\ at[d] \in Execution
      BY DEF TInv, TypeOK
    <3>3. CASE Charge(d)
      <4>1. /\ breaches' = breaches
            /\ \E f \in SUBSET Execution : crossed' = [crossed EXCEPT ![d] = f]
        BY <3>2, <3>3 DEF Charge
      <4>2. QED
        BY <3>2, <4>1
    <3>4. CASE NoteBreach(d)
      <4>1. PICK e \in crossed[d] : /\ breaches' = [breaches EXCEPT ![e] = breaches[e] + 1]
                                    /\ crossed' = [crossed EXCEPT ![d] = crossed[d] \ {e}]
        BY <3>4 DEF NoteBreach
      <4>2. breaches[e] + 1 \in Nat /\ crossed[d] \ {e} \in SUBSET Execution
        BY <3>2
      <4>3. QED
        BY <3>2, <4>1, <4>2
    <3>5. QED
      BY <3>1, <3>2, <3>3, <3>4
  <2>6. TypeOK'
    <3>1. early' \in [Execution -> SUBSET Execution]
      BY <1>1, EarlyStays DEF TInv, TypeOK
    <3>2. QED
      BY <2>1, <2>2, <2>3, <2>4, <2>5, <3>1 DEF IInv, Shape, TypeOK, SessionTable, LimitRow
  <2>7. ASSUME NEW e \in Execution \ {d} PROVE Remembered(e)'
    <3>1. /\ pc'[e] = pc[e] /\ req'[e] = req[e] /\ report'[e] = report[e]
          /\ path'[e] = path[e]
      BY <1>1, OthersWait
    <3>2. pc[e] \in Admitted => req[e].parent \in Execution \cup {None}
      <4>1. pc[e] \in Admitted => req[e] \in Requests
        BY DEF IInv, Discipline, Admitted
      <4>2. QED
        BY <4>1, DelegationAssumption DEF Request
    <3>3. QED
      BY <2>1, <3>1, <3>2 DEF TInv, Remembered
  <2>8. Remembered(d)'
    BY <1>1, RememberedHere
  <2>9. QED
    BY <2>6, <2>7, <2>8 DEF TInv
<1>2. CASE UNCHANGED vars
  BY <1>2 DEF vars, rows, local, TInv, TypeOK, Remembered, Exists
<1>3. QED
  BY <1>1, <1>2 DEF Next, Rest

\* The table starts with blank rows.
LEMMA InitTypes == Init => TInv
<1> SUFFICES ASSUME Init PROVE TInv
  OBVIOUS
<1>1. Budget \in Nat
  BY DelegationAssumption
<1>2. TypeOK
  BY <1>1 DEF Init, TypeOK, NoRow, StepName, BeforeRun
<1>3. \A d \in Execution : Remembered(d)
  BY DEF Init, Remembered, Past, Admitted
<1>4. QED
  BY <1>2, <1>3 DEF TInv
----------------------------------------------------------------------------
\* How executions end

Closing(x, e) == pc[x] = "closeStopped" /\ at[x] = e

\* A cascade that ended a session closes its execution next, and is the only one.
OneCloser ==
    \A x \in Execution : pc[x] = "closeStopped" =>
        /\ sessions[at[x]].outcome = "stopped-by-parent"
        /\ executions[at[x]] = "open"
        /\ \A y \in Execution : Closing(y, at[x]) => y = x

\* Where a dispatch is says how its session has ended, and whether its execution
\* is closed with it or somebody is about to close it.
Ends(d) ==
    LET o == sessions[d].outcome IN
    /\ pc[d] \in BeforeSession \ {"idle"} => executions[d] = "open"
    /\ Running(d) => executions[d] = "open"
    /\ o = "stopped-by-parent" =>
           \/ executions[d] = "cancelled"
           \/ executions[d] = "open" /\ \E x \in Execution : Closing(x, d)
    /\ o \in OwnOutcome =>
           \/ executions[d] = Completion[o]
           \/ /\ executions[d] = "open"
              /\ \/ pc[d] \in Past /\ path[d] = "normal"
                 \/ pc[d] = "failClose"
                 \/ pc[d] = "done" /\ req[d].unattended /\ o \in Worked
    /\ pc[d] \in WhileRunning =>
           Exists(d) /\ path[d] = "normal" /\ o \in {"none", "stopped-by-parent"}
    /\ pc[d] \in Past /\ path[d] = "normal" =>
           executions[d] = "open" /\ o = report[d].outcome /\ o \in OwnOutcome
    /\ path[d] = "stopped" => o = "stopped-by-parent" \/ (Running(d) /\ StopsItself(d))
    /\ path[d] = "failed" => o \in {"failed", "stopped-by-parent"}
    /\ pc[d] = "failClose" => o = "failed" /\ executions[d] = "open" /\ path[d] = "failed"

EInv == OneCloser /\ \A d \in Execution : Ends(d)

\* A step of d that writes no row but its own, and closes for nobody.
Quiet(d) ==
    /\ pc[d] # "closeStopped" /\ pc'[d] # "closeStopped"
    /\ \A e \in Execution \ {d} : sessions'[e] = sessions[e] /\ executions'[e] = executions[e]
    /\ sessions[d].outcome = "stopped-by-parent" =>
           sessions'[d].outcome = "stopped-by-parent" /\ executions'[d] = executions[d]

\* Outcomes and completions are words apart.
LEMMA Words ==
    /\ "none" \notin SessionOutcome /\ "stopped-by-parent" \notin OwnOutcome
    /\ OwnOutcome \subseteq SessionOutcome /\ "none" \notin OwnOutcome
    /\ "failed" \in OwnOutcome /\ "stopped-by-parent" \in SessionOutcome
    /\ Completion["failed"] = "failed" /\ Completion["stopped-by-parent"] = "cancelled"
    /\ \A o \in SessionOutcome : Completion[o] # "open"
<1>1. /\ "none" \notin SessionOutcome /\ "stopped-by-parent" \notin OwnOutcome
      /\ OwnOutcome \subseteq SessionOutcome /\ "none" \notin OwnOutcome
      /\ "failed" \in OwnOutcome /\ {"failed", "stopped-by-parent"} \subseteq SessionOutcome
  BY DEF SessionOutcome, OwnOutcome
<1>2. Completion["failed"] = "failed" /\ Completion["stopped-by-parent"] = "cancelled"
  BY <1>1 DEF Completion
<1>3. \A o \in SessionOutcome : Completion[o] # "open"
  BY DEF Completion, SessionOutcome, OwnOutcome
<1>4. QED
  BY <1>1, <1>2, <1>3

\* A dispatch whose row, execution and handler stay as they are ends as it did.
LEMMA EndsElsewhere ==
    ASSUME NEW e \in Execution, Ends(e), sessions'[e] = sessions[e],
           executions'[e] = executions[e], pc'[e] = pc[e], req'[e] = req[e],
           report'[e] = report[e], path'[e] = path[e], todo'[e] = todo[e],
           (\E x \in Execution : Closing(x, e)) => (\E x \in Execution : Closing(x, e)')
    PROVE  Ends(e)'
BY DEF Ends, Exists, Running, StopsItself

\* A quiet step leaves the closers where they are.
LEMMA QuietClosers ==
    ASSUME IInv, OneCloser, NEW d \in Execution, Step(d) \/ Environment(d), Quiet(d)
    PROVE  /\ OneCloser'
           /\ \A e \in Execution : (\E x \in Execution : Closing(x, e)) =>
                                   (\E x \in Execution : Closing(x, e)')
<1>1. \A x \in Execution \ {d} : pc'[x] = pc[x] /\ at'[x] = at[x]
  BY OthersWait
<1>2. \A x, e \in Execution : Closing(x, e)' <=> Closing(x, e)
  BY <1>1 DEF Quiet, Closing
<1>3. OneCloser'
  <2>1. SUFFICES ASSUME NEW x \in Execution, pc'[x] = "closeStopped"
                 PROVE  /\ sessions'[at'[x]].outcome = "stopped-by-parent"
                        /\ executions'[at'[x]] = "open"
                        /\ \A y \in Execution : Closing(y, at[x])' /\ at'[x] = at[x] => y = x
    BY <1>1 DEF OneCloser, Quiet, Closing
  <2>2. x # d /\ pc[x] = "closeStopped" /\ at'[x] = at[x] /\ at[x] \in Execution
    BY <1>1, <2>1 DEF Quiet, IInv, Shape
  <2>3. QED
    BY <1>2, <2>2 DEF OneCloser, Quiet, Closing
<1>4. QED
  BY <1>2, <1>3

\* So that it keeps the invariant when it keeps its own part.
LEMMA QuietKeeps ==
    ASSUME IInv, EInv, NEW d \in Execution, Step(d) \/ Environment(d), Quiet(d), Ends(d)'
    PROVE  EInv'
<1>1. ASSUME NEW e \in Execution \ {d} PROVE Ends(e)'
  <2>1. /\ pc'[e] = pc[e] /\ req'[e] = req[e] /\ report'[e] = report[e]
        /\ path'[e] = path[e] /\ todo'[e] = todo[e]
    BY OthersWait
  <2>2. sessions'[e] = sessions[e] /\ executions'[e] = executions[e]
    BY DEF Quiet
  <2>3. QED
    BY <2>1, <2>2, QuietClosers, EndsElsewhere DEF EInv
<1>2. QED
  BY <1>1, QuietClosers DEF EInv

\* An execution is open from its registration on, or refused.
LEMMA AdmissionEnds ==
    ASSUME IInv, TInv, EInv, NEW d \in Execution,
           \/ Register(d) \/ Admit(d) \/ CountSiblings(d) \/ CapByChain(d)
           \/ CheckRefuses(d) \/ Refused(d)
    PROVE  EInv'
<1> USE DEF Goto
<1>1. /\ pc[d] \in BeforeSession /\ sessions' = sessions /\ path' = path
      /\ executions \in [Execution -> {"unregistered", "open"}
                                      \cup {Completion[o] : o \in SessionOutcome}]
      /\ pc \in [Execution -> StepName]
  BY DEF Register, Admit, CountSiblings, CapByChain, CheckRefuses, Refused, BeforeSession,
         rows, local, TInv, TypeOK
<1>2. /\ ~Exists(d) /\ path[d] = "normal" /\ sessions[d].outcome = "none"
  BY <1>1, RowsAreSessions DEF IInv, Discipline, TInv, TypeOK, SessionTable
<1>3. /\ \A e \in Execution \ {d} : executions'[e] = executions[e]
      /\ \/ pc'[d] \in {"admit", "siblings", "remaining", "session", "refuse"}
            /\ executions'[d] = "open"
         \/ pc'[d] = "done"
  BY <1>1 DEF Register, Admit, CountSiblings, CapByChain, CheckRefuses, Refused, rows,
              EInv, Ends, BeforeSession
<1>4. Quiet(d)
  BY <1>1, <1>2, <1>3 DEF Quiet, BeforeSession
<1>5. Ends(d)'
  BY <1>1, <1>2, <1>3, Words DEF Ends, BeforeSession, WhileRunning, Past, Exists, Running
<1>6. QED
  BY <1>4, <1>5, QuietKeeps DEF Step, Environment

\* A session starts running under an open execution.
LEMMA AddSessionEnds ==
    ASSUME IInv, IInv', TInv, EInv, NEW d \in Execution, AddSession(d)
    PROVE  EInv'
<1> USE DEF Goto
<1>1. /\ pc[d] = "session" /\ pc'[d] = "limits" /\ path' = path /\ executions' = executions
      /\ sessions'[d].outcome = "none" /\ sessions'[d].expert = req[d].expert
      /\ \A e \in Execution \ {d} : sessions'[e] = sessions[e]
  BY DEF AddSession, local, IInv, Shape
<1>2. /\ ~Exists(d) /\ path[d] = "normal" /\ executions[d] = "open" /\ req[d] \in Requests
  BY <1>1 DEF IInv, Discipline, BeforeSession, EInv, Ends
<1>3. sessions[d].outcome = "none"
  BY <1>2, RowsAreSessions DEF TInv, TypeOK, SessionTable
<1>4. Exists(d)'
  BY <1>1, <1>2, DelegationAssumption DEF Exists, Request
<1>5. Quiet(d)
  BY <1>1, <1>3 DEF Quiet
<1>6. Ends(d)'
  BY <1>1, <1>2, <1>4, Words DEF Ends, BeforeSession, WhileRunning, Past, Running
<1>7. QED
  BY <1>5, <1>6, QuietKeeps DEF Step

\* Until it settles, a session runs or was stopped by its parent.
LEMMA RunEnds ==
    ASSUME IInv, TInv, EInv, NEW d \in Execution,
           \/ PutLimit(d) \/ Recheck(d) \/ RunnerAnswers(d) \/ RunnerThrows(d) \/ Check(d)
    PROVE  EInv'
<1> USE DEF Goto
<1>1. /\ sessions' = sessions /\ executions' = executions /\ req' = req
      /\ pc[d] \in {"limits", "recheck", "running", "check"}
  BY DEF PutLimit, Recheck, RunnerAnswers, RunnerThrows, Check, rows
<1>2. \/ /\ path' = path
         /\ pc'[d] \in {"recheck", "running", "check", "fail", "settle"}
      \/ /\ path'[d] = "stopped" /\ pc'[d] = "stop" /\ todo'[d] = <<{d}>>
      \/ /\ path'[d] = "stopped" /\ pc'[d] \in {"list", "charge"}
         /\ sessions[d].outcome = "stopped-by-parent"
  <2>1. CASE PutLimit(d)
    BY <2>1 DEF PutLimit, local, IInv, Shape
  <2>2. CASE Recheck(d)
    BY <2>2 DEF Recheck, IInv, Shape
  <2>3. CASE RunnerAnswers(d) \/ RunnerThrows(d)
    BY <2>3 DEF RunnerAnswers, RunnerThrows, local, IInv, Shape
  <2>4. CASE Check(d)
    BY <2>4 DEF Check, StoppedByParent, ToCharge, IInv, Shape
  <2>5. QED
    BY <2>1, <2>2, <2>3, <2>4
<1>3. /\ Exists(d) /\ path[d] = "normal"
      /\ sessions[d].outcome \in {"none", "stopped-by-parent"}
  BY <1>1 DEF EInv, Ends, WhileRunning
<1>4. Quiet(d)
  BY <1>1, <1>2 DEF Quiet
<1>5. Ends(d)'
  <2>1. sessions[d].outcome = "stopped-by-parent" =>
            \/ executions[d] = "cancelled"
            \/ executions[d] = "open" /\ \E x \in Execution : Closing(x, d)'
    BY <1>4, QuietClosers DEF EInv, Ends, Step, Environment
  <2>2. Running(d) => executions[d] = "open"
    BY DEF EInv, Ends
  <2>3. QED
    BY <1>1, <1>2, <1>3, <2>1, <2>2, Words
       DEF Ends, BeforeSession, WhileRunning, Past, Exists, Running, StopsItself
<1>6. QED
  BY <1>4, <1>5, QuietKeeps DEF Step, Environment

\* A settlement that wins has the outcome of the run; one that loses was stopped.
LEMMA SettleEnds ==
    ASSUME IInv, TInv, EInv, NEW d \in Execution, Settle(d)
    PROVE  EInv'
<1> USE DEF Goto
<1>1. /\ pc[d] = "settle" /\ executions' = executions /\ req' = req /\ report' = report
      /\ EndSession(d, report[d].outcome)
  BY DEF Settle
<1>2. /\ Exists(d) /\ path[d] = "normal" /\ report[d].outcome \in OwnOutcome
      /\ sessions[d].outcome \in {"none", "stopped-by-parent"}
  BY <1>1 DEF EInv, Ends, WhileRunning, IInv, Discipline
<1>3. /\ \A e \in Execution : e # d => sessions'[e] = sessions[e]
      /\ Exists(d)' <=> Exists(d)
      /\ Running(d) => sessions'[d].outcome = report[d].outcome
      /\ ~Running(d) => sessions' = sessions
  BY <1>1, <1>2, Words, EndingRow DEF TInv, TypeOK, SessionTable
<1>4. \/ Running(d) /\ pc'[d] = "list" /\ path' = path
      \/ ~Running(d) /\ pc'[d] \in {"list", "charge"} /\ path'[d] = "stopped"
  BY DEF Settle, StoppedByParent, ToCharge, IInv, Shape
<1>5. Quiet(d)
  BY <1>1, <1>3, <1>4 DEF Quiet, Running
<1>6. Ends(d)'
  <2>1. sessions[d].outcome = "stopped-by-parent" =>
            \/ executions[d] = "cancelled"
            \/ executions[d] = "open" /\ \E x \in Execution : Closing(x, d)'
    BY <1>5, QuietClosers DEF EInv, Ends, Step
  <2>2. Running(d) => executions[d] = "open"
    BY DEF EInv, Ends
  <2>3. CASE Running(d)
    BY <1>1, <1>2, <1>3, <1>4, <2>2, <2>3, Words
       DEF Ends, BeforeSession, WhileRunning, Past, Running
  <2>4. CASE ~Running(d)
    BY <1>1, <1>2, <1>3, <1>4, <2>1, <2>4, Words
       DEF Ends, BeforeSession, WhileRunning, Past, Running
  <2>5. QED
    BY <2>3, <2>4
<1>7. QED
  BY <1>5, <1>6, QuietKeeps DEF Step

\* #failed ends a session that runs as failed, and closes its execution next.
LEMMA FailEnds ==
    ASSUME IInv, TInv, EInv, NEW d \in Execution, Fail(d)
    PROVE  EInv'
<1> USE DEF Goto
<1>1. /\ pc[d] = "fail" /\ executions' = executions /\ req' = req /\ report' = report
      /\ EndSession(d, "failed") /\ path'[d] = "failed"
      /\ pc'[d] = IF sessions[d].outcome = "stopped-by-parent" THEN "list" ELSE "failClose"
  BY DEF Fail, IInv, Shape
<1>2. /\ Exists(d) /\ sessions[d].outcome \in {"none", "stopped-by-parent"}
  BY <1>1 DEF EInv, Ends, WhileRunning
<1>3. /\ \A e \in Execution : e # d => sessions'[e] = sessions[e]
      /\ Exists(d)' <=> Exists(d)
      /\ Running(d) => sessions'[d].outcome = "failed"
      /\ ~Running(d) => sessions' = sessions
  BY <1>1, Words, EndingRow DEF TInv, TypeOK, SessionTable
<1>4. Quiet(d)
  BY <1>1, <1>3 DEF Quiet, Running
<1>5. Ends(d)'
  <2>1. sessions[d].outcome = "stopped-by-parent" =>
            \/ executions[d] = "cancelled"
            \/ executions[d] = "open" /\ \E x \in Execution : Closing(x, d)'
    BY <1>4, QuietClosers DEF EInv, Ends, Step
  <2>2. Running(d) => executions[d] = "open"
    BY DEF EInv, Ends
  <2>3. CASE Running(d)
    BY <1>1, <1>2, <1>3, <2>2, <2>3, Words
       DEF Ends, BeforeSession, WhileRunning, Past, Running
  <2>4. CASE ~Running(d)
    BY <1>1, <1>2, <1>3, <2>1, <2>4, Words
       DEF Ends, BeforeSession, WhileRunning, Past, Running
  <2>5. QED
    BY <2>3, <2>4
<1>6. QED
  BY <1>4, <1>5, QuietKeeps DEF Step

\* A run that has ended by itself closes its execution as it ended; after its
\* settlement it lists, charges and closes, and nothing else.
LEMMA AftermathEnds ==
    ASSUME IInv, TInv, EInv, NEW d \in Execution,
           ListDelegates(d) \/ Charge(d) \/ NoteBreach(d) \/ FailClose(d) \/ Close(d)
    PROVE  EInv'
<1> USE DEF Goto
<1>1. /\ sessions' = sessions /\ req' = req /\ report' = report /\ path' = path
      /\ pc \in [Execution -> StepName] /\ Remembered(d) /\ Ends(d)
      /\ executions \in [Execution -> {"unregistered", "open"}
                                      \cup {Completion[o] : o \in SessionOutcome}]
  BY DEF ListDelegates, Charge, NoteBreach, FailClose, Close, rows, local, TInv, TypeOK, EInv
<1>2. CASE ListDelegates(d) \/ Charge(d) \/ NoteBreach(d)
  <2>1. /\ executions' = executions /\ pc[d] \in {"list", "charge", "note"}
        /\ pc'[d] \in {"stop", "list", "charge", "note", "close", "done"}
        /\ pc'[d] = "done" => path[d] # "normal"
    <3>1. CASE ListDelegates(d)
      BY <1>1, <3>1 DEF ListDelegates, AfterCascade, ToCharge, rows
    <3>2. CASE Charge(d) \/ NoteBreach(d)
      BY <1>1, <3>2 DEF Charge, NoteBreach, AfterCharge
    <3>3. QED
      BY <1>2, <3>1, <3>2
  <2>2. Quiet(d)
    BY <1>1, <2>1 DEF Quiet
  <2>3. sessions[d].outcome = "stopped-by-parent" =>
            \/ executions[d] = "cancelled"
            \/ executions[d] = "open" /\ \E x \in Execution : Closing(x, d)'
    BY <1>1, <1>2, <2>2, QuietClosers DEF EInv, Ends, Step, Stopping, Charging
  <2>4. Ends(d)'
    BY <1>1, <2>1, <2>3, Words
       DEF Ends, BeforeSession, WhileRunning, Past, Exists, Running, StopsItself
  <2>5. QED
    BY <1>2, <2>2, <2>4, QuietKeeps DEF Step, Stopping, Charging
<1>3. CASE FailClose(d)
  <2>1. /\ pc[d] = "failClose" /\ pc'[d] = "list"
        /\ executions' = [executions EXCEPT ![d] = IF executions[d] = "open" THEN "failed"
                                                   ELSE executions[d]]
    BY <1>1, <1>3 DEF FailClose
  <2>2. sessions[d].outcome = "failed" /\ executions[d] = "open" /\ path[d] = "failed"
    BY <1>1, <2>1 DEF Ends
  <2>3. executions'[d] = "failed" /\ \A e \in Execution \ {d} : executions'[e] = executions[e]
    BY <1>1, <2>1, <2>2
  <2>4. Quiet(d)
    BY <1>1, <2>1, <2>2, <2>3 DEF Quiet
  <2>5. Ends(d)'
    BY <1>1, <2>1, <2>2, <2>3, Words DEF Ends, BeforeSession, WhileRunning, Running
  <2>6. QED
    BY <1>3, <2>4, <2>5, QuietKeeps DEF Step
<1>4. CASE Close(d)
  <2> DEFINE o == report[d].outcome
             proposed == req[d].unattended /\ o \in Worked
  <2>1. /\ pc[d] = "close" /\ pc'[d] = "done"
        /\ executions' = IF proposed THEN executions
                         ELSE [executions EXCEPT ![d] = Completion[o]]
    BY <1>1, <1>4 DEF Close
  <2>2. /\ path[d] = "normal" /\ sessions[d].outcome = o /\ o \in OwnOutcome
        /\ executions[d] = "open"
    BY <1>1, <2>1 DEF Ends, Remembered, Past
  <2>3. /\ \A e \in Execution \ {d} : executions'[e] = executions[e]
        /\ IF proposed THEN executions'[d] = "open" ELSE executions'[d] = Completion[o]
    BY <1>1, <2>1, <2>2
  <2>4. Quiet(d)
    BY <1>1, <2>1, <2>2, <2>3, Words DEF Quiet
  <2>5. Ends(d)'
    BY <1>1, <2>1, <2>2, <2>3, Words DEF Ends, BeforeSession, WhileRunning, Past, Running
  <2>6. QED
    BY <1>4, <2>4, <2>5, QuietKeeps DEF Step
<1>5. QED
  BY <1>2, <1>3, <1>4

\* A cascade that ends a session is about to close its execution, alone; one that
\* finds it ended goes on.
LEMMA StopOneEnds ==
    ASSUME IInv, TInv, EInv, NEW d \in Execution, StopOne(d)
    PROVE  EInv'
<1> USE DEF Goto
<1>1. /\ pc[d] = "stop" /\ executions' = executions /\ req' = req /\ report' = report
      /\ path' = path
  BY DEF StopOne
<1>2. PICK c \in Execution :
          /\ EndSession(c, "stopped-by-parent")
          /\ StopsItself(d) => c = d
          /\ pc'[d] = IF Running(c) THEN "closeStopped" ELSE "list"
          /\ at'[d] = c
  <2>1. todo[d] \in Seq(SUBSET Execution) /\ todo[d] # <<>>
    BY <1>1 DEF IInv, Shape, Discipline
  <2>2. todo[d][Len(todo[d])] \in SUBSET Execution
    BY <2>1
  <2>3. PICK c \in todo[d][Len(todo[d])] :
            /\ EndSession(c, "stopped-by-parent")
            /\ pc' = [pc EXCEPT ![d] = IF Running(c) THEN "closeStopped" ELSE "list"]
            /\ at' = [at EXCEPT ![d] = c]
    BY DEF StopOne
  <2>4. StopsItself(d) => c = d
    BY <2>3 DEF StopsItself
  <2>5. QED
    BY <2>2, <2>3, <2>4 DEF IInv, Shape
<1>3. /\ \A e \in Execution :
             /\ Exists(e)' <=> Exists(e)
             /\ e # c => sessions'[e] = sessions[e]
      /\ Running(c) => sessions'[c].outcome = "stopped-by-parent"
      /\ ~Running(c) => sessions' = sessions
  BY <1>2, Words, EndingRow DEF TInv, TypeOK, SessionTable
<1>4. Ends(d) /\ Discipline(d) /\ Ends(c) /\ Discipline(c)
  BY DEF EInv, IInv
<1>5. path[d] = "stopped" \/ path[d] = "normal" \/ path[d] = "failed"
  BY DEF IInv, Shape
<1>6. CASE ~Running(c)
  <2>1. sessions' = sessions /\ pc'[d] = "list" /\ ~(StopsItself(d) /\ Running(d))
    BY <1>2, <1>3, <1>6
  <2>2. Quiet(d)
    BY <1>1, <2>1 DEF Quiet
  <2>3. sessions[d].outcome = "stopped-by-parent" =>
            \/ executions[d] = "cancelled"
            \/ executions[d] = "open" /\ \E x \in Execution : Closing(x, d)'
    BY <1>4, <2>2, QuietClosers DEF EInv, Ends, Step, Stopping
  <2>4. Ends(d)'
    BY <1>1, <1>4, <2>1, <2>3, Words
       DEF Ends, BeforeSession, WhileRunning, Past, Exists, Running
  <2>5. QED
    BY <2>2, <2>4, QuietKeeps DEF Step, Stopping
<1>7. CASE Running(c)
  <2>1. /\ pc'[d] = "closeStopped" /\ sessions'[c].outcome = "stopped-by-parent"
        /\ sessions[c].outcome = "none" /\ Exists(c) /\ executions[c] = "open"
    BY <1>2, <1>3, <1>4, <1>7 DEF Running, Ends
  <2>2. \A x \in Execution \ {d} : pc'[x] = pc[x] /\ at'[x] = at[x]
    BY OthersWait DEF Step, Stopping
  <2>3. \A x, e \in Execution : Closing(x, e)' <=> (Closing(x, e) \/ (x = d /\ e = c))
    BY <1>1, <1>2, <2>1, <2>2 DEF Closing
  <2>4. \A x \in Execution : pc[x] = "closeStopped" => at[x] # c /\ at[x] \in Execution
    BY <2>1 DEF EInv, OneCloser, IInv, Shape
  <2>5. \A x \in Execution : ~Closing(x, c)
    BY <2>4 DEF Closing
  <2>6. OneCloser'
    <3>1. SUFFICES ASSUME NEW x \in Execution, pc'[x] = "closeStopped"
                   PROVE  /\ sessions'[at'[x]].outcome = "stopped-by-parent"
                          /\ executions'[at'[x]] = "open"
                          /\ \A y \in Execution : pc'[y] = "closeStopped" /\ at'[y] = at'[x]
                                                  => y = x
      BY DEF OneCloser, Closing
    <3>2. CASE x = d
      <4>1. \A y \in Execution \ {d} : ~(pc'[y] = "closeStopped" /\ at'[y] = c)
        BY <2>2, <2>4
      <4>2. QED
        BY <1>1, <1>2, <2>1, <3>2, <4>1
    <3>3. CASE x # d
      <4>1. pc[x] = "closeStopped" /\ at'[x] = at[x] /\ at[x] # c /\ at[x] \in Execution
        BY <2>2, <2>4, <3>1, <3>3
      <4>2. /\ sessions[at[x]].outcome = "stopped-by-parent"
            /\ executions[at[x]] = "open"
            /\ \A y \in Execution : Closing(y, at[x]) => y = x
        BY <4>1 DEF EInv, OneCloser
      <4>3. \A y \in Execution : pc'[y] = "closeStopped" /\ at'[y] = at[x] => y = x
        BY <1>2, <2>2, <4>1, <4>2 DEF Closing
      <4>4. QED
        BY <1>1, <1>3, <4>1, <4>2, <4>3
    <3>4. QED
      BY <3>2, <3>3
  <2>7. Ends(c)'
    <3>1. Closing(d, c)'
      BY <2>3
    <3>2. Running(c) /\ failedAt[c] # "fail" => path[c] # "failed"
      BY <1>4 DEF Discipline
    <3>3. /\ Exists(c)' /\ ~Running(c)' /\ executions'[c] = "open"
      BY <1>1, <1>3, <2>1, Words DEF Running
    <3>4. CASE c = d
      <4>1. path[c] = "stopped"
        BY <1>1, <1>4, <1>5, <2>1, <3>4, Words DEF Ends, Past
      <4>2. QED
        BY <1>1, <2>1, <3>1, <3>3, <3>4, <4>1, Words
           DEF Ends, BeforeSession, WhileRunning
    <3>5. CASE c # d
      <4>1. pc'[c] = pc[c] /\ path'[c] = path[c]
        BY <1>1, <2>2, <3>5
      <4>2. /\ pc[c] \notin BeforeSession
            /\ pc[c] \in WhileRunning => path[c] = "normal"
            /\ ~(pc[c] \in Past /\ path[c] = "normal")
            /\ pc[c] # "failClose"
        BY <1>4, <2>1, Words DEF Ends, Discipline
      <4>3. QED
        BY <2>1, <3>1, <3>3, <4>1, <4>2, Words DEF Ends
    <3>6. QED
      BY <3>4, <3>5
  <2>8. ASSUME NEW e \in Execution \ {c, d} PROVE Ends(e)'
    <3>1. /\ pc'[e] = pc[e] /\ req'[e] = req[e] /\ report'[e] = report[e]
          /\ path'[e] = path[e] /\ todo'[e] = todo[e]
      BY OthersWait DEF Step, Stopping
    <3>2. QED
      BY <1>1, <1>3, <2>3, <3>1, EndsElsewhere DEF EInv
  <2>9. CASE c # d
    <3>1. sessions'[d] = sessions[d] /\ executions'[d] = executions[d] /\ ~StopsItself(d)
      BY <1>1, <1>2, <1>3, <2>9
    <3>2. sessions[d].outcome = "stopped-by-parent" =>
              \/ executions[d] = "cancelled"
              \/ executions[d] = "open" /\ \E x \in Execution : Closing(x, d)'
      BY <1>4, <2>3 DEF Ends
    <3>3. Ends(d)'
      BY <1>1, <1>4, <2>1, <3>1, <3>2, Words
         DEF Ends, BeforeSession, WhileRunning, Past, Exists, Running
    <3>4. QED
      BY <2>6, <2>7, <2>8, <3>3 DEF EInv
  <2>10. CASE c = d
    BY <2>6, <2>7, <2>8, <2>10 DEF EInv
  <2>11. QED
    BY <2>9, <2>10
<1>8. QED
  BY <1>6, <1>7

\* It closes the execution as cancelled, and nobody else was about to.
LEMMA CloseStoppedEnds ==
    ASSUME IInv, TInv, EInv, NEW d \in Execution, CloseStopped(d)
    PROVE  EInv'
<1> USE DEF Goto
<1>0. PICK c \in Execution : c = at[d]
  BY DEF IInv, Shape
<1>1. /\ pc[d] = "closeStopped" /\ pc'[d] = "list" /\ c = at[d] /\ sessions' = sessions
      /\ executions' = [executions EXCEPT ![c] = "cancelled"]
      /\ req' = req /\ report' = report /\ path' = path /\ at' = at /\ todo' = todo
  BY <1>0 DEF CloseStopped, local, IInv, Shape
<1>2. /\ sessions[c].outcome = "stopped-by-parent"
      /\ \A y \in Execution : Closing(y, c) => y = d
  BY <1>1 DEF EInv, OneCloser
<1>3. executions'[c] = "cancelled" /\ \A e \in Execution \ {c} : executions'[e] = executions[e]
  BY <1>1 DEF TInv, TypeOK
<1>4. \A x \in Execution \ {d} : pc'[x] = pc[x] /\ at'[x] = at[x]
  BY OthersWait DEF Step, Stopping
<1>5. \A x, e \in Execution : Closing(x, e)' <=> (Closing(x, e) /\ x # d)
  BY <1>1, <1>4 DEF Closing
<1>6. \A e \in Execution : e # c /\ (\E x \in Execution : Closing(x, e)) =>
                           (\E x \in Execution : Closing(x, e)')
  BY <1>1, <1>5 DEF Closing
<1>7. OneCloser'
  <2>1. SUFFICES ASSUME NEW x \in Execution, pc'[x] = "closeStopped"
                 PROVE  /\ sessions'[at'[x]].outcome = "stopped-by-parent"
                        /\ executions'[at'[x]] = "open"
                        /\ \A y \in Execution : pc'[y] = "closeStopped" /\ at'[y] = at'[x]
                                                => y = x
    BY DEF OneCloser, Closing
  <2>2. x # d /\ pc[x] = "closeStopped" /\ at'[x] = at[x] /\ at[x] \in Execution
    BY <1>1, <1>4, <2>1 DEF IInv, Shape
  <2>3. at[x] # c
    BY <1>2, <2>2 DEF Closing
  <2>4. /\ sessions[at[x]].outcome = "stopped-by-parent"
        /\ executions[at[x]] = "open"
        /\ \A y \in Execution : Closing(y, at[x]) => y = x
    BY <2>2 DEF EInv, OneCloser
  <2>5. \A y \in Execution : pc'[y] = "closeStopped" /\ at'[y] = at[x] => y = x
    BY <1>1, <1>4, <2>4 DEF Closing
  <2>6. QED
    BY <1>1, <1>3, <2>2, <2>3, <2>4, <2>5
<1>8. Ends(c)'
  <2>1. Ends(c) /\ Discipline(c) /\ Exists(c)
    BY <1>1, <1>2, RowsAreSessions DEF EInv, IInv, TInv, TypeOK, SessionTable
  <2>2. /\ pc[c] \notin BeforeSession
        /\ pc[c] \in WhileRunning => path[c] = "normal"
        /\ ~(pc[c] \in Past /\ path[c] = "normal")
        /\ pc[c] # "failClose"
    BY <1>2, <2>1, Words DEF Ends, Discipline
  <2>3. pc'[c] = pc[c] \/ (pc[c] = "closeStopped" /\ pc'[c] = "list")
    <3>1. CASE c = d
      BY <1>1, <3>1
    <3>2. CASE c # d
      BY <1>4, <3>2
    <3>3. QED
      BY <3>1, <3>2
  <2>4. ~Running(c) /\ ~Running(c)' /\ Exists(c)'
    BY <1>1, <1>2, <2>1 DEF Running, Exists
  <2>5. QED
    BY <1>1, <1>2, <1>3, <2>1, <2>2, <2>3, <2>4, Words
       DEF Ends, BeforeSession, WhileRunning, Past
<1>9. ASSUME NEW e \in Execution \ {c} PROVE Ends(e)'
  <2>1. CASE e # d
    <3>1. pc'[e] = pc[e]
      BY <1>4, <2>1
    <3>2. QED
      BY <1>1, <1>3, <1>6, <3>1, EndsElsewhere DEF EInv
  <2>2. CASE e = d
    <3>1. Ends(d) /\ executions'[d] = executions[d]
      BY <1>3, <2>2 DEF EInv
    <3>2. sessions[d].outcome = "stopped-by-parent" =>
              \/ executions[d] = "cancelled"
              \/ executions[d] = "open" /\ \E x \in Execution : Closing(x, d)'
      BY <1>6, <2>2, <3>1 DEF Ends
    <3>3. Ends(d)'
      BY <1>1, <3>1, <3>2, Words
         DEF Ends, BeforeSession, WhileRunning, Past, Exists, Running, StopsItself
    <3>4. QED
      BY <2>2, <3>3
  <2>3. QED
    BY <2>1, <2>2
<1>10. QED
  BY <1>7, <1>8, <1>9 DEF EInv

\* A step at which nothing fails.
Works(d) == (Step(d) \/ Environment(d)) /\ ~CloseRefused(d) /\ ~CallFails(d) /\ ~SwallowedFailure(d)

\* Where no call has failed, nothing does: no execution that is to be closed is.
LEMMA NothingFails ==
    ASSUME IInv, Healthy => EInv, NEW d \in Execution, Step(d) \/ Environment(d), Healthy'
    PROVE  Healthy /\ EInv /\ Works(d)
<1>1. ~CallFails(d) /\ ~SwallowedFailure(d)
  <2>1. SUFFICES ASSUME MayFail(d) PROVE FALSE
    BY DEF CallFails, SwallowedFailure
  <2>2. failedAt'[d] \in {"fail", "elsewhere"}
    BY <2>1 DEF MayFail, IInv, Shape
  <2>3. QED
    BY <2>2 DEF Healthy
<1>2. failedAt' = failedAt
  BY <1>1 DEF Step, Environment, Stopping, Charging, Register, Admit, CountSiblings,
     CapByChain, CheckRefuses, Refused, AddSession, PutLimit, Recheck, RunnerAnswers,
     RunnerThrows, Check, Settle, ListDelegates, StopOne, CloseStopped, Charge, NoteBreach,
     Close, Fail, FailClose, CloseRefused
<1>3. Healthy /\ EInv
  BY <1>2 DEF Healthy
<1>4. ~CloseRefused(d)
  BY <1>3 DEF CloseRefused, EInv, OneCloser
<1>5. QED
  BY <1>1, <1>3, <1>4 DEF Works

\* As long as no call has failed, executions end as sessions do.
LEMMA EndsStay ==
    ASSUME IInv, IInv', TInv, Healthy => EInv, [Next]_vars
    PROVE  Healthy' => EInv'
<1>1. ASSUME NEW d \in Execution, Step(d) \/ Environment(d), Healthy'
      PROVE  EInv'
  <2>1. EInv /\ Works(d)
    BY <1>1, NothingFails
  <2>2. QED
    BY <2>1, AdmissionEnds, AddSessionEnds, RunEnds, SettleEnds, FailEnds,
       AftermathEnds, StopOneEnds, CloseStoppedEnds
       DEF Works, Step, Environment, Stopping, Charging
<1>2. CASE UNCHANGED vars
  BY <1>2 DEF vars, rows, local, EInv, OneCloser, Closing, Ends, Healthy, Exists, Running,
              StopsItself
<1>3. QED
  BY <1>1, <1>2 DEF Next, Rest

\* Nothing is registered at the start.
LEMMA InitEnds == Init => EInv
<1> SUFFICES ASSUME Init PROVE EInv
  OBVIOUS
<1>1. OneCloser
  BY DEF Init, OneCloser
<1>2. ASSUME NEW d \in Execution PROVE Ends(d)
  BY Words DEF Init, Ends, BeforeSession, WhileRunning, Past, NoSession, Exists, Running
<1>3. QED
  BY <1>1, <1>2 DEF EInv

\* However a run ends, by itself, by its parent's cascade or by failing, and whoever
\* gets there first, its execution is closed as its session ended, unless a call failed.
THEOREM ExecutionsCloseAsTheyEnd == Spec => []ClosedAsItEnded
<1> DEFINE J == TInv /\ (Healthy => EInv)
<1>1. Init => J
  BY InitTypes, InitEnds
<1>2. IInv /\ IInv' /\ J /\ [Next]_vars => J'
  BY TypesStay, EndsStay
<1>3. IInv /\ J => ClosedAsItEnded
  <2>1. SUFFICES ASSUME IInv, TInv, Healthy, EInv, NEW d \in Execution, Exists(d)
                 PROVE  LET o == sessions[d].outcome IN
                        /\ executions[d] # "open" => o # "none" /\ executions[d] = Completion[o]
                        /\ pc[d] = "done" /\ (o # "stopped-by-parent" \/ AllDone) =>
                               executions[d] # "open" \/ (req[d].unattended /\ o \in Worked)
    BY DEF ClosedAsItEnded, TInv
  <2> DEFINE o == sessions[d].outcome
  <2>2. Ends(d) /\ Discipline(d) /\ failedAt[d] = "none"
    BY <2>1 DEF EInv, IInv, Healthy
  <2>3. o = "none" \/ o = "stopped-by-parent" \/ o \in OwnOutcome
    <3>1. sessions[d] \in SessionRow
      BY <2>1 DEF IInv, Shape
    <3>2. QED
      BY <3>1 DEF SessionRow, SessionOutcome
  <2>4. executions[d] # "open" => o # "none" /\ executions[d] = Completion[o]
    BY <2>1, <2>2, <2>3, Words DEF Ends, Running
  <2>5. CASE pc[d] = "done" /\ o = "none"
    BY <2>1, <2>2, <2>5 DEF Discipline, Running, StopsItself, WhileRunning
  <2>6. CASE pc[d] = "done" /\ o \in OwnOutcome
    BY <2>2, <2>6, Words DEF Ends, Past
  <2>7. CASE AllDone /\ o = "stopped-by-parent"
    <3>1. \A x \in Execution : ~Closing(x, d)
      BY <2>7 DEF Closing, AllDone
    <3>2. QED
      BY <2>2, <2>4, <2>7, <3>1 DEF Ends
  <2>8. QED
    BY <2>3, <2>4, <2>5, <2>6, <2>7
<1> HIDE DEF J
<1>4. QED
  BY <1>1, <1>2, <1>3, Invariance, PTL DEF Spec
----------------------------------------------------------------------------
\* Chains

Closed(f, S) == \A m \in S : f[m] \in S \cup {None}

\* The least closed set that holds e, for any function from members to parents.
Up(f, e) == {a \in Execution : \A S \in SUBSET Execution : e \in S /\ Closed(f, S) => a \in S}

Parents == [x \in Execution |-> sessions[x].parent]

\* The chain of a session is such a set.
LEMMA ChainIsUp ==
    ASSUME NEW e \in Execution
    PROVE  Chain(e) = Up(Parents, e)
<1>1. ASSUME NEW S \in SUBSET Execution
      PROVE  Closed(Parents, S) <=> \A m \in S : sessions[m].parent \in S \cup {None}
  BY DEF Closed, Parents
<1> HIDE DEF Parents
<1>2. QED
  BY <1>1 DEF Chain, Up

\* It holds e, is closed, and is within every closed set that holds e.
LEMMA UpIsLeast ==
    ASSUME NEW f \in [Execution -> Execution \cup {None}], NEW e \in Execution
    PROVE  /\ Up(f, e) \in SUBSET Execution /\ e \in Up(f, e) /\ Closed(f, Up(f, e))
           /\ \A S \in SUBSET Execution : e \in S /\ Closed(f, S) => Up(f, e) \subseteq S
<1>1. Up(f, e) \in SUBSET Execution /\ e \in Up(f, e)
  BY DEF Up
<1>2. \A S \in SUBSET Execution : e \in S /\ Closed(f, S) => Up(f, e) \subseteq S
  BY DEF Up
<1>3. ASSUME NEW m \in Up(f, e), f[m] # None
      PROVE  f[m] \in Up(f, e)
  <2>1. f[m] \in Execution
    BY <1>1, <1>3
  <2>2. ASSUME NEW S \in SUBSET Execution, e \in S, Closed(f, S)
        PROVE  f[m] \in S
    <3>1. m \in S
      BY <1>2, <2>2
    <3>2. QED
      BY <1>3, <2>2, <3>1 DEF Closed
  <2>3. QED
    BY <2>1, <2>2 DEF Up
<1>4. QED
  BY <1>1, <1>2, <1>3 DEF Closed

\* A chain is its first member and the chain of the parent.
LEMMA UpFromParent ==
    ASSUME NEW f \in [Execution -> Execution \cup {None}], NEW e \in Execution
    PROVE  /\ f[e] \in Execution => Up(f, e) = {e} \cup Up(f, f[e])
           /\ f[e] = None => Up(f, e) = {e}
<1>1. ASSUME f[e] \in Execution PROVE Up(f, e) = {e} \cup Up(f, f[e])
  <2>1. /\ Up(f, f[e]) \in SUBSET Execution /\ f[e] \in Up(f, f[e])
        /\ Closed(f, Up(f, f[e]))
    BY <1>1, UpIsLeast
  <2>2. {e} \cup Up(f, f[e]) \in SUBSET Execution /\ Closed(f, {e} \cup Up(f, f[e]))
    BY <2>1 DEF Closed
  <2>3. Up(f, e) \subseteq {e} \cup Up(f, f[e])
    BY <2>2, UpIsLeast
  <2>4. e \in Up(f, e) /\ Closed(f, Up(f, e)) /\ Up(f, e) \in SUBSET Execution
    BY UpIsLeast
  <2>5. f[e] \in Up(f, e)
    BY <1>1, <2>4, DelegationAssumption DEF Closed
  <2>6. Up(f, f[e]) \subseteq Up(f, e)
    BY <1>1, <2>4, <2>5, UpIsLeast
  <2>7. QED
    BY <2>3, <2>4, <2>6
<1>2. ASSUME f[e] = None PROVE Up(f, e) = {e}
  <2>1. {e} \in SUBSET Execution /\ Closed(f, {e})
    BY <1>2 DEF Closed
  <2>2. QED
    BY <2>1, UpIsLeast
<1>3. QED
  BY <1>1, <1>2

\* It depends on the parents of its members only.
LEMMA UpIsLocal ==
    ASSUME NEW f \in [Execution -> Execution \cup {None}],
           NEW g \in [Execution -> Execution \cup {None}], NEW e \in Execution,
           \A x \in Up(f, e) : g[x] = f[x]
    PROVE  Up(g, e) = Up(f, e)
<1>1. Up(f, e) \in SUBSET Execution /\ e \in Up(f, e) /\ Closed(f, Up(f, e))
  BY UpIsLeast
<1>2. Closed(g, Up(f, e))
  BY <1>1 DEF Closed
<1>3. Up(g, e) \subseteq Up(f, e)
  BY <1>1, <1>2, UpIsLeast
<1>4. \A x \in Up(g, e) : g[x] = f[x]
  BY <1>3
<1>5. Up(g, e) \in SUBSET Execution /\ e \in Up(g, e) /\ Closed(g, Up(g, e))
  BY UpIsLeast
<1>6. Closed(f, Up(g, e))
  BY <1>4, <1>5 DEF Closed
<1>7. Up(f, e) \subseteq Up(g, e)
  BY <1>5, <1>6, UpIsLeast
<1>8. QED
  BY <1>3, <1>7
----------------------------------------------------------------------------
\* Accounts

\* Whatever fails: a session is below one that exists, a limit is written before
\* anything is charged to it, and there is a plan for it.
Standing(d) ==
    /\ Exists(d) /\ sessions[d].parent # None =>
           LET p == sessions[d].parent IN
           Exists(p) /\ sessions[d].depth = sessions[p].depth + 1
    /\ pc[d] \in BeforeSession \cup {"limits"} => limits[d].value = 0
    /\ limits[d].value = 0 => limits[d].consumed = 0
    /\ pc[d] \in BeforeRun => plan[d] > 0

\* A limit that is exceeded has been recorded as breached, or is remembered by the
\* one charge that crossed it.
Breach(d) ==
    LET over == limits[d].consumed > limits[d].value IN
    /\ breaches[d] <= 1
    /\ breaches[d] = 1 => over
    /\ over => breaches[d] = 1 \/ \E x \in Execution : d \in crossed[x]
    /\ \A x \in Execution : d \in crossed[x] =>
           /\ breaches[d] = 0 /\ over
           /\ \A y \in Execution : d \in crossed[y] => y = x

\* The steps at which a run has reported nothing.
Unreported == BeforeRun \cup {"running", "refuse", "fail", "failClose"}

\* Without failures: a run reports before it charges, charges from its own session
\* up its chain, and remembers what it crossed only while it charges and notes.
Account(d) ==
    /\ pc[d] \in Unreported \/ path[d] = "failed" => report[d].amount = 0
    /\ pc[d] \in {"charge", "note", "close"} => Exists(d) /\ path[d] # "failed"
    /\ pc[d] \in BeforeSession \cup WhileRunning => at[d] = d
    /\ pc[d] = "charge" => at[d] \in Chain(d)
    /\ crossed[d] # {} => pc[d] \in {"charge", "note"}
    /\ Exists(d) /\ pc[d] # "limits" => limits[d].value > 0

\* The run has charged its whole chain, or never will.
Charged(d) ==
    \/ pc[d] \in {"note", "close", "done"}
    \/ path[d] = "stopped" /\ pc[d] \in {"list", "stop", "closeStopped"}

Pays(d) == report[d].amount > 0 /\ Charged(d)

\* The run of e has charged the session d above it.
Paid(e, d) ==
    /\ Exists(e) /\ d \in Chain(e) /\ report[e].amount > 0
    /\ Charged(e) \/ (pc[e] = "charge" /\ d \notin Chain(at[e]))

Payers(d) == {e \in Execution : Paid(e, d)}

\* The payers that were admitted when the limit was there.
Due(d) == {e \in Payers(d) : d \notin early[e]}

\* What is consumed of a limit is at most what its payers reported, and at least what
\* those did that were admitted when it was there.
Summed(d) ==
    /\ IsFiniteSet(Units(Payers(d))) /\ IsFiniteSet(Units(Due(d)))
    /\ Cardinality(Units(Due(d))) <= limits[d].consumed
    /\ limits[d].consumed <= Cardinality(Units(Payers(d)))

\* All above a session that had a limit when it started have one.
Limited(e) ==
    Exists(e) => \A x \in Chain(e) \ early[e] : x = e \/ limits[x].value > 0

Tree == \A d \in Execution : Standing(d)
Books == \A d \in Execution : Account(d) /\ Summed(d)

AInv ==
    /\ Tree
    /\ \A d \in Execution : Limited(d) /\ Breach(d)
    /\ Healthy => Books

\* What the invariants say of parents, with the type that chains need.
LEMMA ParentsTyped ==
    ASSUME Shape
    PROVE  /\ Parents \in [Execution -> Execution \cup {None}]
           /\ \A x \in Execution : Parents[x] = sessions[x].parent
<1>1. \A x \in Execution : sessions[x].parent \in Execution \cup {None}
  <2>1. \A x \in Execution : sessions[x] \in SessionRow
    BY DEF Shape
  <2>2. QED
    BY <2>1 DEF SessionRow
<1>2. QED
  BY <1>1 DEF Parents

\* The chain of a session holds it, and only sessions.
LEMMA ChainOfSessions ==
    ASSUME Shape, Tree, NEW e \in Execution, Exists(e)
    PROVE  /\ e \in Chain(e) /\ Chain(e) \in SUBSET Execution
           /\ \A x \in Chain(e) : Exists(x)
<1> DEFINE S == {x \in Execution : Exists(x)}
<1>1. Closed(Parents, S)
  BY ParentsTyped DEF Closed, Tree, Standing
<1>2. e \in S /\ S \in SUBSET Execution
  OBVIOUS
<1> HIDE DEF S
<1>3. /\ e \in Up(Parents, e) /\ Up(Parents, e) \in SUBSET Execution
      /\ Up(Parents, e) \subseteq S
  BY <1>1, <1>2, ParentsTyped, UpIsLeast
<1>4. QED
  BY <1>3, ChainIsUp DEF S

\* The chain of a session below another is that other's, and the session, which is
\* not part of it.
LEMMA ChainOfDelegate ==
    ASSUME Shape, Tree, NEW e \in Execution, Exists(e)
    PROVE  LET p == sessions[e].parent IN
           /\ p = None => Chain(e) = {e}
           /\ p # None => /\ p \in Execution /\ Exists(p)
                          /\ Chain(e) = {e} \cup Chain(p) /\ e \notin Chain(p)
<1>0. PICK p \in Execution \cup {None} : sessions[e].parent = p
  <2>1. sessions[e] \in SessionRow
    BY DEF Shape
  <2>2. QED
    BY <2>1 DEF SessionRow
<1>1. Parents[e] = p
  BY <1>0, ParentsTyped
<1>2. CASE p = None
  BY <1>0, <1>1, <1>2, ParentsTyped, UpFromParent, ChainIsUp
<1>3. CASE p # None
  <2>1. p \in Execution /\ Exists(p) /\ sessions[e].depth = sessions[p].depth + 1
    BY <1>0, <1>3 DEF Tree, Standing
  <2>2. Chain(e) = {e} \cup Chain(p)
    BY <1>1, <2>1, ParentsTyped, UpFromParent, ChainIsUp
  <2>3. \A x \in Execution : sessions[x].depth \in Nat
    <3>1. \A x \in Execution : sessions[x] \in SessionRow
      BY DEF Shape
    <3>2. QED
      BY <3>1 DEF SessionRow
  <2> DEFINE S == {x \in Execution : Exists(x) /\ sessions[x].depth <= sessions[p].depth}
  <2>4. Closed(Parents, S)
    <3>1. SUFFICES ASSUME NEW x \in S, sessions[x].parent # None
                   PROVE  sessions[x].parent \in S
      BY ParentsTyped DEF Closed
    <3>2. PICK q \in Execution : sessions[x].parent = q
      BY <3>1, ParentsTyped
    <3>3. Exists(q) /\ sessions[x].depth = sessions[q].depth + 1
      BY <3>1, <3>2 DEF Tree, Standing
    <3>4. QED
      BY <2>1, <2>3, <3>2, <3>3
  <2>5. p \in S /\ e \notin S /\ S \in SUBSET Execution
    BY <2>1, <2>3
  <2> HIDE DEF S
  <2>6. Up(Parents, p) \subseteq S
    BY <2>1, <2>4, <2>5, ParentsTyped, UpIsLeast
  <2>7. QED
    BY <1>0, <1>3, <2>1, <2>2, <2>5, <2>6, ChainIsUp
<1>4. QED
  BY <1>2, <1>3

\* After a step, too, chains are such sets, of the parents that there are then.
LEMMA ChainsAfter ==
    ASSUME Shape'
    PROVE  \E g \in [Execution -> Execution \cup {None}] :
               /\ \A x \in Execution : g[x] = sessions'[x].parent
               /\ \A e \in Execution : Chain(e)' = Up(g, e)
<1>1. \A x \in Execution : sessions'[x].parent \in Execution \cup {None}
  <2>1. \A x \in Execution : sessions'[x] \in SessionRow
    BY DEF Shape
  <2>2. QED
    BY <2>1 DEF SessionRow
<1> DEFINE h == [x \in Execution |-> sessions'[x].parent]
<1>2. h \in [Execution -> Execution \cup {None}]
      /\ \A x \in Execution : h[x] = sessions'[x].parent
  BY <1>1
<1> HIDE DEF h
<1>3. PICK g \in [Execution -> Execution \cup {None}] :
          \A x \in Execution : g[x] = sessions'[x].parent
  BY <1>2
<1>4. ASSUME NEW e \in Execution PROVE Chain(e)' = Up(g, e)
  <2>1. ASSUME NEW S \in SUBSET Execution
        PROVE  Closed(g, S) <=> \A m \in S : sessions'[m].parent \in S \cup {None}
    BY <1>3 DEF Closed
  <2>2. QED
    BY ONLY <2>1 DEF Chain, Up
<1>5. QED
  BY <1>3, <1>4

\* Chains of sessions stay what they are.
LEMMA ChainsStay ==
    ASSUME IInv, IInv', TInv, Tree, NEW d \in Execution, Step(d) \/ Environment(d)
    PROVE  \A e \in Execution : Exists(e) => Chain(e)' = Chain(e)
<1>1. SUFFICES ASSUME NEW e \in Execution, Exists(e) PROVE Chain(e)' = Chain(e)
  OBVIOUS
<1>2. \A x \in Execution : Exists(x) => sessions'[x].parent = sessions[x].parent
  BY SessionsStay
<1>3. PICK f \in [Execution -> Execution \cup {None}] :
          f = Parents /\ \A x \in Execution : f[x] = sessions[x].parent
  BY ParentsTyped DEF IInv
<1>4. PICK g \in [Execution -> Execution \cup {None}] :
          /\ \A x \in Execution : g[x] = sessions'[x].parent
          /\ \A x \in Execution : Chain(x)' = Up(g, x)
  BY ChainsAfter DEF IInv
<1>5. Chain(e) = Up(f, e)
  BY <1>3, ChainIsUp
<1>6. Chain(e)' = Up(g, e)
  BY <1>4
<1>7. \A x \in Up(f, e) : g[x] = f[x]
  <2>1. \A x \in Chain(e) : x \in Execution /\ Exists(x)
    BY <1>1, ChainOfSessions DEF IInv
  <2>2. QED
    BY <1>2, <1>3, <1>4, <1>5, <2>1
<1>8. QED
  BY <1>5, <1>6, <1>7, UpIsLocal

\* A handler past its start does not return to it, and a session is not taken back.
LEMMA HandlersMoveOn ==
    ASSUME IInv, NEW d \in Execution, Step(d) \/ Environment(d)
    PROVE  /\ pc[d] \notin BeforeRun => pc'[d] \notin BeforeRun
           /\ pc'[d] \in BeforeSession \cup {"limits"} => pc[d] \in BeforeSession
<1> USE DEF Goto, BeforeRun, BeforeSession
<1>0. pc \in [Execution -> StepName]
  BY DEF IInv, Shape
<1>1. CASE Register(d) \/ Admit(d) \/ CountSiblings(d) \/ CapByChain(d) \/ CheckRefuses(d)
           \/ Refused(d) \/ AddSession(d) \/ PutLimit(d) \/ Recheck(d)
  BY <1>0, <1>1 DEF Register, Admit, CountSiblings, CapByChain, CheckRefuses, Refused,
     AddSession, PutLimit, Recheck
<1>2. CASE RunnerAnswers(d) \/ RunnerThrows(d) \/ Check(d) \/ Settle(d) \/ Fail(d) \/ FailClose(d)
  BY <1>0, <1>2 DEF RunnerAnswers, RunnerThrows, Check, Settle, StoppedByParent, ToCharge,
     Fail, FailClose
<1>3. CASE ListDelegates(d) \/ StopOne(d) \/ CloseStopped(d) \/ Close(d)
  BY <1>0, <1>3 DEF ListDelegates, StopOne, CloseStopped, Close, AfterCascade, ToCharge
<1>4. CASE Charge(d) \/ NoteBreach(d)
  BY <1>0, <1>4 DEF Charge, NoteBreach, AfterCharge
<1>5. CASE CloseRefused(d) \/ CallFails(d) \/ SwallowedFailure(d)
  BY <1>0, <1>5 DEF CloseRefused, CallFails, SwallowedFailure, Throw
<1>6. QED
  BY <1>1, <1>2, <1>3, <1>4, <1>5 DEF Step, Environment, Stopping, Charging

\* A charge adds what its run reported to one limit, if there is one to charge.
LEMMA ChargeAdds ==
    ASSUME TypeOK, NEW d \in Execution, Charge(d), NEW e \in Execution, at[d] = e
    PROVE  /\ report[d].amount \in Nat
           /\ \A x \in Execution : x # e => limits'[x] = limits[x]
           /\ limits'[e].value = limits[e].value
           /\ limits[e].value = 0 => limits'[e] = limits[e]
           /\ limits[e].value # 0 =>
                  limits'[e].consumed = limits[e].consumed + report[d].amount
<1>1. report[d].amount \in Nat
  <2>1. \A x \in Amounts \cup {0} : x \in Nat
    BY DelegationAssumption
  <2>2. \A r \in [outcome: OwnOutcome \cup {"none"}, amount: Amounts \cup {0}] : r.amount \in Nat
    BY <2>1
  <2>3. QED
    BY <2>2 DEF TypeOK
<1>2. limits \in [Execution -> LimitRow]
  BY DEF TypeOK, LimitRow
<1>3. CASE limits[e].value = 0
  BY <1>1, <1>3 DEF Charge
<1>4. CASE limits[e].value # 0
  <2> DEFINE total == limits[e].consumed + report[d].amount
             late == limits[e].late \/ total > limits[e].value
             row == [limits[e] EXCEPT !.consumed = total, !.late = late]
  <2>1. limits' = [limits EXCEPT ![e].consumed = total, ![e].late = late]
    BY <1>4 DEF Charge
  <2>2. limits[e] \in LimitRow
    BY <1>2
  <2> HIDE DEF total, late
  <2>3. row.consumed = total /\ row.value = limits[e].value
    BY <2>2 DEF LimitRow
  <2>4. limits' = [limits EXCEPT ![e] = row]
    BY <1>2, <2>1
  <2> HIDE DEF row
  <2>5. limits'[e] = row /\ \A x \in Execution \ {e} : limits'[x] = limits[x]
    BY <1>2, <2>4
  <2>6. QED
    BY <1>1, <1>4, <2>3, <2>5 DEF total
<1>5. QED
  BY <1>3, <1>4

\* Who writes the limits, and how.
LEMMA LimitsMove ==
    ASSUME IInv, TypeOK, NEW d \in Execution, Step(d) \/ Environment(d)
    PROVE  \/ limits' = limits
           \/ /\ PutLimit(d) /\ limits'[d].value = plan[d] /\ limits'[d].consumed = 0
              /\ \A x \in Execution \ {d} : limits'[x] = limits[x]
           \/ Charge(d)
<1>1. limits' = limits \/ PutLimit(d) \/ Charge(d)
  BY DEF Step, Environment, Stopping, Charging, Register, Admit, CountSiblings,
     CapByChain, CheckRefuses, Refused, AddSession, Recheck, RunnerAnswers, RunnerThrows,
     Check, Settle, ListDelegates, StopOne, CloseStopped, NoteBreach, Close, Fail,
     FailClose, CloseRefused, CallFails, SwallowedFailure, Throw, rows
<1>2. ASSUME PutLimit(d)
      PROVE  /\ limits'[d].value = plan[d] /\ limits'[d].consumed = 0
             /\ \A x \in Execution \ {d} : limits'[x] = limits[x]
  BY <1>2 DEF PutLimit, TypeOK, NoRow
<1>3. QED
  BY <1>1, <1>2

\* A plan that is not empty stays one until its limit is written.
LEMMA PlansHold ==
    ASSUME IInv, TypeOK, Tree, NEW d \in Execution, Step(d) \/ Environment(d)
    PROVE  /\ pc'[d] \in BeforeRun => plan'[d] > 0
           /\ \A e \in Execution \ {d} : plan'[e] = plan[e]
<1>1. CASE CapByChain(d)
  <2> DEFINE left == Min({Budget} \cup {limits[a].value - Spent(a) :
                             a \in {b \in Chain(req[d].parent) : limits[b].value > 0}})
  <2>1. /\ plan' = [plan EXCEPT ![d] = left]
        /\ pc' = [pc EXCEPT ![d] = IF left = 0 THEN "refuse" ELSE "session"]
    BY <1>1 DEF CapByChain, Goto
  <2> HIDE DEF left
  <2>2. plan' \in [Execution -> 0..Budget] /\ Budget \in Nat
    BY <1>1, PlansStay, DelegationAssumption
  <2>3. plan'[d] = left /\ left \in 0..Budget /\ \A e \in Execution \ {d} : plan'[e] = plan[e]
    BY <2>1, <2>2 DEF TypeOK
  <2>4. left = 0 => pc'[d] = "refuse"
    BY <2>1 DEF TypeOK
  <2>5. QED
    BY <2>2, <2>3, <2>4 DEF BeforeRun
<1>2. CASE plan' = plan
  <2>1. pc'[d] \in BeforeRun => pc[d] \in BeforeRun
    BY HandlersMoveOn
  <2>2. QED
    BY <1>2, <2>1 DEF Tree, Standing
<1>3. QED
  BY <1>1, <1>2 DEF Step, Environment, Stopping, Charging, Register, Admit, CountSiblings,
     CheckRefuses, Refused, AddSession, PutLimit, Recheck, RunnerAnswers, RunnerThrows,
     Check, Settle, ListDelegates, StopOne, CloseStopped, Charge, NoteBreach, Close, Fail,
     FailClose, CloseRefused, CallFails, SwallowedFailure, Throw, local

\* A session is new only when its own handler adds it.
LEMMA WhoIsNew ==
    ASSUME IInv, TInv, NEW d \in Execution, Step(d) \/ Environment(d),
           NEW e \in Execution, Exists(e)', ~Exists(e)
    PROVE  e = d /\ AddSession(d)
<1>1. sessions' # sessions
  BY DEF Exists
<1>2. AddSession(d) \/ Settle(d) \/ StopOne(d) \/ Fail(d)
  BY <1>1, AdmissionKeeps, RunKeeps, AftermathKeeps, FailureKeeps
     DEF Step, Environment, Stopping, Charging
<1>3. ~(Settle(d) \/ StopOne(d) \/ Fail(d))
  BY WhoIsEnded, Ending DEF IInv
<1>4. e = d
  BY <1>2, <1>3 DEF AddSession, IInv, Shape, Exists
<1>5. QED
  BY <1>2, <1>3, <1>4

\* Nobody is below a session that does not exist, and no limit is charged that was
\* not written, whatever fails.
LEMMA StandingStays ==
    ASSUME IInv, IInv', TInv, Tree, NEW d \in Execution, Step(d) \/ Environment(d)
    PROVE  Tree'
<1>2. ASSUME NEW e \in Execution, NEW p \in Execution, Exists(e)', sessions'[e].parent = p
      PROVE  Exists(p)' /\ sessions'[e].depth = sessions'[p].depth + 1
  <2>1. CASE Exists(e)
    <3>1. sessions[e].parent = p /\ sessions'[e].depth = sessions[e].depth
      BY <1>2, <2>1, SessionsStay
    <3>2. p # None
      BY DelegationAssumption
    <3>3. Exists(p) /\ sessions[e].depth = sessions[p].depth + 1
      BY <2>1, <3>1, <3>2 DEF Tree, Standing
    <3>4. QED
      BY <3>1, <3>3, SessionsStay
  <2>2. CASE ~Exists(e)
    <3>1. e = d /\ AddSession(d)
      BY <1>2, <2>2, WhoIsNew
    <3>2. p # None
      BY DelegationAssumption
    <3>3. /\ pc[d] = "session" /\ req[d].parent = p
          /\ sessions'[d].depth = sessions[p].depth + 1
          /\ \A x \in Execution \ {d} : sessions'[x] = sessions[x]
      BY <1>2, <3>1, <3>2 DEF AddSession, IInv, Shape
    <3>4. Exists(p)
      BY <3>2, <3>3 DEF TInv, Remembered, Admitted
    <3>5. p # d
      BY <2>2, <3>1, <3>4
    <3>6. QED
      BY <3>1, <3>3, <3>4, <3>5 DEF Exists
  <2>3. QED
    BY <2>1, <2>2
<1>4. TypeOK
  BY DEF TInv
<1>5. ASSUME NEW e \in Execution
      PROVE  /\ pc'[e] \in BeforeSession \cup {"limits"} => limits'[e].value = 0
             /\ limits'[e].value = 0 => limits'[e].consumed = 0
  <2>1. pc'[e] \in BeforeSession \cup {"limits"} => pc[e] \in BeforeSession \cup {"limits"}
    BY OthersWait, HandlersMoveOn
  <2>2. Standing(e)
    BY DEF Tree
  <2>3. CASE limits'[e] = limits[e]
    BY <2>1, <2>2, <2>3 DEF Standing
  <2>4. CASE PutLimit(d) /\ e = d
    <3>1. limits'[d].consumed = 0 \/ limits'[d] = limits[d]
      BY <2>4, <1>4, LimitsMove, ChargeAdds DEF PutLimit, Charge
    <3>2. pc[d] = "limits"
      BY <2>4 DEF PutLimit
    <3>3. pc'[d] \notin BeforeSession \cup {"limits"}
      BY <2>4, <3>2, HandlersMoveOn DEF BeforeSession
    <3>4. QED
      BY <2>2, <2>3, <2>4, <3>1, <3>3
  <2>5. CASE Charge(d)
    <3>1. PICK c \in Execution : at[d] = c
      BY DEF IInv, Shape
    <3>2. /\ limits'[e].value = limits[e].value
          /\ limits[e].value = 0 => limits'[e] = limits[e]
      BY <1>4, <2>5, <3>1, ChargeAdds
    <3>3. QED
      BY <2>1, <2>2, <3>2 DEF Standing
  <2>6. QED
    BY <1>4, <2>3, <2>4, <2>5, LimitsMove
<1>6. ASSUME NEW e \in Execution, pc'[e] \in BeforeRun
      PROVE  plan'[e] > 0
  <2>1. CASE e = d
    BY <1>4, <1>6, <2>1, PlansHold
  <2>2. CASE e # d
    <3>1. pc'[e] = pc[e] /\ plan'[e] = plan[e]
      BY <1>4, <2>2, OthersWait, PlansHold
    <3>2. QED
      BY <1>6, <3>1 DEF Tree, Standing
  <2>3. QED
    BY <2>1, <2>2
<1>7. \A e \in Execution : sessions'[e].parent \in Execution \cup {None}
  <2>1. \A x \in Execution : sessions'[x] \in SessionRow
    BY DEF IInv, Shape
  <2>2. QED
    BY <2>1 DEF SessionRow
<1>8. ASSUME NEW e \in Execution PROVE Standing(e)'
  BY <1>2, <1>5, <1>6, <1>7 DEF Standing
<1>9. QED
  BY <1>8 DEF Tree


\* Crossing a limit is remembered by the charge that did, until it is noted.
LEMMA BreachStays ==
    ASSUME IInv, TInv, Tree, \A e \in Execution : Breach(e),
           NEW d \in Execution, Step(d) \/ Environment(d), NEW e \in Execution
    PROVE  Breach(e)'
<1>0. /\ crossed \in [Execution -> SUBSET Execution] /\ breaches \in [Execution -> Nat]
      /\ Breach(e) /\ TypeOK
  BY DEF TInv, TypeOK
<1>1. limits[e].consumed \in Nat /\ limits[e].value \in Nat
  <2>1. Budget \in Nat /\ limits[e] \in LimitRow
    BY DelegationAssumption DEF TInv, TypeOK, LimitRow
  <2>2. QED
    BY <2>1 DEF LimitRow
<1>2. ASSUME /\ limits'[e].value = limits[e].value /\ limits'[e].consumed = limits[e].consumed
             /\ breaches'[e] = breaches[e]
             /\ \A x \in Execution : e \in crossed'[x] <=> e \in crossed[x]
      PROVE  Breach(e)'
  BY <1>0, <1>2 DEF Breach
<1>3. CASE breaches' = breaches /\ crossed' = crossed /\ limits'[e] = limits[e]
  BY <1>2, <1>3
<1>4. CASE PutLimit(d) /\ e = d
  <2>1. pc[d] = "limits" /\ breaches' = breaches /\ crossed' = crossed
    BY <1>4 DEF PutLimit, local
  <2>2. limits[d].consumed = 0
    BY <2>1 DEF Tree, Standing
  <2>3. \/ limits'[d] = limits[d]
        \/ limits'[d].consumed = 0 /\ limits'[d].value = plan[d] /\ plan[d] \in Nat
    <3>1. Budget \in Nat /\ plan[d] \in Nat
      BY DelegationAssumption DEF TInv, TypeOK
    <3>2. QED
      BY <1>0, <1>4, <2>1, <3>1, LimitsMove DEF Charge
  <2>4. ~(limits[e].consumed > limits[e].value)
    BY <1>1, <1>4, <2>2
  <2>5. breaches[e] = 0 /\ \A x \in Execution : e \notin crossed[x]
    BY <1>0, <2>4 DEF Breach
  <2>6. ~(limits'[e].consumed > limits'[e].value)
    BY <1>4, <2>3, <2>4
  <2>7. QED
    BY <2>1, <2>5, <2>6 DEF Breach
<1>5. CASE NoteBreach(d)
  <2>1. PICK c \in crossed[d] : /\ breaches' = [breaches EXCEPT ![c] = breaches[c] + 1]
                                /\ crossed' = [crossed EXCEPT ![d] = crossed[d] \ {c}]
    BY <1>5 DEF NoteBreach
  <2>2. /\ limits' = limits /\ c \in Execution
        /\ crossed'[d] = crossed[d] \ {c}
        /\ \A x \in Execution \ {d} : crossed'[x] = crossed[x]
        /\ breaches'[c] = breaches[c] + 1 /\ (e # c => breaches'[e] = breaches[e])
    BY <1>0, <1>5, <2>1 DEF NoteBreach
  <2>3. CASE e # c
    <3>1. \A x \in Execution : e \in crossed'[x] <=> e \in crossed[x]
      BY <2>2, <2>3
    <3>2. QED
      BY <1>2, <2>2, <2>3, <3>1
  <2>4. CASE e = c
    <3>1. /\ breaches[e] = 0 /\ limits[e].consumed > limits[e].value
          /\ \A x \in Execution : e \in crossed[x] => x = d
      BY <1>0, <2>1, <2>4 DEF Breach
    <3>2. breaches'[e] = 1 /\ \A x \in Execution : e \notin crossed'[x]
      BY <2>2, <2>4, <3>1
    <3>3. QED
      BY <2>2, <3>1, <3>2 DEF Breach
  <2>5. QED
    BY <2>3, <2>4
<1>6. CASE Charge(d)
  <2>1. PICK c \in Execution : at[d] = c
    BY DEF IInv, Shape
  <2> DEFINE total == limits[c].consumed + report[d].amount
             new == {x \in {c} : limits[c].value > 0 /\ Crosses(limits[c], total)}
  <2>2. breaches' = breaches /\ crossed' = [crossed EXCEPT ![d] = crossed[d] \cup new]
    BY <1>6, <2>1 DEF Charge
  <2>3. /\ report[d].amount \in Nat
        /\ \A x \in Execution : x # c => limits'[x] = limits[x]
        /\ limits'[c].value = limits[c].value
        /\ limits[c].value = 0 => limits'[c] = limits[c]
        /\ limits[c].value # 0 => limits'[c].consumed = total
    BY <1>0, <1>6, <2>1, ChargeAdds
  <2>4. /\ \A x \in Execution \ {d} : crossed'[x] = crossed[x]
        /\ crossed'[d] = crossed[d] \cup new
    BY <1>0, <2>2
  <2>5. /\ \A x \in Execution : x \in new => x = c
        /\ c \in new <=> /\ limits[c].value > 0
                         /\ limits[c].consumed <= limits[c].value /\ limits[c].value < total
    BY DEF Crosses
  <2> HIDE DEF new
  <2>6. CASE e \notin new
    <3>1. \A x \in Execution : e \in crossed'[x] <=> e \in crossed[x]
      BY <2>4, <2>6
    <3>2. CASE limits'[e] = limits[e]
      BY <1>2, <2>2, <3>1, <3>2
    <3>3. CASE e = c /\ limits[c].value # 0
      <4>1. limits'[e].value = limits[e].value /\ limits'[e].consumed \in Nat
            /\ (limits'[e].consumed > limits'[e].value <=> limits[e].consumed > limits[e].value)
        BY <1>1, <2>3, <2>5, <2>6, <3>3
      <4>2. QED
        BY <1>0, <2>2, <3>1, <4>1 DEF Breach
    <3>4. QED
      BY <2>3, <3>2, <3>3
  <2>7. CASE e \in new
    <3>1. /\ e = c /\ ~(limits[e].consumed > limits[e].value)
          /\ limits'[e].consumed > limits'[e].value
      BY <1>1, <2>3, <2>5, <2>7
    <3>2. breaches[e] = 0 /\ \A x \in Execution : e \notin crossed[x]
      BY <1>0, <3>1 DEF Breach
    <3>3. e \in crossed'[d] /\ \A x \in Execution : e \in crossed'[x] => x = d
      BY <2>4, <2>7, <3>2
    <3>4. QED
      BY <2>2, <3>1, <3>2, <3>3 DEF Breach
  <2>8. QED
    BY <2>6, <2>7
<1>7. (breaches' = breaches /\ crossed' = crossed) \/ Charge(d) \/ NoteBreach(d)
  BY DEF Step, Environment, Stopping, Charging, Register, Admit, CountSiblings,
     CapByChain, CheckRefuses, Refused, AddSession, PutLimit, Recheck, RunnerAnswers,
     RunnerThrows, Check, Settle, ListDelegates, StopOne, CloseStopped, Close, Fail,
     FailClose, CloseRefused, CallFails, SwallowedFailure, Throw, rows, local
<1>8. limits'[e] = limits[e] \/ (PutLimit(d) /\ e = d) \/ Charge(d)
  BY <1>0, LimitsMove
<1>9. QED
  BY <1>3, <1>4, <1>5, <1>6, <1>7, <1>8


\* What a handler's own step, other than a charge, makes of its account: a run that
\* comes to charge starts with its own session, and what it has paid stays paid.
LEMMA AccountMoves ==
    ASSUME IInv, TInv, EInv, NEW d \in Execution, Works(d), ~Charge(d), Account(d)
    PROVE  /\ pc'[d] \in Unreported \/ path'[d] = "failed" => report'[d].amount = 0
           /\ pc'[d] \in {"charge", "note", "close"} => Exists(d) /\ path'[d] # "failed"
           /\ pc'[d] \in BeforeSession \cup WhileRunning \cup {"charge"} => at'[d] = d
           /\ crossed'[d] # {} => pc'[d] \in {"charge", "note"}
           /\ Pays(d)' <=> Pays(d)
           /\ Pays(d) => report'[d] = report[d]
           /\ pc[d] = "charge" => FALSE
<1> USE DEF Goto
<1>0. /\ pc \in [Execution -> StepName] /\ at \in [Execution -> Execution]
      /\ path \in [Execution -> {"normal", "stopped", "failed"}]
      /\ crossed \in [Execution -> SUBSET Execution]
      /\ report \in [Execution -> [outcome: OwnOutcome \cup {"none"}, amount: Amounts \cup {0}]]
      /\ Ends(d)
  BY DEF TInv, TypeOK, EInv
<1>1. CASE \/ Register(d) \/ Admit(d) \/ CountSiblings(d) \/ CapByChain(d)
           \/ CheckRefuses(d) \/ Refused(d) \/ AddSession(d) \/ PutLimit(d) \/ Recheck(d)
           \/ RunnerThrows(d)
  <2>1. /\ pc[d] \in Unreported /\ report' = report /\ crossed' = crossed /\ at' = at
        /\ pc[d] \in BeforeSession \cup {"limits", "recheck", "running"}
        /\ pc'[d] \notin {"charge", "note", "close"}
    BY <1>0, <1>1 DEF Register, Admit, CountSiblings, CapByChain, CheckRefuses, Refused,
       AddSession, PutLimit, Recheck, RunnerThrows, local, Unreported, BeforeRun, BeforeSession
  <2>2. report[d].amount = 0 /\ at[d] = d /\ crossed[d] = {}
    BY <2>1 DEF Account, WhileRunning, BeforeSession
  <2>3. QED
    BY <2>1, <2>2 DEF Pays, Unreported, BeforeRun
<1>2. CASE Fail(d) \/ FailClose(d)
  <2>1. /\ pc[d] \in {"fail", "failClose"} /\ pc'[d] \in {"list", "failClose"}
        /\ report' = report /\ crossed' = crossed
    BY <1>0, <1>2 DEF Fail, FailClose, local
  <2>2. report[d].amount = 0 /\ crossed[d] = {}
    BY <2>1 DEF Account, Unreported
  <2>3. QED
    BY <2>1, <2>2 DEF Pays, Unreported, BeforeSession, WhileRunning
<1>3. CASE RunnerAnswers(d)
  <2>1. /\ pc[d] = "running" /\ pc'[d] = "check" /\ path' = path /\ crossed' = crossed /\ at' = at
    BY <1>0, <1>3 DEF RunnerAnswers
  <2>2. path[d] = "normal" /\ at[d] = d /\ crossed[d] = {}
    BY <1>0, <2>1 DEF Account, Ends, WhileRunning
  <2>3. QED
    BY <2>1, <2>2 DEF Pays, Charged, Unreported, BeforeRun
<1>4. CASE Check(d) \/ Settle(d)
  <2>1. /\ pc[d] \in {"check", "settle"} /\ report' = report /\ crossed' = crossed /\ at' = at
        /\ \/ pc'[d] \in {"settle", "list"} /\ path' = path
           \/ /\ path'[d] = "stopped"
              /\ pc'[d] = IF report[d].amount = 0 THEN "list" ELSE "charge"
    BY <1>0, <1>4 DEF Check, Settle, StoppedByParent, ToCharge
  <2>2. Exists(d) /\ path[d] = "normal" /\ at[d] = d /\ crossed[d] = {}
    BY <1>0, <2>1 DEF Account, Ends, WhileRunning
  <2>3. QED
    BY <2>1, <2>2 DEF Pays, Charged, Unreported, BeforeRun
<1>5. CASE ListDelegates(d)
  <2>1. /\ pc[d] = "list" /\ report' = report /\ path' = path /\ crossed' = crossed
        /\ \/ pc'[d] = "stop"
           \/ /\ at'[d] = d
              /\ pc'[d] = IF path[d] = "normal"
                          THEN IF report[d].amount = 0 THEN "close" ELSE "charge" ELSE "done"
    BY <1>0, <1>5 DEF ListDelegates, AfterCascade, ToCharge
  <2>2. path[d] = "normal" => Exists(d)
    BY <1>0, <2>1, Words, RowsAreSessions DEF Ends, Past, TInv, TypeOK, SessionTable
  <2>3. crossed[d] = {} /\ (path[d] = "failed" => report[d].amount = 0)
    BY <2>1 DEF Account
  <2>4. path[d] \in {"normal", "stopped", "failed"} /\ \A n \in {report[d].amount} : n = 0 => ~(n > 0)
    BY <1>0
  <2>5. QED
    BY <2>1, <2>2, <2>3, <2>4
       DEF Pays, Charged, Unreported, BeforeRun, BeforeSession, WhileRunning
<1>6. CASE StopOne(d) \/ CloseStopped(d)
  <2>1. /\ pc[d] \in {"stop", "closeStopped"} /\ pc'[d] \in {"list", "closeStopped"}
        /\ report' = report /\ path' = path /\ crossed' = crossed
    BY <1>0, <1>6 DEF StopOne, CloseStopped, local
  <2>2. crossed[d] = {} /\ (path[d] = "failed" => report[d].amount = 0)
    BY <2>1 DEF Account
  <2>3. QED
    BY <2>1, <2>2 DEF Pays, Charged, Unreported, BeforeRun, BeforeSession, WhileRunning
<1>7. CASE NoteBreach(d)
  <2>1. /\ pc[d] = "note" /\ report' = report /\ path' = path
        /\ \/ pc'[d] = "note"
           \/ crossed'[d] = {} /\ pc'[d] = IF path[d] = "normal" THEN "close" ELSE "list"
    BY <1>0, <1>7 DEF NoteBreach, AfterCharge
  <2>2. Exists(d) /\ path[d] \in {"normal", "stopped"}
    BY <1>0, <2>1 DEF Account
  <2>3. QED
    BY <2>1, <2>2 DEF Pays, Charged, Unreported, BeforeRun, BeforeSession, WhileRunning
<1>8. CASE Close(d)
  <2>1. /\ pc[d] = "close" /\ pc'[d] = "done" /\ report' = report /\ path' = path
        /\ crossed' = crossed
    BY <1>0, <1>8 DEF Close, local
  <2>2. crossed[d] = {} /\ path[d] # "failed"
    BY <2>1 DEF Account
  <2>3. QED
    BY <2>1, <2>2 DEF Pays, Charged, Unreported, BeforeRun, BeforeSession, WhileRunning
<1>9. QED
  BY <1>1, <1>2, <1>3, <1>4, <1>5, <1>6, <1>7, <1>8
     DEF Works, Step, Environment, Stopping, Charging


\* A charge goes up one session from one of the chain, and finds a limit at its own.
LEMMA ChargeMoves ==
    ASSUME IInv, TInv, Tree, \A x \in Execution : Account(x), NEW d \in Execution, Charge(d),
           NEW c \in Execution, at[d] = c
    PROVE  LET p == sessions[c].parent IN
           /\ pc[d] = "charge" /\ Exists(d) /\ c \in Chain(d) /\ Exists(c)
           /\ c = d => limits[c].value > 0
           /\ sessions' = sessions /\ report' = report /\ path' = path
           /\ path[d] \in {"normal", "stopped"}
           /\ p # None => pc'[d] = "charge" /\ at'[d] = p /\ p \in Chain(d)
           /\ p = None =>
                  \/ pc'[d] = "note"
                  \/ crossed'[d] = {} /\ pc'[d] = IF path[d] = "normal" THEN "close" ELSE "list"
<1>0. /\ pc \in [Execution -> StepName] /\ at \in [Execution -> Execution]
      /\ path \in [Execution -> {"normal", "stopped", "failed"}]
      /\ crossed \in [Execution -> SUBSET Execution]
  BY DEF TInv, TypeOK
<1>1. /\ pc[d] = "charge" /\ sessions' = sessions /\ report' = report /\ path' = path
  BY DEF Charge
<1>2. Exists(d) /\ c \in Chain(d) /\ path[d] \in {"normal", "stopped"}
  BY <1>0, <1>1 DEF Account
<1>3. Exists(c)
  BY <1>2, ChainOfSessions DEF IInv
<1>5. c = d => limits[c].value > 0
  BY <1>1, <1>3 DEF Account
<1>6. PICK p \in Execution \cup {None} : p = sessions[c].parent
  BY ParentsTyped DEF IInv
<1>7. CASE p # None
  <2>1. pc'[d] = "charge" /\ at'[d] = p
    BY <1>0, <1>6, <1>7 DEF Charge, Goto
  <2>2. Closed(Parents, Chain(d))
    BY ParentsTyped, UpIsLeast, ChainIsUp DEF IInv
  <2>3. p \in Chain(d)
    BY <1>2, <1>6, <1>7, <2>2, ParentsTyped DEF Closed, IInv
  <2>4. QED
    BY <1>1, <1>2, <1>3, <1>5, <1>6, <1>7, <2>1, <2>3
<1>8. CASE p = None
  <2> DEFINE total == limits[c].consumed + report[d].amount
             found == crossed[d] \cup {x \in {c} : limits[c].value > 0 /\ Crosses(limits[c], total)}
  <2>0. crossed' = [crossed EXCEPT ![d] = found]
        /\ pc' = [pc EXCEPT ![d] = IF found # {} THEN "note" ELSE AfterCharge(d)]
    BY <1>6, <1>8 DEF Charge, Goto
  <2> HIDE DEF found
  <2>1. \/ pc'[d] = "note"
        \/ crossed'[d] = {} /\ pc'[d] = IF path[d] = "normal" THEN "close" ELSE "list"
    <3>1. crossed'[d] = found
      BY <1>0, <2>0
    <3>2. pc'[d] = IF found # {} THEN "note" ELSE AfterCharge(d)
      BY <1>0, <2>0
    <3>3. QED
      BY <3>1, <3>2 DEF AfterCharge
  <2>2. QED
    BY <1>1, <1>2, <1>3, <1>5, <1>6, <1>8, <2>1
<1>9. QED
  BY <1>7, <1>8

\* A session that is past its start has a limit.
LEMMA LimitedStays ==
    ASSUME IInv, TInv, Tree, \A x \in Execution : Account(x), NEW d \in Execution, Works(d),
           NEW e \in Execution, Exists(e)', pc'[e] # "limits"
    PROVE  limits'[e].value > 0
<1>0. TypeOK /\ (Step(d) \/ Environment(d)) /\ pc \in [Execution -> StepName]
  BY DEF TInv, TypeOK, Works
<1>1. CASE e = d /\ pc[d] = "limits"
  <2>1. PutLimit(d)
    BY <1>1 DEF Works, Step, Environment, Stopping, Charging, Register, Admit, CountSiblings,
       CapByChain, CheckRefuses, Refused, AddSession, Recheck, RunnerAnswers, RunnerThrows,
       Check, Settle, ListDelegates, StopOne, CloseStopped, Charge, NoteBreach, Close, Fail,
       FailClose
  <2>2. limits'[d].value = plan[d]
    BY <1>0, <2>1 DEF PutLimit, TypeOK, NoRow
  <2>3. QED
    BY <1>1, <2>2 DEF Tree, Standing, BeforeRun
<1>2. CASE ~(e = d /\ pc[d] = "limits")
  <2>1. Exists(e)
    <3>1. CASE e = d /\ AddSession(d)
      <4>1. pc'[d] = "limits"
        BY <1>0, <3>1 DEF AddSession, Goto
      <4>2. QED
        BY <3>1, <4>1
    <3>2. QED
      BY <1>0, <3>1, WhoIsNew
  <2>2. pc[e] # "limits"
    BY <1>0, <1>2, OthersWait
  <2>3. limits[e].value > 0
    BY <2>1, <2>2 DEF Account
  <2>4. limits'[e].value = limits[e].value
    <3>1. PICK c \in Execution : at[d] = c
      BY <1>0 DEF TypeOK
    <3>2. ~(PutLimit(d) /\ e = d)
      BY <2>2 DEF PutLimit
    <3>3. QED
      BY <1>0, <3>1, <3>2, LimitsMove, ChargeAdds
  <2>5. QED
    BY <2>3, <2>4
<1>3. QED
  BY <1>1, <1>2

\* As long as nothing fails, accounts are kept.
LEMMA AccountStays ==
    ASSUME IInv, IInv', TInv, Tree, EInv, \A x \in Execution : Account(x),
           NEW d \in Execution, Works(d), NEW e \in Execution
    PROVE  Account(e)'
<1>0. TypeOK /\ (Step(d) \/ Environment(d))
  BY DEF TInv, Works
<1>1. Exists(e)' /\ pc'[e] # "limits" => limits'[e].value > 0
  BY LimitedStays
<1>2. CASE e # d
  <2>1. /\ pc'[e] = pc[e] /\ report'[e] = report[e] /\ path'[e] = path[e] /\ at'[e] = at[e]
    BY <1>0, <1>2, OthersWait
  <2>2. crossed'[e] = crossed[e]
    <3>1. crossed' = crossed \/ Charge(d) \/ NoteBreach(d)
      BY <1>0 DEF Step, Environment, Stopping, Charging, Register, Admit, CountSiblings,
         CapByChain, CheckRefuses, Refused, AddSession, PutLimit, Recheck, RunnerAnswers,
         RunnerThrows, Check, Settle, ListDelegates, StopOne, CloseStopped, Close, Fail,
         FailClose, CloseRefused, CallFails, SwallowedFailure, Throw, local
    <3>2. crossed \in [Execution -> SUBSET Execution]
      BY <1>0 DEF TypeOK
    <3>3. QED
      BY <1>2, <3>1, <3>2 DEF Charge, NoteBreach
  <2>3. Exists(e) => Exists(e)' /\ Chain(e)' = Chain(e)
    BY <1>0, ChainsStay, SessionsStay
  <2>4. Account(e)
    OBVIOUS
  <2>5. pc'[e] = "charge" => at'[e] \in Chain(e)'
    BY <2>1, <2>3, <2>4 DEF Account
  <2>6. QED
    BY <1>1, <2>1, <2>2, <2>3, <2>4, <2>5 DEF Account
<1>3. CASE e = d /\ ~Charge(d)
  <2>1. Account(d)
    OBVIOUS
  <2>2. /\ pc'[d] \in Unreported \/ path'[d] = "failed" => report'[d].amount = 0
        /\ pc'[d] \in {"charge", "note", "close"} => Exists(d) /\ path'[d] # "failed"
        /\ pc'[d] \in BeforeSession \cup WhileRunning \cup {"charge"} => at'[d] = d
        /\ crossed'[d] # {} => pc'[d] \in {"charge", "note"}
    BY <1>3, <2>1, AccountMoves
  <2>3. Exists(d) => Exists(d)' /\ Chain(d)' = Chain(d) /\ d \in Chain(d)
    BY <1>0, ChainsStay, SessionsStay, ChainOfSessions DEF IInv
  <2>4. pc'[d] = "charge" => at'[d] \in Chain(d)'
    BY <2>2, <2>3
  <2>5. QED
    BY <1>1, <1>3, <2>2, <2>3, <2>4 DEF Account
<1>4. CASE e = d /\ Charge(d)
  <2>1. PICK c \in Execution : at[d] = c
    BY <1>0 DEF TypeOK
  <2>2. /\ Exists(d) /\ sessions' = sessions /\ path'[d] \in {"normal", "stopped"}
        /\ \/ pc'[d] = "charge" /\ at'[d] \in Chain(d)
           \/ pc'[d] = "note"
           \/ crossed'[d] = {} /\ pc'[d] \in {"close", "list"}
    BY <1>4, <2>1, ChargeMoves
  <2>3. Exists(d)' /\ Chain(d)' = Chain(d)
    BY <1>0, <2>2, ChainsStay, SessionsStay
  <2>4. /\ pc'[d] = "charge" => at'[d] \in Chain(d)'
        /\ crossed'[d] # {} => pc'[d] \in {"charge", "note"}
        /\ pc'[d] \in {"charge", "note", "close", "list"}
    BY <2>2, <2>3
  <2>5. pc'[d] \notin Unreported /\ pc'[d] \notin BeforeSession \cup WhileRunning
    BY <2>4 DEF Unreported, BeforeRun, BeforeSession, WhileRunning
  <2>6. QED
    BY <1>1, <1>4, <2>2, <2>3, <2>4, <2>5 DEF Account
<1>5. QED
  BY <1>2, <1>3, <1>4


\* What others have paid stays so.
LEMMA PaidElsewhere ==
    ASSUME IInv, IInv', TInv, Tree, \A x \in Execution : Account(x),
           NEW d \in Execution, Step(d) \/ Environment(d), NEW e \in Execution \ {d},
           NEW x \in Execution
    PROVE  (Paid(e, x)' <=> Paid(e, x)) /\ report'[e] = report[e]
<1>1. /\ pc'[e] = pc[e] /\ report'[e] = report[e] /\ path'[e] = path[e] /\ at'[e] = at[e]
  BY OthersWait
<1>2. Exists(e)' <=> Exists(e)
  BY WhoIsNew, SessionsStay
<1>3. Exists(e) => Chain(e)' = Chain(e)
  BY ChainsStay
<1>4. ASSUME Exists(e), pc[e] = "charge" PROVE Chain(at[e])' = Chain(at[e])
  <2>1. at[e] \in Chain(e)
    BY <1>4 DEF Account
  <2>2. PICK c \in Execution : at[e] = c /\ Exists(c)
    BY <1>4, <2>1, ChainOfSessions DEF IInv
  <2>3. Chain(c)' = Chain(c) /\ at'[e] = c
    BY <1>1, <2>2, ChainsStay
  <2>4. Chain(at[e])' = Chain(c)'
    BY <2>3
  <2>5. QED
    BY <2>2, <2>3, <2>4
<1>5. Charged(e)' <=> Charged(e)
  BY <1>1 DEF Charged
<1>6. QED
  BY <1>1, <1>2, <1>3, <1>4, <1>5 DEF Paid

\* A step that is no charge pays nothing.
LEMMA PaidHere ==
    ASSUME IInv, IInv', TInv, Tree, EInv, \A x \in Execution : Account(x),
           NEW d \in Execution, Works(d), ~Charge(d), NEW x \in Execution
    PROVE  (Paid(d, x)' <=> Paid(d, x)) /\ (Paid(d, x) => report'[d] = report[d])
<1>1. Account(d) /\ (Step(d) \/ Environment(d))
  BY DEF Works
<1>2. /\ pc[d] # "charge" /\ (pc'[d] = "charge" => Exists(d) /\ at'[d] = d)
      /\ (Pays(d)' <=> Pays(d)) /\ (Pays(d) => report'[d] = report[d])
  BY <1>1, AccountMoves
<1>3. Exists(d) => Exists(d)' /\ Chain(d)' = Chain(d)
  BY <1>1, ChainsStay, SessionsStay
<1>4. Pays(d) /\ Exists(d)' => Exists(d)
  <2>1. SUFFICES ASSUME Pays(d), AddSession(d) PROVE FALSE
    BY <1>1, WhoIsNew
  <2>2. pc[d] = "session"
    BY <2>1 DEF AddSession
  <2>3. report[d].amount = 0
    BY <1>1, <2>2 DEF Account, Unreported, BeforeRun
  <2>4. QED
    BY <2>1, <2>3 DEF Pays
<1>5. ASSUME Paid(d, x)' PROVE Pays(d)'
  <2>1. SUFFICES ASSUME pc'[d] = "charge", x \in Chain(d)', x \notin Chain(at[d])'
                 PROVE  FALSE
    BY <1>5 DEF Paid, Pays
  <2>2. at'[d] = d
    BY <1>2, <2>1
  <2>3. Chain(at[d])' = Chain(d)'
    BY <2>2
  <2>4. QED
    BY <2>1, <2>3
<1>6. Paid(d, x) => Pays(d)
  BY <1>2 DEF Paid, Pays
<1>7. ASSUME Pays(d), Exists(d) PROVE Paid(d, x)' <=> Paid(d, x)
  BY <1>2, <1>3, <1>7 DEF Pays, Paid
<1>8. QED
  <2>1. CASE Pays(d) /\ Exists(d)
    BY <1>2, <1>7, <2>1
  <2>2. CASE Pays(d) /\ ~Exists(d)
    BY <1>4, <2>2 DEF Paid
  <2>3. CASE ~Pays(d)
    BY <1>2, <1>5, <1>6, <2>3
  <2>4. QED
    BY <2>1, <2>2, <2>3

\* A charge pays the session it is at, which is not yet paid.
LEMMA PaidByCharge ==
    ASSUME IInv, IInv', TInv, Tree, \A x \in Execution : Account(x),
           NEW d \in Execution, Charge(d), NEW c \in Execution, at[d] = c,
           NEW x \in Execution, report[d].amount > 0
    PROVE  /\ ~Paid(d, c) /\ report'[d] = report[d]
           /\ Paid(d, x)' <=> Paid(d, x) \/ x = c
<1>0. Step(d) \/ Environment(d)
  BY DEF Step, Charging
<1>1. PICK p \in Execution \cup {None} : p = sessions[c].parent
  BY ParentsTyped DEF IInv
<1>2. /\ pc[d] = "charge" /\ Exists(d) /\ c \in Chain(d) /\ Exists(c)
      /\ sessions' = sessions /\ report' = report /\ path' = path
      /\ path[d] \in {"normal", "stopped"}
      /\ p # None => pc'[d] = "charge" /\ at'[d] = p
      /\ p = None => /\ pc'[d] \in {"note", "close", "list"}
                     /\ pc'[d] = "list" => path[d] = "stopped"
  BY <1>1, ChargeMoves
<1>3. /\ p = None => Chain(c) = {c}
      /\ p # None => p \in Execution /\ Exists(p) /\ Chain(c) = {c} \cup Chain(p) /\ c \notin Chain(p)
  BY <1>1, <1>2, ChainOfDelegate DEF IInv
<1>4. Exists(d)' /\ Chain(d)' = Chain(d)
  BY <1>0, <1>2, ChainsStay, SessionsStay
<1>5. ~Charged(d)
  BY <1>2 DEF Charged
<1>6. Chain(at[d]) = Chain(c)
  OBVIOUS
<1>7. Paid(d, x) <=> x \in Chain(d) /\ x \notin Chain(c)
  BY <1>2, <1>5, <1>6 DEF Paid
<1>8. ~Paid(d, c)
  BY <1>2, <1>3, <1>5, <1>6 DEF Paid
<1>9. CASE p = None
  <2>1. Charged(d)'
    BY <1>2, <1>9 DEF Charged
  <2>2. Paid(d, x)' <=> x \in Chain(d)
    BY <1>2, <1>4, <2>1 DEF Paid
  <2>3. QED
    BY <1>2, <1>3, <1>7, <1>8, <1>9, <2>2
<1>10. CASE p # None
  <2>1. ~Charged(d)' /\ pc'[d] = "charge" /\ at'[d] = p
    BY <1>2, <1>10 DEF Charged
  <2>2. Chain(at[d])' = Chain(p)
    <3>1. Chain(p)' = Chain(p)
      BY <1>0, <1>3, <1>10, ChainsStay
    <3>2. Chain(at[d])' = Chain(p)'
      BY <2>1
    <3>3. QED
      BY <3>1, <3>2
  <2>3. Paid(d, x)' <=> x \in Chain(d) /\ x \notin Chain(p)
    BY <1>2, <1>4, <2>1, <2>2 DEF Paid
  <2>4. QED
    BY <1>2, <1>3, <1>7, <1>8, <1>10, <2>3
<1>11. QED
  BY <1>9, <1>10


\* One more run adds the units it reported.
LEMMA UnitsAdd ==
    ASSUME NEW S, IsFiniteSet(Units(S)), NEW d, d \notin S, NEW n \in Nat, report[d].amount = n
    PROVE  /\ IsFiniteSet(Units(S \cup {d}))
           /\ Cardinality(Units(S \cup {d})) = Cardinality(Units(S)) + n
<1> DEFINE own == {d} \X (1..n)
<1>1. IsFiniteSet(1..n) /\ Cardinality(1..n) = n
  BY FS_Interval
<1>2. IsFiniteSet({d}) /\ Cardinality({d}) = 1
  BY FS_Singleton
<1>3. IsFiniteSet(own) /\ Cardinality(own) = n
  <2>1. \A A, B : IsFiniteSet(A) /\ IsFiniteSet(B) =>
            IsFiniteSet(A \X B) /\ Cardinality(A \X B) = Cardinality(A) * Cardinality(B)
    BY FS_Product
  <2>2. IsFiniteSet(own) /\ Cardinality(own) = Cardinality({d}) * Cardinality(1..n)
    BY <1>1, <1>2, <2>1, Zenon
  <2> HIDE DEF own
  <2>3. QED
    BY <1>1, <1>2, <2>2
<1>4. Units(S \cup {d}) = Units(S) \cup own
  BY DEF Units
<1>5. Units(S) \cap own = {}
  BY DEF Units
<1> HIDE DEF own
<1>6. Cardinality(Units(S)) \in Nat
  BY FS_CardinalityType
<1>7. Cardinality({}) = 0
  BY FS_EmptySet
<1>8. /\ IsFiniteSet(Units(S) \cup own)
      /\ Cardinality(Units(S) \cup own)
             = Cardinality(Units(S)) + Cardinality(own) - Cardinality(Units(S) \cap own)
  BY <1>3, FS_Union
<1>9. QED
  <2> DEFINE a == Cardinality(Units(S))
             b == Cardinality(own)
             z == Cardinality(Units(S) \cap own)
  <2>1. z = 0 /\ b = n /\ a \in Nat
    BY <1>3, <1>5, <1>6, <1>7
  <2>2. Cardinality(Units(S \cup {d})) = a + b - z
    BY <1>4, <1>8, Zenon
  <2>3. a + b - z = a + n
    <3> HIDE DEF a, b, z
    <3>1. QED
      BY <2>1
  <2>4. QED
    BY <1>4, <1>8, <2>2, <2>3, Zenon

\* Runs that reported the same have the same units.
LEMMA UnitsStay ==
    ASSUME NEW S, \A e \in S : report'[e] = report[e]
    PROVE  Units(S)' = Units(S)
BY DEF Units

\* A limit that has been put does not vanish.
LEMMA LimitsRemain ==
    ASSUME IInv, TInv, Tree, NEW d \in Execution, Step(d) \/ Environment(d),
           NEW x \in Execution, limits[x].value > 0
    PROVE  limits'[x].value > 0
<1>0. TypeOK
  BY DEF TInv
<1>1. CASE limits' = limits
  BY <1>1
<1>2. CASE PutLimit(d) /\ limits'[d].value = plan[d] /\ \A y \in Execution \ {d} : limits'[y] = limits[y]
  <2>1. pc[d] \in BeforeRun
    BY <1>2 DEF PutLimit, BeforeRun
  <2>2. plan[d] > 0
    BY <2>1 DEF Tree, Standing
  <2>3. QED
    BY <1>2, <2>2
<1>3. CASE Charge(d)
  <2>1. PICK c \in Execution : at[d] = c
    BY <1>0 DEF TypeOK
  <2>2. QED
    BY <1>0, <1>3, <2>1, ChargeAdds
<1>4. QED
  BY <1>0, <1>1, <1>2, <1>3, LimitsMove

\* What a session noted when it started stays as it is.
LEMMA EarlyHolds ==
    ASSUME IInv, TypeOK, NEW d \in Execution, Step(d) \/ Environment(d),
           NEW e \in Execution, Exists(e)
    PROVE  early'[e] = early[e]
<1>1. CASE early' = early
  BY <1>1
<1>2. CASE AddSession(d) /\ \E S \in SUBSET Execution : early' = [early EXCEPT ![d] = S]
  <2>1. ~Exists(d)
    BY <1>2 DEF AddSession, IInv, Discipline, BeforeSession
  <2>2. QED
    BY <1>2, <2>1 DEF TypeOK
<1>3. QED
  BY <1>1, <1>2, EarlyStays

\* Whoever starts a session notes which of those above it have no limit.
LEMMA LimitedChains ==
    ASSUME IInv, IInv', TInv, Tree, Tree', \A x \in Execution : Limited(x),
           NEW d \in Execution, Step(d) \/ Environment(d), NEW e \in Execution
    PROVE  Limited(e)'
<1>0. /\ TypeOK /\ early \in [Execution -> SUBSET Execution]
      /\ \A x \in Execution : limits[x].value \in Nat
  <2>1. \A x \in Execution : limits[x] \in LimitRow
    BY DEF TInv, TypeOK, LimitRow
  <2>2. Budget \in Nat
    BY DelegationAssumption
  <2>3. QED
    BY <2>1, <2>2 DEF LimitRow, TInv, TypeOK
<1>1. SUFFICES ASSUME Exists(e)', NEW x \in Execution, x \in Chain(e)', x \notin early'[e], x # e
               PROVE  limits'[x].value > 0
  BY DEF Limited, Chain
<1>2. CASE Exists(e)
  <2>1. Chain(e)' = Chain(e)
    BY <1>2, ChainsStay
  <2>2. early'[e] = early[e]
    BY <1>0, <1>2, EarlyHolds
  <2>3. limits[x].value > 0
    BY <1>1, <1>2, <2>1, <2>2 DEF Limited
  <2>4. QED
    BY <2>3, LimitsRemain
<1>3. CASE ~Exists(e)
  <2>1. e = d /\ AddSession(d)
    BY <1>1, <1>3, WhoIsNew
  <2>2. PICK p \in Execution \cup {None} : p = req[d].parent
    <3>1. req[d] \in Requests
      BY <2>1 DEF AddSession, IInv, Discipline
    <3>2. QED
      BY <3>1, DelegationAssumption DEF Request
  <2>3. /\ sessions'[d].parent = p
        /\ early'[d] = IF p = None THEN {} ELSE {a \in Chain(p) : limits[a].value = 0}
    BY <1>0, <2>1, <2>2 DEF AddSession, IInv, Shape
  <2>4. p # None => Exists(p) /\ p # d
    <3>1. pc[d] = "session"
      BY <2>1 DEF AddSession
    <3>2. QED
      BY <1>3, <2>1, <2>2, <3>1 DEF TInv, Remembered, Admitted
  <2>5. /\ p = None => Chain(d)' = {d}
        /\ p # None => Chain(d)' = {d} \cup Chain(p)'
    <3>1. PICK g \in [Execution -> Execution \cup {None}] :
              /\ \A y \in Execution : g[y] = sessions'[y].parent
              /\ \A y \in Execution : Chain(y)' = Up(g, y)
      BY ChainsAfter DEF IInv
    <3>2. g[d] = p /\ Chain(d)' = Up(g, d)
      BY <2>3, <3>1
    <3>3. /\ p \in Execution => Up(g, d) = {d} \cup Up(g, p)
          /\ p = None => Up(g, d) = {d}
      BY <3>2, UpFromParent
    <3>4. p \in Execution => Chain(p)' = Up(g, p)
      BY <3>1
    <3>5. QED
      BY <2>2, <3>2, <3>3, <3>4
  <2>6. p # None => Chain(p)' = Chain(p)
    BY <2>2, <2>4, ChainsStay
  <2>7. p # None /\ x \in Chain(p)
    BY <1>1, <2>1, <2>5, <2>6
  <2>8. limits[x].value # 0
    BY <1>1, <2>1, <2>3, <2>7
  <2>9. QED
    BY <1>0, <2>8, LimitsRemain
<1>4. QED
  BY <1>2, <1>3

\* What is consumed of a limit stays within what its payers reported.
LEMMA SummedStays ==
    ASSUME IInv, IInv', TInv, Tree, EInv, \A x \in Execution : Account(x) /\ Limited(x),
           NEW d \in Execution, Works(d), NEW x \in Execution, Summed(x)
    PROVE  Summed(x)'
<1>0. TypeOK /\ (Step(d) \/ Environment(d))
  BY DEF TInv, Works
<1>1. PICK S \in SUBSET Execution : S = Payers(x) /\ \A e \in Execution : e \in S <=> Paid(e, x)
  <2>1. /\ Payers(x) \in SUBSET Execution
        /\ \A e \in Execution : e \in Payers(x) <=> Paid(e, x)
    BY DEF Payers
  <2>2. QED
    BY <2>1, Zenon
<1>2. PICK T \in SUBSET Execution : T = Payers(x)' /\ \A e \in Execution : e \in T <=> Paid(e, x)'
  <2>1. /\ Payers(x)' \in SUBSET Execution
        /\ \A e \in Execution : e \in Payers(x)' <=> Paid(e, x)'
    BY DEF Payers
  <2>2. QED
    BY <2>1, Zenon
<1>3. \A e \in Execution \ {d} : (e \in T <=> e \in S) /\ report'[e] = report[e]
  BY <1>0, <1>1, <1>2, PaidElsewhere
<1>4. PICK k \in Nat : k = limits[x].consumed
  <2>1. limits[x] \in LimitRow
    BY <1>0 DEF TypeOK, LimitRow
  <2>2. QED
    BY <2>1 DEF LimitRow
<1>a. PICK SD \in SUBSET Execution : SD = Due(x) /\ SD = {e \in S : x \notin early[e]}
  BY <1>1 DEF Due
<1>b. PICK TD \in SUBSET Execution : TD = Due(x)' /\ TD = {e \in T : x \notin early'[e]}
  BY <1>2 DEF Due
<1>c. \A e \in Execution : e \in S => early'[e] = early[e]
  BY <1>0, <1>1, EarlyHolds DEF Paid
<1>5. /\ IsFiniteSet(Units(S)) /\ IsFiniteSet(Units(SD))
      /\ Cardinality(Units(SD)) <= k /\ k <= Cardinality(Units(S))
  BY <1>1, <1>4, <1>a DEF Summed
<1>6. PICK U, V : U = Units(T)' /\ V = Units(TD)'
  OBVIOUS
<1>7. Summed(x)' <=> /\ IsFiniteSet(U) /\ IsFiniteSet(V)
                     /\ Cardinality(V) <= limits'[x].consumed
                     /\ limits'[x].consumed <= Cardinality(U)
  <2>1. Units(Payers(x))' = U /\ Units(Due(x))' = V
    BY <1>2, <1>6, <1>b DEF Units
  <2>2. QED
    BY <2>1 DEF Summed
<1>8. CASE T = S /\ (\A e \in S : report'[e] = report[e]) /\ limits'[x].consumed = k
  <2>1. TD = SD /\ SD \subseteq S
    BY <1>8, <1>a, <1>b, <1>c
  <2>2. Units(S)' = Units(S) /\ Units(SD)' = Units(SD)
    BY <1>8, <2>1, UnitsStay
  <2>3. Units(T)' = Units(S)' /\ Units(TD)' = Units(SD)'
    BY <1>8, <2>1
  <2>4. QED
    BY <1>5, <1>6, <1>7, <1>8, <2>2, <2>3
<1>9. CASE ~Charge(d)
  <2>1. (d \in T <=> d \in S) /\ (d \in S => report'[d] = report[d])
    BY <1>1, <1>2, <1>9, PaidHere
  <2>2. T = S /\ \A e \in S : report'[e] = report[e]
    BY <1>3, <2>1
  <2>3. limits'[x].consumed = k
    <3>1. CASE limits'[x] = limits[x]
      BY <1>4, <3>1
    <3>2. CASE PutLimit(d) /\ x = d /\ limits'[d].consumed = 0
      <4>1. pc[d] = "limits"
        BY <3>2 DEF PutLimit
      <4>2. limits[d].consumed = 0
        BY <4>1 DEF Tree, Standing
      <4>3. QED
        BY <1>4, <3>2, <4>2
    <3>3. QED
      BY <1>0, <1>9, <3>1, <3>2, LimitsMove
  <2>4. QED
    BY <1>8, <2>2, <2>3
<1>10. CASE Charge(d)
  <2>1. PICK c \in Execution : at[d] = c
    BY <1>0 DEF TypeOK
  <2>2. PICK n \in Nat : n = report[d].amount
    BY <1>0, <1>10, <2>1, ChargeAdds
  <2>3. /\ report' = report /\ limits[c].value \in Nat
        /\ Exists(d) /\ c \in Chain(d) /\ (c = d => limits[c].value > 0)
    <3>1. limits[c] \in LimitRow /\ Budget \in Nat
      BY <1>0, DelegationAssumption DEF TypeOK, LimitRow
    <3>2. QED
      BY <1>10, <2>1, <3>1, ChargeMoves DEF LimitRow
  <2>4. limits'[x].consumed = IF x = c /\ limits[c].value # 0 THEN k + n ELSE k
    BY <1>0, <1>4, <1>10, <2>1, <2>2, <2>3, ChargeAdds
  <2>e. limits[c].value = 0 => c \in early[d]
    BY <2>3 DEF Limited
  <2>f. early' = early
    BY <1>10 DEF Charge
  <2>5. CASE n > 0
    <3>1. (d \in T <=> d \in S \/ x = c) /\ (x = c => d \notin S)
      BY <1>1, <1>2, <1>10, <2>1, <2>2, <2>5, PaidByCharge
    <3>2. CASE x = c
      <4>1. T = S \cup {d} /\ d \notin S
        BY <1>3, <3>1, <3>2
      <4>2. IsFiniteSet(Units(T)) /\ Cardinality(Units(T)) = Cardinality(Units(S)) + n
        BY <1>5, <2>2, <4>1, UnitsAdd
      <4>3. Units(T)' = Units(T) /\ Units(TD)' = Units(TD)
        BY <2>3, UnitsStay
      <4>4. Cardinality(Units(S)) \in Nat /\ Cardinality(Units(SD)) \in Nat
        BY <1>5, FS_CardinalityType
      <4>5. CASE c \in early[d]
        <5>1. TD = SD
          BY <1>a, <1>b, <2>f, <3>2, <4>1, <4>5
        <5>2. limits'[x].consumed \in {k, k + n}
          BY <2>4
        <5>3. QED
          BY <1>4, <1>5, <1>6, <1>7, <2>2, <4>2, <4>3, <4>4, <5>1, <5>2
      <4>6. CASE c \notin early[d]
        <5>1. TD = SD \cup {d} /\ d \notin SD
          BY <1>a, <1>b, <2>f, <3>2, <4>1, <4>6
        <5>2. IsFiniteSet(Units(TD)) /\ Cardinality(Units(TD)) = Cardinality(Units(SD)) + n
          BY <1>5, <2>2, <5>1, UnitsAdd
        <5>3. limits'[x].consumed = k + n
          BY <2>4, <2>e, <3>2, <4>6
        <5>4. QED
          BY <1>4, <1>5, <1>6, <1>7, <2>2, <4>2, <4>3, <4>4, <5>2, <5>3
      <4>7. QED
        BY <4>5, <4>6
    <3>3. CASE x # c
      <4>1. T = S
        BY <1>3, <3>1, <3>3
      <4>2. QED
        BY <1>8, <2>3, <2>4, <3>3, <4>1
    <3>4. QED
      BY <3>2, <3>3
  <2>6. CASE n = 0
    <3>1. d \notin S /\ d \notin T
      <4>1. report[d].amount = 0 /\ report'[d].amount = 0
        BY <2>2, <2>3, <2>6
      <4>2. ~Paid(d, x)
        BY <4>1 DEF Paid
      <4>3. ~Paid(d, x)'
        BY <4>1 DEF Paid
      <4>4. QED
        BY <1>1, <1>2, <4>2, <4>3
    <3>2. T = S
      BY <1>3, <3>1
    <3>3. limits'[x].consumed = k
      BY <2>4, <2>6
    <3>4. QED
      BY <1>8, <2>3, <3>2, <3>3
  <2>7. QED
    BY <2>5, <2>6
<1>11. QED
  BY <1>9, <1>10


\* Every step keeps the accounts.
LEMMA AccountsStay ==
    ASSUME IInv, IInv', TInv, Healthy => EInv, AInv, [Next]_vars
    PROVE  AInv'
<1>1. ASSUME NEW d \in Execution, Step(d) \/ Environment(d)
      PROVE  AInv'
  <2>1. Tree'
    BY <1>1, StandingStays DEF AInv
  <2>2. \A e \in Execution : Limited(e)' /\ Breach(e)'
    BY <1>1, <2>1, LimitedChains, BreachStays DEF AInv
  <2>3. ASSUME Healthy' PROVE Books'
    <3>1. Healthy /\ EInv /\ Works(d)
      BY <1>1, <2>3, NothingFails
    <3>2. Tree /\ Books
      BY <3>1 DEF AInv
    <3>3. \A x \in Execution : Account(x) /\ Limited(x)
      BY <3>2 DEF Books, AInv
    <3>4. ASSUME NEW e \in Execution PROVE Account(e)'
      BY <3>1, <3>2, <3>3, AccountStays
    <3>5. ASSUME NEW e \in Execution PROVE Summed(e)'
      BY <3>1, <3>2, <3>3, SummedStays DEF Books
    <3>6. QED
      BY <3>4, <3>5 DEF Books
  <2>4. QED
    BY <2>1, <2>2, <2>3 DEF AInv
<1>2. CASE UNCHANGED vars
  <2>1. /\ sessions' = sessions /\ limits' = limits /\ breaches' = breaches /\ pc' = pc
        /\ req' = req /\ plan' = plan /\ report' = report /\ path' = path /\ at' = at
        /\ crossed' = crossed /\ failedAt' = failedAt /\ early' = early
    BY <1>2 DEF vars, rows, local
  <2>2. \A e \in Execution : Standing(e)' = Standing(e)
    BY <2>1 DEF Standing, Exists
  <2>3. \A e \in Execution : Breach(e)' = Breach(e)
    BY <2>1 DEF Breach
  <2>4. \A e \in Execution : Chain(e)' = Chain(e)
    BY <2>1 DEF Chain
  <2>5. \A e \in Execution : Account(e)' = Account(e)
    BY <2>1, <2>4 DEF Account, Exists
  <2>6. \A e, x \in Execution : Paid(e, x)' = Paid(e, x)
    BY <2>1 DEF Paid, Charged, Chain, Exists
  <2>a. \A e \in Execution : Limited(e)' = Limited(e)
    BY <2>1, <2>4 DEF Limited, Exists
  <2>7. ASSUME NEW x \in Execution PROVE Summed(x)' = Summed(x)
    <3>1. Payers(x)' = Payers(x) /\ Due(x)' = Due(x)
      BY <2>1, <2>6 DEF Payers, Due
    <3>2. Units(Payers(x))' = Units(Payers(x)) /\ Units(Due(x))' = Units(Due(x))
      BY <2>1, <3>1 DEF Units
    <3>3. QED
      BY <2>1, <3>2 DEF Summed
  <2>8. Healthy' = Healthy
    BY <2>1 DEF Healthy
  <2>9. QED
    BY <2>2, <2>3, <2>5, <2>7, <2>8, <2>a DEF AInv, Tree, Books
<1>3. QED
  BY <1>1, <1>2 DEF Next, Rest

\* Nothing is consumed at the start.
LEMMA InitAccounts == Init => AInv
<1> SUFFICES ASSUME Init PROVE AInv
  OBVIOUS
<1>1. Budget \in Nat \ {0}
  BY DelegationAssumption
<1>2. ASSUME NEW d \in Execution PROVE Standing(d) /\ Breach(d) /\ Account(d) /\ Limited(d)
  BY <1>1 DEF Init, Standing, Breach, Account, Limited, NoSession, NoRow, Exists
<1>3. ASSUME NEW d \in Execution PROVE Summed(d)
  <2>1. \A e \in Execution : ~Exists(e)
    BY DEF Init, Exists, NoSession
  <2>2. Payers(d) = {} /\ Due(d) = {}
    BY <2>1 DEF Payers, Paid, Due
  <2>3. Units(Payers(d)) = {} /\ Units(Due(d)) = {}
    BY <2>2 DEF Units
  <2>4. limits[d].consumed = 0
    BY DEF Init, NoRow
  <2>5. IsFiniteSet({}) /\ Cardinality({}) = 0
    BY FS_EmptySet
  <2>6. QED
    BY <2>3, <2>4, <2>5 DEF Summed
<1>4. QED
  BY <1>2, <1>3 DEF AInv, Tree, Books

\* When all the runs below a session are over, all that reported something have paid.
LEMMA AllPaid ==
    ASSUME IInv, TInv, Books, NEW d \in Execution,
           \A e \in Execution : Exists(e) /\ d \in Chain(e) => pc[e] = "done"
    PROVE  LET below == {e \in Execution : Exists(e) /\ d \in Chain(e)}
               due == {e \in below : d \notin early[e]} IN
           /\ Cardinality(Units(due)) <= limits[d].consumed
           /\ limits[d].consumed <= Cardinality(Units(below))
<1> DEFINE below == {e \in Execution : Exists(e) /\ d \in Chain(e)}
<1>1. \A e \in Execution : report[e].amount \in Nat
  <2>1. \A x \in Amounts \cup {0} : x \in Nat
    BY DelegationAssumption
  <2>2. \A r \in [outcome: OwnOutcome \cup {"none"}, amount: Amounts \cup {0}] : r.amount \in Nat
    BY <2>1
  <2>3. QED
    BY <2>2 DEF TInv, TypeOK
<1>2. Payers(d) \subseteq below
  BY DEF Payers, Paid
<1>3. \A e \in below : e \in Payers(d) \/ report[e].amount = 0
  BY <1>1 DEF Payers, Paid, Charged
<1>4. \A e \in below : report[e].amount = 0 => 1..report[e].amount = {}
  OBVIOUS
<1> DEFINE due == {e \in below : d \notin early[e]}
<1>5. Units(below) = Units(Payers(d)) /\ Units(due) = Units(Due(d))
  <2> HIDE DEF below
  <2>1. QED
    BY <1>2, <1>3, <1>4 DEF Units, Due
<1>6. QED
  BY <1>5 DEF Books, Summed

\* Whatever siblings charge at the same time and however runs end, what delegates
\* consumed counts once against every ancestor that had a limit when they started, and
\* at most once against one that had none; and a limit exceeded is recorded as breached
\* exactly once, unless a call failed.
THEOREM ConsumptionIsAccounted == Spec => []ChainAccounts
<1> DEFINE J == TInv /\ (Healthy => EInv) /\ AInv
<1>1. Init => J
  BY InitTypes, InitEnds, InitAccounts
<1>2. IInv /\ IInv' /\ J /\ [Next]_vars => J'
  BY TypesStay, EndsStay, AccountsStay
<1>3. IInv /\ J => ChainAccounts
  <2>1. SUFFICES ASSUME IInv, TInv, AInv, NEW d \in Execution
                 PROVE  LET below == {e \in Execution : Exists(e) /\ d \in Chain(e)}
                            due == {e \in below : d \notin early[e]} IN
                        /\ breaches[d] <= 1
                        /\ Healthy /\ Exists(d) /\ (\A e \in below : pc[e] = "done") =>
                               /\ Cardinality(Units(due)) <= limits[d].consumed
                               /\ limits[d].consumed <= Cardinality(Units(below))
                        /\ Healthy /\ AllDone /\ Exists(d) =>
                               (breaches[d] = 1 <=> limits[d].consumed > limits[d].value)
    BY DEF ChainAccounts
  <2> DEFINE below == {e \in Execution : Exists(e) /\ d \in Chain(e)}
             due == {e \in below : d \notin early[e]}
  <2>2. Breach(d)
    BY <2>1 DEF AInv
  <2>3. ASSUME Healthy, \A e \in below : pc[e] = "done"
        PROVE  /\ Cardinality(Units(due)) <= limits[d].consumed
               /\ limits[d].consumed <= Cardinality(Units(below))
    BY <2>1, <2>3, AllPaid DEF AInv
  <2>4. ASSUME Healthy, AllDone
        PROVE  breaches[d] = 1 <=> limits[d].consumed > limits[d].value
    <3>1. \A x \in Execution : pc[x] \notin {"charge", "note"}
      BY <2>4 DEF AllDone
    <3>2. \A x \in Execution : crossed[x] = {}
      BY <2>1, <2>4, <3>1 DEF AInv, Books, Account
    <3>3. QED
      BY <2>2, <3>2 DEF Breach
  <2>5. QED
    BY <2>2, <2>3, <2>4 DEF Breach
<1> HIDE DEF J
<1>4. QED
  BY <1>1, <1>2, <1>3, Invariance, PTL DEF Spec
=============================================================================
