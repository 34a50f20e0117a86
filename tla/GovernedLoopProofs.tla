---- MODULE GovernedLoopProofs ----
(***************************************************************************)
(* Proofs about the governed loop, for any workflow, any principals and    *)
(* any number of requests: an advance makes a declared transition that it  *)
(* was judged for, and the records of acceptances follow the advances.     *)
(***************************************************************************)
EXTENDS GovernedLoop, SequenceTheorems, FiniteSetTheorems, TLAPS

\* The stage that a history of advances had reached at a version.
StageIn(ms, v) == IF v = 0 THEN Start ELSE ms[v].to

\* The object is where the last advance left it.
Position == object = [stage |-> StageAt(Len(moves)), version |-> Len(moves)]

\* What a handler has read was true of some version.
Readings ==
  \A h \in Handler : pc[h] \in {"prior", "advance", "winner", "append"} =>
    /\ seen[h].version <= Len(moves)
    /\ seen[h].stage = StageAt(seen[h].version)

\* Only what was judged permitted is going to advance the object.
Judged ==
  \A h \in Handler : pc[h] = "advance" =>
    /\ Verdict(req[h], seen[h].stage) = "accepted"
    /\ plan[h] = [outcome |-> "accepted", version |-> req[h].expected, wonBy |-> 0]

\* What is going to be recorded has an outcome.
Decided == \A h \in Handler : pc[h] = "append" => plan[h].outcome \in Outcome

Accepting(h) == pc[h] = "append" /\ plan[h].outcome = "accepted"

\* Who is about to record an acceptance has made the advance it records, and is
\* the only one to do so.
Advanced ==
  \A h \in Handler : Accepting(h) =>
    /\ plan[h].version < Len(moves)
    /\ Tells(Row(h), moves[plan[h].version + 1])
    /\ \A i \in AcceptedRows : transitions[i].version # plan[h].version
    /\ \A g \in Handler : Accepting(g) /\ plan[g].version = plan[h].version => g = h

IInv == /\ TypeOK /\ Position /\ Readings /\ Judged /\ Decided
        /\ Advanced /\ OnlyJudgedMoves /\ RecordsFollowTheMoves

----
LEMMA Constants ==
  /\ NoRequest \in Attempt /\ Unread \in Object /\ NoPlan \in Plan
  /\ \A a \in Attempt : a.expected \in Nat /\ a.to \in Stage /\ a.rule \in BOOLEAN
PROOF
<1>1. NoRequest \in Attempt
  BY LoopAssumption DEF LoopAssumption, NoRequest
<1> QED
  BY <1>1, LoopAssumption DEF LoopAssumption, Unread, Object, NoPlan, Plan, Request, NoRequest

\* A verdict is an outcome, whatever the request and the stage.
LEMMA VerdictType == \A r, s : Verdict(r, s) \in {"accepted", "refused", "violation"}
PROOF BY DEF Verdict

\* The record a handler is going to insert has the type of its table.
LEMMA RowType ==
  ASSUME TypeOK, NEW h \in Handler, plan[h].outcome \in Outcome
  PROVE  Row(h) \in Transition
PROOF BY Constants DEF TypeOK, Row, Transition, Plan, Object

----
\* In the initial state no object has moved, so every part of the invariant
\* holds of an empty history.
LEMMA InitInvariant == Init => IInv
PROOF
<1> SUFFICES ASSUME Init PROVE IInv
  OBVIOUS
<1>1. TypeOK
  BY Constants, LoopAssumption DEF Init, TypeOK, LoopAssumption
<1>2. Position /\ Readings /\ Judged /\ Decided /\ Advanced
  BY DEF Init, Unread, Position, StageAt, Readings, Judged, Decided, Advanced, Accepting
<1>3. OnlyJudgedMoves /\ RecordsFollowTheMoves
  BY DEF Init, OnlyJudgedMoves, RecordsFollowTheMoves, AcceptedRows, Rows
<1> QED
  BY <1>1, <1>2, <1>3 DEF IInv

LEMMA WriteTypes ==
  ASSUME TypeOK, NEW h \in Handler, NEW s, write(h, s)
  PROVE  /\ plan' \in [Handler -> Plan]
         /\ pc' \in [Handler -> {"idle", "find", "prior", "advance", "winner", "append"}]
PROOF
<1> DEFINE v == Verdict(req[h], s)
           p == [outcome |-> v, version |-> req[h].expected, wonBy |-> 0]
<1>1. p \in Plan
  BY VerdictType, Constants DEF TypeOK, Plan, Outcome
<1>2. plan' = [plan EXCEPT ![h] = p]
  BY DEF write
<1>3. pc' = [pc EXCEPT ![h] = IF v = "accepted" THEN "advance" ELSE "append"]
  BY DEF write, Goto
<1> HIDE DEF v, p
<1> QED
  BY <1>1, <1>2, <1>3 DEF TypeOK

\* What an advance adds to the history has its type.
LEMMA MovedType ==
  ASSUME TypeOK, NEW h \in Handler
  PROVE  Moved(h) \in Move
PROOF
<1>1. object \in Object /\ seen[h] \in Object /\ req[h] \in Attempt
  BY DEF TypeOK
<1> QED
  BY <1>1, Constants DEF Moved, Move, Object

LEMMA TypesStep == IInv /\ [Next]_vars => TypeOK'
PROOF
<1> SUFFICES ASSUME IInv, [Next]_vars PROVE TypeOK'
  OBVIOUS
<1> USE Constants
<1>1. ASSUME NEW h \in Handler, Receive(h) PROVE TypeOK'
  BY <1>1 DEF IInv, TypeOK, Receive, Goto, Keeps
<1>2. ASSUME NEW h \in Handler, Find(h) PROVE TypeOK'
  <2>1. TypeOK
    BY DEF IInv
  <2>2. /\ plan' \in [Handler -> Plan]
        /\ pc' \in [Handler -> {"idle", "find", "prior", "advance", "winner", "append"}]
    BY <1>2, <2>1, WriteTypes DEF Find, TypeOK, Goto
  <2> QED
    BY <1>2, <2>1, <2>2 DEF TypeOK, Find, Keeps
<1>3. ASSUME NEW h \in Handler, FindPrior(h) PROVE TypeOK'
  <2>1. TypeOK
    BY DEF IInv
  <2>2. [outcome |-> "refused", wonBy |-> 0, version |-> seen[h].version] \in Plan
    BY <2>1 DEF TypeOK, Plan, Object, Outcome
  <2>3. /\ plan' \in [Handler -> Plan]
        /\ pc' \in [Handler -> {"idle", "find", "prior", "advance", "winner", "append"}]
    BY <1>3, <2>1, <2>2, WriteTypes DEF FindPrior, TypeOK, Goto
  <2> QED
    BY <1>3, <2>1, <2>3 DEF TypeOK, FindPrior, Keeps
<1>4. ASSUME NEW h \in Handler, Advance(h) PROVE TypeOK'
  <2>1. /\ object \in Object /\ moves \in Seq(Move)
        /\ req[h].to \in Stage /\ req[h].rule \in BOOLEAN
    BY DEF IInv, TypeOK
  <2>2. Moved(h) \in Move
    BY <1>4, MovedType DEF IInv
  <2>3. [stage |-> req[h].to, version |-> object.version + 1] \in Object
    BY <2>1 DEF Object
  <2>4. object' \in Object /\ moves' \in Seq(Move)
    <3>1. CASE object.version = req[h].expected
      <4>1. object' = [stage |-> req[h].to, version |-> object.version + 1]
        BY <1>4, <3>1 DEF Advance
      <4>2. moves' = Append(moves, Moved(h))
        BY <1>4, <3>1 DEF Advance
      <4>3. moves' \in Seq(Move)
        BY <2>1, <2>2, <4>2
      <4> QED
        BY <2>3, <4>1, <4>3
    <3>2. CASE object.version # req[h].expected
      BY <1>4, <2>1, <3>2 DEF Advance
    <3> QED
      BY <3>1, <3>2
  <2> QED
    BY <2>4, <1>4 DEF IInv, TypeOK, Advance, Goto
<1>5. ASSUME NEW h \in Handler, FindWinner(h) PROVE TypeOK'
  BY <1>5 DEF IInv, TypeOK, FindWinner, Winners, AcceptedRows, Rows, Goto, Keeps, Plan, Outcome
<1>6. ASSUME NEW h \in Handler, AppendTransition(h) PROVE TypeOK'
  <2>2. Row(h) \in Transition
    BY <1>6, RowType DEF IInv, Decided, AppendTransition
  <2>1. transitions' \in Seq(Transition)
    <3>1. transitions \in Seq(Transition)
      BY DEF IInv, TypeOK
    <3>2. transitions' = Append(transitions, Row(h)) \/ transitions' = transitions
      BY <1>6 DEF AppendTransition
    <3> QED
      BY <2>2, <3>1, <3>2
  <2> QED
    BY <2>1, <1>6 DEF IInv, TypeOK, AppendTransition, End, Goto
<1>7. ASSUME NEW h \in Handler, Crash(h) PROVE TypeOK'
  BY <1>7, LoopAssumption DEF IInv, TypeOK, Crash, End, Goto, LoopAssumption
<1>8. CASE UNCHANGED vars
  BY <1>8 DEF IInv, TypeOK, vars
<1> QED
  BY <1>1, <1>2, <1>3, <1>4, <1>5, <1>6, <1>7, <1>8 DEF Next

----
\* A step of one handler that neither advances the object nor inserts a record.
Local == UNCHANGED <<object, transitions, moves>>
Others(h) == \A g \in Handler \ {h} : /\ pc'[g] = pc[g] /\ req'[g] = req[g]
                                      /\ seen'[g] = seen[g] /\ plan'[g] = plan[g]

\* What a handler is going to record does not change by a step of another.
LEMMA RowStays ==
  ASSUME NEW h \in Handler, Others(h)
  PROVE  \A g \in Handler \ {h} : Row(g)' = Row(g)
PROOF BY DEF Others, Row

LEMMA LocalStep ==
  ASSUME IInv, NEW h \in Handler, Local, Others(h),
         pc'[h] \in {"prior", "advance", "winner", "append"} =>
           /\ seen'[h].version <= Len(moves)
           /\ seen'[h].stage = StageAt(seen'[h].version),
         pc'[h] = "advance" =>
           /\ Verdict(req'[h], seen'[h].stage) = "accepted"
           /\ plan'[h] = [outcome |-> "accepted", version |-> req'[h].expected, wonBy |-> 0],
         pc'[h] = "append" => plan'[h].outcome \in Outcome \ {"accepted"}
  PROVE  /\ Position' /\ Readings' /\ Judged' /\ Decided' /\ Advanced'
         /\ OnlyJudgedMoves' /\ RecordsFollowTheMoves'
PROOF
<1>1. Position' /\ OnlyJudgedMoves'
  BY DEF IInv, Local, Position, OnlyJudgedMoves, StageAt
<1>2. RecordsFollowTheMoves'
  BY DEF IInv, Local, RecordsFollowTheMoves, AcceptedRows, Rows, Tells, StageAt
<1>4. Readings'
  BY DEF IInv, Local, Others, Readings, StageAt
<1>5. Judged' /\ Decided'
  BY DEF IInv, Local, Others, Judged, Decided
<1>6. \A g \in Handler : Accepting(g)' => g # h /\ Accepting(g)
  BY DEF Others, Accepting
<1>7. Advanced'
  BY <1>6, RowStays DEF IInv, Local, Others, Advanced, AcceptedRows, Rows, Tells, StageAt
<1> QED
  BY <1>1, <1>2, <1>4, <1>5, <1>7

LEMMA WriteStep ==
  ASSUME IInv, NEW h \in Handler, Local, Others(h), req' = req, write(h, seen'[h].stage),
         seen'[h].version <= Len(moves),
         seen'[h].stage = StageAt(seen'[h].version)
  PROVE  /\ Position' /\ Readings' /\ Judged' /\ Decided' /\ Advanced'
         /\ OnlyJudgedMoves' /\ RecordsFollowTheMoves'
PROOF
<1> DEFINE v == Verdict(req[h], seen'[h].stage)
<1>1. pc'[h] = IF v = "accepted" THEN "advance" ELSE "append"
  BY DEF write, Goto, IInv, TypeOK
<1>2. plan'[h] = [outcome |-> v, version |-> req[h].expected, wonBy |-> 0]
  BY DEF write, IInv, TypeOK
<1>3. v \in Outcome
  BY VerdictType DEF Outcome
<1> HIDE DEF v
<1>4. pc'[h] = "advance" => v = "accepted"
  BY <1>1
<1>5. pc'[h] = "append" => plan'[h].outcome \in Outcome \ {"accepted"}
  BY <1>1, <1>2, <1>3
<1>6. pc'[h] # "find"
  BY <1>1
<1> QED
  BY <1>2, <1>4, <1>5, <1>6, LocalStep DEF v

----
\* An advance: the version ties what was read to what is left.
LEMMA AdvanceStep ==
  ASSUME IInv, NEW h \in Handler, Advance(h), TypeOK', object.version = req[h].expected
  PROVE  /\ Position' /\ Readings' /\ Judged' /\ Decided' /\ Advanced'
         /\ OnlyJudgedMoves' /\ RecordsFollowTheMoves'
PROOF
<1>0. PICK n \in Nat : n = Len(moves)
  BY DEF IInv, TypeOK
<1> DEFINE m == Moved(h)
<1>1. /\ moves \in Seq(Move) /\ n = Len(moves)
      /\ object = [stage |-> StageAt(n), version |-> n] /\ n = req[h].expected
      /\ pc[h] = "advance" /\ pc' = [pc EXCEPT ![h] = "append"]
      /\ UNCHANGED <<transitions, req, seen, plan>>
      /\ object' = [stage |-> req[h].to, version |-> n + 1] /\ moves' = Append(moves, m)
  BY <1>0 DEF IInv, TypeOK, Position, Advance, Goto
<1> HIDE DEF m
<1>2. /\ Len(moves') = n + 1 /\ moves'[n + 1] = m
      /\ \A v \in 1 .. n : moves'[v] = moves[v]
  <2>1. m \in Move
    BY MovedType DEF m, IInv
  <2> QED
    <3>1. moves \in Seq(Move) /\ moves' = Append(moves, m) /\ n = Len(moves)
      BY <1>1
    <3>2. Len(moves') = n + 1
      BY <2>1, <3>1
    <3>3. moves'[n + 1] = m
      BY <2>1, <3>1
    <3>4. ASSUME NEW v \in 1 .. n PROVE moves'[v] = moves[v]
      BY <2>1, <3>1
    <3> QED
      BY <3>2, <3>3, <3>4
<1>3. \A v \in 0 .. n : StageIn(moves', v) = StageIn(moves, v)
  BY <1>1, <1>2 DEF StageIn
<1>21. \A v : StageAt(v) = StageIn(moves, v)
  BY DEF StageAt, StageIn
<1>4. StageIn(moves', n + 1) = req[h].to
  BY <1>1, <1>2 DEF StageIn, m, Moved
<1>5. Position'
  BY <1>1, <1>2, <1>4 DEF Position, StageAt, StageIn
<1>7. Readings'
  <2> SUFFICES ASSUME NEW g \in Handler, pc'[g] \in {"prior", "advance", "winner", "append"}
               PROVE  /\ seen[g].version <= n + 1
                      /\ seen[g].stage = StageIn(moves', seen[g].version)
    BY <1>1, <1>2 DEF Readings, StageAt, StageIn
  <2>1. pc[g] \in {"prior", "advance", "winner", "append"} /\ seen[g].version \in Nat
    BY <1>1 DEF IInv, TypeOK, Object
  <2>2. /\ seen[g].version <= n
        /\ seen[g].stage = StageAt(seen[g].version)
    BY <1>1, <2>1 DEF IInv, Readings
  <2> QED
    BY <1>1, <1>3, <1>21, <2>1, <2>2
<1>8. Judged'
  BY <1>1 DEF IInv, Judged, TypeOK
<1>9. Decided'
  BY <1>1 DEF IInv, Judged, Decided, TypeOK, Outcome
<1>10. /\ seen[h].version \in 0 .. n /\ seen[h].stage = StageAt(seen[h].version)
       /\ n <= seen[h].version => seen[h].stage = object.stage
  <2>1. /\ seen[h].version <= n /\ seen[h].version \in Nat
        /\ seen[h].stage = StageAt(seen[h].version)
    BY <1>1 DEF IInv, Readings, TypeOK, Object
  <2>2. n <= seen[h].version => seen[h].version = n
    BY <2>1
  <2> QED
    BY <1>1, <2>1, <2>2
<1>18. /\ m.from = StageAt(n) /\ m.to = req[h].to /\ m.rule = req[h].rule
       /\ m.read = seen[h].version /\ m.expected = n
  BY <1>1 DEF m, Moved
<1>11. Verdict(req[h], seen[h].stage) = "accepted" /\ plan[h].version = n
  <2>1. Verdict(req[h], seen[h].stage) = "accepted"
    BY <1>1 DEF IInv, Judged
  <2>2. plan[h].version = req[h].expected
    <3>1. plan[h] = [outcome |-> "accepted", version |-> req[h].expected, wonBy |-> 0]
      BY <1>1 DEF IInv, Judged
    <3> QED
      BY <3>1
  <2> QED
    BY <1>1, <2>1, <2>2
<1>12. OnlyJudgedMoves'
  <2>1. Permitted(<<seen[h].stage, m.to>>)
    BY <1>11, <1>18 DEF Verdict, evaluateAuthority, evaluateGates, Permitted
  <2>2. Permitted(<<StageIn(moves', seen[h].version), m.to>>)
    BY <1>3, <1>10, <1>21, <2>1
  <2>5. m.expected <= m.read => Permitted(<<m.from, m.to>>)
    BY <1>1, <1>10, <1>18, <2>1
  <2> SUFFICES ASSUME NEW v \in 1 .. n + 1
               PROVE  /\ moves'[v].from = StageIn(moves', v - 1)
                      /\ moves'[v].read < v
                      /\ Permitted(<<StageIn(moves', moves'[v].read), moves'[v].to>>)
                      /\ moves'[v].expected <= moves'[v].read
                           => Permitted(<<moves'[v].from, moves'[v].to>>)
    BY <1>2 DEF OnlyJudgedMoves, StageAt, StageIn
  <2>3. CASE v = n + 1
    <3>1. v - 1 = n /\ n \in 0 .. n /\ moves'[v] = m
      BY <1>2, <2>3
    <3>2. m.from = StageIn(moves', v - 1) /\ m.read < v
      BY <1>3, <1>10, <1>18, <1>21, <2>3, <3>1
    <3> QED
      BY <1>18, <2>2, <2>5, <3>1, <3>2
  <2>4. CASE v # n + 1
    <3>1. v \in 1 .. n /\ v - 1 \in 0 .. n /\ moves'[v] = moves[v] /\ moves[v] \in Move
      BY <1>1, <1>2, <2>4
    <3>2. /\ moves[v].from = StageAt(v - 1) /\ moves[v].read < v
          /\ Permitted(<<StageAt(moves[v].read), moves[v].to>>)
          /\ moves[v].expected <= moves[v].read => Permitted(<<moves[v].from, moves[v].to>>)
      BY <1>1, <3>1 DEF IInv, OnlyJudgedMoves
    <3>3. moves[v].read \in 0 .. n
      BY <3>1, <3>2 DEF Move
    <3>4. /\ StageIn(moves', v - 1) = StageAt(v - 1)
          /\ StageIn(moves', moves[v].read) = StageAt(moves[v].read)
      BY <1>3, <1>21, <3>1, <3>3
    <3> QED
      BY <3>1, <3>2, <3>4
  <2> QED
    BY <2>3, <2>4
<1>13. \A i \in AcceptedRows : transitions[i].version \in Nat /\ transitions[i].version < n
  <2> SUFFICES ASSUME NEW i \in AcceptedRows
               PROVE  transitions[i].version \in Nat /\ transitions[i].version < n
    OBVIOUS
  <2>1. transitions[i] \in Transition
    BY DEF IInv, TypeOK, AcceptedRows, Rows
  <2>2. transitions[i].version < Len(moves)
    BY DEF IInv, RecordsFollowTheMoves
  <2> QED
    BY <1>1, <2>1, <2>2 DEF Transition
<1>14. AcceptedRows' = AcceptedRows
  BY <1>1 DEF AcceptedRows, Rows
<1> DEFINE Told(x, v) == /\ x.to = moves'[v].to /\ x.rule = moves'[v].rule
                         /\ x.from = StageIn(moves', moves'[v].read)
                         /\ moves'[v].expected <= moves'[v].read => x.from = moves'[v].from
<1>19. ASSUME NEW x, NEW v \in 1 .. n, Tells(x, moves[v]) PROVE Told(x, v)
  <2>1. moves'[v] = moves[v] /\ moves[v] \in Move
    BY <1>1, <1>2
  <2>2. moves[v].read < v
    BY <1>1 DEF IInv, OnlyJudgedMoves
  <2>3. moves[v].read \in 0 .. n
    BY <2>1, <2>2 DEF Move
  <2>4. StageIn(moves', moves'[v].read) = StageAt(moves[v].read)
    BY <1>3, <1>21, <2>1, <2>3
  <2> QED
    BY <1>19, <2>1, <2>4 DEF Tells
<1>20. Told(Row(h), n + 1)
  <2>1. /\ Row(h).to = req[h].to /\ Row(h).rule = req[h].rule /\ Row(h).from = seen[h].stage
    BY DEF Row
  <2>2. moves'[n + 1] = m
    BY <1>2
  <2>3. StageIn(moves', m.read) = StageAt(seen[h].version)
    BY <1>3, <1>10, <1>18, <1>21
  <2> QED
    BY <1>1, <1>2, <1>10, <1>18, <2>1, <2>2, <2>3
<1> HIDE DEF Told
<1>15. RecordsFollowTheMoves'
  <2>1. \A i \in AcceptedRows :
          transitions[i].version < n + 1 /\ Told(transitions[i], transitions[i].version + 1)
    <3> TAKE i \in AcceptedRows
    <3>1. transitions[i].version + 1 \in 1 .. n
      BY <1>13
    <3>2. Tells(transitions[i], moves[transitions[i].version + 1])
      BY DEF IInv, RecordsFollowTheMoves
    <3> QED
      BY <1>13, <1>19, <3>1, <3>2
  <2>2. \A i, j \in AcceptedRows : transitions[i].version = transitions[j].version => i = j
    BY DEF IInv, RecordsFollowTheMoves
  <2> QED
    BY <1>1, <1>2, <1>14, <2>1, <2>2 DEF RecordsFollowTheMoves, Tells, Told, StageAt, StageIn
<1>16. \A g \in Handler \ {h} : Accepting(g)' =>
         Accepting(g) /\ plan[g].version \in Nat /\ plan[g].version < n
  <2> TAKE g \in Handler \ {h}
  <2> HAVE Accepting(g)'
  <2>1. Accepting(g) /\ plan[g] \in Plan
    BY <1>1 DEF Accepting, IInv, TypeOK
  <2> QED
    BY <1>1, <2>1 DEF IInv, Advanced, Plan
<1>17. Advanced'
  <2> SUFFICES ASSUME NEW g \in Handler, Accepting(g)'
               PROVE  /\ plan[g].version < n + 1
                      /\ Told(Row(g), plan[g].version + 1)
                      /\ \A i \in AcceptedRows : transitions[i].version # plan[g].version
                      /\ \A f \in Handler : Accepting(f)' /\ plan[f].version = plan[g].version
                                             => f = g
    <3>1. ASSUME NEW g \in Handler, Told(Row(g), plan[g].version + 1)
          PROVE  Tells(Row(g), moves[plan[g].version + 1])'
      <4>1. Row(g)' = Row(g) /\ plan'[g] = plan[g]
        BY <1>1 DEF Row
      <4> QED
        BY <3>1, <4>1 DEF Tells, Told, StageAt, StageIn
    <3>2. plan' = plan /\ transitions' = transitions
      BY <1>1
    <3> QED
      BY <1>2, <1>14, <3>1, <3>2 DEF Advanced
  <2>1. CASE g = h
    BY <1>1, <1>11, <1>13, <1>16, <1>20, <2>1
  <2>2. CASE g # h
    <3>1. Accepting(g) /\ plan[g].version \in Nat /\ plan[g].version < n
      BY <1>16, <2>2
    <3>2. \A f \in Handler : Accepting(f)' /\ plan[f].version = plan[g].version => Accepting(f)
      BY <1>1, <1>11, <1>16, <3>1
    <3>3. Told(Row(g), plan[g].version + 1)
      <4>1. Tells(Row(g), moves[plan[g].version + 1])
        BY <3>1 DEF IInv, Advanced
      <4>2. plan[g].version + 1 \in 1 .. n
        BY <1>1, <3>1
      <4> QED
        BY <1>19, <4>1, <4>2
    <3> QED
      BY <1>1, <3>1, <3>2, <3>3 DEF IInv, Advanced
  <2> QED
    BY <2>1, <2>2
<1> QED
  BY <1>5, <1>7, <1>8, <1>9, <1>12, <1>15, <1>17

----
\* An insertion: the record of an acceptance is the one its handler owed.
LEMMA InsertStep ==
  ASSUME IInv, NEW h \in Handler, pc[h] = "append", Insertable(h), UNCHANGED <<object, moves>>,
         transitions' = Append(transitions, Row(h)), Others(h), pc'[h] = "idle"
  PROVE  RecordsFollowTheMoves' /\ Advanced'
PROOF
<1>0. PICK n \in Nat : n = Len(transitions)
  BY DEF IInv, TypeOK
<1>1. /\ transitions \in Seq(Transition) /\ n = Len(transitions) /\ moves' = moves
      /\ plan[h] \in Plan /\ plan[h].outcome \in Outcome
  BY <1>0 DEF IInv, TypeOK, Decided
<1>2. Row(h) \in Transition
  BY <1>1, RowType DEF IInv
<1>3. /\ Len(transitions') = n + 1 /\ transitions'[n + 1] = Row(h)
      /\ \A i \in 1 .. n : transitions'[i] = transitions[i]
  BY <1>1, <1>2
<1>4. Row(h).outcome = plan[h].outcome /\ Row(h).version = plan[h].version
  BY DEF Row
<1>11. \A x, m : Tells(x, m)' <=> Tells(x, m)
  BY <1>1 DEF Tells, StageAt
<1>12. \A g \in Handler \ {h} : Row(g)' = Row(g)
  BY RowStays
<1>5. AcceptedRows \subseteq 1 .. n
  BY <1>1 DEF AcceptedRows, Rows
<1>6. AcceptedRows' = AcceptedRows \cup (IF plan[h].outcome = "accepted" THEN {n + 1} ELSE {})
  BY <1>1, <1>3, <1>4 DEF AcceptedRows, Rows
<1>7. \A g \in Handler : Accepting(g)' => g # h /\ Accepting(g)
  BY DEF Others, Accepting
<1>10. \A i, j \in AcceptedRows : transitions[i].version = transitions[j].version => i = j
  BY DEF IInv, RecordsFollowTheMoves
<1>8. CASE plan[h].outcome # "accepted"
  <2>1. AcceptedRows' = AcceptedRows /\ \A i \in AcceptedRows : transitions'[i] = transitions[i]
    BY <1>3, <1>5, <1>6, <1>8
  <2>2. RecordsFollowTheMoves'
    <3>1. \A i \in AcceptedRows' :
            /\ transitions'[i].version < Len(moves)
            /\ Tells(transitions'[i], moves[transitions'[i].version + 1])
      BY <2>1 DEF IInv, RecordsFollowTheMoves
    <3>2. ASSUME NEW i \in AcceptedRows', NEW j \in AcceptedRows',
                 transitions'[i].version = transitions'[j].version
          PROVE  i = j
      BY <1>10, <2>1, <3>2
    <3> QED
      BY <1>1, <3>1, <3>2 DEF RecordsFollowTheMoves, Tells, StageAt
  <2>3. Advanced'
    <3> SUFFICES ASSUME NEW g \in Handler, Accepting(g)'
                 PROVE  /\ plan'[g].version < Len(moves)
                        /\ Tells(Row(g)', moves[plan'[g].version + 1])
                        /\ \A i \in AcceptedRows' : transitions'[i].version # plan'[g].version
                        /\ \A f \in Handler :
                             Accepting(f)' /\ plan'[f].version = plan'[g].version => f = g
      BY <1>1 DEF Advanced, Tells, StageAt
    <3>1. g # h /\ Accepting(g) /\ plan'[g] = plan[g] /\ Row(g)' = Row(g)
      BY <1>7, <1>12 DEF Others
    <3>2. \A i \in AcceptedRows' : transitions'[i].version # plan[g].version
      BY <2>1, <3>1 DEF IInv, Advanced
    <3>3. \A f \in Handler : Accepting(f)' => Accepting(f) /\ plan'[f] = plan[f]
      BY <1>7 DEF Others
    <3> QED
      BY <3>1, <3>2, <3>3 DEF IInv, Advanced
  <2> QED
    BY <2>2, <2>3
<1>9. CASE plan[h].outcome = "accepted"
  <2>1. Accepting(h)
    BY <1>9 DEF Accepting
  <2>2. /\ plan[h].version < Len(moves)
        /\ Tells(Row(h), moves[plan[h].version + 1])
        /\ \A i \in AcceptedRows : transitions[i].version # plan[h].version
        /\ \A g \in Handler : Accepting(g) /\ plan[g].version = plan[h].version => g = h
    BY <2>1 DEF IInv, Advanced
  <2>3. \A i \in AcceptedRows' :
          \/ i = n + 1 /\ transitions'[i] = Row(h)
          \/ i \in AcceptedRows /\ i # n + 1 /\ transitions'[i] = transitions[i]
    BY <1>3, <1>5, <1>6
  <2>4. RecordsFollowTheMoves'
    <3>1. \A i \in AcceptedRows' :
            /\ transitions'[i].version < Len(moves)
            /\ Tells(transitions'[i], moves[transitions'[i].version + 1])
      BY <1>4, <2>2, <2>3 DEF IInv, RecordsFollowTheMoves
    <3>2. ASSUME NEW i \in AcceptedRows', NEW j \in AcceptedRows',
                 transitions'[i].version = transitions'[j].version
          PROVE  i = j
      <4>1. CASE i = n + 1 /\ j # n + 1
        BY <1>4, <2>2, <2>3, <3>2, <4>1
      <4>2. CASE i # n + 1 /\ j = n + 1
        BY <1>4, <2>2, <2>3, <3>2, <4>2
      <4>3. CASE i # n + 1 /\ j # n + 1
        <5>1. /\ i \in AcceptedRows /\ transitions'[i] = transitions[i]
              /\ j \in AcceptedRows /\ transitions'[j] = transitions[j]
          BY <2>3, <4>3
        <5> QED
          BY <1>10, <3>2, <5>1
      <4> QED
        BY <4>1, <4>2, <4>3
    <3> QED
      BY <1>1, <3>1, <3>2 DEF RecordsFollowTheMoves, Tells, StageAt
  <2>5. Advanced'
    <3> SUFFICES ASSUME NEW g \in Handler, Accepting(g)'
                 PROVE  /\ plan'[g].version < Len(moves)
                        /\ Tells(Row(g)', moves[plan'[g].version + 1])
                        /\ \A i \in AcceptedRows' : transitions'[i].version # plan'[g].version
                        /\ \A f \in Handler :
                             Accepting(f)' /\ plan'[f].version = plan'[g].version => f = g
      BY <1>1 DEF Advanced, Tells, StageAt
    <3>1. g # h /\ Accepting(g) /\ plan'[g] = plan[g] /\ Row(g)' = Row(g)
      BY <1>7, <1>12 DEF Others
    <3>2. plan[g].version # plan[h].version
      BY <2>2, <3>1
    <3>3. ASSUME NEW i \in AcceptedRows' PROVE transitions'[i].version # plan[g].version
      <4>1. CASE transitions'[i] = Row(h)
        BY <1>4, <3>2, <4>1
      <4>2. CASE i \in AcceptedRows /\ transitions'[i] = transitions[i]
        BY <3>1, <4>2 DEF IInv, Advanced
      <4> QED
        BY <2>3, <4>1, <4>2
    <3>4. \A f \in Handler : Accepting(f)' => Accepting(f) /\ plan'[f] = plan[f]
      BY <1>7 DEF Others
    <3> QED
      BY <3>1, <3>3, <3>4 DEF IInv, Advanced
  <2> QED
    BY <2>4, <2>5
<1> QED
  BY <1>8, <1>9

LEMMA AppendStep ==
  ASSUME IInv, NEW h \in Handler, AppendTransition(h)
  PROVE  /\ Position' /\ Readings' /\ Judged' /\ Decided' /\ Advanced'
         /\ OnlyJudgedMoves' /\ RecordsFollowTheMoves'
PROOF
<1>1. /\ pc[h] = "append" /\ pc'[h] = "idle" /\ Others(h) /\ UNCHANGED <<object, moves>>
  BY DEF IInv, TypeOK, AppendTransition, End, Goto, Others
<1>2. CASE Insertable(h)
  <2>1. RecordsFollowTheMoves' /\ Advanced'
    BY <1>1, <1>2, InsertStep DEF AppendTransition
  <2>2. Position' /\ OnlyJudgedMoves'
    BY <1>1 DEF IInv, Position, OnlyJudgedMoves, StageAt
  <2>3. Judged' /\ Decided'
    BY <1>1 DEF IInv, Others, Judged, Decided
  <2>4. Readings'
    BY <1>1 DEF IInv, Others, Readings, StageAt
  <2> QED
    BY <2>1, <2>2, <2>3, <2>4
<1>3. CASE ~Insertable(h)
  BY <1>1, <1>3, LocalStep DEF AppendTransition, Local
<1> QED
  BY <1>2, <1>3

----
LEMMA NextInvariant == IInv /\ [Next]_vars => IInv'
PROOF
<1> SUFFICES ASSUME IInv, [Next]_vars
             PROVE  /\ Position' /\ Readings' /\ Judged' /\ Decided' /\ Advanced'
                    /\ OnlyJudgedMoves' /\ RecordsFollowTheMoves'
  BY TypesStep DEF IInv
<1> DEFINE Goal == /\ Position' /\ Readings' /\ Judged' /\ Decided' /\ Advanced'
                   /\ OnlyJudgedMoves' /\ RecordsFollowTheMoves'
<1>t. TypeOK /\ TypeOK' /\ Position
  BY TypesStep DEF IInv
<1>1. ASSUME NEW h \in Handler, Receive(h) PROVE Goal
  <2>1. Local /\ Others(h) /\ pc'[h] = "find"
    BY <1>1, <1>t DEF Receive, Keeps, Local, Others, Goto, TypeOK
  <2> QED
    BY <2>1, LocalStep
<1>2. ASSUME NEW h \in Handler, Find(h) PROVE Goal
  <2>1. /\ Local /\ Others(h) /\ req' = req /\ seen'[h] = object /\ pc[h] = "find"
    BY <1>2, <1>t DEF Find, write, Keeps, Local, Others, Goto, TypeOK
  <2>2. /\ seen'[h].version = Len(moves) /\ seen'[h].stage = StageAt(seen'[h].version)
        /\ seen'[h].stage = object.stage
    BY <2>1, <1>t DEF Position
  <2>6. Len(moves) \in Nat
    BY <1>t DEF TypeOK
  <2>3. seen'[h].version <= Len(moves)
    BY <2>2, <2>6
  <2>4. CASE write(h, object.stage)
    <3>1. write(h, seen'[h].stage)
      BY <2>2, <2>4
    <3> QED
      BY <2>1, <2>2, <2>3, <3>1, WriteStep
  <2>5. CASE Goto(h, "prior")
    <3>1. pc'[h] = "prior"
      BY <2>5, <1>t DEF Goto, TypeOK
    <3> QED
      BY <2>1, <2>2, <2>3, <3>1, LocalStep
  <2> QED
    BY <1>2, <2>4, <2>5 DEF Find
<1>3. ASSUME NEW h \in Handler, FindPrior(h) PROVE Goal
  <2>1. /\ Local /\ Others(h) /\ req' = req /\ seen' = seen /\ pc[h] = "prior"
    BY <1>3, <1>t DEF FindPrior, write, Keeps, Local, Others, Goto, TypeOK
  <2>2. /\ seen[h].version <= Len(moves)
        /\ seen[h].stage = StageAt(seen[h].version)
    BY <2>1 DEF IInv, Readings
  <2>3. CASE write(h, seen[h].stage)
    BY <2>1, <2>2, <2>3, WriteStep
  <2>4. CASE Goto(h, "append") /\ plan' = [plan EXCEPT ![h] = [outcome |-> "refused", wonBy |-> 0,
                                                              version |-> seen[h].version]]
    <3>1. pc'[h] = "append" /\ plan'[h].outcome = "refused"
      BY <2>4, <1>t DEF Goto, TypeOK
    <3> QED
      BY <2>1, <2>2, <3>1, LocalStep DEF Outcome
  <2> QED
    BY <1>3, <2>3, <2>4 DEF FindPrior
<1>4. ASSUME NEW h \in Handler, Advance(h) PROVE Goal
  <2>1. CASE object.version = req[h].expected
    BY <1>4, <1>t, <2>1, AdvanceStep
  <2>2. CASE object.version # req[h].expected
    <3>1. /\ Local /\ Others(h) /\ req' = req /\ seen' = seen /\ pc[h] = "advance"
          /\ pc'[h] = "winner"
      BY <1>4, <2>2, <1>t DEF Advance, Local, Others, Goto, TypeOK
    <3>2. /\ seen[h].version <= Len(moves)
          /\ seen[h].stage = StageAt(seen[h].version)
      BY <3>1 DEF IInv, Readings
    <3> QED
      BY <3>1, <3>2, LocalStep
  <2> QED
    BY <2>1, <2>2
<1>5. ASSUME NEW h \in Handler, FindWinner(h) PROVE Goal
  <2>1. /\ Local /\ Others(h) /\ req' = req /\ seen' = seen /\ pc[h] = "winner"
        /\ pc'[h] = "append" /\ plan'[h].outcome = "conflict"
    BY <1>5, <1>t DEF FindWinner, Keeps, Local, Others, Goto, TypeOK
  <2>2. /\ seen[h].version <= Len(moves)
        /\ seen[h].stage = StageAt(seen[h].version)
    BY <2>1 DEF IInv, Readings
  <2> QED
    BY <2>1, <2>2, LocalStep DEF Outcome
<1>6. ASSUME NEW h \in Handler, AppendTransition(h) PROVE Goal
  BY <1>6, AppendStep
<1>7. ASSUME NEW h \in Handler, Crash(h) PROVE Goal
  <2>1. Local /\ Others(h) /\ pc'[h] = "idle"
    BY <1>7, <1>t DEF Crash, End, Local, Others, Goto, TypeOK
  <2> QED
    BY <2>1, LocalStep
<1>8. CASE UNCHANGED vars
  <2>1. Position' /\ Readings' /\ Judged' /\ Decided' /\ OnlyJudgedMoves'
    BY <1>8 DEF IInv, vars, Position, Readings, Judged, Decided, OnlyJudgedMoves, StageAt
  <2>2. Advanced' /\ RecordsFollowTheMoves'
    BY <1>8 DEF IInv, vars, Advanced, Accepting, Row, Tells, RecordsFollowTheMoves,
         AcceptedRows, Rows, StageAt
  <2> QED
    BY <2>1, <2>2
<1> QED
  BY <1>1, <1>2, <1>3, <1>4, <1>5, <1>6, <1>7, <1>8 DEF Next

----
\* The inductive invariant holds of every behaviour.
THEOREM Invariance == Spec => []IInv
PROOF
<1> QED
  BY InitInvariant, NextInvariant, PTL DEF Spec

\* The tables and the handlers keep their types.
THEOREM TypeCorrect == Spec => []TypeOK
PROOF
<1>1. IInv => TypeOK
  BY DEF IInv
<1> QED
  BY <1>1, Invariance, PTL

\* Whatever was read when and however many attempts race, every advance was judged along a
\* declared, ungated and authorised transition, and makes that transition unless its caller
\* named a version later than the one its handler had read.
THEOREM MovesAreJudged == Spec => []OnlyJudgedMoves
PROOF
<1>1. IInv => OnlyJudgedMoves
  BY DEF IInv
<1> QED
  BY <1>1, Invariance, PTL

\* The accepted records, ordered by version, lead through the stages the advances reached;
\* what they say was left is true of every caller that named no version to come.
THEOREM HistoryIsTrue == Spec => []RecordsFollowTheMoves
PROOF
<1>1. IInv => RecordsFollowTheMoves
  BY DEF IInv
<1> QED
  BY <1>1, Invariance, PTL

----
\* The advances that go unrecorded

\* Who is about to record an acceptance is a person or names a rule, as the table asks.
Named == \A h \in Handler : Accepting(h) => ~Anonymous(req[h])

RuleAccepted == \E i \in AcceptedRows : transitions[i].rule

\* An advance is lost when no record explains it, nobody is about to write one, and
\* it is not the duplicate of a rule that was accepted.
Explained(v) == Recorded(v) \/ Pending(v) \/ (moves[v].rule /\ RuleAccepted)
Lost == {v \in 1 .. Len(moves) : ~Explained(v)}

\* The property counts the lost advances.
LEMMA LostAreCounted == OnlyFailuresGoUnrecorded <=> Cardinality(Lost) <= crashes
PROOF
<1>1. {v \in Unrecorded : ~(moves[v].rule /\ \E i \in AcceptedRows : transitions[i].rule)} = Lost
  BY DEF Unrecorded, Lost, Explained, RuleAccepted
<1> QED
  BY <1>1 DEF OnlyFailuresGoUnrecorded

\* A step of a handler leaves the others where they are.
LEMMA OneAtATime ==
  ASSUME TypeOK, NEW h \in Handler,
         \/ Receive(h) \/ Find(h) \/ FindPrior(h) \/ Advance(h) \/ FindWinner(h)
         \/ AppendTransition(h) \/ Crash(h)
  PROVE  Others(h)
PROOF
  BY DEF TypeOK, Others, Receive, Find, FindPrior, write, Advance, FindWinner,
         AppendTransition, Crash, End, Goto, Keeps

\* Records are only added.
LEMMA RecordsStay ==
  ASSUME TypeOK, TypeOK', transitions' = transitions \/ \E r : transitions' = Append(transitions, r)
  PROVE  \A i \in AcceptedRows : i \in AcceptedRows' /\ transitions'[i] = transitions[i]
PROOF
<1> PICK n : n = Len(transitions)
  OBVIOUS
<1>1. transitions \in Seq(Transition) /\ n \in Nat
  BY DEF TypeOK
<1>2. CASE transitions' = transitions
  BY <1>2 DEF AcceptedRows, Rows
<1>3. CASE \E r : transitions' = Append(transitions, r)
  <2>1. PICK r : transitions' = Append(transitions, r)
    BY <1>3
  <2>2. Len(transitions') = n + 1 /\ \A i \in 1 .. n : transitions'[i] = transitions[i]
    BY <1>1, <2>1
  <2>3. QED
    BY <1>1, <2>2 DEF AcceptedRows, Rows
<1> QED
  BY <1>2, <1>3 DEF TypeOK

\* What explains an advance goes on explaining it, unless the handler that was about
\* to record it did something else.
LEMMA ExplainedStays ==
  ASSUME TypeOK, TypeOK', NEW h \in Handler, Others(h),
         transitions' = transitions \/ \E r : transitions' = Append(transitions, r),
         NEW v, moves'[v] = moves[v], Explained(v),
         Accepting(h) /\ plan[h].version + 1 = v => Explained(v)'
  PROVE  Explained(v)'
PROOF
<1>1. \A i \in AcceptedRows : i \in AcceptedRows' /\ transitions'[i] = transitions[i]
  BY RecordsStay
<1>2. CASE Recorded(v)
  BY <1>1, <1>2 DEF Recorded, Explained
<1>3. CASE moves[v].rule /\ RuleAccepted
  BY <1>1, <1>3 DEF RuleAccepted, Explained
<1>4. CASE Pending(v)
  <2>1. PICK g \in Handler : pc[g] = "append" /\ plan[g].outcome = "accepted" /\ plan[g].version + 1 = v
    BY <1>4 DEF Pending
  <2>2. CASE g = h
    BY <2>1, <2>2 DEF Accepting
  <2>3. CASE g # h
    BY <2>1, <2>3 DEF Others, Pending, Explained
  <2> QED
    BY <2>2, <2>3
<1> QED
  BY <1>2, <1>3, <1>4 DEF Explained

\* Who records an acceptance after a step was about to before, or has advanced.
LEMMA WhoAccepts ==
  ASSUME IInv, NEW h \in Handler, Accepting(h)',
         \/ Receive(h) \/ Find(h) \/ FindPrior(h) \/ Advance(h) \/ FindWinner(h)
         \/ AppendTransition(h) \/ Crash(h)
  PROVE  Advance(h) /\ pc[h] = "advance" /\ plan' = plan /\ req' = req
PROOF
<1>1. \A s : write(h, s) => pc'[h] # "append" \/ plan'[h].outcome # "accepted"
  BY DEF IInv, TypeOK, write, Goto
<1>2. ~Receive(h) /\ ~AppendTransition(h) /\ ~Crash(h)
  BY DEF IInv, TypeOK, Accepting, Receive, AppendTransition, Crash, End, Goto
<1>3. ~Find(h) /\ ~FindPrior(h) /\ ~FindWinner(h)
  BY <1>1 DEF IInv, TypeOK, Accepting, Find, FindPrior, FindWinner, Goto
<1> QED
  BY <1>2, <1>3 DEF Advance

\* A rule's verdict is accepted, and a person's, but nobody's is not: no step of a handler
\* brings an unnamed acceptance about.
LEMMA NamedStep ==
  ASSUME IInv, Named, NEW h \in Handler,
         \/ Receive(h) \/ Find(h) \/ FindPrior(h) \/ Advance(h) \/ FindWinner(h)
         \/ AppendTransition(h) \/ Crash(h)
  PROVE  Named'
PROOF
<1>1. Others(h)
  BY OneAtATime DEF IInv
<1>2. SUFFICES ASSUME NEW g \in Handler, Accepting(g)' PROVE ~Anonymous(req'[g])
  BY DEF Named, Anonymous
<1>3. CASE g = h
  <2>1. pc[h] = "advance" /\ req' = req
    BY <1>2, <1>3, WhoAccepts
  <2>2. Verdict(req[h], seen[h].stage) = "accepted"
    BY <2>1 DEF IInv, Judged
  <2> QED
    BY <1>3, <2>1, <2>2 DEF Verdict
<1>4. CASE g # h
  BY <1>1, <1>2, <1>4 DEF Others, Accepting, Named
<1> QED
  BY <1>3, <1>4

\* No step loses an advance but the death of a process, which loses one at most.
LEMMA LostStep ==
  ASSUME IInv, IInv', Named, NEW h \in Handler,
         \/ Receive(h) \/ Find(h) \/ FindPrior(h) \/ Advance(h) \/ FindWinner(h)
         \/ AppendTransition(h) \/ Crash(h)
  PROVE  \/ Lost' \subseteq Lost /\ crashes' = crashes
         \/ \E x : Lost' \subseteq Lost \cup {x} /\ crashes' = crashes + 1
PROOF
<1>1. TypeOK /\ TypeOK' /\ Others(h) /\ Len(moves) \in Nat
  BY OneAtATime DEF IInv, TypeOK
<1>2. CASE Receive(h) \/ Find(h) \/ FindPrior(h) \/ FindWinner(h)
  <2>1. /\ transitions' = transitions /\ moves' = moves /\ crashes' = crashes
        /\ pc[h] # "append"
    BY <1>2 DEF Receive, Find, FindPrior, FindWinner, Keeps
  <2>2. \A v \in 1 .. Len(moves) : Explained(v) => Explained(v)'
    BY <1>1, <2>1, ExplainedStays DEF Accepting
  <2> QED
    BY <2>1, <2>2 DEF Lost
<1>3. CASE Advance(h)
  <2>1. /\ transitions' = transitions /\ crashes' = crashes /\ plan' = plan /\ pc[h] = "advance"
        /\ plan[h] = [outcome |-> "accepted", version |-> req[h].expected, wonBy |-> 0]
    BY <1>3 DEF Advance, IInv, Judged
  <2>2. CASE object.version # req[h].expected
    <3>1. moves' = moves
      BY <1>3, <2>2 DEF Advance
    <3>2. \A v \in 1 .. Len(moves) : Explained(v) => Explained(v)'
      BY <1>1, <2>1, <3>1, ExplainedStays DEF Accepting
    <3> QED
      BY <2>1, <3>1, <3>2 DEF Lost
  <2>3. CASE object.version = req[h].expected
    <3> PICK n \in Nat : n = Len(moves)
      BY <1>1
    <3>1. PICK m \in Move : moves' = Append(moves, m)
      BY <1>1, <1>3, <2>3, MovedType DEF Advance
    <3>2. pc'[h] = "append"
      BY <1>1, <1>3, <2>3 DEF Advance, Goto, TypeOK
    <3>3. /\ Len(moves') = n + 1 /\ \A v \in 1 .. n : moves'[v] = moves[v]
      BY <1>1, <3>1 DEF TypeOK
    <3>4. plan[h].version = n
      BY <2>1, <2>3 DEF IInv, Position
    <3>5. Explained(n + 1)'
      BY <2>1, <3>2, <3>4 DEF Pending, Explained
    <3>6. \A v \in 1 .. n : Explained(v) => Explained(v)'
      BY <1>1, <2>1, <3>3, ExplainedStays DEF Accepting
    <3> QED
      BY <2>1, <3>3, <3>5, <3>6 DEF Lost
  <2> QED
    BY <2>2, <2>3
<1>4. CASE AppendTransition(h)
  <2>1. /\ moves' = moves /\ crashes' = crashes /\ pc[h] = "append"
        /\ IF Insertable(h) THEN transitions' = Append(transitions, Row(h))
                            ELSE transitions' = transitions
    BY <1>4 DEF AppendTransition
  <2>2. ASSUME NEW v \in 1 .. Len(moves), Accepting(h), plan[h].version + 1 = v
        PROVE  Explained(v)'
    <3>1. CASE Insertable(h)
      <4> PICK n : n = Len(transitions)
        OBVIOUS
      <4>1. n \in Nat /\ transitions \in Seq(Transition) /\ Row(h) \in Transition
        <5>1. plan[h].outcome \in Outcome
          BY <2>2 DEF Accepting, Outcome
        <5> QED
          BY <1>1, <5>1, RowType DEF TypeOK
      <4>2. Len(transitions') = n + 1 /\ transitions'[n + 1] = Row(h)
        BY <2>1, <3>1, <4>1
      <4>3. Row(h).outcome = "accepted" /\ Row(h).version + 1 = v
        BY <2>2 DEF Row, Accepting
      <4>4. n + 1 \in AcceptedRows'
        BY <4>1, <4>2, <4>3 DEF AcceptedRows, Rows
      <4> QED
        BY <4>2, <4>3, <4>4 DEF Recorded, Explained
    <3>2. CASE ~Insertable(h)
      <4>1. req[h].rule /\ RuleAccepted
        BY <2>2, <3>2 DEF Insertable, Named, RuleAccepted
      <4>2. moves[v].rule
        <5>1. Advanced
          BY DEF IInv
        <5>2. Tells(Row(h), moves[plan[h].version + 1])
          BY <2>2, <5>1, Zenon DEF Advanced
        <5>3. moves[plan[h].version + 1].rule = req[h].rule
          BY <5>2 DEF Tells, Row
        <5> QED
          BY <2>2, <4>1, <5>3
      <4>3. transitions' = transitions
        BY <2>1, <3>2
      <4> QED
        BY <2>1, <4>1, <4>2, <4>3 DEF Explained, RuleAccepted, AcceptedRows, Rows
    <3> QED
      BY <3>1, <3>2
  <2>3. \A v \in 1 .. Len(moves) : Explained(v) => Explained(v)'
    BY <1>1, <2>1, <2>2, ExplainedStays
  <2> QED
    BY <2>1, <2>3 DEF Lost
<1>5. CASE Crash(h)
  <2>1. moves' = moves /\ transitions' = transitions /\ crashes' = crashes + 1
    BY <1>5 DEF Crash
  <2> DEFINE x == plan[h].version + 1
  <2>2. \A v \in 1 .. Len(moves) \ {x} : Explained(v) => Explained(v)'
    BY <1>1, <2>1, ExplainedStays
  <2>3. Lost' \subseteq Lost \cup {x}
    BY <2>1, <2>2 DEF Lost
  <2> QED
    BY <2>1, <2>3
<1> QED
  BY <1>2, <1>3, <1>4, <1>5

\* One more at most, of a finite set.
LEMMA CountStep ==
  ASSUME NEW S, IsFiniteSet(S), NEW T, NEW n \in Nat, NEW m, Cardinality(S) <= n,
         \/ T \subseteq S /\ m = n
         \/ \E x : T \subseteq S \cup {x} /\ m = n + 1
  PROVE  Cardinality(T) <= m
PROOF
<1>1. Cardinality(S) \in Nat
  BY FS_CardinalityType
<1>2. CASE T \subseteq S /\ m = n
  <2>1. IsFiniteSet(T) /\ Cardinality(T) <= Cardinality(S)
    BY <1>2, FS_Subset
  <2>2. Cardinality(T) \in Nat
    BY <2>1, FS_CardinalityType
  <2> QED
    BY <1>1, <1>2, <2>1, <2>2
<1>3. CASE \E x : T \subseteq S \cup {x} /\ m = n + 1
  <2>1. PICK x : T \subseteq S \cup {x} /\ m = n + 1
    BY <1>3
  <2> DEFINE U == S \cup {x}
  <2>2. IsFiniteSet(U) /\ Cardinality(U) <= Cardinality(S) + 1 /\ Cardinality(U) \in Nat
    <3>1. /\ IsFiniteSet(U)
          /\ Cardinality(U) = IF x \in S THEN Cardinality(S) ELSE Cardinality(S) + 1
      BY FS_AddElement
    <3> QED
      BY <1>1, <3>1
  <2>3. T \subseteq U
    BY <2>1
  <2> HIDE DEF U
  <2>4. IsFiniteSet(T) /\ Cardinality(T) <= Cardinality(U)
    BY <2>2, <2>3, FS_Subset
  <2>5. Cardinality(T) \in Nat
    BY <2>4, FS_CardinalityType
  <2> QED
    BY <1>1, <2>1, <2>2, <2>4, <2>5
<1> QED
  BY <1>2, <1>3

\* As many advances go unrecorded as processes died, at most: every other is recorded,
\* is about to be, or repeats a rule that was accepted for the event.
THEOREM FailuresAreCounted == Spec => []OnlyFailuresGoUnrecorded
PROOF
<1> DEFINE LInv == Named /\ Cardinality(Lost) <= crashes
<1>1. Init => LInv
  <2> SUFFICES ASSUME Init PROVE LInv
    OBVIOUS
  <2>1. Named
    BY DEF Init, Named, Accepting
  <2>2. Lost = {} /\ crashes = 0
    BY DEF Init, Lost
  <2> QED
    BY <2>1, <2>2, FS_EmptySet
<1>2. IInv /\ IInv' /\ LInv /\ [Next]_vars => LInv'
  <2> SUFFICES ASSUME IInv, IInv', LInv, [Next]_vars PROVE LInv'
    OBVIOUS
  <2>1. CASE UNCHANGED vars
    BY <2>1 DEF vars, Named, Accepting, Anonymous, Lost, Explained, Recorded, Pending, RuleAccepted,
       AcceptedRows, Rows
  <2>2. ASSUME NEW h \in Handler,
               \/ Receive(h) \/ Find(h) \/ FindPrior(h) \/ Advance(h) \/ FindWinner(h)
               \/ AppendTransition(h) \/ Crash(h)
        PROVE  LInv'
    <3>1. Named'
      BY <2>2, NamedStep
    <3>2. \/ Lost' \subseteq Lost /\ crashes' = crashes
          \/ \E x : Lost' \subseteq Lost \cup {x} /\ crashes' = crashes + 1
      BY <2>2, LostStep
    <3>3. IsFiniteSet(Lost)
      <4>1. Len(moves) \in Nat
        BY DEF IInv, TypeOK
      <4>2. IsFiniteSet(1 .. Len(moves))
        BY <4>1, FS_Interval
      <4> QED
        BY <4>2, FS_Subset DEF Lost
    <3>4. crashes \in Nat
      BY LoopAssumption DEF IInv, TypeOK, LoopAssumption
    <3>5. Cardinality(Lost') <= crashes'
      BY <3>2, <3>3, <3>4, CountStep
    <3> QED
      BY <3>1, <3>5
  <2> QED
    BY <2>1, <2>2 DEF Next
<1>3. LInv => OnlyFailuresGoUnrecorded
  BY LostAreCounted
<1> QED
  BY <1>1, <1>2, <1>3, Invariance, PTL DEF Spec
====
