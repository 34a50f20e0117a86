---- MODULE GovernedLoop ----
(***************************************************************************)
(* The governed loop (backend/src/modules/loop): one object that moves     *)
(* between the stages of its workflow.  People and automations ask for     *)
(* transitions and a rule engine fires triggers.  Every attempt is judged  *)
(* against the object as it was read, advances it under the version the    *)
(* caller held, and is recorded.                                           *)
(*                                                                         *)
(* A handler takes one step per database round trip.  The update that      *)
(* advances the object is issued on the pooled client, so it is committed  *)
(* when it returns, whatever becomes of the transaction around it; the     *)
(* record is inserted in that transaction, which commits with the insert.  *)
(***************************************************************************)
EXTENDS Naturals, Sequences, FiniteSets

CONSTANTS Handler,      \* requests in flight
          Stage, Start, \* the stages of the workflow; where objects begin
          Actor, Person,\* principals; those whose kind is human
          Gates,        \* declared transition -> the gates it requires
          Authorities,  \* <<from, to>> -> authorities that may perform it
          Held,         \* actor -> the authorities the policy grants it
          Attempt,      \* what is asked of the loop
          MaxRows,      \* bound on the records of transitions
          MaxCrashes,   \* bound on the processes that die
          None

VARIABLES object,       \* loop_objects: the stage and the version
          transitions,  \* loop_transitions, in the order of their insertion
          moves,        \* history: what each advance did, by version
          crashes,      \* how many processes have died
          pc, req,      \* per handler: the next step and the request
          seen,         \* per handler: the object as it was read
          plan          \* per handler: what it is going to record or show

vars == <<object, transitions, moves, crashes, pc, req, seen, plan>>

Edge == Stage \X Stage

\* A transition names the version its caller read, and may name a rule and an
\* event; a firing always does.
Request == [kind : {"transition", "firing"}, actor : Actor,
            to : Stage, expected : Nat, rule : BOOLEAN]

LoopAssumption ==
  /\ Start \in Stage /\ Person \subseteq Actor /\ None \notin Stage
  /\ DOMAIN Gates \subseteq Edge
  /\ DOMAIN Authorities = Edge /\ DOMAIN Held = Actor
  /\ Attempt \subseteq Request /\ Attempt # {} /\ IsFiniteSet(Attempt)
  /\ \A a \in Attempt : a.kind = "firing" => a.rule /\ a.actor \notin Person
  /\ MaxRows \in Nat /\ MaxCrashes \in Nat
ASSUME LoopAssumption

Object == [stage : Stage, version : Nat]
Outcome == {"accepted", "refused", "violation", "conflict"}
\* One rule and one event stand for all: `rule` says whether a row names them.
Transition == [version : Nat, from : Stage, to : Stage, outcome : Outcome,
               wonBy : Nat, rule : BOOLEAN]
\* History of an advance: the stage it left and the one it reached, the version its
\* handler had read and the one its caller had named.
Move == [from : Stage, to : Stage, rule : BOOLEAN, read : Nat, expected : Nat]
Plan == [outcome : Outcome \cup {None}, version : Nat, wonBy : Nat]
NoPlan == [outcome |-> None, version |-> 0, wonBy |-> 0]

NoRequest == CHOOSE a \in Attempt : TRUE
Unread == [stage |-> Start, version |-> 0]

Init ==
  /\ object = Unread
  /\ transitions = <<>> /\ moves = <<>> /\ crashes = 0
  /\ pc = [h \in Handler |-> "idle"]
  /\ req = [h \in Handler |-> NoRequest]
  /\ seen = [h \in Handler |-> Unread]
  /\ plan = [h \in Handler |-> NoPlan]

Rows == 1 .. Len(transitions)
AcceptedRows == {i \in Rows : transitions[i].outcome = "accepted"}

----
\* The rules of an attempt, in the order the writer applies them.

\* An automation that names no rule.
Anonymous(r) == r.actor \notin Person /\ ~r.rule

\* Declared, configured, held.
evaluateAuthority(r, from) ==
  /\ <<from, r.to>> \in DOMAIN Gates
  /\ Authorities[<<from, r.to>>] \cap Held[r.actor] # {}

\* Callers report no gate outcomes, so every declared gate was never evaluated.
evaluateGates(r, from) == Gates[<<from, r.to>>] = {}

Verdict(r, from) ==
  IF Anonymous(r) \/ ~evaluateAuthority(r, from) THEN "refused"
  ELSE IF ~evaluateGates(r, from) THEN "violation" ELSE "accepted"

----
Goto(h, label) == pc' = [pc EXCEPT ![h] = label]
Keeps == UNCHANGED <<object, transitions, moves, crashes>>
\* What a handler holds ends with it.
End(h) ==
  /\ Goto(h, "idle")
  /\ req' = [req EXCEPT ![h] = NoRequest]
  /\ seen' = [seen EXCEPT ![h] = Unread]
  /\ plan' = [plan EXCEPT ![h] = NoPlan]

\* The version is the caller's to name.  Nothing compares it with the object that the
\* handler reads: it may lie behind it, or ahead of it.
Receive(h) ==
  /\ pc[h] = "idle"
  /\ Len(transitions) + Cardinality({g \in Handler : pc[g] # "idle"}) < MaxRows
  /\ \E a \in Attempt : req' = [req EXCEPT ![h] = a]
  /\ Goto(h, "find")
  /\ UNCHANGED <<seen, plan>> /\ Keeps

\* What the writer does next with an attempt judged from the stage `from`.
write(h, from) ==
  LET v == Verdict(req[h], from)
  IN  /\ plan' = [plan EXCEPT ![h] = [outcome |-> v, version |-> req[h].expected,
                                      wonBy |-> 0]]
      /\ Goto(h, IF v = "accepted" THEN "advance" ELSE "append")

Find(h) ==
  /\ pc[h] = "find"
  /\ seen' = [seen EXCEPT ![h] = object]
  /\ \/ req[h].kind = "transition" /\ write(h, object.stage)
     \/ req[h].kind = "firing" /\ Goto(h, "prior") /\ UNCHANGED plan
  /\ UNCHANGED req /\ Keeps

\* A firing that has already advanced the object is recorded as a duplicate.
FindPrior(h) ==
  /\ pc[h] = "prior"
  /\ IF \E i \in AcceptedRows : transitions[i].rule
       THEN /\ plan' = [plan EXCEPT ![h] = [outcome |-> "refused", wonBy |-> 0,
                                            version |-> seen[h].version]]
            /\ Goto(h, "append")
       ELSE write(h, seen[h].stage)
  /\ UNCHANGED <<req, seen>> /\ Keeps

Moved(h) == [from |-> object.stage, to |-> req[h].to, rule |-> req[h].rule,
             read |-> seen[h].version, expected |-> req[h].expected]

\* Mutant: the update without its condition on the version.
AdvanceAnyVersion(h) ==
  /\ pc[h] = "advance"
  /\ object' = [stage |-> req[h].to, version |-> object.version + 1]
  /\ moves' = Append(moves, Moved(h))
  /\ Goto(h, "append")
  /\ UNCHANGED <<transitions, crashes, req, seen, plan>>

Advance(h) ==
  /\ pc[h] = "advance"
  /\ IF object.version = req[h].expected
       THEN /\ object' = [stage |-> req[h].to, version |-> object.version + 1]
            /\ moves' = Append(moves, Moved(h))
            /\ Goto(h, "append")
       ELSE /\ UNCHANGED <<object, moves>>
            /\ Goto(h, "winner")
  /\ UNCHANGED <<transitions, crashes, req, seen, plan>>

\* The loser looks for the record of the winner, which may not be there yet.
Winners(h) == {i \in AcceptedRows : transitions[i].version = req[h].expected}
FindWinner(h) ==
  /\ pc[h] = "winner"
  /\ \E w \in IF Winners(h) = {} THEN {0} ELSE Winners(h) :
       plan' = [plan EXCEPT ![h] = [outcome |-> "conflict", wonBy |-> w,
                                    version |-> req[h].expected]]
  /\ Goto(h, "append")
  /\ UNCHANGED <<req, seen>> /\ Keeps

\* Mutant: the version the advance produced, not the one it was made against.
RowAsProduced(h) ==
  [version |-> object.version, from |-> seen[h].stage, to |-> req[h].to,
   outcome |-> plan[h].outcome, wonBy |-> plan[h].wonBy, rule |-> req[h].rule]

Row(h) == [version |-> plan[h].version, from |-> seen[h].stage, to |-> req[h].to,
           outcome |-> plan[h].outcome, wonBy |-> plan[h].wonBy, rule |-> req[h].rule]

\* Mutant: the index on rule and event is not partial.
InsertableOnce(h) ==
  ~Anonymous(req[h]) /\ (req[h].rule => \A i \in Rows : ~transitions[i].rule)

\* The constraints of the table: an automation names its rule, and a rule and an
\* event are accepted once.
Insertable(h) ==
  /\ ~Anonymous(req[h])
  /\ plan[h].outcome = "accepted" /\ req[h].rule
       => \A i \in AcceptedRows : ~transitions[i].rule

AppendTransition(h) ==
  /\ pc[h] = "append"
  /\ IF Insertable(h) THEN transitions' = Append(transitions, Row(h))
                      ELSE UNCHANGED transitions
  /\ End(h)
  /\ UNCHANGED <<object, moves, crashes>>

\* The process dies, or the database fails the call it is waiting for.
Crash(h) ==
  /\ pc[h] # "idle" /\ crashes < MaxCrashes
  /\ crashes' = crashes + 1
  /\ End(h)
  /\ UNCHANGED <<object, transitions, moves>>

Next == \E h \in Handler :
  \/ Receive(h) \/ Find(h) \/ FindPrior(h) \/ Advance(h) \/ FindWinner(h)
  \/ AppendTransition(h) \/ Crash(h)

Spec == Init /\ [][Next]_vars

----
StageAt(v) == IF v = 0 THEN Start ELSE moves[v].to

\* Types: the object, the records and the handlers hold what their tables and
\* variables may hold.
TypeOK ==
  /\ object \in Object /\ transitions \in Seq(Transition) /\ moves \in Seq(Move)
  /\ crashes \in 0 .. MaxCrashes
  /\ pc \in [Handler -> {"idle", "find", "prior", "advance", "winner", "append"}]
  /\ req \in [Handler -> Attempt] /\ seen \in [Handler -> Object]
  /\ plan \in [Handler -> Plan]

Permitted(edge) == edge \in DOMAIN Gates /\ Gates[edge] = {} /\ Authorities[edge] # {}

\* Every advance leaves the stage the one before it reached.  It was judged along a
\* declared transition, ungated and authorised, from a stage the object had had; and
\* that is the transition it makes, whatever moved in between, unless its caller named
\* a version later than the one the handler read.
OnlyJudgedMoves ==
  \A v \in 1 .. Len(moves) :
    LET m == moves[v]
    IN  /\ m.from = StageAt(v - 1)
        /\ m.read < v /\ Permitted(<<StageAt(m.read), m.to>>)
        /\ m.expected <= m.read => Permitted(<<m.from, m.to>>)

\* What the table of transitions is for: the object moves along those only.  Not kept:
\* a request that names the version after the one its handler reads is judged from the
\* earlier stage, and wins once another advance has brought the object to that version.
OnlyDeclaredMoves ==
  \A v \in 1 .. Len(moves) : Permitted(<<moves[v].from, moves[v].to>>)

\* What a record says of the advance it was written for.
Tells(r, m) ==
  /\ r.to = m.to /\ r.rule = m.rule /\ r.from = StageAt(m.read)
  /\ m.expected <= m.read => r.from = m.from

\* The records of acceptances, by version, lead through the stages the object reached:
\* each is of the advance made from its version, no version has two (first commit wins),
\* and it names the stage that the advance was judged from, which is the stage it left
\* unless its caller named a version later than the one read.
RecordsFollowTheMoves ==
  /\ \A i \in AcceptedRows :
       /\ transitions[i].version < Len(moves)
       /\ Tells(transitions[i], moves[transitions[i].version + 1])
  /\ \A i, j \in AcceptedRows : transitions[i].version = transitions[j].version => i = j

\* The same for every advance, as a record of what left which stage.  Not kept, for the
\* same requests: the record then names a stage the object was not in.
HistoryIsTheMoves ==
  \A i \in AcceptedRows : transitions[i].from = moves[transitions[i].version + 1].from

\* The advances that no record explains.
Recorded(v) == \E i \in AcceptedRows : transitions[i].version + 1 = v
Pending(v) == \E h \in Handler : /\ pc[h] = "append" /\ plan[h].outcome = "accepted"
                                /\ plan[h].version + 1 = v
Unrecorded == {v \in 1 .. Len(moves) : ~Recorded(v) /\ ~Pending(v)}

\* An advance goes unrecorded only when its process died before the insert, or
\* when its rule had already been accepted for the event.
OnlyFailuresGoUnrecorded ==
  Cardinality({v \in Unrecorded : ~(moves[v].rule /\ \E i \in AcceptedRows : transitions[i].rule)})
    <= crashes

\* One rule and one event advance an object once: what FR-GEL-033 promises.
\* Not kept: two firings look before either is recorded; both advance, and the
\* unique index then refuses only the second row.
OneAdvancePerEvent ==
  \A v, w \in 1 .. Len(moves) : moves[v].rule /\ moves[w].rule => v = w
====
