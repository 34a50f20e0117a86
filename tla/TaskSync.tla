------------------------------ MODULE TaskSync ------------------------------
(***************************************************************************)
(* The task board of one Epic: syncs of tasks.md, progress reports and     *)
(* people's proposals write the same cards.                                *)
(*                                                                         *)
(* Nothing locks a card.  A sync decides every status from the rows it     *)
(* read before its first write; a proposal is judged against the card it   *)
(* read before it was recorded, and applied by id.  Each read and each     *)
(* write of the database is a step of its own.  The process of a sync may  *)
(* die anywhere, and its client sends the same file again.                 *)
(*                                                                         *)
(* Specification and state are named for the board, because the proofs     *)
(* extend this module beside another component's.                          *)
(***************************************************************************)
EXTENDS TaskReconcile, Sequences

CONSTANTS
    Task,        \* the identifiers tasks.md may hold
    Execution,   \* executions bound to the Epic
    Line,        \* file -> its lines, a sequence of [task, checked]
    Syncer,      \* concurrent handlers of the sync route
    Handler,     \* concurrent handlers of the proposal routes
    Actor, Agent, May, \* principals; the agents; those who may move a card
    Wanted,      \* statuses people ask for
    Request,     \* bound: handler -> the syncs it may be sent, <<execution, file>>
    Reportable,  \* bound: the reports executions append, <<execution, task>>
    Movable,     \* bound: the cards people move
    Shown,       \* bound: the statuses a page still open may show for them
    MaxCrashes   \* syncs whose process dies

ASSUME SetsAssumption == Agent \subseteq Actor /\ May \subseteq Actor
ASSUME WantedAssumption == Wanted \subseteq Status
\* "none" stands for no file, see marked.
ASSUME LineAssumption ==
    /\ "none" \notin DOMAIN Line
    /\ \A f \in DOMAIN Line : Line[f] \in Seq([task: Task, checked: BOOLEAN])
ASSUME BoardBounds ==
    /\ Request \in [Syncer -> SUBSET (Execution \X DOMAIN Line)]
    /\ Reportable \subseteq Execution \X Task
    /\ Movable \subseteq Task /\ Shown \subseteq Status
ASSUME CrashesAssumption == MaxCrashes \in Nat

File == DOMAIN Line
KeysOf(f) == {Line[f][i].task : i \in DOMAIN Line[f]}

VARIABLES
    card,       \* tasks: identifier -> its row
    syncs,      \* task_syncs, in the order of syncedAt
    reported,   \* progress-reported events: <<execution, task>>
    proposals,  \* task_status_proposals
    verdicts,   \* verdict events of the proposals
    strict,     \* projects.taskMoveRequiresApproval
    clock,      \* the time of the last verdict taken
    spc, want, seen, line, latest, todo, \* a sync under way
    ppc, req, view,                      \* a proposal or an answer under way
    moves,      \* history: proposals applied, with the approver
    due,        \* history: cards a report has reached and no person moved since
    marked,     \* history: the file whose absences were marked last
    crashes

rows == <<card, syncs, reported, proposals, verdicts, strict>>
sync == <<spc, want, seen, line, latest, todo>>
person == <<ppc, req, view, clock>>
history == <<moves, due, marked, crashes>>
boardVars == <<rows, sync, person, history>>

Proposal == [task: Task, actor: Actor, from: Status, to: Wanted]
Unread == [t \in Task |-> NoCard]
NoOne == "no one"
NoReq == [p |-> NoOne, by |-> NoOne, way |-> "first", at |-> 0, out |-> "none"]

BoardInit ==
    /\ card = Unread
    /\ syncs = <<>>
    /\ reported = {}
    /\ proposals = {}
    /\ verdicts = {}
    /\ strict \in BOOLEAN
    /\ clock = 0
    /\ spc = [r \in Syncer |-> "idle"]
    /\ want = [r \in Syncer |-> <<>>]
    /\ seen = [r \in Syncer |-> Unread]
    /\ line = [r \in Syncer |-> 1]
    /\ latest = [r \in Syncer |-> 0]
    /\ todo = [r \in Syncer |-> {}]
    /\ ppc = [h \in Handler |-> "idle"]
    /\ req = [h \in Handler |-> NoReq]
    /\ view = [h \in Handler |-> "none"]
    /\ moves = {}
    /\ due = {}
    /\ marked = "none"
    /\ crashes = 0
-----------------------------------------------------------------------------
(* The sync of a file. *)

Recorded(key) == \E i \in DOMAIN syncs : <<syncs[i].exec, syncs[i].file>> = key

\* A request arrives: a replayed key answers from the stored row.
SyncFind(r) ==
    /\ \/ spc[r] = "idle" /\ want' \in {[want EXCEPT ![r] = k] : k \in Request[r]}
       \/ spc[r] = "again" /\ UNCHANGED want
    /\ spc' = [spc EXCEPT ![r] = IF Recorded(want'[r]) THEN "done" ELSE "read"]
    /\ UNCHANGED <<rows, seen, line, latest, todo, person, history>>

\* The one read every status of this sync is decided from.
SyncRead(r) ==
    /\ spc[r] = "read"
    /\ seen' = [seen EXCEPT ![r] = card]
    /\ line' = [line EXCEPT ![r] = 1]
    /\ spc' = [spc EXCEPT ![r] = "upsert"]
    /\ UNCHANGED <<rows, want, latest, todo, person, history>>

SyncUpsert(r) ==
    LET lines == Line[want[r][2]]
        l == lines[line[r]]
    IN  /\ spc[r] = "upsert"
        /\ line[r] <= Len(lines)
        /\ card' = [card EXCEPT ![l.task] = reconcile(seen[r][l.task], l.checked)]
        /\ line' = [line EXCEPT ![r] = @ + 1]
        /\ UNCHANGED <<syncs, reported, proposals, verdicts, strict,
                       spc, want, seen, latest, todo, person, history>>

\* Mutant: the flag is never cleared.
MarkedSeen(f) ==
    [t \in Task |-> IF card[t] = NoCard THEN NoCard
                    ELSE [card[t] EXCEPT !.present = @ \/ t \in KeysOf(f)]]

\* One statement sets the flag both ways; nothing parsed is deleted.
Marked(f) ==
    [t \in Task |-> IF card[t] = NoCard THEN NoCard
                    ELSE [card[t] EXCEPT !.present = t \in KeysOf(f)]]

MarkAbsent(r) ==
    /\ spc[r] = "upsert"
    /\ line[r] > Len(Line[want[r][2]])
    /\ card' = Marked(want[r][2])
    /\ marked' = want[r][2]
    /\ spc' = [spc EXCEPT ![r] = "latest"]
    /\ UNCHANGED <<syncs, reported, proposals, verdicts, strict,
                   want, seen, line, latest, todo, person, moves, due, crashes>>

SyncLatest(r) ==
    /\ spc[r] = "latest"
    /\ latest' = [latest EXCEPT ![r] = Len(syncs)]
    /\ spc' = [spc EXCEPT ![r] = "record"]
    /\ UNCHANGED <<rows, want, seen, line, todo, person, history>>

\* A second sync of one execution with another digest: no command ran between.
OutOfBand(r) ==
    /\ latest[r] # 0
    /\ syncs[latest[r]].file # want[r][2]
    /\ syncs[latest[r]].exec = want[r][1]

\* The locals of a request are gone when it has used them, or dies.
Forget(r) ==
    /\ seen' = [seen EXCEPT ![r] = Unread]
    /\ line' = [line EXCEPT ![r] = 1]
    /\ latest' = [latest EXCEPT ![r] = 0]

\* The key is unique: the loser of a race is answered the row of the winner.
RecordSync(r) ==
    /\ spc[r] = "record"
    /\ syncs' = IF Recorded(want[r]) THEN syncs
                ELSE Append(syncs, [exec |-> want[r][1], file |-> want[r][2],
                                    outOfBand |-> OutOfBand(r)])
    /\ spc' = [spc EXCEPT ![r] = "apply"]
    /\ Forget(r)
    /\ UNCHANGED <<card, reported, proposals, verdicts, strict, want, todo, person, history>>

\* Reports are found through the recorded syncs of their execution.
ReportedTasks ==
    {t \in Task : \E i \in DOMAIN syncs : <<syncs[i].exec, t>> \in reported}

\* applyFor: a report moves an existing card that is not already done by one.
ApplyRead(r) ==
    LET known == {t \in ReportedTasks : card[t] # NoCard}
        left == {t \in known : ~(card[t].status = "done" /\ card[t].source = "event")}
    IN  /\ spc[r] = "apply"
        /\ todo' = [todo EXCEPT ![r] = left]
        /\ due' = due \cup known
        /\ spc' = [spc EXCEPT ![r] = IF left = {} THEN "done" ELSE "applying"]
        /\ UNCHANGED <<rows, want, seen, line, latest, person, moves, marked, crashes>>

ApplyReport(r, t) ==
    /\ spc[r] = "applying"
    /\ t \in todo[r]
    /\ card' = [card EXCEPT ![t].status = "done", ![t].source = "event"]
    /\ todo' = [todo EXCEPT ![r] = @ \ {t}]
    /\ spc' = [spc EXCEPT ![r] = IF todo[r] = {t} THEN "done" ELSE "applying"]
    /\ UNCHANGED <<syncs, reported, proposals, verdicts, strict,
                   want, seen, line, latest, person, history>>

Crash(r) ==
    /\ spc[r] \notin {"idle", "again", "done"}
    /\ crashes < MaxCrashes
    /\ crashes' = crashes + 1
    /\ spc' = [spc EXCEPT ![r] = "again"]
    /\ todo' = [todo EXCEPT ![r] = {}]
    /\ Forget(r)
    /\ UNCHANGED <<rows, want, person, moves, due, marked>>

\* An implement run appends progress-reported for a task it ticked.
Report(e, t) ==
    /\ <<e, t>> \in Reportable \ reported
    /\ reported' = reported \cup {<<e, t>>}
    /\ UNCHANGED <<card, syncs, proposals, verdicts, strict, sync, person, history>>

SyncStep(r) ==
    \/ SyncFind(r) \/ SyncRead(r) \/ SyncUpsert(r) \/ MarkAbsent(r)
    \/ SyncLatest(r) \/ RecordSync(r) \/ ApplyRead(r) \/ Crash(r)
    \/ \E t \in Task : ApplyReport(r, t)
-----------------------------------------------------------------------------
(* People. *)

\* A person drags a card; the client sends the status its page shows, which
\* may be an old one, and the handler reads the card.
Drag(h) ==
    /\ ppc[h] = "idle"
    /\ \E t \in Movable, a \in Actor, from \in Shown, to \in Wanted :
        /\ card[t] # NoCard
        /\ to # from
        /\ req' = [req EXCEPT ![h].p = [task |-> t, actor |-> a, from |-> from, to |-> to]]
        /\ view' = [view EXCEPT ![h] = card[t].status]
    /\ ppc' = [ppc EXCEPT ![h] = "propose"]
    /\ UNCHANGED <<rows, sync, clock, history>>

\* Mutant: an agent is judged as a person is.
JudgementOfAgents(h) ==
    LET p == req[h].p
    IN  IF p.actor \notin May THEN "refused"
        ELSE IF view[h] # p.from THEN "inconsistent"
        ELSE IF strict THEN "approval_required" ELSE "none"

\* The most specific refusal wins; "none" lets the move apply.
Judgement(h) ==
    LET p == req[h].p
    IN  IF p.actor \notin May \/ p.actor \in Agent THEN "refused"
        ELSE IF view[h] # p.from THEN "inconsistent"
        ELSE IF strict THEN "approval_required" ELSE "none"

\* The key is the request itself, so the same move asked again is a replay: it
\* is adjudicated again, but nothing of that is recorded.
RecordProposal(h) ==
    /\ ppc[h] = "propose"
    /\ proposals' = proposals \cup {req[h].p}
    /\ clock' = clock + 1
    /\ req' = [req EXCEPT ![h].way = IF req[h].p \in proposals THEN "replay" ELSE "first",
                          ![h].at = clock', ![h].out = Judgement(h)]
    /\ ppc' = [ppc EXCEPT ![h] = IF Judgement(h) = "none" THEN "apply" ELSE "settle"]
    /\ UNCHANGED <<card, syncs, reported, verdicts, strict, sync, view, history>>

\* A second person answers a waiting proposal.  NoOne approves nothing.
Answer(h) ==
    /\ ppc[h] = "idle"
    /\ \E p \in proposals, a \in Actor, approve \in BOOLEAN :
        LET waiting == foldProposalState(p, verdicts) = "approval_required"
            out == IF ~waiting THEN "inconsistent"
                   ELSE IF a = p.actor \/ a \in Agent \/ a \notin May THEN "refused"
                   ELSE "none"
        IN  /\ clock' = clock + 1
            /\ req' = [req EXCEPT ![h] = [p |-> p, by |-> a, way |-> "second", at |-> clock',
                                          out |-> IF out = "none" /\ ~approve
                                                  THEN "declined" ELSE out]]
            /\ ppc' = [ppc EXCEPT ![h] = IF out = "none" THEN "look" ELSE "settle"]
    /\ UNCHANGED <<rows, sync, view, history>>

\* The approver must not apply a decision about a card that has since moved.
LookAgain(h) ==
    LET moved == card[req[h].p.task].status # req[h].p.from
        out == IF moved THEN "inconsistent"
               ELSE IF req[h].out = "declined" THEN "refused" ELSE "none"
    IN  /\ ppc[h] = "look"
        /\ req' = [req EXCEPT ![h].out = out]
        /\ ppc' = [ppc EXCEPT ![h] = IF out = "none" THEN "apply" ELSE "settle"]
        /\ UNCHANGED <<rows, sync, view, clock, history>>

\* applyStatus writes by id, whatever the card has become.
ApplyMove(h) ==
    LET p == req[h].p
    IN  /\ ppc[h] = "apply"
        /\ card' = [card EXCEPT ![p.task].status = p.to, ![p.task].source = "proposal"]
        /\ req' = [req EXCEPT ![h].out = "applied"]
        /\ ppc' = [ppc EXCEPT ![h] = "settle"]
        /\ moves' = moves \cup {[p |-> p, by |-> req[h].by, strict |-> strict]}
        /\ due' = due \ {p.task}
        /\ UNCHANGED <<syncs, reported, proposals, verdicts, strict, sync, view, clock, marked, crashes>>

\* A replay records nothing; a verdict event is keyed by its path and verdict.
Settle(h) ==
    LET q == req[h]
        again == \E v \in verdicts : v.p = q.p /\ v.way = q.way /\ v.verdict = q.out
    IN  /\ ppc[h] = "settle"
        /\ verdicts' = IF q.way = "replay" \/ again THEN verdicts
                       ELSE verdicts \cup {[p |-> q.p, way |-> q.way,
                                            verdict |-> q.out, at |-> q.at]}
        /\ ppc' = [ppc EXCEPT ![h] = "done"]
        /\ req' = [req EXCEPT ![h] = NoReq]
        /\ view' = [view EXCEPT ![h] = "none"]
        /\ UNCHANGED <<card, syncs, reported, proposals, strict, sync, clock, history>>

PersonStep(h) ==
    \/ Drag(h) \/ RecordProposal(h)
    \/ Answer(h) \/ LookAgain(h) \/ ApplyMove(h) \/ Settle(h)

BoardNext ==
    \/ \E r \in Syncer : SyncStep(r)
    \/ \E h \in Handler : PersonStep(h)
    \/ \E e \in Execution, t \in Task : Report(e, t)

BoardSpec == BoardInit /\ [][BoardNext]_boardVars
-----------------------------------------------------------------------------
SyncPc == {"idle", "again", "read", "upsert", "latest", "record", "apply", "applying", "done"}
PersonPc == {"idle", "propose", "look", "apply", "settle", "done"}

\* Types of the variables, and the stamps of verdicts lie in the past.
BoardTypeOK ==
    /\ card \in [Task -> Card \cup {NoCard}]
    /\ syncs \in Seq([exec: Execution, file: File, outOfBand: BOOLEAN])
    /\ reported \subseteq Execution \X Task
    /\ proposals \subseteq Proposal
    /\ verdicts \subseteq [p: Proposal, way: {"first", "second"}, verdict: Verdict, at: 1..clock]
    /\ strict \in BOOLEAN
    /\ clock \in Nat
    /\ spc \in [Syncer -> SyncPc]
    /\ want \in [Syncer -> {<<>>} \cup Execution \X File]
    /\ seen \in [Syncer -> [Task -> Card \cup {NoCard}]]
    /\ line \in [Syncer -> Nat \ {0}]
    /\ \A r \in Syncer : latest[r] \in 0..Len(syncs) /\ todo[r] \subseteq Task
    /\ ppc \in [Handler -> PersonPc]
    /\ view \in [Handler -> Status \cup {"none"}]
    /\ \A h \in Handler : ppc[h] \in {"idle", "done"} \/ req[h].p \in Proposal
    /\ due \subseteq Task
    /\ crashes \in 0..MaxCrashes

Quiet == crashes = 0 /\ \A r \in Syncer : spc[r] \in {"idle", "done"}

\* When syncs of different files have interleaved and all ended, the cards shown
\* as present are exactly those of the file that was parsed last, and a card a
\* progress report has reached, and no person has moved since, is done: syncs that
\* rewrite it from an older read apply the reports again (upsertTask, markAbsent,
\* applyFor after every recorded sync).
BoardAgreesAtRest ==
    Quiet =>
        /\ marked \in File => {t \in Task : card[t].present} = KeysOf(marked)
        /\ \A t \in due : card[t].status = "done"

People == May \ Agent

\* A card is in progress or blocked only because a person who may move cards
\* asked for it; where the project requires an approver, another such person
\* approved it.  No interleaving with syncs, replays and answers gets around it
\* (adjudicate, adjudicatePending, reconcile, applyFor).  Includes the types.
ChosenByPeople == BoardTypeOK /\
    \A t \in Task : card[t].status \in {"in_progress", "blocked"} =>
        \E m \in moves :
            /\ m.p.task = t /\ m.p.to = card[t].status
            /\ m.p.actor \in People
            /\ strict => m.by \in People \ {m.p.actor}

\* FR-KAN-023: a tasks.md whose digest differs from that of the last sync "while
\* no governed command ran between them MUST be recorded as an out-of-band edit":
\* of two syncs of one execution recorded one after the other, with different
\* contents, the later is flagged.  Not kept: both may read the latest row before
\* either records its own.
EditsAreFlagged ==
    \A i \in 2..Len(syncs) :
        /\ syncs[i - 1].exec = syncs[i].exec
        /\ syncs[i - 1].file # syncs[i].file
        => syncs[i].outOfBand

\* FR-KAN-016: "Two proposals for the same task MUST both be recorded; at most
\* one MUST be applied, and the other's verdict MUST state that the task had
\* already moved": a proposal applies only to a card that is where it expects.
\* Not kept: applyStatus writes by id, after a read that may be stale.
AppliedWhereExpected ==
    [][\A h \in Handler : ApplyMove(h) => card[req[h].p.task].status = req[h].p.from]_boardVars

\* "The same click twice.  The original verdict stands" (propose): a proposal
\* refused or found inconsistent on its first adjudication never moves the card.
\* Not kept: a replay is judged again, with recording off, and may apply.
OriginalVerdictStands ==
    \A v \in verdicts : v.way = "first" /\ v.verdict \in {"refused", "inconsistent"} =>
        ~\E m \in moves : m.p = v.p
=============================================================================
