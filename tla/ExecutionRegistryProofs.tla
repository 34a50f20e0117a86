---------------------- MODULE ExecutionRegistryProofs ----------------------
(***************************************************************************)
(* Proofs that the execution registry keeps its types and its streams,     *)
(* for any number of executions, keys, handlers and requests.              *)
(***************************************************************************)
EXTENDS ExecutionRegistry, FiniteSetTheorems, SequenceTheorems,
        WellFoundedInduction, TLAPS

\* No two events of an execution have the same sequence.
SeqsUnique ==
    \A e, f \in events : e.exec = f.exec /\ e.seq = f.seq => e = f

\* The inductive invariant.  Uniqueness of sequences is what makes the event
\* at a sequence, and so the chain, well defined; finiteness is what makes the
\* length of a stream, and the number of the next comment, a number.
IInv ==
    /\ TypeOK
    /\ IsFiniteSet(events) /\ IsFiniteSet(comments)
    /\ SeqsUnique
    /\ StreamWellFormed
    /\ TerminalAbsorbs
    /\ OncePerKey
----------------------------------------------------------------------------
\* Streams

\* Types of the row an append writes rest on the types of requests.
LEMMA RequestTypes ==
    ASSUME NEW r \in Requests
    PROVE  /\ r \in Request
           /\ r.op \in Operation /\ r.key \in Key /\ r.exec \in Exec
           /\ r.type \in EventTypes /\ r.content \in Content
<1>1. r \in Request
  BY RequestsAssumption
<1>2. QED
  BY <1>1 DEF Request

\* The head of a dense stream is its length.
LEMMA HeadIsLength ==
    ASSUME NEW x \in Exec, IsFiniteSet(events),
           Seqs(x) = 1..Cardinality(EventsOf(x))
    PROVE  /\ HeadSeq(x) = Cardinality(EventsOf(x))
           /\ HeadSeq(x) \in Nat
<1> DEFINE n == Cardinality(EventsOf(x))
<1>1. IsFiniteSet(EventsOf(x)) /\ n \in Nat
  BY FS_Subset, FS_CardinalityType DEF EventsOf
<1>2. CASE EventsOf(x) = {}
  BY <1>2, FS_EmptySet DEF HeadSeq
<1>3. CASE EventsOf(x) # {}
  <2>1. n > 0
    BY <1>1, <1>3, FS_EmptySet
  <2>2. HeadSeq(x) = CHOOSE k \in 1..n : \A m \in 1..n : m <= k
    BY <1>3 DEF HeadSeq
  <2>3. n \in 1..n /\ \A m \in 1..n : m <= n
    BY <1>1, <2>1
  <2>4. HeadSeq(x) \in 1..n /\ \A m \in 1..n : m <= HeadSeq(x)
    BY <2>2, <2>3
  <2>5. QED
    BY <1>1, <2>3, <2>4
<1>4. QED
  BY <1>2, <1>3

\* In a stream without duplicates, the event at a sequence is that event.
LEMMA EventAtUnique ==
    ASSUME SeqsUnique, NEW x \in Exec, NEW e \in EventsOf(x)
    PROVE  EventAt(x, e.seq) = e
<1>1. EventAt(x, e.seq) \in EventsOf(x) /\ EventAt(x, e.seq).seq = e.seq
  BY DEF EventAt
<1>2. QED
  BY <1>1 DEF SeqsUnique, EventsOf

\* A non-empty set of rows with bounded sequences has a last row.
LEMMA LastExists ==
    ASSUME NEW D, NEW n \in Nat, D # {},
           \A e \in D : e.seq \in Nat /\ e.seq <= n
    PROVE  \E e \in D : \A f \in D : f.seq <= e.seq
<1> DEFINE B == {n - e.seq : e \in D}
<1>1. B \in SUBSET Nat /\ B # {}
  OBVIOUS
<1>2. PICK b \in B : \A c \in B : <<c, b>> \notin OpToRel(<, Nat)
  <2>1. IsWellFoundedOn(OpToRel(<, Nat), Nat)
    BY NatLessThanWellFounded
  <2> HIDE DEF B
  <2>2. QED
    BY <1>1, <2>1, WFMin, Zenon
<1>3. PICK e \in D : b = n - e.seq
  BY <1>2
<1>4. \A f \in D : n - e.seq <= n - f.seq
  <2>1. SUFFICES ASSUME NEW f \in D, n - f.seq < n - e.seq PROVE FALSE
    OBVIOUS
  <2>2. <<n - f.seq, n - e.seq>> \in OpToRel(<, Nat)
    BY <2>1 DEF OpToRel
  <2>3. QED
    BY <1>2, <1>3, <2>2
<1>5. QED
  BY <1>4

\* The fold of any prefix is a lifecycle event.
LEMMA FoldType ==
    ASSUME events \subseteq Row, NEW x \in Exec, NEW n \in Nat
    PROVE  Fold(x, n) \in LifecycleEvents
<1>1. CASE Deciding(x, n) = {}
  BY <1>1 DEF Fold, LifecycleEvents
<1>2. CASE Deciding(x, n) # {}
  <2>1. \A e \in Deciding(x, n) : e.seq \in Nat /\ e.seq <= n
    BY DEF Deciding, EventsOf, Row
  <2>2. \E e \in Deciding(x, n) : \A f \in Deciding(x, n) : f.seq <= e.seq
    BY <1>2, <2>1, LastExists
  <2>3. LastOf(Deciding(x, n)) \in Deciding(x, n)
    BY <2>2 DEF LastOf
  <2>4. QED
    BY <1>2, <2>3 DEF Fold, Deciding
<1>3. QED
  BY <1>1, <1>2
----------------------------------------------------------------------------
\* Appending a row

\* The row an append writes has the type of a row.
LEMMA NewRowType ==
    ASSUME IInv, NEW h \in Handler
    PROVE  NewRow(h) \in Row
<1> DEFINE x == req[h].exec
<1>1. req[h] \in Requests /\ note[h] \in Nat
  BY DEF IInv, TypeOK
<1>2. /\ x \in Exec /\ req[h].key \in Key
      /\ req[h].type \in EventTypes /\ req[h].content \in Content
  BY <1>1, RequestTypes
<1>3. HeadSeq(x) \in Nat
  BY <1>2, HeadIsLength DEF IInv, StreamWellFormed
<1>4. KeyOf(req[h]) \in EventKey
  BY <1>2 DEF KeyOf, EventKey
<1>5. PayloadOf(h) \in Payload
  BY <1>1, <1>2 DEF PayloadOf, Payload
<1>6. Previous(x) \in SUBSET EventKey
  <2>1. CASE HeadSeq(x) = 0
    BY <2>1 DEF Previous
  <2>2. CASE HeadSeq(x) # 0
    <3>1. HeadSeq(x) \in Seqs(x)
      BY <1>2, <1>3, <2>2, HeadIsLength DEF IInv, StreamWellFormed
    <3>2. EventAt(x, HeadSeq(x)) \in events
      BY <3>1 DEF EventAt, Seqs, EventsOf
    <3>3. EventAt(x, HeadSeq(x)).key \in EventKey
      BY <3>2 DEF IInv, TypeOK, Row
    <3>4. QED
      BY <2>2, <3>3 DEF Previous
  <2>3. QED
    BY <2>1, <2>2
<1>7. QED
  BY <1>2, <1>3, <1>4, <1>5, <1>6 DEF NewRow, Row

\* Sequences of rows are numbers.
LEMMA RowsTyped ==
    ASSUME IInv
    PROVE  \A e \in events : e.seq \in Nat
BY DEF IInv, TypeOK, Row

\* The row appended is the only change of one stream: it comes right after the
\* head, and the streams of other executions stay as they are.
LEMMA AppendedStream ==
    ASSUME IInv, NEW h \in Handler, events' = events \cup {NewRow(h)},
           NEW x, x = req[h].exec
    PROVE  /\ x \in Exec
           /\ EventsOf(x)' = EventsOf(x) \cup {NewRow(h)}
           /\ \A y \in Exec \ {x} : EventsOf(y)' = EventsOf(y)
           /\ HeadSeq(x) \in Nat /\ HeadSeq(x) = Cardinality(EventsOf(x))
           /\ \A e \in EventsOf(x) : e.seq \in 1..HeadSeq(x)
           /\ NewRow(h).seq = HeadSeq(x) + 1 /\ NewRow(h).exec = x
           /\ \A e \in events : e.exec = x => e.seq < NewRow(h).seq
<1>1. x \in Exec
  BY RequestTypes DEF IInv, TypeOK
<1>2. NewRow(h).exec = x /\ NewRow(h).seq = HeadSeq(x) + 1
  BY DEF NewRow
<1>3. EventsOf(x)' = EventsOf(x) \cup {NewRow(h)}
  BY <1>2 DEF EventsOf
<1>4. \A y \in Exec \ {x} : EventsOf(y)' = EventsOf(y)
  BY <1>2 DEF EventsOf
<1>5. HeadSeq(x) \in Nat /\ HeadSeq(x) = Cardinality(EventsOf(x))
  BY <1>1, HeadIsLength DEF IInv, StreamWellFormed
<1>6. \A e \in EventsOf(x) : e.seq \in 1..HeadSeq(x)
  BY <1>1, <1>5 DEF IInv, StreamWellFormed, Seqs
<1>7. \A e \in events : e.exec = x => e.seq < NewRow(h).seq
  BY <1>2, <1>5, <1>6 DEF EventsOf
<1>8. QED
  BY <1>1, <1>2, <1>3, <1>4, <1>5, <1>6, <1>7

\* An append keeps sequences unique.
LEMMA AppendKeepsSeqsUnique ==
    ASSUME IInv, NEW h \in Handler, events' = events \cup {NewRow(h)}
    PROVE  SeqsUnique'
<1>1. SUFFICES ASSUME NEW e \in events', NEW f \in events',
                      e.exec = f.exec, e.seq = f.seq
               PROVE  e = f
  BY DEF SeqsUnique
<1>2. CASE e \in events /\ f \in events
  BY <1>1, <1>2 DEF IInv, SeqsUnique
<1>3. NewRow(h).exec = req[h].exec
  BY DEF NewRow
<1>4. \A g \in events :
          g.exec = req[h].exec => g.seq # NewRow(h).seq
  BY AppendedStream, RowsTyped
<1>5. QED
  BY <1>1, <1>2, <1>3, <1>4

\* An append leaves every event of its stream where it was.
LEMMA AppendKeepsEventAt ==
    ASSUME IInv, NEW h \in Handler, events' = events \cup {NewRow(h)},
           NEW x, x = req[h].exec, NEW k \in 1..HeadSeq(x)
    PROVE  EventAt(x, k)' = EventAt(x, k)
<1> PICK r : r = NewRow(h)
  OBVIOUS
<1>1. /\ x \in Exec /\ EventsOf(x)' = EventsOf(x) \cup {r}
      /\ HeadSeq(x) = Cardinality(EventsOf(x))
  BY AppendedStream
<1>2. PICK e \in EventsOf(x) : e.seq = k
  BY <1>1 DEF Seqs, IInv, StreamWellFormed
<1>3. EventAt(x, k) = e
  BY <1>1, <1>2, EventAtUnique DEF IInv
<1>4. e \in EventsOf(x)' /\ \A f \in EventsOf(x)' : f.seq = k => f = e
  BY <1>1, <1>2, AppendKeepsSeqsUnique DEF SeqsUnique, EventsOf
<1>5. EventAt(x, k)' = e
  BY <1>2, <1>4 DEF EventAt
<1>6. QED
  BY <1>3, <1>5

\* An append keeps every stream dense and chained.
LEMMA AppendKeepsStreams ==
    ASSUME IInv, NEW h \in Handler, events' = events \cup {NewRow(h)},
           NewRow(h) \notin events
    PROVE  StreamWellFormed'
<1> PICK x, n, r : x = req[h].exec /\ n = HeadSeq(x) /\ r = NewRow(h)
  OBVIOUS
<1>1. /\ x \in Exec /\ n \in Nat /\ n = Cardinality(EventsOf(x))
      /\ EventsOf(x)' = EventsOf(x) \cup {r}
      /\ \A y \in Exec \ {x} : EventsOf(y)' = EventsOf(y)
      /\ \A e \in EventsOf(x) : e.seq \in 1..n
  BY AppendedStream
<1>2. r.seq = n + 1 /\ r.exec = x /\ r.prev = Previous(x)
  BY DEF NewRow
<1>3. Seqs(x) = 1..n
  BY <1>1 DEF IInv, StreamWellFormed
<1>4. \A y \in Exec \ {x} : /\ Seqs(y)' = 1..Cardinality(EventsOf(y)')
                            /\ \A k \in Seqs(y) : EventAt(y, k)' = EventAt(y, k)
  BY <1>1 DEF Seqs, EventAt, IInv, StreamWellFormed
<1>5. Cardinality(EventsOf(x)') = n + 1
  <2>1. IsFiniteSet(EventsOf(x))
    BY FS_Subset DEF IInv, EventsOf
  <2>2. r \notin EventsOf(x)
    BY DEF EventsOf
  <2>3. Cardinality(EventsOf(x) \cup {r}) = Cardinality(EventsOf(x)) + 1
    BY <2>1, <2>2, FS_AddElement
  <2>4. QED
    BY <1>1, <2>3
<1>6. Seqs(x)' = 1..(n + 1)
  <2>1. Seqs(x)' = Seqs(x) \cup {r.seq}
    BY <1>1 DEF Seqs
  <2>2. Seqs(x)' = (1..n) \cup {n + 1}
    BY <1>2, <1>3, <2>1
  <2>3. (1..n) \cup {n + 1} = 1..(n + 1)
    BY <1>1
  <2>4. QED
    BY <2>2, <2>3
<1>7. \A k \in 1..n : EventAt(x, k)' = EventAt(x, k)
  BY AppendKeepsEventAt
<1>8. \A e \in EventsOf(x)' :
          e.prev = IF e.seq = 1 THEN {} ELSE {EventAt(x, e.seq - 1)'.key}
  <2>1. SUFFICES ASSUME NEW e \in EventsOf(x)'
                 PROVE  e.prev = IF e.seq = 1 THEN {}
                                 ELSE {EventAt(x, e.seq - 1)'.key}
    OBVIOUS
  <2>2. CASE e \in EventsOf(x)
    <3>1. e.prev = IF e.seq = 1 THEN {} ELSE {EventAt(x, e.seq - 1).key}
      BY <1>1, <2>2 DEF IInv, StreamWellFormed
    <3>2. e.seq # 1 => e.seq - 1 \in 1..n
      BY <1>1, <2>2
    <3>3. QED
      BY <1>7, <3>1, <3>2
  <2>3. CASE e = r
    <3>1. e.prev = IF n = 0 THEN {} ELSE {EventAt(x, n).key}
      BY <1>2, <2>3 DEF Previous
    <3>2. n # 0 => EventAt(x, n)' = EventAt(x, n)
      BY <1>1, <1>7
    <3>3. e.seq - 1 = n /\ (e.seq = 1 <=> n = 0)
      BY <1>1, <1>2, <2>3
    <3>4. QED
      BY <3>1, <3>2, <3>3
  <2>4. QED
    BY <1>1, <2>1, <2>2, <2>3
<1>9. SUFFICES ASSUME NEW y \in Exec
               PROVE  /\ Seqs(y)' = 1..Cardinality(EventsOf(y)')
                      /\ \A e \in EventsOf(y)' :
                             e.prev = IF e.seq = 1 THEN {}
                                      ELSE {EventAt(y, e.seq - 1)'.key}
  BY DEF StreamWellFormed
<1>10. CASE y = x
  BY <1>5, <1>6, <1>8, <1>10
<1>11. CASE y # x
  <2>1. \A e \in EventsOf(y) : e.seq # 1 => e.seq - 1 \in Seqs(y)
    <3>1. /\ IsFiniteSet(EventsOf(y)) /\ Cardinality(EventsOf(y)) \in Nat
          /\ Seqs(y) = 1..Cardinality(EventsOf(y))
      BY FS_Subset, FS_CardinalityType DEF IInv, StreamWellFormed, EventsOf
    <3>2. \A e \in EventsOf(y) : e.seq \in 1..Cardinality(EventsOf(y))
      BY <3>1 DEF Seqs
    <3>3. QED
      BY <3>1, <3>2
  <2>2. \A e \in EventsOf(y) :
            e.prev = IF e.seq = 1 THEN {} ELSE {EventAt(y, e.seq - 1).key}
    BY DEF IInv, StreamWellFormed
  <2>3. EventsOf(y)' = EventsOf(y) /\ Seqs(y)' = 1..Cardinality(EventsOf(y)')
    BY <1>1, <1>4, <1>11
  <2>4. \A k \in Seqs(y) : EventAt(y, k)' = EventAt(y, k)
    BY <1>4, <1>11
  <2>5. QED
    BY <2>1, <2>2, <2>3, <2>4
<1>12. QED
  BY <1>10, <1>11

\* An append keeps terminal events final: a lifecycle event is appended to
\* open streams only, and everything else comes after what is there.
LEMMA AppendKeepsTerminal ==
    ASSUME IInv, NEW h \in Handler, MayAppend(h),
           events' = events \cup {NewRow(h)}
    PROVE  TerminalAbsorbs'
<1>1. SUFFICES ASSUME NEW e \in events', NEW f \in events', e.exec = f.exec,
                      e.type \in TerminalLifecycle, f.type \in LifecycleEvents
               PROVE  f.seq <= e.seq
  BY DEF TerminalAbsorbs
<1>2. CASE e \in events /\ f \in events
  BY <1>1, <1>2 DEF IInv, TerminalAbsorbs
<1>3. /\ NewRow(h).exec = req[h].exec /\ NewRow(h).type = req[h].type
      /\ NewRow(h).seq \in Nat
  BY AppendedStream DEF NewRow
<1>4. \A g \in events :
          g.exec = req[h].exec => g.seq <= NewRow(h).seq
  BY AppendedStream, RowsTyped, <1>3
<1>5. CASE e \in events /\ f = NewRow(h)
  BY <1>1, <1>3, <1>5 DEF MayAppend, Closed, EventsOf
<1>6. CASE e = NewRow(h) /\ f \in events
  BY <1>1, <1>3, <1>4, <1>6
<1>7. CASE e = NewRow(h) /\ f = NewRow(h)
  BY <1>3, <1>7, AppendedStream
<1>8. QED
  BY <1>1, <1>2, <1>5, <1>6, <1>7
----------------------------------------------------------------------------
\* The inductive step

\* The part of the types that answering and continuing disturb.
HandlersTyped ==
    /\ pc \in [Handler -> Step]
    /\ req \in [Handler -> Requests]
    /\ note \in [Handler -> Nat]
    /\ reply \in [Handler -> [outcome: Outcome, seq: Nat]]

\* Answering leaves the handlers typed: the handler is idle again and its
\* request has no meaning.
LEMMA AnswerTyped ==
    ASSUME TypeOK, NEW h \in Handler, NEW o \in Outcome, NEW n \in Nat,
           Answer(h, o, n)
    PROVE  HandlersTyped'
<1>1. NoRequest \in Requests
  BY RequestsAssumption DEF NoRequest
<1>2. "idle" \in Step
  BY DEF Step
<1>3. QED
  BY <1>1, <1>2 DEF TypeOK, HandlersTyped, Answer

\* Going on to another step leaves the handlers typed.
LEMMA ContinueTyped ==
    ASSUME TypeOK, NEW h \in Handler, NEW s \in Step, NEW n \in Nat,
           ContinueWith(h, s, n)
    PROVE  HandlersTyped'
BY DEF TypeOK, HandlersTyped, ContinueWith

\* Steps that leave events and root alone keep what IInv says of streams.
LEMMA StreamsUnchanged ==
    ASSUME IInv, UNCHANGED events
    PROVE  /\ IsFiniteSet(events)' /\ SeqsUnique' /\ StreamWellFormed'
           /\ TerminalAbsorbs'
           /\ (\A e, f \in events : e.key = f.key => e = f)'
<1>1. StreamWellFormed'
  <2>1. \A x \in Exec :
            /\ EventsOf(x)' = EventsOf(x) /\ Seqs(x)' = Seqs(x)
            /\ \A n : EventAt(x, n)' = EventAt(x, n)
    BY DEF EventsOf, Seqs, EventAt
  <2>2. QED
    BY <2>1 DEF IInv, StreamWellFormed
<1>2. QED
  BY <1>1 DEF IInv, SeqsUnique, TerminalAbsorbs, OncePerKey

\* Steps of a handler that leave the database alone.
LEMMA ReadOnlyStep ==
    ASSUME IInv, UNCHANGED db, HandlersTyped'
    PROVE  IInv'
<1>1. TypeOK' /\ IsFiniteSet(comments)' /\ OncePerKey'
  BY DEF IInv, TypeOK, HandlersTyped, OncePerKey, db
<1>2. QED
  BY <1>1, StreamsUnchanged DEF IInv, db

\* Accepting a request changes nothing but the handler that serves it.
LEMMA ReceiveStep ==
    ASSUME IInv, NEW h \in Handler, NEW r \in Requests, Receive(h, r)
    PROVE  IInv'
<1>1. FirstStep[r.op] \in Step
  BY RequestTypes DEF Operation, FirstStep, Step
<1>2. HandlersTyped'
  BY <1>1 DEF Receive, HandlersTyped, IInv, TypeOK, Outcome
<1>3. QED
  BY <1>2, ReadOnlyStep DEF Receive, db

\* The lookup of a registration key reads only.
LEMMA RegisterReplayStep ==
    ASSUME IInv, NEW h \in Handler, RegisterReplay(h)
    PROVE  IInv'
<1>1. CASE Continue(h, "regInsert")
  BY <1>1, ContinueTyped, ReadOnlyStep
     DEF RegisterReplay, Continue, Step, IInv, TypeOK
<1>2. CASE Answer(h, "ok", 0) \/ Answer(h, "refused", 0)
  BY <1>2, AnswerTyped, ReadOnlyStep DEF RegisterReplay, Outcome, IInv
<1>3. QED
  BY <1>1, <1>2 DEF RegisterReplay

\* Registration keeps one execution per key: the key is read and the row
\* inserted in one transaction.
LEMMA RegisterInsertStep ==
    ASSUME IInv, NEW h \in Handler, RegisterInsert(h)
    PROVE  IInv'
<1> USE DEF Outcome, Step
<1>1. HandlersTyped'
  <2>1. CASE InsertRoot(h)
    BY <2>1, ContinueTyped DEF InsertRoot, Continue, IInv, TypeOK
  <2>2. CASE Continue(h, "dedupe")
    BY <2>2, ContinueTyped DEF Continue, IInv, TypeOK
  <2>3. CASE Answer(h, "failed", 0)
    BY <2>3, AnswerTyped DEF IInv
  <2>4. QED
    BY <2>1, <2>2, <2>3 DEF RegisterInsert
<1>2. CASE UNCHANGED root
  BY <1>1, <1>2, ReadOnlyStep DEF RegisterInsert, db
<1>3. CASE Registered(req[h].key) = {} /\ InsertRoot(h)
  <2> PICK x, k, c : /\ x = req[h].exec /\ k = req[h].key
                     /\ c = req[h].content
    OBVIOUS
  <2>1. x \in Exec /\ k \in Key /\ c \in Content
    BY RequestTypes DEF IInv, TypeOK
  <2>2. root' = [root EXCEPT ![x] = {[key |-> k, content |-> c]}]
    BY <1>3 DEF InsertRoot
  <2>3. TypeOK'
    BY <1>1, <2>1, <2>2 DEF RegisterInsert, IInv, TypeOK, HandlersTyped
  <2>4. \A y, z \in Exec : \A r \in root'[y], s \in root'[z] :
            r.key = s.key => y = z
    <3>1. \A y \in Exec : \A r \in root[y] : r.key # k
      BY <1>3 DEF Registered
    <3>2. \A y \in Exec \ {x} : root'[y] = root[y]
      BY <2>1, <2>2 DEF IInv, TypeOK
    <3>3. \A r \in root'[x] : r.key = k
      BY <2>1, <2>2 DEF IInv, TypeOK
    <3>4. QED
      BY <3>1, <3>2, <3>3 DEF IInv, OncePerKey
  <2>5. OncePerKey' /\ IsFiniteSet(comments)'
    BY <2>4, StreamsUnchanged DEF RegisterInsert, OncePerKey, IInv
  <2>6. QED
    BY <2>3, <2>5, StreamsUnchanged DEF RegisterInsert, IInv
<1>4. QED
  BY <1>2, <1>3 DEF RegisterInsert

\* Binding an output touches no stream: complete() binds in a transaction of
\* its own.
LEMMA BindOutputStep ==
    ASSUME IInv, NEW h \in Handler, BindOutput(h)
    PROVE  IInv'
<1>1. HandlersTyped'
  BY ContinueTyped DEF BindOutput, Continue, IInv, TypeOK, Step
<1>2. req[h].content \in Content
  BY RequestTypes DEF IInv, TypeOK
<1>3. output' \in [Exec -> SUBSET Content]
  BY <1>2 DEF BindOutput, IInv, TypeOK
<1>4. TypeOK' /\ OncePerKey' /\ IsFiniteSet(comments)'
  BY <1>1, <1>3 DEF BindOutput, IInv, TypeOK, HandlersTyped, OncePerKey
<1>5. QED
  BY <1>4, StreamsUnchanged DEF BindOutput, IInv

\* A comment is a new row of its own table, numbered by how many there are.
LEMMA InsertCommentStep ==
    ASSUME IInv, NEW h \in Handler, InsertComment(h)
    PROVE  IInv'
<1> DEFINE row == Cardinality(comments) + 1
<1>1. row \in Nat
  BY FS_CardinalityType DEF IInv
<1>2. HandlersTyped'
  <2>1. CASE Answer(h, "refused", 0)
    BY <2>1, AnswerTyped DEF IInv, Outcome
  <2>2. CASE ContinueWith(h, "dedupe", row)
    BY <1>1, <2>2, ContinueTyped DEF IInv, Step
  <2>3. QED
    BY <2>1, <2>2 DEF InsertComment
<1>3. CASE UNCHANGED comments
  BY <1>2, <1>3, ReadOnlyStep DEF InsertComment, db
<1>4. CASE comments' = comments \cup {[row |-> row, exec |-> req[h].exec]}
  <2>1. req[h].exec \in Exec
    BY RequestTypes DEF IInv, TypeOK
  <2>2. comments' \subseteq [row: Nat, exec: Exec]
    BY <1>1, <1>4, <2>1 DEF IInv, TypeOK
  <2>3. IsFiniteSet(comments')
    <3> DEFINE new == [row |-> row, exec |-> req[h].exec]
    <3>1. comments' = comments \cup {new} /\ IsFiniteSet(comments)
      BY <1>4 DEF IInv
    <3> HIDE DEF new
    <3>2. QED
      BY <3>1, FS_AddElement
  <2>4. TypeOK' /\ OncePerKey'
    BY <1>2, <2>2
       DEF InsertComment, IInv, TypeOK, HandlersTyped, OncePerKey
  <2>5. QED
    BY <2>3, <2>4, StreamsUnchanged DEF InsertComment, IInv
<1>5. QED
  BY <1>3, <1>4 DEF InsertComment

\* The replay lookup of an append reads only.
LEMMA DedupeStep ==
    ASSUME IInv, NEW h \in Handler, Dedupe(h)
    PROVE  IInv'
<1>1. CASE Continue(h, "append")
  BY <1>1, ContinueTyped, ReadOnlyStep
     DEF Dedupe, Continue, Step, IInv, TypeOK
<1>2. CASE \E e \in events : Answer(h, "ok", e.seq)
  BY <1>2, RowsTyped, AnswerTyped, ReadOnlyStep DEF Dedupe, Outcome, IInv
<1>3. CASE Answer(h, "refused", 0)
  BY <1>3, AnswerTyped, ReadOnlyStep DEF Dedupe, Outcome, IInv
<1>4. QED
  BY <1>1, <1>2, <1>3 DEF Dedupe

\* The locked part of an append keeps the invariant: it refuses, fails on the
\* unique index of keys, or writes one row under a new key.
LEMMA AppendStep ==
    ASSUME IInv, NEW h \in Handler, AppendLocked(h)
    PROVE  IInv'
<1>1. NewRow(h) \in Row
  BY NewRowType
<1>2. NewRow(h).seq \in Nat /\ NewRow(h).key = KeyOf(req[h])
  BY <1>1 DEF NewRow, Row
<1>3. HandlersTyped'
  BY <1>2, AnswerTyped DEF AppendLocked, IInv, Outcome
<1>4. CASE UNCHANGED events
  BY <1>3, <1>4, ReadOnlyStep DEF AppendLocked, db
<1>5. CASE /\ MayAppend(h)
           /\ \A e \in events : e.key # KeyOf(req[h])
           /\ events' = events \cup {NewRow(h)}
  <2>1. NewRow(h) \notin events
    BY <1>2, <1>5
  <2>2. SeqsUnique' /\ StreamWellFormed' /\ TerminalAbsorbs'
    BY <1>5, <2>1, AppendKeepsSeqsUnique, AppendKeepsStreams,
       AppendKeepsTerminal
  <2>3. IsFiniteSet(events)' /\ IsFiniteSet(comments)'
    BY <1>5, FS_AddElement DEF IInv, AppendLocked
  <2>4. (\A e, f \in events : e.key = f.key => e = f)'
    BY <1>2, <1>5 DEF IInv, OncePerKey
  <2>5. OncePerKey'
    BY <2>4 DEF IInv, OncePerKey, AppendLocked
  <2>6. TypeOK'
    BY <1>1, <1>3, <1>5 DEF IInv, TypeOK, HandlersTyped, AppendLocked
  <2>7. QED
    BY <2>2, <2>3, <2>5, <2>6 DEF IInv
<1>6. QED
  BY <1>4, <1>5 DEF AppendLocked

\* Rebuilding and reading the projection touches no stream, and what it writes
\* has the type of the projection.
LEMMA SnapshotStep ==
    ASSUME IInv, NEW h \in Handler,
           ReadStream(h) \/ WriteState(h) \/ ReadState(h)
    PROVE  IInv'
<1>1. req[h].exec \in Exec /\ note[h] \in Nat
  BY RequestTypes DEF IInv, TypeOK
<1>2. CASE ReadStream(h)
  <2>1. HeadSeq(req[h].exec) \in Nat
    BY <1>1, HeadIsLength DEF IInv, StreamWellFormed
  <2>2. QED
    BY <1>2, <2>1, ContinueTyped, ReadOnlyStep DEF ReadStream, IInv, Step
<1>3. CASE WriteState(h)
  <2>1. HandlersTyped'
    BY <1>1, <1>3, ContinueTyped DEF WriteState, Continue, IInv, Step
  <2>2. Fold(req[h].exec, note[h]) \in LifecycleEvents
    BY <1>1, FoldType DEF IInv, TypeOK
  <2>3. state' \in [Exec -> [lifecycle: LifecycleEvents, through: Nat]]
    BY <1>1, <1>3, <2>2 DEF WriteState, IInv, TypeOK
  <2>4. TypeOK' /\ OncePerKey' /\ IsFiniteSet(comments)'
    BY <1>3, <2>1, <2>3
       DEF WriteState, IInv, TypeOK, HandlersTyped, OncePerKey
  <2>5. QED
    BY <1>3, <2>4, StreamsUnchanged DEF WriteState, IInv
<1>4. CASE ReadState(h)
  <2>1. state[req[h].exec].through \in Nat
    BY <1>1 DEF IInv, TypeOK
  <2>2. QED
    BY <1>4, <2>1, AnswerTyped, ReadOnlyStep DEF ReadState, IInv, Outcome
<1>5. QED
  BY <1>2, <1>3, <1>4
----------------------------------------------------------------------------
\* Theorems

\* The empty registry satisfies the inductive invariant.
LEMMA InitInvariant == Init => IInv
<1> SUFFICES ASSUME Init PROVE IInv
  OBVIOUS
<1>1. NoRequest \in Requests
  BY RequestsAssumption DEF NoRequest
<1>2. TypeOK
  BY <1>1 DEF Init, TypeOK, Step, Outcome, LifecycleEvents
<1>3. IsFiniteSet(events) /\ IsFiniteSet(comments)
  BY FS_EmptySet DEF Init
<1>4. StreamWellFormed
  <2>1. \A x \in Exec : EventsOf(x) = {} /\ Seqs(x) = {}
    BY DEF Init, EventsOf, Seqs
  <2>2. 1..Cardinality({}) = {}
    BY FS_EmptySet
  <2>3. QED
    BY <2>1, <2>2, Zenon DEF StreamWellFormed
<1>5. SeqsUnique /\ TerminalAbsorbs /\ OncePerKey
  BY DEF Init, SeqsUnique, TerminalAbsorbs, OncePerKey
<1>6. QED
  BY <1>2, <1>3, <1>4, <1>5 DEF IInv

\* Every step of every handler, and every crash, keeps the inductive invariant.
LEMMA NextInvariant == IInv /\ [Next]_vars => IInv'
<1> SUFFICES ASSUME IInv, [Next]_vars PROVE IInv'
  OBVIOUS
<1>1. CASE UNCHANGED vars
  BY <1>1, ReadOnlyStep DEF vars, db, HandlersTyped, IInv, TypeOK
<1>2. ASSUME NEW h \in Handler, NEW r \in Requests, Receive(h, r) PROVE IInv'
  BY <1>2, ReceiveStep
<1>3. ASSUME NEW h \in Handler, Serve(h) PROVE IInv'
  BY <1>3, RegisterReplayStep, RegisterInsertStep, BindOutputStep,
     InsertCommentStep, DedupeStep, AppendStep, SnapshotStep DEF Serve
<1>4. ASSUME NEW h \in Handler, Crash(h) PROVE IInv'
  BY <1>4, AnswerTyped, ReadOnlyStep DEF Crash, Outcome, IInv
<1>5. QED
  BY <1>1, <1>2, <1>3, <1>4 DEF Next

\* The inductive invariant holds of every behaviour of the registry, for any
\* number of executions, keys, handlers and requests.
THEOREM Invariance == Spec => []IInv
  BY InitInvariant, NextInvariant, PTL DEF Spec

\* Every variable keeps its type: rows are only ever written with the types
\* of the tables, and the projection folds to a lifecycle event.
THEOREM TypeCorrect == Spec => []TypeOK
<1>1. IInv => TypeOK
  BY DEF IInv
<1>2. QED
  BY <1>1, Invariance, PTL

\* append() numbers every stream 1, 2, ... and chains each event to the one
\* before it, whatever handlers run, crash and retry.
THEOREM StreamsStayWellFormed == Spec => []StreamWellFormed
<1>1. IInv => StreamWellFormed
  BY DEF IInv
<1>2. QED
  BY <1>1, Invariance, PTL

\* No lifecycle event is ever recorded after a terminal one.
THEOREM TerminalIsFinal == Spec => []TerminalAbsorbs
<1>1. IInv => TerminalAbsorbs
  BY DEF IInv
<1>2. QED
  BY <1>1, Invariance, PTL

\* A key records one event, and registers one execution, however often and
\* however concurrently it is sent.
THEOREM KeysAreUsedOnce == Spec => []OncePerKey
<1>1. IInv => OncePerKey
  BY DEF IInv
<1>2. QED
  BY <1>1, Invariance, PTL
----------------------------------------------------------------------------
\* The registry implements the event streams

\* What the abstract stream keeps of a row.
Abstract(e) == [type |-> e.type, key |-> e.key, payload |-> e.payload]

\* The abstract streams speak of the vocabulary of the registry.
LEMMA SameVocabulary ==
    /\ Stream!EventTypes = EventTypes
    /\ Stream!LifecycleEvents = LifecycleEvents
    /\ Stream!TerminalLifecycle = TerminalLifecycle
BY DEF Stream!EventTypes, Stream!LifecycleEvents, Stream!ContentEvents,
       Stream!RegistrationEvents, Stream!GovernanceEvents,
       Stream!TerminalLifecycle, EventTypes, LifecycleEvents, ContentEvents,
       RegistrationEvents, GovernanceEvents, TerminalLifecycle

\* A function on 1..n is a sequence of length n.
LEMMA FunctionIsSeq ==
    ASSUME NEW S, NEW n \in Nat, NEW f \in [1..n -> S]
    PROVE  f \in Seq(S) /\ Len(f) = n
<1>1. f \in Seq(S)
  BY SeqDef
<1>2. DOMAIN f = 1..n /\ DOMAIN f = 1..Len(f) /\ Len(f) \in Nat
  BY <1>1, LenProperties
<1>3. QED
  BY <1>1, <1>2

\* The abstract stream of an execution is a sequence of abstract events, one
\* for each event recorded, in the order of their numbers.
LEMMA StreamType ==
    ASSUME IInv, NEW x \in Exec
    PROVE  /\ HeadSeq(x) \in Nat
           /\ StreamOf(x) \in Seq(Stream!StreamEvent)
           /\ Len(StreamOf(x)) = HeadSeq(x)
           /\ \A i \in 1..HeadSeq(x) :
                  /\ EventAt(x, i) \in EventsOf(x) /\ EventAt(x, i).seq = i
                  /\ StreamOf(x)[i] = Abstract(EventAt(x, i))
           /\ \A e \in EventsOf(x) :
                  e.seq \in 1..HeadSeq(x) /\ EventAt(x, e.seq) = e
<1> PICK n : n = HeadSeq(x)
  OBVIOUS
<1>1. n \in Nat /\ Seqs(x) = 1..n
  BY HeadIsLength DEF IInv, StreamWellFormed
<1>2. \A i \in 1..n : EventAt(x, i) \in EventsOf(x) /\ EventAt(x, i).seq = i
  BY <1>1 DEF Seqs, EventAt
<1>3. \A e \in EventsOf(x) : e.seq \in 1..n /\ EventAt(x, e.seq) = e
  BY <1>1, EventAtUnique DEF Seqs, IInv
<1>4. StreamOf(x) = [i \in 1..n |-> Abstract(EventAt(x, i))]
  BY DEF StreamOf, Abstract
<1>5. \A i \in 1..n : Abstract(EventAt(x, i)) \in Stream!StreamEvent
  <2>1. \A i \in 1..n : EventAt(x, i) \in Row
    BY <1>2 DEF EventsOf, IInv, TypeOK
  <2>2. QED
    BY <2>1, SameVocabulary DEF Abstract, Row, Stream!StreamEvent
<1>6. StreamOf(x) \in [1..n -> Stream!StreamEvent]
  BY <1>4, <1>5
<1>7. StreamOf(x) \in Seq(Stream!StreamEvent) /\ Len(StreamOf(x)) = n
  BY <1>1, <1>6, FunctionIsSeq
<1>8. QED
  BY <1>1, <1>2, <1>3, <1>4, <1>7

\* A step that records no event changes no stream.
LEMMA StreamsStutter ==
    ASSUME UNCHANGED events
    PROVE  UNCHANGED [x \in Exec |-> StreamOf(x)]
<1>1. \A x : EventsOf(x)' = EventsOf(x)
  BY DEF EventsOf
<1>2. ASSUME NEW x
      PROVE  HeadSeq(x)' = HeadSeq(x) /\ \A i : EventAt(x, i)' = EventAt(x, i)
  <2>1. EventsOf(x)' = EventsOf(x) /\ Seqs(x)' = Seqs(x)
    BY <1>1 DEF Seqs
  <2>2. QED
    BY <2>1 DEF HeadSeq, EventAt
<1>3. \A x \in Exec : StreamOf(x)' = StreamOf(x)
  BY <1>2 DEF StreamOf
<1>4. QED
  BY <1>3

\* Keys that no row has, and ends that no row is, are not in the streams.
LEMMA StreamsShowRows ==
    ASSUME IInv
    PROVE  /\ \A k : Stream!KeyUsed(k) => \E e \in events : e.key = k
           /\ \A x \in Exec : Stream!Ended(x) => Closed(x)
<1>1. \A x \in Exec : [y \in Exec |-> StreamOf(y)][x] = StreamOf(x)
  OBVIOUS
<1>2. ASSUME NEW x \in Exec, NEW i \in 1..Len(StreamOf(x))
      PROVE  EventAt(x, i) \in EventsOf(x) /\ StreamOf(x)[i] = Abstract(EventAt(x, i))
  BY <1>2, StreamType
<1>3. ASSUME NEW k, Stream!KeyUsed(k) PROVE \E e \in events : e.key = k
  <2>1. PICK x \in Exec : \E i \in 1..Len(StreamOf(x)) : StreamOf(x)[i].key = k
    BY <1>1, <1>3 DEF Stream!KeyUsed
  <2>2. PICK i \in 1..Len(StreamOf(x)) : StreamOf(x)[i].key = k
    BY <2>1
  <2>3. StreamOf(x)[i].key = EventAt(x, i).key
    <3>1. StreamOf(x)[i] = Abstract(EventAt(x, i))
      BY <1>2
    <3>2. QED
      BY <3>1 DEF Abstract
  <2>4. QED
    BY <1>2, <2>2, <2>3 DEF EventsOf
<1>4. ASSUME NEW x \in Exec, Stream!Ended(x) PROVE Closed(x)
  <2>1. \E i \in 1..Len(StreamOf(x)) : StreamOf(x)[i].type \in TerminalLifecycle
    BY <1>1, <1>4, SameVocabulary DEF Stream!Ended
  <2>2. PICK i \in 1..Len(StreamOf(x)) :
            StreamOf(x)[i].type \in TerminalLifecycle
    BY <2>1
  <2>3. StreamOf(x)[i].type = EventAt(x, i).type
    <3>1. StreamOf(x)[i] = Abstract(EventAt(x, i))
      BY <1>2
    <3>2. QED
      BY <3>1 DEF Abstract
  <2>4. QED
    BY <1>2, <2>2, <2>3 DEF Closed
<1>5. QED
  BY <1>3, <1>4

\* An append moves the head of its stream by one.
LEMMA AppendedHead ==
    ASSUME IInv, NEW h \in Handler, events' = events \cup {NewRow(h)},
           NEW x, x = req[h].exec
    PROVE  HeadSeq(x)' = HeadSeq(x) + 1
<1> PICK n, r : n = HeadSeq(x) /\ r = NewRow(h)
  OBVIOUS
<1>1. /\ x \in Exec /\ n \in Nat
      /\ EventsOf(x)' = EventsOf(x) \cup {r}
      /\ r.seq = n + 1
      /\ \A e \in EventsOf(x) : e.seq \in 1..n
  BY AppendedStream
<1>2. EventsOf(x)' # {} /\ Seqs(x)' = Seqs(x) \cup {n + 1}
  BY <1>1 DEF Seqs
<1>3. \A m \in Seqs(x) : m \in 1..n
  BY <1>1 DEF Seqs
<1> DEFINE H == CHOOSE k \in Seqs(x)' : \A m \in Seqs(x)' : m <= k
<1>4. HeadSeq(x)' = H
  BY <1>2 DEF HeadSeq
<1>5. n + 1 \in Seqs(x)' /\ \A m \in Seqs(x)' : m <= n + 1
  BY <1>1, <1>2, <1>3
<1>6. H \in Seqs(x)' /\ \A m \in Seqs(x)' : m <= H
  BY <1>5
<1> HIDE DEF H
<1>7. H = n + 1
  BY <1>1, <1>2, <1>3, <1>6
<1>8. QED
  BY <1>4, <1>7

\* The stream appended to is the old one with the new event at its end; the
\* others are as they were.
LEMMA StreamGrows ==
    ASSUME IInv, NEW h \in Handler, events' = events \cup {NewRow(h)},
           NEW x, x = req[h].exec, IInv'
    PROVE  /\ \A y \in Exec \ {x} : StreamOf(y)' = StreamOf(y)
           /\ StreamOf(x)' = Append(StreamOf(x), Abstract(NewRow(h)))
           /\ Abstract(NewRow(h)) \in Stream!StreamEvent
<1> PICK n, r : n = HeadSeq(x) /\ r = NewRow(h)
  OBVIOUS
<1>1. /\ x \in Exec /\ n \in Nat
      /\ EventsOf(x)' = EventsOf(x) \cup {r}
      /\ \A y \in Exec \ {x} : EventsOf(y)' = EventsOf(y)
      /\ r.seq = n + 1
      /\ \A e \in EventsOf(x) : e.seq \in 1..n
  BY AppendedStream
<1>2. \A y \in Exec \ {x} : StreamOf(y)' = StreamOf(y)
  <2>1. SUFFICES ASSUME NEW y \in Exec \ {x} PROVE StreamOf(y)' = StreamOf(y)
    OBVIOUS
  <2>2. EventsOf(y)' = EventsOf(y)
    BY <1>1
  <2>3. HeadSeq(y)' = HeadSeq(y) /\ \A i : EventAt(y, i)' = EventAt(y, i)
    BY <2>2 DEF HeadSeq, Seqs, EventAt
  <2>4. QED
    BY <2>3 DEF StreamOf
<1>3. HeadSeq(x)' = n + 1
  BY AppendedHead
<1>4. EventAt(x, n + 1)' = r
  <2>1. \A f \in EventsOf(x)' : f.seq = n + 1 => f = r
    BY <1>1
  <2>2. QED
    BY <1>1, <2>1 DEF EventAt
<1>5. \A i \in 1..n : EventAt(x, i)' = EventAt(x, i)
  BY AppendKeepsEventAt
<1>6. Abstract(r) \in Stream!StreamEvent
  BY NewRowType, SameVocabulary DEF Abstract, Row, Stream!StreamEvent
<1>7. StreamOf(x)' = [i \in 1..(n + 1) |->
                         IF i = n + 1 THEN Abstract(r) ELSE StreamOf(x)[i]]
  <2>1. StreamOf(x)' = [i \in 1..(n + 1) |-> Abstract(EventAt(x, i)')]
    BY <1>3 DEF StreamOf, Abstract
  <2>2. \A i \in 1..(n + 1) : Abstract(EventAt(x, i)') =
            IF i = n + 1 THEN Abstract(r) ELSE StreamOf(x)[i]
    <3>1. \A i \in 1..(n + 1) : i # n + 1 => i \in 1..n
      BY <1>1
    <3>2. \A i \in 1..n : StreamOf(x)[i] = Abstract(EventAt(x, i))
      BY <1>1, StreamType
    <3>3. QED
      BY <1>4, <1>5, <3>1, <3>2
  <2>3. QED
    BY <2>1, <2>2
<1>8. StreamOf(x)' = Append(StreamOf(x), Abstract(r))
  <2> DEFINE t == [i \in 1..(n + 1) |->
                      IF i = n + 1 THEN Abstract(r) ELSE StreamOf(x)[i]]
  <2>1. StreamOf(x) \in Seq(Stream!StreamEvent) /\ Len(StreamOf(x)) = n
    BY <1>1, StreamType
  <2>2. \A i \in 1..n : StreamOf(x)[i] \in Stream!StreamEvent
    BY <2>1, ElementOfSeq
  <2>3. t \in [1..(n + 1) -> Stream!StreamEvent]
    BY <1>1, <1>6, <2>2
  <2>4. t \in Seq(Stream!StreamEvent) /\ Len(t) = n + 1
    BY <1>1, <2>3, FunctionIsSeq
  <2>5. /\ Append(StreamOf(x), Abstract(r)) \in Seq(Stream!StreamEvent)
        /\ Len(Append(StreamOf(x), Abstract(r))) = n + 1
        /\ \A i \in 1..n : Append(StreamOf(x), Abstract(r))[i] = StreamOf(x)[i]
        /\ Append(StreamOf(x), Abstract(r))[n + 1] = Abstract(r)
    BY <1>6, <2>1, AppendProperties
  <2>6. \A i \in 1..(n + 1) : t[i] = Append(StreamOf(x), Abstract(r))[i]
    BY <1>1, <2>5
  <2>7. t = Append(StreamOf(x), Abstract(r))
    <3> HIDE DEF t
    <3>1. QED
      BY <2>4, <2>5, <2>6, SeqEqual
  <2>8. QED
    BY <1>7, <2>7
<1>9. QED
  BY <1>2, <1>6, <1>8

\* The insert of an append is the recording of one event of the abstract
\* streams: its key is new, and it is no lifecycle event of an ended one.
LEMMA AppendRecords ==
    ASSUME IInv, IInv', NEW h \in Handler, MayAppend(h),
           \A e \in events : e.key # KeyOf(req[h]),
           events' = events \cup {NewRow(h)}
    PROVE  Stream!Next
<1> PICK x, e : x = req[h].exec /\ e = Abstract(NewRow(h))
  OBVIOUS
<1> DEFINE S == [y \in Exec |-> StreamOf(y)]
<1>1. /\ x \in Exec
      /\ \A y \in Exec \ {x} : StreamOf(y)' = StreamOf(y)
      /\ StreamOf(x)' = Append(StreamOf(x), e)
      /\ e \in Stream!StreamEvent
  BY StreamGrows, AppendedStream
<1>2. S[x] = StreamOf(x) /\ S'[x] = StreamOf(x)'
  BY <1>1
<1>3. S' = [S EXCEPT ![x] = Append(@, e)]
  BY <1>1
<1>4. e.key = KeyOf(req[h]) /\ e.type = req[h].type
  BY DEF Abstract, NewRow
<1>5. ~Stream!KeyUsed(e.key)
  BY <1>4, StreamsShowRows
<1>6. e.type \in Stream!LifecycleEvents => ~Stream!Ended(x)
  BY <1>1, <1>4, StreamsShowRows, SameVocabulary DEF MayAppend
<1>7. Stream!Record(x, e)
  BY <1>1, <1>3, <1>5, <1>6 DEF Stream!Record
<1>8. StreamOf(x) \in Seq(Stream!StreamEvent)
  BY <1>1, StreamType
<1>9. /\ Len(S'[x]) = Len(S[x]) + 1
      /\ S'[x][Len(S[x]) + 1] = e
  BY <1>1, <1>2, <1>8, AppendProperties
<1>10. QED
  BY <1>1, <1>7, <1>9 DEF Stream!Next

\* Only the insert of an append changes events.
LEMMA EventsGrowByAppend ==
    ASSUME NEW h \in Handler,
           (\E r \in Requests : Receive(h, r)) \/ Serve(h) \/ Crash(h)
    PROVE  \/ UNCHANGED events
           \/ /\ MayAppend(h)
              /\ \A e \in events : e.key # KeyOf(req[h])
              /\ events' = events \cup {NewRow(h)}
BY DEF Receive, Serve, Crash, RegisterReplay, RegisterInsert, BindOutput,
       InsertComment, Dedupe, AppendLocked, ReadStream, WriteState, ReadState,
       db

\* The registry implements the abstract event streams: whatever handlers
\* interleave, retry and crash, each stream only grows, one event at a time, at
\* its end, under keys never used before, and no lifecycle event follows its end.
THEOREM Refinement == Spec => ImplementsEventStream
<1> DEFINE S == [x \in Exec |-> StreamOf(x)]
<1>1. Init => Stream!Init
  <2>1. SUFFICES ASSUME Init PROVE \A x \in Exec : StreamOf(x) = <<>>
    BY <2>1 DEF Stream!Init
  <2>2. \A x \in Exec : HeadSeq(x) = 0
    BY <2>1 DEF Init, HeadSeq, EventsOf
  <2>3. \A x \in Exec : StreamOf(x) = [i \in 1..0 |-> Abstract(EventAt(x, i))]
    BY <2>2 DEF StreamOf, Abstract
  <2>4. \A x \in Exec : StreamOf(x) \in [1..0 -> {}]
    <3>1. 1..0 = {}
      OBVIOUS
    <3>2. QED
      BY <2>3, <3>1
  <2>5. \A x \in Exec : StreamOf(x) \in Seq({}) /\ Len(StreamOf(x)) = 0
    BY <2>4, FunctionIsSeq
  <2>6. QED
    BY <2>5, EmptySeq
<1>2. IInv /\ IInv' /\ [Next]_vars => [Stream!Next]_S
  <2>1. SUFFICES ASSUME IInv, IInv', [Next]_vars PROVE Stream!Next \/ UNCHANGED S
    OBVIOUS
  <2>2. CASE UNCHANGED vars
    BY <2>2, StreamsStutter DEF vars
  <2>3. ASSUME NEW h \in Handler,
               (\E r \in Requests : Receive(h, r)) \/ Serve(h) \/ Crash(h)
        PROVE  Stream!Next \/ UNCHANGED S
    BY <2>1, <2>3, EventsGrowByAppend, StreamsStutter, AppendRecords
  <2>4. QED
    BY <2>1, <2>2, <2>3 DEF Next
<1>3. QED
  BY <1>1, <1>2, Invariance, PTL DEF Spec, ImplementsEventStream, Stream!Spec----------------------------------------------------------------------------
\* Answers

\* An answer concerns the handler that gives it.
LEMMA AnswerIsOwn ==
    ASSUME TypeOK, NEW h \in Handler, NEW g \in Handler, g # h,
           (\E r \in Requests : Receive(h, r)) \/ Serve(h) \/ Crash(h)
    PROVE  pc'[g] = pc[g]
BY DEF TypeOK, Receive, Serve, Crash, RegisterReplay, RegisterInsert, InsertRoot,
       BindOutput, InsertComment, Dedupe, AppendLocked, ReadStream, WriteState,
       ReadState, Continue, ContinueWith, Answer

\* An "ok" at the end of an append is the replay of the event that the lookup
\* found, or the number of the row inserted.
LEMMA OkNamesTheEvent ==
    ASSUME TypeOK, NEW h \in Handler, Dedupe(h) \/ AppendLocked(h),
           pc'[h] = "idle", reply'[h].outcome = "ok"
    PROVE  \E e \in events' : /\ e.key = KeyOf(req[h])
                              /\ e.seq = reply'[h].seq
                              /\ e.exec = req[h].exec
                              /\ e.type = req[h].type
                              /\ e.payload = PayloadOf(h)
<1>1. \A o, n : Answer(h, o, n) =>
          reply'[h].outcome = o /\ reply'[h].seq = n
  BY DEF TypeOK, Answer
<1>2. CASE Dedupe(h)
  <2>1. ~Continue(h, "append")
    BY DEF TypeOK, Continue, ContinueWith
  <2>2. PICK e \in events : /\ e.key = KeyOf(req[h])
                            /\ IF SameEvent(h, e) THEN Answer(h, "ok", e.seq)
                               ELSE Answer(h, "refused", 0)
    BY <1>2, <2>1 DEF Dedupe
  <2>3. SameEvent(h, e) /\ Answer(h, "ok", e.seq)
    BY <1>1, <2>2
  <2>4. events' = events
    BY <1>2 DEF Dedupe, db
  <2>5. QED
    BY <1>1, <2>2, <2>3, <2>4 DEF SameEvent
<1>3. CASE AppendLocked(h)
  <2>1. ~Answer(h, "refused", 0) /\ ~Answer(h, "failed", 0)
    BY <1>1
  <2>2. events' = events \cup {NewRow(h)} /\ Answer(h, "ok", NewRow(h).seq)
    BY <1>3, <2>1 DEF AppendLocked
  <2>3. /\ NewRow(h) \in events'
        /\ reply'[h].seq = NewRow(h).seq
    BY <1>1, <2>2
  <2>4. /\ NewRow(h).key = KeyOf(req[h]) /\ NewRow(h).exec = req[h].exec
        /\ NewRow(h).type = req[h].type /\ NewRow(h).payload = PayloadOf(h)
    BY DEF NewRow
  <2>5. QED
    BY <2>3, <2>4
<1>4. QED
  BY <1>2, <1>3

\* Whatever handlers interleave, retry and crash, recorded events stay, and a
\* handler that answers "ok" to an append answers for an event that is recorded
\* with the key, the type and the content it was sent, at the number it returns.
THEOREM AnswersAreRecorded == Spec => OkIsRecorded
<1>1. TypeOK /\ [Next]_vars => [RecordedStep]_vars
  <2>1. SUFFICES ASSUME TypeOK, NEW h \in Handler,
                        (\E r \in Requests : Receive(h, r)) \/ Serve(h) \/ Crash(h)
                 PROVE  RecordedStep
    BY DEF Next
  <2>2. events \subseteq events'
    BY <2>1, EventsGrowByAppend
  <2>3. ASSUME NEW g \in Handler,
               pc[g] \in {"dedupe", "append"}, pc'[g] = "idle",
               reply'[g].outcome = "ok"
        PROVE  \E e \in events' : /\ e.key = KeyOf(req[g])
                                  /\ e.seq = reply'[g].seq
                                  /\ e.exec = req[g].exec
                                  /\ e.type = req[g].type
                                  /\ e.payload = PayloadOf(g)
    <3>1. g = h
      BY <2>1, <2>3, AnswerIsOwn
    <3>2. ~Crash(h)
      BY <2>1, <2>3, <3>1 DEF Crash, Answer, TypeOK
    <3>3. Dedupe(h) \/ AppendLocked(h)
      BY <2>1, <2>3, <3>1, <3>2
         DEF Receive, Serve, RegisterReplay, RegisterInsert, BindOutput,
             InsertComment, ReadStream, WriteState, ReadState
    <3>4. QED
      BY <2>1, <2>3, <3>1, <3>3, OkNamesTheEvent
  <2>4. QED
    BY <2>2, <2>3 DEF RecordedStep
<1>2. QED
  BY <1>1, TypeCorrect, PTL DEF Spec, OkIsRecorded
----------------------------------------------------------------------------
\* The projection

\* What a rebuild has read is a prefix of the stream it read.
ReadsAreBehind ==
    \A h \in Handler : pc[h] = "writeState" => note[h] <= HeadSeq(req[h].exec)

\* The lifecycle events among the first n.
Lifecycle(x, n) == {e \in EventsOf(x) : e.seq <= n /\ e.type \in LifecycleEvents}

\* Since terminal events are final, every lifecycle event of a prefix decides:
\* the fold, which skips those after a terminal one, has none to skip.
LEMMA FoldIsTheLast ==
    ASSUME IInv, NEW x \in Exec, NEW n \in Nat
    PROVE  IF Lifecycle(x, n) = {} THEN Fold(x, n) = "registered"
           ELSE \E e \in Lifecycle(x, n) : /\ Fold(x, n) = e.type
                                           /\ \A f \in Lifecycle(x, n) : f.seq <= e.seq
<1>1. Deciding(x, n) = Lifecycle(x, n)
  BY DEF Deciding, Lifecycle, IInv, TerminalAbsorbs, EventsOf
<1>2. CASE Lifecycle(x, n) = {}
  BY <1>1, <1>2 DEF Fold
<1>3. CASE Lifecycle(x, n) # {}
  <2> DEFINE D == Lifecycle(x, n)
  <2>1. \A e \in D : e.seq \in Nat /\ e.seq <= n
    BY RowsTyped DEF Lifecycle, EventsOf
  <2> HIDE DEF D
  <2>2. \E e \in D : \A f \in D : f.seq <= e.seq
    BY <1>3, <2>1, LastExists DEF D
  <2>3. LastOf(D) \in D /\ \A f \in D : f.seq <= LastOf(D).seq
    BY <2>2 DEF LastOf
  <2>4. Fold(x, n) = LastOf(D).type
    BY <1>1, <1>3 DEF Fold, D
  <2>5. QED
    BY <1>3, <2>3, <2>4 DEF D
<1>4. QED
  BY <1>2, <1>3

\* A step leaves the heads of streams where they are or moves them on, and what
\* is at or below a head stays.
LEMMA PrefixesStay ==
    ASSUME IInv, IInv', [Next]_vars, NEW x \in Exec
    PROVE  /\ HeadSeq(x) \in Nat /\ HeadSeq(x)' \in Nat
           /\ HeadSeq(x) <= HeadSeq(x)'
           /\ \A n \in Nat : n <= HeadSeq(x) => Lifecycle(x, n)' = Lifecycle(x, n)
<1>1. HeadSeq(x) \in Nat
  BY StreamType
<1>2. CASE UNCHANGED events
  <2>1. EventsOf(x)' = EventsOf(x) /\ Seqs(x)' = Seqs(x)
    BY <1>2 DEF EventsOf, Seqs
  <2>2. HeadSeq(x)' = HeadSeq(x)
    BY <2>1 DEF HeadSeq
  <2>3. QED
    BY <1>1, <2>1, <2>2 DEF Lifecycle
<1>3. ASSUME NEW h \in Handler, events' = events \cup {NewRow(h)}
      PROVE  /\ HeadSeq(x)' \in Nat
             /\ HeadSeq(x) <= HeadSeq(x)'
             /\ \A n \in Nat : n <= HeadSeq(x) => Lifecycle(x, n)' = Lifecycle(x, n)
  <2>1. CASE x # req[h].exec
    <3>1. EventsOf(x)' = EventsOf(x) /\ Seqs(x)' = Seqs(x)
      BY <1>3, <2>1, AppendedStream DEF Seqs
    <3>2. HeadSeq(x)' = HeadSeq(x)
      BY <3>1 DEF HeadSeq
    <3>3. QED
      BY <1>1, <3>1, <3>2 DEF Lifecycle
  <2>2. CASE x = req[h].exec
    <3> PICK r : r = NewRow(h)
      OBVIOUS
    <3>1. EventsOf(x)' = EventsOf(x) \cup {r} /\ r.seq = HeadSeq(x) + 1
      BY <1>3, <2>2, AppendedStream
    <3>2. HeadSeq(x)' = HeadSeq(x) + 1
      BY <1>3, <2>2, AppendedHead
    <3>3. \A n \in Nat : n <= HeadSeq(x) => ~(r.seq <= n)
      BY <1>1, <3>1
    <3>4. QED
      BY <1>1, <3>1, <3>2, <3>3 DEF Lifecycle
  <2>3. QED
    BY <2>1, <2>2
<1>4. CASE UNCHANGED vars
  BY <1>2, <1>4 DEF vars
<1>5. CASE Next
  BY <1>1, <1>2, <1>3, <1>5, EventsGrowByAppend DEF Next
<1>6. QED
  BY <1>4, <1>5

\* ProjectionIsAPrefix, of one execution.
ProjectionAt(x) ==
    LET n == state[x].through
    IN  /\ n <= HeadSeq(x)
        /\ IF Lifecycle(x, n) = {} THEN state[x].lifecycle = "registered"
           ELSE \E e \in Lifecycle(x, n) : /\ state[x].lifecycle = e.type
                                           /\ \A f \in Lifecycle(x, n) : f.seq <= e.seq

\* The invariant is the one of each execution.
LEMMA ProjectionByExecution ==
    ProjectionIsAPrefix <=> \A x \in Exec : ProjectionAt(x)
BY DEF ProjectionIsAPrefix, ProjectionAt, Lifecycle

\* A handler is about to write the projection only after it read the stream.
LEMMA OnlyReadStreamReads ==
    ASSUME TypeOK, [Next]_vars, NEW g \in Handler, pc'[g] = "writeState"
    PROVE  \/ pc'[g] = pc[g] /\ note'[g] = note[g] /\ req'[g] = req[g]
           \/ ReadStream(g)
<1>1. CASE UNCHANGED vars
  BY <1>1 DEF vars
<1>2. ASSUME NEW h \in Handler, h # g,
             (\E r \in Requests : Receive(h, r)) \/ Serve(h) \/ Crash(h)
      PROVE  pc'[g] = pc[g] /\ note'[g] = note[g] /\ req'[g] = req[g]
  BY <1>2 DEF TypeOK, Receive, Serve, Crash, RegisterReplay, RegisterInsert,
       InsertRoot, BindOutput, InsertComment, Dedupe, AppendLocked, ReadStream,
       WriteState, ReadState, Continue, ContinueWith, Answer
<1>3. ASSUME NEW r \in Requests, Receive(g, r) PROVE FALSE
  <2>1. FirstStep[r.op] # "writeState"
    BY RequestTypes DEF Operation, FirstStep
  <2>2. QED
    BY <1>3, <2>1 DEF Receive, TypeOK
<1>4. ASSUME Serve(g) \/ Crash(g) PROVE ReadStream(g)
  BY <1>4 DEF TypeOK, Serve, Crash, RegisterReplay, RegisterInsert,
       InsertRoot, BindOutput, InsertComment, Dedupe, AppendLocked,
       WriteState, ReadState, Continue, ContinueWith, Answer
<1>5. QED
  BY <1>1, <1>2, <1>3, <1>4 DEF Next

\* The projection of an execution is written by its rebuilds only.
LEMMA OnlyWriteStateWrites ==
    ASSUME TypeOK, [Next]_vars, NEW x \in Exec
    PROVE  \/ state'[x] = state[x]
           \/ \E h \in Handler : WriteState(h) /\ req[h].exec = x
BY DEF vars, Next, TypeOK, Receive, Serve, Crash, RegisterReplay,
       RegisterInsert, BindOutput, InsertComment, Dedupe, AppendLocked,
       ReadStream, WriteState, ReadState, db

\* The projection is always the lifecycle of some prefix of the stream, however
\* stale the rebuild that wrote it last: no rebuild ever writes a state that the
\* execution was not in (snapshot, the unconditional upsert).
THEOREM ProjectionFollowsTheStream == Spec => []ProjectionIsAPrefix
<1> DEFINE PInv == ProjectionIsAPrefix /\ ReadsAreBehind
<1>1. Init => PInv
  <2>1. SUFFICES ASSUME Init PROVE PInv
    OBVIOUS
  <2>2. \A x \in Exec : EventsOf(x) = {} /\ HeadSeq(x) = 0
    BY <2>1 DEF Init, EventsOf, HeadSeq
  <2>3. QED
    BY <2>1, <2>2 DEF Init, ProjectionIsAPrefix, ReadsAreBehind
<1>2. IInv /\ IInv' /\ PInv /\ [Next]_vars => PInv'
  <2>1. SUFFICES ASSUME IInv, IInv', PInv, [Next]_vars PROVE PInv'
    OBVIOUS
  <2>2. TypeOK /\ TypeOK'
    BY <2>1 DEF IInv
  <2>3. ASSUME NEW g \in Handler, pc'[g] = "writeState"
        PROVE  (note[g] <= HeadSeq(req[g].exec))'
    <3> PICK x : x = req'[g].exec
      OBVIOUS
    <3>1. x \in Exec /\ note'[g] \in Nat
      BY <2>2, RequestTypes DEF TypeOK
    <3>2. HeadSeq(x) \in Nat /\ HeadSeq(x)' \in Nat /\ HeadSeq(x) <= HeadSeq(x)'
      BY <2>1, <3>1, PrefixesStay
    <3>3. note'[g] <= HeadSeq(x)
      <4>1. CASE pc'[g] = pc[g] /\ note'[g] = note[g] /\ req'[g] = req[g]
        BY <2>1, <2>3, <4>1 DEF ReadsAreBehind
      <4>2. CASE ReadStream(g)
        BY <2>2, <3>2, <4>2 DEF ReadStream, ContinueWith, TypeOK
      <4>3. QED
        BY <2>1, <2>2, <2>3, <4>1, <4>2, OnlyReadStreamReads
    <3>4. QED
      BY <3>1, <3>2, <3>3
  <2>4. ASSUME NEW x \in Exec PROVE ProjectionAt(x)'
    <3>1. /\ HeadSeq(x) \in Nat /\ HeadSeq(x)' \in Nat
          /\ HeadSeq(x) <= HeadSeq(x)'
          /\ \A n \in Nat : n <= HeadSeq(x) => Lifecycle(x, n)' = Lifecycle(x, n)
      BY <2>1, PrefixesStay
    <3>2. CASE state'[x] = state[x]
      <4>1. ProjectionAt(x) /\ state[x].through \in Nat
        BY <2>1, <2>2, ProjectionByExecution DEF TypeOK
      <4>2. QED
        BY <3>1, <3>2, <4>1 DEF ProjectionAt
    <3>3. ASSUME NEW h \in Handler, WriteState(h), req[h].exec = x
          PROVE  ProjectionAt(x)'
      <4> PICK n : n = note[h]
        OBVIOUS
      <4>1. n \in Nat /\ n <= HeadSeq(x)
        BY <2>1, <2>2, <3>3 DEF WriteState, ReadsAreBehind, TypeOK
      <4>2. state'[x] = [lifecycle |-> Fold(x, n), through |-> n]
        BY <2>2, <3>3 DEF WriteState, TypeOK
      <4>3. Lifecycle(x, n)' = Lifecycle(x, n)
        BY <3>1, <4>1
      <4>4. QED
        BY <2>1, <3>1, <4>1, <4>2, <4>3, FoldIsTheLast DEF ProjectionAt
    <3>4. QED
      BY <2>1, <2>2, <3>2, <3>3, OnlyWriteStateWrites
  <2>5. (ProjectionIsAPrefix <=> \A x \in Exec : ProjectionAt(x))'
    BY ProjectionByExecution, PTL
  <2>6. QED
    BY <2>3, <2>4, <2>5 DEF ReadsAreBehind
<1>3. QED
  BY <1>1, <1>2, Invariance, PTL DEF Spec
=============================================================================
