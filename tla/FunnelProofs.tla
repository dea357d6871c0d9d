---------------------------- MODULE FunnelProofs ----------------------------
(***************************************************************************)
(* What the mutation funnel guarantees for any set of requests, however    *)
(* many faults and restarts: commands take effect at most once, answers    *)
(* are never taken back, readers miss nothing, what was written can be     *)
(* recovered, and callers cannot tell it from the command log.             *)
(***************************************************************************)
EXTENDS Funnel, TLAPS

Known == {k \in Keys : receipts[k] # Nothing}

HasMax(S) == S = {} \/ \E m \in S : \A c \in S : c <= m

\* The cursors a command takes when it commits.
Taken(i) == IF i.verdict = "accept" THEN i.first .. (i.first + i.req.events - 1) ELSE {}

\* The receipt row a command commits.
Row(i) ==
  [digest |-> i.req.digest, method |-> i.req.method, principal |-> i.req.principal,
   status |-> IF i.verdict = "accept" THEN "completed" ELSE "rejected",
   first |-> i.first, events |-> IF i.verdict = "accept" THEN i.req.events ELSE 0]

\* The receipt of r's key was written by r.
Holds(r, status) ==
  /\ receipts[r.key] # Nothing
  /\ receipts[r.key].digest = r.digest
  /\ receipts[r.key].method = r.method
  /\ receipts[r.key].principal = r.principal
  /\ receipts[r.key].status = status

\* No state that comes later makes r acceptable.
Doomed(r) ==
  \/ r.method = "malformed"
  \/ ~r.fits
  \/ r.method = "create" /\ version[r.agg] > 0
  \/ r.method # "create" /\ r.expects = NoVersion

\* What the disk holds is well-formed, and every cursor ever used has a last.
DiskInv ==
  /\ \A k \in Keys : ReceiptEventsValid(k)
  /\ \A e \in journal : EventOwned(e)
  /\ \A e, f \in journal : e.cursor = f.cursor => e = f
  /\ HasMax(Cursors)
  /\ AtMostOnce

\* The retention floor is the cursor of an event, or the initial one.
FloorInv ==
  /\ floor \in Cursors \cup {1}
  /\ floorOp # Nothing => floorOp.cursor \in Cursors

\* The books lag behind the disk only by what the command in flight has not
\* entered yet, unless the gate is poisoned.
BooksInv ==
  /\ HasMax(books.events)
  /\ up => \A c \in Cursors : c < nextCursor
  /\ inflight # Nothing => up /\ ~poisoned
  /\ up /\ ~poisoned /\ ~Committed => books = RebuiltBooks
  /\ Staged =>
       /\ receipts[inflight.req.key] = Nothing
       /\ inflight.verdict = Verdict(inflight.req)
       /\ inflight.booked = 0
       /\ \A c \in Cursors : c < inflight.first
       /\ inflight.first + ToBook = nextCursor
  /\ Committed =>
       /\ receipts[inflight.req.key] = Row(inflight)
       /\ inflight.booked <= ToBook
       /\ inflight.first + ToBook = nextCursor
       /\ Taken(inflight) \subseteq Cursors
       /\ books.receipts = Known \ {inflight.req.key}
       /\ books.events = {c \in Cursors : c < inflight.first + inflight.booked}

\* A consumer was sent events of the journal, and all up to its last one.
ReaderInv ==
  /\ delivered \subseteq Cursors
  /\ HasMax(delivered)
  /\ NoLateEvent

\* What clients were told agrees with the receipts.
AnswerInv ==
  \A r \in Requests :
    /\ "completed" \in told[r] => Holds(r, "completed")
    /\ "rejected" \in told[r] /\ "unrecorded" \notin told[r] => Holds(r, "rejected")
    /\ "unrecorded" \in told[r] /\ r.blockers = {} => Doomed(r) /\ ~Holds(r, "completed")

\* The inductive invariant.
IInv == TypeOK /\ DiskInv /\ FloorInv /\ BooksInv /\ ReaderInv /\ AnswerInv

-----------------------------------------------------------------------------
(* The operators of the model *)

\* MaxOf returns the greatest element of a set that has one.
LEMMA MaxOfIs ==
  ASSUME NEW S, HasMax(S), S # {}
  PROVE  MaxOf(S) \in S /\ \A c \in S : c <= MaxOf(S)
BY Zenon DEF MaxOf, HasMax

\* An empty set of cursors counts from 0.
LEMMA MaxOfEmpty == MaxOf({}) = 0
BY Zenon DEF MaxOf

\* A row, or a command in flight, is not mistaken for its absence.
LEMMA RowIsThere == \A i : Row(i) # Nothing
<1> SUFFICES ASSUME NEW i, Row(i) = Nothing PROVE FALSE
  BY Zenon
<1>1. DOMAIN Row(i) = DOMAIN Nothing
  BY Zenon
<1>2. "first" \in DOMAIN Row(i) /\ "first" \notin DOMAIN Nothing
  BY Zenon DEF Row, Nothing
<1> QED BY <1>1, <1>2, Zenon

\* What validation tells of a request: an accepted one is lawful, a rejected
\* one is rejected for good or blocked by other rows.
LEMMA VerdictIs ==
  ASSUME NEW r \in Requests
  PROVE  /\ Verdict(r) = "accept" =>
              /\ r.fits /\ r.method # "malformed"
              /\ IF r.method = "create" THEN ~(version[r.agg] > 0)
                 ELSE version[r.agg] # 0 /\ r.expects = version[r.agg] /\ r.expects # NoVersion
         /\ Verdict(r) = "reject" => Doomed(r) \/ r.blockers # {}
<1>1. Blocked(r) => r.blockers # {}
  BY Zenon DEF Blocked
<1> QED BY <1>1, RequestsAssumption, Zenon DEF Verdict, Doomed, RequestOK, Methods

\* What validation accepts is not refused for good.
LEMMA AcceptedIsNotDoomed == \A r \in Requests : Verdict(r) = "accept" => ~Doomed(r)
BY VerdictIs, Zenon DEF Doomed

\* Validation reads only the versions of rows.
LEMMA VerdictKept == version' = version => \A r \in Requests : Verdict(r)' = Verdict(r)
BY Zenon DEF Verdict, Blocked

-----------------------------------------------------------------------------
(* The transaction *)

\* What is known before a staged command writes.
LEMMA StagedFacts ==
  ASSUME IInv, Staged
  PROVE  /\ inflight \in CommandsInFlight
         /\ inflight.req \in Requests /\ RequestOK(inflight.req)
         /\ receipts[inflight.req.key] = Nothing
         /\ inflight.verdict = Verdict(inflight.req)
         /\ \A c \in Cursors : c < inflight.first
         /\ inflight.first \in Nat \ {0}
BY RequestsAssumption, Zenon DEF IInv, TypeOK, BooksInv, Staged, CommandsInFlight

\* The write itself: a new receipt, and new events behind all others.
LEMMA WriteShape ==
  ASSUME IInv, Staged, Durable(inflight)
  PROVE  /\ receipts' = [receipts EXCEPT ![inflight.req.key] = Row(inflight)]
         /\ journal' = journal \cup [cursor : Taken(inflight), key : {inflight.req.key}]
         /\ Cursors' = Cursors \cup Taken(inflight)
         /\ \A c \in Taken(inflight) : c \in Nat \ {0} /\ \A d \in Cursors : d < c
<1> DEFINE r == inflight.req
<1>1. /\ r \in Requests /\ r.events \in 0..2
      /\ inflight.first \in Nat \ {0}
      /\ \A d \in Cursors : d < inflight.first
      /\ Cursors \subseteq Nat \ {0}
  BY StagedFacts DEF RequestOK, Cursors, IInv, TypeOK
<1>2. receipts' = [receipts EXCEPT ![r.key] = Row(inflight)]
  BY Zenon DEF Durable, Row
<1>3. journal' = journal \cup [cursor : Taken(inflight), key : {r.key}]
  <2>1. CASE inflight.verdict = "accept"
    <3>1. journal' = journal \cup {[cursor |-> c, key |-> r.key] :
                                      c \in inflight.first .. (inflight.first + r.events - 1)}
      BY <2>1, Zenon DEF Durable
    <3>2. QED BY <2>1, <3>1 DEF Taken
  <2>2. CASE inflight.verdict # "accept"
    <3>1. journal' = journal /\ Taken(inflight) = {}
      BY <2>2, Zenon DEF Durable, Taken
    <3>2. QED BY <3>1, Zenon
  <2> QED BY <2>1, <2>2, Zenon
<1>4. Cursors' = Cursors \cup Taken(inflight)
  <2>1. \A c \in Taken(inflight) : \E e \in journal' : e.cursor = c
    <3> TAKE c \in Taken(inflight)
    <3>1. [cursor |-> c, key |-> r.key] \in journal'
      BY <1>3, Zenon
    <3> QED BY <3>1, Zenon
  <2>2. \A e \in journal' \ journal : e.cursor \in Taken(inflight)
    BY <1>3, Zenon
  <2>3. journal \subseteq journal'
    BY <1>3, Zenon
  <2> QED BY <2>1, <2>2, <2>3, Zenon DEF Cursors
<1>5. \A c \in Taken(inflight) : c \in Nat \ {0} /\ inflight.first <= c
  BY <1>1 DEF Taken
<1>6. \A c \in Taken(inflight), d \in Cursors : d < c
  BY <1>1, <1>5
<1> QED BY <1>2, <1>3, <1>4, <1>5, <1>6, Zenon

\* Aggregates only grow, and each transition is counted.
LEMMA WriteCounts ==
  ASSUME IInv, Staged, Durable(inflight)
  PROVE  /\ version' \in [Aggregates -> Nat]
         /\ \A a \in Aggregates : version[a] <= version'[a]
         /\ applied' = IF inflight.verdict = "accept"
                       THEN [applied EXCEPT ![inflight.req] = @ + 1] ELSE applied
<1>1. inflight.req \in Requests /\ inflight.req.agg \in Aggregates
  BY StagedFacts, Zenon DEF RequestOK
<1> QED BY <1>1 DEF Durable, IInv, TypeOK

\* The write keeps the disk well-formed.
LEMMA WriteDisk ==
  ASSUME IInv, Staged, Durable(inflight)
  PROVE  DiskInv'
<1> DEFINE r == inflight.req
           T == Taken(inflight)
           accepted == inflight.verdict = "accept"
<1>1. /\ r \in Requests /\ r.key \in Keys /\ r.events \in 0..2
      /\ inflight.first \in Nat \ {0}
      /\ receipts[r.key] = Nothing
  BY StagedFacts, Zenon DEF RequestOK
<1>2. /\ \A k \in Keys \ {r.key} : receipts'[k] = receipts[k]
      /\ receipts'[r.key] = Row(inflight)
  BY <1>1, WriteShape, Zenon DEF IInv, TypeOK
<1>3. /\ journal \subseteq journal'
      /\ \A e \in journal' \ journal : e.key = r.key /\ e.cursor \in T
      /\ \A c \in T : [cursor |-> c, key |-> r.key] \in journal'
  BY WriteShape, Zenon
<1>4. \A e \in journal : e.key \in Keys \ {r.key}
  BY <1>1, Zenon DEF IInv, TypeOK, DiskInv, EventOwned
<1>5. /\ Row(inflight).first = inflight.first
      /\ Row(inflight).events = IF accepted THEN r.events ELSE 0
      /\ Row(inflight).status = IF accepted THEN "completed" ELSE "rejected"
      /\ Row(inflight).digest = r.digest
  BY Zenon DEF Row
<1>6. \A k \in Keys : ReceiptEventsValid(k)'
  <2> TAKE k \in Keys
  <2>1. CASE k = r.key
    <3>1. EventsOf(k)' = T
      <4>1. \A e \in journal' : e.key = k => e.cursor \in T
        BY <1>3, <1>4, <2>1, Zenon
      <4>2. \A c \in T : \E e \in journal' : e.key = k /\ e.cursor = c
        <5> TAKE c \in T
        <5> DEFINE e == [cursor |-> c, key |-> r.key]
        <5>1. e \in journal'
          BY <1>3, Zenon
        <5>2. e.key = k /\ e.cursor = c
          BY <2>1, Zenon
        <5> QED BY <5>1, <5>2, Zenon
      <4> QED BY <4>1, <4>2, Zenon DEF EventsOf
    <3>2. T = inflight.first .. (inflight.first + Row(inflight).events - 1)
      BY <1>1, <1>5 DEF Taken
    <3> QED BY <1>2, <1>5, <2>1, <3>1, <3>2, Zenon DEF ReceiptEventsValid
  <2>2. CASE k # r.key
    <3>1. EventsOf(k)' = EventsOf(k)
      BY <1>3, <2>2, Zenon DEF EventsOf
    <3> QED BY <1>2, <2>2, <3>1, Zenon DEF ReceiptEventsValid, IInv, DiskInv
  <2> QED BY <2>1, <2>2, Zenon
<1>7. \A e \in journal' : EventOwned(e)'
  <2> TAKE e \in journal'
  <2>1. CASE e \in journal
    BY <1>2, <1>4, <2>1, Zenon DEF EventOwned, IInv, DiskInv
  <2>2. CASE e \notin journal
    <3>1. accepted
      BY <1>3, <2>2, Zenon DEF Taken
    <3> QED BY <1>2, <1>3, <1>5, <2>2, <3>1, RowIsThere DEF EventOwned
  <2> QED BY <2>1, <2>2, Zenon
<1>8. \A e, f \in journal' : e.cursor = f.cursor => e = f
  <2>1. \A e \in journal : e.cursor \in Cursors /\ e.cursor \in Nat
    BY Zenon DEF Cursors, IInv, TypeOK
  <2>2. \A e \in journal' \ journal : e = [cursor |-> e.cursor, key |-> r.key]
    BY WriteShape
  <2>3. \A e \in journal' \ journal, f \in journal : e.cursor # f.cursor
    BY <1>3, <2>1, WriteShape
  <2> QED BY <2>2, <2>3, Zenon DEF IInv, DiskInv
<1>9. HasMax(Cursors')
  <2>1. CASE T = {}
    BY <2>1, WriteShape, Zenon DEF IInv, DiskInv
  <2>2. CASE T # {}
    <3> DEFINE m == inflight.first + r.events - 1
    <3>1. m \in T /\ \A c \in T : c <= m
      BY <1>1, <2>2 DEF Taken
    <3>2. Cursors' = Cursors \cup T /\ \A c \in Cursors : c < m /\ c \in Nat
      BY <3>1, WriteShape DEF Cursors, IInv, TypeOK
    <3>3. m \in Cursors' /\ \A c \in Cursors' : c <= m
      BY <3>1, <3>2, <1>1
    <3> QED BY <3>3, Zenon DEF HasMax
  <2> QED BY <2>1, <2>2, Zenon
<1>10. AtMostOnce'
  <2>1. \A q \in Requests : q.key = r.key => applied[q] = 0
    BY <1>1 DEF IInv, DiskInv, AtMostOnce, TypeOK
  <2>2. \A q \in Requests \ {r} : applied'[q] = applied[q]
    BY WriteCounts, Zenon DEF IInv, TypeOK
  <2>3. applied'[r] = IF accepted THEN 1 ELSE 0
    BY <1>1, <2>1, WriteCounts DEF IInv, TypeOK
  <2>4. \A q \in Requests : q.key \in Keys
    BY RequestsAssumption, Zenon DEF RequestOK
  <2> SUFFICES ASSUME NEW q \in Requests, applied'[q] > 0
               PROVE  /\ applied'[q] = 1
                      /\ receipts'[q.key] # Nothing
                      /\ receipts'[q.key].status = "completed"
                      /\ receipts'[q.key].digest = q.digest
                      /\ \A o \in Requests \ {q} : o.key = q.key => applied'[o] = 0
    BY Zenon DEF AtMostOnce
  <2>5. CASE q = r
    BY <1>1, <1>2, <1>5, <2>1, <2>2, <2>3, <2>5, RowIsThere
  <2>6. CASE q # r
    <3>1. applied[q] > 0 /\ q.key # r.key
      BY <2>1, <2>2, <2>6
    <3>2. receipts'[q.key] = receipts[q.key]
      BY <1>2, <2>4, <3>1, Zenon
    <3>3. \A o \in Requests \ {q} : o.key = q.key => applied'[o] = applied[o]
      BY <2>2, <3>1, Zenon
    <3> QED BY <2>2, <2>6, <3>1, <3>2, <3>3, Zenon DEF IInv, DiskInv, AtMostOnce
  <2> QED BY <2>5, <2>6, Zenon
<1> QED BY <1>6, <1>7, <1>8, <1>9, <1>10, Zenon DEF DiskInv

\* The write keeps the shape of the rows.
LEMMA WriteTypes ==
  ASSUME IInv, Staged, Durable(inflight)
  PROVE  /\ version' \in [Aggregates -> Nat]
         /\ receipts' \in [Keys -> ReceiptRows \cup {Nothing}]
         /\ journal' \subseteq [cursor : Nat \ {0}, key : Keys]
         /\ applied' \in [Requests -> Nat]
<1> DEFINE r == inflight.req
<1>1. /\ r \in Requests /\ RequestOK(r)
      /\ inflight.first \in Nat \ {0}
  BY StagedFacts, Zenon
<1>2. Row(inflight) \in ReceiptRows
  BY <1>1 DEF Row, ReceiptRows, RequestOK
<1>3. receipts' \in [Keys -> ReceiptRows \cup {Nothing}]
  BY <1>1, <1>2, WriteShape, Zenon DEF IInv, TypeOK
<1>4. journal' \subseteq [cursor : Nat \ {0}, key : Keys]
  BY <1>1, WriteShape DEF IInv, TypeOK, RequestOK
<1>5. applied' \in [Requests -> Nat]
  BY <1>1, WriteCounts DEF IInv, TypeOK
<1> QED BY <1>3, <1>4, <1>5, WriteCounts, Zenon

\* The write keeps every answer true: it decides a key that was open, and it
\* completes only what nobody was told is rejected.
LEMMA WriteAnswers ==
  ASSUME IInv, Staged, Durable(inflight)
  PROVE  \A r \in Requests :
           /\ Doomed(r) => Doomed(r)'
           /\ \A s : Holds(r, s) => Holds(r, s)'
           /\ Holds(r, "completed")' =>
                Holds(r, "completed") \/ (r = inflight.req /\ ~Doomed(r))
<1> TAKE r \in Requests
<1> DEFINE q == inflight.req
<1>1. /\ q \in Requests /\ q.key \in Keys
      /\ receipts[q.key] = Nothing
      /\ inflight.verdict = Verdict(q)
      /\ inflight.verdict \in {"accept", "reject"}
  BY StagedFacts, Zenon DEF RequestOK, CommandsInFlight
<1>2. r.key \in Keys /\ r.agg \in Aggregates
  BY RequestsAssumption, Zenon DEF RequestOK
<1>3. /\ r.key # q.key => receipts'[r.key] = receipts[r.key]
      /\ r.key = q.key => receipts'[r.key] = Row(inflight)
  BY <1>1, <1>2, WriteShape, Zenon DEF IInv, TypeOK
<1>4. Doomed(r) => Doomed(r)'
  <2>1. version[r.agg] <= version'[r.agg] /\ version[r.agg] \in Nat /\ version'[r.agg] \in Nat
    BY <1>2, WriteCounts, Zenon DEF IInv, TypeOK
  <2>2. version[r.agg] > 0 => version'[r.agg] > 0
    BY <2>1
  <2> QED BY <2>2, Zenon DEF Doomed
<1>5. CASE r.key # q.key
  <2>1. \A s : Holds(r, s)' <=> Holds(r, s)
    BY <1>3, <1>5, Zenon DEF Holds
  <2> QED BY <1>4, <2>1, Zenon
<1>6. CASE r.key = q.key
  <2>1. \A s : ~Holds(r, s)
    BY <1>1, <1>6, Zenon DEF Holds
  <2>2. /\ Row(inflight).digest = q.digest /\ Row(inflight).method = q.method
        /\ Row(inflight).principal = q.principal
        /\ Row(inflight).status = IF inflight.verdict = "accept" THEN "completed" ELSE "rejected"
    BY Zenon DEF Row
  <2>3. \A s : Holds(r, s)' => r = q /\ s = Row(inflight).status
    BY <1>1, <1>3, <1>6, <2>2, DigestAssumption DEF Holds
  <2>4. Holds(r, "completed")' => r = q /\ ~Doomed(r)
    BY <1>1, <2>2, <2>3, AcceptedIsNotDoomed
  <2> QED BY <1>4, <2>1, <2>4, Zenon
<1> QED BY <1>5, <1>6, Zenon

\* A transaction of one command leaves the other answers backed.
LEMMA WriteKeepsAnswers ==
  ASSUME IInv, Staged, Durable(inflight), UNCHANGED told
  PROVE  AnswerInv'
BY WriteAnswers, Zenon DEF IInv, AnswerInv

\* A consumer cannot have passed what is written: new events are behind all
\* that it was sent.
LEMMA WriteKeepsReader ==
  ASSUME IInv, Staged, Durable(inflight), UNCHANGED delivered
  PROVE  ReaderInv'
<1>1. delivered \subseteq Cursors /\ Cursors \subseteq Cursors' /\ HasMax(delivered)
  BY WriteShape, Zenon DEF IInv, ReaderInv
<1>2. LastDelivered' = LastDelivered
  BY Zenon DEF LastDelivered
<1>3. \A c \in Taken(inflight) : ~(c <= LastDelivered)
  <2> TAKE c \in Taken(inflight)
  <2>1. c \in Nat \ {0} /\ \A d \in Cursors : d < c /\ d \in Nat
    BY WriteShape DEF IInv, TypeOK, Cursors
  <2>2. CASE delivered = {}
    BY <2>1, <2>2, MaxOfEmpty DEF LastDelivered
  <2>3. CASE delivered # {}
    BY <1>1, <2>1, <2>3, MaxOfIs DEF LastDelivered
  <2> QED BY <2>2, <2>3, Zenon
<1>4. NoLateEvent'
  BY <1>2, <1>3, WriteShape, Zenon DEF NoLateEvent, IInv, ReaderInv
<1> QED BY <1>1, <1>4, Zenon DEF ReaderInv

-----------------------------------------------------------------------------
(* Steps that write no rows *)

rows == <<version, receipts, journal, applied>>

\* Steps that leave the rows alone keep the disk well-formed.
LEMMA RowsKept ==
  ASSUME IInv, UNCHANGED rows
  PROVE  /\ DiskInv'
         /\ Cursors' = Cursors /\ Known' = Known /\ RebuiltBooks' = RebuiltBooks
         /\ \A r \in Requests : (Doomed(r)' <=> Doomed(r)) /\ Verdict(r)' = Verdict(r)
         /\ \A r, s : Holds(r, s)' <=> Holds(r, s)
<1> USE DEF rows
<1>1. Cursors' = Cursors /\ Known' = Known /\ RebuiltBooks' = RebuiltBooks
  BY Zenon DEF Cursors, Known, RebuiltBooks
<1>2. DiskInv'
  BY <1>1, Zenon DEF IInv, DiskInv, ReceiptEventsValid, EventsOf, EventOwned, AtMostOnce
<1>3. \A r \in Requests : (Doomed(r)' <=> Doomed(r)) /\ Verdict(r)' = Verdict(r)
  BY VerdictKept, Zenon DEF Doomed
<1>4. \A r, s : Holds(r, s)' <=> Holds(r, s)
  BY Zenon DEF Holds
<1> QED BY <1>1, <1>2, <1>3, <1>4, Zenon

\* Steps that leave rows and answers alone keep the answers backed.
LEMMA AnswersKept ==
  ASSUME IInv, UNCHANGED rows, UNCHANGED told
  PROVE  AnswerInv'
BY RowsKept, Zenon DEF IInv, AnswerInv

\* Steps that leave journal, reader and cursors alone keep the reader whole.
LEMMA ReaderKept ==
  ASSUME IInv, UNCHANGED rows, UNCHANGED delivered
  PROVE  ReaderInv'
BY RowsKept, Zenon DEF IInv, ReaderInv, NoLateEvent, LastDelivered

\* Steps that leave floor and journal alone keep the floor in range.
LEMMA FloorKept ==
  ASSUME IInv, Cursors \subseteq Cursors', UNCHANGED <<floor, floorOp>>
  PROVE  FloorInv'
BY Zenon DEF IInv, FloorInv

\* Steps that leave the rows and the process alone keep the books true.
LEMMA BooksKept ==
  ASSUME IInv, UNCHANGED rows, UNCHANGED <<up, poisoned, books, nextCursor, inflight>>
  PROVE  BooksInv'
<1>1. /\ Staged' <=> Staged
      /\ Committed' <=> Committed
      /\ ToBook' = ToBook
  BY Zenon DEF Staged, Committed, ToBook
<1>2. Row(inflight)' = Row(inflight) /\ Taken(inflight)' = Taken(inflight)
  BY Zenon DEF Row, Taken
<1>3. Staged => Verdict(inflight.req)' = Verdict(inflight.req)
  BY StagedFacts, RowsKept, Zenon
<1> QED BY <1>1, <1>2, <1>3, RowsKept, Zenon DEF BooksInv, IInv, rows

-----------------------------------------------------------------------------
(* submit and reject_keyed *)

\* An answer the books have is the one on disk.
LEMMA ReplayKeeps ==
  ASSUME IInv, NEW r \in Requests, Replay(r)
  PROVE  AnswerInv'
<1> USE DEF Replay, disk, process, rows
<1>1. books.receipts = Known
  BY DEF IInv, BooksInv, Serving, Committed, RebuiltBooks, Known
<1>2. receipts[r.key] # Nothing /\ receipts[r.key] \in ReceiptRows
  BY <1>1, RequestsAssumption, Zenon DEF Known, RequestOK, IInv, TypeOK
<1>3. receipts[r.key].status \in {"completed", "rejected"}
  BY <1>2, Zenon DEF ReceiptRows
<1>4. \A s \in {"completed", "rejected"} : ReplayStored(r) = s => Holds(r, s)
  BY <1>2, <1>3, Zenon DEF ReplayStored, Holds
<1>5. ReplayStored(r) # "unrecorded"
  BY <1>3, Zenon DEF ReplayStored
<1>6. /\ told' = [told EXCEPT ![r] = @ \cup {ReplayStored(r)}]
      /\ told \in [Requests -> SUBSET {"completed", "rejected", "refused", "unrecorded"}]
  BY Zenon DEF Answer, IInv, TypeOK
<1>7. \A q \in Requests : told'[q] = IF q = r THEN told[r] \cup {ReplayStored(r)} ELSE told[q]
  BY <1>6, Zenon
<1>8. \A q \in Requests :
        /\ "completed" \in told'[q] => Holds(q, "completed")
        /\ "rejected" \in told'[q] /\ "unrecorded" \notin told'[q] => Holds(q, "rejected")
        /\ "unrecorded" \in told'[q] => "unrecorded" \in told[q]
  BY <1>4, <1>5, <1>7, Zenon DEF IInv, AnswerInv
<1> QED BY <1>8, RowsKept, Zenon DEF IInv, AnswerInv

\* A refusal is answered without a trace.
LEMMA RefuseKeeps ==
  ASSUME IInv, NEW r \in Requests, Refuse(r)
  PROVE  AnswerInv'
<1> USE DEF Refuse, disk, process, rows
<1>1. \A q \in Requests, a \in {"completed", "rejected", "unrecorded"} : a \in told'[q] <=> a \in told[q]
  BY Zenon DEF Answer, IInv, TypeOK
<1> QED BY <1>1, RowsKept, Zenon DEF IInv, AnswerInv

\* The receipt book is complete, so the key of a new command is open, and its
\* cursors are new.
LEMMA StageKeeps ==
  ASSUME IInv, NEW r \in Requests, Stage(r)
  PROVE  BooksInv'
<1> USE DEF Stage, disk, rows
<1>1. /\ up /\ ~poisoned /\ inflight = Nothing /\ ~Committed
      /\ books = RebuiltBooks
      /\ nextCursor \in Nat \ {0}
      /\ \A c \in Cursors : c < nextCursor
      /\ HasMax(books.events)
  BY Zenon DEF IInv, BooksInv, Serving, Committed, TypeOK
<1>2. RequestOK(r)
  BY RequestsAssumption, Zenon
<1>3. receipts[r.key] = Nothing
  BY <1>1, <1>2, Zenon DEF RebuiltBooks, RequestOK
<1>4. /\ inflight'.req = r /\ inflight'.verdict = Verdict(r) /\ inflight'.first = nextCursor
      /\ inflight'.stage = "staged" /\ inflight'.booked = 0
  BY Zenon
<1>5. ~Committed'
  BY <1>4, Zenon DEF Committed
<1>6. inflight'.first + ToBook' = nextCursor'
  BY <1>1, <1>2, <1>4 DEF ToBook, RequestOK
<1>7. \A c \in Cursors : c < nextCursor'
  BY <1>1, <1>2 DEF RequestOK, IInv, TypeOK, Cursors
<1> QED BY <1>1, <1>3, <1>4, <1>5, <1>6, <1>7, RowsKept, Zenon DEF BooksInv

\* The allocator stays ahead of what is written.
LEMMA WriteBelowNext ==
  ASSUME IInv, Staged, Durable(inflight)
  PROVE  up /\ \A c \in Cursors' : c < nextCursor
<1>1. /\ up /\ inflight.first + ToBook = nextCursor
      /\ \A c \in Cursors : c < nextCursor
  BY Zenon DEF IInv, BooksInv, Staged
<1>2. \A c \in Taken(inflight) : c < nextCursor
  BY <1>1, StagedFacts DEF Taken, ToBook, RequestOK
<1> QED BY <1>1, <1>2, WriteShape, Zenon

\* A confirmed commit makes the staged rows durable.
LEMMA CommitOkKeeps ==
  ASSUME IInv, CommitOk
  PROVE  BooksInv'
<1> DEFINE r == inflight.req
<1>1. Staged /\ Durable(inflight)
  BY Zenon DEF CommitOk
<1>2. /\ inflight' = [inflight EXCEPT !.stage = "durable"]
      /\ UNCHANGED <<up, poisoned, books, nextCursor>>
  BY Zenon DEF CommitOk
<1>3. /\ inflight'.req = r /\ inflight'.verdict = inflight.verdict
      /\ inflight'.first = inflight.first /\ inflight'.stage = "durable"
      /\ inflight'.booked = inflight.booked
  BY <1>1, <1>2, StagedFacts, Zenon DEF CommandsInFlight
<1>4. /\ Row(inflight)' = Row(inflight)
      /\ Taken(inflight)' = Taken(inflight)
      /\ ToBook' = ToBook
  BY <1>3, Zenon DEF Row, Taken, ToBook
<1>5. /\ r \in Requests /\ r.key \in Keys /\ r.events \in 0..2
      /\ inflight.first \in Nat \ {0}
      /\ inflight.booked = 0
      /\ inflight.first + ToBook = nextCursor
      /\ books = RebuiltBooks
      /\ up /\ ~poisoned
      /\ HasMax(books.events)
      /\ \A c \in Cursors : c < inflight.first /\ c \in Nat
  BY <1>1, StagedFacts DEF RequestOK, IInv, BooksInv, Staged, Committed, TypeOK, Cursors
<1>6. ToBook \in Nat
  BY <1>5 DEF ToBook
<1>7. receipts'[r.key] = Row(inflight)
  BY <1>1, <1>5, WriteShape, Zenon DEF IInv, TypeOK
<1>8. Known' \ {r.key} = Known
  BY <1>1, <1>5, StagedFacts, WriteShape, Zenon DEF Known, IInv, TypeOK
<1>9. {c \in Cursors' : c < inflight.first} = Cursors
  BY <1>1, <1>5, WriteShape DEF Taken
<1>10. Taken(inflight) \subseteq Cursors'
  BY <1>1, WriteShape, Zenon
<1>11. books.receipts = Known /\ books.events = Cursors
  BY <1>5, Zenon DEF RebuiltBooks, Known
<1>12. ~Staged'
  BY <1>3, Zenon DEF Staged
<1>13. inflight.first + inflight.booked = inflight.first
  BY <1>5
<1>14. \A c \in Cursors' : c < nextCursor'
  BY <1>1, <1>2, WriteBelowNext, Zenon
<1>15. inflight' # Nothing /\ Committed'
  <2>1. "stage" \in DOMAIN inflight' /\ "stage" \notin DOMAIN Nothing
    BY <1>1, <1>2, StagedFacts, Zenon DEF CommandsInFlight, Nothing
  <2> QED BY <1>3, <2>1, Zenon DEF Committed
<1>16. /\ receipts'[inflight'.req.key] = Row(inflight)'
       /\ inflight'.booked <= ToBook'
       /\ inflight'.first + ToBook' = nextCursor'
       /\ Taken(inflight)' \subseteq Cursors'
       /\ books'.receipts = Known' \ {inflight'.req.key}
       /\ books'.events = {c \in Cursors' : c < inflight'.first + inflight'.booked}
  BY <1>2, <1>3, <1>4, <1>5, <1>6, <1>7, <1>8, <1>9, <1>10, <1>11, <1>13
<1> QED BY <1>2, <1>5, <1>12, <1>14, <1>15, <1>16, Zenon DEF BooksInv

\* A refused commit leaves nothing behind.
LEMMA CommitRefusedKeeps ==
  ASSUME IInv, CommitRefused
  PROVE  BooksInv'
<1> USE DEF CommitRefused, disk, rows
<1>1. /\ books = RebuiltBooks
      /\ HasMax(books.events)
      /\ \A c \in Cursors : c < nextCursor
  BY Zenon DEF IInv, BooksInv, Staged, Committed
<1> QED BY <1>1, RowsKept, Zenon DEF BooksInv, Staged, Committed

\* An uncertain commit leaves the books behind, and the gate poisoned.
LEMMA CommitUnknownBooks ==
  ASSUME IInv, CommitUnknown
  PROVE  BooksInv'
<1> USE DEF CommitUnknown
<1>1. /\ up' /\ poisoned' /\ ~Staged' /\ ~Committed' /\ inflight' = Nothing
      /\ HasMax(books'.events)
  BY Zenon DEF IInv, BooksInv, Staged, Committed
<1>2. \A c \in Cursors' : c < nextCursor'
  <2>1. CASE Durable(inflight)
    BY <2>1, WriteBelowNext, Zenon
  <2>2. CASE UNCHANGED <<receipts, version, journal, applied>>
    BY <2>2, RowsKept, Zenon DEF rows, IInv, BooksInv, Staged
  <2> QED BY <2>1, <2>2, Zenon
<1> QED BY <1>1, <1>2, Zenon DEF BooksInv

\* The rejection it answers stands although its receipt may be lost, unless
\* other rows are in the way of the command.
LEMMA CommitUnknownAnswers ==
  ASSUME IInv, CommitUnknown
  PROVE  AnswerInv'
<1>1. PICK r \in Requests : /\ Staged /\ r = inflight.req
                            /\ receipts[r.key] = Nothing
                            /\ inflight.verdict = Verdict(r)
  BY StagedFacts, Zenon DEF CommitUnknown
<1>2. CASE UNCHANGED told
  <2>1. CASE Durable(inflight)
    BY <1>1, <1>2, <2>1, WriteKeepsAnswers, Zenon
  <2>2. CASE UNCHANGED <<receipts, version, journal, applied>>
    BY <1>2, <2>2, AnswersKept, Zenon DEF rows
  <2> QED BY <2>1, <2>2, Zenon DEF CommitUnknown
<1>3. CASE inflight.verdict = "reject" /\ AnswerUnrecorded(inflight)
  <2>1. (Doomed(r) \/ r.blockers # {}) /\ (\A s : ~Holds(r, s)) /\ Verdict(r) # "accept"
    BY <1>1, <1>3, VerdictIs, Zenon DEF Holds
  <2>2. /\ told \in [Requests -> SUBSET {"completed", "rejected", "refused", "unrecorded"}]
        /\ told' = [told EXCEPT ![r] = @ \cup {"rejected", "unrecorded"}]
    BY <1>1, <1>3, Zenon DEF AnswerUnrecorded, IInv, TypeOK
  <2>3. /\ \A q \in Requests \ {r} : told'[q] = told[q]
        /\ "unrecorded" \in told'[r]
        /\ "completed" \in told'[r] => "completed" \in told[r]
    BY <2>2, Zenon
  <2>4. CASE Durable(inflight)
    <3>1. \A q \in Requests : /\ Doomed(q) => Doomed(q)'
                              /\ \A s : Holds(q, s) => Holds(q, s)'
                              /\ Holds(q, "completed")' => Holds(q, "completed") \/ (q = r /\ ~Doomed(q))
      BY <1>1, <2>4, WriteAnswers, Zenon
    <3>2. \A q \in Requests \ {r} :
            /\ "completed" \in told'[q] => Holds(q, "completed")'
            /\ "rejected" \in told'[q] /\ "unrecorded" \notin told'[q] => Holds(q, "rejected")'
            /\ "unrecorded" \in told'[q] /\ q.blockers = {} => Doomed(q)' /\ ~Holds(q, "completed")'
      BY <2>3, <3>1, Zenon DEF IInv, AnswerInv
    <3>3. /\ "completed" \in told'[r] => Holds(r, "completed")'
          /\ r.blockers = {} => Doomed(r)' /\ ~Holds(r, "completed")'
      BY <2>1, <2>3, <3>1, Zenon DEF IInv, AnswerInv
    <3> QED BY <2>3, <3>2, <3>3, Zenon DEF AnswerInv
  <2>5. CASE UNCHANGED rows
    <3>1. \A q \in Requests \ {r} :
            /\ "completed" \in told'[q] => Holds(q, "completed")
            /\ "rejected" \in told'[q] /\ "unrecorded" \notin told'[q] => Holds(q, "rejected")
            /\ "unrecorded" \in told'[q] /\ q.blockers = {} => Doomed(q) /\ ~Holds(q, "completed")
      BY <2>3, Zenon DEF IInv, AnswerInv
    <3>2. /\ "completed" \in told'[r] => Holds(r, "completed")
          /\ r.blockers = {} => Doomed(r) /\ ~Holds(r, "completed")
      BY <2>1, <2>3, Zenon DEF IInv, AnswerInv
    <3> QED BY <2>3, <2>5, <3>1, <3>2, RowsKept, Zenon DEF AnswerInv
  <2> QED BY <2>4, <2>5, Zenon DEF CommitUnknown, rows
<1> QED BY <1>1, <1>2, <1>3, Zenon DEF CommitUnknown, AnswerUnrecorded

\* What is known while a durable command is entered in the books.
LEMMA CommittedFacts ==
  ASSUME IInv, Committed
  PROVE  /\ inflight \in CommandsInFlight /\ inflight # Nothing
         /\ inflight.req \in Requests /\ RequestOK(inflight.req)
         /\ receipts[inflight.req.key] = Row(inflight)
         /\ inflight.booked \in Nat /\ ToBook \in Nat /\ inflight.booked <= ToBook
         /\ inflight.first \in Nat \ {0}
         /\ inflight.first + ToBook = nextCursor
         /\ Taken(inflight) \subseteq Cursors
         /\ books \in [receipts : SUBSET Keys, events : SUBSET Nat]
         /\ books.receipts = Known \ {inflight.req.key}
         /\ books.events = {c \in Cursors : c < inflight.first + inflight.booked}
         /\ HasMax(books.events)
         /\ up /\ ~poisoned /\ ~Staged
         /\ \A c \in Cursors : c < nextCursor /\ c \in Nat
<1>1. inflight \in CommandsInFlight /\ inflight.req \in Requests /\ RequestOK(inflight.req)
  BY RequestsAssumption, Zenon DEF IInv, TypeOK, Committed, CommandsInFlight
<1>2. ToBook \in Nat
  BY <1>1 DEF ToBook, RequestOK
<1> QED BY <1>1, <1>2 DEF IInv, TypeOK, BooksInv, Committed, Staged, CommandsInFlight, Cursors

\* Booking one event of a durable command.
LEMMA BookEventKeeps ==
  ASSUME IInv, BookEvent
  PROVE  BooksInv'
<1>1. PICK c \in Nat : c = inflight.first + inflight.booked
  BY CommittedFacts DEF BookEvent
<1>2. /\ Committed /\ inflight.booked < ToBook
      /\ inflight' = [inflight EXCEPT !.booked = inflight.booked + 1]
      /\ books' = [books EXCEPT !.events = books.events \cup {c}]
      /\ UNCHANGED <<up, poisoned, nextCursor>> /\ UNCHANGED rows
  BY <1>1, Zenon DEF BookEvent, disk, rows
<1>3. /\ inflight'.req = inflight.req /\ inflight'.verdict = inflight.verdict
      /\ inflight'.first = inflight.first /\ inflight'.stage = "durable"
      /\ inflight'.booked = inflight.booked + 1
      /\ "stage" \in DOMAIN inflight'
  BY <1>2, CommittedFacts, Zenon DEF CommandsInFlight, Committed
<1>4. /\ Row(inflight)' = Row(inflight) /\ Taken(inflight)' = Taken(inflight)
      /\ ToBook' = ToBook
  BY <1>3, Zenon DEF Row, Taken, ToBook
<1>5. Committed' /\ ~Staged'
  BY <1>3 DEF Committed, Staged, Nothing
<1>6. c \in Cursors
  <2>1. c \in Taken(inflight)
    BY <1>1, <1>2, CommittedFacts DEF Taken, ToBook
  <2> QED BY <1>2, <2>1, CommittedFacts, Zenon
<1>7. books'.events = {d \in Cursors : d < inflight.first + (inflight.booked + 1)}
  BY <1>1, <1>2, <1>6, CommittedFacts
<1>8. books'.receipts = books.receipts
  BY <1>2, CommittedFacts, Zenon
<1>9. HasMax(books'.events)
  <2>1. c \in books'.events /\ \A d \in books'.events : d <= c
    BY <1>1, <1>2, <1>7, <1>6, CommittedFacts
  <2> QED BY <2>1, Zenon DEF HasMax
<1>10. inflight'.booked <= ToBook'
  BY <1>2, <1>3, <1>4, CommittedFacts
<1>11. receipts' = receipts /\ Cursors' = Cursors /\ Known' = Known
  BY <1>2, RowsKept, Zenon DEF rows
<1>12. up' /\ ~poisoned' /\ \A d \in Cursors' : d < nextCursor'
  BY <1>2, <1>11, CommittedFacts, Zenon
<1>13. /\ receipts'[inflight'.req.key] = Row(inflight)'
       /\ inflight'.first + ToBook' = nextCursor'
       /\ Taken(inflight)' \subseteq Cursors'
       /\ books'.receipts = Known' \ {inflight'.req.key}
       /\ books'.events = {d \in Cursors' : d < inflight'.first + inflight'.booked}
  BY <1>2, <1>3, <1>4, <1>7, <1>8, <1>11, CommittedFacts, Zenon
<1> QED BY <1>5, <1>9, <1>10, <1>12, <1>13, Zenon DEF BooksInv

\* Booking the receipt of a durable command completes the books.
LEMMA BookReceiptBooks ==
  ASSUME IInv, BookReceipt
  PROVE  BooksInv'
<1>1. /\ Committed /\ inflight.booked = ToBook
      /\ books' = [books EXCEPT !.receipts = books.receipts \cup {inflight.req.key}]
      /\ inflight' = Nothing
      /\ UNCHANGED <<up, poisoned, nextCursor>> /\ UNCHANGED rows
  BY Zenon DEF BookReceipt, disk, rows
<1>2. inflight.req.key \in Known
  BY <1>1, CommittedFacts, RowIsThere, Zenon DEF Known, RequestOK
<1>3. books'.receipts = Known /\ books'.events = Cursors
  BY <1>1, <1>2, CommittedFacts
<1>4. books' = RebuiltBooks
  BY <1>1, <1>3, CommittedFacts, Zenon DEF RebuiltBooks, Known
<1>5. Cursors' = Cursors /\ RebuiltBooks' = RebuiltBooks
  BY <1>1, RowsKept, Zenon
<1>6. HasMax(books'.events)
  BY <1>3, <1>1, CommittedFacts, Zenon DEF IInv, DiskInv
<1> QED BY <1>1, <1>4, <1>5, <1>6, CommittedFacts, Zenon DEF BooksInv, Staged, Committed

\* The answer is the one just committed.
LEMMA BookReceiptAnswers ==
  ASSUME IInv, BookReceipt
  PROVE  AnswerInv'
<1>1. PICK r \in Requests : Committed /\ r = inflight.req /\ receipts[r.key] = Row(inflight)
  BY CommittedFacts, Zenon DEF BookReceipt
<1> DEFINE status == IF inflight.verdict = "accept" THEN "completed" ELSE "rejected"
<1>2. Holds(r, status)
  BY <1>1, RowIsThere DEF Holds, Row
<1>3. UNCHANGED rows
  BY Zenon DEF BookReceipt, disk, rows
<1>4. told' = [told EXCEPT ![r] = @ \cup {status}]
  BY <1>1, Zenon DEF BookReceipt, Answer
<1>5. status \in {"completed", "rejected"}
  BY Zenon
<1>6. \A q \in Requests : told'[q] = IF q = r THEN told[r] \cup {status} ELSE told[q]
  BY <1>4, Zenon DEF IInv, TypeOK
<1>7. \A q \in Requests :
        /\ "completed" \in told'[q] => Holds(q, "completed")
        /\ "rejected" \in told'[q] /\ "unrecorded" \notin told'[q] => Holds(q, "rejected")
        /\ "unrecorded" \in told'[q] => "unrecorded" \in told[q]
  <2> HIDE DEF status
  <2>1. TAKE q \in Requests
  <2>2. /\ "completed" \in told[q] => Holds(q, "completed")
        /\ "rejected" \in told[q] /\ "unrecorded" \notin told[q] => Holds(q, "rejected")
    BY Zenon DEF IInv, AnswerInv
  <2>3. CASE q # r
    BY <1>6, <2>2, <2>3, Zenon
  <2>4. CASE q = r
    BY <1>2, <1>5, <1>6, <2>2, <2>4
  <2> QED BY <2>3, <2>4, Zenon
<1> QED BY <1>3, <1>7, RowsKept, Zenon DEF IInv, AnswerInv

-----------------------------------------------------------------------------
(* The retention floor, readers, kill and recovery *)

\* Every step of a retention-floor advance.
LEMMA FloorKeeps ==
  ASSUME IInv, Floor
  PROVE  FloorInv' /\ BooksInv'
<1>1. UNCHANGED rows /\ UNCHANGED <<up, books, nextCursor, inflight>>
  BY Zenon DEF Floor, FloorBegin, FloorCommitOk, FloorCommitRefused, FloorCommitUnknown, FloorPoison,
         disk, rows
<1>2. Cursors' = Cursors
  BY <1>1, RowsKept, Zenon
<1>3. FloorInv'
  <2>1. ASSUME NEW c \in Cursors, FloorBegin(c)
        PROVE  FloorInv'
    BY <1>2, <2>1, Zenon DEF FloorBegin, disk, IInv, FloorInv
  <2>2. CASE FloorCommitOk
    BY <1>2, <2>2, Zenon DEF FloorCommitOk, FloorChecked, IInv, FloorInv
  <2>3. CASE FloorCommitRefused
    BY <1>2, <2>3, Zenon DEF FloorCommitRefused, disk, IInv, FloorInv
  <2>4. CASE FloorCommitUnknown
    <3>1. floorOp # Nothing /\ floorOp.cursor \in Cursors /\ floor \in Cursors \cup {1}
      BY <2>4, Zenon DEF FloorCommitUnknown, FloorChecked, IInv, FloorInv
    <3>2. floorOp'.cursor = floorOp.cursor
      BY <2>4, <3>1, Zenon DEF FloorCommitUnknown, IInv, TypeOK
    <3> QED BY <1>2, <2>4, <3>1, <3>2 DEF FloorCommitUnknown, FloorInv
  <2>5. CASE FloorPoison
    BY <1>2, <2>5, Zenon DEF FloorPoison, disk, IInv, FloorInv
  <2> QED BY <2>1, <2>2, <2>3, <2>4, <2>5, Zenon DEF Floor
<1>4. BooksInv'
  <2>1. CASE UNCHANGED poisoned
    BY <1>1, <2>1, BooksKept, Zenon
  <2>2. CASE FloorPoison
    BY <1>1, <1>2, <2>2 DEF FloorPoison, IInv, BooksInv, Staged, Committed
  <2> QED BY <2>1, <2>2, Zenon DEF Floor, FloorBegin, FloorCommitOk, FloorCommitRefused,
                           FloorCommitUnknown
<1> QED BY <1>3, <1>4, Zenon

\* What is not in the books yet is behind everything in them, so a page of the
\* books leaves nothing out.
LEMMA ResumeKeeps ==
  ASSUME IInv, Resume
  PROVE  ReaderInv'
<1> DEFINE B == books.events
           D == delivered
           L == LastDelivered
           N == {c \in B : c > L}
<1>1. /\ UNCHANGED rows /\ up /\ ~poisoned
      /\ delivered' = D \cup N
  BY Zenon DEF Resume, disk, rows
<1>2. Cursors \subseteq Nat \ {0}
  BY DEF Cursors, IInv, TypeOK
<1>3. B \subseteq Cursors /\ \A c \in Cursors \ B : \A d \in B : d < c
  <2>1. CASE Committed
    BY <1>2, <2>1, CommittedFacts
  <2>2. CASE ~Committed
    BY <1>1, <2>2 DEF IInv, BooksInv, RebuiltBooks
  <2> QED BY <2>1, <2>2, Zenon
<1>4. D \subseteq Cursors /\ HasMax(D) /\ HasMax(B)
  BY Zenon DEF IInv, ReaderInv, BooksInv
<1>5. /\ L \in Nat /\ \A c \in D : c <= L
      /\ D # {} => L \in D
  <2>1. CASE D = {}
    BY <2>1, MaxOfEmpty DEF LastDelivered
  <2>2. CASE D # {}
    <3>1. MaxOf(D) \in D /\ \A c \in D : c <= MaxOf(D)
      BY <1>4, <2>2, MaxOfIs, Zenon
    <3> QED BY <1>2, <1>4, <3>1, Zenon DEF LastDelivered
  <2> QED BY <2>1, <2>2, Zenon
<1>6. Cursors' = Cursors
  BY <1>1, RowsKept, Zenon
<1>7. \A c \in Cursors : c <= L => c \in D
  BY Zenon DEF IInv, ReaderInv, NoLateEvent
<1>8. delivered' \subseteq Cursors'
  BY <1>1, <1>3, <1>4, <1>6, Zenon
<1>9. HasMax(D \cup N)
  <2>1. CASE N = {}
    BY <1>4, <2>1, Zenon
  <2>2. CASE N # {}
    <3>1. PICK m \in B : \A c \in B : c <= m
      BY <1>4, <2>2, Zenon DEF HasMax
    <3>2. m \in Nat /\ B \subseteq Nat /\ D \subseteq Nat
      BY <1>2, <1>3, <1>4, <3>1, Zenon
    <3>3. PICK n \in B : n > L
      BY <2>2, Zenon
    <3>4. m > L
      BY <1>5, <3>1, <3>2, <3>3
    <3>5. m \in N
      BY <3>1, <3>4, Zenon
    <3>6. \A c \in D : c <= m
      BY <1>5, <3>2, <3>4
    <3> QED BY <3>1, <3>5, <3>6, Zenon DEF HasMax
  <2> QED BY <2>1, <2>2, Zenon
<1>10. \A c \in Cursors : c <= MaxOf(D \cup N) => c \in D \cup N
  <2> SUFFICES ASSUME NEW c \in Cursors, c <= MaxOf(D \cup N), c \notin D \cup N
               PROVE  FALSE
    BY Zenon
  <2>1. CASE D \cup N = {}
    BY <1>2, <2>1, MaxOfEmpty
  <2>2. CASE D \cup N # {}
    <3>1. PICK m \in D \cup N : m = MaxOf(D \cup N)
      BY <1>9, <2>2, MaxOfIs, Zenon
    <3>2. m \in Nat /\ c \in Nat /\ c <= m
      BY <1>2, <1>3, <1>4, <3>1, Zenon
    <3>3. ~(c <= L) /\ c \notin B
      BY <1>5, <1>7, <3>2
    <3> QED BY <1>3, <1>5, <3>1, <3>2, <3>3
  <2> QED BY <2>1, <2>2, Zenon
<1>11. NoLateEvent'
  BY <1>1, <1>6, <1>10, Zenon DEF NoLateEvent, LastDelivered
<1> QED BY <1>1, <1>8, <1>9, <1>11, Zenon DEF ReaderInv

\* Whatever the process was doing, a kill leaves a disk that is well-formed.
LEMMA CrashKeeps ==
  ASSUME IInv, Crash
  PROVE  DiskInv' /\ FloorInv' /\ BooksInv' /\ ReaderInv' /\ AnswerInv'
<1> DEFINE Kept == DiskInv' /\ ReaderInv' /\ AnswerInv' /\ Cursors \subseteq Cursors'
<1>1. ASSUME Staged, Durable(inflight)
      PROVE  Kept
  <2>1. DiskInv' /\ ReaderInv' /\ AnswerInv'
    BY <1>1, WriteDisk, WriteKeepsReader, WriteKeepsAnswers, Zenon DEF Crash, clients
  <2>2. Cursors \subseteq Cursors'
    BY <1>1, WriteShape, Zenon
  <2> QED BY <2>1, <2>2, Zenon
<1>2. ASSUME UNCHANGED <<receipts, version, journal, applied>>
      PROVE  Kept
  <2>1. UNCHANGED rows /\ UNCHANGED <<told, delivered>>
    BY <1>2, Zenon DEF rows, Crash, clients
  <2> QED BY <2>1, RowsKept, ReaderKept, AnswersKept, Zenon
<1>3. Kept
  BY <1>1, <1>2, Zenon DEF Crash
<1>4. FloorInv'
  BY <1>3, Zenon DEF Crash, IInv, FloorInv, FloorChecked
<1>5. BooksInv'
  BY Zenon DEF Crash, BooksInv, EmptyBooks, HasMax, Staged, Committed
<1> QED BY <1>3, <1>4, <1>5, Zenon

\* The rebuilt books are complete, and the allocator is above every event.
LEMMA RecoverKeeps ==
  ASSUME IInv, Recover
  PROVE  BooksInv'
<1>1. /\ UNCHANGED rows /\ UNCHANGED inflight
      /\ books' = RebuiltBooks /\ nextCursor' = MaxOf(Cursors) + 1
      /\ inflight = Nothing
  BY Zenon DEF Recover, RestoredCursor, rows, IInv, BooksInv
<1>2. Cursors \subseteq Nat /\ HasMax(Cursors)
  BY SMTT(30) DEF Cursors, IInv, TypeOK, DiskInv
<1>3. \A c \in Cursors : c < MaxOf(Cursors) + 1
  <2> TAKE c \in Cursors
  <2>1. PICK m \in Cursors : m = MaxOf(Cursors) /\ c <= m
    BY <1>2, MaxOfIs, Zenon
  <2>2. m \in Nat /\ c \in Nat
    BY <1>2, Zenon
  <2> QED BY <2>1, <2>2
<1>4. HasMax(books'.events)
  BY <1>1, <1>2, Zenon DEF RebuiltBooks
<1>5. ~Staged' /\ ~Committed'
  BY <1>1, Zenon DEF Staged, Committed
<1> QED BY <1>1, <1>3, <1>4, <1>5, RowsKept, Zenon DEF BooksInv

-----------------------------------------------------------------------------
(* The invariant *)

\* Steps that leave the rows alone keep their types.
LEMMA RowTypesKept ==
  ASSUME IInv, UNCHANGED rows
  PROVE  /\ version' \in [Aggregates -> Nat]
         /\ receipts' \in [Keys -> ReceiptRows \cup {Nothing}]
         /\ journal' \subseteq [cursor : Nat \ {0}, key : Keys]
         /\ applied' \in [Requests -> Nat]
BY Zenon DEF IInv, TypeOK, rows

\* Every step keeps the shape of the variables.
LEMMA TypeStep ==
  ASSUME IInv, [Next]_vars
  PROVE  TypeOK'
<1> DEFINE RowsOK == /\ version' \in [Aggregates -> Nat]
                     /\ receipts' \in [Keys -> ReceiptRows \cup {Nothing}]
                     /\ journal' \subseteq [cursor : Nat \ {0}, key : Keys]
                     /\ applied' \in [Requests -> Nat]
<1>1. /\ Staged /\ Durable(inflight) => RowsOK
      /\ UNCHANGED rows => RowsOK
  BY WriteTypes, RowTypesKept, Zenon
<1> HIDE DEF RowsOK
<1>2. ASSUME NEW r \in Requests, Replay(r)
      PROVE  TypeOK'
  <2>1. books.receipts = Known
    BY <1>2 DEF Replay, IInv, BooksInv, Serving, Committed, RebuiltBooks, Known
  <2>2. receipts[r.key] \in ReceiptRows
    BY <1>2, <2>1, RequestsAssumption, Zenon DEF Replay, Known, RequestOK, IInv, TypeOK
  <2>3. ReplayStored(r) \in {"completed", "rejected", "refused"}
    BY <2>2, Zenon DEF ReplayStored, ReceiptRows
  <2> QED BY <1>2, <2>3, Zenon DEF Replay, Answer, IInv, TypeOK, disk, process
<1>3. ASSUME NEW r \in Requests, Refuse(r)
      PROVE  TypeOK'
  BY <1>3, Zenon DEF Refuse, Answer, IInv, TypeOK, disk, process
<1>4. ASSUME NEW r \in Requests, Stage(r)
      PROVE  TypeOK'
  <2>1. r.events \in 0..2 /\ nextCursor \in Nat \ {0}
    BY RequestsAssumption, Zenon DEF RequestOK, IInv, TypeOK
  <2>2. inflight' \in CommandsInFlight /\ nextCursor' \in Nat \ {0}
    BY <1>4, <2>1 DEF Stage, CommandsInFlight
  <2> QED BY <1>4, <2>2, SMTT(30) DEF Stage, IInv, TypeOK, disk, clients
<1>5. CASE CommitOk
  <2>1. RowsOK
    BY <1>1, <1>5, Zenon DEF CommitOk
  <2>2. inflight' \in CommandsInFlight
    BY <1>5, StagedFacts, Zenon DEF CommitOk, CommandsInFlight
  <2> QED BY <1>5, <2>1, <2>2, Zenon DEF CommitOk, IInv, TypeOK, clients, RowsOK
<1>6. CASE CommitRefused
  BY <1>6, BoundsAssumption DEF CommitRefused, CanFail, IInv, TypeOK, disk, clients
<1>7. CASE CommitUnknown
  <2>1. RowsOK
    BY <1>1, <1>7, Zenon DEF CommitUnknown, rows
  <2>2. faults' \in 0..MaxFaults
    BY <1>7, BoundsAssumption DEF CommitUnknown, CanFail, IInv, TypeOK
  <2>3. told' \in [Requests -> SUBSET {"completed", "rejected", "refused", "unrecorded"}]
    BY <1>7 DEF CommitUnknown, AnswerUnrecorded, IInv, TypeOK
  <2> QED BY <1>7, <2>1, <2>2, <2>3, Zenon DEF CommitUnknown, IInv, TypeOK, RowsOK
<1>8. CASE BookEvent
  <2>1. /\ inflight' \in CommandsInFlight
        /\ books' \in [receipts : SUBSET Keys, events : SUBSET Nat]
    BY <1>8, CommittedFacts DEF BookEvent, CommandsInFlight
  <2> QED BY <1>8, <2>1, Zenon DEF BookEvent, IInv, TypeOK, disk, clients
<1>9. CASE BookReceipt
  <2>1. books' \in [receipts : SUBSET Keys, events : SUBSET Nat]
    BY <1>9, CommittedFacts, Zenon DEF BookReceipt, RequestOK
  <2>2. told' \in [Requests -> SUBSET {"completed", "rejected", "refused", "unrecorded"}]
    BY <1>9, Zenon DEF BookReceipt, Answer, IInv, TypeOK
  <2> QED BY <1>9, <2>1, <2>2, Zenon DEF BookReceipt, IInv, TypeOK, disk
<1>10. ASSUME NEW c \in Cursors, FloorBegin(c)
       PROVE  TypeOK'
  <2>1. c \in Nat \ {0}
    BY Zenon DEF Cursors, IInv, TypeOK
  <2> QED BY <1>10, <2>1, Zenon DEF FloorBegin, IInv, TypeOK, disk, clients
<1>11. CASE FloorCommitOk
  BY <1>11, Zenon DEF FloorCommitOk, FloorChecked, IInv, TypeOK, clients
<1>12. CASE FloorCommitRefused
  BY <1>12, BoundsAssumption DEF FloorCommitRefused, CanFail, IInv, TypeOK, disk, clients
<1>13. CASE FloorCommitUnknown
  <2>1. floorOp \in [cursor : Nat \ {0}, stage : {"checked", "uncertain"}]
    BY <1>13, Zenon DEF FloorCommitUnknown, FloorChecked, IInv, TypeOK
  <2>2. floorOp' \in [cursor : Nat \ {0}, stage : {"checked", "uncertain"}]
    BY <1>13, <2>1, Zenon DEF FloorCommitUnknown
  <2>3. faults' \in 0..MaxFaults
    BY <1>13, BoundsAssumption DEF FloorCommitUnknown, CanFail, IInv, TypeOK
  <2>4. floor' \in Nat \ {0}
    BY <1>13, <2>1, Zenon DEF FloorCommitUnknown, IInv, TypeOK
  <2> QED BY <1>13, <2>2, <2>3, <2>4, Zenon DEF FloorCommitUnknown, IInv, TypeOK, clients
<1>14. CASE FloorPoison
  BY <1>14, Zenon DEF FloorPoison, IInv, TypeOK, disk, clients
<1>15. CASE Resume
  <2>1. delivered' \subseteq Nat
    BY <1>15, Zenon DEF Resume, IInv, TypeOK
  <2> QED BY <1>15, <2>1, Zenon DEF Resume, IInv, TypeOK, disk, process
<1>16. CASE Crash
  <2>1. RowsOK
    BY <1>1, <1>16, Zenon DEF Crash, rows
  <2>2. floor' \in Nat \ {0}
    BY <1>16, Zenon DEF Crash, FloorChecked, IInv, TypeOK
  <2>3. books' \in [receipts : SUBSET Keys, events : SUBSET Nat]
    BY <1>16, Zenon DEF Crash, EmptyBooks
  <2>4. /\ up' \in BOOLEAN /\ poisoned' \in BOOLEAN
        /\ inflight' = Nothing /\ floorOp' = Nothing
        /\ floorSeen' = 1
        /\ UNCHANGED <<authority, nextCursor, told, delivered, faults>>
    BY <1>16, Zenon DEF Crash, clients
  <2> QED BY <2>1, <2>2, <2>3, <2>4 DEF IInv, TypeOK, RowsOK
<1>17. CASE Recover
  <2>1. books' \in [receipts : SUBSET Keys, events : SUBSET Nat]
    BY <1>17 DEF Recover, RebuiltBooks, Cursors, IInv, TypeOK
  <2>2. MaxOf(Cursors) \in Nat
    <3>1. Cursors \subseteq Nat /\ HasMax(Cursors)
      BY DEF Cursors, IInv, TypeOK, DiskInv
    <3>2. CASE Cursors = {}
      BY <3>2, MaxOfEmpty
    <3>3. CASE Cursors # {}
      BY <3>1, <3>3, MaxOfIs, Zenon
    <3> QED BY <3>2, <3>3, Zenon
  <2>3. nextCursor' \in Nat \ {0} /\ authority' \in 1..MaxLives
    BY <1>17, <2>2, BoundsAssumption DEF Recover, RestoredCursor, IInv, TypeOK
  <2> QED BY <1>17, <2>1, <2>3, Zenon DEF Recover, IInv, TypeOK, clients
<1>18. CASE RecoverUnknown
  BY <1>18, BoundsAssumption DEF RecoverUnknown, IInv, TypeOK, process, clients
<1>19. CASE UNCHANGED vars
  BY <1>19, Zenon DEF IInv, TypeOK, vars, disk, process, clients
<1> QED BY <1>2, <1>3, <1>4, <1>5, <1>6, <1>7, <1>8, <1>9, <1>10, <1>11, <1>12, <1>13, <1>14,
           <1>15, <1>16, <1>17, <1>18, <1>19, Zenon DEF Next, Command, Commit, Floor

\* The empty funnel satisfies the invariant.
LEMMA InitIInv == Init => IInv
<1> SUFFICES ASSUME Init PROVE IInv
  BY Zenon
<1> USE DEF Init
<1>1. TypeOK
  <2>1. up \in BOOLEAN /\ poisoned \in BOOLEAN
    BY Zenon
  <2>2. books \in [receipts : SUBSET Keys, events : SUBSET Nat]
    BY Zenon DEF EmptyBooks
  <2> QED BY <2>1, <2>2, BoundsAssumption DEF TypeOK
<1>2. Cursors = {} /\ Known = {}
  BY Zenon DEF Cursors, Known
<1>3. DiskInv
  BY <1>2 DEF DiskInv, ReceiptEventsValid, HasMax, AtMostOnce
<1>4. FloorInv
  BY Zenon DEF FloorInv
<1>5. BooksInv
  BY <1>2, Zenon DEF BooksInv, HasMax, EmptyBooks, RebuiltBooks, Staged, Committed
<1>6. ReaderInv
  BY <1>2, Zenon DEF ReaderInv, HasMax, NoLateEvent
<1>7. AnswerInv
  <2>1. \A r \in Requests : \A s : ~Holds(r, s)
    BY RequestsAssumption, Zenon DEF Holds, RequestOK
  <2> QED BY <2>1, Zenon DEF AnswerInv
<1> QED BY <1>1, <1>3, <1>4, <1>5, <1>6, <1>7, Zenon DEF IInv

\* Every step of the funnel keeps the invariant.
LEMMA NextIInv == IInv /\ [Next]_vars => IInv'
<1> SUFFICES ASSUME IInv, [Next]_vars PROVE IInv'
  BY Zenon
<1> DEFINE Goal == DiskInv' /\ FloorInv' /\ BooksInv' /\ ReaderInv' /\ AnswerInv'
<1>1. ASSUME NEW r \in Requests, Replay(r) \/ Refuse(r)
      PROVE  Goal
  <2>1. /\ UNCHANGED rows /\ UNCHANGED <<delivered, floor, floorOp>>
        /\ UNCHANGED <<up, poisoned, books, nextCursor, inflight>>
    BY <1>1, Zenon DEF Replay, Refuse, disk, process, rows
  <2> QED BY <1>1, <2>1, RowsKept, FloorKept, BooksKept, ReaderKept, ReplayKeeps, RefuseKeeps, Zenon
<1>2. ASSUME NEW r \in Requests, Stage(r)
      PROVE  Goal
  <2>1. UNCHANGED rows /\ UNCHANGED <<told, delivered, floor, floorOp>>
    BY <1>2, Zenon DEF Stage, disk, clients, rows
  <2> QED BY <1>2, <2>1, RowsKept, FloorKept, ReaderKept, AnswersKept, StageKeeps, Zenon
<1>3. ASSUME CommitOk
      PROVE  Goal
  <2>1. Staged /\ Durable(inflight) /\ UNCHANGED <<told, delivered, floor, floorOp>>
    BY <1>3, Zenon DEF CommitOk, clients
  <2>2. Cursors \subseteq Cursors'
    BY <2>1, WriteShape, Zenon
  <2> QED BY <1>3, <2>1, <2>2, WriteDisk, WriteKeepsReader, WriteKeepsAnswers, FloorKept,
             CommitOkKeeps, Zenon
<1>4. ASSUME CommitRefused
      PROVE  Goal
  <2>1. UNCHANGED rows /\ UNCHANGED <<told, delivered, floor, floorOp>>
    BY <1>4, Zenon DEF CommitRefused, disk, clients, rows
  <2> QED BY <1>4, <2>1, RowsKept, FloorKept, ReaderKept, AnswersKept, CommitRefusedKeeps, Zenon
<1>5. ASSUME CommitUnknown
      PROVE  Goal
  <2>1. Staged /\ UNCHANGED <<delivered, floor, floorOp>>
    BY <1>5, Zenon DEF CommitUnknown
  <2>2. DiskInv' /\ ReaderInv' /\ Cursors \subseteq Cursors'
    <3>1. CASE Durable(inflight)
      BY <2>1, <3>1, WriteShape, WriteDisk, WriteKeepsReader, Zenon
    <3>2. CASE UNCHANGED rows
      BY <2>1, <3>2, RowsKept, ReaderKept, Zenon
    <3> QED BY <1>5, <3>1, <3>2, Zenon DEF CommitUnknown, rows
  <2> QED BY <1>5, <2>1, <2>2, FloorKept, CommitUnknownBooks, CommitUnknownAnswers, Zenon
<1>6. ASSUME BookEvent
      PROVE  Goal
  <2>1. UNCHANGED rows /\ UNCHANGED <<told, delivered, floor, floorOp>>
    BY <1>6, Zenon DEF BookEvent, disk, clients, rows
  <2> QED BY <1>6, <2>1, RowsKept, FloorKept, ReaderKept, AnswersKept, BookEventKeeps, Zenon
<1>7. ASSUME BookReceipt
      PROVE  Goal
  <2>1. UNCHANGED rows /\ UNCHANGED <<delivered, floor, floorOp>>
    BY <1>7, Zenon DEF BookReceipt, disk, rows
  <2> QED BY <1>7, <2>1, RowsKept, FloorKept, ReaderKept, BookReceiptBooks, BookReceiptAnswers, Zenon
<1>8. ASSUME Floor
      PROVE  Goal
  <2>1. UNCHANGED rows /\ UNCHANGED <<told, delivered>>
    BY <1>8, Zenon DEF Floor, FloorBegin, FloorCommitOk, FloorCommitRefused, FloorCommitUnknown,
                FloorPoison, disk, clients, rows
  <2> QED BY <1>8, <2>1, RowsKept, ReaderKept, AnswersKept, FloorKeeps, Zenon
<1>9. ASSUME Resume
      PROVE  Goal
  <2>1. /\ UNCHANGED rows /\ UNCHANGED <<told, floor, floorOp>>
        /\ UNCHANGED <<up, poisoned, books, nextCursor, inflight>>
    BY <1>9, Zenon DEF Resume, disk, process, rows
  <2> QED BY <1>9, <2>1, RowsKept, FloorKept, BooksKept, AnswersKept, ResumeKeeps, Zenon
<1>10. ASSUME Recover
       PROVE  Goal
  <2>1. UNCHANGED rows /\ UNCHANGED <<told, delivered, floor, floorOp>>
    BY <1>10, Zenon DEF Recover, clients, rows
  <2> QED BY <1>10, <2>1, RowsKept, FloorKept, ReaderKept, AnswersKept, RecoverKeeps, Zenon
<1>11. ASSUME RecoverUnknown \/ UNCHANGED vars
       PROVE  Goal
  <2>1. /\ UNCHANGED rows /\ UNCHANGED <<told, delivered, floor, floorOp>>
        /\ UNCHANGED <<up, poisoned, books, nextCursor, inflight>>
    BY <1>11, Zenon DEF RecoverUnknown, vars, disk, process, clients, rows
  <2> QED BY <2>1, RowsKept, FloorKept, BooksKept, ReaderKept, AnswersKept, Zenon
<1>12. Goal
  BY <1>1, <1>2, <1>3, <1>4, <1>5, <1>6, <1>7, <1>8, <1>9, <1>10, <1>11, CrashKeeps, Zenon
     DEF Next, Command, Commit
<1> QED BY <1>12, TypeStep, Zenon DEF IInv

\* The funnel's invariant: the disk is well-formed, the books lag behind it only
\* by the command in flight, and clients were told what is on disk.
THEOREM FunnelInductive == Spec => []IInv
BY InitIInv, NextIInv, PTL DEF Spec

\* A command takes effect at most once, whatever is retried (Funnel::submit).
THEOREM CommandsApplyOnce == Spec => []AtMostOnce
<1>1. IInv => AtMostOnce
  BY Zenon DEF IInv, DiskInv
<1> QED BY <1>1, FunnelInductive, PTL

\* Only a replay, a refusal, an uncertain commit and the end of a command answer,
\* and each of them answers one request.
LEMMA WhoAnswers ==
  ASSUME IInv, [Next]_vars, NEW r \in Requests, told'[r] # told[r]
  PROVE  \/ Replay(r)
         \/ Refuse(r)
         \/ CommitUnknown /\ inflight.req = r
         \/ BookReceipt /\ inflight.req = r
<1>1. told \in [Requests -> SUBSET {"completed", "rejected", "refused", "unrecorded"}]
  BY Zenon DEF IInv, TypeOK
<1>2. ASSUME NEW q \in Requests, Replay(q) \/ Refuse(q)
      PROVE  q = r
  BY <1>1, <1>2, Zenon DEF Replay, Refuse, Answer
<1>3. CASE CommitUnknown
  BY <1>1, <1>3, Zenon DEF CommitUnknown, AnswerUnrecorded
<1>4. CASE BookReceipt
  BY <1>1, <1>4, Zenon DEF BookReceipt, Answer
<1>5. ~UNCHANGED told
  BY Zenon
<1>6. ASSUME \/ \E q \in Requests : Stage(q)
             \/ CommitOk \/ CommitRefused \/ BookEvent \/ Floor \/ Resume \/ Crash \/ Recover
             \/ RecoverUnknown \/ UNCHANGED vars
      PROVE  FALSE
  BY <1>5, <1>6, Zenon DEF Stage, CommitOk, CommitRefused, BookEvent, Floor, FloorBegin, FloorCommitOk,
            FloorCommitRefused, FloorCommitUnknown, FloorPoison, Resume, Crash, Recover,
            RecoverUnknown, vars, clients
<1> QED BY <1>2, <1>3, <1>4, <1>6, Zenon DEF Next, Command, Commit

\* An answer that has its receipt on disk is the answer of every later step.
LEMMA ReceiptAnswers ==
  ASSUME IInv, [Next]_vars, NEW r \in Requests, NEW s \in {"completed", "rejected"},
         Holds(r, s), s \in told[r]
  PROVE  told'[r] = told[r]
<1> SUFFICES ASSUME told'[r] # told[r] PROVE FALSE
  BY Zenon
<1>1. told \in [Requests -> SUBSET {"completed", "rejected", "refused", "unrecorded"}]
  BY Zenon DEF IInv, TypeOK
<1>2. receipts[r.key] # Nothing /\ r.key \in Keys
  BY RequestsAssumption, Zenon DEF Holds, RequestOK
<1>3. CASE Replay(r)
  <2>1. ReplayStored(r) = s
    BY Zenon DEF ReplayStored, Holds
  <2>2. told' = [told EXCEPT ![r] = @ \cup {s}]
    BY <1>3, <2>1, Zenon DEF Replay, Answer
  <2> QED BY <1>1, <2>2
<1>4. CASE Refuse(r)
  <2>1. books.receipts = Known
    BY <1>4 DEF Refuse, IInv, BooksInv, Serving, Committed, RebuiltBooks, Known
  <2> QED BY <1>2, <1>4, <2>1, Zenon DEF Refuse, Known
<1>5. CASE CommitUnknown /\ inflight.req = r
  BY <1>2, <1>5, StagedFacts, Zenon DEF CommitUnknown
<1>6. CASE BookReceipt /\ inflight.req = r
  <2>1. receipts[r.key] = Row(inflight)
    BY <1>6, CommittedFacts, Zenon DEF BookReceipt
  <2>2. s = IF inflight.verdict = "accept" THEN "completed" ELSE "rejected"
    BY <2>1 DEF Holds, Row
  <2>3. told' = [told EXCEPT ![r] = @ \cup {s}]
    BY <1>6, <2>2, Zenon DEF BookReceipt, Answer
  <2> QED BY <1>1, <2>3
<1> QED BY <1>3, <1>4, <1>5, <1>6, WhoAnswers, Zenon

\* A completion, and a rejection with a receipt, is the only answer ever after; a
\* rejection whose receipt may be lost is followed by a completion only if other
\* rows were in the way of the request (Funnel::submit, Funnel::reject_keyed).
THEOREM AnswersNeverChange == Spec => AnswersAgree
<1>1. ASSUME IInv, [Next]_vars, IInv', NEW r \in Requests
      PROVE  /\ "completed" \in told[r] => told'[r] = told[r]
             /\ "rejected" \in told[r] /\ "unrecorded" \notin told[r] => told'[r] = told[r]
             /\ "unrecorded" \in told[r] /\ r.blockers = {} => "completed" \notin told'[r]
  <2>1. "completed" \in told[r] => told'[r] = told[r]
    BY <1>1, ReceiptAnswers, Zenon DEF IInv, AnswerInv
  <2>2. "rejected" \in told[r] /\ "unrecorded" \notin told[r] => told'[r] = told[r]
    BY <1>1, ReceiptAnswers, Zenon DEF IInv, AnswerInv
  <2>3. "unrecorded" \in told[r] => "unrecorded" \in told'[r]
    <3>1. told \in [Requests -> SUBSET {"completed", "rejected", "refused", "unrecorded"}]
      BY <1>1, Zenon DEF IInv, TypeOK
    <3>2. CASE Replay(r) \/ Refuse(r)
      BY <3>1, <3>2, Zenon DEF Replay, Refuse, Answer
    <3>3. CASE CommitUnknown /\ inflight.req = r
      BY <3>1, <3>3, Zenon DEF CommitUnknown, AnswerUnrecorded
    <3>4. CASE BookReceipt /\ inflight.req = r
      BY <3>1, <3>4, Zenon DEF BookReceipt, Answer
    <3> QED BY <1>1, <3>2, <3>3, <3>4, WhoAnswers, Zenon
  <2>4. "unrecorded" \in told[r] /\ r.blockers = {} => "completed" \notin told'[r]
    BY <1>1, <2>3, Zenon DEF IInv, AnswerInv
  <2> QED BY <2>1, <2>2, <2>4, Zenon
<1>2. IInv /\ [Next]_vars /\ IInv' =>
        [\A r \in Requests :
           /\ "completed" \in told[r] => told'[r] = told[r]
           /\ "rejected" \in told[r] /\ "unrecorded" \notin told[r] => told'[r] = told[r]
           /\ "unrecorded" \in told[r] /\ r.blockers = {} => "completed" \notin told'[r]]_vars
  BY <1>1, Zenon
<1> QED BY <1>2, FunnelInductive, PTL DEF Spec, AnswersAgree

\* A reader that resumes from its last cursor misses no event (Store's books
\* and cursor allocator, across restarts).
THEOREM ReadersMissNothing == Spec => []NoLateEvent
<1>1. IInv => NoLateEvent
  BY Zenon DEF IInv, ReaderInv
<1> QED BY <1>1, FunnelInductive, PTL

\* Store::recover accepts whatever a kill leaves on disk.
THEOREM RecoveryAlwaysAccepts == Spec => []RecoveryNeverRefuses
<1>1. IInv => RecoveryNeverRefuses
  <2> SUFFICES ASSUME IInv PROVE floor <= MaxOf(Cursors) \/ (floor = 1 /\ journal = {})
    BY Zenon DEF RecoveryNeverRefuses, RecoveryValid, IInv, DiskInv
  <2>1. Cursors \subseteq Nat \ {0} /\ HasMax(Cursors) /\ floor \in Cursors \cup {1}
    BY SMTT(30) DEF Cursors, IInv, TypeOK, DiskInv, FloorInv
  <2>2. CASE Cursors = {}
    BY <2>1, <2>2, Zenon DEF Cursors
  <2>3. CASE Cursors # {}
    <3>1. PICK m \in Cursors : m = MaxOf(Cursors) /\ \A c \in Cursors : c <= m
      BY <2>1, <2>3, MaxOfIs, Zenon
    <3>2. m \in Nat \ {0}
      BY <2>1, Zenon
    <3> QED BY <2>1, <3>1, <3>2
  <2> QED BY <2>2, <2>3, Zenon
<1> QED BY <1>1, FunnelInductive, PTL

-----------------------------------------------------------------------------
(* The funnel implements the command log *)

Decisions == [k \in Keys |-> Decided(k)]
Acked == {r \in Requests : "completed" \in told[r]}

\* A transaction decides the open key of its command, lawfully when it completes.
LEMMA WriteDecides ==
  ASSUME IInv, Staged, Durable(inflight), Acked' = Acked
  PROVE  Log!LogNext
<1>1. PICK r \in Requests : r = inflight.req
  BY StagedFacts, Zenon
<1>2. /\ r.key \in Keys /\ r.method \in Methods /\ r.agg \in Aggregates
      /\ receipts[r.key] = Nothing
      /\ inflight.verdict = Verdict(r) /\ inflight.verdict \in {"accept", "reject"}
  BY <1>1, StagedFacts, Zenon DEF RequestOK, CommandsInFlight
<1> DEFINE status == IF inflight.verdict = "accept" THEN "completed" ELSE "rejected"
<1>3. receipts' = [receipts EXCEPT ![r.key] = Row(inflight)]
  BY <1>1, WriteShape, Zenon
<1>4. Decided(r.key) = Nothing
  BY <1>2, Zenon DEF Decided
<1>5. Decisions' = [Decisions EXCEPT ![r.key] = Log!Entry(r, status)]
  <2>1. Decided(r.key)' = Log!Entry(r, status)
    <3>1. receipts'[r.key] = Row(inflight)
      BY <1>2, <1>3, Zenon DEF IInv, TypeOK
    <3>2. receipts'[r.key] # Nothing
      BY <3>1, RowIsThere, Zenon
    <3>3. /\ Row(inflight).digest = r.digest /\ Row(inflight).method = r.method
          /\ Row(inflight).principal = r.principal /\ Row(inflight).status = status
      BY <1>1, Zenon DEF Row
    <3> QED BY <3>1, <3>2, <3>3, Zenon DEF Decided, Log!Entry
  <2>2. \A k \in Keys \ {r.key} : Decided(k)' = Decided(k)
    BY <1>3, Zenon DEF Decided, IInv, TypeOK
  <2> HIDE DEF status
  <2> QED BY <1>2, <2>1, <2>2, Zenon DEF Decisions
<1>6. Decisions[r.key] = Log!Undecided
  BY <1>2, <1>4, Zenon DEF Decisions, Nothing, Log!Undecided
<1>7. CASE inflight.verdict = "accept"
  <2>1. Log!Lawful(r)
    <3>1. version[r.agg] \in Nat
      BY <1>2, Zenon DEF IInv, TypeOK
    <3>2. /\ r.method # "malformed"
          /\ r.method = "create" => ~(version[r.agg] > 0)
          /\ r.method # "create" => version[r.agg] # 0 /\ r.expects = version[r.agg]
      BY <1>2, <1>7, VerdictIs, Zenon
    <3>3. /\ ~(version[r.agg] > 0) => version[r.agg] = 0
          /\ version[r.agg] # 0 => version[r.agg] > 0
      <4>1. PICK v \in Nat : v = version[r.agg]
        BY <3>1, Zenon
      <4> QED BY <4>1
    <3> QED BY <3>2, <3>3, Zenon DEF Log!Lawful
  <2>2. version' = IF r.method = "report" THEN version
                   ELSE [version EXCEPT ![r.agg] = version[r.agg] + 1]
    <3>1. r.method # "malformed"
      BY <1>2, <1>7, VerdictIs, Zenon
    <3> QED BY <1>1, <1>2, <1>7, <3>1, Zenon DEF Durable, Methods
  <2>3. Decisions' = [Decisions EXCEPT ![r.key] = Log!Entry(r, "completed")]
    BY <1>5, <1>7, Zenon
  <2>4. Log!Complete(r)
    BY <1>6, <2>1, <2>2, <2>3, Zenon DEF Log!Complete, Decisions, Acked
  <2> QED BY <2>4, Zenon DEF Log!LogNext
<1>8. CASE inflight.verdict = "reject"
  <2>1. version' = version
    BY <1>8, Zenon DEF Durable
  <2>2. Decisions' = [Decisions EXCEPT ![r.key] = Log!Entry(r, "rejected")]
    BY <1>5, <1>8, Zenon
  <2>3. Log!Reject(r)
    BY <1>6, <2>1, <2>2, Zenon DEF Log!Reject, Decisions, Acked
  <2> QED BY <2>3, Zenon DEF Log!LogNext
<1> QED BY <1>2, <1>7, <1>8, Zenon

\* A step that leaves the rows and the acknowledgements alone is a stutter of the log.
LEMMA RowsDecideNothing ==
  ASSUME IInv, UNCHANGED rows, Acked' = Acked
  PROVE  UNCHANGED Log!logVars
BY Zenon DEF Log!logVars, rows, Acked, Decided

\* An acknowledgement is of a decision that is in the log.
LEMMA Acknowledges ==
  ASSUME IInv, UNCHANGED rows, NEW r \in Requests, Holds(r, "completed"),
         told' = [told EXCEPT ![r] = @ \cup {"completed"}]
  PROVE  Log!LogNext
<1>1. r.key \in Keys
  BY RequestsAssumption, Zenon DEF RequestOK
<1>2. Decisions[r.key] = Log!Entry(r, "completed")
  BY <1>1, Zenon DEF Decisions, Decided, Holds, Log!Entry
<1>3. Acked' = Acked \cup {r}
  BY DEF Acked, IInv, TypeOK
<1>4. Decisions' = Decisions /\ version' = version
  BY Zenon DEF Decisions, Decided, rows
<1>5. Log!Acknowledge(r)
  BY <1>2, <1>3, <1>4, Zenon DEF Log!Acknowledge, Decisions, Acked
<1> QED BY <1>5, Zenon DEF Log!LogNext

\* Every step of the funnel is a step of the log or a stutter of it.
LEMMA StepIsLogStep == IInv /\ [Next]_vars => [Log!LogNext]_(Log!logVars)
<1> SUFFICES ASSUME IInv, [Next]_vars PROVE Log!LogNext \/ UNCHANGED Log!logVars
  BY Zenon
<1> DEFINE Goal == Log!LogNext \/ UNCHANGED Log!logVars
<1>1. UNCHANGED told => Acked' = Acked
  BY Zenon DEF Acked
<1>2. \A r \in Requests, a \in {"rejected", "refused"} : Answer(r, a) => Acked' = Acked
  BY DEF Acked, Answer, IInv, TypeOK
<1>3. ASSUME NEW r \in Requests, Replay(r)
      PROVE  Goal
  <2>1. UNCHANGED rows /\ Answer(r, ReplayStored(r))
    BY <1>3, Zenon DEF Replay, disk, rows
  <2>2. books.receipts = Known
    BY <1>3 DEF Replay, IInv, BooksInv, Serving, Committed, RebuiltBooks, Known
  <2>3. receipts[r.key] # Nothing /\ receipts[r.key] \in ReceiptRows
    BY <1>3, <2>2, RequestsAssumption, Zenon DEF Replay, Known, RequestOK, IInv, TypeOK
  <2>4. \/ ReplayStored(r) = "completed" /\ Holds(r, "completed")
        \/ ReplayStored(r) \in {"rejected", "refused"}
    BY <2>3, Zenon DEF ReplayStored, Holds, ReceiptRows
  <2> QED BY <1>2, <2>1, <2>4, Acknowledges, RowsDecideNothing, Zenon DEF Answer
<1>4. ASSUME NEW r \in Requests, Refuse(r)
      PROVE  Goal
  BY <1>2, <1>4, RowsDecideNothing, Zenon DEF Refuse, disk, rows
<1>5. CASE CommitUnknown
  <2>1. Acked' = Acked
    BY <1>5, StagedFacts DEF CommitUnknown, AnswerUnrecorded, Acked, IInv, TypeOK
  <2> QED BY <1>5, <2>1, WriteDecides, RowsDecideNothing, Zenon DEF CommitUnknown, rows
<1>6. CASE Crash
  <2>1. Acked' = Acked
    BY <1>1, <1>6, Zenon DEF Crash, clients
  <2> QED BY <1>6, <2>1, WriteDecides, RowsDecideNothing, Zenon DEF Crash, rows
<1>7. CASE CommitOk
  <2>1. Acked' = Acked
    BY <1>1, <1>7, Zenon DEF CommitOk, clients
  <2> QED BY <1>7, <2>1, WriteDecides, Zenon DEF CommitOk
<1>8. CASE BookReceipt
  <2>1. PICK r \in Requests : Committed /\ r = inflight.req /\ receipts[r.key] = Row(inflight)
    BY <1>8, CommittedFacts, Zenon DEF BookReceipt
  <2>2. UNCHANGED rows
    BY <1>8, Zenon DEF BookReceipt, disk, rows
  <2>3. CASE inflight.verdict = "accept"
    <3>1. Holds(r, "completed")
      BY <2>1, <2>3, RowIsThere DEF Holds, Row
    <3>2. told' = [told EXCEPT ![r] = @ \cup {"completed"}]
      BY <1>8, <2>1, <2>3, Zenon DEF BookReceipt, Answer
    <3> QED BY <2>2, <3>1, <3>2, Acknowledges, Zenon
  <2>4. CASE inflight.verdict # "accept"
    BY <1>2, <1>8, <2>1, <2>2, <2>4, RowsDecideNothing, Zenon DEF BookReceipt
  <2> QED BY <2>3, <2>4, Zenon
<1>9. ASSUME \/ \E r \in Requests : Stage(r)
             \/ CommitRefused \/ BookEvent \/ Floor \/ Resume \/ Recover \/ RecoverUnknown
             \/ UNCHANGED vars
      PROVE  Goal
  <2>1. UNCHANGED rows /\ UNCHANGED told
    BY <1>9, Zenon DEF Stage, CommitRefused, BookEvent, Floor, FloorBegin, FloorCommitOk,
                FloorCommitRefused, FloorCommitUnknown, FloorPoison, Resume, Recover,
                RecoverUnknown, vars, disk, process, clients, rows
  <2> QED BY <1>1, <2>1, RowsDecideNothing, Zenon
<1> QED BY <1>3, <1>4, <1>5, <1>6, <1>7, <1>8, <1>9, Zenon DEF Next, Command, Commit

\* Towards its callers the funnel, with its books, faults and restarts, is the
\* log of decisions: a key is decided once, a completion is lawful when it is
\* decided, and only decided completions are acknowledged.
THEOREM FunnelImplementsLog == Spec => ImplementsCommandLog
<1>1. Init => Log!LogInit
  BY Zenon DEF Init, Log!LogInit, Decided, Nothing, Log!Undecided
<1> QED BY <1>1, StepIsLogStep, FunnelInductive, PTL DEF Spec, ImplementsCommandLog, Log!LogSpec

=============================================================================
