------------------------------- MODULE Funnel -------------------------------
(***************************************************************************)
(* The single mutation funnel of yah-kernel and the part of its store that *)
(* survives a kill.  A command is claimed or resolved against its receipt, *)
(* validated, staged, committed in one transaction, and only then entered  *)
(* in the in-memory address books that later commands and readers consult. *)
(*                                                                         *)
(* `submit' holds the gate from its first line to its return, so there is  *)
(* at most one command in flight; what interleaves with it is a crash, the *)
(* retention-floor writer (which does not take the gate while it commits)  *)
(* and readers of the books.  A commit may succeed, be refused before      *)
(* durability, or fail uncertainly: then the write may or may not be on    *)
(* disk, nothing is entered in the books, and the gate is poisoned until a *)
(* restart recovers the graph.                                             *)
(*                                                                         *)
(* What a method does to its aggregate is reduced to the four shapes the   *)
(* validators have: "create" (run.open, work_item.create, unit.admit),     *)
(* "mutate" (every expected_version compare-and-set), "report" (a checked  *)
(* command that changes nothing: unit.progress_report) and "malformed"     *)
(* (what the protocol adapter refuses under the command's own key).        *)
(***************************************************************************)
EXTENDS Integers, FiniteSets

CONSTANTS
  Requests,     \* the requests clients send, see RequestOK
  Keys,         \* receipt keys: scope_kind/scope_id/command_id
  Aggregates,   \* rows a command creates or versions
  MaxFaults,    \* bound on failed commits and failed recoveries
  MaxLives      \* bound on authority epochs, one per process life

NoVersion == -1          \* the request carries no expected_version
Nothing == [none |-> 0]  \* an absent receipt, command or floor write

Methods == {"create", "mutate", "report", "malformed"}

RequestOK(r) ==
  /\ r.key \in Keys
  /\ r.method \in Methods
  /\ r.agg \in Aggregates
  /\ r.expects \in Nat \cup {NoVersion}
  /\ r.events \in 0..2       \* semantic events an accepted command appends
  /\ r.fits \in BOOLEAN      \* result and payloads within the wire limits
  /\ r.blockers \subseteq Aggregates \X Nat   \* rows in the way, see Blocked
  /\ {"digest", "principal"} \subseteq DOMAIN r

ASSUME RequestsAssumption == \A r \in Requests : RequestOK(r)
\* The adapter recomputes the digest of method, target, expected versions and
\* payload (validate_request_digest): under one key and principal it names one
\* request.
ASSUME DigestAssumption ==
  \A q, r \in Requests :
    /\ q.key = r.key /\ q.principal = r.principal
    /\ q.digest = r.digest /\ q.method = r.method
    => q = r

ASSUME BoundsAssumption == MaxFaults \in Nat /\ MaxLives \in Nat \ {0}

VARIABLES
  version,      \* durable: row version of every aggregate, 0 when absent
  receipts,     \* durable: Receipt row of every key, or Nothing
  journal,      \* durable: Event rows
  floor,        \* durable: min_retained_cursor of the Authority row
  authority,    \* durable: authority_epoch of the Authority row
  up,           \* the process is serving
  poisoned,     \* the gate's poison latch
  books,        \* address books: receipt keys and event cursors entered
  nextCursor,   \* the cursor allocator
  floorSeen,    \* the process's copy of the retention floor
  inflight,     \* the command holding the gate, or Nothing
  floorOp,      \* a retention-floor write in progress, or Nothing
  delivered,    \* cursors a resuming consumer has been sent
  told,         \* history: definite answers each request has been given, and
                \* "unrecorded" once one of them may have no receipt on disk
  applied,      \* history: how often each request's transition took effect
  faults        \* failed commits so far

disk == <<version, receipts, journal, floor, authority>>
process == <<up, poisoned, books, nextCursor, floorSeen, inflight, floorOp>>
clients == <<delivered, told>>
vars == <<disk, process, clients, applied, faults>>

Cursors == {e.cursor : e \in journal}
MaxOf(S) == IF S = {} THEN 0 ELSE CHOOSE x \in S : \A y \in S : y <= x
EventsOf(k) == {e.cursor : e \in {f \in journal : f.key = k}}

EmptyBooks == [receipts |-> {}, events |-> {}]

-----------------------------------------------------------------------------
(* Validation and replay *)

\* The other rows a command looks at are such that it cannot be done: a member
\* keeps the run from closing with success, or one that a cancellation names is
\* not below its root.  A later command may change those rows, but the rejection
\* is stored like one that is for good.
Blocked(r) == \E b \in r.blockers : version[b[1]] = b[2]

\* Mutant: a missing row or a stale version is a rejection for good.
VerdictNoRefusal(r) ==
  LET shape == CASE r.method = "malformed" -> "reject"
                 [] r.method = "create" ->
                      IF version[r.agg] > 0 THEN "reject" ELSE "accept"
                 [] OTHER ->
                      IF version[r.agg] = 0 \/ r.expects # version[r.agg] THEN "reject"
                      ELSE "accept"
  IN IF shape = "accept" /\ (Blocked(r) \/ ~r.fits) THEN "reject" ELSE shape

\* The pure validation step: what the pre-read rows make of the request.
Verdict(r) ==
  LET shape == CASE r.method = "malformed" -> "reject"
                 [] r.method = "create" ->
                      IF version[r.agg] > 0 THEN "reject" ELSE "accept"
                 [] OTHER ->
                      IF version[r.agg] = 0 THEN "refuse"              \* not_found
                      ELSE IF r.expects = NoVersion THEN "reject"
                      ELSE IF r.expects # version[r.agg] THEN "refuse" \* version_conflict
                      ELSE "accept"
  IN IF shape = "accept" /\ (Blocked(r) \/ ~r.fits) THEN "reject" ELSE shape

\* What a stored receipt answers to a request that carries its key.
ReplayStored(r) ==
  LET s == receipts[r.key]
  IN IF s.digest # r.digest \/ s.method # r.method \/ s.principal # r.principal
     THEN "refused" ELSE s.status

\* The rows one durable commit writes, all or nothing.
Durable(i) ==
  LET r == i.req
      ok == i.verdict = "accept"
  IN /\ receipts' = [receipts EXCEPT ![r.key] =
                       [digest |-> r.digest, method |-> r.method, principal |-> r.principal,
                        status |-> IF ok THEN "completed" ELSE "rejected",
                        first |-> i.first, events |-> IF ok THEN r.events ELSE 0]]
     /\ version' = IF ok /\ r.method \in {"create", "mutate"}
                   THEN [version EXCEPT ![r.agg] = @ + 1] ELSE version
     /\ journal' = IF ok
                   THEN journal \cup {[cursor |-> c, key |-> r.key] :
                                        c \in i.first .. (i.first + r.events - 1)}
                   ELSE journal
     /\ applied' = IF ok THEN [applied EXCEPT ![r] = @ + 1] ELSE applied

Answer(r, a) == told' = [told EXCEPT ![r] = @ \cup {a}]

\* A rejection is answered whether or not its receipt is on disk.
AnswerUnrecorded(i) ==
  told' = IF i.verdict = "reject"
          THEN [told EXCEPT ![i.req] = @ \cup {"rejected", "unrecorded"}] ELSE told

-----------------------------------------------------------------------------
(* submit and reject_keyed *)

Serving == up /\ inflight = Nothing /\ ~poisoned

\* Mutant: a retry that disagrees with the stored receipt gets no answer.
ReplaySilent(r) ==
  /\ Serving
  /\ r.key \in books.receipts
  /\ ReplayStored(r) # "refused"
  /\ Answer(r, ReplayStored(r))
  /\ UNCHANGED <<disk, process, delivered, applied, faults>>

\* A receipt the books know answers at once, with no transition.
Replay(r) ==
  /\ Serving
  /\ r.key \in books.receipts
  /\ Answer(r, ReplayStored(r))
  /\ UNCHANGED <<disk, process, delivered, applied, faults>>

\* A missing row or a stale version rolls back and leaves no receipt.
Refuse(r) ==
  /\ Serving
  /\ r.key \notin books.receipts
  /\ Verdict(r) = "refuse"
  /\ Answer(r, "refused")
  /\ UNCHANGED <<disk, process, delivered, applied, faults>>

\* The command is staged: its receipt, and for an accepted one its event rows
\* with cursors taken from the allocator under the open transaction.
Stage(r) ==
  /\ Serving
  /\ r.key \notin books.receipts
  /\ Verdict(r) \in {"accept", "reject"}
  /\ inflight' = [req |-> r, verdict |-> Verdict(r), first |-> nextCursor, stage |-> "staged",
                  booked |-> 0]
  /\ nextCursor' = IF Verdict(r) = "accept" THEN nextCursor + r.events ELSE nextCursor
  /\ UNCHANGED <<disk, up, poisoned, books, floorSeen, floorOp, clients, applied, faults>>

\* Bound: a fault is injected only while a restart is left to recover from it.
CanFail == faults < MaxFaults /\ authority < MaxLives

Staged == inflight # Nothing /\ inflight.stage = "staged"

CommitOk ==
  /\ Staged
  /\ Durable(inflight)
  /\ inflight' = [inflight EXCEPT !.stage = "durable"]
  /\ UNCHANGED <<floor, authority, up, poisoned, books, nextCursor, floorSeen, floorOp, clients,
                 faults>>

\* A staging error or an error classified before durability: rolled back and
\* answered `internal'; the cursors it took are burned.
CommitRefused ==
  /\ Staged
  /\ CanFail
  /\ inflight' = Nothing
  /\ faults' = faults + 1
  /\ UNCHANGED <<disk, up, poisoned, books, nextCursor, floorSeen, floorOp, clients, applied>>

\* Mutant: an uncertain commit does not poison the gate.
CommitUnknownUnpoisoned ==
  /\ Staged
  /\ CanFail
  /\ \/ Durable(inflight)
     \/ UNCHANGED <<receipts, version, journal, applied>>
  /\ inflight' = Nothing
  /\ faults' = faults + 1
  /\ AnswerUnrecorded(inflight)
  /\ UNCHANGED <<floor, authority, up, poisoned, books, nextCursor, floorSeen, floorOp, delivered>>

\* A durable or unclassified commit error.  The books are not updated and the
\* gate is poisoned.  An accepted command is answered outcome_unknown, a
\* rejected one with its rejection.
CommitUnknown ==
  /\ Staged
  /\ CanFail
  /\ \/ Durable(inflight)
     \/ UNCHANGED <<receipts, version, journal, applied>>
  /\ poisoned' = TRUE
  /\ inflight' = Nothing
  /\ faults' = faults + 1
  /\ AnswerUnrecorded(inflight)
  /\ UNCHANGED <<floor, authority, up, books, nextCursor, floorSeen, floorOp, delivered>>

Committed == inflight # Nothing /\ inflight.stage = "durable"

ToBook == IF inflight.verdict = "accept" THEN inflight.req.events ELSE 0

\* The rows are entered in the books one at a time, the events first ...
BookEvent ==
  /\ Committed
  /\ inflight.booked < ToBook
  /\ books' = [books EXCEPT !.events = @ \cup {inflight.first + inflight.booked}]
  /\ inflight' = [inflight EXCEPT !.booked = @ + 1]
  /\ UNCHANGED <<disk, up, poisoned, nextCursor, floorSeen, floorOp, clients, applied, faults>>

\* ... and the receipt last, after which the caller gets its answer.
BookReceipt ==
  /\ Committed
  /\ inflight.booked = ToBook
  /\ books' = [books EXCEPT !.receipts = @ \cup {inflight.req.key}]
  /\ Answer(inflight.req, IF inflight.verdict = "accept" THEN "completed" ELSE "rejected")
  /\ inflight' = Nothing
  /\ UNCHANGED <<disk, up, poisoned, nextCursor, floorSeen, floorOp, delivered, applied, faults>>

-----------------------------------------------------------------------------
(* The retention floor: checked against the poison latch under the stream  *)
(* gate, committed in a transaction of its own, poisoned afterwards        *)

FloorBegin(c) ==
  /\ up /\ floorOp = Nothing
  /\ inflight = Nothing /\ ~poisoned      \* poison_detail waits for the gate
  /\ c > floorSeen
  /\ c <= MaxOf(books.events)
  /\ floorOp' = [cursor |-> c, stage |-> "checked"]
  /\ UNCHANGED <<disk, up, poisoned, books, nextCursor, floorSeen, inflight, clients, applied, faults>>

FloorChecked == floorOp # Nothing /\ floorOp.stage = "checked"

FloorCommitOk ==
  /\ FloorChecked
  /\ floor' = floorOp.cursor
  /\ floorSeen' = floorOp.cursor
  /\ floorOp' = Nothing
  /\ UNCHANGED <<version, receipts, journal, authority, up, poisoned, books, nextCursor, inflight,
                 clients, applied, faults>>

FloorCommitRefused ==
  /\ FloorChecked
  /\ CanFail
  /\ floorOp' = Nothing
  /\ faults' = faults + 1
  /\ UNCHANGED <<disk, up, poisoned, books, nextCursor, floorSeen, inflight, clients, applied>>

\* The write may be on disk; the process keeps its old copy and goes for the
\* gate, which another command may be holding by now.
FloorCommitUnknown ==
  /\ FloorChecked
  /\ CanFail
  /\ floor' \in {floor, floorOp.cursor}
  /\ floorOp' = [floorOp EXCEPT !.stage = "uncertain"]
  /\ faults' = faults + 1
  /\ UNCHANGED <<version, receipts, journal, authority, up, poisoned, books, nextCursor, floorSeen,
                 inflight, clients, applied>>

FloorPoison ==
  /\ floorOp # Nothing /\ floorOp.stage = "uncertain"
  /\ inflight = Nothing
  /\ poisoned' = TRUE
  /\ floorOp' = Nothing
  /\ UNCHANGED <<disk, up, books, nextCursor, floorSeen, inflight, clients, applied, faults>>

-----------------------------------------------------------------------------
(* A consumer that resumes from the last cursor it was sent *)

LastDelivered == MaxOf(delivered)
CursorExpired == floorSeen > 1 /\ LastDelivered < floorSeen

\* Mutant: the page starts one cursor late.
ResumeLate ==
  /\ up /\ ~poisoned
  /\ ~CursorExpired
  /\ delivered' = delivered \cup {c \in books.events : c > LastDelivered + 1}
  /\ UNCHANGED <<disk, process, told, applied, faults>>

Resume ==
  /\ up /\ ~poisoned
  /\ ~CursorExpired
  /\ delivered' = delivered \cup {c \in books.events : c > LastDelivered}
  /\ UNCHANGED <<disk, process, told, applied, faults>>

-----------------------------------------------------------------------------
(* Kill and recovery *)

\* The process dies.  A staged command may have reached the log on the way.
Crash ==
  /\ up /\ authority < MaxLives
  /\ \/ Staged /\ Durable(inflight)
     \/ UNCHANGED <<receipts, version, journal, applied>>
  /\ \/ FloorChecked /\ floor' = floorOp.cursor
     \/ UNCHANGED floor
  /\ up' = FALSE
  /\ poisoned' = FALSE
  /\ inflight' = Nothing
  /\ floorOp' = Nothing
  /\ books' = EmptyBooks
  /\ floorSeen' = 1
  /\ UNCHANGED <<authority, nextCursor, clients, faults>>

\* Every receipt owns exactly the contiguous cursors it names, every event
\* lies in a completed receipt, and the floor is at or below the last event.
ReceiptEventsValid(k) ==
  LET s == receipts[k]
  IN s # Nothing => EventsOf(k) = s.first .. (s.first + s.events - 1)

EventOwned(e) ==
  /\ receipts[e.key] # Nothing
  /\ receipts[e.key].status = "completed"

RecoveryValid ==
  /\ \A k \in Keys : ReceiptEventsValid(k)
  /\ \A e \in journal : EventOwned(e)
  /\ \A e, f \in journal : e.cursor = f.cursor => e = f
  /\ floor <= MaxOf(Cursors) \/ (floor = 1 /\ journal = {})

\* Mutant: recovery does not rebuild the receipt book.
RebuiltBooksNoReceipts == [receipts |-> {}, events |-> Cursors]

\* Mutant: the allocator is restored at the last cursor, not above it.
RestoredCursorAtLast == MaxOf(Cursors)

RebuiltBooks == [receipts |-> {k \in Keys : receipts[k] # Nothing}, events |-> Cursors]
RestoredCursor == MaxOf(Cursors) + 1

\* Reopen after a kill: validate, rebuild the books and the allocator, then
\* claim the next authority epoch in a durable transaction.
Recover ==
  /\ ~up /\ authority < MaxLives
  /\ RecoveryValid
  /\ authority' = authority + 1
  /\ up' = TRUE
  /\ books' = RebuiltBooks
  /\ nextCursor' = RestoredCursor
  /\ floorSeen' = floor
  /\ UNCHANGED <<version, receipts, journal, floor, poisoned, inflight, floorOp, clients, applied,
                 faults>>

\* The claim commits on disk but recover() reports an error and nobody serves.
RecoverUnknown ==
  /\ ~up /\ authority + 1 < MaxLives
  /\ faults < MaxFaults
  /\ RecoveryValid
  /\ authority' = authority + 1
  /\ faults' = faults + 1
  /\ UNCHANGED <<version, receipts, journal, floor, process, clients, applied>>

-----------------------------------------------------------------------------
Init ==
  /\ version = [a \in Aggregates |-> 0]
  /\ receipts = [k \in Keys |-> Nothing]
  /\ journal = {}
  /\ floor = 1
  /\ authority = 1
  /\ up = TRUE
  /\ poisoned = FALSE
  /\ books = EmptyBooks
  /\ nextCursor = 1
  /\ floorSeen = 1
  /\ inflight = Nothing
  /\ floorOp = Nothing
  /\ delivered = {}
  /\ told = [r \in Requests |-> {}]
  /\ applied = [r \in Requests |-> 0]
  /\ faults = 0

Command(r) == Replay(r) \/ Refuse(r) \/ Stage(r)
Commit == CommitOk \/ CommitRefused \/ CommitUnknown \/ BookEvent \/ BookReceipt
Floor == \/ \E c \in Cursors : FloorBegin(c)
         \/ FloorCommitOk \/ FloorCommitRefused \/ FloorCommitUnknown \/ FloorPoison

Next ==
  \/ \E r \in Requests : Command(r)
  \/ Commit
  \/ Floor
  \/ Resume
  \/ Crash \/ Recover \/ RecoverUnknown

Spec == Init /\ [][Next]_vars

\* Clients retry until they have a definite answer, the process runs the
\* commands it holds, and whoever supervises it restarts it when it is down or
\* poisoned.  Faults are bounded, so a plain weak fairness of each is enough.
Fairness ==
  /\ \A r \in Requests : WF_vars(Command(r))
  /\ WF_vars(CommitOk) /\ WF_vars(BookEvent) /\ WF_vars(BookReceipt)
  /\ WF_vars(FloorCommitOk) /\ WF_vars(FloorPoison)
  /\ WF_vars(poisoned /\ Crash)
  /\ WF_vars(Recover)

FairSpec == Spec /\ Fairness

-----------------------------------------------------------------------------
(* Properties *)

ReceiptRows ==
  [digest : {r.digest : r \in Requests}, method : Methods, principal : {r.principal : r \in Requests},
   status : {"completed", "rejected"}, first : Nat \ {0}, events : 0..2]

CommandsInFlight ==
  [req : Requests, verdict : {"accept", "reject"}, first : Nat \ {0},
   stage : {"staged", "durable"}, booked : Nat]

\* Every variable keeps the shape its declaration describes.
TypeOK ==
  /\ version \in [Aggregates -> Nat]
  /\ receipts \in [Keys -> ReceiptRows \cup {Nothing}]
  /\ journal \subseteq [cursor : Nat \ {0}, key : Keys]
  /\ floor \in Nat \ {0} /\ floorSeen \in Nat \ {0}
  /\ authority \in 1..MaxLives
  /\ up \in BOOLEAN /\ poisoned \in BOOLEAN
  /\ books \in [receipts : SUBSET Keys, events : SUBSET Nat]
  /\ nextCursor \in Nat \ {0}
  /\ inflight \in CommandsInFlight \cup {Nothing}
  /\ floorOp \in [cursor : Nat \ {0}, stage : {"checked", "uncertain"}] \cup {Nothing}
  /\ delivered \subseteq Nat
  /\ told \in [Requests -> SUBSET {"completed", "rejected", "refused", "unrecorded"}]
  /\ applied \in [Requests -> Nat]
  /\ faults \in 0..MaxFaults

\* However often a command is retried, across uncertain commits and restarts,
\* its transition takes effect at most once, and no other request under the
\* same receipt key takes effect beside it: the receipt on disk is its own.
AtMostOnce ==
  \A r \in Requests : applied[r] > 0 =>
    /\ applied[r] = 1
    /\ receipts[r.key] # Nothing
    /\ receipts[r.key].status = "completed" /\ receipts[r.key].digest = r.digest
    /\ \A q \in Requests \ {r} : q.key = r.key => applied[q] = 0

\* What a client was told stands.  A command that completed, or was rejected with
\* a receipt, has no other answer ever after, over any number of restarts.  A
\* rejection answered while its own commit was uncertain may be without a receipt
\* after the restart: then it stands as well, for no retry completes, unless the
\* request was blocked by rows a later command may change (Funnel::submit: "the
\* domain answer (rejection, no transition) is certain either way").
AnswersAgree ==
  [][\A r \in Requests :
       /\ "completed" \in told[r] => told'[r] = told[r]
       /\ "rejected" \in told[r] /\ "unrecorded" \notin told[r] => told'[r] = told[r]
       /\ "unrecorded" \in told[r] /\ r.blockers = {} => "completed" \notin told'[r]]_vars

\* A consumer that resumes from its last cursor misses nothing: an event that
\* is on disk at or below that cursor was delivered to it, even when the event
\* was the uncertain one a restart brought back.
NoLateEvent ==
  \A c \in Cursors : c <= LastDelivered => c \in delivered

\* What the funnel wrote, recovery accepts: at every moment a kill may come, the
\* receipts, the events and the floor on disk pass the checks Store::recover makes
\* of them before reopening.
RecoveryNeverRefuses == RecoveryValid

\* Every client that keeps retrying gets a definite answer in the end, whatever
\* the faults: a poisoned funnel is restarted and the retry is resolved.  Answers
\* are not forgotten, so that a time comes when all have one.
EveryRequestAnswered == <>(\A r \in Requests : told[r] # {})

\* The funnel with its faults, books and restarts behaves, towards its callers,
\* as the log of decisions: a receipt row is the decision of its key.
Decided(k) ==
  LET s == receipts[k]
  IN IF s = Nothing THEN Nothing
     ELSE [digest |-> s.digest, method |-> s.method, principal |-> s.principal, status |-> s.status]

Log == INSTANCE CommandLog WITH
  decision <- [k \in Keys |-> Decided(k)],
  acked <- {r \in Requests : "completed" \in told[r]}

\* Every step of the funnel is a step of the command log or leaves it alone.
ImplementsCommandLog == Log!LogSpec

=============================================================================
