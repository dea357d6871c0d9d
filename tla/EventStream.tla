----------------------------- MODULE EventStream -----------------------------
(***************************************************************************)
(* Durable subscriptions of the in-process adapter                         *)
(* (crates/yah-kernel/src/protocol/adapter.rs, adapter/subscription.rs).   *)
(*                                                                         *)
(* A command commits its events in one transaction, inserts them into the  *)
(* in-memory books one by one, and then publishes them to the open         *)
(* subscriptions.  The insertions are not under the stream gate, so a      *)
(* client may subscribe or poll between any two of them, and before the    *)
(* publication.  A subscription is filled from the books when it is opened *)
(* and after each poll, and from the publisher otherwise; what a client    *)
(* sees must not depend on which of the two brought an event.              *)
(*                                                                         *)
(* How a transaction commits is the subject of Funnel.tla.                 *)
(***************************************************************************)
EXTENDS Integers, FiniteSets, Sequences, FiniteSetsExt

CONSTANTS
    Clients,     \* each has at most one subscription at a time
    MaxCursor,   \* bound on the cursors of one behaviour
    MaxBatch,    \* bound on the events of one command
    Capacity,    \* DEFAULT_DURABLE_QUEUE_CAPACITY
    MaxQueued,   \* MAX_DURABLE_SUBSCRIPTION_BYTES, in events of equal size
    MaxOpen      \* MAX_DURABLE_SUBSCRIPTIONS

ASSUME StreamAssumption ==
    /\ MaxCursor \in Nat
    /\ MaxBatch \in Nat \ {0}
    /\ Capacity \in Nat \ {0}
    /\ MaxQueued \in Nat
    /\ MaxOpen \in Nat

VARIABLES
    next,        \* the cursor allocator
    batch,       \* events committed and not yet in the books, in order
    booked,      \* cursors of the event book
    published,   \* the last cursor handed to the subscriptions
    command,     \* what the command in flight, if any, is doing
    waiting,     \* clients the event being published was not offered to yet
    floor,       \* min_retained_cursor
    poisoned,    \* the funnel refuses to answer
    subs,        \* the subscription of each client
    origin,      \* where each client started to read
    got          \* the events each client received, in order

journal == <<next, batch, booked, command>>
clients == <<origin, got>>
vars == <<journal, published, waiting, floor, poisoned, subs, clients>>

Cursors == 1..MaxCursor
latest_cursor == Max(booked \cup {0})

NoSub == [open |-> FALSE]
Subscribed(c) == subs[c].open
Closed(c) == Subscribed(c) /\ subs[c].closed # "no"

\* Where a client has got to: the last event it received.
LastGot(c) == IF got[c] = <<>> THEN origin[c] ELSE got[c][Len(got[c])]

\* The booked cursors in (after, upto], in order.
Between(after, upto) ==
    LET S == {c \in booked : after < c /\ c <= upto}
    IN  [i \in 1..Cardinality(S) |->
            CHOOSE c \in S : Cardinality({d \in S : d <= c}) = i]

\* events_after_limit: the first n of them.
EventsAfter(after, upto, n) ==
    SubSeq(Between(after, upto), 1, Min({n, Len(Between(after, upto))}))

\* queued_bytes, without the subscription of c.
QueuedByOthers(c) ==
    MapThenSumSet(LAMBDA d : Len(subs[d].queue), {d \in Clients \ {c} : Subscribed(d)})

-----------------------------------------------------------------------------
(***************************************************************************)
(* The command in flight.  The command gate admits one at a time; from     *)
(* StartPublish to FinishPublish it also holds the stream gate.            *)
(***************************************************************************)
\* An allocated cursor whose transaction was rolled back.
Abort ==
    /\ command = "idle"
    /\ ~poisoned
    /\ next <= MaxCursor
    /\ next' = next + 1
    /\ UNCHANGED <<batch, booked, command, published, waiting, floor, poisoned, subs, clients>>

Commit(n) ==
    /\ command = "idle"
    /\ ~poisoned
    /\ next + n - 1 <= MaxCursor
    /\ batch' = [i \in 1..n |-> next + i - 1]
    /\ next' = next + n
    /\ command' = "booking"
    /\ UNCHANGED <<booked, published, waiting, floor, poisoned, subs, clients>>

\* Mutant: the events of a command are booked last to first.
BookEventLast ==
    /\ command = "booking"
    /\ batch # <<>>
    /\ booked' = booked \cup {batch[Len(batch)]}
    /\ batch' = SubSeq(batch, 1, Len(batch) - 1)
    /\ UNCHANGED <<next, command, published, waiting, floor, poisoned, subs, clients>>

BookEvent ==
    /\ command = "booking"
    /\ batch # <<>>
    /\ booked' = booked \cup {Head(batch)}
    /\ batch' = Tail(batch)
    /\ UNCHANGED <<next, command, published, waiting, floor, poisoned, subs, clients>>

StartPublish ==
    /\ command = "booking"
    /\ batch = <<>>
    /\ command' = "publishing"
    /\ UNCHANGED <<next, batch, booked, published, waiting, floor, poisoned, subs, clients>>

\* publish_through: the next event is offered to every subscription.
PublishEvent ==
    /\ command = "publishing"
    /\ waiting = {}
    /\ published < latest_cursor
    /\ published' = Min({c \in booked : c > published})
    /\ waiting' = {c \in Clients : Subscribed(c)}
    /\ UNCHANGED <<journal, floor, poisoned, subs, clients>>

FinishPublish ==
    /\ command = "publishing"
    /\ waiting = {}
    /\ published >= latest_cursor
    /\ command' = "idle"
    /\ UNCHANGED <<next, batch, booked, published, waiting, floor, poisoned, subs, clients>>

\* Mutant: the resume point is what was queued, not what was delivered.
SlowConsumerQueued(s) ==
    [open |-> TRUE, queue |-> <<>>, lastQueued |-> s.lastQueued,
     lastDelivered |-> s.lastQueued, available |-> s.available, closed |-> "slow_consumer"]

\* A slow consumer loses its queue; lastDelivered tells it where to resume.
SlowConsumer(s) ==
    [open |-> TRUE, queue |-> <<>>, lastQueued |-> s.lastQueued,
     lastDelivered |-> s.lastDelivered, available |-> s.available, closed |-> "slow_consumer"]

Queued(s, events) ==
    [open |-> TRUE, queue |-> s.queue \o events, lastQueued |-> events[Len(events)],
     lastDelivered |-> s.lastDelivered, available |-> s.available, closed |-> "no"]

\* enqueue_event, for the event being published.
EnqueueEvent(c, s) ==
    IF s.closed # "no" \/ published <= s.lastQueued THEN s
    ELSE IF Len(s.queue) = Capacity \/ QueuedByOthers(c) + Len(s.queue) + 1 > MaxQueued
    THEN SlowConsumer(s)
    ELSE Queued(s, <<published>>)

Offer(c) ==
    /\ c \in waiting
    /\ subs' = [subs EXCEPT ![c] =
            EnqueueEvent(c, [open |-> TRUE, queue |-> @.queue, lastQueued |-> @.lastQueued,
                             lastDelivered |-> @.lastDelivered, available |-> published,
                             closed |-> @.closed])]
    /\ waiting' = waiting \ {c}
    /\ UNCHANGED <<journal, published, floor, poisoned, clients>>

-----------------------------------------------------------------------------
(***************************************************************************)
(* The clients.  Their calls hold the stream gate.                         *)
(***************************************************************************)
StreamGate == command # "publishing" /\ ~poisoned

\* Mutant: a subscription gets only what is published while it is open.
FillRetainedNever(c, s) == s

\* fill_retained: from the books, up to what was published or was latest
\* when the subscription opened.
FillRetained(c, s) ==
    LET events == EventsAfter(s.lastQueued, s.available, Capacity - Len(s.queue))
    IN  IF s.closed # "no" \/ Len(s.queue) = Capacity \/ events = <<>> THEN s
        ELSE IF QueuedByOthers(c) + Len(s.queue) + Len(events) > MaxQueued
        THEN SlowConsumer(s)
        ELSE Queued(s, events)

CursorExpired(after) == floor > 1 /\ after < floor

Subscribe(c, after) ==
    /\ StreamGate
    /\ ~Subscribed(c)
    /\ Cardinality({d \in Clients : Subscribed(d)}) < MaxOpen
    /\ ~CursorExpired(after)
    /\ after <= latest_cursor
    /\ subs' = [subs EXCEPT ![c] =
            FillRetained(c, [open |-> TRUE, queue |-> <<>>, lastQueued |-> after,
                             lastDelivered |-> after, available |-> latest_cursor,
                             closed |-> "no"])]
    /\ UNCHANGED <<journal, published, waiting, floor, poisoned>>

\* A client goes on from where it was told to, or starts anew; one whose
\* cursor expired starts from the floor.  External: how clients behave.
SubscribeOn(c) == Subscribe(c, LastGot(c)) /\ UNCHANGED clients

SubscribeAnew(c) ==
    \E after \in {floor, latest_cursor} :
        /\ Subscribe(c, after)
        /\ origin' = [origin EXCEPT ![c] = after]
        /\ got' = [got EXCEPT ![c] = <<>>]

PollEvent(c) ==
    LET s == subs[c]
        event == Head(s.queue)
    IN  /\ StreamGate
        /\ Subscribed(c)
        /\ ~Closed(c)
        /\ s.queue # <<>>
        /\ subs' = [subs EXCEPT ![c] =
                FillRetained(c, [open |-> TRUE, queue |-> Tail(s.queue),
                                 lastQueued |-> s.lastQueued, lastDelivered |-> event,
                                 available |-> s.available, closed |-> "no"])]
        /\ got' = [got EXCEPT ![c] = Append(@, event)]
        /\ UNCHANGED <<journal, published, waiting, floor, poisoned, origin>>

\* The closure is reported once, and the subscription forgotten.
PollClosed(c) ==
    /\ StreamGate
    /\ Closed(c)
    /\ subs' = [subs EXCEPT ![c] = NoSub]
    /\ UNCHANGED <<journal, published, waiting, floor, poisoned, clients>>

CloseSubscription(c) ==
    /\ StreamGate
    /\ Subscribed(c)
    /\ subs' = [subs EXCEPT ![c] = NoSub]
    /\ UNCHANGED <<journal, published, waiting, floor, poisoned, clients>>

SetMinRetainedCursor(f) ==
    /\ StreamGate
    /\ floor < f
    /\ f <= latest_cursor
    /\ floor' = f
    /\ UNCHANGED <<journal, published, waiting, poisoned, subs, clients>>

(***************************************************************************)
(* An uncertain commit poisons the funnel.  A new process rebuilds the     *)
(* books from what is durable, and has no subscriptions; the allocator     *)
(* starts after the last durable event.                                    *)
(***************************************************************************)
Poison ==
    /\ command = "idle"
    /\ ~poisoned
    /\ poisoned' = TRUE
    /\ UNCHANGED <<journal, published, waiting, floor, subs, clients>>

Durable == booked \cup {batch[i] : i \in DOMAIN batch}

Restart ==
    /\ booked' = Durable
    /\ next' = Max(Durable \cup {0}) + 1
    /\ published' = Max(Durable \cup {0})
    /\ batch' = <<>>
    /\ command' = "idle"
    /\ waiting' = {}
    /\ poisoned' = FALSE
    /\ subs' = [c \in Clients |-> NoSub]
    /\ UNCHANGED <<floor, clients>>

-----------------------------------------------------------------------------
Init ==
    /\ next = 1
    /\ batch = <<>>
    /\ booked = {}
    /\ published = 0
    /\ command = "idle"
    /\ waiting = {}
    /\ floor = 1
    /\ poisoned = FALSE
    /\ subs = [c \in Clients |-> NoSub]
    /\ origin = [c \in Clients |-> 0]
    /\ got = [c \in Clients |-> <<>>]

Publisher ==
    \/ BookEvent
    \/ StartPublish
    \/ PublishEvent
    \/ \E c \in Clients : Offer(c)
    \/ FinishPublish

Poll(c) == PollEvent(c) \/ PollClosed(c)

Next ==
    \/ Abort
    \/ \E n \in 1..MaxBatch : Commit(n)
    \/ Publisher
    \/ \E c \in Clients :
            SubscribeOn(c) \/ SubscribeAnew(c) \/ Poll(c) \/ CloseSubscription(c)
    \/ \E f \in Cursors : SetMinRetainedCursor(f)
    \/ Poison
    \/ Restart

Spec == Init /\ [][Next]_vars

\* The thread of the command runs on, and clients keep polling.
Fairness == WF_vars(Publisher) /\ \A c \in Clients : WF_vars(Poll(c))

FairSpec == Spec /\ Fairness

-----------------------------------------------------------------------------
(***************************************************************************)
(* Properties.                                                             *)
(***************************************************************************)
SubOK(s) ==
    /\ \A i \in DOMAIN s.queue : s.queue[i] \in Cursors
    /\ Len(s.queue) <= Capacity
    /\ {s.lastQueued, s.lastDelivered, s.available} \subseteq 0..MaxCursor
    /\ s.closed \in {"no", "slow_consumer"}

\* Every subscription has the shape of a DurableSubscription, its queue is
\* within its capacity and all queues together are within the budget.
TypeOK ==
    /\ next \in 1..(MaxCursor + 1)
    /\ booked \subseteq Cursors
    /\ published \in 0..MaxCursor
    /\ command \in {"idle", "booking", "publishing"}
    /\ waiting \subseteq {c \in Clients : Subscribed(c)}
    /\ floor \in 1..Max({1, MaxCursor})
    /\ \A c \in Clients : Subscribed(c) => SubOK(subs[c])
    /\ \A c \in Clients : QueuedByOthers(c) <= MaxQueued

\* What a client received, followed by what is queued for it, is every event
\* of the journal between where it started and the last one queued, each
\* once and in order; this holds across slow-consumer closures, new
\* subscriptions and restarts (subscription.rs: the books and the publisher
\* feed one queue).
NothingMissed ==
    \A c \in Clients :
        IF Subscribed(c) /\ ~Closed(c)
        THEN got[c] \o subs[c].queue = Between(origin[c], subs[c].lastQueued)
        ELSE got[c] = Between(origin[c], LastGot(c))

\* The cursor a slow consumer is told to resume from is the last event its
\* client received (subscription.rs, enqueue_event).
ResumePointIsExact ==
    \A c \in Clients : Closed(c) => subs[c].lastDelivered = LastGot(c)

\* An event in the books reaches every client that subscribed below it and
\* keeps polling, unless the client is told that it was too slow, closes the
\* subscription, or the process is poisoned or restarted.
EventsArrive ==
    \A c \in Clients, e \in Cursors :
        (Subscribed(c) /\ e \in booked /\ e > LastGot(c))
            ~> (~Subscribed(c) \/ e <= LastGot(c) \/ poisoned)
=============================================================================
