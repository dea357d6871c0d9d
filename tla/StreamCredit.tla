---------------------------- MODULE StreamCredit ----------------------------
(***************************************************************************)
(* One streaming call of a worker process: the session's credit window     *)
(* (crates/yah-plugin-ipc/src/session/streams.rs), the pump's delivery     *)
(* table (crates/yah-plugin-proc/src/pump/streams.rs) and the consumer at  *)
(* the other end of the bounded item channel.                              *)
(*                                                                         *)
(* A lossless frame spends a credit, a lossy one does not.  On every tick  *)
(* the pump grants credit for the frames the consumer has drained.  The    *)
(* consumer runs on its own thread, so it may drain, or drop the channel,  *)
(* between any two steps of the pump.                                      *)
(*                                                                         *)
(* A frame the session refuses (an overdraw, a gap in the sequence, data   *)
(* before the open) is fatal and ends the call like any other terminal:    *)
(* see Settle.  Payloads and their byte bounds are left out.               *)
(***************************************************************************)
EXTENDS Integers, Sequences

CONSTANTS
    MaxStreamCredit,  \* max_stream_credit, also the channel's capacity
    MaxFrames,        \* bound on the data frames of one call
    MaxWireDrops      \* bound on the drops the worker declares

ASSUME CreditAssumption ==
    /\ MaxStreamCredit \in Nat \ {0}
    /\ MaxFrames \in Nat
    /\ MaxWireDrops \in Nat

VARIABLES
    call,      \* the session's HostCall
    stream,    \* the pump's HostStream
    channel,   \* frames in the item channel
    drops,     \* the drop counter the consumer can still read at the end
    consumer,  \* which of its two receivers the consumer holds
    received,  \* history: how many frames the consumer received
    lossy_seen,\* history: whether the pump was handed a lossy frame
    lost       \* history: per class, the frames the pump dropped

creditVars == <<call, stream, channel, drops, consumer, received, lossy_seen, lost>>

Classes == {"lossless", "lossy"}
ChannelCapacity == MaxStreamCredit

Live == call.live
Streaming == stream.present

\* HostStream as PumpCommand::Call inserts it.
NewStream ==
    [present |-> TRUE, opened |-> FALSE, outstanding_credit |-> 0,
     accepted |-> 0, replaced |-> 0, local_drops |-> 0]

\* No entry in the pump's table.
NoStream ==
    [present |-> FALSE, opened |-> FALSE, outstanding_credit |-> 0,
     accepted |-> 0, replaced |-> 0, local_drops |-> 0]

Monus(a, b) == IF a > b THEN a - b ELSE 0

-----------------------------------------------------------------------------
\* on_stream_open, and the StreamOpened event in apply_events.
StreamOpen ==
    /\ Live
    /\ ~call.stream_open
    /\ \E credit \in 1..MaxStreamCredit :
        /\ call' = [call EXCEPT !.stream_open = TRUE, !.credit_left = credit]
        /\ stream' = IF Streaming
                     THEN [stream EXCEPT !.opened = TRUE, !.outstanding_credit = credit]
                     ELSE stream
    /\ UNCHANGED <<channel, drops, consumer, received, lossy_seen, lost>>

\* What on_stream_data admits: a frame after the open and before the last one,
\* within the window, that does not take declared drops back.
Admits(class, dropped) ==
    /\ Live
    /\ call.stream_open
    /\ ~call.last_item_seen
    /\ call.seq < MaxFrames
    /\ dropped >= call.lossy_dropped
    /\ class = "lossless" => call.credit_left > 0

\* HostCall after the frame.
Received(class, more, dropped) ==
    [call EXCEPT !.seq = @ + 1,
                 !.lossy_dropped = dropped,
                 !.last_item_seen = ~more,
                 !.credit_left = IF class = "lossless" THEN @ - 1 ELSE @]

\* Mutant: the credit is spent only by a frame that found a slot.
SpentWhenAccepted(class) ==
    IF class = "lossless" /\ Len(channel) < ChannelCapacity
    THEN [stream EXCEPT !.outstanding_credit = Monus(@, 1)]
    ELSE stream

\* The credit of a lossless frame is spent before its slot is looked for.
Spent(class) ==
    IF class = "lossless"
    THEN [stream EXCEPT !.outstanding_credit = Monus(@, 1)]
    ELSE stream

\* Whether deliver_stream_item finds a slot: a lossless frame takes any, a
\* lossy one only a slot no credit is reserved against.
HasSlot(class) ==
    IF class = "lossless"
    THEN Len(channel) < ChannelCapacity
    ELSE Len(channel) + stream.outstanding_credit < ChannelCapacity

\* Mutant: the host's own drops are not declared.
FrameWireOnly(class, dropped) ==
    [seq |-> call.seq, class |-> class, dropped |-> dropped, wire |-> dropped]

\* The frame as the consumer will see it.  The field wire, which the program
\* does not have, remembers the worker's share of the declared drops.
Frame(class, dropped) ==
    [seq |-> call.seq, class |-> class, dropped |-> dropped + stream.local_drops,
     wire |-> dropped]

Accept(class, dropped) ==
    /\ HasSlot(class)
    /\ channel' = Append(channel, Frame(class, dropped))
    /\ stream' = [Spent(class) EXCEPT !.accepted = @ + 1]
    /\ UNCHANGED <<drops, lost>>

DropLocally(class) ==
    /\ ~HasSlot(class)
    /\ stream' = [Spent(class) EXCEPT !.local_drops = @ + 1]
    /\ drops' = drops + 1
    /\ lost' = [lost EXCEPT ![class] = @ + 1]
    /\ UNCHANGED channel

\* on_stream_data, and deliver_stream_item into an open channel.
StreamData(class, more, dropped) ==
    /\ Admits(class, dropped)
    /\ ~call.stream_muted
    /\ Streaming
    /\ consumer.items
    /\ call' = Received(class, more, dropped)
    /\ Accept(class, dropped) \/ DropLocally(class)
    /\ lossy_seen' = (lossy_seen \/ class = "lossy")
    /\ UNCHANGED <<consumer, received>>

\* The stream was muted or removed: the session counts the frame and the pump
\* does not hear of it, or returns at once.
StreamDataMuted(class, more, dropped) ==
    /\ Admits(class, dropped)
    /\ call.stream_muted \/ ~Streaming
    /\ call' = Received(class, more, dropped)
    /\ UNCHANGED <<stream, channel, drops, consumer, received, lossy_seen, lost>>

\* The consumer dropped the channel: a frame that tries to enter it finds out,
\* removes the stream and cancels the stream half of the call.  A lossy frame
\* that is not admitted does not try.
StreamDataClosed(class, more, dropped) ==
    /\ Admits(class, dropped)
    /\ ~call.stream_muted
    /\ Streaming
    /\ ~consumer.items
    /\ IF HasSlot(class)
       THEN /\ call' = [Received(class, more, dropped) EXCEPT !.stream_muted = TRUE]
            /\ stream' = NoStream
            /\ UNCHANGED <<drops, lost>>
       ELSE /\ call' = Received(class, more, dropped)
            /\ stream' = [stream EXCEPT !.local_drops = @ + 1]
            /\ drops' = drops + 1
            /\ lost' = [lost EXCEPT ![class] = @ + 1]
    /\ lossy_seen' = (lossy_seen \/ class = "lossy")
    /\ UNCHANGED <<channel, consumer, received>>

-----------------------------------------------------------------------------
Drained == Monus(stream.accepted, Len(channel))
Earned == Monus(Drained, stream.replaced)

\* Mutant: free slots earn credit, whether or not a frame ever filled them.
AdditionalFreeSlots ==
    Monus(ChannelCapacity, Len(channel))

\* Mutant: credit is granted a whole window at a time.
AdditionalBatched ==
    IF Earned < MaxStreamCredit THEN 0 ELSE Monus(MaxStreamCredit, stream.outstanding_credit)

\* What regrant_stream_credit grants: the drained frames no grant replaced yet,
\* up to the ceiling.
Additional ==
    LET budget == Monus(MaxStreamCredit, stream.outstanding_credit)
    IN  IF Earned < budget THEN Earned ELSE budget

\* regrant_stream_credit with an open channel, and grant_credit.
Regrant ==
    /\ Live
    /\ Streaming
    /\ consumer.items
    /\ stream.opened
    /\ Additional > 0
    /\ call.credit_left + Additional <= MaxStreamCredit
    /\ call' = [call EXCEPT !.credit_left = @ + Additional]
    /\ stream' = [stream EXCEPT !.outstanding_credit = @ + Additional,
                                !.replaced = @ + Additional]
    /\ UNCHANGED <<channel, drops, consumer, received, lossy_seen, lost>>

\* regrant_stream_credit with a closed channel: the stream is muted.
RegrantClosed ==
    /\ Live
    /\ Streaming
    /\ ~consumer.items
    /\ call' = [call EXCEPT !.stream_muted = TRUE]
    /\ stream' = NoStream
    /\ UNCHANGED <<channel, drops, consumer, received, lossy_seen, lost>>

Tick == Regrant \/ RegrantClosed

\* ActivationEndpoint::cancel of the stream half.
CancelStream ==
    /\ Live
    /\ ~call.stream_muted
    /\ call' = [call EXCEPT !.stream_muted = TRUE]
    /\ UNCHANGED <<stream, channel, drops, consumer, received, lossy_seen, lost>>

\* retire_dropped_waiters: the terminal has no receiver any more.
RetireDroppedWaiter ==
    /\ Live
    /\ Streaming
    /\ ~consumer.terminal
    /\ stream' = NoStream
    /\ UNCHANGED <<call, channel, drops, consumer, received, lossy_seen, lost>>

\* The call ends: the worker's reply, its goodbye, the deadline, or a fatal
\* fault.  The session retires the call and apply_events drops the stream.
Settle ==
    /\ Live
    /\ call' = [call EXCEPT !.live = FALSE]
    /\ stream' = NoStream
    /\ UNCHANGED <<channel, drops, consumer, received, lossy_seen, lost>>

-----------------------------------------------------------------------------
\* StreamCall::next_item.  What is queued stays readable after the terminal.
NextItem ==
    /\ consumer.items
    /\ channel # <<>>
    /\ channel' = Tail(channel)
    /\ received' = received + 1
    /\ UNCHANGED <<call, stream, drops, consumer, lossy_seen, lost>>

\* StreamCall::into_pending: the items go, the terminal is still awaited.
IntoPending ==
    /\ consumer.items
    /\ consumer' = [consumer EXCEPT !.items = FALSE]
    /\ channel' = <<>>
    /\ UNCHANGED <<call, stream, drops, received, lossy_seen, lost>>

\* The StreamCall, or the PendingCall it became, is dropped.
DropCall ==
    /\ consumer.terminal
    /\ consumer' = [items |-> FALSE, terminal |-> FALSE]
    /\ channel' = <<>>
    /\ UNCHANGED <<call, stream, drops, received, lossy_seen, lost>>

-----------------------------------------------------------------------------
\* A streaming call just admitted by call_worker.
CreditInit ==
    /\ call = [live |-> TRUE, stream_open |-> FALSE, stream_muted |-> FALSE,
               last_item_seen |-> FALSE, credit_left |-> 0, seq |-> 0,
               lossy_dropped |-> 0]
    /\ stream = NewStream
    /\ channel = <<>>
    /\ drops = 0
    /\ consumer = [items |-> TRUE, terminal |-> TRUE]
    /\ received = 0
    /\ lossy_seen = FALSE
    /\ lost = [class \in Classes |-> 0]

Worker ==
    \/ StreamOpen
    \/ \E class \in Classes, more \in BOOLEAN, dropped \in 0..MaxWireDrops :
        \/ StreamData(class, more, dropped)
        \/ StreamDataMuted(class, more, dropped)
        \/ StreamDataClosed(class, more, dropped)

Consumer == NextItem \/ IntoPending \/ DropCall \/ CancelStream

CreditNext == Worker \/ Tick \/ RetireDroppedWaiter \/ Settle \/ Consumer

CreditSpec == CreditInit /\ [][CreditNext]_creditVars

\* The ticker of the pump's loop keeps firing, and the consumer keeps reading.
CreditFairness == WF_creditVars(Tick) /\ WF_creditVars(NextItem)

CreditFairSpec == CreditSpec /\ CreditFairness

-----------------------------------------------------------------------------
Frames ==
    [seq : 0..MaxFrames, class : Classes, wire : 0..MaxWireDrops,
     dropped : 0..(MaxWireDrops + MaxFrames)]

\* The type of the state: the channel never holds more frames than it has
\* slots, and neither window exceeds the negotiated ceiling.
CreditTypeOK ==
    /\ call \in [live : BOOLEAN, stream_open : BOOLEAN, stream_muted : BOOLEAN,
                 last_item_seen : BOOLEAN, credit_left : 0..MaxStreamCredit,
                 seq : 0..MaxFrames, lossy_dropped : 0..MaxWireDrops]
    /\ stream \in [present : BOOLEAN, opened : BOOLEAN,
                   outstanding_credit : 0..MaxStreamCredit, accepted : 0..MaxFrames,
                   replaced : 0..MaxFrames, local_drops : 0..MaxFrames]
    /\ Len(channel) <= ChannelCapacity
    /\ channel \in Seq(Frames)
    /\ drops \in 0..MaxFrames
    /\ consumer \in [items : BOOLEAN, terminal : BOOLEAN]
    /\ consumer.items => consumer.terminal
    /\ received \in 0..MaxFrames
    /\ lossy_seen \in BOOLEAN
    /\ lost \in [Classes -> 0..MaxFrames]

\* The window the session enforces and the copy the pump grants from agree, as
\* long as the pump hears of every frame: a grant is never computed from a
\* credit the worker has already spent, or has not got.
WindowsAgree ==
    Live /\ Streaming /\ ~call.stream_muted =>
        stream.outstanding_credit = call.credit_left

\* A consumer can account for every frame that reached the host: a frame's
\* sequence number is the number of frames delivered before it plus the drops
\* it declares for the host, and the shared counter, which outlives the stream,
\* has the drops no later frame declared.
EveryFrameAccounted ==
    /\ \A i \in 1..Len(channel) :
        channel[i].seq = received + (i - 1) + channel[i].dropped - channel[i].wire
    /\ consumer.items /\ ~call.stream_muted /\ (Streaming \/ ~Live) =>
        call.seq = received + Len(channel) + drops

\* Without lossy frames the conservation law of HostStream holds: queued frames
\* and outstanding credit fit the channel, and no frame is dropped.
LosslessStreamConserves ==
    ~lossy_seen =>
        /\ Streaming => Len(channel) + stream.outstanding_credit <= ChannelCapacity
        /\ lost["lossless"] = 0

\* "host-local drops of credited lossless frames are impossible by
\* construction" (HostStream, and deliver_stream_item's comment).
CreditedFrameHasSlot ==
    lost["lossless"] = 0

\* A worker that ran out of credit gets more, as long as the consumer reads: the
\* window never closes for good under a live stream.
StalledStreamResumes ==
    (Streaming /\ stream.opened /\ stream.outstanding_credit = 0)
        ~> (\/ ~Streaming
            \/ stream.outstanding_credit > 0)
=============================================================================
