------------------------------- MODULE Session -------------------------------
(***************************************************************************)
(* The host's half of the plugin wire protocol (crates/yah-plugin-ipc/src/ *)
(* session): a pure state machine that is fed decoded frames and host      *)
(* calls, and answers with frames to send and news for the driver.         *)
(*                                                                         *)
(* The session is a record and every operation maps a session to the next  *)
(* one, as its methods do; the driver drains "out" and "news" after each.  *)
(* A table of the code is a status of its ids: an id that is in no table   *)
(* is fresh, one that may never be used again is spent.  Ids are given out *)
(* in order, so a fresh id stands for the next one.  A frame that breaks   *)
(* strict decoding, a bound or a wrong kind is "garbage"; a call that the  *)
(* session answers itself (an artifact read, an oversized payload) is of   *)
(* kind "law".  Stream frames are the subject of StreamCredit.             *)
(***************************************************************************)
EXTENDS Integers, Sequences, FiniteSets

CONSTANTS
    HostIds,            \* ids of host calls
    WorkerIds,          \* ids of worker calls
    HandleIds,          \* ids of handles the host mints
    OfferIds,           \* ids of handles the worker offers
    HostCeiling,        \* ceilings.host_calls_in_flight
    WorkerCeiling,      \* ceilings.worker_calls_in_flight
    LiveCeiling,        \* ceilings.live_handles
    Budget              \* retired_operation_budget

ASSUME SessionAssumption ==
    /\ \A S \in {HostIds, WorkerIds, HandleIds, OfferIds} : IsFiniteSet(S)
    /\ {HostCeiling, WorkerCeiling, LiveCeiling, Budget} \subseteq Nat

NoCall == "none"
NoOffer == "inline"

With(f, S, v) == [x \in DOMAIN f |-> IF x \in S THEN v ELSE f[x]]
Where(f, v) == {x \in DOMAIN f : f[x] = v}

NewSession ==
    [phase  |-> "hello",
     host   |-> [c \in HostIds |-> "fresh"],
     worker |-> [w \in WorkerIds |-> "fresh"],
     handle |-> [h \in HandleIds |-> "fresh"],
     minted |-> [h \in HandleIds |-> NoCall],
     offer  |-> [o \in OfferIds |-> "fresh"],
     out    |-> <<>>,
     news   |-> {}]

Send(s, m) == [s EXCEPT !.out = Append(@, m)]
Report(s, e) == [s EXCEPT !.news = @ \cup {e}]

-----------------------------------------------------------------------------
(* The correlation budget *)

\* retired_operations: ids remembered for good; an acknowledged offer counts
\* once as offered and once as released.
Retired(s) ==
    Cardinality(Where(s.worker, "spent")) + Cardinality(Where(s.host, "spent"))
    + Cardinality({h \in HandleIds : s.handle[h] \in {"released", "reclaimed"}})
    + Cardinality(Where(s.offer, "released"))
    + Cardinality({o \in OfferIds : s.offer[o] # "fresh"})

BudgetFull(s) == Retired(s) >= Budget

-----------------------------------------------------------------------------
(* Ends of the session *)

\* The tables that die with the session, and every open host call settled.
Ended(s, end) ==
    LET open == Where(s.host, "open") IN
    [s EXCEPT !.phase = "closed",
              !.host = With(@, open, "spent"),
              !.worker = With(@, Where(@, "open"), "void"),
              !.handle = With(@, Where(@, "live") \cup Where(@, "reclaimed"), "void"),
              !.offer = With(@, Where(@, "pending"), "offered"),
              !.news = @ \cup {<<"lost", c, end>> : c \in open}]

OnGoodbye(s) == Report(Ended(s, "cancelled"), <<"over", "goodbye">>)

\* fatal, with the cause the close summary names.
Fatal(s, cause) ==
    IF s.phase = "closed" THEN s
    ELSE LET e == Report(Ended(s, "unknown"), <<"over", cause>>)
         IN IF s.phase = "active" THEN Send(e, <<"goodbye">>) ELSE e

\* end_of_input: a worker that stopped within a frame did not just leave.
EndOfInput(s, truncated) == Fatal(s, IF truncated THEN "midframe" ELSE "disconnect")

-----------------------------------------------------------------------------
(* Handles *)

\* reclaim_handles
Reclaimed(s, H) == [s EXCEPT !.handle = With(@, {h \in H : @[h] = "live"}, "reclaimed")]

MintedFor(s, w) == {h \in HandleIds : s.minted[h] = w}

\* mint_capability_handle, offer_artifact: both refuse alike.
MayMint(s, w) ==
    /\ s.phase = "active"
    /\ s.worker[w] = "open"
    /\ ~BudgetFull(s)
    /\ Cardinality(Where(s.handle, "live")) < LiveCeiling

Minted(s, w, h) ==
    [s EXCEPT !.handle = With(@, {h}, "live"), !.minted = With(@, {h}, w)]

OnRelease(s, h) ==
    IF s.handle[h] \in {"live", "reclaimed"}
    THEN Send([s EXCEPT !.handle[h] = "released"], <<"ack", h>>)
    ELSE Fatal(s, "protocol")

\* Mutant: a release is asked for at the budget too.
MayReleaseUngated(s, o) ==
    /\ s.phase = "active"
    /\ s.offer[o] = "offered"
    /\ Cardinality(Where(s.offer, "pending")) < LiveCeiling

\* release_worker_handle
MayRelease(s, o) ==
    /\ s.phase = "active"
    /\ s.offer[o] = "offered"
    /\ ~BudgetFull(s)
    /\ Cardinality(Where(s.offer, "pending")) < LiveCeiling

ReleaseWorkerHandle(s, o) == Send([s EXCEPT !.offer[o] = "pending"], <<"release", o>>)

OnReleaseAck(s, o) ==
    IF s.offer[o] = "pending" THEN Report([s EXCEPT !.offer[o] = "released"], <<"acked", o>>)
    ELSE Fatal(s, "protocol")

-----------------------------------------------------------------------------
(* Calls of the worker *)

\* refuse_worker_call_unspent, and the refusal that spends the id.
RefusedUnspent(s, w) == Send(s, <<"reply", w, {}>>)
Refused(s, w) == RefusedUnspent([s EXCEPT !.worker[w] = "spent"], w)

\* A call the protocol itself answers in the same turn: an artifact read, served or
\* refused, or a payload over its bound.
ServedByLaw(s, w) == Refused(s, w)

OnWorkerCall(s, w, kind) ==
    CASE s.worker[w] # "fresh" -> Fatal(s, "protocol")
      [] s.worker[w] = "fresh" /\ BudgetFull(s) -> RefusedUnspent(s, w)
      [] s.worker[w] = "fresh" /\ ~BudgetFull(s) ->
            IF kind = "law" THEN ServedByLaw(s, w)
            ELSE IF Cardinality(Where(s.worker, "open")) >= WorkerCeiling THEN Refused(s, w)
            ELSE Report([s EXCEPT !.worker[w] = "open"], <<"call", w>>)

OnWorkerCancel(s, w) == IF s.worker[w] = "open" THEN Report(s, <<"cancel", w>>) ELSE s

\* reply_to_worker: an answer that is not a success takes back what the call minted.
ReplyToWorker(s, w, ok) ==
    IF s.phase # "active" \/ s.worker[w] # "open" THEN s
    ELSE LET mine == MintedFor(s, w)
             t == [s EXCEPT !.worker[w] = "spent"]
         IN IF ok THEN Send(t, <<"reply", w, mine \cap Where(s.handle, "live")>>)
            ELSE Send(Reclaimed(t, mine), <<"reply", w, {}>>)

-----------------------------------------------------------------------------
(* Calls of the host *)

MayCall(s) ==
    /\ s.phase = "active"
    /\ ~BudgetFull(s)
    /\ Cardinality(Where(s.host, "open")) < HostCeiling

CallWorker(s, c) == Send([s EXCEPT !.host[c] = "open"], <<"call", c>>)

Cancel(s, c) ==
    IF s.phase = "active" /\ s.host[c] = "open" THEN Send(s, <<"cancel", c>>) ELSE s

\* expire_deadlines, for one call whose deadline has passed; like a lost worker it
\* leaves the outcome unknown and asks for reconciliation.
Expire(s, c) ==
    Report([Send(s, <<"cancel", c>>) EXCEPT !.host[c] = "spent"], <<"lost", c, "unknown">>)

Offered(s, o) == IF o = NoOffer THEN s ELSE [s EXCEPT !.offer[o] = "offered"]

\* Mutant: a reply to a call that is no longer open is a fault.
LateReplyFatal(s, o) == Fatal(s, "protocol")

\* A reply to a call that was settled here already: tolerated, and its offer is
\* remembered unless the budget is spent.
LateReply(s, o) == IF o = NoOffer \/ BudgetFull(s) THEN s ELSE Offered(s, o)

OnWorkerReply(s, c, o) ==
    IF s.host[c] = "fresh" \/ (o # NoOffer /\ s.offer[o] # "fresh") THEN Fatal(s, "protocol")
    ELSE IF s.host[c] = "spent" THEN LateReply(s, o)
    ELSE Report([Offered(s, o) EXCEPT !.host[c] = "spent"], <<"settled", c>>)

-----------------------------------------------------------------------------
(* Frames *)

Frames ==
    ({"hello", "goodbye", "garbage"} \X {NoCall} \X {NoOffer})
    \cup ({"app", "law", "cancel"} \X WorkerIds \X {NoOffer})
    \cup ({"reply"} \X HostIds \X (OfferIds \cup {NoOffer}))
    \cup ({"release"} \X HandleIds \X {NoOffer})
    \cup ({"ack"} \X OfferIds \X {NoOffer})

\* Strict decoding, the bounds on fields and frames, and the I-JSON range.
Malformed(f) == f[1] = "garbage"

\* on_pre_negotiation: a hello that is out of bounds, of another version or in
\* need of an unknown feature is refused like any other first frame.
OnPreNegotiation(s, f) ==
    IF f[1] = "hello" THEN Report(Send([s EXCEPT !.phase = "active"], <<"accept">>), <<"active">>)
    ELSE Report(Send([s EXCEPT !.phase = "closed"], <<"refuse">>), <<"over", "protocol">>)

OnActive(s, f) ==
    CASE Malformed(f) \/ f[1] = "hello" -> Fatal(s, "protocol")
      [] f[1] = "goodbye" -> OnGoodbye(s)
      [] f[1] \in {"app", "law"} -> OnWorkerCall(s, f[2], f[1])
      [] f[1] = "cancel" -> OnWorkerCancel(s, f[2])
      [] f[1] = "reply" -> OnWorkerReply(s, f[2], f[3])
      [] f[1] = "release" -> OnRelease(s, f[2])
      [] f[1] = "ack" -> OnReleaseAck(s, f[2])

\* on_frame, reached through feed; nothing is read after the close.
OnFrame(s, f) ==
    CASE s.phase = "hello" ->
            IF Malformed(f) THEN Fatal(s, "protocol") ELSE OnPreNegotiation(s, f)
      [] s.phase = "active" -> OnActive(s, f)
      [] s.phase = "closed" -> s
=============================================================================
