---------------------------- MODULE WorkerProcess ----------------------------
(***************************************************************************)
(* One activation of the process lane (crates/yah-plugin-proc/src): the    *)
(* pump task that owns the session, the socket and the child; endpoints    *)
(* that submit calls and releases to it; the dispatcher that answers the   *)
(* worker's calls; the driver that shuts it down; and the worker.          *)
(*                                                                         *)
(* One turn of the pump's loop is one action: an arm of its select, the    *)
(* events the session reports, and the frames it queues.  The worker is    *)
(* external.  It reads and writes a socket that keeps order, hangs up or   *)
(* dies at any point, between two frames or within one, and may send one   *)
(* frame the protocol does not justify from what was sent and received;    *)
(* "faulty" records that it did.                                           *)
(*                                                                         *)
(* toWorker is the outbound buffer followed by the socket, in frames; the  *)
(* drain of buffered input is not cut short by its byte and time bounds.   *)
(* A dispatcher task sends one command at a time and waits for its answer, *)
(* so a command of its own that is queued is one it has yet to send.       *)
(***************************************************************************)
EXTENDS Session, Functions

CONSTANTS
    CommandCap,         \* slots of the command channel
    LaneCap,            \* slots of the dispatcher's queue
    Permits,            \* provider_concurrency
    OutCap,             \* outbound_buffer_cap_bytes, in frames
    InCap               \* bound on frames in the socket toward the host

ASSUME ProcessAssumption == {CommandCap, LaneCap, Permits, OutCap, InCap} \subseteq Nat

VARIABLES
    session,            \* the host session
    resource,           \* ResourceState
    pump,               \* where the pump task stands
    outputOpen,         \* the write half still works
    closing,            \* PumpShared: no admission any more
    summary,            \* PumpShared: the first cause of the close
    shutdown,           \* deactivation was signalled, or the driver dropped
    call,               \* per host call: what its caller knows
    rel,                \* per offer: what the caller of its release knows
    task,               \* per worker call: its dispatcher task
    toWorker,           \* frames on their way to the worker
    fromWorker,         \* frames on their way to the host
    child,              \* the worker process
    know,               \* what the worker has received and sent; "part": a part of
                        \* a frame was the last of it
    faulty              \* it sent a frame it had no reason to send

workerVars == <<child, know, faulty>>
processVars == <<session, resource, pump, outputOpen, closing, summary, shutdown, call, rel,
                   task, toWorker, fromWorker, child, know, faulty>>

\* prepare: nothing is spawned yet.
InitDriver ==
    /\ resource = "none"
    /\ pump = "none"
    /\ child = "none"
    /\ shutdown = FALSE

\* What boot hands the pump it starts.
InitPump ==
    /\ session = NewSession
    /\ outputOpen = TRUE
    /\ call = [c \in HostIds |-> "idle"]
    /\ rel = [o \in OfferIds |-> "idle"]
    /\ task = [w \in WorkerIds |-> "none"]
    /\ toWorker = <<>>
    /\ fromWorker = <<>>

InitShared ==
    /\ closing = FALSE
    /\ summary = "open"

InitWorker ==
    /\ know = [hello |-> FALSE, bye |-> FALSE, part |-> FALSE, sent |-> {},
               got |-> {}, replied |-> {}, held |-> {}, returned |-> {},
               offered |-> {}, asked |-> {}, acked |-> {}]
    /\ faulty = FALSE

ProcessInit == InitDriver /\ InitPump /\ InitShared /\ InitWorker

-----------------------------------------------------------------------------
(* The pump: events of the session, and frames it queued *)

Told(s, e) == e \in s.news
Causes(s) == {cause \in {"goodbye", "protocol", "midframe", "disconnect"} : Told(s, <<"over", cause>>)}
Over(s) == Causes(s) # {}

\* settle_pending_releases
Lost(r) == With(r, Where(r, "waiting"), "lost")

\* The terminal a session's news has for a call, and whether it has one.
EndsOf(s, c) == {e \in {"unknown", "cancelled"} : Told(s, <<"lost", c, e>>)}
                \cup {e \in {"settled"} : Told(s, <<e, c>>)}

CallsAfter(s, k) ==
    [c \in HostIds |-> IF k[c] = "waiting" /\ EndsOf(s, c) # {}
                       THEN CHOOSE e \in EndsOf(s, c) : TRUE ELSE k[c]]

RelsAfter(s, r) ==
    LET acked == [o \in OfferIds |-> IF r[o] = "waiting" /\ Told(s, <<"acked", o>>)
                                     THEN "acked" ELSE r[o]]
    IN IF Over(s) THEN Lost(acked) ELSE acked

Delivered(s) == {w \in WorkerIds : Told(s, <<"call", w>>)}
Cancelled(s) == {w \in WorkerIds : Told(s, <<"cancel", w>>)}

\* route_worker_call takes the call into the lane while it has room.
Room(t) == Cardinality(Where(t, "queued")) < LaneCap

TasksAfter(s, t) ==
    [w \in WorkerIds |-> IF w \in Delivered(s) /\ Room(t) THEN "queued" ELSE t[w]]

\* Answers the events call for: a refusal for want of room, and the immediate reply
\* to a cancel.  A frame brings one such event; a drain may bring more, and leaves a
\* closed session, which answers none.
SessionAfter(s, t) ==
    LET failed == Cancelled(s) \cup (IF Room(t) THEN {} ELSE Delivered(s))
        answered == IF failed = {} THEN s ELSE ReplyToWorker(s, CHOOSE w \in failed : TRUE, FALSE)
    IN [answered EXCEPT !.news = {}]

\* drain_buffered_input: the frames are fed one by one.
Fed(s, buffered) ==
    LET fed[n \in 0..Len(buffered)] ==
            IF n = 0 THEN s ELSE OnFrame(fed[n - 1], buffered[n])
    IN fed[Len(buffered)]

\* Mutant: the buffered input is read, and its end is not declared.
InputDrained(s, buffered) == Fed(s, buffered)

\* end_input: what the peer has written is read before the input is over.  (The
\* pump that ends it under a worker which has not left has named the cause by then,
\* and what is left of a frame makes no difference.)
InputEnded(s, buffered) == EndOfInput(Fed(s, buffered), know.part)

\* Mutant: every call is taken for one whose frame was never written.
UndeliverableAll(s, kind) == IF kind = "call" THEN HostIds ELSE {}

\* Frames of the outbox a dead write half will never carry.
Undeliverable(s, kind) == {m[2] : m \in {n \in Range(s.out) : n[1] = kind}}

-----------------------------------------------------------------------------
(* One turn: apply_events, queue_outbox, and the break on a closed session *)

\* set_closed: the first cause stands.
SetClosed(cause) ==
    /\ closing' = TRUE
    /\ summary' = IF summary = "open" THEN cause ELSE summary

\* What the news of a turn says of the close.
CloseOn(s) ==
    IF Over(s) THEN SetClosed(CHOOSE cause \in Causes(s) : TRUE)
    ELSE UNCHANGED <<closing, summary>>

\* apply_events on a session whose output is settled elsewhere.
Apply(s, k, r, t) ==
    /\ call' = CallsAfter(s, k)
    /\ rel' = RelsAfter(s, r)
    /\ task' = TasksAfter(s, t)

\* queue_outbox with the write half gone: a call whose frame dies here never
\* reached the worker.
DropOutput(s, k, r, t) ==
    /\ Apply(s, With(k, {c \in Undeliverable(s, "call") : k[c] = "waiting"}, "cancelled"),
             With(r, {o \in Undeliverable(s, "release") : r[o] = "waiting"}, "lost"), t)
    /\ session' = [SessionAfter(s, t) EXCEPT !.out = <<>>]
    /\ pump' = IF s.phase = "closed" THEN "exiting" ELSE "loop"
    /\ CloseOn(s)
    /\ UNCHANGED toWorker

\* The buffer passes its cap: what is over it is dropped and the session ends.
Overflow(s, k, r, t, rest) ==
    LET a == SessionAfter(s, t)
        ended == InputEnded([a EXCEPT !.out = <<>>], rest)
        b == SessionAfter(ended, TasksAfter(s, t))
    IN /\ call' = CallsAfter(ended, CallsAfter(s, k))
       /\ rel' = RelsAfter(ended, RelsAfter(s, r))
       /\ task' = TasksAfter(ended, TasksAfter(s, t))
       /\ session' = [b EXCEPT !.out = <<>>]
       /\ toWorker' = SubSeq(toWorker \o a.out, 1, OutCap + 1) \o b.out
       /\ pump' = "exiting"
       /\ IF Over(s) THEN CloseOn(s) ELSE SetClosed("overflow")

QueueOutput(s, k, r, t) ==
    LET a == SessionAfter(s, t) IN
    /\ Apply(s, k, r, t)
    /\ session' = [a EXCEPT !.out = <<>>]
    /\ toWorker' = toWorker \o a.out
    /\ pump' = IF a.phase = "closed" THEN "exiting" ELSE "loop"
    /\ CloseOn(s)

Turn(s, k, r, t, rest) ==
    /\ pump = "loop"
    /\ fromWorker' = rest
    /\ IF ~outputOpen THEN DropOutput(s, k, r, t)
       ELSE IF Len(toWorker \o SessionAfter(s, t).out) > OutCap THEN Overflow(s, k, r, t, rest)
       ELSE QueueOutput(s, k, r, t)
    /\ UNCHANGED <<resource, outputOpen, shutdown, child, know, faulty>>

-----------------------------------------------------------------------------
(* Arms of the select *)

ReadReady ==
    /\ fromWorker # <<>>
    /\ Turn(OnFrame(session, Head(fromWorker)), call, rel, task, Tail(fromWorker))

\* End of file, or the exit of the child: one drain, and the input is over.
InputEnds ==
    /\ child \in {"hup", "dead"}
    /\ Turn(InputEnded(session, fromWorker), call, rel, task, <<>>)

\* The peer shut its read half: the outbound buffer is dropped.
WriteFails ==
    /\ pump = "loop"
    /\ outputOpen
    /\ outputOpen' = FALSE
    /\ \E n \in 0..Len(toWorker) : toWorker' = SubSeq(toWorker, 1, n)
    /\ UNCHANGED <<session, resource, pump, closing, summary, shutdown, call, rel, task,
                   fromWorker>>
    /\ UNCHANGED workerVars

Tick(c) ==
    /\ session.phase = "active"
    /\ session.host[c] = "open"
    /\ Turn(Expire(session, c), call, rel, task, fromWorker)

TakeCall(c) ==
    /\ call[c] = "queued"
    /\ IF MayCall(session)
       THEN Turn(CallWorker(session, c), [call EXCEPT ![c] = "waiting"], rel, task, fromWorker)
       ELSE Turn(session, [call EXCEPT ![c] = "refused"], rel, task, fromWorker)

TakeRelease(o) ==
    /\ rel[o] = "queued"
    /\ IF MayRelease(session, o)
       THEN Turn(ReleaseWorkerHandle(session, o), call, [rel EXCEPT ![o] = "waiting"], task, fromWorker)
       ELSE Turn(session, call, [rel EXCEPT ![o] = "refused"], task, fromWorker)

\* Cancel, which its caller submits to a pump that takes it at once.  Advisory:
\* the call keeps its waiter.
TakeCancel(c) ==
    /\ ~closing
    /\ call[c] = "waiting"
    /\ Turn(Cancel(session, c), call, rel, task, fromWorker)

\* retire_dropped_waiters: the caller has dropped its receiver since the last turn.
RetireDropped(c) ==
    /\ call[c] = "waiting"
    /\ Turn(Cancel(session, c), [call EXCEPT ![c] = "dropped"], rel, task, fromWorker)

\* MintCapability, sent by the acquire of a call that is not cancelled.
AcquireCapability(w, h) ==
    /\ task[w] = "running"
    /\ session.handle[h] = "fresh"
    /\ MayMint(session, w)
    /\ Turn(Minted(session, w, h), call, rel, task, fromWorker)

\* What a task may answer: a cancelled one has only the cancellation, which the
\* session has already sent.
Answers(w) == IF session.worker[w] = "open" THEN BOOLEAN ELSE {FALSE}

\* Reply: the answer ends the task, whether or not the session still takes it.
Reply(w, ok) ==
    /\ task[w] = "running"
    /\ ok \in Answers(w)
    /\ Turn(ReplyToWorker(session, w, ok), call, rel, [task EXCEPT ![w] = "done"], fromWorker)

\* SpillReply: the artifact is minted and offered in one command, or refused.
SpillReply(w) ==
    /\ task[w] = "running"
    /\ session.worker[w] = "open"
    /\ IF MayMint(session, w)
       THEN \E h \in Where(session.handle, "fresh") :
               Turn(ReplyToWorker(Minted(session, w, h), w, TRUE), call, rel,
                    [task EXCEPT ![w] = "done"], fromWorker)
       ELSE Turn(ReplyToWorker(session, w, FALSE), call, rel,
                 [task EXCEPT ![w] = "done"], fromWorker)

\* begin_goodbye, on the shutdown signal, a dropped driver or a cancelled scope.
BeginGoodbye ==
    /\ pump = "loop"
    /\ shutdown
    /\ pump' = "exiting"
    /\ SetClosed("host goodbye")
    /\ rel' = Lost(rel)
    /\ toWorker' = IF outputOpen THEN Append(toWorker, <<"goodbye">>) ELSE toWorker
    /\ UNCHANGED <<session, resource, outputOpen, shutdown, call, task, fromWorker>>
    /\ UNCHANGED workerVars

-----------------------------------------------------------------------------
(* The exit path *)

\* The flush is over, complete or not; the session's last news is applied.
EndSession ==
    LET ended == InputEnded(session, fromWorker) IN
    /\ pump = "exiting"
    /\ pump' = "reaping"
    /\ call' = CallsAfter(ended, call)
    /\ rel' = Lost(RelsAfter(ended, rel))
    /\ task' = TasksAfter(ended, task)
    /\ session' = [SessionAfter(ended, task) EXCEPT !.out = <<>>]
    /\ CloseOn(ended)
    /\ fromWorker' = <<>>
    /\ \E n \in 0..Len(toWorker) : toWorker' = SubSeq(toWorker, 1, n)
    /\ UNCHANGED <<resource, outputOpen, shutdown>>
    /\ UNCHANGED workerVars

\* reap, and the end of the task: commands it never took are dropped with it.
Reap ==
    /\ pump = "reaping"
    /\ pump' = "gone"
    /\ child' = "dead"
    /\ call' = With(call, Where(call, "queued"), "closed")
    /\ rel' = With(rel, Where(rel, "queued"), "closed")
    /\ toWorker' = <<>>
    /\ UNCHANGED <<session, resource, outputOpen, closing, summary, shutdown, task,
                   fromWorker, know, faulty>>

-----------------------------------------------------------------------------
(* Endpoints and the driver *)

Queued == Where(call, "queued") \cup Where(rel, "queued")

\* admission_state
AdmissionOpen == ~closing /\ session.phase = "active"

\* submit, under the admission lock.
Admits == AdmissionOpen /\ Cardinality(Queued) < CommandCap

Submit(c) ==
    /\ call[c] = "idle"
    /\ Admits
    /\ call' = [call EXCEPT ![c] = "queued"]
    /\ UNCHANGED <<session, resource, pump, outputOpen, closing, summary, shutdown, rel,
                   task, toWorker, fromWorker>>
    /\ UNCHANGED workerVars

\* The endpoint knows an offer from the terminal that carried it.
SubmitRelease(o) ==
    /\ rel[o] = "idle"
    /\ session.offer[o] # "fresh"
    /\ Admits
    /\ rel' = [rel EXCEPT ![o] = "queued"]
    /\ UNCHANGED <<session, resource, pump, outputOpen, closing, summary, shutdown, call,
                   task, toWorker, fromWorker>>
    /\ UNCHANGED workerVars

\* The dispatcher takes a permit before it takes a call.
Dispatch(w) ==
    /\ task[w] = "queued"
    /\ Cardinality(Where(task, "running")) < Permits
    /\ task' = [task EXCEPT ![w] = "running"]
    /\ UNCHANGED <<session, resource, pump, outputOpen, closing, summary, shutdown, call,
                   rel, toWorker, fromWorker>>
    /\ UNCHANGED workerVars

\* boot: the worker is spawned and the pump runs.  A spawn that fails leaves
\* nothing to release.
Boot ==
    /\ resource = "none"
    /\ resource' = "live"
    /\ pump' = "loop"
    /\ child' = "up"
    /\ UNCHANGED <<session, outputOpen, closing, summary, shutdown, call, rel, task, toWorker,
                   fromWorker, know, faulty>>

\* set_closing, under the admission lock; what was submitted before precedes it.
SetClosing(now) == closing' = (closing \/ now)

\* shutdown, by the deactivation that follows the start, which the handshake
\* deadline may end at any time; a driver that is dropped, and a scope that is
\* cancelled, raise the signal alone.
Shutdown(orderly) ==
    /\ resource = "live"
    /\ ~shutdown
    /\ shutdown' = TRUE
    /\ SetClosing(orderly)
    /\ UNCHANGED <<session, resource, pump, outputOpen, summary, call, rel, task, toWorker,
                   fromWorker>>
    /\ UNCHANGED workerVars

\* The join: the pump's task has ended, and the link is retired.
Release ==
    /\ resource = "live"
    /\ shutdown
    /\ pump = "gone"
    /\ resource' = "released"
    /\ UNCHANGED <<session, pump, outputOpen, closing, summary, shutdown, call, rel, task,
                   toWorker, fromWorker>>
    /\ UNCHANGED workerVars

-----------------------------------------------------------------------------
(* The worker *)

\* The frames a worker that keeps the protocol has a reason to send.
Justified(f) ==
    /\ ~know.bye
    /\ f[1] # "hello" => know.hello
    /\ CASE f[1] = "hello" -> ~know.hello
         [] f[1] = "garbage" -> FALSE
         [] f[1] = "goodbye" -> TRUE
         [] f[1] \in {"app", "law"} -> f[2] \notin know.sent
         [] f[1] = "cancel" -> f[2] \in know.sent
         [] f[1] = "reply" -> f[2] \in know.got \ know.replied /\ f[3] \notin know.offered
         [] f[1] = "release" -> f[2] \in know.held \ know.returned
         [] f[1] = "ack" -> f[2] \in know.asked \ know.acked

WorkerSends(f) ==
    /\ child = "up"
    /\ Len(fromWorker) < InCap
    /\ Justified(f) \/ ~faulty
    /\ faulty' = (faulty \/ ~Justified(f))
    /\ fromWorker' = Append(fromWorker, f)
    /\ know' = CASE f[1] = "hello" -> [know EXCEPT !.hello = TRUE]
                 [] f[1] = "goodbye" -> [know EXCEPT !.bye = TRUE]
                 [] f[1] \in {"app", "law"} -> [know EXCEPT !.sent = @ \cup {f[2]}]
                 [] f[1] = "reply" -> [know EXCEPT !.replied = @ \cup {f[2]},
                                                  !.offered = @ \cup ({f[3]} \cap OfferIds)]
                 [] f[1] = "release" -> [know EXCEPT !.returned = @ \cup {f[2]}]
                 [] f[1] = "ack" -> [know EXCEPT !.acked = @ \cup {f[2]}]
                 [] OTHER -> know
    /\ UNCHANGED <<session, resource, pump, outputOpen, closing, summary, shutdown, call, rel,
                   task, toWorker, child>>

WorkerReceives ==
    /\ child \in {"up", "hup"}
    /\ toWorker # <<>>
    /\ LET m == Head(toWorker) IN
       know' = CASE m[1] = "call" -> [know EXCEPT !.got = @ \cup {m[2]}]
                 [] m[1] = "reply" -> [know EXCEPT !.held = @ \cup m[3]]
                 [] m[1] = "release" -> [know EXCEPT !.asked = @ \cup {m[2]}]
                 [] OTHER -> know
    /\ toWorker' = Tail(toWorker)
    /\ UNCHANGED <<session, resource, pump, outputOpen, closing, summary, shutdown, call, rel,
                   task, fromWorker, child, faulty>>

\* The worker closes its write half, or dies, perhaps within a frame.
WorkerLeaves(how, part) ==
    /\ child = "up"
    /\ child' = how
    /\ know' = [know EXCEPT !.part = part]
    /\ UNCHANGED <<session, resource, pump, outputOpen, closing, summary, shutdown, call, rel,
                   task, toWorker, fromWorker, faulty>>

-----------------------------------------------------------------------------
PumpStep ==
    \/ ReadReady \/ InputEnds \/ WriteFails
    \/ \E c \in HostIds : Tick(c) \/ TakeCall(c) \/ TakeCancel(c) \/ RetireDropped(c)
    \/ \E o \in OfferIds : TakeRelease(o)
    \/ \E w \in WorkerIds :
          \/ SpillReply(w)
          \/ \E ok \in BOOLEAN : Reply(w, ok)
          \/ \E h \in HandleIds : AcquireCapability(w, h)
    \/ BeginGoodbye \/ EndSession \/ Reap

ProcessNext ==
    \/ PumpStep
    \/ \E c \in HostIds : Submit(c)
    \/ \E o \in OfferIds : SubmitRelease(o)
    \/ \E w \in WorkerIds : Dispatch(w)
    \/ \E orderly \in BOOLEAN : Shutdown(orderly)
    \/ Boot \/ Release
    \/ \E f \in Frames : WorkerSends(f)
    \/ WorkerReceives
    \/ \E how \in {"hup", "dead"}, part \in BOOLEAN : WorkerLeaves(how, part)

ProcessSpec == ProcessInit /\ [][ProcessNext]_processVars

-----------------------------------------------------------------------------
(* Properties *)

\* A caller that is told its call never ran (refused, closed, or lost without a
\* need to reconcile) is told the truth: the worker never received the frame, or
\* has said goodbye.
HonestLoss ==
    \A c \in HostIds :
        call[c] \in {"refused", "closed", "cancelled"} => c \notin know.got \/ know.bye

\* The close summary blames the right side: a protocol fault only if the worker
\* sent a frame it had no reason to send, whatever deadlines, cancels and
\* reclamations crossed its frames; a disconnect only if it left and was within no
\* frame, a truncated frame only if it was within one (end_of_input; the tests ask
\* that it closes "never as clean disconnects"); its goodbye only if it said one.
SummaryIsJust ==
    /\ summary = "protocol" => faulty
    /\ summary = "midframe" => child # "up" /\ know.part
    /\ summary = "disconnect" => child # "up" /\ ~know.part
    /\ summary = "goodbye" => know.bye

\* What the ids in use may still add to the retired ones.
Owed(s) ==
    Cardinality(Where(s.worker, "open")) + 2 * Cardinality(Where(s.host, "open"))
    + Cardinality(Where(s.handle, "live")) + Cardinality(Where(s.offer, "pending"))

\* Once the budget is spent no step adds to what is retired or owed, so that the
\* overshoot is what was in use at that moment: at most the worker's calls, twice
\* the host's calls and twice the live handles.
NothingOwedAtBudget ==
    [][BudgetFull(session) =>
        Retired(session') + Owed(session') <= Retired(session) + Owed(session)]_processVars

\* No caller dies with the pump: when the task is gone, or
\* the driver reports the worker released, the child is dead and every
\* call and release that was admitted has its answer, an acknowledged one only if
\* the worker sent the acknowledgement.
NoWaiterLeft ==
    /\ pump = "gone" \/ resource = "released" =>
          /\ child = "dead"
          /\ \A c \in HostIds : call[c] \notin {"queued", "waiting"}
          /\ \A o \in OfferIds : rel[o] \notin {"queued", "waiting"}
    /\ \A o \in OfferIds : rel[o] = "acked" => o \in know.acked
=============================================================================
