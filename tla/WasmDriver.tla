----------------------------- MODULE WasmDriver -----------------------------
(***************************************************************************)
(* The WebAssembly component driver (crates/yah-plugin-wasm/src/driver.rs, *)
(* host.rs, capability.rs): activations that share an engine and the       *)
(* ticker of its epoch, each with a store of its own behind a fair lock.   *)
(*                                                                         *)
(* A guest call holds the store lock until it ends.  The guest is any      *)
(* program: it returns, traps, grows, logs, takes and drops capabilities,  *)
(* makes a host import panic, or runs for ever.  The host polls the start  *)
(* of an activation, may destroy that future where it waits, and asks for  *)
(* the deactivation once the start is over (StartEndsFirst of              *)
(* HostActivation).  Tools are called by anyone, at any time, and a caller *)
(* may drop its call where it waits.                                       *)
(*                                                                         *)
(* A deadline is always one tick ahead of the epoch at which it was set,   *)
(* so of the epoch only whether a tick has come since then is kept.        *)
(***************************************************************************)
EXTENDS WasmLimits, Sequences

CONSTANTS
    Activations,
    Callers,       \* callers of call_fixture_tool
    Builds,        \* arguments a driver may be built with
    Start, Stop,   \* the clients of a store lock that are no callers
    Nobody         \* no client

\* WasmActivationPlan, without the guest program.
Plans == [start : {"activate", "pend"}, deactivate : {"release", "fail"}]

ASSUME WasmAssumption ==
    /\ {Start, Stop, Nobody} \cap Callers = {}
    /\ Start # Stop /\ Start # Nobody /\ Stop # Nobody
    /\ \A b \in Builds : b.limits.call_budget_ticks \in Nat /\ b.plans \in Seq(Plans)

ready == [start |-> "activate", deactivate |-> "release"]
NoPlan == [start |-> "none"]

VARIABLES
    driver,        \* unbuilt, refused, or built, with bounds and a component
    pending,       \* plans that are not assigned yet
    plan,          \* the plan assigned to an activation
    start,         \* where the start of an activation is
    stop,          \* where its deactivation is
    interrupted,   \* its GuestInterrupt
    observation,   \* what outlives its store
    store,         \* its store, and who owns it: the start (local), the lock
                   \* (live) or the deactivation (taken)
    queue,         \* clients of its store lock: the first one holds it
    guest,         \* the client whose guest call is running
    clock,         \* has a tick come since the deadline was set, and how many
                   \* since the call began
    caller         \* where a caller is, and its activation

observers == <<driver, pending, plan>>
lifecycle == <<start, stop>>
vars == <<driver, pending, plan, start, stop, interrupted, observation, store, queue, guest, clock, caller>>

limits == driver.limits

NoStore == [where |-> "none", handles |-> 0, used |-> limiter, poisoned |-> FALSE]
NewStore == [NoStore EXCEPT !.where = "local"]

NewObservation == [resource |-> "not_acquired", faulted |-> FALSE, live_handles |-> 0, records |-> 0, report |-> "none"]

Idle == [at |-> "idle"]
StartOver == {"ok", "err", "gone"}
StopOver == {"done", "failed"}

\* WasmObserver and health read the observation, never the store.
health(a) ==
    CASE observation[a].faulted -> "unhealthy"
      [] ~observation[a].faulted /\ observation[a].resource = "live" -> "healthy"
      [] OTHER -> "unknown"

\* enter_guest.
enter_guest(a) == ~interrupted[a].killed /\ ~observation[a].faulted

-----------------------------------------------------------------------------
(* The driver and its script *)

\* The bounds and the declared imports are looked at before any store exists.
Built(b, authored) ==
    /\ driver.state = "unbuilt"
    /\ driver' = IF engine_accepts(b.limits) /\ check_import_surface(b.component.imports)
                 THEN [state |-> "built", limits |-> b.limits, component |-> b.component, authored |-> authored]
                 ELSE [state |-> "refused"]

\* One component and one plan for every activation.
for_component(b) ==
    /\ Built(b, TRUE)
    /\ UNCHANGED <<pending, plan, lifecycle, interrupted, observation, store, queue, guest, clock, caller>>

\* A queue of plans, one for each activation.
scripted(b) ==
    /\ Built(b, FALSE)
    /\ pending' = b.plans
    /\ UNCHANGED <<plan, lifecycle, interrupted, observation, store, queue, guest, clock, caller>>

\* prepare; a second one for the same activation finds its plan assigned.
Prepare(a) ==
    /\ driver.state = "built"
    /\ plan[a] = NoPlan
    /\ \/ /\ driver.authored
          /\ plan' = [plan EXCEPT ![a] = ready]
          /\ UNCHANGED pending
       \/ /\ pending # <<>>
          /\ plan' = [plan EXCEPT ![a] = Head(pending)]
          /\ pending' = Tail(pending)
    /\ UNCHANGED <<driver, lifecycle, interrupted, observation, store, queue, guest, clock, caller>>

-----------------------------------------------------------------------------
(* Entering and leaving the guest *)

\* set_epoch_deadline(1) and begin_call.
Armed(a) ==
    /\ interrupted' = [interrupted EXCEPT ![a] = begin_call(@)]
    /\ clock' = [clock EXCEPT ![a] = [due |-> FALSE, elapsed |-> 0]]

\* Mutant: a handle is counted down only when the guest drops it.
StoreDroppedUncounted(a, o) == o

\* The drop of a store drops its table, and every entry counts itself down.
StoreDropped(a, o) == [o EXCEPT !.live_handles = @ - store[a].handles]

\* What the guest call of a store that fails leaves behind: a store that is
\* still local goes with it.
Faulted(a, poisoned, report) ==
    LET o == [observation[a] EXCEPT !.faulted = TRUE, !.report = report]
        local == store[a].where = "local"
    IN  /\ observation' = [observation EXCEPT ![a] = IF local THEN StoreDropped(a, o) ELSE o]
        /\ store' = [store EXCEPT ![a] = IF local THEN NoStore ELSE [store[a] EXCEPT !.poisoned = @ \/ poisoned]]

\* The client whose call is over releases the lock, if it has it.
Returned(a, k, result) ==
    /\ guest' = [guest EXCEPT ![a] = IF @ = k THEN Nobody ELSE @]
    /\ queue' = [queue EXCEPT ![a] = IF start[a] = "instantiating" /\ k = Start THEN @ ELSE Tail(@)]
    /\ start' = IF k = Start THEN [start EXCEPT ![a] = result] ELSE start
    /\ caller' = IF k = Start THEN caller ELSE [caller EXCEPT ![k] = Idle]

\* A client has the lock: there may be no store, or one that cannot be entered.
Entered(a, k) ==
    /\ \/ /\ store[a].where # "live"
          /\ Returned(a, k, "err")
          /\ UNCHANGED <<interrupted, observation, store, clock>>
       \/ /\ store[a].where = "live"
          /\ store[a].poisoned
          /\ Faulted(a, TRUE, "refused")
          /\ Returned(a, k, "err")
          /\ UNCHANGED <<interrupted, clock>>
       \/ /\ store[a].where = "live"
          /\ ~store[a].poisoned
          /\ Armed(a)
          /\ guest' = [guest EXCEPT ![a] = k]
          /\ UNCHANGED <<observation, store, queue, start, caller>>
    /\ UNCHANGED <<observers, stop>>

Holder(a) == IF queue[a] = <<>> THEN Nobody ELSE Head(queue[a])

-----------------------------------------------------------------------------
(* What a running guest does *)

Running(a) == guest[a] # Nobody

\* Its call returns; an instantiation goes on to publish its store, unless the
\* component has more memories, tables or instances than are allowed.
GuestReturns(a, result) ==
    /\ Running(a)
    /\ IF start[a] = "instantiating"
       THEN /\ counts_allowed(limits, driver.component)
            /\ start' = [start EXCEPT ![a] = "publishing"]
            /\ queue' = [queue EXCEPT ![a] = Append(@, Start)]
            /\ guest' = [guest EXCEPT ![a] = Nobody]
            /\ UNCHANGED caller
       ELSE Returned(a, guest[a], result)
    /\ UNCHANGED <<observers, stop, interrupted, observation, store, clock>>

GuestFails(a, poisoned) ==
    /\ Running(a)
    /\ Faulted(a, poisoned, "failed")
    /\ Returned(a, guest[a], "err")
    /\ UNCHANGED <<observers, stop, interrupted, clock>>

\* A trap poisons the store.
GuestTraps(a) == GuestFails(a, TRUE)

\* capabilities.invoke.  Answers and refusals change nothing; the panic of a
\* provider is caught by guarded, and the store can still be entered.
ProviderPanics(a) == GuestFails(a, FALSE)

\* memory.grow and table.grow.
GuestGrows(a, kind, growth) ==
    /\ Running(a)
    /\ store' = [store EXCEPT ![a].used = growing(limits, @, kind, growth)]
    /\ UNCHANGED <<observers, lifecycle, interrupted, observation, queue, guest, clock, caller>>

\* logging.log: records beyond the retained ones are only counted.
GuestLogs(a) ==
    /\ Running(a)
    /\ observation[a].records < limits.retained_log_records
    /\ observation' = [observation EXCEPT ![a].records = @ + 1]
    /\ UNCHANGED <<observers, lifecycle, interrupted, store, queue, guest, clock, caller>>

\* capabilities.acquire.  What the broker refuses changes nothing.
GuestAcquires(a) ==
    /\ Running(a)
    /\ observation[a].live_handles < limits.max_capability_handles
    /\ observation' = [observation EXCEPT ![a].live_handles = @ + 1]
    /\ store' = [store EXCEPT ![a].handles = @ + 1]
    /\ UNCHANGED <<observers, lifecycle, interrupted, queue, guest, clock, caller>>

\* resource.drop.
GuestDrops(a) ==
    /\ Running(a)
    /\ store[a].handles > 0
    /\ observation' = [observation EXCEPT ![a].live_handles = @ - 1]
    /\ store' = [store EXCEPT ![a].handles = @ - 1]
    /\ UNCHANGED <<observers, lifecycle, interrupted, queue, guest, clock, caller>>

\* The epoch passes the deadline of every store.
Tick ==
    /\ driver.state = "built"
    /\ \E a \in Activations : ~clock[a].due
    /\ clock' = [a \in Activations |->
                    [due |-> TRUE,
                     elapsed |-> IF Running(a) /\ clock[a].elapsed < limits.call_budget_ticks
                                 THEN clock[a].elapsed + 1 ELSE clock[a].elapsed]]
    /\ UNCHANGED <<observers, lifecycle, interrupted, observation, store, queue, guest, caller>>

describe_stop(a) == IF interrupted[a].killed THEN "stopped" ELSE "overran"

\* The guest notices, asks on_deadline, and is interrupted or yields.
Deadline(a) ==
    /\ Running(a)
    /\ clock[a].due
    /\ interrupted' = [interrupted EXCEPT ![a] = on_deadline(@)]
    /\ \/ /\ interrupts(interrupted[a], limits.call_budget_ticks)
          /\ Faulted(a, TRUE, describe_stop(a))
          /\ Returned(a, guest[a], "err")
          /\ UNCHANGED clock
       \/ /\ ~interrupts(interrupted[a], limits.call_budget_ticks)
          /\ clock' = [clock EXCEPT ![a].due = FALSE]
          /\ UNCHANGED <<start, observation, store, queue, guest, caller>>
    /\ UNCHANGED <<observers, stop>>

-----------------------------------------------------------------------------
(* Start *)

\* The first poll: the guest runs in a store that only this future holds.
Instantiate(a) ==
    /\ plan[a] # NoPlan
    /\ start[a] = "none"
    /\ stop[a] = "none"
    /\ enter_guest(a)
    /\ start' = [start EXCEPT ![a] = "instantiating"]
    /\ store' = [store EXCEPT ![a] = NewStore]
    /\ guest' = [guest EXCEPT ![a] = Start]
    /\ Armed(a)
    /\ UNCHANGED <<observers, stop, observation, queue, caller>>

Publish(a) ==
    /\ start[a] = "publishing"
    /\ Holder(a) = Start
    /\ start' = [start EXCEPT ![a] = "published"]
    /\ store' = [store EXCEPT ![a].where = "live"]
    /\ queue' = [queue EXCEPT ![a] = Tail(@)]
    /\ UNCHANGED <<observers, stop, interrupted, observation, guest, clock, caller>>

\* The lock is free again, and a caller may have entered the store meanwhile.
AfterPublish(a) ==
    /\ start[a] = "published"
    /\ observation' = [observation EXCEPT ![a].resource = "live"]
    /\ start' = [start EXCEPT ![a] = CASE plan[a].start = "pend" -> "pending"
                                       [] plan[a].start # "pend" /\ enter_guest(a) -> "activate"
                                       [] OTHER -> "err"]
    /\ queue' = [queue EXCEPT ![a] = IF start'[a] = "activate" THEN Append(@, Start) ELSE @]
    /\ UNCHANGED <<observers, stop, interrupted, store, guest, clock, caller>>

call_activate(a) ==
    /\ Holder(a) = Start
    /\ start[a] = "activate"
    /\ guest[a] = Nobody
    /\ Entered(a, Start)

\* The one place of a client in the queue is forgotten.
Without(q, k) ==
    IF \A i \in DOMAIN q : q[i] # k THEN q
    ELSE LET i == CHOOSE i \in DOMAIN q : q[i] = k
         IN  SubSeq(q, 1, i - 1) \o SubSeq(q, i + 1, Len(q))

\* A future that is dropped gives back the lock or its place; a guest call in
\* it is unwound, and Wasmtime may not let another one in.
Abandoned(a, k, poisoned) ==
    /\ queue' = [queue EXCEPT ![a] = Without(@, k)]
    /\ guest' = [guest EXCEPT ![a] = IF @ = k THEN Nobody ELSE @]
    /\ poisoned => guest[a] = k /\ store[a].where = "live"
    /\ LET local == k = Start /\ store[a].where = "local"
       IN  /\ observation' = [observation EXCEPT ![a] = IF local THEN StoreDropped(a, @) ELSE @]
           /\ store' = [store EXCEPT ![a] = IF local THEN NoStore ELSE [store[a] EXCEPT !.poisoned = @ \/ poisoned]]

\* The host destroys a start that waits.
DropStart(a, poisoned) ==
    /\ start[a] \in {"instantiating", "publishing", "activate", "pending"}
    /\ start' = [start EXCEPT ![a] = "gone"]
    /\ Abandoned(a, Start, poisoned)
    /\ UNCHANGED <<observers, stop, interrupted, clock, caller>>

-----------------------------------------------------------------------------
(* Tools *)

\* The stop and the fault are read here, before the lock is asked for.
CallTool(c, a) ==
    /\ caller[c] = Idle
    /\ plan[a] # NoPlan
    /\ enter_guest(a)
    /\ caller' = [caller EXCEPT ![c] = [at |-> "entered", on |-> a]]
    /\ UNCHANGED <<observers, lifecycle, interrupted, observation, store, queue, guest, clock>>

AskForStore(c) ==
    /\ caller[c].at = "entered"
    /\ caller' = [caller EXCEPT ![c].at = "in"]
    /\ queue' = [queue EXCEPT ![caller[c].on] = Append(@, c)]
    /\ UNCHANGED <<observers, lifecycle, interrupted, observation, store, guest, clock>>

call_invoke(c) ==
    /\ caller[c].at = "in"
    /\ Holder(caller[c].on) = c
    /\ guest[caller[c].on] # c
    /\ Entered(caller[c].on, c)

DropCall(c, poisoned) ==
    /\ caller[c].at = "in"
    /\ caller' = [caller EXCEPT ![c] = Idle]
    /\ Abandoned(caller[c].on, c, poisoned)
    /\ UNCHANGED <<observers, lifecycle, interrupted, clock>>

-----------------------------------------------------------------------------
(* Deactivation *)

\* The guest is told to stop before the lock it holds is asked for.
Deactivate(a) ==
    /\ plan[a] # NoPlan
    /\ stop[a] = "none"
    /\ start[a] \in StartOver \cup {"none"}
    /\ stop' = [stop EXCEPT ![a] = "waiting"]
    /\ interrupted' = [interrupted EXCEPT ![a] = kill(@)]
    /\ queue' = [queue EXCEPT ![a] = Append(@, Stop)]
    /\ UNCHANGED <<observers, start, observation, store, guest, clock, caller>>

StopAnswer(a) == IF plan[a].deactivate = "release" THEN "done" ELSE "failed"

\* It takes the store out and gives the lock back: callers find no store from
\* here on, while the observation still shows one.
TakeStore(a) ==
    /\ stop[a] = "waiting"
    /\ Holder(a) = Stop
    /\ queue' = [queue EXCEPT ![a] = Tail(@)]
    /\ \/ /\ store[a].where = "live"
          /\ stop' = [stop EXCEPT ![a] = "releasing"]
          /\ store' = [store EXCEPT ![a].where = "taken"]
       \/ /\ store[a].where # "live"
          /\ stop' = [stop EXCEPT ![a] = StopAnswer(a)]
          /\ UNCHANGED store
    /\ UNCHANGED <<observers, start, interrupted, observation, guest, clock, caller>>

\* Only with a store to drop are the records of the guest dropped as well.
ReleaseStore(a) ==
    /\ stop[a] = "releasing"
    /\ stop' = [stop EXCEPT ![a] = StopAnswer(a)]
    /\ store' = [store EXCEPT ![a] = NoStore]
    /\ observation' = [observation EXCEPT ![a] = [StoreDropped(a, @) EXCEPT !.records = 0, !.resource = "released"]]
    /\ UNCHANGED <<observers, start, interrupted, queue, guest, clock, caller>>

-----------------------------------------------------------------------------

Init ==
    /\ driver = [state |-> "unbuilt"]
    /\ pending = <<>>
    /\ plan = [a \in Activations |-> NoPlan]
    /\ start = [a \in Activations |-> "none"]
    /\ stop = [a \in Activations |-> "none"]
    /\ interrupted = [a \in Activations |-> interrupt]
    /\ observation = [a \in Activations |-> NewObservation]
    /\ store = [a \in Activations |-> NoStore]
    /\ queue = [a \in Activations |-> <<>>]
    /\ guest = [a \in Activations |-> Nobody]
    /\ clock = [a \in Activations |-> [due |-> FALSE, elapsed |-> 0]]
    /\ caller = [c \in Callers |-> Idle]

\* What the guest of an activation may do of its own accord.
GuestStep(a) ==
    \/ \E result \in {"ok", "err"} : GuestReturns(a, result)
    \/ GuestTraps(a)
    \/ ProviderPanics(a)
    \/ \E kind \in {"memory", "table"} : GuestGrows(a, kind, 1)
    \/ GuestLogs(a)
    \/ GuestAcquires(a)
    \/ GuestDrops(a)

Next ==
    \/ \E b \in Builds : for_component(b)
    \/ \E b \in Builds : scripted(b)
    \/ Tick
    \/ \E a \in Activations : Prepare(a)
    \/ \E a \in Activations : Instantiate(a)
    \/ \E a \in Activations : Publish(a)
    \/ \E a \in Activations : AfterPublish(a)
    \/ \E a \in Activations : call_activate(a)
    \/ \E c \in Callers : call_invoke(c)
    \/ \E a \in Activations : GuestStep(a)
    \/ \E a \in Activations : Deadline(a)
    \/ \E a \in Activations, poisoned \in BOOLEAN : DropStart(a, poisoned)
    \/ \E c \in Callers, a \in Activations : CallTool(c, a)
    \/ \E c \in Callers : AskForStore(c)
    \/ \E c \in Callers, poisoned \in BOOLEAN : DropCall(c, poisoned)
    \/ \E a \in Activations : Deactivate(a)
    \/ \E a \in Activations : TakeStore(a)
    \/ \E a \in Activations : ReleaseStore(a)

Spec == Init /\ [][Next]_vars

\* The ticker is a thread of its own that the host keeps until the deactivation
\* is over, and whoever waits for the lock or for a guest call is polled.
Fairness ==
    /\ WF_vars(Tick)
    /\ \A c \in Callers : WF_vars(AskForStore(c)) /\ WF_vars(call_invoke(c))
    /\ \A a \in Activations :
          /\ WF_vars(Publish(a))
          /\ WF_vars(AfterPublish(a))
          /\ WF_vars(call_activate(a))
          /\ WF_vars(Deadline(a))
          /\ WF_vars(TakeStore(a))
          /\ WF_vars(ReleaseStore(a))

FairSpec == Spec /\ Fairness

-----------------------------------------------------------------------------
(* Properties *)

\* What outlives a store tells the truth about it, whichever call, start or tool
\* held it, trapped in it or was dropped meanwhile.  The gauge of capability
\* handles counts the entries of its table (LiveHandleGuard: "Decrements the
\* activation's live-handle count however the entry dies").  An activation that
\* is reported healthy has a store that can be asked for, but for the moment in
\* which deactivate has taken it and not yet said so.  A deactivation that is over
\* leaves no store and no guest.  It leaves no log records of a guest whose start
\* was completed, nor of any other whose store it released; those of a guest whose
\* store never went live it does not release.
NothingLeftBehind ==
    \A a \in Activations :
        /\ observation[a].live_handles = store[a].handles
        /\ health(a) = "healthy" => store[a].where = "live" \/ stop[a] = "releasing"
        /\ stop[a] \in StopOver =>
              /\ store[a].where = "none"
              /\ guest[a] = Nobody
              /\ observation[a].resource # "live"
              /\ observation[a].resource = "released" => observation[a].records = 0
              /\ start[a] = "ok" => observation[a].resource = "released"

\* A call that is reported to have exceeded its deadline was running for all of
\* its budget, whatever ran in the store before, however long it was idle and
\* whatever its siblings on the engine did; and a guest that the host stopped is
\* never reported as one that overran (begin_call, describe_stop: "Reporting
\* them identically would tell an operator that a guest overran").
OverrunIsEarned ==
    [][\A a \in Activations :
          observation[a].report # "overran" /\ observation'[a].report = "overran" =>
              /\ clock[a].elapsed >= limits.call_budget_ticks
              /\ stop[a] = "none"]_vars

\* No guest can hold a caller, the start of its activation or the deactivation
\* for ever: a call ends by itself or at a deadline, and who waits for the lock
\* gets it (on_deadline, deactivate: "Without this the wait is bounded only by
\* whatever the guest chooses to do next").
EveryCallEnds ==
    /\ \A c \in Callers : caller[c] # Idle ~> caller[c] = Idle
    /\ \A a \in Activations :
          /\ stop[a] = "waiting" ~> stop[a] \in StopOver
          /\ start[a] # "none" ~> start[a] \in StartOver \cup {"pending"}
=============================================================================
