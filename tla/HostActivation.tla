--------------------------- MODULE HostActivation ---------------------------
(***************************************************************************)
(* The host's activation of a plugin through its driver (crates/           *)
(* yah-plugin-host/src/driver/activation.rs, control.rs), on top of the    *)
(* component slot.                                                         *)
(*                                                                         *)
(* A guard borrows the slot from the preparation of an activation until it *)
(* is released as active or dropped; all calls on the slot go through it   *)
(* meanwhile.  Preparation admits the driver's deactivation as a cleanup   *)
(* of the activation before the driver may start.  The start is a future   *)
(* that the guard keeps across polls and destroys once the activation is   *)
(* sealed.  The driver is any program: a start may fail or panic after it  *)
(* has taken resources, and a deactivation may fail.                       *)
(***************************************************************************)
EXTENDS Slot

VARIABLES
    guard,       \* the guard that borrows the slot and its start future
    driver,      \* what the driver holds for every epoch
    abandoned    \* epochs whose failed cleanup was abandoned

hostVars == <<guard, driver, abandoned>>
activationVars == <<slotVars, hostVars>>

NoGuard == [start |-> "none"]
Guarded == guard # NoGuard

\* The cancellation of the activation's scope was requested, or it is gone.
SealedIn(m, e) == ~(Live(m) /\ m.epoch = e)
Sealed(e) == SealedIn(mounted, e)

\* The driver may hold resources.
Holds(e) == driver[e] \in {"live", "closing", "stuck"}

\* Mutant: the pending start survives the seal.
DiscardedNot(g) == g

\* discard_after_seal: whatever the start has come to, it is no longer.
Discarded(g) == [g EXCEPT !.start = "failed"]

-----------------------------------------------------------------------------
(* Preparation *)

\* prepare: what is refused before the finalizer is admitted leaves no trace.
Prepare(e) ==
    /\ ~Guarded
    /\ ActiveRevision
    /\ mounted.state = "starting"
    /\ Current(e)
    /\ mounted' = [mounted EXCEPT !.effects = TRUE]
    /\ driver' = [driver EXCEPT ![e] = "prepared"]
    /\ guard' = [epoch |-> e, start |-> "prepared"]
    /\ UNCHANGED <<desired, available, lastEpoch, abandoned>>

-----------------------------------------------------------------------------
(* poll_activate.  It also looks for a seal before and after each poll; the *)
(* slot is sealed only through the guard, which discards the start itself.  *)

\* The start future is made from the permit; it panics, or runs.
CallStart(panics) ==
    /\ guard.start = "prepared"
    /\ ~Sealed(guard.epoch)
    /\ driver' = [driver EXCEPT ![guard.epoch] = "live"]
    /\ IF panics
       THEN FailActivation(guard.epoch) /\ guard' = [guard EXCEPT !.start = "failed"]
       ELSE guard' = [guard EXCEPT !.start = "running"] /\ UNCHANGED slotVars
    /\ UNCHANGED abandoned

\* The start is over: the composition has the last word on readiness.
StartReady ==
    /\ guard.start = "running"
    /\ ~Sealed(guard.epoch)
    /\ CompleteStart(guard.epoch)
    /\ guard' = [guard EXCEPT !.start = IF mounted'.state = "active" THEN "ready" ELSE "failed"]
    /\ UNCHANGED <<driver, abandoned>>

\* The activation is sealed first, and the future destroyed afterwards.
StartFails ==
    /\ guard.start = "running"
    /\ ~Sealed(guard.epoch)
    /\ FailActivation(guard.epoch)
    /\ guard' = [guard EXCEPT !.start = "failed"]
    /\ UNCHANGED <<driver, abandoned>>

-----------------------------------------------------------------------------
(* Calls on the slot, directly or through the guard *)

AfterSeal ==
    guard' = IF Guarded /\ SealedIn(mounted', guard.epoch) THEN Discarded(guard) ELSE guard

HostReconcile(d) ==
    /\ Reconcile(d)
    /\ AfterSeal
    /\ UNCHANGED <<driver, abandoned>>

HostFail(e) ==
    /\ Guarded => e = guard.epoch
    /\ FailActivation(e)
    /\ guard' = IF Guarded THEN Discarded(guard) ELSE guard
    /\ UNCHANGED <<driver, abandoned>>

\* Components that are no plugins start and admit effects without a guard.
SlotOnly(e) ==
    /\ ~Guarded
    /\ CompleteStart(e) \/ AdmitEffect(e)
    /\ UNCHANGED hostVars

\* release_active.
ReleaseActive ==
    /\ guard.start = "ready"
    /\ guard' = NoGuard
    /\ UNCHANGED <<slotVars, driver, abandoned>>

\* Drop of the guard, also by a release of a start that is not active.
DropGuard ==
    /\ Guarded
    /\ IF Sealed(guard.epoch) THEN UNCHANGED slotVars ELSE FailActivation(guard.epoch)
    /\ guard' = NoGuard
    /\ UNCHANGED <<driver, abandoned>>

-----------------------------------------------------------------------------
(* Teardown: finish_stop polls the close of the sealed effects, and with it *)
(* the driver's deactivation; a waiter that is dropped is taken up again.   *)

\* A guard destroys its pending start before the first poll.
Closing(e) ==
    /\ IsMounted
    /\ mounted.state = "stopping"
    /\ Current(e)
    /\ Guarded => e = guard.epoch
    /\ guard' = IF Guarded THEN Discarded(guard) ELSE guard

BeginDeactivation(e) ==
    /\ Closing(e)
    /\ driver[e] \in {"prepared", "live"}
    /\ driver' = [driver EXCEPT ![e] = "closing"]
    /\ UNCHANGED <<slotVars, abandoned>>

EndDeactivation(e, ok) ==
    /\ Closing(e)
    /\ driver[e] = "closing"
    /\ driver' = [driver EXCEPT ![e] = IF ok THEN "down" ELSE "stuck"]
    /\ UNCHANGED <<slotVars, abandoned>>

HostFinishStop(e, clean) ==
    /\ Closing(e)
    /\ driver[e] \in {"none", "down", "stuck"}
    /\ clean => driver[e] # "stuck"
    /\ FinishStop(e, clean)
    /\ UNCHANGED <<driver, abandoned>>

HostAbandon(e) ==
    /\ Guarded => e = guard.epoch
    /\ AbandonFailedCleanup(e)
    /\ abandoned' = abandoned \cup {e}
    /\ UNCHANGED <<guard, driver>>

-----------------------------------------------------------------------------

ActivationInit ==
    /\ InitSlot
    /\ guard = NoGuard
    /\ driver = [e \in 1..MaxEpoch |-> "none"]
    /\ abandoned = {}

PollActivate ==
    \/ \E panics \in BOOLEAN : CallStart(panics)
    \/ StartReady
    \/ StartFails

PollStop(e) ==
    \/ BeginDeactivation(e)
    \/ \E ok \in BOOLEAN : EndDeactivation(e, ok)
    \/ \E clean \in BOOLEAN : HostFinishStop(e, clean)

ActivationNext ==
    \/ \E d \in Snapshots : HostReconcile(d)
    \/ \E S \in SUBSET Providers : ProvidersChange(S) /\ UNCHANGED hostVars
    \/ \E e \in Epochs : Prepare(e)
    \/ PollActivate
    \/ \E e \in Epochs : HostFail(e)
    \/ \E e \in Epochs : SlotOnly(e)
    \/ ReleaseActive
    \/ DropGuard
    \/ \E e \in Epochs : PollStop(e)
    \/ \E e \in Epochs : HostAbandon(e)

ActivationSpec == ActivationInit /\ [][ActivationNext]_activationVars

\* The composition authority reconciles the newest snapshot again and again
\* (reconciliation is level-triggered), polls what it has begun to stop, and
\* lets go of a guard whose activation is over: its calls serve no other.
FairActivationSpec ==
    /\ ActivationSpec
    /\ WF_activationVars(HostReconcile(desired))
    /\ WF_activationVars(Guarded /\ ~Current(guard.epoch) /\ DropGuard)
    /\ WF_activationVars(\E e \in Epochs : PollStop(e))

-----------------------------------------------------------------------------
(* Properties *)

\* Two activations of one slot never hold driver resources at the same time,
\* unless the owner abandoned the failed cleanup of the earlier one
\* (ReconciledComponent::finish_stop: "a non-clean report remains blocked ...
\* so a later activation cannot duplicate an effect whose cleanup failed").
OneDriverAtATime ==
    \A e, f \in 1..MaxEpoch : e < f /\ Holds(e) /\ Holds(f) => e \in abandoned

\* A driver is not asked to deactivate while its start may still run, and what
\* was prepared or started is not forgotten: the slot keeps the activation
\* until the deactivation is over (HostPluginActivation::finish_stop: "The
\* pending start future is destroyed before cleanup is polled").
StartEndsFirst ==
    \A e \in 1..MaxEpoch :
        /\ driver[e] \in {"prepared", "live", "closing"} => Current(e)
        /\ driver[e] \in {"closing", "down", "stuck"} /\ Guarded /\ guard.epoch = e
              => guard.start \notin {"prepared", "running"}

\* A component becomes active only on the newest desired assignment and with
\* its provider there, however long the start took and whatever changed
\* meanwhile (complete_start through poll_activate).
ActiveOnCurrentSelection ==
    [][mounted'.state = "active" /\ mounted.state # "active" =>
          /\ desired.want = "enabled"
          /\ desired.rev = mounted.rev
          /\ desired.assign = mounted.assign
          /\ mounted.rev \in Requiring => mounted.assign \in available]_activationVars

\* If disabling or removing is the last word, the component is unmounted at
\* last, or its teardown is blocked where the owner can see it
\* (ComponentSlot::reconcile_disabled, reconcile_removed, finish_stop).
DisabledIsUnmounted ==
    <>[](desired.want # "enabled") => <>[](~IsMounted \/ (mounted.state = "stopping" /\ mounted.blocked))
=============================================================================
