-------------------------------- MODULE Slot --------------------------------
(***************************************************************************)
(* A component slot: desired state, and the one mounted component that is  *)
(* reconciled toward it (crates/yah-compose/src/desired_state/             *)
(* component_slot.rs, reconcile/reconciled_component.rs, component.rs).    *)
(*                                                                         *)
(* Desired snapshots carry a generation and only the newest counts.  A     *)
(* mounted component starts when its required service has the assigned     *)
(* provider, and freezes that assignment under a fresh selection epoch.    *)
(* Losing the provider, another assignment, another revision or a failure  *)
(* seals the activation's effects; a later teardown either completes, or   *)
(* stays blocked on a cleanup that failed until its owner abandons it.     *)
(* Every call that presents an epoch may present any epoch ever made.      *)
(*                                                                         *)
(* A revision requires the one service of the instance or none; its        *)
(* definition, and the identity of the slot, are constants of its name.    *)
(* The state Failed is left as soon as it is entered and has no value.     *)
(***************************************************************************)
EXTENDS Integers

CONSTANTS
    Revisions,       \* component revisions
    Requiring,       \* those that require the service
    Providers,       \* providers of the service
    NoProvider,      \* the service is not assigned
    MaxGeneration,   \* bound on desired generations
    MaxEpoch         \* bound on selection epochs

ASSUME SlotAssumption ==
    /\ Requiring \subseteq Revisions
    /\ NoProvider \notin Providers
    /\ MaxGeneration \in Nat
    /\ MaxEpoch \in Nat

VARIABLES
    desired,         \* the newest snapshot
    mounted,         \* the mounted component
    available,       \* providers the registry lists
    lastEpoch        \* the newest selection epoch

slotVars == <<desired, mounted, available, lastEpoch>>

Epochs == 1..lastEpoch
Unmounted == [state |-> "absent"]

Snapshots ==
    [want : {"enabled"}, gen : 1..MaxGeneration, rev : Revisions, assign : Providers \cup {NoProvider}]
    \cup [want : {"disabled"}, gen : 1..MaxGeneration, rev : Revisions]
    \cup [want : {"removed"}, gen : 1..MaxGeneration]

IsMounted == mounted.state # "absent"
Live(m) == m.state \in {"starting", "active"}

\* validate_assignment_keys: only a declared requirement is assigned.
KeysValid(rev, assign) == assign = NoProvider \/ rev \in Requiring

\* resolve_assignments is Ready.
Ready(rev, assign) == rev \in Requiring => assign \in available

\* active_assignments: the mounted revision is the enabled one.
ActiveRevision == IsMounted /\ desired.want = "enabled" /\ desired.rev = mounted.rev

\* require_epoch: the epoch is that of the activation that owns resources.
Current(e) == IsMounted /\ mounted.state # "pending" /\ mounted.epoch = e

-----------------------------------------------------------------------------
(* What becomes of the component instance *)

Pending(rev) == [state |-> "pending", rev |-> rev]

\* begin_start: under a fresh epoch.
Starting(rev, assign) ==
    [state |-> "starting", rev |-> rev, epoch |-> lastEpoch + 1, assign |-> assign,
     effects |-> FALSE]

Activated(m) == [m EXCEPT !.state = "active"]

\* begin_stop: the effects are sealed in the same call.
Stopping(m, target) ==
    [state |-> "stopping", rev |-> m.rev, epoch |-> m.epoch, assign |-> m.assign,
     effects |-> m.effects, target |-> target, blocked |-> FALSE]

\* complete_stop: the stable state the stop was for.
Stopped(m) == IF m.target = "pending" THEN Pending(m.rev) ELSE [state |-> "removed"]

-----------------------------------------------------------------------------
(* What reconciliation makes of the mounted component *)

\* reconcile_pending
Started(rev, assign) ==
    IF KeysValid(rev, assign) /\ Ready(rev, assign) THEN Starting(rev, assign)
    ELSE Pending(rev)

\* reconcile of the component that is mounted already.
Reconciled(m, assign) ==
    CASE m.state = "pending" -> Started(m.rev, assign)
      [] Live(m) /\ KeysValid(m.rev, assign) /\ (assign # m.assign \/ ~Ready(m.rev, assign)) ->
            Stopping(m, "pending")
      [] OTHER -> m

\* Mutant: only a component that holds an activation is stopped.
StopRequestedIfLive(m) == IF Live(m) THEN Stopping(m, "removed") ELSE m

\* request_stop with target Removed; a stop that is under way keeps its target.
StopRequested(m) ==
    CASE m.state = "pending" -> Unmounted
      [] Live(m) -> Stopping(m, "removed")
      [] OTHER -> m

Converged(d) ==
    CASE ~IsMounted -> IF d.want = "enabled" /\ KeysValid(d.rev, d.assign)
                       THEN Started(d.rev, d.assign) ELSE Unmounted
      [] IsMounted /\ d.want = "enabled" /\ d.rev = mounted.rev -> Reconciled(mounted, d.assign)
      [] OTHER -> StopRequested(mounted)

\* accept_desired: the same snapshot again, or a newer one.
Accepted(d) ==
    \/ d = desired
    \/ /\ d.gen > desired.gen
       /\ d.want = "enabled" /\ (IsMounted => d.rev = mounted.rev) => KeysValid(d.rev, d.assign)

Reconcile(d) ==
    /\ Accepted(d)
    /\ desired' = d
    /\ mounted' = Converged(d)
    /\ lastEpoch' = IF mounted'.state = "starting" /\ (IsMounted => mounted.state = "pending")
                    THEN lastEpoch + 1 ELSE lastEpoch
    /\ lastEpoch' <= MaxEpoch
    /\ UNCHANGED available

-----------------------------------------------------------------------------
(* Calls that present an epoch *)

\* Mutant: a start completes on the assignment it froze, whatever became of it.
StartOutcomeFrozen(m) == Activated(m)

\* complete_start: the frozen assignment must still be desired and available.
StartOutcome(m) ==
    IF desired.assign # m.assign \/ ~Ready(m.rev, m.assign) THEN Stopping(m, "pending")
    ELSE Activated(m)

CompleteStart(e) ==
    /\ ActiveRevision
    /\ mounted.state = "starting"
    /\ Current(e)
    /\ mounted' = StartOutcome(mounted)
    /\ UNCHANGED <<desired, available, lastEpoch>>

FailActivation(e) ==
    /\ ActiveRevision
    /\ Current(e)
    /\ Live(mounted)
    /\ mounted' = Stopping(mounted, "pending")
    /\ UNCHANGED <<desired, available, lastEpoch>>

\* defer_sync, defer_async, provide: something to undo was admitted.
AdmitEffect(e) ==
    /\ ActiveRevision
    /\ Live(mounted)
    /\ Current(e)
    /\ mounted' = [mounted EXCEPT !.effects = TRUE]
    /\ UNCHANGED <<desired, available, lastEpoch>>

\* record_completion: a removed component leaves the slot.
Recorded(m) == IF m.state = "removed" THEN Unmounted ELSE m

\* Mutant: a teardown that failed completes like a clean one.
TornDownAnyhow(m, clean) == Stopped(m)

TornDown(m, clean) == IF clean THEN Stopped(m) ELSE [m EXCEPT !.blocked = TRUE]

\* finish_stop, once the close of the effects is ready with its report.  The
\* report of a closed scope does not change.
FinishStop(e, clean) ==
    /\ IsMounted
    /\ mounted.state = "stopping"
    /\ Current(e)
    /\ clean \/ mounted.effects
    /\ mounted.blocked => ~clean
    /\ mounted' = Recorded(TornDown(mounted, clean))
    /\ UNCHANGED <<desired, available, lastEpoch>>

AbandonFailedCleanup(e) ==
    /\ IsMounted
    /\ mounted.state = "stopping"
    /\ Current(e)
    /\ mounted.blocked
    /\ mounted' = Recorded(Stopped(mounted))
    /\ UNCHANGED <<desired, available, lastEpoch>>

\* Providers come and go without telling the slot.
ProvidersChange(S) ==
    /\ available' = S
    /\ S # available
    /\ UNCHANGED <<desired, mounted, lastEpoch>>

InitSlot ==
    /\ desired = [want |-> "removed", gen |-> 0]
    /\ mounted = Unmounted
    /\ available = {}
    /\ lastEpoch = 0
=============================================================================
