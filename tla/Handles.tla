------------------------------- MODULE Handles -------------------------------
(***************************************************************************)
(* What an activation shares and what it borrows: the service registry and *)
(* its handles (crates/yah-compose/src/service/), the capability broker    *)
(* and its handles (crates/yah-plugin-host/src/capability/), on top of the *)
(* effect scopes whose gates both kinds of call pass.                      *)
(*                                                                         *)
(* A service is published by an active owner in one of its scopes, and the *)
(* withdrawal is a cleanup of that scope.  A call through a service handle *)
(* passes the gates above the provider, then those above the consumer; one *)
(* through a capability handle passes the gate of the registration, then   *)
(* those above the activation.  Every compare-and-swap, every check and    *)
(* every release of a call is a step of its own.                           *)
(*                                                                         *)
(* Contracts, labels and activation identities are left out: an instance   *)
(* has one contract per service, and the scopes that exist belong to       *)
(* activations that are Active or Starting as the operations demand.       *)
(***************************************************************************)
EXTENDS EffectScope

CONSTANTS
    Services,        \* provider registrations of the service registry
    Grants,          \* provider registrations of the capability broker
    Place,           \* Place[s]: the composition scope of s's component
    PlacesAbove,     \* PlacesAbove[x]: x and the places it can see
    Homes,           \* scopes that publish services
    Borrowers,       \* scopes that borrow services and capabilities
    NoGrant          \* no registration

ASSUME RegistrationsAssumption == Services \cap Grants = {} /\ NoGrant \notin Grants

VARIABLES
    service,         \* provider records of the registry
    registry,        \* the registry was not dropped
    grant,           \* registrations of the broker and their guards
    active,          \* the registration that answers for the capability
    broker,          \* the broker was not dropped
    prepared,        \* bindings given to an activation at its preparation
    bound,           \* handles that were handed out
    call             \* the call each thread is in

handleVars == <<service, registry, grant, active, broker, prepared, bound, call>>
vars == <<scopeVars, handleVars>>

\* is_visible_from: the owner's place is the consumer's or above it.
Visible(owner, consumer) == Place[owner] \in PlacesAbove[Place[consumer]]

-----------------------------------------------------------------------------
(* The service registry *)

\* provide: the withdrawal is registered first, then the record published.
Provide(p, s) ==
    /\ registry
    /\ service[p].state = "unused"
    /\ Defer(s, Sync(p))
    /\ service' = [service EXCEPT ![p] = [state |-> "published", in |-> s]]
    /\ UNCHANGED <<registry, grant, active, broker, prepared, bound, call>>

\* check_provider: its gate was not closed by a withdrawal, nor its scopes.
ServiceAvailable(p) ==
    /\ service[p].state = "published"
    /\ IsOpen(service[p].in)

Bind(p, c) ==
    /\ registry
    /\ scopes[c].state = "open"
    /\ ServiceAvailable(p)
    /\ Visible(service[p].in, c)
    /\ [to |-> p, by |-> c] \notin bound
    /\ bound' = bound \cup {[to |-> p, by |-> c]}
    /\ UNCHANGED <<scopeVars, service, registry, grant, active, broker, prepared, call>>

Withdrawn(S) ==
    [p \in Services |-> IF p \in S /\ service[p].state = "published"
                        THEN [service[p] EXCEPT !.state = "withdrawn"] ELSE service[p]]

\* Running a cleanup runs the withdrawal if it is one.
RunCleanup(s) ==
    /\ RunEntry(s)
    /\ service' = IF LastEntry(s).of \in Services THEN Withdrawn({LastEntry(s).of}) ELSE service
    /\ UNCHANGED <<registry, grant, active, broker, prepared, bound, call>>

\* Dropping the registry revokes every record.
DropRegistry ==
    /\ registry
    /\ registry' = FALSE
    /\ service' = Withdrawn(Services)
    /\ UNCHANGED <<scopeVars, grant, active, broker, prepared, bound, call>>

-----------------------------------------------------------------------------
(* The capability broker.  The owner of a registration may withdraw it and  *)
(* then drop it, or only drop it: each time its gate is revoked first and    *)
(* its entry removed afterwards, under the lock of the broker.               *)

Register(r) ==
    /\ broker
    /\ grant[r].owner = "unused"
    /\ active = NoGrant
    /\ active' = r
    /\ grant' = [grant EXCEPT ![r] = [owner |-> "holds", open |-> TRUE, listed |-> TRUE]]
    /\ UNCHANGED <<scopeVars, service, registry, broker, prepared, bound, call>>

\* withdraw, or the drop of a registration that was not withdrawn.
RevokeGrant(r, next) ==
    /\ grant[r].owner = "holds"
    /\ grant' = [grant EXCEPT ![r] = [grant[r] EXCEPT !.open = FALSE, !.owner = next]]
    /\ UNCHANGED <<scopeVars, service, registry, active, broker, prepared, bound, call>>

\* Mutant: an entry that is gone already still clears the active registration.
ActiveAfterAnyRemove(r) == IF broker THEN NoGrant ELSE active

\* remove: an absent entry changes nothing; the active one is cleared if it is r.
ActiveAfterRemove(r) == IF broker /\ grant[r].listed /\ active = r THEN NoGrant ELSE active

RemoveGrant(r) ==
    /\ grant[r].owner \in {"withdrawing", "dropping"}
    /\ active' = ActiveAfterRemove(r)
    /\ grant' = [grant EXCEPT ![r] =
                    [grant[r] EXCEPT !.listed = FALSE,
                                     !.owner = IF @ = "withdrawing" THEN "dropping" ELSE "gone"]]
    /\ UNCHANGED <<scopeVars, service, registry, broker, prepared, bound, call>>

DropBroker ==
    /\ broker
    /\ broker' = FALSE
    /\ active' = NoGrant
    /\ grant' = [r \in Grants |-> [grant[r] EXCEPT !.open = FALSE, !.listed = FALSE]]
    /\ UNCHANGED <<scopeVars, service, registry, prepared, bound, call>>

\* prepare_bindings: the grants of the revision name a listed, open registration.
PrepareBinding(r, a) ==
    /\ broker /\ grant[r].listed /\ grant[r].open
    /\ scopes[a].state = "open"
    /\ [to |-> r, by |-> a] \notin prepared
    /\ prepared' = prepared \cup {[to |-> r, by |-> a]}
    /\ UNCHANGED <<scopeVars, service, registry, grant, active, broker, bound, call>>

\* PluginStartContext::handle.
Resolve(r, a) ==
    /\ [to |-> r, by |-> a] \in prepared \ bound
    /\ IsOpen(a)
    /\ broker /\ grant[r].listed /\ grant[r].open
    /\ bound' = bound \cup {[to |-> r, by |-> a]}
    /\ UNCHANGED <<scopeVars, service, registry, grant, active, broker, prepared, call>>

-----------------------------------------------------------------------------
(* A call: check, admit gate by gate, check again, run, release *)

Asleep == [pc |-> "idle"]

Lent(h) == IF h.to \in Services THEN Above[service[h.to].in] ELSE {}
Needs(h) == Lent(h) \cup Above[h.by]

Available(h) ==
    /\ IsOpen(h.by)
    /\ IF h.to \in Services THEN ServiceAvailable(h.to) ELSE grant[h.to].open

\* A gate admits after those above it, the consumer's after the provider's.
NextGate(h, have, g) ==
    /\ g \in Needs(h) \ have
    /\ IF g \in Lent(h) THEN Above[g] \ {g} \subseteq have
                        ELSE Lent(h) \cup (Above[g] \ {g}) \subseteq have

\* The gate of a capability registration counts, but nothing waits for it:
\* passing it is the same check once more.
Call(t, h) ==
    /\ h \in bound
    /\ call[t] = Asleep
    /\ Available(h)
    /\ call' = [call EXCEPT ![t] = [pc |-> "admit", on |-> h]]
    /\ UNCHANGED <<scopeVars, service, registry, grant, active, broker, prepared, bound>>

Admit(t, g) ==
    /\ call[t].pc = "admit"
    /\ NextGate(call[t].on, held[t], g)
    /\ call[t].on.to \in Grants /\ held[t] = {} => grant[call[t].on.to].open
    /\ AdmitLocal(t, g)
    /\ UNCHANGED handleVars

Leaving(t) == call' = [call EXCEPT ![t] = IF held[t] = {} THEN Asleep ELSE [@ EXCEPT !.pc = "leave"]]

Refused(t) ==
    /\ call[t].pc = "admit"
    /\ \/ \E g \in Scopes : NextGate(call[t].on, held[t], g) /\ AdmissionRefused(g)
       \/ call[t].on.to \in Grants /\ held[t] = {} /\ ~grant[call[t].on.to].open
    /\ Leaving(t)
    /\ UNCHANGED <<scopeVars, service, registry, grant, active, broker, prepared, bound>>

\* The provider is upgraded and everything checked again behind the gates.
Enter(t) ==
    /\ call[t].pc = "admit"
    /\ Needs(call[t].on) \subseteq held[t]
    /\ IF Available(call[t].on) THEN call' = [call EXCEPT ![t].pc = "run"] ELSE Leaving(t)
    /\ UNCHANGED <<scopeVars, service, registry, grant, active, broker, prepared, bound>>

\* The borrowed operation returns, whatever happened to its scopes meanwhile.
Return(t) ==
    /\ call[t].pc = "run"
    /\ Leaving(t)
    /\ UNCHANGED <<scopeVars, service, registry, grant, active, broker, prepared, bound>>

\* The guards of the consumer go before those of the provider, root first.
Leave(t, g) ==
    /\ call[t].pc = "leave"
    /\ g \in held[t]
    /\ Above[g] \cap held[t] = {g}
    /\ g \in Lent(call[t].on) => held[t] \subseteq Lent(call[t].on)
    /\ Release(t, g)
    /\ call' = IF held[t] = {g} THEN [call EXCEPT ![t] = Asleep] ELSE call
    /\ UNCHANGED <<service, registry, grant, active, broker, prepared, bound>>

-----------------------------------------------------------------------------

Init ==
    /\ InitScopes
    /\ service = [p \in Services |-> [state |-> "unused"]]
    /\ registry \in BOOLEAN
    /\ grant = [r \in Grants |-> [owner |-> "unused", open |-> FALSE, listed |-> FALSE]]
    /\ active = NoGrant
    /\ broker \in BOOLEAN
    /\ prepared = {}
    /\ bound = {}
    /\ call = [t \in Callers |-> Asleep]

\* The steps of a poll of a closing scope.
Poll(s) ==
    \/ RunCleanup(s)
    \/ StartAsync(s) /\ UNCHANGED handleVars
    \/ FinishAsync(s) /\ UNCHANGED handleVars
    \/ StartChild(s) /\ UNCHANGED handleVars
    \/ FinishChild(s) /\ UNCHANGED handleVars
    \/ FinishClose(s) /\ UNCHANGED handleVars

\* The steps of a call that has begun.
Proceed(t) ==
    \/ \E g \in Scopes : Admit(t, g)
    \/ Refused(t)
    \/ Enter(t)
    \/ Return(t)
    \/ \E g \in Scopes : Leave(t, g)

Next ==
    \/ \E s \in Scopes : New(s) /\ UNCHANGED handleVars
    \/ \E p, s \in Scopes : NewChild(p, s) /\ UNCHANGED handleVars
    \/ \E s \in Borrowers, e \in Effects : Defer(s, Async(e)) /\ UNCHANGED handleVars
    \/ \E s \in Scopes : BeginClose(s) /\ UNCHANGED handleVars
    \/ \E s \in Scopes : DropScope(s) /\ UNCHANGED handleVars
    \/ \E s \in Scopes : Poll(s)
    \/ \E p \in Services, s \in Homes : Provide(p, s)
    \/ \E p \in Services, c \in Borrowers : Bind(p, c)
    \/ DropRegistry
    \/ \E r \in Grants : Register(r) \/ RemoveGrant(r)
    \/ \E r \in Grants, next \in {"withdrawing", "dropping"} : RevokeGrant(r, next)
    \/ DropBroker
    \/ \E r \in Grants, a \in Borrowers : PrepareBinding(r, a) \/ Resolve(r, a)
    \/ \E t \in Callers, h \in bound : Call(t, h)
    \/ \E t \in Callers : Proceed(t)

Spec == Init /\ [][Next]_vars

-----------------------------------------------------------------------------
(* Properties *)

\* The teardown of s has begun: something was undone or is being undone.
Undoing(s) == scopes[s].steps # <<>> \/ scopes[s].current # None \/ scopes[s].state = "closed"

\* No cleanup of a scope starts, and no scope is closed, while an operation
\* borrowed from its subtree is still running (EffectScope::close and
\* ServiceHandle::bind: "drains calls admitted through the handle before
\* either subtree cleans up").
QuietBeforeCleanup ==
    \A s \in Scopes, t \in Callers :
        Undoing(s) /\ call[t].pc = "run" => s \notin Needs(call[t].on)

\* What a scope still has to undo, is undoing and has undone, as one sequence.
Admitted(s) ==
    scopes[s].entries
    \o (IF Idle(s) THEN <<>> ELSE <<scopes[s].current>>)
    \o [i \in DOMAIN scopes[s].steps |-> scopes[s].steps[Len(scopes[s].steps) + 1 - i]]

\* Every cleanup is undone at most once, after all that were admitted later,
\* whichever polls the teardown is spread over: the admissions of a scope, as
\* its teardown shows them, change only by an open scope admitting one more
\* (EffectScope::poll_close).
UndoneInReverse ==
    [][\A s \in Scopes :
          Admitted(s)' # Admitted(s) =>
             /\ scopes[s].state = "open"
             /\ \E i \in {Len(Admitted(s)) + 1} :
                  /\ Len(Admitted(s)') = i
                  /\ SubSeq(Admitted(s)', 1, i - 1) = Admitted(s)]_vars

\* The broker lists one registration of the capability at most, and it is the
\* one that answers for it, although every owner removes its entry twice and
\* in two steps (CapabilityRegistration::withdraw and Drop, BrokerCore::remove).
ListedIsActive == \A r \in Grants : grant[r].listed <=> active = r

\* A teardown waits for calls only: once no call holds a gate of the subtree, a
\* closing scope that somebody can poll makes progress, itself or in the child
\* it is waiting for.  The waiter is woken by a latch that the last call, or the
\* revocation, must not forget to set (ActivityGate::revoke, GateAdmission::drop).
CloseNeverStalls ==
    \A s \in Scopes :
        /\ scopes[s].state = "closing"
        /\ Driven(s)
        /\ \A t \in Callers : held[t] \cap Subtree(s) = {}
        => \E d \in Subtree(s) : ENABLED Poll(d)
=============================================================================
