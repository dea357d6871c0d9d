----------------------------- MODULE EffectScope -----------------------------
(***************************************************************************)
(* Effect scopes and their activity gates (crates/yah-compose/src/         *)
(* effect_scope.rs, effect_scope/activity.rs).                             *)
(*                                                                         *)
(* An activation owns a tree of scopes.  A scope holds the cleanups it was *)
(* given, its children among them, and a gate that every synchronous call  *)
(* borrowing from the subtree passes, from the root of the tree down to    *)
(* the scope the call is about.  Closing a scope revokes its gate,         *)
(* requests cancellation, waits for the calls that hold the gate, and then *)
(* undoes the cleanups, the last admitted first; a poll may stop anywhere  *)
(* and a later one goes on from there.                                     *)
(*                                                                         *)
(* The counter of a gate is the number of callers that hold it.  Labels,   *)
(* incarnations and outcomes are left out: a cleanup that fails or panics   *)
(* is recorded in the report and the teardown goes on.                      *)
(***************************************************************************)
EXTENDS Integers, Sequences, FiniteSets

CONSTANTS
    Scopes,      \* effect scopes of all activations
    Above,       \* Above[s]: s and its ancestors
    Callers,     \* threads that call through handles
    Effects,     \* cleanups that may be registered
    MaxCalls     \* ACTIVE_CALLS, the capacity of a gate

ASSUME LineageAssumption ==
    /\ Above \in [Scopes -> SUBSET Scopes]
    /\ \A s \in Scopes : s \in Above[s] /\ \A g \in Above[s] : Above[g] \subseteq Above[s]
ASSUME CallsAssumption == MaxCalls \in Nat \ {0}

VARIABLES
    scopes,      \* state, entries, current and report of every scope
    revoked,     \* scopes whose gate has its REVOKED bit
    drained,     \* scopes whose zero-count latch is set
    held         \* the gates each caller is counted in

scopeVars == <<scopes, revoked, drained, held>>

None == [kind |-> "none"]
Sync(e) == [kind |-> "sync", of |-> e]
Async(e) == [kind |-> "async", of |-> e]
Child(s) == [kind |-> "child", of |-> s]

Blank(state) == [state |-> state, entries |-> <<>>, current |-> None, steps |-> <<>>]

IsRoot(s) == Above[s] = {s}
IsParent(p, s) == p # s /\ Above[s] = Above[p] \cup {s}
Subtree(s) == {d \in Scopes : s \in Above[d]}

\* scope_mut: the path from the root down to s is open.
PathOpen(s) == \A g \in Above[s] : scopes[g].state = "open"

Holders(g) == {t \in Callers : g \in held[t]}
IsOpen(s) == Above[s] \cap revoked = {}
Registered(e) ==
    \E s \in Scopes : \E k \in {"sync", "async"} :
        \/ \E i \in DOMAIN scopes[s].entries : scopes[s].entries[i] = [kind |-> k, of |-> e]
        \/ scopes[s].current = [kind |-> k, of |-> e]
        \/ \E i \in DOMAIN scopes[s].steps : scopes[s].steps[i] = [kind |-> k, of |-> e]

-----------------------------------------------------------------------------
(* Admission *)

New(s) ==
    /\ IsRoot(s)
    /\ scopes[s].state = "absent"
    /\ scopes' = [scopes EXCEPT ![s] = Blank("open")]
    /\ UNCHANGED <<revoked, drained, held>>

\* The child's place in the teardown is the place of its creation.
NewChild(p, s) ==
    /\ IsParent(p, s)
    /\ scopes[s].state = "absent"
    /\ PathOpen(p)
    /\ scopes' = [scopes EXCEPT ![s] = Blank("open"), ![p].entries = Append(@, Child(s))]
    /\ UNCHANGED <<revoked, drained, held>>

Defer(s, entry) ==
    /\ PathOpen(s)
    /\ ~Registered(entry.of)
    /\ scopes' = [scopes EXCEPT ![s].entries = Append(@, entry)]
    /\ UNCHANGED <<revoked, drained, held>>

\* admit_local: one compare-and-swap of the counter.
AdmitLocal(t, g) ==
    /\ g \notin revoked
    /\ Cardinality(Holders(g)) < MaxCalls
    /\ held' = [held EXCEPT ![t] = @ \cup {g}]
    /\ UNCHANGED <<scopes, revoked, drained>>

AdmissionRefused(g) == g \in revoked \/ Cardinality(Holders(g)) >= MaxCalls

\* Mutant: leaving a revoked gate does not set its latch.
ReleaseUnlatched(t, g) ==
    /\ held' = [held EXCEPT ![t] = @ \ {g}]
    /\ UNCHANGED <<scopes, revoked, drained>>

\* GateAdmission::drop: the last one out of a revoked gate sets the latch.
Release(t, g) ==
    /\ held' = [held EXCEPT ![t] = @ \ {g}]
    /\ drained' = IF g \in revoked /\ Holders(g) = {t} THEN drained \cup {g} ELSE drained
    /\ UNCHANGED <<scopes, revoked>>

-----------------------------------------------------------------------------
(* Closing *)

\* Mutant: the latch is set although calls hold the gate.
RevokeLatched(S) ==
    /\ revoked' = revoked \cup S
    /\ drained' = drained \cup S

\* ActivityGate::revoke of every gate in S.  The token of the scope is cancelled
\* right after, and whoever reads a token reads the gate as well, so that the
\* gate stands for both.
Revoke(S) ==
    /\ revoked' = revoked \cup S
    /\ drained' = drained \cup {g \in S : Holders(g) = {}}

\* close: admission is sealed before the first poll.
BeginClose(s) ==
    /\ PathOpen(s)
    /\ scopes' = [scopes EXCEPT ![s].state = "closing"]
    /\ Revoke({s})
    /\ UNCHANGED held

\* Whoever owns s can poll it: the scopes above are open, or the cleanup in
\* progress of each closing one is the child on the way to s.
Driven(s) ==
    \A c \in Above[s] : \A p \in Scopes :
        IsParent(p, c) => scopes[p].state = "open" \/ scopes[p].current = Child(c)

\* poll_quiescence: nothing is undone before the latch is set.
Cleans(s) ==
    /\ scopes[s].state = "closing"
    /\ Driven(s)
    /\ s \in drained

LastEntry(s) == scopes[s].entries[Len(scopes[s].entries)]
Popped(s) == SubSeq(scopes[s].entries, 1, Len(scopes[s].entries) - 1)
Idle(s) == scopes[s].current = None
Pops(s, kind) == Idle(s) /\ scopes[s].entries # <<>> /\ LastEntry(s).kind = kind

\* Mutant: the oldest entry is undone first.
RunEntryOldest(s) ==
    /\ Cleans(s)
    /\ Idle(s) /\ scopes[s].entries # <<>> /\ Head(scopes[s].entries).kind \in {"sync", "async"}
    /\ scopes' = [scopes EXCEPT ![s] = [scopes[s] EXCEPT !.entries = Tail(@), !.steps = Append(@, Head(scopes[s].entries))]]
    /\ UNCHANGED <<revoked, drained, held>>

\* A synchronous callback, or an asynchronous one that panics when invoked,
\* runs to its outcome in one step.
RunEntry(s) ==
    /\ Cleans(s)
    /\ Pops(s, "sync") \/ Pops(s, "async")
    /\ scopes' = [scopes EXCEPT ![s] = [scopes[s] EXCEPT !.entries = Popped(s), !.steps = Append(@, LastEntry(s))]]
    /\ UNCHANGED <<revoked, drained, held>>

\* The future of an asynchronous callback; it outlives the poll that made it.
StartAsync(s) ==
    /\ Cleans(s)
    /\ Pops(s, "async")
    /\ scopes' = [scopes EXCEPT ![s] = [scopes[s] EXCEPT !.entries = Popped(s), !.current = LastEntry(s)]]
    /\ UNCHANGED <<revoked, drained, held>>

FinishAsync(s) ==
    /\ Cleans(s)
    /\ scopes[s].current.kind = "async"
    /\ scopes' = [scopes EXCEPT ![s] = [scopes[s] EXCEPT !.current = None, !.steps = Append(@, scopes[s].current)]]
    /\ UNCHANGED <<revoked, drained, held>>

\* A child that is still open is sealed when its parent reaches it.
StartChild(s) ==
    /\ Cleans(s)
    /\ Pops(s, "child")
    /\ LET c == LastEntry(s).of
           opened == scopes[c].state = "open"
       IN  /\ scopes' = [d \in Scopes |->
                  IF d = s THEN [scopes[d] EXCEPT !.entries = Popped(s), !.current = Child(c)]
                  ELSE IF d = c /\ opened THEN [scopes[d] EXCEPT !.state = "closing"]
                  ELSE scopes[d]]
           /\ IF opened THEN Revoke({c}) ELSE UNCHANGED <<revoked, drained>>
    /\ UNCHANGED held

FinishChild(s) ==
    /\ Cleans(s)
    /\ scopes[s].current.kind = "child"
    /\ LET c == scopes[s].current.of
       IN  /\ scopes[c].state = "closed"
           /\ scopes' = [scopes EXCEPT ![s] = [scopes[s] EXCEPT !.current = None, !.steps = Append(@, Child(c))]]
    /\ UNCHANGED <<revoked, drained, held>>

FinishClose(s) ==
    /\ Cleans(s)
    /\ Idle(s)
    /\ scopes[s].entries = <<>>
    /\ scopes' = [scopes EXCEPT ![s].state = "closed"]
    /\ UNCHANGED <<revoked, drained, held>>

\* Dropping the owner of a tree seals it and abandons what was not undone.
DropScope(s) ==
    LET tree == {d \in Subtree(s) : scopes[d].state # "absent"}
    IN  /\ IsRoot(s)
        /\ scopes[s].state \in {"open", "closing"}
        /\ scopes' = [d \in Scopes |-> IF d \in tree THEN [scopes[d] EXCEPT !.state = "dropped"]
                                       ELSE scopes[d]]
        /\ Revoke(tree)
        /\ UNCHANGED held

InitScopes ==
    /\ scopes = [s \in Scopes |-> Blank("absent")]
    /\ revoked = {}
    /\ drained = {}
    /\ held = [t \in Callers |-> {}]
=============================================================================
