---------------------------- MODULE Cancellation ----------------------------
(***************************************************************************)
(* Cancellation requests and the closing of runs                           *)
(* (crates/yah-kernel/src/cancel.rs, funnel/cancel.rs,                     *)
(* funnel/cancel_rules.rs, funnel/run_rules.rs, store/recovery.rs).        *)
(*                                                                         *)
(* A request names a root and freezes, leaf first, the members below it    *)
(* that the caller proposes.  Its commit already bars everything new below *)
(* the root (Attempts.tla, EffectLedger.tla).  The daemon then signals the *)
(* members one by one and records for each, once, what it observed; a      *)
(* member that may have touched the world is parked in the same            *)
(* transaction.  A run may close with success only when its effects are    *)
(* resolved and its requests are settled.                                  *)
(***************************************************************************)
EXTENDS Integers, FiniteSets, Sequences

CONSTANTS Runs, WorkItems, Units, Holders, MaxCount, MaxAuthority,
          Keys, Targets, Specs, MaxVersion,
          Outcomes,     \* what the daemon may observe of a signalled member
          MaxMembers,   \* MAX_SCOPE_MEMBERS
          MaxRequests   \* bound on the requests of one behaviour

VARIABLES authority, up, workItems, runs, units, attempts, leases, cancelled, heard,
    effects, cancelledEffects, settleRows, permits, acted, world, landed, reported,
    requests,      \* the request rows, in the order of their commits
    runStatus      \* status of each run that was opened

Ledger == INSTANCE EffectLedger

ASSUME OutcomesAssumption ==
    Outcomes \subseteq
        {"observed_stopped", "already_terminal", "detached_declined", "unresponsive"}
ASSUME MembersAssumption == MaxMembers \in Nat
ASSUME CountAssumption == MaxCount \in Nat

graphVars == <<authority, up, workItems, runs, units, attempts, leases, cancelled, heard>>
ledgerVars == <<effects, cancelledEffects, settleRows, permits, acted, world, landed, reported>>
cancelVars == <<requests, runStatus>>
vars == <<graphVars, ledgerVars, cancelVars>>

-----------------------------------------------------------------------------
(***************************************************************************)
(* The tree below a root.                                                  *)
(***************************************************************************)
EffectRoot(k) == [kind |-> "effect_intent", key |-> k]

Roots == Ledger!Graph!Roots \cup {EffectRoot(k) : k \in Keys}

Depth(m) ==
    CASE m.kind = "run" -> 0
      [] m.kind = "execution_unit" -> 1
      [] m.kind = "attempt" -> 2
      [] m.kind = "effect_intent" -> 3

Exists(m) ==
    IF m.kind = "effect_intent" THEN Ledger!Prepared(m.key) ELSE Ledger!Graph!RootExists(m)

\* member_link: the unit and the run that own m.
UnitOf(m) == IF m.kind = "effect_intent" THEN effects[m.key].unit ELSE m.unit
RunOf(m) == IF m.kind = "run" THEN m.run ELSE units[UnitOf(m)].run

Under(root, m) ==
    /\ Depth(root) < Depth(m)
    /\ Exists(m)
    /\ CASE root.kind = "run" -> RunOf(m) = root.run
         [] root.kind = "execution_unit" -> UnitOf(m) = root.unit
         [] root.kind = "attempt" ->
                UnitOf(m) = root.unit /\ effects[m.key].epoch = root.epoch

\* cancel_root_terminal: a unit has no terminal proof.
Terminal(m) ==
    CASE m.kind = "run" -> runStatus[m.run] # "open"
      [] m.kind = "execution_unit" -> FALSE
      [] m.kind = "attempt" ->
            \E a \in attempts :
                a.unit = m.unit /\ a.epoch = m.epoch /\ a.status = "superseded"
      [] m.kind = "effect_intent" -> effects[m.key].terminal # Ledger!None

\* CancelScope::freeze: the members as a sequence, leaves first.
Orders(S) ==
    {s \in [1..Cardinality(S) -> S] : \A m \in S : \E i \in DOMAIN s : s[i] = m}

Freeze(S) ==
    CHOOSE s \in Orders(S) :
        \A i, j \in DOMAIN s : i < j => Depth(s[i]) >= Depth(s[j])

Members(q) == {q.scope[i] : i \in DOMAIN q.scope}
Delivered(q) == DOMAIN q.rows

(***************************************************************************)
(* The status is a function of the frozen scope and of the rows so far.    *)
(* An unresponsive member is not discharged: a signal proves nothing.      *)
(***************************************************************************)
Discharged(outcome) == outcome # "unresponsive"

\* Mutant: a row for every member settles the request.
StatusAfterAnyOutcome(members, rows) ==
    IF members = {} THEN "settled"
    ELSE IF DOMAIN rows = {} THEN "requested"
    ELSE IF DOMAIN rows # members THEN "delivering" ELSE "settled"

StatusAfter(members, rows) ==
    IF members = {} THEN "settled"
    ELSE IF DOMAIN rows = {} THEN "requested"
    ELSE IF DOMAIN rows # members THEN "delivering"
    ELSE IF \A m \in members : Discharged(rows[m]) THEN "settled" ELSE "observed_partial"

-----------------------------------------------------------------------------
(***************************************************************************)
(* cancel.request.  The caller proposes the members; all of them must be   *)
(* the root or live under it, but not all that live there need be named.   *)
(* The policy matters only to an empty scope, which is a no-op on a root   *)
(* that ended; the row keeps it for nothing else.                          *)
(*                                                                         *)
(* Every row is written together with its event in the journal, and events *)
(* are only appended.  So an event precedes a request when its row was     *)
(* there at the request: the row keeps, of all earlier events, those that  *)
(* recovery will look for.                                                 *)
(***************************************************************************)
Created(m) == <<"created", m>>
Ended(m) == <<"ended", m>>

\* run.opened, unit.admitted, unit.dispatched and effect.prepared; run.closed and
\* effect.settled.
Journal ==
    {Created(m) : m \in {n \in Roots : Exists(n)}}
    \cup {Ended(m) : m \in {n \in Roots : n.kind \in {"run", "effect_intent"} /\ Exists(n) /\ Terminal(n)}}

\* member_creation_proof, of the root and of every member.
CreationProofs(root, members) == {Created(m) : m \in members \cup {root}}

\* empty_root_terminal_proof: an attempt ended by the dispatch of the next one.
TerminalProofs(root, members) ==
    IF members # {} THEN {}
    ELSE IF root.kind = "attempt" THEN {Created([root EXCEPT !.epoch = @ + 1])}
    ELSE {Ended(root)}

Proofs(root, members) == CreationProofs(root, members) \cup TerminalProofs(root, members)

NoRows == [m \in {} |-> "none"]

RequestAccepted(root, policy, members) ==
    /\ Exists(root)
    /\ IsFiniteSet(members) /\ Cardinality(members) <= MaxMembers
    /\ \A m \in members \ {root} : Under(root, m)
    /\ members = {} => policy = "root_only" /\ Terminal(root)

CommitRoot(root) ==
    IF root.kind = "effect_intent"
    THEN Ledger!CancelEffect(root.key)
    ELSE Ledger!Graph!CancelRequest(root) /\ UNCHANGED ledgerVars

CancelRequest(root, policy, members) ==
    /\ Len(requests) < MaxRequests
    /\ RequestAccepted(root, policy, members)
    /\ CommitRoot(root)
    /\ requests' = Append(requests,
            [root |-> root, scope |-> Freeze(members),
             policy |-> IF members = {} THEN policy ELSE "unread",
             history |-> Proofs(root, members) \cap Journal,
             status |-> StatusAfter(members, NoRows), version |-> 1, rows |-> NoRows,
             events |-> <<>>])
    /\ UNCHANGED runStatus

(***************************************************************************)
(* cancel.record_delivery.  The version of the request counts its rows, so *)
(* it also says which member is next.                                      *)
(***************************************************************************)
IsNext(q, m) == q.scope[q.version] = m

RowWritten(q, m, outcome) == [n \in Delivered(q) \cup {m} |-> IF n = m THEN outcome ELSE q.rows[n]]

\* Mutant: the last member but one is taken for the last.
StatusAdvancedEarly(q, rows) ==
    IF q.version + 1 = Len(q.scope) THEN StatusAfter(Members(q), rows) ELSE "delivering"

StatusAdvanced(q, rows) ==
    IF q.version = Len(q.scope) THEN StatusAfter(Members(q), rows) ELSE "delivering"

\* Mutant: an effect whose dispatch was not recorded yet is not parked.
ParkedDispatchedOnly(m) ==
    /\ m.kind = "effect_intent"
    /\ effects[m.key].state = "dispatched"

\* A member with dispatch evidence and no outcome is parked.
Parked(m) ==
    /\ m.kind = "effect_intent"
    /\ effects[m.key].state \in {"dispatching", "dispatched"}

RecordDelivery(i, m, outcome) ==
    LET q == requests[i]
        rows == RowWritten(q, m, outcome)
    IN  /\ up
        /\ m \in Members(q) \ Delivered(q)
        /\ IsNext(q, m)
        /\ IF Parked(m) THEN Ledger!EffectParkReconciling(m.key) ELSE UNCHANGED <<graphVars, ledgerVars>>
        /\ requests' = [requests EXCEPT ![i] =
                [q EXCEPT !.status = StatusAdvanced(q, rows), !.version = @ + 1, !.rows = rows,
                          !.events = Append(@, [member |-> m, status |-> StatusAdvanced(q, rows)])]]
        /\ UNCHANGED runStatus

-----------------------------------------------------------------------------
(***************************************************************************)
(* run.close.  Only success is barred: failure and cancelled are honest    *)
(* ends of a run with unresolved members.  A refusal leaves a receipt and  *)
(* nothing else; receipts are the subject of Funnel.tla.                   *)
(***************************************************************************)
EffectBlocks(k) == ~Ledger!InState(k, {"settled"}) \/ effects[k].terminal = "unknown"

EffectBlockers(r) ==
    {k \in Keys : Ledger!Prepared(k) /\ units[effects[k].unit].run = r /\ EffectBlocks(k)}

CancelBlockers(r) ==
    {i \in DOMAIN requests : requests[i].status # "settled" /\ RunOf(requests[i].root) = r}

SuccessBlocked(r) == EffectBlockers(r) # {} \/ CancelBlockers(r) # {}

RunOpen(r) ==
    /\ Ledger!Graph!RunOpen(r)
    /\ runStatus' = [runStatus EXCEPT ![r] = "open"]
    /\ UNCHANGED <<ledgerVars, requests>>

RunClose(r, outcome) ==
    /\ up
    /\ runStatus[r] = "open"
    /\ outcome = "closed_success" => ~SuccessBlocked(r)
    /\ runStatus' = [runStatus EXCEPT ![r] = outcome]
    /\ UNCHANGED <<graphVars, ledgerVars, requests>>

-----------------------------------------------------------------------------
(***************************************************************************)
(* Recovery replays the lifecycle of every request before the store opens. *)
(***************************************************************************)
\* The root is there, and ended if the scope is empty.
RootValid(q) ==
    /\ Exists(q.root)
    /\ q.scope = <<>> => q.policy = "root_only" /\ Terminal(q.root)

\* validate_cancel_scope_ownership
ScopeOwned(q) == \A m \in Members(q) \ {q.root} : Under(q.root, m)

\* The delivery events of the journal follow the frozen order, one for each row;
\* the last one carries the status of the request.
DeliveriesReplay(q) ==
    /\ \A i \in DOMAIN q.events :
        /\ i \in DOMAIN q.scope
        /\ q.events[i].member = q.scope[i]
        /\ q.events[i].status = IF i = Len(q.scope) THEN q.status ELSE "delivering"
    /\ {q.events[i].member : i \in DOMAIN q.events} = Delivered(q)

\* What the request rests on was in the journal before it.
HistoryValid(q) == Proofs(q.root, Members(q)) \subseteq q.history

LifecycleValid(q) ==
    /\ RootValid(q)
    /\ ScopeOwned(q)
    /\ DeliveriesReplay(q)
    /\ HistoryValid(q)
    /\ q.version = Cardinality(Delivered(q)) + 1
    /\ q.status = StatusAfter(Members(q), q.rows)

LifecyclesValid == \A i \in DOMAIN requests : LifecycleValid(requests[i])

Recover == LifecyclesValid /\ Ledger!Recover /\ UNCHANGED cancelVars

\* The commands of the lower layers that leave requests and run rows alone.
LedgerStep ==
    /\ \/ /\ Ledger!GraphStep
          /\ runs' = runs
       \/ Ledger!Holder
       \/ Ledger!Authority
       \/ Ledger!World
    /\ UNCHANGED cancelVars

Policies == {"attached_cascade", "root_only"}
RunOutcomes == {"closed_success", "closed_failure", "cancelled"}

Init ==
    /\ Ledger!Init
    /\ requests = <<>>
    /\ runStatus = [r \in Runs |-> "none"]

Cancel ==
    \E root \in Roots, policy \in Policies :
        \E members \in SUBSET {m \in Roots : m = root \/ Under(root, m)} :
            CancelRequest(root, policy, members)

Next ==
    \/ LedgerStep
    \/ Cancel
    \/ \E i \in DOMAIN requests, m \in Roots, outcome \in Outcomes :
            RecordDelivery(i, m, outcome)
    \/ \E r \in Runs : RunOpen(r)
    \/ \E r \in Runs, outcome \in RunOutcomes : RunClose(r, outcome)
    \/ Recover

Spec == Init /\ [][Next]_vars

-----------------------------------------------------------------------------
(***************************************************************************)
(* Properties.                                                             *)
(***************************************************************************)
Statuses == {"requested", "delivering", "observed_partial", "settled"}

\* Every request row has the shape of a CancelRequest with its deliveries, a
\* run has a status exactly when it was opened.
TypeOK ==
    /\ \A i \in DOMAIN requests : LET q == requests[i] IN
            /\ q.root \in Roots
            /\ Members(q) \subseteq Roots
            /\ q.status \in Statuses
            /\ q.version \in 1..(Len(q.scope) + 1)
            /\ Delivered(q) \subseteq Members(q)
            /\ \A m \in Delivered(q) : q.rows[m] \in Outcomes
    /\ runStatus \in [Runs -> RunOutcomes \cup {"none", "open"}]
    /\ \A r \in Runs : runStatus[r] # "none" <=> r \in runs

\* Store::recover accepts the lifecycle of every request this kernel wrote,
\* whatever happened to its root and members since (store/recovery.rs,
\* validate_all_cancellation_lifecycles).
RecoveryNeverRefuses == LifecyclesValid

\* The delivery of an effect that must not be retried is the end of its
\* dispatches: from then on it is unused, parked or settled, in whichever
\* state the delivery found it and whichever attempt asks (funnel/cancel.rs,
\* the park of 5.3, with the rule-4 arm of effect.dispatch).
DeliveredStaysStopped ==
    \A i \in DOMAIN requests : \A m \in Delivered(requests[i]) :
        m.kind = "effect_intent" /\ ~effects[m.key].spec.retry =>
            Ledger!InState(m.key, {"prepared", "reconciling", "settled"})

\* A run does not close with success over a member that a cancellation left
\* unresponsive (cancel_rules.rs, request_status_after; run_rules.rs,
\* cancel_blocks): such a request never settles, so the bar never lifts.
NoSuccessOverUnresponsive ==
    [][\A i \in DOMAIN requests : LET q == requests[i] IN
        (\E m \in Delivered(q) : q.rows[m] = "unresponsive")
        /\ runStatus[RunOf(q.root)] = "open"
            => runStatus'[RunOf(q.root)] # "closed_success"]_vars

\* Once the effects of a cancelled run are all settled with a known outcome,
\* they stay so and no new one appears, also after the run closed
\* (run_rules.rs, success_blockers, read with the admission gate): what a
\* success close of a cancelled run asserted stays true.
CancelledRunStaysResolved ==
    [][\A r \in Runs :
        Ledger!Graph!RunRoot(r) \in cancelled /\ EffectBlockers(r) = {}
            => EffectBlockers(r)' = {}]_vars

\* Requests, deliveries and closes use the ledger and the control graph only
\* through the commands those have.
ImplementsLedger == Ledger!Spec

=============================================================================
