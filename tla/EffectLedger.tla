---------------------------- MODULE EffectLedger ----------------------------
(***************************************************************************)
(* The ledger of external effects (crates/yah-kernel/src/funnel/effects.rs, *)
(* funnel/effect_rules.rs, effect/mod.rs).                                 *)
(*                                                                         *)
(* An effect is anything done outside the store: a tool run, a push, an    *)
(* artifact.  An agent prepares an intent, and may act on the world only   *)
(* after the commit of effect.dispatch; the daemon later settles what      *)
(* happened from the observations it has, or parks the effect until it     *)
(* has some.  The intent is keyed by the logical operation, not by the     *)
(* attempt, so it survives the attempt that prepared it.                   *)
(*                                                                         *)
(* The world is part of the model: a committed dispatch is a permit, and   *)
(* the agent that holds it may use it at any later time, also after it was *)
(* superseded, after a restart and after the effect was settled.           *)
(***************************************************************************)
EXTENDS Integers, FiniteSets

CONSTANTS Runs, WorkItems, Units, Holders, MaxCount, MaxAuthority,
          Keys,         \* operation keys of one work item
          Targets,      \* what an effect may touch
          Specs,        \* what an adapter may declare of an operation
          MaxVersion    \* the largest version of an effect

VARIABLES authority, up, workItems, runs, units, attempts, leases, cancelled, heard,
    effects,            \* the effect row of each key
    cancelledEffects,   \* effects that are the root of a committed cancel request
    settleRows,         \* target count in the event of each key's effect.settle
    permits,            \* dispatches committed and not yet acted upon
    acted,              \* how often the world was touched for a key
    world,              \* digest of each target
    landed,             \* targets that were seen at their expected digest
    reported            \* effects whose target reported a cancellation

Graph == INSTANCE Attempts

graphVars == <<authority, up, workItems, runs, units, attempts, leases, cancelled, heard>>
worldVars == <<permits, acted, world, landed>>
ledgerVars == <<effects, cancelledEffects, settleRows, worldVars, reported>>
vars == <<graphVars, ledgerVars>>

(***************************************************************************)
(* A spec says whether a dispatch may be repeated, whether the effect can  *)
(* be undone and is approved, and which targets it declares; a post-hoc    *)
(* adapter declares none.                                                  *)
(***************************************************************************)
SpecOK(s) ==
    /\ s.retry \in BOOLEAN
    /\ s.irreversible \in BOOLEAN
    /\ s.approved \in BOOLEAN
    /\ s.compensable \in BOOLEAN
    /\ s.declared \subseteq Targets

ASSUME SpecsAssumption == \A s \in Specs : SpecOK(s)
ASSUME VersionAssumption == MaxVersion \in Nat \ {0}

Declares(s) == s.declared # {}

None == "none"
NoEffect == [version |-> 0]

Prepared(k) == effects[k].version > 0
InState(k, S) == Prepared(k) /\ effects[k].state \in S
Open(k) == Prepared(k) /\ effects[k].terminal = None

\* The dispatch committed: the world may have been touched.
DispatchEvidence == {"dispatching", "dispatched", "reconciling"}

\* Mutant: only the current attempt's lineage is consulted.
DispatchBarredCurrentOnly(u, k) ==
    Graph!Barred(Graph!EffectLineage(u)) \/ k \in cancelledEffects

(***************************************************************************)
(* The roots whose cancellation bars the dispatch of k by the current      *)
(* attempt of u: the unit's, the attempt that prepared it, and itself.     *)
(***************************************************************************)
DispatchBarred(u, k) ==
    \/ Graph!Barred(Graph!EffectLineage(u) \cup {Graph!AttemptRoot(u, effects[k].epoch)})
    \/ k \in cancelledEffects

\* The holder gate, and the intent belongs to the unit the token is for.
HolderOf(t, k) ==
    /\ up
    /\ Graph!FencePasses(t)
    /\ Open(k)
    /\ effects[k].unit = t.unit

\* The authority gate; settling is not fenced, or the outcome of a
\* superseded attempt could never be recorded.
AuthorityOver(k) == up /\ Open(k)

\* The row is rewritten with the next version; its identity never changes.
Write(k, state, terminal, targets) ==
    /\ effects[k].version < MaxVersion
    /\ effects' = [effects EXCEPT ![k] =
            [version |-> effects[k].version + 1, unit |-> effects[k].unit,
             epoch |-> effects[k].epoch, spec |-> effects[k].spec,
             state |-> state, terminal |-> terminal, targets |-> targets]]

MoveTo(k, state) == Write(k, state, effects[k].terminal, effects[k].targets)

-----------------------------------------------------------------------------
(***************************************************************************)
(* effect.prepare: a new key gets a row, whose targets start unknown.  A   *)
(* key that has one is answered from it and nothing is written.            *)
(***************************************************************************)
PrepareAnswer(u, k, s) ==
    IF ~Prepared(k) THEN "created"
    ELSE IF effects[k].unit # u THEN "foreign"
    ELSE IF effects[k].spec = s /\ DOMAIN effects[k].targets = s.declared
         THEN "existing" ELSE "divergent"

EffectPrepare(t, k, s) ==
    /\ up
    /\ Graph!FencePasses(t)
    /\ ~Graph!Barred(Graph!EffectLineage(t.unit))
    /\ PrepareAnswer(t.unit, k, s) = "created"
    /\ effects' = [effects EXCEPT ![k] =
            [version |-> 1, unit |-> t.unit, epoch |-> t.epoch, spec |-> s,
             state |-> "prepared", terminal |-> None,
             targets |-> [x \in s.declared |-> "unknown"]]]
    /\ UNCHANGED <<graphVars, cancelledEffects, settleRows, worldVars, reported>>

\* Mutant: the retry policy is not consulted.
EffectDispatchAnyRetry(t, k) ==
    /\ HolderOf(t, k)
    /\ effects[k].state = "prepared" => ~DispatchBarred(t.unit, k)
    /\ effects[k].state # "prepared" => effects[k].state \in {"dispatched", "reconciling"}
    /\ effects[k].spec.irreversible => effects[k].spec.approved
    /\ MoveTo(k, "dispatching")
    /\ permits' = [permits EXCEPT ![k] = @ + 1]
    /\ UNCHANGED <<graphVars, cancelledEffects, settleRows, acted, world, landed, reported>>

(***************************************************************************)
(* effect.dispatch commits before the agent may act.  A prepared intent    *)
(* below a committed cancellation settles cancelled instead.  A repeated   *)
(* dispatch is refused to an adapter without retries; it is not asked      *)
(* whether it was cancelled.                                               *)
(***************************************************************************)
EffectDispatch(t, k) ==
    /\ HolderOf(t, k)
    /\ effects[k].state = "prepared" => ~DispatchBarred(t.unit, k)
    /\ effects[k].state # "prepared" =>
            effects[k].spec.retry /\ effects[k].state \in {"dispatched", "reconciling"}
    /\ effects[k].spec.irreversible => effects[k].spec.approved
    /\ MoveTo(k, "dispatching")
    /\ permits' = [permits EXCEPT ![k] = @ + 1]
    /\ UNCHANGED <<graphVars, cancelledEffects, settleRows, acted, world, landed, reported>>

EffectDispatchCancelled(t, k) ==
    /\ HolderOf(t, k)
    /\ effects[k].state = "prepared"
    /\ DispatchBarred(t.unit, k)
    /\ Write(k, "settled", "cancelled", effects[k].targets)
    /\ UNCHANGED <<graphVars, cancelledEffects, settleRows, worldVars, reported>>

\* Mutant: recording a dispatch advances the unit with the effect.
EffectRecordDispatchedAdvancing(t, k) ==
    /\ HolderOf(t, k)
    /\ effects[k].state = "dispatching"
    /\ MoveTo(k, "dispatched")
    /\ units' = [units EXCEPT ![t.unit].version = @ + 1]
    /\ UNCHANGED <<authority, up, workItems, runs, attempts, leases, cancelled, heard>>
    /\ UNCHANGED <<cancelledEffects, settleRows, worldVars, reported>>

EffectRecordDispatched(t, k) ==
    /\ HolderOf(t, k)
    /\ effects[k].state = "dispatching"
    /\ MoveTo(k, "dispatched")
    /\ UNCHANGED <<graphVars, cancelledEffects, settleRows, worldVars, reported>>

EffectParkReconciling(k) ==
    /\ AuthorityOver(k)
    /\ effects[k].state \in DispatchEvidence
    /\ MoveTo(k, "reconciling")
    /\ UNCHANGED <<graphVars, cancelledEffects, settleRows, worldVars, reported>>

-----------------------------------------------------------------------------
(***************************************************************************)
(* effect.settle.  The daemon submits target rows, some with an observed   *)
(* digest; what they mean is computed here.  A declared target is compared *)
(* with the digests of its declaration, and one without an observation     *)
(* stays unknown.  A post-hoc target counts as applied if it was observed  *)
(* and the process ended cleanly.                                          *)
(***************************************************************************)
Classify(digest) ==
    CASE digest = "expected" -> "applied"
      [] digest = "pre" -> "not_applied"
      [] OTHER -> "partially_applied"

\* Mutant: the declared targets nobody submitted are dropped.
SettleTargetsSubmittedOnly(k, rows, seen, clean) ==
    IF Declares(effects[k].spec)
    THEN [x \in rows |-> IF x \in seen THEN Classify(world[k][x]) ELSE "unknown"]
    ELSE [x \in rows |-> IF clean /\ x \in seen THEN "applied" ELSE "unknown"]

SettleTargets(k, rows, seen, clean) ==
    IF Declares(effects[k].spec)
    THEN [x \in effects[k].spec.declared |->
            IF x \in seen THEN Classify(world[k][x]) ELSE "unknown"]
    ELSE [x \in rows |-> IF clean /\ x \in seen THEN "applied" ELSE "unknown"]

\* Mutant: a dispatched effect may be settled cancelled without a report.
SettleLegalUnreported(k, terminal, targetReported) ==
    LET e == effects[k]
        evidence == e.state \in DispatchEvidence
    IN  CASE terminal \in {"succeeded", "failed", "unknown"} -> evidence
          [] terminal = "cancelled" -> TRUE
          [] terminal = "compensated" ->
                evidence /\ ~e.spec.irreversible /\ e.spec.compensable

SettleLegal(k, terminal, targetReported) ==
    LET e == effects[k]
        evidence == e.state \in DispatchEvidence
    IN  CASE terminal \in {"succeeded", "failed", "unknown"} -> evidence
          [] terminal = "cancelled" -> e.state = "prepared" \/ (evidence /\ targetReported)
          [] terminal = "compensated" ->
                evidence /\ ~e.spec.irreversible /\ e.spec.compensable

TerminalFits(terminal, targets) ==
    /\ terminal = "succeeded" => \A x \in DOMAIN targets : targets[x] = "applied"
    /\ terminal = "failed" => \A x \in DOMAIN targets : targets[x] # "unknown"

Terminals == {"succeeded", "failed", "cancelled", "compensated", "unknown"}

\* The event carries the number of rows submitted.
EffectSettle(k, terminal, rows, seen, clean, targetReported) ==
    LET targets == SettleTargets(k, rows, seen, clean)
    IN  /\ AuthorityOver(k)
        /\ Declares(effects[k].spec) => rows \subseteq effects[k].spec.declared
        /\ SettleLegal(k, terminal, targetReported)
        /\ TerminalFits(terminal, targets)
        /\ Write(k, "settled", terminal, targets)
        /\ settleRows' = [settleRows EXCEPT ![k] = Cardinality(rows)]
        /\ reported' = reported \cup {x \in {k} : terminal = "cancelled" /\ targetReported}
        /\ UNCHANGED <<graphVars, cancelledEffects, worldVars>>

\* cancel.request with the effect itself as the root.
CancelEffect(k) ==
    /\ up
    /\ Prepared(k)
    /\ cancelledEffects' = cancelledEffects \cup {k}
    /\ UNCHANGED <<graphVars, effects, settleRows, worldVars, reported>>

(***************************************************************************)
(* The agent uses its permit: each target is left alone, brought to its    *)
(* expected digest, or spoilt.  External: adapters are outside the kernel. *)
(***************************************************************************)
AdapterActs(k, touched, spoilt) ==
    /\ permits[k] > 0
    /\ permits' = [permits EXCEPT ![k] = @ - 1]
    /\ acted' = [acted EXCEPT ![k] = @ + 1]
    /\ world' = [world EXCEPT ![k] =
            [x \in Targets |-> IF x \in spoilt THEN "other"
                               ELSE IF x \in touched THEN "expected" ELSE @[x]]]
    /\ landed' = [landed EXCEPT ![k] = @ \cup (touched \ spoilt)]
    /\ UNCHANGED <<graphVars, effects, cancelledEffects, settleRows, reported>>

-----------------------------------------------------------------------------
(***************************************************************************)
(* Recovery reads every effect.settle receipt against the row it settled,  *)
(* and opens the store only if they agree.                                 *)
(***************************************************************************)
NoSettle == -1

RecoveryAccepts ==
    \A k \in Keys : settleRows[k] # NoSettle =>
        settleRows[k] = Cardinality(DOMAIN effects[k].targets)

Recover == RecoveryAccepts /\ Graph!Recover /\ UNCHANGED ledgerVars

Init ==
    /\ Graph!Init
    /\ effects = [k \in Keys |-> NoEffect]
    /\ cancelledEffects = {}
    /\ settleRows = [k \in Keys |-> NoSettle]
    /\ permits = [k \in Keys |-> 0]
    /\ acted = [k \in Keys |-> 0]
    /\ world = [k \in Keys |-> [x \in Targets |-> "pre"]]
    /\ landed = [k \in Keys |-> {}]
    /\ reported = {}

\* The commands of the control graph, and a crash.
GraphStep ==
    /\ \/ \E r \in Runs : Graph!RunOpen(r)
       \/ \E w \in WorkItems : Graph!WorkItemCreate(w)
       \/ \E u \in Units, r \in Runs, w \in WorkItems : Graph!UnitAdmit(u, r, w)
       \/ \E u \in Units, h \in Holders : Graph!UnitDispatch(u, h)
       \/ \E u \in Units : Graph!StampBump(u)
       \/ Graph!Crash
    /\ UNCHANGED ledgerVars

Cancel ==
    \/ \E root \in Graph!Roots : Graph!CancelRequest(root) /\ UNCHANGED ledgerVars
    \/ \E k \in Keys : CancelEffect(k)

Holder ==
    \E t \in attempts, k \in Keys :
        \/ \E s \in Specs : EffectPrepare(t, k, s)
        \/ EffectDispatch(t, k)
        \/ EffectDispatchCancelled(t, k)
        \/ EffectRecordDispatched(t, k)

Authority ==
    \E k \in Keys :
        \/ EffectParkReconciling(k)
        \/ \E terminal \in Terminals, rows \in SUBSET Targets, clean, told \in BOOLEAN :
                \E seen \in SUBSET rows : EffectSettle(k, terminal, rows, seen, clean, told)

World ==
    \E k \in Keys, touched \in SUBSET Targets :
        \E spoilt \in SUBSET touched : AdapterActs(k, touched, spoilt)

Next == GraphStep \/ Cancel \/ Holder \/ Authority \/ World \/ Recover

Spec == Init /\ [][Next]_vars

-----------------------------------------------------------------------------
(***************************************************************************)
(* Properties.                                                             *)
(***************************************************************************)
TargetStates == {"unknown", "applied", "not_applied", "partially_applied"}

EffectOK(e) ==
    /\ e.version \in 1..MaxVersion
    /\ e.unit \in Units
    /\ e.epoch \in 1..MaxCount
    /\ e.spec \in Specs
    /\ e.state \in DispatchEvidence \cup {"prepared", "settled"}
    /\ e.terminal \in Terminals \cup {None}
    /\ DOMAIN e.targets \subseteq Targets
    /\ \A x \in DOMAIN e.targets : e.targets[x] \in TargetStates
    /\ e.state = "settled" <=> e.terminal # None

\* Every effect row has the shape of an EffectIntent, and is settled exactly
\* when it has a terminal.
TypeOK ==
    /\ \A k \in Keys : effects[k] = NoEffect \/ EffectOK(effects[k])
    /\ cancelledEffects \subseteq {k \in Keys : Prepared(k)}
    /\ settleRows \in [Keys -> Int]
    /\ permits \in [Keys -> Nat]
    /\ acted \in [Keys -> Nat]
    /\ world \in [Keys -> [Targets -> {"pre", "expected", "other"}]]
    /\ landed \in [Keys -> SUBSET Targets]
    /\ reported \subseteq Keys

\* What may have touched the world is on record as such (effect_rules.rs,
\* settle_legality): while a permit is out or was used the ledger shows
\* dispatch evidence or a settled outcome, and that outcome is `cancelled'
\* only if the target itself said so.
TouchedIsOnRecord ==
    \A k \in Keys : permits[k] + acted[k] > 0 =>
        /\ Prepared(k)
        /\ effects[k].state # "prepared"
        /\ effects[k].terminal = "cancelled" => k \in reported

\* An operation that must not be retried reaches the world at most once,
\* however many attempts, restarts and late agents there are (effects.rs,
\* validate_dispatch).
NoRetryActsOnce ==
    \A k \in Keys :
        Prepared(k) /\ ~effects[k].spec.retry => permits[k] + acted[k] <= 1

\* An effect with declared targets that settled succeeded did bring every one
\* of them to its expected digest: leaving rows out of the settlement cannot
\* manufacture a success (effect_rules.rs, merge_declared).
SucceededLanded ==
    \A k \in Keys :
        Prepared(k) /\ effects[k].terminal = "succeeded"
            => effects[k].spec.declared \subseteq landed[k]

\* A settled row is never written again, by whichever command
\* (effects.rs, already_settled).
SettledIsFinal ==
    [][\A k \in Keys : Prepared(k) /\ effects[k].terminal # None
                            => effects'[k] = effects[k]]_vars

\* A prepared intent, and a committed cancellation of it or of an ancestor.
Governing(k) ==
    {Graph!RunRoot(units[effects[k].unit].run), Graph!UnitRoot(effects[k].unit),
     Graph!AttemptRoot(effects[k].unit, effects[k].epoch)}

Doomed(k) ==
    /\ InState(k, {"prepared"})
    /\ k \in cancelledEffects \/ Governing(k) \cap cancelled # {}

\* An intent still prepared when a cancellation of it or of an ancestor
\* commits is never dispatched: all that can become of it is `cancelled'
\* (effects.rs, the rule-4 arm of validate_dispatch).
CancelledBeforeDispatch ==
    [][\A k \in Keys : Doomed(k) =>
        /\ permits'[k] = permits[k]
        /\ effects'[k] # effects[k] => effects'[k].terminal = "cancelled"]_vars

\* The ledger leaves the control graph to its own commands: an effect
\* command never advances a unit, an attempt or a lease.
ImplementsAttempts == Graph!Spec

\* "Reopen after a kill": recovery accepts whatever the commands of this
\* kernel wrote (store/mod.rs, Store::recover).
RecoveryNeverRefuses == RecoveryAccepts

=============================================================================
