------------------------- MODULE EffectLedgerProofs -------------------------
(***************************************************************************)
(* Proofs about the effect ledger, for any operations, targets, holders    *)
(* and settlements: it uses the control graph only through its commands,   *)
(* touches the world only on record and at most once without retries, and  *)
(* settles a success only over targets that landed.                        *)
(***************************************************************************)
EXTENDS EffectLedger, TLAPS

\* Every step of the ledger is a step of the control graph or leaves it alone.
LEMMA LedgerStepIsGraphStep == [Next]_vars => [Graph!Next]_(Graph!vars)
<1> SUFFICES ASSUME [Next]_vars PROVE Graph!Next \/ UNCHANGED Graph!vars
    OBVIOUS
<1> USE DEF Graph!vars, Graph!graph, graphVars
<1>1. CASE GraphStep
    BY <1>1 DEF GraphStep, Graph!Next
<1>2. CASE Holder
    BY <1>2 DEF Holder, EffectPrepare, EffectDispatch, EffectDispatchCancelled,
                EffectRecordDispatched
<1>3. CASE Authority
    BY <1>3 DEF Authority, EffectParkReconciling, EffectSettle
<1>4. CASE World
    BY <1>4 DEF World, AdapterActs
<1>5. CASE UNCHANGED vars
    BY <1>5 DEF vars
<1>6. CASE Cancel \/ Recover
    BY <1>6 DEF Cancel, CancelEffect, Recover, Graph!Next
<1>7. QED
    BY <1>1, <1>2, <1>3, <1>4, <1>5, <1>6 DEF Next

\* The effect commands, with an adapter that may act at any time, implement
\* the control graph: no effect command advances a unit, an attempt or a
\* lease (funnel/effects.rs), so what is proved of the fence holds here too.
THEOREM LedgerImplementsAttempts == Spec => ImplementsAttempts
<1>1. Init => Graph!Init
    BY DEF Init
<1>2. QED
    BY <1>1, LedgerStepIsGraphStep, PTL DEF Spec, ImplementsAttempts, Graph!Spec

-----------------------------------------------------------------------------
(***************************************************************************)
(* The ledger and the world.  What keeps the two in step is an induction   *)
(* over TouchedIsOnRecord and NoRetryActsOnce together: the first says     *)
(* that a prepared intent has no permit out, which is what its first       *)
(* dispatch needs for the second.                                          *)
(***************************************************************************)
Shapes ==
    /\ effects = [k \in Keys |-> effects[k]]
    /\ \A k \in Keys : effects[k].version \in Nat
    /\ permits \in [Keys -> Nat]
    /\ acted \in [Keys -> Nat]

LInv == Shapes /\ TouchedIsOnRecord /\ NoRetryActsOnce

\* The store starts with an empty ledger.
LEMMA InitLInv == Init => LInv
  BY DEF Init, LInv, Shapes, TouchedIsOnRecord, NoRetryActsOnce, Prepared, NoEffect

\* What a command that rewrites the row of k does to the rows.
LEMMA WriteRows ==
    ASSUME Shapes, NEW k \in Keys, NEW state, NEW terminal, NEW targets,
           Write(k, state, terminal, targets)
    PROVE  /\ effects' = [j \in Keys |-> effects'[j]]
           /\ \A j \in Keys \ {k} : effects'[j] = effects[j]
           /\ effects'[k].state = state /\ effects'[k].terminal = terminal
           /\ effects'[k].spec = effects[k].spec
           /\ effects'[k].version = effects[k].version + 1
           /\ \A j \in Keys : effects'[j].version \in Nat
  BY DEF Shapes, Write

\* Agents: prepare, dispatch, and the record of a dispatch.
LEMMA HolderLInv == ASSUME LInv, Holder PROVE LInv'
<1>1. PICK t \in attempts, k \in Keys :
        \/ \E s \in Specs : EffectPrepare(t, k, s)
        \/ EffectDispatch(t, k)
        \/ EffectDispatchCancelled(t, k)
        \/ EffectRecordDispatched(t, k)
  BY DEF Holder
<1> USE DEF LInv, Shapes, TouchedIsOnRecord, NoRetryActsOnce, Prepared, worldVars
<1>2. ASSUME NEW s \in Specs, EffectPrepare(t, k, s) PROVE LInv'
  BY <1>2 DEF EffectPrepare, PrepareAnswer
<1>3. CASE EffectDispatch(t, k)
  BY <1>3, WriteRows DEF EffectDispatch, HolderOf, Open, MoveTo, None
<1>4. CASE EffectDispatchCancelled(t, k)
  BY <1>4, WriteRows DEF EffectDispatchCancelled, HolderOf, Open
<1>5. CASE EffectRecordDispatched(t, k)
  BY <1>5, WriteRows DEF EffectRecordDispatched, HolderOf, Open, MoveTo
<1>6. QED
  BY <1>1, <1>2, <1>3, <1>4, <1>5

\* The daemon: park, settle, cancel.
LEMMA AuthorityLInv == ASSUME LInv, Authority PROVE LInv'
<1>1. PICK k \in Keys :
        \/ EffectParkReconciling(k)
        \/ \E terminal \in Terminals, rows \in SUBSET Targets, clean, told \in BOOLEAN :
                \E seen \in SUBSET rows : EffectSettle(k, terminal, rows, seen, clean, told)
  BY DEF Authority
<1> USE DEF LInv, Shapes, TouchedIsOnRecord, NoRetryActsOnce, Prepared, worldVars
<1>2. CASE EffectParkReconciling(k)
  BY <1>2, WriteRows DEF EffectParkReconciling, AuthorityOver, Open, MoveTo, None
<1>3. ASSUME NEW terminal \in Terminals, NEW rows \in SUBSET Targets,
             NEW clean \in BOOLEAN, NEW told \in BOOLEAN, NEW seen \in SUBSET rows,
             EffectSettle(k, terminal, rows, seen, clean, told)
      PROVE  LInv'
  <2>1. Write(k, "settled", terminal, SettleTargets(k, rows, seen, clean))
    BY <1>3 DEF EffectSettle
  <2>2. effects[k].state = "prepared" \/ (terminal = "cancelled" => told)
    BY <1>3 DEF EffectSettle, SettleLegal, Terminals
  <2>3. reported' = reported \cup {x \in {k} : terminal = "cancelled" /\ told}
    BY <1>3 DEF EffectSettle
  <2>4. UNCHANGED worldVars /\ Open(k)
    BY <1>3 DEF EffectSettle, AuthorityOver
  <2>5. QED
    BY <2>1, <2>2, <2>3, <2>4, WriteRows DEF Open
<1> HIDE DEF LInv
<1>4. QED
  BY <1>1, <1>2, <1>3

\* Holds of every step.
LEMMA NextLInv == LInv /\ [Next]_vars => LInv'
<1> SUFFICES ASSUME LInv, [Next]_vars PROVE LInv'
  OBVIOUS
<1> USE DEF LInv, Shapes, TouchedIsOnRecord, NoRetryActsOnce, Prepared, worldVars
<1>1. CASE World
  <2>1. PICK k \in Keys, touched \in SUBSET Targets :
            \E spoilt \in SUBSET touched : AdapterActs(k, touched, spoilt)
    BY <1>1 DEF World
  <2>2. QED
    BY <2>1 DEF AdapterActs
<1>2. CASE GraphStep \/ Cancel \/ Recover
  BY <1>2 DEF GraphStep, Cancel, CancelEffect, Recover, ledgerVars
<1>3. CASE UNCHANGED vars
  BY <1>3 DEF vars, ledgerVars
<1>4. QED
  BY <1>1, <1>2, <1>3, HolderLInv, AuthorityLInv DEF Next

\* The invariant of the ledger holds in every reachable state.
THEOREM LedgerInductive == Spec => []LInv
  BY InitLInv, NextLInv, PTL DEF Spec

\* For any keys, targets and adapters: while a permit is out, or once it was
\* used, the ledger shows it, and `cancelled' only on the target's report
\* (effect_rules.rs, settle_legality).
THEOREM TouchedOnRecord == Spec => []TouchedIsOnRecord
  BY LedgerInductive, PTL DEF LInv

\* An operation without retries touches the world at most once, whatever the
\* restarts, re-dispatched units and late agents (effects.rs, validate_dispatch).
THEOREM ActsAtMostOnce == Spec => []NoRetryActsOnce
  BY LedgerInductive, PTL DEF LInv

\* A settled row is never written again (effects.rs, already_settled).
THEOREM SettledForGood == Spec => SettledIsFinal
<1>1. LInv /\ [Next]_vars =>
        [\A k \in Keys : Prepared(k) /\ effects[k].terminal # None
                            => effects'[k] = effects[k]]_vars
  <2> SUFFICES ASSUME LInv, Next, NEW j \in Keys, Prepared(j), effects[j].terminal # None
               PROVE  effects'[j] = effects[j]
    OBVIOUS
  <2> USE DEF LInv, Shapes
  <2>1. CASE Holder
    <3>1. PICK t \in attempts, k \in Keys :
            \/ \E s \in Specs : EffectPrepare(t, k, s)
            \/ EffectDispatch(t, k)
            \/ EffectDispatchCancelled(t, k)
            \/ EffectRecordDispatched(t, k)
      BY <2>1 DEF Holder
    <3>2. ASSUME NEW s \in Specs, EffectPrepare(t, k, s) PROVE effects'[j] = effects[j]
      BY <3>2 DEF EffectPrepare, PrepareAnswer
    <3>3. CASE EffectDispatch(t, k)
      BY <3>3, WriteRows DEF EffectDispatch, HolderOf, Open, MoveTo
    <3>4. CASE EffectDispatchCancelled(t, k)
      BY <3>4, WriteRows DEF EffectDispatchCancelled, HolderOf, Open
    <3>5. CASE EffectRecordDispatched(t, k)
      BY <3>5, WriteRows DEF EffectRecordDispatched, HolderOf, Open, MoveTo
    <3>6. QED
      BY <3>1, <3>2, <3>3, <3>4, <3>5
  <2>2. CASE Authority
    <3>1. PICK k \in Keys :
            \/ EffectParkReconciling(k)
                \/ \E terminal \in Terminals, rows \in SUBSET Targets, clean, told \in BOOLEAN :
                \E seen \in SUBSET rows : EffectSettle(k, terminal, rows, seen, clean, told)
      BY <2>2 DEF Authority
    <3>2. CASE EffectParkReconciling(k)
      BY <3>2, WriteRows DEF EffectParkReconciling, AuthorityOver, Open, MoveTo
    <3>3. ASSUME NEW terminal \in Terminals, NEW rows \in SUBSET Targets,
                 NEW clean \in BOOLEAN, NEW told \in BOOLEAN, NEW seen \in SUBSET rows,
                 EffectSettle(k, terminal, rows, seen, clean, told)
          PROVE  effects'[j] = effects[j]
      <4>1. Write(k, "settled", terminal, SettleTargets(k, rows, seen, clean)) /\ Open(k)
        BY <3>3 DEF EffectSettle, AuthorityOver
      <4>2. QED
        BY <4>1, WriteRows DEF Open
    <3>4. QED
      BY <3>1, <3>2, <3>3
  <2>3. CASE GraphStep \/ Cancel \/ World \/ Recover
    BY <2>3 DEF GraphStep, Cancel, CancelEffect, World, AdapterActs, Recover, ledgerVars
  <2>4. QED
    BY <2>1, <2>2, <2>3 DEF Next
<1>2. QED
  BY LedgerInductive, <1>1, PTL DEF Spec, SettledIsFinal

\* A prepared intent below a committed cancellation is never dispatched, and
\* can only become `cancelled' (effects.rs, rule 4 in validate_dispatch).
THEOREM CancelledStaysUndispatched == Spec => CancelledBeforeDispatch
<1>1. LInv /\ [Next]_vars =>
        [\A k \in Keys : Doomed(k) =>
            /\ permits'[k] = permits[k]
            /\ effects'[k] # effects[k] => effects'[k].terminal = "cancelled"]_vars
  <2> DEFINE Kept(j) == /\ permits'[j] = permits[j]
                        /\ effects'[j] # effects[j] => effects'[j].terminal = "cancelled"
  <2> SUFFICES ASSUME LInv, Next, NEW j \in Keys, Doomed(j) PROVE Kept(j)
    OBVIOUS
  <2> USE DEF Doomed
  <2> USE DEF LInv, Shapes, worldVars
  <2>1. CASE Holder
    <3>1. PICK t \in attempts, k \in Keys :
            \/ \E s \in Specs : EffectPrepare(t, k, s)
            \/ EffectDispatch(t, k)
            \/ EffectDispatchCancelled(t, k)
            \/ EffectRecordDispatched(t, k)
      BY <2>1 DEF Holder
    <3>2. ASSUME NEW s \in Specs, EffectPrepare(t, k, s) PROVE Kept(j)
      BY <3>2 DEF EffectPrepare, PrepareAnswer, InState
    <3>3. CASE EffectDispatch(t, k)
      <4>1. effects[j].unit = t.unit => DispatchBarred(t.unit, j)
        BY DEF DispatchBarred, Governing, Graph!Barred, Graph!EffectLineage,
               Graph!AttemptLineage
      <4>2. j # k
        BY <3>3, <4>1 DEF EffectDispatch, HolderOf, InState
      <4>3. QED
        BY <3>3, <4>2, WriteRows DEF EffectDispatch, MoveTo
    <3>4. CASE EffectDispatchCancelled(t, k)
      BY <3>4, WriteRows DEF EffectDispatchCancelled
    <3>5. CASE EffectRecordDispatched(t, k)
      BY <3>5, WriteRows DEF EffectRecordDispatched, MoveTo, InState
    <3> HIDE DEF Kept
    <3>6. QED
      BY <3>1, <3>2, <3>3, <3>4, <3>5
  <2>2. CASE Authority
    <3>1. PICK k \in Keys :
            \/ EffectParkReconciling(k)
                \/ \E terminal \in Terminals, rows \in SUBSET Targets, clean, told \in BOOLEAN :
                \E seen \in SUBSET rows : EffectSettle(k, terminal, rows, seen, clean, told)
      BY <2>2 DEF Authority
    <3>2. CASE EffectParkReconciling(k)
      BY <3>2, WriteRows DEF EffectParkReconciling, MoveTo, InState, DispatchEvidence
    <3>3. ASSUME NEW terminal \in Terminals, NEW rows \in SUBSET Targets,
                 NEW clean \in BOOLEAN, NEW told \in BOOLEAN, NEW seen \in SUBSET rows,
                 EffectSettle(k, terminal, rows, seen, clean, told)
          PROVE  Kept(j)
      <4>1. /\ Write(k, "settled", terminal, SettleTargets(k, rows, seen, clean))
            /\ permits' = permits
        BY <3>3 DEF EffectSettle
      <4>2. k = j => terminal = "cancelled"
        BY <3>3 DEF EffectSettle, SettleLegal, Terminals, InState, DispatchEvidence
      <4>3. QED
        BY <4>1, <4>2, WriteRows
    <3> HIDE DEF Kept
    <3>4. QED
      BY <3>1, <3>2, <3>3
  <2>3. CASE World
    <3>1. PICK k \in Keys, touched \in SUBSET Targets :
            \E spoilt \in SUBSET touched : AdapterActs(k, touched, spoilt)
      BY <2>3 DEF World
    <3>2. j # k
      BY <3>1 DEF AdapterActs, TouchedIsOnRecord, InState
    <3>3. QED
      BY <3>1, <3>2 DEF AdapterActs
  <2>4. CASE GraphStep \/ Cancel \/ Recover
    BY <2>4 DEF GraphStep, Cancel, CancelEffect, Recover, ledgerVars
  <2>5. QED
    BY <2>1, <2>2, <2>3, <2>4 DEF Next
<1>2. QED
  BY LedgerInductive, <1>1, PTL DEF Spec, CancelledBeforeDispatch
-----------------------------------------------------------------------------
(***************************************************************************)
(* What a success says of the world.  The world moves on after a           *)
(* settlement, so the induction is over what was seen at its expected      *)
(* digest: a target that is there now was seen there.                      *)
(***************************************************************************)
WorldSeen ==
    /\ world \in [Keys -> [Targets -> {"pre", "expected", "other"}]]
    /\ landed \in [Keys -> SUBSET Targets]
    /\ \A k \in Keys, x \in Targets : world[k][x] = "expected" => x \in landed[k]

SpecsKnown == \A k \in Keys : Prepared(k) => effects[k].spec \in Specs

WInv == LInv /\ WorldSeen /\ SpecsKnown /\ SucceededLanded

\* Only an observation of the expected digest counts as applied.
LEMMA AppliedIsExpected ==
  ASSUME NEW digest, Classify(digest) = "applied"
  PROVE  digest = "expected"
<1>1. CASE digest = "expected"
  BY <1>1
<1>2. CASE digest = "pre" /\ digest # "expected"
  <2>1. Classify(digest) = "not_applied"
    BY <1>2, Zenon DEF Classify
  <2> QED BY <2>1
<1>3. CASE digest # "pre" /\ digest # "expected"
  <2>1. Classify(digest) = "partially_applied"
    BY <1>3 DEF Classify
  <2> QED BY <2>1
<1> QED BY <1>1, <1>2, <1>3

\* A command that rewrites one row and claims no success it cannot show.
LEMMA RowLanded ==
  ASSUME WInv, LInv', NEW k \in Keys, NEW state, NEW terminal, NEW targets,
         Write(k, state, terminal, targets), Prepared(k), UNCHANGED <<world, landed>>,
         terminal = "succeeded" => effects[k].spec.declared \subseteq landed[k]
  PROVE  WInv'
<1>1. Shapes
  BY DEF WInv, LInv
<1>2. /\ \A j \in Keys \ {k} : effects'[j] = effects[j]
      /\ effects'[k].terminal = terminal /\ effects'[k].spec = effects[k].spec
  BY <1>1, WriteRows
<1>3. WorldSeen'
  BY DEF WInv, WorldSeen
<1>4. SpecsKnown' /\ SucceededLanded'
  BY <1>2 DEF WInv, SpecsKnown, SucceededLanded, Prepared
<1> QED BY <1>3, <1>4 DEF WInv

\* Agents settle nothing as a success.
LEMMA HolderLanded == ASSUME WInv, LInv', Holder PROVE WInv'
<1>1. PICK t \in attempts, k \in Keys :
        \/ \E s \in Specs : EffectPrepare(t, k, s)
        \/ EffectDispatch(t, k)
        \/ EffectDispatchCancelled(t, k)
        \/ EffectRecordDispatched(t, k)
  BY DEF Holder
<1>2. ASSUME NEW s \in Specs, EffectPrepare(t, k, s) PROVE WInv'
  <2>1. UNCHANGED <<world, landed>> /\ effects = [j \in Keys |-> effects[j]]
    BY <1>2 DEF EffectPrepare, worldVars, WInv, LInv, Shapes
  <2>2. WorldSeen'
    BY <2>1 DEF WInv, WorldSeen
  <2>3. /\ \A j \in Keys \ {k} : effects'[j] = effects[j]
        /\ effects'[k].terminal = None /\ effects'[k].spec = s
    BY <1>2, <2>1 DEF EffectPrepare
  <2>4. SpecsKnown' /\ SucceededLanded'
    BY <2>1, <2>3 DEF WInv, SpecsKnown, SucceededLanded, Prepared, None
  <2> QED BY <2>2, <2>4 DEF WInv
<1>3. CASE EffectDispatch(t, k)
  BY <1>3, RowLanded DEF EffectDispatch, HolderOf, Open, MoveTo, None
<1>4. CASE EffectDispatchCancelled(t, k)
  BY <1>4, RowLanded DEF EffectDispatchCancelled, HolderOf, Open, worldVars
<1>5. CASE EffectRecordDispatched(t, k)
  BY <1>5, RowLanded DEF EffectRecordDispatched, HolderOf, Open, MoveTo, None, worldVars
<1> QED BY <1>1, <1>2, <1>3, <1>4, <1>5

\* The daemon settles as a success only what it saw in place.
LEMMA AuthorityLanded == ASSUME WInv, LInv', Authority PROVE WInv'
<1>1. PICK k \in Keys :
        \/ EffectParkReconciling(k)
        \/ \E terminal \in Terminals, rows \in SUBSET Targets, clean, told \in BOOLEAN :
                \E seen \in SUBSET rows : EffectSettle(k, terminal, rows, seen, clean, told)
  BY DEF Authority
<1>2. CASE EffectParkReconciling(k)
  BY <1>2, RowLanded DEF EffectParkReconciling, AuthorityOver, Open, MoveTo, None, worldVars
<1>3. ASSUME NEW terminal \in Terminals, NEW rows \in SUBSET Targets,
             NEW clean \in BOOLEAN, NEW told \in BOOLEAN, NEW seen \in SUBSET rows,
             EffectSettle(k, terminal, rows, seen, clean, told)
      PROVE  WInv'
  <2>1. PICK targets : targets = SettleTargets(k, rows, seen, clean)
    OBVIOUS
  <2>2. /\ Write(k, "settled", terminal, targets) /\ TerminalFits(terminal, targets)
        /\ Prepared(k) /\ UNCHANGED <<world, landed>>
    BY <1>3, <2>1 DEF EffectSettle, AuthorityOver, Open, worldVars
  <2>3. PICK s : s = effects[k].spec
    OBVIOUS
  <2>4. s \in Specs /\ s.declared \subseteq Targets
    BY <2>2, <2>3, SpecsAssumption DEF WInv, SpecsKnown, SpecOK
  <2>5. ASSUME terminal = "succeeded", NEW x \in s.declared
        PROVE  x \in landed[k]
    <3>1. Declares(effects[k].spec)
      BY <2>3, <2>5 DEF Declares
    <3>2. PICK c : c = Classify(world[k][x])
      OBVIOUS
    <3>3. x \in DOMAIN targets /\ targets[x] = IF x \in seen THEN c ELSE "unknown"
      BY <2>1, <2>3, <2>5, <3>1, <3>2 DEF SettleTargets
    <3>4. targets[x] = "applied"
      BY <2>2, <2>5, <3>3 DEF TerminalFits
    <3>5. c = "applied"
      BY <3>3, <3>4
    <3>6. world[k][x] = "expected"
      BY <3>2, <3>5, AppliedIsExpected
    <3> QED BY <2>4, <2>5, <3>6 DEF WInv, WorldSeen
  <2> QED BY <2>2, <2>3, <2>5, RowLanded
<1> QED BY <1>1, <1>2, <1>3

\* An adapter that brings a target to its digest is seen to do so.
LEMMA WorldLanded == ASSUME WInv, LInv', World PROVE WInv'
<1>1. PICK k \in Keys, touched \in SUBSET Targets :
          \E spoilt \in SUBSET touched : AdapterActs(k, touched, spoilt)
  BY DEF World
<1>2. PICK spoilt \in SUBSET touched : AdapterActs(k, touched, spoilt)
  BY <1>1
<1>3. /\ world \in [Keys -> [Targets -> {"pre", "expected", "other"}]]
      /\ landed \in [Keys -> SUBSET Targets]
  BY DEF WInv, WorldSeen
<1>4. PICK w : w = [x \in Targets |-> IF x \in spoilt THEN "other"
                                      ELSE IF x \in touched THEN "expected" ELSE world[k][x]]
  OBVIOUS
<1>5. w \in [Targets -> {"pre", "expected", "other"}]
  BY <1>3, <1>4
<1>6. world' = [world EXCEPT ![k] = w] /\ effects' = effects
  BY <1>2, <1>4 DEF AdapterActs
<1>7. PICK l : l = landed[k] \cup (touched \ spoilt)
  OBVIOUS
<1>8. landed' = [landed EXCEPT ![k] = l] /\ l \in SUBSET Targets
  BY <1>2, <1>3, <1>7 DEF AdapterActs
<1>9. \A x \in Targets : w[x] = "expected" => x \in l
  BY <1>4, <1>7 DEF WInv, WorldSeen
<1>10. WorldSeen'
  BY <1>3, <1>5, <1>6, <1>8, <1>9 DEF WInv, WorldSeen
<1>11. SucceededLanded'
  BY <1>3, <1>6, <1>7, <1>8 DEF WInv, SucceededLanded, Prepared
<1>12. SpecsKnown'
  BY <1>6 DEF WInv, SpecsKnown, Prepared
<1> QED BY <1>10, <1>11, <1>12 DEF WInv

\* For any targets and adapters: an effect with declared targets that settled
\* succeeded did bring every one of them to its expected digest
\* (effect_rules.rs, merge_declared).
THEOREM SuccessMeansLanded == Spec => []SucceededLanded
<1>1. Init => WInv
  BY InitLInv DEF Init, WInv, WorldSeen, SpecsKnown, SucceededLanded, Prepared, NoEffect
<1>2. WInv /\ [Next]_vars => WInv'
  <2> SUFFICES ASSUME WInv, [Next]_vars PROVE WInv'
    OBVIOUS
  <2>1. LInv'
    BY NextLInv DEF WInv
  <2>2. CASE GraphStep \/ Cancel \/ Recover \/ UNCHANGED vars
    <3>1. UNCHANGED <<effects, world, landed>>
      BY <2>2 DEF GraphStep, Cancel, CancelEffect, Recover, ledgerVars, worldVars, vars
    <3> QED BY <2>1, <3>1 DEF WInv, WorldSeen, SpecsKnown, SucceededLanded, Prepared
  <2> QED BY <2>1, <2>2, HolderLanded, AuthorityLanded, WorldLanded DEF Next
<1>3. WInv => SucceededLanded
  BY DEF WInv
<1> QED BY <1>1, <1>2, <1>3, PTL DEF Spec

=============================================================================
