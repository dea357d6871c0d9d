-------------------------- MODULE CancellationProofs --------------------------
(***************************************************************************)
(* Proofs about cancellation, for any runs, units, effects and requests.   *)
(*                                                                         *)
(* Cancellation and run closing use the layers below them only through the *)
(* commands of those layers; a run that reads cancelled stays resolved; a  *)
(* recorded delivery is the end of its member; recovery accepts every      *)
(* journal the commands write; and an unresponsive member bars the success *)
(* of its run.                                                             *)
(*                                                                         *)
(* The argument: the layers below only grow, in ways GraphGrows and        *)
(* LedgerGrows list; a request row tells one story about itself (Counted)  *)
(* and rests on facts of those layers that growth keeps (Grounded).        *)
(***************************************************************************)
EXTENDS Cancellation, TLAPS

\* Every step is a step of the effect ledger or leaves it alone: committing a
\* request is the ledger's own cancellation, recording a delivery parks the
\* effect as effect.park_reconciling does, and closing a run touches neither.
LEMMA StepIsLedgerStep == [Next]_vars => [Ledger!Next]_(Ledger!vars)
<1> SUFFICES ASSUME [Next]_vars PROVE Ledger!Next \/ UNCHANGED Ledger!vars
    BY Zenon
<1> USE DEF Ledger!vars, Ledger!graphVars, Ledger!ledgerVars, Ledger!worldVars,
            graphVars, ledgerVars
<1>1. CASE LedgerStep
    BY <1>1, Zenon DEF LedgerStep, Ledger!Next
<1>2. CASE Cancel
    <2>1. PICK root \in Roots, policy \in Policies :
            \E members \in SUBSET {m \in Roots : m = root \/ Under(root, m)} :
                CancelRequest(root, policy, members)
        BY <1>2, Zenon DEF Cancel
    <2>2. CommitRoot(root)
        BY <2>1, Zenon DEF CancelRequest
    <2>3. \/ root \in Ledger!Graph!Roots
          \/ \E k \in Keys : root = EffectRoot(k)
        BY Zenon DEF Roots
    <2>4. CASE \E k \in Keys : root = EffectRoot(k)
        BY <2>2, <2>4 DEF CommitRoot, EffectRoot, Ledger!Cancel, Ledger!Next
    <2>5. CASE root \in Ledger!Graph!Roots
        <3>1. root.kind # "effect_intent"
            BY <2>5 DEF Ledger!Graph!Roots, Ledger!Graph!RunRoot, Ledger!Graph!UnitRoot,
                        Ledger!Graph!AttemptRoot
        <3>2. QED
            BY <2>2, <2>5, <3>1, Zenon DEF CommitRoot, Ledger!Cancel, Ledger!Next
    <2>6. QED
        BY <2>3, <2>4, <2>5, Zenon
<1>3. ASSUME NEW i \in DOMAIN requests, NEW m \in Roots, NEW outcome \in Outcomes,
             RecordDelivery(i, m, outcome)
      PROVE  Ledger!Next \/ UNCHANGED Ledger!vars
    <2>1. CASE Parked(m)
        <3>1. \E k \in Keys : m = EffectRoot(k)
            BY <2>1 DEF Parked, Roots, EffectRoot, Ledger!Graph!Roots, Ledger!Graph!RunRoot,
                        Ledger!Graph!UnitRoot, Ledger!Graph!AttemptRoot
        <3>2. m.key \in Keys
            BY <3>1 DEF EffectRoot
        <3>3. QED
            BY <1>3, <2>1, <3>2, Zenon DEF RecordDelivery, Ledger!Authority, Ledger!Next
    <2>2. CASE ~Parked(m)
        BY <1>3, <2>2, Zenon DEF RecordDelivery
    <2>3. QED
        BY <2>1, <2>2, Zenon
<1>4. ASSUME NEW r \in Runs, RunOpen(r)
      PROVE  Ledger!Next
    BY <1>4, Zenon DEF RunOpen, Ledger!GraphStep, Ledger!Next
<1>5. ASSUME NEW r \in Runs, \E outcome \in RunOutcomes : RunClose(r, outcome)
      PROVE  UNCHANGED Ledger!vars
    BY <1>5, Zenon DEF RunClose
<1>6. CASE Recover
    BY <1>6, Zenon DEF Recover, Ledger!Next
<1>7. CASE UNCHANGED vars
    BY <1>7, Zenon DEF vars
<1>8. QED
    BY <1>1, <1>2, <1>3, <1>4, <1>5, <1>6, <1>7, Zenon DEF Next

\* Cancellation implements the effect ledger (funnel/cancel.rs writes effect
\* rows only by parking them, run.close writes none), so what is proved of
\* the ledger, and through it of the fence, holds below it too.
THEOREM CancellationImplementsLedger == Spec => ImplementsLedger
<1>1. Init => Ledger!Init
    BY Zenon DEF Init
<1>2. QED
    BY <1>1, StepIsLedgerStep, PTL DEF Spec, ImplementsLedger, Ledger!Spec
-----------------------------------------------------------------------------
(***************************************************************************)
(* The control graph under cancellation.  What a request rests on never    *)
(* goes away: rows are never deleted, and a unit keeps its run.            *)
(***************************************************************************)
UnitShapes ==
    [version : Nat, epoch : Nat, stamp : Nat, run : Runs \cup {Ledger!Graph!NoRun}]

AttemptShapes ==
    [unit : Units, epoch : 1..MaxCount, stamp : Nat, authority : Nat,
     holder : Holders, status : {"active", "superseded"}]

GraphTyped ==
    /\ authority \in Nat
    /\ runs \subseteq Runs
    /\ units \in [Units -> UnitShapes]
    /\ attempts \subseteq AttemptShapes

\* An admitted unit belongs to a run that was opened.
UnitsHaveRuns == \A u \in Units : units[u].version > 0 => units[u].run \in runs

\* Every attempt belongs to an admitted unit; one that was superseded has a
\* successor, which the dispatch that superseded it wrote.
AttemptOK(a) ==
    /\ units[a.unit].version > 0
    /\ a.epoch <= units[a.unit].epoch
    /\ a.status = "superseded" => a.epoch < units[a.unit].epoch
    /\ a.epoch < units[a.unit].epoch =>
            \E b \in attempts : b.unit = a.unit /\ b.epoch = a.epoch + 1

AttemptsChained == \A a \in attempts : AttemptOK(a)

GraphInv == GraphTyped /\ UnitsHaveRuns /\ AttemptsChained

\* What a step of the control graph keeps.
GraphGrows ==
    /\ runs \subseteq runs'
    /\ cancelled \subseteq cancelled'
    /\ \A u \in Units : units[u].version > 0 =>
            units'[u].version > 0 /\ units'[u].run = units[u].run
    /\ \A a \in attempts : \E b \in attempts' :
            /\ b.unit = a.unit /\ b.epoch = a.epoch
            /\ a.status = "superseded" => b.status = "superseded"

\* A step that leaves units and attempts alone.
LEMMA GraphKept ==
  ASSUME GraphInv, UNCHANGED <<units, attempts>>, authority' \in Nat,
         runs \subseteq runs', runs' \subseteq Runs, cancelled \subseteq cancelled'
  PROVE  GraphInv' /\ GraphGrows
<1>1. GraphTyped'
  BY Zenon DEF GraphInv, GraphTyped
<1>2. UnitsHaveRuns'
  BY Zenon DEF GraphInv, UnitsHaveRuns
<1>3. AttemptsChained'
  BY Zenon DEF GraphInv, AttemptsChained, AttemptOK
<1>4. GraphGrows
  BY Zenon DEF GraphGrows
<1> QED BY <1>1, <1>2, <1>3, <1>4, Zenon DEF GraphInv

\* A step that rewrites the row of one unit and leaves its epoch alone.
LEMMA UnitRowKept ==
  ASSUME GraphInv, NEW u \in Units, NEW row \in UnitShapes,
         units' = [units EXCEPT ![u] = row], row.version > 0, row.run \in runs,
         UNCHANGED <<attempts, authority, runs, cancelled>>,
         units[u].version > 0 => row.run = units[u].run /\ row.epoch = units[u].epoch
  PROVE  GraphInv' /\ GraphGrows
<1>1. GraphTyped'
  BY Zenon DEF GraphInv, GraphTyped
<1>2. /\ \A v \in Units \ {u} : units'[v] = units[v]
      /\ units'[u] = row
  BY Zenon DEF GraphInv, GraphTyped
<1>3. UnitsHaveRuns'
  BY <1>2 DEF GraphInv, UnitsHaveRuns
<1>4. AttemptsChained'
  <2> SUFFICES ASSUME NEW a \in attempts PROVE AttemptOK(a)'
    BY Zenon DEF AttemptsChained
  <2>1. a.unit \in Units /\ AttemptOK(a)
    BY Zenon DEF GraphInv, GraphTyped, AttemptShapes, AttemptsChained
  <2>2. units'[a.unit].version > 0 /\ units'[a.unit].epoch = units[a.unit].epoch
    BY <1>2, <2>1, Zenon DEF AttemptOK
  <2> QED BY <2>1, <2>2, Zenon DEF AttemptOK
<1>5. GraphGrows
  BY <1>2, Zenon DEF GraphGrows
<1> QED BY <1>1, <1>3, <1>4, <1>5, Zenon DEF GraphInv

\* unit.dispatch: the rows keep their keys, the current one is superseded, and
\* the new one is its successor.
LEMMA DispatchGrows ==
  ASSUME GraphInv, NEW u \in Units, NEW h \in Holders, Ledger!Graph!UnitDispatch(u, h)
  PROVE  GraphInv' /\ GraphGrows
<1>1. /\ units[u] \in UnitShapes /\ authority \in Nat /\ units \in [Units -> UnitShapes]
      /\ runs \subseteq Runs /\ attempts \subseteq AttemptShapes
  BY Zenon DEF GraphInv, GraphTyped
<1>2. PICK row : row = [version |-> units[u].version + 1, epoch |-> units[u].epoch + 1,
                        stamp |-> units[u].stamp, run |-> units[u].run]
  BY Zenon
<1>3. /\ units' = [units EXCEPT ![u] = row]
      /\ units[u].version > 0 /\ units[u].epoch < MaxCount
      /\ UNCHANGED <<authority, runs, cancelled>>
  BY <1>2, Zenon DEF Ledger!Graph!UnitDispatch, Ledger!Graph!UnitExists
<1>4. /\ row \in UnitShapes /\ row.version > 0 /\ row.run = units[u].run
      /\ row.epoch = units[u].epoch + 1 /\ units[u].epoch \in Nat
  BY <1>1, <1>2 DEF UnitShapes
<1>5. PICK n : n = Ledger!Graph!NewAttempt(u, h)
  BY Zenon
<1>6. /\ n \in AttemptShapes /\ n.unit = u /\ n.epoch = units[u].epoch + 1
      /\ n.status = "active"
  BY <1>1, <1>3, <1>5, CountAssumption DEF Ledger!Graph!NewAttempt, AttemptShapes, UnitShapes
<1> DEFINE Sup(a) == IF a.unit = u /\ a.epoch = units[u].epoch
                     THEN [a EXCEPT !.status = "superseded"] ELSE a
<1>7. attempts' = {Sup(a) : a \in attempts} \cup {n}
  BY <1>5, Zenon DEF Ledger!Graph!UnitDispatch, Ledger!Graph!Superseded
<1>8. ASSUME NEW a \in attempts
      PROVE  /\ Sup(a) \in AttemptShapes
             /\ Sup(a).unit = a.unit /\ Sup(a).epoch = a.epoch
             /\ a.status = "superseded" => Sup(a).status = "superseded"
             /\ Sup(a).status = "superseded" =>
                    a.status = "superseded" \/ (a.unit = u /\ a.epoch = units[u].epoch)
  <2>1. a \in AttemptShapes
    BY <1>1, Zenon
  <2>2. CASE a.unit = u /\ a.epoch = units[u].epoch
    BY <2>1, <2>2, Zenon DEF AttemptShapes
  <2>3. CASE ~(a.unit = u /\ a.epoch = units[u].epoch)
    BY <2>1, <2>3, Zenon
  <2> QED BY <2>2, <2>3, Zenon
<1> HIDE DEF Sup
<1>9. /\ \A v \in Units \ {u} : units'[v] = units[v]
      /\ units'[u] = row
  BY <1>1, <1>3, Zenon
<1>10. GraphTyped'
  <2>1. attempts' \subseteq AttemptShapes
    BY <1>6, <1>7, <1>8, Zenon
  <2>2. units' \in [Units -> UnitShapes]
    BY <1>1, <1>3, <1>4, Zenon
  <2> QED BY <1>1, <1>3, <2>1, <2>2, Zenon DEF GraphTyped
<1>11. UnitsHaveRuns'
  BY <1>3, <1>4, <1>9 DEF GraphInv, UnitsHaveRuns
<1>12. AttemptsChained'
  <2> SUFFICES ASSUME NEW b \in attempts' PROVE AttemptOK(b)'
    BY Zenon DEF AttemptsChained
  <2>1. CASE b = n
    BY <1>4, <1>6, <1>9, <2>1 DEF AttemptOK
  <2>2. CASE b # n
    <3>1. PICK a \in attempts : b = Sup(a)
      BY <1>7, <2>2, Zenon
    <3>2. /\ b.unit = a.unit /\ b.epoch = a.epoch /\ a.unit \in Units /\ a.epoch \in Nat
          /\ b.status = "superseded" =>
                    a.status = "superseded" \/ (a.unit = u /\ a.epoch = units[u].epoch)
      BY <1>1, <1>8, <3>1 DEF AttemptShapes
    <3>3. AttemptOK(a) /\ units[a.unit].epoch \in Nat
      BY <1>1, <3>2, Zenon DEF GraphInv, AttemptsChained, UnitShapes
    <3>4. /\ units'[b.unit].version > 0 /\ b.epoch <= units'[b.unit].epoch
          /\ b.status = "superseded" => b.epoch < units'[b.unit].epoch
      BY <1>4, <1>9, <3>2, <3>3 DEF AttemptOK
    <3>5. ASSUME b.epoch < units'[b.unit].epoch
          PROVE  \E c \in attempts' : c.unit = b.unit /\ c.epoch = b.epoch + 1
      <4>1. CASE a.epoch < units[a.unit].epoch
        <5>1. PICK d \in attempts : d.unit = a.unit /\ d.epoch = a.epoch + 1
          BY <3>3, <4>1, Zenon DEF AttemptOK
        <5>2. Sup(d) \in attempts' /\ Sup(d).unit = d.unit /\ Sup(d).epoch = d.epoch
          BY <1>7, <1>8, Zenon
        <5> QED BY <3>2, <5>1, <5>2, Zenon
      <4>2. CASE ~(a.epoch < units[a.unit].epoch)
        <5>1. a.unit = u /\ a.epoch = units[u].epoch
          BY <1>9, <3>2, <3>3, <3>5, <4>2 DEF AttemptOK
        <5> QED BY <1>6, <1>7, <3>2, <5>1, Zenon
      <4> QED BY <4>1, <4>2, Zenon
    <3> QED BY <3>4, <3>5, Zenon DEF AttemptOK
  <2> QED BY <2>1, <2>2, Zenon
<1>13. GraphGrows
  <2>1. \A v \in Units : units[v].version > 0 =>
            units'[v].version > 0 /\ units'[v].run = units[v].run
    BY <1>4, <1>9, Zenon
  <2>2. \A a \in attempts : \E b \in attempts' :
            /\ b.unit = a.unit /\ b.epoch = a.epoch
            /\ a.status = "superseded" => b.status = "superseded"
    BY <1>7, <1>8, Zenon
  <2> QED BY <1>3, <2>1, <2>2, Zenon DEF GraphGrows
<1> QED BY <1>10, <1>11, <1>12, <1>13, Zenon DEF GraphInv

\* A step of the control graph keeps its rows.
LEMMA GraphNext ==
  ASSUME GraphInv, [Ledger!Graph!Next]_(Ledger!Graph!vars)
  PROVE  GraphInv' /\ GraphGrows
<1>0. authority \in Nat /\ runs \subseteq Runs /\ units \in [Units -> UnitShapes]
  BY Zenon DEF GraphInv, GraphTyped
<1>1. ASSUME NEW r \in Runs, Ledger!Graph!RunOpen(r)
      PROVE  GraphInv' /\ GraphGrows
  BY <1>0, <1>1, GraphKept, Zenon DEF Ledger!Graph!RunOpen
<1>2. ASSUME NEW w \in WorkItems, Ledger!Graph!WorkItemCreate(w)
      PROVE  GraphInv' /\ GraphGrows
  BY <1>0, <1>2, GraphKept, Zenon DEF Ledger!Graph!WorkItemCreate
<1>3. ASSUME NEW u \in Units, NEW r \in Runs, NEW w \in WorkItems, Ledger!Graph!UnitAdmit(u, r, w)
      PROVE  GraphInv' /\ GraphGrows
  <2>1. PICK row : row = [version |-> 1, epoch |-> 0, stamp |-> 0, run |-> r]
    BY Zenon
  <2>2. row \in UnitShapes /\ row.version = 1 /\ row.run = r
    BY <2>1, Zenon DEF UnitShapes
  <2>3. /\ units' = [units EXCEPT ![u] = row] /\ ~(units[u].version > 0) /\ r \in runs
        /\ UNCHANGED <<attempts, authority, runs, cancelled>>
    BY <1>3, <2>1, Zenon DEF Ledger!Graph!UnitAdmit, Ledger!Graph!UnitExists, Ledger!Graph!RunExists
  <2>4. row.version > 0
    BY <2>2
  <2> QED BY <2>2, <2>3, <2>4, UnitRowKept, Zenon
<1>4. ASSUME NEW u \in Units, NEW h \in Holders, Ledger!Graph!UnitDispatch(u, h)
      PROVE  GraphInv' /\ GraphGrows
  BY <1>4, DispatchGrows, Zenon
<1>5. ASSUME NEW u \in Units, Ledger!Graph!StampBump(u)
      PROVE  GraphInv' /\ GraphGrows
  <2>1. PICK row : row = [version |-> units[u].version + 1, epoch |-> units[u].epoch,
                          stamp |-> units[u].stamp + 1, run |-> units[u].run]
    BY Zenon
  <2>2. /\ row \in UnitShapes /\ row.version > 0 /\ row.run = units[u].run
        /\ row.epoch = units[u].epoch
    BY <1>0, <2>1 DEF UnitShapes
  <2>3. /\ units' = [units EXCEPT ![u] = row] /\ units[u].version > 0
        /\ UNCHANGED <<attempts, authority, runs, cancelled>>
    BY <1>5, <2>1, Zenon DEF Ledger!Graph!StampBump, Ledger!Graph!UnitExists
  <2>4. row.run \in runs
    BY <2>2, <2>3, Zenon DEF GraphInv, UnitsHaveRuns
  <2> QED BY <2>2, <2>3, <2>4, UnitRowKept, Zenon
<1>6. ASSUME NEW root \in Ledger!Graph!Roots, Ledger!Graph!CancelRequest(root)
      PROVE  GraphInv' /\ GraphGrows
  BY <1>0, <1>6, GraphKept, Zenon DEF Ledger!Graph!CancelRequest, Ledger!Graph!graph
<1>7. ASSUME NEW t \in attempts, Ledger!Graph!ProgressReport(t)
      PROVE  GraphInv' /\ GraphGrows
  BY <1>0, <1>7, GraphKept, Zenon DEF Ledger!Graph!ProgressReport, Ledger!Graph!graph
<1>8. CASE Ledger!Graph!Crash \/ Ledger!Graph!Recover
  BY <1>0, <1>8, GraphKept DEF Ledger!Graph!Crash, Ledger!Graph!Recover, Ledger!Graph!graph
<1>9. CASE UNCHANGED Ledger!Graph!vars
  BY <1>0, <1>9, GraphKept, Zenon DEF Ledger!Graph!vars, Ledger!Graph!graph
<1> QED BY <1>1, <1>2, <1>3, <1>4, <1>5, <1>6, <1>7, <1>8, <1>9, Zenon DEF Ledger!Graph!Next

-----------------------------------------------------------------------------
(***************************************************************************)
(* The effect rows under cancellation.                                     *)
(***************************************************************************)
RowStates == Ledger!DispatchEvidence \cup {"prepared", "settled"}

RowOK(k) ==
    /\ effects[k].unit \in Units
    /\ units[effects[k].unit].version > 0
    /\ effects[k].state \in RowStates
    /\ effects[k].state = "settled" <=> effects[k].terminal # Ledger!None

RowsInv ==
    /\ effects = [k \in Keys |-> effects[k]]
    /\ \A k \in Keys : effects[k].version \in Nat
    /\ \A k \in Keys : Ledger!Prepared(k) => RowOK(k)

\* effect.prepare: the row is new and nothing above it is cancelled.
Begun(k) ==
    /\ ~Ledger!Prepared(k)
    /\ effects'[k].version = 1
    /\ effects'[k].unit \in Units
    /\ units[effects'[k].unit].version > 0
    /\ effects'[k].state = "prepared" /\ effects'[k].terminal = Ledger!None
    /\ ~Ledger!Graph!Barred(Ledger!Graph!EffectLineage(effects'[k].unit))
    /\ UNCHANGED <<units, cancelled>>

\* The other commands: an open row is written again, and keeps its identity.
Rewritten(k) ==
    /\ Ledger!Prepared(k)
    /\ effects[k].terminal = Ledger!None
    /\ effects'[k].version = effects[k].version + 1
    /\ effects'[k].unit = effects[k].unit
    /\ effects'[k].epoch = effects[k].epoch
    /\ effects'[k].spec = effects[k].spec
    /\ effects'[k].state \in RowStates \ {"prepared"}
    /\ effects'[k].state = "settled" <=> effects'[k].terminal # Ledger!None
    /\ effects'[k].state = "dispatching" =>
            IF effects[k].state = "prepared" THEN ~Ledger!DispatchBarred(effects[k].unit, k)
            ELSE effects[k].spec.retry
    /\ effects'[k].state = "dispatched" => effects[k].state = "dispatching"
    /\ effects'[k].state = "reconciling" => effects[k].state \in Ledger!DispatchEvidence

RowStep(k) == effects'[k] = effects[k] \/ Begun(k) \/ Rewritten(k)

LedgerGrows ==
    /\ effects' = [k \in Keys |-> effects'[k]]
    /\ cancelledEffects \subseteq cancelledEffects'
    /\ \A k \in Keys : RowStep(k)

\* What the write of a row leaves of it.
LEMMA WriteRow ==
  ASSUME RowsInv, NEW k \in Keys, NEW state, NEW terminal, NEW targets,
         Ledger!Write(k, state, terminal, targets)
  PROVE  /\ effects' = [j \in Keys |-> effects'[j]]
         /\ \A j \in Keys \ {k} : effects'[j] = effects[j]
         /\ effects'[k].version = effects[k].version + 1
         /\ effects'[k].unit = effects[k].unit
         /\ effects'[k].epoch = effects[k].epoch
         /\ effects'[k].spec = effects[k].spec
         /\ effects'[k].state = state /\ effects'[k].terminal = terminal
  BY Zenon DEF RowsInv, Ledger!Write

\* A command that writes one row moves the ledger on if that row is moved on.
LEMMA WriteGrows ==
  ASSUME RowsInv, NEW k \in Keys, NEW state, NEW terminal, NEW targets,
         Ledger!Write(k, state, terminal, targets), Ledger!Open(k),
         cancelledEffects' = cancelledEffects,
         state \in RowStates \ {"prepared"},
         state = "settled" <=> terminal # Ledger!None,
         state = "dispatching" =>
            IF effects[k].state = "prepared" THEN ~Ledger!DispatchBarred(effects[k].unit, k)
            ELSE effects[k].spec.retry,
         state = "dispatched" => effects[k].state = "dispatching",
         state = "reconciling" => effects[k].state \in Ledger!DispatchEvidence
  PROVE  LedgerGrows
<1>1. Rewritten(k)
  BY WriteRow DEF Rewritten, Ledger!Open
<1>2. effects' = [j \in Keys |-> effects'[j]]
  BY WriteRow, Zenon
<1>3. \A j \in Keys \ {k} : effects'[j] = effects[j]
  BY WriteRow, Zenon
<1> QED BY <1>1, <1>2, <1>3, Zenon DEF LedgerGrows, RowStep

\* The commands of an agent.
LEMMA HolderGrows ==
  ASSUME GraphInv, RowsInv, Ledger!Holder
  PROVE  LedgerGrows
<1>1. PICK t \in attempts, k \in Keys :
        \/ \E s \in Specs : Ledger!EffectPrepare(t, k, s)
        \/ Ledger!EffectDispatch(t, k)
        \/ Ledger!EffectDispatchCancelled(t, k)
        \/ Ledger!EffectRecordDispatched(t, k)
  BY Zenon DEF Ledger!Holder
<1> USE DEF RowStates, Ledger!DispatchEvidence, Ledger!None
<1>2. ASSUME NEW s \in Specs, Ledger!EffectPrepare(t, k, s) PROVE LedgerGrows
  <2>1. /\ ~Ledger!Prepared(k) /\ cancelledEffects' = cancelledEffects
        /\ ~Ledger!Graph!Barred(Ledger!Graph!EffectLineage(t.unit))
        /\ UNCHANGED <<units, cancelled>>
    BY <1>2, Zenon DEF Ledger!EffectPrepare, Ledger!PrepareAnswer, Ledger!graphVars
  <2>2. PICK row : row = [version |-> 1, unit |-> t.unit, epoch |-> t.epoch, spec |-> s,
                          state |-> "prepared", terminal |-> "none",
                          targets |-> [x \in s.declared |-> "unknown"]]
    BY Zenon
  <2>3. effects' = [effects EXCEPT ![k] = row]
    BY <1>2, <2>2, Zenon DEF Ledger!EffectPrepare
  <2>4. /\ effects' = [j \in Keys |-> effects'[j]]
        /\ \A j \in Keys \ {k} : effects'[j] = effects[j]
        /\ effects'[k] = row
    BY <2>3, Zenon DEF RowsInv
  <2>5. row.version = 1 /\ row.unit = t.unit /\ row.state = "prepared" /\ row.terminal = "none"
    BY <2>2, Zenon
  <2>6. t.unit \in Units /\ units[t.unit].version > 0
    BY Zenon DEF GraphInv, GraphTyped, AttemptShapes, AttemptsChained, AttemptOK
  <2>7. Begun(k)
    BY <2>1, <2>4, <2>5, <2>6, Zenon DEF Begun
  <2> QED BY <2>1, <2>4, <2>7, Zenon DEF LedgerGrows, RowStep
<1>3. CASE Ledger!EffectDispatch(t, k)
  BY <1>3, WriteGrows DEF Ledger!EffectDispatch, Ledger!HolderOf, Ledger!MoveTo, Ledger!Open
<1>4. CASE Ledger!EffectDispatchCancelled(t, k)
  BY <1>4, WriteGrows DEF Ledger!EffectDispatchCancelled, Ledger!HolderOf
<1>5. CASE Ledger!EffectRecordDispatched(t, k)
  BY <1>5, WriteGrows DEF Ledger!EffectRecordDispatched, Ledger!HolderOf, Ledger!MoveTo, Ledger!Open
<1> QED BY <1>1, <1>2, <1>3, <1>4, <1>5, Zenon

\* The commands of the daemon.
LEMMA AuthorityGrows ==
  ASSUME RowsInv, Ledger!Authority
  PROVE  LedgerGrows
<1>1. PICK k \in Keys :
        \/ Ledger!EffectParkReconciling(k)
        \/ \E terminal \in Ledger!Terminals, rows \in SUBSET Targets, clean, told \in BOOLEAN :
                \E seen \in SUBSET rows : Ledger!EffectSettle(k, terminal, rows, seen, clean, told)
  BY Zenon DEF Ledger!Authority
<1> USE DEF RowStates, Ledger!DispatchEvidence, Ledger!None
<1>2. CASE Ledger!EffectParkReconciling(k)
  BY <1>2, WriteGrows, Zenon DEF Ledger!EffectParkReconciling, Ledger!AuthorityOver, Ledger!MoveTo, Ledger!Open
<1>3. ASSUME NEW terminal \in Ledger!Terminals, NEW rows \in SUBSET Targets,
             NEW clean \in BOOLEAN, NEW told \in BOOLEAN, NEW seen \in SUBSET rows,
             Ledger!EffectSettle(k, terminal, rows, seen, clean, told)
      PROVE  LedgerGrows
  <2>1. PICK targets : targets = Ledger!SettleTargets(k, rows, seen, clean)
    BY Zenon
  <2>2. /\ Ledger!Write(k, "settled", terminal, targets) /\ Ledger!Open(k)
        /\ cancelledEffects' = cancelledEffects
    BY <1>3, <2>1, Zenon DEF Ledger!EffectSettle, Ledger!AuthorityOver
  <2>3. terminal # "none"
    BY Zenon DEF Ledger!Terminals
  <2> QED BY <2>2, <2>3, WriteGrows, Zenon
<1> QED BY <1>1, <1>2, <1>3

\* Every step of the ledger.
LEMMA LedgerNext ==
  ASSUME GraphInv, RowsInv, [Ledger!Next]_(Ledger!vars)
  PROVE  LedgerGrows
<1>1. CASE Ledger!Holder
  BY <1>1, HolderGrows, Zenon
<1>2. CASE Ledger!Authority
  BY <1>2, AuthorityGrows, Zenon
<1>3. CASE ~Ledger!Holder /\ ~Ledger!Authority
  <2>1. effects' = effects /\ cancelledEffects \subseteq cancelledEffects'
    BY <1>3, Zenon DEF Ledger!Next, Ledger!GraphStep, Ledger!Cancel, Ledger!CancelEffect, Ledger!World,
                Ledger!AdapterActs, Ledger!Recover, Ledger!ledgerVars, Ledger!vars
  <2> QED BY <2>1, Zenon DEF LedgerGrows, RowStep, RowsInv
<1> QED BY <1>1, <1>2, <1>3, Zenon

\* A step of the ledger is a step of the control graph, or leaves it alone.
LEMMA LedgerStepIsGraphStep ==
  ASSUME [Ledger!Next]_(Ledger!vars)
  PROVE  [Ledger!Graph!Next]_(Ledger!Graph!vars)
<1> SUFFICES Ledger!Graph!Next \/ UNCHANGED Ledger!Graph!vars
  BY Zenon
<1> USE DEF Ledger!Graph!vars, Ledger!Graph!graph, Ledger!graphVars
<1>1. CASE Ledger!GraphStep
  BY <1>1, Zenon DEF Ledger!GraphStep, Ledger!Graph!Next
<1>2. CASE Ledger!Holder
  BY <1>2 DEF Ledger!Holder, Ledger!EffectPrepare, Ledger!EffectDispatch,
              Ledger!EffectDispatchCancelled, Ledger!EffectRecordDispatched
<1>3. CASE Ledger!Authority
  BY <1>3, SMTT(30) DEF Ledger!Authority, Ledger!EffectParkReconciling, Ledger!EffectSettle
<1>4. CASE Ledger!World
  BY <1>4, Zenon DEF Ledger!World, Ledger!AdapterActs
<1>5. CASE UNCHANGED Ledger!vars
  BY <1>5, Zenon DEF Ledger!vars
<1>6. CASE Ledger!Cancel \/ Ledger!Recover
  BY <1>6, Zenon DEF Ledger!Cancel, Ledger!CancelEffect, Ledger!Recover, Ledger!Graph!Next
<1> QED BY <1>1, <1>2, <1>3, <1>4, <1>5, <1>6, Zenon DEF Ledger!Next

BaseInv == GraphInv /\ RowsInv

\* The store starts empty.
LEMMA BaseInit == ASSUME Init PROVE BaseInv
<1>1. GraphInv
  BY DEF Init, Ledger!Init, Ledger!Graph!Init, Ledger!Graph!NoUnit, GraphInv, GraphTyped,
         UnitsHaveRuns, AttemptsChained, UnitShapes
<1>2. RowsInv
  BY DEF Init, Ledger!Init, Ledger!NoEffect, RowsInv, Ledger!Prepared
<1> QED BY <1>1, <1>2, Zenon DEF BaseInv

\* Whatever the step, the rows below stay and grow.
LEMMA BaseNext ==
  ASSUME BaseInv, [Next]_vars
  PROVE  BaseInv' /\ GraphGrows /\ LedgerGrows
<1>1. [Ledger!Next]_(Ledger!vars)
  BY StepIsLedgerStep, Zenon
<1>2. GraphInv' /\ GraphGrows
  BY <1>1, LedgerStepIsGraphStep, GraphNext, Zenon DEF BaseInv
<1>3. LedgerGrows
  BY <1>1, LedgerNext, Zenon DEF BaseInv
<1>4. RowsInv'
  <2>1. ASSUME NEW k \in Keys
        PROVE  effects'[k].version \in Nat /\ (Ledger!Prepared(k)' => RowOK(k)')
    <3>1. effects[k].version \in Nat /\ (Ledger!Prepared(k) => RowOK(k)) /\ RowStep(k)
      BY <1>3, Zenon DEF BaseInv, RowsInv, LedgerGrows
    <3>2. \A u \in Units : units[u].version > 0 => units'[u].version > 0
      BY <1>2, Zenon DEF GraphGrows
    <3>3. CASE effects'[k] = effects[k]
      BY <3>1, <3>2, <3>3, Zenon DEF RowOK, Ledger!Prepared
    <3>4. CASE Begun(k)
      BY <3>2, <3>4 DEF Begun, RowOK, RowStates, Ledger!None
    <3>5. CASE Rewritten(k)
      BY <3>1, <3>2, <3>5 DEF Rewritten, RowOK
    <3> QED BY <3>1, <3>3, <3>4, <3>5, Zenon DEF RowStep
  <2> QED BY <1>3, <2>1, Zenon DEF RowsInv, LedgerGrows
<1> QED BY <1>2, <1>3, <1>4, Zenon DEF BaseInv

\* The rows of the two layers below have the shape the rest relies on.
LEMMA BaseInductive == Spec => []BaseInv
<1>1. Init => BaseInv
  BY BaseInit, Zenon
<1>2. BaseInv /\ [Next]_vars => BaseInv'
  BY BaseNext, Zenon
<1> QED BY <1>1, <1>2, PTL DEF Spec

\* Once the effects of a cancelled run are all resolved they stay so and no new
\* one appears, for any runs, units and keys (run_rules.rs, success_blockers,
\* with the admission gate of effect.prepare).
THEOREM ResolvedForGood == Spec => CancelledRunStaysResolved
<1>1. BaseInv /\ [Next]_vars =>
        [\A r \in Runs :
            Ledger!Graph!RunRoot(r) \in cancelled /\ EffectBlockers(r) = {}
                => EffectBlockers(r)' = {}]_vars
  <2> SUFFICES ASSUME BaseInv, [Next]_vars, NEW r \in Runs,
                      Ledger!Graph!RunRoot(r) \in cancelled, EffectBlockers(r) = {},
                      NEW k \in Keys,
                      Ledger!Prepared(k)', units'[effects'[k].unit].run = r, EffectBlocks(k)'
               PROVE  FALSE
    BY Zenon DEF EffectBlockers
  <2>1. GraphGrows /\ RowStep(k) /\ RowsInv
    BY BaseNext, Zenon DEF LedgerGrows, BaseInv
  <2>2. CASE Begun(k)
    <3>1. Ledger!Graph!RunRoot(r) \in Ledger!Graph!EffectLineage(effects'[k].unit)
      BY <2>2, Zenon DEF Begun, Ledger!Graph!EffectLineage, Ledger!Graph!AttemptLineage
    <3> QED BY <2>2, <3>1, Zenon DEF Begun, Ledger!Graph!Barred
  <2>3. CASE Ledger!Prepared(k) /\ effects'[k].unit = effects[k].unit
    <3>1. units[effects[k].unit].run = r
      BY <2>1, <2>3, Zenon DEF RowsInv, RowOK, GraphGrows
    <3>2. ~EffectBlocks(k)
      BY <2>3, <3>1, Zenon DEF EffectBlockers
    <3>3. effects[k].terminal # Ledger!None
      BY <2>1, <2>3, <3>2, Zenon DEF EffectBlocks, Ledger!InState, RowsInv, RowOK
    <3>4. effects'[k] = effects[k]
      BY <2>1, <2>3, <3>3, Zenon DEF RowStep, Begun, Rewritten
    <3> QED BY <3>2, <3>4, Zenon DEF EffectBlocks, Ledger!InState, Ledger!Prepared
  <2>4. CASE effects'[k] = effects[k]
    BY <2>3, <2>4, Zenon DEF Ledger!Prepared
  <2>5. CASE Rewritten(k)
    BY <2>3, <2>5, Zenon DEF Rewritten
  <2> QED BY <2>1, <2>2, <2>4, <2>5, Zenon DEF RowStep
<1> QED BY <1>1, BaseInductive, PTL DEF Spec, CancelledRunStaysResolved

-----------------------------------------------------------------------------
(***************************************************************************)
(* The request rows.  Counted says that a row's version, deliveries,       *)
(* events and status tell one story; Grounded, that the graph below still  *)
(* shows what the request was accepted on.                                 *)
(***************************************************************************)
Facts == {Created(m) : m \in Roots} \cup {Ended(m) : m \in Roots}

Outcomings == UNION {[S -> Outcomes] : S \in SUBSET Roots}

EventRows == [member : Roots, status : Statuses]

RequestRows ==
    [root : Roots, scope : Seq(Roots), policy : Policies \cup {"unread"},
     history : SUBSET Facts, status : Statuses, version : Nat \ {0},
     rows : Outcomings, events : Seq(EventRows)]

Counted(q) ==
    /\ \A i, j \in 1..Len(q.scope) : q.scope[i] = q.scope[j] => i = j
    /\ q.version <= Len(q.scope) + 1
    /\ Len(q.events) = q.version - 1
    /\ Delivered(q) = {q.scope[j] : j \in 1..(q.version - 1)}
    /\ IsFiniteSet(Delivered(q)) /\ Cardinality(Delivered(q)) = q.version - 1
    /\ \A j \in 1..(q.version - 1) :
            /\ q.events[j].member = q.scope[j]
            /\ q.events[j].status = IF j = Len(q.scope) THEN q.status ELSE "delivering"
    /\ q.status = StatusAfter(Members(q), q.rows)
    /\ HistoryValid(q)

Committed(root) ==
    IF root.kind = "effect_intent" THEN root.key \in cancelledEffects ELSE root \in cancelled

Grounded(q) ==
    /\ RootValid(q)
    /\ Committed(q.root)
    /\ ScopeOwned(q)

Requested(q) == \E i \in 1..Len(requests) : requests[i] = q

RequestInv ==
    /\ requests \in Seq(RequestRows)
    /\ \A q \in RequestRows : Requested(q) => Counted(q) /\ Grounded(q)
    /\ runStatus \in [Runs -> RunOutcomes \cup {"none", "open"}]

CancelInv == BaseInv /\ RequestInv /\ DeliveredStaysStopped

\* A root is a run, a unit, an attempt or an effect.
LEMMA RootForms ==
  ASSUME NEW m \in Roots
  PROVE  \/ m.kind = "run" /\ m.run \in Runs /\ m = Ledger!Graph!RunRoot(m.run)
         \/ m.kind = "execution_unit" /\ m.unit \in Units /\ m = Ledger!Graph!UnitRoot(m.unit)
         \/ /\ m.kind = "attempt" /\ m.unit \in Units /\ m.epoch \in 1..MaxCount
            /\ m = Ledger!Graph!AttemptRoot(m.unit, m.epoch)
         \/ m.kind = "effect_intent" /\ m.key \in Keys /\ m = EffectRoot(m.key)
  BY DEF Roots, EffectRoot, Ledger!Graph!Roots, Ledger!Graph!RunRoot, Ledger!Graph!UnitRoot,
         Ledger!Graph!AttemptRoot

\* The depths.
LEMMA DepthOf ==
  ASSUME NEW m
  PROVE  /\ m.kind = "run" => Depth(m) = 0
         /\ m.kind = "execution_unit" => Depth(m) = 1
         /\ m.kind = "attempt" => Depth(m) = 2
         /\ m.kind = "effect_intent" => Depth(m) = 3
<1>1. ASSUME m.kind = "run" PROVE Depth(m) = 0
  BY <1>1, Zenon DEF Depth
<1>2. ASSUME m.kind = "execution_unit" PROVE Depth(m) = 1
  BY <1>2, Zenon DEF Depth
<1>3. ASSUME m.kind = "attempt" PROVE Depth(m) = 2
  BY <1>3, Zenon DEF Depth
<1>4. ASSUME m.kind = "effect_intent" PROVE Depth(m) = 3
  BY <1>4, Zenon DEF Depth
<1> QED BY <1>1, <1>2, <1>3, <1>4, Zenon

\* There are four depths.
LEMMA DepthRange == \A m \in Roots : Depth(m) \in 0..3
  BY RootForms, DepthOf

\* What exists goes on existing.
LEMMA ExistsKept ==
  ASSUME BaseInv, GraphGrows, LedgerGrows, NEW m \in Roots, Exists(m)
  PROVE  Exists(m)'
<1>1. CASE m.kind = "run"
  BY <1>1, Zenon DEF Exists, Ledger!Graph!RootExists, Ledger!Graph!RunExists, GraphGrows
<1>2. CASE m.kind = "execution_unit"
  <2>1. m.unit \in Units
    BY <1>2, RootForms, Zenon
  <2> QED BY <1>2, <2>1, Zenon DEF Exists, Ledger!Graph!RootExists, Ledger!Graph!UnitExists, GraphGrows
<1>3. CASE m.kind = "attempt"
  <2>1. PICK a \in attempts : a.unit = m.unit /\ a.epoch = m.epoch
    BY <1>3, Zenon DEF Exists, Ledger!Graph!RootExists
  <2>2. PICK b \in attempts' : b.unit = m.unit /\ b.epoch = m.epoch
    BY <2>1, Zenon DEF GraphGrows
  <2> QED BY <1>3, <2>2, Zenon DEF Exists, Ledger!Graph!RootExists
<1>4. CASE m.kind = "effect_intent"
  <2>1. m.key \in Keys
    BY <1>4, RootForms, Zenon
  <2>2. effects[m.key].version > 0 /\ effects[m.key].version \in Nat /\ RowStep(m.key)
    BY <1>4, <2>1, Zenon DEF Exists, Ledger!Prepared, BaseInv, RowsInv, LedgerGrows
  <2>3. effects'[m.key].version > 0
    BY <2>2 DEF RowStep, Begun, Rewritten
  <2> QED BY <1>4, <2>3, Zenon DEF Exists, Ledger!Prepared
<1> QED BY <1>1, <1>2, <1>3, <1>4, RootForms, Zenon

\* The identity of a prepared effect.
LEMMA RowIdentity ==
  ASSUME LedgerGrows, NEW k \in Keys, Ledger!Prepared(k)
  PROVE  /\ effects'[k].unit = effects[k].unit /\ effects'[k].epoch = effects[k].epoch
         /\ effects'[k].spec = effects[k].spec
         /\ effects'[k] = effects[k] \/ Rewritten(k)
  BY Zenon DEF LedgerGrows, RowStep, Begun, Rewritten

\* The unit a member belongs to was admitted, and stays the same.
LEMMA UnitOfKept ==
  ASSUME BaseInv, GraphGrows, LedgerGrows, NEW m \in Roots, Exists(m), m.kind # "run"
  PROVE  /\ UnitOf(m) \in Units /\ units[UnitOf(m)].version > 0
         /\ UnitOf(m)' = UnitOf(m)
         /\ RunOf(m)' = RunOf(m) /\ RunOf(m) \in Runs
<1>1. UnitOf(m) \in Units /\ units[UnitOf(m)].version > 0 /\ UnitOf(m)' = UnitOf(m)
  <2>1. CASE m.kind = "execution_unit"
    <3>1. m.unit \in Units
      BY <2>1, RootForms, Zenon
    <3>2. units[m.unit].version > 0
      BY <2>1, Zenon DEF Exists, Ledger!Graph!RootExists, Ledger!Graph!UnitExists
    <3> QED BY <2>1, <3>1, <3>2, Zenon DEF UnitOf
  <2>2. CASE m.kind = "attempt"
    <3>1. m.unit \in Units
      BY <2>2, RootForms, Zenon
    <3>2. PICK a \in attempts : a.unit = m.unit /\ a.epoch = m.epoch
      BY <2>2, Zenon DEF Exists, Ledger!Graph!RootExists
    <3>3. units[m.unit].version > 0
      BY <3>2, Zenon DEF BaseInv, GraphInv, AttemptsChained, AttemptOK
    <3> QED BY <2>2, <3>1, <3>3, Zenon DEF UnitOf
  <2>3. CASE m.kind = "effect_intent"
    <3>1. m.key \in Keys
      BY <2>3, RootForms, Zenon
    <3>2. Ledger!Prepared(m.key)
      BY <2>3, Zenon DEF Exists
    <3>3. RowOK(m.key)
      BY <3>1, <3>2, Zenon DEF BaseInv, RowsInv
    <3>4. effects'[m.key].unit = effects[m.key].unit
      BY <3>1, <3>2, RowIdentity, Zenon
    <3> QED BY <2>3, <3>3, <3>4, Zenon DEF UnitOf, RowOK
  <2> QED BY <2>1, <2>2, <2>3, RootForms, Zenon
<1>2. units'[UnitOf(m)].run = units[UnitOf(m)].run
  BY <1>1, Zenon DEF GraphGrows
<1>3. units[UnitOf(m)].run \in Runs
  BY <1>1, Zenon DEF BaseInv, GraphInv, GraphTyped, UnitsHaveRuns
<1>4. RunOf(m) = units[UnitOf(m)].run
  BY Zenon DEF RunOf
<1>5. RunOf(m)' = units'[UnitOf(m)].run
  BY <1>1, Zenon DEF RunOf
<1> QED BY <1>1, <1>2, <1>3, <1>4, <1>5, Zenon

\* A member stays under the root it was frozen under.
LEMMA UnderKept ==
  ASSUME BaseInv, GraphGrows, LedgerGrows, NEW root \in Roots, NEW m \in Roots, Under(root, m)
  PROVE  Under(root, m)'
<1>1. Exists(m) /\ Depth(root) < Depth(m)
  BY Zenon DEF Under
<1>2. Exists(m)'
  BY <1>1, ExistsKept, Zenon
<1>3. m.kind # "run"
  <2>1. Depth(root) \in 0..3
    BY DepthRange, Zenon
  <2> QED BY <1>1, <2>1, DepthOf
<1>4. UnitOf(m)' = UnitOf(m) /\ RunOf(m)' = RunOf(m)
  BY <1>1, <1>3, UnitOfKept, Zenon
<1>5. CASE root.kind = "run"
  BY <1>1, <1>2, <1>4, <1>5, Zenon DEF Under
<1>6. CASE root.kind = "execution_unit"
  BY <1>1, <1>2, <1>4, <1>6, Zenon DEF Under
<1>7. CASE root.kind = "attempt"
  <2>1. m.kind = "effect_intent"
    BY <1>1, <1>7, DepthOf, RootForms
  <2>2. m.key \in Keys /\ Ledger!Prepared(m.key)
    BY <1>1, <2>1, RootForms, Zenon DEF Exists
  <2>3. effects'[m.key].epoch = effects[m.key].epoch
    BY <2>2, RowIdentity, Zenon
  <2> QED BY <1>1, <1>2, <1>4, <1>7, <2>3, Zenon DEF Under
<1>8. CASE root.kind = "effect_intent"
  <2>1. Depth(root) = 3 /\ Depth(m) \in 0..3
    BY <1>8, DepthOf, DepthRange, Zenon
  <2> QED BY <1>1, <2>1
<1> QED BY <1>5, <1>6, <1>7, <1>8, RootForms, Zenon

\* What ended stays ended.
LEMMA TerminalKept ==
  ASSUME BaseInv, GraphGrows, LedgerGrows, NEW m \in Roots, Exists(m), Terminal(m),
         \A r \in runs : runStatus[r] # "open" => runStatus'[r] # "open"
  PROVE  Terminal(m)'
<1>1. CASE m.kind = "run"
  <2>1. m.run \in runs
    BY <1>1, Zenon DEF Exists, Ledger!Graph!RootExists, Ledger!Graph!RunExists
  <2> QED BY <1>1, <2>1, Zenon DEF Terminal
<1>2. CASE m.kind = "execution_unit"
  BY <1>2, Zenon DEF Terminal
<1>3. CASE m.kind = "attempt"
  <2>1. PICK a \in attempts : a.unit = m.unit /\ a.epoch = m.epoch /\ a.status = "superseded"
    BY <1>3, Zenon DEF Terminal
  <2>2. PICK b \in attempts' : b.unit = m.unit /\ b.epoch = m.epoch /\ b.status = "superseded"
    BY <2>1, Zenon DEF GraphGrows
  <2> QED BY <1>3, <2>2, Zenon DEF Terminal
<1>4. CASE m.kind = "effect_intent"
  <2>1. m.key \in Keys /\ Ledger!Prepared(m.key)
    BY <1>4, RootForms, Zenon DEF Exists
  <2>2. effects[m.key].terminal # Ledger!None
    BY <1>4, Zenon DEF Terminal
  <2>3. effects'[m.key] = effects[m.key]
    BY <2>1, <2>2, RowIdentity, Zenon DEF Rewritten
  <2> QED BY <1>4, <2>2, <2>3, Zenon DEF Terminal, Ledger!None
<1> QED BY <1>1, <1>2, <1>3, <1>4, RootForms, Zenon

\* A request stays grounded, whatever happens to its root and members.
LEMMA GroundedKept ==
  ASSUME BaseInv, GraphGrows, LedgerGrows, NEW q \in RequestRows, Grounded(q),
         \A r \in runs : runStatus[r] # "open" => runStatus'[r] # "open"
  PROVE  Grounded(q)'
<1>1. q.root \in Roots /\ Members(q) \subseteq Roots
  BY DEF RequestRows, Members
<1>2. Exists(q.root) /\ Exists(q.root)'
  BY <1>1, ExistsKept, Zenon DEF Grounded, RootValid
<1>3. RootValid(q)'
  <2>1. q.scope = <<>> => q.policy = "root_only" /\ Terminal(q.root)
    BY Zenon DEF Grounded, RootValid
  <2>2. q.scope = <<>> => Terminal(q.root)'
    BY <1>1, <1>2, <2>1, TerminalKept, Zenon
  <2> QED BY <1>2, <2>1, <2>2, Zenon DEF RootValid
<1>4. Committed(q.root)'
  BY Zenon DEF Grounded, Committed, GraphGrows, LedgerGrows
<1>5. ScopeOwned(q)'
  <2>1. ASSUME NEW m \in Members(q), m # q.root PROVE Under(q.root, m)'
    <3>1. Under(q.root, m)
      BY <2>1, Zenon DEF Grounded, ScopeOwned
    <3> QED BY <1>1, <3>1, UnderKept, Zenon
  <2>2. Members(q)' = Members(q)
    BY Zenon DEF Members
  <2> QED BY <2>1, <2>2, Zenon DEF ScopeOwned
<1> QED BY <1>3, <1>4, <1>5, Zenon DEF Grounded

\* The rows of a request with one more delivery.
LEMMA RowsWritten ==
  ASSUME NEW q \in RequestRows, NEW m \in Roots, NEW outcome \in Outcomes,
         NEW rows, rows = RowWritten(q, m, outcome)
  PROVE  /\ rows \in Outcomings /\ DOMAIN rows = Delivered(q) \cup {m}
         /\ rows[m] = outcome
         /\ \A n \in Delivered(q) \ {m} : rows[n] = q.rows[n]
<1>1. PICK S \in SUBSET Roots : q.rows \in [S -> Outcomes]
  BY Zenon DEF RequestRows, Outcomings
<1>2. Delivered(q) = S
  BY <1>1, Zenon DEF Delivered
<1>3. rows = [n \in S \cup {m} |-> IF n = m THEN outcome ELSE q.rows[n]]
  BY <1>2, Zenon DEF RowWritten
<1>4. rows \in [S \cup {m} -> Outcomes] /\ S \cup {m} \in SUBSET Roots
  BY <1>1, <1>3, Zenon
<1>5. rows \in Outcomings
  BY <1>4, Zenon DEF Outcomings
<1> QED BY <1>1, <1>2, <1>3, <1>5, Zenon

\* The status is one of the four.
LEMMA StatusShape == ASSUME NEW members, NEW rows PROVE StatusAfter(members, rows) \in Statuses
  BY Zenon DEF StatusAfter, Statuses

\* The update of a request row.
LEMMA RequestUpdate ==
  ASSUME NEW q \in RequestRows, NEW st \in Statuses, NEW v \in Nat \ {0},
         NEW rows \in Outcomings, NEW es \in Seq(EventRows),
         NEW p, p = [q EXCEPT !.status = st, !.version = v, !.rows = rows, !.events = es]
  PROVE  /\ p \in RequestRows
         /\ p.root = q.root /\ p.scope = q.scope /\ p.policy = q.policy /\ p.history = q.history
         /\ p.status = st /\ p.version = v /\ p.rows = rows /\ p.events = es
  BY Zenon DEF RequestRows

\* What recovery will look for is in the journal when a request is accepted.
LEMMA ProofsOnRecord ==
  ASSUME BaseInv, NEW root \in Roots, NEW members \in SUBSET Roots, NEW policy,
         RequestAccepted(root, policy, members)
  PROVE  Proofs(root, members) \subseteq Journal
<1>1. \A m \in members \cup {root} : m \in Roots /\ Exists(m)
  BY Zenon DEF RequestAccepted, Under
<1>2. CreationProofs(root, members) \subseteq Journal
  BY <1>1, Zenon DEF CreationProofs, Journal
<1>3. TerminalProofs(root, members) \subseteq Journal
  <2>1. CASE members # {}
    BY <2>1, Zenon DEF TerminalProofs
  <2>2. CASE members = {} /\ root.kind = "attempt"
    <3>1. Terminal(root)
      BY <2>2, Zenon DEF RequestAccepted
    <3>2. PICK a \in attempts : a.unit = root.unit /\ a.epoch = root.epoch /\ a.status = "superseded"
      BY <2>2, <3>1, Zenon DEF Terminal
    <3>3. PICK b \in attempts : b.unit = root.unit /\ b.epoch = root.epoch + 1
      BY <3>2, Zenon DEF BaseInv, GraphInv, AttemptsChained, AttemptOK
    <3>4. b.unit \in Units /\ b.epoch \in 1..MaxCount
      BY Zenon DEF BaseInv, GraphInv, GraphTyped, AttemptShapes
    <3>5. PICK n : n = [root EXCEPT !.epoch = @ + 1]
      BY Zenon
    <3>6. root = [kind |-> "attempt", unit |-> root.unit, epoch |-> root.epoch]
      BY <2>2, RootForms, Zenon DEF Ledger!Graph!AttemptRoot
    <3>7. n = [kind |-> "attempt", unit |-> b.unit, epoch |-> b.epoch]
      BY <3>3, <3>5, <3>6
    <3>8. n \in Roots
      BY <3>4, <3>7 DEF Roots, Ledger!Graph!Roots, Ledger!Graph!AttemptRoot
    <3>9. n.kind = "attempt" /\ n.unit = b.unit /\ n.epoch = b.epoch
      BY <3>7, Zenon
    <3>10. Exists(n)
      BY <3>9, Zenon DEF Exists, Ledger!Graph!RootExists
    <3> QED BY <2>2, <3>5, <3>8, <3>10, Zenon DEF TerminalProofs, Journal
  <2>3. CASE members = {} /\ root.kind # "attempt"
    <3>1. Terminal(root) /\ Exists(root)
      BY <2>3, Zenon DEF RequestAccepted
    <3>2. root.kind \in {"run", "effect_intent"}
      BY <2>3, <3>1, RootForms, Zenon DEF Terminal
    <3> QED BY <2>3, <3>1, <3>2, Zenon DEF TerminalProofs, Journal
  <2> QED BY <2>1, <2>2, <2>3, Zenon
<1> QED BY <1>2, <1>3, Zenon DEF Proofs

\* No step reopens a run.
LEMMA RunStatusKept ==
  ASSUME GraphInv, runStatus \in [Runs -> RunOutcomes \cup {"none", "open"}], [Next]_vars
  PROVE  /\ \A r \in runs : runStatus[r] # "open" => runStatus'[r] # "open"
         /\ runStatus' \in [Runs -> RunOutcomes \cup {"none", "open"}]
<1>1. CASE runStatus' = runStatus
  BY <1>1, Zenon
<1>2. ASSUME NEW r \in Runs, RunOpen(r)
      PROVE  /\ \A x \in runs : runStatus[x] # "open" => runStatus'[x] # "open"
             /\ runStatus' \in [Runs -> RunOutcomes \cup {"none", "open"}]
  <2>1. r \notin runs /\ runStatus' = [runStatus EXCEPT ![r] = "open"] /\ runs \subseteq Runs
    BY <1>2, Zenon DEF RunOpen, Ledger!Graph!RunOpen, Ledger!Graph!RunExists, GraphInv, GraphTyped
  <2> QED BY <2>1, Zenon
<1>3. ASSUME NEW r \in Runs, NEW outcome \in RunOutcomes, RunClose(r, outcome)
      PROVE  /\ \A x \in runs : runStatus[x] # "open" => runStatus'[x] # "open"
             /\ runStatus' \in [Runs -> RunOutcomes \cup {"none", "open"}]
  <2>1. runStatus' = [runStatus EXCEPT ![r] = outcome] /\ runs \subseteq Runs /\ outcome # "open"
    BY <1>3, Zenon DEF RunClose, GraphInv, GraphTyped, RunOutcomes
  <2> QED BY <2>1, Zenon
<1>4. CASE LedgerStep \/ Cancel \/ Recover \/ UNCHANGED vars
  BY <1>1, <1>4, Zenon DEF LedgerStep, Cancel, CancelRequest, Recover, cancelVars, vars
<1>5. ASSUME NEW i \in DOMAIN requests, NEW m \in Roots, NEW outcome \in Outcomes,
             RecordDelivery(i, m, outcome)
      PROVE  runStatus' = runStatus
  BY <1>5, Zenon DEF RecordDelivery
<1> QED BY <1>1, <1>2, <1>3, <1>4, <1>5, Zenon DEF Next

\* The dispatch of a member is barred by the root it was frozen under.
LEMMA MemberBarred ==
  ASSUME BaseInv, NEW q \in RequestRows, Grounded(q), NEW m \in Members(q),
         m.kind = "effect_intent"
  PROVE  /\ m.key \in Keys /\ Ledger!Prepared(m.key)
         /\ Ledger!DispatchBarred(effects[m.key].unit, m.key)
<1>1. q.root \in Roots /\ m \in Roots
  BY DEF RequestRows, Members
<1>2. m.key \in Keys
  BY <1>1, RootForms, Zenon
<1>3. CASE m = q.root
  <2>1. m.key \in cancelledEffects /\ Exists(m)
    BY <1>3, Zenon DEF Grounded, Committed, RootValid
  <2> QED BY <1>2, <2>1, Zenon DEF Exists, Ledger!DispatchBarred
<1>4. CASE m # q.root
  <2>1. Under(q.root, m)
    BY <1>4, Zenon DEF Grounded, ScopeOwned
  <2>2. Ledger!Prepared(m.key)
    BY <2>1, Zenon DEF Under, Exists
  <2>3. UnitOf(m) = effects[m.key].unit /\ RunOf(m) = units[effects[m.key].unit].run
    BY Zenon DEF UnitOf, RunOf
  <2>4. q.root.kind # "effect_intent"
    BY <1>1, <2>1, DepthOf DEF Under
  <2>5. q.root \in cancelled
    BY <2>4, Zenon DEF Grounded, Committed
  <2>6. CASE q.root.kind = "run"
    <3>1. q.root = Ledger!Graph!RunRoot(units[effects[m.key].unit].run)
      BY <1>1, <2>1, <2>3, <2>6, RootForms, Zenon DEF Under
    <3> QED BY <1>2, <2>2, <2>5, <3>1, Zenon DEF Ledger!DispatchBarred, Ledger!Graph!Barred,
                Ledger!Graph!EffectLineage, Ledger!Graph!AttemptLineage
  <2>7. CASE q.root.kind = "execution_unit"
    <3>1. q.root = Ledger!Graph!UnitRoot(effects[m.key].unit)
      BY <1>1, <2>1, <2>3, <2>7, RootForms, Zenon DEF Under
    <3> QED BY <1>2, <2>2, <2>5, <3>1, Zenon DEF Ledger!DispatchBarred, Ledger!Graph!Barred,
                Ledger!Graph!EffectLineage, Ledger!Graph!AttemptLineage
  <2>8. CASE q.root.kind = "attempt"
    <3>1. q.root = Ledger!Graph!AttemptRoot(effects[m.key].unit, effects[m.key].epoch)
      BY <1>1, <2>1, <2>3, <2>8, RootForms, Zenon DEF Under
    <3> QED BY <1>2, <2>2, <2>5, <3>1, Zenon DEF Ledger!DispatchBarred, Ledger!Graph!Barred
  <2> QED BY <1>1, <2>4, <2>6, <2>7, <2>8, RootForms, Zenon
<1> QED BY <1>3, <1>4, Zenon

\* Retried, or unused, parked or settled.
Stopped(k) ==
    effects[k].spec.retry \/ Ledger!InState(k, {"prepared", "reconciling", "settled"})

\* An effect below a committed root stays stopped.
LEMMA StoppedKept ==
  ASSUME BaseInv, LedgerGrows, NEW k \in Keys, Ledger!Prepared(k),
         Ledger!DispatchBarred(effects[k].unit, k), Stopped(k)
  PROVE  Stopped(k)'
<1>1. CASE effects'[k] = effects[k]
  BY <1>1, Zenon DEF Stopped, Ledger!InState, Ledger!Prepared
<1>2. CASE Rewritten(k)
  <2>1. effects[k].version \in Nat
    BY Zenon DEF BaseInv, RowsInv
  <2> QED BY <1>2, <2>1 DEF Stopped, Rewritten, Ledger!InState, Ledger!Prepared, RowStates,
                   Ledger!DispatchEvidence
<1> QED BY <1>1, <1>2, RowIdentity, Zenon

\* A delivery stops the effect it is for, unless it may be retried.
LEMMA DeliveryStops ==
  ASSUME BaseInv, NEW i \in DOMAIN requests, NEW m \in Roots, NEW outcome \in Outcomes,
         RecordDelivery(i, m, outcome), m.kind = "effect_intent", Ledger!Prepared(m.key)
  PROVE  Stopped(m.key)'
<1>1. m.key \in Keys
  BY RootForms, Zenon
<1>2. RowsInv /\ RowOK(m.key) /\ effects[m.key].version \in Nat
  BY <1>1, Zenon DEF BaseInv, RowsInv
<1>3. CASE Parked(m)
  <2>1. Ledger!Write(m.key, "reconciling", effects[m.key].terminal, effects[m.key].targets)
    BY <1>3, Zenon DEF RecordDelivery, Ledger!EffectParkReconciling, Ledger!MoveTo
  <2>2. effects'[m.key].state = "reconciling" /\ effects'[m.key].version = effects[m.key].version + 1
    BY <1>1, <1>2, <2>1, WriteRow, Zenon
  <2> QED BY <1>2, <2>2 DEF Stopped, Ledger!InState, Ledger!Prepared
<1>4. CASE ~Parked(m)
  <2>1. effects' = effects
    BY <1>4, Zenon DEF RecordDelivery, ledgerVars
  <2> QED BY <1>2, <1>4, <2>1, Zenon DEF Parked, Stopped, Ledger!InState, Ledger!Prepared, RowOK, RowStates,
                   Ledger!DispatchEvidence
<1> QED BY <1>3, <1>4, Zenon

\* A row of the table is a request.
LEMMA RequestFacts ==
  ASSUME RequestInv, NEW i \in DOMAIN requests
  PROVE  /\ requests[i] \in RequestRows /\ Requested(requests[i])
         /\ Counted(requests[i]) /\ Grounded(requests[i])
         /\ Delivered(requests[i]) \subseteq Members(requests[i])
<1>1. requests \in Seq(RequestRows) /\ DOMAIN requests = 1..Len(requests)
  BY DEF RequestInv
<1>2. PICK q \in RequestRows : q = requests[i]
  BY <1>1
<1>3. Requested(q)
  BY <1>1, <1>2, Zenon DEF Requested
<1>4. Counted(q) /\ Grounded(q)
  BY <1>3, Zenon DEF RequestInv
<1>5. Delivered(q) \subseteq Members(q)
  <2>1. q.scope \in Seq(Roots) /\ q.version \in Nat \ {0}
    BY Zenon DEF RequestRows
  <2>2. 1..(q.version - 1) \subseteq DOMAIN q.scope
    BY <1>4, <2>1 DEF Counted
  <2>3. Delivered(q) = {q.scope[j] : j \in 1..(q.version - 1)}
    BY <1>4, Zenon DEF Counted
  <2> QED BY <2>2, <2>3, Zenon DEF Members
<1> QED BY <1>2, <1>3, <1>4, <1>5, Zenon

\* What was delivered stays stopped.
LEMMA OldDeliveries ==
  ASSUME CancelInv, LedgerGrows, NEW i \in DOMAIN requests, NEW m \in Delivered(requests[i]),
         m.kind = "effect_intent"
  PROVE  Stopped(m.key)'
<1>1. PICK q \in RequestRows : q = requests[i]
  BY RequestFacts, Zenon DEF CancelInv
<1>2. Grounded(q) /\ m \in Members(q)
  BY <1>1, RequestFacts, Zenon DEF CancelInv
<1>3. /\ m.key \in Keys /\ Ledger!Prepared(m.key)
      /\ Ledger!DispatchBarred(effects[m.key].unit, m.key)
  BY <1>2, MemberBarred, Zenon DEF CancelInv
<1>4. Stopped(m.key)
  BY Zenon DEF CancelInv, DeliveredStaysStopped, Stopped
<1> QED BY <1>3, <1>4, StoppedKept, Zenon DEF CancelInv

\* A step that leaves the requests alone.
LEMMA RequestsKept ==
  ASSUME CancelInv, [Next]_vars, requests' = requests
  PROVE  RequestInv' /\ DeliveredStaysStopped'
<1>1. BaseInv /\ GraphGrows /\ LedgerGrows
  BY BaseNext, Zenon DEF CancelInv
<1>2. /\ \A r \in runs : runStatus[r] # "open" => runStatus'[r] # "open"
      /\ runStatus' \in [Runs -> RunOutcomes \cup {"none", "open"}]
  BY <1>1, RunStatusKept, Zenon DEF CancelInv, BaseInv, RequestInv
<1>3. ASSUME NEW q \in RequestRows, Requested(q)' PROVE Counted(q) /\ Grounded(q)'
  <2>1. Requested(q)
    BY <1>3, Zenon DEF Requested
  <2>2. Counted(q) /\ Grounded(q)
    BY <2>1, Zenon DEF CancelInv, RequestInv
  <2> QED BY <1>1, <1>2, <2>2, GroundedKept, Zenon
<1>4. RequestInv'
  BY <1>2, <1>3, Zenon DEF CancelInv, RequestInv
<1>5. DeliveredStaysStopped'
  <2> SUFFICES ASSUME NEW i \in DOMAIN requests, NEW m \in Delivered(requests[i]),
                      m.kind = "effect_intent", ~effects'[m.key].spec.retry
               PROVE  Ledger!InState(m.key, {"prepared", "reconciling", "settled"})'
    BY Zenon DEF DeliveredStaysStopped
  <2>1. Stopped(m.key)'
    BY <1>1, OldDeliveries, Zenon
  <2> QED BY <2>1, Zenon DEF Stopped
<1> QED BY <1>4, <1>5, Zenon

-----------------------------------------------------------------------------
(***************************************************************************)
(* CancelScope::freeze.  Any finite set of roots has an order with the     *)
(* leaves first: one order for each of the four depths, one after another. *)
(***************************************************************************)
LeavesFirst(s) == \A i, j \in DOMAIN s : i < j => Depth(s[i]) >= Depth(s[j])

HasOrder(S) == \E s \in Orders(S) : LeavesFirst(s)

Fin(S) == IsFiniteSet(S)

Card(S) == Cardinality(S)

\* What is used of finite sets and of their cardinality; FiniteHolds, below,
\* proves it.
Finite ==
    /\ Fin({}) /\ Card({}) = 0
    /\ \A S, m : Fin(S) /\ m \notin S => Fin(S \cup {m}) /\ Card(S \cup {m}) = Card(S) + 1
    /\ \A S, T : Fin(S) /\ Fin(T) /\ S \cap T = {} =>
            Fin(S \cup T) /\ Card(S \cup T) = Card(S) + Card(T)
    /\ \A S : \A T \in SUBSET S : Fin(S) => Fin(T)
    /\ \A S : Fin(S) =>
            /\ Card(S) \in Nat
            /\ \E s \in [1..Card(S) -> S] : \A m \in S : \E i \in 1..Card(S) : s[i] = m
            /\ \A s \in [1..Card(S) -> S] :
                    (\A m \in S : \E i \in 1..Card(S) : s[i] = m)
                        => \A i, j \in 1..Card(S) : s[i] = s[j] => i = j

\* Members of one depth may be taken in any order.
LEMMA LevelOrder ==
  ASSUME Finite, NEW S, IsFiniteSet(S), NEW d \in 0..3, \A m \in S : Depth(m) = d
  PROVE  HasOrder(S)
<1>1. PICK s : s \in Orders(S)
  BY DEF Finite, Fin, Card, Orders
<1>2. LeavesFirst(s)
  BY <1>1 DEF LeavesFirst, Orders
<1> QED BY <1>1, <1>2, Zenon DEF HasOrder

\* An order of the deeper members, then one of the others.
LEMMA JoinOrders ==
  ASSUME Finite, NEW A, IsFiniteSet(A), HasOrder(A), NEW B, IsFiniteSet(B), HasOrder(B),
         A \cap B = {}, \A x \in A, y \in B : Depth(x) >= Depth(y)
  PROVE  IsFiniteSet(A \cup B) /\ HasOrder(A \cup B)
<1>1. PICK a \in Orders(A) : LeavesFirst(a)
  BY Zenon DEF HasOrder
<1>2. PICK b \in Orders(B) : LeavesFirst(b)
  BY Zenon DEF HasOrder
<1>3. PICK na, nb : na = Cardinality(A) /\ nb = Cardinality(B)
  BY Zenon
<1>4. na \in Nat /\ nb \in Nat
  BY <1>3, Zenon DEF Finite, Fin, Card
<1>5. IsFiniteSet(A \cup B) /\ Cardinality(A \cup B) = na + nb
  BY <1>3, Zenon DEF Finite, Fin, Card
<1>6. /\ a \in [1..na -> A] /\ \A m \in A : \E i \in 1..na : a[i] = m
      /\ b \in [1..nb -> B] /\ \A m \in B : \E i \in 1..nb : b[i] = m
  BY <1>3, Zenon DEF Orders
<1>7. PICK s : s = [i \in 1..(na + nb) |-> IF i <= na THEN a[i] ELSE b[i - na]]
  BY Zenon
<1>8. \A i \in 1..(na + nb) : IF i <= na THEN i \in 1..na /\ s[i] = a[i] /\ s[i] \in A
                              ELSE i - na \in 1..nb /\ s[i] = b[i - na] /\ s[i] \in B
  BY <1>4, <1>6, <1>7
<1>9. s \in [1..(na + nb) -> A \cup B] /\ DOMAIN s = 1..(na + nb)
  BY <1>7, <1>8, Zenon
<1>10. \A m \in A \cup B : \E i \in DOMAIN s : s[i] = m
  <2>1. ASSUME NEW m \in A PROVE \E i \in DOMAIN s : s[i] = m
    BY <1>4, <1>6, <1>8, <1>9
  <2>2. ASSUME NEW m \in B PROVE \E i \in DOMAIN s : s[i] = m
    <3>1. PICK j \in 1..nb : b[j] = m
      BY <1>6, Zenon
    <3>2. j + na \in 1..(na + nb) /\ ~(j + na <= na) /\ (j + na) - na = j
      BY <1>4
    <3> QED BY <1>8, <1>9, <3>1, <3>2, Zenon
  <2> QED BY <2>1, <2>2, Zenon
<1>11. LeavesFirst(s)
  <2> SUFFICES ASSUME NEW i \in 1..(na + nb), NEW j \in 1..(na + nb), i < j
               PROVE  Depth(s[i]) >= Depth(s[j])
    BY <1>9, Zenon DEF LeavesFirst
  <2>1. CASE j <= na
    BY <1>1, <1>4, <1>6, <1>8, <2>1 DEF LeavesFirst
  <2>2. CASE i <= na /\ ~(j <= na)
    BY <1>4, <1>8, <2>2, Zenon
  <2>3. CASE ~(i <= na)
    <3>1. ~(j <= na) /\ i - na < j - na
      BY <1>4, <2>3
    <3> QED BY <1>2, <1>4, <1>6, <1>8, <2>3, <3>1, Zenon DEF LeavesFirst
  <2> QED BY <1>4, <2>1, <2>2, <2>3, Zenon
<1>12. s \in Orders(A \cup B)
  BY <1>5, <1>9, <1>10, Zenon DEF Orders
<1> QED BY <1>5, <1>11, <1>12, Zenon DEF HasOrder

\* Every finite scope can be frozen.
LEMMA OrderExists ==
  ASSUME Finite, NEW S \in SUBSET Roots, IsFiniteSet(S)
  PROVE  HasOrder(S)
<1> DEFINE Level(d) == {m \in S : Depth(m) = d}
<1>1. ASSUME NEW d \in 0..3 PROVE IsFiniteSet(Level(d)) /\ HasOrder(Level(d))
  <2>1. Level(d) \subseteq S /\ \A m \in Level(d) : Depth(m) = d
    BY Zenon
  <2>2. IsFiniteSet(Level(d))
    BY <2>1, Zenon DEF Finite, Fin, Card
  <2> HIDE DEF Level
  <2> QED BY <2>1, <2>2, LevelOrder, Zenon
<1>2. PICK A : A = Level(3) \cup Level(2)
  BY Zenon
<1>3. PICK B : B = Level(1) \cup Level(0)
  BY Zenon
<1>4. /\ \A m \in Level(0) : Depth(m) = 0
      /\ \A m \in Level(1) : Depth(m) = 1
      /\ \A m \in Level(2) : Depth(m) = 2
      /\ \A m \in Level(3) : Depth(m) = 3
  BY Zenon
<1>5. A \cup B = S
  BY <1>2, <1>3, DepthRange
<1> HIDE DEF Level
<1>6. IsFiniteSet(A) /\ HasOrder(A)
  <2>1. Level(3) \cap Level(2) = {} /\ \A x \in Level(3), y \in Level(2) : Depth(x) >= Depth(y)
    BY <1>4
  <2> QED BY <1>1, <1>2, <2>1, JoinOrders
<1>7. IsFiniteSet(B) /\ HasOrder(B)
  <2>1. Level(1) \cap Level(0) = {} /\ \A x \in Level(1), y \in Level(0) : Depth(x) >= Depth(y)
    BY <1>4
  <2> QED BY <1>1, <1>3, <2>1, JoinOrders
<1>8. A \cap B = {} /\ \A x \in A, y \in B : Depth(x) >= Depth(y)
  BY <1>2, <1>3, <1>4
<1> QED BY <1>5, <1>6, <1>7, <1>8, JoinOrders, Zenon

\* The frozen scope holds every member once.
LEMMA FrozenScope ==
  ASSUME Finite, NEW S \in SUBSET Roots, IsFiniteSet(S)
  PROVE  /\ Freeze(S) \in Seq(Roots)
         /\ {Freeze(S)[i] : i \in DOMAIN Freeze(S)} = S
         /\ Len(Freeze(S)) = Cardinality(S)
         /\ \A i, j \in 1..Len(Freeze(S)) : Freeze(S)[i] = Freeze(S)[j] => i = j
<1>1. PICK s : s = Freeze(S)
  BY Zenon
<1>2. s \in Orders(S)
  <2>1. \E x \in Orders(S) : \A i, j \in DOMAIN x : i < j => Depth(x[i]) >= Depth(x[j])
    BY OrderExists, Zenon DEF HasOrder, LeavesFirst
  <2> QED BY <1>1, <2>1, Zenon DEF Freeze
<1>3. PICK n \in Nat : n = Cardinality(S)
  BY Zenon DEF Finite, Fin, Card
<1>4. s \in [1..n -> S] /\ \A m \in S : \E i \in 1..n : s[i] = m
  BY <1>2, <1>3, Zenon DEF Orders
<1>5. s \in Seq(Roots) /\ Len(s) = n /\ DOMAIN s = 1..n
  BY <1>4
<1>6. {s[i] : i \in DOMAIN s} = S
  BY <1>4, Zenon
<1>7. \A i, j \in 1..n : s[i] = s[j] => i = j
  <2>1. Fin(S) /\ Card(S) = n
    BY <1>3, Zenon DEF Fin, Card
  <2>2. \A x \in [1..Card(S) -> S] :
            (\A m \in S : \E i \in 1..Card(S) : x[i] = m)
                => \A i, j \in 1..Card(S) : x[i] = x[j] => i = j
    BY <2>1, Zenon DEF Finite
  <2> QED BY <1>4, <2>1, <2>2, Zenon
<1> QED BY <1>1, <1>3, <1>5, <1>6, <1>7, Zenon

-----------------------------------------------------------------------------
\* The requests of one step.
\* A delivery is recorded for the next member, and the story goes on.
LEMMA DeliveryCounted ==
  ASSUME Finite, NEW q \in RequestRows, Counted(q), NEW m \in Roots,
         m \in Members(q) \ Delivered(q), IsNext(q, m),
         NEW rows, DOMAIN rows = Delivered(q) \cup {m},
         NEW st \in Statuses, st = StatusAdvanced(q, rows),
         NEW e \in EventRows, e.member = m, e.status = st,
         NEW p \in RequestRows,
         p.root = q.root, p.scope = q.scope, p.history = q.history, p.status = st,
         p.version = q.version + 1, p.rows = rows, p.events = Append(q.events, e)
  PROVE  Counted(p) /\ Delivered(p) = Delivered(q) \cup {m}
<1>1. /\ q.root \in Roots /\ q.scope \in Seq(Roots) /\ q.history \in SUBSET Facts
      /\ q.version \in Nat \ {0} /\ q.events \in Seq(EventRows) /\ q.status \in Statuses
      /\ Len(q.scope) \in Nat /\ DOMAIN q.scope = 1..Len(q.scope)
  BY DEF RequestRows
<1>2. PICK es : es = Append(q.events, e)
  BY Zenon
<1>3. PICK v : v = q.version + 1
  BY Zenon
<1>4. /\ Len(es) = Len(q.events) + 1
      /\ \A j \in 1..Len(q.events) : es[j] = q.events[j]
      /\ es[Len(q.events) + 1] = e
  BY <1>1, <1>2
<1>7. p.events = es /\ p.version = v
  BY <1>2, <1>3, Zenon
<1>8. Delivered(p) = Delivered(q) \cup {m} /\ Members(p) = Members(q)
  BY Zenon DEF Delivered, Members
<1>9. /\ \A i, j \in 1..Len(q.scope) : q.scope[i] = q.scope[j] => i = j
      /\ q.version <= Len(q.scope) + 1 /\ Len(q.events) = q.version - 1
      /\ Delivered(q) = {q.scope[j] : j \in 1..(q.version - 1)}
      /\ IsFiniteSet(Delivered(q)) /\ Cardinality(Delivered(q)) = q.version - 1
  BY Zenon DEF Counted
<1>10. q.version \in 1..Len(q.scope) /\ q.scope[q.version] = m
  <2>1. PICK j \in 1..Len(q.scope) : q.scope[j] = m
    BY <1>1, Zenon DEF Members
  <2>2. j \notin 1..(q.version - 1)
    BY <1>9, <2>1, Zenon
  <2> QED BY <1>1, <2>1, <2>2, SMTT(30) DEF IsNext
<1>11. v - 1 = q.version /\ 1..(v - 1) = 1..(q.version - 1) \cup {q.version}
  BY <1>1, <1>3
<1>12. Delivered(p) = {p.scope[j] : j \in 1..(p.version - 1)}
  BY <1>7, <1>8, <1>9, <1>10, <1>11
<1>13. IsFiniteSet(Delivered(p)) /\ Cardinality(Delivered(p)) = p.version - 1
  <2>1. m \notin Delivered(q)
    BY Zenon
  <2>2. /\ IsFiniteSet(Delivered(q) \cup {m})
        /\ Cardinality(Delivered(q) \cup {m}) = Cardinality(Delivered(q)) + 1
    BY <1>9, <2>1, Zenon DEF Finite, Fin, Card
  <2>3. Cardinality(Delivered(p)) = (q.version - 1) + 1 /\ IsFiniteSet(Delivered(p))
    BY <1>8, <1>9, <2>2, Zenon
  <2>4. p.version - 1 = (q.version - 1) + 1
    BY <1>1
  <2> QED BY <2>3, <2>4, Zenon
<1>14. p.status = StatusAfter(Members(p), p.rows)
  <2>1. CASE q.version = Len(q.scope)
    BY <1>7, <1>8, <2>1, Zenon DEF StatusAdvanced
  <2>2. CASE q.version # Len(q.scope)
    <3>1. st = "delivering"
      BY <2>2, Zenon DEF StatusAdvanced
    <3>2. q.version + 1 \in 1..Len(q.scope) /\ q.version + 1 \notin 1..(v - 1)
      BY <1>1, <1>3, <1>10, <1>11, <2>2
    <3>3. q.scope[q.version + 1] \in Members(q)
      BY <1>1, <3>2, Zenon DEF Members
    <3>4. q.scope[q.version + 1] \notin Delivered(p)
      <4> SUFFICES ASSUME NEW j \in 1..(v - 1), q.scope[j] = q.scope[q.version + 1] PROVE FALSE
        BY <1>7, <1>12, Zenon
      <4>1. j \in 1..Len(q.scope)
        BY <1>1, <1>10, <1>11
      <4> QED BY <1>9, <3>2, <4>1, Zenon
    <3>5. DOMAIN rows # Members(q) /\ DOMAIN rows # {} /\ Members(q) # {}
      BY <1>8, <3>3, <3>4, Zenon
    <3> QED BY <1>7, <1>8, <3>1, <3>5, Zenon DEF StatusAfter
  <2> QED BY <2>1, <2>2, Zenon
<1>15. ASSUME NEW j \in 1..(p.version - 1)
       PROVE  /\ p.events[j].member = p.scope[j]
              /\ p.events[j].status = IF j = Len(p.scope) THEN p.status ELSE "delivering"
  <2>1. CASE j \in 1..(q.version - 1)
    <3>1. es[j] = q.events[j] /\ j # Len(q.scope)
      BY <1>1, <1>4, <1>9, <1>10, <2>1
    <3>2. q.events[j].member = q.scope[j] /\ q.events[j].status = "delivering"
      BY <2>1, <3>1, Zenon DEF Counted
    <3> QED BY <1>7, <3>1, <3>2, Zenon
  <2>2. CASE j = q.version
    <3>a. Len(q.events) + 1 = j
      BY <1>1, <1>9, <2>2, SMTT(30)
    <3>1. p.events[j] = e
      BY <1>4, <1>7, <3>a, Zenon
    <3>2. p.events[j].member = m /\ p.events[j].status = st
      BY <3>1, Zenon
    <3>3. j # Len(p.scope) => st = "delivering"
      BY <1>7, <2>2, Zenon DEF StatusAdvanced
    <3> QED BY <1>7, <1>10, <2>2, <3>2, <3>3, Zenon
  <2> QED BY <1>7, <1>11, <2>1, <2>2, Zenon
<1>16. HistoryValid(p)
  BY <1>7, <1>8, Zenon DEF Counted, HistoryValid
<1>17. p.version <= Len(p.scope) + 1 /\ Len(p.events) = p.version - 1
  BY <1>1, <1>3, <1>4, <1>7, <1>9, <1>10, SMTT(30)
<1>18. Counted(p)
  BY <1>7, <1>9, <1>12, <1>13, <1>14, <1>15, <1>16, <1>17, Zenon DEF Counted
<1> QED BY <1>8, <1>18, Zenon

\* The roots a request of root may freeze, the row it inserts, and what runs keep.
Below(root) == {m \in Roots : m = root \/ Under(root, m)}
NewRow(root, policy, members) ==
    [root |-> root, scope |-> Freeze(members),
     policy |-> IF members = {} THEN policy ELSE "unread",
     history |-> Proofs(root, members) \cap Journal,
     status |-> StatusAfter(members, NoRows), version |-> 1, rows |-> NoRows,
     events |-> <<>>]
RunsStayClosed == \A r \in runs : runStatus[r] # "open" => runStatus'[r] # "open"

\* A request that was just committed.
LEMMA NewRequest ==
  ASSUME Finite, BaseInv, BaseInv', GraphGrows, LedgerGrows, RunsStayClosed,
         NEW root \in Roots, NEW policy \in Policies, NEW members \in SUBSET Below(root),
         RequestAccepted(root, policy, members), CommitRoot(root),
         NEW q, q = NewRow(root, policy, members)
  PROVE  q \in RequestRows /\ Counted(q) /\ Grounded(q)' /\ Delivered(q) = {}
<1>1. members \in SUBSET Roots /\ IsFiniteSet(members)
  BY Zenon DEF RequestAccepted, Below
<1>2. PICK s : s = Freeze(members)
  BY Zenon
<1>3. /\ s \in Seq(Roots) /\ {s[i] : i \in DOMAIN s} = members
      /\ \A i, j \in 1..Len(s) : s[i] = s[j] => i = j
  BY <1>1, <1>2, FrozenScope, SMTT(30)
<1>4. PICK h : h = Proofs(root, members) \cap Journal
  BY Zenon
<1>5. h \in SUBSET Facts /\ h = Proofs(root, members)
  <2>1. Journal \subseteq Facts
    BY Zenon DEF Journal, Facts
  <2> QED BY <1>1, <1>4, <2>1, ProofsOnRecord, Zenon
<1>6. PICK st \in Statuses : st = StatusAfter(members, NoRows)
  BY StatusShape, Zenon
<1>7. PICK n : n = NoRows
  BY Zenon
<1>8. n \in Outcomings /\ DOMAIN n = {}
  <2>1. n \in [{} -> Outcomes]
    BY <1>7, Zenon DEF NoRows
  <2> QED BY <2>1, Zenon DEF Outcomings
<1>9. PICK p \in Policies \cup {"unread"} : p = IF members = {} THEN policy ELSE "unread"
  BY Zenon
<1>10. q = [root |-> root, scope |-> s, policy |-> p, history |-> h, status |-> st,
            version |-> 1, rows |-> n, events |-> <<>>]
  BY <1>2, <1>4, <1>6, <1>7, <1>9, Zenon DEF NewRow
<1>11. q \in RequestRows
  BY <1>3, <1>5, <1>8, <1>10, SMTT(30) DEF RequestRows
<1>12. /\ q.root = root /\ q.scope = s /\ q.policy = p /\ q.history = h /\ q.status = st
       /\ q.version = 1 /\ q.rows = n /\ q.events = <<>>
  BY <1>10, SMTT(30)
<1>13. Members(q) = members /\ Delivered(q) = {}
  BY <1>3, <1>8, <1>12, SMTT(30) DEF Members, Delivered
<1>14. Counted(q)
  <2>1. Len(q.events) = 0 /\ q.version - 1 = 0 /\ 1..(q.version - 1) = {} /\ Len(s) \in Nat
    BY <1>3, <1>12, SMTT(30)
  <2>2. IsFiniteSet(Delivered(q)) /\ Cardinality(Delivered(q)) = 0
    BY <1>13, Zenon DEF Finite, Fin, Card
  <2>3. q.status = StatusAfter(Members(q), q.rows)
    BY <1>6, <1>7, <1>12, <1>13, Zenon
  <2>4. HistoryValid(q)
    BY <1>5, <1>12, <1>13, Zenon DEF HistoryValid
  <2>5. Delivered(q) = {q.scope[j] : j \in 1..(q.version - 1)}
    BY <1>13, <2>1, Zenon
  <2>6. q.version <= Len(q.scope) + 1 /\ Len(q.events) = q.version - 1
    BY <1>12, <2>1, SMTT(30)
  <2> QED BY <1>3, <1>12, <2>1, <2>2, <2>3, <2>4, <2>5, <2>6, SMTT(30) DEF Counted
<1>15. Exists(root) /\ Exists(root)'
  BY ExistsKept, Zenon DEF RequestAccepted
<1>16. RootValid(q)'
  <2>1. ASSUME s = <<>> PROVE p = "root_only" /\ Terminal(root)'
    <3>1. members = {}
      BY <1>3, <2>1, SMTT(30)
    <3>2. policy = "root_only" /\ Terminal(root)
      BY <3>1, Zenon DEF RequestAccepted
    <3> QED BY <1>9, <1>15, <3>1, <3>2, TerminalKept DEF RunsStayClosed
  <2> QED BY <1>12, <1>15, <2>1, Zenon DEF RootValid
<1>17. Committed(root)'
  <2>1. CASE root.kind = "effect_intent"
    BY <2>1, Zenon DEF CommitRoot, Ledger!CancelEffect, Committed
  <2>2. CASE root.kind # "effect_intent"
    BY <2>2, Zenon DEF CommitRoot, Ledger!Graph!CancelRequest, Committed
  <2> QED BY <2>1, <2>2, Zenon
<1>18. ScopeOwned(q)'
  <2>1. ASSUME NEW m \in members, m # root PROVE Under(root, m)'
    <3>1. m \in Roots /\ Under(root, m)
      BY <2>1, Zenon DEF Below
    <3> QED BY <3>1, UnderKept, Zenon
  <2>2. Members(q)' = members
    BY <1>13, Zenon DEF Members
  <2> QED BY <1>12, <2>1, <2>2, Zenon DEF ScopeOwned
<1> QED BY <1>11, <1>12, <1>13, <1>14, <1>16, <1>17, <1>18, Zenon DEF Grounded

\* cancel.request adds a row that is grounded and undelivered.
LEMMA RequestAdded ==
  ASSUME Finite, CancelInv, [Next]_vars, Cancel
  PROVE  RequestInv' /\ DeliveredStaysStopped'
<1>1. BaseInv /\ BaseInv' /\ GraphGrows /\ LedgerGrows
  BY BaseNext, Zenon DEF CancelInv
<1>2. /\ \A r \in runs : runStatus[r] # "open" => runStatus'[r] # "open"
      /\ runStatus' \in [Runs -> RunOutcomes \cup {"none", "open"}]
  BY <1>1, RunStatusKept, Zenon DEF CancelInv, BaseInv, RequestInv
<1>3. PICK root \in Roots, policy \in Policies :
        \E members \in SUBSET Below(root) : CancelRequest(root, policy, members)
  BY Zenon DEF Cancel, Below
<1>4. PICK members \in SUBSET Below(root) : CancelRequest(root, policy, members)
  BY <1>3, Zenon
<1>5. PICK q : q = NewRow(root, policy, members)
  BY Zenon
<1>6. /\ RequestAccepted(root, policy, members) /\ CommitRoot(root)
      /\ requests' = Append(requests, q)
  BY <1>4, <1>5, Zenon DEF CancelRequest, NewRow
<1>7. q \in RequestRows /\ Counted(q) /\ Grounded(q)' /\ Delivered(q) = {}
  <2>1. RunsStayClosed
    BY <1>2, Zenon DEF RunsStayClosed
  <2> QED BY <1>1, <1>5, <1>6, <2>1, NewRequest, Zenon
<1>8. requests \in Seq(RequestRows)
  BY Zenon DEF CancelInv, RequestInv
<1>9. /\ requests' \in Seq(RequestRows) /\ DOMAIN requests' = 1..(Len(requests) + 1)
      /\ Len(requests') = Len(requests) + 1 /\ Len(requests) \in Nat
      /\ DOMAIN requests = 1..Len(requests)
      /\ \A i \in 1..Len(requests) : requests'[i] = requests[i]
      /\ requests'[Len(requests) + 1] = q
  BY <1>6, <1>7, <1>8, SMTT(30)
<1>10. ASSUME NEW x \in RequestRows, Requested(x)' PROVE Counted(x) /\ Grounded(x)'
  <2>1. CASE x = q
    BY <1>7, <2>1, Zenon
  <2>2. CASE x # q
    <3>1. PICK i \in 1..Len(requests') : requests'[i] = x
      BY <1>10, Zenon DEF Requested
    <3>2. i \in 1..Len(requests) /\ requests[i] = x
      BY <1>9, <2>2, <3>1
    <3>3. Requested(x)
      BY <3>2, Zenon DEF Requested
    <3>4. Counted(x) /\ Grounded(x)
      BY <3>3, Zenon DEF CancelInv, RequestInv
    <3> QED BY <1>1, <1>2, <3>4, GroundedKept, Zenon
  <2> QED BY <2>1, <2>2, Zenon
<1>11. RequestInv'
  BY <1>2, <1>9, <1>10, Zenon DEF RequestInv
<1>12. DeliveredStaysStopped'
  <2> SUFFICES ASSUME NEW i \in DOMAIN requests', NEW m \in Delivered(requests'[i]),
                      m.kind = "effect_intent", ~effects'[m.key].spec.retry
               PROVE  Ledger!InState(m.key, {"prepared", "reconciling", "settled"})'
    BY Zenon DEF DeliveredStaysStopped
  <2>1. i \in DOMAIN requests /\ requests'[i] = requests[i]
    BY <1>7, <1>9
  <2>2. Stopped(m.key)'
    BY <1>1, <2>1, OldDeliveries, Zenon
  <2> QED BY <2>2, Zenon DEF Stopped
<1> QED BY <1>11, <1>12, Zenon

\* cancel.record_delivery stops the member and moves its request on.
LEMMA RequestDelivered ==
  ASSUME Finite, CancelInv, [Next]_vars, NEW i \in DOMAIN requests, NEW m \in Roots,
         NEW outcome \in Outcomes, RecordDelivery(i, m, outcome)
  PROVE  RequestInv' /\ DeliveredStaysStopped'
<1>1. BaseInv /\ BaseInv' /\ GraphGrows /\ LedgerGrows
  BY BaseNext, Zenon DEF CancelInv
<1>2. /\ \A r \in runs : runStatus[r] # "open" => runStatus'[r] # "open"
      /\ runStatus' \in [Runs -> RunOutcomes \cup {"none", "open"}]
  BY <1>1, RunStatusKept, Zenon DEF CancelInv, BaseInv, RequestInv
<1>3. PICK q \in RequestRows : q = requests[i] /\ Counted(q) /\ Grounded(q)
  BY RequestFacts, Zenon DEF CancelInv
<1>4. PICK rows : rows = RowWritten(q, m, outcome)
  BY Zenon
<1>5. rows \in Outcomings /\ DOMAIN rows = Delivered(q) \cup {m}
  BY <1>4, RowsWritten, Zenon
<1>6. PICK st \in Statuses : st = StatusAdvanced(q, rows)
  BY StatusShape, Zenon DEF StatusAdvanced, Statuses
<1>7. PICK e : e = [member |-> m, status |-> st]
  BY Zenon
<1>e. e \in EventRows /\ e.member = m /\ e.status = st
  BY <1>6, <1>7, Zenon DEF EventRows
<1>8. q.events \in Seq(EventRows) /\ q.version \in Nat \ {0} /\ q.root \in Roots
  BY <1>3, Zenon DEF RequestRows
<1>9. PICK es : es = Append(q.events, e)
  BY Zenon
<1>10. PICK v : v = q.version + 1
  BY Zenon
<1>s. es \in Seq(EventRows) /\ v \in Nat \ {0}
  BY <1>e, <1>8, <1>9, <1>10
<1>11. PICK p : p = [q EXCEPT !.status = st, !.version = v, !.rows = rows, !.events = es]
  BY Zenon
<1>12. /\ p \in RequestRows
       /\ p.root = q.root /\ p.scope = q.scope /\ p.policy = q.policy /\ p.history = q.history
       /\ p.status = st /\ p.version = v /\ p.rows = rows /\ p.events = es
  BY <1>3, <1>5, <1>6, <1>s, <1>11 DEF RequestRows
<1>13. /\ m \in Members(q) \ Delivered(q) /\ IsNext(q, m)
       /\ requests' = [requests EXCEPT ![i] = p]
  BY <1>3, <1>4, <1>6, <1>7, <1>9, <1>10, <1>11 DEF RecordDelivery
<1>14. Counted(p) /\ Delivered(p) = Delivered(q) \cup {m}
  <2>1. /\ p.version = q.version + 1 /\ p.events = Append(q.events, e)
        /\ p.status = st /\ p.rows = rows /\ DOMAIN rows = Delivered(q) \cup {m}
        /\ p \in RequestRows /\ p.root = q.root /\ p.scope = q.scope /\ p.history = q.history
    BY <1>5, <1>9, <1>10, <1>12, Zenon
  <2>2. q \in RequestRows /\ Counted(q) /\ m \in Members(q) \ Delivered(q) /\ IsNext(q, m)
    BY <1>3, <1>13, Zenon
  <2>3. st \in Statuses /\ st = StatusAdvanced(q, rows) /\ e \in EventRows /\ e.member = m /\ e.status = st
    BY <1>6, <1>e, Zenon
  <2> QED BY <2>1, <2>2, <2>3, DeliveryCounted, SMTT(30)
<1>15. Grounded(p)'
  <2>1. Grounded(q)'
    BY <1>1, <1>2, <1>3, GroundedKept, Zenon
  <2>2. Members(p) = Members(q)
    BY <1>12, Zenon DEF Members
  <2> QED BY <1>12, <2>1, <2>2, Zenon DEF Grounded, RootValid, ScopeOwned
<1>16. requests \in Seq(RequestRows)
  BY Zenon DEF CancelInv, RequestInv
<1>17. /\ requests' \in Seq(RequestRows) /\ DOMAIN requests' = DOMAIN requests
       /\ Len(requests') = Len(requests) /\ DOMAIN requests = 1..Len(requests)
       /\ \A j \in DOMAIN requests \ {i} : requests'[j] = requests[j]
       /\ requests'[i] = p
  BY <1>12, <1>13, <1>16
<1>18. ASSUME NEW x \in RequestRows, Requested(x)' PROVE Counted(x) /\ Grounded(x)'
  <2>1. CASE x = p
    BY <1>14, <1>15, <2>1, Zenon
  <2>2. CASE x # p
    <3>1. PICK j \in 1..Len(requests') : requests'[j] = x
      BY <1>18, Zenon DEF Requested
    <3>2. j \in 1..Len(requests) /\ requests[j] = x
      BY <1>17, <2>2, <3>1, Zenon
    <3>3. Requested(x)
      BY <3>2, Zenon DEF Requested
    <3>4. Counted(x) /\ Grounded(x)
      BY <3>3, Zenon DEF CancelInv, RequestInv
    <3> QED BY <1>1, <1>2, <3>4, GroundedKept, Zenon
  <2> QED BY <2>1, <2>2, Zenon
<1>19. RequestInv'
  BY <1>2, <1>17, <1>18, Zenon DEF RequestInv
<1>20. DeliveredStaysStopped'
  <2> SUFFICES ASSUME NEW j \in DOMAIN requests', NEW n \in Delivered(requests'[j]),
                      n.kind = "effect_intent", ~effects'[n.key].spec.retry
               PROVE  Ledger!InState(n.key, {"prepared", "reconciling", "settled"})'
    BY Zenon DEF DeliveredStaysStopped
  <2>1. CASE j = i /\ n = m
    <3>1. Ledger!Prepared(m.key)
      BY <1>1, <1>3, <1>13, <2>1, MemberBarred, Zenon
    <3>2. Stopped(m.key)'
      BY <1>1, <2>1, <3>1, DeliveryStops, Zenon
    <3> QED BY <2>1, <3>2, Zenon DEF Stopped
  <2>2. CASE ~(j = i /\ n = m)
    <3>1. j \in DOMAIN requests /\ n \in Delivered(requests[j])
      <4>1. CASE j = i
        BY <1>3, <1>14, <1>17, <2>2, <4>1, Zenon
      <4>2. CASE j # i
        BY <1>17, <4>2, Zenon
      <4> QED BY <4>1, <4>2, Zenon
    <3>2. Stopped(n.key)'
      BY <1>1, <3>1, OldDeliveries, Zenon
    <3> QED BY <3>2, Zenon DEF Stopped
  <2> QED BY <2>1, <2>2, Zenon
<1> QED BY <1>19, <1>20, Zenon

\* The invariant holds at the start.
LEMMA CancelInit == ASSUME Init PROVE CancelInv
<1>1. requests = <<>> /\ Len(requests) = 0
  BY Zenon DEF Init
<1>2. RequestInv
  BY <1>1 DEF Init, RequestInv, Requested
<1>3. DeliveredStaysStopped
  BY <1>1 DEF DeliveredStaysStopped
<1> QED BY <1>2, <1>3, BaseInit, Zenon DEF CancelInv

\* Every step keeps the invariant.
LEMMA CancelNext == ASSUME Finite, CancelInv, [Next]_vars PROVE CancelInv'
<1>1. BaseInv'
  BY BaseNext, Zenon DEF CancelInv
<1>2. CASE requests' = requests
  BY <1>1, <1>2, RequestsKept, Zenon DEF CancelInv
<1>3. CASE Cancel
  BY <1>1, <1>3, RequestAdded, Zenon DEF CancelInv
<1>4. ASSUME NEW i \in DOMAIN requests, NEW m \in Roots, NEW outcome \in Outcomes,
             RecordDelivery(i, m, outcome)
      PROVE  CancelInv'
  BY <1>1, <1>4, RequestDelivered, Zenon DEF CancelInv
<1>5. CASE LedgerStep \/ Recover \/ UNCHANGED vars
  BY <1>2, <1>5, Zenon DEF LedgerStep, Recover, cancelVars, vars
<1>6. CASE (\E r \in Runs : RunOpen(r)) \/ (\E r \in Runs, outcome \in RunOutcomes : RunClose(r, outcome))
  BY <1>2, <1>6, Zenon DEF RunOpen, RunClose
<1> QED BY <1>3, <1>4, <1>5, <1>6, Zenon DEF Next

\* What recovery recomputes of a request is what its row says.
LEMMA LifecyclesAccepted == CancelInv => RecoveryNeverRefuses
<1> SUFFICES ASSUME CancelInv, NEW i \in DOMAIN requests PROVE LifecycleValid(requests[i])
  BY Zenon DEF RecoveryNeverRefuses, LifecyclesValid
<1>1. PICK q \in RequestRows : q = requests[i] /\ Counted(q) /\ Grounded(q)
  BY RequestFacts, Zenon DEF CancelInv
<1>2. /\ q.scope \in Seq(Roots) /\ q.version \in Nat \ {0} /\ q.events \in Seq(EventRows)
      /\ DOMAIN q.events = 1..Len(q.events) /\ DOMAIN q.scope = 1..Len(q.scope)
      /\ Len(q.scope) \in Nat
  BY DEF RequestRows
<1>3. DOMAIN q.events = 1..(q.version - 1) /\ DOMAIN q.events \subseteq DOMAIN q.scope
  BY <1>1, <1>2, SMTT(30) DEF Counted
<1>4. \A j \in DOMAIN q.events :
          /\ q.events[j].member = q.scope[j]
          /\ q.events[j].status = IF j = Len(q.scope) THEN q.status ELSE "delivering"
  BY <1>1, <1>3, Zenon DEF Counted
<1>5. {q.events[j].member : j \in DOMAIN q.events} = Delivered(q)
  <2>1. Delivered(q) = {q.scope[j] : j \in DOMAIN q.events}
    BY <1>1, <1>3, Zenon DEF Counted
  <2> QED BY <1>4, <2>1
<1>6. DeliveriesReplay(q)
  BY <1>3, <1>4, <1>5, Zenon DEF DeliveriesReplay
<1>7. q.version = Cardinality(Delivered(q)) + 1
  BY <1>1, <1>2, SMTT(30) DEF Counted
<1>8. RootValid(q) /\ ScopeOwned(q) /\ HistoryValid(q) /\ q.status = StatusAfter(Members(q), q.rows)
  BY <1>1, Zenon DEF Counted, Grounded
<1> QED BY <1>1, <1>6, <1>7, <1>8, Zenon DEF LifecycleValid

\* A request with an unresponsive member is not settled, and bars the success.
LEMMA UnresponsiveStep ==
  CancelInv /\ [Next]_vars =>
    [\A i \in DOMAIN requests : LET q == requests[i] IN
        (\E m \in Delivered(q) : q.rows[m] = "unresponsive")
        /\ runStatus[RunOf(q.root)] = "open"
            => runStatus'[RunOf(q.root)] # "closed_success"]_vars
<1> SUFFICES ASSUME CancelInv, [Next]_vars, NEW i \in DOMAIN requests,
                    NEW m \in Delivered(requests[i]), requests[i].rows[m] = "unresponsive",
                    runStatus[RunOf(requests[i].root)] = "open",
                    runStatus'[RunOf(requests[i].root)] = "closed_success"
             PROVE  FALSE
  BY Zenon
<1>1. PICK q \in RequestRows : q = requests[i] /\ Counted(q) /\ Grounded(q)
  BY RequestFacts, Zenon DEF CancelInv
<1>2. PICK x : x = RunOf(q.root)
  BY Zenon
<1>3. x \in Runs
  <2>1. q.root \in Roots /\ Exists(q.root)
    BY <1>1, Zenon DEF RequestRows, Grounded, RootValid
  <2>2. GraphGrows /\ LedgerGrows /\ BaseInv
    BY BaseNext, Zenon DEF CancelInv
  <2>3. CASE q.root.kind = "run"
    BY <1>2, <2>1, <2>3, RootForms, Zenon DEF RunOf
  <2>4. CASE q.root.kind # "run"
    BY <1>2, <2>1, <2>2, <2>4, UnitOfKept, Zenon
  <2> QED BY <2>3, <2>4, Zenon
<1>4. q.status # "settled"
  <2>1. m \in Members(q) /\ m \in DOMAIN q.rows /\ q.rows[m] = "unresponsive"
    BY <1>1, RequestFacts, Zenon DEF CancelInv, Delivered
  <2>2. q.status = StatusAfter(Members(q), q.rows)
    BY <1>1, Zenon DEF Counted
  <2> QED BY <2>1, <2>2, Zenon DEF StatusAfter, Discharged
<1>5. i \in CancelBlockers(x)
  BY <1>1, <1>2, <1>4, Zenon DEF CancelBlockers
<1>6. runStatus[x] = "open" /\ runStatus'[x] = "closed_success"
  BY <1>1, <1>2, Zenon
<1>7. runStatus \in [Runs -> RunOutcomes \cup {"none", "open"}]
  BY Zenon DEF CancelInv, RequestInv
<1>8. ASSUME NEW r \in Runs, NEW outcome \in RunOutcomes, RunClose(r, outcome) PROVE FALSE
  <2>1. /\ runStatus' = [runStatus EXCEPT ![r] = outcome]
        /\ outcome = "closed_success" => ~SuccessBlocked(r)
    BY <1>8, Zenon DEF RunClose
  <2>2. r = x /\ outcome = "closed_success"
    BY <1>3, <1>6, <1>7, <2>1, Zenon
  <2> QED BY <1>5, <2>1, <2>2, Zenon DEF SuccessBlocked
<1>9. ASSUME NEW r \in Runs, RunOpen(r) PROVE FALSE
  <2>1. runStatus' = [runStatus EXCEPT ![r] = "open"]
    BY <1>9, Zenon DEF RunOpen
  <2> QED BY <1>3, <1>6, <1>7, <2>1, Zenon
<1>10. CASE LedgerStep \/ Cancel \/ Recover \/ UNCHANGED vars
  <2>1. runStatus' = runStatus
    BY <1>10, Zenon DEF LedgerStep, Cancel, CancelRequest, Recover, cancelVars, vars
  <2> QED BY <1>6, <2>1, Zenon
<1>11. ASSUME NEW j \in DOMAIN requests, NEW n \in Roots, NEW outcome \in Outcomes,
              RecordDelivery(j, n, outcome)
       PROVE  FALSE
  <2>1. runStatus' = runStatus
    BY <1>11, Zenon DEF RecordDelivery
  <2> QED BY <1>6, <2>1, Zenon
<1> QED BY <1>8, <1>9, <1>10, <1>11, Zenon DEF Next

-----------------------------------------------------------------------------
(***************************************************************************)
(* The results.                                                            *)
(***************************************************************************)
USE DEF IsFiniteSet, Cardinality
LOCAL INSTANCE FiniteSetTheorems

\* The facts about finite sets, from the library.
LEMMA FiniteHolds == Finite
<1>1. ASSUME NEW S PROVE (Fin(S) <=> IsFiniteSet(S)) /\ Card(S) = Cardinality(S)
  <2>1. Fin(S) <=> IsFiniteSet(S)
    BY Zenon DEF Fin, IsFiniteSet
  <2>2. Card(S) = Cardinality(S)
    BY Zenon DEF Card, Cardinality
  <2> QED BY <2>1, <2>2, Zenon
<1>2. Fin({}) /\ Card({}) = 0
  BY <1>1, FS_EmptySet, Zenon
<1>3. ASSUME NEW S, NEW m, Fin(S), m \notin S
      PROVE  Fin(S \cup {m}) /\ Card(S \cup {m}) = Card(S) + 1
  <2>1. IsFiniteSet(S)
    BY <1>1, <1>3, Zenon
  <2>2. IsFiniteSet(S \cup {m}) /\ Cardinality(S \cup {m}) = Cardinality(S) + 1
    BY <1>3, <2>1, FS_AddElement
  <2> QED BY <1>1, <2>2, Zenon
<1>4. ASSUME NEW S, NEW T, Fin(S), Fin(T), S \cap T = {}
      PROVE  Fin(S \cup T) /\ Card(S \cup T) = Card(S) + Card(T)
  <2>1. IsFiniteSet(S) /\ IsFiniteSet(T)
    BY <1>1, <1>4, Zenon
  <2>2. Cardinality(S) \in Nat /\ Cardinality(T) \in Nat
    BY <2>1, FS_CardinalityType, Zenon
  <2>3. /\ IsFiniteSet(S \cup T)
        /\ Cardinality(S \cup T) = Cardinality(S) + Cardinality(T) - Cardinality(S \cap T)
    BY <2>1, FS_Union, Zenon
  <2>4. Cardinality(S \cap T) = 0
    BY <1>4, FS_EmptySet, Zenon
  <2>5. Cardinality(S \cup T) = Cardinality(S) + Cardinality(T)
    BY <2>2, <2>3, <2>4
  <2> QED BY <1>1, <2>3, <2>5
<1>5. ASSUME NEW S, NEW T \in SUBSET S, Fin(S) PROVE Fin(T)
  <2>1. IsFiniteSet(S)
    BY <1>1, <1>5, Zenon
  <2>2. IsFiniteSet(T)
    BY <2>1, FS_Subset, Zenon
  <2> QED BY <1>1, <2>2, Zenon
<1>6. ASSUME NEW S, Fin(S)
      PROVE  /\ Card(S) \in Nat
             /\ \E s \in [1..Card(S) -> S] : \A m \in S : \E i \in 1..Card(S) : s[i] = m
             /\ \A s \in [1..Card(S) -> S] :
                    (\A m \in S : \E i \in 1..Card(S) : s[i] = m)
                        => \A i, j \in 1..Card(S) : s[i] = s[j] => i = j
  <2>1. IsFiniteSet(S)
    BY <1>1, <1>6, Zenon
  <2>2. PICK n \in Nat : n = Cardinality(S) /\ n = Card(S)
    BY <1>1, <2>1, FS_CardinalityType
  <2>3. PICK s : s \in Bijection(1..n, S)
    BY <2>1, <2>2, FS_CardinalityType DEF ExistsBijection
  <2>4. s \in [1..n -> S] /\ \A m \in S : \E i \in 1..n : s[i] = m
    BY <2>3, Zenon DEF Bijection, Surjection
  <2>5. ASSUME NEW x \in [1..n -> S], \A m \in S : \E i \in 1..n : x[i] = m
        PROVE  \A i, j \in 1..n : x[i] = x[j] => i = j
    <3>1. IsFiniteSet(1..n) /\ Cardinality(1..n) = n
      BY FS_Interval
    <3>2. x \in Surjection(1..n, S)
      BY <2>5, Zenon DEF Surjection
    <3>3. x \in Injection(1..n, S)
      BY <2>2, <3>1, <3>2, FS_SurjSameCardinalityImpliesInj
    <3> QED BY <3>3, Zenon DEF Injection, IsInjective
  <2> QED BY <2>2, <2>4, <2>5
<1> QED BY <1>2, <1>3, <1>4, <1>5, <1>6 DEF Finite

\* The invariant holds in every reachable state.
THEOREM CancelInductive == Spec => []CancelInv
<1>1. Init => CancelInv
  BY CancelInit, Zenon
<1>2. CancelInv /\ [Next]_vars => CancelInv'
  BY CancelNext, FiniteHolds, Zenon
<1> QED BY <1>1, <1>2, PTL DEF Spec

\* The delivery of an effect that must not be retried is the end of its
\* dispatches, whatever state it was found in and whichever attempt asks later
\* (funnel/cancel.rs, the park, with the rule-4 arm of effect.dispatch).
THEOREM DeliveryIsTheEnd == Spec => []DeliveredStaysStopped
<1>1. CancelInv => DeliveredStaysStopped
  BY Zenon DEF CancelInv
<1> QED BY <1>1, CancelInductive, PTL

\* Store::recover accepts the lifecycle of every request this kernel wrote,
\* for any number of requests, members and restarts (store/recovery.rs,
\* validate_all_cancellation_lifecycles).
THEOREM RecoveryAlwaysAccepts == Spec => []RecoveryNeverRefuses
  BY LifecyclesAccepted, CancelInductive, PTL

\* A run never closes with success over a member that a cancellation left
\* unresponsive (cancel_rules.rs, request_status_after; run_rules.rs,
\* cancel_blocks).
THEOREM UnresponsiveBarsSuccess == Spec => NoSuccessOverUnresponsive
  BY UnresponsiveStep, CancelInductive, PTL DEF Spec, NoSuccessOverUnresponsive

=============================================================================
