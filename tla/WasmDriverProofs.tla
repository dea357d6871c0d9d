-------------------------- MODULE WasmDriverProofs --------------------------
(***************************************************************************)
(* Proofs about the WebAssembly driver, for every set of activations and   *)
(* callers and whatever bounds a driver is built with: a call is reported  *)
(* to have overrun only when it was running for all of its budget, and     *)
(* nothing of a store outlives its deactivation.                           *)
(*                                                                         *)
(* The ticks an interrupt has counted are never ahead of the clock: a      *)
(* deadline is counted once for a tick that came while the call was        *)
(* running, and both start from zero in the same step (TimeInv).  A store  *)
(* is owned by the future of its start until it is published, and by the   *)
(* holder of its lock afterwards (OwnerInv).                               *)
(***************************************************************************)
EXTENDS WasmDriver, SequenceTheorems, TLAPS

IsBuilt == driver.state = "built"

Clients == Callers \cup {Start, Nobody}

ReportFields(o) ==
    [resource |-> o.resource, faulted |-> o.faulted, live_handles |-> o.live_handles,
     records |-> o.records, report |-> o.report]

\* The shape of the state the argument reads.
ShapeInv ==
    /\ interrupted \in [Activations -> [killed : BOOLEAN, ticks : Nat]]
    /\ clock \in [Activations -> [due : BOOLEAN, elapsed : Nat]]
    /\ guest \in [Activations -> Clients]
    /\ DOMAIN stop = Activations
    /\ observation = [a \in Activations |-> ReportFields(observation[a])]

\* Nothing of an activation exists before its driver is built.
BuiltInv ==
    /\ IsBuilt => limits.call_budget_ticks \in Nat
    /\ ~IsBuilt => /\ \A a \in Activations : /\ plan[a] = NoPlan
                                             /\ start[a] = "none"
                                             /\ stop[a] = "none"
                                             /\ guest[a] = Nobody
                   /\ \A c \in Callers : caller[c] = Idle

\* Ticks that are counted, and the one that is due.
Charged(a) == interrupted[a].ticks + (IF clock[a].due THEN 1 ELSE 0)

TimeInv ==
    \A a \in Activations : Running(a) =>
        \/ clock[a].elapsed >= limits.call_budget_ticks
        \/ Charged(a) <= clock[a].elapsed

\* The guest is told to stop in the step in which the deactivation begins.
StopInv == \A a \in Activations : ~interrupted[a].killed => stop[a] = "none"

CountInv == ShapeInv /\ BuiltInv /\ TimeInv /\ StopInv

\* A caller that is not idle is on its way into some activation.
CallerInv == caller \in [Callers -> {Idle} \cup [at : {"entered", "in"}, on : Activations]]

\* The inductive invariant.
IInv == CountInv /\ CallerInv

-----------------------------------------------------------------------------

\* Initially no guest runs and no driver is built.
LEMMA InitInvariant == Init => IInv
<1> SUFFICES ASSUME Init PROVE IInv
  BY Zenon
<1>1. ShapeInv
  BY Zenon DEF Init, ShapeInv, Clients, ReportFields, NewObservation, interrupt
<1>2. BuiltInv
  BY Zenon DEF Init, BuiltInv, IsBuilt
<1>3. TimeInv
  BY Zenon DEF Init, TimeInv, Running
<1>4. StopInv
  BY Zenon DEF Init, StopInv
<1>5. CallerInv
  BY Zenon DEF Init, CallerInv
<1> QED
  BY <1>1, <1>2, <1>3, <1>4, <1>5, Zenon DEF IInv, CountInv

\* Steps of the two futures and the host that count nothing: what was running
\* may have ended.
Uncounted ==
    /\ UNCHANGED <<driver, stop, interrupted, clock>>
    /\ guest' \in [Activations -> Clients]
    /\ \A a \in Activations : Running(a)' => Running(a)

\* A step that counts nothing keeps the invariant of the counting.
LEMMA UncountedKeeps ==
  ASSUME CountInv, Uncounted, IsBuilt,
         observation' = [a \in Activations |-> ReportFields(observation'[a])]
  PROVE  CountInv'
<1>1. ShapeInv'
  BY Zenon DEF CountInv, ShapeInv, Uncounted
<1>2. BuiltInv'
  BY Zenon DEF CountInv, BuiltInv, Uncounted, IsBuilt, limits
<1>3. TimeInv'
  BY Zenon DEF CountInv, TimeInv, Uncounted, limits, Charged
<1>4. StopInv'
  BY Zenon DEF CountInv, StopInv, Uncounted
<1> QED
  BY <1>1, <1>2, <1>3, <1>4, Zenon DEF CountInv

-----------------------------------------------------------------------------
(* What the parts of a step do *)

\* The reports of a step that judges no call at its deadline.
NoOverrun ==
    /\ observation' = [a \in Activations |-> ReportFields(observation'[a])]
    /\ \A a \in Activations : observation'[a].report \in {observation[a].report, "refused", "failed"}

\* A store that is dropped leaves the report alone.
LEMMA DropKeepsReport ==
  ASSUME ShapeInv, NEW a \in Activations, NEW o, o = ReportFields(o)
  PROVE  /\ StoreDropped(a, o) = ReportFields(StoreDropped(a, o))
         /\ StoreDropped(a, o).report = o.report
  BY DEF StoreDropped, ReportFields

\* An edit of one observation that leaves its report alone.
LEMMA EditKeepsReport ==
  ASSUME ShapeInv, NEW a \in Activations, NEW v,
         \/ observation' = [observation EXCEPT ![a].records = v]
         \/ observation' = [observation EXCEPT ![a].live_handles = v]
         \/ observation' = [observation EXCEPT ![a].resource = v]
  PROVE  NoOverrun
<1> DEFINE x == observation[a]
<1>1. x = ReportFields(x)
  BY Zenon DEF ShapeInv
<1>2. ASSUME NEW o, o = ReportFields(o), o.report = x.report, observation' = [observation EXCEPT ![a] = o]
      PROVE  NoOverrun
  BY <1>2, Zenon DEF ShapeInv, NoOverrun
<1>3. CASE observation' = [observation EXCEPT ![a] = [x EXCEPT !.records = v]]
  <2> DEFINE o == [x EXCEPT !.records = v]
  <2>1. o = ReportFields(o) /\ o.report = x.report
    <3> HIDE DEF x
    <3> QED BY <1>1 DEF ReportFields
  <2> HIDE DEF o, x
  <2> QED BY <1>2, <1>3, <2>1, Zenon DEF o
<1>4. CASE observation' = [observation EXCEPT ![a] = [x EXCEPT !.live_handles = v]]
  <2> DEFINE o == [x EXCEPT !.live_handles = v]
  <2>1. o = ReportFields(o) /\ o.report = x.report
    <3> HIDE DEF x
    <3> QED BY <1>1 DEF ReportFields
  <2> HIDE DEF o, x
  <2> QED BY <1>2, <1>4, <2>1, Zenon DEF o
<1>5. CASE observation' = [observation EXCEPT ![a] = [x EXCEPT !.resource = v]]
  <2> DEFINE o == [x EXCEPT !.resource = v]
  <2>1. o = ReportFields(o) /\ o.report = x.report
    <3> HIDE DEF x
    <3> QED BY <1>1 DEF ReportFields
  <2> HIDE DEF o, x
  <2> QED BY <1>2, <1>5, <2>1, Zenon DEF o
<1> QED
  BY <1>3, <1>4, <1>5, Zenon

\* A call that fails changes the report of its own activation.
LEMMA FaultReports ==
  ASSUME ShapeInv, NEW a \in Activations, NEW poisoned, NEW report, Faulted(a, poisoned, report)
  PROVE  /\ observation' = [b \in Activations |-> ReportFields(observation'[b])]
         /\ observation'[a].report = report
         /\ \A b \in Activations \ {a} : observation'[b].report = observation[b].report
<1> DEFINE o == [observation[a] EXCEPT !.faulted = TRUE, !.report = report]
           p == IF store[a].where = "local" THEN StoreDropped(a, o) ELSE o
<1>1. observation[a] = ReportFields(observation[a])
  BY Zenon DEF ShapeInv
<1>2. o = ReportFields(o) /\ o.report = report
  <2>1. PICK flag : flag = TRUE
    BY Zenon
  <2> DEFINE x == observation[a]
             y == [x EXCEPT !.faulted = flag]
             z == [y EXCEPT !.report = report]
  <2>2. o = z
    BY <2>1, Zenon
  <2>3. y = ReportFields(y)
    <3>1. x = ReportFields(x)
      BY <1>1, Zenon
    <3> HIDE DEF x
    <3> QED BY <3>1 DEF ReportFields
  <2>4. z = ReportFields(z) /\ z.report = report
    <3> HIDE DEF y
    <3> QED BY <2>3 DEF ReportFields
  <2> HIDE DEF o, p, z
  <2> QED BY <2>2, <2>4, Zenon
<1>3. p = ReportFields(p) /\ p.report = report
  <2> HIDE DEF o
  <2> QED BY <1>2, DropKeepsReport, Zenon
<1>4. observation' = [observation EXCEPT ![a] = p]
  BY Zenon DEF Faulted
<1> HIDE DEF p, o
<1> QED
  BY <1>3, <1>4, Zenon DEF ShapeInv

\* A call that returns ends, and no other begins.
LEMMA ReturnEnds ==
  ASSUME ShapeInv, NEW a \in Activations, NEW k, NEW result, Returned(a, k, result)
  PROVE  /\ guest' \in [Activations -> Clients]
         /\ \A b \in Activations : Running(b)' => Running(b)
         /\ k = guest[a] => ~Running(a)'
  BY Zenon DEF ShapeInv, Returned, Running, Clients

\* So does a call that is dropped.
LEMMA AbandonEnds ==
  ASSUME ShapeInv, NEW a \in Activations, NEW k, NEW poisoned, Abandoned(a, k, poisoned)
  PROVE  /\ guest' \in [Activations -> Clients]
         /\ \A b \in Activations : Running(b)' => Running(b)
         /\ NoOverrun
<1>1. /\ guest' \in [Activations -> Clients]
      /\ \A b \in Activations : Running(b)' => Running(b)
  BY Zenon DEF ShapeInv, Abandoned, Running, Clients
<1> DEFINE p == IF k = Start /\ store[a].where = "local" THEN StoreDropped(a, observation[a])
                ELSE observation[a]
<1>2. observation[a] = ReportFields(observation[a])
  BY Zenon DEF ShapeInv
<1>3. p = ReportFields(p) /\ p.report = observation[a].report
  BY <1>2, DropKeepsReport, Zenon
<1>4. observation' = [observation EXCEPT ![a] = p]
  BY Zenon DEF Abandoned
<1> HIDE DEF p
<1>5. NoOverrun
  BY <1>3, <1>4, Zenon DEF ShapeInv, NoOverrun
<1> QED
  BY <1>1, <1>5, Zenon

\* A call that begins has used nothing of its budget.
LEMMA ArmedKeeps ==
  ASSUME CountInv, IsBuilt, NEW a \in Activations, NEW k \in Clients, Armed(a),
         guest' = [guest EXCEPT ![a] = k], UNCHANGED <<driver, stop, observation>>
  PROVE  CountInv' /\ NoOverrun
<1>1. ShapeInv'
  BY Zenon DEF CountInv, ShapeInv, Armed, begin_call
<1>2. BuiltInv'
  BY Zenon DEF CountInv, BuiltInv, IsBuilt, limits
<1>3. TimeInv'
  <2> SUFFICES ASSUME NEW b \in Activations, Running(b)'
               PROVE  \/ clock'[b].elapsed >= limits'.call_budget_ticks
                      \/ Charged(b)' <= clock'[b].elapsed
    BY Zenon DEF TimeInv
  <2>1. CASE b = a
    <3>1. clock'[a] = [due |-> FALSE, elapsed |-> 0] /\ interrupted'[a].ticks = 0
      BY Zenon DEF CountInv, ShapeInv, Armed, begin_call
    <3> QED BY <2>1, <3>1 DEF Charged
  <2>2. CASE b # a
    <3>1. clock'[b] = clock[b] /\ interrupted'[b] = interrupted[b] /\ Running(b)
      BY <2>2, Zenon DEF CountInv, ShapeInv, Armed, Running
    <3> QED BY <3>1, Zenon DEF CountInv, TimeInv, Charged, limits
  <2> QED BY <2>1, <2>2, Zenon
<1>4. StopInv'
  BY Zenon DEF CountInv, StopInv, ShapeInv, Armed, begin_call
<1>5. NoOverrun
  BY Zenon DEF CountInv, ShapeInv, NoOverrun
<1> QED
  BY <1>1, <1>2, <1>3, <1>4, <1>5, Zenon DEF CountInv

-----------------------------------------------------------------------------
(* The steps *)

\* A driver is built once, before anything else happens.
LEMMA BuildKeeps ==
  ASSUME CountInv, NEW b \in Builds, for_component(b) \/ scripted(b)
  PROVE  CountInv' /\ NoOverrun
<1>1. ~IsBuilt /\ (Built(b, TRUE) \/ Built(b, FALSE))
  BY Zenon DEF for_component, scripted, Built, IsBuilt
<1>2. UNCHANGED <<plan, start, stop, interrupted, observation, guest, clock, caller>>
  BY Zenon DEF for_component, scripted, lifecycle
<1>3. ShapeInv' /\ NoOverrun
  BY <1>2, Zenon DEF CountInv, ShapeInv, NoOverrun
<1>4. BuiltInv'
  <2>1. IsBuilt' => limits'.call_budget_ticks = b.limits.call_budget_ticks
    BY <1>1 DEF Built, IsBuilt, limits
  <2> QED BY <1>1, <1>2, <2>1, WasmAssumption, Zenon DEF CountInv, BuiltInv
<1>5. TimeInv'
  BY <1>1, <1>2, Zenon DEF CountInv, BuiltInv, TimeInv, Running
<1>6. StopInv'
  BY <1>2, Zenon DEF CountInv, StopInv
<1> QED
  BY <1>3, <1>4, <1>5, <1>6, Zenon DEF CountInv

\* A tick that comes while a call is running is on its clock.
LEMMA TickKeeps ==
  ASSUME CountInv, Tick
  PROVE  CountInv' /\ NoOverrun
<1>1. UNCHANGED <<driver, stop, interrupted, observation, guest>> /\ IsBuilt
  BY Zenon DEF Tick, observers, lifecycle, IsBuilt
<1>2. limits.call_budget_ticks \in Nat
  BY <1>1, Zenon DEF CountInv, BuiltInv
<1>3. ShapeInv' /\ NoOverrun
  BY <1>1 DEF CountInv, ShapeInv, NoOverrun, Tick
<1>4. BuiltInv'
  BY <1>1, Zenon DEF CountInv, BuiltInv, IsBuilt, limits
<1>5. TimeInv'
  <2> SUFFICES ASSUME NEW a \in Activations, Running(a)
               PROVE  \/ clock'[a].elapsed >= limits.call_budget_ticks
                      \/ Charged(a)' <= clock'[a].elapsed
    BY <1>1, Zenon DEF TimeInv, Running, limits
  <2>1. /\ clock[a].elapsed \in Nat /\ clock[a].due \in BOOLEAN
        /\ interrupted[a].ticks \in Nat
    BY Zenon DEF CountInv, ShapeInv
  <2>2. clock'[a] = [due |-> TRUE,
                     elapsed |-> IF clock[a].elapsed < limits.call_budget_ticks
                                 THEN clock[a].elapsed + 1 ELSE clock[a].elapsed]
    BY Zenon DEF Tick
  <2>3. Charged(a)' = interrupted[a].ticks + 1
    BY <1>1, <2>2 DEF Charged
  <2>4. clock[a].elapsed >= limits.call_budget_ticks \/ interrupted[a].ticks <= clock[a].elapsed
    BY <2>1 DEF CountInv, TimeInv, Charged
  <2> QED BY <1>2, <2>1, <2>2, <2>3, <2>4
<1>6. StopInv'
  BY <1>1, Zenon DEF CountInv, StopInv
<1> QED
  BY <1>3, <1>4, <1>5, <1>6, Zenon DEF CountInv

\* A client that has the lock enters a fresh call, or leaves without one.
LEMMA EnteredKeeps ==
  ASSUME CountInv, IsBuilt, NEW a \in Activations, NEW k \in Clients, Entered(a, k)
  PROVE  CountInv' /\ NoOverrun
<1>1. UNCHANGED <<driver, stop>>
  BY Zenon DEF Entered, observers
<1>2. CASE Returned(a, k, "err") /\ UNCHANGED <<interrupted, observation, store, clock>>
  <2>1. Uncounted
    BY <1>1, <1>2, ReturnEnds, Zenon DEF CountInv, Uncounted
  <2>2. NoOverrun
    BY <1>2, Zenon DEF CountInv, ShapeInv, NoOverrun
  <2> QED BY <2>1, <2>2, UncountedKeeps, Zenon DEF NoOverrun
<1>3. CASE Faulted(a, TRUE, "refused") /\ Returned(a, k, "err") /\ UNCHANGED <<interrupted, clock>>
  <2>1. Uncounted
    BY <1>1, <1>3, ReturnEnds, Zenon DEF CountInv, Uncounted
  <2>2. NoOverrun
    BY <1>3, FaultReports, Zenon DEF CountInv, NoOverrun
  <2> QED BY <2>1, <2>2, UncountedKeeps, Zenon DEF NoOverrun
<1>4. CASE Armed(a) /\ guest' = [guest EXCEPT ![a] = k] /\ UNCHANGED observation
  BY <1>1, <1>4, ArmedKeeps, Zenon
<1> QED
  BY <1>2, <1>3, <1>4, Zenon DEF Entered

\* What a running guest does of its own accord is not held against its budget.
LEMMA GuestKeeps ==
  ASSUME CountInv, IsBuilt, NEW a \in Activations, GuestStep(a)
  PROVE  CountInv' /\ NoOverrun
<1>1. PICK k \in Clients : k = guest[a]
  BY Zenon DEF CountInv, ShapeInv
<1>2. SUFFICES Uncounted /\ NoOverrun
  BY UncountedKeeps, Zenon DEF NoOverrun
<1>3. ASSUME NEW result, GuestReturns(a, result) PROVE Uncounted /\ NoOverrun
  <2>1. UNCHANGED <<driver, stop, interrupted, observation, clock>>
    BY <1>3, Zenon DEF GuestReturns, observers
  <2>2. CASE start[a] = "instantiating"
    <3>1. guest' = [guest EXCEPT ![a] = Nobody]
      BY <1>3, <2>2, Zenon DEF GuestReturns
    <3> QED BY <2>1, <3>1, Zenon DEF Uncounted, NoOverrun, CountInv, ShapeInv, Running, Clients
  <2>3. CASE start[a] # "instantiating"
    <3>1. Returned(a, k, result)
      BY <1>1, <1>3, <2>3, Zenon DEF GuestReturns
    <3> QED BY <2>1, <3>1, ReturnEnds, Zenon DEF Uncounted, NoOverrun, CountInv, ShapeInv
  <2> QED BY <2>2, <2>3, Zenon
<1>4. ASSUME NEW poisoned, GuestFails(a, poisoned) PROVE Uncounted /\ NoOverrun
  <2>1. UNCHANGED <<driver, stop, interrupted, clock>> /\ Faulted(a, poisoned, "failed") /\ Returned(a, k, "err")
    BY <1>1, <1>4, Zenon DEF GuestFails, observers
  <2>2. Uncounted
    BY <2>1, ReturnEnds, Zenon DEF CountInv, Uncounted
  <2>3. NoOverrun
    BY <2>1, FaultReports, Zenon DEF CountInv, NoOverrun
  <2> QED BY <2>2, <2>3, Zenon
<1>5. ASSUME NEW kind, GuestGrows(a, kind, 1) PROVE Uncounted /\ NoOverrun
  BY <1>5, Zenon DEF GuestGrows, observers, lifecycle, Uncounted, NoOverrun, CountInv, ShapeInv, Running
<1>6. ASSUME UNCHANGED <<driver, stop, interrupted, clock, guest>>,
             \/ observation' = [observation EXCEPT ![a].records = @ + 1]
             \/ observation' = [observation EXCEPT ![a].live_handles = @ + 1]
             \/ observation' = [observation EXCEPT ![a].live_handles = @ - 1]
      PROVE  Uncounted /\ NoOverrun
  <2>1. Uncounted
    BY <1>6, Zenon DEF Uncounted, CountInv, ShapeInv, Running
  <2>2. CASE observation' = [observation EXCEPT ![a].records = @ + 1]
    <3>1. PICK v : v = observation[a].records + 1
      BY Zenon
    <3> QED BY <2>1, <2>2, <3>1, EditKeepsReport, Zenon DEF CountInv
  <2>3. CASE observation' = [observation EXCEPT ![a].live_handles = @ + 1]
    <3>1. PICK v : v = observation[a].live_handles + 1
      BY Zenon
    <3> QED BY <2>1, <2>3, <3>1, EditKeepsReport, Zenon DEF CountInv
  <2>4. CASE observation' = [observation EXCEPT ![a].live_handles = @ - 1]
    <3>1. PICK v : v = observation[a].live_handles - 1
      BY Zenon
    <3> QED BY <2>1, <2>4, <3>1, EditKeepsReport, Zenon DEF CountInv
  <2> QED BY <1>6, <2>2, <2>3, <2>4, Zenon
<1>7. CASE GuestLogs(a)
  BY <1>6, <1>7, Zenon DEF GuestLogs, observers, lifecycle
<1>8. CASE GuestAcquires(a)
  BY <1>6, <1>8, Zenon DEF GuestAcquires, observers, lifecycle
<1>9. CASE GuestDrops(a)
  BY <1>6, <1>9, Zenon DEF GuestDrops, observers, lifecycle
<1> QED
  BY <1>3, <1>4, <1>5, <1>7, <1>8, <1>9, Zenon DEF GuestStep, GuestTraps, ProviderPanics

\* The step of a deadline that reports an overrun: the tick that is due is the
\* last one of the budget, and the host has not asked for the stop.
Earned(a) ==
    /\ clock[a].elapsed >= limits.call_budget_ticks
    /\ stop[a] = "none"

\* A deadline ends the call or is counted.
LEMMA DeadlineKeeps ==
  ASSUME CountInv, IsBuilt, NEW a \in Activations, Deadline(a)
  PROVE  /\ CountInv'
         /\ NoOverrun \/ \A b \in Activations :
                \/ observation'[b].report \in {observation[b].report, "stopped"}
                \/ b = a /\ Earned(a)
<1> DEFINE budget == limits.call_budget_ticks
<1>1. PICK k \in Clients : k = guest[a]
  BY Zenon DEF CountInv, ShapeInv
<1>2. /\ UNCHANGED <<driver, stop>>
      /\ interrupted' = [interrupted EXCEPT ![a] = on_deadline(@)]
      /\ Running(a) /\ clock[a].due = TRUE
  BY Zenon DEF Deadline, observers, CountInv, ShapeInv
<1>3. /\ budget \in Nat /\ clock[a].elapsed \in Nat /\ interrupted[a].ticks \in Nat
      /\ interrupted[a].killed \in BOOLEAN
  BY Zenon DEF CountInv, ShapeInv, BuiltInv
<1>4. interrupted' \in [Activations -> [killed : BOOLEAN, ticks : Nat]]
  BY <1>2 DEF CountInv, ShapeInv, on_deadline
<1>5. BuiltInv'
  BY <1>2, Zenon DEF CountInv, BuiltInv, IsBuilt, limits
<1>6. StopInv'
  BY <1>2, Zenon DEF CountInv, StopInv, ShapeInv, on_deadline
<1>7. clock[a].elapsed >= budget \/ interrupted[a].ticks + 1 <= clock[a].elapsed
  BY <1>2, Zenon DEF CountInv, TimeInv, Charged
<1>8. ASSUME NEW b \in Activations, b # a PROVE interrupted'[b] = interrupted[b]
  BY <1>2, <1>8, Zenon DEF CountInv, ShapeInv
<1>9. CASE interrupts(interrupted[a], budget)
  <2>1. PICK report : report = describe_stop(a)
    BY Zenon
  <2>2. Faulted(a, TRUE, report) /\ Returned(a, k, "err") /\ UNCHANGED clock
    BY <1>1, <1>9, <2>1, Zenon DEF Deadline
  <2>3. ShapeInv'
    BY <1>2, <1>4, <2>2, FaultReports, ReturnEnds, Zenon DEF CountInv, ShapeInv
  <2>4. TimeInv'
    BY <1>1, <1>2, <1>8, <2>2, ReturnEnds, Zenon DEF CountInv, TimeInv, Charged, limits
  <2>5. report = "stopped" \/ Earned(a)
    <3>1. CASE interrupted[a].killed
      BY <2>1, <3>1, Zenon DEF describe_stop
    <3>2. CASE ~interrupted[a].killed
      BY <1>3, <1>7, <1>9, <3>2 DEF interrupts, Earned, CountInv, StopInv
    <3> QED BY <3>1, <3>2, Zenon
  <2>6. \A b \in Activations :
           \/ observation'[b].report \in {observation[b].report, "stopped"}
           \/ b = a /\ Earned(a)
    BY <2>2, <2>5, FaultReports, Zenon DEF CountInv
  <2> QED BY <1>5, <1>6, <2>3, <2>4, <2>6, Zenon DEF CountInv
<1>10. CASE ~interrupts(interrupted[a], budget)
  <2>1. clock' = [clock EXCEPT ![a].due = FALSE] /\ UNCHANGED <<observation, guest>>
    BY <1>10, Zenon DEF Deadline
  <2>2. ShapeInv' /\ NoOverrun
    <3>1. clock' \in [Activations -> [due : BOOLEAN, elapsed : Nat]]
      <4>1. clock[a] \in [due : BOOLEAN, elapsed : Nat]
        BY Zenon DEF CountInv, ShapeInv
      <4>2. [clock[a] EXCEPT !.due = FALSE] \in [due : BOOLEAN, elapsed : Nat]
        BY <4>1, Zenon
      <4> QED BY <2>1, <4>2, Zenon DEF CountInv, ShapeInv
    <3>2. observation = [b \in Activations |-> ReportFields(observation[b])]
      BY Zenon DEF CountInv, ShapeInv
    <3>3. ShapeInv'
      BY <1>2, <1>4, <2>1, <3>1, Zenon DEF CountInv, ShapeInv
    <3> QED BY <2>1, <3>2, <3>3, Zenon DEF NoOverrun
  <2>3. interrupted'[a].ticks = interrupted[a].ticks + 1
    BY <1>2, <1>10, Zenon DEF CountInv, ShapeInv, on_deadline, interrupts
  <2>4. clock'[a].due = FALSE /\ clock'[a].elapsed = clock[a].elapsed
    BY <2>1, Zenon DEF CountInv, ShapeInv
  <2>5. TimeInv'
    <3> SUFFICES ASSUME NEW b \in Activations, Running(b)
                 PROVE  \/ clock'[b].elapsed >= limits.call_budget_ticks
                        \/ Charged(b)' <= clock'[b].elapsed
      BY <1>2, <2>1, Zenon DEF TimeInv, Running, limits
    <3>1. CASE b = a
      BY <1>3, <1>7, <2>3, <2>4, <3>1 DEF Charged
    <3>2. CASE b # a
      <4>1. clock'[b] = clock[b]
        BY <2>1, <3>2, Zenon DEF CountInv, ShapeInv
      <4> QED BY <1>8, <3>2, <4>1, Zenon DEF CountInv, TimeInv, Charged
    <3> QED BY <3>1, <3>2, Zenon
  <2> QED BY <1>5, <1>6, <2>2, <2>5, Zenon DEF CountInv
<1> QED
  BY <1>9, <1>10, Zenon

\* The steps of the host and of the futures outside the guest.
LEMMA OutsideKeeps ==
  ASSUME CountInv, IsBuilt, NEW a \in Activations,
         \/ Prepare(a) \/ Instantiate(a) \/ Publish(a) \/ AfterPublish(a)
         \/ Deactivate(a) \/ TakeStore(a) \/ ReleaseStore(a)
  PROVE  CountInv' /\ NoOverrun
<1>1. ASSUME UNCHANGED <<driver, stop, interrupted, clock, guest>> PROVE Uncounted
  BY <1>1, Zenon DEF Uncounted, CountInv, ShapeInv, Running
<1>2. ASSUME UNCHANGED observation PROVE NoOverrun
  BY <1>2, Zenon DEF NoOverrun, CountInv, ShapeInv
<1>3. ASSUME Uncounted, NoOverrun PROVE CountInv' /\ NoOverrun
  BY <1>3, UncountedKeeps, Zenon DEF NoOverrun
<1>4. CASE Prepare(a)
  BY <1>1, <1>2, <1>3, <1>4, Zenon DEF Prepare, lifecycle
<1>5. CASE Instantiate(a)
  BY <1>5, ArmedKeeps, Zenon DEF Instantiate, observers, Clients
<1>6. CASE Publish(a)
  BY <1>1, <1>2, <1>3, <1>6, Zenon DEF Publish, observers
<1>7. CASE AfterPublish(a)
  <2>1. NoOverrun
    BY <1>7, EditKeepsReport, Zenon DEF AfterPublish, CountInv
  <2> QED BY <1>1, <1>3, <1>7, <2>1, Zenon DEF AfterPublish, observers
<1>8. CASE Deactivate(a)
  <2>1. /\ UNCHANGED <<driver, observation, guest, clock>>
        /\ stop' = [stop EXCEPT ![a] = "waiting"]
        /\ interrupted' = [interrupted EXCEPT ![a] = kill(@)]
    BY <1>8, Zenon DEF Deactivate, observers
  <2>2. ShapeInv'
    BY <2>1, Zenon DEF CountInv, ShapeInv, kill
  <2>3. BuiltInv'
    BY <2>1, Zenon DEF CountInv, BuiltInv, IsBuilt, limits
  <2>4. \A b \in Activations : interrupted'[b].ticks = interrupted[b].ticks
    BY <2>1, Zenon DEF CountInv, ShapeInv, kill
  <2>5. TimeInv'
    BY <2>1, <2>4, Zenon DEF CountInv, TimeInv, Charged, Running, limits
  <2>6. StopInv'
    BY <2>1 DEF CountInv, StopInv, ShapeInv, kill
  <2> QED BY <1>2, <2>1, <2>2, <2>3, <2>5, <2>6, Zenon DEF CountInv
<1>9. ASSUME stop[a] # "none", NoOverrun, UNCHANGED <<driver, interrupted, guest, clock>>,
             \E sp : sp # "none" /\ stop' = [stop EXCEPT ![a] = sp]
      PROVE  CountInv' /\ NoOverrun
  <2>1. ShapeInv'
    BY <1>9, Zenon DEF CountInv, ShapeInv, NoOverrun
  <2>2. BuiltInv'
    BY <1>9, Zenon DEF CountInv, BuiltInv, IsBuilt, limits
  <2>3. TimeInv'
    BY <1>9, Zenon DEF CountInv, TimeInv, Charged, Running, limits
  <2>4. StopInv'
    BY <1>9, Zenon DEF CountInv, StopInv, ShapeInv
  <2> QED BY <1>9, <2>1, <2>2, <2>3, <2>4, Zenon DEF CountInv
<1>10. CASE TakeStore(a)
  BY <1>2, <1>9, <1>10, Zenon DEF TakeStore, StopAnswer, observers
<1>11. CASE ReleaseStore(a)
  <2>1. NoOverrun
    <3> DEFINE x == StoreDropped(a, observation[a])
               y == [x EXCEPT !.records = 0]
               z == [y EXCEPT !.resource = "released"]
    <3>1. x = ReportFields(x) /\ x.report = observation[a].report
      BY DropKeepsReport, Zenon DEF CountInv, ShapeInv
    <3>2. y = ReportFields(y) /\ y.report = x.report
      <4> HIDE DEF x
      <4> QED BY <3>1 DEF ReportFields
    <3>3. z = ReportFields(z) /\ z.report = y.report
      <4> HIDE DEF y
      <4> QED BY <3>2 DEF ReportFields
    <3>4. observation' = [observation EXCEPT ![a] = z]
      BY <1>11, Zenon DEF ReleaseStore
    <3> HIDE DEF x, y, z
    <3> QED BY <3>1, <3>2, <3>3, <3>4, Zenon DEF NoOverrun, CountInv, ShapeInv
  <2> QED BY <1>9, <1>11, <2>1, Zenon DEF ReleaseStore, StopAnswer, observers
<1> QED
  BY <1>4, <1>5, <1>6, <1>7, <1>8, <1>10, <1>11, Zenon

\* Dropped starts, and what callers do.
LEMMA ClientKeeps ==
  ASSUME IInv, IsBuilt,
         \/ \E a \in Activations : call_activate(a)
         \/ \E c \in Callers : call_invoke(c)
         \/ \E a \in Activations, poisoned \in BOOLEAN : DropStart(a, poisoned)
         \/ \E c \in Callers, poisoned \in BOOLEAN : DropCall(c, poisoned)
         \/ \E c \in Callers, a \in Activations : CallTool(c, a)
         \/ \E c \in Callers : AskForStore(c)
  PROVE  CountInv' /\ NoOverrun
<1> USE DEF IInv
<1>1. ASSUME NEW c \in Callers, caller[c].at = "in" PROVE caller[c].on \in Activations
  BY <1>1 DEF CallerInv, Idle
<1>2. ASSUME NEW a \in Activations, call_activate(a) PROVE CountInv' /\ NoOverrun
  BY <1>2, EnteredKeeps, Zenon DEF call_activate, Clients
<1>3. ASSUME NEW c \in Callers, call_invoke(c) PROVE CountInv' /\ NoOverrun
  <2>1. PICK a \in Activations : a = caller[c].on
    BY <1>1, <1>3, Zenon DEF call_invoke
  <2>2. Entered(a, c)
    BY <1>3, <2>1, Zenon DEF call_invoke
  <2> QED BY <2>2, EnteredKeeps, Zenon DEF Clients
<1>4. ASSUME NEW a \in Activations, NEW k, NEW poisoned, Abandoned(a, k, poisoned),
             UNCHANGED <<driver, stop, interrupted, clock>>
      PROVE  CountInv' /\ NoOverrun
  <2>1. Uncounted /\ NoOverrun
    BY <1>4, AbandonEnds, Zenon DEF CountInv, Uncounted
  <2> QED BY <2>1, UncountedKeeps, Zenon DEF NoOverrun
<1>5. ASSUME NEW a \in Activations, NEW poisoned, DropStart(a, poisoned) PROVE CountInv' /\ NoOverrun
  BY <1>4, <1>5, Zenon DEF DropStart, observers
<1>6. ASSUME NEW c \in Callers, NEW poisoned, DropCall(c, poisoned) PROVE CountInv' /\ NoOverrun
  <2>1. PICK a \in Activations : a = caller[c].on
    BY <1>1, <1>6, Zenon DEF DropCall
  <2>2. Abandoned(a, c, poisoned) /\ UNCHANGED <<driver, stop, interrupted, clock>>
    BY <1>6, <2>1, Zenon DEF DropCall, observers, lifecycle
  <2> QED BY <1>4, <2>2, Zenon
<1>7. ASSUME UNCHANGED <<driver, stop, interrupted, clock, guest, observation>>
      PROVE  CountInv' /\ NoOverrun
  <2>1. Uncounted /\ NoOverrun
    BY <1>7, Zenon DEF Uncounted, NoOverrun, CountInv, ShapeInv, Running
  <2> QED BY <2>1, UncountedKeeps, Zenon DEF NoOverrun
<1>8. ASSUME NEW c \in Callers, NEW a \in Activations, CallTool(c, a) PROVE CountInv' /\ NoOverrun
  BY <1>7, <1>8, Zenon DEF CallTool, observers, lifecycle
<1>9. ASSUME NEW c \in Callers, AskForStore(c) PROVE CountInv' /\ NoOverrun
  BY <1>7, <1>9, Zenon DEF AskForStore, observers, lifecycle
<1> QED
  BY <1>2, <1>3, <1>5, <1>6, <1>8, <1>9, Zenon

\* A caller is bound to an activation from its first check to its return.
LEMMA CallerKeeps ==
  ASSUME IInv, Next
  PROVE  CallerInv'
<1> USE DEF IInv
<1>1. ASSUME UNCHANGED caller PROVE CallerInv'
  BY <1>1, Zenon DEF CallerInv
<1>2. ASSUME NEW k, caller' = [caller EXCEPT ![k] = Idle] PROVE CallerInv'
  BY <1>2, Zenon DEF CallerInv
<1>3. ASSUME NEW a, NEW k, NEW result, Returned(a, k, result) PROVE CallerInv'
  BY <1>1, <1>2, <1>3, Zenon DEF Returned
<1>4. ASSUME NEW a, NEW k, Entered(a, k) PROVE CallerInv'
  BY <1>1, <1>3, <1>4, Zenon DEF Entered
<1>5. ASSUME NEW a, GuestStep(a) PROVE CallerInv'
  <2>1. PICK k : k = guest[a]
    BY Zenon
  <2>2. \/ UNCHANGED caller
        \/ \E result : Returned(a, k, result)
    BY <1>5, <2>1, Zenon DEF GuestStep, GuestReturns, GuestTraps, ProviderPanics, GuestFails, GuestGrows,
                      GuestLogs, GuestAcquires, GuestDrops
  <2> QED BY <1>1, <1>3, <2>2, Zenon
<1>6. ASSUME NEW a, Deadline(a) PROVE CallerInv'
  <2>1. PICK k : k = guest[a]
    BY Zenon
  <2> QED BY <1>1, <1>3, <1>6, <2>1, Zenon DEF Deadline
<1>7. ASSUME NEW c \in Callers, NEW a \in Activations, CallTool(c, a) PROVE CallerInv'
  BY <1>7, Zenon DEF CallTool, CallerInv
<1>8. ASSUME NEW c \in Callers, AskForStore(c) PROVE CallerInv'
  <2>1. caller[c] \in [at : {"entered", "in"}, on : Activations]
    BY <1>8 DEF AskForStore, CallerInv, Idle
  <2> QED BY <1>8, <2>1, Zenon DEF AskForStore, CallerInv
<1>9. ASSUME NEW c \in Callers, NEW poisoned, DropCall(c, poisoned) PROVE CallerInv'
  BY <1>2, <1>9, Zenon DEF DropCall
<1>10. ASSUME NEW c \in Callers, call_invoke(c) PROVE CallerInv'
  <2>1. PICK a : a = caller[c].on
    BY Zenon
  <2> QED BY <1>4, <1>10, <2>1, Zenon DEF call_invoke
<1>11. ASSUME NEW a, call_activate(a) PROVE CallerInv'
  BY <1>4, <1>11, Zenon DEF call_activate
<1>12. CASE UNCHANGED caller
  BY <1>1, <1>12, Zenon
<1> QED
  BY <1>5, <1>6, <1>7, <1>8, <1>9, <1>10, <1>11, <1>12, Zenon
  DEF Next, for_component, scripted, Tick, Prepare, Instantiate, Publish, AfterPublish, DropStart,
      Deactivate, TakeStore, ReleaseStore

\* Until the driver is built nothing but its construction is possible.
LEMMA BuiltFirst ==
  ASSUME IInv, Next, ~IsBuilt
  PROVE  \E b \in Builds : for_component(b) \/ scripted(b)
<1>1. /\ \A a \in Activations : /\ plan[a] = NoPlan /\ start[a] = "none" /\ stop[a] = "none"
                                /\ ~Running(a)
      /\ \A c \in Callers : caller[c].at = "idle"
  BY DEF IInv, CountInv, BuiltInv, Running, Idle
<1>2. ~Tick /\ \A a \in Activations : ~Prepare(a)
  BY Zenon DEF Tick, Prepare, IsBuilt
<1>3. \A a \in Activations : /\ ~Instantiate(a) /\ ~Publish(a) /\ ~AfterPublish(a) /\ ~call_activate(a)
                             /\ ~Deactivate(a) /\ ~TakeStore(a) /\ ~ReleaseStore(a)
  BY <1>1, Zenon DEF Instantiate, Publish, AfterPublish, call_activate, Deactivate, TakeStore, ReleaseStore
<1>4. \A a \in Activations, poisoned \in BOOLEAN : ~DropStart(a, poisoned)
  BY <1>1, Zenon DEF DropStart
<1>5. \A a \in Activations : ~GuestStep(a) /\ ~Deadline(a)
  BY <1>1, Zenon DEF GuestStep, GuestReturns, GuestTraps, ProviderPanics, GuestFails, GuestGrows, GuestLogs,
              GuestAcquires, GuestDrops, Deadline
<1>6. \A c \in Callers : /\ ~call_invoke(c) /\ ~AskForStore(c)
                         /\ \A poisoned \in BOOLEAN : ~DropCall(c, poisoned)
                         /\ \A a \in Activations : ~CallTool(c, a)
  BY <1>1, Zenon DEF call_invoke, AskForStore, DropCall, CallTool
<1> QED
  BY <1>2, <1>3, <1>4, <1>5, <1>6, Zenon DEF Next

\* What any step makes of the reports.
ReportsEarned ==
    \A a \in Activations :
        \/ observation'[a].report \in {observation[a].report, "refused", "failed", "stopped"}
        \/ Earned(a)

\* Every step keeps the invariant, and reports only overruns that are earned.
LEMMA StepKeeps ==
  ASSUME IInv, Next
  PROVE  IInv' /\ ReportsEarned
<1>1. NoOverrun => ReportsEarned
  BY Zenon DEF NoOverrun, ReportsEarned
<1>2. CountInv' /\ ReportsEarned
  <2>1. CASE ~IsBuilt
    BY <1>1, <2>1, BuiltFirst, BuildKeeps, Zenon DEF IInv
  <2>2. CASE IsBuilt
    <3>1. ASSUME NEW a \in Activations, Deadline(a) PROVE CountInv' /\ ReportsEarned
      BY <1>1, <2>2, <3>1, DeadlineKeeps, Zenon DEF IInv, ReportsEarned
    <3> QED
      BY <1>1, <2>2, <3>1, BuildKeeps, TickKeeps, OutsideKeeps, ClientKeeps, GuestKeeps, Zenon
      DEF Next, IInv
  <2> QED BY <2>1, <2>2, Zenon
<1> QED
  BY <1>2, CallerKeeps, Zenon DEF IInv

-----------------------------------------------------------------------------

\* The inductive invariant holds in every reachable state.
THEOREM InvariantHolds == Spec => []IInv
<1>1. IInv /\ UNCHANGED vars => IInv'
  BY Zenon DEF IInv, CountInv, ShapeInv, BuiltInv, TimeInv, StopInv, CallerInv, Charged, Running, IsBuilt, limits, vars
<1> QED
  BY InitInvariant, StepKeeps, <1>1, PTL DEF Spec

\* A call is reported to have overrun only after ticks for all of its budget
\* came while it was running, and never once the host has asked it to stop
\* (on_deadline, describe_stop), for every budget and any number of activations
\* and callers.
THEOREM OverrunsAreEarned == Spec => OverrunIsEarned
<1>1. IInv /\ [Next]_vars =>
        [\A a \in Activations :
          observation[a].report # "overran" /\ observation'[a].report = "overran" =>
              /\ clock[a].elapsed >= limits.call_budget_ticks
              /\ stop[a] = "none"]_vars
  BY StepKeeps, Zenon DEF ReportsEarned, Earned
<1> QED
  BY InvariantHolds, <1>1, PTL DEF Spec, OverrunIsEarned
-----------------------------------------------------------------------------
(* Nothing is left behind *)

StoreFields(s) ==
    [where |-> s.where, handles |-> s.handles, used |-> s.used, poisoned |-> s.poisoned]

InFlight == {"instantiating", "publishing", "published", "activate", "pending"}

\* An activation whose store is at w with h handles, whose observation has l
\* live handles, resource r and n records, whose start, stop and guest are st, sp
\* and g, and whose lock has the queue q: the future of a start owns a local
\* store, the holder of the lock a live one, the deactivation the one it has taken,
\* and only the guest of the first two is running.
Tidy(w, h, l, r, n, st, sp, g, q) ==
    /\ w \in {"none", "local", "live", "taken"}
    /\ h \in Nat /\ l = h
    /\ w = "none" => h = 0
    /\ w = "local" <=> st \in {"instantiating", "publishing"}
    /\ st = "none" => w = "none"
    /\ st = "published" => w = "live"
    /\ w = "taken" <=> sp = "releasing"
    /\ r = "live" => w \in {"live", "taken"}
    /\ r = "released" => n = 0 /\ sp \in StopOver
    /\ st \in {"activate", "ok"} => r \in {"live", "released"}
    /\ g = Start => st \in {"instantiating", "activate"}
    /\ st \in InFlight => sp = "none"
    /\ g # Nobody => \/ st = "instantiating" /\ g = Start
                     \/ w = "live" /\ q # <<>> /\ Head(q) = g
    /\ sp \in StopOver => w = "none" /\ g = Nobody

TidyAt(a) == Tidy(store[a].where, store[a].handles, observation[a].live_handles, observation[a].resource,
                  observation[a].records, start[a], stop[a], guest[a], queue[a])

\* The shape of the stores, the locks and the starts.
OwnerShape ==
    /\ store = [a \in Activations |-> StoreFields(store[a])]
    /\ queue \in [Activations -> Seq(Clients \cup {Stop})]
    /\ DOMAIN start = Activations

\* The inductive invariant of the stores.
OwnerInv == IInv /\ OwnerShape /\ \A a \in Activations : TidyAt(a)

\* The six things of an activation that a step of another leaves alone.
SameAt(b) ==
    /\ store'[b] = store[b] /\ observation'[b] = observation[b]
    /\ start'[b] = start[b] /\ stop'[b] = stop[b]
    /\ guest'[b] = guest[b] /\ queue'[b] = queue[b]

LocalTo(a) == \A b \in Activations \ {a} : SameAt(b)

\* A step of one activation that leaves it tidy keeps the invariant of the stores.
LEMMA OwnerStep ==
  ASSUME OwnerInv, IInv', OwnerShape', NEW a \in Activations, LocalTo(a), TidyAt(a)'
  PROVE  OwnerInv'
<1>1. ASSUME NEW b \in Activations \ {a} PROVE TidyAt(b)'
  BY Zenon DEF OwnerInv, LocalTo, SameAt, TidyAt
<1> QED BY <1>1, Zenon DEF OwnerInv

\* A dropped waiter leaves the holder of the lock where it is.
LEMMA WithoutKeeps ==
  ASSUME NEW S, NEW q \in Seq(S), NEW k
  PROVE  /\ Without(q, k) \in Seq(S)
         /\ q # <<>> /\ Head(q) # k => Without(q, k) # <<>> /\ Head(Without(q, k)) = Head(q)
<1>1. DOMAIN q = 1..Len(q) /\ Len(q) \in Nat /\ (q # <<>> => Head(q) = q[1])
  OBVIOUS
<1>2. CASE \E i \in DOMAIN q : q[i] = k
  <2>1. PICK j : j = CHOOSE i \in DOMAIN q : q[i] = k
    BY Zenon
  <2>2. j \in 1..Len(q) /\ q[j] = k
    BY <1>1, <1>2, <2>1, Zenon
  <2>3. Without(q, k) = SubSeq(q, 1, j - 1) \o SubSeq(q, j + 1, Len(q))
    BY <1>2, <2>1, Zenon DEF Without
  <2>4. /\ 1 \in Int /\ j - 1 \in Int /\ j + 1 \in Int /\ Len(q) \in Int
        /\ \A i \in 1..(j - 1) : q[i] \in S
        /\ \A i \in (j + 1)..Len(q) : q[i] \in S
    BY <1>1, <2>2
  <2>5. PICK x \in Seq(S) : x = SubSeq(q, 1, j - 1)
    <3>1. SubSeq(q, 1, j - 1) \in Seq(S)
      BY <2>4, SubSeqProperties, Zenon
    <3> QED BY <3>1, Zenon
  <2>6. PICK y \in Seq(S) : y = SubSeq(q, j + 1, Len(q))
    BY <2>4, SubSeqProperties, Zenon
  <2>7. /\ x \o y \in Seq(S) /\ Len(x \o y) = Len(x) + Len(y)
        /\ Len(x) > 0 => (x \o y)[1] = x[1]
    OBVIOUS
  <2>8. Len(x) = j - 1 /\ (j > 1 => x[1] = q[1])
    BY <2>2, <2>5
  <2>9. Len(x) \in Nat /\ Len(y) \in Nat
    OBVIOUS
  <2>10. ASSUME q[1] # k PROVE x \o y # <<>> /\ Head(x \o y) = q[1]
    <3>1. Len(x \o y) > 0 /\ (x \o y)[1] = q[1]
      BY <2>2, <2>7, <2>8, <2>9, <2>10
    <3> QED BY <2>7, <3>1
  <2> QED BY <1>1, <2>3, <2>5, <2>6, <2>7, <2>10, Zenon
<1>3. CASE ~\E i \in DOMAIN q : q[i] = k
  BY <1>3, Zenon DEF Without
<1> QED BY <1>2, <1>3, Zenon

\* Edits of a record that leave its other fields alone.
LEMMA StoreEdits ==
  ASSUME NEW s, s = StoreFields(s), NEW v, NEW t
  PROVE  /\ t = [s EXCEPT !.used = v] =>
              t = StoreFields(t) /\ t.where = s.where /\ t.handles = s.handles
         /\ t = [s EXCEPT !.poisoned = v] =>
              t = StoreFields(t) /\ t.where = s.where /\ t.handles = s.handles
         /\ t = [s EXCEPT !.where = v] =>
              t = StoreFields(t) /\ t.where = v /\ t.handles = s.handles
         /\ t = [s EXCEPT !.handles = v] =>
              t = StoreFields(t) /\ t.where = s.where /\ t.handles = v
BY Zenon DEF StoreFields

\* The same for what outlives a store.
LEMMA ObservationEdits ==
  ASSUME NEW o, o = ReportFields(o), NEW v, NEW t
  PROVE  /\ t = [o EXCEPT !.records = v] =>
              t = ReportFields(t) /\ t.live_handles = o.live_handles /\ t.resource = o.resource
         /\ t = [o EXCEPT !.faulted = v] =>
              t = ReportFields(t) /\ t.live_handles = o.live_handles /\ t.resource = o.resource
         /\ t = [o EXCEPT !.report = v] =>
              t = ReportFields(t) /\ t.live_handles = o.live_handles /\ t.resource = o.resource
         /\ t = [o EXCEPT !.live_handles = v] =>
              t = ReportFields(t) /\ t.live_handles = v /\ t.resource = o.resource
         /\ t = [o EXCEPT !.resource = v] =>
              t = ReportFields(t) /\ t.live_handles = o.live_handles /\ t.resource = v
<1> USE DEF ReportFields
<1>1. t = [o EXCEPT !.records = v] =>
        t = ReportFields(t) /\ t.live_handles = o.live_handles /\ t.resource = o.resource
  BY Zenon
<1>2. t = [o EXCEPT !.faulted = v] =>
        t = ReportFields(t) /\ t.live_handles = o.live_handles /\ t.resource = o.resource
  BY Zenon
<1>3. t = [o EXCEPT !.report = v] =>
        t = ReportFields(t) /\ t.live_handles = o.live_handles /\ t.resource = o.resource
  BY Zenon
<1>4. t = [o EXCEPT !.live_handles = v] =>
        t = ReportFields(t) /\ t.live_handles = v /\ t.resource = o.resource
  BY Zenon
<1>5. t = [o EXCEPT !.resource = v] =>
        t = ReportFields(t) /\ t.live_handles = o.live_handles /\ t.resource = v
  BY Zenon
<1> HIDE DEF ReportFields
<1> QED BY <1>1, <1>2, <1>3, <1>4, <1>5, Zenon

\* A store that does not exist has no handles.
LEMMA NoStoreFields ==
  /\ NoStore = StoreFields(NoStore) /\ NoStore.where = "none" /\ NoStore.handles = 0
  /\ NewStore = StoreFields(NewStore) /\ NewStore.where = "local" /\ NewStore.handles = 0
<1>1. PICK flag : flag = FALSE
  BY Zenon
<1>2. NoStore = [where |-> "none", handles |-> 0, used |-> limiter, poisoned |-> flag]
  BY <1>1, Zenon DEF NoStore
<1>3. NoStore = StoreFields(NoStore) /\ NoStore.where = "none" /\ NoStore.handles = 0
  BY <1>2, Zenon DEF StoreFields
<1> QED BY <1>3, StoreEdits DEF NewStore

\* What a failed call leaves of its store.
LEMMA FaultStore ==
  ASSUME OwnerInv, NEW a \in Activations, NEW poisoned, NEW report, Faulted(a, poisoned, report)
  PROVE  /\ store' = [b \in Activations |-> StoreFields(store'[b])]
         /\ \A b \in Activations \ {a} : store'[b] = store[b] /\ observation'[b] = observation[b]
         /\ observation'[a].resource = observation[a].resource
         /\ store[a].where = "local" =>
              /\ store'[a].where = "none" /\ store'[a].handles = 0
              /\ observation'[a].live_handles = observation[a].live_handles - store[a].handles
         /\ store[a].where # "local" =>
              /\ store'[a].where = store[a].where /\ store'[a].handles = store[a].handles
              /\ observation'[a].live_handles = observation[a].live_handles
<1>1. /\ observation[a] = ReportFields(observation[a]) /\ store[a] = StoreFields(store[a])
      /\ DOMAIN observation = Activations /\ DOMAIN store = Activations
  BY Zenon DEF OwnerInv, IInv, CountInv, ShapeInv, OwnerShape
<1> DEFINE flag == TRUE
<1>2. PICK x, y, z : /\ x = [observation[a] EXCEPT !.faulted = flag]
                     /\ y = [x EXCEPT !.report = report]
                     /\ z = StoreDropped(a, y)
  BY Zenon
<1>3. /\ y = ReportFields(y) /\ y.live_handles = observation[a].live_handles
      /\ y.resource = observation[a].resource
  <2>1. /\ x = ReportFields(x) /\ x.live_handles = observation[a].live_handles
        /\ x.resource = observation[a].resource
    <3> HIDE DEF flag
    <3> QED BY <1>1, <1>2, ObservationEdits
  <2> HIDE DEF flag
  <2>2. x = ReportFields(x) /\ y = [x EXCEPT !.report = report]
    BY <1>2, <2>1, Zenon
  <2>3. y = ReportFields(y) /\ y.live_handles = x.live_handles /\ y.resource = x.resource
    BY <2>2, ObservationEdits
  <2> QED BY <2>1, <2>3, Zenon
<1>4. /\ z.live_handles = observation[a].live_handles - store[a].handles
      /\ z.resource = observation[a].resource
  <2>1. PICK v : v = y.live_handles - store[a].handles
    BY Zenon
  <2>2. z = [y EXCEPT !.live_handles = v]
    BY <1>2, <2>1, Zenon DEF StoreDropped
  <2> HIDE DEF flag
  <2> QED BY <1>3, <2>1, <2>2, ObservationEdits
<1>5. PICK t, v : t = [store[a] EXCEPT !.poisoned = v] /\ v = (store[a].poisoned \/ poisoned)
  BY Zenon
<1>6. t = StoreFields(t) /\ t.where = store[a].where /\ t.handles = store[a].handles
  BY <1>1, <1>5, StoreEdits
<1>7. /\ observation' = [observation EXCEPT ![a] = IF store[a].where = "local" THEN z ELSE y]
      /\ store' = [store EXCEPT ![a] = IF store[a].where = "local" THEN NoStore ELSE t]
  <2>1. y = [observation[a] EXCEPT !.faulted = TRUE, !.report = report]
    BY <1>2, Zenon
  <2> QED BY <1>2, <1>5, <2>1, Zenon DEF Faulted
<1>8. store' = [b \in Activations |-> StoreFields(store'[b])]
  BY <1>1, <1>6, <1>7, NoStoreFields, Zenon DEF OwnerInv, OwnerShape
<1> QED BY <1>1, <1>3, <1>4, <1>6, <1>7, <1>8, NoStoreFields, Zenon

\* What a step of activation a owes the invariant of the stores.
Kept(a) == OwnerShape' /\ LocalTo(a) /\ TidyAt(a)'

\* What the shape gives.
LEMMA OwnerFacts ==
  ASSUME OwnerInv, NEW a \in Activations
  PROVE  /\ observation[a] = ReportFields(observation[a]) /\ store[a] = StoreFields(store[a])
         /\ DOMAIN observation = Activations /\ DOMAIN store = Activations
         /\ DOMAIN start = Activations /\ DOMAIN stop = Activations /\ DOMAIN guest = Activations
         /\ queue \in [Activations -> Seq(Clients \cup {Stop})]
         /\ guest[a] \in Clients
         /\ TidyAt(a)
BY Zenon DEF OwnerInv, IInv, CountInv, ShapeInv, OwnerShape

\* A store that is replaced.
LEMMA Replaced ==
  ASSUME OwnerInv, NEW a \in Activations, NEW v, v = StoreFields(v), store' = [store EXCEPT ![a] = v]
  PROVE  /\ store' = [b \in Activations |-> StoreFields(store'[b])]
         /\ store'[a] = v
         /\ \A b \in Activations \ {a} : store'[b] = store[b]
BY OwnerFacts, Zenon DEF OwnerInv, OwnerShape

\* What is observed of a store, replaced.
LEMMA Observed ==
  ASSUME OwnerInv, NEW a \in Activations, NEW v, observation' = [observation EXCEPT ![a] = v]
  PROVE  observation'[a] = v /\ \A b \in Activations \ {a} : observation'[b] = observation[b]
BY OwnerFacts, Zenon

\* The queue of a lock after its holder has left it.
LEMMA TailKeeps ==
  ASSUME NEW S, NEW q \in Seq(S), q # <<>>
  PROVE  Tail(q) \in Seq(S)
OBVIOUS

\* A client that returns leaves the queues and the starts in shape.
LEMMA ReturnShape ==
  ASSUME OwnerInv, NEW a \in Activations, NEW k, NEW result, Returned(a, k, result),
         (start[a] = "instantiating" /\ k = Start) \/ queue[a] # <<>>
  PROVE  /\ queue' \in [Activations -> Seq(Clients \cup {Stop})]
         /\ DOMAIN start' = Activations
         /\ \A b \in Activations \ {a} : /\ start'[b] = start[b] /\ guest'[b] = guest[b]
                                         /\ queue'[b] = queue[b]
         /\ guest'[a] = (IF guest[a] = k THEN Nobody ELSE guest[a])
         /\ start'[a] = (IF k = Start THEN result ELSE start[a])
<1>1. /\ DOMAIN start = Activations /\ DOMAIN guest = Activations
      /\ queue \in [Activations -> Seq(Clients \cup {Stop})]
  BY OwnerFacts, Zenon
<1>2. PICK q \in Seq(Clients \cup {Stop}) : queue' = [queue EXCEPT ![a] = q]
  <2>1. queue[a] \in Seq(Clients \cup {Stop})
    BY <1>1, Zenon
  <2> QED BY <2>1, TailKeeps, Zenon DEF Returned
<1>3. queue' \in [Activations -> Seq(Clients \cup {Stop})]
  BY <1>1, <1>2, Zenon
<1> QED BY <1>1, <1>2, <1>3, Zenon DEF Returned

\* A guest call that fails gives back its lock, and its store if it is local.
LEMMA FailKeeps ==
  ASSUME OwnerInv, NEW a \in Activations, NEW poisoned, NEW report, Running(a),
         Faulted(a, poisoned, report), Returned(a, guest[a], "err"), UNCHANGED stop
  PROVE  Kept(a)
<1>1. /\ TidyAt(a) /\ guest[a] # Nobody
      /\ \/ start[a] = "instantiating" /\ guest[a] = Start
         \/ store[a].where = "live" /\ queue[a] # <<>>
  BY OwnerFacts, Zenon DEF Running, TidyAt, Tidy
<1>2. PICK k : k = guest[a]
  BY Zenon
<1>3. Returned(a, k, "err")
  BY <1>2, Zenon
<1>4. OwnerShape' /\ LocalTo(a)
  BY <1>1, <1>2, <1>3, ReturnShape, FaultStore DEF OwnerShape, LocalTo, SameAt
<1>5. guest'[a] = Nobody /\ start'[a] \in {start[a], "err"} /\ (k = Start => start'[a] = "err")
  BY <1>1, <1>2, <1>3, ReturnShape, Zenon
<1>6. CASE store[a].where = "local"
  <2>1. /\ store'[a].where = "none" /\ store'[a].handles = 0
        /\ observation'[a].live_handles = observation[a].live_handles - store[a].handles
        /\ observation'[a].resource = observation[a].resource
    BY <1>6, FaultStore, Zenon
  <2>2. start'[a] = "err"
    BY <1>1, <1>2, <1>5, <1>6, Zenon
  <2> QED BY <1>1, <1>4, <1>5, <1>6, <2>1, <2>2 DEF Kept, TidyAt, Tidy, InFlight, StopOver
<1>7. CASE store[a].where # "local"
  <2>1. /\ store'[a].where = store[a].where /\ store'[a].handles = store[a].handles
        /\ observation'[a].live_handles = observation[a].live_handles
        /\ observation'[a].resource = observation[a].resource
    BY <1>7, FaultStore, Zenon
  <2>2. store[a].where = "live" /\ stop'[a] = stop[a] /\ stop[a] \notin StopOver /\ guest'[a] # Start
    BY <1>1, <1>5, <1>7, WasmAssumption, Zenon DEF TidyAt, Tidy
  <2>3. observation[a].resource # "released"
    BY <1>1, <2>2, Zenon DEF TidyAt, Tidy
  <2> QED BY <1>1, <1>4, <1>5, <2>1, <2>2, <2>3, Zenon DEF Kept, TidyAt, Tidy, InFlight
<1> QED BY <1>6, <1>7, Zenon

\* A client that has the lock finds no store, one it may not enter, or enters it.
LEMMA EnterKeeps ==
  ASSUME OwnerInv, NEW a \in Activations, NEW k \in Clients \ {Nobody}, Entered(a, k),
         Holder(a) = k, guest[a] # k, k = Start => start[a] = "activate"
  PROVE  Kept(a)
<1>1. TidyAt(a) /\ UNCHANGED stop
  BY OwnerFacts, Zenon DEF Entered
<1>2. queue[a] # <<>> /\ Head(queue[a]) = k
  BY Zenon DEF Holder
<1>3. guest[a] # Nobody => start[a] = "instantiating" /\ guest[a] = Start
  BY <1>1, <1>2, Zenon DEF TidyAt, Tidy
<1>4. CASE store[a].where # "live" /\ Returned(a, k, "err") /\ UNCHANGED <<observation, store>>
  <2>1. OwnerShape' /\ LocalTo(a)
    BY <1>1, <1>2, <1>4, ReturnShape DEF OwnerShape, LocalTo, SameAt, OwnerInv
  <2>2. guest'[a] = guest[a] /\ start'[a] = IF k = Start THEN "err" ELSE start[a]
    BY <1>2, <1>4, ReturnShape
  <2> QED BY <1>1, <1>3, <1>4, <2>1, <2>2, Zenon DEF Kept, TidyAt, Tidy, InFlight, StopOver
<1>5. CASE store[a].where = "live" /\ Faulted(a, TRUE, "refused") /\ Returned(a, k, "err")
  <2>1. OwnerShape' /\ LocalTo(a)
    <3>1. /\ store' = [b \in Activations |-> StoreFields(store'[b])]
          /\ \A b \in Activations \ {a} : store'[b] = store[b] /\ observation'[b] = observation[b]
      BY <1>5, FaultStore, Zenon
    <3> QED BY <1>1, <1>2, <1>5, <3>1, ReturnShape, Zenon DEF OwnerShape, LocalTo, SameAt
  <2>2. guest'[a] = guest[a] /\ start'[a] = IF k = Start THEN "err" ELSE start[a]
    BY <1>2, <1>5, ReturnShape
  <2>3. /\ store'[a].where = store[a].where /\ store'[a].handles = store[a].handles
        /\ observation'[a].live_handles = observation[a].live_handles
        /\ observation'[a].resource = observation[a].resource
    BY <1>5, FaultStore, Zenon
  <2> QED BY <1>1, <1>3, <1>5, <2>1, <2>2, <2>3, Zenon DEF Kept, TidyAt, Tidy, InFlight, StopOver
<1>6. CASE store[a].where = "live" /\ guest' = [guest EXCEPT ![a] = k] /\ UNCHANGED <<observation, store, queue, start>>
  <2>1. OwnerShape' /\ LocalTo(a) /\ guest'[a] = k
    BY <1>1, <1>6, OwnerFacts, Zenon DEF OwnerShape, LocalTo, SameAt, OwnerInv
  <2> QED BY <1>1, <1>2, <1>6, <2>1, Zenon DEF Kept, TidyAt, Tidy, InFlight, StopOver
<1> QED BY <1>4, <1>5, <1>6, Zenon DEF Entered

\* What a running guest does to its store.
LEMMA GuestOwner ==
  ASSUME OwnerInv, NEW a \in Activations, GuestStep(a)
  PROVE  Kept(a)
<1>1. /\ TidyAt(a) /\ guest[a] # Nobody /\ Running(a)
      /\ \/ start[a] = "instantiating" /\ guest[a] = Start /\ store[a].where = "local"
         \/ start[a] # "instantiating" /\ store[a].where = "live" /\ queue[a] # <<>>
  <2>1. Running(a)
    BY Zenon DEF GuestStep, GuestReturns, GuestTraps, ProviderPanics, GuestFails, GuestGrows, GuestLogs,
                 GuestAcquires, GuestDrops
  <2> QED BY <2>1, OwnerFacts, Zenon DEF Running, TidyAt, Tidy
<1>2. ASSUME NEW result \in {"ok", "err"}, GuestReturns(a, result) PROVE Kept(a)
  <2>1. UNCHANGED <<stop, observation, store>>
    BY <1>2, Zenon DEF GuestReturns
  <2>2. CASE start[a] = "instantiating"
    <3>1. /\ start' = [start EXCEPT ![a] = "publishing"]
          /\ queue' = [queue EXCEPT ![a] = Append(@, Start)]
          /\ guest' = [guest EXCEPT ![a] = Nobody]
      BY <1>2, <2>2, Zenon DEF GuestReturns
    <3>2. queue' \in [Activations -> Seq(Clients \cup {Stop})]
      <4>1. queue \in [Activations -> Seq(Clients \cup {Stop})] /\ Start \in Clients \cup {Stop}
        BY OwnerFacts, Zenon DEF Clients
      <4> QED BY <3>1, <4>1
    <3>3. OwnerShape' /\ LocalTo(a) /\ start'[a] = "publishing" /\ guest'[a] = Nobody
      BY <2>1, <3>1, <3>2, OwnerFacts, Zenon DEF OwnerShape, LocalTo, SameAt, OwnerInv
    <3> QED BY <1>1, <2>1, <2>2, <3>3, Zenon DEF Kept, TidyAt, Tidy, InFlight, StopOver
  <2>3. CASE start[a] # "instantiating"
    <3>1. PICK k : k = guest[a]
      BY Zenon
    <3>2. Returned(a, k, result)
      BY <1>2, <2>3, <3>1, Zenon DEF GuestReturns
    <3>3. OwnerShape' /\ LocalTo(a)
      BY <1>1, <2>1, <2>3, <3>2, ReturnShape DEF OwnerShape, LocalTo, SameAt, OwnerInv
    <3>4. guest'[a] = Nobody /\ guest'[a] # Start /\ start'[a] \in {start[a], "ok", "err"}
      BY <1>1, <2>3, <3>1, <3>2, ReturnShape, WasmAssumption, Zenon
    <3>5. start'[a] = "ok" => observation[a].resource \in {"live", "released"}
      <4>1. start'[a] = start[a] \/ k = Start
        BY <1>1, <2>3, <3>2, ReturnShape, Zenon
      <4> QED BY <1>1, <2>3, <3>1, <4>1, Zenon DEF TidyAt, Tidy
    <3> QED BY <1>1, <2>1, <2>3, <3>3, <3>4, <3>5, Zenon DEF Kept, TidyAt, Tidy, InFlight, StopOver
  <2> QED BY <2>2, <2>3, Zenon
<1>3. ASSUME NEW poisoned, GuestFails(a, poisoned) PROVE Kept(a)
  BY <1>1, <1>3, FailKeeps, Zenon DEF GuestFails
<1>4. ASSUME UNCHANGED <<lifecycle, queue, guest>>,
             store' = [b \in Activations |-> StoreFields(store'[b])],
             \A b \in Activations \ {a} : store'[b] = store[b] /\ observation'[b] = observation[b],
             store'[a].where = store[a].where, observation'[a].resource = observation[a].resource,
             observation'[a].live_handles = store'[a].handles, store'[a].handles \in Nat
      PROVE  Kept(a)
  <2>1. OwnerShape' /\ LocalTo(a)
    BY <1>4, Zenon DEF OwnerShape, LocalTo, SameAt, OwnerInv, lifecycle
  <2>2. start'[a] = start[a] /\ stop'[a] = stop[a] /\ guest'[a] = guest[a] /\ queue'[a] = queue[a]
    BY <1>4, Zenon DEF lifecycle
  <2> QED BY <1>1, <1>4, <2>1, <2>2, Zenon DEF Kept, TidyAt, Tidy, InFlight, StopOver
<1>5. PICK h \in Nat : h = store[a].handles /\ h = observation[a].live_handles
  BY <1>1, Zenon DEF TidyAt, Tidy
<1>6. /\ observation[a] = ReportFields(observation[a]) /\ store[a] = StoreFields(store[a])
      /\ store = [b \in Activations |-> StoreFields(store[b])]
  BY OwnerFacts, Zenon DEF OwnerInv, OwnerShape
<1>7. ASSUME NEW kind, GuestGrows(a, kind, 1) PROVE Kept(a)
  <2>1. PICK s, v : s = [store[a] EXCEPT !.used = v] /\ v = growing(limits, store[a].used, kind, 1)
    BY Zenon
  <2>2. store' = [store EXCEPT ![a] = s] /\ UNCHANGED <<lifecycle, queue, guest, observation>>
    BY <1>7, <2>1, Zenon DEF GuestGrows
  <2>3. s = StoreFields(s) /\ s.where = store[a].where /\ s.handles = store[a].handles
    BY <1>6, <2>1, StoreEdits
  <2>4. /\ store' = [b \in Activations |-> StoreFields(store'[b])] /\ store'[a] = s
        /\ \A b \in Activations \ {a} : store'[b] = store[b]
    BY <2>2, <2>3, Replaced, Zenon
  <2> QED BY <1>4, <1>5, <2>2, <2>3, <2>4, Zenon
<1>8. CASE GuestLogs(a)
  <2>1. PICK o, v : o = [observation[a] EXCEPT !.records = v] /\ v = observation[a].records + 1
    BY Zenon
  <2>2. observation' = [observation EXCEPT ![a] = o] /\ UNCHANGED <<lifecycle, queue, guest, store>>
    BY <1>8, <2>1, Zenon DEF GuestLogs
  <2>3. o = ReportFields(o) /\ o.live_handles = observation[a].live_handles /\ o.resource = observation[a].resource
    BY <1>6, <2>1, ObservationEdits
  <2>4. observation'[a] = o /\ \A b \in Activations \ {a} : observation'[b] = observation[b]
    BY <2>2, Observed, Zenon
  <2> QED BY <1>4, <1>5, <1>6, <2>2, <2>3, <2>4, Zenon
<1>9. ASSUME NEW n \in Nat, UNCHANGED <<lifecycle, queue, guest>>,
             store' = [store EXCEPT ![a] = [store[a] EXCEPT !.handles = n]],
             observation' = [observation EXCEPT ![a] = [observation[a] EXCEPT !.live_handles = n]]
      PROVE  Kept(a)
  <2>1. PICK s, o : s = [store[a] EXCEPT !.handles = n] /\ o = [observation[a] EXCEPT !.live_handles = n]
    BY Zenon
  <2>2. s = StoreFields(s) /\ s.where = store[a].where /\ s.handles = n
    BY <1>6, <2>1, StoreEdits
  <2>3. o = ReportFields(o) /\ o.live_handles = n /\ o.resource = observation[a].resource
    BY <1>6, <2>1, ObservationEdits
  <2>4. store' = [store EXCEPT ![a] = s] /\ observation' = [observation EXCEPT ![a] = o]
    BY <1>9, <2>1, Zenon
  <2>5. /\ store' = [b \in Activations |-> StoreFields(store'[b])] /\ store'[a] = s /\ observation'[a] = o
        /\ \A b \in Activations \ {a} : store'[b] = store[b] /\ observation'[b] = observation[b]
    BY <2>2, <2>4, Replaced, Observed, Zenon
  <2> QED BY <1>4, <1>9, <2>2, <2>3, <2>5, Zenon
<1>10. CASE GuestAcquires(a)
  <2>1. PICK n \in Nat : n = h + 1
    BY <1>5
  <2>2. /\ store' = [store EXCEPT ![a] = [store[a] EXCEPT !.handles = store[a].handles + 1]]
        /\ observation' = [observation EXCEPT ![a] = [observation[a] EXCEPT !.live_handles = observation[a].live_handles + 1]]
        /\ UNCHANGED <<lifecycle, queue, guest>>
    BY <1>10, Zenon DEF GuestAcquires
  <2>3. n = store[a].handles + 1 /\ n = observation[a].live_handles + 1
    BY <1>5, <2>1, Zenon
  <2> QED BY <1>9, <2>2, <2>3, Zenon
<1>11. CASE GuestDrops(a)
  <2>1. PICK n \in Nat : n = h - 1
    BY <1>5, <1>11 DEF GuestDrops
  <2>2. /\ store' = [store EXCEPT ![a] = [store[a] EXCEPT !.handles = store[a].handles - 1]]
        /\ observation' = [observation EXCEPT ![a] = [observation[a] EXCEPT !.live_handles = observation[a].live_handles - 1]]
        /\ UNCHANGED <<lifecycle, queue, guest>>
    BY <1>11, Zenon DEF GuestDrops
  <2>3. n = store[a].handles - 1 /\ n = observation[a].live_handles - 1
    BY <1>5, <2>1, Zenon
  <2> QED BY <1>9, <2>2, <2>3, Zenon
<1> QED
  BY <1>2, <1>3, <1>7, <1>8, <1>10, <1>11, Zenon DEF GuestStep, GuestTraps, ProviderPanics

\* A deadline ends the call as a failure does, or leaves the store alone.
LEMMA DeadlineOwner ==
  ASSUME OwnerInv, NEW a \in Activations, Deadline(a)
  PROVE  Kept(a)
<1>1. CASE \E report : Faulted(a, TRUE, report) /\ Returned(a, guest[a], "err")
  BY <1>1, FailKeeps, Zenon DEF Deadline
<1>2. CASE UNCHANGED <<start, observation, store, queue, guest>>
  BY <1>2, OwnerFacts, Zenon DEF Deadline, Kept, OwnerShape, LocalTo, SameAt, TidyAt, OwnerInv
<1> QED BY <1>1, <1>2, Zenon DEF Deadline

\* A future that is dropped takes its place in the queue with it, and a local
\* store if it is the start.
LEMMA AbandonOwner ==
  ASSUME OwnerInv, NEW a \in Activations, NEW k, NEW poisoned, Abandoned(a, k, poisoned),
         UNCHANGED stop, DOMAIN start' = Activations,
         \A b \in Activations \ {a} : start'[b] = start[b],
         \/ k = Start /\ start[a] # "none" /\ start'[a] = "gone"
         \/ k # Start /\ start'[a] = start[a]
  PROVE  Kept(a)
<1>1. /\ TidyAt(a)
      /\ observation[a] = ReportFields(observation[a]) /\ store[a] = StoreFields(store[a])
      /\ queue \in [Activations -> Seq(Clients \cup {Stop})] /\ DOMAIN guest = Activations
  BY OwnerFacts, Zenon
<1>2. /\ queue' = [queue EXCEPT ![a] = Without(queue[a], k)]
      /\ guest' = [guest EXCEPT ![a] = IF guest[a] = k THEN Nobody ELSE guest[a]]
  BY Zenon DEF Abandoned
<1>3. PICK q \in Seq(Clients \cup {Stop}) : q = queue[a]
  BY <1>1, Zenon
<1>4. /\ Without(q, k) \in Seq(Clients \cup {Stop})
      /\ q # <<>> /\ Head(q) # k => Without(q, k) # <<>> /\ Head(Without(q, k)) = Head(q)
  BY WithoutKeeps, Zenon
<1>5. /\ queue' \in [Activations -> Seq(Clients \cup {Stop})]
      /\ queue'[a] = Without(q, k) /\ guest'[a] = (IF guest[a] = k THEN Nobody ELSE guest[a])
      /\ \A b \in Activations \ {a} : queue'[b] = queue[b] /\ guest'[b] = guest[b]
  BY <1>1, <1>2, <1>3, <1>4, Zenon
<1>6. CASE k = Start /\ store[a].where = "local"
  <2>1. PICK o : o = StoreDropped(a, observation[a])
    BY Zenon
  <2>2. observation' = [observation EXCEPT ![a] = o] /\ store' = [store EXCEPT ![a] = NoStore]
    BY <1>6, <2>1, Zenon DEF Abandoned
  <2>3. o.live_handles = observation[a].live_handles - store[a].handles /\ o.resource = observation[a].resource
    <3>1. PICK v : v = observation[a].live_handles - store[a].handles
      BY Zenon
    <3>2. o = [observation[a] EXCEPT !.live_handles = v]
      BY <2>1, <3>1, Zenon DEF StoreDropped
    <3> QED BY <1>1, <3>1, <3>2, ObservationEdits
  <2>4. /\ store' = [b \in Activations |-> StoreFields(store'[b])]
        /\ store'[a] = NoStore /\ observation'[a] = o
        /\ \A b \in Activations \ {a} : store'[b] = store[b] /\ observation'[b] = observation[b]
    <3>1. NoStore = StoreFields(NoStore)
      BY NoStoreFields, Zenon
    <3>2. observation'[a] = o /\ \A b \in Activations \ {a} : observation'[b] = observation[b]
      BY <2>2, Observed, Zenon
    <3>3. /\ store' = [b \in Activations |-> StoreFields(store'[b])] /\ store'[a] = NoStore
          /\ \A b \in Activations \ {a} : store'[b] = store[b]
      BY <2>2, <3>1, Replaced, Zenon
    <3> QED BY <3>2, <3>3, Zenon
  <2>5. OwnerShape' /\ LocalTo(a)
    BY <1>5, <2>4, Zenon DEF OwnerShape, LocalTo, SameAt
  <2>6. store'[a].where = "none" /\ store'[a].handles = 0 /\ observation'[a].live_handles = 0
    BY <1>1, <2>3, <2>4, NoStoreFields DEF TidyAt, Tidy
  <2>7. guest'[a] = Nobody /\ guest'[a] # Start
    BY <1>1, <1>5, <1>6, WasmAssumption, Zenon DEF TidyAt, Tidy
  <2> QED BY <1>1, <1>6, <2>3, <2>4, <2>5, <2>6, <2>7 DEF Kept, TidyAt, Tidy, InFlight, StopOver
<1>7. CASE ~(k = Start /\ store[a].where = "local")
  <2>0. PICK v : v = (store[a].poisoned \/ poisoned)
    BY Zenon
  <2>1. PICK t : t = [store[a] EXCEPT !.poisoned = v]
    BY Zenon
  <2>2. t = StoreFields(t) /\ t.where = store[a].where /\ t.handles = store[a].handles
    <3>1. PICK x : x = store[a]
      BY Zenon
    <3>2. x = StoreFields(x) /\ t = [x EXCEPT !.poisoned = v]
      BY <1>1, <2>1, <3>1, Zenon
    <3>3. t = StoreFields(t) /\ t.where = x.where /\ t.handles = x.handles
      BY <3>2, Zenon DEF StoreFields
    <3> QED BY <3>1, <3>3, Zenon
  <2>3. observation' = [observation EXCEPT ![a] = observation[a]] /\ store' = [store EXCEPT ![a] = t]
    BY <1>7, <2>0, <2>1, Zenon DEF Abandoned
  <2>4. /\ store' = [b \in Activations |-> StoreFields(store'[b])]
        /\ store'[a] = t /\ observation'[a] = observation[a]
        /\ \A b \in Activations \ {a} : store'[b] = store[b] /\ observation'[b] = observation[b]
    <3>1. observation'[a] = observation[a] /\ \A b \in Activations \ {a} : observation'[b] = observation[b]
      BY <2>3, OwnerFacts, Zenon
    <3>2. /\ store' = [b \in Activations |-> StoreFields(store'[b])] /\ store'[a] = t
          /\ \A b \in Activations \ {a} : store'[b] = store[b]
      BY <2>2, <2>3, Replaced, Zenon
    <3> QED BY <3>1, <3>2, Zenon
  <2>5. OwnerShape' /\ LocalTo(a)
    BY <1>5, <2>4, Zenon DEF OwnerShape, LocalTo, SameAt
  <2>6. stop'[a] = stop[a] /\ (guest'[a] = Start => guest[a] = Start /\ start'[a] = start[a])
    BY <1>5, WasmAssumption, Zenon
  <2> QED BY <1>1, <1>3, <1>4, <1>5, <1>7, <2>2, <2>4, <2>5, <2>6, Zenon DEF Kept, TidyAt, Tidy, InFlight, StopOver
<1> QED BY <1>6, <1>7, Zenon

\* The future of a start makes its store, publishes it, and asks for the lock.
LEMMA StartOwner ==
  ASSUME OwnerInv, NEW a \in Activations, Instantiate(a) \/ Publish(a) \/ AfterPublish(a)
  PROVE  Kept(a)
<1>1. /\ TidyAt(a)
      /\ observation[a] = ReportFields(observation[a]) /\ store[a] = StoreFields(store[a])
      /\ queue \in [Activations -> Seq(Clients \cup {Stop})]
      /\ DOMAIN guest = Activations /\ DOMAIN start = Activations
  BY OwnerFacts, Zenon
<1>2. CASE Instantiate(a)
  <2>1. /\ start[a] = "none" /\ stop[a] = "none"
        /\ start' = [start EXCEPT ![a] = "instantiating"]
        /\ store' = [store EXCEPT ![a] = NewStore]
        /\ guest' = [guest EXCEPT ![a] = Start]
        /\ UNCHANGED <<stop, observation, queue>>
    BY <1>2, Zenon DEF Instantiate
  <2>2. /\ store' = [b \in Activations |-> StoreFields(store'[b])] /\ store'[a] = NewStore
        /\ \A b \in Activations \ {a} : store'[b] = store[b]
    BY <2>1, NoStoreFields, Replaced, Zenon
  <2>3. OwnerShape' /\ LocalTo(a) /\ start'[a] = "instantiating" /\ guest'[a] = Start
    BY <1>1, <2>1, <2>2, Zenon DEF OwnerShape, LocalTo, SameAt
  <2> QED BY <1>1, <2>1, <2>2, <2>3, NoStoreFields, Zenon DEF Kept, TidyAt, Tidy, InFlight, StopOver
<1>3. CASE Publish(a)
  <2>1. /\ start[a] = "publishing" /\ queue[a] # <<>>
        /\ start' = [start EXCEPT ![a] = "published"]
        /\ queue' = [queue EXCEPT ![a] = Tail(queue[a])]
        /\ UNCHANGED <<stop, observation, guest>>
    BY <1>3, WasmAssumption, Zenon DEF Publish, Holder
  <2>0. PICK v : v = "live"
    BY Zenon
  <2>2. PICK t : t = [store[a] EXCEPT !.where = v]
    BY Zenon
  <2>3. t = StoreFields(t) /\ t.where = "live" /\ t.handles = store[a].handles
    <3>1. PICK x : x = store[a]
      BY Zenon
    <3>2. x = StoreFields(x) /\ t = [x EXCEPT !.where = v]
      BY <1>1, <2>2, <3>1, Zenon
    <3>3. t = StoreFields(t) /\ t.where = v /\ t.handles = x.handles
      BY <3>2, StoreEdits
    <3> QED BY <2>0, <3>1, <3>3, Zenon
  <2>4. store' = [store EXCEPT ![a] = t]
    BY <1>3, <2>0, <2>2, Zenon DEF Publish
  <2>5. /\ store' = [b \in Activations |-> StoreFields(store'[b])] /\ store'[a] = t
        /\ \A b \in Activations \ {a} : store'[b] = store[b]
    BY <2>3, <2>4, Replaced, Zenon
  <2>6. queue' \in [Activations -> Seq(Clients \cup {Stop})]
    BY <1>1, <2>1, TailKeeps, Zenon
  <2>7. OwnerShape' /\ LocalTo(a) /\ start'[a] = "published"
    BY <1>1, <2>1, <2>5, <2>6, Zenon DEF OwnerShape, LocalTo, SameAt
  <2> QED BY <1>1, <2>1, <2>3, <2>5, <2>7, Zenon DEF Kept, TidyAt, Tidy, InFlight, StopOver
<1>4. CASE AfterPublish(a)
  <2>1. /\ start[a] = "published" /\ UNCHANGED <<stop, store, guest>>
        /\ \E st \in {"pending", "activate", "err"} : start' = [start EXCEPT ![a] = st]
    BY <1>4, Zenon DEF AfterPublish
  <2>0. PICK v : v = "live"
    BY Zenon
  <2>2. PICK o : o = [observation[a] EXCEPT !.resource = v]
    BY Zenon
  <2>3. o = ReportFields(o) /\ o.live_handles = observation[a].live_handles /\ o.resource = "live"
    <3>1. PICK x : x = observation[a]
      BY Zenon
    <3>2. x = ReportFields(x) /\ o = [x EXCEPT !.resource = v]
      BY <1>1, <2>2, <3>1, Zenon
    <3>3. o = ReportFields(o) /\ o.live_handles = x.live_handles /\ o.resource = v
      BY <3>2, ObservationEdits
    <3> QED BY <2>0, <3>1, <3>3, Zenon
  <2>4. observation' = [observation EXCEPT ![a] = o]
    BY <1>4, <2>0, <2>2, Zenon DEF AfterPublish
  <2>5. observation'[a] = o /\ \A b \in Activations \ {a} : observation'[b] = observation[b]
    BY <2>4, Observed, Zenon
  <2>6. PICK q \in Seq(Clients \cup {Stop}) :
           /\ queue' = [queue EXCEPT ![a] = q]
           /\ queue[a] # <<>> => q # <<>> /\ Head(q) = Head(queue[a])
    <3>1. PICK p \in Seq(Clients \cup {Stop}) : p = queue[a]
      BY <1>1, Zenon
    <3>2. /\ Append(p, Start) \in Seq(Clients \cup {Stop})
          /\ p # <<>> => Append(p, Start) # <<>> /\ Head(Append(p, Start)) = Head(p)
      BY DEF Clients
    <3> QED BY <1>4, <3>1, <3>2, Zenon DEF AfterPublish
  <2>7. queue' \in [Activations -> Seq(Clients \cup {Stop})] /\ queue'[a] = q
    BY <1>1, <2>6, Zenon
  <2>8. OwnerShape' /\ LocalTo(a) /\ start'[a] \in {"pending", "activate", "err"}
    BY <1>1, <2>1, <2>5, <2>6, <2>7, Zenon DEF OwnerShape, LocalTo, SameAt, OwnerInv
  <2> QED BY <1>1, <2>1, <2>3, <2>5, <2>6, <2>7, <2>8, Zenon DEF Kept, TidyAt, Tidy, InFlight, StopOver
<1> QED BY <1>2, <1>3, <1>4, Zenon

\* One more client waits: the holder stays.
LEMMA WaiterKeeps ==
  ASSUME OwnerInv, NEW a \in Activations, NEW k \in Clients \cup {Stop},
         queue' = [queue EXCEPT ![a] = Append(queue[a], k)]
  PROVE  /\ queue' \in [Activations -> Seq(Clients \cup {Stop})]
         /\ queue[a] # <<>> => queue'[a] # <<>> /\ Head(queue'[a]) = Head(queue[a])
         /\ \A b \in Activations \ {a} : queue'[b] = queue[b]
<1>1. queue \in [Activations -> Seq(Clients \cup {Stop})]
  BY OwnerFacts, Zenon
<1>2. PICK p \in Seq(Clients \cup {Stop}) : p = queue[a]
  BY <1>1, Zenon
<1>3. PICK q \in Seq(Clients \cup {Stop}) :
         q = Append(p, k) /\ (p # <<>> => q # <<>> /\ Head(q) = Head(p))
  <2>1. /\ Append(p, k) \in Seq(Clients \cup {Stop})
        /\ p # <<>> => Append(p, k) # <<>> /\ Head(Append(p, k)) = Head(p)
    OBVIOUS
  <2> QED BY <2>1, Zenon
<1>4. queue' = [queue EXCEPT ![a] = q]
  BY <1>2, <1>3, Zenon
<1> QED BY <1>1, <1>2, <1>3, <1>4, Zenon

\* The deactivation waits for the lock, and takes the store once it has it: no
\* guest can be running then.  It drops the store with the lock given back.
LEMMA StopOwner ==
  ASSUME OwnerInv, NEW a \in Activations, Deactivate(a) \/ TakeStore(a) \/ ReleaseStore(a)
  PROVE  Kept(a)
<1>1. /\ TidyAt(a)
      /\ observation[a] = ReportFields(observation[a])
      /\ queue \in [Activations -> Seq(Clients \cup {Stop})]
      /\ DOMAIN stop = Activations
      /\ guest[a] \in Clients
  BY OwnerFacts, Zenon
<1>2. CASE Deactivate(a)
  <2>1. /\ stop[a] = "none" /\ start[a] \in StartOver \cup {"none"}
        /\ stop' = [stop EXCEPT ![a] = "waiting"]
        /\ queue' = [queue EXCEPT ![a] = Append(queue[a], Stop)]
        /\ UNCHANGED <<start, observation, store, guest>>
    BY <1>2, Zenon DEF Deactivate
  <2>2. /\ queue' \in [Activations -> Seq(Clients \cup {Stop})]
        /\ queue[a] # <<>> => queue'[a] # <<>> /\ Head(queue'[a]) = Head(queue[a])
        /\ \A b \in Activations \ {a} : queue'[b] = queue[b]
    BY <2>1, WaiterKeeps, Zenon
  <2>3. OwnerShape' /\ LocalTo(a) /\ stop'[a] = "waiting"
    BY <1>1, <2>1, <2>2, Zenon DEF OwnerShape, LocalTo, SameAt, OwnerInv
  <2> QED BY <1>1, <2>1, <2>2, <2>3, Zenon DEF Kept, TidyAt, Tidy, InFlight, StopOver, StartOver
<1>3. CASE TakeStore(a)
  <2>1. /\ stop[a] = "waiting" /\ queue[a] # <<>> /\ Head(queue[a]) = Stop
        /\ queue' = [queue EXCEPT ![a] = Tail(queue[a])]
        /\ UNCHANGED <<start, observation, guest>>
    BY <1>3, WasmAssumption, Zenon DEF TakeStore, Holder
  <2>2. guest[a] = Nobody
    <3>1. guest[a] # Stop
      BY <1>1, WasmAssumption, Zenon DEF Clients
    <3> QED BY <1>1, <2>1, <3>1, Zenon DEF TidyAt, Tidy, InFlight
  <2>3. queue' \in [Activations -> Seq(Clients \cup {Stop})]
    BY <1>1, <2>1, TailKeeps, Zenon
  <2>4. CASE /\ store[a].where = "live"
             /\ stop' = [stop EXCEPT ![a] = "releasing"]
             /\ store' = [store EXCEPT ![a].where = "taken"]
    <3>1. PICK v, t : v = "taken" /\ t = [store[a] EXCEPT !.where = v]
      BY Zenon
    <3>2. t = StoreFields(t) /\ t.where = "taken" /\ t.handles = store[a].handles
      <4>1. PICK x : x = store[a] /\ x = StoreFields(x)
        BY OwnerFacts, Zenon
      <4>2. t = [x EXCEPT !.where = v]
        BY <3>1, <4>1, Zenon
      <4>3. t = StoreFields(t) /\ t.where = v /\ t.handles = x.handles
        BY <4>1, <4>2, StoreEdits
      <4> QED BY <3>1, <4>1, <4>3, Zenon
    <3>3. store' = [store EXCEPT ![a] = t]
      BY <2>4, <3>1, Zenon
    <3>4. /\ store' = [b \in Activations |-> StoreFields(store'[b])] /\ store'[a] = t
          /\ \A b \in Activations \ {a} : store'[b] = store[b]
      BY <3>2, <3>3, Replaced, Zenon
    <3>5. OwnerShape' /\ LocalTo(a) /\ stop'[a] = "releasing"
      BY <1>1, <2>1, <2>3, <2>4, <3>4, Zenon DEF OwnerShape, LocalTo, SameAt, OwnerInv
    <3> QED BY <1>1, <2>1, <2>2, <2>4, <3>2, <3>4, <3>5, Zenon DEF Kept, TidyAt, Tidy, InFlight, StopOver
  <2>5. CASE /\ store[a].where # "live"
             /\ stop' = [stop EXCEPT ![a] = StopAnswer(a)]
             /\ UNCHANGED store
    <3>1. StopAnswer(a) \in {"done", "failed"}
      BY Zenon DEF StopAnswer
    <3>2. OwnerShape' /\ LocalTo(a) /\ stop'[a] \in {"done", "failed"}
      BY <1>1, <2>1, <2>3, <2>5, <3>1, Zenon DEF OwnerShape, LocalTo, SameAt, OwnerInv
    <3>3. store[a].where = "none"
      BY <1>1, <2>1, <2>5, Zenon DEF TidyAt, Tidy, InFlight
    <3> QED BY <1>1, <2>1, <2>2, <2>5, <3>2, <3>3, Zenon DEF Kept, TidyAt, Tidy, InFlight, StopOver
  <2> QED BY <1>3, <2>4, <2>5, Zenon DEF TakeStore
<1>4. CASE ReleaseStore(a)
  <2>1. /\ stop[a] = "releasing"
        /\ \E sp \in {"done", "failed"} : stop' = [stop EXCEPT ![a] = sp]
        /\ store' = [store EXCEPT ![a] = NoStore]
        /\ UNCHANGED <<start, queue, guest>>
    BY <1>4, Zenon DEF ReleaseStore, StopAnswer
  <2>2. guest[a] = Nobody
    BY <1>1, <2>1, Zenon DEF TidyAt, Tidy, InFlight
  <2>3. /\ store' = [b \in Activations |-> StoreFields(store'[b])] /\ store'[a] = NoStore
        /\ \A b \in Activations \ {a} : store'[b] = store[b]
    <3>1. NoStore = StoreFields(NoStore)
      BY NoStoreFields, Zenon
    <3> QED BY <2>1, <3>1, Replaced, Zenon
  <2>4. /\ observation'[a].live_handles = 0 /\ observation'[a].resource = "released"
        /\ observation'[a].records = 0
        /\ \A b \in Activations \ {a} : observation'[b] = observation[b]
    <3>1. PICK x, y, z, n, r, v :
            /\ n = observation[a].live_handles - store[a].handles
            /\ x = [observation[a] EXCEPT !.live_handles = n]
            /\ v = 0
            /\ y = [x EXCEPT !.records = v]
            /\ r = "released"
            /\ z = [y EXCEPT !.resource = r]
      BY Zenon
    <3>2. observation' = [observation EXCEPT ![a] = z]
      BY <1>4, <3>1, Zenon DEF ReleaseStore, StoreDropped
    <3>3. x = ReportFields(x) /\ x.live_handles = n
      BY <1>1, <3>1, Zenon DEF ReportFields
    <3>4. y = ReportFields(y) /\ y.live_handles = n /\ y.records = v
      <4>1. y = [x EXCEPT !.records = v]
        BY <3>1, Zenon
      <4> QED BY <3>3, <4>1, Zenon DEF ReportFields
    <3>5. z.live_handles = n /\ z.resource = r /\ z.records = v
      <4>1. z = [y EXCEPT !.resource = r]
        BY <3>1, Zenon
      <4> QED BY <3>4, <4>1, Zenon DEF ReportFields
    <3>6. n = 0
      <4>1. PICK h \in Nat : h = store[a].handles /\ h = observation[a].live_handles
        BY <1>1, Zenon DEF TidyAt, Tidy
      <4> QED BY <3>1, <4>1
    <3>7. observation'[a] = z /\ \A b \in Activations \ {a} : observation'[b] = observation[b]
      BY <3>2, Observed, Zenon
    <3> QED BY <3>1, <3>5, <3>6, <3>7, Zenon
  <2>5. OwnerShape' /\ LocalTo(a) /\ stop'[a] \in {"done", "failed"}
    BY <1>1, <2>1, <2>3, <2>4, Zenon DEF OwnerShape, LocalTo, SameAt, OwnerInv
  <2>6. store'[a].where = "none" /\ store'[a].handles = 0 /\ guest'[a] = Nobody /\ start'[a] = start[a]
    BY <2>1, <2>2, <2>3, NoStoreFields, Zenon
  <2> QED BY <1>1, <2>1, <2>4, <2>5, <2>6, SMTT(30) DEF Kept, TidyAt, Tidy, InFlight, StopOver, StartOver
<1> QED BY <1>2, <1>3, <1>4, Zenon

\* Every step keeps the invariant of the stores.
LEMMA OwnerNext ==
  ASSUME OwnerInv, Next
  PROVE  OwnerInv'
<1>1. IInv'
  BY StepKeeps, Zenon DEF OwnerInv
<1>2. \A a \in Activations : Kept(a) => OwnerInv'
  BY <1>1, OwnerStep, Zenon DEF Kept
<1>3. ASSUME UNCHANGED <<store, observation, start, stop, guest, queue>> PROVE OwnerInv'
  BY <1>1, <1>3, Zenon DEF OwnerInv, OwnerShape, TidyAt
<1>4. ASSUME NEW c \in Callers, caller[c].at \in {"entered", "in"} PROVE caller[c].on \in Activations
  BY <1>4 DEF OwnerInv, IInv, CallerInv, Idle
<1>5. ASSUME NEW c \in Callers PROVE c \in Clients \ {Nobody} /\ c # Start /\ c # Stop
  BY <1>5, WasmAssumption, Zenon DEF Clients
<1>6. ASSUME NEW c \in Callers, call_invoke(c) PROVE OwnerInv'
  <2>1. PICK a \in Activations : a = caller[c].on
    BY <1>4, <1>6, Zenon DEF call_invoke
  <2>2. Entered(a, c) /\ Holder(a) = c /\ guest[a] # c
    BY <1>6, <2>1, Zenon DEF call_invoke
  <2>3. Kept(a)
    BY <1>5, <2>2, EnterKeeps, Zenon
  <2> QED BY <1>2, <2>3, Zenon
<1>7. ASSUME NEW a \in Activations, call_activate(a) PROVE OwnerInv'
  <2>1. Start \in Clients \ {Nobody}
    BY WasmAssumption, Zenon DEF Clients
  <2>2. Kept(a)
    BY <1>7, <2>1, EnterKeeps, Zenon DEF call_activate
  <2> QED BY <1>2, <2>2, Zenon
<1>8. ASSUME NEW a \in Activations, NEW poisoned \in BOOLEAN, DropStart(a, poisoned) PROVE OwnerInv'
  <2>1. /\ start' = [start EXCEPT ![a] = "gone"] /\ UNCHANGED stop /\ start[a] # "none"
        /\ Abandoned(a, Start, poisoned)
    BY <1>8, Zenon DEF DropStart
  <2>2. DOMAIN start' = Activations /\ start'[a] = "gone" /\ \A b \in Activations \ {a} : start'[b] = start[b]
    BY <2>1, Zenon DEF OwnerInv, OwnerShape
  <2>3. Kept(a)
    BY <2>1, <2>2, AbandonOwner, Zenon
  <2> QED BY <1>2, <2>3, Zenon
<1>9. ASSUME NEW c \in Callers, NEW poisoned \in BOOLEAN, DropCall(c, poisoned) PROVE OwnerInv'
  <2>1. PICK a \in Activations : a = caller[c].on
    BY <1>4, <1>9, Zenon DEF DropCall
  <2>2. Abandoned(a, c, poisoned) /\ UNCHANGED <<start, stop>>
    BY <1>9, <2>1, Zenon DEF DropCall, lifecycle
  <2>3. DOMAIN start = Activations
    BY Zenon DEF OwnerInv, OwnerShape
  <2>4. Kept(a)
    BY <1>5, <2>2, <2>3, AbandonOwner, Zenon
  <2> QED BY <1>2, <2>4, Zenon
<1>10. ASSUME NEW c \in Callers, AskForStore(c) PROVE OwnerInv'
  <2>1. PICK a \in Activations : a = caller[c].on
    BY <1>4, <1>10, Zenon DEF AskForStore
  <2>2. queue' = [queue EXCEPT ![a] = Append(queue[a], c)] /\ UNCHANGED <<start, stop, observation, store, guest>>
    BY <1>10, <2>1, Zenon DEF AskForStore, lifecycle
  <2>3. /\ queue' \in [Activations -> Seq(Clients \cup {Stop})]
        /\ queue[a] # <<>> => queue'[a] # <<>> /\ Head(queue'[a]) = Head(queue[a])
        /\ \A b \in Activations \ {a} : queue'[b] = queue[b]
    BY <1>5, <2>2, WaiterKeeps, Zenon
  <2>4. OwnerShape' /\ LocalTo(a) /\ TidyAt(a)
    BY <2>2, <2>3, Zenon DEF OwnerInv, OwnerShape, LocalTo, SameAt
  <2>5. Kept(a)
    BY <2>2, <2>3, <2>4, Zenon DEF Kept, TidyAt, Tidy
  <2> QED BY <1>2, <2>5, Zenon
<1>11. ASSUME NEW a \in Activations,
              \/ GuestStep(a) \/ Deadline(a) \/ Instantiate(a) \/ Publish(a) \/ AfterPublish(a)
              \/ Deactivate(a) \/ TakeStore(a) \/ ReleaseStore(a)
       PROVE  OwnerInv'
  BY <1>2, <1>11, GuestOwner, DeadlineOwner, StartOwner, StopOwner, Zenon
<1>12. ASSUME \/ \E b \in Builds : for_component(b) \/ scripted(b)
              \/ Tick \/ \E a \in Activations : Prepare(a)
              \/ \E c \in Callers, a \in Activations : CallTool(c, a)
       PROVE  OwnerInv'
  <2>1. UNCHANGED <<store, observation, start, stop, guest, queue>>
    BY <1>12, Zenon DEF for_component, scripted, Tick, Prepare, CallTool, lifecycle
  <2> QED BY <1>3, <2>1, Zenon
<1> QED
  BY <1>6, <1>7, <1>8, <1>9, <1>10, <1>11, <1>12, Zenon DEF Next

\* Initially there is no store.
LEMMA OwnerInit == Init => OwnerInv
<1> SUFFICES ASSUME Init PROVE OwnerInv
  BY Zenon
<1>1. store = [a \in Activations |-> StoreFields(store[a])] /\ \A a \in Activations : store[a] = NoStore
  BY NoStoreFields, Zenon DEF Init
<1>2. OwnerShape
  BY <1>1 DEF Init, OwnerShape
<1>3. ASSUME NEW a \in Activations PROVE TidyAt(a)
  <2>1. store[a].where = "none" /\ store[a].handles = 0
    BY <1>1, NoStoreFields, Zenon
  <2>2. observation[a].live_handles = 0 /\ observation[a].resource = "not_acquired"
    BY Zenon DEF Init, NewObservation
  <2>3. guest[a] = Nobody /\ guest[a] # Start /\ start[a] = "none" /\ stop[a] = "none"
    BY WasmAssumption, Zenon DEF Init
  <2> QED BY <2>1, <2>2, <2>3 DEF TidyAt, Tidy, InFlight, StopOver
<1> QED BY <1>2, <1>3, InitInvariant, Zenon DEF OwnerInv

\* What outlives a store tells the truth about it, and a deactivation leaves
\* nothing of it, its log records included once its start was completed
\* (deactivate, release_records, LiveHandleGuard), whoever held the lock, however
\* many waited for it and whatever was dropped meanwhile.
THEOREM StoresLeaveNothing == Spec => []NothingLeftBehind
<1>1. OwnerInv /\ UNCHANGED vars => OwnerInv'
  <2>1. IInv /\ UNCHANGED vars => IInv'
    BY Zenon DEF IInv, CountInv, ShapeInv, BuiltInv, TimeInv, StopInv, CallerInv, Charged, Running, IsBuilt, limits, vars
  <2> QED BY <2>1, Zenon DEF OwnerInv, OwnerShape, TidyAt, vars
<1>2. OwnerInv => NothingLeftBehind
  <2> SUFFICES ASSUME OwnerInv, NEW a \in Activations
               PROVE  /\ observation[a].live_handles = store[a].handles
                      /\ health(a) = "healthy" => store[a].where = "live" \/ stop[a] = "releasing"
                      /\ stop[a] \in StopOver =>
                            /\ store[a].where = "none"
                            /\ guest[a] = Nobody
                            /\ observation[a].resource # "live"
                            /\ observation[a].resource = "released" => observation[a].records = 0
                            /\ start[a] = "ok" => observation[a].resource = "released"
    BY Zenon DEF NothingLeftBehind
  <2>1. TidyAt(a)
    BY OwnerFacts, Zenon
  <2>2. health(a) = "healthy" => observation[a].resource = "live"
    BY Zenon DEF health
  <2> QED BY <2>1, <2>2, Zenon DEF TidyAt, Tidy
<1> QED
  BY OwnerInit, OwnerNext, <1>1, <1>2, PTL DEF Spec

=============================================================================
