---------------------------- MODULE MCWasmDriver ----------------------------
(***************************************************************************)
(* Small WebAssembly drivers: activations whose guests use what they are   *)
(* given, whose calls have a budget of several ticks or of none, and       *)
(* drivers whose bounds or imports are refused.                            *)
(***************************************************************************)
EXTENDS WasmDriver

Bounds(budget, data) ==
    [call_stack |-> 3, guest_stack |-> 2, host_stack_headroom |-> 1,
     memory_bytes |-> data, table_elements |-> data, call_budget_ticks |-> budget,
     max_capability_handles |-> data, retained_log_records |-> data,
     max_memories |-> 1, max_tables |-> 0, max_instances |-> 1]

Component(imports, memories) ==
    [imports |-> imports, memories |-> memories, tables |-> 0, instances |-> 1]

Plan(s, d) == [start |-> s, deactivate |-> d]

Build(limits_, component, plans) == [limits |-> limits_, component |-> component, plans |-> plans]

MCBuilds ==
    {Build(Bounds(1, 1), Component(WORLD_IMPORTS, 1), <<Plan("activate", "fail")>>),
     Build(Bounds(0, 0), Component({}, 0), <<Plan("pend", "release"), ready>>),
     Build(Bounds(3, 0), Component({}, 1), <<Plan("pend", "release")>>),
     Build(Bounds(2, 0), Component({}, 2), <<ready>>),
     Build([Bounds(1, 0) EXCEPT !.guest_stack = 3], Component({}, 0), <<>>),
     Build([Bounds(1, 0) EXCEPT !.guest_stack = 4], Component({}, 0), <<>>),
     Build(Bounds(1, 0), Component({"logging", "environment"}, 0), <<>>)}
=============================================================================
