----------------------------- MODULE WasmLimits -----------------------------
(***************************************************************************)
(* The bounds a WebAssembly activation runs under, and the answers they    *)
(* give (crates/yah-plugin-wasm/src/limits.rs, surface.rs).  The numbers   *)
(* are the host's: nothing a guest declares can raise them.                *)
(***************************************************************************)
EXTENDS Integers

\* The surface of the world: all that a component may import.
WORLD_IMPORTS == {"logging", "cancellation", "capabilities"}

check_import_surface(imports) == imports \subseteq WORLD_IMPORTS

\* WasmLimits::engine: the stack of a call holds the depth of the guest and the
\* frames of the host above it.
engine_accepts(l) ==
    /\ l.call_stack >= l.guest_stack
    /\ l.call_stack - l.guest_stack >= l.host_stack_headroom

-----------------------------------------------------------------------------
(* ActivationLimiter: one total over all memories, and one over all tables. *)

\* memories, tables, instances: an empty memory costs address space as well.
counts_allowed(l, component) ==
    /\ component.memories <= l.max_memories
    /\ component.tables <= l.max_tables
    /\ component.instances <= l.max_instances

limiter == [memory |-> 0, table |-> 0]

Ceiling(l) == [memory |-> l.memory_bytes, table |-> l.table_elements]

\* memory_growing, table_growing: a refusal is not charged.
growing(l, used, kind, growth) ==
    IF used[kind] + growth > Ceiling(l)[kind] THEN used
    ELSE [used EXCEPT ![kind] = @ + growth]

-----------------------------------------------------------------------------
(* GuestInterrupt: what a guest must read at its next epoch deadline. *)

interrupt == [killed |-> FALSE, ticks |-> 0]

kill(i) == [i EXCEPT !.killed = TRUE]

\* Mutant: a new call keeps the ticks the last one has used.
begin_call_charged(i) == i

begin_call(i) == [i EXCEPT !.ticks = 0]

\* on_deadline: the guest is interrupted, or yields for one more tick.
interrupts(i, budget) == i.killed \/ i.ticks + 1 >= budget

\* Mutant: a deadline that is extended is not counted.
on_deadline_uncounted(i) == i

on_deadline(i) == IF i.killed THEN i ELSE [i EXCEPT !.ticks = @ + 1]
=============================================================================
