--------------------------- MODULE MCCancellation ---------------------------
(***************************************************************************)
(* Cancellation for TLC: one run with one unit, dispatched up to twice,    *)
(* and one effect without declared targets, retried or not.                *)
(***************************************************************************)
EXTENDS Cancellation

CONSTANTS r1, w1, u1, h1, k1

OneRun == {r1}
OneWorkItem == {w1}
OneUnit == {u1}
OneHolder == {h1}
OneKey == {k1}
NoTargets == {}

Shell(retry) ==
    [retry |-> retry, irreversible |-> FALSE, approved |-> FALSE,
     compensable |-> FALSE, declared |-> {}]

ShellSpecs == {Shell(TRUE), Shell(FALSE)}

\* Of the three outcomes that discharge a member, one stands for all.
TwoOutcomes == {"observed_stopped", "unresponsive"}
=============================================================================
