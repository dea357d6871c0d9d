------------------------------ MODULE MCFunnel ------------------------------
(* Small instances of Funnel for TLC. *)
EXTENDS Funnel

CONSTANTS k1, k2, run1, unit1

Req(k, d, p, m, a, x, n, f) ==
  [key |-> k, digest |-> d, principal |-> p, method |-> m, agg |-> a, expects |-> x,
   events |-> n, fits |-> f, blockers |-> {}]

\* Two creations racing for one row, one with two events, a compare-and-set on
\* that row under the key of the first, an agent's report without events and too
\* large a result under the key of the second, a malformed command, and a creation
\* that is rejected for as long as the row of the others is not there.
RacingRequests ==
  {Req(k1, "d1", "daemon", "create", run1, NoVersion, 2, TRUE),
   Req(k2, "d2", "daemon", "create", run1, NoVersion, 1, TRUE),
   Req(k1, "d3", "daemon", "mutate", run1, 1, 1, TRUE),
   Req(k2, "d4", "agent", "report", run1, 1, 0, FALSE),
   Req(k2, "d5", "agent", "malformed", run1, NoVersion, 0, TRUE),
   [Req(k2, "d6", "daemon", "create", unit1, NoVersion, 1, TRUE)
      EXCEPT !.blockers = {<<run1, 0>>}]}
=============================================================================
