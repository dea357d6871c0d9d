--------------------------- MODULE MCEventStream ---------------------------
(***************************************************************************)
(* EventStream for TLC: two clients and a queue of two, so that a backlog  *)
(* overflows it and the shared budget is exhausted by one client.          *)
(***************************************************************************)
EXTENDS EventStream

CONSTANTS c1, c2

TwoClients == {c1, c2}
=============================================================================
