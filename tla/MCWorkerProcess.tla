--------------------------- MODULE MCWorkerProcess ---------------------------
(***************************************************************************)
(* A worker process small enough for TLC.  A state is explored while the   *)
(* ids in use lie in one slice: calls of the host with an offer, calls of  *)
(* the worker with a handle, and fewer ids where the worker may be faulty. *)
(***************************************************************************)
EXTENDS WorkerProcess, TLC

CONSTANTS
    Slices,     \* sets of ids, closed under the symmetry
    Fault       \* in a slice whose worker may send an unjustified frame

InUse ==
    {c \in HostIds : call[c] # "idle"}
    \cup {h \in HandleIds : session.handle[h] # "fresh"}
    \cup know.sent \cup know.replied \cup know.offered
    \cup UNION {{f[2], f[3]} : f \in Range(fromWorker)}

InSlice ==
    \E S \in Slices : /\ InUse \subseteq S \cup {NoCall, NoOffer}
                      /\ faulty => Fault \in S

Symmetry == Permutations(HostIds) \cup Permutations(WorkerIds)
=============================================================================
