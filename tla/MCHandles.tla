----------------------------- MODULE MCHandles -----------------------------
(***************************************************************************)
(* Handles for TLC: a consumer with a nested scope, a provider, one        *)
(* service, two registrations of one capability, two calling threads and   *)
(* two deferred effects, which may be of one scope.                        *)
(***************************************************************************)
EXTENDS Handles, TLC

CONSTANTS p, q, cs, t1, t2, v, r1, r2, e1, e2, none

ThreeScopes == {p, q, cs}
Lineage == (p :> {p}) @@ (q :> {p, q}) @@ (cs :> {cs})

\* The provider's component sits at the root, the consumer's below it.
Seats == (p :> "below") @@ (q :> "below") @@ (cs :> "root")
Sees == ("root" :> {"root"}) @@ ("below" :> {"root", "below"})

TwoCallers == {t1, t2}
TwoGrants == {r1, r2}
OneService == {v}
TwoEffects == {e1, e2}
Interchangeable == Permutations(TwoCallers) \cup Permutations(TwoGrants) \cup Permutations(TwoEffects)

\* Services and capabilities have nothing in common but the scopes: a behaviour
\* has either.
MCInit == Init /\ registry # broker
MCSpec == MCInit /\ [][Next]_vars
=============================================================================
