--------------------------- MODULE MCEffectLedger ---------------------------
(***************************************************************************)
(* EffectLedger for TLC: one unit, dispatched up to twice, and one         *)
(* operation with the specs that the rules tell apart.                     *)
(***************************************************************************)
EXTENDS EffectLedger

CONSTANTS r1, w1, u1, h1, k1, t1

OneRun == {r1}
OneWorkItem == {w1}
OneUnit == {u1}
OneHolder == {h1}
OneKey == {k1}
OneTarget == {t1}

Adapter(retry, irreversible, approved, compensable, declared) ==
    [retry |-> retry, irreversible |-> irreversible, approved |-> approved,
     compensable |-> compensable, declared |-> declared]

\* A patch that may be repeated and undone, a shell command, an irreversible
\* publication with and without its approval.
AllSpecs ==
    {Adapter(TRUE, FALSE, FALSE, TRUE, {t1}),
     Adapter(FALSE, FALSE, FALSE, FALSE, {}),
     Adapter(FALSE, TRUE, TRUE, TRUE, {t1}),
     Adapter(FALSE, TRUE, FALSE, FALSE, {t1})}

=============================================================================
