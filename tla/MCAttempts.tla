----------------------------- MODULE MCAttempts -----------------------------
(***************************************************************************)
(* Attempts for TLC.  Holders are interchangeable, and so are units: no    *)
(* action and no property tells them apart.                                *)
(***************************************************************************)
EXTENDS Attempts, TLC

CONSTANTS r1, w1, u1, u2, h1, h2

OneRun == {r1}
OneWorkItem == {w1}
TwoUnits == {u1, u2}
TwoHolders == {h1, h2}

Interchangeable == Permutations(TwoHolders) \cup Permutations(TwoUnits)
=============================================================================
