-------------------------- MODULE MCHostActivation --------------------------
(* HostActivation for TLC: one revision with a requirement and one without. *)
EXTENDS HostActivation

CONSTANTS needy, plain, p1, p2, none

TwoRevisions == {needy, plain}
NeedyOnly == {needy}
TwoProviders == {p1, p2}
=============================================================================
