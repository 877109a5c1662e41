---------------------------- MODULE MCScatterGather ----------------------------
(* Two searches that may overlap, two airlines, both response-queue schemes.   *)
EXTENDS ScatterGather, TLC

CONSTANTS s1, s2, a1, a2

TwoSearches == {s1, s2}
TwoAirlines == {a1, a2}
=============================================================================
