--------------------------- MODULE MCEventSourcing ---------------------------
(* Two writers, one amount and a page shorter than the history.              *)
EXTENDS EventSourcing

CONSTANTS w1, w2

TwoWriters == {w1, w2}
=============================================================================
