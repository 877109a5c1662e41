----------------------------- MODULE MCIdempotency -----------------------------
(* Two consumers, two keys, a ttl of two ticks, two faults, two commands broken off. *)
EXTENDS Idempotency

CONSTANTS c1, c2, k1, k2

TwoCallers == {c1, c2}
TwoKeys == {k1, k2}
=============================================================================
