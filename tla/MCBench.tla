-------------------------------- MODULE MCBench --------------------------------
(* Concurrency two, two warmup operations and three measured ones; every        *)
(* second payment is poison, with a budget of two attempts.                    *)
EXTENDS Bench

CONSTANTS w1, w2

TwoWorkers == {w1, w2}
=============================================================================
