--------------------------- MODULE MCPriorityQueue ---------------------------
(* A strict consumer over the three tiers beside one dedicated to HIGH.       *)
EXTENDS PriorityQueue

CONSTANTS strict, urgent

Pool == {strict, urgent}
PoolScan == [c \in Pool |-> IF c = strict THEN <<1, 2, 3>> ELSE <<1>>]
=============================================================================
