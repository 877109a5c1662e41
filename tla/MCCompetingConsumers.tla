------------------------ MODULE MCCompetingConsumers ------------------------
(* Two consumers, a few tasks and faults.                                   *)
EXTENDS CompetingConsumers

CONSTANTS c1, c2

MCConsumers == {c1, c2}
=============================================================================
