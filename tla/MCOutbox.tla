------------------------------ MODULE MCOutbox ------------------------------
(* Outbox with three orders, batches of two and a few faults.               *)
EXTENDS Outbox

CONSTANTS o1, o2, o3

MCOrders == {o1, o2, o3}
=============================================================================
