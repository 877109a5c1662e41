------------------------------- MODULE MCSaga -------------------------------
(* Three orders, one of which the payment service declines.                  *)
EXTENDS Saga

CONSTANTS o1, o2, o3

MCOrders == {o1, o2, o3}
MCDeclined == {o2}
=============================================================================
