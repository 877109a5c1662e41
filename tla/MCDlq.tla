------------------------------- MODULE MCDlq -------------------------------
(* One or two consumers, two payments, a budget of two attempts.             *)
EXTENDS Dlq, TLC

CONSTANTS c1, c2, p1, p2

OneConsumer == {c1}
TwoConsumers == {c1, c2}
TwoPayments == {p1, p2}
OnePayment == {p1}
SecondPayment == {p2}
NoPayment == {}

(* Consumers are interchangeable, and so are payments (safety run only).     *)
Interchangeable == Permutations(TwoConsumers) \cup Permutations(TwoPayments)
=============================================================================
