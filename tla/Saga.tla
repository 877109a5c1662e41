-------------------------------- MODULE Saga --------------------------------
(***************************************************************************)
(* The order saga: saga_pattern/runner.py (run_saga, the poll loop that      *)
(* routes events), the three services and broker.py.                         *)
(*                                                                         *)
(* The streams are in Redis and survive the runner; the services, with the   *)
(* one order a run is given, and the read positions live in its memory.       *)
(* A caller runs one saga at a time and deletes the streams when it ended     *)
(* (scripts/run_saga_pattern.py), so a killed caller leaves them behind.      *)
(* Steps are cut at every await that reaches the broker.                      *)
(***************************************************************************)
EXTENDS Integers, Sequences, StreamOps

CONSTANTS
  Orders,        \* order ids
  Declined,      \* orders with amount <= 0
  NoOrder,       \* no run has been started yet
  Count,         \* count= of XREAD (100 in the code)
  MaxCrashes,    \* bound: times the runner is killed or a publish raises
  MaxStops       \* bound: times the caller sets the stop event

ASSUME DeclinedAssumption == Declined \subseteq Orders
ASSUME NoOrderAssumption == NoOrder \notin Orders
ASSUME SagaBoundAssumption ==
  /\ Count \in Nat \ {0} /\ MaxCrashes \in Nat /\ MaxStops \in Nat

Streams == {"orders", "payments", "shipping"}
EventTypes == {"OrderCreated", "OrderCancelled", "PaymentProcessed", "PaymentFailed", "OrderShipped"}
Event(type, o) == [type |-> type, order |-> o]
SagaStatus == {"payment_processing", "paid", "completed", "cancelled"}

(* Mutant: only a completed order ends the loop.                             *)
TerminalCompletedOnly == {"completed"}

Terminal == {"completed", "cancelled"}

VARIABLES
  log,           \* the three streams
  pc,            \* where run_saga is
  current,       \* the order of the run
  status,        \* its status in OrderService
  last,          \* last_ids
  batch,         \* entries of the current read still to be routed
  stopSet,       \* stop_event
  started,       \* orders some run was started for
  crashes, stops

faults == <<crashes, stops>>
sagaVars == <<log, pc, current, status, last, batch, stopSet, started, crashes, stops>>

PCs == {"idle", "create", "orders", "routeOrders", "payments", "routePayments",
        "shipping", "sleep", "ended", "down"}
Running == pc \notin {"idle", "ended", "down"}

AtStart == [s \in Streams |-> 0]

SagaInit ==
  /\ log = [s \in Streams |-> <<>>] /\ pc = "idle" /\ current = NoOrder
  /\ status = "payment_processing" /\ last = AtStart /\ batch = {} /\ stopSet = FALSE
  /\ started = {} /\ crashes = 0 /\ stops = 0

(* XADD.                                                                    *)
publish(s, e) == log' = [log EXCEPT ![s] = Append(@, e)]

(* XREAD from last_ids: the entries after the last one routed.               *)
consume(s) == FirstN({i \in DOMAIN log[s] : last[s] < i}, Count)

(* The entry the for loop is at becomes last_ids before it is handled.       *)
Advance(s) ==
  /\ last' = [last EXCEPT ![s] = Oldest(batch)]
  /\ batch' = batch \ {Oldest(batch)}

-----------------------------------------------------------------------------
(* run_saga.                                                                *)

(* create_order on new services and the status publish_created sets.         *)
Begin(o) ==
  /\ current' = o /\ status' = "payment_processing"
  /\ last' = AtStart /\ batch' = {} /\ stopSet' = FALSE
  /\ started' = started \cup {o}
  /\ pc' = "create"
  /\ UNCHANGED <<log, faults>>

NewSaga(o) == pc \in {"idle", "down"} /\ o \notin started /\ Begin(o)

(* The killed run is started again for its order.                            *)
Restart == pc = "down" /\ Begin(current)

publish_created ==
  /\ pc = "create"
  /\ publish("orders", Event("OrderCreated", current))
  /\ pc' = "orders"
  /\ UNCHANGED <<current, status, last, batch, stopSet, started, faults>>

(* Top of the loop, the only place that looks at the stop event.             *)
StopSeen ==
  /\ pc = "orders" /\ stopSet
  /\ pc' = "ended"
  /\ UNCHANGED <<log, current, status, last, batch, stopSet, started, faults>>

ConsumeOrders ==
  /\ pc = "orders" /\ ~stopSet
  /\ batch' = consume("orders")
  /\ pc' = IF batch' = {} THEN "payments" ELSE "routeOrders"
  /\ UNCHANGED <<log, current, status, last, stopSet, started, faults>>

(* PaymentService.handle_order_created.                                      *)
handle_order_created(o) ==
  publish("payments", Event(IF o \in Declined THEN "PaymentFailed" ELSE "PaymentProcessed", o))

RouteOrder ==
  /\ pc = "routeOrders"
  /\ LET e == log["orders"][Oldest(batch)] IN
       IF e.type = "OrderCreated" THEN handle_order_created(e.order) ELSE UNCHANGED log
  /\ Advance("orders")
  /\ pc' = IF batch' = {} THEN "payments" ELSE "routeOrders"
  /\ UNCHANGED <<current, status, stopSet, started, faults>>

ConsumePayments ==
  /\ pc = "payments"
  /\ batch' = consume("payments")
  /\ pc' = IF batch' = {} THEN "shipping" ELSE "routePayments"
  /\ UNCHANGED <<log, current, status, last, stopSet, started, faults>>

(* Mutant: ShippingService only ships the order of the run.                  *)
ShipKnownOnly(o) ==
  IF o = current THEN publish("shipping", Event("OrderShipped", o)) ELSE UNCHANGED log

(* ShippingService.handle_payment_processed ships any order.                 *)
ship(o) == publish("shipping", Event("OrderShipped", o))

(* OrderService marks an order it knows PAID.                                *)
handle_payment_processed(o) == status' = IF o = current THEN "paid" ELSE status

(* OrderService cancels an order it knows and publishes the compensation.    *)
handle_payment_failed(o) ==
  IF o = current
    THEN status' = "cancelled" /\ publish("orders", Event("OrderCancelled", o))
    ELSE UNCHANGED <<status, log>>

RoutePayment ==
  /\ pc = "routePayments"
  /\ LET e == log["payments"][Oldest(batch)] IN
       IF e.type = "PaymentProcessed"
         THEN handle_payment_processed(e.order) /\ ship(e.order)
         ELSE handle_payment_failed(e.order)
  /\ Advance("payments")
  /\ pc' = IF batch' = {} THEN "shipping" ELSE "routePayments"
  /\ UNCHANGED <<current, stopSet, started, faults>>

(* OrderService completes an order it knows.                                 *)
handle_order_shipped(ids) ==
  status' = IF \E i \in ids : log["shipping"][i].order = current THEN "completed" ELSE status

(* The shipping events and the terminal check: no await in between, since     *)
(* handle_order_shipped reaches no broker.                                   *)
ConsumeShipping ==
  /\ pc = "shipping"
  /\ LET new == consume("shipping") IN
       /\ handle_order_shipped(new)
       /\ last' = IF new = {} THEN last ELSE [last EXCEPT !["shipping"] = Newest(new)]
  /\ stopSet' = (stopSet \/ status' \in Terminal)
  /\ pc' = IF status' \in Terminal THEN "ended" ELSE "sleep"
  /\ UNCHANGED <<log, current, batch, started, faults>>

SleepEnds ==
  /\ pc = "sleep"
  /\ pc' = "orders"
  /\ UNCHANGED <<log, current, status, last, batch, stopSet, started, faults>>

-----------------------------------------------------------------------------
(* The caller and the process.                                              *)

DeleteStreams ==
  /\ pc = "ended"
  /\ log' = [s \in Streams |-> <<>>]
  /\ pc' = "idle"
  /\ UNCHANGED <<current, status, last, batch, stopSet, started, faults>>

SetStopEvent ==
  /\ Running /\ ~stopSet /\ stops < MaxStops
  /\ stopSet' = TRUE /\ stops' = stops + 1
  /\ UNCHANGED <<log, pc, current, status, last, batch, started, crashes>>

(* The process is killed, or a broker call raises and nothing catches it.    *)
Crash ==
  /\ pc \notin {"idle", "down"} /\ crashes < MaxCrashes
  /\ pc' = "down" /\ batch' = {} /\ crashes' = crashes + 1
  /\ UNCHANGED <<log, current, status, last, stopSet, started, stops>>

Runner ==
  \/ publish_created \/ StopSeen \/ ConsumeOrders \/ RouteOrder
  \/ ConsumePayments \/ RoutePayment \/ ConsumeShipping \/ SleepEnds \/ DeleteStreams

SagaNext ==
  \/ Runner
  \/ \E o \in Orders : NewSaga(o)
  \/ Restart
  \/ SetStopEvent
  \/ Crash

SagaSpec == SagaInit /\ [][SagaNext]_sagaVars

(* The event loop runs the saga, and a killed run is started again.          *)
SagaFairSpec == SagaSpec /\ WF_sagaVars(Runner) /\ WF_sagaVars(Restart)

-----------------------------------------------------------------------------
(* Properties.                                                              *)

(* Every variable has the values its code can give it.                      *)
SagaTypeOK ==
  /\ log \in [Streams -> Seq([type : EventTypes, order : Orders])]
  /\ pc \in PCs /\ current \in Orders \cup {NoOrder} /\ status \in SagaStatus
  /\ \A s \in Streams : last[s] \in 0..Len(log[s]) \/ pc \in {"idle", "down"}
  /\ batch \subseteq 1..Len(log[IF pc = "routeOrders" THEN "orders" ELSE "payments"])
  /\ stopSet \in BOOLEAN /\ started \subseteq Orders
  /\ crashes \in 0..MaxCrashes /\ stops \in 0..MaxStops

Times(s, type, o) == Cardinality({i \in DOMAIN log[s] : log[s][i] = Event(type, o)})

Finished == pc = "ended" /\ status \in Terminal

(* "if a step fails, compensating transactions undo the work": a saga ends      *)
(* cancelled only with its compensation published and nothing shipped, and       *)
(* completed only with its order shipped and never cancelled.  Nobody is left    *)
(* charged without a shipment either, nor is an order whose events a killed run  *)
(* left on the streams (runner.py:58-61 with the terminal check at :74) -- if    *)
(* the streams fit one read: the loop ends at the first terminal status,         *)
(* whatever a longer stream still holds.                                        *)
OutcomeIsOnStreams ==
  /\ SagaTypeOK
  /\ Finished =>
       /\ (status = "cancelled") = (Times("orders", "OrderCancelled", current) > 0)
       /\ (status = "completed") = (Times("shipping", "OrderShipped", current) > 0)
  /\ (Finished /\ \A s \in Streams : Len(log[s]) =< Count) => \A o \in Orders :
       Times("payments", "PaymentProcessed", o) =< Times("shipping", "OrderShipped", o)

(* "The runner stops automatically when the order reaches COMPLETED or           *)
(* CANCELLED" (saga_pattern/README.md:169): a saga that is not told to stop       *)
(* reaches its terminal state, through crashes and restarts, unless the caller   *)
(* goes on with another order.                                                   *)
SagaReachesTerminal ==
  \A o \in Orders :
    (current = o /\ pc # "idle") ~> (Finished \/ stops > 0 \/ current # o)

=============================================================================
