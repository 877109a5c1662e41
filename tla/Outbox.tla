------------------------------- MODULE Outbox -------------------------------
(***************************************************************************)
(* The transactional outbox: outbox_pattern/store.py (SQLite), relay.py     *)
(* (the polling loop) and broker.py (XADD).                                 *)
(*                                                                         *)
(* The order service and the relay are separate processes that share the    *)
(* database file.  Steps are cut at every await and every transaction, so   *)
(* an order can be committed, the relay can die and the broker can fail      *)
(* between any two of them.                                                 *)
(***************************************************************************)
EXTENDS Integers, Sequences, StreamOps

CONSTANTS
  Orders,           \* order ids the service may be asked to place
  BatchLimit,       \* LIMIT of poll_outbox (10 in the code)
  MaxCrashes,       \* bound: times the relay process is killed
  MaxBrokerErrors,  \* bound: times broker.publish raises
  MaxStops          \* bound: times the stop event is set

ASSUME BatchAssumption == BatchLimit \in Nat \ {0}
ASSUME FaultAssumption ==
  /\ MaxCrashes \in Nat
  /\ MaxBrokerErrors \in Nat
  /\ MaxStops \in Nat

VARIABLES
  orders,        \* orders table: committed order ids
  rows,          \* every outbox row ever inserted; row i is rows[i]
  outbox,        \* ids of the rows the outbox table still holds
  stream,        \* the Redis stream: the order each event is about
  pc,            \* where the relay is
  batch,         \* entries of the current poll still to be relayed
  stopSet,       \* the relay's stop_event
  crashes, brokerErrors, stops   \* faults so far

db == <<orders, rows, outbox>>
faults == <<crashes, brokerErrors, stops>>
vars == <<orders, rows, outbox, stream, pc, batch, stopSet, crashes, brokerErrors, stops>>

PCs == {"poll", "publish", "delete", "sleep", "stopped", "down"}
Running == pc \in {"poll", "publish", "delete", "sleep"}

Published == {stream[k] : k \in DOMAIN stream}

Init ==
  /\ orders = {} /\ rows = <<>> /\ outbox = {} /\ stream = <<>>
  /\ pc = "poll" /\ batch = {} /\ stopSet = FALSE
  /\ crashes = 0 /\ brokerErrors = 0 /\ stops = 0

-----------------------------------------------------------------------------
(* The order service.                                                       *)

(* Mutant: the row is filed under the id after the one it was given.        *)
InsertFilesNextId(o) ==
  /\ o \notin orders
  /\ orders' = orders \cup {o}
  /\ rows' = Append(rows, o)
  /\ outbox' = outbox \cup {Len(rows) + 2}
  /\ UNCHANGED <<stream, pc, batch, stopSet, faults>>

(* One transaction: the order row and its outbox row commit together.  A    *)
(* second order with the same primary key raises and rolls back both.       *)
insert_order_with_outbox(o) ==
  /\ o \notin orders
  /\ orders' = orders \cup {o}
  /\ rows' = Append(rows, o)
  /\ outbox' = outbox \cup {Len(rows) + 1}
  /\ UNCHANGED <<stream, pc, batch, stopSet, faults>>

-----------------------------------------------------------------------------
(* The relay.                                                               *)

(* The oldest rows, SELECT ... ORDER BY id LIMIT.                            *)
poll_outbox == FirstN(outbox, BatchLimit)

delete_outbox_entry(i) == outbox' = outbox \ {i}

(* XADD of the event a row's payload holds.                                  *)
publish(i) == stream' = Append(stream, rows[i])

(* Mutant: the poll claims its rows by deleting them.                       *)
PollClaimsRows ==
  /\ pc = "poll" /\ ~stopSet
  /\ batch' = poll_outbox
  /\ outbox' = outbox \ batch'
  /\ pc' = IF outbox = {} THEN "sleep" ELSE "publish"
  /\ UNCHANGED <<orders, rows, stream, stopSet, faults>>

(* Mutant: the relay waits for a full batch.                                *)
PollWaitsForFullBatch ==
  /\ pc = "poll" /\ ~stopSet
  /\ batch' = poll_outbox
  /\ pc' = IF Cardinality(outbox) < BatchLimit THEN "sleep" ELSE "publish"
  /\ UNCHANGED <<db, stream, stopSet, faults>>

(* Top of the while loop: the stop event is only looked at here.            *)
PollOutbox ==
  /\ pc = "poll" /\ ~stopSet
  /\ batch' = poll_outbox
  /\ pc' = IF outbox = {} THEN "sleep" ELSE "publish"
  /\ UNCHANGED <<db, stream, stopSet, faults>>

StopSeen ==
  /\ pc = "poll" /\ stopSet
  /\ pc' = "stopped"
  /\ UNCHANGED <<db, stream, batch, stopSet, faults>>

(* The XADD is applied and its reply resumes the relay.                     *)
PublishEntry ==
  /\ pc = "publish"
  /\ publish(Oldest(batch))
  /\ pc' = "delete"
  /\ UNCHANGED <<db, batch, stopSet, faults>>

(* Mutant: the error is swallowed and the entry deleted as if published.    *)
PublishErrorSwallowed ==
  /\ pc = "publish" /\ brokerErrors < MaxBrokerErrors
  /\ pc' = "delete"
  /\ brokerErrors' = brokerErrors + 1
  /\ UNCHANGED <<db, stream, batch, stopSet, crashes, stops>>

(* broker.publish raises; nothing catches it, so run() ends.  The XADD was  *)
(* refused, or it was applied and only the reply was lost.                  *)
PublishRaises ==
  /\ pc = "publish" /\ brokerErrors < MaxBrokerErrors
  /\ publish(Oldest(batch)) \/ UNCHANGED stream
  /\ pc' = "down" /\ batch' = {}
  /\ brokerErrors' = brokerErrors + 1
  /\ UNCHANGED <<db, stopSet, crashes, stops>>

(* Mutant: a stop request interrupts the batch before the delete.           *)
DeleteSkippedOnStop ==
  /\ pc = "delete"
  /\ IF stopSet THEN UNCHANGED outbox ELSE delete_outbox_entry(Oldest(batch))
  /\ batch' = IF stopSet THEN {} ELSE batch \ {Oldest(batch)}
  /\ pc' = IF stopSet THEN "stopped" ELSE IF batch' = {} THEN "sleep" ELSE "publish"
  /\ UNCHANGED <<orders, rows, stream, stopSet, faults>>

DeleteEntry ==
  /\ pc = "delete"
  /\ delete_outbox_entry(Oldest(batch))
  /\ batch' = batch \ {Oldest(batch)}
  /\ pc' = IF batch' = {} THEN "sleep" ELSE "publish"
  /\ UNCHANGED <<orders, rows, stream, stopSet, faults>>

SleepEnds ==
  /\ pc = "sleep"
  /\ pc' = "poll"
  /\ UNCHANGED <<db, stream, batch, stopSet, faults>>

-----------------------------------------------------------------------------
(* What happens to the relay process.                                       *)

Crash ==
  /\ Running /\ crashes < MaxCrashes
  /\ pc' = "down" /\ batch' = {}
  /\ crashes' = crashes + 1
  /\ UNCHANGED <<db, stream, stopSet, brokerErrors, stops>>

SetStop ==
  /\ Running /\ ~stopSet /\ stops < MaxStops
  /\ stopSet' = TRUE
  /\ stops' = stops + 1
  /\ UNCHANGED <<db, stream, pc, batch, crashes, brokerErrors>>

(* A supervisor or a deployment calls run() again, with a new stop event.   *)
Restart ==
  /\ pc \in {"stopped", "down"}
  /\ pc' = "poll" /\ batch' = {} /\ stopSet' = FALSE
  /\ UNCHANGED <<db, stream, faults>>

Relay == \/ PollOutbox \/ StopSeen \/ PublishEntry \/ DeleteEntry \/ SleepEnds

Next ==
  \/ \E o \in Orders : insert_order_with_outbox(o)
  \/ Relay
  \/ PublishRaises
  \/ Crash
  \/ SetStop
  \/ Restart

Spec == Init /\ [][Next]_vars

(* The event loop keeps running the relay.  A broker call that does not     *)
(* raise returns, so PublishEntry is among the fair steps.                  *)
UnsupervisedSpec == Spec /\ WF_vars(Relay)

(* Somebody also restarts a relay that ended.                               *)
FairSpec == UnsupervisedSpec /\ WF_vars(Restart)

-----------------------------------------------------------------------------
(* Properties.                                                              *)

(* Every variable has the values its code can give it.                      *)
TypeOK ==
  /\ orders \subseteq Orders
  /\ rows \in Seq(Orders)
  /\ outbox \subseteq DOMAIN rows
  /\ stream \in Seq(Orders)
  /\ pc \in PCs
  /\ batch \subseteq DOMAIN rows
  /\ stopSet \in BOOLEAN
  /\ crashes \in 0..MaxCrashes
  /\ brokerErrors \in 0..MaxBrokerErrors
  /\ stops \in 0..MaxStops

(* No committed order's event is lost, and no event is about an order that  *)
(* was never committed: whatever the relay and the broker do, an order is    *)
(* in the orders table exactly when its row waits in the outbox or its event *)
(* is on the stream (insert_order_with_outbox and run together).             *)
NothingLostNoGhost ==
  orders = {rows[i] : i \in outbox} \cup Published

(* Events reach the stream in the order their orders were committed, crashes *)
(* and repetitions included: no event ever follows one of a later row.       *)
PublishedInCommitOrder ==
  \A k, l \in DOMAIN stream : \A a, b \in DOMAIN rows :
    k < l /\ stream[k] = rows[a] /\ stream[l] = rows[b] => a =< b

(* A duplicate on the stream is always paid for by a fault: a relay that     *)
(* dies between XADD and DELETE repeats one event, and a clean stop, which    *)
(* only takes effect between batches, repeats none.                          *)
DuplicatesNeedFaults ==
  Len(stream) =< Cardinality(Published) + crashes + brokerErrors

(* "Delivery is at-least-once: the event will eventually reach the broker,   *)
(* guaranteed" (outbox_pattern/README.md:52): every committed order is        *)
(* eventually on the stream and its outbox row is eventually deleted.         *)
EveryOrderRelayed ==
  \A o \in Orders : o \in orders ~> (o \in Published /\ \A i \in outbox : rows[i] # o)

(* The outbox and its relay implement at-least-once delivery.               *)
ALO == INSTANCE AtLeastOnce WITH
  Items <- Orders,
  owed <- {rows[i] : i \in outbox},
  done <- Published

ImplementsAtLeastOnce == ALO!Spec
=============================================================================
