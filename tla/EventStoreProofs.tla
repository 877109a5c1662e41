-------------------------- MODULE EventStoreProofs --------------------------
(***************************************************************************)
(* Proofs about the two patterns that keep their events in a log and read   *)
(* it a batch at a time: Outbox for every set of orders, batch limit and    *)
(* number of faults (types, no lost and no ghost event, publication in      *)
(* commit order, duplicates paid for, the refinement of AtLeastOnce), and   *)
(* EventSourcing for every set of writers and amounts, every page size and  *)
(* number of failures (types, the validity of a history appended with sight *)
(* of it, the projection as the fold of what it read).                      *)
(***************************************************************************)
EXTENDS Outbox, EventSourcing, StreamOpsProofs, SequenceTheorems

-----------------------------------------------------------------------------
(* Outbox.                                                                  *)

(* Each committed order has exactly one row, and rows are never reused.      *)
OneRowPerOrder ==
  /\ orders = {rows[i] : i \in DOMAIN rows}
  /\ \A i, j \in DOMAIN rows : rows[i] = rows[j] => i = j

(* What the relay still has to do is the head of the table.                  *)
BatchIsHead ==
  /\ batch \subseteq outbox
  /\ \A i \in outbox, b \in batch : i < b => i \in batch

(* The relay only works on an entry it has, and only deletes what it sent.   *)
RelayPosition ==
  /\ pc \in {"publish", "delete"} => batch # {}
  /\ pc = "delete" => rows[Oldest(batch)] \in Published

(* Whatever was published has an id no greater than everything still owed.   *)
PublishedBeforeOwed ==
  \A k \in DOMAIN stream : \A a \in DOMAIN rows : \A i \in outbox :
    stream[k] = rows[a] => a =< i

Inv ==
  /\ TypeOK
  /\ OneRowPerOrder
  /\ NothingLostNoGhost
  /\ BatchIsHead
  /\ RelayPosition
  /\ PublishedBeforeOwed
  /\ PublishedInCommitOrder

-----------------------------------------------------------------------------
(* The head of a nonempty batch is the head of the table.                    *)
LEMMA HeadOfBatch ==
  ASSUME TypeOK, BatchIsHead, batch # {}
  PROVE  /\ Oldest(batch) \in batch
         /\ Oldest(batch) \in outbox
         /\ Oldest(batch) \in DOMAIN rows
         /\ Oldest(batch) \in Nat
         /\ \A i \in outbox : Oldest(batch) =< i
<1>1. DOMAIN rows \subseteq Nat
  BY DEF TypeOK
<1>2. batch \in SUBSET Nat /\ outbox \subseteq Nat
  BY <1>1 DEF TypeOK
<1>3. Oldest(batch) \in batch /\ \A j \in batch : Oldest(batch) =< j
  BY <1>2, OldestIsLeast
<1>4. ASSUME NEW i \in outbox PROVE Oldest(batch) =< i
  <2>1. CASE i \in batch
    BY <1>3, <2>1
  <2>2. CASE i \notin batch
    <3>1. ~(i < Oldest(batch))
      BY <1>3, <2>2 DEF BatchIsHead
    <3>2. i \in Nat /\ Oldest(batch) \in Nat
      BY <1>2, <1>3
    <3>3. QED
      BY <3>1, <3>2
  <2>3. QED
    BY <2>1, <2>2
<1>5. QED
  BY <1>2, <1>3, <1>4 DEF TypeOK, BatchIsHead

(* Everything the relay polls is the head of the outbox table.               *)
LEMMA PolledHead ==
  ASSUME TypeOK
  PROVE  /\ FirstN(outbox, BatchLimit) \subseteq outbox
         /\ \A i \in outbox, b \in FirstN(outbox, BatchLimit) :
              i < b => i \in FirstN(outbox, BatchLimit)
         /\ outbox # {} => FirstN(outbox, BatchLimit) # {}
<1>1. Len(rows) \in Nat /\ DOMAIN rows = 1..Len(rows)
  BY DEF TypeOK
<1>2. IsFiniteSet(DOMAIN rows)
  BY <1>1, FS_Interval
<1>3. IsFiniteSet(outbox)
  BY <1>2, FS_Subset DEF TypeOK
<1>4. outbox \in SUBSET Nat
  BY <1>1 DEF TypeOK
<1>5. BatchLimit \in Nat /\ BatchLimit \in Nat \ {0}
  BY BatchAssumption
<1>6. /\ FirstN(outbox, BatchLimit) \subseteq outbox
      /\ \A i \in outbox, b \in FirstN(outbox, BatchLimit) :
           i < b => i \in FirstN(outbox, BatchLimit)
  BY <1>3, <1>4, <1>5, FirstNIsHead
<1>7. outbox # {} => Oldest(outbox) \in FirstN(outbox, BatchLimit)
  BY <1>4, <1>5, FirstNTakesOldest
<1>8. QED
  BY <1>6, <1>7

(* The effect of an XADD of row r's payload on the set of published orders.   *)
LEMMA AppendPublishes ==
  ASSUME NEW s \in Seq(Orders), NEW o \in Orders
  PROVE  /\ Append(s, o) \in Seq(Orders)
         /\ DOMAIN Append(s, o) = DOMAIN s \cup {Len(s) + 1}
         /\ \A k \in DOMAIN s : k < Len(s) + 1 /\ k \in Nat /\ Append(s, o)[k] = s[k]
         /\ Append(s, o)[Len(s) + 1] = o
         /\ {Append(s, o)[k] : k \in DOMAIN Append(s, o)} = {s[k] : k \in DOMAIN s} \cup {o}
<1>1. /\ Append(s, o) \in Seq(Orders)
      /\ Len(Append(s, o)) = Len(s) + 1
      /\ Append(s, o)[Len(s) + 1] = o
      /\ \A k \in 1..Len(s) : Append(s, o)[k] = s[k]
  OBVIOUS
<1>2. DOMAIN s = 1..Len(s) /\ DOMAIN Append(s, o) = 1..(Len(s) + 1) /\ Len(s) \in Nat
  BY <1>1
<1>3. DOMAIN Append(s, o) = DOMAIN s \cup {Len(s) + 1}
  BY <1>2
<1>4. \A k \in DOMAIN s : k < Len(s) + 1 /\ k \in Nat /\ Append(s, o)[k] = s[k]
  BY <1>1, <1>2
<1>5. {Append(s, o)[k] : k \in DOMAIN Append(s, o)} = {s[k] : k \in DOMAIN s} \cup {o}
  BY <1>1, <1>3, <1>4
<1>6. QED
  BY <1>1, <1>3, <1>4, <1>5
-----------------------------------------------------------------------------
LEMMA InitInv == Init => Inv
<1>1. SUFFICES ASSUME Init PROVE Inv
  OBVIOUS
<1>2. TypeOK
  <2>1. orders \subseteq Orders /\ outbox \subseteq DOMAIN rows /\ batch \subseteq DOMAIN rows
    BY <1>1 DEF Init
  <2>2. rows \in Seq(Orders) /\ stream \in Seq(Orders)
    BY <1>1 DEF Init
  <2>3. pc \in PCs
    BY <1>1 DEF Init, PCs
  <2>4. stopSet \in BOOLEAN
    BY <1>1, Zenon DEF Init
  <2>5. crashes \in 0..MaxCrashes /\ brokerErrors \in 0..MaxBrokerErrors /\ stops \in 0..MaxStops
    BY <1>1, FaultAssumption DEF Init
  <2>6. QED
    BY <2>1, <2>2, <2>3, <2>4, <2>5 DEF TypeOK
<1>3. Published = {} /\ DOMAIN rows = {}
  BY <1>1 DEF Init, Published
<1>4. NothingLostNoGhost /\ OneRowPerOrder
  BY <1>1, <1>3 DEF Init, NothingLostNoGhost, OneRowPerOrder
<1>5. BatchIsHead /\ RelayPosition
  BY <1>1 DEF Init, BatchIsHead, RelayPosition
<1>6. PublishedBeforeOwed /\ PublishedInCommitOrder
  BY <1>1 DEF Init, PublishedBeforeOwed, PublishedInCommitOrder
<1>7. QED
  BY <1>2, <1>4, <1>5, <1>6 DEF Inv

(* A step that leaves the tables and the stream alone and does not leave the  *)
(* relay in the middle of an entry keeps everything but the types.            *)
LEMMA QuietStep ==
  ASSUME Inv, TypeOK', UNCHANGED <<db, stream>>,
         batch' = {}, pc' \notin {"publish", "delete"}
  PROVE  Inv'
<1>1. OneRowPerOrder'
  BY DEF Inv, OneRowPerOrder, db
<1>2. NothingLostNoGhost'
  BY DEF Inv, NothingLostNoGhost, Published, db
<1>3. BatchIsHead' /\ RelayPosition'
  BY DEF BatchIsHead, RelayPosition
<1>4. PublishedBeforeOwed' /\ PublishedInCommitOrder'
  BY DEF Inv, PublishedBeforeOwed, PublishedInCommitOrder, db
<1>5. QED
  BY <1>1, <1>2, <1>3, <1>4 DEF Inv

(* Committing an order with its row.                                         *)
LEMMA InsertStep ==
  ASSUME Inv, NEW o \in Orders, insert_order_with_outbox(o)
  PROVE  Inv'
<1> USE DEF insert_order_with_outbox
<1>0. TypeOK /\ BatchIsHead
  BY DEF Inv
<1>1. /\ rows' \in Seq(Orders)
      /\ DOMAIN rows' = DOMAIN rows \cup {Len(rows) + 1}
      /\ \A i \in DOMAIN rows : i < Len(rows) + 1 /\ i \in Nat /\ rows'[i] = rows[i]
      /\ rows'[Len(rows) + 1] = o
      /\ Len(rows) + 1 \in Nat
      /\ {rows'[i] : i \in DOMAIN rows'} = {rows[i] : i \in DOMAIN rows} \cup {o}
  <2>1. rows \in Seq(Orders)
    BY <1>0 DEF TypeOK
  <2>2. QED
    BY <2>1, AppendPublishes
<1>2. TypeOK'
  BY <1>0, <1>1 DEF TypeOK, faults
<1>3. OneRowPerOrder'
  <2>1. orders' = {rows'[i] : i \in DOMAIN rows'}
    BY <1>1 DEF Inv, OneRowPerOrder
  <2>2. ASSUME NEW i \in DOMAIN rows', NEW j \in DOMAIN rows', rows'[i] = rows'[j]
        PROVE  i = j
    <3>1. \A k \in DOMAIN rows : rows[k] \in orders
      BY DEF Inv, OneRowPerOrder
    <3>2. \A k \in DOMAIN rows : rows'[k] # o
      BY <1>1, <3>1
    <3>3. QED
      BY <1>1, <2>2, <3>2 DEF Inv, OneRowPerOrder
  <2>3. QED
    BY <2>1, <2>2 DEF OneRowPerOrder
<1>4. NothingLostNoGhost'
  <2>1. {rows'[i] : i \in outbox'} = {rows[i] : i \in outbox} \cup {o}
    BY <1>0, <1>1 DEF TypeOK
  <2>2. QED
    BY <2>1 DEF Inv, NothingLostNoGhost, Published
<1>5. BatchIsHead'
  <2>1. \A b \in batch : b < Len(rows) + 1 /\ b \in Nat
    BY <1>0, <1>1 DEF TypeOK
  <2>2. \A b \in batch : ~(Len(rows) + 1 < b)
    BY <2>1, <1>1
  <2>3. QED
    BY <1>0, <2>2 DEF BatchIsHead
<1>6. RelayPosition'
  <2>1. batch # {} => rows'[Oldest(batch)] = rows[Oldest(batch)]
    BY <1>0, <1>1, HeadOfBatch
  <2>2. QED
    BY <2>1 DEF Inv, RelayPosition, Published
<1>7. \A k \in DOMAIN stream : stream[k] # o
  <2>1. Published \subseteq orders
    BY DEF Inv, NothingLostNoGhost
  <2>2. QED
    BY <2>1 DEF Published
<1>8. PublishedBeforeOwed'
  <2>1. SUFFICES ASSUME NEW k \in DOMAIN stream, NEW a \in DOMAIN rows', NEW i \in outbox',
                        stream[k] = rows'[a]
                 PROVE  a =< i
    BY DEF PublishedBeforeOwed
  <2>2. a \in DOMAIN rows /\ stream[k] = rows[a]
    BY <1>1, <1>7, <2>1
  <2>3. CASE i \in outbox
    BY <2>2, <2>3 DEF Inv, PublishedBeforeOwed
  <2>4. CASE i = Len(rows) + 1
    BY <1>1, <2>2, <2>4
  <2>5. QED
    BY <2>3, <2>4
<1>9. PublishedInCommitOrder'
  <2>1. SUFFICES ASSUME NEW k \in DOMAIN stream, NEW l \in DOMAIN stream,
                        NEW a \in DOMAIN rows', NEW b \in DOMAIN rows',
                        k < l, stream[k] = rows'[a], stream[l] = rows'[b]
                 PROVE  a =< b
    BY DEF PublishedInCommitOrder
  <2>2. a \in DOMAIN rows /\ stream[k] = rows[a] /\ b \in DOMAIN rows /\ stream[l] = rows[b]
    BY <1>1, <1>7, <2>1
  <2>3. QED
    BY <2>1, <2>2 DEF Inv, PublishedInCommitOrder
<1>10. QED
  BY <1>2, <1>3, <1>4, <1>5, <1>6, <1>8, <1>9 DEF Inv
(* The XADD of the relay's current entry.                                    *)
LEMMA XaddStep ==
  ASSUME Inv, pc = "publish", UNCHANGED db,
         stream' = Append(stream, rows[Oldest(batch)])
  PROVE  /\ stream' \in Seq(Orders)
         /\ Published' = Published \cup {rows[Oldest(batch)]}
         /\ NothingLostNoGhost'
         /\ PublishedBeforeOwed'
         /\ PublishedInCommitOrder'
<1> DEFINE head == Oldest(batch)
<1>0. TypeOK /\ BatchIsHead /\ batch # {}
  BY DEF Inv, RelayPosition
<1>1. /\ head \in outbox /\ head \in DOMAIN rows /\ head \in Nat
      /\ \A i \in outbox : head =< i
  BY <1>0, HeadOfBatch
<1>2. rows[head] \in Orders /\ stream \in Seq(Orders)
  BY <1>0, <1>1 DEF TypeOK
<1>3. /\ stream' \in Seq(Orders)
      /\ DOMAIN stream' = DOMAIN stream \cup {Len(stream) + 1}
      /\ \A k \in DOMAIN stream : k < Len(stream) + 1 /\ k \in Nat /\ stream'[k] = stream[k]
      /\ stream'[Len(stream) + 1] = rows[head]
      /\ Len(stream) + 1 \in Nat
      /\ {stream'[k] : k \in DOMAIN stream'} = {stream[k] : k \in DOMAIN stream} \cup {rows[head]}
  BY <1>2, AppendPublishes
<1>4. Published' = Published \cup {rows[head]}
  BY <1>3 DEF Published
<1>5. NothingLostNoGhost'
  BY <1>1, <1>4 DEF Inv, NothingLostNoGhost, db
<1>6. \A a \in DOMAIN rows : rows[head] = rows[a] => a = head
  BY <1>1 DEF Inv, OneRowPerOrder
<1>7. PublishedBeforeOwed'
  <2>1. SUFFICES ASSUME NEW k \in DOMAIN stream', NEW a \in DOMAIN rows, NEW i \in outbox,
                        stream'[k] = rows[a]
                 PROVE  a =< i
    BY DEF PublishedBeforeOwed, db
  <2>2. CASE k \in DOMAIN stream
    BY <1>3, <2>1, <2>2 DEF Inv, PublishedBeforeOwed
  <2>3. CASE k = Len(stream) + 1
    BY <1>1, <1>3, <1>6, <2>1, <2>3
  <2>4. QED
    BY <1>3, <2>2, <2>3
<1>8. PublishedInCommitOrder'
  <2>1. SUFFICES ASSUME NEW k \in DOMAIN stream', NEW l \in DOMAIN stream',
                        NEW a \in DOMAIN rows, NEW b \in DOMAIN rows,
                        k < l, stream'[k] = rows[a], stream'[l] = rows[b]
                 PROVE  a =< b
    BY DEF PublishedInCommitOrder, db
  <2>2. CASE l \in DOMAIN stream
    <3>1. k \in DOMAIN stream
      BY <1>3, <2>1, <2>2
    <3>2. QED
      BY <1>3, <2>1, <2>2, <3>1 DEF Inv, PublishedInCommitOrder
  <2>3. CASE l = Len(stream) + 1
    <3>1. k \in DOMAIN stream /\ stream[k] = rows[a]
      BY <1>3, <2>1, <2>3
    <3>2. b = head
      BY <1>3, <1>6, <2>1, <2>3
    <3>3. QED
      BY <1>1, <3>1, <3>2 DEF Inv, PublishedBeforeOwed
  <2>4. QED
    BY <1>3, <2>2, <2>3
<1>9. QED
  BY <1>3, <1>4, <1>5, <1>7, <1>8

(* The relay's and its environment's steps, action by action.                *)
LEMMA NextInv ==
  ASSUME Inv, Next
  PROVE  Inv'
<1>0. TypeOK /\ BatchIsHead /\ RelayPosition
  BY DEF Inv
<1>1. ASSUME NEW o \in Orders, insert_order_with_outbox(o) PROVE Inv'
  BY <1>1, InsertStep
<1>2. CASE PollOutbox
  <2> USE <1>2 DEF PollOutbox, poll_outbox
  <2>1. /\ batch' \subseteq outbox
        /\ \A i \in outbox, b \in batch' : i < b => i \in batch'
        /\ outbox # {} => batch' # {}
    BY <1>0, PolledHead
  <2>2. TypeOK'
    BY <1>0, <2>1 DEF TypeOK, PCs, db, faults
  <2>3. BatchIsHead' /\ RelayPosition'
    BY <2>1 DEF BatchIsHead, RelayPosition, db
  <2>4. OneRowPerOrder' /\ NothingLostNoGhost' /\ PublishedBeforeOwed' /\ PublishedInCommitOrder'
    BY DEF Inv, OneRowPerOrder, NothingLostNoGhost, Published, PublishedBeforeOwed,
           PublishedInCommitOrder, db
  <2>5. QED
    BY <2>2, <2>3, <2>4 DEF Inv
<1>3. CASE StopSeen \/ SleepEnds
  <2> USE <1>3 DEF StopSeen, SleepEnds
  <2>1. TypeOK'
    BY <1>0 DEF TypeOK, PCs, db, faults
  <2>2. BatchIsHead' /\ RelayPosition'
    BY <1>0 DEF BatchIsHead, RelayPosition, db
  <2>3. OneRowPerOrder' /\ NothingLostNoGhost' /\ PublishedBeforeOwed' /\ PublishedInCommitOrder'
    BY DEF Inv, OneRowPerOrder, NothingLostNoGhost, Published, PublishedBeforeOwed,
           PublishedInCommitOrder, db
  <2>4. QED
    BY <2>1, <2>2, <2>3 DEF Inv
<1>4. CASE PublishEntry
  <2> USE <1>4 DEF PublishEntry, publish
  <2>1. /\ stream' \in Seq(Orders)
        /\ Published' = Published \cup {rows[Oldest(batch)]}
        /\ NothingLostNoGhost' /\ PublishedBeforeOwed' /\ PublishedInCommitOrder'
    BY XaddStep
  <2>2. TypeOK'
    BY <1>0, <2>1 DEF TypeOK, PCs, db, faults
  <2>3. OneRowPerOrder' /\ BatchIsHead'
    BY DEF Inv, OneRowPerOrder, BatchIsHead, db
  <2>4. RelayPosition'
    BY <1>0, <2>1 DEF RelayPosition, db
  <2>5. QED
    BY <2>1, <2>2, <2>3, <2>4 DEF Inv
<1>5. CASE PublishRaises
  <2> USE <1>5 DEF PublishRaises, publish
  <2>1. /\ stream' \in Seq(Orders)
        /\ NothingLostNoGhost' /\ PublishedBeforeOwed' /\ PublishedInCommitOrder'
    <3>1. CASE stream' = Append(stream, rows[Oldest(batch)])
      BY <3>1, XaddStep
    <3>2. CASE stream' = stream
      BY <1>0, <3>2 DEF Inv, TypeOK, NothingLostNoGhost, Published, PublishedBeforeOwed,
                        PublishedInCommitOrder, db
    <3>3. QED
      BY <3>1, <3>2
  <2>2. brokerErrors' \in 0..MaxBrokerErrors
    BY <1>0, FaultAssumption DEF TypeOK
  <2>3. TypeOK'
    BY <1>0, <2>1, <2>2 DEF TypeOK, PCs, db
  <2>4. OneRowPerOrder' /\ BatchIsHead' /\ RelayPosition'
    BY DEF Inv, OneRowPerOrder, BatchIsHead, RelayPosition, db
  <2>5. QED
    BY <2>1, <2>3, <2>4 DEF Inv
<1>6. CASE DeleteEntry
  <2> USE <1>6 DEF DeleteEntry, delete_outbox_entry
  <2> DEFINE head == Oldest(batch)
  <2>1. batch # {} /\ rows[head] \in Published
    BY <1>0 DEF RelayPosition
  <2>2. /\ head \in batch /\ head \in Nat
        /\ \A i \in outbox : head =< i
    BY <1>0, <2>1, HeadOfBatch
  <2>3. TypeOK'
    BY <1>0 DEF TypeOK, PCs, faults
  <2>4. OneRowPerOrder' /\ PublishedBeforeOwed' /\ PublishedInCommitOrder'
    BY DEF Inv, OneRowPerOrder, PublishedBeforeOwed, PublishedInCommitOrder
  <2>5. NothingLostNoGhost'
    <3>1. {rows[i] : i \in outbox} \subseteq {rows[i] : i \in outbox'} \cup {rows[head]}
      OBVIOUS
    <3>2. {rows[i] : i \in outbox'} \subseteq {rows[i] : i \in outbox}
      OBVIOUS
    <3>3. QED
      BY <2>1, <3>1, <3>2 DEF Inv, NothingLostNoGhost, Published
  <2>6. BatchIsHead'
    BY <1>0 DEF BatchIsHead
  <2>7. RelayPosition'
    BY DEF RelayPosition
  <2>8. QED
    BY <2>3, <2>4, <2>5, <2>6, <2>7 DEF Inv
<1>7. CASE Crash
  <2> USE <1>7 DEF Crash
  <2>1. crashes' \in 0..MaxCrashes
    BY <1>0, FaultAssumption DEF TypeOK
  <2>2. TypeOK'
    BY <1>0, <2>1 DEF TypeOK, PCs, db
  <2>3. QED
    BY <2>2, QuietStep
<1>8. CASE SetStop
  <2> USE <1>8 DEF SetStop
  <2>1. stops' \in 0..MaxStops
    BY <1>0, FaultAssumption DEF TypeOK
  <2>2. stopSet' \in BOOLEAN
    BY Zenon
  <2>3. TypeOK'
    BY <1>0, <2>1, <2>2 DEF TypeOK, PCs, db
  <2>4. BatchIsHead' /\ RelayPosition'
    BY <1>0 DEF BatchIsHead, RelayPosition, Published, db
  <2>5. OneRowPerOrder' /\ NothingLostNoGhost' /\ PublishedBeforeOwed' /\ PublishedInCommitOrder'
    BY DEF Inv, OneRowPerOrder, NothingLostNoGhost, Published, PublishedBeforeOwed,
           PublishedInCommitOrder, db
  <2>6. QED
    BY <2>3, <2>4, <2>5 DEF Inv
<1>9. CASE Restart
  <2> USE <1>9 DEF Restart
  <2>1. stopSet' \in BOOLEAN
    BY Zenon
  <2>2. TypeOK'
    BY <1>0, <2>1 DEF TypeOK, PCs, db, faults
  <2>3. QED
    BY <2>2, QuietStep
<1>10. QED
  BY <1>1, <1>2, <1>3, <1>4, <1>5, <1>6, <1>7, <1>8, <1>9 DEF Next, Relay

LEMMA StutterInv ==
  ASSUME Inv, UNCHANGED vars
  PROVE  Inv'
  BY DEF vars, Inv, TypeOK, OneRowPerOrder, NothingLostNoGhost, Published, BatchIsHead,
         RelayPosition, PublishedBeforeOwed, PublishedInCommitOrder

(* Inv is an invariant of the specification.                                 *)
LEMMA InvHolds == Spec => []Inv
<1>1. Inv /\ [Next]_vars => Inv'
  BY NextInv, StutterInv
<1>2. QED
  BY InitInv, <1>1, PTL DEF Spec

-----------------------------------------------------------------------------
(* Type correctness of the outbox, for every instance.                        *)
THEOREM TypeCorrect == Spec => []TypeOK
<1>1. Inv => TypeOK
  BY DEF Inv
<1>2. QED
  BY <1>1, InvHolds, PTL

(* insert_order_with_outbox and relay.run together lose no committed order's  *)
(* event and invent none, for every number of crashes, broker errors, stops.  *)
THEOREM NothingLost == Spec => []NothingLostNoGhost
<1>1. Inv => NothingLostNoGhost
  BY DEF Inv
<1>2. QED
  BY <1>1, InvHolds, PTL

(* One relay publishes in commit order, whatever it has to repeat.            *)
THEOREM CommitOrder == Spec => []PublishedInCommitOrder
<1>1. Inv => PublishedInCommitOrder
  BY DEF Inv
<1>2. QED
  BY <1>1, InvHolds, PTL

-----------------------------------------------------------------------------
(* The rows whose event is already on the stream.                             *)
Repeats == {i \in outbox : rows[i] \in Published}

(* A duplicate the relay is bound to send: such a row, and no DELETE next.     *)
Debt == IF pc # "delete" /\ Repeats # {} THEN 1 ELSE 0

(* Every duplicate on the stream, and the one that is bound to follow, was     *)
(* paid for when the relay lost its place between XADD and DELETE.             *)
DuplicatesCharged ==
  /\ IsFiniteSet(Published)
  /\ Len(stream) + Debt =< Cardinality(Published) + crashes + brokerErrors

(* Only the head of the table can be on the stream already.                   *)
LEMMA RepeatsAreHead ==
  ASSUME Inv, batch # {}, NEW i \in Repeats
  PROVE  i = Oldest(batch)
<1>1. TypeOK /\ BatchIsHead
  BY DEF Inv
<1>2. /\ Oldest(batch) \in outbox /\ Oldest(batch) \in Nat
      /\ \A j \in outbox : Oldest(batch) =< j
  BY <1>1, HeadOfBatch
<1>3. i \in outbox /\ i \in DOMAIN rows /\ i \in Nat
  BY <1>1 DEF Repeats, TypeOK
<1>4. PICK k \in DOMAIN stream : stream[k] = rows[i]
  BY DEF Repeats, Published
<1>5. i =< Oldest(batch)
  BY <1>2, <1>3, <1>4 DEF Inv, PublishedBeforeOwed
<1>6. QED
  BY <1>2, <1>3, <1>5

(* The numbers the charge is made of.                                        *)
LEMMA ChargeTypes ==
  ASSUME Inv, DuplicatesCharged
  PROVE  /\ Len(stream) \in Nat /\ Cardinality(Published) \in Nat
         /\ crashes \in Nat /\ brokerErrors \in Nat
         /\ Debt \in {0, 1} /\ Debt' \in {0, 1}
<1>1. Cardinality(Published) \in Nat
  BY FS_CardinalityType DEF DuplicatesCharged
<1>2. Len(stream) \in Nat /\ crashes \in Nat /\ brokerErrors \in Nat
  BY FaultAssumption DEF Inv, TypeOK
<1>3. QED
  BY <1>1, <1>2 DEF Debt

(* A step that leaves the tables and the stream alone owes no more than a      *)
(* crash or a broker error pays for.                                          *)
LEMMA QuietCharge ==
  ASSUME Inv, DuplicatesCharged, UNCHANGED <<rows, outbox, stream>>,
         \/ pc # "delete" /\ UNCHANGED <<crashes, brokerErrors>>
         \/ UNCHANGED <<pc, crashes, brokerErrors>>
         \/ crashes' = crashes + 1 /\ UNCHANGED brokerErrors
         \/ brokerErrors' = brokerErrors + 1 /\ UNCHANGED crashes
  PROVE  DuplicatesCharged'
<1>1. Published' = Published /\ Repeats' = Repeats
  BY DEF Published, Repeats
<1>2. /\ Len(stream) \in Nat /\ Cardinality(Published) \in Nat
      /\ crashes \in Nat /\ brokerErrors \in Nat
      /\ Debt \in {0, 1} /\ Debt' \in {0, 1}
  BY ChargeTypes
<1>3. (pc # "delete" \/ UNCHANGED pc) => Debt' =< Debt
  BY <1>1 DEF Debt
<1>4. QED
  BY <1>1, <1>2, <1>3 DEF DuplicatesCharged

(* An XADD is new, or is the duplicate that was owed.                         *)
LEMMA XaddCharge ==
  ASSUME Inv, DuplicatesCharged, pc = "publish", UNCHANGED db,
         stream' = Append(stream, rows[Oldest(batch)]),
         \/ pc' = "delete" /\ UNCHANGED <<crashes, brokerErrors>>
         \/ brokerErrors' = brokerErrors + 1 /\ UNCHANGED crashes
  PROVE  DuplicatesCharged'
<1> DEFINE head == Oldest(batch)
<1>0. TypeOK /\ BatchIsHead /\ batch # {}
  BY DEF Inv, RelayPosition
<1>1. head \in outbox /\ rows[head] \in Orders /\ stream \in Seq(Orders)
  BY <1>0, HeadOfBatch DEF TypeOK
<1>2. Published' = Published \cup {rows[head]} /\ Len(stream') = Len(stream) + 1
  BY <1>1, XaddStep
<1>3. /\ IsFiniteSet(Published')
      /\ Cardinality(Published') =
           IF rows[head] \in Published THEN Cardinality(Published)
                                       ELSE Cardinality(Published) + 1
  BY <1>2, FS_AddElement DEF DuplicatesCharged
<1>4. rows[head] \in Published => Debt = 1
  BY <1>1 DEF Debt, Repeats
<1>5. pc' = "delete" => Debt' = 0
  BY DEF Debt
<1>6. /\ Len(stream) \in Nat /\ Cardinality(Published) \in Nat
      /\ crashes \in Nat /\ brokerErrors \in Nat
      /\ Debt \in {0, 1} /\ Debt' \in {0, 1}
  BY ChargeTypes
<1>7. QED
  BY <1>2, <1>3, <1>4, <1>5, <1>6 DEF DuplicatesCharged

LEMMA NextCharge ==
  ASSUME Inv, DuplicatesCharged, Next
  PROVE  DuplicatesCharged'
<1>1. ASSUME NEW o \in Orders, insert_order_with_outbox(o) PROVE DuplicatesCharged'
  <2> USE <1>1 DEF insert_order_with_outbox
  <2>1. Published' = Published /\ o \notin Published
    BY DEF Published, Inv, NothingLostNoGhost
  <2>2. \A i \in DOMAIN rows : rows'[i] = rows[i]
    BY DEF Inv, TypeOK
  <2>3. rows'[Len(rows) + 1] = o
    BY DEF Inv, TypeOK
  <2>4. Repeats' = Repeats
    BY <2>1, <2>2, <2>3 DEF Repeats, Inv, TypeOK
  <2>5. QED
    BY <2>1, <2>4 DEF DuplicatesCharged, Debt, faults
<1>2. CASE PollOutbox \/ StopSeen \/ SleepEnds
  BY <1>2, QuietCharge DEF PollOutbox, StopSeen, SleepEnds, db, faults
<1>3. CASE PublishEntry
  BY <1>3, XaddCharge DEF PublishEntry, publish, faults
<1>4. CASE PublishRaises
  <2>1. CASE publish(Oldest(batch))
    BY <1>4, <2>1, XaddCharge DEF PublishRaises, publish
  <2>2. CASE UNCHANGED stream
    BY <1>4, <2>2, QuietCharge DEF PublishRaises, db
  <2>3. QED
    BY <1>4, <2>1, <2>2 DEF PublishRaises
<1>5. CASE DeleteEntry
  <2> USE <1>5 DEF DeleteEntry, delete_outbox_entry
  <2>1. batch # {}
    BY DEF Inv, RelayPosition
  <2>2. Repeats' = {}
    BY <2>1, RepeatsAreHead DEF Repeats, Published
  <2>3. Debt = 0 /\ Debt' = 0 /\ Published' = Published
    BY <2>2 DEF Debt, Published
  <2>4. QED
    BY <2>3 DEF DuplicatesCharged, faults
<1>6. CASE Crash
  BY <1>6, QuietCharge DEF Crash, db
<1>7. CASE SetStop
  BY <1>7, QuietCharge DEF SetStop, db
<1>8. CASE Restart
  BY <1>8, QuietCharge DEF Restart, db, faults
<1>9. QED
  BY <1>1, <1>2, <1>3, <1>4, <1>5, <1>6, <1>7, <1>8 DEF Next, Relay

(* Under any number of crashes and broker errors each duplicate on the stream   *)
(* has one of them behind it; a clean stop of the relay sends none.             *)
THEOREM DuplicatesPaidFor == Spec => []DuplicatesNeedFaults
<1>1. Init => DuplicatesCharged
  <2>1. ASSUME Init PROVE Published = {} /\ Repeats = {} /\ Len(stream) = 0
    BY <2>1 DEF Init, Published, Repeats
  <2>2. IsFiniteSet({}) /\ Cardinality({}) = 0
    BY FS_EmptySet
  <2>3. ASSUME Init PROVE Debt = 0 /\ crashes = 0 /\ brokerErrors = 0
    BY <2>1, <2>3 DEF Init, Debt
  <2>4. QED
    BY <2>1, <2>2, <2>3 DEF DuplicatesCharged
<1>2. Inv /\ DuplicatesCharged /\ [Next]_vars => DuplicatesCharged'
  <2>1. ASSUME Inv, DuplicatesCharged, UNCHANGED vars PROVE DuplicatesCharged'
    BY <2>1, QuietCharge DEF vars
  <2>2. QED
    BY <2>1, NextCharge
<1>3. Inv /\ DuplicatesCharged => DuplicatesNeedFaults
  BY ChargeTypes DEF DuplicatesCharged, DuplicatesNeedFaults
<1>4. QED
  BY <1>1, <1>2, <1>3, InvHolds, PTL DEF Spec

-----------------------------------------------------------------------------
(* Every step of the outbox is a step of AtLeastOnce or changes nothing there. *)
LEMMA StepRefines ==
  ASSUME Inv, Inv', [Next]_vars
  PROVE  [ALO!Next]_ALO!vars
<1> DEFINE owed == {rows[i] : i \in outbox}
<1>0. TypeOK /\ BatchIsHead /\ RelayPosition
  BY DEF Inv
<1>1. ASSUME NEW o \in Orders, insert_order_with_outbox(o)
      PROVE  ALO!Accept(o)
  <2> USE <1>1 DEF insert_order_with_outbox
  <2>1. o \notin owed \cup Published
    BY DEF Inv, NothingLostNoGhost
  <2>2. Published' = Published
    BY DEF Published
  <2>3. owed' = owed \cup {o}
    <3>1. \A i \in DOMAIN rows : rows'[i] = rows[i]
      BY <1>0 DEF TypeOK
    <3>2. rows'[Len(rows) + 1] = o
      BY <1>0 DEF TypeOK
    <3>3. QED
      BY <1>0, <3>1, <3>2 DEF TypeOK
  <2>4. QED
    BY <2>1, <2>2, <2>3 DEF ALO!Accept
<1>2. ASSUME pc = "publish", UNCHANGED db, stream' = Append(stream, rows[Oldest(batch)])
      PROVE  rows[Oldest(batch)] \in Orders /\ ALO!Perform(rows[Oldest(batch)])
  <2>1. Published' = Published \cup {rows[Oldest(batch)]}
    BY <1>2, XaddStep
  <2>2. Oldest(batch) \in outbox /\ Oldest(batch) \in DOMAIN rows
    BY <1>0, <1>2, HeadOfBatch DEF RelayPosition
  <2>3. rows[Oldest(batch)] \in owed /\ rows[Oldest(batch)] \in Orders
    BY <1>0, <2>2 DEF TypeOK
  <2>4. owed' = owed
    BY <1>2 DEF db
  <2>5. QED
    BY <2>1, <2>3, <2>4 DEF ALO!Perform
<1>3. ASSUME DeleteEntry
      PROVE  rows[Oldest(batch)] \in Orders /\ ALO!Settle(rows[Oldest(batch)])
  <2> USE <1>3 DEF DeleteEntry, delete_outbox_entry
  <2> DEFINE head == Oldest(batch)
  <2>1. rows[head] \in Published /\ batch # {}
    BY <1>0 DEF RelayPosition
  <2>2. head \in outbox /\ head \in DOMAIN rows
    BY <1>0, <2>1, HeadOfBatch
  <2>3. \A i \in outbox : rows[i] = rows[head] => i = head
    BY <1>0, <2>2 DEF Inv, OneRowPerOrder, TypeOK
  <2>4. owed' = owed \ {rows[head]}
    BY <2>2, <2>3
  <2>5. Published' = Published
    BY DEF Published
  <2>6. rows[head] \in owed /\ rows[head] \in Orders
    BY <1>0, <2>2 DEF TypeOK
  <2>7. QED
    BY <2>1, <2>4, <2>5, <2>6 DEF ALO!Settle
<1>4. ASSUME UNCHANGED <<rows, outbox, stream>>
      PROVE  UNCHANGED ALO!vars
  BY <1>4 DEF ALO!vars, Published
<1>5. CASE PublishRaises
  <2>1. CASE stream' = Append(stream, rows[Oldest(batch)])
    BY <1>2, <1>5, <2>1 DEF PublishRaises, publish, ALO!Next
  <2>2. CASE stream' = stream
    BY <1>4, <1>5, <2>2 DEF PublishRaises, db
  <2>3. QED
    BY <1>5, <2>1, <2>2 DEF PublishRaises, publish
<1>6. CASE PublishEntry
  BY <1>2, <1>6 DEF PublishEntry, publish, ALO!Next
<1>7. CASE PollOutbox \/ StopSeen \/ SleepEnds \/ Crash \/ SetStop \/ Restart \/ UNCHANGED vars
  BY <1>4, <1>7 DEF PollOutbox, StopSeen, SleepEnds, Crash, SetStop, Restart, vars, db
<1>8. CASE DeleteEntry
  <2>1. rows[Oldest(batch)] \in Orders /\ ALO!Settle(rows[Oldest(batch)])
    BY <1>3, <1>8
  <2>2. \E i \in Orders : ALO!Settle(i)
    BY <2>1 DEF ALO!Settle
  <2>3. QED
    BY <2>2 DEF ALO!Next
<1>9. CASE \E o \in Orders : insert_order_with_outbox(o)
  BY <1>1, <1>9 DEF ALO!Next
<1>10. CASE Next
  BY <1>5, <1>6, <1>7, <1>8, <1>9, <1>10, Zenon DEF Next, Relay
<1>11. QED
  BY <1>7, <1>10, Zenon

(* The outbox and its relay implement at-least-once delivery: they never drop *)
(* an order they accepted before its event is on the stream.                  *)
THEOREM Refinement == Spec => ImplementsAtLeastOnce
<1>1. Init => ALO!Init
  BY DEF Init, ALO!Init, Published
<1>2. Inv /\ Inv' /\ [Next]_vars => [ALO!Next]_ALO!vars
  BY StepRefines
<1>3. QED
  BY <1>1, <1>2, InvHolds, PTL DEF Spec, ALO!Spec, ImplementsAtLeastOnce

-----------------------------------------------------------------------------
(* EventSourcing.                                                           *)

(* What replay can make of an account: an aggregate with its version.            *)
Accounts == [balance : Int, version : Nat, created : BOOLEAN]

(* An entry appended by a writer that had not diverged is one the entries before  *)
(* it permit.                                                                *)
HistoryRight ==
  \A n \in DOMAIN log \ blind :
    /\ log[n] = Created <=> ~replay(log, n - 1).created
    /\ log[n].type = "MoneyWithdrawn" => replay(log, n).balance >= 0

(* What the commands let through.                                            *)
Permitted(acc, e) ==
  /\ e = Created <=> ~acc.created
  /\ e.type = "MoneyWithdrawn" => acc.balance + Delta(e) >= 0

(* An aggregate that has not diverged is the replay of the stream, and of the     *)
(* event it waits to append.                                                  *)
LiveIsReplay ==
  \A w \in Writers :
    /\ at[w] = "append" => event[w] \in Events
    /\ at[w] = "ready" /\ w \notin diverged => account[w] = replay(log, Len(log))
    /\ at[w] = "append" /\ w \notin diverged =>
         /\ account[w] = _apply(replay(log, Len(log)), event[w])
         /\ Permitted(replay(log, Len(log)), event[w])

(* Without a failed append, nobody holds an opened account unless its opening is    *)
(* on the stream, or about to be.                                             *)
Opened ==
  failures = 0 =>
    /\ log # <<>> => log[1] = Created
    /\ \A w \in Writers :
         /\ at[w] = "ready" /\ account[w].created => log # <<>>
         /\ at[w] = "append" => event[w] = Created \/ log # <<>>

(* The read model is the replay of what the projector has read.                *)
SummaryRight ==
  prj # "off" =>
    summary.version = lastId /\ summary.balance = replay(log, lastId).balance

EsInv == EsTypeOK /\ HistoryRight /\ LiveIsReplay /\ Opened /\ SummaryRight

(* An event changes the balance by an integer, and counts.                    *)
LEMMA ApplyTypes ==
  ASSUME NEW acc \in Accounts, NEW e \in Events
  PROVE  /\ Delta(e) \in Int /\ (e.type # "MoneyWithdrawn" => Delta(e) >= 0)
         /\ _apply(acc, e) \in Accounts
         /\ _apply(acc, e).balance = acc.balance + Delta(e)
         /\ _apply(acc, e).version = acc.version + 1
         /\ _apply(acc, e).created = (acc.created \/ e = Created)
<1>1. Delta(e) \in Int /\ (e.type # "MoneyWithdrawn" => Delta(e) >= 0)
  BY AmountAssumption DEF Events, Created, Deposited, Withdrawn, Delta
<1>2. (e.type = "AccountCreated") = (e = Created)
  BY DEF Events, Created, Deposited, Withdrawn
<1>3. QED
  BY <1>1, <1>2 DEF Accounts, _apply

(* The states of an account after each of the first n events of a history.     *)
IsReplay(history, n, after) ==
  after = [i \in 0..n |-> IF i = 0 THEN NewAccount ELSE _apply(after[i - 1], history[i])]

LEMMA ReplayAt ==
  ASSUME NEW history, NEW n \in Nat, NEW after, IsReplay(history, n, after)
  PROVE  /\ after[0] = NewAccount
         /\ \A i \in 1..n : after[i] = _apply(after[i - 1], history[i])
<1>1. after = [i \in 0..n |-> IF i = 0 THEN NewAccount ELSE _apply(after[i - 1], history[i])]
  BY DEF IsReplay
<1>2. 0 \in 0..n /\ \A i \in 1..n : i \in 0..n /\ i # 0
  OBVIOUS
<1> HIDE DEF NewAccount
<1> DEFINE rec(i) == IF i = 0 THEN NewAccount ELSE _apply(after[i - 1], history[i])
<1>3. \A i \in 0..n : after[i] = rec(i)
  <2>1. after = [i \in 0..n |-> rec(i)]
    BY <1>1
  <2> HIDE DEF rec
  <2>2. QED
    BY <2>1
<1>4. QED
  BY <1>2, <1>3

(* A history has such states, whatever its length.                            *)
LEMMA ReplayExists ==
  ASSUME NEW history
  PROVE  \A n \in Nat : \E after : IsReplay(history, n, after)
<1> DEFINE Bad == {n \in Nat : ~ \E after : IsReplay(history, n, after)}
<1>1. SUFFICES ASSUME Bad # {} PROVE FALSE
  OBVIOUS
<1> DEFINE m == Oldest(Bad)
<1>2. m \in Bad /\ \A j \in Bad : m =< j
  BY <1>1, OldestIsLeast
<1> HIDE DEF m
<1>3. CASE m = 0
  <2> DEFINE after == [i \in 0..0 |-> NewAccount]
  <2>1. IsReplay(history, 0, after)
    BY DEF IsReplay
  <2>2. QED
    BY <1>2, <1>3, <2>1
<1>4. CASE m # 0
  <2>1. m \in Nat /\ m - 1 \in Nat /\ m - 1 \notin Bad
    <3>1. m \in Nat /\ m - 1 \in Nat
      BY <1>2, <1>4
    <3>2. ~(m =< m - 1)
      BY <3>1
    <3>3. QED
      BY <1>2, <3>1, <3>2
  <2>2. PICK before : IsReplay(history, m - 1, before)
    BY <2>1
  <2> DEFINE after == [i \in 0..m |-> IF i = m THEN _apply(before[m - 1], history[m])
                                               ELSE before[i]]
  <2>3. /\ before[0] = NewAccount
        /\ \A i \in 1..(m - 1) : before[i] = _apply(before[i - 1], history[i])
    BY <2>1, <2>2, ReplayAt
  <2>4. ASSUME NEW i \in 0..m
        PROVE  after[i] = IF i = 0 THEN NewAccount ELSE _apply(after[i - 1], history[i])
    <3>1. CASE i = 0
      BY <3>1, <2>1, <2>3, <1>4
    <3>2. CASE i = m
      BY <3>2, <2>1, <1>4
    <3>3. CASE i # 0 /\ i # m
      <4>1. i \in 1..(m - 1) /\ i - 1 \in 0..m /\ i - 1 # m
        BY <3>3, <2>1
      <4>2. after[i] = before[i] /\ after[i - 1] = before[i - 1]
        BY <4>1, <3>3
      <4>3. QED
        BY <4>1, <4>2, <2>3, <3>3
    <3>4. QED
      BY <3>1, <3>2, <3>3
  <2>5. IsReplay(history, m, after)
    <3> DEFINE rec == [i \in 0..m |-> IF i = 0 THEN NewAccount
                                             ELSE _apply(after[i - 1], history[i])]
    <3>1. \A i \in 0..m : after[i] = rec[i]
      BY <2>4
    <3>2. after = rec
      BY <3>1
    <3>3. QED
      BY <3>2, Zenon DEF IsReplay
  <2>6. QED
    BY <1>2, <2>1, <2>5
<1>5. QED
  BY <1>3, <1>4

(* They depend on the events alone.                                          *)
LEMMA ReplayUnique ==
  ASSUME NEW g, NEW h, NEW n \in Nat, NEW m \in Nat, n =< m,
         \A i \in 1..n : g[i] = h[i],
         NEW a, NEW b, IsReplay(g, n, a), IsReplay(h, m, b)
  PROVE  \A i \in 0..n : a[i] = b[i]
<1> DEFINE Bad == {i \in 0..n : a[i] # b[i]}
<1>1. SUFFICES ASSUME Bad # {} PROVE FALSE
  OBVIOUS
<1> DEFINE k == Oldest(Bad)
<1>2. k \in Bad /\ \A j \in Bad : k =< j
  <2>1. Bad \in SUBSET Nat
    OBVIOUS
  <2>2. QED
    BY <1>1, <2>1, OldestIsLeast
<1> HIDE DEF k
<1>3. k # 0
  BY <1>2, ReplayAt
<1>4. k \in 1..n /\ k \in 1..m /\ k - 1 \in 0..n /\ k - 1 \notin Bad
  BY <1>2, <1>3
<1>5. a[k] = _apply(a[k - 1], g[k]) /\ b[k] = _apply(b[k - 1], h[k])
  BY <1>4, ReplayAt
<1>6. a[k - 1] = b[k - 1] /\ g[k] = h[k]
  BY <1>4
<1>7. QED
  BY <1>2, <1>5, <1>6

(* replay returns the last of them.                                          *)
LEMMA ReplayIs ==
  ASSUME NEW history, NEW n \in Nat
  PROVE  \E after : IsReplay(history, n, after) /\ replay(history, n) = after[n]
<1> DEFINE chosen == CHOOSE after : IsReplay(history, n, after)
<1>1. IsReplay(history, n, chosen)
  BY ReplayExists
<1>2. replay(history, n) = chosen[n]
  BY Zenon DEF replay, IsReplay
<1>3. QED
  BY <1>1, <1>2

(* Replay is the fold of _apply: of nothing, and of one event more.            *)
LEMMA ReplayFolds ==
  ASSUME NEW history
  PROVE  /\ replay(history, 0) = NewAccount
         /\ \A n \in Nat : replay(history, n + 1) = _apply(replay(history, n), history[n + 1])
<1>1. replay(history, 0) = NewAccount
  BY ReplayIs, ReplayAt
<1>2. ASSUME NEW n \in Nat
      PROVE  replay(history, n + 1) = _apply(replay(history, n), history[n + 1])
  <2>1. PICK a : IsReplay(history, n, a) /\ replay(history, n) = a[n]
    BY ReplayIs
  <2>2. n + 1 \in Nat /\ n =< n + 1 /\ n \in 0..n /\ n + 1 \in 1..(n + 1) /\ (n + 1) - 1 = n
    OBVIOUS
  <2>3. PICK b : IsReplay(history, n + 1, b) /\ replay(history, n + 1) = b[n + 1]
    BY <2>2, ReplayIs
  <2>4. a[n] = b[n]
    <3>1. \A i \in 0..n : a[i] = b[i]
      <4>1. \A h : (\A i \in 1..n : h[i] = history[i]) /\ IsReplay(h, n, a)
                    => \A i \in 0..n : a[i] = b[i]
        BY <2>2, <2>3, ReplayUnique
      <4>2. QED
        BY <2>1, <4>1
    <3>2. QED
      BY <2>2, <3>1
  <2>5. b[n + 1] = _apply(b[n], history[n + 1])
    BY <2>2, <2>3, ReplayAt
  <2>6. QED
    BY <2>1, <2>3, <2>4, <2>5
<1>3. QED
  BY <1>1, <1>2

(* What is appended to a history does not change the replay of what was there.  *)
LEMMA ReplayOfPrefix ==
  ASSUME NEW g, NEW h, NEW n \in Nat, \A i \in 1..n : g[i] = h[i]
  PROVE  replay(g, n) = replay(h, n)
<1>1. PICK a : IsReplay(g, n, a) /\ replay(g, n) = a[n]
  BY ReplayIs
<1>2. PICK b : IsReplay(h, n, b) /\ replay(h, n) = b[n]
  BY ReplayIs
<1>3. QED
  BY <1>1, <1>2, ReplayUnique

(* Every state of the fold is an account whose version counts its events.       *)
LEMMA ReplayTypes ==
  ASSUME NEW history, NEW n \in Nat, \A i \in 1..n : history[i] \in Events
  PROVE  replay(history, n) \in Accounts /\ replay(history, n).version = n
<1> DEFINE Right(i) == replay(history, i) \in Accounts /\ replay(history, i).version = i
           Bad == {i \in 0..n : ~Right(i)}
<1>1. SUFFICES ASSUME Bad # {} PROVE FALSE
  BY n \in 0..n
<1> DEFINE k == Oldest(Bad)
<1>2. k \in Bad /\ \A j \in Bad : k =< j
  <2>1. Bad \in SUBSET Nat
    OBVIOUS
  <2>2. QED
    BY <1>1, <2>1, OldestIsLeast
<1> HIDE DEF k
<1>3. k # 0
  <2>1. NewAccount \in Accounts /\ NewAccount.version = 0
    BY DEF NewAccount, Accounts
  <2>2. Right(0)
    BY <2>1, ReplayFolds
  <2>3. QED
    BY <1>2, <2>2
<1>4. k \in 1..n /\ k - 1 \in 0..n /\ k - 1 \in Nat /\ k - 1 \notin Bad /\ (k - 1) + 1 = k
  BY <1>2, <1>3
<1>5. replay(history, k) = _apply(replay(history, k - 1), history[k])
  BY <1>4, ReplayFolds
<1>6. Right(k)
  <2>1. replay(history, k - 1) \in Accounts /\ replay(history, k - 1).version = k - 1
    BY <1>4
  <2>2. history[k] \in Events
    BY <1>4
  <2>3. QED
    BY <1>4, <1>5, <2>1, <2>2, ApplyTypes
<1>7. QED
  BY <1>2, <1>6

-----------------------------------------------------------------------------
(* A stream that grows keeps the replay of all it held.                       *)
LEMMA LogGrows ==
  ASSUME log \in Seq(Events), NEW e \in Events, log' = Append(log, e)
  PROVE  /\ Len(log) \in Nat /\ DOMAIN log = 1..Len(log)
         /\ log' \in Seq(Events) /\ Len(log') = Len(log) + 1 /\ DOMAIN log' = 1..(Len(log) + 1)
         /\ log'[Len(log) + 1] = e /\ \A i \in 1..Len(log) : log'[i] = log[i]
         /\ \A n \in 0..Len(log) : replay(log', n) = replay(log, n)
         /\ replay(log', Len(log) + 1) = _apply(replay(log, Len(log)), e)
<1>1. Len(log) \in Nat /\ DOMAIN log = 1..Len(log)
  BY LenProperties
<1>2. /\ log' \in Seq(Events) /\ Len(log') = Len(log) + 1
      /\ log'[Len(log) + 1] = e /\ \A i \in 1..Len(log) : log'[i] = log[i]
  BY <1>1
<1>3. DOMAIN log' = 1..(Len(log) + 1)
  BY <1>2, LenProperties
<1>4. ASSUME NEW n \in 0..Len(log) PROVE replay(log', n) = replay(log, n)
  <2>1. n \in Nat /\ \A i \in 1..n : log'[i] = log[i]
    BY <1>1, <1>2
  <2>2. QED
    BY <2>1, ReplayOfPrefix
<1>5. replay(log', Len(log) + 1) = _apply(replay(log', Len(log)), log'[Len(log) + 1])
  BY <1>1, ReplayFolds
<1>6. QED
  BY <1>1, <1>2, <1>3, <1>4, <1>5

(* The aggregate of any prefix of the stream is typed.                         *)
LEMMA LogReplayTypes ==
  ASSUME log \in Seq(Events), NEW n \in 0..Len(log)
  PROVE  replay(log, n) \in Accounts /\ replay(log, n).version = n
<1>1. Len(log) \in Nat /\ \A i \in 1..Len(log) : log[i] \in Events
  BY LenProperties
<1>2. n \in Nat /\ \A i \in 1..n : log[i] \in Events
  BY <1>1
<1>3. QED
  BY <1>2, ReplayTypes

(* A page is the run of entries that follows the cursor.                       *)
LEMMA PageIsRun ==
  ASSUME log \in Seq(Events), NEW after \in 0..Len(log)
  PROVE  LET upto == IF read(after) = {} THEN after ELSE Newest(read(after))
         IN /\ upto \in after..Len(log)
            /\ Cardinality(read(after)) = upto - after
            /\ upto = after => after = Len(log)
<1> DEFINE end == Len(log)
           page == read(after)
           upto == IF page = {} THEN after ELSE Newest(page)
<1>1. end \in Nat /\ DOMAIN log = 1..end /\ after \in Nat /\ after =< end
  <2>1. end \in Nat /\ DOMAIN log = 1..end
    BY LenProperties
  <2>2. QED
    BY <2>1
<1>2. {i \in DOMAIN log : after < i} = (after + 1)..end
  BY <1>1
<1>3. page = FirstN((after + 1)..end, PageSize)
  BY <1>2 DEF read
<1>4. SUFFICES /\ upto \in after..end /\ Cardinality(page) = upto - after
               /\ upto = after => after = end
  OBVIOUS
<1> HIDE DEF page, end
<1>5. CASE page = {}
  <2>1. (after + 1)..end = {}
    <3>1. SUFFICES ASSUME (after + 1)..end # {} PROVE FALSE
      OBVIOUS
    <3>2. (after + 1)..end \in SUBSET Nat
      BY <1>1
    <3>3. Oldest((after + 1)..end) \in page
      BY <1>3, <3>1, <3>2, PageAssumption, FirstNTakesOldest
    <3>4. QED
      BY <1>5, <3>3
  <2>2. after = end
    <3>1. SUFFICES ASSUME after # end PROVE FALSE
      OBVIOUS
    <3>2. end \in (after + 1)..end
      BY <1>1, <3>1
    <3>3. QED
      BY <2>1, <3>2
  <2>3. Cardinality(page) = 0
    BY <1>5, FS_EmptySet, Zenon
  <2>4. QED
    BY <1>1, <1>5, <2>2, <2>3
<1>6. CASE page # {}
  <2>1. /\ Newest(page) \in (after + 1)..end
        /\ page = (after + 1)..Newest(page)
    <3>1. PageSize \in Nat
      BY PageAssumption
    <3>2. QED
      BY <1>1, <1>3, <1>6, <3>1, FirstNOfRun
  <2>2. Cardinality(page) = Newest(page) - after
    <3>1. Newest(page) \in Int /\ after + 1 \in Int /\ Newest(page) > after
      BY <1>1, <2>1
    <3>2. Cardinality((after + 1)..Newest(page)) = Newest(page) - (after + 1) + 1
      BY <3>1, FS_Interval
    <3>3. Cardinality(page) = Cardinality((after + 1)..Newest(page))
      BY <2>1, Zenon
    <3>4. QED
      BY <1>1, <3>1, <3>2, <3>3
  <2>3. upto = Newest(page)
    BY <1>6
  <2>4. Newest(page) \in after..end /\ Newest(page) # after
    BY <1>1, <2>1
  <2>5. QED
    BY <2>2, <2>3, <2>4
<1>7. QED
  BY <1>5, <1>6

-----------------------------------------------------------------------------
LEMMA EsInitInv == EsInit => EsInv
<1> SUFFICES ASSUME EsInit PROVE EsInv
  OBVIOUS
<1>1. log = <<>> /\ log \in Seq(Events) /\ Len(log) = 0 /\ DOMAIN log = {}
  BY DEF EsInit
<1>2. EsTypeOK
  <2>1. NewAccount \in [balance : Int, version : Nat, created : BOOLEAN]
    BY DEF NewAccount
  <2>2. NewSummary \in [balance : Int, version : Nat]
    BY DEF NewSummary
  <2>3. QED
    BY <1>1, <2>1, <2>2, EventBoundAssumption DEF EsInit, EsTypeOK
<1>3. HistoryRight /\ LiveIsReplay /\ Opened /\ SummaryRight
  BY <1>1 DEF EsInit, HistoryRight, LiveIsReplay, Opened, SummaryRight
<1>4. QED
  BY <1>2, <1>3 DEF EsInv

(* Steps that leave the stream alone keep what is said of it.                  *)
LEMMA HistoryKept ==
  ASSUME HistoryRight, UNCHANGED <<log, blind>>
  PROVE  HistoryRight'
BY DEF HistoryRight

(* A writer that loads the whole stream has its replay; what it loads of an       *)
(* empty stream is not opened.                                                *)
LEMMA LoadStep ==
  ASSUME EsInv, NEW w \in Writers, Load(w)
  PROVE  EsInv'
<1> DEFINE n == Cardinality(read(0))
<1>1. log \in Seq(Events) /\ Len(log) \in Nat
  BY LenProperties DEF EsInv, EsTypeOK
<1>2. n \in 0..Len(log)
  <2>1. 0 \in 0..Len(log)
    BY <1>1
  <2>2. QED
    BY <1>1, <2>1, PageIsRun
<1>3. replay(log, n) \in Accounts /\ replay(log, n).version = n
  BY <1>1, <1>2, LogReplayTypes
<1> HIDE DEF n
<1>4. /\ account' = [account EXCEPT ![w] = replay(log, n)] /\ at' = [at EXCEPT ![w] = "ready"]
      /\ diverged' = IF n = Len(log) THEN diverged ELSE diverged \cup {w}
      /\ UNCHANGED <<log, event, projector, blind, failures>>
  BY DEF Load, n
<1>5. EsTypeOK'
  BY <1>3, <1>4 DEF EsInv, EsTypeOK, Accounts, projector
<1>6. at'[w] = "ready" /\ account'[w] = replay(log, n)
  BY <1>4 DEF EsInv, EsTypeOK
<1>7. ASSUME NEW v \in Writers, v # w
      PROVE  /\ at'[v] = at[v] /\ account'[v] = account[v] /\ event'[v] = event[v]
             /\ v \in diverged' <=> v \in diverged
  BY <1>4, <1>7 DEF EsInv, EsTypeOK
<1>8. LiveIsReplay'
  <2>1. w \notin diverged' => account'[w] = replay(log, Len(log))
    BY <1>4, <1>6
  <2>2. QED
    BY <1>4, <1>6, <1>7, <2>1 DEF EsInv, LiveIsReplay
<1>9. Opened'
  <2>1. log = <<>> => ~replay(log, n).created
    <3>1. ASSUME log = <<>> PROVE n = 0
      BY <1>2, <3>1
    <3>2. replay(log, 0).created = FALSE
      BY ReplayFolds DEF NewAccount
    <3>3. QED
      BY <3>1, <3>2
  <2>2. QED
    BY <1>4, <1>6, <1>7, <2>1 DEF EsInv, Opened
<1>10. HistoryRight' /\ SummaryRight'
  BY <1>4, HistoryKept DEF EsInv, SummaryRight, projector
<1>11. QED
  BY <1>5, <1>8, <1>9, <1>10 DEF EsInv

(* A command that its checks let through is permitted by the whole history, if   *)
(* the aggregate is the replay of it.                                         *)
LEMMA ProduceStep ==
  ASSUME EsInv, NEW w \in Writers, NEW e \in Events, at[w] = "ready",
         Permitted(account[w], e), Produce(w, e)
  PROVE  EsInv'
<1>1. account[w] \in Accounts
  BY DEF EsInv, EsTypeOK, Accounts
<1>2. _apply(account[w], e) \in Accounts
  BY <1>1, ApplyTypes
<1>3. /\ account' = [account EXCEPT ![w] = _apply(account[w], e)]
      /\ event' = [event EXCEPT ![w] = e] /\ at' = [at EXCEPT ![w] = "append"]
      /\ UNCHANGED <<log, projector, diverged, blind, failures>>
  BY DEF Produce
<1>4. EsTypeOK'
  BY <1>2, <1>3 DEF EsInv, EsTypeOK, Accounts, projector
<1>5. at'[w] = "append" /\ account'[w] = _apply(account[w], e) /\ event'[w] = e
  BY <1>3 DEF EsInv, EsTypeOK
<1>6. ASSUME NEW v \in Writers, v # w
      PROVE  at'[v] = at[v] /\ account'[v] = account[v] /\ event'[v] = event[v]
  BY <1>3, <1>6 DEF EsInv, EsTypeOK
<1>7. LiveIsReplay'
  <2>1. w \notin diverged => account[w] = replay(log, Len(log))
    BY DEF EsInv, LiveIsReplay
  <2>2. ASSUME w \notin diverged
        PROVE  /\ account'[w] = _apply(replay(log, Len(log)), event'[w])
               /\ Permitted(replay(log, Len(log)), event'[w])
    BY <1>5, <2>1, <2>2
  <2> HIDE DEF Permitted
  <2>3. QED
    BY <1>3, <1>5, <1>6, <2>2 DEF EsInv, LiveIsReplay
<1>8. Opened'
  <2>1. e = Created \/ account[w].created
    BY DEF Permitted
  <2>2. failures = 0 /\ account[w].created => log # <<>>
    BY DEF EsInv, Opened
  <2>3. QED
    BY <1>3, <1>5, <1>6, <2>1, <2>2 DEF EsInv, Opened
<1>9. HistoryRight' /\ SummaryRight'
  BY <1>3, HistoryKept DEF EsInv, SummaryRight, projector
<1>10. QED
  BY <1>4, <1>7, <1>8, <1>9 DEF EsInv

LEMMA CommandStep ==
  ASSUME EsInv, NEW w \in Writers,
         \/ create(w)
         \/ \E a \in Amounts : deposit(w, a) \/ withdraw(w, a)
  PROVE  EsInv'
<1>1. account[w] \in Accounts
  BY DEF EsInv, EsTypeOK, Accounts
<1>2. CASE create(w)
  <2>1. Created \in Events /\ Permitted(account[w], Created)
    BY <1>1, <1>2 DEF create, Events, Permitted, Created, Accounts
  <2>2. QED
    BY <1>2, <2>1, ProduceStep DEF create
<1>3. ASSUME NEW a \in Amounts, deposit(w, a) PROVE EsInv'
  <2>1. Deposited(a) \in Events /\ Permitted(account[w], Deposited(a))
    BY <1>1, <1>3 DEF deposit, Events, Permitted, Created, Deposited, Accounts
  <2>2. QED
    BY <1>3, <2>1, ProduceStep DEF deposit
<1>4. ASSUME NEW a \in Amounts, withdraw(w, a) PROVE EsInv'
  <2>1. a \in Nat /\ account[w].balance \in Int /\ Delta(Withdrawn(a)) = -a
    BY <1>1, AmountAssumption DEF Accounts, Delta, Withdrawn
  <2>2. account[w].balance + (-a) >= 0
    BY <1>4, <2>1 DEF withdraw
  <2>3. Withdrawn(a) \in Events /\ Permitted(account[w], Withdrawn(a))
    BY <1>1, <1>4, <2>1, <2>2 DEF withdraw, Events, Permitted, Created, Withdrawn, Accounts
  <2>4. QED
    BY <1>4, <2>3, ProduceStep DEF withdraw
<1>5. QED
  BY <1>2, <1>3, <1>4

(* An XADD: the entry of a writer that has not diverged is permitted by all that  *)
(* is before it.                                                              *)
LEMMA AppendHistory ==
  ASSUME EsInv, NEW w \in Writers, at[w] = "append", AddToLog(w)
  PROVE  HistoryRight'
<1> DEFINE end == Len(log)
           e == event[w]
<1>1. log \in Seq(Events) /\ e \in Events
  BY DEF EsInv, EsTypeOK, LiveIsReplay
<1>2. log' = Append(log, e) /\ blind' = IF w \in diverged THEN blind \cup {end + 1} ELSE blind
  BY DEF AddToLog
<1>3. /\ end \in Nat /\ DOMAIN log = 1..end /\ DOMAIN log' = 1..(end + 1)
      /\ log'[end + 1] = e /\ \A i \in 1..end : log'[i] = log[i]
      /\ \A n \in 0..end : replay(log', n) = replay(log, n)
      /\ replay(log', end + 1) = _apply(replay(log, end), e)
  BY <1>1, <1>2, LogGrows
<1>4. ASSUME NEW n \in DOMAIN log', n \notin blind'
      PROVE  /\ log'[n] = Created <=> ~replay(log', n - 1).created
             /\ log'[n].type = "MoneyWithdrawn" => replay(log', n).balance >= 0
  <2>1. CASE n \in 1..end
    <3>1. n \in DOMAIN log /\ n \notin blind
      BY <1>2, <1>3, <1>4, <2>1
    <3>2. n \in 0..end /\ n - 1 \in 0..end
      BY <1>3, <2>1
    <3>3. /\ log'[n] = log[n] /\ replay(log', n) = replay(log, n)
          /\ replay(log', n - 1) = replay(log, n - 1)
      BY <1>3, <2>1, <3>2
    <3>4. /\ log[n] = Created <=> ~replay(log, n - 1).created
          /\ log[n].type = "MoneyWithdrawn" => replay(log, n).balance >= 0
      BY <3>1 DEF EsInv, HistoryRight
    <3>5. QED
      BY <3>3, <3>4
  <2>2. CASE n = end + 1
    <3>1. w \notin diverged
      BY <1>2, <1>4, <2>2
    <3>2. Permitted(replay(log, end), e)
      BY <3>1 DEF EsInv, LiveIsReplay
    <3>3. end \in 0..end /\ n - 1 = end
      BY <1>3, <2>2
    <3>4. replay(log, end) \in Accounts
      BY <1>1, <3>3, LogReplayTypes
    <3>5. _apply(replay(log, end), e).balance = replay(log, end).balance + Delta(e)
      BY <1>1, <3>4, ApplyTypes
    <3>6. replay(log', n - 1) = replay(log, end)
      BY <1>3, <3>3
    <3>7. replay(log', n) = _apply(replay(log, end), e) /\ log'[n] = e
      BY <1>3, <2>2
    <3>8. /\ e = Created <=> ~replay(log, end).created
          /\ e.type = "MoneyWithdrawn" => replay(log, end).balance + Delta(e) >= 0
      BY <3>2 DEF Permitted
    <3>9. QED
      BY <3>5, <3>6, <3>7, <3>8
  <2>3. QED
    BY <1>3, <1>4, <2>1, <2>2
<1>5. QED
  BY <1>4 DEF HistoryRight

(* The writer keeps its aggregate; all others loaded have missed the entry.      *)
LEMMA AppendLive ==
  ASSUME EsInv, NEW w \in Writers, at[w] = "append", AddToLog(w),
         at' = [at EXCEPT ![w] = "ready"], account' = account,
         event' = [event EXCEPT ![w] = NoEvent], failures' >= failures
  PROVE  LiveIsReplay' /\ Opened'
<1> DEFINE end == Len(log)
           e == event[w]
<1>1. log \in Seq(Events) /\ e \in Events
  BY DEF EsInv, EsTypeOK, LiveIsReplay
<1>2. /\ log' = Append(log, e)
      /\ diverged' = diverged \cup {v \in Writers \ {w} : at[v] # "out"}
  BY DEF AddToLog
<1>3. /\ end \in Nat /\ Len(log') = end + 1 /\ log'[end + 1] = e
      /\ \A i \in 1..end : log'[i] = log[i]
      /\ replay(log', end + 1) = _apply(replay(log, end), e)
  BY <1>1, <1>2, LogGrows
<1>4. at'[w] = "ready" /\ account'[w] = account[w] /\ (w \in diverged' <=> w \in diverged)
  BY <1>2 DEF EsInv, EsTypeOK
<1>5. ASSUME NEW v \in Writers, v # w
      PROVE  /\ at'[v] = at[v] /\ account'[v] = account[v] /\ event'[v] = event[v]
             /\ at'[v] # "out" => v \in diverged'
  BY <1>2, <1>5 DEF EsInv, EsTypeOK
<1>6. LiveIsReplay'
  <2>1. w \notin diverged => account[w] = _apply(replay(log, end), e)
    BY DEF EsInv, LiveIsReplay
  <2>2. w \notin diverged' => account'[w] = replay(log', Len(log'))
    BY <1>3, <1>4, <2>1
  <2>3. \A v \in Writers : at[v] = "append" => event[v] \in Events
    BY DEF EsInv, LiveIsReplay
  <2>4. QED
    BY <1>4, <1>5, <2>2, <2>3 DEF LiveIsReplay
<1>7. Opened'
  <2>1. failures' = 0 => failures = 0
    BY EventBoundAssumption DEF EsInv, EsTypeOK
  <2>2. log' # <<>>
    BY <1>1, <1>2
  <2>3. ASSUME failures = 0 PROVE log'[1] = Created
    <3>1. CASE log = <<>>
      <4>1. end = 0 /\ e = Created
        BY <2>3, <3>1 DEF EsInv, Opened
      <4>2. QED
        BY <1>3, <4>1
    <3>2. CASE log # <<>>
      <4>1. 1 \in 1..end
        BY <1>1, <1>3, <3>2, EmptySeq
      <4>2. QED
        BY <1>3, <2>3, <3>2, <4>1 DEF EsInv, Opened
    <3>3. QED
      BY <3>1, <3>2
  <2>4. QED
    BY <2>1, <2>2, <2>3 DEF Opened
<1>8. QED
  BY <1>6, <1>7

LEMMA AppendKeeps ==
  ASSUME EsInv, NEW w \in Writers, at[w] = "append", AddToLog(w), UNCHANGED projector
  PROVE  /\ log' \in Seq(Events) /\ lastId' \in 0..Len(log')
         /\ diverged' \subseteq Writers /\ blind' \subseteq DOMAIN log'
         /\ SummaryRight'
<1>1. log \in Seq(Events) /\ event[w] \in Events /\ log' = Append(log, event[w])
  BY DEF EsInv, EsTypeOK, LiveIsReplay, AddToLog
<1>2. /\ Len(log) \in Nat /\ DOMAIN log = 1..Len(log)
      /\ log' \in Seq(Events) /\ Len(log') = Len(log) + 1 /\ DOMAIN log' = 1..(Len(log) + 1)
      /\ \A n \in 0..Len(log) : replay(log', n) = replay(log, n)
  BY <1>1, LogGrows
<1>3. lastId \in 0..Len(log) /\ diverged \subseteq Writers /\ blind \subseteq DOMAIN log
  BY DEF EsInv, EsTypeOK
<1>4. lastId' = lastId /\ prj' = prj /\ summary' = summary
  BY DEF projector
<1>5. lastId' \in 0..Len(log')
  BY <1>2, <1>3, <1>4
<1>6. diverged' \subseteq Writers /\ blind' \subseteq DOMAIN log'
  BY <1>2, <1>3 DEF AddToLog
<1>7. replay(log', lastId) = replay(log, lastId)
  BY <1>2, <1>3
<1>8. QED
  BY <1>2, <1>4, <1>5, <1>6, <1>7 DEF EsInv, SummaryRight

LEMMA AppendStep ==
  ASSUME EsInv, NEW w \in Writers, append(w)
  PROVE  EsInv'
<1>1. /\ at[w] = "append" /\ AddToLog(w) /\ at' = [at EXCEPT ![w] = "ready"]
      /\ event' = [event EXCEPT ![w] = NoEvent]
      /\ account' = account /\ UNCHANGED projector /\ failures' = failures
  BY DEF append
<1>2. /\ log' \in Seq(Events) /\ lastId' \in 0..Len(log')
      /\ diverged' \subseteq Writers /\ blind' \subseteq DOMAIN log'
      /\ SummaryRight'
  BY <1>1, AppendKeeps
<1>3. EsTypeOK'
  BY <1>1, <1>2 DEF EsInv, EsTypeOK, projector
<1>4. failures' >= failures
  BY <1>1, EventBoundAssumption DEF EsInv, EsTypeOK
<1>5. HistoryRight' /\ LiveIsReplay' /\ Opened'
  BY <1>1, <1>4, AppendHistory, AppendLive
<1>6. QED
  BY <1>2, <1>3, <1>5 DEF EsInv

(* The XADD that raised was applied, as any other; or it was not, and the         *)
(* aggregate is ahead of the stream.                                          *)
LEMMA AppendRaisesStep ==
  ASSUME EsInv, NEW w \in Writers, AppendRaises(w)
  PROVE  EsInv'
<1>1. /\ at[w] = "append" /\ at' = [at EXCEPT ![w] = "ready"]
      /\ event' = [event EXCEPT ![w] = NoEvent] /\ account' = account
      /\ UNCHANGED projector
  BY DEF AppendRaises
<1>2. failures' \in 0..MaxFailures /\ failures' >= failures /\ failures' # 0
  BY EventBoundAssumption DEF AppendRaises, EsInv, EsTypeOK
<1>3. CASE AddToLog(w)
  <2>1. /\ log' \in Seq(Events) /\ lastId' \in 0..Len(log')
        /\ diverged' \subseteq Writers /\ blind' \subseteq DOMAIN log'
        /\ SummaryRight'
    BY <1>1, <1>3, AppendKeeps
  <2>2. EsTypeOK'
    BY <1>1, <1>2, <2>1 DEF EsInv, EsTypeOK, projector
  <2>3. HistoryRight' /\ LiveIsReplay' /\ Opened'
    BY <1>1, <1>2, <1>3, AppendHistory, AppendLive
  <2>4. QED
    BY <2>1, <2>2, <2>3 DEF EsInv
<1>4. CASE diverged' = diverged \cup {w} /\ UNCHANGED <<log, blind>>
  <2>1. EsTypeOK'
    BY <1>1, <1>2, <1>4 DEF EsInv, EsTypeOK, projector
  <2>2. ASSUME NEW v \in Writers, v # w
        PROVE  at'[v] = at[v] /\ event'[v] = event[v] /\ (v \in diverged' <=> v \in diverged)
    BY <1>1, <1>4, <2>2 DEF EsInv, EsTypeOK
  <2>3. at'[w] = "ready" /\ w \in diverged'
    BY <1>1, <1>4 DEF EsInv, EsTypeOK
  <2>4. LiveIsReplay'
    BY <1>1, <1>4, <2>2, <2>3 DEF EsInv, LiveIsReplay
  <2>5. Opened'
    BY <1>2 DEF Opened
  <2>6. HistoryRight' /\ SummaryRight'
    BY <1>1, <1>4, HistoryKept DEF EsInv, SummaryRight, projector
  <2>7. QED
    BY <2>1, <2>4, <2>5, <2>6 DEF EsInv
<1>5. QED
  BY <1>3, <1>4 DEF AppendRaises

LEMMA LeaveStep ==
  ASSUME EsInv, NEW w \in Writers, Leave(w)
  PROVE  EsInv'
<1>1. /\ at' = [at EXCEPT ![w] = "out"] /\ account' = [account EXCEPT ![w] = NewAccount]
      /\ diverged' = diverged \ {w} /\ UNCHANGED <<log, event, projector, blind, failures>>
  BY DEF Leave
<1>2. NewAccount \in Accounts
  BY DEF NewAccount, Accounts
<1>3. EsTypeOK'
  BY <1>1, <1>2 DEF EsInv, EsTypeOK, projector, Accounts
<1>4. ASSUME NEW v \in Writers, at'[v] # "out"
      PROVE  /\ at'[v] = at[v] /\ account'[v] = account[v] /\ event'[v] = event[v]
             /\ v \in diverged' <=> v \in diverged
  BY <1>1, <1>4 DEF EsInv, EsTypeOK
<1>5. LiveIsReplay' /\ Opened'
  BY <1>1, <1>4 DEF EsInv, LiveIsReplay, Opened
<1>6. HistoryRight' /\ SummaryRight'
  BY <1>1, HistoryKept DEF EsInv, SummaryRight, projector
<1>7. QED
  BY <1>3, <1>5, <1>6 DEF EsInv

-----------------------------------------------------------------------------
(* AccountSummary.apply folds a page into the balance: the running totals.      *)
IsTotal(from, upto, total) ==
  total = [i \in from..upto |-> IF i = from THEN summary.balance
                                            ELSE total[i - 1] + Delta(log[i])]

LEMMA TotalAt ==
  ASSUME NEW from \in Nat, NEW upto \in Nat, from =< upto, NEW total,
         IsTotal(from, upto, total)
  PROVE  /\ total[from] = summary.balance
         /\ \A i \in (from + 1)..upto : total[i] = total[i - 1] + Delta(log[i])
<1> DEFINE rec(i) == IF i = from THEN summary.balance ELSE total[i - 1] + Delta(log[i])
<1>1. \A i \in from..upto : total[i] = rec(i)
  <2>1. total = [i \in from..upto |-> rec(i)]
    BY DEF IsTotal
  <2> HIDE DEF rec
  <2>2. QED
    BY <2>1
<1>2. from \in from..upto
  OBVIOUS
<1>3. \A i \in (from + 1)..upto : i \in from..upto /\ i # from
  OBVIOUS
<1>4. QED
  BY <1>1, <1>2, <1>3

(* If the balance was the replay of what had been read, the totals are the        *)
(* replays of the page's entries.                                             *)
LEMMA TotalsAreReplays ==
  ASSUME log \in Seq(Events), NEW from \in Nat, NEW upto \in from..Len(log),
         summary.balance = replay(log, from).balance
  PROVE  (CHOOSE total : IsTotal(from, upto, total))[upto] = replay(log, upto).balance
<1> DEFINE bal(i) == replay(log, i).balance
<1>1. Len(log) \in Nat /\ upto \in Nat /\ from =< upto /\ upto =< Len(log)
  <2>1. Len(log) \in Nat
    BY LenProperties
  <2>2. QED
    BY <2>1
<1>2. ASSUME NEW i \in (from + 1)..upto
      PROVE  bal(i) = bal(i - 1) + Delta(log[i])
  <2>1. i \in Nat /\ i - 1 \in Nat /\ (i - 1) + 1 = i /\ i \in 1..Len(log)
        /\ i - 1 \in 0..Len(log)
    BY <1>1
  <2>2. log[i] \in Events /\ replay(log, i - 1) \in Accounts
    BY <2>1, LogReplayTypes, LenProperties
  <2>3. replay(log, i) = _apply(replay(log, i - 1), log[i])
    BY <2>1, ReplayFolds
  <2>4. _apply(replay(log, i - 1), log[i]).balance
          = replay(log, i - 1).balance + Delta(log[i])
    BY <2>2, ApplyTypes
  <2>5. QED
    BY <2>3, <2>4, Zenon
<1> HIDE DEF bal
<1>3. bal(from) = summary.balance
  BY DEF bal
<1>4. IsTotal(from, upto, [i \in from..upto |-> bal(i)])
  <2> DEFINE t == [i \in from..upto |-> bal(i)]
             rec == [i \in from..upto |-> IF i = from THEN summary.balance
                                                      ELSE t[i - 1] + Delta(log[i])]
  <2>1. ASSUME NEW i \in from..upto PROVE t[i] = rec[i]
    <3>1. CASE i = from
      BY <3>1, <1>3
    <3>2. CASE i # from
      <4>1. i \in (from + 1)..upto /\ i - 1 \in from..upto
        BY <1>1, <3>2
      <4>2. QED
        BY <1>2, <3>2, <4>1
    <3>3. QED
      BY <3>1, <3>2
  <2>2. t = rec
    BY <2>1
  <2>3. QED
    BY <2>2, Zenon DEF IsTotal
<1> DEFINE total == CHOOSE total : IsTotal(from, upto, total)
<1>5. IsTotal(from, upto, total)
  BY <1>4
<1> HIDE DEF total
<1>6. /\ total[from] = bal(from)
      /\ \A i \in (from + 1)..upto : total[i] = total[i - 1] + Delta(log[i])
  BY <1>1, <1>3, <1>5, TotalAt
<1> DEFINE Bad == {i \in from..upto : total[i] # bal(i)}
<1>7. Bad = {}
  <2>1. SUFFICES ASSUME Bad # {} PROVE FALSE
    OBVIOUS
  <2> DEFINE k == Oldest(Bad)
  <2>2. k \in Bad /\ \A j \in Bad : k =< j
    <3>1. Bad \in SUBSET Nat
      BY <1>1
    <3>2. QED
      BY <2>1, <3>1, OldestIsLeast
  <2> HIDE DEF k
  <2>3. k \in (from + 1)..upto /\ k - 1 \in from..upto /\ k - 1 \notin Bad
    BY <1>1, <1>6, <2>2
  <2>4. total[k] = total[k - 1] + Delta(log[k]) /\ bal(k) = bal(k - 1) + Delta(log[k])
    BY <1>2, <1>6, <2>3
  <2>5. total[k - 1] = bal(k - 1)
    BY <2>3
  <2>6. QED
    BY <2>2, <2>4, <2>5
<1>8. total[upto] = bal(upto)
  BY <1>1, <1>7
<1>9. QED
  BY <1>8 DEF total, bal

LEMMA ProjectStep ==
  ASSUME EsInv, Project
  PROVE  EsInv'
<1> DEFINE page == read(lastId)
           upto == IF page = {} THEN lastId ELSE Newest(page)
           total == CHOOSE total : IsTotal(lastId, upto, total)
<1>1. /\ log \in Seq(Events) /\ lastId \in 0..Len(log) /\ prj = "read" /\ lastId \in Nat
      /\ summary \in [balance : Int, version : Nat]
      /\ summary.version = lastId /\ summary.balance = replay(log, lastId).balance
  <2>1. log \in Seq(Events) /\ lastId \in 0..Len(log) /\ prj = "read"
        /\ summary \in [balance : Int, version : Nat]
    BY DEF Project, EsInv, EsTypeOK
  <2>2. QED
    BY <2>1, LenProperties DEF EsInv, SummaryRight
<1>2. upto \in lastId..Len(log) /\ Cardinality(page) = upto - lastId
  BY <1>1, PageIsRun
<1>3. total[upto] = replay(log, upto).balance
  BY <1>1, <1>2, TotalsAreReplays
<1>4. /\ summary' = [balance |-> total[upto], version |-> summary.version + Cardinality(page)]
      /\ lastId' = upto
  BY Zenon DEF Project, apply, IsTotal
<1> HIDE DEF page, total, upto
<1>5. /\ UNCHANGED <<log, writer, expected, diverged, blind, failures>>
      /\ prj' \in {"done", "sleep"}
  BY DEF Project
<1>6. Len(log) \in Nat /\ upto \in Nat /\ upto \in 0..Len(log)
  <2>1. Len(log) \in Nat
    BY <1>1, LenProperties
  <2>2. QED
    BY <1>1, <1>2, <2>1
<1>7. replay(log, upto).balance \in Int
  BY <1>1, <1>6, LogReplayTypes DEF Accounts
<1>8. summary' = [balance |-> replay(log, upto).balance, version |-> upto]
  <2>1. summary.version + Cardinality(page) = upto
    BY <1>1, <1>2, <1>6
  <2>2. QED
    BY <1>3, <1>4, <2>1
<1>9. EsTypeOK'
  BY <1>4, <1>5, <1>6, <1>7, <1>8 DEF EsInv, EsTypeOK, writer
<1>10. SummaryRight'
  BY <1>4, <1>5, <1>8 DEF SummaryRight
<1>11. HistoryRight' /\ LiveIsReplay' /\ Opened'
  BY <1>5, HistoryKept DEF EsInv, LiveIsReplay, Opened, writer
<1>12. QED
  BY <1>9, <1>10, <1>11 DEF EsInv

LEMMA StartProjectStep ==
  ASSUME EsInv, NEW w \in Writers, StartProject(w)
  PROVE  EsInv'
<1>1. /\ prj' = "read" /\ summary' = NewSummary /\ lastId' = 0 /\ expected' = account[w].version
      /\ UNCHANGED <<log, writer, diverged, blind, failures>>
  BY DEF StartProject
<1>2. log \in Seq(Events) /\ Len(log) \in Nat /\ account[w].version \in Nat
  BY LenProperties DEF EsInv, EsTypeOK
<1>3. EsTypeOK'
  BY <1>1, <1>2 DEF EsInv, EsTypeOK, writer, NewSummary
<1>4. SummaryRight'
  BY <1>1, ReplayFolds DEF SummaryRight, NewSummary, NewAccount
<1>5. HistoryRight' /\ LiveIsReplay' /\ Opened'
  BY <1>1, HistoryKept DEF EsInv, LiveIsReplay, Opened, writer
<1>6. QED
  BY <1>3, <1>4, <1>5 DEF EsInv

LEMMA WaitStep ==
  ASSUME EsInv, ProjectorWakes \/ ProjectorStops
  PROVE  EsInv'
<1>1. /\ prj # "off" /\ prj' \in {"read", "done"}
      /\ UNCHANGED <<log, writer, summary, lastId, expected, diverged, blind, failures>>
  BY DEF ProjectorWakes, ProjectorStops
<1>2. EsTypeOK' /\ SummaryRight'
  BY <1>1 DEF EsInv, EsTypeOK, SummaryRight, writer
<1>3. HistoryRight' /\ LiveIsReplay' /\ Opened'
  BY <1>1, HistoryKept DEF EsInv, LiveIsReplay, Opened, writer
<1>4. QED
  BY <1>2, <1>3 DEF EsInv

-----------------------------------------------------------------------------
LEMMA EsInvHolds == EsSpec => []EsInv
<1>1. EsInv /\ [EsNext]_esVars => EsInv'
  <2> SUFFICES ASSUME EsInv, [EsNext]_esVars PROVE EsInv'
    OBVIOUS
  <2>1. ASSUME NEW w \in Writers, Load(w) PROVE EsInv'
    BY <2>1, LoadStep
  <2>2. ASSUME NEW w \in Writers,
               create(w) \/ \E a \in Amounts : deposit(w, a) \/ withdraw(w, a)
        PROVE  EsInv'
    BY <2>2, CommandStep
  <2>3. ASSUME NEW w \in Writers, append(w) PROVE EsInv'
    BY <2>3, AppendStep
  <2>4. ASSUME NEW w \in Writers, AppendRaises(w) PROVE EsInv'
    BY <2>4, AppendRaisesStep
  <2>5. ASSUME NEW w \in Writers, Leave(w) PROVE EsInv'
    BY <2>5, LeaveStep
  <2>6. ASSUME NEW w \in Writers, StartProject(w) PROVE EsInv'
    BY <2>6, StartProjectStep
  <2>7. CASE Project
    BY <2>7, ProjectStep
  <2>8. CASE ProjectorWakes \/ ProjectorStops
    BY <2>8, WaitStep
  <2>9. CASE UNCHANGED esVars
    BY <2>9, HistoryKept DEF esVars, projector, writer, EsInv, EsTypeOK, LiveIsReplay, Opened, SummaryRight
  <2>10. QED
    BY <2>1, <2>2, <2>3, <2>4, <2>5, <2>6, <2>7, <2>8, <2>9 DEF EsNext
<1>2. QED
  BY <1>1, EsInitInv, PTL DEF EsSpec

(* The variables keep the values the code gives them.                         *)
THEOREM EsTypeCorrect == EsSpec => []EsTypeOK
<1>1. EsInv => EsTypeOK
  BY DEF EsInv
<1>2. QED
  BY <1>1, EsInvHolds, PTL

(* InvalidEntryNeedsDivergence (store.append, store.read and the commands of         *)
(* aggregate.py): an entry that the entries before it do not permit was appended     *)
(* from an aggregate that a truncated read, another writer or a failed append had     *)
(* separated from the stream; every other aggregate is the replay of the stream;       *)
(* and only a failed append lets an event in before the account is opened.            *)
THEOREM HistoryValid == EsSpec => []InvalidEntryNeedsDivergence
<1>1. EsInv => InvalidEntryNeedsDivergence
  BY DEF EsInv, HistoryRight, LiveIsReplay, Opened, InvalidEntryNeedsDivergence
<1>2. QED
  BY <1>1, EsInvHolds, PTL

(* SummaryIsReplay (projector.py's loop and AccountSummary.apply): the read model   *)
(* is the replay of the prefix it has read, for every history, page size and        *)
(* interleaving of pages with appends.                                         *)
THEOREM ProjectionIsReplay == EsSpec => []SummaryIsReplay
<1>1. EsInv => SummaryIsReplay
  BY DEF EsInv, SummaryRight, SummaryIsReplay
<1>2. QED
  BY <1>1, EsInvHolds, PTL
=============================================================================
