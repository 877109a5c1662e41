------------------------- MODULE PriorityQueueProofs -------------------------
(***************************************************************************)
(* Proofs about PriorityQueue for every set of consumers, scan order, batch   *)
(* size and number of tickets, faults and stops: type correctness, tickets    *)
(* settled once, strandings that each have a fault behind them, and the       *)
(* bound on inversions.                                                      *)
(***************************************************************************)
EXTENDS PriorityQueue, StreamOpsProofs

Working == {"handle", "ack"}
HeldBy(c) == {Tier(c)} \X batch[c]
Stranded == pending \ Held

(* The parts of TypeOK.  What is pending was delivered, which is more than     *)
(* that it does not wait: a ticket not published yet is not pending either.    *)
StreamTypes ==
  /\ published \in [Priorities -> 0..MaxTickets] /\ group \subseteq Priorities
  /\ cursor \in [Priorities -> 0..MaxTickets]
  /\ \A p \in Priorities : cursor[p] =< published[p]
  /\ pending \subseteq Delivered
ConsumerTypes ==
  /\ pc \in [Consumers -> PCs] /\ at \in [Consumers -> 1..3]
  /\ batch \in [Consumers -> SUBSET (1..MaxTickets)]
  /\ stopSet \in [Consumers -> BOOLEAN]
CountTypes ==
  /\ handled \in [Tickets -> Nat] /\ overtaken \in [Consumers -> [Tickets -> Nat]]
  /\ faults \in 0..MaxFaults /\ stops \in 0..MaxStops

(* A scan is at a tier of its order, and at the first one between passes.      *)
ScanPlace ==
  \A c \in Consumers :
    /\ at[c] =< Len(ScanOrder[c])
    /\ pc[c] \in {"top", "stopped", "dead"} => at[c] = 1

(* A consumer holds tickets while it works on a batch of at most Count: all    *)
(* pending, and no other's.                                                  *)
BatchesHeld ==
  /\ \A c \in Consumers :
       /\ pc[c] \in Working <=> batch[c] # {}
       /\ IsFiniteSet(batch[c]) /\ Cardinality(batch[c]) =< Count
       /\ HeldBy(c) \subseteq pending
  /\ \A c, d \in Consumers : c # d => HeldBy(c) \cap HeldBy(d) = {}

(* A ticket is handled by who holds it, before its ack.                        *)
HandledRight ==
  /\ \A t \in Tickets :
       /\ handled[t] =< 1
       /\ t \notin Delivered => handled[t] = 0
       /\ t \in Delivered \ pending => handled[t] = 1
  /\ \A c \in Consumers : \A t \in HeldBy(c) :
       handled[t] = IF pc[c] = "ack" /\ t = Current(c) THEN 1 ELSE 0

Types == StreamTypes /\ ConsumerTypes /\ CountTypes
Inv == Types /\ ScanPlace /\ BatchesHeld /\ HandledRight

(* Each fault has stranded a batch at most.                                   *)
StrandedCharged == Cardinality(Stranded) =< Count * faults

(* A scan that has overtaken a ticket still waiting has not gone past the       *)
(* ticket's tier since, and to do so it must find that tier empty.              *)
OvertakenOnce ==
  \A c \in Consumers : \A t \in Tickets :
    /\ overtaken[c][t] =< 1
    /\ t[2] > published[t[1]] => overtaken[c][t] = 0
    /\ overtaken[c][t] # 0 /\ t \in Waiting /\ pc[c] = "read" =>
         \A i \in DOMAIN ScanOrder[c] : ScanOrder[c][i] = t[1] => at[c] =< i

-----------------------------------------------------------------------------
(* A scan order has three tiers at most, since it names none twice.             *)
LEMMA ScanOrders ==
  ASSUME NEW c \in Consumers
  PROVE  /\ Len(ScanOrder[c]) \in 1..3 /\ DOMAIN ScanOrder[c] = 1..Len(ScanOrder[c])
         /\ \A i \in 1..Len(ScanOrder[c]) : ScanOrder[c][i] \in Priorities
         /\ \A i, j \in 1..Len(ScanOrder[c]) : ScanOrder[c][i] = ScanOrder[c][j] => i = j
<1> DEFINE order == ScanOrder[c]
<1>1. /\ order \in Seq(Priorities) /\ order # <<>>
      /\ \A i, j \in DOMAIN order : order[i] = order[j] => i = j
  BY ScanAssumption
<1>2. /\ Len(order) \in Nat /\ Len(order) >= 1 /\ DOMAIN order = 1..Len(order)
      /\ \A i \in 1..Len(order) : order[i] \in Priorities
  BY <1>1
<1> HIDE DEF order
<1>3. ASSUME Len(order) >= 4 PROVE FALSE
  <2>1. 1 \in 1..Len(order) /\ 2 \in 1..Len(order) /\ 3 \in 1..Len(order) /\ 4 \in 1..Len(order)
    BY <1>2, <1>3
  <2>2. /\ order[1] \in {1, 2, 3} /\ order[2] \in {1, 2, 3}
        /\ order[3] \in {1, 2, 3} /\ order[4] \in {1, 2, 3}
    BY <1>2, <2>1 DEF Priorities
  <2>3. /\ order[1] # order[2] /\ order[1] # order[3] /\ order[1] # order[4]
        /\ order[2] # order[3] /\ order[2] # order[4] /\ order[3] # order[4]
    BY <1>1, <1>2, <2>1
  <2>4. QED
    BY <2>2, <2>3
<1>4. Len(order) \in 1..3
  BY <1>2, <1>3
<1>5. QED
  BY <1>1, <1>2, <1>4 DEF order

(* Where a scan is, it reads one of the three streams.                         *)
LEMMA TierOf ==
  ASSUME ConsumerTypes, ScanPlace, NEW c \in Consumers
  PROVE  Tier(c) \in Priorities /\ at[c] \in 1..Len(ScanOrder[c])
<1>1. at[c] \in 1..Len(ScanOrder[c])
  BY ScanOrders DEF ConsumerTypes, ScanPlace
<1>2. QED
  BY <1>1, ScanOrders DEF Tier

(* A ticket is its priority and its position.                                 *)
LEMMA TicketParts ==
  /\ \A t \in Tickets : t = <<t[1], t[2]>> /\ t[1] \in Priorities /\ t[2] \in 1..MaxTickets
  /\ \A p \in Priorities, m \in 1..MaxTickets :
       <<p, m>> \in Tickets /\ <<p, m>>[1] = p /\ <<p, m>>[2] = m
BY DEF Tickets

(* The tickets are finitely many.                                             *)
LEMMA TicketsFinite == IsFiniteSet(Tickets)
<1>1. IsFiniteSet(Priorities) /\ IsFiniteSet(1..MaxTickets)
  <2>1. 1 \in Int /\ 3 \in Int /\ MaxTickets \in Int
    BY BoundAssumption
  <2>2. QED
    BY <2>1, FS_Interval DEF Priorities
<1>2. QED
  BY <1>1, FS_Product DEF Tickets

LEMMA TypesGiveTypeOK == Types => TypeOK
<1>1. SUFFICES ASSUME Types PROVE TypeOK
  OBVIOUS
<1>2. pending \subseteq Tickets /\ pending \cap Waiting = {}
  <2>1. pending \subseteq Tickets /\ \A t \in pending : t[2] =< cursor[t[1]]
    BY <1>1 DEF Types, StreamTypes, Delivered
  <2>2. ASSUME NEW t \in pending, t \in Waiting PROVE FALSE
    <3>1. t[2] \in (cursor[t[1]] + 1)..published[t[1]] /\ t[2] =< cursor[t[1]]
      BY <2>1, <2>2 DEF Waiting, Fresh
    <3>2. cursor[t[1]] \in Nat /\ t[2] \in Nat
      BY <1>1, <2>1, <2>2, TicketParts, BoundAssumption DEF Types, StreamTypes
    <3>3. QED
      BY <3>1, <3>2
  <2>3. QED
    BY <2>1, <2>2
<1>3. stopSet \in [Consumers -> BOOLEAN]
  BY <1>1, Zenon DEF Types, ConsumerTypes
<1>4. QED
  BY <1>1, <1>2, <1>3 DEF Types, StreamTypes, ConsumerTypes, CountTypes, TypeOK

(* The ticket a working consumer is on is in its batch.                        *)
LEMMA CurrentHeld ==
  ASSUME Inv, NEW c \in Consumers, pc[c] \in Working
  PROVE  /\ Oldest(batch[c]) \in batch[c]
         /\ Current(c) \in HeldBy(c) /\ Current(c) \in pending /\ Current(c) \in Tickets
<1>1. batch[c] # {} /\ batch[c] \in SUBSET Nat
  BY BoundAssumption DEF Inv, Types, ConsumerTypes, BatchesHeld
<1>2. Oldest(batch[c]) \in batch[c]
  BY <1>1, OldestIsLeast
<1>3. Current(c) \in HeldBy(c)
  BY <1>2 DEF Current, HeldBy
<1>4. Current(c) \in pending
  BY <1>3 DEF Inv, BatchesHeld
<1>5. QED
  BY <1>2, <1>3, <1>4 DEF Inv, Types, StreamTypes, Delivered

-----------------------------------------------------------------------------
(* A consumer that goes somewhere else, and one whose scan does.               *)
LEMMA Moved ==
  ASSUME ConsumerTypes, NEW c \in Consumers
  PROVE  /\ \A label \in PCs : Goto(c, label) =>
              /\ pc' \in [Consumers -> PCs]
              /\ \A d \in Consumers : pc'[d] = IF d = c THEN label ELSE pc[d]
         /\ \A i \in 1..3 : ScanFrom(c, i) =>
              /\ at' \in [Consumers -> 1..3]
              /\ \A d \in Consumers : at'[d] = IF d = c THEN i ELSE at[d]
BY DEF ConsumerTypes, Goto, ScanFrom

(* A step in which nobody takes up or lays down a batch: no ticket changes      *)
(* hands.                                                                   *)
LEMMA QuietStep ==
  ASSUME Inv, Types', ScanPlace', UNCHANGED <<cursor, pending, batch, handled>>,
         \A d \in Consumers : \/ at'[d] = at[d] /\ pc'[d] = pc[d]
                              \/ pc[d] \notin Working /\ pc'[d] \notin Working
  PROVE  Inv' /\ Stranded' = Stranded
<1>1. ASSUME NEW d \in Consumers PROVE HeldBy(d)' = HeldBy(d)
  <2>1. CASE at'[d] = at[d]
    BY <2>1 DEF HeldBy, Tier
  <2>2. CASE pc[d] \notin Working
    <3>1. batch[d] = {} /\ batch'[d] = {}
      BY <2>2 DEF Inv, BatchesHeld
    <3>2. QED
      BY <3>1 DEF HeldBy
  <2>3. QED
    BY <2>1, <2>2
<1>2. Held' = Held /\ Stranded' = Stranded /\ Delivered' = Delivered
  <2>1. Held = UNION {HeldBy(d) : d \in Consumers} /\ Held' = UNION {HeldBy(d)' : d \in Consumers}
    BY DEF Held, HeldBy
  <2>2. Held' = Held
    BY <1>1, <2>1
  <2>3. QED
    BY <2>2 DEF Stranded, Delivered
<1>3. BatchesHeld'
  <2>1. \A d \in Consumers : pc'[d] \in Working <=> batch'[d] # {}
    BY DEF Inv, BatchesHeld
  <2>2. QED
    BY <1>1, <2>1 DEF Inv, BatchesHeld
<1>4. HandledRight'
  <2>1. ASSUME NEW d \in Consumers, NEW t \in HeldBy(d)'
        PROVE  handled'[t] = IF pc'[d] = "ack" /\ t = Current(d)' THEN 1 ELSE 0
    <3>1. batch[d] # {} /\ pc[d] \in Working /\ t \in HeldBy(d)
      BY <1>1, <2>1 DEF Inv, BatchesHeld, HeldBy
    <3>2. at'[d] = at[d] /\ pc'[d] = pc[d]
      BY <3>1
    <3>3. Current(d)' = Current(d)
      BY <3>2 DEF Current, Tier
    <3>4. QED
      BY <3>1, <3>2, <3>3 DEF Inv, HandledRight
  <2>2. QED
    BY <1>2, <2>1 DEF Inv, HandledRight
<1>5. QED
  BY <1>2, <1>3, <1>4 DEF Inv

(* The other consumers keep what they hold.                                   *)
LEMMA OthersKept ==
  ASSUME NEW c \in Consumers,
         \A d \in Consumers \ {c} : at'[d] = at[d] /\ batch'[d] = batch[d]
  PROVE  \A d \in Consumers \ {c} :
           HeldBy(d)' = HeldBy(d) /\ Tier(d)' = Tier(d) /\ Current(d)' = Current(d)
BY DEF HeldBy, Tier, Current

(* What is held is what one consumer holds and what the others do.              *)
LEMMA HeldParts ==
  ASSUME NEW c \in Consumers
  PROVE  /\ \A t : t \in Held <=> \E d \in Consumers : t \in HeldBy(d)
         /\ \A t : t \in Held' <=> \E d \in Consumers : t \in HeldBy(d)'
BY DEF Held, HeldBy

-----------------------------------------------------------------------------
(* What a read delivers.                                                    *)
Got(c) == FirstN(Fresh(Tier(c)), Count)
New(c) == {Tier(c)} \X Got(c)

LEMMA ReadDelivers ==
  ASSUME Inv, NEW c \in Consumers, ReadBatch(c)
  PROVE  /\ Got(c) # {} /\ Got(c) \subseteq 1..MaxTickets
         /\ IsFiniteSet(Got(c)) /\ Cardinality(Got(c)) =< Count
         /\ StreamTypes'
         /\ Delivered' = Delivered \cup New(c) /\ New(c) \cap Delivered = {}
         /\ New(c) \subseteq Tickets
         /\ Waiting' \subseteq Waiting
<1> DEFINE p == Tier(c)
           got == Got(c)
           last == Newest(got)
<1>1. p \in Priorities
  BY TierOf DEF Inv, Types
<1>2. /\ published \in [Priorities -> 0..MaxTickets] /\ cursor \in [Priorities -> 0..MaxTickets]
      /\ \A q \in Priorities : cursor[q] =< published[q]
      /\ pending \subseteq Delivered /\ MaxTickets \in Nat /\ Count \in Nat
  BY BoundAssumption DEF Inv, Types, StreamTypes
<1>3. cursor[p] \in Nat /\ published[p] \in 0..MaxTickets /\ published[p] \in Nat
  BY <1>1, <1>2
<1>4. got # {} /\ got = FirstN((cursor[p] + 1)..published[p], Count)
  BY DEF ReadBatch, Got, Fresh
<1>5. /\ last \in (cursor[p] + 1)..published[p] /\ got = (cursor[p] + 1)..last
      /\ IsFiniteSet(got) /\ Cardinality(got) =< Count
  BY <1>2, <1>3, <1>4, FirstNOfRun
<1>6. /\ cursor' = [cursor EXCEPT ![p] = last] /\ pending' = pending \cup New(c)
      /\ UNCHANGED <<published, group>>
  BY DEF ReadBatch, Got, New
<1> HIDE DEF p, got, last
<1>7. last \in 0..MaxTickets /\ last \in Nat /\ cursor[p] < last /\ last =< published[p]
  BY <1>2, <1>3, <1>5
<1>8. /\ cursor' \in [Priorities -> 0..MaxTickets]
      /\ \A q \in Priorities : cursor'[q] = IF q = p THEN last ELSE cursor[q]
  BY <1>1, <1>2, <1>6, <1>7
<1>9. got \subseteq 1..MaxTickets
  BY <1>2, <1>3, <1>5, <1>7
<1>10. New(c) = {p} \X got
  BY DEF New, p, got
<1>11. /\ New(c) \subseteq Tickets
       /\ \A t \in Tickets : t \in New(c) <=> t[1] = p /\ t[2] \in got
  BY <1>1, <1>9, <1>10, TicketParts DEF Tickets
<1>12. ASSUME NEW t \in Tickets
       PROVE  /\ t \in Delivered' <=> t \in Delivered \/ t \in New(c)
              /\ ~(t \in Delivered /\ t \in New(c))
              /\ t \in Waiting' => t \in Waiting
  <2>1. t[1] \in Priorities /\ t[2] \in Nat /\ t[2] >= 1
    BY TicketParts, <1>2
  <2>2. /\ t \in Delivered <=> t[2] =< cursor[t[1]]
        /\ t \in Delivered' <=> t[2] =< cursor'[t[1]]
        /\ t \in Waiting <=> t[2] \in (cursor[t[1]] + 1)..published[t[1]]
        /\ t \in Waiting' <=> t[2] \in (cursor'[t[1]] + 1)..published[t[1]]
    BY <1>6 DEF Delivered, Waiting, Fresh
  <2>3. cursor[t[1]] \in Nat /\ cursor'[t[1]] \in Nat /\ published[t[1]] \in Nat
    BY <1>2, <1>8, <2>1
  <2>4. CASE t[1] = p
    BY <1>3, <1>5, <1>7, <1>8, <1>11, <2>1, <2>2, <2>3, <2>4
  <2>5. CASE t[1] # p
    BY <1>8, <1>11, <2>1, <2>2, <2>3, <2>5
  <2>6. QED
    BY <2>4, <2>5
<1>13. Delivered \subseteq Tickets /\ Delivered' \subseteq Tickets /\ Waiting' \subseteq Tickets
  BY DEF Delivered, Waiting
<1>14. Delivered' = Delivered \cup New(c) /\ New(c) \cap Delivered = {} /\ Waiting' \subseteq Waiting
  BY <1>11, <1>12, <1>13
<1>15. StreamTypes'
  <2>1. \A q \in Priorities : cursor'[q] =< published'[q]
    BY <1>2, <1>6, <1>7, <1>8
  <2>2. pending' \subseteq Delivered'
    BY <1>2, <1>6, <1>14
  <2>3. QED
    BY <1>2, <1>6, <1>8, <2>1, <2>2 DEF StreamTypes, Inv, Types
<1>16. QED
  BY <1>4, <1>5, <1>9, <1>11, <1>14, <1>15 DEF got

-----------------------------------------------------------------------------
(* The steps that move tickets.                                              *)

(* A batch taken: its tickets were never delivered before, so nobody held       *)
(* them and nobody handled them.                                             *)
LEMMA ReadStep ==
  ASSUME Inv, NEW c \in Consumers, ReadBatch(c)
  PROVE  Inv' /\ Stranded' = Stranded /\ faults' = faults
<1>0. Types /\ StreamTypes /\ ConsumerTypes /\ CountTypes /\ "handle" \in PCs
  BY DEF Inv, Types, PCs, Running
<1>1. /\ Got(c) # {} /\ Got(c) \subseteq 1..MaxTickets
      /\ IsFiniteSet(Got(c)) /\ Cardinality(Got(c)) =< Count
      /\ StreamTypes' /\ Delivered' = Delivered \cup New(c) /\ New(c) \cap Delivered = {}
      /\ New(c) \subseteq Tickets
  BY ReadDelivers
<1>2. /\ pc[c] = "read" /\ Goto(c, "handle")
      /\ pending' = pending \cup New(c) /\ batch' = [batch EXCEPT ![c] = Got(c)]
      /\ UNCHANGED <<at, stopSet, handled, faults, stops>>
  BY DEF ReadBatch, Got, New, env
<1>3. /\ pc' \in [Consumers -> PCs]
      /\ \A d \in Consumers : pc'[d] = IF d = c THEN "handle" ELSE pc[d]
  BY <1>0, <1>2, Moved
<1>4. /\ batch' \in [Consumers -> SUBSET (1..MaxTickets)]
      /\ \A d \in Consumers : batch'[d] = IF d = c THEN Got(c) ELSE batch[d]
  BY <1>0, <1>1, <1>2 DEF ConsumerTypes
<1>5. /\ HeldBy(c)' = New(c) /\ HeldBy(c) = {}
      /\ \A d \in Consumers \ {c} : HeldBy(d)' = HeldBy(d) /\ Current(d)' = Current(d)
  <2>1. HeldBy(c)' = New(c)
    BY <1>2, <1>4 DEF HeldBy, New, Tier
  <2>2. batch[c] = {}
    BY <1>2 DEF Inv, BatchesHeld, Working
  <2>3. HeldBy(c) = {}
    BY <2>2 DEF HeldBy
  <2>4. QED
    BY <1>2, <1>4, <2>1, <2>3, OthersKept
<1>6. pending \subseteq Delivered /\ New(c) \cap pending = {}
  BY <1>0, <1>1 DEF StreamTypes
<1>7. Types'
  <2>1. overtaken' \in [Consumers -> [Tickets -> Nat]]
    <3>1. overtaken \in [Consumers -> [Tickets -> Nat]]
      BY <1>0 DEF CountTypes
    <3>2. [t \in Tickets |-> IF t \in PassedOver(c) THEN overtaken[c][t] + 1 ELSE overtaken[c][t]]
            \in [Tickets -> Nat]
      BY <3>1
    <3>3. QED
      BY <3>1, <3>2 DEF ReadBatch
  <2>2. ConsumerTypes'
    BY <1>0, <1>2, <1>3, <1>4, Zenon DEF ConsumerTypes
  <2>3. CountTypes'
    BY <1>0, <1>2, <2>1, Zenon DEF CountTypes
  <2>4. QED
    BY <1>1, <2>2, <2>3 DEF Types
<1>8. ScanPlace'
  BY <1>2, <1>3 DEF Inv, ScanPlace
<1>9. BatchesHeld'
  <2>1. \A d \in Consumers :
          /\ pc'[d] \in Working <=> batch'[d] # {}
          /\ IsFiniteSet(batch'[d]) /\ Cardinality(batch'[d]) =< Count
    BY <1>1, <1>3, <1>4 DEF Inv, BatchesHeld, Working
  <2>2. \A d \in Consumers : HeldBy(d)' \subseteq pending'
    BY <1>2, <1>5 DEF Inv, BatchesHeld
  <2>3. \A d, e \in Consumers : d # e => HeldBy(d)' \cap HeldBy(e)' = {}
    BY <1>5, <1>6 DEF Inv, BatchesHeld
  <2>4. QED
    BY <2>1, <2>2, <2>3 DEF BatchesHeld
<1>10. HandledRight'
  <2>1. \A t \in Tickets :
          /\ handled'[t] =< 1
          /\ t \notin Delivered' => handled'[t] = 0
          /\ t \in Delivered' \ pending' => handled'[t] = 1
    BY <1>1, <1>2 DEF Inv, HandledRight
  <2>2. ASSUME NEW d \in Consumers, NEW t \in HeldBy(d)'
        PROVE  handled'[t] = IF pc'[d] = "ack" /\ t = Current(d)' THEN 1 ELSE 0
    <3>1. CASE d = c
      BY <1>1, <1>2, <1>3, <1>5, <2>2, <3>1 DEF Inv, HandledRight
    <3>2. CASE d # c
      BY <1>2, <1>3, <1>5, <2>2, <3>2 DEF Inv, HandledRight
    <3>3. QED
      BY <3>1, <3>2
  <2>3. QED
    BY <2>1, <2>2 DEF HandledRight
<1>11. Stranded' = Stranded
  <2>1. \A t : t \in Held' <=> t \in Held \/ t \in New(c)
    BY <1>5, HeldParts
  <2>2. QED
    BY <1>2, <1>6, <2>1 DEF Stranded
<1>12. QED
  BY <1>2, <1>7, <1>8, <1>9, <1>10, <1>11 DEF Inv

(* A ticket handled: it was not before.                                       *)
LEMMA HandleStep ==
  ASSUME Inv, NEW c \in Consumers, HandleTicket(c)
  PROVE  Inv' /\ Stranded' = Stranded
<1> DEFINE t == Current(c)
<1>0. Types /\ StreamTypes /\ ConsumerTypes /\ CountTypes /\ "ack" \in PCs
  BY DEF Inv, Types, PCs, Running
<1>1. /\ pc[c] = "handle" /\ Goto(c, "ack") /\ handled' = [handled EXCEPT ![t] = @ + 1]
      /\ UNCHANGED <<published, group, cursor, pending, at, batch, stopSet, overtaken, faults, stops>>
  BY DEF HandleTicket, streams, env
<1>2. /\ pc' \in [Consumers -> PCs]
      /\ \A d \in Consumers : pc'[d] = IF d = c THEN "ack" ELSE pc[d]
  BY <1>0, <1>1, Moved
<1>3. t \in HeldBy(c) /\ t \in pending /\ t \in Tickets /\ t \in Delivered
  BY <1>0, <1>1, CurrentHeld DEF Working, StreamTypes
<1>4. handled[t] = 0
  BY <1>1, <1>3 DEF Inv, HandledRight
<1>5. /\ handled' \in [Tickets -> Nat]
      /\ \A u \in Tickets : handled'[u] = IF u = t THEN 1 ELSE handled[u]
  BY <1>0, <1>1, <1>3, <1>4 DEF CountTypes
<1>6. /\ \A d \in Consumers : HeldBy(d)' = HeldBy(d) /\ Current(d)' = Current(d)
      /\ Held' = Held /\ Delivered' = Delivered
  BY <1>1 DEF HeldBy, Current, Tier, Held, Delivered
<1>7. Types'
  <2>1. StreamTypes'
    BY <1>0, <1>1, <1>6 DEF StreamTypes
  <2>2. ConsumerTypes'
    BY <1>0, <1>1, <1>2, Zenon DEF ConsumerTypes
  <2>3. CountTypes'
    BY <1>0, <1>1, <1>5 DEF CountTypes
  <2>4. QED
    BY <2>1, <2>2, <2>3 DEF Types
<1>8. ScanPlace'
  BY <1>1, <1>2 DEF Inv, ScanPlace
<1>9. BatchesHeld'
  BY <1>1, <1>2, <1>6 DEF Inv, BatchesHeld, Working
<1>10. HandledRight'
  <2>1. \A u \in Tickets :
          /\ handled'[u] =< 1
          /\ u \notin Delivered' => handled'[u] = 0
          /\ u \in Delivered' \ pending' => handled'[u] = 1
    BY <1>1, <1>3, <1>5, <1>6 DEF Inv, HandledRight
  <2>2. ASSUME NEW d \in Consumers, NEW u \in HeldBy(d)'
        PROVE  handled'[u] = IF pc'[d] = "ack" /\ u = Current(d)' THEN 1 ELSE 0
    <3>1. u \in HeldBy(d) /\ u \in Tickets
      BY <1>0, <1>6, <2>2 DEF Inv, BatchesHeld, StreamTypes, Delivered
    <3>2. CASE d = c
      BY <1>1, <1>2, <1>5, <1>6, <3>1, <3>2 DEF Inv, HandledRight
    <3>3. CASE d # c
      <4>1. u # t
        BY <1>3, <3>1, <3>3 DEF Inv, BatchesHeld
      <4>2. QED
        BY <1>2, <1>5, <1>6, <3>1, <3>3, <4>1 DEF Inv, HandledRight
    <3>4. QED
      BY <3>2, <3>3
  <2>3. QED
    BY <2>1, <2>2 DEF HandledRight
<1>11. Stranded' = Stranded
  BY <1>1, <1>6 DEF Stranded
<1>12. QED
  BY <1>7, <1>8, <1>9, <1>10, <1>11 DEF Inv

(* What a consumer is left with once it gives up some of what it held: the       *)
(* batch it keeps is part of what it had.                                     *)
LEMMA LaidDown ==
  ASSUME Inv, NEW c \in Consumers, NEW rest \in SUBSET batch[c],
         batch' = [batch EXCEPT ![c] = rest],
         \A d \in Consumers \ {c} : at'[d] = at[d], rest = {} \/ at'[c] = at[c]
  PROVE  /\ batch' \in [Consumers -> SUBSET (1..MaxTickets)]
         /\ \A d \in Consumers : batch'[d] = IF d = c THEN rest ELSE batch[d]
         /\ \A d \in Consumers : IsFiniteSet(batch'[d]) /\ Cardinality(batch'[d]) =< Count
         /\ HeldBy(c)' = {Tier(c)} \X rest /\ HeldBy(c)' \subseteq HeldBy(c)
         /\ \A d \in Consumers \ {c} : HeldBy(d)' = HeldBy(d) /\ Current(d)' = Current(d)
<1>1. /\ batch' \in [Consumers -> SUBSET (1..MaxTickets)]
      /\ \A d \in Consumers : batch'[d] = IF d = c THEN rest ELSE batch[d]
  BY DEF Inv, Types, ConsumerTypes
<1>2. /\ IsFiniteSet(batch[c]) /\ Cardinality(batch[c]) =< Count
      /\ \A d \in Consumers : IsFiniteSet(batch[d]) /\ Cardinality(batch[d]) =< Count
  BY DEF Inv, BatchesHeld
<1>3. IsFiniteSet(rest) /\ Cardinality(rest) =< Count
  <2>1. IsFiniteSet(rest) /\ Cardinality(rest) =< Cardinality(batch[c])
    BY <1>2, FS_Subset
  <2>2. Cardinality(rest) \in Nat /\ Cardinality(batch[c]) \in Nat /\ Count \in Nat
    BY <1>2, <2>1, FS_CardinalityType, BoundAssumption
  <2>3. QED
    BY <1>2, <2>1, <2>2
<1>4. HeldBy(c)' = {Tier(c)} \X rest
  <2>1. CASE rest = {}
    BY <1>1, <2>1 DEF HeldBy
  <2>2. CASE at'[c] = at[c]
    BY <1>1, <2>2 DEF HeldBy, Tier
  <2>3. QED
    BY <2>1, <2>2
<1>5. HeldBy(c)' \subseteq HeldBy(c)
  BY <1>4 DEF HeldBy
<1>6. QED
  BY <1>1, <1>2, <1>3, <1>4, <1>5, OthersKept

(* A ticket acked: it was handled, and it leaves the batch and the pending       *)
(* list together.                                                            *)
LEMMA AckStep ==
  ASSUME Inv, NEW c \in Consumers, AckTicket(c)
  PROVE  Inv' /\ Stranded' = Stranded
<1> DEFINE m == Oldest(batch[c])
           t == Current(c)
           rest == batch[c] \ {m}
<1>0. /\ Types /\ StreamTypes /\ ConsumerTypes /\ CountTypes
      /\ "handle" \in PCs /\ "top" \in PCs /\ 1 \in 1..3
  BY DEF Inv, Types, PCs, Running
<1>1. /\ pc[c] = "ack" /\ pending' = pending \ {t} /\ batch' = [batch EXCEPT ![c] = rest]
      /\ UNCHANGED <<published, group, cursor, stopSet, handled, overtaken, faults, stops>>
      /\ \/ rest = {} /\ Goto(c, "top") /\ ScanFrom(c, 1)
         \/ rest # {} /\ Goto(c, "handle") /\ UNCHANGED at
  BY DEF AckTicket, observed, env
<1>2. t \in HeldBy(c) /\ t \in pending /\ t \in Tickets /\ t = <<Tier(c), m>>
  BY <1>1, CurrentHeld DEF Working, Current
<1>3. /\ pc' \in [Consumers -> PCs] /\ at' \in [Consumers -> 1..3]
      /\ \A d \in Consumers \ {c} : pc'[d] = pc[d] /\ at'[d] = at[d]
      /\ pc'[c] = IF rest = {} THEN "top" ELSE "handle"
      /\ rest = {} => at'[c] = 1
      /\ rest # {} => at'[c] = at[c]
  BY <1>0, <1>1, Moved DEF ConsumerTypes
<1>4. /\ batch' \in [Consumers -> SUBSET (1..MaxTickets)]
      /\ \A d \in Consumers : batch'[d] = IF d = c THEN rest ELSE batch[d]
      /\ \A d \in Consumers : IsFiniteSet(batch'[d]) /\ Cardinality(batch'[d]) =< Count
      /\ HeldBy(c)' = {Tier(c)} \X rest
      /\ \A d \in Consumers \ {c} : HeldBy(d)' = HeldBy(d) /\ Current(d)' = Current(d)
  <2>1. rest \in SUBSET batch[c]
    OBVIOUS
  <2>2. QED
    BY <1>1, <1>3, <2>1, LaidDown
<1>5. HeldBy(c)' = HeldBy(c) \ {t}
  BY <1>2, <1>4 DEF HeldBy
<1>6. \A d \in Consumers \ {c} : t \notin HeldBy(d)
  BY <1>2 DEF Inv, BatchesHeld
<1>7. Types'
  <2>1. StreamTypes'
    BY <1>0, <1>1 DEF StreamTypes, Delivered
  <2>2. ConsumerTypes'
    BY <1>0, <1>1, <1>3, <1>4, Zenon DEF ConsumerTypes
  <2>3. CountTypes'
    BY <1>0, <1>1 DEF CountTypes
  <2>4. QED
    BY <2>1, <2>2, <2>3 DEF Types
<1>8. ScanPlace'
  <2>1. 1 =< Len(ScanOrder[c])
    BY ScanOrders
  <2>2. QED
    BY <1>3, <2>1 DEF Inv, ScanPlace
<1>9. BatchesHeld'
  <2>1. \A d \in Consumers : pc'[d] \in Working <=> batch'[d] # {}
    BY <1>3, <1>4 DEF Inv, BatchesHeld, Working
  <2>2. \A d \in Consumers : HeldBy(d)' \subseteq pending'
    BY <1>1, <1>4, <1>5, <1>6 DEF Inv, BatchesHeld
  <2>3. \A d, e \in Consumers : d # e => HeldBy(d)' \cap HeldBy(e)' = {}
    BY <1>4, <1>5 DEF Inv, BatchesHeld
  <2>4. QED
    BY <1>4, <2>1, <2>2, <2>3 DEF BatchesHeld
<1>10. HandledRight'
  <2>1. Delivered' = Delivered /\ handled[t] = 1
    BY <1>1, <1>2 DEF Delivered, Inv, HandledRight
  <2>2. \A u \in Tickets :
          /\ handled'[u] =< 1
          /\ u \notin Delivered' => handled'[u] = 0
          /\ u \in Delivered' \ pending' => handled'[u] = 1
    BY <1>1, <2>1 DEF Inv, HandledRight
  <2>3. ASSUME NEW d \in Consumers, NEW u \in HeldBy(d)'
        PROVE  handled'[u] = IF pc'[d] = "ack" /\ u = Current(d)' THEN 1 ELSE 0
    <3>1. CASE d = c
      <4>1. handled[u] = 0 /\ pc'[d] # "ack"
        BY <1>1, <1>3, <1>5, <2>3, <3>1 DEF Inv, HandledRight
      <4>2. QED
        BY <1>1, <4>1
    <3>2. CASE d # c
      BY <1>1, <1>3, <1>4, <2>3, <3>2 DEF Inv, HandledRight
    <3>3. QED
      BY <3>1, <3>2
  <2>4. QED
    BY <2>2, <2>3 DEF HandledRight
<1>11. Stranded' = Stranded
  <2>1. \A u : u \in Held' <=> u \in Held /\ u # t
    BY <1>4, <1>5, <1>6, HeldParts
  <2>2. QED
    BY <1>1, <1>2, <2>1, HeldParts DEF Stranded
<1>12. QED
  BY <1>7, <1>8, <1>9, <1>10, <1>11 DEF Inv

(* A consumer that ends abnormally strands the batch it held.                  *)
LEMMA DieStep ==
  ASSUME Inv, NEW c \in Consumers, Dies(c)
  PROVE  Inv' /\ Stranded' \subseteq Stranded \cup HeldBy(c) /\ faults' = faults + 1
<1>0. /\ Types /\ StreamTypes /\ ConsumerTypes /\ CountTypes /\ "dead" \in PCs /\ 1 \in 1..3
  BY DEF Inv, Types, PCs
<1>1. /\ faults < MaxFaults /\ faults' = faults + 1 /\ Goto(c, "dead") /\ ScanFrom(c, 1)
      /\ batch' = [batch EXCEPT ![c] = {}]
      /\ UNCHANGED <<published, group, cursor, pending, stopSet, handled, overtaken, stops>>
  BY DEF Dies, streams, observed
<1>2. /\ pc' \in [Consumers -> PCs] /\ at' \in [Consumers -> 1..3]
      /\ \A d \in Consumers : pc'[d] = IF d = c THEN "dead" ELSE pc[d]
      /\ \A d \in Consumers : at'[d] = IF d = c THEN 1 ELSE at[d]
  BY <1>0, <1>1, Moved
<1>3. /\ batch' \in [Consumers -> SUBSET (1..MaxTickets)]
      /\ \A d \in Consumers : batch'[d] = IF d = c THEN {} ELSE batch[d]
      /\ \A d \in Consumers : IsFiniteSet(batch'[d]) /\ Cardinality(batch'[d]) =< Count
      /\ HeldBy(c)' = {Tier(c)} \X {}
      /\ \A d \in Consumers \ {c} : HeldBy(d)' = HeldBy(d) /\ Current(d)' = Current(d)
  <2>1. {} \in SUBSET batch[c]
    OBVIOUS
  <2>2. QED
    BY <1>1, <1>2, <2>1, LaidDown
<1>4. HeldBy(c)' = {}
  BY <1>3
<1>5. Types'
  <2>1. StreamTypes'
    BY <1>0, <1>1 DEF StreamTypes, Delivered
  <2>2. ConsumerTypes'
    BY <1>0, <1>1, <1>2, <1>3, Zenon DEF ConsumerTypes
  <2>3. CountTypes'
    BY <1>0, <1>1, BoundAssumption DEF CountTypes
  <2>4. QED
    BY <2>1, <2>2, <2>3 DEF Types
<1>6. ScanPlace'
  <2>1. 1 =< Len(ScanOrder[c])
    BY ScanOrders
  <2>2. QED
    BY <1>2, <2>1 DEF Inv, ScanPlace
<1>7. BatchesHeld'
  BY <1>1, <1>2, <1>3, <1>4 DEF Inv, BatchesHeld, Working
<1>8. HandledRight'
  <2>1. Delivered' = Delivered
    BY <1>1 DEF Delivered
  <2>2. QED
    BY <1>1, <1>2, <1>3, <1>4, <2>1 DEF Inv, HandledRight
<1>9. Stranded' \subseteq Stranded \cup HeldBy(c)
  BY <1>1, <1>3, HeldParts DEF Stranded
<1>10. QED
  BY <1>1, <1>5, <1>6, <1>7, <1>8, <1>9 DEF Inv

(* The steps of a scan, of a stop event and of a restart move no ticket.        *)
LEMMA ScanStep ==
  ASSUME Inv, NEW c \in Consumers,
         ensure_group(c) \/ LoopTop(c) \/ ReadNothing(c) \/ SetStop(c) \/ Restart(c)
  PROVE  Inv' /\ Stranded' = Stranded /\ faults' = faults
<1>0. /\ Types /\ StreamTypes /\ ConsumerTypes /\ CountTypes /\ ScanPlace
      /\ Tier(c) \in Priorities /\ at[c] \in 1..Len(ScanOrder[c])
  BY TierOf DEF Inv, Types
<1>1. /\ Len(ScanOrder[c]) \in 1..3 /\ 1 \in 1..3
      /\ "top" \in PCs /\ "read" \in PCs /\ "join" \in PCs /\ "stopped" \in PCs
  BY ScanOrders DEF PCs, Running
<1>2. UNCHANGED <<published, cursor, pending, batch, handled, overtaken, faults>>
      /\ group' \subseteq Priorities
  BY <1>0 DEF ensure_group, LoopTop, ReadNothing, SetStop, Restart, streams, observed, env,
         StreamTypes
<1>3. /\ stopSet' \in [Consumers -> BOOLEAN] /\ stops' \in 0..MaxStops
  <2>1. stopSet' \in [Consumers -> BOOLEAN]
    <3>1. stopSet \in [Consumers -> BOOLEAN]
      BY <1>0, Zenon DEF ConsumerTypes
    <3>2. \/ stopSet' = stopSet \/ stopSet' = [stopSet EXCEPT ![c] = TRUE]
          \/ stopSet' = [stopSet EXCEPT ![c] = FALSE]
      BY Zenon DEF ensure_group, LoopTop, ReadNothing, SetStop, Restart
    <3>3. QED
      BY <3>1, <3>2
  <2>2. stops' \in 0..MaxStops
    BY <1>0, BoundAssumption DEF ensure_group, LoopTop, ReadNothing, SetStop, Restart, env,
         CountTypes
  <2>3. QED
    BY <2>1, <2>2
<1>4. /\ pc' \in [Consumers -> PCs] /\ at' \in [Consumers -> 1..3]
      /\ \A d \in Consumers \ {c} : pc'[d] = pc[d] /\ at'[d] = at[d]
      /\ at'[c] \in 1..Len(ScanOrder[c])
      /\ pc'[c] \in {"top", "stopped", "dead"} => at'[c] = 1
      /\ \/ at'[c] = at[c] /\ pc'[c] = pc[c]
         \/ pc[c] \notin Working /\ pc'[c] \notin Working
  <2>1. CASE \/ ensure_group(c) /\ LastTier(c)
             \/ ReadNothing(c) /\ LastTier(c)
    <3>1. pc[c] \in {"join", "read"} /\ Goto(c, "top") /\ ScanFrom(c, 1)
      BY <2>1 DEF ensure_group, ReadNothing
    <3>2. QED
      BY <1>0, <1>1, <3>1, Moved DEF Working
  <2>2. CASE \/ ensure_group(c) /\ ~LastTier(c)
             \/ ReadNothing(c) /\ ~LastTier(c)
    <3>1. pc[c] \in {"join", "read"} /\ pc' = pc /\ ScanFrom(c, at[c] + 1)
      BY <2>2 DEF ensure_group, ReadNothing
    <3>2. at[c] + 1 \in 1..Len(ScanOrder[c]) /\ at[c] + 1 \in 1..3
      <4>1. at[c] # Len(ScanOrder[c])
        BY <2>2 DEF LastTier
      <4> DEFINE i == at[c]
                 n == Len(ScanOrder[c])
      <4>2. i \in 1..n /\ n \in 1..3 /\ i # n
        BY <1>0, <1>1, <4>1
      <4> HIDE DEF i, n
      <4>3. i + 1 \in 1..n /\ i + 1 \in 1..3
        BY <4>2
      <4>4. QED
        BY <4>3 DEF i, n
    <3>3. QED
      BY <1>0, <3>1, <3>2, Moved DEF Working, ConsumerTypes
  <2>3. CASE LoopTop(c)
    <3>1. pc[c] = "top" /\ at' = at /\ (Goto(c, "stopped") \/ Goto(c, "read"))
      BY <2>3 DEF LoopTop
    <3>2. QED
      BY <1>0, <1>1, <3>1, Moved DEF Working, ConsumerTypes, ScanPlace
  <2>4. CASE SetStop(c)
    BY <1>0, <2>4 DEF SetStop, ConsumerTypes, ScanPlace
  <2>5. CASE Restart(c)
    <3>1. pc[c] \in {"stopped", "dead"} /\ at' = at /\ Goto(c, "join")
      BY <2>5 DEF Restart
    <3>2. QED
      BY <1>0, <1>1, <3>1, Moved DEF Working, ConsumerTypes
  <2>6. QED
    BY <2>1, <2>2, <2>3, <2>4, <2>5
<1>5. Types'
  <2>1. StreamTypes'
    BY <1>0, <1>2 DEF StreamTypes, Delivered
  <2>2. ConsumerTypes'
    BY <1>0, <1>2, <1>3, <1>4, Zenon DEF ConsumerTypes
  <2>3. CountTypes'
    BY <1>0, <1>2, <1>3 DEF CountTypes
  <2>4. QED
    BY <2>1, <2>2, <2>3 DEF Types
<1>6. ScanPlace'
  BY <1>0, <1>1, <1>4 DEF ScanPlace
<1>7. QED
  BY <1>2, <1>4, <1>5, <1>6, QuietStep

(* Neither do the broker's own.                                              *)
LEMMA BrokerStep ==
  ASSUME Inv, NEW p \in Priorities, publish(p) \/ ensure_all_groups(p)
  PROVE  Inv' /\ Stranded' = Stranded /\ faults' = faults
<1>0. Types /\ StreamTypes /\ ConsumerTypes /\ CountTypes
  BY DEF Inv, Types
<1>1. UNCHANGED <<cursor, pending, pc, at, batch, stopSet, handled, overtaken, faults, stops>>
  BY DEF publish, ensure_all_groups, observed, env
<1>2. StreamTypes'
  <2>1. CASE publish(p)
    <3>1. /\ published[1] \in Nat /\ published[2] \in Nat /\ published[3] \in Nat
          /\ published[1] + published[2] + published[3] < MaxTickets /\ p \in {1, 2, 3}
          /\ MaxTickets \in Nat
      BY <1>0, <2>1, BoundAssumption DEF publish, StreamTypes, Priorities
    <3>2. published[p] + 1 \in 0..MaxTickets
      BY <3>1
    <3>3. /\ published' \in [Priorities -> 0..MaxTickets]
          /\ \A q \in Priorities : published'[q] = IF q = p THEN published[p] + 1 ELSE published[q]
      BY <1>0, <2>1, <3>2 DEF publish, StreamTypes
    <3>4. \A q \in Priorities : cursor[q] =< published'[q]
      BY <1>0, <3>3 DEF StreamTypes
    <3>5. QED
      BY <1>0, <1>1, <2>1, <3>3, <3>4 DEF publish, StreamTypes, Delivered
  <2>2. CASE ensure_all_groups(p)
    BY <1>0, <1>1, <2>2 DEF ensure_all_groups, StreamTypes, Delivered
  <2>3. QED
    BY <2>1, <2>2
<1>3. ConsumerTypes' /\ ScanPlace'
  BY <1>0, <1>1 DEF ConsumerTypes, Inv, ScanPlace
<1>4. CountTypes'
  BY <1>0, <1>1 DEF CountTypes
<1>5. QED
  BY <1>1, <1>2, <1>3, <1>4, QuietStep DEF Types

LEMMA InitInv == Init => Inv /\ Stranded = {}
<1>1. SUFFICES ASSUME Init PROVE Inv /\ Stranded = {}
  OBVIOUS
<1>2. Count \in Nat /\ MaxTickets \in Nat /\ MaxFaults \in Nat /\ MaxStops \in Nat
  BY BoundAssumption
<1>3. StreamTypes
  BY <1>1, <1>2 DEF Init, StreamTypes
<1>4. ConsumerTypes
  <2>1. stopSet \in [Consumers -> BOOLEAN]
    BY <1>1, Zenon DEF Init
  <2>2. QED
    BY <1>1, <2>1 DEF Init, ConsumerTypes, PCs, Running
<1>5. CountTypes
  BY <1>1, <1>2 DEF Init, CountTypes
<1>6. ScanPlace
  BY <1>1, ScanOrders DEF Init, ScanPlace
<1>7. BatchesHeld /\ \A c \in Consumers : HeldBy(c) = {}
  <2>1. \A c \in Consumers : HeldBy(c) = {} /\ batch[c] = {} /\ pc[c] = "join"
    BY <1>1 DEF Init, HeldBy
  <2>2. QED
    BY <1>2, <2>1, FS_EmptySet DEF BatchesHeld, Working
<1>8. HandledRight
  <2>1. Delivered = {}
    <3>1. \A t \in Tickets : cursor[t[1]] = 0 /\ t[2] \in 1..MaxTickets
      BY <1>1, TicketParts DEF Init
    <3>2. QED
      BY <1>2, <3>1 DEF Delivered
  <2>2. QED
    BY <1>1, <1>7, <2>1 DEF Init, HandledRight
<1>9. QED
  BY <1>1, <1>3, <1>4, <1>5, <1>6, <1>7, <1>8 DEF Init, Inv, Types, Stranded

(* What a step may strand.                                                   *)
LEMMA NextInv ==
  ASSUME Inv, Next
  PROVE  /\ Inv'
         /\ \/ Stranded' = Stranded /\ faults' = faults
            \/ \E c \in Consumers : /\ Stranded' \subseteq Stranded \cup HeldBy(c)
                                   /\ faults' = faults + 1
<1>1. CASE \E p \in Priorities : publish(p) \/ ensure_all_groups(p)
  BY <1>1, BrokerStep
<1>2. ASSUME NEW c \in Consumers, Consumer(c) PROVE Inv' /\ Stranded' = Stranded /\ faults' = faults
  <2>1. CASE HandleTicket(c) \/ AckTicket(c)
    BY <2>1, HandleStep, AckStep DEF HandleTicket, AckTicket, env
  <2>2. QED
    BY <1>2, <2>1, ScanStep, ReadStep DEF Consumer
<1>3. ASSUME NEW c \in Consumers, HandlerRaises(c) \/ Crash(c)
      PROVE  Inv' /\ Stranded' \subseteq Stranded \cup HeldBy(c) /\ faults' = faults + 1
  BY <1>3, DieStep DEF HandlerRaises, Crash
<1>4. ASSUME NEW c \in Consumers, SetStop(c) \/ Restart(c)
      PROVE  Inv' /\ Stranded' = Stranded /\ faults' = faults
  BY <1>4, ScanStep
<1>5. QED
  BY <1>1, <1>2, <1>3, <1>4 DEF Next

LEMMA StutterInv ==
  ASSUME Inv, UNCHANGED vars
  PROVE  Inv' /\ Stranded' = Stranded
<1>1. UNCHANGED <<published, group, cursor, pending, pc, at, batch, stopSet, handled, overtaken,
                  faults, stops>>
  BY DEF vars
<1>2. Types' /\ ScanPlace'
  BY <1>1 DEF Inv, Types, StreamTypes, ConsumerTypes, CountTypes, Delivered, ScanPlace
<1>3. QED
  BY <1>1, <1>2, QuietStep

-----------------------------------------------------------------------------
(* The theorems.                                                            *)

(* However many consumers share the tiers, in whatever orders they scan them,   *)
(* and whichever of them stop, die and come back, every variable keeps the       *)
(* values its code can give it.                                              *)
THEOREM TypeCorrect == Spec => []TypeOK
<1>1. Inv /\ [Next]_vars => Inv'
  BY NextInv, StutterInv
<1>2. Inv => TypeOK
  BY TypesGiveTypeOK DEF Inv
<1>3. QED
  BY <1>1, <1>2, InitInv, PTL DEF Spec

(* A ticket acked was handled, and none is handled twice (README.md:76): who      *)
(* holds a ticket holds it alone, and acks it only after its handler.            *)
THEOREM Settled == Spec => []SettledOnce
<1>1. Inv /\ [Next]_vars => Inv'
  BY NextInv, StutterInv
<1>2. Inv => SettledOnce
  BY TypesGiveTypeOK DEF Inv, HandledRight, SettledOnce, Delivered
<1>3. QED
  BY <1>1, <1>2, InitInv, PTL DEF Spec

(* A batch is Count tickets at most, pending each one.                         *)
LEMMA HeldIsSmall ==
  ASSUME Inv, NEW c \in Consumers
  PROVE  IsFiniteSet(HeldBy(c)) /\ Cardinality(HeldBy(c)) =< Count /\ Cardinality(HeldBy(c)) \in Nat
<1>1. IsFiniteSet(batch[c]) /\ Cardinality(batch[c]) =< Count /\ Cardinality(batch[c]) \in Nat
  BY FS_CardinalityType DEF Inv, BatchesHeld
<1>2. IsFiniteSet({Tier(c)}) /\ Cardinality({Tier(c)}) = 1
  BY FS_Singleton
<1>3. /\ IsFiniteSet(HeldBy(c))
      /\ Cardinality(HeldBy(c)) = Cardinality({Tier(c)}) * Cardinality(batch[c])
  BY <1>1, <1>2, FS_Product DEF HeldBy
<1>4. QED
  BY <1>1, <1>2, <1>3

(* A fault strands one batch, and nothing else strands a ticket.                *)
LEMMA StrandStep ==
  ASSUME Inv, StrandedCharged, [Next]_vars
  PROVE  StrandedCharged'
<1>1. Count \in Nat /\ faults \in Nat
  BY BoundAssumption DEF Inv, Types, CountTypes
<1>2. IsFiniteSet(Stranded) /\ Cardinality(Stranded) \in Nat
  <2>1. Stranded \subseteq Tickets
    BY DEF Stranded, Inv, Types, StreamTypes, Delivered
  <2>2. QED
    BY <2>1, TicketsFinite, FS_Subset, FS_CardinalityType
<1>3. CASE Stranded' = Stranded /\ faults' = faults
  BY <1>3 DEF StrandedCharged
<1>4. ASSUME NEW c \in Consumers, Stranded' \subseteq Stranded \cup HeldBy(c), faults' = faults + 1
      PROVE  StrandedCharged'
  <2>1. IsFiniteSet(HeldBy(c)) /\ Cardinality(HeldBy(c)) =< Count /\ Cardinality(HeldBy(c)) \in Nat
    BY HeldIsSmall
  <2>2. /\ IsFiniteSet(Stranded \cup HeldBy(c))
        /\ Cardinality(Stranded \cup HeldBy(c)) =
             Cardinality(Stranded) + Cardinality(HeldBy(c)) - Cardinality(Stranded \cap HeldBy(c))
    BY <1>2, <2>1, FS_Union
  <2>3. Cardinality(Stranded \cap HeldBy(c)) \in Nat
    <3>1. (Stranded \cap HeldBy(c)) \in SUBSET Stranded
      OBVIOUS
    <3>2. IsFiniteSet(Stranded \cap HeldBy(c))
      BY <1>2, <3>1, FS_Subset
    <3>3. QED
      BY <3>2, FS_CardinalityType
  <2>4. /\ Cardinality(Stranded') =< Cardinality(Stranded \cup HeldBy(c))
        /\ Cardinality(Stranded') \in Nat
    BY <1>4, <2>2, FS_Subset, FS_CardinalityType
  <2>5. Count * (faults + 1) = Count * faults + Count
    BY <1>1
  <2>6. Cardinality(Stranded) =< Count * faults /\ Count * faults \in Nat
    BY <1>1 DEF StrandedCharged
  <2>7. Cardinality(Stranded') =< Count * (faults + 1)
    <3> DEFINE x == Count * faults
               y == Count * (faults + 1)
    <3> HIDE DEF x, y
    <3>1. y = x + Count /\ x \in Nat /\ Cardinality(Stranded) =< x
      BY <2>5, <2>6 DEF x, y
    <3>2. Cardinality(Stranded') =< y
      BY <1>1, <1>2, <2>1, <2>2, <2>3, <2>4, <3>1
    <3>3. QED
      BY <3>2 DEF y
  <2>8. QED
    BY <1>4, <2>7 DEF StrandedCharged
<1>5. CASE UNCHANGED vars
  BY <1>3, <1>5, StutterInv DEF vars
<1>6. QED
  BY <1>3, <1>4, <1>5, NextInv

(* Only a killed consumer or a raising handler strands tickets, one batch each,   *)
(* for every number of consumers and every count= of the reads: a stop event,     *)
(* which the loop looks at between batches, never strands one.                   *)
THEOREM StrandingPaidFor == Spec => []StrandedNeedFault
<1>1. Init => Inv /\ StrandedCharged
  <2>1. Init => faults = 0 /\ Count * 0 = 0
    BY BoundAssumption DEF Init
  <2>2. QED
    BY <2>1, InitInv, FS_EmptySet DEF StrandedCharged
<1>2. Inv /\ [Next]_vars => Inv'
  BY NextInv, StutterInv
<1>3. Inv /\ StrandedCharged /\ [Next]_vars => StrandedCharged'
  BY StrandStep
<1>4. Inv /\ StrandedCharged => StrandedNeedFault
  <2>1. Inv => Held \subseteq pending
    BY DEF Inv, BatchesHeld, Held, HeldBy
  <2>2. QED
    BY <2>1 DEF StrandedCharged, StrandedNeedFault, Stranded
<1>5. QED
  BY <1>1, <1>2, <1>3, <1>4, PTL DEF Spec

-----------------------------------------------------------------------------
(* Inversions.                                                              *)

(* A read counts against the tickets it passes over: none of them was overtaken  *)
(* by this consumer before, or the scan would have stopped at its tier.          *)
LEMMA ReadOvertakes ==
  ASSUME Inv, OvertakenOnce, NEW c \in Consumers, ReadBatch(c)
  PROVE  OvertakenOnce'
<1>0. Types /\ overtaken \in [Consumers -> [Tickets -> Nat]] /\ at[c] \in 1..Len(ScanOrder[c])
      /\ DOMAIN ScanOrder[c] = 1..Len(ScanOrder[c]) /\ Len(ScanOrder[c]) \in 1..3
  BY TierOf, ScanOrders DEF Inv, Types, CountTypes
<1>1. /\ pc[c] = "read" /\ Goto(c, "handle") /\ UNCHANGED <<published, at>>
      /\ Waiting' \subseteq Waiting
  BY ReadDelivers DEF ReadBatch
<1>2. \A d \in Consumers : pc'[d] = IF d = c THEN "handle" ELSE pc[d]
  BY <1>0, <1>1, Moved DEF Types, PCs, Running
<1>3. \A d \in Consumers, t \in Tickets :
        overtaken'[d][t] = IF d = c /\ t \in PassedOver(c) THEN overtaken[d][t] + 1 ELSE overtaken[d][t]
  <2>1. overtaken' = [overtaken EXCEPT ![c] = [t \in Tickets |->
          IF t \in PassedOver(c) THEN overtaken[c][t] + 1 ELSE overtaken[c][t]]]
    BY DEF ReadBatch
  <2>2. QED
    BY <1>0, <2>1
<1>4. ASSUME NEW t \in Tickets, t \in PassedOver(c)
      PROVE  overtaken[c][t] = 0 /\ t[2] =< published[t[1]]
  <2>1. t \in Waiting
    BY <1>4 DEF PassedOver
  <2>2. PICK i \in 1..(at[c] - 1) : ScanOrder[c][i] = t[1]
    BY <1>4 DEF PassedOver
  <2>3. i \in DOMAIN ScanOrder[c] /\ ~(at[c] =< i)
    <3> DEFINE a == at[c]
               n == Len(ScanOrder[c])
    <3>1. a \in 1..n /\ n \in 1..3 /\ i \in 1..(a - 1)
      BY <1>0
    <3> HIDE DEF a, n
    <3>2. i \in 1..n /\ ~(a =< i)
      BY <3>1
    <3>3. QED
      BY <1>0, <3>2 DEF a, n
  <2>4. overtaken[c][t] = 0
    BY <1>1, <2>1, <2>2, <2>3 DEF OvertakenOnce
  <2>5. t[2] \in (cursor[t[1]] + 1)..published[t[1]]
    BY <2>1 DEF Waiting, Fresh
  <2>6. QED
    BY <2>4, <2>5
<1>5. ASSUME NEW d \in Consumers, NEW t \in Tickets
      PROVE  /\ overtaken'[d][t] =< 1
             /\ t[2] > published'[t[1]] => overtaken'[d][t] = 0
             /\ overtaken'[d][t] # 0 /\ t \in Waiting' /\ pc'[d] = "read" =>
                  \A i \in DOMAIN ScanOrder[d] : ScanOrder[d][i] = t[1] => at'[d] =< i
  <2>1. CASE d = c /\ t \in PassedOver(c)
    <3>1. overtaken'[d][t] = 1 /\ pc'[d] # "read"
      BY <1>2, <1>3, <1>4, <2>1
    <3>2. ~(t[2] > published'[t[1]])
      <4>1. t[2] \in Nat /\ published[t[1]] \in Nat
        BY <1>0, TicketParts, BoundAssumption DEF Types, StreamTypes
      <4>2. QED
        BY <1>1, <1>4, <2>1, <4>1
    <3>3. QED
      BY <3>1, <3>2
  <2>2. CASE ~(d = c /\ t \in PassedOver(c))
    <3>1. overtaken'[d][t] = overtaken[d][t]
      BY <1>3, <2>2
    <3>2. pc'[d] = "read" => pc[d] = "read"
      BY <1>2
    <3>3. QED
      BY <1>1, <3>1, <3>2 DEF OvertakenOnce
  <2>3. QED
    BY <2>1, <2>2
<1>6. QED
  BY <1>5 DEF OvertakenOnce

(* Any other step overtakes nobody, and a scan that moves on moves past an       *)
(* empty tier, where no ticket waits.                                         *)
LEMMA OtherOvertakes ==
  ASSUME Inv, Inv', OvertakenOnce, UNCHANGED overtaken,
         \A p \in Priorities : published'[p] \in Nat /\ published[p] =< published'[p],
         \A t \in Waiting' : t \in Waiting \/ t[2] > published[t[1]],
         \A c \in Consumers : pc'[c] = "read" =>
           \/ at'[c] = 1
           \/ pc[c] = "read" /\ at'[c] = at[c]
           \/ pc[c] = "read" /\ at'[c] = at[c] + 1 /\ Fresh(Tier(c)) = {}
  PROVE  OvertakenOnce'
<1>1. ASSUME NEW c \in Consumers, NEW t \in Tickets
      PROVE  /\ overtaken'[c][t] =< 1
             /\ t[2] > published'[t[1]] => overtaken'[c][t] = 0
  <2>1. t[2] \in Nat /\ published[t[1]] \in Nat /\ published'[t[1]] \in Nat
        /\ published[t[1]] =< published'[t[1]]
    BY TicketParts, BoundAssumption DEF Inv, Types, StreamTypes
  <2>2. t[2] > published'[t[1]] => t[2] > published[t[1]]
    BY <2>1
  <2>3. QED
    BY <2>2 DEF OvertakenOnce
<1>2. ASSUME NEW c \in Consumers, NEW t \in Tickets, overtaken'[c][t] # 0, t \in Waiting',
             pc'[c] = "read", NEW i \in DOMAIN ScanOrder[c], ScanOrder[c][i] = t[1]
      PROVE  at'[c] =< i
  <2>1. t \in Waiting /\ overtaken[c][t] # 0
    BY <1>2 DEF OvertakenOnce
  <2>2. i \in Nat /\ i >= 1 /\ at[c] \in Nat
    BY ScanOrders DEF Inv, Types, ConsumerTypes
  <2>3. CASE at'[c] = 1
    BY <2>2, <2>3
  <2>4. CASE pc[c] = "read" /\ at'[c] = at[c]
    BY <1>2, <2>1, <2>4 DEF OvertakenOnce
  <2>5. CASE pc[c] = "read" /\ at'[c] = at[c] + 1 /\ Fresh(Tier(c)) = {}
    <3>1. at[c] =< i
      BY <1>2, <2>1, <2>5 DEF OvertakenOnce
    <3>2. at[c] # i
      BY <1>2, <2>1, <2>5 DEF Waiting, Tier
    <3>3. QED
      BY <2>2, <2>5, <3>1, <3>2
  <2>6. QED
    BY <1>2, <2>3, <2>4, <2>5
<1>3. QED
  BY <1>1, <1>2 DEF OvertakenOnce

LEMMA OvertakeStep ==
  ASSUME Inv, OvertakenOnce, [Next]_vars
  PROVE  OvertakenOnce'
<1>0. Inv' /\ Types /\ ConsumerTypes /\ ScanPlace
      /\ \A p \in Priorities : published[p] \in Nat /\ published'[p] \in Nat
  <2>1. Inv'
    BY NextInv, StutterInv
  <2>2. QED
    BY <2>1, BoundAssumption DEF Inv, Types, StreamTypes
<1>1. ASSUME NEW p \in Priorities, publish(p) \/ ensure_all_groups(p)
      PROVE  OvertakenOnce'
  <2>1. UNCHANGED <<cursor, pc, at, overtaken>>
    BY <1>1 DEF publish, ensure_all_groups, observed
  <2>2. \A q \in Priorities : published'[q] = published[q] \/ published'[q] = published[q] + 1
    BY <1>0, <1>1 DEF publish, ensure_all_groups, Inv, Types, StreamTypes
  <2>3. \A q \in Priorities : published[q] =< published'[q]
    BY <1>0, <2>2
  <2>4. ASSUME NEW t \in Waiting' PROVE t \in Waiting \/ t[2] > published[t[1]]
    <3>1. /\ t \in Tickets /\ t[1] \in Priorities /\ t[2] \in Nat
          /\ t[2] \in (cursor[t[1]] + 1)..published'[t[1]]
      BY <2>1, TicketParts, BoundAssumption DEF Waiting, Fresh
    <3>2. CASE t[2] =< published[t[1]]
      <4>1. t[2] \in (cursor[t[1]] + 1)..published[t[1]]
        BY <1>0, <3>1, <3>2
      <4>2. QED
        BY <3>1, <4>1 DEF Waiting, Fresh
    <3>3. QED
      BY <1>0, <3>1, <3>2
  <2>5. QED
    BY <1>0, <2>1, <2>3, <2>4, OtherOvertakes
<1>2. ASSUME NEW c \in Consumers, ReadBatch(c) PROVE OvertakenOnce'
  BY <1>2, ReadOvertakes
<1>3. ASSUME NEW c \in Consumers,
             UNCHANGED <<published, cursor, overtaken>>,
             \A d \in Consumers \ {c} : pc'[d] = pc[d] /\ at'[d] = at[d],
             pc'[c] = "read" =>
               \/ at'[c] = 1
               \/ pc[c] = "read" /\ at'[c] = at[c]
               \/ pc[c] = "read" /\ at'[c] = at[c] + 1 /\ Fresh(Tier(c)) = {}
      PROVE  OvertakenOnce'
  <2>1. Waiting' = Waiting
    BY <1>3 DEF Waiting, Fresh
  <2>2. \A p \in Priorities : published[p] =< published'[p]
    BY <1>0, <1>3
  <2>3. QED
    BY <1>0, <1>3, <2>1, <2>2, OtherOvertakes
<1>4. ASSUME NEW c \in Consumers,
             \/ ensure_group(c) \/ LoopTop(c) \/ ReadNothing(c) \/ HandleTicket(c) \/ AckTicket(c)
             \/ HandlerRaises(c) \/ Crash(c) \/ SetStop(c) \/ Restart(c)
      PROVE  /\ UNCHANGED <<published, cursor, overtaken>>
             /\ \A d \in Consumers \ {c} : pc'[d] = pc[d] /\ at'[d] = at[d]
             /\ pc'[c] = "read" =>
                  \/ at'[c] = 1
                  \/ pc[c] = "read" /\ at'[c] = at[c]
                  \/ pc[c] = "read" /\ at'[c] = at[c] + 1 /\ Fresh(Tier(c)) = {}
  <2>1. UNCHANGED <<published, cursor, overtaken>>
    BY <1>4 DEF ensure_group, LoopTop, ReadNothing, HandleTicket, AckTicket, HandlerRaises, Crash,
         Dies, SetStop, Restart, streams, observed
  <2>2. pc \in [Consumers -> PCs] /\ at \in [Consumers -> 1..3]
    BY <1>0 DEF ConsumerTypes
  <2>3. \A d \in Consumers \ {c} : pc'[d] = pc[d] /\ at'[d] = at[d]
    BY <1>4, <2>2 DEF ensure_group, LoopTop, ReadNothing, HandleTicket, AckTicket, HandlerRaises,
         Crash, Dies, SetStop, Restart, Goto, ScanFrom
  <2>4. CASE ReadNothing(c)
    <3>1. pc[c] = "read" /\ Fresh(Tier(c)) = {}
          /\ (Goto(c, "top") \/ (UNCHANGED pc /\ ScanFrom(c, at[c] + 1)))
      BY <2>4 DEF ReadNothing
    <3>2. QED
      BY <2>1, <2>2, <2>3, <3>1 DEF Goto, ScanFrom
  <2>5. CASE LoopTop(c)
    BY <1>0, <2>1, <2>2, <2>3, <2>5 DEF LoopTop, ScanPlace
  <2>6. CASE SetStop(c)
    BY <2>1, <2>2, <2>3, <2>6 DEF SetStop
  <2>7. CASE \/ ensure_group(c) \/ HandleTicket(c) \/ AckTicket(c)
             \/ HandlerRaises(c) \/ Crash(c) \/ Restart(c)
    <3>1. pc'[c] # "read"
      BY <2>2, <2>7 DEF ensure_group, HandleTicket, AckTicket, HandlerRaises, Crash, Dies, Restart, Goto
    <3>2. QED
      BY <2>1, <2>3, <3>1
  <2>8. QED
    BY <1>4, <2>4, <2>5, <2>6, <2>7
<1>5. CASE UNCHANGED vars
  <2>1. UNCHANGED <<published, cursor, overtaken, pc, at>>
    BY <1>5 DEF vars
  <2>2. Waiting' = Waiting
    BY <2>1 DEF Waiting, Fresh
  <2>3. QED
    BY <2>1, <2>2 DEF OvertakenOnce
<1>6. QED
  BY <1>1, <1>2, <1>3, <1>4, <1>5 DEF Next, Consumer

(* Strict priority as the scan gives it (consumer.py:81), for every scan order:   *)
(* while a ticket waits, a consumer that scans its tier takes one batch at most   *)
(* from the tiers after it, since its next pass finds the ticket first.          *)
THEOREM InversionsBounded == Spec => []InversionBounded
<1>1. Init => OvertakenOnce
  BY DEF Init, OvertakenOnce
<1>2. Inv /\ [Next]_vars => Inv'
  BY NextInv, StutterInv
<1>3. Inv /\ OvertakenOnce /\ [Next]_vars => OvertakenOnce'
  BY OvertakeStep
<1>4. OvertakenOnce => InversionBounded
  BY DEF OvertakenOnce, InversionBounded
<1>5. QED
  BY <1>1, <1>2, <1>3, <1>4, InitInv, PTL DEF Spec
=============================================================================
