---------------------- MODULE CompetingConsumersProofs ----------------------
(***************************************************************************)
(* Proofs about CompetingConsumers for every set of consumers, batch size     *)
(* and number of tasks and faults: type correctness, no lost task, and the    *)
(* refinement of AtLeastOnce.                                                 *)
(***************************************************************************)
EXTENDS CompetingConsumers, StreamOpsProofs

InBatch == {"handleOld", "ackOld", "handleNew", "ackNew"}

(* Nobody reads before the group exists, and it starts at the first task.    *)
GroupFirst ==
  /\ ~group => cursor = 0
  /\ \A c \in Consumers : pc[c] \in {"reclaim", "read"} \cup InBatch => group

(* A consumer inside _handle_batch has a task, and acks what it handled.      *)
ConsumerPosition ==
  \A c \in Consumers :
    /\ pc[c] \in InBatch => batch[c] # {}
    /\ pc[c] \in {"ackOld", "ackNew"} => handled[Oldest(batch[c])] > 0

(* Nobody handles a task the group has not delivered.                        *)
HandledWasDelivered ==
  \A m \in TaskIds : handled[m] > 0 => m =< cursor

Inv ==
  /\ TypeOK
  /\ GroupFirst
  /\ ConsumerPosition
  /\ HandledWasDelivered
  /\ NoTaskLost

-----------------------------------------------------------------------------
(* The new tasks a read delivers, as read_new computes them.                 *)
NewTasks == FirstN({m \in TaskIds : cursor < m /\ m =< published}, Count)

(* A read of something new moves the cursor over exactly what it delivered:   *)
(* no task is skipped and none is delivered twice.                           *)
LEMMA ReadSkipsNothing ==
  ASSUME TypeOK, NewTasks # {}
  PROVE  /\ NewTasks \subseteq TaskIds
         /\ \A m \in NewTasks : cursor < m /\ m =< published
         /\ Newest(NewTasks) \in 0..published
         /\ cursor =< Newest(NewTasks)
         /\ 1..Newest(NewTasks) = (1..cursor) \cup NewTasks
<1> DEFINE unread == {m \in TaskIds : cursor < m /\ m =< published}
<1>1. cursor \in Nat /\ published \in Nat /\ MaxTasks \in Nat /\ published =< MaxTasks
      /\ cursor =< published
  BY BoundAssumption DEF TypeOK
<1>2. unread \in SUBSET Nat /\ IsFiniteSet(unread)
  <2>1. IsFiniteSet(TaskIds)
    BY <1>1, FS_Interval DEF TaskIds
  <2>2. unread \in SUBSET TaskIds
    OBVIOUS
  <2>3. IsFiniteSet(unread)
    BY <2>1, <2>2, FS_Subset
  <2>4. TaskIds \subseteq Nat
    BY <1>1 DEF TaskIds
  <2>5. QED
    BY <2>2, <2>3, <2>4
<1>3. /\ NewTasks \subseteq unread
      /\ \A i \in unread, k \in NewTasks : i < k => i \in NewTasks
  BY <1>2, CountAssumption, FirstNIsHead DEF NewTasks
<1>4. NewTasks \in SUBSET (0..MaxTasks)
  BY <1>3 DEF TaskIds
<1>5. Newest(NewTasks) \in NewTasks /\ \A j \in NewTasks : j =< Newest(NewTasks)
  BY <1>1, <1>4, NewestIsGreatest
<1>6. Newest(NewTasks) \in Nat /\ cursor < Newest(NewTasks) /\ Newest(NewTasks) =< published
  <2>1. Newest(NewTasks) \in unread
    BY <1>3, <1>5
  <2>2. QED
    BY <1>2, <2>1
<1>7. ASSUME NEW m \in 1..Newest(NewTasks) PROVE m \in (1..cursor) \cup NewTasks
  <2>1. CASE m =< cursor
    BY <1>1, <2>1
  <2>2. CASE ~(m =< cursor)
    <3>1. m \in unread
      BY <1>1, <1>6, <2>2 DEF TaskIds
    <3>2. m = Newest(NewTasks) \/ m < Newest(NewTasks)
      BY <1>6
    <3>3. QED
      BY <1>3, <1>5, <3>1, <3>2
  <2>3. QED
    BY <2>1, <2>2
<1>8. ASSUME NEW m \in (1..cursor) \cup NewTasks PROVE m \in 1..Newest(NewTasks)
  <2>1. CASE m \in 1..cursor
    BY <1>1, <1>6, <2>1
  <2>2. CASE m \in NewTasks
    <3>1. m \in TaskIds /\ m =< Newest(NewTasks)
      BY <1>3, <1>5, <2>2
    <3>2. QED
      BY <1>6, <3>1 DEF TaskIds
  <2>3. QED
    BY <2>1, <2>2
<1>9. 1..Newest(NewTasks) = (1..cursor) \cup NewTasks
  BY <1>7, <1>8
<1>10. NewTasks \subseteq TaskIds /\ \A m \in NewTasks : cursor < m /\ m =< published
  BY <1>3
<1>11. Newest(NewTasks) \in 0..published /\ cursor =< Newest(NewTasks)
  BY <1>1, <1>6
<1>12. QED
  BY <1>9, <1>10, <1>11

(* What reclaim_stale claims was already pending.                            *)
LEMMA ReclaimTakesPending ==
  ASSUME TypeOK
  PROVE  FirstN(stale, Count) \subseteq stale /\ FirstN(stale, Count) \subseteq pending
  BY DEF FirstN, TypeOK

(* The task a consumer inside _handle_batch works on was delivered.          *)
LEMMA CurrentTask ==
  ASSUME TypeOK, ConsumerPosition, NEW c \in Consumers, pc[c] \in InBatch
  PROVE  /\ Oldest(batch[c]) \in batch[c]
         /\ Oldest(batch[c]) \in 1..cursor
         /\ Oldest(batch[c]) \in TaskIds
<1>1. batch[c] # {} /\ batch[c] \subseteq 1..cursor
  BY DEF ConsumerPosition, TypeOK
<1>2. cursor \in 0..MaxTasks
  BY BoundAssumption DEF TypeOK
<1>3. batch[c] \in SUBSET Nat
  BY <1>1, <1>2
<1>4. Oldest(batch[c]) \in batch[c]
  BY <1>1, <1>3, OldestIsLeast
<1>5. Oldest(batch[c]) \in 1..cursor
  BY <1>1, <1>4
<1>6. QED
  BY <1>2, <1>4, <1>5, BoundAssumption DEF TaskIds
-----------------------------------------------------------------------------
LEMMA InitInv == Init => Inv
<1>1. SUFFICES ASSUME Init PROVE Inv
  OBVIOUS
<1>2. TypeOK
  <2>1. published \in 0..MaxTasks /\ cursor \in 0..published
    BY <1>1, BoundAssumption DEF Init
  <2>2. group \in BOOLEAN /\ stopSet \in [Consumers -> BOOLEAN]
    BY <1>1, Zenon DEF Init
  <2>3. pending \subseteq 1..cursor /\ stale \subseteq pending
    BY <1>1 DEF Init
  <2>4. owner \in [TaskIds -> Consumers \cup {NoOwner}]
    BY <1>1 DEF Init
  <2>5. reclaims \in [TaskIds -> Nat] /\ handled \in [TaskIds -> Nat]
    BY <1>1 DEF Init
  <2>6. pc \in [Consumers -> PCs] /\ batch \in [Consumers -> SUBSET (1..cursor)]
    BY <1>1 DEF Init, PCs
  <2>7. crashes \in 0..MaxCrashes /\ overruns \in 0..MaxOverruns /\ restarts \in 0..MaxRestarts
    BY <1>1, BoundAssumption DEF Init
  <2>8. QED
    BY <2>1, <2>2, <2>3, <2>4, <2>5, <2>6, <2>7 DEF TypeOK
<1>3. GroupFirst /\ ConsumerPosition
  BY <1>1 DEF Init, GroupFirst, ConsumerPosition, InBatch
<1>4. HandledWasDelivered /\ NoTaskLost
  BY <1>1 DEF Init, HandledWasDelivered, NoTaskLost
<1>5. QED
  BY <1>2, <1>3, <1>4 DEF Inv

(* A consumer that moves to a place outside _handle_batch, or back to the      *)
(* start of a nonempty batch, keeps every consumer's position correct.         *)
LEMMA MoveKeepsPosition ==
  ASSUME TypeOK, ConsumerPosition, UNCHANGED handled,
         NEW c \in Consumers, NEW label \in PCs, Goto(c, label),
         NEW b, batch' = [batch EXCEPT ![c] = b],
         label \notin {"ackOld", "ackNew"}, label \in InBatch => b # {}
  PROVE  ConsumerPosition'
<1>1. SUFFICES ASSUME NEW d \in Consumers
               PROVE  /\ pc'[d] \in InBatch => batch'[d] # {}
                      /\ pc'[d] \in {"ackOld", "ackNew"} => handled'[Oldest(batch'[d])] > 0
  BY DEF ConsumerPosition
<1>2. CASE d = c
  <2>1. pc'[c] = label /\ batch'[c] = b
    BY DEF TypeOK, Goto
  <2>2. QED
    BY <1>2, <2>1
<1>3. CASE d # c
  <2>1. pc'[d] = pc[d] /\ batch'[d] = batch[d]
    BY <1>3 DEF TypeOK, Goto
  <2>2. QED
    BY <2>1 DEF ConsumerPosition
<1>4. QED
  BY <1>2, <1>3

(* ensure_group.                                                             *)
LEMMA EnsureGroupStep ==
  ASSUME Inv, NEW c \in Consumers, ensure_group(c)
  PROVE  Inv'
<1> USE DEF ensure_group
<1>0. TypeOK /\ GroupFirst /\ ConsumerPosition
  BY DEF Inv
<1>1. cursor' = cursor
  BY <1>0 DEF GroupFirst
<1>2. group' = TRUE \/ (group' = group /\ group)
  BY Zenon
<1>3. group' /\ group' \in BOOLEAN
  BY <1>2, Zenon
<1>4. pc' \in [Consumers -> PCs]
  BY <1>0 DEF TypeOK, Goto, PCs
<1>5. TypeOK'
  BY <1>0, <1>1, <1>3, <1>4 DEF TypeOK, env
<1>6. GroupFirst'
  BY <1>3 DEF GroupFirst
<1>7. ConsumerPosition'
  <2>1. batch' = [batch EXCEPT ![c] = batch[c]]
    BY <1>0 DEF TypeOK
  <2>2. "reclaim" \in PCs /\ "reclaim" \notin InBatch /\ "reclaim" \notin {"ackOld", "ackNew"}
    BY DEF PCs, InBatch
  <2>3. UNCHANGED handled /\ Goto(c, "reclaim")
    OBVIOUS
  <2>4. QED
    BY <1>0, <2>1, <2>2, <2>3, MoveKeepsPosition
<1>8. HandledWasDelivered' /\ NoTaskLost'
  BY <1>1 DEF Inv, HandledWasDelivered, NoTaskLost
<1>9. QED
  BY <1>5, <1>6, <1>7, <1>8 DEF Inv

(* XAUTOCLAIM only moves pending tasks to a new owner.                       *)
LEMMA ReclaimStep ==
  ASSUME Inv, NEW c \in Consumers, reclaim_stale(c)
  PROVE  Inv' /\ pending' = pending
<1> DEFINE claimed == FirstN(stale, Count)
           label == IF claimed = {} THEN "read" ELSE "handleOld"
<1> USE DEF reclaim_stale, Deliver
<1>0. TypeOK /\ GroupFirst /\ ConsumerPosition
  BY DEF Inv
<1>1. claimed \subseteq stale /\ claimed \subseteq pending
  BY <1>0, ReclaimTakesPending
<1>2. pending' = pending /\ cursor' = cursor /\ published' = published
  BY <1>1
<1>3. label \in PCs /\ label \notin {"ackOld", "ackNew"} /\ (label \in InBatch => claimed # {})
  BY DEF PCs, InBatch
<1>4. TypeOK'
  <2>1. claimed \subseteq 1..cursor
    BY <1>0, <1>1 DEF TypeOK
  <2>2. batch' \in [Consumers -> SUBSET (1..cursor)]
    BY <1>0, <2>1 DEF TypeOK
  <2>3. pc' \in [Consumers -> PCs]
    BY <1>0, <1>3 DEF TypeOK, Goto
  <2>4. owner' \in [TaskIds -> Consumers \cup {NoOwner}]
    BY <1>0 DEF TypeOK
  <2>5. reclaims' \in [TaskIds -> Nat]
    BY <1>0 DEF TypeOK
  <2>6. stale' \subseteq pending'
    BY <1>0, <1>2 DEF TypeOK
  <2>7. QED
    BY <1>0, <1>2, <2>2, <2>3, <2>4, <2>5, <2>6 DEF TypeOK, env
<1>5. GroupFirst'
  <2>1. group
    BY <1>0 DEF GroupFirst
  <2>2. QED
    BY <2>1 DEF GroupFirst
<1>6. ConsumerPosition'
  BY <1>0, <1>3, MoveKeepsPosition
<1>7. HandledWasDelivered' /\ NoTaskLost'
  BY <1>2 DEF Inv, HandledWasDelivered, NoTaskLost
<1>8. QED
  BY <1>2, <1>4, <1>5, <1>6, <1>7 DEF Inv

(* XREADGROUP moves the cursor over what it puts on the pending list.         *)
LEMMA ReadStep ==
  ASSUME Inv, NEW c \in Consumers, read_new(c)
  PROVE  /\ Inv'
         /\ (1..cursor') \ pending' = (1..cursor) \ pending
<1> DEFINE label == IF NewTasks = {} THEN "reclaim" ELSE "handleNew"
<1>0. TypeOK /\ GroupFirst /\ ConsumerPosition
  BY DEF Inv
<1>1. /\ pc[c] = "read"
      /\ Deliver(c, NewTasks)
      /\ cursor' = IF NewTasks = {} THEN cursor ELSE Newest(NewTasks)
      /\ Goto(c, label)
      /\ UNCHANGED <<published, group, reclaims, handled, stopSet, env>>
  BY DEF read_new, NewTasks
<1>2. /\ NewTasks \subseteq TaskIds
      /\ \A m \in NewTasks : cursor < m
      /\ cursor' \in 0..published /\ cursor =< cursor'
      /\ 1..cursor' = (1..cursor) \cup NewTasks
  <2>1. CASE NewTasks = {}
    BY <1>0, <1>1, <2>1 DEF TypeOK
  <2>2. CASE NewTasks # {}
    BY <1>0, <1>1, <2>2, ReadSkipsNothing
  <2>3. QED
    BY <2>1, <2>2
<1>3. pending' = pending \cup NewTasks /\ batch' = [batch EXCEPT ![c] = NewTasks]
  BY <1>1 DEF Deliver
<1>4. label \in PCs /\ label \notin {"ackOld", "ackNew"} /\ (label \in InBatch => NewTasks # {})
  BY DEF PCs, InBatch
<1>5. TypeOK'
  <2>1. cursor' \in 0..published'
    BY <1>1, <1>2
  <2>2. pending' \subseteq 1..cursor' /\ stale' \subseteq pending'
    BY <1>0, <1>1, <1>2, <1>3 DEF TypeOK, Deliver
  <2>3. batch' \in [Consumers -> SUBSET (1..cursor')]
    BY <1>0, <1>2, <1>3 DEF TypeOK
  <2>4. pc' \in [Consumers -> PCs]
    BY <1>0, <1>1, <1>4 DEF TypeOK, Goto
  <2>5. owner' \in [TaskIds -> Consumers \cup {NoOwner}]
    BY <1>0, <1>1 DEF TypeOK, Deliver
  <2>6. QED
    BY <1>0, <1>1, <2>1, <2>2, <2>3, <2>4, <2>5 DEF TypeOK, env
<1>6. GroupFirst'
  <2>1. group
    BY <1>0, <1>1 DEF GroupFirst
  <2>2. QED
    BY <1>1, <2>1 DEF GroupFirst
<1>7. ConsumerPosition'
  BY <1>0, <1>1, <1>3, <1>4, MoveKeepsPosition
<1>8. (1..cursor') \ pending' = (1..cursor) \ pending
  <2>1. \A m \in 1..cursor : m \notin NewTasks
    BY <1>0, <1>2 DEF TypeOK
  <2>2. QED
    BY <1>2, <1>3, <2>1
<1>9. NoTaskLost'
  BY <1>1, <1>8 DEF Inv, NoTaskLost
<1>10. HandledWasDelivered'
  <2>1. ASSUME NEW m \in TaskIds, handled[m] > 0 PROVE m =< cursor'
    <3>1. m =< cursor
      BY <2>1 DEF Inv, HandledWasDelivered
    <3>2. m \in Nat /\ cursor \in Nat /\ cursor' \in Nat
      BY <1>0, <1>2 DEF TypeOK, TaskIds
    <3>3. QED
      BY <1>2, <3>1, <3>2
  <2>2. QED
    BY <1>1, <2>1 DEF HandledWasDelivered
<1>11. QED
  BY <1>5, <1>6, <1>7, <1>8, <1>9, <1>10 DEF Inv
(* The handler of the current task returns.                                  *)
LEMMA HandleStep ==
  ASSUME Inv, NEW c \in Consumers, HandleTask(c)
  PROVE  /\ Inv'
         /\ Oldest(batch[c]) \in TaskIds
         /\ {m \in TaskIds : handled'[m] > 0}
              = {m \in TaskIds : handled[m] > 0} \cup {Oldest(batch[c])}
<1> DEFINE cur == Oldest(batch[c])
           label == IF pc[c] = "handleOld" THEN "ackOld" ELSE "ackNew"
<1> USE DEF HandleTask
<1>0. TypeOK /\ GroupFirst /\ ConsumerPosition
  BY DEF Inv
<1>1. pc[c] \in InBatch
  BY DEF InBatch
<1>2. cur \in batch[c] /\ cur \in 1..cursor /\ cur \in TaskIds
  BY <1>0, <1>1, CurrentTask
<1>3. /\ handled' \in [TaskIds -> Nat]
      /\ handled'[cur] > 0
      /\ \A m \in TaskIds : m # cur => handled'[m] = handled[m]
  BY <1>0, <1>2 DEF TypeOK
<1>4. \A m \in TaskIds : handled[m] > 0 => handled'[m] > 0
  BY <1>3
<1>5. label \in PCs /\ Goto(c, label) /\ label \in InBatch
  BY DEF PCs, InBatch
<1>6. TypeOK'
  <2>1. pc' \in [Consumers -> PCs]
    BY <1>0, <1>5 DEF TypeOK, Goto
  <2>2. QED
    BY <1>0, <1>3, <2>1 DEF TypeOK, redis, env
<1>7. GroupFirst'
  <2>1. group
    BY <1>0, <1>1 DEF GroupFirst
  <2>2. QED
    BY <2>1 DEF GroupFirst, redis
<1>8. ConsumerPosition'
  <2>1. SUFFICES ASSUME NEW d \in Consumers
                 PROVE  /\ pc'[d] \in InBatch => batch'[d] # {}
                        /\ pc'[d] \in {"ackOld", "ackNew"} => handled'[Oldest(batch'[d])] > 0
    BY DEF ConsumerPosition
  <2>2. CASE d = c
    BY <1>2, <1>3, <2>2
  <2>3. CASE d # c
    <3>1. pc'[d] = pc[d] /\ batch'[d] = batch[d]
      BY <1>0, <2>3 DEF TypeOK, Goto
    <3>2. pc[d] \in InBatch => Oldest(batch[d]) \in TaskIds
      BY <1>0, CurrentTask
    <3>3. pc[d] \in {"ackOld", "ackNew"} => handled[Oldest(batch[d])] > 0 /\ pc[d] \in InBatch
      BY <1>0 DEF ConsumerPosition, InBatch
    <3>4. pc[d] \in {"ackOld", "ackNew"} => handled'[Oldest(batch[d])] > 0
      BY <1>4, <3>2, <3>3
    <3>5. QED
      BY <1>0, <3>1, <3>4 DEF ConsumerPosition
  <2>4. QED
    BY <2>2, <2>3
<1>9. cursor' = cursor /\ pending' = pending /\ cursor \in 0..MaxTasks
  BY <1>0, BoundAssumption DEF TypeOK, redis
<1>10. HandledWasDelivered'
  <2>1. \A m \in TaskIds : m # cur /\ handled'[m] > 0 => m =< cursor
    BY <1>3 DEF Inv, HandledWasDelivered
  <2>2. cur =< cursor
    BY <1>2, <1>9
  <2>3. QED
    BY <1>9, <2>1, <2>2 DEF HandledWasDelivered
<1>11. NoTaskLost'
  <2>1. \A m \in 1..cursor : m \in TaskIds
    BY <1>9, BoundAssumption DEF TaskIds
  <2>2. QED
    BY <1>4, <1>9, <2>1 DEF Inv, NoTaskLost
<1>12. {m \in TaskIds : handled'[m] > 0} = {m \in TaskIds : handled[m] > 0} \cup {cur}
  BY <1>2, <1>3
<1>13. QED
  BY <1>2, <1>6, <1>7, <1>8, <1>10, <1>11, <1>12 DEF Inv

(* XACK of the current task, whoever owns it by then.                        *)
LEMMA AckStep ==
  ASSUME Inv, NEW c \in Consumers, AckTask(c)
  PROVE  /\ Inv'
         /\ Oldest(batch[c]) \in 1..cursor
         /\ Oldest(batch[c]) \in TaskIds
         /\ handled[Oldest(batch[c])] > 0
<1> DEFINE cur == Oldest(batch[c])
           rest == batch[c] \ {cur}
           label == CASE rest # {} /\ pc[c] = "ackOld" -> "handleOld"
                      [] rest # {} /\ pc[c] = "ackNew" -> "handleNew"
                      [] rest = {} /\ pc[c] = "ackOld" -> "read"
                      [] rest = {} /\ pc[c] = "ackNew" -> "reclaim"
<1> USE DEF AckTask, Acknowledge
<1>0. TypeOK /\ GroupFirst /\ ConsumerPosition
  BY DEF Inv
<1>1. pc[c] \in InBatch /\ handled[cur] > 0
  BY <1>0 DEF InBatch, ConsumerPosition
<1>2. cur \in batch[c] /\ cur \in 1..cursor /\ cur \in TaskIds
  BY <1>0, <1>1, CurrentTask
<1>3. batch' = [batch EXCEPT ![c] = rest] /\ batch'[c] = rest
  BY <1>0 DEF TypeOK
<1>4. Goto(c, label)
  BY <1>3
<1>5. label \in {"read", "reclaim", "handleOld", "handleNew"} /\ (label \in InBatch => rest # {})
  BY DEF InBatch
<1>6. TypeOK'
  <2>1. pc' \in [Consumers -> PCs]
    BY <1>0, <1>4, <1>5 DEF TypeOK, Goto, PCs
  <2>2. batch' \in [Consumers -> SUBSET (1..cursor)]
    BY <1>0, <1>3 DEF TypeOK
  <2>3. owner' \in [TaskIds -> Consumers \cup {NoOwner}]
    BY <1>0 DEF TypeOK
  <2>4. pending' \subseteq 1..cursor /\ stale' \subseteq pending'
    BY <1>0 DEF TypeOK
  <2>5. QED
    BY <1>0, <2>1, <2>2, <2>3, <2>4 DEF TypeOK, env
<1>7. GroupFirst'
  <2>1. group
    BY <1>0, <1>1 DEF GroupFirst
  <2>2. QED
    BY <2>1 DEF GroupFirst
<1>8. ConsumerPosition'
  <2>1. label \in PCs /\ label \notin {"ackOld", "ackNew"}
    BY <1>5 DEF PCs
  <2>2. QED
    BY <1>0, <1>3, <1>4, <1>5, <2>1, MoveKeepsPosition
<1>9. HandledWasDelivered' /\ NoTaskLost'
  BY <1>1 DEF Inv, HandledWasDelivered, NoTaskLost
<1>10. QED
  BY <1>1, <1>2, <1>6, <1>7, <1>8, <1>9 DEF Inv
(* A consumer that ends or starts again between two batches.                 *)
LEMMA LeaveStep ==
  ASSUME Inv, TypeOK', UNCHANGED <<redis, handled>>, NEW c \in Consumers,
         NEW label \in {"stopped", "dead", "join"}, Goto(c, label),
         NEW b, batch' = [batch EXCEPT ![c] = b]
  PROVE  Inv'
<1>0. TypeOK /\ GroupFirst /\ ConsumerPosition
  BY DEF Inv
<1>1. label \in PCs /\ label \notin {"ackOld", "ackNew"} /\ label \notin InBatch
      /\ label \notin {"reclaim", "read"}
  BY DEF PCs, InBatch
<1>2. ConsumerPosition'
  BY <1>0, <1>1, MoveKeepsPosition
<1>3. GroupFirst'
  <2>1. \A d \in Consumers : pc'[d] = pc[d] \/ pc'[d] = label
    BY <1>0 DEF TypeOK, Goto
  <2>2. ~group' => cursor' = 0
    BY <1>0 DEF GroupFirst, redis
  <2>3. ASSUME NEW d \in Consumers, pc'[d] \in {"reclaim", "read"} \cup InBatch PROVE group'
    <3>1. pc'[d] = pc[d]
      BY <1>1, <2>1, <2>3
    <3>2. group
      BY <1>0, <2>3, <3>1 DEF GroupFirst
    <3>3. QED
      BY <3>2 DEF redis
  <2>4. QED
    BY <2>2, <2>3 DEF GroupFirst
<1>4. HandledWasDelivered' /\ NoTaskLost'
  BY DEF Inv, HandledWasDelivered, NoTaskLost, redis
<1>5. QED
  BY <1>2, <1>3, <1>4 DEF Inv

(* A step that only changes what none of the invariant's parts but the types  *)
(* mentions.                                                                 *)
LEMMA QuietStep ==
  ASSUME Inv, TypeOK', UNCHANGED <<group, cursor, pending, pc, batch, handled>>
  PROVE  Inv'
  BY DEF Inv, GroupFirst, ConsumerPosition, HandledWasDelivered, NoTaskLost

LEMMA NextInv ==
  ASSUME Inv, Next
  PROVE  Inv'
<1>0. TypeOK
  BY DEF Inv
<1>1. CASE publish
  <2>1. published' \in 0..MaxTasks /\ cursor \in 0..published'
    BY <1>0, <1>1, BoundAssumption DEF publish, TypeOK
  <2>2. TypeOK'
    BY <1>0, <1>1, <2>1 DEF publish, TypeOK, env
  <2>3. QED
    BY <1>1, <2>2, QuietStep DEF publish
<1>2. ASSUME NEW c \in Consumers, Consumer(c) PROVE Inv'
  <2>1. CASE StopSeen(c)
    <3>1. pc' \in [Consumers -> PCs]
      BY <1>0, <2>1 DEF StopSeen, TypeOK, Goto, PCs
    <3>2. TypeOK'
      BY <1>0, <2>1, <3>1 DEF StopSeen, TypeOK, redis, env
    <3>3. batch' = [batch EXCEPT ![c] = batch[c]]
      BY <1>0, <2>1 DEF StopSeen, TypeOK
    <3>4. QED
      BY <2>1, <3>2, <3>3, LeaveStep DEF StopSeen
  <2>2. QED
    BY <1>2, <2>1, EnsureGroupStep, ReclaimStep, ReadStep, HandleStep, AckStep DEF Consumer
<1>3. ASSUME NEW c \in Consumers, Crash(c) PROVE Inv'
  <2>1. pc' \in [Consumers -> PCs] /\ batch' \in [Consumers -> SUBSET (1..cursor)]
    BY <1>0, <1>3 DEF Crash, TypeOK, Goto, PCs
  <2>2. crashes' \in 0..MaxCrashes
    BY <1>0, <1>3, BoundAssumption DEF Crash, TypeOK
  <2>3. TypeOK'
    BY <1>0, <1>3, <2>1, <2>2 DEF Crash, TypeOK, redis
  <2>4. QED
    BY <1>3, <2>3, LeaveStep DEF Crash
<1>4. ASSUME NEW c \in Consumers, SetStop(c) PROVE Inv'
  <2>1. stopSet' \in [Consumers -> BOOLEAN]
    BY <1>0, <1>4 DEF SetStop, TypeOK
  <2>2. TypeOK'
    BY <1>0, <1>4, <2>1 DEF SetStop, TypeOK, redis, env
  <2>3. QED
    BY <1>4, <2>2, QuietStep DEF SetStop, redis
<1>5. ASSUME NEW c \in Consumers, Restart(c) PROVE Inv'
  <2>1. pc' \in [Consumers -> PCs]
    BY <1>0, <1>5 DEF Restart, TypeOK, Goto, PCs
  <2>2. stopSet' \in [Consumers -> BOOLEAN]
    BY <1>0, <1>5 DEF Restart, TypeOK
  <2>3. restarts' \in 0..MaxRestarts
    BY <1>0, <1>5, BoundAssumption DEF Restart, TypeOK
  <2>4. TypeOK'
    BY <1>0, <1>5, <2>1, <2>2, <2>3 DEF Restart, TypeOK, redis
  <2>5. batch' = [batch EXCEPT ![c] = batch[c]]
    BY <1>0, <1>5 DEF Restart, TypeOK
  <2>6. QED
    BY <1>5, <2>4, <2>5, LeaveStep DEF Restart
<1>6. ASSUME NEW m \in TaskIds, AbandonedGoesStale(m) PROVE Inv'
  <2>1. TypeOK'
    BY <1>0, <1>6 DEF AbandonedGoesStale, TypeOK, env
  <2>2. QED
    BY <1>6, <2>1, QuietStep DEF AbandonedGoesStale
<1>7. ASSUME NEW m \in TaskIds, Overrun(m) PROVE Inv'
  <2>1. overruns' \in 0..MaxOverruns
    BY <1>0, <1>7, BoundAssumption DEF Overrun, TypeOK
  <2>2. TypeOK'
    BY <1>0, <1>7, <2>1 DEF Overrun, TypeOK
  <2>3. QED
    BY <1>7, <2>2, QuietStep DEF Overrun
<1>8. QED
  BY <1>1, <1>2, <1>3, <1>4, <1>5, <1>6, <1>7 DEF Next

LEMMA StutterInv ==
  ASSUME Inv, UNCHANGED vars
  PROVE  Inv'
<1>1. TypeOK'
  BY DEF vars, Inv, TypeOK
<1>2. QED
  BY <1>1, QuietStep DEF vars

(* Inv is an invariant of the specification.                                 *)
LEMMA InvHolds == Spec => []Inv
<1>1. Inv /\ [Next]_vars => Inv'
  BY NextInv, StutterInv
<1>2. QED
  BY InitInv, <1>1, PTL DEF Spec

-----------------------------------------------------------------------------
(* Type correctness of the consumer group, for every instance.                *)
THEOREM TypeCorrect == Spec => []TypeOK
<1>1. Inv => TypeOK
  BY DEF Inv
<1>2. QED
  BY <1>1, InvHolds, PTL

(* Crash recovery: for every number of consumers, tasks, crashes, overruns     *)
(* and restarts, a delivered task that is no longer pending was completed.      *)
THEOREM NoLoss == Spec => []NoTaskLost
<1>1. Inv => NoTaskLost
  BY DEF Inv
<1>2. QED
  BY <1>1, InvHolds, PTL

-----------------------------------------------------------------------------
(* A consumer between two batches holds nothing.                             *)
IdleHoldsNothing ==
  \A c \in Consumers : pc[c] \notin InBatch => batch[c] = {}

(* A pending task that XAUTOCLAIM can take, now or once its idle time passes.  *)
Loose(m) == m \in pending /\ (m \in stale \/ ~InHand(m))

(* Each crash and each overrun lets a task loose, for one reclaim of it.       *)
ReclaimsCharged ==
  \A m \in TaskIds :
    reclaims[m] + (IF Loose(m) THEN 1 ELSE 0) =< crashes + overruns

(* The consumers that are still going to run the handler on a task.           *)
StillToHandle(m) ==
  {c \in Consumers :
     m \in batch[c] /\ ~(pc[c] \in {"ackOld", "ackNew"} /\ m = Oldest(batch[c]))}

Deliveries(m) == (IF m =< cursor THEN 1 ELSE 0) + reclaims[m]

(* A delivery, the first or a reclaim, is good for one run of the handler.     *)
HandlingsCharged ==
  \A m \in TaskIds :
    /\ IsFiniteSet(StillToHandle(m))
    /\ handled[m] + Cardinality(StillToHandle(m)) =< Deliveries(m)

OneHolder ==
  \A m \in TaskIds, c, d \in Consumers :
    c # d /\ m \in batch[c] \cap batch[d] => reclaims[m] >= 1

Charges == IdleHoldsNothing /\ ReclaimsCharged /\ HandlingsCharged /\ OneHolder

(* The types the counting rests on.                                          *)
LEMMA CountTypes ==
  ASSUME Inv
  PROVE  /\ crashes \in Nat /\ overruns \in Nat /\ cursor \in Nat
         /\ \A m \in TaskIds : m \in Nat /\ handled[m] \in Nat /\ reclaims[m] \in Nat
<1>1. TypeOK
  BY DEF Inv
<1>2. crashes \in Nat /\ overruns \in Nat /\ cursor \in Nat
  BY <1>1, BoundAssumption DEF TypeOK
<1>3. QED
  BY <1>1, <1>2 DEF TypeOK, TaskIds

(* A step that gives no consumer a task keeps the charges, if it lets no task  *)
(* loose or is paid for.                                                     *)
LEMMA NoDelivery ==
  ASSUME Inv, Charges,
         UNCHANGED <<cursor, reclaims, handled>>,
         \/ crashes' + overruns' = crashes + overruns + 1
         \/ /\ crashes' = crashes /\ overruns' = overruns
            /\ \A m \in TaskIds : Loose(m)' => Loose(m),
         \A c \in Consumers : batch'[c] \subseteq batch[c],
         \A m \in TaskIds : StillToHandle(m)' \subseteq StillToHandle(m),
         IdleHoldsNothing'
  PROVE  Charges'
<1>1. /\ crashes \in Nat /\ overruns \in Nat /\ cursor \in Nat
      /\ \A m \in TaskIds : m \in Nat /\ handled[m] \in Nat /\ reclaims[m] \in Nat
  BY CountTypes
<1>2. ReclaimsCharged'
  <2>1. SUFFICES ASSUME NEW m \in TaskIds
                 PROVE  reclaims[m] + (IF Loose(m)' THEN 1 ELSE 0) =< crashes' + overruns'
    BY DEF ReclaimsCharged
  <2>2. reclaims[m] + (IF Loose(m) THEN 1 ELSE 0) =< crashes + overruns /\ reclaims[m] \in Nat
    BY <1>1 DEF Charges, ReclaimsCharged
  <2>3. CASE crashes' + overruns' = crashes + overruns + 1
    BY <1>1, <2>2, <2>3
  <2>4. CASE crashes' = crashes /\ overruns' = overruns /\ (Loose(m)' => Loose(m))
    BY <1>1, <2>2, <2>4
  <2>5. QED
    BY <2>3, <2>4
<1>3. HandlingsCharged'
  <2>1. SUFFICES ASSUME NEW m \in TaskIds
                 PROVE  /\ IsFiniteSet(StillToHandle(m)')
                        /\ handled[m] + Cardinality(StillToHandle(m)') =< Deliveries(m)
    BY DEF HandlingsCharged, Deliveries
  <2>2. IsFiniteSet(StillToHandle(m)) /\ handled[m] + Cardinality(StillToHandle(m)) =< Deliveries(m)
    BY DEF Charges, HandlingsCharged
  <2>3. /\ IsFiniteSet(StillToHandle(m)')
        /\ Cardinality(StillToHandle(m)') =< Cardinality(StillToHandle(m))
    BY <2>2, FS_Subset
  <2>4. Cardinality(StillToHandle(m)') \in Nat /\ Cardinality(StillToHandle(m)) \in Nat
    BY <2>2, <2>3, FS_CardinalityType
  <2>5. Deliveries(m) \in Nat /\ handled[m] \in Nat
    BY <1>1 DEF Deliveries
  <2>6. QED
    BY <2>2, <2>3, <2>4, <2>5
<1>4. OneHolder'
  BY DEF Charges, OneHolder
<1>5. QED
  BY <1>2, <1>3, <1>4 DEF Charges

(* Redis hands tasks to a consumer that holds none: each of them becomes its    *)
(* own to handle, and nothing else is let loose.                              *)
LEMMA DeliverFacts ==
  ASSUME Inv, Charges, NEW c \in Consumers, pc[c] \notin InBatch,
         NEW ids \in SUBSET TaskIds, Deliver(c, ids),
         NEW label \in PCs, Goto(c, label), label \notin {"ackOld", "ackNew"},
         ids = {} \/ label \in InBatch
  PROVE  /\ IdleHoldsNothing'
         /\ \A m \in TaskIds : Loose(m)' => Loose(m) /\ m \notin ids
         /\ \A m \in ids : StillToHandle(m)' = StillToHandle(m) \cup {c}
         /\ \A m \in TaskIds \ ids : StillToHandle(m)' = StillToHandle(m)
<1> USE DEF Deliver
<1>0. TypeOK
  BY DEF Inv
<1>1. /\ batch[c] = {} /\ batch'[c] = ids /\ pc'[c] = label
      /\ \A d \in Consumers : d # c => batch'[d] = batch[d] /\ pc'[d] = pc[d]
  BY <1>0 DEF Charges, IdleHoldsNothing, TypeOK, Goto
<1>2. IdleHoldsNothing'
  BY <1>1 DEF Charges, IdleHoldsNothing
<1>3. ASSUME NEW m \in TaskIds, Loose(m)' PROVE Loose(m) /\ m \notin ids
  <2>1. m \in ids => owner'[m] = c /\ m \notin stale'
    OBVIOUS
  <2>2. m \notin ids
    BY <1>1, <1>3, <2>1 DEF Loose, InHand
  <2>3. owner'[m] = owner[m] /\ m \in pending
    BY <1>3, <2>2 DEF Loose
  <2>4. InHand(m) => InHand(m)'
    BY <1>1, <2>3 DEF InHand
  <2>5. QED
    BY <1>3, <2>2, <2>3, <2>4 DEF Loose
<1>4. ASSUME NEW m \in TaskIds, NEW d \in Consumers
      PROVE  d \in StillToHandle(m)' <=> (d \in StillToHandle(m) \/ (d = c /\ m \in ids))
  BY <1>1 DEF StillToHandle
<1>5. QED
  BY <1>2, <1>3, <1>4 DEF StillToHandle

(* XAUTOCLAIM spends the charge of each task it takes.                        *)
LEMMA ReclaimCharge ==
  ASSUME Inv, Charges, NEW c \in Consumers, reclaim_stale(c)
  PROVE  Charges'
<1> DEFINE claimed == FirstN(stale, Count)
           label == IF claimed = {} THEN "read" ELSE "handleOld"
<1>0. TypeOK
  BY DEF Inv
<1>1. /\ crashes \in Nat /\ overruns \in Nat /\ cursor \in Nat
      /\ \A m \in TaskIds : m \in Nat /\ handled[m] \in Nat /\ reclaims[m] \in Nat
  BY CountTypes
<1>2. /\ pc[c] = "reclaim" /\ Deliver(c, claimed) /\ Goto(c, label)
      /\ reclaims' = [m \in TaskIds |-> IF m \in claimed THEN reclaims[m] + 1 ELSE reclaims[m]]
      /\ UNCHANGED <<cursor, handled, crashes, overruns>>
  BY DEF reclaim_stale, env
<1>3. claimed \subseteq stale /\ claimed \subseteq pending /\ claimed \in SUBSET TaskIds
  <2>1. claimed \subseteq stale /\ claimed \subseteq pending
    BY <1>0, ReclaimTakesPending
  <2>2. pending \subseteq TaskIds
    BY <1>0, BoundAssumption DEF TypeOK, TaskIds
  <2>3. QED
    BY <2>1, <2>2
<1>4. label \in PCs /\ label \notin {"ackOld", "ackNew"} /\ (claimed = {} \/ label \in InBatch)
      /\ pc[c] \notin InBatch
  BY <1>2 DEF PCs, InBatch
<1>5. /\ IdleHoldsNothing'
      /\ \A m \in TaskIds : Loose(m)' => Loose(m) /\ m \notin claimed
      /\ \A m \in claimed : StillToHandle(m)' = StillToHandle(m) \cup {c}
      /\ \A m \in TaskIds \ claimed : StillToHandle(m)' = StillToHandle(m)
  BY <1>2, <1>3, <1>4, DeliverFacts
<1>6. ReclaimsCharged'
  <2>1. SUFFICES ASSUME NEW m \in TaskIds
                 PROVE  reclaims'[m] + (IF Loose(m)' THEN 1 ELSE 0) =< crashes + overruns
    BY <1>2 DEF ReclaimsCharged
  <2>2. reclaims[m] + (IF Loose(m) THEN 1 ELSE 0) =< crashes + overruns /\ reclaims[m] \in Nat
    BY <1>1 DEF Charges, ReclaimsCharged
  <2>3. CASE m \in claimed
    <3>1. Loose(m) /\ ~Loose(m)'
      BY <1>3, <1>5, <2>3 DEF Loose
    <3>2. QED
      BY <1>1, <1>2, <2>2, <2>3, <3>1
  <2>4. CASE m \notin claimed
    BY <1>1, <1>2, <1>5, <2>2, <2>4
  <2>5. QED
    BY <2>3, <2>4
<1>7. HandlingsCharged'
  <2>1. SUFFICES ASSUME NEW m \in TaskIds
                 PROVE  /\ IsFiniteSet(StillToHandle(m)')
                        /\ handled[m] + Cardinality(StillToHandle(m)')
                             =< (IF m =< cursor THEN 1 ELSE 0) + reclaims'[m]
    BY <1>2 DEF HandlingsCharged, Deliveries
  <2>2. /\ IsFiniteSet(StillToHandle(m))
        /\ handled[m] + Cardinality(StillToHandle(m)) =< (IF m =< cursor THEN 1 ELSE 0) + reclaims[m]
    BY DEF Charges, HandlingsCharged, Deliveries
  <2>3. Cardinality(StillToHandle(m)) \in Nat /\ handled[m] \in Nat /\ reclaims[m] \in Nat
    BY <1>1, <2>2, FS_CardinalityType
  <2>4. CASE m \in claimed
    <3>1. /\ IsFiniteSet(StillToHandle(m)')
          /\ Cardinality(StillToHandle(m)') \in {Cardinality(StillToHandle(m)),
                                                 Cardinality(StillToHandle(m)) + 1}
      BY <1>5, <2>2, <2>4, FS_AddElement
    <3>2. QED
      BY <1>2, <2>2, <2>3, <2>4, <3>1
  <2>5. CASE m \notin claimed
    BY <1>2, <1>5, <2>2, <2>5
  <2>6. QED
    BY <2>4, <2>5
<1>8. OneHolder'
  <2>1. SUFFICES ASSUME NEW m \in TaskIds, NEW d \in Consumers, NEW e \in Consumers,
                        d # e, m \in batch'[d] \cap batch'[e]
                 PROVE  reclaims'[m] >= 1
    BY DEF OneHolder
  <2>2. CASE m \in claimed
    BY <1>1, <1>2, <2>2
  <2>3. CASE m \notin claimed
    <3>1. d # c /\ e # c /\ batch'[d] = batch[d] /\ batch'[e] = batch[e]
      BY <1>0, <1>2, <2>1, <2>3 DEF Deliver, TypeOK
    <3>2. QED
      BY <1>2, <2>1, <2>3, <3>1 DEF Charges, OneHolder
  <2>4. QED
    BY <2>2, <2>3
<1>9. QED
  BY <1>5, <1>6, <1>7, <1>8 DEF Charges

(* XREADGROUP delivers tasks nobody has held or handled yet.                   *)
LEMMA ReadCharge ==
  ASSUME Inv, Charges, NEW c \in Consumers, read_new(c)
  PROVE  Charges'
<1> DEFINE label == IF NewTasks = {} THEN "reclaim" ELSE "handleNew"
<1>0. TypeOK
  BY DEF Inv
<1>1. /\ crashes \in Nat /\ overruns \in Nat /\ cursor \in Nat
      /\ \A m \in TaskIds : m \in Nat /\ handled[m] \in Nat /\ reclaims[m] \in Nat
  BY CountTypes
<1>2. /\ pc[c] = "read" /\ Deliver(c, NewTasks) /\ Goto(c, label)
      /\ cursor' = IF NewTasks = {} THEN cursor ELSE Newest(NewTasks)
      /\ UNCHANGED <<reclaims, handled, crashes, overruns>>
  BY DEF read_new, NewTasks, env
<1>3. /\ NewTasks \in SUBSET TaskIds
      /\ \A m \in NewTasks : cursor < m /\ m =< cursor'
      /\ cursor' \in Nat /\ cursor =< cursor'
  <2>1. CASE NewTasks = {}
    BY <1>1, <1>2, <2>1
  <2>2. CASE NewTasks # {}
    <3>1. /\ NewTasks \subseteq TaskIds
          /\ \A m \in NewTasks : cursor < m
          /\ Newest(NewTasks) \in 0..published
          /\ cursor =< Newest(NewTasks)
          /\ 1..Newest(NewTasks) = (1..cursor) \cup NewTasks
      BY <1>0, <2>2, ReadSkipsNothing
    <3>2. cursor' = Newest(NewTasks) /\ cursor' \in Nat
      BY <1>0, <1>2, <2>2, <3>1 DEF TypeOK
    <3>3. QED
      BY <3>1, <3>2
  <2>3. QED
    BY <2>1, <2>2
<1>4. label \in PCs /\ label \notin {"ackOld", "ackNew"} /\ (NewTasks = {} \/ label \in InBatch)
      /\ pc[c] \notin InBatch
  BY <1>2 DEF PCs, InBatch
<1>5. /\ IdleHoldsNothing'
      /\ \A m \in TaskIds : Loose(m)' => Loose(m) /\ m \notin NewTasks
      /\ \A m \in NewTasks : StillToHandle(m)' = StillToHandle(m) \cup {c}
      /\ \A m \in TaskIds \ NewTasks : StillToHandle(m)' = StillToHandle(m)
  BY <1>2, <1>3, <1>4, DeliverFacts
<1>6. ReclaimsCharged'
  <2>1. SUFFICES ASSUME NEW m \in TaskIds
                 PROVE  reclaims[m] + (IF Loose(m)' THEN 1 ELSE 0) =< crashes + overruns
    BY <1>2 DEF ReclaimsCharged
  <2>2. reclaims[m] + (IF Loose(m) THEN 1 ELSE 0) =< crashes + overruns /\ reclaims[m] \in Nat
    BY <1>1 DEF Charges, ReclaimsCharged
  <2>3. Loose(m)' => Loose(m)
    BY <1>5
  <2>4. QED
    BY <1>1, <2>2, <2>3
<1>7. ASSUME NEW m \in NewTasks, NEW d \in Consumers PROVE m \notin batch[d]
  <2>1. m \in Nat /\ cursor < m
    BY <1>1, <1>3
  <2>2. batch[d] \subseteq 1..cursor
    BY <1>0 DEF TypeOK
  <2>3. QED
    BY <1>1, <2>1, <2>2
<1>8. HandlingsCharged'
  <2>1. SUFFICES ASSUME NEW m \in TaskIds
                 PROVE  /\ IsFiniteSet(StillToHandle(m)')
                        /\ handled[m] + Cardinality(StillToHandle(m)')
                             =< (IF m =< cursor' THEN 1 ELSE 0) + reclaims[m]
    BY <1>2 DEF HandlingsCharged, Deliveries
  <2>2. /\ IsFiniteSet(StillToHandle(m))
        /\ handled[m] + Cardinality(StillToHandle(m)) =< (IF m =< cursor THEN 1 ELSE 0) + reclaims[m]
    BY DEF Charges, HandlingsCharged, Deliveries
  <2>3. /\ Cardinality(StillToHandle(m)) \in Nat /\ handled[m] \in Nat /\ reclaims[m] \in Nat
        /\ m \in Nat
    BY <1>1, <2>2, FS_CardinalityType
  <2>4. CASE m \in NewTasks
    <3>1. StillToHandle(m)' = {c}
      BY <1>5, <1>7, <2>4 DEF StillToHandle
    <3>2. IsFiniteSet(StillToHandle(m)') /\ Cardinality(StillToHandle(m)') = 1
      BY <3>1, FS_Singleton
    <3>3. handled[m] = 0
      <4>1. ~(m =< cursor)
        BY <1>1, <1>3, <2>3, <2>4
      <4>2. ~(handled[m] > 0)
        BY <4>1 DEF Inv, HandledWasDelivered
      <4>3. QED
        BY <2>3, <4>2
    <3>4. QED
      BY <1>3, <2>3, <2>4, <3>2, <3>3
  <2>5. CASE m \notin NewTasks
    <3>1. StillToHandle(m)' = StillToHandle(m)
      BY <1>5, <2>5
    <3>2. m =< cursor => m =< cursor'
      BY <1>1, <1>3, <2>3
    <3>3. QED
      BY <2>2, <2>3, <3>1, <3>2
  <2>6. QED
    BY <2>4, <2>5
<1>9. OneHolder'
  <2>1. SUFFICES ASSUME NEW m \in TaskIds, NEW d \in Consumers, NEW e \in Consumers,
                        d # e, m \in batch'[d] \cap batch'[e]
                 PROVE  reclaims'[m] >= 1
    BY DEF OneHolder
  <2>2. \A f \in Consumers : batch'[f] = IF f = c THEN NewTasks ELSE batch[f]
    BY <1>0, <1>2 DEF Deliver, TypeOK
  <2>3. d # c /\ e # c
    BY <1>7, <2>1, <2>2
  <2>4. QED
    BY <1>2, <2>1, <2>2, <2>3 DEF Charges, OneHolder
<1>10. QED
  BY <1>5, <1>6, <1>8, <1>9 DEF Charges

(* A handler that returns uses up its consumer's delivery.                     *)
LEMMA HandleCharge ==
  ASSUME Inv, Charges, NEW c \in Consumers, HandleTask(c)
  PROVE  Charges'
<1> DEFINE cur == Oldest(batch[c])
           label == IF pc[c] = "handleOld" THEN "ackOld" ELSE "ackNew"
<1>0. TypeOK /\ ConsumerPosition
  BY DEF Inv
<1>1. /\ pc[c] \in {"handleOld", "handleNew"} /\ pc[c] \in InBatch /\ Goto(c, label)
      /\ handled' = [handled EXCEPT ![cur] = @ + 1]
      /\ UNCHANGED <<cursor, pending, owner, stale, reclaims, batch, crashes, overruns>>
  BY DEF HandleTask, redis, env, InBatch
<1>2. cur \in batch[c] /\ cur \in TaskIds
  BY <1>0, <1>1, CurrentTask
<1>3. /\ pc'[c] \in {"ackOld", "ackNew"} /\ pc'[c] \in InBatch
      /\ \A d \in Consumers : d # c => pc'[d] = pc[d]
  BY <1>0, <1>1 DEF TypeOK, Goto, InBatch
<1>4. IdleHoldsNothing' /\ OneHolder'
  BY <1>1, <1>3 DEF Charges, IdleHoldsNothing, OneHolder
<1>5. ReclaimsCharged'
  <2>1. \A m \in TaskIds : Loose(m)' <=> Loose(m)
    BY <1>1 DEF Loose, InHand
  <2>2. QED
    BY <1>1, <2>1 DEF Charges, ReclaimsCharged
<1>6. HandlingsCharged'
  <2>1. SUFFICES ASSUME NEW m \in TaskIds
                 PROVE  /\ IsFiniteSet(StillToHandle(m)')
                        /\ handled'[m] + Cardinality(StillToHandle(m)') =< Deliveries(m)
    BY <1>1 DEF HandlingsCharged, Deliveries
  <2>2. IsFiniteSet(StillToHandle(m)) /\ handled[m] + Cardinality(StillToHandle(m)) =< Deliveries(m)
    BY DEF Charges, HandlingsCharged
  <2>3. Cardinality(StillToHandle(m)) \in Nat /\ handled[m] \in Nat /\ Deliveries(m) \in Nat
    BY <2>2, CountTypes, FS_CardinalityType DEF Deliveries
  <2>4. CASE m = cur
    <3>1. c \in StillToHandle(m) /\ StillToHandle(m)' = StillToHandle(m) \ {c}
      BY <1>1, <1>2, <1>3, <2>4 DEF StillToHandle
    <3>2. /\ IsFiniteSet(StillToHandle(m)')
          /\ Cardinality(StillToHandle(m)') = Cardinality(StillToHandle(m)) - 1
      BY <2>2, <3>1, FS_RemoveElement
    <3>3. handled'[m] = handled[m] + 1
      BY <1>0, <1>1, <2>4 DEF TypeOK
    <3>4. QED
      BY <2>2, <2>3, <3>2, <3>3
  <2>5. CASE m # cur
    <3>1. StillToHandle(m)' = StillToHandle(m)
      BY <1>1, <1>2, <1>3, <2>5 DEF StillToHandle
    <3>2. handled'[m] = handled[m]
      BY <1>0, <1>1, <2>5 DEF TypeOK
    <3>3. QED
      BY <2>2, <3>1, <3>2
  <2>6. QED
    BY <2>4, <2>5
<1>7. QED
  BY <1>4, <1>5, <1>6 DEF Charges

(* XACK takes a task off the batch that has been handled from it.              *)
LEMMA AckCharge ==
  ASSUME Inv, Charges, NEW c \in Consumers, AckTask(c)
  PROVE  Charges'
<1> DEFINE cur == Oldest(batch[c])
           rest == batch[c] \ {cur}
           label == CASE rest # {} /\ pc[c] = "ackOld" -> "handleOld"
                      [] rest # {} /\ pc[c] = "ackNew" -> "handleNew"
                      [] rest = {} /\ pc[c] = "ackOld" -> "read"
                      [] rest = {} /\ pc[c] = "ackNew" -> "reclaim"
<1>0. TypeOK /\ ConsumerPosition
  BY DEF Inv
<1>1. /\ pc[c] \in {"ackOld", "ackNew"} /\ pc[c] \in InBatch
      /\ batch' = [batch EXCEPT ![c] = rest]
      /\ pending' = pending \ {cur} /\ owner' = [owner EXCEPT ![cur] = NoOwner]
      /\ stale' = stale \ {cur}
      /\ UNCHANGED <<cursor, reclaims, handled, crashes, overruns>>
  BY DEF AckTask, Acknowledge, env, InBatch
<1>2. cur \in batch[c] /\ cur \in TaskIds
  BY <1>0, <1>1, CurrentTask
<1>3. /\ batch'[c] = rest
      /\ \A d \in Consumers : d # c => batch'[d] = batch[d]
  BY <1>0, <1>1 DEF TypeOK
<1>4. Goto(c, label)
  BY <1>3 DEF AckTask
<1>5. label \in {"read", "reclaim", "handleOld", "handleNew"} /\ (rest # {} => label \in InBatch)
  BY <1>1 DEF InBatch
<1>6. /\ pc'[c] = label
      /\ \A d \in Consumers : d # c => pc'[d] = pc[d]
  BY <1>0, <1>4 DEF TypeOK, Goto
<1>7. IdleHoldsNothing'
  BY <1>3, <1>5, <1>6 DEF Charges, IdleHoldsNothing
<1>8. ASSUME NEW m \in TaskIds, Loose(m)' PROVE Loose(m)
  <2>1. m # cur /\ m \in pending /\ owner'[m] = owner[m]
    BY <1>0, <1>1, <1>8 DEF Loose, TypeOK
  <2>2. InHand(m) => InHand(m)'
    BY <1>3, <2>1 DEF InHand
  <2>3. QED
    BY <1>1, <1>8, <2>1, <2>2 DEF Loose
<1>9. ASSUME NEW m \in TaskIds PROVE StillToHandle(m)' \subseteq StillToHandle(m)
  <2>1. SUFFICES ASSUME NEW d \in StillToHandle(m)' PROVE d \in StillToHandle(m)
    OBVIOUS
  <2>2. CASE d = c
    BY <1>1, <1>3, <2>1, <2>2 DEF StillToHandle
  <2>3. CASE d # c
    BY <1>3, <1>6, <2>1, <2>3 DEF StillToHandle
  <2>4. QED
    BY <2>2, <2>3
<1>10. \A d \in Consumers : batch'[d] \subseteq batch[d]
  BY <1>3
<1>11. QED
  BY <1>1, <1>7, <1>8, <1>9, <1>10, NoDelivery

(* A consumer that starts, ends or is told to end has no task it had not.      *)
LEMMA LeaveCharge ==
  ASSUME Inv, Charges, UNCHANGED <<redis, handled, overruns>>, NEW c \in Consumers,
         NEW label \in {"stopped", "dead", "join"}, Goto(c, label),
         \/ crashes' = crashes + 1 /\ batch' = [batch EXCEPT ![c] = {}]
         \/ UNCHANGED <<crashes, batch>> /\ pc[c] \notin InBatch
  PROVE  Charges'
<1>0. TypeOK
  BY DEF Inv
<1>1. /\ pc'[c] = label
      /\ \A d \in Consumers : d # c => pc'[d] = pc[d]
  BY <1>0 DEF TypeOK, Goto
<1>2. batch'[c] = {} /\ \A d \in Consumers : d # c => batch'[d] = batch[d]
  BY <1>0 DEF TypeOK, Charges, IdleHoldsNothing
<1>3. IdleHoldsNothing'
  BY <1>1, <1>2 DEF Charges, IdleHoldsNothing
<1>4. \A m \in TaskIds : StillToHandle(m)' \subseteq StillToHandle(m)
  BY <1>1, <1>2 DEF StillToHandle
<1>5. \A d \in Consumers : batch'[d] \subseteq batch[d]
  BY <1>2
<1>6. CASE crashes' = crashes + 1
  BY <1>3, <1>4, <1>5, <1>6, CountTypes, NoDelivery DEF redis
<1>7. CASE UNCHANGED <<crashes, batch>>
  <2>1. \A m \in TaskIds : Loose(m)' => Loose(m)
    BY <1>7 DEF Loose, InHand, redis
  <2>2. QED
    BY <1>3, <1>4, <1>5, <1>7, <2>1, NoDelivery DEF redis
<1>8. QED
  BY <1>6, <1>7

(* A step that touches no batch and no consumer's place in one.               *)
LEMMA QuietCharge ==
  ASSUME Inv, Charges, UNCHANGED <<cursor, pending, owner, reclaims, batch, handled, crashes>>,
         \A c \in Consumers : pc'[c] = pc[c] \/ {pc[c], pc'[c]} \cap InBatch = {},
         \/ UNCHANGED overruns /\ \A m \in TaskIds : m \in stale' => m \in stale \/ ~InHand(m)
         \/ overruns' = overruns + 1
  PROVE  Charges'
<1>1. IdleHoldsNothing'
  BY DEF Charges, IdleHoldsNothing
<1>2. \A m \in TaskIds : StillToHandle(m)' = StillToHandle(m)
  BY DEF StillToHandle, InBatch
<1>3. \A m \in TaskIds : InHand(m)' <=> InHand(m)
  BY DEF InHand
<1>4. crashes \in Nat /\ overruns \in Nat
  BY CountTypes
<1>5. CASE overruns' = overruns + 1
  BY <1>1, <1>2, <1>4, <1>5, NoDelivery
<1>6. CASE UNCHANGED overruns /\ \A m \in TaskIds : m \in stale' => m \in stale \/ ~InHand(m)
  <2>1. \A m \in TaskIds : Loose(m)' => Loose(m)
    BY <1>3, <1>6 DEF Loose
  <2>2. QED
    BY <1>1, <1>2, <1>6, <2>1, NoDelivery
<1>7. QED
  BY <1>5, <1>6

LEMMA NextCharge ==
  ASSUME Inv, Charges, Next
  PROVE  Charges'
<1>0. TypeOK
  BY DEF Inv
<1>1. CASE publish
  BY <1>1, QuietCharge DEF publish, env
<1>2. ASSUME NEW c \in Consumers, ensure_group(c) PROVE Charges'
  <2>1. cursor' = cursor
    BY <1>2 DEF ensure_group, Inv, GroupFirst
  <2>2. \A d \in Consumers : pc'[d] = pc[d] \/ {pc[d], pc'[d]} \cap InBatch = {}
    BY <1>0, <1>2 DEF ensure_group, Goto, TypeOK, InBatch
  <2>3. QED
    BY <1>2, <2>1, <2>2, QuietCharge DEF ensure_group, env
<1>3. ASSUME NEW c \in Consumers, StopSeen(c) PROVE Charges'
  BY <1>3, LeaveCharge DEF StopSeen, env, InBatch
<1>4. ASSUME NEW c \in Consumers, Consumer(c) PROVE Charges'
  BY <1>2, <1>3, <1>4, ReclaimCharge, ReadCharge, HandleCharge, AckCharge DEF Consumer
<1>5. ASSUME NEW c \in Consumers, Crash(c) PROVE Charges'
  BY <1>5, LeaveCharge DEF Crash
<1>6. ASSUME NEW c \in Consumers, SetStop(c) PROVE Charges'
  BY <1>6, QuietCharge DEF SetStop, redis, env
<1>7. ASSUME NEW c \in Consumers, Restart(c) PROVE Charges'
  BY <1>7, LeaveCharge DEF Restart, Live, InBatch
<1>8. ASSUME NEW m \in TaskIds, AbandonedGoesStale(m) PROVE Charges'
  BY <1>8, QuietCharge DEF AbandonedGoesStale, env
<1>9. ASSUME NEW m \in TaskIds, Overrun(m) PROVE Charges'
  BY <1>9, QuietCharge DEF Overrun
<1>10. QED
  BY <1>1, <1>4, <1>5, <1>6, <1>7, <1>8, <1>9 DEF Next

(* Load balancing under any number of consumers, crashes and overruns: each    *)
(* repetition of a handler has a reclaim behind it, each reclaim of a task a    *)
(* crash or an overrun, and two consumers share a task only after a reclaim.    *)
THEOREM OneHandling == Spec => []OneHandlingPerDelivery
<1>1. Init => Charges
  <2>1. SUFFICES ASSUME Init PROVE Charges
    OBVIOUS
  <2>2. IdleHoldsNothing /\ OneHolder
    BY <2>1 DEF Init, IdleHoldsNothing, OneHolder
  <2>3. ReclaimsCharged
    BY <2>1 DEF Init, ReclaimsCharged, Loose
  <2>4. HandlingsCharged
    <3>1. ASSUME NEW m \in TaskIds PROVE StillToHandle(m) = {} /\ Deliveries(m) \in Nat
      <4>1. StillToHandle(m) = {}
        BY <2>1 DEF Init, StillToHandle
      <4>2. QED
        BY <2>1, <4>1 DEF Init, Deliveries
    <3>2. QED
      BY <2>1, <3>1, FS_EmptySet DEF Init, HandlingsCharged
  <2>5. QED
    BY <2>2, <2>3, <2>4 DEF Charges
<1>2. Inv /\ Charges /\ [Next]_vars => Charges'
  <2>1. ASSUME Inv, Charges, UNCHANGED vars PROVE Charges'
    BY <2>1, QuietCharge DEF vars
  <2>2. QED
    BY <2>1, NextCharge
<1>3. Inv /\ Charges => OneHandlingPerDelivery
  <2>1. SUFFICES ASSUME Inv, Charges, NEW m \in TaskIds
                 PROVE  /\ handled[m] =< 1 + reclaims[m]
                        /\ reclaims[m] =< crashes + overruns
    BY DEF OneHandlingPerDelivery, Charges, OneHolder
  <2>2. /\ crashes \in Nat /\ overruns \in Nat /\ cursor \in Nat
        /\ m \in Nat /\ handled[m] \in Nat /\ reclaims[m] \in Nat
    BY <2>1, CountTypes
  <2>3. reclaims[m] =< crashes + overruns
    BY <2>1, <2>2 DEF Charges, ReclaimsCharged
  <2>4. /\ Cardinality(StillToHandle(m)) \in Nat
        /\ handled[m] + Cardinality(StillToHandle(m)) =< Deliveries(m)
    BY <2>1, FS_CardinalityType DEF Charges, HandlingsCharged
  <2>5. QED
    BY <2>2, <2>3, <2>4 DEF Deliveries
<1>4. QED
  BY <1>1, <1>2, <1>3, InvHolds, PTL DEF Spec

-----------------------------------------------------------------------------
(* The refinement mapping's two sets.                                        *)
Owed == (1..published) \ ((1..cursor) \ pending)
Done == {m \in TaskIds : handled[m] > 0}

(* A step that keeps both sets is a stuttering step of AtLeastOnce.           *)
LEMMA SameSetsStutter ==
  ASSUME Owed' = Owed, Done' = Done
  PROVE  UNCHANGED ALO!vars
  BY DEF Owed, Done, ALO!vars

(* Every step of the group is a step of AtLeastOnce or changes nothing there.  *)
LEMMA StepRefines ==
  ASSUME Inv, Inv', [Next]_vars
  PROVE  [ALO!Next]_ALO!vars
<1>0. TypeOK
  BY DEF Inv
<1>1. CASE publish
  <2> DEFINE new == published + 1
  <2>1. published \in Nat /\ new \in TaskIds /\ cursor \in Nat /\ cursor =< published
    BY <1>0, <1>1, BoundAssumption DEF publish, TypeOK, TaskIds
  <2>2. Owed' = Owed \cup {new}
    BY <1>1, <2>1 DEF publish, Owed
  <2>3. Done' = Done /\ new \notin Owed
    BY <1>1, <2>1 DEF publish, Done, Owed
  <2>4. new \notin Done
    <3>1. ~(new =< cursor)
      BY <2>1
    <3>2. QED
      BY <2>1, <3>1 DEF Inv, HandledWasDelivered, Done
  <2>5. ALO!Accept(new)
    BY <2>2, <2>3, <2>4 DEF ALO!Accept, Owed, Done
  <2>6. QED
    BY <2>1, <2>5 DEF ALO!Next, ALO!Accept
<1>2. ASSUME NEW c \in Consumers, HandleTask(c) PROVE [ALO!Next]_ALO!vars
  <2> DEFINE cur == Oldest(batch[c])
  <2>1. cur \in TaskIds /\ Done' = Done \cup {cur}
    BY <1>2, HandleStep DEF Done
  <2>2. Owed' = Owed
    BY <1>2 DEF HandleTask, redis, Owed
  <2>3. CASE cur \in Owed
    <3>1. ALO!Perform(cur)
      BY <2>1, <2>2, <2>3 DEF ALO!Perform, Owed, Done
    <3>2. QED
      BY <2>1, <3>1 DEF ALO!Next, ALO!Perform
  <2>4. CASE cur \notin Owed
    <3>1. cur \in 1..cursor
      <4>1. pc[c] \in InBatch
        BY <1>2 DEF HandleTask, InBatch
      <4>2. QED
        BY <4>1, CurrentTask DEF Inv
    <3>2. cur \in 1..published
      BY <1>0, <3>1 DEF TypeOK
    <3>3. cur \notin pending
      BY <2>4, <3>2 DEF Owed
    <3>4. cur \in Done
      BY <2>1, <3>1, <3>3 DEF Inv, NoTaskLost, Done
    <3>5. QED
      BY <2>1, <2>2, <3>4, SameSetsStutter
  <2>5. QED
    BY <2>3, <2>4
<1>3. ASSUME NEW c \in Consumers, AckTask(c) PROVE [ALO!Next]_ALO!vars
  <2> DEFINE cur == Oldest(batch[c])
  <2>1. cur \in 1..cursor /\ cur \in TaskIds /\ handled[cur] > 0
    BY <1>3, AckStep
  <2>2. cur \in Done /\ Done' = Done
    BY <1>3, <2>1 DEF AckTask, Done
  <2>3. Owed' = Owed \ {cur}
    BY <1>3, <2>1 DEF AckTask, Acknowledge, Owed
  <2>4. CASE cur \in Owed
    <3>1. ALO!Settle(cur)
      BY <2>2, <2>3, <2>4 DEF ALO!Settle, Owed, Done
    <3>2. QED
      BY <2>1, <3>1 DEF ALO!Next, ALO!Settle
  <2>5. CASE cur \notin Owed
    BY <2>2, <2>3, <2>5, SameSetsStutter
  <2>6. QED
    BY <2>4, <2>5
<1>4. ASSUME NEW c \in Consumers, read_new(c) PROVE UNCHANGED ALO!vars
  <2>1. Owed' = Owed
    BY <1>4, ReadStep DEF read_new, Owed
  <2>2. Done' = Done
    BY <1>4 DEF read_new, Done
  <2>3. QED
    BY <2>1, <2>2, SameSetsStutter
<1>5. ASSUME NEW c \in Consumers, reclaim_stale(c) PROVE UNCHANGED ALO!vars
  <2>1. Owed' = Owed /\ Done' = Done
    BY <1>5, ReclaimStep DEF reclaim_stale, Owed, Done
  <2>2. QED
    BY <2>1, SameSetsStutter
<1>6. ASSUME NEW c \in Consumers, ensure_group(c) PROVE UNCHANGED ALO!vars
  <2>1. cursor' = cursor
    BY <1>6 DEF Inv, GroupFirst, ensure_group
  <2>2. Owed' = Owed /\ Done' = Done
    BY <1>6, <2>1 DEF ensure_group, Owed, Done
  <2>3. QED
    BY <2>2, SameSetsStutter
<1>7. ASSUME UNCHANGED <<published, cursor, pending, handled>> PROVE UNCHANGED ALO!vars
  BY <1>7, SameSetsStutter DEF Owed, Done
<1>8. ASSUME NEW c \in Consumers, StopSeen(c) \/ Crash(c) \/ SetStop(c) \/ Restart(c)
      PROVE  UNCHANGED ALO!vars
  BY <1>7, <1>8 DEF StopSeen, Crash, SetStop, Restart, redis
<1>9. ASSUME NEW m \in TaskIds, AbandonedGoesStale(m) \/ Overrun(m) PROVE UNCHANGED ALO!vars
  BY <1>7, <1>9 DEF AbandonedGoesStale, Overrun
<1>10. CASE UNCHANGED vars
  BY <1>7, <1>10 DEF vars
<1>11. CASE Next
  BY <1>1, <1>2, <1>3, <1>4, <1>5, <1>6, <1>8, <1>9, <1>11, Zenon DEF Next, Consumer
<1>12. QED
  BY <1>10, <1>11, Zenon

(* The consumer group implements at-least-once delivery: a task leaves the    *)
(* system's debts only after some handler completed it.                       *)
THEOREM Refinement == Spec => ImplementsAtLeastOnce
<1>1. Init => ALO!Init
  BY DEF Init, ALO!Init
<1>2. Inv /\ Inv' /\ [Next]_vars => [ALO!Next]_ALO!vars
  BY StepRefines
<1>3. QED
  BY <1>1, <1>2, InvHolds, PTL DEF Spec, ALO!Spec, ImplementsAtLeastOnce
=============================================================================
