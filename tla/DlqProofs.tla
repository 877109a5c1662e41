------------------------------ MODULE DlqProofs ------------------------------
(***************************************************************************)
(* Proofs about Dlq for every set of consumers and payments, retry budget,    *)
(* batch size and number of messages, crashes, stops and late failures: type   *)
(* correctness, dead letters filed once, drops that each have a crash behind   *)
(* them, charges accounted for, and the guard of a single consumer.            *)
(***************************************************************************)
EXTENDS Dlq, StreamOpsProofs, SequenceTheorems

Failing == {"dlqAck", "dlqAdd"}
InBatch == {"check", "skipAck", "handle", "mark", "ack"} \cup Failing

(* The parts of TypeOK.                                                      *)
MainTypes ==
  /\ main \in Seq(Payments) /\ Len(main) =< MaxMessages
  /\ group \in BOOLEAN /\ cursor \in 0..Len(main)
  /\ owner \in [MessageIds -> Consumers \cup {NoOwner}]
  /\ processed \subseteq Payments
DlqTypes ==
  /\ dlq \in Seq([msg : 1..cursor, attempt : {MaxAttempts}])
  /\ dlqGroup \in BOOLEAN /\ dlqCursor \in 0..Len(dlq) /\ dlqPending \subseteq 1..dlqCursor
  /\ replaying \in 0..dlqCursor
ConsumerTypes ==
  /\ pc \in [Consumers -> PCs] /\ batch \in [Consumers -> SUBSET (1..cursor)]
  /\ attempts \in [Consumers -> [MessageIds -> 0..MaxAttempts]]
  /\ stopSet \in [Consumers -> BOOLEAN]
CountTypes ==
  /\ charged \in [Payments -> Nat] /\ failures \in [MessageIds -> 0..MaxAttempts]
  /\ crashes \in 0..MaxCrashes /\ stops \in 0..MaxStops
  /\ lateFailures \in 0..MaxLateFailures

(* Nothing is read before the groups exist, from whose start they read.        *)
GroupFirst ==
  /\ ~group => cursor = 0
  /\ ~dlqGroup => dlqCursor = 0
  /\ \A c \in Consumers : pc[c] \notin {"join", "dead"} => group

(* A consumer has a batch while it works on one, every message of which is     *)
(* pending for it, but for the one it is moving to the DLQ; the messages        *)
(* not delivered yet are nobody's.                                            *)
Position ==
  /\ \A c \in Consumers :
       /\ pc[c] \in InBatch <=> batch[c] # {}
       /\ \A m \in batch[c] :
            owner[m] = IF pc[c] = "dlqAdd" /\ m = Current(c) THEN NoOwner ELSE c
  /\ \A c, d \in Consumers : c # d => batch[c] \cap batch[d] = {}
  /\ \A m \in MessageIds : m > cursor => owner[m] = NoOwner

(* A budget is exhausted only for the message on its way to the DLQ, or by a    *)
(* consumer that died there and will forget; each attempt spent was a failure.  *)
Budget ==
  /\ \A c \in Consumers : \A m \in MessageIds :
       /\ attempts[c][m] =< failures[m]
       /\ attempts[c][m] = MaxAttempts =>
            pc[c] \in {"join", "joinDlq", "dead"} \/ (pc[c] \in Failing /\ m = Current(c))
  /\ \A c \in Consumers : pc[c] \in Failing => attempts[c][Current(c)] = MaxAttempts

(* A consumer acks what is in the processed set.                              *)
AcksProcessed ==
  \A c \in Consumers : pc[c] \in {"skipAck", "ack"} => PaymentOf(c) \in processed

(* A dead letter is off every list, and was filed once.                        *)
FiledOnce ==
  /\ \A m \in DeadLettered : owner[m] = NoOwner /\ \A c \in Consumers : m \notin batch[c]
  /\ \A k, l \in DOMAIN dlq : dlq[k].msg = dlq[l].msg => k = l

Types == MainTypes /\ DlqTypes /\ ConsumerTypes /\ CountTypes
Inv == Types /\ GroupFirst /\ Position /\ Budget /\ AcksProcessed /\ FiledOnce

(* The messages whose effect is settled: off the pending list, or charged and   *)
(* on their way there.                                                       *)
Settled(p) ==
  {m \in DOMAIN main : main[m] = p /\
     \/ m =< cursor /\ owner[m] = NoOwner
     \/ \E c \in Consumers : pc[c] \in {"mark", "ack"} /\ Current(c) = m}

(* Each charge of a payment is a settled message's, or a crash or a late         *)
(* failure has cost it.                                                      *)
ChargesSettled ==
  \A p \in Payments : charged[p] =< Cardinality(Settled(p)) + crashes + lateFailures

-----------------------------------------------------------------------------
LEMMA TypesGiveTypeOK == Types => TypeOK
BY Zenon DEF Types, MainTypes, DlqTypes, ConsumerTypes, CountTypes, TypeOK

(* The message a consumer works on is in its batch and was delivered.           *)
LEMMA CurrentIn ==
  ASSUME Inv, NEW c \in Consumers, pc[c] \in InBatch
  PROVE  /\ Current(c) \in batch[c] /\ Current(c) \in 1..cursor
         /\ Current(c) \in MessageIds /\ Current(c) \in DOMAIN main
         /\ PaymentOf(c) \in Payments /\ PaymentOf(c) = main[Current(c)]
<1>1. batch[c] # {} /\ batch[c] \subseteq 1..cursor
  BY DEF Inv, Position, Types, ConsumerTypes
<1>2. /\ main \in Seq(Payments) /\ Len(main) =< MaxMessages /\ cursor \in 0..Len(main)
      /\ Len(main) \in Nat /\ DOMAIN main = 1..Len(main) /\ MaxMessages \in Nat
  BY LenProperties, BoundAssumption DEF Inv, Types, MainTypes
<1>3. batch[c] \in SUBSET Nat
  BY <1>1, <1>2
<1>4. Current(c) \in batch[c]
  BY <1>1, <1>3, OldestIsLeast DEF Current
<1>5. Current(c) \in 1..cursor
  BY <1>1, <1>4
<1>6. Current(c) \in 1..MaxMessages /\ Current(c) \in 1..Len(main)
  BY <1>2, <1>5
<1>7. main[Current(c)] \in Payments
  BY <1>2, <1>6, ElementOfSeq
<1>8. QED
  BY <1>2, <1>4, <1>5, <1>6, <1>7 DEF MessageIds, PaymentOf

(* A consumer that goes somewhere else.                                       *)
LEMMA Moved ==
  ASSUME ConsumerTypes, NEW c \in Consumers, NEW label \in PCs, Goto(c, label)
  PROVE  /\ pc' \in [Consumers -> PCs]
         /\ \A d \in Consumers : pc'[d] = IF d = c THEN label ELSE pc[d]
BY DEF ConsumerTypes, Goto

(* A consumer that is done with a message keeps the rest of its batch.          *)
LEMMA MessageDone ==
  ASSUME ConsumerTypes, NEW c \in Consumers, NextMessage(c)
  PROVE  /\ pc' \in [Consumers -> PCs] /\ batch' \in [Consumers -> SUBSET (1..cursor)]
         /\ \A d \in Consumers : batch'[d] = IF d = c THEN batch[c] \ {Current(c)} ELSE batch[d]
         /\ \A d \in Consumers :
              pc'[d] = IF d = c THEN (IF batch'[c] = {} THEN "read" ELSE "check") ELSE pc[d]
<1>1. /\ batch' \in [Consumers -> SUBSET (1..cursor)]
      /\ \A d \in Consumers : batch'[d] = IF d = c THEN batch[c] \ {Current(c)} ELSE batch[d]
  BY DEF ConsumerTypes, NextMessage, Current
<1> DEFINE label == IF batch'[c] = {} THEN "read" ELSE "check"
<1>2. label \in PCs /\ Goto(c, label)
  BY DEF PCs, Running, NextMessage
<1> HIDE DEF label
<1>3. /\ pc' \in [Consumers -> PCs]
      /\ \A d \in Consumers : pc'[d] = IF d = c THEN label ELSE pc[d]
  BY <1>2, Moved
<1>4. QED
  BY <1>1, <1>3 DEF label

(* A message acked is nobody's.                                              *)
LEMMA Acked ==
  ASSUME MainTypes, NEW m \in MessageIds, Acknowledge(m)
  PROVE  /\ owner' \in [MessageIds -> Consumers \cup {NoOwner}]
         /\ \A n \in MessageIds : owner'[n] = IF n = m THEN NoOwner ELSE owner[n]
BY DEF MainTypes, Acknowledge

(* One consumer's attempts change, for one message.                            *)
LEMMA AttemptsSet ==
  ASSUME ConsumerTypes, NEW c \in Consumers, NEW m \in MessageIds, NEW n \in 0..MaxAttempts,
         attempts' = [attempts EXCEPT ![c][m] = n]
  PROVE  /\ attempts' \in [Consumers -> [MessageIds -> 0..MaxAttempts]]
         /\ \A d \in Consumers, k \in MessageIds :
              attempts'[d][k] = IF d = c /\ k = m THEN n ELSE attempts[d][k]
BY DEF ConsumerTypes

(* A payment is added at the end of main, and no message changes.               *)
LEMMA Added ==
  ASSUME MainTypes, NEW p \in Payments, AddToMain(p)
  PROVE  /\ main' \in Seq(Payments) /\ Len(main') =< MaxMessages
         /\ Len(main') = Len(main) + 1 /\ Len(main) \in Nat
         /\ \A m \in 1..Len(main) : main'[m] = main[m]
         /\ DOMAIN main = 1..Len(main) /\ DOMAIN main' = 1..Len(main')
<1>1. main \in Seq(Payments) /\ Len(main) < MaxMessages /\ main' = Append(main, p)
  BY DEF MainTypes, AddToMain
<1>2. /\ Append(main, p) \in Seq(Payments) /\ Len(Append(main, p)) = Len(main) + 1
      /\ \A m \in 1..Len(main) : Append(main, p)[m] = main[m]
      /\ Len(main) \in Nat
  BY <1>1
<1>3. main' \in Seq(Payments) /\ Len(main') = Len(main) + 1
      /\ \A m \in 1..Len(main) : main'[m] = main[m]
  BY <1>1, <1>2
<1>4. Len(main') =< MaxMessages
  BY <1>1, <1>2, <1>3, BoundAssumption
<1>5. QED
  BY <1>1, <1>2, <1>3, <1>4, LenProperties

(* A dead letter was delivered.                                              *)
LEMMA DlqEntries ==
  ASSUME Types
  PROVE  /\ Len(dlq) \in Nat /\ DOMAIN dlq = 1..Len(dlq)
         /\ \A k \in DOMAIN dlq : dlq[k].msg \in 1..cursor
         /\ DeadLettered \subseteq 1..cursor
<1>1. dlq \in Seq([msg : 1..cursor, attempt : {MaxAttempts}])
  BY DEF Types, DlqTypes
<1>2. Len(dlq) \in Nat /\ DOMAIN dlq = 1..Len(dlq)
  BY <1>1, LenProperties
<1>3. \A k \in DOMAIN dlq : dlq[k].msg \in 1..cursor
  <2>1. \A k \in 1..Len(dlq) : dlq[k] \in [msg : 1..cursor, attempt : {MaxAttempts}]
    BY <1>1, ElementOfSeq
  <2>2. QED
    BY <1>2, <2>1
<1>4. QED
  BY <1>2, <1>3 DEF DeadLettered

-----------------------------------------------------------------------------
(* What the producer and the operator do: main grows at its end, or an entry    *)
(* of the DLQ is read, acked or replayed.                                     *)
Extended ==
  /\ main' \in Seq(Payments) /\ Len(main') =< MaxMessages /\ Len(main') >= Len(main)
  /\ \A m \in 1..Len(main) : main'[m] = main[m]

LEMMA BrokerTypes ==
  ASSUME Inv,
         (\E p \in Payments : publish(p) \/ ForeignEntry(p)) \/ read_dlq \/ ack_dlq \/ Republish
  PROVE  /\ Extended /\ DlqTypes' /\ (~dlqGroup => dlqCursor' = dlqCursor)
         /\ UNCHANGED <<group, dlqGroup, cursor, owner, processed, dlq, pc, batch, attempts, stopSet,
                        charged, failures, crashes, stops, lateFailures>>
<1>0. Types /\ MainTypes /\ DlqTypes
  BY DEF Inv, Types
<1>1. UNCHANGED <<group, dlqGroup, cursor, owner, processed, dlq, pc, batch, attempts, stopSet,
                  charged, failures, crashes, stops, lateFailures>>
  BY DEF publish, ForeignEntry, read_dlq, ack_dlq, Republish, mainStream, dlqStream, faults
<1>2. main \in Seq(Payments) /\ Len(main) =< MaxMessages /\ Len(main) \in Nat
  BY <1>0, LenProperties DEF MainTypes
<1>3. Len(dlq) \in Nat /\ dlqCursor \in 0..Len(dlq) /\ dlqPending \subseteq 1..dlqCursor
      /\ replaying \in 0..dlqCursor
  BY <1>0, DlqEntries DEF DlqTypes
<1>4. CASE \E p \in Payments : publish(p) \/ ForeignEntry(p)
  <2>1. PICK p \in Payments : AddToMain(p) /\ UNCHANGED dlqStream
    BY <1>4 DEF publish, ForeignEntry
  <2>2. Extended
    BY <1>0, <2>1, Added DEF Extended
  <2>3. DlqTypes' /\ dlqCursor' = dlqCursor
    BY <1>0, <1>1, <2>1 DEF DlqTypes, dlqStream
  <2>4. QED
    BY <1>1, <2>2, <2>3
<1>5. CASE read_dlq
  <2>1. main' = main /\ dlqGroup
    BY <1>5 DEF read_dlq, mainStream
  <2>2. dlqCursor' \in 0..Len(dlq) /\ dlqPending' \subseteq 1..dlqCursor' /\ replaying' \in 0..dlqCursor'
    BY <1>3, <1>5 DEF read_dlq
  <2>3. DlqTypes'
    BY <1>0, <1>1, <2>2 DEF DlqTypes
  <2>4. QED
    BY <1>1, <1>2, <2>1, <2>3 DEF Extended
<1>6. CASE ack_dlq
  <2>1. main' = main /\ dlqCursor' = dlqCursor
    BY <1>6 DEF ack_dlq, mainStream
  <2>2. PICK e \in dlqPending : dlqPending' = dlqPending \ {e} /\ replaying' = e
    BY <1>6 DEF ack_dlq
  <2>3. dlqPending' \subseteq 1..dlqCursor' /\ replaying' \in 0..dlqCursor'
    BY <1>3, <2>1, <2>2
  <2>4. DlqTypes'
    BY <1>0, <1>1, <2>1, <2>3 DEF DlqTypes
  <2>5. QED
    BY <1>1, <1>2, <2>1, <2>4 DEF Extended
<1>7. CASE Republish
  <2>1. replaying \in DOMAIN dlq
    BY <1>0, <1>3, <1>7, DlqEntries DEF Republish
  <2>2. dlq[replaying].msg \in 1..Len(main)
    <3>1. dlq[replaying].msg \in 1..cursor /\ cursor \in 0..Len(main)
      BY <1>0, <2>1, DlqEntries DEF MainTypes
    <3>2. QED
      BY <1>2, <3>1
  <2>3. main[dlq[replaying].msg] \in Payments
    BY <1>2, <2>2, ElementOfSeq
  <2>4. Extended
    BY <1>0, <1>7, <2>3, Added DEF Republish, Extended
  <2>5. DlqTypes' /\ dlqCursor' = dlqCursor
    BY <1>0, <1>1, <1>7 DEF Republish, DlqTypes
  <2>6. QED
    BY <1>1, <2>4, <2>5
<1>8. QED
  BY <1>4, <1>5, <1>6, <1>7

LEMMA BrokerStep ==
  ASSUME Inv,
         (\E p \in Payments : publish(p) \/ ForeignEntry(p)) \/ read_dlq \/ ack_dlq \/ Republish
  PROVE  Inv'
<1>0. /\ Types /\ MainTypes /\ Len(main) \in Nat /\ DOMAIN main = 1..Len(main)
  BY LenProperties DEF Inv, Types, MainTypes
<1>1. /\ Extended /\ DlqTypes' /\ (~dlqGroup => dlqCursor' = dlqCursor)
      /\ UNCHANGED <<group, dlqGroup, cursor, owner, processed, dlq, pc, batch, attempts, stopSet,
                     charged, failures, crashes, stops, lateFailures>>
  BY BrokerTypes
<1>2. Len(main') \in Nat /\ cursor' \in 0..Len(main')
  <2>1. Len(main') \in Nat
    BY <1>1, LenProperties DEF Extended
  <2>2. QED
    BY <1>0, <1>1, <2>1 DEF Extended, MainTypes
<1>3. Types'
  <2>1. MainTypes'
    BY <1>0, <1>1, <1>2 DEF Extended, MainTypes
  <2>2. ConsumerTypes' /\ CountTypes'
    BY <1>0, <1>1, Zenon DEF Types, ConsumerTypes, CountTypes
  <2>3. QED
    BY <1>1, <2>1, <2>2 DEF Types
<1>4. \A c \in Consumers : Current(c)' = Current(c)
  BY <1>1 DEF Current
<1>5. GroupFirst' /\ Position' /\ Budget'
  BY <1>1, <1>4 DEF Inv, GroupFirst, Position, Budget
<1>6. AcksProcessed'
  <2>1. SUFFICES ASSUME NEW c \in Consumers, pc'[c] \in {"skipAck", "ack"}
                 PROVE  main'[Current(c)'] \in processed'
    BY DEF AcksProcessed, PaymentOf
  <2>2. Current(c) \in 1..Len(main) /\ main[Current(c)] \in processed
    BY <1>0, <1>1, <2>1, CurrentIn DEF Inv, AcksProcessed, InBatch, PaymentOf
  <2>3. QED
    BY <1>1, <1>4, <2>2 DEF Extended
<1>7. FiledOnce'
  BY <1>1 DEF Inv, FiledOnce, DeadLettered
<1>8. QED
  BY <1>3, <1>5, <1>6, <1>7 DEF Inv

-----------------------------------------------------------------------------
(* The consumer's steps.                                                    *)

(* A step of one consumer that leaves main, the DLQ and the counters alone, and   *)
(* whose new position is coherent, keeps Inv.                                  *)
LEMMA LoopStep ==
  ASSUME Inv, NEW c \in Consumers,
         UNCHANGED <<main, group, cursor, owner, processed, dlq, dlqGroup, dlqCursor, dlqPending, replaying,
                     batch, attempts, charged, failures, crashes, lateFailures>>,
         pc' \in [Consumers -> PCs], \A d \in Consumers \ {c} : pc'[d] = pc[d],
         pc[c] \notin InBatch, pc'[c] \notin InBatch,
         pc'[c] \notin {"join", "dead"} => pc[c] \notin {"join", "joinDlq", "dead"},
         stopSet' \in [Consumers -> BOOLEAN], stops' \in 0..MaxStops
  PROVE  Inv'
<1>1. \A d \in Consumers : Current(d)' = Current(d) /\ PaymentOf(d)' = PaymentOf(d)
  BY DEF Current, PaymentOf
<1>2. Types'
  <2>1. MainTypes' /\ DlqTypes' /\ CountTypes'
    BY DEF Inv, Types, MainTypes, DlqTypes, CountTypes
  <2>2. ConsumerTypes'
    BY Zenon DEF Inv, Types, ConsumerTypes
  <2>3. QED
    BY <2>1, <2>2 DEF Types
<1>3. GroupFirst'
  BY DEF Inv, GroupFirst
<1>4. Position'
  <2>1. batch[c] = {}
    BY DEF Inv, Position
  <2>2. QED
    BY <1>1, <2>1 DEF Inv, Position, InBatch, Failing
<1>5. Budget'
  BY <1>1 DEF Inv, Budget, InBatch, Failing
<1>6. AcksProcessed'
  BY <1>1 DEF Inv, AcksProcessed, InBatch
<1>7. FiledOnce'
  BY DEF Inv, FiledOnce, DeadLettered
<1>8. QED
  BY <1>2, <1>3, <1>4, <1>5, <1>6, <1>7 DEF Inv

(* Stopping, being told to, and being started again.                           *)
LEMMA StopStep ==
  ASSUME Inv, NEW c \in Consumers, StopSeen(c) \/ Restart(c)
  PROVE  Inv'
<1>1. ConsumerTypes /\ "stopped" \in PCs /\ "join" \in PCs /\ stops \in 0..MaxStops
  BY DEF Inv, Types, PCs, Running, CountTypes
<1>2. UNCHANGED <<main, group, cursor, owner, processed, dlq, dlqGroup, dlqCursor, dlqPending, replaying,
                  batch, attempts, charged, failures, crashes, lateFailures, stops>>
  BY DEF StopSeen, Restart, mainStream, dlqStream, faults
<1>3. stopSet' \in [Consumers -> BOOLEAN]
  <2>1. stopSet \in [Consumers -> BOOLEAN]
    BY <1>1, Zenon DEF ConsumerTypes
  <2>2. stopSet' = stopSet \/ stopSet' = [stopSet EXCEPT ![c] = FALSE]
    BY Zenon DEF StopSeen, Restart
  <2>3. QED
    BY <2>1, <2>2
<1>4. CASE StopSeen(c)
  <2>1. /\ pc' \in [Consumers -> PCs] /\ pc[c] = "read"
        /\ \A d \in Consumers : pc'[d] = IF d = c THEN "stopped" ELSE pc[d]
    BY <1>1, <1>4, Moved DEF StopSeen
  <2>2. QED
    BY <1>1, <1>2, <1>3, <2>1, LoopStep DEF InBatch, Failing
<1>5. CASE Restart(c)
  <2>1. /\ pc' \in [Consumers -> PCs] /\ pc[c] \in {"stopped", "dead"}
        /\ \A d \in Consumers : pc'[d] = IF d = c THEN "join" ELSE pc[d]
    BY <1>1, <1>5, Moved DEF Restart
  <2>2. QED
    BY <1>1, <1>2, <1>3, <2>1, LoopStep DEF InBatch, Failing
<1>6. QED
  BY <1>4, <1>5

LEMMA SetStopStep ==
  ASSUME Inv, NEW c \in Consumers, SetStop(c)
  PROVE  Inv'
<1>1. UNCHANGED <<main, group, cursor, owner, processed, dlq, dlqGroup, dlqCursor, dlqPending, replaying,
                  pc, batch, attempts, charged, failures, crashes, lateFailures>>
  BY DEF SetStop, mainStream, dlqStream
<1>2. stopSet' \in [Consumers -> BOOLEAN] /\ stops' \in 0..MaxStops
  <2>1. stopSet \in [Consumers -> BOOLEAN]
    BY Zenon DEF Inv, Types, ConsumerTypes
  <2>2. stopSet' = [stopSet EXCEPT ![c] = TRUE]
    BY Zenon DEF SetStop
  <2>3. stops' \in 0..MaxStops
    BY BoundAssumption DEF SetStop, Inv, Types, CountTypes
  <2>4. QED
    BY <2>1, <2>2, <2>3
<1>3. \A d \in Consumers : Current(d)' = Current(d) /\ PaymentOf(d)' = PaymentOf(d)
  BY <1>1 DEF Current, PaymentOf
<1>4. Types'
  <2>1. MainTypes' /\ DlqTypes' /\ CountTypes'
    BY <1>1, <1>2 DEF Inv, Types, MainTypes, DlqTypes, CountTypes
  <2>2. ConsumerTypes'
    BY <1>1, <1>2, Zenon DEF Inv, Types, ConsumerTypes
  <2>3. QED
    BY <2>1, <2>2 DEF Types
<1>5. GroupFirst' /\ Position' /\ Budget' /\ AcksProcessed' /\ FiledOnce'
  BY <1>1, <1>3 DEF Inv, GroupFirst, Position, Budget, AcksProcessed, FiledOnce, DeadLettered
<1>6. QED
  BY <1>4, <1>5 DEF Inv

(* Messages beyond the followed ones are read, and handled.                     *)
LEMMA OthersStep ==
  ASSUME Inv, NEW c \in Consumers, ReadOthers(c) \/ HandleOthers(c)
  PROVE  /\ Inv'
         /\ UNCHANGED <<main, cursor, owner, processed, dlq, batch, charged, failures, crashes,
                        lateFailures>>
         /\ pc[c] \in {"read", "others"} /\ pc'[c] \in {"read", "others"}
         /\ \A d \in Consumers \ {c} : pc'[d] = pc[d]
<1>1. /\ ConsumerTypes /\ "others" \in PCs /\ "read" \in PCs /\ stops \in 0..MaxStops
  BY DEF Inv, Types, PCs, Running, CountTypes
<1>2. UNCHANGED <<main, group, cursor, owner, processed, dlq, dlqGroup, dlqCursor, dlqPending, replaying,
                  batch, attempts, stopSet, charged, failures, crashes, lateFailures, stops>>
  BY DEF ReadOthers, HandleOthers, mainStream, dlqStream, faults
<1>3. /\ pc' \in [Consumers -> PCs] /\ pc[c] \in {"read", "others"}
      /\ pc'[c] \in {"read", "others"}
      /\ \A d \in Consumers \ {c} : pc'[d] = pc[d]
  <2>1. CASE ReadOthers(c)
    BY <1>1, <2>1, Moved DEF ReadOthers
  <2>2. CASE HandleOthers(c)
    BY <1>1, <2>2, Moved DEF HandleOthers
  <2>3. QED
    BY <2>1, <2>2
<1>4. stopSet' \in [Consumers -> BOOLEAN]
  BY <1>1, <1>2, Zenon DEF ConsumerTypes
<1>5. QED
  BY <1>1, <1>2, <1>3, <1>4, LoopStep DEF InBatch, Failing

(* A run starts: first the one group exists from now on, then the other, and      *)
(* nothing has been read from either if it did not.                            *)
Join(c) == EnsureMainGroup(c) \/ EnsureDlqGroup(c)

LEMMA JoinStep ==
  ASSUME Inv, NEW c \in Consumers, Join(c)
  PROVE  /\ Inv'
         /\ UNCHANGED <<main, cursor, owner, processed, dlq, batch, charged, failures, crashes,
                        lateFailures>>
         /\ pc[c] \notin InBatch /\ pc'[c] \notin InBatch
         /\ \A d \in Consumers \ {c} : pc'[d] = pc[d]
<1> DEFINE label == IF pc[c] = "join" THEN "joinDlq" ELSE "read"
<1>0. Types /\ ConsumerTypes /\ label \in PCs /\ MaxAttempts \in Nat \ {0}
  BY BudgetAssumption DEF Inv, Types, PCs, Running
<1>1. /\ pc[c] \in {"join", "joinDlq"} /\ Goto(c, label)
      /\ UNCHANGED <<main, owner, processed, dlq, dlqPending, replaying, batch, stopSet,
                     charged, failures, crashes, stops, lateFailures>>
  BY DEF Join, EnsureMainGroup, EnsureDlqGroup, mainStream, dlqStream, faults
<1>2. cursor' = cursor /\ dlqCursor' = dlqCursor
  BY DEF Join, EnsureMainGroup, EnsureDlqGroup, Inv, GroupFirst, mainStream, dlqStream
<1>3. group' /\ group' \in BOOLEAN /\ dlqGroup' \in BOOLEAN /\ (~dlqGroup' => ~dlqGroup)
  <2>1. group \in BOOLEAN /\ dlqGroup \in BOOLEAN
    BY <1>0, Zenon DEF Types, MainTypes, DlqTypes
  <2>2. CASE EnsureMainGroup(c)
    BY <2>1, <2>2 DEF EnsureMainGroup, dlqStream
  <2>3. CASE EnsureDlqGroup(c)
    BY <2>1, <2>3 DEF EnsureDlqGroup, mainStream, Inv, GroupFirst
  <2>4. QED
    BY <2>2, <2>3 DEF Join
<1>4. /\ attempts' \in [Consumers -> [MessageIds -> 0..MaxAttempts]]
      /\ \A d \in Consumers : attempts'[d] = attempts[d] \/ (d = c /\ attempts'[d] = NoAttempts)
      /\ pc[c] # "join" => attempts'[c] = NoAttempts
  BY <1>0 DEF Join, EnsureMainGroup, EnsureDlqGroup, ConsumerTypes, NoAttempts
<1> HIDE DEF label
<1>5. /\ pc' \in [Consumers -> PCs]
      /\ \A d \in Consumers : pc'[d] = IF d = c THEN label ELSE pc[d]
  BY <1>0, <1>1, Moved
<1>6. /\ pc'[c] \in {"joinDlq", "read"}
      /\ pc[c] = "join" => pc'[c] = "joinDlq"
  BY <1>5 DEF label
<1>7. \A d \in Consumers : Current(d)' = Current(d) /\ PaymentOf(d)' = PaymentOf(d)
  BY <1>1 DEF Current, PaymentOf
<1>8. Types'
  <2>1. MainTypes'
    BY <1>0, <1>1, <1>2, <1>3 DEF Types, MainTypes
  <2>2. DlqTypes'
    BY <1>0, <1>1, <1>2, <1>3 DEF Types, DlqTypes
  <2>3. CountTypes'
    BY <1>0, <1>1 DEF Types, CountTypes
  <2>4. ConsumerTypes'
    BY <1>0, <1>1, <1>2, <1>4, <1>5, Zenon DEF ConsumerTypes
  <2>5. QED
    BY <2>1, <2>2, <2>3, <2>4 DEF Types
<1>9. GroupFirst'
  BY <1>2, <1>3 DEF Inv, GroupFirst
<1>10. Position'
  <2>1. batch[c] = {}
    BY <1>1 DEF Inv, Position, InBatch, Failing
  <2>2. QED
    BY <1>1, <1>2, <1>5, <1>6, <1>7, <2>1 DEF Inv, Position, InBatch, Failing
<1>11. Budget'
  <2>1. \A m \in MessageIds : NoAttempts[m] = 0 /\ failures[m] \in Nat
    BY <1>0 DEF NoAttempts, Types, CountTypes
  <2>2. \A d \in Consumers, m \in MessageIds : attempts'[d][m] =< failures'[m]
    BY <1>1, <1>4, <2>1 DEF Inv, Budget
  <2>3. \A d \in Consumers, m \in MessageIds : attempts'[d][m] = MaxAttempts =>
          pc'[d] \in {"join", "joinDlq", "dead"} \/ (pc'[d] \in Failing /\ m = Current(d)')
    BY <1>0, <1>1, <1>4, <1>5, <1>6, <1>7, <2>1 DEF Inv, Budget, Failing
  <2>4. \A d \in Consumers : pc'[d] \in Failing => attempts'[d][Current(d)'] = MaxAttempts
    BY <1>4, <1>5, <1>6, <1>7 DEF Inv, Budget, Failing
  <2>5. QED
    BY <2>2, <2>3, <2>4 DEF Budget
<1>12. AcksProcessed' /\ FiledOnce'
  BY <1>1, <1>5, <1>6, <1>7 DEF Inv, AcksProcessed, FiledOnce, DeadLettered
<1>13. QED
  BY <1>1, <1>2, <1>5, <1>6, <1>8, <1>9, <1>10, <1>11, <1>12 DEF Inv, InBatch, Failing

(* What a read of new messages delivers, and to where it moves the cursor.      *)
NewMessages == FirstN({m \in MessageIds : cursor < m /\ m =< Len(main)}, Count)

LEMMA ReadNewRun ==
  ASSUME MainTypes
  PROVE  /\ cursor \in Nat /\ Len(main) \in Nat
         /\ NewMessages \subseteq MessageIds
         /\ NewMessages # {} =>
              /\ Newest(NewMessages) \in (cursor + 1)..Len(main)
              /\ NewMessages = (cursor + 1)..Newest(NewMessages)
<1>1. /\ cursor \in Nat /\ Len(main) \in Nat /\ Len(main) =< MaxMessages /\ MaxMessages \in Nat
      /\ Count \in Nat
  BY LenProperties, BoundAssumption, BudgetAssumption DEF MainTypes
<1>2. {m \in MessageIds : cursor < m /\ m =< Len(main)} = (cursor + 1)..Len(main)
  BY <1>1 DEF MessageIds
<1>3. NewMessages = FirstN((cursor + 1)..Len(main), Count)
  BY <1>2 DEF NewMessages
<1>4. NewMessages # {} =>
        /\ Newest(NewMessages) \in (cursor + 1)..Len(main)
        /\ NewMessages = (cursor + 1)..Newest(NewMessages)
  BY <1>1, <1>3, FirstNOfRun
<1>5. NewMessages \subseteq MessageIds
  BY DEF NewMessages, FirstN
<1>6. QED
  BY <1>1, <1>4, <1>5

(* Types that mention the cursor stay right as it moves on.                     *)
LEMMA CursorMoves ==
  ASSUME DlqTypes, ConsumerTypes, cursor \in Nat, cursor' \in Nat, cursor =< cursor',
         UNCHANGED <<dlq, dlqGroup, dlqCursor, dlqPending, replaying>>
  PROVE  DlqTypes' /\ batch \in [Consumers -> SUBSET (1..cursor')]
<1>1. 1..cursor \subseteq 1..cursor'
  OBVIOUS
<1>2. dlq \in Seq([msg : 1..cursor', attempt : {MaxAttempts}])
  <2>1. dlq \in Seq([msg : 1..cursor, attempt : {MaxAttempts}])
    BY DEF DlqTypes
  <2>2. Len(dlq) \in Nat /\ DOMAIN dlq = 1..Len(dlq)
        /\ \A k \in 1..Len(dlq) : dlq[k] \in [msg : 1..cursor, attempt : {MaxAttempts}]
    BY <2>1, LenProperties, ElementOfSeq
  <2>3. \A k \in 1..Len(dlq) : dlq[k] \in [msg : 1..cursor', attempt : {MaxAttempts}]
    BY <1>1, <2>2
  <2> DEFINE S == [msg : 1..cursor, attempt : {MaxAttempts}]
             T == [msg : 1..cursor', attempt : {MaxAttempts}]
  <2>4. dlq \in Seq(S) /\ \A k \in 1..Len(dlq) : dlq[k] \in T
    BY <2>1, <2>3
  <2> HIDE DEF S, T
  <2>5. dlq \in Seq(T)
    BY <2>4
  <2>6. QED
    BY <2>5 DEF T
<1>3. batch \in [Consumers -> SUBSET (1..cursor')]
  BY <1>1 DEF ConsumerTypes
<1>4. QED
  BY <1>2, <1>3 DEF DlqTypes

(* New messages are nobody's yet, no dead letters, and in no other batch.        *)
LEMMA ReadNewStep ==
  ASSUME Inv, NEW c \in Consumers, read_new(c)
  PROVE  /\ Inv'
         /\ UNCHANGED <<main, processed, dlq, charged, failures, crashes, lateFailures>>
         /\ \A m \in MessageIds : m =< cursor' /\ owner'[m] = NoOwner => m =< cursor /\ owner[m] = NoOwner
         /\ \A m \in MessageIds : m =< cursor /\ owner[m] = NoOwner => m =< cursor' /\ owner'[m] = NoOwner
         /\ pc[c] \notin InBatch /\ pc'[c] \notin {"mark", "ack", "dlqAdd"}
         /\ \A d \in Consumers \ {c} : pc'[d] = pc[d] /\ Current(d)' = Current(d)
<1> DEFINE new == NewMessages
<1>0. /\ Types /\ MainTypes /\ DlqTypes /\ ConsumerTypes
      /\ "readPending" \in PCs /\ "check" \in PCs /\ MaxMessages \in Nat
  BY BoundAssumption DEF Inv, Types, PCs, Running
<1>1. /\ pc[c] = "read" /\ batch' = [batch EXCEPT ![c] = new]
      /\ owner' = [m \in MessageIds |-> IF m \in new THEN c ELSE owner[m]]
      /\ cursor' = IF new = {} THEN cursor ELSE Newest(new)
      /\ Goto(c, IF new = {} THEN "readPending" ELSE "check")
      /\ UNCHANGED <<main, group, processed, dlq, dlqGroup, dlqCursor, dlqPending, replaying, attempts,
                     stopSet, charged, failures, crashes, stops, lateFailures>>
  BY DEF read_new, NewMessages, dlqStream, faults
<1>2. /\ cursor \in Nat /\ Len(main) \in Nat /\ new \subseteq MessageIds
      /\ new # {} => Newest(new) \in (cursor + 1)..Len(main) /\ new = (cursor + 1)..Newest(new)
  BY <1>0, ReadNewRun
<1>3. /\ pc' \in [Consumers -> PCs]
      /\ \A d \in Consumers \ {c} : pc'[d] = pc[d]
      /\ pc'[c] = IF new = {} THEN "readPending" ELSE "check"
  <2>1. CASE new = {}
    BY <1>0, <1>1, <2>1, Moved
  <2>2. CASE new # {}
    BY <1>0, <1>1, <2>2, Moved
  <2>3. QED
    BY <2>1, <2>2
<1> HIDE DEF new
<1>4. /\ cursor' \in 0..Len(main) /\ cursor' \in Nat /\ cursor =< cursor'
      /\ new = (cursor + 1)..cursor'
  <2>1. CASE new = {}
    <3>1. cursor \in 0..Len(main)
      BY <1>0 DEF MainTypes
    <3>2. QED
      BY <1>1, <1>2, <2>1, <3>1
  <2>2. CASE new # {}
    BY <1>1, <1>2, <2>2
  <2>3. QED
    BY <2>1, <2>2
<1>5. DlqTypes' /\ batch \in [Consumers -> SUBSET (1..cursor')]
  BY <1>0, <1>1, <1>2, <1>4, CursorMoves
<1>6. new \subseteq 1..cursor'
  BY <1>2, <1>4
<1>7. /\ batch' \in [Consumers -> SUBSET (1..cursor')]
      /\ \A d \in Consumers : batch'[d] = IF d = c THEN new ELSE batch[d]
  BY <1>1, <1>5, <1>6
<1>8. /\ owner' \in [MessageIds -> Consumers \cup {NoOwner}]
      /\ \A m \in MessageIds : owner'[m] = IF m \in new THEN c ELSE owner[m]
  BY <1>0, <1>1 DEF MainTypes
<1>9. \A d \in Consumers : batch[d] \subseteq 1..cursor
  BY <1>0 DEF ConsumerTypes
<1>10. \A m \in 1..cursor : m \notin new
  BY <1>2, <1>4
<1>11. \A d \in Consumers \ {c} : Current(d)' = Current(d) /\ PaymentOf(d)' = PaymentOf(d)
  BY <1>1, <1>7 DEF Current, PaymentOf
<1>12. Types'
  <2>1. MainTypes'
    BY <1>0, <1>1, <1>4, <1>8 DEF MainTypes
  <2>2. CountTypes'
    BY <1>0, <1>1 DEF Types, CountTypes
  <2>3. ConsumerTypes'
    BY <1>0, <1>1, <1>3, <1>7, Zenon DEF ConsumerTypes
  <2>4. QED
    BY <1>5, <2>1, <2>2, <2>3 DEF Types
<1>13. GroupFirst'
  <2>1. group /\ group' /\ (~dlqGroup' => dlqCursor' = 0)
    BY <1>1 DEF Inv, GroupFirst
  <2>2. QED
    BY <2>1 DEF GroupFirst
<1>14. Position'
  <2>1. \A d \in Consumers : pc'[d] \in InBatch <=> batch'[d] # {}
    BY <1>3, <1>7 DEF Inv, Position, InBatch, Failing
  <2>2. ASSUME NEW d \in Consumers, NEW m \in batch'[d]
        PROVE  owner'[m] = IF pc'[d] = "dlqAdd" /\ m = Current(d)' THEN NoOwner ELSE d
    <3>1. CASE d = c
      BY <1>2, <1>3, <1>7, <1>8, <2>2, <3>1
    <3>2. CASE d # c
      <4>1. m \in batch[d] /\ m \in 1..cursor /\ m \notin new
        BY <1>7, <1>9, <1>10, <2>2, <3>2
      <4>2. m \in MessageIds
        BY <1>0, <1>2, <4>1 DEF MainTypes, MessageIds
      <4>3. QED
        BY <1>3, <1>8, <1>11, <3>2, <4>1, <4>2 DEF Inv, Position
    <3>3. QED
      BY <3>1, <3>2
  <2>3. \A d, e \in Consumers : d # e => batch'[d] \cap batch'[e] = {}
    BY <1>7, <1>9, <1>10 DEF Inv, Position
  <2>4. \A m \in MessageIds : m > cursor' => owner'[m] = NoOwner
    <3>1. \A m \in MessageIds : m > cursor' => m > cursor /\ m \notin new
      BY <1>2, <1>4 DEF MessageIds
    <3>2. QED
      BY <1>8, <3>1 DEF Inv, Position
  <2>5. QED
    BY <2>1, <2>2, <2>3, <2>4 DEF Position
<1>15. Budget'
  BY <1>1, <1>3, <1>11 DEF Inv, Budget, Failing
<1>16. AcksProcessed'
  BY <1>1, <1>3, <1>11 DEF Inv, AcksProcessed
<1>17. FiledOnce'
  <2>1. DeadLettered' = DeadLettered /\ DeadLettered \subseteq 1..cursor
    BY <1>0, <1>1, DlqEntries DEF DeadLettered
  <2>2. 1..cursor \subseteq MessageIds
    BY <1>0, <1>2 DEF MainTypes, MessageIds
  <2>3. QED
    BY <1>1, <1>7, <1>8, <1>10, <2>1, <2>2 DEF Inv, FiledOnce
<1>18. \A m \in MessageIds :
         /\ m =< cursor' /\ owner'[m] = NoOwner => m =< cursor /\ owner[m] = NoOwner
         /\ m =< cursor /\ owner[m] = NoOwner => m =< cursor' /\ owner'[m] = NoOwner
  <2>1. \A m \in MessageIds : m \in new => owner'[m] # NoOwner
    BY <1>8, OwnerAssumption
  <2>2. \A m \in MessageIds : m =< cursor' /\ m \notin new => m =< cursor
    BY <1>2, <1>4 DEF MessageIds
  <2>3. \A m \in MessageIds : m =< cursor => m =< cursor' /\ m \notin new
    BY <1>2, <1>4 DEF MessageIds
  <2>4. QED
    BY <1>8, <2>1, <2>2, <2>3
<1>19. QED
  BY <1>1, <1>3, <1>11, <1>12, <1>13, <1>14, <1>15, <1>16, <1>17, <1>18 DEF Inv, InBatch, Failing

(* A consumer re-reads what is pending for it, and for nobody else.             *)
LEMMA ReadPendingStep ==
  ASSUME Inv, NEW c \in Consumers, read_pending(c)
  PROVE  /\ Inv'
         /\ UNCHANGED <<main, cursor, owner, processed, dlq, charged, failures, crashes, lateFailures>>
         /\ pc[c] \notin InBatch /\ pc'[c] \notin {"mark", "ack", "dlqAdd"}
         /\ \A d \in Consumers \ {c} : pc'[d] = pc[d] /\ Current(d)' = Current(d)
<1> DEFINE mine == FirstN({m \in MessageIds : owner[m] = c}, Count)
<1>0. Types /\ MainTypes /\ ConsumerTypes /\ "read" \in PCs /\ "check" \in PCs
  BY DEF Inv, Types, PCs, Running
<1>1. /\ pc[c] = "readPending" /\ batch' = [batch EXCEPT ![c] = mine]
      /\ Goto(c, IF batch'[c] = {} THEN "read" ELSE "check")
      /\ UNCHANGED <<main, group, cursor, owner, processed, dlq, dlqGroup, dlqCursor, dlqPending, replaying,
                     attempts, stopSet, charged, failures, crashes, stops, lateFailures>>
  BY DEF read_pending, mainStream, dlqStream, faults
<1>2. mine \subseteq MessageIds /\ \A m \in mine : owner[m] = c
  BY DEF FirstN
<1> HIDE DEF mine
<1>3. mine \subseteq 1..cursor
  <2>1. cursor \in Nat
    BY <1>0, ReadNewRun
  <2>2. \A m \in mine : ~(m > cursor)
    BY <1>2, OwnerAssumption DEF Inv, Position
  <2>3. QED
    BY <1>2, <2>1, <2>2 DEF MessageIds
<1>4. /\ batch' \in [Consumers -> SUBSET (1..cursor)]
      /\ \A d \in Consumers : batch'[d] = IF d = c THEN mine ELSE batch[d]
  BY <1>0, <1>1, <1>3 DEF ConsumerTypes
<1>5. /\ pc' \in [Consumers -> PCs]
      /\ \A d \in Consumers \ {c} : pc'[d] = pc[d]
      /\ pc'[c] = IF mine = {} THEN "read" ELSE "check"
  <2>1. CASE mine = {}
    BY <1>0, <1>1, <1>4, <2>1, Moved
  <2>2. CASE mine # {}
    BY <1>0, <1>1, <1>4, <2>2, Moved
  <2>3. QED
    BY <2>1, <2>2
<1>6. \A d \in Consumers \ {c} : Current(d)' = Current(d) /\ PaymentOf(d)' = PaymentOf(d)
  BY <1>1, <1>4 DEF Current, PaymentOf
<1>7. Types'
  <2>1. MainTypes' /\ DlqTypes' /\ CountTypes'
    BY <1>0, <1>1 DEF Types, MainTypes, DlqTypes, CountTypes
  <2>2. ConsumerTypes'
    BY <1>0, <1>1, <1>4, <1>5, Zenon DEF ConsumerTypes
  <2>3. QED
    BY <2>1, <2>2 DEF Types
<1>8. GroupFirst'
  BY <1>1, <1>5 DEF Inv, GroupFirst
<1>9. Position'
  <2>1. \A d \in Consumers : pc'[d] \in InBatch <=> batch'[d] # {}
    BY <1>4, <1>5 DEF Inv, Position, InBatch, Failing
  <2>2. \A d \in Consumers : \A m \in batch'[d] :
          owner'[m] = IF pc'[d] = "dlqAdd" /\ m = Current(d)' THEN NoOwner ELSE d
    BY <1>1, <1>2, <1>4, <1>5, <1>6 DEF Inv, Position
  <2>3. \A d \in Consumers \ {c} : mine \cap batch[d] = {}
    BY <1>2, OwnerAssumption DEF Inv, Position
  <2>4. \A d, e \in Consumers : d # e => batch'[d] \cap batch'[e] = {}
    BY <1>4, <2>3 DEF Inv, Position
  <2>5. QED
    BY <1>1, <2>1, <2>2, <2>4 DEF Inv, Position
<1>10. Budget'
  BY <1>1, <1>5, <1>6 DEF Inv, Budget, Failing
<1>11. AcksProcessed'
  BY <1>1, <1>5, <1>6 DEF Inv, AcksProcessed
<1>12. FiledOnce'
  <2>1. DeadLettered' = DeadLettered
    BY <1>1 DEF DeadLettered
  <2>2. \A m \in DeadLettered : m \notin mine
    BY <1>2, OwnerAssumption DEF Inv, FiledOnce
  <2>3. QED
    BY <1>1, <1>4, <2>1, <2>2 DEF Inv, FiledOnce
<1>13. QED
  BY <1>1, <1>5, <1>6, <1>7, <1>8, <1>9, <1>10, <1>11, <1>12 DEF Inv, InBatch, Failing

(* The steps within a loop body that keep the message: the check, the handler     *)
(* that succeeds, the mark.                                                   *)
LEMMA WorkStep ==
  ASSUME Inv, NEW c \in Consumers, NEW label \in {"skipAck", "handle", "mark", "ack"},
         pc[c] \in {"check", "handle", "mark"}, Goto(c, label),
         UNCHANGED <<main, group, cursor, owner, dlq, dlqGroup, dlqCursor, dlqPending, replaying, batch,
                     attempts, stopSet, failures, crashes, stops, lateFailures>>,
         processed \subseteq processed', processed' \subseteq Payments, charged' \in [Payments -> Nat],
         label \in {"skipAck", "ack"} => PaymentOf(c) \in processed'
  PROVE  /\ Inv' /\ \A d \in Consumers : Current(d)' = Current(d)
         /\ \A d \in Consumers : pc'[d] = IF d = c THEN label ELSE pc[d]
<1>0. Types /\ MainTypes /\ ConsumerTypes /\ label \in PCs
  BY DEF Inv, Types, PCs, Running
<1>1. /\ pc' \in [Consumers -> PCs]
      /\ \A d \in Consumers : pc'[d] = IF d = c THEN label ELSE pc[d]
  BY <1>0, Moved
<1>2. \A d \in Consumers : Current(d)' = Current(d) /\ PaymentOf(d)' = PaymentOf(d)
  BY DEF Current, PaymentOf
<1>3. Types'
  <2>1. MainTypes' /\ DlqTypes' /\ CountTypes'
    BY <1>0 DEF Types, MainTypes, DlqTypes, CountTypes
  <2>2. ConsumerTypes'
    BY <1>0, <1>1, Zenon DEF ConsumerTypes
  <2>3. QED
    BY <2>1, <2>2 DEF Types
<1>4. GroupFirst'
  BY <1>1 DEF Inv, GroupFirst
<1>5. Position'
  <2>1. batch' = batch /\ owner' = owner
    OBVIOUS
  <2>2. ASSUME NEW d \in Consumers, NEW m \in batch'[d]
        PROVE  owner'[m] = IF pc'[d] = "dlqAdd" /\ m = Current(d)' THEN NoOwner ELSE d
    BY <1>1, <1>2, <2>1, <2>2 DEF Inv, Position
  <2>3. \A d \in Consumers : pc'[d] \in InBatch <=> batch'[d] # {}
    BY <1>1, <2>1 DEF Inv, Position, InBatch, Failing
  <2>4. /\ \A d, e \in Consumers : d # e => batch'[d] \cap batch'[e] = {}
        /\ \A m \in MessageIds : m > cursor' => owner'[m] = NoOwner
    BY DEF Inv, Position
  <2>5. QED
    BY <2>2, <2>3, <2>4 DEF Position
<1>6. Budget'
  BY <1>1, <1>2 DEF Inv, Budget, Failing
<1>7. AcksProcessed'
  BY <1>1, <1>2 DEF Inv, AcksProcessed
<1>8. FiledOnce'
  BY DEF Inv, FiledOnce, DeadLettered
<1>9. QED
  BY <1>1, <1>2, <1>3, <1>4, <1>5, <1>6, <1>7, <1>8 DEF Inv

(* A message done with and acked: nobody else had it, so nobody loses it.        *)
LEMMA FinishStep ==
  ASSUME Inv, NEW c \in Consumers, SkipDuplicate(c) \/ ack(c)
  PROVE  /\ Inv'
         /\ UNCHANGED <<main, cursor, processed, dlq, charged, failures, crashes, lateFailures>>
         /\ \A m \in MessageIds : owner'[m] = IF m = Current(c) THEN NoOwner ELSE owner[m]
         /\ \A d \in Consumers \ {c} : pc'[d] = pc[d] /\ Current(d)' = Current(d)
         /\ pc'[c] \notin {"mark", "ack", "dlqAdd"}
<1> DEFINE cur == Current(c)
<1>0. Types /\ MainTypes /\ ConsumerTypes /\ MaxAttempts \in Nat \ {0} /\ 0 \in 0..MaxAttempts
  BY BudgetAssumption DEF Inv, Types
<1>1. /\ pc[c] \in {"skipAck", "ack"} /\ Acknowledge(cur) /\ NextMessage(c)
      /\ attempts' = attempts \/ attempts' = [attempts EXCEPT ![c][cur] = 0]
      /\ UNCHANGED <<main, group, cursor, processed, dlq, dlqGroup, dlqCursor, dlqPending, replaying,
                     stopSet, charged, failures, crashes, stops, lateFailures>>
  BY DEF SkipDuplicate, ack, PopAttempts, mainStream, dlqStream, faults
<1>2. cur \in batch[c] /\ cur \in MessageIds /\ cur \in 1..cursor
  BY <1>1, CurrentIn DEF InBatch
<1>3. /\ pc' \in [Consumers -> PCs] /\ batch' \in [Consumers -> SUBSET (1..cursor)]
      /\ \A d \in Consumers : batch'[d] = IF d = c THEN batch[c] \ {cur} ELSE batch[d]
      /\ \A d \in Consumers :
           pc'[d] = IF d = c THEN (IF batch'[c] = {} THEN "read" ELSE "check") ELSE pc[d]
  BY <1>0, <1>1, MessageDone
<1>4. /\ owner' \in [MessageIds -> Consumers \cup {NoOwner}]
      /\ \A m \in MessageIds : owner'[m] = IF m = cur THEN NoOwner ELSE owner[m]
  BY <1>0, <1>1, <1>2, Acked
<1>5. /\ attempts' \in [Consumers -> [MessageIds -> 0..MaxAttempts]]
      /\ \A d \in Consumers, m \in MessageIds : attempts'[d][m] = attempts[d][m] \/ attempts'[d][m] = 0
  <2>1. CASE attempts' = attempts
    BY <1>0, <2>1 DEF ConsumerTypes
  <2>2. CASE attempts' = [attempts EXCEPT ![c][cur] = 0]
    BY <1>0, <1>2, <2>2, AttemptsSet
  <2>3. QED
    BY <1>1, <2>1, <2>2
<1>6. \A d \in Consumers \ {c} : Current(d)' = Current(d) /\ PaymentOf(d)' = PaymentOf(d)
  BY <1>1, <1>3 DEF Current, PaymentOf
<1>7. \A d \in Consumers : batch[d] \subseteq MessageIds
  BY <1>0, ReadNewRun, BoundAssumption DEF MainTypes, ConsumerTypes, MessageIds
<1>8. Types'
  <2>1. MainTypes'
    BY <1>0, <1>1, <1>4 DEF MainTypes
  <2>2. DlqTypes' /\ CountTypes'
    BY <1>0, <1>1 DEF Types, DlqTypes, CountTypes
  <2>3. ConsumerTypes'
    BY <1>0, <1>1, <1>3, <1>5, Zenon DEF ConsumerTypes
  <2>4. QED
    BY <2>1, <2>2, <2>3 DEF Types
<1>9. GroupFirst'
  BY <1>1, <1>3 DEF Inv, GroupFirst
<1>10. Position'
  <2>1. \A d \in Consumers : pc'[d] \in InBatch <=> batch'[d] # {}
    BY <1>3 DEF Inv, Position, InBatch, Failing
  <2>2. ASSUME NEW d \in Consumers, NEW m \in batch'[d]
        PROVE  owner'[m] = IF pc'[d] = "dlqAdd" /\ m = Current(d)' THEN NoOwner ELSE d
    <3>1. m \in batch[d] /\ m \in MessageIds /\ m # cur
      BY <1>2, <1>3, <1>7, <2>2 DEF Inv, Position
    <3>2. CASE d = c
      BY <1>1, <1>3, <1>4, <3>1, <3>2 DEF Inv, Position
    <3>3. CASE d # c
      BY <1>3, <1>4, <1>6, <3>1, <3>3 DEF Inv, Position
    <3>4. QED
      BY <3>2, <3>3
  <2>3. \A d, e \in Consumers : d # e => batch'[d] \cap batch'[e] = {}
    BY <1>3 DEF Inv, Position
  <2>4. \A m \in MessageIds : m > cursor' => owner'[m] = NoOwner
    BY <1>1, <1>4 DEF Inv, Position
  <2>5. QED
    BY <2>1, <2>2, <2>3, <2>4 DEF Position
<1>11. Budget'
  <2>1. \A m \in MessageIds : failures[m] \in Nat
    BY <1>0 DEF Types, CountTypes
  <2>2. \A d \in Consumers, m \in MessageIds : attempts'[d][m] =< failures'[m]
    BY <1>1, <1>5, <2>1 DEF Inv, Budget
  <2>3. \A d \in Consumers, m \in MessageIds : attempts'[d][m] = MaxAttempts =>
          pc'[d] \in {"join", "joinDlq", "dead"} \/ (pc'[d] \in Failing /\ m = Current(d)')
    BY <1>0, <1>1, <1>3, <1>5, <1>6 DEF Inv, Budget, Failing
  <2>4. \A d \in Consumers \ {c} : pc'[d] \in Failing => attempts'[d][Current(d)'] = MaxAttempts
    <3>1. \A d \in Consumers \ {c}, m \in MessageIds : attempts'[d][m] = attempts[d][m]
      <4>1. CASE attempts' = attempts
        BY <4>1
      <4>2. CASE attempts' = [attempts EXCEPT ![c][cur] = 0]
        BY <1>0, <1>2, <4>2, AttemptsSet
      <4>3. QED
        BY <1>1, <4>1, <4>2
    <3>2. \A d \in Consumers : pc[d] \in Failing => Current(d) \in MessageIds
      BY CurrentIn DEF InBatch
    <3>3. QED
      BY <1>3, <1>6, <3>1, <3>2 DEF Inv, Budget
  <2>5. pc'[c] \notin Failing
    BY <1>3 DEF Failing
  <2>6. QED
    BY <2>2, <2>3, <2>4, <2>5 DEF Budget
<1>12. AcksProcessed'
  BY <1>1, <1>3, <1>6 DEF Inv, AcksProcessed
<1>13. FiledOnce'
  <2>1. DeadLettered' = DeadLettered /\ DeadLettered \subseteq MessageIds
    <3>1. DeadLettered \subseteq 1..cursor /\ cursor \in Nat /\ 1..cursor \subseteq MessageIds
      BY <1>0, DlqEntries, ReadNewRun, BoundAssumption DEF MainTypes, MessageIds
    <3>2. QED
      BY <1>1, <3>1 DEF DeadLettered
  <2>2. QED
    BY <1>1, <1>3, <1>4, <2>1 DEF Inv, FiledOnce
<1>14. QED
  BY <1>1, <1>3, <1>4, <1>6, <1>8, <1>9, <1>10, <1>11, <1>12, <1>13 DEF Inv

(* A handler that raises spends an attempt: the message is left pending, or with   *)
(* the last attempt goes on to the DLQ.                                       *)
LEMMA FailStep ==
  ASSUME Inv, NEW c \in Consumers, HandlerFails(c) \/ HandlerFailsLate(c)
  PROVE  /\ Inv'
         /\ UNCHANGED <<main, cursor, owner, processed, dlq, crashes>>
         /\ \A m \in MessageIds : failures'[m] >= failures[m]
         /\ pc[c] = "handle" /\ pc'[c] \notin {"mark", "ack", "dlqAdd"}
         /\ \A d \in Consumers \ {c} : pc'[d] = pc[d] /\ Current(d)' = Current(d)
<1> DEFINE cur == Current(c)
           spent == attempts[c][cur] + 1
<1>0. Types /\ MainTypes /\ ConsumerTypes /\ MaxAttempts \in Nat \ {0} /\ "dlqAck" \in PCs
  BY BudgetAssumption DEF Inv, Types, PCs, Running
<1>1. /\ pc[c] = "handle" /\ SpendAttempt(c)
      /\ UNCHANGED <<main, group, cursor, owner, processed, dlq, dlqGroup, dlqCursor, dlqPending, replaying,
                     stopSet, crashes, stops>>
  BY DEF HandlerFails, HandlerFailsLate, mainStream, dlqStream, faults
<1>2. cur \in batch[c] /\ cur \in MessageIds /\ cur \in 1..cursor /\ PaymentOf(c) \in Payments
  BY <1>1, CurrentIn DEF InBatch
<1>3. charged' \in [Payments -> Nat] /\ lateFailures' \in 0..MaxLateFailures
  BY <1>0, <1>2, BoundAssumption DEF HandlerFails, HandlerFailsLate, faults, Types, CountTypes
<1>4. spent \in 1..MaxAttempts
  <2>1. attempts[c][cur] \in 0..MaxAttempts
    BY <1>0, <1>2 DEF ConsumerTypes
  <2>2. attempts[c][cur] # MaxAttempts
    BY <1>1, <1>2 DEF Inv, Budget, Failing
  <2>3. QED
    BY <1>0, <2>1, <2>2
<1>5. /\ attempts' \in [Consumers -> [MessageIds -> 0..MaxAttempts]]
      /\ \A d \in Consumers, m \in MessageIds :
           attempts'[d][m] = IF d = c /\ m = cur THEN spent ELSE attempts[d][m]
  <2>1. attempts' = [attempts EXCEPT ![c][cur] = spent]
    BY <1>1 DEF SpendAttempt
  <2>2. spent \in 0..MaxAttempts
    BY <1>0, <1>4
  <2> HIDE DEF spent
  <2>3. QED
    BY <1>0, <1>2, <2>1, <2>2, AttemptsSet
<1>6. /\ failures' \in [MessageIds -> 0..MaxAttempts] /\ failures \in [MessageIds -> 0..MaxAttempts]
      /\ \A m \in MessageIds :
           failures'[m] = IF m = cur /\ failures[m] < MaxAttempts THEN failures[m] + 1 ELSE failures[m]
  BY <1>0, <1>1, <1>2 DEF SpendAttempt, Types, CountTypes
<1>7. /\ pc' \in [Consumers -> PCs] /\ batch' \in [Consumers -> SUBSET (1..cursor)]
      /\ \A d \in Consumers : batch'[d] \subseteq batch[d]
      /\ \A d \in Consumers \ {c} : pc'[d] = pc[d] /\ batch'[d] = batch[d]
      /\ \A d \in Consumers : pc'[d] \in InBatch <=> batch'[d] # {}
      /\ pc'[c] \in {"read", "check", "dlqAck"}
      /\ pc'[c] = "dlqAck" => spent = MaxAttempts /\ batch'[c] = batch[c]
      /\ spent = MaxAttempts => pc'[c] = "dlqAck"
  <2>1. CASE spent < MaxAttempts
    <3>1. NextMessage(c)
      BY <1>1, <1>2, <1>5, <2>1 DEF SpendAttempt
    <3>2. /\ pc' \in [Consumers -> PCs] /\ batch' \in [Consumers -> SUBSET (1..cursor)]
          /\ \A d \in Consumers : batch'[d] = IF d = c THEN batch[c] \ {cur} ELSE batch[d]
          /\ \A d \in Consumers :
               pc'[d] = IF d = c THEN (IF batch'[c] = {} THEN "read" ELSE "check") ELSE pc[d]
      BY <1>0, <3>1, MessageDone
    <3>3. \A d \in Consumers : pc'[d] \in InBatch <=> batch'[d] # {}
      BY <3>2 DEF Inv, Position, InBatch, Failing
    <3>4. spent # MaxAttempts
      BY <1>0, <1>4, <2>1
    <3> HIDE DEF spent
    <3>5. QED
      BY <3>2, <3>3, <3>4
  <2>2. CASE ~(spent < MaxAttempts)
    <3>1. Goto(c, "dlqAck") /\ batch' = batch
      BY <1>1, <1>2, <1>5, <2>2 DEF SpendAttempt
    <3>2. /\ pc' \in [Consumers -> PCs]
          /\ \A d \in Consumers : pc'[d] = IF d = c THEN "dlqAck" ELSE pc[d]
      BY <1>0, <3>1, Moved
    <3>3. \A d \in Consumers : pc'[d] \in InBatch <=> batch'[d] # {}
      BY <1>1, <3>1, <3>2 DEF Inv, Position, InBatch, Failing
    <3>4. spent = MaxAttempts
      BY <1>0, <1>4, <2>2
    <3>5. batch' \in [Consumers -> SUBSET (1..cursor)]
      BY <1>0, <3>1 DEF ConsumerTypes
    <3> HIDE DEF spent
    <3>6. QED
      BY <3>1, <3>2, <3>3, <3>4, <3>5
  <2>3. QED
    BY <2>1, <2>2
<1> HIDE DEF spent
<1>8. \A d \in Consumers \ {c} : Current(d)' = Current(d) /\ PaymentOf(d)' = PaymentOf(d)
  BY <1>1, <1>7 DEF Current, PaymentOf
<1>9. pc'[c] = "dlqAck" => Current(c)' = cur
  BY <1>7 DEF Current
<1>10. Types'
  <2>1. MainTypes' /\ DlqTypes'
    BY <1>0, <1>1 DEF Types, MainTypes, DlqTypes
  <2>2. ConsumerTypes'
    BY <1>0, <1>1, <1>5, <1>7, Zenon DEF ConsumerTypes
  <2>3. CountTypes'
    BY <1>0, <1>1, <1>3, <1>6 DEF Types, CountTypes
  <2>4. QED
    BY <2>1, <2>2, <2>3 DEF Types
<1>11. GroupFirst'
  BY <1>1, <1>7 DEF Inv, GroupFirst
<1>12. Position'
  <2>1. ASSUME NEW d \in Consumers, NEW m \in batch'[d]
        PROVE  owner'[m] = IF pc'[d] = "dlqAdd" /\ m = Current(d)' THEN NoOwner ELSE d
    <3>1. CASE d = c
      BY <1>1, <1>7, <2>1, <3>1 DEF Inv, Position
    <3>2. CASE d # c
      BY <1>1, <1>7, <1>8, <2>1, <3>2 DEF Inv, Position
    <3>3. QED
      BY <3>1, <3>2
  <2>2. \A d, e \in Consumers : d # e => batch'[d] \cap batch'[e] = {}
    BY <1>7 DEF Inv, Position
  <2>3. \A m \in MessageIds : m > cursor' => owner'[m] = NoOwner
    BY <1>1 DEF Inv, Position
  <2>4. QED
    BY <1>7, <2>1, <2>2, <2>3 DEF Position
<1>13. Budget'
  <2>2. ASSUME NEW d \in Consumers, NEW m \in MessageIds
        PROVE  attempts'[d][m] =< failures'[m]
    <3>1. attempts[d][m] =< failures[m] /\ attempts[d][m] \in 0..MaxAttempts
      BY <1>0 DEF Inv, Budget, ConsumerTypes
    <3>2. attempts'[d][m] =< attempts[d][m] + (IF m = cur THEN 1 ELSE 0)
      BY <1>0, <1>5, <3>1 DEF spent
    <3> DEFINE a == attempts[d][m]
               b == attempts'[d][m]
               f == failures[m]
               g == failures'[m]
    <3>3. /\ a =< f /\ a \in Nat /\ b \in 0..MaxAttempts /\ f \in 0..MaxAttempts
          /\ b =< a + (IF m = cur THEN 1 ELSE 0)
          /\ g = IF m = cur /\ f < MaxAttempts THEN f + 1 ELSE f
      BY <1>5, <1>6, <3>1, <3>2
    <3> HIDE DEF a, b, f, g
    <3>4. b =< g
      BY <1>0, <3>3
    <3>5. QED
      BY <3>4 DEF b, g
  <2>3. ASSUME NEW d \in Consumers, NEW m \in MessageIds, attempts'[d][m] = MaxAttempts
        PROVE  pc'[d] \in {"join", "joinDlq", "dead"} \/ (pc'[d] \in Failing /\ m = Current(d)')
    <3>1. CASE d = c
      <4>1. m = cur /\ spent = MaxAttempts
        BY <1>1, <1>5, <2>3, <3>1 DEF Inv, Budget, Failing
      <4>2. QED
        BY <1>7, <1>9, <3>1, <4>1 DEF Failing
    <3>2. CASE d # c
      BY <1>5, <1>7, <1>8, <2>3, <3>2 DEF Inv, Budget
    <3>3. QED
      BY <3>1, <3>2
  <2>4. ASSUME NEW d \in Consumers, pc'[d] \in Failing
        PROVE  attempts'[d][Current(d)'] = MaxAttempts
    <3>1. CASE d = c
      BY <1>2, <1>5, <1>7, <1>9, <2>4, <3>1 DEF Failing
    <3>2. CASE d # c
      <4>1. Current(d) \in MessageIds /\ pc[d] \in Failing
        BY <1>7, <2>4, <3>2, CurrentIn DEF InBatch
      <4>2. QED
        BY <1>5, <1>8, <3>2, <4>1 DEF Inv, Budget
    <3>3. QED
      BY <3>1, <3>2
  <2>5. QED
    BY <2>2, <2>3, <2>4 DEF Budget
<1>14. AcksProcessed'
  BY <1>1, <1>7, <1>8 DEF Inv, AcksProcessed
<1>15. FiledOnce'
  <2>1. DeadLettered' = DeadLettered
    BY <1>1 DEF DeadLettered
  <2>2. QED
    BY <1>1, <1>7, <2>1 DEF Inv, FiledOnce
<1>16. \A m \in MessageIds : failures'[m] >= failures[m]
  BY <1>0, <1>6 DEF Types, CountTypes
<1>17. Inv'
  BY <1>10, <1>11, <1>12, <1>13, <1>14, <1>15 DEF Inv
<1>18. QED
  BY <1>1, <1>7, <1>8, <1>16, <1>17

(* The XACK of move_to_dlq: the message is nobody's, and still in the batch.     *)
LEMMA MoveAckStep ==
  ASSUME Inv, NEW c \in Consumers, MoveToDlqAck(c)
  PROVE  /\ Inv'
         /\ UNCHANGED <<main, cursor, processed, dlq, charged, failures, crashes, lateFailures>>
         /\ \A m \in MessageIds : owner'[m] = IF m = Current(c) THEN NoOwner ELSE owner[m]
         /\ \A d \in Consumers : Current(d)' = Current(d)
         /\ \A d \in Consumers : pc'[d] = IF d = c THEN "dlqAdd" ELSE pc[d]
         /\ pc[c] = "dlqAck"
<1> DEFINE cur == Current(c)
<1>0. Types /\ MainTypes /\ ConsumerTypes /\ "dlqAdd" \in PCs
  BY DEF Inv, Types, PCs, Running
<1>1. /\ pc[c] = "dlqAck" /\ Acknowledge(cur) /\ Goto(c, "dlqAdd")
      /\ UNCHANGED <<main, group, cursor, processed, dlq, dlqGroup, dlqCursor, dlqPending, replaying, batch,
                     attempts, stopSet, charged, failures, crashes, stops, lateFailures>>
  BY DEF MoveToDlqAck, mainStream, dlqStream, faults
<1>2. cur \in batch[c] /\ cur \in MessageIds /\ cur \in 1..cursor
  BY <1>1, CurrentIn DEF InBatch, Failing
<1>3. /\ pc' \in [Consumers -> PCs]
      /\ \A d \in Consumers : pc'[d] = IF d = c THEN "dlqAdd" ELSE pc[d]
  BY <1>0, <1>1, Moved
<1>4. /\ owner' \in [MessageIds -> Consumers \cup {NoOwner}]
      /\ \A m \in MessageIds : owner'[m] = IF m = cur THEN NoOwner ELSE owner[m]
  BY <1>0, <1>1, <1>2, Acked
<1>5. \A d \in Consumers : Current(d)' = Current(d) /\ PaymentOf(d)' = PaymentOf(d)
  BY <1>1 DEF Current, PaymentOf
<1>6. \A d \in Consumers : batch[d] \subseteq MessageIds
  BY <1>0, ReadNewRun, BoundAssumption DEF MainTypes, ConsumerTypes, MessageIds
<1>7. Types'
  <2>1. MainTypes'
    BY <1>0, <1>1, <1>4 DEF MainTypes
  <2>2. DlqTypes' /\ CountTypes'
    BY <1>0, <1>1 DEF Types, DlqTypes, CountTypes
  <2>3. ConsumerTypes'
    BY <1>0, <1>1, <1>3, Zenon DEF ConsumerTypes
  <2>4. QED
    BY <2>1, <2>2, <2>3 DEF Types
<1>8. GroupFirst'
  BY <1>1, <1>3 DEF Inv, GroupFirst
<1>9. Position'
  <2>1. \A d \in Consumers : pc'[d] \in InBatch <=> batch'[d] # {}
    BY <1>1, <1>3 DEF Inv, Position, InBatch, Failing
  <2>2. ASSUME NEW d \in Consumers, NEW m \in batch'[d]
        PROVE  owner'[m] = IF pc'[d] = "dlqAdd" /\ m = Current(d)' THEN NoOwner ELSE d
    <3>1. m \in batch[d] /\ m \in MessageIds
      BY <1>1, <1>6, <2>2
    <3>2. CASE d = c
      BY <1>1, <1>3, <1>4, <1>5, <3>1, <3>2 DEF Inv, Position
    <3>3. CASE d # c
      <4>1. m # cur
        BY <1>2, <3>1, <3>3 DEF Inv, Position
      <4>2. QED
        BY <1>3, <1>4, <1>5, <3>1, <3>3, <4>1 DEF Inv, Position
    <3>4. QED
      BY <3>2, <3>3
  <2>3. \A d, e \in Consumers : d # e => batch'[d] \cap batch'[e] = {}
    BY <1>1 DEF Inv, Position
  <2>4. \A m \in MessageIds : m > cursor' => owner'[m] = NoOwner
    BY <1>1, <1>4 DEF Inv, Position
  <2>5. QED
    BY <2>1, <2>2, <2>3, <2>4 DEF Position
<1>10. Budget'
  BY <1>1, <1>3, <1>5 DEF Inv, Budget, Failing
<1>11. AcksProcessed'
  BY <1>1, <1>3, <1>5 DEF Inv, AcksProcessed
<1>12. FiledOnce'
  <2>1. DeadLettered' = DeadLettered /\ DeadLettered \subseteq MessageIds
    <3>1. DeadLettered \subseteq 1..cursor /\ cursor \in Nat /\ 1..cursor \subseteq MessageIds
      BY <1>0, DlqEntries, ReadNewRun, BoundAssumption DEF MainTypes, MessageIds
    <3>2. QED
      BY <1>1, <3>1 DEF DeadLettered
  <2>2. QED
    BY <1>1, <1>4, <2>1 DEF Inv, FiledOnce
<1>13. QED
  BY <1>1, <1>3, <1>4, <1>5, <1>7, <1>8, <1>9, <1>10, <1>11, <1>12 DEF Inv

(* The XADD of move_to_dlq: the message is in the DLQ, where it was not.          *)
LEMMA MoveAddStep ==
  ASSUME Inv, NEW c \in Consumers, MoveToDlqAdd(c)
  PROVE  /\ Inv'
         /\ UNCHANGED <<main, cursor, owner, processed, charged, failures, crashes, lateFailures>>
         /\ DeadLettered' = DeadLettered \cup {Current(c)}
         /\ \A d \in Consumers \ {c} : pc'[d] = pc[d] /\ Current(d)' = Current(d)
         /\ pc[c] = "dlqAdd" /\ pc'[c] \notin {"mark", "ack", "dlqAdd"}
<1> DEFINE cur == Current(c)
           entry == [msg |-> cur, attempt |-> attempts[c][cur]]
<1>0. Types /\ MainTypes /\ ConsumerTypes /\ MaxAttempts \in Nat \ {0} /\ 0 \in 0..MaxAttempts
  BY BudgetAssumption DEF Inv, Types
<1>1. /\ pc[c] = "dlqAdd" /\ PopAttempts(c) /\ NextMessage(c) /\ dlq' = Append(dlq, entry)
      /\ UNCHANGED <<main, group, cursor, owner, processed, dlqGroup, dlqCursor, dlqPending, replaying,
                     stopSet, charged, failures, crashes, stops, lateFailures>>
  BY DEF MoveToDlqAdd, mainStream, faults
<1>2. cur \in batch[c] /\ cur \in MessageIds /\ cur \in 1..cursor
  BY <1>1, CurrentIn DEF InBatch, Failing
<1>3. /\ pc' \in [Consumers -> PCs] /\ batch' \in [Consumers -> SUBSET (1..cursor)]
      /\ \A d \in Consumers : batch'[d] = IF d = c THEN batch[c] \ {cur} ELSE batch[d]
      /\ \A d \in Consumers :
           pc'[d] = IF d = c THEN (IF batch'[c] = {} THEN "read" ELSE "check") ELSE pc[d]
  BY <1>0, <1>1, MessageDone
<1>4. /\ attempts' \in [Consumers -> [MessageIds -> 0..MaxAttempts]]
      /\ \A d \in Consumers, m \in MessageIds :
           attempts'[d][m] = IF d = c /\ m = cur THEN 0 ELSE attempts[d][m]
  BY <1>0, <1>1, <1>2, AttemptsSet DEF PopAttempts
<1>5. \A d \in Consumers \ {c} : Current(d)' = Current(d) /\ PaymentOf(d)' = PaymentOf(d)
  BY <1>1, <1>3 DEF Current, PaymentOf
<1>6. entry \in [msg : 1..cursor, attempt : {MaxAttempts}]
  BY <1>1, <1>2 DEF Inv, Budget, Failing
<1>7. /\ dlq' \in Seq([msg : 1..cursor, attempt : {MaxAttempts}])
      /\ Len(dlq) \in Nat /\ Len(dlq') = Len(dlq) + 1
      /\ \A k \in 1..Len(dlq) : dlq'[k] = dlq[k]
      /\ dlq'[Len(dlq) + 1] = entry
      /\ DOMAIN dlq = 1..Len(dlq) /\ DOMAIN dlq' = 1..(Len(dlq) + 1)
  <2>1. dlq \in Seq([msg : 1..cursor, attempt : {MaxAttempts}])
    BY <1>0 DEF Types, DlqTypes
  <2> HIDE DEF entry
  <2>2. /\ Append(dlq, entry) \in Seq([msg : 1..cursor, attempt : {MaxAttempts}])
        /\ Len(dlq) \in Nat /\ Len(Append(dlq, entry)) = Len(dlq) + 1
        /\ \A k \in 1..Len(dlq) : Append(dlq, entry)[k] = dlq[k]
        /\ Append(dlq, entry)[Len(dlq) + 1] = entry
    BY <1>6, <2>1
  <2>3. QED
    BY <1>1, <2>1, <2>2, LenProperties
<1>8. DeadLettered' = DeadLettered \cup {cur}
  <2>1. entry.msg = cur /\ 1..(Len(dlq) + 1) = 1..Len(dlq) \cup {Len(dlq) + 1}
    BY <1>7
  <2> HIDE DEF entry, cur
  <2>2. QED
    BY <1>7, <2>1 DEF DeadLettered
<1>9. cur \notin DeadLettered /\ owner[cur] = NoOwner
  BY <1>1, <1>2 DEF Inv, FiledOnce, Position
<1>10. Types'
  <2>1. MainTypes'
    BY <1>0, <1>1 DEF MainTypes
  <2>2. DlqTypes'
    <3>1. dlqCursor \in 0..Len(dlq) /\ dlqPending \subseteq 1..dlqCursor /\ replaying \in 0..dlqCursor
      BY <1>0 DEF Types, DlqTypes
    <3>2. dlqCursor' \in 0..Len(dlq')
      BY <1>1, <1>7, <3>1
    <3>3. dlqGroup' \in BOOLEAN
      BY <1>0, <1>1, Zenon DEF Types, DlqTypes
    <3>4. QED
      BY <1>1, <1>7, <3>1, <3>2, <3>3 DEF DlqTypes
  <2>3. ConsumerTypes'
    BY <1>0, <1>1, <1>3, <1>4, Zenon DEF ConsumerTypes
  <2>4. CountTypes'
    BY <1>0, <1>1 DEF Types, CountTypes
  <2>5. QED
    BY <2>1, <2>2, <2>3, <2>4 DEF Types
<1>11. GroupFirst'
  BY <1>1, <1>3 DEF Inv, GroupFirst
<1>12. Position'
  <2>1. \A d \in Consumers : pc'[d] \in InBatch <=> batch'[d] # {}
    BY <1>3 DEF Inv, Position, InBatch, Failing
  <2>2. ASSUME NEW d \in Consumers, NEW m \in batch'[d]
        PROVE  owner'[m] = IF pc'[d] = "dlqAdd" /\ m = Current(d)' THEN NoOwner ELSE d
    <3>1. CASE d = c
      BY <1>1, <1>3, <2>2, <3>1 DEF Inv, Position
    <3>2. CASE d # c
      BY <1>1, <1>3, <1>5, <2>2, <3>2 DEF Inv, Position
    <3>3. QED
      BY <3>1, <3>2
  <2>3. \A d, e \in Consumers : d # e => batch'[d] \cap batch'[e] = {}
    BY <1>3 DEF Inv, Position
  <2>4. \A m \in MessageIds : m > cursor' => owner'[m] = NoOwner
    BY <1>1 DEF Inv, Position
  <2>5. QED
    BY <2>1, <2>2, <2>3, <2>4 DEF Position
<1>13. Budget'
  <2>1. ASSUME NEW d \in Consumers, NEW m \in MessageIds
        PROVE  attempts'[d][m] =< failures'[m]
    <3>1. attempts'[d][m] = 0 \/ attempts'[d][m] = attempts[d][m]
      BY <1>4
    <3>2. failures'[m] \in Nat /\ attempts[d][m] =< failures'[m]
      BY <1>0, <1>1 DEF Inv, Budget, Types, CountTypes
    <3>3. QED
      BY <3>1, <3>2
  <2>2. ASSUME NEW d \in Consumers, NEW m \in MessageIds, attempts'[d][m] = MaxAttempts
        PROVE  pc'[d] \in {"join", "joinDlq", "dead"} \/ (pc'[d] \in Failing /\ m = Current(d)')
    <3>1. ~(d = c /\ m = cur) /\ attempts[d][m] = MaxAttempts
      BY <1>0, <1>4, <2>2
    <3>2. d # c
      BY <1>1, <3>1 DEF Inv, Budget, Failing
    <3>3. QED
      BY <1>3, <1>5, <3>1, <3>2 DEF Inv, Budget
  <2>3. ASSUME NEW d \in Consumers, pc'[d] \in Failing
        PROVE  attempts'[d][Current(d)'] = MaxAttempts
    <3>1. d # c
      BY <1>3, <2>3 DEF Failing
    <3>2. Current(d) \in MessageIds /\ pc[d] \in Failing
      BY <1>3, <2>3, <3>1, CurrentIn DEF InBatch
    <3>3. QED
      BY <1>4, <1>5, <3>1, <3>2 DEF Inv, Budget
  <2>4. QED
    BY <2>1, <2>2, <2>3 DEF Budget
<1>14. AcksProcessed'
  BY <1>1, <1>3, <1>5 DEF Inv, AcksProcessed
<1>15. FiledOnce'
  <2>1. ASSUME NEW m \in DeadLettered'
        PROVE  owner'[m] = NoOwner /\ \A d \in Consumers : m \notin batch'[d]
    <3>1. CASE m = cur
      <4>1. \A d \in Consumers \ {c} : cur \notin batch[d]
        BY <1>2 DEF Inv, Position
      <4>2. QED
        BY <1>1, <1>3, <1>9, <3>1, <4>1
    <3>2. CASE m \in DeadLettered
      BY <1>1, <1>3, <3>2 DEF Inv, FiledOnce
    <3>3. QED
      BY <1>8, <2>1, <3>1, <3>2
  <2>2. \A k \in DOMAIN dlq : dlq[k].msg # cur
    BY <1>9 DEF DeadLettered
  <2>3. entry.msg = cur
    OBVIOUS
  <2> HIDE DEF entry, cur
  <2>4. ASSUME NEW k \in DOMAIN dlq', NEW l \in DOMAIN dlq', dlq'[k].msg = dlq'[l].msg
        PROVE  k = l
    <3>1. /\ k \in 1..Len(dlq) \/ k = Len(dlq) + 1
          /\ l \in 1..Len(dlq) \/ l = Len(dlq) + 1
      BY <1>7, <2>4
    <3>2. CASE k \in 1..Len(dlq) /\ l \in 1..Len(dlq)
      BY <1>7, <2>4, <3>2 DEF Inv, FiledOnce
    <3>3. CASE k \in 1..Len(dlq) /\ l = Len(dlq) + 1
      BY <1>7, <2>2, <2>3, <2>4, <3>3
    <3>4. CASE k = Len(dlq) + 1 /\ l \in 1..Len(dlq)
      BY <1>7, <2>2, <2>3, <2>4, <3>4
    <3>5. QED
      BY <3>1, <3>2, <3>3, <3>4
  <2>5. QED
    BY <2>1, <2>4 DEF FiledOnce
<1>16. Inv'
  BY <1>10, <1>11, <1>12, <1>13, <1>14, <1>15 DEF Inv
<1>17. QED
  BY <1>1, <1>3, <1>5, <1>8, <1>16

(* A consumer dies, killed or of an entry it cannot decode: its batch is gone, what  *)
(* was pending for it still is.                                                  *)
LEMMA CrashStep ==
  ASSUME Inv, NEW c \in Consumers, Crash(c) \/ DecodeRaises(c)
  PROVE  /\ Inv'
         /\ UNCHANGED <<main, cursor, owner, processed, dlq, charged, failures, lateFailures>>
         /\ Crash(c) => crashes' = crashes + 1
         /\ DecodeRaises(c) => crashes' = crashes /\ pc[c] = "check"
         /\ pc'[c] = "dead"
         /\ \A d \in Consumers \ {c} : pc'[d] = pc[d] /\ Current(d)' = Current(d)
<1>0. Types /\ MainTypes /\ ConsumerTypes /\ "dead" \in PCs
  BY DEF Inv, Types, PCs
<1>1. /\ pc[c] \in Running
      /\ crashes' = crashes \/ (crashes < MaxCrashes /\ crashes' = crashes + 1)
      /\ Goto(c, "dead") /\ batch' = [batch EXCEPT ![c] = {}]
      /\ UNCHANGED <<main, group, cursor, owner, processed, dlq, dlqGroup, dlqCursor, dlqPending, replaying,
                     attempts, stopSet, charged, failures, stops, lateFailures>>
  BY DEF Crash, DecodeRaises, Running, mainStream, dlqStream, faults
<1>2. /\ pc' \in [Consumers -> PCs]
      /\ \A d \in Consumers : pc'[d] = IF d = c THEN "dead" ELSE pc[d]
  BY <1>0, <1>1, Moved
<1>3. /\ batch' \in [Consumers -> SUBSET (1..cursor)]
      /\ \A d \in Consumers : batch'[d] = IF d = c THEN {} ELSE batch[d]
  BY <1>0, <1>1 DEF ConsumerTypes
<1>4. \A d \in Consumers \ {c} : Current(d)' = Current(d) /\ PaymentOf(d)' = PaymentOf(d)
  BY <1>1, <1>3 DEF Current, PaymentOf
<1>5. Types'
  <2>1. MainTypes' /\ DlqTypes'
    BY <1>0, <1>1 DEF Types, MainTypes, DlqTypes
  <2>2. ConsumerTypes'
    BY <1>0, <1>1, <1>2, <1>3, Zenon DEF ConsumerTypes
  <2>3. crashes' \in 0..MaxCrashes
    BY <1>0, <1>1, BoundAssumption DEF Types, CountTypes
  <2>4. CountTypes'
    BY <1>0, <1>1, <2>3 DEF Types, CountTypes
  <2>5. QED
    BY <2>1, <2>2, <2>4 DEF Types
<1>6. GroupFirst'
  BY <1>1, <1>2 DEF Inv, GroupFirst
<1>7. Position'
  <2>1. \A d \in Consumers : pc'[d] \in InBatch <=> batch'[d] # {}
    BY <1>2, <1>3 DEF Inv, Position, InBatch, Failing
  <2>2. ASSUME NEW d \in Consumers, NEW m \in batch'[d]
        PROVE  owner'[m] = IF pc'[d] = "dlqAdd" /\ m = Current(d)' THEN NoOwner ELSE d
    <3>1. d # c
      BY <1>3, <2>2
    <3>2. QED
      BY <1>1, <1>2, <1>3, <1>4, <2>2, <3>1 DEF Inv, Position
  <2>3. \A d, e \in Consumers : d # e => batch'[d] \cap batch'[e] = {}
    BY <1>3 DEF Inv, Position
  <2>4. \A m \in MessageIds : m > cursor' => owner'[m] = NoOwner
    BY <1>1 DEF Inv, Position
  <2>5. QED
    BY <2>1, <2>2, <2>3, <2>4 DEF Position
<1>8. Budget'
  BY <1>1, <1>2, <1>4 DEF Inv, Budget, Failing
<1>9. AcksProcessed'
  BY <1>1, <1>2, <1>4 DEF Inv, AcksProcessed
<1>10. FiledOnce'
  <2>1. DeadLettered' = DeadLettered
    BY <1>1 DEF DeadLettered
  <2>2. QED
    BY <1>1, <1>3, <2>1 DEF Inv, FiledOnce
<1>11. /\ Crash(c) => crashes' = crashes + 1
       /\ DecodeRaises(c) => crashes' = crashes /\ pc[c] = "check"
  BY DEF Crash, DecodeRaises, faults
<1>12. QED
  BY <1>1, <1>2, <1>4, <1>5, <1>6, <1>7, <1>8, <1>9, <1>10, <1>11 DEF Inv

(* The processed set is asked.                                               *)
LEMMA CheckStep ==
  ASSUME Inv, NEW c \in Consumers, is_processed(c)
  PROVE  /\ Inv' /\ UNCHANGED <<main, cursor, owner, processed, dlq, charged, failures, crashes,
                               lateFailures>>
         /\ \A d \in Consumers : Current(d)' = Current(d)
         /\ \A d \in Consumers \ {c} : pc'[d] = pc[d]
         /\ pc[c] = "check" /\ pc'[c] \in {"skipAck", "handle"}
<1> DEFINE label == IF PaymentOf(c) \in processed THEN "skipAck" ELSE "handle"
<1>1. /\ pc[c] = "check" /\ Goto(c, label)
      /\ UNCHANGED <<main, group, cursor, owner, processed, dlq, dlqGroup, dlqCursor, dlqPending, replaying,
                     batch, attempts, stopSet, charged, failures, crashes, stops, lateFailures>>
  BY DEF is_processed, mainStream, dlqStream, faults
<1>2. /\ label \in {"skipAck", "handle"} /\ label \in {"skipAck", "handle", "mark", "ack"}
      /\ label \in {"skipAck", "ack"} => PaymentOf(c) \in processed
  OBVIOUS
<1>3. processed \subseteq Payments /\ charged \in [Payments -> Nat]
  BY DEF Inv, Types, MainTypes, CountTypes
<1> HIDE DEF label
<1>4. /\ Inv' /\ \A d \in Consumers : Current(d)' = Current(d)
      /\ \A d \in Consumers : pc'[d] = IF d = c THEN label ELSE pc[d]
  BY <1>1, <1>2, <1>3, WorkStep
<1>5. QED
  BY <1>1, <1>2, <1>4

(* The handler has its effect, and says so.                                    *)
LEMMA SucceedStep ==
  ASSUME Inv, NEW c \in Consumers, HandlerSucceeds(c)
  PROVE  /\ Inv' /\ UNCHANGED <<main, cursor, owner, processed, dlq, failures, crashes, lateFailures>>
         /\ \A d \in Consumers : Current(d)' = Current(d)
         /\ \A d \in Consumers \ {c} : pc'[d] = pc[d]
         /\ pc[c] = "handle" /\ pc'[c] = "mark" /\ PaymentOf(c) \in Payments
         /\ \A p \in Payments :
              charged'[p] = IF p = PaymentOf(c) THEN charged[p] + 1 ELSE charged[p]
<1>1. /\ pc[c] = "handle" /\ Goto(c, "mark")
      /\ charged' = [charged EXCEPT ![PaymentOf(c)] = @ + 1]
      /\ UNCHANGED <<main, group, cursor, owner, processed, dlq, dlqGroup, dlqCursor, dlqPending, replaying,
                     batch, attempts, stopSet, failures, crashes, stops, lateFailures>>
  BY DEF HandlerSucceeds, mainStream, dlqStream, faults
<1>2. PaymentOf(c) \in Payments
  BY <1>1, CurrentIn DEF InBatch
<1>3. processed \subseteq Payments /\ charged \in [Payments -> Nat]
  BY DEF Inv, Types, MainTypes, CountTypes
<1>4. /\ charged' \in [Payments -> Nat]
      /\ \A p \in Payments : charged'[p] = IF p = PaymentOf(c) THEN charged[p] + 1 ELSE charged[p]
  BY <1>1, <1>2, <1>3
<1>5. /\ Inv' /\ \A d \in Consumers : Current(d)' = Current(d)
      /\ \A d \in Consumers : pc'[d] = IF d = c THEN "mark" ELSE pc[d]
  BY <1>1, <1>3, <1>4, WorkStep
<1>6. QED
  BY <1>1, <1>2, <1>4, <1>5

(* The payment is recorded, and can be acked.                                  *)
LEMMA MarkStep ==
  ASSUME Inv, NEW c \in Consumers, mark_processed(c)
  PROVE  /\ Inv' /\ UNCHANGED <<main, cursor, owner, dlq, charged, failures, crashes, lateFailures>>
         /\ processed \subseteq processed'
         /\ \A d \in Consumers : Current(d)' = Current(d)
         /\ \A d \in Consumers \ {c} : pc'[d] = pc[d]
         /\ pc[c] = "mark" /\ pc'[c] = "ack" /\ processed' = processed \cup {PaymentOf(c)}
<1>1. /\ pc[c] = "mark" /\ Goto(c, "ack") /\ processed' = processed \cup {PaymentOf(c)}
      /\ UNCHANGED <<main, group, cursor, owner, dlq, dlqGroup, dlqCursor, dlqPending, replaying,
                     batch, attempts, stopSet, charged, failures, crashes, stops, lateFailures>>
  BY DEF mark_processed, mainStream, dlqStream, faults
<1>2. PaymentOf(c) \in Payments
  BY <1>1, CurrentIn DEF InBatch
<1>3. processed' \subseteq Payments /\ charged' \in [Payments -> Nat]
  BY <1>1, <1>2 DEF Inv, Types, MainTypes, CountTypes
<1>4. /\ Inv' /\ \A d \in Consumers : Current(d)' = Current(d)
      /\ \A d \in Consumers : pc'[d] = IF d = c THEN "ack" ELSE pc[d]
  BY <1>1, <1>3, WorkStep
<1>5. QED
  BY <1>1, <1>4

-----------------------------------------------------------------------------
LEMMA InitInv == Init => Inv
<1> SUFFICES ASSUME Init PROVE Inv
  OBVIOUS
<1>1. /\ "join" \in PCs /\ 0 \in 0..MaxAttempts /\ MaxMessages \in Nat
      /\ MaxCrashes \in Nat /\ MaxStops \in Nat /\ MaxLateFailures \in Nat
      /\ MaxAttempts \in Nat \ {0}
  BY BoundAssumption, BudgetAssumption DEF PCs, Running
<1>2. MainTypes
  <2>1. main = <<>> /\ main \in Seq(Payments) /\ Len(main) = 0
    BY DEF Init
  <2>2. owner \in [MessageIds -> Consumers \cup {NoOwner}] /\ processed = {} /\ cursor = 0
    BY DEF Init
  <2>3. group \in BOOLEAN
    BY Zenon DEF Init
  <2>4. QED
    BY <1>1, <2>1, <2>2, <2>3 DEF MainTypes
<1>3. DlqTypes
  <2>1. dlqGroup \in BOOLEAN
    BY Zenon DEF Init
  <2>2. QED
    BY <1>1, <2>1 DEF Init, DlqTypes
<1>4. ConsumerTypes
  <2>1. pc \in [Consumers -> PCs] /\ batch \in [Consumers -> SUBSET (1..cursor)]
        /\ attempts \in [Consumers -> [MessageIds -> 0..MaxAttempts]]
    BY <1>1 DEF Init, NoAttempts
  <2>2. stopSet \in [Consumers -> BOOLEAN]
    BY Zenon DEF Init
  <2>3. QED
    BY <2>1, <2>2 DEF ConsumerTypes
<1>5. CountTypes
  BY <1>1 DEF Init, CountTypes, NoAttempts
<1>6. GroupFirst /\ AcksProcessed
  BY DEF Init, GroupFirst, AcksProcessed
<1>7. Position
  BY DEF Init, Position, InBatch, Failing
<1>8. Budget
  BY <1>1 DEF Init, Budget, Failing, NoAttempts
<1>9. FiledOnce
  BY DEF Init, FiledOnce, DeadLettered
<1>10. QED
  BY <1>2, <1>3, <1>4, <1>5, <1>6, <1>7, <1>8, <1>9 DEF Inv, Types

LEMMA NextInv == Inv /\ [Next]_vars => Inv'
<1> SUFFICES ASSUME Inv, [Next]_vars PROVE Inv'
  OBVIOUS
<1>1. CASE (\E p \in Payments : publish(p) \/ ForeignEntry(p)) \/ read_dlq \/ ack_dlq \/ Republish
  BY <1>1, BrokerStep
<1>2. ASSUME NEW c \in Consumers, Consumer(c)
      PROVE  Inv'
  BY <1>2, JoinStep, StopStep, ReadNewStep, OthersStep, ReadPendingStep, CheckStep, FinishStep,
     SucceedStep, FailStep, MarkStep, MoveAckStep, MoveAddStep, CrashStep DEF Consumer, Join
<1>3. ASSUME NEW c \in Consumers, HandlerFailsLate(c) \/ Crash(c) \/ SetStop(c) \/ Restart(c)
      PROVE  Inv'
  BY <1>3, FailStep, CrashStep, SetStopStep, StopStep
<1>4. CASE UNCHANGED vars
  <2>1. \A c \in Consumers : Current(c)' = Current(c) /\ PaymentOf(c)' = PaymentOf(c)
    BY <1>4 DEF vars, Current, PaymentOf
  <2>2. Types'
    BY <1>4, Zenon DEF vars, Inv, Types, MainTypes, DlqTypes, ConsumerTypes, CountTypes
  <2>3. GroupFirst' /\ Position' /\ Budget'
    BY <1>4, <2>1 DEF vars, Inv, GroupFirst, Position, Budget
  <2>4. AcksProcessed' /\ FiledOnce'
    BY <1>4, <2>1 DEF vars, Inv, AcksProcessed, FiledOnce, DeadLettered
  <2>5. QED
    BY <2>2, <2>3, <2>4 DEF Inv
<1>5. QED
  BY <1>1, <1>2, <1>3, <1>4 DEF Next

LEMMA InvHolds == Spec => []Inv
BY InitInv, NextInv, PTL DEF Spec

-----------------------------------------------------------------------------
(* TypeOK: the variables keep the values the code gives them; in particular      *)
(* every dead letter was delivered, and carries the attempt that spent the        *)
(* whole budget.                                                             *)
THEOREM TypeCorrect == Spec => []TypeOK
<1>1. Inv => TypeOK
  BY TypesGiveTypeOK DEF Inv
<1>2. QED
  BY <1>1, InvHolds, PTL

(* DeadLetteredOnce: whatever the order of retries, crashes, restarts and         *)
(* replays, a dead letter is on no pending list and was filed once.             *)
THEOREM FiledOff == Spec => []DeadLetteredOnce
<1>1. Inv => DeadLetteredOnce
  BY TypesGiveTypeOK DEF Inv, FiledOnce, DeadLetteredOnce
<1>2. QED
  BY <1>1, InvHolds, PTL

-----------------------------------------------------------------------------
(* What a step does to the messages' fates: most do nothing.                     *)
Deciding == {"mark", "ack", "dlqAdd"}

(* The same messages are delivered and on no list.                             *)
SameFates ==
  \A m \in MessageIds : m =< cursor' /\ owner'[m] = NoOwner <=> m =< cursor /\ owner[m] = NoOwner

(* The same consumers have the same message between the handler and its ack, or   *)
(* between the two commands of move_to_dlq.                                    *)
SameWork ==
  \A d \in Consumers :
    pc[d] \in Deciding \/ pc'[d] \in Deciding => pc'[d] = pc[d] /\ Current(d)' = Current(d)

MainKept == Len(main') >= Len(main) /\ \A m \in 1..Len(main) : main'[m] = main[m]

Quiet(c) ==
  \/ Join(c) \/ StopSeen(c) \/ read_new(c) \/ ReadOthers(c) \/ HandleOthers(c)
  \/ read_pending(c) \/ DecodeRaises(c) \/ is_processed(c)
  \/ HandlerFails(c) \/ HandlerFailsLate(c) \/ SetStop(c) \/ Restart(c)

LEMMA QuietStep ==
  ASSUME Inv, NEW c \in Consumers, Quiet(c)
  PROVE  SameFates /\ SameWork /\ UNCHANGED <<main, processed, dlq, crashes>>
<1>0. ConsumerTypes /\ "stopped" \in PCs /\ "join" \in PCs
  BY DEF Inv, Types, PCs, Running
<1>1. CASE Join(c)
  BY <1>1, JoinStep DEF SameFates, SameWork, Deciding, InBatch, Failing, Current
<1>2. CASE StopSeen(c)
  <2>1. /\ pc[c] = "read" /\ Goto(c, "stopped")
        /\ UNCHANGED <<main, cursor, owner, processed, dlq, batch, crashes>>
    BY <1>2 DEF StopSeen, mainStream, dlqStream, faults
  <2>2. \A d \in Consumers : pc'[d] = IF d = c THEN "stopped" ELSE pc[d]
    BY <1>0, <2>1, Moved
  <2>3. QED
    BY <2>1, <2>2 DEF SameFates, SameWork, Deciding, Current
<1>3. CASE read_new(c)
  <2>1. SameWork
    BY <1>3, ReadNewStep DEF SameWork, Deciding, InBatch, Failing
  <2>2. QED
    BY <1>3, <2>1, ReadNewStep DEF SameFates
<1>4. CASE read_pending(c)
  BY <1>4, ReadPendingStep DEF SameFates, SameWork, Deciding, InBatch, Failing
<1>5. CASE is_processed(c)
  BY <1>5, CheckStep DEF SameFates, SameWork, Deciding
<1>6. CASE HandlerFails(c) \/ HandlerFailsLate(c)
  BY <1>6, FailStep DEF SameFates, SameWork, Deciding
<1>7. CASE SetStop(c)
  BY <1>7 DEF SetStop, mainStream, dlqStream, SameFates, SameWork, Current
<1>8. CASE Restart(c)
  <2>1. /\ pc[c] \in {"stopped", "dead"} /\ Goto(c, "join")
        /\ UNCHANGED <<main, cursor, owner, processed, dlq, batch, crashes>>
    BY <1>8 DEF Restart, mainStream, dlqStream, faults
  <2>2. \A d \in Consumers : pc'[d] = IF d = c THEN "join" ELSE pc[d]
    BY <1>0, <2>1, Moved
  <2>3. QED
    BY <2>1, <2>2 DEF SameFates, SameWork, Deciding, Current
<1>9. CASE ReadOthers(c) \/ HandleOthers(c)
  BY <1>9, OthersStep DEF SameFates, SameWork, Deciding, Current
<1>10. CASE DecodeRaises(c)
  BY <1>10, CrashStep DEF SameFates, SameWork, Deciding
<1>11. QED
  BY <1>1, <1>2, <1>3, <1>4, <1>5, <1>6, <1>7, <1>8, <1>9, <1>10 DEF Quiet

(* No failure is forgotten by the count, and only a crash counts as one.          *)
LEMMA CountsGrow ==
  ASSUME Inv, [Next]_vars
  PROVE  /\ \A m \in MessageIds : failures'[m] >= failures[m]
         /\ crashes' = crashes \/ \E c \in Consumers : Crash(c)
<1>0. \A m \in MessageIds : failures[m] \in Nat
  BY DEF Inv, Types, CountTypes
<1>1. CASE (\E p \in Payments : publish(p) \/ ForeignEntry(p)) \/ read_dlq \/ ack_dlq \/ Republish
  BY <1>0, <1>1, BrokerTypes
<1>2. CASE UNCHANGED vars
  BY <1>0, <1>2 DEF vars
<1>3. ASSUME NEW c \in Consumers, HandlerFails(c) \/ HandlerFailsLate(c)
      PROVE  crashes' = crashes /\ \A m \in MessageIds : failures'[m] >= failures[m]
  BY <1>3, FailStep
<1>4. ASSUME NEW c \in Consumers,
             Consumer(c) \/ SetStop(c) \/ Restart(c), ~HandlerFails(c)
      PROVE  failures' = failures /\ crashes' = crashes
  BY <1>4 DEF Consumer, EnsureMainGroup, EnsureDlqGroup, StopSeen, read_new, ReadOthers,
              HandleOthers, read_pending, DecodeRaises, is_processed,
              SkipDuplicate, HandlerSucceeds, mark_processed, ack, MoveToDlqAck, MoveToDlqAdd,
              SetStop, Restart, faults
<1>5. ASSUME NEW c \in Consumers, Crash(c)
      PROVE  failures' = failures
  BY <1>5 DEF Crash
<1>6. QED
  BY <1>0, <1>1, <1>2, <1>3, <1>4, <1>5 DEF Next

-----------------------------------------------------------------------------
(* A step keeps what was accounted for accounted for when every message it takes   *)
(* off the list is processed, in the DLQ or on its way there.                   *)
LEMMA NothingDropped ==
  ASSUME Inv, MainKept, cursor' \in 0..Len(main'),
         processed \subseteq processed', DeadLettered \subseteq DeadLettered',
         \A m \in MessageIds : m =< cursor' /\ owner'[m] = NoOwner =>
           \/ m =< cursor /\ owner[m] = NoOwner
           \/ m =< cursor /\ main[m] \in processed'
           \/ \E d \in Consumers : pc'[d] = "dlqAdd" /\ Current(d)' = m,
         \A d \in Consumers : pc[d] = "dlqAdd" =>
           \/ Current(d) \in DeadLettered'
           \/ pc'[d] = "dlqAdd" /\ Current(d)' = Current(d),
         Len(main') =< MaxMessages
  PROVE  Dropped' \subseteq Dropped
<1> SUFFICES ASSUME NEW m \in Dropped'
             PROVE  m \in Dropped
  OBVIOUS
<1>1. /\ m \in 1..cursor' /\ owner'[m] = NoOwner /\ main'[m] \notin processed'
      /\ m \notin DeadLettered'
      /\ \A c \in Consumers : ~(pc'[c] = "dlqAdd" /\ Current(c)' = m)
  BY DEF Dropped
<1>2. m \in MessageIds /\ m =< cursor' /\ m >= 1
  BY <1>1, BoundAssumption DEF MessageIds
<1>3. /\ cursor \in 0..Len(main) /\ Len(main) \in Nat
  BY LenProperties DEF Inv, Types, MainTypes
<1>4. m =< cursor => m \in 1..cursor /\ main'[m] = main[m]
  BY <1>2, <1>3 DEF MainKept, MessageIds
<1>5. m =< cursor /\ owner[m] = NoOwner
  BY <1>1, <1>2, <1>4
<1>6. QED
  BY <1>1, <1>4, <1>5 DEF Dropped

(* Each step drops nothing, but for a crash, which drops one message at most, whose  *)
(* budget was spent.                                                          *)
LEMMA DropStep ==
  ASSUME Inv, [Next]_vars
  PROVE  \/ Dropped' \subseteq Dropped
         \/ /\ crashes' = crashes + 1
            /\ \E m \in 1..cursor :
                 Dropped' \subseteq Dropped \cup {m} /\ failures'[m] >= MaxAttempts
<1>0. /\ Inv' /\ cursor' \in 0..Len(main') /\ Len(main') =< MaxMessages /\ Len(main') \in Nat
      /\ Len(main) \in Nat /\ cursor \in 0..Len(main)
  <2>1. Inv'
    BY NextInv
  <2>2. main \in Seq(Payments) /\ main' \in Seq(Payments)
    BY <2>1 DEF Inv, Types, MainTypes
  <2>3. QED
    BY <2>1, <2>2, LenProperties DEF Inv, Types, MainTypes
<1>1. CASE (\E p \in Payments : publish(p) \/ ForeignEntry(p)) \/ read_dlq \/ ack_dlq \/ Republish
  <2>1. Extended /\ UNCHANGED <<cursor, owner, processed, dlq, pc, batch>>
    BY <1>1, BrokerTypes
  <2>2. MainKept /\ DeadLettered' = DeadLettered /\ \A d \in Consumers : Current(d)' = Current(d)
    BY <2>1 DEF Extended, MainKept, DeadLettered, Current
  <2>3. QED
    BY <1>0, <2>1, <2>2, NothingDropped
<1>2. CASE UNCHANGED vars
  <2>1. Dropped' = Dropped
    BY <1>2 DEF vars, Dropped, DeadLettered, Current
  <2>2. QED
    BY <2>1
<1>3. ASSUME NEW c \in Consumers, Quiet(c)
      PROVE  Dropped' \subseteq Dropped
  <2>1. SameFates /\ SameWork /\ UNCHANGED <<main, processed, dlq>>
    BY <1>3, QuietStep
  <2>2. MainKept /\ DeadLettered' = DeadLettered
    BY <1>0, <2>1 DEF MainKept, DeadLettered
  <2>3. QED
    BY <1>0, <2>1, <2>2, NothingDropped DEF SameFates, SameWork, Deciding
<1>4. ASSUME NEW c \in Consumers, SkipDuplicate(c) \/ ack(c)
      PROVE  Dropped' \subseteq Dropped
  <2>1. pc[c] \in {"skipAck", "ack"}
    BY <1>4 DEF SkipDuplicate, ack
  <2>2. Current(c) \in 1..cursor /\ main[Current(c)] \in processed
    BY <2>1, CurrentIn DEF Inv, AcksProcessed, InBatch
  <2>3. /\ UNCHANGED <<main, cursor, processed, dlq>>
        /\ \A m \in MessageIds : owner'[m] = IF m = Current(c) THEN NoOwner ELSE owner[m]
        /\ \A d \in Consumers \ {c} : pc'[d] = pc[d] /\ Current(d)' = Current(d)
    BY <1>4, FinishStep
  <2>4. MainKept /\ DeadLettered' = DeadLettered /\ Current(c) =< cursor
    BY <1>0, <2>2, <2>3 DEF MainKept, DeadLettered
  <2>5. \A m \in MessageIds : m =< cursor' /\ owner'[m] = NoOwner =>
          \/ m =< cursor /\ owner[m] = NoOwner
          \/ m =< cursor /\ main[m] \in processed'
    <3>1. cursor' = cursor /\ processed' = processed
      BY <2>3
    <3>2. QED
      BY <2>2, <2>3, <3>1
  <2>6. \A d \in Consumers : pc[d] = "dlqAdd" => pc'[d] = "dlqAdd" /\ Current(d)' = Current(d)
    BY <2>1, <2>3
  <2>7. QED
    BY <1>0, <2>3, <2>4, <2>5, <2>6, NothingDropped
<1>5. ASSUME NEW c \in Consumers, HandlerSucceeds(c) \/ mark_processed(c)
      PROVE  Dropped' \subseteq Dropped
  <2>1. /\ UNCHANGED <<main, cursor, owner, dlq>> /\ processed \subseteq processed'
        /\ \A d \in Consumers : Current(d)' = Current(d)
        /\ \A d \in Consumers \ {c} : pc'[d] = pc[d]
        /\ pc[c] \in {"handle", "mark"}
    BY <1>5, SucceedStep, MarkStep
  <2>2. MainKept /\ DeadLettered' = DeadLettered
    BY <1>0, <2>1 DEF MainKept, DeadLettered
  <2>3. \A d \in Consumers : pc[d] = "dlqAdd" => pc'[d] = "dlqAdd" /\ Current(d)' = Current(d)
    BY <2>1
  <2>4. QED
    BY <1>0, <2>1, <2>2, <2>3, NothingDropped
<1>6. ASSUME NEW c \in Consumers, MoveToDlqAck(c)
      PROVE  Dropped' \subseteq Dropped
  <2>1. /\ UNCHANGED <<main, cursor, processed, dlq>>
        /\ \A m \in MessageIds : owner'[m] = IF m = Current(c) THEN NoOwner ELSE owner[m]
        /\ \A d \in Consumers : Current(d)' = Current(d)
        /\ \A d \in Consumers : pc'[d] = IF d = c THEN "dlqAdd" ELSE pc[d]
        /\ pc[c] = "dlqAck"
    BY <1>6, MoveAckStep
  <2>2. MainKept /\ DeadLettered' = DeadLettered
    BY <1>0, <2>1 DEF MainKept, DeadLettered
  <2>3. \A m \in MessageIds : m =< cursor' /\ owner'[m] = NoOwner =>
          \/ m =< cursor /\ owner[m] = NoOwner
          \/ \E d \in Consumers : pc'[d] = "dlqAdd" /\ Current(d)' = m
    BY <2>1
  <2>4. \A d \in Consumers : pc[d] = "dlqAdd" => pc'[d] = "dlqAdd" /\ Current(d)' = Current(d)
    BY <2>1
  <2>5. QED
    BY <1>0, <2>1, <2>2, <2>3, <2>4, NothingDropped
<1>7. ASSUME NEW c \in Consumers, MoveToDlqAdd(c)
      PROVE  Dropped' \subseteq Dropped
  <2>1. /\ UNCHANGED <<main, cursor, owner, processed>>
        /\ DeadLettered' = DeadLettered \cup {Current(c)}
        /\ \A d \in Consumers \ {c} : pc'[d] = pc[d] /\ Current(d)' = Current(d)
    BY <1>7, MoveAddStep
  <2>2. MainKept
    BY <1>0, <2>1 DEF MainKept
  <2>3. \A d \in Consumers : pc[d] = "dlqAdd" =>
          \/ Current(d) \in DeadLettered'
          \/ pc'[d] = "dlqAdd" /\ Current(d)' = Current(d)
    BY <2>1
  <2>4. QED
    BY <1>0, <2>1, <2>2, <2>3, NothingDropped
<1>8. ASSUME NEW c \in Consumers, Crash(c)
      PROVE  \/ Dropped' \subseteq Dropped
             \/ /\ crashes' = crashes + 1
                /\ \E m \in 1..cursor :
                     Dropped' \subseteq Dropped \cup {m} /\ failures'[m] >= MaxAttempts
  <2>1. /\ UNCHANGED <<main, cursor, owner, processed, dlq, failures>>
        /\ crashes' = crashes + 1
        /\ \A d \in Consumers \ {c} : pc'[d] = pc[d] /\ Current(d)' = Current(d)
    BY <1>8, CrashStep
  <2>2. MainKept /\ DeadLettered' = DeadLettered
    BY <1>0, <2>1 DEF MainKept, DeadLettered
  <2>3. CASE pc[c] # "dlqAdd"
    <3>1. \A d \in Consumers : pc[d] = "dlqAdd" => pc'[d] = "dlqAdd" /\ Current(d)' = Current(d)
      BY <2>1, <2>3
    <3>2. QED
      BY <1>0, <2>1, <2>2, <3>1, NothingDropped
  <2>4. CASE pc[c] = "dlqAdd"
    <3>1. Current(c) \in 1..cursor /\ Current(c) \in MessageIds
      BY <2>4, CurrentIn DEF InBatch, Failing
    <3>2. failures[Current(c)] >= MaxAttempts
      BY <2>4, <3>1 DEF Inv, Budget, Failing
    <3>3. Dropped' \subseteq Dropped \cup {Current(c)}
      BY <2>1, <2>2 DEF Dropped
    <3>4. QED
      BY <2>1, <3>1, <3>2, <3>3
  <2>5. QED
    BY <2>3, <2>4
<1>9. QED
  BY <1>1, <1>2, <1>3, <1>4, <1>5, <1>6, <1>7, <1>8 DEF Next, Consumer, Quiet, Join

(* A set that gains one element at most, and the count that pays for it.          *)
LEMMA OneMore ==
  ASSUME NEW S, NEW T, IsFiniteSet(T), NEW x, S \subseteq T \cup {x}
  PROVE  /\ IsFiniteSet(S) /\ Cardinality(S) =< Cardinality(T) + 1
         /\ Cardinality(S) \in Nat /\ Cardinality(T) \in Nat
<1>1. /\ IsFiniteSet(T \cup {x}) /\ Cardinality(T) \in Nat
      /\ Cardinality(T \cup {x}) \in {Cardinality(T), Cardinality(T) + 1}
  BY FS_AddElement, FS_CardinalityType
<1>2. IsFiniteSet(S) /\ Cardinality(S) =< Cardinality(T \cup {x})
  BY <1>1, FS_Subset
<1>3. QED
  BY <1>1, <1>2, FS_CardinalityType

(* DropsNeedCrash: whatever the order of steps and deaths, a message acked off      *)
(* main with no outcome recorded had spent its whole budget, and there are no       *)
(* more of them than consumers that died.                                       *)
THEOREM DropsPaidFor == Spec => []DropsNeedCrash
<1>1. Init => DropsNeedCrash
  <2> SUFFICES ASSUME Init PROVE DropsNeedCrash
    OBVIOUS
  <2>1. Dropped = {} /\ crashes = 0
    BY DEF Init, Dropped
  <2>2. Cardinality(Dropped) = 0
    BY <2>1, FS_EmptySet
  <2>3. QED
    BY <2>1, <2>2 DEF DropsNeedCrash
<1>2. Inv /\ DropsNeedCrash /\ [Next]_vars => DropsNeedCrash'
  <2> SUFFICES ASSUME Inv, DropsNeedCrash, [Next]_vars PROVE DropsNeedCrash'
    OBVIOUS
  <2>1. /\ cursor \in Nat /\ 1..cursor \subseteq MessageIds
        /\ \A m \in MessageIds : failures[m] \in 0..MaxAttempts
        /\ crashes \in Nat /\ MaxAttempts \in Nat
    BY ReadNewRun, BoundAssumption, BudgetAssumption
       DEF Inv, Types, MainTypes, CountTypes, MessageIds
  <2>2. Dropped \subseteq 1..cursor /\ IsFiniteSet(Dropped)
    <3>1. Dropped \subseteq 1..cursor
      BY DEF Dropped
    <3>2. IsFiniteSet(1..cursor)
      BY <2>1, FS_Interval
    <3>3. QED
      BY <3>1, <3>2, FS_Subset
  <2>3. /\ \A m \in MessageIds : failures'[m] \in 0..MaxAttempts
        /\ \A m \in MessageIds : failures'[m] >= failures[m]
        /\ crashes' \in Nat /\ crashes' >= crashes
    <3>1. Inv'
      BY NextInv
    <3>2. crashes' = crashes \/ crashes' = crashes + 1
      BY CountsGrow, CrashStep
    <3>3. QED
      BY <2>1, <3>1, <3>2, CountsGrow DEF Inv, Types, CountTypes
  <2>4. \A m \in Dropped : m \in MessageIds /\ failures'[m] >= MaxAttempts
    BY <2>1, <2>2, <2>3 DEF DropsNeedCrash
  <2>5. CASE Dropped' \subseteq Dropped
    <3>1. Cardinality(Dropped') =< Cardinality(Dropped) /\ Cardinality(Dropped) \in Nat
          /\ Cardinality(Dropped') \in Nat
      BY <2>2, <2>5, FS_Subset, FS_CardinalityType
    <3>2. QED
      BY <2>1, <2>3, <2>4, <2>5, <3>1 DEF DropsNeedCrash
  <2>6. CASE crashes' = crashes + 1 /\ \E m \in 1..cursor :
               Dropped' \subseteq Dropped \cup {m} /\ failures'[m] >= MaxAttempts
    <3>1. PICK m \in 1..cursor : Dropped' \subseteq Dropped \cup {m} /\ failures'[m] >= MaxAttempts
      BY <2>6
    <3>2. Cardinality(Dropped') =< Cardinality(Dropped) + 1 /\ Cardinality(Dropped) \in Nat
          /\ Cardinality(Dropped') \in Nat
      BY <2>2, <3>1, OneMore
    <3>3. QED
      BY <2>1, <2>4, <2>6, <3>1, <3>2 DEF DropsNeedCrash
  <2>7. QED
    BY <2>5, <2>6, DropStep
<1>3. QED
  BY <1>1, <1>2, InvHolds, PTL DEF Spec

-----------------------------------------------------------------------------
(* What is settled stays so when the consumers between handler and ack keep their    *)
(* message or have it acked.                                                   *)
LEMMA SettledKept ==
  ASSUME Inv, MainKept, main' \in Seq(Payments),
         \A m \in MessageIds : m =< cursor /\ owner[m] = NoOwner => m =< cursor' /\ owner'[m] = NoOwner,
         \A d \in Consumers : pc[d] \in {"mark", "ack"} =>
           \/ pc'[d] \in {"mark", "ack"} /\ Current(d)' = Current(d)
           \/ Current(d) =< cursor' /\ owner'[Current(d)] = NoOwner,
         NEW p
  PROVE  Settled(p) \subseteq Settled(p)'
<1> SUFFICES ASSUME NEW m \in Settled(p)
             PROVE  m \in Settled(p)'
  OBVIOUS
<1>1. /\ m \in DOMAIN main /\ main[m] = p
      /\ \/ m =< cursor /\ owner[m] = NoOwner
         \/ \E c \in Consumers : pc[c] \in {"mark", "ack"} /\ Current(c) = m
  BY DEF Settled
<1>2. /\ DOMAIN main = 1..Len(main) /\ DOMAIN main' = 1..Len(main')
      /\ Len(main) \in Nat /\ Len(main') \in Nat /\ Len(main) =< MaxMessages
  BY LenProperties DEF Inv, Types, MainTypes
<1>3. m \in DOMAIN main' /\ main'[m] = p /\ m \in MessageIds
  BY <1>1, <1>2, BoundAssumption DEF MainKept, MessageIds
<1>4. \/ m =< cursor' /\ owner'[m] = NoOwner
      \/ \E c \in Consumers : pc'[c] \in {"mark", "ack"} /\ Current(c)' = m
  BY <1>1, <1>3
<1>5. QED
  BY <1>3, <1>4 DEF Settled

(* Each step that charges a payment settles one more of its messages, or is a late   *)
(* failure; a crash unsettles one message at most.                               *)
LEMMA ChargeStep ==
  ASSUME Inv, [Next]_vars, NEW p \in Payments
  PROVE  \/ /\ charged'[p] = charged[p] /\ Settled(p) \subseteq Settled(p)'
            /\ UNCHANGED <<crashes, lateFailures>>
         \/ /\ charged'[p] \in {charged[p], charged[p] + 1} /\ Settled(p) \subseteq Settled(p)'
            /\ crashes' = crashes /\ lateFailures' = lateFailures + 1
         \/ /\ charged'[p] = charged[p] + 1 /\ UNCHANGED <<crashes, lateFailures>>
            /\ \E x : x \notin Settled(p) /\ Settled(p) \cup {x} \subseteq Settled(p)'
         \/ /\ charged'[p] = charged[p] /\ crashes' = crashes + 1 /\ lateFailures' = lateFailures
            /\ \E x : Settled(p) \subseteq Settled(p)' \cup {x}
<1> DEFINE Kept == /\ charged'[p] = charged[p] /\ Settled(p) \subseteq Settled(p)'
                   /\ UNCHANGED <<crashes, lateFailures>>
<1>0. /\ Inv' /\ main' \in Seq(Payments) /\ Len(main) \in Nat /\ charged \in [Payments -> Nat]
      /\ cursor \in Nat
  <2>1. Inv'
    BY NextInv
  <2>2. main \in Seq(Payments) /\ main' \in Seq(Payments) /\ MainTypes
    BY <2>1 DEF Inv, Types, MainTypes
  <2>3. QED
    BY <2>1, <2>2, LenProperties, ReadNewRun DEF Inv, Types, CountTypes
<1>1. CASE (\E q \in Payments : publish(q) \/ ForeignEntry(q)) \/ read_dlq \/ ack_dlq \/ Republish
  <2>1. Extended /\ UNCHANGED <<cursor, owner, pc, batch, charged, crashes, lateFailures>>
    BY <1>1, BrokerTypes
  <2>2. MainKept /\ \A d \in Consumers : Current(d)' = Current(d)
    BY <2>1 DEF Extended, MainKept, Current
  <2>3. Settled(p) \subseteq Settled(p)'
    BY <1>0, <2>1, <2>2, SettledKept
  <2>4. Kept
    BY <2>1, <2>3
  <2>5. QED
    BY <2>4
<1>2. CASE UNCHANGED vars
  <2>1. Kept
    BY <1>2 DEF vars, Settled, Current
  <2>2. QED
    BY <2>1
<1>3. ASSUME NEW c \in Consumers, Quiet(c)
      PROVE  Settled(p) \subseteq Settled(p)' /\ crashes' = crashes
  <2>1. SameFates /\ SameWork /\ UNCHANGED <<main, crashes>>
    BY <1>3, QuietStep
  <2>2. MainKept
    BY <1>0, <2>1 DEF MainKept
  <2>3. \A d \in Consumers : pc[d] \in {"mark", "ack"} =>
          pc'[d] \in {"mark", "ack"} /\ Current(d)' = Current(d)
    BY <2>1 DEF SameWork, Deciding
  <2>4. \A m \in MessageIds : m =< cursor /\ owner[m] = NoOwner => m =< cursor' /\ owner'[m] = NoOwner
    BY <2>1 DEF SameFates
  <2>5. QED
    BY <1>0, <2>1, <2>2, <2>3, <2>4, SettledKept
<1>4. ASSUME NEW c \in Consumers, Quiet(c), ~HandlerFailsLate(c)
      PROVE  Kept
  <2>1. UNCHANGED <<charged, lateFailures>>
    BY <1>4 DEF Quiet, Join, EnsureMainGroup, EnsureDlqGroup, StopSeen, read_new, ReadOthers,
                HandleOthers, read_pending, DecodeRaises, is_processed,
                HandlerFails, SetStop, Restart, faults
  <2>2. QED
    BY <1>3, <1>4, <2>1
<1>5. ASSUME NEW c \in Consumers, HandlerFailsLate(c)
      PROVE  /\ charged'[p] \in {charged[p], charged[p] + 1} /\ Settled(p) \subseteq Settled(p)'
             /\ crashes' = crashes /\ lateFailures' = lateFailures + 1
  <2>1. /\ charged' = [charged EXCEPT ![PaymentOf(c)] = @ + 1]
        /\ lateFailures' = lateFailures + 1 /\ Quiet(c)
    BY <1>5 DEF HandlerFailsLate, Quiet
  <2>2. QED
    BY <1>0, <1>3, <2>1
<1>6. ASSUME NEW c \in Consumers, SkipDuplicate(c) \/ ack(c)
      PROVE  Kept
  <2>1. pc[c] \in {"skipAck", "ack"}
    BY <1>6 DEF SkipDuplicate, ack
  <2>2. Current(c) \in 1..cursor /\ Current(c) \in MessageIds
    BY <2>1, CurrentIn DEF InBatch
  <2>3. /\ UNCHANGED <<main, cursor, charged, crashes, lateFailures>>
        /\ \A m \in MessageIds : owner'[m] = IF m = Current(c) THEN NoOwner ELSE owner[m]
        /\ \A d \in Consumers \ {c} : pc'[d] = pc[d] /\ Current(d)' = Current(d)
    BY <1>6, FinishStep
  <2>4. MainKept /\ Current(c) =< cursor'
    BY <1>0, <2>2, <2>3 DEF MainKept
  <2>5. \A m \in MessageIds : m =< cursor /\ owner[m] = NoOwner => m =< cursor' /\ owner'[m] = NoOwner
    BY <2>3
  <2>6. \A d \in Consumers : pc[d] \in {"mark", "ack"} =>
          \/ pc'[d] \in {"mark", "ack"} /\ Current(d)' = Current(d)
          \/ Current(d) =< cursor' /\ owner'[Current(d)] = NoOwner
    BY <2>2, <2>3, <2>4
  <2>7. Settled(p) \subseteq Settled(p)'
    BY <1>0, <2>4, <2>5, <2>6, SettledKept
  <2>8. QED
    BY <2>3, <2>7
<1>7. ASSUME NEW c \in Consumers, mark_processed(c) \/ MoveToDlqAck(c) \/ MoveToDlqAdd(c)
      PROVE  Kept
  <2>1. /\ UNCHANGED <<main, cursor, charged, crashes, lateFailures>>
        /\ \A m \in MessageIds : owner'[m] = owner[m] \/ owner'[m] = NoOwner
        /\ \A d \in Consumers \ {c} : pc'[d] = pc[d] /\ Current(d)' = Current(d)
        /\ \/ pc[c] = "mark" /\ pc'[c] = "ack" /\ Current(c)' = Current(c)
           \/ pc[c] \in {"dlqAck", "dlqAdd"}
    BY <1>7, MarkStep, MoveAckStep, MoveAddStep
  <2>2. MainKept
    BY <1>0, <2>1 DEF MainKept
  <2>3. \A d \in Consumers : pc[d] \in {"mark", "ack"} =>
          pc'[d] \in {"mark", "ack"} /\ Current(d)' = Current(d)
    BY <2>1
  <2>4. \A m \in MessageIds : m =< cursor /\ owner[m] = NoOwner => m =< cursor' /\ owner'[m] = NoOwner
    BY <2>1
  <2>5. Settled(p) \subseteq Settled(p)'
    BY <1>0, <2>2, <2>3, <2>4, SettledKept
  <2>6. QED
    BY <2>1, <2>5
<1>8. ASSUME NEW c \in Consumers, HandlerSucceeds(c)
      PROVE  \/ Kept
             \/ /\ charged'[p] = charged[p] + 1 /\ UNCHANGED <<crashes, lateFailures>>
                /\ \E x : x \notin Settled(p) /\ Settled(p) \cup {x} \subseteq Settled(p)'
  <2> DEFINE cur == Current(c)
  <2>1. /\ UNCHANGED <<main, cursor, owner, crashes, lateFailures>>
        /\ \A d \in Consumers : Current(d)' = Current(d)
        /\ \A d \in Consumers \ {c} : pc'[d] = pc[d]
        /\ pc[c] = "handle" /\ pc'[c] = "mark"
        /\ \A q \in Payments : charged'[q] = IF q = PaymentOf(c) THEN charged[q] + 1 ELSE charged[q]
    BY <1>8, SucceedStep
  <2>2. MainKept
    BY <1>0, <2>1 DEF MainKept
  <2>3. Settled(p) \subseteq Settled(p)'
    <3>1. \A d \in Consumers : pc[d] \in {"mark", "ack"} =>
            pc'[d] \in {"mark", "ack"} /\ Current(d)' = Current(d)
      BY <2>1
    <3>2. \A m \in MessageIds : m =< cursor /\ owner[m] = NoOwner => m =< cursor' /\ owner'[m] = NoOwner
      BY <2>1
    <3>3. QED
      BY <1>0, <2>2, <3>1, <3>2, SettledKept
  <2>4. cur \in batch[c] /\ cur \in DOMAIN main /\ PaymentOf(c) = main[cur]
    BY <2>1, CurrentIn DEF InBatch
  <2>5. CASE p = PaymentOf(c)
    <3>1. owner[cur] = c
      BY <2>1, <2>4 DEF Inv, Position
    <3>2. \A d \in Consumers : pc[d] \in {"mark", "ack"} => Current(d) # cur
      <4>1. \A d \in Consumers : pc[d] \in {"mark", "ack"} => Current(d) \in batch[d] /\ d # c
        BY <2>1, CurrentIn DEF InBatch
      <4>2. QED
        BY <2>4, <4>1 DEF Inv, Position
    <3>3. cur \notin Settled(p)
      BY <3>1, <3>2, OwnerAssumption DEF Settled
    <3>4. cur \in Settled(p)'
      BY <2>1, <2>4, <2>5 DEF Settled
    <3>5. charged'[p] = charged[p] + 1
      BY <2>1, <2>5
    <3>6. Settled(p) \cup {cur} \subseteq Settled(p)'
      BY <2>3, <3>4
    <3>7. QED
      BY <2>1, <3>3, <3>5, <3>6
  <2>6. CASE p # PaymentOf(c)
    BY <2>1, <2>3, <2>6
  <2>7. QED
    BY <2>5, <2>6
<1>9. ASSUME NEW c \in Consumers, Crash(c)
      PROVE  /\ charged'[p] = charged[p] /\ crashes' = crashes + 1 /\ lateFailures' = lateFailures
             /\ \E x : Settled(p) \subseteq Settled(p)' \cup {x}
  <2>1. /\ UNCHANGED <<main, cursor, owner, charged, lateFailures>>
        /\ crashes' = crashes + 1
        /\ \A d \in Consumers \ {c} : pc'[d] = pc[d] /\ Current(d)' = Current(d)
    BY <1>9, CrashStep
  <2>2. Settled(p) \subseteq Settled(p)' \cup {Current(c)}
    BY <2>1 DEF Settled
  <2>3. QED
    BY <2>1, <2>2
<1> HIDE DEF Kept
<1>10. Kept \/ (/\ charged'[p] \in {charged[p], charged[p] + 1} /\ Settled(p) \subseteq Settled(p)'
                /\ crashes' = crashes /\ lateFailures' = lateFailures + 1)
            \/ (/\ charged'[p] = charged[p] + 1 /\ UNCHANGED <<crashes, lateFailures>>
                /\ \E x : x \notin Settled(p) /\ Settled(p) \cup {x} \subseteq Settled(p)')
            \/ (/\ charged'[p] = charged[p] /\ crashes' = crashes + 1 /\ lateFailures' = lateFailures
                /\ \E x : Settled(p) \subseteq Settled(p)' \cup {x})
  <2>1. CASE \E c \in Consumers : Quiet(c)
    BY <1>4, <1>5, <2>1
  <2>2. QED
    BY <1>1, <1>2, <1>6, <1>7, <1>8, <1>9, <2>1 DEF Next, Consumer, Quiet, Join, Kept
<1>11. QED
  BY <1>10 DEF Kept

(* The messages that carry a payment, and among them the settled ones, are finite.    *)
LEMMA CarriersFinite ==
  ASSUME Inv, NEW p
  PROVE  /\ IsFiniteSet({m \in DOMAIN main : main[m] = p})
         /\ IsFiniteSet(Settled(p)) /\ Cardinality(Settled(p)) \in Nat
         /\ Cardinality(Settled(p)) =< Cardinality({m \in DOMAIN main : main[m] = p})
         /\ Cardinality({m \in DOMAIN main : main[m] = p}) \in Nat
<1> DEFINE carriers == {m \in DOMAIN main : main[m] = p}
<1>1. DOMAIN main = 1..Len(main) /\ Len(main) \in Int /\ 1 \in Int
  BY LenProperties DEF Inv, Types, MainTypes
<1>2. IsFiniteSet(DOMAIN main)
  BY <1>1, FS_Interval
<1>3. carriers \subseteq DOMAIN main /\ Settled(p) \subseteq carriers
  BY DEF Settled
<1> HIDE DEF carriers
<1>4. IsFiniteSet(carriers)
  BY <1>2, <1>3, FS_Subset
<1>5. IsFiniteSet(Settled(p)) /\ Cardinality(Settled(p)) =< Cardinality(carriers)
  BY <1>3, <1>4, FS_Subset
<1>6. QED
  BY <1>4, <1>5, FS_CardinalityType DEF carriers

(* ChargesAccounted: whatever the number of consumers that race past the processed    *)
(* set, a payment is charged no more often than it was published, replayed from the   *)
(* DLQ, lost by a crash or raised after.                                        *)
THEOREM ChargesPaidFor == Spec => []ChargesAccounted
<1>1. Init => ChargesSettled
  <2> SUFFICES ASSUME Init, NEW p \in Payments
               PROVE  charged[p] =< Cardinality(Settled(p)) + crashes + lateFailures
    BY DEF ChargesSettled
  <2>1. Cardinality(Settled(p)) \in Nat
    BY InitInv, CarriersFinite
  <2>2. charged[p] = 0 /\ crashes = 0 /\ lateFailures = 0
    BY DEF Init
  <2>3. QED
    BY <2>1, <2>2
<1>2. Inv /\ ChargesSettled /\ [Next]_vars => ChargesSettled'
  <2> SUFFICES ASSUME Inv, ChargesSettled, [Next]_vars, NEW p \in Payments
               PROVE  charged'[p] =< Cardinality(Settled(p)') + crashes' + lateFailures'
    BY DEF ChargesSettled
  <2> DEFINE S == Settled(p)
             T == Settled(p)'
  <2>1. Inv'
    BY NextInv
  <2>2. IsFiniteSet(S) /\ Cardinality(S) \in Nat
    BY CarriersFinite
  <2>3. IsFiniteSet(T) /\ Cardinality(T) \in Nat
    <3>1. Types' /\ MainTypes'
      BY <2>1 DEF Inv, Types
    <3>2. DOMAIN main' = 1..Len(main') /\ Len(main') \in Int /\ 1 \in Int
      BY <3>1, LenProperties DEF MainTypes
    <3>3. IsFiniteSet(DOMAIN main')
      BY <3>2, FS_Interval
    <3>4. T \subseteq DOMAIN main'
      BY DEF Settled
    <3> HIDE DEF T
    <3>5. QED
      BY <3>3, <3>4, FS_Subset, FS_CardinalityType
  <2>4. /\ charged[p] \in Nat /\ charged'[p] \in Nat /\ crashes \in Nat /\ lateFailures \in Nat
        /\ charged[p] =< Cardinality(S) + crashes + lateFailures
    BY <2>1 DEF Inv, Types, CountTypes, ChargesSettled
  <2>5. \/ /\ charged'[p] = charged[p] /\ S \subseteq T /\ UNCHANGED <<crashes, lateFailures>>
        \/ /\ charged'[p] \in {charged[p], charged[p] + 1} /\ S \subseteq T
           /\ crashes' = crashes /\ lateFailures' = lateFailures + 1
        \/ /\ charged'[p] = charged[p] + 1 /\ UNCHANGED <<crashes, lateFailures>>
           /\ \E x : x \notin S /\ S \cup {x} \subseteq T
        \/ /\ charged'[p] = charged[p] /\ crashes' = crashes + 1 /\ lateFailures' = lateFailures
           /\ \E x : S \subseteq T \cup {x}
    BY ChargeStep
  <2> HIDE DEF S, T
  <2>6. CASE S \subseteq T
    <3>1. Cardinality(S) =< Cardinality(T)
      BY <2>3, <2>6, FS_Subset
    <3>2. CASE charged'[p] = charged[p] /\ UNCHANGED <<crashes, lateFailures>>
      BY <2>2, <2>3, <2>4, <3>1, <3>2 DEF T
    <3>3. CASE /\ charged'[p] \in {charged[p], charged[p] + 1}
               /\ crashes' = crashes /\ lateFailures' = lateFailures + 1
      BY <2>2, <2>3, <2>4, <3>1, <3>3 DEF T
    <3>4. CASE charged'[p] = charged[p] /\ crashes' = crashes + 1 /\ lateFailures' = lateFailures
      BY <2>2, <2>3, <2>4, <3>1, <3>4 DEF T
    <3>5. CASE /\ charged'[p] = charged[p] + 1 /\ UNCHANGED <<crashes, lateFailures>>
               /\ \E x : x \notin S /\ S \cup {x} \subseteq T
      <4>1. PICK x : x \notin S /\ S \cup {x} \subseteq T
        BY <3>5
      <4>2. Cardinality(S \cup {x}) = Cardinality(S) + 1
        BY <2>2, <4>1, FS_AddElement
      <4>3. Cardinality(S \cup {x}) =< Cardinality(T)
        BY <2>3, <4>1, FS_Subset
      <4>4. QED
        BY <2>2, <2>3, <2>4, <3>5, <4>2, <4>3 DEF T
    <3>6. QED
      BY <2>5, <3>2, <3>3, <3>4, <3>5
  <2>7. CASE ~(S \subseteq T)
    <3>1. /\ charged'[p] = charged[p] /\ crashes' = crashes + 1 /\ lateFailures' = lateFailures
          /\ \E x : S \subseteq T \cup {x}
      BY <2>5, <2>7
    <3>2. Cardinality(S) =< Cardinality(T) + 1
      BY <2>3, <3>1, OneMore
    <3>3. QED
      BY <2>2, <2>3, <2>4, <3>1, <3>2 DEF T
  <2>8. QED
    BY <2>6, <2>7
<1>3. Inv /\ ChargesSettled => ChargesAccounted
  <2> SUFFICES ASSUME Inv, ChargesSettled, NEW p \in Payments
               PROVE  charged[p] =< Cardinality({m \in DOMAIN main : main[m] = p}) + crashes + lateFailures
    BY DEF ChargesAccounted
  <2>1. charged[p] \in Nat /\ crashes \in Nat /\ lateFailures \in Nat
        /\ charged[p] =< Cardinality(Settled(p)) + crashes + lateFailures
    BY DEF Inv, Types, CountTypes, ChargesSettled
  <2>2. QED
    BY <2>1, CarriersFinite
<1>4. QED
  BY <1>1, <1>2, <1>3, InvHolds, PTL DEF Spec

-----------------------------------------------------------------------------
(* The answer of the processed set is still right when the handler runs: true of one  *)
(* consumer, and not of two.                                                  *)
Guarded == \A c \in Consumers : pc[c] = "handle" => PaymentOf(c) \notin processed

LEMMA GuardStep ==
  ASSUME Inv, Guarded, [Next]_vars, NEW c, Consumers = {c}
  PROVE  Guarded'
<1>0. ConsumerTypes /\ "stopped" \in PCs /\ "join" \in PCs
  BY DEF Inv, Types, PCs, Running
<1>1. CASE (\E q \in Payments : publish(q) \/ ForeignEntry(q)) \/ read_dlq \/ ack_dlq \/ Republish
  <2>1. Extended /\ UNCHANGED <<processed, pc, batch>>
    BY <1>1, BrokerTypes
  <2>2. pc[c] = "handle" => Current(c) \in DOMAIN main /\ PaymentOf(c) = main[Current(c)]
    BY CurrentIn DEF InBatch
  <2>3. DOMAIN main = 1..Len(main)
    BY LenProperties DEF Inv, Types, MainTypes
  <2>4. pc[c] = "handle" => PaymentOf(c)' = PaymentOf(c)
    BY <2>1, <2>2, <2>3 DEF Extended, PaymentOf, Current
  <2>5. QED
    BY <2>1, <2>4 DEF Guarded
<1>2. CASE UNCHANGED vars
  BY <1>2 DEF vars, Guarded, PaymentOf, Current
<1>3. CASE is_processed(c)
  <2>1. /\ Goto(c, IF PaymentOf(c) \in processed THEN "skipAck" ELSE "handle")
        /\ UNCHANGED <<main, processed, batch>>
    BY <1>3 DEF is_processed, mainStream
  <2>2. pc'[c] = IF PaymentOf(c) \in processed THEN "skipAck" ELSE "handle"
    BY <1>0, <2>1 DEF Goto, ConsumerTypes
  <2>3. PaymentOf(c)' = PaymentOf(c)
    BY <2>1 DEF PaymentOf, Current
  <2>4. QED
    BY <2>1, <2>2, <2>3 DEF Guarded
<1>4. CASE (Consumer(c) /\ ~is_processed(c)) \/ HandlerFailsLate(c) \/ Crash(c) \/ Restart(c)
  <2>1. CASE Join(c)
    BY <2>1, JoinStep DEF Guarded, InBatch
  <2>2. CASE StopSeen(c)
    BY <1>0, <2>2, Moved DEF StopSeen, Guarded
  <2>3. CASE read_new(c)
    <3>1. pc'[c] \in {"readPending", "check"}
      BY <1>0, <2>3 DEF read_new, Goto, ConsumerTypes
    <3>2. QED
      BY <3>1 DEF Guarded
  <2>4. CASE read_pending(c)
    <3>1. pc'[c] \in {"read", "check"}
      BY <1>0, <2>4 DEF read_pending, Goto, ConsumerTypes
    <3>2. QED
      BY <3>1 DEF Guarded
  <2>5. CASE SkipDuplicate(c) \/ ack(c) \/ MoveToDlqAdd(c)
    <3>1. pc'[c] \in {"read", "check"}
      BY <1>0, <2>5, MessageDone DEF SkipDuplicate, ack, MoveToDlqAdd
    <3>2. QED
      BY <3>1 DEF Guarded
  <2>6. CASE HandlerSucceeds(c) \/ mark_processed(c) \/ MoveToDlqAck(c) \/ Crash(c) \/ DecodeRaises(c)
    <3>1. pc'[c] \in {"mark", "ack", "dlqAdd", "dead"}
      BY <2>6, SucceedStep, MarkStep, MoveAckStep, CrashStep
    <3>2. QED
      BY <3>1 DEF Guarded
  <2>7. CASE HandlerFails(c) \/ HandlerFailsLate(c)
    <3>1. CASE NextMessage(c)
      <4>1. pc'[c] \in {"read", "check"}
        BY <1>0, <3>1, MessageDone
      <4>2. QED
        BY <4>1 DEF Guarded
    <3>2. CASE Goto(c, "dlqAck")
      <4>1. pc'[c] = "dlqAck"
        BY <1>0, <3>2 DEF Goto, ConsumerTypes
      <4>2. QED
        BY <4>1 DEF Guarded
    <3>3. QED
      BY <2>7, <3>1, <3>2 DEF HandlerFails, HandlerFailsLate, SpendAttempt
  <2>8. CASE Restart(c)
    BY <1>0, <2>8, Moved DEF Restart, Guarded
  <2>9. CASE ReadOthers(c) \/ HandleOthers(c)
    BY <2>9, OthersStep DEF Guarded
  <2>10. QED
    BY <1>4, <2>1, <2>2, <2>3, <2>4, <2>5, <2>6, <2>7, <2>8, <2>9 DEF Consumer, Join
<1>5. CASE SetStop(c)
  BY <1>5 DEF SetStop, mainStream, Guarded, PaymentOf, Current
<1>6. QED
  BY <1>1, <1>2, <1>3, <1>4, <1>5 DEF Next

(* A step charges a payment only when a handler runs for it.                      *)
LEMMA ChargedByHandler ==
  ASSUME Inv, [Next]_vars, NEW p \in Payments, charged'[p] # charged[p]
  PROVE  \E c \in Consumers : pc[c] = "handle" /\ PaymentOf(c) = p
<1>1. charged' # charged
  OBVIOUS
<1>2. PICK c \in Consumers : HandlerSucceeds(c) \/ HandlerFailsLate(c)
  <2>1. ~((\E q \in Payments : publish(q) \/ ForeignEntry(q)) \/ read_dlq \/ ack_dlq \/ Republish)
    BY <1>1 DEF publish, ForeignEntry, read_dlq, ack_dlq, Republish
  <2>2. PICK c \in Consumers :
          Consumer(c) \/ HandlerFailsLate(c) \/ Crash(c) \/ SetStop(c) \/ Restart(c)
    BY <1>1, <2>1 DEF Next, vars
  <2>3. QED
    BY <1>1, <2>2 DEF Consumer, EnsureMainGroup, EnsureDlqGroup, StopSeen, read_new, ReadOthers,
                      HandleOthers, read_pending, DecodeRaises, is_processed,
                      SkipDuplicate, HandlerFails, mark_processed, ack, MoveToDlqAck, MoveToDlqAdd,
                      Crash, SetStop, Restart
<1>3. pc[c] = "handle" /\ charged' = [charged EXCEPT ![PaymentOf(c)] = @ + 1]
  BY <1>2 DEF HandlerSucceeds, HandlerFailsLate
<1>4. charged \in [Payments -> Nat]
  BY DEF Inv, Types, CountTypes
<1>5. QED
  BY <1>3, <1>4

(* ProcessedNeverCharged: with one consumer the processed set guards every charge, in  *)
(* all its deaths, restarts, retries and replays.  (With two, both may ask the set      *)
(* before either is charged for.)                                               *)
THEOREM GuardHolds ==
  ASSUME NEW c, Consumers = {c}
  PROVE  Spec => ProcessedNeverCharged
<1>1. Init => Guarded
  BY DEF Init, Guarded
<1>2. Inv /\ Guarded /\ [Next]_vars => Guarded'
  BY GuardStep
<1>3. Inv /\ Guarded /\ [Next]_vars => [\A p \in processed : charged'[p] = charged[p]]_vars
  <2> SUFFICES ASSUME Inv, Guarded, [Next]_vars, NEW p \in processed
                 PROVE  charged'[p] = charged[p]
    OBVIOUS
  <2>1. p \in Payments
    BY DEF Inv, Types, MainTypes
  <2>2. QED
    BY <2>1, ChargedByHandler DEF Guarded
<1>4. QED
  BY <1>1, <1>2, <1>3, InvHolds, PTL DEF Spec, ProcessedNeverCharged
=============================================================================
