--------------------------------- MODULE Dlq ---------------------------------
(***************************************************************************)
(* The dead-letter pipeline: dlq_pattern/broker.py (two Redis streams and    *)
(* the processed set) and consumer.py (run_idempotent_consumer), with the    *)
(* operator who drains the DLQ through the same broker.                      *)
(*                                                                         *)
(* A message is its position in payments:main and carries a payment id;      *)
(* the same payment may be published again.  Consumer steps are cut at every *)
(* await, so other consumers run, and processes die, between any two Redis   *)
(* commands.  Messages beyond MaxMessages are not followed one by one: they  *)
(* are the traffic that a read may find instead of the followed ones.        *)
(***************************************************************************)
EXTENDS Integers, Sequences, StreamOps

CONSTANTS
  Consumers,        \* consumer names
  NoOwner,          \* owner of a message that is not pending
  Payments,         \* payment ids
  Undecodable,      \* those whose entry Payment.from_fields refuses
  Count,            \* count= of the reads (10 in the code)
  MaxAttempts,      \* max_attempts (3 in the code)
  MaxMessages,      \* bound: messages published on main
  MaxCrashes,       \* bound: consumers killed
  MaxStops,         \* bound: stop events set
  MaxLateFailures   \* bound: handlers that raise after their effect

ASSUME OwnerAssumption == NoOwner \notin Consumers
ASSUME UndecodableAssumption == Undecodable \subseteq Payments
ASSUME BudgetAssumption == MaxAttempts \in Nat \ {0} /\ Count \in Nat \ {0}
ASSUME BoundAssumption ==
  /\ MaxMessages \in Nat /\ MaxCrashes \in Nat
  /\ MaxStops \in Nat /\ MaxLateFailures \in Nat

VARIABLES
  main,          \* payments:main: the payment each message carries
  group,         \* whether the consumer group exists on main
  cursor,        \* the group's last-delivered id on main
  owner,         \* the PEL of main: who holds each delivered, unacked message
  processed,     \* payments:processed
  dlq,           \* payments:dlq: the message each entry came from, its attempt
  dlqGroup,      \* whether the consumer group exists on payments:dlq
  dlqCursor, dlqPending,  \* its cursor and PEL there
  replaying,     \* the operator: DLQ entry acked and about to be republished
  pc, batch,     \* each consumer: where it is, what its batch still holds
  attempts,      \* each consumer's attempts dict (0 for an absent key)
  stopSet,       \* each consumer's stop_event
  charged,       \* times each payment's side effect happened (observation)
  failures,      \* times each message's handler raised, up to MaxAttempts (observation)
  crashes, stops, lateFailures

mainStream == <<main, group, cursor>>
dlqStream == <<dlq, dlqGroup, dlqCursor, dlqPending, replaying>>
faults == <<crashes, stops, lateFailures>>
vars == <<main, group, cursor, owner, processed, dlq, dlqGroup, dlqCursor, dlqPending,
          replaying, pc, batch, attempts, stopSet, charged, failures,
          crashes, stops, lateFailures>>

MessageIds == 1..MaxMessages
Running == {"join", "joinDlq", "read", "others", "readPending", "check", "skipAck",
            "handle", "mark", "ack", "dlqAck", "dlqAdd"}
PCs == Running \cup {"stopped", "dead"}
NoAttempts == [m \in MessageIds |-> 0]

Init ==
  /\ main = <<>> /\ group = FALSE /\ cursor = 0
  /\ owner = [m \in MessageIds |-> NoOwner] /\ processed = {}
  /\ dlq = <<>> /\ dlqGroup = FALSE /\ dlqCursor = 0 /\ dlqPending = {} /\ replaying = 0
  /\ pc = [c \in Consumers |-> "join"] /\ batch = [c \in Consumers |-> {}]
  /\ attempts = [c \in Consumers |-> NoAttempts]
  /\ stopSet = [c \in Consumers |-> FALSE]
  /\ charged = [p \in Payments |-> 0] /\ failures = NoAttempts
  /\ crashes = 0 /\ stops = 0 /\ lateFailures = 0

Goto(c, label) == pc' = [pc EXCEPT ![c] = label]

(* The message consumer c's loop body is working on, and its payment.        *)
Current(c) == Oldest(batch[c])
PaymentOf(c) == main[Current(c)]

(* The loop body is done with the current message.                           *)
NextMessage(c) ==
  /\ batch' = [batch EXCEPT ![c] = @ \ {Oldest(@)}]
  /\ Goto(c, IF batch'[c] = {} THEN "read" ELSE "check")

PopAttempts(c) == attempts' = [attempts EXCEPT ![c][Current(c)] = 0]

(* XACK takes the message off the pending list, whoever owns it.             *)
Acknowledge(m) == owner' = [owner EXCEPT ![m] = NoOwner]

(* XADD to payments:main.                                                    *)
AddToMain(p) == Len(main) < MaxMessages /\ main' = Append(main, p)

-----------------------------------------------------------------------------
(* Producer.                                                                *)

publish(p) ==
  /\ p \notin Undecodable /\ AddToMain(p)
  /\ UNCHANGED <<group, cursor, owner, processed, dlqStream, pc, batch, attempts,
                 stopSet, charged, failures, faults>>

(* Something else XADDs an entry from_fields cannot decode (a missing key,   *)
(* an amount that is no int): a Redis stream takes any fields.               *)
ForeignEntry(p) ==
  /\ p \in Undecodable /\ AddToMain(p)
  /\ UNCHANGED <<group, cursor, owner, processed, dlqStream, pc, batch, attempts,
                 stopSet, charged, failures, faults>>

-----------------------------------------------------------------------------
(* run_idempotent_consumer.                                                 *)

(* Start of a run, one XGROUP CREATE per stream: each group starts at id 0,   *)
(* BUSYGROUP leaves one that exists alone.                                   *)
EnsureMainGroup(c) ==
  /\ pc[c] = "join"
  /\ group' = TRUE /\ cursor' = IF group THEN cursor ELSE 0
  /\ Goto(c, "joinDlq")
  /\ UNCHANGED <<main, owner, processed, dlqStream, batch, attempts, stopSet, charged,
                 failures, faults>>

(* Then the attempts dict is empty.                                          *)
EnsureDlqGroup(c) ==
  /\ pc[c] = "joinDlq"
  /\ dlqGroup' = TRUE /\ dlqCursor' = IF dlqGroup THEN dlqCursor ELSE 0
  /\ attempts' = [attempts EXCEPT ![c] = NoAttempts]
  /\ Goto(c, "read")
  /\ UNCHANGED <<mainStream, owner, processed, dlq, dlqPending, replaying, batch, stopSet,
                 charged, failures, faults>>

StopSeen(c) ==
  /\ pc[c] = "read" /\ stopSet[c]
  /\ Goto(c, "stopped")
  /\ UNCHANGED <<mainStream, owner, processed, dlqStream, batch, attempts, stopSet,
                 charged, failures, faults>>

read_new(c) ==
  /\ pc[c] = "read" /\ ~stopSet[c]
  /\ LET new == FirstN({m \in MessageIds : cursor < m /\ m =< Len(main)}, Count) IN
       /\ batch' = [batch EXCEPT ![c] = new]
       /\ owner' = [m \in MessageIds |-> IF m \in new THEN c ELSE owner[m]]
       /\ cursor' = IF new = {} THEN cursor ELSE Newest(new)
       /\ Goto(c, IF new = {} THEN "readPending" ELSE "check")
  /\ UNCHANGED <<main, group, processed, dlqStream, attempts, stopSet, charged, failures, faults>>

(* The read returns messages beyond the followed ones, which are handled and  *)
(* acked: it was not empty, and the loop goes back to it.                    *)
ReadOthers(c) ==
  /\ pc[c] = "read" /\ ~stopSet[c] /\ cursor = Len(main)
  /\ Goto(c, "others")
  /\ UNCHANGED <<mainStream, owner, processed, dlqStream, batch, attempts, stopSet,
                 charged, failures, faults>>

HandleOthers(c) ==
  /\ pc[c] = "others"
  /\ Goto(c, "read")
  /\ UNCHANGED <<mainStream, owner, processed, dlqStream, batch, attempts, stopSet,
                 charged, failures, faults>>

(* Mutant: the pending entries of every consumer are re-read.               *)
ReadPendingOfAll(c) ==
  /\ pc[c] = "readPending"
  /\ batch' = [batch EXCEPT ![c] = FirstN({m \in MessageIds : owner[m] # NoOwner}, Count)]
  /\ Goto(c, IF batch'[c] = {} THEN "read" ELSE "check")
  /\ UNCHANGED <<mainStream, owner, processed, dlqStream, attempts, stopSet, charged,
                 failures, faults>>

(* Mutant: the backlog is never re-read (id > returns new messages only).    *)
ReadPendingFindsNone(c) ==
  /\ pc[c] = "readPending"
  /\ Goto(c, "read")
  /\ UNCHANGED <<mainStream, owner, processed, dlqStream, batch, attempts, stopSet, charged,
                 failures, faults>>

(* XREADGROUP with id 0: this consumer name's own pending entries.  Empty    *)
(* sleeps and goes back to the top of the loop.                              *)
read_pending(c) ==
  /\ pc[c] = "readPending"
  /\ batch' = [batch EXCEPT ![c] = FirstN({m \in MessageIds : owner[m] = c}, Count)]
  /\ Goto(c, IF batch'[c] = {} THEN "read" ELSE "check")
  /\ UNCHANGED <<mainStream, owner, processed, dlqStream, attempts, stopSet, charged,
                 failures, faults>>

(* Mutant: only a retried message is checked against the processed set.      *)
CheckRetriesOnly(c) ==
  /\ pc[c] = "check" /\ PaymentOf(c) \notin Undecodable
  /\ Goto(c, IF PaymentOf(c) \in processed /\ attempts[c][Current(c)] > 0
               THEN "skipAck" ELSE "handle")
  /\ UNCHANGED <<mainStream, owner, processed, dlqStream, batch, attempts, stopSet,
                 charged, failures, faults>>

(* Payment.from_fields raises, outside the try: the run ends, and the entry,  *)
(* with the rest of the batch, stays pending.                                *)
DecodeRaises(c) ==
  /\ pc[c] = "check" /\ PaymentOf(c) \in Undecodable
  /\ Goto(c, "dead") /\ batch' = [batch EXCEPT ![c] = {}]
  /\ UNCHANGED <<mainStream, owner, processed, dlqStream, attempts, stopSet, charged,
                 failures, faults>>

(* SISMEMBER: the answer decides the branch, and may be stale by the time    *)
(* the handler runs.                                                        *)
is_processed(c) ==
  /\ pc[c] = "check" /\ PaymentOf(c) \notin Undecodable
  /\ Goto(c, IF PaymentOf(c) \in processed THEN "skipAck" ELSE "handle")
  /\ UNCHANGED <<mainStream, owner, processed, dlqStream, batch, attempts, stopSet,
                 charged, failures, faults>>

SkipDuplicate(c) ==
  /\ pc[c] = "skipAck"
  /\ Acknowledge(Current(c))
  /\ NextMessage(c)
  /\ UNCHANGED <<mainStream, processed, dlqStream, attempts, stopSet, charged, failures, faults>>

HandlerSucceeds(c) ==
  /\ pc[c] = "handle"
  /\ charged' = [charged EXCEPT ![PaymentOf(c)] = @ + 1]
  /\ Goto(c, "mark")
  /\ UNCHANGED <<mainStream, owner, processed, dlqStream, batch, attempts, stopSet,
                 failures, faults>>

(* The except branch: spend one attempt, leave the message unacked while     *)
(* attempts remain, else start move_to_dlq.                                  *)
SpendAttempt(c) ==
  /\ attempts' = [attempts EXCEPT ![c][Current(c)] = @ + 1]
  /\ failures' = [failures EXCEPT ![Current(c)] = IF @ < MaxAttempts THEN @ + 1 ELSE @]
  /\ IF attempts'[c][Current(c)] < MaxAttempts
       THEN NextMessage(c)
       ELSE Goto(c, "dlqAck") /\ UNCHANGED batch

(* Mutant: a failed message is acked and dropped.                            *)
HandlerFailsAcked(c) ==
  /\ pc[c] = "handle"
  /\ SpendAttempt(c)
  /\ Acknowledge(Current(c))
  /\ UNCHANGED <<mainStream, processed, dlqStream, stopSet, charged, faults>>

HandlerFails(c) ==
  /\ pc[c] = "handle"
  /\ SpendAttempt(c)
  /\ UNCHANGED <<mainStream, owner, processed, dlqStream, stopSet, charged, faults>>

(* The handler raises after its effect (chaos.py's CrashBeforeAck wraps one  *)
(* this way); the consumer cannot tell it from a failure.                    *)
HandlerFailsLate(c) ==
  /\ pc[c] = "handle" /\ lateFailures < MaxLateFailures
  /\ charged' = [charged EXCEPT ![PaymentOf(c)] = @ + 1]
  /\ SpendAttempt(c)
  /\ lateFailures' = lateFailures + 1
  /\ UNCHANGED <<mainStream, owner, processed, dlqStream, stopSet, crashes, stops>>

mark_processed(c) ==
  /\ pc[c] = "mark"
  /\ processed' = processed \cup {PaymentOf(c)}
  /\ Goto(c, "ack")
  /\ UNCHANGED <<mainStream, owner, dlqStream, batch, attempts, stopSet, charged,
                 failures, faults>>

ack(c) ==
  /\ pc[c] = "ack"
  /\ Acknowledge(Current(c))
  /\ PopAttempts(c)
  /\ NextMessage(c)
  /\ UNCHANGED <<mainStream, processed, dlqStream, stopSet, charged, failures, faults>>

(* Mutant: move_to_dlq forgets the XACK.                                     *)
MoveToDlqWithoutAck(c) ==
  /\ pc[c] = "dlqAck"
  /\ Goto(c, "dlqAdd")
  /\ UNCHANGED <<mainStream, owner, processed, dlqStream, batch, attempts, stopSet, charged,
                 failures, faults>>

(* move_to_dlq is two commands: XACK on main ...                             *)
MoveToDlqAck(c) ==
  /\ pc[c] = "dlqAck"
  /\ Acknowledge(Current(c))
  /\ Goto(c, "dlqAdd")
  /\ UNCHANGED <<mainStream, processed, dlqStream, batch, attempts, stopSet, charged,
                 failures, faults>>

(* ... then XADD on the DLQ with the attempt that exhausted the budget.      *)
MoveToDlqAdd(c) ==
  /\ pc[c] = "dlqAdd"
  /\ dlq' = Append(dlq, [msg |-> Current(c), attempt |-> attempts[c][Current(c)]])
  /\ PopAttempts(c)
  /\ NextMessage(c)
  /\ UNCHANGED <<mainStream, owner, processed, dlqGroup, dlqCursor, dlqPending, replaying,
                 stopSet, charged, failures, faults>>

-----------------------------------------------------------------------------
(* The operator replays a dead letter: read it, ack it, publish it again.    *)

read_dlq ==
  /\ dlqGroup /\ replaying = 0 /\ dlqPending = {} /\ dlqCursor < Len(dlq)
  /\ dlqCursor' = dlqCursor + 1
  /\ dlqPending' = {dlqCursor + 1}
  /\ UNCHANGED <<mainStream, owner, processed, dlq, dlqGroup, replaying, pc, batch, attempts,
                 stopSet, charged, failures, faults>>

ack_dlq ==
  /\ \E e \in dlqPending : dlqPending' = dlqPending \ {e} /\ replaying' = e
  /\ UNCHANGED <<mainStream, owner, processed, dlq, dlqGroup, dlqCursor, pc, batch, attempts,
                 stopSet, charged, failures, faults>>

Republish ==
  /\ replaying # 0
  /\ AddToMain(main[dlq[replaying].msg])
  /\ replaying' = 0
  /\ UNCHANGED <<group, cursor, owner, processed, dlq, dlqGroup, dlqCursor, dlqPending, pc,
                 batch, attempts, stopSet, charged, failures, faults>>

-----------------------------------------------------------------------------
(* The consumers' environment.                                              *)

(* The process is killed, or a broker call raises (nothing catches it).      *)
Crash(c) ==
  /\ pc[c] \in Running /\ crashes < MaxCrashes
  /\ Goto(c, "dead") /\ batch' = [batch EXCEPT ![c] = {}]
  /\ crashes' = crashes + 1
  /\ UNCHANGED <<mainStream, owner, processed, dlqStream, attempts, stopSet, charged,
                 failures, stops, lateFailures>>

SetStop(c) ==
  /\ pc[c] \in Running /\ ~stopSet[c] /\ stops < MaxStops
  /\ stopSet' = [stopSet EXCEPT ![c] = TRUE]
  /\ stops' = stops + 1
  /\ UNCHANGED <<mainStream, owner, processed, dlqStream, pc, batch, attempts, charged,
                 failures, crashes, lateFailures>>

(* run_idempotent_consumer is called again under the same consumer name.     *)
Restart(c) ==
  /\ pc[c] \in {"stopped", "dead"}
  /\ Goto(c, "join") /\ stopSet' = [stopSet EXCEPT ![c] = FALSE]
  /\ UNCHANGED <<mainStream, owner, processed, dlqStream, batch, attempts, charged,
                 failures, faults>>

Consumer(c) ==
  \/ EnsureMainGroup(c) \/ EnsureDlqGroup(c)
  \/ StopSeen(c) \/ read_new(c) \/ ReadOthers(c) \/ HandleOthers(c) \/ read_pending(c)
  \/ DecodeRaises(c) \/ is_processed(c) \/ SkipDuplicate(c)
  \/ HandlerSucceeds(c) \/ HandlerFails(c)
  \/ mark_processed(c) \/ ack(c) \/ MoveToDlqAck(c) \/ MoveToDlqAdd(c)

Next ==
  \/ \E p \in Payments : publish(p) \/ ForeignEntry(p)
  \/ \E c \in Consumers :
       Consumer(c) \/ HandlerFailsLate(c) \/ Crash(c) \/ SetStop(c) \/ Restart(c)
  \/ read_dlq \/ ack_dlq \/ Republish

Spec == Init /\ [][Next]_vars

(* The event loop runs every live consumer and handlers return or raise.     *)
UnsupervisedSpec == Spec /\ \A c \in Consumers : WF_vars(Consumer(c))

(* Somebody also starts a consumer that ended again, under its old name.     *)
FairSpec == UnsupervisedSpec /\ \A c \in Consumers : WF_vars(Restart(c))

-----------------------------------------------------------------------------
(* Properties.                                                              *)

(* Every variable has the values its code can give it.                      *)
TypeOK ==
  /\ main \in Seq(Payments) /\ Len(main) =< MaxMessages
  /\ group \in BOOLEAN /\ dlqGroup \in BOOLEAN /\ cursor \in 0..Len(main)
  /\ owner \in [MessageIds -> Consumers \cup {NoOwner}]
  /\ processed \subseteq Payments
  /\ dlq \in Seq([msg : 1..cursor, attempt : {MaxAttempts}])
  /\ dlqCursor \in 0..Len(dlq) /\ dlqPending \subseteq 1..dlqCursor
  /\ replaying \in 0..dlqCursor
  /\ pc \in [Consumers -> PCs] /\ batch \in [Consumers -> SUBSET (1..cursor)]
  /\ attempts \in [Consumers -> [MessageIds -> 0..MaxAttempts]]
  /\ stopSet \in [Consumers -> BOOLEAN]
  /\ charged \in [Payments -> Nat] /\ failures \in [MessageIds -> 0..MaxAttempts]
  /\ crashes \in 0..MaxCrashes /\ stops \in 0..MaxStops
  /\ lateFailures \in 0..MaxLateFailures

DeadLettered == {dlq[k].msg : k \in DOMAIN dlq}

(* "a message is never simultaneously pending on main and present in the DLQ" *)
(* (dlq_pattern/README.md:228): no sequence of retries, crashes and restarts,  *)
(* inside move_to_dlq too, leaves a dead letter that a consumer could still be  *)
(* handed, or one failure filed twice for the operator to replay twice.        *)
DeadLetteredOnce ==
  /\ TypeOK
  /\ \A m \in DeadLettered : owner[m] = NoOwner
  /\ \A k, l \in DOMAIN dlq : dlq[k].msg = dlq[l].msg => k = l

(* Messages that left the pending list with no outcome recorded anywhere:     *)
(* not processed, not in the DLQ, not on their way there.                     *)
Dropped ==
  {m \in 1..cursor :
     /\ owner[m] = NoOwner
     /\ main[m] \notin processed
     /\ m \notin DeadLettered
     /\ \A c \in Consumers : ~(pc[c] = "dlqAdd" /\ Current(c) = m)}

(* A crash loses at most one message, and only one that had exhausted its      *)
(* budget: everything else acked off main is processed or in the DLQ.          *)
DropsNeedCrash ==
  /\ Cardinality(Dropped) =< crashes
  /\ \A m \in Dropped : failures[m] >= MaxAttempts

(* "Failures are preserved with their cause, not dropped"                      *)
(* (dlq_pattern/README.md:298).                                               *)
FailuresPreserved == Dropped = {}

(* Every charge of a payment is accounted for by a message that carries it, a  *)
(* crash that lost the record of it, or a handler that raised after it.         *)
ChargesAccounted ==
  \A p \in Payments :
    charged[p] =< Cardinality({m \in DOMAIN main : main[m] = p}) + crashes + lateFailures

(* The idempotency guard (consumer.py:60), for a single consumer: once a       *)
(* payment is in the processed set no later delivery, restart or replay         *)
(* charges it again.                                                           *)
ProcessedNeverCharged ==
  [][\A p \in processed : charged'[p] = charged[p]]_vars

(* A message is delivered and off the pending list, for good or until it is     *)
(* replayed as another.                                                       *)
Landed(m) == m =< cursor /\ owner[m] = NoOwner

(* An entry the consumer cannot decode is pending for it: it ends every run, and  *)
(* with each run the attempts counted in it.                                    *)
Blocked(c) == \E k \in 1..cursor : owner[k] = c /\ main[k] \in Undecodable

(* Each consumer finds main empty again and again, which is when it re-reads its  *)
(* pending entries (consumer.py:50; bench_dlq_pattern.py:22 "keeping the pipeline  *)
(* full would starve the retries").                                             *)
Lulls == \A c \in Consumers : []<>(pc[c] = "readPending")

(* What the retry loop does promise: with lulls, every published message is      *)
(* delivered and, unless an undecodable entry ends its consumer's runs, retried   *)
(* until it is processed, skipped or dead-lettered, through crashes, stops,       *)
(* late failures and replays.                                                   *)
RetriedUntilLanded ==
  Lulls => \A m \in MessageIds :
    m =< Len(main) ~> Landed(m) \/ (m =< cursor /\ \E c \in Consumers : owner[m] = c /\ Blocked(c))
=============================================================================
