---------------------------- MODULE PriorityQueue ----------------------------
(***************************************************************************)
(* The priority queue: priority_queue_pattern/broker.py (one Redis stream    *)
(* and group per priority) and consumer.py (run_consumer, pinned to one       *)
(* priority, and run_strict_priority_consumer, which scans several).          *)
(*                                                                         *)
(* Both loops are one: a consumer scans its own list of priorities, and the   *)
(* dedicated one has a list of one.  What differs is how long an empty read   *)
(* blocks, which an untimed model cannot tell.  Steps are cut at every await. *)
(* A ticket is its priority and its position in that priority's stream.       *)
(***************************************************************************)
EXTENDS Integers, Sequences, FiniteSets, StreamOps

CONSTANTS
  Consumers,    \* consumer ids
  ScanOrder,    \* the priorities each consumer reads, the first one first
  Count,        \* count= of the reads (10 in the code)
  MaxTickets,   \* bound: tickets published
  MaxFaults,    \* bound: consumers killed and handlers that raise
  MaxStops      \* bound: stop events set

Priorities == 1..3     \* HIGH, NORMAL, LOW

ASSUME ScanAssumption ==
  \A c \in Consumers : /\ ScanOrder[c] \in Seq(Priorities) /\ ScanOrder[c] # <<>>
                       /\ \A i, j \in DOMAIN ScanOrder[c] :
                            ScanOrder[c][i] = ScanOrder[c][j] => i = j
ASSUME BoundAssumption ==
  Count \in Nat \ {0} /\ MaxTickets \in Nat /\ MaxFaults \in Nat /\ MaxStops \in Nat

VARIABLES
  published,    \* tickets on each priority's stream
  group,        \* the streams on which the consumer group exists
  cursor,       \* the group's last-delivered id on each stream
  pending,      \* the group's PEL: tickets delivered and not acked
  pc, at,       \* each consumer: where it is, its place in its scan order
  batch,        \* each consumer: what it has read and not finished
  stopSet,      \* each consumer's stop_event
  handled,      \* times each ticket's handler completed (observation)
  overtaken,    \* batches a consumer took from tiers later in its scan order
                \* while the ticket was waiting (observation)
  faults, stops

streams == <<published, group, cursor, pending>>
observed == <<handled, overtaken>>
env == <<faults, stops>>
vars == <<published, group, cursor, pending, pc, at, batch, stopSet,
          handled, overtaken, faults, stops>>

Tickets == Priorities \X (1..MaxTickets)
Running == {"join", "top", "read", "handle", "ack"}
PCs == Running \cup {"stopped", "dead"}

Init ==
  /\ published = [p \in Priorities |-> 0] /\ group = {}
  /\ cursor = [p \in Priorities |-> 0] /\ pending = {}
  /\ pc = [c \in Consumers |-> "join"] /\ at = [c \in Consumers |-> 1]
  /\ batch = [c \in Consumers |-> {}] /\ stopSet = [c \in Consumers |-> FALSE]
  /\ handled = [t \in Tickets |-> 0]
  /\ overtaken = [c \in Consumers |-> [t \in Tickets |-> 0]]
  /\ faults = 0 /\ stops = 0

Goto(c, label) == pc' = [pc EXCEPT ![c] = label]
ScanFrom(c, i) == at' = [at EXCEPT ![c] = i]
LastTier(c) == at[c] = Len(ScanOrder[c])

(* The tier the scan of consumer c is at, the ticket its loop is working on.  *)
Tier(c) == ScanOrder[c][at[c]]
Current(c) == <<Tier(c), Oldest(batch[c])>>

Fresh(p) == (cursor[p] + 1)..published[p]
Waiting == {t \in Tickets : t[2] \in Fresh(t[1])}

-----------------------------------------------------------------------------
(* The broker.                                                              *)

(* publish: XADD to the stream the ticket's priority names.                  *)
publish(p) ==
  /\ published[1] + published[2] + published[3] < MaxTickets
  /\ published' = [published EXCEPT ![p] = @ + 1]
  /\ UNCHANGED <<group, cursor, pending, pc, at, batch, stopSet, observed, env>>

(* ensure_all_groups, called by whoever sets the streams up, one priority     *)
(* after the other; a group that exists stays as it is (BUSYGROUP).           *)
ensure_all_groups(p) ==
  /\ p \notin group /\ \A q \in Priorities : q < p => q \in group
  /\ group' = group \cup {p}
  /\ UNCHANGED <<published, cursor, pending, pc, at, batch, stopSet, observed, env>>

-----------------------------------------------------------------------------
(* The consumer.                                                            *)

(* ensure_group for every priority of the scan order: the group starts at     *)
(* id 0, and BUSYGROUP leaves an existing one alone.                          *)
ensure_group(c) ==
  /\ pc[c] = "join"
  /\ group' = group \cup {Tier(c)}
  /\ IF LastTier(c) THEN Goto(c, "top") /\ ScanFrom(c, 1)
                    ELSE UNCHANGED pc /\ ScanFrom(c, at[c] + 1)
  /\ UNCHANGED <<published, cursor, pending, batch, stopSet, observed, env>>

(* while not stop_event.is_set(): a pass starts at the head of the order.     *)
LoopTop(c) ==
  /\ pc[c] = "top"
  /\ Goto(c, IF stopSet[c] THEN "stopped" ELSE "read")
  /\ UNCHANGED <<streams, at, batch, stopSet, observed, env>>

(* The tickets that consumer c passes over by reading from its present tier.  *)
PassedOver(c) ==
  {t \in Waiting : \E i \in 1..(at[c] - 1) : ScanOrder[c][i] = t[1]}

(* read_new finds never-delivered tickets: XREADGROUP ">" moves the cursor    *)
(* and enters them on the pending list.                                      *)
ReadBatch(c) ==
  LET got == FirstN(Fresh(Tier(c)), Count) IN
  /\ pc[c] = "read" /\ Tier(c) \in group /\ got # {}
  /\ cursor' = [cursor EXCEPT ![Tier(c)] = Newest(got)]
  /\ pending' = pending \cup ({Tier(c)} \X got)
  /\ batch' = [batch EXCEPT ![c] = got]
  /\ overtaken' = [overtaken EXCEPT ![c] = [t \in Tickets |->
       IF t \in PassedOver(c) THEN @[t] + 1 ELSE @[t]]]
  /\ Goto(c, "handle")
  /\ UNCHANGED <<published, group, at, stopSet, handled, env>>

(* Mutant: an empty tier ends the pass, "break" for "continue".               *)
EmptyTierEndsPass(c) ==
  /\ pc[c] = "read" /\ Tier(c) \in group /\ Fresh(Tier(c)) = {}
  /\ Goto(c, "top") /\ ScanFrom(c, 1)
  /\ UNCHANGED <<streams, batch, stopSet, observed, env>>

(* read_new finds nothing: on to the next tier, and after the last one the    *)
(* consumer sleeps and looks at the stop event.                              *)
ReadNothing(c) ==
  /\ pc[c] = "read" /\ Tier(c) \in group /\ Fresh(Tier(c)) = {}
  /\ IF LastTier(c) THEN Goto(c, "top") /\ ScanFrom(c, 1)
                    ELSE UNCHANGED pc /\ ScanFrom(c, at[c] + 1)
  /\ UNCHANGED <<streams, batch, stopSet, observed, env>>

(* Mutant: an exception in the handler is logged and the ticket acked.        *)
HandleSwallowsError(c) ==
  /\ pc[c] = "handle"
  /\ Goto(c, "ack")
  /\ \/ handled' = [handled EXCEPT ![Current(c)] = @ + 1]
     \/ UNCHANGED handled
  /\ UNCHANGED <<streams, at, batch, stopSet, overtaken, env>>

(* await handler(...) completes.                                             *)
HandleTicket(c) ==
  /\ pc[c] = "handle"
  /\ handled' = [handled EXCEPT ![Current(c)] = @ + 1]
  /\ Goto(c, "ack")
  /\ UNCHANGED <<streams, at, batch, stopSet, overtaken, env>>

(* Mutant: the stop event is looked at after every ticket.                    *)
AckThenLookAtStop(c) ==
  /\ pc[c] = "ack"
  /\ pending' = pending \ {Current(c)}
  /\ LET rest == batch[c] \ {Oldest(batch[c])} IN
     IF rest = {} \/ stopSet[c]
       THEN batch' = [batch EXCEPT ![c] = {}] /\ Goto(c, "top") /\ ScanFrom(c, 1)
       ELSE batch' = [batch EXCEPT ![c] = rest] /\ Goto(c, "handle") /\ UNCHANGED at
  /\ UNCHANGED <<published, group, cursor, stopSet, observed, env>>

(* Mutant: the "break" after a batch is missing and the scan goes on down.    *)
AckThenScanOn(c) ==
  /\ pc[c] = "ack"
  /\ pending' = pending \ {Current(c)}
  /\ LET rest == batch[c] \ {Oldest(batch[c])} IN
     /\ batch' = [batch EXCEPT ![c] = rest]
     /\ \/ rest # {} /\ Goto(c, "handle") /\ UNCHANGED at
        \/ rest = {} /\ LastTier(c) /\ Goto(c, "top") /\ ScanFrom(c, 1)
        \/ rest = {} /\ ~LastTier(c) /\ Goto(c, "read") /\ ScanFrom(c, at[c] + 1)
  /\ UNCHANGED <<published, group, cursor, stopSet, observed, env>>

(* ack: XACK; then the next ticket of the batch or, after the last one, a     *)
(* new pass ("break" restarts the scan).                                     *)
AckTicket(c) ==
  /\ pc[c] = "ack"
  /\ pending' = pending \ {Current(c)}
  /\ LET rest == batch[c] \ {Oldest(batch[c])} IN
     /\ batch' = [batch EXCEPT ![c] = rest]
     /\ IF rest = {} THEN Goto(c, "top") /\ ScanFrom(c, 1)
                     ELSE Goto(c, "handle") /\ UNCHANGED at
  /\ UNCHANGED <<published, group, cursor, stopSet, observed, env>>

-----------------------------------------------------------------------------
(* What happens to a consumer from outside.                                  *)

(* The consumer's task ends with what it has read still pending.              *)
Dies(c) ==
  /\ faults < MaxFaults /\ faults' = faults + 1
  /\ Goto(c, "dead") /\ ScanFrom(c, 1)
  /\ batch' = [batch EXCEPT ![c] = {}]
  /\ UNCHANGED <<streams, stopSet, observed, stops>>

(* The handler raises; nothing catches it.                                   *)
HandlerRaises(c) == pc[c] = "handle" /\ Dies(c)

(* The process is killed.                                                    *)
Crash(c) == pc[c] \in Running /\ Dies(c)

SetStop(c) ==
  /\ pc[c] \in Running /\ ~stopSet[c] /\ stops < MaxStops
  /\ stopSet' = [stopSet EXCEPT ![c] = TRUE]
  /\ stops' = stops + 1
  /\ UNCHANGED <<streams, pc, at, batch, observed, faults>>

(* The caller starts an ended consumer again, under its old id.               *)
Restart(c) ==
  /\ pc[c] \in {"stopped", "dead"}
  /\ Goto(c, "join") /\ stopSet' = [stopSet EXCEPT ![c] = FALSE]
  /\ UNCHANGED <<streams, at, batch, observed, env>>

Consumer(c) ==
  \/ ensure_group(c) \/ LoopTop(c) \/ ReadBatch(c) \/ ReadNothing(c)
  \/ HandleTicket(c) \/ AckTicket(c)

Next ==
  \/ \E p \in Priorities : publish(p) \/ ensure_all_groups(p)
  \/ \E c \in Consumers :
       Consumer(c) \/ HandlerRaises(c) \/ Crash(c) \/ SetStop(c) \/ Restart(c)

Spec == Init /\ [][Next]_vars

(* The event loop runs every live consumer and handlers return.               *)
Fairness == \A c \in Consumers : WF_vars(Consumer(c))

FairSpec == Spec /\ Fairness

-----------------------------------------------------------------------------
(* Properties.                                                              *)

(* Every variable has the values its code can give it.                      *)
TypeOK ==
  /\ published \in [Priorities -> 0..MaxTickets] /\ group \subseteq Priorities
  /\ cursor \in [Priorities -> 0..MaxTickets]
  /\ \A p \in Priorities : cursor[p] =< published[p]
  /\ pending \subseteq Tickets /\ pending \cap Waiting = {}
  /\ pc \in [Consumers -> PCs] /\ at \in [Consumers -> 1..3]
  /\ batch \in [Consumers -> SUBSET (1..MaxTickets)]
  /\ stopSet \in [Consumers -> BOOLEAN]
  /\ handled \in [Tickets -> Nat] /\ overtaken \in [Consumers -> [Tickets -> Nat]]
  /\ faults \in 0..MaxFaults /\ stops \in 0..MaxStops

Delivered == {t \in Tickets : t[2] =< cursor[t[1]]}
Held == UNION {{Tier(c)} \X batch[c] : c \in Consumers}

(* README.md:76 (acked only after the handler completes): a ticket that has   *)
(* left the pending list was handled, and no ticket is handled twice, however *)
(* many consumers share the tier and whichever of them die and come back.     *)
SettledOnce ==
  /\ TypeOK
  /\ \A t \in Tickets : handled[t] =< 1
  /\ \A t \in Delivered \ pending : handled[t] = 1

(* A pending ticket that no consumer holds is stranded: read_new only reads   *)
(* ">" and nothing claims it.  Only a killed consumer or a raising handler     *)
(* strands tickets, one batch each; a stop never does, since the loop looks    *)
(* at the stop event between batches.                                        *)
StrandedNeedFault ==
  /\ Held \subseteq pending
  /\ Cardinality(pending \ Held) =< Count * faults

(* Strict priority as the scan really gives it (consumer.py:81 says that no    *)
(* lower ticket is claimed while a higher one waits): while a ticket waits, a  *)
(* consumer that scans its tier takes at most one batch from the tiers after   *)
(* it, the one it was on its way to when the ticket arrived, even if it dies,  *)
(* stops and starts again in between.                                        *)
InversionBounded ==
  \A c \in Consumers : \A t \in Tickets : overtaken[c][t] =< 1

(* While a consumer keeps running, every ticket of its tiers is eventually    *)
(* claimed by someone, the lowest tier included once no more tickets arrive.   *)
EveryTicketClaimed ==
  \A c \in Consumers : \A t \in Tickets :
    /\ \E i \in DOMAIN ScanOrder[c] : ScanOrder[c][i] = t[1]
    /\ <>[](pc[c] \in Running)
    => (t \in Waiting ~> t \in Delivered)
=============================================================================
