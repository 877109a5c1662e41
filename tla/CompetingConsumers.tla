------------------------- MODULE CompetingConsumers -------------------------
(***************************************************************************)
(* Competing consumers on one Redis stream: competing_consumers_pattern/    *)
(* broker.py (publish, ensure_group, read_new, ack, reclaim_stale) and       *)
(* consumer.py (run_consumer, _handle_batch).                                *)
(*                                                                         *)
(* A task is its position in the stream.  The consumer group is what Redis   *)
(* keeps for it: a last-delivered cursor and a pending entries list (PEL)    *)
(* with an owner and an idle time per entry.  Idle time is abstracted to      *)
(* whether it has passed reclaim_min_idle_ms (stale).          *)
(* Consumer steps are cut at every await.                                    *)
(***************************************************************************)
EXTENDS Integers, StreamOps

CONSTANTS
  Consumers,     \* consumer names
  NoOwner,       \* owner of a task that is not pending
  Count,         \* count= of read_new and reclaim_stale (10 in the code)
  MaxTasks,      \* bound: tasks published
  MaxCrashes,    \* bound: consumers lost (killed, or a handler that raised)
  MaxOverruns,   \* bound: times a live consumer holds a task past the idle limit
  MaxRestarts    \* bound: times a consumer name comes back

ASSUME OwnerAssumption == NoOwner \notin Consumers
ASSUME CountAssumption == Count \in Nat \ {0}
ASSUME BoundAssumption ==
  /\ MaxTasks \in Nat /\ MaxCrashes \in Nat
  /\ MaxOverruns \in Nat /\ MaxRestarts \in Nat

VARIABLES
  published,     \* length of the stream: tasks are 1..published
  group,         \* whether the consumer group exists
  cursor,        \* the group's last-delivered id
  pending,       \* the PEL: delivered, not acknowledged
  owner,         \* PEL owner of each pending task (NoOwner otherwise)
  stale,         \* pending tasks idle for reclaim_min_idle_ms or longer
  reclaims,      \* times each task was claimed by XAUTOCLAIM (observation)
  pc, batch,     \* each consumer: where it is, what its batch still holds
  handled,       \* times each task's handler completed (observation)
  stopSet,       \* each consumer's stop_event
  crashes, overruns, restarts

redis == <<published, group, cursor, pending, owner, stale, reclaims>>
env == <<crashes, overruns, restarts>>
vars == <<published, group, cursor, pending, owner, stale, reclaims,
          pc, batch, handled, stopSet, crashes, overruns, restarts>>

TaskIds == 1..MaxTasks
PCs == {"join", "reclaim", "handleOld", "ackOld", "read", "handleNew", "ackNew",
        "stopped", "dead"}
Live(c) == pc[c] \notin {"stopped", "dead"}

Init ==
  /\ published = 0 /\ group = FALSE /\ cursor = 0 /\ pending = {}
  /\ owner = [m \in TaskIds |-> NoOwner] /\ stale = {}
  /\ reclaims = [m \in TaskIds |-> 0]
  /\ pc = [c \in Consumers |-> "join"] /\ batch = [c \in Consumers |-> {}]
  /\ handled = [m \in TaskIds |-> 0]
  /\ stopSet = [c \in Consumers |-> FALSE]
  /\ crashes = 0 /\ overruns = 0 /\ restarts = 0

Goto(c, label) == pc' = [pc EXCEPT ![c] = label]

-----------------------------------------------------------------------------
(* Broker commands, as Redis executes them.                                 *)

publish ==
  /\ published < MaxTasks
  /\ published' = published + 1
  /\ UNCHANGED <<group, cursor, pending, owner, stale, reclaims,
                 pc, batch, handled, stopSet, env>>

(* Redis hands the tasks in ids to consumer c: PEL entry, owner, idle 0.    *)
Deliver(c, ids) ==
  /\ pending' = pending \cup ids
  /\ owner' = [m \in TaskIds |-> IF m \in ids THEN c ELSE owner[m]]
  /\ stale' = stale \ ids
  /\ batch' = [batch EXCEPT ![c] = ids]

(* XACK does not look at the owner.                                         *)
Acknowledge(m) ==
  /\ pending' = pending \ {m}
  /\ owner' = [owner EXCEPT ![m] = NoOwner]
  /\ stale' = stale \ {m}

-----------------------------------------------------------------------------
(* One consumer.                                                            *)

(* Mutant: the group is created at the end of the stream (id=$).            *)
GroupFromNow(c) ==
  /\ pc[c] = "join"
  /\ IF group THEN UNCHANGED <<group, cursor>> ELSE group' = TRUE /\ cursor' = published
  /\ Goto(c, "reclaim")
  /\ UNCHANGED <<published, pending, owner, stale, reclaims, batch, handled, stopSet, env>>

(* XGROUP CREATE id=0; BUSYGROUP is swallowed when a sibling was first.     *)
ensure_group(c) ==
  /\ pc[c] = "join"
  /\ IF group THEN UNCHANGED <<group, cursor>> ELSE group' = TRUE /\ cursor' = 0
  /\ Goto(c, "reclaim")
  /\ UNCHANGED <<published, pending, owner, stale, reclaims, batch, handled, stopSet, env>>

(* Top of the loop: the only place that looks at the stop event.            *)
StopSeen(c) ==
  /\ pc[c] = "reclaim" /\ stopSet[c]
  /\ Goto(c, "stopped")
  /\ UNCHANGED <<redis, batch, handled, stopSet, env>>

(* Mutant: a consumer only reclaims its own entries.                        *)
ReclaimOwnOnly(c) ==
  /\ pc[c] = "reclaim" /\ ~stopSet[c]
  /\ LET claimed == FirstN({m \in stale : owner[m] = c}, Count) IN
       /\ Deliver(c, claimed)
       /\ reclaims' = [m \in TaskIds |-> IF m \in claimed THEN reclaims[m] + 1 ELSE reclaims[m]]
       /\ Goto(c, IF claimed = {} THEN "read" ELSE "handleOld")
  /\ UNCHANGED <<published, group, cursor, handled, stopSet, env>>

(* XAUTOCLAIM from the start of the PEL: any owner's entry, even its own.    *)
reclaim_stale(c) ==
  /\ pc[c] = "reclaim" /\ ~stopSet[c]
  /\ LET claimed == FirstN(stale, Count) IN
       /\ Deliver(c, claimed)
       /\ reclaims' = [m \in TaskIds |-> IF m \in claimed THEN reclaims[m] + 1 ELSE reclaims[m]]
       /\ Goto(c, IF claimed = {} THEN "read" ELSE "handleOld")
  /\ UNCHANGED <<published, group, cursor, handled, stopSet, env>>

(* Mutant: the cursor moves by the count asked for, not by what was read.   *)
ReadSkipsCount(c) ==
  /\ pc[c] = "read"
  /\ LET new == FirstN({m \in TaskIds : cursor < m /\ m =< published}, Count) IN
       /\ Deliver(c, new)
       /\ cursor' = IF new = {} THEN cursor ELSE cursor + Count
       /\ Goto(c, IF new = {} THEN "reclaim" ELSE "handleNew")
  /\ UNCHANGED <<published, group, reclaims, handled, stopSet, env>>

(* Mutant: a plain XREAD, which leaves the group's cursor where it was.     *)
ReadWithoutGroup(c) ==
  /\ pc[c] = "read"
  /\ LET new == FirstN({m \in TaskIds : cursor < m /\ m =< published}, Count) IN
       /\ Deliver(c, new)
       /\ cursor' = cursor
       /\ Goto(c, IF new = {} THEN "reclaim" ELSE "handleNew")
  /\ UNCHANGED <<published, group, reclaims, handled, stopSet, env>>

(* XREADGROUP with id >.  An empty read (the block timed out) sleeps and     *)
(* goes back to the top of the loop.                                        *)
read_new(c) ==
  /\ pc[c] = "read"
  /\ LET new == FirstN({m \in TaskIds : cursor < m /\ m =< published}, Count) IN
       /\ Deliver(c, new)
       /\ cursor' = IF new = {} THEN cursor ELSE Newest(new)
       /\ Goto(c, IF new = {} THEN "reclaim" ELSE "handleNew")
  /\ UNCHANGED <<published, group, reclaims, handled, stopSet, env>>

(* Mutant: a handler that raises is logged, and its task acked all the same. *)
HandleSwallowsError(c) ==
  /\ pc[c] \in {"handleOld", "handleNew"}
  /\ handled' \in {handled, [handled EXCEPT ![Oldest(batch[c])] = @ + 1]}
  /\ Goto(c, IF pc[c] = "handleOld" THEN "ackOld" ELSE "ackNew")
  /\ UNCHANGED <<redis, batch, stopSet, env>>

(* _handle_batch, first half: the handler's effect happens and it returns.   *)
HandleTask(c) ==
  /\ pc[c] \in {"handleOld", "handleNew"}
  /\ handled' = [handled EXCEPT ![Oldest(batch[c])] = @ + 1]
  /\ Goto(c, IF pc[c] = "handleOld" THEN "ackOld" ELSE "ackNew")
  /\ UNCHANGED <<redis, batch, stopSet, env>>

(* _handle_batch, second half: XACK, then the next task of the batch; an     *)
(* exhausted reclaim goes on to read_new, an exhausted read to the loop top. *)
AckTask(c) ==
  /\ pc[c] \in {"ackOld", "ackNew"}
  /\ Acknowledge(Oldest(batch[c]))
  /\ batch' = [batch EXCEPT ![c] = @ \ {Oldest(@)}]
  /\ Goto(c, CASE batch'[c] # {} /\ pc[c] = "ackOld" -> "handleOld"
               [] batch'[c] # {} /\ pc[c] = "ackNew" -> "handleNew"
               [] batch'[c] = {} /\ pc[c] = "ackOld" -> "read"
               [] batch'[c] = {} /\ pc[c] = "ackNew" -> "reclaim")
  /\ UNCHANGED <<published, group, cursor, reclaims, handled, stopSet, env>>

-----------------------------------------------------------------------------
(* The consumers' environment.                                              *)

(* The process is killed, or the handler raises: neither run_consumer nor    *)
(* _handle_batch catches it.                                                *)
Crash(c) ==
  /\ Live(c) /\ crashes < MaxCrashes
  /\ Goto(c, "dead") /\ batch' = [batch EXCEPT ![c] = {}]
  /\ crashes' = crashes + 1
  /\ UNCHANGED <<redis, handled, stopSet, overruns, restarts>>

SetStop(c) ==
  /\ Live(c) /\ ~stopSet[c]
  /\ stopSet' = [stopSet EXCEPT ![c] = TRUE]
  /\ UNCHANGED <<redis, pc, batch, handled, env>>

(* run_consumer is called again under the same consumer name.               *)
Restart(c) ==
  /\ ~Live(c) /\ restarts < MaxRestarts
  /\ Goto(c, "join") /\ stopSet' = [stopSet EXCEPT ![c] = FALSE]
  /\ restarts' = restarts + 1
  /\ UNCHANGED <<redis, batch, handled, crashes, overruns>>

(* A pending task in the hands of its owner, and one nobody works on.        *)
InHand(m) == owner[m] \in Consumers /\ m \in batch[owner[m]]

AbandonedGoesStale(m) ==
  /\ m \in pending \ stale /\ ~InHand(m)
  /\ stale' = stale \cup {m}
  /\ UNCHANGED <<published, group, cursor, pending, owner, reclaims,
                 pc, batch, handled, stopSet, env>>

(* A live consumer is slower than reclaim_min_idle_ms: a long handler, or a  *)
(* long batch whose last tasks wait for the first ones.                      *)
Overrun(m) ==
  /\ m \in pending \ stale /\ InHand(m) /\ overruns < MaxOverruns
  /\ stale' = stale \cup {m}
  /\ overruns' = overruns + 1
  /\ UNCHANGED <<published, group, cursor, pending, owner, reclaims,
                 pc, batch, handled, stopSet, crashes, restarts>>

Consumer(c) ==
  \/ ensure_group(c) \/ StopSeen(c) \/ reclaim_stale(c) \/ read_new(c)
  \/ HandleTask(c) \/ AckTask(c)

Next ==
  \/ publish
  \/ \E c \in Consumers : Consumer(c) \/ Crash(c) \/ SetStop(c) \/ Restart(c)
  \/ \E m \in TaskIds : AbandonedGoesStale(m) \/ Overrun(m)

Spec == Init /\ [][Next]_vars

(* The event loop runs every live consumer, handlers return, time passes.    *)
(* Nobody has to restart a consumer.                                         *)
Fairness ==
  /\ \A c \in Consumers : WF_vars(Consumer(c))
  /\ \A m \in TaskIds : WF_vars(AbandonedGoesStale(m))

FairSpec == Spec /\ Fairness

-----------------------------------------------------------------------------
(* Properties.                                                              *)

(* Every variable has the values its code can give it.                      *)
TypeOK ==
  /\ published \in 0..MaxTasks /\ group \in BOOLEAN /\ cursor \in 0..published
  /\ pending \subseteq 1..cursor /\ stale \subseteq pending
  /\ owner \in [TaskIds -> Consumers \cup {NoOwner}]
  /\ reclaims \in [TaskIds -> Nat] /\ handled \in [TaskIds -> Nat]
  /\ pc \in [Consumers -> PCs] /\ batch \in [Consumers -> SUBSET (1..cursor)]
  /\ stopSet \in [Consumers -> BOOLEAN]
  /\ crashes \in 0..MaxCrashes /\ overruns \in 0..MaxOverruns
  /\ restarts \in 0..MaxRestarts

(* Crash recovery (competing_consumers_pattern/README.md:44): a task the     *)
(* group has delivered and no longer keeps pending was really completed,      *)
(* whoever crashed, stalled or had its task reclaimed and acked by another.   *)
NoTaskLost ==
  \A m \in 1..cursor : m \notin pending => handled[m] > 0

(* Load balancing: a delivery has one holder and one handling.  Two consumers  *)
(* that hold the same task at the same time, and every repetition of a task's  *)
(* side effect, have a reclaim_stale behind them, and each crash and each       *)
(* overrun makes reclaim_stale take a task at most once.                       *)
OneHandlingPerDelivery ==
  \A m \in TaskIds :
    /\ handled[m] =< 1 + reclaims[m]
    /\ reclaims[m] =< crashes + overruns
    /\ \A c, d \in Consumers :
         c # d /\ m \in batch[c] \cap batch[d] => reclaims[m] >= 1

(* While one consumer keeps running, every task is eventually completed and   *)
(* leaves the pending list, whoever else crashes or stops while holding it.   *)
EveryTaskCompleted ==
  [](\E c \in Consumers : Live(c) /\ ~stopSet[c]) => \A m \in TaskIds :
    m =< published ~> (m =< cursor /\ m \notin pending)

(* The consumer group implements at-least-once delivery of tasks.             *)
ALO == INSTANCE AtLeastOnce WITH
  Items <- TaskIds,
  owed <- (1..published) \ ((1..cursor) \ pending),
  done <- {m \in TaskIds : handled[m] > 0}

ImplementsAtLeastOnce == ALO!Spec
=============================================================================
