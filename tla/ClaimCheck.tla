----------------------------- MODULE ClaimCheck -----------------------------
(***************************************************************************)
(* The claim check: claim_check_pattern/storage.py (payload files),           *)
(* broker.py (an asyncio.Queue of claims), producer.py and consumer.py, all   *)
(* tasks of one process.  The files outlive the process, the queue does not.  *)
(*                                                                         *)
(* A payload, its file and its claim share the claim id that put mints;       *)
(* ids are numbered in that order.  Steps are cut where a task can really be  *)
(* suspended: a get on an empty queue and the handler.  The put of an          *)
(* unbounded asyncio.Queue and the store's file calls never suspend.          *)
(***************************************************************************)
EXTENDS Integers, Sequences, FiniteSets, Functions

CONSTANTS
  Consumers,     \* consumer ids
  Deleting,      \* the consumers that run with delete_after=True
  MaxPayloads,   \* bound: payloads published
  MaxFaults,     \* bound: failed writes and handlers that raise
  MaxCrashes,    \* bound: times the process is killed
  MaxStops       \* bound: stop events set

ASSUME DeletingAssumption == Deleting \subseteq Consumers
ASSUME BoundAssumption ==
  MaxPayloads \in Nat /\ MaxFaults \in Nat /\ MaxCrashes \in Nat /\ MaxStops \in Nat

VARIABLES
  minted,     \* claim ids minted so far
  store,      \* <root>/<claim_id>.bin: the claim ids with a payload file
  queue,      \* the asyncio.Queue of claims
  pc, claim,  \* each consumer: where it is, the claim it works on
  stopSet,    \* each consumer's stop_event
  handled,    \* times each payload's handler completed (observation)
  kept,       \* payloads whose consumer meant to keep the file (observation)
  faults, crashes, stops

env == <<faults, crashes, stops>>
vars == <<minted, store, queue, pc, claim, stopSet, handled, kept,
          faults, crashes, stops>>

Ids == 1..MaxPayloads
Running == {"top", "waiting", "handle"}
PCs == Running \cup {"ended"}

Init ==
  /\ minted = 0 /\ store = {} /\ queue = <<>>
  /\ pc = [c \in Consumers |-> "top"] /\ claim = [c \in Consumers |-> 0]
  /\ stopSet = [c \in Consumers |-> FALSE]
  /\ handled = [i \in Ids |-> 0] /\ kept = {}
  /\ faults = 0 /\ crashes = 0 /\ stops = 0

Goto(c, label) == pc' = [pc EXCEPT ![c] = label]
Fault == faults < MaxFaults /\ faults' = faults + 1

-----------------------------------------------------------------------------
(* The producer.                                                            *)

(* ClaimCheckProducer.publish: write the file, then enqueue its claim.        *)
publish ==
  /\ minted < MaxPayloads
  /\ minted' = minted + 1
  /\ store' = store \cup {minted'}
  /\ queue' = Append(queue, minted')
  /\ UNCHANGED <<pc, claim, stopSet, handled, kept, env>>

(* Mutant: the claim is enqueued before its payload is written.               *)
PublishBeforePut ==
  /\ minted < MaxPayloads /\ Fault
  /\ minted' = minted + 1
  /\ queue' = Append(queue, minted')
  /\ UNCHANGED <<store, pc, claim, stopSet, handled, kept, crashes, stops>>

(* put raises (write_bytes): no claim is enqueued, and the file, if it was     *)
(* created at all, stays half written under an id nobody knows.               *)
PutRaises ==
  /\ minted < MaxPayloads /\ Fault
  /\ \/ minted' = minted + 1 /\ store' = store \cup {minted'}
     \/ UNCHANGED <<minted, store>>
  /\ UNCHANGED <<queue, pc, claim, stopSet, handled, kept, crashes, stops>>

-----------------------------------------------------------------------------
(* The consumer.                                                            *)

(* A claim leaves the queue and its payload is read: the handler starts with  *)
(* it or, with no file under the id, PayloadNotFoundError ends the consumer.  *)
Redeem(c) ==
  /\ queue # <<>> /\ queue' = Tail(queue)
  /\ IF Head(queue) \in store
       THEN claim' = [claim EXCEPT ![c] = Head(queue)] /\ Goto(c, "handle")
       ELSE UNCHANGED claim /\ Goto(c, "ended")
  /\ UNCHANGED <<minted, store, stopSet, handled, kept, env>>

(* The loop looks at the stop event and, with a claim in the queue, get       *)
(* returns it without suspending; else the consumer waits for one.            *)
LoopTop(c) ==
  /\ pc[c] = "top"
  /\ \/ ~stopSet[c] /\ Redeem(c)
     \/ /\ stopSet[c] \/ queue = <<>>
        /\ Goto(c, IF stopSet[c] THEN "ended" ELSE "waiting")
        /\ UNCHANGED <<minted, store, queue, claim, stopSet, handled, kept, env>>

(* A claim arrives for a waiting get.                                        *)
Wake(c) == pc[c] = "waiting" /\ Redeem(c)

(* Mutant: the cancelled get has already taken the claim.                     *)
TimesOutDropsClaim(c) ==
  /\ pc[c] = "waiting"
  /\ queue' = IF queue = <<>> THEN queue ELSE Tail(queue)
  /\ Goto(c, "top")
  /\ UNCHANGED <<minted, store, claim, stopSet, handled, kept, env>>

(* Mutant: get(timeout=None), which only a claim ends.                        *)
WaitsForever(c) ==
  /\ pc[c] = "waiting" /\ queue # <<>> /\ Goto(c, "top")
  /\ UNCHANGED <<minted, store, queue, claim, stopSet, handled, kept, env>>

(* wait_for cancels the waiting get after poll_timeout, perhaps just when a   *)
(* claim arrives; the claim stays in the queue and get returns None.          *)
TimesOut(c) ==
  /\ pc[c] = "waiting" /\ Goto(c, "top")
  /\ UNCHANGED <<minted, store, queue, claim, stopSet, handled, kept, env>>

(* What the payload's file becomes when consumer c is done with it.           *)
Reclaim(c) ==
  /\ store' = IF c \in Deleting THEN store \ {claim[c]} ELSE store
  /\ kept' = IF c \in Deleting THEN kept ELSE kept \cup {claim[c]}

(* The handler returns; with delete_after the file is deleted.                *)
HandlerReturns(c) ==
  /\ pc[c] = "handle"
  /\ handled' = [handled EXCEPT ![claim[c]] = @ + 1]
  /\ Reclaim(c)
  /\ claim' = [claim EXCEPT ![c] = 0] /\ Goto(c, "top")
  /\ UNCHANGED <<minted, queue, stopSet, env>>

(* The handler raises: nothing catches it, the claim is gone, the file stays. *)
HandlerRaises(c) ==
  /\ pc[c] = "handle" /\ Fault
  /\ claim' = [claim EXCEPT ![c] = 0] /\ Goto(c, "ended")
  /\ UNCHANGED <<minted, store, queue, stopSet, handled, kept, crashes, stops>>

-----------------------------------------------------------------------------
(* What happens from outside.                                               *)

(* The process is killed: the queue and the consumers go, the files stay.     *)
(* Handlers of those in "done" had finished, but not the delete after them.   *)
Crash ==
  /\ crashes < MaxCrashes /\ crashes' = crashes + 1
  /\ \E done \in SUBSET {c \in Consumers : pc[c] = "handle"} :
       handled' = [i \in Ids |-> IF \E c \in done : claim[c] = i
                                 THEN handled[i] + 1 ELSE handled[i]]
  /\ queue' = <<>>
  /\ pc' = [c \in Consumers |-> "ended"] /\ claim' = [c \in Consumers |-> 0]
  /\ UNCHANGED <<minted, store, stopSet, kept, faults, stops>>

SetStop(c) ==
  /\ pc[c] \in Running /\ ~stopSet[c] /\ stops < MaxStops
  /\ stopSet' = [stopSet EXCEPT ![c] = TRUE] /\ stops' = stops + 1
  /\ UNCHANGED <<minted, store, queue, pc, claim, handled, kept, faults, crashes>>

(* The caller starts an ended consumer again.                                *)
Restart(c) ==
  /\ pc[c] = "ended" /\ Goto(c, "top")
  /\ stopSet' = [stopSet EXCEPT ![c] = FALSE]
  /\ UNCHANGED <<minted, store, queue, claim, handled, kept, env>>

Consumer(c) == LoopTop(c) \/ Wake(c) \/ TimesOut(c) \/ HandlerReturns(c)

Next ==
  \/ publish \/ PutRaises \/ Crash
  \/ \E c \in Consumers : Consumer(c) \/ HandlerRaises(c) \/ SetStop(c) \/ Restart(c)

Spec == Init /\ [][Next]_vars

(* The event loop runs every live consumer, timers fire and handlers return.  *)
FairSpec == Spec /\ \A c \in Consumers : WF_vars(Consumer(c))

-----------------------------------------------------------------------------
(* Properties.                                                              *)

(* Every variable has the values its code can give it.                      *)
TypeOK ==
  /\ minted \in 0..MaxPayloads /\ store \subseteq 1..minted /\ queue \in Seq(1..minted)
  /\ pc \in [Consumers -> PCs] /\ claim \in [Consumers -> 0..minted]
  /\ stopSet \in [Consumers -> BOOLEAN]
  /\ handled \in [Ids -> Nat] /\ kept \subseteq 1..minted
  /\ faults \in 0..MaxFaults /\ crashes \in 0..MaxCrashes /\ stops \in 0..MaxStops

InHand == {claim[c] : c \in {d \in Consumers : pc[d] = "handle"}}
Live == Range(queue) \cup InHand

(* A claim that still travels, in the queue or in a handler, can be redeemed:  *)
(* its file is there, so store.get never raises PayloadNotFoundError, whatever  *)
(* other consumers delete and whichever writes fail.  And it is honoured at      *)
(* most once (README.md:13 of the repository: "a dequeued claim is never         *)
(* redelivered"): no payload is handled twice, and none is destroyed unhandled,  *)
(* through timeouts that race with arrivals, raising handlers, restarts and      *)
(* kills between handler and delete.                                           *)
ClaimsHonoured ==
  /\ TypeOK
  /\ Live \subseteq store
  /\ \A i \in Ids : handled[i] =< 1
  /\ \A i \in (1..minted) \ store : handled[i] = 1

(* The files nobody will ever read or delete again.                           *)
Orphans == store \ (Live \cup kept)

(* Orphaned payloads pile up if claims are lost (README.md:125); as long as the  *)
(* process lives, each takes a write that failed or a handler that raised: a     *)
(* stop, a restart or a timeout racing an arriving claim never leaves one.       *)
OrphansNeedFault == crashes = 0 => Cardinality(Orphans) =< faults

(* consumer.py:46: an idle consumer wakes periodically to observe stop_event      *)
(* instead of blocking on an empty queue forever.                              *)
StopObserved == \A c \in Consumers : stopSet[c] ~> pc[c] = "ended"
=============================================================================
