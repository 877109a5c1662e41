------------------------------ MODULE Idempotency ------------------------------
(***************************************************************************)
(* The dedup stores of entities/idempotency.py under handlers wrapped by the *)
(* fault injectors of chaos.py.  A store is either in memory (one dict of     *)
(* expiry instants, every operation atomic on the event loop) or in Redis     *)
(* (one set, SADD and PEXPIRE NX as two commands any other process may come   *)
(* between).                                                               *)
(*                                                                         *)
(* Time is a tick that ages everything; an instant is the ticks left until   *)
(* it, so histories need no bound.                                          *)
(***************************************************************************)
EXTENDS Integers

CONSTANTS
  Callers,    \* consumers sharing the store
  Keys,       \* message keys
  TTL,        \* the store's ttl, in ticks
  Milli,      \* ticks in a millisecond, the unit redis-py truncates PEXPIRE to
  MaxFires,   \* bound: faults injected
  MaxInterrupts,  \* bound: Redis commands that do not return
  Absent,     \* a key the dict does not hold
  NoTTL       \* a Redis set that never expires

(* _validate_ttl, at construction.                                          *)
ValidTtl(ttl) == ttl > 0

ASSUME TtlAssumption == TTL \in Nat /\ ValidTtl(TTL) /\ Milli \in Nat \ {0}
ASSUME BoundAssumption == MaxFires \in Nat /\ MaxInterrupts \in Nat
ASSUME ValueAssumption == Absent \notin Nat /\ NoTTL \notin Nat
ASSUME KeysAssumption == Keys # {}

VARIABLES
  inRedis,    \* which store the callers share
  left,       \* InMemoryIdempotencyStore._expiry: ticks left, 0 once expired
  members,    \* the Redis set
  setLeft,    \* the ticks left of the Redis set's ttl
  pc, key,    \* each caller: where its handler is, the key it was delivered
  claims,     \* whether its handler claims first (mark_if_new) or checks first
  runs,       \* invocations of the wrapped handler still to make
  dies,       \* whether crash_before_ack fires on this delivery
  fires, interrupts,
  sinceMark,  \* ticks since each key was last recorded, TTL for long ago (observation)
  recorded    \* who was told a key is new since it was last due (observation)

store == <<left, members, setLeft, sinceMark, recorded>>
caller == <<pc, key, claims, runs, dies>>
vars == <<inRedis, left, members, setLeft, pc, key, claims, runs, dies, fires, interrupts,
          sinceMark, recorded>>

Init ==
  /\ inRedis \in BOOLEAN
  /\ left = [k \in Keys |-> Absent] /\ members = {} /\ setLeft = NoTTL
  /\ pc = [c \in Callers |-> "idle"]
  /\ key = [c \in Callers |-> CHOOSE k \in Keys : TRUE]
  /\ claims = [c \in Callers |-> TRUE] /\ runs = [c \in Callers |-> 0]
  /\ dies = [c \in Callers |-> FALSE]
  /\ fires = 0 /\ interrupts = 0
  /\ sinceMark = [k \in Keys |-> TTL] /\ recorded = [k \in Keys |-> 0]

Goto(c, label) == pc' = [pc EXCEPT ![c] = label]

-----------------------------------------------------------------------------
(* Deliveries through a ChaosInjector.                                      *)

(* __call__ with a policy that does not fire: the call is passed through.     *)
PassThrough(c, k, claimFirst) ==
  /\ pc[c] = "idle" /\ Goto(c, "call")
  /\ key' = [key EXCEPT ![c] = k] /\ claims' = [claims EXCEPT ![c] = claimFirst]
  /\ runs' = [runs EXCEPT ![c] = 1] /\ dies' = [dies EXCEPT ![c] = FALSE]
  /\ UNCHANGED <<inRedis, store, fires, interrupts>>

(* The policy fires, by ordinal or by its seeded draw, and _fire runs.        *)
Fire(c, k, claimFirst, label, count, crash) ==
  /\ pc[c] = "idle" /\ fires < MaxFires
  /\ fires' = fires + 1 /\ Goto(c, label)
  /\ key' = [key EXCEPT ![c] = k] /\ claims' = [claims EXCEPT ![c] = claimFirst]
  /\ runs' = [runs EXCEPT ![c] = count] /\ dies' = [dies EXCEPT ![c] = crash]
  /\ UNCHANGED <<inRedis, store, interrupts>>

(* BrokerUnavailableError instead of the call.                              *)
broker_unavailable(c, k, claimFirst) == Fire(c, k, claimFirst, "idle", 0, FALSE)
(* The call twice, one after the other.                                     *)
duplicate_delivery(c, k, claimFirst) == Fire(c, k, claimFirst, "call", 2, FALSE)
(* The call, then ConsumerCrashError: no ack, so the broker redelivers.       *)
crash_before_ack(c, k, claimFirst) == Fire(c, k, claimFirst, "call", 1, TRUE)
(* The latency first, then the call.                                        *)
slow_consumer(c, k, claimFirst) == Fire(c, k, claimFirst, "sleep", 1, FALSE)

Wakes(c) ==
  /\ pc[c] = "sleep" /\ Goto(c, "call")
  /\ UNCHANGED <<inRedis, store, key, claims, runs, dies, fires, interrupts>>

Redelivered(c) ==
  /\ pc[c] = "unacked" /\ Goto(c, "call")
  /\ runs' = [runs EXCEPT ![c] = 1] /\ dies' = [dies EXCEPT ![c] = FALSE]
  /\ UNCHANGED <<inRedis, store, key, claims, fires, interrupts>>

(* One invocation of the handler is over.                                   *)
Return(c) ==
  /\ runs' = [runs EXCEPT ![c] = @ - 1]
  /\ Goto(c, IF runs[c] > 1 THEN "call" ELSE IF dies[c] THEN "unacked" ELSE "idle")

-----------------------------------------------------------------------------
(* InMemoryIdempotencyStore.  Nothing is awaited while the lock is held.      *)

IsLive(k) == left[k] # Absent /\ left[k] > 0

(* Mutant: the sweep is left to the checks.                                  *)
RecordWithoutSweep(k) ==
  /\ left' = [left EXCEPT ![k] = TTL]
  /\ sinceMark' = [sinceMark EXCEPT ![k] = 0]

(* _record: sweep the expired entries, then write the new instant.           *)
Record(k) ==
  /\ left' = [j \in Keys |->
       IF j = k THEN TTL ELSE IF left[j] = 0 THEN Absent ELSE left[j]]
  /\ sinceMark' = [sinceMark EXCEPT ![k] = 0]

(* What a check that finds the key expired leaves behind.                    *)
Forget(k) == left' = IF left[k] = 0 THEN [left EXCEPT ![k] = Absent] ELSE left

(* The caller of mark_if_new is told the key is new; one that marks           *)
(* unconditionally at least makes it known.                                  *)
ToldNew(k) == recorded' = [recorded EXCEPT ![k] = @ + 1]
Known(k) == recorded' = [recorded EXCEPT ![k] = IF @ = 0 THEN 1 ELSE @]

MemoryMarkIfNew(c) ==
  LET k == key[c] IN
  /\ ~inRedis /\ pc[c] = "call" /\ claims[c]
  /\ IF IsLive(k) THEN UNCHANGED <<left, sinceMark, recorded>>
                  ELSE Record(k) /\ ToldNew(k)
  /\ Return(c)
  /\ UNCHANGED <<inRedis, members, setLeft, key, claims, dies, fires, interrupts>>

MemoryIsProcessed(c) ==
  /\ ~inRedis /\ pc[c] = "call" /\ ~claims[c]
  /\ Forget(key[c])
  /\ IF IsLive(key[c]) THEN Return(c) ELSE Goto(c, "mark") /\ UNCHANGED runs
  /\ UNCHANGED <<inRedis, members, setLeft, sinceMark, recorded, key, claims, dies, fires,
                 interrupts>>

MemoryMarkProcessed(c) ==
  /\ ~inRedis /\ pc[c] = "mark"
  /\ Record(key[c]) /\ Known(key[c])
  /\ Return(c)
  /\ UNCHANGED <<inRedis, members, setLeft, key, claims, dies, fires, interrupts>>

-----------------------------------------------------------------------------
(* RedisIdempotencyStore.                                                   *)

RedisIsProcessed(c) ==
  /\ inRedis /\ pc[c] = "call" /\ ~claims[c]
  /\ IF key[c] \in members THEN Return(c) ELSE Goto(c, "mark") /\ UNCHANGED runs
  /\ UNCHANGED <<inRedis, store, key, claims, dies, fires, interrupts>>

(* Mutant: SADD's answer is dropped by mark_if_new too.                        *)
SaddAnswerDropped(c) ==
  LET k == key[c] IN
  /\ inRedis /\ pc[c] = (IF claims[c] THEN "call" ELSE "mark")
  /\ members' = members \cup {k}
  /\ IF claims[c] THEN ToldNew(k) ELSE Known(k)
  /\ Goto(c, "pexpire")
  /\ UNCHANGED <<inRedis, left, setLeft, sinceMark, key, claims, runs, dies, fires, interrupts>>

(* mark_if_new's first command; mark_processed drops its answer.              *)
Sadd(c) ==
  LET k == key[c] IN
  /\ inRedis /\ pc[c] = (IF claims[c] THEN "call" ELSE "mark")
  /\ members' = members \cup {k}
  /\ IF ~claims[c] THEN Known(k)
     ELSE IF k \in members THEN UNCHANGED recorded ELSE ToldNew(k)
  /\ Goto(c, "pexpire")
  /\ UNCHANGED <<inRedis, left, setLeft, sinceMark, key, claims, runs, dies, fires, interrupts>>

(* PEXPIRE takes whole milliseconds, and a set with 0 of them to live is gone. *)
RedisTtl == (TTL \div Milli) * Milli

(* Mutant: XX for NX, the ttl of a set that has none is never set.            *)
PexpireXx(c) ==
  /\ pc[c] = "pexpire"
  /\ setLeft' = IF setLeft = NoTTL THEN NoTTL ELSE RedisTtl
  /\ Return(c)
  /\ UNCHANGED <<inRedis, members, left, sinceMark, recorded, key, claims, dies, fires, interrupts>>

(* Mutant: without NX every write restarts the ttl.                           *)
PexpireRefreshes(c) ==
  /\ pc[c] = "pexpire"
  /\ setLeft' = IF members = {} THEN setLeft ELSE RedisTtl
  /\ Return(c)
  /\ UNCHANGED <<inRedis, members, left, sinceMark, recorded, key, claims, dies, fires, interrupts>>

(* NX leaves the ttl of a set that has one.                                  *)
SetTtlNx ==
  IF members # {} /\ setLeft = NoTTL
  THEN IF RedisTtl = 0 THEN members' = {} /\ UNCHANGED setLeft
                       ELSE setLeft' = RedisTtl /\ UNCHANGED members
  ELSE UNCHANGED <<members, setLeft>>

(* The second command of mark_if_new.                                        *)
PexpireNx(c) ==
  /\ pc[c] = "pexpire"
  /\ SetTtlNx
  /\ Return(c)
  /\ UNCHANGED <<inRedis, left, sinceMark, recorded, key, claims, dies, fires, interrupts>>

(* A command does not return, applied or not: it raises, the task is cancelled    *)
(* while awaiting it, or its process is killed.  No ack, so the broker redelivers. *)
(* Nobody has been told that the key of a SADD like that is new.                  *)
Interrupted(c) ==
  /\ inRedis /\ interrupts < MaxInterrupts
  /\ \/ pc[c] \in {"call", "mark", "pexpire"} /\ UNCHANGED <<members, setLeft>>
     \/ /\ pc[c] = (IF claims[c] THEN "call" ELSE "mark")
        /\ members' = members \cup {key[c]} /\ UNCHANGED setLeft
     \/ pc[c] = "pexpire" /\ SetTtlNx
  /\ interrupts' = interrupts + 1 /\ Goto(c, "unacked")
  /\ UNCHANGED <<inRedis, left, sinceMark, recorded, key, claims, runs, dies, fires>>

-----------------------------------------------------------------------------
(* A tick passes; Redis drops a whole set whose ttl is over.                  *)
Tick ==
  LET setDue == setLeft = 1 IN
  /\ left' = [k \in Keys |-> IF IsLive(k) THEN left[k] - 1 ELSE left[k]]
  /\ setLeft' = IF setLeft = NoTTL \/ setDue THEN NoTTL ELSE setLeft - 1
  /\ members' = IF setDue THEN {} ELSE members
  /\ sinceMark' = [k \in Keys |-> IF sinceMark[k] = TTL THEN TTL ELSE sinceMark[k] + 1]
  /\ recorded' = [k \in Keys |->
       IF (inRedis /\ setDue) \/ (~inRedis /\ sinceMark'[k] = TTL) THEN 0 ELSE recorded[k]]
  /\ UNCHANGED <<inRedis, caller, fires, interrupts>>

Handler(c) ==
  \/ Wakes(c) \/ Redelivered(c)
  \/ MemoryMarkIfNew(c) \/ MemoryIsProcessed(c) \/ MemoryMarkProcessed(c)
  \/ RedisIsProcessed(c) \/ Sadd(c) \/ PexpireNx(c)

Next ==
  \/ \E c \in Callers, k \in Keys, claimFirst \in BOOLEAN :
       \/ PassThrough(c, k, claimFirst)
       \/ broker_unavailable(c, k, claimFirst) \/ duplicate_delivery(c, k, claimFirst)
       \/ crash_before_ack(c, k, claimFirst) \/ slow_consumer(c, k, claimFirst)
  \/ \E c \in Callers : Handler(c) \/ Interrupted(c)
  \/ Tick

Spec == Init /\ [][Next]_vars

(* Clocks advance, and a live process finishes the handler it is in.          *)
FairSpec == Spec /\ WF_vars(Tick) /\ \A c \in Callers : WF_vars(Handler(c))

-----------------------------------------------------------------------------
(* Properties.                                                              *)

(* Every variable has the values its code can give it.                      *)
TypeOK ==
  /\ inRedis \in BOOLEAN
  /\ left \in [Keys -> {Absent} \cup 0..TTL]
  /\ members \subseteq Keys /\ setLeft \in {NoTTL} \cup 1..TTL
  /\ pc \in [Callers -> {"idle", "sleep", "call", "mark", "pexpire", "unacked"}]
  /\ key \in [Callers -> Keys] /\ claims \in [Callers -> BOOLEAN]
  /\ runs \in [Callers -> 0..2] /\ dies \in [Callers -> BOOLEAN]
  /\ fires \in 0..MaxFires /\ interrupts \in 0..MaxInterrupts
  /\ sinceMark \in [Keys -> 0..TTL] /\ recorded \in [Keys -> Nat]

(* "two tasks racing for the same key cannot both win the claim"                *)
(* (idempotency.py:94): until a key is due to be forgotten - its ttl after it    *)
(* was last recorded in memory, the end of the set's window in Redis - one      *)
(* caller at most is told it is new, through duplicate and late deliveries,     *)
(* redeliveries after a crash, and callers that only mark.                      *)
OneClaimPerWindow == TypeOK /\ \A k \in Keys : recorded[k] =< 1

(* A set nothing will ever expire: no ttl, and nobody on the way to set one.    *)
Leaked == members # {} /\ setLeft = NoTTL /\ \A c \in Callers : pc[c] # "pexpire"

(* "Retention is bounded" (idempotency.py:13): however writers interleave their     *)
(* SADDs and PEXPIREs, the set is left with no ttl and nobody on the way to set one   *)
(* only by a step that breaks one of these commands off (it raises, its task is        *)
(* cancelled or its process dies), and the next write that completes repairs it.       *)
UnboundedNeedsInterruption ==
  [][/\ ~Leaked /\ Leaked' => interrupts' > interrupts
     /\ \A c \in Callers :
          (/\ pc[c] = "pexpire" /\ pc'[c] # "pexpire"
           /\ interrupts' = interrupts /\ members' # {}) => setLeft' # NoTTL]_vars

(* "the dict cannot grow past the number of keys seen within one TTL window"     *)
(* (idempotency.py:88): an entry answers for exactly ttl after its last mark,    *)
(* and a write leaves no expired one behind.                                   *)
DictHoldsOneWindow ==
  [][~inRedis =>
       /\ \A k \in Keys : IsLive(k) <=> sinceMark[k] < TTL
       /\ \A k \in Keys : sinceMark'[k] < sinceMark[k] => \A j \in Keys : left'[j] # 0]_vars

(* "Refreshing the TTL on every write instead would keep the key alive forever   *)
(* under steady traffic" (idempotency.py:168): however callers keep writing, a   *)
(* window once opened ends, unless a write broken off left the set without a ttl. *)
EveryWindowEnds == members # {} ~> (members = {} \/ Leaked)
=============================================================================
