---------------------------- MODULE HarnessProofs ----------------------------
(***************************************************************************)
(* Proofs about what surrounds the patterns: Idempotency for every set of   *)
(* callers and keys, every ttl and every number of faults and interruptions *)
(* (types, one claim per window, a Redis set left unbounded only by a       *)
(* command broken off, a dict that holds one window), and Bench for every    *)
(* concurrency, window, poison rate and retry budget (types, windows that   *)
(* are not overshot, results that stand for the work done, depth series     *)
(* that match them).                                                        *)
(***************************************************************************)
EXTENDS Idempotency, Bench, FiniteSetTheorems, TLAPS

-----------------------------------------------------------------------------
(* Idempotency.                                                             *)

(* A handler under way has an invocation left to make.                        *)
AtWork == \A c \in Callers : pc[c] \notin {"idle", "unacked"} => runs[c] >= 1

(* The dict's entry for a key and the time since the key was recorded agree.   *)
MemoryAnswers ==
  ~inRedis => \A k \in Keys :
    \/ left[k] \in {Absent, 0} /\ sinceMark[k] = TTL
    \/ left[k] \in 1..TTL /\ left[k] = TTL - sinceMark[k]

(* The parts of TypeOK that the handlers and the stores change.                *)
PCs == {"idle", "sleep", "call", "mark", "pexpire", "unacked"}
CallerTypes ==
  /\ pc \in [Callers -> PCs] /\ key \in [Callers -> Keys]
  /\ claims \in [Callers -> BOOLEAN] /\ dies \in [Callers -> BOOLEAN]
  /\ runs \in [Callers -> 0..2]
StoreTypes ==
  /\ left \in [Keys -> {Absent} \cup 0..TTL] /\ sinceMark \in [Keys -> 0..TTL]
  /\ members \subseteq Keys /\ setLeft \in {NoTTL} \cup 1..TTL
  /\ recorded \in [Keys -> Nat]

Inv == TypeOK /\ AtWork /\ MemoryAnswers

(* A key that nobody remembers was claimed by nobody.                         *)
ClaimsRemembered ==
  \A k \in Keys :
    /\ recorded[k] =< 1
    /\ ~inRedis /\ sinceMark[k] = TTL => recorded[k] = 0
    /\ inRedis /\ k \notin members => recorded[k] = 0

-----------------------------------------------------------------------------
(* Truncating the ttl to whole milliseconds never lengthens it, and keeps      *)
(* something of it when it is at least one.                                  *)
LEMMA TtlTruncated ==
  /\ TTL \in Nat \ {0}
  /\ RedisTtl \in 0..TTL
  /\ TTL >= Milli => RedisTtl >= 1
<1>1. TTL \in Nat \ {0} /\ Milli \in Nat \ {0}
  BY TtlAssumption DEF ValidTtl
<1> DEFINE q == TTL \div Milli
           r == TTL % Milli
<1>2. q \in Nat /\ r \in 0..(Milli - 1) /\ TTL = Milli * q + r
  BY <1>1
<1>3. q * Milli = Milli * q /\ Milli * q \in Nat
  BY <1>1, <1>2
<1>4. RedisTtl = TTL - r /\ RedisTtl \in 0..TTL
  BY <1>1, <1>2, <1>3 DEF RedisTtl
<1>5. TTL >= Milli => RedisTtl >= 1
  BY <1>1, <1>2, <1>4
<1>6. QED
  BY <1>1, <1>4, <1>5

LEMMA TypesSplit ==
  TypeOK <=> /\ inRedis \in BOOLEAN /\ CallerTypes /\ StoreTypes
             /\ fires \in 0..MaxFires /\ interrupts \in 0..MaxInterrupts
BY Zenon DEF TypeOK, CallerTypes, StoreTypes, PCs

-----------------------------------------------------------------------------
(* What a step does to the handlers.                                         *)

(* A caller moves on within its handler, or out of it.                        *)
LEMMA Moved ==
  ASSUME CallerTypes, AtWork, NEW c \in Callers, NEW label \in PCs, Goto(c, label),
         label \in {"idle", "unacked"} \/ runs[c] >= 1,
         UNCHANGED <<key, claims, runs, dies>>
  PROVE  /\ CallerTypes' /\ AtWork' /\ pc'[c] = label
         /\ \A d \in Callers \ {c} : pc'[d] = pc[d]
<1>1. pc \in [Callers -> PCs] /\ runs \in [Callers -> 0..2]
  BY DEF CallerTypes
<1>2. pc' \in [Callers -> PCs] /\ \A d \in Callers : pc'[d] = IF d = c THEN label ELSE pc[d]
  BY <1>1 DEF Goto
<1>3. CallerTypes'
  BY <1>2, Zenon DEF CallerTypes
<1>4. AtWork'
  BY <1>2 DEF AtWork
<1>5. QED
  BY <1>2, <1>3, <1>4

(* One invocation of the handler is over.                                    *)
LEMMA Returned ==
  ASSUME CallerTypes, AtWork, NEW c \in Callers, pc[c] \in {"call", "mark", "pexpire"},
         Return(c), UNCHANGED <<key, claims, dies>>
  PROVE  /\ CallerTypes' /\ AtWork' /\ pc'[c] # "pexpire"
         /\ \A d \in Callers \ {c} : pc'[d] = pc[d]
<1>1. pc \in [Callers -> PCs] /\ runs \in [Callers -> 0..2] /\ runs[c] >= 1
  BY DEF CallerTypes, AtWork
<1> DEFINE label == IF runs[c] > 1 THEN "call" ELSE IF dies[c] THEN "unacked" ELSE "idle"
<1>2. label \in {"call", "unacked", "idle"} /\ (label = "call" => runs[c] > 1)
  OBVIOUS
<1>3. pc' = [pc EXCEPT ![c] = label]
  BY DEF Return, Goto
<1> HIDE DEF label
<1>4. /\ pc' \in [Callers -> PCs]
      /\ \A d \in Callers : pc'[d] = IF d = c THEN label ELSE pc[d]
  BY <1>1, <1>2, <1>3 DEF PCs
<1>5. /\ runs' \in [Callers -> 0..2]
      /\ \A d \in Callers : runs'[d] = IF d = c THEN runs[c] - 1 ELSE runs[d]
  BY <1>1 DEF Return
<1>6. CallerTypes'
  BY <1>4, <1>5, Zenon DEF CallerTypes
<1>7. AtWork'
  BY <1>1, <1>2, <1>4, <1>5 DEF AtWork
<1>8. QED
  BY <1>2, <1>4, <1>6, <1>7

(* A delivery starts a handler, or the injector answers in its place.          *)
LEMMA Started ==
  ASSUME CallerTypes, AtWork, NEW c \in Callers, NEW k \in Keys, NEW claimFirst \in BOOLEAN,
         NEW label \in PCs, NEW count \in 0..2, NEW crash \in BOOLEAN,
         pc[c] = "idle", label # "pexpire", label = "idle" \/ count >= 1, Goto(c, label),
         key' = [key EXCEPT ![c] = k], claims' = [claims EXCEPT ![c] = claimFirst],
         runs' = [runs EXCEPT ![c] = count], dies' = [dies EXCEPT ![c] = crash]
  PROVE  /\ CallerTypes' /\ AtWork'
         /\ \A d \in Callers : pc'[d] = "pexpire" <=> pc[d] = "pexpire"
<1>1. /\ pc \in [Callers -> PCs] /\ runs \in [Callers -> 0..2] /\ key \in [Callers -> Keys]
  BY DEF CallerTypes
<1>2. /\ pc' \in [Callers -> PCs] /\ runs' \in [Callers -> 0..2] /\ key' \in [Callers -> Keys]
      /\ \A d \in Callers : pc'[d] = IF d = c THEN label ELSE pc[d]
      /\ \A d \in Callers : runs'[d] = IF d = c THEN count ELSE runs[d]
  BY <1>1 DEF Goto
<1>3. claims' \in [Callers -> BOOLEAN] /\ dies' \in [Callers -> BOOLEAN]
  <2>1. claims \in [Callers -> BOOLEAN] /\ dies \in [Callers -> BOOLEAN]
    BY DEF CallerTypes
  <2>2. QED
    BY <2>1
<1>4. CallerTypes'
  BY <1>2, <1>3, Zenon DEF CallerTypes
<1>5. AtWork'
  BY <1>2 DEF AtWork
<1>6. QED
  BY <1>2, <1>4, <1>5

-----------------------------------------------------------------------------
(* What a step does to the stores.                                           *)

(* A mark in memory writes the new instant and leaves no expired entry.         *)
LEMMA Recorded ==
  ASSUME StoreTypes, MemoryAnswers, ~inRedis, inRedis' = inRedis, NEW k \in Keys, Record(k)
  PROVE  /\ left' \in [Keys -> {Absent} \cup 0..TTL] /\ sinceMark' \in [Keys -> 0..TTL]
         /\ MemoryAnswers'
         /\ sinceMark'[k] = 0 /\ \A j \in Keys \ {k} : sinceMark'[j] = sinceMark[j]
         /\ \A j \in Keys : left'[j] # 0
<1>1. TTL \in Nat \ {0} /\ Absent \notin Nat
  BY TtlTruncated, ValueAssumption
<1>2. /\ left \in [Keys -> {Absent} \cup 0..TTL] /\ sinceMark \in [Keys -> 0..TTL]
  BY DEF StoreTypes
<1>3. /\ left' \in [Keys -> {Absent} \cup 0..TTL]
      /\ \A j \in Keys : left'[j] = IF j = k THEN TTL ELSE IF left[j] = 0 THEN Absent ELSE left[j]
  BY <1>1, <1>2 DEF Record
<1>4. /\ sinceMark' \in [Keys -> 0..TTL]
      /\ \A j \in Keys : sinceMark'[j] = IF j = k THEN 0 ELSE sinceMark[j]
  BY <1>1, <1>2 DEF Record
<1>5. MemoryAnswers'
  BY <1>1, <1>3, <1>4 DEF MemoryAnswers
<1>6. \A j \in Keys : left'[j] # 0
  BY <1>1, <1>3
<1>7. QED
  BY <1>3, <1>4, <1>5, <1>6

(* A check forgets the entry it finds expired, and nothing else.               *)
LEMMA Forgotten ==
  ASSUME StoreTypes, MemoryAnswers, NEW k \in Keys, Forget(k), UNCHANGED <<inRedis, sinceMark>>
  PROVE  left' \in [Keys -> {Absent} \cup 0..TTL] /\ MemoryAnswers'
<1>1. left \in [Keys -> {Absent} \cup 0..TTL]
  BY DEF StoreTypes
<1>2. /\ left' \in [Keys -> {Absent} \cup 0..TTL]
      /\ \A j \in Keys : left'[j] = left[j] \/ (left[j] = 0 /\ left'[j] = Absent)
  BY <1>1 DEF Forget
<1>3. QED
  BY <1>2 DEF MemoryAnswers

-----------------------------------------------------------------------------
(* A tick ages every instant by one, the key's and its entry's alike.           *)
LEMMA Ticked ==
  ASSUME StoreTypes, MemoryAnswers, Tick
  PROVE  StoreTypes' /\ MemoryAnswers'
<1>1. TTL \in Nat \ {0} /\ Absent \notin Nat /\ NoTTL \notin Nat
  BY TtlTruncated, ValueAssumption
<1>2. /\ left \in [Keys -> {Absent} \cup 0..TTL] /\ sinceMark \in [Keys -> 0..TTL]
      /\ members \subseteq Keys /\ setLeft \in {NoTTL} \cup 1..TTL
      /\ recorded \in [Keys -> Nat]
  BY DEF StoreTypes
<1>3. /\ left' \in [Keys -> {Absent} \cup 0..TTL]
      /\ \A k \in Keys : left'[k] = IF left[k] \in 1..TTL THEN left[k] - 1 ELSE left[k]
  BY <1>1, <1>2 DEF Tick, IsLive
<1>4. /\ sinceMark' \in [Keys -> 0..TTL]
      /\ \A k \in Keys : sinceMark'[k] = IF sinceMark[k] = TTL THEN TTL ELSE sinceMark[k] + 1
  BY <1>1, <1>2 DEF Tick
<1>5. members' \subseteq Keys /\ setLeft' \in {NoTTL} \cup 1..TTL
  BY <1>1, <1>2 DEF Tick
<1>6. recorded' \in [Keys -> Nat]
  BY <1>2 DEF Tick
<1>7. StoreTypes'
  BY <1>3, <1>4, <1>5, <1>6 DEF StoreTypes
<1>8. MemoryAnswers'
  <2>1. inRedis' = inRedis
    BY DEF Tick
  <2>2. SUFFICES ASSUME ~inRedis, NEW k \in Keys
                 PROVE  \/ left'[k] \in {Absent, 0} /\ sinceMark'[k] = TTL
                        \/ left'[k] \in 1..TTL /\ left'[k] = TTL - sinceMark'[k]
    BY <2>1 DEF MemoryAnswers
  <2>3. CASE left[k] \in {Absent, 0} /\ sinceMark[k] = TTL
    BY <1>1, <1>3, <1>4, <2>3
  <2>4. CASE left[k] \in 1..TTL /\ left[k] = TTL - sinceMark[k]
    <3>1. sinceMark[k] \in 0..(TTL - 1) /\ sinceMark'[k] = sinceMark[k] + 1
      BY <1>1, <1>2, <1>4, <2>4
    <3>2. left'[k] = left[k] - 1
      BY <1>3, <2>4
    <3>3. QED
      BY <1>1, <2>4, <3>1, <3>2
  <2>5. QED
    BY <2>2, <2>3, <2>4 DEF MemoryAnswers
<1>9. QED
  BY <1>7, <1>8

(* Telling a caller that a key is new, or making it known, counts it.           *)
LEMMA Counted ==
  ASSUME StoreTypes, NEW k \in Keys, ToldNew(k) \/ Known(k)
  PROVE  /\ recorded' \in [Keys -> Nat]
         /\ \A j \in Keys \ {k} : recorded'[j] = recorded[j]
         /\ ToldNew(k) => recorded'[k] = recorded[k] + 1
         /\ Known(k) => recorded'[k] = IF recorded[k] = 0 THEN 1 ELSE recorded[k]
BY DEF StoreTypes, ToldNew, Known

(* The key a handler was delivered is one of the keys.                         *)
LEMMA KeyOf ==
  ASSUME CallerTypes, NEW c \in Callers
  PROVE  key[c] \in Keys
BY DEF CallerTypes

-----------------------------------------------------------------------------
(* What each step does: it keeps the types, handlers at work and the dict's     *)
(* answers.                                                                  *)

Kept == CallerTypes /\ StoreTypes /\ AtWork /\ MemoryAnswers

(* A delivery leaves the stores alone.                                        *)
LEMMA DeliveryStep ==
  ASSUME Kept, NEW c \in Callers, NEW k \in Keys, NEW claimFirst \in BOOLEAN,
         \/ PassThrough(c, k, claimFirst)
         \/ broker_unavailable(c, k, claimFirst) \/ duplicate_delivery(c, k, claimFirst)
         \/ crash_before_ack(c, k, claimFirst) \/ slow_consumer(c, k, claimFirst)
  PROVE  /\ Kept' /\ UNCHANGED <<inRedis, store, interrupts>>
         /\ \A d \in Callers : pc'[d] = "pexpire" <=> pc[d] = "pexpire"
         /\ fires' = fires \/ (fires < MaxFires /\ fires' = fires + 1)
<1>0. /\ "call" \in PCs /\ "idle" \in PCs /\ "sleep" \in PCs
      /\ 0 \in 0..2 /\ 1 \in 0..2 /\ 2 \in 0..2 /\ 1 >= 1 /\ 2 >= 1
      /\ TRUE \in BOOLEAN /\ FALSE \in BOOLEAN
      /\ "call" # "pexpire" /\ "idle" # "pexpire" /\ "sleep" # "pexpire"
  BY DEF PCs
<1>1. UNCHANGED <<inRedis, store, interrupts>>
  BY DEF PassThrough, broker_unavailable, duplicate_delivery, crash_before_ack,
         slow_consumer, Fire
<1>2. StoreTypes' /\ (MemoryAnswers => MemoryAnswers')
  BY <1>1 DEF Kept, StoreTypes, MemoryAnswers, store
<1>3. /\ CallerTypes' /\ AtWork'
      /\ \A d \in Callers : pc'[d] = "pexpire" <=> pc[d] = "pexpire"
  <2>1. CASE PassThrough(c, k, claimFirst)
    BY <1>0, <2>1, Started, Zenon DEF PassThrough, Kept
  <2>2. CASE broker_unavailable(c, k, claimFirst)
    BY <1>0, <2>2, Started, Zenon DEF broker_unavailable, Fire, Kept
  <2>3. CASE duplicate_delivery(c, k, claimFirst)
    BY <1>0, <2>3, Started, Zenon DEF duplicate_delivery, Fire, Kept
  <2>4. CASE crash_before_ack(c, k, claimFirst)
    BY <1>0, <2>4, Started, Zenon DEF crash_before_ack, Fire, Kept
  <2>5. CASE slow_consumer(c, k, claimFirst)
    BY <1>0, <2>5, Started, Zenon DEF slow_consumer, Fire, Kept
  <2>6. QED
    BY <2>1, <2>2, <2>3, <2>4, <2>5
<1>4. fires' = fires \/ (fires < MaxFires /\ fires' = fires + 1)
  BY DEF PassThrough, broker_unavailable, duplicate_delivery, crash_before_ack,
         slow_consumer, Fire
<1>5. QED
  BY <1>1, <1>2, <1>3, <1>4 DEF Kept

(* A handler of the in-memory store, and the two waits of either store, leave   *)
(* the Redis set alone.                                                      *)
LEMMA MemoryStep ==
  ASSUME Kept, NEW c \in Callers,
         \/ Wakes(c) \/ Redelivered(c) \/ RedisIsProcessed(c)
         \/ MemoryMarkIfNew(c) \/ MemoryIsProcessed(c) \/ MemoryMarkProcessed(c)
  PROVE  /\ Kept' /\ UNCHANGED <<inRedis, members, setLeft, fires, interrupts>>
         /\ \A d \in Callers : pc'[d] = "pexpire" <=> pc[d] = "pexpire"
<1> DEFINE k == key[c]
<1>0. CallerTypes /\ StoreTypes /\ AtWork /\ MemoryAnswers /\ k \in Keys
  BY KeyOf DEF Kept
<1>1. UNCHANGED <<inRedis, members, setLeft, fires, interrupts>>
  BY DEF Wakes, Redelivered, RedisIsProcessed, MemoryMarkIfNew, MemoryIsProcessed,
         MemoryMarkProcessed, store
<1>2. /\ CallerTypes' /\ AtWork'
      /\ \A d \in Callers : pc'[d] = "pexpire" <=> pc[d] = "pexpire"
  <2>0. {"call", "mark"} \subseteq PCs
    BY DEF PCs
  <2>1. CASE Wakes(c)
    BY <1>0, <2>0, <2>1, Moved DEF Wakes, AtWork
  <2>2. CASE Redelivered(c)
    <3>1. /\ pc' \in [Callers -> PCs] /\ runs' \in [Callers -> 0..2]
          /\ \A d \in Callers : pc'[d] = IF d = c THEN "call" ELSE pc[d]
          /\ \A d \in Callers : runs'[d] = IF d = c THEN 1 ELSE runs[d]
      BY <1>0, <2>0, <2>2 DEF Redelivered, CallerTypes, Goto
    <3>2. dies' \in [Callers -> BOOLEAN]
      <4>1. dies \in [Callers -> BOOLEAN] /\ dies' = [dies EXCEPT ![c] = FALSE]
        BY <1>0, <2>2, Zenon DEF Redelivered, CallerTypes
      <4>2. QED
        BY <4>1
    <3>3. CallerTypes'
      BY <1>0, <2>2, <3>1, <3>2, Zenon DEF Redelivered, CallerTypes
    <3>4. QED
      BY <1>0, <2>2, <3>1, <3>3 DEF AtWork, Redelivered
  <2>3. CASE RedisIsProcessed(c)
    BY <1>0, <2>0, <2>3, Moved, Returned DEF RedisIsProcessed, AtWork
  <2>4. CASE MemoryMarkIfNew(c)
    BY <1>0, <2>4, Returned DEF MemoryMarkIfNew
  <2>5. CASE MemoryIsProcessed(c)
    BY <1>0, <2>0, <2>5, Moved, Returned DEF MemoryIsProcessed, AtWork
  <2>6. CASE MemoryMarkProcessed(c)
    BY <1>0, <2>6, Returned DEF MemoryMarkProcessed
  <2>7. QED
    BY <2>1, <2>2, <2>3, <2>4, <2>5, <2>6
<1>3. StoreTypes' /\ MemoryAnswers'
  <2>1. CASE Record(k) /\ ~inRedis /\ (ToldNew(k) \/ Known(k))
    BY <1>0, <1>1, <2>1, Recorded, Counted DEF StoreTypes
  <2>2. CASE Forget(k) /\ UNCHANGED <<sinceMark, recorded>>
    BY <1>0, <1>1, <2>2, Forgotten DEF StoreTypes
  <2>3. CASE UNCHANGED <<left, sinceMark, recorded>>
    BY <1>0, <1>1, <2>3 DEF StoreTypes, MemoryAnswers
  <2>4. QED
    BY <2>1, <2>2, <2>3 DEF Wakes, Redelivered, RedisIsProcessed, MemoryMarkIfNew,
         MemoryIsProcessed, MemoryMarkProcessed, store
<1>4. QED
  BY <1>1, <1>2, <1>3 DEF Kept

(* PEXPIRE NX gives the set a ttl, or deletes it.                               *)
LEMMA TtlSet ==
  ASSUME StoreTypes, SetTtlNx
  PROVE  /\ members' \subseteq Keys /\ setLeft' \in {NoTTL} \cup 1..TTL
         /\ members' # {} => setLeft' # NoTTL
BY TtlTruncated, ValueAssumption DEF SetTtlNx, StoreTypes

(* The commands of the Redis store leave the dict alone.                       *)
LEMMA RedisStep ==
  ASSUME Kept, NEW c \in Callers, Sadd(c) \/ PexpireNx(c) \/ Interrupted(c)
  PROVE  /\ Kept' /\ UNCHANGED <<inRedis, fires>>
         /\ \A d \in Callers \ {c} : pc'[d] = pc[d]
         /\ Sadd(c) => pc'[c] = "pexpire"
<1> DEFINE k == key[c]
<1>0. CallerTypes /\ StoreTypes /\ AtWork /\ MemoryAnswers /\ k \in Keys
  BY KeyOf DEF Kept
<1>1. UNCHANGED <<inRedis, left, sinceMark, fires>>
  BY DEF Sadd, PexpireNx, Interrupted
<1>2. /\ CallerTypes' /\ AtWork'
      /\ \A d \in Callers \ {c} : pc'[d] = pc[d]
      /\ Sadd(c) => pc'[c] = "pexpire"
  <2>0. {"pexpire", "unacked"} \subseteq PCs
    BY DEF PCs
  <2>1. CASE Sadd(c)
    BY <1>0, <2>0, <2>1, Moved DEF Sadd, AtWork
  <2>2. CASE PexpireNx(c)
    <3>1. ~Sadd(c)
      BY <2>2 DEF PexpireNx, Sadd
    <3>2. QED
      BY <1>0, <2>2, <3>1, Returned DEF PexpireNx
  <2>3. CASE Interrupted(c)
    <3>1. /\ CallerTypes' /\ AtWork' /\ pc'[c] = "unacked"
          /\ \A d \in Callers \ {c} : pc'[d] = pc[d]
      BY <1>0, <2>0, <2>3, Moved DEF Interrupted
    <3>2. Sadd(c) => pc'[c] = "pexpire"
      BY <1>0, <2>0, Moved DEF Sadd, AtWork
    <3>3. QED
      BY <3>1, <3>2
  <2>4. QED
    BY <2>1, <2>2, <2>3
<1>3. StoreTypes'
  <2>1. CASE Sadd(c)
    BY <1>0, <1>1, <2>1, Counted DEF Sadd, StoreTypes
  <2>2. CASE PexpireNx(c)
    BY <1>0, <1>1, <2>2, TtlSet DEF PexpireNx, StoreTypes
  <2>3. CASE Interrupted(c)
    BY <1>0, <1>1, <2>3, TtlSet DEF Interrupted, StoreTypes
  <2>4. QED
    BY <2>1, <2>2, <2>3
<1>4. MemoryAnswers'
  BY <1>0, <1>1 DEF MemoryAnswers
<1>5. QED
  BY <1>1, <1>2, <1>3, <1>4 DEF Kept

-----------------------------------------------------------------------------
LEMMA InitInv == Init => Inv
<1>1. SUFFICES ASSUME Init PROVE Inv
  OBVIOUS
<1>2. TTL \in Nat \ {0} /\ MaxFires \in Nat /\ MaxInterrupts \in Nat
  BY TtlTruncated, BoundAssumption
<1>3. /\ inRedis \in BOOLEAN /\ fires \in 0..MaxFires /\ interrupts \in 0..MaxInterrupts
  BY <1>1, <1>2 DEF Init
<1>4. CallerTypes
  <2>1. (CHOOSE k \in Keys : TRUE) \in Keys
    BY KeysAssumption, Zenon
  <2>2. pc \in [Callers -> PCs] /\ key \in [Callers -> Keys] /\ runs \in [Callers -> 0..2]
    BY <1>1, <2>1 DEF Init, PCs
  <2>3. claims \in [Callers -> BOOLEAN] /\ dies \in [Callers -> BOOLEAN]
    BY <1>1, Zenon DEF Init
  <2>4. QED
    BY <2>2, <2>3 DEF CallerTypes
<1>5. StoreTypes
  BY <1>1, <1>2 DEF Init, StoreTypes
<1>6. AtWork /\ MemoryAnswers
  BY <1>1 DEF Init, AtWork, MemoryAnswers
<1>7. QED
  BY <1>3, <1>4, <1>5, <1>6, TypesSplit DEF Inv

LEMMA NextInv ==
  ASSUME Inv, Next
  PROVE  Inv'
<1>0. /\ inRedis \in BOOLEAN /\ fires \in 0..MaxFires /\ interrupts \in 0..MaxInterrupts
      /\ Kept
  BY TypesSplit DEF Inv, Kept
<1>1. SUFFICES /\ inRedis' \in BOOLEAN /\ fires' \in 0..MaxFires /\ interrupts' \in 0..MaxInterrupts
               /\ Kept'
  BY Zenon DEF Inv, Kept, TypeOK, CallerTypes, StoreTypes, PCs
<1>2. ASSUME NEW c \in Callers, NEW k \in Keys, NEW claimFirst \in BOOLEAN,
             \/ PassThrough(c, k, claimFirst)
             \/ broker_unavailable(c, k, claimFirst) \/ duplicate_delivery(c, k, claimFirst)
             \/ crash_before_ack(c, k, claimFirst) \/ slow_consumer(c, k, claimFirst)
      PROVE  /\ inRedis' \in BOOLEAN /\ fires' \in 0..MaxFires /\ interrupts' \in 0..MaxInterrupts
             /\ Kept'
  <2>1. /\ Kept' /\ UNCHANGED <<inRedis, store, interrupts>>
        /\ \A d \in Callers : pc'[d] = "pexpire" <=> pc[d] = "pexpire"
        /\ fires' = fires \/ (fires < MaxFires /\ fires' = fires + 1)
    BY <1>0, <1>2, DeliveryStep
  <2>2. fires' \in 0..MaxFires
    BY <1>0, <2>1, BoundAssumption
  <2>3. QED
    BY <1>0, <2>1, <2>2
<1>3. ASSUME NEW c \in Callers,
             \/ Wakes(c) \/ Redelivered(c) \/ RedisIsProcessed(c)
             \/ MemoryMarkIfNew(c) \/ MemoryIsProcessed(c) \/ MemoryMarkProcessed(c)
      PROVE  /\ inRedis' \in BOOLEAN /\ fires' \in 0..MaxFires /\ interrupts' \in 0..MaxInterrupts
             /\ Kept'
  <2>1. /\ Kept' /\ UNCHANGED <<inRedis, members, setLeft, fires, interrupts>>
        /\ \A d \in Callers : pc'[d] = "pexpire" <=> pc[d] = "pexpire"
    BY <1>0, <1>3, MemoryStep
  <2>2. QED
    BY <1>0, <2>1
<1>4. ASSUME NEW c \in Callers, Sadd(c) \/ PexpireNx(c) \/ Interrupted(c)
      PROVE  /\ inRedis' \in BOOLEAN /\ fires' \in 0..MaxFires /\ interrupts' \in 0..MaxInterrupts
             /\ Kept'
  <2>1. /\ Kept' /\ UNCHANGED <<inRedis, fires>>
        /\ \A d \in Callers \ {c} : pc'[d] = pc[d]
        /\ Sadd(c) => pc'[c] = "pexpire"
    BY <1>0, <1>4, RedisStep
  <2>2. interrupts' \in 0..MaxInterrupts
    BY <1>0, <1>4, BoundAssumption DEF Sadd, PexpireNx, Interrupted
  <2>3. QED
    BY <1>0, <2>1, <2>2
<1>5. CASE Tick
  <2>1. StoreTypes' /\ MemoryAnswers'
    BY <1>0, <1>5, Ticked DEF Kept
  <2>2. CallerTypes' /\ AtWork' /\ UNCHANGED <<inRedis, fires, interrupts>>
    BY <1>0, <1>5 DEF Tick, caller, Kept, CallerTypes, AtWork
  <2>3. QED
    BY <1>0, <2>1, <2>2 DEF Kept
<1>6. QED
  BY <1>2, <1>3, <1>4, <1>5 DEF Next, Handler

LEMMA StutterInv ==
  ASSUME Inv, UNCHANGED vars
  PROVE  Inv'
BY DEF Inv, TypeOK, AtWork, MemoryAnswers, vars

(* Whatever callers share the store and whichever of them are chaotic, late     *)
(* or broken off, every variable keeps the values its code can give it, and the  *)
(* dict's answers stay those of its clock.                                     *)
THEOREM TypeCorrect == Spec => []TypeOK
<1>1. Inv /\ [Next]_vars => Inv'
  BY NextInv, StutterInv
<1>2. Inv => TypeOK
  BY DEF Inv
<1>3. QED
  BY <1>1, <1>2, InitInv, PTL DEF Spec

-----------------------------------------------------------------------------
(* One claim per window.                                                    *)

(* A claim in memory: a live key is not claimed, and one that is due was        *)
(* claimed by nobody since.                                                  *)
LEMMA MemoryClaims ==
  ASSUME Kept, ClaimsRemembered, NEW c \in Callers,
         \/ Wakes(c) \/ Redelivered(c) \/ RedisIsProcessed(c)
         \/ MemoryMarkIfNew(c) \/ MemoryIsProcessed(c) \/ MemoryMarkProcessed(c)
  PROVE  ClaimsRemembered'
<1> DEFINE k == key[c]
<1>0. CallerTypes /\ StoreTypes /\ MemoryAnswers /\ k \in Keys /\ TTL \in Nat \ {0}
      /\ recorded \in [Keys -> Nat]
  BY KeyOf, TtlTruncated DEF Kept, StoreTypes
<1>1. UNCHANGED <<inRedis, members>>
  BY MemoryStep
<1>2. CASE /\ ~inRedis /\ Record(k) /\ (ToldNew(k) \/ Known(k))
           /\ ToldNew(k) => recorded[k] = 0
  <2>1. /\ sinceMark'[k] = 0 /\ \A j \in Keys \ {k} : sinceMark'[j] = sinceMark[j]
    BY <1>0, <1>1, <1>2, Recorded
  <2>2. /\ \A j \in Keys \ {k} : recorded'[j] = recorded[j]
        /\ recorded'[k] =< 1
    BY <1>0, <1>2, Counted DEF ClaimsRemembered
  <2>3. QED
    BY <1>0, <1>1, <1>2, <2>1, <2>2 DEF ClaimsRemembered
<1>3. CASE UNCHANGED <<sinceMark, recorded>>
  BY <1>1, <1>3 DEF ClaimsRemembered
<1>4. CASE MemoryMarkIfNew(c) /\ ~IsLive(k)
  <2>1. left[k] \in {Absent, 0}
    BY <1>0, <1>4 DEF IsLive, StoreTypes
  <2>2. sinceMark[k] = TTL /\ ~inRedis
    BY <1>0, <1>4, <2>1, ValueAssumption DEF MemoryMarkIfNew, MemoryAnswers
  <2>3. recorded[k] = 0
    BY <1>0, <2>2 DEF ClaimsRemembered
  <2>4. QED
    BY <1>2, <1>4, <2>2, <2>3 DEF MemoryMarkIfNew
<1>5. CASE MemoryMarkProcessed(c)
  <2>1. ToldNew(k) => recorded[k] = 0
    <3>1. Known(k)
      BY <1>5 DEF MemoryMarkProcessed
    <3>2. SUFFICES ASSUME ToldNew(k), recorded[k] # 0 PROVE FALSE
      OBVIOUS
    <3>3. QED
      BY <1>0, <3>1, <3>2, Counted
  <2>2. QED
    BY <1>2, <1>5, <2>1 DEF MemoryMarkProcessed
<1>6. QED
  BY <1>3, <1>4, <1>5 DEF Wakes, Redelivered, RedisIsProcessed, MemoryMarkIfNew,
     MemoryIsProcessed, store

(* A claim in Redis: SADD tells one caller that a key is new, until the set is  *)
(* gone; a ttl of a millisecond at least never deletes it at once.              *)
LEMMA RedisClaims ==
  ASSUME Kept, ClaimsRemembered, TTL >= Milli,
         NEW c \in Callers, Sadd(c) \/ PexpireNx(c) \/ Interrupted(c)
  PROVE  ClaimsRemembered'
<1> DEFINE k == key[c]
<1>0. StoreTypes /\ k \in Keys /\ recorded \in [Keys -> Nat]
  BY KeyOf DEF Kept, StoreTypes
<1>1. CASE Sadd(c)
  <2>1. /\ members' = members \cup {k} /\ UNCHANGED <<inRedis, sinceMark>> /\ inRedis
    BY <1>1 DEF Sadd
  <2>2. CASE ToldNew(k) /\ k \notin members
    BY <1>0, <2>1, <2>2, Counted DEF ClaimsRemembered
  <2>3. CASE Known(k)
    BY <1>0, <2>1, <2>3, Counted DEF ClaimsRemembered
  <2>4. CASE UNCHANGED recorded
    BY <2>1, <2>4 DEF ClaimsRemembered
  <2>5. QED
    BY <1>1, <2>2, <2>3, <2>4 DEF Sadd
<1>2. CASE PexpireNx(c)
  <2>1. RedisTtl # 0
    BY TtlTruncated
  <2>2. UNCHANGED <<inRedis, members, sinceMark, recorded>>
    BY <1>2, <2>1 DEF PexpireNx, SetTtlNx
  <2>3. QED
    BY <2>2 DEF ClaimsRemembered
<1>3. CASE Interrupted(c)
  <2>1. RedisTtl # 0
    BY TtlTruncated
  <2>2. UNCHANGED <<inRedis, sinceMark, recorded>> /\ inRedis /\ members \subseteq members'
    BY <1>3, <2>1 DEF Interrupted, SetTtlNx
  <2>3. QED
    BY <2>2 DEF ClaimsRemembered
<1>4. QED
  BY <1>1, <1>2, <1>3

(* A tick that makes a key due, or ends the set's window, forgets its claims.    *)
LEMMA TickClaims ==
  ASSUME StoreTypes, ClaimsRemembered, Tick, inRedis \in BOOLEAN
  PROVE  ClaimsRemembered'
<1>1. recorded \in [Keys -> Nat]
  BY DEF StoreTypes
<1>2. /\ inRedis' = inRedis
      /\ members' = IF setLeft = 1 THEN {} ELSE members
      /\ \A k \in Keys : recorded'[k] =
           IF (inRedis /\ setLeft = 1) \/ (~inRedis /\ sinceMark'[k] = TTL) THEN 0 ELSE recorded[k]
  BY DEF Tick
<1>3. QED
  BY <1>1, <1>2 DEF ClaimsRemembered

LEMMA NextClaims ==
  ASSUME Inv, ClaimsRemembered, Next, TTL >= Milli
  PROVE  ClaimsRemembered'
<1>0. Kept /\ inRedis \in BOOLEAN
  BY TypesSplit DEF Inv, Kept
<1>1. ASSUME NEW c \in Callers, NEW k \in Keys, NEW claimFirst \in BOOLEAN,
             \/ PassThrough(c, k, claimFirst)
             \/ broker_unavailable(c, k, claimFirst) \/ duplicate_delivery(c, k, claimFirst)
             \/ crash_before_ack(c, k, claimFirst) \/ slow_consumer(c, k, claimFirst)
      PROVE  ClaimsRemembered'
  <2>1. UNCHANGED <<inRedis, store, interrupts>>
    BY <1>0, <1>1, DeliveryStep
  <2>2. QED
    BY <2>1 DEF store, ClaimsRemembered
<1>2. ASSUME NEW c \in Callers, Handler(c) \/ Interrupted(c) PROVE ClaimsRemembered'
  BY <1>0, <1>2, MemoryClaims, RedisClaims DEF Handler
<1>3. CASE Tick
  BY <1>0, <1>3, TickClaims DEF Kept
<1>4. QED
  BY <1>1, <1>2, <1>3 DEF Next

(* "two tasks racing for the same key cannot both win the claim"               *)
(* (idempotency.py:94): within a window one caller at most is told a key is new, *)
(* for every store whose ttl is a millisecond at least.  Below that the claim    *)
(* fails in Redis: PEXPIRE gets 0 and deletes the set the claim was just put in. *)
THEOREM OneClaim ==
  ASSUME TTL >= Milli
  PROVE  Spec => []OneClaimPerWindow
<1>1. Init => ClaimsRemembered
  BY DEF Init, ClaimsRemembered
<1>2. Inv /\ [Next]_vars => Inv'
  BY NextInv, StutterInv
<1>3. Inv /\ ClaimsRemembered /\ [Next]_vars => ClaimsRemembered'
  <2>1. ClaimsRemembered /\ UNCHANGED vars => ClaimsRemembered'
    BY DEF ClaimsRemembered, vars
  <2>2. QED
    BY <2>1, NextClaims
<1>4. Inv /\ ClaimsRemembered => OneClaimPerWindow
  BY DEF Inv, ClaimsRemembered, OneClaimPerWindow
<1>5. QED
  BY <1>1, <1>2, <1>3, <1>4, InitInv, PTL DEF Spec

-----------------------------------------------------------------------------
(* The dict and the set.                                                    *)

(* The dict answers for the ttl, and a mark sweeps what is expired.             *)
LEMMA DictStep ==
  ASSUME Inv, [Next]_vars, ~inRedis
  PROVE  /\ \A k \in Keys : IsLive(k) <=> sinceMark[k] < TTL
         /\ \A k \in Keys : sinceMark'[k] < sinceMark[k] => \A j \in Keys : left'[j] # 0
<1>0. Kept /\ StoreTypes /\ MemoryAnswers /\ CallerTypes /\ TTL \in Nat \ {0}
      /\ sinceMark \in [Keys -> 0..TTL]
  BY TypesSplit, TtlTruncated DEF Inv, Kept, StoreTypes
<1>1. \A k \in Keys : IsLive(k) <=> sinceMark[k] < TTL
  BY <1>0, ValueAssumption DEF IsLive, MemoryAnswers, StoreTypes
<1>2. ASSUME NEW k \in Keys, sinceMark'[k] < sinceMark[k], NEW j \in Keys
      PROVE  left'[j] # 0
  <2>1. CASE Tick
    <3>1. sinceMark'[k] = IF sinceMark[k] = TTL THEN TTL ELSE sinceMark[k] + 1
      BY <2>1 DEF Tick
    <3>2. QED
      BY <1>0, <1>2, <3>1
  <2>2. CASE UNCHANGED sinceMark
    BY <1>0, <1>2, <2>2
  <2>3. CASE \E i \in Keys : Record(i) /\ inRedis' = inRedis
    BY <1>0, <2>3, Recorded
  <2>4. ASSUME NEW c \in Callers, NEW i \in Keys, NEW claimFirst \in BOOLEAN,
               \/ PassThrough(c, i, claimFirst)
               \/ broker_unavailable(c, i, claimFirst) \/ duplicate_delivery(c, i, claimFirst)
               \/ crash_before_ack(c, i, claimFirst) \/ slow_consumer(c, i, claimFirst)
        PROVE  UNCHANGED sinceMark
    BY <1>0, <2>4, DeliveryStep DEF store
  <2>5. ASSUME NEW c \in Callers, Handler(c) \/ Interrupted(c)
        PROVE  UNCHANGED sinceMark \/ \E i \in Keys : Record(i) /\ inRedis' = inRedis
    <3>1. key[c] \in Keys
      BY <1>0, KeyOf
    <3>2. QED
      BY <2>5, <3>1 DEF Handler, Wakes, Redelivered, RedisIsProcessed, MemoryMarkIfNew,
         MemoryIsProcessed, MemoryMarkProcessed, Sadd, PexpireNx, Interrupted, store
  <2>6. CASE UNCHANGED vars
    BY <2>2, <2>6 DEF vars
  <2>7. QED
    BY <2>1, <2>2, <2>3, <2>4, <2>5, <2>6 DEF Next
<1>3. QED
  BY <1>1, <1>2

(* "the dict cannot grow past the number of keys seen within one TTL window"    *)
(* (idempotency.py:88), for every ttl and every number of keys.                 *)
THEOREM DictIsOneWindow == Spec => DictHoldsOneWindow
<1>1. Inv /\ [Next]_vars => Inv'
  BY NextInv, StutterInv
<1>2. Inv /\ [Next]_vars =>
        [~inRedis =>
           /\ \A k \in Keys : IsLive(k) <=> sinceMark[k] < TTL
           /\ \A k \in Keys : sinceMark'[k] < sinceMark[k] => \A j \in Keys : left'[j] # 0]_vars
  BY DictStep
<1>3. QED
  BY <1>1, <1>2, InitInv, PTL DEF Spec, DictHoldsOneWindow

(* Only the writers and the clock touch the Redis set: any other step leaves it,   *)
(* and the writers on their way to PEXPIRE, as they are.                          *)
LEMMA OthersSpareSet ==
  ASSUME Inv, [Next]_vars
  PROVE  \/ \E c \in Callers : Sadd(c) \/ PexpireNx(c) \/ Interrupted(c)
         \/ Tick
         \/ /\ UNCHANGED <<members, setLeft>>
            /\ \A d \in Callers : pc'[d] = "pexpire" <=> pc[d] = "pexpire"
<1>0. Kept
  BY TypesSplit DEF Inv, Kept
<1>1. ASSUME NEW c \in Callers, NEW i \in Keys, NEW claimFirst \in BOOLEAN,
             \/ PassThrough(c, i, claimFirst)
             \/ broker_unavailable(c, i, claimFirst) \/ duplicate_delivery(c, i, claimFirst)
             \/ crash_before_ack(c, i, claimFirst) \/ slow_consumer(c, i, claimFirst)
      PROVE  /\ UNCHANGED <<members, setLeft>>
             /\ \A d \in Callers : pc'[d] = "pexpire" <=> pc[d] = "pexpire"
  BY <1>0, <1>1, DeliveryStep DEF store
<1>2. ASSUME NEW c \in Callers,
             \/ Wakes(c) \/ Redelivered(c) \/ RedisIsProcessed(c)
             \/ MemoryMarkIfNew(c) \/ MemoryIsProcessed(c) \/ MemoryMarkProcessed(c)
      PROVE  /\ UNCHANGED <<members, setLeft>>
             /\ \A d \in Callers : pc'[d] = "pexpire" <=> pc[d] = "pexpire"
  BY <1>0, <1>2, MemoryStep
<1>3. CASE UNCHANGED vars
  BY <1>3 DEF vars
<1>4. QED
  BY <1>1, <1>2, <1>3 DEF Next, Handler

(* A set that has a ttl, or a writer about to set one, keeps it through any step   *)
(* that breaks off no command.                                                 *)
LEMMA LeakStep ==
  ASSUME Inv, [Next]_vars, ~Leaked, Leaked'
  PROVE  interrupts' > interrupts
<1>0. Kept /\ StoreTypes /\ interrupts \in Nat
  BY TypesSplit, BoundAssumption DEF Inv, Kept
<1>1. members' # {} /\ setLeft' = NoTTL /\ \A d \in Callers : pc'[d] # "pexpire"
  BY DEF Leaked
<1>2. ASSUME NEW c \in Callers, Sadd(c) PROVE FALSE
  BY <1>0, <1>1, <1>2, RedisStep
<1>3. ASSUME NEW c \in Callers, PexpireNx(c) PROVE FALSE
  BY <1>0, <1>1, <1>3, TtlSet DEF PexpireNx
<1>4. ASSUME NEW c \in Callers, Interrupted(c) PROVE interrupts' > interrupts
  BY <1>0, <1>4 DEF Interrupted
<1>5. CASE Tick
  <2>1. UNCHANGED pc
    BY <1>5 DEF Tick, caller
  <2>2. setLeft # 1
    BY <1>1, <1>5 DEF Tick
  <2>3. members' = members /\ setLeft = NoTTL
    <3>1. members' = members
      BY <1>5, <2>2 DEF Tick
    <3>2. ASSUME setLeft # NoTTL PROVE FALSE
      <4>1. setLeft \in 1..TTL /\ setLeft' = setLeft - 1
        BY <1>0, <1>5, <2>2, <3>2 DEF StoreTypes, Tick
      <4>2. setLeft' \in Nat
        BY <4>1, TtlTruncated
      <4>3. QED
        BY <1>1, <4>2, ValueAssumption
    <3>3. QED
      BY <3>1, <3>2
  <2>4. QED
    BY <1>1, <2>1, <2>3 DEF Leaked
<1>6. CASE /\ UNCHANGED <<members, setLeft>>
           /\ \A d \in Callers : pc'[d] = "pexpire" <=> pc[d] = "pexpire"
  BY <1>1, <1>6 DEF Leaked
<1>7. QED
  BY <1>2, <1>3, <1>4, <1>5, <1>6, OthersSpareSet

(* A writer that completes PEXPIRE leaves no set without a ttl.                 *)
LEMMA WriterBounds ==
  ASSUME Inv, [Next]_vars, NEW c \in Callers, pc[c] = "pexpire", pc'[c] # "pexpire",
         interrupts' = interrupts, members' # {}
  PROVE  setLeft' # NoTTL
<1>0. Kept /\ StoreTypes /\ interrupts \in Nat
  BY TypesSplit, BoundAssumption DEF Inv, Kept
<1>1. ASSUME NEW d \in Callers, Sadd(d) \/ PexpireNx(d) \/ Interrupted(d)
      PROVE  PexpireNx(c)
  <2>1. d = c /\ ~Sadd(d)
    BY <1>0, <1>1, RedisStep
  <2>2. ~Interrupted(d)
    BY <1>0 DEF Interrupted
  <2>3. QED
    BY <1>1, <2>1, <2>2
<1>2. ~Tick
  BY DEF Tick, caller
<1>3. PexpireNx(c)
  BY <1>1, <1>2, OthersSpareSet
<1>4. QED
  BY <1>0, <1>3, TtlSet DEF PexpireNx

(* "Retention is bounded" (idempotency.py:13), for every number of writers and  *)
(* every ttl: no schedule of SADDs and PEXPIREs leaves a set that nothing will   *)
(* expire, only one of these commands that raises, is cancelled or dies, and      *)
(* whoever completes next repairs it.                                          *)
THEOREM UnboundedOnlyByInterruption == Spec => UnboundedNeedsInterruption
<1>1. Inv /\ [Next]_vars => Inv'
  BY NextInv, StutterInv
<1>2. Inv /\ [Next]_vars =>
        [/\ ~Leaked /\ Leaked' => interrupts' > interrupts
         /\ \A c \in Callers :
              (/\ pc[c] = "pexpire" /\ pc'[c] # "pexpire"
               /\ interrupts' = interrupts /\ members' # {}) => setLeft' # NoTTL]_vars
  BY LeakStep, WriterBounds
<1>3. QED
  BY <1>1, <1>2, InitInv, PTL DEF Spec, UnboundedNeedsInterruption

-----------------------------------------------------------------------------
(* Bench.                                                                   *)

Failed == {w \in Workers : at[w] = "failed"}

(* A bench on its way to a result.                                           *)
Passing == phase = "final" \/ (phase = "stopping" /\ ~error) \/ phase = "returned"

(* An operation admitted is recorded, in flight or failed.                     *)
WindowCounts ==
  /\ ~measuring => started =< Warmup
  /\ measuring /\ ~timed => started =< Ops
  /\ phase \in {"warmup", "measure"} =>
       started = latencies + Cardinality(InFlight) + Cardinality(Failed)

(* A worker leaves a count window when it is full, and a result is for workers   *)
(* that all left it and a consumer that stopped when told to.                     *)
WindowFull ==
  /\ phase = "measure" \/ Passing => measuring
  /\ measuring /\ ~timed => \A w \in Workers : at[w] = "done" => started >= Ops
  /\ Passing => started = latencies /\ \A w \in Workers : at[w] = "done"
  /\ phase = "returned" => consumer = "finished"

(* The sampler runs in the measured window only, and a result has its closing    *)
(* reading and a sampler that did not raise.                                   *)
SamplingWindow ==
  /\ sampler = "on" => phase = "measure"
  /\ Passing => sampler = "off"
  /\ "warmup" \notin samples
  /\ (phase = "stopping" /\ ~error) \/ phase = "returned" => "final" \in samples

(* A payment is one worker's, and nobody knows of it before it is published.     *)
Untouched(p) == p \notin stream /\ charged[p] = 0 /\ dlq[p] = 0 /\ attempts[p] = 0
OnePayer ==
  /\ \A v, w \in Workers : v # w /\ op[v] = op[w] => op[v] = 0
  /\ \A w \in Workers : at[w] \in {"publish", "await"} => op[w] # 0
Unpublished ==
  /\ \A p \in Payments : p > payments => Untouched(p)
  /\ \A w \in Workers : at[w] = "publish" => Untouched(op[w])

(* A future resolves only for a payment that is charged or rejected for good,     *)
(* which is never both, and happens once; a payment charged that is still on the  *)
(* stream is in the consumer's hands.                                         *)
Settlement ==
  /\ \A p \in Payments :
       future[p] = "resolved" => charged[p] = 1 \/ dlq[p] = 1 \/ p \in deadLettering
  /\ \A p \in Payments :
       /\ charged[p] \in 0..1 /\ dlq[p] \in 0..1
       /\ charged[p] = 1 => ~Poison(p)
       /\ dlq[p] = 1 => Poison(p)
  /\ \A p \in deadLettering : Poison(p)
  /\ settling = {} \/ deadLettering = {}
  /\ \A p \in stream : dlq[p] = 0 /\ (charged[p] = 1 => p \in settling)
  /\ \A p \in stream : attempts[p] = MaxAttempts => p \in deadLettering
  /\ consumer = "finished" => EmptyHanded

(* A payment that is not resolved has a worker that did not get past it.         *)
Unresolved ==
  \A p \in 1..payments :
    \/ future[p] = "resolved"
    \/ \E w \in Workers :
         op[w] = p /\ at[w] \in {"publish", "await", "failed", "cancelled"}

(* The parts of BenchTypeOK.                                                      *)
FlagTypes ==
  /\ guarded \in BOOLEAN /\ timed \in BOOLEAN /\ measuring \in BOOLEAN /\ elapsed \in BOOLEAN
  /\ phase \in {"warmup", "measure", "final", "stopping", "raised", "returned"}
  /\ error \in BOOLEAN /\ failure \in BOOLEAN /\ stop \in BOOLEAN
  /\ consumer \in {"running", "dead", "finished"}
WorkTypes ==
  /\ started \in Nat /\ latencies \in Nat /\ payments \in 0..MaxPayments
  /\ at \in [Workers -> {"admit", "publish", "await", "done", "failed", "cancelled"}]
  /\ op \in [Workers -> 0..payments]
PaymentTypes ==
  /\ future \in [Payments -> {"none", "pending", "resolved", "failed"}]
  /\ stream \subseteq Payments /\ attempts \in [Payments -> 0..MaxAttempts]
  /\ settling \subseteq stream /\ deadLettering \subseteq stream
  /\ charged \in [Payments -> Nat] /\ dlq \in [Payments -> Nat]
SamplerTypes ==
  sampler \in {"off", "on", "failed"} /\ samples \subseteq {"warmup", "measure", "final"}
Types == FlagTypes /\ WorkTypes /\ PaymentTypes /\ SamplerTypes

BenchInv ==
  /\ Types /\ WindowCounts /\ WindowFull /\ SamplingWindow
  /\ OnePayer /\ Unpublished /\ Settlement /\ Unresolved

-----------------------------------------------------------------------------
LEMMA TypesGiveTypeOK == Types => BenchTypeOK
BY DEF Types, FlagTypes, WorkTypes, PaymentTypes, SamplerTypes, BenchTypeOK

LEMMA PaymentsAssumed ==
  /\ MaxPayments \in Nat /\ Payments = 1..MaxPayments
  /\ Warmup \in Nat \ {0} /\ Ops \in Nat \ {0} /\ MaxAttempts \in Nat \ {0}
BY WindowAssumption, KnobAssumption DEF MaxPayments, Payments, ValidWindow

(* A worker's payment is one of the bench's.                                   *)
LEMMA OpIsPayment ==
  ASSUME BenchInv, NEW w \in Workers, at[w] \in {"publish", "await"}
  PROVE  op[w] \in Payments /\ op[w] \in 1..payments
<1>1. op[w] \in 0..payments /\ payments \in 0..MaxPayments /\ op[w] # 0
  BY DEF BenchInv, Types, WorkTypes, OnePayer
<1>2. QED
  BY <1>1, PaymentsAssumed

(* A handler that may still fail a payment has attempts of its budget left.       *)
LEMMA BudgetLeft ==
  ASSUME BenchInv, NEW p \in Payments, HandlerRejects(p)
  PROVE  attempts[p] \in Nat /\ attempts[p] + 1 \in 0..MaxAttempts
<1>1. attempts[p] \in 0..MaxAttempts /\ attempts[p] # MaxAttempts
  BY DEF HandlerRejects, EmptyHanded, BenchInv, Types, PaymentTypes, Settlement
<1>2. QED
  BY <1>1, PaymentsAssumed

(* The variables keep their types.                                            *)
LEMMA FlagTypesStep ==
  ASSUME BenchInv, [BenchNext]_benchVars
  PROVE  FlagTypes'
<1>1. ASSUME NEW w \in Workers, Admit(w) PROVE FlagTypes'
  BY <1>1 DEF Admit, setup, BenchInv, Types, FlagTypes
<1>2. ASSUME NEW w \in Workers, WorkerDone(w) PROVE FlagTypes'
  BY <1>2 DEF WorkerDone, setup, BenchInv, Types, FlagTypes
<1>3. ASSUME NEW w \in Workers, Publish(w) PROVE FlagTypes'
  BY <1>3 DEF Publish, setup, BenchInv, Types, FlagTypes
<1>4. ASSUME NEW w \in Workers, PublishFails(w) PROVE FlagTypes'
  BY <1>4 DEF PublishFails, setup, BenchInv, Types, FlagTypes
<1>5. ASSUME NEW w \in Workers, Awaited(w) PROVE FlagTypes'
  BY <1>5 DEF Awaited, setup, BenchInv, Types, FlagTypes
<1>6. CASE DurationPasses
  BY <1>6 DEF DurationPasses, setup, BenchInv, Types, FlagTypes
<1>7. CASE StartMeasuring
  BY <1>7 DEF StartMeasuring, BenchInv, Types, FlagTypes
<1>8. CASE GatherRaises
  BY <1>8 DEF GatherRaises, setup, BenchInv, Types, FlagTypes
<1>9. CASE GatherReturns
  BY <1>9 DEF GatherReturns, setup, BenchInv, Types, FlagTypes
<1>10. CASE Summarise
  <2>1. error' \in BOOLEAN
    <3>1. NothingToSummarise \in BOOLEAN
      BY DEF NothingToSummarise
    <3>2. QED
      BY <1>10, <3>1 DEF Summarise
  <2>2. QED
    BY <1>10, <2>1 DEF Summarise, setup, BenchInv, Types, FlagTypes
<1>11. CASE BenchEnds
  BY <1>11 DEF BenchEnds, setup, BenchInv, Types, FlagTypes
<1>12. CASE Sample
  BY <1>12 DEF Sample, setup, BenchInv, Types, FlagTypes
<1>13. ASSUME NEW p \in Payments, HandlerCharges(p) PROVE FlagTypes'
  BY <1>13 DEF HandlerCharges, setup, BenchInv, Types, FlagTypes
<1>14. CASE MarkAndAck
  BY <1>14 DEF MarkAndAck, setup, BenchInv, Types, FlagTypes
<1>15. ASSUME NEW p \in Payments, HandlerRejects(p) PROVE FlagTypes'
  BY <1>15 DEF HandlerRejects, setup, BenchInv, Types, FlagTypes
<1>16. CASE DeadLetter
  BY <1>16 DEF DeadLetter, setup, BenchInv, Types, FlagTypes
<1>17. CASE ConsumerStops
  BY <1>17 DEF ConsumerStops, setup, BenchInv, Types, FlagTypes
<1>18. CASE ConsumerDies
  BY <1>18 DEF ConsumerDies, setup, BenchInv, Types, FlagTypes
<1>19. CASE ConsumerDiedCallback
  BY <1>19 DEF ConsumerDiedCallback, setup, BenchInv, Types, FlagTypes
<1>20. CASE UNCHANGED benchVars
  BY <1>20 DEF benchVars, BenchInv, Types, FlagTypes
<1>21. QED
  BY <1>1, <1>2, <1>3, <1>4, <1>5, <1>6, <1>7, <1>8, <1>9, <1>10, <1>11, <1>12, <1>13,
     <1>14, <1>15, <1>16, <1>17, <1>18, <1>19, <1>20 DEF BenchNext, Worker, Harness, Consumer

(* Readings are taken in the measured window and at its end.                    *)
LEMMA SamplerTypesStep ==
  ASSUME BenchInv, [BenchNext]_benchVars
  PROVE  SamplerTypes'
<1>1. ASSUME NEW w \in Workers, Admit(w) PROVE SamplerTypes'
  BY <1>1 DEF Admit, sampling, BenchInv, Types, SamplerTypes
<1>2. ASSUME NEW w \in Workers, WorkerDone(w) PROVE SamplerTypes'
  BY <1>2 DEF WorkerDone, sampling, BenchInv, Types, SamplerTypes
<1>3. ASSUME NEW w \in Workers, Publish(w) PROVE SamplerTypes'
  BY <1>3 DEF Publish, sampling, BenchInv, Types, SamplerTypes
<1>4. ASSUME NEW w \in Workers, PublishFails(w) PROVE SamplerTypes'
  BY <1>4 DEF PublishFails, sampling, BenchInv, Types, SamplerTypes
<1>5. ASSUME NEW w \in Workers, Awaited(w) PROVE SamplerTypes'
  BY <1>5 DEF Awaited, sampling, BenchInv, Types, SamplerTypes
<1>6. CASE DurationPasses
  BY <1>6 DEF DurationPasses, sampling, BenchInv, Types, SamplerTypes
<1>7. CASE StartMeasuring
  BY <1>7 DEF StartMeasuring, BenchInv, Types, SamplerTypes
<1>8. CASE GatherRaises
  BY <1>8 DEF GatherRaises, CancelSampler, BenchInv, Types, SamplerTypes
<1>9. CASE GatherReturns
  BY <1>9 DEF GatherReturns, CancelSampler, BenchInv, Types, SamplerTypes
<1>10. CASE Summarise
  BY <1>10 DEF Summarise, BenchInv, Types, SamplerTypes
<1>11. CASE BenchEnds
  BY <1>11 DEF BenchEnds, sampling, BenchInv, Types, SamplerTypes
<1>12. CASE Sample
  BY <1>12 DEF Sample, BenchInv, Types, SamplerTypes, SamplingWindow
<1>13. ASSUME NEW p \in Payments, HandlerCharges(p) PROVE SamplerTypes'
  BY <1>13 DEF HandlerCharges, sampling, BenchInv, Types, SamplerTypes
<1>14. CASE MarkAndAck
  BY <1>14 DEF MarkAndAck, sampling, BenchInv, Types, SamplerTypes
<1>15. ASSUME NEW p \in Payments, HandlerRejects(p) PROVE SamplerTypes'
  BY <1>15 DEF HandlerRejects, sampling, BenchInv, Types, SamplerTypes
<1>16. CASE DeadLetter
  BY <1>16 DEF DeadLetter, sampling, BenchInv, Types, SamplerTypes
<1>17. CASE ConsumerStops
  BY <1>17 DEF ConsumerStops, sampling, BenchInv, Types, SamplerTypes
<1>18. CASE ConsumerDies
  BY <1>18 DEF ConsumerDies, sampling, BenchInv, Types, SamplerTypes
<1>19. CASE ConsumerDiedCallback
  BY <1>19 DEF ConsumerDiedCallback, sampling, BenchInv, Types, SamplerTypes
<1>20. CASE UNCHANGED benchVars
  BY <1>20 DEF benchVars, BenchInv, Types, SamplerTypes
<1>21. QED
  BY <1>1, <1>2, <1>3, <1>4, <1>5, <1>6, <1>7, <1>8, <1>9, <1>10, <1>11, <1>12, <1>13,
     <1>14, <1>15, <1>16, <1>17, <1>18, <1>19, <1>20 DEF BenchNext, Worker, Harness, Consumer

(* A worker gets the next payment of the bench.                               *)
LEMMA WorkTypesStep ==
  ASSUME BenchInv, [BenchNext]_benchVars
  PROVE  WorkTypes'
<1>1. ASSUME NEW w \in Workers, Admit(w) PROVE WorkTypes'
  <2>1. payments \in 0..MaxPayments /\ payments < MaxPayments /\ started \in Nat
        /\ op \in [Workers -> 0..payments]
    BY <1>1 DEF Admit, BenchInv, Types, WorkTypes
  <2>2. payments + 1 \in 0..MaxPayments /\ op \in [Workers -> 0..(payments + 1)]
        /\ started + 1 \in Nat
    BY <2>1, PaymentsAssumed
  <2>3. QED
    BY <1>1, <2>2 DEF Admit, MoveTo, BenchInv, Types, WorkTypes
<1>2. ASSUME NEW w \in Workers, WorkerDone(w) PROVE WorkTypes'
  BY <1>2 DEF WorkerDone, window, MoveTo, BenchInv, Types, WorkTypes
<1>3. ASSUME NEW w \in Workers, Publish(w) PROVE WorkTypes'
  BY <1>3 DEF Publish, window, MoveTo, BenchInv, Types, WorkTypes
<1>4. ASSUME NEW w \in Workers, PublishFails(w) PROVE WorkTypes'
  BY <1>4 DEF PublishFails, window, MoveTo, BenchInv, Types, WorkTypes
<1>5. ASSUME NEW w \in Workers, Awaited(w) PROVE WorkTypes'
  BY <1>5 DEF Awaited, MoveTo, BenchInv, Types, WorkTypes
<1>6. CASE DurationPasses
  BY <1>6 DEF DurationPasses, window, BenchInv, Types, WorkTypes
<1>7. CASE StartMeasuring
  BY <1>7 DEF StartMeasuring, BenchInv, Types, WorkTypes
<1>8. CASE GatherRaises
  BY <1>8 DEF GatherRaises, window, BenchInv, Types, WorkTypes
<1>9. CASE GatherReturns
  BY <1>9 DEF GatherReturns, window, BenchInv, Types, WorkTypes
<1>10. CASE Summarise
  BY <1>10 DEF Summarise, window, BenchInv, Types, WorkTypes
<1>11. CASE BenchEnds
  BY <1>11 DEF BenchEnds, window, BenchInv, Types, WorkTypes
<1>12. CASE Sample
  BY <1>12 DEF Sample, window, BenchInv, Types, WorkTypes
<1>13. ASSUME NEW p \in Payments, HandlerCharges(p) PROVE WorkTypes'
  BY <1>13 DEF HandlerCharges, window, BenchInv, Types, WorkTypes
<1>14. CASE MarkAndAck
  BY <1>14 DEF MarkAndAck, window, BenchInv, Types, WorkTypes
<1>15. ASSUME NEW p \in Payments, HandlerRejects(p) PROVE WorkTypes'
  BY <1>15 DEF HandlerRejects, window, BenchInv, Types, WorkTypes
<1>16. CASE DeadLetter
  BY <1>16 DEF DeadLetter, window, BenchInv, Types, WorkTypes
<1>17. CASE ConsumerStops
  BY <1>17 DEF ConsumerStops, window, BenchInv, Types, WorkTypes
<1>18. CASE ConsumerDies
  BY <1>18 DEF ConsumerDies, window, BenchInv, Types, WorkTypes
<1>19. CASE ConsumerDiedCallback
  BY <1>19 DEF ConsumerDiedCallback, window, BenchInv, Types, WorkTypes
<1>20. CASE UNCHANGED benchVars
  BY <1>20 DEF benchVars, BenchInv, Types, WorkTypes
<1>21. QED
  BY <1>1, <1>2, <1>3, <1>4, <1>5, <1>6, <1>7, <1>8, <1>9, <1>10, <1>11, <1>12, <1>13,
     <1>14, <1>15, <1>16, <1>17, <1>18, <1>19, <1>20 DEF BenchNext, Worker, Harness, Consumer

(* The consumer handles what was published.                                    *)
LEMMA PaymentTypesStep ==
  ASSUME BenchInv, [BenchNext]_benchVars
  PROVE  PaymentTypes'
<1>1. ASSUME NEW w \in Workers, Admit(w) PROVE PaymentTypes'
  <2>1. UNCHANGED <<stream, attempts, settling, deadLettering, charged, dlq>>
    BY <1>1 DEF Admit, broker
  <2>2. future' \in [Payments -> {"none", "pending", "resolved", "failed"}]
    BY <1>1 DEF Admit, BenchInv, Types, PaymentTypes
  <2>3. QED
    BY <2>1, <2>2 DEF BenchInv, Types, PaymentTypes
<1>2. ASSUME NEW w \in Workers, WorkerDone(w) PROVE PaymentTypes'
  BY <1>2 DEF WorkerDone, broker, BenchInv, Types, PaymentTypes
<1>3. ASSUME NEW w \in Workers, Publish(w) PROVE PaymentTypes'
  <2>1. op[w] \in Payments
    BY <1>3, OpIsPayment DEF Publish
  <2>2. QED
    BY <1>3, <2>1 DEF Publish, BenchInv, Types, PaymentTypes
<1>4. ASSUME NEW w \in Workers, PublishFails(w) PROVE PaymentTypes'
  BY <1>4 DEF PublishFails, broker, BenchInv, Types, PaymentTypes
<1>5. ASSUME NEW w \in Workers, Awaited(w) PROVE PaymentTypes'
  BY <1>5 DEF Awaited, broker, BenchInv, Types, PaymentTypes
<1>6. CASE DurationPasses
  BY <1>6 DEF DurationPasses, broker, BenchInv, Types, PaymentTypes
<1>7. CASE StartMeasuring
  BY <1>7 DEF StartMeasuring, broker, BenchInv, Types, PaymentTypes
<1>8. CASE GatherRaises
  BY <1>8 DEF GatherRaises, broker, BenchInv, Types, PaymentTypes
<1>9. CASE GatherReturns
  BY <1>9 DEF GatherReturns, broker, BenchInv, Types, PaymentTypes
<1>10. CASE Summarise
  BY <1>10 DEF Summarise, broker, BenchInv, Types, PaymentTypes
<1>11. CASE BenchEnds
  BY <1>11 DEF BenchEnds, broker, BenchInv, Types, PaymentTypes
<1>12. CASE Sample
  BY <1>12 DEF Sample, broker, BenchInv, Types, PaymentTypes
<1>13. ASSUME NEW p \in Payments, HandlerCharges(p) PROVE PaymentTypes'
  <2>1. /\ p \in stream /\ deadLettering = {}
        /\ UNCHANGED <<stream, attempts, deadLettering, dlq>>
        /\ charged' = [charged EXCEPT ![p] = charged[p] + 1] /\ settling' = {p}
    BY <1>13 DEF HandlerCharges, EmptyHanded
  <2>2. future' \in [Payments -> {"none", "pending", "resolved", "failed"}]
    BY <1>13 DEF HandlerCharges, Resolve, BenchInv, Types, PaymentTypes
  <2>3. charged' \in [Payments -> Nat]
    BY <2>1 DEF BenchInv, Types, PaymentTypes
  <2>4. QED
    BY <2>1, <2>2, <2>3 DEF BenchInv, Types, PaymentTypes
<1>14. CASE MarkAndAck
  <2>1. /\ settling # {} /\ settling' = {} /\ stream' = stream \ settling
        /\ UNCHANGED <<future, attempts, deadLettering, charged, dlq>>
    BY <1>14 DEF MarkAndAck
  <2>2. deadLettering = {}
    BY <2>1 DEF BenchInv, Settlement
  <2>3. QED
    BY <2>1, <2>2 DEF BenchInv, Types, PaymentTypes
<1>15. ASSUME NEW p \in Payments, HandlerRejects(p) PROVE PaymentTypes'
  <2>1. UNCHANGED <<stream, settling, charged, dlq>>
        /\ attempts' = [attempts EXCEPT ![p] = attempts[p] + 1]
        /\ deadLettering' \in {deadLettering, {p}} /\ p \in stream
    BY <1>15 DEF HandlerRejects
  <2>2. future' \in [Payments -> {"none", "pending", "resolved", "failed"}]
    BY <1>15 DEF HandlerRejects, Resolve, BenchInv, Types, PaymentTypes
  <2>3. attempts' \in [Payments -> 0..MaxAttempts]
    BY <1>15, <2>1, BudgetLeft DEF BenchInv, Types, PaymentTypes
  <2>4. QED
    BY <2>1, <2>2, <2>3 DEF BenchInv, Types, PaymentTypes
<1>16. CASE DeadLetter
  <2>1. /\ deadLettering # {} /\ deadLettering' = {} /\ stream' = stream \ deadLettering
        /\ UNCHANGED <<future, attempts, settling, charged>>
    BY <1>16 DEF DeadLetter
  <2>2. settling = {}
    BY <2>1 DEF BenchInv, Settlement
  <2>3. dlq' \in [Payments -> Nat]
    <3>1. \A p \in Payments : dlq[p] \in Nat /\ dlq[p] + 1 \in Nat
      BY DEF BenchInv, Types, PaymentTypes
    <3>2. QED
      BY <1>16, <3>1 DEF DeadLetter
  <2>4. QED
    BY <2>1, <2>2, <2>3 DEF BenchInv, Types, PaymentTypes
<1>17. CASE ConsumerStops
  BY <1>17 DEF ConsumerStops, broker, BenchInv, Types, PaymentTypes
<1>18. CASE ConsumerDies
  BY <1>18 DEF ConsumerDies, broker, BenchInv, Types, PaymentTypes
<1>19. CASE ConsumerDiedCallback
  BY <1>19 DEF ConsumerDiedCallback, broker, BenchInv, Types, PaymentTypes
<1>20. CASE UNCHANGED benchVars
  BY <1>20 DEF benchVars, BenchInv, Types, PaymentTypes
<1>21. QED
  BY <1>1, <1>2, <1>3, <1>4, <1>5, <1>6, <1>7, <1>8, <1>9, <1>10, <1>11, <1>12, <1>13,
     <1>14, <1>15, <1>16, <1>17, <1>18, <1>19, <1>20 DEF BenchNext, Worker, Harness, Consumer

-----------------------------------------------------------------------------
(* Moving one worker moves it between the sets that are counted.                 *)
Flying(label) == IF label \in {"publish", "await"} THEN 1 ELSE 0
Failing(label) == IF label = "failed" THEN 1 ELSE 0

CountsMoved(w, label) ==
  /\ Cardinality(InFlight) \in Nat /\ Cardinality(Failed) \in Nat
  /\ Cardinality(InFlight') = Cardinality(InFlight) + Flying(label) - Flying(at[w])
  /\ Cardinality(Failed') = Cardinality(Failed) + Failing(label) - Failing(at[w])

LEMMA CountsOfMove ==
  ASSUME BenchInv, NEW w \in Workers, NEW label, at' = [at EXCEPT ![w] = label]
  PROVE  CountsMoved(w, label)
<1>1. IsFiniteSet(InFlight) /\ IsFiniteSet(Failed) /\ IsFiniteSet(InFlight \ {w})
      /\ IsFiniteSet(Failed \ {w})
  BY WorkerAssumption, FS_Subset DEF InFlight, Failed
<1>2. /\ Cardinality(InFlight) \in Nat /\ Cardinality(Failed) \in Nat
      /\ Cardinality(InFlight \ {w}) \in Nat /\ Cardinality(Failed \ {w}) \in Nat
  BY <1>1, FS_CardinalityType
<1>3. /\ Cardinality(InFlight) = Cardinality(InFlight \ {w}) + Flying(at[w])
      /\ Cardinality(Failed) = Cardinality(Failed \ {w}) + Failing(at[w])
  <2>1. at[w] \in {"publish", "await"} <=> w \in InFlight
    BY DEF InFlight
  <2>2. at[w] = "failed" <=> w \in Failed
    BY DEF Failed
  <2>3. /\ w \in InFlight => Cardinality(InFlight \ {w}) = Cardinality(InFlight) - 1
        /\ w \notin InFlight => InFlight \ {w} = InFlight
        /\ w \in Failed => Cardinality(Failed \ {w}) = Cardinality(Failed) - 1
        /\ w \notin Failed => Failed \ {w} = Failed
    BY <1>1, FS_RemoveElement
  <2>4. /\ Flying(at[w]) = IF w \in InFlight THEN 1 ELSE 0
        /\ Failing(at[w]) = IF w \in Failed THEN 1 ELSE 0
    BY <2>1, <2>2 DEF Flying, Failing
  <2>5. Cardinality(InFlight) = Cardinality(InFlight \ {w}) + Flying(at[w])
    <3>1. CASE w \in InFlight
      BY <1>2, <2>3, <2>4, <3>1
    <3>2. CASE w \notin InFlight
      <4>1. Cardinality(InFlight \ {w}) = Cardinality(InFlight)
        BY <2>3, <3>2
      <4>2. QED
        BY <1>2, <2>4, <3>2, <4>1
    <3>3. QED
      BY <3>1, <3>2
  <2>6. Cardinality(Failed) = Cardinality(Failed \ {w}) + Failing(at[w])
    <3>1. CASE w \in Failed
      BY <1>2, <2>3, <2>4, <3>1
    <3>2. CASE w \notin Failed
      <4>1. Cardinality(Failed \ {w}) = Cardinality(Failed)
        BY <2>3, <3>2
      <4>2. QED
        BY <1>2, <2>4, <3>2, <4>1
    <3>3. QED
      BY <3>1, <3>2
  <2>7. QED
    BY <2>5, <2>6
<1>4. /\ InFlight' = IF label \in {"publish", "await"} THEN (InFlight \ {w}) \cup {w}
                                                       ELSE InFlight \ {w}
      /\ Failed' = IF label = "failed" THEN (Failed \ {w}) \cup {w} ELSE Failed \ {w}
  BY DEF BenchInv, Types, WorkTypes, InFlight, Failed
<1>5. /\ Cardinality((InFlight \ {w}) \cup {w}) = Cardinality(InFlight \ {w}) + 1
      /\ Cardinality((Failed \ {w}) \cup {w}) = Cardinality(Failed \ {w}) + 1
  BY <1>1, FS_AddElement
<1>6. /\ Cardinality(InFlight') = Cardinality(InFlight \ {w}) + Flying(label)
      /\ Cardinality(Failed') = Cardinality(Failed \ {w}) + Failing(label)
  BY <1>2, <1>4, <1>5 DEF Flying, Failing
<1>7. QED
  <2>1. Flying(label) \in {0, 1} /\ Flying(at[w]) \in {0, 1}
        /\ Failing(label) \in {0, 1} /\ Failing(at[w]) \in {0, 1}
    BY DEF Flying, Failing
  <2>2. QED
    BY <1>2, <1>3, <1>6, <2>1 DEF CountsMoved

(* What a worker finds when it looks at its window.                              *)
LEMMA WindowLooked ==
  ASSUME BenchInv
  PROVE  /\ ~measuring => (is_done <=> started >= Warmup)
         /\ measuring /\ ~timed => (is_done <=> started >= Ops)
BY DEF is_done, BenchInv, Types, FlagTypes

(* With every worker done nothing is in flight and nothing has failed.            *)
LEMMA AllDone ==
  ASSUME \A w \in Workers : at[w] = "done"
  PROVE  Cardinality(InFlight) = 0 /\ Cardinality(Failed) = 0
<1>1. InFlight = {} /\ Failed = {}
  BY DEF InFlight, Failed
<1>2. QED
  BY <1>1, FS_EmptySet

(* Counts depend on where the workers are only.                                *)
LEMMA CountsKept ==
  ASSUME at' = at
  PROVE  /\ Cardinality(InFlight') = Cardinality(InFlight)
         /\ Cardinality(Failed') = Cardinality(Failed)
BY DEF InFlight, Failed

(* The count window closes on admissions, whichever worker makes them.            *)
LEMMA WindowCountsStep ==
  ASSUME BenchInv, [BenchNext]_benchVars
  PROVE  WindowCounts'
<1>1. ASSUME NEW w \in Workers, Admit(w) PROVE WindowCounts'
  <2>1. at[w] = "admit" /\ started' = started + 1 /\ ~is_done
        /\ UNCHANGED <<measuring, timed, latencies, phase>>
    BY <1>1 DEF Admit, setup
  <2>2. \/ at' = [at EXCEPT ![w] = "failed"]
        \/ at' = [at EXCEPT ![w] = "publish"]
    BY <1>1 DEF Admit, MoveTo
  <2>3. started \in Nat /\ latencies \in Nat /\ measuring \in BOOLEAN /\ timed \in BOOLEAN
    BY DEF BenchInv, Types, WorkTypes, FlagTypes
  <2>4. (~measuring => started + 1 =< Warmup) /\ (measuring /\ ~timed => started + 1 =< Ops)
    BY <2>1, <2>3, WindowLooked, PaymentsAssumed
  <2>5. CASE at' = [at EXCEPT ![w] = "failed"]
    <3>1. Cardinality(InFlight') = Cardinality(InFlight)
          /\ Cardinality(Failed') = Cardinality(Failed) + 1
          /\ Cardinality(InFlight) \in Nat /\ Cardinality(Failed) \in Nat
      <4>1. CountsMoved(w, "failed") /\ Flying("failed") = 0 /\ Flying("admit") = 0
            /\ Failing("failed") = 1 /\ Failing("admit") = 0
        BY <2>5, CountsOfMove DEF Flying, Failing
      <4>2. QED
        BY <2>1, <4>1 DEF CountsMoved
    <3>2. QED
      BY <2>1, <2>3, <2>4, <2>5, <3>1 DEF BenchInv, WindowCounts
  <2>6. CASE at' = [at EXCEPT ![w] = "publish"]
    <3>1. Cardinality(InFlight') = Cardinality(InFlight) + 1
          /\ Cardinality(Failed') = Cardinality(Failed)
          /\ Cardinality(InFlight) \in Nat /\ Cardinality(Failed) \in Nat
      <4>1. CountsMoved(w, "publish") /\ Flying("publish") = 1 /\ Flying("admit") = 0
            /\ Failing("publish") = 0 /\ Failing("admit") = 0
        BY <2>6, CountsOfMove DEF Flying, Failing
      <4>2. QED
        BY <2>1, <4>1 DEF CountsMoved
    <3>2. QED
      BY <2>1, <2>3, <2>4, <3>1 DEF BenchInv, WindowCounts
  <2>7. QED
    BY <2>2, <2>5, <2>6
<1>2. ASSUME NEW w \in Workers, WorkerDone(w) PROVE WindowCounts'
  <2>1. at' = [at EXCEPT ![w] = "done"] /\ at[w] = "admit"
        /\ UNCHANGED <<measuring, timed, started, latencies, phase>>
    BY <1>2 DEF WorkerDone, MoveTo, setup, window
  <2>2. started \in Nat /\ latencies \in Nat
    BY DEF BenchInv, Types, WorkTypes
  <2>3. Cardinality(InFlight') = Cardinality(InFlight)
        /\ Cardinality(Failed') = Cardinality(Failed)
        /\ Cardinality(InFlight) \in Nat /\ Cardinality(Failed) \in Nat
    <3>1. CountsMoved(w, "done") /\ Flying("done") = 0 /\ Flying("admit") = 0
          /\ Failing("done") = 0 /\ Failing("admit") = 0
      BY <2>1, CountsOfMove DEF Flying, Failing
    <3>2. QED
      BY <2>1, <3>1 DEF CountsMoved
  <2>4. QED
    BY <2>1, <2>2, <2>3 DEF BenchInv, WindowCounts
<1>3. ASSUME NEW w \in Workers, Publish(w) PROVE WindowCounts'
  <2>1. at' = [at EXCEPT ![w] = "await"] /\ at[w] = "publish"
        /\ UNCHANGED <<measuring, timed, started, latencies, phase>>
    BY <1>3 DEF Publish, MoveTo, setup, window
  <2>2. started \in Nat /\ latencies \in Nat
    BY DEF BenchInv, Types, WorkTypes
  <2>3. Cardinality(InFlight') = Cardinality(InFlight)
        /\ Cardinality(Failed') = Cardinality(Failed)
        /\ Cardinality(InFlight) \in Nat /\ Cardinality(Failed) \in Nat
    <3>1. CountsMoved(w, "await") /\ Flying("await") = 1 /\ Flying("publish") = 1
          /\ Failing("await") = 0 /\ Failing("publish") = 0
      BY <2>1, CountsOfMove DEF Flying, Failing
    <3>2. QED
      BY <2>1, <3>1 DEF CountsMoved
  <2>4. QED
    BY <2>1, <2>2, <2>3 DEF BenchInv, WindowCounts
<1>4. ASSUME NEW w \in Workers, PublishFails(w) PROVE WindowCounts'
  <2>1. at' = [at EXCEPT ![w] = "failed"] /\ at[w] = "publish"
        /\ UNCHANGED <<measuring, timed, started, latencies, phase>>
    BY <1>4 DEF PublishFails, MoveTo, setup, window
  <2>2. started \in Nat /\ latencies \in Nat
    BY DEF BenchInv, Types, WorkTypes
  <2>3. Cardinality(InFlight') = Cardinality(InFlight) - 1
        /\ Cardinality(Failed') = Cardinality(Failed) + 1
        /\ Cardinality(InFlight) \in Nat /\ Cardinality(Failed) \in Nat
    <3>1. CountsMoved(w, "failed") /\ Flying("failed") = 0 /\ Flying("publish") = 1
          /\ Failing("failed") = 1 /\ Failing("publish") = 0
      BY <2>1, CountsOfMove DEF Flying, Failing
    <3>2. QED
      BY <2>1, <3>1 DEF CountsMoved
  <2>4. QED
    BY <2>1, <2>2, <2>3 DEF BenchInv, WindowCounts
<1>5. ASSUME NEW w \in Workers, Awaited(w) PROVE WindowCounts'
  <2>1. at[w] = "await" /\ UNCHANGED <<measuring, timed, started, phase>>
    BY <1>5 DEF Awaited, setup
  <2>2. \/ at' = [at EXCEPT ![w] = "admit"] /\ latencies' = latencies + 1
        \/ at' = [at EXCEPT ![w] = "failed"] /\ latencies' = latencies
    BY <1>5 DEF Awaited, MoveTo
  <2>3. started \in Nat /\ latencies \in Nat
    BY DEF BenchInv, Types, WorkTypes
  <2>4. CASE at' = [at EXCEPT ![w] = "admit"] /\ latencies' = latencies + 1
    <3>1. Cardinality(InFlight') = Cardinality(InFlight) - 1
          /\ Cardinality(Failed') = Cardinality(Failed)
          /\ Cardinality(InFlight) \in Nat /\ Cardinality(Failed) \in Nat
      <4>1. CountsMoved(w, "admit") /\ Flying("admit") = 0 /\ Flying("await") = 1
            /\ Failing("admit") = 0 /\ Failing("await") = 0
        BY <2>4, CountsOfMove DEF Flying, Failing
      <4>2. QED
        BY <2>1, <4>1 DEF CountsMoved
    <3>2. QED
      BY <2>1, <2>3, <2>4, <3>1 DEF BenchInv, WindowCounts
  <2>5. CASE at' = [at EXCEPT ![w] = "failed"] /\ latencies' = latencies
    <3>1. Cardinality(InFlight') = Cardinality(InFlight) - 1
          /\ Cardinality(Failed') = Cardinality(Failed) + 1
          /\ Cardinality(InFlight) \in Nat /\ Cardinality(Failed) \in Nat
      <4>1. CountsMoved(w, "failed") /\ Flying("failed") = 0 /\ Flying("await") = 1
            /\ Failing("failed") = 1 /\ Failing("await") = 0
        BY <2>5, CountsOfMove DEF Flying, Failing
      <4>2. QED
        BY <2>1, <4>1 DEF CountsMoved
    <3>2. QED
      BY <2>1, <2>3, <2>5, <3>1 DEF BenchInv, WindowCounts
  <2>6. QED
    BY <2>2, <2>4, <2>5
<1>6. CASE DurationPasses
  <2>1. UNCHANGED <<at, measuring, timed, started, latencies, phase>>
    BY <1>6 DEF DurationPasses, setup, window
  <2>2. QED
    BY <2>1, CountsKept DEF BenchInv, WindowCounts
<1>7. CASE StartMeasuring
  <2>1. measuring' /\ started' = 0 /\ latencies' = 0 /\ at' = [w \in Workers |-> "admit"]
    BY <1>7 DEF StartMeasuring
  <2>2. InFlight' = {} /\ Failed' = {}
    BY <2>1 DEF InFlight, Failed
  <2>3. Cardinality(InFlight') = 0 /\ Cardinality(Failed') = 0
    BY <2>2, FS_EmptySet
  <2>4. QED
    BY <2>1, <2>3, PaymentsAssumed DEF WindowCounts
<1>8. CASE GatherRaises
  <2>1. UNCHANGED <<measuring, timed, started, latencies>>
        /\ phase' \notin {"warmup", "measure"}
    BY <1>8 DEF GatherRaises, setup, window
  <2>2. QED
    BY <2>1 DEF BenchInv, WindowCounts
<1>9. CASE GatherReturns
  <2>1. UNCHANGED <<measuring, timed, started, latencies>>
        /\ phase' \notin {"warmup", "measure"}
    BY <1>9 DEF GatherReturns, setup, window
  <2>2. QED
    BY <2>1 DEF BenchInv, WindowCounts
<1>10. CASE Summarise
  <2>1. UNCHANGED <<measuring, timed, started, latencies>>
        /\ phase' \notin {"warmup", "measure"}
    BY <1>10 DEF Summarise, setup, window
  <2>2. QED
    BY <2>1 DEF BenchInv, WindowCounts
<1>11. CASE BenchEnds
  <2>1. UNCHANGED <<measuring, timed, started, latencies>>
        /\ phase' \notin {"warmup", "measure"}
    BY <1>11 DEF BenchEnds, setup, window
  <2>2. QED
    BY <2>1 DEF BenchInv, WindowCounts
<1>12. CASE Sample
  <2>1. UNCHANGED <<at, measuring, timed, started, latencies, phase>>
    BY <1>12 DEF Sample, setup, window
  <2>2. QED
    BY <2>1, CountsKept DEF BenchInv, WindowCounts
<1>13. ASSUME NEW p \in Payments, HandlerCharges(p) PROVE WindowCounts'
  <2>1. UNCHANGED <<at, measuring, timed, started, latencies, phase>>
    BY <1>13 DEF HandlerCharges, setup, window
  <2>2. QED
    BY <2>1, CountsKept DEF BenchInv, WindowCounts
<1>14. CASE MarkAndAck
  <2>1. UNCHANGED <<at, measuring, timed, started, latencies, phase>>
    BY <1>14 DEF MarkAndAck, setup, window
  <2>2. QED
    BY <2>1, CountsKept DEF BenchInv, WindowCounts
<1>15. ASSUME NEW p \in Payments, HandlerRejects(p) PROVE WindowCounts'
  <2>1. UNCHANGED <<at, measuring, timed, started, latencies, phase>>
    BY <1>15 DEF HandlerRejects, setup, window
  <2>2. QED
    BY <2>1, CountsKept DEF BenchInv, WindowCounts
<1>16. CASE DeadLetter
  <2>1. UNCHANGED <<at, measuring, timed, started, latencies, phase>>
    BY <1>16 DEF DeadLetter, setup, window
  <2>2. QED
    BY <2>1, CountsKept DEF BenchInv, WindowCounts
<1>17. CASE ConsumerStops
  <2>1. UNCHANGED <<at, measuring, timed, started, latencies, phase>>
    BY <1>17 DEF ConsumerStops, setup, window
  <2>2. QED
    BY <2>1, CountsKept DEF BenchInv, WindowCounts
<1>18. CASE ConsumerDies
  <2>1. UNCHANGED <<at, measuring, timed, started, latencies, phase>>
    BY <1>18 DEF ConsumerDies, setup, window
  <2>2. QED
    BY <2>1, CountsKept DEF BenchInv, WindowCounts
<1>19. CASE ConsumerDiedCallback
  <2>1. UNCHANGED <<at, measuring, timed, started, latencies, phase>>
    BY <1>19 DEF ConsumerDiedCallback, setup, window
  <2>2. QED
    BY <2>1, CountsKept DEF BenchInv, WindowCounts
<1>20. CASE UNCHANGED benchVars
  BY <1>20, CountsKept DEF benchVars, BenchInv, WindowCounts
<1>21. QED
  BY <1>1, <1>2, <1>3, <1>4, <1>5, <1>6, <1>7, <1>8, <1>9, <1>10, <1>11, <1>12, <1>13,
     <1>14, <1>15, <1>16, <1>17, <1>18, <1>19, <1>20 DEF BenchNext, Worker, Harness, Consumer

(* A gather returns when its window is full; a result is made of what it saw.      *)
LEMMA WindowFullStep ==
  ASSUME BenchInv, [BenchNext]_benchVars
  PROVE  WindowFull'
<1>1. ASSUME NEW w \in Workers, Admit(w) PROVE WindowFull'
  <2>1. ~Passing /\ ~Passing'
    BY <1>1 DEF Admit, Passing, BenchInv, WindowFull
  <2>2. \A v \in Workers : at'[v] = "done" => at[v] = "done"
    BY <1>1 DEF Admit, MoveTo, BenchInv, Types, WorkTypes
  <2>3. started \in Nat /\ started' = started + 1
        /\ UNCHANGED <<measuring, timed, phase, consumer>>
    BY <1>1 DEF Admit, setup, BenchInv, Types, WorkTypes
  <2>4. QED
    BY <2>1, <2>2, <2>3, PaymentsAssumed DEF Passing, BenchInv, WindowFull
<1>2. ASSUME NEW w \in Workers, WorkerDone(w) PROVE WindowFull'
  <2>1. ~Passing /\ ~Passing'
    BY <1>2 DEF WorkerDone, Passing, BenchInv, WindowFull
  <2>2. measuring /\ ~timed => started >= Ops
    BY <1>2, WindowLooked DEF WorkerDone
  <2>3. QED
    BY <1>2, <2>1, <2>2 DEF WorkerDone, setup, window, MoveTo, Passing, BenchInv, Types,
       WorkTypes, WindowFull
<1>3. ASSUME NEW w \in Workers, Publish(w) PROVE WindowFull'
  <2>1. ~Passing /\ ~Passing'
    BY <1>3 DEF Publish, Passing, BenchInv, WindowFull
  <2>2. QED
    BY <1>3, <2>1 DEF Publish, setup, window, MoveTo, Passing, BenchInv, Types, WorkTypes,
       WindowFull
<1>4. ASSUME NEW w \in Workers, PublishFails(w) PROVE WindowFull'
  <2>1. ~Passing /\ ~Passing'
    BY <1>4 DEF PublishFails, Passing, BenchInv, WindowFull
  <2>2. QED
    BY <1>4, <2>1 DEF PublishFails, setup, window, MoveTo, Passing, BenchInv, Types, WorkTypes,
       WindowFull
<1>5. ASSUME NEW w \in Workers, Awaited(w) PROVE WindowFull'
  <2>1. ~Passing /\ ~Passing'
    BY <1>5 DEF Awaited, Passing, BenchInv, WindowFull
  <2>2. QED
    BY <1>5, <2>1 DEF Awaited, setup, MoveTo, Passing, BenchInv, Types, WorkTypes, WindowFull
<1>6. CASE DurationPasses
  BY <1>6 DEF DurationPasses, setup, window, broker, sampling, Passing, BenchInv, WindowFull
<1>7. CASE StartMeasuring
  <2>1. measuring' /\ phase' = "measure" /\ at' = [w \in Workers |-> "admit"]
    BY <1>7 DEF StartMeasuring
  <2>2. QED
    BY <2>1 DEF WindowFull, Passing
<1>8. CASE GatherRaises
  BY <1>8 DEF GatherRaises, setup, window, broker, Passing, BenchInv, WindowFull
<1>9. CASE GatherReturns
  <2>1. /\ phase = "measure" /\ \A w \in Workers : at[w] = "done"
        /\ UNCHANGED <<at, measuring, timed, started, latencies>>
        /\ phase' \in {"final", "stopping"}
    BY <1>9 DEF GatherReturns, setup, window
  <2>2. started \in Nat /\ latencies \in Nat
    BY DEF BenchInv, Types, WorkTypes
  <2>3. started = latencies
    BY <2>1, <2>2, AllDone DEF BenchInv, WindowCounts
  <2>4. QED
    BY <2>1, <2>3 DEF Passing, BenchInv, WindowFull
<1>10. CASE Summarise
  <2>1. Passing /\ UNCHANGED <<measuring, timed, started, latencies, at>>
        /\ phase' = "stopping"
    BY <1>10 DEF Summarise, Passing, setup, window
  <2>2. QED
    BY <2>1 DEF BenchInv, WindowFull
<1>11. CASE BenchEnds
  <2>1. Passing' => Passing /\ consumer # "dead"
    BY <1>11 DEF BenchEnds, Passing
  <2>2. /\ UNCHANGED <<measuring, timed, started, latencies, consumer>>
        /\ phase' # "measure" /\ consumer \in {"dead", "finished"}
    BY <1>11 DEF BenchEnds, setup, window
  <2>3. \A w \in Workers : at'[w] = "done" <=> at[w] = "done"
    BY <1>11 DEF BenchEnds
  <2>4. QED
    BY <2>1, <2>2, <2>3 DEF BenchInv, WindowFull, Passing
<1>12. CASE Sample
  BY <1>12 DEF Sample, setup, window, broker, Passing, BenchInv, WindowFull
<1>13. ASSUME NEW p \in Payments, HandlerCharges(p) PROVE WindowFull'
  BY <1>13 DEF HandlerCharges, setup, window, sampling, Passing, BenchInv, WindowFull
<1>14. CASE MarkAndAck
  BY <1>14 DEF MarkAndAck, setup, window, sampling, Passing, BenchInv, WindowFull
<1>15. ASSUME NEW p \in Payments, HandlerRejects(p) PROVE WindowFull'
  BY <1>15 DEF HandlerRejects, setup, window, sampling, Passing, BenchInv, WindowFull
<1>16. CASE DeadLetter
  BY <1>16 DEF DeadLetter, setup, window, sampling, Passing, BenchInv, WindowFull
<1>17. CASE ConsumerStops
  BY <1>17 DEF ConsumerStops, setup, window, broker, sampling, Passing, BenchInv, WindowFull
<1>18. CASE ConsumerDies
  BY <1>18 DEF ConsumerDies, setup, window, broker, sampling, Passing, BenchInv, WindowFull
<1>19. CASE ConsumerDiedCallback
  BY <1>19 DEF ConsumerDiedCallback, setup, window, broker, sampling, Passing, BenchInv,
     WindowFull
<1>20. CASE UNCHANGED benchVars
  BY <1>20 DEF benchVars, Passing, BenchInv, WindowFull
<1>21. QED
  BY <1>1, <1>2, <1>3, <1>4, <1>5, <1>6, <1>7, <1>8, <1>9, <1>10, <1>11, <1>12, <1>13,
     <1>14, <1>15, <1>16, <1>17, <1>18, <1>19, <1>20 DEF BenchNext, Worker, Harness, Consumer

(* The sampler lives as long as the gather of the measured window.               *)
LEMMA SamplingWindowStep ==
  ASSUME BenchInv, [BenchNext]_benchVars
  PROVE  SamplingWindow'
<1>1. ASSUME NEW w \in Workers, Admit(w) PROVE SamplingWindow'
  BY <1>1 DEF Admit, sampling, BenchInv, Types, SamplerTypes, FlagTypes, Passing,
     SamplingWindow
<1>2. ASSUME NEW w \in Workers, WorkerDone(w) PROVE SamplingWindow'
  BY <1>2 DEF WorkerDone, sampling, BenchInv, Types, SamplerTypes, FlagTypes, Passing,
     SamplingWindow
<1>3. ASSUME NEW w \in Workers, Publish(w) PROVE SamplingWindow'
  BY <1>3 DEF Publish, sampling, BenchInv, Types, SamplerTypes, FlagTypes, Passing,
     SamplingWindow
<1>4. ASSUME NEW w \in Workers, PublishFails(w) PROVE SamplingWindow'
  BY <1>4 DEF PublishFails, sampling, BenchInv, Types, SamplerTypes, FlagTypes, Passing,
     SamplingWindow
<1>5. ASSUME NEW w \in Workers, Awaited(w) PROVE SamplingWindow'
  BY <1>5 DEF Awaited, sampling, BenchInv, Types, SamplerTypes, FlagTypes, Passing,
     SamplingWindow
<1>6. CASE DurationPasses
  BY <1>6 DEF DurationPasses, sampling, BenchInv, Types, SamplerTypes, FlagTypes, Passing,
     SamplingWindow
<1>7. CASE StartMeasuring
  BY <1>7 DEF StartMeasuring, BenchInv, Types, SamplerTypes, FlagTypes, Passing,
     SamplingWindow
<1>8. CASE GatherRaises
  BY <1>8 DEF GatherRaises, CancelSampler, BenchInv, Types, SamplerTypes, FlagTypes, Passing,
     SamplingWindow
<1>9. CASE GatherReturns
  BY <1>9 DEF GatherReturns, CancelSampler, BenchInv, Types, SamplerTypes, FlagTypes, Passing,
     SamplingWindow
<1>10. CASE Summarise
  BY <1>10 DEF Summarise, BenchInv, Types, SamplerTypes, FlagTypes, Passing,
     SamplingWindow
<1>11. CASE BenchEnds
  BY <1>11 DEF BenchEnds, sampling, BenchInv, Types, SamplerTypes, FlagTypes, Passing,
     SamplingWindow
<1>12. CASE Sample
  BY <1>12 DEF Sample, BenchInv, Types, SamplerTypes, FlagTypes, Passing,
     SamplingWindow
<1>13. ASSUME NEW p \in Payments, HandlerCharges(p) PROVE SamplingWindow'
  BY <1>13 DEF HandlerCharges, sampling, BenchInv, Types, SamplerTypes, FlagTypes, Passing,
     SamplingWindow
<1>14. CASE MarkAndAck
  BY <1>14 DEF MarkAndAck, sampling, BenchInv, Types, SamplerTypes, FlagTypes, Passing,
     SamplingWindow
<1>15. ASSUME NEW p \in Payments, HandlerRejects(p) PROVE SamplingWindow'
  BY <1>15 DEF HandlerRejects, sampling, BenchInv, Types, SamplerTypes, FlagTypes, Passing,
     SamplingWindow
<1>16. CASE DeadLetter
  BY <1>16 DEF DeadLetter, sampling, BenchInv, Types, SamplerTypes, FlagTypes, Passing,
     SamplingWindow
<1>17. CASE ConsumerStops
  BY <1>17 DEF ConsumerStops, sampling, BenchInv, Types, SamplerTypes, FlagTypes, Passing,
     SamplingWindow
<1>18. CASE ConsumerDies
  BY <1>18 DEF ConsumerDies, sampling, BenchInv, Types, SamplerTypes, FlagTypes, Passing,
     SamplingWindow
<1>19. CASE ConsumerDiedCallback
  BY <1>19 DEF ConsumerDiedCallback, sampling, BenchInv, Types, SamplerTypes, FlagTypes,
     Passing, SamplingWindow
<1>20. CASE UNCHANGED benchVars
  BY <1>20 DEF benchVars, BenchInv, Types, SamplerTypes, FlagTypes, Passing,
     SamplingWindow
<1>21. QED
  BY <1>1, <1>2, <1>3, <1>4, <1>5, <1>6, <1>7, <1>8, <1>9, <1>10, <1>11, <1>12, <1>13,
     <1>14, <1>15, <1>16, <1>17, <1>18, <1>19, <1>20 DEF BenchNext, Worker, Harness, Consumer

-----------------------------------------------------------------------------
(* A worker's next payment is one no other worker has.                            *)
LEMMA OnePayerStep ==
  ASSUME BenchInv, [BenchNext]_benchVars
  PROVE  OnePayer'
<1>1. ASSUME NEW w \in Workers, Admit(w) PROVE OnePayer'
  <2>1. \A v \in Workers : op[v] \in 0..payments /\ op[v] # payments + 1
    BY PaymentsAssumed DEF BenchInv, Types, WorkTypes
  <2>2. payments + 1 # 0
    BY PaymentsAssumed DEF BenchInv, Types, WorkTypes
  <2>3. CASE at' = [at EXCEPT ![w] = "failed"] /\ UNCHANGED op
    BY <2>3 DEF BenchInv, Types, WorkTypes, OnePayer
  <2>4. CASE /\ at' = [at EXCEPT ![w] = "publish"]
             /\ op' = [op EXCEPT ![w] = payments + 1]
    BY <2>1, <2>2, <2>4 DEF BenchInv, Types, WorkTypes, OnePayer
  <2>5. QED
    BY <1>1, <2>3, <2>4 DEF Admit, MoveTo
<1>2. ASSUME NEW w \in Workers, WorkerDone(w) PROVE OnePayer'
  <2>1. op' = op /\ at[w] \in {"publish", "await", "admit"}
        /\ \A v \in Workers : at'[v] \in {"publish", "await"} => at[v] \in {"publish", "await"}
    BY <1>2 DEF WorkerDone, MoveTo, BenchInv, Types, WorkTypes
  <2>2. QED
    BY <2>1 DEF BenchInv, OnePayer
<1>3. ASSUME NEW w \in Workers, Publish(w) PROVE OnePayer'
  <2>1. op' = op /\ at[w] \in {"publish", "await", "admit"}
        /\ \A v \in Workers : at'[v] \in {"publish", "await"} => at[v] \in {"publish", "await"}
    BY <1>3 DEF Publish, MoveTo, BenchInv, Types, WorkTypes
  <2>2. QED
    BY <2>1 DEF BenchInv, OnePayer
<1>4. ASSUME NEW w \in Workers, PublishFails(w) PROVE OnePayer'
  <2>1. op' = op /\ at[w] \in {"publish", "await", "admit"}
        /\ \A v \in Workers : at'[v] \in {"publish", "await"} => at[v] \in {"publish", "await"}
    BY <1>4 DEF PublishFails, MoveTo, BenchInv, Types, WorkTypes
  <2>2. QED
    BY <2>1 DEF BenchInv, OnePayer
<1>5. ASSUME NEW w \in Workers, Awaited(w) PROVE OnePayer'
  <2>1. op' = op /\ at[w] \in {"publish", "await", "admit"}
        /\ \A v \in Workers : at'[v] \in {"publish", "await"} => at[v] \in {"publish", "await"}
    BY <1>5 DEF Awaited, MoveTo, BenchInv, Types, WorkTypes
  <2>2. QED
    BY <2>1 DEF BenchInv, OnePayer
<1>6. CASE DurationPasses
  <2>1. op' = op /\ \A w \in Workers : at'[w] \in {"publish", "await"} => at[w] = at'[w]
    BY <1>6 DEF DurationPasses
  <2>2. QED
    BY <2>1 DEF BenchInv, OnePayer
<1>7. CASE StartMeasuring
  <2>1. op' = op /\ \A w \in Workers : at'[w] \in {"publish", "await"} => at[w] = at'[w]
    BY <1>7 DEF StartMeasuring
  <2>2. QED
    BY <2>1 DEF BenchInv, OnePayer
<1>8. CASE GatherRaises
  <2>1. op' = op /\ \A w \in Workers : at'[w] \in {"publish", "await"} => at[w] = at'[w]
    BY <1>8 DEF GatherRaises
  <2>2. QED
    BY <2>1 DEF BenchInv, OnePayer
<1>9. CASE GatherReturns
  <2>1. op' = op /\ \A w \in Workers : at'[w] \in {"publish", "await"} => at[w] = at'[w]
    BY <1>9 DEF GatherReturns
  <2>2. QED
    BY <2>1 DEF BenchInv, OnePayer
<1>10. CASE Summarise
  <2>1. op' = op /\ \A w \in Workers : at'[w] \in {"publish", "await"} => at[w] = at'[w]
    BY <1>10 DEF Summarise
  <2>2. QED
    BY <2>1 DEF BenchInv, OnePayer
<1>11. CASE BenchEnds
  <2>1. op' = op /\ \A w \in Workers : at'[w] \in {"publish", "await"} => at[w] = at'[w]
    BY <1>11 DEF BenchEnds
  <2>2. QED
    BY <2>1 DEF BenchInv, OnePayer
<1>12. CASE Sample
  <2>1. op' = op /\ \A w \in Workers : at'[w] \in {"publish", "await"} => at[w] = at'[w]
    BY <1>12 DEF Sample
  <2>2. QED
    BY <2>1 DEF BenchInv, OnePayer
<1>13. ASSUME NEW p \in Payments, HandlerCharges(p) PROVE OnePayer'
  <2>1. op' = op /\ \A w \in Workers : at'[w] \in {"publish", "await"} => at[w] = at'[w]
    BY <1>13 DEF HandlerCharges
  <2>2. QED
    BY <2>1 DEF BenchInv, OnePayer
<1>14. CASE MarkAndAck
  <2>1. op' = op /\ \A w \in Workers : at'[w] \in {"publish", "await"} => at[w] = at'[w]
    BY <1>14 DEF MarkAndAck
  <2>2. QED
    BY <2>1 DEF BenchInv, OnePayer
<1>15. ASSUME NEW p \in Payments, HandlerRejects(p) PROVE OnePayer'
  <2>1. op' = op /\ \A w \in Workers : at'[w] \in {"publish", "await"} => at[w] = at'[w]
    BY <1>15 DEF HandlerRejects
  <2>2. QED
    BY <2>1 DEF BenchInv, OnePayer
<1>16. CASE DeadLetter
  <2>1. op' = op /\ \A w \in Workers : at'[w] \in {"publish", "await"} => at[w] = at'[w]
    BY <1>16 DEF DeadLetter
  <2>2. QED
    BY <2>1 DEF BenchInv, OnePayer
<1>17. CASE ConsumerStops
  <2>1. op' = op /\ \A w \in Workers : at'[w] \in {"publish", "await"} => at[w] = at'[w]
    BY <1>17 DEF ConsumerStops
  <2>2. QED
    BY <2>1 DEF BenchInv, OnePayer
<1>18. CASE ConsumerDies
  <2>1. op' = op /\ \A w \in Workers : at'[w] \in {"publish", "await"} => at[w] = at'[w]
    BY <1>18 DEF ConsumerDies
  <2>2. QED
    BY <2>1 DEF BenchInv, OnePayer
<1>19. CASE ConsumerDiedCallback
  <2>1. op' = op /\ \A w \in Workers : at'[w] \in {"publish", "await"} => at[w] = at'[w]
    BY <1>19 DEF ConsumerDiedCallback
  <2>2. QED
    BY <2>1 DEF BenchInv, OnePayer
<1>20. CASE UNCHANGED benchVars
  BY <1>20 DEF benchVars, BenchInv, OnePayer
<1>21. QED
  BY <1>1, <1>2, <1>3, <1>4, <1>5, <1>6, <1>7, <1>8, <1>9, <1>10, <1>11, <1>12, <1>13,
     <1>14, <1>15, <1>16, <1>17, <1>18, <1>19, <1>20 DEF BenchNext, Worker, Harness, Consumer

(* The consumer sees a payment when its worker publishes it, not earlier.           *)
LEMMA UnpublishedStep ==
  ASSUME BenchInv, [BenchNext]_benchVars
  PROVE  Unpublished'
<1>1. ASSUME NEW w \in Workers, Admit(w) PROVE Unpublished'
  <2>1. UNCHANGED <<stream, attempts, charged, dlq>> /\ payments \in 0..MaxPayments
        /\ payments < MaxPayments
    BY <1>1 DEF Admit, broker, BenchInv, Types, WorkTypes
  <2>2. CASE at' = [at EXCEPT ![w] = "failed"] /\ UNCHANGED <<op, payments>>
    BY <2>1, <2>2 DEF BenchInv, Types, WorkTypes, Unpublished, Untouched
  <2>3. CASE /\ at' = [at EXCEPT ![w] = "publish"] /\ payments' = payments + 1
             /\ op' = [op EXCEPT ![w] = payments + 1]
    <3>1. payments + 1 \in Payments /\ payments + 1 > payments
      BY <2>1, PaymentsAssumed
    <3>2. Untouched(payments + 1)
      BY <3>1 DEF BenchInv, Unpublished
    <3>3. \A p \in Payments : p > payments' => p > payments
      BY <2>1, <2>3, PaymentsAssumed
    <3>4. \A v \in Workers : at'[v] = "publish" =>
            op'[v] = payments + 1 \/ (at[v] = "publish" /\ op'[v] = op[v])
      BY <2>3 DEF BenchInv, Types, WorkTypes
    <3>5. QED
      BY <2>1, <3>2, <3>3, <3>4 DEF BenchInv, Unpublished, Untouched
  <2>4. QED
    BY <1>1, <2>2, <2>3 DEF Admit, MoveTo
<1>2. ASSUME NEW w \in Workers, WorkerDone(w) PROVE Unpublished'
  <2>1. UNCHANGED <<op, payments, stream, attempts, charged, dlq>>
        /\ \A v \in Workers : at'[v] = "publish" => at[v] = "publish"
    BY <1>2 DEF WorkerDone, broker, MoveTo, BenchInv, Types, WorkTypes
  <2>2. QED
    BY <2>1 DEF BenchInv, Unpublished, Untouched
<1>3. ASSUME NEW w \in Workers, Publish(w) PROVE Unpublished'
  <2>1. op[w] \in 1..payments /\ at[w] = "publish" /\ at' = [at EXCEPT ![w] = "await"]
    BY <1>3, OpIsPayment DEF Publish, MoveTo
  <2>2. UNCHANGED <<op, payments, attempts, charged, dlq>> /\ stream' = stream \cup {op[w]}
    BY <1>3 DEF Publish
  <2>3. \A v \in Workers : at'[v] = "publish" => at[v] = "publish" /\ v # w
    BY <2>1 DEF BenchInv, Types, WorkTypes
  <2>4. \A v \in Workers : at'[v] = "publish" => op[v] # op[w]
    BY <2>1, <2>3 DEF BenchInv, OnePayer
  <2>5. \A p \in Payments : p > payments => p # op[w]
    BY <2>1, PaymentsAssumed DEF BenchInv, Types, WorkTypes
  <2>6. QED
    BY <2>2, <2>3, <2>4, <2>5 DEF BenchInv, Unpublished, Untouched
<1>4. ASSUME NEW w \in Workers, PublishFails(w) PROVE Unpublished'
  <2>1. UNCHANGED <<op, payments, stream, attempts, charged, dlq>>
        /\ \A v \in Workers : at'[v] = "publish" => at[v] = "publish"
    BY <1>4 DEF PublishFails, broker, MoveTo, BenchInv, Types, WorkTypes
  <2>2. QED
    BY <2>1 DEF BenchInv, Unpublished, Untouched
<1>5. ASSUME NEW w \in Workers, Awaited(w) PROVE Unpublished'
  <2>1. UNCHANGED <<op, payments, stream, attempts, charged, dlq>>
        /\ \A v \in Workers : at'[v] = "publish" => at[v] = "publish"
    BY <1>5 DEF Awaited, broker, MoveTo, BenchInv, Types, WorkTypes
  <2>2. QED
    BY <2>1 DEF BenchInv, Unpublished, Untouched
<1>6. CASE DurationPasses
  <2>1. UNCHANGED <<op, payments, stream, attempts, charged, dlq>>
        /\ \A v \in Workers : at'[v] = "publish" => at[v] = "publish"
    BY <1>6 DEF DurationPasses, broker, BenchInv, Types, WorkTypes
  <2>2. QED
    BY <2>1 DEF BenchInv, Unpublished, Untouched
<1>7. CASE StartMeasuring
  <2>1. UNCHANGED <<op, payments, stream, attempts, charged, dlq>>
        /\ \A v \in Workers : at'[v] = "publish" => at[v] = "publish"
    BY <1>7 DEF StartMeasuring, broker, BenchInv, Types, WorkTypes
  <2>2. QED
    BY <2>1 DEF BenchInv, Unpublished, Untouched
<1>8. CASE GatherRaises
  <2>1. UNCHANGED <<op, payments, stream, attempts, charged, dlq>>
        /\ \A v \in Workers : at'[v] = "publish" => at[v] = "publish"
    BY <1>8 DEF GatherRaises, broker, BenchInv, Types, WorkTypes
  <2>2. QED
    BY <2>1 DEF BenchInv, Unpublished, Untouched
<1>9. CASE GatherReturns
  <2>1. UNCHANGED <<op, payments, stream, attempts, charged, dlq>>
        /\ \A v \in Workers : at'[v] = "publish" => at[v] = "publish"
    BY <1>9 DEF GatherReturns, broker, BenchInv, Types, WorkTypes
  <2>2. QED
    BY <2>1 DEF BenchInv, Unpublished, Untouched
<1>10. CASE Summarise
  <2>1. UNCHANGED <<op, payments, stream, attempts, charged, dlq>>
        /\ \A v \in Workers : at'[v] = "publish" => at[v] = "publish"
    BY <1>10 DEF Summarise, broker, BenchInv, Types, WorkTypes
  <2>2. QED
    BY <2>1 DEF BenchInv, Unpublished, Untouched
<1>11. CASE BenchEnds
  <2>1. UNCHANGED <<op, payments, stream, attempts, charged, dlq>>
        /\ \A v \in Workers : at'[v] = "publish" => at[v] = "publish"
    BY <1>11 DEF BenchEnds, broker, BenchInv, Types, WorkTypes
  <2>2. QED
    BY <2>1 DEF BenchInv, Unpublished, Untouched
<1>12. CASE Sample
  <2>1. UNCHANGED <<op, payments, stream, attempts, charged, dlq>>
        /\ \A v \in Workers : at'[v] = "publish" => at[v] = "publish"
    BY <1>12 DEF Sample, broker, BenchInv, Types, WorkTypes
  <2>2. QED
    BY <2>1 DEF BenchInv, Unpublished, Untouched
<1>13. ASSUME NEW p \in Payments, HandlerCharges(p) PROVE Unpublished'
  <2>1. /\ UNCHANGED <<op, payments, at, stream, attempts, dlq>> /\ p \in stream
        /\ \A q \in Payments : q # p => charged'[q] = charged[q]
    BY <1>13 DEF HandlerCharges, BenchInv, Types, PaymentTypes
  <2>2. \A q \in Payments : Untouched(q) => Untouched(q)'
    BY <2>1 DEF Untouched
  <2>3. \A v \in Workers : at[v] = "publish" => op[v] \in Payments
    BY OpIsPayment
  <2>4. QED
    BY <2>1, <2>2, <2>3 DEF BenchInv, Unpublished
<1>14. CASE MarkAndAck
  <2>1. UNCHANGED <<op, payments, at, attempts, charged, dlq>> /\ stream' \subseteq stream
    BY <1>14 DEF MarkAndAck
  <2>2. QED
    BY <2>1 DEF BenchInv, Unpublished, Untouched
<1>15. ASSUME NEW p \in Payments, HandlerRejects(p) PROVE Unpublished'
  <2>1. /\ UNCHANGED <<op, payments, at, stream, charged, dlq>> /\ p \in stream
        /\ \A q \in Payments : q # p => attempts'[q] = attempts[q]
    BY <1>15 DEF HandlerRejects, BenchInv, Types, PaymentTypes
  <2>2. \A q \in Payments : Untouched(q) => Untouched(q)'
    BY <2>1 DEF Untouched
  <2>3. \A v \in Workers : at[v] = "publish" => op[v] \in Payments
    BY OpIsPayment
  <2>4. QED
    BY <2>1, <2>2, <2>3 DEF BenchInv, Unpublished
<1>16. CASE DeadLetter
  <2>1. UNCHANGED <<op, payments, at, attempts, charged>> /\ stream' \subseteq stream
    BY <1>16 DEF DeadLetter
  <2>2. \A q \in Payments : q \notin stream => dlq'[q] = dlq[q]
    BY <1>16 DEF DeadLetter, BenchInv, Types, PaymentTypes
  <2>3. \A q \in Payments : Untouched(q) => Untouched(q)'
    BY <2>1, <2>2 DEF Untouched
  <2>4. \A v \in Workers : at[v] = "publish" => op[v] \in Payments
    BY OpIsPayment
  <2>5. QED
    BY <2>1, <2>3, <2>4 DEF BenchInv, Unpublished
<1>17. CASE ConsumerStops
  <2>1. UNCHANGED <<op, payments, stream, attempts, charged, dlq>>
        /\ \A v \in Workers : at'[v] = "publish" => at[v] = "publish"
    BY <1>17 DEF ConsumerStops, broker, BenchInv, Types, WorkTypes
  <2>2. QED
    BY <2>1 DEF BenchInv, Unpublished, Untouched
<1>18. CASE ConsumerDies
  <2>1. UNCHANGED <<op, payments, stream, attempts, charged, dlq>>
        /\ \A v \in Workers : at'[v] = "publish" => at[v] = "publish"
    BY <1>18 DEF ConsumerDies, broker, BenchInv, Types, WorkTypes
  <2>2. QED
    BY <2>1 DEF BenchInv, Unpublished, Untouched
<1>19. CASE ConsumerDiedCallback
  <2>1. UNCHANGED <<op, payments, stream, attempts, charged, dlq>>
        /\ \A v \in Workers : at'[v] = "publish" => at[v] = "publish"
    BY <1>19 DEF ConsumerDiedCallback, broker, BenchInv, Types, WorkTypes
  <2>2. QED
    BY <2>1 DEF BenchInv, Unpublished, Untouched
<1>20. CASE UNCHANGED benchVars
  BY <1>20 DEF benchVars, BenchInv, Types, Unpublished, Untouched
<1>21. QED
  BY <1>1, <1>2, <1>3, <1>4, <1>5, <1>6, <1>7, <1>8, <1>9, <1>10, <1>11, <1>12, <1>13,
     <1>14, <1>15, <1>16, <1>17, <1>18, <1>19, <1>20 DEF BenchNext, Worker, Harness, Consumer

(* A future resolves as its payment is charged or given up, once.                  *)
LEMMA SettlementStep ==
  ASSUME BenchInv, [BenchNext]_benchVars
  PROVE  Settlement'
<1>1. ASSUME NEW w \in Workers, Admit(w) PROVE Settlement'
  <2>1. UNCHANGED <<guarded, stream, attempts, settling, deadLettering, charged, dlq, consumer>>
    BY <1>1 DEF Admit, broker, setup
  <2>2. \A p \in Payments : future'[p] = "resolved" => future[p] = "resolved"
    BY <1>1 DEF Admit, BenchInv, Types, PaymentTypes
  <2>3. QED
    BY <2>1, <2>2 DEF BenchInv, Settlement, Poison, EmptyHanded
<1>2. ASSUME NEW w \in Workers, WorkerDone(w) PROVE Settlement'
  <2>1. UNCHANGED <<guarded, stream, attempts, settling, deadLettering, charged, dlq, consumer,
                    future>>
    BY <1>2 DEF WorkerDone, broker, setup
  <2>2. QED
    BY <2>1 DEF BenchInv, Settlement, Poison, EmptyHanded
<1>3. ASSUME NEW w \in Workers, Publish(w) PROVE Settlement'
  <2>1. /\ UNCHANGED <<guarded, attempts, settling, deadLettering, charged, dlq, consumer, future>>
        /\ stream' = stream \cup {op[w]} /\ Untouched(op[w])
    BY <1>3 DEF Publish, setup, BenchInv, Unpublished
  <2>2. QED
    BY <2>1, PaymentsAssumed DEF BenchInv, Settlement, Poison, EmptyHanded, Untouched
<1>4. ASSUME NEW w \in Workers, PublishFails(w) PROVE Settlement'
  <2>1. UNCHANGED <<guarded, stream, attempts, settling, deadLettering, charged, dlq, consumer,
                    future>>
    BY <1>4 DEF PublishFails, broker, setup
  <2>2. QED
    BY <2>1 DEF BenchInv, Settlement, Poison, EmptyHanded
<1>5. ASSUME NEW w \in Workers, Awaited(w) PROVE Settlement'
  <2>1. UNCHANGED <<guarded, stream, attempts, settling, deadLettering, charged, dlq, consumer,
                    future>>
    BY <1>5 DEF Awaited, broker, setup
  <2>2. QED
    BY <2>1 DEF BenchInv, Settlement, Poison, EmptyHanded
<1>6. CASE DurationPasses
  <2>1. UNCHANGED <<guarded, stream, attempts, settling, deadLettering, charged, dlq, consumer,
                    future>>
    BY <1>6 DEF DurationPasses, broker, setup
  <2>2. QED
    BY <2>1 DEF BenchInv, Settlement, Poison, EmptyHanded
<1>7. CASE StartMeasuring
  <2>1. UNCHANGED <<guarded, stream, attempts, settling, deadLettering, charged, dlq, consumer,
                    future>>
    BY <1>7 DEF StartMeasuring, broker
  <2>2. QED
    BY <2>1 DEF BenchInv, Settlement, Poison, EmptyHanded
<1>8. CASE GatherRaises
  <2>1. UNCHANGED <<guarded, stream, attempts, settling, deadLettering, charged, dlq, consumer,
                    future>>
    BY <1>8 DEF GatherRaises, broker, setup
  <2>2. QED
    BY <2>1 DEF BenchInv, Settlement, Poison, EmptyHanded
<1>9. CASE GatherReturns
  <2>1. UNCHANGED <<guarded, stream, attempts, settling, deadLettering, charged, dlq, consumer,
                    future>>
    BY <1>9 DEF GatherReturns, broker, setup
  <2>2. QED
    BY <2>1 DEF BenchInv, Settlement, Poison, EmptyHanded
<1>10. CASE Summarise
  <2>1. UNCHANGED <<guarded, stream, attempts, settling, deadLettering, charged, dlq, consumer,
                    future>>
    BY <1>10 DEF Summarise, broker, setup
  <2>2. QED
    BY <2>1 DEF BenchInv, Settlement, Poison, EmptyHanded
<1>11. CASE BenchEnds
  <2>1. UNCHANGED <<guarded, stream, attempts, settling, deadLettering, charged, dlq, consumer,
                    future>>
    BY <1>11 DEF BenchEnds, broker, setup
  <2>2. QED
    BY <2>1 DEF BenchInv, Settlement, Poison, EmptyHanded
<1>12. CASE Sample
  <2>1. UNCHANGED <<guarded, stream, attempts, settling, deadLettering, charged, dlq, consumer,
                    future>>
    BY <1>12 DEF Sample, broker, setup
  <2>2. QED
    BY <2>1 DEF BenchInv, Settlement, Poison, EmptyHanded
<1>13. ASSUME NEW p \in Payments, HandlerCharges(p) PROVE Settlement'
  <2>1. /\ UNCHANGED <<guarded, stream, attempts, deadLettering, dlq, consumer>>
        /\ consumer # "finished" /\ settling = {} /\ deadLettering = {}
        /\ p \in stream /\ ~Poison(p) /\ settling' = {p}
    BY <1>13 DEF HandlerCharges, setup, EmptyHanded
  <2>2. /\ charged[p] \in 0..1 /\ charged[p] # 1 /\ charged'[p] = charged[p] + 1
        /\ \A q \in Payments : q # p => charged'[q] = charged[q]
    BY <1>13, <2>1 DEF HandlerCharges, BenchInv, Types, PaymentTypes, Settlement
  <2>3. charged'[p] = 1
    BY <2>2
  <2>4. \A q \in Payments : future'[q] = "resolved" => future[q] = "resolved" \/ q = p
    BY <1>13 DEF HandlerCharges, Resolve, BenchInv, Types, PaymentTypes
  <2>5. \A q : Poison(q)' <=> Poison(q)
    BY <2>1 DEF Poison
  <2>6. stream \subseteq Payments
    BY DEF BenchInv, Types, PaymentTypes
  <2>7. QED
    BY <2>1, <2>2, <2>3, <2>4, <2>5, <2>6 DEF BenchInv, Settlement
<1>14. CASE MarkAndAck
  <2>1. /\ UNCHANGED <<guarded, attempts, deadLettering, charged, dlq, consumer, future>>
        /\ stream' = stream \ settling /\ settling' = {} /\ consumer # "finished"
    BY <1>14 DEF MarkAndAck, setup
  <2>2. QED
    BY <2>1 DEF BenchInv, Settlement, Poison
<1>15. ASSUME NEW p \in Payments, HandlerRejects(p) PROVE Settlement'
  <2>1. /\ UNCHANGED <<guarded, settling, charged, dlq, stream, consumer>> /\ consumer # "finished"
        /\ attempts' = [attempts EXCEPT ![p] = attempts[p] + 1] /\ Poison(p)
        /\ settling = {} /\ deadLettering = {} /\ p \in stream
    BY <1>15 DEF HandlerRejects, setup, EmptyHanded
  <2>2. attempts'[p] = attempts[p] + 1 /\ attempts[p] + 1 \in 0..MaxAttempts
    BY <1>15, <2>1, BudgetLeft DEF BenchInv, Types, PaymentTypes
  <2>3. \A q \in stream : attempts[q] # MaxAttempts
    BY <2>1 DEF BenchInv, Settlement
  <2>4. \A q \in stream : attempts'[q] = MaxAttempts => q = p
    BY <2>1, <2>3 DEF BenchInv, Types, PaymentTypes
  <2>5. \A q : Poison(q)' <=> Poison(q)
    BY <2>1 DEF Poison
  <2>6. CASE attempts'[p] >= MaxAttempts
    <3>1. deadLettering' = {p}
      BY <1>15, <2>6 DEF HandlerRejects
    <3>2. \A q \in Payments : future'[q] = "resolved" => future[q] = "resolved" \/ q = p
      BY <1>15, <2>6 DEF HandlerRejects, Resolve, BenchInv, Types, PaymentTypes
    <3>3. QED
      BY <2>1, <2>4, <2>5, <3>1, <3>2 DEF BenchInv, Settlement
  <2>7. CASE ~(attempts'[p] >= MaxAttempts)
    <3>1. UNCHANGED <<deadLettering, future>>
      BY <1>15, <2>7 DEF HandlerRejects
    <3>2. attempts'[p] # MaxAttempts
      BY <2>2, <2>7, PaymentsAssumed
    <3>3. QED
      BY <2>1, <2>4, <2>5, <3>1, <3>2 DEF BenchInv, Settlement
  <2>8. QED
    BY <2>6, <2>7
<1>16. CASE DeadLetter
  <2>1. /\ UNCHANGED <<guarded, attempts, settling, charged, consumer, future>>
        /\ stream' = stream \ deadLettering /\ deadLettering # {}
        /\ deadLettering' = {} /\ consumer # "finished"
    BY <1>16 DEF DeadLetter, setup
  <2>2. deadLettering \subseteq stream /\ stream \subseteq Payments
    BY DEF BenchInv, Types, PaymentTypes
  <2>3. \A p \in deadLettering : dlq'[p] = 1
    BY <1>16, <2>2 DEF DeadLetter, BenchInv, Settlement
  <2>4. \A p \in Payments : p \notin deadLettering => dlq'[p] = dlq[p]
    BY <1>16 DEF DeadLetter
  <2>5. \A q : Poison(q)' <=> Poison(q)
    BY <2>1 DEF Poison
  <2>6. QED
    BY <2>1, <2>2, <2>3, <2>4, <2>5 DEF BenchInv, Settlement
<1>17. CASE ConsumerStops
  <2>1. UNCHANGED <<guarded, stream, attempts, settling, deadLettering, charged, dlq, future>>
        /\ (consumer' = "finished" => EmptyHanded)
    BY <1>17 DEF ConsumerStops, EmptyHanded, broker, setup
  <2>2. QED
    BY <2>1 DEF BenchInv, Settlement, Poison, EmptyHanded
<1>18. CASE ConsumerDies
  <2>1. UNCHANGED <<guarded, stream, attempts, settling, deadLettering, charged, dlq, future>>
        /\ (consumer' = "finished" => EmptyHanded)
    BY <1>18 DEF ConsumerDies, broker, setup
  <2>2. QED
    BY <2>1 DEF BenchInv, Settlement, Poison, EmptyHanded
<1>19. CASE ConsumerDiedCallback
  <2>1. UNCHANGED <<guarded, stream, attempts, settling, deadLettering, charged, dlq, consumer>>
        /\ \A p \in Payments : future'[p] = "resolved" => future[p] = "resolved"
    BY <1>19 DEF ConsumerDiedCallback, broker, setup
  <2>2. QED
    BY <2>1 DEF BenchInv, Settlement, Poison, EmptyHanded
<1>20. CASE UNCHANGED benchVars
  BY <1>20 DEF benchVars, BenchInv, Settlement, Poison, EmptyHanded
<1>21. QED
  BY <1>1, <1>2, <1>3, <1>4, <1>5, <1>6, <1>7, <1>8, <1>9, <1>10, <1>11, <1>12, <1>13,
     <1>14, <1>15, <1>16, <1>17, <1>18, <1>19, <1>20 DEF BenchNext, Worker, Harness, Consumer

(* A worker leaves its payment when it is resolved, and else fails or is cancelled.    *)
LEMMA UnresolvedStep ==
  ASSUME BenchInv, [BenchNext]_benchVars
  PROVE  Unresolved'
<1>1. ASSUME NEW w \in Workers, Admit(w) PROVE Unresolved'
  <2>1. payments \in Nat /\ at[w] = "admit"
    BY <1>1, PaymentsAssumed DEF Admit, BenchInv, Types, WorkTypes
  <2>2. CASE at' = [at EXCEPT ![w] = "failed"] /\ UNCHANGED <<op, payments, future>>
    <3>1. \A v \in Workers : v # w => at'[v] = at[v]
      BY <2>2 DEF BenchInv, Types, WorkTypes
    <3>2. QED
      BY <2>1, <2>2, <3>1 DEF BenchInv, Unresolved
  <2>3. CASE /\ at' = [at EXCEPT ![w] = "publish"] /\ payments' = payments + 1
             /\ op' = [op EXCEPT ![w] = payments + 1]
             /\ future' = [future EXCEPT ![payments + 1] = "pending"]
    <3>1. 1..payments \subseteq Payments /\ payments + 1 \notin 1..payments
      BY PaymentsAssumed DEF BenchInv, Types, WorkTypes
    <3>2. op'[w] = payments + 1 /\ at'[w] = "publish"
          /\ \A v \in Workers : v # w => at'[v] = at[v] /\ op'[v] = op[v]
      BY <2>3 DEF BenchInv, Types, WorkTypes
    <3>3. \A q \in 1..payments : future[q] = "resolved" => future'[q] = "resolved"
      BY <2>3, <3>1 DEF BenchInv, Types, PaymentTypes
    <3>4. \A q \in 1..payments' : q \in 1..payments \/ q = payments + 1
      BY <2>1, <2>3
    <3>5. QED
      BY <2>1, <3>2, <3>3, <3>4 DEF BenchInv, Unresolved
  <2>4. QED
    BY <1>1, <2>2, <2>3 DEF Admit, MoveTo
<1>2. ASSUME NEW w \in Workers, WorkerDone(w) PROVE Unresolved'
  <2>1. UNCHANGED <<op, payments, future>> /\ at[w] = "admit"
        /\ \A v \in Workers : v # w => at'[v] = at[v]
    BY <1>2 DEF WorkerDone, MoveTo, BenchInv, Types, WorkTypes
  <2>2. QED
    BY <2>1 DEF BenchInv, Unresolved
<1>3. ASSUME NEW w \in Workers, Publish(w) PROVE Unresolved'
  <2>1. UNCHANGED <<op, payments, future>> /\ at[w] \in {"publish", "admit"}
        /\ \A v \in Workers :
             at'[v] \in {"publish", "await", "failed", "cancelled"} \/ at'[v] = at[v]
    BY <1>3 DEF Publish, MoveTo, BenchInv, Types, WorkTypes
  <2>2. QED
    BY <2>1 DEF BenchInv, Unresolved
<1>4. ASSUME NEW w \in Workers, PublishFails(w) PROVE Unresolved'
  <2>1. UNCHANGED <<op, payments, future>> /\ at[w] \in {"publish", "admit"}
        /\ \A v \in Workers :
             at'[v] \in {"publish", "await", "failed", "cancelled"} \/ at'[v] = at[v]
    BY <1>4 DEF PublishFails, MoveTo, BenchInv, Types, WorkTypes
  <2>2. QED
    BY <2>1 DEF BenchInv, Unresolved
<1>5. ASSUME NEW w \in Workers, Awaited(w) PROVE Unresolved'
  <2>1. UNCHANGED <<op, payments, future>>
        /\ \A v \in Workers : v # w => at'[v] = at[v]
    BY <1>5 DEF Awaited, MoveTo, BenchInv, Types, WorkTypes
  <2>2. future[op[w]] = "resolved" \/ at'[w] = "failed"
    BY <1>5 DEF Awaited, MoveTo, BenchInv, Types, WorkTypes
  <2>3. QED
    BY <2>1, <2>2 DEF BenchInv, Unresolved
<1>6. CASE DurationPasses
  <2>1. UNCHANGED <<op, payments, at, future>>
    BY <1>6 DEF DurationPasses
  <2>2. QED
    BY <2>1 DEF BenchInv, Unresolved
<1>7. CASE StartMeasuring
  <2>1. UNCHANGED <<op, payments, future>> /\ \A w \in Workers : at[w] = "done"
    BY <1>7 DEF StartMeasuring
  <2>2. QED
    BY <2>1 DEF BenchInv, Unresolved
<1>8. CASE GatherRaises
  <2>1. UNCHANGED <<op, payments, at, future>>
    BY <1>8 DEF GatherRaises
  <2>2. QED
    BY <2>1 DEF BenchInv, Unresolved
<1>9. CASE GatherReturns
  <2>1. UNCHANGED <<op, payments, at, future>>
    BY <1>9 DEF GatherReturns
  <2>2. QED
    BY <2>1 DEF BenchInv, Unresolved
<1>10. CASE Summarise
  <2>1. UNCHANGED <<op, payments, at, future>>
    BY <1>10 DEF Summarise
  <2>2. QED
    BY <2>1 DEF BenchInv, Unresolved
<1>11. CASE BenchEnds
  <2>1. UNCHANGED <<op, payments, future>>
        /\ \A w \in Workers : at[w] \in {"publish", "await", "failed", "cancelled"} =>
             at'[w] \in {"failed", "cancelled"}
    BY <1>11 DEF BenchEnds
  <2>2. QED
    BY <2>1 DEF BenchInv, Unresolved
<1>12. CASE Sample
  <2>1. UNCHANGED <<op, payments, at, future>>
    BY <1>12 DEF Sample
  <2>2. QED
    BY <2>1 DEF BenchInv, Unresolved
<1>13. ASSUME NEW p \in Payments, HandlerCharges(p) PROVE Unresolved'
  <2>1. UNCHANGED <<op, payments, at>>
        /\ \A q \in Payments : future[q] = "resolved" => future'[q] = "resolved"
    BY <1>13 DEF HandlerCharges, Resolve, BenchInv, Types, PaymentTypes
  <2>2. 1..payments \subseteq Payments
    BY PaymentsAssumed DEF BenchInv, Types, WorkTypes
  <2>3. QED
    BY <2>1, <2>2 DEF BenchInv, Unresolved
<1>14. CASE MarkAndAck
  <2>1. UNCHANGED <<op, payments, at, future>>
    BY <1>14 DEF MarkAndAck
  <2>2. QED
    BY <2>1 DEF BenchInv, Unresolved
<1>15. ASSUME NEW p \in Payments, HandlerRejects(p) PROVE Unresolved'
  <2>1. UNCHANGED <<op, payments, at>>
        /\ \A q \in Payments : future[q] = "resolved" => future'[q] = "resolved"
    BY <1>15 DEF HandlerRejects, Resolve, BenchInv, Types, PaymentTypes
  <2>2. 1..payments \subseteq Payments
    BY PaymentsAssumed DEF BenchInv, Types, WorkTypes
  <2>3. QED
    BY <2>1, <2>2 DEF BenchInv, Unresolved
<1>16. CASE DeadLetter
  <2>1. UNCHANGED <<op, payments, at, future>>
    BY <1>16 DEF DeadLetter
  <2>2. QED
    BY <2>1 DEF BenchInv, Unresolved
<1>17. CASE ConsumerStops
  <2>1. UNCHANGED <<op, payments, at, future>>
    BY <1>17 DEF ConsumerStops
  <2>2. QED
    BY <2>1 DEF BenchInv, Unresolved
<1>18. CASE ConsumerDies
  <2>1. UNCHANGED <<op, payments, at, future>>
    BY <1>18 DEF ConsumerDies
  <2>2. QED
    BY <2>1 DEF BenchInv, Unresolved
<1>19. CASE ConsumerDiedCallback
  <2>1. UNCHANGED <<op, payments, at>>
        /\ \A q \in Payments : future[q] = "resolved" => future'[q] = "resolved"
    BY <1>19 DEF ConsumerDiedCallback
  <2>2. 1..payments \subseteq Payments
    BY PaymentsAssumed DEF BenchInv, Types, WorkTypes
  <2>3. QED
    BY <2>1, <2>2 DEF BenchInv, Unresolved
<1>20. CASE UNCHANGED benchVars
  BY <1>20 DEF benchVars, BenchInv, Unresolved
<1>21. QED
  BY <1>1, <1>2, <1>3, <1>4, <1>5, <1>6, <1>7, <1>8, <1>9, <1>10, <1>11, <1>12, <1>13,
     <1>14, <1>15, <1>16, <1>17, <1>18, <1>19, <1>20 DEF BenchNext, Worker, Harness, Consumer

-----------------------------------------------------------------------------
LEMMA BenchInitInv == BenchInit => BenchInv
<1> SUFFICES ASSUME BenchInit PROVE BenchInv
  OBVIOUS
<1>1. Types
  <2>1. FlagTypes /\ SamplerTypes
    BY DEF BenchInit, FlagTypes, SamplerTypes
  <2>2. WorkTypes
    BY PaymentsAssumed DEF BenchInit, WorkTypes
  <2>3. PaymentTypes
    BY PaymentsAssumed DEF BenchInit, PaymentTypes
  <2>4. QED
    BY <2>1, <2>2, <2>3 DEF Types
<1>2. WindowCounts
  <2>1. InFlight = {} /\ Failed = {}
    BY DEF BenchInit, InFlight, Failed
  <2>2. Cardinality(InFlight) = 0 /\ Cardinality(Failed) = 0
    BY <2>1, FS_EmptySet
  <2>3. QED
    BY <2>2, PaymentsAssumed DEF BenchInit, WindowCounts
<1>3. WindowFull /\ SamplingWindow
  BY DEF BenchInit, WindowFull, Passing, SamplingWindow
<1>4. OnePayer /\ Unpublished /\ Settlement
  BY PaymentsAssumed DEF BenchInit, OnePayer, Unpublished, Untouched, Settlement, EmptyHanded
<1>5. Unresolved
  BY DEF BenchInit, Unresolved
<1>6. QED
  BY <1>1, <1>2, <1>3, <1>4, <1>5 DEF BenchInv

LEMMA BenchInvHolds == BenchSpec => []BenchInv
<1>1. BenchInv /\ [BenchNext]_benchVars => BenchInv'
  BY FlagTypesStep, WorkTypesStep, PaymentTypesStep, SamplerTypesStep, WindowCountsStep,
     WindowFullStep, SamplingWindowStep, OnePayerStep, UnpublishedStep, SettlementStep,
     UnresolvedStep DEF BenchInv, Types
<1>2. QED
  BY BenchInitInv, <1>1, PTL DEF BenchSpec

(* The types hold whatever the concurrency, the windows, the poison rate and the  *)
(* retry budget.                                                             *)
THEOREM BenchTypeCorrect == BenchSpec => []BenchTypeOK
<1>1. BenchInv => BenchTypeOK
  BY TypesGiveTypeOK DEF BenchInv
<1>2. QED
  BY BenchInvHolds, <1>1, PTL

(* A result has workers, and each of them left a full window.                    *)
LEMMA ResultWindow ==
  ASSUME BenchInv, phase = "returned"
  PROVE  /\ started = latencies /\ (~timed => started = Ops)
         /\ \A w \in Workers : at[w] = "done"
<1>1. Passing /\ measuring /\ started = latencies /\ \A w \in Workers : at[w] = "done"
  BY DEF Passing, BenchInv, WindowFull
<1>2. PICK w \in Workers : TRUE
  BY WorkerAssumption
<1>3. ~timed => started >= Ops /\ started =< Ops
  BY <1>1, <1>2 DEF BenchInv, WindowFull, WindowCounts
<1>4. started \in Nat /\ Ops \in Nat
  BY PaymentsAssumed DEF BenchInv, Types, WorkTypes
<1>5. QED
  BY <1>1, <1>3, <1>4

(* "gating on admission is what keeps a concurrent count-window from             *)
(* overshooting its target" (bench.py:209), for any number of workers.            *)
THEOREM WindowHeld == BenchSpec => []WindowNotOvershot
<1>1. BenchInv => WindowNotOvershot
  BY ResultWindow DEF BenchInv, WindowCounts, WindowNotOvershot, Failed
<1>2. QED
  BY BenchInvHolds, <1>1, PTL

(* "Failures are *not* swallowed" (bench.py:33): a result is for workers, a          *)
(* sampler and a consumer that did not fail, and for payments each charged once or   *)
(* dead-lettered once.                                                         *)
THEOREM ResultIsComplete == BenchSpec => []ResultIsForWorkDone
<1>1. ASSUME BenchInv, phase = "returned"
      PROVE  /\ \A w \in Workers : at[w] = "done"
             /\ sampler = "off" /\ consumer = "finished"
             /\ \A p \in 1..payments : charged[p] + dlq[p] = 1
             /\ stream = {}
  <2>1. /\ \A w \in Workers : at[w] = "done"
        /\ sampler = "off" /\ consumer = "finished" /\ settling = {} /\ deadLettering = {}
    BY <1>1, ResultWindow
       DEF Passing, BenchInv, WindowFull, SamplingWindow, Settlement, EmptyHanded
  <2>2. \A p \in 1..payments : future[p] = "resolved"
    BY <1>1, <2>1 DEF BenchInv, Unresolved
  <2>3. 1..payments \subseteq Payments /\ \A p \in Payments : p \notin 1..payments => p > payments
    BY <1>1, PaymentsAssumed DEF BenchInv, Types, WorkTypes
  <2>4. ASSUME NEW p \in 1..payments PROVE charged[p] + dlq[p] = 1 /\ p \notin stream
    <3>1. p \in Payments /\ future[p] = "resolved"
      BY <2>2, <2>3
    <3>2. /\ charged[p] = 1 \/ dlq[p] = 1
          /\ charged[p] \in 0..1 /\ dlq[p] \in 0..1 /\ ~(charged[p] = 1 /\ dlq[p] = 1)
      BY <1>1, <2>1, <3>1 DEF BenchInv, Settlement
    <3>3. p \in stream => dlq[p] = 0 /\ charged[p] # 1
      BY <1>1, <2>1 DEF BenchInv, Settlement
    <3>4. QED
      BY <3>2, <3>3
  <2>5. \A p \in Payments : p \notin 1..payments => p \notin stream
    BY <1>1, <2>3 DEF BenchInv, Unpublished, Untouched
  <2>6. stream \subseteq Payments
    BY <1>1 DEF BenchInv, Types, PaymentTypes
  <2>7. QED
    BY <2>1, <2>4, <2>5, <2>6
<1>2. BenchInv => ResultIsForWorkDone
  BY <1>1 DEF ResultIsForWorkDone
<1>3. QED
  BY BenchInvHolds, <1>2, PTL

(* "the depth series and the throughput number describe the same interval"       *)
(* (bench.py:329).                                                            *)
THEOREM SeriesMatchesResult == BenchSpec => []SeriesSpansWindow
<1>1. BenchInv => SeriesSpansWindow
  BY TypesGiveTypeOK DEF BenchInv, SamplingWindow, SeriesSpansWindow
<1>2. QED
  BY BenchInvHolds, <1>1, PTL
=============================================================================
