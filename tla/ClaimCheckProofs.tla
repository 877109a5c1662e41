-------------------------- MODULE ClaimCheckProofs --------------------------
(***************************************************************************)
(* Proofs about ClaimCheck for every set of consumers, deleting or keeping,  *)
(* and every number of payloads, faults, kills and stops: type correctness,   *)
(* claims that are redeemable and honoured at most once, and orphans that     *)
(* each have a fault behind them.                                            *)
(***************************************************************************)
EXTENDS ClaimCheck, TLAPS, FiniteSetTheorems, SequenceTheorems

Holders == {c \in Consumers : pc[c] = "handle"}

(* A consumer outside its handler has no claim.                              *)
HandlersHold == \A c \in Consumers : pc[c] # "handle" => claim[c] = 0

(* A claim is in the queue once, or in one consumer's hand.                   *)
ClaimInOnePlace ==
  /\ \A i, j \in DOMAIN queue : queue[i] = queue[j] => i = j
  /\ \A c, d \in Holders : claim[c] = claim[d] => c = d
  /\ Range(queue) \cap InHand = {}

(* The payload of a claim that still travels, or of one that is not minted     *)
(* yet, has not been handled.                                                *)
TravellingUnhandled ==
  /\ \A i \in Live : i \in Ids /\ handled[i] = 0 /\ i \notin kept
  /\ \A i \in Ids : i > minted => handled[i] = 0

Inv ==
  /\ HandlersHold
  /\ ClaimInOnePlace
  /\ TravellingUnhandled
  /\ ClaimsHonoured

-----------------------------------------------------------------------------
(* Enqueueing adds a claim at the end, and no claim moves.                    *)
LEMMA Enqueued ==
  ASSUME NEW S, NEW q \in Seq(S), NEW x \in S
  PROVE  /\ Append(q, x) \in Seq(S)
         /\ Range(Append(q, x)) = Range(q) \cup {x}
         /\ (\A i, j \in DOMAIN q : q[i] = q[j] => i = j) /\ x \notin Range(q) =>
              \A i, j \in DOMAIN Append(q, x) : Append(q, x)[i] = Append(q, x)[j] => i = j
<1>1. /\ Append(q, x) \in Seq(S)
      /\ Len(Append(q, x)) = Len(q) + 1
      /\ Append(q, x)[Len(q) + 1] = x
      /\ \A i \in 1..Len(q) : Append(q, x)[i] = q[i]
  OBVIOUS
<1>2. DOMAIN q = 1..Len(q) /\ DOMAIN Append(q, x) = 1..(Len(q) + 1) /\ Len(q) \in Nat
  BY <1>1
<1>3. DOMAIN Append(q, x) = DOMAIN q \cup {Len(q) + 1} /\ Len(q) + 1 \notin DOMAIN q
  BY <1>2
<1>4. Range(Append(q, x)) = Range(q) \cup {x}
  BY <1>1, <1>2, <1>3 DEF Range
<1>5. ASSUME \A i, j \in DOMAIN q : q[i] = q[j] => i = j, x \notin Range(q),
             NEW i \in DOMAIN Append(q, x), NEW j \in DOMAIN Append(q, x),
             Append(q, x)[i] = Append(q, x)[j]
      PROVE  i = j
  <2>1. \A k \in DOMAIN q : q[k] # x
    BY <1>5 DEF Range
  <2>2. QED
    BY <1>1, <1>2, <1>3, <1>5, <2>1
<1>6. QED
  BY <1>1, <1>4, <1>5

(* Dequeueing takes the head away, and no claim moves.                        *)
LEMMA Dequeued ==
  ASSUME NEW S, NEW q \in Seq(S), q # <<>>
  PROVE  /\ Tail(q) \in Seq(S) /\ Head(q) \in S
         /\ Range(q) = Range(Tail(q)) \cup {Head(q)}
         /\ (\A i, j \in DOMAIN q : q[i] = q[j] => i = j) =>
              /\ Head(q) \notin Range(Tail(q))
              /\ \A i, j \in DOMAIN Tail(q) : Tail(q)[i] = Tail(q)[j] => i = j
<1>1. /\ Tail(q) \in Seq(S) /\ Head(q) \in S /\ Head(q) = q[1]
      /\ Len(q) \in Nat /\ Len(q) >= 1
      /\ Len(Tail(q)) = Len(q) - 1
      /\ \A i \in 1..Len(Tail(q)) : Tail(q)[i] = q[i + 1]
  OBVIOUS
<1>2. DOMAIN q = 1..Len(q) /\ DOMAIN Tail(q) = 1..(Len(q) - 1)
  BY <1>1
<1>3. \A i \in DOMAIN Tail(q) : i + 1 \in DOMAIN q /\ i + 1 # 1 /\ Tail(q)[i] = q[i + 1]
  BY <1>1, <1>2
<1>4. \A k \in DOMAIN q : k = 1 \/ (k - 1 \in DOMAIN Tail(q) /\ Tail(q)[k - 1] = q[k])
  BY <1>1, <1>2
<1>5. Range(q) = Range(Tail(q)) \cup {Head(q)}
  <2>1. ASSUME NEW x \in Range(q), x # Head(q) PROVE x \in Range(Tail(q))
    <3>1. PICK k \in DOMAIN q : x = q[k]
      BY DEF Range
    <3>2. k - 1 \in DOMAIN Tail(q) /\ Tail(q)[k - 1] = x
      BY <1>1, <1>4, <2>1, <3>1
    <3>3. QED
      BY <3>2 DEF Range
  <2>2. 1 \in DOMAIN q
    BY <1>1, <1>2
  <2>3. Range(Tail(q)) \cup {Head(q)} \subseteq Range(q)
    BY <1>1, <1>3, <2>2 DEF Range
  <2>4. QED
    BY <2>1, <2>3
<1>6. ASSUME \A i, j \in DOMAIN q : q[i] = q[j] => i = j
      PROVE  /\ Head(q) \notin Range(Tail(q))
             /\ \A i, j \in DOMAIN Tail(q) : Tail(q)[i] = Tail(q)[j] => i = j
  <2>1. 1 \in DOMAIN q
    BY <1>1, <1>2
  <2>2. Head(q) \notin Range(Tail(q))
    BY <1>1, <1>3, <1>6, <2>1 DEF Range
  <2>3. ASSUME NEW i \in DOMAIN Tail(q), NEW j \in DOMAIN Tail(q), Tail(q)[i] = Tail(q)[j]
        PROVE  i = j
    <3>1. i + 1 = j + 1
      BY <1>3, <1>6, <2>3
    <3>2. i \in Int /\ j \in Int
      BY <1>2
    <3>3. QED
      BY <3>1, <3>2
  <2>4. QED
    BY <2>2, <2>3
<1>7. QED
  BY <1>1, <1>5, <1>6
-----------------------------------------------------------------------------
(* What a step does to the hands.                                            *)

(* A consumer that moves from one place outside the handler to another.        *)
LEMMA HandsAlone ==
  ASSUME TypeOK, NEW c \in Consumers, NEW label \in PCs, label # "handle",
         pc[c] # "handle", Goto(c, label), UNCHANGED claim
  PROVE  /\ pc' \in [Consumers -> PCs] /\ Holders' = Holders /\ InHand' = InHand
         /\ HandlersHold => HandlersHold'
<1>1. pc' \in [Consumers -> PCs] /\ \A d \in Consumers : pc'[d] = IF d = c THEN label ELSE pc[d]
  BY DEF TypeOK, Goto
<1>2. Holders' = Holders
  BY <1>1 DEF Holders
<1>3. InHand' = InHand
  BY <1>2 DEF InHand, Holders
<1>4. HandlersHold => HandlersHold'
  BY <1>1 DEF HandlersHold
<1>5. QED
  BY <1>1, <1>2, <1>3, <1>4

(* A consumer that leaves its handler.                                       *)
LEMMA HandEmptied ==
  ASSUME Inv, NEW c \in Consumers, pc[c] = "handle", NEW label \in PCs, label # "handle",
         Goto(c, label), claim' = [claim EXCEPT ![c] = 0], UNCHANGED <<minted, queue>>
  PROVE  /\ pc' \in [Consumers -> PCs] /\ claim' \in [Consumers -> 0..minted']
         /\ claim[c] \in Live /\ claim[c] \in 1..minted /\ claim[c] \in Ids
         /\ Live' = Live \ {claim[c]}
         /\ HandlersHold' /\ ClaimInOnePlace'
<1>0. TypeOK
  BY DEF Inv, ClaimsHonoured
<1>1. /\ pc' \in [Consumers -> PCs] /\ claim' \in [Consumers -> 0..minted']
      /\ \A d \in Consumers : pc'[d] = IF d = c THEN label ELSE pc[d]
      /\ \A d \in Consumers : claim'[d] = IF d = c THEN 0 ELSE claim[d]
  BY <1>0 DEF TypeOK, Goto
<1>2. claim[c] \in InHand /\ c \in Holders
  BY DEF InHand, Holders
<1>3. claim[c] \in 1..minted /\ claim[c] \in Ids /\ claim[c] \in Live
  BY <1>0, <1>2 DEF Inv, ClaimsHonoured, Live, TypeOK, TravellingUnhandled
<1>4. Holders' = Holders \ {c}
  BY <1>1 DEF Holders
<1>5. InHand' = InHand \ {claim[c]}
  <2>1. InHand = {claim[d] : d \in Holders} /\ InHand' = {claim'[d] : d \in Holders'}
    BY DEF InHand, Holders
  <2>2. \A d \in Holders' : claim'[d] = claim[d] /\ claim[d] # claim[c] /\ d \in Holders
    BY <1>1, <1>2, <1>4 DEF Inv, ClaimInOnePlace, Holders
  <2>3. \A d \in Holders : d = c \/ (d \in Holders' /\ claim'[d] = claim[d])
    BY <1>1, <1>4 DEF Holders
  <2>4. QED
    BY <2>1, <2>2, <2>3
<1>6. Range(queue) \cap InHand = {}
  BY DEF Inv, ClaimInOnePlace
<1>7. Live' = Live \ {claim[c]}
  BY <1>2, <1>5, <1>6 DEF Live
<1>8. HandlersHold'
  BY <1>1 DEF Inv, HandlersHold
<1>9. ClaimInOnePlace'
  <2>1. \A d, e \in Holders' : claim'[d] = claim'[e] => d = e
    BY <1>1, <1>4 DEF Inv, ClaimInOnePlace, Holders
  <2>2. QED
    BY <1>5, <1>6, <2>1 DEF Inv, ClaimInOnePlace
<1>10. QED
  BY <1>1, <1>3, <1>7, <1>8, <1>9

(* A claim goes from the queue into a hand: it is redeemable, and the same       *)
(* claims travel as before.                                                  *)
LEMMA RedeemMoves ==
  ASSUME Inv, NEW c \in Consumers, pc[c] # "handle", Redeem(c)
  PROVE  Inv' /\ Live' = Live
<1> DEFINE h == Head(queue)
<1>0. TypeOK
  BY DEF Inv, ClaimsHonoured
<1>1. queue \in Seq(1..minted) /\ queue # <<>> /\ queue' = Tail(queue)
  BY <1>0 DEF Redeem, TypeOK
<1>2. /\ queue' \in Seq(1..minted) /\ h \in 1..minted
      /\ Range(queue) = Range(queue') \cup {h}
      /\ h \notin Range(queue')
      /\ \A i, j \in DOMAIN queue' : queue'[i] = queue'[j] => i = j
  <2>1. \A i, j \in DOMAIN queue : queue[i] = queue[j] => i = j
    BY DEF Inv, ClaimInOnePlace
  <2>2. /\ Tail(queue) \in Seq(1..minted) /\ Head(queue) \in 1..minted
        /\ Range(queue) = Range(Tail(queue)) \cup {Head(queue)}
        /\ Head(queue) \notin Range(Tail(queue))
        /\ \A i, j \in DOMAIN Tail(queue) : Tail(queue)[i] = Tail(queue)[j] => i = j
    BY <1>1, <2>1, Dequeued, Zenon
  <2>3. QED
    BY <1>1, <2>2, Zenon
<1>3. h \in Live /\ h \notin InHand
  BY <1>2 DEF Live, Inv, ClaimInOnePlace
<1>4. h \in store
  BY <1>3 DEF Inv, ClaimsHonoured
<1>5. /\ claim' = [claim EXCEPT ![c] = h] /\ Goto(c, "handle")
      /\ UNCHANGED <<minted, store, stopSet, handled, kept, env>>
  BY <1>4 DEF Redeem
<1>6. /\ pc' \in [Consumers -> PCs] /\ claim' \in [Consumers -> 0..minted]
      /\ \A d \in Consumers : pc'[d] = IF d = c THEN "handle" ELSE pc[d]
      /\ \A d \in Consumers : claim'[d] = IF d = c THEN h ELSE claim[d]
  BY <1>0, <1>2, <1>5 DEF TypeOK, Goto, PCs, Running
<1>7. Holders' = Holders \cup {c} /\ c \notin Holders
  BY <1>6 DEF Holders
<1>8. InHand' = InHand \cup {h}
  <2>1. InHand = {claim[d] : d \in Holders} /\ InHand' = {claim'[d] : d \in Holders'}
    BY DEF InHand, Holders
  <2>2. \A d \in Holders : claim'[d] = claim[d]
    BY <1>6, <1>7 DEF Holders
  <2>3. claim'[c] = h
    BY <1>6
  <2>4. QED
    BY <1>7, <2>1, <2>2, <2>3
<1>9. Live' = Live
  BY <1>2, <1>8 DEF Live
<1>10. HandlersHold'
  BY <1>6 DEF Inv, HandlersHold
<1>11. ClaimInOnePlace'
  <2>1. \A d \in Holders : claim[d] # h /\ claim'[d] = claim[d] /\ d # c
    BY <1>3, <1>6, <1>7 DEF InHand, Holders
  <2>2. claim'[c] = h
    BY <1>6
  <2>3. \A d, e \in Holders' : claim'[d] = claim'[e] => d = e
    BY <1>7, <2>1, <2>2 DEF Inv, ClaimInOnePlace
  <2>4. Range(queue') \cap InHand' = {}
    BY <1>2, <1>8 DEF Inv, ClaimInOnePlace
  <2>5. QED
    BY <1>2, <2>3, <2>4 DEF ClaimInOnePlace
<1>12. TypeOK'
  BY <1>0, <1>2, <1>5, <1>6 DEF TypeOK, env
<1>13. TravellingUnhandled' /\ ClaimsHonoured'
  BY <1>5, <1>9, <1>12 DEF Inv, TravellingUnhandled, ClaimsHonoured
<1>14. QED
  BY <1>9, <1>10, <1>11, <1>13 DEF Inv

(* A step that touches neither the store nor the queue nor a hand.             *)
LEMMA QuietStep ==
  ASSUME Inv, TypeOK', HandlersHold', Holders' = Holders, InHand' = InHand,
         UNCHANGED <<minted, store, queue, claim, handled, kept>>
  PROVE  Inv' /\ Live' = Live
<1>1. Live' = Live
  BY DEF Live
<1>2. ClaimInOnePlace'
  BY DEF Inv, ClaimInOnePlace
<1>3. TravellingUnhandled' /\ ClaimsHonoured'
  BY <1>1 DEF Inv, TravellingUnhandled, ClaimsHonoured
<1>4. QED
  BY <1>1, <1>2, <1>3 DEF Inv
-----------------------------------------------------------------------------
LEMMA InitInv == Init => Inv
<1>1. SUFFICES ASSUME Init PROVE Inv
  OBVIOUS
<1>2. TypeOK
  <2>1. minted \in 0..MaxPayloads /\ store \subseteq 1..minted /\ kept \subseteq 1..minted
    BY <1>1, BoundAssumption DEF Init
  <2>2. queue \in Seq(1..minted)
    BY <1>1 DEF Init
  <2>3. pc \in [Consumers -> PCs] /\ claim \in [Consumers -> 0..minted]
    BY <1>1, <2>1 DEF Init, PCs, Running
  <2>4. stopSet \in [Consumers -> BOOLEAN]
    BY <1>1, Zenon DEF Init
  <2>5. handled \in [Ids -> Nat]
    BY <1>1 DEF Init
  <2>6. faults \in 0..MaxFaults /\ crashes \in 0..MaxCrashes /\ stops \in 0..MaxStops
    BY <1>1, BoundAssumption DEF Init
  <2>7. QED
    BY <2>1, <2>2, <2>3, <2>4, <2>5, <2>6 DEF TypeOK
<1>3. Range(queue) = {} /\ Holders = {} /\ InHand = {} /\ Live = {}
  <2>1. Range(queue) = {}
    BY <1>1 DEF Init, Range
  <2>2. Holders = {} /\ InHand = {}
    BY <1>1 DEF Init, Holders, InHand
  <2>3. QED
    BY <2>1, <2>2 DEF Live
<1>4. HandlersHold /\ ClaimInOnePlace
  BY <1>1, <1>3 DEF Init, HandlersHold, ClaimInOnePlace
<1>5. TravellingUnhandled /\ ClaimsHonoured
  BY <1>1, <1>2, <1>3 DEF Init, TravellingUnhandled, ClaimsHonoured
<1>6. QED
  BY <1>4, <1>5 DEF Inv

(* A new claim id: its payload file is written, whether or not its claim is     *)
(* enqueued.                                                                 *)
LEMMA MintStep ==
  ASSUME Inv, minted < MaxPayloads, minted' = minted + 1, store' = store \cup {minted'},
         UNCHANGED <<pc, claim, stopSet, handled, kept>>,
         queue' = Append(queue, minted') \/ queue' = queue,
         faults' \in 0..MaxFaults, UNCHANGED <<crashes, stops>>
  PROVE  /\ Inv'
         /\ queue' = Append(queue, minted') => Live' = Live \cup {minted'}
         /\ queue' = queue => Live' = Live
<1> DEFINE new == minted + 1
<1>0. TypeOK
  BY DEF Inv, ClaimsHonoured
<1>1. minted \in Nat /\ new \in 1..new /\ new \notin 1..minted /\ 1..minted \subseteq 1..new
      /\ new \in Ids /\ 0..minted \subseteq 0..new /\ new \in 0..MaxPayloads
  BY <1>0, BoundAssumption DEF TypeOK, Ids
<1>2. queue \in Seq(1..new) /\ new \notin Range(queue)
  <2>1. queue \in Seq(1..minted)
    BY <1>0 DEF TypeOK
  <2>2. DOMAIN queue = 1..Len(queue) /\ \A i \in 1..Len(queue) : queue[i] \in 1..minted
    BY <2>1, ElementOfSeq, LenProperties
  <2>3. queue \in Seq(1..new)
    BY <1>1, <2>1, <2>2
  <2>4. new \notin Range(queue)
    BY <1>1, <2>2 DEF Range
  <2>5. QED
    BY <2>3, <2>4
<1>3. /\ queue' \in Seq(1..new)
      /\ \A i, j \in DOMAIN queue' : queue'[i] = queue'[j] => i = j
      /\ queue' = Append(queue, minted') => Range(queue') = Range(queue) \cup {new}
  <2>1. \A i, j \in DOMAIN queue : queue[i] = queue[j] => i = j
    BY DEF Inv, ClaimInOnePlace
  <2>2. CASE queue' = Append(queue, minted')
    <3>1. queue' = Append(queue, new)
      BY <2>2
    <3>2. /\ Append(queue, new) \in Seq(1..new)
          /\ Range(Append(queue, new)) = Range(queue) \cup {new}
          /\ \A i, j \in DOMAIN Append(queue, new) :
               Append(queue, new)[i] = Append(queue, new)[j] => i = j
      BY <1>1, <1>2, <2>1, Enqueued
    <3>3. QED
      BY <3>1, <3>2
  <2>3. CASE queue' = queue
    <3>1. queue # Append(queue, minted')
      <4>1. Len(Append(queue, minted')) = Len(queue) + 1 /\ Len(queue) \in Nat
        BY <1>2
      <4>2. QED
        BY <4>1
    <3>2. QED
      BY <1>2, <2>1, <2>3, <3>1
  <2>4. QED
    BY <2>2, <2>3
<1>4. Holders' = Holders /\ InHand' = InHand /\ new \notin InHand
  <2>1. Holders' = Holders /\ InHand' = InHand
    BY DEF Holders, InHand
  <2>2. QED
    BY <1>0, <1>1, <2>1 DEF Inv, ClaimsHonoured, Live, TypeOK
<1>5. Live' = Live \cup {new} \/ Live' = Live
  BY <1>3, <1>4 DEF Live
<1>6. TypeOK'
  <2>1. claim' \in [Consumers -> 0..minted']
    BY <1>0, <1>1 DEF TypeOK
  <2>2. store' \subseteq 1..minted' /\ kept' \subseteq 1..minted'
    BY <1>0, <1>1 DEF TypeOK
  <2>3. QED
    BY <1>0, <1>1, <1>3, <2>1, <2>2 DEF TypeOK
<1>7. HandlersHold' /\ ClaimInOnePlace'
  <2>1. HandlersHold'
    BY DEF Inv, HandlersHold
  <2>2. \A c, d \in Holders' : claim'[c] = claim'[d] => c = d
    BY <1>4 DEF Inv, ClaimInOnePlace
  <2>3. Range(queue') \cap InHand' = {}
    BY <1>3, <1>4 DEF Inv, ClaimInOnePlace
  <2>4. QED
    BY <1>3, <2>1, <2>2, <2>3 DEF ClaimInOnePlace
<1>8. handled[new] = 0 /\ new \notin kept
  BY <1>0, <1>1 DEF Inv, TravellingUnhandled, TypeOK
<1>9. TravellingUnhandled'
  <2>1. \A i \in Ids : i > new => i > minted
    BY <1>1 DEF Ids
  <2>2. QED
    BY <1>1, <1>5, <1>8, <2>1 DEF Inv, TravellingUnhandled
<1>10. ClaimsHonoured'
  <2>1. (1..new) \ store' \subseteq (1..minted) \ store
    BY <1>1
  <2>2. QED
    BY <1>1, <1>5, <1>6, <2>1 DEF Inv, ClaimsHonoured
<1>11. QED
  BY <1>3, <1>4, <1>7, <1>9, <1>10 DEF Inv, Live

(* The handler's effect happens once: its claim travelled until now.            *)
LEMMA ReturnStep ==
  ASSUME Inv, NEW c \in Consumers, HandlerReturns(c)
  PROVE  Inv'
<1> DEFINE i == claim[c]
<1>0. TypeOK
  BY DEF Inv, ClaimsHonoured
<1>1. /\ pc' \in [Consumers -> PCs] /\ claim' \in [Consumers -> 0..minted']
      /\ i \in Live /\ i \in 1..minted /\ i \in Ids
      /\ Live' = Live \ {i}
      /\ HandlersHold' /\ ClaimInOnePlace'
  BY HandEmptied DEF HandlerReturns, PCs, Running
<1>2. /\ handled[i] = 0
      /\ handled' \in [Ids -> Nat]
      /\ \A j \in Ids : handled'[j] = IF j = i THEN 1 ELSE handled[j]
  BY <1>0, <1>1 DEF Inv, TravellingUnhandled, TypeOK, HandlerReturns
<1>3. /\ store' \subseteq store /\ store \subseteq store' \cup {i}
      /\ kept' \subseteq kept \cup {i}
      /\ UNCHANGED <<minted, queue, stopSet, env>>
  BY DEF HandlerReturns, Reclaim
<1>4. TypeOK'
  BY <1>0, <1>1, <1>2, <1>3 DEF TypeOK, env
<1>5. TravellingUnhandled'
  <2>1. ~(i > minted)
    BY <1>0, <1>1 DEF TypeOK
  <2>2. QED
    BY <1>1, <1>2, <1>3, <2>1 DEF Inv, TravellingUnhandled
<1>6. ClaimsHonoured'
  <2>1. Live' \subseteq store'
    BY <1>1, <1>3 DEF Inv, ClaimsHonoured
  <2>2. \A j \in Ids : handled'[j] =< 1
    BY <1>2 DEF Inv, ClaimsHonoured
  <2>3. \A j \in (1..minted) \ store' : j \in Ids /\ (j = i \/ j \in (1..minted) \ store)
    BY <1>0, <1>3, BoundAssumption DEF TypeOK, Ids
  <2>4. \A j \in (1..minted') \ store' : handled'[j] = 1
    BY <1>2, <1>3, <2>3 DEF Inv, ClaimsHonoured
  <2>5. QED
    BY <1>4, <2>1, <2>2, <2>4 DEF ClaimsHonoured
<1>7. QED
  BY <1>1, <1>5, <1>6 DEF Inv

(* A kill between a handler and its delete counts the handling, and nothing     *)
(* travels afterwards.                                                       *)
LEMMA CrashStep ==
  ASSUME Inv, Crash
  PROVE  Inv'
<1>0. TypeOK
  BY DEF Inv, ClaimsHonoured
<1>1. PICK done \in SUBSET Holders :
        handled' = [i \in Ids |-> IF \E c \in done : claim[c] = i
                                  THEN handled[i] + 1 ELSE handled[i]]
  BY DEF Crash, Holders
<1>2. /\ queue' = <<>> /\ crashes' \in 0..MaxCrashes
      /\ pc' = [c \in Consumers |-> "ended"] /\ claim' = [c \in Consumers |-> 0]
      /\ UNCHANGED <<minted, store, stopSet, kept, faults, stops>>
  BY <1>0, BoundAssumption DEF Crash, TypeOK
<1>3. Range(queue') = {} /\ Holders' = {} /\ InHand' = {} /\ Live' = {}
  <2>1. Range(queue') = {}
    BY <1>2 DEF Range
  <2>2. Holders' = {} /\ InHand' = {}
    BY <1>2 DEF Holders, InHand
  <2>3. QED
    BY <2>1, <2>2 DEF Live
<1>4. TypeOK'
  <2>1. minted \in Nat
    BY <1>0 DEF TypeOK
  <2>2. queue' \in Seq(1..minted')
    BY <1>2
  <2>3. pc' \in [Consumers -> PCs] /\ claim' \in [Consumers -> 0..minted']
    BY <1>2, <2>1 DEF PCs
  <2>4. handled' \in [Ids -> Nat]
    BY <1>0, <1>1 DEF TypeOK
  <2>5. QED
    BY <1>0, <1>2, <2>2, <2>3, <2>4 DEF TypeOK
<1>5. HandlersHold' /\ ClaimInOnePlace'
  BY <1>2, <1>3 DEF HandlersHold, ClaimInOnePlace
<1>6. \A i \in Ids : /\ handled[i] \in {0, 1} /\ handled'[i] \in {0, 1}
                     /\ handled[i] = 1 => handled'[i] = 1
                     /\ i > minted => handled'[i] = 0
  <2>1. SUFFICES ASSUME NEW i \in Ids
                 PROVE  /\ handled[i] \in {0, 1} /\ handled'[i] \in {0, 1}
                        /\ handled[i] = 1 => handled'[i] = 1
                        /\ i > minted => handled'[i] = 0
    OBVIOUS
  <2>2. handled[i] \in {0, 1} /\ (i > minted => handled[i] = 0)
    BY <1>0 DEF Inv, ClaimsHonoured, TravellingUnhandled, TypeOK
  <2>3. CASE \E c \in done : claim[c] = i
    <3>1. i \in Live
      BY <2>3 DEF Live, InHand, Holders
    <3>2. handled[i] = 0 /\ ~(i > minted)
      BY <1>0, <3>1 DEF Inv, TravellingUnhandled, ClaimsHonoured, TypeOK
    <3>3. QED
      BY <1>1, <2>3, <3>2
  <2>4. CASE ~\E c \in done : claim[c] = i
    BY <1>1, <2>2, <2>4
  <2>5. QED
    BY <2>3, <2>4
<1>7. TravellingUnhandled'
  BY <1>2, <1>3, <1>6 DEF TravellingUnhandled
<1>8. ClaimsHonoured'
  <2>1. 1..minted \subseteq Ids
    BY <1>0, BoundAssumption DEF TypeOK, Ids
  <2>2. QED
    BY <1>2, <1>3, <1>4, <1>6, <2>1 DEF Inv, ClaimsHonoured
<1>9. QED
  BY <1>5, <1>7, <1>8 DEF Inv

(* A handler that raises drops its claim and leaves the file.                  *)
LEMMA RaiseStep ==
  ASSUME Inv, NEW c \in Consumers, HandlerRaises(c)
  PROVE  Inv' /\ Live' = Live \ {claim[c]} /\ claim[c] \in Live
<1>0. TypeOK
  BY DEF Inv, ClaimsHonoured
<1>1. /\ pc' \in [Consumers -> PCs] /\ claim' \in [Consumers -> 0..minted']
      /\ Live' = Live \ {claim[c]} /\ claim[c] \in Live
      /\ HandlersHold' /\ ClaimInOnePlace'
  BY HandEmptied DEF HandlerRaises, PCs
<1>2. TypeOK'
  BY <1>0, <1>1, BoundAssumption DEF HandlerRaises, Fault, TypeOK
<1>3. TravellingUnhandled' /\ ClaimsHonoured'
  BY <1>1, <1>2 DEF Inv, TravellingUnhandled, ClaimsHonoured, HandlerRaises
<1>4. QED
  BY <1>1, <1>3 DEF Inv

(* A consumer that waits, ends, comes back or is told to stop.                 *)
LEMMA MoveStep ==
  ASSUME Inv, NEW c \in Consumers,
         \/ pc[c] # "handle" /\ Goto(c, "ended") /\ UNCHANGED <<stopSet, stops>>
         \/ pc[c] # "handle" /\ Goto(c, "waiting") /\ UNCHANGED <<stopSet, stops>>
         \/ pc[c] # "handle" /\ Goto(c, "top") /\ UNCHANGED <<stopSet, stops>>
         \/ Restart(c) \/ SetStop(c),
         UNCHANGED <<minted, store, queue, claim, handled, kept, faults, crashes>>
  PROVE  Inv' /\ Live' = Live
<1>0. TypeOK /\ HandlersHold
  BY DEF Inv, ClaimsHonoured
<1>1. {"ended", "waiting", "top"} \subseteq PCs \ {"handle"}
  BY DEF PCs, Running
<1>2. /\ pc' \in [Consumers -> PCs] /\ Holders' = Holders /\ InHand' = InHand
      /\ HandlersHold'
  <2>1. CASE SetStop(c)
    BY <1>0, <2>1 DEF SetStop, TypeOK, Holders, InHand, HandlersHold
  <2>2. CASE Restart(c)
    BY <1>0, <1>1, <2>2, HandsAlone DEF Restart
  <2>3. QED
    BY <1>0, <1>1, <2>1, <2>2, HandsAlone
<1>3. stopSet' \in [Consumers -> BOOLEAN] /\ stops' \in 0..MaxStops
  <2>1. stopSet' \in [Consumers -> BOOLEAN]
    <3>1. stopSet \in [Consumers -> BOOLEAN]
      BY <1>0, Zenon DEF TypeOK
    <3>2. \/ stopSet' = stopSet \/ stopSet' = [stopSet EXCEPT ![c] = TRUE]
          \/ stopSet' = [stopSet EXCEPT ![c] = FALSE]
      BY Zenon DEF Restart, SetStop
    <3>3. QED
      BY <3>1, <3>2
  <2>2. stops' \in 0..MaxStops
    BY <1>0, BoundAssumption DEF TypeOK, Restart, SetStop, env
  <2>3. QED
    BY <2>1, <2>2
<1>4. TypeOK'
  BY <1>0, <1>2, <1>3 DEF TypeOK
<1>5. QED
  BY <1>2, <1>4, QuietStep

LEMMA NextInv ==
  ASSUME Inv, Next
  PROVE  Inv'
<1>0. TypeOK
  BY DEF Inv, ClaimsHonoured
<1>1. CASE publish
  BY <1>0, <1>1, MintStep DEF publish, env, TypeOK
<1>2. CASE PutRaises
  <2>1. faults' \in 0..MaxFaults
    BY <1>0, <1>2, BoundAssumption DEF PutRaises, Fault, TypeOK
  <2>2. CASE minted' = minted + 1 /\ store' = store \cup {minted'}
    BY <1>2, <2>1, <2>2, MintStep DEF PutRaises
  <2>3. CASE UNCHANGED <<minted, store>>
    <3>1. TypeOK' /\ HandlersHold' /\ Holders' = Holders /\ InHand' = InHand
      BY <1>0, <1>2, <2>1, <2>3 DEF PutRaises, TypeOK, Inv, HandlersHold, Holders, InHand
    <3>2. QED
      BY <1>2, <2>3, <3>1, QuietStep DEF PutRaises
  <2>4. QED
    BY <1>2, <2>2, <2>3 DEF PutRaises
<1>3. CASE Crash
  BY <1>3, CrashStep
<1>4. ASSUME NEW c \in Consumers, LoopTop(c) PROVE Inv'
  <2>1. CASE Redeem(c)
    BY <1>4, <2>1, RedeemMoves DEF LoopTop
  <2>2. CASE ~Redeem(c)
    BY <1>4, <2>2, MoveStep DEF LoopTop, env
  <2>3. QED
    BY <2>1, <2>2
<1>5. ASSUME NEW c \in Consumers, Wake(c) PROVE Inv'
  BY <1>5, RedeemMoves DEF Wake
<1>6. ASSUME NEW c \in Consumers, TimesOut(c) PROVE Inv'
  BY <1>6, MoveStep DEF TimesOut, env
<1>7. ASSUME NEW c \in Consumers, SetStop(c) \/ Restart(c) PROVE Inv'
  BY <1>7, MoveStep DEF SetStop, Restart, env
<1>8. QED
  BY <1>1, <1>2, <1>3, <1>4, <1>5, <1>6, <1>7, ReturnStep, RaiseStep DEF Next, Consumer

LEMMA StutterInv ==
  ASSUME Inv, UNCHANGED vars
  PROVE  Inv' /\ Live' = Live
<1>1. TypeOK' /\ HandlersHold' /\ Holders' = Holders /\ InHand' = InHand
  BY DEF vars, Inv, ClaimsHonoured, TypeOK, HandlersHold, Holders, InHand
<1>2. QED
  BY <1>1, QuietStep DEF vars

(* Inv is an invariant of the specification.                                 *)
LEMMA InvHolds == Spec => []Inv
<1>1. Inv /\ [Next]_vars => Inv'
  BY NextInv, StutterInv
<1>2. QED
  BY InitInv, <1>1, PTL DEF Spec

-----------------------------------------------------------------------------
(* Type correctness of the claim check, for every instance.                    *)
THEOREM TypeCorrect == Spec => []TypeOK
<1>1. Inv => TypeOK
  BY DEF Inv, ClaimsHonoured
<1>2. QED
  BY <1>1, InvHolds, PTL

(* However many consumers share the queue, delete or keep, die and come back:   *)
(* a claim that travels has its file, no payload is handled twice, and none is   *)
(* destroyed unhandled.                                                       *)
THEOREM ClaimsAreHonoured == Spec => []ClaimsHonoured
<1>1. Inv => ClaimsHonoured
  BY DEF Inv
<1>2. QED
  BY <1>1, InvHolds, PTL

-----------------------------------------------------------------------------
(* The files there are, for the count of orphans.                             *)
LEMMA OrphansFinite ==
  ASSUME Inv
  PROVE  IsFiniteSet(Orphans) /\ Cardinality(Orphans) \in Nat /\ faults \in Nat /\ crashes \in Nat
<1>1. TypeOK
  BY DEF Inv, ClaimsHonoured
<1>2. minted \in Int /\ faults \in Nat /\ crashes \in Nat
  BY <1>1, BoundAssumption DEF TypeOK
<1>3. IsFiniteSet(1..minted)
  BY <1>2, FS_Interval
<1>4. Orphans \in SUBSET (1..minted)
  BY <1>1 DEF TypeOK, Orphans
<1>5. IsFiniteSet(Orphans)
  BY <1>3, <1>4, FS_Subset
<1>6. QED
  BY <1>2, <1>5, FS_CardinalityType

(* A step that makes no orphan, and one that makes one and is a fault.          *)
LEMMA OrphanCharge ==
  ASSUME Inv, OrphansNeedFault, crashes' = 0 => crashes = 0,
         \/ Orphans' \subseteq Orphans /\ faults' = faults
         \/ (\E x : Orphans' \subseteq Orphans \cup {x}) /\ faults' = faults + 1
         \/ crashes' # 0
  PROVE  OrphansNeedFault'
<1>1. IsFiniteSet(Orphans) /\ Cardinality(Orphans) \in Nat /\ faults \in Nat
  BY OrphansFinite
<1>2. SUFFICES ASSUME crashes' = 0 PROVE Cardinality(Orphans') =< faults'
  BY DEF OrphansNeedFault
<1>3. Cardinality(Orphans) =< faults
  BY <1>2 DEF OrphansNeedFault
<1>4. CASE Orphans' \subseteq Orphans /\ faults' = faults
  <2>1. IsFiniteSet(Orphans') /\ Cardinality(Orphans') =< Cardinality(Orphans)
    BY <1>1, <1>4, FS_Subset
  <2>2. Cardinality(Orphans') \in Nat
    BY <2>1, FS_CardinalityType
  <2>3. QED
    BY <1>1, <1>3, <1>4, <2>1, <2>2
<1>5. CASE (\E x : Orphans' \subseteq Orphans \cup {x}) /\ faults' = faults + 1
  <2>1. PICK x : Orphans' \subseteq Orphans \cup {x}
    BY <1>5
  <2>2. /\ IsFiniteSet(Orphans \cup {x})
        /\ Cardinality(Orphans \cup {x}) \in {Cardinality(Orphans), Cardinality(Orphans) + 1}
    BY <1>1, FS_AddElement
  <2>3. IsFiniteSet(Orphans') /\ Cardinality(Orphans') =< Cardinality(Orphans \cup {x})
    BY <2>1, <2>2, FS_Subset
  <2>4. Cardinality(Orphans') \in Nat
    BY <2>3, FS_CardinalityType
  <2>5. QED
    BY <1>1, <1>3, <1>5, <2>2, <2>3, <2>4
<1>6. QED
  BY <1>2, <1>4, <1>5

LEMMA NextOrphans ==
  ASSUME Inv, OrphansNeedFault, Next
  PROVE  OrphansNeedFault'
<1>0. TypeOK
  BY DEF Inv, ClaimsHonoured
<1>1. CASE publish
  <2>1. Live' = Live \cup {minted'}
    BY <1>0, <1>1, MintStep DEF publish, env, TypeOK
  <2>2. Orphans' \subseteq Orphans
    BY <1>1, <2>1 DEF Orphans, publish
  <2>3. QED
    BY <1>1, <2>2, OrphanCharge DEF publish, env
<1>2. CASE PutRaises
  <2>1. Live' = Live
    BY <1>2 DEF PutRaises, Live, InHand
  <2>2. Orphans' \subseteq Orphans \cup {minted'}
    BY <1>2, <2>1 DEF PutRaises, Orphans
  <2>3. QED
    BY <1>2, <2>2, OrphanCharge DEF PutRaises, Fault
<1>3. CASE Crash
  <2>1. crashes' # 0
    BY <1>0, <1>3 DEF Crash, TypeOK
  <2>2. QED
    BY <2>1, OrphanCharge
<1>4. ASSUME Live' = Live, UNCHANGED <<store, kept, faults, crashes>> PROVE OrphansNeedFault'
  <2>1. Orphans' = Orphans
    BY <1>4 DEF Orphans
  <2>2. QED
    BY <1>4, <2>1, OrphanCharge
<1>5. ASSUME NEW c \in Consumers, LoopTop(c) \/ Wake(c) PROVE OrphansNeedFault'
  <2>1. CASE Redeem(c)
    BY <1>4, <1>5, <2>1, RedeemMoves DEF LoopTop, Wake, Redeem, env
  <2>2. CASE ~Redeem(c)
    BY <1>4, <1>5, <2>2, MoveStep DEF LoopTop, Wake, env
  <2>3. QED
    BY <2>1, <2>2
<1>6. ASSUME NEW c \in Consumers, TimesOut(c) PROVE OrphansNeedFault'
  BY <1>4, <1>6, MoveStep DEF TimesOut, env
<1>7. ASSUME NEW c \in Consumers, SetStop(c) \/ Restart(c) PROVE OrphansNeedFault'
  BY <1>4, <1>7, MoveStep DEF SetStop, Restart, env
<1>8. ASSUME NEW c \in Consumers, HandlerReturns(c) PROVE OrphansNeedFault'
  <2>1. Live' = Live \ {claim[c]}
    BY <1>8, HandEmptied DEF HandlerReturns, PCs, Running
  <2>2. Orphans' \subseteq Orphans
    BY <1>8, <2>1 DEF Orphans, HandlerReturns, Reclaim
  <2>3. QED
    BY <1>8, <2>2, OrphanCharge DEF HandlerReturns, env
<1>9. ASSUME NEW c \in Consumers, HandlerRaises(c) PROVE OrphansNeedFault'
  <2>1. Orphans' \subseteq Orphans \cup {claim[c]}
    BY <1>9, RaiseStep DEF Orphans, HandlerRaises
  <2>2. QED
    BY <1>9, <2>1, OrphanCharge DEF HandlerRaises, Fault
<1>10. QED
  BY <1>1, <1>2, <1>3, <1>5, <1>6, <1>7, <1>8, <1>9 DEF Next, Consumer

(* As long as the process lives, stops, restarts and timeouts that race with    *)
(* arriving claims leave no orphan: each takes a failed write or handler.        *)
THEOREM OrphansPaidFor == Spec => []OrphansNeedFault
<1>1. Init => OrphansNeedFault
  <2>1. ASSUME Init PROVE Orphans = {} /\ faults = 0
    BY <2>1 DEF Init, Orphans
  <2>2. QED
    BY <2>1, FS_EmptySet DEF OrphansNeedFault
<1>2. Inv /\ OrphansNeedFault /\ [Next]_vars => OrphansNeedFault'
  <2>1. ASSUME Inv, OrphansNeedFault, UNCHANGED vars PROVE OrphansNeedFault'
    <3>1. Orphans' = Orphans
      BY <2>1, StutterInv DEF Orphans, vars
    <3>2. QED
      BY <2>1, <3>1 DEF OrphansNeedFault, vars
  <2>2. QED
    BY <2>1, NextOrphans
<1>3. QED
  BY <1>1, <1>2, InvHolds, PTL DEF Spec
=============================================================================
