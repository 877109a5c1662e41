------------------------- MODULE OrchestrationProofs -------------------------
(***************************************************************************)
(* Proofs about the two programs that conduct several services:             *)
(* ScatterGather for every set of searches and every finite set of          *)
(* airlines, on a queue per search and on the benchmark's common queue      *)
(* (types, the isolation of concurrent searches, no answer missed, nothing  *)
(* absorbed once a search is over), and Saga for every set of orders, read  *)
(* size and number of kills and stops (types, the outcome of an order on    *)
(* its streams).                                                            *)
(***************************************************************************)
EXTENDS ScatterGather, Saga, StreamOpsProofs, SequenceTheorems, FiniteSetTheorems, TLAPS

-----------------------------------------------------------------------------
(* ScatterGather.                                                           *)

(* What the proofs need to know of a queue: what is in it, and whether once.    *)
Has(queue, x) == \E k \in DOMAIN queue : queue[k] = x
Distinct(queue) == \A k, l \in DOMAIN queue : queue[k] = queue[l] => k = l

(* The parts of TypeOK.                                                      *)
FlagTypes ==
  /\ shared \in BOOLEAN /\ stop \in BOOLEAN
  /\ overlapped \in BOOLEAN /\ expired \in [Searches -> BOOLEAN]
QueueTypes ==
  /\ subscribers \subseteq Queues
  /\ requests \in [Airlines -> Seq(Searches)] /\ responses \in [Queues -> Seq(Quotes)]
SearchTypes ==
  /\ phase \in [Searches -> {"idle", "gather", "returned", "failed"}]
  /\ expected \in [Searches -> 0..Cardinality(Airlines)]
  /\ collected \in [Searches -> Seq(Quotes)]
  /\ answered \in [Searches -> SUBSET Airlines]
AirlineTypes ==
  /\ service \in [Airlines -> {"poll", "lookup", "stopped"}]
  /\ inHand \in [Airlines -> SUBSET Searches]
Types == FlagTypes /\ QueueTypes /\ SearchTypes /\ AirlineTypes

(* An airline has been asked and has not settled the request.                  *)
Asked(s, a) == Has(requests[a], s) \/ s \in inHand[a]

(* The response topic has the subscribers whose searches are in progress.       *)
Subscribed == subscribers = IF shared THEN {Common} ELSE Active

(* A search asks each airline once.                                          *)
AskedOnce ==
  /\ \A a \in Airlines : Distinct(requests[a])
  /\ \A a \in Airlines : \A s \in inHand[a] : ~Has(requests[a], s)
  /\ \A s \in Searches, a \in Airlines : Asked(s, a) => phase[s] # "idle"

(* The answer of an airline is under way once: asked, queued or kept.           *)
AnsweredOnce ==
  /\ \A q \in Queues : Distinct(responses[q])
  /\ \A s \in Searches : Distinct(collected[s])
  /\ \A q \in Queues, s \in Searches, a \in Airlines :
       Has(responses[q], QuoteOf(s, a)) => ~Asked(s, a) /\ phase[s] # "idle"
  /\ \A s \in Searches, a \in Airlines :
       Has(collected[s], QuoteOf(s, a)) =>
         /\ ~Asked(s, a) /\ phase[s] # "idle"
         /\ ~Has(responses[queueOf(s)], QuoteOf(s, a))

(* A gather keeps answers to its own search only.                             *)
OwnKept == \A s \in Searches : \A k \in DOMAIN collected[s] : collected[s][k].search = s

(* What is observed of the searches in progress; on the common queue, of the     *)
(* only one.                                                                *)
Observed ==
  /\ \A s \in Searches : s \notin Active => answered[s] = {}
  /\ shared /\ ~overlapped => \A s, t \in Active : s = t
  /\ ~overlapped => \A s \in Active, a \in Airlines :
       a \in answered[s] <=> \/ Has(collected[s], QuoteOf(s, a))
                             \/ Has(responses[queueOf(s)], QuoteOf(s, a))

Inv == Types /\ Subscribed /\ AskedOnce /\ AnsweredOnce /\ OwnKept /\ Observed

-----------------------------------------------------------------------------
(* A queue that grows at its end.                                            *)
LEMMA AppendHas ==
  ASSUME NEW S, NEW queue \in Seq(S), NEW x \in S
  PROVE  /\ Append(queue, x) \in Seq(S)
         /\ \A y : Has(Append(queue, x), y) <=> Has(queue, y) \/ y = x
         /\ Distinct(queue) /\ ~Has(queue, x) => Distinct(Append(queue, x))
         /\ \A k \in DOMAIN Append(queue, x) :
              Append(queue, x)[k] = x \/ (k \in DOMAIN queue /\ Append(queue, x)[k] = queue[k])
<1> DEFINE longer == Append(queue, x)
<1>1. /\ longer \in Seq(S) /\ Len(queue) \in Nat /\ Len(longer) = Len(queue) + 1
      /\ \A k \in 1..Len(queue) : longer[k] = queue[k]
      /\ longer[Len(queue) + 1] = x
  OBVIOUS
<1>2. DOMAIN queue = 1..Len(queue) /\ DOMAIN longer = 1..(Len(queue) + 1)
  BY <1>1, LenProperties
<1> HIDE DEF longer
<1>3. \A y : Has(longer, y) <=> Has(queue, y) \/ y = x
  BY <1>1, <1>2 DEF Has
<1>4. Distinct(queue) /\ ~Has(queue, x) => Distinct(longer)
  BY <1>1, <1>2 DEF Has, Distinct
<1>5. \A k \in DOMAIN longer : longer[k] = x \/ (k \in DOMAIN queue /\ longer[k] = queue[k])
  BY <1>1, <1>2
<1>6. QED
  BY <1>1, <1>3, <1>4, <1>5 DEF longer

(* A queue whose head is taken.                                              *)
LEMMA TailHas ==
  ASSUME NEW S, NEW queue \in Seq(S), queue # <<>>
  PROVE  /\ Tail(queue) \in Seq(S) /\ Head(queue) \in S
         /\ \A y : Has(queue, y) <=> y = Head(queue) \/ Has(Tail(queue), y)
         /\ Distinct(queue) => Distinct(Tail(queue)) /\ ~Has(Tail(queue), Head(queue))
<1>1. /\ Tail(queue) \in Seq(S) /\ Head(queue) \in S /\ Len(queue) \in Nat \ {0}
      /\ Len(Tail(queue)) = Len(queue) - 1 /\ Head(queue) = queue[1]
      /\ \A k \in 1..Len(Tail(queue)) : Tail(queue)[k] = queue[k + 1]
  BY HeadTailProperties, EmptySeq, LenProperties
<1>2. DOMAIN queue = 1..Len(queue) /\ DOMAIN Tail(queue) = 1..Len(Tail(queue))
  BY <1>1, LenProperties
<1>3. \A k \in 1..Len(queue) : k = 1 \/ (k - 1 \in 1..Len(Tail(queue)) /\ (k - 1) + 1 = k)
  BY <1>1
<1>4. \A k \in 1..Len(Tail(queue)) : k + 1 \in 1..Len(queue) /\ k + 1 # 1
  BY <1>1
<1>5. \A y : Has(queue, y) <=> y = Head(queue) \/ Has(Tail(queue), y)
  <2>1. ASSUME NEW y, Has(queue, y)
        PROVE  y = Head(queue) \/ Has(Tail(queue), y)
    <3>1. PICK k \in 1..Len(queue) : queue[k] = y
      BY <1>2, <2>1 DEF Has
    <3>2. CASE k = 1
      BY <1>1, <3>1, <3>2
    <3>3. CASE k # 1
      <4>1. k - 1 \in 1..Len(Tail(queue)) /\ Tail(queue)[k - 1] = y
        BY <1>1, <1>3, <3>1, <3>3
      <4>2. QED
        BY <1>2, <4>1 DEF Has
    <3>4. QED
      BY <3>2, <3>3
  <2>2. ASSUME NEW y, y = Head(queue) \/ Has(Tail(queue), y)
        PROVE  Has(queue, y)
    <3>1. 1 \in 1..Len(queue)
      BY <1>1
    <3>2. QED
      BY <1>1, <1>2, <1>4, <2>2, <3>1 DEF Has
  <2>3. QED
    BY <2>1, <2>2
<1>6. Distinct(queue) => Distinct(Tail(queue))
  <2>1. SUFFICES ASSUME Distinct(queue), NEW k \in 1..Len(Tail(queue)), NEW l \in 1..Len(Tail(queue)),
                        Tail(queue)[k] = Tail(queue)[l]
                 PROVE  k = l
    BY <1>2 DEF Distinct
  <2>2. k + 1 = l + 1
    BY <1>1, <1>2, <1>4, <2>1 DEF Distinct
  <2>3. QED
    BY <1>1, <2>2
<1>7. Distinct(queue) => ~Has(Tail(queue), Head(queue))
  <2>1. 1 \in 1..Len(queue)
    BY <1>1
  <2>2. QED
    BY <1>1, <1>2, <1>4, <2>1 DEF Distinct, Has
<1>8. QED
  BY <1>1, <1>5, <1>6, <1>7

LEMMA EmptyHas == Distinct(<<>>) /\ \A y : ~Has(<<>>, y)
BY DEF Distinct, Has

-----------------------------------------------------------------------------
LEMMA TypesGiveTypeOK == Types => TypeOK
BY Zenon DEF Types, FlagTypes, QueueTypes, SearchTypes, AirlineTypes, TypeOK

LEMMA QueueOfIsQueue ==
  \A s \in Searches : queueOf(s) \in Queues /\ s \in Queues /\ s # Common /\ Common \in Queues
BY QueueAssumption DEF queueOf, Queues

LEMMA QuoteIs ==
  /\ \A s \in Searches, a \in Airlines :
       QuoteOf(s, a) \in Quotes /\ QuoteOf(s, a).search = s /\ QuoteOf(s, a).airline = a
  /\ \A x \in Quotes : x = QuoteOf(x.search, x.airline) /\ x.search \in Searches /\ x.airline \in Airlines
  /\ \A s, t \in Searches, a, b \in Airlines : QuoteOf(s, a) = QuoteOf(t, b) <=> s = t /\ a = b
BY DEF QuoteOf, Quotes

(* Steps that move no request and no quote: a rejected search, a deadline, an      *)
(* airline that fails, comes round or is told to stop.                          *)
LEMMA QuietStep ==
  ASSUME Inv, Types',
         UNCHANGED <<shared, subscribers, requests, responses, collected, answered, overlapped>>,
         \A s \in Searches : phase'[s] = phase[s] \/ (phase[s] = "idle" /\ phase'[s] = "failed"),
         \A a \in Airlines : inHand'[a] \subseteq inHand[a]
  PROVE  Inv'
<1>1. Active' = Active
  BY DEF Active
<1>2. \A s \in Searches, a \in Airlines : Asked(s, a)' => Asked(s, a)
  BY DEF Asked
<1>3. Subscribed'
  BY <1>1 DEF Inv, Subscribed
<1>4. AskedOnce'
  <2>1. \A s \in Searches : phase[s] # "idle" => phase'[s] # "idle"
    OBVIOUS
  <2>2. QED
    BY <1>2, <2>1 DEF Inv, AskedOnce
<1>5. AnsweredOnce'
  BY <1>2 DEF Inv, AnsweredOnce, queueOf
<1>6. OwnKept'
  BY DEF Inv, OwnKept
<1>7. Observed'
  BY <1>1 DEF Inv, Observed, queueOf
<1>8. QED
  BY <1>3, <1>4, <1>5, <1>6, <1>7 DEF Inv

LEMMA QuietSteps ==
  ASSUME Inv,
         \/ \E s \in Searches : ScatterRejected(s) \/ DeadlinePasses(s)
         \/ \E a \in Airlines : LookupFails(a) \/ PollTimesOut(a)
         \/ SetStop
  PROVE  /\ Inv' /\ UNCHANGED <<responses, collected, subscribers>>
         /\ \A s \in Searches : phase[s] = "gather" => phase'[s] = "gather"
<1>0. /\ FlagTypes /\ QueueTypes /\ SearchTypes /\ AirlineTypes
  BY DEF Inv, Types
<1>1. UNCHANGED <<shared, subscribers, requests, responses, collected, answered, overlapped, expected>>
  BY DEF ScatterRejected, DeadlinePasses, LookupFails, PollTimesOut, SetStop, serving, gathering
<1>2. /\ phase' \in [Searches -> {"idle", "gather", "returned", "failed"}]
      /\ \A s \in Searches : phase'[s] = phase[s] \/ (phase[s] = "idle" /\ phase'[s] = "failed")
  <2>1. CASE \E s \in Searches : ScatterRejected(s)
    BY <1>0, <2>1 DEF ScatterRejected, SearchTypes
  <2>2. CASE phase' = phase
    BY <1>0, <2>2 DEF SearchTypes
  <2>3. QED
    BY <2>1, <2>2 DEF DeadlinePasses, LookupFails, PollTimesOut, SetStop, gathering
<1>3. /\ inHand' \in [Airlines -> SUBSET Searches]
      /\ \A a \in Airlines : inHand'[a] \subseteq inHand[a]
  <2>1. CASE \E a \in Airlines : LookupFails(a)
    BY <1>0, <2>1 DEF LookupFails, AirlineTypes
  <2>2. CASE inHand' = inHand
    BY <1>0, <2>2 DEF AirlineTypes
  <2>3. QED
    BY <2>1, <2>2 DEF ScatterRejected, DeadlinePasses, PollTimesOut, SetStop, serving
<1>4. service' \in [Airlines -> {"poll", "lookup", "stopped"}]
  <2>1. CASE \E a \in Airlines : LoopTop(a)
    BY <1>0, <2>1 DEF LoopTop, AirlineTypes
  <2>2. CASE service' = service
    BY <1>0, <2>2 DEF AirlineTypes
  <2>3. QED
    BY <2>1, <2>2 DEF ScatterRejected, DeadlinePasses, LookupFails, PollTimesOut, SetStop, serving
<1>5. expired' \in [Searches -> BOOLEAN] /\ stop' \in BOOLEAN
  <2>1. expired \in [Searches -> BOOLEAN] /\ stop \in BOOLEAN
    BY <1>0, Zenon DEF FlagTypes
  <2>2. expired' = expired \/ \E s \in Searches : expired' = [expired EXCEPT ![s] = TRUE]
    BY Zenon DEF ScatterRejected, DeadlinePasses, LookupFails, PollTimesOut, SetStop, gathering
  <2>3. stop' = stop \/ stop' = TRUE
    BY Zenon DEF ScatterRejected, DeadlinePasses, LookupFails, PollTimesOut, SetStop
  <2>4. expired' \in [Searches -> BOOLEAN]
    BY <2>1, <2>2
  <2>5. stop' \in BOOLEAN
    BY <2>1, <2>3, Zenon
  <2>6. QED
    BY <2>4, <2>5
<1>6. Types'
  <2>1. FlagTypes'
    BY <1>0, <1>1, <1>5, Zenon DEF FlagTypes
  <2>2. QueueTypes' /\ SearchTypes' /\ AirlineTypes'
    BY <1>0, <1>1, <1>2, <1>3, <1>4 DEF QueueTypes, SearchTypes, AirlineTypes
  <2>3. QED
    BY <2>1, <2>2 DEF Types
<1>7. QED
  BY <1>1, <1>2, <1>3, <1>6, QuietStep

(* A search starts: it was asked of nobody and answered by nobody before.           *)
LEMMA ScatterStep ==
  ASSUME Inv, NEW s \in Searches, NEW reached \in SUBSET Airlines,
         NEW count \in 1..Cardinality(Airlines), scatter(s, reached, count)
  PROVE  /\ Inv' /\ UNCHANGED <<responses, collected>>
         /\ \A t \in Searches : phase'[t] = IF t = s THEN "gather" ELSE phase[t]
<1>0. /\ FlagTypes /\ QueueTypes /\ SearchTypes /\ AirlineTypes
  BY DEF Inv, Types
<1>1. /\ phase[s] = "idle" /\ subscribers' = subscribers \cup {queueOf(s)}
      /\ requests' = [a \in Airlines |-> IF a \in reached THEN Append(requests[a], s) ELSE requests[a]]
      /\ phase' = [phase EXCEPT ![s] = "gather"]
      /\ expected' = [expected EXCEPT ![s] = count]
      /\ overlapped' = (overlapped \/ (shared /\ Active # {}))
      /\ UNCHANGED <<shared, responses, expired, collected, service, inHand, stop, answered>>
  BY DEF scatter
<1>2. /\ \A t \in Searches : phase'[t] = IF t = s THEN "gather" ELSE phase[t]
      /\ phase' \in [Searches -> {"idle", "gather", "returned", "failed"}]
  BY <1>0, <1>1 DEF SearchTypes
<1>3. Active' = Active \cup {s} /\ s \notin Active
  BY <1>1, <1>2 DEF Active
<1>4. \A a \in Airlines : ~Asked(s, a)
  BY <1>1 DEF Inv, AskedOnce
<1>5. \A a \in Airlines :
        /\ requests'[a] \in Seq(Searches) /\ Distinct(requests'[a])
        /\ \A t \in Searches : Has(requests'[a], t) <=> Has(requests[a], t) \/ (a \in reached /\ t = s)
  <2>1. SUFFICES ASSUME NEW a \in Airlines
                 PROVE  /\ requests'[a] \in Seq(Searches) /\ Distinct(requests'[a])
                        /\ \A t \in Searches :
                             Has(requests'[a], t) <=> Has(requests[a], t) \/ (a \in reached /\ t = s)
    OBVIOUS
  <2>2. requests[a] \in Seq(Searches) /\ Distinct(requests[a]) /\ ~Has(requests[a], s)
    BY <1>0, <1>4 DEF Inv, AskedOnce, Asked, QueueTypes
  <2>3. CASE a \in reached
    <3>1. requests'[a] = Append(requests[a], s)
      BY <1>1, <2>3
    <3>2. QED
      BY <2>2, <2>3, <3>1, AppendHas
  <2>4. CASE a \notin reached
    BY <1>1, <2>2, <2>4
  <2>5. QED
    BY <2>3, <2>4
<1>6. \A t \in Searches, a \in Airlines : Asked(t, a)' <=> Asked(t, a) \/ (a \in reached /\ t = s)
  BY <1>1, <1>5 DEF Asked
<1>7. \A q \in Queues, a \in Airlines :
        ~Has(responses[q], QuoteOf(s, a)) /\ ~Has(collected[s], QuoteOf(s, a))
  BY <1>1 DEF Inv, AnsweredOnce
<1>8. Types'
  <2>1. overlapped' \in BOOLEAN
    BY <1>1, Zenon
  <2>2. FlagTypes'
    BY <1>0, <1>1, <2>1, Zenon DEF FlagTypes
  <2>3. requests' \in [Airlines -> Seq(Searches)]
    BY <1>1, <1>5
  <2>4. QueueTypes'
    BY <1>0, <1>1, <2>3, QueueOfIsQueue DEF QueueTypes
  <2>5. count \in 0..Cardinality(Airlines)
    <3>1. Cardinality(Airlines) \in Nat
      BY FiniteAssumption, FS_CardinalityType
    <3>2. QED
      BY <3>1
  <2>6. SearchTypes' /\ AirlineTypes'
    BY <1>0, <1>1, <1>2, <2>5 DEF SearchTypes, AirlineTypes
  <2>7. QED
    BY <2>2, <2>4, <2>6 DEF Types
<1>9. Subscribed'
  BY <1>1, <1>3 DEF Inv, Subscribed, queueOf
<1>10. AskedOnce'
  <2>1. \A a \in Airlines : \A t \in inHand'[a] : ~Has(requests'[a], t)
    <3>1. \A a \in Airlines : inHand[a] \subseteq Searches /\ s \notin inHand[a]
      BY <1>0, <1>4 DEF AirlineTypes, Asked
    <3>2. QED
      BY <1>1, <1>5, <3>1 DEF Inv, AskedOnce
  <2>2. \A t \in Searches, a \in Airlines : Asked(t, a)' => phase'[t] # "idle"
    BY <1>2, <1>6 DEF Inv, AskedOnce
  <2>3. QED
    BY <1>5, <2>1, <2>2 DEF AskedOnce
<1>11. AnsweredOnce'
  BY <1>1, <1>2, <1>6, <1>7 DEF Inv, AnsweredOnce, queueOf
<1>12. OwnKept'
  BY <1>1 DEF Inv, OwnKept
<1>13. Observed'
  <2>1. \A t \in Searches : t \notin Active' => answered'[t] = {}
    BY <1>1, <1>3 DEF Inv, Observed
  <2>2. shared' /\ ~overlapped' => Active = {}
    BY <1>1
  <2>3. shared' /\ ~overlapped' => \A t, u \in Active' : t = u
    BY <1>3, <2>2
  <2>4. ASSUME ~overlapped', NEW t \in Active', NEW a \in Airlines
        PROVE  a \in answered'[t] <=> \/ Has(collected'[t], QuoteOf(t, a))
                                      \/ Has(responses'[queueOf(t)'], QuoteOf(t, a))
    <3>1. ~overlapped /\ queueOf(t)' = queueOf(t)
      BY <1>1, <2>4 DEF queueOf
    <3>2. CASE t = s
      BY <1>1, <1>3, <1>7, <3>1, <3>2, QueueOfIsQueue DEF Inv, Observed
    <3>3. CASE t # s
      BY <1>1, <1>3, <2>4, <3>1, <3>3 DEF Inv, Observed
    <3>4. QED
      BY <3>2, <3>3
  <2>5. QED
    BY <2>1, <2>3, <2>4 DEF Observed
<1>14. QED
  BY <1>1, <1>2, <1>8, <1>9, <1>10, <1>11, <1>12, <1>13 DEF Inv

(* A search ends: what its own queue held is gone with it.                        *)
LEMMA EndStep ==
  ASSUME Inv, NEW s \in Searches, GatherReturns(s) \/ SearchCancelled(s)
  PROVE  /\ Inv'
         /\ \A t \in Searches \ {s} :
              phase'[t] = phase[t] /\ responses'[t] = responses[t] /\ collected'[t] = collected[t]
         /\ phase[s] = "gather" /\ phase'[s] \in {"returned", "failed"}
         /\ phase'[s] = "returned" =>
              collected' = collected /\ (Len(collected[s]) = expected[s] \/ expired[s])
<1>0. /\ FlagTypes /\ QueueTypes /\ SearchTypes /\ AirlineTypes
  BY DEF Inv, Types
<1>1. PICK how \in {"returned", "failed"} :
        /\ EndSearch(s, how) /\ s \in Active
        /\ UNCHANGED <<shared, service, inHand, requests, stop, overlapped>>
        /\ collected' = collected \/ collected' = [collected EXCEPT ![s] = <<>>]
        /\ how = "returned" =>
              collected' = collected /\ (Len(collected[s]) = expected[s] \/ expired[s])
  BY DEF GatherReturns, SearchCancelled, serving
<1>2. /\ phase' = [phase EXCEPT ![s] = how]
      /\ responses' = IF shared THEN responses ELSE [responses EXCEPT ![s] = <<>>]
      /\ subscribers' = IF shared THEN subscribers ELSE subscribers \ {s}
      /\ expected' = [expected EXCEPT ![s] = 0] /\ expired' = [expired EXCEPT ![s] = FALSE]
      /\ answered' = [answered EXCEPT ![s] = {}]
  BY <1>1 DEF EndSearch
<1>3. /\ \A t \in Searches : phase'[t] = IF t = s THEN how ELSE phase[t]
      /\ phase' \in [Searches -> {"idle", "gather", "returned", "failed"}]
      /\ phase[s] = "gather"
  BY <1>0, <1>1, <1>2 DEF SearchTypes, Active
<1>4. Active' = Active \ {s}
  BY <1>3 DEF Active
<1>5. /\ \A q \in Queues : responses'[q] = IF ~shared /\ q = s THEN <<>> ELSE responses[q]
      /\ responses' \in [Queues -> Seq(Quotes)]
  <2>1. <<>> \in Seq(Quotes)
    OBVIOUS
  <2>2. QED
    BY <1>0, <1>2, <2>1 DEF QueueTypes
<1>6. /\ \A t \in Searches : collected'[t] = collected[t] \/ (t = s /\ collected'[t] = <<>>)
      /\ collected' \in [Searches -> Seq(Quotes)]
  <2>1. <<>> \in Seq(Quotes)
    OBVIOUS
  <2>2. QED
    BY <1>0, <1>1, <2>1 DEF SearchTypes
<1>7. \A t \in Searches, a \in Airlines : Asked(t, a)' <=> Asked(t, a)
  BY <1>1 DEF Asked
<1>8. /\ \A q \in Queues : Distinct(responses'[q]) /\ \A x : Has(responses'[q], x) => Has(responses[q], x)
      /\ \A t \in Searches : Distinct(collected'[t]) /\ \A x : Has(collected'[t], x) => Has(collected[t], x)
  BY <1>5, <1>6, EmptyHas DEF Inv, AnsweredOnce
<1>9. Types'
  <2>1. expired' \in [Searches -> BOOLEAN]
    <3>1. expired \in [Searches -> BOOLEAN]
      BY <1>0, Zenon DEF FlagTypes
    <3>2. QED
      BY <1>2, <3>1
  <2>2. FlagTypes'
    BY <1>0, <1>1, <2>1, Zenon DEF FlagTypes
  <2>3. QueueTypes'
    BY <1>0, <1>1, <1>2, <1>5 DEF QueueTypes
  <2>4. 0 \in 0..Cardinality(Airlines)
    <3>1. Cardinality(Airlines) \in Nat
      BY FiniteAssumption, FS_CardinalityType
    <3>2. QED
      BY <3>1
  <2>5. SearchTypes' /\ AirlineTypes'
    BY <1>0, <1>1, <1>2, <1>3, <1>6, <2>4 DEF SearchTypes, AirlineTypes
  <2>6. QED
    BY <2>2, <2>3, <2>5 DEF Types
<1>10. Subscribed'
  BY <1>1, <1>2, <1>4 DEF Inv, Subscribed
<1>11. AskedOnce'
  BY <1>1, <1>3, <1>7 DEF Inv, AskedOnce
<1>12. AnsweredOnce'
  <2>1. \A t \in Searches : queueOf(t)' = queueOf(t) /\ queueOf(t) \in Queues
    BY <1>1, QueueOfIsQueue DEF queueOf
  <2>2. \A t \in Searches : phase[t] # "idle" => phase'[t] # "idle"
    BY <1>3
  <2>3. QED
    BY <1>7, <1>8, <2>1, <2>2 DEF Inv, AnsweredOnce
<1>13. OwnKept'
  BY <1>6 DEF Inv, OwnKept
<1>14. Observed'
  <2>1. \A t \in Searches : t \notin Active' => answered'[t] = {}
    BY <1>0, <1>2, <1>4 DEF Inv, Observed, SearchTypes
  <2>2. shared' /\ ~overlapped' => \A t, u \in Active' : t = u
    BY <1>1, <1>4 DEF Inv, Observed
  <2>3. ASSUME ~overlapped', NEW t \in Active', NEW a \in Airlines
        PROVE  a \in answered'[t] <=> \/ Has(collected'[t], QuoteOf(t, a))
                                      \/ Has(responses'[queueOf(t)'], QuoteOf(t, a))
    <3>1. t # s /\ t \in Active /\ t \in Searches /\ ~overlapped
      BY <1>1, <1>4, <2>3 DEF Active
    <3>2. /\ answered'[t] = answered[t] /\ collected'[t] = collected[t]
          /\ queueOf(t)' = queueOf(t) /\ responses'[queueOf(t)] = responses[queueOf(t)]
      BY <1>0, <1>1, <1>2, <1>5, <1>6, <3>1, QueueOfIsQueue DEF SearchTypes, queueOf
    <3>3. QED
      BY <2>3, <3>1, <3>2 DEF Inv, Observed
  <2>4. QED
    BY <2>1, <2>2, <2>3 DEF Observed
<1>15. QED
  BY <1>1, <1>3, <1>5, <1>6, <1>9, <1>10, <1>11, <1>12, <1>13, <1>14, QueueOfIsQueue DEF Inv

(* A gather takes a quote: kept it moves to the collected ones, and a discarded one   *)
(* answered another search.                                                   *)
LEMMA TakeQuoteStep ==
  ASSUME Inv, NEW s \in Searches, TakeQuote(s)
  PROVE  /\ Inv' /\ phase' = phase /\ phase[s] = "gather"
         /\ \A t \in Searches : collected'[t] = collected[t] \/ t = s
         /\ \A q \in Queues : responses'[q] = responses[q] \/ q = queueOf(s)
<1> DEFINE q == queueOf(s)
           h == Head(responses[q])
<1>0. /\ FlagTypes /\ QueueTypes /\ SearchTypes /\ AirlineTypes
  BY DEF Inv, Types
<1>1. /\ s \in Active /\ responses[q] # <<>>
      /\ responses' = [responses EXCEPT ![q] = Tail(@)]
      /\ collected' = [collected EXCEPT ![s] = IF h.search = s THEN Append(@, h) ELSE @]
      /\ UNCHANGED <<shared, subscribers, phase, expected, expired, service, inHand, requests, stop,
                     answered, overlapped>>
  BY DEF TakeQuote, Own, serving
<1>2. q \in Queues /\ responses[q] \in Seq(Quotes) /\ Distinct(responses[q])
  BY <1>0, QueueOfIsQueue DEF QueueTypes, Inv, AnsweredOnce
<1>3. /\ h \in Quotes /\ Tail(responses[q]) \in Seq(Quotes) /\ Distinct(Tail(responses[q]))
      /\ \A x : Has(responses[q], x) <=> x = h \/ Has(Tail(responses[q]), x)
      /\ ~Has(Tail(responses[q]), h)
  BY <1>1, <1>2, TailHas
<1>4. h = QuoteOf(h.search, h.airline) /\ h.search \in Searches /\ h.airline \in Airlines
  BY <1>3, QuoteIs
<1>5. collected[s] \in Seq(Quotes) /\ Distinct(collected[s])
  BY <1>0 DEF SearchTypes, Inv, AnsweredOnce
<1>6. h.search = s => ~Has(collected[s], h)
  <2>1. ASSUME h.search = s
        PROVE  ~Has(collected[s], QuoteOf(s, h.airline))
    BY <1>3, <1>4, <2>1 DEF Inv, AnsweredOnce
  <2>2. QED
    BY <1>4, <2>1
<1> HIDE DEF q, h
<1>7. /\ \A r \in Queues : responses'[r] = IF r = q THEN Tail(responses[q]) ELSE responses[r]
      /\ responses' \in [Queues -> Seq(Quotes)]
  BY <1>0, <1>1, <1>2, <1>3 DEF QueueTypes
<1>8. /\ \A t \in Searches :
           collected'[t] = IF t = s /\ h.search = s THEN Append(collected[s], h) ELSE collected[t]
      /\ collected' \in [Searches -> Seq(Quotes)]
  <2>1. Append(collected[s], h) \in Seq(Quotes)
    BY <1>3, <1>5, AppendHas
  <2>2. QED
    BY <1>0, <1>1, <2>1 DEF SearchTypes
<1>9. \A t \in Searches :
        /\ Distinct(collected'[t])
        /\ \A x : Has(collected'[t], x) <=> Has(collected[t], x) \/ (t = s /\ h.search = s /\ x = h)
  <2>1. CASE h.search = s
    <3>1. /\ \A x : Has(Append(collected[s], h), x) <=> Has(collected[s], x) \/ x = h
          /\ Distinct(Append(collected[s], h))
      BY <1>3, <1>5, <1>6, <2>1, AppendHas
    <3>2. QED
      BY <1>8, <2>1, <3>1 DEF Inv, AnsweredOnce
  <2>2. CASE h.search # s
    BY <1>8, <2>2 DEF Inv, AnsweredOnce
  <2>3. QED
    BY <2>1, <2>2
<1>10. \A t \in Searches, a \in Airlines : Asked(t, a)' <=> Asked(t, a)
  BY <1>1 DEF Asked
<1>11. Types'
  <2>1. FlagTypes'
    BY <1>0, <1>1, Zenon DEF FlagTypes
  <2>2. QueueTypes' /\ SearchTypes' /\ AirlineTypes'
    BY <1>0, <1>1, <1>7, <1>8 DEF QueueTypes, SearchTypes, AirlineTypes
  <2>3. QED
    BY <2>1, <2>2 DEF Types
<1>12. Active' = Active /\ \A t \in Searches : queueOf(t)' = queueOf(t) /\ queueOf(t) \in Queues
  BY <1>1, QueueOfIsQueue DEF Active, queueOf
<1>13. Subscribed' /\ AskedOnce'
  BY <1>1, <1>10, <1>12 DEF Inv, Subscribed, AskedOnce
<1>14. AnsweredOnce'
  <2>1. \A r \in Queues : Distinct(responses'[r])
    BY <1>3, <1>7 DEF Inv, AnsweredOnce
  <2>2. \A r \in Queues, x \in Quotes : Has(responses'[r], x) => Has(responses[r], x)
    BY <1>3, <1>7
  <2>3. \A r \in Queues, t \in Searches, a \in Airlines :
          Has(responses'[r], QuoteOf(t, a)) => ~Asked(t, a)' /\ phase'[t] # "idle"
    BY <1>1, <1>10, <2>2, QuoteIs DEF Inv, AnsweredOnce
  <2>4. ASSUME NEW t \in Searches, NEW a \in Airlines, Has(collected'[t], QuoteOf(t, a))
        PROVE  /\ ~Asked(t, a)' /\ phase'[t] # "idle"
               /\ ~Has(responses'[queueOf(t)'], QuoteOf(t, a))
    <3>1. CASE Has(collected[t], QuoteOf(t, a))
      BY <1>1, <1>10, <1>12, <2>2, <3>1, QuoteIs DEF Inv, AnsweredOnce
    <3>2. CASE t = s /\ h.search = s /\ QuoteOf(t, a) = h
      <4>1. Has(responses[q], QuoteOf(t, a))
        BY <1>3, <3>2
      <4>2. ~Asked(t, a)' /\ phase'[t] # "idle"
        BY <1>1, <1>2, <1>10, <4>1 DEF Inv, AnsweredOnce
      <4>3. ~Has(responses'[q], QuoteOf(t, a))
        BY <1>2, <1>3, <1>7, <3>2
      <4>4. QED
        BY <1>12, <3>2, <4>2, <4>3 DEF q
    <3>3. QED
      BY <1>9, <2>4, <3>1, <3>2
  <2>5. QED
    BY <1>9, <2>1, <2>3, <2>4 DEF AnsweredOnce
<1>15. OwnKept'
  <2>1. SUFFICES ASSUME NEW t \in Searches, NEW k \in DOMAIN collected'[t]
                 PROVE  collected'[t][k].search = t
    BY DEF OwnKept
  <2>2. CASE t = s /\ h.search = s
    <3>1. collected'[s] = Append(collected[s], h)
      BY <1>8, <2>2
    <3>2. collected'[s][k] = h \/ (k \in DOMAIN collected[s] /\ collected'[s][k] = collected[s][k])
      BY <1>3, <1>5, <2>1, <2>2, <3>1, AppendHas
    <3>3. QED
      BY <2>2, <3>2 DEF Inv, OwnKept
  <2>3. CASE ~(t = s /\ h.search = s)
    BY <1>8, <2>1, <2>3 DEF Inv, OwnKept
  <2>4. QED
    BY <2>2, <2>3
<1>16. Observed'
  <2>1. ASSUME ~overlapped', NEW t \in Active', NEW a \in Airlines
        PROVE  a \in answered'[t] <=> \/ Has(collected'[t], QuoteOf(t, a))
                                      \/ Has(responses'[queueOf(t)'], QuoteOf(t, a))
    <3>1. /\ t \in Active /\ t \in Searches /\ ~overlapped /\ queueOf(t)' = queueOf(t)
          /\ answered'[t] = answered[t]
      BY <1>1, <1>12, <2>1 DEF Active
    <3>2. a \in answered[t] <=> Has(collected[t], QuoteOf(t, a)) \/ Has(responses[queueOf(t)], QuoteOf(t, a))
      BY <2>1, <3>1 DEF Inv, Observed
    <3>3. CASE t = s
      <4>1. QuoteOf(t, a) = h => h.search = s
        BY <3>3, QuoteIs
      <4>2. Has(responses[q], QuoteOf(t, a)) <=> QuoteOf(t, a) = h \/ Has(responses'[q], QuoteOf(t, a))
        BY <1>2, <1>3, <1>7
      <4>3. QED
        BY <1>9, <3>1, <3>2, <3>3, <4>1, <4>2 DEF q
    <3>4. CASE t # s
      <4>1. ~shared
        BY <1>1, <3>1, <3>4 DEF Inv, Observed
      <4>2. queueOf(t) # q /\ queueOf(t) \in Queues
        BY <3>1, <3>4, <4>1, QueueOfIsQueue DEF queueOf, q
      <4>3. QED
        BY <1>7, <1>9, <3>1, <3>2, <3>4, <4>2
    <3>5. QED
      BY <3>3, <3>4
  <2>2. QED
    BY <1>1, <1>12, <2>1 DEF Inv, Observed
<1>17. QED
  BY <1>1, <1>7, <1>8, <1>11, <1>13, <1>14, <1>15, <1>16 DEF Inv, Active, q

(* An airline takes a request out of its queue.                                   *)
LEMMA TakeRequestStep ==
  ASSUME Inv, NEW a \in Airlines, TakeRequest(a)
  PROVE  Inv' /\ UNCHANGED <<responses, collected, phase>>
<1> DEFINE h == Head(requests[a])
<1>0. /\ FlagTypes /\ QueueTypes /\ SearchTypes /\ AirlineTypes
  BY DEF Inv, Types
<1>1. /\ requests[a] # <<>>
      /\ inHand' = [inHand EXCEPT ![a] = {h}]
      /\ requests' = [requests EXCEPT ![a] = Tail(@)]
      /\ service' = [service EXCEPT ![a] = "lookup"]
      /\ UNCHANGED <<shared, subscribers, responses, phase, expected, expired, collected, stop, answered,
                     overlapped>>
  BY DEF TakeRequest, gathering
<1>2. requests[a] \in Seq(Searches) /\ Distinct(requests[a])
  BY <1>0 DEF QueueTypes, Inv, AskedOnce
<1>3. /\ h \in Searches /\ Tail(requests[a]) \in Seq(Searches) /\ Distinct(Tail(requests[a]))
      /\ \A x : Has(requests[a], x) <=> x = h \/ Has(Tail(requests[a]), x)
      /\ ~Has(Tail(requests[a]), h)
  BY <1>1, <1>2, TailHas
<1> HIDE DEF h
<1>4. /\ \A b \in Airlines : requests'[b] = IF b = a THEN Tail(requests[a]) ELSE requests[b]
      /\ requests' \in [Airlines -> Seq(Searches)]
  BY <1>0, <1>1, <1>3 DEF QueueTypes
<1>5. /\ \A b \in Airlines : inHand'[b] = IF b = a THEN {h} ELSE inHand[b]
      /\ inHand' \in [Airlines -> SUBSET Searches]
  BY <1>0, <1>1, <1>3 DEF AirlineTypes
<1>6. \A t \in Searches, b \in Airlines : Asked(t, b)' => Asked(t, b)
  <2>1. SUFFICES ASSUME NEW t \in Searches, NEW b \in Airlines, Has(requests'[b], t) \/ t \in inHand'[b]
                 PROVE  Asked(t, b)
    BY DEF Asked
  <2>2. CASE b = a
    <3>1. Has(Tail(requests[a]), t) \/ t = h
      BY <1>4, <1>5, <2>1, <2>2
    <3>2. Has(requests[a], t)
      BY <1>3, <3>1
    <3>3. QED
      BY <2>2, <3>2 DEF Asked
  <2>3. CASE b # a
    BY <1>4, <1>5, <2>1, <2>3 DEF Asked
  <2>4. QED
    BY <2>2, <2>3
<1>7. Types'
  <2>1. FlagTypes'
    BY <1>0, <1>1, Zenon DEF FlagTypes
  <2>2. QueueTypes' /\ SearchTypes' /\ AirlineTypes'
    BY <1>0, <1>1, <1>4, <1>5 DEF QueueTypes, SearchTypes, AirlineTypes
  <2>3. QED
    BY <2>1, <2>2 DEF Types
<1>8. Active' = Active /\ \A t \in Searches : queueOf(t)' = queueOf(t)
  BY <1>1 DEF Active, queueOf
<1>9. AskedOnce'
  <2>1. \A b \in Airlines : Distinct(requests'[b])
    BY <1>3, <1>4 DEF Inv, AskedOnce
  <2>2. \A b \in Airlines : \A t \in inHand'[b] : ~Has(requests'[b], t)
    BY <1>3, <1>4, <1>5 DEF Inv, AskedOnce
  <2>3. QED
    BY <1>1, <1>6, <2>1, <2>2 DEF Inv, AskedOnce
<1>10. AnsweredOnce'
  BY <1>1, <1>6, <1>8 DEF Inv, AnsweredOnce
<1>11. Subscribed' /\ OwnKept' /\ Observed'
  <2>1. Subscribed' /\ OwnKept'
    BY <1>1, <1>8 DEF Inv, Subscribed, OwnKept
  <2>2. \A t \in Active : t \in Searches
    BY DEF Active
  <2>3. Observed'
    BY <1>1, <1>8, <2>2 DEF Inv, Observed
  <2>4. QED
    BY <2>1, <2>3
<1>12. QED
  BY <1>1, <1>7, <1>9, <1>10, <1>11 DEF Inv

(* An airline answers: its quote goes to every subscribed queue, and none had it.     *)
LEMMA PublishStep ==
  ASSUME Inv, NEW a \in Airlines, PublishQuote(a)
  PROVE  /\ Inv' /\ UNCHANGED <<collected, phase>>
         /\ \A q \in Queues : q \notin subscribers => responses'[q] = responses[q]
<1>0. /\ FlagTypes /\ QueueTypes /\ SearchTypes /\ AirlineTypes
  BY DEF Inv, Types
<1>1. PICK s \in inHand[a] :
        /\ responses' = [q \in Queues |->
             IF q \in subscribers THEN Append(responses[q], QuoteOf(s, a)) ELSE responses[q]]
        /\ answered' = IF s \in Active THEN [answered EXCEPT ![s] = @ \cup {a}] ELSE answered
        /\ inHand' = [inHand EXCEPT ![a] = {}] /\ LoopTop(a)
        /\ UNCHANGED <<shared, subscribers, requests, phase, expected, expired, collected, stop, overlapped>>
  BY DEF PublishQuote, gathering
<1> DEFINE x == QuoteOf(s, a)
<1>2. s \in Searches /\ x \in Quotes /\ Asked(s, a) /\ phase[s] # "idle"
  <2>1. s \in Searches /\ Asked(s, a)
    BY <1>0 DEF AirlineTypes, Asked
  <2>2. QED
    BY <2>1, QuoteIs DEF Inv, AskedOnce
<1>3. \A q \in Queues : /\ ~Has(responses[q], x) /\ Distinct(responses[q])
                        /\ responses[q] \in Seq(Quotes)
  BY <1>0, <1>2 DEF Inv, AnsweredOnce, QueueTypes
<1>4. ~Has(collected[s], x)
  BY <1>2 DEF Inv, AnsweredOnce
<1> HIDE DEF x
<1>5. \A q \in Queues :
        /\ responses'[q] \in Seq(Quotes) /\ Distinct(responses'[q])
        /\ \A y : Has(responses'[q], y) <=> Has(responses[q], y) \/ (q \in subscribers /\ y = x)
        /\ q \notin subscribers => responses'[q] = responses[q]
  <2>1. SUFFICES ASSUME NEW q \in Queues
                 PROVE  /\ responses'[q] \in Seq(Quotes) /\ Distinct(responses'[q])
                        /\ \A y : Has(responses'[q], y) <=>
                                   Has(responses[q], y) \/ (q \in subscribers /\ y = x)
                        /\ q \notin subscribers => responses'[q] = responses[q]
    OBVIOUS
  <2>2. CASE q \in subscribers
    <3>1. responses'[q] = Append(responses[q], x)
      BY <1>1, <2>2 DEF x
    <3>2. QED
      BY <1>2, <1>3, <2>2, <3>1, AppendHas
  <2>3. CASE q \notin subscribers
    BY <1>1, <1>3, <2>3
  <2>4. QED
    BY <2>2, <2>3
<1>6. /\ \A b \in Airlines : inHand'[b] = IF b = a THEN {} ELSE inHand[b]
      /\ inHand' \in [Airlines -> SUBSET Searches]
      /\ service' \in [Airlines -> {"poll", "lookup", "stopped"}]
  BY <1>0, <1>1 DEF AirlineTypes, LoopTop
<1>7. /\ \A t \in Searches, b \in Airlines : Asked(t, b)' => Asked(t, b)
      /\ ~Asked(s, a)'
  <2>1. ~Has(requests[a], s)
    BY DEF Inv, AskedOnce
  <2>2. QED
    BY <1>1, <1>6, <2>1 DEF Asked
<1>8. /\ \A t \in Searches : answered'[t] = IF t = s /\ s \in Active THEN answered[t] \cup {a} ELSE answered[t]
      /\ answered' \in [Searches -> SUBSET Airlines]
  BY <1>0, <1>1, <1>2 DEF SearchTypes
<1>9. Types'
  <2>1. FlagTypes'
    BY <1>0, <1>1, Zenon DEF FlagTypes
  <2>2. responses' \in [Queues -> Seq(Quotes)]
    BY <1>1, <1>5
  <2>3. QueueTypes' /\ SearchTypes' /\ AirlineTypes'
    BY <1>0, <1>1, <1>6, <1>8, <2>2 DEF QueueTypes, SearchTypes, AirlineTypes
  <2>4. QED
    BY <2>1, <2>3 DEF Types
<1>10. Active' = Active /\ \A t \in Searches : queueOf(t)' = queueOf(t) /\ queueOf(t) \in Queues
  BY <1>1, QueueOfIsQueue DEF Active, queueOf
<1>11. Subscribed' /\ OwnKept'
  BY <1>1, <1>10 DEF Inv, Subscribed, OwnKept
<1>12. AskedOnce'
  BY <1>1, <1>6, <1>7 DEF Inv, AskedOnce
<1>13. AnsweredOnce'
  <2>1. ASSUME NEW q \in Queues, NEW t \in Searches, NEW b \in Airlines, Has(responses'[q], QuoteOf(t, b))
        PROVE  ~Asked(t, b)' /\ phase'[t] # "idle"
    <3>1. CASE Has(responses[q], QuoteOf(t, b))
      BY <1>1, <1>7, <3>1 DEF Inv, AnsweredOnce
    <3>2. CASE QuoteOf(t, b) = x
      <4>1. t = s /\ b = a
        BY <1>2, <3>2, QuoteIs DEF x
      <4>2. QED
        BY <1>1, <1>2, <1>7, <4>1
    <3>3. QED
      BY <1>5, <2>1, <3>1, <3>2
  <2>2. ASSUME NEW t \in Searches, NEW b \in Airlines, Has(collected'[t], QuoteOf(t, b))
        PROVE  /\ ~Asked(t, b)' /\ phase'[t] # "idle"
               /\ ~Has(responses'[queueOf(t)'], QuoteOf(t, b))
    <3>1. Has(collected[t], QuoteOf(t, b))
      BY <1>1, <2>2
    <3>2. /\ ~Asked(t, b) /\ phase[t] # "idle" /\ ~Has(responses[queueOf(t)], QuoteOf(t, b))
      BY <3>1 DEF Inv, AnsweredOnce
    <3>3. QuoteOf(t, b) # x
      <4>1. ~(t = s /\ b = a)
        BY <1>2, <3>2
      <4>2. QED
        BY <1>2, <4>1, QuoteIs DEF x
    <3>4. QED
      BY <1>1, <1>5, <1>7, <1>10, <3>2, <3>3
  <2>3. \A t \in Searches : Distinct(collected'[t])
    BY <1>1 DEF Inv, AnsweredOnce
  <2>4. QED
    BY <1>5, <2>1, <2>2, <2>3 DEF AnsweredOnce
<1>14. Observed'
  <2>1. \A t \in Searches : t \notin Active' => answered'[t] = {}
    BY <1>8, <1>10 DEF Inv, Observed
  <2>2. ASSUME ~overlapped', NEW t \in Active', NEW b \in Airlines
        PROVE  b \in answered'[t] <=> \/ Has(collected'[t], QuoteOf(t, b))
                                      \/ Has(responses'[queueOf(t)'], QuoteOf(t, b))
    <3>1. /\ t \in Active /\ t \in Searches /\ ~overlapped /\ queueOf(t)' = queueOf(t)
          /\ queueOf(t) \in Queues /\ collected'[t] = collected[t]
      BY <1>1, <1>10, <2>2 DEF Active
    <3>2. queueOf(t) \in subscribers
      BY <3>1 DEF Inv, Subscribed, queueOf
    <3>3. b \in answered[t] <=> Has(collected[t], QuoteOf(t, b)) \/ Has(responses[queueOf(t)], QuoteOf(t, b))
      BY <2>2, <3>1 DEF Inv, Observed
    <3>4. Has(responses'[queueOf(t)], QuoteOf(t, b)) <=>
            Has(responses[queueOf(t)], QuoteOf(t, b)) \/ QuoteOf(t, b) = x
      BY <1>5, <3>1, <3>2
    <3>5. QuoteOf(t, b) = x <=> t = s /\ b = a
      BY <1>2, <3>1, QuoteIs DEF x
    <3>6. b \in answered'[t] <=> b \in answered[t] \/ (t = s /\ b = a)
      BY <1>8, <3>1
    <3>7. QED
      BY <3>1, <3>3, <3>4, <3>5, <3>6
  <2>3. QED
    BY <1>1, <1>10, <2>1, <2>2 DEF Inv, Observed
<1>15. QED
  BY <1>1, <1>5, <1>9, <1>11, <1>12, <1>13, <1>14 DEF Inv

-----------------------------------------------------------------------------
LEMMA InitInv == Init => Inv
<1> SUFFICES ASSUME Init PROVE Inv
  OBVIOUS
<1>1. FlagTypes
  BY Zenon DEF Init, FlagTypes
<1>2. QueueTypes /\ AirlineTypes
  BY QueueOfIsQueue DEF Init, build_services, QueueTypes, AirlineTypes, Queues
<1>3. SearchTypes
  <2>1. 0 \in 0..Cardinality(Airlines)
    <3>1. Cardinality(Airlines) \in Nat
      BY FiniteAssumption, FS_CardinalityType
    <3>2. QED
      BY <3>1
  <2>2. QED
    BY <2>1 DEF Init, SearchTypes
<1>4. Active = {}
  BY DEF Init, Active
<1>5. /\ \A a \in Airlines : requests[a] = <<>> /\ inHand[a] = {}
      /\ \A q \in Queues : responses[q] = <<>>
      /\ \A s \in Searches : collected[s] = <<>> /\ answered[s] = {} /\ queueOf(s) \in Queues
  BY QueueOfIsQueue DEF Init, build_services
<1>6. \A s \in Searches, a \in Airlines : ~Asked(s, a)
  BY <1>5, EmptyHas DEF Asked
<1>7. Subscribed
  BY <1>4 DEF Init, Subscribed
<1>8. AskedOnce
  BY <1>5, <1>6, EmptyHas DEF AskedOnce
<1>9. AnsweredOnce
  BY <1>5, EmptyHas DEF AnsweredOnce
<1>10. OwnKept
  BY <1>5 DEF OwnKept
<1>11. Observed
  BY <1>4, <1>5 DEF Observed
<1>12. QED
  BY <1>1, <1>2, <1>3, <1>7, <1>8, <1>9, <1>10, <1>11 DEF Inv, Types

LEMMA StutterInv == Inv /\ UNCHANGED vars => Inv'
<1> SUFFICES ASSUME Inv, UNCHANGED vars PROVE Inv'
  OBVIOUS
<1>1. UNCHANGED <<shared, subscribers, requests, responses, phase, expected, expired, collected,
                  service, inHand, stop, answered, overlapped>>
  BY DEF vars
<1>2. Types'
  BY <1>1, Zenon DEF Inv, Types, FlagTypes, QueueTypes, SearchTypes, AirlineTypes
<1>3. QED
  BY <1>1, <1>2, QuietStep

LEMMA NextInv == Inv /\ [Next]_vars => Inv'
<1> SUFFICES ASSUME Inv, [Next]_vars PROVE Inv'
  OBVIOUS
<1>1. CASE UNCHANGED vars
  BY <1>1, StutterInv
<1>2. ASSUME NEW s \in Searches, NEW reached \in SUBSET Airlines,
             NEW count \in 1..Cardinality(Airlines), scatter(s, reached, count)
      PROVE  Inv'
  BY <1>2, ScatterStep
<1>3. ASSUME NEW s \in Searches, SearchCancelled(s) \/ Coordinator(s)
      PROVE  Inv'
  BY <1>3, EndStep, TakeQuoteStep DEF Coordinator
<1>4. ASSUME NEW a \in Airlines, Airline(a)
      PROVE  Inv'
  BY <1>4, TakeRequestStep, PublishStep, QuietSteps DEF Airline
<1>5. ASSUME (\E s \in Searches : ScatterRejected(s) \/ DeadlinePasses(s)) \/ SetStop
      PROVE  Inv'
  BY <1>5, QuietSteps
<1>6. QED
  BY <1>1, <1>2, <1>3, <1>4, <1>5 DEF Next

LEMMA InvHolds == Spec => []Inv
BY InitInv, NextInv, PTL DEF Spec

-----------------------------------------------------------------------------
(* TypeOK: queues hold requests and quotes, and what a gather keeps are quotes.        *)
THEOREM TypeCorrect == Spec => []TypeOK
<1>1. Inv => TypeOK
  BY TypesGiveTypeOK DEF Inv
<1>2. QED
  BY <1>1, InvHolds, PTL

(* OwnQuotesOnly: however many searches gather off the topic at once, and however       *)
(* late the airlines answer, a gather keeps answers to its own search, one per airline.   *)
THEOREM Isolation == Spec => []OwnQuotesOnly
<1>1. Inv => OwnQuotesOnly
  <2> SUFFICES ASSUME Inv PROVE OwnQuotesOnly
    OBVIOUS
  <2>1. \A s \in Searches : \A k \in DOMAIN collected[s] : collected[s][k].search = s
    BY DEF Inv, OwnKept
  <2>2. ASSUME NEW s \in Searches, NEW k \in DOMAIN collected[s], NEW l \in DOMAIN collected[s],
               collected[s][k].airline = collected[s][l].airline
        PROVE  k = l
    <3>1. collected[s] \in Seq(Quotes)
      BY DEF Inv, Types, SearchTypes
    <3>2. collected[s][k] \in Quotes /\ collected[s][l] \in Quotes
      BY <3>1, ElementOfSeq, LenProperties
    <3>3. collected[s][k] = collected[s][l]
      BY <2>1, <2>2, <3>2, QuoteIs
    <3>4. QED
      BY <3>3 DEF Inv, AnsweredOnce, Distinct
  <2>3. QED
    BY <2>1, <2>2, TypesGiveTypeOK DEF Inv, OwnQuotesOnly
<1>2. QED
  BY <1>1, InvHolds, PTL

(* NoQuoteMissed: every answer that came while a search listened is kept or queued for    *)
(* it, unless searches shared the common queue.                                   *)
THEOREM NoneMissed == Spec => []NoQuoteMissed
<1>1. Inv => NoQuoteMissed
  <2> SUFFICES ASSUME Inv, ~overlapped, NEW s \in Active
               PROVE  answered[s] = QuotedIn(s, collected[s]) \cup QuotedIn(s, responses[queueOf(s)])
    BY DEF NoQuoteMissed
  <2>1. s \in Searches /\ answered[s] \subseteq Airlines
    BY DEF Active, Inv, Types, SearchTypes
  <2>2. \A a \in Airlines : a \in answered[s] <=> \/ Has(collected[s], QuoteOf(s, a))
                                                 \/ Has(responses[queueOf(s)], QuoteOf(s, a))
    BY DEF Inv, Observed
  <2>3. QED
    BY <2>1, <2>2 DEF QuotedIn, Has
<1>2. QED
  BY <1>1, InvHolds, PTL

(* FinishedAbsorbsNothing: a search returns its count or past its deadline, and ended      *)
(* however it may, its queue is off the topic and neither it nor the result changes.      *)
THEOREM NothingAbsorbed == Spec => FinishedAbsorbsNothing
<1> DEFINE Step == \A s \in Searches :
             /\ phase[s] = "gather" /\ phase'[s] = "returned" =>
                  Len(collected'[s]) = expected[s] \/ expired[s]
             /\ s \in Ended => /\ s \notin subscribers
                               /\ UNCHANGED <<responses[s], collected[s]>>
<1>1. Inv /\ [Next]_vars => [Step]_vars
  <2> SUFFICES ASSUME Inv, Next, NEW s \in Searches
               PROVE  /\ phase[s] = "gather" /\ phase'[s] = "returned" =>
                           Len(collected'[s]) = expected[s] \/ expired[s]
                      /\ s \in Ended => /\ s \notin subscribers
                                        /\ UNCHANGED <<responses[s], collected[s]>>
    OBVIOUS
  <2>1. /\ s \in Ended => phase[s] \in {"returned", "failed"} /\ s \notin subscribers
        /\ s \in Queues
    BY QueueOfIsQueue DEF Ended, Inv, Subscribed, Active
  <2>2. ASSUME NEW t \in Searches, NEW reached \in SUBSET Airlines,
               NEW count \in 1..Cardinality(Airlines), scatter(t, reached, count)
        PROVE  /\ UNCHANGED <<responses, collected>>
               /\ phase[s] = "gather" => phase'[s] # "returned"
    BY <2>2, ScatterStep
  <2>3. CASE \/ \E t \in Searches : ScatterRejected(t) \/ DeadlinePasses(t)
             \/ \E a \in Airlines : LookupFails(a) \/ PollTimesOut(a)
             \/ SetStop
    BY <2>1, <2>3, QuietSteps
  <2>4. ASSUME NEW t \in Searches, GatherReturns(t) \/ SearchCancelled(t)
        PROVE  /\ phase[s] = "gather" /\ phase'[s] = "returned" =>
                    Len(collected'[s]) = expected[s] \/ expired[s]
               /\ s \in Ended => UNCHANGED <<responses[s], collected[s]>>
    BY <2>1, <2>4, EndStep
  <2>5. ASSUME NEW t \in Searches, TakeQuote(t)
        PROVE  /\ phase[s] = "gather" => phase'[s] # "returned"
               /\ s \in Ended => UNCHANGED <<responses[s], collected[s]>>
    <3>1. /\ phase' = phase /\ phase[t] = "gather"
          /\ collected'[s] = collected[s] \/ s = t
          /\ responses'[s] = responses[s] \/ s = queueOf(t)
      BY <2>1, <2>5, TakeQuoteStep
    <3>2. s = queueOf(t) => s = t
      BY QueueOfIsQueue DEF queueOf
    <3>3. QED
      BY <2>1, <3>1, <3>2
  <2>6. ASSUME NEW a \in Airlines, TakeRequest(a) \/ PublishQuote(a)
        PROVE  /\ phase[s] = "gather" => phase'[s] # "returned"
               /\ s \in Ended => UNCHANGED <<responses[s], collected[s]>>
    BY <2>1, <2>6, TakeRequestStep, PublishStep
  <2>7. QED
    BY <2>1, <2>2, <2>3, <2>4, <2>5, <2>6 DEF Next, Coordinator, Airline
<1>2. QED
  BY <1>1, InvHolds, PTL DEF Spec, FinishedAbsorbsNothing

-----------------------------------------------------------------------------
(* Saga.                                                                    *)

(* The parts of SagaTypeOK, with what of it is inductive.                       *)
Ids(s) == 1..Len(log[s])
LogTypes == log \in [Streams -> Seq([type : EventTypes, order : Orders])]
RunTypes ==
  /\ pc \in PCs /\ current \in Orders \cup {NoOrder} /\ status \in SagaStatus
  /\ (pc # "idle" => current \in Orders)
  /\ stopSet \in BOOLEAN /\ started \subseteq Orders
  /\ crashes \in 0..MaxCrashes /\ stops \in 0..MaxStops

(* A run that a result may come of.                                            *)
Alive == pc \notin {"idle", "down"}

(* Read positions are positions, and a batch is the run of entries after them.     *)
Positions ==
  /\ last \in [Streams -> Nat]
  /\ Alive => \A s \in Streams : last[s] =< Len(log[s])
BatchRun(s) ==
  \E k \in Ids(s) : last[s] < k /\ batch = (last[s] + 1)..k
Batches ==
  /\ pc = "routeOrders" => BatchRun("orders")
  /\ pc = "routePayments" => BatchRun("payments")
  /\ pc \notin {"routeOrders", "routePayments"} => batch = {}

(* What an order's events are follows from its amount.                           *)
EventsRight ==
  /\ \A i \in Ids("orders") :
       \/ log["orders"][i].type = "OrderCreated"
       \/ (log["orders"][i].type = "OrderCancelled" /\ log["orders"][i].order \in Declined)
  /\ \A i \in Ids("payments") :
       IF log["payments"][i].order \in Declined THEN log["payments"][i].type = "PaymentFailed"
                                                 ELSE log["payments"][i].type = "PaymentProcessed"
  /\ \A i \in Ids("shipping") :
       log["shipping"][i].type = "OrderShipped" /\ log["shipping"][i].order \notin Declined

(* So is the status of an order, and its last event is published.                 *)
StatusRight ==
  Alive =>
    /\ status = "cancelled" => current \in Declined
    /\ status = "cancelled" =>
         \E i \in Ids("orders") : log["orders"][i] = Event("OrderCancelled", current)
    /\ status \in {"paid", "completed"} => current \notin Declined
    /\ status = "completed" =>
         \E i \in Ids("shipping") : log["shipping"][i] = Event("OrderShipped", current)
    /\ status \in Terminal => pc \in {"routePayments", "shipping", "ended"}

(* When the payments fit one read, the run routes all of them before it looks at    *)
(* the shipping stream.                                                       *)
OneRead ==
  Len(log["payments"]) =< Count =>
    /\ pc = "routePayments" => batch = (last["payments"] + 1)..Len(log["payments"])
    /\ pc = "shipping" \/ (pc = "ended" /\ status \in Terminal) =>
         last["payments"] = Len(log["payments"])

(* A payment the run routed has its shipment.                                    *)
PaidIn(stream, k, o) == {i \in 1..k : stream[i] = Event("PaymentProcessed", o)}
RoutedAreShipped ==
  Alive => \A o \in Orders :
    Cardinality(PaidIn(log["payments"], last["payments"], o))
      =< Times("shipping", "OrderShipped", o)

SagaInv ==
  /\ LogTypes /\ RunTypes /\ Positions /\ Batches
  /\ EventsRight /\ StatusRight /\ OneRead /\ RoutedAreShipped

-----------------------------------------------------------------------------
(* XADD appends to one stream.                                                 *)
LEMMA Published ==
  ASSUME LogTypes, NEW s \in Streams, NEW e \in [type : EventTypes, order : Orders], publish(s, e)
  PROVE  /\ LogTypes' /\ Len(log[s]) \in Nat /\ Len(log'[s]) = Len(log[s]) + 1
         /\ log'[s][Len(log[s]) + 1] = e
         /\ \A i \in 1..Len(log[s]) : log'[s][i] = log[s][i]
         /\ \A t \in Streams \ {s} : log'[t] = log[t]
<1>1. log[s] \in Seq([type : EventTypes, order : Orders])
  BY DEF LogTypes
<1>2. log'[s] = Append(log[s], e) /\ \A t \in Streams \ {s} : log'[t] = log[t]
  BY DEF publish, LogTypes
<1>3. Append(log[s], e) \in Seq([type : EventTypes, order : Orders])
      /\ Len(log[s]) \in Nat
      /\ Len(Append(log[s], e)) = Len(log[s]) + 1 /\ Append(log[s], e)[Len(log[s]) + 1] = e
      /\ \A i \in 1..Len(log[s]) : Append(log[s], e)[i] = log[s][i]
  BY <1>1
<1>4. LogTypes'
  BY <1>2, <1>3 DEF publish, LogTypes
<1>5. QED
  BY <1>2, <1>3, <1>4

(* The events the handlers publish are events of the order.                       *)
LEMMA EventIsEvent ==
  ASSUME NEW type \in EventTypes, NEW o \in Orders
  PROVE  Event(type, o) \in [type : EventTypes, order : Orders]
         /\ Event(type, o).type = type /\ Event(type, o).order = o
BY DEF Event

LEMMA EntryIsEvent ==
  ASSUME LogTypes, NEW s \in Streams, NEW i \in Ids(s)
  PROVE  /\ log[s][i].type \in EventTypes /\ log[s][i].order \in Orders
         /\ log[s][i] = Event(log[s][i].type, log[s][i].order)
<1>1. log[s][i] \in [type : EventTypes, order : Orders]
  <2>1. log[s] \in Seq([type : EventTypes, order : Orders])
    BY DEF LogTypes
  <2>2. QED
    BY <2>1, ElementOfSeq DEF Ids
<1>2. QED
  BY <1>1 DEF Event

(* Redis reads the entries after a position as a run of ids, and all of them when   *)
(* they fit the count.                                                        *)
LEMMA Consumed ==
  ASSUME SagaInv, Alive, NEW s \in Streams
  PROVE  /\ last[s] \in Nat /\ Len(log[s]) \in Nat /\ last[s] =< Len(log[s])
         /\ consume(s) # {} =>
              \E k \in Ids(s) : last[s] < k /\ consume(s) = (last[s] + 1)..k
                                /\ Newest(consume(s)) = k
         /\ Len(log[s]) =< Count => consume(s) = (last[s] + 1)..Len(log[s])
<1>1. last[s] \in Nat /\ Len(log[s]) \in Nat /\ last[s] =< Len(log[s])
      /\ DOMAIN log[s] = 1..Len(log[s])
  BY DEF SagaInv, Positions, LogTypes
<1> DEFINE a == last[s]
           b == Len(log[s])
<1>2. Count \in Nat /\ a \in Nat /\ b \in Nat /\ a =< b
  BY <1>1, SagaBoundAssumption
<1>3. {i \in DOMAIN log[s] : last[s] < i} = (a + 1)..b
  BY <1>1
<1>4. consume(s) = FirstN((a + 1)..b, Count)
  BY <1>3 DEF consume
<1>5. ASSUME consume(s) # {}
      PROVE  \E k \in Ids(s) : a < k /\ consume(s) = (a + 1)..k /\ Newest(consume(s)) = k
  <2>1. /\ Newest(consume(s)) \in (a + 1)..b
        /\ consume(s) = (a + 1)..Newest(consume(s))
    BY <1>2, <1>4, <1>5, FirstNOfRun
  <2>2. Newest(consume(s)) \in Ids(s) /\ a < Newest(consume(s))
    BY <1>2, <2>1 DEF Ids
  <2>3. QED
    BY <2>1, <2>2
<1>6. ASSUME b =< Count PROVE consume(s) = (a + 1)..b
  BY <1>2, <1>4, <1>6, FirstNTakesAll
<1>7. QED
  BY <1>1, <1>5, <1>6

(* The loop over a batch is at the entry after last_ids.                           *)
LEMMA AtHead ==
  ASSUME SagaInv, NEW s \in Streams, BatchRun(s), Alive, Advance(s)
  PROVE  /\ last[s] \in Nat /\ Len(log[s]) \in Nat
         /\ Oldest(batch) = last[s] + 1 /\ last[s] + 1 \in Ids(s)
         /\ last' = [last EXCEPT ![s] = last[s] + 1]
         /\ last'[s] = last[s] + 1 /\ \A t \in Streams \ {s} : last'[t] = last[t]
         /\ last' \in [Streams -> Nat]
         /\ batch' = {} \/ \E k \in Ids(s) : last[s] + 1 < k /\ batch' = (last[s] + 2)..k
         /\ \A k \in Ids(s) : batch = (last[s] + 1)..k => batch' = (last[s] + 2)..k
<1>1. last[s] \in Nat /\ Len(log[s]) \in Nat /\ last \in [Streams -> Nat]
  BY DEF SagaInv, Positions, LogTypes
<1>2. PICK k \in Ids(s) : last[s] < k /\ batch = (last[s] + 1)..k
  BY DEF BatchRun
<1>3. k \in Nat /\ last[s] + 1 \in batch /\ batch \in SUBSET Nat /\ last[s] + 1 \in Ids(s)
  BY <1>1, <1>2 DEF Ids
<1>4. Oldest(batch) \in batch /\ \A j \in batch : Oldest(batch) =< j
  BY <1>3, OldestIsLeast
<1>5. Oldest(batch) = last[s] + 1
  BY <1>1, <1>2, <1>3, <1>4
<1>6. last' = [last EXCEPT ![s] = last[s] + 1] /\ batch' = batch \ {last[s] + 1}
  BY <1>5 DEF Advance
<1>7. \A m \in Ids(s) : batch = (last[s] + 1)..m => batch' = (last[s] + 2)..m
  BY <1>1, <1>6 DEF Ids
<1>8. batch' = (last[s] + 2)..k
  BY <1>2, <1>7
<1>9. batch' = {} \/ last[s] + 1 < k
  BY <1>1, <1>3, <1>8
<1>10. QED
  BY <1>1, <1>2, <1>3, <1>5, <1>6, <1>7, <1>8, <1>9

LEMMA RoutesABatch ==
  /\ SagaInv /\ pc = "routeOrders" => Alive /\ BatchRun("orders")
  /\ SagaInv /\ pc = "routePayments" => Alive /\ BatchRun("payments")
BY DEF SagaInv, Batches, Alive

-----------------------------------------------------------------------------
(* Events are published of the order they are about.                            *)
LEMMA LogTypesStep ==
  ASSUME SagaInv, [SagaNext]_sagaVars
  PROVE  LogTypes'
<1>1. CASE publish_created
  <2>1. current \in Orders /\ publish("orders", Event("OrderCreated", current))
    BY <1>1 DEF publish_created, SagaInv, RunTypes
  <2>2. QED
    BY <2>1, Published, EventIsEvent DEF SagaInv, Streams, EventTypes
<1>2. CASE StopSeen
  BY <1>2 DEF StopSeen, SagaInv, LogTypes
<1>3. CASE ConsumeOrders
  BY <1>3 DEF ConsumeOrders, SagaInv, LogTypes
<1>4. CASE RouteOrder
  <2>1. log' = log \/ \E o \in Orders : handle_order_created(o)
    <3>1. pc = "routeOrders" /\ Advance("orders")
      BY <1>4 DEF RouteOrder
    <3>2. Oldest(batch) \in Ids("orders")
      BY <3>1, RoutesABatch, AtHead DEF Streams
    <3>3. log["orders"][Oldest(batch)].order \in Orders
      BY <3>2, EntryIsEvent DEF SagaInv, Streams
    <3>4. QED
      BY <1>4, <3>3 DEF RouteOrder
  <2>2. ASSUME NEW o \in Orders, handle_order_created(o) PROVE LogTypes'
    BY <2>2, Published, EventIsEvent DEF handle_order_created, SagaInv, Streams, EventTypes
  <2>3. QED
    BY <2>1, <2>2 DEF SagaInv, LogTypes
<1>5. CASE ConsumePayments
  BY <1>5 DEF ConsumePayments, SagaInv, LogTypes
<1>6. CASE RoutePayment
  <2>1. log' = log \/ \E o \in Orders : ship(o) \/ handle_payment_failed(o)
    <3>1. pc = "routePayments" /\ Advance("payments")
      BY <1>6 DEF RoutePayment
    <3>2. Oldest(batch) \in Ids("payments")
      BY <3>1, RoutesABatch, AtHead DEF Streams
    <3>3. log["payments"][Oldest(batch)].order \in Orders
      BY <3>2, EntryIsEvent DEF SagaInv, Streams
    <3>4. QED
      BY <1>6, <3>3 DEF RoutePayment
  <2>2. ASSUME NEW o \in Orders, ship(o) PROVE LogTypes'
    BY <2>2, Published, EventIsEvent DEF ship, SagaInv, Streams, EventTypes
  <2>3. ASSUME NEW o \in Orders, handle_payment_failed(o) PROVE LogTypes'
    <3>1. log' = log \/ publish("orders", Event("OrderCancelled", o))
      BY <2>3 DEF handle_payment_failed
    <3>2. QED
      BY <3>1, Published, EventIsEvent DEF SagaInv, LogTypes, Streams, EventTypes
  <2>4. QED
    BY <2>1, <2>2, <2>3 DEF SagaInv, LogTypes
<1>7. CASE ConsumeShipping
  BY <1>7 DEF ConsumeShipping, SagaInv, LogTypes
<1>8. CASE SleepEnds
  BY <1>8 DEF SleepEnds, SagaInv, LogTypes
<1>9. CASE DeleteStreams
  <2>1. <<>> \in Seq([type : EventTypes, order : Orders])
    OBVIOUS
  <2>2. QED
    BY <1>9, <2>1 DEF DeleteStreams, LogTypes
<1>10. ASSUME NEW o \in Orders, NewSaga(o) PROVE LogTypes'
  BY <1>10 DEF NewSaga, Begin, SagaInv, LogTypes
<1>11. CASE Restart
  BY <1>11 DEF Restart, Begin, SagaInv, LogTypes
<1>12. CASE SetStopEvent
  BY <1>12 DEF SetStopEvent, SagaInv, LogTypes
<1>13. CASE Crash
  BY <1>13 DEF Crash, SagaInv, LogTypes
<1>14. CASE UNCHANGED sagaVars
  BY <1>14 DEF sagaVars, SagaInv, LogTypes
<1>15. QED
  BY <1>1, <1>2, <1>3, <1>4, <1>5, <1>6, <1>7, <1>8, <1>9, <1>10, <1>11, <1>12, <1>13,
     <1>14 DEF SagaNext, Runner

(* A run has an order.                                                         *)
LEMMA RunTypesStep ==
  ASSUME SagaInv, [SagaNext]_sagaVars
  PROVE  RunTypes'
<1>1. CASE publish_created
  BY <1>1 DEF publish_created, faults, SagaInv, RunTypes, PCs, SagaStatus
<1>2. CASE StopSeen
  BY <1>2 DEF StopSeen, faults, SagaInv, RunTypes, PCs, SagaStatus
<1>3. CASE ConsumeOrders
  BY <1>3 DEF ConsumeOrders, faults, SagaInv, RunTypes, PCs, SagaStatus
<1>4. CASE RouteOrder
  BY <1>4 DEF RouteOrder, faults, SagaInv, RunTypes, PCs, SagaStatus
<1>5. CASE ConsumePayments
  BY <1>5 DEF ConsumePayments, faults, SagaInv, RunTypes, PCs, SagaStatus
<1>6. CASE RoutePayment
  <2>1. /\ status' \in {status, "paid", "cancelled"} /\ pc' \in {"shipping", "routePayments"}
        /\ pc = "routePayments"
        /\ UNCHANGED <<current, stopSet, started, crashes, stops>>
    BY <1>6 DEF RoutePayment, handle_payment_processed, handle_payment_failed, faults
  <2>2. QED
    BY <2>1 DEF SagaInv, RunTypes, PCs, SagaStatus
<1>7. CASE ConsumeShipping
  <2>1. /\ status' \in {status, "completed"} /\ pc' \in {"ended", "sleep"} /\ pc = "shipping"
        /\ UNCHANGED <<current, started, crashes, stops>>
    BY <1>7 DEF ConsumeShipping, handle_order_shipped, faults
  <2>2. stopSet' \in BOOLEAN
    BY <1>7 DEF ConsumeShipping, SagaInv, RunTypes
  <2>3. QED
    BY <2>1, <2>2 DEF SagaInv, RunTypes, PCs, SagaStatus
<1>8. CASE SleepEnds
  BY <1>8 DEF SleepEnds, faults, SagaInv, RunTypes, PCs, SagaStatus
<1>9. CASE DeleteStreams
  BY <1>9 DEF DeleteStreams, faults, SagaInv, RunTypes, PCs, SagaStatus
<1>10. ASSUME NEW o \in Orders, NewSaga(o) PROVE RunTypes'
  BY <1>10 DEF NewSaga, faults, SagaInv, RunTypes, PCs, SagaStatus, Begin
<1>11. CASE Restart
  BY <1>11 DEF Restart, faults, SagaInv, RunTypes, PCs, SagaStatus, Begin
<1>12. CASE SetStopEvent
  <2>1. stops' \in 0..MaxStops
    BY <1>12, SagaBoundAssumption DEF SetStopEvent, SagaInv, RunTypes
  <2>2. QED
    BY <1>12, <2>1 DEF SetStopEvent, Running, SagaInv, RunTypes
<1>13. CASE Crash
  <2>1. crashes' \in 0..MaxCrashes
    BY <1>13, SagaBoundAssumption DEF Crash, SagaInv, RunTypes
  <2>2. QED
    BY <1>13, <2>1 DEF Crash, SagaInv, RunTypes, PCs
<1>14. CASE UNCHANGED sagaVars
  BY <1>14 DEF sagaVars, SagaInv, RunTypes, PCs, SagaStatus
<1>15. QED
  BY <1>1, <1>2, <1>3, <1>4, <1>5, <1>6, <1>7, <1>8, <1>9, <1>10, <1>11, <1>12, <1>13,
     <1>14 DEF SagaNext, Runner

-----------------------------------------------------------------------------
(* Streams only grow, until the caller deletes them.                              *)
Grows ==
  \A t \in Streams :
    /\ Len(log[t]) \in Nat /\ Len(log'[t]) \in Nat /\ Len(log[t]) =< Len(log'[t])
    /\ \A i \in 1..Len(log[t]) : log'[t][i] = log[t][i]

LEMMA PublishGrows ==
  ASSUME LogTypes, NEW s \in Streams, NEW e \in [type : EventTypes, order : Orders], publish(s, e)
  PROVE  Grows
<1>1. \A t \in Streams : Len(log[t]) \in Nat
  BY DEF LogTypes
<1>2. QED
  BY <1>1, Published DEF Grows

LEMMA KeptGrows ==
  ASSUME LogTypes, log' = log
  PROVE  Grows
<1>1. \A t \in Streams : Len(log[t]) \in Nat
  BY DEF LogTypes
<1>2. QED
  BY <1>1 DEF Grows

(* What the first stage does: the payment service answers for any order.            *)
LEMMA OrderRouted ==
  ASSUME SagaInv, RouteOrder
  PROVE  /\ pc = "routeOrders" /\ Alive /\ Advance("orders") /\ BatchRun("orders")
         /\ log' = log \/ \E o \in Orders : handle_order_created(o)
         /\ Grows /\ \A t \in Streams \ {"payments"} : log'[t] = log[t]
         /\ UNCHANGED <<current, status>>
<1>1. pc = "routeOrders" /\ Advance("orders") /\ UNCHANGED <<current, status>>
  BY DEF RouteOrder
<1>2. Oldest(batch) \in Ids("orders") /\ Alive /\ BatchRun("orders")
  BY <1>1, RoutesABatch, AtHead DEF Streams
<1>3. log["orders"][Oldest(batch)].order \in Orders
  BY <1>2, EntryIsEvent DEF SagaInv, Streams
<1>4. log' = log \/ \E o \in Orders : handle_order_created(o)
  BY <1>3 DEF RouteOrder
<1>5. ASSUME NEW o \in Orders, handle_order_created(o)
      PROVE  Grows /\ \A t \in Streams \ {"payments"} : log'[t] = log[t]
  BY <1>5, PublishGrows, Published, EventIsEvent
     DEF handle_order_created, SagaInv, Streams, EventTypes
<1>6. QED
  BY <1>1, <1>2, <1>4, <1>5, KeptGrows DEF SagaInv

(* What the second stage does: a charged order is shipped, the run's declined       *)
(* order is compensated, a declined order of another run is left alone.             *)
Shipping(o) == o \in Orders \ Declined /\ ship(o) /\ handle_payment_processed(o)
Compensating ==
  /\ current \in Declined \cap Orders /\ status' = "cancelled"
  /\ publish("orders", Event("OrderCancelled", current))

LEMMA PaymentRouted ==
  ASSUME SagaInv, RoutePayment
  PROVE  /\ pc = "routePayments" /\ Alive /\ Advance("payments") /\ BatchRun("payments")
         /\ pc' = (IF batch' = {} THEN "shipping" ELSE "routePayments")
         /\ last["payments"] + 1 \in Ids("payments") /\ UNCHANGED current
         /\ \/ \E o \in Orders :
                 /\ log["payments"][last["payments"] + 1] = Event("PaymentProcessed", o)
                 /\ Shipping(o)
            \/ /\ \A o : log["payments"][last["payments"] + 1] # Event("PaymentProcessed", o)
               /\ Compensating \/ (UNCHANGED <<log, status>>)
<1>1. pc = "routePayments" /\ Advance("payments") /\ UNCHANGED current
      /\ pc' = (IF batch' = {} THEN "shipping" ELSE "routePayments")
  BY DEF RoutePayment
<1> DEFINE e == log["payments"][last["payments"] + 1]
<1>2. Oldest(batch) = last["payments"] + 1 /\ last["payments"] + 1 \in Ids("payments")
      /\ Alive /\ BatchRun("payments")
  BY <1>1, RoutesABatch, AtHead DEF Streams
<1>3. e.order \in Orders /\ e = Event(e.type, e.order)
  BY <1>2, EntryIsEvent DEF SagaInv, Streams
<1>4. IF e.order \in Declined THEN e.type = "PaymentFailed" ELSE e.type = "PaymentProcessed"
  BY <1>2 DEF SagaInv, EventsRight
<1>5. IF e.type = "PaymentProcessed"
        THEN handle_payment_processed(e.order) /\ ship(e.order)
        ELSE handle_payment_failed(e.order)
  BY <1>2 DEF RoutePayment
<1>6. CASE e.order \in Declined
  <2>1. handle_payment_failed(e.order) /\ e.type # "PaymentProcessed"
    BY <1>4, <1>5, <1>6
  <2>2. \A o : e # Event("PaymentProcessed", o)
    BY <2>1 DEF Event
  <2>3. Compensating \/ UNCHANGED <<log, status>>
    BY <1>3, <1>6, <2>1 DEF handle_payment_failed, Compensating
  <2>4. QED
    BY <1>1, <1>2, <2>2, <2>3
<1>7. CASE e.order \notin Declined
  <2>1. Shipping(e.order) /\ e = Event("PaymentProcessed", e.order)
    BY <1>3, <1>4, <1>5, <1>7 DEF Shipping
  <2>2. QED
    BY <1>1, <1>2, <1>3, <2>1
<1>8. QED
  BY <1>6, <1>7

LEMMA PaymentRoutedGrows ==
  ASSUME SagaInv, RoutePayment
  PROVE  Grows /\ log'["payments"] = log["payments"]
<1>1. ASSUME NEW o \in Orders, Shipping(o) PROVE Grows /\ log'["payments"] = log["payments"]
  BY <1>1, PublishGrows, Published, EventIsEvent DEF Shipping, ship, SagaInv, Streams,
     EventTypes
<1>2. ASSUME Compensating PROVE Grows /\ log'["payments"] = log["payments"]
  BY <1>2, PublishGrows, Published, EventIsEvent DEF Compensating, SagaInv, Streams, EventTypes
<1>3. QED
  BY <1>1, <1>2, PaymentRouted, KeptGrows DEF SagaInv

LEMMA CreatedGrows ==
  ASSUME SagaInv, publish_created
  PROVE  /\ Grows /\ LogTypes /\ current \in Orders
         /\ \A t \in Streams \ {"orders"} : log'[t] = log[t]
         /\ Len(log'["orders"]) = Len(log["orders"]) + 1
         /\ log'["orders"][Len(log["orders"]) + 1] = Event("OrderCreated", current)
<1>1. current \in Orders /\ publish("orders", Event("OrderCreated", current)) /\ LogTypes
  BY DEF publish_created, SagaInv, RunTypes
<1>2. QED
  BY <1>1, PublishGrows, Published, EventIsEvent DEF Streams, EventTypes

-----------------------------------------------------------------------------
(* Read positions stay on their streams.                                          *)
LEMMA PositionsStep ==
  ASSUME SagaInv, [SagaNext]_sagaVars
  PROVE  Positions'
<1>1. CASE publish_created
  <2>1. last' = last /\ Alive
    BY <1>1 DEF publish_created, Alive
  <2>2. QED
    BY <1>1, <2>1, CreatedGrows DEF SagaInv, Positions, Grows
<1>2. CASE StopSeen
  <2>1. UNCHANGED <<log, last>> /\ (Alive' => Alive)
    BY <1>2 DEF StopSeen, Alive
  <2>2. QED
    BY <2>1 DEF SagaInv, Positions
<1>3. CASE ConsumeOrders
  <2>1. UNCHANGED <<log, last>> /\ (Alive' => Alive)
    BY <1>3 DEF ConsumeOrders, Alive
  <2>2. QED
    BY <2>1 DEF SagaInv, Positions
<1>4. CASE RouteOrder
  <2>1. Alive /\ Grows /\ last' \in [Streams -> Nat] /\ last["orders"] + 1 \in Ids("orders")
        /\ last'["orders"] = last["orders"] + 1
        /\ \A t \in Streams \ {"orders"} : last'[t] = last[t]
    BY <1>4, OrderRouted, AtHead DEF Streams
  <2>2. QED
    BY <2>1 DEF SagaInv, Positions, Grows, Ids, Streams
<1>5. CASE ConsumePayments
  <2>1. UNCHANGED <<log, last>> /\ (Alive' => Alive)
    BY <1>5 DEF ConsumePayments, Alive
  <2>2. QED
    BY <2>1 DEF SagaInv, Positions
<1>6. CASE RoutePayment
  <2>1. Alive /\ Grows /\ last' \in [Streams -> Nat] /\ last["payments"] + 1 \in Ids("payments")
        /\ last'["payments"] = last["payments"] + 1
        /\ \A t \in Streams \ {"payments"} : last'[t] = last[t]
    BY <1>6, PaymentRouted, PaymentRoutedGrows, AtHead DEF Streams
  <2>2. QED
    BY <2>1 DEF SagaInv, Positions, Grows, Ids, Streams
<1>7. CASE ConsumeShipping
  <2>1. Alive /\ log' = log /\ "shipping" \in Streams
        /\ last' = IF consume("shipping") = {} THEN last
                   ELSE [last EXCEPT !["shipping"] = Newest(consume("shipping"))]
    BY <1>7 DEF ConsumeShipping, Alive, Streams
  <2>2. CASE consume("shipping") = {}
    BY <2>1, <2>2 DEF SagaInv, Positions
  <2>3. CASE consume("shipping") # {}
    <3>1. Newest(consume("shipping")) \in Ids("shipping")
      BY <2>1, <2>3, Consumed
    <3>2. Len(log["shipping"]) \in Nat
      BY <2>1, Consumed
    <3>3. QED
      BY <2>1, <2>3, <3>1, <3>2 DEF SagaInv, Positions, Ids
  <2>4. QED
    BY <2>2, <2>3
<1>8. CASE SleepEnds
  <2>1. UNCHANGED <<log, last>> /\ (Alive' => Alive)
    BY <1>8 DEF SleepEnds, Alive
  <2>2. QED
    BY <2>1 DEF SagaInv, Positions
<1>9. CASE DeleteStreams
  <2>1. last' = last /\ ~Alive'
    BY <1>9 DEF DeleteStreams, Alive
  <2>2. QED
    BY <2>1 DEF SagaInv, Positions
<1>10. ASSUME NEW o \in Orders, NewSaga(o) PROVE Positions'
  <2>1. last' = AtStart /\ log' = log
    BY <1>10 DEF NewSaga, Begin
  <2>2. \A t \in Streams : Len(log[t]) \in Nat
    BY DEF SagaInv, LogTypes
  <2>3. QED
    BY <2>1, <2>2 DEF AtStart, Positions
<1>11. CASE Restart
  <2>1. last' = AtStart /\ log' = log
    BY <1>11 DEF Restart, Begin
  <2>2. \A t \in Streams : Len(log[t]) \in Nat
    BY DEF SagaInv, LogTypes
  <2>3. QED
    BY <2>1, <2>2 DEF AtStart, Positions
<1>12. CASE SetStopEvent
  <2>1. UNCHANGED <<log, last>> /\ (Alive' => Alive)
    BY <1>12 DEF SetStopEvent, Alive, Running
  <2>2. QED
    BY <2>1 DEF SagaInv, Positions
<1>13. CASE Crash
  <2>1. last' = last /\ ~Alive'
    BY <1>13 DEF Crash, Alive
  <2>2. QED
    BY <2>1 DEF SagaInv, Positions
<1>14. CASE UNCHANGED sagaVars
  <2>1. UNCHANGED <<log, last>> /\ (Alive' => Alive)
    BY <1>14 DEF sagaVars, Alive
  <2>2. QED
    BY <2>1 DEF SagaInv, Positions
<1>15. QED
  BY <1>1, <1>2, <1>3, <1>4, <1>5, <1>6, <1>7, <1>8, <1>9, <1>10, <1>11, <1>12, <1>13,
     <1>14 DEF SagaNext, Runner

(* A batch is read, and routed to its end, in stream order.                        *)
LEMMA BatchesStep ==
  ASSUME SagaInv, [SagaNext]_sagaVars
  PROVE  Batches'
<1>1. CASE publish_created
  <2>1. batch' = batch /\ pc \notin {"routeOrders", "routePayments"}
        /\ pc' \notin {"routeOrders", "routePayments"}
    BY <1>1 DEF publish_created
  <2>2. QED
    BY <2>1 DEF SagaInv, Batches
<1>2. CASE StopSeen
  <2>1. batch' = batch /\ pc \notin {"routeOrders", "routePayments"}
        /\ pc' \notin {"routeOrders", "routePayments"}
    BY <1>2 DEF StopSeen
  <2>2. QED
    BY <2>1 DEF SagaInv, Batches
<1>3. CASE ConsumeOrders
  <2>1. Alive /\ UNCHANGED <<log, last>> /\ batch' = consume("orders")
        /\ pc' = (IF batch' = {} THEN "payments" ELSE "routeOrders")
    BY <1>3 DEF ConsumeOrders, Alive
  <2>2. consume("orders") # {} =>
          \E k \in Ids("orders") : last["orders"] < k /\ consume("orders") = (last["orders"] + 1)..k
    BY <2>1, Consumed DEF Streams
  <2>3. QED
    BY <2>1, <2>2 DEF Batches, BatchRun, Ids
<1>4. CASE RouteOrder
  <2>1. Alive /\ Advance("orders") /\ BatchRun("orders") /\ Grows
        /\ pc' = (IF batch' = {} THEN "payments" ELSE "routeOrders")
    BY <1>4, OrderRouted DEF RouteOrder
  <2>2. /\ last["orders"] \in Nat /\ last'["orders"] = last["orders"] + 1
        /\ batch' # {} =>
             \E k \in Ids("orders") : last["orders"] + 1 < k /\ batch' = (last["orders"] + 2)..k
    BY <2>1, AtHead DEF Streams
  <2>3. \A k \in Ids("orders") : k \in Ids("orders")'
    BY <2>1 DEF Grows, Ids, Streams
  <2>4. last'["orders"] + 1 = last["orders"] + 2
    BY <2>2
  <2>5. batch' # {} => BatchRun("orders")'
    BY <2>2, <2>3, <2>4 DEF BatchRun
  <2>6. QED
    BY <2>1, <2>5 DEF Batches
<1>5. CASE ConsumePayments
  <2>1. Alive /\ UNCHANGED <<log, last>> /\ batch' = consume("payments")
        /\ pc' = (IF batch' = {} THEN "shipping" ELSE "routePayments")
    BY <1>5 DEF ConsumePayments, Alive
  <2>2. consume("payments") # {} =>
          \E k \in Ids("payments") :
            last["payments"] < k /\ consume("payments") = (last["payments"] + 1)..k
    BY <2>1, Consumed DEF Streams
  <2>3. QED
    BY <2>1, <2>2 DEF Batches, BatchRun, Ids
<1>6. CASE RoutePayment
  <2>1. Alive /\ Advance("payments") /\ BatchRun("payments") /\ Grows
        /\ pc' = (IF batch' = {} THEN "shipping" ELSE "routePayments")
    BY <1>6, PaymentRouted, PaymentRoutedGrows DEF RoutePayment
  <2>2. /\ last["payments"] \in Nat /\ last'["payments"] = last["payments"] + 1
        /\ batch' # {} =>
             \E k \in Ids("payments") :
               last["payments"] + 1 < k /\ batch' = (last["payments"] + 2)..k
    BY <2>1, AtHead DEF Streams
  <2>3. \A k \in Ids("payments") : k \in Ids("payments")'
    BY <2>1 DEF Grows, Ids, Streams
  <2>4. last'["payments"] + 1 = last["payments"] + 2
    BY <2>2
  <2>5. batch' # {} => BatchRun("payments")'
    BY <2>2, <2>3, <2>4 DEF BatchRun
  <2>6. QED
    BY <2>1, <2>5 DEF Batches
<1>7. CASE ConsumeShipping
  <2>1. batch' = batch /\ pc \notin {"routeOrders", "routePayments"}
        /\ pc' \notin {"routeOrders", "routePayments"}
    BY <1>7 DEF ConsumeShipping
  <2>2. QED
    BY <2>1 DEF SagaInv, Batches
<1>8. CASE SleepEnds
  <2>1. batch' = batch /\ pc \notin {"routeOrders", "routePayments"}
        /\ pc' \notin {"routeOrders", "routePayments"}
    BY <1>8 DEF SleepEnds
  <2>2. QED
    BY <2>1 DEF SagaInv, Batches
<1>9. CASE DeleteStreams
  <2>1. batch' = batch /\ pc \notin {"routeOrders", "routePayments"}
        /\ pc' \notin {"routeOrders", "routePayments"}
    BY <1>9 DEF DeleteStreams
  <2>2. QED
    BY <2>1 DEF SagaInv, Batches
<1>10. ASSUME NEW o \in Orders, NewSaga(o) PROVE Batches'
  <2>1. batch' = {} /\ pc' \notin {"routeOrders", "routePayments"}
    BY <1>10 DEF NewSaga, Begin
  <2>2. QED
    BY <2>1 DEF Batches
<1>11. CASE Restart
  <2>1. batch' = {} /\ pc' \notin {"routeOrders", "routePayments"}
    BY <1>11 DEF Restart, Begin
  <2>2. QED
    BY <2>1 DEF Batches
<1>12. CASE SetStopEvent
  <2>1. UNCHANGED <<log, last, batch, pc>>
    BY <1>12 DEF SetStopEvent
  <2>2. QED
    BY <2>1 DEF SagaInv, Batches, BatchRun, Ids
<1>13. CASE Crash
  <2>1. batch' = {} /\ pc' \notin {"routeOrders", "routePayments"}
    BY <1>13 DEF Crash
  <2>2. QED
    BY <2>1 DEF Batches
<1>14. CASE UNCHANGED sagaVars
  <2>1. UNCHANGED <<log, last, batch, pc>>
    BY <1>14 DEF sagaVars
  <2>2. QED
    BY <2>1 DEF SagaInv, Batches, BatchRun, Ids
<1>15. QED
  BY <1>1, <1>2, <1>3, <1>4, <1>5, <1>6, <1>7, <1>8, <1>9, <1>10, <1>11, <1>12, <1>13,
     <1>14 DEF SagaNext, Runner

-----------------------------------------------------------------------------
(* A stream that was published to has its new entry and the old ones.               *)
LEMMA OneMore ==
  ASSUME LogTypes, NEW s \in Streams, NEW type \in EventTypes, NEW o \in Orders,
         publish(s, Event(type, o))
  PROVE  /\ \A i \in Ids(s)' : \/ i \in Ids(s) /\ log'[s][i] = log[s][i]
                               \/ i = Len(log[s]) + 1 /\ log'[s][i].type = type
                                  /\ log'[s][i].order = o
         /\ \A t \in Streams \ {s} : log'[t] = log[t]
<1>1. Event(type, o) \in [type : EventTypes, order : Orders]
      /\ Event(type, o).type = type /\ Event(type, o).order = o
  BY EventIsEvent
<1>2. /\ Len(log[s]) \in Nat /\ Len(log'[s]) = Len(log[s]) + 1
      /\ log'[s][Len(log[s]) + 1] = Event(type, o)
      /\ \A i \in 1..Len(log[s]) : log'[s][i] = log[s][i]
      /\ \A t \in Streams \ {s} : log'[t] = log[t]
  BY <1>1, Published
<1>3. \A i \in Ids(s)' : i \in Ids(s) \/ i = Len(log[s]) + 1
  BY <1>2 DEF Ids
<1>4. QED
  BY <1>1, <1>2, <1>3 DEF Ids

(* The services answer for an order as its amount says.                            *)
LEMMA EventsRightStep ==
  ASSUME SagaInv, [SagaNext]_sagaVars
  PROVE  EventsRight'
<1>1. CASE publish_created
  <2>1. current \in Orders /\ publish("orders", Event("OrderCreated", current)) /\ LogTypes
    BY <1>1 DEF publish_created, SagaInv, RunTypes
  <2>2. QED
    BY <2>1, OneMore DEF SagaInv, EventsRight, Streams, EventTypes, Ids
<1>2. CASE StopSeen
  <2>1. log' = log
    BY <1>2 DEF StopSeen
  <2>2. QED
    BY <2>1 DEF SagaInv, EventsRight, Ids
<1>3. CASE ConsumeOrders
  <2>1. log' = log
    BY <1>3 DEF ConsumeOrders
  <2>2. QED
    BY <2>1 DEF SagaInv, EventsRight, Ids
<1>4. CASE RouteOrder
  <2>1. ASSUME NEW o \in Orders, handle_order_created(o) PROVE EventsRight'
    <3>1. CASE o \in Declined
      <4>1. publish("payments", Event("PaymentFailed", o))
        BY <2>1, <3>1 DEF handle_order_created
      <4>2. QED
        BY <4>1, <3>1, OneMore DEF SagaInv, EventsRight, Streams, EventTypes, Ids
    <3>2. CASE o \notin Declined
      <4>1. publish("payments", Event("PaymentProcessed", o))
        BY <2>1, <3>2 DEF handle_order_created
      <4>2. QED
        BY <4>1, <3>2, OneMore DEF SagaInv, EventsRight, Streams, EventTypes, Ids
    <3>3. QED
      BY <3>1, <3>2
  <2>2. CASE log' = log
    BY <2>2 DEF SagaInv, EventsRight, Ids
  <2>3. QED
    BY <1>4, <2>1, <2>2, OrderRouted
<1>5. CASE ConsumePayments
  <2>1. log' = log
    BY <1>5 DEF ConsumePayments
  <2>2. QED
    BY <2>1 DEF SagaInv, EventsRight, Ids
<1>6. CASE RoutePayment
  <2>1. ASSUME NEW o \in Orders, Shipping(o) PROVE EventsRight'
    <3>1. publish("shipping", Event("OrderShipped", o)) /\ o \notin Declined
      BY <2>1 DEF Shipping, ship
    <3>2. QED
      BY <3>1, OneMore DEF SagaInv, EventsRight, Streams, EventTypes, Ids
  <2>2. CASE Compensating
    <3>1. publish("orders", Event("OrderCancelled", current)) /\ current \in Declined \cap Orders
      BY <2>2 DEF Compensating
    <3>2. QED
      BY <3>1, OneMore DEF SagaInv, EventsRight, Streams, EventTypes, Ids
  <2>3. CASE log' = log
    BY <2>3 DEF SagaInv, EventsRight, Ids
  <2>4. QED
    BY <1>6, <2>1, <2>2, <2>3, PaymentRouted
<1>7. CASE ConsumeShipping
  <2>1. log' = log
    BY <1>7 DEF ConsumeShipping
  <2>2. QED
    BY <2>1 DEF SagaInv, EventsRight, Ids
<1>8. CASE SleepEnds
  <2>1. log' = log
    BY <1>8 DEF SleepEnds
  <2>2. QED
    BY <2>1 DEF SagaInv, EventsRight, Ids
<1>9. CASE DeleteStreams
  <2>1. log' = [t \in Streams |-> <<>>]
    BY <1>9 DEF DeleteStreams
  <2>2. \A t \in Streams : Ids(t)' = {}
    BY <2>1 DEF Ids
  <2>3. QED
    BY <2>2 DEF EventsRight, Streams
<1>10. ASSUME NEW o \in Orders, NewSaga(o) PROVE EventsRight'
  <2>1. log' = log
    BY <1>10 DEF NewSaga, Begin
  <2>2. QED
    BY <2>1 DEF SagaInv, EventsRight, Ids
<1>11. CASE Restart
  <2>1. log' = log
    BY <1>11 DEF Restart, Begin
  <2>2. QED
    BY <2>1 DEF SagaInv, EventsRight, Ids
<1>12. CASE SetStopEvent
  <2>1. log' = log
    BY <1>12 DEF SetStopEvent
  <2>2. QED
    BY <2>1 DEF SagaInv, EventsRight, Ids
<1>13. CASE Crash
  <2>1. log' = log
    BY <1>13 DEF Crash
  <2>2. QED
    BY <2>1 DEF SagaInv, EventsRight, Ids
<1>14. CASE UNCHANGED sagaVars
  <2>1. log' = log
    BY <1>14 DEF sagaVars
  <2>2. QED
    BY <2>1 DEF SagaInv, EventsRight, Ids
<1>15. QED
  BY <1>1, <1>2, <1>3, <1>4, <1>5, <1>6, <1>7, <1>8, <1>9, <1>10, <1>11, <1>12, <1>13,
     <1>14 DEF SagaNext, Runner

(* What is on a stream that grows stays there.                                    *)
LEMMA StaysPublished ==
  ASSUME Grows, NEW s \in Streams, NEW e, \E i \in Ids(s) : log[s][i] = e
  PROVE  \E i \in Ids(s)' : log'[s][i] = e
BY DEF Grows, Ids

(* A status is final as its event is published.                                      *)
LEMMA StatusRightStep ==
  ASSUME SagaInv, [SagaNext]_sagaVars
  PROVE  StatusRight'
<1>1. CASE publish_created
  <2>1. UNCHANGED <<current, status>> /\ Alive /\ pc = "create"
    BY <1>1 DEF publish_created, Alive
  <2>2. status \notin Terminal
    BY <2>1 DEF SagaInv, StatusRight
  <2>3. QED
    BY <2>1, <2>2 DEF SagaInv, StatusRight, Terminal
<1>2. CASE StopSeen
  <2>1. UNCHANGED <<log, current, status>> /\ Alive
        /\ (status \in Terminal => pc \in {"routePayments", "shipping", "ended"})
    BY <1>2 DEF StopSeen, Alive, SagaInv, StatusRight
  <2>2. status \notin Terminal \/ pc' = pc
    BY <1>2, <2>1 DEF StopSeen
  <2>3. QED
    BY <2>1, <2>2 DEF SagaInv, StatusRight, Ids
<1>3. CASE ConsumeOrders
  <2>1. UNCHANGED <<log, current, status>> /\ Alive
        /\ (status \in Terminal => pc \in {"routePayments", "shipping", "ended"})
    BY <1>3 DEF ConsumeOrders, Alive, SagaInv, StatusRight
  <2>2. status \notin Terminal \/ pc' = pc
    BY <1>3, <2>1 DEF ConsumeOrders
  <2>3. QED
    BY <2>1, <2>2 DEF SagaInv, StatusRight, Ids
<1>4. CASE RouteOrder
  <2>1. UNCHANGED <<current, status>> /\ Alive /\ pc = "routeOrders"
    BY <1>4, OrderRouted
  <2>2. status \notin Terminal
    BY <2>1 DEF SagaInv, StatusRight
  <2>3. QED
    BY <2>1, <2>2 DEF SagaInv, StatusRight, Terminal
<1>5. CASE ConsumePayments
  <2>1. UNCHANGED <<log, current, status>> /\ Alive /\ pc = "payments"
    BY <1>5 DEF ConsumePayments, Alive
  <2>2. status \notin Terminal
    BY <2>1 DEF SagaInv, StatusRight
  <2>3. QED
    BY <2>1, <2>2 DEF SagaInv, StatusRight, Ids
<1>6. CASE RoutePayment
  <2>1. Grows /\ current' = current /\ Alive /\ pc' \in {"shipping", "routePayments"}
    BY <1>6, PaymentRouted, PaymentRoutedGrows
  <2>2. /\ status = "cancelled" => current \in Declined
             /\ \E i \in Ids("orders")' : log'["orders"][i] = Event("OrderCancelled", current)
        /\ status \in {"paid", "completed"} => current \notin Declined
        /\ status = "completed" =>
             \E i \in Ids("shipping")' : log'["shipping"][i] = Event("OrderShipped", current)
    BY <2>1, StaysPublished DEF SagaInv, StatusRight, Streams
  <2>3. CASE status' = status
    BY <2>1, <2>2, <2>3 DEF StatusRight
  <2>4. ASSUME NEW o \in Orders, Shipping(o), status' # status PROVE StatusRight'
    <3>1. status' = "paid" /\ current \notin Declined
      BY <2>4 DEF Shipping, handle_payment_processed
    <3>2. QED
      BY <2>1, <3>1 DEF StatusRight, Terminal
  <2>5. CASE Compensating
    <3>1. /\ status' = "cancelled" /\ current \in Declined \cap Orders
          /\ publish("orders", Event("OrderCancelled", current))
      BY <2>5 DEF Compensating
    <3>2. Event("OrderCancelled", current) \in [type : EventTypes, order : Orders]
      BY <3>1, EventIsEvent DEF EventTypes
    <3>3. /\ Len(log["orders"]) \in Nat /\ Len(log'["orders"]) = Len(log["orders"]) + 1
          /\ log'["orders"][Len(log["orders"]) + 1] = Event("OrderCancelled", current)
      BY <3>1, <3>2, Published DEF SagaInv, Streams
    <3>4. \E i \in Ids("orders")' : log'["orders"][i] = Event("OrderCancelled", current)
      BY <3>3 DEF Ids
    <3>5. QED
      BY <2>1, <3>1, <3>4 DEF StatusRight
  <2>6. QED
    BY <1>6, <2>3, <2>4, <2>5, PaymentRouted
<1>7. CASE ConsumeShipping
  <2>1. /\ UNCHANGED <<log, current>> /\ Alive /\ pc = "shipping"
        /\ handle_order_shipped(consume("shipping"))
        /\ pc' = IF status' \in Terminal THEN "ended" ELSE "sleep"
    BY <1>7 DEF ConsumeShipping, Alive
  <2>2. consume("shipping") \subseteq Ids("shipping")
    <3>1. \A k \in Ids("shipping") : (last["shipping"] + 1)..k \subseteq Ids("shipping")
      BY <2>1, Consumed DEF Ids, Streams
    <3>2. QED
      BY <2>1, <3>1, Consumed DEF Streams
  <2>3. CASE status' = status
    BY <2>1, <2>3 DEF SagaInv, StatusRight, Ids
  <2>4. CASE status' # status
    <3>1. status' = "completed" /\ \E i \in consume("shipping") : log["shipping"][i].order = current
      BY <2>1, <2>4 DEF handle_order_shipped
    <3>2. PICK i \in Ids("shipping") : log["shipping"][i].order = current
      BY <2>2, <3>1
    <3>3. log["shipping"][i] = Event("OrderShipped", current) /\ current \notin Declined
      BY <3>2, EntryIsEvent DEF SagaInv, EventsRight, Streams
    <3>4. QED
      BY <2>1, <3>1, <3>3 DEF StatusRight, Ids
  <2>5. QED
    BY <2>3, <2>4
<1>8. CASE SleepEnds
  <2>1. UNCHANGED <<log, current, status>> /\ Alive
        /\ (status \in Terminal => pc \in {"routePayments", "shipping", "ended"})
    BY <1>8 DEF SleepEnds, Alive, SagaInv, StatusRight
  <2>2. status \notin Terminal \/ pc' = pc
    BY <1>8, <2>1 DEF SleepEnds
  <2>3. QED
    BY <2>1, <2>2 DEF SagaInv, StatusRight, Ids
<1>9. CASE DeleteStreams
  <2>1. ~Alive'
    BY <1>9 DEF DeleteStreams, Alive
  <2>2. QED
    BY <2>1 DEF StatusRight
<1>10. ASSUME NEW o \in Orders, NewSaga(o) PROVE StatusRight'
  <2>1. status' = "payment_processing"
    BY <1>10 DEF NewSaga, Begin
  <2>2. QED
    BY <2>1 DEF StatusRight, Terminal
<1>11. CASE Restart
  <2>1. status' = "payment_processing"
    BY <1>11 DEF Restart, Begin
  <2>2. QED
    BY <2>1 DEF StatusRight, Terminal
<1>12. CASE SetStopEvent
  <2>1. UNCHANGED <<log, current, status>> /\ Alive
        /\ (status \in Terminal => pc \in {"routePayments", "shipping", "ended"})
    BY <1>12 DEF SetStopEvent, Alive, Running, SagaInv, StatusRight
  <2>2. status \notin Terminal \/ pc' = pc
    BY <1>12, <2>1 DEF SetStopEvent
  <2>3. QED
    BY <2>1, <2>2 DEF SagaInv, StatusRight, Ids
<1>13. CASE Crash
  <2>1. ~Alive'
    BY <1>13 DEF Crash, Alive
  <2>2. QED
    BY <2>1 DEF StatusRight
<1>14. CASE UNCHANGED sagaVars
  <2>1. UNCHANGED <<log, current, status, pc>>
    BY <1>14 DEF sagaVars
  <2>2. QED
    BY <2>1 DEF SagaInv, StatusRight, Alive, Ids
<1>15. QED
  BY <1>1, <1>2, <1>3, <1>4, <1>5, <1>6, <1>7, <1>8, <1>9, <1>10, <1>11, <1>12, <1>13,
     <1>14 DEF SagaNext, Runner

LEMMA EmptyRun ==
  ASSUME NEW a \in Nat, NEW b \in Nat, a =< b, (a + 1)..b = {}
  PROVE  a = b
<1>1. b \notin (a + 1)..b
  OBVIOUS
<1>2. QED
  BY <1>1

(* Nothing is published to the payments while they are routed.                       *)
LEMMA OneReadStep ==
  ASSUME SagaInv, [SagaNext]_sagaVars
  PROVE  OneRead'
<1>1. CASE publish_created
  <2>1. pc' \notin {"routePayments", "shipping", "ended"}
    BY <1>1 DEF publish_created
  <2>2. QED
    BY <2>1 DEF OneRead
<1>2. CASE StopSeen
  <2>1. pc = "orders" /\ pc' = "ended" /\ status' = status /\ Alive
    BY <1>2 DEF StopSeen, Alive
  <2>2. status \notin Terminal
    BY <2>1 DEF SagaInv, StatusRight
  <2>3. QED
    BY <2>1, <2>2 DEF OneRead
<1>3. CASE ConsumeOrders
  <2>1. pc' \notin {"routePayments", "shipping", "ended"}
    BY <1>3 DEF ConsumeOrders
  <2>2. QED
    BY <2>1 DEF OneRead
<1>4. CASE RouteOrder
  <2>1. pc' \notin {"routePayments", "shipping", "ended"}
    BY <1>4 DEF RouteOrder
  <2>2. QED
    BY <2>1 DEF OneRead
<1>5. CASE ConsumePayments
  <2>1. Alive /\ UNCHANGED <<log, last>> /\ batch' = consume("payments")
        /\ pc' = (IF batch' = {} THEN "shipping" ELSE "routePayments")
    BY <1>5 DEF ConsumePayments, Alive
  <2>2. /\ last["payments"] \in Nat /\ Len(log["payments"]) \in Nat
        /\ last["payments"] =< Len(log["payments"])
        /\ Len(log["payments"]) =< Count =>
             batch' = (last["payments"] + 1)..Len(log["payments"])
    BY <2>1, Consumed DEF Streams
  <2>3. (last["payments"] + 1)..Len(log["payments"]) = {} => last["payments"] = Len(log["payments"])
    BY <2>2, EmptyRun
  <2>4. QED
    BY <2>1, <2>2, <2>3 DEF OneRead
<1>6. CASE RoutePayment
  <2>1. /\ Alive /\ Advance("payments") /\ BatchRun("payments") /\ pc = "routePayments"
        /\ log'["payments"] = log["payments"] /\ last["payments"] + 1 \in Ids("payments")
        /\ pc' = (IF batch' = {} THEN "shipping" ELSE "routePayments")
    BY <1>6, PaymentRouted, PaymentRoutedGrows
  <2>2. /\ last["payments"] \in Nat /\ Len(log["payments"]) \in Nat
        /\ last'["payments"] = last["payments"] + 1
        /\ \A k \in Ids("payments") : batch = (last["payments"] + 1)..k =>
             batch' = (last["payments"] + 2)..k
    BY <2>1, AtHead DEF Streams
  <2>3. Len(log["payments"]) \in Ids("payments") /\ last["payments"] + 1 =< Len(log["payments"])
    BY <2>1, <2>2 DEF Ids
  <2>4. ASSUME Len(log["payments"]) =< Count
        PROVE  batch' = (last'["payments"] + 1)..Len(log["payments"])
    <3>1. batch = (last["payments"] + 1)..Len(log["payments"])
      BY <2>1, <2>4 DEF SagaInv, OneRead
    <3>2. last'["payments"] + 1 = last["payments"] + 2
      BY <2>2
    <3>3. QED
      BY <2>2, <2>3, <3>1, <3>2
  <2>5. (last'["payments"] + 1)..Len(log["payments"]) = {} =>
          last'["payments"] = Len(log["payments"])
    <3>1. last'["payments"] \in Nat /\ last'["payments"] =< Len(log["payments"])
      BY <2>2, <2>3
    <3>2. QED
      BY <2>2, <3>1, EmptyRun
  <2>6. QED
    BY <2>1, <2>4, <2>5 DEF OneRead
<1>7. CASE ConsumeShipping
  <2>1. pc = "shipping" /\ log' = log /\ pc' \in {"ended", "sleep"}
        /\ last' = IF consume("shipping") = {} THEN last
                   ELSE [last EXCEPT !["shipping"] = Newest(consume("shipping"))]
    BY <1>7 DEF ConsumeShipping
  <2>2. last'["payments"] = last["payments"]
    BY <2>1 DEF SagaInv, Positions, Streams
  <2>3. QED
    BY <2>1, <2>2 DEF SagaInv, OneRead
<1>8. CASE SleepEnds
  <2>1. pc' \notin {"routePayments", "shipping", "ended"}
    BY <1>8 DEF SleepEnds
  <2>2. QED
    BY <2>1 DEF OneRead
<1>9. CASE DeleteStreams
  <2>1. pc' \notin {"routePayments", "shipping", "ended"}
    BY <1>9 DEF DeleteStreams
  <2>2. QED
    BY <2>1 DEF OneRead
<1>10. ASSUME NEW o \in Orders, NewSaga(o) PROVE OneRead'
  <2>1. pc' \notin {"routePayments", "shipping", "ended"}
    BY <1>10 DEF NewSaga, Begin
  <2>2. QED
    BY <2>1 DEF OneRead
<1>11. CASE Restart
  <2>1. pc' \notin {"routePayments", "shipping", "ended"}
    BY <1>11 DEF Restart, Begin
  <2>2. QED
    BY <2>1 DEF OneRead
<1>12. CASE SetStopEvent
  <2>1. UNCHANGED <<log, last, batch, pc, status>>
    BY <1>12 DEF SetStopEvent
  <2>2. QED
    BY <2>1 DEF SagaInv, OneRead
<1>13. CASE Crash
  <2>1. pc' \notin {"routePayments", "shipping", "ended"}
    BY <1>13 DEF Crash
  <2>2. QED
    BY <2>1 DEF OneRead
<1>14. CASE UNCHANGED sagaVars
  <2>1. UNCHANGED <<log, last, batch, pc, status>>
    BY <1>14 DEF sagaVars
  <2>2. QED
    BY <2>1 DEF SagaInv, OneRead
<1>15. QED
  BY <1>1, <1>2, <1>3, <1>4, <1>5, <1>6, <1>7, <1>8, <1>9, <1>10, <1>11, <1>12, <1>13,
     <1>14 DEF SagaNext, Runner

-----------------------------------------------------------------------------
(* Counting what was charged and what was shipped.                                 *)
LEMMA PaidCounted ==
  ASSUME NEW stream, NEW k \in Nat, NEW o
  PROVE  /\ IsFiniteSet(PaidIn(stream, k, o)) /\ Cardinality(PaidIn(stream, k, o)) \in Nat
<1>1. IsFiniteSet(1..k)
  BY FS_Interval
<1>2. IsFiniteSet(PaidIn(stream, k, o))
  BY <1>1, FS_Subset DEF PaidIn
<1>3. QED
  BY <1>2, FS_CardinalityType

LEMMA TimesCounted ==
  ASSUME LogTypes, NEW s \in Streams, NEW type, NEW o
  PROVE  /\ IsFiniteSet({i \in Ids(s) : log[s][i] = Event(type, o)})
         /\ Times(s, type, o) = Cardinality({i \in Ids(s) : log[s][i] = Event(type, o)})
         /\ Times(s, type, o) \in Nat
<1>1. Len(log[s]) \in Nat /\ DOMAIN log[s] = Ids(s)
  BY DEF LogTypes, Ids
<1>2. IsFiniteSet(Ids(s))
  BY <1>1, FS_Interval DEF Ids
<1>3. IsFiniteSet({i \in Ids(s) : log[s][i] = Event(type, o)})
  BY <1>2, FS_Subset
<1>4. Times(s, type, o) = Cardinality({i \in Ids(s) : log[s][i] = Event(type, o)})
  BY <1>1 DEF Times
<1>5. QED
  BY <1>3, <1>4, FS_CardinalityType

(* Orders and stale reads change neither side of the count.                        *)
LEMMA CountsKept ==
  ASSUME SagaInv, Alive, Grows, log'["shipping"] = log["shipping"],
         last'["payments"] = last["payments"]
  PROVE  RoutedAreShipped'
<1>1. last["payments"] \in Nat /\ last["payments"] =< Len(log["payments"])
  BY DEF SagaInv, Positions, Streams
<1>2. ASSUME NEW o \in Orders
      PROVE  /\ PaidIn(log'["payments"], last'["payments"], o) =
                  PaidIn(log["payments"], last["payments"], o)
             /\ Times("shipping", "OrderShipped", o)' = Times("shipping", "OrderShipped", o)
  <2>1. \A i \in 1..last["payments"] : log'["payments"][i] = log["payments"][i]
    <3>1. 1..last["payments"] \subseteq 1..Len(log["payments"])
      BY <1>1 DEF Grows, Streams
    <3>2. QED
      BY <3>1 DEF Grows, Streams
  <2>2. PaidIn(log'["payments"], last'["payments"], o) =
          PaidIn(log["payments"], last["payments"], o)
    BY <2>1 DEF PaidIn
  <2>3. QED
    BY <2>2 DEF Times
<1>3. QED
  BY <1>2 DEF SagaInv, RoutedAreShipped

(* Routing one payment counts it if it is the order's.                            *)
LEMMA PaidInNext ==
  ASSUME NEW stream, NEW k \in Nat, NEW o
  PROVE  /\ stream[k + 1] = Event("PaymentProcessed", o) =>
              Cardinality(PaidIn(stream, k + 1, o)) = Cardinality(PaidIn(stream, k, o)) + 1
         /\ stream[k + 1] # Event("PaymentProcessed", o) =>
              PaidIn(stream, k + 1, o) = PaidIn(stream, k, o)
<1>1. 1..(k + 1) = (1..k) \cup {k + 1} /\ k + 1 \notin 1..k
  OBVIOUS
<1>2. ASSUME stream[k + 1] = Event("PaymentProcessed", o)
      PROVE  Cardinality(PaidIn(stream, k + 1, o)) = Cardinality(PaidIn(stream, k, o)) + 1
  <2>1. /\ PaidIn(stream, k + 1, o) = PaidIn(stream, k, o) \cup {k + 1}
        /\ k + 1 \notin PaidIn(stream, k, o)
    BY <1>1, <1>2 DEF PaidIn
  <2>2. Cardinality(PaidIn(stream, k, o) \cup {k + 1}) = Cardinality(PaidIn(stream, k, o)) + 1
    BY <2>1, PaidCounted, FS_AddElement
  <2>3. QED
    BY <2>1, <2>2
<1>3. ASSUME stream[k + 1] # Event("PaymentProcessed", o)
      PROVE  PaidIn(stream, k + 1, o) = PaidIn(stream, k, o)
  BY <1>1, <1>3 DEF PaidIn
<1>4. QED
  BY <1>2, <1>3

(* A shipment counts for its order and for no other.                               *)
LEMMA ShippedNext ==
  ASSUME LogTypes, NEW o \in Orders, NEW q \in Orders, ship(o)
  PROVE  /\ q = o =>
              Times("shipping", "OrderShipped", q)' = Times("shipping", "OrderShipped", q) + 1
         /\ q # o => Times("shipping", "OrderShipped", q)' = Times("shipping", "OrderShipped", q)
<1> DEFINE of == {i \in Ids("shipping") : log["shipping"][i] = Event("OrderShipped", q)}
           new == Len(log["shipping"]) + 1
<1>1. /\ LogTypes' /\ Len(log["shipping"]) \in Nat
      /\ Len(log'["shipping"]) = new
      /\ log'["shipping"][new] = Event("OrderShipped", o)
      /\ \A i \in 1..Len(log["shipping"]) : log'["shipping"][i] = log["shipping"][i]
  <2>1. publish("shipping", Event("OrderShipped", o)) /\ "shipping" \in Streams
        /\ Event("OrderShipped", o) \in [type : EventTypes, order : Orders]
    BY EventIsEvent DEF ship, Streams, EventTypes
  <2>2. QED
    BY <2>1, Published
<1>2. Ids("shipping")' = Ids("shipping") \cup {new} /\ new \notin Ids("shipping")
  BY <1>1 DEF Ids
<1>3. IsFiniteSet(of) /\ Times("shipping", "OrderShipped", q) = Cardinality(of)
  BY TimesCounted DEF Streams
<1>4. DOMAIN log'["shipping"] = Ids("shipping")'
  BY <1>1 DEF LogTypes, Ids, Streams
<1>5. Times("shipping", "OrderShipped", q)' =
        Cardinality({i \in Ids("shipping")' : log'["shipping"][i] = Event("OrderShipped", q)})
  BY <1>4 DEF Times
<1>6. CASE q = o
  <2>1. {i \in Ids("shipping")' : log'["shipping"][i] = Event("OrderShipped", q)} = of \cup {new}
    BY <1>1, <1>2, <1>6 DEF Ids
  <2>2. new \notin of
    BY <1>2
  <2>3. Cardinality(of \cup {new}) = Cardinality(of) + 1
    BY <1>3, <2>2, FS_AddElement
  <2>4. QED
    BY <1>3, <1>5, <1>6, <2>1, <2>3
<1>7. CASE q # o
  <2>1. Event("OrderShipped", o) # Event("OrderShipped", q)
    BY <1>7 DEF Event
  <2>2. {i \in Ids("shipping")' : log'["shipping"][i] = Event("OrderShipped", q)} = of
    BY <1>1, <1>2, <2>1 DEF Ids
  <2>3. QED
    BY <1>3, <1>5, <1>7, <2>2
<1>8. QED
  BY <1>6, <1>7

(* A payment is routed and shipped in one step of the runner.                        *)
LEMMA RoutedAreShippedStep ==
  ASSUME SagaInv, [SagaNext]_sagaVars
  PROVE  RoutedAreShipped'
<1>1. CASE publish_created
  <2>1. Alive /\ last' = last
    BY <1>1 DEF publish_created, Alive
  <2>2. QED
    BY <1>1, <2>1, CreatedGrows, CountsKept DEF Streams
<1>2. CASE StopSeen
  <2>1. Alive /\ UNCHANGED <<log, last>>
    BY <1>2 DEF StopSeen, Alive
  <2>2. QED
    BY <2>1, CountsKept, KeptGrows DEF SagaInv
<1>3. CASE ConsumeOrders
  <2>1. Alive /\ UNCHANGED <<log, last>>
    BY <1>3 DEF ConsumeOrders, Alive
  <2>2. QED
    BY <2>1, CountsKept, KeptGrows DEF SagaInv
<1>4. CASE RouteOrder
  <2>1. Alive /\ Grows /\ log'["shipping"] = log["shipping"] /\ Advance("orders")
        /\ BatchRun("orders")
    BY <1>4, OrderRouted DEF Streams
  <2>2. last'["payments"] = last["payments"]
    BY <2>1, AtHead DEF Streams
  <2>3. QED
    BY <2>1, <2>2, CountsKept
<1>5. CASE ConsumePayments
  <2>1. Alive /\ UNCHANGED <<log, last>>
    BY <1>5 DEF ConsumePayments, Alive
  <2>2. QED
    BY <2>1, CountsKept, KeptGrows DEF SagaInv
<1>6. CASE RoutePayment
  <2>1. Alive /\ Advance("payments") /\ BatchRun("payments") /\ LogTypes
        /\ log'["payments"] = log["payments"]
    BY <1>6, PaymentRouted, PaymentRoutedGrows DEF SagaInv
  <2> DEFINE k == last["payments"]
             stream == log["payments"]
             count(r) == Cardinality(PaidIn(stream, k, r))
             shipped(r) == Times("shipping", "OrderShipped", r)
  <2>2. k \in Nat /\ last'["payments"] = k + 1
    BY <2>1, AtHead DEF Streams
  <2>3. \A o \in Orders : count(o) =< shipped(o) /\ count(o) \in Nat /\ shipped(o) \in Nat
    BY <2>1, <2>2, PaidCounted, TimesCounted DEF SagaInv, RoutedAreShipped, Streams
  <2>4. ASSUME NEW o \in Orders, log["payments"][k + 1] = Event("PaymentProcessed", o), Shipping(o)
        PROVE  RoutedAreShipped'
    <3>1. ASSUME NEW q \in Orders
          PROVE  Cardinality(PaidIn(stream, k + 1, q)) =< Times("shipping", "OrderShipped", q)'
      <4>1. CASE q = o
        <5>1. Cardinality(PaidIn(stream, k + 1, q)) = count(q) + 1
          BY <2>2, <2>4, <4>1, PaidInNext
        <5>2. Times("shipping", "OrderShipped", q)' = shipped(q) + 1
          BY <2>1, <2>4, <4>1, ShippedNext DEF Shipping
        <5>3. QED
          BY <2>3, <5>1, <5>2
      <4>2. CASE q # o
        <5>1. Event("PaymentProcessed", o) # Event("PaymentProcessed", q)
          BY <4>2 DEF Event
        <5>2. Cardinality(PaidIn(stream, k + 1, q)) = count(q)
          BY <2>2, <2>4, <5>1, PaidInNext
        <5>3. Times("shipping", "OrderShipped", q)' = shipped(q)
          BY <2>1, <2>4, <4>2, ShippedNext DEF Shipping
        <5>4. QED
          BY <2>3, <5>2, <5>3
      <4>3. QED
        BY <4>1, <4>2
    <3>2. QED
      BY <2>1, <2>2, <3>1 DEF RoutedAreShipped
  <2>5. ASSUME \A o : log["payments"][k + 1] # Event("PaymentProcessed", o),
               log'["shipping"] = log["shipping"]
        PROVE  RoutedAreShipped'
    <3>1. ASSUME NEW q \in Orders
          PROVE  Cardinality(PaidIn(stream, k + 1, q)) =< Times("shipping", "OrderShipped", q)'
      <4>1. Cardinality(PaidIn(stream, k + 1, q)) = count(q)
        BY <2>2, <2>5, PaidInNext
      <4>2. Times("shipping", "OrderShipped", q)' = shipped(q)
        BY <2>5 DEF Times
      <4>3. QED
        BY <2>3, <4>1, <4>2
    <3>2. QED
      BY <2>1, <2>2, <3>1 DEF RoutedAreShipped
  <2>6. Compensating => log'["shipping"] = log["shipping"]
    BY <2>1, Published, EventIsEvent DEF Compensating, Streams, EventTypes
  <2>7. QED
    BY <1>6, <2>4, <2>5, <2>6, PaymentRouted
<1>7. CASE ConsumeShipping
  <2>1. Alive /\ log' = log
        /\ last' = IF consume("shipping") = {} THEN last
                   ELSE [last EXCEPT !["shipping"] = Newest(consume("shipping"))]
    BY <1>7 DEF ConsumeShipping, Alive
  <2>2. last'["payments"] = last["payments"]
    BY <2>1 DEF SagaInv, Positions, Streams
  <2>3. QED
    BY <2>1, <2>2, CountsKept, KeptGrows DEF SagaInv
<1>8. CASE SleepEnds
  <2>1. Alive /\ UNCHANGED <<log, last>>
    BY <1>8 DEF SleepEnds, Alive
  <2>2. QED
    BY <2>1, CountsKept, KeptGrows DEF SagaInv
<1>9. CASE DeleteStreams
  <2>1. ~Alive'
    BY <1>9 DEF DeleteStreams, Alive
  <2>2. QED
    BY <2>1 DEF RoutedAreShipped
<1>10. ASSUME NEW o \in Orders, NewSaga(o) PROVE RoutedAreShipped'
  <2>1. log' = log /\ last'["payments"] = 0
    BY <1>10 DEF NewSaga, Begin, AtStart, Streams
  <2>2. ASSUME NEW q \in Orders
        PROVE  Cardinality(PaidIn(log'["payments"], last'["payments"], q))
                 =< Times("shipping", "OrderShipped", q)'
    <3>1. PaidIn(log'["payments"], last'["payments"], q) = {}
      BY <2>1 DEF PaidIn
    <3>2. Times("shipping", "OrderShipped", q)' = Times("shipping", "OrderShipped", q)
      BY <2>1 DEF Times
    <3>3. Times("shipping", "OrderShipped", q) \in Nat
      BY TimesCounted DEF SagaInv, Streams
    <3>4. Cardinality(PaidIn(log'["payments"], last'["payments"], q)) = 0
      BY <3>1, FS_EmptySet
    <3>5. QED
      BY <3>2, <3>3, <3>4
  <2>3. QED
    BY <2>2 DEF RoutedAreShipped
<1>11. CASE Restart
  <2>1. log' = log /\ last'["payments"] = 0
    BY <1>11 DEF Restart, Begin, AtStart, Streams
  <2>2. ASSUME NEW o \in Orders
        PROVE  Cardinality(PaidIn(log'["payments"], last'["payments"], o))
                 =< Times("shipping", "OrderShipped", o)'
    <3>1. PaidIn(log'["payments"], last'["payments"], o) = {}
      BY <2>1 DEF PaidIn
    <3>2. Times("shipping", "OrderShipped", o)' = Times("shipping", "OrderShipped", o)
      BY <2>1 DEF Times
    <3>3. Times("shipping", "OrderShipped", o) \in Nat
      BY TimesCounted DEF SagaInv, Streams
    <3>4. Cardinality(PaidIn(log'["payments"], last'["payments"], o)) = 0
      BY <3>1, FS_EmptySet
    <3>5. QED
      BY <3>2, <3>3, <3>4
  <2>3. QED
    BY <2>2 DEF RoutedAreShipped
<1>12. CASE SetStopEvent
  <2>1. Alive /\ UNCHANGED <<log, last>>
    BY <1>12 DEF SetStopEvent, Alive, Running
  <2>2. QED
    BY <2>1, CountsKept, KeptGrows DEF SagaInv
<1>13. CASE Crash
  <2>1. ~Alive'
    BY <1>13 DEF Crash, Alive
  <2>2. QED
    BY <2>1 DEF RoutedAreShipped
<1>14. CASE UNCHANGED sagaVars
  <2>1. UNCHANGED <<log, last, pc>>
    BY <1>14 DEF sagaVars
  <2>2. QED
    BY <2>1 DEF SagaInv, RoutedAreShipped, PaidIn, Times, Alive
<1>15. QED
  BY <1>1, <1>2, <1>3, <1>4, <1>5, <1>6, <1>7, <1>8, <1>9, <1>10, <1>11, <1>12, <1>13,
     <1>14 DEF SagaNext, Runner

-----------------------------------------------------------------------------
LEMMA SagaInitInv == SagaInit => SagaInv
<1> SUFFICES ASSUME SagaInit PROVE SagaInv
  OBVIOUS
<1>1. \A s \in Streams : log[s] = <<>> /\ Len(log[s]) = 0
  BY DEF SagaInit
<1>2. LogTypes
  <2>1. <<>> \in Seq([type : EventTypes, order : Orders])
    OBVIOUS
  <2>2. QED
    BY <2>1 DEF SagaInit, LogTypes
<1>3. RunTypes
  <2>1. 0 \in 0..MaxCrashes /\ 0 \in 0..MaxStops
    BY SagaBoundAssumption
  <2>2. QED
    BY <2>1 DEF SagaInit, RunTypes, PCs, SagaStatus
<1>4. Positions
  BY DEF SagaInit, Positions, AtStart, Alive
<1>5. Batches
  BY DEF SagaInit, Batches
<1>6. EventsRight
  BY <1>1 DEF EventsRight, Ids, Streams
<1>7. StatusRight /\ OneRead /\ RoutedAreShipped
  BY DEF SagaInit, StatusRight, OneRead, RoutedAreShipped, Alive
<1>8. QED
  BY <1>2, <1>3, <1>4, <1>5, <1>6, <1>7 DEF SagaInv

LEMMA SagaInvHolds == SagaSpec => []SagaInv
<1>1. SagaInv /\ [SagaNext]_sagaVars => SagaInv'
  BY LogTypesStep, RunTypesStep, PositionsStep, BatchesStep, EventsRightStep, StatusRightStep,
     OneReadStep, RoutedAreShippedStep DEF SagaInv
<1>2. QED
  BY SagaInitInv, <1>1, PTL DEF SagaSpec

LEMMA InvGivesTypes ==
  ASSUME SagaInv
  PROVE  SagaTypeOK
<1>1. \A s \in Streams : last[s] \in 0..Len(log[s]) \/ pc \in {"idle", "down"}
  <2>1. \A s \in Streams : Len(log[s]) \in Nat
    BY DEF SagaInv, LogTypes
  <2>2. QED
    BY <2>1 DEF SagaInv, Positions, Alive
<1>2. batch \subseteq 1..Len(log[IF pc = "routeOrders" THEN "orders" ELSE "payments"])
  <2>1. ASSUME NEW s \in Streams, BatchRun(s) PROVE batch \subseteq 1..Len(log[s])
    <3>1. last[s] \in Nat /\ Len(log[s]) \in Nat
      BY DEF SagaInv, LogTypes, Positions
    <3>2. PICK k \in 1..Len(log[s]) : batch = (last[s] + 1)..k
      BY <2>1 DEF BatchRun, Ids
    <3>3. QED
      BY <3>1, <3>2
  <2>2. CASE pc = "routeOrders"
    BY <2>1, <2>2 DEF SagaInv, Batches, Streams
  <2>3. CASE pc = "routePayments"
    BY <2>1, <2>3 DEF SagaInv, Batches, Streams
  <2>4. CASE pc \notin {"routeOrders", "routePayments"}
    BY <2>4 DEF SagaInv, Batches
  <2>5. QED
    BY <2>2, <2>3, <2>4
<1>3. QED
  BY <1>1, <1>2 DEF SagaInv, LogTypes, RunTypes, SagaTypeOK

(* The types hold for any orders, any read size and any number of kills and stops.  *)
THEOREM SagaTypeCorrect == SagaSpec => []SagaTypeOK
<1>1. SagaInv => SagaTypeOK
  BY InvGivesTypes
<1>2. QED
  BY SagaInvHolds, <1>1, PTL

(* Counting one of something is finding one.                                      *)
LEMMA SomeTimes ==
  ASSUME LogTypes, NEW s \in Streams, NEW type, NEW o
  PROVE  Times(s, type, o) > 0 <=> \E i \in Ids(s) : log[s][i] = Event(type, o)
<1> DEFINE of == {i \in Ids(s) : log[s][i] = Event(type, o)}
<1>1. IsFiniteSet(of) /\ Times(s, type, o) = Cardinality(of) /\ Times(s, type, o) \in Nat
  BY TimesCounted
<1>2. Cardinality(of) = 0 <=> of = {}
  BY <1>1, FS_EmptySet
<1>3. Times(s, type, o) > 0 <=> of # {}
  BY <1>1, <1>2
<1>4. QED
  BY <1>3

(* "if a step fails, compensating transactions undo the work": what a finished     *)
(* saga says of its order is what its streams say, through kills, restarts and      *)
(* the events of earlier runs, and nobody is left charged without a shipment.       *)
THEOREM OutcomeRight == SagaSpec => []OutcomeIsOnStreams
<1>1. ASSUME SagaInv, Finished
      PROVE  /\ (status = "cancelled") = (Times("orders", "OrderCancelled", current) > 0)
             /\ (status = "completed") = (Times("shipping", "OrderShipped", current) > 0)
  <2>1. Alive /\ status \in {"cancelled", "completed"}
    BY <1>1 DEF Finished, Alive, Terminal
  <2>2. /\ status = "cancelled" => current \in Declined
             /\ \E i \in Ids("orders") : log["orders"][i] = Event("OrderCancelled", current)
        /\ status = "completed" => current \notin Declined
             /\ \E i \in Ids("shipping") : log["shipping"][i] = Event("OrderShipped", current)
    BY <1>1, <2>1 DEF SagaInv, StatusRight
  <2>3. /\ (\E i \in Ids("orders") : log["orders"][i] = Event("OrderCancelled", current))
             => current \in Declined
        /\ (\E i \in Ids("shipping") : log["shipping"][i] = Event("OrderShipped", current))
             => current \notin Declined
    BY <1>1 DEF SagaInv, EventsRight, Event
  <2>4. /\ Times("orders", "OrderCancelled", current) > 0 <=>
             \E i \in Ids("orders") : log["orders"][i] = Event("OrderCancelled", current)
        /\ Times("shipping", "OrderShipped", current) > 0 <=>
             \E i \in Ids("shipping") : log["shipping"][i] = Event("OrderShipped", current)
    BY <1>1, SomeTimes DEF SagaInv, Streams
  <2>5. status = "cancelled" <=> Times("orders", "OrderCancelled", current) > 0
    BY <2>1, <2>2, <2>3, <2>4
  <2>6. status = "completed" <=> Times("shipping", "OrderShipped", current) > 0
    BY <2>1, <2>2, <2>3, <2>4
  <2>7. QED
    BY <2>5, <2>6
<1>2. ASSUME SagaInv, Finished, \A s \in Streams : Len(log[s]) =< Count, NEW o \in Orders
      PROVE  Times("payments", "PaymentProcessed", o) =< Times("shipping", "OrderShipped", o)
  <2>1. last["payments"] = Len(log["payments"]) /\ Alive
    BY <1>2 DEF SagaInv, OneRead, Finished, Alive, Streams
  <2>2. Cardinality(PaidIn(log["payments"], last["payments"], o)) =<
          Times("shipping", "OrderShipped", o)
    BY <1>2, <2>1 DEF SagaInv, RoutedAreShipped
  <2> DEFINE paid == {i \in Ids("payments") : log["payments"][i] = Event("PaymentProcessed", o)}
  <2>3. PaidIn(log["payments"], last["payments"], o) = paid
    BY <2>1 DEF PaidIn, Ids
  <2>4. Times("payments", "PaymentProcessed", o) = Cardinality(paid)
    <3>1. DOMAIN log["payments"] = Ids("payments")
      BY <1>2 DEF SagaInv, LogTypes, Ids, Streams
    <3>2. QED
      BY <3>1 DEF Times
  <2> HIDE DEF paid
  <2>5. QED
    BY <2>2, <2>3, <2>4
<1>3. SagaInv => OutcomeIsOnStreams
  BY <1>1, <1>2, InvGivesTypes DEF OutcomeIsOnStreams
<1>4. QED
  BY SagaInvHolds, <1>3, PTL
=============================================================================
