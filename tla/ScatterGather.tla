----------------------------- MODULE ScatterGather -----------------------------
(***************************************************************************)
(* Scatter-gather over the in-process topic broker: scatter_gather_pattern/  *)
(* broker.py (one unbounded asyncio.Queue per subscriber), service.py (the   *)
(* airlines) and aggregator.py (the coordinator).  Every search subscribes   *)
(* its own response queue (scatter_gather), or, in the benchmark, all of     *)
(* them gather off one long-lived queue.                                    *)
(*                                                                         *)
(* All tasks run on one event loop.  put() on an unbounded queue never       *)
(* suspends, so a publish and a whole scatter are single steps; a gather and *)
(* an airline are cut where they await.                                     *)
(***************************************************************************)
EXTENDS Integers, Sequences, FiniteSets

CONSTANTS
  Searches,   \* calls of scatter_gather, each with its own correlation id
  Airlines,   \* AirlineService instances
  Common      \* the benchmark's long-lived response queue

ASSUME QueueAssumption == Common \notin Searches
ASSUME FiniteAssumption == IsFiniteSet(Airlines)

VARIABLES
  shared,      \* whether searches gather off the benchmark's common queue
  subscribers, \* the queues subscribed to the response topic
  requests,    \* each airline's request queue: correlation ids
  responses,   \* each response queue: quotes
  phase,       \* each search: where its coroutine is
  expected,    \* each search's expected count
  expired,     \* whether the search's deadline has passed
  collected,   \* the quotes each gather has kept, in order
  service,     \* each airline: where serve() is
  inHand,      \* the requests an airline took and has not settled
  stop,        \* the airlines' stop event
  answered,    \* airlines that quoted each search in progress (observation)
  overlapped   \* two searches shared the common queue (observation)

gathering == <<phase, expected, expired, collected>>
serving == <<service, inHand, requests>>
vars == <<shared, subscribers, requests, responses, phase, expected, expired,
          collected, service, inHand, stop, answered, overlapped>>

Queues == Searches \cup {Common}
Quotes == [search : Searches, airline : Airlines]
(* The lookup copies the request's correlation id into its quote.             *)
QuoteOf(s, a) == [search |-> s, airline |-> a]
Active == {s \in Searches : phase[s] = "gather"}
Ended == {s \in Searches : phase[s] \in {"returned", "failed"}}
queueOf(s) == IF shared THEN Common ELSE s

(* Every airline subscribes to its request topic and starts to serve.          *)
build_services ==
  /\ requests = [a \in Airlines |-> <<>>]
  /\ service = [a \in Airlines |-> "poll"] /\ inHand = [a \in Airlines |-> {}]

Init ==
  /\ shared \in BOOLEAN
  /\ subscribers = IF shared THEN {Common} ELSE {}
  /\ responses = [q \in Queues |-> <<>>]
  /\ phase = [s \in Searches |-> "idle"] /\ expected = [s \in Searches |-> 0]
  /\ expired = [s \in Searches |-> FALSE] /\ collected = [s \in Searches |-> <<>>]
  /\ build_services /\ stop = FALSE
  /\ answered = [s \in Searches |-> {}] /\ overlapped = FALSE

-----------------------------------------------------------------------------
(* The coordinator.                                                         *)

(* subscribe, then scatter: no suspension up to the gather's first get.  The    *)
(* request reaches the airlines built on the topic published to: the broadcast   *)
(* topic (publish_subscribe) or each named one's own (recipient_list); a topic    *)
(* nobody is on swallows it, and expected is the caller's choice; a recipient      *)
(* list is taken to name nobody twice (airline_ids is any Iterable).  The benchmark  *)
(* names every airline and expects them all.                                     *)
scatter(s, reached, count) ==
  /\ phase[s] = "idle"
  /\ shared => reached = Airlines /\ count = Cardinality(Airlines)
  /\ subscribers' = subscribers \cup {queueOf(s)}
  /\ requests' = [a \in Airlines |->
       IF a \in reached THEN Append(requests[a], s) ELSE requests[a]]
  /\ phase' = [phase EXCEPT ![s] = "gather"]
  /\ expected' = [expected EXCEPT ![s] = count]
  /\ overlapped' = (overlapped \/ (shared /\ Active # {}))
  /\ UNCHANGED <<shared, responses, expired, collected, service, inHand, stop, answered>>

(* recipient-list without recipients: ValueError, and finally unsubscribes.   *)
ScatterRejected(s) ==
  /\ phase[s] = "idle" /\ ~shared
  /\ phase' = [phase EXCEPT ![s] = "failed"]
  /\ UNCHANGED <<shared, subscribers, responses, expected, expired, collected, serving,
                 stop, answered, overlapped>>

(* The event-loop clock passes the gather's deadline.                         *)
DeadlinePasses(s) ==
  /\ s \in Active /\ ~expired[s]
  /\ expired' = [expired EXCEPT ![s] = TRUE]
  /\ UNCHANGED <<shared, subscribers, responses, phase, expected, collected, serving,
                 stop, answered, overlapped>>

(* Mutant: no finally, the queue stays subscribed.                            *)
EndSearchSubscribed(s, how) ==
  /\ phase' = [phase EXCEPT ![s] = how]
  /\ UNCHANGED <<subscribers, responses>>
  /\ expected' = [expected EXCEPT ![s] = 0] /\ expired' = [expired EXCEPT ![s] = FALSE]
  /\ answered' = [answered EXCEPT ![s] = {}]

(* finally: unsubscribe (the benchmark keeps its queue subscribed).  The        *)
(* coroutine's locals, its queue too, and what is observed of it end here.      *)
EndSearch(s, how) ==
  /\ phase' = [phase EXCEPT ![s] = how]
  /\ responses' = IF shared THEN responses ELSE [responses EXCEPT ![s] = <<>>]
  /\ subscribers' = IF shared THEN subscribers ELSE subscribers \ {s}
  /\ expected' = [expected EXCEPT ![s] = 0] /\ expired' = [expired EXCEPT ![s] = FALSE]
  /\ answered' = [answered EXCEPT ![s] = {}]

(* Mutant: the correlation id is not looked at.                               *)
OwnOrForeign(s, quote) == TRUE

Own(s, quote) == quote.search = s

(* get() returns a quote before the deadline is seen: it is kept if it carries  *)
(* this correlation id, discarded otherwise, and the loop goes on.            *)
TakeQuote(s) ==
  LET q == queueOf(s) IN
  /\ s \in Active /\ ~expired[s] /\ responses[q] # <<>>
  /\ Len(collected[s]) < expected[s]
  /\ responses' = [responses EXCEPT ![q] = Tail(@)]
  /\ collected' = [collected EXCEPT ![s] =
       IF Own(s, Head(responses[q])) THEN Append(@, Head(responses[q])) ELSE @]
  /\ UNCHANGED <<shared, subscribers, phase, expected, expired, serving, stop, answered,
                 overlapped>>

(* Mutant: get() without the remaining time.                                 *)
GatherWaitsForCount(s) ==
  /\ s \in Active
  /\ Len(collected[s]) = expected[s]
  /\ EndSearch(s, "returned")
  /\ UNCHANGED <<shared, collected, serving, stop, overlapped>>

(* The count is reached; or the get times out, or the loop sees no time         *)
(* remaining, and a quote queued in the same instant stays where it is.         *)
GatherReturns(s) ==
  /\ s \in Active
  /\ Len(collected[s]) = expected[s] \/ expired[s]
  /\ EndSearch(s, "returned")
  /\ UNCHANGED <<shared, collected, serving, stop, overlapped>>

(* The caller cancels a search that is suspended in its get.                  *)
SearchCancelled(s) ==
  /\ s \in Active /\ Len(collected[s]) < expected[s]
  /\ EndSearch(s, "failed")
  /\ collected' = [collected EXCEPT ![s] = <<>>]
  /\ UNCHANGED <<shared, serving, stop, overlapped>>

-----------------------------------------------------------------------------
(* An airline's serve loop.                                                 *)

(* get() returns a request; a service with latency now sleeps on it.          *)
TakeRequest(a) ==
  /\ service[a] = "poll" /\ requests[a] # <<>>
  /\ inHand' = [inHand EXCEPT ![a] = {Head(requests[a])}]
  /\ requests' = [requests EXCEPT ![a] = Tail(@)]
  /\ service' = [service EXCEPT ![a] = "lookup"]
  /\ UNCHANGED <<shared, subscribers, responses, gathering, stop, answered, overlapped>>

(* The top of the loop, the only place that reads the stop event.             *)
LoopTop(a) == service' = [service EXCEPT ![a] = IF stop THEN "stopped" ELSE "poll"]

(* Mutant: a topic is one work queue, a quote goes to one of its subscribers.  *)
PublishToOne(a) ==
  \E s \in inHand[a], q \in subscribers :
    /\ service[a] = "lookup"
    /\ responses' = [responses EXCEPT ![q] = Append(@, QuoteOf(s, a))]
    /\ answered' = IF s \in Active THEN [answered EXCEPT ![s] = @ \cup {a}] ELSE answered
    /\ inHand' = [inHand EXCEPT ![a] = {}]
    /\ LoopTop(a)
    /\ UNCHANGED <<shared, subscribers, requests, gathering, stop, overlapped>>

(* The lookup returns: publish copies the quote into every response queue.    *)
PublishQuote(a) ==
  \E s \in inHand[a] :
    /\ service[a] = "lookup"
    /\ responses' = [q \in Queues |->
         IF q \in subscribers THEN Append(responses[q], QuoteOf(s, a))
                              ELSE responses[q]]
    /\ answered' = IF s \in Active THEN [answered EXCEPT ![s] = @ \cup {a}] ELSE answered
    /\ inHand' = [inHand EXCEPT ![a] = {}]
    /\ LoopTop(a)
    /\ UNCHANGED <<shared, subscribers, requests, gathering, stop, overlapped>>

(* The lookup raises: the airline publishes nothing.                          *)
LookupFails(a) ==
  /\ service[a] = "lookup"
  /\ inHand' = [inHand EXCEPT ![a] = {}]
  /\ LoopTop(a)
  /\ UNCHANGED <<shared, subscribers, requests, responses, gathering, stop, answered,
                 overlapped>>

(* poll_interval passes, and the loop comes round; a request queued in the     *)
(* same instant stays queued, for good if stop is set.                        *)
PollTimesOut(a) ==
  /\ service[a] = "poll" /\ LoopTop(a)
  /\ UNCHANGED <<shared, subscribers, requests, responses, gathering, inHand, stop,
                 answered, overlapped>>

SetStop ==
  /\ ~stop /\ stop' = TRUE
  /\ UNCHANGED <<shared, subscribers, responses, gathering, serving, answered, overlapped>>

-----------------------------------------------------------------------------
Coordinator(s) == TakeQuote(s) \/ GatherReturns(s)

Airline(a) == TakeRequest(a) \/ PublishQuote(a) \/ LookupFails(a) \/ PollTimesOut(a)

Next ==
  \/ \E s \in Searches :
       \/ \E reached \in SUBSET Airlines, count \in 1..Cardinality(Airlines) :
            scatter(s, reached, count)
       \/ ScatterRejected(s) \/ DeadlinePasses(s) \/ SearchCancelled(s) \/ Coordinator(s)
  \/ \E a \in Airlines : Airline(a)
  \/ SetStop

Spec == Init /\ [][Next]_vars

(* The loop runs every ready task and its clock advances past every timer.     *)
FairSpec ==
  /\ Spec
  /\ \A s \in Searches : WF_vars(Coordinator(s)) /\ WF_vars(DeadlinePasses(s))
  /\ \A a \in Airlines : WF_vars(Airline(a))

-----------------------------------------------------------------------------
(* Properties.                                                              *)

(* Every variable has the values its code can give it.                      *)
TypeOK ==
  /\ shared \in BOOLEAN /\ stop \in BOOLEAN
  /\ overlapped \in BOOLEAN /\ subscribers \subseteq Queues
  /\ requests \in [Airlines -> Seq(Searches)] /\ responses \in [Queues -> Seq(Quotes)]
  /\ phase \in [Searches -> {"idle", "gather", "returned", "failed"}]
  /\ expected \in [Searches -> 0..Cardinality(Airlines)]
  /\ expired \in [Searches -> BOOLEAN] /\ collected \in [Searches -> Seq(Quotes)]
  /\ service \in [Airlines -> {"poll", "lookup", "stopped"}]
  /\ inHand \in [Airlines -> SUBSET Searches]
  /\ answered \in [Searches -> SUBSET Airlines]

(* "two concurrent searches never cross-contaminate" (models.py:31): what a    *)
(* gather keeps are answers to its own search, one per airline, whoever else    *)
(* gathers off the same topic; late answers of earlier searches never count.   *)
OwnQuotesOnly ==
  /\ TypeOK
  /\ \A s \in Searches :
       /\ \A k \in DOMAIN collected[s] : collected[s][k].search = s
       /\ \A k, l \in DOMAIN collected[s] :
            collected[s][k].airline = collected[s][l].airline => k = l

(* The airlines with a quote for s among those given.                          *)
QuotedIn(s, quotes) ==
  {a \in Airlines : \E k \in DOMAIN quotes : quotes[k] = QuoteOf(s, a)}

(* scatter_gather subscribes before it scatters "so no fast reply is missed"    *)
(* (aggregator.py:146): every airline's answer to a search in progress is kept  *)
(* or still queued for it.  On the benchmark's common queue this needs one       *)
(* search at a time: overlapping gathers discard each other's quotes.           *)
NoQuoteMissed ==
  ~overlapped => \A s \in Active :
    answered[s] = QuotedIn(s, collected[s]) \cup QuotedIn(s, responses[queueOf(s)])

(* "a finished search stops absorbing late responses" (aggregator.py:147):      *)
(* it returns its count, or less past the deadline; and returned, cancelled or  *)
(* rejected it leaves no queue subscribed that keeps growing.                  *)
FinishedAbsorbsNothing ==
  [][\A s \in Searches :
       /\ phase[s] = "gather" /\ phase'[s] = "returned" =>
            Len(collected'[s]) = expected[s] \/ expired[s]
       /\ s \in Ended => /\ s \notin subscribers
                         /\ UNCHANGED <<responses[s], collected[s]>>]_vars

(* "a missing or slow airline never stalls the gather" (aggregator.py:39):      *)
(* every search ends, although airlines raise, stop, never heard of it or       *)
(* answer too late, and foreign quotes keep arriving.                          *)
EverySearchEnds == \A s \in Searches : s \in Active ~> s \in Ended

=============================================================================
