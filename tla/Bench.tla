--------------------------------- MODULE Bench ---------------------------------
(***************************************************************************)
(* The benchmark harness (bench.py: run_bench, _run_phase, Window, the depth *)
(* sampler) driving a publish-and-await workload: the one of the DLQ bench   *)
(* (bench_dlq_pattern.py), whose done-callback fails the publishers when the *)
(* consumer task dies, or the one of the competing-consumers bench, which    *)
(* has no such callback and no poison.                                      *)
(*                                                                         *)
(* Everything is one event loop: the harness's workers, the sampler and the  *)
(* consumer task interleave where they await.  The consumer keeps what the   *)
(* bench observes of it; Dlq.tla and CompetingConsumers.tla model the rest.  *)
(***************************************************************************)
EXTENDS Integers, FiniteSets

CONSTANTS
  Workers,      \* concurrency workers of a phase
  Warmup,       \* ops of the warmup window
  Ops,          \* ops of the measured window; bound on a duration window's
  PoisonEvery,  \* every how many payments one is malformed
  MaxAttempts   \* the knob of the DLQ bench

(* Window.__post_init__: a window admits one operation at least.             *)
ValidWindow(ops) == ops \in Nat \ {0}

ASSUME WorkerAssumption == IsFiniteSet(Workers) /\ Workers # {}
ASSUME WindowAssumption == ValidWindow(Warmup) /\ ValidWindow(Ops)
ASSUME KnobAssumption == PoisonEvery \in Nat \ {0} /\ MaxAttempts \in Nat \ {0}

VARIABLES
  guarded,        \* whether the bench watches its consumer task (the DLQ bench does)
  timed,          \* whether the measured window is a duration
  measuring,      \* whether the warmup is over
  elapsed,        \* whether that duration has passed
  phase,          \* where run_bench and its caller's finally are
  error,          \* whether an exception is propagating out of run_bench
  started, latencies, \* of the phase: operations admitted, latencies recorded
  at, op,         \* each worker: where it is, the payment it published
  payments,       \* next(payment_ids) so far
  future,         \* the future of each payment
  stream,         \* published payments the consumer has not acked
  attempts,       \* handler failures of each payment
  settling,       \* the payment charged, not marked and acked yet
  deadLettering,  \* the payment past its budget, not in the DLQ yet
  charged, dlq,   \* how often the handler charged each payment, its entries in the DLQ
  consumer,       \* the consumer task
  failure,        \* whether the done-callback has set consumer_failure
  stop,           \* the consumer's stop event
  sampler,        \* the depth sampler: "off", "on", or "failed" for good
  samples         \* the phases depth readings were taken in

window == <<started, latencies>>
setup == <<guarded, timed, measuring>>
broker == <<stream, attempts, settling, deadLettering, charged, dlq>>
sampling == <<sampler, samples>>
benchVars == <<guarded, timed, measuring, elapsed, phase, error, started, latencies, at, op,
               payments, future, stream, attempts, settling, deadLettering, charged, dlq,
               consumer, failure, stop, sampler, samples>>

MaxPayments == Warmup + Ops
Payments == 1..MaxPayments
InFlight == {w \in Workers : at[w] \in {"publish", "await"}}
Poison(p) == guarded /\ p % PoisonEvery = 0

BenchInit ==
  /\ guarded \in BOOLEAN /\ timed \in BOOLEAN /\ measuring = FALSE
  /\ elapsed = FALSE /\ phase = "warmup" /\ error = FALSE
  /\ started = 0 /\ latencies = 0
  /\ at = [w \in Workers |-> "admit"] /\ op = [w \in Workers |-> 0]
  /\ payments = 0 /\ future = [p \in Payments |-> "none"]
  /\ stream = {} /\ attempts = [p \in Payments |-> 0]
  /\ settling = {} /\ deadLettering = {}
  /\ charged = [p \in Payments |-> 0] /\ dlq = [p \in Payments |-> 0]
  /\ consumer = "running" /\ failure = FALSE /\ stop = FALSE
  /\ sampler = "off" /\ samples = {}

MoveTo(w, label) == at' = [at EXCEPT ![w] = label]

-----------------------------------------------------------------------------
(* _run_phase's workers.                                                    *)

(* Mutant: the window closes on completions.                                 *)
DoneByCompletions ==
  \/ ~measuring /\ latencies >= Warmup
  \/ measuring /\ timed /\ elapsed
  \/ measuring /\ ~timed /\ latencies >= Ops

(* Window.is_done: a count window closes on admissions, a duration on time.   *)
is_done ==
  \/ ~measuring /\ started >= Warmup
  \/ measuring /\ timed /\ elapsed
  \/ measuring /\ ~timed /\ started >= Ops

DurationPasses ==
  /\ timed /\ measuring /\ ~elapsed
  /\ elapsed' = TRUE
  /\ UNCHANGED <<setup, phase, error, window, at, op, payments, future, broker, consumer,
                 failure, stop, sampling>>

(* The check, started += 1 and the operation up to its first await: it raises   *)
(* if the consumer is known to be dead, else registers its future.             *)
Admit(w) ==
  /\ at[w] = "admit" /\ ~is_done
  /\ payments < MaxPayments
  /\ started' = started + 1
  /\ IF guarded /\ failure
     THEN MoveTo(w, "failed") /\ UNCHANGED <<op, payments, future>>
     ELSE /\ MoveTo(w, "publish")
          /\ payments' = payments + 1
          /\ op' = [op EXCEPT ![w] = payments + 1]
          /\ future' = [future EXCEPT ![payments + 1] = "pending"]
  /\ UNCHANGED <<setup, elapsed, phase, error, latencies, broker, consumer, failure, stop,
                 sampling>>

(* is_done after an operation: the worker's coroutine returns.                *)
WorkerDone(w) ==
  /\ at[w] = "admit" /\ is_done /\ MoveTo(w, "done")
  /\ UNCHANGED <<setup, elapsed, phase, error, window, op, payments, future, broker,
                 consumer, failure, stop, sampling>>

(* await broker.publish.                                                    *)
Publish(w) ==
  /\ at[w] = "publish" /\ MoveTo(w, "await")
  /\ stream' = stream \cup {op[w]}
  /\ UNCHANGED <<setup, elapsed, phase, error, window, op, payments, future, attempts,
                 settling, deadLettering, charged, dlq, consumer, failure, stop, sampling>>

PublishFails(w) ==
  /\ at[w] = "publish" /\ MoveTo(w, "failed")
  /\ UNCHANGED <<setup, elapsed, phase, error, window, op, payments, future, broker,
                 consumer, failure, stop, sampling>>

(* await future: resolved, the latency is recorded; else its exception rises.  *)
Awaited(w) ==
  /\ at[w] = "await"
  /\ \/ /\ future[op[w]] = "resolved" /\ MoveTo(w, "admit")
        /\ latencies' = latencies + 1
     \/ future[op[w]] = "failed" /\ MoveTo(w, "failed") /\ UNCHANGED latencies
  /\ UNCHANGED <<setup, elapsed, phase, error, started, op, payments, future, broker,
                 consumer, failure, stop, sampling>>

-----------------------------------------------------------------------------
(* run_bench, and the finally of the bench script.                          *)

(* The warmup's gather returns, its latencies are dropped, the measured window *)
(* and the sampler start.                                                   *)
StartMeasuring ==
  /\ phase = "warmup" /\ \A w \in Workers : at[w] = "done"
  /\ phase' = "measure" /\ measuring' = TRUE /\ started' = 0 /\ latencies' = 0
  /\ at' = [w \in Workers |-> "admit"]
  /\ sampler' = "on"
  /\ UNCHANGED <<guarded, timed, elapsed, error, op, payments, future, broker, consumer, failure,
                 stop, samples>>

(* The finally cancels the sampler; one that has raised stays as it is.        *)
CancelSampler == sampler' = IF sampler = "failed" THEN "failed" ELSE "off"

(* Mutant: the sampler is cancelled after the gather, not in a finally.        *)
GatherRaisesSamplerOn ==
  /\ phase \in {"warmup", "measure"} /\ \E w \in Workers : at[w] = "failed"
  /\ phase' = "stopping" /\ error' = TRUE /\ stop' = TRUE
  /\ UNCHANGED <<setup, elapsed, window, at, op, payments, future, broker, consumer,
                 failure, sampling>>

(* The gather raises at the first worker that does; its siblings run on.       *)
GatherRaises ==
  /\ phase \in {"warmup", "measure"} /\ \E w \in Workers : at[w] = "failed"
  /\ phase' = "stopping" /\ error' = TRUE /\ stop' = TRUE /\ CancelSampler
  /\ UNCHANGED <<setup, elapsed, window, at, op, payments, future, broker, consumer,
                 failure, samples>>

(* Mutant: any exception of the sampler is suppressed, not its cancellation only. *)
GatherReturnsAnyway ==
  /\ phase = "measure" /\ \A w \in Workers : at[w] = "done"
  /\ CancelSampler /\ phase' = "final"
  /\ UNCHANGED <<setup, elapsed, error, stop, window, at, op, payments, future, broker,
                 consumer, failure, samples>>

(* The gather returns; awaiting the cancelled sampler raises what it raised.    *)
GatherReturns ==
  /\ phase = "measure" /\ \A w \in Workers : at[w] = "done"
  /\ CancelSampler
  /\ IF sampler = "failed" THEN phase' = "stopping" /\ error' = TRUE /\ stop' = TRUE
                           ELSE phase' = "final" /\ UNCHANGED <<error, stop>>
  /\ UNCHANGED <<setup, elapsed, window, at, op, payments, future, broker, consumer,
                 failure, samples>>

(* LatencySummary.from_seconds raises on a window without a latency.          *)
NothingToSummarise == latencies = 0

(* The closing reading and the result: a sampler that raises, or a window      *)
(* without a single latency to summarise, fails the bench.                     *)
Summarise ==
  /\ phase = "final" /\ phase' = "stopping" /\ stop' = TRUE
  /\ \/ /\ samples' = samples \cup {"final"} /\ error' = NothingToSummarise
        /\ UNCHANGED sampler
     \/ sampler' = "failed" /\ error' = TRUE /\ UNCHANGED samples
  /\ UNCHANGED <<setup, elapsed, window, at, op, payments, future, broker, consumer,
                 failure>>

(* await consumer re-raises what killed it; asyncio.run cancels every worker    *)
(* a raised gather left behind.                                              *)
BenchEnds ==
  /\ phase = "stopping" /\ consumer \in {"dead", "finished"}
  /\ phase' = IF error \/ consumer = "dead" THEN "raised" ELSE "returned"
  /\ at' = [w \in Workers |-> IF at[w] \in {"done", "failed"} THEN at[w] ELSE "cancelled"]
  /\ UNCHANGED <<setup, elapsed, error, window, op, payments, future, broker, consumer,
                 failure, stop, sampling>>

(* _sample_depth: a reading is appended, or the sampler raises and is over.     *)
Sample ==
  /\ sampler = "on"
  /\ \/ samples' = samples \cup {phase} /\ UNCHANGED sampler
     \/ sampler' = "failed" /\ UNCHANGED samples
  /\ UNCHANGED <<setup, elapsed, phase, error, window, at, op, payments, future, broker,
                 consumer, failure, stop>>

-----------------------------------------------------------------------------
(* The consumer task, with the bench's handler.                             *)

Resolve(p) ==
  future' = IF future[p] = "pending" THEN [future EXCEPT ![p] = "resolved"] ELSE future

(* It has one payment in hand at a time.                                     *)
EmptyHanded == settling = {} /\ deadLettering = {}

HandlerCharges(p) ==
  /\ consumer = "running" /\ EmptyHanded /\ p \in stream /\ ~Poison(p)
  /\ charged' = [charged EXCEPT ![p] = @ + 1] /\ settling' = {p}
  /\ Resolve(p)
  /\ UNCHANGED <<setup, elapsed, phase, error, window, at, op, payments, stream, attempts,
                 deadLettering, dlq, consumer, failure, stop, sampling>>

(* mark_processed and ack, once the handler has returned.                     *)
MarkAndAck ==
  /\ consumer = "running" /\ settling # {}
  /\ stream' = stream \ settling /\ settling' = {}
  /\ UNCHANGED <<setup, elapsed, phase, error, window, at, op, payments, future, attempts,
                 deadLettering, charged, dlq, consumer, failure, stop, sampling>>

(* A malformed payment resolves at its last failure, just before the consumer   *)
(* dead-letters it.                                                          *)
HandlerRejects(p) ==
  /\ consumer = "running" /\ EmptyHanded /\ p \in stream /\ Poison(p)
  /\ attempts' = [attempts EXCEPT ![p] = @ + 1]
  /\ IF attempts'[p] >= MaxAttempts THEN Resolve(p) /\ deadLettering' = {p}
                                    ELSE UNCHANGED <<future, deadLettering>>
  /\ UNCHANGED <<setup, elapsed, phase, error, window, at, op, payments, stream, settling,
                 charged, dlq, consumer, failure, stop, sampling>>

DeadLetter ==
  /\ consumer = "running" /\ deadLettering # {}
  /\ dlq' = [p \in Payments |-> IF p \in deadLettering THEN dlq[p] + 1 ELSE dlq[p]]
  /\ stream' = stream \ deadLettering /\ deadLettering' = {}
  /\ UNCHANGED <<setup, elapsed, phase, error, window, at, op, payments, future, attempts,
                 settling, charged, consumer, failure, stop, sampling>>

(* stop_event is seen between two batches, never with a payment in hand.       *)
ConsumerStops ==
  /\ consumer = "running" /\ stop /\ EmptyHanded
  /\ consumer' = "finished"
  /\ UNCHANGED <<setup, elapsed, phase, error, window, at, op, payments, future, broker,
                 failure, stop, sampling>>

(* Another run deletes the streams, and a read or an ack raises.               *)
ConsumerDies ==
  /\ consumer = "running" /\ consumer' = "dead"
  /\ UNCHANGED <<setup, elapsed, phase, error, window, at, op, payments, future, broker,
                 failure, stop, sampling>>

(* Mutant: the callback only sets the flag new operations look at.             *)
CallbackSetsFlagOnly ==
  /\ guarded /\ consumer = "dead" /\ ~failure
  /\ failure' = TRUE
  /\ UNCHANGED <<setup, elapsed, phase, error, window, at, op, payments, future, broker,
                 consumer, stop, sampling>>

(* _consumer_died, scheduled by the task's end: every waiting publisher fails.  *)
ConsumerDiedCallback ==
  /\ guarded /\ consumer = "dead" /\ ~failure
  /\ failure' = TRUE
  /\ future' = [p \in Payments |-> IF future[p] = "pending" THEN "failed" ELSE future[p]]
  /\ UNCHANGED <<setup, elapsed, phase, error, window, at, op, payments, broker, consumer,
                 stop, sampling>>

-----------------------------------------------------------------------------
Worker(w) == Admit(w) \/ WorkerDone(w) \/ Publish(w) \/ Awaited(w)

Harness == StartMeasuring \/ GatherRaises \/ GatherReturns \/ Summarise \/ BenchEnds

Consumer ==
  \/ \E p \in Payments : HandlerCharges(p) \/ HandlerRejects(p)
  \/ MarkAndAck \/ DeadLetter \/ ConsumerStops

BenchNext ==
  \/ phase \notin {"raised", "returned"}
     /\ \/ \E w \in Workers : Worker(w) \/ PublishFails(w)
        \/ DurationPasses \/ Harness \/ Sample
        \/ Consumer \/ ConsumerDies \/ ConsumerDiedCallback

BenchSpec == BenchInit /\ [][BenchNext]_benchVars

(* The loop runs every ready task and callback, time passes, and the consumer    *)
(* keeps reading.                                                           *)
BenchFairSpec ==
  /\ BenchSpec
  /\ \A w \in Workers : WF_benchVars(Worker(w))
  /\ WF_benchVars(Harness) /\ WF_benchVars(Consumer) /\ WF_benchVars(ConsumerDiedCallback)
  /\ WF_benchVars(DurationPasses)

-----------------------------------------------------------------------------
(* Properties.                                                              *)

(* Every variable has the values its code can give it.                      *)
BenchTypeOK ==
  /\ guarded \in BOOLEAN /\ timed \in BOOLEAN /\ measuring \in BOOLEAN /\ elapsed \in BOOLEAN
  /\ phase \in {"warmup", "measure", "final", "stopping", "raised", "returned"}
  /\ error \in BOOLEAN /\ failure \in BOOLEAN /\ stop \in BOOLEAN
  /\ started \in Nat /\ latencies \in Nat /\ payments \in 0..MaxPayments
  /\ at \in [Workers -> {"admit", "publish", "await", "done", "failed", "cancelled"}]
  /\ op \in [Workers -> 0..payments]
  /\ future \in [Payments -> {"none", "pending", "resolved", "failed"}]
  /\ stream \subseteq Payments /\ attempts \in [Payments -> 0..MaxAttempts]
  /\ settling \subseteq stream /\ deadLettering \subseteq stream
  /\ charged \in [Payments -> Nat] /\ dlq \in [Payments -> Nat]
  /\ consumer \in {"running", "dead", "finished"}
  /\ sampler \in {"off", "on", "failed"} /\ samples \subseteq {"warmup", "measure", "final"}

(* "gating on admission is what keeps a concurrent count-window from             *)
(* overshooting its target" (bench.py:209), whichever workers interleave, and a   *)
(* result's ops and latencies are the same operations.                         *)
WindowNotOvershot ==
  /\ ~measuring => started =< Warmup
  /\ measuring /\ ~timed => started =< Ops
  /\ phase \in {"warmup", "measure"} =>
       started = latencies + Cardinality(InFlight)
                 + Cardinality({w \in Workers : at[w] = "failed"})
  /\ phase = "returned" => started = latencies /\ (~timed => started = Ops)

(* "Failures are *not* swallowed" (bench.py:33): a bench that returns a result    *)
(* had no operation fail, no depth reading raise and no consumer die, the consumer   *)
(* finished what it had in hand, and every payment published was charged once or      *)
(* dead-lettered once, not both, with nothing left on the stream.                    *)
ResultIsForWorkDone ==
  phase = "returned" =>
    /\ \A w \in Workers : at[w] = "done"
    /\ sampler = "off" /\ consumer = "finished"
    /\ \A p \in 1..payments : charged[p] + dlq[p] = 1
    /\ stream = {}

(* "the depth series and the throughput number describe the same interval"       *)
(* (bench.py:329): no reading during the warmup or after the result, and the       *)
(* series of a result reaches the closing edge.                                *)
SeriesSpansWindow ==
  /\ BenchTypeOK
  /\ "warmup" \notin samples
  /\ phase = "returned" => "final" \in samples
  /\ phase \in {"final", "stopping", "raised", "returned"} => sampler # "on"

(* "Fail the publishers instead of leaving them awaiting a dead consumer"         *)
(* (bench_dlq_pattern.py:164): the bench ends, with a result or an exception,      *)
(* although the consumer dies before, between or during operations.  Without the   *)
(* callback (the competing-consumers bench) it hangs when its consumer dies.       *)
BenchAlwaysEnds ==
  <>(phase \in {"raised", "returned"} \/ (~guarded /\ consumer = "dead"))
=============================================================================
