# Verification of message-broker-patterns

TLA+ models of the messaging patterns under
`src/packages/backend/src/message_broker_patterns/`, model-checked with TLC on
small instances and, for every component, proved with TLAPS for every instance. Paths
below are relative to that directory unless they start with `src/`.

## The system

The package implements eight messaging patterns, most of them on Redis Streams
(the outbox with SQLite beside it, the claim check with an in-memory queue and
files), each as an asyncio component of a few coroutines, plus shared helpers.
Every `await` is a point where another coroutine or process may run, and every
process may die there.

| component | state | operations | how it interacts |
|---|---|---|---|
| transactional outbox (`outbox_pattern/`) | SQLite `orders` and `outbox` tables; a Redis stream; the relay's current batch | `insert_order_with_outbox`, `poll_outbox`, `publish`, `delete_outbox_entry`, relay `run` | order service and relay share the database file, the relay writes the stream |
| competing consumers (`competing_consumers_pattern/`) | stream, consumer group (cursor, pending entries with owner and idle time), a batch per consumer | `publish`, `ensure_group`, `read_new`, `reclaim_stale`, `ack`, `run_consumer` | consumers meet only in the group's pending list |
| dead letter queue (`dlq_pattern/`) | main stream and its group, DLQ stream and its group, processed set; a batch and an attempts dict per consumer | `publish`, `ensure_all_groups`, `read_new`, `read_pending`, `is_processed`, `mark_processed`, `ack`, `move_to_dlq`, `read_dlq`, `ack_dlq`, `run_idempotent_consumer` | consumers share the processed set; an operator feeds dead letters back into main |
| saga (`saga_pattern/`) | three event streams, order/payment/shipment dicts in memory, a `last_ids` cursor per run | `run_saga`, the services' handlers | choreography through the streams, one runner dispatching |
| event sourcing (`event_sourcing_pattern/`) | event log per account, aggregate balance, projection | `deposit`, `withdraw`, `append`, `read`, `replay`, `project` | aggregates write the log, projectors read it |
| priority queue (`priority_queue_pattern/`) | one stream and group (cursor, pending entries) per priority, a batch per consumer | `publish`, `ensure_group`, `ensure_all_groups`, `read_new`, `ack`, `run_consumer`, `run_strict_priority_consumer` | consumers meet in the groups; a strict one scans the streams from high to low |
| scatter gather (`scatter_gather_pattern/`) | topics with one queue per subscriber; per search a correlation id, an expected count, a deadline and the quotes kept | broker `publish`, `subscribe`, `unsubscribe`; coordinator `scatter`, `gather`, `scatter_gather`; airline `serve` | airlines take requests from their own queue and answer on a response topic that every search in progress hears |
| claim check (`claim_check_pattern/`) | payload files, an in-memory `asyncio.Queue` of claims | store `put`, `get`, `delete`; broker `publish`, `get`; `run_consumer` | the producer stores, then enqueues; the consumer dequeues, reads, handles, then deletes |
| idempotency stores (`entities/idempotency.py`) | keys with an expiry instant each in a dict, or one Redis set with one ttl | `is_processed`, `mark_processed`, `mark_if_new` | called by handlers, the Redis one from several processes |
| chaos injectors (`chaos.py`) | a call count and a seeded generator per injector | `broker_unavailable`, `duplicate_delivery`, `crash_before_ack`, `slow_consumer` | wrap a handler or a broker call |
| benchmark harness (`bench.py`, `src/packages/backend/scripts/bench_*.py`) | a phase's admission count and latencies, depth samples; per workload the futures its publishers await | `run_bench`, `_run_phase`, `_sample_depth`, the workloads' operation and handler | workers, sampler and the pattern's consumer share one event loop |
| metrics, envelope, settings, logging, other scripts | counters under a lock; message metadata; configuration | | used by the patterns and the demo scripts |

What is hard here: a process dying between two of its broker commands (XADD and
DELETE in the relay, handler and XACK in a consumer, XACK and XADD in
`move_to_dlq`); a slow consumer whose task is reclaimed while it still works on
it; a check (`is_processed`) that is stale when it is acted on; a retry budget
that lives in memory, and retries that wait for a lull; an aggregate that is ahead
of its log; entries owned by a consumer that never returns; an answer
that races a deadline or belongs to somebody else's question; a set that two
commands create and bound; a publisher waiting for a consumer that died; and the
promise that accepted work is eventually done. `PROJECT.json` lists these
hazards line by line with the properties that cover them.

What makes each part correct:

* outbox: an order's event is published if and only if the order committed, in
  commit order, repeated only after a fault, and eventually;
* competing consumers: no delivered task leaves the pending list without having
  been completed; repetition and sharing only after a reclaim, reclaims only
  after a fault; every task eventually completed while one consumer runs;
* dead letter queue: a message acked off main is processed or in the DLQ,
  exactly one of them and once; retries are bounded; a processed payment is not
  charged again; what is left unacked is retried until it lands;
* saga: an order ends confirmed-and-shipped or cancelled, never both, and a
  finished one is not paid without being shipped (a restart may pay and ship
  again); event sourcing: live and replayed state agree and the log never
  overdraws, as long as no aggregate diverges from it; priority queue: a ticket
  settles once and handled, and while it waits at most the batch already under way
  is taken from below; claim check: a queued claim can be redeemed, no payload is
  handled twice or deleted unhandled, and only faults orphan one;
* scatter gather: a search keeps the answers to itself only, misses none that
  came while it listened, ends by its deadline whatever the airlines do, and
  absorbs nothing afterwards; idempotency: one winner per key and window,
  windows end, nothing is retained for ever; bench: exactly the asked number of
  operations, a result only for work that was really done, and an end.

## Modules

| module | models |
|---|---|
| `StreamOps` | walking a log by id: `FirstN` (ORDER BY id LIMIT / COUNT), `Oldest`, `Newest` of a batch |
| `AtLeastOnce` | abstract specification: an accepted item is owed until its effect happened; the only way out of *owed* is through *done* |
| `Outbox` | `outbox_pattern/store.py`, `relay.py`, `broker.py` |
| `CompetingConsumers` | `competing_consumers_pattern/broker.py`, `consumer.py` |
| `Dlq` | `dlq_pattern/broker.py`, `consumer.py`, and the operator's replay |
| `Saga` | `saga_pattern/runner.py`, `services/`, `broker.py`, and the caller's clean-up |
| `EventSourcing` | `event_sourcing_pattern/store.py`, `aggregate.py`, `projector.py` |
| `PriorityQueue` | `priority_queue_pattern/broker.py`, `consumer.py` |
| `ClaimCheck` | `claim_check_pattern/storage.py`, `broker.py`, `producer.py`, `consumer.py` |
| `ScatterGather` | `scatter_gather_pattern/aggregator.py`, `broker.py`, `service.py`, and how the demo and the benchmark call them |
| `Idempotency` | `entities/idempotency.py` under handlers wrapped by `chaos.py` |
| `Bench` | `bench.py` driving the workloads of `scripts/bench_dlq_pattern.py` and `scripts/bench_competing_consumers_pattern.py` |
| `MC` and the name of one of these | the instances TLC checks |
| `StreamOpsProofs` | lemmas about `StreamOps` |
| `CompetingConsumersProofs`, `DlqProofs`, `PriorityQueueProofs`, `ClaimCheckProofs` | the component's inductive invariant, theorems and proofs |
| `EventStoreProofs` | the same for `Outbox` and `EventSourcing` |
| `OrchestrationProofs` | the same for `ScatterGather` and `Saga` |
| `HarnessProofs` | the same for `Idempotency` and `Bench` |

A proof module that covers two components extends both, so `EventSourcing`, `Saga`
and `Bench` prefix what every component has: `EsInit`, `SagaNext`, `BenchTypeOK`
and so on stand for `Init`, `Next` and `TypeOK`.

Definitions whose comment starts with "Mutant:" are variants of the definition
that follows them, each a bug the code could plausibly have. They are used by no
specification; substituting one must make TLC report the property it is paired
with in `PROJECT.json`.

Conventions shared by the models:

* A stream entry, an outbox row or a task is its position in the log. Redis ids
  and AUTOINCREMENT ids only grow, so the order of positions is the order of ids.
* A batch is the set of ids a read returned and the loop has not finished with;
  `for ... in batch` takes the smallest first.
* A process has a program counter with one value per await of its loop. One
  action is what the coroutine does between two awaits, together with the one
  broker command it awaits. A crash may come between any two actions and loses
  everything the process had in memory.
* Payload fields, serialisation and logging are left out: no modelled step looks
  at them. Redis itself (streams, groups, XAUTOCLAIM, sets) and SQLite are
  outside the repository; their commands are modelled from how the code calls
  them, each command atomic.

### Outbox

`orders`, `rows` and `outbox` are the database: `rows[i]` is the order that row
`i` was inserted for and `outbox` the ids not yet deleted. `pc` is the relay:
`poll` (top of the `while`, the only place the stop event is read), `publish`,
`delete`, `sleep`, and `stopped` / `down` after `run()` ended. A row is
committed by the order service at any moment. `PublishRaises` covers both a
refused XADD and an applied one whose reply was lost; nothing in `run()` catches
the exception, so the relay ends.

### CompetingConsumers

Per-task idle time is abstracted to one bit, `stale`: idle for
`reclaim_min_idle_ms` or longer. `AbandonedGoesStale` lets time pass for a
pending task nobody works on; `Overrun` is the interesting case, a live consumer
slower than the threshold, counted against a bound. XACK looks at no owner, so a
consumer may ack a task that another one now holds. `reclaims` and `handled`
count events and influence nothing.

### Dlq

`ensure_all_groups` is two steps, one XGROUP CREATE each. The main stream's
pending list is the function `owner`; only the owner itself can read an entry
again, and only after a read of new messages came back empty (`read_pending`). The
messages beyond `MaxMessages` are traffic that such a read may return at any
moment instead of nothing (`ReadOthers`, `HandleOthers`); they are handled and not
followed further, so the bound does not end the traffic. `Undecodable` are the
entries, added by another program (`ForeignEntry`), that `Payment.from_fields`
refuses: that line is outside the `try`, so `DecodeRaises` ends the run and leaves
the batch pending, and the attempts counted in the run are forgotten. A `handle`
step either succeeds, fails, or fails after its effect (`HandlerFailsLate`).
`move_to_dlq` is its two commands, in the code's order: XACK, then XADD.
`read_dlq`, `ack_dlq` and `Republish` are the operator's replay, as the integration
test `test_dlq_flow.py` performs it. `charged` and `failures` are observations.

### Saga

The three streams (`log`) survive the runner; `status`, `last` (`last_ids`) and
`batch` are its memory. A run has new services that know one order, so an event
about another order, left on the streams by a killed run, meets the
"unknown order" branch of `OrderService` while the payment and shipping services
act on it. Callers delete the streams after a saga ended (`DeleteStreams`); a
killed caller does not, and the next run, for the same order (`Restart`) or
another (`NewSaga`), starts on what is there. The shipping events and the
terminal check are one step because no broker call separates them.

### EventSourcing

One account. A writer loads the aggregate by replaying one `read`, then issues
commands; each applies its event to the live aggregate before the append is
awaited, so a second writer or a failed append can come in between. When the
append raises, or is cancelled, the caller keeps the aggregate, which has
applied an event that the log may not have, and may go on with it, leave, or
project from it. `diverged` records the writers whose aggregate is not known to
be the stream: it came from a truncated read, another writer appended since, or
an append of their own raised before it reached the stream; `blind` records the
entries appended from such an aggregate. Nothing in the code looks at either.
Comparing the aggregate's version with the length of the stream would not do:
one event ahead and one entry behind, the two are equal. `replay(history, n)` is
the aggregate after the first n events, a recursive function. The projector
reads page by page with its own cursor.

### PriorityQueue

`run_consumer` and `run_strict_priority_consumer` are one loop over a scan
order, which for the dedicated consumer has a single tier: an untimed model
cannot tell how long an empty read blocks. A ticket is a pair of its tier and
its position in that tier's stream. Nothing in this pattern claims or re-reads
pending entries, so what a dead consumer held stays on the pending list
(`pending \ Held`). `overtaken` observes, per consumer and ticket, the batches
the consumer took from tiers later in its order while the ticket was waiting.

### ClaimCheck

Producer and consumers are tasks of one process. `publish` is one step: neither
`write_bytes` nor the `put` of an unbounded `asyncio.Queue` suspends, and a kill
between them leaves what a kill right after them leaves, a file whose claim is
gone. `LoopTop` takes a waiting claim without suspending, as `Queue.get` does;
only on an empty queue does the consumer wait, and then the timeout may fire
just as a claim arrives. Reading the file is part of the step that dequeues and
deleting it part of the step in which the handler returns, for the same reason;
`Crash` may fall after a handler's effect and before its delete. The files
survive a crash, the queue does not.

### ScatterGather

Coordinator and airlines are tasks of one event loop. `put` on an unbounded
queue never suspends, so a `publish` to all subscribers, and a `subscribe`
followed by a whole `scatter`, are single steps; what interleaves is the gets of
gathers and airlines, their latencies and the deadlines. `requests` and
`responses` are the queues, `subscribers` those on the response topic. The
strategy is abstracted to the set of airlines a scatter reached, which the
caller's `expected` need not match; a recipient list is taken to name no airline
twice, which `scatter` does not check (its `airline_ids` is any `Iterable`), and
"one quote per airline" holds under that assumption. `shared` chooses between
the queue per search of `scatter_gather` and the one long-lived queue of
`scripts/bench_scatter_gather_pattern.py`, off which every search of the
benchmark gathers. A quote that arrives in the instant of the deadline stays
queued: a cancelled `Queue.get` puts nothing back because it took nothing.
`answered` and `overlapped` are observations.

### Idempotency

A caller is a consumer whose handler dedups, either by `mark_if_new` or by
`is_processed` and then `mark_processed`, behind one of the injectors of
`chaos.py`; whether a policy fires is a free choice at every call, which covers
every ordinal and every draw. In memory, an operation is one step: it awaits
nothing while it holds the lock. In Redis, `SADD` and `PEXPIRE NX` are two, any
other caller's commands may come between, and each may be broken off, applied or
not (`Interrupted`): it raises, its task is cancelled while awaiting it, or the
process dies. The message is redelivered; a claim whose SADD was applied like that
is then won by nobody.
Instants are kept as the ticks left until them, and `Tick` ages everything at
once, so time needs no bound. `RedisTtl` is what redis-py makes of the ttl:
whole milliseconds, rounded down.

### Bench

`guarded` chooses between the DLQ workload, which has poison payments and a
done-callback on its consumer task, and the competing-consumers workload, which
has neither; `timed` between the two kinds of window. A worker's steps are cut
at the awaits of the operation it runs. The consumer is reduced to what the
bench sees of it: it charges a payment, marks and acks it, or rejects it,
dead-letters it at the end of its budget, stops when told, or dies; `charged` and
`dlq` count how often. A sampler that raised stays `"failed"`, and awaiting it
raises again. `phase` follows `run_bench` and the
`finally` of its caller; when the bench has ended, `asyncio.run` cancels the
workers a raised `gather` left running.

## Runs

Passing runs:

| run | shows |
|---|---|
| `outbox` | `NothingLostNoGhost`, `PublishedInCommitOrder`, `DuplicatesNeedFaults`; the outbox implements `AtLeastOnce`; `EveryOrderRelayed` through crashes, a broker error and a stop |
| `competing` | `NoTaskLost`, `OneHandlingPerDelivery`; the group implements `AtLeastOnce`; `EveryTaskCompleted` although nobody has to restart a crashed consumer |
| `dlq_safety` | `DeadLetteredOnce`, `DropsNeedCrash`, `ChargesAccounted` with two consumers and replays |
| `dlq_single` | for a single consumer `ProcessedNeverCharged`; `RetriedUntilLanded` when an ended consumer is started again under its name and traffic has lulls, with entries it cannot decode in between |
| `saga` | `OutcomeIsOnStreams`; `SagaReachesTerminal` |
| `event_sourcing` | `InvalidEntryNeedsDivergence`, `SummaryIsReplay`; `ProjectorCatchesUp` |
| `priority_queue` | `SettledOnce`, `StrandedNeedFault`, `InversionBounded`; `EveryTicketClaimed` |
| `claim_check` | `ClaimsHonoured`, `OrphansNeedFault`; `StopObserved` |
| `scatter_gather` | `OwnQuotesOnly`, `NoQuoteMissed`, `FinishedAbsorbsNothing`; `EverySearchEnds` although airlines fail, stop, were not reached or answer too late |
| `idempotency` | `OneClaimPerWindow`, `UnboundedNeedsInterruption`, `DictHoldsOneWindow`; `EveryWindowEnds` under traffic that never pauses |
| `bench` | `WindowNotOvershot`, `ResultIsForWorkDone`, `SeriesSpansWindow`; `BenchAlwaysEnds` although the consumer may die at any moment |

Every module has a type invariant, `TypeOK` (`EsTypeOK`, `SagaTypeOK`,
`BenchTypeOK`). `outbox` and `competing` check it on
its own, as their proofs do; in the other modules it is a conjunct of one of the
invariants.

One run ends in a counterexample, a sentence of the documentation that the code
does not keep. Its property is stated only to be refuted:

| run | sentence | what TLC finds | what holds instead |
|---|---|---|---|
| `dlq_dropped` (`FailuresPreserved`) | "Failures are preserved with their cause, not dropped" (`dlq_pattern/README.md:298`) | a crash between the XACK and the XADD of `move_to_dlq` leaves the payment in neither stream | `DropsNeedCrash` |

More of the same kind has no run of its own:

* "No message stays in-flight forever" (`dlq_pattern/README.md:171`): pending entries
  are re-read only when a read of new ones returned nothing
  (`dlq_pattern/consumer.py:50`), so a payment that failed once waits for as long as
  traffic never pauses; keeping the pipeline full "would starve the retries"
  (`scripts/bench_dlq_pattern.py:24`). `RetriedUntilLanded` has the hypothesis `Lulls`
  for that and fails without it.
* "The pipeline never stalls on a single unprocessable message"
  (`dlq_pattern/README.md:297`): an entry `from_fields` refuses ends every run of its
  consumer (`dlq_pattern/consumer.py:59`), so what was read behind it is never handled,
  and what is before it and keeps failing loses its attempts with each run and never
  exhausts its budget. `RetriedUntilLanded` excepts a payment of a consumer that has
  such an entry pending (`Blocked`), and fails without the exception.
* "invalid history can never be written" (`event_sourcing_pattern/README.md:87`):
  `read` returns 100 events at most (`event_sourcing_pattern/store.py:34`), so an
  aggregate replayed from one read of a longer history can withdraw money that is
  gone, with a single writer and no failure; so can racing writers and an aggregate
  whose append raised. `InvalidEntryNeedsDivergence` says that nothing else can.
* "no double charge" (`dlq_pattern/README.md:179`): a crash between the handler
  (`dlq_pattern/consumer.py:71`) and `mark_processed` (`:95`) redelivers a payment
  the guard does not know, and two consumers that hold two copies of one payment
  can both pass `is_processed`, no crash needed. `ChargesAccounted` is what holds.
* "if the runner restarts, it re-reads from the last committed position"
  (`saga_pattern/README.md:171`): `last_ids` is a local variable that starts at
  `"0"` in every run (`saga_pattern/runner.py:36`), so a restart routes, pays and
  ships again what an earlier run had routed.
* "The relay catches up when Redis recovers" (`outbox_pattern/README.md:244`) needs
  somebody to start an ended relay again, and a payment left unacked needs its
  consumer started again under its old name: `EveryOrderRelayed` and
  `RetriedUntilLanded` fail under `UnsupervisedSpec`.
* "While any higher-priority ticket is waiting, no lower-priority ticket is
  claimed" (`priority_queue_pattern/consumer.py:81`) fails for a ticket that
  arrives behind the scan, and `InversionBounded` says by how much; "at-least-once
  delivery" (`priority_queue_pattern/README.md:76`) fails for the tickets of a
  consumer that died, which nobody reads again even if it comes back:
  `StrandedNeedFault` counts them.
* "The TTL is an *upper* bound" on retention (`entities/idempotency.py:14`): a PEXPIRE
  that raises, a task cancelled while it awaits it, or a process that dies before it
  leaves a set without a ttl until somebody writes again, for ever if nobody does;
  `UnboundedNeedsInterruption` says that no mere interleaving does. And a positive ttl
  below one millisecond passes `_validate_ttl` while `PEXPIRE` truncates it to 0 and
  deletes the set at once: with `TTL` smaller than `Milli`, `OneClaimPerWindow` fails.
* A slow but live competing consumer completes a task that `reclaim_stale` has
  meanwhile given to another, hence `OneHandlingPerDelivery` instead of "exactly
  once".
* The competing-consumers benchmark has no done-callback on its consumers: when
  one dies holding a task whose publisher waits, nothing ends the wait, which is
  why `BenchAlwaysEnds` excepts it. Overlapping searches of the scatter-gather
  benchmark discard each other's quotes, which is why `NoQuoteMissed` excepts
  them; its default concurrency is one.

### Bounds

* Outbox: three orders with batches of two, so a batch can be partial, orders
  can arrive during a batch and a second poll is needed; two crashes, so the
  same row can be repeated twice and a restarted relay can die again; one
  broker error; one stop.
* Competing consumers: two consumers (a reclaim involves one holder and one
  thief), three tasks with `count` 2, so batches can overlap partially; one
  crash, one overrun, one restart.
* Dlq: three messages of two payments, so two copies of a payment and a replay fit
  beside another payment; a budget of two attempts, so the first failure retries and
  the second dead-letters. The two-consumer run allows no stop, the one-consumer run
  allows one, with up to three copies of one payment and of one entry that cannot be
  decoded; other traffic is unbounded in every run. Consumers and payments are
  interchangeable and symmetry is used in `dlq_safety` only, which checks no
  temporal property.
* Saga: three orders, one of them declined, so a run can meet a left-over order
  of either outcome, before or after its own; two crashes, so the streams can
  hold the events of two unfinished runs; `count` is 3 for
  the code's 100, so that repeated runs outgrow one read and the loop sleeps and
  comes round again. The last conjunct of `OutcomeIsOnStreams` is about streams that
  fit one read: beyond it a saga can end with a paid event still unread.
* Event sourcing: two writers (the smallest race), one amount, a page of 2 and four
  events, so a history spans more than one page and a reload is truncated; one
  append that raises. The code's page is 100: a smaller one only makes the
  truncation happen earlier.
* Priority queue: one strict consumer over three tiers and one dedicated to the
  highest, so both loops and their contention for a tier occur; three tickets
  and `count` 2, so a batch can be cut short with a ticket left, and a ticket can
  arrive behind a scan that still has two tiers to go; one fault, one stop,
  restarts without bound.
* Claim check: a consumer that deletes and one that keeps, four payloads, two
  faults, a kill of the process and two stops, restarts without bound.
* Scatter gather: two searches, so that one can be early, concurrent or over when
  the other's quotes arrive; two airlines, so that an answer can be missing, late
  or out of order while the other is not. Nothing else is bounded.
* Idempotency: two callers, two keys (the sweep of one key's write concerns the
  other's), a ttl of two ticks, so that a window has a middle; two injected
  faults, so that a duplicate can meet a redelivery, and two commands broken off, so
  that the write that would repair a set without a ttl can fail too.
* Bench: two workers, the least that can overshoot; a warmup of two and a window
  of three operations, so that both close with a worker waiting; every second
  payment poison with a budget of two, so that a poison payment is retried. A
  duration window admits no more operations than a count window in the instance.
* Stops, crashes, overruns, restarts and late failures are bounded by counters
  in the guards of the environment's actions, never in the code's.

Deadlock is checked except where the system may stop: all competing consumers
stopped or crashed with no restart left, every saga finished, the account's
history at its bound with no caller, every search over and every airline
stopped, the bench over.

### Fairness

* Weak fairness of each consumer's, and of the relay's, next step: the asyncio
  loop resumes a coroutine whose await completed, and broker calls that do not
  raise return. Faults are never fair.
* Competing consumers: weak fairness of `AbandonedGoesStale`, i.e. time passes.
  Restart is not fair; `EveryTaskCompleted` assumes instead that at every moment
  some consumer is live and not told to stop.
* Outbox and Dlq: `FairSpec` adds weak fairness of `Restart`, which is an
  assumption about the deployment (a supervisor), since no code in the
  repository restarts a relay or a consumer. `UnsupervisedSpec` is the same
  specification without it, under which both liveness properties fail. That traffic
  pauses is no fairness of the code's: it is `Lulls`, a hypothesis of
  `RetriedUntilLanded` and, like the supervisor, an assumption about the deployment.
* Saga: weak fairness of the runner's steps and of `Restart`, the same
  assumption about a supervisor; starting another order instead is allowed and
  not fair. Event sourcing: weak fairness of the projector's loop only.
* Priority queue and claim check: weak fairness of each consumer's loop, with
  handlers returning and `poll_timeout` elapsing among its steps; no restart is
  fair, the liveness properties assume a consumer that keeps running. Tickets are
  bounded, so `EveryTicketClaimed` says of the lower tiers that they are served
  once the higher ones stop arriving: strict scanning starves them otherwise.
* Scatter gather: weak fairness of each search's and each airline's next step and
  of the deadline (the loop runs ready tasks, its clock advances); scatters,
  cancellations and the stop are the caller's and not fair. Idempotency: weak
  fairness of `Tick` and of the handlers; deliveries are free. Bench: weak fairness
  of the workers, the harness, the consumer and its callback, and of the duration;
  the deaths and errors are not fair.
* `HandlerFailsLate` is not in the fair part, and neither success nor failure of
  a handler is forced: either ends the attempt, and the retry budget ends the
  message.

## Proofs

TLAPS checks, for every value of the constants:

| theorem | states |
|---|---|
| `EventStoreProofs!TypeCorrect` (outbox) | `Spec => []TypeOK` |
| `EventStoreProofs!NothingLost` | `Spec => []NothingLostNoGhost` |
| `EventStoreProofs!CommitOrder` | `Spec => []PublishedInCommitOrder` |
| `EventStoreProofs!DuplicatesPaidFor` | `Spec => []DuplicatesNeedFaults` |
| `EventStoreProofs!Refinement` | `Spec => ImplementsAtLeastOnce` |
| `CompetingConsumersProofs!TypeCorrect` | `Spec => []TypeOK` |
| `CompetingConsumersProofs!NoLoss` | `Spec => []NoTaskLost` |
| `CompetingConsumersProofs!OneHandling` | `Spec => []OneHandlingPerDelivery` |
| `CompetingConsumersProofs!Refinement` | `Spec => ImplementsAtLeastOnce` |
| `DlqProofs!TypeCorrect` | `Spec => []TypeOK` |
| `DlqProofs!FiledOff` | `Spec => []DeadLetteredOnce` |
| `DlqProofs!DropsPaidFor` | `Spec => []DropsNeedCrash` |
| `DlqProofs!ChargesPaidFor` | `Spec => []ChargesAccounted` |
| `DlqProofs!GuardHolds` | `Spec => ProcessedNeverCharged`, for one consumer |
| `PriorityQueueProofs!TypeCorrect` | `Spec => []TypeOK` |
| `PriorityQueueProofs!Settled` | `Spec => []SettledOnce` |
| `PriorityQueueProofs!StrandingPaidFor` | `Spec => []StrandedNeedFault` |
| `PriorityQueueProofs!InversionsBounded` | `Spec => []InversionBounded` |
| `ClaimCheckProofs!TypeCorrect` | `Spec => []TypeOK` |
| `ClaimCheckProofs!ClaimsAreHonoured` | `Spec => []ClaimsHonoured` |
| `ClaimCheckProofs!OrphansPaidFor` | `Spec => []OrphansNeedFault` |
| `OrchestrationProofs!TypeCorrect` (scatter gather) | `Spec => []TypeOK` |
| `OrchestrationProofs!Isolation` | `Spec => []OwnQuotesOnly` |
| `OrchestrationProofs!NoneMissed` | `Spec => []NoQuoteMissed` |
| `OrchestrationProofs!NothingAbsorbed` | `Spec => FinishedAbsorbsNothing` |
| `HarnessProofs!TypeCorrect` (idempotency) | `Spec => []TypeOK` |
| `HarnessProofs!OneClaim` | `Spec => []OneClaimPerWindow`, for a ttl of a millisecond or more |
| `HarnessProofs!DictIsOneWindow` | `Spec => DictHoldsOneWindow` |
| `HarnessProofs!UnboundedOnlyByInterruption` | `Spec => UnboundedNeedsInterruption` |
| `EventStoreProofs!EsTypeCorrect` | `EsSpec => []EsTypeOK` |
| `EventStoreProofs!HistoryValid` | `EsSpec => []InvalidEntryNeedsDivergence` |
| `EventStoreProofs!ProjectionIsReplay` | `EsSpec => []SummaryIsReplay` |
| `OrchestrationProofs!SagaTypeCorrect` | `SagaSpec => []SagaTypeOK` |
| `OrchestrationProofs!OutcomeRight` | `SagaSpec => []OutcomeIsOnStreams` |
| `HarnessProofs!BenchTypeCorrect` | `BenchSpec => []BenchTypeOK` |
| `HarnessProofs!WindowHeld` | `BenchSpec => []WindowNotOvershot` |
| `HarnessProofs!ResultIsComplete` | `BenchSpec => []ResultIsForWorkDone` |
| `HarnessProofs!SeriesMatchesResult` | `BenchSpec => []SeriesSpansWindow` |

### Assumptions

All are named in the module that declares the constants, and TLC evaluates them
in every run.

* Limits, counts, budgets and scan batches are positive naturals, and bounds on
  faults and on traffic are naturals (`BatchAssumption`, `CountAssumption`,
  `BudgetAssumption`, `FaultAssumption`, the `BoundAssumption`s). The bounds may be
  as large as one likes; no theorem depends on their value.
* `NoOwner` is no consumer, `Common` no search, and the values that stand for an
  absent entry or an absent ttl are no numbers (`OwnerAssumption`,
  `QueueAssumption`, `ValueAssumption`).
* Only a consumer can be one that deletes (`DeletingAssumption`). A scan order is a
  non-empty sequence of tiers that names none twice (`ScanAssumption`: the default
  of `consumer.py:91`, or a list like it).
* The set of airlines is finite (`FiniteAssumption`), there is a key
  (`KeysAssumption`, without which no caller has anything to ask about), and the
  ttl passes `_validate_ttl` (`TtlAssumption`).
* Event sourcing: a page holds an event at least (`PageAssumption`; 100 in
  `store.py`), and amounts are positive integers (`AmountAssumption`: `deposit` and
  `withdraw` refuse others); the bounds are naturals (`EventBoundAssumption`).
* Saga: the declined orders are orders, `NoOrder` is none, a read returns an entry
  at least (`DeclinedAssumption`, `NoOrderAssumption`, `SagaBoundAssumption`).
* Bench: the workers are finitely many and there is one (`WorkerAssumption`:
  `run_bench` refuses a concurrency below one), windows admit an operation
  (`WindowAssumption`, as `Window.__post_init__` demands), and the poison rate and
  the retry budget are positive (`KnobAssumption`).

Orders, consumers, searches, callers, keys and writers are otherwise arbitrary sets.

Two theorems have a hypothesis beyond these. `OneClaim` needs `TTL >= Milli`: a
positive ttl below one millisecond passes `_validate_ttl`, but redis-py sends
`PEXPIRE 0`, which deletes the set, and the next caller is told "new" again.
`GuardHolds` needs `Consumers = {c}`: with two consumers both may ask
`is_processed` before either has charged, which is why `dlq_single` is the run
that checks the property; `ChargesPaidFor` is what holds for any number of them.

### Arguments

The invariants a run checks are seldom inductive; what each proof adds to them:

*Outbox.* `Inv` adds to the three invariants: `OneRowPerOrder` (rows are
distinct and are exactly the committed orders), `BatchIsHead` (what the batch
holds is the head of the outbox: every row still in the table is in the batch or
newer than all of it), `RelayPosition` (the relay publishes or deletes only with
a non-empty batch, and at `delete` the entry in hand is on the stream) and
`PublishedBeforeOwed` (a published row is no newer than any row still owed).
`NothingLostNoGhost` needs `RelayPosition` at the delete: the row may go because
its event is there. `PublishedInCommitOrder` needs `PublishedBeforeOwed` at the
publish: appending the oldest owed row never follows a later one, also after a
crash has thrown the batch away. `DuplicatesNeedFaults` is proved from
`DuplicatesCharged`: only the head of the table can be on the stream already
(`RepeatsAreHead`), and if it is, unless its DELETE comes next, the duplicate
that is bound to follow is already paid for by a crash or broker error.

*Competing consumers.* `Inv` adds `GroupFirst` (nobody is past `ensure_group`
and nothing was delivered before the group exists), `ConsumerPosition` (a
consumer that handles or acks has a non-empty batch, and the task it is about to
ack has been handled) and `HandledWasDelivered` (only delivered tasks were
handled). `ConsumerPosition` is what makes an ack of a task that somebody else
now owns harmless: whoever removes it from the pending list, it was completed.
`OneHandlingPerDelivery` is proved from `Charges`: a consumer between two
batches holds nothing; a task that XAUTOCLAIM can take, now or once it has idled
long enough, has a crash or an overrun behind it that no reclaim has used up
(`ReclaimsCharged`); the handlings done and those somebody is still going to do
are together no more than the deliveries (`HandlingsCharged`); and two hold one
task only after a reclaim.

*Dead letter queue.* `Inv` is `Types` (which implies `TypeOK`), `GroupFirst`,
`Position` (a consumer has a batch exactly while it works on one, and every
message of it is pending for that consumer alone, but for the one on its way to
the DLQ), `Budget` (each attempt counted was a failure, and the budget is
exhausted only for the message being moved, or by a consumer that died there and
forgets its counts on the restart), `AcksProcessed` (a consumer acks what is in
the processed set) and `FiledOnce` (a dead letter is on no list and in no batch,
and was filed once). `ChargesAccounted` is a counting argument: `ChargesSettled`
bounds the charges of a payment by the number of its messages that are settled
(off the pending list, or charged and on their way there), plus crashes, plus
handlers that raised after their effect; a message that is charged becomes
settled unless one of those two happens. `ProcessedNeverCharged` is proved from
`Guarded`: while the only consumer is in its handler, the payment is not in the
processed set, for nobody else could have put it there since it asked.

*Priority queue.* `Inv` is `Types` (pending tickets were delivered), `ScanPlace`
(a scan is at a tier of its order, at the first one between passes),
`BatchesHeld` (a consumer holds at most `Count` tickets, all pending and no
other's) and `HandledRight` (a ticket off the pending list was handled, one held
was not, unless its ack comes next). `StrandedNeedFault` is proved from
`StrandedCharged`, by which each fault has stranded a batch at most, and
`InversionBounded` from `OvertakenOnce`: a scan that has overtaken a ticket
still waiting has not gone past the ticket's tier since, and to do so it must
find that tier empty.

*Claim check.* `Inv` is `HandlersHold` (a consumer outside its handler has no
claim), `ClaimInOnePlace` (a claim is in the queue once, or in one consumer's
hand), `TravellingUnhandled` (its payload has not been handled, nor has one
whose claim is not minted yet) and `ClaimsHonoured` itself. A delete is safe
because the deleting consumer holds the only claim to the payload.

*Scatter gather.* `Inv` is `Types`, `Subscribed` (the response topic's queues
are the common one, or exactly those of the searches under way), `AskedOnce` and
`AnsweredOnce` (an airline's answer to a search is at most one of asked for,
queued for the search, or kept by it, and it is that once), `OwnKept` and
`Observed`. They speak of a queue through `Has` and `Distinct`, membership and
absence of repetition, with lemmas on what `Append`, `Tail` and a publish to all
subscribers do to them. `OwnQuotesOnly` needs `AnsweredOnce`: a gather does not
look whether it has an airline's quote already; that there is no second one
follows from where the first can be.

*Idempotency.* `Inv` is `TypeOK`, `AtWork` (a handler under way has an
invocation left to make) and `MemoryAnswers` (the dict's entry for a key and the
time since the key was recorded agree). `OneClaimPerWindow` is proved from
`ClaimsRemembered`: a key that the store does not remember is claimed by nobody,
so the caller told "new" is the first of its window. `UnboundedNeedsInterruption`
is proved of each step: a set that has a ttl, or a writer on its way to `PEXPIRE`,
keeps one of the two through every step that breaks no command off (`LeakStep`), and
a writer whose `PEXPIRE` completes leaves no set without a ttl, whoever set it
(`WriterBounds`).

*Event sourcing.* `EsInv` is `EsTypeOK`, `HistoryRight` (what
`InvalidEntryNeedsDivergence` says of the entries that are not `blind`),
`LiveIsReplay` (an aggregate that has not diverged is the replay of the stream, with
the event it waits to append on top if there is one, and that event passes the
checks of `create`, `deposit` and `withdraw` against the replay), `Opened` (as long
as no append has failed, nobody holds an opened account unless the opening is on the
stream or about to be) and `SummaryRight`. `diverged` is what makes `LiveIsReplay`
inductive: another writer's append, a truncated read and an append that raised
without being applied are the only ways out of it, and each puts the writer there.
An entry that is not `blind` therefore passed its command's checks against the very
history it is appended to. That `replay` is what its recursive definition says has
to be proved, for a recursive function is the choice of one that satisfies its
equation: such a function exists for every length (`ReplayExists`), depends on the
events alone (`ReplayUnique`) and its values are accounts whose version is the
number of events (`ReplayTypes`). Each is shown by the least counterexample, which
`OldestIsLeast` provides, since the library's induction theorems cannot be
instantiated here. The rest of the proof only uses `ReplayFolds` (the replay of one
event more is `_apply`) and `ReplayOfPrefix`; the running totals of the projector's
page are treated alike.

*Saga.* `SagaInv` is `LogTypes` and `RunTypes` (which imply `SagaTypeOK`),
`Positions` (`last_ids` are positions on their streams), `Batches` (the batch being
routed is the run of entries that starts after `last_ids`), `EventsRight` (the events
about an order agree with its amount: a declined order is never charged or shipped,
another never cancelled), `StatusRight` (the status of a run agrees with its order's
amount, and is terminal only with its event published), `OneRead` (payments that fit
one read are all routed before the terminal check) and `RoutedAreShipped` (charges
of an order that the run has routed are no more than its shipments). The last two
give the last conjunct of `OutcomeIsOnStreams`: its hypothesis that the streams fit
one read is the one `OneRead` needs. `EventsRight` gives the converses: an order
cannot have both outcomes on its streams.

*Bench.* `BenchInv` is `Types` (which imply `BenchTypeOK`), `WindowCounts` (operations
admitted are recorded, in flight or failed, and a count window never has more than
it asked for), `WindowFull` (a worker leaves a count window only when it is full, and
a result has all workers done and a consumer that stopped when told), `SamplingWindow`
(the sampler runs in the measured window only, and a result has its closing reading and
a sampler that did not raise),
`OnePayer` (no two workers have one payment), `Unpublished` (nobody has touched a
payment that is not published), `Settlement` (a future resolves only for a payment
that is charged or given up for good, which is never both and happens once; a charged
payment still on the stream is in the consumer's hands) and `Unresolved` (a payment
that is not resolved has a worker that did not get past it). `WindowNotOvershot` rests
on the check and the admission being one step, whichever worker comes next.
`ResultIsForWorkDone` needs `Unresolved`: with every worker done no payment is
unresolved, so by `Settlement` each is charged or dead-lettered, or about to be by a
consumer that, having stopped when told, has nothing of the kind left to do.

*Refinements.* `Outbox` and `CompetingConsumers` implement `AtLeastOnce`: the
initial states map to its initial state, and every step accepts an item,
performs its effect, releases it after the effect, or leaves the abstract state
alone.

`StreamOpsProofs` holds the facts about `FirstN`, `Oldest` and `Newest` that
these rest on: a non-empty finite set of naturals has a first and a last
element, `FirstN` of it is not empty, holds no more than n, and everything
outside `FirstN` is newer than it; the first n of a run of consecutive ids are
again such a run.

### Only model-checked

* Every liveness property: `EveryOrderRelayed`, `EveryTaskCompleted`,
  `RetriedUntilLanded`, `SagaReachesTerminal`, `ProjectorCatchesUp`,
  `EveryTicketClaimed`, `StopObserved`, `EverySearchEnds`, `EveryWindowEnds`,
  `BenchAlwaysEnds`. The prover does not handle fairness.

Every safety property that a passing run checks is stated by a theorem.

## Not modelled

* The metrics registry: every method is one critical section of the same lock
  over one dict, so there is no interleaving to get wrong. `bench.py`'s
  percentiles and writers, and `combining.py`, are pure functions of finished data.
* The naive baselines, deliberately wrong contrasts to the patterns.
* The envelope, settings and logging, and the scripts that only parse arguments,
  start a pattern and print: they carry no protocol state of their own.
* Redis' own persistence and failover, network partitions inside a command, and
  the actual lengths of timeouts are outside the models. Two idempotency stores of
  different ttl on one Redis key, which the docstring tells callers to avoid.

## Plan

Every module of the plan is built, and every safety property stated about it is
proved. What could follow:

1. The naive baselines as the specifications the patterns improve on.
2. An event store that refuses an append unless the caller has read the whole stream
   and nobody has appended since: the specification under which every entry is valid.
   To compare the aggregate's version with the length of the stream would not be
   enough (see `EventSourcing` above).
