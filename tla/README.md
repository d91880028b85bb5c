# Formal models of the async payment service

TLA+ specifications of the service in this repository, checked with TLC on small
instances and, where noted, proved with TLAPS for every value of the constants.
Each definition is a translation of code under `app/`; `PROJECT.json` lists the
lines each one stands for.

## 1. The system

```
client --POST--> API --(payments + outbox, one commit)--> PostgreSQL
                                     outbox publisher --(payments.new)--> RabbitMQ
          consumer <--deliver/ack/nack/reject-- RabbitMQ --rejects--> payments.new.dlq
          consumer --(payments.status + webhook_deliveries, one commit)--> PostgreSQL
                                     webhook dispatcher --POST--> client endpoint
```

Every process is one asyncio event loop; the processes share PostgreSQL and
RabbitMQ and nothing else. Every `await` is therefore a point at which any other
coroutine or process may act, and every database transaction is the unit of what
another process can see.

| Component | Code | State it keeps | Operations | Talks to |
|---|---|---|---|---|
| Payment API | `services/payment.py`, `api/v1/payments.py` | `payments`, `outbox` (rows of one transaction) | create, get | database |
| Outbox publisher | `services/outbox_publisher.py`, `repositories/outbox.py` | `outbox.status` | claim, publish with retries, mark, give up | database, broker |
| Payment consumer | `consumer/`, `services/payment_processor.py` | `payments.status`, `webhook_deliveries` (insert) | process, ack, nack, reject | broker, database, gateway |
| Gateway emulator | `services/gateway.py` | none | wait 2-5 s, choose a result | consumer |
| Broker topology | `messaging/topology.py` | queue `payments.new`, its DLQ | route, requeue, dead-letter | publisher, consumer |
| Webhook dispatcher | `services/webhook_dispatcher.py`, `services/webhook.py`, `repositories/webhook_delivery.py` | `webhook_deliveries.status`, `attempts`, `next_attempt_at` | claim, check, POST, mark, reschedule | database, client endpoint |
| URL guard | `core/url_guard.py` | none | check a URL, resolve and check its host | API, dispatcher |
| Sessions | `db/session.py` | engine | open, commit, roll back, close | all |
| Entry points, lifespan | `main.py`, `*/main.py` | resources, background tasks | open, declare, spawn, cancel, await, close | all |
| Observability | `core/telemetry.py`, `core/metrics.py`, `core/propagation.py` | enabled, what is instrumented | set up, instrument, shut down | all |
| Settings | `core/settings/` | none (read once) | load, validate | all |
| HTTP surface | `api/deps.py`, `api/exception_handlers.py`, `api/v1/payments.py` | none | check a request, turn an exception into a status | API |
| Health, signing, migrations | `services/health.py`, `core/signing.py`, `alembic/` | none | see section 7 | - |

### What is hard in it, and what makes each part correct

* **API.** Two requests with one `Idempotency-Key` interleave between the SELECT,
  the INSERT (which the unique index may make wait, or refuse) and the commit;
  a commit may be refused, or take effect without being confirmed. Before that, a
  row of checks in three layers (FastAPI, dependencies, handler) decides, by the
  first one that fails, what a bad request is told. *Correct:* one payment per key;
  an answer never precedes the commit it tells about; payment and event exist
  together; what the checks let through can be stored, and a 500 has a known cause;
  every request ends.
* **Publisher.** Several pollers, kept apart only by a row lock held across the
  publish; a publish may reach the queue although it failed for the publisher; a
  crash may fall between publish and mark. *Correct:* no event is marked without
  having been sent, none is given up for a transient error, a duplicate needs a
  fault, every pending event is settled.
* **Consumer.** Duplicate messages are handled by overlapping tasks with a gateway
  call inside an open transaction; a channel may be lost under a running handler,
  which then commits although the message is back in the queue; what an exception
  does to the message depends on a counter. *Correct:* a final status and its
  webhook row come together; an acknowledged message's payment is final; the
  webhook carries the status the payment has; retries are bounded.
* **Dispatcher.** Several pollers with row locks across a DNS lookup and an HTTP
  exchange; due times, backoff, a bound on attempts; crashes after the endpoint
  was told. *Correct:* delivered and failed are earned, requests are bounded by
  attempts and faults and spaced by the backoff, whoever makes them, every delivery
  is settled and none holds up another (which finding 4 breaks for endpoints that
  redirect).
* **End to end.** A payment crosses two database commits and a queue, with retries,
  duplicates and restarts between them. *Correct:* somebody is responsible for an
  accepted payment at every moment; an endpoint is called only about an accepted
  payment that has its outcome, and about one payment per key; every accepted
  payment's client is notified in the end (which findings 4 and 5 break).
* **Lifecycle.** Every process opens its resources, declares the broker's topology
  and starts its tasks in an order of its own, may fail at any step or be killed,
  and meets the others at the broker. *Correct:* no task runs without what it
  uses, nothing is published or rejected into the void, a stop terminates and
  releases everything, and everything that runs is observed.

`PROJECT.json` lists these hazards at their lines, with the properties that would
catch each going wrong, and says so where a property catches one only in part or none
can.

## 2. Plan

1. *(done)* `PaymentApi` with its promise `IdempotentCreate`, and proofs.
2. *(done)* `OutboxPublisher` with its promise `OutboxRelay`, and proofs.
3. *(done)* `PaymentConsumer`, with the broker's side of a delivery.
4. *(done)* `WebhookDispatcher`, with time, backoff and attempts.
5. *(done)* `ProcessLifecycle`: start and stop of every process, the topology they
   declare, what observability covers.
6. *(done)* Abstract specifications of the consumer and the dispatcher,
   `PaymentSettlement` and `WebhookNotification`, with the refinements checked.
7. *(done)* `PaymentPipeline`: the four promises composed by joint actions, with a
   broker restart that loses the non-persistent messages of
   `outbox_publisher.py:185-190`.
8. *(done)* The screening of a request in `PaymentApi`: which check answers it, what
   reaches the INSERT, which 500s there are; proved as `ExplainedErrors`.
9. *(done)* Proofs for the pipeline.
10. *(done)* Proofs for the consumer, the dispatcher and the lifecycle: every
    invariant and action property the runs check, and the refinements
    `SettlementKept` and `NotificationKept`.
11. A database connection that is lost while its owner waits for something else: the
    row lock goes at once, the owner learns of it at its next statement. It weakens
    both promises of the pollers (a request or a publish may follow the settlement).

The runs of later steps replace those here that they make redundant, so that each
run keeps asking a question of its own.

## 3. Modules

| Module | What it is |
|---|---|
| `IdempotentCreate` | the promise of `POST /payments`: asked, registered, told |
| `PaymentApi` | the requests, their transactions and the unique index |
| `PaymentApiProofs` | inductive invariant, safety theorems, refinement |
| `OutboxRelay` | the promise of the outbox: pending, sent, settled |
| `OutboxPublisher` | the polling workers, their locks, retries and crashes |
| `OutboxPublisherProofs` | inductive invariant, safety theorems, refinement |
| `PaymentSettlement` | the promise of the consumer: arrived, settled, acknowledged |
| `PaymentConsumer` | broker deliveries, handler tasks, the delivery policy |
| `PaymentConsumerProofs` | inductive invariants, safety theorems, refinement |
| `WebhookNotification` | the promise of the delivery queue: queued, requested, settled |
| `WebhookDispatcher` | the polling workers, the clock, attempts and outcomes |
| `WebhookDispatcherProofs` | inductive invariant, safety theorems, spacing of attempts, refinement |
| `PaymentPipeline` | the four promises composed: the way of a payment |
| `PaymentPipelineProofs` | inductive invariant, end-to-end safety theorems |
| `ProcessLifecycle` | the programs of the processes, their resources, tasks and declarations |
| `ProcessLifecycleProofs` | what the programs guarantee, inductive invariant, safety theorems |
| `MC...` | small instances of the above for TLC |

Operators whose comment begins "Mutant of" are plausible bugs of the definition
that follows them. No specification uses them; substituting one for its original
must break the property `PROJECT.json` lists with it.

### PaymentApi

`pc[r]` is the `await` at which `create_payment` stands for request `r`
(`select`, `flush`, `commit`, `reselect`, `refresh`). A payment is named by the
request that created it, since its id is a fresh UUID; `inserted` holds the rows
of open transactions, `payments` and `outbox` the committed ones. `IndexFree` is
PostgreSQL's unique index at the moment the INSERT is sent: an uncommitted entry
makes the statement wait, a committed one makes it fail. That moment is
`session.flush()`, which stands before the `try`: `FlushConflict` answers 500.
`CommitRefused` is the IntegrityError the `except` was written for; it leads to the
second SELECT. `DatabaseError`, `CommitUnconfirmed` and `Kill` are every other way
a request can end; a killed API worker is the kill of each of its requests.

What is wrong with a request is a set of flaws, `flaws[r]`, and `Screening` is the
list of checks in the order the code makes them, each with its flaw and the status
of what it raises: `Refuse` answers with the first one that fails, `Receive` needs
all of them passed. Three flaws are `Raising`: they lead to an exception nothing
turns into a client error (an API key that is not ASCII, a validation error that
cannot be serialised, an amount the column cannot hold). `key_format` is also a flaw
the INSERT would trip over (`FlushRejected`), and the check before it is what keeps
it away; that is what `ServerErrorsExplained` depends on.

### OutboxPublisher

A worker is any loop of `run_forever`: the publisher process, or the one an API
process runs when `outbox_publisher_enabled`. `holds[w]` is the row its
transaction has locked, from `Claim` to the end of the iteration; `left[w]` counts
down the batch. A failed attempt (`RetryPublish`, `GiveUp`) may or may not have
reached the queue (`MaybeSent`), since only the confirmation may have been lost.
`Abort` is any exception that leaves `_publish_next`, `MarkUnconfirmed` a commit
that took effect without being confirmed, `Kill` a crash or a cancelled task.
Events are numbers in the order of `created_at`; they become visible in any order,
because `created_at` is the start of a transaction and not its commit.

### PaymentConsumer

A task is one run of the handler. `loc[m]` is where the broker has message `m`;
`live[t]` says that the channel which delivered `t`'s message still exists, so that
what `t` tells the broker still counts. After `ConnectionLost` a task runs on: it
may commit, and its acknowledgement has no effect. `stored[m]` is `x-retry-count`
in the broker's copy, `raw[t]` in the task's: `set_retry_count` changes `raw` only,
and a requeue returns the stored copy, so `stored` never changes in any behaviour.
`wrote[t]` and `added[t]` are the row lock of the UPDATE and the uncommitted index
entry of the INSERT; both make a second task wait. The gateway is an `await`
followed by a free choice of its two results. `overlapped` is a history variable:
the payments two tasks had open at once. A killed process is replaced at once, so
`Kill` leaves its tasks idle. `BrokerRestart` loses every message the broker has,
since they are transient, and every channel; the tasks run on. A message whose payment does not exist stands for
the poison messages of ADR 0004.

### WebhookDispatcher

As the publisher, with time. Time is relative so that the state space is finite:
`wait[d]` is `next_attempt_at` minus the clock and `elapsed[w]` the clock minus
the `processed_at` of the worker's pass. `Tick` is a second; it waits while a worker
has had its row for `Timeout` seconds. `wait` is kept down to `-MaxOverdue`: rows
that are overdue by more count as equally overdue and are claimed in any order.
The guard refuses or allows a destination freely at every lookup (a resolver fails for
a moment, a host comes to resolve to a private address), and the endpoint answers
every request freely. On a `Raising` delivery an attempt may also end in an exception
that is not retryable, because its endpoint redirects or its host cannot be encoded;
the same endpoint may answer 503 before it redirects, or 200 after. Such an exception,
like a database error or a kill, ends the batch (`LeaveBatch`). `posts`, `answered`,
`refused` and `rest` are history variables; `rest[d]` is the time since the
`processed_at` of the last attempt that was counted, and `posts[d]` saturates at
`PostsCap[d]`, the least that all properties about it need: one more than
`RequestsAccounted` allows, or `MaxAttempts` for a `Raising` delivery, whose requests
have no bound.

### PaymentPipeline

The components meet in database transactions and in calls, and the model takes them
as joint steps of the promises: `Create` is the commit of payment and event,
`Publish` the call that puts the next message of an event into the queue, `Settle`
the commit of status and webhook row. Everything else a component does alone, so
any number of retries, duplicates and other payments may come between. A payment, its
event and its webhook row share a name, `<<p, n>>` is the n-th message about `p`. The
four promises are instances of the modules which `PaymentApi`, `OutboxPublisher`,
`PaymentConsumer` and `WebhookDispatcher` are shown to implement (`PromiseKept`,
`RelayKept`, `SettlementKept`, `NotificationKept`): what holds of the composition
holds of the components, as far as they share no more than these steps. `About(p,
"lost")` is a message of `p` that a restart of the broker took. `Raising` are the
payments whose endpoint may redirect, as in `WebhookDispatcher`, and `Unblocked` says
that none of them has a pending row; it matters to the fairness only (section 4).
`told` is left out: no later stage depends on what the client was told.

### ProcessLifecycle

`Program` holds, for each process, the steps of its `main` or `lifespan` in the
order of the code; `runs[p]` and `pc[p]` say which program `p` executes and where
it stands. A step is an action: `Open`, `Close`, `Declare`, `Spawn`, `Cancel`,
`Await`, `Load`, `Setup`, `Instrument`, `Shutdown`; at `serve` the process waits until
`Stop`. A place may run any program after any other, so two places give every pair
of processes, in every order of start, stop, failure and kill. A step that raises
ends the process, except in the consumer, whose `try` already covers the start of
the broker: it goes on with `Release`. `declared` is the broker's durable topology
and outlives every process. `carrier[e]` is the trace context in the payload of an
event and `message[e]` what the broker did with its message; redelivery and retries
are left to `PaymentConsumer` and `OutboxPublisher`. SIGTERM is a `Kill` of the
publisher and the dispatcher, which install no handler for it, and a `Stop` of the
API and the consumer, whose servers do. The consumer's `StopSubscription` is no line of
`consumer/main.py`: it is what FastStream does before it closes the connection, and is
marked external; that the handlers end before their resources go rests on it. The API has four programs, one for each
setting of `outbox_publisher_enabled` and `webhook_dispatcher_enabled`, which the
profiles default to both or neither and the environment may set one by one.

## 4. Runs

| Run | Shows | Instance |
|---|---|---|
| `api` | all safety, `ServerErrorsExplained`, the refinement of `IdempotentCreate` and `RequestsAnswered` | 3 requests, 2 keys, every flaw and three pairs of flaws, 2 faults |
| `api_race` | *violated:* `RaceIsHandled` | the same, flawless requests blamed only |
| `publisher` | all safety, the refinement of `OutboxRelay` and `PendingIsSettled` | 2 workers, 3 events, 1 unreadable, batches of 2, 2 attempts, 2 faults |
| `consumer` | all safety (`OneWebhookPerFinalPayment`, `AckedIsProcessed`, `DeadLetterIsEarned`, `OnlyOverlapDiverges`), the refinement of `PaymentSettlement` and `MessagesSettle` | 2 consumers, 1 task each, 2 messages of 1 payment, 1 poison message, limits of 1 and 2 attempts, 2 faults |
| `consumer_retries` | *violated:* `RetriesAreBounded` | the same, 2 attempts each, 3 faults |
| `consumer_overlap` | *violated:* `WebhookTellsResult` | 1 consumer, 2 tasks, prefetch 2, no faults |
| `dispatcher` | `DeliveredWasAnswered`, `FailureIsEarned`, `RequestsAccounted`, `AttemptsAreSpaced`, the refinement of `WebhookNotification`, `DeliverySettles` | 2 workers, 3 deliveries, 1 raising, batches of 1, 2 attempts, 1 fault |
| `dispatcher_starve` | *violated:* `OthersSettle` | 1 worker, 2 deliveries, 1 raising, no faults |
| `pipeline` | `OnlyRestartStrands`, `WebhookFollowsOutcome`, `OneNotificationPerKey`, `AcceptedIsNotified` | 2 requests, 2 keys, 1 raising, 2 messages about one payment and 1 about the other, 1 attempt, 2 broker restarts |
| `pipeline_restart` | *violated:* `NothingStranded` | the same |
| `lifecycle` | `TasksHaveResources`, `NothingIsDropped`, `ReleasedOnOrderlyStop`, `WorkIsObserved`, `StopEnds` | 2 places, any program, 1 payment, 1 fault |
| `lifecycle_trace` | *violated:* `EventsCarryTrace` | the same |

Why the bounds are enough: a race needs two requests of one key, and a third to be
a late repetition or the holder of another key; two workers are every pair of
contenders for a lock, and three rows against a batch of two let a batch end with
work left; two handlers are every pair that can overlap, within a consumer
(`consumer_overlap`) or between two (`consumer`). Every fault may strike at every
step, and two let a second strike the recovery from the first. The settings are read
by each process for itself, so `consumer` gives its two consumers different limits:
one attempt, so that failures do end in the dead-letter queue (with more the code
never puts a failing message there, finding 2), and two, so that there is a requeue.
In `lifecycle` a place may be restarted as often as it ends; one fault at any step of
any program leaves the other place to meet what it left behind. Three deliveries in
`dispatcher` are two ordinary ones, of which one could hold up the other (a worker is
left with both when the other is down), and one that may raise before, between or
after them; batches of one with two workers let every claim meet a row that the other
has locked. Two attempts are a retry, after the first backoff (longer ones are
`SpacesAttempts`'), and the last attempt; with a second fault or a
third attempt the three deliveries are out of TLC's reach, and there the safety
properties rest on their proofs. In `pipeline` a request may repeat the other's key or
create a payment of its own, next to a payment whose endpoint redirects, and the second
message of `r1` is a duplicate, or one sent after a restart has taken the first.
`MaxFaults`, `MaxRestarts`, `MaxOverdue`, `PostsCap` and `Copies` are the only bounds
the code does not have; the proofs need none of their values.

`pipeline` does not check for deadlock: when every request was answered, every message
finished and the restarts are used up, the system has nothing left to do.

In `pipeline` one attempt is enough because `PaymentPipeline` only counts requests.

Two of the violation runs have no faults at all: `consumer_overlap` and
`dispatcher_starve` need nothing but an ordinary duplicate or an ordinary redirect.

### Fairness

* API: weak fairness of `Handle(r)`, for each request: the event loop runs a
  coroutine whose statement has returned, and PostgreSQL grants a lock that is
  free. No fairness of arrivals or faults.
* Publisher and dispatcher: weak fairness of `Work(w)`, for each worker: the loop
  of a running process. `Restart` is not fair: an operator may leave a process
  down, so the liveness properties assume that infinitely often some worker runs.
  The dispatcher also has weak fairness of `Tick`: time passes.
* Lifecycle: weak fairness of `Execute(p)`, the next step of a running process, and of
  `TaskEnds`: a cancelled task is resumed with the cancellation. No fairness of
  `Start` or `Stop`.
* Consumer: weak fairness of each running task, and of the broker's delivery to
  some task: a consumer with room is connected.
* Pipeline: what the components were shown to do in the end, under the fairness above:
  a pending event is sent (`PendingIsSettled`), a queued message is
  acknowledged or dead-lettered (`MessagesSettle`), a pending delivery is attempted
  and settled (`DeliverySettles`). The last is only assumed while `Unblocked`: a row
  whose attempts raise is not settled and may starve the others (finding 4), so the
  fairness is that of `Unblocked /\ (Attempt(p) \/ Conclude(p))`, and
  `AcceptedIsNotified` speaks of behaviours in which no such row stays pending. There
  is none for `Settle`, which is forced because an acknowledgement needs it, none for
  requests, and none for restarts. A message still counts as queued while it is
  retried, so the fairness of `Finish` assumes that its failures cease, as
  `MessagesSettle` does.

Faults are bounded, so liveness speaks of what happens once they cease. In the same way
`DeliverySettles` speaks of what happens once attempts cease to raise, by its premise;
`OthersSettle` drops that premise and is violated. The liveness properties of the
dispatcher and the pipeline say that infinitely often the row is not pending, or the
payment notified: as neither is ever undone, which the promises show, that is "in the
end".

## 5. What is proved

`PaymentApiProofs` assumes `ApiAssumption` (the two "nothing" values are outside
their sets, the fault bound is a natural number). `OnePaymentPerKey` is not
inductive, because a request standing at its commit could still add a second
payment. `IInv` adds that the index has one entry per key over committed *and* open
transactions (`IndexEntriesUnique`), that exactly the requests at their commit hold
an open row (`HolderCommits`), that a request has a key from its arrival on
(`KeyedWhenSent`), and that a 202 names a committed payment of the own key
(`ToldOfOwnKey`). Theorems: `Invariance`, `TypeCorrect`, `UniquePayment`,
`DurableAnswer`, `SameAnswer`, `AtomicOutbox`, and `KeepsPromise`: every step is a
step of `IdempotentCreate` or leaves its variables alone.

`OutboxPublisherProofs` assumes `PublisherAssumption`. `DuplicatesNeedFaults` holds
because the one send no fault has paid for is the one its worker is about to record
(`SendsAccounted`), which needs the row lock to be exclusive (`LockExclusive`), held
exactly through a transaction (`HoldsInTransaction`), and the holder's view of the
row to stay true (`HolderKnows`). Theorems: `Invariance`, `TypeCorrect`,
`NothingUnsentIsPublished`, `NoGoodEventGivenUp`, `DuplicatesAccounted`, and
`KeepsRelay`: the workers implement `OutboxRelay`.

In `PaymentApiProofs`, `ErrorInv` adds to that what a request carries through the
checks (`"key_format"` is gone once it is inside `create_payment`) and that the second
SELECT is only reached after a fault; `ExplainedErrors` follows.

`PaymentPipelineProofs` assumes `PipelineAssumption`. `OnlyRestartStrands` looks at all
stages at once, so `IInv` says what the state of each tells about the one before:
exactly the accepted payments have an event, and distinct keys (`Recorded`); the
messages about a payment are the first `sent[p]`, and its event is not marked without
one (`Sent`); an outcome has a message behind it and a webhook row beside it, and an
acknowledged message has an outcome (`Told`). From a published event follows its first
message, and from that message's place who is responsible. Theorems: `Invariance`,
`TypeCorrect`, `Responsibility`, `Notification`, `SingleNotification`. They are about
the composed promises, and that each component keeps its own is proved too
(`KeepsPromise`, `KeepsRelay`, `KeepsSettlement`, `KeepsNotification`).

`PaymentConsumerProofs` assumes `ConsumerAssumption`. Which of two tasks of one payment
commits first is open, and a task that has lost its channel commits like any other.
So `IInv` says what an open transaction can rely on whatever the others commit
(`Relies`): without an UPDATE of its own it has found a final status, and none is ever
taken back; an INSERT about to be committed is the first, and one that was skipped found a
row. The row locks (`RowLocks`) keep two such writers apart, `Unsettled` makes the broker
forget a message only on the word of the one task whose channel waits for it, and
`Counted` has no task count more failures than its message had, so that a rejection is
earned (`RejectIsEarned`). `DeadLettersEarned` is about steps: only a rejection
dead-letters (`OnlyRejectDeadLetters`), and the one that does is that of a consumer that
has reached its own limit. `OnlyOverlapDiverges` needs a second invariant, `OverlapInv`: as
long as nobody else has had a payment open, its one transaction sees the status as it is.
Theorems: `Invariance`, `TypeCorrect`, `OneWebhook`, `NothingAckedUnprocessed`,
`DeadLettersEarned`, `OnlyOverlaps`, and `KeepsSettlement`: the tasks, with their locks,
retries, lost channels and kills, implement `PaymentSettlement`, where the outcome of a
payment is the status its webhook row carries.

`WebhookDispatcherProofs` assumes `DispatcherAssumption`. A worker acts on what it read when
it locked the row; `IInv` says why that is still true when it writes: one holder per lock
(`LockInv`) and what the holder has done by each await (`HolderKnows`). `PostsAccounted`
charges every request to a counted attempt, to a fault, or to the one exchange that is
under way or was the last; `Spaced` ties the backoff to the clock, which moves `wait` and
`rest` in opposite directions, and rests on the lemma that the backoff never shrinks
(`BackoffGrows`). Theorems: `Invariance`, `TypeCorrect`, `DeliveriesAnswered`,
`FailuresEarned`, `RequestsBounded`, `SpacesAttempts` (a property of steps), and
`KeepsNotification`: the workers implement `WebhookNotification`. The model writes the
backoff as the code's power of two up to the fourth attempt and its cap of ten seconds
from the fifth on; TLC checks for the first 25 attempts that this is the capped power the
code computes (`BackoffIsCappedPower` in `MCWebhookDispatcher`).

`ProcessLifecycleProofs` assumes `LifecycleAssumption`. Its argument has two halves. What a
process has executed of its program tells what it has open, what it runs and what it has
declared, whatever the others do (`Follows`); that is the invariant, and its proof knows no
program, only that each step is `Proper` after those before it. That the seven programs
are `Disciplined` (every step proper, nothing running without what it needs, all closed
at the end) is read off the places of their steps (`OrderDisciplines`, and one lemma per
program), so a change to the order of a `main` is a change to one lemma. Of a consumer in
its `finally` after a failed start, it is enough that nothing but the subscription is left
(`Leftover`). `NothingIsDropped` also needs that a message that can be rejected was published
after its publisher declared the dead-letter queue (`Routed`), and that no declaration is
forgotten. Theorems: `Invariance`, `TypeCorrect`, `TasksSupplied`, `NothingLost`,
`OrderlyStopReleases`, `WorkObserved`.

Every invariant and every property of steps that a passing run checks is proved. Only
model-checked is liveness (`RequestsAnswered`, `PendingIsSettled`, `MessagesSettle`,
`DeliverySettles`, `AcceptedIsNotified`, `StopEnds`), since fairness and ENABLED are out
of the prover's reach. The proofs are about the models: that a model says what the code
does is what the lines in `PROJECT.json` are for.

## 6. Findings

1. `api_race`. The loser of a race raises `IntegrityError` in `flush()`
   (`services/payment.py:79`), outside the `try` around `commit()`: it gets a 500, not
   the payment ADR 0005 promises. The payment itself stays unique (`api`).
2. `consumer_retries`. `x-retry-count` is set on the local copy of a message
   (`consumer/delivery.py:136`); the requeued message never carries it, so retries of a
   failing message have no bound and it never reaches the DLQ.
3. `consumer_overlap`. Two overlapping handlers of a duplicate both process the
   payment; the second overwrites the status after the first has queued its webhook
   (`payment_processor.py:68`). `OnlyOverlapDiverges` shows that overlap is the only way.
4. `dispatcher_starve`. The row of a redirecting endpoint is never counted, never
   settled and stays first in line, so one dispatcher never gets past it
   (`webhook_dispatcher.py:166`). The same happens to a host name the resolver cannot
   encode: its `UnicodeError` is no `OSError` (`url_guard.py:110`). It is why
   `DeliverySettles` and `AcceptedIsNotified` have a premise.
5. `pipeline_restart`. Messages are published without `persist`
   (`outbox_publisher.py:185`): a restart of the broker loses them while their rows are
   PUBLISHED, and nobody will ever process those payments. `OnlyRestartStrands` shows
   that it is the only way to lose one.
6. `lifecycle_trace`. `instrument_fastapi` is called at import (`main.py:108`), before the
   lifespan enables export, and is then a no-op: `POST /payments` opens no span and
   the event starts without the trace context ADR 0007 passes on. (The in-process
   dispatcher of the API likewise never has its httpx client instrumented; only
   `dispatcher/main.py` calls `instrument_httpx`.)

Met while modelling, and part of `api` as the flaws `ServerErrorsExplained` has to
except: an amount like `"1.500"` (three decimals, the last a zero) passes
`decimal_places` and is refused by `validate_amount_scale`, whose `ValueError` is in
`exc.errors()`; `validation_exception_handler` (`exception_handlers.py:144`) passes it to
`JSONResponse`, which cannot encode it, so the client gets a 500 for the 422 that the
handler's docstring and `docs/openapi.yaml` promise. An API key with a character outside
ASCII makes `compare_digest` raise (`deps.py:34`), and an amount of 17 or 18 digits
before the point overflows the column (`schemas/payment.py:16`).

## 7. Not modelled, and why

* Amounts, currencies, descriptions and metadata, beyond the flaws they may have, and
  the body of a repeated request: data the control flow never looks at.
* Real time in the publisher (`wait_exponential`, poll intervals): no property
  depends on it. The dispatcher has time because its due times decide.
* The httpx timeout is per operation and not per exchange; the dispatcher's
  `Timeout` bounds the exchange, as the setting's name suggests.
* A database connection that is lost while its owner waits for something else, which
  frees the row lock of a poller in the middle of its exchange: step 11 of the plan.
* Health probes, signing, migrations, the contents of logs, spans and metrics: they
  read or format, and change no state the protocols depend on. Of the settings, that
  loading them may fail and which background tasks they give the API; their numbers
  are CONSTANTS, and what the modules assume of those is what the validators of
  `core/settings/base.py` ensure.
* What FastStream does with a subscription whose `after_startup` hook raised; the
  properties of `ProcessLifecycle` exclude it.
* Code outside `app/` that the models rely on is marked external in `PROJECT.json`:
  PostgreSQL rolling back a vanished client, RabbitMQ's prefetch, requeue and
  acknowledgement rules, the clock.
