--------------------------- MODULE PaymentPipeline ---------------------------
(***************************************************************************)
(* The way of a payment from POST /payments to the client's endpoint: the  *)
(* promises of the four components composed.  Where the code changes the   *)
(* state of two of them in one database transaction, or hands something    *)
(* over in one call, the two take a joint step; everywhere else they step  *)
(* alone, so that any number of restarts, retries and other payments may   *)
(* come between.  PaymentApi, OutboxPublisher, PaymentConsumer and         *)
(* WebhookDispatcher implement the promises.  What a client is told of its *)
(* payment is left to IdempotentCreate, since no later stage depends on it. *)
(*                                                                         *)
(* A payment is named by the request that created it; so are its event in  *)
(* the outbox and its row in webhook_deliveries.  <<p, n>> is the n-th     *)
(* message the publishers sent about p.                                    *)
(***************************************************************************)
EXTENDS Naturals

CONSTANTS Requests,     \* the requests clients ever send
          Keys,         \* the values of the Idempotency-Key header
          NoKey,        \* a request that has not been sent
          Raising,      \* payments whose endpoint may redirect, or host fail to encode
          Copies,       \* bound: Copies[p] messages are sent about payment p
          MaxAttempts,  \* webhook_max_attempts
          MaxRestarts   \* bound on restarts of the broker

ASSUME PipelineAssumption ==
  /\ NoKey \notin Keys
  /\ Raising \subseteq Requests
  /\ Copies \in [Requests -> Nat \ {0}]
  /\ MaxAttempts \in Nat \ {0}
  /\ MaxRestarts \in Nat

VARIABLES asked, registry,                    \* the API: keys, payments
          event, sent,                        \* the outbox: status, messages sent
          place, outcome,                     \* the consumer: messages, outcomes
          hook, posts, answered, refused,     \* the dispatcher: status, requests
          restarts                            \* restarts of the broker so far

api == <<asked, registry>>
outbox == <<event, sent>>
consumer == <<place, outcome>>
dispatcher == <<hook, posts, answered, refused>>
vars == <<api, outbox, consumer, dispatcher, restarts>>

Messages == UNION {{p} \X (1..Copies[p]) : p \in Requests}
PaymentOf == [m \in Messages |-> m[1]]

Api == INSTANCE IdempotentCreate WITH NoPayment <- NoKey, told <- [r \in Requests |-> NoKey]
Outbox == INSTANCE OutboxRelay WITH Events <- Requests, Invalid <- {}, status <- event
Consumer == INSTANCE PaymentSettlement WITH Payments <- Requests
Dispatcher == INSTANCE WebhookNotification WITH
  Deliveries <- Requests, Enough <- [r \in Requests |-> MaxAttempts], status <- hook

TypeOK ==
  /\ asked \in [Requests -> Keys \cup {NoKey}]
  /\ registry \subseteq Requests
  /\ event \in [Requests -> {"absent", "pending", "published"}]
  /\ sent \in [Requests -> Nat]
  /\ \A p \in Requests : sent[p] <= Copies[p]
  /\ place \in [Messages -> {"absent", "queued", "acked", "dlq", "lost"}]
  /\ outcome \in [Requests -> {"none"} \cup Consumer!Final]
  /\ hook \in [Requests -> {"absent", "pending", "delivered", "failed"}]
  /\ posts \in [Requests -> 0..MaxAttempts]
  /\ answered \subseteq Requests
  /\ refused \subseteq Requests
  /\ restarts \in 0..MaxRestarts

Init ==
  /\ Api!Init
  /\ Outbox!Init
  /\ Consumer!Init
  /\ Dispatcher!Init
  /\ restarts = 0
-----------------------------------------------------------------------------
\* A request arrives at the API.
Ask(r) ==
  /\ Api!Ask(r)
  /\ UNCHANGED <<outbox, consumer, dispatcher, restarts>>

\* Mutant of Create: the event left to a transaction of its own.
CreateWithoutEvent(r) ==
  /\ Api!Register(r)
  /\ UNCHANGED <<outbox, consumer, dispatcher, restarts>>

\* Mutant of Create: no unique index on idempotency_key.
CreateAnyKey(r) ==
  /\ asked[r] # NoKey
  /\ registry' = registry \cup {r}
  /\ Outbox!Add(r)
  /\ UNCHANGED <<asked, consumer, dispatcher, restarts>>

\* create_payment commits the payment and its event.
Create(r) ==
  /\ Api!Register(r)
  /\ Outbox!Add(r)
  /\ UNCHANGED <<consumer, dispatcher, restarts>>

\* A publisher publishes the event: its next message is in the queue.
Publish(p) ==
  /\ sent[p] < Copies[p]
  /\ Outbox!Send(p)
  /\ Consumer!Arrive(<<p, sent[p] + 1>>)
  /\ UNCHANGED <<api, dispatcher, restarts>>

MarkPublished(p) ==
  /\ Outbox!Settle(p)
  /\ UNCHANGED <<api, consumer, dispatcher, restarts>>

\* Mutant of Settle: the webhook row is inserted by an earlier transaction.
SettleLater(p) ==
  /\ Consumer!Arrived(p)
  /\ Dispatcher!Queue(p)
  /\ UNCHANGED <<api, outbox, consumer, restarts>>

\* Mutant of Settle: the status committed, the webhook row forgotten.
SettleSilently(p) ==
  /\ Consumer!Settle(p)
  /\ UNCHANGED <<api, outbox, dispatcher, restarts>>

\* Mutant of Settle: the row carries the status the payment was read with.
SettleStale(p) ==
  /\ Consumer!Arrived(p) /\ outcome[p] = "none"
  /\ outcome' = [outcome EXCEPT ![p] = "pending"]
  /\ Dispatcher!Queue(p)
  /\ UNCHANGED <<api, outbox, place, restarts>>

\* process commits the payment's outcome and its webhook row.
Settle(p) ==
  /\ Consumer!Settle(p)
  /\ Dispatcher!Queue(p)
  /\ UNCHANGED <<api, outbox, restarts>>

\* The delivery policy ends a message: acknowledged or dead-lettered.
Finish(m) ==
  /\ Consumer!Ack(m) \/ Consumer!DeadLetter(m)
  /\ UNCHANGED <<api, outbox, dispatcher, restarts>>

\* What the dispatchers do for a delivery before its status changes, and after.
Attempt(p) ==
  /\ Dispatcher!Request(p) \/ Dispatcher!Answer(p) \/ Dispatcher!Refuse(p)
  /\ UNCHANGED <<api, outbox, consumer, restarts>>

Conclude(p) ==
  /\ Dispatcher!Deliver(p) \/ Dispatcher!Fail(p)
  /\ UNCHANGED <<api, outbox, consumer, restarts>>

\* The broker restarts and forgets what publish handed it without persist; the
\* rows of the outbox are what they were.
BrokerRestart ==
  /\ restarts < MaxRestarts
  /\ restarts' = restarts + 1
  /\ Consumer!BrokerRestart
  /\ UNCHANGED <<api, outbox, dispatcher>>
-----------------------------------------------------------------------------
Step(p) ==
  \/ Ask(p) \/ Create(p) \/ Publish(p) \/ MarkPublished(p)
  \/ Settle(p) \/ Attempt(p) \/ Conclude(p)

Next ==
  \/ \E p \in Requests : Step(p)
  \/ \E m \in Messages : Finish(m)
  \/ BrokerRestart

\* No webhook row is pending whose attempts may raise.  Such a row is not settled,
\* however often it is taken up, and ends every batch before the rows behind it.
Unblocked == \A q \in Raising : hook[q] # "pending"

\* What the components were shown to do in the end: a pending event is sent, a queued
\* message is acknowledged or dead-lettered, and a pending webhook row is attempted
\* and settled, but only while there is no row that can raise (DeliverySettles).
Fairness ==
  /\ \A p \in Requests :
       WF_vars(Publish(p)) /\ WF_vars(Unblocked /\ (Attempt(p) \/ Conclude(p)))
  /\ \A m \in Messages : WF_vars(Finish(m))

Spec == Init /\ [][Next]_vars /\ Fairness
-----------------------------------------------------------------------------
About(p, where) == \E m \in Messages : PaymentOf[m] = p /\ place[m] = where

\* A payment that is still on its way, has its webhook row, or waits for an
\* operator in the dead-letter queue.
InGoodHands(p) ==
  event[p] = "pending" \/ About(p, "queued") \/ About(p, "dlq") \/ hook[p] # "absent"

\* Between any two commits, publishes and acknowledgements of the four components
\* somebody is responsible for each accepted payment: nobody's, it can only become
\* because the broker restarted while it held the payment's message.
OnlyRestartStrands == \A p \in registry : InGoodHands(p) \/ About(p, "lost")

\* An endpoint is only ever called about a payment that was accepted and has its
\* outcome, and an outcome is never recorded without the row that tells it.
WebhookFollowsOutcome ==
  \A p \in Requests :
    /\ posts[p] > 0 => p \in registry /\ hook[p] # "absent"
    /\ hook[p] # "absent" <=> outcome[p] # "none"

\* However often a client repeats a request, and however often the event of the
\* payment is published, the client is notified about one payment per key.
OneNotificationPerKey ==
  \A p, q \in Requests :
    posts[p] > 0 /\ posts[q] > 0 /\ asked[p] = asked[q] => p = q

Notified(p) == hook[p] \in {"delivered", "failed"}

\* An accepted payment, whether or not its client ever saw the 202, has its webhook
\* settled in the end, unless a message about it was dead-lettered or taken by a
\* restart of the broker, or some webhook row whose attempts raise stays pending: its
\* own, which is then never settled, or another's, which may starve it (OthersSettle).
AcceptedIsNotified ==
  <>[]Unblocked =>
    \A p \in Requests :
      []<>(p \in registry => Notified(p) \/ About(p, "dlq") \/ About(p, "lost"))

\* At-least-once at every stage (README, ADR 0001), and nothing lost in restarts:
\* an accepted payment is always in somebody's hands.
NothingStranded == \A p \in registry : InGoodHands(p)
=============================================================================
