--------------------------- MODULE PaymentConsumer ---------------------------
(***************************************************************************)
(* Consumers of the queue payments.new: delivery, PaymentProcessorService  *)
(* and the mapping of its failures to ack, nack and reject.                *)
(*                                                                         *)
(* A task is one run of handle_payment_new.  aio_pika starts a task per    *)
(* delivered message, up to prefetch_count unacknowledged ones on a        *)
(* channel, so every await of process is a point where the other tasks,    *)
(* of this consumer and of the others, run.  The tasks share PostgreSQL:   *)
(* an UPDATE locks the payment row and an INSERT ... ON CONFLICT the       *)
(* webhook_deliveries entry until the transaction ends.                    *)
(***************************************************************************)
EXTENDS FiniteSets, Naturals

CONSTANTS Payments,     \* the payments that exist
          Messages,     \* messages ever published, duplicates included
          PaymentOf,    \* the payment_id of a message
          Consumers,    \* consumer processes, each with one channel
          Tasks,        \* runs of the handler that can be active at once
          Owner,        \* the consumer a task belongs to
          NoMessage,    \* the message of an idle task
          Prefetch,     \* consumer_prefetch_count
          MaxAttempts,  \* consumer_max_attempts in the settings of a consumer
          MaxFaults     \* bound on database faults, lost connections, kills, restarts

ASSUME ConsumerAssumption ==
  /\ Owner \in [Tasks -> Consumers]
  /\ PaymentOf = [m \in Messages |-> PaymentOf[m]]
  /\ NoMessage \notin Messages
  /\ Prefetch \in Nat \ {0}
  /\ MaxAttempts \in [Consumers -> Nat \ {0}]
  /\ MaxFaults \in Nat

VARIABLES loc,         \* loc[m]: where the broker has message m
          stored,      \* stored[m]: x-retry-count in the broker's copy of m
          status,      \* status[p]: the committed payments.status
          webhooks,    \* the committed rows of webhook_deliveries
          pc,          \* pc[t]: what task t awaits
          msg,         \* msg[t]: its message
          raw,         \* raw[t]: x-retry-count in its copy of the message
          live,        \* live[t]: its channel is the one that delivered
          result,      \* result[t]: the status its payload carries
          wrote,       \* wrote[t]: it has updated the payment row
          added,       \* added[t]: it has inserted the webhook row
          failures,    \* failures[m]: exceptions the policy handled for m
          overlapped,  \* payments two tasks had open at the same time
          faults       \* faults and kills so far

broker == <<loc, stored>>
tables == <<status, webhooks>>
transaction == <<result, wrote, added>>
delivery == <<msg, raw, live>>
history == <<failures, overlapped, faults>>
vars == <<broker, tables, pc, delivery, transaction, history>>

Final == {"succeeded", "failed"}
Rows == [payment : Payments, status : Final]

\* Tasks whose transaction is open.
Open == {"gateway", "update", "enqueue", "commit"}
Ending == {"ack", "nack", "reject"}

TypeOK ==
  /\ loc \in [Messages -> {"absent", "ready", "unacked", "acked", "dlq", "lost"}]
  /\ stored \in [Messages -> Nat]
  /\ status \in [Payments -> Final \cup {"pending"}]
  /\ webhooks \subseteq Rows
  /\ pc \in [Tasks -> {"idle", "read"} \cup Open \cup Ending]
  /\ msg \in [Tasks -> Messages \cup {NoMessage}]
  /\ \A t \in Tasks : raw[t] \in 0..MaxAttempts[Owner[t]]
  /\ DOMAIN raw = Tasks
  /\ live \in [Tasks -> BOOLEAN]
  /\ result \in [Tasks -> Final \cup {"pending"}]
  /\ wrote \in [Tasks -> BOOLEAN]
  /\ added \in [Tasks -> BOOLEAN]
  /\ failures \in [Messages -> Nat]
  /\ overlapped \subseteq Payments
  /\ faults \in 0..MaxFaults

Init ==
  /\ loc = [m \in Messages |-> "absent"]
  /\ stored = [m \in Messages |-> 0]
  /\ status = [p \in Payments |-> "pending"]
  /\ webhooks = {}
  /\ pc = [t \in Tasks |-> "idle"]
  /\ msg = [t \in Tasks |-> NoMessage]
  /\ raw = [t \in Tasks |-> 0]
  /\ live = [t \in Tasks |-> FALSE]
  /\ result = [t \in Tasks |-> "pending"]
  /\ wrote = [t \in Tasks |-> FALSE]
  /\ added = [t \in Tasks |-> FALSE]
  /\ failures = [m \in Messages |-> 0]
  /\ overlapped = {}
  /\ faults = 0
-----------------------------------------------------------------------------
Goto(t, from, to) == pc[t] = from /\ pc' = [pc EXCEPT ![t] = to]
PaymentOfTask(t) == PaymentOf[msg[t]]
OthersOn(t) ==
  {u \in Tasks \ {t} : msg[u] # NoMessage /\ PaymentOfTask(u) = PaymentOfTask(t)}

\* The transaction of t is over, committed or rolled back.
CloseTransaction(t) ==
  /\ result' = [result EXCEPT ![t] = "pending"]
  /\ wrote' = [wrote EXCEPT ![t] = FALSE]
  /\ added' = [added EXCEPT ![t] = FALSE]

\* The outbox publisher hands a message to the exchange, which routes it to the
\* queue; a duplicate of it is a message of its own.
Publish(m) ==
  /\ loc[m] = "absent"
  /\ loc' = [loc EXCEPT ![m] = "ready"]
  /\ UNCHANGED <<stored, tables, pc, delivery, transaction, history>>

Unacknowledged(c) == {t \in Tasks : Owner[t] = c /\ live[t]}

Deliver(t) ==
  /\ Cardinality(Unacknowledged(Owner[t])) < Prefetch
  /\ Goto(t, "idle", "read")
  /\ \E m \in Messages :
       /\ loc[m] = "ready"
       /\ loc' = [loc EXCEPT ![m] = "unacked"]
       /\ msg' = [msg EXCEPT ![t] = m]
       /\ raw' = [raw EXCEPT ![t] = stored[m]]
  /\ live' = [live EXCEPT ![t] = TRUE]
  /\ UNCHANGED <<stored, tables, transaction, history>>

Overlaps(t) == \E u \in OthersOn(t) : pc[u] \in Open

\* SELECT without a lock: not found is poison, pending goes to the gateway,
\* anything else only gets its webhook row.
ReadNotFound(t) ==
  /\ Goto(t, "read", "reject")
  /\ PaymentOfTask(t) \notin Payments
  /\ UNCHANGED <<broker, tables, delivery, transaction, history>>

\* Mutant of Read: the payment's status is not looked at.
ReadUnchecked(t) ==
  /\ Goto(t, "read", "gateway")
  /\ PaymentOfTask(t) \in Payments
  /\ overlapped' = IF Overlaps(t) THEN overlapped \cup {PaymentOfTask(t)} ELSE overlapped
  /\ UNCHANGED <<broker, tables, delivery, transaction, failures, faults>>

\* Mutant of Read: the condition on the status inverted.
ReadInverted(t) ==
  /\ pc[t] = "read"
  /\ PaymentOfTask(t) \in Payments
  /\ LET s == status[PaymentOfTask(t)]
     IN  /\ Goto(t, "read", IF s = "pending" THEN "enqueue" ELSE "gateway")
         /\ result' = [result EXCEPT ![t] = s]
  /\ overlapped' = IF Overlaps(t) THEN overlapped \cup {PaymentOfTask(t)} ELSE overlapped
  /\ UNCHANGED <<broker, tables, delivery, wrote, added, failures, faults>>

Read(t) ==
  /\ pc[t] = "read"
  /\ PaymentOfTask(t) \in Payments
  /\ LET s == status[PaymentOfTask(t)]
     IN  /\ Goto(t, "read", IF s = "pending" THEN "gateway" ELSE "enqueue")
         /\ result' = [result EXCEPT ![t] = s]
  /\ overlapped' = IF Overlaps(t) THEN overlapped \cup {PaymentOfTask(t)} ELSE overlapped
  /\ UNCHANGED <<broker, tables, delivery, wrote, added, failures, faults>>

\* The gateway takes seconds; the transaction stays open, the row unlocked.
Gateway(t) ==
  /\ Goto(t, "gateway", "update")
  /\ \E s \in Final : result' = [result EXCEPT ![t] = s]
  /\ UNCHANGED <<broker, tables, delivery, wrote, added, history>>

\* UPDATE ... WHERE id = :id, whatever the status is by now.
Update(t) ==
  /\ Goto(t, "update", "enqueue")
  /\ \A u \in OthersOn(t) : ~wrote[u]
  /\ wrote' = [wrote EXCEPT ![t] = TRUE]
  /\ UNCHANGED <<broker, tables, delivery, result, added, history>>

HasWebhook(p) == \E row \in webhooks : row.payment = p

\* INSERT ... ON CONFLICT (payment_id) DO NOTHING: an uncommitted entry makes it
\* wait, a committed one makes it do nothing.
EnqueueWebhook(t) ==
  /\ Goto(t, "enqueue", "commit")
  /\ \A u \in OthersOn(t) : ~added[u]
  /\ added' = [added EXCEPT ![t] = ~HasWebhook(PaymentOfTask(t))]
  /\ UNCHANGED <<broker, tables, delivery, result, wrote, history>>

WriteStatus(t) ==
  status' = IF wrote[t] THEN [status EXCEPT ![PaymentOfTask(t)] = result[t]] ELSE status

\* Mutant of WriteWebhook: ON CONFLICT DO UPDATE for DO NOTHING.
WriteWebhookUpsert(t) ==
  webhooks' = {row \in webhooks : row.payment # PaymentOfTask(t)}
                \cup {[payment |-> PaymentOfTask(t), status |-> result[t]]}

WriteWebhook(t) ==
  webhooks' = IF added[t]
                THEN webhooks \cup {[payment |-> PaymentOfTask(t), status |-> result[t]]}
                ELSE webhooks

\* Mutant of Commit: the webhook row left out of the payment's transaction.
CommitStatusOnly(t) ==
  /\ Goto(t, "commit", "ack")
  /\ WriteStatus(t)
  /\ CloseTransaction(t)
  /\ UNCHANGED <<broker, webhooks, delivery, history>>

Commit(t) ==
  /\ Goto(t, "commit", "ack")
  /\ WriteStatus(t)
  /\ WriteWebhook(t)
  /\ CloseTransaction(t)
  /\ UNCHANGED <<broker, delivery, history>>

\* The broker answers only the channel that got the delivery: what a task of a
\* lost channel sends has no effect.
Finish(t, ending, to) ==
  /\ Goto(t, ending, "idle")
  /\ loc' = IF live[t] THEN [loc EXCEPT ![msg[t]] = to] ELSE loc
  /\ msg' = [msg EXCEPT ![t] = NoMessage]
  /\ raw' = [raw EXCEPT ![t] = 0]
  /\ live' = [live EXCEPT ![t] = FALSE]
  /\ UNCHANGED <<stored, tables, transaction, history>>

Ack(t) == Finish(t, "ack", "acked")

\* A requeue returns the message the broker stored, not the task's copy of it.
Nack(t) == Finish(t, "nack", "ready")

\* Mutant of Reject: rejected with requeue=True.
RejectRequeues(t) == Finish(t, "reject", "ready")

\* The queue's dead-letter arguments route a rejected message to the DLQ.
Reject(t) == Finish(t, "reject", "dlq")
-----------------------------------------------------------------------------
Fault == faults < MaxFaults /\ faults' = faults + 1

\* x-retry-count of the delivered copy; x-death is only there after a reject.
DeliveryCount(t) == raw[t]

\* Mutant of Policy: no case for an exception, the message is acknowledged.
PolicyAcks(t, from) ==
  /\ pc[t] = from
  /\ failures' = [failures EXCEPT ![msg[t]] = @ + 1]
  /\ Goto(t, from, "ack")
  /\ UNCHANGED raw

\* Mutant of Policy: the failure counted twice, the last attempt never made.
PolicyEarly(t, from) ==
  /\ pc[t] = from
  /\ failures' = [failures EXCEPT ![msg[t]] = @ + 1]
  /\ IF DeliveryCount(t) + 2 >= MaxAttempts[Owner[t]]
       THEN Goto(t, from, "reject") /\ UNCHANGED raw
       ELSE /\ Goto(t, from, "nack")
            /\ raw' = [raw EXCEPT ![t] = DeliveryCount(t) + 1]

\* _process_with_delivery_policy on an exception other than poison.
Policy(t, from) ==
  /\ pc[t] = from
  /\ failures' = [failures EXCEPT ![msg[t]] = @ + 1]
  /\ IF DeliveryCount(t) + 1 >= MaxAttempts[Owner[t]]
       THEN Goto(t, from, "reject") /\ UNCHANGED raw
       ELSE /\ Goto(t, from, "nack")
            /\ raw' = [raw EXCEPT ![t] = DeliveryCount(t) + 1]

\* A statement or the commit fails; leaving the session rolls back.
DatabaseError(t) ==
  /\ Fault
  /\ \E from \in {"read", "update", "enqueue", "commit"} : Policy(t, from)
  /\ CloseTransaction(t)
  /\ UNCHANGED <<broker, tables, msg, live, overlapped>>

\* The commit took effect, but its confirmation was lost.
CommitUnconfirmed(t) ==
  /\ Fault
  /\ Policy(t, "commit")
  /\ WriteStatus(t)
  /\ WriteWebhook(t)
  /\ CloseTransaction(t)
  /\ UNCHANGED <<broker, msg, live, overlapped>>

Requeued(c) == {msg[t] : t \in Unacknowledged(c)}

RequeueAll(c) == loc' = [m \in Messages |-> IF m \in Requeued(c) THEN "ready" ELSE loc[m]]

\* The broker drops the channel and requeues; the tasks run on, unaware.
ConnectionLost(c) ==
  /\ Fault
  /\ Unacknowledged(c) # {}
  /\ RequeueAll(c)
  /\ live' = [t \in Tasks |-> live[t] /\ Owner[t] # c]
  /\ UNCHANGED <<stored, tables, pc, msg, raw, transaction, failures, overlapped>>

\* The broker restarts: the queues are durable, the messages were published
\* without persist, so it forgets them; channels are gone, tasks run on.
BrokerRestart ==
  /\ Fault
  /\ loc' = [m \in Messages |->
       IF loc[m] \in {"ready", "unacked", "dlq"} THEN "lost" ELSE loc[m]]
  /\ live' = [t \in Tasks |-> FALSE]
  /\ UNCHANGED <<stored, tables, pc, msg, raw, transaction, failures, overlapped>>

Clear(f, c, value) == [t \in Tasks |-> IF Owner[t] = c THEN value ELSE f[t]]

\* The process is killed: its transactions roll back, its messages come back,
\* and a new process takes its place.
Kill(c) ==
  /\ Fault
  /\ RequeueAll(c)
  /\ pc' = Clear(pc, c, "idle")
  /\ msg' = Clear(msg, c, NoMessage)
  /\ raw' = Clear(raw, c, 0)
  /\ live' = Clear(live, c, FALSE)
  /\ result' = Clear(result, c, "pending")
  /\ wrote' = Clear(wrote, c, FALSE)
  /\ added' = Clear(added, c, FALSE)
  /\ UNCHANGED <<stored, tables, failures, overlapped>>
-----------------------------------------------------------------------------
Process(t) ==
  \/ ReadNotFound(t) \/ Read(t) \/ Gateway(t) \/ Update(t)
  \/ EnqueueWebhook(t) \/ Commit(t)
  \/ Ack(t) \/ Nack(t) \/ Reject(t)

Gone(m) == loc[m] \in {"acked", "dlq", "lost"}

\* Everything published was settled and no task is running.
Quiet ==
  /\ \A m \in Messages : Gone(m)
  /\ \A t \in Tasks : pc[t] = "idle"
  /\ UNCHANGED vars

Next ==
  \/ \E m \in Messages : Publish(m)
  \/ \E t \in Tasks : Deliver(t) \/ Process(t) \/ DatabaseError(t) \/ CommitUnconfirmed(t)
  \/ \E c \in Consumers : ConnectionLost(c) \/ Kill(c)
  \/ BrokerRestart
  \/ Quiet

\* Running tasks are scheduled, and the broker delivers while a consumer has
\* room (some consumer is running).
Fairness ==
  /\ \A t \in Tasks : WF_vars(Process(t))
  /\ WF_vars(\E t \in Tasks : Deliver(t))

Spec == Init /\ [][Next]_vars /\ Fairness
-----------------------------------------------------------------------------
\* A payment has left PENDING exactly when its webhook row exists, and there is
\* one such row, under every interleaving of duplicate messages and failures.
OneWebhookPerFinalPayment ==
  /\ \A p \in Payments : status[p] \in Final <=> HasWebhook(p)
  /\ \A x, y \in webhooks : x.payment = y.payment => x = y

\* A message leaves the broker for good only when its payment is final, so no
\* crash between delivery and ack loses a payment.
AckedIsProcessed ==
  \A m \in Messages : loc[m] = "acked" =>
    PaymentOf[m] \in Payments /\ status[PaymentOf[m]] \in Final

\* A message about an existing payment is only dead-lettered by a consumer that
\* gives up, after its own consumer_max_attempts failures: not after the lower limit
\* of another consumer, and not by a task that did not reject it.
DeadLetterIsEarned ==
  [][\A m \in Messages :
       loc'[m] = "dlq" /\ loc[m] # "dlq" /\ PaymentOf[m] \in Payments =>
         \E t \in Tasks : /\ pc[t] = "reject" /\ live[t] /\ msg[t] = m
                          /\ failures[m] >= MaxAttempts[Owner[t]]]_vars

\* While no two tasks have a payment open at the same time, the webhook the
\* client gets carries the status the payment has, however often the message is
\* delivered again.
OnlyOverlapDiverges ==
  \A row \in webhooks : row.payment \notin overlapped =>
    row.status = status[row.payment]

\* Every published message that no broker restart takes is eventually acknowledged
\* or dead-lettered once faults cease: no lock wait lasts, no delivery is forgotten.
MessagesSettle == \A m \in Messages : loc[m] # "absent" ~> Gone(m)

\* ADR 0004 and the README: a message is tried consumer_max_attempts times, then
\* goes to the dead-letter queue, without an endless loop of reprocessing.
RetriesAreBounded ==
  \A m \in Messages : \E c \in Consumers : failures[m] <= MaxAttempts[c]

\* The webhook notifies the client of the payment's result: the queued payload
\* carries the status the payment has.
WebhookTellsResult == \A row \in webhooks : row.status = status[row.payment]

\* What the broker has of a message and what the client is to be told.
Place(m) == IF loc[m] \in {"ready", "unacked"} THEN "queued" ELSE loc[m]
Outcome(p) ==
  IF HasWebhook(p) THEN (CHOOSE row \in webhooks : row.payment = p).status ELSE "none"

\* The promise of the consumer, without tasks.
Settlement == INSTANCE PaymentSettlement WITH
  place <- [m \in Messages |-> Place(m)], outcome <- [p \in Payments |-> Outcome(p)]

SettlementKept == Settlement!Spec
=============================================================================
