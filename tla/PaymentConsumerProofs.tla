------------------------ MODULE PaymentConsumerProofs ------------------------
(***************************************************************************)
(* Proofs about PaymentConsumer for any number of payments, messages,      *)
(* consumers and tasks, any prefetch, attempts and faults.                 *)
(*                                                                         *)
(* Which of two tasks of one payment commits first is open, so IInv says   *)
(* what every open transaction may rely on whatever the others commit: the *)
(* row locks exclude each other, the status is only ever left for a final  *)
(* one, and an entry of webhook_deliveries that is about to be added is    *)
(* not there yet.                                                          *)
(***************************************************************************)
EXTENDS PaymentConsumer, TLAPS

\* What task t is about: nothing exactly when it is idle, and then no channel
\* waits for it; a message the broker has seen otherwise.
Assigned(t) ==
  /\ msg[t] = NoMessage <=> pc[t] = "idle"
  /\ pc[t] = "idle" => ~live[t]
  /\ msg[t] # NoMessage => loc[msg[t]] # "absent"
  /\ pc[t] \in Open \cup {"ack"} => PaymentOf[msg[t]] \in Payments

\* Of a message that a channel still waits for the broker has not let go, and
\* one channel waits for it.
Unsettled ==
  /\ \A t \in Tasks : live[t] => loc[msg[t]] = "unacked"
  /\ \A t, u \in Tasks : live[t] /\ live[u] /\ msg[t] = msg[u] => t = u

\* What its transaction has done when task t gets to each await.
Written(t) ==
  /\ pc[t] \notin Open \/ pc[t] = "gateway" => result[t] = "pending"
  /\ pc[t] \in {"update", "enqueue", "commit"} => result[t] \in Final
  /\ wrote[t] => pc[t] \in {"enqueue", "commit"}
  /\ added[t] => pc[t] = "commit"

\* Row locks: no two transactions have written one payment, or inserted for one.
RowLocks ==
  \A t, u \in Tasks :
    /\ msg[t] # NoMessage /\ msg[u] # NoMessage /\ PaymentOfTask(t) = PaymentOfTask(u)
    /\ (wrote[t] /\ wrote[u]) \/ (added[t] /\ added[u])
    => t = u

\* What an open transaction relies on: without an UPDATE of its own the payment
\* is final already; its INSERT found no entry, or there is one.
Relies(t) ==
  /\ pc[t] \in {"enqueue", "commit"} /\ ~wrote[t] => status[PaymentOfTask(t)] \in Final
  /\ added[t] => ~HasWebhook(PaymentOfTask(t))
  /\ pc[t] = "commit" /\ ~added[t] => HasWebhook(PaymentOfTask(t))
  /\ pc[t] = "ack" => status[PaymentOfTask(t)] \in Final

\* No copy the broker has counts retries, and what a task counts has failed.
Counted ==
  /\ \A m \in Messages : stored[m] = 0
  /\ \A t \in Tasks : msg[t] # NoMessage => raw[t] <= failures[msg[t]]

\* Message m has failed as often as the consumer of task t allows.
Earned(m, t) == PaymentOf[m] \in Payments => failures[m] >= MaxAttempts[Owner[t]]

RejectIsEarned == \A t \in Tasks : pc[t] = "reject" => Earned(msg[t], t)

IInv ==
  /\ TypeOK
  /\ \A t \in Tasks : Assigned(t) /\ Written(t) /\ Relies(t)
  /\ Unsettled
  /\ RowLocks
  /\ Counted
  /\ RejectIsEarned
  /\ OneWebhookPerFinalPayment
  /\ AckedIsProcessed

\* A payment nobody else has had open is seen by its one transaction as it is.
SeenAsItIs(t) ==
  /\ \A u \in OthersOn(t) : pc[t] \in Open => pc[u] \notin Open
  /\ pc[t] \in {"gateway", "update"} \/ wrote[t] => status[PaymentOfTask(t)] = "pending"
  /\ pc[t] \in {"enqueue", "commit"} /\ ~wrote[t] => result[t] = status[PaymentOfTask(t)]

Alone ==
  \A t \in Tasks : pc[t] \in Open /\ PaymentOfTask(t) \notin overlapped => SeenAsItIs(t)

OverlapInv == OnlyOverlapDiverges /\ Alone
-----------------------------------------------------------------------------
\* The initial states satisfy the inductive invariant.
LEMMA InitIInv == Init => IInv
<1> SUFFICES ASSUME Init
             PROVE  IInv
  OBVIOUS
<1> USE ConsumerAssumption DEF Init
<1>1. TypeOK
  BY DEF TypeOK
<1>2. \A t \in Tasks : Assigned(t) /\ Written(t) /\ Relies(t)
  BY DEF Assigned, Written, Relies, Open
<1>3. Unsettled /\ RowLocks /\ Counted /\ RejectIsEarned
  BY DEF Unsettled, RowLocks, Counted, RejectIsEarned
<1>4. OneWebhookPerFinalPayment /\ AckedIsProcessed
  BY DEF OneWebhookPerFinalPayment, HasWebhook, Final, AckedIsProcessed
<1>5. QED
  BY <1>1, <1>2, <1>3, <1>4 DEF IInv

\* Types are preserved by every step.
LEMMA NextTypeOK == IInv /\ [Next]_vars => TypeOK'
<1> SUFFICES ASSUME IInv, [Next]_vars
             PROVE  TypeOK'
  OBVIOUS
<1> USE ConsumerAssumption DEF IInv, TypeOK, Open, Ending, Goto, broker, tables, transaction,
    delivery, history
<1>1. ASSUME NEW m \in Messages, Publish(m)
      PROVE  TypeOK'
  BY <1>1 DEF Publish
<1>2. ASSUME NEW t \in Tasks, Deliver(t)
      PROVE  TypeOK'
  BY <1>2 DEF Deliver, Counted
<1>3. ASSUME NEW t \in Tasks,
             ReadNotFound(t) \/ Read(t) \/ Gateway(t) \/ Update(t) \/ EnqueueWebhook(t)
      PROVE  TypeOK'
  <2>1. CASE ReadNotFound(t)
    BY <2>1 DEF ReadNotFound
  <2>2. CASE Read(t)
    <3>1. /\ pc' \in [Tasks -> {"idle", "read"} \cup Open \cup Ending]
          /\ result' \in [Tasks -> Final \cup {"pending"}]
          /\ overlapped' \subseteq Payments
      BY <2>2 DEF Read
    <3>2. QED
      BY <2>2, <3>1 DEF Read
  <2>3. CASE Gateway(t)
    BY <2>3 DEF Gateway
  <2>4. CASE Update(t)
    BY <2>4 DEF Update
  <2>5. CASE EnqueueWebhook(t)
    <3>1. (~HasWebhook(PaymentOfTask(t))) \in BOOLEAN
      OBVIOUS
    <3>2. added' \in [Tasks -> BOOLEAN]
      BY <2>5, <3>1 DEF EnqueueWebhook
    <3>3. QED
      BY <2>5, <3>2 DEF EnqueueWebhook
  <2>6. QED
    BY <1>3, <2>1, <2>2, <2>3, <2>4, <2>5
<1>4. ASSUME NEW t \in Tasks, Ack(t) \/ Nack(t) \/ Reject(t)
      PROVE  TypeOK'
  <2>1. PICK ending \in Ending, to \in {"acked", "ready", "dlq"} : Finish(t, ending, to)
    BY <1>4 DEF Ack, Nack, Reject
  <2>2. loc' \in [Messages -> {"absent", "ready", "unacked", "acked", "dlq", "lost"}]
    BY <2>1 DEF Finish
  <2>3. \A u \in Tasks : raw'[u] \in 0..MaxAttempts[Owner[u]]
    BY <2>1 DEF Finish
  <2>4. QED
    BY <2>1, <2>2, <2>3 DEF Finish
<1>5. ASSUME NEW t \in Tasks, NEW from \in {"read"} \cup Open, Policy(t, from)
      PROVE  /\ pc' \in [Tasks -> {"idle", "read"} \cup Open \cup Ending]
             /\ \A u \in Tasks : raw'[u] \in 0..MaxAttempts[Owner[u]]
             /\ DOMAIN raw' = Tasks
             /\ failures' \in [Messages -> Nat]
  <2>0. pc[t] = from
    BY <1>5 DEF Policy
  <2>1. raw[t] \in Nat /\ MaxAttempts[Owner[t]] \in Nat \ {0} /\ msg[t] \in Messages
    <3>1. MaxAttempts[Owner[t]] \in Nat \ {0} /\ raw[t] \in 0..MaxAttempts[Owner[t]]
      OBVIOUS
    <3>2. msg[t] \in Messages
      BY <2>0 DEF Assigned
    <3>3. QED
      BY <3>1, <3>2
  <2>2. failures' \in [Messages -> Nat]
    BY <2>1, <1>5 DEF Policy
  <2>3. QED
    BY <2>1, <2>2, <1>5 DEF Policy, DeliveryCount
<1>6. ASSUME NEW t \in Tasks, pc[t] = "commit", WriteStatus(t), WriteWebhook(t)
      PROVE  status' \in [Payments -> Final \cup {"pending"}] /\ webhooks' \subseteq Rows
  <2>1. PaymentOfTask(t) \in Payments /\ result[t] \in Final
    BY <1>6 DEF Assigned, Written, PaymentOfTask
  <2>2. QED
    BY <2>1, <1>6 DEF WriteStatus, WriteWebhook, Rows
<1>7. ASSUME NEW t \in Tasks, Commit(t)
      PROVE  TypeOK'
  BY <1>6, <1>7 DEF Commit, CloseTransaction
<1>8. ASSUME NEW t \in Tasks, DatabaseError(t)
      PROVE  TypeOK'
  BY <1>5, <1>8 DEF DatabaseError, CloseTransaction, Fault
<1>9. ASSUME NEW t \in Tasks, CommitUnconfirmed(t)
      PROVE  TypeOK'
  <2>1. pc[t] = "commit"
    BY <1>9 DEF CommitUnconfirmed, Policy
  <2>2. QED
    BY <1>5, <1>6, <1>9, <2>1 DEF CommitUnconfirmed, CloseTransaction, Fault
<1>10. ASSUME NEW c \in Consumers, ConnectionLost(c)
       PROVE  TypeOK'
  BY <1>10 DEF ConnectionLost, RequeueAll, Fault
<1>11. ASSUME NEW c \in Consumers, Kill(c)
       PROVE  TypeOK'
  <2>1. loc' \in [Messages -> {"absent", "ready", "unacked", "acked", "dlq", "lost"}]
    BY <1>11 DEF Kill, RequeueAll
  <2>2. /\ pc' \in [Tasks -> {"idle", "read"} \cup Open \cup Ending]
        /\ msg' \in [Tasks -> Messages \cup {NoMessage}]
    BY <1>11 DEF Kill, Clear
  <2>3. (\A t \in Tasks : raw'[t] \in 0..MaxAttempts[Owner[t]]) /\ DOMAIN raw' = Tasks
    BY <1>11 DEF Kill, Clear
  <2>4. /\ live' \in [Tasks -> BOOLEAN]
        /\ wrote' \in [Tasks -> BOOLEAN]
        /\ added' \in [Tasks -> BOOLEAN]
        /\ result' \in [Tasks -> Final \cup {"pending"}]
    BY <1>11 DEF Kill, Clear
  <2>5. faults' \in 0..MaxFaults /\ UNCHANGED <<stored, status, webhooks, failures, overlapped>>
    BY <1>11 DEF Kill, Fault
  <2>6. QED
    BY <2>1, <2>2, <2>3, <2>4, <2>5
<1>12. ASSUME BrokerRestart
       PROVE  TypeOK'
  BY <1>12 DEF BrokerRestart, Fault
<1>13. CASE UNCHANGED vars
  BY <1>13 DEF vars
<1>14. QED
  BY <1>1, <1>2, <1>3, <1>4, <1>7, <1>8, <1>9, <1>10, <1>11, <1>12, <1>13
  DEF Next, Process, Quiet

\* A requeue moves what the lost channels held, and no message of another one.
LEMMA RequeueMoves ==
  ASSUME IInv, NEW c \in Consumers, RequeueAll(c)
  PROVE  /\ \A m \in Messages : loc'[m] # loc[m] => loc[m] = "unacked" /\ loc'[m] = "ready"
         /\ \A t \in Tasks : live[t] /\ Owner[t] # c => loc'[msg[t]] = "unacked"
<1> USE DEF IInv, TypeOK, Unsettled, RequeueAll, Requeued, Unacknowledged
<1>1. ASSUME NEW m \in Messages, loc'[m] # loc[m]
      PROVE  loc[m] = "unacked" /\ loc'[m] = "ready"
  <2>1. PICK t \in Tasks : live[t] /\ msg[t] = m
    BY <1>1
  <2>2. QED
    BY <1>1, <2>1
<1>2. ASSUME NEW t \in Tasks, live[t], Owner[t] # c
      PROVE  loc'[msg[t]] = "unacked"
  <2>1. msg[t] \in Messages /\ loc[msg[t]] = "unacked"
    BY <1>2 DEF Assigned
  <2>2. msg[t] \notin Requeued(c)
    BY <1>2
  <2>3. QED
    BY <2>1, <2>2
<1>3. QED
  BY <1>1, <1>2

\* Every step keeps tasks, channels and messages together.
LEMMA NextAssigned == IInv /\ [Next]_vars => (\A t \in Tasks : Assigned(t))' /\ Unsettled'
<1> SUFFICES ASSUME IInv, [Next]_vars
             PROVE  (\A t \in Tasks : Assigned(t))' /\ Unsettled'
  OBVIOUS
<1> DEFINE Goal == (\A t \in Tasks : Assigned(t))' /\ Unsettled'
<1> USE ConsumerAssumption DEF IInv, TypeOK, Open, Goto, Unsettled, broker, tables,
    transaction, delivery, history
<1>1. ASSUME NEW m \in Messages, Publish(m)
      PROVE  Goal
  BY <1>1 DEF Publish, Assigned
<1>2. ASSUME NEW t \in Tasks, Deliver(t)
      PROVE  Goal
  <2>1. PICK m \in Messages : /\ loc[m] = "ready"
                              /\ loc' = [loc EXCEPT ![m] = "unacked"]
                              /\ msg' = [msg EXCEPT ![t] = m]
    BY <1>2 DEF Deliver
  <2>2. /\ pc[t] = "idle" /\ pc' = [pc EXCEPT ![t] = "read"]
        /\ live' = [live EXCEPT ![t] = TRUE]
    BY <1>2 DEF Deliver
  <2>3. \A u \in Tasks : live[u] => msg[u] # m
    BY <2>1
  <2>4. ASSUME NEW u \in Tasks
        PROVE  Assigned(u)'
    <3>1. CASE u = t
      BY <2>1, <2>2, <3>1 DEF Assigned
    <3>2. CASE u # t
      <4>1. Assigned(u)
        OBVIOUS
      <4>2. QED
        BY <2>1, <2>2, <3>2, <4>1 DEF Assigned
    <3>3. QED
      BY <3>1, <3>2
  <2>5. QED
    BY <2>1, <2>2, <2>3, <2>4
<1>3. ASSUME NEW t \in Tasks, pc[t] \in {"read"} \cup Open,
             pc' = [pc EXCEPT ![t] = pc'[t]], pc'[t] \notin {"idle"},
             pc'[t] \in Open \cup {"ack"} => PaymentOf[msg[t]] \in Payments,
             UNCHANGED <<loc, msg, live>>
      PROVE  Goal
  BY <1>3 DEF Assigned
<1>4. ASSUME NEW t \in Tasks,
             \/ ReadNotFound(t) \/ Read(t) \/ Gateway(t) \/ Update(t)
             \/ EnqueueWebhook(t) \/ Commit(t) \/ DatabaseError(t) \/ CommitUnconfirmed(t)
      PROVE  Goal
  <2>1. /\ pc[t] \in {"read"} \cup Open
        /\ pc' = [pc EXCEPT ![t] = pc'[t]] /\ pc'[t] # "idle"
        /\ pc'[t] \in Open \cup {"ack"} => pc[t] \in Open \/ PaymentOfTask(t) \in Payments
        /\ UNCHANGED <<loc, msg, live>>
    BY <1>4 DEF ReadNotFound, Read, Gateway, Update, EnqueueWebhook, Commit, DatabaseError,
       CommitUnconfirmed, Policy
  <2>2. QED
    BY <1>3, <2>1 DEF Assigned, PaymentOfTask
<1>5. ASSUME NEW t \in Tasks, Ack(t) \/ Nack(t) \/ Reject(t)
      PROVE  Goal
  <2>1. PICK ending \in Ending, to \in {"acked", "ready", "dlq"} : Finish(t, ending, to)
    BY <1>5 DEF Ack, Nack, Reject, Ending
  <2>2. /\ msg[t] \in Messages /\ ~live'[t]
        /\ pc'[t] = "idle" /\ msg'[t] = NoMessage
        /\ \A u \in Tasks \ {t} : pc'[u] = pc[u] /\ msg'[u] = msg[u] /\ live'[u] = live[u]
    BY <2>1 DEF Finish, Assigned, Ending
  <2>3. /\ \A m \in Messages : loc'[m] # loc[m] => m = msg[t] /\ loc'[m] = to
        /\ \A u \in Tasks : live[u] /\ u # t => loc'[msg[u]] = loc[msg[u]]
    BY <2>1, <2>2 DEF Finish, Assigned
  <2>4. ASSUME NEW u \in Tasks
        PROVE  Assigned(u)'
    <3>1. Assigned(u)
      OBVIOUS
    <3>2. QED
      BY <2>2, <2>3, <3>1 DEF Assigned
  <2>5. Unsettled'
    BY <2>2, <2>3
  <2>6. QED
    BY <2>4, <2>5
<1>6. ASSUME NEW c \in Consumers, ConnectionLost(c)
      PROVE  Goal
  <2>1. /\ RequeueAll(c)
        /\ \A t \in Tasks : live'[t] <=> live[t] /\ Owner[t] # c
        /\ UNCHANGED <<pc, msg>>
    BY <1>6 DEF ConnectionLost
  <2>2. ASSUME NEW t \in Tasks
        PROVE  Assigned(t)'
    <3>1. Assigned(t)
      OBVIOUS
    <3>2. msg[t] \in Messages => loc'[msg[t]] = loc[msg[t]] \/ loc'[msg[t]] = "ready"
      BY <2>1, RequeueMoves
    <3>3. QED
      BY <2>1, <3>1, <3>2 DEF Assigned
  <2>3. Unsettled'
    BY <2>1, RequeueMoves
  <2>4. QED
    BY <2>2, <2>3
<1>7. ASSUME NEW c \in Consumers, Kill(c)
      PROVE  Goal
  <2>1. /\ RequeueAll(c)
        /\ \A t \in Tasks : Owner[t] = c => pc'[t] = "idle" /\ msg'[t] = NoMessage /\ ~live'[t]
        /\ \A t \in Tasks : Owner[t] # c =>
             pc'[t] = pc[t] /\ msg'[t] = msg[t] /\ live'[t] = live[t]
    BY <1>7 DEF Kill, Clear
  <2>2. ASSUME NEW t \in Tasks
        PROVE  Assigned(t)'
    <3>1. Assigned(t)
      OBVIOUS
    <3>2. msg[t] \in Messages => loc'[msg[t]] = loc[msg[t]] \/ loc'[msg[t]] = "ready"
      BY <2>1, RequeueMoves
    <3>3. QED
      BY <2>1, <3>1, <3>2 DEF Assigned
  <2>3. Unsettled'
    BY <2>1, RequeueMoves
  <2>4. QED
    BY <2>2, <2>3
<1>8. ASSUME BrokerRestart
      PROVE  Goal
  BY <1>8 DEF BrokerRestart, Assigned
<1>9. CASE UNCHANGED vars
  BY <1>9 DEF vars, Assigned
<1>10. QED
  BY <1>1, <1>2, <1>4, <1>5, <1>6, <1>7, <1>8, <1>9 DEF Next, Process, Quiet
-----------------------------------------------------------------------------
\* What a commit leaves behind: the payment of the task is final and has its one
\* webhook row, which was added by this task if it is new.
LEMMA CommitEffect ==
  ASSUME IInv, NEW t \in Tasks, pc[t] = "commit", WriteStatus(t), WriteWebhook(t),
         NEW p, p = PaymentOfTask(t)
  PROVE  /\ p \in Payments /\ status'[p] \in Final /\ HasWebhook(p)'
         /\ \A q \in Payments : status[q] \in Final => status'[q] \in Final
         /\ \A q : HasWebhook(q) => HasWebhook(q)'
         /\ \A q : HasWebhook(q)' => HasWebhook(q) \/ (q = p /\ added[t])
         /\ OneWebhookPerFinalPayment'
<1> USE DEF IInv, TypeOK
<1>1. p \in Payments /\ result[t] \in Final /\ pc[t] # "idle"
  BY DEF Assigned, Written, PaymentOfTask, Open
<1>2. /\ \A q \in Payments : status'[q] = IF wrote[t] /\ q = p THEN result[t] ELSE status[q]
      /\ ~wrote[t] => status[p] \in Final
  BY <1>1 DEF WriteStatus, Relies
<1>3. status'[p] \in Final /\ \A q \in Payments : status[q] \in Final => status'[q] \in Final
  BY <1>1, <1>2
<1>4. CASE added[t]
  <2>1. webhooks' = webhooks \cup {[payment |-> p, status |-> result[t]]}
    BY <1>4 DEF WriteWebhook
  <2>2. ~HasWebhook(p)
    BY <1>4 DEF Relies
  <2>3. /\ HasWebhook(p)'
        /\ \A q : HasWebhook(q) => HasWebhook(q)'
        /\ \A q : HasWebhook(q)' => HasWebhook(q) \/ q = p
    <3>1. \A x : x \in webhooks' <=> x \in webhooks \/ x = [payment |-> p, status |-> result[t]]
      BY <2>1
    <3>2. HasWebhook(p)'
      <4>1. [payment |-> p, status |-> result[t]] \in webhooks'
        BY <3>1
      <4>2. QED
        BY <4>1 DEF HasWebhook
    <3>5. \A q : HasWebhook(q) => HasWebhook(q)'
      BY <3>1 DEF HasWebhook
    <3>3. ASSUME NEW q, HasWebhook(q)', q # p
          PROVE  HasWebhook(q)
      BY <3>1, <3>3 DEF HasWebhook
    <3>4. QED
      BY <3>2, <3>3, <3>5
  <2>4. \A x, y \in webhooks' : x.payment = y.payment => x = y
    BY <2>1, <2>2 DEF HasWebhook, OneWebhookPerFinalPayment
  <2>5. \A q \in Payments : status'[q] \in Final <=> HasWebhook(q)'
    <3> SUFFICES ASSUME NEW q \in Payments
                 PROVE  status'[q] \in Final <=> HasWebhook(q)'
      OBVIOUS
    <3>1. CASE q = p
      BY <1>3, <2>3, <3>1
    <3>2. CASE q # p
      <4>1. status[q] \in Final <=> HasWebhook(q)
        BY DEF OneWebhookPerFinalPayment
      <4>2. QED
        BY <1>2, <2>3, <3>2, <4>1
    <3>3. QED
      BY <3>1, <3>2
  <2>6. OneWebhookPerFinalPayment'
    BY <2>4, <2>5 DEF OneWebhookPerFinalPayment
  <2>7. QED
    BY <1>1, <1>3, <1>4, <2>3, <2>6
<1>5. CASE ~added[t]
  <2>1. webhooks' = webhooks
    BY <1>5 DEF WriteWebhook
  <2>2. HasWebhook(p)
    BY <1>5 DEF Relies
  <2>3. \A q : HasWebhook(q)' <=> HasWebhook(q)
    BY <2>1 DEF HasWebhook
  <2>4. \A q \in Payments : status'[q] \in Final <=> HasWebhook(q)'
    <3> SUFFICES ASSUME NEW q \in Payments
                 PROVE  status'[q] \in Final <=> HasWebhook(q)'
      OBVIOUS
    <3>1. status[q] \in Final <=> HasWebhook(q)
      BY DEF OneWebhookPerFinalPayment
    <3>2. QED
      BY <1>2, <1>3, <2>2, <2>3, <3>1
  <2>5. OneWebhookPerFinalPayment'
    BY <2>1, <2>4 DEF OneWebhookPerFinalPayment
  <2>6. HasWebhook(p)'
    BY <2>2, <2>3
  <2>7. QED
    BY <1>1, <1>3, <2>3, <2>5, <2>6
<1>6. QED
  BY <1>4, <1>5

\* Every step keeps what transactions rely on, whatever the others commit.
LEMMA NextTransactions ==
  IInv /\ [Next]_vars =>
    (\A t \in Tasks : Written(t) /\ Relies(t))' /\ RowLocks' /\ OneWebhookPerFinalPayment'
<1> SUFFICES ASSUME IInv, [Next]_vars
             PROVE  (\A t \in Tasks : Written(t) /\ Relies(t))' /\ RowLocks'
                      /\ OneWebhookPerFinalPayment'
  OBVIOUS
<1> DEFINE Goal == (\A t \in Tasks : Written(t) /\ Relies(t))' /\ RowLocks'
                     /\ OneWebhookPerFinalPayment'
           Same(u) == /\ pc'[u] = pc[u] /\ msg'[u] = msg[u] /\ result'[u] = result[u]
                      /\ wrote'[u] = wrote[u] /\ added'[u] = added[u]
           Quits(u) == /\ pc'[u] \notin Open \cup {"ack"}
                       /\ result'[u] = "pending" /\ ~wrote'[u] /\ ~added'[u]
<1> USE ConsumerAssumption DEF IInv, TypeOK, Goto, broker, tables, transaction, delivery, history
\* Steps after which every task is as it was or is out of its transaction.
<1>1. ASSUME UNCHANGED tables, \A u \in Tasks : Same(u) \/ Quits(u)
      PROVE  Goal
  <2>1. UNCHANGED <<status, webhooks>> /\ \A q : HasWebhook(q)' <=> HasWebhook(q)
    BY <1>1 DEF HasWebhook
  <2>2. ASSUME NEW u \in Tasks
        PROVE  (Written(u) /\ Relies(u))'
    BY <1>1, <2>1, <2>2 DEF Written, Relies, PaymentOfTask, Open
  <2>3. RowLocks'
    <3> SUFFICES ASSUME NEW u \in Tasks, NEW v \in Tasks,
                        msg'[u] # NoMessage, msg'[v] # NoMessage,
                        PaymentOf[msg'[u]] = PaymentOf[msg'[v]],
                        (wrote'[u] /\ wrote'[v]) \/ (added'[u] /\ added'[v])
                 PROVE  u = v
      BY DEF RowLocks, PaymentOfTask
    <3>1. Same(u) /\ Same(v)
      BY <1>1
    <3>2. QED
      BY <3>1 DEF RowLocks, PaymentOfTask
  <2>4. OneWebhookPerFinalPayment'
    BY <2>1 DEF OneWebhookPerFinalPayment
  <2>5. QED
    BY <2>2, <2>3, <2>4
\* A commit, whatever task t makes of it.
<1>2. ASSUME NEW t \in Tasks, pc[t] = "commit", WriteStatus(t), WriteWebhook(t),
             CloseTransaction(t), UNCHANGED msg,
             pc' = [pc EXCEPT ![t] = pc'[t]], pc'[t] \in Ending
      PROVE  Goal
  <2>0. PICK p : p = PaymentOfTask(t)
    OBVIOUS
  <2>1. /\ p \in Payments /\ status'[p] \in Final /\ HasWebhook(p)'
        /\ \A q \in Payments : status[q] \in Final => status'[q] \in Final
        /\ \A q : HasWebhook(q) => HasWebhook(q)'
        /\ \A q : HasWebhook(q)' => HasWebhook(q) \/ (q = p /\ added[t])
        /\ OneWebhookPerFinalPayment'
    BY <1>2, <2>0, CommitEffect
  <2>2. /\ pc'[t] \in Ending /\ result'[t] = "pending" /\ ~wrote'[t] /\ ~added'[t]
        /\ \A u \in Tasks \ {t} : Same(u)
    BY <1>2 DEF CloseTransaction
  <2>3. ASSUME NEW u \in Tasks
        PROVE  (Written(u) /\ Relies(u))'
    <3>1. CASE u = t
      BY <1>2, <2>0, <2>1, <2>2, <3>1 DEF Written, Relies, PaymentOfTask, Open, Ending
    <3>2. CASE u # t
      <4>1. Same(u) /\ Written(u) /\ Relies(u) /\ PaymentOfTask(u)' = PaymentOfTask(u)
        BY <1>2, <2>2, <3>2 DEF PaymentOfTask
      <4>2. pc[u] \in Open \cup {"ack"} => PaymentOfTask(u) \in Payments
        BY DEF Assigned, PaymentOfTask
      <4>3. added[u] => ~(PaymentOfTask(u) = p /\ added[t])
        BY <1>2, <2>0, <3>2 DEF RowLocks, Assigned, Written
      <4>4. QED
        BY <2>1, <4>1, <4>2, <4>3 DEF Written, Relies, Open
    <3>3. QED
      BY <3>1, <3>2
  <2>4. RowLocks'
    <3> SUFFICES ASSUME NEW u \in Tasks, NEW v \in Tasks,
                        msg'[u] # NoMessage, msg'[v] # NoMessage,
                        PaymentOf[msg'[u]] = PaymentOf[msg'[v]],
                        (wrote'[u] /\ wrote'[v]) \/ (added'[u] /\ added'[v])
                 PROVE  u = v
      BY DEF RowLocks, PaymentOfTask
    <3>1. Same(u) /\ Same(v)
      BY <2>2
    <3>2. /\ msg[u] # NoMessage /\ msg[v] # NoMessage /\ PaymentOf[msg[u]] = PaymentOf[msg[v]]
          /\ (wrote[u] /\ wrote[v]) \/ (added[u] /\ added[v])
      BY <3>1
    <3>3. QED
      BY <3>2 DEF RowLocks, PaymentOfTask
  <2>5. QED
    BY <2>1, <2>3, <2>4
\* A step inside the transaction of task t.
<1>3. ASSUME NEW t \in Tasks, UNCHANGED <<tables, msg>>, pc[t] # "idle",
             \A u \in Tasks \ {t} : Same(u), Written(t)', Relies(t)',
             wrote'[t] => wrote[t] \/ \A u \in OthersOn(t) : ~wrote[u],
             added'[t] => added[t] \/ \A u \in OthersOn(t) : ~added[u]
      PROVE  Goal
  <2>1. /\ \A u \in Tasks : PaymentOfTask(u)' = PaymentOfTask(u)
        /\ \A q : HasWebhook(q)' <=> HasWebhook(q)
    BY <1>3 DEF HasWebhook, PaymentOfTask
  <2>2. ASSUME NEW u \in Tasks
        PROVE  (Written(u) /\ Relies(u))'
    <3>1. CASE u = t
      BY <1>3, <3>1
    <3>2. CASE u # t
      <4>1. Same(u) /\ Written(u) /\ Relies(u)
        BY <1>3, <3>2
      <4>2. QED
        BY <1>3, <2>1, <4>1 DEF Written, Relies
    <3>3. QED
      BY <3>1, <3>2
  <2>3. RowLocks'
    <3> SUFFICES ASSUME NEW u \in Tasks, NEW v \in Tasks, u # v,
                        msg[u] # NoMessage, msg[v] # NoMessage,
                        PaymentOfTask(u) = PaymentOfTask(v)
                 PROVE  ~(wrote'[u] /\ wrote'[v]) /\ ~(added'[u] /\ added'[v])
      BY <1>3, <2>1 DEF RowLocks
    <3>1. ~(wrote[u] /\ wrote[v]) /\ ~(added[u] /\ added[v])
      BY DEF RowLocks
    <3>2. CASE u = t
      BY <1>3, <3>1, <3>2 DEF OthersOn
    <3>3. CASE v = t
      BY <1>3, <3>1, <3>3 DEF OthersOn
    <3>4. CASE u # t /\ v # t
      BY <1>3, <3>1, <3>4
    <3>5. QED
      BY <3>2, <3>3, <3>4
  <2>4. OneWebhookPerFinalPayment'
    BY <1>3, <2>1 DEF OneWebhookPerFinalPayment
  <2>5. QED
    BY <2>2, <2>3, <2>4
<1>4. ASSUME NEW m \in Messages, Publish(m)
      PROVE  Goal
  BY <1>1, <1>4 DEF Publish
<1>5. ASSUME NEW t \in Tasks, Deliver(t) \/ ReadNotFound(t) \/ Ack(t) \/ Nack(t) \/ Reject(t)
      PROVE  Goal
  <2>1. Quits(t) /\ (\A u \in Tasks \ {t} : Same(u)) /\ UNCHANGED tables
    <3>1. Written(t)
      OBVIOUS
    <3>2. QED
      BY <1>5, <3>1 DEF Deliver, ReadNotFound, Ack, Nack, Reject, Finish, Written, Open
  <2>2. QED
    BY <1>1, <2>1
<1>6. ASSUME NEW t \in Tasks, Read(t)
      PROVE  Goal
  <2>1. /\ pc[t] = "read" /\ UNCHANGED <<tables, msg, wrote, added>>
        /\ pc'[t] = IF status[PaymentOfTask(t)] = "pending" THEN "gateway" ELSE "enqueue"
        /\ result'[t] = status[PaymentOfTask(t)] /\ PaymentOfTask(t) \in Payments
        /\ \A u \in Tasks \ {t} : Same(u)
    BY <1>6 DEF Read
  <2>2. Written(t) /\ status[PaymentOfTask(t)] \in Final \cup {"pending"}
    BY <2>1
  <2>3. Written(t)' /\ Relies(t)'
    BY <2>1, <2>2 DEF Written, Relies, Open, PaymentOfTask
  <2>4. QED
    BY <1>3, <2>1, <2>3
<1>7. ASSUME NEW t \in Tasks, Gateway(t)
      PROVE  Goal
  <2>1. /\ pc[t] = "gateway" /\ pc'[t] = "update" /\ UNCHANGED <<tables, msg, wrote, added>>
        /\ result'[t] \in Final
        /\ \A u \in Tasks \ {t} : Same(u)
    BY <1>7 DEF Gateway
  <2>2. Written(t)
    OBVIOUS
  <2>3. Written(t)' /\ Relies(t)'
    BY <2>1, <2>2 DEF Written, Relies, Open
  <2>4. QED
    BY <1>3, <2>1, <2>3
<1>8. ASSUME NEW t \in Tasks, Update(t)
      PROVE  Goal
  <2>1. /\ pc[t] = "update" /\ pc'[t] = "enqueue" /\ UNCHANGED <<tables, msg, result, added>>
        /\ wrote'[t] /\ \A u \in OthersOn(t) : ~wrote[u]
        /\ \A u \in Tasks \ {t} : Same(u)
    BY <1>8 DEF Update
  <2>2. Written(t)
    OBVIOUS
  <2>3. Written(t)' /\ Relies(t)'
    BY <2>1, <2>2 DEF Written, Relies, Open
  <2>4. QED
    BY <1>3, <2>1, <2>3
<1>9. ASSUME NEW t \in Tasks, EnqueueWebhook(t)
      PROVE  Goal
  <2>1. /\ pc[t] = "enqueue" /\ pc'[t] = "commit" /\ UNCHANGED <<tables, msg, result, wrote>>
        /\ added'[t] <=> ~HasWebhook(PaymentOfTask(t))
        /\ \A u \in OthersOn(t) : ~added[u]
        /\ \A u \in Tasks \ {t} : Same(u)
    BY <1>9 DEF EnqueueWebhook
  <2>2. Written(t) /\ Relies(t) /\ PaymentOfTask(t)' = PaymentOfTask(t)
    BY <2>1 DEF PaymentOfTask
  <2>3. HasWebhook(PaymentOfTask(t))' <=> HasWebhook(PaymentOfTask(t))
    BY <2>1, <2>2 DEF HasWebhook
  <2>4. Written(t)' /\ Relies(t)'
    BY <2>1, <2>2, <2>3 DEF Written, Relies, Open
  <2>5. QED
    BY <1>3, <2>1, <2>4
<1>10. ASSUME NEW t \in Tasks, Commit(t) \/ CommitUnconfirmed(t)
       PROVE  Goal
  <2>1. pc[t] = "commit" /\ pc' = [pc EXCEPT ![t] = pc'[t]] /\ pc'[t] \in Ending
    BY <1>10 DEF Commit, CommitUnconfirmed, Policy, Ending
  <2>2. QED
    BY <1>2, <1>10, <2>1 DEF Commit, CommitUnconfirmed
<1>11. ASSUME NEW t \in Tasks, DatabaseError(t)
       PROVE  Goal
  <2>1. Quits(t) /\ (\A u \in Tasks \ {t} : Same(u)) /\ UNCHANGED tables
    BY <1>11 DEF DatabaseError, Policy, CloseTransaction, Open
  <2>2. QED
    BY <1>1, <2>1
<1>12. ASSUME NEW c \in Consumers, ConnectionLost(c)
       PROVE  Goal
  BY <1>1, <1>12 DEF ConnectionLost
<1>13. ASSUME NEW c \in Consumers, Kill(c)
       PROVE  Goal
  <2>1. UNCHANGED tables /\ \A u \in Tasks : Same(u) \/ Quits(u)
    BY <1>13 DEF Kill, Clear, Open
  <2>2. QED
    BY <1>1, <2>1
<1>14. ASSUME BrokerRestart
       PROVE  Goal
  BY <1>1, <1>14 DEF BrokerRestart
<1>15. CASE UNCHANGED vars
  BY <1>1, <1>15 DEF vars
<1>16. QED
  BY <1>4, <1>5, <1>6, <1>7, <1>8, <1>9, <1>10, <1>11, <1>12, <1>13, <1>14, <1>15
  DEF Next, Process, Quiet

\* A payment never leaves the final statuses.
LEMMA FinalStaysFinal ==
  IInv /\ [Next]_vars => \A p \in Payments : status[p] \in Final => status'[p] \in Final
<1> SUFFICES ASSUME IInv, [Next]_vars, NEW p \in Payments, status[p] \in Final
             PROVE  status'[p] \in Final
  OBVIOUS
<1>1. CASE UNCHANGED status
  BY <1>1
<1>2. ASSUME NEW t \in Tasks, Commit(t) \/ CommitUnconfirmed(t)
      PROVE  status'[p] \in Final
  <2>1. pc[t] = "commit" /\ WriteStatus(t) /\ WriteWebhook(t)
    BY <1>2 DEF Commit, CommitUnconfirmed, Policy, Goto
  <2>2. PICK q : q = PaymentOfTask(t)
    OBVIOUS
  <2>3. QED
    BY <2>1, <2>2, CommitEffect
<1>3. UNCHANGED status \/ \E t \in Tasks : Commit(t) \/ CommitUnconfirmed(t)
  BY DEF Next, Process, Publish, Deliver, ReadNotFound, Read, Gateway, Update, EnqueueWebhook,
     Ack, Nack, Reject, Finish, DatabaseError, ConnectionLost, Kill, BrokerRestart, Quiet,
     vars, tables
<1>4. QED
  BY <1>1, <1>2, <1>3

\* Every step keeps the accounts of failures and what has left the broker.
LEMMA NextAccounts ==
  IInv /\ [Next]_vars => Counted' /\ RejectIsEarned' /\ AckedIsProcessed'
<1> SUFFICES ASSUME IInv, [Next]_vars
             PROVE  Counted' /\ RejectIsEarned' /\ AckedIsProcessed'
  OBVIOUS
<1> DEFINE Goal == Counted' /\ RejectIsEarned' /\ AckedIsProcessed'
           SameTask(u) == pc'[u] = pc[u] /\ msg'[u] = msg[u] /\ raw'[u] = raw[u]
           Idles(u) == pc'[u] = "idle" /\ msg'[u] = NoMessage
           Moves(m) == loc'[m] # loc[m] => loc'[m] \in {"ready", "unacked", "lost"}
           More == failures' \in [Messages -> Nat] /\ \A m \in Messages : failures'[m] >= failures[m]
<1> USE ConsumerAssumption DEF IInv, TypeOK, Goto, broker, tables, transaction, delivery, history
<1>0. \A u \in Tasks : pc'[u] = "reject" => msg'[u] \in Messages
  <2>1. TypeOK' /\ \A u \in Tasks : Assigned(u)'
    BY NextTypeOK, NextAssigned
  <2>2. \A u \in Tasks : msg'[u] \in Messages \cup {NoMessage}
    BY <2>1
  <2>3. \A u \in Tasks : msg'[u] = NoMessage => pc'[u] = "idle"
    BY <2>1 DEF Assigned
  <2>4. QED
    BY <2>2, <2>3
\* What is earned stays earned, so it is enough to look at what a step moves.
<1>1. ASSUME UNCHANGED stored, More,
             \A m \in Messages : Moves(m) \/ (loc'[m] = "acked" /\ PaymentOf[m] \in Payments
                                                 /\ status[PaymentOf[m]] \in Final)
                                          \/ loc'[m] = "dlq",
             \A u \in Tasks : msg'[u] # NoMessage =>
                                msg'[u] \in Messages /\ raw'[u] <= failures'[msg'[u]],
             \A u \in Tasks, m \in Messages : pc'[u] = "reject" /\ msg'[u] = m => Earned(m, u)'
      PROVE  Goal
  <2>1. \A p \in Payments : status[p] \in Final => status'[p] \in Final
    BY FinalStaysFinal
  <2>2. Counted' /\ RejectIsEarned'
    BY <1>0, <1>1 DEF Counted, RejectIsEarned, Earned
  <2>3. AckedIsProcessed'
    BY <1>1, <2>1 DEF AckedIsProcessed
  <2>4. QED
    BY <2>2, <2>3
\* Steps that count no failure and let no message go.
<1>2. ASSUME UNCHANGED <<stored, failures>>, \A m \in Messages : Moves(m),
             \A u \in Tasks : SameTask(u) \/ Idles(u)
      PROVE  Goal
  <2>1. \A u \in Tasks, m \in Messages : pc'[u] = "reject" /\ msg'[u] = m => Earned(m, u)'
    BY <1>2 DEF RejectIsEarned, Earned
  <2>2. QED
    BY <1>1, <1>2, <2>1 DEF Counted
\* Steps of a task that goes on without a failure.
<1>3. ASSUME NEW t \in Tasks, UNCHANGED <<stored, failures, raw, msg, loc>>, pc[t] # "idle",
             \A u \in Tasks \ {t} : SameTask(u),
             pc'[t] = "reject" => PaymentOf[msg[t]] \notin Payments
      PROVE  Goal
  <2>1. \A u \in Tasks, m \in Messages : pc'[u] = "reject" /\ msg'[u] = m => Earned(m, u)'
    BY <1>3 DEF RejectIsEarned, Earned
  <2>2. QED
    BY <1>1, <1>3, <2>1 DEF Counted
\* A failure that the policy handles.
<1>4. ASSUME NEW t \in Tasks, NEW from \in {"read"} \cup Open, Policy(t, from),
             UNCHANGED <<stored, loc, msg>>
      PROVE  Goal
  <2>1. /\ msg[t] \in Messages /\ raw[t] \in Nat /\ raw[t] <= failures[msg[t]]
        /\ MaxAttempts[Owner[t]] \in Nat /\ failures[msg[t]] \in Nat
    <3>1. pc[t] = from /\ raw[t] \in 0..MaxAttempts[Owner[t]] /\ MaxAttempts[Owner[t]] \in Nat \ {0}
      BY <1>4 DEF Policy
    <3>2. msg[t] \in Messages
      BY <3>1 DEF Assigned, Open
    <3>3. QED
      BY <3>1, <3>2 DEF Counted
  <2>2. \A m \in Messages : failures'[m] = IF m = msg[t] THEN failures[m] + 1 ELSE failures[m]
    BY <1>4, <2>1 DEF Policy
  <2>3. More
    BY <2>1, <2>2, <1>4 DEF Policy
  <2>4. /\ \A u \in Tasks \ {t} : SameTask(u)
        /\ \/ pc'[t] = "reject" /\ raw[t] + 1 >= MaxAttempts[Owner[t]] /\ raw' = raw
           \/ pc'[t] = "nack" /\ raw'[t] = raw[t] + 1
    BY <1>4 DEF Policy, DeliveryCount
  <2>5. ASSUME NEW u \in Tasks, msg[u] # NoMessage
        PROVE  raw'[u] <= failures'[msg[u]]
    <3>1. msg[u] \in Messages /\ raw[u] <= failures[msg[u]] /\ failures[msg[u]] \in Nat
      BY <2>5 DEF Counted
    <3>2. raw[u] \in Nat
      OBVIOUS
    <3>3. CASE u = t
      BY <2>1, <2>2, <2>4, <3>1, <3>3
    <3>4. CASE u # t
      BY <2>2, <2>4, <3>1, <3>2, <3>4
    <3>5. QED
      BY <3>3, <3>4
  <2>6. ASSUME NEW u \in Tasks, NEW m \in Messages, pc'[u] = "reject", msg[u] = m
        PROVE  Earned(m, u)'
    <3>1. CASE u = t
      <4>1. failures'[m] >= MaxAttempts[Owner[t]]
        BY <2>1, <2>2, <2>4, <2>6, <3>1
      <4>2. QED
        BY <3>1, <4>1 DEF Earned
    <3>2. CASE u # t
      <4>1. pc[u] = "reject" /\ Earned(m, u)
        BY <2>4, <2>6, <3>2 DEF RejectIsEarned
      <4>2. MaxAttempts[Owner[u]] \in Nat /\ failures'[m] >= failures[m] /\ failures[m] \in Nat
        BY <2>3
      <4>3. QED
        BY <2>3, <4>1, <4>2 DEF Earned
    <3>3. QED
      BY <3>1, <3>2
  <2>7. QED
    BY <1>1, <1>4, <2>3, <2>5, <2>6
<1>5. ASSUME NEW m \in Messages, Publish(m)
      PROVE  Goal
  BY <1>2, <1>5 DEF Publish
<1>6. ASSUME NEW t \in Tasks, Deliver(t)
      PROVE  Goal
  <2>1. PICK m \in Messages : /\ loc' = [loc EXCEPT ![m] = "unacked"]
                              /\ msg' = [msg EXCEPT ![t] = m]
                              /\ raw' = [raw EXCEPT ![t] = stored[m]]
    BY <1>6 DEF Deliver
  <2>2. /\ pc'[t] = "read" /\ UNCHANGED <<stored, failures>>
        /\ \A u \in Tasks \ {t} : SameTask(u)
        /\ msg'[t] = m /\ raw'[t] = 0 /\ failures[m] \in Nat
    BY <1>6, <2>1 DEF Deliver, Counted
  <2>3. \A u \in Tasks, n \in Messages : pc'[u] = "reject" /\ msg'[u] = n => Earned(n, u)'
    BY <2>2 DEF RejectIsEarned, Earned
  <2>4. \A u \in Tasks : msg'[u] # NoMessage => msg'[u] \in Messages /\ raw'[u] <= failures'[msg'[u]]
    BY <2>2 DEF Counted
  <2>6. QED
    BY <1>1, <2>1, <2>2, <2>3, <2>4
<1>7. ASSUME NEW t \in Tasks,
             \/ ReadNotFound(t) \/ Read(t) \/ Gateway(t) \/ Update(t)
             \/ EnqueueWebhook(t) \/ Commit(t)
      PROVE  Goal
  <2>1. /\ UNCHANGED <<stored, failures, raw, msg, loc>> /\ pc[t] # "idle"
        /\ \A u \in Tasks \ {t} : pc'[u] = pc[u]
        /\ pc'[t] = "reject" => PaymentOf[msg[t]] \notin Payments
    BY <1>7 DEF ReadNotFound, Read, Gateway, Update, EnqueueWebhook, Commit, PaymentOfTask
  <2>2. QED
    BY <1>3, <2>1
<1>8. ASSUME NEW t \in Tasks, NEW ending \in Ending, NEW to \in {"acked", "ready", "dlq"},
             Finish(t, ending, to), to = "acked" => ending = "ack", to = "dlq" => ending = "reject"
      PROVE  Goal
  <2>1. /\ pc[t] = ending /\ Idles(t) /\ UNCHANGED <<stored, failures>>
        /\ \A u \in Tasks \ {t} : SameTask(u)
    BY <1>8 DEF Finish
  <2>2. msg[t] \in Messages
    <3>1. Assigned(t) /\ pc[t] # "idle"
      BY <2>1 DEF Ending
    <3>2. QED
      BY <3>1 DEF Assigned
  <2>3. \A m \in Messages : loc'[m] # loc[m] => m = msg[t] /\ loc'[m] = to
    BY <1>8, <2>2 DEF Finish
  <2>4. ending = "ack" => PaymentOf[msg[t]] \in Payments /\ status[PaymentOf[msg[t]]] \in Final
    BY <2>1 DEF Assigned, Relies, PaymentOfTask
  <2>6. \A m \in Messages : Moves(m) \/ (loc'[m] = "acked" /\ PaymentOf[m] \in Payments
                                            /\ status[PaymentOf[m]] \in Final)
                                     \/ loc'[m] = "dlq"
    BY <1>8, <2>3, <2>4
  <2>7. ASSUME NEW u \in Tasks, NEW m \in Messages, pc'[u] = "reject", msg'[u] = m
        PROVE  Earned(m, u)'
    <3>1. u # t /\ pc[u] = "reject" /\ msg[u] = m
      BY <2>1, <2>7
    <3>2. Earned(m, u)
      BY <3>1 DEF RejectIsEarned
    <3>3. QED
      BY <2>1, <3>2 DEF Earned
  <2>8. ASSUME NEW u \in Tasks, msg'[u] # NoMessage
        PROVE  msg'[u] \in Messages /\ raw'[u] <= failures'[msg'[u]]
    <3>1. u # t /\ SameTask(u)
      BY <2>1, <2>8
    <3>2. QED
      BY <2>1, <2>8, <3>1 DEF Counted
  <2>9. QED
    BY <1>1, <2>1, <2>6, <2>7, <2>8
<1>9. ASSUME NEW t \in Tasks, Ack(t) \/ Nack(t) \/ Reject(t)
      PROVE  Goal
  BY <1>8, <1>9 DEF Ack, Nack, Reject, Ending
<1>10. ASSUME NEW t \in Tasks, DatabaseError(t) \/ CommitUnconfirmed(t)
       PROVE  Goal
  BY <1>4, <1>10 DEF DatabaseError, CommitUnconfirmed, Open
<1>11. ASSUME NEW c \in Consumers, ConnectionLost(c)
       PROVE  Goal
  <2>1. \A m \in Messages : Moves(m)
    BY <1>11, RequeueMoves DEF ConnectionLost
  <2>2. QED
    BY <1>2, <1>11, <2>1 DEF ConnectionLost
<1>12. ASSUME NEW c \in Consumers, Kill(c)
       PROVE  Goal
  <2>1. \A m \in Messages : Moves(m)
    BY <1>12, RequeueMoves DEF Kill
  <2>2. \A u \in Tasks : SameTask(u) \/ Idles(u)
    BY <1>12 DEF Kill, Clear
  <2>3. QED
    BY <1>2, <1>12, <2>1, <2>2 DEF Kill
<1>13. ASSUME BrokerRestart
       PROVE  Goal
  BY <1>2, <1>13 DEF BrokerRestart
<1>14. CASE UNCHANGED vars
  BY <1>2, <1>14 DEF vars
<1>15. QED
  BY <1>5, <1>6, <1>7, <1>9, <1>10, <1>11, <1>12, <1>13, <1>14 DEF Next, Process, Quiet
-----------------------------------------------------------------------------
\* The inductive invariant holds in every reachable state.
THEOREM Invariance == Spec => []IInv
<1>1. IInv /\ [Next]_vars => IInv'
  BY NextTypeOK, NextAssigned, NextTransactions, NextAccounts DEF IInv
<1>2. QED
  BY InitIInv, <1>1, PTL DEF Spec

\* Types, for every value of the constants.
THEOREM TypeCorrect == Spec => []TypeOK
BY Invariance, PTL DEF IInv

\* The status of a payment and its one webhook row are committed together: no
\* interleaving of duplicates, lost connections, kills and failed commits parts them.
THEOREM OneWebhook == Spec => []OneWebhookPerFinalPayment
BY Invariance, PTL DEF IInv

\* What the broker may forget has been processed.
THEOREM NothingAckedUnprocessed == Spec => []AckedIsProcessed
BY Invariance, PTL DEF IInv

\* Only Reject puts a message into the dead-letter queue, and only its own.
LEMMA OnlyRejectDeadLetters ==
  ASSUME IInv, [Next]_vars, NEW m \in Messages, loc'[m] = "dlq", loc[m] # "dlq"
  PROVE  \E t \in Tasks : pc[t] = "reject" /\ live[t] /\ msg[t] = m
<1> USE ConsumerAssumption DEF IInv, TypeOK, Goto, broker, tables, transaction, delivery,
    history
<1>1. PICK t \in Tasks : Reject(t)
  <2>1. loc' # loc
    OBVIOUS
  <2>2. ASSUME NEW t \in Tasks, Ack(t) \/ Nack(t)
        PROVE  FALSE
    BY <2>2 DEF Ack, Nack, Finish
  <2>3. ASSUME NEW c \in Consumers, ConnectionLost(c) \/ Kill(c)
        PROVE  FALSE
    BY <2>3, RequeueMoves DEF ConnectionLost, Kill
  <2>4. ~BrokerRestart
    BY DEF BrokerRestart
  <2>5. ~\E t \in Tasks : Deliver(t)
    BY DEF Deliver
  <2>6. ~\E n \in Messages : Publish(n)
    BY DEF Publish
  <2>7. QED
    BY <2>1, <2>2, <2>3, <2>4, <2>5, <2>6
    DEF Next, Process, ReadNotFound, Read, Gateway, Update, EnqueueWebhook, Commit,
        DatabaseError, CommitUnconfirmed, Quiet, vars
<1>2. QED
  BY <1>1 DEF Reject, Finish

\* No message of an existing payment is dead-lettered before the consumer that
\* rejects it has seen its own limit of failures.
THEOREM DeadLettersEarned == Spec => DeadLetterIsEarned
<1>1. IInv /\ [Next]_vars =>
        \A m \in Messages :
          loc'[m] = "dlq" /\ loc[m] # "dlq" /\ PaymentOf[m] \in Payments =>
            \E t \in Tasks : /\ pc[t] = "reject" /\ live[t] /\ msg[t] = m
                             /\ failures[m] >= MaxAttempts[Owner[t]]
  BY OnlyRejectDeadLetters DEF IInv, RejectIsEarned, Earned
<1>2. QED
  BY <1>1, Invariance, PTL DEF Spec, DeadLetterIsEarned
-----------------------------------------------------------------------------
\* Every step keeps what a payment that nobody else has open can rely on.
LEMMA NextOverlap == IInv /\ OverlapInv /\ [Next]_vars => OverlapInv'
<1> SUFFICES ASSUME IInv, OverlapInv, [Next]_vars
             PROVE  OverlapInv'
  OBVIOUS
<1> DEFINE Same(u) == /\ pc'[u] = pc[u] /\ msg'[u] = msg[u] /\ result'[u] = result[u]
                      /\ wrote'[u] = wrote[u]
           Out(u) == pc'[u] \notin Open
<1> USE ConsumerAssumption DEF IInv, TypeOK, OverlapInv, Goto, broker, tables, transaction,
    delivery, history
\* Two tasks that have a payment open before and after a step, seen by Alone.
<1>1. ASSUME NEW t \in Tasks, NEW u \in Tasks, u # t, pc[t] \in Open, pc[u] \in Open,
             PaymentOf[msg[t]] = PaymentOf[msg[u]]
      PROVE  PaymentOf[msg[t]] \in overlapped
  <2>1. msg[t] # NoMessage /\ msg[u] # NoMessage
    BY <1>1 DEF Assigned, Open
  <2>2. u \in OthersOn(t)
    BY <1>1, <2>1 DEF OthersOn, PaymentOfTask
  <2>3. QED
    BY <1>1, <2>2 DEF Alone, SeenAsItIs, PaymentOfTask
\* Steps after which every task is as it was or has nothing open.
<1>2. ASSUME UNCHANGED <<tables, overlapped>>, \A u \in Tasks : Same(u) \/ Out(u)
      PROVE  OverlapInv'
  <2>1. OnlyOverlapDiverges'
    BY <1>2 DEF OnlyOverlapDiverges
  <2>2. ASSUME NEW t \in Tasks, pc'[t] \in Open, PaymentOf[msg'[t]] \notin overlapped
        PROVE  SeenAsItIs(t)'
    <3>1. Same(t)
      BY <1>2, <2>2
    <3>2. SeenAsItIs(t)
      BY <1>2, <2>2, <3>1 DEF Alone, PaymentOfTask
    <3>3. ASSUME NEW u \in Tasks, u # t, PaymentOf[msg'[u]] = PaymentOf[msg'[t]]
          PROVE  pc'[u] \notin Open
      BY <1>1, <1>2, <2>2, <3>1, <3>3
    <3>4. QED
      BY <1>2, <2>2, <3>1, <3>2, <3>3 DEF SeenAsItIs, OthersOn, PaymentOfTask
  <2>3. QED
    BY <1>2, <2>1, <2>2 DEF Alone, PaymentOfTask
\* Steps of one open transaction: what it sees of its own payment is enough.
<1>3. ASSUME NEW t \in Tasks, UNCHANGED <<tables, msg>>, overlapped \subseteq overlapped',
             pc[t] # "idle", pc'[t] \in Open,
             \A u \in Tasks \ {t} : Same(u),
             pc[t] \in Open \/ PaymentOf[msg[t]] \in overlapped'
               \/ \A u \in OthersOn(t) : pc[u] \notin Open,
             PaymentOf[msg[t]] \notin overlapped' =>
               /\ pc'[t] \in {"gateway", "update"} \/ wrote'[t] => status[PaymentOf[msg[t]]] = "pending"
               /\ pc'[t] \in {"enqueue", "commit"} /\ ~wrote'[t] =>
                    result'[t] = status[PaymentOf[msg[t]]]
      PROVE  OverlapInv'
  <2>1. OnlyOverlapDiverges'
    BY <1>3 DEF OnlyOverlapDiverges
  <2>2. ASSUME NEW u \in Tasks, NEW v \in Tasks, u # v, pc'[u] \in Open, pc'[v] \in Open,
               PaymentOf[msg[u]] = PaymentOf[msg[v]]
        PROVE  PaymentOf[msg[u]] \in overlapped'
    <3>1. CASE u # t /\ v # t
      BY <1>1, <1>3, <2>2, <3>1
    <3>2. ASSUME NEW x \in Tasks, x # t, pc[x] \in Open, PaymentOf[msg[x]] = PaymentOf[msg[t]]
          PROVE  PaymentOf[msg[t]] \in overlapped'
      <4>1. CASE pc[t] \in Open
        BY <1>1, <1>3, <3>2, <4>1
      <4>2. CASE \A y \in OthersOn(t) : pc[y] \notin Open
        <5>1. msg[x] # NoMessage
          BY <3>2 DEF Assigned, Open
        <5>2. x \in OthersOn(t)
          BY <3>2, <5>1 DEF OthersOn, PaymentOfTask
        <5>3. QED
          BY <3>2, <4>2, <5>2
      <4>3. QED
        BY <1>3, <4>1, <4>2
    <3>3. CASE u = t
      BY <1>3, <2>2, <3>2, <3>3
    <3>4. CASE v = t
      BY <1>3, <2>2, <3>2, <3>4
    <3>5. QED
      BY <3>1, <3>3, <3>4
  <2>3. ASSUME NEW u \in Tasks, pc'[u] \in Open, PaymentOf[msg'[u]] \notin overlapped'
        PROVE  SeenAsItIs(u)'
    <3>1. \A v \in Tasks \ {u} : PaymentOf[msg'[v]] = PaymentOf[msg'[u]] => pc'[v] \notin Open
      BY <1>3, <2>2, <2>3
    <3>2. CASE u = t
      BY <1>3, <2>3, <3>1, <3>2 DEF SeenAsItIs, OthersOn, PaymentOfTask
    <3>3. CASE u # t
      <4>1. Same(u) /\ SeenAsItIs(u)
        BY <1>3, <2>3, <3>3 DEF Alone, PaymentOfTask
      <4>2. QED
        BY <1>3, <3>1, <4>1 DEF SeenAsItIs, OthersOn, PaymentOfTask
    <3>4. QED
      BY <3>2, <3>3
  <2>4. QED
    BY <2>1, <2>3 DEF Alone, PaymentOfTask
\* A commit: the row it adds carries the status it writes.
<1>4. ASSUME NEW t \in Tasks, pc[t] = "commit", WriteStatus(t), WriteWebhook(t),
             UNCHANGED <<msg, overlapped>>, pc'[t] \in Ending, \A u \in Tasks \ {t} : Same(u)
      PROVE  OverlapInv'
  <2>0. PICK p : p = PaymentOf[msg[t]]
    OBVIOUS
  <2>1. /\ \A q \in Payments : status'[q] = IF wrote[t] /\ q = p THEN result[t] ELSE status[q]
        /\ webhooks' = IF added[t] THEN webhooks \cup {[payment |-> p, status |-> result[t]]}
                                   ELSE webhooks
    BY <1>4, <2>0 DEF WriteStatus, WriteWebhook, PaymentOfTask
  <2>2. /\ wrote[t] \/ status[p] \in Final
        /\ IF added[t] THEN ~HasWebhook(p) ELSE HasWebhook(p)
        /\ p \in Payments
    BY <1>4, <2>0 DEF Relies, PaymentOfTask, Assigned, Open
  <2>3. p \notin overlapped =>
          IF wrote[t] THEN status[p] = "pending" ELSE result[t] = status[p]
    BY <1>4, <2>0 DEF Alone, SeenAsItIs, PaymentOfTask, Open
  <2>4. status[p] \in Final <=> HasWebhook(p)
    BY <2>2 DEF OneWebhookPerFinalPayment
  <2>5. p \notin overlapped => (wrote[t] <=> added[t])
    BY <2>2, <2>3, <2>4 DEF Final
  <2>6. ASSUME NEW row \in webhooks', row.payment \notin overlapped
        PROVE  row.status = status'[row.payment]
    <3>1. CASE row \in webhooks
      <4>1. row.payment \in Payments /\ row.status = status[row.payment]
        BY <2>6, <3>1 DEF OnlyOverlapDiverges, Rows
      <4>2. wrote[t] => row.payment # p
        BY <2>2, <2>5, <2>6, <3>1 DEF HasWebhook
      <4>3. QED
        BY <2>1, <4>1, <4>2
    <3>2. CASE row \notin webhooks
      <4>1. added[t] /\ row = [payment |-> p, status |-> result[t]]
        BY <2>1, <2>6, <3>2
      <4>2. wrote[t]
        BY <2>5, <2>6, <4>1
      <4>3. QED
        BY <2>1, <2>2, <4>1, <4>2
    <3>3. QED
      BY <3>1, <3>2
  <2>7. OnlyOverlapDiverges'
    BY <1>4, <2>6 DEF OnlyOverlapDiverges
  <2>8. ASSUME NEW u \in Tasks, pc'[u] \in Open, PaymentOf[msg'[u]] \notin overlapped
        PROVE  SeenAsItIs(u)'
    <3>1. u # t /\ Same(u) /\ pc[u] \in Open
      BY <1>4, <2>8 DEF Ending, Open
    <3>2. PaymentOf[msg[u]] # p
      BY <1>1, <1>4, <2>0, <2>8, <3>1 DEF Open
    <3>3. status'[PaymentOf[msg[u]]] = status[PaymentOf[msg[u]]]
      BY <2>1, <3>1, <3>2 DEF Assigned
    <3>4. SeenAsItIs(u)
      BY <1>4, <2>8, <3>1 DEF Alone, PaymentOfTask
    <3>5. \A v \in Tasks \ {u} : PaymentOf[msg'[v]] = PaymentOf[msg'[u]] => pc'[v] \notin Open
      BY <1>1, <1>4, <2>8, <3>1 DEF Ending, Open
    <3>6. QED
      BY <1>4, <3>1, <3>3, <3>4, <3>5 DEF SeenAsItIs, OthersOn, PaymentOfTask
  <2>9. QED
    BY <1>4, <2>7, <2>8 DEF Alone, PaymentOfTask
<1>5. ASSUME NEW m \in Messages, Publish(m)
      PROVE  OverlapInv'
  BY <1>2, <1>5 DEF Publish
<1>6. ASSUME NEW t \in Tasks,
             Deliver(t) \/ ReadNotFound(t) \/ Ack(t) \/ Nack(t) \/ Reject(t) \/ DatabaseError(t)
      PROVE  OverlapInv'
  <2>1. UNCHANGED <<tables, overlapped>> /\ Out(t) /\ \A u \in Tasks \ {t} : Same(u)
    BY <1>6 DEF Deliver, ReadNotFound, Ack, Nack, Reject, Finish, DatabaseError, Policy,
       CloseTransaction, Open
  <2>2. QED
    BY <1>2, <2>1
<1>7. ASSUME NEW t \in Tasks, Read(t)
      PROVE  OverlapInv'
  <2>1. /\ pc[t] = "read" /\ UNCHANGED <<tables, msg, wrote>>
        /\ pc'[t] = IF status[PaymentOf[msg[t]]] = "pending" THEN "gateway" ELSE "enqueue"
        /\ result'[t] = status[PaymentOf[msg[t]]]
        /\ \A u \in Tasks \ {t} : Same(u)
    BY <1>7 DEF Read, PaymentOfTask
  <2>2. /\ overlapped \subseteq overlapped'
        /\ PaymentOf[msg[t]] \in overlapped' \/ \A u \in OthersOn(t) : pc[u] \notin Open
    BY <1>7 DEF Read, PaymentOfTask, Overlaps
  <2>3. ~wrote[t]
    BY <2>1 DEF Written
  <2>4. QED
    BY <1>3, <2>1, <2>2, <2>3 DEF Open
<1>8. ASSUME NEW t \in Tasks, Gateway(t) \/ Update(t) \/ EnqueueWebhook(t)
      PROVE  OverlapInv'
  <2>1. /\ pc[t] \in Open /\ pc'[t] \in Open /\ UNCHANGED <<tables, msg, overlapped>>
        /\ pc[t] # "idle" /\ \A u \in Tasks \ {t} : Same(u)
    BY <1>8 DEF Gateway, Update, EnqueueWebhook, Open
  <2>2. \/ pc[t] = "gateway" /\ pc'[t] = "update" /\ wrote' = wrote
        \/ pc[t] = "update" /\ pc'[t] = "enqueue" /\ wrote'[t] /\ result' = result
        \/ pc[t] = "enqueue" /\ pc'[t] = "commit" /\ wrote' = wrote /\ result' = result
    BY <1>8 DEF Gateway, Update, EnqueueWebhook
  <2>3. PaymentOf[msg[t]] \notin overlapped => SeenAsItIs(t)
    BY <2>1 DEF Alone, PaymentOfTask
  <2>4. Written(t)
    OBVIOUS
  <2>5. PaymentOf[msg[t]] \notin overlapped' =>
          /\ pc'[t] \in {"gateway", "update"} \/ wrote'[t] => status[PaymentOf[msg[t]]] = "pending"
          /\ pc'[t] \in {"enqueue", "commit"} /\ ~wrote'[t] =>
               result'[t] = status[PaymentOf[msg[t]]]
    BY <2>1, <2>2, <2>3, <2>4 DEF SeenAsItIs, Written, PaymentOfTask
  <2>6. QED
    BY <1>3, <2>1, <2>5
<1>9. ASSUME NEW t \in Tasks, Commit(t) \/ CommitUnconfirmed(t)
      PROVE  OverlapInv'
  <2>1. /\ pc[t] = "commit" /\ pc'[t] \in Ending /\ WriteStatus(t) /\ WriteWebhook(t)
        /\ UNCHANGED <<msg, overlapped>> /\ \A u \in Tasks \ {t} : Same(u)
    BY <1>9 DEF Commit, CommitUnconfirmed, Policy, CloseTransaction, Ending
  <2>2. QED
    BY <1>4, <2>1
<1>10. ASSUME NEW c \in Consumers, ConnectionLost(c)
       PROVE  OverlapInv'
  BY <1>2, <1>10 DEF ConnectionLost
<1>11. ASSUME NEW c \in Consumers, Kill(c)
       PROVE  OverlapInv'
  <2>1. UNCHANGED <<tables, overlapped>> /\ \A u \in Tasks : Same(u) \/ Out(u)
    BY <1>11 DEF Kill, Clear, Open
  <2>2. QED
    BY <1>2, <2>1
<1>12. ASSUME BrokerRestart
       PROVE  OverlapInv'
  BY <1>2, <1>12 DEF BrokerRestart
<1>13. CASE UNCHANGED vars
  BY <1>2, <1>13 DEF vars
<1>14. QED
  BY <1>5, <1>6, <1>7, <1>8, <1>9, <1>10, <1>11, <1>12, <1>13 DEF Next, Process, Quiet

\* While no two tasks have a payment open at once, its webhook tells its status,
\* however often and to whichever consumer its messages are delivered again.
THEOREM OnlyOverlaps == Spec => []OnlyOverlapDiverges
<1>1. Init => OverlapInv
  BY DEF Init, OverlapInv, OnlyOverlapDiverges, Alone, Open
<1>2. OverlapInv => OnlyOverlapDiverges
  BY DEF OverlapInv
<1>3. QED
  BY <1>1, <1>2, NextOverlap, Invariance, PTL DEF Spec
-----------------------------------------------------------------------------
\* The outcome of a payment is what its webhook row carries, and "none" without one.
LEMMA OutcomeIsRow ==
  ASSUME IInv, NEW p
  PROVE  /\ Outcome(p) = "none" <=> ~HasWebhook(p)
         /\ \A row \in webhooks : row.payment = p => Outcome(p) = row.status
<1>1. ASSUME NEW row \in webhooks, row.payment = p
      PROVE  Outcome(p) = row.status /\ row.status \in Final
  <2>1. \A x \in webhooks : x.payment = p => x = row
    BY <1>1 DEF IInv, OneWebhookPerFinalPayment
  <2>2. (CHOOSE x \in webhooks : x.payment = p) = row
    BY <1>1, <2>1
  <2>3. QED
    BY <1>1, <2>2 DEF Outcome, HasWebhook, IInv, TypeOK, Rows
<1>2. QED
  BY <1>1 DEF Outcome, HasWebhook, Final

\* A step that adds no row leaves every outcome, and one that adds the first row
\* of a payment settles it.
LEMMA OutcomeSettles ==
  ASSUME IInv, NEW t \in Tasks, pc[t] = "commit", WriteStatus(t), WriteWebhook(t),
         UNCHANGED loc
  PROVE  [Settlement!Next]_(Settlement!vars)
<1> DEFINE outcome == [q \in Payments |-> Outcome(q)]
           place == [m \in Messages |-> Place(m)]
<1>1. PICK p : p = PaymentOfTask(t)
  OBVIOUS
<1>2. UNCHANGED place
  BY DEF Place
<1>3. CASE ~added[t]
  <2>1. UNCHANGED outcome
    BY <1>3 DEF WriteWebhook, Outcome, HasWebhook
  <2>2. QED
    BY <1>2, <2>1 DEF Settlement!vars
<1>4. CASE added[t]
  <2>1. webhooks' = webhooks \cup {[payment |-> p, status |-> result[t]]}
    BY <1>1, <1>4 DEF WriteWebhook
  <2>2. p \in Payments /\ result[t] \in Final /\ ~HasWebhook(p) /\ msg[t] \in Messages
        /\ loc[msg[t]] # "absent" /\ PaymentOf[msg[t]] = p
    BY <1>1, <1>4 DEF IInv, Assigned, Written, Relies, PaymentOfTask, Open, TypeOK
  <2>3. Outcome(p)' = result[t]
    <3>1. PICK row : row = [payment |-> p, status |-> result[t]]
      OBVIOUS
    <3>2. row.payment = p /\ row.status = result[t] /\ row \in webhooks'
      BY <2>1, <3>1
    <3>3. \A x \in webhooks' : x.payment = p => x = row
      BY <2>1, <2>2, <3>1 DEF HasWebhook
    <3>4. (CHOOSE x \in webhooks' : x.payment = p) = row
      BY <3>2, <3>3
    <3>5. \E x \in webhooks' : x.payment = p
      BY <3>2
    <3>6. Outcome(p)' = (CHOOSE x \in webhooks' : x.payment = p).status
      BY <3>5 DEF Outcome, HasWebhook
    <3>7. QED
      BY <3>2, <3>4, <3>6
  <2>4. ASSUME NEW q \in Payments, q # p
        PROVE  Outcome(q)' = Outcome(q)
    <3>1. \A x : x \in webhooks' /\ x.payment = q <=> x \in webhooks /\ x.payment = q
      BY <2>1, <2>4
    <3>2. (CHOOSE x : x \in webhooks' /\ x.payment = q)
            = (CHOOSE x : x \in webhooks /\ x.payment = q)
      BY <3>1, Zenon
    <3>3. QED
      BY <3>1, <3>2 DEF Outcome, HasWebhook
  <2>5. outcome' = [outcome EXCEPT ![p] = result[t]]
    BY <2>2, <2>3, <2>4
  <2>6. outcome[p] = "none"
    BY <2>2, OutcomeIsRow
  <2>7. Settlement!Arrived(p)
    BY <2>2 DEF Settlement!Arrived, Place
  <2>8. Settlement!Settle(p)
    BY <1>2, <2>2, <2>5, <2>6, <2>7 DEF Settlement!Settle, Settlement!Final, Final
  <2>9. QED
    BY <2>2, <2>8 DEF Settlement!Next
<1>5. QED
  BY <1>3, <1>4

\* A message is where the promise has it after each step.
LEMMA StepKeepsSettlement == IInv /\ [Next]_vars => [Settlement!Next]_(Settlement!vars)
<1> SUFFICES ASSUME IInv, [Next]_vars
             PROVE  [Settlement!Next]_(Settlement!vars)
  OBVIOUS
<1> DEFINE outcome == [q \in Payments |-> Outcome(q)]
           place == [m \in Messages |-> Place(m)]
<1>1. UNCHANGED webhooks => UNCHANGED outcome
  BY DEF Outcome, HasWebhook
<1>2. ASSUME UNCHANGED webhooks, \A m \in Messages : Place(m)' = Place(m)
      PROVE  UNCHANGED Settlement!vars
  BY <1>1, <1>2 DEF Settlement!vars
<1>3. ASSUME NEW m \in Messages, Publish(m)
      PROVE  Settlement!Next
  <2>1. /\ place[m] = "absent" /\ place' = [place EXCEPT ![m] = "queued"]
        /\ UNCHANGED webhooks
    BY <1>3 DEF Publish, Place, IInv, TypeOK, tables
  <2>2. Settlement!Arrive(m)
    BY <1>1, <2>1 DEF Settlement!Arrive, Settlement!Move
  <2>3. QED
    BY <2>2 DEF Settlement!Next
<1>4. ASSUME NEW t \in Tasks, Deliver(t)
      PROVE  UNCHANGED Settlement!vars
  <2>1. UNCHANGED webhooks /\ \A m \in Messages : Place(m)' = Place(m)
    BY <1>4 DEF Deliver, Place, IInv, TypeOK, tables
  <2>2. QED
    BY <1>2, <2>1
<1>5. ASSUME NEW t \in Tasks,
             \/ ReadNotFound(t) \/ Read(t) \/ Gateway(t) \/ Update(t) \/ EnqueueWebhook(t)
             \/ DatabaseError(t)
      PROVE  UNCHANGED Settlement!vars
  <2>1. UNCHANGED <<webhooks, loc>>
    BY <1>5 DEF ReadNotFound, Read, Gateway, Update, EnqueueWebhook, DatabaseError, tables, broker
  <2>2. \A m \in Messages : Place(m)' = Place(m)
    BY <2>1 DEF Place
  <2>3. QED
    BY <1>2, <2>1, <2>2
<1>6. ASSUME NEW t \in Tasks, Commit(t) \/ CommitUnconfirmed(t)
      PROVE  [Settlement!Next]_(Settlement!vars)
  <2>1. pc[t] = "commit" /\ WriteStatus(t) /\ WriteWebhook(t) /\ UNCHANGED loc
    BY <1>6 DEF Commit, CommitUnconfirmed, Policy, Goto, broker
  <2>2. QED
    BY <2>1, OutcomeSettles
<1>7. ASSUME NEW t \in Tasks, NEW ending \in Ending, NEW to \in {"acked", "ready", "dlq"},
             Finish(t, ending, to), to = "acked" => ending = "ack"
      PROVE  [Settlement!Next]_(Settlement!vars)
  <2>1. PICK m : m = msg[t]
    OBVIOUS
  <2>2. /\ m \in Messages /\ pc[t] = ending /\ UNCHANGED webhooks
        /\ loc' = IF live[t] THEN [loc EXCEPT ![m] = to] ELSE loc
    BY <1>7, <2>1 DEF Finish, Goto, IInv, TypeOK, Assigned, Ending, tables
  <2>3. CASE ~live[t] \/ to = "ready"
    <3>1. \A n \in Messages : Place(n)' = Place(n)
      BY <2>1, <2>2, <2>3 DEF Place, IInv, TypeOK, Unsettled
    <3>2. QED
      BY <1>2, <2>2, <3>1
  <2>4. CASE live[t] /\ to # "ready"
    <3>1. place[m] = "queued" /\ place' = [place EXCEPT ![m] = to]
      BY <2>1, <2>2, <2>4 DEF Place, IInv, TypeOK, Unsettled
    <3>2. CASE to = "dlq"
      <4>1. Settlement!DeadLetter(m)
        BY <1>1, <2>2, <3>1, <3>2 DEF Settlement!DeadLetter, Settlement!Move
      <4>2. QED
        BY <2>2, <4>1 DEF Settlement!Next
    <3>3. CASE to = "acked"
      <4>1. PaymentOf[m] \in Payments /\ status[PaymentOf[m]] \in Final
        BY <1>7, <2>1, <2>2, <3>3 DEF IInv, Assigned, Relies, PaymentOfTask
      <4>2. outcome[PaymentOf[m]] # "none"
        BY <4>1, OutcomeIsRow DEF IInv, OneWebhookPerFinalPayment
      <4>3. Settlement!Ack(m)
        BY <1>1, <2>2, <3>1, <3>3, <4>1, <4>2 DEF Settlement!Ack, Settlement!Move
      <4>4. QED
        BY <2>2, <4>3 DEF Settlement!Next
    <3>4. QED
      BY <2>4, <3>2, <3>3
  <2>5. QED
    BY <2>3, <2>4
<1>8. ASSUME NEW t \in Tasks, Ack(t) \/ Nack(t) \/ Reject(t)
      PROVE  [Settlement!Next]_(Settlement!vars)
  BY <1>7, <1>8 DEF Ack, Nack, Reject, Ending
<1>9. ASSUME NEW c \in Consumers, ConnectionLost(c) \/ Kill(c)
      PROVE  UNCHANGED Settlement!vars
  <2>1. RequeueAll(c) /\ UNCHANGED webhooks
    BY <1>9 DEF ConnectionLost, Kill, tables
  <2>2. \A m \in Messages : Place(m)' = Place(m)
    BY <2>1, RequeueMoves DEF Place
  <2>3. QED
    BY <1>2, <2>1, <2>2
<1>10. ASSUME BrokerRestart
       PROVE  Settlement!Next
  <2>1. /\ UNCHANGED webhooks
        /\ place' = [m \in Messages |->
             IF place[m] \in {"queued", "dlq"} THEN "lost" ELSE place[m]]
    BY <1>10 DEF BrokerRestart, Place, tables, IInv, TypeOK
  <2>2. Settlement!BrokerRestart
    BY <1>1, <2>1 DEF Settlement!BrokerRestart
  <2>3. QED
    BY <2>2 DEF Settlement!Next
<1>11. CASE UNCHANGED vars
  <2>1. UNCHANGED webhooks /\ \A m \in Messages : Place(m)' = Place(m)
    BY <1>11 DEF vars, tables, broker, Place
  <2>2. QED
    BY <1>2, <2>1
<1>12. QED
  BY <1>3, <1>4, <1>5, <1>6, <1>8, <1>9, <1>10, <1>11 DEF Next, Process, Quiet

\* The consumers, with their tasks, row locks, retries and crashes, implement the
\* promise that a payment is settled once and acknowledged only then.
THEOREM KeepsSettlement == Spec => SettlementKept
<1>1. Init => Settlement!Init
  BY DEF Init, Settlement!Init, Place, Outcome, HasWebhook
<1>2. QED
  BY <1>1, Invariance, StepKeepsSettlement, PTL DEF Spec, SettlementKept, Settlement!Spec
=============================================================================
