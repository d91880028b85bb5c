------------------------ MODULE PaymentPipelineProofs ------------------------
(***************************************************************************)
(* Proofs about PaymentPipeline for any set of requests and keys, any      *)
(* number of messages about a payment, of attempts and of broker restarts. *)
(*                                                                         *)
(* OnlyRestartStrands is about all stages at once, so IInv says what each  *)
(* stage's state tells about the one before it: the event about the        *)
(* payment (Recorded), the messages about the event (Sent), the outcome    *)
(* and the webhook about the messages (Told).                              *)
(***************************************************************************)
EXTENDS PaymentPipeline, TLAPS

\* Exactly the accepted payments have an event, and they have keys of their own.
Recorded ==
  /\ \A p \in Requests : event[p] # "absent" <=> p \in registry
  /\ \A p \in registry : asked[p] # NoKey
  /\ \A p, q \in registry : asked[p] = asked[q] => p = q

\* The messages sent about a payment are the first sent[p], its event was not
\* marked published without one, and nothing is sent about what does not exist.
Sent ==
  /\ \A p \in Requests : \A n \in 1..Copies[p] : place[<<p, n>>] # "absent" <=> n <= sent[p]
  /\ \A p \in Requests : event[p] = "published" => sent[p] > 0
  /\ \A p \in Requests : sent[p] > 0 => p \in registry

\* Outcome and webhook row come together, after a message and before its
\* acknowledgement; an endpoint is called about what has a row.
Told ==
  /\ \A p \in Requests : outcome[p] # "none" => sent[p] > 0
  /\ \A p \in Requests : hook[p] # "absent" <=> outcome[p] # "none"
  /\ \A p \in Requests : \A n \in 1..Copies[p] : place[<<p, n>>] = "acked" => outcome[p] # "none"
  /\ \A p \in Requests : posts[p] > 0 => hook[p] # "absent"

IInv == TypeOK /\ Recorded /\ Sent /\ Told
-----------------------------------------------------------------------------
\* The messages about a payment are numbered up to its bound.
LEMMA MessagesArePairs ==
  /\ \A p \in Requests : Copies[p] \in Nat \ {0}
  /\ \A p \in Requests : \A n \in 1..Copies[p] : <<p, n>> \in Messages
  /\ \A m \in Messages : \E p \in Requests : \E n \in 1..Copies[p] : m = <<p, n>>
BY PipelineAssumption DEF Messages

\* The initial states satisfy the inductive invariant.
LEMMA InitIInv == Init => IInv
<1> SUFFICES ASSUME Init
             PROVE  IInv
  OBVIOUS
<1> USE PipelineAssumption, MessagesArePairs DEF Init, Api!Init, Outbox!Init,
    Consumer!Init, Dispatcher!Init
<1>1. TypeOK
  BY DEF TypeOK, Consumer!Final
<1>2. Recorded /\ Sent /\ Told
  BY DEF Recorded, Sent, Told
<1>3. QED
  BY <1>1, <1>2 DEF IInv

\* Every step preserves it.
LEMMA NextIInv == IInv /\ [Next]_vars => IInv'
<1> SUFFICES ASSUME IInv, [Next]_vars
             PROVE  IInv'
  OBVIOUS
<1> USE PipelineAssumption, MessagesArePairs DEF IInv, TypeOK, Recorded, Sent, Told, Consumer!Final,
    api, outbox, consumer, dispatcher
<1>1. ASSUME NEW p \in Requests, Ask(p)
      PROVE  IInv'
  BY <1>1 DEF Ask, Api!Ask
<1>2. ASSUME NEW p \in Requests, Create(p)
      PROVE  IInv'
  BY <1>2 DEF Create, Api!Register, Outbox!Add, Outbox!Move
<1>3. ASSUME NEW p \in Requests, Publish(p)
      PROVE  IInv'
  <2>1. /\ sent[p] < Copies[p] /\ event[p] = "pending"
        /\ sent' = [sent EXCEPT ![p] = @ + 1]
        /\ place' = [place EXCEPT ![<<p, sent[p] + 1>>] = "queued"]
        /\ UNCHANGED <<event, outcome, api, dispatcher, restarts>>
    BY <1>3 DEF Publish, Outbox!Send, Consumer!Arrive, Consumer!Move
  <2>2. TypeOK' /\ Recorded'
    BY <2>1
  <2>3. Sent'
    <3>1. \A q \in Requests : \A n \in 1..Copies[q] :
            place'[<<q, n>>] = IF q = p /\ n = sent[p] + 1 THEN "queued" ELSE place[<<q, n>>]
      BY <2>1
    <3>2. ASSUME NEW q \in Requests, NEW n \in 1..Copies[q]
          PROVE  place'[<<q, n>>] # "absent" <=> n <= sent'[q]
      <4>1. sent[q] \in Nat /\ n \in Nat /\ (place[<<q, n>>] # "absent" <=> n <= sent[q])
        OBVIOUS
      <4>2. CASE q = p
        <5>1. sent'[q] = sent[q] + 1
          BY <2>1, <4>2
        <5>2. place'[<<q, n>>] = IF n = sent[q] + 1 THEN "queued" ELSE place[<<q, n>>]
          BY <3>1, <4>2
        <5>3. CASE n = sent[q] + 1
          <6>1. place'[<<q, n>>] = "queued"
            BY <5>2, <5>3
          <6>2. n <= sent'[q]
            BY <4>1, <5>1, <5>3
          <6>3. QED
            BY <6>1, <6>2
        <5>4. CASE n # sent[q] + 1
          <6>1. place'[<<q, n>>] = place[<<q, n>>]
            BY <5>2, <5>4
          <6>2. n <= sent'[q] <=> n <= sent[q]
            BY <4>1, <5>1, <5>4
          <6>3. QED
            BY <4>1, <6>1, <6>2
        <5>5. QED
          BY <5>3, <5>4
      <4>3. CASE q # p
        <5>1. sent'[q] = sent[q] /\ place'[<<q, n>>] = place[<<q, n>>]
          BY <2>1, <3>1, <4>3
        <5>2. QED
          BY <4>1, <5>1
      <4>4. QED
        BY <4>2, <4>3
    <3>3. \A q \in Requests : sent'[q] > 0 => q \in registry'
      BY <2>1
    <3>4. \A q \in Requests : event'[q] = "published" => sent'[q] > 0
      BY <2>1
    <3>5. QED
      BY <3>2, <3>3, <3>4
  <2>4. Told'
    BY <2>1
  <2>5. QED
    BY <2>2, <2>3, <2>4
<1>4. ASSUME NEW p \in Requests, MarkPublished(p)
      PROVE  IInv'
  BY <1>4 DEF MarkPublished, Outbox!Settle, Outbox!Move
<1>5. ASSUME NEW p \in Requests, Settle(p)
      PROVE  IInv'
  <2>1. sent[p] > 0
    <3>1. PICK m \in Messages : PaymentOf[m] = p /\ place[m] # "absent"
      BY <1>5 DEF Settle, Consumer!Settle, Consumer!Arrived
    <3>2. PICK n \in 1..Copies[p] : m = <<p, n>>
      BY <3>1 DEF PaymentOf
    <3>3. QED
      BY <3>1, <3>2
  <2>2. QED
    BY <1>5, <2>1 DEF Settle, Consumer!Settle, Dispatcher!Queue, Dispatcher!Become
<1>6. ASSUME NEW p \in Requests, Attempt(p)
      PROVE  IInv'
  <2>1. CASE Dispatcher!Request(p)
    <3>1. /\ hook[p] = "pending"
          /\ posts' = [posts EXCEPT ![p] = IF @ < MaxAttempts THEN @ + 1 ELSE @]
          /\ UNCHANGED <<api, outbox, consumer, hook, answered, refused, restarts>>
      BY <1>6, <2>1 DEF Attempt, Dispatcher!Request, Dispatcher!Pending
    <3>2. TypeOK'
      BY <3>1
    <3>3. QED
      BY <3>1, <3>2
  <2>2. CASE Dispatcher!Answer(p) \/ Dispatcher!Refuse(p)
    BY <1>6, <2>2 DEF Attempt, Dispatcher!Answer, Dispatcher!Refuse
  <2>3. QED
    BY <1>6, <2>1, <2>2 DEF Attempt
<1>7. ASSUME NEW p \in Requests, Conclude(p)
      PROVE  IInv'
  BY <1>7 DEF Conclude, Dispatcher!Deliver, Dispatcher!Fail, Dispatcher!Pending,
     Dispatcher!Become
<1>8. ASSUME NEW m \in Messages, Finish(m)
      PROVE  IInv'
  <2>1. PICK p \in Requests : \E n \in 1..Copies[p] : m = <<p, n>>
    BY <1>8
  <2>2. PaymentOf[m] = p
    BY <2>1 DEF PaymentOf
  <2>3. /\ place[m] = "queued"
        /\ \/ place' = [place EXCEPT ![m] = "acked"] /\ outcome[p] # "none"
           \/ place' = [place EXCEPT ![m] = "dlq"]
        /\ UNCHANGED <<outcome, api, outbox, dispatcher, restarts>>
    BY <1>8, <2>2 DEF Finish, Consumer!Ack, Consumer!DeadLetter, Consumer!Move
  <2>4. \A q \in Messages : q # m => place'[q] = place[q]
    BY <2>3
  <2>5. place'[m] \in {"acked", "dlq"} /\ (place'[m] = "acked" => outcome[p] # "none")
    BY <2>3
  <2>6. TypeOK' /\ Recorded'
    BY <2>3
  <2>7. Sent'
    <3>1. \A q \in Messages : place'[q] # "absent" <=> place[q] # "absent"
      BY <2>3, <2>4, <2>5
    <3>2. \A q \in Requests : \A k \in 1..Copies[q] :
            place'[<<q, k>>] # "absent" <=> place[<<q, k>>] # "absent"
      BY <3>1
    <3>3. UNCHANGED <<sent, event, registry>>
      BY <2>3
    <3>4. QED
      BY <3>2, <3>3
  <2>8. Told'
    <3>1. UNCHANGED <<sent, outcome, hook, posts>>
      BY <2>3
    <3>2. ASSUME NEW q \in Requests, NEW k \in 1..Copies[q], place'[<<q, k>>] = "acked"
          PROVE  outcome[q] # "none"
      <4>1. CASE <<q, k>> = m
        BY <2>1, <2>5, <3>2, <4>1
      <4>2. CASE <<q, k>> # m
        <5>1. place[<<q, k>>] = "acked"
          BY <2>4, <3>2, <4>2
        <5>2. QED
          BY <5>1
      <4>3. QED
        BY <4>1, <4>2
    <3>3. QED
      BY <3>1, <3>2
  <2>9. QED
    BY <2>6, <2>7, <2>8
<1>9. ASSUME BrokerRestart
      PROVE  IInv'
  BY <1>9 DEF BrokerRestart, Consumer!BrokerRestart
<1>10. CASE UNCHANGED vars
  BY <1>10 DEF vars
<1>11. QED
  BY <1>1, <1>2, <1>3, <1>4, <1>5, <1>6, <1>7, <1>8, <1>9, <1>10 DEF Next, Step

\* The inductive invariant holds in every reachable state.
THEOREM Invariance == Spec => []IInv
BY InitIInv, NextIInv, PTL DEF Spec

\* Types, for every value of the constants.
THEOREM TypeCorrect == Spec => []TypeOK
BY Invariance, PTL DEF IInv

\* Between all stages, only a restart of the broker can leave an accepted payment
\* with nobody who is responsible for it: its event is pending, or its first
\* message is where the broker has it, was acknowledged after the webhook row was
\* committed, or was lost.
THEOREM Responsibility == Spec => []OnlyRestartStrands
<1>1. IInv => OnlyRestartStrands
  <2> SUFFICES ASSUME IInv, NEW p \in registry
               PROVE  InGoodHands(p) \/ About(p, "lost")
    BY DEF OnlyRestartStrands
  <2>1. p \in Requests /\ event[p] \in {"pending", "published"}
    BY DEF IInv, TypeOK, Recorded
  <2>2. CASE event[p] = "pending"
    BY <2>2 DEF InGoodHands
  <2>3. CASE event[p] = "published"
    <3> DEFINE m == <<p, 1>>
    <3>1. m \in Messages /\ PaymentOf[m] = p
      BY <2>1, MessagesArePairs DEF PaymentOf
    <3>2. place[m] # "absent"
      BY <2>1, <2>3, MessagesArePairs DEF IInv, Sent, TypeOK
    <3>3. place[m] \in {"queued", "acked", "dlq", "lost"}
      BY <3>1, <3>2 DEF IInv, TypeOK
    <3>4. place[m] = "acked" => hook[p] # "absent"
      BY <2>1, MessagesArePairs DEF IInv, Told
    <3>5. QED
      BY <3>1, <3>3, <3>4 DEF InGoodHands, About
  <2>4. QED
    BY <2>1, <2>2, <2>3
<1>2. QED
  BY <1>1, Invariance, PTL

\* No endpoint is called about a payment that was not accepted or has no outcome,
\* and no outcome is recorded without the row that tells it.
THEOREM Notification == Spec => []WebhookFollowsOutcome
<1>1. IInv => WebhookFollowsOutcome
  BY DEF IInv, Sent, Told, WebhookFollowsOutcome
<1>2. QED
  BY <1>1, Invariance, PTL

\* One notified payment per key, however often requests and messages repeat.
THEOREM SingleNotification == Spec => []OneNotificationPerKey
<1>1. IInv => OneNotificationPerKey
  BY DEF IInv, Recorded, Sent, Told, OneNotificationPerKey
<1>2. QED
  BY <1>1, Invariance, PTL
=============================================================================
