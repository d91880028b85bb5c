------------------------ MODULE WebhookNotification ------------------------
(***************************************************************************)
(* What the queue of webhook deliveries promises, without dispatchers, row *)
(* locks, time or crashes: an endpoint is only called while its delivery   *)
(* is pending, a delivery is settled as delivered only after a conclusive  *)
(* answer, as failed only when its destination was refused or its attempts *)
(* are used up, and what is settled stays settled.  WebhookDispatcher      *)
(* implements it.                                                          *)
(***************************************************************************)
EXTENDS Naturals

CONSTANTS Deliveries,   \* the rows of webhook_deliveries
          MaxAttempts,  \* the attempts a delivery has before it may fail
          Enough        \* bound: the requests of d are counted up to Enough[d]

VARIABLES status,    \* status[d]: the status of the delivery
          posts,     \* posts[d]: the requests its endpoint got
          answered,  \* deliveries whose endpoint gave a conclusive answer
          refused    \* deliveries whose destination the URL guard refused

vars == <<status, posts, answered, refused>>

Init ==
  /\ status = [d \in Deliveries |-> "absent"]
  /\ posts = [d \in Deliveries |-> 0]
  /\ answered = {}
  /\ refused = {}

Pending(d) == status[d] = "pending"
Become(d, s) == status' = [status EXCEPT ![d] = s]

Queue(d) ==
  /\ status[d] = "absent"
  /\ Become(d, "pending")
  /\ UNCHANGED <<posts, answered, refused>>

Request(d) ==
  /\ Pending(d)
  /\ posts' = [posts EXCEPT ![d] = IF @ < Enough[d] THEN @ + 1 ELSE @]
  /\ UNCHANGED <<status, answered, refused>>

Answer(d) ==
  /\ Pending(d) /\ posts[d] > 0
  /\ answered' = answered \cup {d}
  /\ UNCHANGED <<status, posts, refused>>

Refuse(d) ==
  /\ Pending(d)
  /\ refused' = refused \cup {d}
  /\ UNCHANGED <<status, posts, answered>>

Deliver(d) ==
  /\ Pending(d) /\ d \in answered
  /\ Become(d, "delivered")
  /\ UNCHANGED <<posts, answered, refused>>

Fail(d) ==
  /\ Pending(d) /\ (d \in refused \/ posts[d] >= MaxAttempts)
  /\ Become(d, "failed")
  /\ UNCHANGED <<posts, answered, refused>>

Next ==
  \E d \in Deliveries :
    Queue(d) \/ Request(d) \/ Answer(d) \/ Refuse(d) \/ Deliver(d) \/ Fail(d)

Spec == Init /\ [][Next]_vars
=============================================================================
