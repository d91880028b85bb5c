----------------------------- MODULE OutboxRelay -----------------------------
(***************************************************************************)
(* What the transactional outbox promises, without workers, row locks,     *)
(* retries or crashes: an event is sent only while it is pending, is       *)
(* settled as published only after it was sent, and is given up only when  *)
(* its payload cannot be read.  OutboxPublisher implements it.             *)
(***************************************************************************)
EXTENDS Naturals

CONSTANTS Events,   \* the outbox rows
          Invalid   \* those whose payload is not a payment.new message

VARIABLES status,   \* status[e]: outbox.status
          sent      \* sent[e]: how many messages the broker was given for e

vars == <<status, sent>>

Init ==
  /\ status = [e \in Events |-> "absent"]
  /\ sent = [e \in Events |-> 0]

Move(e, from, to) == status[e] = from /\ status' = [status EXCEPT ![e] = to]

Add(e) == Move(e, "absent", "pending") /\ UNCHANGED sent

Send(e) ==
  /\ status[e] = "pending" /\ e \notin Invalid
  /\ sent' = [sent EXCEPT ![e] = @ + 1]
  /\ UNCHANGED status

Settle(e) == sent[e] > 0 /\ Move(e, "pending", "published") /\ UNCHANGED sent

Discard(e) == e \in Invalid /\ Move(e, "pending", "failed") /\ UNCHANGED sent

Next == \E e \in Events : Add(e) \/ Send(e) \/ Settle(e) \/ Discard(e)

Spec == Init /\ [][Next]_vars
=============================================================================
