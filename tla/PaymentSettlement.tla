------------------------- MODULE PaymentSettlement -------------------------
(***************************************************************************)
(* What the consumer promises, without tasks, channels, row locks, retries *)
(* or crashes: a payment gets one outcome, that its client is to be told,  *)
(* and only after a message about it has arrived; a message is             *)
(* acknowledged only when its payment has an outcome.  What the broker     *)
(* holds is not persistent: a restart of the broker loses it.              *)
(* PaymentConsumer implements it.                                          *)
(***************************************************************************)
CONSTANTS Payments,   \* the payments that exist
          Messages,   \* messages ever published, duplicates included
          PaymentOf   \* the payment_id of a message

VARIABLES place,   \* place[m]: where message m is
          outcome  \* outcome[p]: the status the queued webhook of p carries

vars == <<place, outcome>>

Final == {"succeeded", "failed"}

Init ==
  /\ place = [m \in Messages |-> "absent"]
  /\ outcome = [p \in Payments |-> "none"]

Move(m, from, to) == place[m] = from /\ place' = [place EXCEPT ![m] = to]

Arrive(m) == Move(m, "absent", "queued") /\ UNCHANGED outcome

Arrived(p) == \E m \in Messages : PaymentOf[m] = p /\ place[m] # "absent"

Settle(p) ==
  /\ Arrived(p) /\ outcome[p] = "none"
  /\ \E s \in Final : outcome' = [outcome EXCEPT ![p] = s]
  /\ UNCHANGED place

Ack(m) ==
  /\ PaymentOf[m] \in Payments /\ outcome[PaymentOf[m]] # "none"
  /\ Move(m, "queued", "acked")
  /\ UNCHANGED outcome

DeadLetter(m) == Move(m, "queued", "dlq") /\ UNCHANGED outcome

BrokerRestart ==
  /\ place' = [m \in Messages |->
       IF place[m] \in {"queued", "dlq"} THEN "lost" ELSE place[m]]
  /\ UNCHANGED outcome

Next ==
  \/ \E m \in Messages : Arrive(m) \/ Ack(m) \/ DeadLetter(m)
  \/ \E p \in Payments : Settle(p)
  \/ BrokerRestart

Spec == Init /\ [][Next]_vars
=============================================================================
