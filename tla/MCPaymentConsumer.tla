-------------------------- MODULE MCPaymentConsumer --------------------------
(* Small instances of PaymentConsumer: two messages for one payment (a     *)
(* duplicate publish), one for a payment that does not exist, one handler  *)
(* at a time in each of two consumers.                                     *)
EXTENDS PaymentConsumer, TLC

CONSTANTS p1, unknown, m1, m2, m3, c1, c2, t1, t2

MCPayments == {p1}
MCMessages == {m1, m2, m3}
MCPaymentOf == m1 :> p1 @@ m2 :> p1 @@ m3 :> unknown
MCConsumers == {c1, c2}
MCTasks == {t1, t2}
MCOwner == t1 :> c1 @@ t2 :> c2

\* Settings that differ: c1 dead-letters what failed once, c2 requeues it.
MixedAttempts == c1 :> 1 @@ c2 :> 2
TwoAttempts == c1 :> 2 @@ c2 :> 2

\* The messages of the payment only.
DupMessages == {m1, m2}
DupPaymentOf == m1 :> p1 @@ m2 :> p1

\* One consumer handling two messages at once.
OneConsumer == {c1}
OneOwner == t1 :> c1 @@ t2 :> c1
OneAttempts == c1 :> 2
=============================================================================
