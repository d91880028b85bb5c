-------------------------- MODULE IdempotentCreate --------------------------
(***************************************************************************)
(* What POST /api/v1/payments promises a client, without transactions,     *)
(* locks or failures: at most one payment is ever registered for an        *)
(* idempotency key, and whatever a request is told, it is told about the   *)
(* payment registered for its own key.  PaymentApi implements it.          *)
(***************************************************************************)
CONSTANTS Requests,  \* the requests clients ever send
          Keys,      \* the values of the Idempotency-Key header
          NoKey,     \* a request that has not been sent
          NoPayment  \* a request that has not been told of a payment

VARIABLES asked,     \* asked[r]: the key of request r
          registry,  \* the payments that exist, each named by its request
          told       \* told[r]: the payment the answer to r names

vars == <<asked, registry, told>>

Init ==
  /\ asked = [r \in Requests |-> NoKey]
  /\ registry = {}
  /\ told = [r \in Requests |-> NoPayment]

Ask(r) ==
  /\ asked[r] = NoKey
  /\ \E k \in Keys : asked' = [asked EXCEPT ![r] = k]
  /\ UNCHANGED <<registry, told>>

Register(r) ==
  /\ asked[r] # NoKey
  /\ \A p \in registry : asked[p] # asked[r]
  /\ registry' = registry \cup {r}
  /\ UNCHANGED <<asked, told>>

Tell(r) ==
  /\ told[r] = NoPayment
  /\ \E p \in registry : /\ asked[p] = asked[r]
                         /\ told' = [told EXCEPT ![r] = p]
  /\ UNCHANGED <<asked, registry>>

Next == \E r \in Requests : Ask(r) \/ Register(r) \/ Tell(r)

Spec == Init /\ [][Next]_vars
=============================================================================
