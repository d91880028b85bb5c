------------------------- MODULE MCPaymentPipeline -------------------------
(* A small instance of PaymentPipeline: two requests that repeat one key or *)
(* create a payment each, one of them for an endpoint that may redirect.    *)
EXTENDS PaymentPipeline, TLC

CONSTANTS r1, r2, k1, k2

MCRequests == {r1, r2}
MCKeys == {k1, k2}
MCRaising == {r2}
MCCopies == [r \in MCRequests |-> IF r = r1 THEN 2 ELSE 1]
=============================================================================
