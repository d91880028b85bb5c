------------------------- MODULE MCWebhookDispatcher -------------------------
(* Small instances of WebhookDispatcher.                                   *)
EXTENDS WebhookDispatcher, TLC

CONSTANTS w1, w2, d1, d2, d3

TwoWorkers == {w1, w2}
OneWorker == {w1}
Two == {d1, d2}
Three == {d1, d2, d3}
First == {d1}
Third == {d3}

\* The backoff is the capped power that the code computes.
ASSUME BackoffIsCappedPower ==
  \A n \in 0..25 : compute_backoff_seconds(n) = Lesser(10, 2 ^ Greater(n - 1, 0))
=============================================================================
