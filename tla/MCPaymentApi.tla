---------------------------- MODULE MCPaymentApi ----------------------------
(* Small instances of PaymentApi.                                          *)
EXTENDS PaymentApi, TLC

CONSTANTS r1, r2, r3, k1, k2

MCRequests == {r1, r2, r3}
MCKeys == {k1, k2}

\* Every flaw alone, none, and pairs whose checks come in one order or the other.
MCInputs ==
  {{}} \cup {{f} : f \in Flaws}
    \cup {{"api_key", "unserializable"}, {"unparsable", "api_key"}, {"key_format", "overflow"}}

\* Requests and keys are interchangeable; used where no liveness is checked.
Symmetry == Permutations(MCRequests) \cup Permutations(MCKeys)
=============================================================================
