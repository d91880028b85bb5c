-------------------------- MODULE MCOutboxPublisher --------------------------
(* Small instances of OutboxPublisher.                                     *)
EXTENDS OutboxPublisher, TLC

CONSTANTS w1, w2

MCWorkers == {w1, w2}
MCEvents == 1..3
MCInvalid == {2}

\* Workers are interchangeable; used where no liveness is checked.
Symmetry == Permutations(MCWorkers)
=============================================================================
