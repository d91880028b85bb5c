------------------------- MODULE MCProcessLifecycle -------------------------
(* Two processes, each running any program of the service, one payment.   *)
EXTENDS ProcessLifecycle

CONSTANTS x, y, e1

MCProcesses == {x, y}
MCEvents == {e1}
=============================================================================
