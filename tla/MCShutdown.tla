------------------------------ MODULE MCShutdown ------------------------------
(* Two workers and two requests, the second of which may come at any time of *)
(* the teardown.                                                             *)
EXTENDS Shutdown

MCWorkers == {"w1", "w2"}

=============================================================================
