-------------------------- MODULE MCBlockingQueue ---------------------------
(* BlockingQueue for TLC: the threads of a run, and their symmetry. *)
EXTENDS BlockingQueue

CONSTANTS p1, p2, c1, c2, poller, closer
TwoProducers == {p1, p2}
TwoConsumers == {c1, c2}
OnePoller == {poller}
ACloser == {closer}
=============================================================================
