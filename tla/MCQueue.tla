------------------------------- MODULE MCQueue -------------------------------
(* Two producers and two consumers of up to two calls each, over a queue that *)
(* is unbounded (0), fills up (1, 2) or is just large enough (4).             *)
EXTENDS Queue

Sizes == {0, 1, 2, 4}
=============================================================================
