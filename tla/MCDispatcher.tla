---------------------------- MODULE MCDispatcher ----------------------------
(* The dispatcher of exercise 7: its queue is unbounded. *)
EXTENDS Dispatcher

CONSTANTS w1, w2

Producers == {0, 1}
NoBound == {Unbounded}
=============================================================================
