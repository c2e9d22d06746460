----------------------------- MODULE DistinctSeq -----------------------------
(***************************************************************************)
(* Lists without repetitions that lose one element at a time: the queue of *)
(* a tokio mutex, which is fair (tasks get it in the order in which they   *)
(* began to wait, and one whose future is dropped leaves its place), and   *)
(* the list of nodes of a ring.                                            *)
(***************************************************************************)
EXTENDS Naturals, Sequences, SequencesExt

\* The list q without x, which has one place in it at most.
Leave(q, x) ==
  IF x \in ToSet(q) THEN RemoveAt(q, CHOOSE i \in DOMAIN q : q[i] = x) ELSE q
=============================================================================
