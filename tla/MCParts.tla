------------------------------- MODULE MCParts -------------------------------
(* Small instances of the parts. *)
EXTENDS Parts

Sample(ok, latency) == [ok |-> ok, latency |-> latency]
MCRecords ==
  [t \in {"a", "b", "c"} |->
     CASE t = "a" -> <<Sample(TRUE, 2), Sample(FALSE, 3)>>
       [] t = "b" -> <<Sample(FALSE, 1), Sample(TRUE, 4)>>
       [] t = "c" -> <<Sample(TRUE, 5)>>]

\* The policies of main, delays in units of the initial one: with and without
\* jitter, and one whose last delay is below the cap.
Policy(retries, cap, jitter) ==
  [max_retries |-> retries, max_delay |-> cap, multiplier |-> 2, jitter |-> jitter]
MCPolicies ==
  {Policy(6, 20, FALSE), Policy(3, 20, FALSE), Policy(3, 5, TRUE), Policy(3, 5, FALSE)}

\* Where the virtual nodes fall: all apart, or those of b, of c or of both on a
\* position of a.
MCLayouts ==
  {[n \in {"a", "b", "c"} |-> CASE n = "a" -> A [] n = "b" -> B [] n = "c" -> C] :
     A \in {{0, 3}}, B \in {{1, 5}, {3, 5}}, C \in {{2, 6}, {3, 6}}}

\* Nodes 2 and 3 list the others in order.  Node 1 does so too, or lists them in the
\* other order, or gives the first as a hostname (0).
MCLists ==
  {<<first, <<1, 3>>, <<1, 2>> >> : first \in {<<2, 3>>, <<3, 2>>, <<0, 3>>}}

Anywhere == [w \in {"w1"} |-> {"a", "b", "c"}]

\* What the producer of the published value stores.
MCValues == <<1, 2>>

\* Two replicas of a key on three nodes.
MCReplicas == <<"a", "b">>
=============================================================================
