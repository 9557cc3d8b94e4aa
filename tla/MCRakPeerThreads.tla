-------------------------- MODULE MCRakPeerThreads --------------------------
(* One or two start-ups of a RakPeer with room for two remote systems. *)
EXTENDS RakPeerThreads

CONSTANTS p1, p2

Only(limits) == limits @@ [b \in Budgets |-> 0]

Cases == {
  Only([runs |-> 2, opens |-> 1, messages |-> 2, closes |-> 2]),
  Only([runs |-> 1, opens |-> 2, messages |-> 2, faults |-> 1]),
  Only([runs |-> 1, opens |-> 2, messages |-> 1, closes |-> 1]),
  Only([runs |-> 1, opens |-> 1, messages |-> 3, closes |-> 1]),
  Only([runs |-> 2, opens |-> 2, closes |-> 1, floods |-> 1]),
  Only([runs |-> 2, opens |-> 1, messages |-> 1, queries |-> 2])}
=============================================================================
