--------------------------- MODULE MCRaknetProxy ---------------------------
(***************************************************************************)
(* Instances of RaknetProxy for TLC.                                       *)
(***************************************************************************)
EXTENDS RaknetProxy, TLC

\* Every address has an IP of its own, or the NAT server shares the
\* coordinator's (the port is not looked at).
DistinctIps == [a \in Address |-> a]
SharedServerIp == [a \in Address |-> IF a = NatServer THEN Coordinator ELSE a]

\* Child peers are alike, for the runs that check no liveness.
InterchangeableChildren == Permutations(Child)

=============================================================================
