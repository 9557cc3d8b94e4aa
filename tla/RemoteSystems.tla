---------------------------- MODULE RemoteSystems ----------------------------
(***************************************************************************)
(* What RakPeer's table of remote systems promises the network thread: a   *)
(* map from the addresses that are connected to the GUIDs behind them, of  *)
(* bounded size, in which a connection may be moved to another address.    *)
(***************************************************************************)
EXTENDS FiniteSets, Functions, Integers

CONSTANTS SystemAddress, Guid, MaximumNumberOfPeers

VARIABLE connection    \* connected address -> GUID

Connect(a, g) ==
  /\ a \notin DOMAIN connection
  /\ Cardinality(DOMAIN connection) < MaximumNumberOfPeers
  /\ connection' = [b \in DOMAIN connection \cup {a} |->
                      IF b = a THEN g ELSE connection[b]]

Disconnect(a) ==
  /\ a \in DOMAIN connection
  /\ connection' = Restrict(connection, DOMAIN connection \ {a})

Move(a, b) ==
  /\ a \in DOMAIN connection
  /\ b \notin DOMAIN connection
  /\ connection' = [c \in (DOMAIN connection \ {a}) \cup {b} |->
                      IF c = b THEN connection[a] ELSE connection[c]]

Init == connection = <<>>

Next ==
  \/ \E a \in SystemAddress, g \in Guid : Connect(a, g)
  \/ \E a \in SystemAddress : Disconnect(a)
  \/ \E a, b \in SystemAddress : Move(a, b)

Spec == Init /\ [][Next]_connection

=============================================================================
