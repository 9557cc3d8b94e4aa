-------------------------- MODULE MCRakPeerHandshake --------------------------
(***************************************************************************)
(* Instances of RakPeerHandshake for TLC.                                  *)
(***************************************************************************)
EXTENDS RakPeerHandshake

CONSTANTS a, b, c

Limits(connects, cancels, closes, faults, restarts) ==
  [x \in Budgets |-> CASE x = "connects" -> connects [] x = "cancels" -> cancels
                       [] x = "closes" -> closes [] x = "faults" -> faults
                       [] x = "restarts" -> restarts [] x = "admissions" -> 3]

Plain == [dials |-> {<<a, b>>}, wrongPassword |-> {}, otherVersion |-> {},
          maximumNumberOfPeers |-> [p \in Peer |-> 2],
          maximumIncomingConnections |-> [p \in Peer |-> IF p = b THEN 1 ELSE 0],
          limit |-> Limits(2, 0, 0, 1, 0)]

Crossed ==
  [Plain EXCEPT !.dials = {<<a, b>>, <<b, a>>},
                !.maximumIncomingConnections = [p \in Peer |-> 2],
                !.limit = Limits(2, 0, 0, 0, 0)]

\* Two attempts with a failure of the network and a restart, with a close and a
\* cancelled attempt; a wrong password; another version; two peers for one slot,
\* on the side that is dialled and on the side that dials; both sides dial.
AllSettings ==
  {[Plain EXCEPT !.limit = Limits(2, 0, 0, 1, 1)],
   [Plain EXCEPT !.limit = Limits(2, 1, 1, 0, 0)],
   [Plain EXCEPT !.wrongPassword = {<<a, b>>}, !.limit = Limits(2, 0, 0, 0, 0)],
   [Plain EXCEPT !.otherVersion = {<<a, b>>}, !.limit = Limits(2, 0, 0, 0, 0)],
   [Plain EXCEPT !.dials = {<<a, b>>, <<c, b>>}, !.limit = Limits(2, 0, 0, 0, 0),
                 !.maximumNumberOfPeers = [p \in Peer |-> 1]],
   [Plain EXCEPT !.dials = {<<c, b>>, <<b, a>>}, !.limit = Limits(2, 0, 0, 0, 0),
                 !.maximumNumberOfPeers = [p \in Peer |-> 1],
                 !.maximumIncomingConnections = [p \in Peer |-> 1]],
   Crossed}

CrossedSettings == {Crossed}

=============================================================================
