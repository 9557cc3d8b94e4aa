---------------------------- MODULE SessionTable ----------------------------
(***************************************************************************)
(* What the proxy promises of its sessions, without the loop, the packets  *)
(* and the timers: systems come and go; a session belongs to one that is   *)
(* online and has a peer of its own at the target, made for it under its   *)
(* GUID; a peer is never handed over to another session, and goes when     *)
(* its session is closed. A session that is opened again gets a new peer.  *)
(***************************************************************************)
EXTENDS Functions

CONSTANTS Guid, KeyOf(_), Address, Peer, NoPeer

VARIABLES
  online,    \* addresses of the systems that are connected
  session,   \* key of a GUID -> [guid, owner, peer]
  peer       \* the peers that exist -> [guid, owner]

vars == <<online, session, peer>>

Put(f, k, v) == [x \in DOMAIN f \cup {k} |-> IF x = k THEN v ELSE f[x]]

\* A session of GUID g for the system at a, with a peer that no one has yet.
Open(g, a) ==
  \E p \in Peer \ DOMAIN peer :
    /\ session' = Put(session, KeyOf(g), [guid |-> g, owner |-> a, peer |-> p])
    /\ peer' = Put(peer, p, [guid |-> g, owner |-> a])

Close(U) ==
  /\ session' = Restrict(session, DOMAIN session \ U)
  /\ peer' = Restrict(peer, DOMAIN peer \ {session[u].peer : u \in U})

Join(a) ==
  /\ a \notin online
  /\ online' = online \cup {a}
  /\ (\E g \in Guid : Open(g, a)) \/ UNCHANGED <<session, peer>>

\* All the sessions of a system that leaves are closed; others may be.
Leave(a) ==
  /\ a \in online
  /\ online' = online \ {a}
  /\ \E U \in SUBSET DOMAIN session :
       /\ \A u \in DOMAIN session : session[u].owner = a => u \in U
       /\ Close(U)

Request(a) ==
  /\ a \in online
  /\ \E g \in Guid : Open(g, a)
  /\ UNCHANGED online

Drop ==
  /\ \E U \in SUBSET DOMAIN session : Close(U)
  /\ UNCHANGED online

\* The target ends a session's connection: the peer goes, the session stays.
LosePeer(u) ==
  /\ session[u].peer # NoPeer
  /\ session' = [session EXCEPT ![u].peer = NoPeer]
  /\ peer' = Restrict(peer, DOMAIN peer \ {session[u].peer})
  /\ UNCHANGED online

Stop ==
  /\ online' = {}
  /\ Close(DOMAIN session)

Init == online = {} /\ session = <<>> /\ peer = <<>>

Next ==
  \/ \E a \in Address : Join(a) \/ Leave(a) \/ Request(a)
  \/ \E u \in DOMAIN session : LosePeer(u)
  \/ Drop
  \/ Stop

Spec == Init /\ [][Next]_vars

=============================================================================
