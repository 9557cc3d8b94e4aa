------------------------- MODULE RaknetProxy_proofs -------------------------
(***************************************************************************)
(* Proofs about RaknetProxy, for every set of GUIDs, addresses and child   *)
(* peers: its invariants, and that it implements SessionTable.             *)
(*                                                                         *)
(* The handlers touch the client table in three ways: a session is created *)
(* (CreateChildPeer), sessions are erased with their children              *)
(* (DestroyAndErase), or fields of sessions change that no invariant of    *)
(* the table looks at. One lemma for each way shows what it preserves, and *)
(* the step of an action cites the lemma of its way.                       *)
(***************************************************************************)
EXTENDS RaknetProxy, TLAPS

TableTypeOK ==
  /\ DOMAIN clients \subseteq Uin /\ clients \in [DOMAIN clients -> ClientContext]
  /\ DOMAIN child \subseteq Child /\ child \in [DOMAIN child -> ChildPeer]

TableInv == TableTypeOK /\ SessionsOwnTheirChildren

\* The side of the main peer that session u is on does not change.
SameAddress(u) ==
  u \in DOMAIN clients /\ clients'[u].clientAddress = clients[u].clientAddress

Inv == TypeOK /\ SessionsOwnTheirChildren /\ ClientsConnected

\* A created session has a child of its own, and no other is disturbed.
LEMMA CreateKeepsTable ==
  ASSUME TableInv, NEW g \in Guid, NEW a \in Remote, CreateChildPeer(g, a)
  PROVE  /\ TableInv'
         /\ DOMAIN clients \subseteq DOMAIN clients'
         /\ \A u \in DOMAIN clients' : SameAddress(u) \/ clients'[u].clientAddress = a
<1>1. CASE UNCHANGED sessions
  BY <1>1 DEF sessions, TableInv, TableTypeOK, SessionsOwnTheirChildren, OwnsChild, SameAddress
<1>2. ASSUME NEW c \in Child \ DOMAIN child,
             child' = Put(child, c, NewChild(g, a)),
             clients' = Put(clients, GetUIN(g), NewContext(c, g, a))
      PROVE  /\ TableInv'
             /\ DOMAIN clients \subseteq DOMAIN clients'
             /\ \A u \in DOMAIN clients' : SameAddress(u) \/ clients'[u].clientAddress = a
  <2>1. GetUIN(g) \in Uin
    BY DEF Uin
  <2>2. NewContext(c, g, a) \in ClientContext
    BY DEF NewContext, ClientContext, Address, ConnectionState, Timeout
  <2>3. NewChild(g, a) \in ChildPeer
    BY DEF NewChild, ChildPeer
  <2>4. /\ DOMAIN clients' = DOMAIN clients \cup {GetUIN(g)}
        /\ DOMAIN clients' \subseteq Uin
        /\ clients' \in [DOMAIN clients' -> ClientContext]
        /\ clients'[GetUIN(g)] = NewContext(c, g, a)
        /\ \A u \in DOMAIN clients : u # GetUIN(g) => clients'[u] = clients[u]
    <3>1. DOMAIN clients \subseteq Uin /\ clients \in [DOMAIN clients -> ClientContext]
      BY DEF TableInv, TableTypeOK
    <3>2. clients' = Put(clients, GetUIN(g), NewContext(c, g, a))
      BY <1>2
    <3> HIDE DEF GetUIN, NewContext
    <3> QED
      BY <2>1, <2>2, <3>1, <3>2 DEF Put
  <2>5. /\ DOMAIN child' = DOMAIN child \cup {c}
        /\ DOMAIN child' \subseteq Child
        /\ child' \in [DOMAIN child' -> ChildPeer]
        /\ child'[c] = NewChild(g, a)
        /\ \A d \in DOMAIN child : child'[d] = child[d]
    <3>1. DOMAIN child \subseteq Child /\ child \in [DOMAIN child -> ChildPeer]
      BY DEF TableInv, TableTypeOK
    <3>2. child' = Put(child, c, NewChild(g, a))
      BY <1>2
    <3> HIDE DEF NewChild
    <3> QED
      BY <2>3, <3>1, <3>2 DEF Put
  <2>6. ASSUME NEW u \in DOMAIN clients'
        PROVE  OwnsChild(u)'
    <3>1. c # NULL
      BY ConstantsAssumption
    <3>2. ASSUME NEW v \in DOMAIN clients
          PROVE  clients[v].childPeer # c
      BY <1>2, <3>1 DEF TableInv, SessionsOwnTheirChildren, OwnsChild
    <3>3. CASE u = GetUIN(g)
      BY <2>4, <2>5, <3>2, <3>3 DEF OwnsChild, NewContext, NewChild
    <3>4. CASE u # GetUIN(g)
      <4>1. u \in DOMAIN clients /\ OwnsChild(u) /\ clients'[u] = clients[u]
        BY <2>4, <3>4 DEF TableInv, SessionsOwnTheirChildren
      <4>2. clients'[GetUIN(g)].childPeer = c
        BY <2>4 DEF NewContext
      <4>3. clients[u].childPeer # c
        BY <4>1, <3>2
      <4> QED
        BY <2>4, <2>5, <4>1, <4>2, <4>3 DEF OwnsChild
    <3> QED
      BY <3>3, <3>4
  <2>7. \A u \in DOMAIN clients' : SameAddress(u) \/ clients'[u].clientAddress = a
    BY <2>4 DEF NewContext, SameAddress
  <2> QED
    BY <2>4, <2>5, <2>6, <2>7 DEF TableInv, TableTypeOK, SessionsOwnTheirChildren
<1> QED
  BY <1>1, <1>2 DEF CreateChildPeer

\* Erasing sessions with their children leaves the others theirs.
LEMMA EraseKeepsTable ==
  ASSUME TableInv, NEW U \in SUBSET DOMAIN clients, DestroyAndErase(U)
  PROVE  /\ TableInv'
         /\ DOMAIN clients' = DOMAIN clients \ U
         /\ \A u \in DOMAIN clients' : clients'[u] = clients[u]
<1>1. /\ DOMAIN clients' = DOMAIN clients \ U
      /\ DOMAIN clients' \subseteq Uin
      /\ clients' \in [DOMAIN clients' -> ClientContext]
      /\ \A u \in DOMAIN clients' : clients'[u] = clients[u]
  BY DEF Restrict, DestroyAndErase, TableInv, TableTypeOK
<1>2. /\ DOMAIN child' = DOMAIN child \ {clients[u].childPeer : u \in U}
      /\ DOMAIN child' \subseteq Child
      /\ child' \in [DOMAIN child' -> ChildPeer]
      /\ \A d \in DOMAIN child' : child'[d] = child[d]
  BY DEF Restrict, DestroyAndErase, TableInv, TableTypeOK
<1>3. ASSUME NEW u \in DOMAIN clients'
      PROVE  OwnsChild(u)'
  <2>1. OwnsChild(u)
    BY <1>1 DEF TableInv, SessionsOwnTheirChildren
  <2>2. ASSUME clients[u].childPeer # NULL
        PROVE  clients[u].childPeer \in DOMAIN child'
    <3>1. \A v \in U : clients[v].childPeer # clients[u].childPeer
      BY <1>1, <2>1, <2>2 DEF OwnsChild
    <3> QED
      BY <1>2, <2>1, <2>2, <3>1 DEF OwnsChild
  <2> QED
    BY <1>1, <1>2, <2>1, <2>2 DEF OwnsChild
<1> QED
  BY <1>1, <1>2, <1>3 DEF TableInv, TableTypeOK, SessionsOwnTheirChildren

\* Sessions keep their child or lose it, children keep their identity, and a
\* child that goes is no session's any more.
LEMMA UpdateKeepsTable ==
  ASSUME TableInv, TableTypeOK',
         DOMAIN clients' = DOMAIN clients,
         \A u \in DOMAIN clients :
           /\ clients'[u].childPeer \in {clients[u].childPeer, NULL}
           /\ clients'[u].clientGuid = clients[u].clientGuid
           /\ clients'[u].clientAddress = clients[u].clientAddress
           /\ clients'[u].childPeer # NULL => clients'[u].childPeer \in DOMAIN child',
         \A c \in DOMAIN child' : /\ c \in DOMAIN child
                                  /\ child'[c].guid = child[c].guid
                                  /\ child'[c].owner = child[c].owner
  PROVE  TableInv'
<1>1. ASSUME NEW u \in DOMAIN clients'
      PROVE  OwnsChild(u)'
  BY <1>1 DEF TableInv, SessionsOwnTheirChildren, OwnsChild
<1> QED
  BY <1>1 DEF TableInv, SessionsOwnTheirChildren

\* A step that changes neither the table nor a connection.
LEMMA IdleStep ==
  ASSUME Inv, UNCHANGED <<sessions, network>>, running' \in BOOLEAN,
         \/ UNCHANGED <<pc, pending>>
         \/ pc' = "children" /\ pending' \subseteq DOMAIN clients
         \/ pc' = "sweep" /\ pending' = {}
  PROVE  Inv'
<1>1. TypeOK'
  BY DEF Inv, TypeOK, sessions, network
<1>2. SessionsOwnTheirChildren'
  BY DEF Inv, SessionsOwnTheirChildren, OwnsChild, sessions
<1>3. ClientsConnected'
  BY DEF Inv, ClientsConnected, Connected, sessions, network
<1> QED
  BY <1>1, <1>2, <1>3 DEF Inv

\* A step in which no connection ends and the table stays well formed, its
\* sessions' addresses the same or connected.
LEMMA ConnectedStep ==
  ASSUME Inv, TableInv',
         \A b \in Remote : Connected(b) => Connected(b)',
         \A u \in DOMAIN clients' : SameAddress(u) \/ Connected(clients[u].clientAddress)',
         DOMAIN incoming' \subseteq Client /\ incoming' \in [DOMAIN incoming' -> Guid],
         server' \in [Server -> {"idle", "connecting", "connected"}],
         coordinatorAddress' \in Server \cup {Unassigned},
         running' \in BOOLEAN, pc' \in {"sweep", "main", "children", "done"},
         pending' \subseteq DOMAIN clients', pc' # "children" => pending' = {}
  PROVE  Inv'
<1>1. TypeOK'
  BY DEF TableInv, TableTypeOK, TypeOK
<1>2. ASSUME NEW u \in DOMAIN clients'
      PROVE  Connected(clients[u].clientAddress)'
  <2>1. CASE SameAddress(u)
    <3>1. clients[u] \in ClientContext /\ Connected(clients[u].clientAddress)
      BY <2>1 DEF SameAddress, Inv, TypeOK, ClientsConnected
    <3> QED
      BY <2>1, <3>1 DEF SameAddress, ClientContext
  <2> QED
    BY <1>2, <2>1
<1>3. ClientsConnected'
  BY <1>2 DEF ClientsConnected
<1> QED
  BY <1>1, <1>3 DEF Inv, TableInv

\* The part of the invariant that concerns the client table alone.
LEMMA InvIsTableInv == Inv => TableInv
BY DEF Inv, TypeOK, TableInv, TableTypeOK

\* Who is connected depends on the main peer's connections only.
LEMMA NetworkKept ==
  ASSUME UNCHANGED network
  PROVE  \A b : Connected(b)' <=> Connected(b)
BY DEF network, Connected

\* Fields of sessions that Inv does not look at change, the rest does not.
LEMMA UpdateStep ==
  ASSUME Inv, TableTypeOK', UNCHANGED network, running' \in BOOLEAN,
         DOMAIN clients' = DOMAIN clients,
         \A u \in DOMAIN clients :
           /\ clients'[u].childPeer \in {clients[u].childPeer, NULL}
           /\ clients'[u].clientGuid = clients[u].clientGuid
           /\ clients'[u].clientAddress = clients[u].clientAddress
           /\ clients'[u].childPeer # NULL => clients'[u].childPeer \in DOMAIN child',
         \A c \in DOMAIN child' : /\ c \in DOMAIN child
                                  /\ child'[c].guid = child[c].guid
                                  /\ child'[c].owner = child[c].owner,
         \/ UNCHANGED pc /\ pending' \subseteq pending
         \/ pc' = "children" /\ pending' \subseteq DOMAIN clients'
  PROVE  Inv'
<1>1. TableInv'
  BY InvIsTableInv, UpdateKeepsTable
<1>2. \A u \in DOMAIN clients' : SameAddress(u)
  BY DEF SameAddress
<1>3. TypeOK'
  BY DEF Inv, TypeOK, TableTypeOK, network
<1>4. \A b \in Remote : Connected(b) => Connected(b)'
  BY NetworkKept
<1> QED
  BY <1>1, <1>2, <1>3, <1>4, ConnectedStep DEF TypeOK

\* Sessions are erased with their children, and no connection ends but that
\* of a, which had no session that stays.
LEMMA EraseStep ==
  ASSUME Inv, NEW a, NEW U \in SUBSET DOMAIN clients, DestroyAndErase(U),
         \A b \in Remote \ {a} : Connected(b) => Connected(b)',
         Connected(a)' \/ SessionsOf(a) \subseteq U \/ ~Connected(a),
         DOMAIN incoming' \subseteq Client /\ incoming' \in [DOMAIN incoming' -> Guid],
         server' \in [Server -> {"idle", "connecting", "connected"}],
         coordinatorAddress' \in Server \cup {Unassigned},
         running' \in BOOLEAN, pc' \in {"sweep", "main", "children", "done"},
         pending' \subseteq DOMAIN clients', pc' # "children" => pending' = {}
  PROVE  Inv'
<1>1. /\ TableInv'
      /\ DOMAIN clients' = DOMAIN clients \ U
      /\ \A u \in DOMAIN clients' : clients'[u] = clients[u]
  BY InvIsTableInv, EraseKeepsTable
<1>2. TypeOK'
  BY <1>1 DEF TableInv, TableTypeOK, TypeOK
<1>3. ASSUME NEW u \in DOMAIN clients'
      PROVE  Connected(clients[u].clientAddress)'
  <2>1. /\ clients[u] \in ClientContext /\ Connected(clients[u].clientAddress)
        /\ u \notin U /\ u \in DOMAIN clients
    BY <1>1 DEF Inv, TypeOK, ClientsConnected
  <2>2. clients[u].clientAddress # a \/ Connected(a)'
    BY <2>1 DEF SessionsOf
  <2> QED
    BY <1>1, <2>1, <2>2 DEF ClientContext
<1> QED
  BY <1>1, <1>2, <1>3 DEF Inv, TableInv, ClientsConnected

\* main() starts with an empty table and no incoming connection.
LEMMA InitInv == Init => Inv
<1> SUFFICES ASSUME Init PROVE Inv
  OBVIOUS
<1>1. DOMAIN clients = {} /\ DOMAIN child = {} /\ DOMAIN incoming = {}
  BY DEF Init
<1>2. server \in [Server -> {"idle", "connecting", "connected"}]
  BY DEF Init
<1>3. TypeOK
  BY <1>1, <1>2 DEF Init, TypeOK
<1> QED
  BY <1>1, <1>3 DEF Inv, SessionsOwnTheirChildren, ClientsConnected

\* Dialling a server again takes no connection down.
LEMMA RedialType ==
  ASSUME NEW servers, NEW link \in [Server -> {"idle", "connecting", "connected"}],
         Redial(servers, link)
  PROVE  /\ server' \in [Server -> {"idle", "connecting", "connected"}]
         /\ \A s \in Server : link[s] # "idle" => server'[s] = link[s]
BY DEF Redial

\* The end of a connection, with at least the sessions over it erased.
LEMMA DepartureStep ==
  ASSUME Inv, NEW a \in Remote, Handling(a), Polled,
         NEW U \in SUBSET DOMAIN clients, SessionsOf(a) \subseteq U, Departure(a, U)
  PROVE  Inv'
<1> DEFINE link == [s \in Server |-> IF s = a THEN "idle" ELSE server[s]]
<1>1. link \in [Server -> {"idle", "connecting", "connected"}]
  BY DEF Inv, TypeOK
<1>2. /\ server' \in [Server -> {"idle", "connecting", "connected"}]
      /\ \A s \in Server : link[s] # "idle" => server'[s] = link[s]
  <2> HIDE DEF link
  <2>1. PICK servers : Redial(servers, link)
    BY DEF Departure, link
  <2> QED
    BY <1>1, <2>1, RedialType
<1>3. /\ DOMAIN incoming' = DOMAIN incoming \ {a}
      /\ incoming' \in [DOMAIN incoming' -> Guid]
  BY DEF Departure, Restrict, Inv, TypeOK
<1>4. \A b \in Remote \ {a} : Connected(b) => Connected(b)'
  BY <1>2, <1>3 DEF Connected
<1>5. coordinatorAddress' \in Server \cup {Unassigned}
  BY DEF Departure, Inv, TypeOK
<1>6. DestroyAndErase(U)
  BY DEF Departure
<1> QED
  BY <1>2, <1>3, <1>4, <1>5, <1>6, EraseStep DEF Polled, Inv, TypeOK

\* A handler that has a child peer created for a connected system.
LEMMA CreateStep ==
  ASSUME Inv, NEW g \in Guid, NEW a \in Remote, Connected(a)', CreateChildPeer(g, a),
         \A b \in Remote : Connected(b) => Connected(b)',
         DOMAIN incoming' \subseteq Client /\ incoming' \in [DOMAIN incoming' -> Guid],
         UNCHANGED <<server, coordinatorAddress>>, Polled
  PROVE  Inv'
<1>1. /\ TableInv'
      /\ \A u \in DOMAIN clients' : SameAddress(u) \/ clients'[u].clientAddress = a
  BY InvIsTableInv, CreateKeepsTable
<1>2. \A u \in DOMAIN clients' : SameAddress(u) \/ Connected(clients[u].clientAddress)'
  BY <1>1
<1> QED
  BY <1>1, <1>2, ConnectedStep DEF Inv, TypeOK, Polled

\* Whatever packet the main peer returns, its handler preserves the invariant.
LEMMA MainPeerInv == Inv /\ MainPeer => Inv'
<1> SUFFICES ASSUME Inv, MainPeer PROVE Inv'
  OBVIOUS
<1>1. CASE NoPacket
  BY <1>1, IdleStep DEF NoPacket, Polled, Inv, TypeOK, sessions, network
<1>2. ASSUME NEW a \in Client, NEW g \in Guid, NewIncomingConnection(a, g)
      PROVE  Inv'
  <2>1. /\ DOMAIN incoming' = DOMAIN incoming \cup {a}
        /\ incoming' \in [DOMAIN incoming' -> Guid]
    BY <1>2 DEF NewIncomingConnection, Put, Inv, TypeOK
  <2>2. Connected(a)' /\ \A b \in Remote : Connected(b) => Connected(b)'
    BY <1>2, <2>1 DEF NewIncomingConnection, Connected
  <2>3. CASE CreateChildPeer(g, a)
    BY <1>2, <2>1, <2>2, <2>3, CreateStep DEF NewIncomingConnection, Remote, Inv, TypeOK
  <2>4. CASE /\ GetUIN(g) \in DOMAIN clients
             /\ clients' = [clients EXCEPT ![GetUIN(g)].targetAddress = a,
                                           ![GetUIN(g)].state = "CONNECTED"]
             /\ UNCHANGED child
    <3>1. TableTypeOK'
      BY <2>4 DEF Inv, TypeOK, TableTypeOK, ClientContext, Address, Remote, ConnectionState
    <3>2. /\ DOMAIN clients' = DOMAIN clients
          /\ \A u \in DOMAIN clients :
               /\ clients'[u].childPeer = clients[u].childPeer
               /\ clients'[u].clientGuid = clients[u].clientGuid
               /\ clients'[u].clientAddress = clients[u].clientAddress
      BY <2>4 DEF Inv, TypeOK, ClientContext
    <3>3. TableInv'
      BY <2>4, <3>1, <3>2, InvIsTableInv, UpdateKeepsTable
        DEF TableInv, SessionsOwnTheirChildren, OwnsChild
    <3>4. \A u \in DOMAIN clients' : SameAddress(u)
      BY <3>2 DEF SameAddress
    <3> QED
      BY <1>2, <2>1, <2>2, <3>3, <3>4, ConnectedStep
        DEF NewIncomingConnection, Polled, Inv, TypeOK
  <2> QED
    BY <1>2, <2>3, <2>4 DEF NewIncomingConnection
<1>3. ASSUME NEW s \in Server, ConnectionRequestAccepted(s)
      PROVE  Inv'
  <2>1. \A b \in Remote : Connected(b) => Connected(b)'
    BY <1>3 DEF ConnectionRequestAccepted, Connected, Inv, TypeOK
  <2>2. TableInv' /\ \A u \in DOMAIN clients' : SameAddress(u)
    BY <1>3, InvIsTableInv DEF ConnectionRequestAccepted, sessions, TableInv, TableTypeOK,
      SessionsOwnTheirChildren, OwnsChild, SameAddress
  <2>3. /\ server' \in [Server -> {"idle", "connecting", "connected"}]
        /\ coordinatorAddress' \in Server \cup {Unassigned}
    BY <1>3 DEF ConnectionRequestAccepted, Inv, TypeOK
  <2> QED
    BY <1>3, <2>1, <2>2, <2>3, ConnectedStep
      DEF ConnectionRequestAccepted, Polled, Inv, TypeOK
<1>4. ASSUME NEW s \in Server, ConnectionAttemptFailed(s)
      PROVE  Inv'
  <2>1. \A b \in Remote : Connected(b) => Connected(b)'
    BY <1>4 DEF ConnectionAttemptFailed, Connected, Inv, TypeOK
  <2>2. TableInv' /\ \A u \in DOMAIN clients' : SameAddress(u)
    BY <1>4, InvIsTableInv DEF ConnectionAttemptFailed, sessions, TableInv, TableTypeOK,
      SessionsOwnTheirChildren, OwnsChild, SameAddress
  <2>3. server' \in [Server -> {"idle", "connecting", "connected"}]
    BY <1>4 DEF ConnectionAttemptFailed, Inv, TypeOK
  <2> QED
    BY <1>4, <2>1, <2>2, <2>3, ConnectedStep
      DEF ConnectionAttemptFailed, Polled, Inv, TypeOK
<1>5. ASSUME NEW g \in Guid, NatPunchthroughSucceeded(g)
      PROVE  Inv'
  <2>1. TableTypeOK'
    BY <1>5 DEF NatPunchthroughSucceeded, Inv, TypeOK, TableTypeOK, ClientContext,
      ConnectionState
  <2>2. /\ DOMAIN clients' = DOMAIN clients
        /\ \A u \in DOMAIN clients :
             /\ clients'[u].childPeer = clients[u].childPeer
             /\ clients'[u].clientGuid = clients[u].clientGuid
             /\ clients'[u].clientAddress = clients[u].clientAddress
    BY <1>5 DEF NatPunchthroughSucceeded, Inv, TypeOK, ClientContext
  <2> QED
    BY <1>5, <2>1, <2>2, UpdateStep DEF NatPunchthroughSucceeded, Polled,
      Inv, TypeOK, SessionsOwnTheirChildren, OwnsChild
<1>6. ASSUME NEW a \in Remote, DisconnectionNotification(a)
      PROVE  Inv'
  <2>1. SessionsOf(a) \in SUBSET DOMAIN clients
    BY DEF SessionsOf
  <2> QED
    BY <1>6, <2>1, DepartureStep DEF DisconnectionNotification
<1>7. ASSUME NEW a \in Remote, ConnectionLost(a)
      PROVE  Inv'
  <2>1. /\ SessionsThrough(a) \in SUBSET DOMAIN clients
        /\ SessionsOf(a) \subseteq SessionsThrough(a)
    BY DEF SessionsOf, SessionsThrough
  <2> QED
    BY <1>7, <2>1, DepartureStep DEF ConnectionLost
<1>8. ASSUME NEW a \in Remote, NEW key, OtherPacket(a, key)
      PROVE  Inv'
  BY <1>8, IdleStep DEF OtherPacket, Polled, Inv, TypeOK, sessions, network
<1>9. ASSUME NEW a \in Remote, HandlePingMessage(a)
      PROVE  Inv'
  BY <1>9, IdleStep DEF HandlePingMessage, Polled, Inv, TypeOK, sessions, network
<1>10. ASSUME NEW a \in Remote, HandleDisconnectMessage(a)
       PROVE  Inv'
  <2>1. PICK u \in SessionsOf(a) : DestroyAndErase({u})
    BY <1>10 DEF HandleDisconnectMessage
  <2>2. {u} \in SUBSET DOMAIN clients
    BY <2>1 DEF SessionsOf
  <2>3. Connected(a)' /\ \A b \in Remote : Connected(b) => Connected(b)'
    BY <1>10, NetworkKept DEF HandleDisconnectMessage, Handling
  <2> QED
    BY <1>10, <2>1, <2>2, <2>3, EraseStep
      DEF HandleDisconnectMessage, Polled, network, Inv, TypeOK
<1>11. ASSUME NEW a \in Remote, NEW g \in Guid, HandleClientRegister(a, g)
       PROVE  Inv'
  <2>1. Connected(a)' /\ \A b \in Remote : Connected(b) => Connected(b)'
    BY <1>11, NetworkKept DEF HandleClientRegister, Handling
  <2> QED
    BY <1>11, <2>1, CreateStep DEF HandleClientRegister, network, Inv, TypeOK
<1>12. ASSUME NEW a \in Remote, NEW g \in Guid, ClientOnline(a, g)
       PROVE  Inv'
  <2>1. Connected(a)' /\ \A b \in Remote : Connected(b) => Connected(b)'
    BY <1>12, NetworkKept DEF ClientOnline, Handling
  <2> QED
    BY <1>12, <2>1, CreateStep DEF ClientOnline, network, Inv, TypeOK
<1>13. ASSUME NEW a \in Remote, NEW g \in Guid, HandleHostRegister(a, g)
       PROVE  Inv'
  <2>1. TableTypeOK'
    BY <1>13, ConstantsAssumption DEF HandleHostRegister, Inv, TypeOK, TableTypeOK,
      ClientContext, Address, ConnectionState, Timeout
  <2>2. /\ DOMAIN clients' = DOMAIN clients
        /\ \A u \in DOMAIN clients :
             /\ clients'[u].childPeer = clients[u].childPeer
             /\ clients'[u].clientGuid = clients[u].clientGuid
             /\ clients'[u].clientAddress = clients[u].clientAddress
    BY <1>13 DEF HandleHostRegister, Inv, TypeOK, ClientContext
  <2> QED
    BY <1>13, <2>1, <2>2, UpdateStep DEF HandleHostRegister, Polled,
      Inv, TypeOK, SessionsOwnTheirChildren, OwnsChild
<1>14. ASSUME NEW a \in Remote, NEW u \in Uin, ProxyData(a, u)
       PROVE  Inv'
  BY <1>14, IdleStep DEF ProxyData, Polled, Inv, TypeOK, sessions, network
<1> QED
  BY <1>1, <1>2, <1>3, <1>4, <1>5, <1>6, <1>7, <1>8, <1>9, <1>10, <1>11, <1>12, <1>13,
    <1>14, ConstantsAssumption DEF MainPeer

\* So does the handling of a child's packet.
LEMMA ChildPeersInv == Inv /\ ChildPeers => Inv'
<1> SUFFICES ASSUME Inv, NEW u \in pending,
                    \/ NothingReceived(u) \/ ChildAccepted(u) \/ ChildGone(u)
                    \/ ChildRefused(u) \/ ChildData(u)
             PROVE  Inv'
  BY DEF ChildPeers
<1>u. u \in DOMAIN clients
  BY DEF Inv, TypeOK
<1>1. CASE NothingReceived(u)
  BY <1>1, IdleStep DEF NothingReceived, Polling, Inv, TypeOK, sessions, network
<1>2. CASE ChildAccepted(u)
  <2>1. TableTypeOK'
    <3>1. clients' \in [DOMAIN clients -> ClientContext]
      BY <1>2 DEF ChildAccepted, Inv, TypeOK, ClientContext, Address, ConnectionState, Timeout
    <3>2. child' \in [DOMAIN child -> ChildPeer]
      BY <1>2 DEF ChildAccepted, Inv, TypeOK, ChildPeer
    <3> QED
      BY <3>1, <3>2 DEF Inv, TypeOK, TableTypeOK
  <2>2. /\ DOMAIN clients' = DOMAIN clients
        /\ \A v \in DOMAIN clients :
             /\ clients'[v].childPeer = clients[v].childPeer
             /\ clients'[v].clientGuid = clients[v].clientGuid
             /\ clients'[v].clientAddress = clients[v].clientAddress
    BY <1>2 DEF ChildAccepted, Inv, TypeOK, ClientContext
  <2>3. /\ DOMAIN child' = DOMAIN child
        /\ \A c \in DOMAIN child : child'[c].guid = child[c].guid /\ child'[c].owner = child[c].owner
    BY <1>2 DEF ChildAccepted, Inv, TypeOK, ChildPeer
  <2> QED
    BY <1>2, <2>1, <2>2, <2>3, UpdateStep DEF ChildAccepted, Received, Polling,
      Inv, TypeOK, SessionsOwnTheirChildren, OwnsChild
<1>3. CASE ChildGone(u)
  <2>1. /\ DOMAIN child' = DOMAIN child \ {clients[u].childPeer}
        /\ \A c \in DOMAIN child' : child'[c] = child[c]
        /\ child' \in [DOMAIN child' -> ChildPeer]
    BY <1>3 DEF ChildGone, Restrict, Inv, TypeOK
  <2>2. /\ DOMAIN clients' = DOMAIN clients
        /\ \A v \in DOMAIN clients :
             /\ clients'[v].childPeer = IF v = u THEN NULL ELSE clients[v].childPeer
             /\ clients'[v].clientGuid = clients[v].clientGuid
             /\ clients'[v].clientAddress = clients[v].clientAddress
    BY <1>3 DEF ChildGone, Inv, TypeOK, ClientContext
  <2>3. TableTypeOK'
    <3>1. clients[u] \in ClientContext /\ NULL \in Child \cup {NULL}
      BY <1>3 DEF ChildGone, Received, Polling, Inv, TypeOK
    <3>2. [clients[u] EXCEPT !.childPeer = NULL] \in ClientContext
      BY <3>1 DEF ClientContext
    <3>3. clients' \in [DOMAIN clients -> ClientContext]
      BY <1>3, <3>2 DEF ChildGone, Inv, TypeOK
    <3>4. DOMAIN child' \subseteq Child
      BY <2>1 DEF Inv, TypeOK
    <3> QED
      BY <2>1, <2>2, <3>3, <3>4 DEF Inv, TypeOK, TableTypeOK
  <2>4. \A v \in DOMAIN clients :
          clients'[v].childPeer # NULL => clients'[v].childPeer \in DOMAIN child'
    BY <1>u, <2>1, <2>2 DEF Inv, SessionsOwnTheirChildren, OwnsChild
  <2> QED
    BY <1>3, <2>1, <2>2, <2>3, <2>4, UpdateStep
      DEF ChildGone, Received, Polling, Inv, TypeOK
<1>4. CASE ChildRefused(u)
  <2>1. TableTypeOK'
    BY <1>4 DEF ChildRefused, Inv, TypeOK, TableTypeOK, ChildPeer
  <2>2. /\ DOMAIN child' = DOMAIN child
        /\ \A c \in DOMAIN child : child'[c].guid = child[c].guid /\ child'[c].owner = child[c].owner
    BY <1>4 DEF ChildRefused, Inv, TypeOK, ChildPeer
  <2> QED
    BY <1>4, <2>1, <2>2, UpdateStep DEF ChildRefused, Received, Polling,
      Inv, TypeOK, SessionsOwnTheirChildren, OwnsChild
<1>5. CASE ChildData(u)
  BY <1>5, IdleStep DEF ChildData, Received, Polling, Inv, TypeOK, sessions, network
<1> QED
  BY <1>1, <1>2, <1>3, <1>4, <1>5

\* The invariant is inductive: handlers, sweep, shutdown, timers and network.
LEMMA NextInv == Inv /\ [Next]_vars => Inv'
<1> SUFFICES ASSUME Inv, [Next]_vars PROVE Inv'
  OBVIOUS
<1>1. CASE MainPeer
  BY <1>1, MainPeerInv
<1>2. CASE ChildPeers
  BY <1>2, ChildPeersInv
<1>3. CASE SweepTimeouts
  <2>1. {u \in DOMAIN clients : CheckTimeout(u)} \in SUBSET DOMAIN clients
    OBVIOUS
  <2>2. Connected(Coordinator)' \/ ~Connected(Coordinator)
    BY <1>3, NetworkKept DEF SweepTimeouts
  <2>3. \A b \in Remote : Connected(b) => Connected(b)'
    BY <1>3, NetworkKept DEF SweepTimeouts
  <2>4. PICK U \in SUBSET DOMAIN clients : DestroyAndErase(U)
    BY <1>3, <2>1 DEF SweepTimeouts
  <2> QED
    BY <1>3, <2>2, <2>3, <2>4, EraseStep DEF SweepTimeouts, network, Inv, TypeOK
<1>4. CASE EndOfIteration
  BY <1>4, IdleStep DEF EndOfIteration, Inv, TypeOK
<1>5. CASE Shutdown
  <2>1. /\ TableInv'
        /\ DOMAIN clients' = {}
    BY <1>5, InvIsTableInv, EraseKeepsTable DEF Shutdown
  <2>2. DOMAIN incoming' = {} /\ incoming' \in [DOMAIN incoming' -> Guid]
    BY <1>5 DEF Shutdown
  <2>3. server' \in [Server -> {"idle", "connecting", "connected"}]
    BY <1>5 DEF Shutdown
  <2> QED
    BY <1>5, <2>1, <2>2, <2>3 DEF Shutdown, Inv, TypeOK, TableInv, TableTypeOK, ClientsConnected
<1>6. CASE ChildNetwork
  <2>1. PICK c \in DOMAIN child,
             from \in {"connecting", "connected"},
             to \in {"connected", "closed", "failed", "refused"} :
          LinkMoves(c, from, to)
    BY <1>6 DEF ChildNetwork
  <2>2. TableTypeOK'
    BY <2>1 DEF LinkMoves, Inv, TypeOK, TableTypeOK, ChildPeer
  <2>3. /\ DOMAIN child' = DOMAIN child
        /\ \A d \in DOMAIN child : child'[d].guid = child[d].guid /\ child'[d].owner = child[d].owner
    BY <2>1 DEF LinkMoves, Inv, TypeOK, ChildPeer
  <2> QED
    BY <2>1, <2>2, <2>3, UpdateStep DEF LinkMoves,
      Inv, TypeOK, SessionsOwnTheirChildren, OwnsChild
<1>7. CASE SignalHandler
  BY <1>7, IdleStep DEF SignalHandler
<1>8. CASE Tick
  <2>1. /\ DOMAIN clients' = DOMAIN clients
        /\ \A u \in DOMAIN clients :
             clients'[u] = [clients[u] EXCEPT !.hostConnectTimeout =
                              IF @ > Expired THEN @ - 1 ELSE @]
    BY <1>8 DEF Tick
  <2>2. ASSUME NEW u \in DOMAIN clients
        PROVE  /\ clients'[u] \in ClientContext
               /\ clients'[u].childPeer = clients[u].childPeer
               /\ clients'[u].clientGuid = clients[u].clientGuid
               /\ clients'[u].clientAddress = clients[u].clientAddress
    <3>1. clients[u] \in ClientContext
      BY DEF Inv, TypeOK
    <3>2. \A t \in Timeout : (IF t > Expired THEN t - 1 ELSE t) \in Timeout
      BY ConstantsAssumption DEF Timeout, Expired, NoTimeout
    <3> QED
      BY <2>1, <3>1, <3>2 DEF ClientContext
  <2>3. clients' \in [DOMAIN clients' -> ClientContext]
    BY <1>8, <2>1, <2>2 DEF Tick
  <2>4. TableTypeOK'
    BY <1>8, <2>1, <2>3 DEF Tick, Inv, TypeOK, TableTypeOK
  <2> QED
    BY <1>8, <2>1, <2>2, <2>4, UpdateStep DEF Tick,
      Inv, TypeOK, SessionsOwnTheirChildren, OwnsChild
<1>9. CASE Exited \/ UNCHANGED vars
  BY <1>9, IdleStep DEF Exited, vars, sessions, network, Inv, TypeOK
<1> QED
  BY <1>1, <1>2, <1>3, <1>4, <1>5, <1>6, <1>7, <1>8, <1>9 DEF Next, Program

----------------------------------------------------------------------------
(* The invariants *)

\* The inductive invariant holds in every reachable state: the table is well
\* formed, its sessions own their children and their addresses are connected.
THEOREM Invariance == Spec => []Inv
BY InitInv, NextInv, PTL DEF Spec

\* Every variable keeps its type, in every reachable state.
THEOREM TypeCorrect == Spec => []TypeOK
<1>1. Inv => TypeOK
  BY DEF Inv
<1> QED
  BY <1>1, Invariance, PTL

\* No handler and no poll uses a destroyed RakPeer or another session's, and
\* data leaves under the GUID of the session it is for.
THEOREM ChildrenOwned == Spec => []SessionsOwnTheirChildren
<1>1. Inv => SessionsOwnTheirChildren
  BY DEF Inv
<1> QED
  BY <1>1, Invariance, PTL

\* No session outlives the connection it was opened over.
THEOREM NoStaleClient == Spec => []ClientsConnected
<1>1. Inv => ClientsConnected
  BY DEF Inv
<1> QED
  BY <1>1, Invariance, PTL

\* coordinatorAddress follows the connection it stands for: it is set when a
\* server's connection comes up and cleared when that connection ends.
LEMMA NextCoordinator ==
  ASSUME Inv, CoordinatorConnected, [Next]_vars
  PROVE  CoordinatorConnected'
<1>1. ASSUME pc' = "done" \/ pc # "done", UNCHANGED <<server, coordinatorAddress>>
      PROVE  CoordinatorConnected'
  BY <1>1 DEF CoordinatorConnected
<1>2. ASSUME NEW a \in Remote, NEW U, Handling(a), Departure(a, U)
      PROVE  CoordinatorConnected'
  <2> DEFINE link == [s \in Server |-> IF s = a THEN "idle" ELSE server[s]]
  <2>1. link \in [Server -> {"idle", "connecting", "connected"}]
    BY DEF Inv, TypeOK
  <2>2. \A s \in Server : link[s] # "idle" => server'[s] = link[s]
    <3> HIDE DEF link
    <3>1. PICK servers : Redial(servers, link)
      BY <1>2 DEF Departure, link
    <3> QED
      BY <2>1, <3>1, RedialType
  <2> QED
    BY <1>2, <2>2 DEF CoordinatorConnected, Departure, Handling, Inv, TypeOK
<1>3. CASE MainPeer
  <2>1. ASSUME NEW s \in Server, ConnectionRequestAccepted(s) \/ ConnectionAttemptFailed(s)
        PROVE  CoordinatorConnected'
    BY <2>1 DEF ConnectionRequestAccepted, ConnectionAttemptFailed, CoordinatorConnected,
      Inv, TypeOK
  <2>2. ASSUME NEW a \in Remote, DisconnectionNotification(a) \/ ConnectionLost(a)
        PROVE  CoordinatorConnected'
    BY <1>2, <2>2 DEF DisconnectionNotification, ConnectionLost
  <2>3. CASE NoPacket
    BY <1>1, <2>3 DEF NoPacket, network
  <2>4. ASSUME NEW a \in Client, NEW g \in Guid, NewIncomingConnection(a, g)
        PROVE  CoordinatorConnected'
    BY <1>1, <2>4 DEF NewIncomingConnection
  <2>5. ASSUME NEW g \in Guid, NatPunchthroughSucceeded(g)
        PROVE  CoordinatorConnected'
    BY <1>1, <2>5 DEF NatPunchthroughSucceeded, Handling, network
  <2>6. ASSUME NEW a \in Remote, NEW key, OtherPacket(a, key)
        PROVE  CoordinatorConnected'
    BY <1>1, <2>6 DEF OtherPacket, Handling, network
  <2>7. ASSUME NEW a \in Remote, HandlePingMessage(a) \/ HandleDisconnectMessage(a)
        PROVE  CoordinatorConnected'
    BY <1>1, <2>7 DEF HandlePingMessage, HandleDisconnectMessage, Handling, network
  <2>8. ASSUME NEW a \in Remote, NEW g \in Guid,
               HandleClientRegister(a, g) \/ HandleHostRegister(a, g) \/ ClientOnline(a, g)
        PROVE  CoordinatorConnected'
    BY <1>1, <2>8 DEF HandleClientRegister, HandleHostRegister, ClientOnline, Handling, network
  <2>9. ASSUME NEW a \in Remote, NEW u \in Uin, ProxyData(a, u)
        PROVE  CoordinatorConnected'
    BY <1>1, <2>9 DEF ProxyData, Handling, network
  <2> QED
    BY <1>3, <2>1, <2>2, <2>3, <2>4, <2>5, <2>6, <2>7, <2>8, <2>9, ConstantsAssumption
      DEF MainPeer
<1>4. CASE ChildPeers
  BY <1>1, <1>4 DEF ChildPeers, NothingReceived, ChildAccepted, ChildGone, ChildRefused,
    ChildData, Received, Polling, network
<1>5. CASE SweepTimeouts \/ EndOfIteration \/ Shutdown
  BY <1>1, <1>5 DEF SweepTimeouts, EndOfIteration, Shutdown, network, CoordinatorConnected
<1>6. CASE ChildNetwork \/ SignalHandler \/ Tick \/ Exited \/ UNCHANGED vars
  BY <1>1, <1>6 DEF ChildNetwork, LinkMoves, SignalHandler, Tick, Exited, vars, network
<1> QED
  BY <1>3, <1>4, <1>5, <1>6 DEF Next, Program

\* A coordinator address that is set is a connected server's, so that the
\* loss of the coordinator is always noticed.
THEOREM CoordinatorKnown == Spec => []CoordinatorConnected
<1>1. Init => CoordinatorConnected
  BY DEF Init, CoordinatorConnected
<1> QED
  BY <1>1, Invariance, NextCoordinator, PTL DEF Spec

\* Inductive form of DataReturnsToOwner: the child that sent.from names exists.
DataInv ==
  sent.kind = "DATA" /\ sent.from \in Child =>
    /\ sent.from \in DOMAIN child
    /\ sent.to = child[sent.from].owner
    /\ Connected(sent.to)

\* What the main peer's handlers send comes from a remote system or from the
\* proxy itself.
LEMMA MainPeerSends ==
  ASSUME Inv, MainPeer
  PROVE  ~(sent'.kind = "DATA" /\ sent'.from \in Child)
<1>1. ASSUME NEW a \in Remote, NEW u, NEW kind,
             SendToTarget(u, kind, a) \/ SendToClient(u, a)
      PROVE  ~(sent'.kind = "DATA" /\ sent'.from \in Child)
  BY <1>1, ConstantsAssumption DEF SendToTarget, SendToClient, Message, Nothing
<1>2. ASSUME NEW a \in Remote, NEW key, Forward(a, key)
      PROVE  ~(sent'.kind = "DATA" /\ sent'.from \in Child)
  <2>1. CASE sent' = Nothing
    BY <2>1 DEF Nothing
  <2>2. CASE \E u \in DOMAIN clients : SendToClient(u, a) \/ SendToTarget(u, "DATA", a)
    BY <1>1, <2>2
  <2> QED
    BY <1>2, <2>1, <2>2 DEF Forward
<1>3. CASE sent' = Nothing
  BY <1>3 DEF Nothing
<1>4. ASSUME NEW a, NEW kind \in {"CLIENT_REGISTER", "CLIENT_REGISTER_RESP",
                                  "HOST_REGISTER_RESP", "PONG"},
             sent' = Message(kind, Main, Main, a)
      PROVE  ~(sent'.kind = "DATA" /\ sent'.from \in Child)
  BY <1>4 DEF Message
<1>5. ASSUME NEW s \in Server, ConnectionRequestAccepted(s) \/ ConnectionAttemptFailed(s)
      PROVE  ~(sent'.kind = "DATA" /\ sent'.from \in Child)
  BY <1>2, <1>3, <1>4, <1>5 DEF ConnectionRequestAccepted, ConnectionAttemptFailed, Remote
<1>6. ASSUME NEW a \in Remote, NEW u \in Uin, ProxyData(a, u)
      PROVE  ~(sent'.kind = "DATA" /\ sent'.from \in Child)
  BY <1>1, <1>6 DEF ProxyData
<1>7. ASSUME NEW a \in Remote, NEW key, OtherPacket(a, key)
      PROVE  ~(sent'.kind = "DATA" /\ sent'.from \in Child)
  BY <1>2, <1>7 DEF OtherPacket
<1>8. ASSUME NEW a \in Remote, NEW g \in Guid,
             HandleClientRegister(a, g) \/ HandleHostRegister(a, g)
      PROVE  ~(sent'.kind = "DATA" /\ sent'.from \in Child)
  BY <1>4, <1>8 DEF HandleClientRegister, HandleHostRegister
<1>9. ASSUME NEW a \in Remote, NEW g \in Guid,
             NewIncomingConnection(a, g) \/ ClientOnline(a, g)
      PROVE  ~(sent'.kind = "DATA" /\ sent'.from \in Child)
  BY <1>3, <1>9 DEF NewIncomingConnection, ClientOnline
<1>10. ASSUME NEW a \in Remote,
              \/ DisconnectionNotification(a) \/ ConnectionLost(a) \/ HandleDisconnectMessage(a)
       PROVE  ~(sent'.kind = "DATA" /\ sent'.from \in Child)
  BY <1>3, <1>10 DEF DisconnectionNotification, ConnectionLost, Departure,
    HandleDisconnectMessage
<1>11. ASSUME NEW a \in Remote, HandlePingMessage(a)
       PROVE  ~(sent'.kind = "DATA" /\ sent'.from \in Child)
  BY <1>4, <1>11 DEF HandlePingMessage
<1>12. ASSUME NEW g \in Guid, NatPunchthroughSucceeded(g)
       PROVE  ~(sent'.kind = "DATA" /\ sent'.from \in Child)
  BY <1>3, <1>12 DEF NatPunchthroughSucceeded
<1>13. Client \subseteq Remote /\ Speaker \subseteq Remote
  BY ConstantsAssumption DEF Remote
<1> QED
  BY <1>3, <1>5, <1>6, <1>7, <1>8, <1>9, <1>10, <1>11, <1>12, <1>13 DEF MainPeer, NoPacket

\* DataInv is inductive, given Inv: a poll sends to the session that owns the
\* polled child, whose address is connected.
LEMMA NextData ==
  ASSUME Inv, DataInv, [Next]_vars
  PROVE  DataInv'
<1>1. CASE MainPeer
  BY <1>1, MainPeerSends DEF DataInv
<1>2. ASSUME NEW u \in pending, Polling(u), clients[u].childPeer # NULL,
             SendToClient(u, clients[u].childPeer),
             DOMAIN child' = DOMAIN child,
             \A c \in DOMAIN child : child'[c].owner = child[c].owner
      PROVE  DataInv'
  <2>1. u \in DOMAIN clients
    BY DEF Inv, TypeOK
  <2>2. Connected(clients[u].clientAddress)
    BY <2>1 DEF Inv, ClientsConnected
  <2>3. /\ clients[u].childPeer \in DOMAIN child
        /\ child[clients[u].childPeer].owner = clients[u].clientAddress
    BY <1>2, <2>1 DEF Inv, SessionsOwnTheirChildren, OwnsChild
  <2>4. sent'.from = clients[u].childPeer /\ sent'.to = clients[u].clientAddress
    BY <1>2 DEF SendToClient, Message
  <2>5. Connected(sent.to)'
    BY <1>2, <2>2, <2>4 DEF Polling, network, Connected
  <2> QED
    BY <1>2, <2>3, <2>4, <2>5 DEF DataInv
<1>3. CASE sent' = Nothing
  BY <1>3 DEF DataInv, Nothing
<1>4. CASE ChildPeers
  <2>1. PICK u \in pending : \/ NothingReceived(u) \/ ChildAccepted(u) \/ ChildGone(u)
                             \/ ChildRefused(u) \/ ChildData(u)
    BY <1>4 DEF ChildPeers
  <2>2. CASE NothingReceived(u) \/ ChildGone(u)
    BY <1>3, <2>2 DEF NothingReceived, ChildGone
  <2>3. CASE ChildAccepted(u) \/ ChildRefused(u) \/ ChildData(u)
    <3>1. DOMAIN child' = DOMAIN child /\ \A c \in DOMAIN child : child'[c].owner = child[c].owner
      BY <2>3 DEF ChildAccepted, ChildRefused, ChildData, sessions, Inv, TypeOK, ChildPeer
    <3> QED
      BY <1>2, <2>3, <3>1 DEF ChildAccepted, ChildRefused, ChildData, Received
  <2> QED
    BY <2>1, <2>2, <2>3
<1>5. CASE SweepTimeouts \/ EndOfIteration \/ Shutdown
  BY <1>3, <1>5 DEF SweepTimeouts, EndOfIteration, Shutdown
<1>6. ASSUME UNCHANGED <<sent, network>>, DOMAIN child' = DOMAIN child,
             \A c \in DOMAIN child : child'[c].owner = child[c].owner
      PROVE  DataInv'
  BY <1>6 DEF DataInv, network, Connected
<1>7. CASE ChildNetwork
  <2>1. DOMAIN child' = DOMAIN child /\ \A c \in DOMAIN child : child'[c].owner = child[c].owner
    BY <1>7 DEF ChildNetwork, LinkMoves, Inv, TypeOK, ChildPeer
  <2> QED
    BY <1>6, <1>7, <2>1 DEF ChildNetwork, LinkMoves
<1>8. CASE SignalHandler \/ Tick \/ Exited \/ UNCHANGED vars
  BY <1>6, <1>8 DEF SignalHandler, Tick, Exited, vars, sessions, network
<1> QED
  BY <1>1, <1>4, <1>5, <1>7, <1>8 DEF Next, Program

\* Data from the target never reaches another client than the one whose GUID
\* the target knows the connection by.
THEOREM NoMisdeliveredData == Spec => []DataReturnsToOwner
<1>1. Init => DataInv
  BY DEF Init, DataInv, Nothing
<1>2. DataInv => DataReturnsToOwner
  BY DEF DataInv, DataReturnsToOwner
<1> QED
  BY <1>1, <1>2, Invariance, NextData, PTL DEF Spec

----------------------------------------------------------------------------
(* The refinement *)

\* CreateChildPeer is the abstract Open, or changes nothing when it fails.
LEMMA CreateOpens ==
  ASSUME Inv, NEW g \in Guid, NEW a \in Remote, CreateChildPeer(g, a)
  PROVE  Sessions!Open(g, a) \/ UNCHANGED <<SessionView, PeerView>>
<1>1. CASE UNCHANGED sessions
  BY <1>1 DEF sessions, SessionView, PeerView
<1>2. ASSUME NEW c \in Child \ DOMAIN child,
             child' = Put(child, c, NewChild(g, a)),
             clients' = Put(clients, GetUIN(g), NewContext(c, g, a))
      PROVE  Sessions!Open(g, a)
  <2> HIDE DEF GetUIN
  <2>1. DOMAIN PeerView = DOMAIN child
    BY DEF PeerView
  <2>2. PeerView' = Sessions!Put(PeerView, c, [guid |-> g, owner |-> a])
    BY <1>2 DEF PeerView, Put, Sessions!Put, NewChild
  <2>3. SessionView' = Sessions!Put(SessionView, GetUIN(g), [guid |-> g, owner |-> a, peer |-> c])
    BY <1>2 DEF SessionView, Put, Sessions!Put, NewContext
  <2> QED
    BY <1>2, <2>1, <2>2, <2>3 DEF Sessions!Open
<1> QED
  BY <1>1, <1>2 DEF CreateChildPeer

\* DestroyAndErase is the abstract Close of the same sessions.
LEMMA EraseCloses ==
  ASSUME Inv, NEW U \in SUBSET DOMAIN clients, DestroyAndErase(U)
  PROVE  Sessions!Close(U)
<1>1. DOMAIN SessionView = DOMAIN clients /\ DOMAIN PeerView = DOMAIN child
  BY DEF SessionView, PeerView
<1>2. SessionView' = Restrict(SessionView, DOMAIN SessionView \ U)
  BY DEF SessionView, Restrict, DestroyAndErase
<1>3. {SessionView[u].peer : u \in U} = {clients[u].childPeer : u \in U}
  BY DEF SessionView
<1>4. PeerView' = Restrict(PeerView, DOMAIN PeerView \ {clients[u].childPeer : u \in U})
  BY DEF PeerView, Restrict, DestroyAndErase
<1> QED
  BY <1>1, <1>2, <1>3, <1>4 DEF Sessions!Close, Sessions!Restrict, Restrict

\* A step that leaves identities and owners alone is not seen by SessionTable.
LEMMA ViewsKept ==
  ASSUME DOMAIN clients' = DOMAIN clients, DOMAIN child' = DOMAIN child,
         \A u \in DOMAIN clients :
           /\ clients'[u].childPeer = clients[u].childPeer
           /\ clients'[u].clientGuid = clients[u].clientGuid
           /\ clients'[u].clientAddress = clients[u].clientAddress,
         \A c \in DOMAIN child : /\ child'[c].guid = child[c].guid
                                 /\ child'[c].owner = child[c].owner
  PROVE  UNCHANGED <<SessionView, PeerView>>
BY DEF SessionView, PeerView

\* A system's last connection ends and sessions are erased, among them all
\* those over it: the abstract Leave.
LEMMA DepartureLeaves ==
  ASSUME Inv, NEW a \in Remote, Handling(a),
         NEW U \in SUBSET DOMAIN clients, SessionsOf(a) \subseteq U, Departure(a, U)
  PROVE  Sessions!Leave(a)
<1> DEFINE link == [s \in Server |-> IF s = a THEN "idle" ELSE server[s]]
<1>1. /\ server' \in [Server -> {"idle", "connecting", "connected"}]
      /\ \A s \in Server : link[s] # "idle" => server'[s] = link[s]
      /\ \A s \in Server : link[s] = "idle" => server'[s] \in {"idle", "connecting"}
  BY DEF Departure, Redial, Inv, TypeOK
<1>2. Online' = Online \ {a}
  <2>1. DOMAIN incoming' = DOMAIN incoming \ {a}
    BY DEF Departure, Restrict
  <2>2. \A b \in Remote : Connected(b)' <=> Connected(b) /\ b # a
    BY <1>1, <2>1 DEF Connected, Inv, TypeOK
  <2> QED
    BY <2>2 DEF Online
<1>3. Sessions!Close(U)
  BY EraseCloses DEF Departure
<1>4. DOMAIN SessionView = DOMAIN clients
      /\ \A u \in DOMAIN clients : SessionView[u].owner = clients[u].clientAddress
  BY DEF SessionView
<1> QED
  BY <1>2, <1>3, <1>4 DEF Sessions!Leave, SessionsOf, Online, Handling

\* Each handler of the main peer is an abstract Join, Leave, Request or Drop,
\* or is not seen.
LEMMA MainPeerImplements ==
  ASSUME Inv, MainPeer
  PROVE  Sessions!Next \/ UNCHANGED Sessions!vars
<1>1. ASSUME UNCHANGED network PROVE UNCHANGED Online
  BY <1>1 DEF network, Online, Connected
<1>2. ASSUME UNCHANGED <<sessions, network>>
      PROVE  UNCHANGED Sessions!vars
  BY <1>1, <1>2 DEF sessions, network, SessionView, PeerView, Sessions!vars
<1>3. ASSUME NEW a \in Remote, NEW g \in Guid, HandleClientRegister(a, g) \/ ClientOnline(a, g)
      PROVE  Sessions!Next \/ UNCHANGED Sessions!vars
  <2>1. UNCHANGED Online /\ a \in Online
    BY <1>1, <1>3 DEF HandleClientRegister, ClientOnline, Handling, Online
  <2>2. Sessions!Open(g, a) \/ UNCHANGED <<SessionView, PeerView>>
    BY <1>3, CreateOpens DEF HandleClientRegister, ClientOnline
  <2> QED
    BY <2>1, <2>2 DEF Sessions!Next, Sessions!Request, Sessions!vars
<1>4. ASSUME NEW a \in Client, NEW g \in Guid, NewIncomingConnection(a, g)
      PROVE  Sessions!Next
  <2>0. a \in Remote
    BY DEF Remote
  <2>1. a \notin Online /\ Online' = Online \cup {a}
    <3>1. DOMAIN incoming' = DOMAIN incoming \cup {a}
      BY <1>4 DEF NewIncomingConnection, Put
    <3> QED
      BY <1>4, <2>0, <3>1 DEF NewIncomingConnection, Online, Connected
  <2>2. Sessions!Open(g, a) \/ UNCHANGED <<SessionView, PeerView>>
    <3>1. CASE CreateChildPeer(g, a)
      BY <2>0, <3>1, CreateOpens
    <3>2. CASE /\ GetUIN(g) \in DOMAIN clients
               /\ clients' = [clients EXCEPT ![GetUIN(g)].targetAddress = a,
                                             ![GetUIN(g)].state = "CONNECTED"]
               /\ UNCHANGED child
      BY <3>2, ViewsKept DEF Inv, TypeOK, ClientContext
    <3> QED
      BY <1>4, <3>1, <3>2 DEF NewIncomingConnection
  <2> QED
    BY <2>0, <2>1, <2>2 DEF Sessions!Next, Sessions!Join
<1>5. ASSUME NEW a \in Remote, DisconnectionNotification(a) \/ ConnectionLost(a)
      PROVE  Sessions!Next
  <2>1. /\ SessionsOf(a) \in SUBSET DOMAIN clients
        /\ SessionsThrough(a) \in SUBSET DOMAIN clients
        /\ SessionsOf(a) \subseteq SessionsThrough(a)
    BY DEF SessionsOf, SessionsThrough
  <2>2. Sessions!Leave(a)
    BY <1>5, <2>1, DepartureLeaves DEF DisconnectionNotification, ConnectionLost
  <2> QED
    BY <2>2 DEF Sessions!Next
<1>6. ASSUME NEW s \in Server, ConnectionRequestAccepted(s)
      PROVE  Sessions!Next
  <2>1. s \in Remote /\ s \notin Online /\ Online' = Online \cup {s}
    BY <1>6, ConstantsAssumption
      DEF ConnectionRequestAccepted, Online, Connected, Remote, Inv, TypeOK
  <2>2. UNCHANGED <<SessionView, PeerView>>
    BY <1>6 DEF ConnectionRequestAccepted, sessions, SessionView, PeerView
  <2> QED
    BY <2>1, <2>2 DEF Sessions!Next, Sessions!Join
<1>7. ASSUME NEW s \in Server, ConnectionAttemptFailed(s)
      PROVE  UNCHANGED Sessions!vars
  <2>1. UNCHANGED Online
    BY <1>7 DEF ConnectionAttemptFailed, Online, Connected, Inv, TypeOK
  <2>2. UNCHANGED <<SessionView, PeerView>>
    BY <1>7 DEF ConnectionAttemptFailed, sessions, SessionView, PeerView
  <2> QED
    BY <2>1, <2>2 DEF Sessions!vars
<1>8. ASSUME NEW a \in Remote, HandleDisconnectMessage(a)
      PROVE  Sessions!Next
  <2>1. PICK u \in SessionsOf(a) : DestroyAndErase({u})
    BY <1>8 DEF HandleDisconnectMessage
  <2>2. {u} \in SUBSET DOMAIN SessionView /\ {u} \in SUBSET DOMAIN clients
    BY <2>1 DEF SessionsOf, SessionView
  <2>3. Sessions!Close({u}) /\ UNCHANGED Online
    BY <1>1, <1>8, <2>1, <2>2, EraseCloses DEF HandleDisconnectMessage
  <2> QED
    BY <2>2, <2>3 DEF Sessions!Next, Sessions!Drop
<1>9. ASSUME NEW a \in Remote, NEW g \in Guid,
             HandleHostRegister(a, g) \/ NatPunchthroughSucceeded(g)
      PROVE  UNCHANGED Sessions!vars
  <2>1. UNCHANGED <<SessionView, PeerView>>
    BY <1>9, ViewsKept DEF HandleHostRegister, NatPunchthroughSucceeded, Inv, TypeOK,
      ClientContext
  <2> QED
    BY <1>1, <1>9, <2>1 DEF HandleHostRegister, NatPunchthroughSucceeded, Sessions!vars
<1>10. CASE NoPacket
  BY <1>2, <1>10 DEF NoPacket
<1>11. ASSUME NEW a \in Remote, NEW key, OtherPacket(a, key) \/ ProxyData(a, key)
       PROVE  UNCHANGED Sessions!vars
  BY <1>2, <1>11 DEF OtherPacket, ProxyData
<1>12. ASSUME NEW a \in Remote, HandlePingMessage(a)
       PROVE  UNCHANGED Sessions!vars
  BY <1>2, <1>12 DEF HandlePingMessage
<1>13. Speaker \subseteq Remote /\ NatServer \in Remote
  BY ConstantsAssumption DEF Remote, Server
<1>14. ASSUME NEW g \in Guid, NatPunchthroughSucceeded(g)
       PROVE  UNCHANGED Sessions!vars
  BY <1>9, <1>13, <1>14
<1> QED
  BY <1>3, <1>4, <1>5, <1>6, <1>7, <1>8, <1>9, <1>10, <1>11, <1>12, <1>13, <1>14 DEF MainPeer

\* A packet of a child: the abstract LosePeer when it tells of the end of the
\* child's connection, nothing that SessionTable sees otherwise.
LEMMA ChildPeersImplement ==
  ASSUME Inv, ChildPeers
  PROVE  Sessions!Next \/ UNCHANGED Sessions!vars
<1>1. PICK u \in pending : \/ NothingReceived(u) \/ ChildAccepted(u) \/ ChildGone(u)
                           \/ ChildRefused(u) \/ ChildData(u)
  BY DEF ChildPeers
<1>2. u \in DOMAIN clients
  BY DEF Inv, TypeOK
<1>3. UNCHANGED Online
  BY <1>1 DEF NothingReceived, ChildAccepted, ChildGone, ChildRefused, ChildData, Received,
    Polling, network, Online, Connected
<1>4. CASE ChildGone(u)
  <2>1. /\ DOMAIN SessionView = DOMAIN clients /\ DOMAIN PeerView = DOMAIN child
        /\ SessionView[u].peer = clients[u].childPeer
    BY <1>2 DEF SessionView, PeerView
  <2>2. SessionView' = [SessionView EXCEPT ![u].peer = NULL]
    BY <1>2, <1>4 DEF ChildGone, SessionView, Inv, TypeOK, ClientContext
  <2>3. PeerView' = Restrict(PeerView, DOMAIN PeerView \ {clients[u].childPeer})
    BY <1>4 DEF ChildGone, PeerView, Restrict
  <2>4. clients[u].childPeer # NULL
    BY <1>4 DEF ChildGone, Received
  <2>5. Sessions!LosePeer(u)
    BY <1>3, <2>1, <2>2, <2>3, <2>4 DEF Sessions!LosePeer, Sessions!Restrict, Restrict
  <2> QED
    BY <1>2, <2>1, <2>5 DEF Sessions!Next
<1>5. CASE NothingReceived(u) \/ ChildAccepted(u) \/ ChildRefused(u) \/ ChildData(u)
  <2>1. /\ DOMAIN clients' = DOMAIN clients
        /\ \A v \in DOMAIN clients :
             /\ clients'[v].childPeer = clients[v].childPeer
             /\ clients'[v].clientGuid = clients[v].clientGuid
             /\ clients'[v].clientAddress = clients[v].clientAddress
    BY <1>5 DEF NothingReceived, ChildAccepted, ChildRefused, ChildData, sessions,
      Inv, TypeOK, ClientContext
  <2>2. /\ DOMAIN child' = DOMAIN child
        /\ \A c \in DOMAIN child : child'[c].guid = child[c].guid /\ child'[c].owner = child[c].owner
    BY <1>5 DEF NothingReceived, ChildAccepted, ChildRefused, ChildData, sessions,
      Inv, TypeOK, ChildPeer
  <2>3. UNCHANGED <<SessionView, PeerView>>
    BY <2>1, <2>2, ViewsKept
  <2> QED
    BY <1>3, <2>3 DEF Sessions!vars
<1> QED
  BY <1>1, <1>4, <1>5

\* Every step of the program, its timers and the network is one that
\* SessionTable allows, or one that it does not see.
LEMMA NextImplements ==
  ASSUME Inv, [Next]_vars
  PROVE  [Sessions!Next]_(Sessions!vars)
<1>1. CASE MainPeer
  BY <1>1, MainPeerImplements
<1>2. CASE ChildPeers
  BY <1>2, ChildPeersImplement
<1>3. ASSUME UNCHANGED network PROVE UNCHANGED Online
  BY <1>3 DEF network, Online, Connected
<1>4. DOMAIN SessionView = DOMAIN clients
  BY DEF SessionView
<1>5. CASE SweepTimeouts
  <2>1. PICK U \in SUBSET DOMAIN clients : DestroyAndErase(U)
    BY <1>5 DEF SweepTimeouts
  <2>2. Sessions!Close(U)
    BY <2>1, EraseCloses
  <2> QED
    BY <1>3, <1>4, <1>5, <2>2 DEF SweepTimeouts, Sessions!Next, Sessions!Drop
<1>6. CASE Shutdown
  <2>1. Sessions!Close(DOMAIN clients)
    BY <1>6, EraseCloses DEF Shutdown
  <2>2. Online' = {}
    <3>1. DOMAIN incoming' = {}
      BY <1>6 DEF Shutdown
    <3> QED
      BY <1>6, <3>1 DEF Shutdown, Online, Connected
  <2> QED
    BY <1>4, <2>1, <2>2 DEF Sessions!Next, Sessions!Stop
<1>7. CASE EndOfIteration \/ SignalHandler \/ Exited \/ UNCHANGED vars
  BY <1>3, <1>7 DEF EndOfIteration, SignalHandler, Exited, vars, sessions, network,
    SessionView, PeerView, Sessions!vars
<1>8. CASE ChildNetwork
  <2>1. UNCHANGED <<clients, network>>
    BY <1>8 DEF ChildNetwork, LinkMoves
  <2>2. /\ DOMAIN child' = DOMAIN child
        /\ \A c \in DOMAIN child : child'[c].guid = child[c].guid /\ child'[c].owner = child[c].owner
    BY <1>8 DEF ChildNetwork, LinkMoves, Inv, TypeOK, ChildPeer
  <2> QED
    BY <1>3, <2>1, <2>2, ViewsKept DEF Sessions!vars
<1>9. CASE Tick
  <2>1. /\ DOMAIN clients' = DOMAIN clients
        /\ \A u \in DOMAIN clients :
             /\ clients'[u].childPeer = clients[u].childPeer
             /\ clients'[u].clientGuid = clients[u].clientGuid
             /\ clients'[u].clientAddress = clients[u].clientAddress
    BY <1>9 DEF Tick, Inv, TypeOK, ClientContext
  <2> QED
    BY <1>3, <1>9, <2>1, ViewsKept DEF Tick, Sessions!vars
<1> QED
  BY <1>1, <1>2, <1>5, <1>6, <1>7, <1>8, <1>9 DEF Next, Program

\* No system is online and no session open when the program starts.
LEMMA InitImplements == Init => Sessions!Init
<1> SUFFICES ASSUME Init PROVE Sessions!Init
  OBVIOUS
<1>1. Online = {}
  BY DEF Init, Online, Connected
<1>2. SessionView = <<>> /\ PeerView = <<>>
  BY DEF Init, SessionView, PeerView
<1> QED
  BY <1>1, <1>2 DEF Sessions!Init

\* The sessions of the program behave as SessionTable says: a session is
\* opened for a system that is online with a peer of its own, a peer is never
\* handed on, and the sessions of a system that leaves are closed.
THEOREM Refinement == Spec => ImplementsSessionTable
BY Invariance, InitImplements, NextImplements, PTL
  DEF Spec, ImplementsSessionTable, Sessions!Spec

----------------------------------------------------------------------------
(* Deadlines *)

\* A session that is given a deadline keeps it until its state changes.
LEMMA NextDeadline ==
  ASSUME Inv, HostConnectingHasDeadline, [Next]_vars
  PROVE  HostConnectingHasDeadline'
<1> DEFINE Fine(x) == x.state = "HOST_CONNECTING" =>
                        x.hostConnectTimeout # NoTimeout /\ x.targetAddress # Unassigned
<1>0. HostConnectingHasDeadline <=> \A u \in DOMAIN clients : Fine(clients[u])
  BY DEF HostConnectingHasDeadline
<1>1. ASSUME \A u \in DOMAIN clients' :
               \/ u \in DOMAIN clients /\ clients'[u] = clients[u]
               \/ Fine(clients'[u])
      PROVE  HostConnectingHasDeadline'
  BY <1>0, <1>1 DEF HostConnectingHasDeadline
<1> HIDE DEF Fine
<1>2. ASSUME UNCHANGED clients PROVE HostConnectingHasDeadline'
  BY <1>1, <1>2
<1>3. ASSUME NEW U, DestroyAndErase(U) PROVE HostConnectingHasDeadline'
  BY <1>1, <1>3 DEF DestroyAndErase, Restrict
<1>4. ASSUME NEW g, NEW a, CreateChildPeer(g, a) PROVE HostConnectingHasDeadline'
  <2>1. \A c : Fine(NewContext(c, g, a))
    BY DEF Fine, NewContext
  <2>2. ASSUME NEW c, clients' = Put(clients, GetUIN(g), NewContext(c, g, a))
        PROVE  HostConnectingHasDeadline'
    <3> HIDE DEF GetUIN, NewContext
    <3> QED
      BY <1>1, <2>1, <2>2 DEF Put
  <2> QED
    BY <1>2, <1>4, <2>2 DEF CreateChildPeer, sessions
<1>5. CASE MainPeer
  <2>1. ASSUME NEW a \in Client, NEW g \in Guid, NewIncomingConnection(a, g)
        PROVE  HostConnectingHasDeadline'
    BY <1>1, <1>4, <2>1 DEF NewIncomingConnection, Fine, Inv, TypeOK, ClientContext
  <2>2. ASSUME NEW s \in Server, ConnectionRequestAccepted(s) \/ ConnectionAttemptFailed(s)
        PROVE  HostConnectingHasDeadline'
    BY <1>2, <2>2 DEF ConnectionRequestAccepted, ConnectionAttemptFailed, sessions
  <2>3. ASSUME NEW g \in Guid, NatPunchthroughSucceeded(g)
        PROVE  HostConnectingHasDeadline'
    BY <1>1, <2>3 DEF NatPunchthroughSucceeded, Fine, Inv, TypeOK, ClientContext
  <2>4. ASSUME NEW a \in Remote, DisconnectionNotification(a) \/ ConnectionLost(a)
        PROVE  HostConnectingHasDeadline'
    BY <1>3, <2>4 DEF DisconnectionNotification, ConnectionLost, Departure
  <2>5. ASSUME NEW a \in Remote, NEW key,
               OtherPacket(a, key) \/ ProxyData(a, key) \/ HandlePingMessage(a)
        PROVE  HostConnectingHasDeadline'
    BY <1>2, <2>5 DEF OtherPacket, ProxyData, HandlePingMessage, sessions
  <2>6. ASSUME NEW a \in Remote, HandleDisconnectMessage(a)
        PROVE  HostConnectingHasDeadline'
    BY <1>3, <2>6 DEF HandleDisconnectMessage
  <2>7. ASSUME NEW a \in Remote, NEW g \in Guid, HandleClientRegister(a, g) \/ ClientOnline(a, g)
        PROVE  HostConnectingHasDeadline'
    BY <1>4, <2>7 DEF HandleClientRegister, ClientOnline
  <2>8. ASSUME NEW a \in Remote, NEW g \in Guid, HandleHostRegister(a, g)
        PROVE  HostConnectingHasDeadline'
    <3>1. a # Unassigned /\ HostTimeout # NoTimeout
      BY ConstantsAssumption DEF NoTimeout
    <3> QED
      BY <1>1, <2>8, <3>1 DEF HandleHostRegister, Fine, Inv, TypeOK, ClientContext
  <2>9. CASE NoPacket
    BY <1>2, <2>9 DEF NoPacket, sessions
  <2>10. Speaker \subseteq Remote
    BY ConstantsAssumption
  <2> QED
    BY <1>5, <2>1, <2>2, <2>3, <2>4, <2>5, <2>6, <2>7, <2>8, <2>9, <2>10 DEF MainPeer
<1>6. CASE ChildPeers
  <2>1. PICK u \in pending : \/ NothingReceived(u) \/ ChildAccepted(u) \/ ChildGone(u)
                             \/ ChildRefused(u) \/ ChildData(u)
    BY <1>6 DEF ChildPeers
  <2>2. CASE NothingReceived(u) \/ ChildRefused(u) \/ ChildData(u)
    BY <1>2, <2>2 DEF NothingReceived, ChildRefused, ChildData, sessions
  <2>3. CASE ChildAccepted(u)
    BY <1>1, <2>3 DEF ChildAccepted, Fine, Inv, TypeOK, ClientContext
  <2>4. CASE ChildGone(u)
    BY <1>0, <1>1, <2>4 DEF ChildGone, Fine, Inv, TypeOK, ClientContext
  <2> QED
    BY <2>1, <2>2, <2>3, <2>4
<1>7. CASE SweepTimeouts \/ Shutdown
  BY <1>3, <1>7 DEF SweepTimeouts, Shutdown
<1>8. CASE EndOfIteration \/ ChildNetwork \/ SignalHandler \/ Exited \/ UNCHANGED vars
  BY <1>2, <1>8 DEF EndOfIteration, ChildNetwork, LinkMoves, SignalHandler, Exited, vars, sessions
<1>9. CASE Tick
  <2>1. \A t \in Timeout : t # NoTimeout => (IF t > Expired THEN t - 1 ELSE t) # NoTimeout
    BY DEF Timeout, Expired, NoTimeout
  <2>2. ASSUME NEW u \in DOMAIN clients'
        PROVE  Fine(clients'[u])
    <3>1. /\ u \in DOMAIN clients
          /\ clients'[u].state = clients[u].state
          /\ clients'[u].targetAddress = clients[u].targetAddress
          /\ clients'[u].hostConnectTimeout =
               IF clients[u].hostConnectTimeout > Expired
               THEN clients[u].hostConnectTimeout - 1 ELSE clients[u].hostConnectTimeout
      BY <1>9 DEF Tick, Inv, TypeOK, ClientContext
    <3>2. clients[u].hostConnectTimeout \in Timeout /\ Fine(clients[u])
      BY <1>0, <3>1 DEF Inv, TypeOK, ClientContext
    <3> QED
      BY <2>1, <3>1, <3>2 DEF Fine
  <2> QED
    BY <1>1, <2>2
<1> QED
  BY <1>5, <1>6, <1>7, <1>8, <1>9 DEF Next, Program

\* A session that waits for a host always has a deadline and an address,
\* whatever else happens to it.
THEOREM DeadlineKept == Spec => []HostConnectingHasDeadline
<1>1. Init => HostConnectingHasDeadline
  BY DEF Init, HostConnectingHasDeadline
<1> QED
  BY <1>1, Invariance, NextDeadline, PTL DEF Spec

----------------------------------------------------------------------------
(* The end of a connection *)

\* A departure ends one connection; the sessions that the two handlers
\* choose are those of the system that leaves and none that it is no side of.
LEMMA DepartureIsolates ==
  ASSUME Inv, NEW b \in Remote, NEW U \in SUBSET DOMAIN clients, Departure(b, U),
         SessionsOf(b) \subseteq U, U \subseteq SessionsThrough(b),
         NEW a \in Remote, NEW u \in DOMAIN clients
  PROVE  Isolated(a, u)
<1> SUFFICES ASSUME Connected(a), ~Connected(a)'
             PROVE  LET x == clients[u] IN
                    /\ x.clientAddress = a =>
                         u \notin DOMAIN clients' /\ x.childPeer \notin DOMAIN child'
                    /\ x.clientAddress # a /\ x.targetAddress # a =>
                         /\ u \in DOMAIN clients' /\ clients'[u] = x
                         /\ x.childPeer # NULL => x.childPeer \in DOMAIN child'
  BY DEF Isolated
<1> DEFINE link == [s \in Server |-> IF s = b THEN "idle" ELSE server[s]]
<1>1. a = b
  <2>1. \A s \in Server : link[s] # "idle" => server'[s] = link[s]
    <3>1. link \in [Server -> {"idle", "connecting", "connected"}]
      BY DEF Inv, TypeOK
    <3> HIDE DEF link
    <3>2. PICK servers : Redial(servers, link)
      BY DEF Departure, link
    <3> QED
      BY <3>1, <3>2, RedialType
  <2>2. DOMAIN incoming' = DOMAIN incoming \ {b}
    BY DEF Departure, Restrict
  <2> QED
    BY <2>1, <2>2 DEF Connected
<1>2. /\ DOMAIN clients' = DOMAIN clients \ U
      /\ \A v \in DOMAIN clients' : clients'[v] = clients[v]
      /\ DOMAIN child' = DOMAIN child \ {clients[v].childPeer : v \in U}
  BY DEF Departure, DestroyAndErase, Restrict
<1>3. ASSUME clients[u].clientAddress = a
      PROVE  u \in U
  BY <1>1, <1>3 DEF SessionsOf
<1>4. ASSUME clients[u].clientAddress # a, clients[u].targetAddress # a
      PROVE  u \notin U
  BY <1>1, <1>4 DEF SessionsThrough
<1>5. ASSUME u \notin U, clients[u].childPeer # NULL
      PROVE  clients[u].childPeer \in DOMAIN child'
  <2>1. OwnsChild(u)
    BY DEF Inv, SessionsOwnTheirChildren
  <2> QED
    BY <1>2, <1>5, <2>1 DEF OwnsChild
<1> QED
  BY <1>2, <1>3, <1>4, <1>5

\* No other step takes a connection down but the shutdown.
LEMMA NextIsolates ==
  ASSUME Inv, [Next]_vars, NEW a \in Remote, NEW u \in DOMAIN clients
  PROVE  Isolated(a, u)
<1>1. ASSUME Connected(a) => Connected(a)' PROVE Isolated(a, u)
  BY <1>1 DEF Isolated
<1>2. CASE UNCHANGED network
  BY <1>1, <1>2, NetworkKept
<1>3. CASE MainPeer
  <2>1. ASSUME NEW b \in Client, NEW g \in Guid, NewIncomingConnection(b, g)
        PROVE  Isolated(a, u)
    <3>1. DOMAIN incoming \subseteq DOMAIN incoming'
      BY <2>1 DEF NewIncomingConnection, Put
    <3> QED
      BY <1>1, <2>1, <3>1 DEF NewIncomingConnection, Connected
  <2>2. ASSUME NEW s \in Server, ConnectionRequestAccepted(s) \/ ConnectionAttemptFailed(s)
        PROVE  Isolated(a, u)
    BY <1>1, <2>2 DEF ConnectionRequestAccepted, ConnectionAttemptFailed, Connected,
      Inv, TypeOK
  <2>3. ASSUME NEW b \in Remote, DisconnectionNotification(b) \/ ConnectionLost(b)
        PROVE  Isolated(a, u)
    <3>1. /\ SessionsOf(b) \in SUBSET DOMAIN clients
          /\ SessionsThrough(b) \in SUBSET DOMAIN clients
          /\ SessionsOf(b) \subseteq SessionsThrough(b)
      BY DEF SessionsOf, SessionsThrough
    <3>2. Departure(b, SessionsOf(b)) \/ Departure(b, SessionsThrough(b))
      BY <2>3 DEF DisconnectionNotification, ConnectionLost
    <3> QED
      BY <3>1, <3>2, DepartureIsolates
  <2>4. CASE UNCHANGED network
    BY <1>2, <2>4
  <2> QED
    BY <1>3, <2>1, <2>2, <2>3, <2>4 DEF MainPeer, NoPacket, NatPunchthroughSucceeded,
      OtherPacket, HandlePingMessage, HandleDisconnectMessage, HandleClientRegister,
      HandleHostRegister, ClientOnline, ProxyData
<1>4. CASE Shutdown
  BY <1>4 DEF Shutdown, Isolated
<1>5. CASE ChildPeers
  BY <1>2, <1>5 DEF ChildPeers, NothingReceived, ChildAccepted, ChildGone, ChildRefused,
    ChildData, Received, Polling
<1>6. CASE \/ SweepTimeouts \/ EndOfIteration \/ ChildNetwork \/ SignalHandler \/ Tick
           \/ Exited \/ UNCHANGED vars
  BY <1>2, <1>6 DEF SweepTimeouts, EndOfIteration, ChildNetwork, LinkMoves, SignalHandler,
    Tick, Exited, vars, network
<1> QED
  BY <1>3, <1>4, <1>5, <1>6 DEF Next, Program

\* When a system leaves, its sessions and their children go and the sessions
\* that it is no side of are untouched.
THEOREM DepartureIsolated == Spec => DepartureIsIsolated
<1>1. Inv /\ [Next]_vars => [\A a \in Remote, u \in DOMAIN clients : Isolated(a, u)]_vars
  BY NextIsolates
<1> QED
  BY <1>1, Invariance, PTL DEF Spec, DepartureIsIsolated

=============================================================================
