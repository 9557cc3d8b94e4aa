---------------------------- MODULE RaknetProxy ----------------------------
(***************************************************************************)
(* The proxy program of raknet_proxy.cpp: one thread that polls one main   *)
(* RakPeer (clients, the coordinator and the NAT server) and one child     *)
(* RakPeer per session (its own connection to the target server under the  *)
(* client's GUID).                                                         *)
(*                                                                         *)
(* The packets that Receive() returns are the environment's choice, bound  *)
(* by what a RakPeer can return: a packet has a connected sender, a        *)
(* connection is announced before it is used and its end is announced      *)
(* once, and two connected systems never have one GUID.                    *)
(***************************************************************************)
EXTENDS Integers, Functions

CONSTANTS
  Guid,          \* client GUIDs, natural numbers: their low bits are the UIN
  UinModulus,    \* 2^32 in the code: two GUIDs may have one UIN
  Child,         \* child RakPeer instances that the process has room for
  Client,        \* addresses that connect to the main peer
  Coordinator, NatServer,   \* addresses that the main peer connects to
  Dialled,       \* the servers that Connect() can be started to: a coordinator
                 \* is optional, and a name that does not resolve is refused
  Speaker,       \* the systems that send messages of the proxy's protocol
  TargetServer,  \* the one address that child peers connect to
  Unassigned,    \* UNASSIGNED_SYSTEM_ADDRESS
  Ip,            \* the IP of an address: servers are recognised by IP alone
  HostTimeout,   \* HOST_CONNECT_TIMEOUT_SEC, in ticks
  NULL, Main, NoUin

Server  == {Coordinator, NatServer}
Remote  == Client \cup Server
Address == Remote \cup {TargetServer, Unassigned}

\* GetUIN: the low bits of a GUID key the client table.
GetUIN(g) == g % UinModulus
Uin == {GetUIN(g) : g \in Guid}

ASSUME ConstantsAssumption ==
  /\ Guid \subseteq Nat
  /\ UinModulus \in Nat \ {0}
  /\ HostTimeout \in Nat
  /\ Coordinator # NatServer
  /\ Client \cap Server = {}
  /\ Speaker \subseteq Remote
  /\ Dialled \subseteq Server
  /\ Unassigned \notin Remote \cup {TargetServer}
  /\ NULL \notin Child /\ Main \notin Child
  /\ Child \cap Remote = {}

VARIABLES
  clients,            \* std::map<uint32_t, ClientContext>: UIN -> session
  child,              \* the child RakPeers that exist
  incoming,           \* remote systems connected to the main peer, with their GUIDs
  server,             \* main peer's own connections, to the servers
  coordinatorAddress,
  running,            \* g_running
  pc,                 \* where the main loop is
  pending,            \* UINs whose child the current iteration has yet to poll
  sent                \* what the last step handed to a peer for sending

network  == <<incoming, server, coordinatorAddress>>
sessions == <<clients, child>>
vars == <<clients, child, incoming, server, coordinatorAddress, running, pc,
          pending, sent>>

----------------------------------------------------------------------------
(* Data types *)

\* Function f with k mapped to v, which std::map's operator[] stores.
Put(f, k, v) == [x \in DOMAIN f \cup {k} |-> IF x = k THEN v ELSE f[x]]

\* hostConnectTimeout as the time left: the deadline passes when it gets
\* below zero, and NoTimeout is the 0 that says that no deadline is set.
NoTimeout == -2
Expired   == -1
Timeout   == {NoTimeout, Expired} \cup 0..HostTimeout

\* The states of ConnectionState that the program ever stores.
ConnectionState ==
  {"PUNCH_CONNECTED", "HOST_CONNECTING", "PROXY_CONNECTING", "CONNECTED"}

\* ClientContext, without the statistics and without stateStartTime, which
\* is written and never read.
ClientContext ==
  [childPeer          : Child \cup {NULL},
   clientGuid         : Guid,
   clientAddress      : Remote,
   targetAddress      : Address,
   state              : ConnectionState,
   hostConnectTimeout : Timeout]

\* A child RakPeer: its GUID; its connection to the target server, which the
\* RakPeer's own thread moves; how far the packets that the program has
\* received from it tell of that connection; and (for the properties only)
\* the address whose message had it created.
ChildPeer ==
  [guid  : Guid,
   owner : Remote,
   link  : {"connecting", "connected", "closed", "failed", "refused"},
   seen  : {"connecting", "connected", "refused"}]

Nothing == [kind |-> "nothing", from |-> NULL, via |-> NULL, to |-> NULL]
Message(kind, from, via, to) ==
  [kind |-> kind, from |-> from, via |-> via, to |-> to]

Connected(a) ==
  \/ a \in DOMAIN incoming
  \/ a \in Server /\ server[a] = "connected"

----------------------------------------------------------------------------
(* Sessions *)

\* Only the first of them, as where a loop over the table stops at a match.
FirstSessionOf(a) ==
  {u \in DOMAIN clients :
     /\ clients[u].clientAddress = a
     /\ \A v \in DOMAIN clients : clients[v].clientAddress = a => u <= v}

\* A session whose main-peer side is at address a.
SessionsOf(a) == {u \in DOMAIN clients : clients[u].clientAddress = a}

\* ... and the ones whose packets are forwarded to or from address a.
SessionsThrough(a) ==
  {u \in DOMAIN clients : a \in {clients[u].clientAddress, clients[u].targetAddress}}

\* ... with the client's address left as the constructor sets it.
NewContextUnassigned(c, g, a) ==
  [childPeer          |-> c,
   clientGuid         |-> g,
   clientAddress      |-> Unassigned,
   targetAddress      |-> Unassigned,
   state              |-> "PROXY_CONNECTING",
   hostConnectTimeout |-> NoTimeout]

NewContext(c, g, a) ==
  [childPeer          |-> c,
   clientGuid         |-> g,
   clientAddress      |-> a,
   targetAddress      |-> Unassigned,
   state              |-> "PROXY_CONNECTING",
   hostConnectTimeout |-> NoTimeout]

NewChild(g, a) == [guid |-> g, owner |-> a, link |-> "connecting", seen |-> "connecting"]

\* CreateChildPeer and the table's assignment after it. The instance may not
\* be had, may not start or may not connect; it is then destroyed, the table
\* is left alone and nothing is retried. An entry that the UIN already has is
\* overwritten, and its child peer is not destroyed.
CreateChildPeer(g, a) ==
  \/ \E c \in Child \ DOMAIN child :
       /\ child' = Put(child, c, NewChild(g, a))
       /\ clients' = Put(clients, GetUIN(g), NewContext(c, g, a))
  \/ UNCHANGED sessions

\* Erasing the entries without DestroyClient on their children.
EraseOnly(U) ==
  /\ clients' = Restrict(clients, DOMAIN clients \ U)
  /\ UNCHANGED child

\* DestroyClient on the child of every session in U, and the entries erased.
DestroyAndErase(U) ==
  /\ clients' = Restrict(clients, DOMAIN clients \ U)
  /\ child' = Restrict(child, DOMAIN child \ {clients[u].childPeer : u \in U})

\* Where a session's child sends: the address recorded for the session, or
\* the configured target while none is.
ForwardAddress(u) ==
  IF clients[u].targetAddress # Unassigned THEN clients[u].targetAddress
  ELSE TargetServer

\* childPeer->Send: RakPeer drops what is for a system it isn't connected to.
SendToTarget(u, kind, from) ==
  LET c == clients[u].childPeer IN
    sent' = IF c # NULL /\ ForwardAddress(u) = TargetServer
                        /\ child[c].link = "connected"
            THEN Message(kind, from, c, TargetServer) ELSE Nothing

\* The address of the session's other side.
SendToTargetAddress(u, from) ==
  sent' = Message("DATA", from, Main, clients[u].targetAddress)

\* peer->Send to the session's main-peer side.
SendToClient(u, from) ==
  sent' = Message("DATA", from, Main, clients[u].clientAddress)

----------------------------------------------------------------------------
(* The main peer: one packet an iteration *)

\* Connect() to the servers that a handler redials: no effect on one that is
\* not idle, and it may fail on one that is. The result is not looked at.
Redial(servers, link) ==
  \E dialled \in SUBSET (servers \cap Dialled) :
    server' = [s \in Server |-> IF s \in dialled /\ link[s] = "idle"
                                THEN "connecting" ELSE link[s]]

Handling(a) == pc = "main" /\ Connected(a)

\* The end of the main peer's turn: every child is then polled once.
Polled ==
  /\ pc' = "children"
  /\ pending' = DOMAIN clients'
  /\ UNCHANGED running

\* No packet, or one that is logged only or that its handler turns down: too
\* short, a key that no session has, a ping without a session...
NoPacket ==
  /\ pc = "main"
  /\ sent' = Nothing
  /\ UNCHANGED <<sessions, network>>
  /\ Polled

\* ID_NEW_INCOMING_CONNECTION. A UIN that has a session keeps its child and
\* has the new system recorded as its target.
NewIncomingConnection(a, g) ==
  LET u == GetUIN(g) IN
  /\ pc = "main" /\ ~Connected(a)
  /\ \A b \in DOMAIN incoming : incoming[b] # g
  /\ incoming' = Put(incoming, a, g)
  /\ \/ /\ u \in DOMAIN clients
        /\ clients' = [clients EXCEPT ![u].targetAddress = a,
                                      ![u].state = "CONNECTED"]
        /\ UNCHANGED child
     \/ u \notin DOMAIN clients /\ CreateChildPeer(g, a)
  /\ sent' = Nothing
  /\ UNCHANGED <<server, coordinatorAddress>>
  /\ Polled

\* The coordinator dialled again with its address left as it was.
DepartureKeepsCoordinator(a, U) ==
  LET link == [s \in Server |-> IF s = a THEN "idle" ELSE server[s]] IN
  /\ DestroyAndErase(U)
  /\ incoming' = Restrict(incoming, DOMAIN incoming \ {a})
  /\ Redial(IF coordinatorAddress = a THEN {Coordinator} ELSE {}, link)
  /\ UNCHANGED coordinatorAddress
  /\ sent' = Nothing

\* What both handlers of a connection's end do: destroy the sessions in U,
\* then dial the coordinator and the NAT server again if it was theirs.
Departure(a, U) ==
  LET link   == [s \in Server |-> IF s = a THEN "idle" ELSE server[s]]
      redial == {s \in Server : \/ s = Coordinator /\ coordinatorAddress = a
                                \/ s = NatServer /\ Ip[a] = Ip[NatServer]}
  IN
  /\ DestroyAndErase(U)
  /\ incoming' = Restrict(incoming, DOMAIN incoming \ {a})
  /\ coordinatorAddress' =
       IF coordinatorAddress = a THEN Unassigned ELSE coordinatorAddress
  /\ Redial(redial, link)
  /\ sent' = Nothing

\* ID_DISCONNECTION_NOTIFICATION: the remote system closed the connection.
DisconnectionNotification(a) ==
  /\ Handling(a)
  /\ Departure(a, SessionsOf(a))
  /\ Polled

\* ID_CONNECTION_LOST: the remote system fell silent.
ConnectionLost(a) ==
  /\ Handling(a)
  /\ Departure(a, SessionsThrough(a))
  /\ Polled

\* ID_CONNECTION_REQUEST_ACCEPTED, from a server the main peer has dialled.
\* The coordinator is told of this proxy; it is recognised by its IP.
ConnectionRequestAccepted(s) ==
  /\ pc = "main" /\ server[s] = "connecting"
  /\ server' = [server EXCEPT ![s] = "connected"]
  /\ IF Ip[s] = Ip[Coordinator]
     THEN /\ coordinatorAddress' = s
          /\ sent' = Message("CLIENT_REGISTER", Main, Main, s)
     ELSE UNCHANGED coordinatorAddress /\ sent' = Nothing
  /\ UNCHANGED <<sessions, incoming>>
  /\ Polled

\* ID_NAT_PUNCHTHROUGH_SUCCEEDED, with the GUID of the other side.
NatPunchthroughSucceeded(g) ==
  LET u == GetUIN(g) IN
  /\ Handling(NatServer)
  /\ u \in DOMAIN clients
  /\ clients' = [clients EXCEPT ![u].state = "PUNCH_CONNECTED"]
  /\ sent' = Nothing
  /\ UNCHANGED <<child, network>>
  /\ Polled

\* MW_PROXY_CLIENT_REGISTER: answered before the child peer is created.
HandleClientRegister(a, g) ==
  /\ Handling(a)
  /\ sent' = Message("CLIENT_REGISTER_RESP", Main, Main, a)
  /\ CreateChildPeer(g, a)
  /\ UNCHANGED network
  /\ Polled

\* MW_PROXY_CLIENT_ONLINE: the coordinator's form of the same request.
ClientOnline(a, g) ==
  /\ Handling(a)
  /\ CreateChildPeer(g, a)
  /\ sent' = Nothing
  /\ UNCHANGED network
  /\ Polled

\* The wait without a deadline.
HostRegisterUntimed(a, g) ==
  LET u == GetUIN(g) IN
  /\ Handling(a)
  /\ sent' = Message("HOST_REGISTER_RESP", Main, Main, a)
  /\ clients' =
       IF u \notin DOMAIN clients THEN clients
       ELSE [clients EXCEPT ![u].targetAddress = a, ![u].state = "HOST_CONNECTING"]
  /\ UNCHANGED <<child, network>>
  /\ Polled

\* MW_PROXY_HOST_REGISTER: the sender becomes the target of the session, and
\* has HostTimeout to be connected.
HandleHostRegister(a, g) ==
  LET u == GetUIN(g) IN
  /\ Handling(a)
  /\ sent' = Message("HOST_REGISTER_RESP", Main, Main, a)
  /\ clients' =
       IF u \notin DOMAIN clients THEN clients
       ELSE [clients EXCEPT ![u].targetAddress = a,
                            ![u].state = "HOST_CONNECTING",
                            ![u].hostConnectTimeout = HostTimeout]
  /\ UNCHANGED <<child, network>>
  /\ Polled

\* MW_PROXY_PING from an address that has a session.
HandlePingMessage(a) ==
  /\ Handling(a)
  /\ SessionsOf(a) # {}
  /\ sent' = Message("PONG", Main, Main, a)
  /\ UNCHANGED <<sessions, network>>
  /\ Polled

\* The first of a set of UINs in the order of the map.
IsFirst(u, U) == u \in U /\ \A v \in U : u <= v

\* MW_PROXY_DISCONNECT ends the first session of the sender, and no other.
HandleDisconnectMessage(a) ==
  /\ Handling(a)
  /\ \E u \in SessionsOf(a) : IsFirst(u, SessionsOf(a)) /\ DestroyAndErase({u})
  /\ sent' = Nothing
  /\ UNCHANGED network
  /\ Polled

\* MW_PROXY_DATA: data for the session whose UIN the packet names.
ProxyData(a, u) ==
  /\ Handling(a)
  /\ u \in DOMAIN clients
  /\ SendToTarget(u, "PROXY_DATA", a)
  /\ UNCHANGED <<sessions, network>>
  /\ Polled

\* The default branch. Bytes 1 to 4 of the packet, if it is long enough, are
\* taken for a UIN; if no session has it, the first session that the sender
\* is a side of is taken. Data from the session's target goes to its client.
Forward(a, key) ==
  IF key \notin DOMAIN clients /\ SessionsThrough(a) = {} THEN sent' = Nothing
  ELSE \E u \in DOMAIN clients :
         /\ IF key \in DOMAIN clients THEN u = key ELSE IsFirst(u, SessionsThrough(a))
         /\ IF clients[u].targetAddress = a
            THEN SendToClient(u, a) ELSE SendToTarget(u, "DATA", a)

OtherPacket(a, key) ==
  /\ Handling(a)
  /\ Forward(a, key)
  /\ UNCHANGED <<sessions, network>>
  /\ Polled

\* ID_CONNECTION_ATTEMPT_FAILED has no case of its own: it is forwarded like
\* data, and the server is not dialled again.
ConnectionAttemptFailed(s) ==
  /\ pc = "main" /\ server[s] = "connecting"
  /\ server' = [server EXCEPT ![s] = "idle"]
  /\ Forward(s, NoUin)
  /\ UNCHANGED <<sessions, incoming, coordinatorAddress>>
  /\ Polled

MainPeer ==
  \/ NoPacket
  \/ \E a \in Client, g \in Guid : NewIncomingConnection(a, g)
  \/ \E s \in Server : ConnectionRequestAccepted(s) \/ ConnectionAttemptFailed(s)
  \/ \E g \in Guid : NatPunchthroughSucceeded(g)
  \/ \E a \in Remote :
       \/ DisconnectionNotification(a)
       \/ ConnectionLost(a)
       \/ \E key \in Uin \cup {NoUin} : OtherPacket(a, key)
  \/ \E a \in Speaker :
       \/ HandlePingMessage(a)
       \/ HandleDisconnectMessage(a)
       \/ \E g \in Guid : \/ HandleClientRegister(a, g)
                          \/ HandleHostRegister(a, g)
                          \/ ClientOnline(a, g)
       \/ \E u \in Uin : ProxyData(a, u)

----------------------------------------------------------------------------
(* The child peers: one packet each an iteration, in the order of the map *)

\* The turn of session u's child.
Polling(u) ==
  /\ pc = "children"
  /\ IsFirst(u, pending)
  /\ pending' = pending \ {u}
  /\ UNCHANGED <<running, pc, network>>

\* The session has no child, or its child no packet.
NothingReceived(u) ==
  /\ Polling(u)
  /\ sent' = Nothing
  /\ UNCHANGED sessions

\* The child of session u returns a packet, the next that tells of its
\* connection when it has come from one of `links` and is as far as `seen`.
Received(u, seen, links) ==
  /\ Polling(u)
  /\ clients[u].childPeer # NULL
  /\ child[clients[u].childPeer].seen = seen
  /\ child[clients[u].childPeer].link \in links

\* ID_CONNECTION_REQUEST_ACCEPTED
ChildAccepted(u) ==
  /\ Received(u, "connecting", {"connected", "closed"})
  /\ clients' = [clients EXCEPT ![u].targetAddress = TargetServer,
                                ![u].state = "CONNECTED",
                                ![u].hostConnectTimeout = NoTimeout]
  /\ child' = [child EXCEPT ![clients[u].childPeer].seen = "connected"]
  /\ SendToClient(u, clients[u].childPeer)

\* The child destroyed and the session's pointer to it kept.
ChildGoneDangling(u) ==
  /\ \/ Received(u, "connecting", {"failed"})
     \/ Received(u, "connected", {"closed"})
  /\ child' = Restrict(child, DOMAIN child \ {clients[u].childPeer})
  /\ UNCHANGED clients
  /\ sent' = Nothing

\* ID_CONNECTION_ATTEMPT_FAILED, ID_DISCONNECTION_NOTIFICATION and
\* ID_CONNECTION_LOST: the child is destroyed, its entry stays in the table.
ChildGone(u) ==
  /\ \/ Received(u, "connecting", {"failed"})
     \/ Received(u, "connected", {"closed"})
  /\ child' = Restrict(child, DOMAIN child \ {clients[u].childPeer})
  /\ clients' = [clients EXCEPT ![u].childPeer = NULL]
  /\ sent' = Nothing

\* The target's other answers to a connection request (already connected, no
\* free connections, banned...) are forwarded like data.
ChildRefused(u) ==
  /\ Received(u, "connecting", {"refused"})
  /\ child' = [child EXCEPT ![clients[u].childPeer].seen = "refused"]
  /\ SendToClient(u, clients[u].childPeer)
  /\ UNCHANGED clients

\* Data that the target sent while the connection was up.
ChildData(u) ==
  /\ Received(u, "connected", {"connected", "closed"})
  /\ SendToClient(u, clients[u].childPeer)
  /\ UNCHANGED sessions

ChildPeers ==
  \E u \in pending :
    \/ NothingReceived(u)
    \/ ChildAccepted(u)
    \/ ChildGone(u)
    \/ ChildRefused(u)
    \/ ChildData(u)

----------------------------------------------------------------------------
(* The main loop *)

\* Deadlines never looked at.
NoTimeouts(u) == FALSE

CheckTimeout(u) ==
  /\ clients[u].state = "HOST_CONNECTING"
  /\ clients[u].hostConnectTimeout = Expired

\* The head of the loop: sessions whose deadline has passed are destroyed.
SweepTimeouts ==
  /\ pc = "sweep" /\ running
  /\ DestroyAndErase({u \in DOMAIN clients : CheckTimeout(u)})
  /\ pc' = "main"
  /\ sent' = Nothing
  /\ UNCHANGED <<network, running, pending>>

EndOfIteration ==
  /\ pc = "children" /\ pending = {}
  /\ pc' = "sweep"
  /\ sent' = Nothing
  /\ UNCHANGED <<sessions, network, running, pending>>

\* A loop that ends only when it finds nothing to serve.
ShutdownWhenIdle ==
  /\ pc = "sweep" /\ ~running /\ clients = <<>>
  /\ incoming' = <<>>
  /\ server' = [s \in Server |-> "idle"]
  /\ pc' = "done"
  /\ sent' = Nothing
  /\ UNCHANGED <<sessions, coordinatorAddress, running, pending>>

\* The loop ends: every session's child is destroyed, the table is cleared
\* and the main peer shut down.
Shutdown ==
  /\ pc = "sweep" /\ ~running
  /\ DestroyAndErase(DOMAIN clients)
  /\ incoming' = <<>>
  /\ server' = [s \in Server |-> "idle"]
  /\ pc' = "done"
  /\ sent' = Nothing
  /\ UNCHANGED <<coordinatorAddress, running, pending>>

Program == MainPeer \/ ChildPeers \/ SweepTimeouts \/ EndOfIteration \/ Shutdown

\* SignalHandler: SIGINT or SIGTERM, at any point of the program.
SignalHandler ==
  /\ running /\ running' = FALSE
  /\ UNCHANGED <<sessions, network, pc, pending, sent>>

\* The child peers' own threads and the target server. A RakPeer refuses a
\* GUID that is connected to it already.
LinkMoves(c, from, to) ==
  /\ pc # "done"
  /\ child[c].link = from
  /\ to = "connected" =>
       \A d \in DOMAIN child : child[d].link = "connected" => child[d].guid # child[c].guid
  /\ child' = [child EXCEPT ![c].link = to]
  /\ UNCHANGED <<clients, network, running, pc, pending, sent>>

ChildNetwork ==
  \E c \in DOMAIN child :
    \/ \E to \in {"connected", "failed", "refused"} : LinkMoves(c, "connecting", to)
    \/ LinkMoves(c, "connected", "closed")

\* A second passes.
Tick ==
  /\ \E u \in DOMAIN clients : clients[u].hostConnectTimeout > Expired
  /\ clients' = [u \in DOMAIN clients |->
                   [clients[u] EXCEPT !.hostConnectTimeout =
                      IF @ > Expired THEN @ - 1 ELSE @]]
  /\ UNCHANGED <<child, network, running, pc, pending, sent>>

\* The process has exited.
Exited == pc = "done" /\ UNCHANGED vars

Init ==
  /\ clients = <<>>
  /\ child = <<>>
  /\ incoming = <<>>
  /\ \E dialled \in SUBSET Dialled :
       server = [s \in Server |-> IF s \in dialled THEN "connecting" ELSE "idle"]
  /\ coordinatorAddress = Unassigned
  /\ running = TRUE
  /\ pc = "sweep"
  /\ pending = {}
  /\ sent = Nothing

Next == Program \/ ChildNetwork \/ SignalHandler \/ Tick \/ Exited

Spec == Init /\ [][Next]_vars

\* The thread keeps running and time keeps passing; no packet is promised.
FairSpec == Spec /\ WF_vars(Program) /\ WF_vars(Tick)

----------------------------------------------------------------------------
(* Properties *)

\* Every variable stays in its type, and children wait to be polled only
\* while the loop polls them.
TypeOK ==
  /\ DOMAIN clients \subseteq Uin /\ clients \in [DOMAIN clients -> ClientContext]
  /\ DOMAIN child \subseteq Child /\ child \in [DOMAIN child -> ChildPeer]
  /\ DOMAIN incoming \subseteq Client /\ incoming \in [DOMAIN incoming -> Guid]
  /\ server \in [Server -> {"idle", "connecting", "connected"}]
  /\ coordinatorAddress \in Server \cup {Unassigned}
  /\ running \in BOOLEAN
  /\ pc \in {"sweep", "main", "children", "done"}
  /\ pending \subseteq DOMAIN clients
  /\ pc # "children" => pending = {}

\* The table never points to a destroyed RakPeer (every handler and the poll
\* loop call through it), never to another session's, and the RakPeer it
\* points to carries the GUID that the session is filed under and was created
\* for the session's address.
OwnsChild(u) ==
  LET c == clients[u].childPeer IN
  c # NULL =>
    /\ c \in DOMAIN child
    /\ child[c].guid = clients[u].clientGuid /\ GetUIN(child[c].guid) = u
    /\ child[c].owner = clients[u].clientAddress
    /\ \A v \in DOMAIN clients : clients[v].childPeer = c => v = u

SessionsOwnTheirChildren == \A u \in DOMAIN clients : OwnsChild(u)

\* No session outlives the connection it was opened over: what its child
\* receives would go to whoever has the address next.
ClientsConnected == \A u \in DOMAIN clients : Connected(clients[u].clientAddress)

\* While the program runs, coordinatorAddress is a connected server's or
\* unassigned: a disconnection that was not matched to it would leave it
\* set, and the next one would not dial the coordinator again.
CoordinatorConnected ==
  pc # "done" /\ coordinatorAddress # Unassigned => server[coordinatorAddress] = "connected"

\* A session that waits for a host has a deadline and an address to wait for,
\* whatever the child and the NAT server report in the meantime.
HostConnectingHasDeadline ==
  \A u \in DOMAIN clients :
    clients[u].state = "HOST_CONNECTING" =>
      clients[u].hostConnectTimeout # NoTimeout /\ clients[u].targetAddress # Unassigned

\* What a child receives from the target goes to the address that the child
\* was created for, and that address is connected.
DataReturnsToOwner ==
  sent.kind = "DATA" /\ sent.from \in Child =>
    sent.to = child[sent.from].owner /\ Connected(sent.to)

\* When a system leaves, all of its sessions go, with their children; the
\* sessions that it is no side of stay as they are.
Isolated(a, u) ==
  LET x == clients[u] IN
  Connected(a) /\ ~Connected(a)' /\ pc' # "done" =>
    /\ x.clientAddress = a =>
         u \notin DOMAIN clients' /\ x.childPeer \notin DOMAIN child'
    /\ x.clientAddress # a /\ x.targetAddress # a =>
         /\ u \in DOMAIN clients' /\ clients'[u] = x
         /\ x.childPeer # NULL => x.childPeer \in DOMAIN child'

DepartureIsIsolated == [][\A a \in Remote, u \in DOMAIN clients : Isolated(a, u)]_vars

\* A session waits for a host forever only if hosts keep registering for it:
\* every deadline that is not set again ends the wait.
HostDeadlineEnforced ==
  \A u \in Uin :
    <>[](u \in DOMAIN clients /\ clients[u].state = "HOST_CONNECTING") =>
      []<>(u \in DOMAIN clients /\ clients[u].hostConnectTimeout = HostTimeout)

\* A signal ends the program, whatever packets keep arriving.
SignalEndsProgram == ~running ~> pc = "done"

\* The sessions behave as SessionTable says, whatever the loop, the timers
\* and the network do.
Online == {a \in Remote : Connected(a)}
SessionView ==
  [u \in DOMAIN clients |-> [guid  |-> clients[u].clientGuid,
                             owner |-> clients[u].clientAddress,
                             peer  |-> clients[u].childPeer]]
PeerView == [c \in DOMAIN child |-> [guid |-> child[c].guid, owner |-> child[c].owner]]

Sessions ==
  INSTANCE SessionTable WITH
    KeyOf   <- GetUIN,
    Address <- Remote,
    Peer    <- Child,
    NoPeer  <- NULL,
    online  <- Online,
    session <- SessionView,
    peer    <- PeerView

ImplementsSessionTable == Sessions!Spec

\* .sisyphus/plans/multi-client-refactor.md, definition of done: after Ctrl+C
\* every child peer has been shut down and destroyed.
AllChildrenDestroyedOnExit == pc = "done" => DOMAIN child = {}

\* The same plan: every client has a forwarding path of its own, so what a
\* client sends as data leaves by a child created for that client.
OwnForwardingPath ==
  sent.kind = "DATA" /\ sent.from \in Client /\ sent.via \in Child =>
    child[sent.via].owner = sent.from

\* MW_PROXY_CLIENT_REGISTER_RESP reports login success: whoever is sent it
\* has a session.
LoginSuccessMeansSession ==
  sent.kind = "CLIENT_REGISTER_RESP" => SessionsOf(sent.to) # {}

=============================================================================
