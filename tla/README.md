# Verification of raknet-proxy

TLA+ models of the proxy program (`src/raknet_proxy.cpp`) and of the part of RakNet that the
repository patches (`src/patch/`), the TLC runs that check them on small instances, and TLAPS
proofs of the properties that matter most for every value of the constants. `PROJECT.json` lists
the runs, the mutants of the code that each property catches, the source lines that each
definition stands for, the hazards and the theorems.

Run from this directory: `tlc -workers 2 -config proxy_clients.cfg MCRaknetProxy`,
`tlapm RaknetProxy_proofs.tla`; section 8 has the table of the runs, and the modules with proofs are those
named `*_proofs`.

## 1. The system and its parts

A game client connects to the proxy; the proxy opens, for that client alone, a second RakNet
connection to the target server under the client's own GUID, and forwards in both directions.

| Part | State | Operations | Meets the others by | What is hard | What makes it correct |
|---|---|---|---|---|---|
| Proxy main loop (`main`, handlers, `raknet_proxy.cpp`) | `clients` (UIN -> ClientContext), `coordinatorAddress`, `g_running` | one packet of the main peer an iteration, one of every child, the deadline sweep | calls of RakPeer (`Receive`, `Send`, `Connect`) | one table entered from three directions: client packets, child packets, time | an entry never points to a destroyed or foreign child; a session ends with its client; data goes home |
| Child peers (`CreateChildPeer`, `DestroyClient`) | one RakPeer a session, with its own thread | create (three ways to fail), poll, destroy | packets of the target | leaked, destroyed twice, or refused for its GUID | every session owns its child; none survives the program |
| Coordinator and NAT server links | connection state, inside the main peer | dial, accept, fail, lose, redial | recognised by IP | a redial that races RakPeer's own clean-up | the recorded coordinator is a connected one |
| UPnP mapping (`OpenUPNP`, `CloseUPNP`) | the router's mapping | add, remove | the router, through miniupnpc | a crash leaves the mapping | removed at a regular exit |
| RakPeer: remote system table (`RakPeer.cpp`) | slots, hash chains, active list, the update loop's cursor | assign, re-reference, close, drop while iterating | the handshake and the buffered commands | slots and addresses are reused; three views of one set | every view shows the same systems |
| RakPeer: handshake | request queue, connect modes, counters of retries | offline messages, requests, replies, cancellation | UDP, two peers at a time | loss, duplication, cross connection, limits | an attempt or a slot, never both; users know their connections; none half open for ever |
| RakPeer: start-up, shutdown, threads | `endThreads`, `isMainLoopThreadActive`, command and packet queues | Startup, Shutdown, Send, Receive, CloseConnection, RunUpdateCycle | lock-free queues and mutexes between the user's and the network's thread | resets from the wrong thread; commands queued after the end | nothing is used after it is freed, and what was queued is released once |
| ReplicaManager3 | replica lists by connection: queries, constructions, serializations, destructions | ReferenceAndConstruct, Update, OnConstruction, OnDestruction, PushConnection | plugin callbacks of RakPeer | a list changes while it is walked; a message about an object that is gone | a replica is in one list a connection; constructed before serialized |
| FileList | list of files with data | add, delete, compare, serialize | - | round trips | deserialize inverts serialize |
| MiniSSDP client | a socket's buffer | parse the daemon's answer | the daemon | lengths and bounds | no byte past what was read is used |

Left aside: argument parsing and the statistics output of the proxy, RakPeer's LIBCAT security
(compiled out), pings and clock differentials, the ban list, build files. The hazards, each at the
line where it bites, are in `PROJECT.json`.

## 2. Plan

Done, in this order:

1. `RaknetProxy` with its abstract specification `SessionTable`, and `RaknetProxy_proofs`: the
   repository's own program.
2. `RemoteSystemTable` with its abstract specification `RemoteSystems`, and
   `RemoteSystemTable_proofs`: the data structure that every connection of RakPeer lives in.
3. `RakPeerHandshake` and `RakPeerHandshake_proofs`: how a slot comes to be connected, between
   any number of peers.
4. `RakPeerThreads` and `RakPeerThreads_proofs`: the threads of one RakPeer.
5. `Replica3Callbacks` and `ReplicaManager3`: the plugin that is patched here, on several systems. Its proofs build on each
   other: `ReplicaManager3_proofs` (one manager and its lists), `ReplicaManager3Links_proofs` (a link and its two
   inboxes), `ReplicaManager3Owners_proofs` (what handlers and messages do to copies and originals),
   `ReplicaManager3Settled_proofs` (owners and those who follow them).

The modules divide RakPeer by question and not by function: the table abstracts from who may connect,
the handshake from slots that are reused and from threads, the threads from the messages of the
handshake. What one leaves open, another has: `OpenConnectionRequest2` is a bare assignment of a slot
in the table, a decision among six answers in the handshake, a datagram in a queue in the threads.

Left: the proxy's redial composed with the order in which `RakPeerThreads` tells of an end and frees
the slot (`raknet_proxy.cpp:612`; the run would show that a redial may find the old slot active and
come to nothing), and `ReplicaManager3` with several worlds. The pure algorithms of an
earlier plan are dropped: see *Not modelled*.

## 3. RaknetProxy

**State.** `clients` is `g_clients`, a function from UINs (the low bits of a GUID) to
`ClientContext` records. `child` holds the child RakPeers that exist, each with the GUID it was given, the
state of its connection to the target, which its own thread moves, and how far the packets already
received tell of it. `incoming` and `server` are the main peer's connections; `coordinatorAddress` and
`running` are the globals. `pc` and `pending` say where the loop is. `sent` is what the last step
handed to a peer.

**Actions.** One iteration of `main`'s loop is `SweepTimeouts`, one action of `MainPeer`, one
action of `ChildPeers` for each session that the table has at that point, in the order of the map, and
`EndOfIteration`. `MainPeer` has one action for each case of the packet switch; an action is
the whole case, the failure branches of what it calls included. Between any two of them a signal may
arrive (`SignalHandler`), a child's connection may move (`ChildNetwork`), a second may pass
(`Tick`). `Shutdown` is the end of `main`.

**What the environment may do.** The packets that `Receive` returns are chosen freely within what a
RakPeer can return: the sender is connected, a connection is announced before it is used and its end
is announced once, and two connected systems do not share a GUID (RakPeer refuses the second with
`ID_ALREADY_CONNECTED`; `RemoteSystemTable`'s `OpenConnectionRequest2` has that check). The five
bytes that the default case takes for a key are any UIN or none. In `CLIENT_ONLINE` the GUID is one
of `Guid`. `Send` to a system that a peer has no connection to is a loss, as in RakPeer.
`DestroyClient` is one step: the program's thread does nothing else during the child's
`Shutdown(300)`.

**Left out.** Statistics, logging, `stateStartTime` (never read), reliability and ordering of
messages on a connection, the relayed bytes.

**The abstract specification.** `SessionTable` knows systems that are online, sessions and peers: a session
belongs to a system that is online, has a peer made for it under its GUID, and a peer goes when its
session is closed, except that a session that is opened again gets a new one. The last clause is what the code does
and not what its plan says: see the findings. The refinement mapping reads `online`, `session` and `peer` off
the proxy's state; the loop, the deadlines, the target's connection and the messages disappear.

## 4. RemoteSystemTable

**State.** `systemAddress`, `guid`, `isActive` are the fields of `remoteSystemList[i]`;
`remoteSystemLookup` maps a bucket to its chain of slots; `activeSystemList` is the list that the
update cycle walks with `cursor` (`activeSystemListIndex` + 1, 0 outside the loop).

**Actions.** What the network thread does to the table: `OpenConnectionRequest2` and
`OpenConnectionReply2` assign a slot, `CloseConnection` and `ChangeSystemAddress` are the buffered
commands, `StartUpdate`, `UpdateRemoteSystem`, `DropRemoteSystem`, `EndUpdate` are the update loop. A
connection can be made whenever the code's checks on address and GUID allow: whether the handshake
gets there, and `AllowIncomingConnections`, are the next module's matter. `limitConnectionFrequencyFromTheSameIP`
only adds refusals, which leave the table alone.

A slot that is given up keeps its address and its entry in a chain. `ReferenceRemoteSystem` has to
take that entry along when the slot is used again, and any entry that the new address still has; the
mutants of `table` leave out the one or the other.

**Assumption.** `SharedReroutes` says whether `ChangeSystemAddress` may be called with an address that is in
use. The code does not check. Only RakNet's router plugins call it, and none is attached here,
so the run and the theorems take it to be `FALSE`. With `TRUE` TLC finds `ActiveSystemsFound` violated
in four states: the other system stays active and is no longer found. What the code
does with an address that the lookup then fails to find (it indexes the slots with -1) is not
modelled.

## 5. RakPeerHandshake

**State.** For each peer and each other one: `requestsMade` is the counter of the
`RequestedConnectionStruct` in the queue, `connectMode`, `weInitiated` and `guidOf` are the fields of
the slot if there is an active one, `heard` stands for what its reliability layer has received so far,
`stream` for the connected messages on their way. `wire` holds every offline message
that was ever sent, and any of them may arrive at any time: that is loss, duplication,
delay and reordering at once. `banned` is the ban list of nonsense messages, `dropping` the slot
whose end has been announced and which is not freed yet, `calling` a user between the check and the push of
`SendConnectionRequest`. `dialling` and `told` are what the users have been told. `guid`
changes with each restart.

**Actions.** The user's calls are `Connect` and `PushRequest` (two steps, since the code looks for an
active slot without a lock before it queues), `CancelConnectionAttempt` and `CloseConnection`. The
update cycle is `SendRequest1`, with the jumps of the counter when the network refuses the size or the send
takes too long, `GiveUp`, `Expire`, and `FreeSlot`. `ProcessOfflineNetworkPacket` has a disjunct for each
offline message, `Receive` one for each connected message of the handshake. `Fail`, `TakenForDuplicate`,
`BanExpires` and `Restart` are the environment.

**The environment.** The reliability layer is external: it delivers what a slot sends to a slot
once, `RELIABLE_ORDERED` messages in order among themselves, as long as both slots last.
When one side's slot is replaced, the numbers of its datagrams start again and the other side may take
them for duplicates (`TakenForDuplicate`). `Fail` is the 10 s without an acknowledgement, with
both slots there. Who dials whom, with which password and version, and both limits are a `setting`
chosen at the start; a user dials a system that he is neither connected to nor dialling, as
the proxy does.

**Left out.** Security (compiled out), the discovery of the MTU by padding (the MTU appears as the
steps of the counter only), `limitConnectionFrequencyFromTheSameIP` with its `ID_IP_RECENTLY_CONNECTED`, time stamps and
pings, the lists of addresses in the messages. Slots are per peer here: their reuse is the
table's matter.

**When both dial.** Most of what one would like to hold fails when two peers dial each other:
a reply then takes a slot that is already `CONNECTED` back (finding 5). `OneWay` states the guarantees for pairs
of which one dials; that is what the proxy does (it dials its target and its servers, and clients
dial it).

## 6. RakPeerThreads

**State.** `user` and `network` are the program counters of the user's thread in `Startup`,
`Shutdown`, `CloseConnection`, `GetSocket` and of `UpdateNetworkLoop`. `slots`, `activeSystemList` and
`activeSystemListIndex` are the table as the threads see it, `endThreads` and
`isMainLoopThreadActive` the flags they talk by, and the four queues are `bufferedPackets`, `bufferedCommands`,
`socketQueryOutput` and `packetReturnQueue`; each item carries the start-up in which it was queued.
`begun`, `ended` and `silenced` are the history of what the user has learnt and asked for; `raced` records that the
list was changed between `Shutdown`'s reset of it and the end of the network thread.

**Actions.** Between two actions of one thread the other may run. `Startup` is `OpenSockets`,
`StartThread`, `Started`; `Shutdown` is `BeginShutdown`, `NotifyNext` for each slot, `AllNotified`, `StopWaiting`,
`ResetActiveSystemList`, `EndThreads`, `FinishShutdown`; `CloseConnection` without a notification is two steps, as
it queues a command and only then looks whether the connection is there. One update cycle is `Check`,
`ProcessNetworkPacket` and `BufferedCommand` until their queues are empty, then for each system of the list
`NextSystem`, any number of `Message`, and `UpToDate` or `Drop` and `FreeSlot`.
`ListBecomes` has the window inside `++activeSystemListSize`: a reset that comes between the read and the write is lost.

**Left out.** Plugins, the pools of packets and datagrams, `Send` (a queued command like the others) and
its loopback, `ChangeSystemAddress` (in the table). A connection is one datagram and one message: the
handshake has the rest.

**What the code does and no property promises.** `Shutdown` resets the active list from the user's thread while the
network thread still runs (`RakPeer.cpp:1095`). In the model, a system that connects in that
window stays in the list of the next run as a ghost, the slot may be listed twice, the list can outgrow its array, the
assertions at 3958 and 5846 do not hold, and the ghost's end is announced again in each cycle (`floods` bounds how
often). This contradicts the comment at `RakPeer.h:782-784`. The invariants exempt exactly these states, by
`raced`. Also: a system that connects while `Shutdown` waits is never notified and makes it wait the full
time; `CloseConnection` without a notification tells the user once, twice or never, depending on how far the
network thread is (1660-1664), hence `silenced`; `GetSocket` gives up after a second and its late answer is taken by the next
query (2876-2890); a queued command goes by address and may hit a later connection; after `endThreads`
a drop frees nothing.

## 7. ReplicaManager3

**State.** For each system: `replica` is `userReplicaList` of world 0 with each replica's creator,
version and last sent version; `connection` maps a remote system to its `Connection_RM3`, whose
lists `construct`, `constructed`, `serialize`, `destruct` and `downloadGroup` keep their order. `inbox` is the return queue
followed by what is under way; how much of it has arrived stays open until it matters. `up` and `closing` are RakPeer's.

**Actions.** `ReceivePacket` and `ReceiveNothing` are one `RakPeer::Receive`: `Update` (construction by query
or by list, then serialization when the interval has passed), then the plugin's handler of the packet at the head
(`OnReceive` with `OnConstruction`, `OnSerialize`, `OnDownloadStarted`, `OnDownloadComplete`,
`OnScopeChange`, `PushConnection`, `PopConnection`). A plugin that keeps a packet makes `Receive` go on without another
`Update` (`looping`). The application references, changes, destroys and rescopes replicas, closes connections and shuts
down; the network thread connects, carries out the close and times out. A handler works on a copy of the manager and is
a function of it, so what it does in several loops is one step, as in the code, where one thread runs it.

**`Replica3Callbacks`** has the answers that `Replica3`'s helpers give for the five ways to use the plugin
(client- or server-constructed, one owner, several owners, static objects).

**Left out.** Worlds other than 0; time stamps and the bytes of streams (a version stands for them); the results
`RM3SR_SERIALIZED_ALWAYS`, `_ALWAYS_IDENTICALLY` and `_BROADCAST_IDENTICALLY_FORCE_SERIALIZATION`;
`DeserializeDestruction` that refuses; `RM3AOPC_DO_NOTHING`; `autoCreateConnections` and
`autoDestroyConnections` off; the notification of a graceful disconnect (a loss, as far as the plugin is concerned).
`SERIALIZED_UNIQUELY` is in the model, and `Uniquely` is empty in the runs.

**Assumptions.** No system is linked to itself (`ManagerAssumption`): RakPeer loops back what is sent to its own
GUID (`RakPeer.cpp:4009`), and no connection serves it. `QuickReconnect = FALSE`: a system is not connected again before both applications have read of
the loss. With `TRUE`, TLC finds `SettledNoOrphans` violated in 20 states: the plugin still has the former connection, and
what `Update` sends for it goes out on the new one. When the loss is read that is forgotten; when the replica is
destroyed, the other side is not told.

**What list mode takes for granted.** A system that is asked for its list of replicas enters what it constructs or is sent
into `constructedReplicaList`, which refuses a second entry, and into `queryToSerializeReplicaList`, which does not
(`ReplicaManager3.cpp:2017-2022`). `NoCrossing` says what keeps the two in agreement: no construction arrives of a replica
that this side has constructed on the sender, and none comes twice. In the run one side constructs in that mode, and it
holds because a destruction is told to whoever has the replica, before it is constructed anew (section 10 has the proof);
where two sides construct one replica their messages may cross and the entry is there twice. It takes more than a single owner,
too: with the receiver in `Grouping`, TLC finds `NoCrossing` violated, by the behaviour of finding 4. A destruction is
held for a download whose end has passed, and the construction that follows it on the wire overtakes it.

**What the code does and no property promises.** The assertion "Got OnConstruction but no connection yet"
(`ReplicaManager3.cpp:1051`) can fire; a replica that is constructed again keeps the last unique result (2024-2056).

## 8. The runs

| Run | Bounds | What it shows |
|---|---|---|
| `proxy_clients` | 2 clients, one of which speaks the proxy's protocol, 2 GUIDs, 2 children, no servers; 1.4 M states | children are owned and never dangling, the target's data reaches the right client, a departure ends exactly the sessions of who leaves |
| `proxy_coordinator` | 1 client, a coordinator that may open sessions for either GUID and be lost and redialled; 1.8 M states | `coordinatorAddress` follows the connection, sessions go with it, no wait for a host is without deadline |
| `proxy_liveness` | 1 client, GUIDs 1 and 5 with one UIN, NAT server on the coordinator's IP, a deadline of 1 tick; 0.5 M states | the refinement of `SessionTable`, deadlines end waits, a signal ends the program |
| `proxy_exit` | 1 client, 1 GUID, 2 children | violation: a child is not destroyed at exit |
| `proxy_paths` | 2 clients, both speaking | violation: a client's data leaves by another client's child |
| `proxy_login` | 2 clients, both speaking | violation: success is answered without a session |
| `table` | 3 slots, 4 addresses, 3 of them in one chain, 2 GUIDs; 36 k states | lookup, scan and active list agree; everyone is updated; the table is a bounded map |
| `handshake` | 3 peers, 3 attempts a dial, 2 dials, 7 settings: failure and restart, close and cancel, wrong password, other version, one slot for two on either side, both dial; 223 k states | users know their connections, an attempt and a slot exclude each other, no wrong password gets in, every attempt is answered, both sides agree in the end |
| `handshake_crossed` | the setting in which both dial | violation: a `CONNECTED` slot goes back to `REQUESTED_CONNECTION` |
| `threads` | 2 slots, 2 addresses, 1 or 2 start-ups, 6 cases of which calls and faults there are; 1.0 M states | nothing outlives a shutdown, ends are told and are final, the active list is exact, calls return |
| `replicas` | 2 systems (3 when clients construct, so that the server relays), 1 replica, 1 or 2 updates, at most 1 reconnection and 1 fault, each of the five policies; 278 k states | lists never contradict each other or dangle, no constructions cross; when all is settled both sides agree, nothing is orphaned, every connection is validated |
| `replicas_download` | the same, the server constructs | violation: what is held for a download is never released |

*Why the bounds are enough.* Proxy: two sessions are what it takes for one to disturb the other, two GUIDs
for one address to have two sessions, two children for one to be leaked while the other is used or for no instance
to be left. `UinModulus = 4` makes the 2^32 of the code collide within the GUIDs of `proxy_liveness`. One tick
tells a deadline that runs from one that has passed; a deadline of 0 is passed at the next tick. Table: three
slots let a system be moved in the list while another is dropped and a third follows; three
addresses in a chain let the first, a middle and the last entry be removed; a fourth, in another chain, lets a slot
move between chains. Handshake: two attempts of one user let the datagrams of the first meet the second; three peers
are a pair and one who takes its slot; `SendConnectionAttemptCount = 3` has each of the three MTU sizes once, and
the counter's jumps and its end. Threads: two connections of one address are an old and a new one,
two slots let the list shrink in the middle, two start-ups let something outlive the first; the cases keep
what they combine small. Replicas: the messages about one replica are what overtakes itself; three
systems are needed where one relays.

*Symmetry.* Child peers are interchangeable, so the proxy's runs without liveness use it; no
other run does.

*Deadlock* is checked where the system goes on for ever or says that it has ended: the proxy ends in `Exited`, and the
table always has a step. It is not in the handshake's, threads' and replicas' runs,
where the environment has a budget of what may happen: when it is spent and all is settled, nothing is left to do.

*Fairness.* `WF(Program)`: `main`'s loop polls, never blocks for longer than its 30 ms sleep and
each call it makes returns (a child's `Shutdown` is bounded by 300 ms). `WF(Tick)`: time passes. No packet, no network step and
no signal is promised. `WF(UpdateCycle)`: RakPeer's network thread calls `RunUpdateCycle` for ever; after it has read
packets and commands it goes through the active list, and nothing adds to the list while it does. In the handshake: the
update cycle goes on (`Attempts`, `Expire`, `FreeSlot`), a user's call returns (`PushRequest`), and the reliability layer
resends until a message arrives (`Receive`); that an offline message ever arrives is not assumed, nor that a
ban expires. In the threads: both are scheduled, `WF(GoOn)` for a call that has begun and `WF(Network)` for the cycle; that
the user makes a call, or a datagram arrives, is not assumed. `CallsReturn` does rest on finitely many datagrams and
messages: the loop over `PopBufferedPacket` has no bound of its own.

## 9. Findings

1. *A child that is never destroyed* (`proxy_exit`). `CreateChildPeer` stores over an entry that the UIN
   already has and loses the pointer to the old child. A direct connection creates a child, a
   `CLIENT_REGISTER` on it creates a second. The plan in `.sisyphus/plans/multi-client-refactor.md`
   has every child shut down and destroyed at exit.
2. *Another client's path* (`proxy_paths`). The default case takes bytes 1 to 4 of any packet for a UIN
   before it looks at the sender. The same plan has every client forwarded on its own path.
3. *Success without a session* (`proxy_login`). `CLIENT_REGISTER_RESP`, "login success" by the comment
   in the source, is sent before the child peer is created, and a failure is not reported.
4. *A download that is never released* (`replicas_download`). A construction that is queued behind the end of a
   download is read before what the plugin pushed back to the tail of the queue, and is held again; the end then
   passes while the group is not empty. The comment at `ReplicaManager3.cpp:1334-1335` has the group empty by then.
5. *A connection that is taken back* (`handshake_crossed`). When both sides dial, the second reply finds a slot that
   is `CONNECTED` and sets it to `REQUESTED_CONNECTION`; the comment at `RakPeer.cpp:5989-5990` says of crossing
   connections why that must not be.

Other observations, met while modelling and listed as hazards: `AllowIncomingConnections` counts connected systems
only, so handshakes under way pass the limit (`RakPeer.cpp:4038`, the model has it); a peer sends one request more than the
count that `RakPeerInterface.h:124-125` documents (5715, in the model); a size that the network refuses
for ever at the smallest MTU repeats for ever (5801, bounded by `faults` here); an honest peer is banned when its late message reaches an
unverified slot (5968, in the model); the handler of `ID_OPEN_CONNECTION_REPLY_2` uses the request after it
unlocks the queue (4943).

## 10. What is proved

**Proxy.** For every set of GUIDs, addresses and children, every UIN modulus and deadline
(`ConstantsAssumption`: GUIDs are natural numbers, the address kinds are distinct):

* `TypeCorrect`, `ChildrenOwned`, `NoStaleClient`: `TypeOK`, `SessionsOwnTheirChildren`,
  `ClientsConnected`. Their conjunction `Inv` is inductive and none of the last two is alone: that a
  session's child exists follows from ownership being exclusive, as destroying one session's child must not
  touch another's; that clients are connected is kept only because a departure closes all
  sessions of the address. Handlers change the table in three ways (create, destroy and erase,
  change a field no invariant looks at); one lemma for each, and one step for each action.
* `CoordinatorKnown`, `DeadlineKept`: inductive given `Inv`; the deadline needs that only
  `HandleHostRegister` enters the waiting state and that it records the address in the same step.
* `NoMisdeliveredData`: `DataReturnsToOwner` by `DataInv`, which says of the last step's message
  what the poll knew when it sent it.
* `DepartureIsolated`: the action property, from `Inv` and the two departure handlers.
* `Refinement`: the proxy implements `SessionTable` under the mapping of section 3.

**Table.** For every number of slots, set of addresses and hash function (`TableAssumption`), while
`SharedReroutes` is `FALSE`:

* `TypeCorrect`, `SystemsFound`, `UpdateListExact`. `ActiveSystemsFound` is not inductive: an
  entry of an *inactive* slot that lies about its address does no harm until the slot is used
  again. The invariant adds that entries never lie (`Led`), that an address has one entry in its
  chain at most (`Single`), so that a scan's first match is its only one, and that an active slot
  has its entry (`Entered`). `ReferenceKeepsTable` carries the argument.
* `TableRefinement`: the table implements `RemoteSystems`; the bound on connected addresses comes from
  a free slot, by counting.

**Handshake.** For every set of peers and of settings, every number of attempts from 3 to 254
(`HandshakeAssumption`: fewer divide by zero, more do not fit the `unsigned char` that is compared for equality):

* `TypeCorrect`: in particular the counter never passes the value at which an attempt is given up, whatever the jumps
  of the two kinds of slow networks: `AfterTooLong` and `AfterSlowSend` stay below it, by arithmetic.
* `OneAttemptOrSlot`, `UsersAreTold`, `WrongPasswordsRejected`, `ConnectionsStay`: `NoSlotWhileQueued`,
  `UserKnowsConnections`, `PasswordsMatch`, `NotDowngraded`. The invariant `IInv` adds to `TypeOK` what may be on
  its way: a slot is asked for by those who dial only (`DiallersAsk`), for a late request must not open a slot on the
  side that dials; a rejected peer is never sent an acceptance (`StreamsAllowed`); and, for each pair, that an
  attempt has a user who waits for it and no slot (`PairOK`). `PairOK` is about one direction, so an action of p
  leaves all other pairs alone; one lemma per handler shows it kept for the pair that it works on.
  `NotDowngraded` follows: only `OnReply2` sets `REQUESTED_CONNECTION`, and it needs a queued attempt.

**Threads.** For every number of slots and addresses and all limits (`ThreadsAssumption`):

* `TypeCorrect`, and `Places`: which thread may be where when the flags say what. The
  resets of `Startup` and `Shutdown` are safe because the network thread is not running by then.
* `ActiveListCorrect`: `ActiveListTrue`. Inductive with `TableTrue`: an address has one slot, the
  list is that of the active slots or, after the reset, empty, and the slot that is being updated is active.
* `NothingOutlives`: `NothingFromBefore`. Every item is of the present run (`AllFresh`), and all queues are empty when there
  is no run. What would break it is a thread that queues after `Shutdown` has cleared: none is left by then (`Places`).
* `NothingAfterTheEnd`, `EndsAreTold`: `EndsAreFinal`, `NoHiddenEnd`. A connection has a number that was never used
  and at most one slot (`Numbered`); its end is the last of it in the queue and leaves its slot to be freed next
  (`EndsInOrder`); a connection that has begun keeps an active slot, in a mode whose end is announced, until its end is
  queued (`BeginningsKept`). The three need each other through the step from `Drop` to `FreeSlot`.

**Replicas.** For every set of systems, links and replicas, every mode of the connections, each of the five policies and
all limits (`ManagerAssumption`: the sets are finite and no system is linked to itself):

* `ManagersTyped`, `ListsStayConsistent`, `NothingDangles`: `TypeOK`, `ListsConsistent`, `NoDanglingEntries`, of every
  behaviour in which no constructions cross (`[]NoCrossing`). None is inductive alone: an entry that dangles is read by
  `SendSerializeIfChanged` where there is no object, and an entry that is there twice survives the `Dereference` that
  deletes its replica. The invariant `Inv` says of every manager that its four lists name replicas that exist, repeat
  nothing and agree with each other, that the two lists of queries are empty in list mode, and of every inbox that it
  has messages about known replicas. The operations on a connection come first, then the folds, the handlers and the
  actions; a handler is a function of the manager, so that its lemma says that it takes a correct manager to a
  correct one.
* `ManagersTypedByQuery`, `ListsStayConsistentByQuery`, `NothingDanglesByQuery`: the same of every behaviour where no
  application is asked for a list (`OnlyQueries`), for then `Inv` implies `NoCrossing`.
* `ValidatedWhenSettled`, `ValidatedWhenSettledByQuery`: `SettledValidated`, without `QuickReconnect`. The invariant
  `Links` follows a link through its two inboxes. A side whose connection has ended has the loss still to read, behind
  every announcement of it; a side whose connection is up reads of no loss, and of one announcement exactly when it
  has not pushed the connection yet (`EndOK`). And the validation that a side waits for is on its way, behind that side's own
  announcement, or the other side has still to push its connection and will send one (`ValidationOK`). That
  `PushConnection` sends a validation and `OnScopeChange` answers one is what both halves need.
* `ConstructionsNeverCross`: `NoCrossing`, where every policy is either one in which no application is asked for a list,
  or `OneOwner`: `SingleOwner` in list mode, one creator a replica, and no system that groups
  downloads linked to a creator (it might hold a destruction back, see section 7). The run `replicas` is such an
  instance, with all five policies. `OwnersTyped`, `OwnersListsConsistent`,
  `OwnersNothingDangles` and `OwnersValidated` drop the condition `[]NoCrossing` from the theorems above. All of them need
  `~QuickReconnect`.
* `NoOrphansWhenSettled`, `ReplicasAgreeWhenSettled`: `SettledNoOrphans` and `SettledReplicasAgree`, where every policy is
  `OneOwner`, for any number of systems, links and replicas, any `Uniquely`, `Scoped` and `Failing`, and all limits.

  The inductive invariant is `OwnersInv`: `Inv`, `Links` and `Owned`. The safety property says that nothing is there twice
  and the settled ones what is there in the end; neither says anything of what is on its way, and what is
  on its way decides both. `Following` does. An inbox is read as a function on copies: `Effect` is what one packet makes of the
  receiver's version of a replica (a construction gives version 0, a serialization sets it if there is a copy, a
  destruction, a loss or an announcement leaves none), and a list `Leads` from a copy to another if there is a history
  of such effects in which nothing is constructed that is there. `Following(s, d)`: for each replica that s owns, what d has still to read
  from s leads from the copy that d has to one that `Fits` what s takes d for: none if s has not got the replica in
  `constructed`, and one otherwise, in the owner's version if that was the last one sent. A handler of s that sends keeps
  this because what it adds to the wire and what it changes in its lists correspond (`Tells`, one lemma for each operation,
  then through the loops), and a handler of d because it does to its copy what `Effect` says (`CopyIn`); a loss cuts the list short where s no
  longer takes d for anything. The rest of `Owned` is bookkeeping: an owner never has a copy
  of its own replica from elsewhere (`ObjectsOK`, `ConnectionOK`), nobody sends about what he does not own (`PacketsOK`), and only owners
  rescope (`HiddenOK`). `NoCrossing` is then what histories require at their first step, and in a settled state the lists are empty,
  so that the copy is what the owner takes it for. TLC cannot evaluate `Leads`, which quantifies over histories; what it
  implies are the invariants of `replicas`.
* *Loops.* `FoldLeft`, the loops over the lists, is a `CHOOSE` of a function on sets of positions. The
  library's induction theorems take an operator as a parameter, which none of the installed provers can instantiate;
  here the function is shown to exist by an induction over a *set* of numbers (`FiniteInduction`, from the
  well-foundedness of strict inclusion), and a fold is a chain of values that starts with the base (`FoldThrough`, in
  `ReplicaManager3_proofs`). An invariant of the loop's body is then an invariant of the loop.

**Only model-checked:** the liveness properties (`HostDeadlineEnforced`, `SignalEndsProgram`, `EveryoneUpdated`, `DialAnswered`,
`HalfOpenResolved`, `CallsReturn`), since TLAPS does not prove `ENABLED` and fairness. Of `ReplicaManager3`:
`SettledReplicasAgree` and `SettledNoOrphans` for the four policies other than `SingleOwner`, and for `SingleOwner` by query. There an
owner's copy may come back to it (several owners), a server relays what clients construct, a construction waits for the
answer to a query, or both sides have the replica from the start; `Following` takes an owner that is the only one to send. And `NoCrossing`
stays a hypothesis of the theorems on lists for list mode with another policy, where it can fail. No recursive operator is used.

## 11. Not modelled

* *FileList* (`src/patch/FileList.cpp`): a list that one caller fills and serializes, and file I/O. No state
  outlives a call, nothing runs concurrently, and the proxy never uses it; its round trip is a matter of bytes.
* *MiniSSDP client* and *UPnP mapping*: one blocking exchange with a local daemon or the router at start and end of the
  program. What matters of it is which bytes are read, a question for a test or a sanitizer; the mapping that a crash
  leaves behind is the router's state and nothing in the program looks at it.
* *Security*: compiled out, `CMakeLists.txt` does not set `LIBCAT_SECURITY`.
* *Pings, clock differentials, statistics, the ban list's API, plugin attachment*: the properties do not tell their states apart.
  Of the ban list, the handshake has what the program does by itself.
* *Build and CI*, *argument parsing*: no behaviour, or data only.

Hazards without a property name the reason in `PROJECT.json`.
