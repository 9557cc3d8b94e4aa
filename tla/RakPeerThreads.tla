---------------------------- MODULE RakPeerThreads ----------------------------
(***************************************************************************)
(* The threads of one RakPeer: the user's, which starts it up, shuts it    *)
(* down, closes connections, asks for sockets and receives; the network    *)
(* thread with its update cycle; and the threads that read the sockets.    *)
(* They share the table of remote systems, mostly without a lock, and four *)
(* queues: datagrams to the network thread, commands to it, and answers    *)
(* and packets from it.                                                    *)
(*                                                                         *)
(* A connection here is opened by one datagram and made by one message;    *)
(* RakPeerHandshake has the messages in between.                           *)
(***************************************************************************)
EXTENDS Integers, SequencesExt

CONSTANTS
  Peer, NoPeer,           \* addresses of remote systems
  MaximumNumberOfPeers,
  Limits                  \* how often what is bounded may happen: the cases to look at

Budgets == {"runs", "opens", "closes", "queries", "messages", "faults", "floods"}

ASSUME ThreadsAssumption ==
  /\ NoPeer \notin Peer
  /\ MaximumNumberOfPeers \in Nat \ {0}
  /\ Limits \subseteq [Budgets -> Nat]

VARIABLES
  user,                   \* where the user's thread is
  target,                 \* whom it closes or asks about
  passed,                 \* how many slots Shutdown has looked at
  network,                \* where the network thread is
  updating,               \* the slot that it has taken from the active list
  endThreads, isMainLoopThreadActive,
  reading,                \* are there threads that read the sockets?
  slots,                  \* remoteSystemList
  activeSystemList,       \* its first activeSystemListSize entries
  activeSystemListIndex,
  bufferedPackets, bufferedCommands, socketQueryOutput, packetReturnQueue,
  begun, ended,           \* connections of whose beginning, whose end, the user
                          \*   has been told since the start-up
  silenced,               \* addresses that he has closed without a notification
  raced,                  \* has the list changed between Shutdown's reset of it
                          \*   and the end of the network thread?
  left                    \* how much is left of each limit

table == <<slots, activeSystemList, raced>>
queues == <<bufferedPackets, bufferedCommands, socketQueryOutput, packetReturnQueue>>
flags == <<endThreads, isMainLoopThreadActive, reading>>
knowledge == <<begun, ended, silenced>>
vars == <<user, target, passed, network, updating, flags, table, activeSystemListIndex, queues,
          knowledge, left>>

Slot == 1..MaximumNumberOfPeers
NoSlot == 0

\* The start-ups and the connections are numbered, by what is left of them.
run == left["runs"]
Connection == [address : Peer, number : Nat]
NoConnection == [address |-> NoPeer, number |-> 0]

ConnectMode == {"NO_ACTION", "UNVERIFIED_SENDER", "CONNECTED", "DISCONNECT_ASAP",
                "DISCONNECT_ON_NO_ACK"}

Spend(b) == left[b] > 0 /\ left' = [left EXCEPT ![b] = @ - 1]

Push(queue, item) == Append(queue, [item |-> item, run |-> run])

----------------------------------------------------------------------------
(* The table *)

Unused == [isActive |-> FALSE, connection |-> NoConnection, connectMode |-> "NO_ACTION"]

IsActive(s) == slots[s].isActive
AddressOf(s) == slots[s].connection.address
SlotsOf(p) == {s \in Slot : IsActive(s) /\ AddressOf(s) = p}

\* The size of the list is read, changed and written by the network thread
\* without a lock: Shutdown's reset of it may come in between and be lost.
ListBecomes(list) ==
  /\ activeSystemList' = list
  /\ \/ raced' = (raced \/ user \in {"ending", "joining"}) /\ UNCHANGED user
     \/ user = "stopping" /\ user' = "ending" /\ raced' = TRUE

\* A variant that counts the slots from 0.
AddFromZero(s) == ListBecomes(Append(activeSystemList, s - 1))

AddToActiveSystemList(s) == ListBecomes(Append(activeSystemList, s))

\* The first entry with the address, if there is one, gives way to the last.
RemoveFromActiveSystemList(p) ==
  LET last == Len(activeSystemList)
      found == {i \in 1..last : AddressOf(activeSystemList[i]) = p}
  IN \/ found = {} /\ UNCHANGED <<activeSystemList, raced, user>>
     \/ \E i \in found :
          /\ \A j \in found : i <= j
          /\ ListBecomes(Front([activeSystemList EXCEPT ![i] = activeSystemList[last]]))

\* CloseConnectionInternal without a notification, from the network thread: it
\* does nothing any more once Shutdown has told the thread to end.
CloseConnectionInternal(p) ==
  \/ (endThreads \/ SlotsOf(p) = {}) /\ UNCHANGED <<table, user>>
  \/ /\ ~endThreads /\ SlotsOf(p) # {}
     /\ RemoveFromActiveSystemList(p)
     /\ slots' = [s \in Slot |-> [slots[s] EXCEPT !.isActive = @ /\ AddressOf(s) # p]]

----------------------------------------------------------------------------
(* Startup *)

\* The sockets are bound, and threads read them ...
OpenSockets ==
  /\ user = "down" /\ Spend("runs")
  /\ user' = "starting"
  /\ reading' = TRUE
  /\ UNCHANGED <<target, passed, network, updating, endThreads, isMainLoopThreadActive,
                 table, activeSystemListIndex, queues, knowledge>>

\* ... then the table is allocated, the queues are cleared and the thread is
\* created; if that fails, all is shut down again.  The list is filled with
\* the slots in turn, and its size is not touched.
StartThread ==
  /\ user = "starting"
  /\ slots' = [s \in Slot |-> Unused]
  /\ activeSystemList' \in {list \in [DOMAIN activeSystemList -> Slot] :
                              \A i \in DOMAIN list \cap Slot : list[i] = i}
  /\ endThreads' = FALSE
  /\ bufferedCommands' = <<>> /\ bufferedPackets' = <<>> /\ socketQueryOutput' = <<>>
  /\ \/ user' = "awaiting" /\ network' = "begins"
     \/ user' = "stopping" /\ UNCHANGED network
  /\ UNCHANGED <<target, passed, updating, isMainLoopThreadActive, reading, raced,
                 activeSystemListIndex, packetReturnQueue, knowledge, left>>

Started ==
  /\ user = "awaiting" /\ isMainLoopThreadActive
  /\ user' = "up"
  /\ UNCHANGED <<target, passed, network, updating, flags, table, activeSystemListIndex,
                 queues, knowledge, left>>

----------------------------------------------------------------------------
(* Calls while the peer is up *)

Command(command, p) == [command |-> command, address |-> p]

Packet(type, s) == [type |-> type, connection |-> slots[s].connection]

ConnectedTo(p) == {s \in SlotsOf(p) : slots[s].connectMode = "CONNECTED"}

\* A variant that tells the user of the end at once.
NotifyAndTell(p) ==
  /\ user = "up" /\ Spend("closes")
  /\ bufferedCommands' = Push(bufferedCommands, Command("DISCONNECT", p))
  /\ \E s \in ConnectedTo(p) : packetReturnQueue' = Push(packetReturnQueue, Packet("END", s))
  /\ UNCHANGED <<user, target, passed, network, updating, flags, table,
                 activeSystemListIndex, bufferedPackets, socketQueryOutput, knowledge>>

\* With a notification it is all left to the network thread.
NotifyAndFlagForShutdown(p) ==
  /\ user = "up" /\ Spend("closes")
  /\ bufferedCommands' = Push(bufferedCommands, Command("DISCONNECT", p))
  /\ UNCHANGED <<user, target, passed, network, updating, flags, table,
                 activeSystemListIndex, bufferedPackets, socketQueryOutput,
                 packetReturnQueue, knowledge>>

\* Without one the command is queued ...
CloseConnection(p) ==
  /\ user = "up" /\ Spend("closes")
  /\ bufferedCommands' = Push(bufferedCommands, Command("CLOSE", p))
  /\ user' = "closing" /\ target' = p
  /\ silenced' = silenced \cup {p}
  /\ UNCHANGED <<passed, network, updating, flags, table, activeSystemListIndex,
                 bufferedPackets, socketQueryOutput, packetReturnQueue, begun, ended>>

\* ... and then the user is told by his own thread that the connection is lost,
\* if it is still there.
ReturnConnectionLost ==
  LET connected == ConnectedTo(target) IN
  /\ user = "closing"
  /\ user' = "up" /\ target' = NoPeer
  /\ packetReturnQueue' = IF connected = {} THEN packetReturnQueue
                          ELSE Push(packetReturnQueue,
                                    Packet("END", CHOOSE s \in connected : TRUE))
  /\ UNCHANGED <<passed, network, updating, flags, table, activeSystemListIndex,
                 bufferedPackets, bufferedCommands, socketQueryOutput, knowledge, left>>

\* GetSocket for an address, GetSockets for none: the network thread is asked.
GetSocket(p) ==
  /\ user = "up" /\ Spend("queries")
  /\ bufferedCommands' = Push(bufferedCommands, Command("GET_SOCKET", p))
  /\ user' = "querying" /\ target' = p
  /\ UNCHANGED <<passed, network, updating, flags, table, activeSystemListIndex,
                 bufferedPackets, socketQueryOutput, packetReturnQueue, knowledge>>

\* The first answer there is, or none after a second; GetSockets waits for ever.
SocketsGot ==
  /\ user = "querying"
  /\ user' = "up" /\ target' = NoPeer
  /\ \/ socketQueryOutput # <<>> /\ socketQueryOutput' = Tail(socketQueryOutput)
     \/ target # NoPeer /\ UNCHANGED socketQueryOutput
  /\ UNCHANGED <<passed, network, updating, flags, table, activeSystemListIndex,
                 bufferedPackets, bufferedCommands, packetReturnQueue, knowledge, left>>

Receive ==
  /\ user = "up" /\ packetReturnQueue # <<>>
  /\ LET packet == Head(packetReturnQueue).item
         Which(type) == IF packet.type = type THEN {packet.connection} ELSE {}
     IN begun' = begun \cup Which("NEW") /\ ended' = ended \cup Which("END")
  /\ packetReturnQueue' = Tail(packetReturnQueue)
  /\ UNCHANGED <<user, target, passed, network, updating, flags, table,
                 activeSystemListIndex, bufferedPackets, bufferedCommands,
                 socketQueryOutput, silenced, left>>

----------------------------------------------------------------------------
(* Shutdown *)

\* With a time to wait, ...
BeginShutdown ==
  /\ user = "up"
  /\ user' \in {"notifying", "stopping"}
  /\ UNCHANGED <<target, passed, network, updating, flags, table, activeSystemListIndex,
                 queues, knowledge, left>>

\* ... every active system is notified first, one after the other ...
NotifyNext ==
  LET s == passed + 1 IN
  /\ user = "notifying" /\ s \in Slot
  /\ passed' = s
  /\ bufferedCommands' = IF IsActive(s)
                         THEN Push(bufferedCommands, Command("DISCONNECT", AddressOf(s)))
                         ELSE bufferedCommands
  /\ UNCHANGED <<user, target, network, updating, flags, table, activeSystemListIndex,
                 bufferedPackets, socketQueryOutput, packetReturnQueue, knowledge, left>>

AllNotified ==
  /\ user = "notifying" /\ passed + 1 \notin Slot
  /\ user' = "waiting" /\ passed' = 0
  /\ UNCHANGED <<target, network, updating, flags, table, activeSystemListIndex, queues,
                 knowledge, left>>

\* ... until all have gone, or the time is up.
StopWaiting ==
  /\ user = "waiting"
  /\ user' = "stopping"
  /\ UNCHANGED <<target, passed, network, updating, flags, table, activeSystemListIndex,
                 queues, knowledge, left>>

\* A variant that leaves the list as it is.
ShutdownKeepsList ==
  /\ user = "stopping"
  /\ user' = "ending"
  /\ UNCHANGED <<target, passed, network, updating, flags, table, activeSystemListIndex,
                 queues, knowledge, left>>

ResetActiveSystemList ==
  /\ user = "stopping"
  /\ user' = "ending"
  /\ activeSystemList' = <<>>
  /\ UNCHANGED <<target, passed, network, updating, flags, slots, raced,
                 activeSystemListIndex, queues, knowledge, left>>

EndThreads ==
  /\ user = "ending"
  /\ user' = "joining"
  /\ endThreads' = TRUE
  /\ UNCHANGED <<target, passed, network, updating, isMainLoopThreadActive, reading, table,
                 activeSystemListIndex, queues, knowledge, left>>

\* A variant that leaves the packets that the user has not received.
ClearAllButPackets ==
  bufferedPackets' = <<>> /\ bufferedCommands' = <<>> /\ socketQueryOutput' = <<>>
  /\ UNCHANGED packetReturnQueue

ClearAll ==
  bufferedPackets' = <<>> /\ bufferedCommands' = <<>> /\ socketQueryOutput' = <<>>
  /\ packetReturnQueue' = <<>>

\* When the threads have ended.
FinishShutdown ==
  /\ user = "joining" /\ ~isMainLoopThreadActive
  /\ user' = "down"
  /\ reading' = FALSE
  /\ slots' = [s \in Slot |-> Unused]
  /\ ClearAll
  /\ begun' = {} /\ ended' = {} /\ silenced' = {}
  /\ UNCHANGED <<target, passed, network, updating, endThreads, isMainLoopThreadActive,
                 activeSystemList, raced, activeSystemListIndex, left>>

----------------------------------------------------------------------------
(* The threads that read the sockets *)

Arrive(p) ==
  /\ reading /\ Spend("opens")
  /\ bufferedPackets' = Push(bufferedPackets, [address |-> p, number |-> left["opens"]])
  /\ UNCHANGED <<user, target, passed, network, updating, flags, table,
                 activeSystemListIndex, bufferedCommands, socketQueryOutput,
                 packetReturnQueue, knowledge>>

----------------------------------------------------------------------------
(* The network thread *)

Begin ==
  /\ network = "begins"
  /\ network' = "checks"
  /\ isMainLoopThreadActive' = TRUE
  /\ UNCHANGED <<user, target, passed, updating, endThreads, reading, table,
                 activeSystemListIndex, queues, knowledge, left>>

\* A variant that ends only when no remote system is left.
CheckForWork ==
  /\ network = "checks"
  /\ network' = IF endThreads /\ \A s \in Slot : ~IsActive(s) THEN "none" ELSE "datagrams"
  /\ isMainLoopThreadActive' = (network' # "none")
  /\ UNCHANGED <<user, target, passed, updating, endThreads, reading, table,
                 activeSystemListIndex, queues, knowledge, left>>

Check ==
  /\ network = "checks"
  /\ network' = IF endThreads THEN "none" ELSE "datagrams"
  /\ isMainLoopThreadActive' = ~endThreads
  /\ UNCHANGED <<user, target, passed, updating, endThreads, reading, table,
                 activeSystemListIndex, queues, knowledge, left>>

\* An address that is not active gets the first slot that is not, if there is one.
AssignSystemAddressToRemoteSystemList(c) ==
  LET free == {s \in Slot : ~IsActive(s)} IN
  \/ (SlotsOf(c.address) # {} \/ free = {}) /\ UNCHANGED <<table, user>>
  \/ /\ SlotsOf(c.address) = {}
     /\ \E s \in free :
          /\ \A t \in free : s <= t
          /\ slots' = [slots EXCEPT ![s] = [isActive |-> TRUE, connection |-> c,
                                            connectMode |-> "UNVERIFIED_SENDER"]]
          /\ AddToActiveSystemList(s)

ProcessNetworkPacket ==
  /\ network = "datagrams"
  /\ \/ /\ bufferedPackets # <<>>
        /\ AssignSystemAddressToRemoteSystemList(Head(bufferedPackets).item)
        /\ bufferedPackets' = Tail(bufferedPackets)
        /\ UNCHANGED network
     \/ /\ bufferedPackets = <<>>
        /\ network' = "commands"
        /\ UNCHANGED <<table, user, bufferedPackets>>
  /\ UNCHANGED <<target, passed, updating, flags, activeSystemListIndex, bufferedCommands,
                 socketQueryOutput, packetReturnQueue, knowledge, left>>

\* The mode is set after the notification has been sent.
Flag(p) ==
  /\ slots' = [s \in Slot |-> IF s \in SlotsOf(p)
                 THEN [slots[s] EXCEPT !.connectMode = "DISCONNECT_ASAP"] ELSE slots[s]]
  /\ UNCHANGED <<activeSystemList, raced, user>>

CarryOut(command, p) ==
  \/ command = "DISCONNECT" /\ Flag(p) /\ UNCHANGED socketQueryOutput
  \/ command = "CLOSE" /\ CloseConnectionInternal(p) /\ UNCHANGED socketQueryOutput
  \/ /\ command = "GET_SOCKET"
     /\ socketQueryOutput' = Push(socketQueryOutput, p)
     /\ UNCHANGED <<table, user>>

BufferedCommand ==
  /\ network = "commands"
  /\ \/ /\ bufferedCommands # <<>>
        /\ CarryOut(Head(bufferedCommands).item.command, Head(bufferedCommands).item.address)
        /\ bufferedCommands' = Tail(bufferedCommands)
        /\ UNCHANGED network
     \/ /\ bufferedCommands = <<>>
        /\ network' = "systems"
        /\ UNCHANGED <<table, user, bufferedCommands, socketQueryOutput>>
  /\ UNCHANGED <<target, passed, updating, flags, activeSystemListIndex, bufferedPackets,
                 packetReturnQueue, knowledge, left>>

\* The next entry of the list, or the end of the cycle.
NextSystem ==
  /\ network = "systems"
  /\ IF activeSystemListIndex <= Len(activeSystemList)
     THEN /\ updating' = activeSystemList[activeSystemListIndex] /\ network' = "updates"
          /\ UNCHANGED activeSystemListIndex
     ELSE network' = "checks" /\ activeSystemListIndex' = 1 /\ UNCHANGED updating
  /\ UNCHANGED <<user, target, passed, flags, table, queues, knowledge, left>>

\* A variant that tells the user of failures and of the other side's farewell only.
IsAnnouncedUnlessClosed(mode) == mode \in {"CONNECTED", "DISCONNECT_ON_NO_ACK"}

IsAnnounced(mode) == mode \in {"CONNECTED", "DISCONNECT_ASAP", "DISCONNECT_ON_NO_ACK"}

\* The connection is dead, or it has been closed, or it has taken too long to
\* make.  A slot that is in the list but not active any more is dropped again in
\* every cycle; "floods" bounds how often.
Drop ==
  LET mode == slots[updating].connectMode IN
  /\ network = "updates" /\ AddressOf(updating) # NoPeer
  /\ IF ~IsActive(updating) THEN mode # "CONNECTED" /\ Spend("floods")
     ELSE IF mode = "CONNECTED" THEN Spend("faults") ELSE UNCHANGED left
  /\ packetReturnQueue' = IF IsAnnounced(mode)
                          THEN Push(packetReturnQueue, Packet("END", updating))
                          ELSE packetReturnQueue
  /\ network' = "drops"
  /\ UNCHANGED <<user, target, passed, updating, flags, table, activeSystemListIndex,
                 bufferedPackets, bufferedCommands, socketQueryOutput, knowledge>>

\* The slot is freed after the user has been told.
FreeSlot ==
  /\ network = "drops"
  /\ CloseConnectionInternal(AddressOf(updating))
  /\ network' = "systems" /\ updating' = NoSlot
  /\ activeSystemListIndex' = activeSystemListIndex + 1
  /\ UNCHANGED <<target, passed, flags, queues, knowledge, left>>

\* A message that the reliability layer has for us: the one that makes the
\* connection, the other side's farewell, or something for the user.
Message ==
  LET mode == slots[updating].connectMode
      Becomes(m) == slots' = [slots EXCEPT ![updating].connectMode = m]
      Tell(type) == packetReturnQueue' = Push(packetReturnQueue, Packet(type, updating))
  IN
  /\ network = "updates" /\ IsActive(updating) /\ Spend("messages")
  /\ \/ mode = "UNVERIFIED_SENDER" /\ Becomes("CONNECTED") /\ Tell("NEW")
     \/ mode # "UNVERIFIED_SENDER" /\ Becomes("DISCONNECT_ON_NO_ACK")
        /\ UNCHANGED packetReturnQueue
     \/ mode # "UNVERIFIED_SENDER" /\ Tell("DATA") /\ UNCHANGED slots
  /\ UNCHANGED <<user, target, passed, network, updating, flags, activeSystemList, raced,
                 activeSystemListIndex, bufferedPackets, bufferedCommands,
                 socketQueryOutput, knowledge>>

\* No more messages from this one.
UpToDate ==
  /\ network = "updates"
  /\ network' = "systems" /\ updating' = NoSlot
  /\ activeSystemListIndex' = activeSystemListIndex + 1
  /\ UNCHANGED <<user, target, passed, flags, table, queues, knowledge, left>>

----------------------------------------------------------------------------

Init ==
  /\ user = "down" /\ target = NoPeer /\ passed = 0
  /\ network = "none" /\ updating = NoSlot
  /\ endThreads = TRUE /\ isMainLoopThreadActive = FALSE /\ reading = FALSE
  /\ slots = [s \in Slot |-> Unused]
  /\ activeSystemList = <<>> /\ activeSystemListIndex = 1 /\ raced = FALSE
  /\ bufferedPackets = <<>> /\ bufferedCommands = <<>>
  /\ socketQueryOutput = <<>> /\ packetReturnQueue = <<>>
  /\ begun = {} /\ ended = {} /\ silenced = {}
  /\ left \in Limits

\* What the user does of his own accord ...
Call ==
  \/ OpenSockets \/ BeginShutdown \/ Receive
  \/ \E p \in Peer : NotifyAndFlagForShutdown(p) \/ CloseConnection(p)
  \/ \E p \in Peer \cup {NoPeer} : GetSocket(p)

\* ... and how his calls go on.
GoOn ==
  \/ StartThread \/ Started \/ ReturnConnectionLost \/ SocketsGot
  \/ NotifyNext \/ AllNotified \/ StopWaiting
  \/ ResetActiveSystemList \/ EndThreads \/ FinishShutdown

Network ==
  \/ Begin \/ Check \/ ProcessNetworkPacket \/ BufferedCommand
  \/ NextSystem \/ Drop \/ FreeSlot \/ Message \/ UpToDate

Next == Call \/ GoOn \/ Network \/ \E p \in Peer : Arrive(p)

Spec == Init /\ [][Next]_vars

\* Both threads are scheduled.
FairSpec == Spec /\ WF_vars(GoOn) /\ WF_vars(Network)

----------------------------------------------------------------------------
(* Properties *)

Queued(items) == Seq([item : items, run : Nat])

TypeOK ==
  /\ user \in {"down", "starting", "awaiting", "up", "closing", "querying", "notifying",
               "waiting", "stopping", "ending", "joining"}
  /\ target \in Peer \cup {NoPeer}
  /\ passed \in Slot \cup {0}
  /\ network \in {"none", "begins", "checks", "datagrams", "commands", "systems", "updates",
                  "drops"}
  /\ updating \in IF network \in {"updates", "drops"} THEN Slot ELSE {NoSlot}
  /\ endThreads \in BOOLEAN /\ isMainLoopThreadActive \in BOOLEAN /\ reading \in BOOLEAN
  /\ slots \in [Slot -> [isActive : BOOLEAN, connection : Connection \cup {NoConnection},
                         connectMode : ConnectMode]]
  /\ activeSystemList \in Seq(Slot)
  /\ activeSystemListIndex \in Nat \ {0}
  /\ bufferedPackets \in Queued(Connection)
  /\ bufferedCommands \in Queued([command : {"DISCONNECT", "CLOSE", "GET_SOCKET"},
                                  address : Peer \cup {NoPeer}])
  /\ socketQueryOutput \in Queued(Peer \cup {NoPeer})
  /\ packetReturnQueue \in Queued([type : {"NEW", "DATA", "END"},
                                   connection : Connection \cup {NoConnection}])
  /\ begun \cup ended \subseteq Connection \cup {NoConnection}
  /\ silenced \subseteq Peer
  /\ raced \in BOOLEAN
  /\ left \in [Budgets -> Nat]

\* What is queued since the last start-up stems from it: no datagram, command,
\* answer or packet outlives a shutdown, whatever the threads were doing.
NothingFromBefore ==
  \A queue \in {bufferedPackets, bufferedCommands, socketQueryOutput, packetReturnQueue} :
    \A i \in DOMAIN queue : queue[i].run = run

\* Once the user has been told of the end of a connection there is nothing more
\* of it to come, unless he has closed the address without a notification, or
\* Shutdown is about to throw away what is queued.
EndsAreFinal ==
  ~endThreads =>
    \A i \in DOMAIN packetReturnQueue :
      LET packet == packetReturnQueue[i].item IN
      packet.type # "END" /\ packet.connection.address \notin silenced
        => packet.connection \notin ended

\* No end is kept from the user: a connection that he knows of has its slot, or
\* he will be told, unless he has closed the address without a notification or
\* the list has once been changed while Shutdown waits for the network thread.
NoHiddenEnd ==
  ~raced =>
    \A c \in begun \ ended : c.address \notin silenced =>
      \/ \E s \in SlotsOf(c.address) : slots[s].connection = c
      \/ \E i \in DOMAIN packetReturnQueue :
           packetReturnQueue[i].item = [type |-> "END", connection |-> c]

\* The list that the update cycle follows has every active system once, from one
\* start-up to the next, unless a system has come or gone while Shutdown, having
\* reset the list from the user's thread, waits for the network thread.
ActiveListTrue ==
  ~raced /\ user \notin {"ending", "joining"} =>
    /\ IsInjective(activeSystemList)
    /\ Range(activeSystemList) = {s \in Slot : IsActive(s)}

\* Startup, Shutdown, CloseConnection and GetSockets return.
CallsReturn == user \notin {"down", "up"} ~> user \in {"down", "up"}

=============================================================================
