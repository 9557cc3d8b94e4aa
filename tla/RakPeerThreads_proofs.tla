------------------------- MODULE RakPeerThreads_proofs -------------------------
(***************************************************************************)
(* Proofs about RakPeerThreads, for every number of slots and addresses    *)
(* and all limits: the list of active systems, what survives a shutdown,   *)
(* and what the user learns of the end of its connections.                 *)
(***************************************************************************)
EXTENDS RakPeerThreads, SequenceTheorems, TLAPS

USE ThreadsAssumption

----------------------------------------------------------------------------
(* Queues and the list *)

\* A push appends an item of the present run.
LEMMA PushProperties ==
  ASSUME left \in [Budgets -> Nat], NEW S, NEW queue \in Queued(S), NEW item \in S
  PROVE  /\ Push(queue, item) \in Queued(S)
         /\ Len(Push(queue, item)) = Len(queue) + 1
         /\ DOMAIN Push(queue, item) = 1..Len(queue) + 1
         /\ \A i \in DOMAIN queue : Push(queue, item)[i] = queue[i]
         /\ Push(queue, item)[Len(queue) + 1] = [item |-> item, run |-> run]
<1>1. [item |-> item, run |-> run] \in [item : S, run : Nat]
  BY DEF run, Budgets
<1> QED
  BY <1>1, AppendProperties DEF Push, Queued

\* A pop takes the first item.
LEMMA TailProperties ==
  ASSUME NEW S, NEW queue \in Queued(S), queue # <<>>
  PROVE  /\ Tail(queue) \in Queued(S)
         /\ Head(queue) = queue[1] /\ 1 \in DOMAIN queue
         /\ Head(queue).item \in S
         /\ Len(Tail(queue)) = Len(queue) - 1
         /\ \A i \in DOMAIN Tail(queue) : i + 1 \in DOMAIN queue /\ Tail(queue)[i] = queue[i + 1]
<1> DEFINE T == [item : S, run : Nat]
<1>1. queue \in Seq(T) /\ Len(queue) \in Nat \ {0} /\ DOMAIN queue = 1..Len(queue)
  BY EmptySeq DEF Queued
<1> HIDE DEF T
<1>2. /\ Tail(queue) \in Seq(T) /\ Len(Tail(queue)) = Len(queue) - 1
      /\ \A i \in 1..Len(Tail(queue)) : Tail(queue)[i] = queue[i + 1]
  BY <1>1, HeadTailProperties
<1>3. DOMAIN Tail(queue) = 1..Len(queue) - 1
  BY <1>2, LenProperties
<1>4. Head(queue) = queue[1] /\ queue[1] \in T
  BY <1>1, ElementOfSeq DEF Head
<1>5. Head(queue).item \in S
  BY <1>4 DEF T
<1> QED
  BY <1>1, <1>2, <1>3, <1>4, <1>5 DEF T, Queued

\* What RemoveFromActiveSystemList leaves: the entry before last at its place,
\* or at the place of the one that goes.
LEMMA SwapProperties ==
  ASSUME NEW S, NEW list \in Seq(S), NEW i \in 1..Len(list)
  PROVE  LET rest == Front([list EXCEPT ![i] = list[Len(list)]]) IN
         /\ rest \in Seq(S) /\ Len(rest) = Len(list) - 1
         /\ \A j \in 1..Len(list) - 1 : rest[j] = IF j = i THEN list[Len(list)] ELSE list[j]
<1> DEFINE swapped == [list EXCEPT ![i] = list[Len(list)]]
<1>1. swapped \in Seq(S) /\ Len(swapped) = Len(list) /\ Len(list) \in Nat
  OBVIOUS
<1>2. \A j \in 1..Len(list) - 1 :
        swapped[j] \in S /\ swapped[j] = IF j = i THEN list[Len(list)] ELSE list[j]
  BY <1>1
<1> HIDE DEF swapped
<1>3. Front(swapped) = SubSeq(swapped, 1, Len(list) - 1)
  BY <1>1 DEF Front
<1> DEFINE n == Len(list) - 1
<1>4. n \in Int /\ n - 1 + 1 = n /\ 1 \in Int /\ n >= 0
  BY <1>1
<1>5. /\ SubSeq(swapped, 1, n) \in Seq(S)
      /\ Len(SubSeq(swapped, 1, n)) = IF 1 <= n THEN n - 1 + 1 ELSE 0
      /\ \A j \in 1..n - 1 + 1 : SubSeq(swapped, 1, n)[j] = swapped[1 + j - 1]
  <2> HIDE DEF n
  <2> QED
    BY <1>2, <1>4, SubSeqProperties DEF n
<1>6. \A j \in 1..n : 1 + j - 1 = j
  BY <1>4
<1>7. /\ Front(swapped) \in Seq(S) /\ Len(Front(swapped)) = n
      /\ \A j \in 1..n : Front(swapped)[j] = swapped[j]
  BY <1>3, <1>4, <1>5, <1>6
<1> QED
  BY <1>2, <1>7 DEF swapped

----------------------------------------------------------------------------
(* Types *)

\* The parts of TypeOK that the table is made of.
TableType ==
  /\ slots \in [Slot -> [isActive : BOOLEAN, connection : Connection \cup {NoConnection},
                         connectMode : ConnectMode]]
  /\ activeSystemList \in Seq(Slot)
  /\ raced \in BOOLEAN

Users == {"down", "starting", "awaiting", "up", "closing", "querying", "notifying", "waiting",
          "stopping", "ending", "joining"}

\* However the list changes, Shutdown's thread is at most where the reset has
\* been lost.
LEMMA ListBecomesType ==
  ASSUME TableType, user \in Users, NEW list \in Seq(Slot), ListBecomes(list)
  PROVE  activeSystemList' \in Seq(Slot) /\ raced' \in BOOLEAN /\ user' \in Users
<1>1. CASE raced' = (raced \/ user \in {"ending", "joining"}) /\ UNCHANGED user
  BY <1>1 DEF ListBecomes, TableType
<1>2. CASE user = "stopping" /\ user' = "ending" /\ raced' = TRUE
  BY <1>2 DEF ListBecomes, Users
<1> QED
  BY <1>1, <1>2 DEF ListBecomes

\* The types that the list's operations keep: of RemoveFromActiveSystemList
\* ...
LEMMA RemoveType ==
  ASSUME TableType, user \in Users, NEW p, RemoveFromActiveSystemList(p)
  PROVE  activeSystemList' \in Seq(Slot) /\ raced' \in BOOLEAN /\ user' \in Users
<1>1. CASE UNCHANGED <<activeSystemList, raced, user>>
  BY <1>1 DEF TableType
<1>2. CASE \E i \in 1..Len(activeSystemList) :
             ListBecomes(Front([activeSystemList EXCEPT
                                  ![i] = activeSystemList[Len(activeSystemList)]]))
  <2>1. PICK i \in 1..Len(activeSystemList) :
          ListBecomes(Front([activeSystemList EXCEPT
                               ![i] = activeSystemList[Len(activeSystemList)]]))
    BY <1>2
  <2> QED
    BY <2>1, SwapProperties, ListBecomesType DEF TableType
<1> QED
  BY <1>1, <1>2 DEF RemoveFromActiveSystemList

\* ... of CloseConnectionInternal ...
LEMMA CloseType ==
  ASSUME TableType, user \in Users, NEW p, CloseConnectionInternal(p)
  PROVE  TableType' /\ user' \in Users
<1>1. CASE UNCHANGED <<table, user>>
  BY <1>1 DEF TableType, table
<1>2. CASE /\ RemoveFromActiveSystemList(p)
           /\ slots' = [s \in Slot |-> [slots[s] EXCEPT !.isActive = @ /\ AddressOf(s) # p]]
  <2>1. slots' \in [Slot -> [isActive : BOOLEAN, connection : Connection \cup {NoConnection},
                             connectMode : ConnectMode]]
    BY <1>2 DEF TableType
  <2> QED
    BY <1>2, <2>1, RemoveType DEF TableType
<1> QED
  BY <1>1, <1>2 DEF CloseConnectionInternal

\* ... and of AssignSystemAddressToRemoteSystemList.
LEMMA AssignType ==
  ASSUME TableType, user \in Users, NEW c \in Connection,
         AssignSystemAddressToRemoteSystemList(c)
  PROVE  TableType' /\ user' \in Users
<1>1. CASE UNCHANGED <<table, user>>
  BY <1>1 DEF TableType, table
<1>2. CASE \E s \in Slot :
             /\ slots' = [slots EXCEPT ![s] = [isActive |-> TRUE, connection |-> c,
                                               connectMode |-> "UNVERIFIED_SENDER"]]
             /\ AddToActiveSystemList(s)
  <2>1. PICK s \in Slot :
             /\ slots' = [slots EXCEPT ![s] = [isActive |-> TRUE, connection |-> c,
                                               connectMode |-> "UNVERIFIED_SENDER"]]
             /\ AddToActiveSystemList(s)
    BY <1>2
  <2>2. Append(activeSystemList, s) \in Seq(Slot)
    BY DEF TableType
  <2>3. slots' \in [Slot -> [isActive : BOOLEAN, connection : Connection \cup {NoConnection},
                             connectMode : ConnectMode]]
    BY <2>1 DEF TableType, ConnectMode
  <2> QED
    BY <2>1, <2>2, <2>3, ListBecomesType DEF AddToActiveSystemList, TableType
<1> QED
  BY <1>1, <1>2 DEF AssignSystemAddressToRemoteSystemList

\* Where the user's thread is tells where the network thread can be.
Places ==
  /\ user \in {"down", "starting"} => network = "none"
  /\ network = "begins" => user = "awaiting"
  /\ isMainLoopThreadActive <=> network \notin {"none", "begins"}
  /\ endThreads <=> user \in {"down", "starting", "joining"}
  /\ user = "down" => ~reading

\* The types hold initially ...
LEMMA TypeInit == Init => TypeOK
<1> SUFFICES ASSUME Init PROVE TypeOK
  OBVIOUS
<1>1. \A S : <<>> \in Seq(S)
  BY EmptySeq
<1>2. slots \in [Slot -> [isActive : BOOLEAN, connection : Connection \cup {NoConnection},
                         connectMode : ConnectMode]]
  BY DEF Init, Unused, ConnectMode
<1>3. left \in [Budgets -> Nat]
  BY DEF Init
<1>4. /\ bufferedPackets \in Queued(Connection)
      /\ bufferedCommands \in Queued([command : {"DISCONNECT", "CLOSE", "GET_SOCKET"},
                                      address : Peer \cup {NoPeer}])
      /\ socketQueryOutput \in Queued(Peer \cup {NoPeer})
      /\ packetReturnQueue \in Queued([type : {"NEW", "DATA", "END"},
                                       connection : Connection \cup {NoConnection}])
  BY <1>1 DEF Init, Queued
<1>5. activeSystemList \in Seq(Slot)
  BY <1>1 DEF Init
<1>6. /\ target \in Peer \cup {NoPeer} /\ passed \in Slot \cup {0}
      /\ updating \in IF network \in {"updates", "drops"} THEN Slot ELSE {NoSlot}
      /\ activeSystemListIndex \in Nat \ {0}
      /\ begun \cup ended \subseteq Connection \cup {NoConnection} /\ silenced \subseteq Peer
  BY DEF Init
<1> QED
  BY <1>2, <1>3, <1>4, <1>5, <1>6 DEF Init, TypeOK

CommandType == [command : {"DISCONNECT", "CLOSE", "GET_SOCKET"}, address : Peer \cup {NoPeer}]
PacketType == [type : {"NEW", "DATA", "END"}, connection : Connection \cup {NoConnection}]

\* The steps of the user's thread, of the threads that read, and of the network
\* thread keep the types.
LEMMA TypeOfCalls ==
  ASSUME TypeOK, Call
  PROVE  TypeOK'
<1> USE DEF TypeOK
<1>1. ASSUME NEW b \in Budgets, Spend(b) PROVE left' \in [Budgets -> Nat]
  BY <1>1 DEF Spend
<1>2. CASE OpenSockets
  BY <1>1, <1>2 DEF OpenSockets, Budgets, queues, table, knowledge
<1>3. CASE BeginShutdown
  BY <1>3 DEF BeginShutdown, flags, queues, table, knowledge
<1>4. CASE Receive
  <2>1. /\ Tail(packetReturnQueue) \in Queued(PacketType)
        /\ Head(packetReturnQueue).item \in PacketType
    BY <1>4, TailProperties DEF Receive, PacketType
  <2>2. Head(packetReturnQueue).item.connection \in Connection \cup {NoConnection}
    BY <2>1 DEF PacketType
  <2>3. begun' \cup ended' \subseteq Connection \cup {NoConnection}
    BY <1>4, <2>2 DEF Receive
  <2> QED
    BY <1>4, <2>1, <2>3 DEF Receive, PacketType, flags, table
<1>5. ASSUME NEW p \in Peer, NotifyAndFlagForShutdown(p) PROVE TypeOK'
  <2>1. Push(bufferedCommands, Command("DISCONNECT", p)) \in Queued(CommandType)
    BY PushProperties DEF Command, CommandType
  <2> QED
    BY <1>1, <1>5, <2>1
    DEF NotifyAndFlagForShutdown, CommandType, Budgets, flags, table, knowledge
<1>6. ASSUME NEW p \in Peer, CloseConnection(p) PROVE TypeOK'
  <2>1. Push(bufferedCommands, Command("CLOSE", p)) \in Queued(CommandType)
    BY PushProperties DEF Command, CommandType
  <2> QED
    BY <1>1, <1>6, <2>1 DEF CloseConnection, CommandType, Budgets, flags, table
<1>7. ASSUME NEW p \in Peer \cup {NoPeer}, GetSocket(p) PROVE TypeOK'
  <2>1. Push(bufferedCommands, Command("GET_SOCKET", p)) \in Queued(CommandType)
    BY PushProperties DEF Command, CommandType
  <2> QED
    BY <1>1, <1>7, <2>1 DEF GetSocket, CommandType, Budgets, flags, table, knowledge
<1> QED
  BY <1>2, <1>3, <1>4, <1>5, <1>6, <1>7 DEF Call

\* ... while the user's calls go on ...
LEMMA TypeOfGoingOn ==
  ASSUME TypeOK, Places, GoOn
  PROVE  TypeOK'
<1> USE DEF TypeOK
<1>1. \A S : <<>> \in Seq(S)
  BY EmptySeq
<1>2. [s \in Slot |-> Unused] \in [Slot -> [isActive : BOOLEAN,
        connection : Connection \cup {NoConnection}, connectMode : ConnectMode]]
  BY DEF Unused, ConnectMode
<1>3. CASE StartThread
  <2>1. activeSystemList' \in Seq(Slot)
    BY <1>3 DEF StartThread
  <2>2. \A S : bufferedPackets' \in Queued(S) /\ bufferedCommands' \in Queued(S)
               /\ socketQueryOutput' \in Queued(S)
    BY <1>1, <1>3 DEF StartThread, Queued
  <2>3. slots' = [s \in Slot |-> Unused]
    BY <1>3 DEF StartThread
  <2>4. updating' \in IF network' \in {"updates", "drops"} THEN Slot ELSE {NoSlot}
    BY <1>3 DEF StartThread, Places
  <2> HIDE DEF TypeOK
  <2>5. /\ user' \in {"awaiting", "stopping"}
        /\ network' \in {"none", "begins", "checks", "datagrams", "commands", "systems",
                         "updates", "drops"}
    BY <1>3 DEF StartThread, TypeOK
  <2> QED
    BY <1>2, <1>3, <2>1, <2>2, <2>3, <2>4, <2>5 DEF StartThread, TypeOK, knowledge
<1>4. CASE Started
  BY <1>4 DEF Started, flags, queues, table, knowledge
<1>5. CASE ReturnConnectionLost
  <2>1. ASSUME ConnectedTo(target) # {}
        PROVE  Packet("END", CHOOSE s \in ConnectedTo(target) : TRUE) \in PacketType
    <3>1. PICK s \in Slot : s = CHOOSE t \in ConnectedTo(target) : TRUE
      BY <2>1 DEF ConnectedTo, SlotsOf
    <3> QED
      BY <3>1 DEF Packet, PacketType
  <2>2. packetReturnQueue' \in Queued(PacketType)
    BY <1>5, <2>1, PushProperties DEF ReturnConnectionLost, PacketType
  <2> QED
    BY <1>5, <2>2 DEF ReturnConnectionLost, PacketType, flags, table, knowledge
<1>6. CASE SocketsGot
  <2>1. socketQueryOutput' \in Queued(Peer \cup {NoPeer})
    <3>1. CASE UNCHANGED socketQueryOutput
      BY <3>1
    <3>2. CASE socketQueryOutput # <<>> /\ socketQueryOutput' = Tail(socketQueryOutput)
      BY <3>2, TailProperties
    <3> QED
      BY <1>6, <3>1, <3>2 DEF SocketsGot
  <2> QED
    BY <1>6, <2>1 DEF SocketsGot, flags, table, knowledge
<1>7. CASE NotifyNext
  <2>1. Command("DISCONNECT", AddressOf(passed + 1)) \in CommandType
    <3>1. slots[passed + 1].connection \in Connection \cup {NoConnection}
      BY <1>7 DEF NotifyNext
    <3> QED
      BY <3>1 DEF Command, CommandType, AddressOf, Connection, NoConnection
  <2>2. bufferedCommands' \in Queued(CommandType)
    BY <1>7, <2>1, PushProperties DEF NotifyNext, CommandType
  <2> QED
    BY <1>7, <2>2 DEF NotifyNext, CommandType, flags, table, knowledge
<1>8. CASE AllNotified
  BY <1>8 DEF AllNotified, flags, queues, table, knowledge
<1>9. CASE StopWaiting
  BY <1>9 DEF StopWaiting, flags, queues, table, knowledge
<1>10. CASE ResetActiveSystemList
  BY <1>1, <1>10 DEF ResetActiveSystemList, flags, queues, knowledge
<1>11. CASE EndThreads
  BY <1>11 DEF EndThreads, queues, table, knowledge
<1>12. CASE FinishShutdown
  BY <1>1, <1>2, <1>12 DEF FinishShutdown, ClearAll, Queued
<1> QED
  BY <1>3, <1>4, <1>5, <1>6, <1>7, <1>8, <1>9, <1>10, <1>11, <1>12 DEF GoOn

\* ... in every step of the network thread ...
LEMMA TypeOfNetwork ==
  ASSUME TypeOK, Network
  PROVE  TypeOK'
<1> USE DEF TypeOK
<1>1. TableType /\ user \in Users
  BY DEF TableType, Users
<1>2. ASSUME NEW b \in Budgets, Spend(b) PROVE left' \in [Budgets -> Nat]
  BY <1>2 DEF Spend
<1>3. \A type \in {"NEW", "DATA", "END"}, s \in Slot : Packet(type, s) \in PacketType
  BY DEF Packet, PacketType
<1>4. CASE Begin
  BY <1>4 DEF Begin, queues, table, knowledge
<1>5. CASE Check
  BY <1>5 DEF Check, queues, table, knowledge
<1>6. CASE ProcessNetworkPacket
  <2>1. CASE bufferedPackets = <<>>
    BY <1>6, <2>1 DEF ProcessNetworkPacket, flags, table, knowledge
  <2>2. CASE bufferedPackets # <<>>
    <3>1. Tail(bufferedPackets) \in Queued(Connection) /\ Head(bufferedPackets).item \in Connection
      BY <2>2, TailProperties
    <3>2. TableType' /\ user' \in Users
      BY <1>1, <1>6, <2>2, <3>1, AssignType DEF ProcessNetworkPacket
    <3> QED
      BY <1>6, <2>2, <3>1, <3>2 DEF ProcessNetworkPacket, TableType, Users, flags, knowledge
  <2> QED
    BY <2>1, <2>2
<1>7. CASE BufferedCommand
  <2>1. CASE bufferedCommands = <<>>
    BY <1>7, <2>1 DEF BufferedCommand, flags, table, knowledge
  <2>2. CASE bufferedCommands # <<>>
    <3> DEFINE head == Head(bufferedCommands).item
    <3>1. Tail(bufferedCommands) \in Queued(CommandType) /\ head \in CommandType
      BY <2>2, TailProperties DEF CommandType
    <3>2. CarryOut(head.command, head.address)
      BY <1>7, <2>2 DEF BufferedCommand
    <3>3. TableType' /\ user' \in Users /\ socketQueryOutput' \in Queued(Peer \cup {NoPeer})
      <4>1. CASE Flag(head.address) /\ UNCHANGED socketQueryOutput
        <5>1. slots' \in [Slot -> [isActive : BOOLEAN, connection : Connection \cup {NoConnection},
                                   connectMode : ConnectMode]]
          BY <4>1 DEF Flag, ConnectMode
        <5> QED
          BY <1>1, <4>1, <5>1 DEF Flag, TableType
      <4>2. CASE CloseConnectionInternal(head.address) /\ UNCHANGED socketQueryOutput
        BY <1>1, <4>2, CloseType
      <4>3. CASE /\ socketQueryOutput' = Push(socketQueryOutput, head.address)
                 /\ UNCHANGED <<table, user>>
        <5>1. head.address \in Peer \cup {NoPeer}
          BY <3>1 DEF CommandType
        <5>2. socketQueryOutput' \in Queued(Peer \cup {NoPeer})
          BY <4>3, <5>1, PushProperties
        <5> QED
          BY <1>1, <4>3, <5>2 DEF table, TableType
      <4> QED
        BY <3>2, <4>1, <4>2, <4>3 DEF CarryOut
    <3> QED
      BY <1>7, <2>2, <3>1, <3>3 DEF BufferedCommand, CommandType, TableType, Users, flags, knowledge
  <2> QED
    BY <2>1, <2>2
<1>8. CASE NextSystem
  <2>1. CASE activeSystemListIndex <= Len(activeSystemList)
    <3>1. activeSystemList[activeSystemListIndex] \in Slot
      BY <2>1
    <3> QED
      BY <1>8, <2>1, <3>1 DEF NextSystem, flags, queues, table, knowledge
  <2>2. CASE ~(activeSystemListIndex <= Len(activeSystemList))
    BY <1>8, <2>2 DEF NextSystem, flags, queues, table, knowledge
  <2> QED
    BY <2>1, <2>2
<1>9. CASE Drop
  <2>1. updating \in Slot
    BY <1>9 DEF Drop
  <2>2. packetReturnQueue' \in Queued(PacketType)
    BY <1>3, <1>9, <2>1, PushProperties DEF Drop, PacketType
  <2>3. left' \in [Budgets -> Nat]
    BY <1>2, <1>9 DEF Drop, Budgets
  <2> QED
    BY <1>9, <2>1, <2>2, <2>3 DEF Drop, PacketType, flags, table, knowledge
<1>10. CASE FreeSlot
  <2>1. TableType' /\ user' \in Users
    BY <1>1, <1>10, CloseType DEF FreeSlot
  <2> QED
    BY <1>10, <2>1 DEF FreeSlot, TableType, Users, flags, queues, knowledge
<1>11. CASE Message
  <2>1. updating \in Slot
    BY <1>11 DEF Message
  <2>2. packetReturnQueue' \in Queued(PacketType)
    <3>1. \A type \in {"NEW", "DATA", "END"} :
            Push(packetReturnQueue, Packet(type, updating)) \in Queued(PacketType)
      BY <1>3, <2>1, PushProperties DEF PacketType
    <3> QED
      BY <1>11, <3>1 DEF Message, PacketType
  <2>3. left' \in [Budgets -> Nat]
    BY <1>2, <1>11 DEF Message, Budgets
  <2>4. slots' \in [Slot -> [isActive : BOOLEAN, connection : Connection \cup {NoConnection},
                             connectMode : ConnectMode]]
    <3>1. CASE UNCHANGED slots
      BY <3>1
    <3>2. CASE \E m \in ConnectMode : slots' = [slots EXCEPT ![updating].connectMode = m]
      <4>1. PICK m \in ConnectMode : slots' = [slots EXCEPT ![updating].connectMode = m]
        BY <3>2
      <4>2. [slots[updating] EXCEPT !.connectMode = m]
              \in [isActive : BOOLEAN, connection : Connection \cup {NoConnection},
                   connectMode : ConnectMode]
        BY <2>1
      <4> QED
        BY <2>1, <4>1, <4>2
    <3> QED
      BY <1>11, <3>1, <3>2 DEF Message, ConnectMode
  <2> QED
    BY <1>11, <2>1, <2>2, <2>3, <2>4 DEF Message, PacketType, flags, knowledge
<1>12. CASE UpToDate
  BY <1>12 DEF UpToDate, flags, queues, table, knowledge
<1> QED
  BY <1>4, <1>5, <1>6, <1>7, <1>8, <1>9, <1>10, <1>11, <1>12 DEF Network

\* ... and in every step.
LEMMA TypeOfStep == TypeOK /\ Places /\ [Next]_vars => TypeOK'
<1> SUFFICES ASSUME TypeOK, Places, [Next]_vars PROVE TypeOK'
  OBVIOUS
<1>1. ASSUME NEW p \in Peer, Arrive(p) PROVE TypeOK'
  <2>1. left["opens"] \in Nat /\ left' \in [Budgets -> Nat]
    BY <1>1 DEF Arrive, Spend, Budgets, TypeOK
  <2>2. Push(bufferedPackets, [address |-> p, number |-> left["opens"]]) \in Queued(Connection)
    BY <2>1, PushProperties DEF Connection, TypeOK
  <2> QED
    BY <1>1, <2>1, <2>2 DEF Arrive, TypeOK, flags, table, knowledge
<1>2. CASE UNCHANGED vars
  BY <1>2 DEF TypeOK, vars, flags, queues, table, knowledge
<1> QED
  BY <1>1, <1>2, TypeOfCalls, TypeOfGoingOn, TypeOfNetwork DEF Next

\* Only Shutdown's thread can be moved on by the network thread, when its reset
\* of the list is lost.
LEMMA UserMoved ==
  ASSUME \/ \E p : CloseConnectionInternal(p)
         \/ \E c : AssignSystemAddressToRemoteSystemList(c)
  PROVE  UNCHANGED user \/ (user = "stopping" /\ user' = "ending")
<1>1. \A list : ListBecomes(list) => UNCHANGED user \/ (user = "stopping" /\ user' = "ending")
  BY DEF ListBecomes
<1>2. \A p : RemoveFromActiveSystemList(p)
        => UNCHANGED user \/ (user = "stopping" /\ user' = "ending")
  BY <1>1 DEF RemoveFromActiveSystemList
<1> QED
  BY <1>1, <1>2
  DEF CloseConnectionInternal, AssignSystemAddressToRemoteSystemList, AddToActiveSystemList, table

\* Where each thread stands agrees with the flags it has set.
LEMMA PlacesOfStep == TypeOK /\ Places /\ [Next]_vars => Places'
<1> SUFFICES ASSUME TypeOK, Places, [Next]_vars PROVE Places'
  OBVIOUS
<1> USE DEF Places
<1>1. ASSUME Call PROVE Places'
  BY <1>1 DEF Call, OpenSockets, BeginShutdown, Receive, NotifyAndFlagForShutdown,
              CloseConnection, GetSocket, flags
<1>2. ASSUME GoOn PROVE Places'
  BY <1>2 DEF GoOn, StartThread, Started, ReturnConnectionLost, SocketsGot, NotifyNext,
              AllNotified, StopWaiting, ResetActiveSystemList, EndThreads, FinishShutdown, flags
<1>3. ASSUME Network PROVE Places'
  <2>1. CASE Begin
    BY <2>1 DEF Begin
  <2>2. CASE Check
    BY <2>2 DEF Check, TypeOK
  <2>3. CASE ProcessNetworkPacket
    BY <2>3, UserMoved DEF ProcessNetworkPacket, flags
  <2>4. CASE BufferedCommand
    <3>1. UNCHANGED user \/ (user = "stopping" /\ user' = "ending")
      BY <2>4, UserMoved DEF BufferedCommand, CarryOut, Flag
    <3> QED
      BY <2>4, <3>1 DEF BufferedCommand, flags
  <2>5. CASE NextSystem
    BY <2>5 DEF NextSystem, flags
  <2>6. CASE Drop
    BY <2>6 DEF Drop, flags
  <2>7. CASE FreeSlot
    BY <2>7, UserMoved DEF FreeSlot, flags
  <2>8. CASE Message
    BY <2>8 DEF Message, flags
  <2>9. CASE UpToDate
    BY <2>9 DEF UpToDate, flags
  <2> QED
    BY <1>3, <2>1, <2>2, <2>3, <2>4, <2>5, <2>6, <2>7, <2>8, <2>9 DEF Network
<1>4. ASSUME NEW p \in Peer, Arrive(p) PROVE Places'
  BY <1>4 DEF Arrive, flags
<1>5. CASE UNCHANGED vars
  BY <1>5 DEF vars, flags
<1> QED
  BY <1>1, <1>2, <1>3, <1>4, <1>5 DEF Next

----------------------------------------------------------------------------
(* The table and its list *)

\* An address has at most one active slot.
OneSlotEach ==
  /\ \A s, t \in Slot : IsActive(s) /\ IsActive(t) /\ AddressOf(s) = AddressOf(t) => s = t
  /\ \A s \in Slot : IsActive(s) => slots[s].connection \in Connection

\* Until it is disturbed, the list is that of the active slots, or empty when
\* Shutdown has reset it.
ListTrue ==
  ~raced =>
    IF user \in {"ending", "joining"} THEN activeSystemList = <<>>
    ELSE /\ \A i, j \in 1..Len(activeSystemList) :
              activeSystemList[i] = activeSystemList[j] => i = j
         /\ \A s \in Slot :
              IsActive(s) <=> \E i \in 1..Len(activeSystemList) : activeSystemList[i] = s

TableTrue ==
  /\ OneSlotEach
  /\ ListTrue
  /\ ~raced /\ network \in {"updates", "drops"} => IsActive(updating)
  /\ user \in {"down", "starting"} => \A s \in Slot : ~IsActive(s)

\* Nothing of this depends on the modes.
LEMMA TableKept ==
  ASSUME TypeOK, TableTrue, UNCHANGED <<activeSystemList, raced>>,
         \A s \in Slot : /\ slots'[s].isActive = slots[s].isActive
                        /\ slots'[s].connection = slots[s].connection,
         user' \in {"ending", "joining"} <=> user \in {"ending", "joining"}
  PROVE  OneSlotEach' /\ ListTrue'
  BY DEF TableTrue, OneSlotEach, ListTrue, IsActive, AddressOf

\* RemoveFromActiveSystemList takes out the one slot that is freed, unless the
\* list has been reset under it.
LEMMA RemoveKeepsList ==
  ASSUME TypeOK, TableTrue, user \notin {"ending", "joining"},
         NEW p, RemoveFromActiveSystemList(p),
         NEW t \in Slot, IsActive(t), AddressOf(t) = p, ~raced'
  PROVE  /\ ~raced /\ UNCHANGED user
         /\ \A i, j \in 1..Len(activeSystemList') :
              activeSystemList'[i] = activeSystemList'[j] => i = j
         /\ \A s \in Slot : IsActive(s) /\ s # t
              <=> \E i \in 1..Len(activeSystemList') : activeSystemList'[i] = s
<1> DEFINE last == Len(activeSystemList)
           found == {i \in 1..last : AddressOf(activeSystemList[i]) = p}
<1>1. activeSystemList \in Seq(Slot) /\ last \in Nat /\ raced \in BOOLEAN
      /\ \A i \in 1..last : activeSystemList[i] \in Slot
  BY DEF TypeOK
<1>2. ~raced
  BY <1>1 DEF RemoveFromActiveSystemList, ListBecomes
<1>3. /\ \A i, j \in 1..last : activeSystemList[i] = activeSystemList[j] => i = j
      /\ \A s \in Slot : IsActive(s) <=> \E i \in 1..last : activeSystemList[i] = s
  BY <1>2 DEF TableTrue, ListTrue
<1>4. \A i \in 1..last : i \in found <=> activeSystemList[i] = t
  BY <1>1, <1>3 DEF TableTrue, OneSlotEach
<1>5. found # {}
  BY <1>3, <1>4
<1>6. PICK k \in 1..last :
        /\ activeSystemList[k] = t
        /\ ListBecomes(Front([activeSystemList EXCEPT ![k] = activeSystemList[last]]))
  BY <1>4, <1>5 DEF RemoveFromActiveSystemList
<1>7. /\ Len(activeSystemList') = last - 1
      /\ \A j \in 1..last - 1 : activeSystemList'[j] =
            IF j = k THEN activeSystemList[last] ELSE activeSystemList[j]
  BY <1>1, <1>6, SwapProperties DEF ListBecomes
<1>8. \A i, j \in 1..Len(activeSystemList') : activeSystemList'[i] = activeSystemList'[j] => i = j
  BY <1>1, <1>3, <1>7
<1>9. ASSUME NEW s \in Slot, IsActive(s), s # t
      PROVE  \E i \in 1..Len(activeSystemList') : activeSystemList'[i] = s
  <2>1. PICK i \in 1..last : activeSystemList[i] = s
    BY <1>3, <1>9
  <2>2. i # k
    BY <1>6, <1>9, <2>1
  <2>3. CASE i = last
    BY <1>1, <1>7, <2>1, <2>2, <2>3
  <2>4. CASE i # last
    BY <1>1, <1>7, <2>1, <2>2, <2>4
  <2> QED
    BY <2>3, <2>4
<1>10. ASSUME NEW i \in 1..Len(activeSystemList')
       PROVE  IsActive(activeSystemList'[i]) /\ activeSystemList'[i] # t
  <2>1. i \in 1..last - 1 /\ last \in 1..last /\ i \in 1..last /\ i # last
    BY <1>1, <1>7
  <2>2. CASE i = k
    BY <1>1, <1>3, <1>6, <1>7, <2>1, <2>2
  <2>3. CASE i # k
    BY <1>1, <1>3, <1>6, <1>7, <2>1, <2>3
  <2> QED
    BY <2>2, <2>3
<1>11. UNCHANGED user
  BY <1>6 DEF ListBecomes
<1> QED
  BY <1>2, <1>8, <1>9, <1>10, <1>11

\* A connection that is closed leaves table and list in agreement ...
LEMMA CloseKeepsTable ==
  ASSUME TypeOK, Places, TableTrue, NEW p, CloseConnectionInternal(p)
  PROVE  OneSlotEach' /\ ListTrue'
<1>1. CASE UNCHANGED <<table, user>>
  BY <1>1, TableKept DEF table
<1>2. CASE /\ ~endThreads /\ SlotsOf(p) # {}
           /\ RemoveFromActiveSystemList(p)
           /\ slots' = [s \in Slot |-> [slots[s] EXCEPT !.isActive = @ /\ AddressOf(s) # p]]
  <2>1. \A s \in Slot : /\ slots'[s].isActive = (slots[s].isActive /\ AddressOf(s) # p)
                       /\ slots'[s].connection = slots[s].connection
    BY <1>2 DEF TypeOK
  <2>2. OneSlotEach'
    BY <2>1 DEF TableTrue, OneSlotEach, IsActive, AddressOf
  <2>3. PICK t \in Slot : IsActive(t) /\ AddressOf(t) = p
    BY <1>2 DEF SlotsOf
  <2>4. user # "joining"
    BY <1>2 DEF Places
  <2>5. CASE user = "ending"
    <3>1. ~raced => activeSystemList = <<>>
      BY <2>5 DEF TableTrue, ListTrue
    <3>2. ~raced => {i \in 1..Len(activeSystemList) : AddressOf(activeSystemList[i]) = p} = {}
      BY <3>1, EmptySeq
    <3>3. ~raced => UNCHANGED <<activeSystemList, raced, user>>
      BY <1>2, <3>2 DEF RemoveFromActiveSystemList
    <3>4. ~raced' => ~raced
      BY <1>2 DEF RemoveFromActiveSystemList, ListBecomes
    <3>5. ListTrue'
      BY <2>5, <3>1, <3>3, <3>4 DEF ListTrue
    <3> QED
      BY <2>2, <3>5
  <2>6. CASE user # "ending"
    <3>1. ASSUME ~raced'
          PROVE  /\ UNCHANGED user
                 /\ \A i, j \in 1..Len(activeSystemList') :
                      activeSystemList'[i] = activeSystemList'[j] => i = j
                 /\ \A s \in Slot : IsActive(s) /\ s # t
                      <=> \E i \in 1..Len(activeSystemList') : activeSystemList'[i] = s
      BY <1>2, <2>3, <2>4, <2>6, <3>1, RemoveKeepsList
    <3>2. \A s \in Slot : IsActive(s)' <=> IsActive(s) /\ s # t
      BY <2>1, <2>3 DEF TableTrue, OneSlotEach, IsActive
    <3>3. ListTrue'
      BY <2>4, <2>6, <3>1, <3>2 DEF ListTrue
    <3> QED
      BY <2>2, <3>3
  <2> QED
    BY <2>5, <2>6
<1> QED
  BY <1>1, <1>2 DEF CloseConnectionInternal

\* ... and so does one that is given a slot.
LEMMA AssignKeepsTable ==
  ASSUME TypeOK, Places, TableTrue, user \notin {"down", "starting"},
         NEW c \in Connection, AssignSystemAddressToRemoteSystemList(c)
  PROVE  OneSlotEach' /\ ListTrue'
<1>1. CASE UNCHANGED <<table, user>>
  BY <1>1, TableKept DEF table
<1>2. CASE /\ SlotsOf(c.address) = {}
           /\ \E s \in Slot :
                /\ ~IsActive(s)
                /\ slots' = [slots EXCEPT ![s] = [isActive |-> TRUE, connection |-> c,
                                                  connectMode |-> "UNVERIFIED_SENDER"]]
                /\ AddToActiveSystemList(s)
  <2>1. PICK n \in Slot :
          /\ ~IsActive(n)
          /\ slots' = [slots EXCEPT ![n] = [isActive |-> TRUE, connection |-> c,
                                            connectMode |-> "UNVERIFIED_SENDER"]]
          /\ AddToActiveSystemList(n)
    BY <1>2
  <2>2. /\ slots'[n].isActive /\ slots'[n].connection = c
        /\ \A s \in Slot : s # n => slots'[s] = slots[s]
    BY <2>1 DEF TypeOK
  <2>3. OneSlotEach'
    BY <1>2, <2>2 DEF TableTrue, OneSlotEach, IsActive, AddressOf, SlotsOf
  <2>4. /\ activeSystemList' = Append(activeSystemList, n)
        /\ (~raced' => ~raced /\ UNCHANGED user /\ user \notin {"ending", "joining"})
    BY <2>1 DEF AddToActiveSystemList, ListBecomes
  <2>5. ListTrue'
    <3> DEFINE last == Len(activeSystemList)
    <3>1. /\ last \in Nat /\ Len(activeSystemList') = last + 1
          /\ \A i \in 1..last : activeSystemList'[i] = activeSystemList[i]
          /\ activeSystemList'[last + 1] = n
      BY <2>4, AppendProperties DEF TypeOK
    <3>2. SUFFICES ASSUME ~raced' PROVE ListTrue'
      BY DEF ListTrue
    <3>3. /\ \A i, j \in 1..last : activeSystemList[i] = activeSystemList[j] => i = j
          /\ \A s \in Slot : IsActive(s) <=> \E i \in 1..last : activeSystemList[i] = s
      BY <2>4, <3>2 DEF TableTrue, ListTrue
    <3>4. \A i \in 1..last : activeSystemList[i] # n
      BY <2>1, <3>3
    <3>5. \A i, j \in 1..last + 1 : activeSystemList'[i] = activeSystemList'[j] => i = j
      BY <3>1, <3>3, <3>4
    <3>6. \A s \in Slot : IsActive(s)' <=> \E i \in 1..last + 1 : activeSystemList'[i] = s
      <4>1. \A s \in Slot : IsActive(s)' <=> IsActive(s) \/ s = n
        BY <2>2 DEF IsActive
      <4>2. \A s : (\E i \in 1..last + 1 : activeSystemList'[i] = s)
                  <=> (\E i \in 1..last : activeSystemList[i] = s) \/ s = n
        BY <3>1
      <4> QED
        BY <3>3, <4>1, <4>2
    <3> QED
      BY <2>4, <3>1, <3>2, <3>5, <3>6 DEF ListTrue
  <2> QED
    BY <2>3, <2>5
<1> QED
  BY <1>1, <1>2 DEF AssignSystemAddressToRemoteSystemList

\* Every step keeps the table's invariant.
LEMMA TableOfStep == TypeOK /\ Places /\ TableTrue /\ [Next]_vars => TableTrue'
<1> SUFFICES ASSUME TypeOK, Places, TableTrue, [Next]_vars PROVE TableTrue'
  OBVIOUS
<1> DEFINE Kept ==
      /\ UNCHANGED <<activeSystemList, raced>>
      /\ \A s \in Slot : /\ slots'[s].isActive = slots[s].isActive
                        /\ slots'[s].connection = slots[s].connection
      /\ user' \in {"ending", "joining"} <=> user \in {"ending", "joining"}
      /\ UNCHANGED <<network, updating>> \/ network' \notin {"updates", "drops"}
      /\ user' \in {"down", "starting"} => user \in {"down", "starting"}
<1>1. ASSUME Kept PROVE TableTrue'
  <2>1. OneSlotEach' /\ ListTrue'
    BY <1>1, TableKept
  <2>2. ~raced' /\ network' \in {"updates", "drops"} => slots'[updating'].isActive
    <3>1. SUFFICES ASSUME ~raced', network' \in {"updates", "drops"}
                   PROVE  slots'[updating'].isActive
      OBVIOUS
    <3>2. ~raced /\ network \in {"updates", "drops"} /\ updating' = updating
      BY <1>1, <3>1
    <3>3. updating \in Slot /\ slots[updating].isActive
      BY <3>2 DEF TypeOK, TableTrue, IsActive
    <3> QED
      BY <1>1, <3>2, <3>3
  <2>3. user' \in {"down", "starting"} => \A s \in Slot : ~slots'[s].isActive
    BY <1>1 DEF TableTrue, IsActive
  <2> QED
    BY <2>1, <2>2, <2>3 DEF TableTrue, IsActive
<1>2. ASSUME Call PROVE TableTrue'
  <2>1. Kept
    BY <1>2 DEF Call, OpenSockets, BeginShutdown, Receive, NotifyAndFlagForShutdown,
                CloseConnection, GetSocket, table
  <2> QED
    BY <1>1, <2>1
<1>3. ASSUME GoOn PROVE TableTrue'
  <2>1. CASE StartThread
    <3>1. network = "none" /\ updating = NoSlot
      BY <2>1 DEF StartThread, Places, TypeOK
    <3>2. \A s \in Slot : ~slots'[s].isActive
      BY <2>1 DEF StartThread, Unused
    <3>3. ~raced => activeSystemList = <<>>
      <4>1. ASSUME ~raced PROVE ~(1 \in 1..Len(activeSystemList))
        BY <2>1, <4>1 DEF StartThread, TableTrue, ListTrue, TypeOK
      <4> QED
        BY <4>1, EmptySeq DEF TypeOK
    <3>4. ~raced => activeSystemList' = <<>>
      BY <2>1, <3>3, EmptySeq DEF StartThread
    <3>5. ListTrue'
      BY <2>1, <3>2, <3>4, EmptySeq DEF StartThread, ListTrue, IsActive
    <3>6. OneSlotEach'
      BY <3>2 DEF OneSlotEach, IsActive
    <3> QED
      BY <2>1, <3>1, <3>2, <3>5, <3>6 DEF StartThread, TableTrue, IsActive
  <2>2. CASE ResetActiveSystemList
    <3>1. OneSlotEach'
      BY <2>2 DEF ResetActiveSystemList, TableTrue, OneSlotEach, IsActive, AddressOf
    <3>2. ListTrue'
      BY <2>2 DEF ResetActiveSystemList, ListTrue
    <3> QED
      BY <2>2, <3>1, <3>2 DEF ResetActiveSystemList, TableTrue, IsActive
  <2>3. CASE FinishShutdown
    <3>1. network = "none"
      BY <2>3 DEF FinishShutdown, Places, TypeOK
    <3>2. \A s \in Slot : ~slots'[s].isActive
      BY <2>3 DEF FinishShutdown, Unused
    <3>3. OneSlotEach'
      BY <3>2 DEF OneSlotEach, IsActive
    <3>4. ~raced => activeSystemList' = <<>>
      BY <2>3 DEF FinishShutdown, TableTrue, ListTrue
    <3>5. ListTrue'
      BY <2>3, <3>2, <3>4, EmptySeq DEF FinishShutdown, ListTrue, IsActive
    <3> QED
      BY <2>3, <3>1, <3>2, <3>3, <3>5 DEF FinishShutdown, TableTrue, IsActive
  <2>4. CASE Started \/ ReturnConnectionLost \/ SocketsGot \/ NotifyNext \/ AllNotified
             \/ StopWaiting \/ EndThreads
    <3>1. Kept
      BY <2>4 DEF Started, ReturnConnectionLost, SocketsGot, NotifyNext, AllNotified,
                  StopWaiting, EndThreads, table
    <3> QED
      BY <1>1, <3>1
  <2> QED
    BY <1>3, <2>1, <2>2, <2>3, <2>4 DEF GoOn
<1>4. ASSUME Network PROVE TableTrue'
  <2>1. network # "none" /\ user \notin {"down", "starting"}
    BY <1>4 DEF Network, Begin, Check, ProcessNetworkPacket, BufferedCommand, NextSystem, Drop,
                FreeSlot, Message, UpToDate, Places
  <2>2. CASE Begin \/ Check \/ UpToDate
    <3>1. Kept
      BY <2>2 DEF Begin, Check, UpToDate, table
    <3> QED
      BY <1>1, <3>1
  <2>3. CASE ProcessNetworkPacket
    <3>1. CASE bufferedPackets = <<>>
      <4>1. Kept
        BY <2>3, <3>1 DEF ProcessNetworkPacket, table
      <4> QED
        BY <1>1, <4>1
    <3>2. CASE bufferedPackets # <<>>
      <4>1. Head(bufferedPackets).item \in Connection
        BY <3>2, TailProperties DEF TypeOK
      <4>2. AssignSystemAddressToRemoteSystemList(Head(bufferedPackets).item)
        BY <2>3, <3>2 DEF ProcessNetworkPacket
      <4>3. OneSlotEach' /\ ListTrue'
        BY <2>1, <4>1, <4>2, AssignKeepsTable
      <4>4. user' \notin {"down", "starting"}
        BY <2>1, <4>2, UserMoved
      <4> QED
        BY <2>3, <3>2, <4>3, <4>4 DEF ProcessNetworkPacket, TableTrue
    <3> QED
      BY <3>1, <3>2
  <2>4. CASE BufferedCommand
    <3>1. CASE bufferedCommands = <<>>
      <4>1. Kept
        BY <2>4, <3>1 DEF BufferedCommand, table
      <4> QED
        BY <1>1, <4>1
    <3>2. CASE bufferedCommands # <<>>
      <4>1. PICK p : \/ Flag(p) \/ CloseConnectionInternal(p)
                     \/ UNCHANGED <<table, user>>
        BY <2>4, <3>2 DEF BufferedCommand, CarryOut
      <4>2. CASE Flag(p)
        <5>1. \A s \in Slot : /\ slots'[s].isActive = slots[s].isActive
                             /\ slots'[s].connection = slots[s].connection
          BY <4>2 DEF Flag, TypeOK
        <5>2. Kept
          BY <2>4, <3>2, <4>2, <5>1 DEF BufferedCommand, Flag
        <5> QED
          BY <1>1, <5>2
      <4>3. CASE CloseConnectionInternal(p)
        <5>1. OneSlotEach' /\ ListTrue'
          BY <4>3, CloseKeepsTable
        <5>2. user' \notin {"down", "starting"}
          BY <2>1, <4>3, UserMoved
        <5> QED
          BY <2>4, <3>2, <5>1, <5>2 DEF BufferedCommand, TableTrue
      <4>4. CASE UNCHANGED <<table, user>>
        <5>1. Kept
          BY <2>4, <3>2, <4>4 DEF BufferedCommand, table
        <5> QED
          BY <1>1, <5>1
      <4> QED
        BY <4>1, <4>2, <4>3, <4>4
    <3> QED
      BY <3>1, <3>2
  <2>5. CASE NextSystem
    <3>1. OneSlotEach' /\ ListTrue'
      BY <2>5, TableKept DEF NextSystem, table
    <3>2. ~raced /\ network' \in {"updates", "drops"} => IsActive(updating')
      <4>1. SUFFICES ASSUME ~raced, network' \in {"updates", "drops"} PROVE IsActive(updating')
        OBVIOUS
      <4>2. /\ activeSystemListIndex \in 1..Len(activeSystemList)
            /\ updating' = activeSystemList[activeSystemListIndex]
        BY <2>5, <4>1 DEF NextSystem, TypeOK
      <4>3. activeSystemList[activeSystemListIndex] \in Slot
        BY <4>2 DEF TypeOK
      <4>4. activeSystemList # <<>>
        BY <4>2, EmptySeq
      <4> QED
        BY <4>1, <4>2, <4>3, <4>4 DEF TableTrue, ListTrue
    <3> QED
      BY <2>1, <2>5, <3>1, <3>2 DEF NextSystem, TableTrue, IsActive, table
  <2>6. CASE Drop
    <3>1. OneSlotEach' /\ ListTrue'
      BY <2>6, TableKept DEF Drop, table
    <3> QED
      BY <2>1, <2>6, <3>1 DEF Drop, TableTrue, IsActive, table
  <2>7. CASE FreeSlot
    <3>1. OneSlotEach' /\ ListTrue'
      BY <2>7, CloseKeepsTable DEF FreeSlot
    <3>2. user' \notin {"down", "starting"}
      BY <2>1, <2>7, UserMoved DEF FreeSlot
    <3> QED
      BY <2>7, <3>1, <3>2 DEF FreeSlot, TableTrue
  <2>8. CASE Message
    <3>1. \A s \in Slot : /\ slots'[s].isActive = slots[s].isActive
                         /\ slots'[s].connection = slots[s].connection
      BY <2>8 DEF Message, TypeOK
    <3>2. Kept
      BY <2>8, <3>1 DEF Message
    <3> QED
      BY <1>1, <3>2
  <2> QED
    BY <1>4, <2>2, <2>3, <2>4, <2>5, <2>6, <2>7, <2>8 DEF Network
<1>5. ASSUME NEW p \in Peer, Arrive(p) PROVE TableTrue'
  <2>1. Kept
    BY <1>5 DEF Arrive, table
  <2> QED
    BY <1>1, <2>1
<1>6. CASE UNCHANGED vars
  <2>1. Kept
    BY <1>6 DEF vars, table
  <2> QED
    BY <1>1, <2>1
<1> QED
  BY <1>2, <1>3, <1>4, <1>5, <1>6 DEF Next

\* It holds initially ...
LEMMA TableInit == Init => Places /\ TableTrue
<1> SUFFICES ASSUME Init PROVE Places /\ TableTrue
  OBVIOUS
<1>1. \A s \in Slot : ~slots[s].isActive
  BY DEF Init, Unused
<1>2. Places
  BY DEF Init, Places
<1>3. OneSlotEach
  BY <1>1 DEF OneSlotEach, IsActive
<1>4. ListTrue
  BY <1>1, EmptySeq DEF Init, ListTrue, IsActive
<1> QED
  BY <1>1, <1>2, <1>3, <1>4 DEF Init, TableTrue, IsActive

\* The variables keep their types, whatever the two threads interleave: the
\* slot that the update cycle has taken is a slot, the list one of slots.
THEOREM TypeCorrect == Spec => []TypeOK
<1>1. Init => TypeOK /\ Places
  BY TypeInit, TableInit
<1>2. TypeOK /\ Places /\ [Next]_vars => TypeOK' /\ Places'
  BY TypeOfStep, PlacesOfStep
<1> QED
  BY <1>1, <1>2, PTL DEF Spec

\* ... and so always, with the types.
LEMMA TableCorrect == Spec => [](TypeOK /\ Places /\ TableTrue)
<1>1. Init => TypeOK /\ Places /\ TableTrue
  BY TypeInit, TableInit
<1>2. TypeOK /\ Places /\ TableTrue /\ [Next]_vars => TypeOK' /\ Places' /\ TableTrue'
  BY TypeOfStep, PlacesOfStep, TableOfStep
<1> QED
  BY <1>1, <1>2, PTL DEF Spec

\* The list that the update cycle follows has every active system once, unless
\* a system has come or gone between Shutdown's reset of the list and the end of
\* the network thread.
THEOREM ActiveListCorrect == Spec => []ActiveListTrue
<1>1. TypeOK /\ TableTrue => ActiveListTrue
  <2>1. SUFFICES ASSUME TypeOK, TableTrue, ~raced, user \notin {"ending", "joining"}
                 PROVE  /\ IsInjective(activeSystemList)
                        /\ Range(activeSystemList) = {s \in Slot : IsActive(s)}
    BY DEF ActiveListTrue
  <2>2. /\ DOMAIN activeSystemList = 1..Len(activeSystemList)
        /\ \A i \in 1..Len(activeSystemList) : activeSystemList[i] \in Slot
    <3>1. activeSystemList \in Seq(Slot)
      BY <2>1 DEF TypeOK
    <3> QED
      BY <3>1, LenProperties, ElementOfSeq
  <2>3. /\ \A i, j \in 1..Len(activeSystemList) :
             activeSystemList[i] = activeSystemList[j] => i = j
        /\ \A s \in Slot :
             IsActive(s) <=> \E i \in 1..Len(activeSystemList) : activeSystemList[i] = s
    BY <2>1 DEF TableTrue, ListTrue
  <2>4. IsInjective(activeSystemList)
    BY <2>2, <2>3 DEF IsInjective
  <2>5. Range(activeSystemList) = {s \in Slot : IsActive(s)}
    BY <2>2, <2>3 DEF Range
  <2> QED
    BY <2>4, <2>5
<1> QED
  BY <1>1, TableCorrect, PTL

----------------------------------------------------------------------------
(* The queues *)

Fresh(queue) == \A i \in DOMAIN queue : queue[i].run = run

AllFresh ==
  /\ Fresh(bufferedPackets) /\ Fresh(bufferedCommands)
  /\ Fresh(socketQueryOutput) /\ Fresh(packetReturnQueue)

AllEmpty ==
  /\ bufferedPackets = <<>> /\ bufferedCommands = <<>>
  /\ socketQueryOutput = <<>> /\ packetReturnQueue = <<>>

\* What can become of a queue in one step.
Moves(queue, next) ==
  \/ next = queue
  \/ next = <<>>
  \/ queue # <<>> /\ next = Tail(queue)
  \/ \E item : next = Push(queue, item)

\* A queue of this run's items that moves keeps to this run's items.
LEMMA FreshMoves ==
  ASSUME NEW S, NEW queue \in Queued(S), Fresh(queue), NEW next, Moves(queue, next)
  PROVE  Fresh(next)
<1>1. CASE next = queue
  BY <1>1
<1>2. CASE next = <<>>
  BY <1>2 DEF Fresh
<1>3. CASE queue # <<>> /\ next = Tail(queue)
  BY <1>3, TailProperties DEF Fresh
<1>4. ASSUME NEW item, next = Push(queue, item) PROVE Fresh(next)
  <2> DEFINE entry == [item |-> item, run |-> run]
             T == [item : S, run : Nat] \cup {entry}
  <2>1. queue \in Seq(T) /\ entry \in T /\ next = Append(queue, entry)
    <3>1. queue \in Seq([item : S, run : Nat])
      BY DEF Queued
    <3>2. queue \in Seq(T)
      BY <3>1, SeqMonotonic
    <3> QED
      BY <1>4, <3>2 DEF Push
  <2>2. entry.run = run
    OBVIOUS
  <2> HIDE DEF T, entry
  <2>3. /\ Len(queue) \in Nat /\ DOMAIN queue = 1..Len(queue)
        /\ DOMAIN next = 1..Len(queue) + 1
        /\ \A i \in 1..Len(queue) : next[i] = queue[i]
        /\ next[Len(queue) + 1] = entry
    BY <2>1, AppendProperties, LenProperties
  <2> QED
    BY <2>2, <2>3 DEF Fresh
<1> QED
  BY <1>1, <1>2, <1>3, <1>4 DEF Moves

\* A step that starts nothing up moves the queues one way or the other.
QueuesMove ==
  /\ Moves(bufferedPackets, bufferedPackets')
  /\ Moves(bufferedCommands, bufferedCommands')
  /\ Moves(socketQueryOutput, socketQueryOutput')
  /\ Moves(packetReturnQueue, packetReturnQueue')
  /\ left'["runs"] = left["runs"]

\* In every step but the first of a run a queue stays, is popped, pushed to or
\* emptied.
LEMMA QueuesMoveInStep ==
  ASSUME TypeOK, Next, ~OpenSockets
  PROVE  QueuesMove
<1> USE DEF QueuesMove, Moves
<1>1. \A b \in Budgets : b # "runs" /\ Spend(b) => left'["runs"] = left["runs"]
  BY DEF Spend, TypeOK, Budgets
<1>2. ASSUME Call PROVE QueuesMove
  <2>1. ASSUME BeginShutdown \/ Receive PROVE QueuesMove
    BY <2>1 DEF BeginShutdown, Receive, queues
  <2>2. ASSUME NEW p, \/ NotifyAndFlagForShutdown(p) \/ CloseConnection(p) \/ GetSocket(p)
        PROVE  QueuesMove
    BY <1>1, <2>2 DEF NotifyAndFlagForShutdown, CloseConnection, GetSocket, Budgets
  <2> QED
    BY <1>2, <2>1, <2>2 DEF Call
<1>3. ASSUME GoOn PROVE QueuesMove
  <2>1. ASSUME StartThread \/ Started \/ ReturnConnectionLost \/ SocketsGot PROVE QueuesMove
    BY <2>1 DEF StartThread, Started, ReturnConnectionLost, SocketsGot, queues
  <2>2. ASSUME NotifyNext \/ AllNotified \/ StopWaiting PROVE QueuesMove
    BY <2>2 DEF NotifyNext, AllNotified, StopWaiting, queues
  <2>3. ASSUME ResetActiveSystemList \/ EndThreads \/ FinishShutdown PROVE QueuesMove
    BY <2>3 DEF ResetActiveSystemList, EndThreads, FinishShutdown, ClearAll, queues
  <2> QED
    BY <1>3, <2>1, <2>2, <2>3 DEF GoOn
<1>4. ASSUME Network PROVE QueuesMove
  <2>1. ASSUME Begin \/ Check \/ NextSystem \/ FreeSlot \/ UpToDate PROVE QueuesMove
    BY <2>1 DEF Begin, Check, NextSystem, FreeSlot, UpToDate, queues
  <2>2. ASSUME ProcessNetworkPacket PROVE QueuesMove
    BY <2>2 DEF ProcessNetworkPacket
  <2>3. ASSUME BufferedCommand PROVE QueuesMove
    BY <2>3 DEF BufferedCommand, CarryOut
  <2>4. ASSUME Drop PROVE QueuesMove
    BY <1>1, <2>4 DEF Drop, Budgets
  <2>5. ASSUME Message PROVE QueuesMove
    BY <1>1, <2>5 DEF Message, Budgets
  <2> QED
    BY <1>4, <2>1, <2>2, <2>3, <2>4, <2>5 DEF Network
<1>5. ASSUME NEW p \in Peer, Arrive(p) PROVE QueuesMove
  BY <1>1, <1>5 DEF Arrive, Budgets
<1> QED
  BY <1>2, <1>3, <1>4, <1>5 DEF Next

\* Nothing of an earlier run is in a queue, and a peer that is down has empty
\* ones.
LEMMA FreshOfStep ==
  ASSUME TypeOK, Places, AllFresh, user = "down" => AllEmpty, [Next]_vars
  PROVE  AllFresh' /\ (user' = "down" => AllEmpty')
<1>1. CASE OpenSockets
  BY <1>1 DEF OpenSockets, AllEmpty, AllFresh, Fresh, queues
<1>2. CASE UNCHANGED vars
  BY <1>2 DEF vars, queues, AllEmpty, AllFresh, Fresh, run
<1>3. CASE Next /\ ~OpenSockets
  <2>1. QueuesMove
    BY <1>3, QueuesMoveInStep
  <2>2. /\ Fresh(bufferedPackets') /\ Fresh(bufferedCommands')
        /\ Fresh(socketQueryOutput') /\ Fresh(packetReturnQueue')
    BY <2>1, FreshMoves DEF TypeOK, AllFresh, QueuesMove
  <2>3. run' = run
    BY <2>1 DEF QueuesMove, run
  <2>4. AllFresh'
    BY <2>2, <2>3 DEF AllFresh, Fresh
  <2>5. ASSUME user' = "down" PROVE AllEmpty'
    <3>1. CASE FinishShutdown
      BY <3>1 DEF FinishShutdown, ClearAll, AllEmpty
    <3>2. user = "down" /\ ~FinishShutdown => UNCHANGED queues
      <4>1. SUFFICES ASSUME user = "down", ~FinishShutdown PROVE FALSE
        OBVIOUS
      <4>2. network = "none" /\ ~reading
        BY <4>1 DEF Places
      <4> QED
        BY <1>3, <4>1, <4>2
        DEF Next, Call, OpenSockets, BeginShutdown, Receive, NotifyAndFlagForShutdown,
            CloseConnection, GetSocket, GoOn, StartThread, Started, ReturnConnectionLost,
            SocketsGot, NotifyNext, AllNotified, StopWaiting, ResetActiveSystemList, EndThreads,
            Network, Begin, Check, ProcessNetworkPacket, BufferedCommand, NextSystem, Drop,
            FreeSlot, Message, UpToDate, Arrive
    <3>3. user = "down" \/ FinishShutdown
      <4>1. CASE Call
        BY <2>5, <4>1 DEF Call, OpenSockets, BeginShutdown, Receive, NotifyAndFlagForShutdown,
                          CloseConnection, GetSocket
      <4>2. CASE GoOn
        BY <2>5, <4>2 DEF GoOn, StartThread, Started, ReturnConnectionLost, SocketsGot,
                          NotifyNext, AllNotified, StopWaiting, ResetActiveSystemList, EndThreads
      <4>3. CASE Network
        BY <2>5, <4>3, UserMoved
        DEF Network, Begin, Check, ProcessNetworkPacket, BufferedCommand, CarryOut, Flag,
            NextSystem, Drop, FreeSlot, Message, UpToDate, table
      <4>4. CASE \E p \in Peer : Arrive(p)
        BY <2>5, <4>4 DEF Arrive
      <4> QED
        BY <1>3, <4>1, <4>2, <4>3, <4>4 DEF Next
    <3> QED
      BY <3>1, <3>2, <3>3 DEF AllEmpty, queues
  <2> QED
    BY <2>4, <2>5
<1> QED
  BY <1>1, <1>2, <1>3

\* No datagram, command, answer or packet outlives a shutdown: what is queued is
\* of the last start-up, and nothing is queued while the peer is down.
THEOREM NothingOutlives == Spec => []NothingFromBefore
<1>1. Init => AllFresh /\ AllEmpty
  BY DEF Init, AllFresh, AllEmpty, Fresh
<1>2. /\ TypeOK /\ Places /\ AllFresh /\ (user = "down" => AllEmpty) /\ [Next]_vars
      => AllFresh' /\ (user = "down" => AllEmpty)'
  BY FreshOfStep
<1>3. AllFresh => NothingFromBefore
  BY DEF AllFresh, Fresh, NothingFromBefore
<1> QED
  BY <1>1, <1>2, <1>3, TableCorrect, PTL DEF Spec

----------------------------------------------------------------------------
(* What the user of the peer learns of its connections: the invariant *)

\* Before a start-up nothing is known and nothing is to be told.
Idle ==
  user \in {"down", "starting"} => packetReturnQueue = <<>> /\ begun = {} /\ ended = {}

\* What is about to be closed without a notification is silenced.
ClosesSilenced ==
  /\ user = "closing" => target \in silenced
  /\ \A i \in DOMAIN bufferedCommands :
       bufferedCommands[i].item.command = "CLOSE" => bufferedCommands[i].item.address \in silenced

Item(i) == packetReturnQueue[i].item
InQueue(type, c) ==
  \E i \in DOMAIN packetReturnQueue : Item(i) = [type |-> type, connection |-> c]

\* The user has been told, or will be.
Begun(c) == c \in begun \/ InQueue("NEW", c)
Told(c) == c \in ended \/ InQueue("END", c)

Known(c) ==
  \/ \E s \in Slot : slots[s].connection = c
  \/ \E i \in DOMAIN packetReturnQueue : Item(i).connection = c
  \/ c \in begun \cup ended
Arriving(c) == \E i \in DOMAIN bufferedPackets : bufferedPackets[i].item = c

\* A datagram opens a connection that nobody knows of yet, and no connection has
\* two slots.
Numbered ==
  /\ \A c \in Connection : Known(c) \/ Arriving(c) => c.number > left["opens"]
  /\ \A c \in Connection : ~(Known(c) /\ Arriving(c))
  /\ \A i, j \in DOMAIN bufferedPackets :
       bufferedPackets[i].item = bufferedPackets[j].item => i = j
  /\ \A s, t \in Slot : slots[s].connection = slots[t].connection =>
       s = t \/ slots[s].connection = NoConnection

\* An end is the last of its connection in the queue, nothing queued is of one
\* that the user knows the end of, and a slot whose end is told is about to be freed.
EndsInOrder ==
  ~endThreads =>
    /\ \A i, j \in DOMAIN packetReturnQueue :
         i < j /\ Item(i).type = "END" /\ Item(j).connection = Item(i).connection
           => Item(j).type = "END" \/ Item(j).connection.address \in silenced
    /\ \A i \in DOMAIN packetReturnQueue :
         Item(i).type # "END" /\ Item(i).connection \in ended
           => Item(i).connection.address \in silenced
    /\ \A s \in Slot :
         IsActive(s) /\ Told(slots[s].connection) /\ AddressOf(s) \notin silenced
           => network = "drops" /\ updating = s

\* A connection that has begun keeps its slot until its end is told, and the slot
\* has a mode whose end is.
BeginningsKept ==
  ~raced =>
    /\ \A c : Begun(c) /\ c.address \notin silenced =>
         Told(c) \/ \E s \in Slot : IsActive(s) /\ slots[s].connection = c
    /\ \A s \in Slot :
         IsActive(s) /\ Begun(slots[s].connection) => IsAnnounced(slots[s].connectMode)
    /\ network = "drops" /\ IsAnnounced(slots[updating].connectMode)
         => Told(slots[updating].connection)

----------------------------------------------------------------------------
(* The queue of packets *)

\* What the queue says after a push ...
LEMMA PacketPushed ==
  ASSUME TypeOK, NEW packet \in PacketType,
         packetReturnQueue' = Push(packetReturnQueue, packet)
  PROVE  /\ Len(packetReturnQueue) \in Nat
         /\ DOMAIN packetReturnQueue = 1..Len(packetReturnQueue)
         /\ DOMAIN packetReturnQueue' = 1..Len(packetReturnQueue) + 1
         /\ \A i \in 1..Len(packetReturnQueue) : Item(i)' = Item(i)
         /\ packetReturnQueue'[Len(packetReturnQueue) + 1].item = packet
         /\ \A type, c : InQueue(type, c)' <=>
              InQueue(type, c) \/ packet = [type |-> type, connection |-> c]
<1> DEFINE n == Len(packetReturnQueue)
<1>1. packetReturnQueue \in Queued(PacketType)
  BY DEF TypeOK, PacketType
<1>2. n \in Nat /\ DOMAIN packetReturnQueue = 1..n
  BY <1>1, LenProperties DEF Queued
<1>3. left \in [Budgets -> Nat]
  BY DEF TypeOK
<1>4. /\ DOMAIN packetReturnQueue' = 1..n + 1
      /\ \A i \in 1..n : packetReturnQueue'[i] = packetReturnQueue[i]
      /\ packetReturnQueue'[n + 1] = [item |-> packet, run |-> run]
  BY <1>1, <1>2, <1>3, PushProperties
<1>5. \A i \in 1..n : Item(i)' = Item(i)
  BY <1>4 DEF Item
<1>6. packetReturnQueue'[n + 1].item = packet
  BY <1>4
<1>7. ASSUME NEW type, NEW c
      PROVE  InQueue(type, c)' <=> InQueue(type, c) \/ packet = [type |-> type, connection |-> c]
  <2>1. InQueue(type, c)' <=>
          \E i \in 1..n + 1 : packetReturnQueue'[i].item = [type |-> type, connection |-> c]
    BY <1>4 DEF InQueue, Item
  <2>2. InQueue(type, c) <=>
          \E i \in 1..n : packetReturnQueue[i].item = [type |-> type, connection |-> c]
    BY <1>2 DEF InQueue, Item
  <2>3. \A i \in 1..n + 1 : i \in 1..n \/ i = n + 1
    BY <1>2
  <2>4. 1..n \subseteq 1..n + 1 /\ n + 1 \in 1..n + 1
    BY <1>2
  <2> HIDE DEF n
  <2> QED
    BY <1>4, <1>6, <2>1, <2>2, <2>3, <2>4
<1> QED
  BY <1>2, <1>4, <1>5, <1>6, <1>7

\* ... and before a packet was taken from it.
LEMMA PacketTaken ==
  ASSUME TypeOK, packetReturnQueue # <<>>, packetReturnQueue' = Tail(packetReturnQueue)
  PROVE  /\ Len(packetReturnQueue) \in Nat
         /\ DOMAIN packetReturnQueue = 1..Len(packetReturnQueue)
         /\ DOMAIN packetReturnQueue' = 1..Len(packetReturnQueue) - 1
         /\ \A i \in 1..Len(packetReturnQueue) - 1 :
              i + 1 \in 1..Len(packetReturnQueue) /\ packetReturnQueue'[i].item = Item(i + 1)
         /\ 1 \in DOMAIN packetReturnQueue
         /\ Item(1) = Head(packetReturnQueue).item /\ Item(1) \in PacketType
         /\ \A type, c : InQueue(type, c) <=>
              InQueue(type, c)' \/ Item(1) = [type |-> type, connection |-> c]
<1> DEFINE n == Len(packetReturnQueue)
<1>1. packetReturnQueue \in Queued(PacketType)
  BY DEF TypeOK, PacketType
<1>2. n \in Nat /\ DOMAIN packetReturnQueue = 1..n
  BY <1>1, LenProperties DEF Queued
<1>3. /\ Tail(packetReturnQueue) \in Queued(PacketType)
      /\ Head(packetReturnQueue) = packetReturnQueue[1] /\ 1 \in DOMAIN packetReturnQueue
      /\ Head(packetReturnQueue).item \in PacketType
      /\ Len(Tail(packetReturnQueue)) = n - 1
      /\ \A i \in DOMAIN Tail(packetReturnQueue) :
           i + 1 \in DOMAIN packetReturnQueue
           /\ Tail(packetReturnQueue)[i] = packetReturnQueue[i + 1]
  BY <1>1, TailProperties
<1>4. DOMAIN packetReturnQueue' = 1..n - 1
  BY <1>3, LenProperties DEF Queued
<1>5. \A i \in 1..n - 1 : i + 1 \in 1..n /\ packetReturnQueue'[i].item = Item(i + 1)
  BY <1>2, <1>3, <1>4 DEF Item
<1>6. Item(1) = Head(packetReturnQueue).item /\ Item(1) \in PacketType
  BY <1>3 DEF Item
<1>7. ASSUME NEW type, NEW c
      PROVE  InQueue(type, c) <=> InQueue(type, c)' \/ Item(1) = [type |-> type, connection |-> c]
  <2>1. InQueue(type, c)' <=>
          \E i \in 1..n - 1 : Item(i + 1) = [type |-> type, connection |-> c]
    BY <1>4, <1>5 DEF InQueue, Item
  <2>2. InQueue(type, c) <=> \E i \in 1..n : Item(i) = [type |-> type, connection |-> c]
    BY <1>2 DEF InQueue
  <2>3. \A j \in 1..n : j = 1 \/ (j - 1 \in 1..n - 1 /\ (j - 1) + 1 = j)
    BY <1>2
  <2>4. 1 \in 1..n
    BY <1>2, <1>3
  <2> HIDE DEF n
  <2> QED
    BY <1>5, <2>1, <2>2, <2>3, <2>4
<1> QED
  BY <1>2, <1>3, <1>4, <1>5, <1>6, <1>7

----------------------------------------------------------------------------
(* Before a start-up, and silenced addresses *)

\* Nothing is known before a start-up.
LEMMA IdleOfStep ==
  ASSUME TypeOK, Places, Idle, [Next]_vars
  PROVE  Idle'
<1>1. SUFFICES ASSUME user' \in {"down", "starting"}
               PROVE  packetReturnQueue' = <<>> /\ begun' = {} /\ ended' = {}
  BY DEF Idle
<1>2. CASE FinishShutdown
  BY <1>2 DEF FinishShutdown, ClearAll
<1>3. CASE ~FinishShutdown
  <2>1. user \in {"down", "starting"}
    <3>1. CASE Call
      BY <1>1, <3>1 DEF Call, OpenSockets, BeginShutdown, Receive, NotifyAndFlagForShutdown,
                        CloseConnection, GetSocket
    <3>2. CASE GoOn
      BY <1>1, <1>3, <3>2 DEF GoOn, StartThread, Started, ReturnConnectionLost, SocketsGot,
                       NotifyNext, AllNotified, StopWaiting, ResetActiveSystemList, EndThreads
    <3>3. CASE Network
      BY <1>1, <3>3, UserMoved
      DEF Network, Begin, Check, ProcessNetworkPacket, BufferedCommand, CarryOut, Flag,
          NextSystem, Drop, FreeSlot, Message, UpToDate, table
    <3>4. CASE \E p \in Peer : Arrive(p)
      BY <1>1, <3>4 DEF Arrive
    <3>5. CASE UNCHANGED vars
      BY <1>1, <3>5 DEF vars
    <3> QED
      BY <3>1, <3>2, <3>3, <3>4, <3>5 DEF Next
  <2>2. network = "none"
    BY <2>1 DEF Places
  <2>3. UNCHANGED <<packetReturnQueue, begun, ended>>
    <3>1. CASE Call
      BY <2>1, <3>1 DEF Call, OpenSockets, BeginShutdown, Receive, NotifyAndFlagForShutdown,
                        CloseConnection, GetSocket, queues, knowledge
    <3>2. CASE GoOn
      BY <1>3, <2>1, <3>2 DEF GoOn, StartThread, Started, ReturnConnectionLost, SocketsGot,
                       NotifyNext, AllNotified, StopWaiting, ResetActiveSystemList, EndThreads,
                       queues, knowledge
    <3>3. CASE Network
      BY <2>2, <3>3
      DEF Network, Begin, Check, ProcessNetworkPacket, BufferedCommand, NextSystem, Drop,
          FreeSlot, Message, UpToDate
    <3>4. CASE \E p \in Peer : Arrive(p)
      BY <3>4 DEF Arrive, knowledge
    <3>5. CASE UNCHANGED vars
      BY <3>5 DEF vars, queues, knowledge
    <3> QED
      BY <3>1, <3>2, <3>3, <3>4, <3>5 DEF Next
  <2> QED
    BY <2>1, <2>3 DEF Idle
<1> QED
  BY <1>2, <1>3

\* A close command is queued only for a silenced address.
LEMMA CommandsKept ==
  ASSUME TypeOK, ClosesSilenced, silenced \subseteq silenced',
         \/ bufferedCommands' = bufferedCommands
         \/ bufferedCommands' = <<>>
         \/ bufferedCommands # <<>> /\ bufferedCommands' = Tail(bufferedCommands)
         \/ \E item \in CommandType :
              /\ bufferedCommands' = Push(bufferedCommands, item)
              /\ item.command = "CLOSE" => item.address \in silenced'
  PROVE  \A i \in DOMAIN bufferedCommands' :
           bufferedCommands'[i].item.command = "CLOSE"
             => bufferedCommands'[i].item.address \in silenced'
<1>1. bufferedCommands \in Queued(CommandType)
  BY DEF TypeOK, CommandType
<1>2. CASE bufferedCommands' = bufferedCommands
  BY <1>2 DEF ClosesSilenced
<1>3. CASE bufferedCommands' = <<>>
  BY <1>3
<1>4. CASE bufferedCommands # <<>> /\ bufferedCommands' = Tail(bufferedCommands)
  <2>1. \A i \in DOMAIN bufferedCommands' :
          i + 1 \in DOMAIN bufferedCommands /\ bufferedCommands'[i] = bufferedCommands[i + 1]
    BY <1>1, <1>4, TailProperties
  <2> QED
    BY <2>1 DEF ClosesSilenced
<1>5. ASSUME NEW item \in CommandType, bufferedCommands' = Push(bufferedCommands, item),
             item.command = "CLOSE" => item.address \in silenced'
      PROVE  \A i \in DOMAIN bufferedCommands' :
               bufferedCommands'[i].item.command = "CLOSE"
                 => bufferedCommands'[i].item.address \in silenced'
  <2> DEFINE n == Len(bufferedCommands)
  <2>1. left \in [Budgets -> Nat]
    BY DEF TypeOK
  <2>2. n \in Nat /\ DOMAIN bufferedCommands = 1..n
    BY <1>1, LenProperties DEF Queued
  <2>3. /\ DOMAIN bufferedCommands' = 1..n + 1
        /\ \A i \in 1..n : bufferedCommands'[i] = bufferedCommands[i]
        /\ bufferedCommands'[n + 1] = [item |-> item, run |-> run]
    BY <1>1, <1>5, <2>1, <2>2, PushProperties
  <2>4. \A i \in 1..n + 1 : i \in 1..n \/ i = n + 1
    BY <2>2
  <2> HIDE DEF n
  <2> QED
    BY <1>5, <2>2, <2>3, <2>4 DEF ClosesSilenced
<1> QED
  BY <1>2, <1>3, <1>4, <1>5

\* Every step keeps it so.
LEMMA SilencedOfStep ==
  ASSUME TypeOK, Places, ClosesSilenced, [Next]_vars
  PROVE  ClosesSilenced'
<1>1. ASSUME UNCHANGED <<bufferedCommands, silenced>>,
             user' = "closing" => user = "closing" /\ UNCHANGED target
      PROVE  ClosesSilenced'
  BY <1>1 DEF ClosesSilenced
<1>2. \A c \in {"DISCONNECT", "CLOSE", "GET_SOCKET"}, p \in Peer \cup {NoPeer} :
        /\ Command(c, p) \in CommandType
        /\ Command(c, p).command = c /\ Command(c, p).address = p
  BY DEF Command, CommandType
<1>3. ASSUME Call PROVE ClosesSilenced'
  <2>1. CASE OpenSockets \/ BeginShutdown \/ Receive
    BY <1>1, <2>1 DEF OpenSockets, BeginShutdown, Receive, queues, knowledge
  <2>2. ASSUME NEW p \in Peer, NotifyAndFlagForShutdown(p) PROVE ClosesSilenced'
    <3>1. bufferedCommands' = Push(bufferedCommands, Command("DISCONNECT", p))
          /\ UNCHANGED <<user, target, silenced>> /\ user = "up"
      BY <2>2 DEF NotifyAndFlagForShutdown, knowledge
    <3> QED
      BY <1>2, <3>1, CommandsKept DEF ClosesSilenced
  <2>3. ASSUME NEW p \in Peer, CloseConnection(p) PROVE ClosesSilenced'
    <3>1. /\ bufferedCommands' = Push(bufferedCommands, Command("CLOSE", p))
          /\ target' = p /\ silenced' = silenced \cup {p}
      BY <2>3 DEF CloseConnection
    <3>2. \A i \in DOMAIN bufferedCommands' :
            bufferedCommands'[i].item.command = "CLOSE"
              => bufferedCommands'[i].item.address \in silenced'
      BY <1>2, <3>1, CommandsKept
    <3> QED
      BY <3>1, <3>2 DEF ClosesSilenced
  <2>4. ASSUME NEW p \in Peer \cup {NoPeer}, GetSocket(p) PROVE ClosesSilenced'
    <3>1. bufferedCommands' = Push(bufferedCommands, Command("GET_SOCKET", p))
          /\ user' = "querying" /\ UNCHANGED silenced
      BY <2>4 DEF GetSocket, knowledge
    <3> QED
      BY <1>2, <3>1, CommandsKept DEF ClosesSilenced
  <2> QED
    BY <1>3, <2>1, <2>2, <2>3, <2>4 DEF Call
<1>4. ASSUME GoOn PROVE ClosesSilenced'
  <2>1. CASE Started \/ ReturnConnectionLost \/ SocketsGot \/ AllNotified \/ StopWaiting
             \/ ResetActiveSystemList \/ EndThreads
    BY <1>1, <2>1 DEF Started, ReturnConnectionLost, SocketsGot, AllNotified, StopWaiting,
                      ResetActiveSystemList, EndThreads, queues, knowledge
  <2>2. CASE NotifyNext
    <3>1. CASE UNCHANGED bufferedCommands
      BY <1>1, <2>2, <3>1 DEF NotifyNext, knowledge
    <3>2. CASE bufferedCommands' = Push(bufferedCommands,
                                        Command("DISCONNECT", AddressOf(passed + 1)))
      <4>1. slots[passed + 1].connection \in Connection \cup {NoConnection}
        BY <2>2 DEF NotifyNext, TypeOK
      <4>2. AddressOf(passed + 1) \in Peer \cup {NoPeer}
        BY <4>1 DEF AddressOf, Connection, NoConnection
      <4>3. UNCHANGED <<user, target, silenced>>
        BY <2>2 DEF NotifyNext, knowledge
      <4>4. \A i \in DOMAIN bufferedCommands' :
              bufferedCommands'[i].item.command = "CLOSE"
                => bufferedCommands'[i].item.address \in silenced'
        BY <1>2, <3>2, <4>2, <4>3, CommandsKept
      <4> QED
        BY <4>3, <4>4 DEF ClosesSilenced
    <3> QED
      BY <2>2, <3>1, <3>2 DEF NotifyNext
  <2>3. CASE StartThread \/ FinishShutdown
    BY <2>3 DEF StartThread, FinishShutdown, ClearAll, ClosesSilenced
  <2> QED
    BY <1>4, <2>1, <2>2, <2>3 DEF GoOn
<1>5. ASSUME Network PROVE ClosesSilenced'
  <2>1. CASE Begin \/ Check \/ NextSystem \/ Drop \/ Message \/ UpToDate
    BY <1>1, <2>1 DEF Begin, Check, NextSystem, Drop, Message, UpToDate, queues, knowledge
  <2>2. CASE ProcessNetworkPacket
    BY <1>1, <2>2, UserMoved DEF ProcessNetworkPacket, knowledge
  <2>3. CASE FreeSlot
    BY <1>1, <2>3, UserMoved DEF FreeSlot, queues, knowledge
  <2>4. CASE BufferedCommand
    <3>1. UNCHANGED user \/ user' = "ending"
      BY <2>4, UserMoved DEF BufferedCommand, CarryOut, Flag
    <3>2. /\ UNCHANGED <<target, silenced>>
          /\ \/ bufferedCommands' = bufferedCommands
             \/ bufferedCommands # <<>> /\ bufferedCommands' = Tail(bufferedCommands)
      BY <2>4 DEF BufferedCommand, knowledge
    <3>3. \A i \in DOMAIN bufferedCommands' :
            bufferedCommands'[i].item.command = "CLOSE"
              => bufferedCommands'[i].item.address \in silenced'
      BY <3>2, CommandsKept
    <3> QED
      BY <3>1, <3>2, <3>3 DEF ClosesSilenced
  <2> QED
    BY <1>5, <2>1, <2>2, <2>3, <2>4 DEF Network
<1>6. CASE (\E p \in Peer : Arrive(p)) \/ UNCHANGED vars
  BY <1>1, <1>6 DEF Arrive, vars, queues, knowledge
<1> QED
  BY <1>3, <1>4, <1>5, <1>6 DEF Next

----------------------------------------------------------------------------
(* New connections are new *)

\* Connections stay apart when none becomes known, none arrives and no slot
\* is given another.
LEMMA NumberedKept ==
  ASSUME TypeOK, Numbered,
         \A c \in Connection : Known(c)' => Known(c),
         bufferedPackets' = bufferedPackets \/ bufferedPackets' = <<>>,
         left'["opens"] = left["opens"],
         \/ \A s \in Slot : slots'[s].connection = slots[s].connection
         \/ \A s \in Slot : slots'[s].connection = NoConnection
  PROVE  Numbered'
<1>1. \A c : Arriving(c)' => Arriving(c)
  BY DEF Arriving
<1>2. \A c \in Connection : (Known(c)' \/ Arriving(c)' => c.number > left'["opens"])
                            /\ ~(Known(c)' /\ Arriving(c)')
  BY <1>1 DEF Numbered
<1>3. \A i, j \in DOMAIN bufferedPackets' :
        bufferedPackets'[i].item = bufferedPackets'[j].item => i = j
  BY DEF Numbered
<1>4. \A s, t \in Slot : slots'[s].connection = slots'[t].connection =>
        s = t \/ slots'[s].connection = NoConnection
  BY DEF Numbered
<1> QED
  BY <1>2, <1>3, <1>4 DEF Numbered

\* What a step may do without anything new becoming known.
LEMMA KnownStays ==
  ASSUME TypeOK,
         \A s \in Slot : slots'[s].connection \in {slots[s].connection, NoConnection},
         begun' \cup ended' \subseteq begun \cup ended,
         packetReturnQueue' = packetReturnQueue \/ packetReturnQueue' = <<>>
  PROVE  \A c \in Connection : Known(c)' => Known(c)
<1>1. NoConnection \notin Connection
  BY DEF NoConnection, Connection
<1> QED
  BY <1>1 DEF Known, Item

\* A packet of a slot's connection makes no other known ...
LEMMA KnownIfPushed ==
  ASSUME TypeOK, NEW s \in Slot, NEW type \in {"NEW", "DATA", "END"},
         packetReturnQueue' = Push(packetReturnQueue, Packet(type, s)),
         \A t \in Slot : slots'[t].connection = slots[t].connection,
         UNCHANGED <<begun, ended>>
  PROVE  \A c \in Connection : Known(c)' => Known(c)
<1>1. Packet(type, s) \in PacketType
  BY DEF Packet, PacketType, TypeOK
<1>2. /\ Len(packetReturnQueue) \in Nat
      /\ DOMAIN packetReturnQueue = 1..Len(packetReturnQueue)
      /\ DOMAIN packetReturnQueue' = 1..Len(packetReturnQueue) + 1
      /\ \A i \in 1..Len(packetReturnQueue) : packetReturnQueue'[i].item = Item(i)
      /\ packetReturnQueue'[Len(packetReturnQueue) + 1].item = Packet(type, s)
  BY <1>1, PacketPushed DEF Item
<1>3. Packet(type, s).connection = slots[s].connection
  BY DEF Packet
<1>4. \A i \in DOMAIN packetReturnQueue' :
        \/ packetReturnQueue'[i].item.connection = slots[s].connection
        \/ (i \in DOMAIN packetReturnQueue /\ packetReturnQueue'[i].item = Item(i))
  BY <1>2, <1>3
<1>5. \A c : (\E i \in DOMAIN packetReturnQueue' : Item(i)'.connection = c)
        => \/ slots[s].connection = c
           \/ \E i \in DOMAIN packetReturnQueue : Item(i).connection = c
  BY <1>4 DEF Item
<1> QED
  BY <1>5 DEF Known

\* ... and neither does reading one.
LEMMA KnownIfTaken ==
  ASSUME TypeOK, Receive
  PROVE  \A c \in Connection : Known(c)' => Known(c)
<1>1. /\ packetReturnQueue # <<>> /\ packetReturnQueue' = Tail(packetReturnQueue)
      /\ UNCHANGED slots
  BY DEF Receive, table
<1>2. /\ DOMAIN packetReturnQueue = 1..Len(packetReturnQueue)
      /\ DOMAIN packetReturnQueue' = 1..Len(packetReturnQueue) - 1
      /\ \A i \in 1..Len(packetReturnQueue) - 1 :
           i + 1 \in 1..Len(packetReturnQueue) /\ packetReturnQueue'[i].item = Item(i + 1)
      /\ 1 \in DOMAIN packetReturnQueue /\ Item(1) = Head(packetReturnQueue).item
  BY <1>1, PacketTaken
<1>3. \A c : (\E i \in DOMAIN packetReturnQueue' : Item(i)'.connection = c)
        => \E i \in DOMAIN packetReturnQueue : Item(i).connection = c
  BY <1>2 DEF Item
<1>4. begun' \cup ended' \subseteq begun \cup ended \cup {Item(1).connection}
  BY <1>2 DEF Receive
<1> QED
  BY <1>1, <1>2, <1>3, <1>4 DEF Known

\* A datagram that opens a connection has a number of its own.
LEMMA NumberedOfArrive ==
  ASSUME TypeOK, Numbered, NEW p \in Peer, Arrive(p)
  PROVE  Numbered'
<1> DEFINE new == [address |-> p, number |-> left["opens"]]
           n == Len(bufferedPackets)
<1>1. left["opens"] \in Nat /\ left["opens"] > 0 /\ left'["opens"] = left["opens"] - 1
  BY DEF Arrive, Spend, TypeOK, Budgets
<1>2. new \in Connection /\ new.number = left["opens"]
  BY <1>1 DEF Connection
<1>3. bufferedPackets \in Queued(Connection) /\ left \in [Budgets -> Nat]
  BY DEF TypeOK
<1>4. n \in Nat /\ DOMAIN bufferedPackets = 1..n
  BY <1>3, LenProperties DEF Queued
<1>5. bufferedPackets' = Push(bufferedPackets, new)
  BY DEF Arrive
<1> HIDE DEF new
<1>6. /\ DOMAIN bufferedPackets' = 1..n + 1
      /\ \A i \in 1..n : bufferedPackets'[i] = bufferedPackets[i]
      /\ bufferedPackets'[n + 1] = [item |-> new, run |-> run]
  BY <1>2, <1>3, <1>4, <1>5, PushProperties
<1>7. bufferedPackets'[n + 1].item = new
  BY <1>6
<1>8. \A i \in 1..n + 1 : i \in 1..n \/ i = n + 1
  BY <1>4
<1> HIDE DEF n
<1>9. \A c : Arriving(c)' => Arriving(c) \/ c = new
  BY <1>4, <1>6, <1>7, <1>8 DEF Arriving
<1>10. \A c \in Connection : Known(c)' => Known(c)
  BY KnownStays DEF Arrive, table, knowledge
<1>11. ~Known(new) /\ ~Arriving(new)
  BY <1>1, <1>2 DEF Numbered
<1>12. \A c \in Connection : /\ Known(c)' \/ Arriving(c)' => c.number > left'["opens"]
                             /\ ~(Known(c)' /\ Arriving(c)')
  <2>1. TAKE c \in Connection
  <2>2. c.number \in Nat
    BY DEF Connection
  <2>3. c.number > left["opens"] => c.number > left'["opens"]
    BY <1>1, <2>2
  <2>4. c = new => c.number > left'["opens"]
    BY <1>1, <1>2
  <2> QED
    BY <1>9, <1>10, <1>11, <2>3, <2>4 DEF Numbered
<1>13. \A i, j \in DOMAIN bufferedPackets' :
         bufferedPackets'[i].item = bufferedPackets'[j].item => i = j
  <2>1. \A i \in 1..n : bufferedPackets[i].item # new
    BY <1>4, <1>11 DEF Arriving
  <2> QED
    BY <1>4, <1>6, <1>7, <1>8, <2>1 DEF Numbered
<1>14. UNCHANGED slots
  BY DEF Arrive, table
<1> QED
  BY <1>12, <1>13, <1>14 DEF Numbered

\* The slot that is assigned has a connection that nobody knew of.
LEMMA NumberedOfProcess ==
  ASSUME TypeOK, Numbered, ProcessNetworkPacket
  PROVE  Numbered'
<1>1. CASE UNCHANGED <<bufferedPackets, table>>
  <2>1. \A c \in Connection : Known(c)' => Known(c)
    BY <1>1, KnownStays DEF ProcessNetworkPacket, table, knowledge
  <2> QED
    BY <1>1, <2>1, NumberedKept DEF ProcessNetworkPacket, table
<1>2. CASE /\ bufferedPackets # <<>>
           /\ AssignSystemAddressToRemoteSystemList(Head(bufferedPackets).item)
           /\ bufferedPackets' = Tail(bufferedPackets)
  <2>0. PICK new : new = Head(bufferedPackets).item
    OBVIOUS
  <2>1. bufferedPackets \in Queued(Connection)
    BY DEF TypeOK
  <2>2. /\ Tail(bufferedPackets) \in Queued(Connection)
        /\ 1 \in DOMAIN bufferedPackets /\ new = bufferedPackets[1].item /\ new \in Connection
        /\ \A i \in DOMAIN bufferedPackets' :
             i + 1 \in DOMAIN bufferedPackets /\ bufferedPackets'[i] = bufferedPackets[i + 1]
    BY <1>2, <2>0, <2>1, TailProperties
  <2>3. DOMAIN bufferedPackets' \subseteq Nat \ {0}
    BY <1>2, <2>2, LenProperties DEF Queued
  <2>4. \/ UNCHANGED slots
        \/ \E s \in Slot : slots' = [slots EXCEPT ![s] = [isActive |-> TRUE, connection |-> new,
                                                 connectMode |-> "UNVERIFIED_SENDER"]]
    BY <1>2, <2>0 DEF AssignSystemAddressToRemoteSystemList, table
  <2>5. PICK s \in Slot \cup {NoSlot} :
          \A t \in Slot : slots'[t].connection = IF t = s THEN new ELSE slots[t].connection
    <3>1. CASE UNCHANGED slots
      <4>1. \A t \in Slot : t # NoSlot
        BY DEF Slot, NoSlot
      <4> QED
        BY <3>1, <4>1
    <3>2. CASE \E s \in Slot : slots' = [slots EXCEPT ![s] = [isActive |-> TRUE,
                             connection |-> new, connectMode |-> "UNVERIFIED_SENDER"]]
      BY <3>2 DEF TypeOK
    <3> QED
      BY <2>4, <3>1, <3>2
  <2>6. Arriving(new) /\ \A c : Arriving(c)' => Arriving(c)
    BY <2>2 DEF Arriving
  <2>7. ~Arriving(new)'
    <3>1. SUFFICES ASSUME NEW i \in DOMAIN bufferedPackets', bufferedPackets'[i].item = new
                   PROVE  FALSE
      BY DEF Arriving
    <3>2. i + 1 \in DOMAIN bufferedPackets /\ bufferedPackets[i + 1].item = bufferedPackets[1].item
      BY <2>2, <3>1
    <3>3. i + 1 = 1
      BY <2>2, <3>2 DEF Numbered
    <3> QED
      BY <2>3, <3>3
  <2>8. UNCHANGED <<packetReturnQueue, begun, ended, left>>
    BY DEF ProcessNetworkPacket, knowledge
  <2>9. \A c : Known(c)' => Known(c) \/ c = new
    BY <2>5, <2>8 DEF Known, Item
  <2>10. \A c \in Connection : /\ Known(c)' \/ Arriving(c)' => c.number > left'["opens"]
                               /\ ~(Known(c)' /\ Arriving(c)')
    BY <2>2, <2>6, <2>7, <2>8, <2>9 DEF Numbered
  <2>11. \A i, j \in DOMAIN bufferedPackets' :
           bufferedPackets'[i].item = bufferedPackets'[j].item => i = j
    <3>1. TAKE i, j \in DOMAIN bufferedPackets'
    <3>2. bufferedPackets'[i].item = bufferedPackets'[j].item => i + 1 = j + 1
      BY <2>2 DEF Numbered
    <3> QED
      BY <2>3, <3>2
  <2>12. ~Known(new)
    BY <2>2, <2>6 DEF Numbered
  <2>13. \A t \in Slot : slots[t].connection # new
    BY <2>12 DEF Known
  <2>14. \A t, u \in Slot : slots'[t].connection = slots'[u].connection =>
           t = u \/ slots'[t].connection = NoConnection
    BY <2>5, <2>13 DEF Numbered
  <2> QED
    BY <2>10, <2>11, <2>14 DEF Numbered
<1> QED
  BY <1>1, <1>2 DEF ProcessNetworkPacket, table

\* Every step keeps connections apart.
LEMMA NumberedOfStep ==
  ASSUME TypeOK, Numbered, [Next]_vars
  PROVE  Numbered'
<1>1. ASSUME \A s \in Slot : slots'[s].connection = slots[s].connection,
             UNCHANGED <<bufferedPackets, packetReturnQueue, begun, ended>>,
             left'["opens"] = left["opens"]
      PROVE  Numbered'
  <2>1. \A c \in Connection : Known(c)' => Known(c)
    BY <1>1, KnownStays
  <2> QED
    BY <1>1, <2>1, NumberedKept
<1>2. \A b \in Budgets : b # "opens" /\ Spend(b) => left'["opens"] = left["opens"]
  BY DEF Spend, TypeOK, Budgets
<1>3. ASSUME Call PROVE Numbered'
  <2>1. CASE OpenSockets
    BY <1>1, <1>2, <2>1 DEF OpenSockets, table, queues, knowledge, Budgets
  <2>2. CASE BeginShutdown
    BY <1>1, <2>2 DEF BeginShutdown, table, queues, knowledge
  <2>3. CASE Receive
    BY <2>3, KnownIfTaken, NumberedKept DEF Receive, table
  <2>4. ASSUME NEW p, \/ NotifyAndFlagForShutdown(p) \/ CloseConnection(p) \/ GetSocket(p)
        PROVE  Numbered'
    BY <1>1, <1>2, <2>4
    DEF NotifyAndFlagForShutdown, CloseConnection, GetSocket, table, knowledge, Budgets
  <2> QED
    BY <1>3, <2>1, <2>2, <2>3, <2>4 DEF Call
<1>4. ASSUME GoOn PROVE Numbered'
  <2>1. CASE Started \/ SocketsGot \/ NotifyNext \/ AllNotified \/ StopWaiting
             \/ ResetActiveSystemList \/ EndThreads
    BY <1>1, <2>1 DEF Started, SocketsGot, NotifyNext, AllNotified, StopWaiting,
                      ResetActiveSystemList, EndThreads, table, queues, knowledge
  <2>2. CASE ReturnConnectionLost
    <3>1. CASE ConnectedTo(target) = {}
      BY <1>1, <2>2, <3>1 DEF ReturnConnectionLost, table, knowledge
    <3>2. CASE ConnectedTo(target) # {}
      <4>1. PICK s \in Slot : packetReturnQueue' = Push(packetReturnQueue, Packet("END", s))
        BY <2>2, <3>2 DEF ReturnConnectionLost, ConnectedTo, SlotsOf
      <4>2. UNCHANGED <<slots, begun, ended, bufferedPackets, left>>
        BY <2>2 DEF ReturnConnectionLost, table, knowledge
      <4>3. \A c \in Connection : Known(c)' => Known(c)
        BY <4>1, <4>2, KnownIfPushed
      <4> QED
        BY <4>2, <4>3, NumberedKept
    <3> QED
      BY <3>1, <3>2
  <2>3. CASE StartThread \/ FinishShutdown
    <3>1. /\ \A s \in Slot : slots'[s].connection = NoConnection
          /\ bufferedPackets' = <<>> /\ UNCHANGED left
          /\ begun' \cup ended' \subseteq begun \cup ended
          /\ packetReturnQueue' = packetReturnQueue \/ packetReturnQueue' = <<>>
      BY <2>3 DEF StartThread, FinishShutdown, ClearAll, Unused, knowledge
    <3>2. \A c \in Connection : Known(c)' => Known(c)
      BY <3>1, KnownStays
    <3> QED
      BY <3>1, <3>2, NumberedKept
  <2> QED
    BY <1>4, <2>1, <2>2, <2>3 DEF GoOn
<1>5. ASSUME Network PROVE Numbered'
  <2>1. CASE Begin \/ Check \/ NextSystem \/ UpToDate
    BY <1>1, <2>1 DEF Begin, Check, NextSystem, UpToDate, table, queues, knowledge
  <2>2. CASE ProcessNetworkPacket
    BY <2>2, NumberedOfProcess
  <2>3. ASSUME NEW p, CloseConnectionInternal(p)
        PROVE  \A s \in Slot : slots'[s].connection = slots[s].connection
    BY <2>3 DEF CloseConnectionInternal, table, TypeOK
  <2>4. CASE BufferedCommand
    <3>1. \A s \in Slot : slots'[s].connection = slots[s].connection
      <4>1. \A p : Flag(p) => \A s \in Slot : slots'[s].connection = slots[s].connection
        BY DEF Flag, TypeOK
      <4> QED
        BY <2>3, <2>4, <4>1 DEF BufferedCommand, CarryOut, table
    <3> QED
      BY <1>1, <2>4, <3>1 DEF BufferedCommand, knowledge
  <2>5. CASE FreeSlot
    BY <1>1, <2>3, <2>5 DEF FreeSlot, queues, knowledge
  <2>6. CASE Drop
    <3>1. updating \in Slot
      BY <2>6 DEF Drop, TypeOK
    <3>2. /\ UNCHANGED <<slots, begun, ended, bufferedPackets>>
          /\ left'["opens"] = left["opens"]
      BY <1>2, <2>6 DEF Drop, table, knowledge, Budgets
    <3>3. CASE UNCHANGED packetReturnQueue
      BY <1>1, <3>2, <3>3
    <3>4. CASE packetReturnQueue' = Push(packetReturnQueue, Packet("END", updating))
      <4>1. \A c \in Connection : Known(c)' => Known(c)
        BY <3>1, <3>2, <3>4, KnownIfPushed
      <4> QED
        BY <3>2, <4>1, NumberedKept
    <3> QED
      BY <2>6, <3>3, <3>4 DEF Drop
  <2>7. CASE Message
    <3>1. updating \in Slot
      BY <2>7 DEF Message, TypeOK
    <3>2. /\ UNCHANGED <<begun, ended, bufferedPackets>> /\ left'["opens"] = left["opens"]
          /\ \A s \in Slot : slots'[s].connection = slots[s].connection
      BY <1>2, <2>7 DEF Message, knowledge, Budgets, TypeOK
    <3>3. CASE UNCHANGED packetReturnQueue
      BY <1>1, <3>2, <3>3
    <3>4. CASE \E type \in {"NEW", "DATA"} :
                 packetReturnQueue' = Push(packetReturnQueue, Packet(type, updating))
      <4>1. \A c \in Connection : Known(c)' => Known(c)
        BY <3>1, <3>2, <3>4, KnownIfPushed
      <4> QED
        BY <3>2, <4>1, NumberedKept
    <3> QED
      BY <2>7, <3>3, <3>4 DEF Message
  <2> QED
    BY <1>5, <2>1, <2>2, <2>4, <2>5, <2>6, <2>7 DEF Network
<1>6. CASE \E p \in Peer : Arrive(p)
  BY <1>6, NumberedOfArrive
<1>7. CASE UNCHANGED vars
  BY <1>1, <1>7 DEF vars, table, queues, knowledge
<1> QED
  BY <1>3, <1>4, <1>5, <1>6, <1>7 DEF Next

----------------------------------------------------------------------------
(* Ends are in order *)

\* What is told of ends stays when no packet is queued and no connection gets
\* a slot.
LEMMA EndsStay ==
  ASSUME EndsInOrder, UNCHANGED <<packetReturnQueue, ended>>, silenced \subseteq silenced',
         endThreads => endThreads',
         \A s \in Slot : slots'[s].isActive =>
           slots[s].isActive /\ slots'[s].connection = slots[s].connection,
         UNCHANGED <<network, updating>> \/ network # "drops"
  PROVE  EndsInOrder'
<1>1. \A c : Told(c)' <=> Told(c)
  BY DEF Told, InQueue, Item
<1> QED
  BY <1>1 DEF EndsInOrder, Item, IsActive, AddressOf

\* A packet other than an end is of a slot that is not about to be freed; an end
\* is of the slot that is, or of a silenced address.
LEMMA EndsIfPushed ==
  ASSUME TypeOK, TableTrue, Numbered, EndsInOrder,
         NEW s \in Slot, NEW type \in {"NEW", "DATA", "END"},
         packetReturnQueue' = Push(packetReturnQueue, Packet(type, s)),
         UNCHANGED <<ended, silenced, endThreads>>,
         \A t \in Slot : /\ slots'[t].isActive = slots[t].isActive
                         /\ slots'[t].connection = slots[t].connection,
         UNCHANGED <<network, updating>> \/ network # "drops",
         type # "END" => IsActive(s) /\ network # "drops",
         type = "END" => \/ AddressOf(s) \in silenced
                         \/ network' = "drops" /\ updating' = s
  PROVE  EndsInOrder'
<1> DEFINE n == Len(packetReturnQueue)
<1>1. Packet(type, s) \in PacketType /\ Packet(type, s) = [type |-> type, connection |-> slots[s].connection]
  BY DEF Packet, PacketType, TypeOK
<1>2. /\ n \in Nat /\ DOMAIN packetReturnQueue = 1..n
      /\ DOMAIN packetReturnQueue' = 1..n + 1
      /\ \A i \in 1..n : Item(i)' = Item(i)
      /\ packetReturnQueue'[n + 1].item = [type |-> type, connection |-> slots[s].connection]
      /\ \A tp, c : InQueue(tp, c)' <=>
           InQueue(tp, c) \/ Packet(type, s) = [type |-> tp, connection |-> c]
  BY <1>1, PacketPushed
<1>3. \A i \in 1..n + 1 : i \in 1..n \/ i = n + 1
  BY <1>2
<1>4. ASSUME NEW c
      PROVE  Told(c)' <=> Told(c) \/ (type = "END" /\ c = slots[s].connection)
  <2>1. [type |-> type, connection |-> slots[s].connection] = [type |-> "END", connection |-> c]
          <=> type = "END" /\ c = slots[s].connection
    <3> DEFINE x == [type |-> type, connection |-> slots[s].connection]
               y == [type |-> "END", connection |-> c]
    <3>1. x = y => x.type = y.type /\ x.connection = y.connection
      OBVIOUS
    <3> QED
      BY <3>1
  <2>2. InQueue("END", c)' <=> InQueue("END", c) \/ (type = "END" /\ c = slots[s].connection)
    BY <1>1, <1>2, <2>1
  <2> QED
    BY <2>2 DEF Told
<1>5. SUFFICES ASSUME ~endThreads PROVE EndsInOrder'
  BY DEF EndsInOrder
<1>6. \A i \in 1..n : Item(i).type = "END" => Told(Item(i).connection)
  <2>1. \A i \in 1..n : Item(i) \in PacketType
    <3>1. packetReturnQueue \in Seq([item : PacketType, run : Nat])
      BY DEF TypeOK, PacketType, Queued
    <3>2. \A i \in 1..n : packetReturnQueue[i] \in [item : PacketType, run : Nat]
      BY <3>1, ElementOfSeq
    <3> QED
      BY <3>2 DEF Item
  <2> QED
    BY <1>2, <2>1 DEF Told, InQueue, PacketType
<1>7. ASSUME type # "END" PROVE ~Told(slots[s].connection) \/ AddressOf(s) \in silenced
  BY <1>5, <1>7 DEF EndsInOrder
<1>8. ASSUME NEW i \in 1..n + 1, NEW j \in 1..n + 1, i < j, Item(i)'.type = "END",
             Item(j)'.connection = Item(i)'.connection
      PROVE  Item(j)'.type = "END" \/ Item(j)'.connection.address \in silenced
  <2>1. i \in 1..n /\ Item(i)' = Item(i)
    BY <1>2, <1>3, <1>8
  <2>2. CASE j \in 1..n
    BY <1>2, <1>5, <1>8, <2>1, <2>2 DEF EndsInOrder
  <2>3. CASE j = n + 1
    <3>1. Item(j)' = [type |-> type, connection |-> slots[s].connection]
      BY <1>2, <2>3 DEF Item
    <3>2. type # "END" => Told(slots[s].connection)
      BY <1>6, <1>8, <2>1, <3>1
    <3> QED
      BY <1>7, <3>1, <3>2 DEF AddressOf
  <2> QED
    BY <1>3, <2>2, <2>3
<1>9. ASSUME NEW i \in 1..n + 1, Item(i)'.type # "END", Item(i)'.connection \in ended
      PROVE  Item(i)'.connection.address \in silenced
  <2>1. CASE i \in 1..n
    BY <1>2, <1>5, <1>9, <2>1 DEF EndsInOrder
  <2>2. CASE i = n + 1
    <3>1. Item(i)' = [type |-> type, connection |-> slots[s].connection]
      BY <1>2, <2>2 DEF Item
    <3> QED
      BY <1>7, <1>9, <3>1 DEF AddressOf, Told
  <2> QED
    BY <1>3, <2>1, <2>2
<1>10. ASSUME NEW t \in Slot, IsActive(t), Told(slots[t].connection)', AddressOf(t) \notin silenced
       PROVE  network' = "drops" /\ updating' = t
  <2>1. slots'[t].connection = slots[t].connection
    OBVIOUS
  <2>2. Told(slots[t].connection) \/ (type = "END" /\ slots[t].connection = slots[s].connection)
    BY <1>4, <1>10, <2>1
  <2>3. CASE Told(slots[t].connection)
    BY <1>5, <1>10, <2>3 DEF EndsInOrder
  <2>4. CASE type = "END" /\ slots[t].connection = slots[s].connection
    <3>1. slots[t].connection # NoConnection
      BY <1>10 DEF TableTrue, OneSlotEach, Connection, NoConnection
    <3>2. t = s
      BY <2>4, <3>1 DEF Numbered
    <3> QED
      BY <1>10, <2>4, <3>2
  <2> QED
    BY <2>2, <2>3, <2>4
<1>11. \A t \in Slot : (IsActive(t)' <=> IsActive(t)) /\ AddressOf(t)' = AddressOf(t)
  BY DEF IsActive, AddressOf
<1> HIDE DEF n
<1> QED
  BY <1>2, <1>5, <1>8, <1>9, <1>10, <1>11 DEF EndsInOrder

\* The user reads packets in their order, the end last.
LEMMA EndsOfReceive ==
  ASSUME TypeOK, EndsInOrder, Receive
  PROVE  EndsInOrder'
<1> DEFINE n == Len(packetReturnQueue)
<1>1. /\ packetReturnQueue # <<>> /\ packetReturnQueue' = Tail(packetReturnQueue)
      /\ UNCHANGED <<slots, silenced, endThreads, network, updating>>
  BY DEF Receive, table, flags
<1>2. /\ n \in Nat /\ DOMAIN packetReturnQueue = 1..n
      /\ DOMAIN packetReturnQueue' = 1..n - 1
      /\ \A i \in 1..n - 1 : i + 1 \in 1..n /\ packetReturnQueue'[i].item = Item(i + 1)
      /\ 1 \in 1..n /\ Item(1) = Head(packetReturnQueue).item /\ Item(1) \in PacketType
      /\ \A type, c : InQueue(type, c) <=>
           InQueue(type, c)' \/ Item(1) = [type |-> type, connection |-> c]
  BY <1>1, PacketTaken
<1>3. \A i \in 1..n - 1 : Item(i)' = Item(i + 1)
  BY <1>2 DEF Item
<1>4. ended' = ended \cup (IF Item(1).type = "END" THEN {Item(1).connection} ELSE {})
  BY <1>2 DEF Receive
<1>5. \A c : Item(1) = [type |-> "END", connection |-> c]
        <=> Item(1).type = "END" /\ c = Item(1).connection
  BY <1>2 DEF PacketType
<1>6. \A c : Told(c)' <=> Told(c)
  BY <1>2, <1>4, <1>5 DEF Told
<1>7. SUFFICES ASSUME ~endThreads PROVE EndsInOrder'
  BY <1>1 DEF EndsInOrder
<1>8. ASSUME NEW i \in 1..n - 1, NEW j \in 1..n - 1, i < j, Item(i)'.type = "END",
             Item(j)'.connection = Item(i)'.connection
      PROVE  Item(j)'.type = "END" \/ Item(j)'.connection.address \in silenced
  <2>1. i + 1 \in 1..n /\ j + 1 \in 1..n /\ i + 1 < j + 1
    BY <1>2, <1>8
  <2> QED
    BY <1>2, <1>3, <1>7, <1>8, <2>1 DEF EndsInOrder
<1>9. ASSUME NEW i \in 1..n - 1, Item(i)'.type # "END", Item(i)'.connection \in ended'
      PROVE  Item(i)'.connection.address \in silenced
  <2>1. i + 1 \in 1..n /\ 1 < i + 1 /\ Item(i)' = Item(i + 1)
    BY <1>2, <1>3
  <2>2. CASE Item(i + 1).connection \in ended
    BY <1>2, <1>7, <1>9, <2>1, <2>2 DEF EndsInOrder
  <2>3. CASE Item(1).type = "END" /\ Item(i + 1).connection = Item(1).connection
    BY <1>2, <1>7, <1>9, <2>1, <2>3 DEF EndsInOrder
  <2> QED
    BY <1>4, <1>9, <2>1, <2>2, <2>3
<1>10. \A t \in Slot : IsActive(t)' /\ Told(slots[t].connection)' /\ AddressOf(t)' \notin silenced
         => network = "drops" /\ updating = t
  <2>1. \A t \in Slot : Told(slots[t].connection)' <=> Told(slots[t].connection)
    BY <1>1, <1>6
  <2> QED
    BY <1>1, <1>7, <2>1 DEF EndsInOrder, IsActive, AddressOf
<1> HIDE DEF n
<1> QED
  BY <1>1, <1>2, <1>7, <1>8, <1>9, <1>10 DEF EndsInOrder

\* What the network thread queues is of a connection whose end it has not
\* told.
LEMMA EndsOfProcess ==
  ASSUME TypeOK, Numbered, EndsInOrder, ProcessNetworkPacket
  PROVE  EndsInOrder'
<1>1. /\ UNCHANGED <<packetReturnQueue, ended, silenced, endThreads, updating>>
      /\ network = "datagrams"
  BY DEF ProcessNetworkPacket, flags, knowledge
<1>2. CASE UNCHANGED table
  BY <1>1, <1>2, EndsStay DEF table
<1>3. ASSUME bufferedPackets # <<>>,
             NEW s \in Slot,
             slots' = [slots EXCEPT ![s] = [isActive |-> TRUE,
                                            connection |-> Head(bufferedPackets).item,
                                            connectMode |-> "UNVERIFIED_SENDER"]]
      PROVE  EndsInOrder'
  <2>0. PICK new : new = Head(bufferedPackets).item
    OBVIOUS
  <2>1. new \in Connection /\ Arriving(new)
    BY <1>3, <2>0, TailProperties DEF TypeOK, Arriving
  <2>2. ~Told(new)
    BY <2>1 DEF Numbered, Known, Told, InQueue
  <2>3. \A c : Told(c)' <=> Told(c)
    BY <1>1 DEF Told, InQueue, Item
  <2>4. \A t \in Slot : IF t = s THEN slots'[t].connection = new ELSE slots'[t] = slots[t]
    BY <1>3, <2>0 DEF TypeOK
  <2>5. ~endThreads => \A t \in Slot :
          slots'[t].isActive /\ Told(slots'[t].connection) /\ slots'[t].connection.address \notin silenced
            => FALSE
    BY <1>1, <2>2, <2>4 DEF EndsInOrder, IsActive, AddressOf
  <2>6. \A t \in Slot : Told(slots[t].connection)' <=> Told(slots'[t].connection)
    BY <1>1 DEF Told, InQueue, Item
  <2> QED
    BY <1>1, <2>5, <2>6 DEF EndsInOrder, IsActive, AddressOf, Item
<1> QED
  BY <1>2, <1>3 DEF ProcessNetworkPacket, AssignSystemAddressToRemoteSystemList, table

\* The slot whose end has been told is freed in the same cycle.
LEMMA EndsOfFreeSlot ==
  ASSUME TypeOK, EndsInOrder, FreeSlot
  PROVE  EndsInOrder'
<1>1. /\ UNCHANGED <<packetReturnQueue, ended, silenced, endThreads>>
      /\ network = "drops" /\ updating \in Slot
  BY DEF FreeSlot, flags, queues, knowledge, TypeOK
<1>2. SUFFICES ASSUME ~endThreads PROVE EndsInOrder'
  BY <1>1 DEF EndsInOrder
<1>3. \A t \in Slot : slots'[t].isActive =>
        slots[t].isActive /\ slots'[t].connection = slots[t].connection /\ t # updating
  <2>1. CASE SlotsOf(AddressOf(updating)) = {}
    <3>1. ~slots[updating].isActive
      BY <1>1, <2>1 DEF SlotsOf, IsActive
    <3>2. UNCHANGED slots
      BY <2>1 DEF FreeSlot, CloseConnectionInternal, table
    <3> QED
      BY <3>1, <3>2
  <2>2. CASE slots' = [s \in Slot |->
                [slots[s] EXCEPT !.isActive = @ /\ AddressOf(s) # AddressOf(updating)]]
    BY <2>2 DEF TypeOK
  <2> QED
    BY <1>2, <2>1, <2>2 DEF FreeSlot, CloseConnectionInternal
<1>4. \A c : Told(c)' <=> Told(c)
  BY <1>1 DEF Told, InQueue, Item
<1>5. \A t \in Slot : slots'[t].isActive /\ Told(slots'[t].connection)
        => slots'[t].connection.address \in silenced
  BY <1>2, <1>3 DEF EndsInOrder, IsActive, AddressOf
<1>6. \A t \in Slot : Told(slots[t].connection)' <=> Told(slots'[t].connection)
  BY <1>1 DEF Told, InQueue, Item
<1> QED
  BY <1>1, <1>2, <1>5, <1>6 DEF EndsInOrder, IsActive, AddressOf, Item

\* Every step keeps the order.
LEMMA EndsOfStep ==
  ASSUME TypeOK, Places, TableTrue, Idle, ClosesSilenced, Numbered, EndsInOrder, [Next]_vars
  PROVE  EndsInOrder'
<1>1. ASSUME Call PROVE EndsInOrder'
  <2>1. CASE Receive
    BY <2>1, EndsOfReceive
  <2>2. CASE OpenSockets \/ BeginShutdown
    BY <2>2, EndsStay DEF OpenSockets, BeginShutdown, table, queues, knowledge, flags
  <2>3. ASSUME NEW p, \/ NotifyAndFlagForShutdown(p) \/ CloseConnection(p) \/ GetSocket(p)
        PROVE  EndsInOrder'
    BY <2>3, EndsStay
    DEF NotifyAndFlagForShutdown, CloseConnection, GetSocket, table, knowledge, flags
  <2> QED
    BY <1>1, <2>1, <2>2, <2>3 DEF Call
<1>2. ASSUME GoOn PROVE EndsInOrder'
  <2>1. CASE Started \/ SocketsGot \/ NotifyNext \/ AllNotified \/ StopWaiting
             \/ ResetActiveSystemList \/ EndThreads
    BY <2>1, EndsStay DEF Started, SocketsGot, NotifyNext, AllNotified, StopWaiting,
                          ResetActiveSystemList, EndThreads, table, queues, knowledge, flags
  <2>2. CASE ReturnConnectionLost
    <3>1. CASE ConnectedTo(target) = {}
      BY <2>2, <3>1, EndsStay DEF ReturnConnectionLost, table, knowledge, flags
    <3>2. CASE ConnectedTo(target) # {}
      <4>1. PICK s \in Slot : /\ packetReturnQueue' = Push(packetReturnQueue, Packet("END", s))
                              /\ AddressOf(s) = target
        BY <2>2, <3>2 DEF ReturnConnectionLost, ConnectedTo, SlotsOf
      <4>2. /\ UNCHANGED <<slots, ended, silenced, endThreads, network, updating>>
            /\ AddressOf(s) \in silenced
        BY <2>2, <4>1 DEF ReturnConnectionLost, table, knowledge, flags, ClosesSilenced
      <4> QED
        BY <4>1, <4>2, EndsIfPushed
    <3> QED
      BY <3>1, <3>2
  <2>3. CASE StartThread
    <3>1. /\ packetReturnQueue' = <<>> /\ ended' = {}
          /\ \A s \in Slot : ~slots'[s].isActive
      BY <2>3 DEF StartThread, Idle, knowledge, Unused
    <3> QED
      BY <3>1 DEF EndsInOrder, IsActive
  <2>4. CASE FinishShutdown
    BY <2>4 DEF FinishShutdown, Places, EndsInOrder
  <2> QED
    BY <1>2, <2>1, <2>2, <2>3, <2>4 DEF GoOn
<1>3. ASSUME Network PROVE EndsInOrder'
  <2>1. CASE Begin \/ Check \/ NextSystem \/ UpToDate
    BY <2>1, EndsStay DEF Begin, Check, NextSystem, UpToDate, table, queues, knowledge, flags
  <2>2. CASE ProcessNetworkPacket
    BY <2>2, EndsOfProcess
  <2>3. CASE BufferedCommand
    <3>1. \A s \in Slot : slots'[s].isActive =>
            slots[s].isActive /\ slots'[s].connection = slots[s].connection
      <4>1. \A p : CloseConnectionInternal(p) => \A s \in Slot : slots'[s].isActive =>
              slots[s].isActive /\ slots'[s].connection = slots[s].connection
        BY DEF CloseConnectionInternal, table, TypeOK
      <4>2. \A p : Flag(p) => \A s \in Slot : slots'[s].isActive =>
              slots[s].isActive /\ slots'[s].connection = slots[s].connection
        BY DEF Flag, TypeOK
      <4> QED
        BY <2>3, <4>1, <4>2 DEF BufferedCommand, CarryOut, table
    <3> QED
      BY <2>3, <3>1, EndsStay DEF BufferedCommand, knowledge, flags
  <2>4. CASE Drop
    <3>1. /\ updating \in Slot
          /\ UNCHANGED <<slots, ended, silenced, endThreads, updating>>
          /\ network = "updates" /\ network' = "drops"
      BY <2>4 DEF Drop, TypeOK, table, knowledge, flags
    <3>2. CASE UNCHANGED packetReturnQueue
      BY <3>1, <3>2, EndsStay
    <3>3. CASE packetReturnQueue' = Push(packetReturnQueue, Packet("END", updating))
      BY <3>1, <3>3, EndsIfPushed
    <3> QED
      BY <2>4, <3>2, <3>3 DEF Drop
  <2>5. CASE FreeSlot
    BY <2>5, EndsOfFreeSlot
  <2>6. CASE Message
    <3>1. /\ updating \in Slot /\ IsActive(updating)
          /\ UNCHANGED <<ended, silenced, endThreads, network, updating>>
          /\ network = "updates"
          /\ \A s \in Slot : /\ slots'[s].isActive = slots[s].isActive
                            /\ slots'[s].connection = slots[s].connection
      BY <2>6 DEF Message, TypeOK, knowledge, flags
    <3>2. CASE UNCHANGED packetReturnQueue
      BY <3>1, <3>2, EndsStay
    <3>3. CASE \E type \in {"NEW", "DATA"} :
                 packetReturnQueue' = Push(packetReturnQueue, Packet(type, updating))
      BY <3>1, <3>3, EndsIfPushed
    <3> QED
      BY <2>6, <3>2, <3>3 DEF Message
  <2> QED
    BY <1>3, <2>1, <2>2, <2>3, <2>4, <2>5, <2>6 DEF Network
<1>4. CASE \E p \in Peer : Arrive(p)
  BY <1>4, EndsStay DEF Arrive, table, knowledge, flags
<1>5. CASE UNCHANGED vars
  BY <1>5, EndsStay DEF vars, table, queues, knowledge, flags
<1> QED
  BY <1>1, <1>2, <1>3, <1>4, <1>5 DEF Next

----------------------------------------------------------------------------
(* Beginnings are kept until an end is told *)

\* What has raced stays raced.
LEMMA RacedStays ==
  ASSUME TypeOK,
         \/ \E p : CloseConnectionInternal(p)
         \/ \E c : AssignSystemAddressToRemoteSystemList(c)
  PROVE  raced => raced'
<1>1. \A list : ListBecomes(list) => (raced => raced')
  BY DEF ListBecomes, TypeOK
<1>2. \A p : RemoveFromActiveSystemList(p) => (raced => raced')
  BY <1>1 DEF RemoveFromActiveSystemList
<1> QED
  BY <1>1, <1>2
  DEF CloseConnectionInternal, AssignSystemAddressToRemoteSystemList, AddToActiveSystemList, table

\* What is told of beginnings stays when no packet is queued and no slot freed
\* ...
LEMMA BeginningsStay ==
  ASSUME BeginningsKept, UNCHANGED <<packetReturnQueue, begun, ended>>,
         silenced \subseteq silenced', raced => raced',
         \A s \in Slot :
           /\ slots'[s].isActive = slots[s].isActive
           /\ slots'[s].connection = slots[s].connection
           /\ \/ slots'[s].connectMode = slots[s].connectMode
              \/ IsAnnounced(slots'[s].connectMode),
         network' = "drops" => \/ network = "drops" /\ UNCHANGED <<updating, slots>>
                               \/ ~IsAnnounced(slots'[updating'].connectMode)
  PROVE  BeginningsKept'
<1>1. \A c : (Begun(c)' <=> Begun(c)) /\ (Told(c)' <=> Told(c))
  BY DEF Begun, Told, InQueue, Item
<1>2. SUFFICES ASSUME ~raced' PROVE BeginningsKept'
  BY DEF BeginningsKept
<1>3. \A c : Begun(c)' /\ c.address \notin silenced' =>
        Told(c)' \/ \E s \in Slot : IsActive(s)' /\ slots'[s].connection = c
  BY <1>1, <1>2 DEF BeginningsKept, IsActive
<1>4. \A s \in Slot : IsActive(s)' /\ Begun(slots[s].connection)'
        => IsAnnounced(slots'[s].connectMode)
  <2>1. \A s \in Slot : Begun(slots[s].connection)' <=> Begun(slots[s].connection)
    BY DEF Begun, InQueue, Item
  <2> QED
    BY <1>2, <2>1 DEF BeginningsKept, IsActive
<1>5. network' = "drops" /\ IsAnnounced(slots'[updating'].connectMode)
        => Told(slots[updating].connection)'
  <2>1. UNCHANGED <<updating, slots>>
          => (Told(slots[updating].connection)' <=> Told(slots[updating].connection))
    BY DEF Told, InQueue, Item
  <2> QED
    BY <1>2, <2>1 DEF BeginningsKept
<1>6. \A mode : IsAnnounced(mode)' <=> IsAnnounced(mode)
  BY DEF IsAnnounced
<1> QED
  BY <1>2, <1>3, <1>4, <1>5 DEF BeginningsKept, IsAnnounced

\* ... or when one is queued for a connection that has its slot.
LEMMA BeginningsIfPushed ==
  ASSUME TypeOK, TableTrue, Numbered, BeginningsKept,
         NEW s \in Slot, NEW type \in {"NEW", "DATA", "END"},
         packetReturnQueue' = Push(packetReturnQueue, Packet(type, s)),
         UNCHANGED <<begun, ended, silenced, raced>>,
         \A t \in Slot :
           /\ slots'[t].isActive = slots[t].isActive
           /\ slots'[t].connection = slots[t].connection
           /\ \/ slots'[t].connectMode = slots[t].connectMode
              \/ IsAnnounced(slots'[t].connectMode),
         network' = "drops" => \/ network = "drops" /\ UNCHANGED <<updating, slots>>
                               \/ type = "END" /\ updating' = s,
         type = "NEW" => IsActive(s) /\ IsAnnounced(slots'[s].connectMode)
  PROVE  BeginningsKept'
<1>1. /\ Packet(type, s) \in PacketType
      /\ Packet(type, s) = [type |-> type, connection |-> slots[s].connection]
  BY DEF Packet, PacketType, TypeOK
<1>2. \A tp, c : InQueue(tp, c)' <=>
        InQueue(tp, c) \/ Packet(type, s) = [type |-> tp, connection |-> c]
  BY <1>1, PacketPushed
<1>3. ASSUME NEW tp, NEW c
      PROVE  InQueue(tp, c)' <=> InQueue(tp, c) \/ (tp = type /\ c = slots[s].connection)
  <2>1. Packet(type, s) = [type |-> tp, connection |-> c]
          <=> tp = type /\ c = slots[s].connection
    <3> DEFINE y == [type |-> tp, connection |-> c]
    <3>1. Packet(type, s) = y => Packet(type, s).type = y.type
                                 /\ Packet(type, s).connection = y.connection
      OBVIOUS
    <3> QED
      BY <1>1, <3>1
  <2> QED
    BY <1>2, <2>1
<1>4. \A c : /\ Begun(c)' <=> Begun(c) \/ (type = "NEW" /\ c = slots[s].connection)
             /\ Told(c)' <=> Told(c) \/ (type = "END" /\ c = slots[s].connection)
  BY <1>3 DEF Begun, Told
<1>5. SUFFICES ASSUME ~raced PROVE BeginningsKept'
  BY DEF BeginningsKept
<1>6. ASSUME NEW c, Begun(c)', c.address \notin silenced
      PROVE  Told(c)' \/ \E t \in Slot : IsActive(t)' /\ slots'[t].connection = c
  BY <1>4, <1>5, <1>6 DEF BeginningsKept, IsActive
<1>7. ASSUME NEW t \in Slot, IsActive(t)', Begun(slots[t].connection)'
      PROVE  IsAnnounced(slots'[t].connectMode)
  <2>1. /\ IsActive(t) /\ slots'[t].connection = slots[t].connection
        /\ slots[t].connection # NoConnection
    BY <1>7 DEF IsActive, TableTrue, OneSlotEach, Connection, NoConnection
  <2>2. Begun(slots[t].connection) \/ (type = "NEW" /\ slots[t].connection = slots[s].connection)
    BY <1>4, <1>7, <2>1
  <2>3. CASE Begun(slots[t].connection)
    BY <1>5, <2>1, <2>3 DEF BeginningsKept
  <2>4. CASE type = "NEW" /\ slots[t].connection = slots[s].connection
    BY <2>1, <2>4 DEF Numbered
  <2> QED
    BY <2>2, <2>3, <2>4
<1>8. ASSUME network' = "drops", IsAnnounced(slots'[updating'].connectMode)
      PROVE  Told(slots[updating].connection)'
  <2>1. CASE network = "drops" /\ UNCHANGED <<updating, slots>>
    <3>1. Told(slots[updating].connection)
      BY <1>5, <1>8, <2>1 DEF BeginningsKept
    <3> QED
      BY <1>4, <2>1, <3>1
  <2>2. CASE type = "END" /\ updating' = s
    <3>1. slots'[updating'].connection = slots[s].connection
      BY <2>2
    <3> QED
      BY <1>4, <2>2, <3>1
  <2> QED
    BY <1>8, <2>1, <2>2
<1> QED
  BY <1>5, <1>6, <1>7, <1>8 DEF BeginningsKept, IsAnnounced

\* Reading a packet changes neither slot nor mode.
LEMMA BeginningsOfReceive ==
  ASSUME TypeOK, BeginningsKept, Receive
  PROVE  BeginningsKept'
<1>1. /\ packetReturnQueue # <<>> /\ packetReturnQueue' = Tail(packetReturnQueue)
      /\ UNCHANGED <<slots, raced, silenced, network, updating>>
  BY DEF Receive, table
<1>2. /\ Item(1) = Head(packetReturnQueue).item /\ Item(1) \in PacketType
      /\ \A type, c : InQueue(type, c) <=>
           InQueue(type, c)' \/ Item(1) = [type |-> type, connection |-> c]
  BY <1>1, PacketTaken
<1>3. /\ begun' = begun \cup (IF Item(1).type = "NEW" THEN {Item(1).connection} ELSE {})
      /\ ended' = ended \cup (IF Item(1).type = "END" THEN {Item(1).connection} ELSE {})
  BY <1>2 DEF Receive
<1>4. \A type, c : Item(1) = [type |-> type, connection |-> c]
        <=> Item(1).type = type /\ c = Item(1).connection
  BY <1>2 DEF PacketType
<1>5. \A c : (Told(c)' <=> Told(c)) /\ (Begun(c)' <=> Begun(c))
  BY <1>2, <1>3, <1>4 DEF Told, Begun
<1>6. /\ \A t \in Slot : Begun(slots[t].connection)' <=> Begun(slots[t].connection)
      /\ Told(slots[updating].connection)' <=> Told(slots[updating].connection)
  BY <1>1, <1>5
<1> QED
  BY <1>1, <1>5, <1>6 DEF BeginningsKept, IsActive, IsAnnounced

\* A connection is announced as its slot takes a mode whose end will be.
LEMMA BeginningsOfProcess ==
  ASSUME TypeOK, Numbered, BeginningsKept, ProcessNetworkPacket
  PROVE  BeginningsKept'
<1>1. /\ UNCHANGED <<packetReturnQueue, begun, ended, silenced, updating>>
      /\ network' \in {"datagrams", "commands"}
  BY DEF ProcessNetworkPacket, knowledge
<1>2. CASE UNCHANGED table
  BY <1>1, <1>2, BeginningsStay DEF table
<1>3. ASSUME bufferedPackets # <<>>,
             AssignSystemAddressToRemoteSystemList(Head(bufferedPackets).item),
             NEW n \in Slot, ~IsActive(n),
             slots' = [slots EXCEPT ![n] = [isActive |-> TRUE,
                                            connection |-> Head(bufferedPackets).item,
                                            connectMode |-> "UNVERIFIED_SENDER"]]
      PROVE  BeginningsKept'
  <2>0. PICK new : new = Head(bufferedPackets).item
    OBVIOUS
  <2>1. new \in Connection /\ Arriving(new)
    BY <1>3, <2>0, TailProperties DEF TypeOK, Arriving
  <2>2. ~Begun(new)
    BY <2>1 DEF Numbered, Known, Begun, InQueue
  <2>3. \A c : (Told(c)' <=> Told(c)) /\ (Begun(c)' <=> Begun(c))
    BY <1>1 DEF Told, Begun, InQueue, Item
  <2>4. \A t \in Slot : IF t = n THEN slots'[t].connection = new ELSE slots'[t] = slots[t]
    BY <1>3, <2>0 DEF TypeOK
  <2>5. raced => raced'
    BY <1>3, RacedStays
  <2>6. SUFFICES ASSUME ~raced' PROVE BeginningsKept'
    BY DEF BeginningsKept
  <2>7. \A c : Begun(c)' /\ c.address \notin silenced' =>
          Told(c)' \/ \E s \in Slot : IsActive(s)' /\ slots'[s].connection = c
    <3>1. \A c : Begun(c) /\ c.address \notin silenced =>
            Told(c) \/ \E s \in Slot : IsActive(s) /\ slots[s].connection = c
      BY <2>5, <2>6 DEF BeginningsKept
    <3>2. \A s \in Slot : IsActive(s) => slots'[s] = slots[s]
      BY <1>3, <2>4
    <3> QED
      BY <1>1, <2>3, <3>1, <3>2 DEF IsActive
  <2>8. \A t \in Slot : IsActive(t)' /\ Begun(slots[t].connection)'
          => IsAnnounced(slots'[t].connectMode)
    <3>1. \A t \in Slot : Begun(slots[t].connection)' <=> Begun(slots'[t].connection)
      BY <1>1 DEF Begun, InQueue, Item
    <3> QED
      BY <2>2, <2>4, <2>5, <2>6, <3>1 DEF BeginningsKept, IsActive
  <2> QED
    BY <1>1, <2>7, <2>8 DEF BeginningsKept, IsAnnounced
<1> QED
  BY <1>2, <1>3 DEF ProcessNetworkPacket, AssignSystemAddressToRemoteSystemList, table

\* Slots are freed that are of a silenced address, or whose end has been told.
LEMMA BeginningsIfClosed ==
  ASSUME TypeOK, BeginningsKept, NEW p, CloseConnectionInternal(p),
         UNCHANGED <<packetReturnQueue, begun, ended, silenced>>,
         network' # "drops",
         ASSUME ~raced, NEW t \in Slot, IsActive(t), AddressOf(t) = p
         PROVE  p \in silenced \/ (Begun(slots[t].connection) => Told(slots[t].connection))
  PROVE  BeginningsKept'
<1>1. \A c : (Told(c)' <=> Told(c)) /\ (Begun(c)' <=> Begun(c))
  BY DEF Told, Begun, InQueue, Item
<1>2. raced => raced'
  BY RacedStays
<1>3. CASE UNCHANGED <<table, user>>
  BY <1>2, <1>3, BeginningsStay DEF table
<1>4. CASE slots' = [s \in Slot |-> [slots[s] EXCEPT !.isActive = @ /\ AddressOf(s) # p]]
  <2>1. \A s \in Slot : /\ slots'[s].isActive = (slots[s].isActive /\ AddressOf(s) # p)
                       /\ slots'[s].connection = slots[s].connection
                       /\ slots'[s].connectMode = slots[s].connectMode
    BY <1>4 DEF TypeOK
  <2>2. SUFFICES ASSUME ~raced' PROVE BeginningsKept'
    BY DEF BeginningsKept
  <2>3. ASSUME NEW c, Begun(c), c.address \notin silenced, ~Told(c)
        PROVE  \E s \in Slot : IsActive(s)' /\ slots'[s].connection = c
    <3>1. PICK s \in Slot : IsActive(s) /\ slots[s].connection = c
      BY <1>2, <2>2, <2>3 DEF BeginningsKept
    <3>2. AddressOf(s) # p
      BY <1>2, <2>2, <2>3, <3>1 DEF AddressOf
    <3> QED
      BY <2>1, <3>1, <3>2 DEF IsActive
  <2>4. \A t \in Slot : IsActive(t)' /\ Begun(slots[t].connection)'
          => IsAnnounced(slots'[t].connectMode)
    <3>1. \A t \in Slot : Begun(slots[t].connection)' <=> Begun(slots'[t].connection)
      BY DEF Begun, InQueue, Item
    <3> QED
      BY <1>2, <2>1, <2>2, <3>1 DEF BeginningsKept, IsActive
  <2> QED
    BY <1>1, <2>2, <2>3, <2>4 DEF BeginningsKept, IsAnnounced
<1> QED
  BY <1>3, <1>4 DEF CloseConnectionInternal

\* What a buffered command closes at once has been silenced.
LEMMA BeginningsOfCommand ==
  ASSUME TypeOK, ClosesSilenced, BeginningsKept, BufferedCommand
  PROVE  BeginningsKept'
<1>1. /\ UNCHANGED <<packetReturnQueue, begun, ended, silenced>>
      /\ network' \in {"commands", "systems"}
  BY DEF BufferedCommand, knowledge
<1>2. CASE UNCHANGED table
  BY <1>1, <1>2, BeginningsStay DEF table
<1>3. ASSUME NEW p, Flag(p) PROVE BeginningsKept'
  <2>1. \A s \in Slot :
           /\ slots'[s].isActive = slots[s].isActive
           /\ slots'[s].connection = slots[s].connection
           /\ \/ slots'[s].connectMode = slots[s].connectMode
              \/ IsAnnounced(slots'[s].connectMode)
    BY <1>3 DEF Flag, TypeOK, IsAnnounced
  <2> QED
    BY <1>1, <1>3, <2>1, BeginningsStay DEF Flag
<1>4. ASSUME bufferedCommands # <<>>, NEW p, CloseConnectionInternal(p), p \in silenced
      PROVE  BeginningsKept'
  BY <1>1, <1>4, BeginningsIfClosed
<1>5. bufferedCommands # <<>> =>
        /\ 1 \in DOMAIN bufferedCommands
        /\ Head(bufferedCommands) = bufferedCommands[1]
  <2>1. bufferedCommands \in Queued(CommandType)
    BY DEF TypeOK, CommandType
  <2> QED
    BY <2>1, TailProperties
<1>6. bufferedCommands # <<>> /\ Head(bufferedCommands).item.command = "CLOSE"
        => Head(bufferedCommands).item.address \in silenced
  BY <1>5 DEF ClosesSilenced
<1> QED
  BY <1>2, <1>3, <1>4, <1>6 DEF BufferedCommand, CarryOut, table

\* A slot is freed after its end is told.
LEMMA BeginningsOfFreeSlot ==
  ASSUME TypeOK, TableTrue, BeginningsKept, FreeSlot
  PROVE  BeginningsKept'
<1>1. /\ UNCHANGED <<packetReturnQueue, begun, ended, silenced>>
      /\ network = "drops" /\ network' # "drops" /\ updating \in Slot
      /\ CloseConnectionInternal(AddressOf(updating))
  BY DEF FreeSlot, queues, knowledge, TypeOK
<1>2. ASSUME ~raced, NEW t \in Slot, IsActive(t), AddressOf(t) = AddressOf(updating)
      PROVE  Begun(slots[t].connection) => Told(slots[t].connection)
  <2>1. IsActive(updating)
    BY <1>1, <1>2 DEF TableTrue
  <2>2. t = updating
    BY <1>1, <1>2, <2>1 DEF TableTrue, OneSlotEach
  <2> QED
    BY <1>1, <1>2, <2>2 DEF BeginningsKept
<1> QED
  BY <1>1, <1>2, BeginningsIfClosed

\* Every step keeps it so.
LEMMA BeginningsOfStep ==
  ASSUME TypeOK, Places, TableTrue, Idle, ClosesSilenced, Numbered, BeginningsKept, [Next]_vars
  PROVE  BeginningsKept'
<1>1. ASSUME UNCHANGED <<packetReturnQueue, begun, ended, raced, slots>>,
             silenced \subseteq silenced',
             UNCHANGED <<network, updating>> \/ network' # "drops"
      PROVE  BeginningsKept'
  BY <1>1, BeginningsStay
<1>2. ASSUME Call PROVE BeginningsKept'
  <2>1. CASE Receive
    BY <2>1, BeginningsOfReceive
  <2>2. CASE OpenSockets \/ BeginShutdown
    BY <1>1, <2>2 DEF OpenSockets, BeginShutdown, table, queues, knowledge
  <2>3. ASSUME NEW p, \/ NotifyAndFlagForShutdown(p) \/ CloseConnection(p) \/ GetSocket(p)
        PROVE  BeginningsKept'
    BY <1>1, <2>3 DEF NotifyAndFlagForShutdown, CloseConnection, GetSocket, table, knowledge
  <2> QED
    BY <1>2, <2>1, <2>2, <2>3 DEF Call
<1>3. ASSUME GoOn PROVE BeginningsKept'
  <2>1. CASE Started \/ SocketsGot \/ NotifyNext \/ AllNotified \/ StopWaiting
             \/ ResetActiveSystemList \/ EndThreads
    BY <1>1, <2>1 DEF Started, SocketsGot, NotifyNext, AllNotified, StopWaiting,
                      ResetActiveSystemList, EndThreads, table, queues, knowledge
  <2>2. CASE ReturnConnectionLost
    <3>1. CASE ConnectedTo(target) = {}
      BY <1>1, <2>2, <3>1 DEF ReturnConnectionLost, table, knowledge
    <3>2. CASE ConnectedTo(target) # {}
      <4>1. PICK s \in Slot : packetReturnQueue' = Push(packetReturnQueue, Packet("END", s))
        BY <2>2, <3>2 DEF ReturnConnectionLost, ConnectedTo, SlotsOf
      <4>2. UNCHANGED <<slots, raced, begun, ended, silenced, network, updating>>
        BY <2>2 DEF ReturnConnectionLost, table, knowledge
      <4> QED
        BY <4>1, <4>2, BeginningsIfPushed
    <3> QED
      BY <3>1, <3>2
  <2>3. CASE StartThread \/ FinishShutdown
    <3>1. /\ packetReturnQueue' = <<>> /\ begun' = {}
          /\ \A s \in Slot : ~slots'[s].isActive
      BY <2>3 DEF StartThread, FinishShutdown, ClearAll, Idle, knowledge, Unused
    <3>2. network' # "drops"
      BY <2>3 DEF StartThread, FinishShutdown, Places
    <3>3. \A c : ~Begun(c)'
      BY <3>1 DEF Begun, InQueue
    <3> QED
      BY <3>1, <3>2, <3>3 DEF BeginningsKept, IsActive
  <2> QED
    BY <1>3, <2>1, <2>2, <2>3 DEF GoOn
<1>4. ASSUME Network PROVE BeginningsKept'
  <2>1. CASE Begin \/ Check \/ NextSystem \/ UpToDate
    BY <1>1, <2>1 DEF Begin, Check, NextSystem, UpToDate, table, queues, knowledge
  <2>2. CASE ProcessNetworkPacket
    BY <2>2, BeginningsOfProcess
  <2>3. CASE BufferedCommand
    BY <2>3, BeginningsOfCommand
  <2>4. CASE Drop
    <3>1. /\ updating \in Slot
          /\ UNCHANGED <<slots, raced, begun, ended, silenced, updating>>
      BY <2>4 DEF Drop, TypeOK, table, knowledge
    <3>2. CASE ~IsAnnounced(slots[updating].connectMode)
      <4>1. UNCHANGED packetReturnQueue
        BY <2>4, <3>2 DEF Drop
      <4> QED
        BY <3>1, <3>2, <4>1, BeginningsStay
    <3>3. CASE packetReturnQueue' = Push(packetReturnQueue, Packet("END", updating))
      BY <3>1, <3>3, BeginningsIfPushed
    <3> QED
      BY <2>4, <3>2, <3>3 DEF Drop
  <2>5. CASE FreeSlot
    BY <2>5, BeginningsOfFreeSlot
  <2>6. CASE Message
    <3>1. /\ updating \in Slot /\ IsActive(updating)
          /\ UNCHANGED <<raced, begun, ended, silenced, network, updating>>
          /\ network = "updates"
      BY <2>6 DEF Message, TypeOK, knowledge
    <3>2. \A s \in Slot :
            /\ slots'[s].isActive = slots[s].isActive
            /\ slots'[s].connection = slots[s].connection
            /\ \/ slots'[s].connectMode = slots[s].connectMode
               \/ IsAnnounced(slots'[s].connectMode)
      <4>1. CASE UNCHANGED slots
        BY <4>1
      <4>2. ASSUME NEW m \in {"CONNECTED", "DISCONNECT_ON_NO_ACK"},
                   slots' = [slots EXCEPT ![updating].connectMode = m]
            PROVE  /\ \A s \in Slot : /\ slots'[s].isActive = slots[s].isActive
                                      /\ slots'[s].connection = slots[s].connection
                   /\ \A s \in Slot \ {updating} : slots'[s].connectMode = slots[s].connectMode
                   /\ IsAnnounced(slots'[updating].connectMode)
        BY <3>1, <4>2 DEF TypeOK, IsAnnounced
      <4>3. \/ UNCHANGED slots
            \/ slots' = [slots EXCEPT ![updating].connectMode = "CONNECTED"]
            \/ slots' = [slots EXCEPT ![updating].connectMode = "DISCONNECT_ON_NO_ACK"]
        BY <2>6 DEF Message
      <4> QED
        BY <4>1, <4>2, <4>3
    <3>3. CASE UNCHANGED packetReturnQueue
      BY <3>1, <3>2, <3>3, BeginningsStay
    <3>4. CASE /\ packetReturnQueue' = Push(packetReturnQueue, Packet("NEW", updating))
               /\ slots' = [slots EXCEPT ![updating].connectMode = "CONNECTED"]
      <4>1. IsAnnounced(slots'[updating].connectMode)
        BY <3>1, <3>4 DEF TypeOK, IsAnnounced
      <4> QED
        BY <3>1, <3>2, <3>4, <4>1, BeginningsIfPushed
    <3>5. CASE packetReturnQueue' = Push(packetReturnQueue, Packet("DATA", updating))
      BY <3>1, <3>2, <3>5, BeginningsIfPushed
    <3> QED
      BY <2>6, <3>3, <3>4, <3>5 DEF Message
  <2> QED
    BY <1>4, <2>1, <2>2, <2>3, <2>4, <2>5, <2>6 DEF Network
<1>5. CASE \E p \in Peer : Arrive(p)
  BY <1>1, <1>5 DEF Arrive, table, knowledge
<1>6. CASE UNCHANGED vars
  BY <1>1, <1>6 DEF vars, table, queues, knowledge
<1> QED
  BY <1>2, <1>3, <1>4, <1>5, <1>6 DEF Next

----------------------------------------------------------------------------
(* What the user learns *)

KnowledgeInv == Idle /\ ClosesSilenced /\ Numbered /\ EndsInOrder /\ BeginningsKept

\* The invariant holds initially ...
LEMMA KnowledgeInit == Init => KnowledgeInv
<1> SUFFICES ASSUME Init PROVE KnowledgeInv
  OBVIOUS
<1>1. /\ packetReturnQueue = <<>> /\ bufferedCommands = <<>> /\ bufferedPackets = <<>>
      /\ begun = {} /\ ended = {} /\ user = "down" /\ network = "none" /\ endThreads
      /\ \A s \in Slot : slots[s].connection = NoConnection /\ ~slots[s].isActive
  BY DEF Init, Unused
<1>2. Idle /\ ClosesSilenced /\ EndsInOrder
  BY <1>1 DEF Idle, ClosesSilenced, EndsInOrder
<1>3. \A c \in Connection : ~Known(c) /\ ~Arriving(c)
  <2>1. NoConnection \notin Connection
    BY DEF Connection, NoConnection
  <2> QED
    BY <1>1, <2>1 DEF Known, Arriving
<1>4. Numbered
  BY <1>1, <1>3 DEF Numbered
<1>5. BeginningsKept
  BY <1>1 DEF BeginningsKept, Begun, InQueue, IsActive
<1> QED
  BY <1>2, <1>4, <1>5 DEF KnowledgeInv

\* ... and always.
LEMMA KnowledgeCorrect == Spec => []KnowledgeInv
<1>1. TypeOK /\ Places /\ TableTrue /\ KnowledgeInv /\ [Next]_vars => KnowledgeInv'
  <2> SUFFICES ASSUME TypeOK, Places, TableTrue, KnowledgeInv, [Next]_vars PROVE KnowledgeInv'
    OBVIOUS
  <2>1. Idle /\ ClosesSilenced /\ Numbered /\ EndsInOrder /\ BeginningsKept
    BY DEF KnowledgeInv
  <2>2. Idle' /\ ClosesSilenced' /\ Numbered'
    BY <2>1, IdleOfStep, SilencedOfStep, NumberedOfStep
  <2>3. EndsInOrder' /\ BeginningsKept'
    BY <2>1, EndsOfStep, BeginningsOfStep
  <2> QED
    BY <2>2, <2>3 DEF KnowledgeInv
<1> QED
  BY <1>1, KnowledgeInit, TableCorrect, PTL DEF Spec

\* Once the user has been told of the end of a connection nothing more of it is
\* queued for him, unless he silenced its address or the peer is shutting down.
THEOREM NothingAfterTheEnd == Spec => []EndsAreFinal
<1>1. KnowledgeInv => EndsAreFinal
  BY DEF KnowledgeInv, EndsInOrder, EndsAreFinal, Item
<1> QED
  BY <1>1, KnowledgeCorrect, PTL

\* A connection that the user has been told of keeps its slot until its end is
\* queued for him, unless he silenced its address or the reset of Shutdown has
\* disturbed the list.
THEOREM EndsAreTold == Spec => []NoHiddenEnd
<1>1. KnowledgeInv => NoHiddenEnd
  <2>1. SUFFICES ASSUME KnowledgeInv, ~raced, NEW c \in begun \ ended, c.address \notin silenced
                 PROVE  \/ \E s \in SlotsOf(c.address) : slots[s].connection = c
                        \/ \E i \in DOMAIN packetReturnQueue :
                             packetReturnQueue[i].item = [type |-> "END", connection |-> c]
    BY DEF NoHiddenEnd
  <2>2. Told(c) \/ \E s \in Slot : IsActive(s) /\ slots[s].connection = c
    BY <2>1 DEF KnowledgeInv, BeginningsKept, Begun
  <2>3. Told(c) => InQueue("END", c)
    BY <2>1 DEF Told
  <2> QED
    BY <2>2, <2>3 DEF InQueue, Item, SlotsOf, AddressOf
<1> QED
  BY <1>1, KnowledgeCorrect, PTL
=============================================================================
