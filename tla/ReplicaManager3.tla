--------------------------- MODULE ReplicaManager3 ---------------------------
(***************************************************************************)
(* ReplicaManager3 on several systems: the replicas a system references,   *)
(* the lists each Connection_RM3 keeps of them, and the construction,      *)
(* serialization, destruction and download messages between the systems.   *)
(*                                                                         *)
(* The application's thread drives everything: Receive updates the plugin  *)
(* and then hands it the packets of the return queue.  RakPeer's network   *)
(* thread (Connect, CloseCommand, Timeout) feeds that queue meanwhile.     *)
(***************************************************************************)
EXTENDS Integers, SequencesExt, Replica3Callbacks

CONSTANTS
  Replica,         \* NetworkIDs
  Link,            \* policy -> the pairs of systems that connect
  Creators,        \* policy -> replica -> the systems whose application creates it
  Mode,            \* policy -> system -> QueryConstructionMode
  Grouping,        \* systems that return true from QueryGroupDownloadMessages
  Scoped,          \* replicas that the application moves in and out of scope
  Uniquely,        \* replicas that are serialized for each connection by itself
  PolicyChoice,    \* the policies to choose from
  Failing,         \* policy -> the systems that leave, or whose network does
  QuickReconnect,  \* may a system be connected again before it reads of the loss?
  Limit            \* policy -> bounds of the environment, by what they bound

Bounded == {"updates", "connects", "faults"}

ASSUME ManagerAssumption ==
  /\ IsFiniteSet(System) /\ IsFiniteSet(Replica)
  /\ Server \in System /\ Authoritative \subseteq System
  /\ \A p \in Policies, s \in System : {s} \notin Link[p]
  /\ Creators \in [Policies -> [Replica -> SUBSET System]]
  /\ Mode \in [Policies -> [System -> {"ReplicaConstruction", "ConnectionReplicaList",
                                       "ReplicaConstructionAndDestruction"}]]
  /\ Grouping \subseteq System /\ Scoped \subseteq Replica /\ Uniquely \subseteq Replica
  /\ Failing \in [Policies -> SUBSET System]
  /\ PolicyChoice \subseteq Policies /\ QuickReconnect \in BOOLEAN
  /\ Limit \in [Policies -> [Bounded -> Nat]]

VARIABLES
  policy,          \* what the application's callbacks answer, fixed from the start
  replica,         \* system -> NetworkID -> the object, for userReplicaList
  connection,      \* system -> system -> Connection_RM3, for connectionList
  looping,         \* systems whose Receive goes on without another Update
  hidden,          \* <<system, system, replica>>: out of scope for a connection
  inbox,           \* system -> system -> what comes from it, in order: the packets
                   \* in packetReturnQueue, then the messages still under way
  up,              \* system -> the remote systems RakPeer is connected to
  closing,         \* system -> those whose BCS_CLOSE_CONNECTION is queued
  spent            \* how much of each bound is used

manager == <<replica, connection, looping>>
network == <<inbox, up, closing>>
vars == <<policy, replica, connection, looping, hidden, inbox, up, closing, spent>>

Connection ==
  [isValidated |-> FALSE, isFirstConstruction |-> TRUE,
   groupConstructionAndSerialize |-> FALSE, downloadGroup |-> <<>>,
   gotDownloadComplete |-> FALSE,
   construct |-> <<>>,         \* queryToConstructReplicaList
   constructed |-> <<>>,       \* constructedReplicaList
   serialize |-> <<>>,         \* queryToSerializeReplicaList
   destruct |-> <<>>,          \* queryToDestructReplicaList
   lastResult |-> [r \in Replica |-> 0]]   \* lastSerializationResultBS of the entries

\* Versions stand for what a replica serializes; 0 is no data.
Object(creator, version) == [creator |-> creator, version |-> version, lastSent |-> 0]

\* The entries of a list that are in a set, in their order.
Those(list, S) == FoldLeft(LAMBDA l, r : IF r \in S THEN Append(l, r) ELSE l, <<>>, list)

With(f, x, v) == [y \in DOMAIN f \cup {x} |-> IF y \in DOMAIN f THEN f[y] ELSE v]
Without(f, x) == Restrict(f, DOMAIN f \ {x})
Queries(s) == Mode[policy][s] # "ConnectionReplicaList"
Others(m, d) == DOMAIN m.connection \ {d}

----------------------------------------------------------------------------
(* A manager while a handler works on it: its replicas, its connections and *)
(* the messages it has sent so far to each system.                          *)

Manager(s) == [replica |-> replica[s], connection |-> connection[s],
               out |-> [d \in System |-> <<>>]]

SendTo(m, d, message) == [m EXCEPT !.out[d] = Append(@, message)]

\* The systems among D are told what message(d) says.
SendAll(m, D, message(_)) ==
  [m EXCEPT !.out = [d \in System |-> IF d \in D THEN Append(@[d], message(d)) ELSE @[d]]]

\* RakPeer drops what is sent to a system that it is not connected to, and
\* what comes from one.
Linked(s, d) == d \in up[s] /\ s \in up[d]

Sent(s, m) ==
  [d \in System |-> [e \in System |->
     IF e = s /\ Linked(s, d) THEN inbox[d][s] \o m.out[d] ELSE inbox[d][e]]]

Store(s, m) ==
  /\ replica' = [replica EXCEPT ![s] = m.replica]
  /\ connection' = [connection EXCEPT ![s] = m.connection]

Construction(new, deleted) ==
  [type |-> "Construction", new |-> new, deleted |-> deleted, arrived |-> FALSE]
Signal(type) == [type |-> type, arrived |-> FALSE]

\* A packet of RakPeer's own, which is in the return queue at once.
Event(type) == [type |-> type, arrived |-> TRUE]
Empty == [s \in System |-> <<>>]

----------------------------------------------------------------------------
(* The lists of a connection *)

OnLocalReference(c, r) == [c EXCEPT !.construct = Append(@, r), !.lastResult[r] = 0]

\* A variant that leaves the replica in queryToDestructReplicaList.
DereferenceKeepsDestruct(c, r) ==
  [c EXCEPT !.constructed = RemoveFirst(@, r), !.construct = RemoveFirst(@, r),
            !.serialize = RemoveFirst(@, r), !.lastResult[r] = 0]

OnDereference(c, r) ==
  [c EXCEPT !.constructed = RemoveFirst(@, r), !.construct = RemoveFirst(@, r),
            !.serialize = RemoveFirst(@, r), !.destruct = RemoveFirst(@, r),
            !.lastResult[r] = 0]

\* constructedReplicaList is ordered by replica and refuses a second entry.
Inserted(list, r) == IF Contains(list, r) THEN list ELSE Append(list, r)

OnDownloadFromThisSystem(s, c, r) ==
  LET known == Contains(c.constructed, r)
      d == [c EXCEPT !.constructed = Inserted(@, r),
                     !.serialize = IF known THEN @ ELSE Append(@, r),
                     !.lastResult[r] = 0]
  IN IF Queries(s)
     THEN [d EXCEPT !.construct = RemoveFirst(@, r), !.destruct = Append(@, r)] ELSE d

OnDownloadFromOtherSystem(s, c, r) ==
  IF Queries(s) /\ ~Contains(c.construct, r) THEN OnLocalReference(c, r) ELSE c

\* OnConstructToThisConnection and OnReplicaAlreadyExists, for an entry of
\* queryToConstructReplicaList.
OnConstructToThisConnection(c, r) ==
  [c EXCEPT !.construct = RemoveFirst(@, r), !.constructed = Inserted(@, r),
            !.destruct = Append(@, r), !.serialize = Append(@, r)]

\* ... and for a replica that QueryReplicaList returned.
OnListedConstruct(c, r) ==
  [c EXCEPT !.constructed = Inserted(@, r), !.serialize = Append(@, r),
            !.lastResult[r] = 0]

OnDownloadExisting(s, c, r) ==
  IF ~Queries(s) THEN OnListedConstruct(c, r)
  ELSE IF Contains(c.construct, r) THEN OnConstructToThisConnection(c, r) ELSE c

OnNeverConstruct(c, r) == [c EXCEPT !.construct = RemoveFirst(@, r)]

OnNeverSerialize(c, r) == [c EXCEPT !.serialize = RemoveFirst(@, r)]

\* A variant that goes on serializing the replica.
SendDestructionKeepsSerialize(c, r) ==
  [c EXCEPT !.destruct = RemoveFirst(@, r), !.constructed = RemoveFirst(@, r),
            !.construct = Append(@, r)]

\* The entry goes back to queryToConstructReplicaList as it is.
OnSendDestructionFromQuery(c, r) ==
  [c EXCEPT !.destruct = RemoveFirst(@, r), !.serialize = RemoveFirst(@, r),
            !.constructed = RemoveFirst(@, r), !.construct = Append(@, r)]

OnDoNotQueryDestruction(c, r) == [c EXCEPT !.destruct = RemoveFirst(@, r)]

----------------------------------------------------------------------------
(* Construction and destruction by query *)

\* A replica out of scope asks for no action; else its helper answers.
ConstructionState(s, d, m, r) ==
  IF <<s, d, r>> \in hidden THEN "NoAction"
  ELSE QueryConstruction(policy, s, m.replica[r].creator)

Creates(s, d, m, r) == ConstructionState(s, d, m, r) = "SendConstruction"

DestructionState(s, d, r) ==
  IF r \notin Scoped THEN "DoNotQueryDestruction"
  ELSE IF <<s, d, r>> \in hidden THEN "SendDestruction" ELSE "NoAction"

\* The loops over queryToConstructReplicaList and queryToDestructReplicaList.
ConstructLoop(s, d, m, c) ==
  FoldLeft(LAMBDA e, r :
             CASE ConstructionState(s, d, m, r) = "NoAction" -> e
               [] ConstructionState(s, d, m, r) = "NeverConstruct" -> OnNeverConstruct(e, r)
               [] OTHER -> OnConstructToThisConnection(e, r),
           c, c.construct)

DestructLoop(s, d, c) ==
  IF Mode[policy][s] # "ReplicaConstructionAndDestruction" THEN c
  ELSE FoldLeft(LAMBDA e, r :
                  CASE DestructionState(s, d, r) = "NoAction" -> e
                    [] DestructionState(s, d, r) = "SendDestruction" ->
                         OnSendDestructionFromQuery(e, r)
                    [] OTHER -> OnDoNotQueryDestruction(e, r),
                c, c.destruct)

\* What QueryReplicaList returns: the replicas that came into scope, and
\* those that left it.
ListedNew(s, d, m, c) ==
  SetToSeq({r \in DOMAIN m.replica : Creates(s, d, m, r) /\ ~Contains(c.constructed, r)})
ListedGone(s, d, c) == Those(c.constructed, {r \in Replica : <<s, d, r>> \in hidden})

ListLoop(s, d, m, c) ==
  LET made == FoldLeft(OnListedConstruct, c, ListedNew(s, d, m, c))
      Drop(e, r) == [e EXCEPT !.constructed = RemoveFirst(@, r),
                              !.serialize = RemoveFirst(@, r)]
  IN FoldLeft(Drop, made, ListedGone(s, d, c))

\* SendConstruction: the download messages around the first one, and each new
\* replica's data at once unless every connection gets its own.
Serialize(m, r) == [type |-> "Serialize", id |-> r, version |-> m.replica[r].version,
                    arrived |-> FALSE]

InitialData(m, new) ==
  LET sent == Those(new, {r \in Range(new) : r \notin Uniquely /\ m.replica[r].version > 0})
  IN [k \in DOMAIN sent |-> Serialize(m, sent[k])]

SendConstruction(s, d, m, new, deleted) ==
  LET c == m.connection[d]
      item == [k \in DOMAIN new |-> [id |-> new[k], create |-> Creates(s, d, m, new[k]),
                                     creator |-> m.replica[new[k]].creator]]
      body == <<Construction(item, deleted)>> \o InitialData(m, new)
      all == IF c.isFirstConstruction
             THEN <<Signal("DownloadStarted")>> \o body \o <<Signal("DownloadComplete")>>
             ELSE body
  IN IF new = <<>> /\ deleted = <<>> THEN m
     ELSE [m EXCEPT !.out[d] = @ \o all, !.connection[d].isFirstConstruction = FALSE]

AutoConstructByQuery(s, d, m) ==
  LET c == m.connection[d]
      asked == ConstructLoop(s, d, m, c)
      done == IF Queries(s) THEN DestructLoop(s, d, asked) ELSE ListLoop(s, d, m, c)
      new == IF Queries(s)
             THEN Those(c.construct, {r \in Range(c.construct) :
                    ConstructionState(s, d, m, r) \in {"SendConstruction", "AlreadyExists"}})
             ELSE ListedNew(s, d, m, c)
      deleted == IF ~Queries(s) THEN ListedGone(s, d, c)
                 ELSE Those(asked.destruct, {r \in Replica :
                        /\ Mode[policy][s] = "ReplicaConstructionAndDestruction"
                        /\ DestructionState(s, d, r) = "SendDestruction"})
  IN IF ~c.isValidated THEN m
     ELSE SendConstruction(s, d, [m EXCEPT !.connection[d] = done], new, deleted)

----------------------------------------------------------------------------
(* Serialization *)

Asked(s, d, m, r) == QuerySerialization(policy, s, d, m.replica[r].creator)

\* SendSerializeIfChanged for one entry: what was sent last to everyone, or
\* to this connection, is not sent again.  lastSent is what the replica had
\* sent when the tick began: the first connection to find a change has it
\* sent to the others of the tick as well (forceSendUntilNextUpdate).
SendSerializeIfChanged(s, d, m, r, lastSent) ==
  LET v == m.replica[r].version
      last == IF r \in Uniquely THEN m.connection[d].lastResult[r] ELSE lastSent[r]
      sent == SendTo(m, d, Serialize(m, r))
  IN IF Asked(s, d, m, r) = "NeverCallSerialize"
     THEN [m EXCEPT !.connection[d] = OnNeverSerialize(@, r)]
     ELSE IF Asked(s, d, m, r) = "DoNotCallSerialize" \/ v = 0 \/ v = last THEN m
     ELSE IF r \in Uniquely THEN [sent EXCEPT !.connection[d].lastResult[r] = v]
     ELSE [sent EXCEPT !.replica[r].lastSent = v]

SerializeTo(s, d, m, lastSent) ==
  FoldLeft(LAMBDA n, r : SendSerializeIfChanged(s, d, n, r, lastSent),
           m, m.connection[d].serialize)

\* Update: construction for every connection, then, when autoSerializeInterval
\* has passed (tick), serialization.
Update(s, m, tick) ==
  LET peers == SetToSeq(DOMAIN m.connection)
      built == FoldLeft(LAMBDA n, d : AutoConstructByQuery(s, d, n), m, peers)
      lastSent == [r \in DOMAIN built.replica |-> built.replica[r].lastSent]
  IN IF tick THEN FoldLeft(LAMBDA n, d : SerializeTo(s, d, n, lastSent), built, peers)
     ELSE built

----------------------------------------------------------------------------
(* Connections and replicas of the manager *)

SendValidation(m, d) == SendTo(m, d, Signal("ScopeChange"))

\* A variant that does not ask about the replicas that exist already.
PushEmptyConnection(s, d, m) ==
  IF d \in DOMAIN m.connection THEN m
  ELSE SendValidation([m EXCEPT !.connection = With(@, d, Connection)], d)

\* A variant that leaves the first validation to the other side.
PushUnannounced(s, d, m) ==
  IF d \in DOMAIN m.connection THEN m
  ELSE [m EXCEPT !.connection =
         With(@, d, FoldLeft(OnLocalReference, Connection, SetToSeq(DOMAIN m.replica)))]

PushConnection(s, d, m) ==
  LET c == IF Queries(s)
           THEN FoldLeft(OnLocalReference, Connection, SetToSeq(DOMAIN m.replica))
           ELSE Connection
  IN IF d \in DOMAIN m.connection THEN m
     ELSE SendValidation([m EXCEPT !.connection = With(@, d, c)], d)

\* Dereference, and the replica deleted.
Dereference(m, r) ==
  [m EXCEPT !.replica = Without(@, r),
            !.connection = [d \in DOMAIN @ |-> OnDereference(@[d], r)]]

\* A variant that looks in the list that QueryDestruction is asked about.
HasDestructEntry(m, d, r) == Contains(m.connection[d].destruct, r)

HasReplicaConstructed(m, d, r) == Contains(m.connection[d].constructed, r)

\* Every connection but the excluded one hears of the replicas it was given.
BroadcastDestructionList(m, list, exclusion) ==
  LET Known(d) == Those(list, {r \in Range(list) : HasReplicaConstructed(m, d, r)})
      told == {d \in Others(m, exclusion) : Known(d) # <<>>}
  IN SendAll(m, told, LAMBDA d : Construction(<<>>, Known(d)))

CreatedBy(m, d) ==
  SetToSeq({r \in DOMAIN m.replica : m.replica[r].creator = d})

PopConnection(s, d, m) ==
  LET list == CreatedBy(m, d)
      told == IF BroadcastsOnPop(policy, s) THEN BroadcastDestructionList(m, list, d) ELSE m
      freed == FoldLeft(Dereference, told, list)
  IN IF d \notin DOMAIN m.connection THEN m
     ELSE [freed EXCEPT !.connection = Without(@, d)]

----------------------------------------------------------------------------
(* Handlers of the plugin's messages, from system d.  A handler returns the *)
(* manager, the packets it pushes back to the return queue, and whether it  *)
(* stopped the processing of the packet (RR_STOP_PROCESSING).               *)

Processed(m) == [m |-> m, back |-> <<>>, stop |-> FALSE]

Held(m, d, message) ==
  [m |-> [m EXCEPT !.connection[d].downloadGroup = Append(@, message)],
   back |-> <<>>, stop |-> TRUE]

Construct(s, d, m, item) ==
  LET r == item.id
      made == [m EXCEPT !.replica = With(@, r, Object(item.creator, 0)),
                        !.connection = [e \in DOMAIN @ |->
                           IF e = d THEN OnDownloadFromThisSystem(s, @[e], r)
                           ELSE OnDownloadFromOtherSystem(s, @[e], r)]]
  IN CASE ~item.create -> m
       [] item.create /\ r \in DOMAIN m.replica ->
            [m EXCEPT !.connection[d] = OnDownloadExisting(s, @, r)]
       [] OTHER -> IF QueryRemoteConstruction(policy, s) THEN made ELSE m

\* Unknown replicas are skipped; a destruction is passed on to the others.
Destruct(d, m, r) ==
  IF r \notin DOMAIN m.replica THEN m
  ELSE Dereference(BroadcastDestructionList(m, <<r>>, d), r)

OnConstruction(s, d, m, message) ==
  LET made == FoldLeft(LAMBDA n, item : Construct(s, d, n, item), m, message.new)
  IN FoldLeft(LAMBDA n, r : Destruct(d, n, r), made, message.deleted)

OnSerialize(m, message) ==
  IF message.id \notin DOMAIN m.replica THEN m
  ELSE [m EXCEPT !.replica[message.id].version = message.version]

OnDownloadStarted(s, d, m, message) ==
  IF s \in Grouping /\ ~m.connection[d].groupConstructionAndSerialize
  THEN Held([m EXCEPT !.connection[d].groupConstructionAndSerialize = TRUE], d, message)
  ELSE Processed([m EXCEPT !.connection[d].groupConstructionAndSerialize = FALSE])

\* What was held goes to the end of the return queue, this message last.
OnDownloadComplete(d, m, message) ==
  LET c == m.connection[d] IN
  IF c.groupConstructionAndSerialize /\ c.downloadGroup # <<>>
  THEN [m |-> [m EXCEPT !.connection[d].downloadGroup = <<>>],
        back |-> [k \in 1..Len(c.downloadGroup) + 1 |->
                    [Append(c.downloadGroup, message)[k] EXCEPT !.arrived = TRUE]],
        stop |-> TRUE]
  ELSE Processed([m EXCEPT !.connection[d].gotDownloadComplete = TRUE])

\* The connection is now confirmed to go both ways, which is answered once.
OnScopeChange(d, m) ==
  IF m.connection[d].isValidated THEN m
  ELSE SendValidation([m EXCEPT !.connection[d].isValidated = TRUE], d)

OnReceive(s, d, m, message) ==
  LET known == d \in DOMAIN m.connection
      grouped == known /\ m.connection[d].groupConstructionAndSerialize
  IN CASE message.type = "NewConnection"  -> Processed(PushConnection(s, d, m))
       [] message.type = "ConnectionLost" -> Processed(PopConnection(s, d, m))
       [] ~known /\ message.type \notin {"NewConnection", "ConnectionLost"} -> Processed(m)
       [] grouped /\ message.type \in {"Construction", "Serialize"} -> Held(m, d, message)
       [] ~grouped /\ known /\ message.type = "Construction" ->
            Processed(OnConstruction(s, d, m, message))
       [] ~grouped /\ known /\ message.type = "Serialize" -> Processed(OnSerialize(m, message))
       [] known /\ message.type = "DownloadStarted"  -> OnDownloadStarted(s, d, m, message)
       [] known /\ message.type = "DownloadComplete" -> OnDownloadComplete(d, m, message)
       [] known /\ message.type = "ScopeChange"      -> Processed(OnScopeChange(d, m))

----------------------------------------------------------------------------
(* The application's thread *)

\* How much of an inbox has arrived is open until it matters: n packets are
\* in the return queue when others are put behind them, or the rest is lost.
Arrivals(list) == {n \in 0..Len(list) : \A k \in n + 1..Len(list) : ~list[k].arrived}
InsertedAt(list, n, more) ==
  SubSeq(list, 1, n) \o more \o SubSeq(list, n + 1, Len(list))

\* RakPeer::Receive: the plugin is updated once per call and then given the
\* packets of the queue until one is left to the caller.
Updated(s, tick) == IF s \in looping THEN Manager(s) ELSE Update(s, Manager(s), tick)

ReceiveNothing(s) ==
  \E tick \in BOOLEAN :
    LET m == Updated(s, tick) IN
    /\ Store(s, m) /\ inbox' = Sent(s, m)
    /\ looping' = looping \ {s}
    /\ UNCHANGED <<policy, hidden, up, closing, spent>>

ReceivePacket(s, d) ==
  /\ inbox[s][d] # <<>>
  /\ \E tick \in BOOLEAN :
       LET result == OnReceive(s, d, Updated(s, tick), Head(inbox[s][d]))
           rest == Tail(inbox[s][d])
       IN /\ Store(s, result.m)
          /\ \E n \in Arrivals(rest) :
               /\ result.back = <<>> => n = Len(rest)
               /\ inbox' = [Sent(s, result.m) EXCEPT ![s][d] = InsertedAt(rest, n, result.back)]
          /\ looping' = IF result.stop THEN looping \cup {s} ELSE looping \ {s}
  /\ UNCHANGED <<policy, hidden, up, closing, spent>>

Idle(s) == s \notin looping
Fails(s) == s \in Failing[policy]
Spend(what) == spent[what] < Limit[policy][what] /\ spent' = [spent EXCEPT ![what] = @ + 1]

\* Reference, for a new object with data: every connection is to be asked.
Reference(s, r) ==
  /\ Idle(s) /\ s \in Creators[policy][r] /\ r \notin DOMAIN replica[s]
  /\ Spend("updates")
  /\ replica' = [replica EXCEPT ![s] = With(@, r, Object(s, 1))]
  /\ connection' = [connection EXCEPT ![s] = [d \in DOMAIN @ |->
                      IF Queries(s) THEN OnLocalReference(@[d], r) ELSE @[d]]]
  /\ UNCHANGED <<policy, looping, hidden, network>>

\* The application destroys a replica: BroadcastDestruction, then delete.
Destroy(s, r) ==
  /\ Idle(s) /\ r \in DOMAIN replica[s] /\ s \in Creators[policy][r]
  /\ LET m == Dereference(BroadcastDestructionList(Manager(s), <<r>>, s), r)
     IN Store(s, m) /\ inbox' = Sent(s, m)
  /\ UNCHANGED <<policy, looping, hidden, up, closing, spent>>

\* The state of a replica changes on the system that created it.
Change(s, r) ==
  /\ Idle(s) /\ r \in DOMAIN replica[s] /\ replica[s][r].creator = s
  /\ Spend("updates")
  /\ replica' = [replica EXCEPT ![s][r].version = @ + 1]
  /\ UNCHANGED <<policy, connection, looping, hidden, network>>

\* A replica leaves the scope of a connection, or comes back.
Rescope(s, d, r) ==
  /\ Idle(s) /\ r \in Scoped /\ s \in Creators[policy][r] /\ {s, d} \in Link[policy]
  /\ Spend("updates")
  /\ hidden' = IF <<s, d, r>> \in hidden THEN hidden \ {<<s, d, r>>}
               ELSE hidden \cup {<<s, d, r>>}
  /\ UNCHANGED <<policy, manager, network>>

\* CloseConnection without a notification: the loss is queued at once, the
\* network thread closes the connection later.
CloseConnection(s, d) ==
  /\ Idle(s) /\ d \in up[s] \ closing[s]
  /\ Fails(s) /\ Spend("faults")
  /\ \E n \in Arrivals(inbox[s][d]) :
       inbox' = [inbox EXCEPT ![s][d] = InsertedAt(@, n, <<Event("ConnectionLost")>>)]
  /\ closing' = [closing EXCEPT ![s] = @ \cup {d}]
  /\ UNCHANGED <<policy, manager, hidden, up>>

\* RakPeer::Shutdown: OnRakPeerShutdown pops every connection and clears the
\* world, then what has been received is freed.
Shutdown(s) ==
  /\ Idle(s) /\ up[s] # {}
  /\ Fails(s) /\ Spend("faults")
  /\ LET popped == FoldLeft(LAMBDA m, d : PopConnection(s, d, m), Manager(s),
                            SetToSeq(DOMAIN connection[s]))
     IN inbox' = [Sent(s, popped) EXCEPT ![s] = Empty]
  /\ replica' = [replica EXCEPT ![s] = <<>>]
  /\ connection' = [connection EXCEPT ![s] = <<>>]
  /\ up' = [up EXCEPT ![s] = {}]
  /\ closing' = [closing EXCEPT ![s] = {}]
  /\ UNCHANGED <<policy, looping, hidden>>

----------------------------------------------------------------------------
(* RakPeer's network thread and the network *)

Unread(s, d) == Contains(inbox[s][d], Event("ConnectionLost"))

\* A connection is made; each application hears of it in its return queue,
\* before it has read of the loss of an earlier one if it is quick.
Connect(s, d) ==
  /\ {s, d} \in Link[policy] /\ d \notin up[s] /\ s \notin up[d]
  /\ Unread(s, d) \/ Unread(d, s) => QuickReconnect
  /\ Spend("connects")
  /\ up' = [up EXCEPT ![s] = @ \cup {d}, ![d] = @ \cup {s}]
  /\ inbox' = [inbox EXCEPT ![s][d] = Append(@, Event("NewConnection")),
                            ![d][s] = Append(@, Event("NewConnection"))]
  /\ UNCHANGED <<policy, manager, hidden, closing>>

\* A variant that leaves the command in the queue.
CloseCommandAgain(s, d) ==
  /\ d \in closing[s]
  /\ up' = [up EXCEPT ![s] = @ \ {d}]
  /\ UNCHANGED <<policy, manager, hidden, inbox, closing, spent>>

\* Some of what is under way to s still arrives before the connection is gone.
CloseCommand(s, d) ==
  /\ d \in closing[s]
  /\ \E n \in Arrivals(inbox[s][d]) :
       inbox' = [inbox EXCEPT ![s][d] = SubSeq(@, 1, n)]
  /\ up' = [up EXCEPT ![s] = @ \ {d}]
  /\ closing' = [closing EXCEPT ![s] = @ \ {d}]
  /\ UNCHANGED <<policy, manager, hidden, spent>>

\* No acknowledgement in time: the other side has gone, or the network has.
Timeout(s, d) ==
  /\ d \in up[s] \ closing[s]
  /\ IF s \in up[d] THEN Fails(s) /\ Spend("faults") ELSE UNCHANGED spent
  /\ \E n \in Arrivals(inbox[s][d]) :
       inbox' = [inbox EXCEPT ![s][d] = Append(SubSeq(@, 1, n), Event("ConnectionLost"))]
  /\ up' = [up EXCEPT ![s] = @ \ {d}]
  /\ UNCHANGED <<policy, manager, hidden, closing>>

----------------------------------------------------------------------------
\* The links are up; the applications have not read of them yet.
Init ==
  /\ policy \in PolicyChoice
  /\ replica = Empty /\ connection = Empty /\ looping = {} /\ hidden = {}
  /\ up = [s \in System |-> {d \in System : {s, d} \in Link[policy]}]
  /\ closing = [s \in System |-> {}]
  /\ inbox = [s \in System |-> [d \in System |->
                IF d \in up[s] THEN <<Event("NewConnection")>> ELSE <<>>]]
  /\ spent = [x \in Bounded |-> 0]

Application(s) ==
  \/ \E r \in Replica : Reference(s, r) \/ Destroy(s, r) \/ Change(s, r)
  \/ \E d \in System : CloseConnection(s, d) \/ \E r \in Replica : Rescope(s, d, r)
  \/ Shutdown(s)

Network ==
  \E s, d \in System : Connect(s, d) \/ CloseCommand(s, d) \/ Timeout(s, d)

Receive(s) == ReceiveNothing(s) \/ \E d \in System : ReceivePacket(s, d)

Next == (\E s \in System : Receive(s) \/ Application(s)) \/ Network

Spec == Init /\ [][Next]_vars

----------------------------------------------------------------------------
(* Properties *)

TypeOK ==
  /\ policy \in Policies /\ looping \subseteq System
  /\ hidden \subseteq System \X System \X Replica
  /\ \A s \in System :
       /\ DOMAIN replica[s] \subseteq Replica /\ DOMAIN connection[s] \subseteq System
       /\ up[s] \subseteq System /\ closing[s] \subseteq up[s]

Lists(c) == {c.construct, c.constructed, c.serialize, c.destruct}
Connections == {p \in System \X System : p[2] \in DOMAIN connection[p[1]]}

\* What ValidateLists is there for: a replica is in one of the lists of
\* construction only and in no list twice, and what is serialized or asked
\* about destruction has been constructed.
ListsConsistent ==
  \A p \in Connections :
    LET c == connection[p[1]][p[2]] IN
    /\ \A list \in Lists(c) : IsInjective(list)
    /\ Range(c.construct) \cap Range(c.constructed) = {}
    /\ Range(c.serialize) \cup Range(c.destruct) \subseteq Range(c.constructed)

\* No list of any connection names a replica that has been deleted.
NoDanglingEntries ==
  \A p \in Connections : \A list \in Lists(connection[p[1]][p[2]]) :
    Range(list) \subseteq DOMAIN replica[p[1]]

\* What a list of replicas that is asked for takes for granted: no new replica
\* of a message is one that this side has constructed on the sender by then,
\* and none comes twice.  The code does not look, so that constructions of one
\* replica that cross would leave it in queryToSerializeReplicaList twice.
Uncrossed(c, new) ==
  LET made == {k \in DOMAIN new : new[k].create} IN
  \A k \in made : /\ new[k].id \notin Range(c.constructed)
                  /\ \A j \in made : new[j].id = new[k].id => j = k

NoCrossing ==
  \A p \in Connections :
    LET s == p[1] d == p[2] list == inbox[p[1]][p[2]] IN
    ~Queries(s) /\ list # <<>> /\ Head(list).type = "Construction" =>
      \A tick \in BOOLEAN : Uncrossed(Updated(s, tick).connection[d], Head(list).new)

\* Nothing is under way and no Update has anything to do.
Settled ==
  /\ looping = {}
  /\ \A s \in System :
       /\ closing[s] = {} /\ \A d \in System : inbox[s][d] = <<>>
       /\ \A d \in up[s] : s \in up[d]
       /\ \A d \in DOMAIN connection[s] : connection[s][d].downloadGroup = <<>>
       /\ Update(s, Manager(s), TRUE) = Manager(s)

\* Once everything has settled, whatever a system is to construct on another
\* one is there, with its last state if it is serialized to it.
SettledReplicasAgree ==
  Settled =>
    \A s \in System : \A d \in up[s] : \A r \in DOMAIN replica[s] :
      Creates(s, d, Manager(s), r) /\ QueryRemoteConstruction(policy, d) =>
        /\ r \in DOMAIN replica[d]
        /\ Asked(s, d, Manager(s), r) = "CallSerialize" =>
             replica[d][r].version = replica[s][r].version

\* ... and a replica that a system did not create exists on a system it is
\* connected to: none outlives its destruction or its creator's connection,
\* however it came.
SettledNoOrphans ==
  Settled =>
    \A d \in System : \A r \in DOMAIN replica[d] :
      replica[d][r].creator # d /\ up[d] # {} => \E s \in up[d] : r \in DOMAIN replica[s]

\* ... and each connected pair has a connection on both sides that both have
\* confirmed: no validation is lost or answered before the connection is pushed.
SettledValidated ==
  Settled => \A s \in System : \A d \in up[s] :
    d \in DOMAIN connection[s] /\ connection[s][d].isValidated

\* The comment in OnDownloadComplete: by the time the message is processed
\* for good, nothing is held any more.
DownloadGroupReleased ==
  \A p \in Connections : LET c == connection[p[1]][p[2]] IN
    c.gotDownloadComplete => c.downloadGroup = <<>>
=============================================================================
