--------------------------- MODULE RakPeerHandshake ---------------------------
(***************************************************************************)
(* How RakPeers connect to each other: the requests of the users, the      *)
(* queue of attempts that the update cycle retries, the offline messages   *)
(* that lead to a slot on either side, the connected messages that take    *)
(* the two slots to CONNECTED, the refusals, and the end of a connection.  *)
(*                                                                         *)
(* Offline messages are datagrams: lost, duplicated, delayed and reordered.*)
(* Connected messages go through the reliability layer, which is external: *)
(* it delivers each once, ordered ones in order, while both sides last.    *)
(***************************************************************************)
EXTENDS Integers, FiniteSets, SequencesExt

CONSTANTS
  Peer, NoPeer,
  Settings,        \* the settings to choose from
  SendConnectionAttemptCount

NUM_MTU_SIZES == 3
\* "admissions" bounds how often an ID_OPEN_CONNECTION_REQUEST_2, or a late copy
\* of one, is given a slot.
Budgets == {"connects", "cancels", "closes", "faults", "restarts", "admissions"}

\* Fewer than NUM_MTU_SIZES attempts divide by zero, and requestsMade, an
\* unsigned char, never equals a count of 255 or more plus one.
ASSUME HandshakeAssumption ==
  /\ NoPeer \notin Peer
  /\ SendConnectionAttemptCount \in NUM_MTU_SIZES..254
  /\ \A s \in Settings :
       /\ s.dials \subseteq {d \in Peer \X Peer : d[1] # d[2]}
       /\ s.wrongPassword \subseteq s.dials /\ s.otherVersion \subseteq s.dials
       /\ s.maximumNumberOfPeers \in [Peer -> Nat]
       /\ s.maximumIncomingConnections \in [Peer -> Nat]
       /\ s.limit \in [Budgets -> Nat]

VARIABLES
  setting,         \* who dials whom with what, fixed from the start
  requestsMade,    \* peer -> peer -> the counter in requestedConnectionQueue
  connectMode,     \* peer -> peer -> mode of the slot, if there is an active one
  weInitiated,     \* ... its weInitiatedTheConnection
  guidOf,          \* ... and its guid
  heard,           \* ... whether it has received from the other's slot: of the
                   \*     present one, of a former one, or not at all
  wire,            \* offline messages ever sent: each may arrive at any time
  stream,          \* peer -> peer -> connected messages on their way
  banned,          \* peer -> the peers on its ban list
  dropping,        \* peer -> the one whose slot the update cycle is about to free
  calling,         \* peer -> the one its user is in the middle of connecting to
  dialling,        \* peer -> peer -> has its user an attempt without an answer?
  told,            \* peer -> peer -> has its user been told of a connection?
  guid,            \* peer -> which GUID it has, a new one after each restart
  spent            \* how much of each budget is used

slots == <<connectMode, weInitiated, guidOf, heard>>
users == <<calling, dialling, told>>
vars == <<setting, requestsMade, slots, wire, stream, banned, dropping, users, guid, spent>>

NotQueued == -1
Free == "FREE"
Handshaking == {"UNVERIFIED_SENDER", "REQUESTED_CONNECTION", "HANDLING_CONNECTION_REQUEST"}
Disconnecting == {"DISCONNECT_ASAP", "DISCONNECT_ASAP_SILENTLY", "DISCONNECT_ON_NO_ACK"}
ConnectMode == Handshaking \cup Disconnecting \cup {"CONNECTED"}

Offline == {"REQUEST_1", "REPLY_1", "REQUEST_2", "REPLY_2"}
Refusals == {"ALREADY_CONNECTED", "NO_FREE_INCOMING_CONNECTIONS", "CONNECTION_BANNED",
             "INCOMPATIBLE_PROTOCOL_VERSION"}
Unordered == {"CONNECTION_REQUEST", "INVALID_PASSWORD"}
Ordered == {"CONNECTION_REQUEST_ACCEPTED", "NEW_INCOMING_CONNECTION",
            "DISCONNECTION_NOTIFICATION"}

Spend(b) == spent[b] < setting.limit[b] /\ spent' = [spent EXCEPT ![b] = @ + 1]

Set(f, p, q, x) == [f EXCEPT ![p][q] = x]

Queued(p, q) == requestsMade[p][q] # NotQueued
Active(p, q) == connectMode[p][q] # Free

----------------------------------------------------------------------------
(* Slots *)

NumberOfRemoteInitiatedConnections(p) ==
  Cardinality({q \in Peer : connectMode[p][q] = "CONNECTED" /\ ~weInitiated[p][q]})

AllowIncomingConnections(p) ==
  NumberOfRemoteInitiatedConnections(p) < setting.maximumIncomingConnections[p]

HasFreeSlot(p) ==
  Cardinality({q \in Peer : Active(p, q)}) < setting.maximumNumberOfPeers[p]

\* AssignSystemAddressToRemoteSystemList, with the mode and the initiator that
\* the caller then gives the slot.  The reliability layer starts anew.
Assign(p, q, g, mode, initiated) ==
  /\ connectMode' = Set(connectMode, p, q, mode)
  /\ weInitiated' = Set(weInitiated, p, q, initiated)
  /\ guidOf' = Set(guidOf, p, q, g)
  /\ heard' = Set(heard, p, q, "nothing")

SetMode(p, q, mode) == connectMode' = Set(connectMode, p, q, mode)

\* The slot of a peer that loses its partner's slot has heard of a former one.
Forsaken(h) == IF h = "present" THEN "former" ELSE h

\* CloseConnectionInternal without a notification, from the network thread.
CloseConnectionInternal(p, q) ==
  /\ connectMode' = Set(connectMode, p, q, Free)
  /\ heard' = [heard EXCEPT ![q][p] = Forsaken(@)]
  /\ UNCHANGED <<weInitiated, guidOf>>

\* SendImmediate: a slot that is disconnecting sends no more.
Sent(p, q, mode, message) ==
  IF mode \in Disconnecting \cup {Free} THEN stream
  ELSE [stream EXCEPT ![p][q] = Append(@, message)]

Post(type, p, q) ==
  wire' = wire \cup {[type |-> type, from |-> p, to |-> q, guid |-> <<p, guid[p]>>]}

----------------------------------------------------------------------------
(* The users' calls *)

\* SendConnectionRequest looks for an active slot without a lock ...  A user
\* dials a peer that he is not connected to and has no attempt under way with,
\* as the proxy does when it starts and when it is told of the end.
Connect(p, q) ==
  /\ <<p, q>> \in setting.dials /\ calling[p] = NoPeer
  /\ ~dialling[p][q] /\ ~told[p][q] /\ ~Active(p, q)
  /\ Spend("connects")
  /\ calling' = [calling EXCEPT ![p] = q]
  /\ UNCHANGED <<setting, requestsMade, slots, wire, stream, banned, dropping, dialling,
                 told, guid>>

\* ... and then queues the attempt, unless there is one for the address.
PushRequest(p) ==
  LET q == calling[p] IN
  /\ q # NoPeer
  /\ calling' = [calling EXCEPT ![p] = NoPeer]
  /\ IF Queued(p, q) THEN UNCHANGED <<requestsMade, dialling>>
     ELSE /\ requestsMade' = Set(requestsMade, p, q, 0)
          /\ dialling' = Set(dialling, p, q, TRUE)
  /\ UNCHANGED <<setting, slots, wire, stream, banned, dropping, told, guid, spent>>

\* An attempt that has become a slot is not cancelled.
CancelConnectionAttempt(p, q) ==
  /\ Queued(p, q) /\ Spend("cancels")
  /\ requestsMade' = Set(requestsMade, p, q, NotQueued)
  /\ dialling' = Set(dialling, p, q, FALSE)
  /\ UNCHANGED <<setting, slots, wire, stream, banned, dropping, calling, told, guid>>

\* CloseConnection with a notification, when the network thread carries out
\* the command: the mode is set whatever it was.
CloseConnection(p, q) ==
  /\ Active(p, q) /\ dropping[p] = NoPeer /\ Spend("closes")
  /\ stream' = Sent(p, q, connectMode[p][q], "DISCONNECTION_NOTIFICATION")
  /\ SetMode(p, q, "DISCONNECT_ASAP")
  /\ UNCHANGED <<setting, requestsMade, weInitiated, guidOf, heard, wire, banned, dropping,
                 users, guid>>

----------------------------------------------------------------------------
(* The update cycle: attempts that are due *)

PerMtu == SendConnectionAttemptCount \div NUM_MTU_SIZES
MtuSizeIndex(made) ==
  IF made \div PerMtu >= NUM_MTU_SIZES THEN NUM_MTU_SIZES - 1 ELSE made \div PerMtu

\* The counter after an attempt that was too long for the network, and after
\* one that took more than 100 ms to send.
AfterTooLong(made) == ((MtuSizeIndex(made) + 1) * PerMtu) % 256
\* A variant of the last that goes past the end.
AfterSlowSendTwice(made) == SendConnectionAttemptCount + 2

AfterSlowSend(made) ==
  LET lowestMtuIndex == PerMtu * (NUM_MTU_SIZES - 1) IN
  IF lowestMtuIndex > made + 1 THEN lowestMtuIndex ELSE SendConnectionAttemptCount + 1

SendRequest1(p, q) ==
  /\ Queued(p, q) /\ dropping[p] = NoPeer
  /\ requestsMade[p][q] # SendConnectionAttemptCount + 1
  /\ \/ /\ requestsMade' = Set(requestsMade, p, q, requestsMade[p][q] + 1)
        /\ Post("REQUEST_1", p, q)
        /\ UNCHANGED spent
     \/ /\ requestsMade' = Set(requestsMade, p, q, AfterTooLong(requestsMade[p][q]))
        /\ Spend("faults")
        /\ UNCHANGED wire
     \/ /\ requestsMade' = Set(requestsMade, p, q, AfterSlowSend(requestsMade[p][q]))
        /\ Post("REQUEST_1", p, q)
        /\ Spend("faults")
  /\ UNCHANGED <<setting, slots, stream, banned, dropping, users, guid>>

\* ID_CONNECTION_ATTEMPT_FAILED
GiveUp(p, q) ==
  /\ dropping[p] = NoPeer
  /\ requestsMade[p][q] = SendConnectionAttemptCount + 1
  /\ requestsMade' = Set(requestsMade, p, q, NotQueued)
  /\ dialling' = Set(dialling, p, q, FALSE)
  /\ UNCHANGED <<setting, slots, wire, stream, banned, dropping, calling, told, guid, spent>>

----------------------------------------------------------------------------
(* Offline messages *)

OnBanned(p, m) ==
  /\ m.from \in banned[p]
  /\ Post("CONNECTION_BANNED", p, m.from)
  /\ UNCHANGED <<requestsMade, slots, stream, dialling, spent>>

OnRequest1(p, m) ==
  /\ m.type = "REQUEST_1" /\ m.from \notin banned[p]
  /\ Post(IF <<m.from, p>> \in setting.otherVersion
          THEN "INCOMPATIBLE_PROTOCOL_VERSION" ELSE "REPLY_1", p, m.from)
  /\ UNCHANGED <<requestsMade, slots, stream, dialling, spent>>

OnReply1(p, m) ==
  /\ m.type = "REPLY_1" /\ m.from \notin banned[p] /\ Queued(p, m.from)
  /\ Post("REQUEST_2", p, m.from)
  /\ UNCHANGED <<requestsMade, slots, stream, dialling, spent>>

\* The answer is sent again to a sender that is unverified under this address
\* and GUID; if either is in use otherwise, it is ALREADY_CONNECTED.  When there
\* is no slot left the answer is sent all the same.
OnRequest2(p, m) ==
  LET q == m.from
      same == connectMode[p][q] = "UNVERIFIED_SENDER" /\ guidOf[p][q] = m.guid
      inUse == \E r \in Peer : Active(p, r) /\ (r = q \/ guidOf[p][r] = m.guid)
  IN
  /\ m.type = "REQUEST_2" /\ q \notin banned[p]
  /\ Post(IF same THEN "REPLY_2" ELSE IF inUse THEN "ALREADY_CONNECTED"
          ELSE IF ~AllowIncomingConnections(p) THEN "NO_FREE_INCOMING_CONNECTIONS"
          ELSE "REPLY_2", p, q)
  /\ IF ~inUse /\ AllowIncomingConnections(p) /\ HasFreeSlot(p)
     THEN /\ Spend("admissions")
          /\ Assign(p, q, m.guid, "UNVERIFIED_SENDER", FALSE)
          /\ stream' = [stream EXCEPT ![p][q] = <<>>]
     ELSE UNCHANGED <<slots, stream, spent>>
  /\ UNCHANGED <<requestsMade, dialling>>

\* A variant that leaves the attempt in the queue.
OnReply2KeepsRequest(p, m) ==
  LET q == m.from IN
  /\ m.type = "REPLY_2" /\ q \notin banned[p] /\ Queued(p, q)
  /\ Active(p, q) \/ HasFreeSlot(p)
  /\ IF Active(p, q)
     THEN /\ SetMode(p, q, "REQUESTED_CONNECTION")
          /\ weInitiated' = Set(weInitiated, p, q, TRUE)
          /\ stream' = [stream EXCEPT ![p][q] = Append(@, "CONNECTION_REQUEST")]
          /\ UNCHANGED <<guidOf, heard>>
     ELSE /\ Assign(p, q, m.guid, "REQUESTED_CONNECTION", TRUE)
          /\ stream' = [stream EXCEPT ![p][q] = <<"CONNECTION_REQUEST">>]
  /\ UNCHANGED <<requestsMade, dialling, wire, spent>>

\* The slot that the address already has is used again, whatever its mode is;
\* ID_CONNECTION_ATTEMPT_FAILED if there is no slot.
OnReply2(p, m) ==
  LET q == m.from IN
  /\ m.type = "REPLY_2" /\ q \notin banned[p] /\ Queued(p, q)
  /\ requestsMade' = Set(requestsMade, p, q, NotQueued)
  /\ \/ /\ Active(p, q)
        /\ SetMode(p, q, "REQUESTED_CONNECTION")
        /\ weInitiated' = Set(weInitiated, p, q, TRUE)
        /\ stream' = [stream EXCEPT ![p][q] = Append(@, "CONNECTION_REQUEST")]
        /\ UNCHANGED <<guidOf, heard, dialling>>
     \/ /\ ~Active(p, q) /\ HasFreeSlot(p)
        /\ Assign(p, q, m.guid, "REQUESTED_CONNECTION", TRUE)
        /\ stream' = [stream EXCEPT ![p][q] = <<"CONNECTION_REQUEST">>]
        /\ UNCHANGED dialling
     \/ /\ ~Active(p, q) /\ ~HasFreeSlot(p)
        /\ dialling' = Set(dialling, p, q, FALSE)
        /\ UNCHANGED <<slots, stream>>
  /\ UNCHANGED <<wire, spent>>

\* The refusal is passed to the user, and the attempt ends.
OnRefusal(p, m) ==
  /\ m.type \in Refusals /\ m.from \notin banned[p] /\ Queued(p, m.from)
  /\ requestsMade' = Set(requestsMade, p, m.from, NotQueued)
  /\ dialling' = Set(dialling, p, m.from, FALSE)
  /\ UNCHANGED <<slots, stream, wire, spent>>

ProcessOfflineNetworkPacket(p, m) ==
  /\ m.to = p /\ dropping[p] = NoPeer
  /\ \/ OnBanned(p, m)
     \/ OnRequest1(p, m)
     \/ OnReply1(p, m)
     \/ OnRequest2(p, m)
     \/ OnReply2(p, m)
     \/ OnRefusal(p, m)
  /\ UNCHANGED <<setting, banned, dropping, calling, told, guid>>

----------------------------------------------------------------------------
(* Connected messages, taken by p from the slot of q *)

\* The positions of what q has sent that can be delivered next.
Deliverable(q, p) ==
  {k \in DOMAIN stream[q][p] :
     stream[q][p][k] \in Ordered =>
       \A j \in 1..k - 1 : stream[q][p][j] \notin Ordered}

\* A variant that does not look at the password.
ParseAnyPassword(p, q, s) ==
  /\ SetMode(p, q, "HANDLING_CONNECTION_REQUEST")
  /\ stream' = [s EXCEPT ![p][q] = Append(@, "CONNECTION_REQUEST_ACCEPTED")]

\* ParseConnectionRequestPacket, s being what is left of the streams.
ParseConnectionRequestPacket(p, q, s) ==
  LET wrong == <<q, p>> \in setting.wrongPassword IN
  /\ SetMode(p, q, IF wrong THEN "DISCONNECT_ASAP_SILENTLY"
                   ELSE "HANDLING_CONNECTION_REQUEST")
  /\ stream' = [s EXCEPT ![p][q] = Append(@, IF wrong THEN "INVALID_PASSWORD"
                                             ELSE "CONNECTION_REQUEST_ACCEPTED")]

\* Anything but a request from an unverified sender is nonsense: the slot is
\* freed and the address banned.
OnNonsense(p, q, message, s) ==
  /\ connectMode[p][q] = "UNVERIFIED_SENDER" /\ message # "CONNECTION_REQUEST"
  /\ CloseConnectionInternal(p, q)
  /\ banned' = [banned EXCEPT ![p] = @ \cup {q}]
  /\ stream' = s
  /\ UNCHANGED <<dialling, told>>

\* The request is checked in the two modes that wait for one, and otherwise
\* just answered.
OnConnectionRequest(p, q, message, s) ==
  /\ message = "CONNECTION_REQUEST"
  /\ IF connectMode[p][q] \in {"UNVERIFIED_SENDER", "REQUESTED_CONNECTION"}
     THEN ParseConnectionRequestPacket(p, q, s)
     ELSE /\ stream' = IF connectMode[p][q] \in Disconnecting THEN s
                       ELSE [s EXCEPT ![p][q] = Append(@, "CONNECTION_REQUEST_ACCEPTED")]
          /\ UNCHANGED connectMode
  /\ heard' = Set(heard, p, q, "present")
  /\ UNCHANGED <<weInitiated, guidOf, banned, dialling, told>>

OnNewIncomingConnection(p, q, message, s) ==
  /\ message = "NEW_INCOMING_CONNECTION" /\ connectMode[p][q] # "UNVERIFIED_SENDER"
  /\ IF connectMode[p][q] = "HANDLING_CONNECTION_REQUEST"
     THEN SetMode(p, q, "CONNECTED") /\ told' = Set(told, p, q, TRUE)
     ELSE UNCHANGED <<connectMode, told>>
  /\ stream' = s
  /\ heard' = Set(heard, p, q, "present")
  /\ UNCHANGED <<weInitiated, guidOf, banned, dialling>>

OnDisconnectionNotification(p, q, message, s) ==
  /\ message = "DISCONNECTION_NOTIFICATION" /\ connectMode[p][q] # "UNVERIFIED_SENDER"
  /\ SetMode(p, q, "DISCONNECT_ON_NO_ACK")
  /\ stream' = s
  /\ heard' = Set(heard, p, q, "present")
  /\ UNCHANGED <<weInitiated, guidOf, banned, dialling, told>>

OnInvalidPassword(p, q, message, s) ==
  /\ message = "INVALID_PASSWORD" /\ connectMode[p][q] # "UNVERIFIED_SENDER"
  /\ IF connectMode[p][q] = "REQUESTED_CONNECTION"
     THEN /\ SetMode(p, q, "DISCONNECT_ASAP_SILENTLY")
          /\ dialling' = Set(dialling, p, q, FALSE)
     ELSE UNCHANGED <<connectMode, dialling>>
  /\ stream' = s
  /\ heard' = Set(heard, p, q, "present")
  /\ UNCHANGED <<weInitiated, guidOf, banned, told>>

\* Accepted in the mode of a crossing request too.
OnConnectionRequestAccepted(p, q, message, s) ==
  /\ message = "CONNECTION_REQUEST_ACCEPTED" /\ connectMode[p][q] # "UNVERIFIED_SENDER"
  /\ IF connectMode[p][q] \in {"HANDLING_CONNECTION_REQUEST", "REQUESTED_CONNECTION"}
     THEN /\ SetMode(p, q, "CONNECTED")
          /\ told' = Set(told, p, q, TRUE)
          /\ dialling' = Set(dialling, p, q, FALSE)
          /\ stream' = [s EXCEPT ![p][q] = Append(@, "NEW_INCOMING_CONNECTION")]
     ELSE /\ stream' = s
          /\ UNCHANGED <<connectMode, told, dialling>>
  /\ heard' = Set(heard, p, q, "present")
  /\ UNCHANGED <<weInitiated, guidOf, banned>>

Receive(p, q) ==
  /\ Active(p, q) /\ dropping[p] = NoPeer /\ q \notin banned[p]
  /\ \E k \in Deliverable(q, p) :
       LET message == stream[q][p][k]
           s == [stream EXCEPT ![q][p] = RemoveAt(@, k)]
       IN \/ OnNonsense(p, q, message, s)
          \/ OnConnectionRequest(p, q, message, s)
          \/ OnNewIncomingConnection(p, q, message, s)
          \/ OnDisconnectionNotification(p, q, message, s)
          \/ OnInvalidPassword(p, q, message, s)
          \/ OnConnectionRequestAccepted(p, q, message, s)
  /\ UNCHANGED <<setting, requestsMade, wire, dropping, calling, guid, spent>>

\* To a slot that has heard of a former slot of the sender, a message of the
\* present one may look like a duplicate: it is acknowledged and dropped.
TakenForDuplicate(p, q) ==
  /\ Active(p, q) /\ heard[p][q] = "former" /\ q \notin banned[p]
  /\ \E k \in Deliverable(q, p) : stream' = [stream EXCEPT ![q][p] = RemoveAt(@, k)]
  /\ UNCHANGED <<setting, requestsMade, slots, wire, banned, dropping, users, guid, spent>>

----------------------------------------------------------------------------
(* The update cycle: slots to drop *)

\* The other side does not answer any more.
Gone(p, q) == ~Active(q, p) \/ p \in banned[q]

\* The handshake has taken 10 s, the connection is dead, or it has been closed
\* and nothing is left to be sent or acknowledged.
TimedOut(p, q) == connectMode[p][q] \in Handshaking
Closed(p, q) ==
  \/ connectMode[p][q] \in {"DISCONNECT_ASAP", "DISCONNECT_ASAP_SILENTLY"} /\ stream[p][q] = <<>>
  \/ connectMode[p][q] = "DISCONNECT_ON_NO_ACK"

\* A variant of Announce that is silent about dead connections.
AnnounceClosedOnly(p, q) ==
  /\ told' = IF connectMode[p][q] \in {"DISCONNECT_ASAP", "DISCONNECT_ON_NO_ACK"}
             THEN Set(told, p, q, FALSE) ELSE told
  /\ dialling' = IF connectMode[p][q] \in {"REQUESTED_CONNECTION", "DISCONNECT_ASAP",
                                           "DISCONNECT_ON_NO_ACK"}
                 THEN Set(dialling, p, q, FALSE) ELSE dialling

\* A variant of it that is silent about attempts that fail.
AnnounceConnectedOnly(p, q) ==
  /\ told' = IF connectMode[p][q] \in {"CONNECTED", "DISCONNECT_ASAP", "DISCONNECT_ON_NO_ACK"}
             THEN Set(told, p, q, FALSE) ELSE told
  /\ UNCHANGED dialling

\* What the user is told of a dropped slot: ID_CONNECTION_LOST,
\* ID_CONNECTION_ATTEMPT_FAILED or ID_DISCONNECTION_NOTIFICATION.
Announce(p, q) ==
  /\ told' = IF connectMode[p][q] \in {"CONNECTED", "DISCONNECT_ASAP", "DISCONNECT_ON_NO_ACK"}
             THEN Set(told, p, q, FALSE) ELSE told
  /\ dialling' = IF connectMode[p][q] \in {"REQUESTED_CONNECTION", "DISCONNECT_ASAP",
                                           "DISCONNECT_ON_NO_ACK"}
                 THEN Set(dialling, p, q, FALSE) ELSE dialling

Drop(p, q) ==
  /\ Active(p, q) /\ dropping[p] = NoPeer
  /\ Announce(p, q)
  /\ dropping' = [dropping EXCEPT ![p] = q]
  /\ UNCHANGED <<setting, requestsMade, slots, wire, stream, banned, calling, guid>>

Expire(p, q) ==
  /\ TimedOut(p, q) \/ Closed(p, q) \/ Gone(p, q)
  /\ Drop(p, q)
  /\ UNCHANGED spent

\* The network fails between two slots that are both there.
Fail(p, q) ==
  /\ connectMode[p][q] \notin Handshaking
  /\ Spend("faults")
  /\ Drop(p, q)

\* The user is told first, and the slot freed afterwards.
FreeSlot(p) ==
  LET q == dropping[p] IN
  /\ q # NoPeer
  /\ CloseConnectionInternal(p, q)
  /\ dropping' = [dropping EXCEPT ![p] = NoPeer]
  /\ UNCHANGED <<setting, requestsMade, wire, stream, banned, users, guid, spent>>

BanExpires(p, q) ==
  /\ q \in banned[p]
  /\ banned' = [banned EXCEPT ![p] = @ \ {q}]
  /\ UNCHANGED <<setting, requestsMade, slots, wire, stream, dropping, users, guid, spent>>

\* The process ends at any point and is started again.
Restart(p) ==
  /\ Spend("restarts")
  /\ guid' = [guid EXCEPT ![p] = @ + 1]
  /\ requestsMade' = [requestsMade EXCEPT ![p] = [q \in Peer |-> NotQueued]]
  /\ connectMode' = [connectMode EXCEPT ![p] = [q \in Peer |-> Free]]
  /\ heard' = [r \in Peer |-> [heard[r] EXCEPT ![p] = Forsaken(@)]]
  /\ banned' = [banned EXCEPT ![p] = {}]
  /\ dropping' = [dropping EXCEPT ![p] = NoPeer]
  /\ calling' = [calling EXCEPT ![p] = NoPeer]
  /\ dialling' = [dialling EXCEPT ![p] = [q \in Peer |-> FALSE]]
  /\ told' = [told EXCEPT ![p] = [q \in Peer |-> FALSE]]
  /\ UNCHANGED <<setting, weInitiated, guidOf, wire, stream>>

----------------------------------------------------------------------------

Everyone(x) == [p \in Peer |-> x]
Everywhere(x) == Everyone(Everyone(x))

Init ==
  /\ setting \in Settings
  /\ requestsMade = Everywhere(NotQueued)
  /\ connectMode = Everywhere(Free)
  /\ weInitiated = Everywhere(FALSE) /\ guidOf = Everywhere(<<NoPeer, 0>>) /\ heard = Everywhere("nothing")
  /\ wire = {}
  /\ stream = Everywhere(<<>>)
  /\ banned = Everyone({})
  /\ dropping = Everyone(NoPeer) /\ calling = Everyone(NoPeer)
  /\ dialling = Everywhere(FALSE) /\ told = Everywhere(FALSE)
  /\ guid = Everyone(0)
  /\ spent = [b \in Budgets |-> 0]

User(p) ==
  \/ PushRequest(p)
  \/ \E q \in Peer :
       Connect(p, q) \/ CancelConnectionAttempt(p, q) \/ CloseConnection(p, q)

Attempts(p, q) == SendRequest1(p, q) \/ GiveUp(p, q)

Network(p) ==
  \/ \E m \in wire : ProcessOfflineNetworkPacket(p, m)
  \/ FreeSlot(p)
  \/ \E q \in Peer :
       Attempts(p, q) \/ Receive(p, q) \/ TakenForDuplicate(p, q)
       \/ Expire(p, q) \/ Fail(p, q) \/ BanExpires(p, q)

Next == \E p \in Peer : User(p) \/ Network(p) \/ Restart(p)

Spec == Init /\ [][Next]_vars

\* Who ever dials whom, and the two ends of each such connection.
Dials == UNION {s.dials : s \in Settings}
Ends == Dials \cup {<<d[2], d[1]>> : d \in Dials}

\* The update cycle goes through the queue and the slots: attempts are retried,
\* messages between two live slots arrive, what can no longer succeed times out.
Fairness ==
  /\ \A p \in Peer : WF_vars(PushRequest(p)) /\ WF_vars(FreeSlot(p))
  /\ \A d \in Dials : WF_vars(Attempts(d[1], d[2]))
  /\ \A e \in Ends : WF_vars(Receive(e[1], e[2])) /\ WF_vars(Expire(e[1], e[2]))

FairSpec == Spec /\ Fairness

----------------------------------------------------------------------------
(* Properties *)

\* Types.  In particular the counter of an attempt never passes the value at
\* which the attempt is given up, which it is compared with for equality.
TypeOK ==
  /\ setting \in Settings
  /\ requestsMade \in [Peer -> [Peer -> NotQueued..SendConnectionAttemptCount + 1]]
  /\ connectMode \in [Peer -> [Peer -> ConnectMode \cup {Free}]]
  /\ weInitiated \in [Peer -> [Peer -> BOOLEAN]]
  /\ guidOf \in [Peer -> [Peer -> (Peer \cup {NoPeer}) \X Nat]]
  /\ heard \in [Peer -> [Peer -> {"nothing", "present", "former"}]]
  /\ wire \subseteq [type : Offline \cup Refusals, from : Peer, to : Peer, guid : Peer \X Nat]
  /\ stream \in [Peer -> [Peer -> Seq(Unordered \cup Ordered)]]
  /\ banned \in [Peer -> SUBSET Peer]
  /\ dropping \in [Peer -> Peer \cup {NoPeer}] /\ calling \in [Peer -> Peer \cup {NoPeer}]
  /\ dialling \in [Peer -> [Peer -> BOOLEAN]] /\ told \in [Peer -> [Peer -> BOOLEAN]]
  /\ guid \in [Peer -> Nat]
  /\ spent \in [Budgets -> Nat]

OneWay(p, q) == ~({<<p, q>>, <<q, p>>} \subseteq setting.dials)

\* While an attempt is queued, or about to be, there is no slot for its target,
\* unless both dial: a reply that is late or comes twice finds
\* either the attempt or the slot, never both.
NoSlotWhileQueued ==
  \A p, q \in Peer :
    OneWay(p, q) /\ (Queued(p, q) \/ calling[p] = q) => ~Active(p, q)

\* A user is told of every connection and, unless both dial, of the end of each:
\* whatever the order of messages, timeouts and calls, he does not take a system
\* for connected that has no slot any more, and no connection stays hidden.
UserKnowsConnections ==
  \A p, q \in Peer :
    /\ connectMode[p][q] = "CONNECTED" /\ dropping[p] # q => told[p][q]
    /\ told[p][q] /\ OneWay(p, q) =>
         /\ connectMode[p][q] \in {"CONNECTED", "DISCONNECT_ASAP", "DISCONNECT_ON_NO_ACK"}
         /\ dropping[p] # q

\* An attempt with the wrong password makes no connection on either side, unless
\* the other side dials too.
PasswordsMatch ==
  \A p, q \in Peer :
    <<p, q>> \in setting.wrongPassword /\ OneWay(p, q) => ~told[p][q] /\ ~told[q][p]

\* A slot that is CONNECTED is never turned back to waiting for an answer,
\* unless both dial ...
NotDowngraded ==
  [][\A p, q \in Peer :
       OneWay(p, q) /\ connectMode[p][q] = "CONNECTED" =>
         connectMode'[p][q] # "REQUESTED_CONNECTION"]_vars

\* ... or never at all: a connection request, says the comment on crossing
\* ones, must not take a connection back from CONNECTED.
NeverDowngraded ==
  [][\A p, q \in Peer :
       connectMode[p][q] = "CONNECTED" => connectMode'[p][q] # "REQUESTED_CONNECTION"]_vars

\* Unless both dial, every attempt is answered: accepted, refused or failed.
DialAnswered ==
  \A d \in Dials :
    dialling[d[1]][d[2]] /\ OneWay(d[1], d[2]) ~> ~dialling[d[1]][d[2]]

\* Unless both dial, the two sides agree in the end: a connection that only one
\* of them knows of becomes known to both, or the one is told that it is lost.
\* (What disturbs them is bounded.)
HalfOpenResolved ==
  <>[](\A d \in Dials : OneWay(d[1], d[2]) => (told[d[1]][d[2]] <=> told[d[2]][d[1]]))

=============================================================================
