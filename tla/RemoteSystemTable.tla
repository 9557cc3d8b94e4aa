-------------------------- MODULE RemoteSystemTable --------------------------
(***************************************************************************)
(* RakPeer's table of remote systems, as the network thread keeps it:      *)
(* slots (remoteSystemList) that are reused, the chained hash table that   *)
(* leads from an address to its slot (remoteSystemLookup) and the list of  *)
(* slots in use that each update cycle goes through (activeSystemList).    *)
(*                                                                         *)
(* A slot that is given up keeps its address, and its place in the hash    *)
(* table, until it is used again or its address is assigned elsewhere.     *)
(***************************************************************************)
EXTENDS Integers, Sequences

CONSTANTS
  MaximumNumberOfPeers,
  SystemAddress, Guid,
  Bucket, HashIndex,              \* the hash function and its range
  UnassignedAddress, UnassignedGuid,
  SharedReroutes   \* may a connection be moved to an address that is in use?

ASSUME TableAssumption ==
  /\ MaximumNumberOfPeers \in Nat
  /\ HashIndex \in [SystemAddress -> Bucket]
  /\ UnassignedAddress \notin SystemAddress
  /\ UnassignedGuid \notin Guid
  /\ SharedReroutes \in BOOLEAN

Slot == 0..MaximumNumberOfPeers - 1
NoSlot == -1

VARIABLES
  systemAddress, guid, isActive,   \* by slot: RemoteSystemStruct
  remoteSystemLookup,              \* bucket -> chain of slots
  activeSystemList,                \* slots in use, in the order of the update cycle
  cursor    \* activeSystemListIndex, from 1; 0 outside of the update loop

slots == <<systemAddress, guid, isActive>>
vars == <<systemAddress, guid, isActive, remoteSystemLookup, activeSystemList, cursor>>

----------------------------------------------------------------------------
(* Lookups *)

\* The positions of a list of slots at which a slot has address sa, and the
\* first of them, where every scan of the code stops.
Matches(list, sa) == {k \in DOMAIN list : systemAddress[list[k]] = sa}
FirstMatch(list, sa) ==
  CHOOSE k \in Matches(list, sa) : \A j \in Matches(list, sa) : k <= j

\* The slot that a hash table leads to from address sa.
IndexIn(lookup, sa) ==
  LET chain == lookup[HashIndex[sa]] IN
  IF Matches(chain, sa) = {} THEN NoSlot ELSE chain[FirstMatch(chain, sa)]

GetRemoteSystemIndex(sa) == IndexIn(remoteSystemLookup, sa)

\* GetRemoteSystemFromSystemAddress, called from the network thread and for
\* an active system only.
Connected(sa) ==
  GetRemoteSystemIndex(sa) # NoSlot /\ isActive[GetRemoteSystemIndex(sa)]

\* ... and called from another thread: a scan of the slots.
ScannedSlots(sa) == {i \in Slot : systemAddress[i] = sa /\ isActive[i]}

\* GetRemoteSystemFromGUID, for an active system only.
HasGuid(g) == {i \in Slot : guid[i] = g /\ isActive[i]}
IsFirst(i, S) == i \in S /\ \A j \in S : i <= j

----------------------------------------------------------------------------
(* The hash table *)

RemovePosition(list, p) ==
  [k \in 1..Len(list) - 1 |-> IF k < p THEN list[k] ELSE list[k + 1]]

\* DereferenceRemoteSystem
Dereferenced(lookup, sa) ==
  LET chain == lookup[HashIndex[sa]] IN
  IF Matches(chain, sa) = {} THEN lookup
  ELSE [lookup EXCEPT ![HashIndex[sa]] = RemovePosition(chain, FirstMatch(chain, sa))]

\* The slot's old address left in the table.
ReferenceKeepsOld(sa, i) ==
  /\ remoteSystemLookup' =
       [Dereferenced(remoteSystemLookup, sa) EXCEPT ![HashIndex[sa]] = Append(@, i)]
  /\ systemAddress' = [systemAddress EXCEPT ![i] = sa]

\* The address's old slot left in the table.
ReferenceKeepsStale(sa, i) ==
  /\ remoteSystemLookup' = [remoteSystemLookup EXCEPT ![HashIndex[sa]] = Append(@, i)]
  /\ systemAddress' = [systemAddress EXCEPT ![i] = sa]

\* The slot's old entry goes if it is the slot's own, then the entry that the
\* address has from an earlier connection; then slot i is entered.
ReferenceRemoteSystem(sa, i) ==
  LET old == systemAddress[i]
      freed == IF old # UnassignedAddress /\ GetRemoteSystemIndex(old) = i
               THEN Dereferenced(remoteSystemLookup, old) ELSE remoteSystemLookup
  IN
  /\ remoteSystemLookup' =
       [Dereferenced(freed, sa) EXCEPT ![HashIndex[sa]] = Append(@, i)]
  /\ systemAddress' = [systemAddress EXCEPT ![i] = sa]

----------------------------------------------------------------------------
(* The active list *)

\* New systems at the head of the list.
AddToFront(i) == activeSystemList' = <<i>> \o activeSystemList

\* The slot after the one that was assigned.
AddNext(i) == activeSystemList' = Append(activeSystemList, i + 1)

AddToActiveSystemList(i) == activeSystemList' = Append(activeSystemList, i)

\* The list shortened without the last entry being moved to the gap.
RemoveLast(sa) ==
  activeSystemList' =
    IF Matches(activeSystemList, sa) = {} THEN activeSystemList
    ELSE SubSeq(activeSystemList, 1, Len(activeSystemList) - 1)

\* The last entry takes the place of the first one with address sa.
RemoveFromActiveSystemList(sa) ==
  LET last == Len(activeSystemList) IN
  activeSystemList' =
    IF Matches(activeSystemList, sa) = {} THEN activeSystemList
    ELSE [k \in 1..last - 1 |-> IF k = FirstMatch(activeSystemList, sa)
                                THEN activeSystemList[last] ELSE activeSystemList[k]]

----------------------------------------------------------------------------
(* Operations *)

\* AssignSystemAddressToRemoteSystemList, when a slot is free: the first one.
AssignSystemAddressToRemoteSystemList(sa, g) ==
  \E i \in Slot :
    /\ IsFirst(i, {j \in Slot : ~isActive[j]})
    /\ ReferenceRemoteSystem(sa, i)
    /\ guid' = [guid EXCEPT ![i] = g]
    /\ isActive' = [isActive EXCEPT ![i] = TRUE]
    /\ AddToActiveSystemList(i)

\* ID_OPEN_CONNECTION_REQUEST_2: a system connects to this one. Neither its
\* address nor its GUID may be in use.
OpenConnectionRequest2(sa, g) ==
  /\ cursor = 0
  /\ ~Connected(sa) /\ HasGuid(g) = {}
  /\ AssignSystemAddressToRemoteSystemList(sa, g)
  /\ UNCHANGED cursor

\* ID_OPEN_CONNECTION_REPLY_2: this system connects to another, whose GUID is
\* not looked at.
OpenConnectionReply2(sa, g) ==
  /\ cursor = 0
  /\ ~Connected(sa)
  /\ AssignSystemAddressToRemoteSystemList(sa, g)
  /\ UNCHANGED cursor

\* The slot left active.
CloseKeepsSlot(sa) ==
  IF Connected(sa)
  THEN LET i == GetRemoteSystemIndex(sa) IN
       /\ RemoveFromActiveSystemList(sa)
       /\ UNCHANGED <<slots, remoteSystemLookup>>
  ELSE UNCHANGED <<slots, remoteSystemLookup, activeSystemList>>

\* CloseConnectionInternal, at once and without a notification.
CloseConnectionInternal(sa) ==
  IF Connected(sa)
  THEN LET i == GetRemoteSystemIndex(sa) IN
       /\ RemoveFromActiveSystemList(sa)
       /\ isActive' = [isActive EXCEPT ![i] = FALSE]
       /\ guid' = [guid EXCEPT ![i] = UnassignedGuid]
       /\ UNCHANGED <<systemAddress, remoteSystemLookup>>
  ELSE UNCHANGED <<slots, remoteSystemLookup, activeSystemList>>

\* BCS_CLOSE_CONNECTION
CloseConnection(sa) ==
  /\ cursor = 0
  /\ CloseConnectionInternal(sa)
  /\ UNCHANGED cursor

\* BCS_CHANGE_SYSTEM_ADDRESS: the connection of GUID g is moved to address sa.
\* The code does not ask whether the old address was found; that it was not
\* takes an earlier move to a shared address, and is left out.
ChangeSystemAddress(g, sa) ==
  /\ cursor = 0
  /\ SharedReroutes \/ ~Connected(sa)
  /\ \E j \in Slot :
       LET i == GetRemoteSystemIndex(systemAddress[j]) IN
       IsFirst(j, HasGuid(g)) /\ i # NoSlot /\ ReferenceRemoteSystem(sa, i)
  /\ UNCHANGED <<guid, isActive, activeSystemList, cursor>>

\* The update cycle, once it has read packets and commands.
StartUpdate ==
  /\ cursor = 0 /\ cursor' = 1
  /\ UNCHANGED <<slots, remoteSystemLookup, activeSystemList>>

\* The system at the cursor, in slot i, is sent and received for...
UpdateRemoteSystem(i) ==
  /\ cursor \in DOMAIN activeSystemList /\ activeSystemList[cursor] = i
  /\ cursor' = cursor + 1
  /\ UNCHANGED <<slots, remoteSystemLookup, activeSystemList>>

\* ... or found dead, or to send nonsense before it is verified, and closed.
\* The entry that takes its place in the list has to wait for the next cycle.
DropRemoteSystem ==
  /\ cursor \in DOMAIN activeSystemList
  /\ CloseConnectionInternal(systemAddress[activeSystemList[cursor]])
  /\ cursor' = cursor + 1

EndUpdate ==
  /\ cursor > Len(activeSystemList) /\ cursor' = 0
  /\ UNCHANGED <<slots, remoteSystemLookup, activeSystemList>>

UpdateCycle ==
  \/ StartUpdate
  \/ \E i \in Slot : UpdateRemoteSystem(i)
  \/ DropRemoteSystem
  \/ EndUpdate

\* Startup
Init ==
  /\ systemAddress = [i \in Slot |-> UnassignedAddress]
  /\ guid = [i \in Slot |-> UnassignedGuid]
  /\ isActive = [i \in Slot |-> FALSE]
  /\ remoteSystemLookup = [b \in Bucket |-> <<>>]
  /\ activeSystemList = <<>>
  /\ cursor = 0

Next ==
  \/ \E sa \in SystemAddress, g \in Guid :
       \/ OpenConnectionRequest2(sa, g)
       \/ OpenConnectionReply2(sa, g)
       \/ ChangeSystemAddress(g, sa)
  \/ \E sa \in SystemAddress : CloseConnection(sa)
  \/ UpdateCycle

Spec == Init /\ [][Next]_vars

\* The network thread keeps running: it reads what has arrived and then
\* updates, again and again.
FairSpec == Spec /\ WF_vars(UpdateCycle)

----------------------------------------------------------------------------
(* Properties *)

TypeOK ==
  /\ systemAddress \in [Slot -> SystemAddress \cup {UnassignedAddress}]
  /\ guid \in [Slot -> Guid \cup {UnassignedGuid}]
  /\ isActive \in [Slot -> BOOLEAN]
  /\ remoteSystemLookup \in [Bucket -> Seq(Slot)]
  /\ activeSystemList \in Seq(Slot)
  /\ cursor \in Nat

\* Every active system is found under its address, by the network thread's
\* hash lookup and by the other threads' scan alike, however often slots and
\* addresses have been reused.
ActiveSystemsFound ==
  \A sa \in SystemAddress :
    ScannedSlots(sa) = IF Connected(sa) THEN {GetRemoteSystemIndex(sa)} ELSE {}

\* The update cycle goes through the active systems, each of them once.
ActiveListExact ==
  /\ \A i \in Slot : isActive[i] <=> \E k \in DOMAIN activeSystemList : activeSystemList[k] = i
  /\ \A j, k \in DOMAIN activeSystemList :
       activeSystemList[j] = activeSystemList[k] => j = k

\* A system that stays active is updated again and again, although a system
\* that is dropped has the last one of the list skipped.
EveryoneUpdated ==
  \A i \in Slot : <>[]isActive[i] => []<><<UpdateRemoteSystem(i)>>_vars

\* The table is a map from the addresses that are connected to GUIDs.
ConnectedAddresses == {systemAddress[i] : i \in {j \in Slot : isActive[j]}}
Connection ==
  [sa \in ConnectedAddresses |-> guid[CHOOSE i \in Slot : isActive[i] /\ systemAddress[i] = sa]]

Table == INSTANCE RemoteSystems WITH connection <- Connection

ImplementsRemoteSystems == Table!Spec

=============================================================================
