---------------------- MODULE ReplicaManager3Links_proofs ----------------------
(***************************************************************************)
(* The two ends of a link agree on it: what each side of a connection has  *)
(* still to read of it, and what it has confirmed.                         *)
(***************************************************************************)
EXTENDS ReplicaManager3_proofs

\* A packet of a type is in the list.
Holds(list, type) == \E k \in DOMAIN list : list[k].type = type

\* Every packet of a type has one of another type behind it.
Followed(list, type, later) ==
  \A k \in DOMAIN list : list[k].type = type =>
    \E j \in DOMAIN list : k < j /\ list[j].type = later

Once(list, type) ==
  \A j, k \in DOMAIN list : list[j].type = type /\ list[k].type = type => j = k

\* What plugin messages that are put into an inbox change for a link.
More(list, l) ==
  /\ Holds(l, "NewConnection") <=> Holds(list, "NewConnection")
  /\ Holds(l, "ConnectionLost") <=> Holds(list, "ConnectionLost")
  /\ Holds(list, "ScopeChange") => Holds(l, "ScopeChange")
  /\ Followed(list, "NewConnection", "ConnectionLost") =>
       Followed(l, "NewConnection", "ConnectionLost")
  /\ Followed(list, "NewConnection", "ScopeChange") =>
       Followed(l, "NewConnection", "ScopeChange")
  /\ Once(list, "NewConnection") => Once(l, "NewConnection")

Events == {"NewConnection", "ConnectionLost"}

----------------------------------------------------------------------------
(* Lists of packets *)

\* A plugin's message is a packet.
LEMMA MessagesArePackets == Message \subseteq Packet /\ Seq(Message) \subseteq Seq(Packet)
<1>1. Message \subseteq Packet
  BY DEF Packet
<1> QED
  BY <1>1, SeqMonotonic

\* RakPeer's own packets are no messages and have always arrived.
LEMMA PacketKinds ==
  ASSUME NEW p \in Packet
  PROVE  /\ p \in Message => p.type \notin Events
         /\ p.type \in Events => p.arrived = TRUE /\ p = Event(p.type)
<1>1. p \in Message => p.type \notin Events
  BY DEF Message, Events
<1>2. ASSUME p.type \in Events PROVE p.arrived = TRUE /\ p = Event(p.type)
  <2>1. p \in [type : {"NewConnection", "ConnectionLost"}, arrived : {TRUE}]
    BY <1>1, <1>2 DEF Packet
  <2> QED
    BY <2>1 DEF Event
<1> QED
  BY <1>1, <1>2

\* list with more put in behind its first n packets.
Widened(list, n, more, l) ==
  /\ l \in Seq(Packet) /\ Len(l) = Len(list) + Len(more)
  /\ \A i \in 1..n : l[i] = list[i]
  /\ \A i \in 1..Len(more) : l[n + i] = more[i]
  /\ \A i \in n+1..Len(list) : l[Len(more) + i] = list[i]

\* Where a packet has gone.
Moved(n, k, i) == IF i =< n THEN i ELSE k + i

Places(list, n, more, l) ==
  /\ DOMAIN list = 1..Len(list) /\ DOMAIN l = 1..Len(l)
  /\ n \in Nat /\ Len(list) \in Nat /\ Len(more) \in Nat /\ Len(l) \in Nat
  /\ \A i \in DOMAIN list : Moved(n, Len(more), i) \in DOMAIN l
                            /\ l[Moved(n, Len(more), i)] = list[i]
  /\ \A k \in DOMAIN l : \/ k \in n+1..n+Len(more) /\ l[k] = more[k - n]
                         \/ \E i \in DOMAIN list : k = Moved(n, Len(more), i)
  /\ \A i, j \in DOMAIN list : i < j => Moved(n, Len(more), i) < Moved(n, Len(more), j)

\* Every packet of the widened list is an old one at its new place or one of
\* those put in.
LEMMA WidenedPlaces ==
  ASSUME NEW list \in Seq(Packet), NEW n \in 0..Len(list), NEW more \in Seq(Packet), NEW l,
         Widened(list, n, more, l)
  PROVE  Places(list, n, more, l)
<1> DEFINE a == Len(list)
           b == Len(more)
<1>1. a \in Nat /\ b \in Nat /\ n \in Nat /\ n =< a /\ DOMAIN list = 1..a
  OBVIOUS
<1>2. l \in Seq(Packet) /\ Len(l) = a + b
  BY DEF Widened
<1>3. DOMAIN l = 1..a+b
  BY <1>2
<1>4. /\ \A i \in 1..n : l[i] = list[i]
      /\ \A i \in 1..b : l[n + i] = more[i]
      /\ \A i \in n+1..a : l[b + i] = list[i]
  BY DEF Widened
<1> HIDE DEF a, b
<1>5. ASSUME NEW i \in 1..a
      PROVE  Moved(n, b, i) \in 1..a+b /\ l[Moved(n, b, i)] = list[i]
  <2>1. CASE i =< n
    <3>1. Moved(n, b, i) = i /\ i \in 1..a+b /\ i \in 1..n
      BY <1>1, <2>1 DEF Moved
    <3> QED
      BY <1>4, <3>1
  <2>2. CASE ~(i =< n)
    <3>1. Moved(n, b, i) = b + i /\ b + i \in 1..a+b /\ i \in n+1..a
      BY <1>1, <2>2 DEF Moved
    <3> QED
      BY <1>4, <3>1
  <2> QED
    BY <2>1, <2>2
<1>6. ASSUME NEW k \in 1..a+b
      PROVE  \/ k \in n+1..n+b /\ l[k] = more[k - n]
             \/ \E i \in 1..a : k = Moved(n, b, i)
  <2>1. CASE k =< n
    <3>1. k \in 1..a /\ k = Moved(n, b, k)
      BY <1>1, <2>1 DEF Moved
    <3> QED
      BY <3>1
  <2>2. CASE n < k /\ k =< n + b
    <3>1. k - n \in 1..b /\ n + (k - n) = k /\ k \in n+1..n+b
      BY <1>1, <2>2
    <3>2. l[n + (k - n)] = more[k - n]
      BY <1>4, <3>1
    <3> QED
      BY <3>1, <3>2
  <2>3. CASE n + b < k
    <3>1. k - b \in 1..a /\ k = Moved(n, b, k - b)
      BY <1>1, <2>3 DEF Moved
    <3> QED
      BY <3>1
  <2> QED
    BY <1>1, <2>1, <2>2, <2>3
<1>7. ASSUME NEW i \in 1..a, NEW j \in 1..a, i < j
      PROVE  Moved(n, b, i) < Moved(n, b, j)
  BY <1>1, <1>7 DEF Moved
<1>8. Len(l) \in Nat /\ DOMAIN l = 1..Len(l)
  BY <1>1, <1>2, <1>3
<1> QED
  BY <1>1, <1>3, <1>5, <1>6, <1>7, <1>8 DEF Places, a, b

\* Messages of the plugin change nothing but that there may be a ScopeChange.
LEMMA WidenedWithMessages ==
  ASSUME NEW list \in Seq(Packet), NEW n \in 0..Len(list), NEW more \in Seq(Message), NEW l,
         Widened(list, n, more, l)
  PROVE  More(list, l)
<1> DEFINE at(i) == Moved(n, Len(more), i)
<1>0. more \in Seq(Packet)
  BY MessagesArePackets
<1>1. /\ \A i \in DOMAIN list : at(i) \in DOMAIN l /\ l[at(i)] = list[i]
      /\ \A k \in DOMAIN l : \/ k \in n+1..n+Len(more) /\ l[k] = more[k - n]
                             \/ \E i \in DOMAIN list : k = at(i)
      /\ \A i, j \in DOMAIN list : i < j => at(i) < at(j)
      /\ DOMAIN list = 1..Len(list) /\ n \in Nat /\ Len(more) \in Nat
  <2>1. Places(list, n, more, l)
    BY <1>0, WidenedPlaces
  <2> QED
    BY <2>1 DEF Places
<1> HIDE DEF at
<1>2. ASSUME NEW k \in DOMAIN l, l[k].type \in Events
      PROVE  \E i \in DOMAIN list : k = at(i) /\ l[k] = list[i]
  <2>1. CASE k \in n+1..n+Len(more) /\ l[k] = more[k - n]
    <3>1. k - n \in 1..Len(more)
      BY <1>1, <2>1
    <3>2. l[k] \in Message /\ l[k] \in Packet
      BY <2>1, <3>1, MessagesArePackets
    <3> QED
      BY <1>2, <3>2, PacketKinds
  <2>2. CASE \E i \in DOMAIN list : k = at(i)
    BY <1>1, <2>2
  <2> QED
    BY <1>1, <2>1, <2>2
<1>3. ASSUME NEW t PROVE Holds(list, t) => Holds(l, t)
  BY <1>1 DEF Holds
<1>4. ASSUME NEW t \in Events PROVE Holds(l, t) => Holds(list, t)
  BY <1>2 DEF Holds
<1>5. ASSUME NEW t \in Events, NEW u, Followed(list, t, u) PROVE Followed(l, t, u)
  <2>1. ASSUME NEW k \in DOMAIN l, l[k].type = t
        PROVE  \E j \in DOMAIN l : k < j /\ l[j].type = u
    <3>1. PICK i \in DOMAIN list : k = at(i) /\ l[k] = list[i]
      BY <1>2, <2>1
    <3>2. PICK j \in DOMAIN list : i < j /\ list[j].type = u
      BY <1>5, <2>1, <3>1 DEF Followed
    <3>3. at(j) \in DOMAIN l /\ l[at(j)].type = u /\ k < at(j)
      BY <1>1, <3>1, <3>2
    <3> QED
      BY <3>3
  <2> QED
    BY <2>1 DEF Followed
<1>6. ASSUME NEW t \in Events, Once(list, t) PROVE Once(l, t)
  BY <1>2, <1>6 DEF Once
<1>7. "NewConnection" \in Events /\ "ConnectionLost" \in Events
  BY DEF Events
<1> QED
  BY <1>3, <1>4, <1>5, <1>6, <1>7 DEF More

\* An inbox that does not change changes nothing for a link.
LEMMA SameInbox ==
  ASSUME NEW list
  PROVE  More(list, list)
  BY DEF More

\* What is sent to a system is put behind what it has still to read.
LEMMA AppendedMessages ==
  ASSUME NEW list \in Seq(Packet), NEW more \in Seq(Message)
  PROVE  /\ Widened(list, Len(list), more, list \o more)
         /\ More(list, list \o more)
<1>1. more \in Seq(Packet)
  BY MessagesArePackets
<1>2. Joined(Packet, list \o more, list, more)
  BY <1>1, Concatenated
<1> DEFINE l == list \o more
<1> HIDE DEF l
<1>3. Widened(list, Len(list), more, l)
  BY <1>2 DEF Joined, Widened, l
<1>4. Len(list) \in 0..Len(list)
  OBVIOUS
<1> QED
  BY <1>3, <1>4, WidenedWithMessages DEF l

\* InsertedAt widens a list.
LEMMA InsertedWidens ==
  ASSUME NEW list \in Seq(Packet), NEW n \in 0..Len(list), NEW more \in Seq(Packet)
  PROVE  Widened(list, n, more, InsertedAt(list, n, more))
<1> DEFINE l == InsertedAt(list, n, more)
<1>1. /\ l \in Seq(Packet) /\ Len(l) = Len(list) + Len(more)
      /\ \A i \in 1..n : l[i] = list[i]
      /\ \A i \in 1..Len(more) : l[n + i] = more[i]
      /\ \A i \in n+1..Len(list) : l[Len(more) + i] = list[i]
  BY InsertedPackets
<1> HIDE DEF l
<1>2. Widened(list, n, more, l)
  BY <1>1 DEF Widened
<1> QED
  BY <1>2 DEF l

\* The answer to a validation is behind every packet that was there.
LEMMA ScopeChangeSent ==
  ASSUME NEW list \in Seq(Packet), NEW more \in Seq(Message), NEW k \in DOMAIN more,
         more[k].type = "ScopeChange"
  PROVE  /\ Holds(list \o more, "ScopeChange")
         /\ Followed(list \o more, "NewConnection", "ScopeChange")
<1> DEFINE l == list \o more
           a == Len(list)
           b == Len(more)
<1>0. more \in Seq(Packet)
  BY MessagesArePackets
<1>1. /\ l \in Seq(Packet) /\ Len(l) = a + b /\ a \in Nat /\ b \in Nat
      /\ \A i \in 1..b : l[a + i] = more[i]
  <2>1. Joined(Packet, l, list, more)
    BY <1>0, Concatenated
  <2> HIDE DEF l
  <2> QED
    BY <2>1 DEF Joined
<1> HIDE DEF l
<1>2. DOMAIN l = 1..a+b
  BY <1>1
<1>3. k \in 1..b /\ a + k \in DOMAIN l /\ l[a + k].type = "ScopeChange"
  BY <1>1, <1>2
<1>4. ASSUME NEW i \in DOMAIN l, l[i].type = "NewConnection" PROVE i < a + 1
  <2> SUFFICES ASSUME a + 1 =< i PROVE FALSE
    BY <1>1, <1>2
  <2>1. i - a \in 1..b /\ a + (i - a) = i
    BY <1>1, <1>2
  <2>2. l[i] = more[i - a]
    BY <1>1, <2>1
  <2>3. l[i] \in Message /\ l[i] \in Packet
    BY <2>1, <2>2, MessagesArePackets
  <2> QED
    BY <1>4, <2>3, PacketKinds DEF Events
<1>5. ASSUME NEW i \in DOMAIN l, l[i].type = "NewConnection" PROVE i < a + k
  BY <1>1, <1>2, <1>3, <1>4, <1>5
<1> QED
  BY <1>3, <1>5 DEF Holds, Followed, l

\* What is left when the first packet has been read.
LEMMA HeadRead ==
  ASSUME NEW list \in Seq(Packet), list # <<>>
  PROVE  LET rest == Tail(list)
             type == Head(list).type
         IN /\ rest \in Seq(Packet)
            /\ \A t : Holds(list, t) <=> type = t \/ Holds(rest, t)
            /\ \A t, u : Followed(list, t, u) => Followed(rest, t, u)
            /\ \A t, u : Followed(list, t, u) /\ type = t => Holds(rest, u)
            /\ \A t : Once(list, t) => Once(rest, t)
            /\ \A t : Once(list, t) /\ type = t => ~Holds(rest, t)
<1> DEFINE rest == Tail(list)
           a == Len(list)
<1>1. /\ rest \in Seq(Packet) /\ a \in Nat /\ a >= 1 /\ Len(rest) = a - 1
      /\ Head(list) = list[1] /\ \A i \in 1..a-1 : rest[i] = list[i + 1]
  BY RestOfList
<1>2. DOMAIN list = 1..a /\ DOMAIN rest = 1..a-1
  BY <1>1
<1> HIDE DEF rest, a
<1>3. ASSUME NEW k \in DOMAIN list, k # 1
      PROVE  k - 1 \in DOMAIN rest /\ rest[k - 1] = list[k]
  <2>1. k - 1 \in 1..a-1 /\ (k - 1) + 1 = k
    BY <1>1, <1>2, <1>3
  <2> QED
    BY <1>1, <1>2, <2>1
<1>4. ASSUME NEW k \in DOMAIN rest
      PROVE  k + 1 \in DOMAIN list /\ k + 1 # 1 /\ rest[k] = list[k + 1]
  BY <1>1, <1>2
<1>5. 1 \in DOMAIN list /\ \A k \in DOMAIN list : 1 =< k /\ k \in Int
  BY <1>1, <1>2
<1>6. ASSUME NEW t PROVE Holds(list, t) <=> Head(list).type = t \/ Holds(rest, t)
  <2>1. ASSUME NEW k \in DOMAIN list, list[k].type = t, k # 1 PROVE Holds(rest, t)
    BY <1>3, <2>1 DEF Holds
  <2>2. Holds(list, t) => Head(list).type = t \/ Holds(rest, t)
    BY <1>1, <2>1 DEF Holds
  <2>3. ASSUME NEW k \in DOMAIN rest, rest[k].type = t PROVE Holds(list, t)
    BY <1>4, <2>3 DEF Holds
  <2>4. Head(list).type = t => Holds(list, t)
    BY <1>1, <1>5 DEF Holds
  <2>5. Holds(rest, t) => Holds(list, t)
    BY <2>3 DEF Holds
  <2> QED
    BY <2>2, <2>4, <2>5
<1>7. ASSUME NEW t, NEW u, Followed(list, t, u) PROVE Followed(rest, t, u)
  <2>1. ASSUME NEW k \in DOMAIN rest, rest[k].type = t
        PROVE  \E j \in DOMAIN rest : k < j /\ rest[j].type = u
    <3>1. k + 1 \in DOMAIN list /\ list[k + 1].type = t /\ k \in Int /\ 1 =< k
      BY <1>2, <1>4, <2>1
    <3>2. PICK j \in DOMAIN list : k + 1 < j /\ list[j].type = u
      BY <1>7, <3>1 DEF Followed
    <3>3. j # 1 /\ k < j - 1
      BY <1>5, <3>1, <3>2
    <3>4. j - 1 \in DOMAIN rest /\ rest[j - 1].type = u
      BY <1>3, <3>2, <3>3
    <3> QED
      BY <3>3, <3>4
  <2> QED
    BY <2>1 DEF Followed
<1>8. ASSUME NEW t, NEW u, Followed(list, t, u), Head(list).type = t PROVE Holds(rest, u)
  <2>1. PICK j \in DOMAIN list : 1 < j /\ list[j].type = u
    BY <1>1, <1>5, <1>8 DEF Followed
  <2>2. j - 1 \in DOMAIN rest /\ rest[j - 1].type = u
    BY <1>3, <2>1
  <2> QED
    BY <2>2 DEF Holds
<1>9. ASSUME NEW t, Once(list, t) PROVE Once(rest, t)
  <2>1. ASSUME NEW j \in DOMAIN rest, NEW k \in DOMAIN rest, rest[j].type = t, rest[k].type = t
        PROVE  j = k
    <3>1. j + 1 = k + 1
      BY <1>4, <1>9, <2>1 DEF Once
    <3> QED
      BY <1>2, <3>1
  <2> QED
    BY <2>1 DEF Once
<1>10. ASSUME NEW t, Once(list, t), Head(list).type = t PROVE ~Holds(rest, t)
  BY <1>1, <1>4, <1>5, <1>10 DEF Once, Holds
<1> QED
  BY <1>1, <1>6, <1>7, <1>8, <1>9, <1>10 DEF rest

\* RakPeer's own packets are in the return queue: none is among what is lost.
LEMMA EventsArrived ==
  ASSUME NEW list \in Seq(Packet), NEW n \in Arrivals(list), NEW k \in DOMAIN list,
         list[k].type \in Events
  PROVE  n \in 0..Len(list) /\ k \in 1..n
<1>1. n \in 0..Len(list) /\ \A i \in n+1..Len(list) : ~list[i].arrived
  BY DEF Arrivals
<1>2. k \in 1..Len(list) /\ Len(list) \in Nat
  OBVIOUS
<1>3. list[k] \in Packet
  OBVIOUS
<1>4. list[k].arrived
  BY <1>3, PacketKinds
<1>5. k \notin n+1..Len(list)
  BY <1>1, <1>4
<1> QED
  BY <1>1, <1>2, <1>5

\* A loss that is put into the queue is behind every connection in it.
LEMMA LossInserted ==
  ASSUME NEW list \in Seq(Packet), NEW n \in Arrivals(list)
  PROVE  LET l == InsertedAt(list, n, <<Event("ConnectionLost")>>) IN
         Holds(l, "ConnectionLost") /\ Followed(l, "NewConnection", "ConnectionLost")
<1> DEFINE more == <<Event("ConnectionLost")>>
           l == InsertedAt(list, n, more)
           at(i) == Moved(n, Len(more), i)
<1>1. n \in 0..Len(list) /\ n \in Nat /\ Len(list) \in Nat
  BY DEF Arrivals
<1>2. /\ more \in Seq(Packet) /\ Len(more) = 1 /\ more[1].type = "ConnectionLost"
  BY DEF Event, Packet
<1> HIDE DEF more
<1>3. Widened(list, n, more, l)
  BY <1>1, <1>2, InsertedWidens
<1> HIDE DEF l
<1>4. /\ \A k \in DOMAIN l : \/ k \in n+1..n+Len(more) /\ l[k] = more[k - n]
                             \/ \E i \in DOMAIN list : k = at(i)
      /\ \A i \in DOMAIN list : l[at(i)] = list[i]
  <2>1. Places(list, n, more, l)
    BY <1>1, <1>2, <1>3, WidenedPlaces
  <2> QED
    BY <2>1 DEF Places
<1>5. l[n + 1].type = "ConnectionLost" /\ n + 1 \in DOMAIN l
  <2>1. Len(l) = Len(list) + 1 /\ l \in Seq(Packet) /\ 1 \in 1..Len(more)
    BY <1>2, <1>3 DEF Widened
  <2>2. l[n + 1] = more[1]
    BY <1>3, <2>1 DEF Widened
  <2> QED
    BY <1>1, <1>2, <2>1, <2>2
<1>6. ASSUME NEW k \in DOMAIN l, l[k].type = "NewConnection" PROVE k < n + 1
  <2>1. CASE k \in n+1..n+Len(more) /\ l[k] = more[k - n]
    <3>1. k = n + 1
      BY <1>1, <1>2, <2>1
    <3> QED
      BY <1>5, <1>6, <3>1
  <2>2. CASE \E i \in DOMAIN list : k = at(i)
    <3>1. PICK i \in DOMAIN list : k = at(i) /\ l[k] = list[i]
      BY <1>4, <2>2
    <3>2. i \in 1..n
      BY <1>6, <3>1, EventsArrived DEF Events
    <3> QED
      BY <1>1, <3>1, <3>2 DEF Moved
  <2> QED
    BY <1>4, <2>1, <2>2
<1> QED
  BY <1>5, <1>6 DEF Holds, Followed, l, more

\* What is still under way is lost, but none of RakPeer's own packets.
LEMMA RestLost ==
  ASSUME NEW list \in Seq(Packet), NEW n \in Arrivals(list)
  PROVE  LET l == SubSeq(list, 1, n) IN
         /\ Holds(list, "ConnectionLost") => Holds(l, "ConnectionLost")
         /\ Followed(list, "NewConnection", "ConnectionLost") =>
              Followed(l, "NewConnection", "ConnectionLost")
<1> DEFINE l == SubSeq(list, 1, n)
<1>1. n \in 0..Len(list) /\ n \in Nat /\ Len(list) \in Nat
  BY DEF Arrivals
<1>2. l \in Seq(Packet) /\ Len(l) = n /\ \A i \in 1..n : l[i] = list[i]
  BY <1>1, Truncated
<1>3. DOMAIN l = 1..n /\ DOMAIN list = 1..Len(list)
  BY <1>1, <1>2
<1> HIDE DEF l
<1>4. ASSUME NEW k \in DOMAIN list, list[k].type \in Events PROVE k \in DOMAIN l
  BY <1>3, <1>4, EventsArrived
<1>5. \A k \in DOMAIN l : k \in DOMAIN list /\ l[k] = list[k]
  BY <1>1, <1>2, <1>3
<1>6. "NewConnection" \in Events /\ "ConnectionLost" \in Events
  BY DEF Events
<1>7. Holds(list, "ConnectionLost") => Holds(l, "ConnectionLost")
  BY <1>4, <1>5, <1>6 DEF Holds
<1>8. ASSUME Followed(list, "NewConnection", "ConnectionLost")
      PROVE  Followed(l, "NewConnection", "ConnectionLost")
  <2>1. ASSUME NEW k \in DOMAIN l, l[k].type = "NewConnection"
        PROVE  \E j \in DOMAIN l : k < j /\ l[j].type = "ConnectionLost"
    <3>1. PICK j \in DOMAIN list : k < j /\ list[j].type = "ConnectionLost"
      BY <1>5, <1>8, <2>1 DEF Followed
    <3> QED
      BY <1>4, <1>5, <1>6, <3>1
  <2> QED
    BY <2>1 DEF Followed
<1> QED
  BY <1>7, <1>8 DEF l

\* RakPeer's packet is the last one.
LEMMA EventAppended ==
  ASSUME NEW list \in Seq(Packet), NEW type \in Events
  PROVE  LET l == Append(list, Event(type)) IN
         /\ \A t : Holds(l, t) <=> Holds(list, t) \/ t = type
         /\ \A t : t # type => Followed(l, t, type)
         /\ ~Holds(list, type) => Once(l, type)
<1> DEFINE e == Event(type)
           l == Append(list, e)
           a == Len(list)
<1>1. e \in Packet /\ e.type = type
  BY DEF Event, Packet, Events
<1> HIDE DEF e
<1>2. /\ DOMAIN l = 1..a+1 /\ DOMAIN list = 1..a /\ a \in Nat
      /\ l[a + 1] = e /\ \A i \in 1..a : l[i] = list[i]
  BY <1>1
<1> HIDE DEF l, a
<1>3. \A k \in DOMAIN l : k = a + 1 \/ k \in DOMAIN list
  BY <1>2
<1>4. \A k \in DOMAIN list : k \in DOMAIN l /\ l[k] = list[k] /\ k < a + 1
  BY <1>2
<1>5. a + 1 \in DOMAIN l /\ l[a + 1].type = type
  BY <1>1, <1>2
<1>6. ASSUME NEW t PROVE Holds(l, t) <=> Holds(list, t) \/ t = type
  BY <1>3, <1>4, <1>5 DEF Holds
<1>7. ASSUME NEW t, t # type PROVE Followed(l, t, type)
  BY <1>3, <1>4, <1>5, <1>7 DEF Followed
<1>8. ASSUME ~Holds(list, type) PROVE Once(l, type)
  BY <1>3, <1>4, <1>5, <1>8 DEF Once, Holds
<1> QED
  BY <1>6, <1>7, <1>8 DEF l, e

----------------------------------------------------------------------------
(* The invariant of the links *)

\* The connection from s to d is gone, or is being closed.
Ended(s, d) == d \notin up[s] \/ d \in closing[s]

\* What s has still to read of its connection to d.
EndOK(s, d) ==
  LET list == inbox[s][d]
      known == d \in DOMAIN connection[s]
  IN /\ Ended(s, d) => /\ known => Holds(list, "ConnectionLost")
                       /\ Followed(list, "NewConnection", "ConnectionLost")
     /\ ~Ended(s, d) => /\ ~Holds(list, "ConnectionLost")
                        /\ Holds(list, "NewConnection") <=> ~known
                        /\ Once(list, "NewConnection")

\* A validation is on its way to s, or d has still to ask for one.
ValidationOK(s, d) ==
  ~Ended(s, d) /\ ~Ended(d, s) =>
    /\ d \in DOMAIN connection[s] /\ ~connection[s][d].isValidated =>
         Holds(inbox[s][d], "ScopeChange") \/ Holds(inbox[d][s], "NewConnection")
    /\ \/ Followed(inbox[s][d], "NewConnection", "ScopeChange")
       \/ Holds(inbox[d][s], "NewConnection")

\* The invariant: both hold of every pair, and no system is its own neighbour.
Links ==
  \A s \in System : /\ s \notin up[s]
                    /\ \A d \in System : EndOK(s, d) /\ ValidationOK(s, d)

\* A connection that is neither made nor lost, nor validated.
SameConnection(s, d) ==
  /\ d \in DOMAIN connection'[s] <=> d \in DOMAIN connection[s]
  /\ d \in DOMAIN connection[s] =>
       connection'[s][d].isValidated = connection[s][d].isValidated

\* A step that puts messages only into an inbox and keeps the connection keeps
\* EndOK ...
LEMMA QuietEnd ==
  ASSUME NEW s \in System, NEW d \in System, EndOK(s, d),
         More(inbox[s][d], inbox'[s][d]), SameConnection(s, d),
         Ended(s, d)' <=> Ended(s, d)
  PROVE  EndOK(s, d)'
<1> HIDE DEF Ended
<1> QED
  BY DEF EndOK, More, SameConnection

\* ... and ValidationOK ...
LEMMA QuietValidation ==
  ASSUME NEW s \in System, NEW d \in System, ValidationOK(s, d),
         More(inbox[s][d], inbox'[s][d]), More(inbox[d][s], inbox'[d][s]),
         SameConnection(s, d),
         Ended(s, d) => Ended(s, d)', Ended(d, s) => Ended(d, s)'
  PROVE  ValidationOK(s, d)'
  BY DEF ValidationOK, More, SameConnection

\* ... and the whole invariant when it does so for every link.
LEMMA QuietStep ==
  ASSUME Links, UNCHANGED <<up, closing>>,
         \A s, d \in System : More(inbox[s][d], inbox'[s][d]) /\ SameConnection(s, d)
  PROVE  Links'
<1>1. ASSUME NEW s \in System, NEW d \in System PROVE Ended(s, d)' <=> Ended(s, d)
  BY DEF Ended
<1>2. ASSUME NEW s \in System, NEW d \in System PROVE EndOK(s, d)' /\ ValidationOK(s, d)'
  BY <1>1, QuietEnd, QuietValidation DEF Links
<1> QED
  BY <1>2 DEF Links

\* No connection changes when none is stored.
LEMMA UnchangedConnections ==
  ASSUME connection' = connection, NEW s \in System, NEW d \in System
  PROVE  SameConnection(s, d)
  BY DEF SameConnection

\* What a handler sends comes behind what is to be read.
LEMMA SentMore ==
  ASSUME NetworkOK, NEW s \in System, NEW n, n.out \in [System -> Seq(Message)],
         NEW a \in System, NEW b \in System
  PROVE  /\ Sent(s, n)[a][b] =
              IF b = s /\ Linked(s, a) THEN inbox[a][s] \o n.out[a] ELSE inbox[a][b]
         /\ More(inbox[a][b], Sent(s, n)[a][b])
<1>1. Sent(s, n)[a][b] = IF b = s /\ Linked(s, a) THEN inbox[a][s] \o n.out[a] ELSE inbox[a][b]
  BY DEF Sent
<1>2. inbox[a][b] \in Seq(Packet) /\ n.out[a] \in Seq(Message)
  BY DEF NetworkOK
<1>3. More(inbox[a][b], inbox[a][b] \o n.out[a]) /\ More(inbox[a][b], inbox[a][b])
  BY <1>2, AppendedMessages, SameInbox
<1> QED
  BY <1>1, <1>3

\* The connections of one system change.
LEMMA StoredConnections ==
  ASSUME ManagersOK, NEW s \in System, NEW n, Store(s, n),
         SameValidation(DOMAIN connection[s], Manager(s), n),
         NEW a \in System, NEW b \in System
  PROVE  SameConnection(a, b)
<1>1. connection'[s] = n.connection /\ (a # s => connection'[a] = connection[a])
  BY DEF ManagersOK, Store
<1>2. Manager(s).connection = connection[s]
  BY DEF Manager
<1> QED
  BY <1>1, <1>2 DEF SameValidation, SameConnection

\* An Update sends messages only ...
LEMMA QuietReceiveNothing ==
  ASSUME Inv, Links, NEW s \in System, ReceiveNothing(s)
  PROVE  Links'
<1>1. PICK tick \in BOOLEAN : Store(s, Updated(s, tick)) /\ inbox' = Sent(s, Updated(s, tick))
  BY DEF ReceiveNothing
<1> DEFINE n == Updated(s, tick)
<1>2. PICK R \in SUBSET Replica, D \in SUBSET System :
        Manager(s) \in ManagerIn(s, R, D) /\ DOMAIN connection[s] = D
  BY ManagerOf DEF Inv
<1>3. n \in Upkeep(s, R, D, Manager(s))
  BY <1>2, UpdatedManager
<1> HIDE DEF n
<1>4. n \in Managers(s) /\ SameValidation(D, Manager(s), n)
  BY <1>2, <1>3, WorkSteps, WorkValidation
<1>5. ASSUME NEW a \in System, NEW b \in System
      PROVE  More(inbox[a][b], inbox'[a][b]) /\ SameConnection(a, b)
  <2>1. More(inbox[a][b], Sent(s, n)[a][b])
    BY <1>4, ManagerOut, SentMore DEF Inv
  <2>2. SameConnection(a, b)
    BY <1>1, <1>2, <1>4, StoredConnections DEF Inv, n
  <2> QED
    BY <1>1, <2>1, <2>2 DEF n
<1> QED
  BY <1>5, QuietStep DEF ReceiveNothing

\* ... as the destruction of a replica does ...
LEMMA QuietDestroy ==
  ASSUME Inv, Links, NEW s \in System, NEW r \in Replica, Destroy(s, r)
  PROVE  Links'
<1> DEFINE n == Dereference(BroadcastDestructionList(Manager(s), <<r>>, s), r)
<1>1. Store(s, n) /\ inbox' = Sent(s, n)
  BY DEF Destroy
<1>2. PICK R \in SUBSET Replica, D \in SUBSET System :
        Manager(s) \in ManagerIn(s, R, D) /\ DOMAIN connection[s] = D
  BY ManagerOf DEF Inv
<1>3. n \in Work(s, D, Manager(s))
  BY <1>2, DestructManager
<1> HIDE DEF n
<1>4. n \in Managers(s) /\ SameValidation(D, Manager(s), n)
  BY <1>3, WorkValidation
<1>5. ASSUME NEW a \in System, NEW b \in System
      PROVE  More(inbox[a][b], inbox'[a][b]) /\ SameConnection(a, b)
  <2>1. More(inbox[a][b], Sent(s, n)[a][b])
    BY <1>4, ManagerOut, SentMore DEF Inv
  <2>2. SameConnection(a, b)
    BY <1>1, <1>2, <1>4, StoredConnections DEF Inv
  <2> QED
    BY <1>1, <2>1, <2>2
<1> QED
  BY <1>5, QuietStep DEF Destroy

\* ... and a new replica only adds entries to the lists.
LEMMA QuietReference ==
  ASSUME Inv, Links, NEW s \in System, NEW r \in Replica, Reference(s, r)
  PROVE  Links'
<1>1. /\ UNCHANGED <<inbox, up, closing>>
      /\ connection' = [connection EXCEPT ![s] = [d \in DOMAIN @ |->
           IF Queries(s) THEN OnLocalReference(@[d], r) ELSE @[d]]]
  BY DEF Reference, network
<1>2. ASSUME NEW a \in System, NEW b \in System PROVE SameConnection(a, b)
  <2>1. CASE a # s
    BY <1>1, <2>1 DEF Inv, ManagersOK, SameConnection
  <2>2. CASE a = s
    <3>1. connection'[s] = [d \in DOMAIN connection[s] |->
            IF Queries(s) THEN OnLocalReference(connection[s][d], r) ELSE connection[s][d]]
      BY <1>1 DEF Inv, ManagersOK
    <3>2. ASSUME b \in DOMAIN connection[s]
          PROVE  OnLocalReference(connection[s][b], r).isValidated = connection[s][b].isValidated
      <4>1. PICK R : connection[s][b] \in ConnectionIn(s, R)
        BY <3>2, ManagerOf DEF Inv
      <4> QED
        BY <4>1 DEF ConnectionIn, ConnectionOf, OnLocalReference
    <3> QED
      BY <2>2, <3>1, <3>2 DEF SameConnection
  <2> QED
    BY <2>1, <2>2
<1> QED
  BY <1>1, <1>2, SameInbox, QuietStep

\* Steps that change no connection and no inbox keep the invariant.
LEMMA QuietElse ==
  ASSUME Links, UNCHANGED <<connection, inbox, up, closing>>
  PROVE  Links'
  BY SameInbox, UnchangedConnections, QuietStep

\* One end of a link ends: nothing is asked of its validation any more.
LEMMA EndingStep ==
  ASSUME Links, connection' = connection, NEW s \in System, NEW d \in System,
         Ended(s, d)', EndOK(s, d)',
         \A a \in System : a \notin up'[a],
         \A a, b \in System : <<a, b>> # <<s, d>> =>
           /\ inbox'[a][b] = inbox[a][b]
           /\ Ended(a, b)' <=> Ended(a, b)
  PROVE  Links'
<1>1. ASSUME NEW a \in System, NEW b \in System
      PROVE  EndOK(a, b)'
  <2>1. CASE <<a, b>> = <<s, d>>
    BY <2>1
  <2>2. CASE <<a, b>> # <<s, d>>
    BY <2>2, SameInbox, UnchangedConnections, QuietEnd DEF Links
  <2> QED
    BY <2>1, <2>2
<1>2. ASSUME NEW a \in System, NEW b \in System
      PROVE  ValidationOK(a, b)'
  <2>1. CASE <<a, b>> = <<s, d>> \/ <<b, a>> = <<s, d>>
    <3>1. Ended(a, b)' \/ Ended(b, a)'
      BY <2>1
    <3> QED
      BY <3>1 DEF ValidationOK
  <2>2. CASE <<a, b>> # <<s, d>> /\ <<b, a>> # <<s, d>>
    <3>1. /\ inbox'[a][b] = inbox[a][b] /\ inbox'[b][a] = inbox[b][a]
          /\ Ended(a, b) => Ended(a, b)'
          /\ Ended(b, a) => Ended(b, a)'
      BY <2>2
    <3> QED
      BY <3>1, SameInbox, UnchangedConnections, QuietValidation DEF Links
  <2> QED
    BY <2>1, <2>2
<1> QED
  BY <1>1, <1>2 DEF Links

\* CloseConnection queues the loss that its own side will read.
LEMMA LinksCloseConnection ==
  ASSUME Inv, Links, NEW s \in System, NEW d \in System, CloseConnection(s, d)
  PROVE  Links'
<1>1. PICK n \in Arrivals(inbox[s][d]) :
        inbox' = [inbox EXCEPT ![s][d] = InsertedAt(@, n, <<Event("ConnectionLost")>>)]
  BY DEF CloseConnection
<1> DEFINE l == InsertedAt(inbox[s][d], n, <<Event("ConnectionLost")>>)
<1>2. connection' = connection /\ up' = up /\ closing' = [closing EXCEPT ![s] = @ \cup {d}]
  BY DEF CloseConnection, manager
<1>3. Holds(l, "ConnectionLost") /\ Followed(l, "NewConnection", "ConnectionLost")
  <2>1. inbox[s][d] \in Seq(Packet)
    BY DEF Inv, NetworkOK
  <2> QED
    BY <2>1, LossInserted
<1>4. inbox'[s][d] = l
  BY <1>1 DEF Inv, NetworkOK
<1> HIDE DEF l
<1>5. ASSUME NEW a \in System, NEW b \in System, <<a, b>> # <<s, d>>
      PROVE  inbox'[a][b] = inbox[a][b] /\ (Ended(a, b)' <=> Ended(a, b))
  BY <1>1, <1>2, <1>5 DEF Inv, NetworkOK, Ended
<1>6. Ended(s, d)'
  BY <1>2 DEF Inv, NetworkOK, Ended
<1>7. EndOK(s, d)'
  BY <1>3, <1>4, <1>6 DEF EndOK
<1>8. \A a \in System : a \notin up'[a]
  BY <1>2 DEF Links
<1> QED
  BY <1>2, <1>5, <1>6, <1>7, <1>8, EndingStep

\* The close command cuts off what has not arrived, never the loss.
LEMMA LinksCloseCommand ==
  ASSUME Inv, Links, NEW s \in System, NEW d \in System, CloseCommand(s, d)
  PROVE  Links'
<1>1. PICK n \in Arrivals(inbox[s][d]) : inbox' = [inbox EXCEPT ![s][d] = SubSeq(@, 1, n)]
  BY DEF CloseCommand
<1> DEFINE list == inbox[s][d]
           l == SubSeq(list, 1, n)
<1>2. /\ d \in closing[s] /\ connection' = connection
      /\ up' = [up EXCEPT ![s] = @ \ {d}] /\ closing' = [closing EXCEPT ![s] = @ \ {d}]
  BY DEF CloseCommand, manager
<1>3. /\ Holds(list, "ConnectionLost") => Holds(l, "ConnectionLost")
      /\ Followed(list, "NewConnection", "ConnectionLost") =>
           Followed(l, "NewConnection", "ConnectionLost")
  <2>1. inbox[s][d] \in Seq(Packet)
    BY DEF Inv, NetworkOK
  <2> QED
    BY <2>1, RestLost
<1>4. inbox'[s][d] = l
  BY <1>1 DEF Inv, NetworkOK
<1>5. ASSUME NEW a \in System, NEW b \in System, <<a, b>> # <<s, d>>
      PROVE  inbox'[a][b] = inbox[a][b] /\ (Ended(a, b)' <=> Ended(a, b))
  BY <1>1, <1>2, <1>5 DEF Inv, NetworkOK, Ended
<1>6. Ended(s, d)' /\ Ended(s, d)
  BY <1>2 DEF Inv, NetworkOK, Ended
<1> HIDE DEF l
<1>7. EndOK(s, d)'
  <2>1. EndOK(s, d)
    BY DEF Links
  <2> QED
    BY <1>2, <1>3, <1>4, <1>6, <2>1 DEF EndOK
<1>8. \A a \in System : a \notin up'[a]
  BY <1>2 DEF Links, Inv, NetworkOK
<1> QED
  BY <1>2, <1>5, <1>6, <1>7, <1>8, EndingStep

\* A time-out queues the loss behind what has arrived.
LEMMA LinksTimeout ==
  ASSUME Inv, Links, NEW s \in System, NEW d \in System, Timeout(s, d)
  PROVE  Links'
<1>1. PICK n \in Arrivals(inbox[s][d]) :
        inbox' = [inbox EXCEPT ![s][d] = Append(SubSeq(@, 1, n), Event("ConnectionLost"))]
  BY DEF Timeout
<1> DEFINE l == Append(SubSeq(inbox[s][d], 1, n), Event("ConnectionLost"))
<1>2. /\ connection' = connection /\ closing' = closing
      /\ up' = [up EXCEPT ![s] = @ \ {d}]
  BY DEF Timeout, manager
<1>3. Holds(l, "ConnectionLost") /\ Followed(l, "NewConnection", "ConnectionLost")
  <2>1. n \in 0..Len(inbox[s][d]) /\ inbox[s][d] \in Seq(Packet)
    BY DEF Arrivals, Inv, NetworkOK
  <2>2. SubSeq(inbox[s][d], 1, n) \in Seq(Packet)
    BY <2>1, Truncated
  <2>3. "ConnectionLost" \in Events
    BY DEF Events
  <2> QED
    BY <2>2, <2>3, EventAppended
<1>4. inbox'[s][d] = l
  BY <1>1 DEF Inv, NetworkOK
<1> HIDE DEF l
<1>5. ASSUME NEW a \in System, NEW b \in System, <<a, b>> # <<s, d>>
      PROVE  inbox'[a][b] = inbox[a][b] /\ (Ended(a, b)' <=> Ended(a, b))
  BY <1>1, <1>2, <1>5 DEF Inv, NetworkOK, Ended
<1>6. Ended(s, d)'
  BY <1>2 DEF Inv, NetworkOK, Ended
<1>7. EndOK(s, d)'
  BY <1>3, <1>4, <1>6 DEF EndOK
<1>8. \A a \in System : a \notin up'[a]
  BY <1>2 DEF Links, Inv, NetworkOK
<1> QED
  BY <1>2, <1>5, <1>6, <1>7, <1>8, EndingStep

\* A shutdown leaves nothing to read and no connection; the other sides will
\* time out.
LEMMA LinksShutdown ==
  ASSUME Inv, Links, NEW s \in System, Shutdown(s)
  PROVE  Links'
<1> DEFINE popped == PoppedAll(s, Manager(s), SetToSeq(DOMAIN connection[s]))
<1>1. /\ inbox' = [Sent(s, popped) EXCEPT ![s] = Empty]
      /\ connection' = [connection EXCEPT ![s] = <<>>]
      /\ up' = [up EXCEPT ![s] = {}] /\ closing' = [closing EXCEPT ![s] = {}]
  BY DEF Shutdown, PoppedAll
<1>2. popped \in Managers(s)
  <2>1. PICK D \in SUBSET System : DOMAIN connection[s] = D
    BY ManagerOf DEF Inv
  <2>2. SetToSeq(D) \in Seq(D)
    BY ManagerAssumption, FS_Subset, ListOfSet
  <2>3. SetToSeq(D) \in Seq(System)
    BY <2>2, SeqMonotonic
  <2> QED
    BY <2>1, <2>3, PoppedManager DEF Inv, ManagersOK
<1> HIDE DEF popped
<1>3. \A b \in System : Ended(s, b)'
  BY <1>1 DEF Inv, NetworkOK, Ended
<1>4. ASSUME NEW a \in System, NEW b \in System, a # s
      PROVE  /\ More(inbox[a][b], inbox'[a][b]) /\ connection'[a] = connection[a]
             /\ Ended(a, b)' <=> Ended(a, b)
  <2>1. More(inbox[a][b], Sent(s, popped)[a][b])
    BY <1>2, ManagerOut, SentMore DEF Inv
  <2>2. inbox'[a][b] = Sent(s, popped)[a][b]
    BY <1>1, <1>4 DEF Sent
  <2>3. connection'[a] = connection[a]
    BY <1>1, <1>4 DEF Inv, ManagersOK
  <2>4. Ended(a, b)' <=> Ended(a, b)
    BY <1>1, <1>4 DEF Inv, NetworkOK, Ended
  <2> QED
    BY <2>1, <2>2, <2>3, <2>4
<1>5. ASSUME NEW b \in System PROVE EndOK(s, b)'
  <2>1. DOMAIN connection'[s] = {}
    BY <1>1 DEF Inv, ManagersOK
  <2>2. inbox'[s][b] = <<>>
    BY <1>1 DEF Empty, Sent
  <2>3. Followed(<<>>, "NewConnection", "ConnectionLost")
    BY DEF Followed
  <2> QED
    BY <1>3, <2>1, <2>2, <2>3 DEF EndOK
<1>6. ASSUME NEW a \in System, NEW b \in System, a # s PROVE EndOK(a, b)'
  BY <1>4, <1>6, QuietEnd DEF Links, SameConnection
<1>7. ASSUME NEW a \in System, NEW b \in System PROVE ValidationOK(a, b)'
  <2>1. CASE a = s \/ b = s
    <3>1. Ended(a, b)' \/ Ended(b, a)'
      BY <1>3, <2>1
    <3> QED
      BY <3>1 DEF ValidationOK
  <2>2. CASE a # s /\ b # s
    BY <1>4, <2>2, QuietValidation DEF Links, SameConnection
  <2> QED
    BY <2>1, <2>2
<1>8. \A a \in System : a \notin up'[a]
  BY <1>1 DEF Links, Inv, NetworkOK
<1> QED
  BY <1>5, <1>6, <1>7, <1>8 DEF Links

\* A link is made between systems that have read of the loss of an earlier one.
LEMMA NothingUnread ==
  ASSUME Inv, Links, NEW s \in System, NEW d \in System, d \notin up[s], ~Unread(s, d)
  PROVE  /\ ~Holds(inbox[s][d], "ConnectionLost") /\ ~Holds(inbox[s][d], "NewConnection")
         /\ d \notin DOMAIN connection[s]
<1> DEFINE list == inbox[s][d]
<1>1. list \in Seq(Packet)
  BY DEF Inv, NetworkOK
<1>2. EndOK(s, d) /\ Ended(s, d)
  BY DEF Links, Ended
<1>3. Event("ConnectionLost") \notin Range(list)
  BY <1>1, RangeOfList DEF Unread
<1>4. ASSUME NEW k \in DOMAIN list, list[k].type = "ConnectionLost" PROVE FALSE
  <2>1. list[k] \in Packet /\ list[k] \in Range(list)
    BY <1>1 DEF Range
  <2> HIDE DEF list
  <2>2. list[k] = Event("ConnectionLost")
    BY <1>4, <2>1, PacketKinds DEF Events
  <2> QED
    BY <1>3, <2>1, <2>2
<1>5. ~Holds(list, "ConnectionLost")
  BY <1>4 DEF Holds
<1>6. ~Holds(list, "NewConnection")
  BY <1>2, <1>5 DEF EndOK, Holds, Followed
<1> QED
  BY <1>2, <1>5, <1>6 DEF EndOK

\* A new connection is announced on both sides, which have read of the end of
\* any earlier one.
LEMMA LinksConnect ==
  ASSUME Inv, Links, ~QuickReconnect, NEW s \in System, NEW d \in System, Connect(s, d)
  PROVE  Links'
<1>1. /\ d \notin up[s] /\ s \notin up[d] /\ ~Unread(s, d) /\ ~Unread(d, s)
      /\ up' = [up EXCEPT ![s] = @ \cup {d}, ![d] = @ \cup {s}]
      /\ inbox' = [inbox EXCEPT ![s][d] = Append(@, Event("NewConnection")),
                                ![d][s] = Append(@, Event("NewConnection"))]
      /\ connection' = connection /\ closing' = closing
  BY DEF Connect, manager
<1>2. s # d
  BY ManagerAssumption DEF Connect, Inv
<1>3. ASSUME NEW a \in System, NEW b \in System
      PROVE  /\ inbox'[a][b] = IF <<a, b>> \in {<<s, d>>, <<d, s>>}
                               THEN Append(inbox[a][b], Event("NewConnection")) ELSE inbox[a][b]
             /\ b \in up'[a] <=> b \in up[a] \/ <<a, b>> \in {<<s, d>>, <<d, s>>}
  BY <1>1, <1>2 DEF Inv, NetworkOK
<1>4. ASSUME NEW a \in System, NEW b \in System, <<a, b>> \in {<<s, d>>, <<d, s>>}
      PROVE  /\ ~Ended(a, b)' /\ EndOK(a, b)' /\ Holds(inbox'[a][b], "NewConnection")
             /\ b \notin DOMAIN connection'[a]
  <2> DEFINE list == inbox[a][b]
             l == Append(list, Event("NewConnection"))
  <2>1. b \notin up[a] /\ ~Unread(a, b) /\ b \notin closing[a]
    BY <1>1, <1>4 DEF Inv, NetworkOK
  <2>2. /\ ~Holds(list, "ConnectionLost") /\ ~Holds(list, "NewConnection")
        /\ b \notin DOMAIN connection[a]
    BY <2>1, NothingUnread
  <2>3. list \in Seq(Packet) /\ "NewConnection" \in Events
    BY DEF Inv, NetworkOK, Events
  <2>4. ~Holds(l, "ConnectionLost") /\ Holds(l, "NewConnection") /\ Once(l, "NewConnection")
    BY <2>2, <2>3, EventAppended
  <2>5. inbox'[a][b] = l
    BY <1>3, <1>4
  <2>6. ~Ended(a, b)'
    BY <1>1, <1>3, <1>4, <2>1 DEF Ended
  <2> HIDE DEF l, list
  <2>7. EndOK(a, b)'
    BY <1>1, <2>2, <2>4, <2>5, <2>6 DEF EndOK
  <2> QED
    BY <1>1, <2>2, <2>4, <2>5, <2>6, <2>7
<1>5. ASSUME NEW a \in System, NEW b \in System, <<a, b>> \notin {<<s, d>>, <<d, s>>}
      PROVE  inbox'[a][b] = inbox[a][b] /\ (Ended(a, b)' <=> Ended(a, b))
  BY <1>1, <1>3, <1>5 DEF Ended
<1>6. ASSUME NEW a \in System, NEW b \in System PROVE EndOK(a, b)'
  <2>1. CASE <<a, b>> \in {<<s, d>>, <<d, s>>}
    BY <1>4, <2>1
  <2>2. CASE <<a, b>> \notin {<<s, d>>, <<d, s>>}
    BY <1>1, <1>5, <2>2, SameInbox, UnchangedConnections, QuietEnd DEF Links
  <2> QED
    BY <2>1, <2>2
<1>7. ASSUME NEW a \in System, NEW b \in System PROVE ValidationOK(a, b)'
  <2>1. CASE <<a, b>> \in {<<s, d>>, <<d, s>>}
    <3>1. <<b, a>> \in {<<s, d>>, <<d, s>>}
      BY <2>1
    <3>2. Holds(inbox'[b][a], "NewConnection") /\ b \notin DOMAIN connection'[a]
      BY <1>4, <2>1, <3>1
    <3> QED
      BY <3>2 DEF ValidationOK
  <2>2. CASE <<a, b>> \notin {<<s, d>>, <<d, s>>}
    <3>1. <<b, a>> \notin {<<s, d>>, <<d, s>>}
      BY <2>2
    <3>2. /\ inbox'[a][b] = inbox[a][b] /\ inbox'[b][a] = inbox[b][a]
          /\ Ended(a, b) => Ended(a, b)'
          /\ Ended(b, a) => Ended(b, a)'
      BY <1>5, <2>2, <3>1
    <3> QED
      BY <1>1, <3>2, SameInbox, UnchangedConnections, QuietValidation DEF Links
  <2> QED
    BY <2>1, <2>2
<1>8. \A a \in System : a \notin up'[a]
  BY <1>2, <1>3 DEF Links
<1> QED
  BY <1>6, <1>7, <1>8 DEF Links

\* Initially every link is announced on both sides.
LEMMA LinksInit ==
  ASSUME Init
  PROVE  Links
<1>1. /\ \A s, d \in System : d \in up[s] <=> {s, d} \in Link[policy]
      /\ \A s \in System : closing[s] = {} /\ DOMAIN connection[s] = {}
      /\ \A s, d \in System :
           inbox[s][d] = IF d \in up[s] THEN <<Event("NewConnection")>> ELSE <<>>
  BY DEF Init, Empty
<1>2. \A s \in System : s \notin up[s]
  BY <1>1, ManagerAssumption DEF Init
<1>3. \A s, d \in System : Ended(s, d) <=> d \notin up[s]
  BY <1>1 DEF Ended
<1> DEFINE l == <<Event("NewConnection")>>
<1>4. ~Holds(l, "ConnectionLost") /\ Holds(l, "NewConnection") /\ Once(l, "NewConnection")
  <2>1. DOMAIN l = {1} /\ l[1].type = "NewConnection"
    BY DEF Event
  <2> HIDE DEF l
  <2> QED
    BY <2>1 DEF Holds, Once
<1>5. Followed(<<>>, "NewConnection", "ConnectionLost")
  BY DEF Followed
<1> HIDE DEF l
<1>6. ASSUME NEW s \in System, NEW d \in System PROVE EndOK(s, d)
  <2>1. CASE d \in up[s]
    <3>1. inbox[s][d] = l
      BY <1>1, <2>1 DEF l
    <3> QED
      BY <1>1, <1>3, <1>4, <2>1, <3>1 DEF EndOK
  <2>2. CASE d \notin up[s]
    <3>1. inbox[s][d] = <<>>
      BY <1>1, <2>2
    <3> QED
      BY <1>1, <1>3, <1>5, <2>2, <3>1 DEF EndOK
  <2> QED
    BY <2>1, <2>2
<1>7. ASSUME NEW s \in System, NEW d \in System PROVE ValidationOK(s, d)
  <2> SUFFICES ASSUME ~Ended(d, s) PROVE ValidationOK(s, d)
    BY DEF ValidationOK
  <2>1. inbox[d][s] = l
    BY <1>1, <1>3 DEF l
  <2> QED
    BY <1>1, <1>4, <2>1 DEF ValidationOK
<1> QED
  BY <1>2, <1>6, <1>7 DEF Links

\* What the packet that s reads from d changes of their connection.
Turned(s, d, type) ==
  /\ type = "NewConnection" /\ d \notin DOMAIN connection[s] =>
       d \in DOMAIN connection'[s] /\ ~connection'[s][d].isValidated
  /\ type = "ConnectionLost" => d \notin DOMAIN connection'[s]
  /\ type = "ScopeChange" /\ d \in DOMAIN connection[s] =>
       d \in DOMAIN connection'[s] /\ connection'[s][d].isValidated
  /\ ~(type = "NewConnection" /\ d \notin DOMAIN connection[s]) /\ type # "ConnectionLost"
     /\ ~(type = "ScopeChange" /\ d \in DOMAIN connection[s]) => SameConnection(s, d)

TurnedAlone(s, d, type) ==
  /\ \A a, b \in System : <<a, b>> # <<s, d>> => SameConnection(a, b)
  /\ Turned(s, d, type)

\* A manager whose connections are validated as those that are stored.
AsStored(s, m) ==
  \A b \in DOMAIN connection[s] : m.connection[b].isValidated = connection[s][b].isValidated

\* What a handler does to the connections, once it is stored: only the
\* sender's changes, as the packet's type says.
LEMMA HandledConnections ==
  ASSUME ManagersOK, NEW s \in System, NEW d \in System, NEW m, NEW n, NEW type,
         Store(s, n), Handled(d, DOMAIN connection[s], m, type, n), AsStored(s, m)
  PROVE  TurnedAlone(s, d, type)
<1> DEFINE D == DOMAIN connection[s]
<1>1. connection'[s] = n.connection /\ \A a \in System : a # s => connection'[a] = connection[a]
  BY DEF ManagersOK, Store
<1>2. ASSUME NEW a \in System, NEW b \in System, a # s PROVE SameConnection(a, b)
  BY <1>1, <1>2 DEF SameConnection
<1>3. CASE type = "NewConnection" /\ d \notin D
  <2>1. Pushed(d, D, m, n)
    BY <1>3 DEF Handled
  <2>2. ASSUME NEW b \in System, b # d PROVE SameConnection(s, b)
    BY <1>1, <2>1, <2>2 DEF Pushed, SameConnection, AsStored
  <2>3. Turned(s, d, type)
    BY <1>1, <1>3, <2>1 DEF Pushed, Turned
  <2> QED
    BY <1>2, <2>2, <2>3 DEF TurnedAlone
<1>4. CASE type = "ConnectionLost" /\ d \in D
  <2>1. Popped(d, D, m, n)
    BY <1>4 DEF Handled
  <2>2. ASSUME NEW b \in System, b # d PROVE SameConnection(s, b)
    BY <1>1, <2>1, <2>2 DEF Popped, SameConnection, AsStored
  <2>3. Turned(s, d, type)
    BY <1>1, <1>4, <2>1 DEF Popped, Turned
  <2> QED
    BY <1>2, <2>2, <2>3 DEF TurnedAlone
<1>5. CASE type = "ScopeChange" /\ d \in D
  <2>1. Validated(d, D, m, n)
    BY <1>5 DEF Handled
  <2>2. ASSUME NEW b \in System, b # d PROVE SameConnection(s, b)
    BY <1>1, <2>1, <2>2 DEF Validated, SameConnection, AsStored
  <2>3. Turned(s, d, type)
    BY <1>1, <1>5, <2>1 DEF Validated, Turned
  <2> QED
    BY <1>2, <2>2, <2>3 DEF TurnedAlone
<1>6. CASE ~(type = "NewConnection" /\ d \notin D) /\ ~(type = "ConnectionLost" /\ d \in D)
           /\ ~(type = "ScopeChange" /\ d \in D)
  <2>1. SameValidation(D, m, n)
    BY <1>6 DEF Handled
  <2>2. ASSUME NEW b \in System PROVE SameConnection(s, b)
    BY <1>1, <2>1 DEF SameValidation, SameConnection, AsStored
  <2>3. Turned(s, d, type)
    BY <1>6, <2>2 DEF Turned, SameConnection
  <2> QED
    BY <1>2, <2>2, <2>3 DEF TurnedAlone
<1> QED
  BY <1>3, <1>4, <1>5, <1>6

\* A connection that is pushed asks the other side to validate.
LEMMA PushedAsks ==
  ASSUME NEW d \in System, NEW D, NEW m, NEW n, m.out \in [System -> Seq(Message)],
         n.out \in [System -> Seq(Message)], Pushed(d, D, m, n), NEW list \in Seq(Packet)
  PROVE  /\ Holds(list \o n.out[d], "ScopeChange")
         /\ Followed(list \o n.out[d], "NewConnection", "ScopeChange")
<1> DEFINE e == Signal("ScopeChange")
           more == m.out[d]
           k == Len(more) + 1
<1>1. more \in Seq(Message) /\ n.out[d] \in Seq(Message) /\ n.out[d] = Append(more, e)
  BY DEF Pushed, Asks
<1>2. e \in Message /\ e.type = "ScopeChange"
  BY DEF Signal, Message
<1> HIDE DEF more, e
<1>3. k \in DOMAIN Append(more, e) /\ Append(more, e)[k] = e
  BY <1>1, <1>2
<1> QED
  BY <1>1, <1>2, <1>3, ScopeChangeSent

\* The plugin's handlers keep the invariant: an announcement is answered by a
\* validation, a loss ends the connection, a validation is answered unless
\* this side has validated before.
LEMMA LinksReceivePacket ==
  ASSUME Inv, NoCrossing, Links, NEW s \in System, NEW d \in System, ReceivePacket(s, d)
  PROVE  Links'
<1> DEFINE list == inbox[s][d]
           rest == Tail(list)
           type == Head(list).type
<1>1. list # <<>> /\ list \in Seq(Packet) /\ UNCHANGED <<up, closing>>
  BY DEF ReceivePacket, Inv, NetworkOK
<1>2. PICK tick \in BOOLEAN :
        LET result == OnReceive(s, d, Updated(s, tick), Head(inbox[s][d])) IN
        /\ Store(s, result.m)
        /\ \E k \in Arrivals(rest) :
             inbox' = [Sent(s, result.m) EXCEPT ![s][d] = InsertedAt(rest, k, result.back)]
  BY DEF ReceivePacket
<1> DEFINE m == Updated(s, tick)
           result == OnReceive(s, d, m, Head(inbox[s][d]))
           n == result.m
<1>3. PICK k \in Arrivals(rest) :
        inbox' = [Sent(s, n) EXCEPT ![s][d] = InsertedAt(rest, k, result.back)]
  BY <1>2
<1> DEFINE l == InsertedAt(rest, k, result.back)
<1>4. /\ n \in Managers(s) /\ result.back \in Seq(Message)
      /\ Handled(d, DOMAIN connection[s], m, type, n)
      /\ \A b \in DOMAIN connection[s] : m.connection[b].isValidated = connection[s][b].isValidated
  BY <1>1, PacketRead
<1>5. m.out \in [System -> Seq(Message)] /\ n.out \in [System -> Seq(Message)]
  <2>1. PICK R \in SUBSET Replica, D \in SUBSET System : Manager(s) \in ManagerIn(s, R, D)
    BY ManagerOf DEF Inv
  <2>2. m \in ManagerIn(s, R, D)
    BY <2>1, UpdatedManager, UpkeepSteps
  <2> HIDE DEF m
  <2>3. m \in Managers(s)
    BY <2>2 DEF Managers
  <2> HIDE DEF n
  <2> QED
    BY <1>4, <2>3, ManagerOut
<1>6. Store(s, n)
  BY <1>2
<1> HIDE DEF m, result
<1>7. /\ \A a, b \in System : <<a, b>> # <<s, d>> => SameConnection(a, b)
      /\ Turned(s, d, type)
  <2>1. ManagersOK
    BY DEF Inv
  <2>2. AsStored(s, m)
    BY <1>4 DEF AsStored
  <2> HIDE DEF n, type
  <2>3. TurnedAlone(s, d, type)
    BY <1>4, <1>6, <2>1, <2>2, HandledConnections
  <2> QED
    BY <2>3 DEF TurnedAlone
<1>8. /\ rest \in Seq(Packet)
      /\ \A t : Holds(list, t) <=> type = t \/ Holds(rest, t)
      /\ \A t, u : Followed(list, t, u) => Followed(rest, t, u)
      /\ \A t, u : Followed(list, t, u) /\ type = t => Holds(rest, u)
      /\ \A t : Once(list, t) => Once(rest, t)
      /\ \A t : Once(list, t) /\ type = t => ~Holds(rest, t)
  BY <1>1, HeadRead
<1>9. More(rest, l)
  <2>1. k \in 0..Len(rest)
    BY DEF Arrivals
  <2>2. result.back \in Seq(Packet)
    BY <1>4, MessagesArePackets
  <2> HIDE DEF rest
  <2>3. Widened(rest, k, result.back, l)
    BY <1>8, <2>1, <2>2, InsertedWidens
  <2> HIDE DEF l
  <2> QED
    BY <1>4, <1>8, <2>1, <2>3, WidenedWithMessages
<1>10. s \notin up[s]
  BY DEF Links
<1>11. inbox'[s][d] = l
  BY <1>3 DEF Sent
<1>12. ASSUME NEW a \in System, NEW b \in System, <<a, b>> # <<s, d>>
       PROVE  inbox'[a][b] = Sent(s, n)[a][b] /\ More(inbox[a][b], inbox'[a][b])
  <2>1. More(inbox[a][b], Sent(s, n)[a][b])
    BY <1>5, SentMore DEF Inv
  <2>2. inbox'[a][b] = Sent(s, n)[a][b]
    BY <1>3, <1>12 DEF Sent
  <2> QED
    BY <2>1, <2>2
<1> HIDE DEF list, rest, type, l
<1>13. ASSUME NEW a \in System, NEW b \in System PROVE Ended(a, b)' <=> Ended(a, b)
  BY <1>1 DEF Ended
<1>14. ASSUME NEW a \in System, NEW b \in System PROVE EndOK(a, b) /\ ValidationOK(a, b)
  BY DEF Links
<1>15. EndOK(s, d)'
  <2>1. CASE Ended(s, d)
    <3>1. /\ d \in DOMAIN connection[s] => Holds(list, "ConnectionLost")
          /\ Followed(list, "NewConnection", "ConnectionLost")
      BY <1>14, <2>1 DEF EndOK, list
    <3>2. Followed(l, "NewConnection", "ConnectionLost")
      BY <1>8, <1>9, <3>1 DEF More
    <3>3. d \in DOMAIN connection'[s] => Holds(rest, "ConnectionLost")
      <4>1. CASE type = "NewConnection"
        BY <1>8, <3>1, <4>1
      <4>2. CASE type = "ConnectionLost"
        BY <1>7, <4>2 DEF Turned
      <4>3. CASE type \notin {"NewConnection", "ConnectionLost"}
        <5>1. d \in DOMAIN connection'[s] => d \in DOMAIN connection[s]
          BY <1>7, <4>3 DEF Turned, SameConnection
        <5> QED
          BY <1>8, <3>1, <4>3, <5>1
      <4> QED
        BY <4>1, <4>2, <4>3
    <3> QED
      BY <1>9, <1>11, <1>13, <2>1, <3>2, <3>3 DEF EndOK, More
  <2>2. CASE ~Ended(s, d)
    <3>1. /\ ~Holds(list, "ConnectionLost")
          /\ Holds(list, "NewConnection") <=> d \notin DOMAIN connection[s]
          /\ Once(list, "NewConnection")
      BY <1>14, <2>2 DEF EndOK, list
    <3>2. ~Holds(l, "ConnectionLost") /\ Once(l, "NewConnection") /\ type # "ConnectionLost"
      BY <1>8, <1>9, <3>1 DEF More
    <3>3. Holds(rest, "NewConnection") <=> d \notin DOMAIN connection'[s]
      <4>1. CASE type = "NewConnection"
        <5>1. d \notin DOMAIN connection[s] /\ ~Holds(rest, "NewConnection")
          BY <1>8, <3>1, <4>1
        <5> QED
          BY <1>7, <4>1, <5>1 DEF Turned
      <4>2. CASE type # "NewConnection"
        <5>1. d \in DOMAIN connection'[s] <=> d \in DOMAIN connection[s]
          BY <1>7, <3>2, <4>2 DEF Turned, SameConnection
        <5> QED
          BY <1>8, <3>1, <4>2, <5>1
      <4> QED
        BY <4>1, <4>2
    <3> QED
      BY <1>9, <1>11, <1>13, <2>2, <3>2, <3>3 DEF EndOK, More
  <2> QED
    BY <2>1, <2>2
<1>16. ASSUME ~Ended(s, d), ~Ended(d, s)
       PROVE  ValidationOK(s, d)' /\ ValidationOK(d, s)'
  <2> DEFINE back == inbox[d][s]
  <2>1. s # d /\ <<d, s>> # <<s, d>> /\ Linked(s, d)
    BY <1>10, <1>16 DEF Ended, Linked
  <2>2. inbox'[d][s] = back \o n.out[d] /\ More(back, inbox'[d][s]) /\ SameConnection(d, s)
    <3>1. Sent(s, n)[d][s] = back \o n.out[d]
      BY <2>1 DEF Sent
    <3> QED
      BY <1>7, <1>12, <2>1, <3>1
  <2>3. /\ d \in DOMAIN connection[s] /\ ~connection[s][d].isValidated =>
             Holds(list, "ScopeChange") \/ Holds(back, "NewConnection")
        /\ Followed(list, "NewConnection", "ScopeChange") \/ Holds(back, "NewConnection")
        /\ s \in DOMAIN connection[d] /\ ~connection[d][s].isValidated =>
             Holds(back, "ScopeChange") \/ Holds(list, "NewConnection")
        /\ Followed(back, "NewConnection", "ScopeChange") \/ Holds(list, "NewConnection")
    BY <1>14, <1>16 DEF ValidationOK, list
  <2>4. /\ ~Holds(list, "ConnectionLost")
        /\ Holds(list, "NewConnection") <=> d \notin DOMAIN connection[s]
    BY <1>14, <1>16 DEF EndOK, list
  <2>5. type # "ConnectionLost"
    BY <1>8, <2>4
  <2>6. ASSUME type = "NewConnection"
        PROVE  /\ Holds(inbox'[d][s], "ScopeChange")
               /\ Followed(inbox'[d][s], "NewConnection", "ScopeChange")
    <3>1. d \notin DOMAIN connection[s]
      BY <1>8, <2>4, <2>6
    <3>2. Pushed(d, DOMAIN connection[s], m, n)
      BY <1>4, <2>6, <3>1 DEF Handled, type
    <3>3. back \in Seq(Packet)
      BY DEF Inv, NetworkOK
    <3> HIDE DEF back
    <3> QED
      BY <1>5, <2>2, <3>2, <3>3, PushedAsks
  <2> HIDE DEF back
  <2>7. ValidationOK(s, d)'
    <3>1. Followed(l, "NewConnection", "ScopeChange") \/ Holds(inbox'[d][s], "NewConnection")
      BY <1>8, <1>9, <2>2, <2>3 DEF More
    <3>2. ASSUME d \in DOMAIN connection'[s], ~connection'[s][d].isValidated
          PROVE  Holds(l, "ScopeChange") \/ Holds(inbox'[d][s], "NewConnection")
      <4>1. CASE type = "NewConnection"
        BY <1>8, <1>9, <2>2, <2>3, <4>1 DEF More
      <4>2. CASE type # "NewConnection"
        <5>1. type # "ScopeChange" \/ d \notin DOMAIN connection[s]
          BY <1>7, <3>2 DEF Turned
        <5>2. SameConnection(s, d)
          BY <1>7, <2>5, <4>2, <5>1 DEF Turned
        <5>3. type # "ScopeChange" /\ (Holds(list, "ScopeChange") \/ Holds(back, "NewConnection"))
          BY <2>3, <3>2, <5>1, <5>2 DEF SameConnection
        <5> QED
          BY <1>8, <1>9, <2>2, <5>3 DEF More
      <4> QED
        BY <4>1, <4>2
    <3> QED
      BY <1>11, <3>1, <3>2 DEF ValidationOK
  <2>8. ValidationOK(d, s)'
    <3>1. Followed(inbox'[d][s], "NewConnection", "ScopeChange") \/ Holds(l, "NewConnection")
      BY <1>8, <1>9, <2>2, <2>3, <2>6 DEF More
    <3>2. s \in DOMAIN connection'[d] /\ ~connection'[d][s].isValidated =>
             Holds(inbox'[d][s], "ScopeChange") \/ Holds(l, "NewConnection")
      BY <1>8, <1>9, <2>2, <2>3, <2>6 DEF More, SameConnection
    <3> QED
      BY <1>11, <3>1, <3>2 DEF ValidationOK
  <2> QED
    BY <2>7, <2>8
<1>17. ASSUME NEW a \in System, NEW b \in System PROVE EndOK(a, b)'
  <2>1. CASE <<a, b>> = <<s, d>>
    BY <1>15, <2>1
  <2>2. CASE <<a, b>> # <<s, d>>
    BY <1>7, <1>12, <1>13, <1>14, <2>2, QuietEnd
  <2> QED
    BY <2>1, <2>2
<1>18. ASSUME NEW a \in System, NEW b \in System PROVE ValidationOK(a, b)'
  <2>1. CASE Ended(a, b) \/ Ended(b, a)
    BY <1>13, <2>1 DEF ValidationOK
  <2>2. CASE ~Ended(a, b) /\ ~Ended(b, a) /\ (<<a, b>> = <<s, d>> \/ <<b, a>> = <<s, d>>)
    BY <1>16, <2>2
  <2>3. CASE <<a, b>> # <<s, d>> /\ <<b, a>> # <<s, d>>
    BY <1>7, <1>12, <1>13, <1>14, <2>3, QuietValidation
  <2> QED
    BY <2>1, <2>2, <2>3
<1> QED
  BY <1>1, <1>17, <1>18 DEF Links

\* Every step keeps the invariant.
LEMMA LinksStep ==
  ASSUME Inv, NoCrossing, Links, ~QuickReconnect, [Next]_vars
  PROVE  Links'
<1>1. ASSUME NEW s \in System, Receive(s) PROVE Links'
  BY <1>1, QuietReceiveNothing, LinksReceivePacket DEF Receive
<1>2. ASSUME NEW s \in System, Application(s) PROVE Links'
  <2>1. ASSUME NEW r \in Replica, Reference(s, r) \/ Destroy(s, r) PROVE Links'
    BY <2>1, QuietReference, QuietDestroy
  <2>2. ASSUME NEW r \in Replica, Change(s, r) PROVE Links'
    BY <2>2, QuietElse DEF Change, network
  <2>3. ASSUME NEW d \in System, NEW r \in Replica, Rescope(s, d, r) PROVE Links'
    BY <2>3, QuietElse DEF Rescope, manager, network
  <2>4. ASSUME NEW d \in System, CloseConnection(s, d) PROVE Links'
    BY <2>4, LinksCloseConnection
  <2>5. CASE Shutdown(s)
    BY <2>5, LinksShutdown
  <2> QED
    BY <1>2, <2>1, <2>2, <2>3, <2>4, <2>5 DEF Application
<1>3. ASSUME Network PROVE Links'
  BY <1>3, LinksConnect, LinksCloseCommand, LinksTimeout DEF Network
<1>4. ASSUME UNCHANGED vars PROVE Links'
  BY <1>4, QuietElse DEF vars
<1> QED
  BY <1>1, <1>2, <1>3, <1>4 DEF Next

\* Where nothing is under way the invariant leaves only validated connections.
LEMMA LinksShow ==
  ASSUME Inv, Links
  PROVE  SettledValidated
<1> SUFFICES ASSUME Settled, NEW s \in System, NEW d \in up[s]
             PROVE  d \in DOMAIN connection[s] /\ connection[s][d].isValidated
  BY DEF SettledValidated
<1>1. d \in System /\ s \in up[d] /\ inbox[s][d] = <<>> /\ inbox[d][s] = <<>>
  BY DEF Inv, NetworkOK, Settled
<1>2. ~Ended(s, d) /\ ~Ended(d, s)
  BY <1>1 DEF Settled, Ended
<1>3. \A t : ~Holds(<<>>, t)
  BY DEF Holds
<1>4. EndOK(s, d) /\ ValidationOK(s, d)
  BY <1>1 DEF Links
<1> QED
  BY <1>1, <1>2, <1>3, <1>4 DEF EndOK, ValidationOK

\* Both sides of a connected pair have validated their connection once
\* everything has settled: no validation is lost, whatever connects, closes, is
\* lost or constructed meanwhile, unless a system is connected to again before
\* it reads of the loss (QuickReconnect, where it is false).
THEOREM ValidatedWhenSettled ==
  ASSUME ~QuickReconnect
  PROVE  Spec /\ []NoCrossing => []SettledValidated
<1>1. Init => Links
  BY InitKeeps, LinksInit
<1>2. Inv /\ Links /\ NoCrossing /\ [Next]_vars => Links'
  BY LinksStep
<1>3. Inv /\ Links => SettledValidated
  BY LinksShow
<1> QED
  BY <1>1, <1>2, <1>3, InvHolds, PTL DEF Spec

\* The same of every behaviour where every application queries its replicas.
THEOREM ValidatedWhenSettledByQuery ==
  ASSUME ~QuickReconnect, OnlyQueries
  PROVE  Spec => []SettledValidated
<1>1. Inv => NoCrossing
  BY QueriesCross
<1> QED
  BY <1>1, InvHoldsByQuery, ValidatedWhenSettled, PTL
=============================================================================
