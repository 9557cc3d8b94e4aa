------------------- MODULE ReplicaManager3Settled_proofs --------------------
(***************************************************************************)
(* Single owners and those who follow them: what a system has still to     *)
(* read of an owner ends in the copies that the owner takes it for.        *)
(* Constructions never cross then, and once everything has settled nothing *)
(* is missing, out of date or left over.                                   *)
(***************************************************************************)
EXTENDS ReplicaManager3Owners_proofs

----------------------------------------------------------------------------
(* Owners and what is under way *)

\* Every message of a list is about what d owns.
AllOK(d, list) == \A k \in DOMAIN list : MessageOK(d, list[k])

\* What s has still to read from d is about what d owns, and no connection is
\* made that is there.
PacketsOK(s, d) ==
  LET list == inbox[s][d] IN
  /\ AllOK(d, list)
  /\ list # <<>> \/ d \in up[s] => {s, d} \in Link[policy]
  /\ Once(list, "NewConnection")
  /\ Holds(list, "NewConnection") => d \notin DOMAIN connection[s]

\* The copy y of r that d will have is what s takes it for, if s can reach d.
\* A connection that s has yet to read of has no copies.
Agreed(s, d, r, y) ==
  Linked(s, d) => /\ Fits(s, d, Latest(Manager(s), d), Manager(s), r, y)
                  /\ Holds(inbox[s][d], "NewConnection") => y = None

\* d follows what s owns: reading what is under way ends in such a copy, and
\* constructs nothing that is there.
Following(s, d) ==
  \A r \in Replica : Owns(s, r) =>
    \E y : Leads(inbox[d][s], r, CopyIn(Manager(d), s, r), y) /\ Agreed(s, d, r, y)

\* The invariant of single owners.
Owned ==
  /\ HiddenOK
  /\ \A s \in System : OwnerOK(s, Manager(s))
  /\ \A s, d \in System : PacketsOK(s, d) /\ (s # d => Following(s, d))

\* What does not look at the variables but for the policy.
LEMMA SamePolicy ==
  ASSUME policy' = policy
  PROVE  /\ \A d, r : Owns(d, r)' <=> Owns(d, r)
         /\ \A d, p : MessageOK(d, p)' <=> MessageOK(d, p)
         /\ \A d, list : AllOK(d, list)' <=> AllOK(d, list)
<1>1. ASSUME NEW d, NEW r PROVE Owns(d, r)' <=> Owns(d, r)
  BY DEF Owns
<1>2. ASSUME NEW d, NEW p PROVE MessageOK(d, p)' <=> MessageOK(d, p)
  BY <1>1 DEF MessageOK
<1>3. ASSUME NEW d, NEW list PROVE AllOK(d, list)' <=> AllOK(d, list)
  BY <1>2 DEF AllOK
<1> QED
  BY <1>1, <1>2, <1>3

\* A manager that is stored is as it was.
LEMMA OwnerNext ==
  ASSUME policy' = policy, NEW s, NEW m, replica'[s] = m.replica, connection'[s] = m.connection,
         OwnerOK(s, m)
  PROVE  OwnerOK(s, Manager(s))'
<1>1. /\ \A d, r : Owns(d, r)' <=> Owns(d, r)
      /\ \A d, p : MessageOK(d, p)' <=> MessageOK(d, p)
  BY SamePolicy
<1>2. Manager(s)'.replica = m.replica /\ Manager(s)'.connection = m.connection
  BY DEF Manager
<1> DEFINE n == Manager(s)'
<1>3. ObjectsOK(s, Manager(s))'
  BY <1>1, <1>2 DEF ObjectsOK, OwnerOK
<1>4. ASSUME NEW d \in DOMAIN n.connection PROVE ConnectionOK(s, d, Manager(s))'
  <2>1. ConnectionOK(s, d, m)
    BY <1>2 DEF OwnerOK
  <2> QED
    BY <1>1, <1>2, <2>1 DEF ConnectionOK
<1> QED
  BY <1>3, <1>4 DEF OwnerOK

\* Following, once s has stored m and d has stored k, and list is under way.
FollowsAs(s, d, list, m, k) ==
  \A r \in Replica : Owns(s, r) =>
    \E y : /\ Leads(list, r, CopyIn(k, s, r), y)
           /\ Linked(s, d)' => /\ Fits(s, d, Latest(m, d), m, r, y)
                               /\ Holds(inbox'[s][d], "NewConnection") => y = None

\* It is what the next state has.
LEMMA FollowingNext ==
  ASSUME policy' = policy, NEW s, NEW d, NEW list, inbox'[d][s] = list,
         NEW m, replica'[s] = m.replica, connection'[s] = m.connection,
         NEW k, replica'[d] = k.replica, connection'[d] = k.connection,
         Whole(s, d)' => Whole(s, d),
         FollowsAs(s, d, list, m, k)
  PROVE  Following(s, d)'
<1>1. \A e, r : Owns(e, r)' <=> Owns(e, r)
  BY SamePolicy
<1>2. /\ Manager(s)'.replica = m.replica /\ Manager(s)'.connection = m.connection
      /\ Manager(d)'.replica = k.replica /\ Manager(d)'.connection = k.connection
  BY DEF Manager
<1>3. Latest(Manager(s), d)' = Latest(m, d)
  BY <1>2 DEF Latest
<1>4. ASSUME NEW r PROVE CopyIn(Manager(d), s, r)' = CopyIn(k, s, r)
  BY <1>2 DEF CopyIn
<1>5. ASSUME NEW r, NEW y, Fits(s, d, Latest(m, d), m, r, y)
      PROVE  Fits(s, d, Latest(Manager(s), d), Manager(s), r, y)'
  BY <1>2, <1>3, <1>5 DEF Fits
<1>6. ASSUME NEW r \in Replica, Owns(s, r)'
      PROVE  \E y : (Leads(inbox[d][s], r, CopyIn(Manager(d), s, r), y) /\ Agreed(s, d, r, y))'
  <2>1. PICK y : /\ Leads(list, r, CopyIn(k, s, r), y)
                 /\ Linked(s, d)' => /\ Fits(s, d, Latest(m, d), m, r, y)
                                     /\ Holds(inbox'[s][d], "NewConnection") => y = None
    BY <1>1, <1>6 DEF FollowsAs
  <2>2. Leads(inbox[d][s], r, CopyIn(Manager(d), s, r), y)'
    BY <1>4, <2>1
  <2>3. Agreed(s, d, r, y)'
    BY <1>5, <2>1 DEF Agreed, Holds
  <2> QED
    BY <2>2, <2>3
<1> QED
  BY <1>6 DEF Following

----------------------------------------------------------------------------
(* The lists that the network makes *)

\* l has no packets but some of list and losses.
Fewer(list, l) ==
  /\ Holds(l, "NewConnection") => Holds(list, "NewConnection")
  /\ Once(list, "NewConnection") => Once(l, "NewConnection")
  /\ \A d : AllOK(d, list) => AllOK(d, l)

\* f says where the packets of l come from.
LEMMA FewerPackets ==
  ASSUME NEW list, NEW l, NEW f,
         \A k \in DOMAIN l : \/ l[k].type = "ConnectionLost"
                             \/ f[k] \in DOMAIN list /\ l[k] = list[f[k]],
         \A j, k \in DOMAIN l : f[j] = f[k] => j = k
  PROVE  Fewer(list, l)
<1>1. ASSUME NEW d, NEW p, p.type = "ConnectionLost" PROVE MessageOK(d, p)
  BY <1>1 DEF MessageOK
<1>2. Holds(l, "NewConnection") => Holds(list, "NewConnection")
  BY DEF Holds
<1>3. Once(list, "NewConnection") => Once(l, "NewConnection")
  BY DEF Once
<1>4. ASSUME NEW d, AllOK(d, list) PROVE AllOK(d, l)
  BY <1>1, <1>4 DEF AllOK
<1> QED
  BY <1>2, <1>3, <1>4 DEF Fewer

\* The rest of a list, its first packets, and one that a loss is put into.
LEMMA FewerLeft ==
  ASSUME NEW list \in Seq(Packet), NEW n \in 0..Len(list)
  PROVE  /\ list # <<>> => Fewer(list, Tail(list))
         /\ Fewer(list, SubSeq(list, 1, n))
         /\ Fewer(list, Append(SubSeq(list, 1, n), Event("ConnectionLost")))
         /\ Fewer(list, InsertedAt(list, n, <<Event("ConnectionLost")>>))
<1> DEFINE e == Event("ConnectionLost")
<1>1. e \in Packet /\ e.type = "ConnectionLost"
  BY DEF Event, Packet
<1> HIDE DEF e
<1>2. DOMAIN list = 1..Len(list) /\ Len(list) \in Nat /\ n \in Nat /\ n =< Len(list)
  OBVIOUS
<1>3. list # <<>> => Fewer(list, Tail(list))
  <2> SUFFICES ASSUME list # <<>> PROVE Fewer(list, Tail(list))
    OBVIOUS
  <2> DEFINE l == Tail(list)
             f == [k \in DOMAIN l |-> k + 1]
  <2>1. /\ l \in Seq(Packet) /\ Len(l) = Len(list) - 1
        /\ \A i \in 1..Len(list)-1 : l[i] = list[i + 1]
    BY RestOfList
  <2> HIDE DEF l
  <2>2. DOMAIN l = 1..Len(list)-1
    BY <2>1
  <2>3. \A k \in DOMAIN l : f[k] \in DOMAIN list /\ l[k] = list[f[k]]
    BY <1>2, <2>1, <2>2
  <2>4. \A j, k \in DOMAIN l : f[j] = f[k] => j = k
    BY <2>2
  <2> HIDE DEF f
  <2>5. Fewer(list, l)
    BY <2>3, <2>4, FewerPackets
  <2> QED
    BY <2>5 DEF l
<1> DEFINE a == SubSeq(list, 1, n)
<1>4. a \in Seq(Packet) /\ Len(a) = n /\ \A i \in 1..n : a[i] = list[i]
  BY Truncated
<1> HIDE DEF a
<1>5. Fewer(list, a)
  <2> DEFINE f == [k \in DOMAIN a |-> k]
  <2>1. \A k \in DOMAIN a : f[k] \in DOMAIN list /\ a[k] = list[f[k]]
    BY <1>2, <1>4
  <2>2. \A j, k \in DOMAIN a : f[j] = f[k] => j = k
    OBVIOUS
  <2> HIDE DEF f
  <2> QED
    BY <2>1, <2>2, FewerPackets
<1>6. Fewer(list, Append(a, e))
  <2> DEFINE l == Append(a, e)
             f == [k \in DOMAIN l |-> k]
  <2>1. DOMAIN l = 1..n+1 /\ l[n + 1] = e /\ \A i \in 1..n : l[i] = a[i]
    BY <1>1, <1>2, <1>4
  <2> HIDE DEF l
  <2>2. ASSUME NEW k \in DOMAIN l
        PROVE  l[k].type = "ConnectionLost" \/ (f[k] \in DOMAIN list /\ l[k] = list[f[k]])
    <3>1. CASE k = n + 1
      BY <1>1, <2>1, <3>1
    <3>2. CASE k # n + 1
      <4>1. k \in 1..n
        BY <1>2, <2>1, <3>2
      <4> QED
        BY <1>2, <1>4, <2>1, <4>1
    <3> QED
      BY <3>1, <3>2
  <2>3. \A j, k \in DOMAIN l : f[j] = f[k] => j = k
    OBVIOUS
  <2> HIDE DEF f
  <2>4. Fewer(list, l)
    BY <2>2, <2>3, FewerPackets
  <2> QED
    BY <2>4 DEF l
<1>7. Fewer(list, InsertedAt(list, n, <<e>>))
  <2> DEFINE l == InsertedAt(list, n, <<e>>)
             f == [k \in DOMAIN l |-> IF k =< n THEN k ELSE IF k = n + 1 THEN 0 ELSE k - 1]
             more == <<e>>
  <2>1. more \in Seq(Packet) /\ Len(more) = 1 /\ more[1] = e
    BY <1>1
  <2> HIDE DEF more
  <2>2. LET i == InsertedAt(list, n, more) IN
        /\ i \in Seq(Packet) /\ Len(i) = Len(list) + Len(more)
        /\ \A k \in 1..n : i[k] = list[k]
        /\ \A k \in 1..Len(more) : i[n + k] = more[k]
        /\ \A k \in n+1..Len(list) : i[Len(more) + k] = list[k]
    BY <2>1, InsertedPackets
  <2> USE DEF more
  <2>3. /\ DOMAIN l = 1..Len(list)+1 /\ l[n + 1] = e
        /\ \A k \in 1..n : l[k] = list[k]
        /\ \A k \in n+1..Len(list) : l[1 + k] = list[k]
    BY <1>2, <2>1, <2>2
  <2> HIDE DEF l, more
  <2>4. ASSUME NEW k \in DOMAIN l
        PROVE  l[k].type = "ConnectionLost" \/ (f[k] \in DOMAIN list /\ l[k] = list[f[k]])
    <3>1. CASE k = n + 1
      BY <1>1, <2>3, <3>1
    <3>2. CASE k =< n
      BY <1>2, <2>3, <3>2
    <3>3. CASE k > n + 1
      <4>1. k - 1 \in n+1..Len(list) /\ 1 + (k - 1) = k /\ f[k] = k - 1
        BY <1>2, <2>3, <3>3
      <4> QED
        BY <1>2, <2>3, <4>1
    <3> QED
      BY <1>2, <2>3, <3>1, <3>2, <3>3
  <2>5. \A j, k \in DOMAIN l : f[j] = f[k] => j = k
    BY <1>2, <2>3
  <2> HIDE DEF f
  <2>6. Fewer(list, l)
    BY <2>4, <2>5, FewerPackets
  <2> QED
    BY <2>6 DEF l
<1> QED
  BY <1>3, <1>5, <1>6, <1>7 DEF a, e

\* What is about what d owns stays so, one list after the other or in it.
LEMMA AllJoined ==
  ASSUME NEW d, NEW S, NEW a \in Seq(S), NEW b \in Seq(S), AllOK(d, a), AllOK(d, b)
  PROVE  AllOK(d, a \o b)
<1> DEFINE l == a \o b
<1>1. /\ l \in Seq(S) /\ Len(l) = Len(a) + Len(b) /\ Len(a) \in Nat /\ Len(b) \in Nat
      /\ \A i \in 1..Len(a) : l[i] = a[i]
      /\ \A i \in 1..Len(b) : l[Len(a) + i] = b[i]
  BY Concatenated DEF Joined
<1> HIDE DEF l
<1>2. ASSUME NEW k \in DOMAIN l PROVE MessageOK(d, l[k])
  <2>1. k \in 1..Len(a)+Len(b)
    BY <1>1
  <2>2. CASE k =< Len(a)
    <3>1. k \in 1..Len(a) /\ k \in DOMAIN a
      BY <1>1, <2>1, <2>2
    <3> QED
      BY <1>1, <3>1 DEF AllOK
  <2>3. CASE k > Len(a)
    <3>1. k - Len(a) \in 1..Len(b) /\ Len(a) + (k - Len(a)) = k /\ k - Len(a) \in DOMAIN b
      BY <1>1, <2>1, <2>3
    <3>2. l[k] = b[k - Len(a)]
      BY <1>1, <3>1
    <3> QED
      BY <3>1, <3>2 DEF AllOK
  <2> QED
    BY <1>1, <2>1, <2>2, <2>3
<1> QED
  BY <1>2 DEF AllOK, l
\* Messages put into a list.
LEMMA AllInserted ==
  ASSUME NEW d, NEW list \in Seq(Packet), NEW n \in 0..Len(list), NEW more \in Seq(Packet),
         AllOK(d, list), AllOK(d, more)
  PROVE  AllOK(d, InsertedAt(list, n, more))
<1>1. Widened(list, n, more, InsertedAt(list, n, more))
  BY InsertedWidens
<1> DEFINE l == InsertedAt(list, n, more)
<1> HIDE DEF l
<1>2. Places(list, n, more, l)
  BY <1>1, WidenedPlaces DEF l
<1>3. ASSUME NEW k \in DOMAIN l PROVE MessageOK(d, l[k])
  <2>1. CASE k \in n+1..n+Len(more) /\ l[k] = more[k - n]
    <3>1. k - n \in DOMAIN more
      BY <1>2, <2>1 DEF Places
    <3> QED
      BY <2>1, <3>1 DEF AllOK
  <2>2. CASE \E i \in DOMAIN list : k = Moved(n, Len(more), i)
    <3>1. PICK i \in DOMAIN list : k = Moved(n, Len(more), i)
      BY <2>2
    <3>2. l[k] = list[i]
      BY <1>2, <3>1 DEF Places
    <3> QED
      BY <3>2 DEF AllOK
  <2> QED
    BY <1>2, <2>1, <2>2 DEF Places
<1> QED
  BY <1>3 DEF AllOK, l

\* An event behind a list leaves no copy.
LEMMA LeadsEvent ==
  ASSUME NEW list \in Seq(Packet), NEW type \in Events, NEW r, NEW x, NEW y, Leads(list, r, x, y)
  PROVE  Leads(Append(list, Event(type)), r, x, None)
<1> DEFINE e == Event(type)
           one == <<e>>
<1>1. e \in Packet /\ e.type = type /\ Append(list, e) = list \o one
  <2>1. e \in [type : {"NewConnection", "ConnectionLost"}, arrived : {TRUE}] /\ e.type = type
    BY DEF Event, Events
  <2>2. e \in Packet
    BY <2>1 DEF Packet
  <2> HIDE DEF e
  <2>3. Append(list, e) = list \o one
    BY <2>2
  <2> QED
    BY <2>1, <2>2, <2>3
<1>2. one \in Seq(Packet)
  BY <1>1
<1>3. Effect(e, r, y) = None /\ ~Gives(e, r)
  BY <1>1 DEF Effect, Takes, Gives, Events
<1>4. Leads(one, r, y, Effect(e, r, y))
  BY <1>3, LeadsShort
<1> HIDE DEF one, e
<1>5. Leads(list \o one, r, x, None)
  BY <1>2, <1>3, <1>4, LeadsOn
<1> QED
  BY <1>1, <1>5 DEF e

\* The first packets of a list lead somewhere.
LEMMA LeadsCut ==
  ASSUME NEW list \in Seq(Packet), NEW n \in 0..Len(list), NEW r, NEW x, NEW y,
         Leads(list, r, x, y)
  PROVE  \E z : Leads(SubSeq(list, 1, n), r, x, z)
  BY LeadsSplit

\* A loss put into a list may make it end in no copy.
LEMMA LeadsLoss ==
  ASSUME NEW list \in Seq(Packet), NEW n \in 0..Len(list), NEW r, NEW x, NEW y,
         Leads(list, r, x, y)
  PROVE  \E z : /\ Leads(InsertedAt(list, n, <<Event("ConnectionLost")>>), r, x, z)
                /\ z = y \/ z = None
<1> DEFINE a == SubSeq(list, 1, n)
           b == SubSeq(list, n + 1, Len(list))
           e == Event("ConnectionLost")
           one == <<e>>
<1>1. PICK w : Leads(a, r, x, w) /\ Leads(b, r, w, y)
  BY LeadsSplit
<1>2. a \in Seq(Packet) /\ b \in Seq(Packet)
  BY Truncated, RestOfSplit
<1>3. e \in Packet /\ e.type \in Events
  BY DEF Event, Packet, Events
<1>4. one \in Seq(Packet)
  BY <1>3
<1>5. Effect(e, r, w) = None /\ ~Gives(e, r)
  BY <1>3 DEF Effect, Takes, Gives, Events
<1>6. Leads(one, r, w, Effect(e, r, w))
  BY <1>5, LeadsShort
<1>7. InsertedAt(list, n, one) = (a \o one) \o b
  BY DEF InsertedAt
<1> HIDE DEF a, b, e, one
<1>8. PICK z : Leads(b, r, None, z) /\ (z = y \/ z = None)
  BY <1>1, <1>2, LeadsForgotten
<1>9. Leads(a \o one, r, x, None)
  BY <1>1, <1>2, <1>4, <1>5, <1>6, LeadsOn
<1>10. a \o one \in Seq(Packet)
  BY <1>2, <1>4
<1>11. Leads((a \o one) \o b, r, x, z)
  BY <1>2, <1>8, <1>9, <1>10, LeadsOn
<1> QED
  BY <1>7, <1>8, <1>11 DEF one, e

\* With nothing to put in, a list stays as it is.
LEMMA InsertedNothing ==
  ASSUME NEW list \in Seq(Packet)
  PROVE  InsertedAt(list, Len(list), <<>>) = list
<1> DEFINE none == <<>>
           n == Len(list)
           l == InsertedAt(list, n, none)
<1>1. none \in Seq(Packet) /\ Len(none) = 0 /\ n \in 0..Len(list) /\ n = Len(list)
  OBVIOUS
<1> HIDE DEF none, n
<1>2. /\ l \in Seq(Packet) /\ Len(l) = Len(list) + Len(none)
      /\ \A i \in 1..n : l[i] = list[i]
  <2>1. Widened(list, n, none, l)
    BY <1>1, InsertedWidens
  <2> QED
    BY <2>1 DEF Widened
<1> HIDE DEF l
<1>3. l = list
  BY <1>1, <1>2
<1> QED
  BY <1>3 DEF l, n, none

\* What is under way stays right if no packet is put in that makes a
\* connection, and none is made.
LEMMA PacketsNext ==
  ASSUME policy' = policy, NEW s, NEW d, PacketsOK(s, d), AllOK(d, inbox'[s][d]),
         inbox'[s][d] # <<>> \/ d \in up'[s] => {s, d} \in Link[policy],
         Once(inbox[s][d], "NewConnection") => Once(inbox'[s][d], "NewConnection"),
         Holds(inbox'[s][d], "NewConnection") => Holds(inbox[s][d], "NewConnection"),
         d \in DOMAIN connection'[s] => d \in DOMAIN connection[s]
  PROVE  PacketsOK(s, d)'
<1>1. AllOK(d, inbox[s][d])'
  BY SamePolicy DEF AllOK
<1> QED
  BY <1>1 DEF PacketsOK, Once, Holds

\* What s sends does not touch a pair without it.
LEMMA SentElsewhere ==
  ASSUME NetworkOK, NEW s \in System, s \notin up[s], NEW n, n.out \in [System -> Seq(Message)],
         NEW a \in System, NEW b \in System
  PROVE  /\ Sent(s, n)[a][b] =
              IF b = s /\ Linked(s, a) THEN inbox[a][s] \o n.out[a] ELSE inbox[a][b]
         /\ More(inbox[a][b], Sent(s, n)[a][b])
         /\ Linked(s, a) => a # s
<1>1. Linked(s, a) => a # s
  BY DEF Linked
<1> QED
  BY <1>1, SentMore

\* The lists are lists of packets.
LEMMA SentLists ==
  ASSUME Inv, Links, NEW s \in System, NEW n \in Managers(s), NEW a \in System, NEW b \in System
  PROVE  /\ s \notin up[s] /\ NetworkOK /\ n.out \in [System -> Seq(Message)]
         /\ n.out[a] \in Seq(Packet) /\ inbox[a][b] \in Seq(Packet)
<1>1. s \notin up[s]
  BY DEF Links
<1>2. NetworkOK
  BY DEF Inv
<1>3. n.out \in [System -> Seq(Message)]
  BY ManagerOut
<1>4. n.out[a] \in Seq(Packet)
  <2>1. n.out[a] \in Seq(Message)
    BY <1>3
  <2> QED
    BY <2>1, MessagesArePackets
<1>5. inbox[a][b] \in Seq(Packet)
  BY <1>2 DEF NetworkOK
<1> QED
  BY <1>1, <1>2, <1>3, <1>4, <1>5

\* A step of the application on s, in which s stores n and sends what n says.
\* What it reads is from d, and looked at by itself.
AppStep(s, n, d) ==
  /\ Store(s, n) /\ UNCHANGED <<policy, hidden, up, closing>> /\ OwnerOK(s, n)
  /\ \A a, b \in System : <<a, b>> # <<s, d>> => inbox'[a][b] = Sent(s, n)[a][b]
  /\ \A b \in System : b # d => (b \in DOMAIN n.connection => b \in DOMAIN connection[s])
  /\ \A e \in System, r \in Replica : e # d /\ e # s /\ Owns(e, r) =>
       CopyIn(n, e, r) = CopyIn(Manager(s), e, r)

\* What n sends to e keeps e informed.
Informs(s, n, e) ==
  /\ AllOK(s, n.out[e])
  /\ \A r \in Replica : \A y : Owns(s, r) /\ Linked(s, e) /\ Agreed(s, e, r, y) =>
       \E z : /\ Leads(n.out[e], r, y, z) /\ Fits(s, e, Latest(n, e), n, r, z)
              /\ Holds(inbox'[s][e], "NewConnection") => z = None

\* The others' packets stay right.
LEMMA AppPackets ==
  ASSUME Inv, Links, Owned, NEW s \in System, NEW n \in Managers(s), NEW d \in System,
         AppStep(s, n, d), \A e \in System : e # s => Informs(s, n, e),
         NEW a \in System, NEW b \in System, <<a, b>> # <<s, d>>
  PROVE  PacketsOK(a, b)'
<1>1. /\ s \notin up[s] /\ NetworkOK /\ n.out \in [System -> Seq(Message)]
      /\ n.out[a] \in Seq(Packet) /\ inbox[a][b] \in Seq(Packet)
  BY SentLists
<1> DEFINE l == inbox'[a][b]
<1>2. l = Sent(s, n)[a][b] /\ UNCHANGED <<policy, up, closing>>
  BY DEF AppStep
<1>3. /\ l = IF b = s /\ Linked(s, a) THEN inbox[a][s] \o n.out[a] ELSE inbox[a][b]
      /\ More(inbox[a][b], l) /\ (Linked(s, a) => a # s)
  <2> HIDE DEF l
  <2> QED
    BY <1>1, <1>2, SentElsewhere
<1>4. PacketsOK(a, b)
  BY DEF Owned
<1> HIDE DEF l
<1>5. AllOK(b, l)
  <2>1. AllOK(b, inbox[a][b])
    BY <1>4 DEF PacketsOK
  <2>2. CASE b = s /\ Linked(s, a)
    <3>1. AllOK(s, n.out[a])
      BY <1>3, <2>2 DEF Informs
    <3>2. inbox[a][s] \in Seq(Packet) /\ AllOK(s, inbox[a][s])
      BY <1>1, <2>1, <2>2
    <3>3. AllOK(s, inbox[a][s] \o n.out[a])
      BY <1>1, <3>1, <3>2, AllJoined
    <3> QED
      BY <1>3, <2>2, <3>3
  <2>3. CASE ~(b = s /\ Linked(s, a))
    BY <1>3, <2>1, <2>3
  <2> QED
    BY <2>2, <2>3
<1>6. l # <<>> \/ b \in up'[a] => {a, b} \in Link[policy]
  <2>1. inbox[a][b] # <<>> \/ b \in up[a] => {a, b} \in Link[policy]
    BY <1>4 DEF PacketsOK
  <2>2. l # <<>> => inbox[a][b] # <<>> \/ b \in up[a]
    BY <1>3 DEF Linked
  <2> QED
    BY <1>2, <2>1, <2>2
<1>7. b \in DOMAIN connection'[a] => b \in DOMAIN connection[a]
  BY DEF AppStep, Store, Inv, ManagersOK
<1>8. /\ Once(inbox[a][b], "NewConnection") => Once(l, "NewConnection")
      /\ Holds(l, "NewConnection") => Holds(inbox[a][b], "NewConnection")
  BY <1>3 DEF More
<1> QED
  BY <1>2, <1>4, <1>5, <1>6, <1>7, <1>8, PacketsNext DEF l

\* The others go on following.
LEMMA AppFollowing ==
  ASSUME Inv, Links, Owned, NEW s \in System, NEW n \in Managers(s), NEW d \in System,
         AppStep(s, n, d), \A e \in System : e # s => Informs(s, n, e),
         NEW a \in System, NEW b \in System, a # b, <<b, a>> # <<s, d>>
  PROVE  Following(a, b)'
<1>1. /\ s \notin up[s] /\ NetworkOK /\ n.out \in [System -> Seq(Message)]
      /\ n.out[b] \in Seq(Packet) /\ inbox[b][a] \in Seq(Packet)
  BY SentLists
<1>2. /\ UNCHANGED <<policy, up, closing>>
      /\ replica'[s] = n.replica /\ connection'[s] = n.connection
      /\ \A e \in System : e # s => replica'[e] = replica[e] /\ connection'[e] = connection[e]
  BY DEF AppStep, Store, Inv, ManagersOK
<1>3. Following(a, b)
  BY DEF Owned
<1>4. (Whole(a, b)' => Whole(a, b)) /\ (Linked(a, b)' <=> Linked(a, b))
  BY <1>2 DEF Whole, Ended, Linked
<1> DEFINE list == inbox'[b][a]
<1>5. /\ list = Sent(s, n)[b][a]
      /\ list = IF a = s /\ Linked(s, b) THEN inbox[b][s] \o n.out[b] ELSE inbox[b][a]
  BY <1>1, SentElsewhere DEF AppStep
<1> HIDE DEF list
<1>6. CASE a = s
  <2> DEFINE k == Manager(b)
  <2>1. replica'[b] = k.replica /\ connection'[b] = k.connection
    BY <1>2, <1>6 DEF Manager
  <2>2. ASSUME NEW r \in Replica, Owns(s, r)
        PROVE  \E y : /\ Leads(list, r, CopyIn(k, s, r), y)
                      /\ Linked(s, b)' => /\ Fits(s, b, Latest(n, b), n, r, y)
                                          /\ Holds(inbox'[s][b], "NewConnection") => y = None
    <3>1. PICK y : Leads(inbox[b][s], r, CopyIn(k, s, r), y) /\ Agreed(s, b, r, y)
      BY <1>3, <1>6, <2>2 DEF Following
    <3>2. CASE Linked(s, b)
      <4>1. Informs(s, n, b)
        BY <1>6
      <4>2. PICK z : /\ Leads(n.out[b], r, y, z) /\ Fits(s, b, Latest(n, b), n, r, z)
                     /\ Holds(inbox'[s][b], "NewConnection") => z = None
        BY <2>2, <3>1, <3>2, <4>1 DEF Informs
      <4>3. Leads(inbox[b][s] \o n.out[b], r, CopyIn(k, s, r), z)
        <5>1. inbox[b][s] \in Seq(Packet)
          BY <1>1, <1>6
        <5> HIDE DEF k
        <5> QED
          BY <1>1, <3>1, <4>2, <5>1, LeadsOn
      <4> QED
        BY <1>5, <1>6, <3>2, <4>2, <4>3
    <3>3. CASE ~Linked(s, b)
      BY <1>4, <1>5, <1>6, <3>1, <3>3
    <3> QED
      BY <3>2, <3>3
  <2>3. inbox'[b][s] = list /\ (Whole(s, b)' => Whole(s, b))
    BY <1>4, <1>6 DEF list
  <2> HIDE DEF k
  <2>4. FollowsAs(s, b, list, n, k)
    BY <2>2 DEF FollowsAs
  <2>5. policy' = policy
    BY <1>2
  <2>6. Following(s, b)'
    BY <1>2, <2>1, <2>3, <2>4, <2>5, FollowingNext
  <2> QED
    BY <1>6, <2>6
<1>7. CASE a # s
  <2> DEFINE m == Manager(a)
             k == IF b = s THEN n ELSE Manager(b)
  <2>1. /\ replica'[a] = m.replica /\ connection'[a] = m.connection
        /\ replica'[b] = k.replica /\ connection'[b] = k.connection
    BY <1>2, <1>7 DEF Manager
  <2>2. ASSUME NEW r \in Replica, Owns(a, r)
        PROVE  \E y : /\ Leads(list, r, CopyIn(k, a, r), y)
                      /\ Linked(a, b)' => /\ Fits(a, b, Latest(m, b), m, r, y)
                                          /\ Holds(inbox'[a][b], "NewConnection") => y = None
    <3>1. PICK y : Leads(inbox[b][a], r, CopyIn(Manager(b), a, r), y) /\ Agreed(a, b, r, y)
      BY <1>3, <2>2 DEF Following
    <3>2. list = inbox[b][a]
      BY <1>5, <1>7
    <3>3. CopyIn(k, a, r) = CopyIn(Manager(b), a, r)
      BY <1>7, <2>2 DEF AppStep
    <3>4. Holds(inbox'[a][b], "NewConnection") => Holds(inbox[a][b], "NewConnection")
      <4>1. inbox'[a][b] = Sent(s, n)[a][b]
        BY <1>7 DEF AppStep
      <4>2. More(inbox[a][b], Sent(s, n)[a][b])
        BY <1>1, SentElsewhere
      <4> QED
        BY <4>1, <4>2 DEF More
    <3> QED
      BY <1>4, <3>1, <3>2, <3>3, <3>4 DEF Agreed
  <2>3. inbox'[b][a] = list
    BY DEF list
  <2> HIDE DEF m, k
  <2>4. FollowsAs(a, b, list, m, k)
    BY <2>2 DEF FollowsAs
  <2>5. policy' = policy
    BY <1>2
  <2> QED
    BY <1>4, <2>1, <2>3, <2>4, <2>5, FollowingNext
<1> QED
  BY <1>6, <1>7

\* Such a step keeps the invariant, if it does for what it has read.
LEMMA AppOwned ==
  ASSUME Inv, Links, Owned, NEW s \in System, NEW n \in Managers(s), NEW d \in System,
         AppStep(s, n, d), \A e \in System : e # s => Informs(s, n, e),
         PacketsOK(s, d)', d # s => Following(d, s)'
  PROVE  Owned'
<1>1. /\ policy' = policy /\ hidden' = hidden
      /\ replica'[s] = n.replica /\ connection'[s] = n.connection /\ OwnerOK(s, n)
      /\ \A e \in System : e # s => replica'[e] = replica[e] /\ connection'[e] = connection[e]
  BY DEF AppStep, Store, Inv, ManagersOK
<1>2. HiddenOK'
  BY <1>1, SamePolicy DEF HiddenOK, Owned
<1>3. ASSUME NEW e \in System PROVE OwnerOK(e, Manager(e))'
  <2>1. CASE e = s
    <3>1. OwnerOK(s, Manager(s))'
      BY <1>1, OwnerNext
    <3> QED
      BY <2>1, <3>1
  <2>2. CASE e # s
    <3> DEFINE m == Manager(e)
    <3>1. replica'[e] = m.replica /\ connection'[e] = m.connection /\ OwnerOK(e, m)
      BY <1>1, <2>2 DEF Manager, Owned
    <3> HIDE DEF m
    <3> QED
      BY <1>1, <3>1, OwnerNext
  <2> QED
    BY <2>1, <2>2
<1>4. ASSUME NEW a \in System, NEW b \in System PROVE PacketsOK(a, b)'
  BY AppPackets
<1>5. ASSUME NEW a \in System, NEW b \in System, a # b PROVE Following(a, b)'
  <2>1. CASE <<b, a>> = <<s, d>>
    BY <1>5, <2>1
  <2>2. CASE <<b, a>> # <<s, d>>
    BY <1>5, <2>2, AppFollowing
  <2> QED
    BY <2>1, <2>2
<1> QED
  BY <1>2, <1>3, <1>4, <1>5 DEF Owned

\* An Update, taken or not, tends the manager and tells the others.
LEMMA UpdatedOwned ==
  ASSUME Inv, Owned, OneOwner(policy), NEW s \in System, NEW tick \in BOOLEAN
  PROVE  LET m == Updated(s, tick) IN
         /\ m \in Managers(s) /\ Tended(s, Manager(s), m)
         /\ \A e \in System : Tells(s, e, Latest(Manager(s), e), Manager(s), Latest(m, e), m)
<1> DEFINE k == Manager(s)
           m == Updated(s, tick)
<1>1. PICK R \in SUBSET Replica, D \in SUBSET System : k \in ManagerIn(s, R, D)
  BY ManagerOf DEF Inv
<1>2. OwnerOK(s, k) /\ HiddenOK
  BY DEF Owned
<1>3. m \in Upkeep(s, R, D, k)
  BY <1>1, UpdatedManager
<1>4. m \in ManagerIn(s, R, D)
  BY <1>3 DEF Upkeep
<1>5. m \in Managers(s)
  <2> HIDE DEF m
  <2> QED
    BY <1>4 DEF Managers
<1>6. CASE s \in looping
  <2>1. m = k
    BY <1>6 DEF Updated
  <2> HIDE DEF k
  <2>2. Tended(s, k, k)
    BY <1>2 DEF Tended
  <2>3. ASSUME NEW e \in System PROVE Tells(s, e, Latest(k, e), k, Latest(k, e), k)
    <3>1. k.out[e] \in Seq(Message)
      BY <1>1, ManagerParts
    <3> QED
      BY <3>1, TellsAsBefore
  <2> HIDE DEF m
  <2> QED
    BY <1>5, <2>1, <2>2, <2>3 DEF m, k
<1>7. CASE s \notin looping
  <2>1. m = Update(s, k, tick)
    BY <1>7 DEF Updated
  <2> HIDE DEF k, m
  <2> DEFINE u == Update(s, k, tick)
  <2>2. /\ Tended(s, k, u)
        /\ \A e \in System : Tells(s, e, Latest(k, e), k, Latest(u, e), u)
    BY <1>1, <1>2, UpdateOwned
  <2> HIDE DEF u
  <2> QED
    BY <1>5, <2>1, <2>2 DEF m, k, u
<1> QED
  BY <1>6, <1>7

\* ... which keeps the copies of what the others own.
LEMMA TendedCopies ==
  ASSUME OneOwner(policy), NEW s \in System, NEW R \in SUBSET Replica, NEW D,
         NEW m \in ManagerIn(s, R, D), NEW n, Tended(s, m, n), NEW e \in System, e # s,
         NEW r \in Replica, Owns(e, r)
  PROVE  CopyIn(n, e, r) = CopyIn(m, e, r)
<1>1. ~Owns(s, r)
  BY OwnersAgree
<1>2. DOMAIN m.replica = R /\ DOMAIN m.connection = D /\ DOMAIN n.connection = D
  BY ManagerParts DEF Tended
<1>3. CASE e \in D
  <2>1. r \in Range(n.connection[e].constructed) <=> r \in Range(m.connection[e].constructed)
    BY <1>1, <1>2, <1>3 DEF Tended
  <2>2. r \in Range(m.connection[e].constructed) => n.replica[r].version = m.replica[r].version
    <3>1. Range(m.connection[e].constructed) \subseteq R
      BY <1>3, ManagerParts, ConnectionLists
    <3> QED
      BY <1>2, <3>1 DEF Tended
  <2> QED
    BY <1>2, <1>3, <2>1, <2>2 DEF CopyIn
<1>4. CASE e \notin D
  BY <1>2, <1>4 DEF CopyIn
<1> QED
  BY <1>3, <1>4

\* What tells e the changes keeps it informed, if nothing is sent without a connection.
LEMMA TellsInforms ==
  ASSUME Inv, Owned, NEW s \in System, NEW n \in Managers(s), NEW e \in System,
         Tells(s, e, Latest(Manager(s), e), Manager(s), Latest(n, e), n),
         Holds(inbox'[s][e], "NewConnection") => Holds(inbox[s][e], "NewConnection"),
         e \notin DOMAIN connection[s] => n.out[e] = <<>>
  PROVE  Informs(s, n, e)
<1> DEFINE m == Manager(s)
<1>1. m.out[e] = <<>>
  BY DEF Manager
<1>3. ASSUME NEW r, NEW y, Agreed(s, e, r, y), Linked(s, e)
      PROVE  /\ Fits(s, e, Latest(m, e), m, r, y)
             /\ Holds(inbox[s][e], "NewConnection") => y = None
  BY <1>3 DEF Agreed
<1>4. Holds(inbox[s][e], "NewConnection") => e \notin DOMAIN connection[s]
  BY DEF Owned, PacketsOK
<1> HIDE DEF m
<1>5. PICK more \in Seq(Message) :
        /\ n.out[e] = m.out[e] \o more
        /\ \A k \in DOMAIN more : MessageOK(s, more[k])
        /\ \A r \in Replica : \A y : Owns(s, r) /\ Fits(s, e, Latest(m, e), m, r, y) =>
             \E z : Leads(more, r, y, z) /\ Fits(s, e, Latest(n, e), n, r, z)
  BY DEF Tells, m
<1>6. n.out[e] = more
  BY <1>1, <1>5
<1>7. AllOK(s, n.out[e])
  BY <1>5, <1>6 DEF AllOK
<1>8. ASSUME NEW r \in Replica, NEW y, Owns(s, r), Linked(s, e), Agreed(s, e, r, y)
      PROVE  \E z : /\ Leads(n.out[e], r, y, z) /\ Fits(s, e, Latest(n, e), n, r, z)
                    /\ Holds(inbox'[s][e], "NewConnection") => z = None
  <2>1. PICK z : Leads(more, r, y, z) /\ Fits(s, e, Latest(n, e), n, r, z)
    BY <1>3, <1>5, <1>8
  <2>2. Holds(inbox'[s][e], "NewConnection") => z = None
    <3> SUFFICES ASSUME Holds(inbox'[s][e], "NewConnection") PROVE z = None
      OBVIOUS
    <3>1. y = None /\ more = <<>>
      BY <1>3, <1>4, <1>6, <1>8
    <3> QED
      BY <2>1, <3>1, LeadsShort
  <2> QED
    BY <1>6, <2>1, <2>2
<1> QED
  BY <1>7, <1>8 DEF Informs

\* An Update alone.
LEMMA OwnedReceiveNothing ==
  ASSUME Inv, Links, Owned, OneOwner(policy), NEW s \in System, ReceiveNothing(s)
  PROVE  Owned'
<1>1. PICK tick \in BOOLEAN :
        LET n == Updated(s, tick) IN Store(s, n) /\ inbox' = Sent(s, n)
  BY DEF ReceiveNothing
<1> DEFINE n == Updated(s, tick)
           m == Manager(s)
<1>2. /\ n \in Managers(s) /\ Tended(s, m, n)
      /\ \A e \in System : Tells(s, e, Latest(m, e), m, Latest(n, e), n)
  BY UpdatedOwned
<1>3. Store(s, n) /\ inbox' = Sent(s, n) /\ UNCHANGED <<policy, hidden, up, closing>>
  BY <1>1 DEF ReceiveNothing
<1>4. DOMAIN m.connection = DOMAIN connection[s] /\ \A e \in System : m.out[e] = <<>>
  BY DEF Manager
<1> HIDE DEF n
<1>5. \A e \in System, r \in Replica : e # s /\ Owns(e, r) => CopyIn(n, e, r) = CopyIn(m, e, r)
  <2>1. PICK R \in SUBSET Replica, D \in SUBSET System : m \in ManagerIn(s, R, D)
    BY ManagerOf DEF Inv
  <2> HIDE DEF m
  <2> QED
    BY <1>2, <2>1, TendedCopies
<1>6. OwnerOK(s, n) /\ DOMAIN n.connection = DOMAIN connection[s]
  BY <1>2, <1>4 DEF Tended
<1>7. AppStep(s, n, s)
  BY <1>3, <1>5, <1>6 DEF AppStep
<1>8. ASSUME NEW e \in System PROVE Informs(s, n, e)
  <2>1. Holds(inbox'[s][e], "NewConnection") => Holds(inbox[s][e], "NewConnection")
    <3>1. More(inbox[s][e], Sent(s, n)[s][e])
      BY <1>2, SentLists, SentElsewhere
    <3> QED
      BY <1>3, <3>1 DEF More
  <2>2. e \notin DOMAIN connection[s] => n.out[e] = <<>>
    BY <1>2, <1>4 DEF Tended
  <2> QED
    BY <1>2, <2>1, <2>2, TellsInforms
<1>9. PacketsOK(s, s)'
  <2>1. PacketsOK(s, s)
    BY DEF Owned
  <2>2. inbox'[s][s] = inbox[s][s]
    <3>1. Sent(s, n)[s][s] = IF Linked(s, s) THEN inbox[s][s] \o n.out[s] ELSE inbox[s][s]
      BY <1>2, SentLists, SentElsewhere
    <3>2. ~Linked(s, s)
      BY DEF Links, Linked
    <3> QED
      BY <1>3, <3>1, <3>2
  <2>3. s \in DOMAIN connection'[s] => s \in DOMAIN connection[s]
    BY <1>3, <1>6 DEF Store, Inv, ManagersOK
  <2>4. AllOK(s, inbox[s][s]) /\ (inbox[s][s] # <<>> \/ s \in up'[s] => {s, s} \in Link[policy])
    BY <1>3, <2>1 DEF PacketsOK
  <2> QED
    BY <1>3, <2>1, <2>2, <2>3, <2>4, PacketsNext
<1> QED
  BY <1>2, <1>7, <1>8, <1>9, AppOwned

\* What the next packet constructs is not there, whether Update runs or not.
LEMMA HeadFresh ==
  ASSUME Inv, Owned, OneOwner(policy), NEW s \in System, NEW d \in System, d # s,
         inbox[s][d] # <<>>, NEW tick \in BOOLEAN, NEW r \in Replica, Owns(d, r)
  PROVE  /\ CopyIn(Updated(s, tick), d, r) = CopyIn(Manager(s), d, r)
         /\ Gives(Head(inbox[s][d]), r) => CopyIn(Manager(s), d, r) = None
<1> DEFINE k == Manager(s)
           m == Updated(s, tick)
<1>1. PICK R \in SUBSET Replica, D \in SUBSET System : k \in ManagerIn(s, R, D)
  BY ManagerOf DEF Inv
<1>2. Tended(s, k, m)
  BY UpdatedOwned
<1> HIDE DEF m
<1>3. PICK y : Leads(inbox[s][d], r, CopyIn(k, d, r), y)
  BY DEF Owned, Following
<1>4. inbox[s][d] \in Seq(Packet)
  BY DEF Inv, NetworkOK
<1> HIDE DEF k
<1>5. Gives(Head(inbox[s][d]), r) => CopyIn(k, d, r) = None
  BY <1>3, <1>4, LeadsFirst
<1>6. CopyIn(m, d, r) = CopyIn(k, d, r)
  BY <1>1, <1>2, TendedCopies
<1> QED
  BY <1>5, <1>6 DEF m, k

\* With single owners constructions do not cross.
LEMMA OwnersUncrossed ==
  ASSUME Inv, Owned, OneOwner(policy)
  PROVE  NoCrossing
<1> SUFFICES ASSUME NEW s \in System, NEW d \in System, d \in DOMAIN connection[s],
                    inbox[s][d] # <<>>, Head(inbox[s][d]).type = "Construction",
                    NEW tick \in BOOLEAN
             PROVE  Uncrossed(Updated(s, tick).connection[d], Head(inbox[s][d]).new)
  BY DEF NoCrossing, Connections
<1> DEFINE p == Head(inbox[s][d])
           m == Updated(s, tick)
<1>1. PICK R \in SUBSET Replica, D \in SUBSET System :
        Manager(s) \in ManagerIn(s, R, D) /\ DOMAIN connection[s] = D
  BY ManagerOf DEF Inv
<1>2. m \in ManagerIn(s, R, D)
  BY <1>1, UpdatedManager DEF Upkeep
<1>3. inbox[s][d] \in Seq(Packet)
  BY DEF Inv, NetworkOK
<1>4. p \in Packet /\ MessageOK(d, p)
  <2>1. Head(inbox[s][d]) \in Packet /\ Head(inbox[s][d]) = inbox[s][d][1] /\ Len(inbox[s][d]) >= 1
        /\ Len(inbox[s][d]) \in Nat
    BY <1>3, RestOfList
  <2>2. 1 \in DOMAIN inbox[s][d]
    BY <1>3, <2>1
  <2>3. AllOK(d, inbox[s][d])
    BY DEF Owned, PacketsOK
  <2> QED
    BY <2>1, <2>2, <2>3 DEF AllOK
<1>5. d # s
  <2>1. {s, d} \in Link[policy]
    BY DEF Owned, PacketsOK
  <2>2. {s} \notin Link[policy]
    BY ManagerAssumption DEF OneOwner, Policies
  <2> QED
    BY <2>1, <2>2
<1>6. p.new \in Seq(Item)
  BY <1>4 DEF p, Packet, Message
<1>7. ASSUME NEW r \in Replica, Owns(d, r), Gives(p, r)
      PROVE  r \notin Range(m.connection[d].constructed)
  <2>1. CopyIn(m, d, r) = None
    BY <1>5, <1>7, HeadFresh
  <2> HIDE DEF m, p
  <2>2. r \in Range(m.connection[d].constructed) => m.replica[r] \in Objects
    BY <1>1, <1>2, ManagerParts, ConnectionLists
  <2>3. DOMAIN m.connection = D
    BY <1>2, ManagerParts
  <2> QED
    BY <1>1, <2>1, <2>2, <2>3 DEF CopyIn, Objects, None
<1>8. p.type = "Construction"
  OBVIOUS
<1> HIDE DEF m, p
<1>9. ASSUME NEW i \in DOMAIN p.new
      PROVE  /\ p.new[i].id \notin Range(m.connection[d].constructed)
             /\ \A j \in DOMAIN p.new : p.new[j].id = p.new[i].id => i = j
  <2>1. p.new[i].id \in Replica
    <3> DEFINE new == p.new
               item == p.new[i]
    <3>1. new \in Seq(Item) /\ i \in DOMAIN new /\ item = new[i]
      BY <1>6
    <3> HIDE DEF new, item
    <3>2. item \in Item
      BY <3>1
    <3>3. item.id \in Replica
      BY <3>2 DEF Item
    <3> QED
      BY <3>3 DEF item
  <2>2. Owns(d, p.new[i].id) /\ \A j \in DOMAIN p.new : p.new[i].id = p.new[j].id => i = j
    BY <1>4, <1>8 DEF MessageOK
  <2>3. Gives(p, p.new[i].id)
    BY <1>8 DEF Gives
  <2> QED
    BY <1>7, <2>1, <2>2, <2>3
<1>10. Uncrossed(m.connection[d], p.new)
  BY <1>9 DEF Uncrossed
<1> QED
  BY <1>10 DEF m, p

\* A packet of d is read: the rest of the inbox with what is pushed back is l.
Read(s, d, m, p, rest, back, l, n) ==
  /\ p \in Packet /\ MessageOK(d, p) /\ {s, d} \in Link[policy] /\ d # s
  /\ rest \in Seq(Packet) /\ inbox[s][d] \in Seq(Packet) /\ l \in Seq(Packet)
  /\ p = Head(inbox[s][d]) /\ rest = Tail(inbox[s][d]) /\ inbox[s][d] # <<>>
  /\ n \in Managers(s) /\ Store(s, n) /\ UNCHANGED <<policy, hidden, up, closing>>
  /\ Answered(s, d, DOMAIN connection[s], p, m, n) /\ BackOK(s, d, back) /\ back \in Seq(Message)
  /\ Handled(d, DOMAIN connection[s], m, p.type, n)
  /\ \E k \in 0..Len(rest) : (back = <<>> => k = Len(rest)) /\ l = InsertedAt(rest, k, back)
  /\ inbox' = [Sent(s, n) EXCEPT ![s][d] = l]
  /\ m \in Managers(s) /\ Tended(s, Manager(s), m)
  /\ \A e \in System : Tells(s, e, Latest(Manager(s), e), Manager(s), Latest(m, e), m)
  /\ \A r \in Replica : Owns(d, r) => CopyIn(m, d, r) = CopyIn(Manager(s), d, r)

\* That is what ReceivePacket does.
LEMMA PacketIsRead ==
  ASSUME Inv, Links, Owned, OneOwner(policy), NEW s \in System, NEW d \in System,
         ReceivePacket(s, d)
  PROVE  \E m, p, rest, back, l, n : Read(s, d, m, p, rest, back, l, n)
<1> DEFINE D == DOMAIN connection[s]
<1>1. inbox[s][d] # <<>> /\ UNCHANGED <<policy, hidden, up, closing>>
  BY DEF ReceivePacket
<1>2. PICK tick \in BOOLEAN :
        LET result == OnReceive(s, d, Updated(s, tick), Head(inbox[s][d]))
            rest == Tail(inbox[s][d])
        IN /\ Store(s, result.m)
           /\ \E k \in Arrivals(rest) :
                /\ result.back = <<>> => k = Len(rest)
                /\ inbox' = [Sent(s, result.m) EXCEPT ![s][d] = InsertedAt(rest, k, result.back)]
  BY DEF ReceivePacket
<1> DEFINE p == Head(inbox[s][d])
           m == Updated(s, tick)
           result == OnReceive(s, d, m, p)
           back == result.back
           n == result.m
           rest == Tail(inbox[s][d])
<1>3. NoCrossing
  BY OwnersUncrossed
<1>4. /\ n \in Managers(s) /\ back \in Seq(Message) /\ Handled(d, D, m, p.type, n)
  BY <1>1, <1>3, PacketRead
<1>5. PICK k \in Arrivals(rest) :
        /\ back = <<>> => k = Len(rest)
        /\ inbox' = [Sent(s, n) EXCEPT ![s][d] = InsertedAt(rest, k, back)]
  BY <1>2
<1>6. Store(s, n)
  BY <1>2
<1>7. inbox[s][d] \in Seq(Packet)
  BY DEF Inv, NetworkOK
<1>8. /\ p \in Packet /\ rest \in Seq(Packet) /\ p = inbox[s][d][1] /\ 1 \in DOMAIN inbox[s][d]
  BY <1>1, <1>7, RestOfList
<1>9. MessageOK(d, p)
  <2>1. AllOK(d, inbox[s][d])
    BY DEF Owned, PacketsOK
  <2> QED
    BY <1>8, <2>1 DEF AllOK
<1>10. {s, d} \in Link[policy]
  BY <1>1 DEF Owned, PacketsOK
<1>11. d # s
  <2>1. {s} \notin Link[policy]
    BY ManagerAssumption DEF OneOwner, Policies
  <2> QED
    BY <1>10, <2>1
<1>12. /\ m \in Managers(s) /\ Tended(s, Manager(s), m)
       /\ \A e \in System : Tells(s, e, Latest(Manager(s), e), Manager(s), Latest(m, e), m)
  BY UpdatedOwned
<1>13. ASSUME NEW r \in Replica, Owns(d, r)
       PROVE  CopyIn(m, d, r) = CopyIn(Manager(s), d, r) /\ (Gives(p, r) => CopyIn(m, d, r) = None)
  BY <1>1, <1>11, <1>13, HeadFresh
<1>14. p.type = "NewConnection" => d \notin D
  <2>1. Holds(inbox[s][d], "NewConnection") => d \notin D
    BY DEF Owned, PacketsOK
  <2> QED
    BY <1>8, <2>1 DEF Holds
<1>15. Answered(s, d, D, p, m, n) /\ BackOK(s, d, back)
  <2>1. PICK R \in SUBSET Replica, E \in SUBSET System :
          Manager(s) \in ManagerIn(s, R, E) /\ DOMAIN connection[s] = E
    BY ManagerOf DEF Inv
  <2>2. m \in ManagerIn(s, R, E)
    BY <2>1, UpdatedManager DEF Upkeep
  <2>3. OwnerOK(s, m) /\ D = E /\ D \in SUBSET System
    BY <1>12, <2>1 DEF Tended
  <2> HIDE DEF m, p, D
  <2>4. m \in ManagerIn(s, R, D)
    BY <2>2, <2>3
  <2> DEFINE given == OnReceive(s, d, m, p)
  <2>5. Answered(s, d, D, p, m, given.m) /\ BackOK(s, d, given.back)
    BY <1>8, <1>9, <1>10, <1>11, <1>13, <1>14, <2>3, <2>4, HandlerOwned
  <2> QED
    BY <2>5
<1> DEFINE l == InsertedAt(rest, k, back)
<1>16. k \in 0..Len(rest)
  BY DEF Arrivals
<1>17. rest = Tail(inbox[s][d]) /\ p = Head(inbox[s][d])
  OBVIOUS
<1> HIDE DEF m, p, result, back, n, rest
<1>18. l \in Seq(Packet)
  <2>1. back \in Seq(Packet)
    BY <1>4, MessagesArePackets
  <2>2. Widened(rest, k, back, l)
    BY <1>8, <1>16, <2>1, InsertedWidens
  <2> QED
    BY <2>2 DEF Widened
<1>19. \E i \in 0..Len(rest) : (back = <<>> => i = Len(rest)) /\ l = InsertedAt(rest, i, back)
  BY <1>5, <1>16
<1>20. inbox' = [Sent(s, n) EXCEPT ![s][d] = l]
  BY <1>5
<1> HIDE DEF l
<1>21. Read(s, d, m, p, rest, back, l, n)
  BY <1>1, <1>4, <1>6, <1>7, <1>8, <1>9, <1>10, <1>11, <1>12, <1>13, <1>15, <1>17, <1>18, <1>19, <1>20
     DEF Read
<1> QED
  BY <1>21

\* What is left for s to read is what it was, but for messages and the packet.
LEMMA ReadLists ==
  ASSUME Inv, Links, NEW s \in System, NEW d \in System, NEW m, NEW p, NEW rest, NEW back, NEW l,
         NEW n, Read(s, d, m, p, rest, back, l, n)
  PROVE  /\ inbox'[s][d] = l /\ More(rest, l)
         /\ \A t : Holds(inbox[s][d], t) <=> p.type = t \/ Holds(rest, t)
         /\ \A t : Once(inbox[s][d], t) => Once(rest, t)
         /\ \A t : Once(inbox[s][d], t) /\ p.type = t => ~Holds(rest, t)
         /\ \A a, b \in System : <<a, b>> # <<s, d>> => inbox'[a][b] = Sent(s, n)[a][b]
<1> DEFINE list == inbox[s][d]
<1>1. list \in Seq(Packet) /\ list # <<>> /\ rest = Tail(list) /\ p = Head(list)
      /\ rest \in Seq(Packet) /\ back \in Seq(Message)
      /\ inbox' = [Sent(s, n) EXCEPT ![s][d] = l]
  BY DEF Read
<1>2. PICK k \in 0..Len(rest) : l = InsertedAt(rest, k, back)
  BY DEF Read
<1>3. back \in Seq(Packet)
  BY <1>1, MessagesArePackets
<1>4. Widened(rest, k, back, l)
  BY <1>1, <1>2, <1>3, InsertedWidens
<1>5. More(rest, l)
  BY <1>1, <1>4, WidenedWithMessages
<1>6. inbox'[s][d] = l /\ \A a, b \in System : <<a, b>> # <<s, d>> => inbox'[a][b] = Sent(s, n)[a][b]
  BY <1>1 DEF Sent
<1> HIDE DEF list
<1>7. /\ \A t : Holds(list, t) <=> p.type = t \/ Holds(rest, t)
      /\ \A t : Once(list, t) => Once(rest, t)
      /\ \A t : Once(list, t) /\ p.type = t => ~Holds(rest, t)
  BY <1>1, HeadRead
<1> QED
  BY <1>5, <1>6, <1>7 DEF list

\* Reading changes the connection to the sender only.
LEMMA ReadStep ==
  ASSUME Inv, Owned, OneOwner(policy), NEW s \in System, NEW d \in System, NEW m, NEW p, NEW rest,
         NEW back, NEW l, NEW n, Read(s, d, m, p, rest, back, l, n)
  PROVE  AppStep(s, n, d)
<1>1. \A a, b \in System : <<a, b>> # <<s, d>> => inbox'[a][b] = Sent(s, n)[a][b]
  BY DEF Read, Sent
<1>2. \A b \in System : b # d => (b \in DOMAIN n.connection => b \in DOMAIN connection[s])
  BY DEF Read, Handled, Pushed, Popped, Validated, SameValidation
<1>3. ASSUME NEW e \in System, NEW r \in Replica, e # d, e # s, Owns(e, r)
      PROVE  CopyIn(n, e, r) = CopyIn(Manager(s), e, r)
  <2> DEFINE k == Manager(s)
  <2>1. PICK R \in SUBSET Replica, D \in SUBSET System : k \in ManagerIn(s, R, D)
    BY ManagerOf DEF Inv
  <2>2. Tended(s, k, m)
    BY DEF Read
  <2> HIDE DEF k
  <2>3. CopyIn(m, e, r) = CopyIn(k, e, r)
    BY <1>3, <2>1, <2>2, TendedCopies
  <2>4. CopyIn(n, e, r) = CopyIn(m, e, r)
    BY <1>3 DEF Read, Answered
  <2> QED
    BY <2>3, <2>4 DEF k
<1>4. Store(s, n) /\ UNCHANGED <<policy, hidden, up, closing>> /\ OwnerOK(s, n)
  BY DEF Read, Answered
<1> QED
  BY <1>1, <1>2, <1>3, <1>4 DEF AppStep

\* The others are informed, a new connection from its beginning.
LEMMA ReadInforms ==
  ASSUME Inv, Links, Owned, NEW s \in System, NEW d \in System, NEW m, NEW p, NEW rest,
         NEW back, NEW l, NEW n, Read(s, d, m, p, rest, back, l, n), NEW e \in System, e # s
  PROVE  Informs(s, n, e)
<1> DEFINE k == Manager(s)
<1>1. k.out[e] = <<>> /\ DOMAIN k.connection = DOMAIN connection[s]
  BY DEF Manager
<1>2. /\ Tended(s, k, m) /\ Answered(s, d, DOMAIN connection[s], p, m, n)
      /\ Tells(s, e, Latest(k, e), k, Latest(m, e), m) /\ n \in Managers(s)
  BY DEF Read
<1>3. e \notin DOMAIN connection[s] => m.out[e] = k.out[e]
  BY <1>1, <1>2 DEF Tended
<1>4. CASE p.type = "NewConnection" /\ e = d
  <2>1. Holds(inbox[s][d], "NewConnection")
    BY <1>4, ReadLists
  <2>2. d \notin DOMAIN connection[s]
    BY <2>1 DEF Owned, PacketsOK
  <2>3. m.out[d] = <<>>
    BY <1>1, <1>3, <1>4, <2>2
  <2>4. PICK more \in Seq(Message) :
          /\ n.out[d] = m.out[d] \o more
          /\ \A i \in DOMAIN more : MessageOK(s, more[i])
          /\ \A r \in Replica : Owns(s, r) => /\ Leads(more, r, None, None)
                                              /\ Fits(s, d, Latest(n, d), n, r, None)
    BY <1>2, <1>4 DEF Answered, Opens
  <2>5. n.out[d] = more
    BY <2>3, <2>4
  <2>6. AllOK(s, n.out[d])
    BY <2>4, <2>5 DEF AllOK
  <2>7. ASSUME NEW r \in Replica, NEW y, Owns(s, r), Linked(s, d), Agreed(s, d, r, y)
        PROVE  \E z : /\ Leads(n.out[d], r, y, z) /\ Fits(s, d, Latest(n, d), n, r, z)
                      /\ Holds(inbox'[s][d], "NewConnection") => z = None
    <3>1. y = None
      BY <2>1, <2>7 DEF Agreed
    <3> QED
      BY <2>4, <2>5, <2>7, <3>1
  <2> QED
    BY <1>4, <2>6, <2>7 DEF Informs
<1>5. CASE ~(p.type = "NewConnection" /\ e = d)
  <2>1. Tells(s, e, Latest(m, e), m, Latest(n, e), n)
    BY <1>2, <1>5 DEF Answered
  <2>2. k.out[e] \in Seq(Message)
    BY <1>1
  <2>3. e \notin DOMAIN connection[s] => n.out[e] = <<>>
    BY <1>1, <1>2, <1>3, <1>5 DEF Answered
  <2>4. Holds(inbox'[s][e], "NewConnection") => Holds(inbox[s][e], "NewConnection")
    <3>1. CASE e = d
      <4>1. inbox'[s][d] = l /\ More(rest, l)
            /\ (Holds(rest, "NewConnection") => Holds(inbox[s][d], "NewConnection"))
        BY ReadLists
      <4> QED
        BY <3>1, <4>1 DEF More
    <3>2. CASE e # d
      <4>1. inbox'[s][e] = Sent(s, n)[s][e]
        BY <3>2, ReadLists
      <4>2. More(inbox[s][e], Sent(s, n)[s][e])
        BY <1>2, SentLists, SentElsewhere
      <4> QED
        BY <4>1, <4>2 DEF More
    <3> QED
      BY <3>1, <3>2
  <2> HIDE DEF k
  <2>5. Tells(s, e, Latest(k, e), k, Latest(n, e), n)
    BY <1>2, <2>1, <2>2, TellsOn
  <2> USE DEF k
  <2> QED
    BY <1>2, <2>3, <2>4, <2>5, TellsInforms
<1> QED
  BY <1>4, <1>5

\* What is left to read is right.
LEMMA ReadPackets ==
  ASSUME Inv, Links, Owned, NEW s \in System, NEW d \in System, NEW m, NEW p, NEW rest,
         NEW back, NEW l, NEW n, Read(s, d, m, p, rest, back, l, n)
  PROVE  PacketsOK(s, d)'
<1>1. /\ policy' = policy /\ inbox'[s][d] = l /\ {s, d} \in Link[policy]
      /\ rest \in Seq(Packet) /\ back \in Seq(Message)
  <2>1. inbox'[s][d] = l
    BY ReadLists
  <2> QED
    BY <2>1 DEF Read
<1>2. PacketsOK(s, d)
  BY DEF Owned
<1>3. AllOK(d, l)
  <2>1. PICK k \in 0..Len(rest) : l = InsertedAt(rest, k, back)
    BY DEF Read
  <2>2. AllOK(d, back)
    BY DEF Read, BackOK, AllOK
  <2>3. AllOK(d, rest)
    <3>1. /\ inbox[s][d] \in Seq(Packet) /\ inbox[s][d] # <<>> /\ rest = Tail(inbox[s][d])
          /\ AllOK(d, inbox[s][d])
      BY <1>2 DEF Read, PacketsOK
    <3>2. 0 \in 0..Len(inbox[s][d])
      BY <3>1
    <3>3. Fewer(inbox[s][d], rest)
      BY <3>1, <3>2, FewerLeft
    <3> QED
      BY <3>1, <3>3 DEF Fewer
  <2>4. back \in Seq(Packet)
    BY <1>1, MessagesArePackets
  <2> QED
    BY <1>1, <2>1, <2>2, <2>3, <2>4, AllInserted
<1>4. /\ More(rest, l)
      /\ \A t : Holds(inbox[s][d], t) <=> p.type = t \/ Holds(rest, t)
      /\ \A t : Once(inbox[s][d], t) => Once(rest, t)
      /\ \A t : Once(inbox[s][d], t) /\ p.type = t => ~Holds(rest, t)
  BY ReadLists
<1>5. Once(l, "NewConnection")
  BY <1>2, <1>4 DEF PacketsOK, More
<1>6. connection'[s] = n.connection
  BY DEF Read, Store, Inv, ManagersOK
<1>7. Holds(l, "NewConnection") => d \notin DOMAIN n.connection
  <2> SUFFICES ASSUME Holds(l, "NewConnection") PROVE d \notin DOMAIN n.connection
    OBVIOUS
  <2>1. Holds(rest, "NewConnection") /\ p.type # "NewConnection"
    BY <1>2, <1>4 DEF PacketsOK, More
  <2>2. d \notin DOMAIN connection[s]
    BY <1>2, <1>4, <2>1 DEF PacketsOK
  <2>3. Handled(d, DOMAIN connection[s], m, p.type, n)
    BY DEF Read
  <2> QED
    BY <2>1, <2>2, <2>3 DEF Handled, SameValidation
<1>8. AllOK(d, inbox[s][d])'
  BY <1>1, <1>3, SamePolicy DEF AllOK
<1>9. Once(inbox[s][d], "NewConnection")'
  BY <1>1, <1>5 DEF Once
<1>10. (Holds(inbox[s][d], "NewConnection") => d \notin DOMAIN connection[s])'
  BY <1>1, <1>6, <1>7 DEF Holds
<1> QED
  BY <1>1, <1>8, <1>9, <1>10 DEF PacketsOK

\* The reader goes on following the sender.
LEMMA ReadFollowing ==
  ASSUME Inv, Links, Owned, OneOwner(policy), NEW s \in System, NEW d \in System, NEW m, NEW p,
         NEW rest, NEW back, NEW l, NEW n, Read(s, d, m, p, rest, back, l, n)
  PROVE  Following(d, s)'
<1> DEFINE q == Manager(d)
           k == Manager(s)
           D == DOMAIN connection[s]
<1>1. d # s /\ rest \in Seq(Packet) /\ {s, d} \in Link[policy]
      /\ UNCHANGED <<policy, up, closing>>
  BY DEF Read
<1>2. /\ replica'[s] = n.replica /\ connection'[s] = n.connection
      /\ replica'[d] = q.replica /\ connection'[d] = q.connection
  BY <1>1 DEF Read, Store, Inv, ManagersOK, Manager
<1>3. (Whole(d, s)' => Whole(d, s)) /\ (Linked(d, s)' <=> Linked(d, s))
  BY <1>1 DEF Whole, Ended, Linked
<1>4. inbox'[s][d] = l
  BY ReadLists
<1>5. Holds(inbox'[d][s], "NewConnection") => Holds(inbox[d][s], "NewConnection")
  <2>1. inbox'[d][s] = Sent(s, n)[d][s]
    BY <1>1, ReadLists
  <2>2. n \in Managers(s)
    BY DEF Read
  <2>3. More(inbox[d][s], Sent(s, n)[d][s])
    BY <2>2, SentLists, SentElsewhere
  <2> QED
    BY <2>1, <2>3 DEF More
<1>6. ASSUME NEW r \in Replica, Owns(d, r)
      PROVE  \E y : /\ Leads(l, r, CopyIn(n, d, r), y)
                    /\ Linked(d, s)' => /\ Fits(d, s, Latest(q, s), q, r, y)
                                        /\ Holds(inbox'[d][s], "NewConnection") => y = None
  <2>1. l = rest
    <3>1. s \notin Grouping
      BY <1>1, <1>6 DEF OneOwner, Owns
    <3>2. back = <<>>
      BY <3>1 DEF Read, BackOK
    <3>3. l = InsertedAt(rest, Len(rest), <<>>)
      BY <3>2 DEF Read
    <3> QED
      BY <1>1, <3>3, InsertedNothing
  <2>2. PICK y : Leads(inbox[s][d], r, CopyIn(k, d, r), y) /\ Agreed(d, s, r, y)
    BY <1>1, <1>6 DEF Owned, Following
  <2>3. /\ inbox[s][d] \in Seq(Packet) /\ inbox[s][d] # <<>>
        /\ rest = Tail(inbox[s][d]) /\ p = Head(inbox[s][d])
    BY DEF Read
  <2>4. Leads(rest, r, Effect(p, r, CopyIn(k, d, r)), y)
    <3> HIDE DEF k
    <3> QED
      BY <2>2, <2>3, LeadsFirst
  <2>5. /\ CopyIn(m, d, r) = CopyIn(k, d, r)
        /\ CopyIn(n, d, r) = IF d \in D THEN Effect(p, r, CopyIn(m, d, r)) ELSE None
    BY <1>6 DEF Read, Answered
  <2>6. Linked(d, s)' => /\ Fits(d, s, Latest(q, s), q, r, y)
                         /\ Holds(inbox'[d][s], "NewConnection") => y = None
    BY <1>3, <1>5, <2>2 DEF Agreed
  <2>7. CASE d \in D
    BY <2>1, <2>4, <2>5, <2>6, <2>7
  <2>8. CASE d \notin D
    <3>1. CopyIn(n, d, r) = None
      BY <2>5, <2>8
    <3> HIDE DEF k
    <3>2. PICK z : /\ Leads(rest, r, None, z)
                   /\ z = y \/ (z = None /\ ~Holds(rest, "NewConnection"))
      BY <1>1, <2>4, LeadsForgotten
    <3>3. CASE z = y
      BY <2>1, <2>6, <3>1, <3>2, <3>3
    <3>4. CASE z = None /\ p.type = "NewConnection"
      <4>1. Effect(p, r, CopyIn(k, d, r)) = None
        BY <3>4 DEF Effect, Takes, Events
      <4> QED
        BY <2>1, <2>4, <2>6, <3>1, <4>1
    <3>5. CASE z = None /\ p.type # "NewConnection" /\ z # y
      <4>1. ~Holds(inbox[s][d], "NewConnection")
        BY <3>2, <3>5, ReadLists
      <4>2. EndOK(s, d)
        BY DEF Links
      <4>3. ~Whole(d, s)
        BY <2>8, <4>1, <4>2 DEF EndOK, Whole
      <4>4. Fits(d, s, Latest(q, s), q, r, z)
        BY <3>5, <4>3 DEF Fits
      <4> QED
        BY <2>1, <3>1, <3>2, <3>5, <4>4
    <3> QED
      BY <3>2, <3>3, <3>4, <3>5
  <2> QED
    BY <2>7, <2>8
<1> HIDE DEF q, k, D
<1>7. FollowsAs(d, s, l, q, n)
  BY <1>6 DEF FollowsAs
<1>8. policy' = policy
  BY <1>1
<1> QED
  BY <1>2, <1>3, <1>4, <1>7, <1>8, FollowingNext

\* A packet is read.
LEMMA OwnedReceivePacket ==
  ASSUME Inv, Links, Owned, OneOwner(policy), NEW s \in System, NEW d \in System,
         ReceivePacket(s, d)
  PROVE  Owned'
<1>1. PICK m, p, rest, back, l, n : Read(s, d, m, p, rest, back, l, n)
  BY PacketIsRead
<1>2. n \in Managers(s)
  BY <1>1 DEF Read
<1>3. AppStep(s, n, d)
  BY <1>1, ReadStep
<1>4. \A e \in System : e # s => Informs(s, n, e)
  BY <1>1, ReadInforms
<1>5. PacketsOK(s, d)'
  BY <1>1, ReadPackets
<1>6. Following(d, s)'
  BY <1>1, ReadFollowing
<1> QED
  BY <1>2, <1>3, <1>4, <1>5, <1>6, AppOwned

\* Nothing that is stored or under way changes.
LEMMA OwnedKept ==
  ASSUME Owned, UNCHANGED <<policy, replica, connection, inbox, up, closing>>, HiddenOK'
  PROVE  Owned'
<1>1. policy' = policy /\ \A e \in System : Manager(e)' = Manager(e)
  BY DEF Manager
<1>2. \A d, r : Owns(d, r)' <=> Owns(d, r)
  BY <1>1, SamePolicy
<1>3. ASSUME NEW e \in System PROVE OwnerOK(e, Manager(e))'
  <2> DEFINE m == Manager(e)
  <2>1. replica'[e] = m.replica /\ connection'[e] = m.connection /\ OwnerOK(e, m)
    BY DEF Manager, Owned
  <2> HIDE DEF m
  <2> QED
    BY <1>1, <2>1, OwnerNext
<1>4. ASSUME NEW a \in System, NEW b \in System PROVE PacketsOK(a, b)'
  <2>1. PacketsOK(a, b)
    BY DEF Owned
  <2>2. inbox' = inbox /\ up' = up /\ connection' = connection
    OBVIOUS
  <2>3. AllOK(b, inbox'[a][b]) /\ (inbox'[a][b] # <<>> \/ b \in up'[a] => {a, b} \in Link[policy])
    BY <2>1, <2>2 DEF PacketsOK
  <2> QED
    BY <1>1, <2>1, <2>2, <2>3, PacketsNext
<1>5. ASSUME NEW a \in System, NEW b \in System, a # b PROVE Following(a, b)'
  <2> DEFINE m == Manager(a)
             k == Manager(b)
             list == inbox[b][a]
  <2>1. /\ replica'[a] = m.replica /\ connection'[a] = m.connection
        /\ replica'[b] = k.replica /\ connection'[b] = k.connection /\ inbox'[b][a] = list
    BY DEF Manager
  <2>2. (Whole(a, b)' => Whole(a, b)) /\ (Linked(a, b)' <=> Linked(a, b))
    BY DEF Whole, Ended, Linked
  <2>3. FollowsAs(a, b, list, m, k)
    BY <1>5, <2>2 DEF FollowsAs, Owned, Following, Agreed
  <2> HIDE DEF m, k, list
  <2> QED
    BY <1>1, <2>1, <2>2, <2>3, FollowingNext
<1> QED
  BY <1>3, <1>4, <1>5 DEF Owned

\* An application moves what it owns in and out of scope.
LEMMA OwnedRescope ==
  ASSUME Owned, NEW s \in System, NEW d \in System, NEW r \in Replica, Rescope(s, d, r)
  PROVE  Owned'
<1>1. UNCHANGED <<policy, replica, connection, inbox, up, closing>>
  BY DEF Rescope, manager, network
<1>2. Owns(s, r) /\ hidden' \subseteq hidden \cup {<<s, d, r>>}
  BY DEF Rescope, Owns
<1>3. HiddenOK'
  <2>1. HiddenOK
    BY DEF Owned
  <2>2. \A e, q : Owns(e, q)' <=> Owns(e, q)
    BY <1>1, SamePolicy
  <2> QED
    BY <1>2, <2>1, <2>2 DEF HiddenOK
<1> QED
  BY <1>1, <1>3, OwnedKept

\* s changes a replica of its own, or makes one, and sends nothing.
LEMMA OwnedChanged ==
  ASSUME Inv, Links, Owned, OneOwner(policy), NEW s \in System, NEW n \in Managers(s),
         Store(s, n), UNCHANGED <<policy, hidden, up, closing, inbox>>, OwnerOK(s, n),
         n.out = Manager(s).out, n.connection = connection[s], NEW r \in Replica, Owns(s, r),
         \A q \in Replica : q # r /\ q \in DOMAIN replica[s] => n.replica[q] = replica[s][q],
         \A e \in DOMAIN connection[s] : r \in Range(connection[s][e].constructed) =>
           r \notin Latest(n, e)
  PROVE  Owned'
<1> DEFINE m == Manager(s)
<1>1. /\ m.replica = replica[s] /\ m.connection = connection[s]
      /\ \A e \in System : m.out[e] = <<>> /\ n.out[e] = <<>>
  BY DEF Manager
<1>2. PICK R \in SUBSET Replica, D \in SUBSET System :
        m \in ManagerIn(s, R, D) /\ DOMAIN replica[s] = R /\ DOMAIN connection[s] = D
  BY ManagerOf DEF Inv
<1> HIDE DEF m
<1>3. \A e \in D : Range(connection[s][e].constructed) \subseteq R
  BY <1>1, <1>2, ManagerParts, ConnectionLists
<1>4. ASSUME NEW e \in System, NEW q \in Replica, Owns(e, q), e # s
      PROVE  CopyIn(n, e, q) = CopyIn(m, e, q)
  <2>1. q # r
    BY <1>4, OwnersAgree
  <2> QED
    BY <1>1, <1>2, <1>3, <2>1 DEF CopyIn
<1>5. \A a, b \in System : inbox'[a][b] = Sent(s, n)[a][b]
  <2>1. inbox \in [System -> [System -> Seq(Packet)]]
    BY DEF Inv, NetworkOK
  <2>2. ASSUME NEW a \in System, NEW b \in System PROVE inbox[a][b] = Sent(s, n)[a][b]
    <3>1. inbox[a][s] \in Seq(Packet) /\ n.out[a] = <<>>
      BY <1>1, <2>1
    <3>2. inbox[a][s] \o n.out[a] = inbox[a][s]
      BY <3>1
    <3> QED
      BY <3>2 DEF Sent
  <2> QED
    BY <2>2
<1>6. AppStep(s, n, s)
  BY <1>4, <1>5 DEF AppStep, m
<1>7. ASSUME NEW e \in System PROVE Informs(s, n, e)
  <2>1. ASSUME NEW q \in Replica, NEW y, Owns(s, q), Fits(s, e, Latest(m, e), m, q, y)
        PROVE  Fits(s, e, Latest(n, e), n, q, y)
    <3>1. CASE e \in D /\ q \in Range(connection[s][e].constructed)
      <4>1. CASE q = r
        BY <1>1, <1>2, <2>1, <3>1, <4>1 DEF Fits
      <4>2. CASE q # r
        <5>1. n.replica[q] = m.replica[q]
          BY <1>1, <1>2, <1>3, <3>1, <4>2
        <5>2. q \in Latest(n, e) => q \in Latest(m, e)
          BY <1>1, <5>1 DEF Latest
        <5> QED
          BY <1>1, <2>1, <5>1, <5>2 DEF Fits
      <4> QED
        BY <4>1, <4>2
    <3>2. CASE e \in D /\ q \notin Range(connection[s][e].constructed)
      BY <1>1, <2>1, <3>2 DEF Fits
    <3>3. CASE e \notin D
      BY <1>2, <3>3 DEF Fits
    <3> QED
      BY <3>1, <3>2, <3>3
  <2>2. n.out[e] = m.out[e] /\ m.out[e] \in Seq(Message)
    <3>1. m.out[e] = <<>> /\ n.out[e] = <<>>
      BY <1>1
    <3>2. <<>> \in Seq(Message)
      OBVIOUS
    <3> QED
      BY <3>1, <3>2
  <2>3. Tells(s, e, Latest(m, e), m, Latest(n, e), n)
    BY <2>1, <2>2, TellsNothing
  <2> USE DEF m
  <2> QED
    BY <1>1, <2>3, TellsInforms
<1>8. PacketsOK(s, s)'
  <2>1. PacketsOK(s, s)
    BY DEF Owned
  <2>2. s \in DOMAIN connection'[s] => s \in DOMAIN connection[s]
    BY DEF Store, Inv, ManagersOK
  <2>3. AllOK(s, inbox[s][s]) /\ (inbox[s][s] # <<>> \/ s \in up'[s] => {s, s} \in Link[policy])
    BY <2>1 DEF PacketsOK
  <2> QED
    BY <2>1, <2>2, <2>3, PacketsNext
<1> QED
  BY <1>6, <1>7, <1>8, AppOwned

\* What is stored is a manager.
LEMMA StoredManager ==
  ASSUME Inv', policy' = policy, NEW s \in System, NEW n, replica'[s] = n.replica,
         connection'[s] = n.connection, n = [replica |-> n.replica, connection |-> n.connection,
                                             out |-> Manager(s).out]
  PROVE  n \in Managers(s)
<1>1. Manager(s)' \in Managers(s)'
  BY DEF Inv, ManagersOK
<1>2. Managers(s)' = Managers(s)
  BY SameManagers
<1>3. Manager(s)' = n
  BY DEF Manager
<1> QED
  BY <1>1, <1>2, <1>3

\* A new replica, with data and in no list.
LEMMA OwnedReference ==
  ASSUME Inv, Links, Owned, OneOwner(policy), NEW s \in System, NEW r \in Replica, Reference(s, r)
  PROVE  Owned'
<1> DEFINE m == Manager(s)
           object == With(replica[s], r, Object(s, 1))
           n == [replica |-> object, connection |-> connection[s], out |-> m.out]
<1>1. PICK R \in SUBSET Replica, D \in SUBSET System :
        /\ m \in ManagerIn(s, R, D) /\ DOMAIN replica[s] = R /\ DOMAIN connection[s] = D
        /\ \A e \in D : connection[s][e] \in ConnectionIn(s, R)
  BY ManagerOf DEF Inv
<1>2. ~Queries(s)
  BY OwnerAnswers
<1>3. /\ r \notin R /\ replica' = [replica EXCEPT ![s] = object]
      /\ UNCHANGED <<policy, hidden, up, closing, inbox>>
  BY <1>1 DEF Reference, network
<1>4. connection' = connection
  <2>1. connection' = [connection EXCEPT ![s] = [d \in DOMAIN @ |-> @[d]]]
    BY <1>2 DEF Reference
  <2>2. connection[s] = [d \in D |-> connection[s][d]]
    BY <1>1 DEF Manager, ManagerIn
  <2>3. connection = [e \in System |-> connection[e]]
    BY DEF Inv, ManagersOK
  <2> QED
    BY <1>1, <2>1, <2>2, <2>3
<1>5. replica'[s] = object
  BY <1>3 DEF Inv, ManagersOK
<1>6. n \in Managers(s)
  <2>1. Inv'
    BY ReferenceKeeps
  <2>2. n = [replica |-> n.replica, connection |-> n.connection, out |-> Manager(s).out]
    OBVIOUS
  <2>3. replica'[s] = n.replica /\ connection'[s] = n.connection
    BY <1>4, <1>5
  <2> HIDE DEF n
  <2> QED
    BY <1>3, <2>1, <2>2, <2>3, StoredManager
<1>7. Owns(s, r)
  BY DEF Reference, Owns
<1>8. /\ DOMAIN object = R \cup {r} /\ \A q \in R : object[q] = replica[s][q]
      /\ object[r] = Object(s, 1)
  BY <1>1, <1>3 DEF With
<1>9. \A e \in D : Range(connection[s][e].constructed) \subseteq R
  BY <1>1, ConnectionLists
<1>10. OwnerOK(s, m) /\ m.replica = replica[s] /\ m.connection = connection[s]
  BY DEF Owned, Manager
<1>11. /\ n.replica = object /\ n.connection = connection[s] /\ n.out = m.out
  OBVIOUS
<1> HIDE DEF object, n, m
<1>12. ObjectsOK(s, n)
  <2>1. ASSUME NEW q \in R
        PROVE  LET o == object[q] IN
               /\ Owns(o.creator, q)
               /\ o.creator = s => o.version > 0 /\ o.lastSent =< o.version
               /\ o.creator # s => /\ o.creator \in D
                                   /\ q \in Range(connection[s][o.creator].constructed)
    BY <1>1, <1>8, <1>10 DEF OwnerOK, ObjectsOK
  <2>2. object[r].creator = s /\ object[r].version = 1 /\ object[r].lastSent = 0
    BY <1>8 DEF Object
  <2> QED
    BY <1>1, <1>7, <1>8, <1>11, <2>1, <2>2 DEF ObjectsOK
<1>13. ASSUME NEW e \in D PROVE ConnectionOK(s, e, n)
  <2>1. ConnectionOK(s, e, m)
    BY <1>1, <1>10 DEF OwnerOK
  <2>2. \A q \in Range(connection[s][e].constructed) : object[q] = replica[s][q]
    BY <1>8, <1>9
  <2> QED
    BY <1>10, <1>11, <2>1, <2>2 DEF ConnectionOK
<1>14. OwnerOK(s, n)
  BY <1>1, <1>11, <1>12, <1>13 DEF OwnerOK
<1>15. Store(s, n)
  <2>1. connection = [connection EXCEPT ![s] = connection[s]]
    BY DEF Inv, ManagersOK
  <2> QED
    BY <1>3, <1>4, <1>11, <2>1 DEF Store
<1>16. \A q \in Replica : q # r /\ q \in DOMAIN replica[s] => n.replica[q] = replica[s][q]
  BY <1>1, <1>8, <1>11
<1>17. \A e \in DOMAIN connection[s] : r \in Range(connection[s][e].constructed) =>
         r \notin Latest(n, e)
  BY <1>1, <1>3, <1>9
<1> QED
  BY <1>3, <1>6, <1>7, <1>11, <1>14, <1>15, <1>16, <1>17, OwnedChanged DEF m

\* A change of state, which has not been sent to anyone.
LEMMA OwnedChange ==
  ASSUME Inv, Links, Owned, OneOwner(policy), NEW s \in System, NEW r \in Replica, Change(s, r)
  PROVE  Owned'
<1> DEFINE m == Manager(s)
           v == replica[s][r].version
           object == [replica[s] EXCEPT ![r].version = v + 1]
           n == [replica |-> object, connection |-> connection[s], out |-> m.out]
<1>1. PICK R \in SUBSET Replica, D \in SUBSET System :
        /\ m \in ManagerIn(s, R, D) /\ DOMAIN replica[s] = R /\ DOMAIN connection[s] = D
        /\ \A e \in D : connection[s][e] \in ConnectionIn(s, R)
  BY ManagerOf DEF Inv
<1>2. replica[s] \in [R -> Objects]
  BY <1>1 DEF Manager, ManagerIn
<1>3. /\ r \in R /\ replica[s][r].creator = s /\ replica' = [replica EXCEPT ![s] = object]
      /\ UNCHANGED <<policy, connection, hidden, up, closing, inbox>>
  BY <1>1 DEF Change, network
<1>4. replica'[s] = object
  BY <1>3 DEF Inv, ManagersOK
<1>5. n \in Managers(s)
  <2>1. Inv'
    BY ChangeKeeps
  <2>2. n = [replica |-> n.replica, connection |-> n.connection, out |-> Manager(s).out]
    OBVIOUS
  <2>3. replica'[s] = n.replica /\ connection'[s] = n.connection
    BY <1>3, <1>4
  <2> HIDE DEF n
  <2> QED
    BY <1>3, <2>1, <2>2, <2>3, StoredManager
<1>6. OwnerOK(s, m) /\ m.replica = replica[s] /\ m.connection = connection[s]
  BY DEF Owned, Manager
<1>7. replica[s][r] \in Objects /\ v \in Nat /\ replica[s][r].lastSent \in Nat
  BY <1>2, <1>3 DEF Objects
<1>8. /\ DOMAIN object = R /\ \A q \in R : q # r => object[q] = replica[s][q]
      /\ object[r].version = v + 1 /\ object[r].creator = s
      /\ object[r].lastSent = replica[s][r].lastSent
  BY <1>2, <1>3, <1>7 DEF Objects
<1>9. /\ n.replica = object /\ n.connection = connection[s] /\ n.out = m.out
  OBVIOUS
<1> HIDE DEF object, n, m
<1>10. ObjectsOK(s, m)
  BY <1>6 DEF OwnerOK
<1>11. Owns(s, r) /\ v > 0 /\ replica[s][r].lastSent =< v
  BY <1>1, <1>3, <1>6, <1>10 DEF ObjectsOK
<1>12. ObjectsOK(s, n)
  <2>1. ASSUME NEW q \in R, q # r
        PROVE  LET o == object[q] IN
               /\ Owns(o.creator, q)
               /\ o.creator = s => o.version > 0 /\ o.lastSent =< o.version
               /\ o.creator # s => /\ o.creator \in D
                                   /\ q \in Range(connection[s][o.creator].constructed)
    <3>1. object[q] = replica[s][q]
      BY <1>8, <2>1
    <3> QED
      BY <1>1, <1>6, <1>10, <3>1 DEF ObjectsOK
  <2>2. object[r].version > 0 /\ object[r].lastSent =< object[r].version
    BY <1>7, <1>8, <1>11
  <2> QED
    BY <1>1, <1>8, <1>9, <1>11, <2>1, <2>2 DEF ObjectsOK
<1>13. ASSUME NEW e \in D
       PROVE  /\ ConnectionOK(s, e, n)
              /\ r \in Range(connection[s][e].constructed) => r \notin Latest(n, e)
  <2>1. ConnectionOK(s, e, m)
    BY <1>1, <1>6 DEF OwnerOK
  <2>2. Range(connection[s][e].constructed) \subseteq R
    BY <1>1, ConnectionLists
  <2>3. connection[s][e].lastResult \in [Replica -> Nat]
    BY <1>1 DEF ConnectionIn, ConnectionOf
  <2>4. \A q \in Range(connection[s][e].constructed) :
          Owns(s, q) => connection[s][e].lastResult[q] =< object[q].version
    <3> SUFFICES ASSUME NEW q \in Range(connection[s][e].constructed), Owns(s, q)
                 PROVE  connection[s][e].lastResult[q] =< object[q].version
      OBVIOUS
    <3>1. connection[s][e].lastResult[q] =< replica[s][q].version
      BY <1>6, <2>1 DEF ConnectionOK
    <3>2. CASE q = r
      BY <1>7, <1>8, <2>3, <3>1, <3>2
    <3>3. CASE q # r
      <4>1. object[q] = replica[s][q]
        BY <1>8, <2>2, <3>3
      <4> QED
        BY <3>1, <4>1
    <3> QED
      BY <3>2, <3>3
  <2>5. ConnectionOK(s, e, n)
    BY <1>6, <1>9, <2>1, <2>4 DEF ConnectionOK
  <2>6. r \in Range(connection[s][e].constructed) => r \notin Latest(n, e)
    <3> SUFFICES ASSUME r \in Range(connection[s][e].constructed) PROVE r \notin Latest(n, e)
      OBVIOUS
    <3>1. connection[s][e].lastResult[r] =< v /\ connection[s][e].lastResult[r] \in Nat
      BY <1>6, <1>11, <2>1, <2>3 DEF ConnectionOK
    <3>2. object[r].version # connection[s][e].lastResult[r]
      BY <1>7, <1>8, <3>1
    <3>3. object[r].version # object[r].lastSent
      BY <1>7, <1>8, <1>11
    <3> QED
      BY <1>9, <3>2, <3>3 DEF Latest
  <2> QED
    BY <2>5, <2>6
<1>14. OwnerOK(s, n)
  BY <1>1, <1>9, <1>12, <1>13 DEF OwnerOK
<1>15. Store(s, n)
  <2>1. connection = [connection EXCEPT ![s] = connection[s]]
    BY DEF Inv, ManagersOK
  <2> QED
    BY <1>3, <1>9, <2>1 DEF Store
<1>16. \A q \in Replica : q # r /\ q \in DOMAIN replica[s] => n.replica[q] = replica[s][q]
  BY <1>1, <1>8, <1>9
<1> QED
  BY <1>1, <1>3, <1>5, <1>9, <1>11, <1>13, <1>14, <1>15, <1>16, OwnedChanged DEF m

\* Those who have been given the replica are told that it is destroyed.
Told(m, k, r) ==
  /\ k.replica = m.replica /\ k.connection = m.connection
  /\ \A e \in System :
       IF e \in DOMAIN m.connection /\ r \in Range(m.connection[e].constructed)
       THEN \E deleted \in Seq(Replica) : /\ Range(deleted) = {r}
                                          /\ k.out[e] = Append(m.out[e], Construction(<<>>, deleted))
       ELSE k.out[e] = m.out[e]

\* That is what BroadcastDestructionList does.
LEMMA BroadcastTells ==
  ASSUME NEW s \in System, NEW R \in SUBSET Replica, NEW D \in SUBSET System,
         NEW m \in ManagerIn(s, R, D), NEW r \in Replica, s \notin D
  PROVE  Told(m, BroadcastDestructionList(m, <<r>>, s), r)
<1> DEFINE one == <<r>>
           S(e) == {x \in Range(one) : HasReplicaConstructed(m, e, x)}
           Known(e) == Those(one, S(e))
           told == {e \in Others(m, s) : Known(e) # <<>>}
           k == BroadcastDestructionList(m, one, s)
<1>1. one \in Seq(Replica) /\ Range(one) = {r}
  BY DEF Range
<1>2. k = [m EXCEPT !.out = [e \in System |-> IF e \in told
                               THEN Append(@[e], Construction(<<>>, Known(e))) ELSE @[e]]]
  BY DEF BroadcastDestructionList, SendAll
<1> HIDE DEF one, k
<1>3. DOMAIN m.connection = D /\ Others(m, s) = D
  BY ManagerParts DEF Others
<1>4. ASSUME NEW e \in D
      PROVE  /\ Known(e) \in Seq(Replica)
             /\ r \in Range(m.connection[e].constructed) => Range(Known(e)) = {r} /\ Known(e) # <<>>
             /\ r \notin Range(m.connection[e].constructed) => Known(e) = <<>>
  <2>1. HasReplicaConstructed(m, e, r) <=> r \in Range(m.connection[e].constructed)
    <3>1. m.connection[e].constructed \in Seq(R)
      BY ManagerParts, ConnectionLists
    <3> QED
      BY <3>1, RangeOfList DEF HasReplicaConstructed
  <2> DEFINE T == S(e)
  <2>2. T = IF r \in Range(m.connection[e].constructed) THEN {r} ELSE {}
    BY <1>1, <2>1
  <2> HIDE DEF T
  <2>3. Those(one, T) \in Seq(Replica) /\ Range(Those(one, T)) = {r} \cap T
    BY <1>1, ThoseRange
  <2> DEFINE l == Those(one, T)
  <2>4. l \in Seq(Replica) /\ Range(l) = T
    BY <2>2, <2>3
  <2> HIDE DEF l
  <2>5. Range(l) = {} => l = <<>>
    BY <2>4 DEF Range
  <2>6. Range(l) # {} => l # <<>>
    BY <2>4 DEF Range
  <2>7. Known(e) = l
    BY DEF l, T
  <2> HIDE DEF Known
  <2> QED
    BY <2>2, <2>4, <2>5, <2>6, <2>7
<1>5. /\ k.replica = m.replica /\ k.connection = m.connection
      /\ \A e \in System : k.out[e] = IF e \in told THEN Append(m.out[e], Construction(<<>>, Known(e)))
                                      ELSE m.out[e]
  <2> HIDE DEF told, Known
  <2> QED
    BY <1>2 DEF ManagerIn
<1>6. \A e \in System : e \in told <=> e \in D /\ r \in Range(m.connection[e].constructed)
  <2> HIDE DEF Known
  <2> QED
    BY <1>3, <1>4
<1> HIDE DEF Known, told
<1>7. Told(m, k, r)
  BY <1>3, <1>4, <1>5, <1>6 DEF Told
<1> QED
  BY <1>7 DEF k, one

\* A replica that s owns is destroyed, everywhere that it has been given to.
LEMMA OwnedDestroy ==
  ASSUME Inv, Links, Owned, OneOwner(policy), NEW s \in System, NEW r \in Replica, Destroy(s, r)
  PROVE  Owned'
<1> DEFINE m == Manager(s)
           k == BroadcastDestructionList(m, <<r>>, s)
           n == Dereference(k, r)
<1>1. PICK R \in SUBSET Replica, D \in SUBSET System :
        m \in ManagerIn(s, R, D) /\ DOMAIN replica[s] = R /\ DOMAIN connection[s] = D
  BY ManagerOf DEF Inv
<1>2. /\ Store(s, n) /\ inbox' = Sent(s, n) /\ Owns(s, r)
      /\ UNCHANGED <<policy, hidden, up, closing>>
  BY DEF Destroy, Owns
<1>3. OwnerOK(s, m) /\ m.connection = connection[s] /\ \A e \in System : m.out[e] = <<>>
  BY DEF Owned, Manager
<1>4. s \notin D
  <2>1. s \in D => {s, s} \in Link[policy]
    BY <1>1, <1>3 DEF OwnerOK, ConnectionOK
  <2>2. {s} \notin Link[policy]
    BY ManagerAssumption DEF OneOwner, Policies
  <2> QED
    BY <2>1, <2>2
<1> HIDE DEF m
<1>5. k \in ManagerIn(s, R, D)
  <2> DEFINE one == <<r>>
  <2>1. one \in Seq(Replica)
    OBVIOUS
  <2> HIDE DEF one
  <2>2. BroadcastDestructionList(m, one, s) \in ManagerIn(s, R, D)
    BY <1>1, <2>1, BroadcastManager DEF Upkeep
  <2> QED
    BY <2>2 DEF one
<1>6. Told(m, k, r)
  BY <1>1, <1>4, BroadcastTells
<1> HIDE DEF k
<1>7. OwnerOK(s, k)
  BY <1>3, <1>6 DEF OwnerOK, ObjectsOK, ConnectionOK, Told
<1>8. Removed(s, {r}, k, n)
  BY <1>5, <1>7, DereferenceRemoves
<1>9. n \in Managers(s)
  <2>1. n \in Work(s, D, k)
    BY <1>5, DereferenceManager
  <2> HIDE DEF n
  <2> QED
    BY <2>1, WorkValidation
<1> HIDE DEF n
<1>10. DOMAIN k.replica = R /\ DOMAIN k.connection = D /\ DOMAIN m.connection = D
  BY <1>1, <1>5, ManagerParts
<1>11. Apart({r}, k, n) /\ n.out = k.out /\ OwnerOK(s, n) /\ DOMAIN n.connection = D
  <2> DEFINE K == {r}
  <2>1. Removed(s, K, k, n) \/ Added(s, s, K, k, n)
    BY <1>8
  <2> HIDE DEF K
  <2>2. R \in SUBSET Replica /\ DOMAIN k.replica = R
    BY <1>10
  <2>3. Apart(K, k, n)
    BY <2>1, <2>2, AddedApart
  <2>4. n.out = k.out /\ OwnerOK(s, n) /\ DOMAIN n.connection = D
    BY <1>8, <1>10 DEF Removed
  <2> QED
    BY <2>3, <2>4 DEF K
<1>12. ASSUME NEW e \in System, NEW q \in Replica, Owns(e, q), e # s
       PROVE  CopyIn(n, e, q) = CopyIn(m, e, q)
  <2>1. q \in Replica \ {r}
    BY <1>2, <1>12, OwnersAgree
  <2>2. CopyIn(n, e, q) = CopyIn(k, e, q)
    BY <1>5, <1>10, <1>11, <2>1, ApartCopies
  <2>3. CopyIn(k, e, q) = CopyIn(m, e, q)
    BY <1>6 DEF Told, CopyIn
  <2> QED
    BY <2>2, <2>3
<1>13. AppStep(s, n, s)
  BY <1>1, <1>2, <1>11, <1>12 DEF AppStep, m
<1>14. ASSUME NEW e \in System PROVE Informs(s, n, e)
  <2>1. ASSUME NEW q \in Replica, NEW y, q # r, Fits(s, e, Latest(m, e), m, q, y)
        PROVE  Fits(s, e, Latest(n, e), n, q, y)
    <3>1. CASE e \in D
      <4>1. /\ q \in Range(n.connection[e].constructed) <=> q \in Range(m.connection[e].constructed)
            /\ n.connection[e].lastResult[q] = m.connection[e].lastResult[q]
        BY <1>6, <1>11, <2>1, <3>1 DEF Apart, Told
      <4>2. q \in Range(m.connection[e].constructed) => n.replica[q] = m.replica[q]
        <5>1. Range(m.connection[e].constructed) \subseteq R
          BY <1>1, <3>1, ManagerParts, ConnectionLists
        <5> QED
          BY <1>6, <1>10, <1>11, <2>1, <5>1 DEF Apart, Told
      <4>3. q \in Range(m.connection[e].constructed) => (q \in Latest(n, e) => q \in Latest(m, e))
        BY <4>1, <4>2 DEF Latest
      <4> QED
        BY <1>10, <1>11, <2>1, <3>1, <4>1, <4>2, <4>3 DEF Fits
    <3>2. CASE e \notin D
      BY <1>11, <3>2 DEF Fits
    <3> QED
      BY <3>1, <3>2
  <2>2. e \in D => r \notin Range(n.connection[e].constructed)
    BY <1>8, <1>10 DEF Removed
  <2>3. Fits(s, e, Latest(n, e), n, r, None)
    BY <1>11, <2>2 DEF Fits
  <2>4. CASE e \in D /\ r \in Range(m.connection[e].constructed)
    <3>1. PICK deleted \in Seq(Replica) :
            Range(deleted) = {r} /\ k.out[e] = Append(m.out[e], Construction(<<>>, deleted))
      BY <1>6, <1>10, <2>4 DEF Told
    <3> DEFINE p == Construction(<<>>, deleted)
               more == <<p>>
    <3>2. p.type = "Construction" /\ p.new = <<>> /\ p.deleted = deleted
      BY DEF Construction
    <3>3. p \in Message
      <4>1. p \in [type : {"Construction"}, new : Seq(Item), deleted : Seq(Replica), arrived : BOOLEAN]
        BY DEF Construction
      <4> QED
        BY <4>1 DEF Message
    <3> HIDE DEF p
    <3>4. more \in Seq(Message) /\ Len(more) = 1 /\ more[1] = p /\ DOMAIN more = {1}
      BY <3>3
    <3>5. n.out[e] = m.out[e] \o more
      BY <1>3, <1>11, <3>1, <3>3 DEF p
    <3>6. MessageOK(s, p)
      BY <1>2, <3>1, <3>2 DEF MessageOK
    <3>7. ASSUME NEW q \in Replica, NEW y, Owns(s, q), Fits(s, e, Latest(m, e), m, q, y)
          PROVE  \E z : Leads(more, q, y, z) /\ Fits(s, e, Latest(n, e), n, q, z)
      <4>1. ~Gives(p, q)
        BY <3>2 DEF Gives
      <4>2. Leads(more, q, y, Effect(p, q, y))
        BY <4>1, LeadsShort
      <4>3. CASE q = r
        <5>1. Effect(p, q, y) = None
          BY <3>1, <3>2, <4>3 DEF Effect, Takes
        <5> QED
          BY <2>3, <4>2, <4>3, <5>1
      <4>4. CASE q # r
        <5>1. Effect(p, q, y) = y
          BY <3>1, <3>2, <4>1, <4>4 DEF Effect, Takes, Events
        <5> QED
          BY <2>1, <3>7, <4>2, <4>4, <5>1
      <4> QED
        BY <4>3, <4>4
    <3>8. \A i \in DOMAIN more : MessageOK(s, more[i])
      BY <3>4, <3>6
    <3> HIDE DEF more
    <3>9. Tells(s, e, Latest(m, e), m, Latest(n, e), n)
      BY <3>4, <3>5, <3>7, <3>8 DEF Tells
    <3>10. Holds(inbox'[s][e], "NewConnection") => Holds(inbox[s][e], "NewConnection")
      <4>1. More(inbox[s][e], Sent(s, n)[s][e])
        BY <1>9, SentLists, SentElsewhere
      <4> QED
        BY <1>2, <4>1 DEF More
    <3> QED
      BY <1>1, <1>9, <2>4, <3>9, <3>10, TellsInforms DEF m
  <2>5. CASE ~(e \in D /\ r \in Range(m.connection[e].constructed))
    <3>1. n.out[e] = m.out[e] /\ m.out[e] = <<>>
      BY <1>3, <1>6, <1>10, <1>11, <2>5 DEF Told
    <3>2. m.out[e] \in Seq(Message)
      BY <1>1, ManagerParts
    <3>3. ASSUME NEW q \in Replica, NEW y, Owns(s, q), Fits(s, e, Latest(m, e), m, q, y)
          PROVE  Fits(s, e, Latest(n, e), n, q, y)
      <4>1. CASE q = r
        BY <1>10, <1>11, <2>2, <2>5, <3>3, <4>1 DEF Fits
      <4>2. CASE q # r
        BY <2>1, <3>3, <4>2
      <4> QED
        BY <4>1, <4>2
    <3>4. Tells(s, e, Latest(m, e), m, Latest(n, e), n)
      BY <3>1, <3>2, <3>3, TellsNothing
    <3>5. Holds(inbox'[s][e], "NewConnection") => Holds(inbox[s][e], "NewConnection")
      <4>1. More(inbox[s][e], Sent(s, n)[s][e])
        BY <1>9, SentLists, SentElsewhere
      <4> QED
        BY <1>2, <4>1 DEF More
    <3> QED
      BY <1>9, <3>1, <3>4, <3>5, TellsInforms DEF m
  <2> QED
    BY <2>4, <2>5
<1>15. PacketsOK(s, s)'
  <2>1. PacketsOK(s, s)
    BY DEF Owned
  <2>2. inbox'[s][s] = inbox[s][s]
    <3>1. Sent(s, n)[s][s] = IF Linked(s, s) THEN inbox[s][s] \o n.out[s] ELSE inbox[s][s]
      BY <1>9, SentLists, SentElsewhere
    <3>2. ~Linked(s, s)
      BY DEF Links, Linked
    <3> QED
      BY <1>2, <3>1, <3>2
  <2>3. s \in DOMAIN connection'[s] => s \in DOMAIN connection[s]
    BY <1>1, <1>2, <1>11 DEF Store, Inv, ManagersOK
  <2>4. AllOK(s, inbox[s][s]) /\ (inbox[s][s] # <<>> \/ s \in up'[s] => {s, s} \in Link[policy])
    BY <1>2, <2>1 DEF PacketsOK
  <2> QED
    BY <1>2, <2>1, <2>2, <2>3, <2>4, PacketsNext
<1> QED
  BY <1>9, <1>13, <1>14, <1>15, AppOwned

----------------------------------------------------------------------------
(* What the network does to owners *)

\* Following, where the connection is gone on either side, or has yet to be
\* made on that of s: list is under way.
FollowsEnded(s, d, list) ==
  \A r \in Replica : Owns(s, r) =>
    \E y : /\ Leads(list, r, CopyIn(Manager(d), s, r), y)
           /\ Linked(s, d)' =>
                /\ d \in DOMAIN connection[s] /\ r \notin Range(connection[s][d].constructed) =>
                     y = None
                /\ Holds(inbox'[s][d], "NewConnection") => y = None

\* It is what the next state has.
LEMMA FollowingEnded ==
  ASSUME policy' = policy, NEW s, NEW d, NEW list, inbox'[d][s] = list,
         replica'[s] = replica[s], connection'[s] = connection[s],
         replica'[d] = replica[d], connection'[d] = connection[d],
         ~Whole(s, d)' \/ d \notin DOMAIN connection[s],
         FollowsEnded(s, d, list)
  PROVE  Following(s, d)'
<1>1. \A e, r : Owns(e, r)' <=> Owns(e, r)
  BY SamePolicy
<1>2. Manager(s)'.connection = connection[s]
  BY DEF Manager
<1>3. Manager(d)'.replica = Manager(d).replica /\ Manager(d)'.connection = Manager(d).connection
  BY DEF Manager
<1>4. ASSUME NEW r PROVE CopyIn(Manager(d), s, r)' = CopyIn(Manager(d), s, r)
  BY <1>3 DEF CopyIn
<1>5. ASSUME NEW r, NEW y,
             d \in DOMAIN connection[s] /\ r \notin Range(connection[s][d].constructed) => y = None
      PROVE  Fits(s, d, Latest(Manager(s), d), Manager(s), r, y)'
  BY <1>2, <1>5 DEF Fits
<1>6. ASSUME NEW r \in Replica, Owns(s, r)'
      PROVE  \E y : (Leads(inbox[d][s], r, CopyIn(Manager(d), s, r), y) /\ Agreed(s, d, r, y))'
  <2>1. PICK y : /\ Leads(list, r, CopyIn(Manager(d), s, r), y)
                 /\ Linked(s, d)' =>
                      /\ d \in DOMAIN connection[s] /\ r \notin Range(connection[s][d].constructed) =>
                           y = None
                      /\ Holds(inbox'[s][d], "NewConnection") => y = None
    BY <1>1, <1>6 DEF FollowsEnded
  <2>2. Leads(inbox[d][s], r, CopyIn(Manager(d), s, r), y)'
    BY <1>4, <2>1
  <2>3. Agreed(s, d, r, y)'
    BY <1>5, <2>1 DEF Agreed, Holds
  <2> QED
    BY <2>2, <2>3
<1> QED
  BY <1>6 DEF Following

\* A list that has been cut, or that a loss was put into, leads to the same
\* copy, to none, or nobody is there to care.
LeadsLeft(list, l, s, d) ==
  \A r, x, y : Leads(list, r, x, y) =>
    \E z : Leads(l, r, x, z) /\ (z = y \/ z = None \/ ~Linked(s, d)')

\* The end of the connection from s to d, which takes nothing but packets.
LEMMA EndingOwned ==
  ASSUME Inv, Owned, UNCHANGED <<policy, replica, connection, hidden>>,
         NEW s \in System, NEW d \in System, s # d, Ended(s, d)',
         \A a, b \in System : /\ b \in up'[a] => b \in up[a]
                              /\ Whole(a, b)' => Whole(a, b)
                              /\ <<a, b>> # <<s, d>> => inbox'[a][b] = inbox[a][b],
         Fewer(inbox[s][d], inbox'[s][d]), {s, d} \in Link[policy],
         LeadsLeft(inbox[s][d], inbox'[s][d], d, s)
  PROVE  Owned'
<1>1. policy' = policy /\ \A e \in System : replica'[e] = replica[e] /\ connection'[e] = connection[e]
  OBVIOUS
<1>2. HiddenOK'
  BY <1>1, SamePolicy DEF HiddenOK, Owned
<1>3. ASSUME NEW e \in System PROVE OwnerOK(e, Manager(e))'
  <2> DEFINE m == Manager(e)
  <2>1. replica'[e] = m.replica /\ connection'[e] = m.connection /\ OwnerOK(e, m)
    BY DEF Manager, Owned
  <2> HIDE DEF m
  <2> QED
    BY <1>1, <2>1, OwnerNext
<1>4. \A a, b \in System : Linked(a, b)' => Linked(a, b)
  BY DEF Linked
<1>5. \A a, b \in System : Holds(inbox'[a][b], "NewConnection") => Holds(inbox[a][b], "NewConnection")
  <2>1. Holds(inbox'[s][d], "NewConnection") => Holds(inbox[s][d], "NewConnection")
    BY DEF Fewer
  <2> QED
    BY <2>1
<1>6. ASSUME NEW a \in System, NEW b \in System PROVE PacketsOK(a, b)'
  <2>1. PacketsOK(a, b)
    BY DEF Owned
  <2>2. /\ AllOK(b, inbox'[a][b])
        /\ inbox'[a][b] # <<>> \/ b \in up'[a] => {a, b} \in Link[policy]
        /\ Once(inbox[a][b], "NewConnection") => Once(inbox'[a][b], "NewConnection")
    <3>1. CASE <<a, b>> = <<s, d>>
      BY <2>1, <3>1 DEF PacketsOK, Fewer
    <3>2. CASE <<a, b>> # <<s, d>>
      <4>1. inbox'[a][b] = inbox[a][b]
        BY <3>2
      <4> QED
        BY <2>1, <4>1 DEF PacketsOK
    <3> QED
      BY <3>1, <3>2
  <2> QED
    BY <1>1, <1>5, <2>1, <2>2, PacketsNext
<1>7. Following(d, s)'
  <2> DEFINE list == inbox'[s][d]
  <2>1. ASSUME NEW r \in Replica, Owns(d, r)
        PROVE  \E y : /\ Leads(list, r, CopyIn(Manager(s), d, r), y)
                      /\ Linked(d, s)' =>
                           /\ s \in DOMAIN connection[d] /\ r \notin Range(connection[d][s].constructed) =>
                                y = None
                           /\ Holds(inbox'[d][s], "NewConnection") => y = None
    <3>1. PICK y : Leads(inbox[s][d], r, CopyIn(Manager(s), d, r), y) /\ Agreed(d, s, r, y)
      BY <2>1 DEF Owned, Following
    <3>2. PICK z : Leads(list, r, CopyIn(Manager(s), d, r), z) /\ (z = y \/ z = None \/ ~Linked(d, s)')
      BY <3>1 DEF LeadsLeft
    <3>3. Linked(d, s)' /\ s \in DOMAIN connection[d] /\ r \notin Range(connection[d][s].constructed) =>
            y = None
      BY <1>4, <3>1 DEF Agreed, Fits, Manager
    <3>4. Linked(d, s)' /\ Holds(inbox'[d][s], "NewConnection") => y = None
      BY <1>4, <1>5, <3>1 DEF Agreed
    <3> QED
      BY <3>2, <3>3, <3>4
  <2>2. ~Whole(d, s)' /\ inbox'[s][d] = list
    BY DEF Whole
  <2> HIDE DEF list
  <2>3. FollowsEnded(d, s, list)
    BY <2>1 DEF FollowsEnded
  <2> QED
    BY <1>1, <2>2, <2>3, FollowingEnded
<1>8. ASSUME NEW a \in System, NEW b \in System, a # b, <<b, a>> # <<s, d>> PROVE Following(a, b)'
  <2> DEFINE m == Manager(a)
             k == Manager(b)
             list == inbox[b][a]
  <2>1. /\ replica'[a] = m.replica /\ connection'[a] = m.connection
        /\ replica'[b] = k.replica /\ connection'[b] = k.connection
    BY DEF Manager
  <2>2. inbox'[b][a] = list /\ (Whole(a, b)' => Whole(a, b))
    BY <1>8
  <2>3. FollowsAs(a, b, list, m, k)
    BY <1>4, <1>5, <1>8 DEF FollowsAs, Owned, Following, Agreed
  <2> HIDE DEF m, k, list
  <2> QED
    BY <1>1, <2>1, <2>2, <2>3, FollowingNext
<1> QED
  BY <1>2, <1>3, <1>6, <1>7, <1>8 DEF Owned

\* Who is connected is another system that is linked.
LEMMA UpLinked ==
  ASSUME Inv, Links, Owned, NEW s \in System, NEW d \in up[s]
  PROVE  d \in System /\ s # d /\ {s, d} \in Link[policy] /\ inbox[s][d] \in Seq(Packet)
<1>1. d \in System /\ s # d
  BY DEF Inv, NetworkOK, Links
<1>2. PacketsOK(s, d)
  BY <1>1 DEF Owned
<1>3. inbox[s][d] \in Seq(Packet)
  BY <1>1 DEF Inv, NetworkOK
<1> QED
  BY <1>1, <1>2, <1>3 DEF PacketsOK

\* A connection that is being closed: a loss is put into the queue.
LEMMA OwnedCloseConnection ==
  ASSUME Inv, Links, Owned, NEW s \in System, NEW d \in System, CloseConnection(s, d)
  PROVE  Owned'
<1>1. PICK n \in Arrivals(inbox[s][d]) :
        inbox' = [inbox EXCEPT ![s][d] = InsertedAt(@, n, <<Event("ConnectionLost")>>)]
  BY DEF CloseConnection
<1> DEFINE list == inbox[s][d]
           l == InsertedAt(list, n, <<Event("ConnectionLost")>>)
<1>2. /\ d \in up[s] /\ UNCHANGED <<policy, replica, connection, hidden, up>>
      /\ closing' = [closing EXCEPT ![s] = @ \cup {d}]
  BY DEF CloseConnection, manager
<1>3. s # d /\ {s, d} \in Link[policy] /\ list \in Seq(Packet)
  BY <1>2, UpLinked
<1>4. inbox'[s][d] = l /\ \A a, b \in System : <<a, b>> # <<s, d>> => inbox'[a][b] = inbox[a][b]
  BY <1>1 DEF Inv, NetworkOK
<1>5. n \in 0..Len(list)
  BY DEF Arrivals
<1>6. Ended(s, d)' /\ \A a, b \in System : Whole(a, b)' => Whole(a, b)
  BY <1>2 DEF Inv, NetworkOK, Ended, Whole
<1> HIDE DEF list, l
<1>7. Fewer(list, l)
  BY <1>3, <1>5, FewerLeft DEF l
<1>8. LeadsLeft(list, l, d, s)
  <2>1. ASSUME NEW r, NEW x, NEW y, Leads(list, r, x, y)
        PROVE  \E z : Leads(l, r, x, z) /\ (z = y \/ z = None)
    BY <1>3, <1>5, <2>1, LeadsLoss DEF l
  <2> QED
    BY <2>1 DEF LeadsLeft
<1>9. Fewer(inbox[s][d], inbox'[s][d]) /\ LeadsLeft(inbox[s][d], inbox'[s][d], d, s)
  BY <1>4, <1>7, <1>8 DEF list
<1> QED
  BY <1>2, <1>3, <1>4, <1>6, <1>9, EndingOwned

\* What is left of a list where nobody is linked.
LEMMA UnlinkedLeft ==
  ASSUME NEW list \in Seq(Packet), NEW n \in 0..Len(list), NEW s, NEW d, ~Linked(s, d)'
  PROVE  /\ LeadsLeft(list, SubSeq(list, 1, n), s, d)
         /\ LeadsLeft(list, Append(SubSeq(list, 1, n), Event("ConnectionLost")), s, d)
<1> DEFINE l == SubSeq(list, 1, n)
<1>1. l \in Seq(Packet) /\ "ConnectionLost" \in Events
  BY Truncated DEF Events
<1>2. ASSUME NEW r, NEW x, NEW y, Leads(list, r, x, y)
      PROVE  \E z : Leads(l, r, x, z)
  BY <1>2, LeadsCut
<1> HIDE DEF l
<1>3. LeadsLeft(list, l, s, d)
  BY <1>2 DEF LeadsLeft
<1>4. ASSUME NEW r, NEW x, NEW y, Leads(list, r, x, y)
      PROVE  \E z : Leads(Append(l, Event("ConnectionLost")), r, x, z)
  BY <1>1, <1>2, <1>4, LeadsEvent
<1>5. LeadsLeft(list, Append(l, Event("ConnectionLost")), s, d)
  BY <1>4 DEF LeadsLeft
<1> QED
  BY <1>3, <1>5 DEF l

\* A connection that has been closed.
LEMMA OwnedCloseCommand ==
  ASSUME Inv, Links, Owned, NEW s \in System, NEW d \in System, CloseCommand(s, d)
  PROVE  Owned'
<1>1. PICK n \in Arrivals(inbox[s][d]) : inbox' = [inbox EXCEPT ![s][d] = SubSeq(@, 1, n)]
  BY DEF CloseCommand
<1> DEFINE list == inbox[s][d]
           l == SubSeq(list, 1, n)
<1>2. /\ d \in closing[s] /\ UNCHANGED <<policy, replica, connection, hidden>>
      /\ up' = [up EXCEPT ![s] = @ \ {d}] /\ closing' = [closing EXCEPT ![s] = @ \ {d}]
  BY DEF CloseCommand, manager
<1>3. s # d /\ {s, d} \in Link[policy] /\ list \in Seq(Packet)
  <2>1. d \in up[s]
    BY <1>2 DEF Inv, NetworkOK
  <2> QED
    BY <2>1, UpLinked
<1>4. inbox'[s][d] = l /\ \A a, b \in System : <<a, b>> # <<s, d>> => inbox'[a][b] = inbox[a][b]
  BY <1>1 DEF Inv, NetworkOK
<1>5. n \in 0..Len(list)
  BY DEF Arrivals
<1>6. /\ Ended(s, d)' /\ ~Linked(d, s)'
      /\ \A a, b \in System : (Whole(a, b)' => Whole(a, b)) /\ (b \in up'[a] => b \in up[a])
  BY <1>2 DEF Inv, NetworkOK, Ended, Whole, Linked
<1> HIDE DEF list, l
<1>7. Fewer(list, l)
  BY <1>3, <1>5, FewerLeft DEF l
<1>8. LeadsLeft(list, l, d, s)
  BY <1>3, <1>5, <1>6, UnlinkedLeft DEF l
<1>9. Fewer(inbox[s][d], inbox'[s][d]) /\ LeadsLeft(inbox[s][d], inbox'[s][d], d, s)
  BY <1>4, <1>7, <1>8 DEF list
<1> QED
  BY <1>2, <1>3, <1>4, <1>6, <1>9, EndingOwned

\* A connection whose other side does not answer any more.
LEMMA OwnedTimeout ==
  ASSUME Inv, Links, Owned, NEW s \in System, NEW d \in System, Timeout(s, d)
  PROVE  Owned'
<1>1. PICK n \in Arrivals(inbox[s][d]) :
        inbox' = [inbox EXCEPT ![s][d] = Append(SubSeq(@, 1, n), Event("ConnectionLost"))]
  BY DEF Timeout
<1> DEFINE list == inbox[s][d]
           l == Append(SubSeq(list, 1, n), Event("ConnectionLost"))
<1>2. /\ d \in up[s] /\ UNCHANGED <<policy, replica, connection, hidden, closing>>
      /\ up' = [up EXCEPT ![s] = @ \ {d}]
  BY DEF Timeout, manager
<1>3. s # d /\ {s, d} \in Link[policy] /\ list \in Seq(Packet)
  BY <1>2, UpLinked
<1>4. inbox'[s][d] = l /\ \A a, b \in System : <<a, b>> # <<s, d>> => inbox'[a][b] = inbox[a][b]
  BY <1>1 DEF Inv, NetworkOK
<1>5. n \in 0..Len(list)
  BY DEF Arrivals
<1>6. /\ Ended(s, d)' /\ ~Linked(d, s)'
      /\ \A a, b \in System : (Whole(a, b)' => Whole(a, b)) /\ (b \in up'[a] => b \in up[a])
  BY <1>2 DEF Inv, NetworkOK, Ended, Whole, Linked
<1> HIDE DEF list, l
<1>7. Fewer(list, l)
  BY <1>3, <1>5, FewerLeft DEF l
<1>8. LeadsLeft(list, l, d, s)
  BY <1>3, <1>5, <1>6, UnlinkedLeft DEF l
<1>9. Fewer(inbox[s][d], inbox'[s][d]) /\ LeadsLeft(inbox[s][d], inbox'[s][d], d, s)
  BY <1>4, <1>7, <1>8 DEF list
<1> QED
  BY <1>2, <1>3, <1>4, <1>6, <1>9, EndingOwned

\* RakPeer's packets are about nobody's replicas.
LEMMA AllWithEvent ==
  ASSUME NEW d, NEW list \in Seq(Packet), NEW type \in Events, AllOK(d, list)
  PROVE  AllOK(d, Append(list, Event(type)))
<1> DEFINE e == Event(type)
           l == Append(list, e)
           n == Len(list)
<1>1. e \in Packet /\ e.type \in Events
  BY DEF Event, Events, Packet
<1>2. MessageOK(d, e)
  BY <1>1 DEF MessageOK, Events
<1> HIDE DEF e
<1>3. /\ DOMAIN l = 1..n+1 /\ DOMAIN list = 1..n /\ n \in Nat
      /\ l[n + 1] = e /\ \A i \in 1..n : l[i] = list[i]
  BY <1>1
<1> HIDE DEF l, n
<1>4. ASSUME NEW k \in DOMAIN l PROVE MessageOK(d, l[k])
  <2>1. CASE k = n + 1
    BY <1>2, <1>3, <2>1
  <2>2. CASE k # n + 1
    <3>1. k \in DOMAIN list /\ l[k] = list[k]
      BY <1>3, <2>2
    <3> QED
      BY <3>1 DEF AllOK
  <2> QED
    BY <2>1, <2>2
<1>5. AllOK(d, l)
  BY <1>4 DEF AllOK
<1> QED
  BY <1>5 DEF l, e

\* A connection that is made: both sides have nothing of an earlier one.
LEMMA OwnedConnect ==
  ASSUME Inv, Links, Owned, ~QuickReconnect, NEW s \in System, NEW d \in System, Connect(s, d)
  PROVE  Owned'
<1>1. /\ d \notin up[s] /\ s \notin up[d] /\ ~Unread(s, d) /\ ~Unread(d, s)
      /\ {s, d} \in Link[policy]
      /\ up' = [up EXCEPT ![s] = @ \cup {d}, ![d] = @ \cup {s}]
      /\ inbox' = [inbox EXCEPT ![s][d] = Append(@, Event("NewConnection")),
                                ![d][s] = Append(@, Event("NewConnection"))]
      /\ UNCHANGED <<policy, replica, connection, hidden, closing>>
  BY DEF Connect, manager
<1>2. s # d
  BY ManagerAssumption DEF Connect, Inv
<1>3. ASSUME NEW a \in System, NEW b \in System
      PROVE  /\ inbox'[a][b] = IF <<a, b>> \in {<<s, d>>, <<d, s>>}
                               THEN Append(inbox[a][b], Event("NewConnection")) ELSE inbox[a][b]
             /\ b \in up'[a] <=> b \in up[a] \/ <<a, b>> \in {<<s, d>>, <<d, s>>}
  BY <1>1, <1>2 DEF Inv, NetworkOK
<1>4. ASSUME NEW a \in System, NEW b \in System, <<a, b>> \in {<<s, d>>, <<d, s>>}
      PROVE  /\ {a, b} \in Link[policy] /\ b \notin DOMAIN connection[a]
             /\ ~Holds(inbox[a][b], "NewConnection")
             /\ inbox'[a][b] = Append(inbox[a][b], Event("NewConnection"))
  <2>1. b \notin up[a] /\ ~Unread(a, b)
    BY <1>1, <1>4
  <2>2. {a, b} = {s, d}
    BY <1>4
  <2> QED
    BY <1>1, <1>3, <1>4, <2>1, <2>2, NothingUnread
<1>5. policy' = policy /\ \A e \in System : replica'[e] = replica[e] /\ connection'[e] = connection[e]
  BY <1>1
<1>6. HiddenOK'
  BY <1>1, SamePolicy DEF HiddenOK, Owned
<1>7. ASSUME NEW e \in System PROVE OwnerOK(e, Manager(e))'
  <2> DEFINE m == Manager(e)
  <2>1. replica'[e] = m.replica /\ connection'[e] = m.connection /\ OwnerOK(e, m)
    BY <1>5 DEF Manager, Owned
  <2> HIDE DEF m
  <2> QED
    BY <1>5, <2>1, OwnerNext
<1>8. ASSUME NEW a \in System, NEW b \in System PROVE inbox[a][b] \in Seq(Packet) /\ PacketsOK(a, b)
  BY DEF Inv, NetworkOK, Owned
<1>9. "NewConnection" \in Events
  BY DEF Events
<1>10. ASSUME NEW a \in System, NEW b \in System PROVE PacketsOK(a, b)'
  <2> DEFINE list == inbox[a][b]
  <2>1. CASE <<a, b>> \in {<<s, d>>, <<d, s>>}
    <3> DEFINE l == inbox'[a][b]
    <3>1. /\ l = Append(list, Event("NewConnection")) /\ list \in Seq(Packet)
          /\ ~Holds(list, "NewConnection") /\ AllOK(b, list)
      BY <1>4, <1>8, <2>1 DEF PacketsOK
    <3> HIDE DEF l, list
    <3>2. AllOK(b, l)
      BY <1>9, <3>1, AllWithEvent
    <3>3. Once(l, "NewConnection")
      BY <1>9, <3>1, EventAppended
    <3>4. AllOK(b, inbox[a][b])'
      <4>1. \A p : MessageOK(b, p)' <=> MessageOK(b, p)
        BY <1>5, SamePolicy
      <4> QED
        BY <3>2, <4>1 DEF l, AllOK
    <3>5. Once(inbox[a][b], "NewConnection")'
      BY <3>3 DEF l, Once
    <3>6. {a, b} \in Link[policy'] /\ b \notin DOMAIN connection'[a]
      BY <1>4, <1>5, <2>1
    <3> QED
      BY <3>4, <3>5, <3>6 DEF PacketsOK
  <2>2. CASE <<a, b>> \notin {<<s, d>>, <<d, s>>}
    <3>1. inbox'[a][b] = list /\ (b \in up'[a] <=> b \in up[a])
      BY <1>3, <2>2
    <3>2. AllOK(b, list) /\ (list # <<>> \/ b \in up[a] => {a, b} \in Link[policy])
      BY <1>8 DEF PacketsOK
    <3> QED
      BY <1>5, <1>8, <3>1, <3>2, PacketsNext
  <2> QED
    BY <2>1, <2>2
<1>11. ASSUME NEW a \in System, NEW b \in System, a # b PROVE Following(a, b)'
  <2> DEFINE m == Manager(a)
             k == Manager(b)
             list == inbox'[b][a]
  <2>1. Following(a, b)
    BY <1>11 DEF Owned
  <2>2. CASE <<b, a>> \in {<<s, d>>, <<d, s>>}
    <3>1. <<a, b>> \in {<<s, d>>, <<d, s>>}
      BY <2>2
    <3>2. list = Append(inbox[b][a], Event("NewConnection")) /\ b \notin DOMAIN connection[a]
      BY <1>4, <2>2, <3>1
    <3>3. ASSUME NEW r \in Replica, Owns(a, r) PROVE Leads(list, r, CopyIn(k, a, r), None)
      <4>1. PICK y : Leads(inbox[b][a], r, CopyIn(k, a, r), y)
        BY <2>1, <3>3 DEF Following
      <4>2. inbox[b][a] \in Seq(Packet)
        BY <1>8
      <4> HIDE DEF k, list
      <4> QED
        BY <1>9, <3>2, <4>1, <4>2, LeadsEvent
    <3>4. inbox'[b][a] = list
      OBVIOUS
    <3> HIDE DEF list
    <3>5. FollowsEnded(a, b, list)
      BY <3>3 DEF FollowsEnded
    <3> QED
      BY <1>5, <3>2, <3>4, <3>5, FollowingEnded
  <2>3. CASE <<b, a>> \notin {<<s, d>>, <<d, s>>}
    <3>1. <<a, b>> \notin {<<s, d>>, <<d, s>>}
      BY <2>3
    <3>2. list = inbox[b][a] /\ inbox'[a][b] = inbox[a][b]
      BY <1>3, <2>3, <3>1
    <3>3. (Whole(a, b)' => Whole(a, b)) /\ (Linked(a, b)' => Linked(a, b))
      BY <1>1, <1>3, <2>3, <3>1 DEF Whole, Ended, Linked
    <3>4. FollowsAs(a, b, list, m, k)
      BY <2>1, <3>2, <3>3 DEF FollowsAs, Following, Agreed
    <3>5. /\ replica'[a] = m.replica /\ connection'[a] = m.connection
          /\ replica'[b] = k.replica /\ connection'[b] = k.connection /\ inbox'[b][a] = list
      BY <1>5 DEF Manager
    <3> HIDE DEF m, k, list
    <3> QED
      BY <1>5, <3>3, <3>4, <3>5, FollowingNext
  <2> QED
    BY <2>2, <2>3
<1> QED
  BY <1>6, <1>7, <1>10, <1>11 DEF Owned

\* One connection is popped, and nobody told.
PopsQuietly(s, d, m) ==
  LET n == PopConnection(s, d, m) IN OwnerOK(s, n) /\ n.out = m.out

\* It is so of another system, with single owners.
LEMMA PopQuietly ==
  ASSUME OneOwner(policy), NEW s \in System, NEW R \in SUBSET Replica, NEW D \in SUBSET System,
         NEW m \in ManagerIn(s, R, D), OwnerOK(s, m), NEW d \in D, d # s
  PROVE  PopsQuietly(s, d, m)
<1> DEFINE n == PopConnection(s, d, m)
<1>1. /\ OwnerOK(s, n) /\ n.out = m.out /\ DOMAIN n.connection = D \ {d}
      /\ \E K \in SUBSET Replica : Apart(K, m, n) /\ \A r \in K : Owns(d, r)
  BY PopOwned
<1> QED
  BY <1>1 DEF PopsQuietly

\* A system that pops its connections tells nobody of what it had from them.
LEMMA PoppedQuietly ==
  ASSUME OneOwner(policy), NEW s \in System, NEW m \in Managers(s), OwnerOK(s, m),
         NEW list \in Seq(System \ {s})
  PROVE  PoppedAll(s, m, list).out = m.out
<1> DEFINE X == {x \in Managers(s) : OwnerOK(s, x) /\ x.out = m.out}
           E == System \ {s}
           op(x, e) == PopConnection(s, e, x)
           step == [p \in X \X E |-> op(p[1], p[2])]
           Is(f) == f = [t \in SUBSET DOMAIN list |->
                           IF t = {} THEN m ELSE op(f[t \ {Max(t)}], list[Max(t)])]
           it == CHOOSE f : Is(f)
<1>1. \A x \in X, e \in E : op(x, e) \in X
  <2> SUFFICES ASSUME NEW x \in X, NEW e \in E PROVE op(x, e) \in X
    OBVIOUS
  <2>1. PICK R \in SUBSET Replica, D \in SUBSET System : x \in ManagerIn(s, R, D)
    BY DEF Managers
  <2>2. CASE e \in D
    <3>1. OwnerOK(s, x) /\ x.out = m.out /\ e # s
      OBVIOUS
    <3>2. PopConnection(s, e, x) \in Managers(s)
      <4>1. PopConnection(s, e, x) \in Work(s, D \ {e}, x)
        BY <2>1, <2>2, PopManager
      <4>2. D \ {e} \in SUBSET System
        OBVIOUS
      <4> HIDE DEF op
      <4> QED
        BY <4>1, <4>2, WorkValidation
    <3>3. PopsQuietly(s, e, x)
      BY <2>1, <2>2, <3>1, PopQuietly
    <3> QED
      BY <3>1, <3>2, <3>3 DEF PopsQuietly
  <2>3. CASE e \notin D
    <3>1. op(x, e) = x
      BY <2>1, <2>3, ManagerParts DEF PopConnection
    <3> QED
      BY <3>1
  <2> QED
    BY <2>2, <2>3
<1>2. PoppedAll(s, m, list) = it[DOMAIN list]
  BY DEF PoppedAll, FoldLeft, MapThenFoldSet
<1>3. m \in X /\ list \in Seq(E)
  OBVIOUS
<1> DEFINE o == m.out
<1>4. \A x \in X : x.out = o
  OBVIOUS
<1> HIDE DEF X, E, op, o
<1>5. step \in [X \X E -> X]
  BY <1>1
<1>6. PICK h \in [SUBSET DOMAIN list -> X] : IsFold(h, step, m, list)
  <2> HIDE DEF step
  <2> QED
    BY <1>3, <1>5, FoldExists
<1>7. Is(h)
  <2>1. \A t \in SUBSET DOMAIN list : t # {} =>
          step[<<h[t \ {Max(t)}], list[Max(t)]>>] = op(h[t \ {Max(t)}], list[Max(t)])
    <3>1. ASSUME NEW t \in SUBSET DOMAIN list, t # {}
          PROVE  h[t \ {Max(t)}] \in X /\ list[Max(t)] \in E
      <4> HIDE DEF step, Is, it
      <4> QED
        BY <1>3, <1>6, <3>1, FoldArguments
    <3> QED
      BY <3>1
  <2> HIDE DEF step
  <2> QED
    BY <1>6, <2>1 DEF IsFold
<1>8. Is(it)
  <2> HIDE DEF Is
  <2> QED
    BY <1>7
<1>9. it[DOMAIN list] = h[DOMAIN list]
  <2> HIDE DEF it
  <2>1. DOMAIN list = 1..Len(list) /\ Len(list) \in Nat
    BY <1>3
  <2>2. it[{}] = h[{}]
    BY <1>7, <1>8
  <2>3. \A t \in SUBSET DOMAIN list :
          t # {} /\ it[t \ {Max(t)}] = h[t \ {Max(t)}] => it[t] = h[t]
    BY <1>7, <1>8
  <2> HIDE DEF Is
  <2> QED
    BY <2>1, <2>2, <2>3, FoldUnique
<1> HIDE DEF it
<1>10. h[DOMAIN list] \in X
  OBVIOUS
<1> QED
  BY <1>2, <1>4, <1>9, <1>10 DEF o

\* A system that shuts down keeps nothing, and the others what they have read.
LEMMA OwnedShutdown ==
  ASSUME Inv, Links, Owned, OneOwner(policy), NEW s \in System, Shutdown(s)
  PROVE  Owned'
<1> DEFINE popped == PoppedAll(s, Manager(s), SetToSeq(DOMAIN connection[s]))
           empty == [replica |-> <<>>, connection |-> <<>>]
<1>1. /\ inbox' = [Sent(s, popped) EXCEPT ![s] = Empty]
      /\ replica' = [replica EXCEPT ![s] = <<>>] /\ connection' = [connection EXCEPT ![s] = <<>>]
      /\ up' = [up EXCEPT ![s] = {}] /\ closing' = [closing EXCEPT ![s] = {}]
      /\ policy' = policy /\ hidden' = hidden
  BY DEF Shutdown, PoppedAll
<1>2. OwnerOK(s, Manager(s)) /\ Manager(s) \in Managers(s)
  BY DEF Owned, Inv, ManagersOK
<1>3. SetToSeq(DOMAIN connection[s]) \in Seq(System \ {s})
  <2>1. PICK D \in SUBSET System : DOMAIN connection[s] = D
    BY ManagerOf DEF Inv
  <2>2. s \notin D
    <3>1. s \in D => {s, s} \in Link[policy]
      BY <1>2, <2>1 DEF OwnerOK, ConnectionOK, Manager
    <3>2. {s} \notin Link[policy]
      BY ManagerAssumption DEF OneOwner, Policies
    <3> QED
      BY <3>1, <3>2
  <2>3. SetToSeq(D) \in Seq(D)
    BY ManagerAssumption, FS_Subset, ListOfSet
  <2>4. D \subseteq System \ {s}
    BY <2>2
  <2>5. SetToSeq(D) \in Seq(System \ {s})
    BY <2>3, <2>4, SeqMonotonic
  <2> QED
    BY <2>1, <2>5
<1>4. popped.out = Manager(s).out
  BY <1>2, <1>3, PoppedQuietly
<1>5. \A e \in System : popped.out[e] = <<>>
  BY <1>4 DEF Manager
<1> HIDE DEF popped
<1>6. ASSUME NEW a \in System, NEW b \in System
      PROVE  inbox'[a][b] = IF a = s THEN <<>> ELSE inbox[a][b]
  <2>1. inbox[a][b] \in Seq(Packet) /\ inbox[a][b] \o <<>> = inbox[a][b]
    BY DEF Inv, NetworkOK
  <2>2. Sent(s, popped)[a][b] = inbox[a][b]
    BY <1>5, <2>1 DEF Sent
  <2>3. Sent(s, popped) = [x \in System |-> Sent(s, popped)[x]]
    BY DEF Sent
  <2> QED
    BY <1>1, <2>2, <2>3 DEF Empty
<1>7. ASSUME NEW e \in System
      PROVE  /\ replica'[e] = IF e = s THEN <<>> ELSE replica[e]
             /\ connection'[e] = IF e = s THEN <<>> ELSE connection[e]
             /\ up'[e] = IF e = s THEN {} ELSE up[e]
             /\ closing'[e] = IF e = s THEN {} ELSE closing[e]
  BY <1>1 DEF Inv, ManagersOK, NetworkOK
<1>8. DOMAIN empty.replica = {} /\ DOMAIN empty.connection = {}
  OBVIOUS
<1>9. HiddenOK'
  BY <1>1, SamePolicy DEF HiddenOK, Owned
<1> DEFINE next(e) == IF e = s THEN empty ELSE Manager(e)
<1>10. ASSUME NEW e \in System
       PROVE  replica'[e] = next(e).replica /\ connection'[e] = next(e).connection
  BY <1>7 DEF Manager
<1>11. ASSUME NEW e \in System PROVE OwnerOK(e, Manager(e))'
  <2>1. OwnerOK(e, next(e))
    <3>1. OwnerOK(e, empty)
      BY <1>8 DEF OwnerOK, ObjectsOK
    <3> QED
      BY <3>1 DEF Owned
  <2> HIDE DEF next
  <2> QED
    BY <1>1, <1>10, <2>1, OwnerNext
<1>12. ASSUME NEW a \in System, NEW b \in System PROVE PacketsOK(a, b)'
  <2>1. PacketsOK(a, b)
    BY DEF Owned
  <2>2. /\ AllOK(b, inbox'[a][b])
        /\ inbox'[a][b] # <<>> \/ b \in up'[a] => {a, b} \in Link[policy]
        /\ Once(inbox[a][b], "NewConnection") => Once(inbox'[a][b], "NewConnection")
        /\ Holds(inbox'[a][b], "NewConnection") => Holds(inbox[a][b], "NewConnection")
    BY <1>6, <1>7, <2>1 DEF PacketsOK, AllOK, Once, Holds
  <2>3. b \in DOMAIN connection'[a] => b \in DOMAIN connection[a]
    BY <1>7
  <2> QED
    BY <1>1, <2>1, <2>2, <2>3, PacketsNext
<1>13. ASSUME NEW a \in System, NEW b \in System, a # b PROVE Following(a, b)'
  <2> DEFINE m == next(a)
             k == next(b)
             list == inbox'[b][a]
  <2>1. Following(a, b)
    BY <1>13 DEF Owned
  <2>2. /\ Whole(a, b)' => Whole(a, b) /\ a # s /\ b # s
        /\ Linked(a, b)' => Linked(a, b) /\ a # s /\ b # s
    BY <1>7 DEF Whole, Ended, Linked
  <2>3. ASSUME NEW r \in Replica, Owns(a, r)
        PROVE  \E y : /\ Leads(list, r, CopyIn(k, a, r), y)
                      /\ Linked(a, b)' => /\ Fits(a, b, Latest(m, b), m, r, y)
                                          /\ Holds(inbox'[a][b], "NewConnection") => y = None
    <3>1. CASE b = s
      <4>1. list = <<>> /\ CopyIn(k, a, r) = None
        BY <1>6, <1>8, <3>1 DEF CopyIn
      <4>2. Leads(<<>>, r, None, None)
        BY LeadsShort
      <4> HIDE DEF list, k
      <4> QED
        BY <2>2, <3>1, <4>1, <4>2
    <3>2. CASE b # s
      <4>1. PICK y : Leads(inbox[b][a], r, CopyIn(Manager(b), a, r), y) /\ Agreed(a, b, r, y)
        BY <2>1, <2>3 DEF Following
      <4>2. list = inbox[b][a] /\ k = Manager(b)
        BY <1>6, <3>2
      <4>3. CASE Linked(a, b)'
        <5>1. m = Manager(a) /\ inbox'[a][b] = inbox[a][b]
          BY <1>6, <2>2, <4>3
        <5> HIDE DEF list, k, m
        <5> QED
          BY <2>2, <4>1, <4>2, <4>3, <5>1 DEF Agreed
      <4>4. CASE ~Linked(a, b)'
        <5> HIDE DEF list, k, m
        <5> QED
          BY <4>1, <4>2, <4>4
      <4> QED
        BY <4>3, <4>4
    <3> QED
      BY <3>1, <3>2
  <2>4. /\ replica'[a] = m.replica /\ connection'[a] = m.connection
        /\ replica'[b] = k.replica /\ connection'[b] = k.connection /\ inbox'[b][a] = list
    BY <1>10
  <2> HIDE DEF m, k, list
  <2>5. FollowsAs(a, b, list, m, k)
    BY <2>3 DEF FollowsAs
  <2>6. Whole(a, b)' => Whole(a, b)
    BY <2>2
  <2> QED
    BY <1>1, <2>4, <2>5, <2>6, FollowingNext
<1> QED
  BY <1>9, <1>11, <1>12, <1>13 DEF Owned

\* Initially there is nothing to own but links that are announced.
LEMMA OwnedInit ==
  ASSUME Init
  PROVE  Owned
<1>1. /\ \A s, d \in System : d \in up[s] <=> {s, d} \in Link[policy]
      /\ \A s \in System : DOMAIN connection[s] = {} /\ DOMAIN replica[s] = {}
      /\ \A s, d \in System :
           inbox[s][d] = IF d \in up[s] THEN <<Event("NewConnection")>> ELSE <<>>
      /\ hidden = {}
  BY DEF Init, Empty
<1> DEFINE e == Event("NewConnection")
           l == <<e>>
<1>2. e.type = "NewConnection" /\ DOMAIN l = {1} /\ l[1] = e
  BY DEF Event
<1>3. \A d, r : MessageOK(d, e) /\ ~Gives(e, r) /\ Effect(e, r, None) = None
  BY <1>2 DEF MessageOK, Gives, Effect, Takes, Events
<1>4. ASSUME NEW r PROVE Leads(l, r, None, None) /\ Leads(<<>>, r, None, None)
  <2>1. Leads(l, r, None, Effect(e, r, None))
    BY <1>3, LeadsShort
  <2>2. Leads(<<>>, r, None, None)
    BY LeadsShort
  <2> QED
    BY <1>3, <2>1, <2>2
<1> HIDE DEF e
<1>5. \A d : Once(l, "NewConnection") /\ AllOK(d, l) /\ l # <<>>
  BY <1>2, <1>3 DEF Once, AllOK
<1> HIDE DEF l
<1>6. \A d : Once(<<>>, "NewConnection") /\ AllOK(d, <<>>)
  BY DEF Once, AllOK
<1>7. \A s, d \in System : inbox[s][d] = IF d \in up[s] THEN l ELSE <<>>
  BY <1>1 DEF l, e
<1>8. HiddenOK
  BY <1>1 DEF HiddenOK
<1>9. ASSUME NEW s \in System PROVE OwnerOK(s, Manager(s))
  BY <1>1 DEF OwnerOK, ObjectsOK, Manager
<1>10. ASSUME NEW s \in System, NEW d \in System PROVE PacketsOK(s, d)
  <2> DEFINE list == inbox[s][d]
  <2>1. list = IF d \in up[s] THEN l ELSE <<>>
    BY <1>7
  <2>2. d \in up[s] <=> {s, d} \in Link[policy]
    BY <1>1
  <2>3. d \notin DOMAIN connection[s]
    BY <1>1
  <2> HIDE DEF list
  <2>4. AllOK(d, list) /\ Once(list, "NewConnection")
    BY <1>5, <1>6, <2>1
  <2>5. list # <<>> \/ d \in up[s] => {s, d} \in Link[policy]
    BY <2>1, <2>2
  <2> QED
    BY <2>3, <2>4, <2>5 DEF PacketsOK, list
<1>11. ASSUME NEW s \in System, NEW d \in System PROVE Following(s, d)
  <2>1. \A r : CopyIn(Manager(d), s, r) = None
    BY <1>1 DEF CopyIn, Manager
  <2>2. \A r : Leads(inbox[d][s], r, None, None)
    BY <1>4, <1>7
  <2>3. \A r : Agreed(s, d, r, None)
    BY <1>1 DEF Agreed, Fits, Manager
  <2> QED
    BY <2>1, <2>2, <2>3 DEF Following
<1> QED
  BY <1>8, <1>9, <1>10, <1>11 DEF Owned

\* Every step keeps the invariant of single owners.
LEMMA OwnedStep ==
  ASSUME Inv, Links, Owned, OneOwner(policy), ~QuickReconnect, [Next]_vars
  PROVE  Owned'
<1>1. ASSUME NEW s \in System, Receive(s) PROVE Owned'
  BY <1>1, OwnedReceiveNothing, OwnedReceivePacket DEF Receive
<1>2. ASSUME NEW s \in System, Application(s) PROVE Owned'
  <2>1. ASSUME NEW r \in Replica, Reference(s, r) PROVE Owned'
    BY <2>1, OwnedReference
  <2>2. ASSUME NEW r \in Replica, Destroy(s, r) PROVE Owned'
    BY <2>2, OwnedDestroy
  <2>3. ASSUME NEW r \in Replica, Change(s, r) PROVE Owned'
    BY <2>3, OwnedChange
  <2>4. ASSUME NEW d \in System, NEW r \in Replica, Rescope(s, d, r) PROVE Owned'
    BY <2>4, OwnedRescope
  <2>5. ASSUME NEW d \in System, CloseConnection(s, d) PROVE Owned'
    BY <2>5, OwnedCloseConnection
  <2>6. CASE Shutdown(s)
    BY <2>6, OwnedShutdown
  <2> QED
    BY <1>2, <2>1, <2>2, <2>3, <2>4, <2>5, <2>6 DEF Application
<1>3. ASSUME Network PROVE Owned'
  BY <1>3, OwnedConnect, OwnedCloseCommand, OwnedTimeout DEF Network
<1>4. ASSUME UNCHANGED vars PROVE Owned'
  <2>1. UNCHANGED <<policy, replica, connection, inbox, up, closing>> /\ hidden' = hidden
    BY <1>4 DEF vars
  <2>2. HiddenOK'
    BY <2>1, SamePolicy DEF HiddenOK, Owned
  <2> QED
    BY <2>1, <2>2, OwnedKept
<1> QED
  BY <1>1, <1>2, <1>3, <1>4 DEF Next

\* No step changes what the callbacks answer.
LEMMA PolicyKept ==
  ASSUME [Next]_vars
  PROVE  policy' = policy
<1>1. ASSUME NEW s \in System, Receive(s) PROVE policy' = policy
  BY <1>1 DEF Receive, ReceiveNothing, ReceivePacket
<1>2. ASSUME NEW s \in System, Application(s) PROVE policy' = policy
  BY <1>2 DEF Application, Reference, Destroy, Change, Rescope, CloseConnection, Shutdown
<1>3. ASSUME Network PROVE policy' = policy
  BY <1>3 DEF Network, Connect, CloseCommand, Timeout
<1> QED
  BY <1>1, <1>2, <1>3 DEF Next, vars

----------------------------------------------------------------------------
(* The theorems *)

\* In every policy to choose from, replicas have a single owner each or every
\* application queries them for construction.
OwnersOrQueries ==
  \A p \in PolicyChoice :
    OneOwner(p) \/ \A s \in System : Mode[p][s] # "ConnectionReplicaList"

\* The invariant of all parts.
OwnersInv == Inv /\ Links /\ (OneOwner(policy) => Owned)

\* It leaves no constructions that cross.
LEMMA OwnersInvUncrossed ==
  ASSUME OwnersOrQueries, OwnersInv
  PROVE  NoCrossing
<1>1. CASE OneOwner(policy)
  BY <1>1, OwnersUncrossed DEF OwnersInv
<1>2. CASE ~OneOwner(policy)
  <2>1. \A s \in System : Queries(s)
    BY <1>2 DEF OwnersOrQueries, OwnersInv, Inv, Queries
  <2> QED
    BY <2>1 DEF NoCrossing, Connections
<1> QED
  BY <1>1, <1>2

\* It is inductive.
LEMMA OwnersInvHolds ==
  ASSUME ~QuickReconnect, OwnersOrQueries
  PROVE  Spec => []OwnersInv
<1>1. Init => OwnersInv
  BY InitKeeps, LinksInit, OwnedInit DEF OwnersInv
<1>2. ASSUME OwnersInv, [Next]_vars PROVE OwnersInv'
  <2>1. NoCrossing
    BY <1>2, OwnersInvUncrossed
  <2>2. Inv' /\ Links'
    BY <1>2, <2>1, StepKeeps, LinksStep DEF OwnersInv
  <2>3. OneOwner(policy) => Owned'
    BY <1>2, OwnedStep DEF OwnersInv
  <2>4. OneOwner(policy)' <=> OneOwner(policy)
    BY <1>2, PolicyKept DEF OneOwner
  <2> QED
    BY <2>2, <2>3, <2>4 DEF OwnersInv
<1> QED
  BY <1>1, <1>2, PTL DEF Spec

\* Constructions of one replica never cross, where each replica has a single
\* owner that no grouping receiver is linked to: what QueryReplicaList takes for
\* granted and no code looks at.
THEOREM ConstructionsNeverCross ==
  ASSUME ~QuickReconnect, OwnersOrQueries
  PROVE  Spec => []NoCrossing
<1>1. OwnersInv => NoCrossing
  BY OwnersInvUncrossed
<1> QED
  BY <1>1, OwnersInvHolds, PTL

----------------------------------------------------------------------------
(* What is there once everything has settled *)

\* Who has a connection then is connected, both ways and on both sides.
LEMMA SettledLinked ==
  ASSUME Inv, Links, Settled, NEW s \in System, NEW d \in System,
         d \in up[s] \/ d \in DOMAIN connection[s]
  PROVE  /\ Linked(s, d) /\ Linked(d, s) /\ Whole(s, d) /\ s # d
         /\ d \in DOMAIN connection[s] /\ s \in DOMAIN connection[d]
         /\ inbox[s][d] = <<>> /\ inbox[d][s] = <<>>
<1>1. inbox[s][d] = <<>> /\ inbox[d][s] = <<>>
  BY DEF Settled
<1>2. \A t : ~Holds(<<>>, t)
  BY DEF Holds
<1>3. EndOK(s, d) /\ EndOK(d, s)
  BY DEF Links
<1>4. d \in up[s]
  BY <1>1, <1>2, <1>3 DEF EndOK, Ended
<1>5. s \in up[d] /\ closing[s] = {} /\ closing[d] = {}
  BY <1>4 DEF Settled
<1>6. ~Ended(s, d) /\ ~Ended(d, s)
  BY <1>4, <1>5 DEF Ended
<1>7. d \in DOMAIN connection[s] /\ s \in DOMAIN connection[d]
  BY <1>1, <1>2, <1>3, <1>6 DEF EndOK
<1>8. s # d
  BY <1>4 DEF Links
<1> QED
  BY <1>1, <1>4, <1>5, <1>6, <1>7, <1>8 DEF Linked, Whole

\* The copy that d has of what s owns is then the one that s takes it for.
LEMMA SettledCopy ==
  ASSUME Inv, Links, Owned, Settled, NEW s \in System, NEW d \in System, d \in up[s],
         NEW r \in Replica, Owns(s, r)
  PROVE  Fits(s, d, Latest(Manager(s), d), Manager(s), r, CopyIn(Manager(d), s, r))
<1>1. Linked(s, d) /\ s # d /\ inbox[d][s] = <<>>
  BY SettledLinked
<1>2. PICK y : Leads(<<>>, r, CopyIn(Manager(d), s, r), y) /\ Agreed(s, d, r, y)
  BY <1>1 DEF Owned, Following
<1>3. y = CopyIn(Manager(d), s, r)
  BY <1>2, LeadsShort
<1> QED
  BY <1>1, <1>2, <1>3 DEF Agreed

\* A copy is there as long as its owner has the replica.
LEMMA OwnersShowNoOrphans ==
  ASSUME Inv, Links, Owned, OneOwner(policy)
  PROVE  SettledNoOrphans
<1> SUFFICES ASSUME Settled, NEW d \in System, NEW r \in DOMAIN replica[d],
                    replica[d][r].creator # d
             PROVE  \E s \in up[d] : r \in DOMAIN replica[s]
  BY DEF SettledNoOrphans
<1> DEFINE s == replica[d][r].creator
           k == Manager(d)
           m == Manager(s)
<1>1. PICK R \in SUBSET Replica, D \in SUBSET System :
        k \in ManagerIn(d, R, D) /\ DOMAIN replica[d] = R
  BY ManagerOf DEF Inv
<1>2. k.replica = replica[d] /\ k.connection = connection[d] /\ m.replica = replica[s]
      /\ m.connection = connection[s]
  BY DEF Manager
<1>3. r \in Replica /\ replica[d][r] \in Objects
  BY <1>1, <1>2, ManagerParts
<1>4. s \in System /\ replica[d][r].version \in Nat
  BY <1>3 DEF Objects
<1>5. Owns(s, r) /\ s \in DOMAIN connection[d] /\ r \in Range(connection[d][s].constructed)
  BY <1>2 DEF Owned, OwnerOK, ObjectsOK
<1>6. CopyIn(k, s, r) = replica[d][r].version
  BY <1>2, <1>5 DEF CopyIn
<1>7. CopyIn(k, s, r) # None
  BY <1>4, <1>6 DEF None
<1>8. d \in up[s] /\ s \in up[d] /\ d \in DOMAIN connection[s]
  <2> HIDE DEF s
  <2> QED
    BY <1>4, <1>5, SettledLinked DEF Linked
<1>9. r \in Range(connection[s][d].constructed)
  <2> HIDE DEF s
  <2>1. Fits(s, d, Latest(m, d), m, r, CopyIn(k, s, r))
    BY <1>3, <1>4, <1>5, <1>8, SettledCopy
  <2> HIDE DEF k, m
  <2> QED
    BY <1>2, <1>7, <1>8, <2>1 DEF Fits
<1>10. r \in DOMAIN replica[s]
  <2> HIDE DEF s
  <2>1. PICK R2 \in SUBSET Replica, D2 \in SUBSET System :
          Manager(s) \in ManagerIn(s, R2, D2) /\ DOMAIN replica[s] = R2 /\ DOMAIN connection[s] = D2
          /\ \A e \in D2 : connection[s][e] \in ConnectionIn(s, R2)
    BY <1>4, ManagerOf DEF Inv
  <2> QED
    BY <1>8, <1>9, <2>1, ConnectionLists
<1> QED
  BY <1>8, <1>10

\* What the owner has is there, in its last state.
LEMMA OwnersShowAgreement ==
  ASSUME Inv, Links, Owned, OneOwner(policy)
  PROVE  SettledReplicasAgree
<1> SUFFICES ASSUME Settled, NEW s \in System, NEW d \in up[s], NEW r \in DOMAIN replica[s],
                    Creates(s, d, Manager(s), r)
             PROVE  r \in DOMAIN replica[d] /\ replica[d][r].version = replica[s][r].version
  BY DEF SettledReplicasAgree
<1> DEFINE m == Manager(s)
           k == Manager(d)
           y == CopyIn(k, s, r)
<1>1. PICK R \in SUBSET Replica, D \in SUBSET System :
        m \in ManagerIn(s, R, D) /\ DOMAIN replica[s] = R /\ DOMAIN connection[s] = D
  BY ManagerOf DEF Inv
<1>2. m.replica = replica[s] /\ m.connection = connection[s] /\ (\A e \in System : m.out[e] = <<>>)
      /\ k.replica = replica[d] /\ k.connection = connection[d]
  BY DEF Manager
<1>3. d \in System /\ r \in Replica
  BY <1>1 DEF Inv, NetworkOK
<1>4. /\ Linked(s, d) /\ Whole(s, d) /\ s # d
      /\ d \in DOMAIN connection[s] /\ s \in DOMAIN connection[d]
  BY <1>3, SettledLinked
<1>5. OwnerOK(s, m) /\ HiddenOK
  BY DEF Owned
<1>6. Owns(s, r)
  <2>1. replica[s][r].creator = s
    BY <1>2 DEF Creates, ConstructionState, QueryConstruction, OneOwner
  <2> QED
    BY <1>2, <1>5, <2>1 DEF OwnerOK, ObjectsOK
<1>7. connection[s][d].isValidated
  BY <1>3, LinksShow DEF SettledValidated
<1>8. Update(s, m, TRUE) = m
  BY DEF Settled
<1> DEFINE n == Update(s, m, TRUE)
<1>9. Fits(s, d, Latest(m, d), m, r, y)
  BY <1>3, <1>6, SettledCopy
<1> HIDE DEF m, k
<1>10. Listed(s, d, n) /\ Tells(s, d, Latest(m, d), m, Replica, n)
  <2>1. /\ Tended(s, m, n)
        /\ \A e \in System : Tells(s, e, Latest(m, e), m, Latest(n, e), n)
        /\ TRUE => \A e \in D : Listed(s, e, n) /\ Tells(s, e, Latest(m, e), m, Replica, n)
    BY <1>1, <1>5, UpdateOwned
  <2> QED
    BY <1>1, <1>4, <2>1
<1>11. n = m
  BY <1>8
<1> HIDE DEF n
<1>12. Listed(s, d, m) /\ Tells(s, d, Latest(m, d), m, Replica, m)
  BY <1>10, <1>11
<1>13. r \in Range(m.connection[d].constructed)
  BY <1>2, <1>7, <1>12 DEF Listed, m
<1>14. Fits(s, d, Replica, m, r, y)
  <2>1. PICK more \in Seq(Message) :
          /\ m.out[d] = m.out[d] \o more
          /\ \A q \in Replica : \A x : Owns(s, q) /\ Fits(s, d, Latest(m, d), m, q, x) =>
               \E z : Leads(more, q, x, z) /\ Fits(s, d, Replica, m, q, z)
    BY <1>12 DEF Tells
  <2>2. more = <<>>
    BY <1>2, <1>3, <2>1
  <2> HIDE DEF y
  <2>3. PICK z : Leads(<<>>, r, y, z) /\ Fits(s, d, Replica, m, r, z)
    BY <1>3, <1>6, <1>9, <2>1, <2>2
  <2>4. z = y
    BY <2>3, LeadsShort
  <2> QED
    BY <2>3, <2>4
<1>15. y # None /\ y = replica[s][r].version
  <2> HIDE DEF y
  <2> QED
    BY <1>2, <1>3, <1>4, <1>13, <1>14 DEF Fits
<1>16. r \in Range(connection[d][s].constructed) /\ y = replica[d][r].version
  BY <1>2, <1>15 DEF CopyIn
<1>17. r \in DOMAIN replica[d]
  <2>1. PICK R2 \in SUBSET Replica, D2 \in SUBSET System :
          /\ DOMAIN replica[d] = R2 /\ DOMAIN connection[d] = D2
          /\ \A e \in D2 : connection[d][e] \in ConnectionIn(d, R2)
    BY <1>3, ManagerOf DEF Inv
  <2> QED
    BY <1>4, <1>16, <2>1, ConnectionLists
<1> QED
  BY <1>15, <1>16, <1>17

\* The state keeps its types then ...
THEOREM OwnersTyped ==
  ASSUME ~QuickReconnect, OwnersOrQueries
  PROVE  Spec => []TypeOK
<1> QED
  BY ConstructionsNeverCross, ManagersTyped, PTL

\* ... the lists of a connection do not contradict each other ...
THEOREM OwnersListsConsistent ==
  ASSUME ~QuickReconnect, OwnersOrQueries
  PROVE  Spec => []ListsConsistent
<1> QED
  BY ConstructionsNeverCross, ListsStayConsistent, PTL

\* ... none of them names a replica that has been deleted ...
THEOREM OwnersNothingDangles ==
  ASSUME ~QuickReconnect, OwnersOrQueries
  PROVE  Spec => []NoDanglingEntries
<1> QED
  BY ConstructionsNeverCross, NothingDangles, PTL

\* ... and both sides of a connection have validated it once everything has
\* settled.
THEOREM OwnersValidated ==
  ASSUME ~QuickReconnect, OwnersOrQueries
  PROVE  Spec => []SettledValidated
<1> QED
  BY ConstructionsNeverCross, ValidatedWhenSettled, PTL

\* Where every replica has a single owner, no copy outlives its original once
\* everything has settled: not its destruction, its going out of scope or the
\* end of its owner's connection, however they were ordered with what was under
\* way.
THEOREM NoOrphansWhenSettled ==
  ASSUME ~QuickReconnect, \A p \in PolicyChoice : OneOwner(p)
  PROVE  Spec => []SettledNoOrphans
<1>1. OwnersInv => SettledNoOrphans
  BY OwnersShowNoOrphans DEF OwnersInv, Inv
<1>2. OwnersOrQueries
  BY DEF OwnersOrQueries
<1> QED
  BY <1>1, <1>2, OwnersInvHolds, PTL

\* ... and what an owner is to construct on a system it is connected to is
\* there, in the state that it has on the owner: no construction, change or
\* data of its own for one connection is lost, and none comes out of turn.
THEOREM ReplicasAgreeWhenSettled ==
  ASSUME ~QuickReconnect, \A p \in PolicyChoice : OneOwner(p)
  PROVE  Spec => []SettledReplicasAgree
<1>1. OwnersInv => SettledReplicasAgree
  BY OwnersShowAgreement DEF OwnersInv, Inv
<1>2. OwnersOrQueries
  BY DEF OwnersOrQueries
<1> QED
  BY <1>1, <1>2, OwnersInvHolds, PTL
=============================================================================
