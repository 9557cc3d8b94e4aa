-------------------- MODULE ReplicaManager3Owners_proofs --------------------
(***************************************************************************)
(* Replicas with a single owner each, which applications list: what a list *)
(* of packets does to the receiver's copy of a replica, and what each      *)
(* handler of a manager makes of copies and of originals.                  *)
(***************************************************************************)
EXTENDS ReplicaManager3Links_proofs

----------------------------------------------------------------------------
(* What an inbox does to the receiver's copy of one replica *)

\* No copy.  Versions are natural numbers.
None == -1

\* The message constructs r.
Gives(p, r) == p.type = "Construction" /\ \E i \in DOMAIN p.new : p.new[i].id = r

\* Nothing is left of r once the packet has been read.
Takes(p, r) == p.type \in Events \/ (p.type = "Construction" /\ r \in Range(p.deleted))

\* The version of the copy once p has been read, if it was x before.
Effect(p, r, x) ==
  IF Takes(p, r) THEN None
  ELSE IF Gives(p, r) THEN 0
  ELSE IF p.type = "Serialize" /\ p.id = r /\ x # None THEN p.version ELSE x

\* h[k] is the copy after k packets; nothing constructs what is there.
History(list, r, h) ==
  \A k \in 1..Len(list) : /\ h[k] = Effect(list[k], r, h[k - 1])
                          /\ Gives(list[k], r) => h[k - 1] = None

\* A list turns a copy x into y.
Leads(list, r, x, y) ==
  \E h : History(list, r, h) /\ h[0] = x /\ h[Len(list)] = y

\* A packet that is not about r.
Neutral(p, r) == ~Takes(p, r) /\ ~Gives(p, r) /\ ~(p.type = "Serialize" /\ p.id = r)

\* Nothing happens without packets, and one packet has its effect.
LEMMA LeadsShort ==
  ASSUME NEW r, NEW x
  PROVE  /\ \A y : Leads(<<>>, r, x, y) <=> y = x
         /\ \A p : (Gives(p, r) => x = None) => Leads(<<p>>, r, x, Effect(p, r, x))
<1>1. \A y : Leads(<<>>, r, x, y) => y = x
  BY DEF Leads
<1>2. Leads(<<>>, r, x, x)
  <2> DEFINE h == [k \in {0} |-> x]
  <2>1. h[0] = x /\ History(<<>>, r, h)
    BY DEF History
  <2> HIDE DEF h
  <2> QED
    BY <2>1 DEF Leads
<1>3. ASSUME NEW p, Gives(p, r) => x = None PROVE Leads(<<p>>, r, x, Effect(p, r, x))
  <2> DEFINE h == [k \in {0, 1} |-> IF k = 0 THEN x ELSE Effect(p, r, x)]
             list == <<p>>
  <2>1. h[0] = x /\ h[1] = Effect(p, r, x) /\ Len(list) = 1 /\ list[1] = p
    OBVIOUS
  <2> HIDE DEF h, list
  <2>2. ASSUME NEW k \in 1..Len(list)
        PROVE  /\ h[k] = Effect(list[k], r, h[k - 1])
               /\ Gives(list[k], r) => h[k - 1] = None
    <3>1. k = 1 /\ k - 1 = 0
      BY <2>1
    <3> QED
      BY <1>3, <2>1, <3>1
  <2>3. History(list, r, h)
    BY <2>2 DEF History
  <2>4. Leads(list, r, x, Effect(p, r, x))
    BY <2>1, <2>3 DEF Leads
  <2> QED
    BY <2>4 DEF list
<1> QED
  BY <1>1, <1>2, <1>3

\* The part of a list behind its first n entries.
LEMMA RestOfSplit ==
  ASSUME NEW S, NEW list \in Seq(S), NEW n \in 0..Len(list)
  PROVE  LET b == SubSeq(list, n + 1, Len(list)) IN
         /\ b \in Seq(S) /\ Len(list) \in Nat /\ Len(b) = Len(list) - n
         /\ \A i \in 1..Len(list)-n : b[i] = list[n + i]
<1> DEFINE b == SubSeq(list, n + 1, Len(list))
           k == Len(list)
<1>1. k \in Nat /\ n \in Nat /\ n =< k /\ \A i \in n+1..k : list[i] \in S
  OBVIOUS
<1>2. n + 1 \in Int /\ k \in Int
  BY <1>1
<1>3. /\ b \in Seq(S)
      /\ Len(b) = IF n + 1 =< k THEN k - (n + 1) + 1 ELSE 0
      /\ \A i \in 1..k-(n + 1)+1 : b[i] = list[n + 1 + i - 1]
  BY <1>1, <1>2, SubSeqProperties
<1> HIDE DEF b, k
<1>4. Len(b) = k - n
  BY <1>1, <1>3
<1>5. ASSUME NEW i \in 1..k-n PROVE b[i] = list[n + i]
  <2>1. i \in 1..k-(n + 1)+1 /\ n + 1 + i - 1 = n + i
    BY <1>1
  <2> QED
    BY <1>3, <2>1
<1> QED
  BY <1>1, <1>3, <1>4, <1>5 DEF b, k

\* What two lists do one after the other ...
LEMMA LeadsOn ==
  ASSUME NEW S, NEW a \in Seq(S), NEW b \in Seq(S), NEW r, NEW x, NEW y, NEW z,
         Leads(a, r, x, y), Leads(b, r, y, z)
  PROVE  Leads(a \o b, r, x, z)
<1>1. PICK f : History(a, r, f) /\ f[0] = x /\ f[Len(a)] = y
  BY DEF Leads
<1>2. PICK g : History(b, r, g) /\ g[0] = y /\ g[Len(b)] = z
  BY DEF Leads
<1> DEFINE l == a \o b
           n == Len(a)
           h == [k \in 0..Len(l) |-> IF k =< n THEN f[k] ELSE g[k - n]]
<1>3. /\ Len(l) = n + Len(b) /\ n \in Nat /\ Len(b) \in Nat
      /\ \A i \in 1..n : l[i] = a[i]
      /\ \A i \in 1..Len(b) : l[n + i] = b[i]
  BY Concatenated DEF Joined
<1> HIDE DEF l, n
<1>4. h[0] = x /\ h[Len(l)] = z
  <2>1. h[0] = x
    BY <1>1, <1>3
  <2>2. CASE Len(b) = 0
    BY <1>1, <1>2, <1>3, <2>2 DEF n
  <2>3. CASE Len(b) > 0
    <3>1. Len(l) - n = Len(b) /\ Len(l) > n
      BY <1>3, <2>3
    <3> QED
      BY <1>2, <1>3, <2>1, <3>1
  <2> QED
    BY <1>3, <2>1, <2>2, <2>3
<1>5. ASSUME NEW k \in 1..Len(l)
      PROVE  h[k] = Effect(l[k], r, h[k - 1]) /\ (Gives(l[k], r) => h[k - 1] = None)
  <2>1. CASE k =< n
    <3>1. k \in 1..n /\ h[k] = f[k] /\ h[k - 1] = f[k - 1] /\ l[k] = a[k]
      BY <1>3, <2>1
    <3> HIDE DEF h
    <3> QED
      BY <1>1, <3>1 DEF History, n
  <2>2. CASE k > n
    <3>1. k - n \in 1..Len(b) /\ (k - n) - 1 = (k - 1) - n /\ n + (k - n) = k
      BY <1>3, <2>2
    <3>2. h[k] = g[k - n] /\ l[k] = b[k - n]
      BY <1>3, <2>2, <3>1
    <3>3. h[k - 1] = g[(k - n) - 1]
      <4>1. CASE k - 1 = n
        BY <1>1, <1>2, <1>3, <4>1 DEF n
      <4>2. CASE k - 1 > n
        BY <1>3, <3>1, <4>2
      <4> QED
        BY <1>3, <2>2, <4>1, <4>2
    <3> HIDE DEF h
    <3> QED
      BY <1>2, <3>1, <3>2, <3>3 DEF History
  <2> QED
    BY <1>3, <2>1, <2>2
<1> HIDE DEF h
<1>6. History(l, r, h)
  BY <1>5 DEF History
<1>7. Leads(l, r, x, z)
  BY <1>4, <1>6 DEF Leads
<1> QED
  BY <1>7 DEF l

\* ... the one list that they make does.
LEMMA LeadsSplit ==
  ASSUME NEW S, NEW list \in Seq(S), NEW n \in 0..Len(list), NEW r, NEW x, NEW z,
         Leads(list, r, x, z)
  PROVE  \E y : /\ Leads(SubSeq(list, 1, n), r, x, y)
                /\ Leads(SubSeq(list, n + 1, Len(list)), r, y, z)
<1>1. PICK h : History(list, r, h) /\ h[0] = x /\ h[Len(list)] = z
  BY DEF Leads
<1> DEFINE a == SubSeq(list, 1, n)
           b == SubSeq(list, n + 1, Len(list))
           g == [k \in 0..Len(b) |-> h[n + k]]
<1>2. Len(a) = n /\ \A i \in 1..n : a[i] = list[i]
  BY Truncated
<1>3. Len(list) \in Nat /\ Len(b) = Len(list) - n /\ \A i \in 1..Len(list) - n : b[i] = list[n + i]
  BY RestOfSplit
<1> HIDE DEF a, b
<1>4. Leads(a, r, x, h[n])
  <2>1. History(a, r, h)
    <3> SUFFICES ASSUME NEW k \in 1..Len(a)
                 PROVE  h[k] = Effect(a[k], r, h[k - 1]) /\ (Gives(a[k], r) => h[k - 1] = None)
      BY DEF History
    <3>1. k \in 1..Len(list) /\ a[k] = list[k]
      BY <1>2, <1>3
    <3> QED
      BY <1>1, <3>1 DEF History
  <2> QED
    BY <1>1, <1>2, <2>1 DEF Leads
<1>5. Leads(b, r, h[n], z)
  <2>1. g[0] = h[n] /\ g[Len(b)] = z
    BY <1>1, <1>3
  <2>2. History(b, r, g)
    <3> SUFFICES ASSUME NEW k \in 1..Len(b)
                 PROVE  g[k] = Effect(b[k], r, g[k - 1]) /\ (Gives(b[k], r) => g[k - 1] = None)
      BY DEF History
    <3>1. n + k \in 1..Len(list) /\ b[k] = list[n + k] /\ (n + k) - 1 = n + (k - 1)
      BY <1>3
    <3>2. g[k] = h[n + k] /\ g[k - 1] = h[(n + k) - 1]
      BY <1>3, <3>1
    <3> HIDE DEF g
    <3> QED
      BY <1>1, <3>1, <3>2 DEF History
  <2> HIDE DEF g
  <2> QED
    BY <2>1, <2>2 DEF Leads
<1> QED
  BY <1>4, <1>5 DEF a, b

\* The first packet has its effect, the others do the rest.
LEMMA LeadsFirst ==
  ASSUME NEW S, NEW list \in Seq(S), list # <<>>, NEW r, NEW x, NEW z, Leads(list, r, x, z)
  PROVE  /\ Gives(Head(list), r) => x = None
         /\ Leads(Tail(list), r, Effect(Head(list), r, x), z)
<1>1. PICK h : History(list, r, h) /\ h[0] = x /\ h[Len(list)] = z
  BY DEF Leads
<1> DEFINE b == Tail(list)
           g == [k \in 0..Len(b) |-> h[k + 1]]
<1>2. /\ Head(list) = list[1] /\ Len(list) \in Nat /\ Len(list) >= 1 /\ Len(b) = Len(list) - 1
      /\ \A i \in 1..Len(list)-1 : b[i] = list[i + 1]
  BY RestOfList
<1> HIDE DEF b
<1>3. h[1] = Effect(list[1], r, x) /\ (Gives(list[1], r) => x = None)
  <2>1. 1 \in 1..Len(list) /\ 1 - 1 = 0
    BY <1>2
  <2> QED
    BY <1>1, <2>1 DEF History
<1>4. g[0] = h[1] /\ g[Len(b)] = z
  BY <1>1, <1>2
<1>5. History(b, r, g)
  <2> SUFFICES ASSUME NEW k \in 1..Len(b)
               PROVE  g[k] = Effect(b[k], r, g[k - 1]) /\ (Gives(b[k], r) => g[k - 1] = None)
    BY DEF History
  <2>1. k + 1 \in 1..Len(list) /\ b[k] = list[k + 1] /\ (k + 1) - 1 = (k - 1) + 1
    BY <1>2
  <2>2. g[k] = h[k + 1] /\ g[k - 1] = h[(k + 1) - 1]
    BY <1>2, <2>1
  <2> HIDE DEF g
  <2> QED
    BY <1>1, <2>1, <2>2 DEF History
<1> HIDE DEF g
<1> QED
  BY <1>2, <1>3, <1>4, <1>5 DEF Leads, b

\* Packets about other replicas do nothing to r.
LEMMA LeadsNowhere ==
  ASSUME NEW S, NEW list \in Seq(S), NEW r, NEW x, \A k \in DOMAIN list : Neutral(list[k], r)
  PROVE  Leads(list, r, x, x)
<1> DEFINE h == [k \in 0..Len(list) |-> x]
<1>1. Len(list) \in Nat /\ h[0] = x /\ h[Len(list)] = x
  OBVIOUS
<1>2. \A k \in 1..Len(list) : h[k] = x /\ h[k - 1] = x /\ Neutral(list[k], r)
  BY <1>1
<1> HIDE DEF h
<1>3. History(list, r, h)
  BY <1>2 DEF History, Neutral, Effect
<1> QED
  BY <1>1, <1>3 DEF Leads

\* A list of data brings a copy to the version that it holds, if it holds one.
LEMMA LeadsData ==
  ASSUME NEW S, NEW list \in Seq(S), NEW r, NEW x, NEW v,
         \A k \in DOMAIN list : list[k].type = "Serialize" /\ (list[k].id = r => list[k].version = v),
         v # None
  PROVE  Leads(list, r, x,
               IF x # None /\ \E k \in DOMAIN list : list[k].id = r THEN v ELSE x)
<1> DEFINE Told(k) == x # None /\ \E i \in DOMAIN list : i =< k /\ list[i].id = r
           h == [k \in 0..Len(list) |-> IF Told(k) THEN v ELSE x]
<1>1. Len(list) \in Nat /\ DOMAIN list = 1..Len(list)
  OBVIOUS
<1>2. h[0] = x
  BY <1>1
<1>3. h[Len(list)] = IF x # None /\ \E k \in DOMAIN list : list[k].id = r THEN v ELSE x
  BY <1>1
<1>4. ASSUME NEW k \in 1..Len(list)
      PROVE  h[k] = Effect(list[k], r, h[k - 1]) /\ ~Gives(list[k], r)
  <2>1. /\ list[k].type = "Serialize" /\ list[k].id = r => list[k].version = v
        /\ k \in DOMAIN list
    BY <1>1
  <2>2. ~Gives(list[k], r) /\ ~Takes(list[k], r)
    BY <2>1 DEF Gives, Takes, Events
  <2>3. /\ h[k] = IF Told(k) THEN v ELSE x
        /\ h[k - 1] = IF Told(k - 1) THEN v ELSE x
    BY <1>1
  <2>4. Told(k) <=> Told(k - 1) \/ (x # None /\ list[k].id = r)
    BY <1>1, <2>1
  <2> HIDE DEF h, Told
  <2>5. h[k] = IF list[k].id = r /\ h[k - 1] # None THEN v ELSE h[k - 1]
    BY <2>3, <2>4 DEF Told
  <2> QED
    BY <2>1, <2>2, <2>5 DEF Effect
<1> HIDE DEF h
<1>5. History(list, r, h)
  BY <1>4 DEF History
<1> QED
  BY <1>2, <1>3, <1>5 DEF Leads

\* If the copy is lost meanwhile, the list does what it does from the first
\* construction or loss on; until then there is no copy.
LEMMA LeadsForgotten ==
  ASSUME NEW S, NEW list \in Seq(S), NEW r, NEW x, NEW y, Leads(list, r, x, y)
  PROVE  \E z : /\ Leads(list, r, None, z)
                /\ z = y \/ (z = None /\ ~Holds(list, "NewConnection"))
<1>1. PICK h : History(list, r, h) /\ h[0] = x /\ h[Len(list)] = y
  BY DEF Leads
<1> DEFINE Told(k) == \E i \in DOMAIN list : i =< k /\ (Gives(list[i], r) \/ Takes(list[i], r))
           g == [k \in 0..Len(list) |-> IF Told(k) THEN h[k] ELSE None]
<1>2. Len(list) \in Nat /\ DOMAIN list = 1..Len(list)
  OBVIOUS
<1>3. g[0] = None
  BY <1>2
<1>4. g[Len(list)] = y \/ (g[Len(list)] = None /\ ~Holds(list, "NewConnection"))
  <2>1. CASE Told(Len(list))
    BY <1>1, <1>2, <2>1
  <2>2. CASE ~Told(Len(list))
    <3>1. \A i \in DOMAIN list : ~Takes(list[i], r)
      BY <1>2, <2>2
    <3>2. ~Holds(list, "NewConnection")
      BY <3>1 DEF Holds, Takes, Events
    <3>3. g[Len(list)] = None
      BY <1>2, <2>2
    <3> QED
      BY <3>2, <3>3
  <2> QED
    BY <2>1, <2>2
<1>5. ASSUME NEW k \in 1..Len(list)
      PROVE  g[k] = Effect(list[k], r, g[k - 1]) /\ (Gives(list[k], r) => g[k - 1] = None)
  <2>1. h[k] = Effect(list[k], r, h[k - 1]) /\ (Gives(list[k], r) => h[k - 1] = None)
    BY <1>1 DEF History
  <2>2. /\ g[k] = IF Told(k) THEN h[k] ELSE None
        /\ g[k - 1] = IF Told(k - 1) THEN h[k - 1] ELSE None
    BY <1>2
  <2>3. Told(k) <=> Told(k - 1) \/ Gives(list[k], r) \/ Takes(list[k], r)
    BY <1>2
  <2> HIDE DEF g, Told
  <2>4. CASE Gives(list[k], r) \/ Takes(list[k], r)
    BY <2>1, <2>2, <2>3, <2>4 DEF Effect
  <2>5. CASE ~(Gives(list[k], r) \/ Takes(list[k], r))
    BY <2>1, <2>2, <2>3, <2>5 DEF Effect
  <2> QED
    BY <2>4, <2>5
<1> HIDE DEF g
<1>6. History(list, r, g)
  BY <1>5 DEF History
<1>7. Leads(list, r, None, g[Len(list)])
  BY <1>3, <1>6 DEF Leads
<1> QED
  BY <1>4, <1>7

----------------------------------------------------------------------------
(* Single owners in list mode *)

\* Every replica has one system that creates it, which QueryReplicaList asks
\* for it, and no system that groups downloads is linked to a creator.
OneOwner(p) ==
  /\ p = "SingleOwner" /\ \A s \in System : Mode[p][s] = "ConnectionReplicaList"
  /\ \A r \in Replica : \A d \in Creators[p][r] :
       /\ \A e \in Creators[p][r] : e = d
       /\ \A s \in Grouping : {s, d} \notin Link[p]

\* d is the system that creates r.
Owns(d, r) == d \in Creators[policy][r]

\* Both applications still have the link.
Whole(s, d) == ~Ended(s, d) /\ ~Ended(d, s)

\* A message of d is about what d owns, and constructs nothing twice.
MessageOK(d, p) ==
  /\ p.type = "Construction" =>
       /\ \A i \in DOMAIN p.new : /\ p.new[i].create /\ p.new[i].creator = d
                                  /\ Owns(d, p.new[i].id)
                                  /\ \A j \in DOMAIN p.new : p.new[i].id = p.new[j].id => i = j
       /\ \A r \in Range(p.deleted) : Owns(d, r)
  /\ p.type = "Serialize" => Owns(d, p.id)

\* The objects of s, m its manager: its own have data, the others came over a
\* connection to their owner.
ObjectsOK(s, m) ==
  \A r \in DOMAIN m.replica : LET o == m.replica[r] IN
    /\ Owns(o.creator, r)
    /\ o.creator = s => o.version > 0 /\ o.lastSent =< o.version
    /\ o.creator # s => /\ o.creator \in DOMAIN m.connection
                        /\ r \in Range(m.connection[o.creator].constructed)

\* The connection of s to d lists what either of them owns, and what s owns it
\* goes on serializing.
ConnectionOK(s, d, m) ==
  LET c == m.connection[d] IN
  /\ {s, d} \in Link[policy]
  /\ \A k \in DOMAIN c.downloadGroup : MessageOK(d, c.downloadGroup[k])
  /\ s \notin Grouping => ~c.groupConstructionAndSerialize
  /\ \A r \in Range(c.constructed) :
       /\ Owns(s, r) \/ Owns(d, r)
       /\ Owns(s, r) => r \in Range(c.serialize) /\ c.lastResult[r] =< m.replica[r].version

\* The manager m of s is one of single owners.
OwnerOK(s, m) ==
  ObjectsOK(s, m) /\ \A d \in DOMAIN m.connection : ConnectionOK(s, d, m)

\* Only what s owns is out of scope for its connections.
HiddenOK == \A s, d \in System, r \in Replica : <<s, d, r>> \in hidden => Owns(s, r)

\* The replicas whose last state has been sent to d.
Latest(m, d) ==
  {r \in Replica : m.replica[r].version =
     (IF r \in Uniquely THEN m.connection[d].lastResult[r] ELSE m.replica[r].lastSent)}

\* y, the copy of r that d will have, is what s takes it for: none, or one
\* that is the latest if r is among S.
Fits(s, d, S, m, r, y) ==
  d \in DOMAIN m.connection =>
    IF r \in Range(m.connection[d].constructed)
    THEN Whole(s, d) => y # None /\ (r \in S => y = m.replica[r].version)
    ELSE y = None

\* The messages to d that n adds to those of m tell d what has changed.
Tells(s, d, S, m, Q, n) ==
  \E more \in Seq(Message) :
    /\ n.out[d] = m.out[d] \o more
    /\ \A k \in DOMAIN more : MessageOK(s, more[k])
    /\ \A r \in Replica : \A y : Owns(s, r) /\ Fits(s, d, S, m, r, y) =>
         \E z : Leads(more, r, y, z) /\ Fits(s, d, Q, n, r, z)

\* The version of the copy of r that came from d.
CopyIn(m, d, r) ==
  IF d \in DOMAIN m.connection /\ r \in Range(m.connection[d].constructed)
  THEN m.replica[r].version ELSE None

\* The same objects, whatever has been sent of them; the same copies; nothing
\* is sent without a connection.
Tended(s, m, n) ==
  /\ OwnerOK(s, n)
  /\ DOMAIN n.replica = DOMAIN m.replica /\ DOMAIN n.connection = DOMAIN m.connection
  /\ \A d \in System \ DOMAIN m.connection : n.out[d] = m.out[d]
  /\ \A r \in DOMAIN m.replica : /\ n.replica[r].version = m.replica[r].version
                                 /\ n.replica[r].creator = m.replica[r].creator
  /\ \A d \in DOMAIN m.connection, r \in Replica : ~Owns(s, r) =>
       (r \in Range(n.connection[d].constructed) <=> r \in Range(m.connection[d].constructed))

\* What the connection holds of a download is as it was.
SameGroup(c, n) ==
  /\ n.groupConstructionAndSerialize = c.groupConstructionAndSerialize
  /\ n.downloadGroup = c.downloadGroup

\* The connection c has got the replicas K ...
Gained(c, n, K) ==
  /\ Range(n.constructed) = Range(c.constructed) \cup K
  /\ Range(n.serialize) = Range(c.serialize) \cup K
  /\ \A r \in Replica : n.lastResult[r] = IF r \in K THEN 0 ELSE c.lastResult[r]
  /\ SameGroup(c, n)

\* ... or lost them.
Lost(c, n, K) ==
  /\ Range(n.constructed) = Range(c.constructed) \ K
  /\ Range(n.serialize) = Range(c.serialize) \ K
  /\ \A r \in Replica : r \notin K => n.lastResult[r] = c.lastResult[r]
  /\ SameGroup(c, n)

----------------------------------------------------------------------------
(* Update *)

\* What Those goes through.
ThoseSteps(g, A, list, S) ==
  /\ g \in [0..Len(list) -> Seq(A)] /\ g[0] = <<>> /\ g[Len(list)] = Those(list, S)
  /\ \A k \in 0..Len(list)-1 : list[k + 1] \in A /\ g[k + 1] = (IF list[k + 1] \in S THEN Append(g[k], list[k + 1]) ELSE g[k])

\* Its steps can be taken.
LEMMA ThoseChain ==
  ASSUME NEW A, NEW list \in Seq(A), NEW S
  PROVE  \E g : ThoseSteps(g, A, list, S)
<1> DEFINE X == Seq(A)
           E == A
           op(x, e) == IF e \in S THEN Append(x, e) ELSE x
           step == [p \in X \X E |-> op(p[1], p[2])]
           Is(f) == f = [t \in SUBSET DOMAIN list |->
                           IF t = {} THEN <<>> ELSE op(f[t \ {Max(t)}], list[Max(t)])]
           it == CHOOSE f : Is(f)
<1>1. \A x \in X, e \in E : op(x, e) \in X
  OBVIOUS
<1>2. Those(list, S) = it[DOMAIN list]
  BY DEF Those, FoldLeft, MapThenFoldSet
<1>3. <<>> \in X /\ list \in Seq(E)
  OBVIOUS
<1> HIDE DEF X, E, op
<1>4. step \in [X \X E -> X]
  BY <1>1
<1>5. PICK h, g : FoldsThrough(h, g, X, step, <<>>, list)
  <2> HIDE DEF step
  <2> QED
    BY <1>3, <1>4, FoldThrough
<1>chain. /\ h \in [SUBSET DOMAIN list -> X] /\ g \in [0..Len(list) -> X]
      /\ IsFold(h, step, <<>>, list) /\ IsChain(g, step, <<>>, list)
      /\ g[Len(list)] = h[DOMAIN list]
  <2> HIDE DEF step
  <2> QED
    BY <1>5 DEF FoldsThrough
<1>6. Is(h)
  <2>1. \A t \in SUBSET DOMAIN list : t # {} =>
          step[<<h[t \ {Max(t)}], list[Max(t)]>>] = op(h[t \ {Max(t)}], list[Max(t)])
    <3>1. ASSUME NEW t \in SUBSET DOMAIN list, t # {}
          PROVE  h[t \ {Max(t)}] \in X /\ list[Max(t)] \in E
      <4> HIDE DEF step, Is, it
      <4> QED
        BY <1>3, <1>chain, <3>1, FoldArguments
    <3> QED
      BY <3>1
  <2> HIDE DEF step
  <2> QED
    BY <1>chain, <2>1 DEF IsFold
<1>7. Is(it)
  <2> HIDE DEF Is
  <2> QED
    BY <1>6
<1>8. it[DOMAIN list] = h[DOMAIN list]
  <2> HIDE DEF it
  <2>1. DOMAIN list = 1..Len(list) /\ Len(list) \in Nat
    BY <1>3
  <2>2. it[{}] = h[{}]
    BY <1>6, <1>7
  <2>3. \A t \in SUBSET DOMAIN list :
          t # {} /\ it[t \ {Max(t)}] = h[t \ {Max(t)}] => it[t] = h[t]
    BY <1>6, <1>7
  <2> HIDE DEF Is
  <2> QED
    BY <2>1, <2>2, <2>3, FoldUnique
<1> HIDE DEF it
<1>9. g[Len(list)] = h[DOMAIN list]
  BY <1>chain
<1>10. ASSUME NEW k \in 0..Len(list)-1
       PROVE  /\ g[k] \in X /\ list[k + 1] \in E
              /\ g[k + 1] = op(g[k], list[k + 1])
  <2>1. Len(list) \in Nat /\ DOMAIN list = 1..Len(list)
    BY <1>3
  <2>2. k \in 0..Len(list) /\ k + 1 \in 1..Len(list)
    BY <2>1
  <2>3. g[k] \in X /\ list[k + 1] \in E
    BY <1>3, <1>chain, <2>2
  <2>4. g[k + 1] = step[<<g[k], list[k + 1]>>]
    <3> HIDE DEF step
    <3> QED
      BY <1>chain DEF IsChain
  <2> QED
    BY <2>3, <2>4
<1>11. g[0] = <<>>
  <2> HIDE DEF step
  <2> QED
    BY <1>chain DEF IsChain
<1> HIDE DEF step, Is
<1>12. g \in [0..Len(list) -> X]
  BY <1>chain
<1> QED
  BY <1>2, <1>8, <1>9, <1>10, <1>11, <1>12 DEF X, E, op, ThoseSteps

\* The new entries of ListLoop.
ListMade(c, list) == FoldLeft(OnListedConstruct, c, list)

\* One after the other.
ListMadeSteps(g, R, c, list) ==
  /\ g \in [0..Len(list) -> Steady(c, R)] /\ g[0] = c /\ g[Len(list)] = ListMade(c, list)
  /\ \A k \in 0..Len(list)-1 : list[k + 1] \in R /\ g[k + 1] = OnListedConstruct(g[k], list[k + 1])

\* Its steps can be taken.
LEMMA ListMadeChain ==
  ASSUME NEW R, NEW c \in ConnectionOf(R), NEW list \in Seq(R)
  PROVE  \E g : ListMadeSteps(g, R, c, list)
<1> DEFINE X == Steady(c, R)
           E == R
           op(x, e) == OnListedConstruct(x, e)
           step == [p \in X \X E |-> op(p[1], p[2])]
           Is(f) == f = [t \in SUBSET DOMAIN list |->
                           IF t = {} THEN c ELSE op(f[t \ {Max(t)}], list[Max(t)])]
           it == CHOOSE f : Is(f)
<1>1. \A x \in X, e \in E : op(x, e) \in X
  BY SteadyOperations
<1>2. ListMade(c, list) = it[DOMAIN list]
  BY DEF ListMade, FoldLeft, MapThenFoldSet
<1>3. c \in X /\ list \in Seq(E)
  BY DEF Steady
<1> HIDE DEF X, E, op
<1>4. step \in [X \X E -> X]
  BY <1>1
<1>5. PICK h, g : FoldsThrough(h, g, X, step, c, list)
  <2> HIDE DEF step
  <2> QED
    BY <1>3, <1>4, FoldThrough
<1>chain. /\ h \in [SUBSET DOMAIN list -> X] /\ g \in [0..Len(list) -> X]
      /\ IsFold(h, step, c, list) /\ IsChain(g, step, c, list)
      /\ g[Len(list)] = h[DOMAIN list]
  <2> HIDE DEF step
  <2> QED
    BY <1>5 DEF FoldsThrough
<1>6. Is(h)
  <2>1. \A t \in SUBSET DOMAIN list : t # {} =>
          step[<<h[t \ {Max(t)}], list[Max(t)]>>] = op(h[t \ {Max(t)}], list[Max(t)])
    <3>1. ASSUME NEW t \in SUBSET DOMAIN list, t # {}
          PROVE  h[t \ {Max(t)}] \in X /\ list[Max(t)] \in E
      <4> HIDE DEF step, Is, it
      <4> QED
        BY <1>3, <1>chain, <3>1, FoldArguments
    <3> QED
      BY <3>1
  <2> HIDE DEF step
  <2> QED
    BY <1>chain, <2>1 DEF IsFold
<1>7. Is(it)
  <2> HIDE DEF Is
  <2> QED
    BY <1>6
<1>8. it[DOMAIN list] = h[DOMAIN list]
  <2> HIDE DEF it
  <2>1. DOMAIN list = 1..Len(list) /\ Len(list) \in Nat
    BY <1>3
  <2>2. it[{}] = h[{}]
    BY <1>6, <1>7
  <2>3. \A t \in SUBSET DOMAIN list :
          t # {} /\ it[t \ {Max(t)}] = h[t \ {Max(t)}] => it[t] = h[t]
    BY <1>6, <1>7
  <2> HIDE DEF Is
  <2> QED
    BY <2>1, <2>2, <2>3, FoldUnique
<1> HIDE DEF it
<1>9. g[Len(list)] = h[DOMAIN list]
  BY <1>chain
<1>10. ASSUME NEW k \in 0..Len(list)-1
       PROVE  /\ g[k] \in X /\ list[k + 1] \in E
              /\ g[k + 1] = op(g[k], list[k + 1])
  <2>1. Len(list) \in Nat /\ DOMAIN list = 1..Len(list)
    BY <1>3
  <2>2. k \in 0..Len(list) /\ k + 1 \in 1..Len(list)
    BY <2>1
  <2>3. g[k] \in X /\ list[k + 1] \in E
    BY <1>3, <1>chain, <2>2
  <2>4. g[k + 1] = step[<<g[k], list[k + 1]>>]
    <3> HIDE DEF step
    <3> QED
      BY <1>chain DEF IsChain
  <2> QED
    BY <2>3, <2>4
<1>11. g[0] = c
  <2> HIDE DEF step
  <2> QED
    BY <1>chain DEF IsChain
<1> HIDE DEF step, Is
<1>12. g \in [0..Len(list) -> X]
  BY <1>chain
<1> QED
  BY <1>2, <1>8, <1>9, <1>10, <1>11, <1>12 DEF X, E, op, ListMadeSteps

\* An entry that it drops.
Drop(c, r) == [c EXCEPT !.constructed = RemoveFirst(@, r), !.serialize = RemoveFirst(@, r)]

\* All of them.
ListDropped(c, list) == FoldLeft(Drop, c, list)

\* One after the other.
ListDroppedSteps(g, s, R, c, list) ==
  /\ g \in [0..Len(list) -> ConnectionIn(s, R)] /\ g[0] = c /\ g[Len(list)] = ListDropped(c, list)
  /\ \A k \in 0..Len(list)-1 : list[k + 1] \in R /\ g[k + 1] = Drop(g[k], list[k + 1])

\* Its steps can be taken.
LEMMA ListDroppedChain ==
  ASSUME NEW s, ~Queries(s), NEW R \in SUBSET Replica, NEW c \in ConnectionIn(s, R), NEW list \in Seq(R)
  PROVE  \E g : ListDroppedSteps(g, s, R, c, list)
<1> DEFINE X == ConnectionIn(s, R)
           E == R
           op(x, e) == Drop(x, e)
           step == [p \in X \X E |-> op(p[1], p[2])]
           Is(f) == f = [t \in SUBSET DOMAIN list |->
                           IF t = {} THEN c ELSE op(f[t \ {Max(t)}], list[Max(t)])]
           it == CHOOSE f : Is(f)
<1>1. \A x \in X, e \in E : op(x, e) \in X
  BY ListedNoMore DEF Drop
<1>2. ListDropped(c, list) = it[DOMAIN list]
  BY DEF ListDropped, FoldLeft, MapThenFoldSet
<1>3. c \in X /\ list \in Seq(E)
  OBVIOUS
<1> HIDE DEF X, E, op
<1>4. step \in [X \X E -> X]
  BY <1>1
<1>5. PICK h, g : FoldsThrough(h, g, X, step, c, list)
  <2> HIDE DEF step
  <2> QED
    BY <1>3, <1>4, FoldThrough
<1>chain. /\ h \in [SUBSET DOMAIN list -> X] /\ g \in [0..Len(list) -> X]
      /\ IsFold(h, step, c, list) /\ IsChain(g, step, c, list)
      /\ g[Len(list)] = h[DOMAIN list]
  <2> HIDE DEF step
  <2> QED
    BY <1>5 DEF FoldsThrough
<1>6. Is(h)
  <2>1. \A t \in SUBSET DOMAIN list : t # {} =>
          step[<<h[t \ {Max(t)}], list[Max(t)]>>] = op(h[t \ {Max(t)}], list[Max(t)])
    <3>1. ASSUME NEW t \in SUBSET DOMAIN list, t # {}
          PROVE  h[t \ {Max(t)}] \in X /\ list[Max(t)] \in E
      <4> HIDE DEF step, Is, it
      <4> QED
        BY <1>3, <1>chain, <3>1, FoldArguments
    <3> QED
      BY <3>1
  <2> HIDE DEF step
  <2> QED
    BY <1>chain, <2>1 DEF IsFold
<1>7. Is(it)
  <2> HIDE DEF Is
  <2> QED
    BY <1>6
<1>8. it[DOMAIN list] = h[DOMAIN list]
  <2> HIDE DEF it
  <2>1. DOMAIN list = 1..Len(list) /\ Len(list) \in Nat
    BY <1>3
  <2>2. it[{}] = h[{}]
    BY <1>6, <1>7
  <2>3. \A t \in SUBSET DOMAIN list :
          t # {} /\ it[t \ {Max(t)}] = h[t \ {Max(t)}] => it[t] = h[t]
    BY <1>6, <1>7
  <2> HIDE DEF Is
  <2> QED
    BY <2>1, <2>2, <2>3, FoldUnique
<1> HIDE DEF it
<1>9. g[Len(list)] = h[DOMAIN list]
  BY <1>chain
<1>10. ASSUME NEW k \in 0..Len(list)-1
       PROVE  /\ g[k] \in X /\ list[k + 1] \in E
              /\ g[k + 1] = op(g[k], list[k + 1])
  <2>1. Len(list) \in Nat /\ DOMAIN list = 1..Len(list)
    BY <1>3
  <2>2. k \in 0..Len(list) /\ k + 1 \in 1..Len(list)
    BY <2>1
  <2>3. g[k] \in X /\ list[k + 1] \in E
    BY <1>3, <1>chain, <2>2
  <2>4. g[k + 1] = step[<<g[k], list[k + 1]>>]
    <3> HIDE DEF step
    <3> QED
      BY <1>chain DEF IsChain
  <2> QED
    BY <2>3, <2>4
<1>11. g[0] = c
  <2> HIDE DEF step
  <2> QED
    BY <1>chain DEF IsChain
<1> HIDE DEF step, Is
<1>12. g \in [0..Len(list) -> X]
  BY <1>chain
<1> QED
  BY <1>2, <1>8, <1>9, <1>10, <1>11, <1>12 DEF X, E, op, ListDroppedSteps

\* Those selects what is in the set.
LEMMA ThoseRange ==
  ASSUME NEW A, NEW list \in Seq(A), NEW S
  PROVE  Those(list, S) \in Seq(A) /\ Range(Those(list, S)) = Range(list) \cap S
<1>0. PICK g : ThoseSteps(g, A, list, S)
  BY ThoseChain
<1>1. /\ g \in [0..Len(list) -> Seq(A)] /\ g[0] = <<>> /\ g[Len(list)] = Those(list, S)
      /\ \A k \in 0..Len(list)-1 : list[k + 1] \in A
           /\ g[k + 1] = IF list[k + 1] \in S THEN Append(g[k], list[k + 1]) ELSE g[k]
  BY <1>0 DEF ThoseSteps
<1> DEFINE n == Len(list)
           Done(k) == {list[i] : i \in 1..k}
           T == {k \in 0..n : Range(g[k]) = Done(k) \cap S}
<1>2. n \in Nat /\ DOMAIN list = 1..n
  OBVIOUS
<1>3. 0 \in T
  <2>1. Done(0) = {} /\ Range(<<>>) = {}
    BY DEF Range
  <2> QED
    BY <1>1, <1>2, <2>1
<1>4. ASSUME NEW k \in 0..n-1, k \in T PROVE k + 1 \in T
  <2>1. k + 1 \in 0..n /\ k \in 0..n /\ 1..k+1 = (1..k) \cup {k + 1}
    BY <1>2
  <2>2. Done(k + 1) = Done(k) \cup {list[k + 1]} /\ Range(g[k]) = Done(k) \cap S
    BY <1>4, <2>1
  <2> HIDE DEF Done
  <2>3. g[k] \in Seq(A) /\ list[k + 1] \in A
    BY <1>1, <2>1
  <2>4. Range(Append(g[k], list[k + 1])) = Range(g[k]) \cup {list[k + 1]}
    BY <2>3, AppendedList
  <2>5. g[k + 1] = IF list[k + 1] \in S THEN Append(g[k], list[k + 1]) ELSE g[k]
    BY <1>1
  <2>6. Range(g[k + 1]) = Done(k + 1) \cap S
    BY <2>2, <2>4, <2>5
  <2> QED
    BY <2>1, <2>6
<1>5. n \in T
  <2> HIDE DEF T
  <2>1. \A k \in 0..n : k \in T
    BY <1>2, <1>3, <1>4, FiniteInduction
  <2> QED
    BY <1>2, <2>1
<1>6. Done(n) = Range(list)
  BY <1>2 DEF Range
<1>7. Range(g[n]) = Range(list) \cap S /\ g[n] \in Seq(A)
  BY <1>1, <1>2, <1>5, <1>6
<1> QED
  BY <1>1, <1>7

\* Inserted adds an entry.
LEMMA InsertedList ==
  ASSUME NEW S, NEW list \in Seq(S), NEW r \in S
  PROVE  Inserted(list, r) \in Seq(S) /\ Range(Inserted(list, r)) = Range(list) \cup {r}
  BY AppendedList, RangeOfList DEF Inserted

\* One entry is constructed ...
LEMMA GainedOne ==
  ASSUME NEW R \in SUBSET Replica, NEW c \in ConnectionOf(R), NEW r \in R
  PROVE  Gained(c, OnListedConstruct(c, r), {r})
<1> DEFINE n == OnListedConstruct(c, r)
<1>1. /\ n.constructed = Inserted(c.constructed, r) /\ n.serialize = Append(c.serialize, r)
      /\ n.lastResult = [c.lastResult EXCEPT ![r] = 0] /\ SameGroup(c, n)
      /\ c.constructed \in Seq(R) /\ c.serialize \in Seq(R) /\ c.lastResult \in [Replica -> Nat]
  BY DEF ConnectionOf, OnListedConstruct, SameGroup
<1> HIDE DEF n
<1>2. /\ Range(n.constructed) = Range(c.constructed) \cup {r}
      /\ Range(n.serialize) = Range(c.serialize) \cup {r}
  BY <1>1, InsertedList, AppendedList
<1>3. Gained(c, n, {r})
  BY <1>1, <1>2 DEF Gained
<1> QED
  BY <1>3 DEF n

\* ... or dropped.
LEMMA LostOne ==
  ASSUME NEW s, NEW R \in SUBSET Replica, NEW c \in ConnectionIn(s, R), NEW r
  PROVE  Lost(c, Drop(c, r), {r}) /\ Lost(c, OnDereference(c, r), {r})
<1> DEFINE n == Drop(c, r)
           e == OnDereference(c, r)
<1>1. /\ n.constructed = RemoveFirst(c.constructed, r) /\ n.serialize = RemoveFirst(c.serialize, r)
      /\ n.lastResult = c.lastResult /\ SameGroup(c, n)
      /\ e.constructed = RemoveFirst(c.constructed, r) /\ e.serialize = RemoveFirst(c.serialize, r)
      /\ e.lastResult = [c.lastResult EXCEPT ![r] = 0] /\ SameGroup(c, e)
      /\ c.lastResult \in [Replica -> Nat]
  BY DEF ConnectionIn, ConnectionOf, Drop, OnDereference, SameGroup
<1> HIDE DEF n, e
<1>2. /\ Range(RemoveFirst(c.constructed, r)) = Range(c.constructed) \ {r}
      /\ Range(RemoveFirst(c.serialize, r)) = Range(c.serialize) \ {r}
  BY ConnectionLists, RemovedList DEF Consistent
<1>3. Lost(c, n, {r}) /\ Lost(c, e, {r})
  BY <1>1, <1>2 DEF Lost
<1> QED
  BY <1>3 DEF n, e

\* All that QueryReplicaList returned is.
LEMMA GainedAll ==
  ASSUME NEW R \in SUBSET Replica, NEW c \in ConnectionOf(R), NEW list \in Seq(R)
  PROVE  Gained(c, ListMade(c, list), Range(list))
<1>0. PICK g : ListMadeSteps(g, R, c, list)
  BY ListMadeChain
<1>1. /\ g \in [0..Len(list) -> Steady(c, R)] /\ g[0] = c /\ g[Len(list)] = ListMade(c, list)
      /\ \A k \in 0..Len(list)-1 : list[k + 1] \in R
           /\ g[k + 1] = OnListedConstruct(g[k], list[k + 1])
  BY <1>0 DEF ListMadeSteps
<1> DEFINE n == Len(list)
           Done(k) == {list[i] : i \in 1..k}
           T == {k \in 0..n : Gained(c, g[k], Done(k))}
<1>2. n \in Nat /\ DOMAIN list = 1..n
  OBVIOUS
<1>3. 0 \in T
  <2>1. Done(0) = {}
    OBVIOUS
  <2> HIDE DEF Done
  <2>2. Gained(c, c, Done(0))
    BY <2>1 DEF Gained, SameGroup
  <2> QED
    BY <1>1, <1>2, <2>2
<1>4. ASSUME NEW k \in 0..n-1, k \in T PROVE k + 1 \in T
  <2>1. k + 1 \in 0..n /\ k \in 0..n /\ 1..k+1 = (1..k) \cup {k + 1}
    BY <1>2
  <2>2. Done(k + 1) = Done(k) \cup {list[k + 1]} /\ Gained(c, g[k], Done(k))
    BY <1>4, <2>1
  <2> HIDE DEF Done
  <2>3. g[k] \in ConnectionOf(R) /\ list[k + 1] \in R
    BY <1>1, <2>1 DEF Steady
  <2>4. Gained(g[k], g[k + 1], {list[k + 1]})
    BY <1>1, <2>3, GainedOne
  <2>5. Gained(c, g[k + 1], Done(k + 1))
    BY <2>2, <2>4 DEF Gained, SameGroup
  <2> QED
    BY <2>1, <2>5
<1>5. n \in T
  <2> HIDE DEF T
  <2>1. \A k \in 0..n : k \in T
    BY <1>2, <1>3, <1>4, FiniteInduction
  <2> QED
    BY <1>2, <2>1
<1>6. Done(n) = Range(list)
  BY <1>2 DEF Range
<1> QED
  BY <1>1, <1>5, <1>6

\* All that has left the scope of the connection is dropped.
LEMMA LostAll ==
  ASSUME NEW s, ~Queries(s), NEW R \in SUBSET Replica, NEW c \in ConnectionIn(s, R),
         NEW list \in Seq(R)
  PROVE  Lost(c, ListDropped(c, list), Range(list)) /\ ListDropped(c, list) \in ConnectionIn(s, R)
<1>0. PICK g : ListDroppedSteps(g, s, R, c, list)
  BY ListDroppedChain
<1>1. /\ g \in [0..Len(list) -> ConnectionIn(s, R)] /\ g[0] = c /\ g[Len(list)] = ListDropped(c, list)
      /\ \A k \in 0..Len(list)-1 : list[k + 1] \in R /\ g[k + 1] = Drop(g[k], list[k + 1])
  BY <1>0 DEF ListDroppedSteps
<1> DEFINE n == Len(list)
           Done(k) == {list[i] : i \in 1..k}
           T == {k \in 0..n : Lost(c, g[k], Done(k))}
<1>2. n \in Nat /\ DOMAIN list = 1..n
  OBVIOUS
<1>3. 0 \in T
  <2>1. Done(0) = {}
    OBVIOUS
  <2> HIDE DEF Done
  <2>2. Lost(c, c, Done(0))
    BY <2>1 DEF Lost, SameGroup
  <2> QED
    BY <1>1, <1>2, <2>2
<1>4. ASSUME NEW k \in 0..n-1, k \in T PROVE k + 1 \in T
  <2>1. k + 1 \in 0..n /\ k \in 0..n /\ 1..k+1 = (1..k) \cup {k + 1}
    BY <1>2
  <2>2. Done(k + 1) = Done(k) \cup {list[k + 1]} /\ Lost(c, g[k], Done(k))
    BY <1>4, <2>1
  <2> HIDE DEF Done
  <2>3. g[k] \in ConnectionIn(s, R)
    BY <1>1, <2>1
  <2>4. Lost(g[k], g[k + 1], {list[k + 1]})
    BY <1>1, <2>3, LostOne
  <2>5. Lost(c, g[k + 1], Done(k + 1))
    BY <2>2, <2>4 DEF Lost, SameGroup
  <2> QED
    BY <2>1, <2>5
<1>5. n \in T
  <2> HIDE DEF T
  <2>1. \A k \in 0..n : k \in T
    BY <1>2, <1>3, <1>4, FiniteInduction
  <2> QED
    BY <1>2, <2>1
<1>6. Done(n) = Range(list) /\ g[n] \in ConnectionIn(s, R)
  BY <1>1, <1>2 DEF Range
<1> QED
  BY <1>1, <1>5, <1>6

\* What the application answers.
LEMMA OwnerAnswers ==
  ASSUME OneOwner(policy), NEW s \in System, NEW d, NEW m, NEW r
  PROVE  /\ ~Queries(s) /\ QueryRemoteConstruction(policy, s) /\ ~BroadcastsOnPop(policy, s)
         /\ Creates(s, d, m, r) <=> <<s, d, r>> \notin hidden /\ m.replica[r].creator = s
         /\ Asked(s, d, m, r) = IF m.replica[r].creator = s THEN "CallSerialize"
                                ELSE "NeverCallSerialize"
<1>1. policy = "SingleOwner" /\ Mode[policy][s] = "ConnectionReplicaList"
  BY DEF OneOwner
<1>2. ~Queries(s) /\ QueryRemoteConstruction(policy, s) /\ ~BroadcastsOnPop(policy, s)
  BY <1>1 DEF Queries, QueryRemoteConstruction, BroadcastsOnPop
<1>3. Creates(s, d, m, r) <=> <<s, d, r>> \notin hidden /\ m.replica[r].creator = s
  BY <1>1 DEF Creates, ConstructionState, QueryConstruction
<1>4. Asked(s, d, m, r) = IF m.replica[r].creator = s THEN "CallSerialize"
                          ELSE "NeverCallSerialize"
  BY <1>1 DEF Asked, QuerySerialization
<1> QED
  BY <1>2, <1>3, <1>4

\* A replica has one owner.
LEMMA OwnersAgree ==
  ASSUME OneOwner(policy), NEW r \in Replica, NEW d, NEW e, Owns(d, r), Owns(e, r)
  PROVE  d = e
  BY DEF OneOwner, Owns

\* What s has constructed of its own somewhere is its object.
LEMMA OwnConstructed ==
  ASSUME OneOwner(policy), NEW s \in System, NEW R \in SUBSET Replica, NEW D \in SUBSET System,
         NEW m \in ManagerIn(s, R, D), OwnerOK(s, m), NEW d \in D,
         NEW r \in Range(m.connection[d].constructed), Owns(s, r)
  PROVE  /\ r \in R /\ r \in Replica /\ m.replica[r].creator = s
         /\ m.replica[r].version \in Nat /\ m.replica[r].version > 0
<1>1. r \in R /\ m.replica[r] \in Objects
  BY ManagerParts, ConnectionLists
<1>2. Owns(m.replica[r].creator, r)
  BY <1>1, ManagerParts DEF OwnerOK, ObjectsOK
<1>3. m.replica[r].creator = s
  BY <1>1, <1>2, OwnersAgree
<1> QED
  BY <1>1, <1>3, ManagerParts DEF OwnerOK, ObjectsOK, Objects

\* What ListLoop makes of a connection.
LEMMA ListLoopLeaves ==
  ASSUME OneOwner(policy), NEW s \in System, NEW R \in SUBSET Replica, NEW D \in SUBSET System,
         NEW m \in ManagerIn(s, R, D), NEW d \in D
  PROVE  LET c == m.connection[d]
             n == ListLoop(s, d, m, c)
             New == Range(ListedNew(s, d, m, c))
             Gone == Range(ListedGone(s, d, c))
         IN /\ n \in ConnectionIn(s, R) /\ n.isValidated = c.isValidated
            /\ New = {r \in R : Creates(s, d, m, r) /\ r \notin Range(c.constructed)}
            /\ Gone = {r \in Range(c.constructed) : <<s, d, r>> \in hidden}
            /\ Range(n.constructed) = (Range(c.constructed) \cup New) \ Gone
            /\ Range(n.serialize) = (Range(c.serialize) \cup New) \ Gone
            /\ \A r \in Replica : r \notin Gone =>
                 n.lastResult[r] = IF r \in New THEN 0 ELSE c.lastResult[r]
            /\ SameGroup(c, n)
<1> DEFINE c == m.connection[d]
           n == ListLoop(s, d, m, c)
           new == ListedNew(s, d, m, c)
           gone == ListedGone(s, d, c)
           made == ListMade(c, new)
<1>1. ~Queries(s) /\ c \in ConnectionIn(s, R) /\ DOMAIN m.replica = R /\ IsFiniteSet(R)
  <2>1. ~Queries(s)
    BY OwnerAnswers
  <2>2. c \in ConnectionIn(s, R) /\ DOMAIN m.replica = R
    BY ManagerParts
  <2>3. IsFiniteSet(R)
    BY ManagerAssumption, FS_Subset
  <2> HIDE DEF c
  <2> QED
    BY <2>1, <2>2, <2>3
<1> HIDE DEF c
<1>2. n \in ConnectionIn(s, R) /\ n.isValidated = c.isValidated
  BY <1>1, ListLoopList
<1>3. /\ new \in Seq(R) /\ IsInjective(new) /\ Range(new) \cap Range(c.constructed) = {}
      /\ gone \in Seq(R)
  BY <1>1, ListLoopLists
<1>4. c \in ConnectionOf(R) /\ c.constructed \in Seq(R) /\ Range(c.constructed) \subseteq R
  BY <1>1, ConnectionLists DEF ConnectionIn
<1>5. Range(new) = {r \in R : Creates(s, d, m, r) /\ r \notin Range(c.constructed)}
  <2> DEFINE S == {r \in R : Creates(s, d, m, r) /\ ~Contains(c.constructed, r)}
  <2>1. new = SetToSeq(S)
    BY <1>1 DEF ListedNew
  <2>2. S = {r \in R : Creates(s, d, m, r) /\ r \notin Range(c.constructed)}
    BY <1>4, RangeOfList
  <2>3. IsFiniteSet(S)
    BY <1>1, FS_Subset
  <2> HIDE DEF S
  <2> QED
    BY <2>1, <2>2, <2>3, ListOfSet
<1>6. Range(gone) = {r \in Range(c.constructed) : <<s, d, r>> \in hidden}
  <2>1. Range(gone) = Range(c.constructed) \cap {r \in Replica : <<s, d, r>> \in hidden}
    BY <1>4, ThoseRange DEF ListedGone
  <2> QED
    BY <1>4, <2>1
<1>7. n = ListDropped(made, gone)
  BY DEF ListLoop, ListDropped, ListMade, Drop, FoldLeft, MapThenFoldSet
<1>8. made \in ConnectionIn(s, R) /\ Gained(c, made, Range(new))
  BY <1>1, <1>3, <1>4, ListedNewList, GainedAll DEF ListMade
<1> HIDE DEF n, new, gone, made
<1>9. Lost(made, n, Range(gone))
  BY <1>1, <1>3, <1>7, <1>8, LostAll
<1>10. /\ Range(n.constructed) = (Range(c.constructed) \cup Range(new)) \ Range(gone)
       /\ Range(n.serialize) = (Range(c.serialize) \cup Range(new)) \ Range(gone)
       /\ \A r \in Replica : r \notin Range(gone) =>
            n.lastResult[r] = IF r \in Range(new) THEN 0 ELSE c.lastResult[r]
       /\ SameGroup(c, n)
  BY <1>8, <1>9 DEF Gained, Lost, SameGroup
<1> QED
  BY <1>2, <1>5, <1>6, <1>10 DEF n, new, gone, c

\* What SendConstruction leaves alone.
LEMMA ConstructionElse ==
  ASSUME NEW s, NEW R, NEW D, NEW m \in ManagerIn(s, R, D), NEW d \in D, NEW new, NEW deleted
  PROVE  LET n == SendConstruction(s, d, m, new, deleted) IN
         /\ n.replica = m.replica /\ DOMAIN n.connection = D
         /\ \A e \in System : e # d => n.out[e] = m.out[e]
         /\ \A e \in D : e # d => n.connection[e] = m.connection[e]
         /\ n.connection[d].constructed = m.connection[d].constructed
         /\ n.connection[d].serialize = m.connection[d].serialize
         /\ n.connection[d].lastResult = m.connection[d].lastResult
         /\ SameGroup(m.connection[d], n.connection[d])
<1> DEFINE all == IF m.connection[d].isFirstConstruction
             THEN <<Signal("DownloadStarted")>> \o (<<Construction([k \in DOMAIN new |-> [id |-> new[k], create |-> Creates(s, d, m, new[k]),
                                     creator |-> m.replica[new[k]].creator]], deleted)>> \o InitialData(m, new)) \o <<Signal("DownloadComplete")>>
             ELSE <<Construction([k \in DOMAIN new |-> [id |-> new[k], create |-> Creates(s, d, m, new[k]),
                                     creator |-> m.replica[new[k]].creator]], deleted)>> \o InitialData(m, new)
           n == [m EXCEPT !.out[d] = @ \o all, !.connection[d].isFirstConstruction = FALSE]
<1>1. SendConstruction(s, d, m, new, deleted) \in {m, n}
  BY DEF SendConstruction
<1> HIDE DEF all
<1>2. m.connection[d] \in ConnectionOf(R)
  BY DEF ManagerIn, ConnectionIn
<1>3. /\ n.replica = m.replica /\ DOMAIN n.connection = D
      /\ \A e \in System : e # d => n.out[e] = m.out[e]
      /\ \A e \in D : e # d => n.connection[e] = m.connection[e]
      /\ n.connection[d] = [m.connection[d] EXCEPT !.isFirstConstruction = FALSE]
  BY DEF ManagerIn
<1>4. DOMAIN m.connection = D /\ SameGroup(m.connection[d], m.connection[d])
  BY ManagerParts DEF SameGroup
<1> HIDE DEF n
<1>5. /\ n.connection[d].constructed = m.connection[d].constructed
      /\ n.connection[d].serialize = m.connection[d].serialize
      /\ n.connection[d].lastResult = m.connection[d].lastResult
      /\ SameGroup(m.connection[d], n.connection[d])
  BY <1>2, <1>3 DEF ConnectionOf, SameGroup
<1> QED
  BY <1>1, <1>3, <1>4, <1>5

\* The messages to d that n adds to those of m do this to the receiver's copies.
Constructs(s, d, m, new, deleted, n) ==
  \E more \in Seq(Message) :
    /\ n.out[d] = m.out[d] \o more
    /\ \A k \in DOMAIN more : MessageOK(s, more[k])
    /\ \A r \in Replica : \A y : (r \in new => y = None) =>
         Leads(more, r, y, IF r \in deleted THEN None
                           ELSE IF r \notin new THEN y
                           ELSE IF r \in Uniquely THEN 0 ELSE m.replica[r].version)

\* What SendConstruction sends.
LEMMA ConstructionSent ==
  ASSUME NEW s \in System, NEW R \in SUBSET Replica, NEW D \in SUBSET System, NEW d \in D,
         NEW m \in ManagerIn(s, R, D), NEW new \in Seq(R), NEW deleted \in Seq(R),
         IsInjective(new), Range(new) \cap Range(deleted) = {},
         \A r \in Range(new) : /\ Creates(s, d, m, r) /\ Owns(s, r)
                               /\ m.replica[r].creator = s /\ m.replica[r].version > 0,
         \A r \in Range(deleted) : Owns(s, r)
  PROVE  Constructs(s, d, m, Range(new), Range(deleted), SendConstruction(s, d, m, new, deleted))
<1> DEFINE c == m.connection[d]
           item == [k \in DOMAIN new |-> [id |-> new[k], create |-> Creates(s, d, m, new[k]),
                                          creator |-> m.replica[new[k]].creator]]
           P == Construction(item, deleted)
           data == InitialData(m, new)
           body == <<P>> \o data
           first == <<Signal("DownloadStarted")>>
           last == <<Signal("DownloadComplete")>>
           all == IF c.isFirstConstruction THEN first \o body \o last ELSE body
           more == IF new = <<>> /\ deleted = <<>> THEN <<>> ELSE all
           S == {r \in Range(new) : r \notin Uniquely /\ m.replica[r].version > 0}
           sent == Those(new, S)
<1>1. /\ \A r \in R : m.replica[r].creator \in System /\ m.replica[r].version \in Nat
      /\ d \in System /\ DOMAIN m.connection = D /\ m.out[d] \in Seq(Message)
  BY ManagerParts DEF Objects
<1>2. /\ DOMAIN new = 1..Len(new) /\ Len(new) \in Nat
      /\ \A k \in DOMAIN new : new[k] \in R /\ new[k] \in Range(new)
      /\ \A r \in Range(new) : \E k \in DOMAIN new : new[k] = r
      /\ \A j, k \in DOMAIN new : new[j] = new[k] => j = k
  BY DEF Range, IsInjective
<1>3. /\ P.type = "Construction" /\ P.new = item /\ P.deleted = deleted /\ DOMAIN item = DOMAIN new
      /\ \A k \in DOMAIN new : /\ item[k].id = new[k] /\ item[k].create = Creates(s, d, m, new[k])
                               /\ item[k].creator = m.replica[new[k]].creator
  BY DEF Construction
<1>4. P \in Message
  <2>1. item \in Seq(Item)
    <3>1. ASSUME NEW k \in DOMAIN new PROVE item[k] \in Item
      BY <1>1, <1>2 DEF Item, Creates
    <3>2. item \in [1..Len(new) -> Item]
      BY <1>2, <3>1
    <3> QED
      BY <1>2, <3>2, MappedList
  <2>2. deleted \in Seq(Replica)
    BY SeqMonotonic
  <2> HIDE DEF item
  <2> QED
    BY <2>1, <2>2 DEF Construction, Message
<1> HIDE DEF P, item
<1>5. MessageOK(s, P)
  BY <1>2, <1>3 DEF MessageOK
<1>6. \A r : (Gives(P, r) <=> r \in Range(new)) /\ (Takes(P, r) <=> r \in Range(deleted))
  BY <1>2, <1>3 DEF Gives, Takes, Events
<1>7. /\ sent \in Seq(R) /\ Range(sent) = S
      /\ DOMAIN sent = 1..Len(sent) /\ Len(sent) \in Nat
      /\ \A k \in DOMAIN sent : sent[k] \in R /\ sent[k] \in S
      /\ \A r \in S : \E k \in DOMAIN sent : sent[k] = r
  <2>1. sent \in Seq(R) /\ Range(sent) = Range(new) \cap S
    BY ThoseRange
  <2>2. Range(new) \cap S = S
    OBVIOUS
  <2> HIDE DEF S, sent
  <2> QED
    BY <2>1, <2>2 DEF Range
<1>8. data = [k \in DOMAIN sent |-> Serialize(m, sent[k])]
  BY DEF InitialData
<1> HIDE DEF sent, data
<1>9. /\ data \in Seq(Message) /\ DOMAIN data = DOMAIN sent
      /\ \A k \in DOMAIN sent : /\ data[k].type = "Serialize" /\ data[k].id = sent[k]
                                /\ data[k].version = m.replica[sent[k]].version
                                /\ MessageOK(s, data[k])
  <2>1. ASSUME NEW k \in DOMAIN sent
        PROVE  /\ data[k] \in Message
               /\ data[k].type = "Serialize" /\ data[k].id = sent[k]
               /\ data[k].version = m.replica[sent[k]].version
    BY <1>1, <1>7, <1>8 DEF Serialize, Message
  <2>2. data \in [1..Len(sent) -> Message]
    BY <1>7, <1>8, <2>1
  <2>3. \A k \in DOMAIN sent : Owns(s, sent[k])
    BY <1>7
  <2> QED
    BY <1>7, <1>8, <2>1, <2>2, <2>3, MappedList DEF MessageOK
<1>10. body \in Seq(Message) /\ \A k \in DOMAIN body : MessageOK(s, body[k])
  <2>0. <<P>> \in Seq(Message) /\ data \in Seq(Message)
    BY <1>4, <1>9
  <2>1. Joined(Message, body, <<P>>, data)
    BY <2>0, Concatenated
  <2>2. DOMAIN body = 1..Len(body) /\ Len(<<P>>) = 1 /\ <<P>>[1] = P /\ DOMAIN data = 1..Len(data)
    BY <1>9, <2>1 DEF Joined
  <2>3. ASSUME NEW k \in DOMAIN body PROVE body[k] = P \/ \E i \in DOMAIN data : body[k] = data[i]
    <3>1. k = 1 \/ k - 1 \in 1..Len(data)
      BY <2>1, <2>2 DEF Joined
    <3> QED
      BY <2>1, <2>2, <3>1 DEF Joined
  <2> HIDE DEF body
  <2> QED
    BY <1>5, <1>9, <2>1, <2>3 DEF Joined
<1>11. ASSUME NEW r \in Replica, NEW y, r \in Range(new) => y = None
       PROVE  Leads(body, r, y, IF r \in Range(deleted) THEN None
                                ELSE IF r \notin Range(new) THEN y
                                ELSE IF r \in Uniquely THEN 0 ELSE m.replica[r].version)
  <2> DEFINE x == IF r \in Range(deleted) THEN None ELSE IF r \in Range(new) THEN 0 ELSE y
             z == IF x # None /\ \E k \in DOMAIN data : data[k].id = r
                  THEN m.replica[r].version ELSE x
  <2>1. Effect(P, r, y) = x
    BY <1>3, <1>6 DEF Effect
  <2>2. Leads(<<P>>, r, y, x)
    <3> HIDE DEF x
    <3> QED
      BY <1>6, <1>11, <2>1, LeadsShort
  <2>3. (\E k \in DOMAIN data : data[k].id = r) <=> r \in S
    BY <1>7, <1>9
  <2>4. Leads(data, r, x, z)
    <3>1. CASE r \in R
      <4> DEFINE v == m.replica[r].version
      <4>1. v # None
        BY <1>1, <3>1 DEF None
      <4>2. \A k \in DOMAIN data : data[k].type = "Serialize" /\ (data[k].id = r => data[k].version = v)
        BY <1>9
      <4> HIDE DEF x, v
      <4>3. Leads(data, r, x, IF x # None /\ \E k \in DOMAIN data : data[k].id = r THEN v ELSE x)
        BY <1>9, <4>1, <4>2, LeadsData
      <4> QED
        BY <4>3 DEF v
    <3>2. CASE r \notin R
      <4>1. \A k \in DOMAIN data : Neutral(data[k], r)
        BY <1>7, <1>9, <3>2 DEF Neutral, Gives, Takes, Events
      <4>2. z = x
        BY <2>3, <3>2, <1>2
      <4> HIDE DEF x, z
      <4> QED
        BY <1>9, <4>1, <4>2, LeadsNowhere
    <3> QED
      BY <3>1, <3>2
  <2>5. Leads(body, r, y, z)
    <3> HIDE DEF x, z
    <3>1. <<P>> \in Seq(Message)
      BY <1>4
    <3> QED
      BY <1>9, <2>2, <2>4, <3>1, LeadsOn
  <2>6. z = IF r \in Range(deleted) THEN None
            ELSE IF r \notin Range(new) THEN y
            ELSE IF r \in Uniquely THEN 0 ELSE m.replica[r].version
    <3>1. r \in S <=> r \in Range(new) /\ r \notin Uniquely
      OBVIOUS
    <3> HIDE DEF S
    <3> QED
      BY <2>3, <3>1 DEF None
  <2> HIDE DEF z
  <2> QED
    BY <2>5, <2>6
<1> HIDE DEF body, S
<1>12. ASSUME NEW p \in {Signal("DownloadStarted"), Signal("DownloadComplete")}
       PROVE  /\ p \in Message /\ <<p>> \in Seq(Message) /\ MessageOK(s, p)
              /\ \A r, y : Leads(<<p>>, r, y, y)
  <2>1. p \in Message /\ p.type \in {"DownloadStarted", "DownloadComplete"}
    <3>1. CASE p = Signal("DownloadStarted")
      BY <3>1 DEF Signal, Message
    <3>2. CASE p = Signal("DownloadComplete")
      BY <3>2 DEF Signal, Message
    <3> QED
      BY <3>1, <3>2
  <2>2. MessageOK(s, p)
    BY <2>1 DEF MessageOK
  <2>3. ASSUME NEW r, NEW y PROVE Leads(<<p>>, r, y, y)
    <3>1. ~Gives(p, r)
      BY <2>1 DEF Gives
    <3>2. Effect(p, r, y) = y
      BY <2>1, <3>1 DEF Takes, Events, Effect
    <3>3. Leads(<<p>>, r, y, Effect(p, r, y))
      BY <3>1, LeadsShort
    <3> QED
      BY <3>2, <3>3
  <2> QED
    BY <2>1, <2>2, <2>3
<1>13. /\ first \in Seq(Message) /\ last \in Seq(Message)
       /\ MessageOK(s, first[1]) /\ MessageOK(s, last[1])
       /\ Len(first) = 1 /\ Len(last) = 1
       /\ \A r, y : Leads(first, r, y, y) /\ Leads(last, r, y, y)
  BY <1>12
<1> HIDE DEF first, last
<1>14. /\ all \in Seq(Message) /\ \A k \in DOMAIN all : MessageOK(s, all[k])
       /\ \A r, y, z : Leads(body, r, y, z) => Leads(all, r, y, z)
  <2> DEFINE a == first \o body
             b == a \o last
  <2>1. Joined(Message, a, first, body)
    BY <1>10, <1>13, Concatenated
  <2>2. Joined(Message, b, a, last)
    <3>1. a \in Seq(Message)
      BY <2>1 DEF Joined
    <3> HIDE DEF a
    <3> QED
      BY <1>13, <3>1, Concatenated
  <2>3. a \in Seq(Message) /\ b \in Seq(Message)
    BY <2>1, <2>2 DEF Joined
  <2>4. \A r, y, z : Leads(body, r, y, z) => Leads(b, r, y, z)
    <3>1. ASSUME NEW r, NEW y, NEW z, Leads(body, r, y, z) PROVE Leads(b, r, y, z)
      <4>1. Leads(a, r, y, z)
        BY <1>10, <1>13, <3>1, LeadsOn
      <4> HIDE DEF a
      <4> QED
        BY <1>13, <2>3, <4>1, LeadsOn
    <3> QED
      BY <3>1
  <2> HIDE DEF a, b
  <2>5. \A k \in DOMAIN a : MessageOK(s, a[k])
    <3>1. ASSUME NEW k \in DOMAIN a PROVE MessageOK(s, a[k])
      <4>1. k = 1 \/ (k - 1 \in 1..Len(body) /\ k = Len(first) + (k - 1))
        BY <1>13, <2>1, <2>3 DEF Joined
      <4>2. CASE k = 1
        BY <1>13, <2>1, <4>2 DEF Joined
      <4>3. CASE k - 1 \in 1..Len(body) /\ k = Len(first) + (k - 1)
        <5>1. a[k] = body[k - 1] /\ k - 1 \in DOMAIN body
          BY <1>10, <2>1, <4>3 DEF Joined
        <5> QED
          BY <1>10, <5>1
      <4> QED
        BY <4>1, <4>2, <4>3
    <3> QED
      BY <3>1
  <2>6. \A k \in DOMAIN b : MessageOK(s, b[k])
    <3>1. ASSUME NEW k \in DOMAIN b PROVE MessageOK(s, b[k])
      <4>1. k \in 1..Len(a) \/ k = Len(a) + 1
        BY <1>13, <2>2, <2>3 DEF Joined
      <4>2. CASE k \in 1..Len(a)
        <5>1. b[k] = a[k] /\ k \in DOMAIN a
          BY <2>2, <2>3, <4>2 DEF Joined
        <5> QED
          BY <2>5, <5>1
      <4>3. CASE k = Len(a) + 1
        <5>1. 1 \in 1..Len(last) /\ b[k] = last[1]
          BY <1>13, <2>2, <4>3 DEF Joined
        <5> QED
          BY <1>13, <5>1
      <4> QED
        BY <4>1, <4>2, <4>3
    <3> QED
      BY <3>1
  <2>7. all = IF c.isFirstConstruction THEN b ELSE body
    BY DEF a, b
  <2> HIDE DEF all
  <2> QED
    BY <1>10, <2>3, <2>4, <2>6, <2>7
<1> HIDE DEF all
<1>15. SendConstruction(s, d, m, new, deleted).out[d] = m.out[d] \o more
  <2>1. SendConstruction(s, d, m, new, deleted) =
          IF new = <<>> /\ deleted = <<>> THEN m
          ELSE [m EXCEPT !.out[d] = @ \o all, !.connection[d].isFirstConstruction = FALSE]
    BY DEF SendConstruction, all, body, data, P, item, first, last
  <2>2. m.out[d] \o <<>> = m.out[d]
    BY <1>1
  <2>3. [m EXCEPT !.out[d] = @ \o all, !.connection[d].isFirstConstruction = FALSE].out[d]
          = m.out[d] \o all
    BY <1>1 DEF ManagerIn
  <2> QED
    BY <2>1, <2>2, <2>3
<1>16. more \in Seq(Message) /\ \A k \in DOMAIN more : MessageOK(s, more[k])
  BY <1>14
<1>17. ASSUME NEW r \in Replica, NEW y, r \in Range(new) => y = None
       PROVE  Leads(more, r, y, IF r \in Range(deleted) THEN None
                                ELSE IF r \notin Range(new) THEN y
                                ELSE IF r \in Uniquely THEN 0 ELSE m.replica[r].version)
  <2>1. CASE new = <<>> /\ deleted = <<>>
    <3>1. r \notin Range(new) /\ r \notin Range(deleted)
      BY <2>1 DEF Range
    <3>2. Leads(<<>>, r, y, y)
      BY LeadsShort
    <3> QED
      BY <2>1, <3>1, <3>2
  <2>2. CASE ~(new = <<>> /\ deleted = <<>>)
    BY <1>11, <1>14, <1>17, <2>2
  <2> QED
    BY <2>1, <2>2
<1> HIDE DEF more
<1> QED
  BY <1>15, <1>16, <1>17 DEF Constructs

\* Nothing more is said, and what d has fits as before.
LEMMA TellsNothing ==
  ASSUME NEW s, NEW d, NEW S, NEW Q, NEW m, NEW n,
         n.out[d] = m.out[d], m.out[d] \in Seq(Message),
         \A r \in Replica : \A y : Owns(s, r) /\ Fits(s, d, S, m, r, y) => Fits(s, d, Q, n, r, y)
  PROVE  Tells(s, d, S, m, Q, n)
<1>1. /\ <<>> \in Seq(Message) /\ n.out[d] = m.out[d] \o <<>>
      /\ \A k \in DOMAIN <<>> : MessageOK(s, <<>>[k])
  OBVIOUS
<1>2. \A r, y : Leads(<<>>, r, y, y)
  BY LeadsShort
<1> QED
  BY <1>1, <1>2 DEF Tells

\* Nothing that d has been told of changes.
LEMMA TellsAsBefore ==
  ASSUME NEW s, NEW d, NEW m, NEW n,
         n.out[d] = m.out[d], m.out[d] \in Seq(Message), n.replica = m.replica,
         DOMAIN n.connection = DOMAIN m.connection,
         d \in DOMAIN m.connection => n.connection[d] = m.connection[d]
  PROVE  Tells(s, d, Latest(m, d), m, Latest(n, d), n)
<1>1. ASSUME NEW r, NEW y, Fits(s, d, Latest(m, d), m, r, y)
      PROVE  Fits(s, d, Latest(n, d), n, r, y)
  <2>1. CASE d \in DOMAIN m.connection
    <3>1. Latest(n, d) = Latest(m, d)
      BY <2>1 DEF Latest
    <3> QED
      BY <1>1, <2>1, <3>1 DEF Fits
  <2>2. CASE d \notin DOMAIN m.connection
    BY <2>2 DEF Fits
  <2> QED
    BY <2>1, <2>2
<1> QED
  BY <1>1, TellsNothing

\* One step after the other.
LEMMA TellsOn ==
  ASSUME NEW s, NEW d, NEW S, NEW Q, NEW P, NEW m, NEW n, NEW k,
         Tells(s, d, S, m, Q, n), Tells(s, d, Q, n, P, k), m.out[d] \in Seq(Message)
  PROVE  Tells(s, d, S, m, P, k)
<1>1. PICK a \in Seq(Message) :
        /\ n.out[d] = m.out[d] \o a
        /\ \A i \in DOMAIN a : MessageOK(s, a[i])
        /\ \A r \in Replica : \A y : Owns(s, r) /\ Fits(s, d, S, m, r, y) =>
             \E z : Leads(a, r, y, z) /\ Fits(s, d, Q, n, r, z)
  BY DEF Tells
<1>2. PICK b \in Seq(Message) :
        /\ k.out[d] = n.out[d] \o b
        /\ \A i \in DOMAIN b : MessageOK(s, b[i])
        /\ \A r \in Replica : \A y : Owns(s, r) /\ Fits(s, d, Q, n, r, y) =>
             \E z : Leads(b, r, y, z) /\ Fits(s, d, P, k, r, z)
  BY DEF Tells
<1> DEFINE l == a \o b
<1>3. Joined(Message, l, a, b)
  BY Concatenated
<1>4. l \in Seq(Message)
  BY <1>3 DEF Joined
<1>5. (m.out[d] \o a) \o b = m.out[d] \o (a \o b)
  <2> DEFINE c == m.out[d]
  <2>1. c \in Seq(Message) /\ a \in Seq(Message) /\ b \in Seq(Message)
    OBVIOUS
  <2> HIDE DEF c
  <2>2. (c \o a) \o b = c \o (a \o b)
    BY <2>1, ConcatAssociative
  <2> QED
    BY <2>2 DEF c
<1>6. k.out[d] = m.out[d] \o l
  BY <1>1, <1>2, <1>5
<1>7. ASSUME NEW r \in Replica, NEW y, Owns(s, r), Fits(s, d, S, m, r, y)
      PROVE  \E z : Leads(l, r, y, z) /\ Fits(s, d, P, k, r, z)
  <2>1. PICK x : Leads(a, r, y, x) /\ Fits(s, d, Q, n, r, x)
    BY <1>1, <1>7
  <2>2. PICK z : Leads(b, r, x, z) /\ Fits(s, d, P, k, r, z)
    BY <1>2, <1>7, <2>1
  <2>3. Leads(l, r, y, z)
    BY <2>1, <2>2, LeadsOn
  <2> QED
    BY <2>2, <2>3
<1> HIDE DEF l
<1>8. \A i \in DOMAIN l : MessageOK(s, l[i])
  <2>1. ASSUME NEW i \in DOMAIN l PROVE MessageOK(s, l[i])
    <3>1. DOMAIN a = 1..Len(a) /\ DOMAIN b = 1..Len(b) /\ DOMAIN l = 1..Len(l)
          /\ Len(a) \in Nat /\ Len(b) \in Nat /\ Len(l) = Len(a) + Len(b)
      BY <1>3 DEF Joined
    <3>2. CASE i =< Len(a)
      <4>1. i \in DOMAIN a /\ l[i] = a[i]
        BY <1>3, <3>1, <3>2 DEF Joined
      <4> QED
        BY <1>1, <4>1
    <3>3. CASE i > Len(a)
      <4>1. i - Len(a) \in DOMAIN b /\ Len(a) + (i - Len(a)) = i
        BY <3>1, <3>3
      <4>2. l[i] = b[i - Len(a)]
        BY <1>3, <3>1, <4>1 DEF Joined
      <4> QED
        BY <1>2, <4>1, <4>2
    <3> QED
      BY <3>1, <3>2, <3>3
  <2> QED
    BY <2>1
<1> QED
  BY <1>4, <1>6, <1>7, <1>8 DEF Tells

\* What is said of fewer replicas is said.
LEMMA TellsLess ==
  ASSUME NEW s, NEW d, NEW S, NEW Q, NEW P, NEW m, NEW n, Tells(s, d, S, m, Q, n),
         d \in DOMAIN n.connection =>
           \A r \in P : Owns(s, r) /\ r \in Range(n.connection[d].constructed) => r \in Q
  PROVE  Tells(s, d, S, m, P, n)
<1>1. \A r \in Replica : \A z : Owns(s, r) /\ Fits(s, d, Q, n, r, z) => Fits(s, d, P, n, r, z)
  <2>1. CASE d \in DOMAIN n.connection
    BY <2>1 DEF Fits
  <2>2. CASE d \notin DOMAIN n.connection
    BY <2>2 DEF Fits
  <2> QED
    BY <2>1, <2>2
<1>2. PICK a \in Seq(Message) :
        /\ n.out[d] = m.out[d] \o a
        /\ \A i \in DOMAIN a : MessageOK(s, a[i])
        /\ \A r \in Replica : \A y : Owns(s, r) /\ Fits(s, d, S, m, r, y) =>
             \E z : Leads(a, r, y, z) /\ Fits(s, d, Q, n, r, z)
  BY DEF Tells
<1>3. \A r \in Replica : \A y : Owns(s, r) /\ Fits(s, d, S, m, r, y) =>
        \E z : Leads(a, r, y, z) /\ Fits(s, d, P, n, r, z)
  BY <1>1, <1>2
<1> QED
  BY <1>2, <1>3 DEF Tells

\* Tended is transitive.
LEMMA TendedOn ==
  ASSUME NEW s, NEW m, NEW n, NEW k, Tended(s, m, n), Tended(s, n, k)
  PROVE  Tended(s, m, k)
  BY DEF Tended

\* Once d is confirmed, it has been sent all that it is to have of s.
Listed(s, d, n) ==
  n.connection[d].isValidated =>
    \A r \in DOMAIN n.replica :
      Creates(s, d, n, r) => r \in Range(n.connection[d].constructed)

\* AutoConstructByQuery tells d what it lists from now on.
LEMMA AutoOwned ==
  ASSUME OneOwner(policy), HiddenOK, NEW s \in System, NEW R \in SUBSET Replica,
         NEW D \in SUBSET System, NEW d \in D, NEW m \in ManagerIn(s, R, D), OwnerOK(s, m)
  PROVE  LET n == AutoConstructByQuery(s, d, m) IN
         /\ n.replica = m.replica /\ Tended(s, m, n) /\ Listed(s, d, n)
         /\ \A e \in System : Tells(s, e, Latest(m, e), m, Latest(n, e), n)
         /\ \A e \in D : e # d => n.connection[e] = m.connection[e]
<1> DEFINE c == m.connection[d]
           done == ListLoop(s, d, m, c)
           k == [m EXCEPT !.connection[d] = done]
           new == ListedNew(s, d, m, c)
           gone == ListedGone(s, d, c)
           n == SendConstruction(s, d, k, new, gone)
           New == Range(new)
           Gone == Range(gone)
<1>0. /\ DOMAIN m.replica = R /\ DOMAIN m.connection = D /\ c \in ConnectionIn(s, R)
      /\ d \in System /\ \A e \in System : m.out[e] \in Seq(Message)
  BY ManagerParts
<1>1. AutoConstructByQuery(s, d, m) = IF c.isValidated THEN n ELSE m
  BY OwnerAnswers DEF AutoConstructByQuery
<1>2. CASE ~c.isValidated
  <2>1. \A e \in System : Tells(s, e, Latest(m, e), m, Latest(m, e), m)
    BY <1>0, TellsAsBefore
  <2>2. Tended(s, m, m) /\ Listed(s, d, m)
    BY <1>2 DEF Tended, Listed
  <2> QED
    BY <1>1, <1>2, <2>1, <2>2
<1>3. CASE c.isValidated
  <2>1. /\ done \in ConnectionIn(s, R) /\ done.isValidated = c.isValidated
        /\ New = {r \in R : Creates(s, d, m, r) /\ r \notin Range(c.constructed)}
        /\ Gone = {r \in Range(c.constructed) : <<s, d, r>> \in hidden}
        /\ Range(done.constructed) = (Range(c.constructed) \cup New) \ Gone
        /\ Range(done.serialize) = (Range(c.serialize) \cup New) \ Gone
        /\ \A r \in Replica : r \notin Gone =>
             done.lastResult[r] = IF r \in New THEN 0 ELSE c.lastResult[r]
        /\ SameGroup(c, done)
    BY ListLoopLeaves
  <2>2. new \in Seq(R) /\ IsInjective(new) /\ gone \in Seq(R)
    <3>1. ~Queries(s)
      BY OwnerAnswers
    <3>2. IsFiniteSet(R)
      BY ManagerAssumption, FS_Subset
    <3> QED
      BY <1>0, <3>1, <3>2, ListLoopLists
  <2>3. k \in ManagerIn(s, R, D)
    BY <2>1, ConnectionChanged
  <2>4. /\ k.replica = m.replica /\ k.out = m.out /\ k.connection[d] = done
        /\ \A e \in D : e # d => k.connection[e] = m.connection[e]
    BY DEF ManagerIn
  <2>5. \A r \in R : Creates(s, d, m, r) <=> <<s, d, r>> \notin hidden /\ m.replica[r].creator = s
    BY OwnerAnswers
  <2>6. \A r : Creates(s, d, k, r) <=> Creates(s, d, m, r)
    BY <2>4 DEF Creates, ConstructionState
  <2> HIDE DEF c, done, k, new, gone
  <2>7. \A r \in R : /\ Owns(m.replica[r].creator, r)
                     /\ m.replica[r].version \in Nat
                     /\ m.replica[r].creator = s => m.replica[r].version > 0
    BY <1>0, ManagerParts DEF OwnerOK, ObjectsOK, Objects
  <2>8. \A r \in New : /\ r \in R /\ Creates(s, d, k, r) /\ Owns(s, r)
                       /\ k.replica[r].creator = s /\ k.replica[r].version > 0
                       /\ r \notin Range(c.constructed)
    BY <2>1, <2>4, <2>5, <2>6, <2>7
  <2>9. Range(c.constructed) \subseteq R
    BY <1>0, ConnectionLists
  <2>10. \A r \in Gone : Owns(s, r) /\ r \in R
    BY <1>0, <2>1, <2>9 DEF HiddenOK
  <2>11. New \cap Gone = {}
    BY <2>1
  <2>12. PICK more \in Seq(Message) :
           /\ n.out[d] = k.out[d] \o more
           /\ \A i \in DOMAIN more : MessageOK(s, more[i])
           /\ \A r \in Replica : \A y : (r \in New => y = None) =>
                Leads(more, r, y, IF r \in Gone THEN None
                                  ELSE IF r \notin New THEN y
                                  ELSE IF r \in Uniquely THEN 0 ELSE k.replica[r].version)
    <3>1. \A r \in Range(new) : /\ Creates(s, d, k, r) /\ Owns(s, r)
                                 /\ k.replica[r].creator = s /\ k.replica[r].version > 0
      BY <2>8
    <3>2. \A r \in Range(gone) : Owns(s, r)
      BY <2>10
    <3>3. Range(new) \cap Range(gone) = {}
      BY <2>11
    <3>4. new \in Seq(R) /\ gone \in Seq(R) /\ IsInjective(new)
      BY <2>2
    <3>5. Constructs(s, d, k, Range(new), Range(gone), n)
      BY <2>3, <3>1, <3>2, <3>3, <3>4, ConstructionSent
    <3> QED
      BY <3>5 DEF Constructs
  <2>13. /\ n.replica = k.replica /\ DOMAIN n.connection = D
         /\ \A e \in System : e # d => n.out[e] = k.out[e]
         /\ \A e \in D : e # d => n.connection[e] = k.connection[e]
         /\ n.connection[d].constructed = k.connection[d].constructed
         /\ n.connection[d].serialize = k.connection[d].serialize
         /\ n.connection[d].lastResult = k.connection[d].lastResult
         /\ SameGroup(k.connection[d], n.connection[d])
    BY <2>3, ConstructionElse
  <2> HIDE DEF n
  <2>14. /\ n.replica = m.replica
         /\ \A e \in System : e # d => n.out[e] = m.out[e]
         /\ \A e \in D : e # d => n.connection[e] = m.connection[e]
    BY <2>4, <2>13
  <2> DEFINE a == n.connection[d]
  <2>15. /\ Range(a.constructed) = (Range(c.constructed) \cup New) \ Gone
         /\ Range(a.serialize) = (Range(c.serialize) \cup New) \ Gone
         /\ \A r \in Replica : r \notin Gone =>
              a.lastResult[r] = IF r \in New THEN 0 ELSE c.lastResult[r]
         /\ SameGroup(c, a)
    BY <2>1, <2>4, <2>13 DEF SameGroup
  <2> HIDE DEF a, New, Gone
  <2>16. {s, d} \in Link[policy] /\ d # s
    <3>1. {s, d} \in Link[policy]
      BY <1>0 DEF OwnerOK, ConnectionOK
    <3>2. policy \in Policies
      BY DEF OneOwner, Policies
    <3> QED
      BY <3>1, <3>2, ManagerAssumption
  <2>17. \A r \in Replica : ~Owns(s, r) => (r \in Range(a.constructed) <=> r \in Range(c.constructed))
    BY <2>8, <2>10, <2>15
  <2>18. ObjectsOK(s, n)
    <3>1. ASSUME NEW r \in R, m.replica[r].creator # s
          PROVE  /\ m.replica[r].creator \in D
                 /\ r \in Range(n.connection[m.replica[r].creator].constructed)
      <4>1. /\ m.replica[r].creator \in D
            /\ r \in Range(m.connection[m.replica[r].creator].constructed)
        BY <1>0, <3>1 DEF OwnerOK, ObjectsOK
      <4>2. ~Owns(s, r)
        BY <2>7, <3>1, OwnersAgree
      <4> QED
        BY <2>14, <2>17, <4>1, <4>2 DEF a, c
    <3> QED
      BY <1>0, <2>13, <2>14, <3>1 DEF OwnerOK, ObjectsOK
  <2>19. ASSUME NEW e \in D PROVE ConnectionOK(s, e, n)
    <3>1. ConnectionOK(s, e, m)
      BY <1>0 DEF OwnerOK
    <3>2. CASE e # d
      BY <2>14, <3>1, <3>2 DEF ConnectionOK
    <3>3. CASE e = d
      <4>1. /\ {s, d} \in Link[policy]
            /\ \A i \in DOMAIN c.downloadGroup : MessageOK(d, c.downloadGroup[i])
            /\ s \notin Grouping => ~c.groupConstructionAndSerialize
            /\ \A r \in Range(c.constructed) :
                 /\ Owns(s, r) \/ Owns(d, r)
                 /\ Owns(s, r) => r \in Range(c.serialize) /\ c.lastResult[r] =< m.replica[r].version
        BY <3>1, <3>3 DEF ConnectionOK, c
      <4>2. ASSUME NEW r \in Range(a.constructed)
            PROVE  /\ Owns(s, r) \/ Owns(d, r)
                   /\ Owns(s, r) => r \in Range(a.serialize) /\ a.lastResult[r] =< n.replica[r].version
        <5>1. (r \in Range(c.constructed) \/ r \in New) /\ r \notin Gone
          BY <2>15
        <5>2. r \in R /\ r \in Replica
          BY <2>8, <2>9, <5>1
        <5>3. CASE r \in New
          BY <2>7, <2>8, <2>14, <2>15, <5>1, <5>2, <5>3
        <5>4. CASE r \notin New
          BY <2>14, <2>15, <4>1, <5>1, <5>2, <5>4
        <5> QED
          BY <5>3, <5>4
      <4> QED
        BY <2>15, <3>3, <4>1, <4>2 DEF ConnectionOK, SameGroup, a
    <3> QED
      BY <3>2, <3>3
  <2>20. Tended(s, m, n)
    <3>1. \A e \in D, r \in Replica : ~Owns(s, r) =>
            (r \in Range(n.connection[e].constructed) <=> r \in Range(m.connection[e].constructed))
      BY <2>14, <2>17 DEF a, c
    <3>2. OwnerOK(s, n)
      BY <2>13, <2>18, <2>19 DEF OwnerOK
    <3> QED
      BY <1>0, <2>13, <2>14, <3>1, <3>2 DEF Tended
  <2>21. Listed(s, d, n)
    <3>1. ASSUME NEW r \in R, Creates(s, d, n, r) PROVE r \in Range(a.constructed)
      <4>1. Creates(s, d, m, r)
        BY <2>14, <3>1 DEF Creates, ConstructionState
      <4>2. r \notin Gone
        BY <2>1, <2>5, <4>1
      <4>3. r \in New \/ r \in Range(c.constructed)
        BY <2>1, <4>1
      <4> QED
        BY <2>15, <4>2, <4>3
    <3> QED
      BY <1>0, <2>14, <3>1 DEF Listed, a
  <2>22. ASSUME NEW e \in System, e # d PROVE Tells(s, e, Latest(m, e), m, Latest(n, e), n)
    <3>1. /\ n.out[e] = m.out[e] /\ m.out[e] \in Seq(Message) /\ n.replica = m.replica
          /\ DOMAIN n.connection = DOMAIN m.connection
          /\ e \in DOMAIN m.connection => n.connection[e] = m.connection[e]
      BY <1>0, <2>13, <2>14, <2>22
    <3> QED
      BY <3>1, TellsAsBefore
  <2>23. Tells(s, d, Latest(m, d), m, Latest(n, d), n)
    <3>1. n.out[d] = m.out[d] \o more
      BY <2>4, <2>12
    <3>2. ASSUME NEW r \in Replica, NEW y, Owns(s, r), Fits(s, d, Latest(m, d), m, r, y)
          PROVE  \E z : Leads(more, r, y, z) /\ Fits(s, d, Latest(n, d), n, r, z)
      <4> DEFINE z == IF r \in Gone THEN None ELSE IF r \notin New THEN y
                      ELSE IF r \in Uniquely THEN 0 ELSE m.replica[r].version
      <4>1. IF r \in Range(c.constructed)
            THEN Whole(s, d) => y # None /\ (r \in Latest(m, d) => y = m.replica[r].version)
            ELSE y = None
        BY <1>0, <3>2 DEF Fits, c
      <4>2. r \in New => y = None
        BY <2>8, <4>1
      <4>3. Leads(more, r, y, z)
        BY <2>4, <2>12, <4>2
      <4>4. r \in Latest(n, d) <=>
              m.replica[r].version = IF r \in Uniquely THEN a.lastResult[r] ELSE m.replica[r].lastSent
        BY <2>14 DEF Latest, a
      <4>5. IF r \in Range(a.constructed)
            THEN Whole(s, d) => z # None /\ (r \in Latest(n, d) => z = m.replica[r].version)
            ELSE z = None
        <5>1. CASE r \in Gone
          BY <2>15, <5>1
        <5>2. CASE r \in New
          <6>1. r \in Range(a.constructed) /\ r \notin Gone
            BY <2>11, <2>15, <5>2
          <6>2. r \in Uniquely => r \notin Latest(n, d)
            <7>1. a.lastResult[r] = 0 /\ m.replica[r].version > 0
              BY <2>4, <2>8, <2>15, <5>2, <6>1
            <7> QED
              BY <4>4, <7>1
          <6>3. z # None /\ (r \notin Uniquely => z = m.replica[r].version)
            BY <2>7, <2>8, <5>2, <6>1 DEF None
          <6> HIDE DEF z
          <6> QED
            BY <6>1, <6>2, <6>3, <5>2 DEF None, z
        <5>3. CASE r \notin Gone /\ r \notin New
          <6>1. z = y /\ (r \in Range(a.constructed) <=> r \in Range(c.constructed))
            BY <2>15, <5>3
          <6>2. r \in Latest(n, d) => r \in Latest(m, d)
            <7>1. a.lastResult[r] = c.lastResult[r]
              BY <2>15, <5>3
            <7> QED
              BY <4>4, <7>1 DEF Latest, c
          <6> HIDE DEF z
          <6> QED
            BY <4>1, <6>1, <6>2
        <5> QED
          BY <5>1, <5>2, <5>3
      <4> HIDE DEF z
      <4>6. Fits(s, d, Latest(n, d), n, r, z)
        BY <2>14, <4>5 DEF Fits, a
      <4> QED
        BY <4>3, <4>6
    <3> QED
      BY <2>12, <3>1, <3>2 DEF Tells
  <2> QED
    BY <1>1, <1>3, <2>14, <2>20, <2>21, <2>22, <2>23
<1> QED
  BY <1>2, <1>3

\* What Built goes through.
BuiltSteps(g, s, R, D, m, peers) ==
  /\ g \in [0..Len(peers) -> ManagerIn(s, R, D)] /\ g[0] = m /\ g[Len(peers)] = Built(s, m, peers)
  /\ \A k \in 0..Len(peers)-1 : peers[k + 1] \in D /\ g[k + 1] = AutoConstructByQuery(s, peers[k + 1], g[k])

\* Its steps can be taken.
LEMMA BuiltChain ==
  ASSUME NEW s \in System, NEW R \in SUBSET Replica, NEW D \in SUBSET System,
         NEW m \in ManagerIn(s, R, D), NEW peers \in Seq(D)
  PROVE  \E g : BuiltSteps(g, s, R, D, m, peers)
<1> DEFINE X == ManagerIn(s, R, D)
           E == D
           op(x, e) == AutoConstructByQuery(s, e, x)
           step == [p \in X \X E |-> op(p[1], p[2])]
           Is(f) == f = [t \in SUBSET DOMAIN peers |->
                           IF t = {} THEN m ELSE op(f[t \ {Max(t)}], peers[Max(t)])]
           it == CHOOSE f : Is(f)
<1>1. \A x \in X, e \in E : op(x, e) \in X
  BY AutoConstructManager, UpkeepSteps
<1>2. Built(s, m, peers) = it[DOMAIN peers]
  BY DEF Built, FoldLeft, MapThenFoldSet
<1>3. m \in X /\ peers \in Seq(E)
  OBVIOUS
<1> HIDE DEF X, E, op
<1>4. step \in [X \X E -> X]
  BY <1>1
<1>5. PICK h, g : FoldsThrough(h, g, X, step, m, peers)
  <2> HIDE DEF step
  <2> QED
    BY <1>3, <1>4, FoldThrough
<1>chain. /\ h \in [SUBSET DOMAIN peers -> X] /\ g \in [0..Len(peers) -> X]
      /\ IsFold(h, step, m, peers) /\ IsChain(g, step, m, peers)
      /\ g[Len(peers)] = h[DOMAIN peers]
  <2> HIDE DEF step
  <2> QED
    BY <1>5 DEF FoldsThrough
<1>6. Is(h)
  <2>1. \A t \in SUBSET DOMAIN peers : t # {} =>
          step[<<h[t \ {Max(t)}], peers[Max(t)]>>] = op(h[t \ {Max(t)}], peers[Max(t)])
    <3>1. ASSUME NEW t \in SUBSET DOMAIN peers, t # {}
          PROVE  h[t \ {Max(t)}] \in X /\ peers[Max(t)] \in E
      <4> HIDE DEF step, Is, it
      <4> QED
        BY <1>3, <1>chain, <3>1, FoldArguments
    <3> QED
      BY <3>1
  <2> HIDE DEF step
  <2> QED
    BY <1>chain, <2>1 DEF IsFold
<1>7. Is(it)
  <2> HIDE DEF Is
  <2> QED
    BY <1>6
<1>8. it[DOMAIN peers] = h[DOMAIN peers]
  <2> HIDE DEF it
  <2>1. DOMAIN peers = 1..Len(peers) /\ Len(peers) \in Nat
    BY <1>3
  <2>2. it[{}] = h[{}]
    BY <1>6, <1>7
  <2>3. \A t \in SUBSET DOMAIN peers :
          t # {} /\ it[t \ {Max(t)}] = h[t \ {Max(t)}] => it[t] = h[t]
    BY <1>6, <1>7
  <2> HIDE DEF Is
  <2> QED
    BY <2>1, <2>2, <2>3, FoldUnique
<1> HIDE DEF it
<1>9. g[Len(peers)] = h[DOMAIN peers]
  BY <1>chain
<1>10. ASSUME NEW k \in 0..Len(peers)-1
       PROVE  /\ g[k] \in X /\ peers[k + 1] \in E
              /\ g[k + 1] = op(g[k], peers[k + 1])
  <2>1. Len(peers) \in Nat /\ DOMAIN peers = 1..Len(peers)
    BY <1>3
  <2>2. k \in 0..Len(peers) /\ k + 1 \in 1..Len(peers)
    BY <2>1
  <2>3. g[k] \in X /\ peers[k + 1] \in E
    BY <1>3, <1>chain, <2>2
  <2>4. g[k + 1] = step[<<g[k], peers[k + 1]>>]
    <3> HIDE DEF step
    <3> QED
      BY <1>chain DEF IsChain
  <2> QED
    BY <2>3, <2>4
<1>11. g[0] = m
  <2> HIDE DEF step
  <2> QED
    BY <1>chain DEF IsChain
<1> HIDE DEF step, Is
<1>12. g \in [0..Len(peers) -> X]
  BY <1>chain
<1> QED
  BY <1>2, <1>8, <1>9, <1>10, <1>11, <1>12 DEF X, E, op, BuiltSteps

\* The construction of an Update.
LEMMA BuiltOwned ==
  ASSUME OneOwner(policy), HiddenOK, NEW s \in System, NEW R \in SUBSET Replica,
         NEW D \in SUBSET System, NEW m \in ManagerIn(s, R, D), OwnerOK(s, m), NEW peers \in Seq(D)
  PROVE  LET n == Built(s, m, peers) IN
         /\ n.replica = m.replica /\ Tended(s, m, n)
         /\ \A e \in System : Tells(s, e, Latest(m, e), m, Latest(n, e), n)
         /\ \A e \in Range(peers) : Listed(s, e, n)
<1>0. PICK g : BuiltSteps(g, s, R, D, m, peers)
  BY BuiltChain
<1>1. /\ g \in [0..Len(peers) -> ManagerIn(s, R, D)] /\ g[0] = m
      /\ g[Len(peers)] = Built(s, m, peers)
      /\ \A k \in 0..Len(peers)-1 : /\ peers[k + 1] \in D
                                    /\ g[k + 1] = AutoConstructByQuery(s, peers[k + 1], g[k])
  BY <1>0 DEF BuiltSteps
<1> DEFINE n == Len(peers)
           Done(k) == {peers[i] : i \in 1..k}
           Good(k) == /\ g[k].replica = m.replica /\ Tended(s, m, g[k])
                      /\ \A e \in System : Tells(s, e, Latest(m, e), m, Latest(g[k], e), g[k])
                      /\ \A e \in Done(k) : Listed(s, e, g[k])
           T == {k \in 0..n : Good(k)}
<1>2. n \in Nat /\ DOMAIN peers = 1..n
  OBVIOUS
<1>3. 0 \in T
  <2>1. Done(0) = {}
    OBVIOUS
  <2>2. \A e \in System : Tells(s, e, Latest(m, e), m, Latest(m, e), m)
    BY ManagerParts, TellsAsBefore
  <2>3. Tended(s, m, m)
    BY DEF Tended
  <2> QED
    BY <1>1, <1>2, <2>1, <2>2, <2>3
<1>4. ASSUME NEW k \in 0..n-1, k \in T PROVE k + 1 \in T
  <2>1. k + 1 \in 0..n /\ k \in 0..n /\ 1..k+1 = (1..k) \cup {k + 1}
    BY <1>2
  <2>2. Done(k + 1) = Done(k) \cup {peers[k + 1]} /\ Good(k)
    BY <1>4, <2>1
  <2> HIDE DEF Done, T
  <2> DEFINE a == g[k]
             b == g[k + 1]
             d == peers[k + 1]
  <2>3. a \in ManagerIn(s, R, D) /\ b \in ManagerIn(s, R, D) /\ d \in D
        /\ b = AutoConstructByQuery(s, d, a) /\ OwnerOK(s, a)
    BY <1>1, <2>1, <2>2 DEF Tended
  <2>4. /\ a.replica = m.replica /\ Tended(s, m, a)
        /\ \A e \in System : Tells(s, e, Latest(m, e), m, Latest(a, e), a)
        /\ \A e \in Done(k) : Listed(s, e, a)
    BY <2>2
  <2> HIDE DEF a, b, d, Good
  <2>5. /\ b.replica = a.replica /\ Tended(s, a, b) /\ Listed(s, d, b)
        /\ \A e \in System : Tells(s, e, Latest(a, e), a, Latest(b, e), b)
        /\ \A e \in D : e # d => b.connection[e] = a.connection[e]
    BY <2>3, AutoOwned
  <2>6. Tended(s, m, b)
    BY <2>4, <2>5, TendedOn
  <2>7. ASSUME NEW e \in System PROVE Tells(s, e, Latest(m, e), m, Latest(b, e), b)
    <3>1. m.out[e] \in Seq(Message)
      BY ManagerParts
    <3> QED
      BY <2>4, <2>5, <3>1, TellsOn
  <2>8. ASSUME NEW e \in Done(k + 1) PROVE Listed(s, e, b)
    <3>1. CASE e = d
      BY <2>5, <3>1
    <3>2. CASE e # d
      <4>1. e \in Done(k)
        BY <2>2, <2>8, <3>2 DEF d
      <4>2. e \in D
        <5>1. PICK i \in 1..k : e = peers[i]
          BY <4>1 DEF Done
        <5>2. i \in 1..n
          BY <2>1, <5>1
        <5> QED
          BY <5>1, <5>2
      <4>3. b.connection[e] = a.connection[e]
        BY <2>5, <3>2, <4>2
      <4> QED
        BY <2>4, <2>5, <4>1, <4>3 DEF Listed, Creates, ConstructionState
    <3> QED
      BY <3>1, <3>2
  <2>9. Good(k + 1)
    BY <2>4, <2>5, <2>6, <2>7, <2>8 DEF Good, b
  <2> QED
    BY <2>1, <2>9 DEF T
<1>5. n \in T
  <2> HIDE DEF T
  <2>1. \A k \in 0..n : k \in T
    BY <1>2, <1>3, <1>4, FiniteInduction
  <2> QED
    BY <1>2, <2>1
<1>6. Done(n) = Range(peers)
  BY <1>2 DEF Range
<1>7. Good(n)
  BY <1>5
<1> HIDE DEF Done
<1> QED
  BY <1>1, <1>6, <1>7

\* The replicas whose state d had been sent when a tick with lastSent began,
\* or has been sent to it alone.
Now(lastSent, n, d) ==
  {r \in Replica : n.replica[r].version =
     (IF r \in Uniquely THEN n.connection[d].lastResult[r] ELSE lastSent[r])}

\* The connections D have constructed the same.
SameConstructed(D, m, n) ==
  \A e \in D : n.connection[e].constructed = m.connection[e].constructed

\* d is told of the state of r, if it has not been.
Serialized(d, r, lastSent, m, n) ==
  /\ DOMAIN n.replica = DOMAIN m.replica /\ DOMAIN n.connection = DOMAIN m.connection
  /\ \A x \in DOMAIN m.replica :
       /\ n.replica[x].version = m.replica[x].version
       /\ n.replica[x].creator = m.replica[x].creator
       /\ n.replica[x].lastSent = m.replica[x].lastSent
            \/ n.replica[x].lastSent = n.replica[x].version
  /\ \A e \in DOMAIN m.connection : e # d => n.connection[e] = m.connection[e]
  /\ \A e \in System : e # d => n.out[e] = m.out[e]

\* What serializing r changes of the connection it is for.
ConnectionSerialized(s, r, c, n, v) ==
  /\ n.constructed = c.constructed
  /\ \A x \in Range(c.serialize) : Owns(s, x) => x \in Range(n.serialize)
  /\ \A x \in Replica : n.lastResult[x] = c.lastResult[x] \/ (x = r /\ n.lastResult[x] = v)
  /\ SameGroup(c, n)

\* What is sent of it.
SerializeSent(s, d, r, lastSent, m, n) ==
  \/ n.out[d] = m.out[d] /\ (Owns(s, r) => r \in Now(lastSent, m, d))
  \/ n.out[d] = Append(m.out[d], Serialize(m, r)) /\ Owns(s, r)

\* What SendSerializeIfChanged changes ...
LEMMA SerializeLeaves ==
  ASSUME OneOwner(policy), NEW s \in System, NEW R \in SUBSET Replica, NEW D \in SUBSET System,
         NEW d \in D, NEW m \in ManagerIn(s, R, D), OwnerOK(s, m), NEW r \in R, NEW lastSent
  PROVE  LET n == SendSerializeIfChanged(s, d, m, r, lastSent) IN
         /\ Serialized(d, r, lastSent, m, n)
         /\ ConnectionSerialized(s, r, m.connection[d], n.connection[d], m.replica[r].version)
         /\ SerializeSent(s, d, r, lastSent, m, n)
<1> DEFINE c == m.connection[d]
           v == m.replica[r].version
           last == IF r \in Uniquely THEN c.lastResult[r] ELSE lastSent[r]
           never == [m EXCEPT !.connection[d] = OnNeverSerialize(@, r)]
           sent == SendTo(m, d, Serialize(m, r))
           apart == [sent EXCEPT !.connection[d].lastResult[r] = v]
           shared == [sent EXCEPT !.replica[r].lastSent = v]
           n == SendSerializeIfChanged(s, d, m, r, lastSent)
<1>1. /\ DOMAIN m.replica = R /\ DOMAIN m.connection = D /\ c \in ConnectionIn(s, R)
      /\ d \in System /\ r \in Replica /\ m.replica[r] \in Objects
      /\ c \in ConnectionOf(R)
  BY ManagerParts DEF ConnectionIn
<1>2. Asked(s, d, m, r) = IF m.replica[r].creator = s THEN "CallSerialize" ELSE "NeverCallSerialize"
  BY OneOwner(policy) DEF OneOwner, Asked, QuerySerialization
<1>3. Owns(m.replica[r].creator, r) /\ (m.replica[r].creator = s => v > 0)
  BY <1>1 DEF OwnerOK, ObjectsOK
<1>4. Owns(s, r) <=> m.replica[r].creator = s
  BY <1>1, <1>3, OwnersAgree
<1>5. CASE m.replica[r].creator # s
  <2>1. n = never
    <3>1. Asked(s, d, m, r) = "NeverCallSerialize"
      BY <1>2, <1>5
    <3> QED
      BY <3>1 DEF SendSerializeIfChanged
  <2> HIDE DEF n
  <2> DEFINE a == OnNeverSerialize(c, r)
  <2>2. /\ never.replica = m.replica /\ DOMAIN never.connection = D /\ never.out = m.out
        /\ never.connection[d] = a
        /\ \A e \in D : e # d => never.connection[e] = m.connection[e]
    BY DEF ManagerIn
  <2>3. /\ a.constructed = c.constructed /\ a.serialize = RemoveFirst(c.serialize, r)
        /\ a.lastResult = c.lastResult /\ SameGroup(c, a)
    BY <1>1 DEF OnNeverSerialize, ConnectionOf, SameGroup
  <2>4. Range(RemoveFirst(c.serialize, r)) = Range(c.serialize) \ {r}
    BY <1>1, ConnectionLists, RemovedList DEF Consistent
  <2>5. ~Owns(s, r)
    BY <1>4, <1>5
  <2> HIDE DEF a, never, c
  <2>6. ConnectionSerialized(s, r, c, a, v)
    BY <2>3, <2>4, <2>5 DEF ConnectionSerialized
  <2>7. Serialized(d, r, lastSent, m, never)
    BY <1>1, <2>2 DEF Serialized
  <2> QED
    BY <1>1, <2>1, <2>2, <2>5, <2>6, <2>7 DEF SerializeSent, c, n, v
<1>6. CASE m.replica[r].creator = s /\ v = last
  <2>1. n = m
    BY <1>2, <1>6 DEF SendSerializeIfChanged
  <2>2. r \in Now(lastSent, m, d)
    BY <1>1, <1>6 DEF Now
  <2> HIDE DEF n
  <2>3. ConnectionSerialized(s, r, c, c, v)
    BY DEF ConnectionSerialized, SameGroup
  <2>4. Serialized(d, r, lastSent, m, m)
    BY DEF Serialized
  <2> QED
    BY <1>1, <2>1, <2>2, <2>3, <2>4 DEF SerializeSent, n
<1>7. CASE m.replica[r].creator = s /\ v # last
  <2>1. n = IF r \in Uniquely THEN apart ELSE shared
    <3>1. v # 0
      BY <1>1, <1>3, <1>7 DEF Objects
    <3>2. Asked(s, d, m, r) = "CallSerialize"
      BY <1>2, <1>7
    <3> HIDE DEF sent
    <3> QED
      BY <1>7, <3>1, <3>2 DEF SendSerializeIfChanged, sent
  <2> HIDE DEF n
  <2>2. /\ sent.replica = m.replica /\ sent.connection = m.connection
        /\ sent.out[d] = Append(m.out[d], Serialize(m, r))
        /\ \A e \in System : e # d => sent.out[e] = m.out[e]
    BY <1>1 DEF ManagerIn, SendTo
  <2>3. Owns(s, r)
    BY <1>4, <1>7
  <2>4. CASE r \in Uniquely
    <3> DEFINE a == [c EXCEPT !.lastResult[r] = v]
    <3>1. /\ apart.replica = m.replica /\ DOMAIN apart.connection = D /\ apart.out = sent.out
          /\ apart.connection[d] = a
          /\ \A e \in D : e # d => apart.connection[e] = m.connection[e]
      <4>1. sent \in [replica : {m.replica}, connection : {m.connection}, out : {sent.out}]
        BY DEF SendTo, ManagerIn
      <4> HIDE DEF sent
      <4> QED
        BY <1>1, <2>2, <4>1
    <3>2. /\ a.constructed = c.constructed /\ a.serialize = c.serialize
          /\ a.lastResult = [c.lastResult EXCEPT ![r] = v] /\ SameGroup(c, a)
          /\ c.lastResult \in [Replica -> Nat]
      BY <1>1 DEF ConnectionOf, SameGroup
    <3>3. \A x \in Replica : a.lastResult[x] = IF x = r THEN v ELSE c.lastResult[x]
      BY <3>2
    <3> HIDE DEF a, apart, c, sent
    <3>4. ConnectionSerialized(s, r, c, a, v)
      BY <3>2, <3>3 DEF ConnectionSerialized
    <3>5. Serialized(d, r, lastSent, m, apart)
      BY <1>1, <2>2, <3>1 DEF Serialized
    <3> QED
      BY <2>1, <2>2, <2>3, <2>4, <3>1, <3>4, <3>5 DEF SerializeSent, c, n, v
  <2>5. CASE r \notin Uniquely
    <3>1. /\ shared.connection = m.connection /\ shared.out = sent.out
          /\ shared.replica = [m.replica EXCEPT ![r].lastSent = v]
      <4>1. sent \in [replica : {m.replica}, connection : {m.connection}, out : {sent.out}]
        BY DEF SendTo, ManagerIn
      <4> HIDE DEF sent
      <4> QED
        BY <1>1, <2>2, <4>1
    <3> HIDE DEF shared, sent
    <3>2. \A x \in R : /\ shared.replica[x].version = m.replica[x].version
                       /\ shared.replica[x].creator = m.replica[x].creator
                       /\ shared.replica[x].lastSent = m.replica[x].lastSent
                            \/ shared.replica[x].lastSent = shared.replica[x].version
      BY <1>1, <3>1, ManagerParts DEF Objects
    <3>3. DOMAIN shared.replica = R
      BY <1>1, <3>1
    <3>4. ConnectionSerialized(s, r, c, c, v)
      BY DEF ConnectionSerialized, SameGroup
    <3>5. Serialized(d, r, lastSent, m, shared)
      BY <1>1, <2>2, <3>1, <3>2, <3>3 DEF Serialized
    <3> QED
      BY <2>1, <2>2, <2>3, <2>5, <3>1, <3>4, <3>5 DEF SerializeSent, n
  <2> QED
    BY <2>4, <2>5
<1> QED
  BY <1>5, <1>6, <1>7

\* ... keeps s an owner, and tells d the state of r.
LEMMA SerializeOwned ==
  ASSUME OneOwner(policy), NEW s \in System, NEW R \in SUBSET Replica, NEW D \in SUBSET System,
         NEW d \in D, NEW m \in ManagerIn(s, R, D), OwnerOK(s, m), NEW r \in R, NEW lastSent
  PROVE  LET n == SendSerializeIfChanged(s, d, m, r, lastSent) IN
         /\ Tended(s, m, n) /\ SameConstructed(D, m, n)
         /\ \A x \in Range(m.connection[d].serialize) :
              Owns(s, x) => x \in Range(n.connection[d].serialize)
         /\ \A e \in System : \A S :
              Tells(s, e, Now(lastSent, m, e) \cup S, m,
                    Now(lastSent, n, e) \cup (IF e = d THEN S \cup {r} ELSE S), n)
<1> DEFINE n == SendSerializeIfChanged(s, d, m, r, lastSent)
           v == m.replica[r].version
           c == m.connection[d]
           a == n.connection[d]
<1>0. /\ DOMAIN m.replica = R /\ DOMAIN m.connection = D /\ d \in System /\ r \in Replica
      /\ \A e \in System : m.out[e] \in Seq(Message)
      /\ \A x \in R : m.replica[x] \in Objects
      /\ c \in ConnectionIn(s, R)
  BY ManagerParts
<1>1. /\ Serialized(d, r, lastSent, m, n)
      /\ ConnectionSerialized(s, r, c, a, v)
      /\ \/ n.out[d] = m.out[d] /\ (Owns(s, r) => r \in Now(lastSent, m, d))
         \/ n.out[d] = Append(m.out[d], Serialize(m, r)) /\ Owns(s, r)
  <2>1. Serialized(d, r, lastSent, m, n)
    BY SerializeLeaves
  <2>2. ConnectionSerialized(s, r, c, a, v)
    BY SerializeLeaves
  <2>3. SerializeSent(s, d, r, lastSent, m, n)
    BY SerializeLeaves
  <2> QED
    BY <2>1, <2>2, <2>3 DEF SerializeSent
<1> HIDE DEF n
<1>2. SameConstructed(D, m, n)
  BY <1>0, <1>1 DEF SameConstructed, Serialized, ConnectionSerialized
<1>3. \A x \in Replica : x \in R \/ x \notin Range(c.constructed)
  BY <1>0, ConnectionLists
<1>4. Tended(s, m, n)
  <2>1. ObjectsOK(s, m) /\ \A e \in D : ConnectionOK(s, e, m)
    BY <1>0 DEF OwnerOK
  <2>2. ObjectsOK(s, n)
    <3>1. ASSUME NEW x \in R
          PROVE  LET o == n.replica[x] IN
                 /\ Owns(o.creator, x)
                 /\ o.creator = s => o.version > 0 /\ o.lastSent =< o.version
                 /\ o.creator # s => /\ o.creator \in DOMAIN n.connection
                                     /\ x \in Range(n.connection[o.creator].constructed)
      <4>1. /\ Owns(m.replica[x].creator, x)
            /\ m.replica[x].creator = s => m.replica[x].version > 0 /\ m.replica[x].lastSent =< m.replica[x].version
            /\ m.replica[x].creator # s =>
                 /\ m.replica[x].creator \in D
                 /\ x \in Range(m.connection[m.replica[x].creator].constructed)
            /\ m.replica[x].version \in Nat
        BY <1>0, <2>1 DEF ObjectsOK, Objects
      <4>2. /\ n.replica[x].version = m.replica[x].version
            /\ n.replica[x].creator = m.replica[x].creator
            /\ n.replica[x].lastSent = m.replica[x].lastSent
                 \/ n.replica[x].lastSent = n.replica[x].version
            /\ DOMAIN n.connection = D
        BY <1>0, <1>1 DEF Serialized
      <4> QED
        BY <1>2, <4>1, <4>2 DEF SameConstructed
    <3>2. DOMAIN n.replica = R
      BY <1>0, <1>1 DEF Serialized
    <3> QED
      BY <3>1, <3>2 DEF ObjectsOK
  <2>3. ASSUME NEW e \in D PROVE ConnectionOK(s, e, n)
    <3>1. ConnectionOK(s, e, m)
      BY <2>1
    <3>2. \A x \in R : n.replica[x].version = m.replica[x].version
      BY <1>0, <1>1 DEF Serialized
    <3>3. m.connection[e] \in ConnectionIn(s, R) /\ Range(m.connection[e].constructed) \subseteq R
      BY ManagerParts, ConnectionLists
    <3>4. CASE e # d
      <4>1. n.connection[e] = m.connection[e]
        BY <1>0, <1>1, <3>4 DEF Serialized
      <4> QED
        BY <3>1, <3>2, <3>3, <4>1 DEF ConnectionOK
    <3>5. CASE e = d
      <4>1. /\ {s, d} \in Link[policy]
            /\ \A i \in DOMAIN c.downloadGroup : MessageOK(d, c.downloadGroup[i])
            /\ s \notin Grouping => ~c.groupConstructionAndSerialize
            /\ \A x \in Range(c.constructed) :
                 /\ Owns(s, x) \/ Owns(d, x)
                 /\ Owns(s, x) => x \in Range(c.serialize) /\ c.lastResult[x] =< m.replica[x].version
        BY <3>1, <3>5 DEF ConnectionOK
      <4>2. /\ a.constructed = c.constructed /\ SameGroup(c, a)
            /\ \A x \in Range(c.serialize) : Owns(s, x) => x \in Range(a.serialize)
            /\ \A x \in Replica : a.lastResult[x] = c.lastResult[x] \/ (x = r /\ a.lastResult[x] = v)
        BY <1>1 DEF ConnectionSerialized
      <4>3. v \in Nat
        BY <1>0 DEF Objects
      <4>4. ASSUME NEW x \in Range(a.constructed), Owns(s, x)
            PROVE  a.lastResult[x] =< n.replica[x].version
        <5>1. x \in Range(c.constructed) /\ x \in R /\ x \in Replica
          BY <3>3, <3>5, <4>2, <4>4
        <5> QED
          BY <3>2, <4>1, <4>2, <4>3, <4>4, <5>1
      <4> HIDE DEF a, c
      <4> QED
        BY <3>5, <4>1, <4>2, <4>4 DEF ConnectionOK, SameGroup, a
    <3> QED
      BY <3>4, <3>5
  <2>4. OwnerOK(s, n)
    BY <1>0, <1>1, <2>2, <2>3 DEF OwnerOK, Serialized
  <2> QED
    BY <1>0, <1>1, <1>2, <2>4 DEF Tended, Serialized, SameConstructed
<1>5. \A x \in Range(c.serialize) : Owns(s, x) => x \in Range(a.serialize)
  BY <1>1 DEF ConnectionSerialized
<1>6. ASSUME NEW e \in System, e # d, NEW S
      PROVE  Tells(s, e, Now(lastSent, m, e) \cup S, m, Now(lastSent, n, e) \cup S, n)
  <2>1. n.out[e] = m.out[e] /\ m.out[e] \in Seq(Message)
    BY <1>0, <1>1, <1>6 DEF Serialized
  <2>2. ASSUME NEW x \in Replica, NEW y, Owns(s, x), Fits(s, e, Now(lastSent, m, e) \cup S, m, x, y)
        PROVE  Fits(s, e, Now(lastSent, n, e) \cup S, n, x, y)
    <3>1. CASE e \notin D
      BY <1>0, <1>1, <3>1 DEF Fits, Serialized
    <3>2. CASE e \in D
      <4>1. n.connection[e] = m.connection[e] /\ DOMAIN n.connection = D
        BY <1>0, <1>1, <1>6, <3>2 DEF Serialized
      <4>2. CASE x \in R
        <5>1. n.replica[x].version = m.replica[x].version
          BY <1>0, <1>1, <4>2 DEF Serialized
        <5> QED
          BY <1>0, <2>2, <3>2, <4>1, <5>1 DEF Fits, Now
      <4>3. CASE x \notin R
        <5>1. x \notin Range(m.connection[e].constructed)
          BY <3>2, <4>3, ManagerParts, ConnectionLists
        <5> QED
          BY <1>0, <2>2, <3>2, <4>1, <5>1 DEF Fits
      <4> QED
        BY <4>2, <4>3
    <3> QED
      BY <3>1, <3>2
  <2> QED
    BY <2>1, <2>2, TellsNothing
<1>7. ASSUME NEW S
      PROVE  Tells(s, d, Now(lastSent, m, d) \cup S, m, Now(lastSent, n, d) \cup (S \cup {r}), n)
  <2> DEFINE P == Now(lastSent, m, d) \cup S
             Q == Now(lastSent, n, d) \cup (S \cup {r})
  <2>1. ASSUME NEW x \in Replica, x # r, NEW y, Owns(s, x), Fits(s, d, P, m, x, y)
        PROVE  Fits(s, d, Q, n, x, y)
    <3>1. DOMAIN n.connection = D /\ a.constructed = c.constructed /\ a.lastResult[x] = c.lastResult[x]
      BY <1>0, <1>1, <2>1 DEF Serialized, ConnectionSerialized
    <3>2. CASE x \in R
      <4>1. n.replica[x].version = m.replica[x].version
        BY <1>0, <1>1, <3>2 DEF Serialized
      <4>2. x \in Q => x \in P
        BY <2>1, <3>1, <4>1 DEF Now
      <4> HIDE DEF P, Q
      <4> QED
        BY <1>0, <2>1, <3>1, <4>1, <4>2 DEF Fits
    <3>3. CASE x \notin R
      <4>1. x \notin Range(c.constructed)
        BY <1>3, <3>3
      <4> HIDE DEF P, Q
      <4> QED
        BY <1>0, <2>1, <3>1, <4>1 DEF Fits
    <3> QED
      BY <3>2, <3>3
  <2>2. n.replica[r].version = v /\ v \in Nat /\ DOMAIN n.connection = D /\ a.constructed = c.constructed
    BY <1>0, <1>1 DEF Serialized, ConnectionSerialized, Objects
  <2>3. CASE n.out[d] = m.out[d] /\ (Owns(s, r) => r \in Now(lastSent, m, d))
    <3>1. ASSUME NEW y, Owns(s, r), Fits(s, d, P, m, r, y) PROVE Fits(s, d, Q, n, r, y)
      <4>1. r \in P
        BY <2>3, <3>1
      <4> HIDE DEF P, Q
      <4> QED
        BY <1>0, <2>2, <3>1, <4>1 DEF Fits
    <3>2. \A x \in Replica : \A y : Owns(s, x) /\ Fits(s, d, P, m, x, y) => Fits(s, d, Q, n, x, y)
      <4> HIDE DEF P, Q
      <4> QED
        BY <2>1, <3>1
    <3> HIDE DEF P, Q
    <3>3. Tells(s, d, P, m, Q, n)
      BY <1>0, <2>3, <3>2, TellsNothing
    <3> QED
      BY <3>3 DEF P, Q
  <2>4. CASE n.out[d] = Append(m.out[d], Serialize(m, r)) /\ Owns(s, r)
    <3> DEFINE p == Serialize(m, r)
               more == <<p>>
    <3>1. p \in Message /\ p.type = "Serialize" /\ p.id = r /\ p.version = v
      BY <1>0, <2>2 DEF Serialize, Message
    <3> HIDE DEF p, P, Q
    <3>2. /\ more \in Seq(Message) /\ n.out[d] = m.out[d] \o more
          /\ \A k \in DOMAIN more : MessageOK(s, more[k])
      <4>1. MessageOK(s, p)
        BY <2>4, <3>1 DEF MessageOK
      <4>2. m.out[d] \o <<p>> = Append(m.out[d], p)
        BY <1>0
      <4> QED
        BY <2>4, <3>1, <4>1, <4>2 DEF p
    <3>3. ASSUME NEW x \in Replica, NEW y, Owns(s, x), Fits(s, d, P, m, x, y)
          PROVE  \E z : Leads(more, x, y, z) /\ Fits(s, d, Q, n, x, z)
      <4>1. ~Gives(p, x) /\ ~Takes(p, x)
        BY <3>1 DEF Gives, Takes, Events
      <4>2. Leads(<<p>>, x, y, Effect(p, x, y))
        BY <4>1, LeadsShort
      <4>3. CASE x # r
        <5>1. Effect(p, x, y) = y
          BY <3>1, <4>1, <4>3 DEF Effect
        <5> QED
          BY <2>1, <3>3, <4>2, <4>3, <5>1
      <4>4. CASE x = r
        <5>1. Effect(p, x, y) = IF y # None THEN v ELSE y
          BY <3>1, <4>1, <4>4 DEF Effect
        <5>2. v # None
          BY <2>2 DEF None
        <5>3. Fits(s, d, Q, n, x, Effect(p, x, y))
          <6> DEFINE z == IF y # None THEN v ELSE y
          <6>1. Fits(s, d, Q, n, x, z)
            <7>1. CASE r \in Range(c.constructed)
              <8>1. Whole(s, d) => z = v
                BY <1>0, <3>3, <4>4, <7>1 DEF Fits
              <8> HIDE DEF z
              <8> QED
                BY <1>0, <2>2, <4>4, <5>2, <7>1, <8>1 DEF Fits
            <7>2. CASE r \notin Range(c.constructed)
              <8>1. z = None
                BY <1>0, <3>3, <4>4, <7>2 DEF Fits
              <8> HIDE DEF z
              <8> QED
                BY <1>0, <2>2, <4>4, <7>2, <8>1 DEF Fits
            <7> QED
              BY <7>1, <7>2
          <6> QED
            BY <5>1, <6>1
        <5> QED
          BY <4>2, <5>3
      <4> QED
        BY <4>3, <4>4
    <3> HIDE DEF more
    <3>4. Tells(s, d, P, m, Q, n)
      BY <3>2, <3>3 DEF Tells
    <3> QED
      BY <3>4 DEF P, Q
  <2> QED
    BY <1>1, <2>3, <2>4
<1>8. ASSUME NEW e \in System, NEW S
      PROVE  Tells(s, e, Now(lastSent, m, e) \cup S, m,
                   Now(lastSent, n, e) \cup (IF e = d THEN S \cup {r} ELSE S), n)
  <2>1. CASE e = d
    BY <1>7, <2>1
  <2>2. CASE e # d
    BY <1>6, <2>2
  <2> QED
    BY <2>1, <2>2
<1> QED
  BY <1>2, <1>4, <1>5, <1>8 DEF n

\* The entries of a connection are serialized.
SerializeAll(s, d, m, list, lastSent) ==
  FoldLeft(LAMBDA n, r : SendSerializeIfChanged(s, d, n, r, lastSent), m, list)

\* One after the other.
SerializeAllSteps(g, s, R, D, m, d, list, lastSent) ==
  /\ g \in [0..Len(list) -> ManagerIn(s, R, D)] /\ g[0] = m /\ g[Len(list)] = SerializeAll(s, d, m, list, lastSent)
  /\ \A k \in 0..Len(list)-1 : list[k + 1] \in R /\ g[k + 1] = SendSerializeIfChanged(s, d, g[k], list[k + 1], lastSent)

\* Its steps can be taken.
LEMMA SerializeAllChain ==
  ASSUME NEW s \in System, NEW R \in SUBSET Replica, NEW D \in SUBSET System,
         NEW m \in ManagerIn(s, R, D), NEW d \in D, NEW list \in Seq(R), NEW lastSent
  PROVE  \E g : SerializeAllSteps(g, s, R, D, m, d, list, lastSent)
<1> DEFINE X == ManagerIn(s, R, D)
           E == R
           op(x, e) == SendSerializeIfChanged(s, d, x, e, lastSent)
           step == [p \in X \X E |-> op(p[1], p[2])]
           Is(f) == f = [t \in SUBSET DOMAIN list |->
                           IF t = {} THEN m ELSE op(f[t \ {Max(t)}], list[Max(t)])]
           it == CHOOSE f : Is(f)
<1>1. \A x \in X, e \in E : op(x, e) \in X
  BY SerializeManager, UpkeepSteps
<1>2. SerializeAll(s, d, m, list, lastSent) = it[DOMAIN list]
  BY DEF SerializeAll, FoldLeft, MapThenFoldSet
<1>3. m \in X /\ list \in Seq(E)
  OBVIOUS
<1> HIDE DEF X, E, op
<1>4. step \in [X \X E -> X]
  BY <1>1
<1>5. PICK h, g : FoldsThrough(h, g, X, step, m, list)
  <2> HIDE DEF step
  <2> QED
    BY <1>3, <1>4, FoldThrough
<1>chain. /\ h \in [SUBSET DOMAIN list -> X] /\ g \in [0..Len(list) -> X]
      /\ IsFold(h, step, m, list) /\ IsChain(g, step, m, list)
      /\ g[Len(list)] = h[DOMAIN list]
  <2> HIDE DEF step
  <2> QED
    BY <1>5 DEF FoldsThrough
<1>6. Is(h)
  <2>1. \A t \in SUBSET DOMAIN list : t # {} =>
          step[<<h[t \ {Max(t)}], list[Max(t)]>>] = op(h[t \ {Max(t)}], list[Max(t)])
    <3>1. ASSUME NEW t \in SUBSET DOMAIN list, t # {}
          PROVE  h[t \ {Max(t)}] \in X /\ list[Max(t)] \in E
      <4> HIDE DEF step, Is, it
      <4> QED
        BY <1>3, <1>chain, <3>1, FoldArguments
    <3> QED
      BY <3>1
  <2> HIDE DEF step
  <2> QED
    BY <1>chain, <2>1 DEF IsFold
<1>7. Is(it)
  <2> HIDE DEF Is
  <2> QED
    BY <1>6
<1>8. it[DOMAIN list] = h[DOMAIN list]
  <2> HIDE DEF it
  <2>1. DOMAIN list = 1..Len(list) /\ Len(list) \in Nat
    BY <1>3
  <2>2. it[{}] = h[{}]
    BY <1>6, <1>7
  <2>3. \A t \in SUBSET DOMAIN list :
          t # {} /\ it[t \ {Max(t)}] = h[t \ {Max(t)}] => it[t] = h[t]
    BY <1>6, <1>7
  <2> HIDE DEF Is
  <2> QED
    BY <2>1, <2>2, <2>3, FoldUnique
<1> HIDE DEF it
<1>9. g[Len(list)] = h[DOMAIN list]
  BY <1>chain
<1>10. ASSUME NEW k \in 0..Len(list)-1
       PROVE  /\ g[k] \in X /\ list[k + 1] \in E
              /\ g[k + 1] = op(g[k], list[k + 1])
  <2>1. Len(list) \in Nat /\ DOMAIN list = 1..Len(list)
    BY <1>3
  <2>2. k \in 0..Len(list) /\ k + 1 \in 1..Len(list)
    BY <2>1
  <2>3. g[k] \in X /\ list[k + 1] \in E
    BY <1>3, <1>chain, <2>2
  <2>4. g[k + 1] = step[<<g[k], list[k + 1]>>]
    <3> HIDE DEF step
    <3> QED
      BY <1>chain DEF IsChain
  <2> QED
    BY <2>3, <2>4
<1>11. g[0] = m
  <2> HIDE DEF step
  <2> QED
    BY <1>chain DEF IsChain
<1> HIDE DEF step, Is
<1>12. g \in [0..Len(list) -> X]
  BY <1>chain
<1> QED
  BY <1>2, <1>8, <1>9, <1>10, <1>11, <1>12 DEF X, E, op, SerializeAllSteps

\* ... and d is told the state of all that s owns there.
LEMMA SerializeToOwned ==
  ASSUME OneOwner(policy), NEW s \in System, NEW R \in SUBSET Replica, NEW D \in SUBSET System,
         NEW d \in D, NEW m \in ManagerIn(s, R, D), OwnerOK(s, m), NEW lastSent
  PROVE  LET n == SerializeTo(s, d, m, lastSent) IN
         /\ Tended(s, m, n) /\ SameConstructed(D, m, n)
         /\ \A S : Tells(s, d, Now(lastSent, m, d) \cup S, m, Replica, n)
         /\ \A e \in System : \A S : e # d =>
              Tells(s, e, Now(lastSent, m, e) \cup S, m, Now(lastSent, n, e) \cup S, n)
<1> DEFINE list == m.connection[d].serialize
           l == Len(list)
<1>0. /\ list \in Seq(R) /\ DOMAIN m.connection = D /\ d \in System
      /\ \A e \in System : m.out[e] \in Seq(Message)
  BY ManagerParts, ConnectionLists
<1>1. SerializeTo(s, d, m, lastSent) = SerializeAll(s, d, m, list, lastSent)
  BY DEF SerializeTo, SerializeAll
<1>2. \A x \in Range(m.connection[d].constructed) : Owns(s, x) => x \in Range(list)
  BY <1>0 DEF OwnerOK, ConnectionOK
<1> HIDE DEF list
<1>3. PICK g : SerializeAllSteps(g, s, R, D, m, d, list, lastSent)
  BY <1>0, SerializeAllChain
<1>4. /\ g \in [0..Len(list) -> ManagerIn(s, R, D)] /\ g[0] = m
      /\ g[Len(list)] = SerializeAll(s, d, m, list, lastSent)
      /\ \A k \in 0..Len(list)-1 : /\ list[k + 1] \in R
           /\ g[k + 1] = SendSerializeIfChanged(s, d, g[k], list[k + 1], lastSent)
  BY <1>3 DEF SerializeAllSteps
<1> DEFINE Done(k) == {list[i] : i \in 1..k}
           All(e, S, k) == IF e = d THEN S \cup Done(k) ELSE S
           Good(k) == /\ Tended(s, m, g[k]) /\ SameConstructed(D, m, g[k])
                      /\ \A e \in System : \A S :
                           Tells(s, e, Now(lastSent, m, e) \cup S, m,
                                 Now(lastSent, g[k], e) \cup All(e, S, k), g[k])
           T == {k \in 0..l : Good(k)}
<1>5. l \in Nat /\ DOMAIN list = 1..l
  BY <1>0
<1>6. 0 \in T
  <2>1. Done(0) = {}
    OBVIOUS
  <2>2. \A e, S : All(e, S, 0) = S
    BY <2>1
  <2>3. Tended(s, m, m) /\ SameConstructed(D, m, m)
    BY DEF Tended, SameConstructed
  <2>4. ASSUME NEW e \in System, NEW S
        PROVE  Tells(s, e, Now(lastSent, m, e) \cup S, m, Now(lastSent, m, e) \cup S, m)
    <3> DEFINE P == Now(lastSent, m, e) \cup S
    <3> HIDE DEF P
    <3>1. m.out[e] \in Seq(Message)
      BY <1>0
    <3>2. Tells(s, e, P, m, P, m)
      BY <3>1, TellsNothing
    <3> QED
      BY <3>2 DEF P
  <2> HIDE DEF All, Done
  <2>5. Good(0)
    BY <1>4, <2>2, <2>3, <2>4
  <2> QED
    BY <1>5, <2>5
<1>7. ASSUME NEW k \in 0..l-1, k \in T PROVE k + 1 \in T
  <2>1. k + 1 \in 0..l /\ k \in 0..l /\ 1..k+1 = (1..k) \cup {k + 1}
    BY <1>5
  <2> DEFINE a == g[k]
             b == g[k + 1]
             r == list[k + 1]
  <2>2. Done(k + 1) = Done(k) \cup {r} /\ Good(k)
    BY <1>7, <2>1
  <2> HIDE DEF Done, T
  <2>3. a \in ManagerIn(s, R, D) /\ b \in ManagerIn(s, R, D) /\ r \in R
        /\ b = SendSerializeIfChanged(s, d, a, r, lastSent)
    BY <1>4, <2>1
  <2>4. /\ Tended(s, m, a) /\ SameConstructed(D, m, a)
        /\ \A e \in System : \A S : Tells(s, e, Now(lastSent, m, e) \cup S, m,
                                      Now(lastSent, a, e) \cup All(e, S, k), a)
    BY <2>2
  <2>5. \A e, S : All(e, S, k + 1) = IF e = d THEN All(e, S, k) \cup {r} ELSE All(e, S, k)
    BY <2>2
  <2>6. OwnerOK(s, a)
    BY <2>4 DEF Tended
  <2> HIDE DEF a, b, r, Good, All
  <2>7. /\ Tended(s, a, b) /\ SameConstructed(D, a, b)
        /\ \A e \in System : \A S : Tells(s, e, Now(lastSent, a, e) \cup S, a,
             Now(lastSent, b, e) \cup (IF e = d THEN S \cup {r} ELSE S), b)
    BY <2>3, <2>6, SerializeOwned
  <2>8. Tended(s, m, b) /\ SameConstructed(D, m, b)
    BY <2>4, <2>7, TendedOn DEF SameConstructed
  <2>9. ASSUME NEW e \in System, NEW S
        PROVE  Tells(s, e, Now(lastSent, m, e) \cup S, m, Now(lastSent, b, e) \cup All(e, S, k + 1), b)
    <3> DEFINE P == Now(lastSent, m, e) \cup S
               Q == Now(lastSent, a, e) \cup All(e, S, k)
               V == Now(lastSent, b, e) \cup All(e, S, k + 1)
    <3>1. Tells(s, e, P, m, Q, a)
      BY <2>4
    <3>2. Tells(s, e, Q, a, V, b)
      BY <2>5, <2>7
    <3> HIDE DEF P, Q, V
    <3>3. Tells(s, e, P, m, V, b)
      BY <1>0, <3>1, <3>2, TellsOn
    <3> QED
      BY <3>3 DEF P, V
  <2>10. Good(k + 1)
    BY <2>8, <2>9 DEF Good, b
  <2> QED
    BY <2>1, <2>10 DEF T
<1>8. l \in T
  <2> HIDE DEF T
  <2>1. \A k \in 0..l : k \in T
    BY <1>5, <1>6, <1>7, FiniteInduction
  <2> QED
    BY <1>5, <2>1
<1>9. Done(l) = Range(list) /\ Good(l)
  BY <1>5, <1>8 DEF Range
<1> DEFINE n == g[l]
<1>10. /\ Tended(s, m, n) /\ SameConstructed(D, m, n)
       /\ \A e \in System : \A S : Tells(s, e, Now(lastSent, m, e) \cup S, m,
            Now(lastSent, n, e) \cup (IF e = d THEN S \cup Range(list) ELSE S), n)
  BY <1>9
<1> HIDE DEF Done, Good, T, All
<1>11. n = SerializeTo(s, d, m, lastSent)
  BY <1>1, <1>4
<1> HIDE DEF n
<1>12. ASSUME NEW S PROVE Tells(s, d, Now(lastSent, m, d) \cup S, m, Replica, n)
  <2> DEFINE P == Now(lastSent, m, d) \cup S
             Q == Now(lastSent, n, d) \cup (S \cup Range(list))
  <2>1. Tells(s, d, P, m, Q, n)
    BY <1>0, <1>10
  <2>2. \A r \in Replica : Owns(s, r) /\ r \in Range(n.connection[d].constructed) => r \in Q
    BY <1>2, <1>10 DEF SameConstructed
  <2> HIDE DEF P, Q
  <2>3. Tells(s, d, P, m, Replica, n)
    BY <2>1, <2>2, TellsLess
  <2> QED
    BY <2>3 DEF P
<1>13. ASSUME NEW e \in System, NEW S, e # d
       PROVE  Tells(s, e, Now(lastSent, m, e) \cup S, m, Now(lastSent, n, e) \cup S, n)
  BY <1>10, <1>13
<1> QED
  BY <1>10, <1>11, <1>12, <1>13

\* What the serialization of an Update goes through.
TickedSteps(g, s, R, D, m, peers, lastSent) ==
  /\ g \in [0..Len(peers) -> ManagerIn(s, R, D)] /\ g[0] = m /\ g[Len(peers)] = Ticked(s, m, peers, lastSent)
  /\ \A k \in 0..Len(peers)-1 : peers[k + 1] \in D /\ g[k + 1] = SerializeTo(s, peers[k + 1], g[k], lastSent)

\* Its steps can be taken.
LEMMA TickedChain ==
  ASSUME NEW s \in System, NEW R \in SUBSET Replica, NEW D \in SUBSET System,
         NEW m \in ManagerIn(s, R, D), NEW peers \in Seq(D), NEW lastSent
  PROVE  \E g : TickedSteps(g, s, R, D, m, peers, lastSent)
<1> DEFINE X == ManagerIn(s, R, D)
           E == D
           op(x, e) == SerializeTo(s, e, x, lastSent)
           step == [p \in X \X E |-> op(p[1], p[2])]
           Is(f) == f = [t \in SUBSET DOMAIN peers |->
                           IF t = {} THEN m ELSE op(f[t \ {Max(t)}], peers[Max(t)])]
           it == CHOOSE f : Is(f)
<1>1. \A x \in X, e \in E : op(x, e) \in X
  BY SerializeToManager, UpkeepSteps
<1>2. Ticked(s, m, peers, lastSent) = it[DOMAIN peers]
  BY DEF Ticked, FoldLeft, MapThenFoldSet
<1>3. m \in X /\ peers \in Seq(E)
  OBVIOUS
<1> HIDE DEF X, E, op
<1>4. step \in [X \X E -> X]
  BY <1>1
<1>5. PICK h, g : FoldsThrough(h, g, X, step, m, peers)
  <2> HIDE DEF step
  <2> QED
    BY <1>3, <1>4, FoldThrough
<1>chain. /\ h \in [SUBSET DOMAIN peers -> X] /\ g \in [0..Len(peers) -> X]
      /\ IsFold(h, step, m, peers) /\ IsChain(g, step, m, peers)
      /\ g[Len(peers)] = h[DOMAIN peers]
  <2> HIDE DEF step
  <2> QED
    BY <1>5 DEF FoldsThrough
<1>6. Is(h)
  <2>1. \A t \in SUBSET DOMAIN peers : t # {} =>
          step[<<h[t \ {Max(t)}], peers[Max(t)]>>] = op(h[t \ {Max(t)}], peers[Max(t)])
    <3>1. ASSUME NEW t \in SUBSET DOMAIN peers, t # {}
          PROVE  h[t \ {Max(t)}] \in X /\ peers[Max(t)] \in E
      <4> HIDE DEF step, Is, it
      <4> QED
        BY <1>3, <1>chain, <3>1, FoldArguments
    <3> QED
      BY <3>1
  <2> HIDE DEF step
  <2> QED
    BY <1>chain, <2>1 DEF IsFold
<1>7. Is(it)
  <2> HIDE DEF Is
  <2> QED
    BY <1>6
<1>8. it[DOMAIN peers] = h[DOMAIN peers]
  <2> HIDE DEF it
  <2>1. DOMAIN peers = 1..Len(peers) /\ Len(peers) \in Nat
    BY <1>3
  <2>2. it[{}] = h[{}]
    BY <1>6, <1>7
  <2>3. \A t \in SUBSET DOMAIN peers :
          t # {} /\ it[t \ {Max(t)}] = h[t \ {Max(t)}] => it[t] = h[t]
    BY <1>6, <1>7
  <2> HIDE DEF Is
  <2> QED
    BY <2>1, <2>2, <2>3, FoldUnique
<1> HIDE DEF it
<1>9. g[Len(peers)] = h[DOMAIN peers]
  BY <1>chain
<1>10. ASSUME NEW k \in 0..Len(peers)-1
       PROVE  /\ g[k] \in X /\ peers[k + 1] \in E
              /\ g[k + 1] = op(g[k], peers[k + 1])
  <2>1. Len(peers) \in Nat /\ DOMAIN peers = 1..Len(peers)
    BY <1>3
  <2>2. k \in 0..Len(peers) /\ k + 1 \in 1..Len(peers)
    BY <2>1
  <2>3. g[k] \in X /\ peers[k + 1] \in E
    BY <1>3, <1>chain, <2>2
  <2>4. g[k + 1] = step[<<g[k], peers[k + 1]>>]
    <3> HIDE DEF step
    <3> QED
      BY <1>chain DEF IsChain
  <2> QED
    BY <2>3, <2>4
<1>11. g[0] = m
  <2> HIDE DEF step
  <2> QED
    BY <1>chain DEF IsChain
<1> HIDE DEF step, Is
<1>12. g \in [0..Len(peers) -> X]
  BY <1>chain
<1> QED
  BY <1>2, <1>8, <1>9, <1>10, <1>11, <1>12 DEF X, E, op, TickedSteps

\* ... and everyone who is asked has been told the state of all.
LEMMA TickedOwned ==
  ASSUME OneOwner(policy), NEW s \in System, NEW R \in SUBSET Replica, NEW D \in SUBSET System,
         NEW m \in ManagerIn(s, R, D), OwnerOK(s, m), NEW peers \in Seq(D), NEW lastSent
  PROVE  LET n == Ticked(s, m, peers, lastSent) IN
         /\ Tended(s, m, n) /\ SameConstructed(D, m, n)
         /\ \A e \in Range(peers) : Tells(s, e, Now(lastSent, m, e), m, Replica, n)
         /\ \A e \in System \ Range(peers) :
              Tells(s, e, Now(lastSent, m, e), m, Now(lastSent, n, e), n)
<1>0. PICK g : TickedSteps(g, s, R, D, m, peers, lastSent)
  BY TickedChain
<1>1. /\ g \in [0..Len(peers) -> ManagerIn(s, R, D)] /\ g[0] = m
      /\ g[Len(peers)] = Ticked(s, m, peers, lastSent)
      /\ \A k \in 0..Len(peers)-1 : /\ peers[k + 1] \in D
                                    /\ g[k + 1] = SerializeTo(s, peers[k + 1], g[k], lastSent)
  BY <1>0 DEF TickedSteps
<1> DEFINE l == Len(peers)
           Done(k) == {peers[i] : i \in 1..k}
           All(e, k) == IF e \in Done(k) THEN Replica ELSE {}
           Good(k) == /\ Tended(s, m, g[k]) /\ SameConstructed(D, m, g[k])
                      /\ \A e \in System : Tells(s, e, Now(lastSent, m, e), m,
                                                 Now(lastSent, g[k], e) \cup All(e, k), g[k])
           T == {k \in 0..l : Good(k)}
<1>2. l \in Nat /\ DOMAIN peers = 1..l
  OBVIOUS
<1>3. \A e \in System : m.out[e] \in Seq(Message)
  BY ManagerParts
<1>4. 0 \in T
  <2>1. Done(0) = {}
    OBVIOUS
  <2>2. \A e : All(e, 0) = {}
    BY <2>1
  <2>3. Tended(s, m, m) /\ SameConstructed(D, m, m)
    BY DEF Tended, SameConstructed
  <2>4. ASSUME NEW e \in System PROVE Tells(s, e, Now(lastSent, m, e), m, Now(lastSent, m, e), m)
    BY <1>3, TellsNothing
  <2>5. \A e : Now(lastSent, m, e) \cup {} = Now(lastSent, m, e)
    OBVIOUS
  <2> HIDE DEF All, Done
  <2>6. Good(0)
    BY <1>1, <2>2, <2>3, <2>4, <2>5
  <2> QED
    BY <1>2, <2>6
<1>5. ASSUME NEW k \in 0..l-1, k \in T PROVE k + 1 \in T
  <2>1. k + 1 \in 0..l /\ k \in 0..l /\ 1..k+1 = (1..k) \cup {k + 1}
    BY <1>2
  <2> DEFINE a == g[k]
             b == g[k + 1]
             d == peers[k + 1]
  <2>2. Done(k + 1) = Done(k) \cup {d} /\ Good(k)
    BY <1>5, <2>1
  <2> HIDE DEF Done, T
  <2>3. a \in ManagerIn(s, R, D) /\ b \in ManagerIn(s, R, D) /\ d \in D /\ d \in System
        /\ b = SerializeTo(s, d, a, lastSent)
    BY <1>1, <2>1
  <2>4. /\ Tended(s, m, a) /\ SameConstructed(D, m, a)
        /\ \A e \in System : Tells(s, e, Now(lastSent, m, e), m,
                                   Now(lastSent, a, e) \cup All(e, k), a)
    BY <2>2
  <2>5. /\ \A e : e # d => All(e, k + 1) = All(e, k)
        /\ All(d, k + 1) = Replica
    BY <2>2
  <2>6. OwnerOK(s, a)
    BY <2>4 DEF Tended
  <2> HIDE DEF a, b, d, Good, All
  <2>7. /\ Tended(s, a, b) /\ SameConstructed(D, a, b)
        /\ \A S : Tells(s, d, Now(lastSent, a, d) \cup S, a, Replica, b)
        /\ \A e \in System : \A S : e # d =>
             Tells(s, e, Now(lastSent, a, e) \cup S, a, Now(lastSent, b, e) \cup S, b)
    BY <2>3, <2>6, SerializeToOwned
  <2>8. Tended(s, m, b) /\ SameConstructed(D, m, b)
    BY <2>4, <2>7, TendedOn DEF SameConstructed
  <2>9. ASSUME NEW e \in System
        PROVE  Tells(s, e, Now(lastSent, m, e), m, Now(lastSent, b, e) \cup All(e, k + 1), b)
    <3> DEFINE P == Now(lastSent, m, e)
               Q == Now(lastSent, a, e) \cup All(e, k)
               V == Now(lastSent, b, e) \cup All(e, k + 1)
    <3>1. Tells(s, e, P, m, Q, a)
      BY <2>4
    <3>2. Tells(s, e, Q, a, V, b)
      <4>1. CASE e = d
        <5>1. Tells(s, d, Now(lastSent, a, d) \cup All(d, k), a, Replica, b)
          BY <2>7
        <5>2. V = Replica
          BY <2>5, <4>1 DEF Now
        <5> QED
          BY <4>1, <5>1, <5>2
      <4>2. CASE e # d
        BY <2>5, <2>7, <4>2
      <4> QED
        BY <4>1, <4>2
    <3> HIDE DEF P, Q, V
    <3>3. Tells(s, e, P, m, V, b)
      BY <1>3, <3>1, <3>2, TellsOn
    <3> QED
      BY <3>3 DEF P, V
  <2>10. Good(k + 1)
    BY <2>8, <2>9 DEF Good, b
  <2> QED
    BY <2>1, <2>10 DEF T
<1>6. l \in T
  <2> HIDE DEF T
  <2>1. \A k \in 0..l : k \in T
    BY <1>2, <1>4, <1>5, FiniteInduction
  <2> QED
    BY <1>2, <2>1
<1>7. Done(l) = Range(peers) /\ Good(l)
  BY <1>2, <1>6 DEF Range
<1> DEFINE n == g[l]
<1>8. /\ Tended(s, m, n) /\ SameConstructed(D, m, n)
      /\ \A e \in System : Tells(s, e, Now(lastSent, m, e), m, Now(lastSent, n, e) \cup
           (IF e \in Range(peers) THEN Replica ELSE {}), n)
  BY <1>7
<1> HIDE DEF Done, Good, T, All
<1>9. n = Ticked(s, m, peers, lastSent)
  BY <1>1
<1> HIDE DEF n
<1>10. ASSUME NEW e \in Range(peers) PROVE Tells(s, e, Now(lastSent, m, e), m, Replica, n)
  <2>1. e \in System
    BY RangeOfList
  <2>2. Now(lastSent, n, e) \cup Replica = Replica
    BY DEF Now
  <2> QED
    BY <1>8, <2>1, <2>2
<1>11. ASSUME NEW e \in System \ Range(peers)
       PROVE  Tells(s, e, Now(lastSent, m, e), m, Now(lastSent, n, e), n)
  <2>1. Now(lastSent, n, e) \cup {} = Now(lastSent, n, e)
    OBVIOUS
  <2> QED
    BY <1>8, <2>1
<1> QED
  BY <1>8, <1>9, <1>10, <1>11

\* An Update keeps s an owner and tells the others what changes; a tick tells
\* them the state of all that they have.
LEMMA UpdateOwned ==
  ASSUME OneOwner(policy), HiddenOK, NEW s \in System, NEW R \in SUBSET Replica,
         NEW D \in SUBSET System, NEW m \in ManagerIn(s, R, D), OwnerOK(s, m), NEW tick
  PROVE  LET n == Update(s, m, tick) IN
         /\ Tended(s, m, n)
         /\ \A e \in System : Tells(s, e, Latest(m, e), m, Latest(n, e), n)
         /\ tick => \A e \in D : Listed(s, e, n) /\ Tells(s, e, Latest(m, e), m, Replica, n)
<1> DEFINE peers == SetToSeq(D)
           built == Built(s, m, peers)
           lastSent == [r \in DOMAIN built.replica |-> built.replica[r].lastSent]
           ticked == Ticked(s, built, peers, lastSent)
<1>1. IsFiniteSet(D)
  BY ManagerAssumption, FS_Subset
<1>2. peers \in Seq(D) /\ Range(peers) = D
  BY <1>1, ListOfSet
<1>3. DOMAIN m.connection = D /\ \A e \in System : m.out[e] \in Seq(Message)
  BY ManagerParts
<1>4. Update(s, m, tick) = IF tick THEN ticked ELSE built
  BY <1>3 DEF Update, Built, Ticked
<1> HIDE DEF peers
<1>5. built \in ManagerIn(s, R, D)
  BY <1>2, BuiltManager, UpkeepSteps
<1>6. /\ Tended(s, m, built) /\ built.replica = m.replica
      /\ \A e \in System : Tells(s, e, Latest(m, e), m, Latest(built, e), built)
      /\ \A e \in D : Listed(s, e, built)
  BY <1>2, BuiltOwned
<1> HIDE DEF built
<1>7. CASE ~tick
  BY <1>4, <1>6, <1>7
<1>8. CASE tick
  <2>0. OwnerOK(s, built) /\ DOMAIN built.connection = D /\ DOMAIN built.replica = R
    BY <1>5, <1>6, ManagerParts DEF Tended
  <2>1. \A r \in R : lastSent[r] = built.replica[r].lastSent
    BY <2>0
  <2> HIDE DEF lastSent
  <2>2. ticked \in Upkeep(s, R, D, built)
    BY <1>2, <1>5, SerializedManager
  <2>3. /\ Tended(s, built, ticked) /\ SameConstructed(D, built, ticked)
        /\ \A e \in D : Tells(s, e, Now(lastSent, built, e), built, Replica, ticked)
        /\ \A e \in System \ D : Tells(s, e, Now(lastSent, built, e), built, Now(lastSent, ticked, e), ticked)
    BY <1>2, <1>5, <2>0, TickedOwned
  <2> HIDE DEF ticked
  <2>4. Tended(s, m, ticked)
    BY <1>6, <2>3, TendedOn
  <2>5. ASSUME NEW e \in System PROVE Tells(s, e, Latest(m, e), m, Now(lastSent, built, e), built)
    <3> DEFINE P == Now(lastSent, built, e)
               Q == Latest(built, e)
    <3>1. ASSUME e \in D, NEW r \in P, r \in Range(built.connection[e].constructed) PROVE r \in Q
      <4>1. r \in R
        BY <1>5, <3>1, ManagerParts, ConnectionLists
      <4> QED
        BY <2>1, <3>1, <4>1 DEF Now, Latest
    <3>2. Tells(s, e, Latest(m, e), m, Q, built)
      BY <1>6
    <3> HIDE DEF P, Q
    <3>3. Tells(s, e, Latest(m, e), m, P, built)
      BY <2>0, <3>1, <3>2, TellsLess
    <3> QED
      BY <3>3 DEF P
  <2>6. ASSUME NEW e \in D
        PROVE  /\ Tells(s, e, Latest(m, e), m, Replica, ticked)
               /\ Tells(s, e, Latest(m, e), m, Latest(ticked, e), ticked)
    <3>1. m.out[e] \in Seq(Message)
      BY <1>3
    <3>2. Tells(s, e, Latest(m, e), m, Replica, ticked)
      BY <2>3, <2>5, <3>1, TellsOn
    <3>3. \A r \in Latest(ticked, e) : r \in Replica
      BY DEF Latest
    <3> QED
      BY <3>2, <3>3, TellsLess
  <2>7. ASSUME NEW e \in System \ D PROVE Tells(s, e, Latest(m, e), m, Latest(ticked, e), ticked)
    <3>1. Tells(s, e, Latest(m, e), m, Now(lastSent, ticked, e), ticked)
      BY <1>3, <2>3, <2>5, TellsOn
    <3>2. e \notin DOMAIN ticked.connection
      BY <2>0, <2>3 DEF Tended
    <3> QED
      BY <3>1, <3>2, TellsLess
  <2>8. ASSUME NEW e \in D PROVE Listed(s, e, ticked)
    <3>1. /\ ticked.connection[e].isValidated = built.connection[e].isValidated
          /\ ticked.connection[e].constructed = built.connection[e].constructed
      BY <2>2, <2>3 DEF Upkeep, SameConstructed
    <3>2. DOMAIN ticked.replica = R /\ \A r \in R : ticked.replica[r].creator = built.replica[r].creator
      BY <2>0, <2>3 DEF Tended
    <3>3. Listed(s, e, built)
      BY <1>6
    <3>4. \A r \in R : Creates(s, e, ticked, r) => Creates(s, e, built, r)
      BY <3>2 DEF Creates, ConstructionState
    <3> QED
      BY <2>0, <3>1, <3>2, <3>3, <3>4 DEF Listed
  <2> QED
    BY <1>4, <1>8, <2>4, <2>6, <2>7, <2>8
<1> QED
  BY <1>7, <1>8

----------------------------------------------------------------------------
(* The handlers *)

\* From m to n only the replicas K may change, and connections may go.
Apart(K, m, n) ==
  /\ DOMAIN n.connection \subseteq DOMAIN m.connection
  /\ \A r \in Replica \ K :
       /\ r \in DOMAIN n.replica <=> r \in DOMAIN m.replica
       /\ r \in DOMAIN m.replica => n.replica[r] = m.replica[r]
       /\ \A e \in DOMAIN n.connection :
            /\ r \in Range(n.connection[e].constructed) <=> r \in Range(m.connection[e].constructed)
            /\ n.connection[e].lastResult[r] = m.connection[e].lastResult[r]

\* The replicas K are gone.
Removed(s, K, m, n) ==
  /\ OwnerOK(s, n) /\ n.out = m.out
  /\ DOMAIN n.connection = DOMAIN m.connection /\ DOMAIN n.replica = DOMAIN m.replica \ K
  /\ \A r \in DOMAIN n.replica : n.replica[r] = m.replica[r]
  /\ \A e \in DOMAIN m.connection :
       /\ Range(n.connection[e].constructed) = Range(m.connection[e].constructed) \ K
       /\ \A r \in Replica \ K : n.connection[e].lastResult[r] = m.connection[e].lastResult[r]

\* The replicas K have come over the connection to d.
Added(s, d, K, m, n) ==
  /\ OwnerOK(s, n) /\ n.out = m.out
  /\ DOMAIN n.connection = DOMAIN m.connection /\ DOMAIN n.replica = DOMAIN m.replica \cup K
  /\ \A r \in DOMAIN n.replica : IF r \in K THEN n.replica[r].version = 0
                                 ELSE n.replica[r] = m.replica[r]
  /\ \A e \in DOMAIN m.connection :
       /\ Range(n.connection[e].constructed)
            = Range(m.connection[e].constructed) \cup (IF e = d THEN K ELSE {})
       /\ \A r \in Replica \ K : n.connection[e].lastResult[r] = m.connection[e].lastResult[r]

\* Replicas may come or go one after another.
LEMMA AddedOn ==
  ASSUME NEW s, NEW d, NEW K, NEW L, NEW m, NEW n, NEW k
  PROVE  /\ Removed(s, K, m, n) /\ Removed(s, L, n, k) => Removed(s, K \cup L, m, k)
         /\ Added(s, d, K, m, n) /\ Added(s, d, L, n, k) => Added(s, d, K \cup L, m, k)
<1>1. ASSUME Removed(s, K, m, n), Removed(s, L, n, k) PROVE Removed(s, K \cup L, m, k)
  BY <1>1 DEF Removed
<1>2. ASSUME Added(s, d, K, m, n), Added(s, d, L, n, k) PROVE Added(s, d, K \cup L, m, k)
  <2>1. /\ OwnerOK(s, k) /\ k.out = m.out
        /\ DOMAIN k.connection = DOMAIN m.connection
        /\ DOMAIN k.replica = DOMAIN m.replica \cup (K \cup L)
    BY <1>2 DEF Added
  <2>2. \A r \in DOMAIN k.replica : IF r \in K \cup L THEN k.replica[r].version = 0
                                    ELSE k.replica[r] = m.replica[r]
    BY <1>2 DEF Added
  <2>3. ASSUME NEW e \in DOMAIN m.connection
        PROVE  /\ Range(k.connection[e].constructed)
                    = Range(m.connection[e].constructed) \cup (IF e = d THEN K \cup L ELSE {})
               /\ \A r \in Replica \ (K \cup L) :
                    k.connection[e].lastResult[r] = m.connection[e].lastResult[r]
    BY <1>2 DEF Added
  <2> QED
    BY <2>1, <2>2, <2>3 DEF Added
<1> QED
  BY <1>1, <1>2

\* Both leave the other replicas alone.
LEMMA AddedApart ==
  ASSUME NEW s, NEW d, NEW K, NEW R \in SUBSET Replica, NEW m, DOMAIN m.replica = R, NEW n,
         Removed(s, K, m, n) \/ Added(s, d, K, m, n)
  PROVE  Apart(K, m, n) /\ n.out = m.out /\ OwnerOK(s, n) /\ DOMAIN n.connection = DOMAIN m.connection
<1>1. CASE Removed(s, K, m, n)
  BY <1>1 DEF Removed, Apart
<1>2. CASE Added(s, d, K, m, n)
  BY <1>2 DEF Added, Apart
<1> QED
  BY <1>1, <1>2

\* ... as often as it is repeated.
LEMMA ApartOn ==
  ASSUME NEW K, NEW m, NEW n, NEW k, Apart(K, m, n), Apart(K, n, k)
  PROVE  Apart(K, m, k)
  BY DEF Apart

\* s has nothing to tell of what it does not own, but that it validates a
\* connection.
LEMMA ApartTells ==
  ASSUME NEW s, NEW R \in SUBSET Replica, NEW D, NEW m \in ManagerIn(s, R, D), NEW K, NEW n,
         Apart(K, m, n), \A r \in K : ~Owns(s, r), NEW e \in System,
         n.out[e] = m.out[e] \/ n.out[e] = Append(m.out[e], Signal("ScopeChange"))
  PROVE  Tells(s, e, Latest(m, e), m, Latest(n, e), n)
<1>1. m.out[e] \in Seq(Message) /\ DOMAIN m.connection = D /\ DOMAIN m.replica = R
  BY ManagerParts
<1>2. ASSUME NEW r \in Replica, NEW y, Owns(s, r), Fits(s, e, Latest(m, e), m, r, y)
      PROVE  Fits(s, e, Latest(n, e), n, r, y)
  <2>1. CASE e \notin DOMAIN n.connection
    BY <2>1 DEF Fits
  <2>2. CASE e \in DOMAIN n.connection
    <3>1. r \notin K /\ e \in D
      BY <1>1, <1>2, <2>2 DEF Apart
    <3>2. /\ r \in Range(n.connection[e].constructed) <=> r \in Range(m.connection[e].constructed)
          /\ n.connection[e].lastResult[r] = m.connection[e].lastResult[r]
          /\ r \in R => n.replica[r] = m.replica[r]
      BY <1>1, <2>2, <3>1 DEF Apart
    <3>3. r \in Range(m.connection[e].constructed) => r \in R
      BY <3>1, ManagerParts, ConnectionLists
    <3>4. r \in R => (r \in Latest(n, e) <=> r \in Latest(m, e))
      BY <3>2 DEF Latest
    <3> QED
      BY <1>1, <1>2, <2>2, <3>1, <3>2, <3>3, <3>4 DEF Fits
  <2> QED
    BY <2>1, <2>2
<1>3. CASE n.out[e] = m.out[e]
  <2> DEFINE S == Latest(m, e)
             Q == Latest(n, e)
  <2>1. \A r \in Replica : \A y : Owns(s, r) /\ Fits(s, e, S, m, r, y) => Fits(s, e, Q, n, r, y)
    BY <1>2
  <2> HIDE DEF S, Q
  <2>2. Tells(s, e, S, m, Q, n)
    BY <1>1, <1>3, <2>1, TellsNothing
  <2> QED
    BY <2>2 DEF S, Q
<1>4. CASE n.out[e] = Append(m.out[e], Signal("ScopeChange"))
  <2> DEFINE p == Signal("ScopeChange")
             more == <<p>>
             c == m.out[e]
  <2>1. p \in Message /\ p.type = "ScopeChange"
    BY DEF Signal, Message
  <2> HIDE DEF p, c
  <2>2. MessageOK(s, p) /\ \A r : ~Gives(p, r) /\ ~Takes(p, r)
    BY <2>1 DEF MessageOK, Gives, Takes, Events
  <2>3. \A r, x : Effect(p, r, x) = x
    BY <2>1, <2>2 DEF Effect
  <2>4. ASSUME NEW r, NEW x PROVE Leads(<<p>>, r, x, x)
    <3>1. Leads(<<p>>, r, x, Effect(p, r, x))
      BY <2>2, LeadsShort
    <3> QED
      BY <2>3, <3>1
  <2>5. Append(c, p) = c \o more
    BY <1>1, <2>1 DEF c
  <2>6. more \in Seq(Message) /\ n.out[e] = m.out[e] \o more /\ \A i \in DOMAIN more : MessageOK(s, more[i])
    BY <1>4, <2>1, <2>2, <2>5 DEF p, c
  <2>7. \A r \in Replica : \A y : Owns(s, r) /\ Fits(s, e, Latest(m, e), m, r, y) =>
          \E z : Leads(more, r, y, z) /\ Fits(s, e, Latest(n, e), n, r, z)
    BY <1>2, <2>4
  <2> HIDE DEF more
  <2> QED
    BY <2>6, <2>7 DEF Tells
<1> QED
  BY <1>3, <1>4

\* The copies of the other replicas stay.
LEMMA ApartCopies ==
  ASSUME NEW s, NEW R \in SUBSET Replica, NEW D, NEW m \in ManagerIn(s, R, D), NEW K, NEW n,
         Apart(K, m, n), NEW e, e \in DOMAIN n.connection <=> e \in D, NEW r \in Replica \ K
  PROVE  CopyIn(n, e, r) = CopyIn(m, e, r)
<1>1. DOMAIN m.connection = D /\ DOMAIN m.replica = R
  BY ManagerParts
<1>2. CASE e \notin D
  BY <1>1, <1>2 DEF CopyIn
<1>3. CASE e \in D
  <2>1. r \in Range(n.connection[e].constructed) <=> r \in Range(m.connection[e].constructed)
    BY <1>3 DEF Apart
  <2>2. r \in Range(m.connection[e].constructed) => r \in R
    BY <1>3, ManagerParts, ConnectionLists
  <2>3. r \in R => n.replica[r] = m.replica[r]
    BY <1>1 DEF Apart
  <2> QED
    BY <1>1, <1>3, <2>1, <2>2, <2>3 DEF CopyIn
<1> QED
  BY <1>2, <1>3

\* What Freed goes through.
FreedSteps(g, s, D, m, list) ==
  /\ g \in [0..Len(list) -> Work(s, D, m)] /\ g[0] = m /\ g[Len(list)] = Freed(m, list)
  /\ \A k \in 0..Len(list)-1 : list[k + 1] \in Replica /\ g[k + 1] = Dereference(g[k], list[k + 1])

\* Its steps can be taken.
LEMMA FreedChain ==
  ASSUME NEW s \in System, NEW R \in SUBSET Replica, NEW D \in SUBSET System,
         NEW m \in ManagerIn(s, R, D), NEW list \in Seq(Replica)
  PROVE  \E g : FreedSteps(g, s, D, m, list)
<1> DEFINE X == Work(s, D, m)
           E == Replica
           op(x, e) == Dereference(x, e)
           step == [p \in X \X E |-> op(p[1], p[2])]
           Is(f) == f = [t \in SUBSET DOMAIN list |->
                           IF t = {} THEN m ELSE op(f[t \ {Max(t)}], list[Max(t)])]
           it == CHOOSE f : Is(f)
<1>1. \A x \in X, e \in E : op(x, e) \in X
  <2> SUFFICES ASSUME NEW x \in X, NEW e \in E PROVE op(x, e) \in X
    OBVIOUS
  <2>1. PICK Q \in SUBSET Replica : x \in ManagerIn(s, Q, D)
    BY WorkDone
  <2>2. op(x, e) \in Work(s, D, x)
    BY <2>1, DereferenceManager
  <2> QED
    BY <2>2, WorkDone
<1>2. Freed(m, list) = it[DOMAIN list]
  BY DEF Freed, FoldLeft, MapThenFoldSet
<1>3. m \in X /\ list \in Seq(E)
  <2>1. m \in Work(s, D, m)
    BY WorkSteps, UpkeepSteps
  <2> QED
    BY <2>1
<1> HIDE DEF X, E, op
<1>4. step \in [X \X E -> X]
  BY <1>1
<1>5. PICK h, g : FoldsThrough(h, g, X, step, m, list)
  <2> HIDE DEF step
  <2> QED
    BY <1>3, <1>4, FoldThrough
<1>chain. /\ h \in [SUBSET DOMAIN list -> X] /\ g \in [0..Len(list) -> X]
      /\ IsFold(h, step, m, list) /\ IsChain(g, step, m, list)
      /\ g[Len(list)] = h[DOMAIN list]
  <2> HIDE DEF step
  <2> QED
    BY <1>5 DEF FoldsThrough
<1>6. Is(h)
  <2>1. \A t \in SUBSET DOMAIN list : t # {} =>
          step[<<h[t \ {Max(t)}], list[Max(t)]>>] = op(h[t \ {Max(t)}], list[Max(t)])
    <3>1. ASSUME NEW t \in SUBSET DOMAIN list, t # {}
          PROVE  h[t \ {Max(t)}] \in X /\ list[Max(t)] \in E
      <4> HIDE DEF step, Is, it
      <4> QED
        BY <1>3, <1>chain, <3>1, FoldArguments
    <3> QED
      BY <3>1
  <2> HIDE DEF step
  <2> QED
    BY <1>chain, <2>1 DEF IsFold
<1>7. Is(it)
  <2> HIDE DEF Is
  <2> QED
    BY <1>6
<1>8. it[DOMAIN list] = h[DOMAIN list]
  <2> HIDE DEF it
  <2>1. DOMAIN list = 1..Len(list) /\ Len(list) \in Nat
    BY <1>3
  <2>2. it[{}] = h[{}]
    BY <1>6, <1>7
  <2>3. \A t \in SUBSET DOMAIN list :
          t # {} /\ it[t \ {Max(t)}] = h[t \ {Max(t)}] => it[t] = h[t]
    BY <1>6, <1>7
  <2> HIDE DEF Is
  <2> QED
    BY <2>1, <2>2, <2>3, FoldUnique
<1> HIDE DEF it
<1>9. g[Len(list)] = h[DOMAIN list]
  BY <1>chain
<1>10. ASSUME NEW k \in 0..Len(list)-1
       PROVE  /\ g[k] \in X /\ list[k + 1] \in E
              /\ g[k + 1] = op(g[k], list[k + 1])
  <2>1. Len(list) \in Nat /\ DOMAIN list = 1..Len(list)
    BY <1>3
  <2>2. k \in 0..Len(list) /\ k + 1 \in 1..Len(list)
    BY <2>1
  <2>3. g[k] \in X /\ list[k + 1] \in E
    BY <1>3, <1>chain, <2>2
  <2>4. g[k + 1] = step[<<g[k], list[k + 1]>>]
    <3> HIDE DEF step
    <3> QED
      BY <1>chain DEF IsChain
  <2> QED
    BY <2>3, <2>4
<1>11. g[0] = m
  <2> HIDE DEF step
  <2> QED
    BY <1>chain DEF IsChain
<1> HIDE DEF step, Is
<1>12. g \in [0..Len(list) -> X]
  BY <1>chain
<1> QED
  BY <1>2, <1>8, <1>9, <1>10, <1>11, <1>12 DEF X, E, op, FreedSteps

\* What the destructions of a message go through.
GoneSteps(g, s, D, d, m, deleted) ==
  /\ g \in [0..Len(deleted) -> Work(s, D, m)] /\ g[0] = m /\ g[Len(deleted)] = GoneAll(d, m, deleted)
  /\ \A k \in 0..Len(deleted)-1 : deleted[k + 1] \in Replica /\ g[k + 1] = Destruct(d, g[k], deleted[k + 1])

\* Its steps can be taken.
LEMMA GoneChain ==
  ASSUME NEW s \in System, NEW R \in SUBSET Replica, NEW D \in SUBSET System,
         NEW m \in ManagerIn(s, R, D), NEW d, NEW deleted \in Seq(Replica)
  PROVE  \E g : GoneSteps(g, s, D, d, m, deleted)
<1> DEFINE X == Work(s, D, m)
           E == Replica
           op(x, e) == Destruct(d, x, e)
           step == [p \in X \X E |-> op(p[1], p[2])]
           Is(f) == f = [t \in SUBSET DOMAIN deleted |->
                           IF t = {} THEN m ELSE op(f[t \ {Max(t)}], deleted[Max(t)])]
           it == CHOOSE f : Is(f)
<1>1. \A x \in X, e \in E : op(x, e) \in X
  <2> SUFFICES ASSUME NEW x \in X, NEW e \in E PROVE op(x, e) \in X
    OBVIOUS
  <2>1. PICK Q \in SUBSET Replica : x \in ManagerIn(s, Q, D)
    BY WorkDone
  <2>2. op(x, e) \in Work(s, D, x)
    BY <2>1, DestructManager
  <2> QED
    BY <2>2, WorkDone
<1>2. GoneAll(d, m, deleted) = it[DOMAIN deleted]
  BY DEF GoneAll, FoldLeft, MapThenFoldSet
<1>3. m \in X /\ deleted \in Seq(E)
  <2>1. m \in Work(s, D, m)
    BY WorkSteps, UpkeepSteps
  <2> QED
    BY <2>1
<1> HIDE DEF X, E, op
<1>4. step \in [X \X E -> X]
  BY <1>1
<1>5. PICK h, g : FoldsThrough(h, g, X, step, m, deleted)
  <2> HIDE DEF step
  <2> QED
    BY <1>3, <1>4, FoldThrough
<1>chain. /\ h \in [SUBSET DOMAIN deleted -> X] /\ g \in [0..Len(deleted) -> X]
      /\ IsFold(h, step, m, deleted) /\ IsChain(g, step, m, deleted)
      /\ g[Len(deleted)] = h[DOMAIN deleted]
  <2> HIDE DEF step
  <2> QED
    BY <1>5 DEF FoldsThrough
<1>6. Is(h)
  <2>1. \A t \in SUBSET DOMAIN deleted : t # {} =>
          step[<<h[t \ {Max(t)}], deleted[Max(t)]>>] = op(h[t \ {Max(t)}], deleted[Max(t)])
    <3>1. ASSUME NEW t \in SUBSET DOMAIN deleted, t # {}
          PROVE  h[t \ {Max(t)}] \in X /\ deleted[Max(t)] \in E
      <4> HIDE DEF step, Is, it
      <4> QED
        BY <1>3, <1>chain, <3>1, FoldArguments
    <3> QED
      BY <3>1
  <2> HIDE DEF step
  <2> QED
    BY <1>chain, <2>1 DEF IsFold
<1>7. Is(it)
  <2> HIDE DEF Is
  <2> QED
    BY <1>6
<1>8. it[DOMAIN deleted] = h[DOMAIN deleted]
  <2> HIDE DEF it
  <2>1. DOMAIN deleted = 1..Len(deleted) /\ Len(deleted) \in Nat
    BY <1>3
  <2>2. it[{}] = h[{}]
    BY <1>6, <1>7
  <2>3. \A t \in SUBSET DOMAIN deleted :
          t # {} /\ it[t \ {Max(t)}] = h[t \ {Max(t)}] => it[t] = h[t]
    BY <1>6, <1>7
  <2> HIDE DEF Is
  <2> QED
    BY <2>1, <2>2, <2>3, FoldUnique
<1> HIDE DEF it
<1>9. g[Len(deleted)] = h[DOMAIN deleted]
  BY <1>chain
<1>10. ASSUME NEW k \in 0..Len(deleted)-1
       PROVE  /\ g[k] \in X /\ deleted[k + 1] \in E
              /\ g[k + 1] = op(g[k], deleted[k + 1])
  <2>1. Len(deleted) \in Nat /\ DOMAIN deleted = 1..Len(deleted)
    BY <1>3
  <2>2. k \in 0..Len(deleted) /\ k + 1 \in 1..Len(deleted)
    BY <2>1
  <2>3. g[k] \in X /\ deleted[k + 1] \in E
    BY <1>3, <1>chain, <2>2
  <2>4. g[k + 1] = step[<<g[k], deleted[k + 1]>>]
    <3> HIDE DEF step
    <3> QED
      BY <1>chain DEF IsChain
  <2> QED
    BY <2>3, <2>4
<1>11. g[0] = m
  <2> HIDE DEF step
  <2> QED
    BY <1>chain DEF IsChain
<1> HIDE DEF step, Is
<1>12. g \in [0..Len(deleted) -> X]
  BY <1>chain
<1> QED
  BY <1>2, <1>8, <1>9, <1>10, <1>11, <1>12 DEF X, E, op, GoneSteps

\* What its constructions go through.
MadeSteps(g, s, D, d, m, new) ==
  /\ g \in [0..Len(new) -> ManagerAtAll(D)] /\ g[0] = m /\ g[Len(new)] = MadeAll(s, d, m, new)
  /\ \A k \in 0..Len(new)-1 : new[k + 1] \in Item /\ g[k + 1] = Construct(s, d, g[k], new[k + 1])

\* Its steps can be taken.
LEMMA MadeChain ==
  ASSUME NEW s \in System, NEW R \in SUBSET Replica, NEW D \in SUBSET System,
         NEW m \in ManagerIn(s, R, D), NEW d \in D, NEW new \in Seq(Item)
  PROVE  \E g : MadeSteps(g, s, D, d, m, new)
<1> DEFINE X == ManagerAtAll(D)
           E == Item
           op(x, e) == Construct(s, d, x, e)
           step == [p \in X \X E |-> op(p[1], p[2])]
           Is(f) == f = [t \in SUBSET DOMAIN new |->
                           IF t = {} THEN m ELSE op(f[t \ {Max(t)}], new[Max(t)])]
           it == CHOOSE f : Is(f)
<1>1. \A x \in X, e \in E : op(x, e) \in X
  BY ConstructAtAll
<1>2. MadeAll(s, d, m, new) = it[DOMAIN new]
  BY DEF MadeAll, FoldLeft, MapThenFoldSet
<1>3. m \in X /\ new \in Seq(E)
  BY ManagerAtAllSteps
<1> HIDE DEF X, E, op
<1>4. step \in [X \X E -> X]
  BY <1>1
<1>5. PICK h, g : FoldsThrough(h, g, X, step, m, new)
  <2> HIDE DEF step
  <2> QED
    BY <1>3, <1>4, FoldThrough
<1>chain. /\ h \in [SUBSET DOMAIN new -> X] /\ g \in [0..Len(new) -> X]
      /\ IsFold(h, step, m, new) /\ IsChain(g, step, m, new)
      /\ g[Len(new)] = h[DOMAIN new]
  <2> HIDE DEF step
  <2> QED
    BY <1>5 DEF FoldsThrough
<1>6. Is(h)
  <2>1. \A t \in SUBSET DOMAIN new : t # {} =>
          step[<<h[t \ {Max(t)}], new[Max(t)]>>] = op(h[t \ {Max(t)}], new[Max(t)])
    <3>1. ASSUME NEW t \in SUBSET DOMAIN new, t # {}
          PROVE  h[t \ {Max(t)}] \in X /\ new[Max(t)] \in E
      <4> HIDE DEF step, Is, it
      <4> QED
        BY <1>3, <1>chain, <3>1, FoldArguments
    <3> QED
      BY <3>1
  <2> HIDE DEF step
  <2> QED
    BY <1>chain, <2>1 DEF IsFold
<1>7. Is(it)
  <2> HIDE DEF Is
  <2> QED
    BY <1>6
<1>8. it[DOMAIN new] = h[DOMAIN new]
  <2> HIDE DEF it
  <2>1. DOMAIN new = 1..Len(new) /\ Len(new) \in Nat
    BY <1>3
  <2>2. it[{}] = h[{}]
    BY <1>6, <1>7
  <2>3. \A t \in SUBSET DOMAIN new :
          t # {} /\ it[t \ {Max(t)}] = h[t \ {Max(t)}] => it[t] = h[t]
    BY <1>6, <1>7
  <2> HIDE DEF Is
  <2> QED
    BY <2>1, <2>2, <2>3, FoldUnique
<1> HIDE DEF it
<1>9. g[Len(new)] = h[DOMAIN new]
  BY <1>chain
<1>10. ASSUME NEW k \in 0..Len(new)-1
       PROVE  /\ g[k] \in X /\ new[k + 1] \in E
              /\ g[k + 1] = op(g[k], new[k + 1])
  <2>1. Len(new) \in Nat /\ DOMAIN new = 1..Len(new)
    BY <1>3
  <2>2. k \in 0..Len(new) /\ k + 1 \in 1..Len(new)
    BY <2>1
  <2>3. g[k] \in X /\ new[k + 1] \in E
    BY <1>3, <1>chain, <2>2
  <2>4. g[k + 1] = step[<<g[k], new[k + 1]>>]
    <3> HIDE DEF step
    <3> QED
      BY <1>chain DEF IsChain
  <2> QED
    BY <2>3, <2>4
<1>11. g[0] = m
  <2> HIDE DEF step
  <2> QED
    BY <1>chain DEF IsChain
<1> HIDE DEF step, Is
<1>12. g \in [0..Len(new) -> X]
  BY <1>chain
<1> QED
  BY <1>2, <1>8, <1>9, <1>10, <1>11, <1>12 DEF X, E, op, MadeSteps

\* A replica that s does not own is deleted.
LEMMA DereferenceRemoves ==
  ASSUME NEW s, NEW R \in SUBSET Replica, NEW D, NEW m \in ManagerIn(s, R, D), OwnerOK(s, m),
         NEW r \in Replica
  PROVE  Removed(s, {r}, m, Dereference(m, r))
<1> DEFINE n == Dereference(m, r)
<1>1. DOMAIN m.replica = R /\ DOMAIN m.connection = D
  BY ManagerParts
<1>2. /\ n.out = m.out /\ DOMAIN n.connection = D /\ DOMAIN n.replica = R \ {r}
      /\ \A q \in R \ {r} : n.replica[q] = m.replica[q]
      /\ \A e \in D : n.connection[e] = OnDereference(m.connection[e], r)
  BY <1>1 DEF ManagerIn, Dereference, Without, Restrict
<1> HIDE DEF n
<1>3. ASSUME NEW e \in D PROVE Lost(m.connection[e], n.connection[e], {r})
  <2>1. m.connection[e] \in ConnectionIn(s, R)
    BY ManagerParts
  <2> QED
    BY <1>2, <2>1, LostOne
<1>4. ObjectsOK(s, m) /\ \A e \in D : ConnectionOK(s, e, m)
  BY <1>1 DEF OwnerOK
<1>5. ObjectsOK(s, n)
  <2> SUFFICES ASSUME NEW q \in R \ {r}
               PROVE  LET o == m.replica[q] IN
                      /\ Owns(o.creator, q)
                      /\ o.creator = s => o.version > 0 /\ o.lastSent =< o.version
                      /\ o.creator # s => /\ o.creator \in D
                                          /\ q \in Range(n.connection[o.creator].constructed)
    BY <1>2 DEF ObjectsOK
  <2> QED
    BY <1>1, <1>3, <1>4 DEF ObjectsOK, Lost
<1>6. ASSUME NEW e \in D PROVE ConnectionOK(s, e, n)
  <2>1. Range(m.connection[e].constructed) \subseteq R
    BY ManagerParts, ConnectionLists
  <2>2. \A q \in Range(n.connection[e].constructed) :
          /\ q \in Range(m.connection[e].constructed) /\ q # r /\ q \in R \ {r} /\ q \in Replica
          /\ n.connection[e].lastResult[q] = m.connection[e].lastResult[q]
          /\ q \in Range(n.connection[e].serialize) <=> q \in Range(m.connection[e].serialize)
    BY <1>3, <2>1 DEF Lost
  <2> QED
    BY <1>2, <1>3, <1>4, <2>2 DEF ConnectionOK, Lost, SameGroup
<1>7. OwnerOK(s, n)
  BY <1>2, <1>5, <1>6 DEF OwnerOK
<1>8. Removed(s, {r}, m, n)
  BY <1>1, <1>2, <1>3, <1>7 DEF Removed, Lost
<1> QED
  BY <1>8 DEF n

\* So are many ...
LEMMA FreedRemoves ==
  ASSUME NEW s \in System, NEW R \in SUBSET Replica, NEW D \in SUBSET System,
         NEW m \in ManagerIn(s, R, D), OwnerOK(s, m), NEW list \in Seq(Replica),
         \A r \in Range(list) : ~Owns(s, r)
  PROVE  Removed(s, Range(list), m, Freed(m, list))
<1>0. PICK g : FreedSteps(g, s, D, m, list)
  BY FreedChain
<1>1. /\ g \in [0..Len(list) -> Work(s, D, m)] /\ g[0] = m /\ g[Len(list)] = Freed(m, list)
      /\ \A k \in 0..Len(list)-1 : list[k + 1] \in Replica /\ g[k + 1] = Dereference(g[k], list[k + 1])
  BY <1>0 DEF FreedSteps
<1> DEFINE n == Len(list)
           Done(k) == {list[i] : i \in 1..k}
           T == {k \in 0..n : Removed(s, Done(k), m, g[k])}
<1>2. n \in Nat /\ DOMAIN list = 1..n
  OBVIOUS
<1>3. 0 \in T
  <2>1. Done(0) = {}
    OBVIOUS
  <2> HIDE DEF Done
  <2>2. Removed(s, Done(0), m, m)
    BY <2>1 DEF Removed
  <2> QED
    BY <1>1, <1>2, <2>2
<1>4. ASSUME NEW k \in 0..n-1, k \in T PROVE k + 1 \in T
  <2>1. k + 1 \in 0..n /\ k \in 0..n /\ 1..k+1 = (1..k) \cup {k + 1} /\ k + 1 \in DOMAIN list
    BY <1>2
  <2>2. Done(k + 1) = Done(k) \cup {list[k + 1]} /\ Removed(s, Done(k), m, g[k])
    BY <1>4, <2>1
  <2>3. list[k + 1] \in Replica /\ ~Owns(s, list[k + 1]) /\ g[k + 1] = Dereference(g[k], list[k + 1])
    BY <1>1, <2>1 DEF Range
  <2>4. PICK Q \in SUBSET Replica : g[k] \in ManagerIn(s, Q, D)
    BY <1>1, <2>1, WorkDone
  <2> HIDE DEF Done
  <2> DEFINE a == g[k]
             b == g[k + 1]
             r == list[k + 1]
             K == Done(k)
  <2>5. a \in ManagerIn(s, Q, D) /\ b = Dereference(a, r) /\ Removed(s, K, m, a) /\ r \in Replica /\ ~Owns(s, r)
    BY <2>2, <2>3, <2>4
  <2> HIDE DEF a, b, r, K
  <2>6. OwnerOK(s, a)
    BY <2>5 DEF Removed
  <2>7. Removed(s, {r}, a, b)
    BY <2>5, <2>6, DereferenceRemoves
  <2>8. Removed(s, K \cup {r}, m, b)
    BY <2>5, <2>7, AddedOn
  <2>9. Removed(s, Done(k + 1), m, g[k + 1])
    BY <2>2, <2>8 DEF K, r, b
  <2> QED
    BY <2>1, <2>9
<1>5. n \in T
  <2> HIDE DEF T
  <2>1. \A k \in 0..n : k \in T
    BY <1>2, <1>3, <1>4, FiniteInduction
  <2> QED
    BY <1>2, <2>1
<1>6. Done(n) = Range(list)
  BY <1>2 DEF Range
<1> QED
  BY <1>1, <1>5, <1>6

\* ... when the connection of their creator is popped.
LEMMA PopOwned ==
  ASSUME OneOwner(policy), NEW s \in System, NEW R \in SUBSET Replica, NEW D \in SUBSET System,
         NEW m \in ManagerIn(s, R, D), OwnerOK(s, m), NEW d \in D, d # s
  PROVE  LET n == PopConnection(s, d, m) IN
         /\ OwnerOK(s, n) /\ n.out = m.out /\ DOMAIN n.connection = D \ {d}
         /\ \E K \in SUBSET Replica : Apart(K, m, n) /\ \A r \in K : Owns(d, r)
<1> DEFINE list == CreatedBy(m, d)
           freed == Freed(m, list)
           n == [freed EXCEPT !.connection = Without(@, d)]
           K == {r \in R : m.replica[r].creator = d}
<1>0. DOMAIN m.replica = R /\ DOMAIN m.connection = D
  BY ManagerParts
<1>1. PopConnection(s, d, m) = n
  <2>1. ~BroadcastsOnPop(policy, s)
    BY OwnerAnswers
  <2> QED
    BY <1>0, <2>1 DEF PopConnection, Freed
<1>2. list \in Seq(Replica) /\ Range(list) = K
  <2>1. list = SetToSeq(K)
    BY <1>0 DEF CreatedBy
  <2>2. IsFiniteSet(K) /\ K \subseteq Replica
    BY ManagerAssumption, FS_Subset
  <2> HIDE DEF K, list
  <2>3. SetToSeq(K) \in Seq(K) /\ Range(SetToSeq(K)) = K
    BY <2>2, ListOfSet
  <2> QED
    BY <2>1, <2>2, <2>3, SeqMonotonic
<1>3. \A r \in K : Owns(d, r) /\ r \in Replica
  BY <1>0 DEF OwnerOK, ObjectsOK
<1>4. \A r \in Range(list) : ~Owns(s, r)
  BY <1>2, <1>3, OwnersAgree
<1> HIDE DEF list, K
<1>5. Removed(s, K, m, freed)
  BY <1>2, <1>4, FreedRemoves
<1>6. freed \in Work(s, D, m)
  BY <1>2, FreedManager
<1>7. PICK Q \in SUBSET Replica : freed \in ManagerIn(s, Q, D)
  BY <1>6, WorkDone
<1>8. /\ n.replica = freed.replica /\ n.out = freed.out /\ DOMAIN n.connection = D \ {d}
      /\ \A e \in D \ {d} : n.connection[e] = freed.connection[e]
  BY <1>7 DEF ManagerIn, Without, Restrict
<1> HIDE DEF n, freed
<1>9. /\ OwnerOK(s, freed) /\ freed.out = m.out /\ DOMAIN freed.replica = R \ K
      /\ DOMAIN freed.connection = D /\ \A r \in R \ K : freed.replica[r] = m.replica[r]
  BY <1>0, <1>5 DEF Removed
<1>10. ObjectsOK(s, n)
  <2> SUFFICES ASSUME NEW r \in R \ K
               PROVE  LET o == freed.replica[r] IN
                      /\ Owns(o.creator, r)
                      /\ o.creator = s => o.version > 0 /\ o.lastSent =< o.version
                      /\ o.creator # s => /\ o.creator \in D \ {d}
                                          /\ r \in Range(n.connection[o.creator].constructed)
    BY <1>8, <1>9 DEF ObjectsOK
  <2>1. freed.replica[r].creator # d
    BY <1>9 DEF K
  <2> QED
    BY <1>8, <1>9, <2>1 DEF OwnerOK, ObjectsOK
<1>11. OwnerOK(s, n)
  BY <1>8, <1>9, <1>10 DEF OwnerOK, ConnectionOK
<1>12. Apart(K, m, n)
  BY <1>0, <1>5, <1>8 DEF Removed, Apart
<1>13. K \in SUBSET Replica
  BY <1>3
<1> QED
  BY <1>1, <1>3, <1>8, <1>9, <1>11, <1>12, <1>13

\* A destruction that comes from the owner concerns no other connection.
LEMMA DestructRemoves ==
  ASSUME OneOwner(policy), NEW s \in System, NEW R \in SUBSET Replica, NEW D \in SUBSET System,
         NEW m \in ManagerIn(s, R, D), OwnerOK(s, m), NEW d \in System, d # s,
         NEW r \in Replica, Owns(d, r)
  PROVE  Removed(s, {r}, m, Destruct(d, m, r))
<1>0. DOMAIN m.replica = R /\ DOMAIN m.connection = D /\ ~Owns(s, r)
  BY ManagerParts, OwnersAgree
<1>1. CASE r \notin R
  <2>1. \A e \in D : r \notin Range(m.connection[e].constructed)
    BY <1>1, ManagerParts, ConnectionLists
  <2> QED
    BY <1>0, <1>1, <2>1 DEF Removed, Destruct
<1>2. CASE r \in R
  <2> DEFINE Known(e) == Those(<<r>>, {x \in Range(<<r>>) : HasReplicaConstructed(m, e, x)})
             told == {e \in Others(m, d) : Known(e) # <<>>}
  <2>1. ASSUME NEW e \in D, e # d PROVE Known(e) = <<>>
    <3>1. ConnectionOK(s, e, m)
      BY <1>0 DEF OwnerOK
    <3>2. r \notin Range(m.connection[e].constructed)
      BY <1>0, <2>1, <3>1, OwnersAgree DEF ConnectionOK
    <3>3. ~HasReplicaConstructed(m, e, r)
      <4>1. m.connection[e].constructed \in Seq(R)
        BY ManagerParts, ConnectionLists
      <4> QED
        BY <3>2, <4>1, RangeOfList DEF HasReplicaConstructed
    <3>4. Range(<<r>>) = {r}
      BY DEF Range
    <3> DEFINE S == {x \in Range(<<r>>) : HasReplicaConstructed(m, e, x)}
    <3>5. S = {}
      BY <3>3, <3>4
    <3> HIDE DEF S
    <3>6. Those(<<r>>, S) \in Seq({})
      <4> DEFINE l == <<r>>
      <4>1. l \in Seq(Replica)
        OBVIOUS
      <4> HIDE DEF l
      <4>2. Those(l, S) \in Seq(Replica \cap S)
        BY <4>1, ThoseList
      <4>3. Replica \cap S = {}
        BY <3>5
      <4> QED
        BY <4>2, <4>3 DEF l
    <3>7. Those(<<r>>, S) = <<>>
      BY <3>6
    <3> QED
      BY <3>7 DEF S
  <2>2. told = {}
    BY <1>0, <2>1 DEF Others
  <2>3. BroadcastDestructionList(m, <<r>>, d) =
          [m EXCEPT !.out = [e \in System |-> IF e \in told
                               THEN Append(@[e], Construction(<<>>, Known(e))) ELSE @[e]]]
    BY DEF BroadcastDestructionList, SendAll
  <2> HIDE DEF told, Known
  <2>4. BroadcastDestructionList(m, <<r>>, d) = m
    BY <2>2, <2>3 DEF ManagerIn
  <2>5. Destruct(d, m, r) = Dereference(m, r)
    BY <1>0, <1>2, <2>4 DEF Destruct
  <2> QED
    BY <1>0, <2>5, DereferenceRemoves
<1> QED
  BY <1>1, <1>2

\* All destructions of a message are carried out.
LEMMA GoneRemoves ==
  ASSUME OneOwner(policy), NEW s \in System, NEW R \in SUBSET Replica, NEW D \in SUBSET System,
         NEW m \in ManagerIn(s, R, D), OwnerOK(s, m), NEW d \in System, d # s,
         NEW deleted \in Seq(Replica), \A r \in Range(deleted) : Owns(d, r)
  PROVE  Removed(s, Range(deleted), m, GoneAll(d, m, deleted))
<1>0. PICK g : GoneSteps(g, s, D, d, m, deleted)
  BY GoneChain
<1>1. /\ g \in [0..Len(deleted) -> Work(s, D, m)] /\ g[0] = m /\ g[Len(deleted)] = GoneAll(d, m, deleted)
      /\ \A k \in 0..Len(deleted)-1 : deleted[k + 1] \in Replica /\ g[k + 1] = Destruct(d, g[k], deleted[k + 1])
  BY <1>0 DEF GoneSteps
<1> DEFINE n == Len(deleted)
           Done(k) == {deleted[i] : i \in 1..k}
           T == {k \in 0..n : Removed(s, Done(k), m, g[k])}
<1>2. n \in Nat /\ DOMAIN deleted = 1..n
  OBVIOUS
<1>3. 0 \in T
  <2>1. Done(0) = {}
    OBVIOUS
  <2> HIDE DEF Done
  <2>2. Removed(s, Done(0), m, m)
    BY <2>1 DEF Removed
  <2> QED
    BY <1>1, <1>2, <2>2
<1>4. ASSUME NEW k \in 0..n-1, k \in T PROVE k + 1 \in T
  <2>1. k + 1 \in 0..n /\ k \in 0..n /\ 1..k+1 = (1..k) \cup {k + 1} /\ k + 1 \in DOMAIN deleted
    BY <1>2
  <2>2. Done(k + 1) = Done(k) \cup {deleted[k + 1]} /\ Removed(s, Done(k), m, g[k])
    BY <1>4, <2>1
  <2>3. deleted[k + 1] \in Replica /\ Owns(d, deleted[k + 1]) /\ g[k + 1] = Destruct(d, g[k], deleted[k + 1])
    BY <1>1, <2>1 DEF Range
  <2>4. PICK Q \in SUBSET Replica : g[k] \in ManagerIn(s, Q, D)
    BY <1>1, <2>1, WorkDone
  <2> HIDE DEF Done
  <2> DEFINE a == g[k]
             b == g[k + 1]
             r == deleted[k + 1]
             K == Done(k)
  <2>5. a \in ManagerIn(s, Q, D) /\ b = Destruct(d, a, r) /\ Removed(s, K, m, a) /\ r \in Replica /\ Owns(d, r)
    BY <2>2, <2>3, <2>4
  <2> HIDE DEF a, b, r, K
  <2>6. OwnerOK(s, a)
    BY <2>5 DEF Removed
  <2>7. Removed(s, {r}, a, b)
    BY <2>5, <2>6, DestructRemoves
  <2>8. Removed(s, K \cup {r}, m, b)
    BY <2>5, <2>7, AddedOn
  <2>9. Removed(s, Done(k + 1), m, g[k + 1])
    BY <2>2, <2>8 DEF K, r, b
  <2> QED
    BY <2>1, <2>9
<1>5. n \in T
  <2> HIDE DEF T
  <2>1. \A k \in 0..n : k \in T
    BY <1>2, <1>3, <1>4, FiniteInduction
  <2> QED
    BY <1>2, <2>1
<1>6. Done(n) = Range(deleted)
  BY <1>2 DEF Range
<1> QED
  BY <1>1, <1>5, <1>6

\* The construction of a replica that its owner has not constructed before.
LEMMA ConstructAdds ==
  ASSUME OneOwner(policy), NEW s \in System, NEW R \in SUBSET Replica, NEW D \in SUBSET System,
         NEW m \in ManagerIn(s, R, D), OwnerOK(s, m), NEW d \in D, d # s, NEW item \in Item,
         item.create, item.creator = d, Owns(d, item.id),
         item.id \notin Range(m.connection[d].constructed)
  PROVE  Added(s, d, {item.id}, m, Construct(s, d, m, item))
<1> DEFINE r == item.id
           n == Made(s, d, m, item)
<1>0. DOMAIN m.replica = R /\ DOMAIN m.connection = D /\ ~Owns(s, r) /\ r \in Replica /\ d \in System
  BY ManagerParts, OwnersAgree DEF Item
<1>1. ObjectsOK(s, m) /\ \A e \in D : ConnectionOK(s, e, m)
  BY <1>0 DEF OwnerOK
<1>2. r \notin R
  <2> SUFFICES ASSUME r \in R PROVE FALSE
    OBVIOUS
  <2>1. Owns(m.replica[r].creator, r)
    BY <1>0, <1>1 DEF ObjectsOK
  <2>2. m.replica[r].creator = d
    BY <1>0, <2>1, OwnersAgree
  <2> QED
    BY <1>0, <1>1, <2>2 DEF ObjectsOK
<1>3. Construct(s, d, m, item) = n
  BY <1>0, <1>2, ConstructCases, OwnerAnswers
<1>4. ~Queries(s)
  BY OwnerAnswers
<1>5. /\ n.out = m.out /\ DOMAIN n.connection = D /\ DOMAIN n.replica = R \cup {r}
      /\ n.replica[r] = Object(d, 0)
      /\ \A q \in R : n.replica[q] = m.replica[q]
      /\ n.connection[d] = OnDownloadFromThisSystem(s, m.connection[d], r)
      /\ \A e \in D : e # d => n.connection[e] = OnDownloadFromOtherSystem(s, m.connection[e], r)
  BY <1>0, <1>2 DEF ManagerIn, Made, With
<1> HIDE DEF n, r
<1>6. \A e \in D : e # d => n.connection[e] = m.connection[e]
  BY <1>4, <1>5 DEF OnDownloadFromOtherSystem
<1> DEFINE c == m.connection[d]
           a == n.connection[d]
<1>7. /\ Range(a.constructed) = Range(c.constructed) \cup {r}
      /\ Range(a.serialize) = Range(c.serialize) \cup {r}
      /\ \A q \in Replica \ {r} : a.lastResult[q] = c.lastResult[q]
      /\ SameGroup(c, a)
  <2>1. c \in ConnectionIn(s, R)
    BY ManagerParts
  <2>2. ~Contains(c.constructed, r)
    BY <1>2, <2>1, Unlisted
  <2>3. a = [c EXCEPT !.constructed = Inserted(@, r), !.serialize = Append(@, r), !.lastResult[r] = 0]
    BY <1>4, <1>5, <2>1, <2>2 DEF OnDownloadFromThisSystem, ConnectionIn, ConnectionOf, a, c
  <2> HIDE DEF a, c
  <2>4. c \in ConnectionOf(R) /\ c.constructed \in Seq(R) /\ c.serialize \in Seq(R)
        /\ c.lastResult \in [Replica -> Nat]
    BY <2>1 DEF ConnectionIn, ConnectionOf
  <2>5. /\ a.constructed = Inserted(c.constructed, r) /\ a.serialize = Append(c.serialize, r)
        /\ a.lastResult = [c.lastResult EXCEPT ![r] = 0] /\ SameGroup(c, a)
    BY <2>3, <2>4 DEF ConnectionOf, SameGroup
  <2>6. c.constructed \in Seq(Replica) /\ c.serialize \in Seq(Replica)
    BY <2>4, SeqMonotonic
  <2>7. Range(Inserted(c.constructed, r)) = Range(c.constructed) \cup {r}
    BY <1>0, <2>6, InsertedList DEF r
  <2>8. Range(Append(c.serialize, r)) = Range(c.serialize) \cup {r}
    BY <1>0, <2>6, AppendedList DEF r
  <2> QED
    BY <2>4, <2>5, <2>7, <2>8
<1> HIDE DEF a
<1>8. ObjectsOK(s, n)
  <2> SUFFICES ASSUME NEW q \in R \cup {r}
               PROVE  LET o == n.replica[q] IN
                      /\ Owns(o.creator, q)
                      /\ o.creator = s => o.version > 0 /\ o.lastSent =< o.version
                      /\ o.creator # s => /\ o.creator \in D
                                          /\ q \in Range(n.connection[o.creator].constructed)
    BY <1>5 DEF ObjectsOK
  <2>1. CASE q = r
    <3>1. n.replica[q].creator = d /\ Owns(d, r)
      BY <1>5, <2>1 DEF Object, r
    <3> QED
      BY <1>7, <2>1, <3>1 DEF a
  <2>2. CASE q \in R
    BY <1>0, <1>1, <1>5, <1>6, <1>7, <2>2 DEF ObjectsOK, a
  <2> QED
    BY <2>1, <2>2
<1>9. ASSUME NEW e \in D PROVE ConnectionOK(s, e, n)
  <2>1. Range(m.connection[e].constructed) \subseteq R
    BY ManagerParts, ConnectionLists
  <2>2. CASE e # d
    <3>1. n.connection[e] = m.connection[e]
      BY <1>6, <2>2
    <3>2. ConnectionOK(s, e, m)
      BY <1>1
    <3> QED
      BY <1>5, <2>1, <3>1, <3>2 DEF ConnectionOK
  <2>3. CASE e = d
    <3>1. ConnectionOK(s, d, m)
      BY <1>1
    <3>2. ASSUME NEW q \in Range(a.constructed)
          PROVE  /\ Owns(s, q) \/ Owns(d, q)
                 /\ Owns(s, q) => q \in Range(a.serialize) /\ a.lastResult[q] =< n.replica[q].version
      <4>1. CASE q = r
        BY <1>0, <4>1 DEF r
      <4>2. CASE q # r
        <5>1. q \in Range(c.constructed) /\ q \in R /\ q \in Replica \ {r}
          BY <1>7, <2>1, <2>3, <3>2, <4>2
        <5> QED
          BY <1>5, <1>7, <3>1, <5>1 DEF ConnectionOK
      <4> QED
        BY <4>1, <4>2
    <3> QED
      BY <1>7, <2>3, <3>1, <3>2 DEF ConnectionOK, SameGroup, a
  <2> QED
    BY <2>2, <2>3
<1>10. OwnerOK(s, n)
  BY <1>5, <1>8, <1>9 DEF OwnerOK
<1>11. n.replica[r].version = 0
  BY <1>5 DEF Object
<1>12. Added(s, d, {r}, m, n)
  BY <1>0, <1>2, <1>5, <1>6, <1>7, <1>10, <1>11 DEF Added, a
<1> QED
  BY <1>3, <1>12 DEF r

\* All that a message of the owner constructs.
LEMMA MadeAdds ==
  ASSUME OneOwner(policy), NEW s \in System, NEW R \in SUBSET Replica, NEW D \in SUBSET System,
         NEW m \in ManagerIn(s, R, D), OwnerOK(s, m), NEW d \in D, d # s, NEW new \in Seq(Item),
         \A i \in DOMAIN new : /\ new[i].create /\ new[i].creator = d /\ Owns(d, new[i].id)
                               /\ new[i].id \notin Range(m.connection[d].constructed)
                               /\ \A j \in DOMAIN new : new[i].id = new[j].id => i = j
  PROVE  /\ MadeAll(s, d, m, new) \in Work(s, D, m)
         /\ Added(s, d, {new[i].id : i \in DOMAIN new}, m, MadeAll(s, d, m, new))
<1>0. PICK g : MadeSteps(g, s, D, d, m, new)
  BY MadeChain
<1>1. /\ g \in [0..Len(new) -> ManagerAtAll(D)] /\ g[0] = m /\ g[Len(new)] = MadeAll(s, d, m, new)
      /\ \A k \in 0..Len(new)-1 : new[k + 1] \in Item /\ g[k + 1] = Construct(s, d, g[k], new[k + 1])
  BY <1>0 DEF MadeSteps
<1> DEFINE n == Len(new)
           Done(k) == {new[i].id : i \in 1..k}
           Good(k) == g[k] \in Work(s, D, m) /\ Added(s, d, Done(k), m, g[k])
           T == {k \in 0..n : Good(k)}
<1>2. n \in Nat /\ DOMAIN new = 1..n
  OBVIOUS
<1>3. 0 \in T
  <2>1. Done(0) = {}
    OBVIOUS
  <2> HIDE DEF Done
  <2>2. Added(s, d, Done(0), m, m)
    BY <2>1 DEF Added
  <2>3. m \in Work(s, D, m)
    BY WorkSteps, UpkeepSteps
  <2> QED
    BY <1>1, <1>2, <2>2, <2>3
<1>4. ASSUME NEW k \in 0..n-1, k \in T PROVE k + 1 \in T
  <2>1. k + 1 \in 0..n /\ k \in 0..n /\ 1..k+1 = (1..k) \cup {k + 1} /\ k + 1 \in DOMAIN new
    BY <1>2
  <2>2. Done(k + 1) = Done(k) \cup {new[k + 1].id} /\ g[k] \in Work(s, D, m)
        /\ Added(s, d, Done(k), m, g[k])
    BY <1>4, <2>1
  <2>3. /\ new[k + 1] \in Item /\ g[k + 1] = Construct(s, d, g[k], new[k + 1])
        /\ new[k + 1].create /\ new[k + 1].creator = d /\ Owns(d, new[k + 1].id)
        /\ new[k + 1].id \notin Range(m.connection[d].constructed)
    BY <1>1, <2>1
  <2>4. PICK Q \in SUBSET Replica : g[k] \in ManagerIn(s, Q, D)
    BY <2>2, WorkDone
  <2>5. new[k + 1].id \notin Done(k)
    <3> SUFFICES ASSUME NEW i \in 1..k, new[i].id = new[k + 1].id PROVE FALSE
      OBVIOUS
    <3>1. i \in DOMAIN new /\ i # k + 1
      BY <1>2, <2>1
    <3> QED
      BY <2>1, <3>1
  <2> HIDE DEF Done, Good
  <2> DEFINE a == g[k]
             b == g[k + 1]
             item == new[k + 1]
             K == Done(k)
  <2>6. /\ a \in ManagerIn(s, Q, D) /\ b = Construct(s, d, a, item) /\ Added(s, d, K, m, a)
        /\ a \in Work(s, D, m) /\ item \in Item /\ item.create /\ item.creator = d
        /\ Owns(d, item.id) /\ item.id \notin Range(m.connection[d].constructed) /\ item.id \notin K
    BY <2>2, <2>3, <2>4, <2>5
  <2> HIDE DEF a, b, item, K
  <2>7. OwnerOK(s, a) /\ Range(a.connection[d].constructed) = Range(m.connection[d].constructed) \cup K
    BY <2>6, ManagerParts DEF Added
  <2>8. Added(s, d, {item.id}, a, b)
    BY <2>6, <2>7, ConstructAdds
  <2>9. Added(s, d, K \cup {item.id}, m, b)
    BY <2>6, <2>8, AddedOn
  <2>10. b \in Work(s, D, m)
    <3>1. d \in D /\ b \in Work(s, D, a)
      BY <2>6, <2>7, ConstructManager
    <3> QED
      BY <2>6, <3>1, WorkDone
  <2>11. Good(k + 1)
    BY <2>2, <2>9, <2>10 DEF K, item, b, Good
  <2> QED
    BY <2>1, <2>11 DEF T
<1>5. n \in T
  <2> HIDE DEF T
  <2>1. \A k \in 0..n : k \in T
    BY <1>2, <1>3, <1>4, FiniteInduction
  <2> QED
    BY <1>2, <2>1
<1>6. Done(n) = {new[i].id : i \in DOMAIN new}
  BY <1>2
<1> QED
  BY <1>1, <1>5, <1>6

\* A handler of a message of d that sends nothing and changes only what d owns.
HandledOwned(s, d, m, n) ==
  /\ OwnerOK(s, n) /\ DOMAIN n.connection = DOMAIN m.connection
  /\ \E K \in SUBSET Replica : Apart(K, m, n) /\ \A r \in K : Owns(d, r)

\* A construction message is carried out.
LEMMA ConstructionOwned ==
  ASSUME OneOwner(policy), NEW s \in System, NEW R \in SUBSET Replica, NEW D \in SUBSET System,
         NEW m \in ManagerIn(s, R, D), OwnerOK(s, m), NEW d \in D, d # s,
         NEW p \in Message, p.type = "Construction", MessageOK(d, p),
         \A r \in Replica : Gives(p, r) => CopyIn(m, d, r) = None
  PROVE  LET n == OnConstruction(s, d, m, p) IN
         /\ HandledOwned(s, d, m, n) /\ n.out = m.out
         /\ \A r \in Replica : CopyIn(n, d, r) = Effect(p, r, CopyIn(m, d, r))
<1> DEFINE made == MadeAll(s, d, m, p.new)
           n == GoneAll(d, made, p.deleted)
           K == {p.new[i].id : i \in DOMAIN p.new}
           L == Range(p.deleted)
<1>0. DOMAIN m.replica = R /\ DOMAIN m.connection = D /\ d \in System
  BY ManagerParts
<1>1. OnConstruction(s, d, m, p) = n
  BY DEF OnConstruction, MadeAll, GoneAll
<1>2. p.new \in Seq(Item) /\ p.deleted \in Seq(Replica)
  BY DEF Message
<1>3. \A i \in DOMAIN p.new : p.new[i].id \in Replica
  <2> DEFINE l == p.new
  <2>1. l \in Seq(Item)
    BY <1>2
  <2> HIDE DEF l
  <2>2. \A i \in DOMAIN l : l[i] \in Item
    BY <2>1
  <2> QED
    BY <2>2 DEF Item, l
<1>4. /\ \A i \in DOMAIN p.new : /\ p.new[i].create /\ p.new[i].creator = d
                                 /\ Owns(d, p.new[i].id)
                                 /\ \A j \in DOMAIN p.new : p.new[i].id = p.new[j].id => i = j
      /\ \A r \in L : Owns(d, r)
  BY DEF MessageOK
<1>5. \A r \in R : m.replica[r].version \in Nat
  BY ManagerParts DEF Objects
<1>6. ASSUME NEW i \in DOMAIN p.new PROVE p.new[i].id \notin Range(m.connection[d].constructed)
  <2> DEFINE r == p.new[i].id
  <2>1. Gives(p, r) /\ r \in Replica
    BY <1>3 DEF Gives
  <2>2. CopyIn(m, d, r) = None
    BY <2>1
  <2> HIDE DEF r
  <2>3. r \notin Range(m.connection[d].constructed)
    <3> SUFFICES ASSUME r \in Range(m.connection[d].constructed) PROVE FALSE
      OBVIOUS
    <3>1. r \in R
      BY ManagerParts, ConnectionLists
    <3> QED
      BY <1>0, <1>5, <2>2, <3>1 DEF CopyIn, None
  <2> QED
    BY <2>3 DEF r
<1>7. made \in Work(s, D, m) /\ Added(s, d, K, m, made)
  BY <1>2, <1>4, <1>6, MadeAdds
<1>8. PICK Q \in SUBSET Replica : made \in ManagerIn(s, Q, D)
  BY <1>7, WorkDone
<1> HIDE DEF made
<1>9. OwnerOK(s, made)
  BY <1>7 DEF Added
<1>10. Removed(s, L, made, n)
  BY <1>0, <1>2, <1>4, <1>8, <1>9, GoneRemoves
<1> HIDE DEF n
<1>11. \A r : Gives(p, r) <=> r \in K
  BY DEF Gives
<1>12. \A r : Takes(p, r) <=> r \in L
  BY DEF Takes, Events
<1> HIDE DEF K, L
<1>13. K \cup L \in SUBSET Replica /\ \A r \in K \cup L : Owns(d, r)
  BY <1>2, <1>3, <1>4, RangeOfList DEF K, L
<1>14. Apart(K \cup L, m, n)
  <2>1. Apart(K, m, made) /\ Apart(L, made, n)
    <3>1. Apart(K, m, made)
      BY <1>0, <1>7, AddedApart
    <3>2. DOMAIN made.replica = Q
      BY <1>8, ManagerParts
    <3>3. Apart(L, made, n)
      BY <1>10, <3>2, AddedApart
    <3> QED
      BY <3>1, <3>3
  <2> QED
    BY <2>1 DEF Apart
<1>15. OwnerOK(s, n) /\ n.out = m.out /\ DOMAIN n.connection = DOMAIN m.connection
  BY <1>7, <1>10 DEF Added, Removed
<1>16. ASSUME NEW r \in Replica PROVE CopyIn(n, d, r) = Effect(p, r, CopyIn(m, d, r))
  <2>1. Range(n.connection[d].constructed) = (Range(m.connection[d].constructed) \cup K) \ L
    BY <1>0, <1>7, <1>10 DEF Added, Removed
  <2>2. DOMAIN n.replica = (R \cup K) \ L
    BY <1>0, <1>7, <1>10 DEF Added, Removed
  <2>3. CASE r \in L
    <3>1. CopyIn(n, d, r) = None
      BY <2>1, <2>3 DEF CopyIn
    <3> QED
      BY <1>12, <2>3, <3>1 DEF Effect
  <2>4. CASE r \in K /\ r \notin L
    <3>1. n.replica[r].version = 0
      BY <1>7, <1>10, <2>2, <2>4 DEF Added, Removed
    <3>2. CopyIn(n, d, r) = 0
      BY <1>0, <1>15, <2>1, <2>4, <3>1 DEF CopyIn
    <3> QED
      BY <1>11, <1>12, <2>4, <3>2 DEF Effect
  <2>5. CASE r \notin K /\ r \notin L
    <3>1. d \in DOMAIN n.connection <=> d \in D
      BY <1>0, <1>15
    <3>2. r \in Replica \ (K \cup L)
      BY <2>5
    <3> DEFINE M == K \cup L
    <3>3. Apart(M, m, n) /\ r \in Replica \ M
      BY <1>14, <3>2
    <3> HIDE DEF M
    <3>4. CopyIn(n, d, r) = CopyIn(m, d, r)
      BY <3>1, <3>3, ApartCopies
    <3> QED
      BY <1>11, <1>12, <2>5, <3>4 DEF Effect
  <2> QED
    BY <2>3, <2>4, <2>5
<1>17. HandledOwned(s, d, m, n)
  BY <1>13, <1>14, <1>15 DEF HandledOwned
<1> QED
  BY <1>1, <1>15, <1>16, <1>17

\* The lists of a connection, and what it sent last, are the same.
SameEntries(c, f) ==
  f.constructed = c.constructed /\ f.serialize = c.serialize /\ f.lastResult = c.lastResult

\* What is held for s is about what d owns, and nothing is without Grouping.
GroupOK(s, d, f) ==
  /\ \A k \in DOMAIN f.downloadGroup : MessageOK(d, f.downloadGroup[k])
  /\ s \notin Grouping => ~f.groupConstructionAndSerialize

\* A handler that changes no entry keeps all copies.
LEMMA EntriesOwned ==
  ASSUME NEW s, NEW R \in SUBSET Replica, NEW D, NEW m \in ManagerIn(s, R, D), OwnerOK(s, m),
         NEW d \in D, NEW n, n.replica = m.replica, DOMAIN n.connection = D,
         \A e \in D : e # d => n.connection[e] = m.connection[e],
         SameEntries(m.connection[d], n.connection[d]), GroupOK(s, d, n.connection[d])
  PROVE  HandledOwned(s, d, m, n) /\ \A r \in Replica : CopyIn(n, d, r) = CopyIn(m, d, r)
<1>0. DOMAIN m.replica = R /\ DOMAIN m.connection = D
  BY ManagerParts
<1>1. \A e \in D : SameEntries(m.connection[e], n.connection[e])
  BY DEF SameEntries
<1>2. ObjectsOK(s, n)
  BY <1>0, <1>1 DEF OwnerOK, ObjectsOK, SameEntries
<1>3. ASSUME NEW e \in D PROVE ConnectionOK(s, e, n)
  BY <1>0, <1>1 DEF OwnerOK, ConnectionOK, SameEntries, GroupOK
<1>4. OwnerOK(s, n)
  BY <1>2, <1>3 DEF OwnerOK
<1>5. Apart({}, m, n)
  BY <1>0, <1>1 DEF Apart, SameEntries
<1>6. \A r \in Replica : CopyIn(n, d, r) = CopyIn(m, d, r)
  BY <1>0, <1>1 DEF CopyIn, SameEntries
<1> QED
  BY <1>0, <1>4, <1>5, <1>6 DEF HandledOwned

\* A message is held ...
LEMMA HeldOwned ==
  ASSUME NEW s, NEW R \in SUBSET Replica, NEW D, NEW m \in ManagerIn(s, R, D), OwnerOK(s, m),
         NEW d \in D, NEW p \in Message, MessageOK(d, p), s \in Grouping,
         NEW k \in ManagerIn(s, R, D), k.replica = m.replica, k.out = m.out,
         \A e \in D : e # d => k.connection[e] = m.connection[e],
         SameEntries(m.connection[d], k.connection[d]),
         k.connection[d].downloadGroup = m.connection[d].downloadGroup
  PROVE  HandledOwned(s, d, m, Held(k, d, p).m) /\ Held(k, d, p).m.out = m.out
<1> DEFINE n == Held(k, d, p).m
           c == k.connection[d]
           f == n.connection[d]
<1>1. c \in ConnectionOf(R) /\ c.downloadGroup \in Seq(Message)
  BY ManagerParts DEF ConnectionIn, ConnectionOf
<1>2. /\ n.replica = m.replica /\ n.out = m.out /\ DOMAIN n.connection = D
      /\ \A e \in D : e # d => n.connection[e] = m.connection[e]
      /\ f = [c EXCEPT !.downloadGroup = Append(@, p)]
  BY DEF Held, ManagerIn
<1> HIDE DEF n, c, f
<1>3. SameEntries(m.connection[d], f) /\ f.downloadGroup = Append(c.downloadGroup, p)
  BY <1>1, <1>2 DEF ConnectionOf, SameEntries, c
<1>4. \A i \in DOMAIN c.downloadGroup : MessageOK(d, c.downloadGroup[i])
  <2>1. ConnectionOK(s, d, m)
    BY ManagerParts DEF OwnerOK
  <2> QED
    BY <2>1 DEF ConnectionOK, c
<1>5. \A i \in DOMAIN f.downloadGroup : MessageOK(d, f.downloadGroup[i])
  <2> DEFINE l == c.downloadGroup
  <2>1. l \in Seq(Message) /\ \A i \in DOMAIN l : MessageOK(d, l[i])
    BY <1>1, <1>4
  <2> HIDE DEF l
  <2>2. ASSUME NEW i \in DOMAIN Append(l, p) PROVE MessageOK(d, Append(l, p)[i])
    <3>1. CASE i \in DOMAIN l
      BY <2>1, <3>1
    <3>2. CASE i \notin DOMAIN l
      <4>1. Append(l, p)[i] = p
        BY <2>1, <2>2, <3>2
      <4> QED
        BY <4>1
    <3> QED
      BY <3>1, <3>2
  <2> QED
    BY <1>3, <2>2 DEF l
<1>6. GroupOK(s, d, f)
  BY <1>5 DEF GroupOK
<1>7. HandledOwned(s, d, m, n)
  BY <1>2, <1>3, <1>6, EntriesOwned DEF f
<1> QED
  BY <1>2, <1>7 DEF n

\* ... from the start of a download ...
LEMMA DownloadStartedOwned ==
  ASSUME NEW s, NEW R \in SUBSET Replica, NEW D, NEW m \in ManagerIn(s, R, D), OwnerOK(s, m),
         NEW d \in D, NEW p \in Message, MessageOK(d, p)
  PROVE  LET result == OnDownloadStarted(s, d, m, p)
             n == result.m
         IN /\ HandledOwned(s, d, m, n) /\ n.out = m.out /\ result.back = <<>>
            /\ s \notin Grouping => \A r \in Replica : CopyIn(n, d, r) = CopyIn(m, d, r)
<1> DEFINE k == [m EXCEPT !.connection[d].groupConstructionAndSerialize = TRUE]
           n == [m EXCEPT !.connection[d].groupConstructionAndSerialize = FALSE]
           c == m.connection[d]
           f == n.connection[d]
<1>0. c \in ConnectionOf(R) /\ DOMAIN m.connection = D
  BY ManagerParts DEF ConnectionIn
<1>1. CASE s \in Grouping /\ ~m.connection[d].groupConstructionAndSerialize
  <2>1. OnDownloadStarted(s, d, m, p) = Held(k, d, p)
    BY <1>1 DEF OnDownloadStarted
  <2>2. /\ k.replica = m.replica /\ k.out = m.out
        /\ \A e \in D : e # d => k.connection[e] = m.connection[e]
        /\ k.connection[d] = [c EXCEPT !.groupConstructionAndSerialize = TRUE]
    BY DEF ManagerIn
  <2>3. k \in ManagerIn(s, R, D)
    <3>1. TRUE \in BOOLEAN /\ <<>> \in Seq(Message)
      OBVIOUS
    <3> QED
      BY <3>1, FlagKept, UpkeepSteps
  <2> HIDE DEF k, c
  <2>4. SameEntries(c, k.connection[d]) /\ k.connection[d].downloadGroup = c.downloadGroup
    BY <1>0, <2>2 DEF ConnectionOf, SameEntries
  <2>5. HandledOwned(s, d, m, Held(k, d, p).m) /\ Held(k, d, p).m.out = m.out
    <3>1. k.replica = m.replica /\ k.out = m.out
      BY <2>2
    <3>2. \A e \in D : e # d => k.connection[e] = m.connection[e]
      BY <2>2
    <3>3. SameEntries(m.connection[d], k.connection[d])
      BY <2>4 DEF c
    <3>4. k.connection[d].downloadGroup = m.connection[d].downloadGroup
      BY <2>4 DEF c
    <3>5. s \in Grouping
      BY <1>1
    <3> QED
      BY <2>3, <3>1, <3>2, <3>3, <3>4, <3>5, HeldOwned
  <2>6. Held(k, d, p).back = <<>>
    BY DEF Held
  <2> QED
    BY <1>1, <2>1, <2>5, <2>6
<1>2. CASE ~(s \in Grouping /\ ~m.connection[d].groupConstructionAndSerialize)
  <2>1. OnDownloadStarted(s, d, m, p) = Processed(n)
    BY <1>2 DEF OnDownloadStarted
  <2>2. /\ n.replica = m.replica /\ n.out = m.out /\ DOMAIN n.connection = D
        /\ \A e \in D : e # d => n.connection[e] = m.connection[e]
        /\ f = [c EXCEPT !.groupConstructionAndSerialize = FALSE]
    BY DEF ManagerIn
  <2> HIDE DEF n, c, f
  <2>3. SameEntries(c, f) /\ f.downloadGroup = c.downloadGroup /\ ~f.groupConstructionAndSerialize
    BY <1>0, <2>2 DEF ConnectionOf, SameEntries
  <2>4. GroupOK(s, d, f)
    BY <1>0, <2>3 DEF OwnerOK, ConnectionOK, GroupOK, c
  <2>5. HandledOwned(s, d, m, n) /\ \A r \in Replica : CopyIn(n, d, r) = CopyIn(m, d, r)
    BY <2>2, <2>3, <2>4, EntriesOwned DEF c, f
  <2>6. Processed(n).m = n /\ Processed(n).back = <<>>
    BY DEF Processed
  <2> QED
    BY <2>1, <2>2, <2>5, <2>6
<1> QED
  BY <1>1, <1>2

\* ... to its end, when what was held is pushed back.
LEMMA DownloadCompleteOwned ==
  ASSUME NEW s, NEW R \in SUBSET Replica, NEW D, NEW m \in ManagerIn(s, R, D), OwnerOK(s, m),
         NEW d \in D, NEW p \in Message, MessageOK(d, p)
  PROVE  LET result == OnDownloadComplete(d, m, p)
             n == result.m
         IN /\ HandledOwned(s, d, m, n) /\ n.out = m.out
            /\ \A k \in DOMAIN result.back : MessageOK(d, result.back[k])
            /\ s \notin Grouping => result.back = <<>>
            /\ \A r \in Replica : CopyIn(n, d, r) = CopyIn(m, d, r)
<1> DEFINE c == m.connection[d]
           back == [k \in 1..Len(c.downloadGroup) + 1 |->
                      [Append(c.downloadGroup, p)[k] EXCEPT !.arrived = TRUE]]
           freed == [m EXCEPT !.connection[d].downloadGroup = <<>>]
           done == [m EXCEPT !.connection[d].gotDownloadComplete = TRUE]
<1>0. /\ c \in ConnectionOf(R) /\ DOMAIN m.connection = D /\ c.downloadGroup \in Seq(Message)
      /\ ConnectionOK(s, d, m)
  BY ManagerParts DEF ConnectionIn, ConnectionOf, OwnerOK
<1>1. \A i \in DOMAIN c.downloadGroup : MessageOK(d, c.downloadGroup[i])
  BY <1>0 DEF ConnectionOK
<1>2. CASE c.groupConstructionAndSerialize /\ c.downloadGroup # <<>>
  <2> DEFINE n == freed
             f == n.connection[d]
  <2>1. OnDownloadComplete(d, m, p) = [m |-> n, back |-> back, stop |-> TRUE]
    BY <1>2 DEF OnDownloadComplete
  <2>2. /\ n.replica = m.replica /\ n.out = m.out /\ DOMAIN n.connection = D
        /\ \A e \in D : e # d => n.connection[e] = m.connection[e]
        /\ f = [c EXCEPT !.downloadGroup = <<>>]
    BY DEF ManagerIn
  <2>3. s \in Grouping
    BY <1>0, <1>2 DEF ConnectionOK
  <2>4. \A k \in DOMAIN back : MessageOK(d, back[k])
    <3> DEFINE l == c.downloadGroup
    <3>1. l \in Seq(Message) /\ \A i \in DOMAIN l : MessageOK(d, l[i])
      BY <1>0, <1>1
    <3>2. back = [k \in 1..Len(l) + 1 |-> [Append(l, p)[k] EXCEPT !.arrived = TRUE]]
      OBVIOUS
    <3> HIDE DEF l, back
    <3>3. ASSUME NEW k \in 1..Len(l)+1
          PROVE  Append(l, p)[k] \in Message /\ MessageOK(d, Append(l, p)[k])
      <4>1. CASE k \in DOMAIN l
        BY <3>1, <4>1
      <4>2. CASE k \notin DOMAIN l
        <5>1. Append(l, p)[k] = p
          BY <3>1, <3>3, <4>2
        <5> QED
          BY <5>1
      <4> QED
        BY <4>1, <4>2
    <3>4. ASSUME NEW x \in Message, MessageOK(d, x) PROVE MessageOK(d, [x EXCEPT !.arrived = TRUE])
      <4> DEFINE y == [x EXCEPT !.arrived = TRUE]
      <4>1. /\ y.type = x.type
            /\ x.type = "Construction" => y.new = x.new /\ y.deleted = x.deleted
            /\ x.type = "Serialize" => y.id = x.id
        BY DEF Message
      <4> HIDE DEF y
      <4>2. MessageOK(d, y)
        BY <3>4, <4>1 DEF MessageOK
      <4> QED
        BY <4>2 DEF y
    <3>5. ASSUME NEW k \in DOMAIN back PROVE MessageOK(d, back[k])
      <4> DEFINE x == Append(l, p)[k]
      <4>1. k \in 1..Len(l)+1 /\ back[k] = [x EXCEPT !.arrived = TRUE]
        BY <3>2, <3>5
      <4>2. x \in Message /\ MessageOK(d, x)
        BY <3>3, <4>1
      <4> HIDE DEF x
      <4> QED
        BY <3>4, <4>1, <4>2
    <3> QED
      BY <3>5
  <2> HIDE DEF freed, c, f, back
  <2>5. SameEntries(c, f) /\ f.downloadGroup = <<>>
    BY <1>0, <2>2 DEF ConnectionOf, SameEntries
  <2>6. HandledOwned(s, d, m, n) /\ \A r \in Replica : CopyIn(n, d, r) = CopyIn(m, d, r)
    <3>1. GroupOK(s, d, f)
      BY <2>3, <2>5 DEF GroupOK
    <3>2. SameEntries(m.connection[d], n.connection[d])
      BY <2>5 DEF c, f
    <3>3. GroupOK(s, d, n.connection[d])
      BY <3>1 DEF f
    <3>4. n.replica = m.replica /\ DOMAIN n.connection = D
      BY <2>2
    <3>5. \A e \in D : e # d => n.connection[e] = m.connection[e]
      BY <2>2
    <3> HIDE DEF n
    <3> QED
      BY <3>2, <3>3, <3>4, <3>5, EntriesOwned
  <2> QED
    BY <2>1, <2>2, <2>3, <2>4, <2>6
<1>3. CASE ~(c.groupConstructionAndSerialize /\ c.downloadGroup # <<>>)
  <2> DEFINE n == done
             f == n.connection[d]
  <2>1. OnDownloadComplete(d, m, p) = Processed(n)
    BY <1>3 DEF OnDownloadComplete
  <2>2. /\ n.replica = m.replica /\ n.out = m.out /\ DOMAIN n.connection = D
        /\ \A e \in D : e # d => n.connection[e] = m.connection[e]
        /\ f = [c EXCEPT !.gotDownloadComplete = TRUE]
    BY DEF ManagerIn
  <2> HIDE DEF done, c, f, back
  <2>3. /\ SameEntries(c, f) /\ f.downloadGroup = c.downloadGroup
        /\ f.groupConstructionAndSerialize = c.groupConstructionAndSerialize
    BY <1>0, <2>2 DEF ConnectionOf, SameEntries
  <2>4. s \notin Grouping => ~f.groupConstructionAndSerialize
    BY <1>0, <2>3 DEF ConnectionOK, c
  <2>5. HandledOwned(s, d, m, n) /\ \A r \in Replica : CopyIn(n, d, r) = CopyIn(m, d, r)
    <3>1. GroupOK(s, d, f)
      BY <1>1, <2>3, <2>4 DEF GroupOK
    <3>2. SameEntries(m.connection[d], n.connection[d])
      BY <2>3 DEF c, f
    <3>3. GroupOK(s, d, n.connection[d])
      BY <3>1 DEF f
    <3>4. n.replica = m.replica /\ DOMAIN n.connection = D
      BY <2>2
    <3>5. \A e \in D : e # d => n.connection[e] = m.connection[e]
      BY <2>2
    <3> HIDE DEF n
    <3> QED
      BY <3>2, <3>3, <3>4, <3>5, EntriesOwned
  <2>6. Processed(n).m = n /\ Processed(n).back = <<>>
    BY DEF Processed
  <2> QED
    BY <2>1, <2>2, <2>5, <2>6
<1> QED
  BY <1>2, <1>3

\* The data of a serialization is that of the copy.
LEMMA SerializeGiven ==
  ASSUME OneOwner(policy), NEW s \in System, NEW R \in SUBSET Replica, NEW D \in SUBSET System,
         NEW m \in ManagerIn(s, R, D), OwnerOK(s, m), NEW d \in D, d # s,
         NEW p \in Message, p.type = "Serialize", MessageOK(d, p)
  PROVE  LET n == OnSerialize(m, p) IN
         /\ HandledOwned(s, d, m, n) /\ n.out = m.out
         /\ \A r \in Replica : CopyIn(n, d, r) = Effect(p, r, CopyIn(m, d, r))
<1> DEFINE n == OnSerialize(m, p)
           i == p.id
<1>0. DOMAIN m.replica = R /\ DOMAIN m.connection = D /\ d \in System
  BY ManagerParts
<1>1. i \in Replica /\ Owns(d, i) /\ p.version \in Nat
  BY DEF Message, MessageOK
<1>2. ~Owns(s, i)
  BY <1>1, OwnersAgree
<1>3. \A r, x : Effect(p, r, x) = IF r = i /\ x # None THEN p.version ELSE x
  BY DEF Effect, Takes, Gives, Events
<1>4. \A r \in Replica : r \in Range(m.connection[d].constructed) => r \in R
  BY ManagerParts, ConnectionLists
<1>5. CASE i \notin R
  <2>1. n = m
    BY <1>0, <1>5 DEF OnSerialize
  <2> HIDE DEF n
  <2>2. Apart({}, m, m)
    BY DEF Apart
  <2>3. HandledOwned(s, d, m, n)
    BY <2>1, <2>2 DEF HandledOwned
  <2>4. CopyIn(m, d, i) = None
    BY <1>1, <1>4, <1>5 DEF CopyIn
  <2>5. \A r \in Replica : CopyIn(n, d, r) = Effect(p, r, CopyIn(m, d, r))
    BY <1>3, <2>1, <2>4
  <2> QED
    BY <2>1, <2>3, <2>5 DEF n
<1>6. CASE i \in R
  <2>1. /\ n.out = m.out /\ n.connection = m.connection /\ DOMAIN n.replica = R
        /\ \A r \in R : r # i => n.replica[r] = m.replica[r]
        /\ n.replica[i] = [m.replica[i] EXCEPT !.version = p.version]
    BY <1>0, <1>6 DEF OnSerialize, ManagerIn
  <2>2. m.replica[i] \in Objects /\ \A r \in R : m.replica[r].version \in Nat
    BY <1>6, ManagerParts DEF Objects
  <2>3. n.replica[i].version = p.version /\ n.replica[i].creator = m.replica[i].creator
    BY <2>1, <2>2 DEF Objects
  <2> HIDE DEF n, i
  <2>4. ObjectsOK(s, m) /\ \A e \in D : ConnectionOK(s, e, m)
    BY <1>0 DEF OwnerOK
  <2>5. m.replica[i].creator # s
    BY <1>0, <1>2, <1>6, <2>4 DEF ObjectsOK
  <2>6. ObjectsOK(s, n)
    BY <1>0, <2>1, <2>3, <2>4, <2>5 DEF ObjectsOK
  <2>7. ASSUME NEW e \in D PROVE ConnectionOK(s, e, n)
    <3>1. \A r \in Range(m.connection[e].constructed) : r \in R
      BY ManagerParts, ConnectionLists
    <3> QED
      BY <1>2, <2>1, <2>4, <3>1 DEF ConnectionOK
  <2>8. OwnerOK(s, n)
    BY <1>0, <2>1, <2>6, <2>7 DEF OwnerOK
  <2>9. Apart({i}, m, n)
    BY <1>0, <2>1 DEF Apart
  <2>10. HandledOwned(s, d, m, n)
    BY <1>1, <2>1, <2>8, <2>9 DEF HandledOwned
  <2>11. ASSUME NEW r \in Replica PROVE CopyIn(n, d, r) = Effect(p, r, CopyIn(m, d, r))
    <3>1. CASE r \notin Range(m.connection[d].constructed)
      BY <1>0, <1>3, <2>1, <3>1 DEF CopyIn
    <3>2. CASE r \in Range(m.connection[d].constructed)
      <4>1. r \in R /\ CopyIn(m, d, r) = m.replica[r].version /\ CopyIn(n, d, r) = n.replica[r].version
        BY <1>0, <1>4, <2>1, <3>2 DEF CopyIn
      <4>2. CopyIn(m, d, r) # None
        BY <2>2, <4>1 DEF None
      <4>3. CASE r = i
        BY <1>3, <2>3, <4>1, <4>2, <4>3
      <4>4. CASE r # i
        BY <1>3, <2>1, <4>1, <4>4
      <4> QED
        BY <4>3, <4>4
    <3> QED
      BY <3>1, <3>2
  <2> QED
    BY <2>1, <2>10, <2>11 DEF n
<1> QED
  BY <1>5, <1>6

\* A validation changes no entry.
LEMMA ScopeOwned ==
  ASSUME NEW s, NEW R \in SUBSET Replica, NEW D \in SUBSET System, NEW m \in ManagerIn(s, R, D),
         OwnerOK(s, m), NEW d \in D
  PROVE  LET n == OnScopeChange(d, m) IN
         /\ HandledOwned(s, d, m, n) /\ (n.out = m.out \/ Asks(d, m, n))
         /\ \A r \in Replica : CopyIn(n, d, r) = CopyIn(m, d, r)
<1> DEFINE c == m.connection[d]
           k == [m EXCEPT !.connection[d].isValidated = TRUE]
           n == SendTo(k, d, Signal("ScopeChange"))
<1>0. c \in ConnectionOf(R) /\ DOMAIN m.connection = D
  BY ManagerParts DEF ConnectionIn
<1>1. OnScopeChange(d, m) = IF c.isValidated THEN m ELSE n
  BY DEF OnScopeChange, SendValidation
<1>2. GroupOK(s, d, c)
  BY <1>0 DEF OwnerOK, ConnectionOK, GroupOK
<1>3. CASE c.isValidated
  <2>1. SameEntries(m.connection[d], m.connection[d]) /\ GroupOK(s, d, m.connection[d])
    BY <1>2 DEF SameEntries
  <2>2. HandledOwned(s, d, m, m)
    BY <1>0, <2>1, EntriesOwned
  <2> QED
    BY <1>1, <1>3, <2>2
<1>4. CASE ~c.isValidated
  <2>1. /\ n.replica = m.replica /\ DOMAIN n.connection = D /\ Asks(d, m, n)
        /\ \A e \in D : e # d => n.connection[e] = m.connection[e]
        /\ n.connection[d] = [c EXCEPT !.isValidated = TRUE]
    BY DEF ManagerIn, SendTo, Asks
  <2> HIDE DEF n, c
  <2>2. SameEntries(c, n.connection[d]) /\ GroupOK(s, d, n.connection[d])
    BY <1>0, <1>2, <2>1 DEF ConnectionOf, SameEntries, GroupOK
  <2>3. SameEntries(m.connection[d], n.connection[d]) /\ GroupOK(s, d, n.connection[d])
    BY <2>2 DEF c
  <2>4. n.replica = m.replica /\ DOMAIN n.connection = D
    BY <2>1
  <2>5. \A e \in D : e # d => n.connection[e] = m.connection[e]
    BY <2>1
  <2>6. HandledOwned(s, d, m, n)
    BY <2>3, <2>4, <2>5, EntriesOwned
  <2>7. \A r \in Replica : CopyIn(n, d, r) = CopyIn(m, d, r)
    BY <1>0, <2>3, <2>4 DEF SameEntries, CopyIn
  <2> QED
    BY <1>1, <1>4, <2>1, <2>6, <2>7
<1> QED
  BY <1>3, <1>4

\* A connection to d begins: what is sent constructs nothing, as n has it.
Opens(s, d, m, n) ==
  \E more \in Seq(Message) :
    /\ n.out[d] = m.out[d] \o more
    /\ \A k \in DOMAIN more : MessageOK(s, more[k])
    /\ \A r \in Replica : Owns(s, r) => /\ Leads(more, r, None, None)
                                        /\ Fits(s, d, Latest(n, d), n, r, None)

\* The packet p of d turns m into n, D the connections of m: the copies of what
\* d owns follow it, the others stay, and what s owns keeps being told.
Answered(s, d, D, p, m, n) ==
  /\ OwnerOK(s, n)
  /\ \A e \in System, r \in Replica : e # d /\ Owns(e, r) => CopyIn(n, e, r) = CopyIn(m, e, r)
  /\ \A r \in Replica : Owns(d, r) =>
       CopyIn(n, d, r) = IF d \in D THEN Effect(p, r, CopyIn(m, d, r)) ELSE None
  /\ \A e \in System : IF p.type = "NewConnection" /\ e = d THEN Opens(s, d, m, n)
                       ELSE Tells(s, e, Latest(m, e), m, Latest(n, e), n)
  /\ \A e \in System \ D : n.out[e] = m.out[e] \/ (p.type = "NewConnection" /\ e = d)

\* A new connection has no entries, and the other side is asked to validate it.
LEMMA PushOwned ==
  ASSUME OneOwner(policy), NEW s \in System, NEW R \in SUBSET Replica, NEW D \in SUBSET System,
         NEW m \in ManagerIn(s, R, D), OwnerOK(s, m), NEW d \in System \ D, {s, d} \in Link[policy],
         NEW p, p.type = "NewConnection"
  PROVE  Answered(s, d, D, p, m, PushConnection(s, d, m))
<1> DEFINE f == Connection
           k == [m EXCEPT !.connection = With(@, d, f)]
           n == SendTo(k, d, Signal("ScopeChange"))
<1>0. DOMAIN m.replica = R /\ DOMAIN m.connection = D /\ \A e \in System : m.out[e] \in Seq(Message)
  BY ManagerParts
<1>1. PushConnection(s, d, m) = n
  BY <1>0, OwnerAnswers DEF PushConnection, SendValidation
<1>2. /\ n.replica = m.replica /\ DOMAIN n.connection = D \cup {d}
      /\ \A e \in D : n.connection[e] = m.connection[e]
      /\ n.connection[d] = f
      /\ \A e \in System : e # d => n.out[e] = m.out[e]
      /\ n.out[d] = Append(m.out[d], Signal("ScopeChange"))
  BY <1>0 DEF ManagerIn, With, SendTo
<1>3. f.constructed = <<>> /\ f.downloadGroup = <<>> /\ ~f.groupConstructionAndSerialize
  BY DEF Connection
<1> HIDE DEF n, k, f
<1>4. Range(f.constructed) = {}
  BY <1>3 DEF Range
<1>5. ObjectsOK(s, n)
  BY <1>0, <1>2 DEF OwnerOK, ObjectsOK
<1>6. ConnectionOK(s, d, n)
  BY <1>2, <1>3, <1>4 DEF ConnectionOK
<1>7. \A e \in D : ConnectionOK(s, e, n)
  BY <1>0, <1>2 DEF OwnerOK, ConnectionOK
<1>8. OwnerOK(s, n)
  BY <1>2, <1>5, <1>6, <1>7 DEF OwnerOK
<1>9. \A r \in Replica : CopyIn(n, d, r) = None
  BY <1>2, <1>4 DEF CopyIn
<1>10. \A e \in System, r \in Replica : e # d => CopyIn(n, e, r) = CopyIn(m, e, r)
  BY <1>0, <1>2 DEF CopyIn
<1>11. ASSUME NEW e \in System, e # d PROVE Tells(s, e, Latest(m, e), m, Latest(n, e), n)
  <2>1. e \in D => Latest(n, e) = Latest(m, e)
    BY <1>2 DEF Latest
  <2> DEFINE S == Latest(m, e)
             Q == Latest(n, e)
  <2>2. \A r \in Replica : \A y : Owns(s, r) /\ Fits(s, e, S, m, r, y) => Fits(s, e, Q, n, r, y)
    BY <1>0, <1>2, <1>11, <2>1 DEF Fits
  <2> HIDE DEF S, Q
  <2>3. n.out[e] = m.out[e] /\ m.out[e] \in Seq(Message)
    BY <1>0, <1>2, <1>11
  <2>4. Tells(s, e, S, m, Q, n)
    BY <2>2, <2>3, TellsNothing
  <2> QED
    BY <2>4 DEF S, Q
<1>12. Opens(s, d, m, n)
  <2> DEFINE q == Signal("ScopeChange")
             more == <<q>>
             c == m.out[d]
  <2>1. q \in Message /\ q.type = "ScopeChange"
    BY DEF Signal, Message
  <2> HIDE DEF q, c
  <2>2. MessageOK(s, q) /\ \A r : ~Gives(q, r) /\ ~Takes(q, r)
    BY <2>1 DEF MessageOK, Gives, Takes, Events
  <2>3. \A r, x : Effect(q, r, x) = x
    BY <2>1, <2>2 DEF Effect
  <2>4. ASSUME NEW r PROVE Leads(<<q>>, r, None, None)
    <3>1. Leads(<<q>>, r, None, Effect(q, r, None))
      BY <2>2, LeadsShort
    <3> QED
      BY <2>3, <3>1
  <2>5. Append(c, q) = c \o more
    BY <1>0, <2>1 DEF c
  <2>6. more \in Seq(Message) /\ n.out[d] = m.out[d] \o more /\ \A i \in DOMAIN more : MessageOK(s, more[i])
    BY <1>2, <2>1, <2>2, <2>5 DEF q, c
  <2>7. \A r \in Replica : Leads(more, r, None, None) /\ Fits(s, d, Latest(n, d), n, r, None)
    BY <1>2, <1>4, <2>4 DEF Fits
  <2> HIDE DEF more
  <2> QED
    BY <2>6, <2>7 DEF Opens
<1>13. \A e \in System : n.out[e] = m.out[e] \/ e = d
  BY <1>2
<1>14. Answered(s, d, D, p, m, n)
  BY <1>8, <1>9, <1>10, <1>11, <1>12, <1>13 DEF Answered
<1> QED
  BY <1>1, <1>14

\* A handler that changes only what d owns, and tells d at most that it has
\* validated the connection, answers as the copies say.
LEMMA ApartAnswered ==
  ASSUME OneOwner(policy), NEW s \in System, NEW R \in SUBSET Replica, NEW D \in SUBSET System,
         NEW m \in ManagerIn(s, R, D), NEW d \in System, d # s, NEW p, p.type # "NewConnection",
         NEW n, OwnerOK(s, n), \A e \in System : e # d => (e \in DOMAIN n.connection <=> e \in D),
         NEW K \in SUBSET Replica, Apart(K, m, n), \A r \in K : Owns(d, r),
         n.out = m.out \/ (d \in D /\ Asks(d, m, n)),
         \A r \in Replica : Owns(d, r) =>
           CopyIn(n, d, r) = IF d \in D THEN Effect(p, r, CopyIn(m, d, r)) ELSE None
  PROVE  Answered(s, d, D, p, m, n)
<1>0. m.out = [e \in System |-> m.out[e]]
  BY DEF ManagerIn
<1>1. ASSUME NEW e \in System, NEW r \in Replica, e # d, Owns(e, r)
      PROVE  CopyIn(n, e, r) = CopyIn(m, e, r)
  <2>1. r \in Replica \ K
    BY <1>1, OwnersAgree
  <2>2. e \in DOMAIN n.connection <=> e \in D
    BY <1>1
  <2> QED
    BY <2>1, <2>2, ApartCopies
<1>2. \A r \in K : ~Owns(s, r)
  BY OwnersAgree
<1>3. \A e \in System : n.out[e] = m.out[e] \/ (e = d /\ d \in D /\ n.out[e] = Append(m.out[e], Signal("ScopeChange")))
  BY <1>0 DEF Asks
<1>4. ASSUME NEW e \in System PROVE Tells(s, e, Latest(m, e), m, Latest(n, e), n)
  <2>1. n.out[e] = m.out[e] \/ n.out[e] = Append(m.out[e], Signal("ScopeChange"))
    BY <1>3
  <2> QED
    BY <1>2, <2>1, ApartTells
<1>5. \A e \in System \ D : n.out[e] = m.out[e]
  BY <1>3
<1> QED
  BY <1>1, <1>4, <1>5 DEF Answered

\* What a handler pushes back is what d has sent, and only with Grouping.
BackOK(s, d, back) ==
  /\ \A k \in DOMAIN back : MessageOK(d, back[k])
  /\ s \notin Grouping => back = <<>>

\* With one owner of each replica, a handler does to the copies of what d owns
\* what its packet says, unless d owns nothing.
LEMMA HandlerOwned ==
  ASSUME OneOwner(policy), NEW s \in System, NEW R \in SUBSET Replica, NEW D \in SUBSET System,
         NEW m \in ManagerIn(s, R, D), OwnerOK(s, m), NEW d \in System, d # s,
         {s, d} \in Link[policy], NEW p \in Packet, MessageOK(d, p),
         p.type = "NewConnection" => d \notin D,
         \A r \in Replica : Owns(d, r) /\ Gives(p, r) => CopyIn(m, d, r) = None
  PROVE  LET result == OnReceive(s, d, m, p) IN
         Answered(s, d, D, p, m, result.m) /\ BackOK(s, d, result.back)
<1> DEFINE result == OnReceive(s, d, m, p)
           grouped == m.connection[d].groupConstructionAndSerialize
           Ok == Answered(s, d, D, p, m, result.m) /\ BackOK(s, d, result.back)
<1> SUFFICES Ok
  OBVIOUS
<1>1. /\ p.type \in {"NewConnection", "ConnectionLost", "Construction", "Serialize",
                     "DownloadStarted", "DownloadComplete", "ScopeChange"}
      /\ p.type \notin {"NewConnection", "ConnectionLost"} => p \in Message
  BY DEF Packet, Message
<1>2. DOMAIN m.connection = D /\ DOMAIN m.replica = R
  BY ManagerParts
<1>3. BackOK(s, d, <<>>)
  BY DEF BackOK
<1>4. ASSUME NEW n, result = Processed(n), Answered(s, d, D, p, m, n) PROVE Ok
  <2>1. result.m = n /\ result.back = <<>>
    BY <1>4 DEF Processed
  <2> HIDE DEF result
  <2> QED
    BY <1>3, <1>4, <2>1
<1>5. s \in Grouping => \A r \in Replica : ~Owns(d, r)
  <2> SUFFICES ASSUME s \in Grouping, NEW r \in Replica, Owns(d, r) PROVE FALSE
    OBVIOUS
  <2> QED
    BY DEF OneOwner, Owns
<1>6. ASSUME d \in D, p.type # "NewConnection", NEW n, HandledOwned(s, d, m, n),
             n.out = m.out \/ Asks(d, m, n),
             \A r \in Replica : Owns(d, r) => CopyIn(n, d, r) = Effect(p, r, CopyIn(m, d, r))
      PROVE  Answered(s, d, D, p, m, n)
  <2>1. OwnerOK(s, n) /\ DOMAIN n.connection = D
    BY <1>2, <1>6 DEF HandledOwned
  <2>2. PICK K \in SUBSET Replica : Apart(K, m, n) /\ \A r \in K : Owns(d, r)
    BY <1>6 DEF HandledOwned
  <2>3. n.out = m.out \/ (d \in D /\ Asks(d, m, n))
    BY <1>6
  <2>4. \A e \in System : e # d => (e \in DOMAIN n.connection <=> e \in D)
    BY <2>1
  <2>5. \A r \in Replica : Owns(d, r) =>
          CopyIn(n, d, r) = IF d \in D THEN Effect(p, r, CopyIn(m, d, r)) ELSE None
    BY <1>6
  <2> QED
    BY <1>6, <2>1, <2>2, <2>3, <2>4, <2>5, ApartAnswered
<1>7. ASSUME d \notin D, p.type # "NewConnection" PROVE Answered(s, d, D, p, m, m)
  <2>1. Apart({}, m, m) /\ {} \in SUBSET Replica
    BY DEF Apart
  <2>2. \A r \in Replica : CopyIn(m, d, r) = None
    BY <1>2, <1>7 DEF CopyIn
  <2>3. \A r \in Replica : Owns(d, r) =>
          CopyIn(m, d, r) = IF d \in D THEN Effect(p, r, CopyIn(m, d, r)) ELSE None
    BY <1>7, <2>2
  <2>4. \A e \in System : e # d => (e \in DOMAIN m.connection <=> e \in D)
    BY <1>2
  <2>5. m.out = m.out \/ (d \in D /\ Asks(d, m, m))
    OBVIOUS
  <2>6. \A r \in {} : Owns(d, r)
    OBVIOUS
  <2> QED
    BY <1>7, <2>1, <2>3, <2>4, <2>5, <2>6, ApartAnswered
<1>8. CASE p.type = "NewConnection"
  <2>1. d \in System \ D
    BY <1>8
  <2>2. Answered(s, d, D, p, m, PushConnection(s, d, m))
    BY <1>8, <2>1, PushOwned
  <2>3. result = Processed(PushConnection(s, d, m))
    BY <1>8 DEF OnReceive
  <2> HIDE DEF result
  <2> QED
    BY <1>4, <2>2, <2>3
<1>9. CASE p.type = "ConnectionLost" /\ d \in D
  <2> DEFINE n == PopConnection(s, d, m)
  <2>1. result = Processed(n)
    BY <1>9 DEF OnReceive
  <2>2. /\ OwnerOK(s, n) /\ n.out = m.out /\ DOMAIN n.connection = D \ {d}
        /\ \E K \in SUBSET Replica : Apart(K, m, n) /\ \A r \in K : Owns(d, r)
    BY <1>9, PopOwned
  <2> HIDE DEF n, result
  <2>3. \A r, x : Effect(p, r, x) = None
    BY <1>9 DEF Effect, Takes, Events
  <2>4. \A r \in Replica : Owns(d, r) =>
          CopyIn(n, d, r) = IF d \in D THEN Effect(p, r, CopyIn(m, d, r)) ELSE None
    BY <2>2, <2>3 DEF CopyIn
  <2>5. \A e \in System : e # d => (e \in DOMAIN n.connection <=> e \in D)
    BY <2>2
  <2>6. PICK K \in SUBSET Replica : Apart(K, m, n) /\ \A r \in K : Owns(d, r)
    BY <2>2
  <2>7. n.out = m.out \/ (d \in D /\ Asks(d, m, n))
    BY <2>2
  <2>8. Answered(s, d, D, p, m, n)
    BY <1>9, <2>2, <2>4, <2>5, <2>6, <2>7, ApartAnswered
  <2> QED
    BY <1>4, <2>1, <2>8
<1>10. CASE p.type # "NewConnection" /\ d \notin D
  <2>1. result = Processed(m)
    BY <1>1, <1>2, <1>10 DEF OnReceive, PopConnection
  <2> HIDE DEF result
  <2> QED
    BY <1>4, <1>7, <1>10, <2>1
<1>11. CASE p.type \in {"Construction", "Serialize"} /\ d \in D /\ grouped
  <2>1. result = Held(m, d, p)
    BY <1>2, <1>11 DEF OnReceive
  <2>2. p \in Message /\ p.type # "NewConnection"
    BY <1>1, <1>11
  <2>3. s \in Grouping
    BY <1>2, <1>11 DEF OwnerOK, ConnectionOK
  <2>4. SameEntries(m.connection[d], m.connection[d])
    BY DEF SameEntries
  <2>5. HandledOwned(s, d, m, Held(m, d, p).m) /\ Held(m, d, p).m.out = m.out
    BY <1>11, <2>2, <2>3, <2>4, HeldOwned
  <2>6. result.back = <<>>
    BY <2>1 DEF Held
  <2> HIDE DEF result
  <2>7. Answered(s, d, D, p, m, Held(m, d, p).m)
    BY <1>5, <1>6, <1>11, <2>2, <2>3, <2>5
  <2> QED
    BY <1>3, <2>1, <2>6, <2>7
<1>12. CASE p.type = "Construction" /\ d \in D /\ ~grouped
  <2> DEFINE n == OnConstruction(s, d, m, p)
  <2>1. result = Processed(n)
    BY <1>2, <1>12 DEF OnReceive
  <2>2. p \in Message /\ p.type # "NewConnection"
    BY <1>1, <1>12
  <2>3. \A r \in Replica : Gives(p, r) => CopyIn(m, d, r) = None
    BY <1>12 DEF Gives, MessageOK
  <2>4. /\ HandledOwned(s, d, m, n) /\ n.out = m.out
        /\ \A r \in Replica : CopyIn(n, d, r) = Effect(p, r, CopyIn(m, d, r))
    BY <1>12, <2>2, <2>3, ConstructionOwned
  <2> HIDE DEF n, result
  <2> QED
    BY <1>4, <1>6, <1>12, <2>1, <2>2, <2>4
<1>13. CASE p.type = "Serialize" /\ d \in D /\ ~grouped
  <2> DEFINE n == OnSerialize(m, p)
  <2>1. result = Processed(n)
    BY <1>2, <1>13 DEF OnReceive
  <2>2. p \in Message /\ p.type # "NewConnection"
    BY <1>1, <1>13
  <2>3. /\ HandledOwned(s, d, m, n) /\ n.out = m.out
        /\ \A r \in Replica : CopyIn(n, d, r) = Effect(p, r, CopyIn(m, d, r))
    BY <1>13, <2>2, SerializeGiven
  <2> HIDE DEF n, result
  <2> QED
    BY <1>4, <1>6, <1>13, <2>1, <2>2, <2>3
<1>14. ASSUME p.type \in {"DownloadStarted", "DownloadComplete", "ScopeChange"}
       PROVE  p \in Message /\ p.type # "NewConnection" /\ \A r, x : Effect(p, r, x) = x
  BY <1>1, <1>14 DEF Effect, Takes, Gives, Events
<1>15. CASE p.type = "DownloadStarted" /\ d \in D
  <2> DEFINE n == result.m
  <2>1. result = OnDownloadStarted(s, d, m, p)
    BY <1>2, <1>15 DEF OnReceive
  <2>2. /\ HandledOwned(s, d, m, n) /\ n.out = m.out /\ result.back = <<>>
        /\ s \notin Grouping => \A r \in Replica : CopyIn(n, d, r) = CopyIn(m, d, r)
    BY <1>14, <1>15, <2>1, DownloadStartedOwned
  <2> HIDE DEF result
  <2>3. \A r \in Replica : Owns(d, r) => CopyIn(n, d, r) = Effect(p, r, CopyIn(m, d, r))
    BY <1>5, <1>14, <1>15, <2>2
  <2> HIDE DEF n
  <2>4. Answered(s, d, D, p, m, n)
    BY <1>6, <1>14, <1>15, <2>2, <2>3
  <2> QED
    BY <1>3, <2>2, <2>4 DEF n
<1>16. CASE p.type = "DownloadComplete" /\ d \in D
  <2> DEFINE n == result.m
  <2>1. result = OnDownloadComplete(d, m, p)
    BY <1>2, <1>16 DEF OnReceive
  <2>2. /\ HandledOwned(s, d, m, n) /\ n.out = m.out
        /\ \A k \in DOMAIN result.back : MessageOK(d, result.back[k])
        /\ s \notin Grouping => result.back = <<>>
        /\ \A r \in Replica : CopyIn(n, d, r) = CopyIn(m, d, r)
    BY <1>14, <1>16, <2>1, DownloadCompleteOwned
  <2> HIDE DEF result
  <2>3. \A r \in Replica : Owns(d, r) => CopyIn(n, d, r) = Effect(p, r, CopyIn(m, d, r))
    BY <1>14, <1>16, <2>2
  <2>4. BackOK(s, d, result.back)
    BY <2>2 DEF BackOK
  <2> HIDE DEF n
  <2>5. Answered(s, d, D, p, m, n)
    BY <1>6, <1>14, <1>16, <2>2, <2>3
  <2> QED
    BY <2>4, <2>5 DEF n
<1>17. CASE p.type = "ScopeChange" /\ d \in D
  <2> DEFINE n == OnScopeChange(d, m)
  <2>1. result = Processed(n)
    BY <1>2, <1>17 DEF OnReceive
  <2>2. /\ HandledOwned(s, d, m, n) /\ (n.out = m.out \/ Asks(d, m, n))
        /\ \A r \in Replica : CopyIn(n, d, r) = CopyIn(m, d, r)
    BY <1>17, ScopeOwned
  <2> HIDE DEF n, result
  <2>3. Answered(s, d, D, p, m, n)
    BY <1>6, <1>14, <1>17, <2>2
  <2> QED
    BY <1>4, <2>1, <2>3
<1> QED
  BY <1>1, <1>8, <1>9, <1>10, <1>11, <1>12, <1>13, <1>15, <1>16, <1>17
=============================================================================
