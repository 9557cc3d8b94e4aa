------------------------ MODULE RakPeerHandshake_proofs ------------------------
(***************************************************************************)
(* Proofs about RakPeerHandshake, for every set of peers, every number of  *)
(* attempts from 3 to 254, and every choice of who dials whom, with what.  *)
(***************************************************************************)
EXTENDS RakPeerHandshake, SequenceTheorems, TLAPS

USE HandshakeAssumption

----------------------------------------------------------------------------
(* Sequences *)

\* Without one of its entries a sequence has no others than before.
LEMMA RemoveAtType ==
  ASSUME NEW S, NEW s \in Seq(S), NEW k \in DOMAIN s
  PROVE  RemoveAt(s, k) \in Seq(S)
<1>1. k \in 1..Len(s) /\ Len(s) \in Nat
  OBVIOUS
<1>2. SubSeq(s, 1, k - 1) \in Seq(S)
  <2>1. \A i \in 1..k - 1 : s[i] \in S
    BY <1>1
  <2> QED
    BY <1>1, <2>1, SubSeqProperties
<1>3. SubSeq(s, k + 1, Len(s)) \in Seq(S)
  <2>1. \A i \in k + 1..Len(s) : s[i] \in S
    BY <1>1
  <2> QED
    BY <1>1, <2>1, SubSeqProperties
<1> QED
  BY <1>2, <1>3, ConcatProperties DEF RemoveAt

----------------------------------------------------------------------------
(* The counter of an attempt *)

\* However an attempt ends, its counter stays in the range in which it can still
\* reach the value that ends the retries.
LEMMA CounterInRange ==
  ASSUME NEW made \in 0..SendConnectionAttemptCount
  PROVE  /\ made + 1 \in 0..SendConnectionAttemptCount + 1
         /\ AfterTooLong(made) \in 0..SendConnectionAttemptCount + 1
         /\ AfterSlowSend(made) \in 0..SendConnectionAttemptCount + 1
<1>1. PerMtu \in Nat /\ PerMtu >= 1 /\ 3 * PerMtu <= SendConnectionAttemptCount
  BY DEF PerMtu, NUM_MTU_SIZES
<1>2. MtuSizeIndex(made) \in 0..2
  <2>1. made \div PerMtu \in Nat
    BY <1>1
  <2> QED
    BY <2>1 DEF MtuSizeIndex, NUM_MTU_SIZES
<1>3. AfterTooLong(made) \in 0..SendConnectionAttemptCount + 1
  <2>1. (MtuSizeIndex(made) + 1) * PerMtu \in 0..SendConnectionAttemptCount
    <3>1. CASE MtuSizeIndex(made) = 0
      BY <1>1, <3>1 DEF NUM_MTU_SIZES
    <3>2. CASE MtuSizeIndex(made) = 1
      BY <1>1, <3>2 DEF NUM_MTU_SIZES
    <3>3. CASE MtuSizeIndex(made) = 2
      BY <1>1, <3>3 DEF NUM_MTU_SIZES
    <3> QED
      BY <1>2, <3>1, <3>2, <3>3
  <2> DEFINE made2 == (MtuSizeIndex(made) + 1) * PerMtu
  <2> HIDE DEF made2
  <2>2. made2 \in 0..254 => made2 % 256 = made2
    OBVIOUS
  <2> QED
    BY <2>1, <2>2 DEF AfterTooLong, made2, NUM_MTU_SIZES
<1>4. AfterSlowSend(made) \in 0..SendConnectionAttemptCount + 1
  BY <1>1 DEF AfterSlowSend, NUM_MTU_SIZES
<1> QED
  BY <1>3, <1>4 DEF NUM_MTU_SIZES

----------------------------------------------------------------------------
(* The inductive invariant *)

Count == NotQueued..SendConnectionAttemptCount + 1
Datagram == [type : Offline \cup Refusals, from : Peer, to : Peer, guid : Peer \X Nat]
Mode == ConnectMode \cup {Free}

Dialled(p, q) == <<p, q>> \in setting.dials

\* p and q do not connect, for the one that dials has the wrong password.
Rejected(p, q) ==
  /\ OneWay(p, q)
  /\ <<p, q>> \in setting.wrongPassword \/ <<q, p>> \in setting.wrongPassword

\* What p may have sent from its slot for q: a request only if it dials q, an
\* acceptance only if the passwords match.
May(p, q) ==
  {message \in Unordered \cup Ordered :
     /\ message = "CONNECTION_REQUEST" => Dialled(p, q)
     /\ message = "CONNECTION_REQUEST_ACCEPTED" => ~Rejected(p, q)}

StreamsAllowed(f) ==
  /\ f \in [Peer -> [Peer -> Seq(Unordered \cup Ordered)]]
  /\ \A p, q \in Peer : f[p][q] \in Seq(May(p, q))

\* A slot is asked for by those who dial only.
DiallersAsk == \A m \in wire : m.type = "REQUEST_2" => Dialled(m.from, m.to)

\* What p keeps of q: one who does not dial has no attempt; one who dials alone
\* has an attempt or a slot, not both; the user is told of every connection, and
\* of no other if only one of the two dials; and nobody gets in whose
\* password is wrong.
PairOK(p, q) ==
  /\ Queued(p, q) \/ calling[p] = q => Dialled(p, q)
  /\ OneWay(p, q) /\ Queued(p, q) => dialling[p][q] /\ ~Active(p, q)
  /\ OneWay(p, q) /\ calling[p] = q => ~Queued(p, q) /\ ~Active(p, q)
  /\ connectMode[p][q] = "CONNECTED" /\ dropping[p] # q => told[p][q]
  /\ OneWay(p, q) /\ told[p][q] =>
       /\ connectMode[p][q] \in {"CONNECTED", "DISCONNECT_ASAP", "DISCONNECT_ON_NO_ACK"}
       /\ dropping[p] # q
  /\ Rejected(p, q) =>
       /\ connectMode[p][q] \notin {"HANDLING_CONNECTION_REQUEST", "CONNECTED"}
       /\ ~told[p][q]

IInv ==
  /\ TypeOK
  /\ StreamsAllowed(stream)
  /\ DiallersAsk
  /\ \A p, q \in Peer : PairOK(p, q)

----------------------------------------------------------------------------
(* Types of the parts that several actions change *)

\* A budget that is spent from stays a number.
LEMMA SpendType ==
  ASSUME TypeOK, NEW b \in Budgets, Spend(b)
  PROVE  spent' \in [Budgets -> Nat]
<1>1. setting \in Settings /\ spent \in [Budgets -> Nat]
  BY DEF TypeOK
<1>2. spent' = [spent EXCEPT ![b] = @ + 1]
  BY DEF Spend
<1> QED
  BY <1>1, <1>2

\* What is put on the wire is a datagram.
LEMMA PostType ==
  ASSUME TypeOK, NEW type \in Offline \cup Refusals, NEW p \in Peer, NEW q \in Peer,
         Post(type, p, q)
  PROVE  wire' \subseteq Datagram
<1>1. guid[p] \in Nat /\ wire \subseteq Datagram
  BY DEF TypeOK, Datagram
<1> QED
  BY <1>1 DEF Post, Datagram

\* Only a REQUEST_2 matters to who asks.
LEMMA PostAsks ==
  ASSUME DiallersAsk, setting' = setting, NEW type, NEW p, NEW q, Post(type, p, q),
         type = "REQUEST_2" => Dialled(p, q)
  PROVE  DiallersAsk'
  BY DEF DiallersAsk, Dialled, Post

\* Streams to which an allowed message is added, from which one is taken, or
\* that start anew.
LEMMA StreamSends ==
  ASSUME NEW f, StreamsAllowed(f), NEW p \in Peer, NEW q \in Peer, NEW message \in May(p, q)
  PROVE  StreamsAllowed([f EXCEPT ![p][q] = Append(@, message)])
<1> DEFINE g == [f EXCEPT ![p][q] = Append(@, message)]
<1>1. message \in Unordered \cup Ordered
  BY DEF May
<1>2. g \in [Peer -> [Peer -> Seq(Unordered \cup Ordered)]]
  BY <1>1 DEF StreamsAllowed
<1>3. g[p][q] \in Seq(May(p, q))
  <2>1. f[p][q] \in Seq(May(p, q)) /\ g[p][q] = Append(f[p][q], message)
    BY DEF StreamsAllowed
  <2> QED
    BY <2>1
<1>4. \A r, s \in Peer : ~(r = p /\ s = q) => g[r][s] = f[r][s]
  BY DEF StreamsAllowed
<1> HIDE DEF g
<1>5. \A r, s \in Peer : g[r][s] \in Seq(May(r, s))
  BY <1>3, <1>4 DEF StreamsAllowed
<1>6. StreamsAllowed(g)
  BY <1>2, <1>5 DEF StreamsAllowed
<1> QED
  BY <1>6 DEF g

\* The stream from which one message is taken stays allowed ...
LEMMA StreamTakes ==
  ASSUME NEW f, StreamsAllowed(f), NEW p \in Peer, NEW q \in Peer, NEW k \in DOMAIN f[p][q]
  PROVE  StreamsAllowed([f EXCEPT ![p][q] = RemoveAt(@, k)])
<1> DEFINE g == [f EXCEPT ![p][q] = RemoveAt(@, k)]
<1>1. RemoveAt(f[p][q], k) \in Seq(Unordered \cup Ordered)
  BY RemoveAtType DEF StreamsAllowed
<1>2. g \in [Peer -> [Peer -> Seq(Unordered \cup Ordered)]]
  BY <1>1 DEF StreamsAllowed
<1>3. g[p][q] \in Seq(May(p, q))
  <2>1. f[p][q] \in Seq(May(p, q)) /\ g[p][q] = RemoveAt(f[p][q], k)
    BY DEF StreamsAllowed
  <2> QED
    BY <2>1, RemoveAtType
<1>4. \A r, s \in Peer : ~(r = p /\ s = q) => g[r][s] = f[r][s]
  BY DEF StreamsAllowed
<1> HIDE DEF g
<1>5. \A r, s \in Peer : g[r][s] \in Seq(May(r, s))
  BY <1>3, <1>4 DEF StreamsAllowed
<1>6. StreamsAllowed(g)
  BY <1>2, <1>5 DEF StreamsAllowed
<1> QED
  BY <1>6 DEF g

\* ... or the stream starts anew.
LEMMA StreamStarts ==
  ASSUME NEW f, StreamsAllowed(f), NEW p \in Peer, NEW q \in Peer,
         NEW start \in Seq(May(p, q))
  PROVE  StreamsAllowed([f EXCEPT ![p][q] = start])
<1> DEFINE g == [f EXCEPT ![p][q] = start]
<1>1. start \in Seq(Unordered \cup Ordered)
  BY DEF May
<1>2. g \in [Peer -> [Peer -> Seq(Unordered \cup Ordered)]]
  BY <1>1 DEF StreamsAllowed
<1>3. g[p][q] = start
  BY DEF StreamsAllowed
<1>4. \A r, s \in Peer : ~(r = p /\ s = q) => g[r][s] = f[r][s]
  BY DEF StreamsAllowed
<1> HIDE DEF g
<1>5. \A r, s \in Peer : g[r][s] \in Seq(May(r, s))
  BY <1>3, <1>4 DEF StreamsAllowed
<1>6. StreamsAllowed(g)
  BY <1>2, <1>5 DEF StreamsAllowed
<1> QED
  BY <1>6 DEF g

\* As the settings do not change, what is allowed does not either.
LEMMA StreamsStay ==
  ASSUME setting' = setting, StreamsAllowed(stream')
  PROVE  StreamsAllowed(stream)'
  BY DEF StreamsAllowed, May, Dialled, Rejected, OneWay

\* The types that the changes below start from.
LEMMA QueueType ==
  ASSUME IInv
  PROVE  requestsMade \in [Peer -> [Peer -> Count]] /\ NotQueued \in Count
<1>1. NotQueued \in Count
  BY DEF Count, NotQueued, NUM_MTU_SIZES
<1> QED
  BY <1>1 DEF IInv, TypeOK, Count

\* A step that changes nothing keeps the invariant.
LEMMA Unchanged ==
  ASSUME IInv, UNCHANGED vars
  PROVE  IInv'
<1>1. TypeOK'
  BY DEF IInv, TypeOK, vars, slots, users
<1>2. StreamsAllowed(stream)'
  BY StreamsStay DEF IInv, vars
<1>3. DiallersAsk'
  BY DEF IInv, DiallersAsk, Dialled, vars
<1>4. ASSUME NEW r \in Peer, NEW s \in Peer
      PROVE  PairOK(r, s)'
  BY DEF IInv, PairOK, vars, slots, users, Queued, Active, Dialled, OneWay, Rejected
<1> QED
  BY <1>1, <1>2, <1>3, <1>4 DEF IInv

----------------------------------------------------------------------------
(* The users' calls *)

\* Connect leaves a call waiting for the queue's lock.
LEMMA ConnectKeeps ==
  ASSUME IInv, NEW p \in Peer, NEW q \in Peer, Connect(p, q)
  PROVE  IInv'
<1>1. TypeOK'
  <2>1. spent' \in [Budgets -> Nat]
    BY SpendType DEF IInv, Connect, Budgets
  <2> QED
    BY <2>1 DEF IInv, TypeOK, Connect, slots
<1>2. StreamsAllowed(stream)' /\ DiallersAsk'
  BY StreamsStay DEF IInv, Connect, DiallersAsk, Dialled
<1>3. ASSUME NEW r \in Peer, NEW s \in Peer
      PROVE  PairOK(r, s)'
  <2>1. PairOK(r, s) /\ calling \in [Peer -> Peer \cup {NoPeer}]
    BY DEF IInv, TypeOK
  <2> QED
    BY <2>1 DEF PairOK, Connect, slots, Queued, Active, Dialled, OneWay, Rejected
<1> QED
  BY <1>1, <1>2, <1>3 DEF IInv

\* The waiting call queues its attempt, unless it has become one too many.
LEMMA PushRequestKeeps ==
  ASSUME IInv, NEW p \in Peer, PushRequest(p)
  PROVE  IInv'
<1>1. PICK q \in Peer : q = calling[p] /\ q # NoPeer
  BY DEF IInv, TypeOK, PushRequest
<1>2. \/ Queued(p, q) /\ requestsMade' = requestsMade /\ dialling' = dialling
      \/ ~Queued(p, q) /\ requestsMade' = Set(requestsMade, p, q, 0)
         /\ dialling' = Set(dialling, p, q, TRUE)
  BY <1>1 DEF PushRequest
<1>3. requestsMade \in [Peer -> [Peer -> Count]] /\ dialling \in [Peer -> [Peer -> BOOLEAN]]
      /\ 0 \in Count
  BY DEF IInv, TypeOK, Count, NotQueued, NUM_MTU_SIZES
<1>4. TypeOK'
  <2>1. requestsMade' \in [Peer -> [Peer -> Count]]
    <3>1. CASE requestsMade' = requestsMade
      BY <1>3, <3>1
    <3>2. CASE requestsMade' = Set(requestsMade, p, q, 0)
      BY <1>3, <3>2 DEF Set
    <3> QED
      BY <1>2, <3>1, <3>2
  <2>2. dialling' \in [Peer -> [Peer -> BOOLEAN]]
    <3>1. CASE dialling' = dialling
      BY <1>3, <3>1
    <3>2. CASE dialling' = Set(dialling, p, q, TRUE)
      BY <1>3, <3>2 DEF Set
    <3> QED
      BY <1>2, <3>1, <3>2
  <2> QED
    BY <2>1, <2>2 DEF IInv, TypeOK, PushRequest, slots, Count
<1>5. StreamsAllowed(stream)' /\ DiallersAsk'
  BY StreamsStay DEF IInv, PushRequest, DiallersAsk, Dialled
<1>6. ASSUME NEW r \in Peer, NEW s \in Peer
      PROVE  PairOK(r, s)'
  <2>1. PairOK(r, s) /\ calling \in [Peer -> Peer \cup {NoPeer}]
    BY DEF IInv, TypeOK
  <2>2. setting' = setting /\ connectMode' = connectMode /\ told' = told /\ dropping' = dropping
        /\ calling' = [calling EXCEPT ![p] = NoPeer]
    BY DEF PushRequest, slots
  <2>3. CASE r = p /\ s = q
    <3>1. requestsMade'[p][q] = requestsMade[p][q] \/ dialling'[p][q] = TRUE
      BY <1>2, <1>3 DEF Set
    <3>2. requestsMade'[p][q] # requestsMade[p][q] => ~Queued(p, q)
      BY <1>2
    <3> QED
      BY <1>1, <1>2, <2>1, <2>2, <2>3, <3>1, <3>2
      DEF PairOK, Queued, Active, Dialled, OneWay, Rejected
  <2>4. CASE ~(r = p /\ s = q)
    <3>1. requestsMade'[r][s] = requestsMade[r][s] /\ dialling'[r][s] = dialling[r][s]
      BY <1>2, <1>3, <2>4 DEF Set
    <3> QED
      BY <2>1, <2>2, <3>1 DEF PairOK, Queued, Active, Dialled, OneWay, Rejected
  <2> QED
    BY <2>3, <2>4
<1> QED
  BY <1>4, <1>5, <1>6 DEF IInv

\* A cancelled attempt leaves the queue.
LEMMA CancelKeeps ==
  ASSUME IInv, NEW p \in Peer, NEW q \in Peer, CancelConnectionAttempt(p, q)
  PROVE  IInv'
<1>1. /\ requestsMade \in [Peer -> [Peer -> Count]] /\ NotQueued \in Count
      /\ dialling \in [Peer -> [Peer -> BOOLEAN]]
  BY QueueType DEF IInv, TypeOK
<1>2. TypeOK'
  <2>1. spent' \in [Budgets -> Nat]
    BY SpendType DEF IInv, CancelConnectionAttempt, Budgets
  <2>2. requestsMade' \in [Peer -> [Peer -> Count]]
    BY <1>1 DEF Set, CancelConnectionAttempt
  <2>3. dialling' \in [Peer -> [Peer -> BOOLEAN]]
    BY <1>1 DEF Set, CancelConnectionAttempt
  <2> QED
    BY <2>1, <2>2, <2>3 DEF IInv, TypeOK, CancelConnectionAttempt, slots, Count
<1>3. StreamsAllowed(stream)' /\ DiallersAsk'
  BY StreamsStay DEF IInv, CancelConnectionAttempt, DiallersAsk, Dialled
<1>4. ASSUME NEW r \in Peer, NEW s \in Peer
      PROVE  PairOK(r, s)'
  <2>1. \/ requestsMade'[r][s] = NotQueued
        \/ requestsMade'[r][s] = requestsMade[r][s] /\ dialling'[r][s] = dialling[r][s]
    BY <1>1 DEF Set, CancelConnectionAttempt
  <2>2. PairOK(r, s)
    BY DEF IInv
  <2> QED
    BY <2>1, <2>2
    DEF PairOK, CancelConnectionAttempt, slots, Queued, Active, Dialled, OneWay, Rejected
<1> QED
  BY <1>2, <1>3, <1>4 DEF IInv

\* A close sends a notification and waits for it to be read.
LEMMA CloseKeeps ==
  ASSUME IInv, NEW p \in Peer, NEW q \in Peer, CloseConnection(p, q)
  PROVE  IInv'
<1>1. connectMode \in [Peer -> [Peer -> Mode]] /\ "DISCONNECT_ASAP" \in Mode
      /\ connectMode' = Set(connectMode, p, q, "DISCONNECT_ASAP")
  BY DEF IInv, TypeOK, Mode, ConnectMode, Disconnecting, CloseConnection, SetMode
<1>2. StreamsAllowed(stream)'
  <2>1. "DISCONNECTION_NOTIFICATION" \in May(p, q)
    BY DEF May, Ordered
  <2>2. StreamsAllowed(stream')
    BY <2>1, StreamSends DEF IInv, CloseConnection, Sent
  <2> QED
    BY <2>2, StreamsStay DEF CloseConnection
<1>3. TypeOK'
  <2>1. spent' \in [Budgets -> Nat]
    BY SpendType DEF IInv, CloseConnection, Budgets
  <2>2. connectMode' \in [Peer -> [Peer -> Mode]]
    BY <1>1 DEF Set
  <2> QED
    BY <1>2, <2>1, <2>2 DEF IInv, TypeOK, CloseConnection, users, Mode, StreamsAllowed
<1>4. DiallersAsk'
  BY DEF IInv, CloseConnection, DiallersAsk, Dialled
<1>5. ASSUME NEW r \in Peer, NEW s \in Peer
      PROVE  PairOK(r, s)'
  <2>1. \/ r = p /\ s = q /\ connectMode'[r][s] = "DISCONNECT_ASAP"
        \/ connectMode'[r][s] = connectMode[r][s]
    BY <1>1 DEF Set
  <2>2. PairOK(r, s)
    BY DEF IInv
  <2> QED
    BY <2>1, <2>2
    DEF PairOK, CloseConnection, users, Queued, Active, Dialled, OneWay, Rejected, Free
<1> QED
  BY <1>2, <1>3, <1>4, <1>5 DEF IInv

----------------------------------------------------------------------------
(* The update cycle: attempts *)

\* A request that is sent counts towards giving up ...
LEMMA SendRequest1Keeps ==
  ASSUME IInv, NEW p \in Peer, NEW q \in Peer, SendRequest1(p, q)
  PROVE  IInv'
<1> DEFINE made == requestsMade[p][q]
<1>1. made \in 0..SendConnectionAttemptCount
  <2>1. made \in Count /\ made # NotQueued /\ made # SendConnectionAttemptCount + 1
    BY DEF IInv, TypeOK, Count, SendRequest1, Queued
  <2> QED
    BY <2>1 DEF Count, NotQueued, NUM_MTU_SIZES
<1>2. PICK x \in 0..SendConnectionAttemptCount + 1 : requestsMade' = Set(requestsMade, p, q, x)
  BY <1>1, CounterInRange DEF SendRequest1
<1>3. requestsMade \in [Peer -> [Peer -> Count]] /\ x \in Count /\ x # NotQueued
  BY DEF IInv, TypeOK, Count, NotQueued, NUM_MTU_SIZES
<1>4. TypeOK'
  <2>1. requestsMade' \in [Peer -> [Peer -> Count]]
    BY <1>2, <1>3 DEF Set
  <2>2. spent' \in [Budgets -> Nat]
    <3>1. spent' = spent \/ Spend("faults")
      BY DEF SendRequest1
    <3>2. CASE spent' = spent
      BY <3>2 DEF IInv, TypeOK
    <3>3. CASE Spend("faults")
      <4>1. "faults" \in Budgets /\ TypeOK
        BY DEF Budgets, IInv
      <4> QED
        BY <3>3, <4>1, SpendType
    <3> QED
      BY <3>1, <3>2, <3>3
  <2>3. wire' \subseteq Datagram
    <3>1. wire' = wire \/ Post("REQUEST_1", p, q)
      BY DEF SendRequest1
    <3> QED
      BY <3>1, PostType DEF IInv, TypeOK, Datagram, Offline
  <2> QED
    BY <2>1, <2>2, <2>3 DEF IInv, TypeOK, SendRequest1, slots, users, Count, Datagram
<1>5. StreamsAllowed(stream)'
  BY StreamsStay DEF IInv, SendRequest1
<1>6. DiallersAsk'
  <2>1. wire' = wire \/ Post("REQUEST_1", p, q)
    BY DEF SendRequest1
  <2> QED
    BY <2>1 DEF IInv, DiallersAsk, Dialled, Post, SendRequest1
<1>7. ASSUME NEW r \in Peer, NEW s \in Peer
      PROVE  PairOK(r, s)'
  <2>1. Queued(r, s)' = Queued(r, s)
    BY <1>1, <1>2, <1>3 DEF Queued, Set, NotQueued, NUM_MTU_SIZES
  <2>2. PairOK(r, s)
    BY DEF IInv
  <2> QED
    BY <2>1, <2>2 DEF PairOK, SendRequest1, slots, users, Active, Dialled, OneWay, Rejected
<1> QED
  BY <1>4, <1>5, <1>6, <1>7 DEF IInv

\* ... and one too many gives the attempt up and tells the user.
LEMMA GiveUpKeeps ==
  ASSUME IInv, NEW p \in Peer, NEW q \in Peer, GiveUp(p, q)
  PROVE  IInv'
<1>1. /\ requestsMade \in [Peer -> [Peer -> Count]] /\ NotQueued \in Count
      /\ dialling \in [Peer -> [Peer -> BOOLEAN]]
  BY QueueType DEF IInv, TypeOK
<1>2. TypeOK'
  <2>1. requestsMade' \in [Peer -> [Peer -> Count]]
    BY <1>1 DEF Set, GiveUp
  <2>2. dialling' \in [Peer -> [Peer -> BOOLEAN]]
    BY <1>1 DEF Set, GiveUp
  <2> QED
    BY <2>1, <2>2 DEF IInv, TypeOK, GiveUp, slots, Count
<1>3. StreamsAllowed(stream)' /\ DiallersAsk'
  BY StreamsStay DEF IInv, GiveUp, DiallersAsk, Dialled
<1>4. ASSUME NEW r \in Peer, NEW s \in Peer
      PROVE  PairOK(r, s)'
  <2>1. \/ requestsMade'[r][s] = NotQueued
        \/ requestsMade'[r][s] = requestsMade[r][s] /\ dialling'[r][s] = dialling[r][s]
    BY <1>1 DEF Set, GiveUp
  <2>2. PairOK(r, s)
    BY DEF IInv
  <2> QED
    BY <2>1, <2>2 DEF PairOK, GiveUp, slots, Queued, Active, Dialled, OneWay, Rejected
<1> QED
  BY <1>2, <1>3, <1>4 DEF IInv

----------------------------------------------------------------------------
(* Offline messages *)

\* What is posted is of the right type, and asks for a slot only if p dials.
LEMMA PostKeeps ==
  ASSUME IInv, NEW type \in Offline \cup Refusals, NEW p \in Peer, NEW q \in Peer,
         Post(type, p, q), setting' = setting,
         type = "REQUEST_2" => Dialled(p, q)
  PROVE  wire' \subseteq Datagram /\ DiallersAsk'
<1>1. wire' \subseteq Datagram
  BY PostType DEF IInv
<1>2. DiallersAsk'
  BY DEF IInv, DiallersAsk, Dialled, Post
<1> QED
  BY <1>1, <1>2

\* An answer that changes nothing but the wire.
LEMMA AnswerKeeps ==
  ASSUME IInv, NEW type \in Offline \cup Refusals, NEW p \in Peer, NEW q \in Peer,
         Post(type, p, q), type = "REQUEST_2" => Dialled(p, q),
         UNCHANGED <<setting, requestsMade, slots, stream, banned, dropping, users, guid, spent>>
  PROVE  IInv'
<1>1. wire' \subseteq Datagram /\ DiallersAsk'
  BY PostKeeps
<1>2. TypeOK'
  BY <1>1 DEF IInv, TypeOK, slots, users, Datagram
<1>3. StreamsAllowed(stream)'
  BY StreamsStay DEF IInv
<1>4. ASSUME NEW r \in Peer, NEW s \in Peer
      PROVE  PairOK(r, s)'
  BY DEF IInv, PairOK, slots, users, Queued, Active, Dialled, OneWay, Rejected
<1> QED
  BY <1>1, <1>2, <1>3, <1>4 DEF IInv

\* What is on the wire is a datagram.
LEMMA MessageType ==
  ASSUME IInv, NEW m \in wire
  PROVE  m \in Datagram
  BY DEF IInv, TypeOK, Datagram

\* An OPEN_CONNECTION_REQUEST_2 takes a slot for a system that dials, or is
\* refused.
LEMMA OnRequest2Keeps ==
  ASSUME IInv, NEW m \in wire, OnRequest2(m.to, m),
         UNCHANGED <<setting, banned, dropping, calling, told, guid>>
  PROVE  IInv'
<1> DEFINE p == m.to
           q == m.from
<1>1. p \in Peer /\ q \in Peer /\ m.guid \in Peer \X Nat /\ Dialled(q, p)
  BY MessageType DEF IInv, DiallersAsk, OnRequest2, Datagram
<1>2. PICK type \in {"REPLY_2", "ALREADY_CONNECTED", "NO_FREE_INCOMING_CONNECTIONS"} :
        Post(type, p, q)
  BY DEF OnRequest2
<1>3. wire' \subseteq Datagram /\ DiallersAsk'
  BY <1>1, <1>2, PostKeeps DEF Offline, Refusals
<1>4. CASE UNCHANGED <<slots, stream, spent>>
  <2>1. type # "REQUEST_2" /\ type \in Offline \cup Refusals
    BY DEF Offline, Refusals
  <2> QED
    BY <1>1, <1>2, <1>4, <2>1, AnswerKeeps DEF OnRequest2, users
<1>5. CASE /\ ~Active(p, q)
           /\ Spend("admissions")
           /\ Assign(p, q, m.guid, "UNVERIFIED_SENDER", FALSE)
           /\ stream' = [stream EXCEPT ![p][q] = <<>>]
  <2>1. StreamsAllowed(stream)'
    <3>1. <<>> \in Seq(May(p, q))
      OBVIOUS
    <3>2. StreamsAllowed(stream')
      BY <1>1, <1>5, <3>1, StreamStarts DEF IInv
    <3> QED
      BY <3>2, StreamsStay
  <2>2. TypeOK'
    <3>1. spent' \in [Budgets -> Nat]
      BY <1>5, SpendType DEF IInv, Budgets
    <3>2. connectMode' \in [Peer -> [Peer -> ConnectMode \cup {Free}]]
      BY <1>1, <1>5 DEF IInv, TypeOK, Assign, Set, ConnectMode, Handshaking
    <3>3. weInitiated' \in [Peer -> [Peer -> BOOLEAN]]
      BY <1>1, <1>5 DEF IInv, TypeOK, Assign, Set
    <3>4. guidOf' \in [Peer -> [Peer -> (Peer \cup {NoPeer}) \X Nat]]
      <4>1. m.guid \in (Peer \cup {NoPeer}) \X Nat
        BY <1>1
      <4> QED
        BY <1>1, <1>5, <4>1 DEF IInv, TypeOK, Assign, Set
    <3>5. heard' \in [Peer -> [Peer -> {"nothing", "present", "former"}]]
      BY <1>1, <1>5 DEF IInv, TypeOK, Assign, Set
    <3> QED
      BY <1>3, <2>1, <3>1, <3>2, <3>3, <3>4, <3>5
      DEF IInv, TypeOK, OnRequest2, Datagram, StreamsAllowed
  <2>3. ASSUME NEW r \in Peer, NEW s \in Peer
        PROVE  PairOK(r, s)'
    <3>1. \/ r = p /\ s = q /\ connectMode'[r][s] = "UNVERIFIED_SENDER"
          \/ connectMode'[r][s] = connectMode[r][s]
      BY <1>1, <1>5 DEF IInv, TypeOK, Assign, Set
    <3>2. PairOK(r, s)
      BY DEF IInv
    <3>3. CASE connectMode'[r][s] = connectMode[r][s]
      BY <3>2, <3>3 DEF PairOK, OnRequest2, Queued, Active, Dialled, OneWay, Rejected
    <3>4. CASE r = p /\ s = q /\ connectMode'[r][s] = "UNVERIFIED_SENDER"
      <4>1. requestsMade' = requestsMade /\ dialling' = dialling
        BY DEF OnRequest2
      <4>2. OneWay(p, q) => ~Queued(p, q) /\ calling[p] # q /\ ~told[p][q]
        BY <1>1, <1>5, <3>2, <3>4 DEF PairOK, OneWay, Dialled, Active, Free
      <4> QED
        BY <3>2, <3>4, <4>1, <4>2 DEF PairOK, Queued, Active, Dialled, OneWay, Rejected
    <3> QED
      BY <3>1, <3>3, <3>4
  <2> QED
    BY <1>3, <2>1, <2>2, <2>3 DEF IInv
<1>6. (UNCHANGED <<slots, stream, spent>>)
      \/ /\ ~Active(p, q)
         /\ Spend("admissions")
         /\ Assign(p, q, m.guid, "UNVERIFIED_SENDER", FALSE)
         /\ stream' = [stream EXCEPT ![p][q] = <<>>]
  BY <1>1 DEF OnRequest2
<1> QED
  BY <1>4, <1>5, <1>6

\* An OPEN_CONNECTION_REPLY_2 takes the attempt out of the queue as it takes
\* its slot.
LEMMA OnReply2Keeps ==
  ASSUME IInv, NEW m \in wire, OnReply2(m.to, m),
         UNCHANGED <<setting, banned, dropping, calling, told, guid>>
  PROVE  IInv'
<1> DEFINE p == m.to
           q == m.from
<1>1. p \in Peer /\ q \in Peer /\ m.guid \in (Peer \cup {NoPeer}) \X Nat
  BY MessageType DEF Datagram
<1>2. PairOK(p, q) /\ Queued(p, q) /\ Dialled(p, q)
  BY <1>1 DEF IInv, PairOK, OnReply2
<1>3. requestsMade' = Set(requestsMade, p, q, NotQueued)
      /\ requestsMade \in [Peer -> [Peer -> Count]] /\ NotQueued \in Count
  BY QueueType DEF OnReply2
<1>4. requestsMade' \in [Peer -> [Peer -> Count]]
      /\ \A r, s \in Peer : requestsMade'[r][s] =
           IF r = p /\ s = q THEN NotQueued ELSE requestsMade[r][s]
  BY <1>1, <1>3 DEF Set
<1>5. "CONNECTION_REQUEST" \in May(p, q)
  BY <1>2 DEF May, Unordered
<1>6. DiallersAsk'
  BY DEF IInv, DiallersAsk, Dialled, OnReply2
<1>7. wire' = wire /\ spent' = spent
  BY DEF OnReply2
<1>8. CASE ~Active(p, q) /\ ~HasFreeSlot(p) /\ dialling' = Set(dialling, p, q, FALSE)
           /\ UNCHANGED <<slots, stream>>
  <2>1. dialling' \in [Peer -> [Peer -> BOOLEAN]]
    BY <1>1, <1>8 DEF IInv, TypeOK, Set
  <2>2. TypeOK'
    BY <1>4, <1>7, <1>8, <2>1 DEF IInv, TypeOK, slots, Count
  <2>3. StreamsAllowed(stream)'
    BY <1>8, StreamsStay DEF IInv
  <2>4. ASSUME NEW r \in Peer, NEW s \in Peer
        PROVE  PairOK(r, s)'
    <3>1. PairOK(r, s)
      BY DEF IInv
    <3>2. \/ requestsMade'[r][s] = NotQueued
          \/ requestsMade'[r][s] = requestsMade[r][s] /\ dialling'[r][s] = dialling[r][s]
      <4>1. dialling \in [Peer -> [Peer -> BOOLEAN]]
        BY DEF IInv, TypeOK
      <4>2. ~(r = p /\ s = q) => dialling'[r][s] = dialling[r][s]
        BY <1>1, <1>8, <4>1 DEF Set
      <4> QED
        BY <1>4, <4>2
    <3> QED
      BY <1>8, <3>1, <3>2 DEF PairOK, slots, Queued, Active, Dialled, OneWay, Rejected
  <2> QED
    BY <1>6, <2>2, <2>3, <2>4 DEF IInv
<1>9. CASE /\ dialling' = dialling
           /\ connectMode' = Set(connectMode, p, q, "REQUESTED_CONNECTION")
           /\ weInitiated' = Set(weInitiated, p, q, TRUE)
           /\ \/ /\ UNCHANGED <<guidOf, heard>>
                 /\ stream' = [stream EXCEPT ![p][q] = Append(@, "CONNECTION_REQUEST")]
              \/ /\ guidOf' = Set(guidOf, p, q, m.guid)
                 /\ heard' = Set(heard, p, q, "nothing")
                 /\ stream' = [stream EXCEPT ![p][q] = <<"CONNECTION_REQUEST">>]
  <2>1. StreamsAllowed(stream)'
    <3>1. <<"CONNECTION_REQUEST">> \in Seq(May(p, q))
      BY <1>5
    <3>2. StreamsAllowed([stream EXCEPT ![p][q] = <<"CONNECTION_REQUEST">>])
      BY <1>1, <3>1, StreamStarts DEF IInv
    <3>3. StreamsAllowed([stream EXCEPT ![p][q] = Append(@, "CONNECTION_REQUEST")])
      BY <1>1, <1>5, StreamSends DEF IInv
    <3>4. StreamsAllowed(stream')
      BY <1>9, <3>2, <3>3
    <3> QED
      BY <3>4, StreamsStay
  <2>2. /\ connectMode' \in [Peer -> [Peer -> ConnectMode \cup {Free}]]
        /\ \A r, s \in Peer : connectMode'[r][s] =
             IF r = p /\ s = q THEN "REQUESTED_CONNECTION" ELSE connectMode[r][s]
    <3>1. connectMode \in [Peer -> [Peer -> ConnectMode \cup {Free}]]
          /\ "REQUESTED_CONNECTION" \in ConnectMode \cup {Free}
      BY DEF IInv, TypeOK, ConnectMode, Handshaking
    <3>2. connectMode' = [connectMode EXCEPT ![p][q] = "REQUESTED_CONNECTION"]
      BY <1>9 DEF Set
    <3> QED
      BY <1>1, <3>1, <3>2
  <2>3. TypeOK'
    <3>1. weInitiated' \in [Peer -> [Peer -> BOOLEAN]]
      BY <1>1, <1>9 DEF IInv, TypeOK, Set
    <3>2. guidOf' \in [Peer -> [Peer -> (Peer \cup {NoPeer}) \X Nat]]
      <4>1. guidOf \in [Peer -> [Peer -> (Peer \cup {NoPeer}) \X Nat]]
        BY DEF IInv, TypeOK
      <4>2. Set(guidOf, p, q, m.guid) \in [Peer -> [Peer -> (Peer \cup {NoPeer}) \X Nat]]
        BY <1>1, <4>1 DEF Set
      <4> QED
        BY <1>9, <4>1, <4>2
    <3>3. heard' \in [Peer -> [Peer -> {"nothing", "present", "former"}]]
      <4>1. heard \in [Peer -> [Peer -> {"nothing", "present", "former"}]]
        BY DEF IInv, TypeOK
      <4>2. Set(heard, p, q, "nothing") \in [Peer -> [Peer -> {"nothing", "present", "former"}]]
        BY <1>1, <4>1 DEF Set
      <4> QED
        BY <1>9, <4>1, <4>2
    <3> QED
      BY <1>4, <1>7, <1>9, <2>1, <2>2, <3>1, <3>2, <3>3
      DEF IInv, TypeOK, Count, StreamsAllowed
  <2>4. ASSUME NEW r \in Peer, NEW s \in Peer
        PROVE  PairOK(r, s)'
    <3>1. PairOK(r, s)
      BY DEF IInv
    <3>2. CASE r = p /\ s = q
      <4>1. requestsMade'[p][q] = NotQueued /\ connectMode'[p][q] = "REQUESTED_CONNECTION"
        BY <1>1, <1>4, <2>2
      <4>2. OneWay(p, q) => calling[p] # q /\ ~told[p][q]
        BY <1>2 DEF PairOK, Active, Free
      <4> QED
        BY <1>2, <3>1, <3>2, <4>1, <4>2
        DEF PairOK, Queued, Active, Dialled, OneWay, Rejected
    <3>3. CASE ~(r = p /\ s = q)
      <4>1. requestsMade'[r][s] = requestsMade[r][s] /\ connectMode'[r][s] = connectMode[r][s]
        BY <1>4, <2>2, <3>3
      <4> QED
        BY <1>9, <3>1, <4>1 DEF PairOK, Queued, Active, Dialled, OneWay, Rejected
    <3> QED
      BY <3>2, <3>3
  <2> QED
    BY <1>6, <2>1, <2>3, <2>4 DEF IInv
<1> QED
  BY <1>8, <1>9 DEF OnReply2, Assign, SetMode

\* A refusal takes the attempt out of the queue and tells the user.
LEMMA OnRefusalKeeps ==
  ASSUME IInv, NEW m \in wire, OnRefusal(m.to, m),
         UNCHANGED <<setting, banned, dropping, calling, told, guid>>
  PROVE  IInv'
<1> DEFINE p == m.to
           q == m.from
<1>1. p \in Peer /\ q \in Peer
  BY MessageType DEF Datagram
<1>2. /\ requestsMade \in [Peer -> [Peer -> Count]] /\ NotQueued \in Count
      /\ dialling \in [Peer -> [Peer -> BOOLEAN]]
  BY QueueType DEF IInv, TypeOK
<1>3. TypeOK'
  <2>1. requestsMade' \in [Peer -> [Peer -> Count]]
    BY <1>1, <1>2 DEF Set, OnRefusal
  <2>2. dialling' \in [Peer -> [Peer -> BOOLEAN]]
    BY <1>1, <1>2 DEF Set, OnRefusal
  <2> QED
    BY <2>1, <2>2 DEF IInv, TypeOK, OnRefusal, slots, Count
<1>4. StreamsAllowed(stream)' /\ DiallersAsk'
  BY StreamsStay DEF IInv, OnRefusal, DiallersAsk, Dialled
<1>5. ASSUME NEW r \in Peer, NEW s \in Peer
      PROVE  PairOK(r, s)'
  <2>1. \/ requestsMade'[r][s] = NotQueued
        \/ requestsMade'[r][s] = requestsMade[r][s] /\ dialling'[r][s] = dialling[r][s]
    BY <1>1, <1>2 DEF Set, OnRefusal
  <2>2. PairOK(r, s)
    BY DEF IInv
  <2> QED
    BY <2>1, <2>2 DEF PairOK, OnRefusal, slots, Queued, Active, Dialled, OneWay, Rejected
<1> QED
  BY <1>3, <1>4, <1>5 DEF IInv

\* Every offline message keeps the invariant.
LEMMA OfflineKeeps ==
  ASSUME IInv, NEW p \in Peer, NEW m \in wire, ProcessOfflineNetworkPacket(p, m)
  PROVE  IInv'
<1>1. m \in Datagram /\ m.to = p /\ m.from \in Peer
      /\ UNCHANGED <<setting, banned, dropping, calling, told, guid>>
  BY MessageType DEF ProcessOfflineNetworkPacket, Datagram
<1>2. ASSUME NEW type \in Offline \cup Refusals, Post(type, p, m.from),
             type = "REQUEST_2" => Dialled(p, m.from),
             UNCHANGED <<requestsMade, slots, stream, dialling, spent>>
      PROVE  IInv'
  BY <1>1, <1>2, AnswerKeeps DEF users
<1>3. CASE OnBanned(p, m)
  BY <1>2, <1>3 DEF OnBanned, Offline, Refusals
<1>4. CASE OnRequest1(p, m)
  BY <1>2, <1>4 DEF OnRequest1, Offline, Refusals
<1>5. CASE OnReply1(p, m)
  <2>1. Dialled(p, m.from)
    BY <1>1, <1>5 DEF OnReply1, IInv, PairOK
  <2> QED
    BY <1>2, <1>5, <2>1 DEF OnReply1, Offline, Refusals
<1>6. CASE OnRequest2(p, m)
  BY <1>1, <1>6, OnRequest2Keeps
<1>7. CASE OnReply2(p, m)
  BY <1>1, <1>7, OnReply2Keeps
<1>8. CASE OnRefusal(p, m)
  BY <1>1, <1>8, OnRefusalKeeps
<1> QED
  BY <1>3, <1>4, <1>5, <1>6, <1>7, <1>8 DEF ProcessOfflineNetworkPacket

----------------------------------------------------------------------------
(* Connected messages *)

\* A message of q has been taken by p, s being what is left of the streams; the
\* slot of p now has the given mode.
TakenAs(p, q, s, mode) ==
  /\ StreamsAllowed(s)
  /\ connectMode' = Set(connectMode, p, q, mode)
  /\ heard' = Set(heard, p, q, "present")
  /\ UNCHANGED <<setting, requestsMade, wire, dropping, calling, guid, spent,
                 weInitiated, guidOf, banned>>

\* g says the same as f of all pairs but one.
ChangedAt(p, q, f, g) ==
  /\ g \in [Peer -> [Peer -> BOOLEAN]]
  /\ \A r, t \in Peer : ~(r = p /\ t = q) => g[r][t] = f[r][t]

\* Setting one entry of a map changes no other.
LEMMA Changes ==
  ASSUME NEW f \in [Peer -> [Peer -> BOOLEAN]], NEW p \in Peer, NEW q \in Peer
  PROVE  /\ ChangedAt(p, q, f, f)
         /\ ChangedAt(p, q, f, Set(f, p, q, TRUE)) /\ Set(f, p, q, TRUE)[p][q]
         /\ ChangedAt(p, q, f, Set(f, p, q, FALSE)) /\ ~Set(f, p, q, FALSE)[p][q]
<1>1. ChangedAt(p, q, f, f)
  BY DEF ChangedAt
<1>2. ChangedAt(p, q, f, Set(f, p, q, TRUE)) /\ Set(f, p, q, TRUE)[p][q]
  <2>1. Set(f, p, q, TRUE) \in [Peer -> [Peer -> BOOLEAN]]
    BY DEF Set
  <2>2. \A r, t \in Peer : ~(r = p /\ t = q) => Set(f, p, q, TRUE)[r][t] = f[r][t]
    BY DEF Set
  <2>3. Set(f, p, q, TRUE)[p][q]
    BY DEF Set
  <2> QED
    BY <2>1, <2>2, <2>3 DEF ChangedAt
<1>3. ChangedAt(p, q, f, Set(f, p, q, FALSE)) /\ ~Set(f, p, q, FALSE)[p][q]
  <2>1. Set(f, p, q, FALSE) \in [Peer -> [Peer -> BOOLEAN]]
    BY DEF Set
  <2>2. \A r, t \in Peer : ~(r = p /\ t = q) => Set(f, p, q, FALSE)[r][t] = f[r][t]
    BY DEF Set
  <2>3. ~Set(f, p, q, FALSE)[p][q]
    BY DEF Set
  <2> QED
    BY <2>1, <2>2, <2>3 DEF ChangedAt
<1> QED
  BY <1>1, <1>2, <1>3

\* Two parts of the type invariant that the provers want apart.
LEMMA BooleanMaps ==
  ASSUME IInv
  PROVE  told \in [Peer -> [Peer -> BOOLEAN]] /\ dialling \in [Peer -> [Peer -> BOOLEAN]]
  BY DEF IInv, TypeOK

\* A slot that is there, and is not about to be freed, may take any mode that
\* agrees with what the user is told at the same time.
LEMMA TakenKeeps ==
  ASSUME IInv, NEW p \in Peer, NEW q \in Peer, NEW s, NEW mode \in ConnectMode,
         TakenAs(p, q, s, mode), Active(p, q), dropping[p] = NoPeer,
         ChangedAt(p, q, told, told'), ChangedAt(p, q, dialling, dialling'),
         StreamsAllowed(stream'),
         mode = "CONNECTED" => told'[p][q],
         OneWay(p, q) /\ told'[p][q] =>
           mode \in {"CONNECTED", "DISCONNECT_ASAP", "DISCONNECT_ON_NO_ACK"},
         Rejected(p, q) =>
           mode \notin {"HANDLING_CONNECTION_REQUEST", "CONNECTED"} /\ ~told'[p][q]
  PROVE  IInv'
<1>1. q # NoPeer
  OBVIOUS
<1>2. StreamsAllowed(stream)' /\ DiallersAsk'
  BY StreamsStay DEF TakenAs, IInv, DiallersAsk, Dialled
<1>3. TypeOK'
  <2>1. connectMode' \in [Peer -> [Peer -> ConnectMode \cup {Free}]]
    BY DEF IInv, TypeOK, TakenAs, Set
  <2>2. heard' \in [Peer -> [Peer -> {"nothing", "present", "former"}]]
    BY DEF IInv, TypeOK, TakenAs, Set
  <2>3. told' \in [Peer -> [Peer -> BOOLEAN]] /\ dialling' \in [Peer -> [Peer -> BOOLEAN]]
    BY DEF ChangedAt
  <2> QED
    BY <1>2, <2>1, <2>2, <2>3 DEF IInv, TypeOK, TakenAs, StreamsAllowed
<1>4. ASSUME NEW r \in Peer, NEW t \in Peer
      PROVE  PairOK(r, t)'
  <2>1. PairOK(r, t)
    BY DEF IInv
  <2>2. CASE r = p /\ t = q
    <3>1. connectMode'[p][q] = mode
      BY DEF IInv, TypeOK, TakenAs, Set
    <3>2. mode # Free
      BY DEF ConnectMode, Handshaking, Disconnecting, Free
    <3>3. OneWay(p, q) => ~Queued(p, q) /\ calling[p] # q
      BY <2>1, <2>2 DEF PairOK
    <3> QED
      BY <1>1, <2>1, <2>2, <3>1, <3>2, <3>3
      DEF PairOK, TakenAs, Queued, Active, Dialled, OneWay, Rejected
  <2>3. CASE ~(r = p /\ t = q)
    <3>1. connectMode'[r][t] = connectMode[r][t]
      BY <2>3 DEF IInv, TypeOK, TakenAs, Set
    <3>2. told'[r][t] = told[r][t] /\ dialling'[r][t] = dialling[r][t]
      BY <2>3 DEF ChangedAt
    <3> QED
      BY <2>1, <3>1, <3>2 DEF PairOK, TakenAs, Queued, Active, Dialled, OneWay, Rejected
  <2> QED
    BY <2>2, <2>3
<1> QED
  BY <1>2, <1>3, <1>4 DEF IInv

\* What is there of the pair before a message is taken.
LEMMA TakenBefore ==
  ASSUME IInv, NEW p \in Peer, NEW q \in Peer, Active(p, q)
  PROVE  /\ connectMode[p][q] \in ConnectMode
         /\ connectMode = Set(connectMode, p, q, connectMode[p][q])
         /\ ChangedAt(p, q, told, told) /\ ChangedAt(p, q, dialling, dialling)
         /\ PairOK(p, q)
<1>1. connectMode \in [Peer -> [Peer -> ConnectMode \cup {Free}]]
  BY DEF IInv, TypeOK
<1>2. connectMode[p][q] \in ConnectMode
  BY <1>1 DEF Active
<1>3. connectMode = Set(connectMode, p, q, connectMode[p][q])
  BY <1>1 DEF Set
<1>4. ChangedAt(p, q, told, told) /\ ChangedAt(p, q, dialling, dialling)
  BY BooleanMaps, Changes
<1> QED
  BY <1>2, <1>3, <1>4 DEF IInv

\* What each of the handlers may rely on.
Taking(p, q, message, s) ==
  /\ Active(p, q) /\ dropping[p] = NoPeer
  /\ message \in May(q, p)
  /\ StreamsAllowed(s)
  /\ UNCHANGED <<setting, requestsMade, wire, dropping, calling, guid, spent>>

\* A connection request is accepted or rejected by its password.
LEMMA OnConnectionRequestKeeps ==
  ASSUME IInv, NEW p \in Peer, NEW q \in Peer, NEW message, NEW s,
         Taking(p, q, message, s), OnConnectionRequest(p, q, message, s)
  PROVE  IInv'
<1> DEFINE mode == connectMode[p][q]
           wrong == <<q, p>> \in setting.wrongPassword
<1>1. Dialled(q, p)
  BY DEF OnConnectionRequest, Taking, May
<1>2. Rejected(p, q) => wrong
  <2>1. setting \in Settings
    BY DEF IInv, TypeOK
  <2>2. setting.wrongPassword \subseteq setting.dials
    BY <2>1
  <2> QED
    BY <1>1, <2>2 DEF Rejected, OneWay, Dialled
<1>3. StreamsAllowed(s) /\ mode \in ConnectMode /\ PairOK(p, q)
  BY TakenBefore DEF Taking
<1>4. PICK next \in ConnectMode :
        /\ connectMode' = Set(connectMode, p, q, next)
        /\ next = "CONNECTED" => mode = "CONNECTED"
        /\ next # mode => mode \in {"UNVERIFIED_SENDER", "REQUESTED_CONNECTION"}
        /\ Rejected(p, q) => next \notin {"HANDLING_CONNECTION_REQUEST", "CONNECTED"}
  <2>1. CASE mode \in {"UNVERIFIED_SENDER", "REQUESTED_CONNECTION"}
    BY <1>2, <2>1
    DEF OnConnectionRequest, ParseConnectionRequestPacket, SetMode, ConnectMode, Handshaking,
        Disconnecting
  <2>2. CASE mode \notin {"UNVERIFIED_SENDER", "REQUESTED_CONNECTION"}
    BY <1>3, <2>2, TakenBefore DEF Taking, OnConnectionRequest, PairOK
  <2> QED
    BY <2>1, <2>2
<1>5. StreamsAllowed(stream')
  <2>1. "INVALID_PASSWORD" \in May(p, q)
    BY DEF May, Unordered
  <2>2. ~Rejected(p, q) => "CONNECTION_REQUEST_ACCEPTED" \in May(p, q)
    BY DEF May, Ordered
  <2>3. \A x \in May(p, q) : StreamsAllowed([s EXCEPT ![p][q] = Append(@, x)])
    BY <1>3, StreamSends
  <2>4. CASE mode \in {"UNVERIFIED_SENDER", "REQUESTED_CONNECTION"}
    BY <1>2, <2>1, <2>2, <2>3, <2>4 DEF OnConnectionRequest, ParseConnectionRequestPacket
  <2>5. CASE mode \notin {"UNVERIFIED_SENDER", "REQUESTED_CONNECTION"}
    <3>1. CASE mode \in Disconnecting
      BY <1>3, <2>5, <3>1 DEF OnConnectionRequest
    <3>2. CASE mode \notin Disconnecting
      <4>1. mode \in {"HANDLING_CONNECTION_REQUEST", "CONNECTED"}
        BY <1>3, <2>5, <3>2 DEF ConnectMode, Handshaking
      <4>2. ~Rejected(p, q)
        BY <1>3, <4>1 DEF PairOK
      <4> QED
        BY <2>2, <2>3, <2>5, <3>2, <4>2 DEF OnConnectionRequest
    <3> QED
      BY <3>1, <3>2
  <2> QED
    BY <2>4, <2>5
<1>6. TakenAs(p, q, s, next) /\ told' = told /\ dialling' = dialling
  BY <1>3, <1>4 DEF TakenAs, Taking, OnConnectionRequest
<1>7. /\ next = "CONNECTED" => told[p][q]
      /\ OneWay(p, q) /\ told[p][q] =>
           next \in {"CONNECTED", "DISCONNECT_ASAP", "DISCONNECT_ON_NO_ACK"}
      /\ Rejected(p, q) => ~told[p][q]
  <2>1. dropping[p] # q
    BY DEF Taking
  <2> QED
    BY <1>3, <1>4, <2>1 DEF PairOK
<1> QED
  BY <1>4, <1>5, <1>6, <1>7, TakenBefore, TakenKeeps DEF Taking

\* The last message of the handshake connects the side that was dialled and
\* tells its user.
LEMMA OnNewIncomingConnectionKeeps ==
  ASSUME IInv, NEW p \in Peer, NEW q \in Peer, NEW message, NEW s,
         Taking(p, q, message, s), OnNewIncomingConnection(p, q, message, s)
  PROVE  IInv'
<1> DEFINE mode == connectMode[p][q]
<1>1. StreamsAllowed(s) /\ StreamsAllowed(stream') /\ mode \in ConnectMode /\ PairOK(p, q)
      /\ dropping[p] # q
  BY TakenBefore DEF Taking, OnNewIncomingConnection
<1>2. CASE mode = "HANDLING_CONNECTION_REQUEST"
  <2>1. TakenAs(p, q, s, "CONNECTED") /\ told' = Set(told, p, q, TRUE) /\ dialling' = dialling
    BY <1>1, <1>2 DEF TakenAs, Taking, OnNewIncomingConnection, SetMode
  <2>2. ~Rejected(p, q) /\ "CONNECTED" \in ConnectMode
    BY <1>1, <1>2 DEF PairOK, ConnectMode
  <2>3. ChangedAt(p, q, told, told') /\ told'[p][q] /\ ChangedAt(p, q, dialling, dialling')
    BY <2>1, BooleanMaps, Changes
  <2> QED
    BY <1>1, <2>1, <2>2, <2>3, TakenKeeps DEF Taking
<1>3. CASE mode # "HANDLING_CONNECTION_REQUEST"
  <2>1. TakenAs(p, q, s, mode) /\ told' = told /\ dialling' = dialling
    BY <1>1, <1>3, TakenBefore DEF TakenAs, Taking, OnNewIncomingConnection
  <2> QED
    BY <1>1, <2>1, TakenBefore, TakenKeeps DEF Taking, PairOK
<1> QED
  BY <1>2, <1>3

\* A notification begins the end of a connection.
LEMMA OnDisconnectionNotificationKeeps ==
  ASSUME IInv, NEW p \in Peer, NEW q \in Peer, NEW message, NEW s,
         Taking(p, q, message, s), OnDisconnectionNotification(p, q, message, s)
  PROVE  IInv'
<1>1. StreamsAllowed(stream') /\ PairOK(p, q) /\ dropping[p] # q
  BY TakenBefore DEF Taking, OnDisconnectionNotification
<1>2. TakenAs(p, q, s, "DISCONNECT_ON_NO_ACK") /\ told' = told /\ dialling' = dialling
  BY DEF TakenAs, Taking, OnDisconnectionNotification, SetMode
<1>3. "DISCONNECT_ON_NO_ACK" \in ConnectMode
  BY DEF ConnectMode, Disconnecting
<1> QED
  BY <1>1, <1>2, <1>3, TakenBefore, TakenKeeps DEF Taking, PairOK

\* A rejected password ends the attempt and tells the user.
LEMMA OnInvalidPasswordKeeps ==
  ASSUME IInv, NEW p \in Peer, NEW q \in Peer, NEW message, NEW s,
         Taking(p, q, message, s), OnInvalidPassword(p, q, message, s)
  PROVE  IInv'
<1> DEFINE mode == connectMode[p][q]
<1>1. StreamsAllowed(s) /\ StreamsAllowed(stream') /\ mode \in ConnectMode /\ PairOK(p, q)
      /\ dropping[p] # q
  BY TakenBefore DEF Taking, OnInvalidPassword
<1>2. CASE mode = "REQUESTED_CONNECTION"
  <2>1. TakenAs(p, q, s, "DISCONNECT_ASAP_SILENTLY")
        /\ told' = told /\ dialling' = Set(dialling, p, q, FALSE)
    BY <1>1, <1>2 DEF TakenAs, Taking, OnInvalidPassword, SetMode
  <2>2. "DISCONNECT_ASAP_SILENTLY" \in ConnectMode
    BY DEF ConnectMode, Disconnecting
  <2>3. OneWay(p, q) => ~told[p][q]
    BY <1>1, <1>2 DEF PairOK
  <2>4. Rejected(p, q) => ~told[p][q]
    BY <1>1 DEF PairOK
  <2>5. ChangedAt(p, q, told, told') /\ ChangedAt(p, q, dialling, dialling')
    BY <2>1, BooleanMaps, Changes
  <2> QED
    BY <1>1, <2>1, <2>2, <2>3, <2>4, <2>5, TakenKeeps DEF Taking
<1>3. CASE mode # "REQUESTED_CONNECTION"
  <2>1. TakenAs(p, q, s, mode) /\ told' = told /\ dialling' = dialling
    BY <1>1, <1>3, TakenBefore DEF TakenAs, Taking, OnInvalidPassword
  <2> QED
    BY <1>1, <2>1, TakenBefore, TakenKeeps DEF Taking, PairOK
<1> QED
  BY <1>2, <1>3

\* An acceptance connects the side that dialled and tells its user.
LEMMA OnConnectionRequestAcceptedKeeps ==
  ASSUME IInv, NEW p \in Peer, NEW q \in Peer, NEW message, NEW s,
         Taking(p, q, message, s), OnConnectionRequestAccepted(p, q, message, s)
  PROVE  IInv'
<1> DEFINE mode == connectMode[p][q]
<1>1. StreamsAllowed(s) /\ mode \in ConnectMode /\ PairOK(p, q) /\ dropping[p] # q
  BY TakenBefore DEF Taking
<1>2. ~Rejected(p, q)
  <2>1. ~Rejected(q, p)
    BY DEF OnConnectionRequestAccepted, Taking, May
  <2> QED
    BY <2>1 DEF Rejected, OneWay
<1>3. CASE mode \in {"HANDLING_CONNECTION_REQUEST", "REQUESTED_CONNECTION"}
  <2>1. /\ TakenAs(p, q, s, "CONNECTED")
        /\ told' = Set(told, p, q, TRUE) /\ dialling' = Set(dialling, p, q, FALSE)
    BY <1>1, <1>3 DEF TakenAs, Taking, OnConnectionRequestAccepted, SetMode
  <2>2. StreamsAllowed(stream')
    <3>1. "NEW_INCOMING_CONNECTION" \in May(p, q)
      BY DEF May, Ordered
    <3> QED
      BY <1>1, <1>3, <3>1, StreamSends DEF OnConnectionRequestAccepted
  <2>3. "CONNECTED" \in ConnectMode
    BY DEF ConnectMode
  <2>4. ChangedAt(p, q, told, told') /\ told'[p][q] /\ ChangedAt(p, q, dialling, dialling')
    BY <2>1, BooleanMaps, Changes
  <2> QED
    BY <1>1, <1>2, <2>1, <2>2, <2>3, <2>4, TakenKeeps DEF Taking
<1>4. CASE mode \notin {"HANDLING_CONNECTION_REQUEST", "REQUESTED_CONNECTION"}
  <2>1. TakenAs(p, q, s, mode) /\ told' = told /\ dialling' = dialling /\ StreamsAllowed(stream')
    BY <1>1, <1>4, TakenBefore DEF TakenAs, Taking, OnConnectionRequestAccepted
  <2> QED
    BY <1>1, <2>1, TakenBefore, TakenKeeps DEF Taking, PairOK
<1> QED
  BY <1>3, <1>4

\* A slot is freed of which the user is not told any more, unless both dial.
LEMMA FreedKeeps ==
  ASSUME IInv, NEW p \in Peer, NEW q \in Peer, CloseConnectionInternal(p, q),
         OneWay(p, q) => ~told[p][q],
         StreamsAllowed(stream'),
         banned' \in [Peer -> SUBSET Peer],
         \/ dropping' = dropping
         \/ dropping[p] = q /\ dropping' = [dropping EXCEPT ![p] = NoPeer],
         UNCHANGED <<setting, requestsMade, wire, users, guid, spent>>
  PROVE  IInv'
<1>1. /\ connectMode' \in [Peer -> [Peer -> ConnectMode \cup {Free}]]
      /\ \A r, t \in Peer :
           connectMode'[r][t] = IF r = p /\ t = q THEN Free ELSE connectMode[r][t]
  <2>1. connectMode \in [Peer -> [Peer -> ConnectMode \cup {Free}]]
    BY DEF IInv, TypeOK
  <2>2. connectMode' = [connectMode EXCEPT ![p][q] = Free]
    BY DEF CloseConnectionInternal, Set
  <2> QED
    BY <2>1, <2>2
<1>2. TypeOK'
  <2>1. heard' \in [Peer -> [Peer -> {"nothing", "present", "former"}]]
    <3>1. heard \in [Peer -> [Peer -> {"nothing", "present", "former"}]]
      BY DEF IInv, TypeOK
    <3>2. Forsaken(heard[q][p]) \in {"nothing", "present", "former"}
      BY <3>1 DEF Forsaken
    <3>3. heard' = [heard EXCEPT ![q][p] = Forsaken(heard[q][p])]
      BY DEF CloseConnectionInternal
    <3> QED
      BY <3>1, <3>2, <3>3
  <2>2. dropping' \in [Peer -> Peer \cup {NoPeer}]
    <3>1. dropping \in [Peer -> Peer \cup {NoPeer}]
      BY DEF IInv, TypeOK
    <3> QED
      BY <3>1
  <2>3. stream' \in [Peer -> [Peer -> Seq(Unordered \cup Ordered)]]
    BY DEF StreamsAllowed
  <2> QED
    BY <1>1, <2>1, <2>2, <2>3 DEF IInv, TypeOK, CloseConnectionInternal, users
<1>3. StreamsAllowed(stream)' /\ DiallersAsk'
  BY StreamsStay DEF IInv, DiallersAsk, Dialled
<1>4. ASSUME NEW r \in Peer, NEW t \in Peer
      PROVE  PairOK(r, t)'
  <2>1. PairOK(r, t) /\ dropping \in [Peer -> Peer \cup {NoPeer}]
    BY DEF IInv, TypeOK
  <2>2. CASE r = p /\ t = q
    <3>1. connectMode'[p][q] = Free
      BY <1>1
    <3> QED
      BY <2>1, <2>2, <3>1 DEF PairOK, users, Queued, Active, Dialled, OneWay, Rejected, Free
  <2>3. CASE ~(r = p /\ t = q)
    <3>1. connectMode'[r][t] = connectMode[r][t]
      BY <1>1, <2>3
    <3>2. dropping'[r] = t <=> dropping[r] = t
      BY <2>1, <2>3
    <3> QED
      BY <2>1, <3>1, <3>2 DEF PairOK, users, Queued, Active, Dialled, OneWay, Rejected
  <2> QED
    BY <2>2, <2>3
<1> QED
  BY <1>2, <1>3, <1>4 DEF IInv

\* An unverified sender's message that is no request frees its slot and bans it.
LEMMA OnNonsenseKeeps ==
  ASSUME IInv, NEW p \in Peer, NEW q \in Peer, NEW message, NEW s,
         Taking(p, q, message, s), OnNonsense(p, q, message, s)
  PROVE  IInv'
<1>1. PairOK(p, q)
  BY DEF IInv
<1>2. OneWay(p, q) => ~told[p][q]
  BY <1>1 DEF PairOK, OnNonsense
<1>3. banned' \in [Peer -> SUBSET Peer]
  <2>1. banned \in [Peer -> SUBSET Peer]
    BY DEF IInv, TypeOK
  <2>2. banned' = [banned EXCEPT ![p] = banned[p] \cup {q}]
    BY DEF OnNonsense
  <2> QED
    BY <2>1, <2>2
<1>4. StreamsAllowed(stream')
  BY DEF Taking, OnNonsense
<1>5. CloseConnectionInternal(p, q)
  BY DEF OnNonsense
<1>6. UNCHANGED <<setting, requestsMade, wire, users, guid, spent>> /\ dropping' = dropping
  BY DEF Taking, OnNonsense, users
<1> QED
  BY <1>2, <1>3, <1>4, <1>5, <1>6, FreedKeeps

\* Every connected message keeps the invariant ...
LEMMA ReceiveKeeps ==
  ASSUME IInv, NEW p \in Peer, NEW q \in Peer, Receive(p, q)
  PROVE  IInv'
<1>1. PICK k \in Deliverable(q, p) :
        LET message == stream[q][p][k]
            s == [stream EXCEPT ![q][p] = RemoveAt(@, k)]
        IN \/ OnNonsense(p, q, message, s)
           \/ OnConnectionRequest(p, q, message, s)
           \/ OnNewIncomingConnection(p, q, message, s)
           \/ OnDisconnectionNotification(p, q, message, s)
           \/ OnInvalidPassword(p, q, message, s)
           \/ OnConnectionRequestAccepted(p, q, message, s)
  BY DEF Receive
<1> DEFINE message == stream[q][p][k]
           s == [stream EXCEPT ![q][p] = RemoveAt(@, k)]
<1>2. k \in DOMAIN stream[q][p] /\ StreamsAllowed(stream)
  BY DEF Deliverable, IInv
<1>3. message \in May(q, p)
  BY <1>2 DEF StreamsAllowed
<1>4. StreamsAllowed(s)
  BY <1>2, StreamTakes
<1>5. Taking(p, q, message, s)
  BY <1>3, <1>4 DEF Taking, Receive
<1> HIDE DEF message, s
<1> QED
  BY <1>1, <1>5, OnNonsenseKeeps, OnConnectionRequestKeeps, OnNewIncomingConnectionKeeps,
     OnDisconnectionNotificationKeeps, OnInvalidPasswordKeeps, OnConnectionRequestAcceptedKeeps
  DEF message, s

\* ... and so does one that is dropped as a duplicate.
LEMMA TakenForDuplicateKeeps ==
  ASSUME IInv, NEW p \in Peer, NEW q \in Peer, TakenForDuplicate(p, q)
  PROVE  IInv'
<1>1. PICK k \in Deliverable(q, p) : stream' = [stream EXCEPT ![q][p] = RemoveAt(@, k)]
  BY DEF TakenForDuplicate
<1>2. StreamsAllowed(stream')
  BY <1>1, StreamTakes DEF IInv, Deliverable
<1>3. TypeOK'
  BY <1>2 DEF IInv, TypeOK, TakenForDuplicate, slots, users, StreamsAllowed
<1>4. StreamsAllowed(stream)' /\ DiallersAsk'
  BY <1>2, StreamsStay DEF IInv, TakenForDuplicate, DiallersAsk, Dialled
<1>5. ASSUME NEW r \in Peer, NEW t \in Peer
      PROVE  PairOK(r, t)'
  BY DEF IInv, PairOK, TakenForDuplicate, slots, users, Queued, Active, Dialled, OneWay, Rejected
<1> QED
  BY <1>3, <1>4, <1>5 DEF IInv

----------------------------------------------------------------------------
(* The update cycle: slots *)

\* A slot that is dropped tells the user if it had been announced: whether it
\* is closed ...
LEMMA DropKeeps ==
  ASSUME IInv, NEW p \in Peer, NEW q \in Peer, Drop(p, q), spent' \in [Budgets -> Nat]
  PROVE  IInv'
<1> DEFINE mode == connectMode[p][q]
<1>1. /\ ChangedAt(p, q, told, told') /\ ChangedAt(p, q, dialling, dialling')
      /\ mode \in {"CONNECTED", "DISCONNECT_ASAP", "DISCONNECT_ON_NO_ACK"} => ~told'[p][q]
      /\ mode \notin {"CONNECTED", "DISCONNECT_ASAP", "DISCONNECT_ON_NO_ACK"} => told' = told
  BY BooleanMaps, Changes DEF Drop, Announce
<1>2. dropping' = [dropping EXCEPT ![p] = q] /\ dropping \in [Peer -> Peer \cup {NoPeer}]
      /\ dropping[p] = NoPeer
  BY DEF IInv, TypeOK, Drop
<1>3. TypeOK'
  <2>1. dropping' \in [Peer -> Peer \cup {NoPeer}]
    BY <1>2
  <2>2. told' \in [Peer -> [Peer -> BOOLEAN]] /\ dialling' \in [Peer -> [Peer -> BOOLEAN]]
    BY <1>1 DEF ChangedAt
  <2> QED
    BY <2>1, <2>2 DEF IInv, TypeOK, Drop, slots
<1>4. StreamsAllowed(stream)' /\ DiallersAsk'
  BY StreamsStay DEF IInv, Drop, DiallersAsk, Dialled
<1>5. ASSUME NEW r \in Peer, NEW t \in Peer
      PROVE  PairOK(r, t)'
  <2>1. PairOK(r, t)
    BY DEF IInv
  <2>2. CASE r = p /\ t = q
    <3>1. dropping'[p] = q
      BY <1>2
    <3>2. OneWay(p, q) => ~told'[p][q] /\ ~Queued(p, q) /\ calling[p] # q
      BY <1>1, <2>1, <2>2 DEF PairOK, Drop
    <3>3. Rejected(p, q) => ~told'[p][q]
      BY <3>2 DEF Rejected
    <3> QED
      BY <2>1, <2>2, <3>1, <3>2, <3>3
      DEF PairOK, Drop, slots, Queued, Active, Dialled, OneWay, Rejected
  <2>3. CASE ~(r = p /\ t = q)
    <3>1. told'[r][t] = told[r][t] /\ dialling'[r][t] = dialling[r][t]
      BY <1>1, <2>3 DEF ChangedAt
    <3>2. dropping'[r] = t <=> dropping[r] = t
      BY <1>2, <2>3
    <3> QED
      BY <2>1, <3>1, <3>2
      DEF PairOK, Drop, slots, Queued, Active, Dialled, OneWay, Rejected
  <2> QED
    BY <2>2, <2>3
<1> QED
  BY <1>3, <1>4, <1>5 DEF IInv

\* ... expires ...
LEMMA ExpireKeeps ==
  ASSUME IInv, NEW p \in Peer, NEW q \in Peer, Expire(p, q)
  PROVE  IInv'
<1>1. spent' \in [Budgets -> Nat]
  BY DEF IInv, TypeOK, Expire
<1> QED
  BY <1>1, DropKeeps DEF Expire

\* ... or fails.
LEMMA FailKeeps ==
  ASSUME IInv, NEW p \in Peer, NEW q \in Peer, Fail(p, q)
  PROVE  IInv'
<1>1. spent' \in [Budgets -> Nat]
  BY SpendType DEF IInv, Fail, Budgets
<1> QED
  BY <1>1, DropKeeps DEF Fail

\* The slot is freed after its user has been told.
LEMMA FreeSlotKeeps ==
  ASSUME IInv, NEW p \in Peer, FreeSlot(p)
  PROVE  IInv'
<1>1. PICK q \in Peer : q = dropping[p]
  BY DEF IInv, TypeOK, FreeSlot
<1>2. OneWay(p, q) => ~told[p][q]
  BY <1>1 DEF IInv, PairOK
<1>3. StreamsAllowed(stream') /\ banned' \in [Peer -> SUBSET Peer]
  BY DEF IInv, TypeOK, FreeSlot
<1> QED
  BY <1>1, <1>2, <1>3, FreedKeeps DEF FreeSlot

\* A ban's end changes no connection.
LEMMA BanExpiresKeeps ==
  ASSUME IInv, NEW p \in Peer, NEW q \in Peer, BanExpires(p, q)
  PROVE  IInv'
<1>1. TypeOK'
  BY DEF IInv, TypeOK, BanExpires, slots, users
<1>2. StreamsAllowed(stream)' /\ DiallersAsk'
  BY StreamsStay DEF IInv, BanExpires, DiallersAsk, Dialled
<1>3. ASSUME NEW r \in Peer, NEW t \in Peer
      PROVE  PairOK(r, t)'
  BY DEF IInv, PairOK, BanExpires, slots, users, Queued, Active, Dialled, OneWay, Rejected
<1> QED
  BY <1>1, <1>2, <1>3 DEF IInv

\* A restarted peer has a new GUID and knows nothing.
LEMMA RestartKeeps ==
  ASSUME IInv, NEW p \in Peer, Restart(p)
  PROVE  IInv'
<1>1. requestsMade' \in [Peer -> [Peer -> Count]]
  BY QueueType DEF Restart
<1>2. TypeOK'
  <2>1. spent' \in [Budgets -> Nat]
    BY SpendType DEF IInv, Restart, Budgets
  <2>2. connectMode' \in [Peer -> [Peer -> ConnectMode \cup {Free}]]
    BY DEF IInv, TypeOK, Restart
  <2>3. heard' \in [Peer -> [Peer -> {"nothing", "present", "former"}]]
    BY DEF IInv, TypeOK, Restart, Forsaken
  <2>4. banned' \in [Peer -> SUBSET Peer] /\ dropping' \in [Peer -> Peer \cup {NoPeer}]
        /\ calling' \in [Peer -> Peer \cup {NoPeer}] /\ guid' \in [Peer -> Nat]
    BY DEF IInv, TypeOK, Restart
  <2>5. dialling' \in [Peer -> [Peer -> BOOLEAN]]
    BY DEF IInv, TypeOK, Restart
  <2>6. told' \in [Peer -> [Peer -> BOOLEAN]]
    BY DEF IInv, TypeOK, Restart
  <2> QED
    BY <1>1, <2>1, <2>2, <2>3, <2>4, <2>5, <2>6 DEF IInv, TypeOK, Restart, Count
<1>3. StreamsAllowed(stream)' /\ DiallersAsk'
  BY StreamsStay DEF IInv, Restart, DiallersAsk, Dialled
<1>4. ASSUME NEW r \in Peer, NEW t \in Peer
      PROVE  PairOK(r, t)'
  <2>1. PairOK(r, t)
    BY DEF IInv
  <2>2. CASE r = p
    <3>1. /\ requestsMade'[r][t] = NotQueued /\ connectMode'[r][t] = Free
          /\ dropping'[r] = NoPeer /\ calling'[r] = NoPeer
      BY <2>2 DEF IInv, TypeOK, Restart
    <3>2. told'[r][t] = FALSE
      BY <2>2 DEF IInv, TypeOK, Restart
    <3> QED
      BY <3>1, <3>2 DEF PairOK, Queued, Active, Dialled, OneWay, Rejected, Free
  <2>3. CASE r # p
    <3>1. /\ requestsMade'[r][t] = requestsMade[r][t] /\ connectMode'[r][t] = connectMode[r][t]
          /\ dropping'[r] = dropping[r] /\ calling'[r] = calling[r]
      BY <2>3 DEF IInv, TypeOK, Restart
    <3>2. told'[r][t] = told[r][t] /\ dialling'[r][t] = dialling[r][t]
      BY <2>3 DEF IInv, TypeOK, Restart
    <3> QED
      BY <2>1, <3>1, <3>2 DEF PairOK, Restart, Queued, Active, Dialled, OneWay, Rejected
  <2> QED
    BY <2>2, <2>3
<1> QED
  BY <1>2, <1>3, <1>4 DEF IInv

----------------------------------------------------------------------------
(* The invariant and what follows from it *)

\* The invariant holds initially ...
LEMMA InitEstablishes == Init => IInv
<1> SUFFICES ASSUME Init PROVE IInv
  OBVIOUS
<1>1. NotQueued \in Count
  BY DEF Count, NotQueued, NUM_MTU_SIZES
<1>2. TypeOK
  <2>1. requestsMade \in [Peer -> [Peer -> Count]]
    BY <1>1 DEF Init, Everywhere, Everyone
  <2>2. connectMode \in [Peer -> [Peer -> ConnectMode \cup {Free}]]
    BY DEF Init, Everywhere, Everyone
  <2>3. /\ weInitiated \in [Peer -> [Peer -> BOOLEAN]]
        /\ guidOf \in [Peer -> [Peer -> (Peer \cup {NoPeer}) \X Nat]]
        /\ heard \in [Peer -> [Peer -> {"nothing", "present", "former"}]]
    BY DEF Init, Everywhere, Everyone
  <2>4. stream \in [Peer -> [Peer -> Seq(Unordered \cup Ordered)]]
    BY DEF Init, Everywhere, Everyone
  <2>5. /\ dialling \in [Peer -> [Peer -> BOOLEAN]]
        /\ told \in [Peer -> [Peer -> BOOLEAN]]
    BY DEF Init, Everywhere, Everyone
  <2> QED
    BY <2>1, <2>2, <2>3, <2>4, <2>5 DEF Init, Everyone, TypeOK, Count
<1>3. StreamsAllowed(stream)
  BY <1>2 DEF StreamsAllowed, TypeOK, Init, Everywhere, Everyone
<1>4. DiallersAsk
  BY DEF Init, DiallersAsk
<1>5. ASSUME NEW p \in Peer, NEW q \in Peer
      PROVE  PairOK(p, q)
  <2>1. requestsMade[p][q] = NotQueued /\ connectMode[p][q] = Free /\ told[p][q] = FALSE
        /\ dropping[p] = NoPeer /\ calling[p] = NoPeer
    BY DEF Init, Everywhere, Everyone
  <2> QED
    BY <2>1 DEF PairOK, Queued, Active, Free
<1> QED
  BY <1>2, <1>3, <1>4, <1>5 DEF IInv

\* ... is kept by every step ...
LEMMA StepKeeps == IInv /\ [Next]_vars => IInv'
<1> SUFFICES ASSUME IInv, [Next]_vars PROVE IInv'
  OBVIOUS
<1>1. CASE UNCHANGED vars
  BY <1>1, Unchanged
<1>2. ASSUME NEW p \in Peer, User(p)
      PROVE  IInv'
  BY <1>2, PushRequestKeeps, ConnectKeeps, CancelKeeps, CloseKeeps DEF User
<1>3. ASSUME NEW p \in Peer, Network(p)
      PROVE  IInv'
  BY <1>3, OfflineKeeps, FreeSlotKeeps, SendRequest1Keeps, GiveUpKeeps, ReceiveKeeps,
     TakenForDuplicateKeeps, BanExpiresKeeps, ExpireKeeps, FailKeeps
  DEF Network, Attempts
<1>4. ASSUME NEW p \in Peer, Restart(p)
      PROVE  IInv'
  BY <1>4, RestartKeeps
<1> QED
  BY <1>1, <1>2, <1>3, <1>4 DEF Next

\* ... and so holds always.
THEOREM Invariance == Spec => []IInv
  BY InitEstablishes, StepKeeps, PTL DEF Spec

\* Types, and with them the end of every attempt: the counter of requests never
\* jumps past the value that it is compared with (RakPeer.cpp:5715).
THEOREM TypeCorrect == Spec => []TypeOK
<1>1. IInv => TypeOK
  BY DEF IInv
<1> QED
  BY <1>1, Invariance, PTL

\* Unless both dial, an attempt and a slot for the same target never exist at
\* once, so a late or repeated ID_OPEN_CONNECTION_REPLY_2 cannot make or disturb
\* a second connection.
THEOREM OneAttemptOrSlot == Spec => []NoSlotWhileQueued
<1>1. IInv => NoSlotWhileQueued
  BY DEF IInv, PairOK, NoSlotWhileQueued
<1> QED
  BY <1>1, Invariance, PTL

\* What the users believe, from the packets that Receive has given them, is what
\* the slots say, in every order of messages, time-outs, calls and restarts.
THEOREM UsersAreTold == Spec => []UserKnowsConnections
<1>1. IInv => UserKnowsConnections
  BY DEF IInv, PairOK, UserKnowsConnections
<1> QED
  BY <1>1, Invariance, PTL

\* A dialler with the wrong password is connected on neither side.
THEOREM WrongPasswordsRejected == Spec => []PasswordsMatch
<1>1. IInv => PasswordsMatch
  <2> SUFFICES ASSUME IInv, NEW p \in Peer, NEW q \in Peer,
                      <<p, q>> \in setting.wrongPassword, OneWay(p, q)
               PROVE  ~told[p][q] /\ ~told[q][p]
    BY DEF PasswordsMatch
  <2>1. Rejected(p, q) /\ Rejected(q, p)
    BY DEF Rejected, OneWay
  <2> QED
    BY <2>1 DEF IInv, PairOK
<1> QED
  BY <1>1, Invariance, PTL

\* connectMode changes at one pair at most, and not to waiting for an answer.
ModesKept ==
  \/ connectMode' = connectMode
  \/ \E r, s \in Peer : \E mode \in (ConnectMode \cup {Free}) \ {"REQUESTED_CONNECTION"} :
       connectMode' = Set(connectMode, r, s, mode)

\* No connected message sets a slot to REQUESTED_CONNECTION ...
LEMMA ModesOfReceive ==
  ASSUME IInv, NEW p \in Peer, NEW q \in Peer, Receive(p, q)
  PROVE  ModesKept
<1>1. PICK k \in Deliverable(q, p) :
        LET message == stream[q][p][k]
            s == [stream EXCEPT ![q][p] = RemoveAt(@, k)]
        IN \/ OnNonsense(p, q, message, s)
           \/ OnConnectionRequest(p, q, message, s)
           \/ OnNewIncomingConnection(p, q, message, s)
           \/ OnDisconnectionNotification(p, q, message, s)
           \/ OnInvalidPassword(p, q, message, s)
           \/ OnConnectionRequestAccepted(p, q, message, s)
  BY DEF Receive
<1> DEFINE message == stream[q][p][k]
           s == [stream EXCEPT ![q][p] = RemoveAt(@, k)]
<1> HIDE DEF message, s
<1> DEFINE Becomes(mode) == connectMode' = Set(connectMode, p, q, mode)
<1>2. \/ connectMode' = connectMode
      \/ Becomes(Free) \/ Becomes("HANDLING_CONNECTION_REQUEST") \/ Becomes("CONNECTED")
      \/ Becomes("DISCONNECT_ASAP_SILENTLY") \/ Becomes("DISCONNECT_ON_NO_ACK")
  <2>1. CASE OnNonsense(p, q, message, s)
    BY <2>1 DEF OnNonsense, CloseConnectionInternal, Set
  <2>2. CASE OnConnectionRequest(p, q, message, s)
    BY <2>2 DEF OnConnectionRequest, ParseConnectionRequestPacket, SetMode, Set
  <2>3. CASE OnNewIncomingConnection(p, q, message, s)
    BY <2>3 DEF OnNewIncomingConnection, SetMode, Set
  <2>4. CASE OnDisconnectionNotification(p, q, message, s)
    BY <2>4 DEF OnDisconnectionNotification, SetMode, Set
  <2>5. CASE OnInvalidPassword(p, q, message, s)
    BY <2>5 DEF OnInvalidPassword, SetMode, Set
  <2>6. CASE OnConnectionRequestAccepted(p, q, message, s)
    BY <2>6 DEF OnConnectionRequestAccepted, SetMode, Set
  <2> QED
    BY <1>1, <2>1, <2>2, <2>3, <2>4, <2>5, <2>6 DEF message, s
<1> QED
  BY <1>2 DEF ModesKept, Set, ConnectMode, Handshaking, Disconnecting, Free

\* ... an offline one can only as a reply 2 ...
LEMMA ModesOfOffline ==
  ASSUME IInv, NEW p \in Peer, NEW m \in wire, ProcessOfflineNetworkPacket(p, m)
  PROVE  ModesKept \/ (m.from \in Peer /\ OnReply2(p, m))
<1>1. m.from \in Peer
  BY MessageType DEF Datagram
<1>2. CASE OnRequest2(p, m)
  <2>1. connectMode' = connectMode \/ connectMode' = Set(connectMode, p, m.from, "UNVERIFIED_SENDER")
    BY <1>2 DEF OnRequest2, Assign, slots, Set
  <2> QED
    BY <1>1, <2>1, MessageType
    DEF ModesKept, Set, ConnectMode, Handshaking, Disconnecting, Free, Datagram
<1>3. CASE OnBanned(p, m) \/ OnRequest1(p, m) \/ OnReply1(p, m) \/ OnRefusal(p, m)
  BY <1>3 DEF ModesKept, OnBanned, OnRequest1, OnReply1, OnRefusal, slots
<1> QED
  BY <1>1, <1>2, <1>3 DEF ProcessOfflineNetworkPacket

\* ... and nothing else does but a restart.
LEMMA ModesOfStep ==
  ASSUME IInv, [Next]_vars
  PROVE  \/ ModesKept
         \/ \E p \in Peer : Restart(p)
         \/ \E p \in Peer : \E m \in wire : m.from \in Peer /\ OnReply2(p, m)
<1>1. CASE UNCHANGED vars
  BY <1>1 DEF vars, slots, ModesKept
<1>2. ASSUME NEW p \in Peer, User(p)
      PROVE  ModesKept
  <2>1. CASE PushRequest(p)
    BY <2>1 DEF PushRequest, slots, ModesKept
  <2>2. ASSUME NEW q \in Peer, Connect(p, q) \/ CancelConnectionAttempt(p, q)
        PROVE  ModesKept
    BY <2>2 DEF Connect, CancelConnectionAttempt, slots, ModesKept
  <2>3. ASSUME NEW q \in Peer, CloseConnection(p, q)
        PROVE  ModesKept
    BY <2>3 DEF CloseConnection, SetMode, Set, ModesKept, ConnectMode, Disconnecting
  <2> QED
    BY <1>2, <2>1, <2>2, <2>3 DEF User
<1>3. ASSUME NEW p \in Peer, Network(p)
      PROVE  ModesKept \/ \E m \in wire : m.from \in Peer /\ OnReply2(p, m)
  <2>1. CASE FreeSlot(p)
    <3>1. dropping[p] \in Peer /\ connectMode' = Set(connectMode, p, dropping[p], Free)
      BY <2>1 DEF FreeSlot, CloseConnectionInternal, Set, IInv, TypeOK
    <3> QED
      BY <3>1 DEF ModesKept, Free
  <2>2. ASSUME NEW q \in Peer,
               \/ Attempts(p, q) \/ TakenForDuplicate(p, q)
               \/ Expire(p, q) \/ Fail(p, q) \/ BanExpires(p, q)
        PROVE  ModesKept
    BY <2>2 DEF Attempts, SendRequest1, GiveUp, TakenForDuplicate, Expire, Fail, Drop, BanExpires,
                slots, ModesKept
  <2> QED
    BY <1>3, <2>1, <2>2, ModesOfReceive, ModesOfOffline DEF Network
<1> QED
  BY <1>1, <1>2, <1>3 DEF Next

\* Unless both dial, no step takes a connection back to waiting for an answer.
THEOREM ConnectionsStay == Spec => NotDowngraded
<1>1. ASSUME IInv, [Next]_vars, NEW p \in Peer, NEW q \in Peer,
             OneWay(p, q), connectMode[p][q] = "CONNECTED"
      PROVE  connectMode'[p][q] # "REQUESTED_CONNECTION"
  <2>1. ~Queued(p, q)
    BY <1>1 DEF IInv, PairOK, Active, Free
  <2>2. connectMode \in [Peer -> [Peer -> ConnectMode \cup {Free}]]
    BY <1>1 DEF IInv, TypeOK
  <2>3. CASE ModesKept
    BY <1>1, <2>2, <2>3 DEF ModesKept, Set
  <2>4. ASSUME NEW r \in Peer, Restart(r)
        PROVE  connectMode'[p][q] # "REQUESTED_CONNECTION"
    BY <1>1, <2>2, <2>4 DEF Restart, Free
  <2>5. ASSUME NEW r \in Peer, NEW m \in wire, m.from \in Peer, OnReply2(r, m)
        PROVE  connectMode'[p][q] # "REQUESTED_CONNECTION"
    <3>1. ~(r = p /\ m.from = q)
      BY <2>1, <2>5 DEF OnReply2
    <3> QED
      BY <1>1, <2>2, <2>5, <3>1 DEF OnReply2, SetMode, Assign, Set, slots
  <2> QED
    BY <1>1, <2>3, <2>4, <2>5, ModesOfStep
<1>2. IInv /\ [Next]_vars =>
        [\A p, q \in Peer :
           OneWay(p, q) /\ connectMode[p][q] = "CONNECTED" =>
             connectMode'[p][q] # "REQUESTED_CONNECTION"]_vars
  BY <1>1
<1> QED
  BY <1>2, Invariance, PTL DEF Spec, NotDowngraded

=============================================================================
