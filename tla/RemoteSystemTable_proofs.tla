---------------------- MODULE RemoteSystemTable_proofs ----------------------
(***************************************************************************)
(* Proofs about RemoteSystemTable, for every number of peers, set of       *)
(* addresses and hash function.                                            *)
(*                                                                         *)
(* What keeps the three views of the table together is that an entry of    *)
(* the hash table never lies: the slot it leads to has an address that     *)
(* belongs in its chain, and no two entries of a chain have one address.   *)
(* A slot that is used again must therefore take its old entry with it.    *)
(***************************************************************************)
EXTENDS RemoteSystemTable, FiniteSetTheorems, TLAPS

USE TableAssumption

\* Slot i is in a chain.
In(chain, i) == \E k \in DOMAIN chain : chain[k] = i

\* Every entry leads to a slot whose address, by addr, belongs in its chain.
Led(lookup, addr) ==
  \A b \in Bucket, i \in Slot :
    In(lookup[b], i) => addr[i] \in SystemAddress /\ HashIndex[addr[i]] = b

\* An address has one entry at most.
Single(lookup, addr) ==
  \A b \in Bucket : \A j, k \in DOMAIN lookup[b] :
    addr[lookup[b][j]] = addr[lookup[b][k]] => j = k

\* Every slot in use has an entry.
Entered(lookup, addr, active) ==
  \A i \in Slot :
    active[i] => addr[i] \in SystemAddress /\ In(lookup[HashIndex[addr[i]]], i)

----------------------------------------------------------------------------
(* Lists *)

\* Without position p a list has the entries of the other positions.
LEMMA Removal ==
  ASSUME NEW S, NEW list \in Seq(S), NEW p \in 1..Len(list)
  PROVE  /\ RemovePosition(list, p) \in Seq(S)
         /\ \A k \in DOMAIN RemovePosition(list, p) :
              LET j == IF k < p THEN k ELSE k + 1 IN
              j \in DOMAIN list /\ j # p /\ RemovePosition(list, p)[k] = list[j]
         /\ \A j \in DOMAIN list : j # p => In(RemovePosition(list, p), list[j])
<1> DEFINE R == RemovePosition(list, p)
<1>1. Len(list) \in Nat /\ Len(list) >= 1 /\ Len(list) - 1 \in Nat
  OBVIOUS
<1>2. DOMAIN R = 1..Len(list) - 1
  BY DEF RemovePosition
<1>3. \A k \in DOMAIN R :
        LET j == IF k < p THEN k ELSE k + 1 IN
        j \in DOMAIN list /\ j # p /\ R[k] = list[j]
  BY <1>1, <1>2 DEF RemovePosition
<1>4. R \in [1..Len(list) - 1 -> S]
  BY <1>1 DEF RemovePosition
<1>5. R \in Seq(S)
  BY <1>1, <1>4
<1>6. ASSUME NEW j \in DOMAIN list, j # p
      PROVE  In(R, list[j])
  <2>1. CASE j < p
    <3>1. j \in DOMAIN R /\ R[j] = list[j]
      BY <1>1, <1>2, <2>1 DEF RemovePosition
    <3> QED
      BY <3>1 DEF In
  <2>2. CASE j > p
    <3>1. j - 1 \in DOMAIN R /\ R[j - 1] = list[j]
      BY <1>1, <1>2, <2>2 DEF RemovePosition
    <3> QED
      BY <3>1 DEF In
  <2> QED
    BY <1>6, <2>1, <2>2
<1> QED
  BY <1>3, <1>5, <1>6

\* Where no two entries of a list have one address, a scan stops at the only
\* match.
LEMMA OnlyMatch ==
  ASSUME NEW list \in Seq(Slot), NEW p \in DOMAIN list,
         \A j, k \in DOMAIN list :
           systemAddress[list[j]] = systemAddress[list[k]] => j = k
  PROVE  /\ Matches(list, systemAddress[list[p]]) = {p}
         /\ FirstMatch(list, systemAddress[list[p]]) = p
<1>1. Matches(list, systemAddress[list[p]]) = {p}
  BY DEF Matches
<1>2. p \in Nat
  OBVIOUS
<1> QED
  BY <1>1, <1>2 DEF FirstMatch

----------------------------------------------------------------------------
(* The hash table *)

LookupType(lookup) == lookup \in [Bucket -> Seq(Slot)]

\* In a table without double entries the lookup of an address finds the slot
\* that is entered under it, and that slot only.
LEMMA LookupFinds ==
  ASSUME NEW L, LookupType(L), Single(L, systemAddress),
         NEW i \in Slot, NEW sa \in SystemAddress,
         In(L[HashIndex[sa]], i), systemAddress[i] = sa
  PROVE  IndexIn(L, sa) = i
<1> DEFINE chain == L[HashIndex[sa]]
<1>1. HashIndex[sa] \in Bucket /\ chain \in Seq(Slot)
  BY DEF LookupType
<1>2. PICK p \in DOMAIN chain : chain[p] = i
  BY DEF In
<1>3. \A j, k \in DOMAIN chain : systemAddress[chain[j]] = systemAddress[chain[k]] => j = k
  BY <1>1 DEF Single
<1>4. Matches(chain, sa) = {p} /\ FirstMatch(chain, sa) = p
  BY <1>1, <1>2, <1>3, OnlyMatch
<1> QED
  BY <1>2, <1>4 DEF IndexIn

\* What a lookup finds is entered under the address.
LEMMA LookupSound ==
  ASSUME NEW L, LookupType(L), Single(L, systemAddress),
         NEW sa \in SystemAddress, IndexIn(L, sa) # NoSlot
  PROVE  /\ IndexIn(L, sa) \in Slot
         /\ systemAddress[IndexIn(L, sa)] = sa
         /\ In(L[HashIndex[sa]], IndexIn(L, sa))
<1> DEFINE chain == L[HashIndex[sa]]
<1>1. HashIndex[sa] \in Bucket /\ chain \in Seq(Slot)
  BY DEF LookupType
<1>2. PICK p \in DOMAIN chain : systemAddress[chain[p]] = sa
  BY DEF IndexIn, Matches
<1>3. \A j, k \in DOMAIN chain : systemAddress[chain[j]] = systemAddress[chain[k]] => j = k
  BY <1>1 DEF Single
<1>4. Matches(chain, sa) = {p} /\ FirstMatch(chain, sa) = p
  BY <1>1, <1>2, <1>3, OnlyMatch
<1>5. IndexIn(L, sa) = chain[p]
  BY <1>4 DEF IndexIn
<1> QED
  BY <1>1, <1>2, <1>5 DEF In

\* Dereferencing an address removes what is entered under it and nothing else,
\* and leaves no double entries.
LEMMA DereferenceRemoves ==
  ASSUME NEW L, LookupType(L), Single(L, systemAddress),
         NEW sa \in SystemAddress
  PROVE  LET D == Dereferenced(L, sa) IN
         /\ LookupType(D)
         /\ Single(D, systemAddress)
         /\ \A b \in Bucket, i \in Slot :
              In(D[b], i) <=>
                In(L[b], i) /\ ~(b = HashIndex[sa] /\ systemAddress[i] = sa)
<1> DEFINE chain == L[HashIndex[sa]]
           p == FirstMatch(chain, sa)
           D == Dereferenced(L, sa)
<1>1. HashIndex[sa] \in Bucket /\ chain \in Seq(Slot)
  BY DEF LookupType
<1>2. CASE Matches(chain, sa) = {}
  <2>1. D = L
    BY <1>2 DEF Dereferenced
  <2>2. \A k \in DOMAIN chain : systemAddress[chain[k]] # sa
    BY <1>2 DEF Matches
  <2>3. ASSUME NEW i \in Slot, In(chain, i)
        PROVE  systemAddress[i] # sa
    BY <2>2, <2>3 DEF In
  <2> QED
    BY <2>1, <2>3
<1>3. CASE Matches(chain, sa) # {}
  <2>1. PICK q \in DOMAIN chain : systemAddress[chain[q]] = sa
    BY <1>3 DEF Matches
  <2>2. \A j, k \in DOMAIN chain : systemAddress[chain[j]] = systemAddress[chain[k]] => j = k
    BY <1>1 DEF Single
  <2>3. p = q
    BY <1>1, <2>1, <2>2, OnlyMatch
  <2> DEFINE R == RemovePosition(chain, q)
  <2>4. D = [L EXCEPT ![HashIndex[sa]] = R]
    BY <1>3, <2>3 DEF Dereferenced
  <2>5. /\ R \in Seq(Slot)
        /\ \A k \in DOMAIN R :
             LET j == IF k < q THEN k ELSE k + 1 IN
             j \in DOMAIN chain /\ j # q /\ R[k] = chain[j]
        /\ \A j \in DOMAIN chain : j # q => In(R, chain[j])
    BY <1>1, <2>1, Removal
  <2>6. DOMAIN D = Bucket /\ D[HashIndex[sa]] = R /\ \A b \in Bucket : b # HashIndex[sa] => D[b] = L[b]
    BY <1>1, <2>4 DEF LookupType
  <2>7. LookupType(D)
    BY <1>1, <2>4, <2>5 DEF LookupType
  <2>8. Single(D, systemAddress)
    <3> SUFFICES ASSUME NEW b \in Bucket, NEW j \in DOMAIN D[b], NEW k \in DOMAIN D[b],
                        systemAddress[D[b][j]] = systemAddress[D[b][k]]
                 PROVE  j = k
      BY DEF Single
    <3>1. CASE b # HashIndex[sa]
      BY <2>6, <3>1 DEF Single
    <3>2. CASE b = HashIndex[sa]
      <4> HIDE DEF R
      <4>1. j \in DOMAIN R /\ k \in DOMAIN R /\ systemAddress[R[j]] = systemAddress[R[k]]
        BY <2>6, <3>2
      <4> DEFINE jj == IF j < q THEN j ELSE j + 1
                 kk == IF k < q THEN k ELSE k + 1
      <4>2. jj \in DOMAIN chain /\ kk \in DOMAIN chain /\ R[j] = chain[jj] /\ R[k] = chain[kk]
        BY <2>5, <4>1
      <4>3. jj = kk
        BY <2>2, <4>1, <4>2
      <4>4. j \in Nat /\ k \in Nat /\ q \in Nat
        BY <1>1, <2>5, <4>1
      <4> QED
        BY <4>3, <4>4
    <3> QED
      BY <3>1, <3>2
  <2>9. ASSUME NEW i \in Slot
        PROVE  In(R, i) <=> In(chain, i) /\ systemAddress[i] # sa
    <3>1. ASSUME In(R, i)
          PROVE  In(chain, i) /\ systemAddress[i] # sa
      <4>1. PICK k \in DOMAIN R : R[k] = i
        BY <3>1 DEF In
      <4>2. PICK j \in DOMAIN chain : j # q /\ chain[j] = i
        BY <2>5, <4>1
      <4> QED
        BY <2>1, <2>2, <4>2 DEF In
    <3>2. ASSUME In(chain, i), systemAddress[i] # sa
          PROVE  In(R, i)
      <4>1. PICK j \in DOMAIN chain : chain[j] = i
        BY <3>2 DEF In
      <4>2. j # q
        BY <2>1, <3>2, <4>1
      <4> QED
        BY <2>5, <4>1, <4>2
    <3> QED
      BY <3>1, <3>2
  <2> HIDE DEF R, D
  <2>10. \A b \in Bucket, i \in Slot :
           In(D[b], i) <=> In(L[b], i) /\ ~(b = HashIndex[sa] /\ systemAddress[i] = sa)
    BY <2>6, <2>9
  <2> QED
    BY <2>7, <2>8, <2>10 DEF D
<1> QED
  BY <1>2, <1>3

\* Appending enters a slot in a list.
LEMMA AppendEnters ==
  ASSUME NEW list \in Seq(Slot), NEW i \in Slot
  PROVE  /\ Append(list, i) \in Seq(Slot)
         /\ DOMAIN Append(list, i) = 1..Len(list) + 1
         /\ \A k \in DOMAIN list : Append(list, i)[k] = list[k]
         /\ Append(list, i)[Len(list) + 1] = i
         /\ \A j : In(Append(list, i), j) <=> In(list, j) \/ j = i
<1>1. /\ Append(list, i) \in Seq(Slot)
      /\ DOMAIN Append(list, i) = 1..Len(list) + 1
      /\ \A k \in DOMAIN list : Append(list, i)[k] = list[k]
      /\ Append(list, i)[Len(list) + 1] = i
      /\ DOMAIN list = 1..Len(list) /\ Len(list) \in Nat
  OBVIOUS
<1>2. \A k \in DOMAIN Append(list, i) : k \in DOMAIN list \/ k = Len(list) + 1
  BY <1>1
<1>3. DOMAIN list \cup {Len(list) + 1} \subseteq DOMAIN Append(list, i)
  BY <1>1
<1>4. ASSUME NEW j
      PROVE  In(Append(list, i), j) <=> In(list, j) \/ j = i
  <2> HIDE DEF In
  <2>1. In(Append(list, i), j) => In(list, j) \/ j = i
    BY <1>1, <1>2, Zenon DEF In
  <2>2. In(list, j) \/ j = i => In(Append(list, i), j)
    BY <1>1, <1>3, Zenon DEF In
  <2> QED
    BY <2>1, <2>2
<1> QED
  BY <1>1, <1>4

\* ReferenceRemoteSystem keeps every entry of the hash table truthful, provided
\* that no other slot in use has the address: slot i has one entry afterwards,
\* under the new address, and the other slots in use keep theirs.
LEMMA ReferenceKeepsTable ==
  ASSUME LookupType(remoteSystemLookup),
         systemAddress \in [Slot -> SystemAddress \cup {UnassignedAddress}],
         Single(remoteSystemLookup, systemAddress),
         Led(remoteSystemLookup, systemAddress),
         NEW active, Entered(remoteSystemLookup, systemAddress, active),
         NEW sa \in SystemAddress, NEW i \in Slot,
         \A j \in Slot : active[j] /\ j # i => systemAddress[j] # sa,
         ReferenceRemoteSystem(sa, i),
         NEW after, \A j \in Slot : after[j] /\ j # i => active[j]
  PROVE  /\ LookupType(remoteSystemLookup')
         /\ systemAddress' = [systemAddress EXCEPT ![i] = sa]
         /\ systemAddress' \in [Slot -> SystemAddress \cup {UnassignedAddress}]
         /\ Single(remoteSystemLookup', systemAddress')
         /\ Led(remoteSystemLookup', systemAddress')
         /\ Entered(remoteSystemLookup', systemAddress', after)
<1> DEFINE L == remoteSystemLookup
           old == systemAddress[i]
           F == IF old # UnassignedAddress /\ GetRemoteSystemIndex(old) = i
                THEN Dereferenced(L, old) ELSE L
           D == Dereferenced(F, sa)
           h == HashIndex[sa]
<1>1. /\ remoteSystemLookup' = [D EXCEPT ![h] = Append(@, i)]
      /\ systemAddress' = [systemAddress EXCEPT ![i] = sa]
  BY DEF ReferenceRemoteSystem
<1>2. /\ systemAddress' \in [Slot -> SystemAddress \cup {UnassignedAddress}]
      /\ systemAddress'[i] = sa
      /\ \A j \in Slot : j # i => systemAddress'[j] = systemAddress[j]
      /\ h \in Bucket
  BY <1>1
<1> USE DEF GetRemoteSystemIndex
\* Slot i's old entry is gone.
<1>3. /\ LookupType(F) /\ Single(F, systemAddress)
      /\ \A b \in Bucket : ~In(F[b], i)
      /\ \A b \in Bucket, j \in Slot : In(F[b], j) => In(L[b], j)
      /\ \A b \in Bucket, j \in Slot : j # i /\ In(L[b], j) => In(F[b], j)
  <2>1. CASE old # UnassignedAddress /\ GetRemoteSystemIndex(old) = i
    <3>1. old \in SystemAddress
      BY <2>1
    <3>2. F = Dereferenced(L, old)
      BY <2>1
    <3>3. /\ LookupType(F) /\ Single(F, systemAddress)
          /\ \A b \in Bucket, j \in Slot :
               In(F[b], j) <=> In(L[b], j) /\ ~(b = HashIndex[old] /\ systemAddress[j] = old)
      BY <3>1, <3>2, DereferenceRemoves
    <3>4. In(L[HashIndex[old]], i)
      BY <2>1, <3>1, LookupSound DEF NoSlot, Slot
    <3>5. \A b \in Bucket : ~In(F[b], i)
      BY <3>3 DEF Led
    <3>6. ASSUME NEW b \in Bucket, NEW j \in Slot, j # i, In(L[b], j)
          PROVE  In(F[b], j)
      <4>1. CASE b = HashIndex[old] /\ systemAddress[j] = old
        <5>1. PICK m \in DOMAIN L[b] : L[b][m] = j
          BY <3>6 DEF In
        <5>2. PICK n \in DOMAIN L[b] : L[b][n] = i
          BY <3>4, <4>1 DEF In
        <5>3. systemAddress[L[b][m]] = systemAddress[L[b][n]]
          BY <4>1, <5>1, <5>2
        <5>4. m = n
          BY <5>3 DEF Single
        <5> QED
          BY <3>6, <5>1, <5>2, <5>4
      <4> QED
        BY <3>3, <3>6, <4>1
    <3> QED
      BY <3>3, <3>5, <3>6
  <2>2. CASE ~(old # UnassignedAddress /\ GetRemoteSystemIndex(old) = i)
    <3>1. F = L
      BY <2>2
    <3>2. ASSUME NEW b \in Bucket, In(L[b], i)
          PROVE  FALSE
      <4>1. old \in SystemAddress /\ HashIndex[old] = b
        BY <3>2 DEF Led
      <4>2. GetRemoteSystemIndex(old) = i
        BY <3>2, <4>1, LookupFinds
      <4> QED
        BY <2>2, <4>1, <4>2
    <3> QED
      BY <3>1, <3>2
  <2> QED
    BY <2>1, <2>2
<1> HIDE DEF F
\* So is an entry that the address has from an earlier connection.
<1>4. /\ LookupType(D) /\ Single(D, systemAddress)
      /\ \A b \in Bucket, j \in Slot :
           In(D[b], j) <=> In(F[b], j) /\ ~(b = h /\ systemAddress[j] = sa)
  BY <1>3, DereferenceRemoves
<1> HIDE DEF D
<1>5. D[h] \in Seq(Slot) /\ DOMAIN D = Bucket
  BY <1>2, <1>4 DEF LookupType
<1>6. /\ remoteSystemLookup'[h] = Append(D[h], i)
      /\ \A b \in Bucket : b # h => remoteSystemLookup'[b] = D[b]
  BY <1>1, <1>2, <1>5
<1>7. /\ Append(D[h], i) \in Seq(Slot)
      /\ DOMAIN Append(D[h], i) = 1..Len(D[h]) + 1
      /\ \A k \in DOMAIN D[h] : Append(D[h], i)[k] = D[h][k]
      /\ Append(D[h], i)[Len(D[h]) + 1] = i
      /\ \A j : In(Append(D[h], i), j) <=> In(D[h], j) \/ j = i
  BY <1>5, AppendEnters
<1>8. LookupType(remoteSystemLookup')
  BY <1>1, <1>2, <1>4, <1>5, <1>7 DEF LookupType
<1>9. \A b \in Bucket, j \in Slot :
        In(remoteSystemLookup'[b], j) <=> In(D[b], j) \/ (b = h /\ j = i)
  BY <1>6, <1>7, Zenon
<1>10. Led(remoteSystemLookup', systemAddress')
  <2> SUFFICES ASSUME NEW b \in Bucket, NEW j \in Slot, In(remoteSystemLookup'[b], j)
               PROVE  systemAddress'[j] \in SystemAddress /\ HashIndex[systemAddress'[j]] = b
    BY DEF Led
  <2>1. CASE In(D[b], j)
    <3>1. j # i /\ In(L[b], j)
      BY <1>3, <1>4, <2>1
    <3>2. systemAddress'[j] = systemAddress[j]
      BY <1>2, <3>1
    <3> QED
      BY <3>1, <3>2 DEF Led
  <2>2. CASE b = h /\ j = i
    BY <1>2, <2>2
  <2> QED
    BY <1>9, <2>1, <2>2
<1>11. Single(remoteSystemLookup', systemAddress')
  <2> SUFFICES ASSUME NEW b \in Bucket,
                      NEW j \in DOMAIN remoteSystemLookup'[b], NEW k \in DOMAIN remoteSystemLookup'[b],
                      systemAddress'[remoteSystemLookup'[b][j]] = systemAddress'[remoteSystemLookup'[b][k]]
               PROVE  j = k
    BY DEF Single
  <2>1. ASSUME NEW c \in Bucket, NEW m \in DOMAIN D[c]
        PROVE  /\ D[c][m] \in Slot /\ D[c][m] # i
               /\ systemAddress'[D[c][m]] = systemAddress[D[c][m]]
               /\ c = h => systemAddress[D[c][m]] # sa
    <3>1. D[c] \in Seq(Slot)
      BY <1>4 DEF LookupType
    <3>2. D[c][m] \in Slot /\ In(D[c], D[c][m])
      BY <3>1 DEF In
    <3>3. D[c][m] # i
      BY <1>3, <1>4, <3>2
    <3> QED
      BY <1>2, <1>4, <3>2, <3>3
  <2>2. CASE b # h
    <3>1. remoteSystemLookup'[b] = D[b]
      BY <1>6, <2>2
    <3> QED
      BY <1>4, <2>1, <3>1 DEF Single
  <2>3. CASE b = h
    <3> DEFINE last == Len(D[h]) + 1
    <3>1. DOMAIN D[h] = 1..Len(D[h]) /\ Len(D[h]) \in Nat
      BY <1>5
    <3>2. j \in DOMAIN D[h] \cup {last} /\ k \in DOMAIN D[h] \cup {last}
      BY <1>6, <1>7, <2>3, <3>1
    <3>3. CASE j \in DOMAIN D[h] /\ k \in DOMAIN D[h]
      <4>1. systemAddress[D[h][j]] = systemAddress[D[h][k]]
        BY <1>2, <1>6, <1>7, <2>1, <2>3, <3>3
      <4> QED
        BY <1>2, <1>4, <3>3, <4>1 DEF Single
    <3>4. CASE j \in DOMAIN D[h] /\ k = last
      <4>1. systemAddress[D[h][j]] # sa /\ systemAddress'[D[h][j]] = systemAddress[D[h][j]]
        BY <1>2, <2>1, <3>4
      <4>2. systemAddress'[remoteSystemLookup'[b][k]] = sa
        BY <1>2, <1>6, <1>7, <2>3, <3>4
      <4>3. remoteSystemLookup'[b][j] = D[h][j]
        BY <1>6, <1>7, <2>3, <3>4
      <4> QED
        BY <4>1, <4>2, <4>3
    <3>5. CASE k \in DOMAIN D[h] /\ j = last
      <4>1. systemAddress[D[h][k]] # sa /\ systemAddress'[D[h][k]] = systemAddress[D[h][k]]
        BY <1>2, <2>1, <3>5
      <4>2. systemAddress'[remoteSystemLookup'[b][j]] = sa
        BY <1>2, <1>6, <1>7, <2>3, <3>5
      <4>3. remoteSystemLookup'[b][k] = D[h][k]
        BY <1>6, <1>7, <2>3, <3>5
      <4> QED
        BY <4>1, <4>2, <4>3
    <3> QED
      BY <3>2, <3>3, <3>4, <3>5
  <2> QED
    BY <2>2, <2>3
<1>12. Entered(remoteSystemLookup', systemAddress', after)
  <2> SUFFICES ASSUME NEW j \in Slot, after[j]
               PROVE  /\ systemAddress'[j] \in SystemAddress
                      /\ In(remoteSystemLookup'[HashIndex[systemAddress'[j]]], j)
    BY DEF Entered
  <2>1. CASE j = i
    BY <1>2, <1>9, <2>1
  <2>2. CASE j # i
    <3>1. active[j] /\ systemAddress[j] # sa
      BY <2>2
    <3>2. systemAddress[j] \in SystemAddress /\ In(L[HashIndex[systemAddress[j]]], j)
      BY <3>1 DEF Entered
    <3>3. HashIndex[systemAddress[j]] \in Bucket
      BY <3>2
    <3>4. In(D[HashIndex[systemAddress[j]]], j)
      BY <1>3, <1>4, <2>2, <3>1, <3>2, <3>3
    <3>5. systemAddress'[j] = systemAddress[j]
      BY <1>2, <2>2
    <3> QED
      BY <1>9, <3>2, <3>3, <3>4, <3>5
  <2> QED
    BY <2>1, <2>2
<1> QED
  BY <1>1, <1>2, <1>8, <1>10, <1>11, <1>12

----------------------------------------------------------------------------
(* The invariant *)

Inv ==
  /\ TypeOK
  /\ Single(remoteSystemLookup, systemAddress)
  /\ Led(remoteSystemLookup, systemAddress)
  /\ Entered(remoteSystemLookup, systemAddress, isActive)
  /\ ActiveListExact

\* A slot in use is what the lookup of its address finds; two slots in use
\* have two addresses.
LEMMA ActiveFound ==
  ASSUME Inv, NEW i \in Slot, isActive[i]
  PROVE  /\ systemAddress[i] \in SystemAddress
         /\ GetRemoteSystemIndex(systemAddress[i]) = i
         /\ Connected(systemAddress[i])
         /\ \A j \in Slot : isActive[j] /\ systemAddress[j] = systemAddress[i] => j = i
<1>1. LookupType(remoteSystemLookup)
  BY DEF Inv, TypeOK, LookupType
<1>2. \A j \in Slot : isActive[j] =>
        /\ systemAddress[j] \in SystemAddress
        /\ In(remoteSystemLookup[HashIndex[systemAddress[j]]], j)
  BY DEF Inv, Entered
<1>3. \A j \in Slot : isActive[j] => GetRemoteSystemIndex(systemAddress[j]) = j
  BY <1>1, <1>2, LookupFinds DEF Inv, GetRemoteSystemIndex
<1>4. i # NoSlot
  BY DEF Slot, NoSlot
<1> QED
  BY <1>2, <1>3, <1>4 DEF Connected

\* What is not found connected is the address of no slot in use.
LEMMA NotConnected ==
  ASSUME Inv, NEW sa, ~Connected(sa), NEW j \in Slot, isActive[j]
  PROVE  systemAddress[j] # sa
BY ActiveFound

\* What is found connected is a slot in use that has the address.
LEMMA ConnectedFound ==
  ASSUME Inv, NEW sa \in SystemAddress, Connected(sa)
  PROVE  /\ GetRemoteSystemIndex(sa) \in Slot
         /\ isActive[GetRemoteSystemIndex(sa)]
         /\ systemAddress[GetRemoteSystemIndex(sa)] = sa
<1>1. LookupType(remoteSystemLookup) /\ Single(remoteSystemLookup, systemAddress)
  BY DEF Inv, TypeOK, LookupType
<1> QED
  BY <1>1, LookupSound DEF Connected, GetRemoteSystemIndex

\* RemoveFromActiveSystemList takes out the slot in use that has the address,
\* and no other, whichever place the last entry is moved to.
LEMMA RemovalFromActiveList ==
  ASSUME Inv, NEW i \in Slot, isActive[i], RemoveFromActiveSystemList(systemAddress[i])
  PROVE  /\ activeSystemList' \in Seq(Slot)
         /\ \A j \in Slot : In(activeSystemList', j) <=> isActive[j] /\ j # i
         /\ \A j, k \in DOMAIN activeSystemList' :
              activeSystemList'[j] = activeSystemList'[k] => j = k
<1> DEFINE list == activeSystemList
           last == Len(list)
<1>1. list \in Seq(Slot) /\ last \in Nat /\ DOMAIN list = 1..last
  BY DEF Inv, TypeOK
<1>2. /\ \A j \in Slot : isActive[j] <=> \E k \in DOMAIN list : list[k] = j
      /\ \A j, k \in DOMAIN list : list[j] = list[k] => j = k
  BY DEF Inv, ActiveListExact
<1>3. PICK p \in DOMAIN list : list[p] = i
  BY <1>2
<1>4. \A j, k \in DOMAIN list : systemAddress[list[j]] = systemAddress[list[k]] => j = k
  <2> SUFFICES ASSUME NEW j \in DOMAIN list, NEW k \in DOMAIN list,
                      systemAddress[list[j]] = systemAddress[list[k]]
               PROVE  j = k
    OBVIOUS
  <2>1. list[j] \in Slot /\ list[k] \in Slot
    BY <1>1
  <2>2. isActive[list[j]] /\ isActive[list[k]]
    BY <1>2, <2>1
  <2>3. list[j] = list[k]
    BY <2>1, <2>2, ActiveFound
  <2> QED
    BY <1>2, <2>3
<1>5. Matches(list, systemAddress[i]) = {p} /\ FirstMatch(list, systemAddress[i]) = p
  BY <1>1, <1>3, <1>4, OnlyMatch
<1> DEFINE new == [k \in 1..last - 1 |-> IF k = p THEN list[last] ELSE list[k]]
<1>6. activeSystemList' = new
  BY <1>5 DEF RemoveFromActiveSystemList
<1>7. p \in 1..last /\ last \in 1..last /\ last - 1 \in Nat
  BY <1>1, <1>3
<1>8. new \in [1..last - 1 -> Slot]
  BY <1>1, <1>7
<1>9. new \in Seq(Slot) /\ DOMAIN new = 1..last - 1
  BY <1>7, <1>8
<1>10. ASSUME NEW j \in Slot
       PROVE  In(new, j) <=> isActive[j] /\ j # i
  <2>1. ASSUME In(new, j)
        PROVE  isActive[j] /\ j # i
    <3>1. PICK k \in 1..last - 1 : new[k] = j
      BY <1>9, <2>1 DEF In
    <3>2. PICK m \in 1..last : m # p /\ list[m] = j
      <4>1. CASE k = p
        BY <1>7, <3>1, <4>1
      <4>2. CASE k # p
        BY <1>7, <3>1, <4>2
      <4> QED
        BY <4>1, <4>2
    <3> QED
      BY <1>1, <1>2, <1>3, <3>2
  <2>2. ASSUME isActive[j], j # i
        PROVE  In(new, j)
    <3>1. PICK m \in 1..last : list[m] = j
      BY <1>1, <1>2, <2>2
    <3>2. m # p
      BY <1>3, <2>2, <3>1
    <3>3. CASE m = last
      <4>1. p \in 1..last - 1 /\ new[p] = j
        BY <1>7, <3>1, <3>2, <3>3
      <4> QED
        BY <1>9, <4>1 DEF In
    <3>4. CASE m # last
      <4>1. m \in 1..last - 1 /\ new[m] = j
        BY <1>7, <3>1, <3>2, <3>4
      <4> QED
        BY <1>9, <4>1 DEF In
    <3> QED
      BY <3>3, <3>4
  <2> QED
    BY <2>1, <2>2
<1>11. ASSUME NEW j \in DOMAIN new, NEW k \in DOMAIN new, new[j] = new[k]
       PROVE  j = k
  <2>1. j \in 1..last - 1 /\ k \in 1..last - 1
    BY <1>9
  <2> DEFINE jj == IF j = p THEN last ELSE j
             kk == IF k = p THEN last ELSE k
  <2>2. jj \in DOMAIN list /\ kk \in DOMAIN list /\ list[jj] = list[kk]
    BY <1>1, <1>7, <1>11, <2>1
  <2>3. jj = kk
    BY <1>2, <2>2
  <2> QED
    BY <1>7, <2>1, <2>3
<1> HIDE DEF new
<1> QED
  BY <1>6, <1>9, <1>10, <1>11

\* The initial state of a peer has an empty table.
LEMMA InitInv == Init => Inv
<1> SUFFICES ASSUME Init PROVE Inv
  OBVIOUS
<1>1. TypeOK
  <2>1. <<>> \in Seq(Slot)
    OBVIOUS
  <2> QED
    BY <2>1 DEF Init, TypeOK
<1>2. \A b \in Bucket : DOMAIN remoteSystemLookup[b] = {}
  BY DEF Init
<1>3. DOMAIN activeSystemList = {}
  BY DEF Init
<1>4. \A i \in Slot : ~isActive[i]
  BY DEF Init
<1> QED
  BY <1>1, <1>2, <1>3, <1>4 DEF Inv, Single, Led, In, Entered, ActiveListExact

\* A connection that is made.
LEMMA AssignKeepsInv ==
  ASSUME Inv, NEW sa \in SystemAddress, NEW g \in Guid, ~Connected(sa),
         AssignSystemAddressToRemoteSystemList(sa, g), UNCHANGED cursor
  PROVE  Inv'
<1>1. PICK i \in Slot :
        /\ IsFirst(i, {j \in Slot : ~isActive[j]})
        /\ ReferenceRemoteSystem(sa, i)
        /\ guid' = [guid EXCEPT ![i] = g]
        /\ isActive' = [isActive EXCEPT ![i] = TRUE]
        /\ AddToActiveSystemList(i)
  BY DEF AssignSystemAddressToRemoteSystemList
<1>2. ~isActive[i]
  BY <1>1 DEF IsFirst
<1>3. \A j \in Slot : isActive[j] /\ j # i => systemAddress[j] # sa
  BY NotConnected
<1>4. /\ LookupType(remoteSystemLookup)
      /\ systemAddress \in [Slot -> SystemAddress \cup {UnassignedAddress}]
      /\ guid \in [Slot -> Guid \cup {UnassignedGuid}]
      /\ isActive \in [Slot -> BOOLEAN]
      /\ activeSystemList \in Seq(Slot)
      /\ cursor \in Nat
  BY DEF Inv, TypeOK, LookupType
<1>5. /\ isActive' \in [Slot -> BOOLEAN] /\ isActive'[i]
      /\ \A j \in Slot : j # i => isActive'[j] = isActive[j]
  BY <1>1, <1>4
<1>6. /\ LookupType(remoteSystemLookup')
      /\ systemAddress' \in [Slot -> SystemAddress \cup {UnassignedAddress}]
      /\ Single(remoteSystemLookup', systemAddress')
      /\ Led(remoteSystemLookup', systemAddress')
      /\ Entered(remoteSystemLookup', systemAddress', isActive')
  BY <1>1, <1>3, <1>4, <1>5, ReferenceKeepsTable DEF Inv
<1>7. activeSystemList' = Append(activeSystemList, i)
  BY <1>1 DEF AddToActiveSystemList
<1>8. /\ activeSystemList' \in Seq(Slot)
      /\ DOMAIN activeSystemList' = 1..Len(activeSystemList) + 1
      /\ \A k \in DOMAIN activeSystemList : activeSystemList'[k] = activeSystemList[k]
      /\ activeSystemList'[Len(activeSystemList) + 1] = i
      /\ \A j : In(activeSystemList', j) <=> In(activeSystemList, j) \/ j = i
  BY <1>4, <1>7, AppendEnters
<1>9. TypeOK'
  BY <1>1, <1>4, <1>5, <1>6, <1>8 DEF TypeOK, LookupType
<1>10. /\ \A j \in Slot : isActive[j] <=> In(activeSystemList, j)
       /\ \A j, k \in DOMAIN activeSystemList : activeSystemList[j] = activeSystemList[k] => j = k
  BY DEF Inv, ActiveListExact, In
<1>11. ActiveListExact'
  <2>1. \A j \in Slot : isActive'[j] <=> In(activeSystemList', j)
    BY <1>2, <1>5, <1>8, <1>10
  <2>2. \A k \in DOMAIN activeSystemList : activeSystemList[k] # i
    BY <1>2, <1>10 DEF In
  <2>3. DOMAIN activeSystemList = 1..Len(activeSystemList) /\ Len(activeSystemList) \in Nat
    BY <1>4
  <2>4. \A k \in DOMAIN activeSystemList' : k \in DOMAIN activeSystemList \/ k = Len(activeSystemList) + 1
    BY <1>8, <2>3
  <2>5. \A j, k \in DOMAIN activeSystemList' : activeSystemList'[j] = activeSystemList'[k] => j = k
    BY <1>8, <1>10, <2>2, <2>4
  <2> QED
    BY <2>1, <2>5 DEF ActiveListExact, In
<1> QED
  BY <1>6, <1>9, <1>11 DEF Inv

\* A connection that is closed leaves its slot's entry in the hash table.
LEMMA CloseKeepsInv ==
  ASSUME Inv, NEW sa \in SystemAddress, CloseConnectionInternal(sa), cursor' \in Nat
  PROVE  Inv'
<1>1. CASE ~Connected(sa)
  BY <1>1 DEF CloseConnectionInternal, slots, Inv, TypeOK, ActiveListExact
<1>2. CASE Connected(sa)
  <2> DEFINE i == GetRemoteSystemIndex(sa)
  <2>1. i \in Slot /\ isActive[i] /\ systemAddress[i] = sa
    BY <1>2, ConnectedFound
  <2>2. /\ RemoveFromActiveSystemList(systemAddress[i])
        /\ isActive' = [isActive EXCEPT ![i] = FALSE]
        /\ guid' = [guid EXCEPT ![i] = UnassignedGuid]
        /\ UNCHANGED <<systemAddress, remoteSystemLookup>>
    BY <1>2, <2>1 DEF CloseConnectionInternal
  <2> HIDE DEF i
  <2>3. /\ activeSystemList' \in Seq(Slot)
        /\ \A j \in Slot : In(activeSystemList', j) <=> isActive[j] /\ j # i
        /\ \A j, k \in DOMAIN activeSystemList' :
             activeSystemList'[j] = activeSystemList'[k] => j = k
    BY <2>1, <2>2, RemovalFromActiveList
  <2>4. isActive \in [Slot -> BOOLEAN]
    BY DEF Inv, TypeOK
  <2>5. /\ isActive' \in [Slot -> BOOLEAN] /\ ~isActive'[i]
        /\ \A j \in Slot : j # i => isActive'[j] = isActive[j]
    BY <2>1, <2>2, <2>4
  <2>6. TypeOK'
    BY <2>2, <2>3, <2>5 DEF Inv, TypeOK
  <2>7. Entered(remoteSystemLookup', systemAddress', isActive')
    BY <2>2, <2>5 DEF Inv, Entered
  <2>8. \A j \in Slot : isActive'[j] <=> In(activeSystemList', j)
    BY <2>1, <2>3, <2>5
  <2>9. ActiveListExact'
    BY <2>3, <2>8 DEF ActiveListExact, In
  <2> QED
    BY <2>2, <2>6, <2>7, <2>9 DEF Inv
<1> QED
  BY <1>1, <1>2

\* A connection that is moved to an address that no other one has.
LEMMA ChangeKeepsInv ==
  ASSUME Inv, ~SharedReroutes, NEW sa \in SystemAddress, NEW g \in Guid,
         ChangeSystemAddress(g, sa)
  PROVE  Inv'
<1>1. PICK i \in Slot : isActive[i] /\ ReferenceRemoteSystem(sa, i)
  <2>1. PICK j \in Slot :
          /\ IsFirst(j, HasGuid(g))
          /\ ReferenceRemoteSystem(sa, GetRemoteSystemIndex(systemAddress[j]))
    BY DEF ChangeSystemAddress
  <2>2. isActive[j]
    BY <2>1 DEF IsFirst, HasGuid
  <2> QED
    BY <2>1, <2>2, ActiveFound
<1>2. /\ ~Connected(sa)
      /\ UNCHANGED <<guid, isActive, activeSystemList, cursor>>
  BY DEF ChangeSystemAddress
<1>3. \A j \in Slot : isActive[j] /\ j # i => systemAddress[j] # sa
  BY <1>2, NotConnected
<1>4. /\ LookupType(remoteSystemLookup)
      /\ systemAddress \in [Slot -> SystemAddress \cup {UnassignedAddress}]
  BY DEF Inv, TypeOK, LookupType
<1>5. /\ LookupType(remoteSystemLookup')
      /\ systemAddress' \in [Slot -> SystemAddress \cup {UnassignedAddress}]
      /\ Single(remoteSystemLookup', systemAddress')
      /\ Led(remoteSystemLookup', systemAddress')
      /\ Entered(remoteSystemLookup', systemAddress', isActive)
  BY <1>1, <1>3, <1>4, ReferenceKeepsTable DEF Inv
<1> QED
  BY <1>2, <1>5 DEF Inv, TypeOK, LookupType, ActiveListExact

\* Every step keeps the invariant.
LEMMA NextInv ==
  ASSUME Inv, ~SharedReroutes, [Next]_vars
  PROVE  Inv'
<1>1. ASSUME NEW sa \in SystemAddress, NEW g \in Guid, OpenConnectionRequest2(sa, g)
      PROVE  Inv'
  BY <1>1, AssignKeepsInv DEF OpenConnectionRequest2
<1>2. ASSUME NEW sa \in SystemAddress, NEW g \in Guid, OpenConnectionReply2(sa, g)
      PROVE  Inv'
  BY <1>2, AssignKeepsInv DEF OpenConnectionReply2
<1>3. ASSUME NEW sa \in SystemAddress, NEW g \in Guid, ChangeSystemAddress(g, sa)
      PROVE  Inv'
  BY <1>3, ChangeKeepsInv
<1>4. ASSUME NEW sa \in SystemAddress, CloseConnection(sa)
      PROVE  Inv'
  <2>1. cursor' \in Nat
    BY <1>4 DEF CloseConnection, Inv, TypeOK
  <2> QED
    BY <1>4, <2>1, CloseKeepsInv DEF CloseConnection
<1>5. ASSUME cursor' \in Nat, UNCHANGED <<slots, remoteSystemLookup, activeSystemList>>
      PROVE  Inv'
  BY <1>5 DEF slots, Inv, TypeOK, ActiveListExact
<1>6. cursor \in Nat
  BY DEF Inv, TypeOK
<1>7. ASSUME StartUpdate PROVE Inv'
  BY <1>5, <1>7 DEF StartUpdate
<1>8. ASSUME NEW i \in Slot, UpdateRemoteSystem(i) PROVE Inv'
  BY <1>5, <1>6, <1>8 DEF UpdateRemoteSystem
<1>9. ASSUME DropRemoteSystem PROVE Inv'
  <2> DEFINE i == activeSystemList[cursor]
  <2>1. cursor \in DOMAIN activeSystemList /\ CloseConnectionInternal(systemAddress[i]) /\ cursor' \in Nat
    BY <1>6, <1>9 DEF DropRemoteSystem
  <2>2. i \in Slot /\ isActive[i]
    BY <2>1 DEF Inv, TypeOK, ActiveListExact
  <2>3. systemAddress[i] \in SystemAddress
    BY <2>2, ActiveFound
  <2> QED
    BY <2>1, <2>3, CloseKeepsInv
<1>10. ASSUME EndUpdate PROVE Inv'
  BY <1>5, <1>10 DEF EndUpdate
<1>11. CASE UNCHANGED vars
  BY <1>5, <1>6, <1>11 DEF vars, slots
<1> QED
  BY <1>1, <1>2, <1>3, <1>4, <1>7, <1>8, <1>9, <1>10, <1>11 DEF Next, UpdateCycle

\* Inv is an invariant of the table, as long as no connection is moved to an
\* address that is in use.
THEOREM Invariance ==
  ASSUME ~SharedReroutes
  PROVE  Spec => []Inv
<1>1. Inv /\ [Next]_vars => Inv'
  BY NextInv
<1> QED
  BY <1>1, InitInv, PTL DEF Spec

\* Type correctness.
THEOREM TypeCorrect ==
  ASSUME ~SharedReroutes
  PROVE  Spec => []TypeOK
<1>1. Inv => TypeOK
  BY DEF Inv
<1> QED
  BY <1>1, Invariance, PTL

\* Every active system, and no other, is found under its address, by the hash
\* lookup of the network thread and by the scan of the other threads.
THEOREM SystemsFound ==
  ASSUME ~SharedReroutes
  PROVE  Spec => []ActiveSystemsFound
<1>1. ASSUME Inv PROVE ActiveSystemsFound
  <2> SUFFICES ASSUME NEW sa \in SystemAddress
               PROVE  ScannedSlots(sa) =
                        IF Connected(sa) THEN {GetRemoteSystemIndex(sa)} ELSE {}
    BY DEF ActiveSystemsFound
  <2>1. CASE Connected(sa)
    <3>1. /\ GetRemoteSystemIndex(sa) \in Slot /\ isActive[GetRemoteSystemIndex(sa)]
          /\ systemAddress[GetRemoteSystemIndex(sa)] = sa
      BY <1>1, <2>1, ConnectedFound
    <3>2. \A j \in Slot : isActive[j] /\ systemAddress[j] = sa => j = GetRemoteSystemIndex(sa)
      BY <1>1, <3>1, ActiveFound
    <3> QED
      BY <2>1, <3>1, <3>2 DEF ScannedSlots
  <2>2. CASE ~Connected(sa)
    BY <1>1, <2>2, NotConnected DEF ScannedSlots
  <2> QED
    BY <2>1, <2>2
<1>2. Inv => ActiveSystemsFound
  BY <1>1
<1> QED
  BY <1>2, Invariance, PTL

\* The update cycle's list has the active systems, each of them once.
THEOREM UpdateListExact ==
  ASSUME ~SharedReroutes
  PROVE  Spec => []ActiveListExact
<1>1. Inv => ActiveListExact
  BY DEF Inv
<1> QED
  BY <1>1, Invariance, PTL

----------------------------------------------------------------------------
(* The table implements RemoteSystems *)

\* Of the slots in use no two have one address.
Distinct(addr, active) ==
  \A i, j \in Slot : active[i] /\ active[j] /\ addr[i] = addr[j] => i = j

\* A lookup with one entry for an address leaves it one slot.
LEMMA EnteredDistinct ==
  ASSUME NEW L, NEW addr, NEW active,
         LookupType(L), Single(L, addr), Entered(L, addr, active)
  PROVE  Distinct(addr, active)
<1> SUFFICES ASSUME NEW i \in Slot, NEW j \in Slot,
                    active[i], active[j], addr[i] = addr[j]
             PROVE  i = j
  BY DEF Distinct
<1> DEFINE chain == L[HashIndex[addr[i]]]
<1>1. addr[i] \in SystemAddress /\ In(chain, i) /\ In(chain, j)
  BY DEF Entered
<1>2. HashIndex[addr[i]] \in Bucket
  BY <1>1
<1>3. PICK m \in DOMAIN chain : chain[m] = i
  BY <1>1 DEF In
<1>4. PICK n \in DOMAIN chain : chain[n] = j
  BY <1>1 DEF In
<1>5. addr[chain[m]] = addr[chain[n]]
  BY <1>3, <1>4
<1>6. m = n
  BY <1>2, <1>5 DEF Single
<1> QED
  BY <1>3, <1>4, <1>6

\* The view of a table: the addresses of the slots in use, each with its GUID.
Addresses(addr, active) == {addr[i] : i \in {j \in Slot : active[j]}}
View(addr, g, active) ==
  [sa \in Addresses(addr, active) |-> g[CHOOSE i \in Slot : active[i] /\ addr[i] = sa]]

\* The view has the GUID of every slot in use under the slot's address.
LEMMA ViewFacts ==
  ASSUME NEW addr, NEW g, NEW active, Distinct(addr, active)
  PROVE  /\ DOMAIN View(addr, g, active) = Addresses(addr, active)
         /\ \A i \in Slot : active[i] =>
              /\ addr[i] \in Addresses(addr, active)
              /\ View(addr, g, active)[addr[i]] = g[i]
         /\ \A sa \in Addresses(addr, active) :
              \E i \in Slot : active[i] /\ addr[i] = sa
<1>1. ASSUME NEW i \in Slot, active[i]
      PROVE  (CHOOSE j \in Slot : active[j] /\ addr[j] = addr[i]) = i
  BY <1>1 DEF Distinct
<1> QED
  BY <1>1 DEF View, Addresses

\* The refinement mapping is View, before and after a step.
LEMMA ConnectionIsView ==
  /\ Connection = View(systemAddress, guid, isActive)
  /\ Connection' = View(systemAddress', guid', isActive')
BY DEF Connection, ConnectedAddresses, View, Addresses

\* While a slot is free there are fewer connected addresses than slots.
LEMMA RoomForOneMore ==
  ASSUME NEW addr, NEW active, NEW i \in Slot, ~active[i]
  PROVE  Cardinality(Addresses(addr, active)) < MaximumNumberOfPeers
<1> DEFINE Used == {j \in Slot : active[j]}
           f == [j \in Used |-> addr[j]]
<1>1. /\ IsFiniteSet(Slot) /\ Cardinality(Slot) = MaximumNumberOfPeers
  BY FS_Interval DEF Slot
<1>2. /\ IsFiniteSet(Slot \ {i}) /\ Cardinality(Slot \ {i}) = MaximumNumberOfPeers - 1
  BY <1>1, FS_RemoveElement
<1>3. Used \in SUBSET (Slot \ {i})
  OBVIOUS
<1>4. IsFiniteSet(Used) /\ Cardinality(Used) <= MaximumNumberOfPeers - 1
  BY <1>2, <1>3, FS_Subset
<1>5. f \in Surjection(Used, Addresses(addr, active))
  BY DEF Addresses, Surjection
<1>6. /\ IsFiniteSet(Addresses(addr, active))
      /\ Cardinality(Addresses(addr, active)) <= Cardinality(Used)
  BY <1>4, <1>5, FS_Surjection
<1>7. Cardinality(Addresses(addr, active)) \in Nat /\ Cardinality(Used) \in Nat
  BY <1>4, <1>6, FS_CardinalityType
<1> QED
  BY <1>4, <1>6, <1>7

\* The map of connections before and after a step, by the slots in use.
LEMMA ConnectionFacts ==
  ASSUME Inv, Inv'
  PROVE  /\ DOMAIN Connection = Addresses(systemAddress, isActive)
         /\ \A j \in Slot : isActive[j] =>
              systemAddress[j] \in DOMAIN Connection /\ Connection[systemAddress[j]] = guid[j]
         /\ \A a \in DOMAIN Connection : \E j \in Slot : isActive[j] /\ systemAddress[j] = a
         /\ Connection' = [a \in DOMAIN Connection' |-> Connection'[a]]
         /\ \A j \in Slot : isActive'[j] =>
              systemAddress'[j] \in DOMAIN Connection' /\ Connection'[systemAddress'[j]] = guid'[j]
         /\ \A a \in DOMAIN Connection' : \E j \in Slot : isActive'[j] /\ systemAddress'[j] = a
<1>1. Distinct(systemAddress, isActive) /\ Distinct(systemAddress', isActive')
  BY EnteredDistinct DEF Inv, TypeOK, LookupType
<1>2. Connection' = [a \in DOMAIN Connection' |-> Connection'[a]]
  BY ConnectionIsView DEF View
<1> QED
  BY <1>1, <1>2, ConnectionIsView, ViewFacts

\* A map is what its domain and its values say that it is.
LEMMA SameMap ==
  ASSUME NEW new, NEW S, NEW Value, new = [a \in DOMAIN new |-> new[a]],
         DOMAIN new = S, \A a \in S : new[a] = Value[a]
  PROVE  new = [a \in S |-> Value[a]]
OBVIOUS

\* A connection that is made appears in the map.
LEMMA AssignConnects ==
  ASSUME Inv, Inv', NEW sa \in SystemAddress, NEW g \in Guid, ~Connected(sa),
         AssignSystemAddressToRemoteSystemList(sa, g)
  PROVE  Table!Connect(sa, g)
<1>1. PICK i \in Slot :
        /\ IsFirst(i, {j \in Slot : ~isActive[j]})
        /\ ReferenceRemoteSystem(sa, i)
        /\ guid' = [guid EXCEPT ![i] = g]
        /\ isActive' = [isActive EXCEPT ![i] = TRUE]
  BY DEF AssignSystemAddressToRemoteSystemList
<1>2. ~isActive[i]
  BY <1>1 DEF IsFirst
<1>3. /\ systemAddress'[i] = sa /\ guid'[i] = g /\ isActive'[i]
      /\ \A j \in Slot : j # i =>
           /\ systemAddress'[j] = systemAddress[j]
           /\ guid'[j] = guid[j]
           /\ isActive'[j] = isActive[j]
  BY <1>1 DEF Inv, TypeOK, ReferenceRemoteSystem
<1>4. sa \notin DOMAIN Connection
  BY NotConnected, ConnectionFacts
<1>5. DOMAIN Connection' = DOMAIN Connection \cup {sa}
  <2>1. ASSUME NEW b \in DOMAIN Connection'
        PROVE  b \in DOMAIN Connection \cup {sa}
    <3>1. PICK j \in Slot : isActive'[j] /\ systemAddress'[j] = b
      BY ConnectionFacts
    <3> QED
      BY <1>3, <3>1, ConnectionFacts
  <2>2. ASSUME NEW b \in DOMAIN Connection
        PROVE  b \in DOMAIN Connection'
    <3>1. PICK j \in Slot : isActive[j] /\ systemAddress[j] = b
      BY ConnectionFacts
    <3>2. isActive'[j] /\ systemAddress'[j] = b
      BY <1>2, <1>3, <3>1
    <3> QED
      BY <3>2, ConnectionFacts
  <2>3. sa \in DOMAIN Connection'
    BY <1>3, ConnectionFacts
  <2> QED
    BY <2>1, <2>2, <2>3
<1> DEFINE Value == [b \in DOMAIN Connection \cup {sa} |-> IF b = sa THEN g ELSE Connection[b]]
<1>6. ASSUME NEW b \in DOMAIN Connection \cup {sa}
      PROVE  Connection'[b] = Value[b]
  <2>1. PICK j \in Slot : isActive'[j] /\ systemAddress'[j] = b
    BY <1>5, <1>6, ConnectionFacts
  <2>2. Connection'[b] = guid'[j]
    BY <2>1, ConnectionFacts
  <2>3. CASE j = i
    BY <1>3, <2>1, <2>2, <2>3
  <2>4. CASE j # i
    <3>1. isActive[j] /\ systemAddress[j] = b /\ guid'[j] = guid[j]
      BY <1>3, <2>1, <2>4
    <3>2. b # sa
      BY <3>1, NotConnected
    <3>3. Connection[b] = guid[j]
      BY <3>1, ConnectionFacts
    <3> QED
      BY <2>2, <3>1, <3>2, <3>3
  <2> QED
    BY <2>3, <2>4
<1>7. Connection' = Value
  <2>1. Connection' = [b \in DOMAIN Connection \cup {sa} |-> Value[b]]
    <3> HIDE DEF Value
    <3> QED
      BY <1>5, <1>6, ConnectionFacts, SameMap
  <2> QED
    BY <2>1
<1>8. Cardinality(DOMAIN Connection) < MaximumNumberOfPeers
  BY <1>2, RoomForOneMore, ConnectionFacts
<1>9. Table!Cardinality(DOMAIN Connection) = Cardinality(DOMAIN Connection)
  BY DEF Table!Cardinality, Cardinality
<1> QED
  BY <1>4, <1>7, <1>8, <1>9 DEF Table!Connect

\* A connection that is closed disappears from the map.
LEMMA CloseDisconnects ==
  ASSUME Inv, Inv', NEW sa \in SystemAddress, CloseConnectionInternal(sa)
  PROVE  Table!Disconnect(sa) \/ UNCHANGED Connection
<1>1. CASE ~Connected(sa)
  BY <1>1 DEF CloseConnectionInternal, slots, Connection, ConnectedAddresses
<1>2. CASE Connected(sa)
  <2> DEFINE i == GetRemoteSystemIndex(sa)
  <2>1. i \in Slot /\ isActive[i] /\ systemAddress[i] = sa
    BY <1>2, ConnectedFound
  <2>2. /\ isActive' = [isActive EXCEPT ![i] = FALSE]
        /\ guid' = [guid EXCEPT ![i] = UnassignedGuid]
        /\ UNCHANGED systemAddress
    BY <1>2 DEF CloseConnectionInternal
  <2> HIDE DEF i
  <2>3. /\ ~isActive'[i]
        /\ \A j \in Slot : j # i =>
             isActive'[j] = isActive[j] /\ guid'[j] = guid[j]
    BY <2>1, <2>2 DEF Inv, TypeOK
  <2>4. \A j \in Slot : isActive[j] /\ systemAddress[j] = sa => j = i
    BY <2>1, ActiveFound
  <2>5. sa \in DOMAIN Connection
    BY <2>1, ConnectionFacts
  <2>6. DOMAIN Connection' = DOMAIN Connection \ {sa}
    <3>1. ASSUME NEW b \in DOMAIN Connection'
          PROVE  b \in DOMAIN Connection \ {sa}
      <4>1. PICK j \in Slot : isActive'[j] /\ systemAddress'[j] = b
        BY ConnectionFacts
      <4>2. isActive[j] /\ j # i /\ systemAddress[j] = b
        BY <2>2, <2>3, <4>1
      <4> QED
        BY <2>4, <4>2, ConnectionFacts
    <3>2. ASSUME NEW b \in DOMAIN Connection \ {sa}
          PROVE  b \in DOMAIN Connection'
      <4>1. PICK j \in Slot : isActive[j] /\ systemAddress[j] = b
        BY ConnectionFacts
      <4>2. isActive'[j] /\ systemAddress'[j] = b
        BY <2>1, <2>2, <2>3, <3>2, <4>1
      <4> QED
        BY <4>2, ConnectionFacts
    <3> QED
      BY <3>1, <3>2
  <2>7. ASSUME NEW b \in DOMAIN Connection \ {sa}
        PROVE  Connection'[b] = Connection[b]
    <3>1. PICK j \in Slot : isActive'[j] /\ systemAddress'[j] = b
      BY <2>6, <2>7, ConnectionFacts
    <3>2. j # i /\ isActive[j] /\ systemAddress[j] = b /\ guid'[j] = guid[j]
      BY <2>1, <2>2, <2>3, <3>1
    <3> QED
      BY <3>1, <3>2, ConnectionFacts
  <2>8. Connection' = [b \in DOMAIN Connection \ {sa} |-> Connection[b]]
    BY <2>6, <2>7, ConnectionFacts, SameMap
  <2> QED
    BY <2>5, <2>8 DEF Table!Disconnect, Table!Restrict
<1> QED
  BY <1>1, <1>2

\* A connection that is moved keeps its GUID in the map.
LEMMA ChangeMoves ==
  ASSUME Inv, Inv', ~SharedReroutes, NEW sa \in SystemAddress, NEW g \in Guid,
         ChangeSystemAddress(g, sa)
  PROVE  \E a \in SystemAddress : Table!Move(a, sa)
<1>1. PICK i \in Slot : isActive[i] /\ ReferenceRemoteSystem(sa, i)
  <2>1. PICK j \in Slot :
          /\ IsFirst(j, HasGuid(g))
          /\ ReferenceRemoteSystem(sa, GetRemoteSystemIndex(systemAddress[j]))
    BY DEF ChangeSystemAddress
  <2>2. isActive[j]
    BY <2>1 DEF IsFirst, HasGuid
  <2> QED
    BY <2>1, <2>2, ActiveFound
<1>2. ~Connected(sa) /\ UNCHANGED <<guid, isActive>>
  BY DEF ChangeSystemAddress
<1> DEFINE a == systemAddress[i]
<1>3. /\ a \in SystemAddress
      /\ \A j \in Slot : isActive[j] /\ systemAddress[j] = a => j = i
  BY <1>1, ActiveFound
<1>4. systemAddress'[i] = sa /\ \A j \in Slot : j # i => systemAddress'[j] = systemAddress[j]
  BY <1>1 DEF Inv, TypeOK, ReferenceRemoteSystem
<1>5. a \in DOMAIN Connection /\ sa \notin DOMAIN Connection
  BY <1>1, <1>2, NotConnected, ConnectionFacts
<1> HIDE DEF a
<1>6. DOMAIN Connection' = (DOMAIN Connection \ {a}) \cup {sa}
  <2>1. ASSUME NEW b \in DOMAIN Connection'
        PROVE  b \in (DOMAIN Connection \ {a}) \cup {sa}
    <3>1. PICK j \in Slot : isActive[j] /\ systemAddress'[j] = b
      BY <1>2, ConnectionFacts
    <3>2. CASE j = i
      BY <1>4, <3>1, <3>2
    <3>3. CASE j # i
      <4>1. systemAddress[j] = b /\ b # a
        BY <1>3, <1>4, <3>1, <3>3
      <4> QED
        BY <3>1, <4>1, ConnectionFacts
    <3> QED
      BY <3>2, <3>3
  <2>2. ASSUME NEW b \in (DOMAIN Connection \ {a}) \cup {sa}
        PROVE  b \in DOMAIN Connection'
    <3>1. CASE b = sa
      BY <1>1, <1>2, <1>4, <3>1, ConnectionFacts
    <3>2. CASE b # sa
      <4>1. PICK j \in Slot : isActive[j] /\ systemAddress[j] = b
        BY <2>2, <3>2, ConnectionFacts
      <4>2. j # i
        BY <2>2, <3>2, <4>1 DEF a
      <4> QED
        BY <1>2, <1>4, <4>1, <4>2, ConnectionFacts
    <3> QED
      BY <3>1, <3>2
  <2> QED
    BY <2>1, <2>2
<1> DEFINE Value == [b \in (DOMAIN Connection \ {a}) \cup {sa} |->
                       IF b = sa THEN Connection[a] ELSE Connection[b]]
<1>7. ASSUME NEW b \in (DOMAIN Connection \ {a}) \cup {sa}
      PROVE  Connection'[b] = Value[b]
  <2>1. PICK j \in Slot : isActive[j] /\ systemAddress'[j] = b /\ Connection'[b] = guid[j]
    BY <1>2, <1>6, <1>7, ConnectionFacts
  <2>2. Connection[systemAddress[j]] = guid[j]
    BY <2>1, ConnectionFacts
  <2>3. CASE j = i
    BY <1>4, <2>1, <2>2, <2>3 DEF a
  <2>4. CASE j # i
    <3>1. systemAddress[j] = b
      BY <1>4, <2>1, <2>4
    <3>2. b # sa
      BY <1>2, <2>1, <3>1, NotConnected
    <3> QED
      BY <2>1, <2>2, <3>1, <3>2
  <2> QED
    BY <2>3, <2>4
<1>8. Connection' = Value
  <2>1. Connection' = [b \in (DOMAIN Connection \ {a}) \cup {sa} |-> Value[b]]
    <3> HIDE DEF Value
    <3> QED
      BY <1>6, <1>7, ConnectionFacts, SameMap
  <2> QED
    BY <2>1
<1> QED
  BY <1>3, <1>5, <1>8 DEF Table!Move

\* The table implements RemoteSystems: at most MaximumNumberOfPeers addresses
\* are connected, each to one GUID, and a step connects, disconnects or moves
\* one of them or leaves them all alone.
THEOREM TableRefinement ==
  ASSUME ~SharedReroutes
  PROVE  Spec => ImplementsRemoteSystems
<1>1. Init => Table!Init
  <2> SUFFICES ASSUME Init PROVE Connection = <<>>
    BY DEF Table!Init
  <2>1. ConnectedAddresses = {}
    BY DEF Init, ConnectedAddresses
  <2> QED
    BY <2>1 DEF Connection
<1>2. ASSUME Inv, Inv', [Next]_vars
      PROVE  [Table!Next]_Connection
  <2>1. ASSUME NEW sa \in SystemAddress, NEW g \in Guid,
               OpenConnectionRequest2(sa, g) \/ OpenConnectionReply2(sa, g)
        PROVE  Table!Next
    <3>1. Table!Connect(sa, g)
      BY <1>2, <2>1, AssignConnects DEF OpenConnectionRequest2, OpenConnectionReply2
    <3> QED
      BY <3>1 DEF Table!Next
  <2>2. ASSUME NEW sa \in SystemAddress, NEW g \in Guid, ChangeSystemAddress(g, sa)
        PROVE  Table!Next
    <3>1. PICK a \in SystemAddress : Table!Move(a, sa)
      BY <1>2, <2>2, ChangeMoves
    <3> QED
      BY <3>1 DEF Table!Next
  <2>3. ASSUME NEW sa \in SystemAddress, CloseConnectionInternal(sa)
        PROVE  [Table!Next]_Connection
    <3>1. Table!Disconnect(sa) \/ UNCHANGED Connection
      BY <1>2, <2>3, CloseDisconnects
    <3> QED
      BY <3>1 DEF Table!Next
  <2>4. ASSUME DropRemoteSystem
        PROVE  [Table!Next]_Connection
    <3> DEFINE i == activeSystemList[cursor]
    <3>1. cursor \in DOMAIN activeSystemList /\ CloseConnectionInternal(systemAddress[i])
      BY <2>4 DEF DropRemoteSystem
    <3>2. i \in Slot /\ isActive[i]
      BY <1>2, <3>1 DEF Inv, TypeOK, ActiveListExact
    <3>3. systemAddress[i] \in SystemAddress
      BY <1>2, <3>2, ActiveFound
    <3> QED
      BY <2>3, <3>1, <3>3
  <2>5. ASSUME UNCHANGED slots
        PROVE  UNCHANGED Connection
    BY <2>5 DEF slots, Connection, ConnectedAddresses
  <2>6. ASSUME NEW i \in Slot, StartUpdate \/ UpdateRemoteSystem(i) \/ EndUpdate
        PROVE  UNCHANGED Connection
    BY <2>5, <2>6 DEF StartUpdate, UpdateRemoteSystem, EndUpdate
  <2>7. StartUpdate \/ EndUpdate \/ UNCHANGED vars => UNCHANGED Connection
    BY <2>5 DEF StartUpdate, EndUpdate, vars, slots
  <2> QED
    BY <1>2, <2>1, <2>2, <2>3, <2>4, <2>6, <2>7 DEF Next, UpdateCycle, CloseConnection
<1> QED
  BY <1>1, <1>2, Invariance, PTL DEF Spec, Table!Spec, ImplementsRemoteSystems

=============================================================================
