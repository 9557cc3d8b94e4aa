----------------------- MODULE ReplicaManager3_proofs -----------------------
(***************************************************************************)
(* Proofs about the lists of ReplicaManager3, for every set of systems,    *)
(* links and replicas, every mode and all limits.                          *)
(*                                                                         *)
(* From the inside out: an operation on a connection keeps its lists       *)
(* consistent; a fold of operations does; a handler, which is a function   *)
(* of the manager, takes a correct manager to a correct one; so an action  *)
(* keeps all managers correct.                                             *)
(***************************************************************************)
EXTENDS ReplicaManager3, SequenceTheorems, FiniteSetTheorems, WellFoundedInduction, TLAPS

----------------------------------------------------------------------------
(* Lists: what appending, removing and FoldLeft do to them, for every list. *)
(* FoldLeft is MapThenFoldSet over the list's positions, a CHOOSE of a      *)
(* function on sets of positions.  It is shown to exist and to run through  *)
(* a chain of values, one for each position, so that an invariant of the    *)
(* step is one of the fold.                                                 *)

\* Induction up to n over a set T rather than a predicate: if T missed a number,
\* one of the intervals 1..k of those it misses would be the smallest, as strict
\* inclusion is well-founded on a finite set.
LEMMA FiniteInduction ==
  ASSUME NEW n \in Nat, NEW T, 0 \in T,
         \A k \in 0..n-1 : k \in T => k + 1 \in T
  PROVE  \A k \in 0..n : k \in T
<1> DEFINE Missing == {k \in 0..n : k \notin T}
           Below == {1..k : k \in Missing}
<1> SUFFICES ASSUME Missing # {} PROVE FALSE
  OBVIOUS
<1>1. IsWellFoundedOn(StrictSubsetOrdering(1..n), SUBSET (1..n))
  <2>1. IsFiniteSet(1..n)
    BY FS_Interval
  <2> QED
    BY <2>1, FS_FiniteSubsetsOfFinite, FS_StrictSubsetOrderingWellFounded
<1>2. Below \subseteq SUBSET (1..n) /\ Below # {}
  OBVIOUS
<1>3. PICK x \in Below : \A y \in Below : <<y, x>> \notin StrictSubsetOrdering(1..n)
  <2> HIDE DEF Below
  <2> QED
    BY <1>1, <1>2, WFMin
<1>4. PICK k \in Missing : x = 1..k
  OBVIOUS
<1>5. k # 0 /\ k \in 1..n /\ k - 1 \in 0..n-1
  BY <1>4
<1>6. k - 1 \notin Missing
  <2> SUFFICES ASSUME k - 1 \in Missing PROVE FALSE
    OBVIOUS
  <2>1. 1..k-1 \in Below
    OBVIOUS
  <2>2. 1..k-1 \subseteq 1..k /\ 1..k-1 # 1..k
    BY <1>5
  <2>3. 1..k-1 \in SUBSET (1..n) /\ 1..k \in SUBSET (1..n)
    BY <1>5
  <2> QED
    BY <2>1, <2>2, <2>3, <1>3, <1>4 DEF StrictSubsetOrdering
<1>7. (k - 1) + 1 \in T
  BY <1>5, <1>6
<1> QED
  BY <1>5, <1>7

\* Max is what it should be wherever there is a greatest element.
LEMMA MaxOfSet ==
  ASSUME NEW n \in Nat, NEW s \in SUBSET (1..n), NEW k \in s, \A i \in s : i =< k
  PROVE  Max(s) = k
<1>1. k \in s /\ \A y \in s : k >= y
  OBVIOUS
<1>2. \A x \in s : (\A y \in s : x >= y) => x = k
  OBVIOUS
<1> QED
  BY <1>1, <1>2 DEF Max

\* A non-empty set of positions has its Max.
LEMMA MaxInSet ==
  ASSUME NEW n \in Nat, NEW s \in SUBSET (1..n), s # {}
  PROVE  Max(s) \in s
<1> DEFINE HasMax(k) == \A t \in SUBSET (1..k) : t # {} => \E m \in t : \A i \in t : i =< m
           T == {k \in 0..n : HasMax(k)}
<1>1. 0 \in T
  <2>1. \A t \in SUBSET (1..0) : t = {}
    OBVIOUS
  <2>2. HasMax(0)
    BY <2>1
  <2>3. 0 \in 0..n
    OBVIOUS
  <2> HIDE DEF HasMax
  <2> QED
    BY <2>2, <2>3
<1>2. ASSUME NEW k \in 0..n-1, k \in T PROVE k + 1 \in T
  <2>1. k + 1 \in 0..n /\ k \in Nat
    OBVIOUS
  <2>2. ASSUME NEW t \in SUBSET (1..k+1), t # {} PROVE \E m \in t : \A i \in t : i =< m
    <3>1. CASE k + 1 \in t
      <4>1. \A i \in t : i =< k + 1
        BY <2>1
      <4> QED
        BY <3>1, <4>1
    <3>2. CASE k + 1 \notin t
      <4>1. t \in SUBSET (1..k)
        BY <3>2, <2>1
      <4> QED
        BY <4>1, <1>2, <2>2
    <3> QED
      BY <3>1, <3>2
  <2>3. HasMax(k + 1)
    BY <2>2
  <2> HIDE DEF HasMax
  <2> QED
    BY <2>1, <2>3
<1>3. n \in T
  <2> HIDE DEF T
  <2>1. \A k \in 0..n : k \in T
    BY <1>1, <1>2, FiniteInduction
  <2> QED
    BY <2>1
<1>4. \E m \in s : \A i \in s : i =< m
  BY <1>3
<1> QED
  BY <1>4, MaxOfSet

\* ... and its Min.
LEMMA MinInSet ==
  ASSUME NEW n \in Nat, NEW s \in SUBSET (1..n), s # {}
  PROVE  Min(s) \in s /\ \A i \in s : Min(s) =< i
<1> DEFINE Found(k) == (\E i \in s : i =< k) => \E m \in s : \A i \in s : m =< i
           T == {k \in 0..n : Found(k)}
<1>1. 0 \in T
  <2>1. Found(0) /\ 0 \in 0..n
    OBVIOUS
  <2> HIDE DEF Found
  <2> QED
    BY <2>1
<1>2. ASSUME NEW k \in 0..n-1, k \in T PROVE k + 1 \in T
  <2>1. k + 1 \in 0..n /\ k \in Nat
    OBVIOUS
  <2>2. ASSUME NEW j \in s, j =< k + 1 PROVE \E m \in s : \A i \in s : m =< i
    <3>1. CASE \E i \in s : i =< k
      BY <1>2, <3>1
    <3>2. CASE ~ \E i \in s : i =< k
      <4>1. \A i \in s : j =< i
        BY <2>1, <2>2, <3>2
      <4> QED
        BY <4>1
    <3> QED
      BY <3>1, <3>2
  <2>3. Found(k + 1)
    BY <2>2
  <2> HIDE DEF Found
  <2> QED
    BY <2>1, <2>3
<1>3. n \in T
  <2> HIDE DEF T
  <2>1. \A k \in 0..n : k \in T
    BY <1>1, <1>2, FiniteInduction
  <2> QED
    BY <2>1
<1>4. \E i \in s : i =< n
  <2>1. PICK i \in s : TRUE
    OBVIOUS
  <2> QED
    BY <2>1
<1>5. \E m \in s : \A i \in s : m =< i
  BY <1>3, <1>4
<1> QED
  BY <1>5 DEF Min

\* f folds step over seq.
IsFold(f, step, base, seq) ==
  \A s \in SUBSET DOMAIN seq :
    f[s] = IF s = {} THEN base ELSE step[<<f[s \ {Max(s)}], seq[Max(s)]>>]

\* The function that defines a fold over a list exists: its values are found
\* set by set, from the smaller sets of positions to the larger.
LEMMA FoldExists ==
  ASSUME NEW X, NEW E, NEW step \in [X \X E -> X], NEW base \in X, NEW seq \in Seq(E)
  PROVE  \E f \in [SUBSET DOMAIN seq -> X] : IsFold(f, step, base, seq)
<1> DEFINE n == Len(seq)
           Folds(f, k) == \A s \in SUBSET (1..k) :
             f[s] = IF s = {} THEN base
                    ELSE step[<<f[s \ {Max(s)}], seq[Max(s)]>>]
           T == {k \in 0..n : \E f \in [SUBSET (1..k) -> X] : Folds(f, k)}
<1>0. n \in Nat /\ DOMAIN seq = 1..n /\ \A i \in 1..n : seq[i] \in E
  OBVIOUS
<1> HIDE DEF n
<1>1. 0 \in T
  <2> DEFINE f == [s \in SUBSET (1..0) |-> base]
  <2>1. f \in [SUBSET (1..0) -> X]
    OBVIOUS
  <2>2. \A s \in SUBSET (1..0) : s = {}
    OBVIOUS
  <2>3. Folds(f, 0)
    BY <2>2
  <2>4. 0 \in 0..n
    BY <1>0
  <2> HIDE DEF f, Folds
  <2> QED
    BY <2>1, <2>3, <2>4
<1>2. ASSUME NEW k \in 0..n-1, k \in T PROVE k + 1 \in T
  <2>1. PICK f \in [SUBSET (1..k) -> X] : Folds(f, k)
    BY <1>2
  <2>2. k + 1 \in 1..n /\ k \in Nat
    BY <1>0
  <2> DEFINE g == [s \in SUBSET (1..k+1) |->
                     IF k + 1 \in s THEN step[<<f[s \ {k + 1}], seq[k + 1]>>] ELSE f[s]]
  <2>3. \A s \in SUBSET (1..k+1) : s \ {k + 1} \in SUBSET (1..k)
    BY <2>2
  <2>4. \A s \in SUBSET (1..k+1) : k + 1 \notin s => s \in SUBSET (1..k)
    BY <2>3
  <2>5. seq[k + 1] \in E
    BY <2>2, <1>0
  <2>6. g \in [SUBSET (1..k+1) -> X]
    <3> SUFFICES ASSUME NEW s \in SUBSET (1..k+1) PROVE g[s] \in X
      OBVIOUS
    <3>1. f[s \ {k + 1}] \in X
      BY <2>3
    <3>2. step[<<f[s \ {k + 1}], seq[k + 1]>>] \in X
      BY <3>1, <2>5
    <3> QED
      BY <3>2, <2>4
  <2>7. Folds(g, k + 1)
    <3> SUFFICES ASSUME NEW s \in SUBSET (1..k+1)
                 PROVE  g[s] = IF s = {} THEN base
                               ELSE step[<<g[s \ {Max(s)}], seq[Max(s)]>>]
      OBVIOUS
    <3>1. CASE k + 1 \in s
      <4>1. Max(s) = k + 1
        <5>1. k + 1 \in Nat /\ \A i \in s : i =< k + 1
          BY <2>2
        <5> QED
          BY <5>1, <3>1, MaxOfSet
      <4>2. g[s \ {k + 1}] = f[s \ {k + 1}]
        BY <2>3
      <4> QED
        BY <4>1, <4>2, <3>1
    <3>2. CASE k + 1 \notin s
      <4>1. s \in SUBSET (1..k) /\ g[s] = f[s]
        BY <2>4, <3>2
      <4>2. \A z : /\ s \ {z} \in SUBSET (1..k) /\ s \ {z} \in SUBSET (1..k+1)
                   /\ k + 1 \notin s \ {z}
        BY <4>1, <3>2, <2>2
      <4>3. \A z : g[s \ {z}] = f[s \ {z}]
        BY <4>2
      <4> QED
        BY <4>1, <4>3, <2>1
    <3> QED
      BY <3>1, <3>2
  <2>8. k + 1 \in 0..n
    BY <2>2, <1>0
  <2> HIDE DEF g, Folds
  <2> QED
    BY <2>6, <2>7, <2>8
<1>3. n \in T
  <2> HIDE DEF T
  <2>1. \A k \in 0..n : k \in T
    BY <1>0, <1>1, <1>2, FiniteInduction
  <2> QED
    BY <2>1, <1>0
<1> QED
  BY <1>3, <1>0 DEF IsFold

\* The sets that a fold over a list passes through are the intervals 1..k.
LEMMA Prefix ==
  ASSUME NEW n \in Nat, NEW k \in 0..n-1
  PROVE  /\ 1..k+1 \in SUBSET (1..n) /\ 1..k \in SUBSET (1..n)
         /\ 1..k+1 # {} /\ 1..0 = {}
         /\ Max(1..k+1) = k + 1 /\ (1..k+1) \ {k + 1} = 1..k
<1>1. k + 1 \in 1..k+1 /\ \A i \in 1..k+1 : i =< k + 1
  OBVIOUS
<1>2. Max(1..k+1) = k + 1
  <2>1. k + 1 \in Nat /\ 1..k+1 \in SUBSET (1..k+1)
    OBVIOUS
  <2> QED
    BY <1>1, <2>1, MaxOfSet
<1> QED
  BY <1>1, <1>2

\* What the fold hands to its step is of the right types.
LEMMA FoldArguments ==
  ASSUME NEW X, NEW E, NEW seq \in Seq(E), NEW f \in [SUBSET DOMAIN seq -> X],
         NEW s \in SUBSET DOMAIN seq, s # {}
  PROVE  f[s \ {Max(s)}] \in X /\ seq[Max(s)] \in E
<1>1. DOMAIN seq = 1..Len(seq) /\ Len(seq) \in Nat
  OBVIOUS
<1>2. Max(s) \in DOMAIN seq
  BY <1>1, MaxInSet
<1> QED
  BY <1>2

\* Two functions that take the same steps agree on the whole list.
LEMMA FoldUnique ==
  ASSUME NEW n \in Nat, NEW f, NEW g, f[{}] = g[{}],
         \A s \in SUBSET (1..n) : s # {} /\ f[s \ {Max(s)}] = g[s \ {Max(s)}] => f[s] = g[s]
  PROVE  f[1..n] = g[1..n]
<1> DEFINE T == {k \in 0..n : f[1..k] = g[1..k]}
<1>1. 0 \in T
  <2>1. 1..0 = {} /\ 0 \in 0..n
    OBVIOUS
  <2> QED
    BY <2>1
<1>2. ASSUME NEW k \in 0..n-1, k \in T PROVE k + 1 \in T
  <2>1. k + 1 \in 0..n /\ f[1..k] = g[1..k]
    BY <1>2
  <2>2. /\ 1..k+1 \in SUBSET (1..n) /\ 1..k+1 # {}
        /\ (1..k+1) \ {Max(1..k+1)} = 1..k
    BY Prefix
  <2>3. f[1..k+1] = g[1..k+1]
    BY <2>1, <2>2
  <2> QED
    BY <2>1, <2>3
<1> HIDE DEF T
<1>3. \A k \in 0..n : k \in T
  BY <1>1, <1>2, FiniteInduction
<1> QED
  BY <1>3 DEF T

\* The values a fold goes through.
IsChain(g, step, base, seq) ==
  /\ g[0] = base
  /\ \A k \in 0..Len(seq)-1 : g[k + 1] = step[<<g[k], seq[k + 1]>>]

\* f folds step over seq within X, through the values of g.
FoldsThrough(f, g, X, step, base, seq) ==
  /\ f \in [SUBSET DOMAIN seq -> X] /\ g \in [0..Len(seq) -> X]
  /\ IsFold(f, step, base, seq) /\ IsChain(g, step, base, seq)
  /\ g[Len(seq)] = f[DOMAIN seq]

\* FoldLeft steps through a chain g[0], g[1], ... of values: what holds of
\* base and is kept by every step holds of the result, by FiniteInduction over
\* the chain.
LEMMA FoldThrough ==
  ASSUME NEW X, NEW E, NEW step \in [X \X E -> X], NEW base \in X, NEW seq \in Seq(E)
  PROVE  \E f, g : FoldsThrough(f, g, X, step, base, seq)
<1>0. PICK f \in [SUBSET DOMAIN seq -> X] : IsFold(f, step, base, seq)
  BY FoldExists
<1> DEFINE n == Len(seq)
           g == [k \in 0..n |-> f[1..k]]
<1>1. n \in Nat /\ DOMAIN seq = 1..n
  OBVIOUS
<1> HIDE DEF n
<1>2. \A k \in 0..n : 1..k \in SUBSET DOMAIN seq
  BY <1>1
<1>3. g \in [0..n -> X]
  BY <1>2
<1>4. g[0] = base
  <2>1. 1..0 = {} /\ 0 \in 0..n /\ {} \in SUBSET DOMAIN seq
    BY <1>1
  <2> QED
    BY <1>0, <2>1 DEF IsFold
<1>5. g[n] = f[DOMAIN seq]
  BY <1>1
<1>6. ASSUME NEW k \in 0..n-1 PROVE g[k + 1] = step[<<g[k], seq[k + 1]>>]
  <2>1. /\ 1..k+1 \in SUBSET DOMAIN seq /\ 1..k+1 # {}
        /\ Max(1..k+1) = k + 1 /\ (1..k+1) \ {k + 1} = 1..k
    BY <1>1, Prefix
  <2>2. f[1..k+1] = step[<<f[1..k], seq[k + 1]>>]
    BY <1>0, <2>1 DEF IsFold
  <2>3. k \in 0..n /\ k + 1 \in 0..n
    BY <1>1
  <2> QED
    BY <2>2, <2>3
<1> HIDE DEF g
<1>7. IsChain(g, step, base, seq)
  BY <1>4, <1>6 DEF n, IsChain
<1>8. FoldsThrough(f, g, X, step, base, seq)
  BY <1>0, <1>3, <1>5, <1>7 DEF n, FoldsThrough
<1> QED
  BY <1>8

----------------------------------------------------------------------------
(* Lists without repetitions *)

\* Contains and Range agree, and a list is one of its own entries.
LEMMA RangeOfList ==
  ASSUME NEW S, NEW list \in Seq(S)
  PROVE  /\ Range(list) \subseteq S
         /\ \A e : Contains(list, e) <=> e \in Range(list)
         /\ list \in Seq(Range(list))
  BY DEF Range, Contains

\* An entry that a list does not have can be appended without repeating any.
LEMMA AppendedList ==
  ASSUME NEW S, NEW list \in Seq(S), NEW e \in S
  PROVE  /\ Append(list, e) \in Seq(S)
         /\ Range(Append(list, e)) = Range(list) \cup {e}
         /\ IsInjective(list) /\ e \notin Range(list) => IsInjective(Append(list, e))
<1> DEFINE longer == Append(list, e)
           n == Len(list)
<1>1. /\ longer \in Seq(S) /\ n \in Nat /\ DOMAIN list = 1..n /\ DOMAIN longer = 1..n+1
      /\ longer[n + 1] = e /\ \A i \in 1..n : longer[i] = list[i]
  OBVIOUS
<1> HIDE DEF longer, n
<1>2. 1..n+1 = (1..n) \cup {n + 1}
  BY <1>1
<1>3. Range(longer) = Range(list) \cup {e}
  BY <1>1, <1>2 DEF Range
<1>4. IsInjective(list) /\ e \notin Range(list) => IsInjective(longer)
  BY <1>1, <1>2 DEF Range, IsInjective
<1> QED
  BY <1>1, <1>3, <1>4 DEF longer

\* RemoveFirst takes out one occurrence, which is the only one in a list
\* without repetitions.
LEMMA RemovedList ==
  ASSUME NEW S, NEW list \in Seq(S), NEW e
  PROVE  /\ RemoveFirst(list, e) \in Seq(S)
         /\ Range(RemoveFirst(list, e)) \subseteq Range(list)
         /\ Range(list) \ {e} \subseteq Range(RemoveFirst(list, e))
         /\ IsInjective(list) => /\ IsInjective(RemoveFirst(list, e))
                                 /\ Range(RemoveFirst(list, e)) = Range(list) \ {e}
<1> DEFINE n == Len(list)
           I == {i \in 1..n : list[i] = e}
           first == Min(I)
           rest == SubSeq(list, 1, first - 1) \o SubSeq(list, first + 1, n)
<1>0. n \in Nat /\ DOMAIN list = 1..n /\ \A i \in 1..n : list[i] \in S
  OBVIOUS
<1>1. CASE I = {}
  <2>1. RemoveFirst(list, e) = list /\ e \notin Range(list)
    BY <1>1, <1>0 DEF RemoveFirst, Range
  <2> QED
    BY <2>1
<1>2. CASE I # {}
  <2>1. RemoveFirst(list, e) = rest
    BY <1>2 DEF RemoveFirst, RemoveAt, SelectInSeq
  <2>2. first \in 1..n /\ list[first] = e
    <3>1. first \in I
      BY <1>0, <1>2, MinInSet
    <3> QED
      BY <3>1
  <2> HIDE DEF first, I, n
  <2>3. /\ rest \in Seq(S) /\ DOMAIN rest = 1..n-1
        /\ \A i \in 1..n-1 : rest[i] = IF i < first THEN list[i] ELSE list[i + 1]
    <3> DEFINE a == SubSeq(list, 1, first - 1)
               b == SubSeq(list, first + 1, n)
    <3>1. a \in Seq(S) /\ Len(a) = first - 1 /\ \A i \in 1..first-1 : a[i] = list[i]
      BY <1>0, <2>2 DEF n
    <3>2. b \in Seq(S) /\ Len(b) = n - first /\ \A i \in 1..n-first : b[i] = list[first + i]
      <4>1. /\ first + 1 \in 1..n+1 /\ n \in first..n /\ n - (first + 1) + 1 = n - first
            /\ \A i \in 1..n-first : first + 1 + i - 1 = first + i
        BY <1>0, <2>2
      <4> QED
        BY <4>1, <1>0, <2>2, SubSeqProperties
    <3> HIDE DEF a, b
    <3>3. rest = a \o b
      BY DEF a, b
    <3>4. /\ rest \in Seq(S) /\ Len(rest) = n - 1
          /\ \A i \in 1..n-1 : rest[i] = IF i =< first - 1 THEN a[i] ELSE b[i - (first - 1)]
      <4> HIDE DEF rest
      <4>1. Len(a) + Len(b) = n - 1 /\ n - 1 \in Nat
        BY <3>1, <3>2, <1>0, <2>2
      <4>2. rest \in Seq(S) /\ Len(rest) = Len(a) + Len(b)
        BY <3>1, <3>2, <3>3, ConcatProperties
      <4>3. \A i \in 1..Len(a)+Len(b) : rest[i] = IF i =< Len(a) THEN a[i] ELSE b[i - Len(a)]
        <5>1. a \in Seq(S) /\ b \in Seq(S)
          BY <3>1, <3>2
        <5>2. \A i \in 1..Len(a)+Len(b) :
                (a \o b)[i] = IF i =< Len(a) THEN a[i] ELSE b[i - Len(a)]
          BY <5>1, ConcatProperties
        <5> QED
          BY <5>2, <3>3
      <4> QED
        BY <4>1, <4>2, <4>3, <3>1
    <3> HIDE DEF rest
    <3>5. ASSUME NEW i \in 1..n-1 PROVE rest[i] = IF i < first THEN list[i] ELSE list[i + 1]
      <4>1. CASE i < first
        BY <4>1, <3>1, <3>4, <1>0, <2>2
      <4>2. CASE ~(i < first)
        <5>1. i - (first - 1) \in 1..n-first /\ first + (i - (first - 1)) = i + 1
          BY <4>2, <1>0, <2>2
        <5> QED
          BY <5>1, <4>2, <3>2, <3>4, <1>0, <2>2
      <4> QED
        BY <4>1, <4>2
    <3> QED
      BY <3>4, <3>5, <1>0
  <2> HIDE DEF rest
  <2>4. Range(rest) \subseteq Range(list)
    <3>1. ASSUME NEW i \in 1..n-1 PROVE \E j \in 1..n : rest[i] = list[j]
      BY <2>3, <1>0
    <3>2. DOMAIN rest = 1..n-1 /\ DOMAIN list = 1..n
      BY <2>3, <1>0
    <3> QED
      BY <3>1, <3>2 DEF Range
  <2>5. Range(list) \ {e} \subseteq Range(rest)
    <3>1. ASSUME NEW j \in 1..n, j # first PROVE \E i \in 1..n-1 : rest[i] = list[j]
      <4>1. CASE j < first
        BY <4>1, <2>2, <2>3, <1>0
      <4>2. CASE j > first
        <5>1. j - 1 \in 1..n-1 /\ ~(j - 1 < first) /\ (j - 1) + 1 = j
          BY <4>2, <2>2, <1>0
        <5> QED
          BY <5>1, <2>3
      <4> QED
        BY <4>1, <4>2, <3>1, <2>2, <1>0
    <3>2. DOMAIN rest = 1..n-1 /\ DOMAIN list = 1..n
      BY <2>3, <1>0
    <3>3. ASSUME NEW x \in Range(list), x # e PROVE x \in Range(rest)
      <4>1. PICK j \in 1..n : x = list[j]
        BY <3>2 DEF Range
      <4>2. j # first
        BY <4>1, <3>3, <2>2
      <4> QED
        BY <4>1, <4>2, <3>1, <3>2 DEF Range
    <3> QED
      BY <3>3
  <2>6. ASSUME IsInjective(list)
        PROVE  IsInjective(rest) /\ e \notin Range(rest)
    <3>1. \A i, j \in 1..n : list[i] = list[j] => i = j
      BY <2>6, <1>0 DEF IsInjective
    <3>2. ASSUME NEW i \in 1..n-1, NEW j \in 1..n-1, rest[i] = rest[j] PROVE i = j
      BY <3>1, <3>2, <2>2, <2>3, <1>0
    <3>3. ASSUME NEW i \in 1..n-1 PROVE rest[i] # e
      BY <3>1, <2>2, <2>3, <1>0
    <3> QED
      BY <3>2, <3>3, <2>3 DEF IsInjective, Range
  <2> QED
    BY <2>1, <2>3, <2>4, <2>5, <2>6
<1> QED
  BY <1>1, <1>2

\* A list without repetitions does not have what has been removed from it.
LEMMA RemovedOnce ==
  ASSUME NEW S, NEW list \in Seq(S), NEW e, IsInjective(list)
  PROVE  RemoveFirst(list, e) \in Seq(S \ {e})
<1>1. Range(RemoveFirst(list, e)) \subseteq S \ {e}
  BY RemovedList, RangeOfList
<1>2. RemoveFirst(list, e) \in Seq(Range(RemoveFirst(list, e)))
  BY RemovedList, RangeOfList
<1> QED
  BY <1>1, <1>2, SeqMonotonic

\* SetToSeq lists every element of a finite set once.
LEMMA ListOfSet ==
  ASSUME NEW S, IsFiniteSet(S)
  PROVE  SetToSeq(S) \in Seq(S) /\ Range(SetToSeq(S)) = S /\ IsInjective(SetToSeq(S))
<1> DEFINE n == Cardinality(S)
           Is(f) == f \in [1..n -> S] /\ IsInjective(f)
           list == SetToSeq(S)
<1>1. n \in Nat /\ ExistsBijection(1..n, S)
  BY FS_CardinalityType
<1>2. PICK f \in Bijection(1..n, S) : TRUE
  BY <1>1 DEF ExistsBijection
<1>3. Is(f)
  BY <1>2 DEF Bijection, Injection, IsInjective
<1>4. list = CHOOSE g : Is(g)
  BY DEF SetToSeq
<1>5. Is(list)
  <2> HIDE DEF Is, list
  <2> QED
    BY <1>3, <1>4
<1>6. list \in Injection(1..n, S)
  BY <1>5 DEF Injection, IsInjective
<1>7. list \in Surjection(1..n, S)
  <2>1. Cardinality(1..n) = n
    BY <1>1, FS_Interval
  <2> HIDE DEF list
  <2> QED
    BY <2>1, <1>6, FS_Injection
<1> QED
  BY <1>1, <1>5, <1>7 DEF Surjection, Range

----------------------------------------------------------------------------
(* The types of a manager *)

\* An entry of a construction message.
Item == [id : Replica, create : BOOLEAN, creator : System]

\* What one plugin sends to another, and what RakPeer adds.
Message ==
  [type : {"Construction"}, new : Seq(Item), deleted : Seq(Replica), arrived : BOOLEAN]
    \cup [type : {"Serialize"}, id : Replica, version : Nat, arrived : BOOLEAN]
    \cup [type : {"DownloadStarted", "DownloadComplete", "ScopeChange"}, arrived : BOOLEAN]
Packet == Message \cup [type : {"NewConnection", "ConnectionLost"}, arrived : {TRUE}]

Objects == [creator : System, version : Nat, lastSent : Nat]

\* A connection whose lists name replicas of R.
ConnectionOf(R) ==
  [isValidated : BOOLEAN, isFirstConstruction : BOOLEAN,
   groupConstructionAndSerialize : BOOLEAN, downloadGroup : Seq(Message),
   gotDownloadComplete : BOOLEAN,
   construct : Seq(R), constructed : Seq(R), serialize : Seq(R), destruct : Seq(R),
   lastResult : [Replica -> Nat]]

\* The lists of one connection do not contradict each other.
Consistent(c) ==
  /\ IsInjective(c.construct) /\ IsInjective(c.constructed)
  /\ IsInjective(c.serialize) /\ IsInjective(c.destruct)
  /\ Range(c.construct) \cap Range(c.constructed) = {}
  /\ Range(c.serialize) \cup Range(c.destruct) \subseteq Range(c.constructed)

\* The connections of a system; the two lists of queries stay empty on one
\* that is asked for its list of replicas.
ConnectionIn(s, R) ==
  {c \in ConnectionOf(R) :
     Consistent(c) /\ (~Queries(s) => c.construct = <<>> /\ c.destruct = <<>>)}

\* No application is asked for a list of replicas (QueryReplicaList): each
\* decides on construction replica by replica (QueryConstruction).
OnlyQueries == \A p \in PolicyChoice, s \in System : Mode[p][s] # "ConnectionReplicaList"

----------------------------------------------------------------------------
(* The lists of a connection *)

\* A connection that has just been pushed has empty lists.
LEMMA EmptyConnection ==
  ASSUME NEW s, NEW R
  PROVE  Connection \in ConnectionIn(s, R)
<1>1. Connection \in ConnectionOf(R)
  BY DEF Connection, ConnectionOf
<1>2. Range(<<>>) = {} /\ IsInjective(<<>>)
  BY DEF Range, IsInjective
<1> QED
  BY <1>1, <1>2 DEF ConnectionIn, Consistent, Connection

\* What ConnectionIn says of the lists.
LEMMA ConnectionLists ==
  ASSUME NEW s, NEW R, NEW c \in ConnectionIn(s, R)
  PROVE  /\ c.construct \in Seq(R) /\ c.constructed \in Seq(R)
         /\ c.serialize \in Seq(R) /\ c.destruct \in Seq(R)
         /\ Range(c.construct) \subseteq R /\ Range(c.constructed) \subseteq R
         /\ Range(c.serialize) \subseteq R /\ Range(c.destruct) \subseteq R
         /\ Consistent(c)
  BY RangeOfList DEF ConnectionIn, ConnectionOf

\* A replica that a connection does not list can be put into
\* queryToConstructReplicaList.
LEMMA Referenced ==
  ASSUME NEW s, Queries(s), NEW R \in SUBSET Replica, NEW c \in ConnectionIn(s, R), NEW r \in R,
         r \notin Range(c.construct), r \notin Range(c.constructed)
  PROVE  OnLocalReference(c, r) \in ConnectionIn(s, R)
<1> DEFINE n == OnLocalReference(c, r)
<1>1. /\ Append(c.construct, r) \in Seq(R)
      /\ Range(Append(c.construct, r)) = Range(c.construct) \cup {r}
      /\ IsInjective(Append(c.construct, r))
  BY ConnectionLists, AppendedList DEF Consistent
<1>2. n \in ConnectionOf(R)
  BY <1>1 DEF ConnectionIn, ConnectionOf, OnLocalReference
<1>3. /\ n.construct = Append(c.construct, r) /\ n.constructed = c.constructed
      /\ n.serialize = c.serialize /\ n.destruct = c.destruct
  BY DEF ConnectionIn, ConnectionOf, OnLocalReference
<1>4. Consistent(n)
  <2>1. Consistent(c)
    BY ConnectionLists
  <2> HIDE DEF n
  <2> QED
    BY <1>1, <1>3, <2>1 DEF Consistent
<1> QED
  BY <1>2, <1>4 DEF ConnectionIn

\* A connection remains correct when replicas come into existence.
LEMMA MoreReplicas ==
  ASSUME NEW s, NEW R, NEW Q, R \subseteq Q
  PROVE  ConnectionIn(s, R) \subseteq ConnectionIn(s, Q)
<1>1. Seq(R) \subseteq Seq(Q)
  BY SeqMonotonic
<1>2. ConnectionOf(R) \subseteq ConnectionOf(Q)
  BY <1>1 DEF ConnectionOf
<1> QED
  BY <1>2 DEF ConnectionIn

\* OnDereference clears a replica out of all four lists, so that it may be
\* deleted.
LEMMA Dereferenced ==
  ASSUME NEW s, NEW R \in SUBSET Replica, NEW c \in ConnectionIn(s, R), NEW r
  PROVE  OnDereference(c, r) \in ConnectionIn(s, R \ {r})
<1> DEFINE n == OnDereference(c, r)
           Removed(list) == RemoveFirst(list, r)
<1>1. /\ n.construct = Removed(c.construct) /\ n.constructed = Removed(c.constructed)
      /\ n.serialize = Removed(c.serialize) /\ n.destruct = Removed(c.destruct)
  BY DEF ConnectionIn, ConnectionOf, OnDereference
<1>2. ASSUME NEW list \in Seq(R), IsInjective(list)
      PROVE  /\ Removed(list) \in Seq(R \ {r}) /\ IsInjective(Removed(list))
             /\ Range(Removed(list)) = Range(list) \ {r}
  BY <1>2, RemovedList, RemovedOnce
<1> HIDE DEF Removed
<1>3. /\ Removed(c.construct) \in Seq(R \ {r}) /\ Removed(c.constructed) \in Seq(R \ {r})
      /\ Removed(c.serialize) \in Seq(R \ {r}) /\ Removed(c.destruct) \in Seq(R \ {r})
  BY <1>2, ConnectionLists DEF Consistent
<1>4. n \in ConnectionOf(R \ {r})
  BY <1>3 DEF ConnectionIn, ConnectionOf, OnDereference, Removed
<1>5. Consistent(n)
  <2>1. /\ Consistent(c) /\ c.construct \in Seq(R) /\ c.constructed \in Seq(R)
        /\ c.serialize \in Seq(R) /\ c.destruct \in Seq(R)
    BY ConnectionLists
  <2> HIDE DEF n
  <2> QED
    BY <1>1, <1>2, <2>1 DEF Consistent
<1>6. Removed(<<>>) = <<>>
  BY DEF Removed, RemoveFirst
<1> QED
  BY <1>1, <1>4, <1>5, <1>6 DEF ConnectionIn

\* A replica that is new on this system is in none of its lists.
LEMMA Unlisted ==
  ASSUME NEW s, NEW R \in SUBSET Replica, NEW c \in ConnectionIn(s, R),
         NEW r, r \notin R
  PROVE  /\ r \notin Range(c.construct) /\ r \notin Range(c.constructed)
         /\ r \notin Range(c.serialize) /\ r \notin Range(c.destruct)
         /\ ~Contains(c.construct, r) /\ ~Contains(c.constructed, r)
  BY ConnectionLists, RangeOfList

\* The lists of the connection that a new replica came over ...
LEMMA DownloadedHere ==
  ASSUME NEW s \in System, NEW R \in SUBSET Replica, NEW c \in ConnectionIn(s, R),
         NEW r \in Replica \ R
  PROVE  OnDownloadFromThisSystem(s, c, r) \in ConnectionIn(s, R \cup {r})
<1> DEFINE n == OnDownloadFromThisSystem(s, c, r)
           Q == R \cup {r}
<1>0. c \in ConnectionIn(s, Q)
  BY MoreReplicas
<1>1. /\ r \notin Range(c.construct) /\ r \notin Range(c.constructed)
      /\ r \notin Range(c.serialize) /\ r \notin Range(c.destruct)
      /\ ~Contains(c.constructed, r)
  BY Unlisted
<1>2. ASSUME NEW list \in Seq(Q), IsInjective(list), r \notin Range(list)
      PROVE  /\ Append(list, r) \in Seq(Q) /\ IsInjective(Append(list, r))
             /\ Range(Append(list, r)) = Range(list) \cup {r}
             /\ RemoveFirst(list, r) \in Seq(Q) /\ IsInjective(RemoveFirst(list, r))
             /\ Range(RemoveFirst(list, r)) = Range(list) \ {r}
  BY <1>2, AppendedList, RemovedList
<1>3. /\ c.construct \in Seq(Q) /\ c.constructed \in Seq(Q)
      /\ c.serialize \in Seq(Q) /\ c.destruct \in Seq(Q) /\ Consistent(c)
  BY <1>0, ConnectionLists
<1>4. CASE Queries(s)
  <2>1. /\ n.construct = RemoveFirst(c.construct, r)
        /\ n.constructed = Append(c.constructed, r)
        /\ n.serialize = Append(c.serialize, r) /\ n.destruct = Append(c.destruct, r)
    BY <1>1, <1>4 DEF ConnectionIn, ConnectionOf, OnDownloadFromThisSystem, Inserted
  <2>2. n \in ConnectionOf(Q)
    <3>1. c \in ConnectionOf(Q)
      BY <1>0 DEF ConnectionIn
    <3>2. /\ Append(c.serialize, r) \in Seq(Q) /\ Append(c.constructed, r) \in Seq(Q)
          /\ Append(c.destruct, r) \in Seq(Q) /\ RemoveFirst(c.construct, r) \in Seq(Q)
      BY <1>1, <1>2, <1>3 DEF Consistent
    <3> QED
      BY <3>1, <3>2, <1>1, <1>4 DEF ConnectionOf, OnDownloadFromThisSystem, Inserted
  <2>3. Consistent(n)
    <3>1. /\ IsInjective(Append(c.constructed, r)) /\ IsInjective(Append(c.serialize, r))
          /\ Range(Append(c.constructed, r)) = Range(c.constructed) \cup {r}
          /\ Range(Append(c.serialize, r)) = Range(c.serialize) \cup {r}
          /\ IsInjective(Append(c.destruct, r)) /\ IsInjective(RemoveFirst(c.construct, r))
          /\ Range(Append(c.destruct, r)) = Range(c.destruct) \cup {r}
          /\ Range(RemoveFirst(c.construct, r)) = Range(c.construct) \ {r}
      BY <1>1, <1>2, <1>3 DEF Consistent
    <3> HIDE DEF n, Q
    <3> QED
      BY <2>1, <3>1, <1>1, <1>3 DEF Consistent
  <2> QED
    BY <2>2, <2>3, <1>4 DEF ConnectionIn
<1>5. CASE ~Queries(s)
  <2>1. /\ n.construct = c.construct /\ n.constructed = Append(c.constructed, r)
        /\ n.serialize = Append(c.serialize, r) /\ n.destruct = c.destruct
    BY <1>1, <1>5 DEF ConnectionIn, ConnectionOf, OnDownloadFromThisSystem, Inserted
  <2>2. n \in ConnectionOf(Q)
    <3>1. c \in ConnectionOf(Q)
      BY <1>0 DEF ConnectionIn
    <3>2. Append(c.serialize, r) \in Seq(Q) /\ Append(c.constructed, r) \in Seq(Q)
      BY <1>1, <1>2, <1>3 DEF Consistent
    <3> QED
      BY <3>1, <3>2, <1>1, <1>5 DEF ConnectionOf, OnDownloadFromThisSystem, Inserted
  <2>3. Consistent(n)
    <3>1. /\ IsInjective(Append(c.constructed, r)) /\ IsInjective(Append(c.serialize, r))
          /\ Range(Append(c.constructed, r)) = Range(c.constructed) \cup {r}
          /\ Range(Append(c.serialize, r)) = Range(c.serialize) \cup {r}
      BY <1>1, <1>2, <1>3 DEF Consistent
    <3> HIDE DEF n, Q
    <3> QED
      BY <2>1, <3>1, <1>1, <1>3 DEF Consistent
  <2> QED
    BY <2>1, <2>2, <2>3, <1>0, <1>5 DEF ConnectionIn
<1> QED
  BY <1>4, <1>5

\* ... and of the others.
LEMMA DownloadedElsewhere ==
  ASSUME NEW s \in System, NEW R \in SUBSET Replica, NEW c \in ConnectionIn(s, R),
         NEW r \in Replica \ R
  PROVE  OnDownloadFromOtherSystem(s, c, r) \in ConnectionIn(s, R \cup {r})
<1>1. c \in ConnectionIn(s, R \cup {r})
  BY MoreReplicas
<1>2. CASE Queries(s)
  <2>2. r \notin Range(c.construct) /\ r \notin Range(c.constructed)
    BY Unlisted
  <2>3. R \cup {r} \in SUBSET Replica /\ r \in R \cup {r}
    OBVIOUS
  <2>4. OnLocalReference(c, r) \in ConnectionIn(s, R \cup {r})
    BY <1>1, <1>2, <2>2, <2>3, Referenced
  <2> QED
    BY <1>1, <1>2, <2>4 DEF OnDownloadFromOtherSystem
<1> QED
  BY <1>1, <1>2 DEF OnDownloadFromOtherSystem

\* OnConstructToThisConnection moves an entry from queryToConstructReplicaList
\* to the lists of what is constructed.
LEMMA ConstructedHere ==
  ASSUME NEW s, Queries(s), NEW R \in SUBSET Replica, NEW c \in ConnectionIn(s, R),
         NEW r \in Range(c.construct)
  PROVE  OnConstructToThisConnection(c, r) \in ConnectionIn(s, R)
<1> DEFINE n == OnConstructToThisConnection(c, r)
<1>1. /\ r \in R /\ r \notin Range(c.constructed) /\ r \notin Range(c.serialize)
      /\ r \notin Range(c.destruct) /\ ~Contains(c.constructed, r)
  <2>1. Consistent(c) /\ Range(c.construct) \subseteq R /\ c.constructed \in Seq(R)
    BY ConnectionLists
  <2> QED
    BY <2>1, RangeOfList DEF Consistent
<1>2. /\ Append(c.constructed, r) \in Seq(R) /\ Append(c.serialize, r) \in Seq(R)
      /\ Append(c.destruct, r) \in Seq(R) /\ RemoveFirst(c.construct, r) \in Seq(R)
  BY <1>1, ConnectionLists, AppendedList, RemovedList
<1>3. /\ n.construct = RemoveFirst(c.construct, r)
      /\ n.constructed = Append(c.constructed, r)
      /\ n.serialize = Append(c.serialize, r) /\ n.destruct = Append(c.destruct, r)
  BY <1>1 DEF ConnectionIn, ConnectionOf, OnConstructToThisConnection, Inserted
<1>4. n \in ConnectionOf(R)
  BY <1>1, <1>2 DEF ConnectionIn, ConnectionOf, OnConstructToThisConnection, Inserted
<1>5. Consistent(n)
  <2>1. ASSUME NEW list \in Seq(R), IsInjective(list)
        PROVE  /\ r \notin Range(list) => /\ IsInjective(Append(list, r))
                                          /\ Range(Append(list, r)) = Range(list) \cup {r}
               /\ IsInjective(RemoveFirst(list, r))
               /\ Range(RemoveFirst(list, r)) = Range(list) \ {r}
    BY <1>1, <2>1, AppendedList, RemovedList
  <2>2. Consistent(c)
    BY ConnectionLists
  <2> HIDE DEF n
  <2> QED
    BY <1>1, <1>3, <2>1, <2>2, ConnectionLists DEF Consistent
<1> QED
  BY <1>4, <1>5 DEF ConnectionIn

\* A listed replica may be added where it has not been constructed: the
\* condition that NoCrossing is about.
LEMMA ListedHere ==
  ASSUME NEW s, ~Queries(s), NEW R \in SUBSET Replica, NEW c \in ConnectionIn(s, R),
         NEW r \in R, r \notin Range(c.constructed)
  PROVE  /\ OnListedConstruct(c, r) \in ConnectionIn(s, R)
         /\ Range(OnListedConstruct(c, r).constructed) = Range(c.constructed) \cup {r}
<1> DEFINE n == OnListedConstruct(c, r)
<1>1. /\ r \notin Range(c.serialize) /\ ~Contains(c.constructed, r)
      /\ c.construct = <<>> /\ c.destruct = <<>>
  BY ConnectionLists, RangeOfList DEF Consistent, ConnectionIn
<1>2. /\ Append(c.constructed, r) \in Seq(R) /\ Append(c.serialize, r) \in Seq(R)
      /\ Range(Append(c.constructed, r)) = Range(c.constructed) \cup {r}
      /\ Range(Append(c.serialize, r)) = Range(c.serialize) \cup {r}
      /\ IsInjective(Append(c.constructed, r)) /\ IsInjective(Append(c.serialize, r))
  BY <1>1, ConnectionLists, AppendedList DEF Consistent
<1>3. /\ n.construct = <<>> /\ n.constructed = Append(c.constructed, r)
      /\ n.serialize = Append(c.serialize, r) /\ n.destruct = <<>>
  BY <1>1 DEF ConnectionIn, ConnectionOf, OnListedConstruct, Inserted
<1>4. n \in ConnectionOf(R)
  BY <1>1, <1>2 DEF ConnectionIn, ConnectionOf, OnListedConstruct, Inserted
<1>5. Consistent(n)
  <2>1. IsInjective(<<>>) /\ Range(<<>>) = {}
    BY DEF IsInjective, Range
  <2>2. Consistent(c)
    BY ConnectionLists
  <2> HIDE DEF n
  <2> QED
    BY <1>2, <1>3, <2>1, <2>2, ConnectionLists DEF Consistent
<1> QED
  BY <1>2, <1>3, <1>4, <1>5 DEF ConnectionIn

\* A construction of a replica that exists already keeps the lists; one that
\* is listed must not have been constructed.
LEMMA DownloadedExisting ==
  ASSUME NEW s \in System, NEW R \in SUBSET Replica, NEW c \in ConnectionIn(s, R),
         NEW r \in R, ~Queries(s) => r \notin Range(c.constructed)
  PROVE  OnDownloadExisting(s, c, r) \in ConnectionIn(s, R)
<1>1. CASE Queries(s)
  <2>1. Contains(c.construct, r) => r \in Range(c.construct)
    BY ConnectionLists, RangeOfList
  <2>2. Contains(c.construct, r) => OnConstructToThisConnection(c, r) \in ConnectionIn(s, R)
    BY <1>1, <2>1, ConstructedHere
  <2> QED
    BY <1>1, <2>2 DEF OnDownloadExisting
<1>2. CASE ~Queries(s)
  <2>1. OnListedConstruct(c, r) \in ConnectionIn(s, R)
    BY <1>2, ListedHere
  <2> QED
    BY <1>2, <2>1 DEF OnDownloadExisting
<1> QED
  BY <1>1, <1>2

\* OnNeverConstruct only forgets an entry ...
LEMMA NeverConstructed ==
  ASSUME NEW s, Queries(s), NEW R \in SUBSET Replica, NEW c \in ConnectionIn(s, R), NEW r
  PROVE  OnNeverConstruct(c, r) \in ConnectionIn(s, R)
<1> DEFINE n == OnNeverConstruct(c, r)
<1>1. /\ n.construct = RemoveFirst(c.construct, r) /\ n.constructed = c.constructed
      /\ n.serialize = c.serialize /\ n.destruct = c.destruct
  BY DEF ConnectionIn, ConnectionOf, OnNeverConstruct
<1>2. /\ RemoveFirst(c.construct, r) \in Seq(R) /\ IsInjective(RemoveFirst(c.construct, r))
      /\ Range(RemoveFirst(c.construct, r)) = Range(c.construct) \ {r}
  BY ConnectionLists, RemovedList DEF Consistent
<1>3. n \in ConnectionOf(R)
  BY <1>2 DEF ConnectionIn, ConnectionOf, OnNeverConstruct
<1>4. Consistent(n)
  <2>1. Consistent(c)
    BY ConnectionLists
  <2> HIDE DEF n
  <2> QED
    BY <1>1, <1>2, <2>1 DEF Consistent
<1> QED
  BY <1>3, <1>4 DEF ConnectionIn

\* ... and so does OnNeverSerialize.
LEMMA NeverSerialized ==
  ASSUME NEW s, NEW R \in SUBSET Replica, NEW c \in ConnectionIn(s, R), NEW r
  PROVE  OnNeverSerialize(c, r) \in ConnectionIn(s, R)
<1> DEFINE n == OnNeverSerialize(c, r)
<1>1. /\ n.construct = c.construct /\ n.constructed = c.constructed
      /\ n.serialize = RemoveFirst(c.serialize, r) /\ n.destruct = c.destruct
  BY DEF ConnectionIn, ConnectionOf, OnNeverSerialize
<1>2. /\ RemoveFirst(c.serialize, r) \in Seq(R) /\ IsInjective(RemoveFirst(c.serialize, r))
      /\ Range(RemoveFirst(c.serialize, r)) = Range(c.serialize) \ {r}
  BY ConnectionLists, RemovedList DEF Consistent
<1>3. n \in ConnectionOf(R)
  BY <1>2 DEF ConnectionIn, ConnectionOf, OnNeverSerialize
<1>4. Consistent(n)
  <2>1. Consistent(c)
    BY ConnectionLists
  <2> HIDE DEF n
  <2> QED
    BY <1>1, <1>2, <2>1 DEF Consistent
<1> QED
  BY <1>1, <1>3, <1>4 DEF ConnectionIn

\* OnSendDestructionFromQuery moves an entry back to
\* queryToConstructReplicaList.
LEMMA SentDestruction ==
  ASSUME NEW s, Queries(s), NEW R \in SUBSET Replica, NEW c \in ConnectionIn(s, R),
         NEW r \in Range(c.destruct)
  PROVE  OnSendDestructionFromQuery(c, r) \in ConnectionIn(s, R)
<1> DEFINE n == OnSendDestructionFromQuery(c, r)
<1>1. r \in R /\ r \in Range(c.constructed) /\ r \notin Range(c.construct)
  <2>1. Consistent(c) /\ Range(c.destruct) \subseteq R
    BY ConnectionLists
  <2> QED
    BY <2>1 DEF Consistent
<1>2. /\ n.construct = Append(c.construct, r)
      /\ n.constructed = RemoveFirst(c.constructed, r)
      /\ n.serialize = RemoveFirst(c.serialize, r) /\ n.destruct = RemoveFirst(c.destruct, r)
  BY DEF ConnectionIn, ConnectionOf, OnSendDestructionFromQuery
<1>3. /\ Append(c.construct, r) \in Seq(R) /\ RemoveFirst(c.constructed, r) \in Seq(R)
      /\ RemoveFirst(c.serialize, r) \in Seq(R) /\ RemoveFirst(c.destruct, r) \in Seq(R)
  BY <1>1, ConnectionLists, AppendedList, RemovedList
<1>4. n \in ConnectionOf(R)
  BY <1>3 DEF ConnectionIn, ConnectionOf, OnSendDestructionFromQuery
<1>5. Consistent(n)
  <2>1. ASSUME NEW list \in Seq(R), IsInjective(list)
        PROVE  /\ r \notin Range(list) => /\ IsInjective(Append(list, r))
                                          /\ Range(Append(list, r)) = Range(list) \cup {r}
               /\ IsInjective(RemoveFirst(list, r))
               /\ Range(RemoveFirst(list, r)) = Range(list) \ {r}
    BY <1>1, <2>1, AppendedList, RemovedList
  <2>2. Consistent(c)
    BY ConnectionLists
  <2> HIDE DEF n
  <2> QED
    BY <1>1, <1>2, <2>1, <2>2, ConnectionLists DEF Consistent
<1> QED
  BY <1>4, <1>5 DEF ConnectionIn

\* OnDoNotQueryDestruction only forgets an entry.
LEMMA DestructionNotAsked ==
  ASSUME NEW s, Queries(s), NEW R \in SUBSET Replica, NEW c \in ConnectionIn(s, R), NEW r
  PROVE  OnDoNotQueryDestruction(c, r) \in ConnectionIn(s, R)
<1> DEFINE n == OnDoNotQueryDestruction(c, r)
<1>1. /\ n.construct = c.construct /\ n.constructed = c.constructed
      /\ n.serialize = c.serialize /\ n.destruct = RemoveFirst(c.destruct, r)
  BY DEF ConnectionIn, ConnectionOf, OnDoNotQueryDestruction
<1>2. /\ RemoveFirst(c.destruct, r) \in Seq(R) /\ IsInjective(RemoveFirst(c.destruct, r))
      /\ Range(RemoveFirst(c.destruct, r)) = Range(c.destruct) \ {r}
  BY ConnectionLists, RemovedList DEF Consistent
<1>3. n \in ConnectionOf(R)
  BY <1>2 DEF ConnectionIn, ConnectionOf, OnDoNotQueryDestruction
<1>4. Consistent(n)
  <2>1. Consistent(c)
    BY ConnectionLists
  <2> HIDE DEF n
  <2> QED
    BY <1>1, <1>2, <2>1 DEF Consistent
<1> QED
  BY <1>3, <1>4 DEF ConnectionIn

\* A replica that QueryReplicaList no longer returns.
LEMMA ListedNoMore ==
  ASSUME NEW s, ~Queries(s), NEW R \in SUBSET Replica, NEW c \in ConnectionIn(s, R), NEW r
  PROVE  [c EXCEPT !.constructed = RemoveFirst(@, r), !.serialize = RemoveFirst(@, r)]
           \in ConnectionIn(s, R)
<1> DEFINE n == [c EXCEPT !.constructed = RemoveFirst(@, r),
                          !.serialize = RemoveFirst(@, r)]
<1>1. /\ n.construct = c.construct /\ n.constructed = RemoveFirst(c.constructed, r)
      /\ n.serialize = RemoveFirst(c.serialize, r) /\ n.destruct = c.destruct
      /\ c.construct = <<>> /\ c.destruct = <<>>
  BY DEF ConnectionIn, ConnectionOf
<1>2. /\ RemoveFirst(c.serialize, r) \in Seq(R) /\ IsInjective(RemoveFirst(c.serialize, r))
      /\ Range(RemoveFirst(c.serialize, r)) = Range(c.serialize) \ {r}
      /\ RemoveFirst(c.constructed, r) \in Seq(R) /\ IsInjective(RemoveFirst(c.constructed, r))
      /\ Range(RemoveFirst(c.constructed, r)) = Range(c.constructed) \ {r}
  BY ConnectionLists, RemovedList DEF Consistent
<1>3. n \in ConnectionOf(R)
  BY <1>2 DEF ConnectionIn, ConnectionOf
<1>4. Consistent(n)
  <2>1. Range(<<>>) = {}
    BY DEF Range
  <2>2. Consistent(c)
    BY ConnectionLists
  <2> HIDE DEF n
  <2> QED
    BY <1>1, <1>2, <2>1, <2>2, ConnectionLists DEF Consistent
<1> QED
  BY <1>1, <1>3, <1>4 DEF ConnectionIn

----------------------------------------------------------------------------
(* The folds over lists *)

\* A connection that a loop works on.
Steady(c, R) == {e \in ConnectionOf(R) : e.isValidated = c.isValidated}

\* No operation on the lists changes whether the connection is validated.
LEMMA SteadyOperations ==
  ASSUME NEW c, NEW R, NEW e \in Steady(c, R), NEW r \in R
  PROVE  /\ OnLocalReference(e, r) \in Steady(c, R)
         /\ OnConstructToThisConnection(e, r) \in Steady(c, R)
         /\ OnListedConstruct(e, r) \in Steady(c, R)
         /\ OnNeverConstruct(e, r) \in Steady(c, R)
         /\ OnSendDestructionFromQuery(e, r) \in Steady(c, R)
         /\ OnDoNotQueryDestruction(e, r) \in Steady(c, R)
<1>1. /\ e.construct \in Seq(R) /\ e.constructed \in Seq(R)
      /\ e.serialize \in Seq(R) /\ e.destruct \in Seq(R)
  BY DEF Steady, ConnectionOf
<1>2. ASSUME NEW list \in Seq(R)
      PROVE  /\ Append(list, r) \in Seq(R) /\ RemoveFirst(list, r) \in Seq(R)
             /\ Inserted(list, r) \in Seq(R)
  BY AppendedList, RemovedList DEF Inserted
<1> USE <1>1, <1>2 DEF Steady, ConnectionOf
<1>3. OnLocalReference(e, r) \in Steady(c, R)
  BY DEF OnLocalReference
<1>4. OnConstructToThisConnection(e, r) \in Steady(c, R)
  BY DEF OnConstructToThisConnection
<1>5. OnListedConstruct(e, r) \in Steady(c, R)
  BY DEF OnListedConstruct
<1>6. OnNeverConstruct(e, r) \in Steady(c, R)
  BY DEF OnNeverConstruct
<1>7. OnSendDestructionFromQuery(e, r) \in Steady(c, R)
  BY DEF OnSendDestructionFromQuery
<1>8. OnDoNotQueryDestruction(e, r) \in Steady(c, R)
  BY DEF OnDoNotQueryDestruction
<1> QED
  BY <1>3, <1>4, <1>5, <1>6, <1>7, <1>8

\* What Those selects is a list of the selected.
LEMMA ThoseList ==
  ASSUME NEW A, NEW list \in Seq(A), NEW S
  PROVE  Those(list, S) \in Seq(A \cap S)
<1> DEFINE X == Seq(A \cap S)
           E == A
           op(x, e) == IF e \in S THEN Append(x, e) ELSE x
           step == [p \in X \X E |-> op(p[1], p[2])]
           Is(f) == f = [t \in SUBSET DOMAIN list |->
                           IF t = {} THEN <<>> ELSE op(f[t \ {Max(t)}], list[Max(t)])]
           it == CHOOSE f : Is(f)
<1>1. \A x \in X, e \in E : op(x, e) \in X
  OBVIOUS
<1>2. Those(list, S) = it[DOMAIN list]
  BY DEF Those, FoldLeft, MapThenFoldSet
<1>3. <<>> \in X /\ list \in Seq(E)
  OBVIOUS
<1> HIDE DEF X, E, op
<1>4. step \in [X \X E -> X]
  BY <1>1
<1>5. PICK h \in [SUBSET DOMAIN list -> X] : IsFold(h, step, <<>>, list)
  <2> HIDE DEF step
  <2> QED
    BY <1>3, <1>4, FoldExists
<1>6. Is(h)
  <2>1. \A t \in SUBSET DOMAIN list : t # {} =>
          step[<<h[t \ {Max(t)}], list[Max(t)]>>] = op(h[t \ {Max(t)}], list[Max(t)])
    <3>1. ASSUME NEW t \in SUBSET DOMAIN list, t # {}
          PROVE  h[t \ {Max(t)}] \in X /\ list[Max(t)] \in E
      <4> HIDE DEF step, Is, it
      <4> QED
        BY <1>3, <1>5, <3>1, FoldArguments
    <3> QED
      BY <3>1
  <2> HIDE DEF step
  <2> QED
    BY <1>5, <2>1 DEF IsFold
<1>7. Is(it)
  <2> HIDE DEF Is
  <2> QED
    BY <1>6
<1>8. it[DOMAIN list] = h[DOMAIN list]
  <2> HIDE DEF it
  <2>1. DOMAIN list = 1..Len(list) /\ Len(list) \in Nat
    BY <1>3
  <2>2. it[{}] = h[{}]
    BY <1>6, <1>7
  <2>3. \A t \in SUBSET DOMAIN list :
          t # {} /\ it[t \ {Max(t)}] = h[t \ {Max(t)}] => it[t] = h[t]
    BY <1>6, <1>7
  <2> HIDE DEF Is
  <2> QED
    BY <2>1, <2>2, <2>3, FoldUnique
<1> HIDE DEF it
<1>9. h[DOMAIN list] \in X
  OBVIOUS
<1> QED
  BY <1>2, <1>8, <1>9 DEF X

\* In ConstructLoop every entry is still in the list when its turn comes.
LEMMA ConstructLoopList ==
  ASSUME NEW s, Queries(s), NEW d, NEW m, NEW R \in SUBSET Replica, NEW c \in ConnectionIn(s, R)
  PROVE  /\ ConstructLoop(s, d, m, c) \in ConnectionIn(s, R)
         /\ ConstructLoop(s, d, m, c).isValidated = c.isValidated
<1> DEFINE list == c.construct
           X == Steady(c, R)
           E == R
           op(x, e) == CASE ConstructionState(s, d, m, e) = "NoAction" -> x
                         [] ConstructionState(s, d, m, e) = "NeverConstruct" -> OnNeverConstruct(x, e)
                         [] OTHER -> OnConstructToThisConnection(x, e)
           step == [p \in X \X E |-> op(p[1], p[2])]
           Is(f) == f = [t \in SUBSET DOMAIN list |->
                           IF t = {} THEN c ELSE op(f[t \ {Max(t)}], list[Max(t)])]
           it == CHOOSE f : Is(f)
<1>1. \A x \in X, e \in E : op(x, e) \in X
  BY SteadyOperations
<1>2. ConstructLoop(s, d, m, c) = it[DOMAIN list]
  BY DEF ConstructLoop, FoldLeft, MapThenFoldSet
<1>3. c \in X /\ list \in Seq(E)
  BY ConnectionLists DEF Steady, ConnectionIn
<1> HIDE DEF X, E, op, list
<1>4. step \in [X \X E -> X]
  BY <1>1
<1>5. PICK h, g : FoldsThrough(h, g, X, step, c, list)
  <2> HIDE DEF step
  <2> QED
    BY <1>3, <1>4, FoldThrough
<1>chain. /\ h \in [SUBSET DOMAIN list -> X] /\ g \in [0..Len(list) -> X]
      /\ IsFold(h, step, c, list) /\ IsChain(g, step, c, list)
      /\ g[Len(list)] = h[DOMAIN list]
  <2> HIDE DEF step
  <2> QED
    BY <1>5 DEF FoldsThrough
<1>6. Is(h)
  <2>1. \A t \in SUBSET DOMAIN list : t # {} =>
          step[<<h[t \ {Max(t)}], list[Max(t)]>>] = op(h[t \ {Max(t)}], list[Max(t)])
    <3>1. ASSUME NEW t \in SUBSET DOMAIN list, t # {}
          PROVE  h[t \ {Max(t)}] \in X /\ list[Max(t)] \in E
      <4> HIDE DEF step, Is, it
      <4> QED
        BY <1>3, <1>chain, <3>1, FoldArguments
    <3> QED
      BY <3>1
  <2> HIDE DEF step
  <2> QED
    BY <1>chain, <2>1 DEF IsFold
<1>7. Is(it)
  <2> HIDE DEF Is
  <2> QED
    BY <1>6
<1>8. it[DOMAIN list] = h[DOMAIN list]
  <2> HIDE DEF it
  <2>1. DOMAIN list = 1..Len(list) /\ Len(list) \in Nat
    BY <1>3
  <2>2. it[{}] = h[{}]
    BY <1>6, <1>7
  <2>3. \A t \in SUBSET DOMAIN list :
          t # {} /\ it[t \ {Max(t)}] = h[t \ {Max(t)}] => it[t] = h[t]
    BY <1>6, <1>7
  <2> HIDE DEF Is
  <2> QED
    BY <2>1, <2>2, <2>3, FoldUnique
<1> HIDE DEF it
<1>9. g[Len(list)] = h[DOMAIN list]
  BY <1>chain
<1>10. ASSUME NEW k \in 0..Len(list)-1
       PROVE  /\ g[k] \in X /\ list[k + 1] \in E
              /\ g[k + 1] = op(g[k], list[k + 1])
  <2>1. Len(list) \in Nat /\ DOMAIN list = 1..Len(list)
    BY <1>3
  <2>2. k \in 0..Len(list) /\ k + 1 \in 1..Len(list)
    BY <2>1
  <2>3. g[k] \in X /\ list[k + 1] \in E
    BY <1>3, <1>chain, <2>2
  <2>4. g[k + 1] = step[<<g[k], list[k + 1]>>]
    <3> HIDE DEF step
    <3> QED
      BY <1>chain DEF IsChain
  <2> QED
    BY <2>3, <2>4
<1>11. g[0] = c
  <2> HIDE DEF step
  <2> QED
    BY <1>chain DEF IsChain
<1> HIDE DEF step, Is
<1> DEFINE n == Len(list)
           Left(k) == {list[i] : i \in k+1..n}
           T == {k \in 0..n : /\ g[k] \in ConnectionIn(s, R)
                              /\ g[k].isValidated = c.isValidated
                              /\ Left(k) \subseteq Range(g[k].construct)}
<1>12. n \in Nat /\ DOMAIN list = 1..n /\ IsInjective(list)
  BY <1>3, ConnectionLists DEF Consistent, list
<1>13. 0 \in T
  <2>1. Left(0) \subseteq Range(list)
    BY <1>12 DEF Range
  <2> QED
    BY <1>11, <1>12, <2>1 DEF list
<1>14. ASSUME NEW k \in 0..n-1, k \in T PROVE k + 1 \in T
  <2> DEFINE e == g[k]
             r == list[k + 1]
  <2>1. k + 1 \in 1..n /\ k + 1 \in 0..n
    BY <1>12
  <2>2. e \in ConnectionIn(s, R) /\ e.isValidated = c.isValidated /\ r \in Range(e.construct)
    BY <1>14, <2>1
  <2>3. Left(k + 1) \subseteq Range(e.construct) \ {r}
    BY <1>12, <1>14, <2>1 DEF IsInjective
  <2>4. g[k + 1] = op(e, r)
    BY <1>10
  <2>5. r \in R
    BY <2>2, ConnectionLists
  <2> HIDE DEF e, r, Left
  <2>6. ASSUME NEW x, x \in {e, OnNeverConstruct(e, r), OnConstructToThisConnection(e, r)}
        PROVE  /\ x \in ConnectionIn(s, R) /\ x.isValidated = c.isValidated
               /\ Range(e.construct) \ {r} \subseteq Range(x.construct)
    <3>1. /\ RemoveFirst(e.construct, r) \in Seq(R)
          /\ Range(RemoveFirst(e.construct, r)) = Range(e.construct) \ {r}
      BY <2>2, ConnectionLists, RemovedList DEF Consistent
    <3>2. CASE x = OnNeverConstruct(e, r)
      <4>1. x \in ConnectionIn(s, R)
        BY <2>2, <3>2, NeverConstructed
      <4>2. x.construct = RemoveFirst(e.construct, r) /\ x.isValidated = e.isValidated
        BY <2>2, <3>2 DEF OnNeverConstruct, ConnectionIn, ConnectionOf
      <4> QED
        BY <2>2, <3>1, <4>1, <4>2
    <3>3. CASE x = OnConstructToThisConnection(e, r)
      <4>1. x \in ConnectionIn(s, R)
        BY <2>2, <3>3, ConstructedHere
      <4>2. x.construct = RemoveFirst(e.construct, r) /\ x.isValidated = e.isValidated
        BY <2>2, <3>3 DEF OnConstructToThisConnection, ConnectionIn, ConnectionOf
      <4> QED
        BY <2>2, <3>1, <4>1, <4>2
    <3> QED
      BY <2>2, <2>6, <3>2, <3>3
  <2>7. g[k + 1] \in {e, OnNeverConstruct(e, r), OnConstructToThisConnection(e, r)}
    BY <2>4 DEF op
  <2> QED
    BY <2>1, <2>3, <2>6, <2>7
<1> HIDE DEF T
<1>15. n \in T
  <2>1. \A k \in 0..n : k \in T
    BY <1>12, <1>13, <1>14, FiniteInduction
  <2> QED
    BY <2>1, <1>12
<1> QED
  BY <1>2, <1>8, <1>9, <1>15 DEF T

\* ... and so it is in DestructLoop.
LEMMA DestructLoopList ==
  ASSUME NEW s, Queries(s), NEW d, NEW R \in SUBSET Replica, NEW c \in ConnectionIn(s, R),
         Mode[policy][s] = "ReplicaConstructionAndDestruction"
  PROVE  /\ DestructLoop(s, d, c) \in ConnectionIn(s, R)
         /\ DestructLoop(s, d, c).isValidated = c.isValidated
<1> DEFINE list == c.destruct
           X == Steady(c, R)
           E == R
           op(x, e) == CASE DestructionState(s, d, e) = "NoAction" -> x
                         [] DestructionState(s, d, e) = "SendDestruction" ->
                              OnSendDestructionFromQuery(x, e)
                         [] OTHER -> OnDoNotQueryDestruction(x, e)
           step == [p \in X \X E |-> op(p[1], p[2])]
           Is(f) == f = [t \in SUBSET DOMAIN list |->
                           IF t = {} THEN c ELSE op(f[t \ {Max(t)}], list[Max(t)])]
           it == CHOOSE f : Is(f)
<1>1. \A x \in X, e \in E : op(x, e) \in X
  BY SteadyOperations
<1>2. DestructLoop(s, d, c) = it[DOMAIN list]
  BY DEF DestructLoop, FoldLeft, MapThenFoldSet
<1>3. c \in X /\ list \in Seq(E)
  BY ConnectionLists DEF Steady, ConnectionIn
<1> HIDE DEF X, E, op, list
<1>4. step \in [X \X E -> X]
  BY <1>1
<1>5. PICK h, g : FoldsThrough(h, g, X, step, c, list)
  <2> HIDE DEF step
  <2> QED
    BY <1>3, <1>4, FoldThrough
<1>chain. /\ h \in [SUBSET DOMAIN list -> X] /\ g \in [0..Len(list) -> X]
      /\ IsFold(h, step, c, list) /\ IsChain(g, step, c, list)
      /\ g[Len(list)] = h[DOMAIN list]
  <2> HIDE DEF step
  <2> QED
    BY <1>5 DEF FoldsThrough
<1>6. Is(h)
  <2>1. \A t \in SUBSET DOMAIN list : t # {} =>
          step[<<h[t \ {Max(t)}], list[Max(t)]>>] = op(h[t \ {Max(t)}], list[Max(t)])
    <3>1. ASSUME NEW t \in SUBSET DOMAIN list, t # {}
          PROVE  h[t \ {Max(t)}] \in X /\ list[Max(t)] \in E
      <4> HIDE DEF step, Is, it
      <4> QED
        BY <1>3, <1>chain, <3>1, FoldArguments
    <3> QED
      BY <3>1
  <2> HIDE DEF step
  <2> QED
    BY <1>chain, <2>1 DEF IsFold
<1>7. Is(it)
  <2> HIDE DEF Is
  <2> QED
    BY <1>6
<1>8. it[DOMAIN list] = h[DOMAIN list]
  <2> HIDE DEF it
  <2>1. DOMAIN list = 1..Len(list) /\ Len(list) \in Nat
    BY <1>3
  <2>2. it[{}] = h[{}]
    BY <1>6, <1>7
  <2>3. \A t \in SUBSET DOMAIN list :
          t # {} /\ it[t \ {Max(t)}] = h[t \ {Max(t)}] => it[t] = h[t]
    BY <1>6, <1>7
  <2> HIDE DEF Is
  <2> QED
    BY <2>1, <2>2, <2>3, FoldUnique
<1> HIDE DEF it
<1>9. g[Len(list)] = h[DOMAIN list]
  BY <1>chain
<1>10. ASSUME NEW k \in 0..Len(list)-1
       PROVE  /\ g[k] \in X /\ list[k + 1] \in E
              /\ g[k + 1] = op(g[k], list[k + 1])
  <2>1. Len(list) \in Nat /\ DOMAIN list = 1..Len(list)
    BY <1>3
  <2>2. k \in 0..Len(list) /\ k + 1 \in 1..Len(list)
    BY <2>1
  <2>3. g[k] \in X /\ list[k + 1] \in E
    BY <1>3, <1>chain, <2>2
  <2>4. g[k + 1] = step[<<g[k], list[k + 1]>>]
    <3> HIDE DEF step
    <3> QED
      BY <1>chain DEF IsChain
  <2> QED
    BY <2>3, <2>4
<1>11. g[0] = c
  <2> HIDE DEF step
  <2> QED
    BY <1>chain DEF IsChain
<1> HIDE DEF step, Is
<1> DEFINE n == Len(list)
           Left(k) == {list[i] : i \in k+1..n}
           T == {k \in 0..n : /\ g[k] \in ConnectionIn(s, R)
                              /\ g[k].isValidated = c.isValidated
                              /\ Left(k) \subseteq Range(g[k].destruct)}
<1>12. n \in Nat /\ DOMAIN list = 1..n /\ IsInjective(list)
  BY <1>3, ConnectionLists DEF Consistent, list
<1>13. 0 \in T
  <2>1. Left(0) \subseteq Range(list)
    BY <1>12 DEF Range
  <2> QED
    BY <1>11, <1>12, <2>1 DEF list
<1>14. ASSUME NEW k \in 0..n-1, k \in T PROVE k + 1 \in T
  <2> DEFINE e == g[k]
             r == list[k + 1]
  <2>1. k + 1 \in 1..n /\ k + 1 \in 0..n
    BY <1>12
  <2>2. e \in ConnectionIn(s, R) /\ e.isValidated = c.isValidated /\ r \in Range(e.destruct)
    BY <1>14, <2>1
  <2>3. Left(k + 1) \subseteq Range(e.destruct) \ {r}
    BY <1>12, <1>14, <2>1 DEF IsInjective
  <2>4. g[k + 1] = op(e, r)
    BY <1>10
  <2>5. r \in R
    BY <2>2, ConnectionLists
  <2> HIDE DEF e, r, Left
  <2>6. ASSUME NEW x,
               x \in {e, OnSendDestructionFromQuery(e, r), OnDoNotQueryDestruction(e, r)}
        PROVE  /\ x \in ConnectionIn(s, R) /\ x.isValidated = c.isValidated
               /\ Range(e.destruct) \ {r} \subseteq Range(x.destruct)
    <3>1. /\ RemoveFirst(e.destruct, r) \in Seq(R)
          /\ Range(RemoveFirst(e.destruct, r)) = Range(e.destruct) \ {r}
      BY <2>2, ConnectionLists, RemovedList DEF Consistent
    <3>2. CASE x = OnDoNotQueryDestruction(e, r)
      <4>1. x \in ConnectionIn(s, R)
        BY <2>2, <3>2, DestructionNotAsked
      <4>2. x.destruct = RemoveFirst(e.destruct, r) /\ x.isValidated = e.isValidated
        BY <2>2, <3>2 DEF OnDoNotQueryDestruction, ConnectionIn, ConnectionOf
      <4> QED
        BY <2>2, <3>1, <4>1, <4>2
    <3>3. CASE x = OnSendDestructionFromQuery(e, r)
      <4>1. x \in ConnectionIn(s, R)
        BY <2>2, <3>3, SentDestruction
      <4>2. x.destruct = RemoveFirst(e.destruct, r) /\ x.isValidated = e.isValidated
        BY <2>2, <3>3 DEF OnSendDestructionFromQuery, ConnectionIn, ConnectionOf
      <4> QED
        BY <2>2, <3>1, <4>1, <4>2
    <3> QED
      BY <2>2, <2>6, <3>2, <3>3
  <2>7. g[k + 1] \in {e, OnSendDestructionFromQuery(e, r), OnDoNotQueryDestruction(e, r)}
    BY <2>4 DEF op
  <2> QED
    BY <2>1, <2>3, <2>6, <2>7
<1> HIDE DEF T
<1>15. n \in T
  <2>1. \A k \in 0..n : k \in T
    BY <1>12, <1>13, <1>14, FiniteInduction
  <2> QED
    BY <2>1, <1>12
<1> QED
  BY <1>2, <1>8, <1>9, <1>15 DEF T

\* Replicas that have just come into scope are constructed once each.
LEMMA ListedNewList ==
  ASSUME NEW s, ~Queries(s), NEW R \in SUBSET Replica, NEW c \in ConnectionIn(s, R),
         NEW list \in Seq(R), IsInjective(list), Range(list) \cap Range(c.constructed) = {}
  PROVE  /\ FoldLeft(OnListedConstruct, c, list) \in ConnectionIn(s, R)
         /\ FoldLeft(OnListedConstruct, c, list).isValidated = c.isValidated
<1> DEFINE X == Steady(c, R)
           E == R
           op(x, e) == OnListedConstruct(x, e)
           step == [p \in X \X E |-> op(p[1], p[2])]
           Is(f) == f = [t \in SUBSET DOMAIN list |->
                           IF t = {} THEN c ELSE op(f[t \ {Max(t)}], list[Max(t)])]
           it == CHOOSE f : Is(f)
<1>1. \A x \in X, e \in E : op(x, e) \in X
  BY SteadyOperations
<1>2. FoldLeft(OnListedConstruct, c, list) = it[DOMAIN list]
  BY DEF FoldLeft, MapThenFoldSet
<1>3. c \in X /\ list \in Seq(E)
  BY DEF Steady, ConnectionIn
<1> HIDE DEF X, E, op
<1>4. step \in [X \X E -> X]
  BY <1>1
<1>5. PICK h, g : FoldsThrough(h, g, X, step, c, list)
  <2> HIDE DEF step
  <2> QED
    BY <1>3, <1>4, FoldThrough
<1>chain. /\ h \in [SUBSET DOMAIN list -> X] /\ g \in [0..Len(list) -> X]
      /\ IsFold(h, step, c, list) /\ IsChain(g, step, c, list)
      /\ g[Len(list)] = h[DOMAIN list]
  <2> HIDE DEF step
  <2> QED
    BY <1>5 DEF FoldsThrough
<1>6. Is(h)
  <2>1. \A t \in SUBSET DOMAIN list : t # {} =>
          step[<<h[t \ {Max(t)}], list[Max(t)]>>] = op(h[t \ {Max(t)}], list[Max(t)])
    <3>1. ASSUME NEW t \in SUBSET DOMAIN list, t # {}
          PROVE  h[t \ {Max(t)}] \in X /\ list[Max(t)] \in E
      <4> HIDE DEF step, Is, it
      <4> QED
        BY <1>3, <1>chain, <3>1, FoldArguments
    <3> QED
      BY <3>1
  <2> HIDE DEF step
  <2> QED
    BY <1>chain, <2>1 DEF IsFold
<1>7. Is(it)
  <2> HIDE DEF Is
  <2> QED
    BY <1>6
<1>8. it[DOMAIN list] = h[DOMAIN list]
  <2> HIDE DEF it
  <2>1. DOMAIN list = 1..Len(list) /\ Len(list) \in Nat
    BY <1>3
  <2>2. it[{}] = h[{}]
    BY <1>6, <1>7
  <2>3. \A t \in SUBSET DOMAIN list :
          t # {} /\ it[t \ {Max(t)}] = h[t \ {Max(t)}] => it[t] = h[t]
    BY <1>6, <1>7
  <2> HIDE DEF Is
  <2> QED
    BY <2>1, <2>2, <2>3, FoldUnique
<1> HIDE DEF it
<1>9. g[Len(list)] = h[DOMAIN list]
  BY <1>chain
<1>10. ASSUME NEW k \in 0..Len(list)-1
       PROVE  /\ g[k] \in X /\ list[k + 1] \in E
              /\ g[k + 1] = op(g[k], list[k + 1])
  <2>1. Len(list) \in Nat /\ DOMAIN list = 1..Len(list)
    BY <1>3
  <2>2. k \in 0..Len(list) /\ k + 1 \in 1..Len(list)
    BY <2>1
  <2>3. g[k] \in X /\ list[k + 1] \in E
    BY <1>3, <1>chain, <2>2
  <2>4. g[k + 1] = step[<<g[k], list[k + 1]>>]
    <3> HIDE DEF step
    <3> QED
      BY <1>chain DEF IsChain
  <2> QED
    BY <2>3, <2>4
<1>11. g[0] = c
  <2> HIDE DEF step
  <2> QED
    BY <1>chain DEF IsChain
<1> HIDE DEF step, Is
<1> DEFINE n == Len(list)
           Done(k) == {list[i] : i \in 1..k}
           T == {k \in 0..n : /\ g[k] \in ConnectionIn(s, R)
                              /\ g[k].isValidated = c.isValidated
                              /\ Range(g[k].constructed) \subseteq Range(c.constructed) \cup Done(k)}
<1>12. n \in Nat /\ DOMAIN list = 1..n
  BY <1>3
<1>13. 0 \in T
  <2>1. Done(0) = {}
    OBVIOUS
  <2> QED
    BY <1>11, <1>12, <2>1
<1>14. ASSUME NEW k \in 0..n-1, k \in T PROVE k + 1 \in T
  <2> DEFINE e == g[k]
             r == list[k + 1]
  <2>1. k + 1 \in 1..n /\ k + 1 \in 0..n /\ 1..k+1 = (1..k) \cup {k + 1}
    BY <1>12
  <2>2. e \in ConnectionIn(s, R) /\ e.isValidated = c.isValidated /\ r \in R
    BY <1>14, <1>10 DEF E
  <2>3. Done(k + 1) = Done(k) \cup {r}
    BY <2>1
  <2>4. g[k + 1] = op(e, r)
    BY <1>10
  <2>5. r \in Range(list) /\ r \notin Done(k)
    <3>1. r \in Range(list)
      BY <1>12, <2>1 DEF Range
    <3>2. \A i \in 1..k : i \in 1..n /\ i # k + 1
      BY <1>12
    <3>3. \A i \in 1..k : list[i] # r
      BY <1>12, <2>1, <3>2 DEF IsInjective
    <3> QED
      BY <3>1, <3>3
  <2> HIDE DEF e, r, Done
  <2>6. r \notin Range(e.constructed)
    BY <1>14, <2>5 DEF e
  <2>7. /\ OnListedConstruct(e, r) \in ConnectionIn(s, R)
        /\ Range(OnListedConstruct(e, r).constructed) = Range(e.constructed) \cup {r}
    <3>1. OnListedConstruct(e, r) \in ConnectionIn(s, R)
      BY <2>2, <2>6, ListedHere
    <3>2. Range(OnListedConstruct(e, r).constructed) = Range(e.constructed) \cup {r}
      <4>1. e.constructed \in Seq(R) /\ ~Contains(e.constructed, r)
        BY <2>2, <2>6, ConnectionLists, RangeOfList
      <4>2. OnListedConstruct(e, r).constructed = Append(e.constructed, r)
        BY <2>2, <4>1 DEF OnListedConstruct, Inserted, ConnectionIn, ConnectionOf
      <4> QED
        BY <2>2, <4>1, <4>2, AppendedList
    <3> QED
      BY <3>1, <3>2
  <2>8. OnListedConstruct(e, r).isValidated = e.isValidated
    BY <2>2 DEF OnListedConstruct, ConnectionIn, ConnectionOf
  <2>9. Range(e.constructed) \subseteq Range(c.constructed) \cup Done(k)
    BY <1>14 DEF e
  <2>10. g[k + 1] = OnListedConstruct(e, r)
    BY <2>4 DEF op
  <2> QED
    BY <2>1, <2>2, <2>3, <2>7, <2>8, <2>9, <2>10
<1> HIDE DEF T
<1>15. n \in T
  <2>1. \A k \in 0..n : k \in T
    BY <1>12, <1>13, <1>14, FiniteInduction
  <2> QED
    BY <2>1, <1>12
<1> QED
  BY <1>2, <1>8, <1>9, <1>15 DEF T

\* The lists that QueryReplicaList returns: what is new has not been
\* constructed, without repetitions.
LEMMA ListLoopLists ==
  ASSUME NEW s, NEW d, NEW m, NEW R \in SUBSET Replica, DOMAIN m.replica = R, IsFiniteSet(R),
         NEW c \in ConnectionIn(s, R)
  PROVE  /\ ListedNew(s, d, m, c) \in Seq(R) /\ IsInjective(ListedNew(s, d, m, c))
         /\ Range(ListedNew(s, d, m, c)) \cap Range(c.constructed) = {}
         /\ ListedGone(s, d, c) \in Seq(R)
<1> DEFINE S == {r \in R : Creates(s, d, m, r) /\ ~Contains(c.constructed, r)}
<1>1. c.constructed \in Seq(R)
  BY ConnectionLists
<1>2. ListedNew(s, d, m, c) = SetToSeq(S)
  BY DEF ListedNew
<1>3. IsFiniteSet(S) /\ S \subseteq R
  BY FS_Subset
<1>4. S \cap Range(c.constructed) = {}
  BY <1>1, RangeOfList
<1> HIDE DEF S
<1>5. SetToSeq(S) \in Seq(S) /\ Range(SetToSeq(S)) = S /\ IsInjective(SetToSeq(S))
  BY <1>3, ListOfSet
<1>6. SetToSeq(S) \in Seq(R)
  BY <1>3, <1>5, SeqMonotonic
<1>7. ListedGone(s, d, c) \in Seq(R)
  <2>1. ListedGone(s, d, c) \in Seq(R \cap {r \in Replica : <<s, d, r>> \in hidden})
    BY <1>1, ThoseList DEF ListedGone
  <2> QED
    BY <2>1, SeqMonotonic
<1> QED
  BY <1>2, <1>4, <1>5, <1>6, <1>7

\* The loop over them keeps the lists of the connection.
LEMMA ListLoopList ==
  ASSUME NEW s, ~Queries(s), NEW d, NEW m, NEW R \in SUBSET Replica, DOMAIN m.replica = R,
         IsFiniteSet(R), NEW c \in ConnectionIn(s, R)
  PROVE  /\ ListLoop(s, d, m, c) \in ConnectionIn(s, R)
         /\ ListLoop(s, d, m, c).isValidated = c.isValidated
<1> DEFINE list == ListedGone(s, d, c)
           made == FoldLeft(OnListedConstruct, c, ListedNew(s, d, m, c))
           X == {x \in ConnectionIn(s, R) : x.isValidated = c.isValidated}
           E == R
           op(x, e) == [x EXCEPT !.constructed = RemoveFirst(@, e), !.serialize = RemoveFirst(@, e)]
           step == [p \in X \X E |-> op(p[1], p[2])]
           Is(f) == f = [t \in SUBSET DOMAIN list |->
                           IF t = {} THEN made ELSE op(f[t \ {Max(t)}], list[Max(t)])]
           it == CHOOSE f : Is(f)
<1>1. \A x \in X, e \in E : op(x, e) \in X
  <2> SUFFICES ASSUME NEW x \in ConnectionIn(s, R), NEW e \in R PROVE
        op(x, e) \in ConnectionIn(s, R) /\ op(x, e).isValidated = x.isValidated
    OBVIOUS
  <2>1. op(x, e) \in ConnectionIn(s, R)
    BY ListedNoMore
  <2>2. op(x, e).isValidated = x.isValidated
    BY DEF ConnectionIn, ConnectionOf
  <2> QED
    BY <2>1, <2>2
<1>2. ListLoop(s, d, m, c) = it[DOMAIN list]
  BY DEF ListLoop, FoldLeft, MapThenFoldSet
<1>3. made \in X /\ list \in Seq(E)
  <2>1. /\ ListedNew(s, d, m, c) \in Seq(R) /\ IsInjective(ListedNew(s, d, m, c))
        /\ Range(ListedNew(s, d, m, c)) \cap Range(c.constructed) = {}
        /\ list \in Seq(R)
    BY ListLoopLists
  <2> HIDE DEF list
  <2> QED
    BY <2>1, ListedNewList
<1> HIDE DEF X, E, op, list, made
<1>4. step \in [X \X E -> X]
  BY <1>1
<1>5. PICK h \in [SUBSET DOMAIN list -> X] : IsFold(h, step, made, list)
  <2> HIDE DEF step
  <2> QED
    BY <1>3, <1>4, FoldExists
<1>6. Is(h)
  <2>1. \A t \in SUBSET DOMAIN list : t # {} =>
          step[<<h[t \ {Max(t)}], list[Max(t)]>>] = op(h[t \ {Max(t)}], list[Max(t)])
    <3>1. ASSUME NEW t \in SUBSET DOMAIN list, t # {}
          PROVE  h[t \ {Max(t)}] \in X /\ list[Max(t)] \in E
      <4> HIDE DEF step, Is, it
      <4> QED
        BY <1>3, <1>5, <3>1, FoldArguments
    <3> QED
      BY <3>1
  <2> HIDE DEF step
  <2> QED
    BY <1>5, <2>1 DEF IsFold
<1>7. Is(it)
  <2> HIDE DEF Is
  <2> QED
    BY <1>6
<1>8. it[DOMAIN list] = h[DOMAIN list]
  <2> HIDE DEF it
  <2>1. DOMAIN list = 1..Len(list) /\ Len(list) \in Nat
    BY <1>3
  <2>2. it[{}] = h[{}]
    BY <1>6, <1>7
  <2>3. \A t \in SUBSET DOMAIN list :
          t # {} /\ it[t \ {Max(t)}] = h[t \ {Max(t)}] => it[t] = h[t]
    BY <1>6, <1>7
  <2> HIDE DEF Is
  <2> QED
    BY <2>1, <2>2, <2>3, FoldUnique
<1> HIDE DEF it
<1>9. h[DOMAIN list] \in X
  OBVIOUS
<1> QED
  BY <1>2, <1>8, <1>9 DEF X

----------------------------------------------------------------------------
(* The manager while a handler works on it *)

\* Manager(s) with the replicas R and connections to the systems D.
ManagerIn(s, R, D) ==
  [replica : [R -> Objects], connection : [D -> ConnectionIn(s, R)],
   out : [System -> Seq(Message)]]

\* What ManagerIn says of the parts.
LEMMA ManagerParts ==
  ASSUME NEW s, NEW R, NEW D, NEW n \in ManagerIn(s, R, D)
  PROVE  /\ DOMAIN n.replica = R /\ DOMAIN n.connection = D
         /\ \A r \in R : n.replica[r] \in Objects
         /\ \A d \in D : n.connection[d] \in ConnectionIn(s, R)
         /\ \A d \in System : n.out[d] \in Seq(Message)
  BY DEF ManagerIn

\* What an update may do to a manager: it validates nothing.
Upkeep(s, R, D, m) ==
  {n \in ManagerIn(s, R, D) :
     \A d \in D : n.connection[d].isValidated = m.connection[d].isValidated}

\* Upkeep is reflexive and transitive: a handler may take several steps.
LEMMA UpkeepSteps ==
  ASSUME NEW s, NEW R, NEW D, NEW m \in ManagerIn(s, R, D)
  PROVE  /\ m \in Upkeep(s, R, D, m) /\ Upkeep(s, R, D, m) \subseteq ManagerIn(s, R, D)
         /\ \A n \in Upkeep(s, R, D, m) : Upkeep(s, R, D, n) \subseteq Upkeep(s, R, D, m)
  BY DEF Upkeep

\* One connection of a manager may be replaced by a correct one ...
LEMMA ConnectionChanged ==
  ASSUME NEW s, NEW R, NEW D, NEW n \in ManagerIn(s, R, D), NEW d \in D,
         NEW c \in ConnectionIn(s, R)
  PROVE  [n EXCEPT !.connection[d] = c] \in ManagerIn(s, R, D)
  BY DEF ManagerIn

\* ... which is upkeep when it is validated as before.
LEMMA ConnectionKept ==
  ASSUME NEW s, NEW R, NEW D, NEW n \in ManagerIn(s, R, D), NEW d \in D,
         NEW c \in ConnectionIn(s, R), c.isValidated = n.connection[d].isValidated
  PROVE  [n EXCEPT !.connection[d] = c] \in Upkeep(s, R, D, n)
  BY DEF ManagerIn, Upkeep

\* Sending a message is upkeep.
LEMMA MessageSent ==
  ASSUME NEW s, NEW R, NEW D, NEW n \in ManagerIn(s, R, D), NEW d \in System,
         NEW message \in Message
  PROVE  SendTo(n, d, message) \in Upkeep(s, R, D, n)
<1>1. Append(n.out[d], message) \in Seq(Message)
  BY DEF ManagerIn
<1> QED
  BY <1>1 DEF ManagerIn, SendTo, Upkeep

\* A function on 1..n is a list.
LEMMA MappedList ==
  ASSUME NEW n \in Nat, NEW S, NEW f \in [1..n -> S]
  PROVE  f \in Seq(S) /\ Len(f) = n
  OBVIOUS

\* SendConstruction sends messages and keeps the lists.
LEMMA SendConstructionManager ==
  ASSUME NEW s \in System, NEW R \in SUBSET Replica, NEW D \in SUBSET System, NEW d \in D,
         NEW m \in ManagerIn(s, R, D), NEW new \in Seq(R), NEW deleted \in Seq(R)
  PROVE  SendConstruction(s, d, m, new, deleted) \in Upkeep(s, R, D, m)
<1> DEFINE c == m.connection[d]
           item == [k \in DOMAIN new |-> [id |-> new[k], create |-> Creates(s, d, m, new[k]),
                                          creator |-> m.replica[new[k]].creator]]
           body == <<Construction(item, deleted)>> \o InitialData(m, new)
           all == IF c.isFirstConstruction
                  THEN <<Signal("DownloadStarted")>> \o body \o <<Signal("DownloadComplete")>>
                  ELSE body
           n == [m EXCEPT !.out[d] = @ \o all, !.connection[d].isFirstConstruction = FALSE]
<1>1. /\ \A r \in R : m.replica[r].creator \in System /\ m.replica[r].version \in Nat
      /\ c \in ConnectionIn(s, R) /\ d \in System
  BY DEF ManagerIn, Objects
<1>2. DOMAIN new = 1..Len(new) /\ Len(new) \in Nat /\ \A k \in DOMAIN new : new[k] \in R
  OBVIOUS
<1>3. item \in Seq(Item)
  <2>1. ASSUME NEW k \in DOMAIN new PROVE item[k] \in Item
    BY <1>1, <1>2 DEF Item, Creates
  <2>2. item \in [1..Len(new) -> Item]
    BY <2>1, <1>2
  <2> QED
    BY <2>2, <1>2, MappedList
<1>4. Construction(item, deleted) \in Message
  <2>1. deleted \in Seq(Replica)
    BY SeqMonotonic
  <2> HIDE DEF item
  <2> QED
    BY <2>1, <1>3 DEF Construction, Message
<1>5. InitialData(m, new) \in Seq(Message)
  <2> DEFINE S == {r \in Range(new) : r \notin Uniquely /\ m.replica[r].version > 0}
             sent == Those(new, S)
             data == [k \in DOMAIN sent |-> Serialize(m, sent[k])]
  <2>1. sent \in Seq(R)
    <3>1. sent \in Seq(R \cap S)
      BY ThoseList
    <3> HIDE DEF sent, S
    <3> QED
      BY <3>1, SeqMonotonic
  <2>2. InitialData(m, new) = data
    BY DEF InitialData
  <2> HIDE DEF sent
  <2>3. DOMAIN sent = 1..Len(sent) /\ Len(sent) \in Nat /\ \A k \in DOMAIN sent : sent[k] \in R
    BY <2>1
  <2>4. ASSUME NEW r \in R PROVE Serialize(m, r) \in Message
    BY <1>1 DEF Serialize, Message
  <2>5. data \in [1..Len(sent) -> Message]
    BY <2>3, <2>4
  <2> QED
    BY <2>2, <2>3, <2>5, MappedList
<1>6. all \in Seq(Message)
  <2>1. Signal("DownloadStarted") \in Message /\ Signal("DownloadComplete") \in Message
    BY DEF Signal, Message
  <2>2. body \in Seq(Message)
    <3> HIDE DEF item
    <3> QED
      BY <1>4, <1>5
  <2> HIDE DEF body, c
  <2> QED
    BY <2>1, <2>2
<1>7. SendConstruction(s, d, m, new, deleted) = IF new = <<>> /\ deleted = <<>> THEN m ELSE n
  BY DEF SendConstruction
<1> HIDE DEF all
<1>8. n \in ManagerIn(s, R, D)
  <2>1. [c EXCEPT !.isFirstConstruction = FALSE] \in ConnectionIn(s, R)
    <3>1. c \in ConnectionOf(R) /\ Consistent(c)
      BY <1>1 DEF ConnectionIn
    <3> HIDE DEF c
    <3>2. [c EXCEPT !.isFirstConstruction = FALSE] \in ConnectionOf(R)
      BY <3>1 DEF ConnectionOf
    <3>3. Consistent([c EXCEPT !.isFirstConstruction = FALSE])
      <4> DEFINE f == [c EXCEPT !.isFirstConstruction = FALSE]
      <4>1. /\ f.construct = c.construct /\ f.constructed = c.constructed
            /\ f.serialize = c.serialize /\ f.destruct = c.destruct
        BY <3>1 DEF ConnectionOf
      <4> HIDE DEF f
      <4> QED
        BY <3>1, <4>1 DEF Consistent, f
    <3> QED
      BY <1>1, <3>1, <3>2, <3>3 DEF ConnectionIn, ConnectionOf
  <2>2. m.out[d] \o all \in Seq(Message)
    BY <1>1, <1>6 DEF ManagerIn
  <2> QED
    BY <1>1, <2>1, <2>2 DEF ManagerIn
<1>9. \A e \in D : n.connection[e].isValidated = m.connection[e].isValidated
  BY DEF ManagerIn, ConnectionIn, ConnectionOf
<1> HIDE DEF n
<1> QED
  BY <1>7, <1>8, <1>9 DEF Upkeep

\* AutoConstructByQuery keeps the manager correct, in each of the modes.
LEMMA AutoConstructManager ==
  ASSUME NEW s \in System, NEW R \in SUBSET Replica, NEW D \in SUBSET System, NEW d \in D,
         NEW m \in ManagerIn(s, R, D)
  PROVE  AutoConstructByQuery(s, d, m) \in Upkeep(s, R, D, m)
<1> DEFINE c == m.connection[d]
           asked == ConstructLoop(s, d, m, c)
           done == IF Queries(s) THEN DestructLoop(s, d, asked) ELSE ListLoop(s, d, m, c)
           Made == {r \in Range(c.construct) :
                      ConstructionState(s, d, m, r) \in {"SendConstruction", "AlreadyExists"}}
           new == IF Queries(s) THEN Those(c.construct, Made) ELSE ListedNew(s, d, m, c)
           Gone == {r \in Replica : /\ Mode[policy][s] = "ReplicaConstructionAndDestruction"
                                    /\ DestructionState(s, d, r) = "SendDestruction"}
           deleted == IF ~Queries(s) THEN ListedGone(s, d, c) ELSE Those(asked.destruct, Gone)
           n == [m EXCEPT !.connection[d] = done]
<1>1. c \in ConnectionIn(s, R) /\ DOMAIN m.replica = R /\ IsFiniteSet(R)
  BY ManagerParts, ManagerAssumption, FS_Subset
<1>2. AutoConstructByQuery(s, d, m) =
        IF ~c.isValidated THEN m ELSE SendConstruction(s, d, n, new, deleted)
  BY DEF AutoConstructByQuery
<1> HIDE DEF c, Made, Gone
<1>3. CASE Queries(s)
  <2>1. asked \in ConnectionIn(s, R) /\ asked.isValidated = c.isValidated
    BY <1>1, <1>3, ConstructLoopList
  <2> HIDE DEF asked
  <2>2. done \in ConnectionIn(s, R) /\ done.isValidated = c.isValidated
    <3>1. CASE Mode[policy][s] = "ReplicaConstructionAndDestruction"
      <4>1. /\ DestructLoop(s, d, asked) \in ConnectionIn(s, R)
            /\ DestructLoop(s, d, asked).isValidated = asked.isValidated
        BY <1>3, <2>1, <3>1, DestructLoopList
      <4> QED
        BY <1>3, <2>1, <4>1
    <3>2. CASE Mode[policy][s] # "ReplicaConstructionAndDestruction"
      BY <1>3, <2>1, <3>2 DEF DestructLoop
    <3> QED
      BY <3>1, <3>2
  <2>3. c.construct \in Seq(R) /\ asked.destruct \in Seq(R)
    BY <1>1, <2>1, ConnectionLists
  <2>4. Those(c.construct, Made) \in Seq(R) /\ Those(asked.destruct, Gone) \in Seq(R)
    <3>1. /\ Those(c.construct, Made) \in Seq(R \cap Made)
          /\ Those(asked.destruct, Gone) \in Seq(R \cap Gone)
      BY <2>3, ThoseList
    <3> QED
      BY <3>1, SeqMonotonic
  <2>5. new \in Seq(R) /\ deleted \in Seq(R)
    BY <1>3, <2>4
  <2> HIDE DEF done, new, deleted
  <2>6. n \in Upkeep(s, R, D, m)
    BY <2>2, ConnectionKept DEF c
  <2> HIDE DEF n
  <2>7. n \in ManagerIn(s, R, D)
    BY <2>6, UpkeepSteps
  <2>8. SendConstruction(s, d, n, new, deleted) \in Upkeep(s, R, D, n)
    BY <2>5, <2>7, SendConstructionManager
  <2> QED
    BY <1>2, <2>6, <2>8, UpkeepSteps
<1>4. CASE ~Queries(s)
  <2>1. ListLoop(s, d, m, c) \in ConnectionIn(s, R)
    BY <1>1, <1>4, ListLoopList
  <2>2. ListLoop(s, d, m, c).isValidated = c.isValidated
    BY <1>1, <1>4, ListLoopList
  <2>3. ListedNew(s, d, m, c) \in Seq(R)
    BY <1>1, ListLoopLists
  <2>4. ListedGone(s, d, c) \in Seq(R)
    BY <1>1, ListLoopLists
  <2>5. new \in Seq(R) /\ deleted \in Seq(R) /\ done = ListLoop(s, d, m, c)
    BY <1>4, <2>3, <2>4
  <2> HIDE DEF done, new, deleted
  <2>6. n \in Upkeep(s, R, D, m)
    BY <2>1, <2>2, <2>5, ConnectionKept DEF c
  <2> HIDE DEF n
  <2>7. n \in ManagerIn(s, R, D)
    BY <2>6, UpkeepSteps
  <2>8. SendConstruction(s, d, n, new, deleted) \in Upkeep(s, R, D, n)
    BY <2>5, <2>7, SendConstructionManager
  <2> QED
    BY <1>2, <2>6, <2>8, UpkeepSteps
<1> QED
  BY <1>3, <1>4

\* SendSerializeIfChanged keeps it correct for one entry ...
LEMMA SerializeManager ==
  ASSUME NEW s \in System, NEW R \in SUBSET Replica, NEW D \in SUBSET System, NEW d \in D,
         NEW m \in ManagerIn(s, R, D), NEW r \in R, NEW lastSent
  PROVE  SendSerializeIfChanged(s, d, m, r, lastSent) \in Upkeep(s, R, D, m)
<1> DEFINE v == m.replica[r].version
           n == [m EXCEPT !.connection[d] = OnNeverSerialize(@, r)]
           sent == SendTo(m, d, Serialize(m, r))
           apart == [sent EXCEPT !.connection[d].lastResult[r] = v]
           shared == [sent EXCEPT !.replica[r].lastSent = v]
<1>1. /\ m.connection[d] \in ConnectionIn(s, R) /\ m.replica[r] \in Objects
      /\ v \in Nat /\ r \in Replica /\ d \in System
  BY DEF ManagerIn, Objects
<1>2. SendSerializeIfChanged(s, d, m, r, lastSent) \in {m, n, apart, shared}
  BY DEF SendSerializeIfChanged
<1>3. m \in Upkeep(s, R, D, m)
  BY UpkeepSteps
<1>4. n \in Upkeep(s, R, D, m)
  <2>1. OnNeverSerialize(m.connection[d], r) \in ConnectionIn(s, R)
    BY <1>1, NeverSerialized
  <2>2. OnNeverSerialize(m.connection[d], r).isValidated = m.connection[d].isValidated
    BY <1>1 DEF OnNeverSerialize, ConnectionIn, ConnectionOf
  <2>3. n = [m EXCEPT !.connection[d] = OnNeverSerialize(m.connection[d], r)]
    BY <1>1 DEF ManagerIn
  <2> HIDE DEF n
  <2> QED
    BY <1>1, <2>1, <2>2, <2>3, ConnectionKept
<1>5. Serialize(m, r) \in Message
  BY <1>1 DEF Serialize, Message
<1>6. sent \in Upkeep(s, R, D, m)
  BY <1>1, <1>5, MessageSent
<1>6a. sent \in ManagerIn(s, R, D) /\ sent.connection = m.connection
  <2>1. sent.connection = m.connection
    BY DEF SendTo, ManagerIn
  <2> HIDE DEF sent
  <2> QED
    BY <1>6, <2>1, UpkeepSteps
<1>7. apart \in Upkeep(s, R, D, m)
  <2> HIDE DEF sent, v
  <2> DEFINE c == m.connection[d]
             f == [c EXCEPT !.lastResult[r] = v]
  <2>1. f \in ConnectionOf(R)
    BY <1>1 DEF ConnectionIn, ConnectionOf
  <2>2. /\ f.construct = c.construct /\ f.constructed = c.constructed
        /\ f.serialize = c.serialize /\ f.destruct = c.destruct
        /\ f.isValidated = c.isValidated
    BY <1>1 DEF ConnectionIn, ConnectionOf
  <2>3. apart = [sent EXCEPT !.connection[d] = f]
    BY <1>6a DEF ManagerIn
  <2> HIDE DEF f
  <2>4. f \in ConnectionIn(s, R)
    BY <1>1, <2>1, <2>2 DEF ConnectionIn, Consistent
  <2>5. apart \in Upkeep(s, R, D, sent)
    BY <1>6a, <2>2, <2>3, <2>4, ConnectionKept
  <2> QED
    BY <1>6, <2>5, UpkeepSteps
<1>8. shared \in Upkeep(s, R, D, m)
  <2> HIDE DEF sent, v
  <2>1. [sent.replica[r] EXCEPT !.lastSent = v] \in Objects
    BY <1>1, <1>6a DEF ManagerIn, Objects
  <2>2. shared \in ManagerIn(s, R, D) /\ shared.connection = m.connection
    BY <1>6a, <2>1 DEF ManagerIn
  <2> QED
    BY <2>2 DEF Upkeep
<1> QED
  BY <1>2, <1>3, <1>4, <1>7, <1>8

\* ... and for all entries of a connection.
LEMMA SerializeToManager ==
  ASSUME NEW s \in System, NEW R \in SUBSET Replica, NEW D \in SUBSET System,
         NEW m \in ManagerIn(s, R, D), NEW d \in D, NEW lastSent
  PROVE  SerializeTo(s, d, m, lastSent) \in Upkeep(s, R, D, m)
<1> DEFINE list == m.connection[d].serialize
           X == Upkeep(s, R, D, m)
           E == R
           op(x, e) == SendSerializeIfChanged(s, d, x, e, lastSent)
           step == [p \in X \X E |-> op(p[1], p[2])]
           Is(f) == f = [t \in SUBSET DOMAIN list |->
                           IF t = {} THEN m ELSE op(f[t \ {Max(t)}], list[Max(t)])]
           it == CHOOSE f : Is(f)
<1>1. \A x \in X, e \in E : op(x, e) \in X
  <2> SUFFICES ASSUME NEW x \in X, NEW e \in E PROVE op(x, e) \in X
    OBVIOUS
  <2>1. op(x, e) \in Upkeep(s, R, D, x)
    BY SerializeManager DEF Upkeep
  <2> QED
    BY <2>1 DEF Upkeep
<1>2. SerializeTo(s, d, m, lastSent) = it[DOMAIN list]
  BY DEF SerializeTo, FoldLeft, MapThenFoldSet
<1>3. m \in X /\ list \in Seq(E)
  <2>1. m.connection[d] \in ConnectionIn(s, R)
    BY ManagerParts
  <2> QED
    BY <2>1, ConnectionLists DEF Upkeep
<1> HIDE DEF X, E, op, list
<1>4. step \in [X \X E -> X]
  BY <1>1
<1>5. PICK h \in [SUBSET DOMAIN list -> X] : IsFold(h, step, m, list)
  <2> HIDE DEF step
  <2> QED
    BY <1>3, <1>4, FoldExists
<1>6. Is(h)
  <2>1. \A t \in SUBSET DOMAIN list : t # {} =>
          step[<<h[t \ {Max(t)}], list[Max(t)]>>] = op(h[t \ {Max(t)}], list[Max(t)])
    <3>1. ASSUME NEW t \in SUBSET DOMAIN list, t # {}
          PROVE  h[t \ {Max(t)}] \in X /\ list[Max(t)] \in E
      <4> HIDE DEF step, Is, it
      <4> QED
        BY <1>3, <1>5, <3>1, FoldArguments
    <3> QED
      BY <3>1
  <2> HIDE DEF step
  <2> QED
    BY <1>5, <2>1 DEF IsFold
<1>7. Is(it)
  <2> HIDE DEF Is
  <2> QED
    BY <1>6
<1>8. it[DOMAIN list] = h[DOMAIN list]
  <2> HIDE DEF it
  <2>1. DOMAIN list = 1..Len(list) /\ Len(list) \in Nat
    BY <1>3
  <2>2. it[{}] = h[{}]
    BY <1>6, <1>7
  <2>3. \A t \in SUBSET DOMAIN list :
          t # {} /\ it[t \ {Max(t)}] = h[t \ {Max(t)}] => it[t] = h[t]
    BY <1>6, <1>7
  <2> HIDE DEF Is
  <2> QED
    BY <2>1, <2>2, <2>3, FoldUnique
<1> HIDE DEF it
<1>9. h[DOMAIN list] \in X
  OBVIOUS
<1> QED
  BY <1>2, <1>8, <1>9 DEF X

\* The two loops of Update.
Built(s, m, peers) == FoldLeft(LAMBDA n, d : AutoConstructByQuery(s, d, n), m, peers)
Ticked(s, m, peers, lastSent) ==
  FoldLeft(LAMBDA n, d : SerializeTo(s, d, n, lastSent), m, peers)

\* The construction of an Update keeps it correct for all connections ...
LEMMA BuiltManager ==
  ASSUME NEW s \in System, NEW R \in SUBSET Replica, NEW D \in SUBSET System,
         NEW m \in ManagerIn(s, R, D), NEW peers \in Seq(D)
  PROVE  Built(s, m, peers) \in Upkeep(s, R, D, m)
<1> DEFINE X == Upkeep(s, R, D, m)
           E == D
           op(x, e) == AutoConstructByQuery(s, e, x)
           step == [p \in X \X E |-> op(p[1], p[2])]
           Is(f) == f = [t \in SUBSET DOMAIN peers |->
                           IF t = {} THEN m ELSE op(f[t \ {Max(t)}], peers[Max(t)])]
           it == CHOOSE f : Is(f)
<1>1. \A x \in X, e \in E : op(x, e) \in X
  <2> SUFFICES ASSUME NEW x \in X, NEW e \in E PROVE op(x, e) \in X
    OBVIOUS
  <2>1. op(x, e) \in Upkeep(s, R, D, x)
    BY AutoConstructManager DEF Upkeep
  <2> QED
    BY <2>1 DEF Upkeep
<1>2. Built(s, m, peers) = it[DOMAIN peers]
  BY DEF Built, FoldLeft, MapThenFoldSet
<1>3. m \in X /\ peers \in Seq(E)
  BY DEF Upkeep
<1> HIDE DEF X, E, op
<1>4. step \in [X \X E -> X]
  BY <1>1
<1>5. PICK h \in [SUBSET DOMAIN peers -> X] : IsFold(h, step, m, peers)
  <2> HIDE DEF step
  <2> QED
    BY <1>3, <1>4, FoldExists
<1>6. Is(h)
  <2>1. \A t \in SUBSET DOMAIN peers : t # {} =>
          step[<<h[t \ {Max(t)}], peers[Max(t)]>>] = op(h[t \ {Max(t)}], peers[Max(t)])
    <3>1. ASSUME NEW t \in SUBSET DOMAIN peers, t # {}
          PROVE  h[t \ {Max(t)}] \in X /\ peers[Max(t)] \in E
      <4> HIDE DEF step, Is, it
      <4> QED
        BY <1>3, <1>5, <3>1, FoldArguments
    <3> QED
      BY <3>1
  <2> HIDE DEF step
  <2> QED
    BY <1>5, <2>1 DEF IsFold
<1>7. Is(it)
  <2> HIDE DEF Is
  <2> QED
    BY <1>6
<1>8. it[DOMAIN peers] = h[DOMAIN peers]
  <2> HIDE DEF it
  <2>1. DOMAIN peers = 1..Len(peers) /\ Len(peers) \in Nat
    BY <1>3
  <2>2. it[{}] = h[{}]
    BY <1>6, <1>7
  <2>3. \A t \in SUBSET DOMAIN peers :
          t # {} /\ it[t \ {Max(t)}] = h[t \ {Max(t)}] => it[t] = h[t]
    BY <1>6, <1>7
  <2> HIDE DEF Is
  <2> QED
    BY <2>1, <2>2, <2>3, FoldUnique
<1> HIDE DEF it
<1>9. h[DOMAIN peers] \in X
  OBVIOUS
<1> QED
  BY <1>2, <1>8, <1>9 DEF X

\* ... and so does its serialization.
LEMMA SerializedManager ==
  ASSUME NEW s \in System, NEW R \in SUBSET Replica, NEW D \in SUBSET System,
         NEW m \in ManagerIn(s, R, D), NEW peers \in Seq(D), NEW lastSent
  PROVE  Ticked(s, m, peers, lastSent) \in Upkeep(s, R, D, m)
<1> DEFINE X == Upkeep(s, R, D, m)
           E == D
           op(x, e) == SerializeTo(s, e, x, lastSent)
           step == [p \in X \X E |-> op(p[1], p[2])]
           Is(f) == f = [t \in SUBSET DOMAIN peers |->
                           IF t = {} THEN m ELSE op(f[t \ {Max(t)}], peers[Max(t)])]
           it == CHOOSE f : Is(f)
<1>1. \A x \in X, e \in E : op(x, e) \in X
  <2> SUFFICES ASSUME NEW x \in X, NEW e \in E PROVE op(x, e) \in X
    OBVIOUS
  <2>1. op(x, e) \in Upkeep(s, R, D, x)
    BY SerializeToManager DEF Upkeep
  <2> QED
    BY <2>1 DEF Upkeep
<1>2. Ticked(s, m, peers, lastSent) = it[DOMAIN peers]
  BY DEF Ticked, FoldLeft, MapThenFoldSet
<1>3. m \in X /\ peers \in Seq(E)
  BY DEF Upkeep
<1> HIDE DEF X, E, op
<1>4. step \in [X \X E -> X]
  BY <1>1
<1>5. PICK h \in [SUBSET DOMAIN peers -> X] : IsFold(h, step, m, peers)
  <2> HIDE DEF step
  <2> QED
    BY <1>3, <1>4, FoldExists
<1>6. Is(h)
  <2>1. \A t \in SUBSET DOMAIN peers : t # {} =>
          step[<<h[t \ {Max(t)}], peers[Max(t)]>>] = op(h[t \ {Max(t)}], peers[Max(t)])
    <3>1. ASSUME NEW t \in SUBSET DOMAIN peers, t # {}
          PROVE  h[t \ {Max(t)}] \in X /\ peers[Max(t)] \in E
      <4> HIDE DEF step, Is, it
      <4> QED
        BY <1>3, <1>5, <3>1, FoldArguments
    <3> QED
      BY <3>1
  <2> HIDE DEF step
  <2> QED
    BY <1>5, <2>1 DEF IsFold
<1>7. Is(it)
  <2> HIDE DEF Is
  <2> QED
    BY <1>6
<1>8. it[DOMAIN peers] = h[DOMAIN peers]
  <2> HIDE DEF it
  <2>1. DOMAIN peers = 1..Len(peers) /\ Len(peers) \in Nat
    BY <1>3
  <2>2. it[{}] = h[{}]
    BY <1>6, <1>7
  <2>3. \A t \in SUBSET DOMAIN peers :
          t # {} /\ it[t \ {Max(t)}] = h[t \ {Max(t)}] => it[t] = h[t]
    BY <1>6, <1>7
  <2> HIDE DEF Is
  <2> QED
    BY <2>1, <2>2, <2>3, FoldUnique
<1> HIDE DEF it
<1>9. h[DOMAIN peers] \in X
  OBVIOUS
<1> QED
  BY <1>2, <1>8, <1>9 DEF X

\* Update asks every connection and validates none.
LEMMA UpdateManager ==
  ASSUME NEW s \in System, NEW R \in SUBSET Replica, NEW D \in SUBSET System,
         NEW m \in ManagerIn(s, R, D), NEW tick
  PROVE  Update(s, m, tick) \in Upkeep(s, R, D, m)
<1> DEFINE peers == SetToSeq(D)
           built == Built(s, m, peers)
           lastSent == [r \in DOMAIN built.replica |-> built.replica[r].lastSent]
           ticked == Ticked(s, built, peers, lastSent)
<1>1. IsFiniteSet(D)
  BY ManagerAssumption, FS_Subset
<1>2. peers \in Seq(D)
  BY <1>1, ListOfSet
<1>3. DOMAIN m.connection = D
  BY ManagerParts
<1>4. Update(s, m, tick) = IF tick THEN ticked ELSE built
  BY <1>3 DEF Update, Built, Ticked
<1> HIDE DEF peers
<1>5. built \in Upkeep(s, R, D, m)
  BY <1>2, BuiltManager
<1> HIDE DEF built, lastSent
<1>6. built \in ManagerIn(s, R, D)
  BY <1>5, UpkeepSteps
<1>7. ticked \in Upkeep(s, R, D, built)
  BY <1>2, <1>6, SerializedManager
<1> HIDE DEF ticked
<1>8. ticked \in Upkeep(s, R, D, m)
  BY <1>5, <1>7, UpkeepSteps
<1> QED
  BY <1>4, <1>5, <1>8

----------------------------------------------------------------------------
(* Connections and replicas that come and go *)

\* A new connection lists nothing.
LEMMA EmptyLists == Range(<<>>) = {} /\ Connection.construct = <<>> /\ Connection.constructed = <<>>
  BY DEF Range, Connection

\* A new connection is to be asked about every replica once.
LEMMA AskedAboutAll ==
  ASSUME NEW s, Queries(s), NEW R \in SUBSET Replica, NEW list \in Seq(R), IsInjective(list)
  PROVE  /\ FoldLeft(OnLocalReference, Connection, list) \in ConnectionIn(s, R)
         /\ ~FoldLeft(OnLocalReference, Connection, list).isValidated
<1> DEFINE X == Steady(Connection, R)
           E == R
           op(x, e) == OnLocalReference(x, e)
           step == [p \in X \X E |-> op(p[1], p[2])]
           Is(f) == f = [t \in SUBSET DOMAIN list |->
                           IF t = {} THEN Connection ELSE op(f[t \ {Max(t)}], list[Max(t)])]
           it == CHOOSE f : Is(f)
<1>1. \A x \in X, e \in E : op(x, e) \in X
  BY SteadyOperations
<1>2. FoldLeft(OnLocalReference, Connection, list) = it[DOMAIN list]
  BY DEF FoldLeft, MapThenFoldSet
<1>3. Connection \in X /\ list \in Seq(E)
  BY EmptyConnection DEF Steady, ConnectionIn
<1> HIDE DEF X, E, op
<1>4. step \in [X \X E -> X]
  BY <1>1
<1>5. PICK h, g : FoldsThrough(h, g, X, step, Connection, list)
  <2> HIDE DEF step
  <2> QED
    BY <1>3, <1>4, FoldThrough
<1>chain. /\ h \in [SUBSET DOMAIN list -> X] /\ g \in [0..Len(list) -> X]
      /\ IsFold(h, step, Connection, list) /\ IsChain(g, step, Connection, list)
      /\ g[Len(list)] = h[DOMAIN list]
  <2> HIDE DEF step
  <2> QED
    BY <1>5 DEF FoldsThrough
<1>6. Is(h)
  <2>1. \A t \in SUBSET DOMAIN list : t # {} =>
          step[<<h[t \ {Max(t)}], list[Max(t)]>>] = op(h[t \ {Max(t)}], list[Max(t)])
    <3>1. ASSUME NEW t \in SUBSET DOMAIN list, t # {}
          PROVE  h[t \ {Max(t)}] \in X /\ list[Max(t)] \in E
      <4> HIDE DEF step, Is, it
      <4> QED
        BY <1>3, <1>chain, <3>1, FoldArguments
    <3> QED
      BY <3>1
  <2> HIDE DEF step
  <2> QED
    BY <1>chain, <2>1 DEF IsFold
<1>7. Is(it)
  <2> HIDE DEF Is
  <2> QED
    BY <1>6
<1>8. it[DOMAIN list] = h[DOMAIN list]
  <2> HIDE DEF it
  <2>1. DOMAIN list = 1..Len(list) /\ Len(list) \in Nat
    BY <1>3
  <2>2. it[{}] = h[{}]
    BY <1>6, <1>7
  <2>3. \A t \in SUBSET DOMAIN list :
          t # {} /\ it[t \ {Max(t)}] = h[t \ {Max(t)}] => it[t] = h[t]
    BY <1>6, <1>7
  <2> HIDE DEF Is
  <2> QED
    BY <2>1, <2>2, <2>3, FoldUnique
<1> HIDE DEF it
<1>9. g[Len(list)] = h[DOMAIN list]
  BY <1>chain
<1>10. ASSUME NEW k \in 0..Len(list)-1
       PROVE  /\ g[k] \in X /\ list[k + 1] \in E
              /\ g[k + 1] = op(g[k], list[k + 1])
  <2>1. Len(list) \in Nat /\ DOMAIN list = 1..Len(list)
    BY <1>3
  <2>2. k \in 0..Len(list) /\ k + 1 \in 1..Len(list)
    BY <2>1
  <2>3. g[k] \in X /\ list[k + 1] \in E
    BY <1>3, <1>chain, <2>2
  <2>4. g[k + 1] = step[<<g[k], list[k + 1]>>]
    <3> HIDE DEF step
    <3> QED
      BY <1>chain DEF IsChain
  <2> QED
    BY <2>3, <2>4
<1>11. g[0] = Connection
  <2> HIDE DEF step
  <2> QED
    BY <1>chain DEF IsChain
<1> HIDE DEF step, Is
<1> DEFINE n == Len(list)
           Done(k) == {list[i] : i \in 1..k}
           T == {k \in 0..n : /\ g[k] \in ConnectionIn(s, R)
                              /\ g[k].isValidated = Connection.isValidated
                              /\ g[k].constructed = <<>> /\ Range(g[k].construct) \subseteq Done(k)}
<1>12. n \in Nat /\ DOMAIN list = 1..n
  BY <1>3
<1>13. 0 \in T
  <2>1. Done(0) = {}
    OBVIOUS
  <2> QED
    BY <1>11, <1>12, <2>1, EmptyConnection, EmptyLists
<1>14. ASSUME NEW k \in 0..n-1, k \in T PROVE k + 1 \in T
  <2> DEFINE e == g[k]
             r == list[k + 1]
  <2>1. k + 1 \in 1..n /\ k + 1 \in 0..n /\ 1..k+1 = (1..k) \cup {k + 1}
    BY <1>12
  <2>2. e \in ConnectionIn(s, R) /\ e.isValidated = Connection.isValidated /\ r \in R
    BY <1>14, <1>10 DEF E
  <2>3. Done(k + 1) = Done(k) \cup {r}
    BY <2>1
  <2>4. g[k + 1] = op(e, r)
    BY <1>10
  <2>5. r \in Range(list) /\ r \notin Done(k)
    <3>1. r \in Range(list)
      BY <1>12, <2>1 DEF Range
    <3>2. \A i \in 1..k : i \in 1..n /\ i # k + 1
      BY <1>12
    <3>3. \A i \in 1..k : list[i] # r
      BY <1>12, <2>1, <3>2 DEF IsInjective
    <3> QED
      BY <3>1, <3>3
  <2> HIDE DEF e, r, Done
  <2>6. r \notin Range(e.construct) /\ r \notin Range(e.constructed) /\ e.construct \in Seq(R)
    BY <1>14, <2>2, <2>5, EmptyLists, ConnectionLists DEF e
  <2>7. OnLocalReference(e, r) \in ConnectionIn(s, R)
    BY <2>2, <2>6, Referenced
  <2>8. /\ OnLocalReference(e, r).isValidated = e.isValidated
        /\ OnLocalReference(e, r).constructed = e.constructed
        /\ OnLocalReference(e, r).construct = Append(e.construct, r)
    BY <2>2 DEF OnLocalReference, ConnectionIn, ConnectionOf
  <2>9. Range(Append(e.construct, r)) = Range(e.construct) \cup {r}
    BY <2>2, <2>6, AppendedList
  <2>10. e.constructed = <<>> /\ Range(e.construct) \subseteq Done(k)
    BY <1>14 DEF e
  <2>11. g[k + 1] = OnLocalReference(e, r)
    BY <2>4 DEF op
  <2> QED
    BY <2>1, <2>2, <2>3, <2>7, <2>8, <2>9, <2>10, <2>11
<1> HIDE DEF T
<1>15. n \in T
  <2>1. \A k \in 0..n : k \in T
    BY <1>12, <1>13, <1>14, FiniteInduction
  <2> QED
    BY <2>1, <1>12
<1>16. ~Connection.isValidated
  BY DEF Connection
<1> QED
  BY <1>2, <1>8, <1>9, <1>15, <1>16 DEF T

\* What becomes of the connections D, and of their validation, when a packet
\* of a type comes from d.
SameValidation(D, m, n) ==
  /\ DOMAIN n.connection = D
  /\ \A e \in D : n.connection[e].isValidated = m.connection[e].isValidated

Asks(d, m, n) == n.out = [m.out EXCEPT ![d] = Append(@, Signal("ScopeChange"))]

\* A connection is pushed, and the other side is asked to validate it.
Pushed(d, D, m, n) ==
  /\ DOMAIN n.connection = D \cup {d} /\ Asks(d, m, n)
  /\ \A e \in D : n.connection[e].isValidated = m.connection[e].isValidated
  /\ ~n.connection[d].isValidated

Popped(d, D, m, n) ==
  /\ DOMAIN n.connection = D \ {d}
  /\ \A e \in D \ {d} : n.connection[e].isValidated = m.connection[e].isValidated

Validated(d, D, m, n) ==
  /\ DOMAIN n.connection = D /\ n.connection[d].isValidated
  /\ \A e \in D : e # d => n.connection[e].isValidated = m.connection[e].isValidated

\* PushConnection adds a correct connection that is not validated and asks the
\* other side to validate.
LEMMA PushManager ==
  ASSUME NEW s \in System, NEW R \in SUBSET Replica, NEW D \in SUBSET System,
         NEW d \in System \ D, NEW m \in ManagerIn(s, R, D)
  PROVE  /\ PushConnection(s, d, m) \in ManagerIn(s, R, D \cup {d})
         /\ Pushed(d, D, m, PushConnection(s, d, m))
<1> DEFINE c == IF Queries(s)
                THEN FoldLeft(OnLocalReference, Connection, SetToSeq(DOMAIN m.replica))
                ELSE Connection
           p == [m EXCEPT !.connection = With(@, d, c)]
           n == SendTo(p, d, Signal("ScopeChange"))
<1>1. DOMAIN m.replica = R /\ DOMAIN m.connection = D
  BY ManagerParts
<1>2. c \in ConnectionIn(s, R) /\ ~c.isValidated
  <2>1. IsFiniteSet(R)
    BY ManagerAssumption, FS_Subset
  <2>2. SetToSeq(R) \in Seq(R) /\ IsInjective(SetToSeq(R))
    BY <2>1, ListOfSet
  <2>3. CASE Queries(s)
    BY <1>1, <2>2, <2>3, AskedAboutAll
  <2>4. CASE ~Queries(s)
    <3>1. ~Connection.isValidated
      BY DEF Connection
    <3> QED
      BY <2>4, <3>1, EmptyConnection
  <2> QED
    BY <2>3, <2>4
<1>3. PushConnection(s, d, m) = n
  BY <1>1 DEF PushConnection, SendValidation
<1> HIDE DEF c
<1>4. /\ p \in ManagerIn(s, R, D \cup {d}) /\ p.out = m.out
      /\ \A e \in D : p.connection[e] = m.connection[e]
      /\ p.connection[d] = c
  BY <1>1, <1>2 DEF ManagerIn, With
<1> HIDE DEF p
<1>5. Signal("ScopeChange") \in Message
  BY DEF Signal, Message
<1>6. n \in ManagerIn(s, R, D \cup {d})
  BY <1>4, <1>5, MessageSent, UpkeepSteps
<1>7. n.connection = p.connection /\ n.out = [m.out EXCEPT ![d] = Append(@, Signal("ScopeChange"))]
  BY <1>4 DEF SendTo, ManagerIn
<1>8. DOMAIN n.connection = D \cup {d}
  BY <1>6, ManagerParts
<1> HIDE DEF n
<1>9. Pushed(d, D, m, n)
  BY <1>2, <1>4, <1>7, <1>8 DEF Pushed, Asks
<1> QED
  BY <1>3, <1>6, <1>9

\* What a handler may do to a manager that keeps the connections of D: it
\* makes and deletes replicas and validates nothing.
Work(s, D, m) ==
  {n \in UNION {ManagerIn(s, R, D) : R \in SUBSET Replica} :
     \A d \in D : n.connection[d].isValidated = m.connection[d].isValidated}

\* Upkeep is work that deletes no replica.
LEMMA WorkSteps ==
  ASSUME NEW s, NEW R \in SUBSET Replica, NEW D, NEW m \in ManagerIn(s, R, D)
  PROVE  Upkeep(s, R, D, m) \subseteq Work(s, D, m)
  BY DEF Upkeep, Work

\* What work leads to is a correct manager, and work may be continued.
LEMMA WorkDone ==
  ASSUME NEW s, NEW D, NEW m, NEW n \in Work(s, D, m)
  PROVE  /\ \E R \in SUBSET Replica : n \in ManagerIn(s, R, D)
         /\ Work(s, D, n) \subseteq Work(s, D, m)
  BY DEF Work

\* A replica is deleted with all its entries.
LEMMA DereferenceManager ==
  ASSUME NEW s, NEW R \in SUBSET Replica, NEW D, NEW m \in ManagerIn(s, R, D), NEW r
  PROVE  Dereference(m, r) \in Work(s, D, m)
<1> DEFINE n == Dereference(m, r)
           Q == R \ {r}
<1>1. \A d \in D : OnDereference(m.connection[d], r) \in ConnectionIn(s, Q)
  BY ManagerParts, Dereferenced
<1>2. \A d \in D : OnDereference(m.connection[d], r).isValidated = m.connection[d].isValidated
  BY DEF ManagerIn, ConnectionIn, ConnectionOf, OnDereference
<1>3. n \in ManagerIn(s, Q, D)
  BY <1>1 DEF ManagerIn, Dereference, Without, Restrict
<1>4. \A d \in D : n.connection[d] = OnDereference(m.connection[d], r)
  BY DEF ManagerIn, Dereference
<1> HIDE DEF n
<1>5. Q \in SUBSET Replica
  OBVIOUS
<1>6. n \in Work(s, D, m)
  BY <1>2, <1>3, <1>4, <1>5 DEF Work
<1> QED
  BY <1>6 DEF n

\* BroadcastDestructionList only sends messages.
LEMMA BroadcastManager ==
  ASSUME NEW s \in System, NEW R \in SUBSET Replica, NEW D \in SUBSET System,
         NEW m \in ManagerIn(s, R, D), NEW list \in Seq(Replica), NEW d
  PROVE  BroadcastDestructionList(m, list, d) \in Upkeep(s, R, D, m)
<1> DEFINE Known(e) == Those(list, {r \in Range(list) : HasReplicaConstructed(m, e, r)})
           told == {e \in Others(m, d) : Known(e) # <<>>}
           sent == [e \in System |-> IF e \in told
                                     THEN Append(m.out[e], Construction(<<>>, Known(e)))
                                     ELSE m.out[e]]
<1>1. ASSUME NEW e PROVE Construction(<<>>, Known(e)) \in Message
  <2> DEFINE S == {r \in Range(list) : HasReplicaConstructed(m, e, r)}
  <2>1. Those(list, S) \in Seq(Replica \cap S)
    BY ThoseList
  <2>2. Those(list, S) \in Seq(Replica)
    <3> HIDE DEF S
    <3> QED
      BY <2>1, SeqMonotonic
  <2>3. Known(e) \in Seq(Replica)
    BY <2>2
  <2> HIDE DEF Known
  <2> QED
    BY <2>3 DEF Construction, Message
<1>2. BroadcastDestructionList(m, list, d) = [m EXCEPT !.out = sent]
  BY DEF BroadcastDestructionList, SendAll, ManagerIn
<1> HIDE DEF Known, told
<1>3. sent \in [System -> Seq(Message)]
  <2> SUFFICES ASSUME NEW e \in System PROVE sent[e] \in Seq(Message)
    OBVIOUS
  <2>1. m.out[e] \in Seq(Message) /\ Construction(<<>>, Known(e)) \in Message
    BY <1>1, ManagerParts
  <2> QED
    BY <2>1
<1> HIDE DEF sent
<1>4. [m EXCEPT !.out = sent] \in ManagerIn(s, R, D)
  BY <1>3 DEF ManagerIn
<1>5. [m EXCEPT !.out = sent].connection = m.connection
  BY DEF ManagerIn
<1> QED
  BY <1>2, <1>4, <1>5 DEF Upkeep

\* The replicas of a system that has gone are dereferenced one after another.
Freed(m, list) == FoldLeft(Dereference, m, list)

\* Many replicas are deleted one by one.
LEMMA FreedManager ==
  ASSUME NEW s \in System, NEW R \in SUBSET Replica, NEW D \in SUBSET System,
         NEW m \in ManagerIn(s, R, D), NEW list \in Seq(Replica)
  PROVE  Freed(m, list) \in Work(s, D, m)
<1> DEFINE X == Work(s, D, m)
           E == Replica
           op(x, e) == Dereference(x, e)
           step == [p \in X \X E |-> op(p[1], p[2])]
           Is(f) == f = [t \in SUBSET DOMAIN list |->
                           IF t = {} THEN m ELSE op(f[t \ {Max(t)}], list[Max(t)])]
           it == CHOOSE f : Is(f)
<1>1. \A x \in X, e \in E : op(x, e) \in X
  <2> SUFFICES ASSUME NEW x \in X, NEW e \in E PROVE op(x, e) \in X
    OBVIOUS
  <2>1. PICK Q \in SUBSET Replica : x \in ManagerIn(s, Q, D)
    BY WorkDone
  <2>2. op(x, e) \in Work(s, D, x)
    BY <2>1, DereferenceManager
  <2> QED
    BY <2>2, WorkDone
<1>2. Freed(m, list) = it[DOMAIN list]
  BY DEF Freed, FoldLeft, MapThenFoldSet
<1>3. m \in X /\ list \in Seq(E)
  <2>1. m \in Work(s, D, m)
    BY WorkSteps, UpkeepSteps
  <2> QED
    BY <2>1
<1> HIDE DEF X, E, op
<1>4. step \in [X \X E -> X]
  BY <1>1
<1>5. PICK h \in [SUBSET DOMAIN list -> X] : IsFold(h, step, m, list)
  <2> HIDE DEF step
  <2> QED
    BY <1>3, <1>4, FoldExists
<1>6. Is(h)
  <2>1. \A t \in SUBSET DOMAIN list : t # {} =>
          step[<<h[t \ {Max(t)}], list[Max(t)]>>] = op(h[t \ {Max(t)}], list[Max(t)])
    <3>1. ASSUME NEW t \in SUBSET DOMAIN list, t # {}
          PROVE  h[t \ {Max(t)}] \in X /\ list[Max(t)] \in E
      <4> HIDE DEF step, Is, it
      <4> QED
        BY <1>3, <1>5, <3>1, FoldArguments
    <3> QED
      BY <3>1
  <2> HIDE DEF step
  <2> QED
    BY <1>5, <2>1 DEF IsFold
<1>7. Is(it)
  <2> HIDE DEF Is
  <2> QED
    BY <1>6
<1>8. it[DOMAIN list] = h[DOMAIN list]
  <2> HIDE DEF it
  <2>1. DOMAIN list = 1..Len(list) /\ Len(list) \in Nat
    BY <1>3
  <2>2. it[{}] = h[{}]
    BY <1>6, <1>7
  <2>3. \A t \in SUBSET DOMAIN list :
          t # {} /\ it[t \ {Max(t)}] = h[t \ {Max(t)}] => it[t] = h[t]
    BY <1>6, <1>7
  <2> HIDE DEF Is
  <2> QED
    BY <2>1, <2>2, <2>3, FoldUnique
<1> HIDE DEF it
<1>9. h[DOMAIN list] \in X
  OBVIOUS
<1> QED
  BY <1>2, <1>8, <1>9 DEF X

\* PopConnection leaves a correct manager without the connection.
LEMMA PopManager ==
  ASSUME NEW s \in System, NEW R \in SUBSET Replica, NEW D \in SUBSET System,
         NEW d \in D, NEW m \in ManagerIn(s, R, D)
  PROVE  PopConnection(s, d, m) \in Work(s, D \ {d}, m)
<1> DEFINE list == CreatedBy(m, d)
           told == IF BroadcastsOnPop(policy, s) THEN BroadcastDestructionList(m, list, d) ELSE m
           freed == Freed(told, list)
           n == [freed EXCEPT !.connection = Without(@, d)]
<1>1. PopConnection(s, d, m) = n
  BY ManagerParts DEF PopConnection, Freed
<1>2. list \in Seq(Replica)
  <2> DEFINE S == {r \in R : m.replica[r].creator = d}
  <2>1. list = SetToSeq(S)
    <3>1. DOMAIN m.replica = R
      BY ManagerParts
    <3> QED
      BY <3>1 DEF CreatedBy
  <2>2. IsFiniteSet(S) /\ S \subseteq Replica
    BY ManagerAssumption, FS_Subset
  <2> HIDE DEF S, list
  <2>3. SetToSeq(S) \in Seq(S)
    BY <2>2, ListOfSet
  <2> QED
    BY <2>1, <2>2, <2>3, SeqMonotonic
<1> HIDE DEF list
<1>3. told \in Upkeep(s, R, D, m)
  BY <1>2, BroadcastManager, UpkeepSteps
<1> HIDE DEF told
<1>4. freed \in Work(s, D, told)
  BY <1>2, <1>3, FreedManager, UpkeepSteps
<1> HIDE DEF freed
<1>5. told \in Work(s, D, m)
  BY <1>3, WorkSteps
<1>6. freed \in Work(s, D, m)
  BY <1>4, <1>5, WorkDone
<1>7. PICK Q \in SUBSET Replica : freed \in ManagerIn(s, Q, D)
  BY <1>4, WorkDone
<1>8. n \in ManagerIn(s, Q, D \ {d})
  BY <1>7 DEF ManagerIn, Without, Restrict
<1>9. \A e \in D \ {d} : n.connection[e] = freed.connection[e]
  BY <1>7 DEF ManagerIn, Without, Restrict
<1> HIDE DEF n
<1> QED
  BY <1>1, <1>6, <1>8, <1>9 DEF Work

\* A destruction that a system is told of is passed on.
LEMMA DestructManager ==
  ASSUME NEW s \in System, NEW R \in SUBSET Replica, NEW D \in SUBSET System,
         NEW d, NEW m \in ManagerIn(s, R, D), NEW r \in Replica
  PROVE  /\ Destruct(d, m, r) \in Work(s, D, m)
         /\ Dereference(BroadcastDestructionList(m, <<r>>, d), r) \in Work(s, D, m)
<1> DEFINE told == BroadcastDestructionList(m, <<r>>, d)
<1>1. told \in Upkeep(s, R, D, m)
  <2>1. <<r>> \in Seq(Replica)
    OBVIOUS
  <2> QED
    BY <2>1, BroadcastManager
<1>2. told \in ManagerIn(s, R, D) /\ told \in Work(s, D, m)
  <2> HIDE DEF told
  <2> QED
    BY <1>1, UpkeepSteps, WorkSteps
<1>3. m \in Work(s, D, m)
  BY UpkeepSteps, WorkSteps
<1>4. Destruct(d, m, r) \in {m, Dereference(told, r)}
  BY DEF Destruct
<1> HIDE DEF told
<1>5. Dereference(told, r) \in Work(s, D, told)
  BY <1>2, DereferenceManager
<1>6. Dereference(told, r) \in Work(s, D, m)
  BY <1>2, <1>5, WorkDone
<1> QED
  BY <1>3, <1>4, <1>6 DEF told

----------------------------------------------------------------------------
(* What a construction message does *)

\* A connection that has heard of a replica.
Received(n, c, R, r) ==
  /\ n \in ConnectionOf(R) /\ n.isValidated = c.isValidated
  /\ Range(n.constructed) \subseteq Range(c.constructed) \cup {r}

\* What constructions do to a connection of any shape: they add at most the
\* replica and validate nothing.
LEMMA ReceivedOperations ==
  ASSUME NEW s, NEW R, NEW c \in ConnectionOf(R), NEW r \in R
  PROVE  /\ Received(OnDownloadFromThisSystem(s, c, r), c, R, r)
         /\ Received(OnDownloadFromOtherSystem(s, c, r), c, R, r)
         /\ Received(OnDownloadExisting(s, c, r), c, R, r)
<1>1. /\ c.construct \in Seq(R) /\ c.constructed \in Seq(R)
      /\ c.serialize \in Seq(R) /\ c.destruct \in Seq(R)
  BY DEF ConnectionOf
<1>2. ASSUME NEW list \in Seq(R)
      PROVE  /\ Append(list, r) \in Seq(R) /\ RemoveFirst(list, r) \in Seq(R)
             /\ Inserted(list, r) \in Seq(R)
             /\ Range(Inserted(list, r)) \subseteq Range(list) \cup {r}
  BY AppendedList, RemovedList DEF Inserted
<1>3. ASSUME NEW n, n = OnDownloadFromThisSystem(s, c, r)
      PROVE  Received(n, c, R, r)
  <2>1. n \in ConnectionOf(R)
    BY <1>1, <1>2, <1>3 DEF ConnectionOf, OnDownloadFromThisSystem
  <2>2. n.isValidated = c.isValidated /\ n.constructed = Inserted(c.constructed, r)
    BY <1>3 DEF ConnectionOf, OnDownloadFromThisSystem
  <2> QED
    BY <1>1, <1>2, <2>1, <2>2 DEF Received
<1>4. ASSUME NEW n, n = OnDownloadFromOtherSystem(s, c, r)
      PROVE  Received(n, c, R, r)
  <2>1. n \in ConnectionOf(R)
    BY <1>1, <1>2, <1>4 DEF ConnectionOf, OnDownloadFromOtherSystem, OnLocalReference
  <2>2. n.isValidated = c.isValidated /\ n.constructed = c.constructed
    BY <1>4 DEF ConnectionOf, OnDownloadFromOtherSystem, OnLocalReference
  <2> QED
    BY <2>1, <2>2 DEF Received
<1>5. ASSUME NEW n, n = OnDownloadExisting(s, c, r)
      PROVE  Received(n, c, R, r)
  <2>1. n \in {c, OnListedConstruct(c, r), OnConstructToThisConnection(c, r)}
    BY <1>5 DEF OnDownloadExisting
  <2>2. ASSUME NEW l, l \in {OnListedConstruct(c, r), OnConstructToThisConnection(c, r)}
        PROVE  /\ l \in ConnectionOf(R) /\ l.isValidated = c.isValidated
               /\ l.constructed = Inserted(c.constructed, r)
    <3>1. CASE l = OnListedConstruct(c, r)
      BY <1>1, <1>2, <3>1 DEF ConnectionOf, OnListedConstruct
    <3>2. CASE l = OnConstructToThisConnection(c, r)
      BY <1>1, <1>2, <3>2 DEF ConnectionOf, OnConstructToThisConnection
    <3> QED
      BY <2>2, <3>1, <3>2
  <2> QED
    BY <1>1, <1>2, <2>1, <2>2 DEF Received
<1> QED
  BY <1>3, <1>4, <1>5

\* A manager whose lists name replicas that may be gone.
ManagerAtAll(D) ==
  [replica : UNION {[R -> Objects] : R \in SUBSET Replica},
   connection : [D -> ConnectionOf(Replica)], out : [System -> Seq(Message)]]

\* A correct manager has the shape that a fold over any items keeps.
LEMMA ManagerAtAllSteps ==
  ASSUME NEW s, NEW R \in SUBSET Replica, NEW D
  PROVE  ManagerIn(s, R, D) \subseteq ManagerAtAll(D)
<1>1. ConnectionIn(s, R) \subseteq ConnectionOf(Replica)
  BY MoreReplicas DEF ConnectionIn
<1> QED
  BY <1>1 DEF ManagerIn, ManagerAtAll

\* Constructing one item.
Made(s, d, m, item) ==
  [m EXCEPT !.replica = With(@, item.id, Object(item.creator, 0)),
            !.connection = [e \in DOMAIN @ |->
               IF e = d THEN OnDownloadFromThisSystem(s, @[e], item.id)
               ELSE OnDownloadFromOtherSystem(s, @[e], item.id)]]

\* Construct by its conditions alone, as the provers want it.
LEMMA ConstructCases ==
  ASSUME NEW s, NEW d, NEW m, NEW item
  PROVE  Construct(s, d, m, item) =
           IF ~item.create THEN m
           ELSE IF item.id \in DOMAIN m.replica
                THEN [m EXCEPT !.connection[d] = OnDownloadExisting(s, @, item.id)]
           ELSE IF QueryRemoteConstruction(policy, s) THEN Made(s, d, m, item) ELSE m
  BY DEF Construct, Made

\* Construct keeps the shape whatever the item ...
LEMMA ConstructAtAll ==
  ASSUME NEW s, NEW D \in SUBSET System, NEW d \in D, NEW m \in ManagerAtAll(D),
         NEW item \in Item
  PROVE  Construct(s, d, m, item) \in ManagerAtAll(D)
<1> DEFINE r == item.id
           n == [m EXCEPT !.connection[d] = OnDownloadExisting(s, @, r)]
<1>1. r \in Replica /\ Object(item.creator, 0) \in Objects
  BY DEF Item, Objects, Object
<1>2. ASSUME NEW c \in ConnectionOf(Replica)
      PROVE  /\ OnDownloadFromThisSystem(s, c, r) \in ConnectionOf(Replica)
             /\ OnDownloadFromOtherSystem(s, c, r) \in ConnectionOf(Replica)
             /\ OnDownloadExisting(s, c, r) \in ConnectionOf(Replica)
  BY <1>1, ReceivedOperations DEF Received
<1>3. n \in ManagerAtAll(D)
  BY <1>2 DEF ManagerAtAll
<1>4. Made(s, d, m, item) \in ManagerAtAll(D)
  <2>1. PICK R \in SUBSET Replica : m.replica \in [R -> Objects]
    BY DEF ManagerAtAll
  <2>2. With(m.replica, r, Object(item.creator, 0)) \in [R \cup {r} -> Objects]
    BY <1>1, <2>1 DEF With
  <2>3. R \cup {r} \in SUBSET Replica
    BY <1>1
  <2>4. With(m.replica, r, Object(item.creator, 0)) \in UNION {[Q -> Objects] : Q \in SUBSET Replica}
    BY <2>2, <2>3
  <2> HIDE DEF r
  <2> QED
    BY <1>2, <2>4 DEF ManagerAtAll, Made, r
<1>5. Construct(s, d, m, item) \in {m, n, Made(s, d, m, item)}
  BY ConstructCases
<1> HIDE DEF n
<1> QED
  BY <1>3, <1>4, <1>5

\* ... and a correct manager correct if the item does not cross ...
LEMMA ConstructManager ==
  ASSUME NEW s \in System, NEW R \in SUBSET Replica, NEW D \in SUBSET System, NEW d \in D,
         NEW m \in ManagerIn(s, R, D), NEW item \in Item,
         ~Queries(s) /\ item.create => item.id \notin Range(m.connection[d].constructed)
  PROVE  Construct(s, d, m, item) \in Work(s, D, m)
<1> DEFINE r == item.id
           c == OnDownloadExisting(s, m.connection[d], r)
           n == [m EXCEPT !.connection[d] = OnDownloadExisting(s, @, r)]
<1>1. /\ r \in Replica /\ Object(item.creator, 0) \in Objects
      /\ \A e \in D : m.connection[e] \in ConnectionIn(s, R)
      /\ \A e \in D : m.connection[e] \in ConnectionOf(R)
      /\ DOMAIN m.replica = R /\ DOMAIN m.connection = D
  BY ManagerParts DEF Item, Objects, Object, ConnectionIn
<1>2. m \in Work(s, D, m)
  BY UpkeepSteps, WorkSteps
<1>3. ASSUME r \in R, item.create PROVE n \in Work(s, D, m)
  <2>1. c \in ConnectionIn(s, R)
    BY <1>1, <1>3, DownloadedExisting
  <2>2. c.isValidated = m.connection[d].isValidated
    <3> DEFINE old == m.connection[d]
    <3>1. old \in ConnectionOf(R) /\ r \in R
      BY <1>1, <1>3
    <3> HIDE DEF old, r
    <3>2. Received(OnDownloadExisting(s, old, r), old, R, r)
      BY <3>1, ReceivedOperations
    <3> QED
      BY <3>2 DEF Received, old, r
  <2>3. n = [m EXCEPT !.connection[d] = c]
    BY <1>1 DEF ManagerIn
  <2> HIDE DEF c, n
  <2>4. n \in Upkeep(s, R, D, m)
    BY <2>1, <2>2, <2>3, ConnectionKept
  <2> QED
    BY <2>4, WorkSteps
<1>4. ASSUME r \notin R PROVE Made(s, d, m, item) \in Work(s, D, m)
  <2> DEFINE Q == R \cup {r}
             new == Made(s, d, m, item)
  <2>1. Q \in SUBSET Replica
    BY <1>1
  <2>2. ASSUME NEW e \in D
        PROVE  /\ OnDownloadFromThisSystem(s, m.connection[e], r) \in ConnectionIn(s, Q)
               /\ OnDownloadFromOtherSystem(s, m.connection[e], r) \in ConnectionIn(s, Q)
    <3> DEFINE b == m.connection[e]
    <3>1. r \in Replica \ R /\ b \in ConnectionIn(s, R)
      BY <1>1, <1>4
    <3> HIDE DEF r, b
    <3>2. OnDownloadFromThisSystem(s, b, r) \in ConnectionIn(s, Q)
      BY <3>1, DownloadedHere
    <3>3. OnDownloadFromOtherSystem(s, b, r) \in ConnectionIn(s, Q)
      BY <3>1, DownloadedElsewhere
    <3> QED
      BY <3>2, <3>3 DEF b
  <2>3. ASSUME NEW e \in D
        PROVE  /\ OnDownloadFromThisSystem(s, m.connection[e], r).isValidated
                    = m.connection[e].isValidated
               /\ OnDownloadFromOtherSystem(s, m.connection[e], r).isValidated
                    = m.connection[e].isValidated
    <3>1. m.connection[e] \in ConnectionOf(Q) /\ r \in Q
      <4>1. m.connection[e] \in ConnectionIn(s, Q)
        BY <1>1, MoreReplicas
      <4> QED
        BY <4>1 DEF ConnectionIn
    <3> DEFINE old == m.connection[e]
    <3> HIDE DEF old, r, Q
    <3>2. /\ Received(OnDownloadFromThisSystem(s, old, r), old, Q, r)
          /\ Received(OnDownloadFromOtherSystem(s, old, r), old, Q, r)
      BY <3>1, ReceivedOperations DEF old
    <3> QED
      BY <3>2 DEF Received, old
  <2>4. With(m.replica, r, Object(item.creator, 0)) \in [Q -> Objects]
    BY <1>1, ManagerParts DEF With
  <2>5. \A e \in D : new.connection[e] = IF e = d
                                         THEN OnDownloadFromThisSystem(s, m.connection[e], r)
                                         ELSE OnDownloadFromOtherSystem(s, m.connection[e], r)
    BY <1>1 DEF Made, ManagerIn
  <2>6. new \in ManagerIn(s, Q, D)
    <3> HIDE DEF r, Q
    <3> QED
      BY <1>1, <2>2, <2>4 DEF Made, ManagerIn, r
  <2>7. \A e \in D : new.connection[e].isValidated = m.connection[e].isValidated
    BY <2>3, <2>5
  <2>8. new \in Work(s, D, m)
    <3> HIDE DEF new, Q
    <3> QED
      BY <2>1, <2>6, <2>7 DEF Work
  <2> QED
    BY <2>8
<1>5. \/ Construct(s, d, m, item) = m
      \/ r \in R /\ item.create /\ Construct(s, d, m, item) = n
      \/ r \notin R /\ Construct(s, d, m, item) = Made(s, d, m, item)
  BY <1>1, ConstructCases DEF Item
<1> HIDE DEF n, r
<1> QED
  BY <1>2, <1>3, <1>4, <1>5

\* ... and marks no other replica than its own as constructed.
LEMMA ConstructRange ==
  ASSUME NEW s \in System, NEW R \in SUBSET Replica, NEW D \in SUBSET System, NEW d \in D,
         NEW m \in ManagerIn(s, R, D), NEW item \in Item
  PROVE  Range(Construct(s, d, m, item).connection[d].constructed)
           \subseteq Range(m.connection[d].constructed) \cup (IF item.create THEN {item.id} ELSE {})
<1> DEFINE r == item.id
           n == [m EXCEPT !.connection[d] = OnDownloadExisting(s, @, r)]
           old == m.connection[d]
<1>1. old \in ConnectionOf(Replica) /\ r \in Replica /\ item.create \in BOOLEAN
  <2>1. old \in ConnectionIn(s, Replica)
    BY ManagerParts, MoreReplicas
  <2> QED
    BY <2>1 DEF ConnectionIn, Item
<1>2. /\ n.connection[d] = OnDownloadExisting(s, old, r)
      /\ Made(s, d, m, item).connection[d] = OnDownloadFromThisSystem(s, old, r)
  BY DEF ManagerIn, Made
<1>3. /\ Range(OnDownloadExisting(s, old, r).constructed) \subseteq Range(old.constructed) \cup {r}
      /\ Range(OnDownloadFromThisSystem(s, old, r).constructed)
           \subseteq Range(old.constructed) \cup {r}
  <2> HIDE DEF old, r
  <2> QED
    BY <1>1, ReceivedOperations DEF Received
<1>4. \/ Construct(s, d, m, item) = m
      \/ item.create /\ Construct(s, d, m, item) \in {n, Made(s, d, m, item)}
  BY <1>1, ConstructCases
<1> HIDE DEF n
<1> QED
  BY <1>2, <1>3, <1>4

\* The two loops of a construction message.
MadeAll(s, d, m, new) == FoldLeft(LAMBDA n, item : Construct(s, d, n, item), m, new)
GoneAll(d, m, deleted) == FoldLeft(LAMBDA n, r : Destruct(d, n, r), m, deleted)

\* All items of a message that does not cross are constructed: an item
\* constructs its own replica only, so that the later ones still do not cross.
LEMMA MadeAllManager ==
  ASSUME NEW s \in System, NEW R \in SUBSET Replica, NEW D \in SUBSET System, NEW d \in D,
         NEW m \in ManagerIn(s, R, D), NEW new \in Seq(Item),
         ~Queries(s) => Uncrossed(m.connection[d], new)
  PROVE  MadeAll(s, d, m, new) \in Work(s, D, m)
<1> DEFINE X == ManagerAtAll(D)
           E == Item
           op(x, e) == Construct(s, d, x, e)
           step == [p \in X \X E |-> op(p[1], p[2])]
           Is(f) == f = [t \in SUBSET DOMAIN new |->
                           IF t = {} THEN m ELSE op(f[t \ {Max(t)}], new[Max(t)])]
           it == CHOOSE f : Is(f)
<1>1. \A x \in X, e \in E : op(x, e) \in X
  BY ConstructAtAll
<1>2. MadeAll(s, d, m, new) = it[DOMAIN new]
  BY DEF MadeAll, FoldLeft, MapThenFoldSet
<1>3. m \in X /\ new \in Seq(E)
  BY ManagerAtAllSteps
<1> HIDE DEF X, E, op
<1>4. step \in [X \X E -> X]
  BY <1>1
<1>5. PICK h, g : FoldsThrough(h, g, X, step, m, new)
  <2> HIDE DEF step
  <2> QED
    BY <1>3, <1>4, FoldThrough
<1>chain. /\ h \in [SUBSET DOMAIN new -> X] /\ g \in [0..Len(new) -> X]
      /\ IsFold(h, step, m, new) /\ IsChain(g, step, m, new)
      /\ g[Len(new)] = h[DOMAIN new]
  <2> HIDE DEF step
  <2> QED
    BY <1>5 DEF FoldsThrough
<1>6. Is(h)
  <2>1. \A t \in SUBSET DOMAIN new : t # {} =>
          step[<<h[t \ {Max(t)}], new[Max(t)]>>] = op(h[t \ {Max(t)}], new[Max(t)])
    <3>1. ASSUME NEW t \in SUBSET DOMAIN new, t # {}
          PROVE  h[t \ {Max(t)}] \in X /\ new[Max(t)] \in E
      <4> HIDE DEF step, Is, it
      <4> QED
        BY <1>3, <1>chain, <3>1, FoldArguments
    <3> QED
      BY <3>1
  <2> HIDE DEF step
  <2> QED
    BY <1>chain, <2>1 DEF IsFold
<1>7. Is(it)
  <2> HIDE DEF Is
  <2> QED
    BY <1>6
<1>8. it[DOMAIN new] = h[DOMAIN new]
  <2> HIDE DEF it
  <2>1. DOMAIN new = 1..Len(new) /\ Len(new) \in Nat
    BY <1>3
  <2>2. it[{}] = h[{}]
    BY <1>6, <1>7
  <2>3. \A t \in SUBSET DOMAIN new :
          t # {} /\ it[t \ {Max(t)}] = h[t \ {Max(t)}] => it[t] = h[t]
    BY <1>6, <1>7
  <2> HIDE DEF Is
  <2> QED
    BY <2>1, <2>2, <2>3, FoldUnique
<1> HIDE DEF it
<1>9. g[Len(new)] = h[DOMAIN new]
  BY <1>chain
<1>10. ASSUME NEW k \in 0..Len(new)-1
       PROVE  /\ g[k] \in X /\ new[k + 1] \in E
              /\ g[k + 1] = op(g[k], new[k + 1])
  <2>1. Len(new) \in Nat /\ DOMAIN new = 1..Len(new)
    BY <1>3
  <2>2. k \in 0..Len(new) /\ k + 1 \in 1..Len(new)
    BY <2>1
  <2>3. g[k] \in X /\ new[k + 1] \in E
    BY <1>3, <1>chain, <2>2
  <2>4. g[k + 1] = step[<<g[k], new[k + 1]>>]
    <3> HIDE DEF step
    <3> QED
      BY <1>chain DEF IsChain
  <2> QED
    BY <2>3, <2>4
<1>11. g[0] = m
  <2> HIDE DEF step
  <2> QED
    BY <1>chain DEF IsChain
<1> HIDE DEF step, Is
<1> DEFINE n == Len(new)
           Ids(k) == {new[i].id : i \in {j \in 1..k : new[j].create}}
           Listed(x, k) == Range(x.connection[d].constructed)
                             \subseteq Range(m.connection[d].constructed) \cup Ids(k)
           T == {k \in 0..n : g[k] \in Work(s, D, m) /\ (~Queries(s) => Listed(g[k], k))}
<1>12. n \in Nat /\ DOMAIN new = 1..n
  BY <1>3
<1>13. 0 \in T
  <2>1. m \in Work(s, D, m)
    BY UpkeepSteps, WorkSteps
  <2> QED
    BY <1>11, <1>12, <2>1
<1>14. ASSUME NEW k \in 0..n-1, k \in T PROVE k + 1 \in T
  <2> DEFINE x == g[k]
             item == new[k + 1]
             next == Construct(s, d, x, item)
  <2>1. k + 1 \in 1..n /\ k + 1 \in 0..n /\ 1..k+1 = (1..k) \cup {k + 1} /\ k \in Nat
    BY <1>12
  <2>2. x \in Work(s, D, m) /\ item \in Item /\ g[k + 1] = next
    BY <1>14, <1>10 DEF E, op
  <2>3. PICK Q \in SUBSET Replica : x \in ManagerIn(s, Q, D)
    BY <2>2, WorkDone
  <2>4. ASSUME ~Queries(s), item.create
        PROVE  item.id \notin Range(x.connection[d].constructed)
    <3>1. Listed(x, k)
      BY <1>14, <2>4
    <3>2. item.id \notin Range(m.connection[d].constructed)
      BY <1>12, <2>1, <2>4 DEF Uncrossed
    <3>3. ASSUME NEW j \in 1..k, new[j].create, new[j].id = item.id PROVE FALSE
      <4>1. j \in 1..n /\ j # k + 1
        BY <1>12
      <4> QED
        BY <1>12, <2>1, <2>4, <3>3, <4>1 DEF Uncrossed
    <3> QED
      BY <3>1, <3>2, <3>3
  <2> HIDE DEF x, item
  <2>5. next \in Work(s, D, x)
    BY <2>2, <2>3, <2>4, ConstructManager
  <2>6. next \in Work(s, D, m)
    BY <2>2, <2>5, WorkDone
  <2>7. Range(next.connection[d].constructed)
          \subseteq Range(x.connection[d].constructed) \cup (IF item.create THEN {item.id} ELSE {})
    BY <2>2, <2>3, ConstructRange
  <2>8. Ids(k) \subseteq Ids(k + 1) /\ (item.create => item.id \in Ids(k + 1))
    BY <2>1 DEF item
  <2>9. ~Queries(s) => Listed(x, k)
    BY <1>14 DEF x
  <2> HIDE DEF next, Ids
  <2>10. ~Queries(s) => Listed(next, k + 1)
    BY <2>7, <2>8, <2>9
  <2> HIDE DEF Listed
  <2> QED
    BY <2>1, <2>2, <2>6, <2>10
<1> HIDE DEF T
<1>15. n \in T
  <2>1. \A k \in 0..n : k \in T
    BY <1>12, <1>13, <1>14, FiniteInduction
  <2> QED
    BY <2>1, <1>12
<1> QED
  BY <1>2, <1>8, <1>9, <1>15 DEF T

\* All destructions of a message are carried out.
LEMMA GoneAllManager ==
  ASSUME NEW s \in System, NEW R \in SUBSET Replica, NEW D \in SUBSET System,
         NEW d, NEW m \in ManagerIn(s, R, D), NEW deleted \in Seq(Replica)
  PROVE  GoneAll(d, m, deleted) \in Work(s, D, m)
<1> DEFINE X == Work(s, D, m)
           E == Replica
           op(x, e) == Destruct(d, x, e)
           step == [p \in X \X E |-> op(p[1], p[2])]
           Is(f) == f = [t \in SUBSET DOMAIN deleted |->
                           IF t = {} THEN m ELSE op(f[t \ {Max(t)}], deleted[Max(t)])]
           it == CHOOSE f : Is(f)
<1>1. \A x \in X, e \in E : op(x, e) \in X
  <2> SUFFICES ASSUME NEW x \in X, NEW e \in E PROVE op(x, e) \in X
    OBVIOUS
  <2>1. PICK Q \in SUBSET Replica : x \in ManagerIn(s, Q, D)
    BY WorkDone
  <2>2. op(x, e) \in Work(s, D, x)
    BY <2>1, DestructManager
  <2> QED
    BY <2>2, WorkDone
<1>2. GoneAll(d, m, deleted) = it[DOMAIN deleted]
  BY DEF GoneAll, FoldLeft, MapThenFoldSet
<1>3. m \in X /\ deleted \in Seq(E)
  <2>1. m \in Work(s, D, m)
    BY WorkSteps, UpkeepSteps
  <2> QED
    BY <2>1
<1> HIDE DEF X, E, op
<1>4. step \in [X \X E -> X]
  BY <1>1
<1>5. PICK h \in [SUBSET DOMAIN deleted -> X] : IsFold(h, step, m, deleted)
  <2> HIDE DEF step
  <2> QED
    BY <1>3, <1>4, FoldExists
<1>6. Is(h)
  <2>1. \A t \in SUBSET DOMAIN deleted : t # {} =>
          step[<<h[t \ {Max(t)}], deleted[Max(t)]>>] = op(h[t \ {Max(t)}], deleted[Max(t)])
    <3>1. ASSUME NEW t \in SUBSET DOMAIN deleted, t # {}
          PROVE  h[t \ {Max(t)}] \in X /\ deleted[Max(t)] \in E
      <4> HIDE DEF step, Is, it
      <4> QED
        BY <1>3, <1>5, <3>1, FoldArguments
    <3> QED
      BY <3>1
  <2> HIDE DEF step
  <2> QED
    BY <1>5, <2>1 DEF IsFold
<1>7. Is(it)
  <2> HIDE DEF Is
  <2> QED
    BY <1>6
<1>8. it[DOMAIN deleted] = h[DOMAIN deleted]
  <2> HIDE DEF it
  <2>1. DOMAIN deleted = 1..Len(deleted) /\ Len(deleted) \in Nat
    BY <1>3
  <2>2. it[{}] = h[{}]
    BY <1>6, <1>7
  <2>3. \A t \in SUBSET DOMAIN deleted :
          t # {} /\ it[t \ {Max(t)}] = h[t \ {Max(t)}] => it[t] = h[t]
    BY <1>6, <1>7
  <2> HIDE DEF Is
  <2> QED
    BY <2>1, <2>2, <2>3, FoldUnique
<1> HIDE DEF it
<1>9. h[DOMAIN deleted] \in X
  OBVIOUS
<1> QED
  BY <1>2, <1>8, <1>9 DEF X

\* OnConstruction keeps the manager correct.
LEMMA ConstructionManager ==
  ASSUME NEW s \in System, NEW R \in SUBSET Replica, NEW D \in SUBSET System, NEW d \in D,
         NEW m \in ManagerIn(s, R, D), NEW message, message.new \in Seq(Item),
         message.deleted \in Seq(Replica),
         ~Queries(s) => Uncrossed(m.connection[d], message.new)
  PROVE  OnConstruction(s, d, m, message) \in Work(s, D, m)
<1> DEFINE made == MadeAll(s, d, m, message.new)
           gone == GoneAll(d, made, message.deleted)
<1>1. OnConstruction(s, d, m, message) = gone
  BY DEF OnConstruction, MadeAll, GoneAll
<1>2. made \in Work(s, D, m)
  BY MadeAllManager
<1> HIDE DEF made
<1>3. PICK Q \in SUBSET Replica : made \in ManagerIn(s, Q, D)
  BY <1>2, WorkDone
<1>4. gone \in Work(s, D, made)
  BY <1>3, GoneAllManager
<1> HIDE DEF gone
<1> QED
  BY <1>1, <1>2, <1>4, WorkDone

----------------------------------------------------------------------------
(* The handlers of the plugin's messages *)

\* A connection is as correct as its lists.
LEMMA SameLists ==
  ASSUME NEW s, NEW R, NEW c \in ConnectionIn(s, R), NEW f \in ConnectionOf(R),
         f.construct = c.construct, f.constructed = c.constructed,
         f.serialize = c.serialize, f.destruct = c.destruct
  PROVE  f \in ConnectionIn(s, R)
  BY DEF ConnectionIn, Consistent

\* What a handler returns that keeps the connections of D.
Results(s, R, D, m) ==
  [m : Upkeep(s, R, D, m), back : Seq(Message), stop : BOOLEAN]

\* A handler may process a packet ...
LEMMA ProcessedResult ==
  ASSUME NEW s, NEW R, NEW D, NEW m, NEW n \in Upkeep(s, R, D, m)
  PROVE  Processed(n) \in Results(s, R, D, m)
  BY DEF Processed, Results

\* ... and set the flags of the download group.
LEMMA FlagKept ==
  ASSUME NEW s, NEW R, NEW D, NEW m \in ManagerIn(s, R, D), NEW d \in D, NEW b \in BOOLEAN,
         NEW g \in Seq(Message)
  PROVE  /\ [m EXCEPT !.connection[d].groupConstructionAndSerialize = b] \in Upkeep(s, R, D, m)
         /\ [m EXCEPT !.connection[d].gotDownloadComplete = b] \in Upkeep(s, R, D, m)
         /\ [m EXCEPT !.connection[d].downloadGroup = g] \in Upkeep(s, R, D, m)
<1> DEFINE c == m.connection[d]
<1>1. c \in ConnectionIn(s, R)
  BY ManagerParts
<1>2. ASSUME NEW f \in {[c EXCEPT !.groupConstructionAndSerialize = b],
                        [c EXCEPT !.gotDownloadComplete = b], [c EXCEPT !.downloadGroup = g]}
      PROVE  [m EXCEPT !.connection[d] = f] \in Upkeep(s, R, D, m)
  <2> HIDE DEF c
  <2>1. f \in ConnectionIn(s, R)
    <3>1. f \in ConnectionOf(R)
      BY <1>1 DEF ConnectionIn, ConnectionOf
    <3>2. /\ f.construct = c.construct /\ f.constructed = c.constructed
          /\ f.serialize = c.serialize /\ f.destruct = c.destruct
      BY <1>1 DEF ConnectionIn, ConnectionOf
    <3> QED
      BY <1>1, <3>1, <3>2, SameLists
  <2>2. f.isValidated = c.isValidated
    BY <1>1 DEF ConnectionIn, ConnectionOf
  <2> QED
    BY <2>1, <2>2, ConnectionKept DEF c
<1>3. /\ [m EXCEPT !.connection[d].groupConstructionAndSerialize = b]
           = [m EXCEPT !.connection[d] = [c EXCEPT !.groupConstructionAndSerialize = b]]
      /\ [m EXCEPT !.connection[d].gotDownloadComplete = b]
           = [m EXCEPT !.connection[d] = [c EXCEPT !.gotDownloadComplete = b]]
      /\ [m EXCEPT !.connection[d].downloadGroup = g]
           = [m EXCEPT !.connection[d] = [c EXCEPT !.downloadGroup = g]]
  BY DEF ManagerIn
<1> QED
  BY <1>2, <1>3

\* A handler may hold a message back ...
LEMMA HeldResult ==
  ASSUME NEW s, NEW R, NEW D, NEW m \in ManagerIn(s, R, D), NEW d \in D, NEW message \in Message
  PROVE  Held(m, d, message) \in Results(s, R, D, m)
<1> DEFINE g == Append(m.connection[d].downloadGroup, message)
           n == [m EXCEPT !.connection[d].downloadGroup = g]
<1>1. g \in Seq(Message)
  BY DEF ManagerIn, ConnectionIn, ConnectionOf
<1>2. n = [m EXCEPT !.connection[d].downloadGroup = Append(@, message)]
  BY DEF ManagerIn
<1> HIDE DEF g
<1>3. n \in Upkeep(s, R, D, m)
  BY <1>1, FlagKept
<1> HIDE DEF n
<1> QED
  BY <1>2, <1>3 DEF Held, Results

\* ... as it does from the start of a download ...
LEMMA DownloadStartedResult ==
  ASSUME NEW s, NEW R, NEW D, NEW m \in ManagerIn(s, R, D), NEW d \in D, NEW message \in Message
  PROVE  OnDownloadStarted(s, d, m, message) \in Results(s, R, D, m)
<1> DEFINE n == [m EXCEPT !.connection[d].groupConstructionAndSerialize = TRUE]
           k == [m EXCEPT !.connection[d].groupConstructionAndSerialize = FALSE]
<1>1. TRUE \in BOOLEAN /\ FALSE \in BOOLEAN /\ <<>> \in Seq(Message)
  OBVIOUS
<1>2. n \in Upkeep(s, R, D, m) /\ k \in Upkeep(s, R, D, m)
  BY <1>1, FlagKept
<1>3. OnDownloadStarted(s, d, m, message) \in {Held(n, d, message), Processed(k)}
  BY DEF OnDownloadStarted
<1> HIDE DEF n, k
<1>4. n \in ManagerIn(s, R, D)
  BY <1>2, UpkeepSteps
<1>5. Held(n, d, message) \in Results(s, R, D, n)
  BY <1>4, HeldResult
<1>6. Upkeep(s, R, D, n) \subseteq Upkeep(s, R, D, m)
  BY <1>2, UpkeepSteps
<1>7. Held(n, d, message) \in Results(s, R, D, m)
  BY <1>5, <1>6 DEF Results
<1> QED
  BY <1>2, <1>3, <1>7, ProcessedResult

\* ... to its end, where it pushes back messages only.
LEMMA DownloadCompleteResult ==
  ASSUME NEW s, NEW R, NEW D, NEW m \in ManagerIn(s, R, D), NEW d \in D, NEW message \in Message
  PROVE  OnDownloadComplete(d, m, message) \in Results(s, R, D, m)
<1> DEFINE c == m.connection[d]
           n == [m EXCEPT !.connection[d].downloadGroup = <<>>]
           k == [m EXCEPT !.connection[d].gotDownloadComplete = TRUE]
           all == Append(c.downloadGroup, message)
           back == [i \in 1..Len(c.downloadGroup) + 1 |-> [all[i] EXCEPT !.arrived = TRUE]]
<1>1. TRUE \in BOOLEAN /\ <<>> \in Seq(Message)
  OBVIOUS
<1>2. n \in Upkeep(s, R, D, m) /\ k \in Upkeep(s, R, D, m)
  BY <1>1, FlagKept
<1>3. c.downloadGroup \in Seq(Message)
  BY DEF ManagerIn, ConnectionIn, ConnectionOf
<1>4. back \in Seq(Message)
  <2>1. Len(c.downloadGroup) + 1 \in Nat
    BY <1>3
  <2>2. ASSUME NEW i \in 1..Len(c.downloadGroup) + 1 PROVE all[i] \in Message
    <3>1. all \in Seq(Message) /\ Len(all) = Len(c.downloadGroup) + 1
      BY <1>3, AppendProperties
    <3> HIDE DEF all
    <3> QED
      BY <3>1
  <2> HIDE DEF all
  <2>3. \A x \in Message : [x EXCEPT !.arrived = TRUE] \in Message
    BY DEF Message
  <2>4. back \in [1..Len(c.downloadGroup) + 1 -> Message]
    BY <2>2, <2>3
  <2> QED
    BY <2>1, <2>4, MappedList
<1>5. OnDownloadComplete(d, m, message)
        \in {[m |-> n, back |-> back, stop |-> TRUE], Processed(k)}
  BY DEF OnDownloadComplete
<1> HIDE DEF n, k, back
<1>6. [m |-> n, back |-> back, stop |-> TRUE] \in Results(s, R, D, m)
  BY <1>2, <1>4 DEF Results
<1> QED
  BY <1>2, <1>5, <1>6, ProcessedResult

\* The data of a serialization changes the object only.
LEMMA SerializeReceived ==
  ASSUME NEW s, NEW R, NEW D, NEW m \in ManagerIn(s, R, D), NEW message,
         message.version \in Nat
  PROVE  OnSerialize(m, message) \in Upkeep(s, R, D, m)
<1>1. CASE message.id \in R
  <2> DEFINE n == [m EXCEPT !.replica[message.id].version = message.version]
  <2>1. OnSerialize(m, message) = n
    BY <1>1, ManagerParts DEF OnSerialize
  <2>2. [m.replica[message.id] EXCEPT !.version = message.version] \in Objects
    BY <1>1 DEF ManagerIn, Objects
  <2>3. n \in ManagerIn(s, R, D) /\ n.connection = m.connection
    BY <1>1, <2>2 DEF ManagerIn
  <2> HIDE DEF n
  <2> QED
    BY <2>1, <2>3 DEF Upkeep
<1>2. CASE message.id \notin R
  BY <1>2, ManagerParts, UpkeepSteps DEF OnSerialize
<1> QED
  BY <1>1, <1>2

\* The first validation of a connection is answered.
LEMMA ScopeManager ==
  ASSUME NEW s, NEW R, NEW D \in SUBSET System, NEW m \in ManagerIn(s, R, D), NEW d \in D
  PROVE  /\ OnScopeChange(d, m) \in ManagerIn(s, R, D)
         /\ Validated(d, D, m, OnScopeChange(d, m))
<1> DEFINE c == m.connection[d]
           f == [c EXCEPT !.isValidated = TRUE]
           p == [m EXCEPT !.connection[d] = f]
           n == SendTo(p, d, Signal("ScopeChange"))
<1>1. c \in ConnectionIn(s, R) /\ d \in System /\ c.isValidated \in BOOLEAN
      /\ \A e \in D : m.connection[e].isValidated \in BOOLEAN
  BY ManagerParts DEF ConnectionIn, ConnectionOf
<1>2. f \in ConnectionIn(s, R) /\ f.isValidated = TRUE
  <2> HIDE DEF c
  <2>1. c \in ConnectionOf(R)
    BY <1>1 DEF ConnectionIn
  <2>2. f \in ConnectionIn(s, R)
    <3>1. f \in ConnectionOf(R)
      BY <2>1 DEF ConnectionOf
    <3>2. /\ f.construct = c.construct /\ f.constructed = c.constructed
          /\ f.serialize = c.serialize /\ f.destruct = c.destruct
      BY <2>1 DEF ConnectionOf
    <3> QED
      BY <1>1, <3>1, <3>2, SameLists
  <2>3. f.isValidated = TRUE
    BY <1>1 DEF ConnectionIn, ConnectionOf
  <2> QED
    BY <2>2, <2>3
<1>3. OnScopeChange(d, m) = IF c.isValidated THEN m ELSE n
  <2>1. p = [m EXCEPT !.connection[d].isValidated = TRUE]
    BY DEF ManagerIn
  <2> QED
    BY <2>1 DEF OnScopeChange, SendValidation
<1> HIDE DEF f
<1>4. p \in ManagerIn(s, R, D) /\ p.connection = [m.connection EXCEPT ![d] = f] /\ p.out = m.out
  BY <1>2 DEF ManagerIn
<1> HIDE DEF p
<1>5. Signal("ScopeChange") \in Message
  BY DEF Signal, Message
<1>6. n \in ManagerIn(s, R, D)
  BY <1>1, <1>4, <1>5, MessageSent, UpkeepSteps
<1>7. /\ n.connection = [m.connection EXCEPT ![d] = f]
      /\ n.out = [m.out EXCEPT ![d] = Append(@, Signal("ScopeChange"))]
  BY <1>4 DEF SendTo, ManagerIn
<1> HIDE DEF n
<1>8. Validated(d, D, m, n)
  <2>1. DOMAIN n.connection = D
    BY <1>6, ManagerParts
  <2>2. n.connection[d].isValidated = TRUE
    BY <1>2, <1>7, ManagerParts
  <2>3. \A e \in D : e # d => n.connection[e].isValidated = m.connection[e].isValidated
    BY <1>7, ManagerParts
  <2> QED
    BY <2>1, <2>2, <2>3 DEF Validated
<1>9. c.isValidated => Validated(d, D, m, m)
  BY ManagerParts DEF Validated
<1> QED
  BY <1>3, <1>6, <1>8, <1>9

\* The managers of a system.
Managers(s) == UNION {ManagerIn(s, R, D) : R \in SUBSET Replica, D \in SUBSET System}

\* What a handler leaves of them, by the packet it was given.
Handled(d, D, m, type, n) ==
  CASE type = "NewConnection" /\ d \notin D -> Pushed(d, D, m, n)
    [] type = "ConnectionLost" /\ d \in D -> Popped(d, D, m, n)
    [] type = "ScopeChange" /\ d \in D -> Validated(d, D, m, n)
    [] OTHER -> SameValidation(D, m, n)

\* Work on a manager ends in a manager that has validated what it had.
LEMMA WorkValidation ==
  ASSUME NEW s, NEW D \in SUBSET System, NEW m, NEW n \in Work(s, D, m)
  PROVE  n \in Managers(s) /\ SameValidation(D, m, n)
  BY ManagerParts DEF Work, Managers, SameValidation

\* Handlers that are given what they were sent keep the lists in order.
LEMMA ReceiveManager ==
  ASSUME NEW s \in System, NEW R \in SUBSET Replica, NEW D \in SUBSET System,
         NEW m \in ManagerIn(s, R, D), NEW d \in System, NEW message \in Packet,
         ~Queries(s) /\ d \in D /\ message.type = "Construction"
           => Uncrossed(m.connection[d], message.new)
  PROVE  LET result == OnReceive(s, d, m, message) IN
         /\ result.m \in Managers(s) /\ result.back \in Seq(Message)
         /\ Handled(d, D, m, message.type, result.m)
<1> DEFINE result == OnReceive(s, d, m, message)
           grouped == m.connection[d].groupConstructionAndSerialize
           Ok == /\ result.m \in Managers(s) /\ result.back \in Seq(Message)
                 /\ Handled(d, D, m, message.type, result.m)
<1> SUFFICES Ok
  OBVIOUS
<1>1. /\ message.type \in {"NewConnection", "ConnectionLost", "Construction", "Serialize",
                           "DownloadStarted", "DownloadComplete", "ScopeChange"}
      /\ message.type \notin {"NewConnection", "ConnectionLost"} => message \in Message
      /\ message.type = "Serialize" => message.version \in Nat
      /\ message.type = "Construction" => message.new \in Seq(Item) /\ message.deleted \in Seq(Replica)
  BY DEF Packet, Message
<1>2. DOMAIN m.connection = D /\ m \in Upkeep(s, R, D, m)
  BY ManagerParts, UpkeepSteps
<1>3. ASSUME NEW n \in Work(s, D, m), result = Processed(n),
             ~(message.type = "NewConnection" /\ d \notin D),
             ~(message.type = "ConnectionLost" /\ d \in D),
             ~(message.type = "ScopeChange" /\ d \in D)
      PROVE  Ok
  <2>1. n \in Managers(s) /\ SameValidation(D, m, n)
    BY WorkValidation
  <2>2. result.m = n /\ result.back = <<>>
    BY <1>3 DEF Processed
  <2>3. Handled(d, D, m, message.type, n)
    BY <1>3, <2>1 DEF Handled
  <2> HIDE DEF result
  <2> QED
    BY <2>1, <2>2, <2>3
<1>4. ASSUME result \in Results(s, R, D, m),
             ~(message.type = "NewConnection" /\ d \notin D),
             ~(message.type = "ConnectionLost" /\ d \in D),
             ~(message.type = "ScopeChange" /\ d \in D)
      PROVE  Ok
  <2> HIDE DEF result
  <2>1. result.m \in Upkeep(s, R, D, m) /\ result.back \in Seq(Message)
    BY <1>4 DEF Results
  <2>2. result.m \in Work(s, D, m)
    BY <2>1, WorkSteps
  <2>3. result.m \in Managers(s) /\ SameValidation(D, m, result.m)
    BY <2>2, WorkValidation
  <2> QED
    BY <1>4, <2>1, <2>3 DEF Handled
<1>5. m \in Work(s, D, m)
  BY <1>2, WorkSteps
<1>6. CASE message.type = "NewConnection" /\ d \notin D
  <2> DEFINE n == PushConnection(s, d, m)
  <2>1. result = Processed(n)
    BY <1>6 DEF OnReceive
  <2>2. n \in ManagerIn(s, R, D \cup {d}) /\ Pushed(d, D, m, n)
    BY <1>6, PushManager
  <2>3. n \in Managers(s)
    <3>1. D \cup {d} \in SUBSET System
      OBVIOUS
    <3> HIDE DEF n
    <3> QED
      BY <2>2, <3>1 DEF Managers
  <2> HIDE DEF n
  <2>4. result.m = n /\ result.back = <<>>
    BY <2>1 DEF Processed
  <2> HIDE DEF result
  <2> QED
    BY <1>6, <2>2, <2>3, <2>4 DEF Handled
<1>7. CASE message.type = "NewConnection" /\ d \in D
  <2>1. result = Processed(m)
    BY <1>2, <1>7 DEF OnReceive, PushConnection
  <2> QED
    BY <1>3, <1>5, <1>7, <2>1
<1>8. CASE message.type = "ConnectionLost" /\ d \in D
  <2> DEFINE n == PopConnection(s, d, m)
  <2>1. result = Processed(n)
    BY <1>8 DEF OnReceive
  <2>2. n \in Work(s, D \ {d}, m)
    BY <1>8, PopManager
  <2> HIDE DEF n
  <2>3. n \in Managers(s) /\ SameValidation(D \ {d}, m, n)
    BY <2>2, WorkValidation
  <2>4. result.m = n /\ result.back = <<>>
    BY <2>1 DEF Processed
  <2>5. Popped(d, D, m, n)
    BY <2>3 DEF SameValidation, Popped
  <2> HIDE DEF result
  <2> QED
    BY <1>8, <2>3, <2>4, <2>5 DEF Handled
<1>9. CASE message.type = "ConnectionLost" /\ d \notin D
  <2>1. result = Processed(m)
    BY <1>2, <1>9 DEF OnReceive, PopConnection
  <2> QED
    BY <1>3, <1>5, <1>9, <2>1
<1>10. CASE message.type \notin {"NewConnection", "ConnectionLost"} /\ d \notin D
  <2>1. result = Processed(m)
    BY <1>1, <1>2, <1>10 DEF OnReceive
  <2> QED
    BY <1>3, <1>5, <1>10, <2>1
<1>11. CASE message.type \in {"Construction", "Serialize"} /\ d \in D /\ grouped
  <2>1. result = Held(m, d, message)
    BY <1>2, <1>11 DEF OnReceive
  <2>2. message \in Message
    BY <1>1, <1>11
  <2>3. result \in Results(s, R, D, m)
    BY <1>11, <2>1, <2>2, HeldResult
  <2> QED
    BY <1>4, <1>11, <2>3
<1>12. CASE message.type = "Construction" /\ d \in D /\ ~grouped
  <2> DEFINE n == OnConstruction(s, d, m, message)
  <2>1. result = Processed(n)
    BY <1>2, <1>12 DEF OnReceive
  <2>2. n \in Work(s, D, m)
    BY <1>1, <1>12, ConstructionManager
  <2> QED
    BY <1>3, <1>12, <2>1, <2>2
<1>13. CASE message.type = "Serialize" /\ d \in D /\ ~grouped
  <2> DEFINE n == OnSerialize(m, message)
  <2>1. result = Processed(n)
    BY <1>2, <1>13 DEF OnReceive
  <2>2. n \in Upkeep(s, R, D, m)
    BY <1>1, <1>13, SerializeReceived
  <2>3. n \in Work(s, D, m)
    BY <2>2, WorkSteps
  <2> QED
    BY <1>3, <1>13, <2>1, <2>3
<1>14. CASE message.type = "DownloadStarted" /\ d \in D
  <2>1. result = OnDownloadStarted(s, d, m, message)
    BY <1>2, <1>14 DEF OnReceive
  <2>2. result \in Results(s, R, D, m)
    BY <1>1, <1>14, <2>1, DownloadStartedResult
  <2> QED
    BY <1>4, <1>14, <2>2
<1>15. CASE message.type = "DownloadComplete" /\ d \in D
  <2>1. result = OnDownloadComplete(d, m, message)
    BY <1>2, <1>15 DEF OnReceive
  <2>2. result \in Results(s, R, D, m)
    BY <1>1, <1>15, <2>1, DownloadCompleteResult
  <2> QED
    BY <1>4, <1>15, <2>2
<1>16. CASE message.type = "ScopeChange" /\ d \in D
  <2> DEFINE n == OnScopeChange(d, m)
  <2>1. result = Processed(n)
    BY <1>2, <1>16 DEF OnReceive
  <2>2. n \in ManagerIn(s, R, D) /\ Validated(d, D, m, n)
    BY <1>16, ScopeManager
  <2>3. n \in Managers(s)
    BY <2>2 DEF Managers
  <2> HIDE DEF n
  <2>4. result.m = n /\ result.back = <<>>
    BY <2>1 DEF Processed
  <2> HIDE DEF result
  <2> QED
    BY <1>16, <2>2, <2>3, <2>4 DEF Handled
<1> QED
  BY <1>1, <1>6, <1>7, <1>8, <1>9, <1>10, <1>11, <1>12, <1>13, <1>14, <1>15, <1>16

----------------------------------------------------------------------------
(* The invariant of the managers and of the network *)

\* Every manager's lists are consistent and name replicas of its own.
ManagersOK ==
  /\ replica = [s \in System |-> replica[s]] /\ connection = [s \in System |-> connection[s]]
  /\ \A s \in System : Manager(s) \in Managers(s)

\* What is on its way is a packet, and only what is up is being closed.
NetworkOK ==
  /\ inbox \in [System -> [System -> Seq(Packet)]]
  /\ up \in [System -> SUBSET System] /\ closing \in [System -> SUBSET System]
  /\ \A s \in System : closing[s] \subseteq up[s]

\* The inductive invariant.
Inv ==
  /\ policy \in PolicyChoice /\ looping \subseteq System
  /\ hidden \subseteq System \X System \X Replica
  /\ ManagersOK /\ NetworkOK

\* The managers are those of existing replicas and connected systems.
LEMMA ManagerOf ==
  ASSUME ManagersOK, NEW s \in System
  PROVE  \E R \in SUBSET Replica, D \in SUBSET System :
           /\ Manager(s) \in ManagerIn(s, R, D)
           /\ DOMAIN replica[s] = R /\ DOMAIN connection[s] = D
           /\ \A d \in D : connection[s][d] \in ConnectionIn(s, R)
<1>1. PICK R \in SUBSET Replica, D \in SUBSET System : Manager(s) \in ManagerIn(s, R, D)
  BY DEF ManagersOK, Managers
<1>2. Manager(s).replica = replica[s] /\ Manager(s).connection = connection[s]
  BY DEF Manager
<1>3. DOMAIN replica[s] = R /\ DOMAIN connection[s] = D
  BY <1>1, <1>2, ManagerParts
<1>4. \A d \in D : connection[s][d] \in ConnectionIn(s, R)
  BY <1>1, <1>2, ManagerParts
<1> QED
  BY <1>1, <1>3, <1>4

\* As the policy does not change, what is a correct manager does not either.
LEMMA SameManagers ==
  ASSUME policy' = policy, NEW e \in System
  PROVE  Managers(e)' = Managers(e)
<1>1. ASSUME NEW R \in SUBSET Replica PROVE ConnectionIn(e, R)' = ConnectionIn(e, R)
  BY DEF ConnectionIn, Queries
<1>2. ASSUME NEW R \in SUBSET Replica, NEW D \in SUBSET System
      PROVE  ManagerIn(e, R, D)' = ManagerIn(e, R, D)
  BY <1>1 DEF ManagerIn
<1> QED
  BY <1>2 DEF Managers

\* Storing a correct manager keeps all managers correct.
LEMMA Stored ==
  ASSUME ManagersOK, NEW s \in System, NEW n \in Managers(s), Store(s, n), policy' = policy
  PROVE  ManagersOK'
<1>2. ASSUME NEW e \in System PROVE Managers(e)' = Managers(e)
  BY SameManagers
<1>3. ASSUME NEW e \in System PROVE Manager(e)' \in Managers(e)
  <2> DEFINE quiet == [d \in System |-> <<>>]
  <2>1. quiet \in [System -> Seq(Message)]
    OBVIOUS
  <2>2. CASE e = s
    <3>1. PICK R \in SUBSET Replica, D \in SUBSET System : n \in ManagerIn(s, R, D)
      BY DEF Managers
    <3>2. replica'[s] = n.replica /\ connection'[s] = n.connection
      BY DEF ManagersOK, Store
    <3>3. Manager(s)' = [replica |-> n.replica, connection |-> n.connection, out |-> quiet]
      BY <3>2 DEF Manager
    <3> HIDE DEF quiet
    <3>4. [replica |-> n.replica, connection |-> n.connection, out |-> quiet] \in ManagerIn(s, R, D)
      BY <2>1, <3>1 DEF ManagerIn
    <3> QED
      BY <2>2, <3>3, <3>4 DEF Managers
  <2>3. CASE e # s
    <3>1. replica'[e] = replica[e] /\ connection'[e] = connection[e]
      BY <2>3 DEF ManagersOK, Store
    <3>2. Manager(e)' = Manager(e)
      BY <3>1 DEF Manager
    <3> QED
      BY <3>2 DEF ManagersOK
  <2> QED
    BY <2>2, <2>3
<1>4. replica' = [e \in System |-> replica'[e]] /\ connection' = [e \in System |-> connection'[e]]
  BY DEF ManagersOK, Store
<1> QED
  BY <1>2, <1>3, <1>4 DEF ManagersOK

\* So does storing nothing.
LEMMA Unstored ==
  ASSUME ManagersOK, UNCHANGED <<policy, replica, connection>>
  PROVE  ManagersOK'
<1>2. ASSUME NEW e \in System PROVE Managers(e)' = Managers(e) /\ Manager(e)' = Manager(e)
  BY SameManagers DEF Manager
<1> QED
  BY <1>2 DEF ManagersOK

\* The Update of a Receive is upkeep, taken or not.
LEMMA UpdatedManager ==
  ASSUME NEW s \in System, NEW R \in SUBSET Replica, NEW D \in SUBSET System,
         Manager(s) \in ManagerIn(s, R, D), NEW tick \in BOOLEAN
  PROVE  Updated(s, tick) \in Upkeep(s, R, D, Manager(s))
<1>1. Update(s, Manager(s), tick) \in Upkeep(s, R, D, Manager(s))
  BY UpdateManager
<1>2. Manager(s) \in Upkeep(s, R, D, Manager(s))
  BY UpkeepSteps
<1> QED
  BY <1>1, <1>2 DEF Updated

\* What is sent arrives as packets.
LEMMA SentPackets ==
  ASSUME NEW n, n.out \in [System -> Seq(Message)], NEW s \in System,
         inbox \in [System -> [System -> Seq(Packet)]]
  PROVE  Sent(s, n) \in [System -> [System -> Seq(Packet)]]
<1>1. Seq(Message) \subseteq Seq(Packet)
  BY SeqMonotonic DEF Packet
<1>2. ASSUME NEW d \in System, NEW e \in System
      PROVE  inbox[d][e] \in Seq(Packet) /\ inbox[d][s] \o n.out[d] \in Seq(Packet)
  <2>1. inbox[d][e] \in Seq(Packet) /\ inbox[d][s] \in Seq(Packet) /\ n.out[d] \in Seq(Packet)
    BY <1>1
  <2> QED
    BY <2>1
<1> QED
  BY <1>2 DEF Sent

\* A list that is one list after another.
Joined(S, l, a, b) ==
  /\ l \in Seq(S) /\ Len(l) = Len(a) + Len(b)
  /\ Len(a) \in Nat /\ Len(b) \in Nat
  /\ \A i \in 1..Len(a) : l[i] = a[i]
  /\ \A i \in 1..Len(b) : l[Len(a) + i] = b[i]

\* Where the entries of a concatenation come from.
LEMMA Concatenated ==
  ASSUME NEW S, NEW a \in Seq(S), NEW b \in Seq(S)
  PROVE  Joined(S, a \o b, a, b)
<1>1. Len(a) \in Nat /\ Len(b) \in Nat
  OBVIOUS
<1>2. a \o b \in Seq(S) /\ Len(a \o b) = Len(a) + Len(b)
  BY ConcatProperties
<1>3. \A i \in 1..Len(a)+Len(b) : (a \o b)[i] = IF i =< Len(a) THEN a[i] ELSE b[i - Len(a)]
  BY ConcatProperties
<1>4. ASSUME NEW i \in 1..Len(a) PROVE (a \o b)[i] = a[i]
  <2>1. i \in 1..Len(a)+Len(b) /\ i =< Len(a)
    BY <1>1
  <2> QED
    BY <1>3, <2>1
<1>5. ASSUME NEW i \in 1..Len(b) PROVE (a \o b)[Len(a) + i] = b[i]
  <2>1. Len(a) + i \in 1..Len(a)+Len(b) /\ ~(Len(a) + i =< Len(a)) /\ (Len(a) + i) - Len(a) = i
    BY <1>1
  <2> QED
    BY <1>3, <2>1
<1> QED
  BY <1>1, <1>2, <1>4, <1>5 DEF Joined

\* Packets put in at a place move the later ones back.
LEMMA InsertedPackets ==
  ASSUME NEW S, NEW list \in Seq(S), NEW n \in 0..Len(list), NEW more \in Seq(S)
  PROVE  LET l == InsertedAt(list, n, more) IN
         /\ l \in Seq(S) /\ Len(l) = Len(list) + Len(more)
         /\ \A i \in 1..n : l[i] = list[i]
         /\ \A i \in 1..Len(more) : l[n + i] = more[i]
         /\ \A i \in n+1..Len(list) : l[Len(more) + i] = list[i]
<1> DEFINE a == SubSeq(list, 1, n)
           b == SubSeq(list, n + 1, Len(list))
           ab == a \o more
           l == ab \o b
           k == Len(list)
           m == Len(more)
<1>1. k \in Nat /\ m \in Nat /\ n \in Nat /\ n =< k
  OBVIOUS
<1>2. a \in Seq(S) /\ Len(a) = n /\ \A i \in 1..n : a[i] = list[i]
  BY <1>1, SubSeqProperties
<1>3. b \in Seq(S) /\ Len(b) = k - n /\ \A i \in 1..k-n : b[i] = list[n + i]
  <2>1. n + 1 \in Int /\ k \in Int /\ \A i \in n+1..k : list[i] \in S
    BY <1>1
  <2>2. /\ b \in Seq(S) /\ Len(b) = (IF n + 1 <= k THEN k - (n + 1) + 1 ELSE 0)
        /\ \A i \in 1..k-(n+1)+1 : b[i] = list[n + 1 + i - 1]
    <3> HIDE DEF k
    <3>1. \A i \in n+1..k : list[i] \in S
      BY <2>1
    <3> QED
      BY <2>1, <3>1, SubSeqProperties DEF k
  <2>3. /\ k - (n + 1) + 1 = k - n /\ (n + 1 <= k \/ k - n = 0)
        /\ \A i \in 1..k-n : n + 1 + i - 1 = n + i
    BY <1>1
  <2> HIDE DEF b, k
  <2> QED
    BY <2>2, <2>3, <1>1
<1> HIDE DEF a, b, k, m
<1>4. /\ ab \in Seq(S) /\ Len(ab) = n + m
      /\ \A i \in 1..n : ab[i] = list[i]
      /\ \A i \in 1..m : ab[n + i] = more[i]
  <2>1. Joined(S, ab, a, more)
    BY <1>2, Concatenated
  <2> HIDE DEF ab
  <2> QED
    BY <1>2, <2>1 DEF m, Joined
<1> HIDE DEF ab
<1>5. /\ l \in Seq(S) /\ Len(l) = n + m + (k - n)
      /\ \A i \in 1..n+m : l[i] = ab[i]
      /\ \A i \in 1..k-n : l[n + m + i] = b[i]
  <2>1. Joined(S, l, ab, b)
    BY <1>3, <1>4, Concatenated
  <2> HIDE DEF l
  <2> QED
    BY <1>3, <1>4, <2>1 DEF Joined
<1> HIDE DEF l
<1>6. ASSUME NEW i \in 1..n PROVE l[i] = list[i]
  BY <1>1, <1>4, <1>5
<1>7. ASSUME NEW i \in 1..m PROVE l[n + i] = more[i]
  <2>1. n + i \in 1..n+m
    BY <1>1
  <2> QED
    BY <1>4, <1>5, <2>1
<1>8. ASSUME NEW i \in n+1..k PROVE l[m + i] = list[i]
  <2>1. i - n \in 1..k-n /\ n + m + (i - n) = m + i /\ n + (i - n) = i
    BY <1>1
  <2> QED
    BY <1>3, <1>5, <2>1
<1>9. Len(l) = k + m
  BY <1>1, <1>5
<1>10. InsertedAt(list, n, more) = l
  BY DEF InsertedAt, l, ab, a, b, k
<1> QED
  BY <1>5, <1>6, <1>7, <1>8, <1>9, <1>10 DEF k, m

\* What is left of a list that is cut off.
LEMMA Truncated ==
  ASSUME NEW S, NEW list \in Seq(S), NEW n \in 0..Len(list)
  PROVE  /\ SubSeq(list, 1, n) \in Seq(S) /\ Len(SubSeq(list, 1, n)) = n
         /\ \A i \in 1..n : SubSeq(list, 1, n)[i] = list[i]
<1>1. n \in Nat /\ Len(list) \in Nat
  OBVIOUS
<1> QED
  BY <1>1, SubSeqProperties

\* Head and Tail by positions.
LEMMA RestOfList ==
  ASSUME NEW S, NEW list \in Seq(S), list # <<>>
  PROVE  /\ Head(list) \in S /\ Head(list) = list[1] /\ Tail(list) \in Seq(S)
         /\ Len(list) \in Nat /\ Len(list) >= 1 /\ Len(Tail(list)) = Len(list) - 1
         /\ \A i \in 1..Len(list)-1 : Tail(list)[i] = list[i + 1]
  BY HeadTailProperties

----------------------------------------------------------------------------
(* Every step keeps the invariant *)

\* A correct manager has messages to send.
LEMMA ManagerOut ==
  ASSUME NEW s, NEW n \in Managers(s)
  PROVE  n.out \in [System -> Seq(Message)]
<1>1. PICK R \in SUBSET Replica, D \in SUBSET System : n \in ManagerIn(s, R, D)
  BY DEF Managers
<1> QED
  BY <1>1 DEF ManagerIn

\* A step that fills inboxes with packets keeps the types of the network ...
LEMMA NetworkKept ==
  ASSUME NetworkOK, inbox' \in [System -> [System -> Seq(Packet)]], UNCHANGED <<up, closing>>
  PROVE  NetworkOK'
  BY DEF NetworkOK

\* ... and so does one that leaves it alone.
LEMMA NetworkUnchanged ==
  ASSUME NetworkOK, UNCHANGED network
  PROVE  NetworkOK'
  BY DEF NetworkOK, network

\* RakPeer::Receive that finds no packet keeps the invariant ...
LEMMA ReceiveNothingKeeps ==
  ASSUME Inv, NEW s \in System, ReceiveNothing(s)
  PROVE  Inv'
<1>1. PICK tick \in BOOLEAN : Store(s, Updated(s, tick)) /\ inbox' = Sent(s, Updated(s, tick))
  BY DEF ReceiveNothing
<1> DEFINE n == Updated(s, tick)
<1>2. n \in Managers(s)
  <2>1. PICK R \in SUBSET Replica, D \in SUBSET System : Manager(s) \in ManagerIn(s, R, D)
    BY ManagerOf DEF Inv
  <2>2. n \in ManagerIn(s, R, D)
    BY <2>1, UpdatedManager, UpkeepSteps
  <2> HIDE DEF n
  <2> QED
    BY <2>2 DEF Managers
<1> HIDE DEF n
<1>3. policy' = policy /\ hidden' = hidden /\ looping' \subseteq looping /\ UNCHANGED <<up, closing>>
  BY DEF ReceiveNothing
<1>4. ManagersOK'
  BY <1>1, <1>2, <1>3, Stored DEF Inv, n
<1>5. inbox' \in [System -> [System -> Seq(Packet)]]
  BY <1>1, <1>2, ManagerOut, SentPackets DEF Inv, NetworkOK, n
<1>6. NetworkOK'
  BY <1>3, <1>5, NetworkKept DEF Inv
<1> QED
  BY <1>3, <1>4, <1>6 DEF Inv

\* What a system does with the packet that it reads.
LEMMA PacketRead ==
  ASSUME Inv, NoCrossing, NEW s \in System, NEW d \in System, inbox[s][d] # <<>>,
         NEW tick \in BOOLEAN
  PROVE  LET result == OnReceive(s, d, Updated(s, tick), Head(inbox[s][d]))
             D == DOMAIN connection[s] IN
         /\ result.m \in Managers(s) /\ result.back \in Seq(Message)
         /\ Handled(d, D, Updated(s, tick), Head(inbox[s][d]).type, result.m)
         /\ DOMAIN Updated(s, tick).connection = D
         /\ \A e \in D : Updated(s, tick).connection[e].isValidated
                           = connection[s][e].isValidated
<1> DEFINE m == Updated(s, tick)
           message == Head(inbox[s][d])
           result == OnReceive(s, d, m, message)
<1>1. PICK R \in SUBSET Replica, D \in SUBSET System :
        Manager(s) \in ManagerIn(s, R, D) /\ DOMAIN connection[s] = D
  BY ManagerOf DEF Inv
<1>2. m \in Upkeep(s, R, D, Manager(s)) /\ m \in ManagerIn(s, R, D)
  BY <1>1, UpdatedManager, UpkeepSteps
<1>3. message \in Packet
  <2>1. inbox[s][d] \in Seq(Packet)
    BY DEF Inv, NetworkOK
  <2> QED
    BY <2>1, RestOfList
<1>4. ASSUME ~Queries(s), d \in D, message.type = "Construction"
      PROVE  Uncrossed(m.connection[d], message.new)
  <2>1. <<s, d>> \in Connections /\ <<s, d>>[1] = s /\ <<s, d>>[2] = d
    BY <1>1, <1>4 DEF Connections
  <2> HIDE DEF m
  <2> QED
    BY <1>4, <2>1 DEF NoCrossing, m
<1>5. /\ DOMAIN m.connection = D
      /\ \A e \in D : m.connection[e].isValidated = connection[s][e].isValidated
  <2>1. Manager(s).connection = connection[s]
    BY DEF Manager
  <2> HIDE DEF m
  <2> QED
    BY <1>2, <2>1, ManagerParts DEF Upkeep
<1> HIDE DEF m, message
<1>6. /\ result.m \in Managers(s) /\ result.back \in Seq(Message)
      /\ Handled(d, D, m, message.type, result.m)
  BY <1>2, <1>3, <1>4, ReceiveManager
<1> QED
  BY <1>1, <1>5, <1>6 DEF m, message

\* ... and so does one that hands a packet to the plugin, if it does not
\* cross.
LEMMA ReceivePacketKeeps ==
  ASSUME Inv, NoCrossing, NEW s \in System, NEW d \in System, ReceivePacket(s, d)
  PROVE  Inv'
<1>1. inbox[s][d] # <<>>
  BY DEF ReceivePacket
<1>2. PICK tick \in BOOLEAN :
        LET result == OnReceive(s, d, Updated(s, tick), Head(inbox[s][d]))
            rest == Tail(inbox[s][d])
        IN /\ Store(s, result.m)
           /\ \E n \in Arrivals(rest) :
                inbox' = [Sent(s, result.m) EXCEPT ![s][d] = InsertedAt(rest, n, result.back)]
           /\ looping' = IF result.stop THEN looping \cup {s} ELSE looping \ {s}
  BY DEF ReceivePacket
<1> DEFINE result == OnReceive(s, d, Updated(s, tick), Head(inbox[s][d]))
           rest == Tail(inbox[s][d])
<1>3. result.m \in Managers(s) /\ result.back \in Seq(Message)
  BY <1>1, PacketRead
<1>4. PICK n \in Arrivals(rest) :
        inbox' = [Sent(s, result.m) EXCEPT ![s][d] = InsertedAt(rest, n, result.back)]
  BY <1>2
<1>5. Store(s, result.m) /\ looping' \subseteq looping \cup {s}
  BY <1>2
<1> HIDE DEF result
<1>6. policy' = policy /\ hidden' = hidden /\ UNCHANGED <<up, closing>>
  BY DEF ReceivePacket
<1>7. ManagersOK'
  BY <1>3, <1>5, <1>6, Stored DEF Inv
<1>8. Sent(s, result.m) \in [System -> [System -> Seq(Packet)]]
  BY <1>3, ManagerOut, SentPackets DEF Inv, NetworkOK
<1>9. InsertedAt(rest, n, result.back) \in Seq(Packet)
  <2>1. inbox[s][d] \in Seq(Packet)
    BY DEF Inv, NetworkOK
  <2>2. rest \in Seq(Packet)
    BY <1>1, <2>1, RestOfList
  <2>3. n \in 0..Len(rest)
    BY DEF Arrivals
  <2>4. Message \subseteq Packet
    BY DEF Packet
  <2>5. result.back \in Seq(Packet)
    BY <1>3, <2>4, SeqMonotonic
  <2> HIDE DEF rest
  <2> QED
    BY <2>2, <2>3, <2>5, InsertedPackets
<1>10. inbox' \in [System -> [System -> Seq(Packet)]]
  BY <1>4, <1>8, <1>9
<1>11. NetworkOK'
  BY <1>6, <1>10, NetworkKept DEF Inv
<1> QED
  BY <1>5, <1>6, <1>7, <1>11 DEF Inv

\* A new replica: it exists, and every connection that queries is to be asked
\* about it.
LEMMA ReferenceKeeps ==
  ASSUME Inv, NEW s \in System, NEW r \in Replica, Reference(s, r)
  PROVE  Inv'
<1>1. PICK R \in SUBSET Replica, D \in SUBSET System :
        /\ Manager(s) \in ManagerIn(s, R, D)
        /\ DOMAIN replica[s] = R /\ DOMAIN connection[s] = D
        /\ \A d \in D : connection[s][d] \in ConnectionIn(s, R)
  BY ManagerOf DEF Inv
<1> DEFINE Q == R \cup {r}
           object == With(replica[s], r, Object(s, 1))
           asked == [d \in D |-> IF Queries(s) THEN OnLocalReference(connection[s][d], r)
                                 ELSE connection[s][d]]
           n == [replica |-> object, connection |-> asked, out |-> Manager(s).out]
<1>2. /\ r \notin R /\ replica' = [replica EXCEPT ![s] = object]
      /\ connection' = [connection EXCEPT ![s] = asked]
      /\ UNCHANGED <<policy, looping, hidden, network>>
  BY <1>1 DEF Reference, Inv, ManagersOK
<1>3. object \in [Q -> Objects]
  <2>1. Object(s, 1) \in Objects
    BY DEF Object, Objects
  <2>2. replica[s] \in [R -> Objects]
    BY <1>1 DEF Manager, ManagerIn
  <2> QED
    BY <2>1, <2>2 DEF With
<1>4. ASSUME NEW d \in D PROVE asked[d] \in ConnectionIn(s, Q)
  <2> DEFINE c == connection[s][d]
  <2>1. c \in ConnectionIn(s, R) /\ c \in ConnectionIn(s, Q)
    BY <1>1, MoreReplicas
  <2>2. r \notin Range(c.construct) /\ r \notin Range(c.constructed)
    BY <1>2, <2>1, Unlisted
  <2> HIDE DEF c
  <2>3. Queries(s) => OnLocalReference(c, r) \in ConnectionIn(s, Q)
    BY <2>1, <2>2, Referenced
  <2> QED
    BY <2>1, <2>3 DEF c
<1>5. n \in Managers(s)
  <2>1. asked \in [D -> ConnectionIn(s, Q)]
    BY <1>4
  <2>2. Manager(s).out \in [System -> Seq(Message)]
    BY <1>1 DEF ManagerIn
  <2> HIDE DEF object, asked
  <2>3. n \in ManagerIn(s, Q, D)
    BY <1>3, <2>1, <2>2 DEF ManagerIn
  <2> QED
    BY <2>3 DEF Managers
<1>6. Store(s, n)
  BY <1>2 DEF Store
<1> HIDE DEF n
<1>7. ManagersOK'
  BY <1>2, <1>5, <1>6, Stored DEF Inv
<1>8. NetworkOK'
  BY <1>2, NetworkUnchanged DEF Inv
<1> QED
  BY <1>2, <1>7, <1>8 DEF Inv

\* A replica is deleted after all its entries are.
LEMMA DestroyKeeps ==
  ASSUME Inv, NEW s \in System, NEW r \in Replica, Destroy(s, r)
  PROVE  Inv'
<1> DEFINE n == Dereference(BroadcastDestructionList(Manager(s), <<r>>, s), r)
<1>1. Store(s, n) /\ inbox' = Sent(s, n)
  BY DEF Destroy
<1>2. n \in Managers(s)
  <2>1. PICK R \in SUBSET Replica, D \in SUBSET System : Manager(s) \in ManagerIn(s, R, D)
    BY ManagerOf DEF Inv
  <2>2. n \in Work(s, D, Manager(s))
    BY <2>1, DestructManager
  <2> HIDE DEF n
  <2> QED
    BY <2>2, WorkValidation
<1> HIDE DEF n
<1>3. UNCHANGED <<policy, looping, hidden, up, closing>>
  BY DEF Destroy
<1>4. ManagersOK'
  BY <1>1, <1>2, <1>3, Stored DEF Inv
<1>5. inbox' \in [System -> [System -> Seq(Packet)]]
  BY <1>1, <1>2, ManagerOut, SentPackets DEF Inv, NetworkOK
<1>6. NetworkOK'
  BY <1>3, <1>5, NetworkKept DEF Inv
<1> QED
  BY <1>3, <1>4, <1>6 DEF Inv

\* A change of state has no part in any list.
LEMMA ChangeKeeps ==
  ASSUME Inv, NEW s \in System, NEW r \in Replica, Change(s, r)
  PROVE  Inv'
<1>1. PICK R \in SUBSET Replica, D \in SUBSET System :
        /\ Manager(s) \in ManagerIn(s, R, D)
        /\ DOMAIN replica[s] = R /\ DOMAIN connection[s] = D
  BY ManagerOf DEF Inv
<1> DEFINE object == [replica[s] EXCEPT ![r].version = @ + 1]
           n == [replica |-> object, connection |-> connection[s], out |-> Manager(s).out]
<1>2. /\ r \in R /\ replica' = [replica EXCEPT ![s] = object] /\ connection' = connection
      /\ UNCHANGED <<policy, looping, hidden, network>>
  BY <1>1 DEF Change, Inv, ManagersOK
<1>3. object \in [R -> Objects]
  <2>1. replica[s] \in [R -> Objects]
    BY <1>1 DEF Manager, ManagerIn
  <2> QED
    BY <1>2, <2>1 DEF Objects
<1>4. n \in Managers(s)
  <2>1. /\ connection[s] \in [D -> ConnectionIn(s, R)]
        /\ Manager(s).out \in [System -> Seq(Message)]
    BY <1>1 DEF Manager, ManagerIn
  <2> HIDE DEF object
  <2>2. n \in ManagerIn(s, R, D)
    BY <1>3, <2>1 DEF ManagerIn
  <2> HIDE DEF n
  <2> QED
    BY <2>2 DEF Managers
<1>5. Store(s, n)
  BY <1>2 DEF Store, Inv, ManagersOK
<1> HIDE DEF n
<1>6. ManagersOK'
  BY <1>2, <1>4, <1>5, Stored DEF Inv
<1>7. NetworkOK'
  BY <1>2, NetworkUnchanged DEF Inv
<1> QED
  BY <1>2, <1>6, <1>7 DEF Inv

\* Neither has what the application will answer.
LEMMA RescopeKeeps ==
  ASSUME Inv, NEW s \in System, NEW d \in System, NEW r \in Replica, Rescope(s, d, r)
  PROVE  Inv'
<1>1. ManagersOK'
  BY Unstored DEF Rescope, Inv, manager
<1>2. NetworkOK'
  BY NetworkUnchanged DEF Rescope, Inv
<1> QED
  BY <1>1, <1>2 DEF Rescope, Inv, manager

\* The loss that CloseConnection queues is a packet of the return queue.
LEMMA CloseConnectionKeeps ==
  ASSUME Inv, NEW s \in System, NEW d \in System, CloseConnection(s, d)
  PROVE  Inv'
<1>1. ManagersOK'
  BY Unstored DEF CloseConnection, Inv, manager
<1>2. PICK n \in Arrivals(inbox[s][d]) :
        inbox' = [inbox EXCEPT ![s][d] = InsertedAt(@, n, <<Event("ConnectionLost")>>)]
  BY DEF CloseConnection
<1>3. InsertedAt(inbox[s][d], n, <<Event("ConnectionLost")>>) \in Seq(Packet)
  <2>1. <<Event("ConnectionLost")>> \in Seq(Packet)
    BY DEF Event, Packet
  <2>2. n \in 0..Len(inbox[s][d]) /\ inbox[s][d] \in Seq(Packet)
    BY DEF Arrivals, Inv, NetworkOK
  <2> QED
    BY <2>1, <2>2, InsertedPackets
<1>4. inbox' \in [System -> [System -> Seq(Packet)]]
  BY <1>2, <1>3 DEF Inv, NetworkOK
<1>5. NetworkOK'
  BY <1>4 DEF CloseConnection, Inv, NetworkOK
<1> QED
  BY <1>1, <1>5 DEF CloseConnection, Inv, manager

\* The network thread queues packets only: when a connection is made ...
LEMMA ConnectKeeps ==
  ASSUME Inv, NEW s \in System, NEW d \in System, Connect(s, d)
  PROVE  Inv'
<1>1. ManagersOK'
  BY Unstored DEF Connect, Inv, manager
<1>2. ASSUME NEW a \in System, NEW b \in System
      PROVE  inbox[a][b] \in Seq(Packet) /\ Append(inbox[a][b], Event("NewConnection")) \in Seq(Packet)
  <2>1. Event("NewConnection") \in Packet /\ inbox[a][b] \in Seq(Packet)
    BY DEF Event, Packet, Inv, NetworkOK
  <2> QED
    BY <2>1
<1>3. inbox' \in [System -> [System -> Seq(Packet)]]
  <2>1. s # d
    BY ManagerAssumption DEF Connect, Inv
  <2>2. inbox' = [inbox EXCEPT ![s][d] = Append(@, Event("NewConnection")),
                               ![d][s] = Append(@, Event("NewConnection"))]
    BY DEF Connect
  <2>3. ASSUME NEW a \in System, NEW b \in System
        PROVE  inbox'[a][b] = IF <<a, b>> \in {<<s, d>>, <<d, s>>}
                              THEN Append(inbox[a][b], Event("NewConnection")) ELSE inbox[a][b]
    BY <2>1, <2>2 DEF Inv, NetworkOK
  <2>4. inbox' = [a \in System |-> [b \in System |-> inbox'[a][b]]]
    BY <2>1, <2>2 DEF Inv, NetworkOK
  <2>5. \A a, b \in System : inbox'[a][b] \in Seq(Packet)
    BY <1>2, <2>3
  <2> QED
    BY <2>4, <2>5
<1>4. up' \in [System -> SUBSET System] /\ \A e \in System : up[e] \subseteq up'[e]
  BY DEF Connect, Inv, NetworkOK
<1>5. NetworkOK'
  BY <1>3, <1>4 DEF Connect, Inv, NetworkOK
<1> QED
  BY <1>1, <1>5 DEF Connect, Inv, manager

\* ... closed ...
LEMMA CloseCommandKeeps ==
  ASSUME Inv, NEW s \in System, NEW d \in System, CloseCommand(s, d)
  PROVE  Inv'
<1>1. ManagersOK'
  BY Unstored DEF CloseCommand, Inv, manager
<1>2. PICK n \in Arrivals(inbox[s][d]) : inbox' = [inbox EXCEPT ![s][d] = SubSeq(@, 1, n)]
  BY DEF CloseCommand
<1>3. SubSeq(inbox[s][d], 1, n) \in Seq(Packet)
  <2>1. n \in 0..Len(inbox[s][d]) /\ inbox[s][d] \in Seq(Packet)
    BY DEF Arrivals, Inv, NetworkOK
  <2> QED
    BY <2>1, Truncated
<1>4. inbox' \in [System -> [System -> Seq(Packet)]]
  BY <1>2, <1>3 DEF Inv, NetworkOK
<1>5. NetworkOK'
  BY <1>4 DEF CloseCommand, Inv, NetworkOK
<1> QED
  BY <1>1, <1>5 DEF CloseCommand, Inv, manager

\* ... or lost.
LEMMA TimeoutKeeps ==
  ASSUME Inv, NEW s \in System, NEW d \in System, Timeout(s, d)
  PROVE  Inv'
<1>1. ManagersOK'
  BY Unstored DEF Timeout, Inv, manager
<1>2. PICK n \in Arrivals(inbox[s][d]) :
        inbox' = [inbox EXCEPT ![s][d] = Append(SubSeq(@, 1, n), Event("ConnectionLost"))]
  BY DEF Timeout
<1>3. Append(SubSeq(inbox[s][d], 1, n), Event("ConnectionLost")) \in Seq(Packet)
  <2>1. n \in 0..Len(inbox[s][d]) /\ inbox[s][d] \in Seq(Packet)
    BY DEF Arrivals, Inv, NetworkOK
  <2>2. SubSeq(inbox[s][d], 1, n) \in Seq(Packet)
    BY <2>1, Truncated
  <2>3. Event("ConnectionLost") \in Packet
    BY DEF Event, Packet
  <2> QED
    BY <2>2, <2>3
<1>4. inbox' \in [System -> [System -> Seq(Packet)]]
  BY <1>2, <1>3 DEF Inv, NetworkOK
<1>5. NetworkOK'
  BY <1>4 DEF Timeout, Inv, NetworkOK
<1> QED
  BY <1>1, <1>5 DEF Timeout, Inv, manager

\* The connections of a system that shuts down are popped one after another.
PoppedAll(s, m, list) == FoldLeft(LAMBDA n, d : PopConnection(s, d, n), m, list)

\* Shutdown pops all connections of a manager.
LEMMA PoppedManager ==
  ASSUME NEW s \in System, NEW m \in Managers(s), NEW list \in Seq(System)
  PROVE  PoppedAll(s, m, list) \in Managers(s)
<1> DEFINE X == Managers(s)
           E == System
           op(x, e) == PopConnection(s, e, x)
           step == [p \in X \X E |-> op(p[1], p[2])]
           Is(f) == f = [t \in SUBSET DOMAIN list |->
                           IF t = {} THEN m ELSE op(f[t \ {Max(t)}], list[Max(t)])]
           it == CHOOSE f : Is(f)
<1>1. \A x \in X, e \in E : op(x, e) \in X
  <2> SUFFICES ASSUME NEW x \in X, NEW e \in E PROVE op(x, e) \in X
    OBVIOUS
  <2>1. PICK R \in SUBSET Replica, D \in SUBSET System : x \in ManagerIn(s, R, D)
    BY DEF Managers
  <2>2. CASE e \in D
    <3>1. op(x, e) \in Work(s, D \ {e}, x)
      BY <2>1, <2>2, PopManager
    <3>2. D \ {e} \in SUBSET System
      OBVIOUS
    <3> HIDE DEF op
    <3> QED
      BY <3>1, <3>2, WorkValidation
  <2>3. CASE e \notin D
    <3>1. op(x, e) = x
      BY <2>1, <2>3, ManagerParts DEF PopConnection
    <3> QED
      BY <3>1
  <2> QED
    BY <2>2, <2>3
<1>2. PoppedAll(s, m, list) = it[DOMAIN list]
  BY DEF PoppedAll, FoldLeft, MapThenFoldSet
<1>3. m \in X /\ list \in Seq(E)
  OBVIOUS
<1> HIDE DEF X, E, op
<1>4. step \in [X \X E -> X]
  BY <1>1
<1>5. PICK h \in [SUBSET DOMAIN list -> X] : IsFold(h, step, m, list)
  <2> HIDE DEF step
  <2> QED
    BY <1>3, <1>4, FoldExists
<1>6. Is(h)
  <2>1. \A t \in SUBSET DOMAIN list : t # {} =>
          step[<<h[t \ {Max(t)}], list[Max(t)]>>] = op(h[t \ {Max(t)}], list[Max(t)])
    <3>1. ASSUME NEW t \in SUBSET DOMAIN list, t # {}
          PROVE  h[t \ {Max(t)}] \in X /\ list[Max(t)] \in E
      <4> HIDE DEF step, Is, it
      <4> QED
        BY <1>3, <1>5, <3>1, FoldArguments
    <3> QED
      BY <3>1
  <2> HIDE DEF step
  <2> QED
    BY <1>5, <2>1 DEF IsFold
<1>7. Is(it)
  <2> HIDE DEF Is
  <2> QED
    BY <1>6
<1>8. it[DOMAIN list] = h[DOMAIN list]
  <2> HIDE DEF it
  <2>1. DOMAIN list = 1..Len(list) /\ Len(list) \in Nat
    BY <1>3
  <2>2. it[{}] = h[{}]
    BY <1>6, <1>7
  <2>3. \A t \in SUBSET DOMAIN list :
          t # {} /\ it[t \ {Max(t)}] = h[t \ {Max(t)}] => it[t] = h[t]
    BY <1>6, <1>7
  <2> HIDE DEF Is
  <2> QED
    BY <2>1, <2>2, <2>3, FoldUnique
<1> HIDE DEF it
<1>9. h[DOMAIN list] \in X
  OBVIOUS
<1> QED
  BY <1>2, <1>8, <1>9 DEF X

\* What is left after a shutdown is an empty manager.
LEMMA ShutdownKeeps ==
  ASSUME Inv, NEW s \in System, Shutdown(s)
  PROVE  Inv'
<1> DEFINE popped == PoppedAll(s, Manager(s), SetToSeq(DOMAIN connection[s]))
           n == [replica |-> <<>>, connection |-> <<>>, out |-> popped.out]
<1>1. Store(s, n) /\ inbox' = [Sent(s, popped) EXCEPT ![s] = Empty]
  BY DEF Shutdown, PoppedAll, Store
<1>2. popped \in Managers(s)
  <2>1. PICK D \in SUBSET System : DOMAIN connection[s] = D
    BY ManagerOf DEF Inv
  <2>2. SetToSeq(D) \in Seq(D)
    BY ManagerAssumption, FS_Subset, ListOfSet
  <2>3. SetToSeq(D) \in Seq(System)
    BY <2>2, SeqMonotonic
  <2> QED
    BY <2>1, <2>3, PoppedManager DEF Inv, ManagersOK
<1> HIDE DEF popped
<1>3. n \in Managers(s)
  <2>1. PICK R \in SUBSET Replica, D \in SUBSET System : popped \in ManagerIn(s, R, D)
    BY <1>2 DEF Managers
  <2>3. n \in ManagerIn(s, {}, {})
    <3>1. \A S : <<>> \in [{} -> S]
      OBVIOUS
    <3>2. popped.out \in [System -> Seq(Message)]
      BY <2>1 DEF ManagerIn
    <3> HIDE DEF n
    <3> QED
      BY <3>1, <3>2 DEF ManagerIn, n
  <2> HIDE DEF n
  <2> QED
    BY <2>3 DEF Managers
<1> HIDE DEF n
<1>4. ManagersOK'
  BY <1>1, <1>3, Stored DEF Inv, Shutdown
<1>5. inbox' \in [System -> [System -> Seq(Packet)]]
  <2>1. Sent(s, popped) \in [System -> [System -> Seq(Packet)]]
    BY <1>2, ManagerOut, SentPackets DEF Inv, NetworkOK
  <2>2. Empty \in [System -> Seq(Packet)]
    BY DEF Empty
  <2> QED
    BY <1>1, <2>1, <2>2
<1>6. NetworkOK'
  BY <1>5 DEF Shutdown, Inv, NetworkOK
<1> QED
  BY <1>4, <1>6 DEF Shutdown, Inv

\* Initially there are no replicas and no connections, only their
\* announcements.
LEMMA InitKeeps ==
  ASSUME Init
  PROVE  Inv
<1>1. policy \in PolicyChoice /\ looping \subseteq System /\ hidden \subseteq System \X System \X Replica
  BY DEF Init
<1>2. ManagersOK
  <2>1. /\ replica = [s \in System |-> replica[s]] /\ connection = [s \in System |-> connection[s]]
        /\ \A s \in System : replica[s] = <<>> /\ connection[s] = <<>>
    BY DEF Init, Empty
  <2>2. ASSUME NEW s \in System PROVE Manager(s) \in Managers(s)
    <3> DEFINE n == Manager(s)
    <3>1. n = [replica |-> <<>>, connection |-> <<>>, out |-> [d \in System |-> <<>>]]
      BY <2>1 DEF Manager
    <3>2. \A S : <<>> \in [{} -> S]
      OBVIOUS
    <3> HIDE DEF n
    <3>3. n \in ManagerIn(s, {}, {})
      BY <3>1, <3>2 DEF ManagerIn
    <3>4. n \in Managers(s)
      BY <3>3 DEF Managers
    <3> QED
      BY <3>4 DEF n
  <2> QED
    BY <2>1, <2>2 DEF ManagersOK
<1>3. NetworkOK
  <2>1. up \in [System -> SUBSET System] /\ closing \in [System -> SUBSET System]
    BY DEF Init
  <2>2. \A s \in System : closing[s] \subseteq up[s]
    BY DEF Init
  <2>3. <<Event("NewConnection")>> \in Seq(Packet) /\ <<>> \in Seq(Packet)
    BY DEF Event, Packet
  <2>4. inbox \in [System -> [System -> Seq(Packet)]]
    BY <2>3 DEF Init
  <2> QED
    BY <2>1, <2>2, <2>4 DEF NetworkOK
<1> QED
  BY <1>1, <1>2, <1>3 DEF Inv

\* Every step keeps the invariant, unless constructions cross.
LEMMA StepKeeps ==
  ASSUME Inv, NoCrossing, [Next]_vars
  PROVE  Inv'
<1>1. ASSUME NEW s \in System, Receive(s) PROVE Inv'
  BY <1>1, ReceiveNothingKeeps, ReceivePacketKeeps DEF Receive
<1>2. ASSUME NEW s \in System, Application(s) PROVE Inv'
  BY <1>2, ReferenceKeeps, DestroyKeeps, ChangeKeeps, CloseConnectionKeeps, RescopeKeeps,
     ShutdownKeeps DEF Application
<1>3. ASSUME Network PROVE Inv'
  BY <1>3, ConnectKeeps, CloseCommandKeeps, TimeoutKeeps DEF Network
<1>4. ASSUME UNCHANGED vars PROVE Inv'
  <2>1. ManagersOK' /\ NetworkOK'
    BY <1>4, Unstored, NetworkUnchanged DEF vars, network, Inv
  <2> QED
    BY <1>4, <2>1 DEF vars, Inv
<1> QED
  BY <1>1, <1>2, <1>3, <1>4 DEF Next

----------------------------------------------------------------------------
(* The theorems *)

\* Inv => the three properties.
LEMMA InvShows ==
  ASSUME Inv
  PROVE  TypeOK /\ ListsConsistent /\ NoDanglingEntries
<1>1. ASSUME NEW s \in System
      PROVE  /\ DOMAIN replica[s] \subseteq Replica /\ DOMAIN connection[s] \subseteq System
             /\ \A d \in DOMAIN connection[s] :
                  connection[s][d] \in ConnectionIn(s, DOMAIN replica[s])
  BY ManagerOf DEF Inv
<1>2. TypeOK
  BY <1>1, ManagerAssumption DEF TypeOK, Inv, NetworkOK
<1>3. ASSUME NEW p \in Connections
      PROVE  LET c == connection[p[1]][p[2]] IN
             /\ Consistent(c)
             /\ \A list \in Lists(c) : Range(list) \subseteq DOMAIN replica[p[1]]
  <2> DEFINE c == connection[p[1]][p[2]]
  <2>1. p[1] \in System /\ p[2] \in DOMAIN connection[p[1]]
    BY DEF Connections
  <2>2. c \in ConnectionIn(p[1], DOMAIN replica[p[1]])
    BY <1>1, <2>1
  <2> HIDE DEF c
  <2>3. /\ Range(c.construct) \subseteq DOMAIN replica[p[1]]
        /\ Range(c.constructed) \subseteq DOMAIN replica[p[1]]
        /\ Range(c.serialize) \subseteq DOMAIN replica[p[1]]
        /\ Range(c.destruct) \subseteq DOMAIN replica[p[1]]
        /\ Consistent(c)
    BY <2>2, ConnectionLists
  <2> QED
    BY <2>3 DEF Lists, c
<1>4. ListsConsistent
  BY <1>3 DEF ListsConsistent, Consistent, Lists
<1>5. NoDanglingEntries
  BY <1>3 DEF NoDanglingEntries
<1> QED
  BY <1>2, <1>4, <1>5

\* Where every application queries its replicas for construction, no list of
\* new replicas is ever asked for.
LEMMA QueriesCross ==
  ASSUME OnlyQueries, Inv
  PROVE  NoCrossing
<1>1. \A s \in System : Queries(s)
  BY DEF OnlyQueries, Inv, Queries
<1> QED
  BY <1>1 DEF NoCrossing, Connections

\* The invariant holds as long as no constructions cross.
LEMMA InvHolds == Spec /\ []NoCrossing => []Inv
<1>1. Init => Inv
  BY InitKeeps
<1>2. Inv /\ NoCrossing /\ [Next]_vars => Inv'
  BY StepKeeps
<1> QED
  BY <1>1, <1>2, PTL DEF Spec

\* It needs no such condition where every application queries.
LEMMA InvHoldsByQuery ==
  ASSUME OnlyQueries
  PROVE  Spec => []Inv
<1>1. Init => Inv
  BY InitKeeps
<1>2. Inv /\ [Next]_vars => Inv'
  BY StepKeeps, QueriesCross
<1> QED
  BY <1>1, <1>2, PTL DEF Spec

\* The state keeps its types: the lists of a manager name replicas and the
\* connections systems, whatever is received in whatever order.
THEOREM ManagersTyped == Spec /\ []NoCrossing => []TypeOK
<1>1. Inv => TypeOK
  BY InvShows
<1> QED
  BY <1>1, InvHolds, PTL

\* The lists of a connection never contradict each other (what ValidateLists
\* asserts), as long as no constructions of listed replicas cross.
THEOREM ListsStayConsistent == Spec /\ []NoCrossing => []ListsConsistent
<1>1. Inv => ListsConsistent
  BY InvShows
<1> QED
  BY <1>1, InvHolds, PTL

\* No list of a connection points to a replica that has been deleted, under
\* the same condition.
THEOREM NothingDangles == Spec /\ []NoCrossing => []NoDanglingEntries
<1>1. Inv => NoDanglingEntries
  BY InvShows
<1> QED
  BY <1>1, InvHolds, PTL

\* Where every application queries its replicas, the three properties hold
\* of every behaviour: TypeOK ...
THEOREM ManagersTypedByQuery ==
  ASSUME OnlyQueries
  PROVE  Spec => []TypeOK
<1>1. Inv => TypeOK
  BY InvShows
<1> QED
  BY <1>1, InvHoldsByQuery, PTL

\* ... the lists of a connection do not contradict each other ...
THEOREM ListsStayConsistentByQuery ==
  ASSUME OnlyQueries
  PROVE  Spec => []ListsConsistent
<1>1. Inv => ListsConsistent
  BY InvShows
<1> QED
  BY <1>1, InvHoldsByQuery, PTL

\* ... and none of them points to a replica that has been deleted.
THEOREM NothingDanglesByQuery ==
  ASSUME OnlyQueries
  PROVE  Spec => []NoDanglingEntries
<1>1. Inv => NoDanglingEntries
  BY InvShows
<1> QED
  BY <1>1, InvHoldsByQuery, PTL
=============================================================================
