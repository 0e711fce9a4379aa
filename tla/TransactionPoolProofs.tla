------------------------ MODULE TransactionPoolProofs ------------------------
(***************************************************************************)
(* For any transactions, limits and interleaving of the receiver, the      *)
(* timers and the worker: the index and the array of each queue agree, the *)
(* limits are kept, what may enter a block was verified, and a queue never *)
(* changes the order of its transactions.                                  *)
(***************************************************************************)
EXTENDS TransactionPool, FunctionTheorems, FiniteSetTheorems, SequenceTheorems, TLAPS

-----------------------------------------------------------------------------
(***************************************************************************)
(* A finite set of positions has an ascending enumeration.  The rank of a  *)
(* position, the number of positions up to it, is an injection into        *)
(* 1..Cardinality(P), hence a bijection: the enumeration is its inverse.   *)
(***************************************************************************)
IsAscending(f, P) ==
  /\ f \in [1..Cardinality(P) -> P]
  /\ \A i, j \in 1..Cardinality(P) : i < j => f[i] < f[j]

UpTo(P, x) == {y \in P : y <= x}
Rank(P) == [x \in P |-> Cardinality(UpTo(P, x))]

LEMMA RankIncreases ==
  ASSUME NEW P \in SUBSET Nat, IsFiniteSet(P)
  PROVE  /\ Rank(P) \in [P -> 1..Cardinality(P)]
         /\ \A x, y \in P : x < y => Rank(P)[x] < Rank(P)[y]
<1>1. Cardinality(P) \in Nat
  BY FS_CardinalityType
<1>2. ASSUME NEW x \in P
      PROVE  IsFiniteSet(UpTo(P, x)) /\ Cardinality(UpTo(P, x)) \in 1..Cardinality(P)
  <2>1. UpTo(P, x) \in SUBSET P /\ x \in UpTo(P, x)
    BY DEF UpTo
  <2>2. IsFiniteSet(UpTo(P, x)) /\ Cardinality(UpTo(P, x)) <= Cardinality(P)
    BY <2>1, FS_Subset
  <2>3. Cardinality(UpTo(P, x)) \in Nat /\ Cardinality(UpTo(P, x)) # 0
    BY <2>1, <2>2, FS_CardinalityType, FS_EmptySet
  <2> QED
    BY <1>1, <2>2, <2>3
<1>3. ASSUME NEW x \in P, NEW y \in P, x < y
      PROVE  Cardinality(UpTo(P, x)) < Cardinality(UpTo(P, y))
  <2>1. /\ UpTo(P, x) \in SUBSET UpTo(P, y)
        /\ y \in UpTo(P, y) /\ y \notin UpTo(P, x)
    <3>1. x \in Nat /\ y \in Nat
      OBVIOUS
    <3>2. ASSUME NEW z \in UpTo(P, x) PROVE z \in UpTo(P, y)
      <4>1. z \in P /\ z \in Nat /\ z <= x
        BY DEF UpTo
      <4> QED
        BY <1>3, <3>1, <4>1 DEF UpTo
    <3>3. y \in UpTo(P, y)
      BY <3>1 DEF UpTo
    <3>4. y \notin UpTo(P, x)
      BY <1>3, <3>1 DEF UpTo
    <3> QED
      BY <3>2, <3>3, <3>4
  <2>2. /\ Cardinality(UpTo(P, x)) <= Cardinality(UpTo(P, y))
        /\ Cardinality(UpTo(P, x)) # Cardinality(UpTo(P, y))
    BY <1>2, <2>1, FS_Subset
  <2> QED
    BY <1>1, <1>2, <2>2
<1> QED
  BY <1>2, <1>3 DEF Rank

LEMMA RankOnto ==
  ASSUME NEW P \in SUBSET Nat, IsFiniteSet(P), NEW i \in 1..Cardinality(P)
  PROVE  \E x \in P : Rank(P)[x] = i
<1> DEFINE c == Cardinality(P)
<1>1. c \in Nat
  BY FS_CardinalityType
<1>2. IsFiniteSet(1..c) /\ Cardinality(1..c) = c
  BY <1>1, FS_Interval
<1>3. Rank(P) \in [P -> 1..c] /\ \A x, y \in P : Rank(P)[x] = Rank(P)[y] => x = y
  <2>1. Rank(P) \in [P -> 1..c] /\ \A x, y \in P : x < y => Rank(P)[x] < Rank(P)[y]
    BY RankIncreases
  <2>2. ASSUME NEW x \in P, NEW y \in P, Rank(P)[x] = Rank(P)[y] PROVE x = y
    <3>1. Rank(P)[x] \in Int /\ Rank(P)[y] \in Int
      BY <1>1, <2>1
    <3>2. ~(x < y) /\ ~(y < x)
      BY <2>1, <2>2, <3>1
    <3> QED
      BY <3>2
  <2> QED
    BY <2>1, <2>2
<1>4. Rank(P) \in Injection(P, 1..c)
  BY <1>3, Fun_IsInj
<1>5. Rank(P) \in Surjection(P, 1..c)
  BY <1>2, <1>4, FS_Injection
<1> QED
  BY <1>5 DEF Surjection

LEMMA AscendingExists ==
  ASSUME NEW P \in SUBSET Nat, IsFiniteSet(P)
  PROVE  \E f : IsAscending(f, P)
<1> DEFINE c == Cardinality(P)
           f == [i \in 1..c |-> CHOOSE x \in P : Rank(P)[x] = i]
<1>1. ASSUME NEW i \in 1..c PROVE f[i] \in P /\ Rank(P)[f[i]] = i
  BY RankOnto
<1>2. f \in [1..c -> P]
  BY <1>1
<1> HIDE DEF f
<1>3. ASSUME NEW i \in 1..c, NEW j \in 1..c, i < j PROVE f[i] < f[j]
  <2>1. f[i] \in Nat /\ f[j] \in Nat
    BY <1>1
  <2>2. f[i] # f[j]
    BY <1>1, <1>3
  <2>3. ~(f[j] < f[i])
    <3>1. f[j] < f[i] => j < i
      BY <1>1, RankIncreases
    <3> QED
      BY <1>3, <3>1
  <2> QED
    BY <2>1, <2>2, <2>3
<1> QED
  BY <1>2, <1>3 DEF IsAscending

\* What the pool uses of it: every position occurs, once, and in order.
LEMMA AscendingFacts ==
  ASSUME NEW P \in SUBSET Nat, IsFiniteSet(P)
  PROVE  /\ Cardinality(P) \in Nat
         /\ Ascending(P) \in [1..Cardinality(P) -> P]
         /\ \A i, j \in 1..Cardinality(P) :
              i < j <=> Ascending(P)[i] < Ascending(P)[j]
         /\ \A p \in P : \E i \in 1..Cardinality(P) : Ascending(P)[i] = p
<1> DEFINE c == Cardinality(P)
           f == Ascending(P)
<1>1. c \in Nat
  BY FS_CardinalityType
<1>2. f \in [1..c -> P] /\ \A i, j \in 1..c : i < j => f[i] < f[j]
  BY AscendingExists DEF IsAscending, Ascending
<1> HIDE DEF f
<1>3. ASSUME NEW i \in 1..c, NEW j \in 1..c, f[i] < f[j] PROVE i < j
  <2>1. f[i] \in Nat /\ f[j] \in Nat
    BY <1>2
  <2>2. i # j /\ ~(j < i)
    BY <1>2, <1>3, <2>1
  <2> QED
    BY <1>1, <2>2
<1>4. f \in Injection(1..c, P)
  <2>1. ASSUME NEW i \in 1..c, NEW j \in 1..c, f[i] = f[j] PROVE i = j
    <3>1. f[i] \in Nat /\ f[j] \in Nat
      BY <1>2
    <3>2. ~(i < j) /\ ~(j < i)
      BY <1>2, <2>1, <3>1
    <3> QED
      BY <1>1, <3>2
  <2> QED
    BY <1>2, <2>1, Fun_IsInj
<1>5. IsFiniteSet(1..c) /\ Cardinality(1..c) = c
  BY <1>1, FS_Interval
<1>6. f \in Surjection(1..c, P)
  BY <1>4, <1>5, FS_Injection
<1>7. \A p \in P : \E i \in 1..c : f[i] = p
  BY <1>6 DEF Surjection
<1> QED
  BY <1>1, <1>2, <1>3, <1>7 DEF f

-----------------------------------------------------------------------------
(***************************************************************************)
(* The lists that the pool takes out of a queue.                           *)
(***************************************************************************)
Distinct(s) == \A i, j \in DOMAIN s : s[i] = s[j] => i = j

LEMMA KeepFacts ==
  ASSUME NEW S, NEW s \in Seq(S), NEW P \in SUBSET DOMAIN s
  PROVE  /\ Keep(s, P) \in Seq(S)
         /\ Len(Keep(s, P)) = Cardinality(P)
         /\ \A i \in DOMAIN Keep(s, P) :
              Ascending(P)[i] \in P /\ Keep(s, P)[i] = s[Ascending(P)[i]]
         /\ \A i, j \in DOMAIN Keep(s, P) :
              i < j <=> Ascending(P)[i] < Ascending(P)[j]
         /\ \A p \in P : \E i \in DOMAIN Keep(s, P) : Ascending(P)[i] = p
<1>1. P \in SUBSET Nat /\ IsFiniteSet(P)
  <2>1. Len(s) \in Nat /\ P \subseteq 1..Len(s)
    OBVIOUS
  <2>2. IsFiniteSet(1..Len(s))
    BY <2>1, FS_Interval
  <2> QED
    BY <2>1, <2>2, FS_Subset
<1> DEFINE c == Cardinality(P)
           f == Ascending(P)
<1>2. /\ c \in Nat /\ f \in [1..c -> P]
      /\ \A i, j \in 1..c : i < j <=> f[i] < f[j]
      /\ \A p \in P : \E i \in 1..c : f[i] = p
  BY <1>1, AscendingFacts
<1>3. Keep(s, P) = [i \in 1..c |-> s[f[i]]]
  BY DEF Keep
<1> HIDE DEF f, c
<1>4. \A i \in 1..c : f[i] \in P /\ s[f[i]] \in S
  BY <1>2
<1>5. Keep(s, P) \in [1..c -> S]
  BY <1>3, <1>4
<1>6. Keep(s, P) \in Seq(S) /\ DOMAIN Keep(s, P) = 1..c /\ Len(Keep(s, P)) = c
  BY <1>2, <1>5
<1>7. \A i \in 1..c : f[i] \in P /\ Keep(s, P)[i] = s[f[i]]
  BY <1>3, <1>4
<1> QED
  BY <1>2, <1>6, <1>7 DEF f, c

\* What is kept are the chosen slots; a choice without repetition stays one.
LEMMA KeepElements ==
  ASSUME NEW S, NEW s \in Seq(S), NEW P \in SUBSET DOMAIN s
  PROVE  /\ \A i \in DOMAIN Keep(s, P) : \E p \in P : Keep(s, P)[i] = s[p]
         /\ \A p \in P : \E i \in DOMAIN Keep(s, P) : Keep(s, P)[i] = s[p]
BY KeepFacts

LEMMA KeepDistinct ==
  ASSUME NEW S, NEW s \in Seq(S), NEW P \in SUBSET DOMAIN s,
         \A i, j \in P : s[i] = s[j] => i = j
  PROVE  Distinct(Keep(s, P))
<1> DEFINE f == Ascending(P)
<1> SUFFICES ASSUME NEW i \in DOMAIN Keep(s, P), NEW j \in DOMAIN Keep(s, P),
                    Keep(s, P)[i] = Keep(s, P)[j]
             PROVE  i = j
  BY DEF Distinct
<1>1. f[i] \in P /\ f[j] \in P /\ f[i] = f[j]
  BY KeepFacts
<1>2. f[i] \in Int /\ i \in Int /\ j \in Int
  <2>1. DOMAIN s \subseteq Int /\ Keep(s, P) \in Seq(S)
    BY KeepFacts
  <2> QED
    BY <1>1, <2>1
<1>3. ~(i < j) /\ ~(j < i)
  BY <1>1, <1>2, KeepFacts
<1> QED
  BY <1>2, <1>3

LEMMA LimitFacts ==
  ASSUME NEW S, NEW s \in Seq(S), NEW n \in Nat
  PROVE  /\ Limit(s, n) \in Seq(S)
         /\ Len(Limit(s, n)) <= n
         /\ Len(Limit(s, n)) <= Len(s)
         /\ \A i \in DOMAIN Limit(s, n) : i \in DOMAIN s /\ Limit(s, n)[i] = s[i]
         /\ Distinct(s) => Distinct(Limit(s, n))
<1> DEFINE m == IF Len(s) <= n THEN Len(s) ELSE n
           l == SubSeq(s, 1, m)
<1>1. m \in Nat /\ m <= n /\ m <= Len(s) /\ Len(s) \in Nat
  OBVIOUS
<1>2. Limit(s, n) = l
  BY DEF Limit
<1> HIDE DEF m
<1>3. \A i \in 1..m : s[i] \in S
  BY <1>1
<1>4. l \in Seq(S) /\ Len(l) = m /\ \A i \in 1..m : l[i] = s[i]
  BY <1>1, <1>3, SubSeqProperties
<1> HIDE DEF l
<1>5. DOMAIN l = 1..m /\ \A i \in DOMAIN l : i \in DOMAIN s /\ l[i] = s[i]
  BY <1>1, <1>4
<1>6. Distinct(s) => Distinct(l)
  BY <1>5 DEF Distinct
<1> QED
  BY <1>1, <1>2, <1>4, <1>5, <1>6

-----------------------------------------------------------------------------
(***************************************************************************)
(* A slot that is not empty belongs to a member, and a member has a slot.  *)
(***************************************************************************)
LEMMA SlotOfMember ==
  ASSUME NEW q, QueueOK(q), NEW t \in Members(q)
  PROVE  /\ q.index[t] \in Nat
         /\ q.index[t] + 1 \in Live(q.transactions)
         /\ q.transactions[q.index[t] + 1] = t
<1>1. t \in Tx /\ q.index[t] # Undefined
  BY DEF Members
<1>2. /\ Len(q.transactions) \in Nat
      /\ q.index[t] \in 0..(Len(q.transactions) - 1)
      /\ q.transactions[q.index[t] + 1] = t
  BY <1>1 DEF QueueOK
<1>3. q.index[t] + 1 \in DOMAIN q.transactions
  BY <1>2 DEF QueueOK
<1> QED
  BY <1>1, <1>2, <1>3, HoleAssumption DEF Live

LEMMA MemberOfSlot ==
  ASSUME NEW q, QueueOK(q), NEW i \in Live(q.transactions)
  PROVE  /\ i \in 1..Len(q.transactions)
         /\ q.transactions[i] \in Members(q)
         /\ q.index[q.transactions[i]] = i - 1
<1>1. i \in 1..Len(q.transactions) /\ q.transactions[i] # Hole
  BY DEF Live, QueueOK
<1>2. q.transactions[i] \in Tx /\ q.index[q.transactions[i]] = i - 1
  BY <1>1 DEF QueueOK
<1>3. q.index[q.transactions[i]] # Undefined
  BY <1>1, <1>2 DEF Undefined
<1> QED
  BY <1>1, <1>2, <1>3 DEF Members

\* A queue without holes lists its members, each once.
LEMMA WithoutFacts ==
  ASSUME NEW q, QueueOK(q)
  PROVE  /\ Without(q.transactions) \in Seq(Members(q))
         /\ Distinct(Without(q.transactions))
<1> DEFINE s == q.transactions
           P == Live(s)
<1>1. s \in Seq(Tx \cup {Hole}) /\ P \in SUBSET DOMAIN s
  BY DEF QueueOK, Live
<1>2. \A i, j \in P : s[i] = s[j] => i = j
  <2>1. ASSUME NEW i \in P PROVE i \in Int /\ q.index[s[i]] = i - 1
    BY MemberOfSlot
  <2> QED
    BY <2>1
<1>3. Distinct(Keep(s, P))
  BY <1>1, <1>2, KeepDistinct
<1>4. Keep(s, P) \in Seq(Tx \cup {Hole})
  BY <1>1, KeepFacts
<1>5. \A i \in DOMAIN Keep(s, P) : Keep(s, P)[i] \in Members(q)
  BY <1>1, KeepElements, MemberOfSlot
<1>6. Keep(s, P) \in Seq(Members(q))
  BY <1>4, <1>5
<1> QED
  BY <1>3, <1>6 DEF Without

LEMMA NewestFacts ==
  ASSUME NEW q, QueueOK(q)
  PROVE  /\ Newest(q) \in Seq(Members(q))
         /\ Distinct(Newest(q))
<1> DEFINE all == Without(q.transactions)
           n == Len(all)
<1>1. all \in Seq(Members(q)) /\ Distinct(all) /\ n \in Nat /\ DOMAIN all = 1..n
  BY WithoutFacts
<1>2. Newest(q) = [i \in 1..n |-> all[n + 1 - i]]
  BY <1>1 DEF Newest
<1> HIDE DEF all
<1>3. \A i \in 1..n : n + 1 - i \in 1..n /\ all[n + 1 - i] \in Members(q)
  BY <1>1
<1>4. Newest(q) \in [1..n -> Members(q)]
  BY <1>2, <1>3
<1>5. \A i, j \in 1..n : all[n + 1 - i] = all[n + 1 - j] => i = j
  BY <1>1, <1>3 DEF Distinct
<1>6. Distinct(Newest(q))
  BY <1>2, <1>5 DEF Distinct
<1> QED
  BY <1>1, <1>4, <1>6

-----------------------------------------------------------------------------
(***************************************************************************)
(* What each operation of a queue does to its members, to their order and  *)
(* to the agreement of index and array.                                    *)
(***************************************************************************)
LEMMA IndexOfOnly ==
  ASSUME NEW s, NEW t, NEW i \in DOMAIN s, DOMAIN s \subseteq Int, s[i] = t,
         \A j \in DOMAIN s : s[j] = t => j = i
  PROVE  IndexOf(s, t) = i - 1
<1>1. \E k \in DOMAIN s : s[k] = t /\ \A j \in DOMAIN s : s[j] = t => k <= j
  <2>1. \A j \in DOMAIN s : s[j] = t => i <= j
    OBVIOUS
  <2> QED
    BY <2>1
<1>2. (CHOOSE k \in DOMAIN s : s[k] = t /\ \A j \in DOMAIN s : s[j] = t => k <= j) = i
  BY <1>1
<1> QED
  BY <1>2 DEF IndexOf

LEMMA EmptyFacts ==
  /\ QueueOK(EmptyQueue)
  /\ Members(EmptyQueue) = {}
<1>1. EmptyQueue.transactions = <<>> /\ EmptyQueue.index = [t \in Tx |-> Undefined]
  BY DEF EmptyQueue
<1>2. EmptyQueue = [transactions |-> EmptyQueue.transactions, index |-> EmptyQueue.index]
  BY DEF EmptyQueue
<1>3. Undefined \in Int
  BY DEF Undefined
<1> QED
  BY <1>1, <1>2, <1>3 DEF QueueOK, Members

LEMMA PushFacts ==
  ASSUME NEW q, QueueOK(q), NEW t \in Tx
  PROVE  /\ QueueOK(Push(q, t))
         /\ Members(Push(q, t)) = Members(q) \cup {t}
         /\ KeepsOrder(q, Push(q, t))
<1>1. CASE q.index[t] # Undefined
  <2>1. Push(q, t) = q /\ t \in Members(q)
    BY <1>1 DEF Push, Members
  <2> QED
    BY <2>1 DEF KeepsOrder
<1>2. CASE q.index[t] = Undefined
  <2> DEFINE s == q.transactions
             n == Len(s)
             r == Append(s, t)
             ix == [q.index EXCEPT ![t] = n]
  <2>1. s \in Seq(Tx \cup {Hole}) /\ n \in Nat /\ q.index \in [Tx -> Int]
    BY DEF QueueOK
  <2>2. /\ r \in Seq(Tx \cup {Hole}) /\ Len(r) = n + 1 /\ DOMAIN r = 1..(n + 1)
        /\ \A i \in 1..n : r[i] = s[i]
        /\ r[n + 1] = t
    BY <2>1, AppendProperties
  <2>3. \A i \in 1..n : s[i] # t
    <3>1. ASSUME NEW i \in 1..n, s[i] = t PROVE FALSE
      <4>1. q.index[t] = i - 1
        BY <3>1, HoleAssumption DEF QueueOK
      <4> QED
        BY <1>2, <2>1, <4>1 DEF Undefined
    <3> QED
      BY <3>1
  <2>4. IndexOf(r, t) = n
    <3>1. n + 1 \in DOMAIN r /\ DOMAIN r \subseteq Int
      BY <2>1, <2>2
    <3>2. \A j \in DOMAIN r : r[j] = t => j = n + 1
      BY <2>1, <2>2, <2>3
    <3>3. IndexOf(r, t) = (n + 1) - 1
      BY <2>2, <3>1, <3>2, IndexOfOnly
    <3> QED
      BY <2>1, <3>3
  <2>5. Push(q, t) = [transactions |-> r, index |-> ix]
    BY <1>2, <2>4 DEF Push
  <2>6. ix \in [Tx -> Int] /\ ix[t] = n /\ \A u \in Tx : u # t => ix[u] = q.index[u]
    BY <2>1
  <2> HIDE DEF r, ix
  <2>7. ASSUME NEW u \in Tx, ix[u] # Undefined
        PROVE  ix[u] \in 0..n /\ r[ix[u] + 1] = u
    <3>1. CASE u = t
      BY <2>1, <2>2, <2>6, <3>1
    <3>2. CASE u # t
      <4>1. ix[u] \in 0..(n - 1) /\ s[ix[u] + 1] = u
        BY <2>6, <2>7, <3>2 DEF QueueOK
      <4>2. ix[u] \in 0..n /\ ix[u] + 1 \in 1..n
        BY <2>1, <4>1
      <4>3. r[ix[u] + 1] = s[ix[u] + 1]
        BY <2>2, <4>2
      <4> QED
        BY <4>1, <4>2, <4>3
    <3> QED
      BY <3>1, <3>2
  <2>8. ASSUME NEW i \in 1..(n + 1), r[i] # Hole
        PROVE  ix[r[i]] = i - 1
    <3>1. CASE i = n + 1
      BY <2>1, <2>2, <2>6, <3>1
    <3>2. CASE i \in 1..n
      <4>1. r[i] = s[i] /\ r[i] \in Tx /\ r[i] # t
        BY <2>1, <2>2, <2>3, <2>8, <3>2
      <4>2. q.index[s[i]] = i - 1
        BY <2>8, <3>2, <4>1 DEF QueueOK
      <4> QED
        BY <2>6, <4>1, <4>2
    <3> QED
      BY <2>1, <3>1, <3>2
  <2>9. QueueOK(Push(q, t))
    BY <2>1, <2>2, <2>5, <2>6, <2>7, <2>8 DEF QueueOK
  <2>10. Members(Push(q, t)) = Members(q) \cup {t}
    BY <2>1, <2>5, <2>6 DEF Members, Undefined
  <2>11. \A u \in Members(q) : u \in Tx /\ u # t
    BY <1>2 DEF Members
  <2>12. KeepsOrder(q, Push(q, t))
    BY <2>5, <2>6, <2>11 DEF KeepsOrder
  <2> QED
    BY <2>9, <2>10, <2>12
<1> QED
  BY <1>1, <1>2

LEMMA DropFacts ==
  ASSUME NEW q, QueueOK(q), NEW S \in SUBSET Tx
  PROVE  /\ QueueOK(DropAll(q, S))
         /\ Members(DropAll(q, S)) = Members(q) \ S
         /\ KeepsOrder(q, DropAll(q, S))
<1> DEFINE s == q.transactions
           n == Len(s)
           gone == {q.index[t] + 1 : t \in S \cap Members(q)}
           r == [i \in 1..n |-> IF i \in gone THEN Hole ELSE s[i]]
           ix == [t \in Tx |-> IF t \in S THEN Undefined ELSE q.index[t]]
<1>1. /\ s \in Seq(Tx \cup {Hole}) /\ n \in Nat /\ DOMAIN s = 1..n
      /\ q.index \in [Tx -> Int]
  BY DEF QueueOK
<1>2. DropAll(q, S) = [transactions |-> r, index |-> ix]
  BY <1>1 DEF DropAll
<1>3. r \in [1..n -> Tx \cup {Hole}] /\ \A i \in 1..n : r[i] = IF i \in gone THEN Hole ELSE s[i]
  BY <1>1
<1>4. r \in Seq(Tx \cup {Hole}) /\ Len(r) = n
  BY <1>1, <1>3
<1>5. ix \in [Tx -> Int] /\ \A t \in Tx : ix[t] = IF t \in S THEN Undefined ELSE q.index[t]
  BY <1>1 DEF Undefined
<1>6. \A i \in gone : i \in 1..n /\ s[i] \in S
  <2>1. ASSUME NEW t \in S \cap Members(q)
        PROVE  q.index[t] + 1 \in 1..n /\ s[q.index[t] + 1] = t
    BY SlotOfMember, <1>1 DEF Live
  <2> QED
    BY <2>1
<1>7. \A t \in S \cap Members(q) : q.index[t] + 1 \in gone
  OBVIOUS
<1> HIDE DEF r, ix, gone
<1>8. ASSUME NEW t \in Tx, ix[t] # Undefined
      PROVE  ix[t] \in 0..(n - 1) /\ r[ix[t] + 1] = t
  <2>1. t \notin S /\ ix[t] = q.index[t]
    BY <1>5, <1>8
  <2>2. ix[t] \in 0..(n - 1) /\ s[ix[t] + 1] = t
    BY <1>8, <2>1 DEF QueueOK
  <2>3. ix[t] + 1 \in 1..n /\ ix[t] + 1 \notin gone
    BY <1>1, <1>6, <2>1, <2>2
  <2> QED
    BY <1>3, <2>2, <2>3
<1>9. ASSUME NEW i \in 1..n, r[i] # Hole
      PROVE  ix[r[i]] = i - 1
  <2>1. i \notin gone /\ r[i] = s[i]
    BY <1>3, <1>9
  <2>2. i \in Live(s)
    BY <1>1, <1>9, <2>1 DEF Live
  <2>3. s[i] \in Members(q) /\ s[i] \in Tx /\ q.index[s[i]] = i - 1
    BY <2>2, MemberOfSlot DEF Members
  <2>4. s[i] \notin S
    BY <1>1, <1>7, <2>1, <2>3
  <2> QED
    BY <1>5, <2>1, <2>3, <2>4
<1>10. QueueOK(DropAll(q, S))
  BY <1>2, <1>4, <1>5, <1>8, <1>9 DEF QueueOK
<1>11. Members(DropAll(q, S)) = Members(q) \ S
  BY <1>2, <1>5 DEF Members
<1>12. KeepsOrder(q, DropAll(q, S))
  BY <1>2, <1>5, <1>11 DEF KeepsOrder, Members
<1> QED
  BY <1>10, <1>11, <1>12

LEMMA PushAllFacts ==
  ASSUME NEW q, QueueOK(q), NEW list \in Seq(Tx), Distinct(list)
  PROVE  /\ QueueOK(PushAll(q, list))
         /\ Members(PushAll(q, list)) = Members(q) \cup {list[i] : i \in DOMAIN list}
         /\ KeepsOrder(q, PushAll(q, list))
<1> DEFINE s == q.transactions
           n == Len(s)
           P == {i \in DOMAIN list : q.index[list[i]] = Undefined}
           new == Keep(list, P)
           m == Len(new)
           r == s \o new
           ix == [t \in Tx |-> IF \E i \in DOMAIN new : new[i] = t
                               THEN IndexOf(r, t) ELSE q.index[t]]
<1>1. /\ s \in Seq(Tx \cup {Hole}) /\ n \in Nat /\ DOMAIN s = 1..n
      /\ q.index \in [Tx -> Int]
  BY DEF QueueOK
<1>2. PushAll(q, list) = [transactions |-> r, index |-> ix]
  BY DEF PushAll
<1>3. P \in SUBSET DOMAIN list /\ \A i, j \in P : list[i] = list[j] => i = j
  BY DEF Distinct
<1>4. new \in Seq(Tx) /\ m \in Nat /\ DOMAIN new = 1..m
  <2>1. new \in Seq(Tx)
    BY <1>3, KeepFacts
  <2> QED
    BY <2>1
<1>5. Distinct(new)
  BY <1>3, KeepDistinct
<1>6. \A i \in 1..m : new[i] \in Tx /\ q.index[new[i]] = Undefined
                     /\ \E p \in DOMAIN list : new[i] = list[p]
  <2>1. ASSUME NEW i \in 1..m PROVE \E p \in P : new[i] = list[p]
    BY <1>3, <1>4, KeepElements
  <2> QED
    BY <1>4, <2>1
<1>7. ASSUME NEW p \in DOMAIN list, q.index[list[p]] = Undefined
      PROVE  \E i \in 1..m : new[i] = list[p]
  <2>1. p \in P
    BY <1>7
  <2>2. \A k \in P : \E i \in DOMAIN new : new[i] = list[k]
    BY <1>3, KeepElements
  <2> QED
    BY <1>4, <2>1, <2>2
<1> HIDE DEF new, P
<1>8. new \in Seq(Tx \cup {Hole})
  BY <1>4
<1>9. /\ r \in Seq(Tx \cup {Hole}) /\ Len(r) = n + m
      /\ \A i \in 1..(n + m) : r[i] = IF i <= n THEN s[i] ELSE new[i - n]
  BY <1>1, <1>8, ConcatProperties
<1>10. DOMAIN r = 1..(n + m)
  BY <1>1, <1>4, <1>9
<1> HIDE DEF r, m
\* A transaction that is pushed is in one slot only.
<1>11. ASSUME NEW i \in 1..m
       PROVE  IndexOf(r, new[i]) = n + i - 1 /\ r[n + i] = new[i]
  <2>1. n + i \in 1..(n + m) /\ ~(n + i <= n) /\ (n + i) - n = i
    BY <1>1, <1>4
  <2>2. r[n + i] = new[i]
    BY <1>9, <2>1
  <2>3. ASSUME NEW j \in 1..(n + m), r[j] = new[i] PROVE j = n + i
    <3>1. CASE j <= n
      <4>1. j \in 1..n /\ s[j] = new[i] /\ s[j] # Hole
        BY <1>1, <1>4, <1>6, <1>9, <2>3, <3>1, HoleAssumption
      <4>2. q.index[new[i]] = j - 1
        BY <4>1 DEF QueueOK
      <4> QED
        BY <1>6, <4>1, <4>2 DEF Undefined
    <3>2. CASE ~(j <= n)
      <4>1. j - n \in 1..m /\ new[j - n] = new[i]
        BY <1>1, <1>4, <1>9, <2>3, <3>2
      <4>2. j - n = i
        BY <1>4, <1>5, <4>1 DEF Distinct
      <4> QED
        BY <1>1, <1>4, <4>2
    <3> QED
      BY <3>1, <3>2
  <2> DEFINE k == n + i
  <2>4. /\ k \in DOMAIN r /\ DOMAIN r \subseteq Int /\ r[k] = new[i]
        /\ \A j \in DOMAIN r : r[j] = new[i] => j = k
    BY <1>10, <2>1, <2>2, <2>3
  <2> HIDE DEF k
  <2>5. IndexOf(r, new[i]) = k - 1
    BY <2>4, IndexOfOnly
  <2> QED
    BY <2>2, <2>5 DEF k
<1>12. \A i \in 1..m : ix[new[i]] = n + i - 1
  BY <1>4, <1>6, <1>11
<1>13. \A t \in Tx : (\A i \in 1..m : new[i] # t) => ix[t] = q.index[t]
  BY <1>4
<1>14. ix \in [Tx -> Int]
  <2>1. ASSUME NEW t \in Tx PROVE ix[t] \in Int
    <3> HIDE DEF ix
    <3>1. CASE \E i \in 1..m : new[i] = t
      BY <1>1, <1>4, <1>12, <3>1
    <3>2. CASE \A i \in 1..m : new[i] # t
      BY <1>1, <1>13, <3>2
    <3> QED
      BY <3>1, <3>2
  <2>2. ix = [t \in Tx |-> ix[t]]
    OBVIOUS
  <2> HIDE DEF ix
  <2> QED
    BY <2>1, <2>2
<1> HIDE DEF ix
<1>15. ASSUME NEW t \in Tx, ix[t] # Undefined
       PROVE  ix[t] \in 0..((n + m) - 1) /\ r[ix[t] + 1] = t
  <2>1. CASE \E i \in 1..m : new[i] = t
    <3>1. PICK i \in 1..m : new[i] = t
      BY <2>1
    <3>2. ix[t] = n + i - 1 /\ r[n + i] = t
      BY <1>11, <1>12, <3>1
    <3> QED
      BY <1>1, <1>4, <3>2
  <2>2. CASE \A i \in 1..m : new[i] # t
    <3>1. ix[t] = q.index[t]
      BY <1>13, <2>2
    <3>2. ix[t] \in 0..(n - 1) /\ s[ix[t] + 1] = t
      BY <1>15, <3>1 DEF QueueOK
    <3>3. ix[t] + 1 \in 1..(n + m) /\ ix[t] + 1 <= n
      BY <1>1, <1>4, <3>2
    <3> QED
      BY <1>1, <1>4, <1>9, <3>2, <3>3
  <2> QED
    BY <2>1, <2>2
<1>16. ASSUME NEW i \in 1..(n + m), r[i] # Hole
       PROVE  ix[r[i]] = i - 1
  <2>1. CASE i <= n
    <3>1. i \in 1..n /\ r[i] = s[i]
      BY <1>1, <1>4, <1>9, <2>1
    <3>2. r[i] \in Tx /\ q.index[r[i]] = i - 1
      BY <1>1, <1>16, <3>1 DEF QueueOK
    <3>3. \A j \in 1..m : new[j] # r[i]
      BY <1>6, <3>1, <3>2 DEF Undefined
    <3> QED
      BY <1>13, <3>2, <3>3
  <2>2. CASE ~(i <= n)
    <3>1. i - n \in 1..m /\ r[i] = new[i - n]
      BY <1>1, <1>4, <1>9, <2>2
    <3>2. ix[r[i]] = n + (i - n) - 1
      BY <1>12, <3>1
    <3> QED
      BY <1>1, <1>4, <3>2
  <2> QED
    BY <2>1, <2>2
<1>17. QueueOK(PushAll(q, list))
  BY <1>2, <1>9, <1>14, <1>15, <1>16 DEF QueueOK
<1>18. ASSUME NEW t \in Tx
       PROVE  ix[t] # Undefined <=>
                t \in Members(q) \/ \E p \in DOMAIN list : list[p] = t
  <2>1. CASE \E i \in 1..m : new[i] = t
    <3>1. PICK i \in 1..m : new[i] = t
      BY <2>1
    <3>2. ix[t] # Undefined
      BY <1>1, <1>4, <1>12, <3>1 DEF Undefined
    <3> QED
      BY <1>6, <3>1, <3>2
  <2>2. CASE \A i \in 1..m : new[i] # t
    <3>1. ix[t] = q.index[t]
      BY <1>13, <2>2
    <3>2. \A p \in DOMAIN list : list[p] = t => q.index[t] # Undefined
      BY <1>7, <2>2
    <3> QED
      BY <3>1, <3>2 DEF Members
  <2> QED
    BY <2>1, <2>2
<1>19. Members(PushAll(q, list)) = Members(q) \cup {list[i] : i \in DOMAIN list}
  <2>1. Members(PushAll(q, list)) = {t \in Tx : ix[t] # Undefined}
    BY <1>2 DEF Members
  <2>2. Members(q) \subseteq Tx /\ \A i \in DOMAIN list : list[i] \in Tx
    BY DEF Members
  <2> QED
    BY <1>18, <2>1, <2>2
<1>20. KeepsOrder(q, PushAll(q, list))
  <2>1. ASSUME NEW t \in Members(q) PROVE ix[t] = q.index[t]
    <3>1. t \in Tx /\ q.index[t] # Undefined
      BY DEF Members
    <3> QED
      BY <1>6, <1>13, <3>1
  <2> QED
    BY <1>2, <2>1 DEF KeepsOrder
<1> QED
  BY <1>17, <1>19, <1>20

\* The compaction keeps the members and their order.
LEMMA ReindexFacts ==
  ASSUME NEW q, QueueOK(q)
  PROVE  /\ QueueOK(Reindex(q))
         /\ Members(Reindex(q)) = Members(q)
         /\ KeepsOrder(q, Reindex(q))
<1> DEFINE s == q.transactions
           P == Live(s)
           f == Ascending(P)
           kept == Without(s)
           m == Len(kept)
           ix == [t \in Tx |-> IF \E i \in DOMAIN kept : kept[i] = t
                               THEN IndexOf(kept, t) ELSE Undefined]
<1>1. s \in Seq(Tx \cup {Hole}) /\ P \in SUBSET DOMAIN s
  BY DEF QueueOK, Live
<1>2. kept = Keep(s, P)
  BY DEF Without
<1>3. /\ kept \in Seq(Members(q)) /\ Distinct(kept)
      /\ m \in Nat /\ DOMAIN kept = 1..m
  BY WithoutFacts
<1>4. Members(q) \subseteq Tx
  BY DEF Members
<1>5. Reindex(q) = [transactions |-> kept, index |-> ix]
  BY DEF Reindex
<1>6. /\ \A i \in 1..m : f[i] \in P /\ kept[i] = s[f[i]]
      /\ \A i, j \in 1..m : i < j <=> f[i] < f[j]
      /\ \A p \in P : \E i \in 1..m : f[i] = p
  <2> HIDE DEF kept, m, P
  <2>1. DOMAIN Keep(s, P) = 1..m
    BY <1>2, <1>3
  <2>2. /\ \A i \in DOMAIN Keep(s, P) :
             Ascending(P)[i] \in P /\ Keep(s, P)[i] = s[Ascending(P)[i]]
        /\ \A i, j \in DOMAIN Keep(s, P) : i < j <=> Ascending(P)[i] < Ascending(P)[j]
        /\ \A p \in P : \E i \in DOMAIN Keep(s, P) : Ascending(P)[i] = p
    BY <1>1, KeepFacts
  <2>3. f = Ascending(P)
    OBVIOUS
  <2> HIDE DEF f
  <2> QED
    BY <1>2, <2>1, <2>2, <2>3
<1> HIDE DEF kept, m, f, P
<1>7. ASSUME NEW i \in 1..m PROVE kept[i] \in Members(q) /\ kept[i] \in Tx /\ kept[i] # Hole
  BY <1>3, <1>4, HoleAssumption
<1>8. ASSUME NEW i \in 1..m PROVE IndexOf(kept, kept[i]) = i - 1
  <2>1. /\ i \in DOMAIN kept /\ DOMAIN kept \subseteq Int
        /\ \A j \in DOMAIN kept : kept[j] = kept[i] => j = i
    BY <1>3 DEF Distinct
  <2> QED
    BY <2>1, IndexOfOnly
<1>9. \A i \in 1..m : ix[kept[i]] = i - 1
  BY <1>3, <1>7, <1>8
<1>10. \A t \in Tx : (\A i \in 1..m : kept[i] # t) => ix[t] = Undefined
  BY <1>3
<1>11. ix = [t \in Tx |-> ix[t]]
  OBVIOUS
<1> HIDE DEF ix
\* A member of the queue is in the new array, as far behind as before.
<1>12. ASSUME NEW t \in Members(q)
       PROVE  \E i \in 1..m : kept[i] = t /\ ix[t] = i - 1 /\ f[i] = q.index[t] + 1
  <2>1. q.index[t] + 1 \in P /\ s[q.index[t] + 1] = t
    BY SlotOfMember DEF P
  <2>2. PICK i \in 1..m : f[i] = q.index[t] + 1
    BY <1>6, <2>1
  <2>3. kept[i] = t
    BY <1>6, <2>1, <2>2
  <2> QED
    BY <1>9, <2>2, <2>3
<1>13. ASSUME NEW t \in Tx
       PROVE  /\ t \in Members(q) => ix[t] \in 0..(m - 1) /\ kept[ix[t] + 1] = t
              /\ t \notin Members(q) => ix[t] = Undefined
  <2>1. ASSUME t \in Members(q) PROVE ix[t] \in 0..(m - 1) /\ kept[ix[t] + 1] = t
    <3>1. PICK i \in 1..m : kept[i] = t /\ ix[t] = i - 1
      BY <1>12, <2>1
    <3> QED
      BY <1>3, <3>1
  <2>2. ASSUME t \notin Members(q) PROVE ix[t] = Undefined
    BY <1>7, <1>10, <2>2
  <2> QED
    BY <2>1, <2>2
<1>14. ix \in [Tx -> Int]
  <2>1. \A t \in Tx : ix[t] \in Int
    BY <1>3, <1>13 DEF Undefined
  <2> QED
    BY <1>11, <2>1
<1>15. kept \in Seq(Tx \cup {Hole})
  BY <1>3, <1>4
<1>16. QueueOK(Reindex(q))
  <2>1. \A t \in Tx : ix[t] # Undefined => ix[t] \in 0..(m - 1) /\ kept[ix[t] + 1] = t
    BY <1>13
  <2> QED
    BY <1>5, <1>9, <1>14, <1>15, <2>1 DEF QueueOK, m
<1>17. Members(Reindex(q)) = Members(q)
  <2>1. \A t \in Tx : ix[t] # Undefined <=> t \in Members(q)
    BY <1>3, <1>13 DEF Undefined
  <2>2. Members(Reindex(q)) = {t \in Tx : ix[t] # Undefined}
    BY <1>5 DEF Members
  <2> QED
    BY <1>4, <2>1, <2>2
<1>18. KeepsOrder(q, Reindex(q))
  <2>1. ASSUME NEW t \in Members(q), NEW u \in Members(q), q.index[t] < q.index[u]
        PROVE  ix[t] < ix[u]
    <3>1. PICK i \in 1..m : ix[t] = i - 1 /\ f[i] = q.index[t] + 1
      BY <1>12
    <3>2. PICK j \in 1..m : ix[u] = j - 1 /\ f[j] = q.index[u] + 1
      BY <1>12
    <3>3. q.index[t] \in Nat /\ q.index[u] \in Nat
      BY SlotOfMember
    <3>4. f[i] < f[j]
      BY <2>1, <3>1, <3>2, <3>3
    <3>5. i < j
      BY <1>6, <3>4
    <3> QED
      BY <1>3, <3>1, <3>2, <3>5
  <2> QED
    BY <1>5, <2>1 DEF KeepsOrder
<1> QED
  BY <1>16, <1>17, <1>18

-----------------------------------------------------------------------------
(***************************************************************************)
(* How many members a queue has after an operation.                        *)
(***************************************************************************)
LEMMA CountType ==
  ASSUME NEW q
  PROVE  IsFiniteSet(Members(q)) /\ Count(q) \in Nat
<1>1. Members(q) \in SUBSET Tx
  BY DEF Members
<1>2. IsFiniteSet(Members(q))
  BY <1>1, PoolAssumption, FS_Subset
<1> QED
  BY <1>2, FS_CardinalityType DEF Count

LEMMA CountFewer ==
  ASSUME NEW q, NEW r, Members(r) \subseteq Members(q)
  PROVE  Count(r) <= Count(q)
BY CountType, FS_Subset DEF Count

LEMMA EnqueueFacts ==
  ASSUME NEW q, QueueOK(q), NEW t \in Tx
  PROVE  /\ QueueOK(Enqueue(q, t))
         /\ Members(q) \subseteq Members(Enqueue(q, t))
         /\ Members(Enqueue(q, t)) \subseteq Members(q) \cup {t}
         /\ KeepsOrder(q, Enqueue(q, t))
         /\ Count(q) <= MaxTxsPerQueue => Count(Enqueue(q, t)) <= MaxTxsPerQueue
<1>0. Count(q) \in Nat /\ MaxTxsPerQueue \in Nat
  BY CountType, PoolAssumption
<1>1. CASE Count(q) >= MaxTxsPerQueue
  BY <1>1 DEF Enqueue, KeepsOrder
<1>2. CASE ~(Count(q) >= MaxTxsPerQueue)
  <2>1. Enqueue(q, t) = Push(q, t)
    BY <1>2 DEF Enqueue
  <2>2. Members(Push(q, t)) = Members(q) \cup {t}
    BY PushFacts
  <2>3. Count(Push(q, t)) <= Count(q) + 1
    BY <1>0, <2>2, CountType, FS_AddElement DEF Count
  <2>4. Count(Push(q, t)) \in Nat
    BY CountType
  <2>5. Count(Push(q, t)) <= MaxTxsPerQueue
    BY <1>0, <1>2, <2>3, <2>4
  <2> QED
    BY <2>1, <2>2, <2>5, PushFacts
<1> QED
  BY <1>1, <1>2

LEMMA PushAllCount ==
  ASSUME NEW q, QueueOK(q), NEW list \in Seq(Tx), Distinct(list)
  PROVE  Count(PushAll(q, list)) <= Count(q) + Len(list)
<1> DEFINE n == Len(list)
           A == {list[i] : i \in DOMAIN list}
<1>1. n \in Nat /\ DOMAIN list = 1..n
  OBVIOUS
<1>2. IsFiniteSet(1..n) /\ Cardinality(1..n) = n
  BY <1>1, FS_Interval
<1>3. list \in Surjection(1..n, A)
  <2>1. list \in [1..n -> A]
    BY <1>1
  <2>2. \A t \in A : \E i \in 1..n : list[i] = t
    BY <1>1
  <2> QED
    BY <2>1, <2>2, Fun_IsSurj
<1>4. IsFiniteSet(A) /\ Cardinality(A) <= n
  BY <1>2, <1>3, FS_Surjection
<1> HIDE DEF A
<1>5. IsFiniteSet(Members(q)) /\ Count(q) \in Nat
  BY CountType
<1>6. Cardinality(Members(q) \cup A) = Count(q) + Cardinality(A) - Cardinality(Members(q) \cap A)
  BY <1>4, <1>5, FS_Union DEF Count
<1>7. Cardinality(A) \in Nat /\ Cardinality(Members(q) \cap A) \in Nat
  BY <1>4, <1>5, FS_CardinalityType, FS_Intersection
<1>8. Count(PushAll(q, list)) = Cardinality(Members(q) \cup A)
  BY PushAllFacts DEF Count, A
<1> QED
  BY <1>1, <1>4, <1>5, <1>6, <1>7, <1>8

-----------------------------------------------------------------------------
(***************************************************************************)
(* The inductive invariant.  fillPool takes a list out of two queues, and  *)
(* the pushes into the unconfirmed queue are those of distinct             *)
(* transactions because the two queues hold different kinds.               *)
(***************************************************************************)
ByKind ==
  /\ Members(multisignature) \subseteq MultiTx
  /\ Members(queued) \cap MultiTx = {}

QueuesInv ==
  /\ QueueOK(unconfirmed) /\ QueueOK(bundled) /\ QueueOK(queued) /\ QueueOK(multisignature)
  /\ ready \subseteq Members(multisignature)
  /\ Count(unconfirmed) <= MaxTxsPerBlock
  /\ Count(bundled) <= MaxTxsPerQueue
  /\ Count(queued) <= MaxTxsPerQueue
  /\ Count(multisignature) <= MaxTxsPerQueue
  /\ ByKind
  /\ OnlyVerified

ControlInv ==
  /\ processed \in 0..ReindexAfter
  /\ receiver \in Tx \cup {None}
  /\ bundler \in [list : Seq(Tx), cur : Tx \cup {None}]
  /\ expirer \in [phase : 0..3, list : SUBSET Tx]
  /\ worker \in [list : Seq(Tx), cur : Tx \cup {None}]
  /\ verified \subseteq Tx

IInv == QueuesInv /\ ControlInv

\* What OrderKept says of one step
Orders ==
  /\ KeepsOrder(unconfirmed, unconfirmed')
  /\ KeepsOrder(bundled, bundled')
  /\ KeepsOrder(queued, queued')
  /\ KeepsOrder(multisignature, multisignature')

LEMMA SameQueueOrder == \A q : KeepsOrder(q, q)
BY DEF KeepsOrder

LEMMA FillingFacts ==
  ASSUME QueuesInv, Room > 0
  PROVE  /\ Filling \in Seq(Members(queued) \cup Members(multisignature))
         /\ Distinct(Filling)
         /\ Len(Filling) <= Room
<1> DEFINE s == Newest(multisignature)
           P == {i \in DOMAIN s : s[i] \in ready}
           M == Multisignatures
           Q == Limit(Newest(queued), Room - Len(M))
           b == IF Room >= MultisigLimit THEN MultisigLimit ELSE 0
<1>1. Room \in Nat
  BY CountType, PoolAssumption DEF Room
<1>2. s \in Seq(Members(multisignature)) /\ Distinct(s)
  BY NewestFacts DEF QueuesInv
<1>3. Keep(s, P) \in Seq(Members(multisignature)) /\ Distinct(Keep(s, P))
  <2>1. P \in SUBSET DOMAIN s /\ \A i, j \in P : s[i] = s[j] => i = j
    BY <1>2 DEF Distinct
  <2> QED
    BY <1>2, <2>1, KeepFacts, KeepDistinct
<1>4. b \in Nat /\ b <= Room
  BY <1>1, PoolAssumption
<1>5. M = Limit(Keep(s, P), b)
  BY DEF Multisignatures, ReadyMultisignatures
<1> HIDE DEF b, s, P
<1>6. M \in Seq(Members(multisignature)) /\ Distinct(M) /\ Len(M) \in Nat /\ Len(M) <= Room
  <2>1. M \in Seq(Members(multisignature)) /\ Distinct(M) /\ Len(M) <= b
    BY <1>3, <1>4, <1>5, LimitFacts
  <2> HIDE DEF M
  <2> QED
    BY <1>1, <1>4, <2>1
<1> HIDE DEF M
<1>7. Newest(queued) \in Seq(Members(queued)) /\ Distinct(Newest(queued))
  BY NewestFacts DEF QueuesInv
<1>8. Room - Len(M) \in Nat
  BY <1>1, <1>6
<1>9. Q \in Seq(Members(queued)) /\ Distinct(Q) /\ Len(Q) \in Nat /\ Len(Q) <= Room - Len(M)
  <2>1. Q \in Seq(Members(queued)) /\ Distinct(Q) /\ Len(Q) <= Room - Len(M)
    BY <1>7, <1>8, LimitFacts
  <2> HIDE DEF Q
  <2> QED
    BY <2>1
<1>10. Filling = M \o Q
  BY DEF Filling, M
<1> HIDE DEF Q
<1> DEFINE T == Members(queued) \cup Members(multisignature)
<1>11. M \in Seq(T) /\ Q \in Seq(T)
  BY <1>6, <1>9
<1> HIDE DEF T
<1>12. /\ Filling \in Seq(T) /\ Len(Filling) = Len(M) + Len(Q)
       /\ \A i \in 1..(Len(M) + Len(Q)) :
            Filling[i] = IF i <= Len(M) THEN M[i] ELSE Q[i - Len(M)]
  BY <1>10, <1>11, ConcatProperties
<1>13. ASSUME NEW i \in DOMAIN M, NEW j \in DOMAIN Q PROVE M[i] # Q[j]
  <2>1. M[i] \in Members(multisignature) /\ Q[j] \in Members(queued)
    BY <1>6, <1>9
  <2> QED
    BY <2>1 DEF QueuesInv, ByKind
<1>14. Distinct(Filling)
  <2> SUFFICES ASSUME NEW i \in 1..(Len(M) + Len(Q)), NEW j \in 1..(Len(M) + Len(Q)),
                      Filling[i] = Filling[j]
               PROVE  i = j
    BY <1>6, <1>9, <1>12 DEF Distinct
  <2>1. DOMAIN M = 1..Len(M) /\ DOMAIN Q = 1..Len(Q)
    BY <1>6, <1>9
  <2>2. CASE i <= Len(M) /\ j <= Len(M)
    BY <1>6, <1>9, <1>12, <2>1, <2>2 DEF Distinct
  <2>3. CASE ~(i <= Len(M)) /\ ~(j <= Len(M))
    <3>1. /\ i - Len(M) \in DOMAIN Q /\ j - Len(M) \in DOMAIN Q
          /\ Q[i - Len(M)] = Q[j - Len(M)]
      BY <1>6, <1>9, <1>12, <2>1, <2>3
    <3>2. i - Len(M) = j - Len(M)
      BY <1>9, <3>1 DEF Distinct
    <3> QED
      BY <1>6, <3>2
  <2>4. CASE i <= Len(M) /\ ~(j <= Len(M))
    <3>1. i \in DOMAIN M /\ j - Len(M) \in DOMAIN Q
      BY <1>6, <1>9, <2>1, <2>4
    <3>2. M[i] = Filling[i] /\ Q[j - Len(M)] = Filling[j]
      BY <1>12, <2>4
    <3> QED
      BY <1>13, <3>1, <3>2
  <2>5. CASE ~(i <= Len(M)) /\ j <= Len(M)
    <3>1. j \in DOMAIN M /\ i - Len(M) \in DOMAIN Q
      BY <1>6, <1>9, <2>1, <2>5
    <3>2. M[j] = Filling[j] /\ Q[i - Len(M)] = Filling[i]
      BY <1>12, <2>5
    <3> QED
      BY <1>13, <3>1, <3>2
  <2> QED
    BY <2>2, <2>3, <2>4, <2>5
<1> QED
  BY <1>1, <1>6, <1>9, <1>12, <1>14 DEF T

-----------------------------------------------------------------------------
(***************************************************************************)
(* What the actions do to the queues.                                      *)
(***************************************************************************)
LEMMA QueuesUntouched ==
  ASSUME QueuesInv, UNCHANGED queues, ready' \subseteq Members(multisignature),
         verified \subseteq verified'
  PROVE  QueuesInv' /\ Orders
<1>1. UNCHANGED <<unconfirmed, bundled, queued, multisignature>>
  BY DEF queues
<1>2. QueuesInv'
  BY <1>1 DEF QueuesInv, ByKind, OnlyVerified, Count, Members
<1>3. Orders
  BY <1>1, SameQueueOrder DEF Orders
<1> QED
  BY <1>2, <1>3

LEMMA AfterReindexFacts ==
  ASSUME NEW q, QueueOK(q)
  PROVE  /\ QueueOK(AfterReindex(q))
         /\ Members(AfterReindex(q)) = Members(q)
         /\ Count(AfterReindex(q)) = Count(q)
         /\ KeepsOrder(q, AfterReindex(q))
BY ReindexFacts, SameQueueOrder DEF AfterReindex, Count

LEMMA OrderComposes ==
  ASSUME NEW q, NEW r, NEW u, Members(q) \subseteq Members(r),
         KeepsOrder(q, r), KeepsOrder(r, u)
  PROVE  KeepsOrder(q, u)
BY DEF KeepsOrder

LEMMA ReceiveQueues ==
  ASSUME QueuesInv, NEW t \in Tx, Receive(t),
         \/ bundled' = AfterReindex(bundled)
         \/ bundled' = Enqueue(AfterReindex(bundled), t)
  PROVE  QueuesInv' /\ Orders
<1>1. /\ unconfirmed' = AfterReindex(unconfirmed) /\ queued' = AfterReindex(queued)
      /\ multisignature' = AfterReindex(multisignature)
      /\ ready' = ready /\ verified' = verified
  BY DEF Receive
<1>2. /\ QueueOK(unconfirmed') /\ QueueOK(queued') /\ QueueOK(multisignature')
      /\ Members(unconfirmed)' = Members(unconfirmed) /\ Count(unconfirmed)' = Count(unconfirmed)
      /\ Members(queued)' = Members(queued) /\ Count(queued)' = Count(queued)
      /\ Members(multisignature)' = Members(multisignature)
      /\ Count(multisignature)' = Count(multisignature)
      /\ KeepsOrder(unconfirmed, unconfirmed') /\ KeepsOrder(queued, queued')
      /\ KeepsOrder(multisignature, multisignature')
  BY <1>1, AfterReindexFacts DEF QueuesInv
<1>3. /\ QueueOK(bundled') /\ Count(bundled)' <= MaxTxsPerQueue
      /\ KeepsOrder(bundled, bundled')
  <2> DEFINE b == AfterReindex(bundled)
  <2>1. /\ QueueOK(b) /\ Members(b) = Members(bundled) /\ Count(b) <= MaxTxsPerQueue
        /\ KeepsOrder(bundled, b)
    BY AfterReindexFacts DEF QueuesInv
  <2> HIDE DEF b
  <2>2. /\ QueueOK(Enqueue(b, t)) /\ Count(Enqueue(b, t)) <= MaxTxsPerQueue
        /\ KeepsOrder(b, Enqueue(b, t))
    BY <2>1, EnqueueFacts
  <2>3. KeepsOrder(bundled, Enqueue(b, t))
    BY <2>1, <2>2, OrderComposes
  <2>4. bundled' = b \/ bundled' = Enqueue(b, t)
    BY DEF b
  <2> QED
    BY <2>1, <2>2, <2>3, <2>4
<1>4. QueuesInv'
  BY <1>1, <1>2, <1>3 DEF QueuesInv, ByKind, OnlyVerified
<1> QED
  BY <1>2, <1>3, <1>4 DEF Orders

\* A verified transaction enters the queue of its kind, if there is room.
LEMMA QueueTransactionQueues ==
  ASSUME QueuesInv, NEW t \in Tx, QueueTransaction(t), verified' = verified \cup {t},
         UNCHANGED <<unconfirmed, bundled, ready>>
  PROVE  QueuesInv' /\ Orders
<1>1. CASE t \in MultiTx
  <2>1. multisignature' = Enqueue(multisignature, t) /\ queued' = queued
    BY <1>1 DEF QueueTransaction
  <2>2. /\ QueueOK(multisignature') /\ Count(multisignature)' <= MaxTxsPerQueue
        /\ Members(multisignature) \subseteq Members(multisignature)'
        /\ Members(multisignature)' \subseteq Members(multisignature) \cup {t}
        /\ KeepsOrder(multisignature, multisignature')
    BY <2>1, EnqueueFacts DEF QueuesInv
  <2>3. /\ Members(unconfirmed)' = Members(unconfirmed) /\ Members(queued)' = Members(queued)
        /\ Count(unconfirmed)' = Count(unconfirmed) /\ Count(bundled)' = Count(bundled)
        /\ Count(queued)' = Count(queued)
    BY <2>1
  <2>4. QueuesInv'
    BY <1>1, <2>1, <2>2, <2>3 DEF QueuesInv, ByKind, OnlyVerified
  <2> QED
    BY <2>1, <2>2, <2>4, SameQueueOrder DEF Orders
<1>2. CASE t \notin MultiTx
  <2>1. queued' = Enqueue(queued, t) /\ multisignature' = multisignature
    BY <1>2 DEF QueueTransaction
  <2>2. /\ QueueOK(queued') /\ Count(queued)' <= MaxTxsPerQueue
        /\ Members(queued)' \subseteq Members(queued) \cup {t}
        /\ KeepsOrder(queued, queued')
    BY <2>1, EnqueueFacts DEF QueuesInv
  <2>3. /\ Members(unconfirmed)' = Members(unconfirmed)
        /\ Members(multisignature)' = Members(multisignature)
        /\ Count(unconfirmed)' = Count(unconfirmed) /\ Count(bundled)' = Count(bundled)
        /\ Count(multisignature)' = Count(multisignature)
    BY <2>1
  <2>4. QueuesInv'
    BY <1>2, <2>1, <2>2, <2>3 DEF QueuesInv, ByKind, OnlyVerified
  <2> QED
    BY <2>1, <2>2, <2>4, SameQueueOrder DEF Orders
<1> QED
  BY <1>1, <1>2

LEMMA DropCount ==
  ASSUME NEW q, QueueOK(q), NEW S \in SUBSET Tx
  PROVE  Count(DropAll(q, S)) <= Count(q)
BY DropFacts, CountFewer

LEMMA RemovedQueues ==
  ASSUME QueuesInv, NEW S \in SUBSET Tx, RemoveUnconfirmedTransactions(S),
         UNCHANGED <<bundled, verified>>
  PROVE  QueuesInv' /\ Orders
<1>1. /\ unconfirmed' = DropAll(unconfirmed, S) /\ queued' = DropAll(queued, S)
      /\ multisignature' = DropAll(multisignature, S) /\ ready' = ready \ S
  BY DEF RemoveUnconfirmedTransactions
<1>2. /\ QueueOK(unconfirmed') /\ QueueOK(queued') /\ QueueOK(multisignature')
      /\ Members(unconfirmed)' = Members(unconfirmed) \ S
      /\ Members(queued)' = Members(queued) \ S
      /\ Members(multisignature)' = Members(multisignature) \ S
      /\ KeepsOrder(unconfirmed, unconfirmed') /\ KeepsOrder(queued, queued')
      /\ KeepsOrder(multisignature, multisignature')
  BY <1>1, DropFacts DEF QueuesInv
<1>3. /\ Count(unconfirmed)' <= MaxTxsPerBlock /\ Count(queued)' <= MaxTxsPerQueue
      /\ Count(multisignature)' <= MaxTxsPerQueue
  <2>1. /\ Count(unconfirmed)' <= Count(unconfirmed) /\ Count(queued)' <= Count(queued)
        /\ Count(multisignature)' <= Count(multisignature)
    BY <1>1, DropCount DEF QueuesInv
  <2>2. \A q : Count(q) \in Nat
    BY CountType
  <2>3. /\ Count(unconfirmed)' \in Nat /\ Count(queued)' \in Nat
        /\ Count(multisignature)' \in Nat
    BY <2>2
  <2> QED
    BY <2>1, <2>2, <2>3, PoolAssumption DEF QueuesInv
<1>4. QueuesInv'
  BY <1>1, <1>2, <1>3 DEF QueuesInv, ByKind, OnlyVerified
<1> QED
  BY <1>2, <1>4, SameQueueOrder DEF Orders

LEMMA BundledNextQueues ==
  ASSUME QueuesInv, NEW t \in Tx, bundled' = Drop(bundled, t),
         UNCHANGED <<unconfirmed, queued, multisignature, ready, verified>>
  PROVE  QueuesInv' /\ Orders
<1>1. bundled' = DropAll(bundled, {t}) /\ {t} \in SUBSET Tx
  BY DEF Drop
<1>2. QueueOK(bundled') /\ KeepsOrder(bundled, bundled')
  BY <1>1, DropFacts DEF QueuesInv
<1>3. Count(bundled)' <= MaxTxsPerQueue
  <2>1. Count(bundled)' <= Count(bundled)
    BY <1>1, DropCount DEF QueuesInv
  <2>2. \A q : Count(q) \in Nat
    BY CountType
  <2>3. Count(bundled)' \in Nat
    BY <2>2
  <2> QED
    BY <2>1, <2>2, <2>3, PoolAssumption DEF QueuesInv
<1>4. /\ Members(unconfirmed)' = Members(unconfirmed) /\ Members(queued)' = Members(queued)
      /\ Members(multisignature)' = Members(multisignature)
      /\ Count(unconfirmed)' = Count(unconfirmed) /\ Count(queued)' = Count(queued)
      /\ Count(multisignature)' = Count(multisignature)
  OBVIOUS
<1>5. QueuesInv'
  BY <1>2, <1>3, <1>4 DEF QueuesInv, ByKind, OnlyVerified
<1> QED
  BY <1>2, <1>5, SameQueueOrder DEF Orders

\* fillPool moves at most as many transactions as a block has room for.
LEMMA FillPoolKeeps ==
  ASSUME IInv, FillPool
  PROVE  IInv' /\ Orders
<1> DEFINE list == Filling
           moved == {list[i] : i \in DOMAIN list}
<1>1. /\ Room > 0
      /\ multisignature' = DropAll(multisignature, moved \cap MultiTx)
      /\ queued' = DropAll(queued, moved \ MultiTx)
      /\ unconfirmed' = PushAll(unconfirmed, list)
      /\ ready' = ready \ moved
      /\ worker' = [worker EXCEPT !.list = list]
      /\ UNCHANGED <<bundled, processed, receiver, bundler, expirer, verified>>
  BY DEF FillPool
<1>2. /\ list \in Seq(Members(queued) \cup Members(multisignature))
      /\ Distinct(list) /\ Len(list) <= Room
  BY <1>1, FillingFacts DEF IInv
<1> HIDE DEF list
<1>3. moved \subseteq Members(queued) \cup Members(multisignature)
  BY <1>2
<1>4. Members(queued) \cup Members(multisignature) \subseteq Tx
  BY DEF Members
<1>5. list \in Seq(Tx) /\ moved \subseteq Tx /\ Len(list) \in Nat
  BY <1>2, <1>3, <1>4
<1>6. /\ QueueOK(unconfirmed')
      /\ Members(unconfirmed)' = Members(unconfirmed) \cup moved
      /\ KeepsOrder(unconfirmed, unconfirmed')
  BY <1>1, <1>2, <1>5, PushAllFacts DEF IInv, QueuesInv
<1>7. Count(unconfirmed)' <= MaxTxsPerBlock
  <2>1. Count(unconfirmed)' <= Count(unconfirmed) + Len(list)
    BY <1>1, <1>2, <1>5, PushAllCount DEF IInv, QueuesInv
  <2>2. \A q : Count(q) \in Nat
    BY CountType
  <2>3. Count(unconfirmed) \in Nat /\ Count(unconfirmed)' \in Nat /\ MaxTxsPerBlock \in Nat
    BY <2>2, PoolAssumption
  <2>4. Len(list) <= MaxTxsPerBlock - Count(unconfirmed)
    BY <1>2 DEF Room
  <2> QED
    BY <1>5, <2>1, <2>3, <2>4
<1> HIDE DEF moved
<1>8. /\ moved \cap MultiTx \in SUBSET Tx /\ moved \ MultiTx \in SUBSET Tx
  BY <1>5
<1>9. /\ QueueOK(multisignature')
      /\ Members(multisignature)' = Members(multisignature) \ (moved \cap MultiTx)
      /\ KeepsOrder(multisignature, multisignature')
      /\ Count(multisignature)' <= Count(multisignature)
  BY <1>1, <1>8, DropFacts, DropCount DEF IInv, QueuesInv
<1>10. /\ QueueOK(queued')
       /\ Members(queued)' = Members(queued) \ (moved \ MultiTx)
       /\ KeepsOrder(queued, queued')
       /\ Count(queued)' <= Count(queued)
  BY <1>1, <1>8, DropFacts, DropCount DEF IInv, QueuesInv
<1>11. Count(multisignature)' <= MaxTxsPerQueue /\ Count(queued)' <= MaxTxsPerQueue
  <2>1. \A q : Count(q) \in Nat
    BY CountType
  <2>2. Count(multisignature)' \in Nat /\ Count(queued)' \in Nat
    BY <2>1
  <2> QED
    BY <1>9, <1>10, <2>1, <2>2, PoolAssumption DEF IInv, QueuesInv
<1>12. QueueOK(bundled') /\ Count(bundled)' <= MaxTxsPerQueue
  BY <1>1 DEF IInv, QueuesInv
<1>13. ready' \subseteq Members(multisignature)'
  BY <1>1, <1>9 DEF IInv, QueuesInv
<1>14. OnlyVerified' /\ ByKind'
  BY <1>1, <1>3, <1>6, <1>9, <1>10 DEF IInv, QueuesInv, OnlyVerified, ByKind
<1>15. QueuesInv'
  BY <1>6, <1>7, <1>9, <1>10, <1>11, <1>12, <1>13, <1>14 DEF QueuesInv
<1>16. ControlInv'
  BY <1>1, <1>5 DEF IInv, ControlInv
<1>17. Orders
  BY <1>1, <1>6, <1>9, <1>10, SameQueueOrder DEF Orders
<1> QED
  BY <1>15, <1>16, <1>17 DEF IInv

-----------------------------------------------------------------------------
LEMMA ReceiverKeeps ==
  ASSUME IInv, Receiver
  PROVE  IInv' /\ Orders
<1>1. CASE ReceiveVerified
  <2>1. /\ receiver \in Tx /\ QueueTransaction(receiver)
        /\ verified' = verified \cup {receiver} /\ receiver' = None
        /\ UNCHANGED <<unconfirmed, bundled, processed, ready, bundler, expirer, worker>>
    BY <1>1 DEF ReceiveVerified, IInv, ControlInv
  <2>2. QueuesInv' /\ Orders
    BY <2>1, QueueTransactionQueues DEF IInv
  <2>3. ControlInv'
    BY <2>1 DEF IInv, ControlInv
  <2> QED
    BY <2>2, <2>3 DEF IInv
<1>2. CASE ReceiveRejected
  <2>1. QueuesInv' /\ Orders
    BY <1>2, QueuesUntouched DEF ReceiveRejected, IInv, QueuesInv
  <2>2. ControlInv'
    BY <1>2 DEF ReceiveRejected, IInv, ControlInv
  <2> QED
    BY <2>1, <2>2 DEF IInv
<1> QED
  BY <1>1, <1>2 DEF Receiver

LEMMA ReceiveKeeps ==
  ASSUME IInv, NEW t \in Tx, ReceiveTransaction(t) \/ ReceiveBundledTransaction(t)
  PROVE  IInv' /\ Orders
<1>1. /\ Receive(t) /\ receiver' \in Tx \cup {None}
      /\ \/ bundled' = AfterReindex(bundled)
         \/ bundled' = Enqueue(AfterReindex(bundled), t)
  BY DEF ReceiveTransaction, ReceiveBundledTransaction, IInv, ControlInv
<1>2. QueuesInv' /\ Orders
  BY <1>1, ReceiveQueues DEF IInv
<1>3. ControlInv'
  BY <1>1, PoolAssumption DEF Receive, IInv, ControlInv
<1> QED
  BY <1>2, <1>3 DEF IInv

LEMMA BundlerKeeps ==
  ASSUME IInv, Bundler
  PROVE  IInv' /\ Orders
<1>0. bundler \in [list : Seq(Tx), cur : Tx \cup {None}]
  BY DEF IInv, ControlInv
<1>1. CASE ProcessBundled
  <2>1. QueuesInv' /\ Orders
    BY <1>1, QueuesUntouched DEF ProcessBundled, IInv, QueuesInv
  <2>2. Limit(Newest(bundled), ReleaseLimit) \in Seq(Tx)
    <3>1. Newest(bundled) \in Seq(Members(bundled)) /\ Members(bundled) \subseteq Tx
      BY NewestFacts DEF IInv, QueuesInv, Members
    <3>2. Newest(bundled) \in Seq(Tx)
      BY <3>1
    <3> QED
      BY <3>2, LimitFacts, PoolAssumption
  <2>3. ControlInv'
    BY <1>1, <2>2 DEF ProcessBundled, IInv, ControlInv
  <2> QED
    BY <2>1, <2>3 DEF IInv
<1>2. CASE BundledNext
  <2>1. Head(bundler.list) \in Tx /\ Tail(bundler.list) \in Seq(Tx)
    BY <1>0, <1>2, HeadTailProperties DEF BundledNext
  <2>2. QueuesInv' /\ Orders
    BY <1>2, <2>1, BundledNextQueues DEF BundledNext, IInv
  <2>3. ControlInv'
    BY <1>2, <2>1 DEF BundledNext, IInv, ControlInv
  <2> QED
    BY <2>2, <2>3 DEF IInv
<1>3. CASE BundledVerified
  <2>1. /\ bundler.cur \in Tx /\ QueueTransaction(bundler.cur)
        /\ verified' = verified \cup {bundler.cur} /\ bundler' = [bundler EXCEPT !.cur = None]
        /\ UNCHANGED <<unconfirmed, bundled, processed, ready, receiver, expirer, worker>>
    BY <1>0, <1>3 DEF BundledVerified
  <2>2. QueuesInv' /\ Orders
    BY <2>1, QueueTransactionQueues DEF IInv
  <2>3. ControlInv'
    BY <2>1 DEF IInv, ControlInv
  <2> QED
    BY <2>2, <2>3 DEF IInv
<1>4. CASE BundledRejected
  <2>1. QueuesInv' /\ Orders
    BY <1>4, QueuesUntouched DEF BundledRejected, IInv, QueuesInv
  <2>2. ControlInv'
    BY <1>4 DEF BundledRejected, IInv, ControlInv
  <2> QED
    BY <2>1, <2>2 DEF IInv
<1> QED
  BY <1>1, <1>2, <1>3, <1>4 DEF Bundler

LEMMA ExpirerKeeps ==
  ASSUME IInv, Expirer
  PROVE  IInv' /\ Orders
<1>0. expirer \in [phase : 0..3, list : SUBSET Tx]
  BY DEF IInv, ControlInv
<1>1. CASE ExpireTransactions
  <2>1. QueuesInv' /\ Orders
    BY <1>1, QueuesUntouched DEF ExpireTransactions, IInv, QueuesInv
  <2>2. /\ Members(unconfirmed) \subseteq Tx /\ Members(queued) \subseteq Tx
        /\ Members(multisignature) \subseteq Tx
    BY DEF Members
  <2>3. expirer' \in [phase : 0..3, list : SUBSET Tx]
    BY <1>0, <1>1, <2>2 DEF ExpireTransactions, NotScanning
  <2>4. ControlInv'
    BY <1>1, <2>3 DEF ExpireTransactions, IInv, ControlInv
  <2> QED
    BY <2>1, <2>4 DEF IInv
<1>2. ASSUME NEW t \in Tx, ExpireTransaction(t) PROVE IInv' /\ Orders
  <2>1. QueuesInv' /\ Orders
    <3>1. {t} \in SUBSET Tx
      OBVIOUS
    <3> QED
      BY <1>2, <3>1, RemovedQueues DEF ExpireTransaction, IInv
  <2>2. ControlInv'
    BY <1>2 DEF ExpireTransaction, IInv, ControlInv
  <2> QED
    BY <2>1, <2>2 DEF IInv
<1>3. ASSUME NEW t \in Tx, NotExpired(t) PROVE IInv' /\ Orders
  <2>1. QueuesInv' /\ Orders
    BY <1>3, QueuesUntouched DEF NotExpired, IInv, QueuesInv
  <2>2. ControlInv'
    BY <1>3 DEF NotExpired, IInv, ControlInv
  <2> QED
    BY <2>1, <2>2 DEF IInv
<1> QED
  BY <1>1, <1>2, <1>3 DEF Expirer

LEMMA WorkerKeeps ==
  ASSUME IInv, Worker
  PROVE  IInv' /\ Orders
<1>0. worker \in [list : Seq(Tx), cur : Tx \cup {None}]
  BY DEF IInv, ControlInv
<1>1. CASE ApplyNext
  <2>1. QueuesInv' /\ Orders
    BY <1>1, QueuesUntouched DEF ApplyNext, IInv, QueuesInv
  <2>2. Head(worker.list) \in Tx /\ Tail(worker.list) \in Seq(Tx)
    BY <1>0, <1>1, HeadTailProperties DEF ApplyNext
  <2>3. ControlInv'
    BY <1>1, <2>2 DEF ApplyNext, IInv, ControlInv
  <2> QED
    BY <2>1, <2>3 DEF IInv
<1>2. CASE Applied
  <2>1. QueuesInv' /\ Orders
    BY <1>2, QueuesUntouched DEF Applied, IInv, QueuesInv
  <2>2. ControlInv'
    BY <1>2 DEF Applied, IInv, ControlInv
  <2> QED
    BY <2>1, <2>2 DEF IInv
<1>3. CASE ApplyFailed
  <2>1. {worker.cur} \in SUBSET Tx
    BY <1>0, <1>3 DEF ApplyFailed
  <2>2. QueuesInv' /\ Orders
    BY <1>3, <2>1, RemovedQueues DEF ApplyFailed, IInv
  <2>3. ControlInv'
    BY <1>3 DEF ApplyFailed, IInv, ControlInv
  <2> QED
    BY <2>2, <2>3 DEF IInv
<1> QED
  BY <1>1, <1>2, <1>3 DEF Worker

LEMMA InitIInv == Init => IInv
<1> SUFFICES ASSUME Init PROVE IInv
  OBVIOUS
<1>1. Count(EmptyQueue) = 0
  BY EmptyFacts, FS_EmptySet DEF Count
<1>2. QueuesInv
  BY <1>1, EmptyFacts, PoolAssumption DEF Init, QueuesInv, ByKind, OnlyVerified
<1>3. ControlInv
  BY PoolAssumption DEF Init, ControlInv, Idle, NotScanning
<1> QED
  BY <1>2, <1>3 DEF IInv

LEMMA NextIInv == IInv /\ [Next]_vars => IInv' /\ Orders
<1> SUFFICES ASSUME IInv, [Next]_vars PROVE IInv' /\ Orders
  OBVIOUS
<1>1. ASSUME NEW t \in Tx, ReceiveTransaction(t) \/ ReceiveBundledTransaction(t)
      PROVE  IInv' /\ Orders
  BY <1>1, ReceiveKeeps
<1>2. ASSUME NEW t \in Tx, RemoveUnconfirmedTransaction(t) PROVE IInv' /\ Orders
  <2>1. {t} \in SUBSET Tx
    OBVIOUS
  <2>2. QueuesInv' /\ Orders
    BY <1>2, <2>1, RemovedQueues DEF RemoveUnconfirmedTransaction, IInv
  <2>3. ControlInv'
    BY <1>2 DEF RemoveUnconfirmedTransaction, IInv, ControlInv
  <2> QED
    BY <2>2, <2>3 DEF IInv
<1>3. ASSUME NEW t \in Tx, SignatureReady(t) PROVE IInv' /\ Orders
  <2>1. QueuesInv' /\ Orders
    BY <1>3, QueuesUntouched DEF SignatureReady, IInv, QueuesInv
  <2>2. ControlInv'
    BY <1>3 DEF SignatureReady, IInv, ControlInv
  <2> QED
    BY <2>1, <2>2 DEF IInv
<1>4. CASE UNCHANGED vars
  <2>1. QueuesInv' /\ Orders
    BY <1>4, QueuesUntouched DEF vars, IInv, QueuesInv
  <2>2. ControlInv'
    BY <1>4 DEF vars, IInv, ControlInv
  <2> QED
    BY <2>1, <2>2 DEF IInv
<1> QED
  BY <1>1, <1>2, <1>3, <1>4, ReceiverKeeps, BundlerKeeps, ExpirerKeeps, FillPoolKeeps,
     WorkerKeeps DEF Next

LEMMA Invariant == Spec => []IInv
BY InitIInv, NextIInv, PTL DEF Spec

(***************************************************************************)
(* Index and array agree and the limits hold, in every reachable state.    *)
(***************************************************************************)
THEOREM QueuesAgree == Spec => []QueuesOK
<1>1. IInv => QueuesOK
  BY DEF IInv, QueuesInv, ControlInv, QueuesOK, TypeOK, WithinLimits
<1> QED
  BY <1>1, Invariant, PTL

(***************************************************************************)
(* Nothing unverified may enter a block or be handed to another node.      *)
(***************************************************************************)
THEOREM VerifiedBefore == Spec => []OnlyVerified
<1>1. IInv => OnlyVerified
  BY DEF IInv, QueuesInv
<1> QED
  BY <1>1, Invariant, PTL

(***************************************************************************)
(* No step changes the order of the transactions that stay in a queue: not *)
(* a compaction either, whatever the queue went through before.            *)
(***************************************************************************)
THEOREM OrderStays == Spec => OrderKept
<1>1. IInv /\ [Next]_vars =>
        [/\ KeepsOrder(unconfirmed, unconfirmed')
         /\ KeepsOrder(bundled, bundled')
         /\ KeepsOrder(queued, queued')
         /\ KeepsOrder(multisignature, multisignature')]_vars
  BY NextIInv DEF Orders
<1> QED
  BY <1>1, Invariant, PTL DEF Spec, OrderKept
=============================================================================
